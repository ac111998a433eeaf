-------------------------- MODULE CredentialStore --------------------------
(***************************************************************************)
(* The saved OAuth login: credentials.json (runtime/src/oauth.rs), the     *)
(* commands login and logout (claw-cli/src/main.rs), and what every start  *)
(* of the program does with the saved token, refreshing one that has       *)
(* expired (api/src/providers/claw_provider.rs).  Programs do this at the  *)
(* same time, without a lock, through one temporary file of a fixed name,  *)
(* and may end between any two steps.                                      *)
(***************************************************************************)
EXTENDS Naturals, FiniteSets

CONSTANTS
  Programs,      \* programs that may run at once
  MaxTokens,     \* bound: tokens the authorization server issues
  MaxCommands    \* bound: commands begun

ASSUME CredentialAssumption == MaxTokens \in Nat /\ MaxCommands \in Nat

VARIABLES
  real,        \* credentials.json
  temp,        \* credentials.json.tmp
  at,          \* where each program is
  task,        \* login, logout or start
  token,       \* the token set a program has in memory
  root,        \* the JSON object it is about to write
  fd,          \* the file its handle is bound to, which a rename may move
  configured,  \* do the settings have an oauth section?
  expired,     \* access tokens past expires_at
  honoured,    \* refresh tokens the server accepts
  issued,      \* bound: tokens issued so far
  commands,    \* bound: commands left
  bare,        \* history: tokens of logins that were given no refresh token
  overlapped,  \* history: were two saves ever between the open and the rename?
  dropped,     \* history: was a new token ever not saved?
  crossed      \* history: was a token replaced while another program saves it?

bothFiles   == <<real, temp, fd>>
memory  == <<at, task, token, root>>
server  == <<expired, honoured, issued, bare>>
history == <<overlapped, dropped, crossed>>
credentialVars == <<bothFiles, memory, server, configured, commands, history>>

-----------------------------------------------------------------------------
(* A file: absent, empty, not JSON, or an object that may hold a token and *)
(* whatever else the user keeps in it.                                     *)
None           == [access |-> 0, refresh |-> 0]
Object(t, o)   == [state |-> "object", oauth |-> t, others |-> o]
NotObject(s)   == [state |-> s, oauth |-> None, others |-> FALSE]
Absent         == NotObject("absent")
Empty          == NotObject("empty")
Garbled        == NotObject("garbled")
Handles        == {"none", "temp", "real", "unlinked"}

(* read_credentials_root: nothing and an empty file count as an object     *)
(* without entries, anything else must parse.                              *)
RootOf(file) == IF file \in {Absent, Empty} THEN Object(None, FALSE) ELSE file
Readable(file) == file # Garbled

CredentialInit ==
  /\ real \in {Absent, Object(None, TRUE)} /\ temp = Absent
  /\ at = [p \in Programs |-> "idle"] /\ task = [p \in Programs |-> "start"]
  /\ token = [p \in Programs |-> None] /\ root = [p \in Programs |-> Absent]
  /\ fd = [p \in Programs |-> "none"]
  /\ configured \in BOOLEAN
  /\ expired = {} /\ honoured = {} /\ issued = 0 /\ bare = {}
  /\ commands \in {0, MaxCommands}
  /\ overlapped = FALSE /\ dropped = FALSE /\ crossed = FALSE

Goto(p, step) == at' = [at EXCEPT ![p] = step]

(* A command that is over leaves nothing in memory.                        *)
Over(p) ==
  /\ at' = [at EXCEPT ![p] = "idle"]
  /\ token' = [token EXCEPT ![p] = None]
  /\ root' = [root EXCEPT ![p] = Absent]
  /\ fd' = [fd EXCEPT ![p] = "none"]
  /\ UNCHANGED task

-----------------------------------------------------------------------------
(* The callback of a login is awaited on one port: a second login fails to *)
(* bind it.                                                                *)
FirstStep == [start |-> "load", login |-> "callback", logout |-> "save"]

Begin(p, c) ==
  /\ at[p] = "idle" /\ commands > 0
  /\ c = "login" => \A q \in Programs : at[q] # "callback"
  /\ commands' = commands - 1
  /\ task' = [task EXCEPT ![p] = c]
  /\ Goto(p, FirstStep[c])
  /\ UNCHANGED <<bothFiles, token, root, server, configured, history>>

(* The server's answer to a login, and to a refresh: it may hand out a new *)
(* refresh token, and then the old one is void, or leave it out: then the  *)
(* old one is kept.  Below, it is not.                                     *)
AnsweredOnly(access, refresh, kept) == [access |-> access, refresh |-> refresh]
Answered(access, refresh, kept) ==
  [access |-> access, refresh |-> IF refresh # 0 THEN refresh ELSE kept]

Authorize(p) ==
  /\ at[p] = "callback" /\ issued < MaxTokens
  /\ issued' = issued + 1
  /\ \E refresh \in {0, issued + 1} :
       /\ token' = [token EXCEPT ![p] = Answered(issued + 1, refresh, 0)]
       /\ honoured' = honoured \cup ({refresh} \ {0})
       /\ bare' = IF refresh = 0 THEN bare \cup {issued + 1} ELSE bare
  /\ Goto(p, "save")
  /\ UNCHANGED <<bothFiles, task, root, expired, configured, commands, history>>

(* The user refuses, the state does not match, the exchange fails.         *)
AuthorizeFails(p) ==
  /\ at[p] = "callback"
  /\ Over(p) /\ UNCHANGED <<real, temp, server, configured, commands, history>>

Expire(t) ==
  /\ t \in (1..issued) \ expired
  /\ expired' = expired \cup {t}
  /\ UNCHANGED <<bothFiles, memory, honoured, issued, bare, configured, commands, history>>

(* Does the program have a token in memory?                                *)
Holding(p) == token[p] # None

(* resolve_startup_auth_source: the saved token is used as it is unless it *)
(* has expired; then it needs a refresh token and an oauth section in the  *)
(* settings (a login does without the section: it has a default).          *)
MustRefresh(t) == t.access \in expired /\ t.refresh # 0 /\ configured

LoadToken(p) ==
  /\ at[p] = "load"
  /\ LET saved == RootOf(real).oauth IN
       IF Readable(real) /\ saved # None /\ MustRefresh(saved)
       THEN /\ Goto(p, "refresh")
            /\ token' = [token EXCEPT ![p] = saved]
            /\ UNCHANGED <<task, root, fd>>
       ELSE Over(p)
  /\ UNCHANGED <<real, temp, server, configured, commands, history>>

Refresh(p) ==
  /\ at[p] = "refresh" /\ token[p].refresh \in honoured /\ issued < MaxTokens
  /\ issued' = issued + 1
  /\ \E refresh \in {0, issued + 1} :
       /\ token' = [token EXCEPT ![p] = Answered(issued + 1, refresh, token[p].refresh)]
       /\ honoured' = IF refresh = 0 THEN honoured
                      ELSE (honoured \ {token[p].refresh}) \cup {refresh}
       /\ crossed' = \/ crossed
                     \/ /\ refresh # 0
                        /\ \E q \in Programs \ {p} : at[q] # "refresh" /\ token[q].refresh = token[p].refresh
  /\ Goto(p, "save")
  /\ UNCHANGED <<bothFiles, task, root, expired, bare, configured, commands, overlapped, dropped>>

RefreshFails(p) ==
  /\ at[p] = "refresh"
  /\ Over(p) /\ UNCHANGED <<real, temp, server, configured, commands, history>>

-----------------------------------------------------------------------------
(* save_oauth_credentials and clear_oauth_credentials: read the object,    *)
(* change its token, write the temporary file, rename it.                  *)

ReadRoot(p) ==
  /\ at[p] = "save" /\ Readable(real)
  /\ root' = [root EXCEPT ![p] = [RootOf(real) EXCEPT !.oauth =
                IF task[p] = "logout" THEN None ELSE token[p]]]
  /\ Goto(p, "open")
  /\ UNCHANGED <<bothFiles, task, token, server, configured, commands, history>>

(* The file each handle writes to: fs::write opens and truncates, and the  *)
(* handle stays with the file when another program renames it.  Below, the *)
(* credentials are written in place.                                       *)
InPlace == "real"
Target == "temp"

OpenTemp(p) ==
  /\ at[p] = "open"
  /\ temp' = IF Target = "temp" THEN Empty ELSE temp
  /\ real' = IF Target = "real" THEN Empty ELSE real
  /\ fd' = [fd EXCEPT ![p] = Target]
  /\ overlapped' = (overlapped \/ \E q \in Programs \ {p} : at[q] \in {"fill", "rename"})
  /\ Goto(p, "fill")
  /\ UNCHANGED <<task, token, root, server, configured, commands, dropped, crossed>>

(* Over what another handle wrote, a shorter text leaves a tail.           *)
FilledOver(file, new) == IF file = Empty THEN {new} ELSE {new, Garbled}

FillTemp(p) ==
  /\ at[p] = "fill"
  /\ temp' \in IF fd[p] = "temp" THEN FilledOver(temp, root[p]) ELSE {temp}
  /\ real' \in IF fd[p] = "real" THEN FilledOver(real, root[p]) ELSE {real}
  /\ Goto(p, "rename")
  /\ UNCHANGED <<fd, task, token, root, server, configured, commands, history>>

(* The temporary file takes the place of the real one, whose handles now   *)
(* write to a file without a name.                                         *)
StaysWith(handle) == IF handle = "temp" THEN "real" ELSE IF handle = "real" THEN "unlinked" ELSE handle

Rename(p) ==
  /\ at[p] = "rename" /\ temp # Absent
  /\ real' = temp /\ temp' = Absent
  /\ at' = [at EXCEPT ![p] = "idle"]
  /\ token' = [token EXCEPT ![p] = None] /\ root' = [root EXCEPT ![p] = Absent]
  /\ fd' = [q \in Programs |-> IF q = p THEN "none" ELSE StaysWith(fd[q])]
  /\ UNCHANGED <<task, server, configured, commands, history>>

(* A save fails: the object cannot be parsed, the directory cannot be made *)
(* or the file opened, the disk is full, or another program has renamed    *)
(* the file away.  The end of the program is no different.                 *)
SaveFails(p) ==
  /\ at[p] \in {"save", "open", "fill", "rename"}
  /\ temp' \in IF at[p] = "fill" /\ fd[p] = "temp" THEN {temp, Garbled} ELSE {temp}
  /\ real' \in IF at[p] = "fill" /\ fd[p] = "real" THEN {real, Garbled} ELSE {real}
  /\ dropped' = (dropped \/ Holding(p))
  /\ Over(p)
  /\ UNCHANGED <<server, configured, commands, overlapped, crossed>>

-----------------------------------------------------------------------------
ProgramStep(p) ==
  \/ Authorize(p) \/ AuthorizeFails(p)
  \/ LoadToken(p) \/ Refresh(p) \/ RefreshFails(p)
  \/ ReadRoot(p) \/ OpenTemp(p) \/ FillTemp(p) \/ Rename(p) \/ SaveFails(p)

CredentialNext ==
  \/ \E p \in Programs, c \in {"start", "login", "logout"} : Begin(p, c)
  \/ \E p \in Programs : ProgramStep(p)
  \/ \E t \in 1..MaxTokens : Expire(t)

CredentialSpec == CredentialInit /\ [][CredentialNext]_credentialVars

-----------------------------------------------------------------------------
(* Whatever fails and whenever a program ends, credentials.json is absent  *)
(* or a whole object that still has what else the user keeps in it, unless *)
(* two programs were saving at once: these share the temporary file, and   *)
(* one may rename what the other has just truncated.                       *)
CredentialsAreWhole ==
  ~overlapped => /\ real.state \in {"absent", "object"}
                 /\ \A p \in Programs : root[p] # Absent => root[p].others = RootOf(real).others

(* The saved login can be used once more: its refresh token is one the     *)
(* server accepts, or a login gave none, or a program that has just        *)
(* replaced it is about to save the new one.  Excepted are a new token     *)
(* that could not be saved, for the old one is void by then, and a server  *)
(* that answers two refreshes of one token, the second with a replacement, *)
(* after which the first program saves the one that is void.               *)
LoginIsKept ==
  LET saved == RootOf(real).oauth IN
    ~overlapped /\ ~dropped /\ ~crossed /\ saved # None =>
      \/ saved.refresh \in honoured
      \/ saved.access \in bare
      \/ \E p \in Programs : token[p].refresh \in honoured
=============================================================================
