------------------------------ MODULE Sandbox ------------------------------
(***************************************************************************)
(* The isolation that a bash command runs in: the wishes of the call over  *)
(* those of the settings over the defaults, what the machine supports,     *)
(* what the answer says of it, and the shell that is started               *)
(* (runtime/src/sandbox.rs and the preparation of a command in bash.rs).   *)
(* The settings are read for each call, and may change between two.        *)
(***************************************************************************)
EXTENDS Naturals

CONSTANTS
  CallWishes,      \* what a call may ask for: per aspect a set with its value, or none
  SettingsWishes,  \* what the settings may ask for
  Machines         \* [unshare: is it on the PATH?, traces: of a container]

Aspects == {"enabled", "namespaces", "network", "filesystem", "mounts"}
Silent  == [a \in Aspects |-> {}]

ASSUME SandboxAssumption ==
  /\ \A w \in CallWishes \cup SettingsWishes :
       /\ DOMAIN w = Aspects
       /\ \A a \in Aspects : \A u, v \in w[a] : u = v
       /\ \A a \in {"enabled", "namespaces", "network"} : w[a] \subseteq BOOLEAN
  /\ \A m \in Machines : m.unshare \in BOOLEAN

VARIABLES
  machine,
  settings,    \* what the files ask for
  readable,    \* do they load?
  asked,       \* what the call asks for
  background,  \* is it to run in the background?
  stage,       \* of the call: none, called, resolved, launched
  consulted,   \* history: what the settings asked for when the call looked
  isolation,      \* SandboxStatus
  shell,       \* what runs the command
  folders      \* do .sandbox-home and .sandbox-tmp exist?

sandboxVars == <<machine, settings, readable, asked, background, stage, consulted, isolation, shell,
                 folders>>

Idle == [by |-> "nothing"]

SandboxInit ==
  /\ machine \in Machines /\ settings \in SettingsWishes /\ readable \in BOOLEAN
  /\ asked = Idle /\ background = FALSE /\ stage = "none" /\ consulted = Idle
  /\ isolation = Idle /\ shell = Idle /\ folders = FALSE

CallBash ==
  /\ stage \in {"none", "launched"}
  /\ asked' \in CallWishes /\ background' \in BOOLEAN
  /\ stage' = "called"
  /\ consulted' = Idle /\ isolation' = Idle /\ shell' = Idle
  /\ UNCHANGED <<machine, settings, readable, folders>>

-----------------------------------------------------------------------------
(* resolve_request.                                                        *)
Default == [enabled |-> TRUE, namespaces |-> TRUE, network |-> FALSE,
            filesystem |-> "workspace-only", mounts |-> {}]

(* SandboxConfig: mounts that are not set are none.                        *)
Configured == IF readable THEN settings ELSE Silent

Request ==
  [a \in Aspects |-> CHOOSE v \in IF asked[a] # {} THEN asked[a]
                                   ELSE IF Configured[a] # {} THEN Configured[a]
                                   ELSE {Default[a]} : TRUE]

(* The reasons why something that was asked for is not in force.           *)
Missing(r) ==
  {a \in {"namespaces", "network"} : r.enabled /\ r[a] /\ ~machine.unshare}
    \cup {a \in {"mounts"} : r.enabled /\ r.filesystem = "allow-list" /\ r.mounts = {}}

(* resolve_sandbox_status_for_request.                                     *)
StatusOf(r) ==
  [enabled          |-> r.enabled,
   requested        |-> r,
   active           |-> r.enabled /\ (r.namespaces \/ r.network => machine.unshare),
   namespaceActive  |-> r.enabled /\ r.namespaces /\ machine.unshare,
   networkActive    |-> r.enabled /\ r.network /\ machine.unshare,
   filesystemActive |-> r.enabled /\ r.filesystem # "off",
   inContainer      |-> machine.traces # {},
   reasons          |-> Missing(r)]

Resolve ==
  /\ stage = "called"
  /\ stage' = "resolved"
  /\ consulted' = Configured /\ isolation' = StatusOf(Request)
  /\ UNCHANGED <<machine, settings, readable, asked, background, shell, folders>>

-----------------------------------------------------------------------------
(* build_linux_sandbox_command: is there a launcher?  First, one for       *)
(* namespaces only.                                                        *)
IfNamespaces == isolation.enabled /\ isolation.namespaceActive
Launcher == isolation.enabled /\ (isolation.namespaceActive \/ isolation.networkActive)

Launched ==
  IF Launcher
  THEN [by |-> "unshare", network |-> IF isolation.networkActive THEN "own" ELSE "shared",
        home |-> "workspace", mode |-> isolation.requested.filesystem]
  ELSE [by |-> "sh", network |-> "shared",
        home |-> IF isolation.filesystemActive THEN "workspace" ELSE "user", mode |-> "off"]

(* prepare_command; that the folders cannot be made is not noticed.        *)
Launch ==
  /\ stage = "resolved"
  /\ stage' = "launched"
  /\ shell' = Launched
  /\ \/ UNCHANGED folders
     \/ ~background /\ folders' = TRUE
  /\ UNCHANGED <<machine, settings, readable, asked, background, consulted, isolation>>

-----------------------------------------------------------------------------
(* Somebody edits the settings, or a command removes the folders: external.*)
EditSettings ==
  /\ settings' \in SettingsWishes /\ readable' \in BOOLEAN
  /\ UNCHANGED <<machine, asked, background, stage, consulted, isolation, shell, folders>>

LoseFolders ==
  /\ folders /\ folders' = FALSE
  /\ UNCHANGED <<machine, settings, readable, asked, background, stage, consulted, isolation, shell>>

SandboxNext == CallBash \/ Resolve \/ Launch \/ EditSettings \/ LoseFolders

SandboxSpec == SandboxInit /\ [][SandboxNext]_sandboxVars

-----------------------------------------------------------------------------
(* What a call means by itself: the last to speak of an aspect decides.    *)
Wants(a, v) ==
  \/ v \in asked[a]
  \/ asked[a] = {} /\ v \in consulted[a]
  \/ asked[a] = {} /\ consulted[a] = {} /\ v = Default[a]

(* The answer tells the truth of the shell it speaks of, and the shell is  *)
(* what was asked for or the answer says what is missing: a network of its *)
(* own, namespaces (they come with the network, too), a home in the        *)
(* workspace (it comes with the namespaces).  What is not enabled isolates *)
(* nothing; settings that do not load never turn anything off.             *)
IsolationIsTold ==
  stage = "launched" =>
    /\ isolation.networkActive <=> shell.network = "own"
    /\ isolation.namespaceActive => shell.by = "unshare"
    /\ shell.by = "unshare" => isolation.namespaceActive \/ isolation.networkActive
    /\ isolation.filesystemActive => shell.home = "workspace"
    /\ shell.home = "workspace" => isolation.filesystemActive \/ shell.by = "unshare"
    /\ Wants("enabled", FALSE) <=> ~isolation.enabled
    /\ ~isolation.enabled => shell.by = "sh" /\ shell.home = "user" /\ ~isolation.active
    /\ isolation.enabled =>
         /\ Wants("network", TRUE) <=> shell.network = "own" \/ "network" \in isolation.reasons
         /\ Wants("namespaces", TRUE) => shell.by = "unshare" \/ "namespaces" \in isolation.reasons
         /\ Wants("filesystem", "off") \/ shell.home = "workspace"
         /\ isolation.active <=> isolation.reasons \subseteq {"mounts"}
=============================================================================
