--------------------------- MODULE SavedSessions ---------------------------
(***************************************************************************)
(* Sessions and their files: what the interactive program (LiveCli in      *)
(* claw-cli/src/main.rs) and the batch commands of --resume do to the      *)
(* session in memory and to the file it is saved in.  A save is one        *)
(* fs::write, which truncates the file and then fills it; the program may  *)
(* end at any time, also between the two; several programs may use one     *)
(* file.  What a turn appends is taken from module Conversation: a turn    *)
(* that returns Ok leaves a session in which every call has its result.    *)
(***************************************************************************)
EXTENDS Integers, Sequences, SequencesExt

CONSTANTS
  Programs,   \* processes of the claw binary
  NoProgram,  \* stands for: no program, or a mixture of two
  Preserve,   \* CompactionConfig::preserve_recent_messages
  TurnShapes, \* bound: how many tools each reply of a turn calls but the last
  MaxTurns,   \* bound: turns begun, in all programs
  MaxTime     \* bound: milliseconds; a session's file is named by its own

ASSUME SessionsAssumption ==
  /\ NoProgram \notin Programs
  /\ Preserve \in Nat \ {0}
  /\ TurnShapes \subseteq Seq(Nat \ {0})
  /\ MaxTurns \in Nat /\ MaxTime \in Nat \ {0}

VARIABLES
  now,        \* the clock the ids are made from
  turns,      \* turns begun: numbers them
  at,         \* what a program is doing
  after,      \* what it does when the save is done
  file,       \* the file of its session
  born,       \* when it made its last session
  session,    \* the messages of ConversationRuntime::session
  disk,       \* the files
  kept,       \* history: the last whole content of a file ...
  author      \* ... and its writer, if the file was not mixed up since

programs == <<at, after, file, born, session>>
files    == <<disk, kept, author>>
vars     == <<now, turns, programs, files>>

Files == 1..MaxTime

(* A reply carries the number of its tool calls.                           *)
User(n)     == [kind |-> "user", turn |-> n, calls |-> 0]
Reply(n, k) == [kind |-> "reply", turn |-> n, calls |-> k]
Result(n)   == [kind |-> "result", turn |-> n, calls |-> 0]
Summary     == [kind |-> "summary", turn |-> 0, calls |-> 0]

-----------------------------------------------------------------------------
(* The messages of turn n: the input, each reply with the results of its   *)
(* calls, the reply without calls.  A failed turn has a prefix of it.      *)
TurnMessages(n, shape) ==
  <<User(n)>>
  \o FlattenSeq([i \in DOMAIN shape |->
                   <<Reply(n, shape[i])>> \o [j \in 1..shape[i] |-> Result(n)]])
  \o <<Reply(n, 0)>>

HasSummary(messages) == messages # <<>> /\ Head(messages) = Summary

(* should_compact, its sizes aside: more than Preserve messages besides    *)
(* the summary.  Below, the summary counted as a message.                  *)
MoreThanPreserved(messages) == Len(messages) > Preserve
Compactable(messages) ==
  Len(messages) - (IF HasSummary(messages) THEN 1 ELSE 0) > Preserve

(* compact_session: one summary instead of all but the last messages.      *)
(* Below, a summary put in front of an older one.                          *)
SummaryInFront(messages) ==
  <<Summary>> \o (IF HasSummary(messages) THEN <<Summary>> ELSE <<>>)
              \o SubSeq(messages, Len(messages) - Preserve + 1, Len(messages))
Compacted(messages) ==
  <<Summary>> \o SubSeq(messages, Len(messages) - Preserve + 1, Len(messages))

-----------------------------------------------------------------------------
Init ==
  /\ now = 1
  /\ turns = 0
  /\ at = [p \in Programs |-> "off"]
  /\ after = [p \in Programs |-> "off"]
  /\ file = [p \in Programs |-> 1]
  /\ born = [p \in Programs |-> 0]
  /\ session = [p \in Programs |-> <<>>]
  /\ disk = [f \in Files |-> [state |-> "absent", messages |-> <<>>]]
  /\ kept = [f \in Files |-> <<>>]
  /\ author = [f \in Files |-> NoProgram]

Tick ==
  /\ now < MaxTime
  /\ now' = now + 1
  /\ UNCHANGED <<turns, programs, files>>

(* persist_session is called and then the program does `next'.             *)
ThenSave(p, next) ==
  /\ at' = [at EXCEPT ![p] = "saving"]
  /\ after' = [after EXCEPT ![p] = next]

(* A session of its own, in a file named by the millisecond: a program     *)
(* needs longer than that between two, but two programs do not.            *)
NewSession(p) ==
  /\ born[p] < now
  /\ born' = [born EXCEPT ![p] = now]
  /\ file' = [file EXCEPT ![p] = now]
  /\ session' = [session EXCEPT ![p] = <<>>]
  /\ ThenSave(p, "idle")

(* The program is gone, and with it what it had in memory.                 *)
Gone(p) ==
  /\ at' = [at EXCEPT ![p] = "off"]
  /\ after' = [after EXCEPT ![p] = "off"]
  /\ file' = [file EXCEPT ![p] = 1]
  /\ session' = [session EXCEPT ![p] = <<>>]
  /\ UNCHANGED born

(* LiveCli::new, for the interactive loop and for one prompt.              *)
Start(p) ==
  /\ at[p] = "off"
  /\ NewSession(p)
  /\ UNCHANGED <<now, turns, files>>

(* /clear --confirm                                                        *)
Clear(p) ==
  /\ at[p] = "idle"
  /\ NewSession(p)
  /\ UNCHANGED <<now, turns, files>>

BeginTurn(p) ==
  /\ at[p] = "idle"
  /\ turns < MaxTurns
  /\ turns' = turns + 1
  /\ at' = [at EXCEPT ![p] = "turn"]
  /\ UNCHANGED <<now, after, file, born, session, files>>

(* run_turn returned Ok: its messages are in the session, which is saved.  *)
FinishTurn(p) ==
  /\ at[p] = "turn"
  /\ \E shape \in TurnShapes :
       /\ session' = [session EXCEPT ![p] = @ \o TurnMessages(turns, shape)]
  /\ ThenSave(p, "idle")
  /\ UNCHANGED <<now, turns, file, born, files>>

(* run_turn returned an error: the loop returns it and the program ends.   *)
FailTurn(p) ==
  /\ at[p] = "turn"
  /\ Gone(p)
  /\ UNCHANGED <<now, turns, files>>

(* /compact: without an effect below 10,000 estimated tokens.              *)
CompactedOr(messages) ==
  {messages} \cup (IF Compactable(messages) THEN {Compacted(messages)} ELSE {})

(* /compact that leaves the saving to the next turn.                       *)
CompactUnsaved(p) ==
  /\ at[p] = "idle"
  /\ \E messages \in CompactedOr(session[p]) :
       session' = [session EXCEPT ![p] = messages]
  /\ UNCHANGED <<now, turns, at, after, file, born, files>>

Compact(p) ==
  /\ at[p] = "idle"
  /\ \E messages \in CompactedOr(session[p]) :
       session' = [session EXCEPT ![p] = messages]
  /\ ThenSave(p, "idle")
  /\ UNCHANGED <<now, turns, file, born, files>>

(* /model, /permissions, /plugins and /commit rebuild the runtime around   *)
(* the same session, and save it.                                          *)
Rebuild(p) ==
  /\ at[p] = "idle"
  /\ ThenSave(p, "idle")
  /\ UNCHANGED <<now, turns, file, born, session, files>>

(* /exit and the end of the input                                          *)
Exit(p) ==
  /\ at[p] = "idle"
  /\ ThenSave(p, "off")
  /\ UNCHANGED <<now, turns, file, born, session, files>>

(* Another session is read into the file of this one.                      *)
LoadIntoOwnFile(p, f) ==
  /\ disk[f].state = "whole"
  /\ session' = [session EXCEPT ![p] = disk[f].messages]
  /\ UNCHANGED file

(* /resume and /session switch; and --resume with a file.  A file that     *)
(* cannot be parsed is an error, which ends the program.                   *)
Load(p, f) ==
  /\ disk[f].state = "whole"
  /\ file' = [file EXCEPT ![p] = f]
  /\ session' = [session EXCEPT ![p] = disk[f].messages]

Resume(p, f) ==
  /\ at[p] = "idle"
  /\ Load(p, f)
  /\ ThenSave(p, "idle")
  /\ UNCHANGED <<now, turns, born, files>>

FailResume(p, f) ==
  /\ at[p] = "idle"
  /\ disk[f].state \in {"empty", "torn"}
  /\ Gone(p)
  /\ UNCHANGED <<now, turns, files>>

StartBatch(p, f) ==
  /\ at[p] = "off"
  /\ Load(p, f)
  /\ at' = [at EXCEPT ![p] = "batch"]
  /\ UNCHANGED <<now, turns, after, born, files>>

(* --resume file /compact, which compacts whatever the size, and /clear    *)
BatchCompact(p) ==
  /\ at[p] = "batch"
  /\ session' = [session EXCEPT ![p] = IF Compactable(@) THEN Compacted(@) ELSE @]
  /\ ThenSave(p, "batch")
  /\ UNCHANGED <<now, turns, file, born, files>>

BatchClear(p) ==
  /\ at[p] = "batch"
  /\ session' = [session EXCEPT ![p] = <<>>]
  /\ ThenSave(p, "batch")
  /\ UNCHANGED <<now, turns, file, born, files>>

(***************************************************************************)
(* Session::save_to_path: fs::write truncates, then writes at offset 0.    *)
(***************************************************************************)
Truncate(p) ==
  /\ at[p] = "saving"
  /\ disk' = [disk EXCEPT ![file[p]] = [state |-> "empty", messages |-> <<>>]]
  /\ at' = [at EXCEPT ![p] = "writing"]
  /\ UNCHANGED <<now, turns, after, file, born, session, kept, author>>

(* If another program filled the file since it was truncated, the tail of  *)
(* what it wrote may stick out.                                            *)
Torn == [state |-> "torn", messages |-> <<>>]
Written(p) == [state |-> "whole", messages |-> session[p]]

AfterWrite(p) ==
  {Written(p)} \cup (IF disk[file[p]].state = "empty" THEN {} ELSE {Torn})

Fill(p) ==
  /\ at[p] = "writing"
  /\ \E content \in AfterWrite(p) :
       /\ disk' = [disk EXCEPT ![file[p]] = content]
       /\ IF content = Torn
            THEN /\ author' = [author EXCEPT ![file[p]] = NoProgram]
                 /\ UNCHANGED kept
            ELSE /\ kept' = [kept EXCEPT ![file[p]] = session[p]]
                 /\ author' = [author EXCEPT ![file[p]] = p]
  /\ IF after[p] = "off"
       THEN Gone(p)
       ELSE /\ at' = [at EXCEPT ![p] = after[p]]
            /\ after' = [after EXCEPT ![p] = "off"]
            /\ UNCHANGED <<file, born, session>>
  /\ UNCHANGED <<now, turns>>

(* The program ends: it is killed, its one prompt is done, a save or a     *)
(* command fails.  A write under way may have put down a part.             *)
End(p) ==
  /\ at[p] # "off"
  /\ disk' \in IF at[p] = "writing" THEN {disk, [disk EXCEPT ![file[p]] = Torn]}
                                    ELSE {disk}
  /\ Gone(p)
  /\ UNCHANGED <<now, turns, kept, author>>

Step(p) ==
  \/ Start(p) \/ Clear(p) \/ BeginTurn(p) \/ FinishTurn(p) \/ FailTurn(p)
  \/ Compact(p) \/ Rebuild(p) \/ Exit(p) \/ BatchCompact(p) \/ BatchClear(p)
  \/ \E f \in Files : Resume(p, f) \/ FailResume(p, f) \/ StartBatch(p, f)
  \/ Truncate(p) \/ Fill(p) \/ End(p)

Next == Tick \/ \E p \in Programs : Step(p)

Spec == Init /\ [][Next]_vars

-----------------------------------------------------------------------------
Messages == [kind : {"user", "reply", "result", "summary"},
             turn : 0..MaxTurns, calls : Nat]

TypeOK ==
  /\ now \in Files /\ turns \in 0..MaxTurns
  /\ at \in [Programs -> {"off", "idle", "turn", "saving", "writing", "batch"}]
  /\ after \in [Programs -> {"off", "idle", "batch"}]
  /\ file \in [Programs -> Files] /\ born \in [Programs -> 0..MaxTime]
  /\ session \in [Programs -> Seq(Messages)]
  /\ disk \in [Files -> [state : {"absent", "empty", "whole", "torn"},
                         messages : Seq(Messages)]]
  /\ kept \in [Files -> Seq(Messages)]
  /\ author \in [Files -> Programs \cup {NoProgram}]

(* A file that can be read holds a session the runtime can go on with,     *)
(* whatever failed, ended or was compacted: it ends with a reply without   *)
(* calls, every call has its result behind the reply that makes it, and a  *)
(* result without its call is found only where a compaction cut, behind    *)
(* the one summary.  (And the state has its types.)                        *)
AreResults(messages, i, j, turn) == \A k \in i..j : messages[k] = Result(turn)

Complete(messages) ==
  /\ \A i \in DOMAIN messages : LET m == messages[i] IN
       /\ i + m.calls \in DOMAIN messages
       /\ AreResults(messages, i + 1, i + m.calls, m.turn)
       /\ m.kind = "result" =>
            \E j \in 1..(i - 1) :
              /\ messages[j] = Summary \/ messages[j].calls >= i - j
              /\ AreResults(messages, j + 1, i, m.turn)
       /\ m = Summary => i = 1
  /\ messages # <<>> => Last(messages).kind = "reply"

SavedIsComplete ==
  /\ TypeOK
  /\ \A f \in Files : disk[f].state = "whole" => Complete(disk[f].messages)

(* At the prompt, and while a turn runs, nothing is unsaved: unless        *)
(* another program wrote the file since, its last whole content is the     *)
(* session in memory, and so is its content if no write is under way.      *)
NothingUnsaved ==
  \A p \in Programs :
    (at[p] \in {"idle", "turn", "batch"} /\ author[file[p]] = p)
      => /\ kept[file[p]] = session[p]
         /\ disk[file[p]].state = "whole" => disk[file[p]] = Written(p)

(* The files, seen together: complete, and not behind the sessions.        *)
SavedIsCurrent == SavedIsComplete /\ NothingUnsaved

(* A save drops messages of the file only by compaction or /clear, or when *)
(* another program wrote the file since this one read it.                  *)
OwnTurnsSurvive ==
  [][\A f \in Files :
       \/ IsPrefix(kept[f], kept'[f])
       \/ kept'[f] \in CompactedOr(kept[f]) \cup {<<>>}
       \/ author'[f] # author[f]]_vars

=============================================================================
