----------------------------- MODULE AgentJobs -----------------------------
(***************************************************************************)
(* Background sub-agents (the Agent tool of tools/src/lib.rs).  The main   *)
(* agent writes an output file and a manifest, starts a thread and goes on *)
(* with the manifest as the tool's result; the thread runs a conversation  *)
(* and records its end, first in the output file, then in the manifest.    *)
(* Every write may fail, and a failed or interrupted fs::write may leave   *)
(* an unreadable file; the process may end at any time and takes the       *)
(* threads with it.                                                        *)
(***************************************************************************)
EXTENDS Naturals, Sequences

CONSTANTS
  Agents,     \* the sub-agents launched, in the order the main agent likes
  NoAgent     \* stands for: the main agent is not inside the Agent tool

ASSUME AgentsAssumption == NoAgent \notin Agents

VARIABLES
  process,    \* the process that holds the main agent and all the threads
  launching,  \* the agent execute_agent is working on: one call at a time
  step,       \* where execute_agent is
  answer,     \* what the main agent's session got as the tool's result
  manifest,   \* status in the manifest file
  output,     \* the result sections of the output file
  exists,     \* does the output file exist?
  thread,     \* where the sub-agent's thread is
  writeFailed \* history: did a write for this agent fail?

parent == <<launching, step, answer>>
files  == <<manifest, output, exists, writeFailed>>
vars   == <<process, parent, files, thread>>

-----------------------------------------------------------------------------
Terminal == {"completed", "failed"}
Statuses == {"absent", "running", "torn"} \cup Terminal

LaunchSteps == {"start", "manifest", "spawn", "append failed", "write failed"}
ThreadSteps == {"running", "append completed", "write completed",
                "append failed", "write failed"}

(* The status recorded at each place.                                      *)
Outcome(place) ==
  IF place \in {"append completed", "write completed"} THEN "completed"
                                                       ELSE "failed"

(* What a failed or interrupted write leaves: the old content, a truncated *)
(* manifest, a section cut off.                                            *)
AfterFailedWrite(a) == {manifest[a], "torn"}
AfterFailedAppend(a) == {output[a], Append(output[a], "cut off")}

Init ==
  /\ process = "up"
  /\ launching = NoAgent
  /\ step = "start"
  /\ answer = [a \in Agents |-> "none"]
  /\ manifest = [a \in Agents |-> "absent"]
  /\ output = [a \in Agents |-> <<>>]
  /\ exists = [a \in Agents |-> FALSE]
  /\ thread = [a \in Agents |-> "none"]
  /\ writeFailed = [a \in Agents |-> FALSE]

(***************************************************************************)
(* execute_agent_with_spawn, in the thread of the main agent.              *)
(***************************************************************************)
CallAgentTool(a) ==
  /\ process = "up"
  /\ launching = NoAgent
  /\ answer[a] = "none"
  /\ launching' = a
  /\ step' = "start"
  /\ UNCHANGED <<process, answer, files, thread>>

Answer(a, result) ==
  /\ answer' = [answer EXCEPT ![a] = result]
  /\ launching' = NoAgent
  /\ step' = "start"

LaunchAt(a, place) == process = "up" /\ launching = a /\ step = place

(* Empty description or prompt, no store, no system prompt, no file.       *)
RefuseLaunch(a) ==
  /\ LaunchAt(a, "start")
  /\ Answer(a, "error")
  /\ UNCHANGED <<process, files, thread>>

WriteOutput(a) ==
  /\ LaunchAt(a, "start")
  /\ exists' = [exists EXCEPT ![a] = TRUE]
  /\ step' = "manifest"
  /\ UNCHANGED <<process, launching, answer, manifest, output, writeFailed,
                 thread>>

WriteRunning(a) ==
  /\ LaunchAt(a, "manifest")
  /\ manifest' = [manifest EXCEPT ![a] = "running"]
  /\ step' = "spawn"
  /\ UNCHANGED <<process, launching, answer, output, exists, writeFailed,
                 thread>>

WriteRunningFails(a) ==
  /\ LaunchAt(a, "manifest")
  /\ \E left \in AfterFailedWrite(a) :
       manifest' = [manifest EXCEPT ![a] = left]
  /\ writeFailed' = [writeFailed EXCEPT ![a] = TRUE]
  /\ Answer(a, "error")
  /\ UNCHANGED <<process, output, exists, thread>>

(* The thread is started and the tool returns: nobody joins the thread.    *)
SpawnThread(a) ==
  /\ LaunchAt(a, "spawn")
  /\ thread' = [thread EXCEPT ![a] = "running"]
  /\ Answer(a, "running")
  /\ UNCHANGED <<process, files>>

(* A spawn failure that is reported but not recorded.                      *)
SpawnFailsSilently(a) ==
  /\ LaunchAt(a, "spawn")
  /\ Answer(a, "error")
  /\ UNCHANGED <<process, files, thread>>

SpawnFails(a) ==
  /\ LaunchAt(a, "spawn")
  /\ step' = "append failed"
  /\ UNCHANGED <<process, launching, answer, files, thread>>

(***************************************************************************)
(* persist_agent_terminal_state: append to the output, then rewrite the    *)
(* manifest; the first failure returns.                                    *)
(***************************************************************************)
AppendSection(a, place) ==
  /\ output' = [output EXCEPT ![a] = Append(output[a], Outcome(place))]
  /\ UNCHANGED <<manifest, exists, writeFailed>>

AppendFails(a) ==
  /\ \E left \in AfterFailedAppend(a) : output' = [output EXCEPT ![a] = left]
  /\ writeFailed' = [writeFailed EXCEPT ![a] = TRUE]
  /\ UNCHANGED <<manifest, exists>>

WriteStatus(a, place) ==
  /\ manifest' = [manifest EXCEPT ![a] = Outcome(place)]
  /\ UNCHANGED <<output, exists, writeFailed>>

WriteStatusFails(a) ==
  /\ \E left \in AfterFailedWrite(a) :
       manifest' = [manifest EXCEPT ![a] = left]
  /\ writeFailed' = [writeFailed EXCEPT ![a] = TRUE]
  /\ UNCHANGED <<output, exists>>

(* After a spawn failure the main agent records it, or reports that it     *)
(* could not; either way the tool returns an error.                        *)
RecordSpawnFailure(a) ==
  \/ /\ LaunchAt(a, "append failed")
     /\ \/ /\ AppendSection(a, "append failed")
           /\ step' = "write failed"
           /\ UNCHANGED <<launching, answer>>
        \/ AppendFails(a) /\ Answer(a, "error")
     /\ UNCHANGED <<process, thread>>
  \/ /\ LaunchAt(a, "write failed")
     /\ WriteStatus(a, "write failed") \/ WriteStatusFails(a)
     /\ Answer(a, "error")
     /\ UNCHANGED <<process, thread>>

(***************************************************************************)
(* spawn_agent_job and run_agent_job, in the sub-agent's thread.           *)
(***************************************************************************)
ThreadAt(a, place) == process = "up" /\ thread[a] = place

Goto(a, place) == thread' = [thread EXCEPT ![a] = place]

(* A failure to record completion is a failure of the job; one to record   *)
(* failure is ignored.  Below, a failed append that is ignored as well.    *)
AppendIgnored(place) ==
  CASE place = "append completed" -> "write completed"
    [] place = "write completed"  -> "append failed"
    [] OTHER                      -> "exited"
AfterFailure(place) ==
  IF place \in {"append completed", "write completed"} THEN "append failed"
                                                       ELSE "exited"

(* Where a recorded status leads; below, into the arm that records errors. *)
FallsThrough == "append failed"
JobDone == "exited"

(* run_turn returns an answer ...                                          *)
JobSucceeds(a) ==
  /\ ThreadAt(a, "running")
  /\ Goto(a, "append completed")
  /\ UNCHANGED <<process, parent, files>>

(* A panic nobody catches ends the thread.                                 *)
JobVanishes(a) ==
  /\ ThreadAt(a, "running")
  /\ Goto(a, "exited")
  /\ UNCHANGED <<process, parent, files>>

(* ... or an error, the runtime cannot be built, or the thread panics.     *)
JobFails(a) ==
  /\ ThreadAt(a, "running")
  /\ Goto(a, "append failed")
  /\ UNCHANGED <<process, parent, files>>

RecordSection(a, place) ==
  /\ ThreadAt(a, place)
  /\ \/ /\ AppendSection(a, place)
        /\ Goto(a, IF place = "append completed" THEN "write completed"
                                                 ELSE "write failed")
     \/ /\ AppendFails(a)
        /\ Goto(a, AfterFailure(place))
  /\ UNCHANGED <<process, parent>>

RecordStatus(a, place) ==
  /\ ThreadAt(a, place)
  /\ \/ WriteStatus(a, place) /\ Goto(a, JobDone)
     \/ WriteStatusFails(a) /\ Goto(a, AfterFailure(place))
  /\ UNCHANGED <<process, parent>>

(* The writes under way: of manifests, and of output sections.             *)
Writing == {a \in Agents : \/ thread[a] \in {"write completed", "write failed"}
                           \/ launching = a /\ step \in {"manifest", "write failed"}}
Appending == {a \in Agents : \/ thread[a] \in {"append completed", "append failed"}
                             \/ launching = a /\ step = "append failed"}

(* The main agent's program ends, and the writes under way are cut off.    *)
ProcessEnds ==
  /\ process = "up"
  /\ process' = "down"
  /\ \E torn \in SUBSET Writing :
       manifest' = [a \in Agents |-> IF a \in torn THEN "torn" ELSE manifest[a]]
  /\ \E cut \in SUBSET Appending :
       output' = [a \in Agents |-> IF a \in cut THEN Append(output[a], "cut off")
                                                 ELSE output[a]]
  /\ thread' = [a \in Agents |-> IF thread[a] = "none" THEN "none" ELSE "exited"]
  /\ UNCHANGED <<parent, exists, writeFailed>>

LaunchStep(a) ==
  \/ RefuseLaunch(a) \/ WriteOutput(a)
  \/ WriteRunning(a) \/ WriteRunningFails(a)
  \/ SpawnThread(a) \/ SpawnFails(a) \/ RecordSpawnFailure(a)

ThreadStep(a) ==
  \/ JobSucceeds(a) \/ JobFails(a)
  \/ \E place \in {"append completed", "append failed"} : RecordSection(a, place)
  \/ \E place \in {"write completed", "write failed"} : RecordStatus(a, place)

Next ==
  \/ \E a \in Agents : CallAgentTool(a) \/ LaunchStep(a) \/ ThreadStep(a)
  \/ ProcessEnds

(* A thread is scheduled by the operating system, and the conversation it  *)
(* runs ends: TurnTerminates of Conversation, with 32 iterations at most.  *)
Spec ==
  /\ Init /\ [][Next]_vars
  /\ \A a \in Agents : WF_vars(LaunchStep(a)) /\ WF_vars(ThreadStep(a))

-----------------------------------------------------------------------------
TypeOK ==
  /\ process \in {"up", "down"}
  /\ launching \in Agents \cup {NoAgent}
  /\ step \in LaunchSteps
  /\ answer \in [Agents -> {"none", "running", "error"}]
  /\ manifest \in [Agents -> Statuses]
  /\ output \in [Agents -> Seq(Terminal \cup {"cut off"})]
  /\ exists \in [Agents -> BOOLEAN]
  /\ thread \in [Agents -> {"none", "exited"} \cup ThreadSteps]
  /\ writeFailed \in [Agents -> BOOLEAN]

(* The two files agree: a manifest tells how the job ended only after the  *)
(* output file tells the same, as its last word; completion is told once   *)
(* and nothing follows it.                                                 *)
ManifestAfterOutput ==
  \A a \in Agents : manifest[a] \in Terminal =>
    /\ exists[a]
    /\ output[a] # <<>>
    /\ output[a][Len(output[a])] = manifest[a]
    /\ manifest[a] = "completed" => output[a] = <<"completed">>

(* A status once recorded is never changed: not by a second attempt to     *)
(* record, nor by a write cut off in the middle.                           *)
TerminalIsFinal ==
  [][\A a \in Agents :
       manifest[a] \in Terminal => manifest'[a] = manifest[a]]_vars

(* The manifest says "running" only while the job is under way -- or when  *)
(* the process ended or the disk refused a write, which nothing repairs.   *)
RunningIsTrue ==
  \A a \in Agents :
    (manifest[a] = "running" /\ process = "up" /\ ~ writeFailed[a]) =>
      \/ thread[a] \in ThreadSteps
      \/ launching = a /\ step \in {"spawn", "append failed", "write failed"}

(* A job that was launched gets a terminal status, whether it succeeds,    *)
(* fails or panics, unless the process ends or the disk fails.             *)
JobsEnd ==
  \A a \in Agents :
    (answer[a] = "running")
      ~> (manifest[a] \in Terminal \/ process = "down" \/ writeFailed[a])

-----------------------------------------------------------------------------
(* The inductive form: what the files of an agent hold at each place of    *)
(* execute_agent and of the thread.                                        *)
Untouched(a) == manifest[a] = "absent" /\ output[a] = <<>> /\ thread[a] = "none"

LastIs(a, status) == output[a] # <<>> /\ output[a][Len(output[a])] = status

LaunchInv(a) ==
  /\ answer[a] = "none" => thread[a] = "none"
  /\ (answer[a] = "none" /\ launching # a) => Untouched(a)
  /\ (launching = a /\ process = "up") =>
       /\ answer[a] = "none"
       /\ step \in {"start", "manifest"} => Untouched(a)
       /\ step # "start" => exists[a]
       /\ step \in {"spawn", "append failed"} =>
            manifest[a] = "running" /\ output[a] = <<>>
       /\ step = "write failed" => manifest[a] = "running" /\ LastIs(a, "failed")

ThreadInv(a) ==
  /\ thread[a] \in ThreadSteps => exists[a]
  /\ thread[a] \in {"running", "append completed"} =>
       manifest[a] = "running" /\ output[a] = <<>>
  /\ thread[a] = "write completed" =>
       manifest[a] = "running" /\ output[a] = <<"completed">>
  /\ thread[a] \in {"append failed", "write failed"} => manifest[a] \notin Terminal
  /\ thread[a] = "write failed" => LastIs(a, "failed")

JobsInv ==
  /\ \A a \in Agents : LaunchInv(a) /\ ThreadInv(a)
  /\ ManifestAfterOutput

=============================================================================
