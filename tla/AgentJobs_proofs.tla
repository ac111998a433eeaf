-------------------------- MODULE AgentJobs_proofs --------------------------
(***************************************************************************)
(* Proofs about what runs beside the main agent: of AgentJobs, that the    *)
(* manifest never runs ahead of the output file and a recorded status is   *)
(* final, for any number of sub-agents, whatever writes fail and whenever  *)
(* the process ends; of ProgressReports, the order of the lines; of        *)
(* SharedFiles, that no call loses what another one did; of FileSearch,    *)
(* that the parts of an answer make the whole.                             *)
(***************************************************************************)
EXTENDS AgentJobs, ProgressReports, SharedFiles, FileSearch, SequenceTheorems, FiniteSetTheorems,
        WellFoundedInduction, TLAPS

-----------------------------------------------------------------------------
Sections == Seq(Terminal \cup {"cut off"})

(* A section appended is the last one, and the result is not empty.        *)
LEMMA AppendIsLast ==
  ASSUME NEW S, NEW seq \in Seq(S), NEW e \in S
  PROVE  /\ Append(seq, e) \in Seq(S)
         /\ Append(seq, e) # <<>>
         /\ Append(seq, e)[Len(Append(seq, e))] = e
OBVIOUS

LEMMA AppendLast ==
  ASSUME NEW seq \in Sections, NEW e \in Terminal \cup {"cut off"}
  PROVE  /\ Append(seq, e) \in Sections
         /\ Append(seq, e) # <<>>
         /\ Append(seq, e)[Len(Append(seq, e))] = e
BY AppendIsLast DEF Sections

LEMMA FirstSection ==
  ASSUME NEW e
  PROVE  /\ Append(<<>>, e) = <<e>>
         /\ <<e>> # <<>> /\ <<e>>[Len(<<e>>)] = e
<1>1. Len(<<e>>) = 1 /\ <<e>>[1] = e
  OBVIOUS
<1>2. Append(<<>>, e) = <<e>>
  <2>1. <<>> \in Seq({e}) /\ <<e>> \in Seq({e})
    OBVIOUS
  <2>2. Append(<<>>, e) \in Seq({e}) /\ Len(Append(<<>>, e)) = 1
    BY <2>1, AppendProperties
  <2>3. Append(<<>>, e)[1] = e
    BY <2>1, AppendProperties
  <2>. QED BY <1>1, <2>1, <2>2, <2>3, SeqEqual
<1>. QED BY <1>1, <1>2

USE DEF Terminal, Statuses, LaunchSteps, ThreadSteps

LEMMA OutcomeType ==
  ASSUME NEW place PROVE Outcome(place) \in Terminal
BY DEF Outcome

-----------------------------------------------------------------------------
LEMMA InitType == Init => TypeOK
BY DEF Init, TypeOK

(* Every step keeps the types.                                             *)
LEMMA NextType == TypeOK /\ [Next]_vars => TypeOK'
<1> SUFFICES ASSUME TypeOK, [Next]_vars PROVE TypeOK'
  OBVIOUS
<1> USE DEF parent, files
<1>a. ASSUME NEW a \in Agents, NEW place, AppendSection(a, place)
      PROVE  output' \in [Agents -> Seq(Terminal \cup {"cut off"})]
  <2>1. Append(output[a], Outcome(place)) \in Sections
    BY OutcomeType, AppendLast DEF TypeOK, Sections
  <2>. QED BY <1>a, <2>1 DEF AppendSection, TypeOK, Sections
<1>b. ASSUME NEW a \in Agents, AppendFails(a)
      PROVE  output' \in [Agents -> Seq(Terminal \cup {"cut off"})]
  <2>1. AfterFailedAppend(a) \subseteq Sections
    <3>1. output[a] \in Sections
      BY DEF TypeOK, Sections
    <3>2. Append(output[a], "cut off") \in Sections
      BY <3>1, AppendLast
    <3>. QED BY <3>1, <3>2 DEF AfterFailedAppend
  <2>. QED BY <1>b, <2>1 DEF AppendFails, TypeOK, Sections
<1>c. ASSUME NEW a \in Agents, NEW place, WriteStatus(a, place)
      PROVE  manifest' \in [Agents -> Statuses]
  BY <1>c, OutcomeType DEF WriteStatus, TypeOK
<1>d. ASSUME NEW a \in Agents, WriteStatusFails(a)
      PROVE  manifest' \in [Agents -> Statuses]
  BY <1>d DEF WriteStatusFails, AfterFailedWrite, TypeOK
<1>1. ASSUME NEW a \in Agents, CallAgentTool(a) PROVE TypeOK'
  BY <1>1 DEF CallAgentTool, TypeOK
<1>2. ASSUME NEW a \in Agents, RefuseLaunch(a) PROVE TypeOK'
  BY <1>2 DEF RefuseLaunch, Answer, TypeOK
<1>3. ASSUME NEW a \in Agents, WriteOutput(a) PROVE TypeOK'
  BY <1>3 DEF WriteOutput, TypeOK
<1>4. ASSUME NEW a \in Agents, WriteRunning(a) PROVE TypeOK'
  BY <1>4 DEF WriteRunning, TypeOK
<1>5. ASSUME NEW a \in Agents, WriteRunningFails(a) PROVE TypeOK'
  BY <1>5 DEF WriteRunningFails, AfterFailedWrite, Answer, TypeOK
<1>6. ASSUME NEW a \in Agents, SpawnThread(a) PROVE TypeOK'
  BY <1>6 DEF SpawnThread, Answer, TypeOK
<1>7. ASSUME NEW a \in Agents, SpawnFails(a) PROVE TypeOK'
  BY <1>7 DEF SpawnFails, TypeOK
<1>8. ASSUME NEW a \in Agents, RecordSpawnFailure(a) PROVE TypeOK'
  <2>1. CASE AppendSection(a, "append failed")
    BY <1>8, <1>a, <2>1 DEF RecordSpawnFailure, AppendSection, AppendFails,
       WriteStatus, WriteStatusFails, Answer, TypeOK
  <2>2. CASE AppendFails(a)
    BY <1>8, <1>b, <2>2 DEF RecordSpawnFailure, AppendSection, AppendFails,
       WriteStatus, WriteStatusFails, Answer, TypeOK
  <2>3. CASE WriteStatus(a, "write failed")
    BY <1>8, <1>c, <2>3 DEF RecordSpawnFailure, AppendSection, AppendFails,
       WriteStatus, WriteStatusFails, Answer, TypeOK
  <2>4. CASE WriteStatusFails(a)
    BY <1>8, <1>d, <2>4 DEF RecordSpawnFailure, AppendSection, AppendFails,
       WriteStatus, WriteStatusFails, Answer, TypeOK
  <2>. QED BY <1>8, <2>1, <2>2, <2>3, <2>4 DEF RecordSpawnFailure
<1>9. ASSUME NEW a \in Agents, JobSucceeds(a) \/ JobFails(a) PROVE TypeOK'
  BY <1>9 DEF JobSucceeds, JobFails, Goto, TypeOK
<1>10. ASSUME NEW a \in Agents,
              NEW place \in {"append completed", "append failed"},
              RecordSection(a, place)
       PROVE  TypeOK'
  <2>1. CASE AppendSection(a, place)
    BY <1>10, <1>a, <2>1 DEF RecordSection, AppendSection, AppendFails, Goto,
       AfterFailure, TypeOK
  <2>2. CASE AppendFails(a)
    BY <1>10, <1>b, <2>2 DEF RecordSection, AppendSection, AppendFails, Goto,
       AfterFailure, TypeOK
  <2>. QED BY <1>10, <2>1, <2>2 DEF RecordSection
<1>11. ASSUME NEW a \in Agents,
              NEW place \in {"write completed", "write failed"},
              RecordStatus(a, place)
       PROVE  TypeOK'
  <2>1. CASE WriteStatus(a, place)
    BY <1>11, <1>c, <2>1 DEF RecordStatus, WriteStatus, WriteStatusFails, Goto,
       AfterFailure, JobDone, TypeOK
  <2>2. CASE WriteStatusFails(a)
    BY <1>11, <1>d, <2>2 DEF RecordStatus, WriteStatus, WriteStatusFails, Goto,
       AfterFailure, JobDone, TypeOK
  <2>. QED BY <1>11, <2>1, <2>2 DEF RecordStatus
<1>12. CASE ProcessEnds
  <2>1. \A a \in Agents : Append(output[a], "cut off") \in Sections
    BY AppendLast DEF TypeOK, Sections
  <2>2. output' \in [Agents -> Sections]
    BY <1>12, <2>1 DEF ProcessEnds, TypeOK, Sections
  <2>. QED BY <1>12, <2>2 DEF ProcessEnds, TypeOK, Sections
<1>13. CASE UNCHANGED vars
  BY <1>13 DEF vars, TypeOK
<1>. QED
  BY <1>1, <1>2, <1>3, <1>4, <1>5, <1>6, <1>7, <1>8, <1>9, <1>10, <1>11, <1>12,
     <1>13
  DEF Next, LaunchStep, ThreadStep

(* The types of the sub-agents' state hold in every reachable state.       *)
THEOREM JobsTypeCorrect == Spec => []TypeOK
BY InitType, NextType, PTL DEF Spec

-----------------------------------------------------------------------------
(* The invariant about agent a is about its own files and thread, and the  *)
(* step of the launch if a is being launched: other steps keep it.         *)
JobInv(a) ==
  /\ LaunchInv(a) /\ ThreadInv(a)
  /\ manifest[a] \in Terminal =>
       /\ exists[a]
       /\ LastIs(a, manifest[a])
       /\ manifest[a] = "completed" => output[a] = <<"completed">>

LEMMA JobsInvParts == JobsInv <=> \A a \in Agents : JobInv(a)
BY DEF JobsInv, JobInv, ManifestAfterOutput, LastIs

LEMMA InitJobs == Init => JobsInv
<1> SUFFICES ASSUME Init, NEW a \in Agents PROVE JobInv(a)
  BY JobsInvParts
<1>. QED
  BY AgentsAssumption
  DEF Init, JobInv, LaunchInv, ThreadInv, Untouched

(* What a step of agent a changes of agent b: nothing but the launch.      *)
SameJob(b) ==
  /\ answer'[b] = answer[b] /\ manifest'[b] = manifest[b]
  /\ output'[b] = output[b] /\ exists'[b] = exists[b]
  /\ thread'[b] = thread[b] /\ process' = process

LEMMA OthersKept ==
  ASSUME TypeOK, NEW a \in Agents, NEW b \in Agents, a # b,
         CallAgentTool(a) \/ LaunchStep(a) \/ ThreadStep(a)
  PROVE  /\ SameJob(b)
         /\ launching = b => launching' = b /\ step' = step
         /\ launching # b => launching' # b
<1> USE DEF parent, files, SameJob
<1>1. CASE CallAgentTool(a)
  BY <1>1, AgentsAssumption DEF CallAgentTool
<1>2. CASE LaunchStep(a)
  <2>1. launching = a
    BY <1>2 DEF LaunchStep, RefuseLaunch, WriteOutput, WriteRunning,
       WriteRunningFails, SpawnThread, SpawnFails, RecordSpawnFailure, LaunchAt
  <2>2. launching' \in {a, NoAgent}
    BY <1>2, <2>1 DEF LaunchStep, RefuseLaunch, WriteOutput, WriteRunning,
       WriteRunningFails, SpawnThread, SpawnFails, RecordSpawnFailure, Answer,
       AppendSection, AppendFails, WriteStatus, WriteStatusFails
  <2>3. SameJob(b)
    <3>1. CASE RefuseLaunch(a) \/ WriteOutput(a) \/ WriteRunning(a)
                 \/ WriteRunningFails(a) \/ SpawnThread(a) \/ SpawnFails(a)
      BY <3>1 DEF RefuseLaunch, WriteOutput, WriteRunning, WriteRunningFails,
         SpawnThread, SpawnFails, Answer, TypeOK
    <3>2. CASE RecordSpawnFailure(a)
      BY <3>2 DEF RecordSpawnFailure, Answer, AppendSection, AppendFails,
         WriteStatus, WriteStatusFails, TypeOK
    <3>. QED BY <1>2, <3>1, <3>2 DEF LaunchStep
  <2>. QED BY <2>1, <2>2, <2>3, AgentsAssumption
<1>3. CASE ThreadStep(a)
  <2>1. UNCHANGED <<process, parent>>
    BY <1>3 DEF ThreadStep, JobSucceeds, JobFails, RecordSection, RecordStatus
  <2>2. SameJob(b)
    BY <1>3, <2>1 DEF ThreadStep, JobSucceeds, JobFails, RecordSection,
       RecordStatus, Goto, AppendSection, AppendFails, WriteStatus,
       WriteStatusFails, TypeOK
  <2>. QED BY <2>1, <2>2
<1>. QED BY <1>1, <1>2, <1>3

LEMMA KeptInv ==
  ASSUME NEW b \in Agents, JobInv(b), SameJob(b),
         launching = b => launching' = b /\ step' = step,
         launching # b => launching' # b
  PROVE  JobInv(b)'
BY DEF SameJob, JobInv, LaunchInv, ThreadInv, Untouched, LastIs

(* Each step of the launch keeps the invariant of the agent launched.      *)
LEMMA LaunchKeeps ==
  ASSUME TypeOK, NEW a \in Agents, JobInv(a), CallAgentTool(a) \/ LaunchStep(a)
  PROVE  JobInv(a)'
<1> USE DEF parent, files, JobInv, LaunchInv, ThreadInv, Untouched, LaunchAt
<1>1. CASE CallAgentTool(a)
  BY <1>1, AgentsAssumption DEF CallAgentTool, LastIs
<1>2. CASE RefuseLaunch(a)
  BY <1>2, AgentsAssumption DEF RefuseLaunch, Answer, TypeOK, LastIs
<1>3. CASE WriteOutput(a)
  BY <1>3 DEF WriteOutput, TypeOK, LastIs
<1>4. CASE WriteRunning(a)
  BY <1>4 DEF WriteRunning, TypeOK, LastIs
<1>5. CASE WriteRunningFails(a)
  BY <1>5, AgentsAssumption
  DEF WriteRunningFails, AfterFailedWrite, Answer, TypeOK, LastIs
<1>6. CASE SpawnThread(a)
  BY <1>6, AgentsAssumption DEF SpawnThread, Answer, TypeOK, LastIs
<1>7. CASE SpawnFails(a)
  BY <1>7 DEF SpawnFails, TypeOK, LastIs
<1>8. CASE RecordSpawnFailure(a)
  <2>0. /\ process = "up" /\ launching = a /\ thread[a] = "none"
        /\ manifest[a] = "running" /\ exists[a] /\ answer[a] = "none"
        /\ UNCHANGED <<process, thread>>
    BY <1>8 DEF RecordSpawnFailure
  <2>1. ASSUME AppendSection(a, "append failed"), step' = "write failed",
               UNCHANGED <<launching, answer>>
        PROVE  JobInv(a)'
    <3>1. output'[a] = Append(output[a], "failed")
      BY <2>1 DEF AppendSection, Outcome, TypeOK
    <3>2. output[a] \in Sections
      BY DEF TypeOK, Sections
    <3>3. LastIs(a, "failed")'
      BY <3>1, <3>2, AppendLast DEF LastIs
    <3>. QED BY <2>0, <2>1, <3>3 DEF AppendSection
  <2>2. ASSUME AppendFails(a), Answer(a, "error") PROVE JobInv(a)'
    <3>1. /\ manifest' = manifest /\ exists' = exists /\ launching' = NoAgent
          /\ answer'[a] = "error"
      BY <2>2 DEF AppendFails, Answer, TypeOK
    <3>. QED BY <2>0, <3>1, AgentsAssumption
  <2>3. ASSUME step = "write failed", WriteStatus(a, "write failed"),
               Answer(a, "error")
        PROVE  JobInv(a)'
    BY <2>0, <2>3, AgentsAssumption DEF WriteStatus, Answer, Outcome, TypeOK, LastIs
  <2>4. ASSUME step = "write failed", WriteStatusFails(a), Answer(a, "error")
        PROVE  JobInv(a)'
    BY <2>0, <2>4, AgentsAssumption
    DEF WriteStatusFails, AfterFailedWrite, Answer, TypeOK, LastIs
  <2>. QED BY <1>8, <2>1, <2>2, <2>3, <2>4 DEF RecordSpawnFailure
<1>. QED BY <1>1, <1>2, <1>3, <1>4, <1>5, <1>6, <1>7, <1>8 DEF LaunchStep

(* Each step of the thread keeps it.                                       *)
LEMMA ThreadKeeps ==
  ASSUME TypeOK, NEW a \in Agents, JobInv(a), ThreadStep(a)
  PROVE  JobInv(a)'
<1> USE DEF parent, files, JobInv, LaunchInv, ThreadInv, Untouched, ThreadAt, Goto
<1>1. CASE JobSucceeds(a) \/ JobFails(a)
  BY <1>1 DEF JobSucceeds, JobFails, TypeOK, LastIs
<1>2. ASSUME NEW place \in {"append completed", "append failed"},
             RecordSection(a, place)
      PROVE  JobInv(a)'
  <2>0. /\ process = "up" /\ thread[a] = place /\ UNCHANGED <<process, parent>>
        /\ exists[a] /\ answer[a] # "none" /\ manifest[a] \notin Terminal
    BY <1>2 DEF RecordSection
  <2>1. ASSUME AppendSection(a, place),
               Goto(a, IF place = "append completed" THEN "write completed"
                                                     ELSE "write failed")
        PROVE  JobInv(a)'
    <3>1. /\ output'[a] = Append(output[a], Outcome(place))
          /\ manifest' = manifest /\ exists' = exists
          /\ output[a] \in Sections
          /\ thread'[a] = IF place = "append completed" THEN "write completed"
                                                        ELSE "write failed"
      BY <2>1 DEF AppendSection, TypeOK, Sections
    <3>2. CASE place = "append completed"
      <4>1. output'[a] = Append(<<>>, "completed") /\ manifest[a] = "running"
        <5>1. output[a] = <<>> /\ manifest[a] = "running"
          <6>1. thread[a] = "append completed"
            BY <2>0, <3>2
          <6>. QED BY <6>1
        <5>2. Outcome(place) = "completed"
          BY <3>2 DEF Outcome
        <5>. QED BY <3>1, <5>1, <5>2
      <4>2. Append(<<>>, "completed") = <<"completed">>
        BY FirstSection
      <4>. QED BY <2>0, <3>1, <3>2, <4>1, <4>2
    <3>3. CASE place = "append failed"
      <4>1. LastIs(a, "failed")'
        BY <3>1, <3>3, AppendLast DEF LastIs, Outcome
      <4>. QED BY <2>0, <3>1, <3>3, <4>1
    <3>. QED BY <3>2, <3>3
  <2>2. ASSUME AppendFails(a), Goto(a, AfterFailure(place)) PROVE JobInv(a)'
    <3>1. /\ thread'[a] \in {"append failed", "exited"}
          /\ manifest' = manifest /\ exists' = exists
      BY <2>2 DEF AppendFails, AfterFailure, TypeOK
    <3>. QED BY <2>0, <3>1
  <2>. QED BY <1>2, <2>1, <2>2 DEF RecordSection
<1>3. ASSUME NEW place \in {"write completed", "write failed"},
             RecordStatus(a, place)
      PROVE  JobInv(a)'
  <2>0. /\ process = "up" /\ thread[a] = place /\ UNCHANGED <<process, parent>>
        /\ exists[a] /\ answer[a] # "none" /\ manifest[a] \notin Terminal
    BY <1>3 DEF RecordStatus
  <2>1. ASSUME WriteStatus(a, place), Goto(a, JobDone) PROVE JobInv(a)'
    <3>1. /\ thread'[a] = "exited" /\ manifest'[a] = Outcome(place)
          /\ output' = output /\ exists' = exists
      BY <2>1 DEF WriteStatus, JobDone, TypeOK
    <3>2. LastIs(a, Outcome(place))
      <4>1. CASE place = "write completed"
        <5>1. output[a] = <<"completed">> /\ Outcome(place) = "completed"
          <6>1. thread[a] = "write completed"
            BY <2>0, <4>1
          <6>2. output[a] = <<"completed">>
            BY <6>1
          <6>. QED BY <6>2, <4>1 DEF Outcome
        <5>. QED BY <5>1, FirstSection DEF LastIs
      <4>2. CASE place = "write failed"
        <5>1. thread[a] = "write failed"
          BY <2>0, <4>2
        <5>2. LastIs(a, "failed")
          BY <5>1
        <5>. QED BY <5>2, <4>2 DEF Outcome
      <4>. QED BY <4>1, <4>2
    <3>3. Outcome(place) = "completed" => output[a] = <<"completed">>
      BY <2>0 DEF Outcome
    <3>. QED BY <2>0, <3>1, <3>2, <3>3 DEF LastIs
  <2>2. ASSUME WriteStatusFails(a), Goto(a, AfterFailure(place)) PROVE JobInv(a)'
    <3>1. /\ thread'[a] \in {"append failed", "exited"}
          /\ manifest'[a] \in {manifest[a], "torn"}
          /\ output' = output /\ exists' = exists
      BY <2>2 DEF WriteStatusFails, AfterFailedWrite, AfterFailure, TypeOK
    <3>. QED BY <2>0, <3>1 DEF LastIs
  <2>. QED BY <1>3, <2>1, <2>2 DEF RecordStatus
<1>. QED BY <1>1, <1>2, <1>3 DEF ThreadStep

(* When the process ends no thread is left, and only a manifest that was   *)
(* not terminal may be torn.                                               *)
LEMMA EndKeeps ==
  ASSUME TypeOK, NEW a \in Agents, JobInv(a), ProcessEnds PROVE JobInv(a)'
<1> USE DEF parent, files, JobInv, LaunchInv, ThreadInv, Untouched
<1>1. /\ process = "up" /\ process' = "down"
      /\ UNCHANGED <<parent, exists, writeFailed>>
      /\ thread'[a] = IF thread[a] = "none" THEN "none" ELSE "exited"
      /\ manifest'[a] = manifest[a] \/ (a \in Writing /\ manifest'[a] = "torn")
      /\ output'[a] = output[a] \/ a \in Appending
  BY DEF ProcessEnds, TypeOK
<1>2. a \in Writing \/ a \in Appending => manifest[a] \notin Terminal
  BY <1>1 DEF Writing, Appending
<1>3. (answer[a] = "none" /\ launching # a) => a \notin Writing /\ a \notin Appending
  BY DEF Writing, Appending
<1>. QED BY <1>1, <1>2, <1>3 DEF LastIs

LEMMA JobsStep == TypeOK /\ JobsInv /\ [Next]_vars => JobsInv'
<1> SUFFICES ASSUME TypeOK, JobsInv, [Next]_vars, NEW b \in Agents
             PROVE  JobInv(b)'
  BY DEF JobsInv, JobInv, ManifestAfterOutput, LastIs
<1>0. JobInv(b)
  BY JobsInvParts
<1>1. ASSUME NEW a \in Agents, CallAgentTool(a) \/ LaunchStep(a) \/ ThreadStep(a)
      PROVE  JobInv(b)'
  <2>1. CASE a = b
    BY <1>0, <1>1, <2>1, LaunchKeeps, ThreadKeeps
  <2>2. CASE a # b
    BY <1>0, <1>1, <2>2, OthersKept, KeptInv
  <2>. QED BY <2>1, <2>2
<1>2. CASE ProcessEnds
  BY <1>0, <1>2, EndKeeps
<1>3. CASE UNCHANGED vars
  BY <1>0, <1>3
  DEF vars, parent, files, JobInv, LaunchInv, ThreadInv, Untouched, LastIs
<1>. QED BY <1>1, <1>2, <1>3 DEF Next

(* A manifest tells an end only after the output file tells the same.      *)
THEOREM ManifestFollowsOutput == Spec => []ManifestAfterOutput
<1>1. Init => TypeOK /\ JobsInv
  BY InitType, InitJobs
<1>2. (TypeOK /\ JobsInv) /\ [Next]_vars => (TypeOK /\ JobsInv)'
  BY NextType, JobsStep
<1>3. JobsInv => ManifestAfterOutput
  BY DEF JobsInv
<1>. QED BY <1>1, <1>2, <1>3, PTL DEF Spec


-----------------------------------------------------------------------------
(* A terminal status is found only where no write of the manifest is left. *)
LEMMA StepKeepsEnd ==
  ASSUME TypeOK, JobsInv, [Next]_vars, NEW b \in Agents, manifest[b] \in Terminal
  PROVE  manifest'[b] = manifest[b]
<1> USE DEF parent, files, LaunchInv, ThreadInv, Untouched
<1>0. LaunchInv(b) /\ ThreadInv(b)
  BY DEF JobsInv
<1>1. ASSUME NEW a \in Agents, CallAgentTool(a) \/ LaunchStep(a) \/ ThreadStep(a)
      PROVE  manifest'[b] = manifest[b]
  <2>1. CASE a # b
    BY <1>1, <2>1, OthersKept DEF SameJob
  <2>2. ASSUME a = b, LaunchStep(a) PROVE manifest' = manifest
    <3>1. launching = b /\ process = "up" => step = "start"
      BY <1>0 DEF TypeOK
    <3>. QED
      BY <2>2, <3>1
      DEF LaunchStep, RefuseLaunch, WriteOutput, WriteRunning, WriteRunningFails,
          SpawnThread, SpawnFails, RecordSpawnFailure, LaunchAt
  <2>3. ASSUME a = b, ThreadStep(a) PROVE manifest' = manifest
    <3>1. thread[b] \notin ThreadSteps
      BY <1>0
    <3>. QED
      BY <2>3, <3>1
      DEF ThreadStep, JobSucceeds, JobFails, RecordSection, RecordStatus, ThreadAt
  <2>. QED BY <1>1, <2>1, <2>2, <2>3 DEF CallAgentTool
<1>2. CASE ProcessEnds
  <2>1. b \notin Writing
    BY <1>0, <1>2 DEF ProcessEnds, Writing
  <2>. QED BY <1>2, <2>1 DEF ProcessEnds, TypeOK
<1>3. CASE UNCHANGED vars
  BY <1>3 DEF vars
<1>. QED BY <1>1, <1>2, <1>3 DEF Next

(* A status once recorded is never changed.                                *)
THEOREM EndsAreFinal == Spec => TerminalIsFinal
<1>1. Init => TypeOK /\ JobsInv
  BY InitType, InitJobs
<1>2. (TypeOK /\ JobsInv) /\ [Next]_vars => (TypeOK /\ JobsInv)'
  BY NextType, JobsStep
<1>3. TypeOK /\ JobsInv /\ [Next]_vars
        => [\A a \in Agents :
              manifest[a] \in Terminal => manifest'[a] = manifest[a]]_vars
  BY StepKeepsEnd
<1>. QED BY <1>1, <1>2, <1>3, PTL DEF Spec, TerminalIsFinal

-----------------------------------------------------------------------------
(* What RunningIsTrue says of one agent.                                   *)
UnderWay(a) ==
  (manifest[a] = "running" /\ process = "up" /\ ~ writeFailed[a]) =>
    \/ thread[a] \in ThreadSteps
    \/ launching = a /\ step \in {"spawn", "append failed", "write failed"}

LEMMA OthersWritesKept ==
  ASSUME TypeOK, NEW a \in Agents, NEW b \in Agents, a # b,
         CallAgentTool(a) \/ LaunchStep(a) \/ ThreadStep(a)
  PROVE  writeFailed'[b] = writeFailed[b]
<1> USE DEF parent, files, TypeOK
<1>1. CASE CallAgentTool(a)
  BY <1>1 DEF CallAgentTool
<1>2. CASE LaunchStep(a)
  BY <1>2 DEF LaunchStep, RefuseLaunch, WriteOutput, WriteRunning,
     WriteRunningFails, SpawnThread, SpawnFails, RecordSpawnFailure,
     AppendSection, AppendFails, WriteStatus, WriteStatusFails
<1>3. CASE ThreadStep(a)
  BY <1>3 DEF ThreadStep, JobSucceeds, JobFails, RecordSection, RecordStatus,
     AppendSection, AppendFails, WriteStatus, WriteStatusFails
<1>. QED BY <1>1, <1>2, <1>3

(* The launch hands the job over to the thread, or records its failure     *)
(* itself; in between it is under way.                                     *)
LEMMA LaunchUnderWay ==
  ASSUME TypeOK, NEW a \in Agents, JobInv(a), UnderWay(a),
         CallAgentTool(a) \/ LaunchStep(a)
  PROVE  UnderWay(a)'
<1> USE DEF parent, files, UnderWay, LaunchAt, JobInv, LaunchInv, Untouched
<1>1. CASE CallAgentTool(a)
  BY <1>1, AgentsAssumption DEF CallAgentTool
<1>2. CASE RefuseLaunch(a) \/ WriteOutput(a)
  BY <1>2 DEF RefuseLaunch, WriteOutput, Answer
<1>3. CASE WriteRunning(a)
  BY <1>3 DEF WriteRunning, TypeOK
<1>4. CASE WriteRunningFails(a)
  BY <1>4 DEF WriteRunningFails, TypeOK
<1>5. CASE SpawnThread(a)
  BY <1>5 DEF SpawnThread, ThreadSteps, TypeOK
<1>6. CASE SpawnFails(a)
  BY <1>6 DEF SpawnFails, TypeOK
<1>7. CASE RecordSpawnFailure(a)
  BY <1>7 DEF RecordSpawnFailure, AppendSection, AppendFails, WriteStatus,
     WriteStatusFails, Outcome, TypeOK
<1>. QED BY <1>1, <1>2, <1>3, <1>4, <1>5, <1>6, <1>7 DEF LaunchStep

(* The thread leaves its steps only by recording an end, or by a write     *)
(* that failed.                                                            *)
LEMMA ThreadUnderWay ==
  ASSUME TypeOK, NEW a \in Agents, UnderWay(a), ThreadStep(a)
  PROVE  UnderWay(a)'
<1> USE DEF parent, files, UnderWay, ThreadAt, Goto, ThreadSteps
<1>1. CASE JobSucceeds(a) \/ JobFails(a)
  BY <1>1 DEF JobSucceeds, JobFails, TypeOK
<1>2. ASSUME NEW place \in {"append completed", "append failed"},
             RecordSection(a, place)
      PROVE  UnderWay(a)'
  <2>1. thread'[a] \in ThreadSteps \/ writeFailed'[a]
    BY <1>2 DEF RecordSection, AppendSection, AppendFails, TypeOK
  <2>. QED BY <2>1
<1>3. ASSUME NEW place \in {"write completed", "write failed"},
             RecordStatus(a, place)
      PROVE  UnderWay(a)'
  <2>1. manifest'[a] # "running" \/ writeFailed'[a]
    BY <1>3 DEF RecordStatus, WriteStatus, WriteStatusFails, Outcome, TypeOK
  <2>. QED BY <2>1
<1>. QED BY <1>1, <1>2, <1>3 DEF ThreadStep

LEMMA RunningStep ==
  TypeOK /\ JobsInv /\ RunningIsTrue /\ [Next]_vars => RunningIsTrue'
<1> SUFFICES ASSUME TypeOK, JobsInv, RunningIsTrue, [Next]_vars, NEW b \in Agents
             PROVE  UnderWay(b)'
  BY DEF RunningIsTrue, UnderWay
<1>0. JobInv(b) /\ UnderWay(b)
  BY JobsInvParts DEF RunningIsTrue, UnderWay
<1>1. ASSUME NEW a \in Agents, CallAgentTool(a) \/ LaunchStep(a) \/ ThreadStep(a)
      PROVE  UnderWay(b)'
  <2>1. CASE a = b
    BY <1>0, <1>1, <2>1, LaunchUnderWay, ThreadUnderWay
  <2>2. CASE a # b
    <3>1. SameJob(b) /\ writeFailed'[b] = writeFailed[b]
      BY <1>1, <2>2, OthersKept, OthersWritesKept
    <3>2. launching = b => launching' = b /\ step' = step
      BY <1>1, <2>2, OthersKept
    <3>. QED BY <1>0, <3>1, <3>2 DEF SameJob, UnderWay
  <2>. QED BY <2>1, <2>2
<1>2. CASE ProcessEnds
  BY <1>2 DEF ProcessEnds, UnderWay
<1>3. CASE UNCHANGED vars
  BY <1>0, <1>3 DEF vars, parent, files, UnderWay
<1>. QED BY <1>1, <1>2, <1>3 DEF Next

(* A manifest says "running" only of a job under way, unless the process   *)
(* ended or a write failed.                                                *)
THEOREM RunningStaysTrue == Spec => []RunningIsTrue
<1>1. Init => TypeOK /\ JobsInv /\ RunningIsTrue
  <2>1. Init => RunningIsTrue
    BY DEF Init, RunningIsTrue
  <2>. QED BY <2>1, InitType, InitJobs
<1>2. (TypeOK /\ JobsInv /\ RunningIsTrue) /\ [Next]_vars
        => (TypeOK /\ JobsInv /\ RunningIsTrue)'
  BY NextType, JobsStep, RunningStep
<1>. QED BY <1>1, <1>2, PTL DEF Spec

-----------------------------------------------------------------------------
(***************************************************************************)
(* Proof about ProgressReports: the lines come in the order of the steps,  *)
(* for any number of steps and heartbeats and however the two threads are  *)
(* scheduled.  What makes it inductive is where the copies of the shared   *)
(* state stand: none is ahead of it, the copy of the turn's thread is the  *)
(* state itself between a change and its line, and the heartbeat's is not  *)
(* behind the heartbeat printed last.                                      *)
(***************************************************************************)
HIDE DEF Terminal, Statuses, LaunchSteps, ThreadSteps

Events == {"started", "update", "heartbeat"} \cup Endings
Phases == Marks \cup {"planning"}
States == [step : Nat, phase : Phases, final : BOOLEAN]
Lines  == [event : Events, step : Nat, phase : Phases]

ProgressType ==
  /\ report \in States /\ copy \in States /\ stale \in States
  /\ turn \in {"never", "started", "running", "marked", "joining", "ending", "over"}
  /\ ending \in Endings \cup {"none"}
  /\ beat \in {"none", "waiting", "due", "gone"}
  /\ printed \in Seq(Lines) /\ phases \in Seq(Marks)

(* A copy names a step that was, with its phase.                           *)
Named(state) == state.step <= report.step /\ state.phase = PhaseOf(state.step)

CopiesInv ==
  /\ report.step = Len(phases)
  /\ Named(report) /\ Named(copy) /\ Named(stale)
  /\ turn \in {"marked", "ending"} => copy = report
  /\ turn = "marked" => report.step > 0

(* Where the two threads are together.                                     *)
ThreadsInv ==
  /\ turn \in {"never", "started"} <=> beat = "none"
  /\ beat = "none" => printed = <<>> /\ phases = <<>>
  /\ turn \in {"ending", "over"} => beat = "gone"
  /\ turn \in {"joining", "ending", "over"} => ending \in Endings

(* What was printed is behind what may be printed next.                    *)
LinesInv ==
  /\ \A i \in Printed("update") :
       printed[i].step > 0 /\ (turn = "marked" => printed[i].step < report.step)
  /\ \A i \in Printed("heartbeat") : printed[i].step <= stale.step
  /\ \A i \in DOMAIN printed : printed[i].event \in Endings => turn = "over"

ProgressInv == ProgressType /\ CopiesInv /\ ThreadsInv /\ LinesInv /\ ReportsInOrder

USE DEF Marks, Endings, Events, Phases, States

-----------------------------------------------------------------------------
(* A line more: the lines before stay where they are.                      *)
LEMMA AppendLine ==
  ASSUME NEW S, NEW seq \in Seq(S), NEW e \in S
  PROVE  /\ Append(seq, e) \in Seq(S)
         /\ Len(Append(seq, e)) = Len(seq) + 1
         /\ DOMAIN Append(seq, e) = 1..(Len(seq) + 1)
         /\ \A i \in 1..Len(seq) : Append(seq, e)[i] = seq[i]
         /\ Append(seq, e)[Len(seq) + 1] = e
BY AppendProperties

LEMMA ElementsOf ==
  ASSUME NEW S, NEW seq \in Seq(S)
  PROVE  Len(seq) \in Nat /\ DOMAIN seq = 1..Len(seq) /\ \A i \in DOMAIN seq : seq[i] \in S
OBVIOUS

LEMMA InitInv == ProgressInit => ProgressInv
<1> SUFFICES ASSUME ProgressInit PROVE ProgressInv
  OBVIOUS
<1>1. printed = <<>> /\ Len(printed) = 0 /\ DOMAIN printed = {} /\ Len(phases) = 0
  BY DEF ProgressInit
<1>2. ProgressType
  BY DEF ProgressInit, ProgressType, Planning
<1>3. CopiesInv /\ ThreadsInv
  BY <1>1 DEF ProgressInit, CopiesInv, ThreadsInv, Named, PhaseOf, Planning
<1>4. LinesInv
  BY <1>1 DEF LinesInv, Printed
<1>5. ReportsInOrder
  <2>1. 1..report.step = {}
    BY DEF ProgressInit, Planning
  <2>. QED BY <1>1, <2>1 DEF ReportsInOrder, Printed
<1>. QED BY <1>2, <1>3, <1>4, <1>5 DEF ProgressInv

(* A step that prints nothing and leaves the state alone keeps the order   *)
(* of the lines.                                                           *)
LEMMA QuietStep ==
  ASSUME ProgressInv, UNCHANGED <<report, printed, phases>>, turn' = "marked" <=> turn = "marked"
  PROVE  ReportsInOrder'
<1>1. Printed("update")' = Printed("update") /\ Printed("heartbeat")' = Printed("heartbeat")
  BY DEF Printed
<1>2. \A k : PhaseOf(k)' = PhaseOf(k)
  BY DEF PhaseOf
<1>. QED BY <1>1, <1>2 DEF ProgressInv, ReportsInOrder

(* A step to the next one: the phases so far stay.                         *)
LEMMA MarkStep ==
  ASSUME ProgressInv, NEW mark \in Marks, Mark(mark)
  PROVE  ProgressInv'
<1> USE DEF ProgressInv
<1>1. /\ report.step \in Nat /\ report' = Marked(mark) /\ copy' = report' /\ turn = "running" /\ turn' = "marked"
      /\ phases' = Append(phases, mark) /\ UNCHANGED <<ending, beat, stale, told, printed>>
  BY DEF Mark, ProgressType
<1>2. report'.step = report.step + 1 /\ report'.phase = mark /\ report' \in States
  BY <1>1 DEF Marked, ProgressType
<1>3. /\ phases' \in Seq(Marks) /\ Len(phases') = report.step + 1
      /\ \A i \in 1..report.step : phases'[i] = phases[i]
      /\ phases'[report.step + 1] = mark
  BY <1>1, AppendLine DEF ProgressType, CopiesInv
<1>4. ProgressType'
  BY <1>1, <1>2, <1>3 DEF ProgressType
<1>5. \A k \in 0..report.step : PhaseOf(k)' = PhaseOf(k)
  BY <1>1, <1>3 DEF PhaseOf
<1>6. CopiesInv'
  <2>1. Named(report)' /\ Named(copy)'
    BY <1>1, <1>2, <1>3 DEF Named, PhaseOf
  <2>2. Named(stale)'
    BY <1>1, <1>2, <1>5 DEF Named, CopiesInv, ProgressType
  <2>. QED BY <1>1, <1>2, <1>3, <2>1, <2>2 DEF CopiesInv
<1>7. ThreadsInv'
  BY <1>1 DEF ThreadsInv
<1>8. Printed("update")' = Printed("update") /\ Printed("heartbeat")' = Printed("heartbeat")
  BY <1>1 DEF Printed
<1>9. \A i \in DOMAIN printed : /\ printed[i] \in Lines /\ printed[i].step \in 0..report.step
                                 /\ printed[i].event \notin Endings
  <2>1. \A i \in DOMAIN printed : printed[i] \in Lines
    BY ElementsOf DEF ProgressType
  <2>2. \A i \in DOMAIN printed : printed[i].step \in Nat
    BY <2>1 DEF Lines
  <2>. QED BY <1>1, <2>1, <2>2 DEF ReportsInOrder, LinesInv
<1>10. LinesInv'
  BY <1>1, <1>2, <1>8, <1>9 DEF LinesInv, Printed
<1>11. ReportsInOrder'
  <2>1. \A k \in 1..report'.step : k = report'.step \/ \E i \in Printed("update")' : printed'[i].step = k
    <3> TAKE k \in 1..report'.step
    <3> SUFFICES ASSUME k # report'.step PROVE \E i \in Printed("update")' : printed'[i].step = k
      OBVIOUS
    <3>1. k \in 1..report.step
      BY <1>1, <1>2
    <3>. QED BY <1>1, <1>8, <3>1 DEF ReportsInOrder
  <2>2. (\A i \in DOMAIN printed :
           /\ printed[i].step <= report.step
           /\ printed[i].phase = PhaseOf(printed[i].step)
           /\ printed[i].event \notin Endings)'
    <3> SUFFICES ASSUME NEW i \in DOMAIN printed
                 PROVE  /\ printed[i].step <= report'.step
                        /\ printed[i].phase = PhaseOf(printed[i].step)'
                        /\ printed[i].event \notin Endings
      BY <1>1 DEF PhaseOf
    <3>1. printed[i].phase = PhaseOf(printed[i].step) /\ printed[i].step \in 0..report.step
      BY <1>9 DEF ReportsInOrder
    <3>. QED BY <1>1, <1>2, <1>3, <1>9, <3>1 DEF PhaseOf
  <2>. QED BY <1>1, <1>8, <2>1, <2>2 DEF ReportsInOrder
<1>. QED BY <1>4, <1>6, <1>7, <1>10, <1>11

(* A line printed by either thread.                                        *)
LEMMA LineStep ==
  ASSUME ProgressInv, NEW event \in Events, NEW state \in States, Named(state),
         PrintLine(event, state), UNCHANGED <<report, phases>>,
         turn # "over", turn' = "marked" <=> (turn = "marked" /\ event # "update"),
         event = "update" => turn = "marked" /\ state = report,
         event = "heartbeat" => state = stale,
         event \in Endings => state.step = report.step
  PROVE  /\ ReportsInOrder' /\ printed' \in Seq(Lines)
         /\ \A i \in Printed("update")' :
              printed'[i].step > 0 /\ (turn' = "marked" => printed'[i].step < report.step)
         /\ \A i \in Printed("heartbeat")' : printed'[i].step <= stale.step
         /\ \A i \in DOMAIN printed' : printed'[i].event \in Endings => event \in Endings
<1> USE DEF ProgressInv
<1> DEFINE n == Len(printed)
           line == Line(event, state)
<1>1. line \in Lines /\ line.event = event /\ line.step = state.step /\ line.phase = state.phase
  BY DEF Line, Lines
<1>2. /\ printed' \in Seq(Lines) /\ Len(printed') = n + 1 /\ DOMAIN printed' = 1..(n + 1)
      /\ \A i \in 1..n : printed'[i] = printed[i]
      /\ printed'[n + 1] = line
  BY <1>1, AppendLine DEF PrintLine, ProgressType
<1>3. n \in Nat /\ DOMAIN printed = 1..n /\ \A i \in 1..n : printed[i] \in Lines
  BY ElementsOf DEF ProgressType
<1>4. \A e : Printed(e)' = Printed(e) \cup (IF event = e THEN {n + 1} ELSE {})
  BY <1>1, <1>2, <1>3 DEF Printed
<1>5. \A e : Printed(e) \subseteq 1..n
  BY <1>3 DEF Printed
<1>6. \A i \in 1..n : printed[i].event \notin Endings /\ printed[i].step <= report.step /\ printed[i].phase = PhaseOf(printed[i].step)
  BY <1>3 DEF LinesInv, ReportsInOrder
<1>7. \A i, j \in Printed("update")' : i < j => printed'[i].step < printed'[j].step
  <2> SUFFICES ASSUME NEW i \in Printed("update")', NEW j \in Printed("update")', i < j
               PROVE  printed'[i].step < printed'[j].step
    OBVIOUS
  <2>1. i \in Printed("update") /\ i \in 1..n /\ printed'[i] = printed[i]
    BY <1>2, <1>3, <1>4, <1>5
  <2>2. CASE j = n + 1
    <3>1. event = "update"
      BY <1>3, <1>4, <1>5, <2>2
    <3>. QED BY <1>1, <1>2, <2>1, <2>2, <3>1 DEF LinesInv
  <2>3. CASE j \in Printed("update")
    BY <1>2, <1>5, <2>1, <2>3 DEF ReportsInOrder
  <2>. QED BY <1>4, <2>2, <2>3
<1>8. \A i, j \in Printed("heartbeat")' : i < j => printed'[i].step <= printed'[j].step
  <2> SUFFICES ASSUME NEW i \in Printed("heartbeat")', NEW j \in Printed("heartbeat")', i < j
               PROVE  printed'[i].step <= printed'[j].step
    OBVIOUS
  <2>1. i \in Printed("heartbeat") /\ i \in 1..n /\ printed'[i] = printed[i]
    BY <1>2, <1>3, <1>4, <1>5
  <2>2. CASE j = n + 1
    <3>1. event = "heartbeat"
      BY <1>3, <1>4, <1>5, <2>2
    <3>. QED BY <1>1, <1>2, <2>1, <2>2, <3>1 DEF LinesInv
  <2>3. CASE j \in Printed("heartbeat")
    BY <1>2, <1>5, <2>1, <2>3 DEF ReportsInOrder
  <2>. QED BY <1>4, <2>2, <2>3
<1>9. \A k \in 1..report'.step :
        (turn' = "marked" /\ k = report'.step) \/ \E i \in Printed("update")' : printed'[i].step = k
  <2> TAKE k \in 1..report'.step
  <2>1. k \in 1..report.step
    OBVIOUS
  <2>2. CASE turn = "marked" /\ k = report.step
    <3> SUFFICES ASSUME event = "update" PROVE \E i \in Printed("update")' : printed'[i].step = k
      BY <2>2
    <3>1. event = "update" /\ n + 1 \in Printed("update")' /\ printed'[n + 1].step = k
      BY <1>1, <1>2, <1>4, <2>2
    <3>. QED BY <3>1
  <2>3. CASE \E i \in Printed("update") : printed[i].step = k
    <3>1. PICK i \in Printed("update") : printed[i].step = k
      BY <2>3
    <3>2. i \in Printed("update")' /\ printed'[i].step = k
      BY <1>2, <1>4, <1>5, <3>1
    <3>. QED BY <3>2
  <2>. QED BY <2>1, <2>2, <2>3 DEF ReportsInOrder
<1>10. (\A i \in DOMAIN printed :
          /\ printed[i].step <= report.step
          /\ printed[i].phase = PhaseOf(printed[i].step)
          /\ printed[i].event \in Endings => i = Len(printed) /\ printed[i].step = report.step)'
  <2> SUFFICES ASSUME NEW i \in 1..(n + 1)
               PROVE  /\ printed'[i].step <= report.step
                      /\ printed'[i].phase = PhaseOf(printed'[i].step)
                      /\ printed'[i].event \in Endings => i = n + 1 /\ printed'[i].step = report.step
    BY <1>2 DEF PhaseOf
  <2>2. CASE i \in 1..n
    BY <1>2, <1>6, <2>2
  <2>3. CASE i = n + 1
    BY <1>1, <1>2, <2>3 DEF Named
  <2>. QED BY <1>3, <2>2, <2>3
<1>14. \A i \in DOMAIN printed' : printed'[i].event \in Endings => event \in Endings
  <2> SUFFICES ASSUME NEW i \in 1..(n + 1), printed'[i].event \in Endings PROVE event \in Endings
    BY <1>2
  <2>2. CASE i \in 1..n
    BY <1>2, <1>6, <2>2
  <2>3. CASE i = n + 1
    BY <1>1, <1>2, <2>3
  <2>. QED BY <1>3, <2>2, <2>3
<1>11. ReportsInOrder'
  BY <1>7, <1>8, <1>9, <1>10 DEF ReportsInOrder
<1>12. \A i \in Printed("update")' :
         printed'[i].step > 0 /\ (turn' = "marked" => printed'[i].step < report.step)
  <2> TAKE i \in Printed("update")'
  <2>1. CASE i = n + 1
    BY <1>1, <1>2, <1>3, <1>4, <1>5, <2>1 DEF CopiesInv
  <2>2. CASE i \in Printed("update")
    BY <1>2, <1>5, <2>2 DEF LinesInv
  <2>. QED BY <1>4, <2>1, <2>2
<1>13. \A i \in Printed("heartbeat")' : printed'[i].step <= stale.step
  <2> TAKE i \in Printed("heartbeat")'
  <2>1. CASE i = n + 1
    BY <1>1, <1>2, <1>3, <1>4, <1>5, <2>1 DEF ProgressType
  <2>2. CASE i \in Printed("heartbeat")
    BY <1>2, <1>5, <2>2 DEF LinesInv
  <2>. QED BY <1>4, <2>1, <2>2
<1>. QED BY <1>2, <1>11, <1>12, <1>13, <1>14

-----------------------------------------------------------------------------
LEMMA NextInv == ProgressInv /\ [ProgressNext]_progressVars => ProgressInv'
<1> SUFFICES ASSUME ProgressInv, [ProgressNext]_progressVars PROVE ProgressInv'
  OBVIOUS
<1> USE DEF ProgressInv
<1>1. CASE StartUltraplan
  <2>1. "started" \in Events /\ copy \in States /\ Named(copy) /\ PrintLine("started", copy)
        /\ UNCHANGED <<report, phases>> /\ turn # "over" /\ stale' = stale
        /\ (turn' = "marked" <=> (turn = "marked" /\ "started" # "update"))
        /\ ("started" = "update" => turn = "marked" /\ copy = report)
        /\ ("started" = "heartbeat" => copy = stale)
        /\ ("started" \in Endings => copy.step = report.step)
    BY <1>1 DEF StartUltraplan, ProgressType, CopiesInv, ThreadsInv
  <2>2. /\ ReportsInOrder' /\ printed' \in Seq(Lines)
        /\ \A i \in Printed("update")' :
             printed'[i].step > 0 /\ (turn' = "marked" => printed'[i].step < report.step)
        /\ \A i \in Printed("heartbeat")' : printed'[i].step <= stale.step
        /\ \A i \in DOMAIN printed' : printed'[i].event \in Endings => "started" \in Endings
    BY <2>1, LineStep
  <2>3. ProgressType' /\ ThreadsInv'
    BY <1>1, <2>2 DEF StartUltraplan, ProgressType, ThreadsInv
  <2>4. CopiesInv'
    BY <1>1 DEF StartUltraplan, ProgressType, CopiesInv, Named, PhaseOf
  <2>5. LinesInv'
    BY <1>1, <2>1, <2>2 DEF StartUltraplan, LinesInv
  <2>. QED BY <2>2, <2>3, <2>4, <2>5
<1>2. CASE \E mark \in Marks : Mark(mark)
  BY <1>2, MarkStep
<1>3. CASE PrintMark
  <2>1. "update" \in Events /\ copy \in States /\ Named(copy) /\ PrintLine("update", copy)
        /\ UNCHANGED <<report, phases>> /\ turn # "over" /\ stale' = stale
        /\ (turn' = "marked" <=> (turn = "marked" /\ "update" # "update"))
        /\ ("update" = "update" => turn = "marked" /\ copy = report)
        /\ ("update" = "heartbeat" => copy = stale)
        /\ ("update" \in Endings => copy.step = report.step)
    BY <1>3 DEF PrintMark, ProgressType, CopiesInv, ThreadsInv
  <2>2. /\ ReportsInOrder' /\ printed' \in Seq(Lines)
        /\ \A i \in Printed("update")' :
             printed'[i].step > 0 /\ (turn' = "marked" => printed'[i].step < report.step)
        /\ \A i \in Printed("heartbeat")' : printed'[i].step <= stale.step
        /\ \A i \in DOMAIN printed' : printed'[i].event \in Endings => "update" \in Endings
    BY <2>1, LineStep
  <2>3. ProgressType' /\ ThreadsInv'
    BY <1>3, <2>2 DEF PrintMark, ProgressType, ThreadsInv
  <2>4. CopiesInv'
    BY <1>3 DEF PrintMark, ProgressType, CopiesInv, Named, PhaseOf
  <2>5. LinesInv'
    BY <1>3, <2>1, <2>2 DEF PrintMark, LinesInv
  <2>. QED BY <2>2, <2>3, <2>4, <2>5
<1>4. CASE \E event \in Endings : Finish(event)
  <2>1. ReportsInOrder'
    BY <1>4, QuietStep DEF Finish
  <2>2. ProgressType' /\ ThreadsInv'
    BY <1>4 DEF Finish, ProgressType, ThreadsInv
  <2>3. CopiesInv' /\ LinesInv'
    BY <1>4 DEF Finish, ProgressType, CopiesInv, LinesInv, Named, PhaseOf, Printed
  <2>. QED BY <2>1, <2>2, <2>3
<1>5. CASE Join
  <2>1. ReportsInOrder'
    BY <1>5, QuietStep DEF Join, HeartbeatGone
  <2>2. ProgressType' /\ ThreadsInv'
    BY <1>5 DEF Join, HeartbeatGone, ProgressType, ThreadsInv
  <2>3. CopiesInv' /\ LinesInv'
    BY <1>5 DEF Join, HeartbeatGone, ProgressType, CopiesInv, LinesInv, Named, PhaseOf, Printed
  <2>. QED BY <2>1, <2>2, <2>3
<1>6. CASE PrintEnding
  <2>1. ending \in Events /\ copy \in States /\ Named(copy) /\ PrintLine(ending, copy)
        /\ UNCHANGED <<report, phases>> /\ turn # "over" /\ stale' = stale
        /\ (turn' = "marked" <=> (turn = "marked" /\ ending # "update"))
        /\ (ending = "update" => turn = "marked" /\ copy = report)
        /\ (ending = "heartbeat" => copy = stale)
        /\ (ending \in Endings => copy.step = report.step)
    BY <1>6 DEF PrintEnding, ProgressType, CopiesInv, ThreadsInv
  <2>2. /\ ReportsInOrder' /\ printed' \in Seq(Lines)
        /\ \A i \in Printed("update")' :
             printed'[i].step > 0 /\ (turn' = "marked" => printed'[i].step < report.step)
        /\ \A i \in Printed("heartbeat")' : printed'[i].step <= stale.step
        /\ \A i \in DOMAIN printed' : printed'[i].event \in Endings => ending \in Endings
    BY <2>1, LineStep
  <2>3. ProgressType' /\ ThreadsInv'
    BY <1>6, <2>2 DEF PrintEnding, ProgressType, ThreadsInv
  <2>4. CopiesInv'
    BY <1>6 DEF PrintEnding, ProgressType, CopiesInv, Named, PhaseOf
  <2>5. LinesInv'
    BY <1>6, <2>1, <2>2 DEF PrintEnding, LinesInv
  <2>. QED BY <2>2, <2>3, <2>4, <2>5
<1>7. CASE HeartbeatStops
  <2>1. ReportsInOrder'
    BY <1>7, QuietStep DEF HeartbeatStops
  <2>2. ProgressType' /\ ThreadsInv'
    BY <1>7 DEF HeartbeatStops, ProgressType, ThreadsInv
  <2>3. CopiesInv' /\ LinesInv'
    BY <1>7 DEF HeartbeatStops, ProgressType, CopiesInv, LinesInv, Named, PhaseOf, Printed
  <2>. QED BY <2>1, <2>2, <2>3
<1>8. CASE HeartbeatDue
  <2>1. ReportsInOrder'
    BY <1>8, QuietStep DEF HeartbeatDue
  <2>2. ProgressType' /\ ThreadsInv'
    BY <1>8 DEF HeartbeatDue, ProgressType, ThreadsInv
  <2>3. CopiesInv'
    BY <1>8 DEF HeartbeatDue, ProgressType, CopiesInv, Named, PhaseOf
  <2>4. LinesInv'
    <3>1. \A i \in Printed("heartbeat") : printed[i].step <= report.step
      BY DEF ReportsInOrder, Printed
    <3>. QED BY <1>8, <3>1 DEF HeartbeatDue, LinesInv, Printed
  <2>. QED BY <2>1, <2>2, <2>3, <2>4
<1>9. CASE PrintHeartbeat
  <2>1. "heartbeat" \in Events /\ stale \in States /\ Named(stale) /\ PrintLine("heartbeat", stale)
        /\ UNCHANGED <<report, phases>> /\ turn # "over" /\ stale' = stale
        /\ (turn' = "marked" <=> (turn = "marked" /\ "heartbeat" # "update"))
        /\ ("heartbeat" = "update" => turn = "marked" /\ stale = report)
        /\ ("heartbeat" = "heartbeat" => stale = stale)
        /\ ("heartbeat" \in Endings => stale.step = report.step)
    BY <1>9 DEF PrintHeartbeat, ProgressType, CopiesInv, ThreadsInv
  <2>2. /\ ReportsInOrder' /\ printed' \in Seq(Lines)
        /\ \A i \in Printed("update")' :
             printed'[i].step > 0 /\ (turn' = "marked" => printed'[i].step < report.step)
        /\ \A i \in Printed("heartbeat")' : printed'[i].step <= stale.step
        /\ \A i \in DOMAIN printed' : printed'[i].event \in Endings => "heartbeat" \in Endings
    BY <2>1, LineStep
  <2>3. ProgressType' /\ ThreadsInv'
    BY <1>9, <2>2 DEF PrintHeartbeat, ProgressType, ThreadsInv
  <2>4. CopiesInv'
    BY <1>9 DEF PrintHeartbeat, ProgressType, CopiesInv, Named, PhaseOf
  <2>5. LinesInv'
    BY <1>9, <2>1, <2>2 DEF PrintHeartbeat, LinesInv
  <2>. QED BY <2>2, <2>3, <2>4, <2>5
<1>10. CASE UNCHANGED progressVars
  <2>1. ReportsInOrder'
    BY <1>10, QuietStep DEF progressVars
  <2>2. ProgressType' /\ ThreadsInv'
    BY <1>10 DEF progressVars, ProgressType, ThreadsInv
  <2>3. CopiesInv' /\ LinesInv'
    BY <1>10 DEF progressVars, ProgressType, CopiesInv, LinesInv, Named, PhaseOf, Printed
  <2>. QED BY <2>1, <2>2, <2>3
<1>. QED
  BY <1>1, <1>2, <1>3, <1>4, <1>5, <1>6, <1>7, <1>8, <1>9, <1>10
  DEF ProgressNext, Turn, Heartbeat, Finishing

(* The lines of a run of /ultraplan come in the order of its steps, none   *)
(* left out and none after the last, for any number of steps.              *)
THEOREM ReportsStayInOrder == ProgressSpec => []ReportsInOrder
<1>1. ProgressInv => ReportsInOrder
  BY DEF ProgressInv
<1>. QED BY <1>1, InitInv, NextInv, PTL DEF ProgressSpec
-----------------------------------------------------------------------------
(* Keys and what is under them.                                            *)
AnEntry == [key : STRING \cup DOMAIN Settings \cup Nat, val : STRING]

LEMMA LeastExists ==
  ASSUME NEW S, S \subseteq Nat, S # {}
  PROVE  Least(S) \in S /\ \A j \in S : Least(S) <= j
<1> DEFINE R == OpToRel(<, Nat)
<1>1. R = {ss \in Nat \X Nat : ss[1] < ss[2]}
  BY DEF OpToRel
<1>2. IsWellFoundedOn(R, Nat)
  BY NatLessThanWellFounded
<1> HIDE DEF R
<1>3. PICK i \in S : \A j \in S : ~(<<j, i>> \in R)
  BY <1>2, WFMin
<1>4. ASSUME NEW j \in S PROVE i <= j
  <2>1. i \in Nat /\ j \in Nat /\ <<j, i>> \notin R
    BY <1>3
  <2>2. <<j, i>> \in Nat \X Nat /\ <<j, i>>[1] = j /\ <<j, i>>[2] = i
    BY <2>1
  <2>3. ~(j < i)
    BY <1>1, <2>1, <2>2
  <2>. QED BY <2>1, <2>3
<1>. QED BY <1>3, <1>4 DEF Least

LEMMA AtIs ==
  ASSUME NEW e \in Seq(AnEntry), KeyedOnce(e), NEW i \in DOMAIN e
  PROVE  At(e, e[i].key) = i
<1> DEFINE S == {j \in DOMAIN e : e[j].key = e[i].key}
<1>1. S = {i} /\ S \subseteq Nat
  BY DEF KeyedOnce
<1>2. Least(S) \in S
  BY <1>1, LeastExists
<1>. QED BY <1>1, <1>2 DEF At

LEMMA ContentsIs ==
  ASSUME NEW e \in Seq(AnEntry), KeyedOnce(e)
  PROVE  /\ DOMAIN Contents(e) = Keys(e)
         /\ \A i \in DOMAIN e : e[i].key \in Keys(e) /\ Contents(e)[e[i].key] = e[i].val
         /\ \A k \in Keys(e) : \E i \in DOMAIN e : e[i].key = k
<1>1. \A i \in DOMAIN e : At(e, e[i].key) = i
  BY AtIs
<1>. QED BY <1>1 DEF Contents, Keys

(* What has an entry's value under each key are the contents.              *)
LEMMA TheseAreContents ==
  ASSUME NEW e \in Seq(AnEntry), KeyedOnce(e),
         NEW f, f = [k \in DOMAIN f |-> f[k]],
         DOMAIN f = Keys(e), \A i \in DOMAIN e : f[e[i].key] = e[i].val
  PROVE  f = Contents(e)
<1>1. ASSUME NEW k \in Keys(e) PROVE f[k] = e[At(e, k)].val
  <2>1. PICK i \in DOMAIN e : e[i].key = k
    BY DEF Keys
  <2>. QED BY <2>1, AtIs
<1>2. f = [k \in Keys(e) |-> f[k]]
  OBVIOUS
<1>. QED BY <1>1, <1>2 DEF Contents

(* A file that was kept well: a line and an item is known by its place; the*)
(* ids of cells are no greater than their number, until one is deleted.    *)
KeptWell(k, gone, e) ==
  /\ e \in Seq(AnEntry) /\ KeyedOnce(e)
  /\ k \in {"text", "todos"} => \A i \in DOMAIN e : e[i].key = i
  /\ k = "notebook" => \A i \in DOMAIN e : e[i].key \in Nat /\ (~gone => e[i].key \in 1..Len(e))

Done(k, gone, c, w) == KeptWell(k, gone \/ c.tool = "delete", w) /\ Effect(c, w) = Contents(w)

LEMMA ListIsKept ==
  ASSUME NEW e \in Lists, NEW k \in Kinds, k # "settings", NEW gone
  PROVE  KeptWell(k, gone, e)
<1>1. e \in Seq([key : Nat, val : STRING]) /\ \A i \in DOMAIN e : e[i].key = i
  BY DEF Lists
<1>2. e \in Seq(AnEntry)
  <2> DEFINE R == [key : Nat, val : STRING]
  <2>1. e \in Seq(R) /\ R \subseteq AnEntry
    BY <1>1 DEF AnEntry
  <2> HIDE DEF R
  <2>2. \A i \in 1..Len(e) : e[i] \in R
    BY <2>1
  <2>3. \A i \in 1..Len(e) : e[i] \in AnEntry
    BY <2>1, <2>2
  <2>. QED BY <2>1, <2>3
<1>3. \A i \in DOMAIN e : i \in Nat /\ i \in 1..Len(e)
  BY <1>1
<1>. QED BY <1>1, <1>2, <1>3 DEF KeptWell, KeyedOnce

LEMMA EditDone ==
  ASSUME NEW gone \in BOOLEAN, NEW c \in [tool : {"edit"}, old : STRING, val : STRING, all : BOOLEAN],
         NEW e, KeptWell("text", gone, e), last = Contents(e), ~Refused(c, e)
  PROVE  Done("text", gone, c, Updated(c, e))
<1> DEFINE S   == Matches(e, c.old)
           hit == IF c.all THEN S ELSE {Least(S)}
           w   == [i \in DOMAIN e |-> IF i \in hit THEN Entry(e[i].key, c.val) ELSE e[i]]
<1>1. Updated(c, e) = w
  BY DEF Updated, Edited
<1>2. /\ e \in Seq(AnEntry) /\ KeyedOnce(e) /\ \A i \in DOMAIN e : e[i].key = i
      /\ \A i \in DOMAIN e : e[i] \in AnEntry
  BY DEF KeptWell
<1>3. S # {} /\ S \subseteq DOMAIN e /\ S \subseteq Nat
  BY <1>2 DEF Refused, Matches
<1>4. Least(S) \in S
  BY <1>3, LeastExists
<1>5. /\ DOMAIN last = DOMAIN e /\ \A i \in DOMAIN e : last[i] = e[i].val
      /\ {k \in DOMAIN last : last[k] = c.old} = S
  <2>1. DOMAIN last = Keys(e) /\ \A i \in DOMAIN e : last[e[i].key] = e[i].val
    BY <1>2, ContentsIs
  <2>2. Keys(e) = DOMAIN e
    BY <1>2 DEF Keys
  <2>. QED BY <1>2, <2>1, <2>2 DEF Matches
<1>6. /\ w \in Seq(AnEntry) /\ DOMAIN w = DOMAIN e
      /\ \A i \in DOMAIN e : w[i].key = i /\ w[i].val = IF i \in hit THEN c.val ELSE e[i].val
  <2>1. \A i \in DOMAIN e : Entry(e[i].key, c.val) \in AnEntry
    BY <1>2 DEF Entry, AnEntry
  <2>2. \A i \in DOMAIN e : (IF i \in hit THEN Entry(e[i].key, c.val) ELSE e[i]) \in AnEntry
    BY <1>2, <2>1
  <2>. QED BY <1>2, <2>2 DEF Entry
<1> HIDE DEF w
<1>7. KeyedOnce(w) /\ Keys(w) = DOMAIN e
  <2>1. KeyedOnce(w)
    BY <1>6 DEF KeyedOnce
  <2>2. Keys(w) = {i : i \in DOMAIN e}
    BY <1>6 DEF Keys
  <2>. QED BY <2>1, <2>2
<1>8. \A k \in DOMAIN e : (last[k] = c.old /\ (c.all \/ k = FirstKey(c.old))) <=> k \in hit
  BY <1>4, <1>5 DEF FirstKey, Matches
<1>9. Effect(c, w) = Contents(w)
  <2> DEFINE f == [k \in DOMAIN last |-> IF last[k] = c.old /\ (c.all \/ k = FirstKey(c.old)) THEN c.val ELSE last[k]]
  <2>1. Effect(c, w) = f
    BY DEF Effect
  <2>2. \A i \in DOMAIN w : f[w[i].key] = w[i].val
    BY <1>5, <1>6, <1>8
  <2>3. f = [k \in DOMAIN f |-> f[k]] /\ DOMAIN f = Keys(w)
    BY <1>5, <1>7
  <2> HIDE DEF f
  <2>. QED BY <1>6, <1>7, <2>1, <2>2, <2>3, TheseAreContents
<1>. QED BY <1>1, <1>6, <1>7, <1>9 DEF Done, KeptWell

LEMMA ListDone ==
  ASSUME NEW k \in {"text", "todos"}, NEW gone \in BOOLEAN, NEW c, NEW w \in Lists,
         c.tool \in {"write", "todo"}
  PROVE  Done(k, gone, c, w)
<1>1. KeptWell(k, gone \/ c.tool = "delete", w)
  BY ListIsKept DEF Kinds
<1>2. Effect(c, w) = Contents(w)
  BY DEF Effect
<1>. QED BY <1>1, <1>2 DEF Done

(* What is left when an element is taken out of a sequence, and what there *)
(* is when one is put in.                                                  *)
LEMMA RemoveAtIs ==
  ASSUME NEW S, NEW e \in Seq(S), NEW p \in 1..Len(e)
  PROVE  /\ RemoveAt(e, p) \in Seq(S) /\ Len(RemoveAt(e, p)) = Len(e) - 1
         /\ \A i \in 1..Len(e) - 1 : RemoveAt(e, p)[i] = IF i < p THEN e[i] ELSE e[i + 1]
<1> DEFINE u == SubSeq(e, 1, p - 1)
           v == SubSeq(e, p + 1, Len(e))
<1>1. /\ u \in Seq(S) /\ Len(u) = p - 1 /\ \A i \in 1..p - 1 : u[i] = e[i]
  BY SubSeqProperties
<1>2. /\ v \in Seq(S) /\ Len(v) = Len(e) - p /\ \A i \in 1..Len(e) - p : v[i] = e[p + i]
  BY SubSeqProperties
<1>3. RemoveAt(e, p) = u \o v
  BY DEF RemoveAt
<1> HIDE DEF u, v
<1>4. /\ u \o v \in Seq(S) /\ Len(u \o v) = Len(u) + Len(v)
      /\ \A i \in 1..Len(u) + Len(v) : (u \o v)[i] = IF i <= Len(u) THEN u[i] ELSE v[i - Len(u)]
  BY <1>1, <1>2, ConcatProperties
<1>5. Len(u) + Len(v) = Len(e) - 1
  BY <1>1, <1>2
<1>6. ASSUME NEW i \in 1..Len(e) - 1 PROVE (u \o v)[i] = IF i < p THEN e[i] ELSE e[i + 1]
  <2>1. CASE i < p
    BY <1>1, <1>4, <1>5, <2>1
  <2>2. CASE ~(i < p)
    <3>1. i - (p - 1) \in 1..Len(e) - p /\ p + (i - (p - 1)) = i + 1 /\ ~(i <= p - 1)
      BY <2>2
    <3>. QED BY <1>1, <1>2, <1>4, <1>5, <2>2, <3>1
  <2>. QED BY <2>1, <2>2
<1>. QED BY <1>3, <1>4, <1>5, <1>6

(* What is left of the members when a value made way for an object.        *)
LEMMA MadeWay ==
  ASSUME NEW e \in Seq(AnEntry), KeyedOnce(e), last = Contents(e), NEW c
  PROVE  LET v == WithObject(c, e) IN
         /\ v \in Seq(AnEntry) /\ KeyedOnce(v)
         /\ Keys(v) = DOMAIN last \ (IF Nested(c) THEN {Around(c)} ELSE {})
         /\ \A i \in DOMAIN v : v[i].key \in Keys(v) /\ last[v[i].key] = v[i].val
<1> DEFINE v == WithObject(c, e)
           gone == IF Nested(c) THEN {Around(c)} ELSE {}
<1>1. /\ DOMAIN last = Keys(e) /\ \A i \in DOMAIN e : e[i].key \in Keys(e) /\ last[e[i].key] = e[i].val
  BY ContentsIs
<1>2. CASE ~(Nested(c) /\ Around(c) \in Keys(e))
  <2>1. v = e
    BY <1>2 DEF WithObject
  <2>2. Keys(e) = DOMAIN last \ gone
    BY <1>1, <1>2
  <2>. QED BY <1>1, <2>1, <2>2
<1>3. CASE Nested(c) /\ Around(c) \in Keys(e)
  <2> DEFINE p == At(e, Around(c))
  <2>1. v = RemoveAt(e, p) /\ gone = {Around(c)}
    BY <1>3 DEF WithObject
  <2>2. p \in DOMAIN e /\ e[p].key = Around(c)
    <3>1. PICK i \in DOMAIN e : e[i].key = Around(c)
      BY <1>3 DEF Keys
    <3>. QED BY <3>1, AtIs
  <2>3. DOMAIN e = 1..Len(e) /\ Len(e) \in Nat
    OBVIOUS
  <2> HIDE DEF p, v, gone
  <2>4. /\ v \in Seq(AnEntry) /\ Len(v) = Len(e) - 1
        /\ \A i \in 1..Len(e) - 1 : v[i] = IF i < p THEN e[i] ELSE e[i + 1]
    BY <2>1, <2>2, <2>3, RemoveAtIs
  <2>5. DOMAIN v = 1..Len(e) - 1
    BY <2>4
  <2> DEFINE at(i) == IF i < p THEN i ELSE i + 1
  <2>6. \A i \in DOMAIN v : at(i) \in DOMAIN e /\ at(i) # p /\ v[i] = e[at(i)]
    BY <2>2, <2>3, <2>4, <2>5
  <2>7. \A i, j \in DOMAIN v : at(i) = at(j) => i = j
    BY <2>2, <2>3, <2>5
  <2>8. \A m \in DOMAIN e : m # p => \E i \in DOMAIN v : at(i) = m
    <3> SUFFICES ASSUME NEW m \in DOMAIN e, m # p PROVE \E i \in DOMAIN v : at(i) = m
      OBVIOUS
    <3>1. CASE m < p
      <4>1. m \in DOMAIN v /\ at(m) = m
        BY <2>2, <2>3, <2>5, <3>1
      <4>. QED BY <4>1
    <3>2. CASE ~(m < p)
      <4>1. m - 1 \in DOMAIN v /\ at(m - 1) = m
        BY <2>2, <2>3, <2>5, <3>2
      <4>. QED BY <4>1
    <3>. QED BY <3>1, <3>2
  <2> HIDE DEF at
  <2>9. KeyedOnce(v)
    BY <2>6, <2>7 DEF KeyedOnce
  <2>10. \A i \in DOMAIN v : v[i].key # Around(c)
    BY <2>2, <2>6 DEF KeyedOnce
  <2>11. Keys(v) = Keys(e) \ {Around(c)}
    <3>1. ASSUME NEW k \in Keys(v) PROVE k \in Keys(e) \ {Around(c)}
      BY <2>6, <2>10, <3>1 DEF Keys
    <3>2. ASSUME NEW k \in Keys(e), k # Around(c) PROVE k \in Keys(v)
      <4>1. PICK m \in DOMAIN e : e[m].key = k
        BY DEF Keys
      <4>2. m # p
        BY <2>2, <3>2, <4>1
      <4>3. PICK i \in DOMAIN v : at(i) = m
        BY <2>8, <4>2
      <4>. QED BY <2>6, <4>1, <4>3 DEF Keys
    <3>. QED BY <3>1, <3>2
  <2>12. \A i \in DOMAIN v : v[i].key \in Keys(v) /\ last[v[i].key] = v[i].val
    BY <1>1, <2>6 DEF Keys
  <2>. QED BY <1>1, <2>1, <2>4, <2>9, <2>11, <2>12 DEF v, gone
<1>. QED BY <1>2, <1>3

LEMMA SettingDone ==
  ASSUME NEW gone \in BOOLEAN, NEW c, c.tool \in {"config", "plugin"},
         c.key \in STRING \cup DOMAIN Settings, c.val \in STRING,
         NEW e, KeptWell("settings", gone, e), last = Contents(e)
  PROVE  Done("settings", gone, c, Updated(c, e))
<1> DEFINE w == SetIn(c, e)
           v == WithObject(c, e)
           rest == DOMAIN last \ (IF Nested(c) THEN {Around(c)} ELSE {})
           f == [k \in rest \cup {c.key} |-> IF k = c.key THEN c.val ELSE last[k]]
<1>1. Updated(c, e) = w
  BY DEF Updated
<1>2. e \in Seq(AnEntry) /\ KeyedOnce(e)
  BY DEF KeptWell
<1>3. /\ v \in Seq(AnEntry) /\ KeyedOnce(v) /\ rest = Keys(v) /\ rest \subseteq DOMAIN last
      /\ \A i \in DOMAIN v : v[i].key \in Keys(v) /\ last[v[i].key] = v[i].val
  BY <1>2, MadeWay
<1>4. Entry(c.key, c.val) \in AnEntry /\ Entry(c.key, c.val).key = c.key /\ Entry(c.key, c.val).val = c.val
  BY DEF Entry, AnEntry
<1>5. /\ Effect(c, w) = f /\ DOMAIN f = rest \cup {c.key} /\ f = [k \in DOMAIN f |-> f[k]]
      /\ f[c.key] = c.val /\ \A k \in rest : k # c.key => f[k] = last[k]
  BY DEF Effect
<1>5a. w = IF c.key \in Keys(v)
           THEN [i \in DOMAIN v |-> IF v[i].key = c.key THEN Entry(c.key, c.val) ELSE v[i]]
           ELSE Append(v, Entry(c.key, c.val))
  BY DEF SetIn
<1> HIDE DEF f, v, w, rest
<1>6. /\ w \in Seq(AnEntry) /\ KeyedOnce(w) /\ Keys(w) = rest \cup {c.key}
      /\ \A i \in DOMAIN w : f[w[i].key] = w[i].val
  <2>1. CASE c.key \in Keys(v)
    <3>1. w = [i \in DOMAIN v |-> IF v[i].key = c.key THEN Entry(c.key, c.val) ELSE v[i]]
      BY <1>5a, <2>1
    <3>2. /\ w \in Seq(AnEntry) /\ DOMAIN w = DOMAIN v /\ \A i \in DOMAIN v : w[i].key = v[i].key
          /\ \A i \in DOMAIN v : w[i].val = IF v[i].key = c.key THEN c.val ELSE v[i].val
      BY <1>3, <1>4, <3>1
    <3>3. KeyedOnce(w) /\ Keys(w) = Keys(v)
      BY <1>3, <3>2 DEF KeyedOnce, Keys
    <3>4. \A i \in DOMAIN w : f[w[i].key] = w[i].val
      BY <1>3, <1>5, <3>2
    <3>. QED BY <1>3, <2>1, <3>2, <3>3, <3>4
  <2>2. CASE c.key \notin Keys(v)
    <3> DEFINE m == Len(v) + 1
    <3>1. w = Append(v, Entry(c.key, c.val))
      BY <1>5a, <2>2
    <3>2. /\ w \in Seq(AnEntry) /\ DOMAIN w = 1..m /\ DOMAIN v = 1..Len(v) /\ Len(v) \in Nat
          /\ w[m] = Entry(c.key, c.val) /\ \A i \in 1..Len(v) : w[i] = v[i]
          /\ \A i \in 1..m : i \in 1..Len(v) \/ i = m
      BY <1>3, <1>4, <3>1, AppendProperties
    <3>3. KeyedOnce(w)
      BY <1>3, <1>4, <2>2, <3>2 DEF KeyedOnce
    <3>4. Keys(w) = Keys(v) \cup {c.key}
      <4>1. m \in DOMAIN w /\ DOMAIN v \subseteq DOMAIN w
        BY <3>2
      <4>. QED BY <1>4, <3>2, <4>1 DEF Keys
    <3>5. \A i \in DOMAIN w : f[w[i].key] = w[i].val
      BY <1>3, <1>4, <1>5, <2>2, <3>2
    <3>. QED BY <1>3, <3>2, <3>3, <3>4, <3>5
  <2>. QED BY <2>1, <2>2
<1>7. Effect(c, w) = Contents(w)
  <2>1. f = [k \in DOMAIN f |-> f[k]] /\ DOMAIN f = Keys(w)
    BY <1>5, <1>6
  <2>3. w \in Seq(AnEntry) /\ KeyedOnce(w) /\ \A i \in DOMAIN w : f[w[i].key] = w[i].val
    BY <1>6
  <2>2. f = Contents(w)
    BY <2>1, <2>3, TheseAreContents
  <2>. QED BY <1>5, <2>2
<1>. QED BY <1>1, <1>6, <1>7 DEF Done, KeptWell

LEMMA InsertAtIs ==
  ASSUME NEW S, NEW e \in Seq(S), NEW p \in 0..Len(e), NEW x \in S
  PROVE  /\ InsertAt(e, p + 1, x) \in Seq(S) /\ Len(InsertAt(e, p + 1, x)) = Len(e) + 1
         /\ \A i \in 1..Len(e) + 1 :
              InsertAt(e, p + 1, x)[i] = IF i <= p THEN e[i] ELSE IF i = p + 1 THEN x ELSE e[i - 1]
<1> DEFINE u == SubSeq(e, 1, p)
           v == SubSeq(e, p + 1, Len(e))
<1>1. /\ u \in Seq(S) /\ Len(u) = p /\ \A i \in 1..p : u[i] = e[i]
  BY SubSeqProperties
<1>2. /\ v \in Seq(S) /\ Len(v) = Len(e) - p /\ \A i \in 1..Len(e) - p : v[i] = e[p + i]
  BY SubSeqProperties
<1>3. InsertAt(e, p + 1, x) = (u \o <<x>>) \o v
  <2>1. (p + 1) - 1 = p
    OBVIOUS
  <2>2. InsertAt(e, p + 1, x) = (SubSeq(e, 1, (p + 1) - 1) \o <<x>>) \o v
    BY Zenon DEF InsertAt
  <2>. QED BY Zenon, <2>1, <2>2
<1> HIDE DEF u, v
<1> DEFINE t == u \o <<x>>
<1>4. t \in Seq(S) /\ Len(t) = p + 1 /\ \A i \in 1..p + 1 : t[i] = IF i <= p THEN e[i] ELSE x
  BY <1>1, ConcatProperties
<1>5. InsertAt(e, p + 1, x) = t \o v
  BY <1>3
<1> HIDE DEF t
<1>6. /\ t \o v \in Seq(S) /\ Len(t \o v) = Len(t) + Len(v)
      /\ \A i \in 1..Len(t) + Len(v) : (t \o v)[i] = IF i <= Len(t) THEN t[i] ELSE v[i - Len(t)]
  BY <1>2, <1>4, ConcatProperties
<1>7. Len(t) + Len(v) = Len(e) + 1
  BY <1>2, <1>4
<1>8. ASSUME NEW i \in 1..Len(e) + 1
      PROVE  (t \o v)[i] = IF i <= p THEN e[i] ELSE IF i = p + 1 THEN x ELSE e[i - 1]
  <2>1. CASE i <= p + 1
    BY <1>4, <1>6, <1>7, <2>1
  <2>2. CASE ~(i <= p + 1)
    <3>1. i - (p + 1) \in 1..Len(e) - p /\ p + (i - (p + 1)) = i - 1 /\ ~(i <= p) /\ i # p + 1
      BY <2>2
    <3>. QED BY <1>2, <1>4, <1>6, <1>7, <2>2, <3>1
  <2>. QED BY <2>1, <2>2
<1>. QED BY <1>5, <1>6, <1>7, <1>8

(* The cell a call is about is one of the notebook.                        *)
LEMMA PositionIs ==
  ASSUME NEW c, c.id \in Nat, NEW e \in Seq(AnEntry), KeyedOnce(e)
  PROVE  /\ Position(c, e) \in 0..Len(e)
         /\ Position(c, e) # 0 /\ c.id # 0 => e[Position(c, e)].key = c.id
         /\ c.id = 0 => Position(c, e) = Len(e)
<1>1. CASE c.id = 0
  BY <1>1 DEF Position
<1>2. CASE c.id # 0 /\ c.id \in Keys(e)
  <2>1. PICK i \in DOMAIN e : e[i].key = c.id
    BY <1>2 DEF Keys
  <2>2. At(e, c.id) = i
    BY <2>1, AtIs
  <2>. QED BY <1>2, <2>1, <2>2 DEF Position
<1>3. CASE c.id # 0 /\ c.id \notin Keys(e)
  BY <1>3 DEF Position
<1>. QED BY <1>1, <1>2, <1>3

OnCells == [tool : {"replace", "insert", "delete"}, id : Nat, val : STRING]

LEMMA ReplaceDone ==
  ASSUME NEW gone \in BOOLEAN, NEW c \in OnCells, c.tool = "replace",
         NEW e, KeptWell("notebook", gone, e), last = Contents(e), ~Refused(c, e)
  PROVE  Done("notebook", gone, c, Updated(c, e))
<1> DEFINE p == Position(c, e)
           w == [e EXCEPT ![p].val = c.val]
           x == IF c.id = 0 THEN w[Len(w)].key ELSE c.id
           f == [k \in DOMAIN last |-> IF k = x THEN c.val ELSE last[k]]
<1>1. Updated(c, e) = w
  BY DEF Updated, Notebook
<1>2. c.id \in Nat /\ c.val \in STRING
  BY DEF OnCells
<1>3. /\ e \in Seq(AnEntry) /\ KeyedOnce(e) /\ \A i \in DOMAIN e : e[i] \in AnEntry
      /\ \A i \in DOMAIN e : e[i].key \in Nat /\ (~gone => e[i].key \in 1..Len(e))
  BY DEF KeptWell
<1>4. p \in 1..Len(e) /\ (c.id # 0 => e[p].key = c.id) /\ (c.id = 0 => p = Len(e))
  <2>1. p # 0
    BY DEF Refused
  <2>. QED BY <1>2, <1>3, <2>1, PositionIs
<1>5. Effect(c, w) = f
  BY DEF Effect
<1> HIDE DEF p
<1>6. /\ w \in Seq(AnEntry) /\ DOMAIN w = DOMAIN e /\ Len(w) = Len(e)
      /\ \A i \in DOMAIN e : w[i].key = e[i].key /\ w[i].val = IF i = p THEN c.val ELSE e[i].val
  <2>1. e[p] \in AnEntry /\ [e[p] EXCEPT !.val = c.val] \in AnEntry
    BY <1>2, <1>3, <1>4 DEF AnEntry
  <2>2. w = [e EXCEPT ![p] = [e[p] EXCEPT !.val = c.val]]
    OBVIOUS
  <2>3. w \in Seq(AnEntry) /\ DOMAIN w = DOMAIN e /\ Len(w) = Len(e)
    BY <1>3, <1>4, <2>1, <2>2
  <2>4. [e[p] EXCEPT !.val = c.val].key = e[p].key /\ [e[p] EXCEPT !.val = c.val].val = c.val
    BY <2>1 DEF AnEntry
  <2>5. \A i \in DOMAIN e : w[i] = IF i = p THEN [e[p] EXCEPT !.val = c.val] ELSE e[i]
    BY <1>3, <2>2
  <2>. QED BY <2>3, <2>4, <2>5
<1>7. x = e[p].key
  BY <1>3, <1>4, <1>6
<1>8. DOMAIN f = DOMAIN last /\ f = [k \in DOMAIN f |-> f[k]] /\ \A k \in DOMAIN last : f[k] = IF k = x THEN c.val ELSE last[k]
  OBVIOUS
<1> HIDE DEF w, x, f
<1>9. DOMAIN last = Keys(e) /\ \A i \in DOMAIN e : e[i].key \in Keys(e) /\ last[e[i].key] = e[i].val
  BY <1>3, ContentsIs
<1>10. KeyedOnce(w) /\ Keys(w) = Keys(e)
  BY <1>3, <1>6 DEF KeyedOnce, Keys
<1>11. \A i \in DOMAIN w : f[w[i].key] = w[i].val
  BY <1>3, <1>4, <1>6, <1>7, <1>8, <1>9 DEF KeyedOnce
<1>12. f = Contents(w)
  <2>1. DOMAIN f = Keys(w) /\ f = [k \in DOMAIN f |-> f[k]]
    BY <1>8, <1>9, <1>10
  <2>2. w \in Seq(AnEntry) /\ KeyedOnce(w)
    BY <1>6, <1>10
  <2>. QED BY <1>11, <2>1, <2>2, TheseAreContents
<1>. QED BY <1>1, <1>3, <1>5, <1>6, <1>10, <1>12 DEF Done, KeptWell

LEMMA DeleteDone ==
  ASSUME NEW gone \in BOOLEAN, NEW c \in OnCells, c.tool = "delete",
         NEW e, KeptWell("notebook", gone, e), last = Contents(e), ~Refused(c, e)
  PROVE  Done("notebook", gone, c, Updated(c, e))
<1> DEFINE p == Position(c, e)
           w == RemoveAt(e, p)
           f == [k \in DOMAIN last \cap Keys(w) |-> last[k]]
           at(i) == IF i < p THEN i ELSE i + 1
<1>1. Updated(c, e) = w
  BY DEF Updated, Notebook
<1>2. c.id \in Nat
  BY DEF OnCells
<1>3. e \in Seq(AnEntry) /\ KeyedOnce(e) /\ \A i \in DOMAIN e : e[i].key \in Nat
  BY DEF KeptWell
<1>4. p \in 1..Len(e)
  <2>1. p # 0
    BY DEF Refused
  <2>. QED BY <1>2, <1>3, <2>1, PositionIs
<1>5. Effect(c, w) = f
  BY DEF Effect
<1> HIDE DEF p
<1>6. w \in Seq(AnEntry) /\ Len(w) = Len(e) - 1 /\ \A i \in 1..Len(e) - 1 : w[i] = IF i < p THEN e[i] ELSE e[i + 1]
  BY <1>3, <1>4, RemoveAtIs
<1>7. DOMAIN f = DOMAIN last \cap Keys(w) /\ f = [k \in DOMAIN f |-> f[k]] /\ \A k \in DOMAIN f : f[k] = last[k]
  OBVIOUS
<1> HIDE DEF w, f
<1>8. /\ DOMAIN w = 1..Len(e) - 1 /\ DOMAIN e = 1..Len(e) /\ Len(e) \in Nat
      /\ \A i \in DOMAIN w : at(i) \in DOMAIN e /\ w[i] = e[at(i)]
  BY <1>3, <1>4, <1>6
<1>9. DOMAIN last = Keys(e) /\ \A i \in DOMAIN e : e[i].key \in Keys(e) /\ last[e[i].key] = e[i].val
  BY <1>3, ContentsIs
<1>10. KeyedOnce(w)
  <2>1. \A i, j \in DOMAIN w : at(i) = at(j) => i = j
    BY <1>4, <1>8
  <2> HIDE DEF at
  <2>. QED BY <1>3, <1>8, <2>1 DEF KeyedOnce
<1> HIDE DEF at
<1>11. Keys(w) \subseteq Keys(e) /\ \A i \in DOMAIN w : w[i].key \in Keys(w)
  BY <1>8, <1>9 DEF Keys
<1>12. \A i \in DOMAIN w : f[w[i].key] = w[i].val /\ w[i].key \in Nat
  BY <1>3, <1>7, <1>8, <1>9, <1>11
<1>13. f = Contents(w)
  <2>1. DOMAIN f = Keys(w) /\ f = [k \in DOMAIN f |-> f[k]]
    BY <1>7, <1>9, <1>11
  <2>. QED BY <1>6, <1>10, <1>12, <2>1, TheseAreContents
<1>. QED BY <1>1, <1>5, <1>6, <1>10, <1>12, <1>13 DEF Done, KeptWell

LEMMA InsertDone ==
  ASSUME NEW c \in OnCells, c.tool = "insert",
         NEW e, KeptWell("notebook", FALSE, e), last = Contents(e), ~Refused(c, e)
  PROVE  Done("notebook", FALSE, c, Updated(c, e))
<1> DEFINE p == Position(c, e)
           n == Len(e) + 1
           x == Entry(n, c.val)
           w == InsertAt(e, p + 1, x)
           f == [k \in DOMAIN last \cup Keys(w) |-> IF k \in DOMAIN last THEN last[k] ELSE c.val]
           at(i) == IF i <= p THEN i ELSE i - 1
<1>1. Updated(c, e) = w
  BY DEF Updated, Notebook, NewId
<1>2. c.id \in Nat /\ c.val \in STRING
  BY DEF OnCells
<1>3. e \in Seq(AnEntry) /\ KeyedOnce(e) /\ Len(e) \in Nat /\ \A i \in DOMAIN e : e[i].key \in 1..Len(e)
  BY DEF KeptWell
<1>4. p \in 0..Len(e)
  BY <1>2, <1>3, PositionIs
<1>5. x \in AnEntry /\ x.key = n /\ x.val = c.val /\ n \in Nat
  BY <1>2, <1>3 DEF AnEntry, Entry
<1>6. Effect(c, w) = f
  BY DEF Effect
<1> HIDE DEF p, x
<1>7. /\ w \in Seq(AnEntry) /\ Len(w) = n
      /\ \A i \in 1..n : w[i] = IF i <= p THEN e[i] ELSE IF i = p + 1 THEN x ELSE e[i - 1]
  <2>1. e \in Seq(AnEntry) /\ p \in 0..Len(e) /\ x \in AnEntry
    BY <1>3, <1>4, <1>5
  <2>2. /\ InsertAt(e, p + 1, x) \in Seq(AnEntry) /\ Len(InsertAt(e, p + 1, x)) = Len(e) + 1
        /\ \A i \in 1..Len(e) + 1 :
             InsertAt(e, p + 1, x)[i] = IF i <= p THEN e[i] ELSE IF i = p + 1 THEN x ELSE e[i - 1]
    BY ONLY <2>1, InsertAtIs
  <2>. QED BY Zenon, <2>2
<1>8. /\ DOMAIN f = DOMAIN last \cup Keys(w) /\ f = [k \in DOMAIN f |-> f[k]]
      /\ \A k \in DOMAIN f : f[k] = IF k \in DOMAIN last THEN last[k] ELSE c.val
  OBVIOUS
<1> HIDE DEF w, f
<1>9. /\ DOMAIN w = 1..n /\ DOMAIN e = 1..Len(e)
      /\ \A i \in DOMAIN w : i # p + 1 => at(i) \in DOMAIN e /\ w[i] = e[at(i)]
      /\ p + 1 \in DOMAIN w /\ w[p + 1] = x
      /\ \A j \in DOMAIN e : \E i \in DOMAIN w : i # p + 1 /\ at(i) = j
  <2>1. DOMAIN w = 1..n /\ DOMAIN e = 1..Len(e) /\ p + 1 \in DOMAIN w /\ w[p + 1] = x
    BY <1>3, <1>4, <1>7
  <2>2. \A i \in DOMAIN w : i # p + 1 => at(i) \in DOMAIN e /\ w[i] = e[at(i)]
    BY <1>3, <1>4, <1>7, <2>1
  <2>3. ASSUME NEW j \in DOMAIN e PROVE \E i \in DOMAIN w : i # p + 1 /\ at(i) = j
    <3>1. CASE j <= p
      <4>1. j \in DOMAIN w /\ j # p + 1 /\ at(j) = j
        BY <1>3, <1>4, <2>1, <3>1
      <4>. QED BY <4>1
    <3>2. CASE ~(j <= p)
      <4>1. j + 1 \in DOMAIN w /\ j + 1 # p + 1 /\ at(j + 1) = j
        BY <1>3, <1>4, <2>1, <3>2
      <4>. QED BY <4>1
    <3>. QED BY <3>1, <3>2
  <2>. QED BY <2>1, <2>2, <2>3
<1>10. \A i, j \in DOMAIN w : i # p + 1 /\ j # p + 1 /\ at(i) = at(j) => i = j
  BY <1>3, <1>4, <1>9
<1> HIDE DEF at
<1>11. DOMAIN last = Keys(e) /\ \A i \in DOMAIN e : e[i].key \in Keys(e) /\ last[e[i].key] = e[i].val
  BY <1>3, ContentsIs
<1>12. /\ \A i \in DOMAIN w : i # p + 1 => w[i].key \in 1..Len(e) /\ w[i].key # n
       /\ w[p + 1].key = n /\ n \notin Keys(e) /\ n \in 1..n /\ 1..Len(e) \subseteq 1..n
  <2>1. \A k \in 1..Len(e) : k # n
    BY <1>3
  <2>2. n \in 1..n /\ 1..Len(e) \subseteq 1..n
    BY <1>3
  <2>3. Keys(e) \subseteq 1..Len(e)
    BY <1>3 DEF Keys
  <2> HIDE DEF n
  <2>. QED BY <1>3, <1>5, <1>9, <2>1, <2>2, <2>3
<1>13. \A i \in DOMAIN w : w[i].key \in 1..n
  BY <1>12
<1> HIDE DEF n
<1>14. KeyedOnce(w)
  BY <1>3, <1>9, <1>10, <1>12 DEF KeyedOnce
<1>15. Keys(w) = Keys(e) \cup {n}
  BY <1>9, <1>12 DEF Keys
<1>16. \A i \in DOMAIN w : f[w[i].key] = w[i].val
  BY <1>5, <1>8, <1>9, <1>11, <1>12, <1>15
<1>17. f = Contents(w)
  <2>1. DOMAIN f = Keys(w) /\ f = [k \in DOMAIN f |-> f[k]]
    BY <1>8, <1>11, <1>15
  <2>. QED BY <1>7, <1>14, <1>16, <2>1, TheseAreContents
<1>. QED
  <2>1. \A i \in DOMAIN w : w[i].key \in Nat /\ w[i].key \in 1..Len(w)
    BY <1>5, <1>7, <1>13
  <2>. QED BY <1>1, <1>6, <1>7, <1>14, <1>17, <2>1 DEF Done, KeptWell

LEMMA UpdateDone ==
  ASSUME NEW k \in Kinds, NEW gone \in BOOLEAN, NEW c \in CallsOn(k),
         NEW e, KeptWell(k, gone, e), last = Contents(e), ~Refused(c, e), ~(gone /\ c.tool = "insert")
  PROVE  Done(k, gone, c, Updated(c, e))
<1>1. CASE k = "text"
  <2>1. CASE c \in [tool : {"edit"}, old : STRING, val : STRING, all : BOOLEAN]
    BY <1>1, <2>1, EditDone
  <2>2. CASE c \in [tool : {"write"}, lines : Lists]
    <3>1. c.tool = "write" /\ c.lines \in Lists /\ Updated(c, e) = c.lines
      BY <2>2 DEF Updated
    <3>. QED BY <1>1, <3>1, ListDone
  <2>. QED BY <1>1, <2>1, <2>2 DEF CallsOn
<1>2. CASE k = "settings"
  <2>1. c.tool \in {"config", "plugin"} /\ c.key \in STRING \cup DOMAIN Settings /\ c.val \in STRING
    BY <1>2 DEF CallsOn
  <2>. QED BY <1>2, <2>1, SettingDone
<1>3. CASE k = "todos"
  <2>1. c.tool = "todo" /\ c.lines \in Lists
    BY <1>3 DEF CallsOn
  <2>2. <<>> \in Lists
    BY DEF Lists
  <2>3. Updated(c, e) = IF c.done THEN <<>> ELSE c.lines
    BY <2>1 DEF Updated
  <2>4. Updated(c, e) \in Lists
    BY <2>1, <2>2, <2>3
  <2>. QED BY <1>3, <2>1, <2>4, ListDone
<1>4. CASE k = "notebook"
  <2>1. c \in OnCells /\ c.tool \in {"replace", "insert", "delete"}
    BY <1>4 DEF CallsOn, OnCells
  <2>2. c.tool = "insert" => gone = FALSE
    OBVIOUS
  <2>. QED BY <1>4, <2>1, <2>2, ReplaceDone, DeleteDone, InsertDone
<1>. QED BY <1>1, <1>2, <1>3, <1>4 DEF Kinds

-----------------------------------------------------------------------------
(* While nobody fills the file, it says what was put there, and who has it *)
(* open has computed its text from what it says; who fills it alone has    *)
(* computed its text from what was there before it was truncated.          *)
FilesTyped ==
  /\ kind \in Kinds /\ doing \in [Callers -> {"idle", "open", "fill"}]
  /\ DOMAIN call = Callers /\ DOMAIN new = Callers
  /\ \A a \in Callers : doing[a] # "idle" => call[a] \in CallsOn(kind)
  /\ raced \in BOOLEAN /\ cut \in BOOLEAN /\ deleted \in BOOLEAN /\ reused \in BOOLEAN

Planned(a, e) == ~Refused(call[a], e) /\ new[a] = Updated(call[a], e)
Says(e)       == KeptWell(kind, deleted, e) /\ last = Contents(e)
Alone(a)      == doing[a] = "fill" /\ \A b \in Callers : doing[b] = "fill" => b = a

AtRest ==
  (\A b \in Callers : doing[b] # "fill") =>
    /\ disk # NotJson /\ Says(disk.entries)
    /\ \A a \in Callers : doing[a] = "open" => Planned(a, disk.entries)

Filling == \A a \in Callers : Alone(a) => disk = NoText /\ \E e : Says(e) /\ Planned(a, e)

FilesInv == FilesTyped /\ (~raced /\ ~cut /\ ~reused => AtRest /\ Filling)

LEMMA FilesStart == FilesInit => FilesInv
<1> SUFFICES ASSUME FilesInit PROVE FilesInv
  OBVIOUS
<1>1. FilesTyped /\ \A a \in Callers : doing[a] = "idle"
  BY DEF FilesInit, FilesTyped
<1>2. disk \in FilesOf(kind) /\ kind \in Kinds /\ deleted = FALSE /\ last = Contents(disk.entries)
  BY FilesAssumption DEF FilesInit
<1>3. disk # NotJson /\ KeptWell(kind, FALSE, disk.entries)
  <2>1. CASE disk = NoFile \/ disk = NoText
    <3>1. disk # NotJson /\ disk.entries = <<>>
      BY <2>1 DEF NoFile, NoText, NotJson, File
    <3>2. <<>> \in Seq(AnEntry) /\ DOMAIN <<>> = {}
      OBVIOUS
    <3>. QED BY <3>1, <3>2 DEF KeptWell, KeyedOnce
  <2>2. CASE disk \in [state : {"whole"}, entries : IF kind = "settings" THEN Members ELSE Lists]
    <3>1. disk # NotJson /\ disk.entries \in IF kind = "settings" THEN Members ELSE Lists
      BY <2>2 DEF NotJson, File
    <3>2. CASE kind = "settings"
      <4> DEFINE e == disk.entries
      <4>1. e \in Seq([key : STRING, val : STRING]) /\ KeyedOnce(e)
        BY <3>1, <3>2 DEF Members
      <4>2. e \in Seq(AnEntry)
        <5> DEFINE R == [key : STRING, val : STRING]
        <5>1. e \in Seq(R) /\ R \subseteq AnEntry
          BY <4>1 DEF AnEntry
        <5> HIDE DEF R, e
        <5>2. \A i \in 1..Len(e) : e[i] \in R
          BY <5>1
        <5>3. \A i \in 1..Len(e) : e[i] \in AnEntry
          BY <5>1, <5>2
        <5>. QED BY <5>1, <5>3
      <4>. QED BY <3>1, <3>2, <4>1, <4>2 DEF KeptWell
    <3>3. CASE kind # "settings"
      BY <1>2, <3>1, <3>3, ListIsKept
    <3>. QED BY <3>2, <3>3
  <2>. QED BY <1>2, <2>1, <2>2 DEF FilesOf
<1>. QED BY <1>1, <1>2, <1>3 DEF FilesInv, AtRest, Filling, Says, Alone

LEMMA ReadKeeps ==
  ASSUME FilesInv, NEW a \in Callers, NEW c \in Calls[kind], Read(a, c)
  PROVE  FilesInv'
<1>1. CASE UNCHANGED <<doing, call, new>>
  <2>1. UNCHANGED <<kind, disk, doing, call, new, last, raced, cut, deleted, reused>>
    BY <1>1 DEF Read, fileHistory
  <2>. QED BY <2>1 DEF FilesInv, FilesTyped, AtRest, Filling, Says, Alone, Planned
<1>2. CASE /\ ~Refused(c, disk.entries)
           /\ doing' = [doing EXCEPT ![a] = "open"] /\ call' = [call EXCEPT ![a] = c]
           /\ new' = [new EXCEPT ![a] = Updated(c, disk.entries)]
  <2>1. UNCHANGED <<kind, disk, last, raced, cut, deleted, reused>> /\ doing[a] = "idle"
    BY DEF Read, fileHistory
  <2>2. c \in CallsOn(kind) /\ kind \in Kinds
    BY FilesAssumption DEF FilesInv, FilesTyped
  <2>3. FilesTyped
    BY DEF FilesInv
  <2>4. /\ doing'[a] = "open" /\ call'[a] = c /\ new'[a] = Updated(c, disk.entries)
        /\ \A b \in Callers : b # a => doing'[b] = doing[b] /\ call'[b] = call[b] /\ new'[b] = new[b]
    BY <1>2, <2>3 DEF FilesTyped
  <2>5. FilesTyped'
    BY <1>2, <2>1, <2>2, <2>3, <2>4 DEF FilesTyped
  <2>6. \A b \in Callers : (doing'[b] = "fill" <=> doing[b] = "fill")
    BY <2>1, <2>4
  <2>7. AtRest => AtRest'
    BY <1>2, <2>1, <2>4, <2>6 DEF AtRest, Says, Planned
  <2>8. Filling => Filling'
    BY <2>1, <2>4, <2>6 DEF Filling, Says, Planned, Alone
  <2>. QED BY <2>1, <2>5, <2>7, <2>8 DEF FilesInv
<1>. QED BY <1>1, <1>2 DEF Read

LEMMA TruncateKeeps ==
  ASSUME FilesInv, NEW a \in Callers, Truncate(a)
  PROVE  FilesInv'
<1>1. /\ doing[a] = "open" /\ disk' = NoText
      /\ UNCHANGED <<kind, call, new, last, raced, cut, deleted, reused>>
  BY DEF Truncate, fileHistory
<1>2. FilesTyped
  BY DEF FilesInv
<1>3. doing'[a] = "fill" /\ \A b \in Callers : b # a => doing'[b] = doing[b]
  BY <1>2 DEF Truncate, FilesTyped
<1>4. FilesTyped'
  BY <1>1, <1>2, <1>3 DEF Truncate, FilesTyped
<1>5. AtRest'
  BY <1>3 DEF AtRest
<1>6. AtRest => Filling'
  <2> SUFFICES ASSUME AtRest, NEW b \in Callers, Alone(b)'
               PROVE  disk' = NoText /\ (\E e : Says(e) /\ Planned(b, e))'
    BY DEF Filling
  <2>1. b = a /\ \A x \in Callers : doing[x] # "fill"
    BY <1>1, <1>3 DEF Alone
  <2>2. PICK e : e = disk.entries
    OBVIOUS
  <2>3. Says(e) /\ Planned(a, e)
    BY <1>1, <2>1, <2>2 DEF AtRest
  <2>4. Says(e)' /\ Planned(a, e)'
    BY <1>1, <2>3 DEF Says, Planned
  <2>. QED BY <1>1, <2>1, <2>4
<1>. QED BY <1>1, <1>4, <1>5, <1>6 DEF FilesInv

LEMMA FillKeeps ==
  ASSUME FilesInv, NEW a \in Callers, Fill(a)
  PROVE  FilesInv'
<1>1. /\ doing[a] = "fill" /\ disk' \in WrittenOver(new[a])
      /\ last' = IF raced THEN last ELSE Effect(call[a], new[a])
      /\ raced' = (raced \/ \E b \in Callers \ {a} : doing[b] # "idle")
      /\ deleted' = (deleted \/ call[a].tool = "delete")
      /\ reused' = (reused \/ (deleted /\ call[a].tool = "insert"))
      /\ UNCHANGED <<kind, cut>>
  BY DEF Fill, Return
<1>2. FilesTyped
  BY DEF FilesInv
<1>3. /\ doing'[a] = "idle"
      /\ \A b \in Callers : b # a => doing'[b] = doing[b] /\ call'[b] = call[b]
  BY <1>2 DEF Fill, Return, FilesTyped
<1>4. FilesTyped'
  BY <1>1, <1>2, <1>3 DEF Fill, Return, FilesTyped
<1>5. ASSUME ~raced', ~cut', ~reused' PROVE AtRest' /\ Filling'
  <2>1. /\ ~raced /\ ~cut /\ ~reused /\ \A b \in Callers : b # a => doing[b] = "idle"
        /\ ~(deleted /\ call[a].tool = "insert")
    BY <1>1, <1>5
  <2>2. Filling /\ Alone(a)
    BY <1>1, <2>1 DEF FilesInv, Alone
  <2>3. PICK e : Says(e) /\ Planned(a, e)
    BY <2>2 DEF Filling
  <2>4. disk = NoText
    BY <2>2 DEF Filling
  <2>5. PICK k, gone, c, w : k = kind /\ gone = deleted /\ c = call[a] /\ w = new[a]
    OBVIOUS
  <2>6. KeptWell(k, gone, e) /\ last = Contents(e) /\ ~Refused(c, e) /\ w = Updated(c, e)
    BY <2>3, <2>5 DEF Says, Planned
  <2>7. k \in Kinds /\ gone \in BOOLEAN /\ c \in CallsOn(k) /\ ~(gone /\ c.tool = "insert")
    BY <1>1, <1>2, <2>1, <2>5 DEF FilesTyped
  <2>8. Done(k, gone, c, w)
    BY <2>6, <2>7, UpdateDone
  <2>9. disk' = Whole(w)
    BY <1>1, <2>4, <2>5 DEF WrittenOver
  <2>10. disk' # NotJson /\ disk'.entries = w
    BY <2>9 DEF Whole, NotJson, File
  <2>11. Says(w)'
    <3>1. kind' = k /\ deleted' = (gone \/ c.tool = "delete") /\ last' = Effect(c, w)
      BY <1>1, <2>1, <2>5
    <3>. QED BY <2>8, <3>1 DEF Done, Says
  <2>12. \A b \in Callers : doing'[b] = "idle"
    BY <1>3, <2>1
  <2>. QED BY <2>10, <2>11, <2>12 DEF AtRest, Filling, Alone, Says
<1>. QED BY <1>4, <1>5 DEF FilesInv

LEMMA FailKeeps ==
  ASSUME FilesInv, NEW a \in Callers, WriteFails(a)
  PROVE  FilesInv'
<1>1. /\ doing[a] \in {"open", "fill"} /\ (doing[a] = "open" => disk' = disk)
      /\ cut' = (cut \/ doing[a] = "fill") /\ UNCHANGED <<kind, last, raced, deleted, reused>>
  BY DEF WriteFails, Return
<1>2. FilesTyped
  BY DEF FilesInv
<1>3. /\ doing'[a] = "idle"
      /\ \A b \in Callers : b # a => doing'[b] = doing[b] /\ call'[b] = call[b] /\ new'[b] = new[b]
  BY <1>2 DEF WriteFails, Return, FilesTyped
<1>4. FilesTyped'
  BY <1>1, <1>2, <1>3 DEF WriteFails, Return, FilesTyped
<1>5. CASE doing[a] = "open"
  <2>1. \A b \in Callers : (doing'[b] = "fill" <=> doing[b] = "fill") /\ (doing'[b] = "open" => doing[b] = "open" /\ b # a)
    BY <1>3, <1>5
  <2>2. disk' = disk /\ cut' = cut
    BY <1>1, <1>2, <1>5 DEF FilesTyped
  <2>3. AtRest => AtRest'
    BY <1>1, <1>3, <2>1, <2>2 DEF AtRest, Says, Planned
  <2>4. Filling => Filling'
    BY <1>1, <1>3, <1>5, <2>1, <2>2 DEF Filling, Says, Planned, Alone
  <2>. QED BY <1>1, <1>4, <2>2, <2>3, <2>4 DEF FilesInv
<1>6. CASE doing[a] = "fill"
  BY <1>1, <1>4, <1>6 DEF FilesInv
<1>. QED BY <1>1, <1>5, <1>6

(* What a tool has put into a file stays there until another tool puts     *)
(* something else in its place, and nothing is there twice: as long as no  *)
(* two calls overlap, both to write, no write is cut off, and no cell is   *)
(* inserted after one was deleted.                                         *)
THEOREM ChangesDoSurvive == FilesSpec => []ChangesSurvive
<1>1. FilesInit => FilesInv
  BY FilesStart
<1>2. FilesInv /\ [FilesNext]_fileVars => FilesInv'
  <2> SUFFICES ASSUME FilesInv, [FilesNext]_fileVars PROVE FilesInv'
    OBVIOUS
  <2>1. CASE UNCHANGED fileVars
    BY <2>1 DEF fileVars, FilesInv, FilesTyped, AtRest, Filling, Says, Alone, Planned
  <2>2. ASSUME NEW a \in Callers, CallerStep(a) PROVE FilesInv'
    <3>1. ASSUME NEW c \in Calls[kind], Read(a, c) PROVE FilesInv'
      BY <3>1, ReadKeeps
    <3>2. CASE Truncate(a)
      BY <3>2, TruncateKeeps
    <3>3. CASE Fill(a)
      BY <3>3, FillKeeps
    <3>4. CASE WriteFails(a)
      BY <3>4, FailKeeps
    <3>. QED BY <2>2, <3>1, <3>2, <3>3, <3>4 DEF CallerStep
  <2>. QED BY <2>1, <2>2 DEF FilesNext
<1>3. FilesInv => ChangesSurvive
  BY DEF FilesInv, AtRest, Says, KeptWell, ChangesSurvive
<1>. QED BY <1>1, <1>2, <1>3, PTL DEF FilesSpec

-----------------------------------------------------------------------------
(* Induction over the naturals, over the members of a set: the provers do  *)
(* not instantiate a theorem about a predicate, but they do one about a    *)
(* set, such as WFMin.                                                     *)
LEMMA SetInduction ==
  ASSUME NEW S, 0 \in S, \A n \in Nat : n \in S => n + 1 \in S
  PROVE  \A n \in Nat : n \in S
<1> SUFFICES ASSUME NEW n \in Nat, n \notin S PROVE FALSE
  OBVIOUS
<1> DEFINE U == 0..n
           T == {V \in FiniteSubsetsOf(U) : \E m \in U : V = 0..m /\ m \notin S}
<1>1. 0..n \in T
  <2>1. IsFiniteSet(0..n)
    BY FS_Interval
  <2>. QED BY <2>1 DEF FiniteSubsetsOf
<1>2. \E V \in T : \A W \in T : ~ (<<W, V>> \in StrictSubsetOrdering(U))
  <2>1. T \subseteq FiniteSubsetsOf(U) /\ T # {}
    BY <1>1
  <2> HIDE DEF T, U
  <2>2. IsWellFoundedOn(StrictSubsetOrdering(U), FiniteSubsetsOf(U))
    BY FS_StrictSubsetOrderingWellFounded
  <2>. QED BY <2>1, <2>2, WFMin
<1>3. PICK V \in T : \A W \in T : ~ (<<W, V>> \in StrictSubsetOrdering(U))
  BY <1>2
<1>4. PICK m \in U : V = 0..m /\ m \notin S
  OBVIOUS
<1>5. m # 0 /\ m - 1 \in U /\ m - 1 \in Nat
  BY <1>4
<1>6. m - 1 \notin S
  BY <1>4, <1>5
<1>7. 0..(m - 1) \in T
  <2>1. IsFiniteSet(0..(m - 1))
    BY <1>5, FS_Interval
  <2>. QED BY <1>5, <1>6, <2>1 DEF FiniteSubsetsOf
<1>8. <<0..(m - 1), V>> \in StrictSubsetOrdering(U)
  BY <1>4, <1>5 DEF StrictSubsetOrdering
<1>. QED BY <1>3, <1>7, <1>8

(* What a loop makes of a sequence: there is a function that gives its     *)
(* result after each member, whatever the member does to it.               *)
Loops(g, base, moves, n) == g[0] = base /\ \A i \in 1..n : g[i] = moves[i][g[i - 1]]

(* A loop over a sequence has its results.                                 *)
LEMMA LoopExists ==
  ASSUME NEW A, NEW base \in A, NEW N \in Nat, NEW moves \in [1..N -> [A -> A]]
  PROVE  \E g \in [0..N -> A] : Loops(g, base, moves, N)
<1> DEFINE Exists(n) == \E g \in [0..n -> A] : Loops(g, base, moves, n)
           S == {n \in Nat : n <= N => Exists(n)}
<1>1. Exists(0)
  <2> DEFINE g == [i \in 0..0 |-> base]
  <2>1. g \in [0..0 -> A] /\ Loops(g, base, moves, 0)
    BY DEF Loops
  <2>. QED BY <2>1
<1>2. ASSUME NEW n \in Nat, n + 1 <= N, Exists(n) PROVE Exists(n + 1)
  <2>1. PICK g \in [0..n -> A] : Loops(g, base, moves, n)
    BY <1>2
  <2> DEFINE bottom == moves[n + 1][g[n]]
             h == [i \in 0..(n + 1) |-> IF i = n + 1 THEN bottom ELSE g[i]]
  <2>2. moves[n + 1] \in [A -> A] /\ g[n] \in A
    BY <1>2, <2>1
  <2>3. bottom \in A
    BY <2>2
  <2> HIDE DEF bottom
  <2>4. h \in [0..(n + 1) -> A]
    <3>1. ASSUME NEW i \in 0..(n + 1) PROVE (IF i = n + 1 THEN bottom ELSE g[i]) \in A
      <4>1. i = n + 1 \/ i \in 0..n
        OBVIOUS
      <4>. QED BY <2>1, <2>3, <4>1
    <3>. QED BY <3>1
  <2>5. ASSUME NEW i \in 1..(n + 1) PROVE h[i] = moves[i][h[i - 1]]
    <3>1. i - 1 \in 0..n /\ h[i - 1] = g[i - 1]
      OBVIOUS
    <3>2. CASE i = n + 1
      BY <3>1, <3>2 DEF bottom
    <3>3. CASE i # n + 1
      <4>1. i \in 1..n /\ h[i] = g[i]
        BY <3>3
      <4>. QED BY <2>1, <3>1, <4>1 DEF Loops
    <3>. QED BY <3>2, <3>3
  <2>6. h[0] = base
    BY <2>1 DEF Loops
  <2> HIDE DEF h
  <2>7. Loops(h, base, moves, n + 1)
    BY <2>5, <2>6 DEF Loops
  <2>. QED BY <2>4, <2>7
<1> HIDE DEF Exists
<1>3. 0 \in S /\ \A n \in Nat : n \in S => n + 1 \in S
  BY <1>1, <1>2
<1>4. N \in S
  <2> HIDE DEF S
  <2>. QED BY <1>3, SetInduction
<1>5. Exists(N)
  BY <1>4
<1>. QED BY <1>5 DEF Exists

(* FlattenSeq joins the sequences one after the other.                     *)
Joined(seqs) ==
  CHOOSE f : f = [i \in 1..Len(seqs) |-> IF i = 1 THEN seqs[i] ELSE f[i - 1] \o seqs[i]]

(* The code's flatten is the last of them.                                 *)
LEMMA FlattenIsJoined ==
  \A seqs : FlattenSeq(seqs) = IF Len(seqs) = 0 THEN seqs ELSE Joined(seqs)[Len(seqs)]
BY DEF FlattenSeq, Joined

(* A set closed under concatenation holds what joins its members.          *)
LEMMA JoinedSteps ==
  ASSUME NEW S, \A a, b \in S : a \o b \in S, NEW seqs \in Seq(S)
  PROVE  /\ Joined(seqs) \in [1..Len(seqs) -> S]
         /\ \A i \in 1..Len(seqs) :
              Joined(seqs)[i] = IF i = 1 THEN seqs[i] ELSE Joined(seqs)[i - 1] \o seqs[i]
<1> DEFINE N == Len(seqs)
           Joins(f, n) == f = [i \in 1..n |-> IF i = 1 THEN seqs[i] ELSE f[i - 1] \o seqs[i]]
           Built(n) == \E f \in [1..n -> S] : Joins(f, n)
           Fine == {n \in Nat : n <= N => Built(n)}
<1>0. N \in Nat /\ \A i \in 1..N : seqs[i] \in S
  OBVIOUS
<1>1. Built(0)
  <2> DEFINE f == [i \in 1..0 |-> <<>>]
  <2>1. f \in [1..0 -> S] /\ Joins(f, 0)
    OBVIOUS
  <2>. QED BY <2>1
<1>2. ASSUME NEW n \in Nat, n + 1 <= N, Built(n) PROVE Built(n + 1)
  <2>1. PICK f \in [1..n -> S] : Joins(f, n)
    BY <1>2
  <2> DEFINE added == IF n = 0 THEN seqs[n + 1] ELSE f[n] \o seqs[n + 1]
             h == [i \in 1..(n + 1) |-> IF i = n + 1 THEN added ELSE f[i]]
  <2>2. n + 1 \in 1..N
    BY <1>0, <1>2
  <2>3. seqs[n + 1] \in S
    BY <1>0, <2>2
  <2>3a. added \in S
    <3>1. CASE n = 0
      BY <2>3, <3>1
    <3>2. CASE n # 0
      <4>1. f[n] \in S
        BY <2>1, <3>2
      <4>. QED BY <2>3, <3>2, <4>1
    <3>. QED BY <3>1, <3>2
  <2> HIDE DEF added
  <2>4. h \in [1..(n + 1) -> S]
    <3>1. ASSUME NEW i \in 1..(n + 1) PROVE (IF i = n + 1 THEN added ELSE f[i]) \in S
      <4>1. i = n + 1 \/ i \in 1..n
        OBVIOUS
      <4>. QED BY <2>1, <2>3a, <4>1
    <3>. QED BY <3>1
  <2>5. ASSUME NEW i \in 1..(n + 1) PROVE h[i] = IF i = 1 THEN seqs[i] ELSE h[i - 1] \o seqs[i]
    <3>1. CASE i = n + 1
      <4>1. n # 0 => h[n] = f[n]
        OBVIOUS
      <4>. QED BY <3>1, <4>1 DEF added
    <3>2. CASE i # n + 1
      <4>1. i \in 1..n /\ h[i] = f[i] /\ (i # 1 => h[i - 1] = f[i - 1])
        BY <3>2
      <4>2. f[i] = IF i = 1 THEN seqs[i] ELSE f[i - 1] \o seqs[i]
        BY <2>1, <4>1
      <4>. QED BY <4>1, <4>2
    <3>. QED BY <3>1, <3>2
  <2>6. Joins(h, n + 1)
    <3>1. h = [i \in 1..(n + 1) |-> h[i]]
      OBVIOUS
    <3> HIDE DEF h
    <3>. QED BY <2>5, <3>1
  <2>. QED BY <2>4, <2>6
<1> HIDE DEF Built
<1>3. 0 \in Fine /\ \A n \in Nat : n \in Fine => n + 1 \in Fine
  BY <1>1, <1>2
<1>4. N \in Fine
  <2> HIDE DEF Fine
  <2>. QED BY <1>0, <1>3, SetInduction
<1>5. Built(N)
  BY <1>0, <1>4
<1>6. PICK f \in [1..N -> S] : Joins(f, N)
  BY <1>5 DEF Built
<1>7. Joins(Joined(seqs), N)
  <2> HIDE DEF Joins
  <2>1. Joined(seqs) = CHOOSE g : Joins(g, N)
    BY DEF Joined, Joins
  <2>. QED BY <1>6, <2>1
<1>8. \A i \in 1..N : Joined(seqs)[i] = IF i = 1 THEN seqs[i] ELSE Joined(seqs)[i - 1] \o seqs[i]
  BY <1>7
<1>9. Joined(seqs) \in [1..N -> S]
  <2> DEFINE R == {n \in Nat : n \in 1..N => Joined(seqs)[n] \in S}
  <2>1. 0 \in R
    OBVIOUS
  <2>2. ASSUME NEW n \in Nat, n \in R PROVE n + 1 \in R
    <3> SUFFICES ASSUME n + 1 \in 1..N PROVE Joined(seqs)[n + 1] \in S
      OBVIOUS
    <3>1. seqs[n + 1] \in S
      BY <1>0
    <3>2. CASE n = 0
      BY <1>8, <3>1, <3>2
    <3>3. CASE n # 0
      <4>1. n \in 1..N /\ (n + 1) - 1 = n /\ n + 1 # 1
        BY <1>0, <3>3
      <4>2. Joined(seqs)[n] \in S
        BY <2>2, <4>1
      <4>3. Joined(seqs)[n + 1] = Joined(seqs)[n] \o seqs[n + 1]
        BY <1>8, <4>1
      <4>. QED BY <3>1, <4>2, <4>3
    <3>. QED BY <3>2, <3>3
  <2>3. \A n \in Nat : n \in R
    <3> HIDE DEF R
    <3>. QED BY <2>1, <2>2, SetInduction
  <2>4. \A n \in 1..N : Joined(seqs)[n] \in S
    BY <1>0, <2>3
  <2>5. Joined(seqs) = [n \in 1..N |-> Joined(seqs)[n]]
    BY <1>7
  <2>. QED BY <2>4, <2>5
<1>. QED BY <1>8, <1>9


(* A sequence has a member.                                                *)
Has(s, x) == \E j \in 1..Len(s) : s[j] = x

(* What is joined has the members of all, and of no other.                 *)
LEMMA FlattenIs ==
  ASSUME NEW A, NEW seqs \in Seq(Seq(A))
  PROVE  /\ FlattenSeq(seqs) \in Seq(A)
         /\ \A x : Has(FlattenSeq(seqs), x) <=> \E i \in 1..Len(seqs) : Has(seqs[i], x)
<1> DEFINE N == Len(seqs)
           J == Joined(seqs)
           All(n) == \A x : Has(J[n], x) <=> \E i \in 1..n : Has(seqs[i], x)
           R == {n \in Nat : n \in 1..N => All(n)}
<1>1. N \in Nat /\ \A i \in 1..N : seqs[i] \in Seq(A)
  OBVIOUS
<1>2. \A a, b \in Seq(A) : a \o b \in Seq(A)
  OBVIOUS
<1>3. /\ J \in [1..N -> Seq(A)]
      /\ \A i \in 1..N : J[i] = IF i = 1 THEN seqs[i] ELSE J[i - 1] \o seqs[i]
  BY <1>2, JoinedSteps
<1>4. ASSUME NEW a \in Seq(A), NEW b \in Seq(A), NEW x
      PROVE  Has(a \o b, x) <=> Has(a, x) \/ Has(b, x)
  <2> DEFINE K == Len(a)
             L == Len(b)
             c == a \o b
  <2>1. K \in Nat /\ L \in Nat /\ Len(c) = K + L
    OBVIOUS
  <2>2. (\A j \in 1..K : c[j] = a[j]) /\ \A j \in 1..L : c[K + j] = b[j]
    OBVIOUS
  <2> HIDE DEF K, L, c
  <2>3. ASSUME NEW j \in 1..(K + L), c[j] = x
        PROVE  (\E m \in 1..K : a[m] = x) \/ (\E m \in 1..L : b[m] = x)
    <3>1. CASE j \in 1..K
      BY <2>2, <2>3, <3>1
    <3>2. CASE j \notin 1..K
      <4>1. j - K \in 1..L /\ K + (j - K) = j
        BY <2>1, <3>2
      <4>. QED BY <2>2, <2>3, <4>1
    <3>. QED BY <3>1, <3>2
  <2>4. \A m \in 1..K : m \in 1..(K + L)
    BY <2>1
  <2>5. \A m \in 1..L : K + m \in 1..(K + L)
    BY <2>1
  <2>6. (\E j \in 1..(K + L) : c[j] = x) <=> (\E m \in 1..K : a[m] = x) \/ (\E m \in 1..L : b[m] = x)
    BY <2>2, <2>3, <2>4, <2>5
  <2>. QED BY <2>1, <2>6 DEF K, L, c, Has
<1> HIDE DEF J
<1>5. 0 \in R
  OBVIOUS
<1>6. ASSUME NEW n \in Nat, n \in R PROVE n + 1 \in R
  <2> SUFFICES ASSUME n + 1 \in 1..N PROVE All(n + 1)
    OBVIOUS
  <2>1. CASE n = 0
    <3>1. n + 1 = 1 /\ 1 \in 1..N
      BY <2>1
    <3>2. J[1] = seqs[1]
      BY <1>3, <3>1
    <3>3. 1..1 = {1}
      OBVIOUS
    <3>. QED BY <3>1, <3>2, <3>3
  <2>2. CASE n # 0
    <3>1. n \in 1..N /\ (n + 1) - 1 = n /\ n + 1 # 1 /\ 1..(n + 1) = (1..n) \cup {n + 1}
      BY <1>1, <2>2
    <3>2. J[n + 1] = J[n] \o seqs[n + 1]
      BY <1>3, <3>1
    <3>3. J[n] \in Seq(A) /\ seqs[n + 1] \in Seq(A)
      BY <1>1, <1>3, <3>1
    <3>4. All(n)
      BY <1>6, <3>1
    <3>. QED BY <1>4, <3>1, <3>2, <3>3, <3>4
  <2>. QED BY <2>1, <2>2
<1>7. N \in R
  <2>1. \A n \in Nat : n \in R
    <3> HIDE DEF R
    <3>. QED BY <1>5, <1>6, SetInduction
  <2>. QED BY <1>1, <2>1
<1>8. CASE N = 0
  <2>1. seqs = <<>>
    BY <1>8
  <2>2. FlattenSeq(seqs) = <<>>
    BY <1>8, <2>1, FlattenIsJoined
  <2>. QED BY <1>8, <2>2 DEF Has
<1>9. CASE N # 0
  <2>1. N \in 1..N
    BY <1>1, <1>9
  <2>2. FlattenSeq(seqs) = J[N]
    BY <1>9, FlattenIsJoined DEF J
  <2>3. All(N)
    BY <1>1, <1>7, <2>1
  <2>4. J[N] \in Seq(A)
    BY <1>3, <2>1
  <2>. QED BY <2>2, <2>3, <2>4
<1>. QED BY <1>8, <1>9

(* One more is joined at the end.                                          *)
LEMMA FlattenGrows ==
  ASSUME NEW A, NEW seqs \in Seq(Seq(A)), NEW s \in Seq(A)
  PROVE  FlattenSeq(Append(seqs, s)) = FlattenSeq(seqs) \o s
<1> DEFINE N == Len(seqs)
           more == Append(seqs, s)
           J == Joined(seqs)
           K == Joined(more)
           R == {n \in Nat : n \in 1..N => K[n] = J[n]}
<1>1. /\ N \in Nat /\ more \in Seq(Seq(A)) /\ Len(more) = N + 1
      /\ (\A i \in 1..N : more[i] = seqs[i]) /\ more[N + 1] = s
  OBVIOUS
<1>2. \A a, b \in Seq(A) : a \o b \in Seq(A)
  OBVIOUS
<1>3. \A i \in 1..N : J[i] = IF i = 1 THEN seqs[i] ELSE J[i - 1] \o seqs[i]
  BY <1>2, JoinedSteps
<1>4. \A i \in 1..(N + 1) : K[i] = IF i = 1 THEN more[i] ELSE K[i - 1] \o more[i]
  <2> HIDE DEF more, N
  <2>. QED BY <1>1, <1>2, JoinedSteps
<1>5. FlattenSeq(more) = K[N + 1]
  <2>1. FlattenSeq(more) = IF Len(more) = 0 THEN more ELSE K[Len(more)]
    BY FlattenIsJoined
  <2> HIDE DEF more, K, N
  <2>. QED BY <1>1, <2>1
<1> HIDE DEF more, J, K
<1>6. 0 \in R
  OBVIOUS
<1>7. ASSUME NEW n \in Nat, n \in R PROVE n + 1 \in R
  <2> SUFFICES ASSUME n + 1 \in 1..N PROVE K[n + 1] = J[n + 1]
    OBVIOUS
  <2>1. n + 1 \in 1..(N + 1) /\ more[n + 1] = seqs[n + 1] /\ (n + 1) - 1 = n
    BY <1>1
  <2>2. CASE n = 0
    BY <1>3, <1>4, <2>1, <2>2
  <2>3. CASE n # 0
    <3>1. n \in 1..N /\ n + 1 # 1
      BY <1>1, <2>3
    <3>2. K[n] = J[n]
      BY <1>7, <3>1
    <3>. QED BY <1>3, <1>4, <2>1, <3>1, <3>2
  <2>. QED BY <2>2, <2>3
<1>8. N \in R
  <2>1. \A n \in Nat : n \in R
    <3> HIDE DEF R
    <3>. QED BY <1>6, <1>7, SetInduction
  <2>. QED BY <1>1, <2>1
<1>9. CASE N = 0
  <2>1. seqs = <<>>
    BY <1>9
  <2>2. FlattenSeq(seqs) = <<>>
    BY <1>9, <2>1, FlattenIsJoined
  <2>3. K[N + 1] = s
    BY <1>1, <1>4, <1>9
  <2>4. <<>> \o s = s
    BY ConcatEmptySeq
  <2>. QED BY <1>5, <2>2, <2>3, <2>4 DEF more
<1>10. CASE N # 0
  <2>1. N \in 1..N /\ N + 1 \in 1..(N + 1) /\ N + 1 # 1 /\ (N + 1) - 1 = N
    BY <1>1, <1>10
  <2>2. FlattenSeq(seqs) = J[N]
    BY <1>10, FlattenIsJoined DEF J
  <2>3. K[N + 1] = K[N] \o s
    BY <1>1, <1>4, <2>1
  <2>4. K[N] = J[N]
    BY <1>8, <2>1
  <2>. QED BY <1>5, <2>2, <2>3, <2>4 DEF more
<1>. QED BY <1>9, <1>10
(* What is kept, member by member.                                         *)
LEMMA KeptLoop ==
  ASSUME NEW A, NEW s \in Seq(A), NEW S
  PROVE  \E g \in [0..Len(s) -> Seq(A)] :
           /\ g[0] = <<>> /\ Kept(s, S) = g[Len(s)]
           /\ \A i \in 1..Len(s) : g[i] = IF s[i] \in S THEN Append(g[i - 1], s[i]) ELSE g[i - 1]
<1> DEFINE N == Len(s)
           B == Seq(A)
           With(a, i) == IF s[i] \in S THEN Append(a, s[i]) ELSE a
           moves == [i \in 1..N |-> [a \in B |-> With(a, i)]]
           Recurs(g) == g = [n \in 0..N |-> IF n = 0 THEN <<>> ELSE
                                              IF s[n] \in S THEN Append(g[n - 1], s[n]) ELSE g[n - 1]]
<1>1. N \in Nat /\ \A i \in 1..N : s[i] \in A
  OBVIOUS
<1>2. moves \in [1..N -> [B -> B]] /\ <<>> \in B
  <2>1. \A i \in 1..N : \A a \in B : With(a, i) \in B
    BY <1>1
  <2> HIDE DEF With
  <2>. QED BY <2>1
<1>3. PICK g \in [0..N -> B] : Loops(g, <<>>, moves, N)
  <2> HIDE DEF moves, B, N
  <2>. QED BY <1>1, <1>2, LoopExists
<1>4. \A i \in 1..N : g[i] = With(g[i - 1], i)
  <2> TAKE i \in 1..N
  <2>1. i - 1 \in 0..N /\ g[i - 1] \in B
    BY <1>1, <1>3
  <2> HIDE DEF With
  <2>. QED BY <1>3, <2>1 DEF Loops
<1>5. g[0] = <<>>
  BY <1>3 DEF Loops
<1>6. Recurs(g)
  <2>1. \A n \in 0..N : g[n] = IF n = 0 THEN <<>> ELSE
                                 IF s[n] \in S THEN Append(g[n - 1], s[n]) ELSE g[n - 1]
    <3>1. \A n \in 0..N : n = 0 \/ (n \in 1..N /\ n # 0)
      BY <1>1
    <3>2. \A n \in 1..N : g[n] = IF s[n] \in S THEN Append(g[n - 1], s[n]) ELSE g[n - 1]
      BY <1>4
    <3>. QED BY <1>5, <3>1, <3>2
  <2>. QED BY <1>3, <2>1
<1> DEFINE those == CHOOSE h : Recurs(h)
<1>7. Kept(s, S) = those[N]
  BY DEF Kept
<1> HIDE DEF Recurs
<1>8. Recurs(those)
  BY <1>6
<1> HIDE DEF those
<1>9. /\ those[0] = <<>>
      /\ \A n \in 1..N : those[n] = With(those[n - 1], n)
  <2>1. \A n \in 0..N : those[n] = IF n = 0 THEN <<>> ELSE
                             IF s[n] \in S THEN Append(those[n - 1], s[n]) ELSE those[n - 1]
    BY <1>8 DEF Recurs
  <2>2. 0 \in 0..N /\ \A n \in 1..N : n \in 0..N /\ n # 0
    BY <1>1
  <2>. QED BY <2>1, <2>2
<1> DEFINE R == {n \in Nat : n <= N => those[n] = g[n]}
<1>10. 0 \in R /\ \A n \in Nat : n \in R => n + 1 \in R
  <2>1. 0 \in R
    BY <1>5, <1>9
  <2>2. ASSUME NEW n \in Nat, n \in R, n + 1 <= N PROVE those[n + 1] = g[n + 1]
    <3>1. n + 1 \in 1..N /\ (n + 1) - 1 = n /\ those[n] = g[n]
      BY <1>1, <2>2
    <3> HIDE DEF With
    <3>. QED BY <1>4, <1>9, <3>1
  <2>. QED BY <2>1, <2>2
<1>11. N \in R
  <2> HIDE DEF R
  <2>. QED BY <1>1, <1>10, SetInduction
<1>12. Kept(s, S) = g[N]
  BY <1>1, <1>7, <1>11
<1> HIDE DEF moves
<1>. QED BY <1>3, <1>4, <1>5, <1>12

(* All of the set are kept, and nothing else; of a sequence that has no    *)
(* member twice, as many as there are.                                     *)
LEMMA KeptIs ==
  ASSUME NEW A, NEW s \in Seq(A), NEW S
  PROVE  /\ Kept(s, S) \in Seq(A)
         /\ \A x : (\E j \in 1..Len(Kept(s, S)) : Kept(s, S)[j] = x) <=>
                     x \in S /\ \E i \in 1..Len(s) : s[i] = x
         /\ (\A i, j \in 1..Len(s) : s[i] = s[j] => i = j) /\ S \subseteq ToSet(s) =>
              IsFiniteSet(S) /\ Len(Kept(s, S)) = Cardinality(S)
<1> DEFINE N == Len(s)
           Of(n) == {s[i] : i \in {m \in 1..n : s[m] \in S}}
<1>1. N \in Nat /\ DOMAIN s = 1..N /\ \A i \in 1..N : s[i] \in A
  OBVIOUS
<1>2. PICK g \in [0..N -> Seq(A)] :
           /\ g[0] = <<>> /\ Kept(s, S) = g[N]
           /\ \A i \in 1..N : g[i] = IF s[i] \in S THEN Append(g[i - 1], s[i]) ELSE g[i - 1]
  BY KeptLoop
<1> DEFINE Holds(n) == \A x : (\E j \in 1..Len(g[n]) : g[n][j] = x) <=> x \in Of(n)
           R == {n \in Nat : n <= N => Holds(n)}
<1>3. \A n \in Nat : n + 1 <= N =>
        /\ n \in 0..N /\ n + 1 \in 1..N /\ g[n] \in Seq(A) /\ s[n + 1] \in A
        /\ g[n + 1] = IF s[n + 1] \in S THEN Append(g[n], s[n + 1]) ELSE g[n]
        /\ Of(n + 1) = IF s[n + 1] \in S THEN Of(n) \cup {s[n + 1]} ELSE Of(n)
  <2> SUFFICES ASSUME NEW n \in Nat, n + 1 <= N
      PROVE /\ n \in 0..N /\ n + 1 \in 1..N /\ g[n] \in Seq(A) /\ s[n + 1] \in A
            /\ g[n + 1] = IF s[n + 1] \in S THEN Append(g[n], s[n + 1]) ELSE g[n]
            /\ Of(n + 1) = IF s[n + 1] \in S THEN Of(n) \cup {s[n + 1]} ELSE Of(n)
    OBVIOUS
  <2>1. n \in 0..N /\ n + 1 \in 1..N /\ (n + 1) - 1 = n
    BY <1>1
  <2>2. g[n] \in Seq(A) /\ s[n + 1] \in A
    BY <1>1, <1>2, <2>1
  <2>3. g[n + 1] = IF s[n + 1] \in S THEN Append(g[n], s[n + 1]) ELSE g[n]
    BY <1>2, <2>1
  <2>4. 1..(n + 1) = (1..n) \cup {n + 1}
    OBVIOUS
  <2>5. Of(n + 1) = IF s[n + 1] \in S THEN Of(n) \cup {s[n + 1]} ELSE Of(n)
    BY <2>4
  <2>. QED BY <2>1, <2>2, <2>3, <2>5
<1>4. Holds(0)
  BY <1>2
<1>5. ASSUME NEW n \in Nat, n + 1 <= N, Holds(n) PROVE Holds(n + 1)
  <2>1. /\ g[n] \in Seq(A) /\ s[n + 1] \in A
        /\ g[n + 1] = IF s[n + 1] \in S THEN Append(g[n], s[n + 1]) ELSE g[n]
        /\ Of(n + 1) = IF s[n + 1] \in S THEN Of(n) \cup {s[n + 1]} ELSE Of(n)
    BY <1>3, <1>5
  <2> HIDE DEF Of
  <2>2. CASE s[n + 1] \notin S
    BY <1>5, <2>1, <2>2
  <2>3. CASE s[n + 1] \in S
    <3>1. g[n + 1] = Append(g[n], s[n + 1]) /\ Of(n + 1) = Of(n) \cup {s[n + 1]}
      BY <2>1, <2>3
    <3>2. /\ Len(g[n + 1]) = Len(g[n]) + 1 /\ Len(g[n]) \in Nat
          /\ \A j \in 1..Len(g[n]) : g[n + 1][j] = g[n][j]
          /\ g[n + 1][Len(g[n]) + 1] = s[n + 1]
      BY <2>1, <3>1
    <3>3. ASSUME NEW x PROVE (\E j \in 1..Len(g[n + 1]) : g[n + 1][j] = x) <=> x \in Of(n + 1)
      <4>1. (\E j \in 1..Len(g[n + 1]) : g[n + 1][j] = x) <=>
              (\E j \in 1..Len(g[n]) : g[n][j] = x) \/ s[n + 1] = x
        <5> DEFINE M == Len(g[n])
        <5>1. \A j \in 1..(M + 1) : j \in 1..M \/ j = M + 1
          BY <3>2
        <5>2. M + 1 \in 1..(M + 1) /\ \A j \in 1..M : j \in 1..(M + 1)
          BY <3>2
        <5>3. Len(g[n + 1]) = M + 1
          BY <3>2
        <5>4. /\ \A j \in 1..M : g[n + 1][j] = g[n][j]
              /\ g[n + 1][M + 1] = s[n + 1]
          BY <3>2
        <5> HIDE DEF M
        <5>5. (\E j \in 1..(M + 1) : g[n + 1][j] = x) <=>
                (\E j \in 1..M : g[n][j] = x) \/ s[n + 1] = x
          BY <5>1, <5>2, <5>4
        <5>. QED BY <5>3, <5>5 DEF M
      <4>. QED BY <1>5, <3>1, <4>1
    <3>. QED BY <3>3
  <2>. QED BY <2>2, <2>3
<1>6. Holds(N)
  <2> HIDE DEF Holds
  <2>1. 0 \in R /\ \A n \in Nat : n \in R => n + 1 \in R
    BY <1>4, <1>5
  <2>2. N \in R
    <3> HIDE DEF R
    <3>. QED BY <1>1, <2>1, SetInduction
  <2>. QED BY <1>1, <2>2
<1>7. \A x : (\E j \in 1..Len(Kept(s, S)) : Kept(s, S)[j] = x) <=>
               x \in S /\ \E i \in 1..N : s[i] = x
  <2>1. \A x : x \in Of(N) <=> x \in S /\ \E i \in 1..N : s[i] = x
    OBVIOUS
  <2>2. Kept(s, S) = g[N]
    BY <1>2
  <2> HIDE DEF Of
  <2>. QED BY <1>6, <2>1, <2>2
<1>8. ASSUME \A i, j \in 1..N : s[i] = s[j] => i = j, S \subseteq ToSet(s)
      PROVE  IsFiniteSet(S) /\ Len(Kept(s, S)) = Cardinality(S)
  <2> DEFINE Counts(n) == IsFiniteSet(Of(n)) /\ Len(g[n]) = Cardinality(Of(n))
             T == {n \in Nat : n <= N => Counts(n)}
  <2>1. Counts(0)
    <3>1. Of(0) = {}
      OBVIOUS
    <3>2. Len(g[0]) = 0
      BY <1>2
    <3> HIDE DEF Of
    <3>. QED BY <3>1, <3>2, FS_EmptySet
  <2>2. ASSUME NEW n \in Nat, n + 1 <= N, Counts(n) PROVE Counts(n + 1)
    <3>1. /\ g[n] \in Seq(A) /\ s[n + 1] \in A
          /\ g[n + 1] = IF s[n + 1] \in S THEN Append(g[n], s[n + 1]) ELSE g[n]
          /\ Of(n + 1) = IF s[n + 1] \in S THEN Of(n) \cup {s[n + 1]} ELSE Of(n)
      BY <1>3, <2>2
    <3>2. s[n + 1] \notin Of(n)
      <4>1. n + 1 \in 1..N /\ \A i \in 1..n : i \in 1..N /\ i # n + 1
        BY <1>1, <2>2
      <4>. QED BY <1>8, <4>1
    <3> HIDE DEF Of
    <3>3. CASE s[n + 1] \notin S
      BY <2>2, <3>1, <3>3
    <3>4. CASE s[n + 1] \in S
      <4>1. Len(g[n + 1]) = Len(g[n]) + 1
        BY <3>1, <3>4
      <4>2. Of(n + 1) = Of(n) \cup {s[n + 1]}
        BY <3>1, <3>4
      <4>3. IsFiniteSet(Of(n + 1)) /\ Cardinality(Of(n + 1)) = Cardinality(Of(n)) + 1
        BY <2>2, <3>2, <4>2, FS_AddElement
      <4>. QED BY <2>2, <4>1, <4>3
    <3>. QED BY <3>3, <3>4
  <2>3. Counts(N)
    <3> HIDE DEF Counts
    <3>1. 0 \in T /\ \A n \in Nat : n \in T => n + 1 \in T
      BY <2>1, <2>2
    <3>2. N \in T
      <4> HIDE DEF T
      <4>. QED BY <1>1, <3>1, SetInduction
    <3>. QED BY <1>1, <3>2
  <2>4. Of(N) = S
    BY <1>1, <1>8 DEF ToSet
  <2>. QED BY <1>2, <2>3, <2>4
<1>9. Kept(s, S) \in Seq(A)
  BY <1>1, <1>2
<1>. QED BY <1>7, <1>8, <1>9

(* What is kept stays in its order.                                        *)
LEMMA KeptOrder ==
  ASSUME NEW A, NEW s \in Seq(A), NEW S
  PROVE  \A a, b \in 1..Len(Kept(s, S)) : a < b =>
           \E i, j \in 1..Len(s) : i < j /\ s[i] = Kept(s, S)[a] /\ s[j] = Kept(s, S)[b]
<1> DEFINE N == Len(s)
<1>1. N \in Nat /\ \A i \in 1..N : s[i] \in A
  OBVIOUS
<1>2. PICK g \in [0..N -> Seq(A)] :
           /\ g[0] = <<>> /\ Kept(s, S) = g[N]
           /\ \A i \in 1..N : g[i] = IF s[i] \in S THEN Append(g[i - 1], s[i]) ELSE g[i - 1]
  BY KeptLoop
<1> DEFINE Comes(n) == \A k \in 1..Len(g[n]) : \E i \in 1..n : s[i] = g[n][k]
           Follows(n) == \A k, l \in 1..Len(g[n]) : k < l =>
                           \E i, j \in 1..n : i < j /\ s[i] = g[n][k] /\ s[j] = g[n][l]
           R == {n \in Nat : n <= N => Comes(n) /\ Follows(n)}
<1>3. Comes(0) /\ Follows(0)
  BY <1>2
<1>4. ASSUME NEW n \in Nat, n + 1 <= N, Comes(n), Follows(n) PROVE Comes(n + 1) /\ Follows(n + 1)
  <2>1. n \in 0..N /\ n + 1 \in 1..N /\ (n + 1) - 1 = n
    BY <1>1, <1>4
  <2>2. /\ g[n] \in Seq(A) /\ s[n + 1] \in A
        /\ g[n + 1] = IF s[n + 1] \in S THEN Append(g[n], s[n + 1]) ELSE g[n]
    BY <1>1, <1>2, <2>1
  <2>3. 1..n \subseteq 1..(n + 1) /\ n + 1 \in 1..(n + 1) /\ \A i \in 1..n : i < n + 1
    OBVIOUS
  <2>4. CASE s[n + 1] \notin S
    <3>1. g[n + 1] = g[n]
      BY <2>2, <2>4
    <3>. QED BY <1>4, <2>3, <3>1
  <2>5. CASE s[n + 1] \in S
    <3> DEFINE M == Len(g[n])
    <3>1. /\ Len(g[n + 1]) = M + 1 /\ M \in Nat
          /\ \A k \in 1..M : g[n + 1][k] = g[n][k]
          /\ g[n + 1][M + 1] = s[n + 1]
      BY <2>2, <2>5
    <3>2. \A k \in 1..M : \E i \in 1..n : s[i] = g[n][k]
      BY <1>4
    <3>3. \A k, l \in 1..M : k < l => \E i, j \in 1..n : i < j /\ s[i] = g[n][k] /\ s[j] = g[n][l]
      BY <1>4
    <3> HIDE DEF M
    <3>4. \A k \in 1..(M + 1) : k \in 1..M \/ k = M + 1
      BY <3>1
    <3>5. ASSUME NEW k \in 1..(M + 1) PROVE \E i \in 1..(n + 1) : s[i] = g[n + 1][k]
      BY <2>3, <3>1, <3>2, <3>4
    <3>6. ASSUME NEW k \in 1..(M + 1), NEW l \in 1..(M + 1), k < l
          PROVE  \E i, j \in 1..(n + 1) : i < j /\ s[i] = g[n + 1][k] /\ s[j] = g[n + 1][l]
      <4>1. k \in 1..M
        BY <3>1, <3>6
      <4>2. CASE l \in 1..M
        <5>1. \E i, j \in 1..n : i < j /\ s[i] = g[n][k] /\ s[j] = g[n][l]
          BY <3>3, <3>6, <4>1, <4>2
        <5>2. g[n + 1][k] = g[n][k] /\ g[n + 1][l] = g[n][l]
          BY <3>1, <4>1, <4>2
        <5>. QED BY <2>3, <5>1, <5>2
      <4>3. CASE l = M + 1
        BY <2>3, <3>1, <3>2, <4>1, <4>3
      <4>. QED BY <3>4, <4>2, <4>3
    <3>. QED BY <3>1, <3>5, <3>6
  <2>. QED BY <2>4, <2>5
<1>5. Follows(N)
  <2> HIDE DEF Comes, Follows
  <2>1. 0 \in R /\ \A n \in Nat : n \in R => n + 1 \in R
    BY <1>3, <1>4
  <2>2. N \in R
    <3> HIDE DEF R
    <3>. QED BY <1>1, <2>1, SetInduction
  <2>. QED BY <1>1, <2>2
<1>. QED BY <1>2, <1>5

(* The members of what is kept.                                            *)
LEMMA KeptHas ==
  ASSUME NEW A, NEW s \in Seq(A), NEW S
  PROVE  Kept(s, S) \in Seq(A) /\ \A x : Has(Kept(s, S), x) <=> x \in S /\ Has(s, x)
<1>1. Kept(s, S) \in Seq(A)
  BY KeptIs
<1>2. \A x : (\E j \in 1..Len(Kept(s, S)) : Kept(s, S)[j] = x) <=>
               x \in S /\ \E i \in 1..Len(s) : s[i] = x
  BY KeptIs
<1>. QED BY <1>1, <1>2 DEF Has

-----------------------------------------------------------------------------
(* Entries: numbered lines of a file, files, and lines that are shown of a *)
(* search.                                                                 *)
Entries == (Nat \X Nat) \cup ToSet(Paths) \cup (ToSet(Paths) \X Nat)
Askable ==
  [tool : {"read", "glob", "grep"}, path : ToSet(Paths), limit : SUBSET Nat, offset : Nat,
   mode : {"content", "count", "files_with_matches"}, before : Nat, after : Nat,
   filter : SUBSET ToSet(Paths)]

(* A part of a file.                                                       *)
LEMMA ReadIs ==
  ASSUME NEW lines \in Seq(Nat), NEW offset \in Nat, NEW limit \in SUBSET Nat
  PROVE  LET r == ReadFile(lines, offset, limit)
             start == Lower(offset, Len(lines))
         IN /\ r.items \in Seq(Nat \X Nat) /\ r.total = Len(lines)
            /\ Len(r.items) = IF limit = {} THEN Len(lines) - start
                              ELSE Lower(Given(limit, 0), Len(lines) - start)
            /\ \A i \in 1..Len(r.items) : r.items[i] = <<start + i, lines[start + i]>>
<1> DEFINE L == Len(lines)
           start == Lower(offset, L)
           end == IF limit = {} THEN L ELSE Lower(start + Given(limit, 0), L)
           items == [i \in 1..(end - start) |-> <<start + i, lines[start + i]>>]
<1>1. L \in Nat /\ start \in 0..L
  BY DEF Lower
<1>2. limit # {} => Given(limit, 0) \in Nat
  BY DEF Given
<1>3. /\ end \in start..L
      /\ end - start = IF limit = {} THEN L - start ELSE Lower(Given(limit, 0), L - start)
  BY <1>1, <1>2 DEF Lower
<1>4. ReadFile(lines, offset, limit).items = items /\ ReadFile(lines, offset, limit).total = L
  BY DEF ReadFile
<1>5. \A i \in 1..(end - start) : <<start + i, lines[start + i]>> \in Nat \X Nat
  <2> TAKE i \in 1..(end - start)
  <2>1. start + i \in 1..L
    BY <1>1, <1>3
  <2>. QED BY <2>1
<1> HIDE DEF start, end
<1>6. end - start \in Nat
  BY <1>1, <1>3
<1>7. /\ items \in Seq(Nat \X Nat) /\ Len(items) = end - start
      /\ \A i \in 1..(end - start) : items[i] = <<start + i, lines[start + i]>>
  BY <1>5, <1>6
<1>. QED BY <1>3, <1>4, <1>7 DEF start

(* A part of an answer.                                                    *)
LEMMA ApplyIs ==
  ASSUME NEW A, NEW items \in Seq(A), NEW limit \in SUBSET Nat, NEW offset \in Nat
  PROVE  LET r == ApplyLimit(items, limit, offset)
             most == Given(limit, Default)
             left == Minus(Len(items), offset)
         IN /\ r.items \in Seq(A)
            /\ Len(r.items) = IF most = 0 THEN left ELSE Lower(most, left)
            /\ r.cut <=> most # 0 /\ left > most
            /\ \A i \in 1..Len(r.items) : offset + i \in 1..Len(items) /\ r.items[i] = items[offset + i]
<1> DEFINE rest == SubSeq(items, offset + 1, Len(items))
           most == Given(limit, Default)
           left == Minus(Len(items), offset)
           r == ApplyLimit(items, limit, offset)
<1>1. most \in Nat
  BY SearchAssumption DEF Given
<1>2. /\ rest \in Seq(A) /\ Len(rest) = left /\ left \in Nat
      /\ \A i \in 1..left : offset + i \in 1..Len(items) /\ rest[i] = items[offset + i]
  <2>1. /\ rest \in Seq(A)
        /\ Len(rest) = IF offset + 1 <= Len(items) THEN Len(items) - (offset + 1) + 1 ELSE 0
        /\ \A i \in 1..(Len(items) - (offset + 1) + 1) : rest[i] = items[(offset + 1) + i - 1]
    <3>1. \A i \in (offset + 1)..Len(items) : items[i] \in A
      OBVIOUS
    <3>. QED BY <3>1, SubSeqProperties
  <2>2. Len(items) \in Nat
    OBVIOUS
  <2> HIDE DEF rest
  <2>. QED BY <2>1, <2>2 DEF Minus
<1>3. r = IF most = 0 THEN [items |-> rest, cut |-> FALSE]
          ELSE [items |-> SubSeq(rest, 1, Lower(most, Len(rest))), cut |-> Len(rest) > most]
  BY DEF ApplyLimit
<1> HIDE DEF rest, most, left, r
<1>4. CASE most = 0
  <2>1. r.items = rest /\ r.cut = FALSE
    BY <1>3, <1>4
  <2>. QED BY <1>2, <1>4, <2>1 DEF most, left, r
<1>5. CASE most # 0
  <2> DEFINE n == Lower(most, left)
             taken == SubSeq(rest, 1, n)
  <2>1. n \in 0..left
    BY <1>1, <1>2 DEF Lower
  <2>2. /\ taken \in Seq(A) /\ Len(taken) = n
        /\ \A i \in 1..n : taken[i] = rest[i]
    <3> HIDE DEF n
    <3>1. \A i \in 1..n : rest[i] \in A
      BY <1>2, <2>1
    <3>2. /\ taken \in Seq(A) /\ Len(taken) = IF 1 <= n THEN n - 1 + 1 ELSE 0
          /\ \A i \in 1..(n - 1 + 1) : taken[i] = rest[1 + i - 1]
      BY <2>1, <3>1, SubSeqProperties
    <3> HIDE DEF taken
    <3>. QED BY <2>1, <3>2
  <2>3. r.items = taken /\ (r.cut <=> left > most)
    BY <1>2, <1>3, <1>5
  <2> HIDE DEF n, taken
  <2>4. \A i \in 1..n : offset + i \in 1..Len(items) /\ taken[i] = items[offset + i]
    <3> TAKE i \in 1..n
    <3>1. i \in 1..left
      BY <1>2, <2>1
    <3>2. taken[i] = rest[i]
      BY <2>2
    <3>3. offset + i \in 1..Len(items) /\ rest[i] = items[offset + i]
      BY <1>2, <3>1
    <3>. QED BY <3>2, <3>3
  <2>. QED BY <1>5, <2>2, <2>3, <2>4 DEF most, left, r, n
<1>. QED BY <1>4, <1>5

(* A limit that is more than nothing.                                      *)
LEMMA LimitCounts ==
  ASSUME NEW limit \in SUBSET Nat, \A m, n \in limit : m = n, limit # {0}, limit # {}, NEW other
  PROVE  Given(limit, other) \in Nat /\ Given(limit, other) >= 1 /\ limit = {Given(limit, other)}
<1> DEFINE n == Given(limit, other)
<1>1. n \in limit
  BY DEF Given
<1> HIDE DEF n
<1>2. limit = {n}
  BY <1>1
<1>3. n \in Nat /\ n # 0
  BY <1>1, <1>2
<1>. QED BY <1>2, <1>3 DEF n

(* The next part goes on where the parts before end, and says so when the  *)
(* whole is reached.                                                       *)
LEMMA ReadGoesOn ==
  ASSUME NEW lines \in Seq(Nat), NEW offset \in Nat, NEW limit \in SUBSET Nat,
         \A m, n \in limit : m = n, limit # {0},
         NEW K \in Nat, K <= Len(ReadFile(lines, offset, {}).items)
  PROVE  LET W == ReadFile(lines, offset, {}).items
             P == ReadFile(lines, offset + K, limit)
         IN /\ K + Len(P.items) <= Len(W)
            /\ \A i \in 1..Len(P.items) : P.items[i] = W[K + i]
            /\ (P.items # <<>> /\ Last(P.items)[1] < P.total) <=> K + Len(P.items) < Len(W)
<1> DEFINE W == ReadFile(lines, offset, {}).items
           P == ReadFile(lines, offset + K, limit)
           L == Len(lines)
           start == Lower(offset, L)
           from == Lower(offset + K, L)
<1>1. L \in Nat /\ offset + K \in Nat
  OBVIOUS
<1>2. /\ W \in Seq(Nat \X Nat) /\ Len(W) = L - start
      /\ \A i \in 1..Len(W) : W[i] = <<start + i, lines[start + i]>>
  BY ReadIs
<1>3. /\ P.items \in Seq(Nat \X Nat) /\ P.total = L
      /\ Len(P.items) = IF limit = {} THEN L - from ELSE Lower(Given(limit, 0), L - from)
      /\ \A i \in 1..Len(P.items) : P.items[i] = <<from + i, lines[from + i]>>
  BY <1>1, ReadIs
<1>4. K <= L - start
  BY <1>2
<1> HIDE DEF W, P, L
<1>5. limit # {} => Given(limit, 0) \in Nat /\ Given(limit, 0) >= 1
  BY LimitCounts
<1>6. start \in 0..L /\ from \in 0..L /\ L - from = L - start - K
  BY <1>1, <1>4 DEF Lower
<1>7. Len(P.items) \in 0..(L - from) /\ (Len(P.items) = 0 <=> L - from = 0)
  <2>1. L - from \in Nat
    BY <1>1, <1>6
  <2>2. CASE limit = {}
    BY <1>3, <2>1, <2>2
  <2>3. CASE limit # {}
    BY <1>3, <1>5, <2>1, <2>3 DEF Lower
  <2>. QED BY <2>2, <2>3
<1>8. K + Len(P.items) <= Len(W)
  BY <1>2, <1>6, <1>7
<1>9. L - from # 0 => from = start + K
  BY <1>1, <1>4, <1>6 DEF Lower
<1> HIDE DEF start, from
<1>10. \A i \in 1..Len(P.items) : P.items[i] = W[K + i]
  <2> TAKE i \in 1..Len(P.items)
  <2>1. from = start + K /\ K + i \in 1..Len(W) /\ from + i = start + (K + i)
    BY <1>6, <1>7, <1>8, <1>9
  <2>. QED BY <1>2, <1>3, <2>1
<1>11. (P.items # <<>> /\ Last(P.items)[1] < P.total) <=> K + Len(P.items) < Len(W)
  <2>1. CASE Len(P.items) = 0
    <3>1. P.items = <<>>
      BY <1>3, <2>1
    <3>. QED BY <1>2, <1>6, <1>7, <2>1, <3>1
  <2>2. CASE Len(P.items) # 0
    <3>1. P.items # <<>> /\ Last(P.items) = P.items[Len(P.items)] /\ Len(P.items) \in 1..Len(P.items)
      BY <1>3, <1>7, <2>2 DEF Last
    <3>2. Last(P.items)[1] = from + Len(P.items)
      BY <1>3, <3>1
    <3>3. from = start + K
      BY <1>6, <1>7, <1>9, <2>2
    <3>4. Len(P.items) \in Nat /\ start \in Nat /\ L \in Nat
      BY <1>1, <1>6, <1>7
    <3>5. from + Len(P.items) < L <=> K + Len(P.items) < L - start
      <4> DEFINE n == Len(P.items)
      <4>1. n \in Nat
        BY <3>4
      <4> HIDE DEF n
      <4>2. start + K + n < L <=> K + n < L - start
        BY <3>4, <4>1
      <4>. QED BY <3>3, <4>2 DEF n
    <3>. QED BY <1>2, <1>3, <3>1, <3>2, <3>5
  <2>. QED BY <2>1, <2>2
<1>. QED BY <1>8, <1>10, <1>11 DEF W, P

(* The same for the entries of a search (apply_limit): the skip is from    *)
(* the beginning, the limit counts after it.                               *)
LEMMA AnswerGoesOn ==
  ASSUME NEW A, NEW items \in Seq(A), NEW offset \in Nat, NEW limit \in SUBSET Nat,
         \A m, n \in limit : m = n,
         NEW K \in Nat, K <= Len(ApplyLimit(items, {0}, offset).items)
  PROVE  LET W == ApplyLimit(items, {0}, offset).items
             P == ApplyLimit(items, limit, offset + K)
         IN /\ K + Len(P.items) <= Len(W)
            /\ \A i \in 1..Len(P.items) : P.items[i] = W[K + i]
            /\ P.cut <=> K + Len(P.items) < Len(W)
<1> DEFINE W == ApplyLimit(items, {0}, offset).items
           P == ApplyLimit(items, limit, offset + K)
           N == Len(items)
           left == Minus(N, offset)
           rest == Minus(N, offset + K)
           most == Given(limit, Default)
<1>1. N \in Nat /\ offset + K \in Nat /\ {0} \in SUBSET Nat
  OBVIOUS
<1>2. Given({0}, Default) = 0
  BY DEF Given
<1>3. /\ W \in Seq(A) /\ Len(W) = left
      /\ \A i \in 1..Len(W) : W[i] = items[offset + i]
  BY <1>1, <1>2, ApplyIs
<1>4. /\ P.items \in Seq(A)
      /\ Len(P.items) = IF most = 0 THEN rest ELSE Lower(most, rest)
      /\ P.cut <=> most # 0 /\ rest > most
      /\ \A i \in 1..Len(P.items) : P.items[i] = items[(offset + K) + i]
  <2> HIDE DEF most
  <2>1. /\ P.items \in Seq(A)
        /\ Len(P.items) = IF Given(limit, Default) = 0 THEN rest ELSE Lower(Given(limit, Default), rest)
        /\ P.cut <=> Given(limit, Default) # 0 /\ rest > Given(limit, Default)
        /\ \A i \in 1..Len(P.items) : offset + K + i \in 1..Len(items) /\ P.items[i] = items[offset + K + i]
    <3> DEFINE o == offset + K
    <3>1. o \in Nat
      OBVIOUS
    <3> HIDE DEF o
    <3>2. LET r == ApplyLimit(items, limit, o)
              m == Given(limit, Default)
              size == Minus(Len(items), o)
          IN /\ r.items \in Seq(A)
             /\ Len(r.items) = IF m = 0 THEN size ELSE Lower(m, size)
             /\ r.cut <=> m # 0 /\ size > m
             /\ \A i \in 1..Len(r.items) : o + i \in 1..Len(items) /\ r.items[i] = items[o + i]
      BY <3>1, ApplyIs
    <3>. QED BY <3>2 DEF o
  <2>. QED BY <2>1 DEF most
<1>5. most \in Nat
  BY SearchAssumption DEF Given
<1>6. K <= left
  BY <1>3
<1> HIDE DEF W, P, N, most
<1>7. left \in Nat /\ rest \in Nat /\ rest = left - K
  BY <1>1, <1>6 DEF Minus
<1> HIDE DEF left, rest
<1>8. Len(P.items) \in 0..rest /\ (P.cut <=> Len(P.items) < rest)
  BY <1>4, <1>5, <1>7 DEF Lower
<1>9. K + Len(P.items) <= Len(W) /\ (P.cut <=> K + Len(P.items) < Len(W))
  BY <1>3, <1>7, <1>8
<1>10. \A i \in 1..Len(P.items) : P.items[i] = W[K + i]
  <2> TAKE i \in 1..Len(P.items)
  <2>1. K + i \in 1..Len(W) /\ (offset + K) + i = offset + (K + i)
    BY <1>8, <1>9
  <2>. QED BY <1>3, <1>4, <2>1
<1>. QED BY <1>9, <1>10 DEF W, P

-----------------------------------------------------------------------------
(* The lines that match, and those that are shown for them.                *)
LEMMA MatchedIs ==
  ASSUME NEW lines \in Seq(Nat)
  PROVE  /\ Matched(lines) \in Seq(Nat)
         /\ \A n : Has(Matched(lines), n) <=>
                     n \in 1..Len(lines) /\ lines[n] > 0
<1> DEFINE N == Len(lines)
           at == [i \in DOMAIN lines |-> i]
           those == {i \in DOMAIN lines : lines[i] > 0}
<1>1. N \in Nat /\ DOMAIN lines = 1..N
  OBVIOUS
<1>2. at \in Seq(Nat) /\ Len(at) = N /\ \A i \in 1..N : at[i] = i
  BY <1>1
<1>3. Matched(lines) = Kept(at, those)
  BY DEF Matched
<1> HIDE DEF at, those
<1>4. /\ Kept(at, those) \in Seq(Nat)
      /\ \A n : Has(Kept(at, those), n) <=>
                  n \in those /\ Has(at, n)
  BY <1>2, KeptHas
<1>5. \A n : (n \in those /\ Has(at, n)) <=> n \in 1..Len(lines) /\ lines[n] > 0
  BY <1>1, <1>2 DEF those, Has
<1>. QED BY <1>3, <1>4, <1>5

ShownLines == ToSet(Paths) \X Nat

(* An entry is a line near one that matches.                               *)
IsNear(e, path, lines, before, after) ==
  \E n \in 1..Len(lines), m \in 1..Len(lines) :
    lines[m] > 0 /\ m <= n + before /\ n <= m + after /\ e = <<path, n>>

(* The lines shown of a file (grep_search in mode content) are the ones    *)
(* near a match.                                                           *)
LEMMA ShownIs ==
  ASSUME NEW path \in ToSet(Paths), NEW lines \in Seq(Nat), NEW before \in Nat, NEW after \in Nat
  PROVE  /\ Shown(path, lines, before, after) \in Seq(ShownLines)
         /\ \A e : Has(Shown(path, lines, before, after), e) <=> IsNear(e, path, lines, before, after)
<1> DEFINE L == Len(lines)
           M == Matched(lines)
           first(at) == Minus(at, before + 1) + 1
           bottom(at) == Lower(at + after, L)
           near(at) == [i \in 1..(bottom(at) + 1 - first(at)) |-> <<path, first(at) + i - 1>>]
           all == [m \in DOMAIN M |-> near(M[m])]
<1>1. /\ L \in Nat /\ M \in Seq(Nat) /\ DOMAIN M = 1..Len(M) /\ Len(M) \in Nat
      /\ \A n : Has(M, n) <=> n \in 1..L /\ lines[n] > 0
  BY MatchedIs
<1>2. Shown(path, lines, before, after) = FlattenSeq(all)
  BY DEF Shown
<1>3. ASSUME NEW at \in 1..L
      PROVE  /\ near(at) \in Seq(ShownLines)
             /\ \A e : Has(near(at), e) <=>
                       \E n \in 1..L : at <= n + before /\ n <= at + after /\ e = <<path, n>>
  <2>1. /\ first(at) \in Nat /\ bottom(at) \in Nat /\ first(at) >= 1 /\ bottom(at) <= L
        /\ first(at) <= bottom(at)
        /\ \A n \in Nat : first(at) <= n /\ n <= bottom(at) <=> n \in 1..L /\ at <= n + before /\ n <= at + after
    BY <1>1 DEF Minus, Lower
  <2> DEFINE f == first(at)
             g == bottom(at)
             s == [i \in 1..(g + 1 - f) |-> <<path, f + i - 1>>]
  <2> HIDE DEF f, g
  <2>2. near(at) = s
    BY DEF f, g
  <2> HIDE DEF near
  <2>3. f \in Nat /\ g \in Nat /\ f >= 1 /\ f <= g
    BY <2>1 DEF f, g
  <2>4. \A i \in 1..(g + 1 - f) : f + i - 1 \in Nat /\ <<path, f + i - 1>> \in ShownLines
    BY <2>3 DEF ShownLines
  <2>5. /\ s \in Seq(ShownLines) /\ Len(s) = g + 1 - f
        /\ \A i \in 1..(g + 1 - f) : s[i] = <<path, f + i - 1>>
    <3> DEFINE k == g + 1 - f
    <3>1. k \in Nat
      BY <2>3
    <3> HIDE DEF k
    <3>2. \A i \in 1..k : <<path, f + i - 1>> \in ShownLines
      BY <2>4 DEF k
    <3> DEFINE t == [i \in 1..k |-> <<path, f + i - 1>>]
    <3>3. t \in Seq(ShownLines) /\ Len(t) = k
      BY <3>1, <3>2
    <3>. QED BY <3>3 DEF k
  <2>6. ASSUME NEW e
        PROVE  Has(s, e) <=>
               \E n \in 1..L : at <= n + before /\ n <= at + after /\ e = <<path, n>>
    <3> HIDE DEF s
    <3>1. ASSUME NEW j \in 1..Len(s), s[j] = e
          PROVE  \E n \in 1..L : at <= n + before /\ n <= at + after /\ e = <<path, n>>
      <4>1. e = <<path, f + j - 1>>
        BY <2>5, <3>1
      <4>2. f + j - 1 \in Nat /\ f <= f + j - 1 /\ f + j - 1 <= g
        BY <2>3, <2>5
      <4>3. f + j - 1 \in 1..L /\ at <= (f + j - 1) + before /\ f + j - 1 <= at + after
        BY <2>1, <4>2 DEF f, g
      <4>. QED BY <4>1, <4>3
    <3>2. ASSUME NEW n \in 1..L, at <= n + before, n <= at + after, e = <<path, n>>
          PROVE  \E j \in 1..Len(s) : s[j] = e
      <4>1. f <= n /\ n <= g
        BY <1>1, <2>1, <3>2 DEF f, g
      <4>2. n + 1 - f \in 1..Len(s) /\ f + (n + 1 - f) - 1 = n
        BY <2>3, <2>5, <4>1
      <4>3. s[n + 1 - f] = <<path, n>>
        BY <2>5, <4>2
      <4>. QED BY <3>2, <4>2, <4>3
    <3>. QED BY <3>1, <3>2 DEF Has
  <2>. QED BY <2>2, <2>5, <2>6
<1> HIDE DEF near, M, L
<1>4. all \in Seq(Seq(ShownLines)) /\ Len(all) = Len(M) /\ \A m \in 1..Len(M) : all[m] = near(M[m]) /\ M[m] \in 1..L
  <2>1. \A m \in 1..Len(M) : M[m] \in 1..L
    BY <1>1 DEF Has
  <2>2. \A m \in 1..Len(M) : near(M[m]) \in Seq(ShownLines)
    BY <1>3, <2>1
  <2>. QED BY <1>1, <2>1, <2>2
<1> HIDE DEF all
<1>5. /\ FlattenSeq(all) \in Seq(ShownLines)
      /\ \A e : Has(FlattenSeq(all), e) <=>
                \E m \in 1..Len(all) : Has(all[m], e)
  BY <1>4, FlattenIs
<1>6. ASSUME NEW e
      PROVE  (\E m \in 1..Len(all) : Has(all[m], e)) <=>
             \E n \in 1..L, m \in 1..L :
               lines[m] > 0 /\ m <= n + before /\ n <= m + after /\ e = <<path, n>>
  <2>1. (\E m \in 1..Len(all) : Has(all[m], e)) <=>
        \E m \in 1..Len(M) : \E n \in 1..L : M[m] <= n + before /\ n <= M[m] + after /\ e = <<path, n>>
    <3>1. Len(all) = Len(M)
      BY <1>4
    <3>2. \A m \in 1..Len(M) : Has(all[m], e) <=>
            \E n \in 1..L : M[m] <= n + before /\ n <= M[m] + after /\ e = <<path, n>>
      <4> TAKE m \in 1..Len(M)
      <4>1. M[m] \in 1..L /\ all[m] = near(M[m])
        BY <1>4
      <4>. QED BY <1>3, <4>1
    <3>. QED BY <3>1, <3>2
  <2>2. (\E m \in 1..Len(M) : \E n \in 1..L : M[m] <= n + before /\ n <= M[m] + after /\ e = <<path, n>>) <=>
        \E n \in 1..L, m \in 1..L : lines[m] > 0 /\ m <= n + before /\ n <= m + after /\ e = <<path, n>>
    BY <1>1 DEF Has
  <2>. QED BY <2>1, <2>2
<1>. QED BY <1>2, <1>5, <1>6 DEF L, IsNear

-----------------------------------------------------------------------------
(* All that a search has to tell, in parts or not.                         *)
Files(q) == Searched(q)
GrepAll(q) ==
  IF q.mode = "content"
  THEN FlattenSeq([i \in DOMAIN Files(q) |-> Shown(Files(q)[i], texts[Files(q)[i]], q.before, q.after)])
  ELSE Files(q)

TextsTyped == texts \in [ToSet(Paths) -> Texts] /\ ages \in Seq(ToSet(Paths))

(* A file is numbers of matches, line by line.                             *)
LEMMA TextIs ==
  ASSUME TextsTyped, NEW p \in ToSet(Paths) PROVE texts[p] \in Seq(Nat)
BY SearchAssumption DEF TextsTyped

(* The files a search tells are those with a match that its filters let    *)
(* through.                                                                *)
LEMMA SearchedIs ==
  ASSUME TextsTyped, NEW q \in Askable
  PROVE  /\ Searched(q) \in Seq(ToSet(Paths))
         /\ \A p : Has(Searched(q), p) <=>
                     p \in q.filter /\ \E i \in DOMAIN texts[p] : texts[p][i] > 0
<1> DEFINE S == {p \in q.filter : \E i \in DOMAIN texts[p] : texts[p][i] > 0}
<1>1. Paths \in Seq(ToSet(Paths)) /\ q.filter \subseteq ToSet(Paths)
  BY SearchAssumption DEF Askable
<1>2. Searched(q) = Kept(Paths, S)
  BY DEF Searched
<1>3. \A p \in S : Has(Paths, p)
  BY <1>1 DEF ToSet, Has
<1> HIDE DEF S
<1>4. /\ Kept(Paths, S) \in Seq(ToSet(Paths))
      /\ \A p : Has(Kept(Paths, S), p) <=> p \in S /\ Has(Paths, p)
  BY <1>1, KeptHas
<1>5. \A p : Has(Searched(q), p) <=> p \in S
  BY <1>2, <1>3, <1>4
<1>. QED BY <1>2, <1>4, <1>5 DEF S

(* All that a search tells, before it is cut: in mode content, the lines   *)
(* near a match in one of the files.                                       *)
LEMMA GrepAllIs ==
  ASSUME TextsTyped, NEW q \in Askable
  PROVE  /\ GrepAll(q) \in Seq(Entries)
         /\ q.mode = "content" =>
              \A e : Has(GrepAll(q), e) <=>
                     \E p \in q.filter : IsNear(e, p, texts[p], q.before, q.after)
<1> DEFINE F == Searched(q)
           shown == [i \in DOMAIN F |-> Shown(F[i], texts[F[i]], q.before, q.after)]
           Near(p, e) == IsNear(e, p, texts[p], q.before, q.after)
<1>1. /\ F \in Seq(ToSet(Paths)) /\ DOMAIN F = 1..Len(F)
      /\ \A p : Has(F, p) <=> p \in q.filter /\ \E i \in DOMAIN texts[p] : texts[p][i] > 0
  BY SearchedIs
<1>2. q.before \in Nat /\ q.after \in Nat /\ q.filter \subseteq ToSet(Paths)
  BY DEF Askable
<1> HIDE DEF F, Near
<1>3. ASSUME NEW i \in 1..Len(F)
      PROVE  /\ shown[i] \in Seq(ShownLines)
             /\ \A e : Has(shown[i], e) <=> Near(F[i], e)
  <2>1. F[i] \in ToSet(Paths) /\ shown[i] = Shown(F[i], texts[F[i]], q.before, q.after)
    BY <1>1
  <2>2. texts[F[i]] \in Seq(Nat)
    BY <2>1, TextIs
  <2> HIDE DEF shown
  <2> DEFINE p == F[i]
             those == Shown(p, texts[p], q.before, q.after)
  <2>3. p \in ToSet(Paths) /\ texts[p] \in Seq(Nat) /\ shown[i] = those
    BY <2>1, <2>2
  <2>4. those \in Seq(ShownLines)
    <3> HIDE DEF p
    <3>. QED BY <1>2, <2>3, ShownIs
  <2>5. \A e : Has(those, e) <=> Near(p, e)
    <3> DEFINE lines == texts[p]
               b == q.before
               a == q.after
    <3>1. p \in ToSet(Paths) /\ lines \in Seq(Nat) /\ b \in Nat /\ a \in Nat
      BY <1>2, <2>3
    <3> HIDE DEF p, lines, a, b
    <3>2. \A e : Has(Shown(p, lines, b, a), e) <=> IsNear(e, p, lines, b, a)
      BY <3>1, ShownIs
    <3>. QED BY <3>2 DEF Near, lines, a, b
  <2> HIDE DEF those
  <2>. QED BY <2>3, <2>4, <2>5
<1>4. shown \in Seq(Seq(ShownLines)) /\ Len(shown) = Len(F)
  BY <1>1, <1>3
<1>5. CASE q.mode = "content"
  <2>1. GrepAll(q) = FlattenSeq(shown)
    BY <1>5 DEF GrepAll, F, Files
  <2> HIDE DEF shown
  <2>2. /\ FlattenSeq(shown) \in Seq(ShownLines)
        /\ \A e : Has(FlattenSeq(shown), e) <=>
                  \E i \in 1..Len(shown) : Has(shown[i], e)
    BY <1>4, FlattenIs
  <2>3. ASSUME NEW e
        PROVE  (\E i \in 1..Len(shown) : Has(shown[i], e)) <=>
               \E p \in q.filter : Near(p, e)
    <3>1. (\E i \in 1..Len(shown) : Has(shown[i], e)) <=>
          \E i \in 1..Len(F) : Near(F[i], e)
      BY <1>3, <1>4
    <3>2. ASSUME NEW p \in q.filter, Near(p, e) PROVE \E i \in DOMAIN texts[p] : texts[p][i] > 0
      <4>1. DOMAIN texts[p] = 1..Len(texts[p])
        BY <1>2, TextIs
      <4>. QED BY <3>2, <4>1 DEF Near, IsNear
    <3>3. (\E i \in 1..Len(F) : Near(F[i], e)) <=> \E p \in q.filter : Near(p, e)
      <4>1. \A p : (\E i \in 1..Len(F) : F[i] = p) <=>
                   p \in q.filter /\ \E i \in DOMAIN texts[p] : texts[p][i] > 0
        BY <1>1 DEF Has
      <4>. QED BY <3>2, <4>1
    <3>. QED BY <3>1, <3>3
  <2>4. Seq(ShownLines) \subseteq Seq(Entries)
    BY DEF ShownLines, Entries
  <2>. QED BY <1>5, <2>1, <2>2, <2>3, <2>4 DEF Near
<1>6. CASE q.mode # "content"
  <2>1. GrepAll(q) = F
    BY <1>6 DEF GrepAll, F, Files
  <2>2. Seq(ToSet(Paths)) \subseteq Seq(Entries)
    BY DEF Entries
  <2>. QED BY <1>1, <1>6, <2>1, <2>2
<1>. QED BY <1>5, <1>6

-----------------------------------------------------------------------------
(* What a part of an answer is, for each tool.                             *)
Fails(q) == \/ q.tool = "read" /\ ~Readable(q.path)
            \/ q.tool = "grep" /\ shut # {}
LEMMA PartIs ==
  ASSUME TextsTyped, NEW q \in Askable
  PROVE  /\ Fails(q) => Part(q) = Failure
         /\ q.tool = "read" /\ ~Fails(q) => Part(q) = ReadFile(texts[q.path], q.offset, q.limit)
         /\ q.tool = "glob" => Part(q) = GlobSearch(Found(q))
         /\ q.tool = "grep" /\ ~Fails(q) =>
              /\ Part(q).items = ApplyLimit(GrepAll(q), q.limit, q.offset).items
              /\ Part(q).more = ApplyLimit(GrepAll(q), q.limit, q.offset).cut
         /\ Part(q).failed <=> Fails(q)
<1>1. CASE q.tool = "read"
  <2>1. Part(q) = IF Readable(q.path) THEN ReadFile(texts[q.path], q.offset, q.limit) ELSE Failure
    BY <1>1 DEF Part
  <2>2. ReadFile(texts[q.path], q.offset, q.limit).failed = FALSE /\ Failure.failed = TRUE
    BY DEF ReadFile, Failure
  <2>3. CASE Readable(q.path)
    <3>1. Part(q) = ReadFile(texts[q.path], q.offset, q.limit) /\ Part(q).failed = FALSE /\ ~Fails(q)
      BY <1>1, <2>1, <2>2, <2>3 DEF Fails
    <3>. QED BY <1>1, <3>1
  <2>4. CASE ~Readable(q.path)
    <3>1. Part(q) = Failure /\ Part(q).failed = TRUE /\ Fails(q)
      BY <1>1, <2>1, <2>2, <2>4 DEF Fails
    <3>. QED BY <1>1, <3>1
  <2>. QED BY <2>3, <2>4
<1>2. CASE q.tool = "glob"
  <2>1. Part(q) = GlobSearch(Found(q))
    BY <1>2 DEF Part
  <2>2. GlobSearch(Found(q)).failed = FALSE
    BY DEF GlobSearch
  <2>. QED BY <1>2, <2>1, <2>2 DEF Fails
<1>3. CASE q.tool = "grep"
  <2>1. Part(q) = GrepSearch(q)
    BY <1>3 DEF Part
  <2>2. CASE shut = {}
    <3>1. /\ GrepSearch(q).items = ApplyLimit(GrepAll(q), q.limit, q.offset).items
          /\ GrepSearch(q).more = ApplyLimit(GrepAll(q), q.limit, q.offset).cut
          /\ GrepSearch(q).failed = FALSE
      BY <2>2 DEF GrepSearch, GrepAll, Files
    <3>. QED BY <1>3, <2>1, <2>2, <3>1 DEF Fails
  <2>3. CASE shut # {}
    <3>1. GrepSearch(q) = Failure /\ Failure.failed = TRUE
      BY <2>3 DEF GrepSearch, Failure
    <3>. QED BY <1>3, <2>1, <2>3, <3>1 DEF Fails
  <2>. QED BY <2>2, <2>3
<1>. QED BY <1>1, <1>2, <1>3 DEF Askable

(* The newest files, no more than the bound, with a mark if there are      *)
(* more.                                                                   *)
LEMMA GlobIs ==
  ASSUME ages \in Seq(ToSet(Paths)), NEW found
  PROVE  LET kept == Kept(ages, found)
             r == GlobSearch(found)
         IN /\ kept \in Seq(ToSet(Paths)) /\ r.items \in Seq(ToSet(Paths))
            /\ Len(r.items) = Lower(MaxNewest, Len(kept)) /\ (r.more <=> Len(kept) > MaxNewest)
<1> DEFINE kept == Kept(ages, found)
           n == Lower(MaxNewest, Len(kept))
           first == SubSeq(kept, 1, n)
<1>1. kept \in Seq(ToSet(Paths))
  BY KeptHas
<1>2. GlobSearch(found).items = first /\ GlobSearch(found).more = (Len(kept) > MaxNewest)
  BY DEF GlobSearch
<1> HIDE DEF kept
<1>3. n \in 0..Len(kept)
  BY <1>1, SearchAssumption DEF Lower
<1> HIDE DEF n
<1>4. first \in Seq(ToSet(Paths)) /\ Len(first) = n
  <2>1. \A i \in 1..n : kept[i] \in ToSet(Paths)
    BY <1>1, <1>3
  <2>2. first \in Seq(ToSet(Paths)) /\ Len(first) = IF 1 <= n THEN n - 1 + 1 ELSE 0
    BY <1>3, <2>1, SubSeqProperties
  <2> HIDE DEF first
  <2>. QED BY <1>3, <2>2
<1> HIDE DEF first
<1>. QED BY <1>1, <1>2, <1>4 DEF kept, n

(* The files by their age: each of them once.                              *)
Aged ==
  /\ ages \in Seq(ToSet(Paths)) /\ ToSet(ages) = ToSet(Paths)
  /\ \A i, j \in 1..Len(ages) : ages[i] = ages[j] => i = j

(* Those told are newer than those not told.                               *)
LEMMA NewestAreFirst ==
  ASSUME Aged, NEW found, found \subseteq ToSet(Paths)
  PROVE  /\ NewestOf(found, GlobSearch(found).items)
         /\ GlobSearch(found).more <=> Cardinality(found) > MaxNewest
<1> DEFINE kept == Kept(ages, found)
           n == Lower(MaxNewest, Len(kept))
           first == SubSeq(kept, 1, n)
<1>1. /\ kept \in Seq(ToSet(Paths)) /\ Len(kept) = Cardinality(found)
      /\ \A x : (\E j \in 1..Len(kept) : kept[j] = x) <=> x \in found
  <2>1. ages \in Seq(ToSet(Paths)) /\ DOMAIN ages = 1..Len(ages)
    BY DEF Aged
  <2>2. \A x \in found : \E i \in 1..Len(ages) : ages[i] = x
    BY <2>1 DEF Aged, ToSet
  <2>3. found \subseteq ToSet(ages) /\ \A i, j \in 1..Len(ages) : ages[i] = ages[j] => i = j
    BY DEF Aged
  <2> DEFINE A == ToSet(Paths)
  <2> HIDE DEF A
  <2>4. ages \in Seq(A)
    BY <2>1 DEF A
  <2>5. kept \in Seq(A)
    BY <2>4, KeptIs
  <2>7. \A x : (\E j \in 1..Len(kept) : kept[j] = x) <=>
                     x \in found /\ \E i \in 1..Len(ages) : ages[i] = x
    BY <2>4, KeptIs
  <2>6. Len(kept) = Cardinality(found)
    BY <2>3, <2>4, KeptIs
  <2> HIDE DEF kept
  <2>. QED BY <2>2, <2>5, <2>6, <2>7 DEF A
<1>2. \A i, j \in 1..Len(kept) : i < j => Newer(kept[i], kept[j])
  <2> SUFFICES ASSUME NEW i \in 1..Len(kept), NEW j \in 1..Len(kept), i < j
      PROVE  Newer(kept[i], kept[j])
    OBVIOUS
  <2>1. ages \in Seq(ToSet(Paths)) /\ DOMAIN ages = 1..Len(ages)
    BY DEF Aged
  <2> DEFINE A == ToSet(Paths)
  <2> HIDE DEF A
  <2>3. ages \in Seq(A)
    BY <2>1 DEF A
  <2>2. \E k, l \in 1..Len(ages) : k < l /\ ages[k] = kept[i] /\ ages[l] = kept[j]
    BY <2>3, KeptOrder
  <2> HIDE DEF kept
  <2>. QED BY <2>1, <2>2 DEF Newer
<1>3. GlobSearch(found).items = first /\ GlobSearch(found).more = (Len(kept) > MaxNewest)
  BY DEF GlobSearch
<1> HIDE DEF kept
<1>4. n \in 0..Len(kept) /\ Len(kept) \in Nat
  BY <1>1, SearchAssumption DEF Lower
<1> HIDE DEF n
<1>5. /\ first \in Seq(ToSet(Paths)) /\ Len(first) = n /\ DOMAIN first = 1..n
      /\ \A i \in 1..n : first[i] = kept[i]
  <2>1. \A i \in 1..n : kept[i] \in ToSet(Paths)
    BY <1>1, <1>4
  <2>2. /\ first \in Seq(ToSet(Paths)) /\ Len(first) = IF 1 <= n THEN n - 1 + 1 ELSE 0
        /\ \A i \in 1..(n - 1 + 1) : first[i] = kept[1 + i - 1]
    BY <1>4, <2>1, SubSeqProperties
  <2> HIDE DEF first
  <2>3. Len(first) = n
    BY <1>4, <2>2
  <2>4. \A i \in 1..n : i \in 1..(n - 1 + 1) /\ 1 + i - 1 = i
    BY <1>4
  <2>. QED BY <2>2, <2>3, <2>4
<1> HIDE DEF first
<1>6. \A i \in 1..n : i \in 1..Len(kept)
  BY <1>4
<1>7. \A x : x \in ToSet(first) <=> \E i \in 1..n : kept[i] = x
  BY <1>5 DEF ToSet
<1>8. ASSUME NEW p \in ToSet(first), NEW o \in found \ ToSet(first) PROVE Newer(p, o)
  <2>1. PICK i \in 1..n : kept[i] = p
    BY <1>7
  <2>2. PICK j \in 1..Len(kept) : kept[j] = o
    BY <1>1
  <2>3. ~(j <= n)
    <3>1. j \in 1..n => o \in ToSet(first)
      BY <1>7, <2>2
    <3>. QED BY <1>4, <1>8, <3>1
  <2>4. i < j
    BY <1>4, <2>3
  <2>. QED BY <1>2, <1>6, <2>1, <2>2, <2>4
<1>9. ToSet(first) \subseteq found
  BY <1>1, <1>6, <1>7
<1>10. Len(first) = Lower(MaxNewest, Cardinality(found))
  BY <1>1, <1>5 DEF n
<1>. QED BY <1>1, <1>2, <1>3, <1>5, <1>6, <1>8, <1>9, <1>10 DEF NewestOf

(* A part is made of entries, and is no longer than asked for.             *)
LEMMA PartType ==
  ASSUME TextsTyped, NEW q \in Askable, \A m, n \in q.limit : m = n
  PROVE  /\ Part(q).items \in Seq(Entries)
         /\ q.tool # "glob" /\ q.limit \notin {{}, {0}} => Len(Part(q).items) <= Given(q.limit, 0)
<1>1. /\ q.path \in ToSet(Paths) /\ q.limit \in SUBSET Nat /\ q.offset \in Nat
      /\ q.tool \in {"read", "glob", "grep"}
  BY DEF Askable
<1>2. Seq(Nat \X Nat) \subseteq Seq(Entries) /\ Seq(ToSet(Paths)) \subseteq Seq(Entries)
  BY DEF Entries
<1>0. CASE Fails(q)
  <2>1. Part(q).items = <<>>
    BY <1>0, PartIs DEF Failure
  <2>2. q.limit # {} => Given(q.limit, 0) \in Nat
    BY <1>1 DEF Given
  <2>. QED BY <2>1, <2>2
<1>3. CASE q.tool = "read" /\ ~Fails(q)
  <2> DEFINE r == ReadFile(texts[q.path], q.offset, q.limit)
             L == Len(texts[q.path])
  <2>1. Part(q) = r
    BY <1>3, PartIs
  <2>2. texts[q.path] \in Seq(Nat)
    BY <1>1, TextIs
  <2>3. /\ r.items \in Seq(Nat \X Nat)
        /\ Len(r.items) = IF q.limit = {} THEN L - Lower(q.offset, L)
                          ELSE Lower(Given(q.limit, 0), L - Lower(q.offset, L))
    BY <1>1, <2>2, ReadIs
  <2> HIDE DEF r
  <2>4. L \in Nat /\ L - Lower(q.offset, L) \in Nat
    BY <1>1, <2>2 DEF Lower
  <2> HIDE DEF L
  <2>5. q.limit # {} => Given(q.limit, 0) \in Nat
    BY <1>1 DEF Given
  <2>6. q.limit # {} => Len(r.items) <= Given(q.limit, 0)
    BY <2>3, <2>4, <2>5 DEF Lower
  <2>. QED BY <1>2, <2>1, <2>3, <2>6
<1>4. CASE q.tool = "glob"
  <2>1. Part(q) = GlobSearch(Found(q))
    BY <1>4, PartIs
  <2>2. GlobSearch(Found(q)).items \in Seq(ToSet(Paths))
    BY GlobIs DEF TextsTyped
  <2>. QED BY <1>2, <1>4, <2>1, <2>2
<1>5. CASE q.tool = "grep" /\ ~Fails(q)
  <2> DEFINE r == ApplyLimit(GrepAll(q), q.limit, q.offset)
             left == Minus(Len(GrepAll(q)), q.offset)
  <2>1. Part(q).items = r.items
    BY <1>5, PartIs
  <2>2. GrepAll(q) \in Seq(Entries)
    BY GrepAllIs
  <2>3. /\ r.items \in Seq(Entries)
        /\ Len(r.items) = IF Given(q.limit, Default) = 0 THEN left ELSE Lower(Given(q.limit, Default), left)
    <3> DEFINE all == GrepAll(q)
               limit == q.limit
               offset == q.offset
    <3>1. all \in Seq(Entries) /\ limit \in SUBSET Nat /\ offset \in Nat
      BY <1>1, <2>2
    <3> HIDE DEF all, limit, offset
    <3>2. LET s == ApplyLimit(all, limit, offset)
              most == Given(limit, Default)
              rest == Minus(Len(all), offset)
          IN s.items \in Seq(Entries) /\ Len(s.items) = IF most = 0 THEN rest ELSE Lower(most, rest)
      BY <3>1, ApplyIs
    <3>. QED BY <3>2 DEF all, limit, offset
  <2> HIDE DEF r
  <2>4. left \in Nat
    BY <1>1, <2>2 DEF Minus
  <2> HIDE DEF left
  <2>5. q.limit \notin {{}, {0}} =>
          /\ Given(q.limit, 0) \in Nat /\ Given(q.limit, Default) = Given(q.limit, 0)
          /\ Given(q.limit, 0) # 0
    <3>1. q.limit # {} => Given(q.limit, Default) = Given(q.limit, 0)
      BY DEF Given
    <3>2. q.limit \notin {{}, {0}} => Given(q.limit, 0) \in Nat /\ Given(q.limit, 0) >= 1
      BY <1>1, LimitCounts
    <3>. QED BY <3>1, <3>2
  <2>6. q.limit \notin {{}, {0}} => Len(r.items) <= Given(q.limit, 0)
    BY <2>3, <2>4, <2>5 DEF Lower
  <2>. QED BY <2>1, <2>3, <2>6
<1>. QED BY <1>0, <1>1, <1>3, <1>4, <1>5

-----------------------------------------------------------------------------
(* What one answer without a limit tells of a file or a search.            *)
WholeOf(q) ==
  IF Fails(q) THEN <<>>
  ELSE IF q.tool = "read" THEN ReadFile(texts[q.path], q.offset, {}).items
  ELSE ApplyLimit(GrepAll(q), {0}, q.offset).items

(* What is asked has its type, and one limit or none.                      *)
LEMMA Asked == \A q \in Questions : q \in Askable /\ \A m, n \in q.limit : m = n
BY SearchAssumption DEF Askable

(* Offset and limit do not matter for what there is.                       *)
LEMMA OtherPart ==
  ASSUME NEW q \in Askable, NEW o \in Nat, NEW l \in SUBSET Nat
  PROVE  LET r == [q EXCEPT !.offset = o]
             s == [q EXCEPT !.limit = l]
         IN /\ r \in Askable /\ r.tool = q.tool /\ r.path = q.path /\ r.limit = q.limit /\ r.offset = o
            /\ s \in Askable /\ s.tool = q.tool /\ s.path = q.path /\ s.limit = l /\ s.offset = q.offset
            /\ GrepAll(r) = GrepAll(q) /\ GrepAll(s) = GrepAll(q)
            /\ Fails(r) = Fails(q) /\ Fails(s) = Fails(q)
<1> DEFINE r == [q EXCEPT !.offset = o]
           s == [q EXCEPT !.limit = l]
<1>1. /\ r \in Askable /\ r.tool = q.tool /\ r.path = q.path /\ r.limit = q.limit /\ r.offset = o
      /\ r.mode = q.mode /\ r.before = q.before /\ r.after = q.after /\ r.filter = q.filter
  BY DEF Askable
<1>2. /\ s \in Askable /\ s.tool = q.tool /\ s.path = q.path /\ s.limit = l /\ s.offset = q.offset
      /\ s.mode = q.mode /\ s.before = q.before /\ s.after = q.after /\ s.filter = q.filter
  BY DEF Askable
<1> HIDE DEF r, s
<1>3. Files(r) = Files(q) /\ Files(s) = Files(q)
  BY <1>1, <1>2 DEF Files, Searched
<1>4. GrepAll(r) = GrepAll(q) /\ GrepAll(s) = GrepAll(q)
  BY <1>1, <1>2, <1>3 DEF GrepAll
<1>5. Fails(r) = Fails(q) /\ Fails(s) = Fails(q)
  BY <1>1, <1>2 DEF Fails
<1>. QED BY <1>1, <1>2, <1>4, <1>5 DEF r, s

(* One answer without a limit is all there is from the offset on.          *)
LEMMA WholeIs ==
  TextsTyped /\ question \in Questions /\ question.tool # "glob" =>
    /\ Part(Unlimited(question)).items = WholeOf(question)
    /\ WholeOf(question) \in Seq(Entries)
<1> SUFFICES ASSUME TextsTyped, question \in Questions, question.tool # "glob"
    PROVE  Part(Unlimited(question)).items = WholeOf(question) /\ WholeOf(question) \in Seq(Entries)
  OBVIOUS
<1> DEFINE q == question
           l == IF q.tool = "grep" THEN {0} ELSE {}
           s == [q EXCEPT !.limit = l]
<1>1. q \in Askable /\ q.tool \in {"read", "grep"} /\ q.path \in ToSet(Paths) /\ q.offset \in Nat
  BY Asked DEF Askable
<1>2. Unlimited(question) = s /\ l \in SUBSET Nat
  BY DEF Unlimited
<1> HIDE DEF q, l, s
<1>3. /\ s \in Askable /\ s.tool = q.tool /\ s.path = q.path /\ s.limit = l /\ s.offset = q.offset
      /\ GrepAll(s) = GrepAll(q) /\ Fails(s) = Fails(q)
  BY <1>1, <1>2, OtherPart DEF s
<1>0. CASE Fails(q)
  <2>1. Part(s).items = <<>>
    <3>1. Part(s) = Failure
      BY <1>0, <1>3, PartIs
    <3>. QED BY <3>1 DEF Failure
  <2>2. WholeOf(q) = <<>> /\ <<>> \in Seq(Entries)
    BY <1>0 DEF WholeOf
  <2>. QED BY <1>2, <2>1, <2>2 DEF q
<1>4. CASE q.tool = "read" /\ ~Fails(q)
  <2>1. Part(s) = ReadFile(texts[q.path], q.offset, {})
    BY <1>3, <1>4, PartIs DEF l
  <2>2. WholeOf(q) = ReadFile(texts[q.path], q.offset, {}).items
    BY <1>4 DEF WholeOf
  <2>3. ReadFile(texts[q.path], q.offset, {}).items \in Seq(Nat \X Nat)
    <3>1. texts[q.path] \in Seq(Nat) /\ {} \in SUBSET Nat
      BY <1>1, TextIs
    <3>. QED BY <1>1, <3>1, ReadIs
  <2>4. Seq(Nat \X Nat) \subseteq Seq(Entries)
    BY DEF Entries
  <2>. QED BY <1>2, <2>1, <2>2, <2>3, <2>4 DEF q
<1>5. CASE q.tool = "grep" /\ ~Fails(q)
  <2>1. Part(s).items = ApplyLimit(GrepAll(q), {0}, q.offset).items
    BY <1>3, <1>5, PartIs DEF l
  <2>2. WholeOf(q) = ApplyLimit(GrepAll(q), {0}, q.offset).items
    BY <1>5 DEF WholeOf
  <2>3. ApplyLimit(GrepAll(q), {0}, q.offset).items \in Seq(Entries)
    <3>1. GrepAll(q) \in Seq(Entries) /\ {0} \in SUBSET Nat
      BY <1>1, GrepAllIs
    <3>. QED BY <1>1, <3>1, ApplyIs
  <2>. QED BY <1>2, <2>1, <2>2, <2>3 DEF q
<1>. QED BY <1>0, <1>1, <1>4, <1>5

(* The next part of a whole that does not change.                          *)
LEMMA PartGoesOn ==
  ASSUME TextsTyped, NEW q \in Askable, \A m, n \in q.limit : m = n,
         q.tool # "glob", ~(q.tool = "read" /\ q.limit = {0}),
         NEW K \in Nat, K <= Len(WholeOf(q))
  PROVE  LET P == Part([q EXCEPT !.offset = q.offset + K])
             more == IF q.tool = "read" THEN P.items # <<>> /\ Last(P.items)[1] < P.total ELSE P.more
         IN /\ K + Len(P.items) <= Len(WholeOf(q))
            /\ \A i \in 1..Len(P.items) : P.items[i] = WholeOf(q)[K + i]
            /\ more <=> K + Len(P.items) < Len(WholeOf(q))
<1> DEFINE o == q.offset
           l == q.limit
           r == [q EXCEPT !.offset = o + K]
<1>1. /\ q.tool \in {"read", "grep"} /\ q.path \in ToSet(Paths) /\ o \in Nat
      /\ l \in SUBSET Nat /\ o + K \in Nat
  BY DEF Askable
<1> HIDE DEF o, r
<1>2. /\ r \in Askable /\ r.tool = q.tool /\ r.path = q.path /\ r.limit = l /\ r.offset = o + K
      /\ GrepAll(r) = GrepAll(q) /\ Fails(r) = Fails(q)
  <2>1. l \in SUBSET Nat
    BY <1>1
  <2>. QED BY <1>1, <2>1, OtherPart DEF r
<1>0. CASE Fails(q)
  <2>1. Part(r).items = <<>> /\ Part(r).more = FALSE
    <3>1. Part(r) = Failure
      BY <1>0, <1>2, PartIs
    <3>. QED BY <3>1 DEF Failure
  <2>2. WholeOf(q) = <<>> /\ K = 0
    BY <1>0 DEF WholeOf
  <2> HIDE DEF o, r
  <2>3. Len(Part(r).items) = 0 /\ Len(WholeOf(q)) = 0
    BY <2>1, <2>2
  <2>. QED BY <2>1, <2>2, <2>3 DEF r, o
<1>3. CASE q.tool = "read" /\ ~Fails(q)
  <2> DEFINE lines == texts[q.path]
  <2>1. Part(r) = ReadFile(lines, o + K, l) /\ WholeOf(q) = ReadFile(lines, o, {}).items
    BY <1>2, <1>3, PartIs DEF WholeOf, o
  <2>2. lines \in Seq(Nat)
    BY <1>1, TextIs
  <2>4. l # {0}
    BY <1>3
  <2> HIDE DEF lines, l
  <2>3. LET W == ReadFile(lines, o, {}).items
            P == ReadFile(lines, o + K, l)
        IN /\ K + Len(P.items) <= Len(W)
           /\ \A i \in 1..Len(P.items) : P.items[i] = W[K + i]
           /\ (P.items # <<>> /\ Last(P.items)[1] < P.total) <=> K + Len(P.items) < Len(W)
    BY <1>1, <2>1, <2>2, <2>4, ReadGoesOn DEF l
  <2>. QED BY <1>3, <2>1, <2>3 DEF r, o
<1>4. CASE q.tool = "grep" /\ ~Fails(q)
  <2> DEFINE all == GrepAll(q)
             P == ApplyLimit(all, l, o + K)
  <2>1. Part(r).items = P.items /\ Part(r).more = P.cut /\ WholeOf(q) = ApplyLimit(all, {0}, o).items
    BY <1>2, <1>4, PartIs DEF WholeOf, o
  <2>2. all \in Seq(Entries)
    BY GrepAllIs
  <2> HIDE DEF all, l, P
  <2>3. LET W == ApplyLimit(all, {0}, o).items
        IN /\ K + Len(P.items) <= Len(W)
           /\ \A i \in 1..Len(P.items) : P.items[i] = W[K + i]
           /\ P.cut <=> K + Len(P.items) < Len(W)
    BY <1>1, <2>1, <2>2, AnswerGoesOn DEF l, P
  <2>. QED BY <1>4, <2>1, <2>3 DEF r, o
<1>. QED BY <1>0, <1>1, <1>3, <1>4

(* The lines of a part are numbered from its offset.                       *)
LEMMA NumbersAre ==
  ASSUME TextsTyped, NEW q \in Askable, q.tool = "read"
  PROVE  \A i \in 1..Len(Part(q).items) : Part(q).items[i][1] = q.offset + i
<1> DEFINE lines == texts[q.path]
           r == ReadFile(lines, q.offset, q.limit)
           L == Len(lines)
           start == Lower(q.offset, L)
<1>1. q.path \in ToSet(Paths) /\ q.offset \in Nat /\ q.limit \in SUBSET Nat
  BY DEF Askable
<1>2. lines \in Seq(Nat) /\ L \in Nat
  BY <1>1, TextIs
<1>3. Part(q) = r \/ Part(q).items = <<>>
  BY PartIs DEF Failure
<1>4. /\ r.items \in Seq(Nat \X Nat)
      /\ Len(r.items) = IF q.limit = {} THEN L - start ELSE Lower(Given(q.limit, 0), L - start)
      /\ \A i \in 1..Len(r.items) : r.items[i] = <<start + i, lines[start + i]>>
  BY <1>1, <1>2, ReadIs
<1> HIDE DEF r, lines, L
<1>5. start \in Nat /\ L - start \in Nat /\ (L - start # 0 => start = q.offset)
  BY <1>1, <1>2 DEF Lower
<1> HIDE DEF start
<1>6. q.limit # {} => Given(q.limit, 0) \in Nat
  BY <1>1 DEF Given
<1>7. Len(r.items) # 0 => L - start # 0
  BY <1>4, <1>5, <1>6 DEF Lower
<1>8. ASSUME NEW i \in 1..Len(r.items) PROVE r.items[i][1] = q.offset + i
  <2>1. Len(r.items) \in Nat /\ Len(r.items) # 0
    BY <1>4
  <2>2. r.items[i] = <<start + i, lines[start + i]>> /\ start = q.offset
    BY <1>4, <1>5, <1>7, <2>1
  <2>. QED BY <2>2
<1>. QED BY <1>3, <1>8

(* One more part is heard.                                                 *)
Heard(hs) == hs \in Seq(ToSet(hs)) /\ \A i \in 1..Len(hs) : hs[i].items \in Seq(Entries)

(* What was heard so far is entries, one after the other.                  *)
LEMMA ItemsAre ==
  ASSUME NEW hs, Heard(hs)
  PROVE  /\ [i \in DOMAIN hs |-> hs[i].items] \in Seq(Seq(Entries))
         /\ Items(hs) = FlattenSeq([i \in DOMAIN hs |-> hs[i].items]) /\ Items(hs) \in Seq(Entries)
         /\ hs = <<>> => Items(hs) = <<>>
<1> DEFINE ss == [i \in DOMAIN hs |-> hs[i].items]
<1>1. ss \in Seq(Seq(Entries))
  BY DEF Heard
<1>2. Items(hs) = FlattenSeq(ss)
  BY DEF Items
<1>3. hs = <<>> => ss = <<>>
  OBVIOUS
<1> HIDE DEF ss
<1>4. FlattenSeq(ss) \in Seq(Entries)
  BY <1>1, FlattenIs
<1>5. ss = <<>> => FlattenSeq(ss) = <<>>
  BY FlattenIsJoined
<1>. QED BY <1>1, <1>2, <1>3, <1>4, <1>5 DEF ss

(* A part is heard after the others, which stay.                           *)
LEMMA ItemsGrow ==
  ASSUME NEW hs, Heard(hs), NEW P, P.items \in Seq(Entries)
  PROVE  LET more == Append(hs, P) IN
         /\ Heard(more) /\ Items(more) = Items(hs) \o P.items
         /\ more # <<>> /\ Last(more) = P /\ Len(more) = Len(hs) + 1 /\ more[Len(hs) + 1] = P
         /\ \A i \in 1..Len(hs) : more[i] = hs[i]
<1> DEFINE more == Append(hs, P)
           S == ToSet(hs) \cup {P}
           ss == [i \in DOMAIN hs |-> hs[i].items]
           tt == [i \in DOMAIN more |-> more[i].items]
<1>1. hs \in Seq(S) /\ P \in S /\ Len(hs) \in Nat /\ DOMAIN hs = 1..Len(hs)
  <2>1. hs \in Seq(ToSet(hs)) /\ ToSet(hs) \subseteq S
    BY DEF Heard
  <2> HIDE DEF S
  <2>2. hs \in Seq(S)
    BY <2>1
  <2>. QED BY <2>2 DEF S
<1> HIDE DEF S
<1>2. /\ more \in Seq(S) /\ Len(more) = Len(hs) + 1 /\ more[Len(hs) + 1] = P
      /\ DOMAIN more = 1..(Len(hs) + 1)
      /\ \A i \in 1..Len(hs) : more[i] = hs[i]
  BY <1>1
<1> HIDE DEF more
<1>3. more \in Seq(ToSet(more))
  BY <1>2 DEF ToSet
<1>4. \A i \in 1..(Len(hs) + 1) : more[i].items \in Seq(Entries)
  <2> TAKE i \in 1..(Len(hs) + 1)
  <2>1. i \in 1..Len(hs) \/ i = Len(hs) + 1
    BY <1>1
  <2>. QED BY <1>2, <2>1 DEF Heard
<1>5. Heard(more)
  BY <1>2, <1>3, <1>4 DEF Heard
<1>6. ss \in Seq(Seq(Entries)) /\ Items(hs) = FlattenSeq(ss)
  BY ItemsAre
<1>7. tt \in Seq(Seq(Entries)) /\ Items(more) = FlattenSeq(tt)
  BY <1>5, ItemsAre
<1>8. tt = Append(ss, P.items)
  <2> DEFINE uu == Append(ss, P.items)
  <2>1. Len(ss) = Len(hs) /\ \A i \in 1..Len(hs) : ss[i] = hs[i].items
    BY <1>1
  <2>2. Len(tt) = Len(hs) + 1 /\ \A i \in 1..(Len(hs) + 1) : tt[i] = more[i].items
    BY <1>1, <1>2
  <2> HIDE DEF ss, tt
  <2>3. /\ uu \in Seq(Seq(Entries)) /\ Len(uu) = Len(hs) + 1 /\ uu[Len(hs) + 1] = P.items
        /\ \A i \in 1..Len(hs) : uu[i] = ss[i]
    BY <1>6, <2>1
  <2> HIDE DEF uu
  <2>4. \A i \in 1..(Len(hs) + 1) : tt[i] = uu[i]
    <3> TAKE i \in 1..(Len(hs) + 1)
    <3>1. i \in 1..Len(hs) \/ i = Len(hs) + 1
      BY <1>1
    <3>. QED BY <1>2, <2>1, <2>2, <2>3, <3>1
  <2>5. tt = uu
    BY <1>7, <2>2, <2>3, <2>4, SeqEqual
  <2>. QED BY <2>5 DEF uu
<1>9. Items(more) = Items(hs) \o P.items
  <2> HIDE DEF ss, tt
  <2>. QED BY <1>6, <1>7, <1>8, FlattenGrows
<1>10. more # <<>> /\ Last(more) = P
  BY <1>1, <1>2 DEF Last
<1>. QED BY <1>2, <1>5, <1>9, <1>10 DEF more

-----------------------------------------------------------------------------
(* The inductive invariant: what one answer without a limit would tell is  *)
(* known until the first part is heard, and after it if nothing changed;   *)
(* the parts are no longer than asked for; lines are numbered from the     *)
(* offset on; the parts are the beginning of the whole, and the reader is  *)
(* told whether there is more of it; the newest files are told with a mark *)
(* if there are others; and what fails does so because of a file or a      *)
(* directory.                                                              *)
Told(part) ==
  IF question.tool = "read" THEN part.items # <<>> /\ Last(part.items)[1] < part.total ELSE part.more
Full == (heard = <<>> \/ steady) /\ question.tool # "glob" => full.items = WholeOf(question)
FullFails == heard = <<>> \/ steady => (full.failed <=> Fails(question))
Short(hs) ==
  \A i \in 1..Len(hs) :
    question.tool # "glob" /\ question.limit \notin {{}, {0}} =>
      Len(hs[i].items) <= Given(question.limit, 0)
Numbered(hs) ==
  question.tool = "read" => \A k \in 1..Len(Items(hs)) : Items(hs)[k][1] = question.offset + k
Limited == ~(question.tool = "read" /\ question.limit = {0})
Paged(hs) ==
  steady /\ question.tool # "glob" /\ hs # <<>> /\ Limited =>
    /\ Len(Items(hs)) <= Len(WholeOf(question))
    /\ \A i \in 1..Len(Items(hs)) : Items(hs)[i] = WholeOf(question)[i]
    /\ Told(Last(hs)) <=> Len(Items(hs)) < Len(WholeOf(question))
Listed(hs) ==
  question.tool = "glob" /\ hs # <<>> /\ steady =>
    /\ NewestOf(Found(question), hs[1].items)
    /\ hs[1].more <=> Cardinality(Found(question)) > MaxNewest
Failed(hs) == steady => \A i \in 1..Len(hs) : hs[i].failed <=> Fails(question)
SearchTyped ==
  TextsTyped /\ Aged /\ question \in Questions /\ steady \in BOOLEAN /\ Heard(heard)
SearchInv ==
  /\ SearchTyped /\ Full /\ FullFails
  /\ Short(heard) /\ Numbered(heard) /\ Paged(heard) /\ Listed(heard) /\ Failed(heard)

(* The walk comes by a file once.                                          *)
LEMMA PathsTyped == Paths \in Seq(ToSet(Paths)) /\ \A i, j \in 1..Len(Paths) : Paths[i] = Paths[j] => i = j
BY SearchAssumption DEF IsInjective

(* A reader asks on if it was told of more, but not in a list of files.    *)
LEMMA WantsIs ==
  ASSUME question \in Questions, NEW part
  PROVE  Wants(part) <=> question.tool # "glob" /\ Told(part)
<1>1. question.tool \in {"read", "glob", "grep"}
  BY Asked DEF Askable
<1>. QED BY <1>1 DEF Wants, Told

(* The next part keeps what holds of the parts so far.                     *)
LEMMA NextPart ==
  ASSUME SearchInv, heard # <<>> => Wants(Last(heard))
  PROVE  LET more == Append(heard, Part([question EXCEPT !.offset = @ + Len(Items(heard))]))
         IN Heard(more) /\ Short(more) /\ Numbered(more) /\ Paged(more) /\ Listed(more) /\ Failed(more)
<1> DEFINE q == question
           K == Len(Items(heard))
           r == [q EXCEPT !.offset = q.offset + K]
           P == Part(r)
           more == Append(heard, P)
<1>1. [question EXCEPT !.offset = @ + Len(Items(heard))] = r
  OBVIOUS
<1>2. /\ TextsTyped /\ q \in Questions /\ q \in Askable /\ q.offset \in Nat
      /\ q.tool \in {"read", "glob", "grep"} /\ Heard(heard) /\ \A m, n \in q.limit : m = n
      /\ heard \in Seq(ToSet(heard)) /\ q.limit \in SUBSET Nat
  BY Asked DEF SearchInv, SearchTyped, Askable, Heard
<1>3. Items(heard) \in Seq(Entries) /\ K \in Nat /\ (heard = <<>> => K = 0)
  <2>1. Heard(heard)
    BY <1>2
  <2>2. Items(heard) \in Seq(Entries) /\ (heard = <<>> => Items(heard) = <<>>)
    BY <2>1, ItemsAre
  <2>. QED BY <2>2
<1> HIDE DEF K
<1>4. r \in Askable /\ r.tool = q.tool /\ r.limit = q.limit /\ r.offset = q.offset + K /\ r.filter = q.filter
      /\ Fails(r) = Fails(q)
  <2> DEFINE o == q.offset + K
             s == [q EXCEPT !.offset = o]
  <2>1. o \in Nat /\ {} \in SUBSET Nat
    BY <1>2, <1>3
  <2> HIDE DEF o, s
  <2>2. s \in Askable /\ s.tool = q.tool /\ s.limit = q.limit /\ s.offset = o /\ s.filter = q.filter
        /\ Fails(s) = Fails(q)
    <3>1. s \in Askable /\ s.tool = q.tool /\ s.limit = q.limit /\ s.offset = o /\ Fails(s) = Fails(q)
      BY <1>2, <2>1, OtherPart DEF s
    <3>2. s.filter = q.filter
      BY <1>2 DEF s, Askable
    <3>. QED BY <3>1, <3>2
  <2>. QED BY <2>2 DEF s, o
<1> HIDE DEF r, q
<1>5. /\ P.items \in Seq(Entries)
      /\ q.tool # "glob" /\ q.limit \notin {{}, {0}} => Len(P.items) <= Given(q.limit, 0)
  <2>1. /\ Part(r).items \in Seq(Entries)
        /\ r.tool # "glob" /\ r.limit \notin {{}, {0}} => Len(Part(r).items) <= Given(r.limit, 0)
    <3>1. \A m, n \in r.limit : m = n
      BY <1>2, <1>4
    <3>. QED BY <1>2, <1>4, <3>1, PartType
  <2>. QED BY <1>4, <2>1
<1>6. q.tool = "read" => \A i \in 1..Len(P.items) : P.items[i][1] = q.offset + K + i
  BY <1>2, <1>4, NumbersAre
<1>7. steady /\ q.tool # "glob" /\ Limited =>
        /\ K <= Len(WholeOf(q)) /\ Len(WholeOf(q)) \in Nat /\ K + Len(P.items) <= Len(WholeOf(q))
        /\ \A i \in 1..Len(P.items) : P.items[i] = WholeOf(q)[K + i]
        /\ Told(P) <=> K + Len(P.items) < Len(WholeOf(q))
  <2> SUFFICES ASSUME steady, q.tool # "glob", Limited
      PROVE /\ K <= Len(WholeOf(q)) /\ Len(WholeOf(q)) \in Nat /\ K + Len(P.items) <= Len(WholeOf(q))
            /\ \A i \in 1..Len(P.items) : P.items[i] = WholeOf(q)[K + i]
            /\ Told(P) <=> K + Len(P.items) < Len(WholeOf(q))
    OBVIOUS
  <2>1. WholeOf(q) \in Seq(Entries)
    BY <1>2, WholeIs DEF q
  <2>2. Len(WholeOf(q)) \in Nat
    BY <2>1
  <2>3. K <= Len(WholeOf(q))
    <3>1. CASE heard = <<>>
      BY <1>3, <2>2, <3>1
    <3>2. CASE heard # <<>>
      BY <3>2 DEF SearchInv, Paged, K, q
    <3>. QED BY <3>1, <3>2
  <2>4. /\ K + Len(P.items) <= Len(WholeOf(q))
        /\ \A i \in 1..Len(P.items) : P.items[i] = WholeOf(q)[K + i]
        /\ (IF q.tool = "read" THEN P.items # <<>> /\ Last(P.items)[1] < P.total ELSE P.more)
             <=> K + Len(P.items) < Len(WholeOf(q))
    <3> HIDE DEF P
    <3>1. P = Part([q EXCEPT !.offset = q.offset + K])
      BY DEF P, r
    <3>2. ~(q.tool = "read" /\ q.limit = {0})
      BY DEF Limited, q
    <3>. QED BY <1>2, <1>3, <2>3, <3>1, <3>2, PartGoesOn
  <2> HIDE DEF P
  <2>. QED BY <2>2, <2>3, <2>4 DEF Told, q
<1>8. heard = <<>> /\ q.tool = "glob" =>
        /\ NewestOf(Found(q), P.items)
        /\ P.more <=> Cardinality(Found(q)) > MaxNewest
  <2> SUFFICES ASSUME q.tool = "glob"
      PROVE  /\ NewestOf(Found(q), P.items)
             /\ P.more <=> Cardinality(Found(q)) > MaxNewest
    OBVIOUS
  <2>1. P = GlobSearch(Found(q))
    <3>1. Found(r) = Found(q)
      BY <1>4 DEF Found
    <3>. QED BY <1>2, <1>4, <3>1, PartIs
  <2>2. Aged
    BY DEF SearchInv, SearchTyped
  <2>3. Found(q) \subseteq ToSet(Paths)
    BY <1>2 DEF Found, Askable
  <2> HIDE DEF P
  <2>. QED BY <2>1, <2>2, <2>3, NewestAreFirst
<1>17. P.failed <=> Fails(q)
  BY <1>2, <1>4, PartIs
<1> HIDE DEF P
<1>9. /\ Heard(more) /\ Items(more) = Items(heard) \o P.items
      /\ more # <<>> /\ Last(more) = P /\ Len(more) = Len(heard) + 1 /\ more[Len(heard) + 1] = P
      /\ \A i \in 1..Len(heard) : more[i] = heard[i]
  <2>1. Heard(heard) /\ P.items \in Seq(Entries)
    BY <1>2, <1>5
  <2>. QED BY <2>1, ItemsGrow
<1> HIDE DEF more
<1> DEFINE I == Items(heard)
           J == P.items
           M == Items(more)
<1>10. /\ I \in Seq(Entries) /\ J \in Seq(Entries) /\ Len(I) = K /\ Len(J) \in Nat
       /\ M = I \o J
  BY <1>3, <1>5, <1>9 DEF K
<1> HIDE DEF I, J, M
<1>11. /\ Len(M) = K + Len(J)
       /\ \A i \in 1..K : M[i] = I[i]
       /\ \A i \in 1..Len(J) : M[K + i] = J[i]
  <2>1. /\ Len(I \o J) = Len(I) + Len(J)
        /\ \A i \in 1..Len(I) : (I \o J)[i] = I[i]
        /\ \A i \in 1..Len(J) : (I \o J)[Len(I) + i] = J[i]
    <3>1. I \in Seq(Entries) /\ J \in Seq(Entries)
      BY <1>10
    <3>. QED BY ONLY <3>1
  <2>. QED BY <1>10, <2>1
<1>12. \A k \in 1..Len(M) : k \in 1..K \/ \E i \in 1..Len(J) : k = K + i
  <2> TAKE k \in 1..Len(M)
  <2>1. k \in Nat /\ 1 <= k /\ k <= K + Len(J)
    BY <1>3, <1>10, <1>11
  <2>2. CASE k <= K
    BY <1>3, <2>1, <2>2
  <2>3. CASE k > K
    <3>1. k - K \in 1..Len(J) /\ k = K + (k - K)
      BY <1>3, <1>10, <2>1, <2>3
    <3>. QED BY <3>1
  <2>. QED BY <1>3, <2>1, <2>2, <2>3
<1>13. Short(more)
  <2> SUFFICES ASSUME NEW i \in 1..Len(more), q.tool # "glob", q.limit \notin {{}, {0}}
      PROVE  Len(more[i].items) <= Given(q.limit, 0)
    BY DEF Short, q
  <2>1. i \in 1..Len(heard) \/ i = Len(heard) + 1
    BY <1>2, <1>9
  <2>2. CASE i \in 1..Len(heard)
    BY <1>9, <2>2 DEF SearchInv, Short, q
  <2>3. CASE i = Len(heard) + 1
    BY <1>5, <1>9, <2>3
  <2>. QED BY <2>1, <2>2, <2>3
<1>14. Numbered(more)
  <2> SUFFICES ASSUME q.tool = "read", NEW k \in 1..Len(M)
      PROVE  M[k][1] = q.offset + k
    BY DEF Numbered, q, M
  <2>1. CASE k \in 1..K
    BY <1>10, <1>11, <2>1 DEF SearchInv, Numbered, q, I, K
  <2>2. ASSUME NEW i \in 1..Len(J), k = K + i PROVE M[k][1] = q.offset + k
    <3>1. M[k] = J[i] /\ J[i][1] = q.offset + K + i
      BY <1>6, <1>11, <2>2 DEF J
    <3>2. q.offset + K + i = q.offset + (K + i)
      BY <1>2, <1>3
    <3>. QED BY <2>2, <3>1, <3>2
  <2>. QED BY <1>12, <2>1, <2>2
<1>15. Paged(more)
  <2> SUFFICES ASSUME steady, q.tool # "glob", Limited
      PROVE  /\ Len(M) <= Len(WholeOf(q))
             /\ \A i \in 1..Len(M) : M[i] = WholeOf(q)[i]
             /\ Told(Last(more)) <=> Len(M) < Len(WholeOf(q))
    BY DEF Paged, q, M
  <2>1. Len(M) <= Len(WholeOf(q)) /\ (Told(Last(more)) <=> Len(M) < Len(WholeOf(q)))
    BY <1>7, <1>9, <1>11 DEF J
  <2>2. ASSUME NEW i \in 1..Len(M) PROVE M[i] = WholeOf(q)[i]
    <3>1. CASE i \in 1..K
      <4>1. heard # <<>>
        BY <1>3, <3>1
      <4>2. \A n \in 1..Len(Items(heard)) : Items(heard)[n] = WholeOf(question)[n]
        BY <4>1 DEF SearchInv, Paged, q
      <4>. QED BY <1>10, <1>11, <3>1, <4>2 DEF I, q
    <3>2. ASSUME NEW n \in 1..Len(J), i = K + n PROVE M[i] = WholeOf(q)[i]
      BY <1>7, <1>11, <3>2 DEF J
    <3>. QED BY <1>12, <3>1, <3>2
  <2>. QED BY <2>1, <2>2
<1>16. Listed(more)
  <2> SUFFICES ASSUME q.tool = "glob"
      PROVE  /\ NewestOf(Found(q), more[1].items)
             /\ more[1].more <=> Cardinality(Found(q)) > MaxNewest
    BY DEF Listed, q
  <2>1. CASE heard = <<>>
    <3>1. Len(heard) + 1 = 1
      BY <2>1
    <3>. QED BY <1>8, <1>9, <2>1, <3>1
  <2>2. CASE heard # <<>>
    BY <1>2, <2>2, WantsIs DEF q
  <2>. QED BY <2>1, <2>2
<1>18. Failed(more)
  <2> SUFFICES ASSUME steady, NEW i \in 1..Len(more)
      PROVE  more[i].failed <=> Fails(q)
    BY DEF Failed, q
  <2>1. i \in 1..Len(heard) \/ i = Len(heard) + 1
    BY <1>2, <1>9
  <2>2. CASE i \in 1..Len(heard)
    BY <1>9, <2>2 DEF SearchInv, Failed, q
  <2>3. CASE i = Len(heard) + 1
    BY <1>9, <1>17, <2>3
  <2>. QED BY <2>1, <2>2, <2>3
<1>. QED BY <1>1, <1>9, <1>13, <1>14, <1>15, <1>16, <1>18 DEF more, P, q

(* A question without a limit fails as it does with one.                   *)
LEMMA UnlimitedFails ==
  TextsTyped /\ question \in Questions => (Part(Unlimited(question)).failed <=> Fails(question))
<1> SUFFICES ASSUME TextsTyped, question \in Questions
    PROVE  Part(Unlimited(question)).failed <=> Fails(question)
  OBVIOUS
<1> DEFINE q == question
           l == IF q.tool = "grep" THEN {0} ELSE {}
           s == [q EXCEPT !.limit = l]
<1>1. q \in Askable /\ q.offset \in Nat
  BY Asked DEF Askable
<1>2. Unlimited(question) = s /\ l \in SUBSET Nat
  BY DEF Unlimited
<1> HIDE DEF q, l, s
<1>3. s \in Askable /\ Fails(s) = Fails(q)
  BY <1>1, <1>2, OtherPart DEF s
<1>4. Part(s).failed <=> Fails(s)
  BY <1>3, PartIs
<1>. QED BY <1>2, <1>3, <1>4 DEF q

(* The invariant holds at the beginning: nothing was heard.                *)
LEMMA SearchStarts == SearchInit => SearchInv
<1> SUFFICES ASSUME SearchInit PROVE SearchInv
  OBVIOUS
<1>1. SearchTyped
  <2>1. Heard(<<>>)
    BY DEF Heard
  <2>2. Aged
    BY PathsTyped DEF SearchInit, Aged
  <2>. QED BY <2>1, <2>2 DEF SearchInit, SearchTyped, TextsTyped, Aged
<1>2. Full
  BY <1>1, WholeIs DEF SearchInit, SearchTyped, Full
<1>5. FullFails
  BY <1>1, UnlimitedFails DEF SearchInit, SearchTyped, FullFails
<1>3. heard = <<>> /\ Items(<<>>) = <<>>
  <2>1. Heard(<<>>)
    BY DEF Heard
  <2>2. Items(<<>>) = <<>>
    BY <2>1, ItemsAre
  <2>. QED BY <2>2 DEF SearchInit
<1>4. Short(heard) /\ Numbered(heard) /\ Paged(heard) /\ Listed(heard) /\ Failed(heard)
  BY <1>3 DEF Short, Numbered, Paged, Listed, Failed
<1>. QED BY <1>1, <1>2, <1>4, <1>5 DEF SearchInv

(* A file that is written is the newest, the others keep their order.      *)
LEMMA NewestBecomes ==
  ASSUME Aged, NEW p \in ToSet(Paths)
  PROVE  LET then == <<p>> \o Kept(ages, ToSet(Paths) \ {p})
         IN /\ then \in Seq(ToSet(Paths)) /\ ToSet(then) = ToSet(Paths)
            /\ \A i, j \in 1..Len(then) : then[i] = then[j] => i = j
<1> DEFINE S == ToSet(Paths)
           k == Kept(ages, S \ {p})
           then == <<p>> \o k
<1>1. ages \in Seq(S) /\ DOMAIN ages = 1..Len(ages)
  BY DEF Aged
<1>2. \A x \in S : \E i \in 1..Len(ages) : ages[i] = x
  BY <1>1 DEF Aged, ToSet
<1>3. \A i, j \in 1..Len(ages) : ages[i] = ages[j] => i = j
  BY DEF Aged
<1>4. p \in S
  OBVIOUS
<1> HIDE DEF S, k
<1>5. /\ k \in Seq(S) /\ \A x : (\E j \in 1..Len(k) : k[j] = x) <=> x \in S \ {p}
  <2>1. /\ k \in Seq(S)
        /\ \A x : (\E j \in 1..Len(k) : k[j] = x) <=>
                     x \in S \ {p} /\ \E i \in 1..Len(ages) : ages[i] = x
    BY ONLY <1>1, KeptIs DEF k
  <2>. QED BY <1>2, <2>1
<1>6. ASSUME NEW a \in 1..Len(k), NEW b \in 1..Len(k), a < b PROVE k[a] # k[b]
  <2>1. \E i, j \in 1..Len(ages) : i < j /\ ages[i] = k[a] /\ ages[j] = k[b]
    BY <1>1, <1>6, KeptOrder DEF k
  <2>. QED BY <1>1, <1>3, <2>1
<1>7. Len(k) \in Nat
  BY <1>5
<1>8. /\ then \in Seq(S) /\ Len(then) = Len(k) + 1 /\ then[1] = p
      /\ \A i \in 1..Len(k) : then[i + 1] = k[i]
  <2>1. k \in Seq(S) /\ <<p>> \in Seq(S)
    BY ONLY <1>4, <1>5
  <2>2. Len(<<p>>) = 1 /\ <<p>>[1] = p
    OBVIOUS
  <2>3. then \in Seq(S) /\ Len(then) = 1 + Len(k)
    BY ONLY <2>1, <2>2
  <2>4. \A i \in 1..Len(then) : then[i] = IF i <= 1 THEN <<p>>[i] ELSE k[i - 1]
    BY ONLY <2>1, <2>2
  <2>. HIDE DEF then
  <2>5. \A i \in 1..Len(k) : i + 1 \in 1..Len(then) /\ ~(i + 1 <= 1) /\ (i + 1) - 1 = i
    BY ONLY <1>7, <2>3
  <2>6. \A i \in 1..Len(k) : then[i + 1] = k[i]
    BY ONLY <2>4, <2>5
  <2>7. then[1] = p
    BY ONLY <1>7, <2>2, <2>3, <2>4
  <2>. QED BY ONLY <1>7, <2>3, <2>6, <2>7
<1> HIDE DEF then
<1>9. \A i \in 1..Len(then) : i = 1 \/ (i - 1 \in 1..Len(k) /\ then[i] = k[i - 1])
  <2> TAKE i \in 1..Len(then)
  <2>1. i = 1 \/ i - 1 \in 1..Len(k)
    BY <1>7, <1>8
  <2>2. i - 1 \in 1..Len(k) => then[(i - 1) + 1] = k[i - 1] /\ (i - 1) + 1 = i
    BY <1>7, <1>8
  <2>. QED BY <2>1, <2>2
<1>10. \A j \in 1..Len(k) : k[j] \in S /\ k[j] # p
  BY <1>5
<1>11. ASSUME NEW i \in 1..Len(then), NEW j \in 1..Len(then), i < j PROVE then[i] # then[j]
  <2>1. j - 1 \in 1..Len(k) /\ then[j] = k[j - 1]
    BY <1>7, <1>8, <1>9, <1>11
  <2>2. CASE i = 1
    BY <1>8, <1>10, <2>1, <2>2
  <2>3. CASE i - 1 \in 1..Len(k) /\ then[i] = k[i - 1]
    <3>1. i - 1 < j - 1
      BY <1>7, <1>8, <1>11
    <3>. QED BY <1>6, <2>1, <2>3, <3>1
  <2>. QED BY <1>9, <2>2, <2>3
<1>12. \A i, j \in 1..Len(then) : then[i] = then[j] => i = j
  <2>1. \A i, j \in 1..Len(then) : i = j \/ i < j \/ j < i
    BY <1>7, <1>8
  <2>. QED BY <1>11, <2>1
<1>13. ToSet(then) = S
  <2>1. \A x : x \in ToSet(then) <=> \E i \in 1..Len(then) : then[i] = x
    BY <1>8 DEF ToSet
  <2>2. ASSUME NEW x \in S PROVE \E i \in 1..Len(then) : then[i] = x
    <3>1. CASE x = p
      BY <1>7, <1>8, <3>1
    <3>2. CASE x # p
      <4>1. PICK j \in 1..Len(k) : k[j] = x
        BY <1>5, <3>2
      <4>2. j + 1 \in 1..Len(then) /\ then[j + 1] = x
        BY <1>7, <1>8, <4>1
      <4>. QED BY <4>2
    <3>. QED BY <3>1, <3>2
  <2>3. ASSUME NEW i \in 1..Len(then) PROVE then[i] \in S
    BY <1>8
  <2>. QED BY <2>1, <2>2, <2>3
<1>. QED BY <1>8, <1>12, <1>13 DEF S, k, then

(* Every step keeps it: the next part by the lemma before; a change of a   *)
(* file when nothing was heard changes the whole as well, and later on the *)
(* parts no longer need make a whole.                                      *)
LEMMA SearchGoesOn == SearchInv /\ [SearchNext]_searchVars => SearchInv'
<1> SUFFICES ASSUME SearchInv, [SearchNext]_searchVars PROVE SearchInv'
  OBVIOUS
<1>1. CASE Ask
  <2> DEFINE more == Append(heard, Part([question EXCEPT !.offset = @ + Len(Items(heard))]))
  <2>1. Heard(more) /\ Short(more) /\ Numbered(more) /\ Paged(more) /\ Listed(more) /\ Failed(more)
    BY <1>1, NextPart DEF Ask
  <2>2. heard' = more /\ UNCHANGED <<texts, ages, shut, question, full, steady, changes>>
    BY <1>1 DEF Ask
  <2>3. heard' # <<>>
    BY <2>1, <2>2 DEF SearchInv, SearchTyped, Heard
  <2> HIDE DEF more
  <2>4. SearchTyped'
    BY <2>1, <2>2 DEF SearchInv, SearchTyped, TextsTyped, Aged
  <2>5. /\ WholeOf(question)' = WholeOf(question) /\ Found(question)' = Found(question)
        /\ Fails(question)' = Fails(question)
    BY <2>2 DEF WholeOf, GrepAll, Files, Searched, Found, Fails, Readable
  <2>6. Full' /\ FullFails'
    BY <2>2, <2>3, <2>5 DEF SearchInv, Full, FullFails
  <2>7. Short(heard)' /\ Numbered(heard)'
    BY <2>1, <2>2 DEF Short, Numbered
  <2>8. Told(Last(heard))' <=> Told(Last(more))
    BY <2>2 DEF Told
  <2>9. Paged(heard)'
    BY <2>1, <2>2, <2>5, <2>8 DEF Paged, Limited
  <2>10. Listed(heard)'
    BY <2>1, <2>2, <2>5 DEF Listed, NewestOf, Newer
  <2>11. Failed(heard)'
    BY <2>1, <2>2, <2>5 DEF Failed
  <2>. QED BY <2>4, <2>6, <2>7, <2>9, <2>10, <2>11 DEF SearchInv
<1>2. CASE Modify
  <2>1. /\ UNCHANGED <<question, heard>> /\ steady' = (heard = <<>>)
        /\ full' = IF heard = <<>> THEN Part(Unlimited(question))' ELSE full
    BY <1>2 DEF Modify
  <2>2. \/ UNCHANGED <<texts, ages>>
        \/ \E p \in ToSet(Paths), t \in Texts :
             texts' = [texts EXCEPT ![p] = t] /\ ages' = <<p>> \o Kept(ages, ToSet(Paths) \ {p})
    BY <1>2 DEF Modify
  <2>3. TextsTyped /\ Aged /\ Heard(heard) /\ question \in Questions
    BY DEF SearchInv, SearchTyped
  <2>4. ASSUME NEW p \in ToSet(Paths), NEW t \in Texts,
               texts' = [texts EXCEPT ![p] = t], ages' = <<p>> \o Kept(ages, ToSet(Paths) \ {p})
        PROVE  TextsTyped' /\ Aged'
    <3>1. Aged'
      BY <2>3, <2>4, NewestBecomes DEF Aged
    <3>2. texts' \in [ToSet(Paths) -> Texts]
      BY <2>3, <2>4 DEF TextsTyped
    <3>. QED BY <3>1, <3>2 DEF TextsTyped, Aged
  <2>5. TextsTyped' /\ Aged'
    <3>1. CASE UNCHANGED <<texts, ages>>
      BY <2>3, <3>1 DEF TextsTyped, Aged
    <3>. QED BY <2>2, <2>4, <3>1
  <2>6. SearchTyped'
    BY <2>1, <2>3, <2>5 DEF SearchTyped
  <2>7. Full' /\ FullFails'
    <3>1. (TextsTyped /\ question \in Questions /\ question.tool # "glob" =>
             /\ Part(Unlimited(question)).items = WholeOf(question)
             /\ WholeOf(question) \in Seq(Entries))'
      BY WholeIs, PTL
    <3>2. (TextsTyped /\ question \in Questions => (Part(Unlimited(question)).failed <=> Fails(question)))'
      BY UnlimitedFails, PTL
    <3>3. CASE heard = <<>>
      <4>1. full' = Part(Unlimited(question))'
        BY <2>1, <3>3
      <4>. QED BY <2>6, <3>1, <3>2, <4>1 DEF Full, FullFails, SearchTyped
    <3>4. CASE heard # <<>>
      BY <2>1, <3>4 DEF Full, FullFails
    <3>. QED BY <3>3, <3>4
  <2>8. Short(heard)' /\ Numbered(heard)'
    BY <2>1 DEF SearchInv, Short, Numbered
  <2>9. Paged(heard)' /\ Listed(heard)' /\ Failed(heard)'
    <3>1. CASE heard = <<>>
      BY <2>1, <3>1 DEF Paged, Listed, Failed
    <3>2. CASE heard # <<>>
      BY <2>1, <3>2 DEF Paged, Listed, Failed
    <3>. QED BY <3>1, <3>2
  <2>. QED BY <2>6, <2>7, <2>8, <2>9 DEF SearchInv
<1>3. CASE UNCHANGED searchVars
  <2>1. UNCHANGED <<texts, ages, shut, question, heard, full, steady, changes>>
    BY <1>3 DEF searchVars
  <2>2. /\ WholeOf(question)' = WholeOf(question) /\ Found(question)' = Found(question)
        /\ Fails(question)' = Fails(question)
    BY <2>1 DEF WholeOf, GrepAll, Files, Searched, Found, Fails, Readable
  <2>3. SearchTyped' /\ Full' /\ FullFails'
    BY <2>1, <2>2 DEF SearchInv, SearchTyped, TextsTyped, Aged, Full, FullFails
  <2>4. Short(heard)' /\ Numbered(heard)'
    BY <2>1 DEF SearchInv, Short, Numbered
  <2>5. Told(Last(heard))' <=> Told(Last(heard))
    BY <2>1 DEF Told
  <2>6. Paged(heard)' /\ Listed(heard)' /\ Failed(heard)'
    BY <2>1, <2>2, <2>5 DEF SearchInv, Paged, Limited, Listed, Failed, NewestOf, Newer
  <2>. QED BY <2>3, <2>4, <2>6 DEF SearchInv
<1>. QED BY <1>1, <1>2, <1>3 DEF SearchNext

-----------------------------------------------------------------------------
(* All the lines a search shows are those near a match.                    *)
LEMMA ShownCovers ==
  ASSUME SearchInv, question.tool = "grep", question.mode = "content", question.offset = 0,
         full.items = WholeOf(question), ~Fails(question)
  PROVE  ToSet(full.items) =
           UNION {{<<p, n>> : n \in {m \in DOMAIN texts[p] : NearMatch(p, m)}} : p \in question.filter}
<1> DEFINE q == question
           all == GrepAll(q)
           W == full.items
<1>1. /\ TextsTyped /\ q \in Askable /\ q.offset = 0 /\ q.mode = "content"
      /\ q.filter \subseteq ToSet(Paths)
  BY Asked DEF SearchInv, SearchTyped, Askable
<1>2. all \in Seq(Entries) /\ \A e : Has(all, e) <=> \E p \in q.filter : IsNear(e, p, texts[p], q.before, q.after)
  <2> HIDE DEF q
  <2>. QED BY <1>1, GrepAllIs
<1>3. W = ApplyLimit(all, {0}, 0).items
  BY <1>1 DEF WholeOf
<1> HIDE DEF all, q, W
<1>4. /\ Len(W) = Len(all) /\ W \in Seq(Entries) /\ \A i \in 1..Len(all) : W[i] = all[i]
  <2> DEFINE limit == {0}
             offset == 0
  <2>1. limit \in SUBSET Nat /\ offset \in Nat /\ Given(limit, Default) = 0 /\ Len(all) \in Nat
    BY <1>2 DEF Given
  <2> HIDE DEF limit, offset
  <2>2. LET r == ApplyLimit(all, limit, offset)
            most == Given(limit, Default)
            left == Minus(Len(all), offset)
        IN /\ r.items \in Seq(Entries)
           /\ Len(r.items) = IF most = 0 THEN left ELSE Lower(most, left)
           /\ \A i \in 1..Len(r.items) : offset + i \in 1..Len(all) /\ r.items[i] = all[offset + i]
    BY <1>2, <2>1, ApplyIs
  <2>3. /\ W \in Seq(Entries) /\ Len(W) = Minus(Len(all), offset)
        /\ \A i \in 1..Len(W) : W[i] = all[offset + i]
    BY <1>3, <2>1, <2>2 DEF limit, offset
  <2>4. Minus(Len(all), offset) = Len(all) /\ \A i \in 1..Len(all) : offset + i = i
    BY <2>1 DEF Minus, offset
  <2>. QED BY <2>3, <2>4
<1>5. \A e : e \in ToSet(W) <=> Has(all, e)
  <2>1. ToSet(W) = {W[i] : i \in 1..Len(W)}
    BY <1>4 DEF ToSet
  <2>. QED BY <1>4, <2>1 DEF Has
<1>6. ASSUME NEW p \in q.filter, NEW e
      PROVE  IsNear(e, p, texts[p], q.before, q.after) <=>
             e \in {<<p, n>> : n \in {m \in DOMAIN texts[p] : NearMatch(p, m)}}
  <2>1. texts[p] \in Seq(Nat)
    BY <1>1, TextIs
  <2>2. DOMAIN texts[p] = 1..Len(texts[p])
    BY <2>1
  <2>. QED BY <2>2 DEF IsNear, NearMatch, q
<1>7. \A e : e \in UNION {{<<p, n>> : n \in {m \in DOMAIN texts[p] : NearMatch(p, m)}} : p \in q.filter}
        <=> \E p \in q.filter : e \in {<<p, n>> : n \in {m \in DOMAIN texts[p] : NearMatch(p, m)}}
  OBVIOUS
<1>8. ToSet(W) = UNION {{<<p, n>> : n \in {m \in DOMAIN texts[p] : NearMatch(p, m)}} : p \in q.filter}
  <2>1. \A e : Has(all, e) <=>
          \E p \in q.filter : e \in {<<p, n>> : n \in {m \in DOMAIN texts[p] : NearMatch(p, m)}}
    BY <1>2, <1>6
  <2>2. \A e : e \in ToSet(W) <=>
          e \in UNION {{<<p, n>> : n \in {m \in DOMAIN texts[p] : NearMatch(p, m)}} : p \in q.filter}
    BY <1>5, <1>7, <2>1
  <2>. QED BY <2>2
<1>. QED BY <1>8 DEF q, W

(* The parts are the beginning of the whole, or all of it.                 *)
LEMMA PartsCover ==
  ASSUME SearchInv, steady PROVE PartsMakeTheWhole
<1> SUFFICES ASSUME question.tool # "glob", heard # <<>>, Limited
    PROVE  /\ IsPrefix(Items(heard), full.items)
           /\ Wants(Last(heard)) <=> Len(Items(heard)) < Len(full.items)
  BY DEF PartsMakeTheWhole, Limited
<1> DEFINE I == Items(heard)
           W == full.items
<1>1. W = WholeOf(question) /\ W \in Seq(Entries) /\ question \in Questions
  <2>1. TextsTyped /\ question \in Questions /\ full.items = WholeOf(question)
    BY DEF SearchInv, SearchTyped, Full
  <2>. QED BY <2>1, WholeIs
<1>2. I \in Seq(Entries)
  <2>1. Heard(heard)
    BY DEF SearchInv, SearchTyped
  <2>. QED BY <2>1, ItemsAre
<1>3. Len(I) <= Len(W) /\ (\A i \in 1..Len(I) : I[i] = W[i]) /\ (Told(Last(heard)) <=> Len(I) < Len(W))
  BY <1>1 DEF SearchInv, Paged
<1>4. Wants(Last(heard)) <=> Told(Last(heard))
  BY <1>1, WantsIs
<1> HIDE DEF I, W
<1>5. Len(I) \in Nat /\ Len(W) \in Nat
  BY <1>1, <1>2
<1>6. SubSeq(I, 1, Len(I)) = SubSeq(W, 1, Len(I))
  <2>1. /\ SubSeq(I, 1, Len(I)) \in Seq(Entries) /\ Len(SubSeq(I, 1, Len(I))) = Len(I)
        /\ \A i \in 1..Len(I) : SubSeq(I, 1, Len(I))[i] = I[i]
    BY <1>2, <1>5
  <2>2. /\ SubSeq(W, 1, Len(I)) \in Seq(Entries) /\ Len(SubSeq(W, 1, Len(I))) = Len(I)
        /\ \A i \in 1..Len(I) : SubSeq(W, 1, Len(I))[i] = W[i]
    BY <1>1, <1>3, <1>5
  <2>. QED BY <1>3, <2>1, <2>2, SeqEqual
<1>7. IsPrefix(I, W)
  BY <1>3, <1>6 DEF IsPrefix
<1>. QED BY <1>3, <1>4, <1>7 DEF I, W

(* What the readers rely on follows from the invariant.                    *)
LEMMA SearchCovers == SearchInv => PagesCover
<1> SUFFICES ASSUME SearchInv PROVE PagesCover
  OBVIOUS
<1>1. question \in Questions /\ question.offset \in Nat /\ Heard(heard)
  BY Asked DEF SearchInv, SearchTyped, Askable
<1>2. steady => PartsMakeTheWhole /\ NewestAreTold /\ FailuresAreTold
  <2> SUFFICES ASSUME steady PROVE PartsMakeTheWhole /\ NewestAreTold /\ FailuresAreTold
    OBVIOUS
  <2>1. DOMAIN heard = 1..Len(heard)
    BY <1>1 DEF Heard
  <2>2. NewestAreTold
    BY DEF SearchInv, Listed, NewestAreTold
  <2>3. FailuresAreTold
    <3>1. \A i \in 1..Len(heard) : heard[i].failed <=> Fails(question)
      BY DEF SearchInv, Failed
    <3>2. \A i \in DOMAIN heard : heard[i].failed <=> Fails(question)
      BY ONLY <2>1, <3>1
    <3>. QED BY ONLY <3>2 DEF Fails, FailuresAreTold
  <2>. QED BY <2>2, <2>3, PartsCover
<1>3. DOMAIN heard = 1..Len(heard) /\ Items(heard) \in Seq(Entries)
  <2>1. Heard(heard)
    BY <1>1
  <2>2. Items(heard) \in Seq(Entries)
    BY <2>1, ItemsAre
  <2>3. heard \in Seq(ToSet(heard))
    BY <2>1 DEF Heard
  <2>. QED BY <2>2, <2>3
<1>4. \A i \in DOMAIN heard :
        question.tool # "glob" /\ question.limit \notin {{}, {0}} =>
          Len(heard[i].items) <= Given(question.limit, 0)
  BY <1>3 DEF SearchInv, Short
<1>5. question.tool = "read" =>
        \A i, j \in DOMAIN Items(heard) : i < j => Items(heard)[i][1] < Items(heard)[j][1]
  <2> SUFFICES ASSUME question.tool = "read", NEW i \in DOMAIN Items(heard), NEW j \in DOMAIN Items(heard), i < j
      PROVE  Items(heard)[i][1] < Items(heard)[j][1]
    OBVIOUS
  <2>1. i \in 1..Len(Items(heard)) /\ j \in 1..Len(Items(heard)) /\ i \in Nat /\ j \in Nat
    BY <1>3
  <2>2. Items(heard)[i][1] = question.offset + i /\ Items(heard)[j][1] = question.offset + j
    BY <2>1 DEF SearchInv, Numbered
  <2>. QED BY <1>1, <2>1, <2>2
<1>6. question.tool = "grep" /\ question.mode = "content" /\ question.offset = 0 /\ steady
      /\ ~full.failed =>
        ToSet(full.items) =
          UNION {{<<p, n>> : n \in {m \in DOMAIN texts[p] : NearMatch(p, m)}} : p \in question.filter}
  BY ShownCovers DEF SearchInv, Full, FullFails
<1>. QED BY <1>2, <1>4, <1>5, <1>6 DEF PagesCover

(* PagesCover: whatever files, limits and offsets there are, and however   *)
(* many parts a reader asks for, the parts of an answer of read_file or    *)
(* grep_search make the whole, with each entry once and in its place, and  *)
(* the reader is told of more exactly if there is; no line number is told  *)
(* twice, even if the file changes; the lines shown are those near a       *)
(* match; glob_search tells the newest, the newest first and up to its     *)
(* bound, and marks exactly if there are more; and what could not be read  *)
(* or searched fails.                                                      *)
THEOREM PartsCoverTheWhole == SearchSpec => []PagesCover
<1>1. SearchInit => SearchInv
  BY SearchStarts
<1>2. SearchInv /\ [SearchNext]_searchVars => SearchInv'
  BY SearchGoesOn
<1>3. SearchInv => PagesCover
  BY SearchCovers
<1>. QED BY <1>1, <1>2, <1>3, PTL DEF SearchSpec
=============================================================================
