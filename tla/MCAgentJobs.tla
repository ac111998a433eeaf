---------------------------- MODULE MCAgentJobs ----------------------------
(***************************************************************************)
(* A small instance of what runs beside the main agent: the jobs of the    *)
(* sub-agents, the files that all agents change with their tools, the      *)
(* search in files, and the heartbeat of the progress lines.  These share  *)
(* no state, and a behaviour is about one of them.                         *)
(***************************************************************************)
EXTENDS AgentJobs, SharedFiles, ProgressReports, FileSearch

Lines(a, b) == <<Entry(1, a), Entry(2, b)>>

(* Two occurrences of one text, and a text that is nowhere.                *)
TheCalls ==
  [text |-> {[tool |-> "edit", old |-> "a", val |-> v, all |-> all] : v \in {"a", "b"}, all \in BOOLEAN}
            \cup {[tool |-> "edit", old |-> "b", val |-> "c", all |-> FALSE]}
            \cup {[tool |-> "write", lines |-> Lines("b", "a")]},
   settings |-> [tool : {"config"}, key : DOMAIN Settings, val : {"true", "number", "plan"}]
            \cup [tool : {"plugin"}, key : {"plugin"}, val : {"true", "false"}],
   todos |-> [tool : {"todo"}, done : BOOLEAN, lines : {Lines("a", "b"), Lines("c", "c")}],
   notebook |-> [tool : {"replace", "insert", "delete"}, id : {0, 1, 3}, val : {"b"}]]

TheStarts ==
  [text |-> {NoFile, Whole(Lines("a", "a"))},
   settings |-> {NoFile, NoText, Whole(<<Entry("permissions", "true"), Entry("user", "true"), Entry("enabledPlugins", "true")>>)},
   todos |-> {NoFile},
   notebook |-> {Whole(Lines("a", "a"))}]

(* Two files, with no match, one, or two in a line; and what is asked of   *)
(* them, in parts and at once.                                             *)
ThePaths == <<"main", "lib">>
TheTexts == {<<>>, <<1>>, <<0, 1, 0, 2>>}
Asking(tool, limits, offsets) ==
  [tool : {tool}, path : {"main"}, limit : limits, offset : offsets, mode : {"content"},
   before : {0}, after : {0}, filter : {{"main", "lib"}}]
TheQuestions ==
  Asking("read", {{}, {0}, {1}, {3}}, {0, 2, 5}) \cup Asking("glob", {{}}, {0})
  \cup {[q EXCEPT !.mode = m, !.before = around[1], !.after = around[2]] :
          q \in Asking("grep", {{}, {0}, {1}, {3}}, {0, 1}),
          m \in {"content", "count"}, around \in {<<0, 0>>, <<1, 2>>}}
  \cup {[q EXCEPT !.filter = {"lib"}] : q \in Asking("grep", {{}}, {0})}

VARIABLE about    \* jobs, files, progress or reading

(* What a behaviour is not about is in one state; no job begins by itself. *)
NoFiles    == kind = "text" /\ disk = NoFile /\ calls = 0
NoProgress == turn = "never"
NoSearch   == question.tool = "glob" /\ shut = {} /\ texts["main"] = <<>> /\ texts["lib"] = <<>>

TheInit ==
  /\ \/ about = "jobs"     /\ NoFiles
     \/ about = "files"    /\ calls = MaxCalls
     \/ about = "progress" /\ NoFiles /\ turn = "started"
     \/ about = "reading"  /\ NoFiles
  /\ Init /\ FilesInit /\ ProgressInit /\ SearchInit
  /\ about # "progress" => NoProgress
  /\ about # "reading"  => NoSearch

TheNext ==
  /\ UNCHANGED about
  /\ \/ about = "jobs"     /\ Next /\ UNCHANGED <<fileVars, progressVars, searchVars>>
     \/ about = "files"    /\ FilesNext /\ UNCHANGED <<vars, progressVars, searchVars>>
     \/ about = "progress" /\ ProgressNext /\ UNCHANGED <<vars, fileVars, searchVars>>
     \/ about = "reading"  /\ SearchNext /\ UNCHANGED <<vars, fileVars, progressVars>>

TheSpec ==
  /\ TheInit /\ [][TheNext]_<<vars, fileVars, progressVars, searchVars, about>>
  /\ \A a \in Agents : WF_vars(LaunchStep(a)) /\ WF_vars(ThreadStep(a))
  /\ ProgressFairness

(* What is begun ends: the jobs, and the lines of a run of /ultraplan.     *)
WorkEnds == JobsEnd /\ FinishReturns
=============================================================================
