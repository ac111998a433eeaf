-------------------------- MODULE MCSavedSessions --------------------------
(***************************************************************************)
(* What the command line keeps for its user: two programs that share the   *)
(* sessions directory, two that share a repository of git, two that set up *)
(* a project, a session that is compacted again and again, and the text of *)
(* a session's file.  These share no state, and a behaviour is about one   *)
(* of them.                                                                *)
(***************************************************************************)
EXTENDS SavedSessions, GitCommands, RepoInit, Summaries, SessionText

(* A turn whose first reply calls two tools.                               *)
Shapes == {<<2>>}

(* A default branch that the remote names, one that is found by its name,  *)
(* one that must be guessed, and a start on another branch.                *)
Repo(bs, o, h) == [tips |-> [b \in bs |-> {}], origin |-> o, head |-> h]
MCRepositories ==
  {Repo({"main"}, {}, "main"), Repo({"main"}, {"main"}, "main"), Repo({"trunk"}, {}, "trunk"),
   Repo({"trunk"}, {"trunk"}, "trunk"), Repo({"main", "work"}, {"main"}, "work")}

(* Prompts, one of them in two paragraphs, a call and its result, and an   *)
(* answer that names work left to do.                                      *)
MCUtterances ==
  {Says("user", <<Plain("fix")>>, {}), Says("user", <<Plain("add"), Blank, Plain("also")>>, {}),
   Says("assistant", <<>>, {"bash"}), Says("tool", <<>>, {"bash"}),
   Says("assistant", <<Plain("done"), Plain("todo")>>, {})}

(* Messages with a quote, a backslash and a character without a letter.    *)
Holding(type, failed, texts) == [type |-> type, failed |-> failed, texts |-> texts]
TheSentences ==
  {[role |-> "user", usage |-> {},
    blocks |-> <<Holding("text", FALSE, [text |-> <<"a", Quote, Escape, "newline">>])>>],
   [role |-> "assistant", usage |-> {[input |-> 12, cache |-> 0]},
    blocks |-> <<Holding("tool_use", FALSE, [id |-> <<"1">>, name |-> <<"a">>, input |-> <<"{", Quote, "control">>])>>],
   [role |-> "tool", usage |-> {},
    blocks |-> <<Holding("tool_result", TRUE,
                         [tool_use_id |-> <<"1">>, tool_name |-> <<"a">>, output |-> <<"n", "}">>])>>]}
TheOdd == {Quote, Escape, "}", ",", "9", "d83d", "blocks"}

(* What the user may have written before an init or during it.             *)
MCMarkerSets == {{}, {"Cargo.toml", "package.json", "next", "react"}}
MCDrafts ==
  ".gitignore" :> <<"target", ".claw/sessions/">> @@ "CLAW.md" :> <<"mine">> @@ ".claw.json" :> <<"mine">>

VARIABLE about    \* sessions, git, starters, summaries or text

NoGit     == orders = MaxCommands /\ origin = {} /\ head = "main"
NoStarter == project = {} /\ users = <<>>

TheInit ==
  /\ about \in {"sessions", "git", "starters", "summaries", "text"}
  /\ Init /\ GitInit /\ StarterInit /\ SummaryInit /\ TextInit
  /\ IF about = "git" THEN orders = 0 ELSE NoGit
  /\ about # "starters" => NoStarter

TheNext ==
  /\ UNCHANGED about
  /\ \/ about = "sessions"  /\ Next /\ UNCHANGED <<gitVars, initVars, summaryVars, textVars>>
     \/ about = "git"       /\ GitNext /\ UNCHANGED <<vars, initVars, summaryVars, textVars>>
     \/ about = "starters"  /\ StarterNext /\ UNCHANGED <<vars, gitVars, summaryVars, textVars>>
     \/ about = "summaries" /\ SummaryNext /\ UNCHANGED <<vars, gitVars, initVars, textVars>>
     \/ about = "text"      /\ TextNext /\ UNCHANGED <<vars, gitVars, initVars, summaryVars>>

TheSpec == TheInit /\ [][TheNext]_<<vars, gitVars, initVars, summaryVars, textVars, about>>

Symmetry == Permutations(Programs)

(* A project's starter files keep what the user has written, a summary of  *)
(* a summary still tells of everything, and what a session's file is read  *)
(* back as is what was said.                                               *)
TextsAreKept ==
  /\ about = "starters" => FilesAreKept
  /\ about = "text" => SavedReadsBack
  /\ SummariesRemember
=============================================================================
