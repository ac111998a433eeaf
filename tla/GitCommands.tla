---------------------------- MODULE GitCommands ----------------------------
(***************************************************************************)
(* What is committed and sent off for the user: /commit of the command line*)
(* (claw-cli/src/main.rs), which has a message written for what it staged, *)
(* and handle_commit_push_pr_slash_command (commands/src/lib.rs), which    *)
(* takes changes from the workspace to a pull request and is run again     *)
(* when one of its many steps has failed.  Each command of git and gh is a *)
(* step; several programs may be at work in one repository, and the user   *)
(* edits files and switches branches.  A change is a name; a branch is the *)
(* set of the changes committed on it.                                     *)
(***************************************************************************)
EXTENDS Naturals, Functions

CONSTANTS
  Runners,     \* programs at work in the repository
  Changes,     \* what the user may edit
  Repositories,\* [tips, origin, head]: branches, the remote's default one, the current one
  Slug,        \* the branch name made of the title or the hint
  MaxCommands  \* bound: commands given

ASSUME GitAssumption ==
  /\ MaxCommands \in Nat
  /\ \A r \in Repositories : r.head \in DOMAIN r.tips /\ r.origin \subseteq DOMAIN r.tips

VARIABLES
  tips,      \* the local branches
  head,      \* the current one
  edited,    \* changes in the workspace that are not staged
  staged,    \* the index
  origin,    \* the default branch the remote names, if it does
  remote,    \* branches of the remote
  pulls,     \* pull requests: an open or closed one per branch
  letter,    \* whose message is in claw-commit-message.txt
  run,       \* what each runner is about: [at, way, base, branch, described]
  orders,    \* commands given
  outset,    \* history: the repository as a runner's command found it
  crossed,   \* history: has somebody else been at the repository since then?
  commits    \* history: [by, holds, described, message]

gitVars == <<tips, head, edited, staged, origin, remote, pulls, letter, run, orders, outset,
             crossed, commits>>

Resting == [at |-> "told", way |-> "none", base |-> "", branch |-> "", described |-> {},
            answer |-> "none"]

GitInit ==
  /\ \E r \in Repositories : tips = r.tips /\ head = r.head /\ origin = r.origin
  /\ edited = {} /\ staged = {} /\ letter = "nobody" /\ orders \in {0, MaxCommands}
  /\ remote = [b \in origin |-> tips[b]]
  /\ pulls = [b \in {} |-> "open"]
  /\ run = [r \in Runners |-> Resting]
  /\ outset = [r \in Runners |-> [changes |-> {}, head |-> head, tips |-> tips]]
  /\ crossed = [r \in Runners |-> FALSE] /\ commits = {}

Tree == edited \cup staged

(* A step of a runner: it goes on at a place, or tells its answer.         *)
At(r, place) == run[r].at = place
To(r, place) == run' = [run EXCEPT ![r].at = place]
Tell(r, what) == run' = [run EXCEPT ![r].at = "told", ![r].answer = what]

Crossing(r) == crossed' = [s \in Runners |-> crossed[s] \/ s # r]
Repository  == <<tips, head, edited, staged, remote, pulls, letter>>
Fixed       == <<origin, orders, outset>>

Order(r, way) ==
  /\ At(r, "told") /\ orders < MaxCommands
  /\ orders' = orders + 1
  /\ run' = [run EXCEPT ![r] = [Resting EXCEPT !.way = way,
                                 !.at = IF way = "commit" THEN "status" ELSE "base"]]
  /\ outset' = [outset EXCEPT ![r] = [changes |-> Tree, head |-> head, tips |-> tips]]
  /\ crossed' = [crossed EXCEPT ![r] = \E s \in Runners \ {r} : ~At(s, "told")]
  /\ UNCHANGED <<Repository, origin, commits>>

(* Every step runs a program, which may fail.                              *)
StepFails(r) ==
  /\ run[r].at \notin {"told", "create", "view"} /\ Tell(r, "failed")
  /\ UNCHANGED <<Repository, Fixed, crossed, commits>>

-----------------------------------------------------------------------------
(* handle_commit_push_pr_slash_command, up to the commit.                  *)

(* detect_default_branch.                                                  *)
DefaultBranch ==
  IF origin # {} THEN origin
  ELSE IF "main" \in DOMAIN tips THEN {"main"}
  ELSE IF "master" \in DOMAIN tips THEN {"master"}
  ELSE {head}

DetectBase(r) ==
  /\ At(r, "base")
  /\ \E b \in DefaultBranch : run' = [run EXCEPT ![r].at = "branch", ![r].base = b]
  /\ UNCHANGED <<Repository, Fixed, crossed, commits>>

(* First, one that stays on the default branch.                            *)
AnyBranch(r)  == FALSE
MustBranch(r) == head = run[r].base

DetectBranch(r) ==
  /\ At(r, "branch")
  /\ run' = [run EXCEPT ![r].at = IF MustBranch(r) THEN "switch" ELSE "status",
                        ![r].branch = head]
  /\ UNCHANGED <<Repository, Fixed, crossed, commits>>

(* git switch -c: takes the changes along, and refuses a name in use.      *)
SwitchNew(r) ==
  /\ At(r, "switch") /\ Slug \notin DOMAIN tips
  /\ tips' = [b \in DOMAIN tips \cup {Slug} |-> IF b = Slug THEN tips[head] ELSE tips[b]]
  /\ head' = Slug
  /\ run' = [run EXCEPT ![r].at = "status", ![r].branch = Slug]
  /\ Crossing(r)
  /\ UNCHANGED <<edited, staged, remote, pulls, letter, Fixed, commits>>

-----------------------------------------------------------------------------
(* run_commit and handle_commit_slash_command.                             *)
Status(r) ==
  /\ At(r, "status")
  /\ IF run[r].way = "ship" THEN To(r, IF Tree # {} THEN "again" ELSE "diff")
     ELSE IF Tree # {} THEN To(r, "add")
     ELSE Tell(r, "skipped")
  /\ UNCHANGED <<Repository, Fixed, crossed, commits>>

(* handle_commit_slash_command looks for itself.                           *)
StatusAgain(r) ==
  /\ At(r, "again")
  /\ To(r, IF Tree # {} THEN "add" ELSE "diff")
  /\ UNCHANGED <<Repository, Fixed, crossed, commits>>

AddAll(r) ==
  /\ At(r, "add")
  /\ staged' = Tree /\ edited' = {}
  /\ To(r, IF run[r].way = "ship" THEN "commit" ELSE "describe")
  /\ Crossing(r)
  /\ UNCHANGED <<tips, head, remote, pulls, letter, Fixed, commits>>

(* The message is generated from what is staged.  First, from all that has *)
(* changed.                                                                *)
Unstaged  == Tree
DiffShown == staged

Describe(r) ==
  /\ At(r, "describe")
  /\ run' = [run EXCEPT ![r].at = "letter", ![r].described = DiffShown]
  /\ UNCHANGED <<Repository, Fixed, crossed, commits>>

(* The command line's file has one name for all.                           *)
WriteLetter(r) ==
  /\ At(r, "letter")
  /\ letter' = r
  /\ To(r, "commit")
  /\ Crossing(r)
  /\ UNCHANGED <<tips, head, edited, staged, remote, pulls, Fixed, commits>>

Commit(r) ==
  /\ At(r, "commit") /\ staged # {}
  /\ tips' = [tips EXCEPT ![head] = @ \cup staged]
  /\ staged' = {}
  /\ commits' = commits \cup
       {[by |-> r, way |-> run[r].way, holds |-> staged, described |-> run[r].described,
         message |-> IF run[r].way = "ship" THEN r ELSE letter, crossed |-> crossed[r]]}
  /\ IF run[r].way = "ship" THEN To(r, "diff") ELSE Tell(r, "created")
  /\ Crossing(r)
  /\ UNCHANGED <<head, edited, remote, pulls, letter, Fixed>>

-----------------------------------------------------------------------------
(* Up to the pull request.                                                 *)
Diff(r) ==
  /\ At(r, "diff") /\ run[r].base \in DOMAIN tips
  /\ IF tips[head] \subseteq tips[run[r].base] THEN Tell(r, "skipped") ELSE To(r, "push")
  /\ UNCHANGED <<Repository, Fixed, crossed, commits>>

Push(r) ==
  /\ At(r, "push") /\ run[r].branch \in DOMAIN tips
  /\ remote' = [b \in DOMAIN remote \cup {run[r].branch} |->
                  IF b = run[r].branch THEN tips[b] ELSE remote[b]]
  /\ To(r, "create")
  /\ Crossing(r)
  /\ UNCHANGED <<tips, head, edited, staged, pulls, letter, Fixed, commits>>

(* gh pr create refuses a branch that has an open one, and may fail.       *)
CreatePull(r) ==
  /\ At(r, "create")
  /\ \/ /\ head \in DOMAIN remote /\ (head \in DOMAIN pulls => pulls[head] # "open")
        /\ pulls' = [b \in DOMAIN pulls \cup {head} |-> IF b = head THEN "open" ELSE pulls[b]]
        /\ Tell(r, "created") /\ Crossing(r)
     \/ To(r, "view") /\ UNCHANGED <<pulls, crossed>>
  /\ UNCHANGED <<tips, head, edited, staged, remote, letter, Fixed, commits>>

ViewPull(r) ==
  /\ At(r, "view")
  /\ \/ head \in DOMAIN pulls /\ Tell(r, "existing")
     \/ Tell(r, "failed")
  /\ UNCHANGED <<Repository, Fixed, crossed, commits>>

-----------------------------------------------------------------------------
(* The user edits, switches to another branch (handle_branch_slash_command)*)
(* or closes a pull request: external but for the command.                 *)
Edit(c) ==
  /\ c \notin Tree \cup UNION Range(tips)
  /\ edited' = edited \cup {c}
  /\ UNCHANGED <<tips, head, staged, origin, remote, pulls, letter, run, orders, outset,
                 crossed, commits>>

SwitchBranch(b) ==
  /\ b \in DOMAIN tips \ {head} /\ orders < MaxCommands
  /\ head' = b /\ orders' = orders + 1
  /\ crossed' = [r \in Runners |-> TRUE]
  /\ UNCHANGED <<tips, edited, staged, origin, remote, pulls, letter, run, outset, commits>>

ClosePull(b) ==
  /\ b \in DOMAIN pulls /\ pulls[b] = "open" /\ orders < MaxCommands
  /\ pulls' = [pulls EXCEPT ![b] = "closed"] /\ orders' = orders + 1
  /\ crossed' = [r \in Runners |-> TRUE]
  /\ UNCHANGED <<tips, head, edited, staged, origin, remote, letter, run, outset, commits>>

RunnerStep(r) ==
  \/ DetectBase(r) \/ DetectBranch(r) \/ SwitchNew(r) \/ Status(r) \/ StatusAgain(r) \/ AddAll(r)
  \/ Describe(r) \/ WriteLetter(r) \/ Commit(r) \/ Diff(r) \/ Push(r) \/ CreatePull(r) \/ ViewPull(r)

GitNext ==
  \/ \E r \in Runners, way \in {"commit", "ship"} : Order(r, way)
  \/ \E r \in Runners : RunnerStep(r) \/ StepFails(r)
  \/ \E c \in Changes : Edit(c)
  \/ \E b \in DOMAIN tips : SwitchBranch(b) \/ ClosePull(b)

GitSpec == GitInit /\ [][GitNext]_gitVars

-----------------------------------------------------------------------------
(* A commit of /commit holds what its message was written for, whatever the*)
(* user edits meanwhile -- unless two programs are at it at once: there the*)
(* message may be the other one's, for both write one file.                *)
MessagesFitCommits ==
  \A c \in commits :
    c.way = "commit" /\ ~c.crossed => c.message = c.by /\ c.described = c.holds

(* Does every run of a command find the same default branch?  Without the  *)
(* remote's word and without a main or a master it is the current branch.  *)
(* (Nor may the title name the new branch so, where no user is known.)     *)
DefaultIsKnown ==
  \/ origin # {}
  \/ Slug \notin {"main", "master"} /\ {"main", "master"} \cap DOMAIN tips # {}

(* A command alone in the repository that tells of a pull request has sent *)
(* off all that was in the workspace and on the branch when it began; one  *)
(* that skips had nothing to send.  However it ended, what was there is    *)
(* still in the workspace or on its branch, the default branch is as it    *)
(* was, and when it failed it can be given again: either it did not leave  *)
(* the branch it began on or it is on one it may go on with.  (A pull      *)
(* request that exists may be a closed one, and where the default branch   *)
(* is a guess the second attempt takes the new branch for it.)             *)
ShippedIsWhole ==
  \A r \in Runners :
    run[r].way = "ship" /\ At(r, "told") /\ ~crossed[r] /\ orders > 0 =>
      LET start == outset[r] base == run[r].base answer == run[r].answer IN
        /\ answer \in {"created", "existing"} =>
             /\ start.changes \cup start.tips[start.head] \subseteq remote[run[r].branch]
             /\ run[r].branch \in DOMAIN pulls /\ run[r].branch # base
        /\ answer = "skipped" => start.changes \cup start.tips[start.head] \subseteq start.tips[base]
        /\ start.changes \subseteq Tree \cup UNION Range(tips)
        /\ answer # "failed" => tips[base] = start.tips[base]
        /\ answer = "failed" /\ DefaultIsKnown /\ base # "" =>
             head = start.head \/ head \notin DefaultBranch

(* What is in the workspace reaches its commit, its branch and its request.*)
WorkArrives == MessagesFitCommits /\ ShippedIsWhole
=============================================================================
