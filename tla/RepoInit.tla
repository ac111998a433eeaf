------------------------------ MODULE RepoInit ------------------------------
(***************************************************************************)
(* claw init (claw-cli/src/init.rs): a directory and three files a project *)
(* is started with.  What is there is left alone, but that .gitignore gets *)
(* the entries it lacks.  A file is looked at first and written later, by  *)
(* emptying and filling it: another program or the user may be at it in    *)
(* between, and the program may end.  A file is a sequence of its lines.   *)
(***************************************************************************)
EXTENDS Naturals, Sequences, FiniteSets, SequencesExt

CONSTANTS
  Starters,    \* programs that may run claw init
  MarkerSets,  \* what projects may hold: sets of Markers
  Drafts,      \* files of the user: lines by the file's name
  MaxInits,    \* bound: runs of claw init
  MaxDrafts    \* bound: files the user writes

ASSUME DraftsAssumption == \A f \in DOMAIN Drafts : Drafts[f] \in Seq(STRING)

VARIABLES
  project,     \* the markers in it
  onDisk,      \* the files that are there, and their lines
  starter,     \* each program: [at, doing, lines, report, steady, alone]
  inits, drafts,
  users,       \* history: the files the user wrote last, and their lines
  touched,     \* history: files written while another looked at them, or cut short
  settled      \* history: has an init come to its end, and nobody else been there since?

initVars == <<project, onDisk, starter, inits, drafts, users, touched, settled>>

-----------------------------------------------------------------------------
(* What CLAW.md says of the markers.                                       *)
PackageMarkers == {"typescript", "next", "react", "vite", "nestjs"}    \* words in package.json
Markers ==
  {"rust/", "rust/Cargo.toml", "Cargo.toml", "pyproject.toml", "setup.py", "package.json", "tsconfig.json",
   "src/", "tests/"} \cup PackageMarkers
CanBe(m) ==
  /\ "rust/Cargo.toml" \in m => "rust/" \in m
  /\ m \cap PackageMarkers # {} => "package.json" \in m

When(test, line) == IF test THEN <<line>> ELSE <<>>
Typescript(m) == {"tsconfig.json", "typescript"} \cap m # {}
Python(m)     == {"pyproject.toml", "setup.py"} \cap m # {}
Languages(m) ==
  When({"rust/Cargo.toml", "Cargo.toml"} \cap m # {}, "Rust") \o When(Python(m), "Python")
    \o When(Typescript(m), "TypeScript") \o When(~Typescript(m) /\ "package.json" \in m, "JavaScript")
Frameworks(m) == When("next" \in m, "next") \o When("react" \in m, "react") \o When("vite" \in m, "vite")
                   \o When("nestjs" \in m, "nestjs")
Verification(m) ==
  When("rust/Cargo.toml" \in m, "cargo in rust")
    \o When("Cargo.toml" \in m /\ "rust/Cargo.toml" \notin m, "cargo in root")
    \o When("pyproject.toml" \in m, "pyproject checks")
    \o When(Python(m) /\ "pyproject.toml" \notin m, "python tests")
    \o When("package.json" \in m, "package checks") \o When({"src/", "tests/"} \subseteq m, "both surfaces")
Shape(m) == When("rust/" \in m, "has rust") \o When("src/" \in m, "has src") \o When("tests/" \in m, "has tests")
Notes(m) == When("next" \in m, "note next") \o When("react" \in m /\ "next" \notin m, "note react")
              \o When("vite" \in m, "note vite") \o When("nestjs" \in m, "note nestjs")
Titled(title, lines) == IF lines = <<>> THEN <<>> ELSE <<title>> \o lines
Guide(m) ==
  <<"# CLAW.md", "stack">> \o (IF Languages(m) = <<>> THEN <<"no language">> ELSE Languages(m))
    \o (IF Frameworks(m) = <<>> THEN <<"no framework">> ELSE Frameworks(m))
    \o Titled("verification", Verification(m)) \o Titled("shape", Shape(m)) \o Titled("notes", Notes(m))
    \o <<"agreement">>

-----------------------------------------------------------------------------
(* The steps of a run, in order.                                           *)
Artifacts == <<".claw/", ".claw.json", ".gitignore", "CLAW.md">>
Comment == "# Claw Code local artifacts"
IgnoreEntries == <<".claw/settings.local.json", ".claw/sessions/">>
Wanted == <<Comment, IgnoreEntries[1], IgnoreEntries[2]>>
WithLine(lines, line) == IF line \in Range(lines) THEN lines ELSE Append(lines, line)
WithWanted(lines) == WithLine(WithLine(WithLine(lines, Wanted[1]), Wanted[2]), Wanted[3])
Unstarted == [at |-> "resting", doing |-> 0, lines |-> <<>>, report |-> <<>>, steady |-> FALSE, alone |-> TRUE]
Exists(file) == file \in DOMAIN onDisk
PutFile(file, lines) == onDisk' = [f \in DOMAIN onDisk \cup {file} |-> IF f = file THEN lines ELSE onDisk[f]]

StarterInit ==
  /\ project \in MarkerSets
  /\ \E old \in SUBSET DOMAIN Drafts : onDisk = [f \in old |-> Drafts[f]]
  /\ users = onDisk
  /\ starter = [p \in Starters |-> Unstarted]
  /\ inits = 0 /\ drafts = 0 /\ touched = {} /\ settled = FALSE

BeginInit(p) ==
  /\ starter[p].at = "resting" /\ inits < MaxInits
  /\ starter' = [starter EXCEPT ![p] = [Unstarted EXCEPT !.at = "look", !.doing = 1, !.steady = settled]]
  /\ inits' = inits + 1
  /\ UNCHANGED <<project, onDisk, drafts, users, touched, settled>>

Artifact(p) == Artifacts[starter[p].doing]
StarterAt(p, at) == starter[p].at = at
LookedAt(file) == {p \in Starters : starter[p].at \in {"open", "fill"} /\ Artifact(p) = file}

(* An artifact is dealt with: the next one, or the report.                 *)
DealtWith(p, status) ==
  LET last == starter[p].doing = Len(Artifacts) IN
  starter' = [starter EXCEPT ![p].report = Append(@, status), ![p].doing = @ + 1,
                             ![p].at = IF last THEN "resting" ELSE "look"]

(* What a look at an artifact decides on: nothing to do, or the lines to   *)
(* write.                                                                  *)
NewLines(file) ==
  CASE file = ".claw.json" -> <<"permissions">>
    [] file = ".gitignore" -> WithWanted(IF Exists(file) THEN onDisk[file] ELSE <<>>)
    [] OTHER -> Guide(project)
IsDone(file) ==
  /\ Exists(file)
  /\ file = ".gitignore" => NewLines(file) = onDisk[file]

Ends(p) == starter[p].doing = Len(Artifacts)
LookAt(p) ==
  /\ StarterAt(p, "look") /\ Artifact(p) # ".claw/"
  /\ \/ /\ IsDone(Artifact(p)) /\ DealtWith(p, "skipped")
        /\ settled' = (settled \/ (Ends(p) /\ starter[p].alone))
        /\ UNCHANGED touched
     \/ /\ ~IsDone(Artifact(p)) /\ UNCHANGED settled
        /\ touched' = (IF LookedAt(Artifact(p)) = {} THEN touched ELSE touched \cup {Artifact(p)})
        /\ starter' = [starter EXCEPT ![p].at = "open", ![p].lines = NewLines(Artifact(p)),
                                      ![p].report = Append(@, IF Exists(Artifact(p)) THEN "updated" ELSE "created")]
  /\ UNCHANGED <<project, onDisk, inits, drafts, users>>

EnsureDir(p) ==
  /\ StarterAt(p, "look") /\ Artifact(p) = ".claw/"
  /\ DealtWith(p, IF Exists(".claw/") THEN "skipped" ELSE "created")
  /\ IF Exists(".claw/") THEN UNCHANGED onDisk ELSE PutFile(".claw/", <<>>)
  /\ UNCHANGED <<project, inits, drafts, users, touched, settled>>

(* fs::write: the file is emptied, then filled.                            *)
OpenFile(p) ==
  /\ StarterAt(p, "open")
  /\ PutFile(Artifact(p), <<>>)
  /\ starter' = [starter EXCEPT ![p].at = "fill"]
  /\ UNCHANGED <<project, inits, drafts, users, touched, settled>>

FillFile(p) ==
  /\ StarterAt(p, "fill")
  /\ PutFile(Artifact(p), starter[p].lines)
  /\ starter' = [starter EXCEPT ![p].at = IF Ends(p) THEN "resting" ELSE "look", ![p].doing = @ + 1, ![p].lines = <<>>]
  /\ settled' = (settled \/ (Ends(p) /\ starter[p].alone))
  /\ UNCHANGED <<project, inits, drafts, users, touched>>

(* A directory or a file that cannot be read, made or written ends the     *)
(* run, as does the end of the program; what it was filling stays empty.   *)
GiveUp(p) ==
  /\ ~StarterAt(p, "resting")
  /\ starter' = [starter EXCEPT ![p] = Unstarted]
  /\ touched' = (IF StarterAt(p, "fill") THEN touched \cup {Artifact(p)} ELSE touched)
  /\ settled' = (IF StarterAt(p, "fill") THEN FALSE ELSE settled)
  /\ UNCHANGED <<project, onDisk, inits, drafts, users>>

WriteDraft(file) ==
  /\ drafts < MaxDrafts
  /\ drafts' = drafts + 1
  /\ PutFile(file, Drafts[file]) /\ users' = [f \in DOMAIN users \cup {file} |-> IF f = file THEN Drafts[f] ELSE users[f]]
  /\ touched' = (IF LookedAt(file) = {} THEN touched \ {file} ELSE touched \cup {file})
  /\ settled' = FALSE
  /\ starter' = [p \in Starters |-> [starter[p] EXCEPT !.steady = FALSE, !.alone = FALSE]]
  /\ UNCHANGED <<project, inits>>

StarterNext ==
  \/ \E p \in Starters : \/ BeginInit(p) \/ EnsureDir(p) \/ LookAt(p) \/ OpenFile(p) \/ FillFile(p) \/ GiveUp(p)
  \/ \E file \in DOMAIN Drafts : WriteDraft(file)
StarterSpec == StarterInit /\ [][StarterNext]_initVars

-----------------------------------------------------------------------------
(* CLAW.md names a way to verify each language it names, but TypeScript    *)
(* without package.json; and it has a note on each framework, but React    *)
(* with Next.js.                                                           *)
GuideHelps(m) ==
  LET g == Range(Guide(m)) IN
  /\ "Rust" \in g => g \cap {"cargo in rust", "cargo in root"} # {}
  /\ "Python" \in g => g \cap {"pyproject checks", "python tests"} # {}
  /\ g \cap {"TypeScript", "JavaScript"} # {} => "package checks" \in g \/ "package.json" \notin m
  /\ \A f \in Range(Frameworks(m)) : "note " \o f \in g \/ (f = "react" /\ "note next" \in g)
  /\ {"TypeScript", "JavaScript"} \cap g # {"TypeScript", "JavaScript"}
  /\ IsInjective(Guide(m))
ASSUME GuidesHelp == \A m \in SUBSET Markers : CanBe(m) => GuideHelps(m)

(* What the user wrote stays: a file as it is, and of .gitignore the lines *)
(* in their place; once an init has come to its end, .gitignore has each   *)
(* of the entries, and no line twice but where the user wrote it twice,    *)
(* CLAW.md is there, and a further init changes nothing.  Files are        *)
(* excepted that somebody wrote between a look and the writing, or whose   *)
(* writing was cut short.                                                  *)
Filling(file) == \E p \in Starters : StarterAt(p, "fill") /\ Artifact(p) = file
FilesAreKept ==
  /\ \A f \in DOMAIN users \ touched :
       IF f = ".gitignore" THEN Filling(f) \/ IsPrefix(users[f], onDisk[f]) ELSE onDisk[f] = users[f]
  /\ \A p \in Starters :
       starter[p].steady /\ touched = {} => Range(starter[p].report) \subseteq {"skipped"}
  /\ settled /\ touched = {} =>
       /\ Range(Artifacts) \subseteq DOMAIN onDisk
       /\ ".gitignore" \notin DOMAIN users => onDisk[".gitignore"] = Wanted
       /\ Range(Wanted) \subseteq Range(onDisk[".gitignore"])
       /\ \A i, j \in DOMAIN onDisk[".gitignore"] :
            i < j /\ onDisk[".gitignore"][i] = onDisk[".gitignore"][j] =>
              ".gitignore" \in DOMAIN users /\ j <= Len(users[".gitignore"])
  /\ ("CLAW.md" \in DOMAIN onDisk /\ "CLAW.md" \notin DOMAIN users \cup touched) =>
       Filling("CLAW.md") \/ onDisk["CLAW.md"] = Guide(project)
=============================================================================
