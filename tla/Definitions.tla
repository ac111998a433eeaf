---------------------------- MODULE Definitions ----------------------------
(***************************************************************************)
(* Agents and skills as users define them, in directories of the project   *)
(* and of the user that may be the same: what /agents and /skills list,    *)
(* with what shadows what (discover_definition_roots, discover_skill_roots *)
(* and load_..._from_roots of commands/src/lib.rs), and which file the     *)
(* Skill tool takes (resolve_skill_path of tools/src/lib.rs).              *)
(***************************************************************************)
EXTENDS Naturals, Sequences, FiniteSets, SequencesExt

CONSTANTS
  Ancestors,    \* the working directory and those around it, innermost first
  Homes,        \* what HOME may be: a path, or <<>> when it is not set
  CodexHomes,   \* the same for CODEX_HOME
  Layouts,      \* what is where: a set of entries [at, file, form, says] each,
                \* form one of dir (with a SKILL.md), md, toml, and those
                \* with a content that cannot be read: bad dir, bad toml
  Ranked,       \* the names there are, sorted
  Lower         \* lower-case form of the names that have another

VARIABLES
  listing,    \* agents or skills
  home, codexHome, layout,
  roots,      \* roots that are not read yet
  unread,     \* definitions of the root being read, not listed yet
  listed,     \* the list: [name, file, at, source, shadowed]
  active,     \* source of the definition that counts, per name
  phase,      \* asked, reading, or failed: a definition could not be read
  wanted,     \* the skill the model asks for
  taken       \* what the Skill tool found, a set of one or none

definitionVars == <<listing, home, codexHome, layout, roots, unread, listed, active, phase, wanted, taken>>

Key(name) == IF name \in DOMAIN Lower THEN Lower[name] ELSE name

-----------------------------------------------------------------------------
(* The directories that are searched, in this order.  One that is several  *)
(* of them is searched once, as the first; first, each time.               *)
Root(source, base, leaf) == [source |-> source, at |-> Append(base, leaf)]
Leaves == IF listing = "agents" THEN <<"agents">> ELSE <<"skills", "commands">>

(* For each leaf in turn, .codex before .claw.                             *)
ProjectRoots(dir) ==
  FlattenSeq([i \in DOMAIN Leaves |->
    <<Root("project codex", Append(dir, ".codex"), Leaves[i]), Root("project claw", Append(dir, ".claw"), Leaves[i])>>])
UserRoots(source, base) == [i \in DOMAIN Leaves |-> Root(source, base, Leaves[i])]

AllRoots ==
  FlattenSeq([i \in DOMAIN Ancestors |-> ProjectRoots(Ancestors[i])])
  \o (IF codexHome = <<>> THEN <<>> ELSE UserRoots("codex home", codexHome))
  \o (IF home = <<>> THEN <<>>
      ELSE UserRoots("user codex", Append(home, ".codex")) \o UserRoots("user claw", Append(home, ".claw")))

PushRoot(found, root) == Append(found, root)
Pushed(found, root) == IF \E i \in DOMAIN found : found[i].at = root.at THEN found ELSE Append(found, root)

Discovered == FoldLeft(LAMBDA found, root : Pushed(found, root), <<>>, AllRoots)

NothingRead ==
  /\ phase = "asked" /\ roots = <<>>
  /\ unread = {} /\ listed = <<>> /\ active = <<>>
  /\ wanted = "" /\ taken = {}

DefinitionInit ==
  /\ listing \in {"agents", "skills"}
  /\ home \in Homes /\ codexHome \in CodexHomes /\ layout \in Layouts
  /\ NothingRead

Discover ==
  /\ phase = "asked"
  /\ phase' = "reading" /\ roots' = Discovered
  /\ UNCHANGED <<listing, home, codexHome, layout, unread, listed, active, wanted, taken>>

-----------------------------------------------------------------------------
(* What defines something in a root, and how it is called: as it says, or  *)
(* after its file.  A directory of commands that says nothing is called    *)
(* after the file within it.                                               *)
Defines(entry) ==
  CASE listing = "agents"       -> entry.form \in {"toml", "bad toml"}
    [] Last(entry.at) = "skills" -> entry.form \in {"dir", "bad dir"}
    [] OTHER                     -> entry.form \in {"dir", "bad dir", "md"}
Bad(entry) == entry.form \in {"bad dir", "bad toml"}
NameOf(entry) ==
  IF entry.says # "" THEN entry.says
  ELSE IF Last(entry.at) = "commands" /\ entry.form = "dir" THEN "SKILL" ELSE entry.file

OpenRoot ==
  /\ phase = "reading" /\ unread = {} /\ roots # <<>>
  /\ roots' = Tail(roots)
  /\ LET found == {e \in layout : e.at = Head(roots).at /\ Defines(e)} IN
     /\ phase' = IF \E e \in found : Bad(e) THEN "failed" ELSE phase
     /\ unread' = IF phase' = "failed" THEN {} ELSE {[entry |-> e, source |-> Head(roots).source] : e \in found}
  /\ UNCHANGED <<listing, home, codexHome, layout, listed, active, wanted, taken>>

(* Within a root they are listed by name; names that differ in case only   *)
(* are the same.                                                           *)
Position(name) == SelectInSeq(Ranked, LAMBDA n : n = name)

ListNext ==
  \E d \in unread :
    /\ \A other \in unread : Position(NameOf(d.entry)) <= Position(NameOf(other.entry))
    /\ LET name == NameOf(d.entry)
           by   == IF Key(name) \in DOMAIN active THEN {active[Key(name)]} ELSE {}
       IN /\ listed' = Append(listed, [name |-> name, file |-> d.entry.file, at |-> d.entry.at,
                                       source |-> d.source, shadowed |-> by])
          /\ active' = IF by # {} THEN active
                       ELSE [n \in DOMAIN active \cup {Key(name)} |->
                               IF n \in DOMAIN active THEN active[n] ELSE d.source]
    /\ unread' = unread \ {d}
    /\ UNCHANGED <<listing, home, codexHome, layout, roots, phase, wanted, taken>>

Complete == phase = "reading" /\ roots = <<>> /\ unread = {}
Sources  == <<"project codex", "project claw", "codex home", "user codex", "user claw">>

(* The report: one group per source, and how many are active.              *)
Reported == FlattenSeq([i \in DOMAIN Sources |-> SelectSeq(listed, LAMBDA d : d.source = Sources[i])])
Counted  == {i \in DOMAIN Reported : Reported[i].shadowed = {}}

-----------------------------------------------------------------------------
(* The Skill tool looks at directories of the user only, by their names:   *)
(* in each root first one of this very name, then one that differs in case.*)
(* The last root is one user's.                                            *)
SkillRoots ==
  (IF codexHome = <<>> THEN <<>> ELSE <<Append(codexHome, "skills")>>)
  \o (IF home = <<>> THEN <<>>
      ELSE <<home \o <<".agents", "skills">>, home \o <<".config", "opencode", "skills">>,
             home \o <<".codex", "skills">>>>)
  \o << <<"", "home", "bellman", ".codex", "skills">> >>

SkillsIn(at, name) ==
  LET here == {e \in layout : e.at = at /\ e.form \in {"dir", "bad dir"}} IN
  IF \E e \in here : e.file = name THEN {e \in here : e.file = name}
  ELSE {e \in here : Key(e.file) = Key(name)}

TakeSkill(name) ==
  /\ (Complete \/ phase = "failed") /\ wanted = ""
  /\ wanted' = name
  /\ LET hits == SelectSeq(SkillRoots, LAMBDA at : SkillsIn(at, name) # {}) IN
     IF hits = <<>> THEN taken' = {}
     ELSE \E e \in SkillsIn(hits[1], name) : taken' = {e} \ {x \in layout : Bad(x)}
  /\ UNCHANGED <<listing, home, codexHome, layout, roots, unread, listed, active, phase>>

DefinitionNext == Discover \/ OpenRoot \/ ListNext \/ \E i \in DOMAIN Ranked : TakeSkill(Ranked[i])
DefinitionSpec == DefinitionInit /\ [][DefinitionNext]_definitionVars

-----------------------------------------------------------------------------
Near(at) == \* how far out the project directory of a root is
  LET n == SelectInSeq(Ancestors, LAMBDA dir : Front(at) \in {Append(dir, ".codex"), Append(dir, ".claw")})
  IN IF n = 0 THEN Len(Ancestors) + 1 ELSE n

(* Every definition of a place that is searched is listed just once,       *)
(* though the place may be the project's and the user's.  Of those with    *)
(* one name, be it in another case, just one counts; it is as near to the  *)
(* working directory as any, a project's before a user's, and the others   *)
(* tell where it is.                                                       *)
NearestCounts ==
  Complete =>
    /\ \A e \in {x \in layout : Defines(x) /\ \E i \in DOMAIN AllRoots : AllRoots[i].at = x.at} :
         Cardinality({i \in DOMAIN Reported : Reported[i].at = e.at /\ Reported[i].file = e.file
                                             /\ Reported[i].name = NameOf(e)})
           = Cardinality({x \in layout : Defines(x) /\ x.at = e.at /\ x.file = e.file /\ NameOf(x) = NameOf(e)})
    /\ \A i \in DOMAIN Reported :
         \E winner \in Counted :
           /\ Key(Reported[winner].name) = Key(Reported[i].name)
           /\ \A other \in Counted : Key(Reported[other].name) = Key(Reported[i].name) => other = winner
           /\ Near(Reported[winner].at) <= Near(Reported[i].at)
           /\ i # winner => Reported[i].shadowed = {Reported[winner].source}

IsOthers(at) == home # <<>> /\ (IsPrefix(home \o <<".agents">>, at) \/ IsPrefix(home \o <<".config">>, at))

(* The skill that the listing says counts is the one the Skill tool takes, *)
(* if it is the user's in a .codex directory and called as its directory,  *)
(* and no other tool's directory has the name: it knows no project, no     *)
(* .claw and no commands.  Nor does it know that the home directory is     *)
(* around the project, which puts it before CODEX_HOME in the listing.     *)
ListedIsTaken ==
  (Complete /\ listing = "skills" /\ wanted # "") =>
    \A i \in Counted :
      ( /\ Reported[i].source = "project codex" => codexHome \in {<<>>, Append(home, ".codex")}
        /\ Reported[i].at \in {SkillRoots[r] : r \in DOMAIN SkillRoots}
        /\ Key(wanted) = Key(Reported[i].name) /\ Key(Reported[i].file) = Key(wanted)
        /\ \A e \in layout : e.form \in {"dir", "bad dir"} => e.says = "" /\ ~IsOthers(e.at))
      => \E e \in taken : e.at = Reported[i].at

DefinitionsResolve == NearestCounts /\ ListedIsTaken
=============================================================================
