----------------------------- MODULE PluginSet -----------------------------
(***************************************************************************)
(* From directories to what plugins add (plugins/src/lib.rs): manifests    *)
(* are read and checked, plugins are found in the install root and in      *)
(* directories of the settings, put in the order of their ids, and those   *)
(* that are enabled give their tools and hooks and have their commands run *)
(* at the start and the end.  A command is nothing, a command of the shell *)
(* or the path of a script of the plugin, which may vanish.                *)
(***************************************************************************)
EXTENDS Naturals, Sequences, FiniteSets, SequencesExt

CONSTANTS
  Folders,     \* what the directories may hold, in the order they are read:
               \* each [kind, file], and a manifest if it has a file that parses
  FlagSets,    \* what enabledPlugins may say, of some ids
  IdOrder      \* the ids there are, sorted

VARIABLES
  directories,     \* the directories
  scripts,     \* those whose script is there
  flags,       \* enabledPlugins
  doing,        \* what is being done
  next,        \* the directory, or the plugin, it is at
  pluginList,    \* the plugins that were found: [id, enabled, from, hooks, init, shutdown, tools]
  faults,      \* what is wrong with the manifest that was refused
  gained,      \* what was aggregated last
  ran          \* history: lifecycle commands that ended well

setVars == <<directories, scripts, flags, doing, next, pluginList, faults, gained, ran>>

Nothing == [tools |-> <<>>, hooks |-> <<>>, failed |-> FALSE]

SetInit ==
  /\ directories \in Folders /\ scripts = DOMAIN directories
  /\ flags \in FlagSets
  /\ doing = "discover" /\ next = 1
  /\ pluginList = <<>> /\ faults = {} /\ gained = Nothing /\ ran = <<>>

-----------------------------------------------------------------------------
(* The checks of a manifest collect what is wrong, and go on; what has no  *)
(* name or the name of another is not looked at further.                   *)
EntryFaults(folder, command, kind) ==
  IF command = "" THEN {<<kind, "is empty">>}
  ELSE IF command = "./script" /\ folder \notin scripts THEN {<<kind, "is missing">>} ELSE {}
EntriesFaults(folder, commands, kind) == UNION {EntryFaults(folder, c, kind) : c \in Range(commands)}

Empty(kind, name, fields) == {<<kind, name, f>> : f \in {x \in DOMAIN fields : fields[x] = ""}}

AfterPermission(built, p) ==
  IF p = "" THEN [built EXCEPT !.faults = @ \cup {<<"permission", "is empty">>}]
  ELSE IF p \in built.seen THEN [built EXCEPT !.faults = @ \cup {<<"permission", p, "again">>}]
  ELSE [built EXCEPT !.seen = @ \cup {p},
                     !.faults = IF p \in {"read", "write", "execute"} THEN @ ELSE @ \cup {<<"permission", p, "unknown">>}]

Needs == {"read-only", "workspace-write", "danger-full-access"}
AfterTool(folder, built, tool) ==
  IF tool.name = "" THEN [built EXCEPT !.faults = @ \cup {<<"tool", "name">>}]
  ELSE IF tool.name \in built.seen THEN [built EXCEPT !.faults = @ \cup {<<"tool", tool.name, "again">>}]
  ELSE [seen   |-> built.seen \cup {tool.name},
        kept   |-> IF tool.needs \in Needs THEN Append(built.kept, tool) ELSE built.kept,
        faults |-> built.faults \cup Empty("tool", tool.name, [description |-> tool.description])
                     \cup EntryFaults(folder, tool.command, "tool")
                     \cup (IF tool.schema = "object" THEN {} ELSE {<<"tool", tool.name, "schema">>})
                     \cup (IF tool.needs \in Needs THEN {} ELSE {<<"tool", tool.name, "permission">>})]

AfterCommand(folder, built, command) ==
  IF command.name = "" THEN [built EXCEPT !.faults = @ \cup {<<"command", "name">>}]
  ELSE IF command.name \in built.seen THEN [built EXCEPT !.faults = @ \cup {<<"command", command.name, "again">>}]
  ELSE [built EXCEPT !.seen = @ \cup {command.name},
                     !.faults = @ \cup Empty("command", command.name, [description |-> command.description])
                                  \cup EntryFaults(folder, command.command, "command")]

Built == [seen |-> {}, kept |-> <<>>, faults |-> {}]
ToolsBuilt(folder, m) == FoldLeft(LAMBDA built, t : AfterTool(folder, built, t), Built, m.tools)

FaultsOf(folder, m) ==
  Empty("manifest", "", [name |-> m.name, version |-> m.version, description |-> m.description])
  \cup FoldLeft(AfterPermission, Built, m.permissions).faults
  \cup EntriesFaults(folder, m.pre \o m.post, "hook")
  \cup EntriesFaults(folder, m.init \o m.shutdown, "lifecycle command")
  \cup ToolsBuilt(folder, m).faults
  \cup FoldLeft(LAMBDA built, c : AfterCommand(folder, built, c), Built, m.commands).faults

-----------------------------------------------------------------------------
(* One directory after the other.  One without a manifest is no plugin; a  *)
(* manifest that does not parse or has a fault ends the whole discovery;   *)
(* of plugins with one id the first one stays.                             *)
Id(folder, m) == <<m.name, IF folder.kind = "bundled" THEN "bundled" ELSE "external">>
Enabled(folder, m) ==
  LET id == Id(folder, m) IN
  IF id \in DOMAIN flags THEN flags[id] ELSE folder.kind = "bundled" /\ m.defaultEnabled

(* Paths of scripts are made paths of the plugin's directory.              *)
Resolved(at, commands) == [i \in DOMAIN commands |-> [command |-> commands[i], in |-> at]]
Definition(at, m) ==
  [id |-> Id(directories[at], m), enabled |-> Enabled(directories[at], m), from |-> at,
   hooks |-> Resolved(at, m.pre \o m.post), init |-> Resolved(at, m.init), shutdown |-> Resolved(at, m.shutdown),
   tools |-> [i \in DOMAIN ToolsBuilt(at, m).kept |->
                [name |-> ToolsBuilt(at, m).kept[i].name, needs |-> ToolsBuilt(at, m).kept[i].needs,
                 command |-> Resolved(at, <<ToolsBuilt(at, m).kept[i].command>>)[1]]]]

LoadFolder ==
  /\ doing = "discover" /\ next \in DOMAIN directories
  /\ LET folder == directories[next] IN
     CASE folder.file = "none"    -> next' = next + 1 /\ UNCHANGED <<doing, pluginList, faults>>
       [] folder.file = "garbled" -> doing' = "refused" /\ UNCHANGED <<next, pluginList, faults>>
       [] OTHER ->
            IF FaultsOf(next, folder.manifest) # {}
            THEN /\ faults' = FaultsOf(next, folder.manifest) /\ doing' = "refused"
                 /\ UNCHANGED <<next, pluginList>>
            ELSE /\ pluginList' = IF \E i \in DOMAIN pluginList : pluginList[i].id = Id(folder, folder.manifest)
                                THEN pluginList ELSE Append(pluginList, Definition(next, folder.manifest))
                 /\ next' = next + 1 /\ UNCHANGED <<doing, faults>>
  /\ UNCHANGED <<directories, scripts, flags, gained, ran>>

Rank(id) == SelectInSeq(IdOrder, LAMBDA other : other = id)
Register ==
  /\ doing = "discover" /\ next \notin DOMAIN directories
  /\ pluginList' = SortSeq(pluginList, LAMBDA p, q : Rank(p.id) < Rank(q.id))
  /\ doing' = "registered" /\ next' = 0
  /\ UNCHANGED <<directories, scripts, flags, faults, gained, ran>>

-----------------------------------------------------------------------------
(* validate: the paths of a plugin, when it is used.                       *)
Works(command) == command.command # "./script" \/ command.in \in scripts
Valid(p) ==
  /\ \A c \in Range(p.hooks) \cup Range(p.init) \cup Range(p.shutdown) : Works(c)
  /\ \A t \in Range(p.tools) : Works(t.command)
Active == SelectSeq(pluginList, LAMBDA p : p.enabled)

NamedTwice(tools) == \E i, j \in DOMAIN tools : i # j /\ tools[i].name = tools[j].name
AggregateTools ==
  /\ doing = "registered"
  /\ LET tools == FlattenSeq([i \in DOMAIN Active |-> Active[i].tools]) IN
     gained' = IF (\E p \in Range(Active) : ~Valid(p)) \/ NamedTwice(tools)
               THEN [Nothing EXCEPT !.failed = TRUE] ELSE [Nothing EXCEPT !.tools = tools]
  /\ UNCHANGED <<directories, scripts, flags, doing, next, pluginList, faults, ran>>
AggregateHooks ==
  /\ doing = "registered"
  /\ gained' = IF \E p \in Range(Active) : ~Valid(p) THEN [Nothing EXCEPT !.failed = TRUE]
               ELSE [Nothing EXCEPT !.hooks = FlattenSeq([i \in DOMAIN Active |-> Active[i].hooks])]
  /\ UNCHANGED <<directories, scripts, flags, doing, next, pluginList, faults, ran>>

(* Initialization checks and starts one plugin after the other, a shutdown *)
(* stops them from the last one on, without a check; each ends at a plugin *)
(* that is not valid, or at the first command that fails.                  *)
StopOrder(plugins) == Reverse(plugins)

(* Bound: a phase that has run a command does not begin again.              *)
BeginPhase(phase) ==
  /\ doing = "registered" /\ ~\E r \in Range(ran) : r.phase = phase
  /\ doing' = phase /\ next' = 1
  /\ UNCHANGED <<directories, scripts, flags, pluginList, faults, gained, ran>>

RunPlugin(phase, plugins) ==
  /\ doing = phase /\ next \in DOMAIN plugins
  /\ LET p == plugins[next]
         all == p[phase]
         refused == phase = "init" /\ ~Valid(p)
         sound == IF refused THEN 0 ELSE Cardinality({i \in DOMAIN all : \A j \in 1..i : Works(all[j])})
     IN \E n \in 0..sound :    \* any command may fail
          /\ ran' = ran \o [i \in 1..n |-> [phase |-> phase, id |-> p.id, number |-> i]]
          /\ IF n = Len(all) /\ ~refused THEN next' = next + 1 /\ doing' = doing
             ELSE doing' = "registered" /\ next' = 0
  /\ UNCHANGED <<directories, scripts, flags, pluginList, faults, gained>>
InitializePlugin == RunPlugin("init", Active)
ShutdownPlugin   == RunPlugin("shutdown", StopOrder(Active))
EndPhase ==
  /\ doing \in {"init", "shutdown"} /\ next > Len(Active)
  /\ doing' = "registered" /\ next' = 0
  /\ UNCHANGED <<directories, scripts, flags, pluginList, faults, gained, ran>>

Vanish ==
  /\ \E at \in scripts : scripts' = scripts \ {at}
  /\ UNCHANGED <<directories, flags, doing, next, pluginList, faults, gained, ran>>

SetNext ==
  \/ LoadFolder \/ Register \/ AggregateTools \/ AggregateHooks
  \/ BeginPhase("init") \/ BeginPhase("shutdown") \/ InitializePlugin \/ ShutdownPlugin \/ EndPhase
  \/ Vanish
SetSpec == SetInit /\ [][SetNext]_setVars

-----------------------------------------------------------------------------
(* What a manifest has to be, said of the manifest as a whole.             *)
Usable(command) == command # ""
Distinct(items) == \A i, j \in DOMAIN items : items[i].name # "" /\ (items[i].name = items[j].name => i = j)
WellFormed(m) ==
  /\ "" \notin {m.name, m.version, m.description}
  /\ Range(m.permissions) \subseteq {"read", "write", "execute"} /\ IsInjective(m.permissions)
  /\ \A c \in Range(m.pre) \cup Range(m.post) \cup Range(m.init) \cup Range(m.shutdown) : Usable(c)
  /\ Distinct(m.tools) /\ Distinct(m.commands)
  /\ \A t \in Range(m.tools) : t.description # "" /\ Usable(t.command) /\ t.schema = "object" /\ t.needs \in Needs
  /\ \A c \in Range(m.commands) : c.description # "" /\ Usable(c.command)

Commands(plugins, phase, commandsOf(_)) ==
  FlattenSeq([i \in DOMAIN plugins |->
    [n \in DOMAIN commandsOf(plugins[i]) |-> [phase |-> phase, id |-> plugins[i].id, number |-> n]]])
RanIn(phase) == SelectSeq(ran, LAMBDA r : r.phase = phase)

(* Only well-formed manifests become plugins and each of those does but    *)
(* for an earlier one of its id, however many faults the checks skip; a    *)
(* plugin's tools are offered as declared, under a name of their own, and  *)
(* none of a plugin that is not enabled; plugins start in the order of     *)
(* their ids and stop in the reverse one, and nothing runs behind one that *)
(* failed.                                                                 *)
PluginsTakeEffect ==
  /\ doing = "refused" =>
       directories[next].file = "garbled" \/ ~WellFormed(directories[next].manifest) \/ next \notin scripts
  /\ \A i \in DOMAIN pluginList : WellFormed(directories[pluginList[i].from].manifest)
  /\ doing = "registered" =>
       \A at \in DOMAIN directories : directories[at].file = "json" =>
         \E p \in Range(pluginList) : p.id = Id(directories[at], directories[at].manifest) /\ p.from <= at
  /\ \A t \in Range(gained.tools) :
       \E p \in Range(pluginList) :
         /\ p.enabled
         /\ \E d \in Range(directories[p.from].manifest.tools) : d.name = t.name /\ d.needs = t.needs
         /\ \A q \in Range(Active) \ {p} : t.name \notin {x.name : x \in Range(q.tools)}
  /\ IsPrefix(RanIn("init"), Commands(Active, "init", LAMBDA p : p.init))
  /\ IsPrefix(RanIn("shutdown"), Commands(Reverse(Active), "shutdown", LAMBDA p : p.shutdown))
=============================================================================
