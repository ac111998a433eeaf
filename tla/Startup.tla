------------------------------ MODULE Startup ------------------------------
(***************************************************************************)
(* What a start of the program makes of its arguments, its settings files  *)
(* and the tools of its plugins: parse_args and run (claw-cli/src/main.rs),*)
(* ConfigLoader (runtime/src/config.rs) and GlobalToolRegistry             *)
(* (tools/src/lib.rs).  It ends in an action and the permission mode and   *)
(* tools for it, or in an error.                                           *)
(***************************************************************************)
EXTENDS Naturals, Sequences, SequencesExt

CONSTANTS
  ArgLists,    \* arguments the program is started with
  Inline,      \* the argument --flag=value as the pair of its parts
  Spelling,    \* normalized form of the names that have another one
  Tokens,      \* the tool names in a value of --allowedTools, per value
  FileSets,    \* the five settings files, each a Document or no file
  PluginTools  \* tools of the enabled plugins, each with what it requires

VARIABLES
  stage,       \* args, files, tools, done
  args,        \* the arguments
  rest,        \* the arguments not read yet
  cli,         \* what the arguments have set so far
  env,         \* CLAW_PERMISSION_MODE
  files,       \* the settings files, in the order of discover
  next,        \* the next one to load
  merged,      \* the settings merged so far
  servers,     \* the MCP servers so far, with the file each comes from
  plugins,     \* tools of the enabled plugins
  outcome      \* what the program does, or its error

startVars == <<stage, args, rest, cli, env, files, next, merged, servers, plugins, outcome>>

-----------------------------------------------------------------------------
(* JSON: an object has members, everything else is told apart as far as    *)
(* the settings are; a list has only texts or not.                         *)
JsonObject(of)   == [is |-> "object", val |-> "", of |-> of]
JsonLeaf(is, v)  == [is |-> is, val |-> v, of |-> <<>>]
IsObject(v)      == v.is = "object"
Document(v)      == [state |-> "json", root |-> v]
NoDocument(s)    == [state |-> s, root |-> JsonObject(<<>>)]   \* absent, blank, garbled
Member(v, k)     == IF IsObject(v) /\ k \in DOMAIN v.of THEN {v.of[k]} ELSE {}

RECURSIVE DeepMerge(_, _)
DeepMerge(target, source) ==
  JsonObject([k \in DOMAIN target.of \cup DOMAIN source.of |->
    IF k \notin DOMAIN source.of THEN target.of[k]
    ELSE IF k \in DOMAIN target.of /\ IsObject(target.of[k]) /\ IsObject(source.of[k])
         THEN DeepMerge(target.of[k], source.of[k])
         ELSE source.of[k]])

(* What each field of a section must be, and the fields it cannot do       *)
(* without.                                                                *)
Remote == [url |-> "text", headers |-> "map", headersHelper |-> "text", oauth |-> "mcp oauth"]
Fields ==
  [hooks |-> [PreToolUse |-> "texts", PostToolUse |-> "texts"],
   plugins |-> [enabled |-> "flags", externalDirectories |-> "texts", installRoot |-> "text",
                registryPath |-> "text", bundledRoot |-> "text"],
   sandbox |-> [enabled |-> "flag", namespaceRestrictions |-> "flag", networkIsolation |-> "flag",
                filesystemMode |-> "isolation", allowedMounts |-> "texts"],
   oauth |-> [clientId |-> "text", authorizeUrl |-> "text", tokenUrl |-> "text",
              callbackPort |-> "port", manualRedirectUrl |-> "text", scopes |-> "texts"],
   stdio |-> [command |-> "text", args |-> "texts", env |-> "map"],
   sse |-> Remote, http |-> Remote,
   ws |-> [url |-> "text", headers |-> "map", headersHelper |-> "text"],
   sdk |-> [name |-> "text"],
   proxy |-> [url |-> "text", id |-> "text"]]
Needed ==
  [hooks |-> {}, plugins |-> {}, sandbox |-> {}, oauth |-> {"clientId", "authorizeUrl", "tokenUrl"},
   stdio |-> {"command"}, sse |-> {"url"}, http |-> {"url"}, ws |-> {"url"}, sdk |-> {"name"},
   proxy |-> {"url", "id"}]
McpOauth == [clientId |-> "text", callbackPort |-> "port", authServerMetadataUrl |-> "text", xaa |-> "flag"]

All(v, is) == IsObject(v) /\ \A k \in DOMAIN v.of : v.of[k].is = is

IsA(type, v) ==
  CASE type = "map"       -> All(v, "text")
    [] type = "flags"     -> All(v, "flag")
    [] type = "isolation" -> v.is = "text" /\ v.val \in {"off", "workspace-only", "allow-list"}
    [] type = "mcp oauth" -> IsObject(v) /\ \A k \in DOMAIN v.of \cap DOMAIN McpOauth : v.of[k].is = McpOauth[k]
    [] OTHER              -> v.is = type

WellFormed(section, v) ==
  /\ IsObject(v)
  /\ Needed[section] \subseteq DOMAIN v.of
  /\ \A k \in DOMAIN v.of \cap DOMAIN Fields[section] : IsA(Fields[section][k], v.of[k])

(* A server without a type is a stdio one.                                 *)
Transport(v) == IF IsObject(v) /\ "type" \in DOMAIN v.of THEN v.of["type"].val ELSE "stdio"
ServerFits(v) == Transport(v) \in {"stdio", "sse", "http", "ws", "sdk", "proxy"} /\ WellFormed(Transport(v), v)

Labels == {"default", "plan", "read-only", "acceptEdits", "auto", "workspace-write", "dontAsk",
           "danger-full-access"}
Label(m) ==
  LET top  == {v \in Member(m, "permissionMode") : v.is = "text"}
      deep == UNION {Member(v, "defaultMode") : v \in Member(m, "permissions")} IN
  IF top # {} THEN top ELSE {v \in deep : v.is = "text"}

(* The sections of the merged settings are parsed when all files are.      *)
SectionsFit(m) ==
  /\ \A section \in {"hooks", "plugins", "sandbox", "oauth"} :
       \A v \in Member(m, section) : WellFormed(section, v)
  /\ \A v \in Member(m, "enabledPlugins") : IsA("flags", v)
  /\ \A v \in Label(m) : v.val \in Labels

-----------------------------------------------------------------------------
Modes == {"read-only", "workspace-write", "danger-full-access"}

StartInit ==
  /\ stage = "args"
  /\ args \in ArgLists /\ rest = args
  /\ env \in {"unset", "read-only", "nonsense"}
  /\ cli = [mode |-> IF env \in Modes THEN env ELSE "danger-full-access",
            version |-> FALSE, allowed |-> <<>>, words |-> <<>>, prompt |-> FALSE]
  /\ files \in FileSets /\ next = 1
  /\ merged = JsonObject(<<>>) /\ servers = <<>>
  /\ plugins \in PluginTools
  /\ outcome = [kind |-> "none"]

Concludes(o) ==
  /\ stage' = "done" /\ outcome' = o
  /\ UNCHANGED <<args, rest, cli, env, files, next, merged, servers, plugins>>

Failed == [kind |-> "error"]

(* parse_args: one argument, or a flag and its value.                      *)
ValueFlags == {"--model", "--output-format", "--permission-mode", "--allowedTools"}
Parts      == IF Head(rest) \in DOMAIN Inline THEN Inline[Head(rest)] ELSE SubSeq(rest, 1, IF Len(rest) = 1 THEN 1 ELSE 2)
Taking     == IF Head(rest) \in DOMAIN Inline THEN 1 ELSE 2

Set(flag, value) ==
  CASE flag = "--permission-mode" -> [cli EXCEPT !.mode = value]
    [] flag = "--allowedTools"    -> [cli EXCEPT !.allowed = Append(@, value)]
    [] OTHER                      -> cli

Accepted(flag, value) ==
  CASE flag = "--permission-mode" -> value \in Modes
    [] flag = "--output-format"   -> value \in {"text", "json"}
    [] OTHER                      -> TRUE

Reads(n, c) ==
  /\ rest' = SubSeq(rest, n + 1, Len(rest)) /\ cli' = c
  /\ UNCHANGED <<stage, args, env, files, next, merged, servers, plugins, outcome>>

ReadArg ==
  /\ stage = "args" /\ rest # <<>>
  /\ CASE Head(rest) \in ValueFlags \cup DOMAIN Inline ->
            IF Len(Parts) = 2 /\ Accepted(Parts[1], Parts[2]) THEN Reads(Taking, Set(Parts[1], Parts[2]))
            ELSE Concludes(Failed)
       [] Head(rest) = "--version" -> Reads(1, [cli EXCEPT !.version = TRUE])
       [] Head(rest) = "--print"   -> Reads(1, cli)
       [] Head(rest) = "--dangerously-skip-permissions" -> Reads(1, [cli EXCEPT !.mode = "danger-full-access"])
       [] Head(rest) = "-p" ->
            IF Len(rest) = 1 THEN Concludes(Failed)
            ELSE Reads(Len(rest), [cli EXCEPT !.prompt = TRUE, !.version = FALSE])
       [] OTHER -> Reads(1, [cli EXCEPT !.words = Append(@, Head(rest))])

(* The settings and the plugins are loaded for every command but one.      *)
ArgsRead ==
  /\ stage = "args" /\ rest = <<>>
  /\ IF cli.version THEN Concludes([kind |-> "version"])
     ELSE stage' = "files" /\ UNCHANGED <<args, rest, cli, env, files, next, merged, servers, plugins, outcome>>

-----------------------------------------------------------------------------
(* ConfigLoader::load, file by file: .claw.json of the user, settings.json *)
(* of the user, .claw.json, settings.json and settings.local.json of the   *)
(* project.  The two .claw.json are passed over when they do not parse.    *)
Legacy(i) == i \in {1, 3}

Loads(m, s) ==
  /\ merged' = m /\ servers' = s /\ next' = next + 1
  /\ UNCHANGED <<stage, args, rest, cli, env, files, plugins, outcome>>

Servers(root) == UNION {DOMAIN v.of : v \in Member(root, "mcpServers")}
ServersFit(root) ==
  \A v \in Member(root, "mcpServers") : IsObject(v) /\ \A name \in DOMAIN v.of : ServerFits(v.of[name])

(* merge_mcp_servers: a later file's server replaces an earlier one's of   *)
(* the same name.  First, one that does not.                               *)
WithNewServers(root) ==
  servers @@ [name \in Servers(root) |->
                [from |-> next, config |-> root.of["mcpServers"].of[name]]]
WithServers(root) ==
  [name \in DOMAIN servers \cup Servers(root) |->
     IF name \in Servers(root)
     THEN [from |-> next, config |-> root.of["mcpServers"].of[name]]
     ELSE servers[name]]

LoadFile ==
  /\ stage = "files" /\ next <= Len(files)
  /\ LET file == files[next] IN
     CASE file.state \in {"absent", "blank"} -> Loads(merged, servers)
       [] file.state = "garbled" \/ ~IsObject(file.root) ->
            IF Legacy(next) THEN Loads(merged, servers) ELSE Concludes(Failed)
       [] OTHER -> IF ServersFit(file.root) THEN Loads(DeepMerge(merged, file.root), WithServers(file.root))
                   ELSE Concludes(Failed)

FilesLoaded ==
  /\ stage = "files" /\ next > Len(files)
  /\ IF SectionsFit(merged)
     THEN stage' = "tools" /\ UNCHANGED <<args, rest, cli, env, files, next, merged, servers, plugins, outcome>>
     ELSE Concludes(Failed)

-----------------------------------------------------------------------------
(* mvp_tool_specs: the tools of the program and what each requires.        *)
BuiltIn ==
  [t \in {"read_file", "glob_search", "grep_search", "WebFetch", "WebSearch", "Skill", "ToolSearch",
          "Sleep", "SendUserMessage", "StructuredOutput"} |-> "read-only"]
  @@ [t \in {"write_file", "edit_file", "TodoWrite", "NotebookEdit", "Config"} |-> "workspace-write"]
  @@ [t \in {"bash", "Agent", "REPL", "PowerShell"} |-> "danger-full-access"]

(* with_plugin_tools: only names that are the same to the letter conflict. *)
Conflict ==
  \/ \E i \in DOMAIN plugins : plugins[i].name \in DOMAIN BuiltIn
  \/ \E i, j \in DOMAIN plugins : i # j /\ plugins[i].name = plugins[j].name

Names  == DOMAIN BuiltIn \cup {plugins[i].name : i \in DOMAIN plugins}
Normal(name) == IF name \in DOMAIN Spelling THEN Spelling[name] ELSE name

Aliases == [read |-> "read_file", write |-> "write_file", edit |-> "edit_file", glob |-> "glob_search",
            grep |-> "grep_search"]

(* normalize_allowed_tools: an alias comes before a tool of the same name, *)
(* and of the tools with one normalized name the last plugin's is meant.   *)
PluginMeant(token) ==
  SelectLastInSeq(plugins, LAMBDA tool : Normal(tool.name) = Normal(token))

Meant(token) ==
  IF Normal(token) \in DOMAIN Aliases THEN {Aliases[Normal(token)]}
  ELSE IF PluginMeant(token) # 0 THEN {plugins[PluginMeant(token)].name}
  ELSE {t \in DOMAIN BuiltIn : Normal(t) = Normal(token)}

Named == UNION {Tokens[value] : value \in ToSet(cli.allowed)}

Offered == IF cli.allowed = <<>> THEN Names ELSE UNION {Meant(token) : token \in Named}

(* The rest of parse_args: which command the words are.                    *)
Runs(kind) == [kind |-> kind, mode |-> cli.mode, tools |-> Offered]
Commands   == {"dump-manifests", "bootstrap-plan", "agents", "skills", "system-prompt", "login", "logout", "init"}
Direct     == {"/help", "/agents", "/skills"}
Slash      == Direct \cup {"/status"}     \* the others cannot be given here

Dispatch(words) ==
  IF words = <<>> THEN Runs("repl") ELSE
  CASE words[1] \in {"--help", "-h"} \cup Direct -> [kind |-> "help"]
    [] words[1] \in Slash \ Direct -> Failed
    [] words[1] \in Commands       -> [kind |-> "command"]
    [] words[1] = "--resume" ->
         IF Len(words) > 1 /\ \A i \in 3..Len(words) : words[i] \in Slash THEN [kind |-> "resume"] ELSE Failed
    [] words[1] = "prompt" -> IF Len(words) = 1 THEN Failed ELSE Runs("prompt")
    [] OTHER -> Runs("prompt")

ToolsKnown ==
  /\ stage = "tools"
  /\ Concludes(IF Conflict \/ \E token \in Named : Meant(token) = {} THEN Failed
          ELSE IF cli.prompt THEN Runs("prompt") ELSE Dispatch(cli.words))

StartNext == ReadArg \/ ArgsRead \/ LoadFile \/ FilesLoaded \/ ToolsKnown
StartSpec == StartInit /\ [][StartNext]_startVars
-----------------------------------------------------------------------------
(* All places of a document, with what is there.                           *)
RECURSIVE Places(_, _)
Places(v, path) ==
  UNION {{[path |-> Append(path, k), is |-> v.of[k].is, val |-> v.of[k].val]} \cup
         Places(v.of[k], Append(path, k)) : k \in DOMAIN v.of}
Loaded == {i \in 1..(next - 1) : files[i].state = "json" /\ IsObject(files[i].root)}

(* A setting is what the last file that says something of its place says:  *)
(* it is gone when a later file has anything at that place, or something   *)
(* that is no object at a place around it.  An MCP server is whole from    *)
(* the last file that names it, also when the merged settings have a mix,  *)
(* and keeps the source of that file.                                      *)
SettingsByPrecedence ==
  /\ {l \in Places(merged, <<>>) : l.is # "object"} =
       UNION {{l \in Places(files[i].root, <<>>) :
                 /\ l.is # "object"
                 /\ \A j \in {n \in Loaded : n > i} : \A m \in Places(files[j].root, <<>>) :
                      ~(m.path = l.path \/ (m.is # "object" /\ IsPrefix(m.path, l.path)))} : i \in Loaded}
  /\ DOMAIN servers = UNION {Servers(files[i].root) : i \in Loaded}
  /\ \A name \in DOMAIN servers :
       LET from == servers[name].from IN
       /\ from \in Loaded /\ \A i \in Loaded : name \in Servers(files[i].root) => i <= from
       /\ files[from].root.of["mcpServers"].of[name] = servers[name].config

(* The arguments that are the value of the one before, and where the text  *)
(* of -p begins.                                                           *)
IsValue[i \in 1..Len(args)] == i > 1 /\ args[i - 1] \in ValueFlags /\ ~IsValue[i - 1]
Read == {i \in DOMAIN args : ~IsValue[i] /\ \A j \in 1..(i - 1) : args[j] = "-p" => IsValue[j]}

ModeAt(i) ==
  IF args[i] = "--permission-mode" THEN {args[i + 1]}
  ELSE IF args[i] = "--dangerously-skip-permissions" THEN {"danger-full-access"}
  ELSE IF args[i] \in DOMAIN Inline /\ Inline[args[i]][1] = "--permission-mode" THEN {Inline[args[i]][2]}
  ELSE {}
Asked == {i \in Read : ModeAt(i) # {}}

(* A turn runs in the permission mode the last argument for it asks for,   *)
(* wherever it stands before -p, behind which all is text, or in the one   *)
(* of the environment, and else with full access.  It is offered all tools *)
(* when none are named; else no tool that was not named, and every one     *)
(* whose name was given, unless the name is an alias or has the normalized *)
(* form of another tool's.                                                 *)
AskedIsGranted ==
  outcome.kind \in {"repl", "prompt"} =>
    /\ IF Asked = {} THEN outcome.mode = IF env \in Modes THEN env ELSE "danger-full-access"
       ELSE \E i \in Asked : (\A j \in Asked : j <= i) /\ ModeAt(i) = {outcome.mode}
    /\ LET tokens == UNION {Tokens[args[i + 1]] : i \in {j \in Read : args[j] = "--allowedTools"}} IN
       IF tokens = {} THEN outcome.tools = Names
       ELSE /\ \A t \in outcome.tools : \E token \in tokens :
                 \/ Normal(token) = Normal(t)
                 \/ Normal(token) \in DOMAIN Aliases /\ t = Aliases[Normal(token)]
            /\ \A t \in Names \cap tokens :
                 t \in outcome.tools \/ Normal(t) \in DOMAIN Aliases
                 \/ \E other \in Names \ {t} : Normal(other) = Normal(t)

(* A start with any arguments in any order and any settings files ends in  *)
(* what both ask for.                                                      *)
StartsAsAsked == SettingsByPrecedence /\ AskedIsGranted
=============================================================================
