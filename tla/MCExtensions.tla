---------------------------- MODULE MCExtensions ----------------------------
(***************************************************************************)
(* Small instances of what extends the program: the MCP servers it talks   *)
(* to, the plugins it manages and the set of those it finds and runs.      *)
(* These share no state, and a behaviour is about one of them.             *)
(***************************************************************************)
EXTENDS McpServers, PluginStore, PluginSet

(* Two servers, whose tools collide by name with one another, and those of *)
(* one among themselves; listings with any number of pages, a frame that   *)
(* nobody asked for, or one more method.                                   *)
TwoServers == <<"alpha", "beta">>
MCNameOf == [p \in Servers \X Tools |-> IF p = <<"alpha", "add">> THEN "alpha" ELSE "shared"]
MCBudgets == {[calls |-> 2, paged |-> TRUE, unasked |-> 0],
              [calls |-> 2, paged |-> FALSE, unasked |-> 1],
              [calls |-> 3, paged |-> FALSE, unasked |-> 0]}

(* Manifests that differ from a sound one in one place.                    *)
Tool(name, text) ==
  [name |-> name, description |-> "d", command |-> text, schema |-> "object", needs |-> "read-only"]
PluginCommand(name, text) == [name |-> name, description |-> "d", command |-> text]
Sound ==
  [name |-> "p", version |-> "1", description |-> "d", defaultEnabled |-> TRUE, permissions |-> <<"read">>,
   pre |-> <<"./script">>, post |-> <<>>, init |-> <<"true", "./script">>, shutdown |-> <<"./script", "true">>,
   tools |-> <<Tool("t", "./script")>>, commands |-> <<PluginCommand("c", "true")>>]
Manifests ==
  {Sound, [Sound EXCEPT !.name = "q"], [Sound EXCEPT !.name = "q", !.tools = <<Tool("u", "true"), Tool("v", "true")>>],
   [Sound EXCEPT !.defaultEnabled = FALSE], [Sound EXCEPT !.version = ""],
   [Sound EXCEPT !.permissions = <<"", "read">>], [Sound EXCEPT !.permissions = <<"read", "read">>],
   [Sound EXCEPT !.permissions = <<"fly">>], [Sound EXCEPT !.pre = <<"">>], [Sound EXCEPT !.shutdown = <<"true", "">>],
   [Sound EXCEPT !.tools = <<Tool("t", "true"), Tool("t", "")>>], [Sound EXCEPT !.tools = <<Tool("", "true")>>],
   [Sound EXCEPT !.tools[1].schema = "text"], [Sound EXCEPT !.tools[1].needs = "all"],
   [Sound EXCEPT !.commands = <<PluginCommand("c", "true"), PluginCommand("c", "true")>>],
   [Sound EXCEPT !.commands = <<PluginCommand("", "true")>>], [Sound EXCEPT !.commands = <<PluginCommand("c", "")>>]}
Holding(kind, m) == [kind |-> kind, file |-> "json", manifest |-> m]
SomeFolders ==
  {Holding(k, m) : k \in {"bundled", "external"}, m \in Manifests}
  \cup {[kind |-> "external", file |-> "none"], [kind |-> "external", file |-> "garbled"]}
FewFolders == {Holding("external", Sound), Holding("bundled", [Sound EXCEPT !.name = "q", !.tools[1].name = "u"])}
TheFolders == {<<a, b>> : a \in SomeFolders, b \in FewFolders} \cup {<<b, a>> : a \in SomeFolders, b \in FewFolders}
TheOrder == << <<"p", "bundled">>, <<"p", "external">>, <<"q", "bundled">>, <<"q", "external">> >>
TheFlags == {<<>>, <<"p", "external">> :> TRUE,
             <<"p", "external">> :> TRUE @@ <<"q", "external">> :> TRUE @@ <<"p", "bundled">> :> FALSE}

VARIABLE about    \* servers, plugins or the set of plugins

(* What a behaviour is not about is in one state; no method begins by      *)
(* itself.                                                                 *)
OneBudget == calls = 2 /\ paged = TRUE
NoStore   == changes = 0 /\ target = "external"
NoSet     == directories = <<[kind |-> "external", file |-> "none"]>> /\ flags = <<>>
             /\ scripts = {1} /\ doing = "discover" /\ next = 1
             /\ pluginList = <<>> /\ faults = {} /\ gained = Nothing /\ ran = <<>>

TheInit ==
  /\ \/ about = "servers" /\ NoStore /\ NoSet
     \/ about = "plugins" /\ OneBudget /\ changes = MaxChanges /\ NoSet
     \/ about = "set" /\ OneBudget /\ NoStore /\ SetInit
  /\ Init /\ StoreInit

TheNext ==
  /\ UNCHANGED about
  /\ \/ about = "servers" /\ Next /\ UNCHANGED <<storeVars, setVars>>
     \/ about = "plugins" /\ StoreNext /\ UNCHANGED <<vars, setVars>>
     \/ about = "set" /\ SetNext /\ UNCHANGED <<vars, storeVars>>

TheSpec == TheInit /\ [][TheNext]_<<vars, storeVars, setVars, about>> /\ Fairness

(* What the commands on plugins leave in the files, and what the program   *)
(* makes of the directories it finds, together.                            *)
PluginsAreSound == PluginsAreConsistent /\ PluginsTakeEffect
=============================================================================
