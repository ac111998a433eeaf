---------------------------- MODULE PluginStore ----------------------------
(***************************************************************************)
(* The plugin manager (plugins/src/lib.rs) and the /plugins command that   *)
(* drives it.  A plugin is kept in three places: its files in the install  *)
(* root, a record in the registry file, a flag in the settings file.  Each *)
(* command changes them one after the other and may fail, or end with the  *)
(* program, at any of these steps; the next command starts from whatever   *)
(* the files hold.  Listing, which every start of the program does too,    *)
(* first brings the bundled plugins up to date.                            *)
(***************************************************************************)
EXTENDS Naturals

CONSTANTS
  External,    \* plugins installed from a source of their own
  Bundled,     \* plugins shipped with the program
  MaxVersion,  \* bound: versions of a plugin
  MaxChanges   \* bound: commands begun

Plugins == External \cup Bundled

ASSUME StoreAssumption ==
  /\ External \cap Bundled = {}
  /\ MaxVersion \in Nat \ {0} /\ MaxChanges \in Nat

VARIABLES
  shipped,     \* the version at a plugin's source, or 0
  folders,     \* the directory of a plugin
  registry,    \* the registry file: the version recorded, or 0
  settings,    \* enabledPlugins of the settings file
  torn,        \* which of the two files cannot be parsed
  place,       \* where the command is
  command,     \* list, install, enable, disable, uninstall, update
  target,      \* the plugin it is about
  copy,        \* the registry in memory
  waiting,     \* bundled plugins still to be looked at
  changed,     \* does the sync have to store the registry?
  enabled,     \* config.enabled_plugins
  changes,     \* bound: commands left
  current,     \* history: was the last thing done a listing that succeeded?
  wanted,      \* history: the flag the last command that succeeded gave
  spoiled,     \* history: plugins a command failed on, and not mended since
  interrupted  \* history: bundled plugins an update of theirs failed on

disk         == <<folders, registry, settings, torn>>
inMemory     == <<command, target, copy, waiting, changed, enabled>>
storeHistory == <<wanted, spoiled, interrupted>>
storeVars    == <<shipped, disk, place, inMemory, changes, current, storeHistory>>

-----------------------------------------------------------------------------
(* A directory: absent, without a manifest, with one that does not load,   *)
(* one that loads although files are missing, or all there.                *)
Directory(state, v) == [state |-> state, version |-> v]
NoFiles   == Directory("none", 0)
Bare      == Directory("bare", 0)
Broken    == Directory("broken", 0)
Hollow(v) == Directory("hollow", v)
Whole(v)  == Directory("whole", v)
Loadable(d)  == d.state \in {"hollow", "whole"}

(* What remove_dir_all and copy_dir_all may leave when they fail, or when  *)
(* the program ends in them or right after them.                           *)
HalfRemoved(d) ==
  IF d = NoFiles THEN {d} ELSE {d, Bare, Broken} \cup (IF Loadable(d) THEN {Hollow(d.version)} ELSE {})
HalfCopied(v) == {NoFiles, Bare, Broken, Hollow(v), Whole(v)}

NoRecords == [p \in Plugins |-> 0]
Unset == [p \in Plugins |-> "unset"]

StoreInit ==
  /\ shipped = [p \in Plugins |-> 1]
  /\ folders = [p \in Plugins |-> NoFiles] /\ registry = NoRecords
  /\ settings = Unset /\ torn = {}
  /\ place = "idle" /\ command = "list" /\ target \in Plugins
  /\ copy = NoRecords /\ waiting = {} /\ changed = FALSE /\ enabled = Unset
  /\ changes \in {0, MaxChanges} /\ current = FALSE
  /\ wanted = Unset /\ spoiled = {} /\ interrupted = {}

(* The command line builds a manager from the settings for each command.   *)
BeginCommand(c, p) ==
  /\ place = "idle" /\ changes > 0 /\ "settings" \notin torn
  /\ c = "install" => p \in External
  /\ changes' = changes - 1 /\ current' = FALSE
  /\ command' = c /\ target' = p /\ enabled' = settings
  /\ place' = CASE c \in {"list", "enable", "disable"} -> "sync"
             [] c = "install" -> "source"
             [] OTHER -> "load"
  /\ UNCHANGED <<shipped, disk, copy, waiting, changed, storeHistory>>

(* A command that gives up: what it has changed stays changed.             *)
GiveUp(spoils) ==
  /\ place' = "idle"
  /\ spoiled' = spoiled \cup spoils
  /\ UNCHANGED <<shipped, inMemory, changes, current, wanted>>

(***************************************************************************)
(* install, update and uninstall                                           *)
(***************************************************************************)
(* materialize_source and its manifest.                                    *)
FindSource ==
  /\ place = "source" /\ shipped[target] # 0
  /\ place' = "replace"
  /\ UNCHANGED <<shipped, disk, inMemory, changes, current, storeHistory>>

SourceFails ==
  /\ place = "source"
  /\ GiveUp({})
  /\ UNCHANGED <<disk, interrupted>>

(* The old directory is removed and the source copied in its place, which  *)
(* mends what an earlier update left.                                      *)
Replace ==
  /\ place = "replace"
  /\ folders' = [folders EXCEPT ![target] = Whole(shipped[target])]
  /\ copy' = IF command = "update" THEN [copy EXCEPT ![target] = shipped[target]] ELSE copy
  /\ place' = IF command = "update" THEN "store" ELSE "load"
  /\ interrupted' = interrupted \ {target}
  /\ UNCHANGED <<shipped, registry, settings, torn, command, target, waiting, changed,
                 enabled, changes, current, wanted, spoiled>>

ReplaceFails ==
  /\ place = "replace"
  /\ \E d \in HalfRemoved(folders[target]) \cup HalfCopied(shipped[target]) :
       folders' = [folders EXCEPT ![target] = d]
  /\ interrupted' = interrupted \cup ({target} \cap Bundled)
  /\ GiveUp({target})
  /\ UNCHANGED <<registry, settings, torn>>

(* load_registry: first for an update and an uninstall, which need the     *)
(* record; after its files are there for an install.                       *)
Recorded(v) == [registry EXCEPT ![target] = v]

LoadRegistry ==
  /\ place = "load" /\ "registry" \notin torn
  /\ \/ command = "install" /\ copy' = Recorded(folders[target].version) /\ place' = "store"
     \/ command = "update" /\ registry[target] # 0 /\ copy' = registry /\ place' = "source"
     \/ command = "uninstall" /\ registry[target] # 0 /\ target \notin Bundled
          /\ copy' = Recorded(0) /\ place' = "remove"
  /\ UNCHANGED <<shipped, disk, command, target, waiting, changed, enabled, changes,
                 current, storeHistory>>

LoadRegistryFails ==
  /\ place = "load"
  /\ \/ "registry" \in torn
     \/ command # "install" /\ registry[target] = 0
     \/ command = "uninstall" /\ target \in Bundled
  /\ GiveUp(IF command = "install" THEN {target} ELSE {})
  /\ UNCHANGED <<disk, interrupted>>

RemoveFiles ==
  /\ place = "remove"
  /\ folders' = [folders EXCEPT ![target] = NoFiles]
  /\ place' = "store"
  /\ UNCHANGED <<shipped, registry, settings, torn, inMemory, changes, current, storeHistory>>

RemoveFilesFails ==
  /\ place = "remove"
  /\ \E d \in HalfRemoved(folders[target]) : folders' = [folders EXCEPT ![target] = d]
  /\ GiveUp({target})
  /\ UNCHANGED <<registry, settings, torn, interrupted>>

(* store_registry, for a command.                                          *)
StoreRegistry ==
  /\ place = "store"
  /\ registry' = copy
  /\ place' = IF command = "update" THEN "sync" ELSE "settings"
  /\ UNCHANGED <<shipped, folders, settings, torn, inMemory, changes, current, storeHistory>>

(* A write that fails leaves the file as it was, empty -- which is read as *)
(* a registry without records -- or cut off.                               *)
WriteRegistryFails(spoils) ==
  \/ UNCHANGED <<registry, torn>> /\ GiveUp(spoils)
  \/ registry' = NoRecords /\ torn' \in {torn, torn \cup {"registry"}} /\ GiveUp(Plugins)

StoreRegistryFails ==
  /\ place = "store"
  /\ WriteRegistryFails({target})
  /\ UNCHANGED <<folders, settings, interrupted>>

(* write_enabled_state, then the flag in memory.                           *)
Flag == CASE command = "disable" -> "off"
          [] command = "uninstall" -> "unset"
          [] OTHER -> "on"

(* An install and an uninstall mend what an earlier failure left.          *)
WriteSettings ==
  /\ place = "settings"
  /\ settings' = [settings EXCEPT ![target] = Flag]
  /\ enabled' = [enabled EXCEPT ![target] = Flag]
  /\ wanted' = [wanted EXCEPT ![target] = Flag]
  /\ spoiled' = IF command \in {"install", "uninstall"} THEN spoiled \ {target} ELSE spoiled
  /\ place' = IF command = "install" THEN "sync" ELSE "idle"
  /\ UNCHANGED <<shipped, folders, registry, torn, command, target, copy, waiting, changed,
                 changes, current, interrupted>>

WriteSettingsFails ==
  /\ place = "settings"
  /\ \/ UNCHANGED <<settings, torn>> /\ GiveUp({target})
     \/ settings' = Unset /\ torn' \in {torn, torn \cup {"settings"}} /\ GiveUp(Plugins)
  /\ UNCHANGED <<folders, registry, interrupted>>

(***************************************************************************)
(* sync_bundled_plugins                                                    *)
(***************************************************************************)
(* The plugins of the bundled root.  The code looks at them in the order   *)
(* of their directories; here, in any.                                     *)
Shipped == {p \in Bundled : shipped[p] # 0}

BeginSync ==
  /\ place = "sync" /\ "registry" \notin torn
  /\ copy' = registry /\ changed' = FALSE /\ waiting' = Shipped
  /\ place' = "bundled"
  /\ UNCHANGED <<shipped, disk, command, target, enabled, changes, current, storeHistory>>

(* First, a test that trusts a copy that loads, whatever its version.      *)
UnlessLoads(p) == copy[p] = 0 \/ ~Loadable(folders[p])
NeedsSync(p) == copy[p] # shipped[p] \/ ~Loadable(folders[p])

SyncPlugin ==
  /\ place = "bundled"
  /\ \E p \in waiting :
       /\ IF NeedsSync(p)
            THEN /\ folders' = [folders EXCEPT ![p] = Whole(shipped[p])]
                 /\ copy' = [copy EXCEPT ![p] = shipped[p]]
                 /\ changed' = TRUE
                 /\ interrupted' = interrupted \ {p}
            ELSE UNCHANGED <<folders, copy, changed, interrupted>>
       /\ waiting' = waiting \ {p}
  /\ UNCHANGED <<shipped, registry, settings, torn, place, command, target, enabled,
                 changes, current, wanted, spoiled>>

(* Records of bundled plugins that are no longer shipped go, files first.  *)
StaleBundled == {p \in Bundled : copy[p] # 0 /\ shipped[p] = 0}

DropStale ==
  /\ place = "bundled" /\ waiting = {}
  /\ folders' = [p \in Plugins |-> IF p \in StaleBundled THEN NoFiles ELSE folders[p]]
  /\ copy' = [p \in Plugins |-> IF p \in StaleBundled THEN 0 ELSE copy[p]]
  /\ place' = IF changed \/ StaleBundled # {} THEN "sync store" ELSE "discover"
  /\ UNCHANGED <<shipped, registry, settings, torn, command, target, waiting, changed,
                 enabled, changes, current, storeHistory>>

(* Any of these steps may fail, before the registry is stored.             *)
SyncFails ==
  \/ /\ place = "sync" /\ "registry" \in torn
     /\ GiveUp({}) /\ UNCHANGED disk
  \/ /\ place = "bundled"
     /\ \E p \in waiting : \E d \in HalfRemoved(folders[p]) \cup HalfCopied(shipped[p]) :
          NeedsSync(p) /\ folders' = [folders EXCEPT ![p] = d]
     /\ GiveUp({}) /\ UNCHANGED <<registry, settings, torn>>
  \/ /\ place = "bundled" /\ waiting = {}
     /\ \E p \in StaleBundled, gone \in SUBSET StaleBundled : \E d \in HalfRemoved(folders[p]) :
          folders' = [q \in Plugins |-> IF q = p THEN d ELSE IF q \in gone THEN NoFiles ELSE folders[q]]
     /\ GiveUp({}) /\ UNCHANGED <<registry, settings, torn>>

StoreSync ==
  /\ place = "sync store"
  /\ registry' = copy
  /\ place' = "discover"
  /\ UNCHANGED <<shipped, folders, settings, torn, inMemory, changes, current, storeHistory>>

StoreSyncFails ==
  /\ place = "sync store"
  /\ WriteRegistryFails({})
  /\ UNCHANGED <<folders, settings>>

(***************************************************************************)
(* discover_installed_plugins: every directory with a manifest must load;  *)
(* records without one are removed.                                        *)
(***************************************************************************)
StaleRecords == {p \in Plugins : registry[p] # 0 /\ folders[p].state \in {"none", "bare"}}
Pruned == [p \in Plugins |-> IF p \in StaleRecords THEN 0 ELSE registry[p]]

(* A flag is then written for a plugin that was found; the directory of a  *)
(* bundled plugin without a record is found under another name.            *)
Found(p) == Loadable(folders[p]) /\ (p \in Bundled => registry[p] # 0)

Discover ==
  /\ place = "discover"
  /\ \A p \in Plugins : folders[p].state # "broken"
  /\ registry' = Pruned
  /\ current' = (command \notin {"enable", "disable"})
  /\ place' = IF command \in {"enable", "disable"} /\ Found(target) THEN "settings" ELSE "idle"
  /\ UNCHANGED <<shipped, folders, settings, torn, inMemory, changes, storeHistory>>

DiscoverFails ==
  /\ place = "discover"
  /\ \/ /\ \E p \in Plugins : folders[p].state = "broken"
        /\ GiveUp({}) /\ UNCHANGED <<registry, torn>>
     \/ /\ StaleRecords # {} /\ \A p \in Plugins : folders[p].state # "broken"
        /\ WriteRegistryFails({})
  /\ UNCHANGED <<folders, settings, interrupted>>

-----------------------------------------------------------------------------
(* External: a newer version, or the end of a plugin; a user who removes a *)
(* file that cannot be parsed.  Sources change only between commands.      *)
Release(p) ==
  /\ place = "idle" /\ shipped[p] \in 1..(MaxVersion - 1)
  /\ shipped' = [shipped EXCEPT ![p] = @ + 1]
  /\ current' = FALSE
  /\ UNCHANGED <<disk, place, inMemory, changes, storeHistory>>

Withdraw(p) ==
  /\ place = "idle" /\ shipped[p] # 0
  /\ shipped' = [shipped EXCEPT ![p] = 0]
  /\ current' = FALSE
  /\ UNCHANGED <<disk, place, inMemory, changes, storeHistory>>

Repair(file) ==
  /\ place = "idle" /\ file \in torn
  /\ torn' = torn \ {file}
  /\ UNCHANGED <<shipped, folders, registry, settings, place, inMemory, changes, current, storeHistory>>

CommandStep == FindSource \/ SourceFails \/ Replace \/ ReplaceFails \/ LoadRegistry
             \/ LoadRegistryFails \/ RemoveFiles \/ RemoveFilesFails \/ StoreRegistry
             \/ StoreRegistryFails \/ WriteSettings \/ WriteSettingsFails
ListStep ==
        \/ BeginSync \/ SyncPlugin \/ DropStale \/ StoreSync \/ Discover \/ DiscoverFails
        \/ (SyncFails \/ StoreSyncFails) /\ UNCHANGED interrupted

PluginCommands == {"list", "install", "enable", "disable", "uninstall", "update"}

StoreNext ==
  \/ \E c \in PluginCommands, p \in Plugins : BeginCommand(c, p)
  \/ CommandStep \/ ListStep
  \/ \E p \in Plugins : Release(p) \/ Withdraw(p)
  \/ Repair("registry") \/ Repair("settings")

StoreSpec == StoreInit /\ [][StoreNext]_storeVars

-----------------------------------------------------------------------------
Places == {"idle", "source", "replace", "load", "remove", "store", "settings",
           "sync", "bundled", "sync store", "discover"}
FlagValues == {"unset", "on", "off"}

StoreTypeOK ==
  /\ place \in Places
  /\ shipped \in [Plugins -> 0..MaxVersion]
  /\ folders \in [Plugins -> [state : {"none", "bare", "broken", "hollow", "whole"},
                            version : 0..MaxVersion]]
  /\ registry \in [Plugins -> 0..MaxVersion] /\ copy \in [Plugins -> 0..MaxVersion]
  /\ settings \in [Plugins -> FlagValues] /\ enabled \in [Plugins -> FlagValues]
  /\ wanted \in [Plugins -> FlagValues]
  /\ torn \subseteq {"registry", "settings"} /\ waiting \subseteq Bundled
  /\ command \in PluginCommands /\ target \in Plugins /\ changes \in Nat
  /\ \A p \in Plugins : folders[p].version # 0 <=> Loadable(folders[p])

(* What a command that succeeded has done holds until the next command     *)
(* fails on the plugin, whatever else was done, failed or was mended in    *)
(* between: files, record and flag of an external plugin agree, and what   *)
(* the manager has in memory is what the settings say.                     *)
StoresAgree ==
  /\ StoreTypeOK
  /\ place = "idle" =>
       \A p \in External \ spoiled :
         /\ folders[p] = IF registry[p] = 0 THEN NoFiles ELSE Whole(registry[p])
         /\ settings[p] = wanted[p]
         /\ registry[p] = 0 <=> wanted[p] = "unset"
  /\ (place # "idle" /\ "settings" \notin torn) => enabled = settings

(* After a listing that succeeded, the bundled plugins are all there, of   *)
(* the shipped version and recorded -- however many syncs failed before in *)
(* the middle of a copy or of a write -- and every record has files that   *)
(* load.  Only an update of a bundled plugin that failed may leave files   *)
(* that load and are not all there, which no sync mends.                   *)
BundledAreCurrent ==
  current =>
    /\ \A p \in Bundled \ interrupted :
         shipped[p] # 0 => folders[p] = Whole(shipped[p]) /\ registry[p] = shipped[p]
    /\ \A p \in Plugins : registry[p] # 0 => Loadable(folders[p])
    /\ \A p \in Bundled : shipped[p] = 0 => registry[p] = 0

(* What the commands leave and what a sync leaves, together.               *)
PluginsAreConsistent == StoresAgree /\ BundledAreCurrent
=============================================================================
