---------------------------- MODULE SharedFiles ----------------------------
(***************************************************************************)
(* The tools that read a file, change what they read and write it back:    *)
(* edit_file and write_file (runtime/src/file_ops.rs), TodoWrite, Config   *)
(* and NotebookEdit (tools/src/lib.rs), and the flags the plugin manager   *)
(* keeps in the settings (plugins/src/lib.rs).  The main agent, its        *)
(* sub-agents on their threads, and other programs call them at the same   *)
(* time, and none takes a lock.  A behaviour is about one file.            *)
(***************************************************************************)
EXTENDS Naturals, Sequences, SequencesExt

CONSTANTS
  Callers,    \* whoever calls tools at the same time
  Calls,      \* the calls made on each kind of file
  Starts,     \* what may be in each kind of file at first
  MaxCalls    \* bound: calls

Kinds == {"text", "settings", "todos", "notebook"}

VARIABLES
  kind,      \* the kind of file
  disk,      \* what is in it
  doing,     \* where each agent is in its call
  call,      \* the call
  new,       \* the text it has computed
  calls,     \* bound: calls left
  last,      \* history: what the calls that succeeded have put under each key
  raced,     \* history: did two calls overlap, both to write?
  cut,       \* history: did a write fail or end with its program?
  deleted,   \* history: was a cell deleted?
  reused     \* history: was a cell inserted after one was deleted?

fileVars == <<kind, disk, doing, call, new, calls, last, raced, cut, deleted, reused>>

-----------------------------------------------------------------------------
(* A file is a list of entries: the lines of a text, the members of a JSON *)
(* object, the items of a todo list, the cells of a notebook.  A member of *)
(* an object in the document goes by its own key, and a value that is      *)
(* found where such an object should be by the key of the object.          *)
Entry(k, v)   == [key |-> k, val |-> v]
File(s, e)    == [state |-> s, entries |-> e]
Whole(e)      == File("whole", e)
NoFile        == File("absent", <<>>)
NoText        == File("empty", <<>>)
NotJson       == File("garbled", <<>>)

Least(S)          == CHOOSE i \in S : \A j \in S : i <= j
Keys(entries)     == {entries[i].key : i \in DOMAIN entries}
At(entries, k)    == Least({i \in DOMAIN entries : entries[i].key = k})
Contents(entries) == [k \in Keys(entries) |-> entries[At(entries, k)].val]
KeyedOnce(entries) == \A i, j \in DOMAIN entries : entries[i].key = entries[j].key => i = j

-----------------------------------------------------------------------------
(* What calls there are.  A line and an item is known by its place, and a  *)
(* cell by its id: the cells a notebook has at first are numbered.         *)
Settings == [theme |-> "string", verbose |-> "boolean", defaultMode |-> "options"]
Objects  == {"permissions", "enabledPlugins"}

Lists == {entries \in Seq([key : Nat, val : STRING]) : \A i \in DOMAIN entries : entries[i].key = i}

CallsOn(k) ==
  CASE k = "text" ->
         [tool : {"edit"}, old : STRING, val : STRING, all : BOOLEAN] \cup [tool : {"write"}, lines : Lists]
    [] k = "settings" ->
         [tool : {"config"}, key : DOMAIN Settings, val : STRING] \cup
         [tool : {"plugin"}, key : STRING \ (DOMAIN Settings \cup Objects), val : STRING]
    [] k = "todos"    -> [tool : {"todo"}, done : BOOLEAN, lines : Lists]
    [] k = "notebook" -> [tool : {"replace", "insert", "delete"}, id : Nat, val : STRING]

Members == {entries \in Seq([key : STRING, val : STRING]) : KeyedOnce(entries)}
FilesOf(k) ==
  {NoFile, NoText} \cup [state : {"whole"}, entries : IF k = "settings" THEN Members ELSE Lists]

ASSUME FilesAssumption ==
  /\ MaxCalls \in Nat /\ DOMAIN Calls = Kinds /\ DOMAIN Starts = Kinds
  /\ \A k \in Kinds : Calls[k] \subseteq CallsOn(k)
  /\ \A k \in Kinds : Starts[k] \subseteq FilesOf(k)

-----------------------------------------------------------------------------
(* read_json_object and update_settings_json take no file and an empty one *)
(* for an empty object, TodoWrite no file for an empty list, write_file    *)
(* takes anything; the others need what they change.                       *)
CanRead(tool, file) ==
  CASE tool = "write"                -> TRUE
    [] tool \in {"config", "plugin"} -> file # NotJson
    [] tool = "todo"                 -> file = NoFile \/ file.state = "whole"
    [] OTHER                         -> file.state = "whole"

(* edit_file: the first line with the old text, or all of them.            *)
Matches(entries, old) == {i \in DOMAIN entries : entries[i].val = old}

Edited(c, entries) ==
  LET found == Matches(entries, c.old)
      hit   == IF c.all THEN found ELSE {Least(found)} IN
  [i \in DOMAIN entries |-> IF i \in hit THEN Entry(entries[i].key, c.val) ELSE entries[i]]

(* supported_config_setting and normalize_config_value: a setting that is  *)
(* not Boolean takes any number, unless it has options.                    *)
Options  == {"default", "plan", "acceptEdits", "dontAsk", "auto"}

Normal(c) ==
  CASE Settings[c.key] = "boolean" -> c.val \in {"true", "false"}
    [] Settings[c.key] = "options" -> c.val \in Options
    [] OTHER                       -> TRUE

(* set_nested_value and ensure_object: a value that is found where the     *)
(* object around the member should be gives way to an object; the rest of  *)
(* the document stays.  First, one that keeps nothing but the member.      *)
Nested(c) == c.tool = "plugin" \/ c.key = "defaultMode"
Around(c) == IF c.tool = "plugin" THEN "enabledPlugins" ELSE "permissions"
WithObject(c, entries) ==
  IF Nested(c) /\ Around(c) \in Keys(entries) THEN RemoveAt(entries, At(entries, Around(c))) ELSE entries

SetAlone(c, entries) == <<Entry(c.key, c.val)>>
SetIn(c, entries) ==
  LET kept == WithObject(c, entries) IN
  IF c.key \in Keys(kept)
  THEN [i \in DOMAIN kept |-> IF kept[i].key = c.key THEN Entry(c.key, c.val) ELSE kept[i]]
  ELSE Append(kept, Entry(c.key, c.val))

(* NotebookEdit: the first cell with the id, or the last cell.  A new cell *)
(* goes behind it, or to the end, and is named after the number of cells.  *)
Position(c, entries) ==
  IF c.id = 0 THEN Len(entries) ELSE IF c.id \in Keys(entries) THEN At(entries, c.id) ELSE 0

NewId(entries) == Len(entries) + 1

Notebook(c, entries) ==
  LET here == Position(c, entries) IN
  CASE c.tool = "replace" -> [entries EXCEPT ![here].val = c.val]
    [] c.tool = "delete"  -> RemoveAt(entries, here)
    [] c.tool = "insert"  -> InsertAt(entries, here + 1, Entry(NewId(entries), c.val))

(* What is refused after the file was read: nothing to edit, a value that  *)
(* is not one of the setting, a cell that is not there.                    *)
Refused(c, entries) ==
  CASE c.tool = "edit"                           -> c.old = c.val \/ Matches(entries, c.old) = {}
    [] c.tool = "config"                         -> ~Normal(c)
    [] c.tool \in {"replace", "delete"}          -> Position(c, entries) = 0
    [] c.tool = "insert"                         -> c.id # 0 /\ Position(c, entries) = 0
    [] OTHER                                     -> FALSE

(* A list of todos that are all done is stored as an empty one.            *)
Updated(c, entries) ==
  CASE c.tool = "edit"                -> Edited(c, entries)
    [] c.tool = "write"               -> c.lines
    [] c.tool \in {"config","plugin"} -> SetIn(c, entries)
    [] c.tool = "todo"                -> IF c.done THEN <<>> ELSE c.lines
    [] OTHER                          -> Notebook(c, entries)

-----------------------------------------------------------------------------
NoCall == [tool |-> "none"]

FilesInit ==
  /\ kind \in Kinds /\ disk \in Starts[kind]
  /\ doing = [a \in Callers |-> "idle"] /\ call = [a \in Callers |-> NoCall]
  /\ new = [a \in Callers |-> <<>>] /\ calls \in {0, MaxCalls}
  /\ last = Contents(disk.entries)
  /\ raced = FALSE /\ cut = FALSE /\ deleted = FALSE /\ reused = FALSE

fileHistory == <<last, raced, cut, deleted, reused>>

(* A call reads the file and computes what to write, or returns an error.  *)
Read(a, c) ==
  /\ doing[a] = "idle" /\ calls > 0
  /\ calls' = calls - 1
  /\ IF CanRead(c.tool, disk) /\ ~Refused(c, disk.entries)
     THEN /\ doing' = [doing EXCEPT ![a] = "open"] /\ call' = [call EXCEPT ![a] = c]
          /\ new' = [new EXCEPT ![a] = Updated(c, disk.entries)]
     ELSE UNCHANGED <<doing, call, new>>
  /\ UNCHANGED <<kind, disk, fileHistory>>

(* fs::write truncates the file, then fills it.                            *)
Truncate(a) ==
  /\ doing[a] = "open"
  /\ doing' = [doing EXCEPT ![a] = "fill"]
  /\ disk' = NoText
  /\ UNCHANGED <<kind, call, new, calls, fileHistory>>

Return(a) ==
  /\ doing' = [doing EXCEPT ![a] = "idle"] /\ call' = [call EXCEPT ![a] = NoCall]
  /\ new' = [new EXCEPT ![a] = <<>>]
  /\ UNCHANGED <<kind, calls>>

(* Over what another call wrote meanwhile, the shorter text leaves a tail. *)
WrittenOver(text) ==
  IF disk = NoText \/ Len(disk.entries) <= Len(text) THEN {Whole(text)}
  ELSE {IF kind = "text" THEN Whole(text \o SubSeq(disk.entries, Len(text) + 1, Len(disk.entries)))
        ELSE NotJson}

(* What a call puts under which key, said of the contents by key.          *)
FirstKey(old) == Least({k \in DOMAIN last : last[k] = old})

Effect(c, written) ==
  CASE c.tool = "edit" ->
         [k \in DOMAIN last |-> IF last[k] = c.old /\ (c.all \/ k = FirstKey(c.old)) THEN c.val ELSE last[k]]
    [] c.tool \in {"config", "plugin"} ->
         [k \in (DOMAIN last \ IF Nested(c) THEN {Around(c)} ELSE {}) \cup {c.key} |->
            IF k = c.key THEN c.val ELSE last[k]]
    [] c.tool = "replace" ->
         [k \in DOMAIN last |->
            IF k = IF c.id = 0 THEN written[Len(written)].key ELSE c.id THEN c.val ELSE last[k]]
    [] c.tool = "insert" ->
         [k \in DOMAIN last \cup Keys(written) |-> IF k \in DOMAIN last THEN last[k] ELSE c.val]
    [] c.tool = "delete" -> [k \in DOMAIN last \cap Keys(written) |-> last[k]]
    [] OTHER -> Contents(written)

Fill(a) ==
  /\ doing[a] = "fill"
  /\ disk' \in WrittenOver(new[a])
  /\ last' = IF raced THEN last ELSE Effect(call[a], new[a])
  /\ raced' = (raced \/ \E b \in Callers \ {a} : doing[b] # "idle")
  /\ deleted' = (deleted \/ call[a].tool = "delete")
  /\ reused' = (reused \/ (deleted /\ call[a].tool = "insert"))
  /\ Return(a) /\ UNCHANGED cut

(* The directory cannot be made, the file cannot be opened, the disk is    *)
(* full, the program ends: the file stays, or holds a part of the text.    *)
Parts(text) ==
  IF kind = "text" THEN {Whole(SubSeq(text, 1, n)) : n \in 0..Len(text)} ELSE {NoText, NotJson}

WriteFails(a) ==
  /\ doing[a] \in {"open", "fill"}
  /\ disk' \in IF doing[a] = "open" THEN {disk} ELSE Parts(new[a])
  /\ cut' = (cut \/ doing[a] = "fill")
  /\ Return(a) /\ UNCHANGED <<last, raced, deleted, reused>>

CallerStep(a) ==
  \/ \E c \in Calls[kind] : Read(a, c)
  \/ Truncate(a) \/ Fill(a) \/ WriteFails(a)

FilesNext == \E a \in Callers : CallerStep(a)
FilesSpec == FilesInit /\ [][FilesNext]_fileVars

-----------------------------------------------------------------------------
(* JsonValue::parse, which reads the settings at the next start, knows no  *)
(* numbers but integers, and the Config tool writes all of them with a     *)
(* fraction.                                                               *)
Parses(val)    == val # "number"
Loadable(file) == file # NotJson /\ \A e \in Range(file.entries) : Parses(e.val)

(* As long as no two calls overlapped with both to write, and no write was *)
(* cut off, the file says of every key what the last call that succeeded   *)
(* put there, and of each key once: no call loses what another one did,    *)
(* not even one that met the file while it was truncated.  Excepted are    *)
(* the ids of cells inserted after a cell was deleted: these are counted,  *)
(* and may name two cells; and a value that stands where a setting needs   *)
(* an object is lost with the call that makes the object.                  *)
ChangesSurvive ==
  ~raced /\ ~cut /\ ~reused /\ (\A a \in Callers : doing[a] # "fill") =>
    /\ disk # NotJson
    /\ Contents(disk.entries) = last
    /\ KeyedOnce(disk.entries)

(* The settings a call of Config leaves, when it succeeds and nobody else  *)
(* is at work, can be loaded by the next start of the program.             *)
ConfiguredStarts == kind = "settings" /\ ~raced /\ ~cut => Loadable(disk)
=============================================================================
