---------------------------- MODULE SessionText ----------------------------
(***************************************************************************)
(* The text of a session's file (runtime/src/session.rs, json.rs).  A      *)
(* session becomes a value of JSON and that a text, which is read back by  *)
(* a parser of the program's own.  What is read need not be what was       *)
(* written: a save may be cut off, two may write over each other, and the  *)
(* user may edit the file.  A text is a sequence of characters; a key, a   *)
(* literal, the four digits of an escape or any word that needs no escape  *)
(* counts as one.                                                          *)
(***************************************************************************)
EXTENDS Integers, Sequences, FiniteSets, SequencesExt, TLC

CONSTANTS
  Sentences,   \* messages that are added to a session
  Odd,         \* what an editor may put in the place of a character
  WordMax,     \* the largest number of a u32
  LongMax,     \* the largest number of an i64
  MaxSentences,\* bound: messages of a session
  MaxFaults    \* bound: files cut off, written over or edited

ASSUME TextAssumption == WordMax \in Nat /\ LongMax \in Nat /\ WordMax < LongMax /\ {MaxSentences, MaxFaults} \subseteq Nat

VARIABLES
  memory,      \* the session of the program
  text,        \* the file
  written,     \* how it was: whole, cut, over another, edited, or refused
  faults       \* bound: those so far

textVars == <<memory, text, written, faults>>

-----------------------------------------------------------------------------
(* Values: a kind and what it holds.  The names of an object are sorted.   *)
Str(chars) == <<"string", chars>>
Num(n)     == <<"number", n>>
Bool(b)    == <<"bool", b>>
Arr(items) == <<"array", items>>
Obj(names) == <<"object", names>>
Word(w)    == Str(<<w>>)

Quote  == "\""
Escape == "\\"
(* What the escapes of one letter, and those of four digits, stand for.    *)
Letters == [n |-> "newline", r |-> "return", t |-> "tab", b |-> "backspace", f |-> "feed"]
           @@ (Quote :> Quote) @@ (Escape :> Escape) @@ ("/" :> "/")
Codes   == "0001" :> "control" @@ "0061" :> "a"      \* half of a pair, as d83d, is none
Digits  == <<"0", "1", "2", "3", "4", "5", "6", "7", "8", "9">>

Escaped(c) ==
  IF c = "control" THEN <<Escape, "u", "0001">>
  ELSE IF \E l \in DOMAIN Letters \ {"/"} : Letters[l] = c
       THEN <<Escape, CHOOSE l \in DOMAIN Letters \ {"/"} : Letters[l] = c>>
       ELSE <<c>>
Quoted(chars) == <<Quote>> \o FlattenSeq([i \in DOMAIN chars |-> Escaped(chars[i])]) \o <<Quote>>

RECURSIVE Decimal(_)
Decimal(n) == IF n < 10 THEN <<Digits[n + 1]>> ELSE Append(Decimal(n \div 10), Digits[(n % 10) + 1])

Joined(parts) == FlattenSeq([i \in DOMAIN parts |-> IF i = 1 THEN parts[i] ELSE <<",">> \o parts[i]])
NameOrder == <<"blocks", "cache", "id", "input", "is_error", "messages", "name", "output", "role", "text",
               "tool_name", "tool_use_id", "type", "usage", "version">>
RECURSIVE Rendered(_)
Rendered(v) ==
  CASE v[1] = "string" -> Quoted(v[2])
    [] v[1] = "number" -> Decimal(v[2])
    [] v[1] = "bool"   -> IF v[2] THEN <<"true">> ELSE <<"false">>
    [] v[1] = "array"  -> <<"[">> \o Joined([i \in DOMAIN v[2] |-> Rendered(v[2][i])]) \o <<"]">>
    [] OTHER ->
         LET names == SelectSeq(NameOrder, LAMBDA n : <<n>> \in DOMAIN v[2])
         IN <<"{">> \o Joined([i \in DOMAIN names |-> Quoted(<<names[i]>>) \o <<":">> \o Rendered(v[2][<<names[i]>>])])
                    \o <<"}">>

-----------------------------------------------------------------------------
(* The parser: what it reads of text t from character i on, and where it   *)
(* ends.  It is lax about a comma before a closing bracket.                *)
Got(at, value) == [ok |-> TRUE, at |-> at, value |-> value]
Failed         == [ok |-> FALSE, at |-> 0, value |-> <<"null">>]
Is(t, i, c)    == i <= Len(t) /\ t[i] = c
IsDigit(t, i)  == i <= Len(t) /\ \E d \in DOMAIN Digits : Digits[d] = t[i]
Value(digit)   == CHOOSE d \in 0..9 : Digits[d + 1] = digit
RECURSIVE Past(_, _)
Past(t, i) == IF Is(t, i, " ") THEN Past(t, i + 1) ELSE i

RECURSIVE StringFrom(_, _, _)
StringFrom(t, i, chars) ==
  CASE i > Len(t)  -> Failed
    [] Is(t, i, Quote) -> Got(i + 1, Str(chars))
    [] Is(t, i, Escape) /\ Is(t, i + 1, "u") ->
         IF i + 2 <= Len(t) /\ t[i + 2] \in DOMAIN Codes
         THEN StringFrom(t, i + 3, Append(chars, Codes[t[i + 2]])) ELSE Failed
    [] Is(t, i, Escape) /\ ~Is(t, i + 1, "u") ->
         IF i + 1 <= Len(t) /\ t[i + 1] \in DOMAIN Letters
         THEN StringFrom(t, i + 2, Append(chars, Letters[t[i + 1]])) ELSE Failed
    [] OTHER -> StringFrom(t, i + 1, Append(chars, t[i]))

RECURSIVE NumberFrom(_, _, _)
NumberFrom(t, i, n) == IF IsDigit(t, i) THEN NumberFrom(t, i + 1, 10 * n + Value(t[i])) ELSE Got(i, n)
Number(t, i) ==
  LET from == IF Is(t, i, "-") THEN i + 1 ELSE i
      read == NumberFrom(t, from, 0)
      n    == IF Is(t, i, "-") THEN -read.value ELSE read.value
  IN IF read.at = from \/ n > LongMax \/ n < -LongMax - 1 THEN Failed ELSE Got(read.at, Num(n))

(* What stands before a comma or the closing bracket goes to the rest.     *)
RECURSIVE ValueFrom(_, _), ItemsFrom(_, _, _), NamesFrom(_, _, _)
ValueFrom(t, j) ==
  LET i == Past(t, j) IN
  CASE Is(t, i, "null")  -> Got(i + 1, <<"null">>)
    [] Is(t, i, "true")  -> Got(i + 1, Bool(TRUE))
    [] Is(t, i, "false") -> Got(i + 1, Bool(FALSE))
    [] Is(t, i, Quote)   -> StringFrom(t, i + 1, <<>>)
    [] Is(t, i, "[")     -> ItemsFrom(t, i + 1, <<>>)
    [] Is(t, i, "{")     -> NamesFrom(t, i + 1, <<>>)
    [] Is(t, i, "-") \/ IsDigit(t, i) -> Number(t, i)
    [] OTHER -> Failed
ItemsFrom(t, j, items) ==
  LET i    == Past(t, j)
      v    == ValueFrom(t, i)
      k    == Past(t, v.at)
      more == Append(items, v.value)
  IN IF Is(t, i, "]") THEN Got(i + 1, Arr(items))
     ELSE IF ~v.ok THEN Failed
     ELSE IF Is(t, k, "]") THEN Got(k + 1, Arr(more))
     ELSE IF Is(t, k, ",") THEN ItemsFrom(t, k + 1, more) ELSE Failed
NamesFrom(t, j, names) ==
  LET i    == Past(t, j)
      key  == StringFrom(t, i + 1, <<>>)
      c    == Past(t, key.at)
      v    == ValueFrom(t, c + 1)
      k    == Past(t, v.at)
      more == (key.value[2] :> v.value) @@ names
  IN IF Is(t, i, "}") THEN Got(i + 1, Obj(names))
     ELSE IF ~Is(t, i, Quote) \/ ~key.ok \/ ~Is(t, c, ":") \/ ~v.ok THEN Failed
     ELSE IF Is(t, k, "}") THEN Got(k + 1, Obj(more))
     ELSE IF Is(t, k, ",") THEN NamesFrom(t, k + 1, more) ELSE Failed

Parsed(t) ==
  LET v == ValueFrom(t, 1) IN IF v.ok /\ Past(t, v.at) > Len(t) THEN {v.value} ELSE {}

-----------------------------------------------------------------------------
(* A session as a value: messages with a role, blocks of three types and,  *)
(* if the model said so, what they used.                                   *)
Roles == {"system", "user", "assistant", "tool"}
Texts == [text |-> <<"text">>, tool_use |-> <<"id", "name", "input">>,
          tool_result |-> <<"tool_use_id", "tool_name", "output">>]
Named(name, v) == <<name>> :> v

BlockValue(b) ==
  LET texts == [key \in {<<n>> : n \in Range(Texts[b.type])} |-> Str(b.texts[key[1]])]
  IN Obj(Named("type", Word(b.type)) @@ texts
         @@ (IF b.type = "tool_result" THEN Named("is_error", Bool(b.failed)) ELSE <<>>))
UsageValue(u) == Obj([key \in {<<n>> : n \in DOMAIN u} |-> Num(u[key[1]])])
MessageValue(m) ==
  Obj(Named("role", Word(m.role))
      @@ Named("blocks", Arr([i \in DOMAIN m.blocks |-> BlockValue(m.blocks[i])]))
      @@ (IF m.usage = {} THEN <<>> ELSE Named("usage", UsageValue(CHOOSE u \in m.usage : TRUE))))
SessionValue(s) ==
  Obj(Named("version", Num(s.version))
      @@ Named("messages", Arr([i \in DOMAIN s.messages |-> MessageValue(s.messages[i])])))

(* And back: each of these is the set of what a value stands for, empty if *)
(* it is not of the form expected.                                         *)
Field(v, name, kind) ==
  IF v[1] = "object" /\ <<name>> \in DOMAIN v[2] THEN {x \in {v[2][<<name>>]} : x[1] = kind} ELSE {}
Contents(values) == {v[2] : v \in values}
(* A sequence of what the items stand for, if each stands for something.   *)
Each(items, Of(_)) ==
  IF \E i \in DOMAIN items : Of(items[i]) = {} THEN {}
  ELSE {[i \in DOMAIN items |-> CHOOSE x \in Of(items[i]) : TRUE]}

BlocksOf(v) ==
  UNION {LET names == Range(Texts[type[1]])
             flags == IF type[1] = "tool_result" THEN Contents(Field(v, "is_error", "bool")) ELSE {FALSE}
         IN IF \E n \in names : Field(v, n, "string") = {} THEN {}
            ELSE {[type |-> type[1], failed |-> f,
                   texts |-> [n \in names |-> CHOOSE c \in Contents(Field(v, n, "string")) : TRUE]] : f \in flags} :
         type \in {c \in Contents(Field(v, "type", "string")) : Len(c) = 1 /\ c[1] \in DOMAIN Texts}}
Words(v, name) == {n \in Contents(Field(v, name, "number")) : n \in 0..WordMax}
UsagesOf(v) == {[input |-> i, cache |-> c] : i \in Words(v, "input"), c \in Words(v, "cache")}
(* Two of the four numbers.  A usage there is has to be one, null is none. *)
UsageIn(v) ==
  IF <<"usage">> \in DOMAIN v[2] THEN {{u} : u \in UsagesOf(v[2][<<"usage">>])} ELSE {{}}
MessagesOf(v) ==
  {[role |-> role[1], blocks |-> blocks, usage |-> usage] :
     role   \in {c \in Contents(Field(v, "role", "string")) : Len(c) = 1 /\ c[1] \in Roles},
     blocks \in UNION {Each(items, BlocksOf) : items \in Contents(Field(v, "blocks", "array"))},
     usage  \in IF v[1] = "object" THEN UsageIn(v) ELSE {}}
SessionsOf(v) ==
  {[version |-> n, messages |-> ms] :
     n  \in Words(v, "version"),
     ms \in UNION {Each(items, MessagesOf) : items \in Contents(Field(v, "messages", "array"))}}

Saved(s) == Rendered(SessionValue(s))
Loaded(t) == UNION {SessionsOf(v) : v \in Parsed(t)}

-----------------------------------------------------------------------------
EmptySession == [version |-> 1, messages |-> <<>>]
TextInit == memory = EmptySession /\ text = Saved(EmptySession) /\ written = "whole" /\ faults = 0

Converse ==
  /\ Len(memory.messages) < MaxSentences
  /\ \E m \in Sentences : memory' = [memory EXCEPT !.messages = Append(@, m)]
  /\ UNCHANGED <<text, written, faults>>

Save == text' = Saved(memory) /\ written' = "whole" /\ UNCHANGED <<memory, faults>>

Fault == faults < MaxFaults /\ faults' = faults + 1

(* The program ends while it fills the file, or another program, which     *)
(* emptied it too, has written more than this one does.                    *)
CutOff ==
  /\ Fault
  /\ \E n \in 0..(Len(Saved(memory)) - 1) : text' = SubSeq(Saved(memory), 1, n)
  /\ written' = "cut" /\ UNCHANGED memory
WriteOver ==
  /\ Fault
  /\ written = "whole" /\ Len(text) > Len(Saved(memory))
  /\ text' = Saved(memory) \o SubSeq(text, Len(Saved(memory)) + 1, Len(text))
  /\ written' = "over" /\ UNCHANGED memory

(* The user edits a file: one character is removed, or one put before it.  *)
EditFile ==
  /\ Fault
  /\ written = "whole"
  /\ \E i \in DOMAIN text :
       text' \in {RemoveAt(text, i)} \cup {ReplaceAt(text, i, c) : c \in Odd} \cup {InsertAt(text, i, c) : c \in Odd}
  /\ written' = "edited" /\ UNCHANGED memory

(* A file that cannot be read leaves the session as it is.                 *)
LoadFile ==
  /\ memory' \in IF Loaded(text) = {} THEN {memory} ELSE Loaded(text)
  /\ written' = (IF Loaded(text) = {} THEN "refused" ELSE "whole")
  /\ UNCHANGED <<text, faults>>

TextNext == Converse \/ Save \/ CutOff \/ WriteOver \/ EditFile \/ LoadFile
TextSpec == TextInit /\ [][TextNext]_textVars

-----------------------------------------------------------------------------
(* Every session the program can have, also one it read from a file that   *)
(* was edited, is read from its file as it was saved; and a file that is   *)
(* not the whole of one save is refused, never taken for a shorter or      *)
(* another session.                                                        *)
SavedReadsBack ==
  /\ Loaded(Saved(memory)) = {memory}
  /\ written \in {"cut", "over"} => Loaded(text) = {}
=============================================================================
