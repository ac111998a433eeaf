------------------------------ MODULE Markdown ------------------------------
(***************************************************************************)
(* How the terminal shows the Markdown of a reply                          *)
(* (claw-cli/src/render.rs): MarkdownStreamState keeps what has arrived of *)
(* a text until a piece of it can be shown by itself, and TerminalRenderer *)
(* goes over the events of a piece with a state of what is open.  The      *)
(* parser between them (pulldown-cmark) is external: here a document is    *)
(* its events.  Colours are left out.                                      *)
(***************************************************************************)
EXTENDS Naturals, Sequences, SequencesExt, FiniteSetsExt

CONSTANTS
  Writings,     \* texts of replies: "x", " ", "|" for a backtick, "~" and "n" for a newline
  MaxDelta,     \* bound: characters of a delta
  Documents,    \* sequences of the parser's events
  Sizes         \* how wide the texts of documents are

VARIABLES
  writing,      \* the text of a block of the reply
  unshown,      \* what has arrived of it and is not shown
  pieces,       \* what is shown, piece by piece
  stopped,      \* has the block ended?
  document,     \* the events of a piece
  read,         \* events read of it
  rendering         \* RenderState and the output

streamVars == <<writing, unshown, pieces, stopped>>
renderVars == <<document, read, rendering>>

-----------------------------------------------------------------------------
(* split_inclusive('\n'): where lines end, and the one that ends there.    *)
EndsOfLines(t) == {e \in DOMAIN t : t[e] = "n" \/ e = Len(t)}
Line(t, e) ==
  SubSeq(t, Max({0} \cup {d \in EndsOfLines(t) : d < e}) + 1, e)
(* The mark a line begins with, none for a blank one, or "x"; three make a *)
(* fence, and how many there are is not looked at.                         *)
Mark(line) ==
  LET solid == {i \in DOMAIN line : line[i] \notin {" ", "n"}}
      at    == Min(solid)
  IN CASE solid = {} -> "blank"
       [] solid # {} /\ line[at] \in {"|", "~"} /\ at + 2 <= Len(line)
          /\ line[at + 1] = line[at] /\ line[at + 2] = line[at] -> line[at]
       [] OTHER -> "x"

(* find_stream_safe_boundary: the last blank line or the last fence that   *)
(* closes, 0 if there is none; any fence closes any.                       *)
FencesUpTo(t, e) == Cardinality({d \in EndsOfLines(t) : d <= e /\ Mark(Line(t, d)) \in {"|", "~"}})
Boundary(t) ==
  Max({0} \cup {e \in EndsOfLines(t) : FencesUpTo(t, e) % 2 = 0 /\ Mark(Line(t, e)) # "x"})

Arrived == FlattenSeq(pieces) \o unshown

StreamInit == writing \in Writings /\ unshown = <<>> /\ pieces = <<>> /\ stopped = FALSE

Push ==
  /\ ~stopped
  /\ \E n \in 1..MaxDelta :
       /\ Len(Arrived) + n <= Len(writing)
       /\ LET text == unshown \o SubSeq(writing, Len(Arrived) + 1, Len(Arrived) + n)
              cut  == Boundary(text)
          IN /\ pieces' = IF cut = 0 THEN pieces ELSE Append(pieces, SubSeq(text, 1, cut))
             /\ unshown' = SubSeq(text, cut + 1, Len(text))
  /\ UNCHANGED <<writing, stopped>>

(* At the end of a block; a rest of blanks is dropped.                     *)
Flush ==
  /\ ~stopped /\ stopped' = TRUE /\ Arrived = writing
  /\ pieces' = IF Range(unshown) \subseteq {" ", "n"} THEN pieces ELSE Append(pieces, unshown)
  /\ unshown' = <<>>
  /\ UNCHANGED writing

StreamNext == Push \/ Flush

-----------------------------------------------------------------------------
(* What is put out: texts, the numbers of items, destinations, tables.     *)
El(kind, val, style) == [kind |-> kind, val |-> val, style |-> style]
NoTable  == [headers |-> <<>>, rows |-> <<>>, row |-> <<>>, cell |-> <<>>, inHead |-> FALSE]
NoState  == [emphasis |-> 0, strong |-> 0, heading |-> 0, quote |-> 0, lists |-> <<>>, links |-> <<>>,
             table |-> {}, inCode |-> FALSE, buffer |-> <<>>, out |-> <<>>]
Less(n) == IF n = 0 THEN 0 ELSE n - 1    \* saturating_sub

StyleText(s) ==
  (IF s.heading \in {1, 2} \/ s.strong > 0 THEN {"bold"} ELSE {})
    \cup (IF s.emphasis > 0 THEN {"italic"} ELSE {}) \cup (IF s.quote > 0 THEN {"quote"} ELSE {})

Table(s) == CHOOSE t \in s.table : TRUE
WithTable(s, t) == [s EXCEPT !.table = {t}]
AppendRaw(s, els) ==
  IF s.links # <<>> THEN [s EXCEPT !.links[Len(s.links)].text = @ \o els]
  ELSE IF s.table # {} THEN WithTable(s, [Table(s) EXCEPT !.cell = @ \o els])
  ELSE [s EXCEPT !.out = @ \o els]

PushText(s, text) ==
  IF s.inCode THEN [s EXCEPT !.buffer = Append(@, El("text", text, {"code"}))]
  ELSE AppendRaw(s, <<El("text", text, StyleText(s))>>)

StartItem(s) ==
  LET depth == Len(s.lists)
      marks == [s EXCEPT !.out = Append(@, El("item", s.lists[depth], {Less(depth)}))]
  IN IF s.lists[depth] = 0 THEN marks ELSE [marks EXCEPT !.lists[depth] = @ + 1]

EndLink(s) ==
  LET link  == Last(s.links)
      label == IF link.text = <<>> THEN <<El("dest", link.dest, {})>> ELSE link.text
  IN AppendRaw([s EXCEPT !.links = Front(@)], Append(label, El("dest", link.dest, {})))

(* visible_width: without the codes of its styles, by strip_ansi.          *)
Width(el)    == IF el.kind = "text" THEN Sizes[el.val] ELSE el.val
Visible(els) == FoldSeq(LAMBDA el, n : Width(el) + n, 0, els)
RenderTable(t) ==
  LET rows    == (IF t.headers = <<>> THEN <<>> ELSE <<t.headers>>) \o t.rows
      columns == Max({0} \cup {Len(rows[i]) : i \in DOMAIN rows})
      cell(row, c) == IF c \in DOMAIN row THEN row[c] ELSE <<>>
      width(c) == Max({Visible(cell(rows[i], c)) : i \in DOMAIN rows})
      line(row) == FlattenSeq([c \in 1..columns |->
                     Append(cell(row, c), El("pad", width(c) - Visible(cell(row, c)), {}))])
  IN <<El("table", [i \in DOMAIN rows |-> line(rows[i])], {})>>

FinishRow(t) ==
  IF t.row = <<>> THEN t
  ELSE IF t.inHead THEN [t EXCEPT !.row = <<>>, !.headers = t.row]
  ELSE [t EXCEPT !.row = <<>>, !.rows = Append(@, t.row)]

Begin(s, tag, arg) ==
  CASE tag = "heading"  -> [s EXCEPT !.heading = arg]
    [] tag = "quote"    -> [s EXCEPT !.quote = @ + 1]
    [] tag = "list"     -> [s EXCEPT !.lists = Append(@, arg)]
    [] tag = "item"     -> StartItem(s)
    [] tag = "code"     -> [s EXCEPT !.inCode = TRUE, !.buffer = <<>>]
    [] tag = "emphasis" -> [s EXCEPT !.emphasis = @ + 1]
    [] tag = "strong"   -> [s EXCEPT !.strong = @ + 1]
    [] tag = "link"     -> [s EXCEPT !.links = Append(@, [dest |-> arg, text |-> <<>>])]
    [] tag = "image"    -> AppendRaw(s, <<El("dest", arg, {})>>)
    [] tag = "table"    -> WithTable(s, NoTable)
    [] tag = "head"     -> WithTable(s, [Table(s) EXCEPT !.inHead = TRUE])
    [] tag = "row"      -> WithTable(s, [Table(s) EXCEPT !.row = <<>>, !.cell = <<>>])
    [] tag = "cell"     -> WithTable(s, [Table(s) EXCEPT !.cell = <<>>])
    [] OTHER            -> s
End(s, tag) ==
  CASE tag = "heading"  -> [s EXCEPT !.heading = 0]
    [] tag = "quote"    -> [s EXCEPT !.quote = Less(@)]
    [] tag = "list"     -> [s EXCEPT !.lists = Front(@)]
    [] tag = "code"     -> [s EXCEPT !.out = @ \o s.buffer, !.inCode = FALSE, !.buffer = <<>>]
    [] tag = "emphasis" -> [s EXCEPT !.emphasis = Less(@)]
    [] tag = "strong"   -> [s EXCEPT !.strong = Less(@)]
    [] tag = "link"     -> EndLink(s)
    [] tag = "table"    -> [s EXCEPT !.table = {}, !.out = @ \o RenderTable(Table(s))]
    [] tag = "head"     -> WithTable(s, [FinishRow(Table(s)) EXCEPT !.inHead = FALSE])
    [] tag = "row"      -> WithTable(s, FinishRow(Table(s)))
    [] tag = "cell"     -> WithTable(s, [Table(s) EXCEPT !.row = Append(@, Table(s).cell), !.cell = <<>>])
    [] OTHER            -> s
RenderEvent(s, e) ==
  CASE e.event = "start" -> Begin(s, e.tag, e.arg)
    [] e.event = "end"   -> End(s, e.tag)
    [] e.event = "text"  -> PushText(s, e.arg)
    [] e.event = "span"  -> AppendRaw(s, <<El("text", e.arg, {"span"})>>)

RenderInit == document \in Documents /\ read = 0 /\ rendering = NoState
RenderNext ==
  /\ read < Len(document)
  /\ read' = read + 1
  /\ rendering' = RenderEvent(rendering, document[read'])
  /\ UNCHANGED document

-----------------------------------------------------------------------------
(* The pieces make the text, in order, with nothing twice or left out but  *)
(* blanks at its end; and wherever deltas are cut, no piece ends within a  *)
(* code block, unless the text does, or has fences of two marks or of more *)
(* than three: any fence closes any, a long one even before it is all here.*)
OpenAfter(t) ==
  LET ends  == SetToSortSeq(EndsOfLines(t), <)
      marks == [i \in DOMAIN ends |-> Mark(Line(t, ends[i]))]
      next(open, m) == IF m \in {"blank", "x"} \/ open \notin {"", m} THEN open
                       ELSE IF open = m THEN "" ELSE m
  IN FoldLeft(next, "", marks)
LinesOf(t) == {Line(t, e) : e \in EndsOfLines(t)}
Long(line) == Mark(line) \in {"|", "~"} /\ Len(SelectSeq(line, LAMBDA letter : letter = Mark(line))) > 3
PlainFences(t) ==
  /\ Cardinality({Mark(line) : line \in LinesOf(t)} \ {"blank", "x"}) < 2
  /\ \A line \in LinesOf(t) : ~Long(line)
PiecesMakeTheText ==
  /\ IsPrefix(Arrived, writing)
  /\ stopped => Range(SubSeq(writing, Len(Arrived) + 1, Len(writing))) \subseteq {" ", "n"}
  /\ PlainFences(writing) =>
       \A i \in DOMAIN pieces : OpenAfter(FlattenSeq(SubSeq(pieces, 1, i))) = "" \/ (stopped /\ i = Len(pieces))

(* Every text of a document is shown once, in its place and in the style   *)
(* of what it is in; an item has the number that follows in its own list,  *)
(* whatever list is in it; and the rows of a table are equally wide.       *)
Count(kind, tag, i) == Cardinality({k \in 1..(i - 1) : document[k].event = kind /\ document[k].tag = tag})
In(tag, i) == Count("start", tag, i) > Count("end", tag, i)
Depth(i)   == Cardinality({k \in 1..(i - 1) : document[k].event = "start"})
                - Cardinality({k \in 1..(i - 1) : document[k].event = "end"})
Level(i) ==
  document[Max({k \in 1..i : document[k].event = "start" /\ document[k].tag = "heading"})].arg
Meant(i) ==
  IF document[i].event = "span" THEN {"span"}
  ELSE IF In("code", i) THEN {"code"}
  ELSE (IF In("strong", i) \/ (In("heading", i) /\ Level(i) < 3) THEN {"bold"} ELSE {})
       \cup (IF In("emphasis", i) THEN {"italic"} ELSE {}) \cup (IF In("quote", i) THEN {"quote"} ELSE {})
Positions(P(_)) == SelectSeq([i \in 1..read |-> i], P)
SaidTexts ==
  LET at == Positions(LAMBDA i : document[i].event \in {"text", "span"})
  IN [n \in DOMAIN at |-> <<document[at[n]].arg, Meant(at[n])>>]

TextsIn(els) ==
  LET texts(seq) == SelectSeq(seq, LAMBDA el : el.kind = "text")
      flat == FlattenSeq([i \in DOMAIN els |->
                IF els[i].kind = "table" THEN FlattenSeq(els[i].val) ELSE <<els[i]>>])
  IN [i \in DOMAIN texts(flat) |-> <<texts(flat)[i].val, texts(flat)[i].style>>]
Held ==
  (IF rendering.table = {} THEN <<>>
   ELSE FlattenSeq(Table(rendering).headers) \o FlattenSeq(FlattenSeq(Table(rendering).rows))
          \o FlattenSeq(Table(rendering).row) \o Table(rendering).cell)
    \o FlattenSeq([i \in DOMAIN rendering.links |-> rendering.links[i].text]) \o rendering.buffer

ItemNumber(i) ==
  LET list == Max({k \in 1..i : document[k].event = "start" /\ document[k].tag = "list" /\ Depth(k) = Depth(i) - 1})
      before == {k \in list..(i - 1) : document[k].event = "start" /\ document[k].tag = "item" /\ Depth(k) = Depth(i)}
  IN IF document[list].arg = 0 THEN 0 ELSE document[list].arg + Cardinality(before)
OnScreen(row) == FoldSeq(LAMBDA el, n : n + (IF el.kind = "text" THEN Sizes[el.val] ELSE el.val), 0, row)
ShownAsWritten ==
  /\ TextsIn(rendering.out \o Held) = SaidTexts
  /\ LET items == SelectSeq(rendering.out, LAMBDA el : el.kind = "item")
         begun == Positions(LAMBDA i : document[i].event = "start" /\ document[i].tag = "item")
     IN [n \in DOMAIN items |-> items[n].val] = [n \in DOMAIN begun |-> ItemNumber(begun[n])]
  /\ \A i \in DOMAIN rendering.out : rendering.out[i].kind = "table" =>
       \A a, b \in DOMAIN rendering.out[i].val : OnScreen(rendering.out[i].val[a]) = OnScreen(rendering.out[i].val[b])
  /\ read = Len(document) => [rendering EXCEPT !.out = <<>>] = NoState
=============================================================================
