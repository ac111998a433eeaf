----------------------------- MODULE LineEditor -----------------------------
(***************************************************************************)
(* The prompt of the interactive program: the line editor with its vim     *)
(* modes, history and completion (claw-cli/src/input.rs), and the loop     *)
(* that reads lines with it (run_repl in claw-cli/src/main.rs).  A text is *)
(* a sequence of bytes, as offsets count bytes and Rust panics when a text *)
(* is cut within a character.                                              *)
(***************************************************************************)
EXTENDS Integers, FiniteSets, Sequences, SequencesExt

CONSTANTS
  Typed,        \* characters that are typed into a text
  Completions,  \* the slash commands Tab completes, in their order
  Histories,    \* lines submitted before
  MaxBytes,     \* bound: bytes of a text
  MaxPresses    \* bound: keys pressed

ASSUME EditorAssumption == MaxBytes \in Nat /\ MaxPresses \in Nat

VARIABLES
  session,      \* EditSession: the line being edited
  lines,        \* the history of submitted lines
  yank,         \* the line that dd or yy has kept
  vim,          \* vim_enabled
  completion,   \* the completion that Tab goes on with
  program,      \* reading, over or panicked
  presses,      \* bound: keys left
  draft         \* history: the text when the walk through the lines began

editorVars == <<session, lines, yank, vim, completion, program, presses, draft>>

-----------------------------------------------------------------------------
(* Characters: all take a byte but one.                                    *)
Newline     == "\n"
Bytes(char) == IF char = "wide" THEN <<"lead", "tail">> ELSE <<char>>
Command(c)  == <<"/", c>>          \* a slash command, its name one letter

Whole(text) ==
  \A i \in DOMAIN text :
    /\ text[i] = "tail" => i > 1 /\ text[i - 1] = "lead"
    /\ text[i] = "lead" => i < Len(text) /\ text[i + 1] = "tail"
Boundary(text, i) == i = Len(text) \/ (i \in 0..(Len(text) - 1) /\ text[i + 1] # "tail")

(* The names of the slash commands have no wide characters.                *)
ASSUME TextsAssumption ==
  /\ Typed \subseteq STRING \ {"lead", "tail"}
  /\ Completions \in Seq(Seq(STRING \ {"lead", "tail"}))
  /\ \A h \in Histories : h \in Seq(Seq(STRING)) /\ \A i \in DOMAIN h : Whole(h[i])

Largest(S)  == CHOOSE i \in S : \A j \in S : j <= i
Smallest(S) == CHOOSE i \in S : \A j \in S : i <= j
Least(i, j) == Smallest({i, j})

Before(text, i)     == SubSeq(text, 1, i)
After(text, i)      == SubSeq(text, i + 1, Len(text))
Inserted(text, i, b) == Before(text, i) \o b \o After(text, i)
Drained(text, i, j) == Before(text, i) \o After(text, j)

(* previous_boundary and next_boundary: the neighbouring offsets at which  *)
(* a character begins.                                                     *)
PreviousBoundary(text, i) == Largest({0} \cup {j \in 0..(i - 1) : Boundary(text, j)})
NextBoundary(text, i) == Smallest({Len(text)} \cup {j \in (i + 1)..Len(text) : Boundary(text, j)})

LineStart(text, i) == Largest({0} \cup {j \in 1..i : text[j] = Newline})
LineEnd(text, i)   == Smallest({Len(text)} \cup {j \in i..(Len(text) - 1) : text[j + 1] = Newline})
Row(text, i)       == Cardinality({j \in 1..i : text[j] = Newline})
Column(text, i)    == Cardinality({j \in LineStart(text, i)..(i - 1) : Boundary(text, j)})

(* move_vertical: the same column of another row, or the end of a shorter  *)
(* one.                                                                    *)
Vertical(text, i, row) ==
  IF row \notin 0..Row(text, Len(text)) THEN i
  ELSE LET start == Smallest({j \in 0..Len(text) : Row(text, j) = row})
           end   == LineEnd(text, start) IN
       Smallest({end} \cup {j \in start..end : Boundary(text, j) /\ Column(text, j) = Column(text, i)})

Blank(byte) == byte \in {" ", Newline}
Trimmed(text) ==
  LET solid == {i \in DOMAIN text : ~Blank(text[i])} IN
  IF solid = {} THEN <<>> ELSE SubSeq(text, Smallest(solid), Largest(solid))

-----------------------------------------------------------------------------
(* The editing session.  In command mode the keys act on the command that  *)
(* begins with a colon, else on the text.                                  *)
NoAnchor == -1

NewSession(v) ==
  [text |-> <<>>, cursor |-> 0, mode |-> IF v THEN "insert" ELSE "plain",
   operator |-> "none", anchor |-> NoAnchor, command |-> <<>>, spot |-> 0,
   index |-> 0, backup |-> <<>>]

Active(s)     == IF s.mode = "command" THEN s.command ELSE s.text
Cursor(s)     == IF s.mode = "command" THEN s.spot ELSE s.cursor
Moved(s, i)   == IF s.mode = "command" THEN [s EXCEPT !.spot = i] ELSE [s EXCEPT !.cursor = i]
Changed(s, t) == IF s.mode = "command" THEN [s EXCEPT !.command = t] ELSE [s EXCEPT !.text = t]
InMode(s, mode) ==
  [s EXCEPT !.mode = mode, !.operator = "none", !.anchor = IF mode = "visual" THEN s.cursor ELSE NoAnchor]

Insert(s, b) ==
  Moved(Changed(s, Inserted(Active(s), Cursor(s), b)), Cursor(s) + Len(b))

Left(s) == LET i == PreviousBoundary(Active(s), Cursor(s)) IN
  Moved(s, IF s.mode = "command" /\ i = 0 THEN 1 ELSE i)
Right(s) == Moved(s, NextBoundary(Active(s), Cursor(s)))
Home(s) == Moved(s, IF s.mode = "command" THEN 1 ELSE LineStart(s.text, s.cursor))
End(s)  == Moved(s, IF s.mode = "command" THEN Len(s.command) ELSE LineEnd(s.text, s.cursor))
Up(s)   == [s EXCEPT !.cursor = Vertical(s.text, s.cursor, Row(s.text, s.cursor) - 1)]
Down(s) == [s EXCEPT !.cursor = Vertical(s.text, s.cursor, Row(s.text, s.cursor) + 1)]

DeleteUnder(s) == Changed(s, Drained(Active(s), Cursor(s), NextBoundary(Active(s), Cursor(s))))

LeaveCommand(s) == InMode([s EXCEPT !.command = <<>>, !.spot = 0], "normal")

Backspace(s) ==
  CASE s.mode \in {"normal", "visual"}       -> Left(s)
    [] s.mode = "command" /\ s.spot <= 1     -> LeaveCommand(s)
    [] OTHER -> LET i == PreviousBoundary(Active(s), Cursor(s)) IN
                Moved(Changed(s, Drained(Active(s), i, Cursor(s))), i)

Escape(s) ==
  CASE s.mode = "insert"  -> InMode([s EXCEPT !.cursor = PreviousBoundary(s.text, s.cursor)], "normal")
    [] s.mode = "visual"  -> InMode(s, "normal")
    [] s.mode = "command" -> LeaveCommand(s)
    [] OTHER              -> s

(* current_line_delete_range: the line with its newline, and with the last *)
(* line the newline before it.                                             *)
LineFrom(s) == LineStart(s.text, s.cursor)
LineTo(s)   == Least(LineEnd(s.text, s.cursor) + 1, Len(s.text))
Yanked(s)   == SubSeq(s.text, LineFrom(s) + 1, LineTo(s))

DeleteFrom(s) == IF LineTo(s) = Len(s.text) /\ LineFrom(s) > 0 THEN LineFrom(s) - 1 ELSE LineFrom(s)

DeleteLine(s) ==
  LET text == Drained(s.text, DeleteFrom(s), LineTo(s)) IN
  [s EXCEPT !.text = text, !.cursor = Least(DeleteFrom(s), Len(text))]

(* paste_after: behind the line of the cursor, with the newline that may   *)
(* be missing before or after.  All that is ever kept is a line.  Below,   *)
(* it is put in as it is.                                                  *)
Starts(text) == text # <<>> /\ Head(text) = Newline
Ends(text)   == text # <<>> /\ Last(text) = Newline

AsItIs(s, line, i) == line
Insertion(s, line, i) ==
  LET head == IF i = Len(s.text) /\ s.text # <<>> /\ ~Ends(s.text) THEN <<Newline>> ELSE <<>>
      full == head \o line IN
  IF i < Len(s.text) /\ ~Ends(full) THEN Append(full, Newline) ELSE full

Paste(s, line) ==
  LET i == Least(LineEnd(s.text, s.cursor) + 1, Len(s.text))
      b == Insertion(s, line, i) IN
  IF line = <<>> THEN s
  ELSE [s EXCEPT !.text = Inserted(s.text, i, b), !.cursor = IF Starts(b) THEN i + 1 ELSE i]

-----------------------------------------------------------------------------
EditorInit ==
  /\ vim \in BOOLEAN /\ session = NewSession(vim)
  /\ lines \in Histories /\ yank = <<>> /\ completion = <<>>
  /\ program = "reading" /\ presses \in {0, MaxPresses}
  /\ draft = <<>>

Press == program = "reading" /\ presses > 0 /\ presses' = presses - 1

(* visible_buffer: what is selected is rendered after every key, from the  *)
(* anchor, which is not moved when the text before it shrinks.             *)
RenderPanics(s) ==
  s.mode = "visual" /\ s.cursor < s.anchor /\ s.anchor < Len(s.text) /\ ~Boundary(s.text, s.anchor)

Shows(s) ==
  /\ session' = s
  /\ program' = IF RenderPanics(s) THEN "panicked" ELSE "reading"

(* Every key but Tab ends a completion.                                    *)
Edits(s) ==
  /\ Press /\ Shows(s) /\ completion' = <<>>
  /\ UNCHANGED <<lines, yank, vim, draft>>

Fits(b) == Len(Active(session)) + Len(b) <= MaxBytes
Typing  == session.mode \in {"plain", "insert", "command"}

TypeChar ==
  \E c \in Typed : Typing /\ Fits(Bytes(c)) /\ Edits(Insert(session, Bytes(c)))

TypeNewline == Typing /\ Fits(<<Newline>>) /\ Edits(Insert(session, <<Newline>>))

Move ==
  \/ Edits(Left(session)) \/ Edits(Right(session))
  \/ Edits(Home(session)) \/ Edits(End(session))

Erase == Edits(Backspace(session))
Leave == Edits(Escape(session))

Delete == Active(session) # <<>> /\ Edits(DeleteUnder(session))

(* handle_normal_char takes the pending operator whatever is typed, and    *)
(* handle_visual_char knows the motions.                                   *)
Taken == [session EXCEPT !.operator = "none"]

Motion ==
  /\ session.mode \in {"normal", "visual"}
  /\ \E s \in {Left(Taken), Down(Taken), Up(Taken), Right(Taken), Taken} : Edits(s)

ChangeMode ==
  \/ session.mode = "normal" /\ \E mode \in {"insert", "visual"} : Edits(InMode(session, mode))
  \/ session.mode = "visual" /\ Edits(InMode(session, "normal"))
  \/ session.mode = "normal" /\ Edits([InMode(session, "command") EXCEPT !.command = <<":">>, !.spot = 1])

Operator(ch) ==
  /\ session.mode = "normal" /\ session.operator # ch
  /\ Edits([session EXCEPT !.operator = ch])

(* dd keeps the line and deletes it, yy keeps it, p puts it back.          *)
KeepLine(ch, s) ==
  /\ session.mode = "normal" /\ session.operator = ch
  /\ Press /\ Shows(s) /\ completion' = <<>>
  /\ yank' = Yanked(session)
  /\ UNCHANGED <<lines, vim, draft>>

CutLine   == KeepLine("d", DeleteLine(Taken))
CopyLine  == KeepLine("y", Taken)
PasteLine ==
  /\ session.mode = "normal" /\ Len(session.text) + Len(yank) < MaxBytes
  /\ Edits(Paste(Taken, yank))

-----------------------------------------------------------------------------
(* history_up and history_down: the text that was being edited is kept     *)
(* when the walk begins and restored when it leaves the newest line.       *)
FromHistory(s, i, text) ==
  [s EXCEPT !.index = i, !.text = text, !.cursor = Len(text), !.operator = "none", !.anchor = NoAnchor,
            !.mode = IF @ \in {"plain", "insert"} THEN @ ELSE "normal"]

Older ==
  /\ Press /\ completion' = <<>>
  /\ IF session.mode = "command" \/ lines = <<>> THEN Shows(session) /\ UNCHANGED draft
     ELSE LET i == IF session.index = 0 THEN Len(lines) ELSE Largest({1, session.index - 1})
              s == IF session.index = 0 THEN [session EXCEPT !.backup = session.text] ELSE session IN
          /\ Shows(FromHistory(s, i, lines[i]))
          /\ draft' = IF session.index = 0 THEN session.text ELSE draft
  /\ UNCHANGED <<lines, yank, vim>>

Restored(s) ==
  InMode([FromHistory(s, 0, s.backup) EXCEPT !.backup = <<>>], IF vim THEN "insert" ELSE "plain")

Newer ==
  Edits(CASE session.mode = "command" \/ session.index = 0 -> session
          [] session.mode # "command" /\ session.index \in 1..(Len(lines) - 1) ->
               FromHistory(session, session.index + 1, lines[session.index + 1])
          [] OTHER -> Restored(session))

(* complete_slash_command: as long as only Tab is pressed, the commands    *)
(* that begin with what was typed, one after the other.                    *)
Extending(p) ==
  LET longer == {i \in DOMAIN Completions : IsPrefix(p, Completions[i]) /\ Completions[i] # p} IN
  [k \in 1..Cardinality(longer) |->
     Completions[CHOOSE i \in longer : Cardinality(longer \cap 1..i) = k]]
Completable(s) == /\ s.cursor = Len(s.text) /\ s.text # <<>> /\ Head(s.text) = "/"
                  /\ \A i \in DOMAIN s.text : ~Blank(s.text[i])

Offers(candidate) ==
  Shows([session EXCEPT !.text = candidate, !.cursor = Len(candidate)])

Following(matches, i) == matches[(i % Len(matches)) + 1]

Tab ==
  /\ Press
  /\ CASE session.mode = "command" -> Shows(session) /\ completion' = <<>>
       [] /\ session.mode # "command" /\ completion # <<>>
          /\ session.cursor = Len(session.text) /\ Contains(completion[1].matches, session.text) ->
            /\ Offers(Following(completion[1].matches, completion[1].next))
            /\ completion' = <<[completion[1] EXCEPT !.next = @ + 1]>>
       [] OTHER ->
            IF Completable(session) /\ Extending(session.text) # <<>>
            THEN /\ Offers(Head(Extending(session.text)))
                 /\ completion' = <<[prefix |-> session.text, next |-> 1, matches |-> Extending(session.text)]>>
            ELSE Shows(session) /\ completion' = <<>>
  /\ UNCHANGED <<lines, yank, vim, draft>>

-----------------------------------------------------------------------------
(* read_line returns, and run_repl acts on the line and reads the next.    *)
ReadsNext(v, outcomes, new) ==
  /\ Press /\ program' \in outcomes
  /\ lines' = new /\ vim' = v
  /\ session' = NewSession(v) /\ completion' = <<>> /\ draft' = <<>>
  /\ UNCHANGED yank

Interrupt ==
  ReadsNext(vim, {IF Active(session) = <<>> THEN "over" ELSE "reading"}, lines)

EndOfInput == Active(session) = <<>> /\ ReadsNext(vim, {"over"}, lines)

(* A turn or a command that fails ends the program.                        *)
Submit ==
  LET line == Active(session)
      word == Trimmed(line) IN
  CASE word = Command("v") -> ReadsNext(~vim, {"reading"}, lines)
    [] word = Command("x") -> ReadsNext(vim, {"over"}, lines)
    [] word = <<>>         -> ReadsNext(vim, {"reading"}, lines)
    [] OTHER -> ReadsNext(vim, {"reading", "over"}, IF word[1] = "/" THEN lines ELSE Append(lines, line))

EditorNext ==
  \/ TypeChar \/ TypeNewline \/ Move \/ Erase \/ Leave \/ Delete
  \/ Motion \/ ChangeMode
  \/ (\E ch \in {"d", "y"} : Operator(ch)) \/ CutLine \/ CopyLine \/ PasteLine
  \/ Older \/ Newer \/ Tab \/ Interrupt \/ EndOfInput \/ Submit

EditorSpec == EditorInit /\ [][EditorNext]_editorVars
-----------------------------------------------------------------------------
(* The lines of a text, without the empty ones at its end.                 *)
LinesOf(text) ==
  LET line(r) == LET at == SelectSeq([i \in DOMAIN text |-> i],
                                     LAMBDA i : text[i] # Newline /\ Row(text, i - 1) = r - 1) IN
                 [j \in DOMAIN at |-> text[at[j]]] IN
  [r \in 1..(Row(text, Len(text)) + 1) |-> line(r)]

Solid(ls) == SubSeq(ls, 1, Largest({0} \cup {r \in DOMAIN ls : ls[r] # <<>>}))

(* The line under the cursor, and where a line is pasted: below it, but    *)
(* over an empty last line.                                                *)
Here       == Row(session.text, session.cursor) + 1
Standing   == LET ls == LinesOf(session.text) IN IF Last(ls) = <<>> THEN Front(ls) ELSE ls
PasteAt    == Least(Here, Len(Standing)) + 1

(* Said of lines, the commands on lines do what vim does: dd keeps and     *)
(* removes the line of the cursor and p puts the line that was kept below  *)
(* it, to stand on it, whatever newlines are missing or left over at the   *)
(* end; j and k keep the column as far as the other line has it.  The      *)
(* cursor is off by one line after an empty line is pasted.                *)
LineCommandsMatch ==
  [][/\ CutLine => /\ Solid(LinesOf(session'.text)) = Solid(RemoveAt(LinesOf(session.text), Here))
                   /\ Solid(LinesOf(yank')) = Solid(<<LinesOf(session.text)[Here]>>)
     /\ PasteLine /\ yank # <<>> =>
          /\ Solid(LinesOf(session'.text)) = Solid(InsertAt(Standing, PasteAt, LinesOf(yank)[1]))
          /\ yank # <<Newline>> => Row(session'.text, session'.cursor) + 1 = PasteAt
     /\ (Motion /\ session' \in {Up(Taken), Down(Taken)} /\ session'.cursor # session.cursor) =>
          LET row == Row(session.text, session'.cursor) IN
          /\ row \in {Here - 2, Here}
          /\ Column(session.text, session'.cursor) =
               Least(Column(session.text, session.cursor),
                     Cardinality({i \in DOMAIN LinesOf(session.text)[row + 1] :
                                    LinesOf(session.text)[row + 1][i] # "tail"}))
    ]_editorVars

(* No sequence of keys tears a character, or leaves a cursor within one or *)
(* a command without its colon, and no rendering panics, except when a     *)
(* character is deleted before the anchor of a selection: the anchor       *)
(* stays, and may then lie within another character.                       *)
CursorsStayWhole ==
  [][/\ Whole(session'.text) /\ Boundary(session'.text, session'.cursor)
     /\ session'.mode = "command" =>
          /\ Whole(session'.command) /\ session'.command[1] = ":"
          /\ session'.spot > 0 /\ Boundary(session'.command, session'.spot)
     /\ program' = "panicked" => Delete /\ session.mode = "visual" /\ session.cursor < session.anchor
    ]_editorVars

(* The text that was being typed comes back when the walk through older    *)
(* lines ends, however it went, and Tab offers all commands that begin     *)
(* with what was typed, in a circle.                                       *)
NothingTypedIsLost ==
  [][/\ (Newer /\ session.index # 0 /\ session'.index = 0) => session'.text = draft
     /\ (Tab /\ completion # <<>> /\ completion' # <<>>) =>
          LET all == Extending(completion[1].prefix) IN
          \E i \in DOMAIN all : all[i] = session.text /\ session'.text = all[(i % Len(all)) + 1]
    ]_editorVars

(* Whatever keys are pressed in whatever order: the commands on lines do   *)
(* what vim's do, every cursor and selection stays within the text and     *)
(* between characters, and what was typed comes back.                      *)
KeysKeepTheText == LineCommandsMatch /\ CursorsStayWhole /\ NothingTypedIsLost
=============================================================================
