---------------------------- MODULE Instructions ----------------------------
(***************************************************************************)
(* The instruction files of a project in the system prompt: those of the   *)
(* working directory and of every directory around it, found outermost     *)
(* first, copies left out, and cut to a budget for each and one for all    *)
(* (discover_instruction_files and render_instruction_files of prompt.rs). *)
(* A text is what it says once blank lines are collapsed, and its length.  *)
(***************************************************************************)
EXTENDS Naturals, Sequences

CONSTANTS
  Projects,    \* what may be at the candidate places, outermost first: each
               \* [is, says, length]: nothing, blank, unreadable or a text
  PerFile,     \* MAX_INSTRUCTION_FILE_CHARS
  Total,       \* MAX_TOTAL_INSTRUCTION_CHARS
  Mark         \* characters of the mark of a text that was cut

Candidate == [is : {"nothing", "blank", "unreadable", "text"}, says : STRING, length : Nat]

ASSUME InstructionAssumption ==
  /\ Projects \subseteq Seq(Candidate)
  /\ PerFile \in Nat \ {0} /\ Total \in Nat \ {0} /\ Mark \in Nat \ {0}
  /\ PerFile <= Total

VARIABLES
  places,      \* candidates that are not read yet
  found,       \* texts that were read
  distinct,    \* those among them that are no copies
  sections,    \* texts in the prompt: how many characters of the text, and of marks
  left,        \* characters of the budget that are left
  status       \* reading, writing, complete, omitted or failed

instructionVars == <<places, found, distinct, sections, left, status>>

InstructionInit ==
  /\ places \in Projects
  /\ found = <<>> /\ distinct = <<>> /\ sections = <<>>
  /\ left = Total /\ status = "reading"

-----------------------------------------------------------------------------
(* One place after the other; one that is there and cannot be read ends    *)
(* the prompt, and with it the start of the program.                       *)
ReadPlace ==
  /\ status = "reading" /\ places # <<>>
  /\ places' = Tail(places)
  /\ found' = IF Head(places).is = "text" THEN Append(found, Head(places)) ELSE found
  /\ status' = IF Head(places).is = "unreadable" THEN "failed" ELSE status
  /\ UNCHANGED <<distinct, sections, left>>

(* The first of several copies stays, that is the outermost.               *)
WithNew(kept, text) ==
  IF \E i \in DOMAIN kept : kept[i].says = text.says THEN kept ELSE Append(kept, text)
WithoutCopies(texts) ==
  LET kept[n \in 0..Len(texts)] == IF n = 0 THEN <<>> ELSE WithNew(kept[n - 1], texts[n])
  IN kept[Len(texts)]

LeaveCopiesOut ==
  /\ status = "reading" /\ places = <<>>
  /\ distinct' = WithoutCopies(found)
  /\ status' = IF distinct' = <<>> THEN "complete" ELSE "writing"
  /\ UNCHANGED <<places, found, sections, left>>

(* What is too long ends in a mark that is not counted.  It is looked at   *)
(* twice, so that the first mark may be cut itself.                        *)
Lesser(m, n)     == IF m < n THEN m ELSE n
Size(text)      == text.kept + text.marks
Cut(text, most) ==
  IF Size(text) <= most THEN text
  ELSE [text EXCEPT !.kept = Lesser(@, most), !.marks = most - Lesser(text.kept, most) + Mark]
Rendered(file)  ==
  Cut(Cut([says |-> file.says, kept |-> file.length, marks |-> 0], Lesser(PerFile, left)), PerFile)

(* What the budget is charged; first, the length of the file.              *)
FileCharged(file) == Lesser(file.length, left)
Charged(file) == Lesser(Size(Rendered(file)), left)

Pending == distinct[Len(sections) + 1]

WriteSection ==
  /\ status = "writing" /\ left > 0
  /\ sections' = Append(sections, Rendered(Pending))
  /\ left' = left - Charged(Pending)
  /\ status' = IF Len(sections') = Len(distinct) THEN "complete" ELSE status
  /\ UNCHANGED <<places, found, distinct>>

(* A note takes the place of all texts behind.                             *)
WriteNote ==
  /\ status = "writing" /\ left = 0
  /\ status' = "omitted"
  /\ UNCHANGED <<places, found, distinct, sections, left>>

InstructionNext == ReadPlace \/ LeaveCopiesOut \/ WriteSection \/ WriteNote
InstructionSpec == InstructionInit /\ [][InstructionNext]_instructionVars

-----------------------------------------------------------------------------
SizeOfAll(texts) ==
  LET sum[n \in 0..Len(texts)] == IF n = 0 THEN 0 ELSE sum[n - 1] + Size(texts[n])
  IN sum[Len(texts)]
Written == SizeOfAll(sections)

(* The texts fill the budget and stay within it, but for the marks of the  *)
(* last one.  Each text that was found is there just once, the outer       *)
(* before the inner (a first copy before any of the next text), whole or   *)
(* marked as cut -- or there is a note, and then the budget is used up: no *)
(* text is missing in silence.                                             *)
InstructionsFit ==
  /\ Written < Total + 2 * Mark
  /\ \A i \in DOMAIN sections :
       /\ sections[i].says = distinct[i].says
       /\ sections[i].kept = distinct[i].length \/ sections[i].marks >= Mark
       /\ sections[i].marks > 0 => Size(sections[i]) >= PerFile \/ Written >= Total
  /\ \A s, t \in DOMAIN sections : s < t =>
       \E i \in DOMAIN found :
         found[i].says = sections[s].says /\ \A j \in 1..i : found[j].says # sections[t].says
  /\ status = "complete" =>
       \A i \in DOMAIN found : \E s \in DOMAIN sections :
         /\ sections[s].says = found[i].says
         /\ \A t \in DOMAIN sections : sections[t].says = found[i].says => t = s
  /\ status = "omitted" => Len(sections) < Len(distinct) /\ Written >= Total
=============================================================================
