--------------------------- MODULE SlashCommands ---------------------------
(***************************************************************************)
(* Slash commands: how a line becomes a command (commands/src/lib.rs) and  *)
(* what those that take them do with it: the interactive loop, line by     *)
(* line, --resume, one after the other, and the arguments of the program   *)
(* themselves, if they begin with a slash (claw-cli/src/main.rs).  The     *)
(* table of commands that help and completion are made of, the parser and  *)
(* the three dispatches each list the commands for themselves.  What a     *)
(* command does is left to the modules about it: here it works or fails.   *)
(***************************************************************************)
EXTENDS Integers, Sequences, FiniteSets, SequencesExt, FiniteSetsExt

CONSTANTS
  Lines,       \* what may be typed: slashes, a gap behind them, words
  MaxLines,    \* bound: lines typed, or commands of --resume
  Sorted,      \* the names of commands in their order
  SmallWords        \* words the distance is compared on

VARIABLES
  surface,     \* loop, batch or direct
  given,       \* the line at hand, if any
  done,        \* what became of the lines: [line, variant, args, how, hints]
  over         \* the program has ended

slashVars == <<surface, given, done, over>>

Fewer(a, b) == IF a < b THEN a ELSE b

-----------------------------------------------------------------------------
(* The table.                                                              *)
Listed(name, resume) == [name |-> name, aliases |-> {}, resume |-> resume]
Specs ==
  {Listed(n, TRUE) : n \in {"help", "status", "compact", "clear", "cost", "config", "memory", "init", "diff",
                          "version", "export", "agents", "skills"}}
  \cup {Listed(n, FALSE) : n \in {"model", "permissions", "resume", "bughunter", "branch", "worktree", "commit",
                                "commit-push-pr", "pr", "issue", "ultraplan", "teleport", "debug-tool-call",
                                "session"}}
  \cup {[Listed("plugin", FALSE) EXCEPT !.aliases = {"plugins", "marketplace"}]}
NamesOf(spec) == {spec.name} \cup spec.aliases
TableNames == UNION {NamesOf(s) : s \in Specs}
ResumeSupported == {s.name : s \in {x \in Specs : x.resume}}
Completed == TableNames \cup {"vim", "exit", "quit"}

(* The parser: all slashes are taken off before the word; the text behind  *)
(* it is looked for behind one slash and the word.                         *)
OneWord    == {"model", "permissions", "resume", "config", "export"}
TwoWords   == {"branch", "session"}
ThreeWords == {"worktree"}
AllText    == {"bughunter", "commit-push-pr", "pr", "issue", "ultraplan", "teleport", "agents", "skills"}
NoWords    == {"help", "status", "compact", "commit", "debug-tool-call", "cost", "memory", "init", "diff", "version"}
WordsBehind(line) == IF line.words = <<>> THEN <<>> ELSE Tail(line.words)
FirstOf(words, n) == SubSeq(words, 1, Fewer(n, Len(words)))

WordOf(line) == IF line.words = <<>> THEN "" ELSE Head(line.words)
Known == NoWords \cup OneWord \cup TwoWords \cup ThreeWords \cup AllText \cup {"clear", "plugin"}
NotMarketplace(word) == IF word = "plugins" THEN "plugin" ELSE IF word \in Known THEN word ELSE "unknown"
Variant(word) ==
  IF word \in {"plugins", "marketplace"} THEN "plugin" ELSE IF word \in Known THEN word ELSE "unknown"
Args(line) ==
  LET v == Variant(WordOf(line)) IN
  CASE v \in OneWord    -> FirstOf(WordsBehind(line), 1)
    [] v \in TwoWords   -> FirstOf(WordsBehind(line), 2)
    [] v \in ThreeWords -> FirstOf(WordsBehind(line), 3)
    [] v \in AllText    -> IF line.slashes = 1 /\ ~line.gap THEN WordsBehind(line) ELSE <<>>
    [] v = "plugin"     -> WordsBehind(line)
    [] v = "clear"      -> IF FirstOf(WordsBehind(line), 1) = <<"--confirm">> THEN <<"--confirm">> ELSE <<>>
    [] OTHER            -> <<>>

-----------------------------------------------------------------------------
(* Suggestions.  The distance is made row by row, one for each letter of   *)
(* the left word, and each row from left to right.                         *)
Letter(word, i) == SubSeq(word, i, i)
RECURSIVE RowFrom(_, _, _, _)
RowFrom(row, previous, letter, right) ==
  LET j == Len(row) IN
  IF j > Len(right) THEN row
  ELSE RowFrom(Append(row, Fewer(previous[j] + (IF letter = Letter(right, j) THEN 0 ELSE 1),
                                 Fewer(previous[j + 1], row[j]) + 1)), previous, letter, right)
RECURSIVE RowAfter(_, _, _)
RowAfter(n, left, right) ==
  IF n = 0 THEN [j \in 1..(Len(right) + 1) |-> j - 1]
  ELSE LET previous == RowAfter(n - 1, left, right) IN RowFrom(<<n>>, previous, Letter(left, n), right)
Distance(left, right) ==
  IF left = right THEN 0
  ELSE IF Len(left) = 0 THEN Len(right)
  ELSE IF Len(right) = 0 THEN Len(left)
  ELSE RowAfter(Len(left), left, right)[Len(right) + 1]

HasPart(word, part) == \E i \in 0..(Len(word) - Len(part)) : SubSeq(word, i + 1, i + Len(part)) = part

(* For the program's arguments: how well a name fits, and the first three  *)
(* of the commands, by that, their length and their name.                  *)
Fit(name, typed) ==
  LET letters == name IN
  IF letters = typed THEN {<<0, Len(letters)>>}
  ELSE IF IsPrefix(typed, letters) THEN {<<1, Len(letters)>>}
  ELSE IF HasPart(letters, typed) THEN {<<2, Len(letters)>>}
  ELSE {<<3 + d, Len(letters)>> : d \in {x \in {Distance(letters, typed)} : x <= 2}}
Better(a, b) == a[1] < b[1] \/ (a[1] = b[1] /\ a[2] < b[2])
NameRank(name) == CHOOSE i \in DOMAIN Sorted : Sorted[i] = name
BestFit(spec, typed) ==
  LET fits == UNION {Fit(n, typed) : n \in NamesOf(spec)}
  IN {f \in fits : ~\E g \in fits : Better(g, f)}
Ahead(x, y) == Better(x, y) \/ (~Better(y, x) /\ NameRank(x[3]) < NameRank(y[3]))
BestThree(candidates) ==    \* the first three of triples: two numbers and a name
  [i \in 1..Fewer(3, Cardinality(candidates)) |->
     CHOOSE x \in candidates : Cardinality({y \in candidates : Ahead(y, x)}) = i - 1]
NamesInOrder(sequence) == [i \in DOMAIN sequence |-> sequence[i][3]]
SuggestCommands(typed) ==
  IF Len(typed) = 0 THEN <<>>
  ELSE NamesInOrder(BestThree(UNION {{<<f[1], f[2], s.name>> : f \in BestFit(s, typed)} : s \in Specs}))

(* In the loop: names the word begins, or that begin it, and those near.   *)
SuggestInLoop(typed) ==
  IF Len(typed) = 0 THEN <<>>
  ELSE NamesInOrder(BestThree(
         {<<Distance(typed, n), 0, n>> :
            n \in {m \in Completed : IsPrefix(typed, m) \/ IsPrefix(m, typed)
                                        \/ Distance(typed, m) <= 2}}))

-----------------------------------------------------------------------------
Nobody == [slashes |-> 0, gap |-> FALSE, words |-> <<>>]
SlashInit ==
  /\ surface \in {"loop", "batch", "direct"}
  /\ given = Nobody /\ done = <<>> /\ over = FALSE

TypeLine ==
  /\ ~over /\ given = Nobody /\ Len(done) < MaxLines
  /\ given' \in Lines
  /\ UNCHANGED <<surface, done, over>>

Becomes(how, hints, ends) ==
  /\ done' = Append(done, [line |-> given, variant |-> Variant(WordOf(given)), args |-> Args(given),
                           how |-> how, hints |-> hints])
  /\ over' = ends /\ given' = Nobody /\ UNCHANGED surface

Plainly(word) == given = [slashes |-> 1, gap |-> FALSE, words |-> <<word>>]
IsCommand == given.slashes > 0

(* The loop.  The editor keeps /vim to itself, and the loop two words that *)
(* stand alone; three commands are only told to be unavailable; a command  *)
(* that fails ends the program.                                            *)
Unavailable == {"branch", "worktree", "commit-push-pr"}
Steady      == {"help", "status", "cost", "version"}
TakeInLoop ==
  /\ surface = "loop" /\ given # Nobody
  /\ CASE Plainly("vim") -> Becomes("editor", <<>>, FALSE)
       [] Plainly("exit") \/ Plainly("quit") -> Becomes("exit", <<>>, TRUE)
       [] ~IsCommand -> \E ends \in BOOLEAN : Becomes("turn", <<>>, ends)
       [] OTHER ->
            LET v == Variant(WordOf(given)) IN
            CASE v = "unknown"      -> Becomes("unknown", SuggestInLoop(WordOf(given)), FALSE)
              [] v \in Unavailable  -> Becomes("unavailable", <<>>, FALSE)
              [] OTHER -> \/ Becomes("ran", <<>>, FALSE)
                          \/ v \notin Steady /\ Becomes("failed", <<>>, TRUE)

(* --resume, which tells of an unknown command as of one it does not take. *)
InBatch ==
  {"help", "compact", "clear", "status", "cost", "config", "memory", "init", "diff", "version", "export", "agents",
   "skills"}
TakeInBatch ==
  /\ surface = "batch" /\ given # Nobody
  /\ IF ~IsCommand \/ Variant(WordOf(given)) \notin InBatch THEN Becomes("unsupported", <<>>, TRUE)
     ELSE \/ Becomes("ran", <<>>, FALSE)
          \/ Variant(WordOf(given)) \notin {"help", "cost", "version"} /\ Becomes("failed", <<>>, TRUE)

(* claw /word ...: three commands can be given this way.                   *)
TakeDirect ==
  /\ surface = "direct" /\ given # Nobody
  /\ LET v == Variant(WordOf(given)) IN
     CASE ~IsCommand -> Becomes("turn", <<>>, TRUE)
       [] IsCommand /\ v \in {"help", "agents", "skills"} -> Becomes("ran", <<>>, TRUE)
       [] IsCommand /\ v = "unknown" -> Becomes("unknown", SuggestCommands(WordOf(given)), TRUE)
       [] OTHER -> Becomes("unsupported", <<>>, TRUE)

SlashNext == TypeLine \/ TakeInLoop \/ TakeInBatch \/ TakeDirect
SlashSpec == SlashInit /\ [][SlashNext]_slashVars

-----------------------------------------------------------------------------
(* The fewest letters to take out, put in or replace.                      *)
RECURSIVE FewestEdits(_, _)
FewestEdits(a, b) ==
  IF Len(a) = 0 \/ Len(b) = 0 THEN Len(a) + Len(b)
  ELSE Fewer(FewestEdits(Tail(a), Tail(b)) + (IF Letter(a, 1) = Letter(b, 1) THEN 0 ELSE 1),
             1 + Fewer(FewestEdits(Tail(a), b), FewestEdits(a, Tail(b))))
ASSUME DistanceIsFewest == \A a, b \in SmallWords : Distance(a, b) = FewestEdits(a, b)

(* What help lists and completion offers is what the parser knows and what *)
(* the loop takes; --resume takes what is marked for it and no more, and   *)
(* runs nothing behind a command that it does not take or that fails; a    *)
(* command that is not known is answered with commands there are, at most  *)
(* three, none twice and none further off than one left out; and what is   *)
(* typed behind a command reaches it.                                      *)
CommandsAreTaken ==
  done # <<>> =>
    LET d == Last(done)
        word == WordOf(d.line)
    IN /\ surface = "loop" /\ d.line.slashes = 1 /\ ~d.line.gap =>
            (d.how = "unknown" <=> word \notin TableNames /\ (word \notin Completed \/ Len(d.line.words) > 1))
       /\ surface = "batch" =>
            /\ d.how \in {"ran", "failed"} =>
                 d.line.slashes > 0 /\ \E s \in Specs : word \in NamesOf(s) /\ s.name \in ResumeSupported
            /\ d.how = "unsupported" /\ d.line.slashes > 0 => word \notin ResumeSupported
            /\ d.how # "ran" => over
            /\ \A i \in 1..(Len(done) - 1) : done[i].how = "ran"
       /\ IsInjective(d.hints) /\ Range(d.hints) \subseteq Completed /\ Len(d.hints) <= 3
       /\ d.how = "unknown" =>
            \A n \in TableNames \ Range(d.hints) :
              LET far == Distance(word, n) IN
              far <= 2 /\ word # "" /\ n \notin {"plugins", "marketplace"} =>
                /\ Len(d.hints) = 3
                /\ surface = "loop" =>
                     \A h \in Range(d.hints) : Distance(word, h) <= far
       /\ d.how = "ran" /\ d.line.slashes = 1 /\ ~d.line.gap /\ d.variant \in AllText \cup {"plugin"} =>
            d.args = Tail(d.line.words)
=============================================================================
