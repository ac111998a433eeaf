----------------------------- MODULE FileSearch -----------------------------
(***************************************************************************)
(* What tools read of files (runtime/src/file_ops.rs): read_file, in parts *)
(* by offset and limit; glob_search, the newest first and no more than a   *)
(* bound; grep_search, whose answer is cut by offset and head_limit and    *)
(* tells whether it was.  A reader asks for part after part until it is    *)
(* told that there are no more, while files may change, and directories    *)
(* may be shut to the program.  A line is what the pattern makes of it:    *)
(* how often it matches.                                                   *)
(***************************************************************************)
EXTENDS Naturals, Sequences, FiniteSets, SequencesExt

CONSTANTS
  Paths,        \* in the order of the walk
  Texts,        \* texts a file may have: sequences of how often each line matches
  Questions,    \* [tool, path, limit, offset, mode, before, after, filter]
  MaxNewest,    \* files glob_search tells, 100 in the code
  Default,      \* entries grep_search tells if no limit is given, 250 in the code
  MaxChanges    \* bound: changes of files and directories

(* The walk comes by a file once; a limit is a number or none.             *)
ASSUME SearchAssumption ==
  /\ Paths \in Seq(ToSet(Paths)) /\ IsInjective(Paths)
  /\ Texts \subseteq Seq(Nat)
  /\ Questions \subseteq
       [tool : {"read", "glob", "grep"}, path : ToSet(Paths), limit : SUBSET Nat, offset : Nat,
        mode : {"content", "count", "files_with_matches"}, before : Nat, after : Nat,
        filter : SUBSET ToSet(Paths)]
  /\ \A q \in Questions : \A m, n \in q.limit : m = n
  /\ MaxNewest \in Nat /\ Default \in Nat

VARIABLES
  texts,        \* files and their lines; a file that is not there has none, any other has some
  ages,         \* paths, the newest first
  shut,         \* files in directories that the program may not enter
  question,     \* what is asked, with the offset of the first part
  heard,        \* the parts so far
  full,         \* history: what one answer without a limit would have been at first
  steady,       \* history: nothing has changed since the first part
  changes       \* changes so far

searchVars == <<texts, ages, shut, question, heard, full, steady, changes>>

Lower(a, b) == IF a < b THEN a ELSE b
Minus(a, b) == IF a < b THEN 0 ELSE a - b    \* saturating_sub
Given(option, otherwise) == IF option = {} THEN otherwise ELSE CHOOSE x \in option : TRUE

(* What a sequence has of a set, in its order.                             *)
Kept(s, S) ==
  LET kept[n \in 0..Len(s)] ==
        IF n = 0 THEN <<>> ELSE IF s[n] \in S THEN Append(kept[n - 1], s[n]) ELSE kept[n - 1]
  IN kept[Len(s)]

-----------------------------------------------------------------------------
Failure ==
  [items |-> <<>>, startLine |-> 0, total |-> 0, more |-> FALSE, names |-> <<>>, failed |-> TRUE]

ReadFile(lines, offset, limit) ==
  LET start == Lower(offset, Len(lines))
      end   == IF limit = {} THEN Len(lines) ELSE Lower(start + Given(limit, 0), Len(lines))
  IN [items |-> [i \in 1..(end - start) |-> <<start + i, lines[start + i]>>],
      startLine |-> start + 1, total |-> Len(lines), more |-> FALSE, names |-> <<>>,
      failed |-> FALSE]

(* ages is the order of the sort by the time of the last change.  What is  *)
(* in a directory that is shut is left out without a word.                 *)
GlobSearch(found) ==
  LET files == Kept(ages, found)
      first == SubSeq(files, 1, Lower(MaxNewest, Len(files)))
  IN [items |-> first, startLine |-> 1, total |-> Len(first), more |-> Len(files) > MaxNewest,
      names |-> <<>>, failed |-> FALSE]

(* The part of the answer, and whether it was cut.  First, with the limit  *)
(* counted from the beginning.                                             *)
LimitFirst(items, limit, offset) ==
  LET rest == SubSeq(items, offset + 1, Len(items))
      most == Given(limit, Default)
  IN IF most = 0 THEN [items |-> rest, cut |-> FALSE]
     ELSE [items |-> SubSeq(items, offset + 1, Lower(most, Len(items))), cut |-> Len(rest) > most]
ApplyLimit(items, limit, offset) ==
  LET rest == SubSeq(items, offset + 1, Len(items))
      most == Given(limit, Default)
  IN IF most = 0 THEN [items |-> rest, cut |-> FALSE]
     ELSE [items |-> SubSeq(rest, 1, Lower(most, Len(rest))), cut |-> Len(rest) > most]

Matched(lines) == Kept([i \in DOMAIN lines |-> i], {i \in DOMAIN lines : lines[i] > 0})
(* A match and the lines around it, for each match anew.                   *)
Shown(path, lines, before, after) ==
  FlattenSeq([m \in DOMAIN Matched(lines) |->
    LET at    == Matched(lines)[m]
        first == Minus(at, before + 1) + 1
        last  == Lower(at + after, Len(lines))
    IN [i \in 1..(last + 1 - first) |-> <<path, first + i - 1>>]])

(* One directory that cannot be entered and the whole search fails: the    *)
(* walk goes everywhere, whatever the filters.                             *)
Searched(q) ==
  Kept(Paths, {p \in q.filter : \E i \in DOMAIN texts[p] : texts[p][i] > 0})
GrepSearch(q) ==
  LET files == Searched(q)
      names == ApplyLimit(files, q.limit, q.offset)
      lines == ApplyLimit(FlattenSeq([i \in DOMAIN files |-> Shown(files[i], texts[files[i]], q.before, q.after)]),
                          q.limit, q.offset)
      part  == IF q.mode = "content" THEN lines ELSE names
  IN IF shut # {} THEN Failure ELSE
     [items |-> part.items, more |-> part.cut, startLine |-> q.offset + 1, names |-> names.items,
      failed |-> FALSE,
      total |-> IF q.mode = "count" THEN FoldSeq(+, 0, FlattenSeq([i \in DOMAIN files |-> texts[files[i]]])) ELSE 0]

Found(q) == {p \in q.filter : texts[p] # <<>> /\ p \notin shut}
Readable(p) == texts[p] # <<>> /\ p \notin shut
Part(q) ==
  CASE q.tool = "read" -> IF Readable(q.path) THEN ReadFile(texts[q.path], q.offset, q.limit) ELSE Failure
    [] q.tool = "glob" -> GlobSearch(Found(q))
    [] q.tool = "grep" -> GrepSearch(q)

-----------------------------------------------------------------------------
Unlimited(q) == [q EXCEPT !.limit = IF q.tool = "grep" THEN {0} ELSE {}]

SearchInit ==
  /\ texts \in [ToSet(Paths) -> Texts]
  /\ ages = Paths /\ shut \in SUBSET ToSet(Paths) /\ question \in Questions
  /\ heard = <<>> /\ steady = TRUE /\ changes = 0
  /\ full = Part(Unlimited(question))

(* A reader asks on: in a file until its number of lines is reached, in a  *)
(* search until it is told to be whole.  After a failure it gives up.      *)
Wants(part) ==
  CASE question.tool = "read" -> part.items # <<>> /\ Last(part.items)[1] < part.total
    [] question.tool = "grep" -> part.more
    [] OTHER -> FALSE
Items(parts) == FlattenSeq([i \in DOMAIN parts |-> parts[i].items])
Ask ==
  /\ heard # <<>> => Wants(Last(heard))
  /\ heard' = Append(heard, Part([question EXCEPT !.offset = @ + Len(Items(heard))]))
  /\ UNCHANGED <<texts, ages, shut, question, full, steady, changes>>

(* A file is written, and is then the newest; a directory is shut or       *)
(* opened.                                                                 *)
Modify ==
  /\ changes < MaxChanges /\ UNCHANGED <<question, heard>>
  /\ \/ /\ UNCHANGED shut
        /\ \E p \in ToSet(Paths), t \in Texts :
             /\ texts' = [texts EXCEPT ![p] = t]
             /\ ages' = <<p>> \o Kept(ages, ToSet(Paths) \ {p})
     \/ UNCHANGED <<texts, ages>> /\ shut' \in SUBSET ToSet(Paths)
  /\ full' = IF heard = <<>> THEN Part(Unlimited(question))' ELSE full
  /\ steady' = (heard = <<>>) /\ changes' = changes + 1

SearchNext == Ask \/ Modify
SearchSpec == SearchInit /\ [][SearchNext]_searchVars

-----------------------------------------------------------------------------
(* Part after part, a reader gets what one answer without a limit would    *)
(* have told, each entry once and in its place, and is told that there are *)
(* more exactly if there are; no part is longer than asked for.  The lines *)
(* shown of a search are those near a match, and no others.  A file that   *)
(* changes between two parts may shift its lines, but no line number is    *)
(* told twice.  glob_search tells the newest files, the newest first, and  *)
(* marks exactly if there are others.  An answer fails, rather than to be  *)
(* short, if the file cannot be read or a directory not be searched, but   *)
(* for glob_search, which leaves out what it cannot reach.                 *)
NearMatch(p, n) ==
  \E m \in DOMAIN texts[p] : texts[p][m] > 0 /\ m <= n + question.before /\ n <= m + question.after
Newer(p, o) == \E i, j \in DOMAIN ages : i < j /\ ages[i] = p /\ ages[j] = o

PartsMakeTheWhole ==
  (question.tool # "glob" /\ heard # <<>> /\ ~(question.tool = "read" /\ question.limit = {0})) =>
    /\ IsPrefix(Items(heard), full.items)
    /\ Wants(Last(heard)) <=> Len(Items(heard)) < Len(full.items)
NewestOf(found, list) ==
  /\ ToSet(list) \subseteq found /\ Len(list) = Lower(MaxNewest, Cardinality(found))
  /\ \A i, j \in DOMAIN list : i < j => Newer(list[i], list[j])
  /\ \A p \in ToSet(list), o \in found \ ToSet(list) : Newer(p, o)
NewestAreTold ==
  (question.tool = "glob" /\ heard # <<>>) =>
    /\ NewestOf(Found(question), heard[1].items)
    /\ heard[1].more <=> Cardinality(Found(question)) > MaxNewest
FailuresAreTold ==
  \A i \in DOMAIN heard :
    heard[i].failed <=> \/ question.tool = "read" /\ ~Readable(question.path)
                        \/ question.tool = "grep" /\ shut # {}
PagesCover ==
  /\ steady => PartsMakeTheWhole /\ NewestAreTold /\ FailuresAreTold
  /\ \A i \in DOMAIN heard :
       question.tool # "glob" /\ question.limit \notin {{}, {0}} =>
         Len(heard[i].items) <= Given(question.limit, 0)
  /\ question.tool = "read" =>
       \A i, j \in DOMAIN Items(heard) : i < j => Items(heard)[i][1] < Items(heard)[j][1]
  /\ question.tool = "grep" /\ question.mode = "content" /\ question.offset = 0 /\ steady
     /\ ~full.failed =>
       ToSet(full.items) =
         UNION {{<<p, n>> : n \in {m \in DOMAIN texts[p] : NearMatch(p, m)}} : p \in question.filter}
=============================================================================
