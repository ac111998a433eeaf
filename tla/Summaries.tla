----------------------------- MODULE Summaries -----------------------------
(***************************************************************************)
(* What is left of a conversation after one compaction and the next:       *)
(* compact_session with summarize_messages, merge_compact_summaries and    *)
(* what they read back of an earlier summary (runtime/src/compact.rs).     *)
(* A text is a sequence of lines, a line its indentation and what it says; *)
(* texts are short enough not to be cut, and the line of key files and the *)
(* tags around a summary are left out.  Which sessions are compacted and   *)
(* saved is module SavedSessions.                                          *)
(***************************************************************************)
EXTENDS Naturals, Sequences, SequencesExt

CONSTANTS
  Recent,      \* preserve_recent_messages
  Utterances,  \* messages that may come, see Says
  MaxSpoken    \* bound on them

ASSUME SummaryAssumption == Recent \in Nat /\ MaxSpoken \in Nat

VARIABLES
  thread,   \* messages of the session
  spoken,   \* history: every message that was ever in it
  removed   \* history: per compaction, the messages it removed

summaryVars == <<thread, spoken, removed>>

-----------------------------------------------------------------------------
(* Lines, and the texts of messages.                                       *)
Line(indent, says) == [indent |-> indent, says |-> says]
Plain(word)        == Line(0, <<word>>)
Blank              == Plain("")
Title              == Plain("Conversation summary:")
Timeline           == Plain("- Key timeline:")
Previously         == Plain("- Previously compacted context:")
Newly              == Plain("- Newly compacted context:")
Note               == Plain("Recent messages are preserved verbatim.")
GoOn             == Plain("Continue the conversation from where it left off.")

(* What a message says: its role, its text, and the tools it names.        *)
Says(role, text, tools) == [role |-> role, text |-> text, tools |-> tools]

(* A text behind a prefix: its first line is indented with it, the others  *)
(* stay as they are.                                                       *)
Behind(prefix, text) ==
  [i \in DOMAIN text |-> IF i = 1 THEN Line(2, <<prefix>> \o text[1].says) ELSE text[i]]
Indented(lines) == [i \in DOMAIN lines |-> Line(lines[i].indent + 2, lines[i].says)]
Section(heading, lines) == IF lines = <<>> THEN <<>> ELSE <<heading>> \o lines

LastOf(n, s) == SubSeq(s, IF Len(s) > n THEN Len(s) - n + 1 ELSE 1, Len(s))
Listed(messages) == FlattenSeq([i \in DOMAIN messages |-> Behind("- ", messages[i].text)])

WithText(role, messages) ==
  SelectSeq(messages, LAMBDA m : m.text # <<>> /\ (role = "" \/ m.role = role))
Pending(messages) ==
  SelectSeq(messages, LAMBDA m : \E i \in DOMAIN m.text : m.text[i].says = <<"todo">>)
Count(role, messages) == Len(SelectSeq(messages, LAMBDA m : m.role = role))
ToolNames(messages)   == UNION {messages[i].tools : i \in DOMAIN messages}

(* summarize_messages: what the messages were about, and one entry each.   *)
Highlights(messages) ==
  <<Line(0, <<"- Scope:", Len(messages), Count("user", messages), Count("assistant", messages),
              Count("tool", messages)>>)>>
  \o (IF ToolNames(messages) = {} THEN <<>> ELSE <<Line(0, <<"- Tools:", ToolNames(messages)>>)>>)
  \o Section(Plain("- Recent user requests:"), Listed(LastOf(3, WithText("user", messages))))
  \o Section(Plain("- Pending work:"), Listed(LastOf(3, Pending(messages))))
  \o (IF WithText("", messages) = <<>> THEN <<>>
      ELSE LET text == Last(WithText("", messages)).text
           IN <<Line(0, <<"- Current work:">> \o text[1].says)>> \o Tail(text))
Entry(message) ==
  IF message.text = <<>> THEN <<Line(2, <<message.role, "calls", message.tools>>)>>
  ELSE Behind(message.role, message.text)
Entries(messages) == FlattenSeq([i \in DOMAIN messages |-> Entry(messages[i])])
Summarized(messages) == <<Title>> \o Highlights(messages) \o <<Timeline>> \o Entries(messages)

-----------------------------------------------------------------------------
(* format_compact_summary: no two blank lines in a row, none at the ends.  *)
Collapsed(lines) ==
  FoldLeft(LAMBDA kept, line :
             IF line = Blank /\ (kept = <<>> \/ Last(kept) = Blank) THEN kept ELSE Append(kept, line),
           <<>>, lines)
Trimmed(lines) == IF lines # <<>> /\ Last(lines) = Blank THEN Front(lines) ELSE lines
Formatted(lines) == Trimmed(Collapsed(lines))

(* extract_summary_highlights and extract_summary_timeline: what stands    *)
(* before the timeline, and the timeline to its first blank line.          *)
TimelineAt(lines) == IF Contains(lines, Timeline) THEN SelectInSeq(lines, LAMBDA l : l = Timeline) ELSE Len(lines) + 1
HighlightsIn(lines) ==
  SelectSeq(SubSeq(Formatted(lines), 1, TimelineAt(Formatted(lines)) - 1), LAMBDA l : l \notin {Blank, Title})
TimelineIn(lines) ==
  LET rest == SubSeq(Formatted(lines), TimelineAt(Formatted(lines)) + 1, Len(Formatted(lines)))
      gap  == SelectInSeq(rest, LAMBDA l : l = Blank)
  IN IF gap = 0 THEN rest ELSE SubSeq(rest, 1, gap - 1)

(* merge_compact_summaries.  First, one that keeps the new highlights only.*)
NewestOnly(existing, fresh) ==
  <<Title>> \o Section(Newly, Indented(HighlightsIn(fresh))) \o Section(Timeline, Indented(TimelineIn(fresh)))
Merged(existing, fresh) ==
  <<Title>> \o Section(Previously, Indented(HighlightsIn(existing)))
            \o Section(Newly, Indented(HighlightsIn(fresh)))
            \o Section(Timeline, Indented(TimelineIn(fresh)))

(* get_compact_continuation_message, and the summary read back from it:    *)
(* what is in front of the note, or of the instruction to resume.          *)
Continuation(summary, preserved) ==
  Says("system", Formatted(summary) \o (IF preserved = <<>> THEN <<>> ELSE <<Blank, Note>>) \o <<GoOn>>, {})
IsSummary(message) == message.role = "system"
ReadBack(message) ==
  Trimmed(SubSeq(message.text, 1, SelectInSeq(message.text, LAMBDA l : l \in {Note, GoOn}) - 1))

(* How many of the first messages are a summary already.                   *)
Prefix == IF thread # <<>> /\ IsSummary(Head(thread)) THEN 1 ELSE 0

-----------------------------------------------------------------------------
SummaryInit == thread = <<>> /\ spoken = <<>> /\ removed = <<>>

Speak(message) ==
  /\ Len(spoken) < MaxSpoken
  /\ thread' = Append(thread, message) /\ spoken' = Append(spoken, message)
  /\ UNCHANGED removed

(* compact_session, once should_compact finds the session large enough.    *)
Summarize ==
  /\ Len(thread) - Prefix > Recent
  /\ LET keep  == Len(thread) - Recent
         gone  == SubSeq(thread, Prefix + 1, keep)
         kept  == SubSeq(thread, keep + 1, Len(thread))
         fresh == Summarized(gone)
     IN /\ thread' = <<Continuation(IF Prefix = 1 THEN Merged(ReadBack(Head(thread)), fresh) ELSE fresh, kept)>> \o kept
        /\ removed' = Append(removed, gone)
  /\ UNCHANGED spoken

SummaryNext == (\E message \in Utterances : Speak(message)) \/ Summarize
SummarySpec == SummaryInit /\ [][SummaryNext]_summaryVars

-----------------------------------------------------------------------------
Sayings(lines) == [i \in DOMAIN lines |-> lines[i].says]
IsSubsequence(short, long) ==
  FoldLeft(LAMBDA n, x : IF n < Len(short) /\ short[n + 1] = x THEN n + 1 ELSE n, 0, long) = Len(short)
UpToGap(lines) ==
  LET gap == SelectInSeq(lines, LAMBDA l : l = Blank) IN IF gap = 0 THEN lines ELSE SubSeq(lines, 1, gap - 1)

(* However often a session is compacted, no message leaves it but into a   *)
(* summary, and those that stay do so unchanged.  A summary tells the      *)
(* highlights of every compaction there was, the oldest first, and then    *)
(* the timeline of the last one -- but of a summary that was merged with   *)
(* an earlier one only up to the first blank line in the text of a message.*)
SummariesRemember ==
  /\ spoken = FlattenSeq(removed) \o SubSeq(thread, Prefix + 1, Len(thread))
  /\ removed # <<>> =>
       LET told  == Sayings(ReadBack(Head(thread)))
           line  == Timeline.says
           ended == Entries(Last(removed))
       IN /\ Prefix = 1
          /\ IsSubsequence(
               FlattenSeq([c \in DOMAIN removed |->
                 Sayings(SelectSeq(Highlights(removed[c]), LAMBDA l : l # Blank))]) \o <<line>>
               \o Sayings(IF Len(removed) = 1 THEN Formatted(ended) ELSE UpToGap(ended)), told)
=============================================================================
