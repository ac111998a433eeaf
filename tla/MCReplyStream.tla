--------------------------- MODULE MCReplyStream ---------------------------
(***************************************************************************)
(* A small instance of ReplyStream -- sub-agents talk to both providers,   *)
(* the command line to a Claw-style one -- of ModelRequest, ToolRounds,    *)
(* Markdown and ProviderChoice.  They share no state: a behaviour is about *)
(* the frames of a stream, about how they arrive, about the rounds of a    *)
(* turn, about how a text is shown, piece by piece and event by event, or  *)
(* about whom a client talks to.                                           *)
(***************************************************************************)
EXTENDS ReplyStream, ModelRequest, ToolRounds, Markdown, ProviderChoice

MCSetups == {<<"openai", "agent">>, <<"claw", "agent">>, <<"claw", "command line">>}
MCMaxChunks == [d \in Dialects |-> IF d = "openai" THEN 3 ELSE 10]

(* The default policy, none, and one of more retries than 32.              *)
MCPolicies == {[retries |-> 2, initial |-> 200, maximum |-> 2000],
               [retries |-> 0, initial |-> 200, maximum |-> 2000],
               [retries |-> 33, initial |-> 1, maximum |-> 100]}

MCReplies ==
  LET start == <<"event", "start">>
      text  == <<"event", "text">>
      long  == <<"event", "text", "more">>
      ping  == <<"ping", "start">>
  IN [claw |-> {<<>>, <<start>>, <<start, ping, long, text>>, <<<<"comment">>, text, start>>},
      openai |-> {<<>>, <<<<"start">>, <<"text">>, <<"done">>>>,
                  <<<<"comment">>, <<"text", "more">>, <<"text">>, <<"done">>>>}]

(* Turns of the command line, with all its tools, some, or none offered,   *)
(* and of sub-agents.                                                      *)
CommandLine(tools, enabled, prints) ==
  [who |-> "cli", kind |-> "", tools |-> tools, enabled |-> enabled, prints |-> prints]
Agent(kind) == [who |-> "agent", kind |-> kind, tools |-> {}, enabled |-> TRUE, prints |-> FALSE]
MCOwners ==
  {CommandLine({}, TRUE, TRUE), CommandLine({"read_file", "plugin_tool"}, TRUE, FALSE),
   CommandLine({}, FALSE, FALSE), Agent("Explore"), Agent("Verification"), Agent("typo")}

(* Texts around and between calls, a thought, nothing at all; inputs that  *)
(* are empty, and for an OpenAI-style provider no JSON.                    *)
MCWireReplies ==
  LET text == TextBlock(<<"a", "b">>)
      calling(name, input) == Call(<<>>, name, input)
  IN [claw |-> {<<>>, <<Thought>>, <<Thought, text>>, <<TextBlock(<<>>), calling("Agent", "object")>>,
                <<text, calling("read_file", "{}"), text, text, calling("bash", "object")>>,
                <<calling("plugin_tool", "object"), calling("no_tool", "{}")>>},
      openai |-> {<<>>, <<text>>, <<text, calling("read_file", "cut"), calling("bash", "object")>>,
                  <<calling("Agent", "object"), calling("write_file", "")>>}]

(* Paragraphs, code in both kinds of fences, short and long, blank lines in*)
(* it and around.                                                          *)
MCWritings ==
  LET fence == <<"|", "|", "|">>
      tilde == <<"~", "~", "~">>
      nl    == <<"n">>
      word  == <<"x">>
  IN {word \o nl \o nl \o word \o nl,
      word \o nl \o fence \o word \o nl \o word \o nl \o nl \o word \o nl \o fence \o nl \o word,
      fence \o nl \o nl \o fence \o nl \o <<" ", " ">> \o word \o nl \o <<" ">> \o nl,
      fence \o nl \o tilde \o nl \o nl \o fence \o nl, tilde \o nl \o nl \o word, <<" ">> \o nl,
      <<"|">> \o fence \o nl \o nl \o <<"|">> \o fence \o nl, <<"~">> \o tilde \o nl \o tilde \o nl \o nl}

(* Documents of each kind of block with each of some texts, and two in one *)
(* another: nested lists, and tables with short rows.                      *)
Ev(kind, tag, arg) == [event |-> kind, tag |-> tag, arg |-> arg]
Around(tag, arg, inner) == <<Ev("start", tag, arg)>> \o inner \o <<Ev("end", tag, 0)>>
Word(n) == <<Ev("text", "", n)>>
Spans ==
  {Word(1), Around("emphasis", 0, Around("strong", 0, Word(2)) \o Word(1)),
   Around("link", 2, <<>>) \o Word(2),
   Around("link", 2, Around("strong", 0, Word(1)) \o <<Ev("span", "", 2)>>) \o Around("image", 1, Word(2))}
Item(inner) == Around("item", 0, inner)
Cell(inner) == Around("cell", 0, inner)
Blocks ==
  {Around("paragraph", 0, s) : s \in Spans}
  \cup {Around("heading", l, s) : l \in {1, 3}, s \in Spans}
  \cup {Around("quote", 0, Around("paragraph", 0, s) \o Around("code", 0, Word(1) \o Word(2))) : s \in Spans}
  \cup {Around("list", n, Item(s) \o Item(Word(1) \o Around("list", m, Item(s) \o Item(s))) \o Item(s)) :
           n \in {0, 1, 7}, m \in {0, 1}, s \in Spans}
  \cup {Around("table", 0, Around("head", 0, Cell(h) \o Cell(s)) \o Around("row", 0, Cell(s) \o Cell(<<>>)) \o rows) :
           h \in Spans, s \in Spans, rows \in {<<>>, Around("row", 0, Cell(Word(2)))}}
MCDocuments ==
  Blocks \cup {Around("quote", 0, Around("quote", 0, b) \o Around("paragraph", 0, Word(1)))
                 \o Around("heading", 2, Word(1)) : b \in Blocks}
MCSizes == <<1, 3>>

(* Names of both families and of neither, as they are or in capitals; the  *)
(* variables each absent, one of them set, empty or no Unicode, and two    *)
(* providers' keys at once.                                                *)
MCAsked == {[name |-> n, exact |-> e] : n \in {"opus", "grok", "grok-2", "grok-9", "claude-opus-4-6", "my-opus"}, e \in BOOLEAN}
             \cup {[name |-> "", exact |-> TRUE]}
(* Spelled otherwise they are shouted.                                     *)
MCOpusNames == {Exact(n) : n \in {"opus", "claude-opus-4-6", "my-opus"}}
Unset == [v \in {"ANTHROPIC_API_KEY", "ANTHROPIC_AUTH_TOKEN", "XAI_API_KEY", "OPENAI_API_KEY",
                 "ANTHROPIC_BASE_URL", "XAI_BASE_URL", "OPENAI_BASE_URL"} |-> "absent"]
MCEnvironments ==
  {[Unset EXCEPT ![v] = k] : v \in DOMAIN Unset, k \in {"empty", "garbled", "value"}}
  \cup {[Unset EXCEPT ![v] = "value", ![w] = k] :
           v \in {"XAI_API_KEY", "OPENAI_API_KEY", "ANTHROPIC_API_KEY"},
           w \in {"ANTHROPIC_API_KEY", "ANTHROPIC_AUTH_TOKEN", "XAI_API_KEY"}, k \in {"garbled", "value"}}
  \cup {[Unset EXCEPT !["ANTHROPIC_API_KEY"] = "value", !["ANTHROPIC_AUTH_TOKEN"] = "garbled", !["OPENAI_API_KEY"] = "value"]}

VARIABLE about    \* frames, requests, rounds, pieces, events or clients

NoTurn == owner = Agent("Explore") /\ speaks = "claw" /\ Len(talk) = 1
NoStream == dialect = "claw" /\ client = "agent"
NoClientMade ==
  maker = "cli" /\ wanted = Exact("opus") /\ environment = [Unset EXCEPT !["XAI_API_KEY"] = "value"]
  /\ saved = NoLogin /\ settings = "none"
NoRequest == policy.retries = 0 /\ style = "claw"

TheInit ==
  /\ about \in {"frames", "requests", "rounds", "pieces", "events", "clients"}
  /\ Init        /\ (about # "frames"   => NoStream)
  /\ RequestInit /\ (about # "requests" => NoRequest)
  /\ RoundInit   /\ (about # "rounds"   => NoTurn)
  /\ StreamInit  /\ (about # "pieces"   => writing = <<" ", "n">>)
  /\ RenderInit  /\ (about # "events"   => document = Around("paragraph", 0, Word(1)))
  /\ ChoiceInit  /\ (about # "clients"  => NoClientMade)

TheNext ==
  /\ UNCHANGED about
  /\ \/ about = "frames"   /\ Next /\ UNCHANGED <<requestVars, roundVars, streamVars, renderVars, choiceVars>>
     \/ about = "requests" /\ RequestNext /\ UNCHANGED <<vars, roundVars, streamVars, renderVars, choiceVars>>
     \/ about = "rounds"   /\ RoundNext /\ UNCHANGED <<vars, requestVars, streamVars, renderVars, choiceVars>>
     \/ about = "pieces"   /\ StreamNext /\ UNCHANGED <<vars, requestVars, roundVars, renderVars, choiceVars>>
     \/ about = "events"   /\ RenderNext /\ UNCHANGED <<vars, requestVars, roundVars, streamVars, choiceVars>>
     \/ about = "clients"  /\ ChoiceNext /\ UNCHANGED <<vars, requestVars, roundVars, streamVars, renderVars>>

TheSpec == TheInit /\ [][TheNext]_<<vars, requestVars, roundVars, streamVars, renderVars, choiceVars, about>>

(* A reply is gathered as it was said, its frames arrive as they were sent,*)
(* and its text is shown as written; it is asked of the right provider,    *)
(* with credentials that will do.                                          *)
ReplyIsTrue ==
  /\ ReplyIsFaithful /\ FramesArriveWhole
  /\ about = "pieces" => PiecesMakeTheText
  /\ about = "events" => ShownAsWritten
  /\ about = "clients" => ClientsAreRight
=============================================================================
