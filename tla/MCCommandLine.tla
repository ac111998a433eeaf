--------------------------- MODULE MCCommandLine ---------------------------
(***************************************************************************)
(* Small instances of what a program does for the user at the terminal:    *)
(* its start, the prompt, its slash commands, the login that programs      *)
(* share, the agents and skills it is given and the instructions of the    *)
(* project.  These share no state, and a behaviour is about one of them.   *)
(***************************************************************************)
EXTENDS Startup, LineEditor, SlashCommands, CredentialStore, LoginFlow, Definitions, Instructions

(* One line with a wide character and one with several rows, completions   *)
(* that are known words of the prompt.                                     *)
TheHistories ==
  {<<>>, << <<"lead", "tail", "\n", "a", "\n", "a">>, <<"a", "lead", "tail">> >>}
TheCompletions == << <<"/", "h">>, <<"/", "v">>, <<"/", "x">> >>

(* Arguments: up to three of these.                                        *)
Words ==
  {"--permission-mode", "read-only", "--permission-mode=workspace-write", "--dangerously-skip-permissions",
   "--model", "--output-format", "--allowedTools", "my_tool,read", "my-tool", "-p", "--version", "--print",
   "prompt", "login", "--resume", "/status", "/help", "--help", "fix"}
TheArgLists == {<<>>} \cup UNION {[1..n -> Words] : n \in 1..3}
TheInline   == ("--permission-mode=workspace-write" :> <<"--permission-mode", "workspace-write">>)
TheSpelling == "my-tool" :> "my_tool" @@ "WebFetch" :> "webfetch" @@ "Read" :> "read"
TheTokens   == [w \in Words |-> IF w = "my_tool,read" THEN {"my_tool", "read"} ELSE {w}]
PluginTool(name) == [name |-> name, needs |-> "workspace-write"]
ThePluginTools ==
  {<<>>, <<PluginTool("my-tool")>>, <<PluginTool("my-tool"), PluginTool("my_tool")>>,
   <<PluginTool("Read"), PluginTool("webfetch")>>, <<PluginTool("bash")>>}

(* Settings that meet at one place or around it, and those that are wrong. *)
Text(v) == JsonLeaf("text", v)
Stdio(c) == JsonObject([command |-> Text(c)])
Objects ==
  {JsonObject([model |-> Text("m1"), mcpServers |-> JsonObject([a |-> Stdio("c1"), b |-> Stdio("c1")])]),
   JsonObject([hooks |-> JsonObject([PreToolUse |-> JsonLeaf("texts", "p1")]), model |-> Text("m2"),
               mcpServers |-> JsonObject([a |-> JsonObject([type |-> Text("http"), url |-> Text("u1")])])]),
   JsonObject([hooks |-> JsonObject([PostToolUse |-> JsonLeaf("texts", "p2")]),
               permissions |-> JsonObject([defaultMode |-> Text("plan")])]),
   JsonObject([hooks |-> Text("off"), permissions |-> Text("nonsense")]),
   JsonObject([mcpServers |-> JsonObject([b |-> JsonObject([type |-> Text("http")])])])}
Files == {NoDocument("absent"), NoDocument("garbled"), Document(JsonLeaf("texts", ""))}
         \cup {Document(v) : v \in Objects}
TheFileSets == [1..5 -> Files]

(* A project in the home directory or not, with up to two agents or skills *)
(* of names that may differ in case only.                                  *)
Project      == <<"", "u", "p">>
TheAncestors == <<Project, <<"", "u">>>>
TheHomes     == {<<"", "u">>, <<"", "v">>, <<>>}
TheCodexHomes == {<<>>, <<"", "u", ".codex">>, <<"", "c">>}
TheRanked    == <<"A", "SKILL", "a">>
TheLower     == "A" :> "a"
Entry(dir, leaf, file, form, says) == [at |-> Append(dir, leaf), file |-> file, form |-> form, says |-> says]
Claw(dir)  == Append(dir, ".claw")
Codex(dir) == Append(dir, ".codex")
AgentEntries ==
  {Entry(dir, "agents", f, "toml", s) :
     dir \in {Claw(Project), Codex(<<"", "u">>), Claw(<<"", "u">>), <<"", "c">>, Claw(<<"", "v">>)},
     f \in {"A", "a"}, s \in {"", "a"}}
  \cup {Entry(Claw(Project), "agents", "b", "bad toml", "")}
SkillEntries ==
  {Entry(dir, "skills", f, "dir", s) :
     dir \in {Claw(Project), Codex(<<"", "u">>), <<"", "c">>, Codex(<<"", "v">>), <<"", "v", ".agents">>},
     f \in {"A", "a"}, s \in {"", "a"}}
  \cup {Entry(Codex(<<"", "u">>), "commands", f, "dir", s) : f \in {"A", "a"}, s \in {"", "a"}}
  \cup {Entry(Codex(<<"", "u">>), "commands", "a", "md", ""), Entry(Codex(<<"", "u">>), "skills", "b", "bad dir", "")}
Pairs(S) == {{}} \cup {{x, y} : x \in S, y \in S}
TheLayouts == Pairs(AgentEntries) \cup Pairs(SkillEntries)

(* Four candidates for instructions: two copies that differ in blank lines *)
(* only, and lengths around the limits.                                    *)
Place(kind) == [is |-> kind, says |-> "", length |-> 0]
Says(says, length) == [is |-> "text", says |-> says, length |-> length]
TheProjects ==
  [1..4 -> {Place("nothing"), Place("blank"), Place("unreadable"),
            Says("x", 2), Says("x", 3), Says("z", 4), Says("w", 5), Says("v", 7), Says("y", 8)}]

(* Lines of one word, known or not, of more, and with more or fewer        *)
(* slashes than one.                                                       *)
OneLine(n, gap, words) == [slashes |-> n, gap |-> gap, words |-> words]
TheLines ==
  {OneLine(1, FALSE, <<w>>) : w \in {"hlp", "memroy", "pl", "plugin2", "skill", "zzzzzz"} \cup Completed}
  \cup {OneLine(1, FALSE, <<w, "x", "y">>) :
          w \in {"pr", "model", "branch", "worktree", "plugins", "exit", "vim", "agents"}}
  \cup {OneLine(1, FALSE, <<"clear", "--confirm">>), OneLine(1, FALSE, <<"clear", "x", "--confirm">>),
        OneLine(2, FALSE, <<"pr", "x">>), OneLine(1, TRUE, <<"skills", "x">>), OneLine(1, FALSE, <<>>),
        OneLine(0, FALSE, <<"x">>)}
TheSorted ==
  <<"agents", "branch", "bughunter", "clear", "commit", "commit-push-pr", "compact", "config", "cost",
    "debug-tool-call", "diff", "exit", "export", "help", "init", "issue", "marketplace", "memory", "model",
    "permissions", "plugin", "plugins", "pr", "quit", "resume", "session", "skills", "status", "teleport",
    "ultraplan", "version", "vim", "worktree">>
TheSmallWords ==
  {"", "a", "b", "aa", "ab", "ba", "bb", "aab", "aba", "abb", "baa", "bab", "bba", "abca", "cab"}

TheBases == {<<"url", "?", "x", "=", "y">>}

VARIABLE about    \* start, prompt, commands, login, callback, definitions or instructions

Symmetry == Permutations(Programs)

(* What a behaviour is not about is in one state.                          *)
NoFile  == files = [i \in 1..5 |-> NoDocument("absent")]
NoArgs  == args = <<>> /\ env = "unset" /\ plugins = <<>>
NoPrompt == presses = 0 /\ lines = <<>> /\ vim = FALSE
NoCommand == surface = "direct"
NoLogin == commands = 0 /\ real = Absent /\ configured = FALSE

NoStart == NoFile /\ NoArgs
NoDefinition  == listing = "agents" /\ layout = {} /\ codexHome = <<>> /\ home = <<"", "v">> /\ NothingRead
NoInstruction == places = [i \in 1..4 |-> Place("nothing")]

TheInit ==
  /\ \/ about = "start" /\ (NoFile \/ NoArgs)
     \/ about \in {"prompt", "commands", "login", "callback", "definitions", "instructions"} /\ NoStart
  /\ IF about = "prompt" THEN presses = MaxPresses ELSE NoPrompt
  /\ about # "commands" => NoCommand
  /\ IF about = "login" THEN commands = MaxCommands ELSE NoLogin
  /\ IF about = "definitions" THEN DefinitionInit ELSE NoDefinition
  /\ about # "instructions" => NoInstruction
  /\ StartInit /\ EditorInit /\ SlashInit /\ CredentialInit /\ LoginInit /\ InstructionInit

TheNext ==
  /\ UNCHANGED about
  /\ \/ about = "start" /\ StartNext
        /\ UNCHANGED <<editorVars, slashVars, credentialVars, loginVars, definitionVars, instructionVars>>
     \/ about = "prompt" /\ EditorNext
        /\ UNCHANGED <<startVars, slashVars, credentialVars, loginVars, definitionVars, instructionVars>>
     \/ about = "commands" /\ SlashNext
        /\ UNCHANGED <<startVars, editorVars, credentialVars, loginVars, definitionVars, instructionVars>>
     \/ about = "login" /\ CredentialNext
        /\ UNCHANGED <<startVars, editorVars, slashVars, loginVars, definitionVars, instructionVars>>
     \/ about = "callback" /\ LoginNext
        /\ UNCHANGED <<startVars, editorVars, slashVars, credentialVars, definitionVars, instructionVars>>
     \/ about = "definitions" /\ DefinitionNext
        /\ UNCHANGED <<startVars, editorVars, slashVars, credentialVars, loginVars, instructionVars>>
     \/ about = "instructions" /\ InstructionNext
        /\ UNCHANGED <<startVars, editorVars, slashVars, credentialVars, loginVars, definitionVars>>

TheSpec ==
  TheInit /\ [][TheNext]_<<startVars, editorVars, slashVars, credentialVars, loginVars, definitionVars, instructionVars, about>>

(* A start does what its arguments and settings say, a line that is typed  *)
(* what its command says, and the login that a login page starts is the    *)
(* user's own.                                                             *)
AskedIsDone ==
  StartsAsAsked /\ (about = "commands" => CommandsAreTaken) /\ (about = "callback" => LoginIsOwn)
=============================================================================
