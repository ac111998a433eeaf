# A TLA+ model of the Claw agent runtime

This directory specifies, model-checks and proves properties of the Rust
workspace under `src/claudecode-main/rust/crates` (the `claw` command line
agent, its runtime, its tools, its session server and its clients). Paths below
are relative to that directory. The Python tree (`src/claudecode-main/src`) is a
mirror of an upstream module layout with placeholder behaviour; the Rust
workspace is the program.

Contents: [inventory](#1-inventory) · [how the parts
interact](#2-how-the-parts-interact) · [the modules](#3-the-modules-and-the-code)
· [the runs](#4-the-runs) · [fairness](#5-fairness) · [the
proofs](#6-the-proofs) · [divergences and surprises](#7-where-the-code-and-what-is-said-of-it-differ) ·
[limits](#8-not-modelled) · [what is left](#9-what-is-left).

## 1. Inventory

| Part | Source | State | Operations | What makes it correct | Module |
|---|---|---|---|---|---|
| Conversation runtime | `runtime/src/conversation.rs` | session, usage tracker, iteration counter, pending tool calls | `run_turn` | every call gets one result, in order, on every path; a failed turn leaves a session that can be sent again; a turn ends; requests are bounded | Conversation, Transcript |
| Permission policy | `runtime/src/permissions.rs` | active mode, required mode per tool | `authorize` | no tool runs that the mode does not cover and the user did not approve | Permissions |
| Hook runner | `runtime/src/hooks.rs`, `plugins/src/hooks.rs` | none | `run_pre_tool_use`, `run_post_tool_use` | the first denial stops; a denial is recorded, never an effect hidden | Conversation, ChildProcesses |
| Usage tracker | `runtime/src/usage.rs` | latest, cumulative, turns | `record`, `from_session` | equal to what a tracker built from the session says | Conversation |
| Child processes | `runtime/src/bash.rs`, `tools`, `plugins`, hooks | a process, three pipes | spawn, feed, wait, time out, kill | the answer is what the process did; the call comes back | ChildProcesses |
| Sandbox | `runtime/src/sandbox.rs`, `bash.rs` | none (settings read per call) | status, command line | what is told of the isolation is so | Sandbox |
| Session store | `runtime/src/session.rs`, `json.rs` | messages; one JSON file per session | `save_to_path`, `load_from_path` | what is loaded is a whole session, the one saved | SavedSessions, SessionText |
| Compaction | `runtime/src/compact.rs` | none (a function of the session) | `should_compact`, `compact_session` | keeps the last messages and one summary that remembers the rest | SavedSessions, Summaries |
| Interactive CLI | `claw-cli/src/main.rs` | runtime, session handle | the loop, `--resume`, one prompt | what the user sees is saved; nothing is lost to the program itself | SavedSessions, SlashCommands |
| Start | `claw-cli/src/main.rs`, `runtime/src/config.rs` | none after start | `parse_args`, `load`, tool registry | arguments and settings mean the same in any order; precedence | Startup |
| System prompt | `runtime/src/prompt.rs` | none | discover, render | no text missing in silence, budget kept | Instructions |
| Progress reporter | `claw-cli/src/main.rs` 2637–2857 | step and detail behind a mutex, a heartbeat thread | `mark_*`, heartbeat, finish | lines in order, nothing after the end; no deadlock at the end | ProgressReports |
| Session server | `server/src/lib.rs` | store behind a RwLock, one broadcast channel per session | create, post, stream, list, get | nothing stored is lost between snapshot and stream; order | SessionServer |
| Sub-agents | `tools/src/lib.rs` 1500–2000 | manifest and output file, a thread | Agent tool, thread, recording of the end | a job ends in a recorded status, files agree, an end is final | AgentJobs, ToolRounds |
| Workspace tools | `tools/src/lib.rs`, `runtime/src/file_ops.rs` | workspace files, todo and config stores | read/write/edit, search, TodoWrite, Config, NotebookEdit, Skill | no edit is lost; parts make the whole | SharedFiles, FileSearch, Definitions |
| LSP client and manager | `lsp/src/client.rs`, `lsp/src/manager.rs` | pending requests, open documents, diagnostics, one client per server | open, change, save, close, queries, shutdown; the reader task | an answer goes to its request, document versions reach the server in order, every request ends | LspClient, LspManager |
| MCP server manager | `runtime/src/mcp_stdio.rs` | one process per server, tool index, request ids | discover, call, shutdown | an answer belongs to its request, a dead server is started again | McpServers |
| Provider clients | `api/src/client.rs`, `api/src/providers/*` | none between calls | choose, send and stream with retries | the right provider with credentials that will do; a reply arrives once | ProviderChoice, ModelRequest |
| Streaming replies | `api/src/sse.rs`, `openai_compat.rs`, the folds in `claw-cli` and `tools` | parser buffer, open blocks | chunk, end of stream | the reply folded from the events is the reply sent, however it is cut | ReplyStream, ToolRounds |
| Plugins | `plugins/src/lib.rs` | registry file, plugin files, settings | install, enable, disable, update, uninstall, sync; discovery, aggregation | registry, files and settings agree; what is enabled takes effect | PluginStore, PluginSet |
| OAuth | `runtime/src/oauth.rs`, `claw_provider.rs`, `claw-cli` login | credentials file, one port | login, logout, refresh | the file is whole; a refreshed token is not lost; the code exchanged is one's own | CredentialStore, LoginFlow |
| Slash commands | `commands/src/lib.rs`, `claw-cli` | none | parse, suggest, dispatch; git and gh | listed, offered, parsed and taken agree; work is kept | SlashCommands, GitCommands |
| Terminal UI | `claw-cli/src/input.rs`, `render.rs`, `init.rs` | editor buffer, history; renderer's stacks | keys; pieces of Markdown; `claw init` | text and cursors stay whole; text is shown as written; user's files are kept | LineEditor, Markdown, RepoInit |
| Remote proxy, bootstrap, MCP names | `runtime/src/remote.rs`, `bootstrap.rs`, `mcp.rs`, `mcp_client.rs` | none after start | derive from environment | pure | — |
| Compatibility harness, Python port, extracted sources | `compat-harness`, `src/claudecode-main/src`, `src/source_code` | none | report | not the product | — |

The hard behaviours are: the many ways a tool call may go through the loop of
`run_turn` (denied, asked, blocked, failed, vetoed) and a turn that fails after
tools have run; requests to the session server that interleave between the
store's lock and the channel; background threads that outlive the tool call that
launched them and lose their process; processes whose pipes fill while nobody
reads; saves that are not atomic and files that several programs or agents share;
answers of language servers and MCP servers that come late, never, or for somebody
else; retries, truncated streams and texts cut anywhere; credentials that expire or
are replaced by another program; long sequences of keys and commands.
`PROJECT.json` lists each at its line, with the properties that cover it.

## 2. How the parts interact

The CLI (or a sub-agent's thread) owns a conversation runtime and calls
`run_turn`. The runtime calls the provider client (a stream of events), the
permission policy (and through it a prompter that asks the user), the hook runner
(one process per hook command) and the tool executor. The Agent tool starts a
thread with a runtime of its own; the two communicate through files only. The CLI
saves the session after each turn and each command that changes it. The session
server is a separate program that shares no state with the CLI. LSP and MCP
managers talk to child processes over pipes. Several programs share the sessions
directory, the settings, `credentials.json`, the plugins' registry, the repository
and the port of the login, and take no lock on any of them.

How the modules are composed follows from that. Modules about things that do share
state are one: a session's saves and a program's commands (SavedSessions), a login
and the refresh at a start (CredentialStore), the tools and the plugin manager on
one settings file (SharedFiles). Modules that share none are still checked in one
instance where they are about one part of the program (`MCConversation`,
`MCAgentJobs`, `MCSavedSessions`, `MCExtensions`, `MCReplyStream`,
`MCCommandLine`): a variable `about` says which of them a behaviour is about, the
others stay in one initial state. The instance is the disjoint union of the
behaviours, and each module's properties are checked on its own. A property that
belongs to two such modules is a conjunction of named parts.

## 3. The modules and the code

**Permissions** — `permissions.rs`. Operators only: the order of the modes, the
required mode (full access for an unregistered tool), and `authorize` split into
"goes ahead" (`Granted`) and "is put to the prompter" (`AsksUser`); the answer of
the user is the caller's choice.

**Transcript** — the abstract specification: what a conversation promises to a
provider. A log in which the calls of a reply are answered one by one, in order,
before anybody else speaks, and a turn gives up only when no answer is owed.

**Conversation** — `ConversationRuntime::run_turn`, `hooks.rs`, `usage.rs`. A step
is one interaction with the outside: a request, a reply, a question, one hook
command, one execution. `pc` is the place in the loop; `session`, `tracker`,
`iterations`, `calls`/`done` are the variables of the code (`pending_tool_uses`
and the position of its `for`). `StartTurn` pushes the user's message;
`SendRequest`/`ExceedIterations` are the head of the loop, where the counter is
raised before it is compared; `StreamFails` stands for an error of `stream` and of
`build_assistant_message`; `ReceiveReply` records usage and pushes the message;
`GrantCall`/`UserApproves`/`UserRefuses`/`DenyCall` are the outcomes of
`authorize` with and without a prompter; `PreHookPasses`/`PreHookDenies`,
`Execute`, `PostHookPasses`/`PostHookDenies` and `RecordExecution` follow the call
to its result. `executed` and `approved` are history.

**SessionServer** — `server/src/lib.rs`. Each handler is cut where another task
may run: creating takes an id before the lock (`AllocateSessionId`,
`InsertSession`, `AbandonCreate` for a client that hangs up), posting stores under
the lock and announces after it (`StoreMessage`, `Announce`), watching takes
snapshot and subscription under one lock (`Subscribe`) and then streams
(`Deliver`, `Lag`, `Disconnect`). A channel is its whole history; the ring of
`Capacity` events is in `Overwritten`. List and get only read.

**AgentJobs** — the Agent tool of `tools/src/lib.rs`. `execute_agent` writes the
output file, the manifest, spawns; the thread runs its conversation
(`JobSucceeds`, `JobFails`, the latter also for a caught panic), appends to the
output file and rewrites the manifest. Every write may fail and may leave a
truncated or cut-off file (`AfterFailedWrite`, `AfterFailedAppend`); a failure to
record completion is itself recorded as failure; `ProcessEnds` cuts off whatever
is being written.

**SavedSessions** — `session.rs`, `compact.rs` and the parts of
`claw-cli/src/main.rs` that decide when a session is replaced and saved. Programs
share a directory of files named by the millisecond. A save is two steps,
`Truncate` and `Fill`, because `fs::write` is; between them the program may end
and another may read or write. What a turn leaves in the session is taken from
module Conversation: `TurnMessages` for a turn that returned `Ok`, a proper prefix
of it for one that failed, which the code never saves because the program ends.
The token estimate is abstracted: any session long enough may be above the
threshold or not. What summaries say is module Summaries, what a file's text is,
SessionText.

**LspClient** — `lsp/src/client.rs`. `at[c]` is the await at which caller `c` stands:
`Check` reads the version of a document, `SendOpen`/`SendChange`/`SendSave`/
`SendClose` write, `RecordOpen`/`RaiseVersion`/`RecordClose` update the
two maps under their own locks; `Register` takes an id and inserts the waiter,
`SendRequest` writes, `TakeReply` is the receiver; `Kill` is the end of `shutdown`,
and `Abandon` drops the caller's future anywhere. The reader task takes one frame
at a time: a message with an id goes to whoever waits for this id, even a request
of the server's; diagnostics replace those kept; an error fails everybody who
waits, but a clean end of the output just ends the task. The server is external: it
answers late or never, speaks unasked, and keeps its own view of the documents.

**LspManager** — `lsp/src/manager.rs`. The table of clients behind one tokio mutex,
callers that look up or start a client (`StartServer`, `Greet`, `Initialized`), use it
(`Query`, `Use`), and shutdown, which drains the table under the lock (`Drain`) and
then shuts the clients down one after the other (`AskToStop`, `StopNext`). The client
is reduced to a process and to the requests that wait for it: the process is up,
silent, or over, and its output was cut off in the middle of a message, whereupon the
reader fails who waits, or ended between two, and then nobody is told, as module
LspClient has it.

**McpServers** — `runtime/src/mcp_stdio.rs`. One method at a time (`&mut self`),
each cut at the write of a request and the read of an answer, since the caller may
drop the future there: discovery (initialize, list by pages, index), tool call,
shutdown. A server may die, answer out of step, or say something unasked. The
spawn, the handshake and the page loop are those of the code: a server may have a
further page each time it is asked (`paged`), and the ids of requests stop at the
last one there is (`TakeRequestId`). Frames are atomic.

**ReplyStream** — `api/src/providers/openai_compat.rs` (`StreamState`), the streams
of both providers, and the folds of the events in `claw-cli/src/main.rs` and
`tools/src/lib.rs`. `SayChunk` and the other `Say…` actions are the provider;
`Ingest` is `ingest_chunk` behind `next_event`, `Finish` is `finish`; `Gather` folds one
event, in the one slot of the command line's client or in a slot per block.
`Conclude` is the end of the client's loop, with the missing stop it adds and the
request without streaming it falls back to.

**PluginStore** — `plugins/src/lib.rs` and `/plugins` of `commands/src/lib.rs`. A plugin
is kept in three places: its directory, a record in the registry file, a flag in the
settings file. `place` is where the command is: `FindSource`, `Replace` (the old
directory is removed, the source copied), `LoadRegistry`, `RemoveFiles`, `StoreRegistry`
and `WriteSettings` are install, update and uninstall, each in the order of its code;
`BeginSync`, `SyncPlugin`, `DropStale`, `StoreSync` are `sync_bundled_plugins`, which
may come to the plugins in any order, `Discover` is `discover_installed_plugins`, which
enable, disable and every listing go through. Each step has a `…Fails` form with
whatever it may leave: a directory that is gone, bare, broken, loads with files missing
(`hollow`), or is whole; a file that is unchanged, empty or cut off. An end of the
program leaves nothing an error does not leave, so it has no action of its own. A
plugin's contents are its version.

### Beside a turn

**ChildProcesses** — `bash.rs`, PowerShell and REPL of `tools`, plugin tools and
lifecycle commands, hooks. A caller (`Start`, `Feed`, `Poll`, `Kill`, `Take`,
`WaitEnds`, `GiveUpWaiting`) and a child that reads, writes, closes its input, leaves
another process behind and exits, or is ended by a signal before, joined by pipes of a
capacity. A caller that still writes to a closed input gives up; a signal leaves no
status, of which each caller makes something else (`CodeTold`). `Ways` names the callers
of the code; they differ in what feeds the input, who reads the output and when, and
what a timeout does. `EnvLimit` stands for the size an environment variable may have:
hooks get their payload in the environment too, and a larger one fails the spawn.

**Sandbox** — `sandbox.rs` and the preparation of a command in `bash.rs`:
`CallBash`, `Resolve` (the status), `Launch` (the command line), with settings
that may change or not load in between.

**ToolRounds** — the loop of requests and replies on the wire, for both dialects and
both executors: `SendRound` converts the session into messages (`Translated` for
OpenAI-style), `ReplyArrives` gathers blocks into a message, then each call is
refused, rejected, fails, or works. To what was executed the hook after the call may
object, and what the command line cannot print counts as failed (`Executed`); `spoiled`
keeps these calls.

**Instructions**, **Startup** — `prompt.rs`, `config.rs`, `parse_args`, the tool
registry: sequential algorithms over small inputs, a step per file or argument,
compared with a definition of what the result ought to be. **Summaries** does the
same for `compact.rs`, over conversations that are compacted again and again,
**SessionText** for `session.rs` and the parser of `json.rs`, over texts that are
whole, cut, written over by a shorter one, or edited.

### Around it

**SharedFiles** — every tool that reads a file, changes what it read and writes it
back, as `Read`, `Truncate`, `Fill`, with other callers in between. A file is a list
of entries with keys: occurrences of a text, settings, todos, cells. A setting may
belong into an object of the document (`Around`), which is made when it is missing and
takes the place of what is no object (`WithObject`).
**FileSearch** — `read_file`, `glob_search`, `grep_search` asked part after part, over
files that change and directories that the program may not enter (`shut`): these fail
the whole of a grep, and glob passes them over.
**Definitions** — the directories in which agents and skills are looked for, their
order and shadowing, with and without `HOME` and `CODEX_HOME`, and what the Skill tool
takes. **RepoInit** — `claw init`, each
file looked at (`LookAt`), emptied (`OpenFile`) and filled (`FillFile`) by programs
that may end in between, with the user writing too. **GitCommands** — `/commit` of the
command line and `handle_commit_push_pr_slash_command`, with each `git` and `gh`
command a step that may fail. The latter, and `handle_branch_slash_command`, are
functions of the library that the program itself never calls.

**ProgressReports** — the shared state behind a mutex, the turn's thread
(`Mark`, then its line, from a copy), the heartbeat (`Heartbeat`: wait, copy, line)
and the end (stop, join, last line).

**LineEditor** — `claw-cli/src/input.rs`: one action per key and mode; texts are
sequences of bytes (`Typed` has a character of two bytes), because the code's
cursors count bytes and a cut within a character panics. **SlashCommands** — the
five places that list the commands. **Markdown** — `render.rs` twice: where a text
is cut while it arrives (`Push`, `Flush`), over characters; and what the renderer
does with the parser's events (`RenderNext`), over documents. The parser, a
library, appears as the events of well-formed documents.

**ModelRequest** — `send_with_retry` of both providers, the pieces of the stream and
the frame parsers, and the second request without streaming. **ProviderChoice** —
which provider, with which credentials: `Detect`, `TakeEnvironment`, `TakeSaved`,
`RefreshSaved` are the reads the code makes one after the other, while the saved
login changes. **CredentialStore** — `credentials.json` under login, logout and
refresh by several programs; `OpenTemp`, `FillTemp`, `Rename` are
the save, and handles stay with a file that is renamed. **LoginFlow** — the URL, the
browser, the one port, the one connection and the exchange.

**PluginSet** — manifests, discovery, flags, aggregation, and the commands at the
start and end of plugins (`RunPlugin`).

Next to some definitions stand mutated forms (`WithinLimitOffByOne`,
`SlotsAfter`'s `CopiesSlot`, `Target`'s `InPlace`, …). No specification uses them: each is a
plausible mistake in the code the definition models, and `PROJECT.json` records
which property it breaks when it takes the definition's place.

## 4. The runs

| Run | Config | Asks | Bounds, and why they suffice |
|---|---|---|---|
| `turns` | `MCConversation_turns` | Do results, effects and consent agree on every path through the tool loop; does a failed turn leave a session the next may use; is usage right; does a turn end, also one in which the model always asks for a tool more; is Transcript implemented? Is an answer what the process did, and what is told of its isolation so? Do calls come back? | two turns of up to two requests, two calls in all, in one reply or apart, or any number of them, one in each reply more, where the model may have its tool (`Persistent`), so that nothing but the code's own limit need end the turn, one pre and one post hook, all five modes, one tool that only reads and one with no registered requirement. Two calls in a reply are what a skipped, doubled or swapped result needs, a second request what a wrong continuation, a second turn what a session left by a failed one. Processes: three steps (read, write, close the input, leave one behind) and a signal at any time, pipes of one unit, payloads of one to three, so that each pipe may be full. Isolation: all wishes of a call but for further names, four settings, two machines |
| `prompt_mode` | `MCConversation_prompt` | Does Prompt mode ask every time? (It does not: section 7) | one turn, one call |
| `hook_denies` | `MCConversation_hooks` | Does a hook that ends with status 2 deny? (Not if it does not read its input) | one process |
| `session_server` | `SessionServer_watch` | Is anything lost between store, snapshot and stream; what order do clients and watchers see; can concurrent creates collide; does every message arrive? | two creators and sessions, one poster with two posts and one with one, two watchers that leave and return, a channel of one event so that receivers lag |
| `agent_jobs` | `MCAgentJobs_jobs` | Do the files of a sub-agent agree at every point, is an end final, does every job end? Do concurrent calls on one file keep each other's work; do parts make the whole; are the progress lines in order and does the reporter end? | two agents, each write may fail or be cut off, the process may end anywhere; two callers, three calls on one file of each kind; two files of up to four lines, either of which may be in a directory that is shut, and one change between parts; four marks, three heartbeats |
| `config_numbers` | `MCAgentJobs_numbers` | Can the settings be loaded after a number was set? (No) | one call |
| `saved_sessions` | `MCSavedSessions_files` | Is what is saved complete and up to date, does a program's later save keep its earlier ones? Does what the user changed reach its commit and pull request, and stay when a project is set up? Do summaries remember; is a text read back as it was saved, and nothing else taken for it? | two programs, two milliseconds (so two files, and programs that start in the same one), two turns of two calls; three messages preserved, so that a compaction cuts between a call and its results. Two programs in each of five kinds of repository. Three compactions. Texts of one message cut or overwritten anywhere, or edited by one character |
| `lsp_client` | `LspClient_calls` | Does an answer reach the request it answers; does every request end; does the client tell the server only what the protocol allows? | two callers on one document; three events, calls begun and things the server says unasked together (a request with an id in use, diagnostics, garbage), in any proportion; the server may die |
| `lsp_manager` | `LspManager_table` | Is the table of clients the truth about the processes, also across shutdowns, and does everybody get on? | two callers, two servers, three processes, four calls: a start may fail, a shutdown may meet a start, a restart follows, and a server may fall silent, or its output end, at any time |
| `extensions` | `MCExtensions_stores` | Is a tool call answered by its own answer, after a proper handshake; do the routes say what the last listing said; does every method end? Do files, registry and settings of a plugin agree whatever failed before; is what is enabled, and only that, in effect? | two servers and two tools, whose qualified names collide between servers and within one; two methods with listings of any number of pages, two and a frame nobody asked for, or three; nine ids for requests, of which a listing that goes on for ever uses the last again and again, as the code would; a server may die, a method be dropped at any await. One external and one bundled plugin, two versions, three commands. Two directories, one manifest wrong in any one place |
| `reply_stream` | `MCReplyStream_replies` | Is a reply gathered as it was sent, once, from the right provider, and shown as written; is a provider told its own replies; does only run what was offered? | OpenAI-style: two calls of up to two pieces in three chunks. Claw-style: text and two calls in ten events, both clients. Three retry policies (none, the default, one past the shift of 32 bits). Turns of two replies. Texts of up to a dozen characters with both fences in pieces of up to four; documents of two levels. Names of each family, spelled exactly or not, environments with one variable odd or two set |
| `terminal` | `MCCommandLine_terminal` | Does a start, or a line, do what it says; do keys keep the text; is a login kept and one's own; are definitions and instructions the right ones? | any three of nineteen arguments; eight documents in each of five places; seven keys on texts of up to seven bytes with a wide character; two lines of each command; two programs, three tokens, four commands; two logins at once; two definitions anywhere; four instruction files around both limits |

Runs that end in a violation on purpose are `prompt_mode`, `hook_denies` and
`config_numbers` (section 7). A type or inductive invariant that is proved
(section 6) is not repeated in a run. The `Budgets` and `Setups` of some instances
are sets of bounds of which a behaviour takes one: many calls with a quiet partner,
or few with a talkative one. `Symmetry` (interchangeable programs) is used in the
`terminal` and `saved_sessions` instances only, which check no liveness.

What the properties say, beyond types:

* `SessionIsComplete`: in each request, and after each turn however it ended, every
  call has its result behind it and every result its call. `SessionTellsAll`: tools
  ran exactly once for each result that says so, in that order (`EffectsMatchTranscript`),
  each with consent for that very call (`EffectsAreAuthorized`), and usage is what a
  tracker made from the session says (`UsageMatchesSession`). `TurnTerminates` joins
  `RequestsAreBounded` (a turn has no more replies than `max_iterations`, and gives up
  only when it had that many) and that each turn comes to its end.
  `ImplementsTranscript`.
* `AnswersAreTrue`, `CallsComeBack` (ChildProcesses): the first says that an answer has
  the status of a process that ended by itself, and of one that a signal ended that it
  was no success -- but for bash and PowerShell, which do not tell. A call that could not
  write its payload is told as failed only where the process would not read on; that
  process may still be running. The second names the cases in
  which the code waits for ever — a payload and an earlier output both larger than a
  pipe, a process left behind that keeps the output open, a program that reads the
  terminal. `IsolationIsTold` (Sandbox).
* `NothingLost`: a watcher that has not lagged has seen, has queued, or will find
  announced whatever its session's store holds. `OrderIsShared` joins
  `PostersStayInOrder` (a client's own posts come in its order), `WatchersAgree` (no two
  streams show two messages in different orders) and `PastStaysPast` (a message that was
  answered before another one was stored is shown before it to everybody, in the snapshot
  or the stream, and never again behind it). There is no more of one order than that: the
  announcement comes after the lock is let go, so that of two messages posted at the same
  time the store, and a snapshot, may have one first and the streams the other;
  `overlapped` names these. `EveryMessageArrives`. `ConversationsOnlyGrow` is proved
  (section 6).
* `ManifestAfterOutput`: a manifest tells an end only after the output file tells
  the same as its last word. `RunningIsTrue`, `TerminalIsFinal`.
* `ChangesSurvive` (SharedFiles): no call loses what another finished, unless two
  overlapped with both to write. `PagesCover` (FileSearch): parts of a file or of a
  grep asked one after the other are the whole, in order, and each says truly whether
  there is more; glob tells the newest files, the newest first, and says truly whether
  there are others; an answer fails just when the file cannot be read, or, for grep, when
  any directory cannot be entered. Of what changes between two parts only the numbers of
  lines are promised.
* `ReportsInOrder` (ProgressReports). `WorkEnds` joins `JobsEnd` and `FinishReturns`.
* `SavedIsCurrent` joins `SavedIsComplete` (a file that can be read holds a session
  that ends with a finished reply, with results without a call only behind the one
  summary) and `NothingUnsaved`. `OwnTurnsSurvive`. What the code does *not* promise
  is visible in their premises: a second program may overwrite the first one's turns,
  and a save cut off loses the whole file.
* `WorkArrives` (GitCommands): a commit holds what the user changed under the message
  made for it, and a pull request is made for a branch that has it. `TextsAreKept`
  joins three questions about texts: `FilesAreKept` (RepoInit), `SavedReadsBack`
  (SessionText) and `SummariesRemember` (Summaries).
* `ClientIsInStep` joins `AnswersAreTheirs` and `DocumentsFollowProtocol`
  (LspClient). The exceptions are the code's: a request of the server's own with an
  id in use is taken for the answer; two callers that work on one document at once,
  or one dropped in the middle, may break the protocol, for the look, the write and
  the record are under different locks. `RequestsEnd` excepts a reader that ended
  cleanly, and a request made after the reader has gone: those wait for ever.
* `TableIsFresh`, `ProcessesAreAccounted`, `NeverReplaced`, `CallersGetOn`
  (LspManager). Requests have no timeout and the table's lock is held while a server is
  greeted. So whoever waits for a server that is silent, or whose output ended between two
  messages, waits for ever, with a query or with a shutdown; and if it is one that is
  being started everybody else waits too. `CallersGetOn` says that nothing else keeps
  anybody.
* `CallersAreTold` joins `AnswerIsOwn` and `RoutesMatchListing`; `MethodsEnd`
  (McpServers). The ids of answers are not compared with those of requests; the
  answer is the caller's own only because requests go one at a time. The exceptions
  are a method dropped while it waited and a message sent unasked: either leaves a
  frame in the pipe that the next method takes for its answer. `MethodsEnd` excepts a
  listing whose server always has a further page: nobody counts them.
* `PluginsAreSound` joins `PluginsAreConsistent` and `PluginsTakeEffect`. What a
  command that succeeded has done to a plugin holds until a command fails on it; an
  install or an uninstall that succeeds mends what failed before. A listing that
  succeeds mends the bundled plugins, because the registry is stored after the files;
  excepted is an interrupted update of a bundled plugin at the version already
  recorded. A directory left broken makes every listing fail, and with it enabling
  and disabling any plugin, until its own plugin is installed, updated or uninstalled.
* `ReplyIsTrue` joins `ReplyIsFaithful` (a gathered reply is the reply sent, and of a
  cut one nothing that was not said), `FramesArriveWhole` (ModelRequest),
  `PiecesMakeTheText` and `ShownAsWritten` (Markdown), `ClientIsMade` and
  `RequestsGoHome` (ProviderChoice). `RetriesAreHonest` (ModelRequest),
  `RoundsAreTold`, `OnlyOfferedToolsWork` (ToolRounds): the latter also says what a result
  tells -- it is an error just when the tool did not work, the hook after it objected, or
  the result could not be shown.
* `AskedIsDone` joins `StartsAsAsked`, `CommandsAreTaken` and `LoginIsOwn`;
  `KeysKeepTheText` joins `LineCommandsMatch` (against vim's), `CursorsStayWhole` and
  `NothingTypedIsLost`; `CredentialsAreWhole` and `LoginIsKept` (CredentialStore),
  `DefinitionsResolve`, `InstructionsFit`.

`CHECK_DEADLOCK FALSE` stands in every configuration because every behaviour of
these bounded models ends: the turns are used up, the agents are launched, the
process is down, the calls are made, the reply is gathered, the commands are given.

## 5. Fairness

Conversation: weak fairness of `TurnStep`. `run_turn` waits for nobody but the provider,
the hook commands, the user and the tools; the assumption is that these return.
ChildProcesses: weak fairness of the caller's thread and of time (a timeout passes), and
of the child's program unless it waits for something; that the *call* comes back is what
is shown from it. SessionServer: weak fairness of announcing and of each stream; an
announcement needs no lock and the executor polls a ready task. Nothing is assumed of
clients, who may never post, read or return. AgentJobs: weak fairness of the launching
call and of each thread; a thread's conversation ends because `TurnTerminates` (run
`turns`) holds with the 32 iterations the sub-agent's runtime sets, and `process =
"down"` is an exit of the promise, for nothing restarts the process. ProgressReports:
weak fairness of the heartbeat thread and of the finishing thread, which are threads of
the operating system that wait only for a lock held for a line, for a timeout and for
each other; the turn itself may take for ever. LspClient: weak fairness of each caller's
task, of the reader and of the server's answers; a server may die instead, and nobody is
obliged to go on speaking. LspManager: strong fairness of each caller, because tokio's
mutex serves its waiters in the order they came, so a lock that is free again and again
is got; nothing of the servers but that one that is up answers. McpServers: weak
fairness of the method under way and of a living server's answers. The other modules
state no liveness and assume none.

## 6. The proofs

All proofs are checked by TLAPS for every value of the constants that satisfies
the modules' assumptions. No module with a theorem uses recursive operators.

* `Conversation_proofs`: `TypeCorrect`; `CompletenessInvariant`, from which
  `SessionComplete` follows. Completeness of the session
  is not inductive by itself: in the middle of the tool loop the last reply has
  unanswered calls. `CompletenessInv` says where that reply is (`done` messages
  before the end), that its calls are the pending ones, that the first `done` are
  answered, and that everything before it is complete. `TranscriptImplemented`:
  every step of `run_turn` is a step of `Transcript` or a stutter (the safety part
  of `ImplementsTranscript`; its fairness is model-checked). `NothingRunsUnasked`:
  `Spec => []EffectsAreAuthorized`, from `ConsentInv`, which names for each call that
  ran the tool the session asked for under that id (ids are unique, so it stays the
  same tool when the session grows) and says of the call between its check and its
  execution that consent was given. `SessionTellsItAll`: `Spec => []SessionTellsAll`,
  from `ToldInv`: what ran is what the results of the session say, in order, but for
  the call whose result is still to be written, and usage is what the fold over the
  session gives. `RequestsAreCounted`: `Spec => []RequestsAreBounded`, from `RequestInv`:
  the counter of the loop is the number of replies the turn has got, and one more while
  it waits for the next. `IsolationIsAlwaysTold` (`SandboxInv`) and `AnswersAreAlwaysTrue`
  (`ProcessInv`: who holds which end of which pipe, and that what was read is a prefix
  of what was written), for any pipe, any payload and any process, whether it reads its
  input, closes it, or is ended by a signal.
* `SessionServer_proofs`: `ServerTypeCorrect`, `ServerInvariant`, and from it
  `NothingIsLost`, `PostersInOrder`, `WatchersDoAgree`, `ConversationsGrow` and
  `OrderShared`.
  `ServerInv` adds what the code never states: an id is held by one creator or
  live; the store's messages are those in the channel or in flight; a receiver that
  has not lagged has shown all it passed; a client has at most one message in
  flight and it is its latest; a stream shows, in order, events it has passed. What
  `PastStaysPast` rests on is `PastInv`: a message that was answered before another one
  was stored is announced, and before that one (`StoredPast`); a snapshot is the store as
  it was, and who has the later of the two in it has a place in the channel behind the
  earlier one and will not be shown that again (`ShownPast`).
* `LspManager_proofs`: `ManagerTypeCorrect`; `TableInvariant`, from which
  `TableStaysFresh` and `ClientsAreNeverReplaced` follow. `TableInv` says that a client
  being initialized is in no table and on no shutdown's list, and that meanwhile the
  table has no client of its server: this is what the lock held across the start is
  for. `EveryProcessIsAccounted`, from `AccountsInv`: who is not
  stopping servers holds none taken from the table (`OnlyStoppersHold`), so that a new
  shutdown forgets nobody, and each running process is in the table, on such a list,
  in a call that starts it, or dropped with one.
  Of LineEditor, `CursorsAreWhole` and `TypedComesBack` (`CursorsStayWhole` and
  `NothingTypedIsLost`, two of the three parts of `KeysKeepTheText`), for any characters,
  histories, completions and lengths. `EditorInv` says that texts, commands, history and
  the line that was kept are whole, that cursors lie between characters (`Sound`), that
  the anchor of a selection does so or is at the end or behind it (`Anchored`), that the
  text set aside for the history is the one that was typed (`WalkIsKept`), and that while
  only Tab is pressed the text is the completion offered last (`Cycling`). The lemmas say
  where a text may be cut and joined (`CutIs`, `JoinIs`, `DrainedIs`, `InsertedIs`,
  `SliceIs`), that the ends of lines and the neighbours of an offset are such places, and
  that a row counted from the start of the text exists (`RanksExist`, `VerticalIs`).
* `AgentJobs_proofs`: `JobsTypeCorrect`, `ManifestFollowsOutput`, `EndsAreFinal`,
  and `RunningStaysTrue`, from `JobsInv`, which says for each place of the launching
  call and of the thread what the two files hold.
* `AgentJobs_proofs`, of ProgressReports: `ReportsStayInOrder`, for any number of steps
  and heartbeats. `ProgressInv` relates the three copies of the state: each names a step
  with its own phase and none is ahead of the shared one (`CopiesInv`); the heartbeat
  thread exists exactly between the first line and the join (`ThreadsInv`); what was
  printed is behind what either thread will print next (`LinesInv`). The turn's copy
  is taken under the lock of the change, which is why its lines cannot overtake each
  other; the heartbeat's is not, which is why the order between the two is not
  promised.
* `AgentJobs_proofs`, of SharedFiles: `ChangesDoSurvive`, for any callers, calls and
  files. Lemmas say of each tool that the file it computes has, by key, exactly the
  effect the call is to have, and each key once (`UpdateDone`, from `EditDone`,
  `SettingDone`, `ReplaceDone`, `InsertDone`, `DeleteDone`, `ListDone`): a new cell's id
  is free because the ids are no greater than the number of cells until one is deleted
  (`KeptWell`); what a setting loses is the value whose place an object takes (`MadeWay`).
  `FilesInv` says that while nobody fills the file it tells what was put
  there, and whoever has it open has computed its text from that; and that a caller who
  fills it alone computed its text from what it held before it was truncated.
* `AgentJobs_proofs`, of FileSearch: `PartsCoverTheWhole` (`PagesCover`), for any files,
  limits, offsets and number of parts, provided that the walk comes by a file once.
  `SearchInv` says that what one answer without a limit would have told is known
  (`Full`), that the parts heard are its beginning and the last one tells whether there
  is more (`Paged`), that the numbers of lines go on from the offset whatever happens to
  the file (`Numbered`), what a list of files has and in which order
  (`Listed`), and which answers fail (`Failed`). One part is shown to
  go on where those before it end for each tool (`ReadGoesOn`, `AnswerGoesOn`); what
  is joined and kept of a sequence is `FlattenIs` and `KeptIs`.
* `LspClient_proofs`: `ClientTypeCorrect`, `ClientInvariant`, and from it
  `AnswersFindTheirCallers` and `ClientStaysInStep`. `IdsInv` says that an id has one
  owner: it is in the client's map, in a request on its way, with the server or in an
  answer on its way for one caller at most, and never again once it was answered;
  `CallInv` what each place of a call has done of it. `BorrowedInv` keeps the
  documented exception, a request of the server's own with an id in use, from
  spreading to other callers. For the documents `Ready` says which of the messages
  opened, changed and saved the server has seen or has in its pipe, in order, and
  `DocumentInv` that the client's record of it is the same unless two callers met.
* `Requests_proofs`, of CredentialStore: `CredentialsStayWhole` and `LoginStaysKept`,
  for any number of programs. `MemoryInv` says what a program holds at each step of a
  save, `AloneInv` that without an overlap one program has the temporary file to itself
  and what is in it at each step, so that a rename puts a whole object in place.
  `KeptInv` follows the last login that succeeded to the file, and `SavingInv` a save
  that is under way.
* `Requests_proofs`, of Instructions: `InstructionsStayFit`, for any files and budgets.
  `BudgetInv` says that what is written is what is not left, until the budget is used
  up, and then less than two marks more; that the marks are at most two follows from
  the two cuts of a text (`RenderedFits`). That a text comes once and the outer before
  the inner is a fact about the loop that leaves copies out (`CopiesAreLeftOut`), which
  `SectionsInv` carries over to what is written.
* `Requests_proofs`, of ModelRequest: `RetriesStayHonest`, for any policies and replies.
  `CountsInv` ties the waits to the attempts and to the policy's, which grow
  (`WaitsGrow`); `AnswersInv` says that a reply is asked for as a whole only after a
  stream that told nothing, and that the provider has answered once until then.
* `Requests_proofs`, of ToolRounds: `ToolsAreOffered` (`OnlyOfferedToolsWork`), for any
  owners of the turn and any replies. `OfferInv` says what was asked for, `PendingInv`
  that the calls still to be answered are calls of the last reply, each once, and
  `EffectsInv` and `ResultsInv` that what a tool did, and what a result tells, belongs
  to a call that was made and waits no longer; `SpoiledInv` says it of the results that
  the hook after the call, or a failure to print, made errors of. Underneath are the
  loops that build a reply's blocks and pick its calls (`Traced`): a call keeps its id
  and its name through them, in either dialect, streamed or whole. `RoundsStayTold`
  (`RoundsAreTold`): `TellingInv` says that there are results, a sequence for each
  reply, such that what the session tells is its beginning and, reply after reply, what
  was said and these results; that the ids of a reply's calls are those of its results
  and, in the last round, of the calls that wait (`Fits`); and that an id tells the
  reply it is of and is no other call's (`IdsFit`), which is why exactly one thing that
  is told answers it (`AnswersAreTold`). A reply is told as it was said (`TellIsEcho`)
  because what is seen of a sequence -- its letters, its calls, their ids, or all of it
  in order -- is what is seen of its members, joined (`View`), and because joining two
  texts is seen by none of these (`ViewBuilt`, from `Agree`). That a request tells what
  the session does is shown for each of the interfaces (`ClawTells`, `OpenAiTells`,
  `SentIsTold`).
* `Requests_proofs`, of ProviderChoice: `ClientsStayRight` (`ClientIsMade` and
  `RequestsGoHome`, two parts of `ReplyIsTrue`), for any environment and models and
  whatever happens to the saved login. `MakerInv` follows for whom a client is made
  (`HeldInv`: with what) from the first look at the credentials to the second. The proof
  found an exception the runs had no environment for: a key for Claw beside a token that
  cannot be read is found by the first look and fails the second, and hides the key of
  another provider. `ClientIsMade` now says so, and the run has that environment.
* `Extensions_proofs`, of McpServers: `McpTypeCorrect`, `PipesStayInStep`,
  `EveryAnswerIsOwn`, `EveryCallerIsTold`. The manager compares no ids, so that an
  answer is the caller's own is a fact about the pipes: `PipesInv` says that those of a
  server that was never dropped and never spoke unasked are empty while nobody waits,
  and hold the request or its answer while somebody does; `Agreed` that the manager's
  flag and the server's memory of the handshake differ at most while that answer is on
  its way. `DiscoveryInv` says of the routes during a discovery that those of servers
  still to be listed are old, that all others were told this time, and that every name
  told has a route that was -- for any names, those that collide included.
* `Extensions_proofs`, of PluginStore: `StoreTypeCorrect`, `StoresAlwaysAgree`,
  `PluginsStayConsistent` (`PluginsAreConsistent`, the half of `PluginsAreSound` about
  the three stores), for any plugins and versions. `CommandInv` says what a command has
  done to its target when it is at each place (`InstallInv`, `UninstallInv`,
  `UpdateInv`, `FlagInv`), that its copy of the registry differs from the file only
  there (`CopyInv`), and that a plugin no command failed on is `Settled` or, as the
  target, `Between` (`AgreeInv`). `BundledInv` is why syncs mend each other: a record of
  the version that is shipped means all its files are there (`RecordsInv`), during a
  sync the same holds of the copy for what was looked at (`SyncInv`), and so of what is
  stored (`StoredInv`).
* `SavedSessions_proofs`: `FilesAreCurrent` and `TurnsAreNotDropped`, for any programs,
  files, turns, and number of messages a compaction preserves. What must be carried
  along is that a session is complete *whatever is done to it*: that a turn keeps it so
  (`TurnKeepsComplete`), and that a compaction, which cuts anywhere, leaves at most
  results without a call behind its summary (`CompactedComplete`). `SessionsInv` says so
  of every session held, in a file or being written (`SessionsComplete`, `WholeFiles`),
  and `AllSaved` that between turns the file a program writes last held what it holds.
  Of GitCommands, `WorkAlwaysArrives`: `LetterInv` follows the message of a commit from
  the model to the file with the fixed name to git, and `ShipInv` the user's changes from
  the work tree to a commit, the branch, the remote and the pull request. The proof
  found an exception the runs, with one name for the branch, could not meet: where no
  remote is set up and the new branch is itself to be called `main` or `master`, it is
  taken for the default branch. `DefaultIsKnown` now says so.
  Of RepoInit, `FilesStayKept` (`FilesAreKept`, a part of `TextsAreKept`), for any
  programs, projects and files: `FileInv` says of a file nobody meddled with that one
  program at most writes it, that what it is about to write is what a look would decide
  on now (`OpenedIsNew`), and that the file, or what is being filled into it, is right;
  `RunsInv`, of runs nobody disturbed, that what was dealt with so far would be left
  alone by a further look (`Stays`). That lines are added at the end, and none that is
  there, is proved of `WithWanted` (`WithWantedIs`).

The sums and last elements that the code takes of whole sessions (`SessionTellsAll`, the
tracker, `Flattened`) are folds. What is needed of them is proved for finite sets by
well-founded minima (`SetInduction` and its instances), since the library's induction
rules take an operator. A loop over a sequence is a recursive function of its index;
`LoopExists` gives the function that the model's `CHOOSE` stands for, and an invariant of
the loop is then proved over its indexes.

Only model-checked: every liveness property and the fairness half of
`ImplementsTranscript`, which are out of the prover's reach; and what is said by
SessionText, Summaries, PluginSet, ReplyStream, Markdown, Startup, SlashCommands,
LoginFlow and Definitions, by `LineCommandsMatch` of LineEditor and
`FramesArriveWhole` of ModelRequest. Most of these work
on texts, with recursive operators, which keep a module from the prover, or with
`SelectSeq` and `SortSeq`, of which it knows nothing.

## 7. Where the code and what is said of it differ

Three disagreements are shown by a run.

* *Prompt mode does not ask every time* (`prompt_mode`). The report
  `ClaudeCode_Agent_Orchestrator_研究报告.md:267` says of it that every tool call is
  put to the user. `PermissionMode` is ordered, Prompt above DangerFullAccess, and
  `authorize` allows whatever the mode is at least as high as required: in Prompt mode
  nothing is ever asked.
* *A hook that denies may be taken to have failed to start* (`hook_denies`). The
  comment and test at `runtime/src/hooks.rs` say that status 2 denies. The runner
  writes the payload to the hook's input first; a hook that exits without reading
  breaks the pipe, the write fails, and the call is allowed with a warning.
* *A number in the settings cannot be read back* (`config_numbers`, a bug). The
  Config tool's schema takes numbers and the tool writes them as JSON numbers that may
  have a fraction; the settings' own parser knows integers only, and from then on no
  start and no call can load the file.

The modelling met more, each visible in a module's guards or in the premises of a
property rather than in a run of its own.

*Conversation and sub-agents.* The iteration limit defaults to `usize::MAX`
(conversation.rs:141). The Agent tool's answer is always "running"
(tools/src/lib.rs:1583); an unknown sub-agent type gets the general-purpose tools.
Sub-agents choose their provider by the model and cannot refresh an expired token.
With tools switched off the executor still runs what the model calls. A hook after a
call makes its result an error though the tool worked (conversation.rs:228-233), and so
does a failure to print it. `/compact`
starts a new tracker and so forgets the cost (main.rs:1662). A second compaction
drops the earlier timeline, and a summary is cut at its first blank line.

*Providers.* The command line uses the Claw client whatever the model's provider is;
its own `resolve_model_alias` is exact where the library's ignores case and spaces.
An expired saved login hides `OPENAI_API_KEY` and `XAI_API_KEY` for models of no
known family. An empty `*_BASE_URL` is used as it is. The default login can never be
refreshed, because the client asks for an `oauth` section of the settings
(claw_provider.rs:428–433). SSE frames with mixed line ends run together; a last
frame without its blank line is dropped by the OpenAI client and parsed by the Claw
one. A streamed call with empty input is gathered as an empty string and fails as
invalid JSON; broken OpenAI arguments fail when streamed and run as `{"raw": …}` when
whole. The OpenAI translation puts the text of a reply before its calls.

*Processes.* Of a process that a signal ended bash and PowerShell tell what they tell of
a success (bash.rs:140-146), the REPL tool a status of 1. The REPL tool ignores its
timeout (tools/src/lib.rs:2547). PowerShell with a timeout never ends if its output
exceeds a pipe. The command of a bash call that timed out keeps running; without a
timeout `server &` or a read from the terminal hangs the call. A tool input above 128
KiB makes every hook fail to start, and the call is allowed. Unreadable sandbox settings
fall back silently; with namespaces off and network isolation on the child is put in
namespaces all the same; the file-system modes only set environment variables; where
`unshare` exists but is not permitted, every command fails.

*Settings, definitions, start.* `permissionMode` and `model` of the settings are
parsed and never used by the program. `plugins.enabled` in any settings file replaces
all `enabledPlugins`. The binary calls neither `initialize` nor `shutdown` nor the
hooks of plugins; one broken manifest stops every start; `hooks/x.sh` without `./` is
a literal command. A plugin's tool whose normalized name is a built-in's is what
`--allowedTools` means by it. `-p` swallows later options and drops earlier words; an
unknown option is prompt text. Instruction files are read outermost first, so the
budget leaves out the nearest; an unreadable one ends the start. One unreadable
definition fails a listing. The Skill tool (tools/src/lib.rs:1463) looks in fewer
places than `/skills`, and in one user's hard-coded home directory. The JSON parser
of the settings refuses fractions and surrogate pairs, accepts trailing commas and
leading zeros, and of two equal keys keeps the last.

*Slash commands and git.* All leading slashes are stripped, so that `//pr fix` and
`/ skills x` lose text. `/branch`, `/worktree` and `/commit-push-pr` are listed and
answer that they are not available. A slash command that fails ends the program.
`/clear x --confirm` is not confirmed. The files that carry commit messages and pull
requests have fixed names. A second attempt in a repository without `origin/HEAD`,
`main` or `master` takes the new branch for the default one. An interrupted
`claw init` leaves an empty file that the next one takes for the user's, and a
`.gitignore` cut off in the middle has lost its lines.

*Files and text.* NotebookEdit may give the id of a deleted cell again
(tools/src/lib.rs:2322). Config and the plugin manager put an object in the place of
whatever else stands where they need one (tools/src/lib.rs:2816). grep repeats context
lines that overlap and applies its offset to file names; glob puts files without a time
first. One directory that cannot be entered fails the whole of a grep, also when its
filter is elsewhere (file_ops.rs:379), and is left out by glob without a word. Pieces of
streamed Markdown are trimmed and written without a line end, so that paragraphs run
together (main.rs:3141, render.rs:274); any fence opens or closes, whatever its mark and
length, so that a cut within a long closing one counts as the end (render.rs:648); an
indented list after a blank line becomes code. In the line editor, deleting a visual
selection that was made backwards may panic inside a wide character, and `p` after `dd`
differs from vim's at the end of the text.

*Login.* The browser is opened before the port is bound (main.rs:519, :590). One
connection is accepted, one read of at most 4096 bytes is made, without a timeout; the
page tells success before the state is compared and the code exchanged. The listener
is on 127.0.0.1, the redirect says localhost.

## 8. Not modelled

* Wording, layout, colours, hashes and random numbers; the token estimate, the
  date, platform and git sections of the system prompt.
* The remote proxy, the bootstrap plan and the names of MCP tools: pure functions
  of their arguments with no later state, covered by the repository's own tests.
* MCP transports other than stdio, which the code only describes and refuses; WebFetch,
  WebSearch and ToolSearch; the reports of work trees and branches; `/export`.
* The compatibility harness, the Python port and the extracted sources: they
  describe or mirror another program and are no part of this one.
* What other programs do is a nondeterministic answer: git, the shell, a language or
  tool server, the provider, the user.
* A frame of LSP or MCP is read or written whole: a method dropped within one write is
  left out. PluginStore has one program at a time. Token counts of streamed replies
  are left out of ReplyStream, and so are text, thoughts or input that come with the start
  of a block instead of with its deltas.
* vim's memory of a column over several `j` and `k`, which the code has not: what the
  line editor is compared with keeps no such column either. In Startup the arguments of a
  command line and the documents of settings are varied one at a time, never together;
  the permission mode and the model of the settings, where they could meet, are parsed
  and not used (section 7).

## 9. What is left

Of the plan, the modules are written and the runs check them. Left are proofs about the
providers' side: what a client makes of the events of a reply. Of the code, the names of
MCP tools and the remote proxy could be checked as pure functions against a reference
definition.
