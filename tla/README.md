# AiOpt: a verification project

AiOpt is an Electron desktop application that manages AI providers (endpoints with a key or a
sign-in) and points coding agents (Claude Code, Codex, ...) at them. Pointing an agent somewhere
means rewriting the agent's own config file; where the agent's wire format is not the provider's,
or keys should stay out of config files, the agent is pointed at a loopback HTTP proxy inside
AiOpt, which translates and forwards. A *routing group* stands for several providers and models
at once and fails over between them. Around this AiOpt keeps a library of MCP servers and of
skills, serves the servers behind a gateway of its own, counts tokens, and runs a *workbench*, in
which an orchestrating agent has other agents work on tasks in parallel.

These modules model what has to stay right in that. The code modelled is
`src/apps/desktop/src/main` (called *main* below) and `src/apps/desktop/src/shared`; file names in
the tables are relative to main unless they begin with `shared/`.

All commands run in this directory: `tlc -workers 2 -config MCBindings.cfg MCBindings`,
`tlapm ProxyRouter_proofs.tla`.

## 1. The system

| Component | State it keeps | Operations | Talks to |
|---|---|---|---|
| Route registry (`proxy/router.ts`, `proxy/proxyStore.ts`) | token → route, agent → token; `proxy.json` with routes and port | register, unregister, snapshot, clear, load | called by the proxy; saved after every change |
| Translation proxy server (`proxy/translationProxy.ts`) | listener, port | start, rebindPort, stop | agents (HTTP), providers (fetch), registry, routing runtime |
| Proxy requests (same file, `handle`, `serveDriver`) | per request: candidates, position, trail | plan, attempt, fix, fail over, stream | routing runtime, upstream drivers, usage |
| Stream translators (`proxy/translate/*.ts`) | per answer: the open block, indexes, whether it began and ended | one event in, frames out; flush | the proxy's `pipeStream` |
| Routing runtime (`proxy/routing/*.ts`) | resting seats, rotate cursor, ok counts, recent decisions; conversation sticks on disk | onSuccess, onFailover, plan, status, clearGroup, retryNow | group store, provider store |
| Provider manager (`providers/providerManager.ts`) | none of its own | bind, unbind, resync, restore, profiles, providers, groups, rebuildRoutes, refreshProxyPort | every store, the proxy, the adapters |
| Stores (`providerStore`, `routingGroups`, `bindingApplied`, `bindingProfileStore`) | documents in memory, each with a JSON file | get/put/remove | provider manager |
| Agent adapters and `providers/fsutil.ts` | the agents' config files, `.aiopt.bak`, `.tmp` | readLive, writeLive, restoreDefault | the file system, shared with the user and the agents |
| Format choice (`shared/aiProviders.ts`) | none | resolveBindingRoute, translationSupported | manager, picker, groups |
| OAuth (`oauth/`, `upstreams/codearts/auth.ts`) | one pending sign-in with its callback server; token bundles; refreshes in flight | startLogin, refreshIfNeeded, renew, disconnect, removal | secrets, provider store, the vendor |
| MCP library (`mcp/mcpStore.ts`) | servers, confirmed fingerprints, key values; the agents' MCP files; native dialogs that are open | save, pull, push, merge, remove, setGateway, profile sets | agent files, secrets, the user |
| MCP gateway (`mcp/mcpGateway.ts`) | one upstream object per served server, its client, its start in flight, tool routes | refresh (reconcile), tools/list, tools/call, idle sweep, start/stop | child processes and remote servers, agents |
| Workbench (`workbench/workbenchManager.ts`) | task board, launches in flight, poll; orchestrator, herdr client, server; `startSeq` | start/stop/shutdown; create, update, launch, end, message, remove | pi (RPC child), herdr (multiplexer), git |
| Skills (`skills/`) | directories in the library and in each agent's place | push, pull, import, merge, delete | file system |
| Usage (`usage/`) | events in memory and in a log of lines | record, clear, load with compaction | proxy, agents' sniffers |
| Preferences, secrets | one document; encrypted values | set, get, remove | provider manager, OAuth, MCP |
| Sessions, updates, shortcuts, tray, quit guard, auth stub, agent import | their own documents | see `PROJECT.json` | |
| Renderer and preload | user interface | IPC calls | the handlers above |

`PROJECT.json` lists every component with its sources and how far it is modelled.

### How they interact, and what is hard

* The main process is one thread. A handler of the provider manager runs without an `await`
  between its steps, so handlers never interleave with one another. What makes them hard is
  *partial failure*: binding an agent saves the route table, writes the agent's config, saves what
  was applied and saves the binding; every one of these can throw, and the process can die between
  any two. What was done before stays done. The skills' directory swaps and the usage log are of
  the same kind.
* Memory and disk differ after a failed save: every store changes its memory first and then
  writes, so a throw leaves a change that is served until the next start and gone after it, or is
  written along with the next unrelated change (each file is one whole document; in `proxy.json`
  the port and the routes go together).
* The agents cache the address they were given. After a restart, a port change or a re-apply they
  must find either the same address or a config with the new one.
* Everything that awaits interleaves. A proxied request awaits its body, every upstream answer and
  the reply's body; meanwhile other requests move the cursor, the sticks and the cooldowns, and
  the user edits or removes the group it runs through. A sign-in awaits the browser, a refresh the
  vendor; an upstream's start awaits `connect` and `tools/list`; a launch of a worker awaits herdr
  four times; a start of the workbench awaits pi and herdr for seconds. In each of these the object
  that was being worked on can be changed, stopped, removed or begun anew under the wait.
* A native dialog is a wait too: what it showed when it opened may not be what is there when the
  user agrees.
* Refresh tokens are for one use: two refreshes of the same bundle, of which one is refused, must
  not lock the account out.
* The config files belong to the user. The agent and the user rewrite them at any time, also
  between AiOpt's own file system calls.
* Stream translation has two protocols to satisfy at once: blocks open, fill and close in an order
  the reader insists on, whatever the writer's own order was.
* Time: cooldowns and sticks run out whenever they do; idle sweeps, lead times and time-outs race
  answers.

What each modelled component owes:

* *registry*: the two maps are each other's inverse; what is saved never collides; an address that
  was rotated away never answers again; an unchanged target keeps its address.
* *server*: the port in the agents' files answers through any rebinds; one server is left when
  they are over.
* *bindings*: no binding names something that is gone; routes exist only for bindings; a rebuild
  repairs whatever a failure left; an orderly restart changes no cached address; proxy mode keeps
  keys out of config files.
* *config file*: the user's original survives everything until it is handed back, and is handed
  back exactly.
* *routing*: every member is tried before a client hears "unavailable", none twice; resting
  members come last; rotation rotates; a conversation stays where it was answered last; every
  request ends.
* *streams*: a reader can follow every frame, nothing is lost, and the end is the upstream's end.
* *OAuth*: the stored tokens are those that work; a removed account leaves none; a login ends and
  takes its listener with it.
* *MCP*: what runs is what was confirmed; what is written was shown; what the user wrote by hand
  stays; a call reaches the version that is served; every request is answered.
* *workbench*: the dependency graph has no cycle and no dangling edge; an approved plan goes on; an
  ended task stays ended; a lost worker is noticed; no workspace without a task stays open; one
  orchestrator; stopped is down.
* *skills*: a copy is never lost to a step that throws; a copy that succeeded is the right one.
* *usage*: an event is kept until it expires or is cleared.

The hazards, each at its line with the properties that cover it, are in `PROJECT.json`.

## 2. The modules

| Module | Models | Role |
|---|---|---|
| `RouteTable` | – | abstract specification of the route table: one route per agent, fresh tokens, write-through or nothing, restart gives back the durable copy |
| `ProxyRouter` | registry with persistence | detailed; refines `RouteTable` |
| `ProxyRouter_proofs` | | five theorems about `ProxyRouter` |
| `BindingRoute` | `resolveBindingRoute`, `translationSupported`, `TRANSLATION_TARGETS` | pure operators, used by `Bindings` |
| `Bindings` | provider manager, stores, proxy routes, config files, start-up | composes `BindingRoute` and an instance of `ProxyRouter` |
| `Bindings_proofs` | | nine theorems about `Bindings` |
| `AgentConfigFile` | `fsutil.ts` under an adapter's read-merge-write | at the granularity of file system calls |
| `ProxyServer` | `start`, `rebindPort`, `stop` taken apart at their awaits | what the registry and `Bindings` take as one step |
| `RoutingPlan` | `orderMemberIndexes`, affinity and cooldown order | pure operators, used by `RoutingProxy` |
| `RoutingProxy` | `handle`, `serveDriver`, routing runtime, sticks | concurrent requests against one group |
| `RoutingProxy_proofs` | | six theorems about `RoutingPlan` and `RoutingProxy` |
| `TranslateStream` | the six stream translators, and a reader of each target format | one answer, event by event |
| `OAuthSessions` | `oauthManager.ts`, `callbackServer.ts`, `codearts/auth.ts` | login and refreshes as processes |
| `McpLibrary` | `mcpStore.ts` with its dialogs | library, secrets, agent files, disk |
| `McpLibrary_proofs` | | three theorems about `McpLibrary` |
| `McpGateway` | `mcpGateway.ts` | upstream objects, connections, requests |
| `McpGateway_proofs` | | two theorems about `McpGateway` |
| `WorkbenchTasks` | task board, launches, poll, sweeps of `workbenchManager.ts` | tasks against herdr |
| `WorkbenchTasks_proofs` | | three theorems about `WorkbenchTasks` |
| `WorkbenchLifecycle` | start, stop, shutdown, exits of the same file | starts that overtake each other |
| `WorkbenchLifecycle_proofs` | | two theorems about `WorkbenchLifecycle` |
| `SkillFiles` | `skillsFs.ts`, `skillsStore.ts` | one skill, two copies, step by step |
| `UsageLog` | `usageStore.ts` | memory against a log with torn lines |
| `Services_proofs` | | theorems about `AgentConfigFile`, `ProxyServer`, `OAuthSessions`, `SkillFiles`, `UsageLog`, `TranslateStream`, `BindingRoute`, and their composition `MCServices` |
| `MCServices` | – | the smaller components side by side, for one run |
| `MCBindingFaults` | – | `MCBindings` in two small instances, where writes fail |
| other `MC…` | – | constants and symmetry for TLC |

A definition introduced by the word *Mutant* is a plausible bug of the definition that follows it.
None of them is part of a specification: they stand beside the original so that one can check that
the properties notice.

### ProxyRouter

`byToken` and `tokenByAgent` are the two `Map`s of `router.ts`; a route spec is the agent it
belongs to and a *target*, which stands for the fields `sameSpec` compares. `saved` is the
`routes` part of `proxy.json`. `RegisterRoute`, `UnregisterRoute`, `RebindPort` and `Stop` are the
methods of the proxy, `Restart` is a new process: it loads `saved` and binds a port or fails to.
The maps change before the save, so each of these actions lets `saved'` be the new table or what
it was (`SaveRoutes`): a save that threw. `minted` is every token `randomUUID()` has returned;
that it never repeats one is the only thing assumed about it.

The mapping to `RouteTable` takes an agent's route from both maps (`routeTable`), the durable copy
from `saved` (`savedTable`) and the used tokens from `minted`.

### ProxyServer

Here the port's moves are taken apart. `phase` is AiOpt's; `live` is the listener the proxy holds,
`listening` those the process has; a `rebind` is a `refreshProxyPort` call between asking for a
port (`bind`), listening on it (`bound`) and the callback (`Rebound`), which closes *whichever
listener is live by then*. `saved` and `written` are the port in `proxy.json` and in the agents'
files. Listens and saves fail. `leaked`, `unsaved` and `mute` record what a failure left, so that
the properties can say exactly how much a failure costs.

### Bindings

`mem` and `disk` hold the four stores, in memory and in their files; `file` is what each agent's
config says (`None`: as AiOpt found it, `Foreign`: rewritten by another tool, otherwise base URL,
model and key). A *handler is a job*: its action evaluates the checks before the first write, and
puts the writes it will make in `todo`: those before its loop over the agents (`first`), those of
each agent (`each`), which are made in the order of `AGENTS`, and those after the loop (`last`). A
handler for a single agent has a loop in which only that agent has writes. `Do` executes the next one,
`Fail` lets it throw, `Restart` may interrupt it anywhere. Nothing else runs while `todo` is not empty, since no
handler awaits between its writes. After a throw the rest of `todo` is dropped, except in the loops
with a `catch` per agent (`rebuildRoutes`, re-applying a group), which go on with the next agent
(`job.guarded`). A failed save leaves the memory changed, a failed config or secret write leaves
everything as it was.

`Plan` is what a binding means now: the checks of `applyBinding` and `applyRoutingGroupBinding`,
ending in *refused*, *direct* (the provider's address and key in the config) or *proxied* (a
route, and the loopback address in the config). `Apply` is the writes that follow. `Restart`
reloads the stores, drops bindings of absent providers as `providerStore` does, rebuilds the
registry from `proxy.json`, takes the persisted port or another one, and replays the bindings. Tokens
nothing refers to any more can be handed out again, which keeps the state space finite: a UUID
nobody remembers is as good as a new one.

### AgentConfigFile

One config file with its `.aiopt.bak` and `.tmp`. A document is the user's part, AiOpt's part and
whether it is complete. Every file system call of `writeAgentConfigFile` and
`restoreAgentConfigFile` is an action; opening for writing and the last byte are two, so a crash
in between leaves a truncated file. The user edits and deletes the file between any two calls,
calls throw, the process dies. `taken` and `orig` are history: whether a take-over is under way,
and the file as it found it.

### RoutingPlan and RoutingProxy

A request goes `new`, `reading` (its body), then per attempt `sent`, possibly `fixed` (the retry
after `autoFixRequest`) or `driven` (a driver's seat), then `body` (reading the reply), `done`.
Between two of these the code does not await, so each action is everything it does in between:
`Fails` with the cooldown and the step to the next candidate, `Succeeds` with the cursor, the
counts, the stick and its save. `cand` is planned once, with the group and the providers as they
were when the request's body had arrived. Statuses are abstracted to what the code distinguishes: not
reached, one that fails over, one that does not, ok. Stick expiry and the end of a rest happen at
any time. The user edits and removes the group, edits providers, presses "retry now"; the process
restarts. `Stalls` is a client that leaves while a write to it waits for `drain`: the request is
stuck there (section 5).

One group and one agent are modelled: groups share nothing but the resting seats, and those only
through a seat that is in both. A plain binding is the case of a single candidate without a decision.
A driver's seat always speaks the OpenAI format, so the branch for another one is left out.

### TranslateStream

An answer is made of pieces, of text, of thinking and of the arguments of calls, in up to
`MaxBlocks` blocks. `vendor` is what the upstream has sent, so that only streams its format has
are enumerated, plus what goes beyond it, noted in `odd`: three things an OpenAI upstream may do that
the format leaves open, to return to an earlier call, to go on after its `finish_reason`, to leave out the calls'
indexes; and one that an Anthropic upstream might, close a message that had neither a
`message_start` nor a block (`bare`). Otherwise an Anthropic upstream keeps the order of its format: blocks open
before their pieces and are closed before `message_delta`. `stream` is the translator's closure
variables *and* the reader at the other end: every frame a handler emits is applied to the reader in order (`SendOpen`, `SendPiece`, ...), and one its
protocol does not have at that point breaks it. `owed` is what was received and not sent on. One
action is one upstream event; `UpstreamEnds` is the end of the body with the translator's `flush`,
`UpstreamBreaks` an error in it.

### OAuthSessions

A bundle is known by its sign-in (`grant`) and how often it was refreshed (`gen`); `newest` is the
one refresh token the vendor accepts, per sign-in. `login` goes through the awaits of `startLogin`:
`listen`, `browse`, `callback`, `exchange`; its `finally` is `LoginOver`. A refresh remembers what
it read before its wait, and writes what it gets *whatever is stored by then*, as the code does;
`renewing` is the in-flight map of `renew`, which `refreshIfNeeded` does not have. `overtaken` and
`unanswered` note a sign-out under a login or refresh, and a grant whose answer was lost.

### McpLibrary and McpGateway

In `McpLibrary` a handler is one action, as the code does not await inside one; what waits is a
native dialog, held in `dialog` with what it *shows* and what it is *for*. `Pushed`, `Allowed` and
`Committed` are the code after the dialog: a push writes what it took before, `setGateway` compares
the summary again, a profile is planned again and of the additions only those shown are made. Any
write of the library may throw after the memory changed; of several agent files, a subset is
written. `agreed` records the command the user saw when agreeing to have an entry served.

In `McpGateway` an upstream object has at most one `client` and one `starting` connection; a
connection is made by `startUpstream` and passes `connect` and `list`. `kept` says whether the
object a start was for is still in the map. The library and the preference change in memory, are
written, and then the gateway is told: `Reconcile` is `refresh()`, `Stop` is `stop()`. A write that
throws skips that (`Untold`; `mcpStore.ts:283`, `configStore.ts:190`), and `missed` notes which servers'
change the gateway has not seen. It sees it with the next request, as `listTools` and `callTool` reconcile
first (`RequestFinds`), which is what the comment at `mcpStore.ts:288` relies on. Requests wait for a set of starts (`list`, `find`), for one
(`start`), or for the call's answer (`sent`).

### WorkbenchTasks and WorkbenchLifecycle

`WorkbenchTasks` has the board (`task`), the `launching` set, and what herdr really has open
(`space`). A launch is a *flight* that passes `create`, `made`, `start`, `prompt`, and on an error
`discard` or `abandon`; an end, message or removal is a *call*; the `poll` passes `list` and
`rows`, with a sweep every `SweepEvery` polls. Every answer of herdr is a step separate from the one in
which herdr acts where something can come between. `Advance` is part of every action whose code
calls `advance()`, and of no other. Boards that can be loaded from disk are the initial states.

`WorkbenchLifecycle` numbers the starts; a start is current while `startSeq` is what it took.
`boot` is the answer each start awaits (ping, resume, probe, kill, wait, install, sweep, undo),
`orchestrators` the pi processes that run, of which the manager talks to `rpc`. Stops have their
own awaits. `happened` names the coincidences that excuse a property, one by one (section 5).

### SkillFiles and UsageLog

`SkillFiles` is one skill in the library and at one agent, each with `.aiopt-tmp` and `.aiopt-old`
beside it. A handler is a `job` whose steps are those of `replaceDir`: clean, copy, set aside,
place, drop. A step throws (`StepThrows`: what was set aside goes back), or the process dies or the
roll back fails too (`StepBreaks`). A skill has two files, one of them in a directory that copies
leave out. `last` is what was last put in a place.

`UsageLog` is the events in memory against the file's whole lines and a possible torn last one;
an append after half a line goes onto it. `lost` is what no whole line holds. A file that is there and
cannot be read is taken to be empty (`OpenStore`): `unread` is what the store in use does not know of, and
`dropped` what such a store left out of the file at a rewrite.

### MCServices

Ten components that share no state, each in its own module with its own variables, are checked in
one run: `part` says which one moves, the others stay parked in one initial state, so the states
add up instead of multiplying. Fairness of a parked component is vacuous, since none of its steps
is enabled.

## 3. The runs

| Run | Asks | Bounds | Result |
|---|---|---|---|
| `registry` | do the maps stay inverse, is `proxy.json` free of collisions, do dead tokens stay dead, is the abstract table implemented | 2 agents, 2 targets, 4 tokens | holds |
| `bindings` | the binding properties without failures, and no false drift warning | 1 agent, 2 providers in 3 shapes, 1 group with two possible member lists, 2 ports, 5 tokens, restarts on the same and on another port | holds |
| `bindings_faults` | no dangling binding, the registry, and the healing rebuild when a write fails, a start fails or the process dies | 1 provider in 2 shapes, 1 failure anywhere; either 2 agents of different formats with a profile on 1 port, or 1 agent with the provider and a group over it, 2 ports and 1 foreign edit | holds |
| `routing` | sticks, their cap, cooldown order, rotation | 2 requests in flight at a time, any number of failing ones, followed by others until 2 were answered; 2 members, 2 conversations for 1 stick; rotating and pinned or least-used | holds |
| `routing_failover` | every member is tried in order, every request ends | 2 requests, 3 members, one of them served by a driver, 1 conversation, 1 edit, 1 failed save of the sticks | holds |
| `workbench` | the board, the plan, ended tasks, starting tasks, lost workers, orphaned workspaces | 2 tasks, 1 slot, 3 workspaces, 2 calls in flight, a sweep before every poll that finds no launch under way, 2 events (requests, failures, deaths, stops) from every board that can be loaded | holds |
| `services` | ten components, below | below | holds |
| `config_file_restore`, `bindings_group_gone`, `routing_driver_failover`, `workbench_stall`, `mcp_child` | one statement of the code's documentation each | as small as the counterexample allows | violated: section 5 |

What `services` asks, part by part (`ServicesTypeOK` and `WaitsEnd` span all of them):

| Part | Properties | Bounds |
|---|---|---|
| route resolution | `RouteResolution`: the target table and the predicate agree, a shared format wins, no possible route is missed | every list of up to 3 of 4 formats, every set of served formats: the whole domain |
| config file | `OriginalSurvives`, `RestoreGivesBack` | 2 user versions, 1 of ours, 2 edits, 1 throw, 1 crash; both proved for every bound |
| OAuth | `SessionsSound`: the listener serves its login, the stored token is the newest, a removed account leaves none; `LoginEnds` | 1 account, 2 refreshes at once, 2 sign-ins, refreshed up to 3 times |
| proxy server | `AgentsReachProxy`, `OneServer` | 4 ports, 2 rebinds at once, 2 failures; both proved for every bound |
| gateway | `UpstreamsSound`: a call goes to the version served, the status is the connection's, routes lead somewhere; `RequestsAnswered` | 1 server in 2 versions (the one served first, if any, is version 1: they are alike), 2 connections at a time, 2 requests, 2 changes, each written or not, from every initial preference and library, 1 unclosed connection |
| library | `LibrarySound`: served as confirmed, no stray secret; `FilesAsAgreed`: what is written was shown, hand-written entries stay | 2 servers, 1 agent, 2 commands, 1 key value, 1 dialog, 4 moves |
| lifecycle | `WorkbenchUp`: one orchestrator, ready is up, stopped is down; `StartEnds` | 3 starts, 1 stop at a time, 1 failure |
| streams | `StreamsSound`: the reader follows, nothing is lost, both ends end together | 6 format pairs, 3 blocks, any number of pieces |
| skills | `SkillsSound`: a copy survives, no leftovers without a mishap, a copy made is the copy asked for | 2 contents, 2 mishaps, 1 edit, any number of operations |
| usage | `UsageKept`: an event is in the file until it expires or is cleared, a failed append costs two at most, a failed read what is rewritten after it | 3 events, compaction above 1, 2 slips (appends, rewrites and reads that fail, crashes), any number of launches |

Why these bounds are enough. The registry's operations touch one agent and one other token holder,
so two agents show every collision, and with four tokens an agent is re-pointed twice while the
other holds one. A handler's writes touch one agent at a time and agents share only the registry
and the stores, so one agent meets the many kinds of providers and groups, and two agents meet one provider.
`bindings_faults` searches the two side by side: its constraint `OneOfTheInstances` goes on from a state only if it
is one of two agents without a group, a second port or a foreign edit, or one in which the second agent is not bound.
Any partial state of the bindings comes from one failure in one handler, and what later handlers do
with it is explored without bound; two failures in a row are not checked. Five tokens cover those
the live table, the saved one, the config and the applied records can refer to, with one always
free; a run in which none is free would block `register` and be reported as a deadlock, which TLC
looks for. For a config file, two edits are what it takes to edit both before and after a take-over.
Routing hazards need an overlap: two requests for a stick or a cursor that moves under a planned
request, and requests after them to meet what they left: a member that rests while a conversation
is pinned to it takes an answered request, a failed one and a third. `MaxSticks` is 1 with two
conversations so that the cap bites at once.

Accounts do not share anything but the one pending login, which refuses rather than mixes; two
refreshes at once are what it takes to use a refresh token twice. An upstream object never looks at
another one; two connections at a time are the one a stop let go of and the one that replaces it;
two requests share a start. A rename takes two servers. A dialog races whatever
four moves can do under it. Three starts are one that was overtaken by one that was overtaken; a
second simultaneous stop adds only what `"overlap"` already excuses. One slot and two tasks make a
task wait for the other's end, by dependency or by room. Three blocks are a block between two
others. A third mishap on a skill's copy finds the trees as the second did, since a replacement
begins by removing them. Three events are one on each side of a torn line, which eats the next.

`CHECK_DEADLOCK FALSE` stands where the system may stop: when requests have ended and the bounded
events are used up, nothing needs to happen (`routing`, `routing_failover`, `workbench`,
`services`, and the violations of these).

Fairness, always weak, and always of steps the code cannot withhold:

* routing: `Handle(r)`. A request that arrived gets on because its body arrives or breaks off,
  every fetch ends with an answer, an error or a time-out, and every reply body ends or breaks.
* OAuth: the listen, the browser and the exchange answer, and `FLOW_TIMEOUT_MS` fires. The exchange is a
  `fetch` without a time-out of its own (`oauth/genericPkce.ts:36`): that it ends is left to Node's limits.
* gateway: `connect`, `tools/list` and a call answer or time out, per connection and per request.
* workbench: an RPC to pi and a herdr call answer or time out; the poll's timer fires.

No new request, edit, expiry, exit or stop is assumed to happen anywhere.

Every property has a mutant in `PROJECT.json`: a definition of the module changed as a plausible bug would,
with which TLC finds that property violated in the same run.

## 4. What is proved

TLAPS proves these for every value of the constants: any number of agents, providers, groups,
targets, tokens, versions, ports, rebinds, accounts, refreshes, servers, connections, requests,
tasks, dialogs, starts and events, and every bound, unless a theorem below names a hypothesis.

*ProxyRouter_proofs*: `TypeCorrect`, `MapsStayInverse`, `SavedStaysCollisionFree`, `NoRevival`
(the action property `DeadStayDead`) and `Implements` (every step of the registry is a step of
`RouteTable` or leaves it unchanged). Assumptions: `NoToken` is no token (`NoTokenAssumption`), and
`NoSpec` is neither a route spec nor an abstract route (`NoSpecAssumption`). The inductive
invariant is

    IInv == TypeOK /\ MapsInverse /\ SavedCollisionFree /\ MintedCovers

`MapsInverse` is not inductive by itself for two reasons. `register` enters a token without asking
whether some other agent has it; that none has follows from `MintedCovers`: every token in use, live or
saved, was minted, and the new one was not. And `Restart` replaces the maps by the saved table, so
that the maps are inverse afterwards needs `SavedCollisionFree` before, which in turn holds after a
save because the snapshot was taken from maps that are inverse. The refinement follows from the
same invariant: under it, `routeTable` and `savedTable` change as the abstract table does, one
lemma per operation.

*AgentConfigFile* (in `Services_proofs`, as the four parts marked so): `FileTypeCorrect`, `NoTruncation`, `OriginalIsKept` and `RestoreIsFaithful`,
from the assumptions that the three kinds of content are distinct and the bounds are numbers. The
invariant

    FileIInv == TypeOK /\ WholeOnItsWay /\ CallsInOrder /\ BackupIsOriginal

adds what each program counter says about the files: what is in `.tmp` when it is
renamed, that the backup is complete unless it is being copied or was torn, and that while a
restore runs it writes the backup it read, which is still there.

*ProxyServer* (`Services_proofs`): `ServerTypeCorrect`, `AgentsAreServed` (`AgentsReachProxy`) and `ServerIsOne`
(`OneServer`), from `ServerAssumption`: `NoPort` is no port, and the bound is a number. The
invariant

    ServerIInv == ServerTypeOK /\ OwnersListen /\ ListenersOwned /\ NothingBefore /\ FilesNameAServer

is needed because neither property says why it holds. `OwnersListen` gives each listener one owner:
the live one, one that leaked, or that of a rebind whose callback is still to come; so that a
callback that closes the live listener closes nobody else's. `ListenersOwned` is the converse while
AiOpt is up. `NothingBefore` has a run begin without listeners and says that nothing is rebound
without one. `FilesNameAServer` is `AgentsReachProxy` with its reason: the port in the files is the
live one or a leaked one, never one in flight.

*OAuthSessions* (`Services_proofs`): `OAuthTypeCorrect` and `SessionsStaySound` (`SessionsSound`), from
`OAuthAssumption`; in it `MaxGen` is at least 1, as an answer to a sign-in carries the first token
of its grant. The invariant

    OAuthIInv == OAuthTypeOK /\ LoginHeld /\ RefreshesStarted /\ Tokens /\ RemovedWasOvertaken

says with `Tokens` why overlapping refreshes end with the newest token: every grant is one
account's (`GrantsOwned`), no one holds a token the vendor has not given (`TokensGiven`), an answer
on its way is the newest and the only one of its grant (`AnswersAreNewest`), and what is stored is
the newest unless an answer is on its way or lost (`StoredUnlessAnswering`). The last does not hold
by itself: that storing an answer does not put back an older token is `AnswersAreNewest`.

*McpGateway_proofs*: `GatewayTypeCorrect` and `GatewayIsSound` (`UpstreamsSound`). The invariant is
`GatewayTypeOK /\ Sound /\ InStep`. `InStep` says that an upstream object is of the entry that is
served, unless the gateway has missed a change of it; `Sound`, which holds in any case, that its
client and its start are connections made for it as it is now (`OwnConnections`), a connection that
is kept has its object (`ConnectionKept`), a route leads to one (`RouteLeads`), and a request waits
for one connection, which is a start of its server or its client (`CallWaits`). A request reconciles
and goes on in one step, so what a reconcile leaves is a value (`Synced`) about which the same is
said before it is anybody's state (`ObjectIn`, `OwnIn`, ...). The difficulty is in
the steps that drop an object while requests wait for it, and in a start that ends after its object
was replaced: `OwnConnections` tells its connection from that of the new object.

*McpLibrary_proofs*: `LibraryTypeCorrect`, `LibraryStaysSound` (`LibrarySound`) and `FilesStayAsAgreed`
(the action properties of `FilesAsAgreed`), from `LibraryAssumption`: nothing and the mark for a
value left out are no summaries and no values. The invariant

    LibraryIInv == /\ LibraryTypeOK /\ DialogsTyped /\ PushWritesShown
                   /\ ConfirmedWasAgreed(library) /\ ConfirmedWasAgreed(onDisk)
                   /\ DiskFollows /\ SecretsBelong

has the confirmations agree with what the user saw in the file as well as in memory, as a relaunch
takes the file; and a push show what it will write, for one server. `SecretsBelong` survives a
relaunch by `DiskFollows`: the file is the library unless a write of it threw.

*WorkbenchLifecycle_proofs*: `LifecycleTypeCorrect` and `WorkbenchStaysUp` (`WorkbenchUp`). The invariant
has an unconditional part (`Ordered`) and five that hold while certain crossings have not happened,
as in the properties:

| Until | Part | Says |
|---|---|---|
| overlap | `OneAtATime` | the one orchestrator is that of the current start; a start that waits for another is about to be rejected; nothing is up under a stop |
| overlap, exit | `OwnOrchestrator` | the current start goes on with its own orchestrator |
| overlap, herdr, undo | `OwnServer` | and with a server that is there and AiOpt's |
| overlap, herdr, quit | `ServerLeads` | a server that runs is one some start will own or undo, or one the manager will stop |
| overlap, exit, sweep | `OneTimer` | one poll timer ticks, which can be cancelled, and only while ready |

That an overtaken start cannot dispose of the orchestrator of the one that overtook it, although
`disposeOrchestrator` takes whichever is there, is the fifth conjunct of `OneAtATime`: its own was
disposed of by the stop between them, and what was pending on it rejects before the next start.

*UsageLog* (`Services_proofs`): `UsageTypeCorrect` and `EventsAreKept` (`UsageKept`), from the assumption that the
bounds are numbers. The invariant is `UsageTypeOK /\ LossBounded /\ FileComplete /\ MemoryFollows /\ ReadsFail`.
With a file that could not be read (`ReadsFail`), memory may lack what the file holds, and a rewrite may
drop it, but only after a slip. `LossBounded` counts what half a line at the end of the file still
owes as lost already, so that two events per failure bound the loss, and uses that a part of a finite set has no more members.

*SkillFiles* (`Services_proofs`): `SkillTypeCorrect` and `SkillsAreSound` (`SkillsSound`), from
`SkillAssumption`. The invariant `SkillIInv` says of a place nobody works on (`AtRest`) that its
directory is what was last put there, or that this was set aside by a job that died; of the place a
job works on (`AtWork`) what each step of `replaceDir` leaves: which of the three trees hold the old
copy, which the new one, and that what is copied is what was asked for (`Wanted`); and that the
other place, which a push or a pull copies from, stays as it was read (`SourceKept`).

*TranslateStream* (`Services_proofs`): `StreamTypeCorrect` and `StreamsAreSound` (`StreamsSound`), from
`StreamAssumption`: the number of blocks is a number. The invariant

    StreamIInv == /\ StreamTypeOK /\ ReaderFollows /\ NothingLost /\ OnIsNotOver /\ Shaped
                  /\ (vendor.complete => vendor.phase = "ended")

has in `Shaped` the shape each pair of formats keeps, three in all. A translator that holds one
block open at a time is `Tidy`: the one the reader has open is the one it holds, of its kind, and no
block at or above `next` was ever opened. With an OpenAI upstream, `Attentive` adds that the call the
upstream is at is the one whose block is open. Gemini to OpenAI is `Loose`: blocks are never held. From Anthropic,
`InOrder` keeps `next` at or below every source block that is still to come, which is why the
indexes suffice, and `CallsOpen` and `ItemsOpen` match what is open on the two sides. Each frame
has a lemma of its own (`Send...Sends`) that says what it does to a reader, so that no later step
looks into the record again.

*BindingRoute* (`Services_proofs`): `RoutesResolve` (`RouteResolution`). Its lemma `RouteFound` has no bound on
the number of formats an agent declares; TLC enumerates the lists of up to three.

*MCServices* (`Services_proofs`): `ServicesAreComponents` and `ServicesTypeCorrect` (`ServicesTypeOK`). The
composition that TLC runs is, seen from each component, that component's specification; so every
theorem about one of them holds of the composition, and the types of all follow.

*WorkbenchTasks_proofs*: `BoardIsSound` (`BoardSound`), `PlanAlwaysAdvances` (`PlanAdvances`) and
`EndedStays` (the action property `EndedStaysEnded`). The invariant

    IInv == /\ TypeOK /\ Graph(task) /\ Unlaunched(task, launching) /\ Uncalled(task)
            /\ Named /\ Flying(launching) /\ Advancing

has `Graph` for the dependencies: no task reaches itself, and no edge leads to a task that is gone.
That a change of edges adds no cycle is shown through closed sets, which is why the module defines
reachability that way. `Advancing` is `PlanAdvances` with what makes it true in between:
nothing waits beside a free slot unless a step that will advance the plan is still to come.
`Unlaunched` and `Uncalled` say that no launch and no call is under way for a task that is only
planned, so that none of their late answers can end or revive it.

*RoutingProxy_proofs*: `PlanListsMembers`, `SticksAreSound` (`SticksSound`), `EveryMemberIsTried`
(`TriesEveryMember`), `RestingAreTriedLast` (`RestingTriedLast`), `SticksNameLastAnswerer`
(`StickIsLastAnswerer`) and `RotationMovesOn` (`RotateMovesOn`). The first is about the operators of
`RoutingPlan` alone: for any list of distinct members, strategy, counters, pin and set of resting
members, the plan lists every member once, none that rests before one that does not, and the pinned
one first unless it rests. It needs that sorting a set by a strict order lists it
(`SortedLists`), and that a filtered list and what was filtered out make up the list. The invariant is
`IInv`: the types, each request somewhere on its plan (`OnPlan`: the trail is the
plan up to the current attempt, all of it failures that fail over), one stick per conversation
within the cap, and disk and memory alike while no save threw. Two theorems have a hypothesis:

* `SticksNameLastAnswerer` holds of behaviours in which the group does not *begin* to pin
  (`PinningNotResumed`): while a group does not pin, its answers leave the sticks alone, and when
  pinning is switched on again the old sticks count again, as in the code. Groups that pin
  throughout, stop pinning or are removed are covered.
* `RotationMovesOn` holds for groups without a driver-served member (`DriverSeats = {}`): a driver's
  failure moves the request to its end, not the cursor to the next member (section 5). Its invariant
  `TurnsTaken` ties a request that runs alone to the cursor: it began with the member the rotation
  was at, and once it is answered the rotation is past it.

*Bindings_proofs* proves every property of `Bindings`. From `BindingsAssumption`, which types the
data (a member list names providers, a format list is not empty, ids of groups and providers differ,
`None` and `Foreign` are no configs), and the invariant

    IInv == Typed /\ RoutesGood /\ SavedGood

follow `TypeCorrect` and `RegistryStaysConsistent`. `Typed` says what may be left in
`todo` at any time: each agent's writes are its own, in the order route, config, record, unbinding,
binding, each kind once (`Script`). That is what makes the handlers tractable: instead of a handler's
position the later proofs speak of the *set* of writes an agent has left. `RoutesGood` and
`SavedGood` are those of the registry; the next registration takes its agent and target from a
pending write, so they are inductive only over typed writes.

| Theorem | Property | Holds | Strengthening |
|---|---|---|---|
| `ProvidersNeverDangle` | the provider half of `NoDanglingBinding` | always | `ProvidersHeld`: a pending binding names a provider that is there as well |
| `NothingDangles` | `NoDanglingBinding` | always; of groups it speaks as long as nothing has failed | `GroupsHeld`, until the first failure: a group that is about to be dropped has an unbinding pending for each agent bound to it |
| `RoutesAreBound` | `RoutesFollowBindings` | without failures | `RoutesLead`: a pending registration, or else the route there is, carries the name the agent's binding will have when its writes are done |
| `DriftIsForeign` | `NoFalseDrift` | without failures and foreign edits | `RecordsLead`: the record matches the config unless a write of it is pending |
| `RebuildMends` | `RebuildHeals` | always | `Mending`: in a clean rebuild, every write of the replay of an agent's binding is pending or has taken effect |
| `KeysStayBehindTheProxy` | `ProxyModeHidesKeys` | always | the same: what is served directly under proxy mode cannot be proxied |
| `RestartsKeepAddresses` | `RestartKeepsAddresses` | always | `KeptSteady`: each write of the replay, made or failed, puts down what is there already |

The hypotheses are those of the runs: `bindings` checks the two conditional properties with
`MaxFaults = 0` and `MaxEdits = 0`. They cannot be dropped (section 5, under *Bindings*). Nor can
`NoDanglingBinding` promise more of groups than it does, with a group and a failure as in
`bindings_faults`. A group and its bindings are in two files, so a failed write between them leaves a
binding to a group that is gone: `putGroup`'s save throws, memory has the group all the same, an agent
is bound to it and that is saved; or the save of an unbinding throws, and the removal of the group
then finds no binding in memory. `bindings_group_gone` shows that such a binding stays.

How the proofs go: Init implies the invariant, one lemma or step per action that it is kept, the
properties from it, and one temporal step at the end. The lemmas `...Starts` of
`Bindings_proofs` say once what each handler puts into `todo`; every later invariant then looks at a
job that starts, a write that is made, a write that fails, and the few actions that are neither.

Induction on a number is possible here through `WFMin` and `NatLessThanWellFounded`: the least
counterexample is picked (`LeastNumber` in `Bindings_proofs`, for the first member of a group and the
first agent of the loop that has writes left). Only library theorems that take an operator as a
parameter cannot be used.

Every safety property of the passing runs, invariant or action property, is stated by a theorem, four of
them under a hypothesis named above. Only model-checked are the liveness properties (`EveryRequestEnds`, `StartingEnds`,
`LostWorkerNoticed`, `OrphansClosed`, `WaitsEnd`): fairness and ENABLED are out of the prover's reach. Beside them, what
the five violations of section 5 show is TLC's alone.

## 5. Where the code and its documentation disagree

Each is a run in which TLC finds the quoted statement violated; `PROJECT.json` has the quotes.

| Run | Statement | What happens |
|---|---|---|
| `config_file_restore` | restore returns a file to its state before AiOpt | a second restore finds no backup and removes the user's file. Also: the second write to a file AiOpt created backs AiOpt's own content up, and restore brings it back |
| `bindings_group_gone` | the manager drops a binding whose group is gone (`providerStore.ts:170`) | one failed write leaves such a binding, and every start-up after it passes over it (`providerManager.ts:574`) and keeps it |
| `routing_driver_failover` | a failed member fails over (`shared/routingGroups.ts:8`) | a driver-served member's failure ends the request, as the comment at `translationProxy.ts:518` says |
| `workbench_stall` | `advance()` runs an approved plan to the end, and is called when a slot is freed | a launch that fails frees its slot and calls nothing: an approved task goes on waiting |
| `mcp_child` | with the preference off, every child is stopped | a server that connected and then failed to list its tools is held by nobody and stays |

The properties of the passing runs say where such limits lie, and the model contains the
behaviour beyond them:

* *Bindings.* A binding that fails after its route was registered leaves that route until the agent
  is bound or unbound again, also across restarts and when the provider is removed meanwhile; a
  `clearBinding` whose first save throws leaves a dead address on which config and record agree.
  A binding to a group that is gone, which one failed write can leave (section 4), stays
  (`bindings_group_gone`); so `NoDanglingBinding` speaks of groups only while nothing has failed.
* *Config files.* A crash while the backup is copied (`copyFileSync` works in place) leaves a
  truncated one, which a later restore installs (`TruncatedOnlyByTornBackup` excepts exactly that).
* *Routing.* `TriesEveryMember` lets a driver end a request early, `StickIsLastAnswerer` speaks of
  answers over HTTP in a group that pins. An answer that cannot be read, or whose stick cannot be
  saved, leaves no entry in the trail; the last candidate of a plan never rests, however it fails; a request
  in flight records a decision for a group that was removed. `writeBackpressured`
  (`translationProxy.ts:341`) waits for `drain` only: when the client leaves meanwhile the request
  never ends, and its decision and usage are never recorded (`EveryRequestEnds` accepts `stuck`).
* *Streams* (`ReaderFollows` and `NothingLost` except exactly these). A piece for an earlier call
  whose block was closed, content after the `finish_reason`, and parallel calls without an index
  (taken as 0) break the reader of an OpenAI upstream's translation. An Anthropic stream with neither
  `message_start` nor a block breaks a Responses agent's: `message_delta` and `message_stop`
  (`responsesAnthropic.ts:428`) send `response.completed` for a response that was never created.
  Outside the properties: an upstream's `error` event is dropped by both translators from Anthropic;
  and an Anthropic upstream that leaves the order of its own format.
* *OAuth.* A listen that fails (`oauthManager.ts:152`) rejects outside the `try`, so `pending`
  stays set and every later login is refused until a restart (`LoginEnds` starts at the listening);
  a login or refresh that finishes after a disconnect or removal writes tokens back (`overtaken`).
* *MCP.* `setGateway` compares the summary after the dialog and then confirms the whole
  fingerprint: key names edited under the dialog are confirmed unseen. A push whose entry was
  removed under its dialog is written all the same. A library or a preference whose write throws is changed in
  memory and not told to the gateway (`mcpStore.ts:283`, `configStore.ts:190`): calls, clients and routes stay
  with what was served before until the next request reconciles (`UpstreamsSound` excepts the servers in
  `missed`). When it was the preference that was turned off so, a request that comes is refused before it
  reconciles (`mcpGateway.ts:339`): only one whose body was being read does, and else the children stay
  until they are idle or the gateway is told again.
* *Workbench* (`happened`). A start that was overtaken undoes its work and with it a newer
  start's server (`undone`); an orchestrator that exits during the resume or the server stage
  leaves "ready" without one (`exited`); a stop during a start's sweep leaves a poll timer
  (`sweeping`); a start and a stop that cross a pending stop leave a pi (`overlap`); a herdr call
  that fails in a start that was overtaken leaves the server running, which the comment at
  `workbenchManager.ts:1388` rules out (`herdr`).
* *Skills* (`left`, `gone`). The leftovers of a crash (`.name.aiopt-old`) are listed as a skill,
  whose name `centralSkillPath` then refuses, so the whole listing fails; the comment at
  `skillsFs.ts:402` says that nothing lists it. A crash between the two renames leaves the only copy in
  that tree, which the next replacement removes first; when that one fails too, the copy is gone.
  Directories that copies leave out (`.git` and the like) are compared, so such a skill differs for good;
  and a merge removes them from the library's copy, whose "own current content" it keeps by the
  comment at `skillsFs.ts:58`.
* *Usage.* `load` skips lines that do not parse before it counts what it dropped, so a torn line
  alone does not get the file rewritten (`usageStore.ts:91` says it is compacted away). A clear
  whose rewrite throws is undone by the next launch. A file that cannot be read (`usageStore.ts:149`) loads
  as an empty log: until the next launch the panel does not count what it holds, and when the store
  rewrites the file meanwhile, on a compaction, those events are gone (`UsageKept` excepts `unread` and
  `dropped`).

## 6. What is not modelled, and why

Left out of the modelled parts: the contents of messages and the body translation; a corrupted
`proxy.json` (parsed to fewer routes); a preference whose write throws, as far as proxy mode goes (the
gateway has it); the MCP half of a binding profile; adapters with more than
one file or with several entries per file; Windows' retry loop and file modes in `fsutil.ts` (a
call succeeds or throws); the one-hour routing summary; the private logins of single vendors; the
HTTP sessions of the gateway and the naming of its tools; the workbench's conversation, file
explorer, git and SSH; the skills' matrix view and caps; the usage sniffer's token counts.

Not modelled at all, with the reason:

* *Renderer and preload*, more than half of the lines: user interface. Its IPC calls are the inputs
  of the handlers modelled here; its own state is what it last fetched.
* *Presets, channel tables and types* (`shared/`): data.
* *Body transforms, request sanitising, prompt cache, extra body, vendor drivers, agent sessions,
  agent import*: functions from one JSON or text to another, without state that a step could
  leave wrong. Modelling them would restate them.
* *Tray, menu, window, shortcuts, IPC registry, auth stub*: wiring without concurrency.
* *Updates, quit guard*: small state machines of one flag each.

So the share of all lines that the modules map is small, while the parts of main that keep state
across an await, a write or a process are mapped.

What is open: larger instances of the gateway (two servers) and the workbench (three tasks); the
HTTP sessions of the gateway; the workbench's conversation queue; more than one file per adapter.
