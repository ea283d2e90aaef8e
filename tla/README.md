# xats: a TLA+ model of the agent bus

xats lets coding agents on one machine (Claude Code, Codex, OpenCode, Pi and
others) send each other mail through a local daemon, and lets daemons of
different machines exchange mail through a peer runtime or a Filament bridge.
This directory holds a TLA+ model of the parts of it whose behaviour depends on
order: who owns a mailbox, what is handed out of it, how recipients are woken
and told of their mail, who may act for an agent, how two instances come to
trust each other and relay messages, and how the daemon starts and stops. The
model is translated from the source under `src/`; `PROJECT.json` gives for each
definition the lines it stands for.

1. The system — 2. The modules — 3. The runs — 4. Fairness — 5. What is proved —
6. What the code does that its documents do not say — 7. What is left —
8. What is not modelled, and why

## 1. The system

Paths are relative to `src/`. "Modelled" names the module; sections 7 and 8 list
what is left out. `PROJECT.json` says for each component how far it is modelled.

| Component | State | Operations | Modelled |
|---|---|---|---|
| Agent registry (`daemon/src/storage/agents-repo.ts`, `rest-api.ts`, `register-agent.ts`) | `agents` table, unique on (device, team, name): agent_id, type, session_key, role, last_seen_at, offline_since, delivery, cursor | register (prefer, exact), heartbeat, deregister, retain, bind channel; TTL reaper every 60 s, purge every hour | `Registry` |
| Mailbox (`send-message.ts`, `broadcast*.ts`, `get-inbox.ts`, `events-outbox.ts`, `cleanup.ts`) | `events` (AUTOINCREMENT), `messages`, `agents.last_processed_event_id` | send, broadcast, broadcast to role, read; cleanup after 30 days; watermark migration at boot | `Mailbox`, `MailboxPromise` |
| Wake hints (`auto-poke-fanout.ts`, `poke*.ts`, `transport-dispatch.ts`, `delivery-status.ts`, app server and channel dispatch) | `message_delivery_status`; retry map and timers in memory | poke each recipient, record a status, retry up to three times, look the status up | `Wake` |
| Notices in Claude Code (`assets/claude/mod/hooks/register.js`, `xats-hook.mjs`) | pending notices and two cursors in memory, accepted cursor in a file | poll, debounce, submit a prompt, dismiss, reload | `Notices` |
| Claude bind capabilities, MCP sessions (`claude-bind.ts`, `transport.ts`, `register-agent.ts`, the Claude hooks) | hash of one capability per agent; maps of sessions, connections, sinks, active Claude sessions; `.bind` and `.id` files | issue, revoke, bind, owns; initialise, register, take over, close, orphan collection, subscribe | `Sessions` |
| OpenCode and Pi plugins (`assets/plugins/xats-register*.ts`, `assets/pi/xats.ts`) | each plugin's idea of its name, id and sessions | register, heartbeat, claim, switch and delete sessions, close | `Plugins` (with `Registry`) |
| Codex registration and panes (`register-codex-self.ts`, `auto-bind-codex-pane.ts`, `tmux-pane-detect.ts`, `bind-runtime-identity.ts`) | pre-registration table with TTL, pane of a row, sockets to app servers | pre-register, register, auto-bind a pane, look at tmux and ps | `Panes` |
| Daemon lifecycle (`cli.ts`, `server.ts`, `shutdown.ts`, `pid.ts`, `port.ts`; `lib/service.mjs`, `reset.mjs`) | pid file, port, stage of the process, unit | start, listen, drain, forced exit, restart, stop | `Lifecycle`; what a restart leaves behind is in `Mailbox` and `Wake` |
| Federation (`lib/peer-federation.mjs`) | remote agents, shadows, peer states in memory; cursors and ledger of delivered ids on disk | sync pass every 5 s: refresh roster, keep shadows alive, forward outbox; deliver; forget peer | `PeerRelay`, `PeerShadows` |
| Pairing (`lib/peer-pairing.mjs`, `peer-runtime.mjs`) | invites, pending requests, decisions in memory; trust files | invite, request, approve, deny, poll, hand over, trust, revoke | `Pairing` |
| Filament bridge (`assets/bridge/bridge.mjs`) | remote roster, shadow map, cursors, health and forwarded ids in memory | gossip, push, pull, deliver, register shadows | `Bridge` |
| Channels (`channel-wake-*.ts`, `*-channel.ts`) | csid to sink map; `delivery` of the row | subscribe, bind, auto-bind, wake | in part (`Sessions`, `Wake`, `Registry`) |
| Codex hooks (`assets/codex/`) | none | register | their requests are `Requests` of `Registry` |
| Peer transport, discovery, REST authentication, TUI, installer | caches, files | I/O and checks of one request | no |

**How they interact.** Harness plugins and hooks call the daemon over REST
(`/api/register`, `/api/heartbeat`, `/api/deregister`, `/api/inbox`,
`/api/send`); models call it over MCP tools. Both end in the same synchronous
SQLite code, so an operation on the tables is atomic, while everything that
waits (tmux, app servers, HTTP to a peer) is interleaved at each `await`. The
peer runtime and the bridge are processes of their own: each is a REST client of
its daemon, a server for its peers and a client of theirs. Three timers of the
daemon (reaper, cleanup, orphan collection), the retry timers, and the loops of
runtime, bridge and plugins run beside all of that.

**What is hard.**

* A name is a mailbox. Rows are taken over, kept for an absent session, marked
  offline, reaped and purged by five mechanisms that look at different columns.
* A cursor is stored in a row whose owner changes, and pages are cut by LIMIT.
* A send goes on long after its transaction: pokes, statuses and retries refer
  to rows read before an await, and live partly in memory, partly in the table.
* A client's idea of who it is (a plugin's name and id, a hook's files, a mod's
  cursor) is set by answers that arrive after the world has moved on.
* One Claude conversation has several connections over time, some of them
  abandoned, and only one of them may act.
* Nothing tells the daemon which of the panes it sees belongs to its caller.
* The relay has two ledgers, one on each side, and neither is written together
  with what it records; the bridge keeps all of its ledgers in memory.
* Trust is kept twice at each end of a pairing, in memory and in a file, and the
  two are written by different processes.
* The pid file is read, then written, then relied on, by processes that may die
  in between and whose pids are reused.

`PROJECT.json` lists these hazards one by one, each at its line, with the
properties that would catch it or the reason why none does.

**What makes each component correct.** Registry: a Claude session has one
mailbox; a mailbox kept for a session, and a name a live session holds, go to
nobody else; a silent agent does not stay listed. Mailbox: every message to an
agent whose row stays is handed out once, in order, none skipped, and nothing
older than the row. Wake: the status table tells the truth about hints, a final
status is final, retries end. Notices: nothing is lost and nothing repeated
without a reload. Sessions: only the session bound by the capability in force
acts, nothing dangles, a resumed conversation acts again. Plugins: they agree
with the table on their address, leave no rows behind and stay on the bus.
Panes: an agent is bound to a pane in which its kind of UI ran, its own first,
and a pre-registration serves once. Relay: nothing is skipped or reordered, or
acknowledged without being inserted; nothing leaves after a revocation. Shadows:
kept alive while their agent is listed, gone when the agent or the trust is.
Bridge: what counts as forwarded arrived, retries are recognised, nothing waits
for ever. Pairing: no trust without an approval, one decision per invite, a
revocation holds. Lifecycle: one daemon, named by its file, that comes back.

## 2. The modules

### Registry

One device and one team, so `agents` is a function from names to rows. `live`
says that `last_seen_at` is within the TTL and `offline` how long
`offline_since` has been set, since those comparisons are all the code makes of
its clocks; `Lapse` and `MonthPasses` move them. `Register` follows
`AgentsRepo.register`: the row the session already owns (`Owned`, `Targets`),
the conflict test (`Conflict`), `allocateName` (`Usable`, `Allocated`), and the
upsert (`Inserted`, `Updated`). Where a query has no ORDER BY the model takes
any matching row. `Requests` is the set of registrations that clients send. Its
one assumption about them, that a Claude session key is never used by another
harness, holds because each harness mints its own.

### Mailbox and MailboxPromise

`Mailbox` extends `Registry` with the event log and the cursor column. An event
and its message rows are written and deleted in one transaction and share an
event id, so `mail[e]` stands for both. Because of that a page that LIMIT cuts
inside one event's rows is a page that ends at that event: the model does not
count the copies of a role broadcast. `FollowRows` is the part of INSERT, UPDATE
and DELETE on `agents` that concerns the cursor; `Read` is a default read, up to
any event of the unread page; `Restart` is the watermark migration. `born`,
`got` and `again` are history variables.

`MailboxPromise` says what an owner may rely on without tables or cursors: a
message waits for each addressee until it is taken, in order, once. It is lost
only when the mailbox closes, when it is past its retention, or at a boot
before anything was taken. `KeepsPromise` is the refinement, with
`waiting` computed from cursor and mail, and `taken` from the history.

### Wake

A *wake* is a message and one recipient. `job[w]` is the program counter of the
poke under way: `Open` is `fanoutAutoPoke` up to `poke`, `Dispatch` is
`dispatchPoke`, and from there one action per await (`Link`, `Guard`, `Type`,
`Enter`, `Check`), each of which can fail. `Collect` is what follows
`Promise.all`: timers, status rows, and the answer of the send. `Fire`,
`GuardFails`, `GuardThrows`, `GuardPasses` and `Poked` are `tick`. Rows change
in between (`Bind`, `Leave`, `Touch`), and `Restart` stops the daemon at any
point. `reached` and `unheard` are histories: hints that got to the agent, and
channel notifications sent while no stream was open, which the transport drops
without telling anyone.

### PeerRelay

`forwardOutbox` at the origin (`Start`, `ReadRoster`, `ReadInbox`, `Drop`,
`Post`, `Acked`, `End`) and `deliverMessage` at the destination, one handler per
request: `attempts[n].at` goes from `wire` over `check`, `insert` and `mark` to
`ok` or `error`. A request the caller gave up on may still be handled (`late`);
`Fail` and `Crash` cut a handler off wherever it is. Cursors, ledger and the
daemon's tables survive a crash, the sender roster `known` does not. The loop
is single, so only the last attempt is awaited, but earlier ones may be alive.

### PeerShadows

One peer, seen from one runtime and its daemon: `SyncStart` to `Finish` is
`syncOnce` with `refreshPeer` and `ensureShadow`; `RevokePeer`, `ForgetList` and
`ForgetDelete` are `forgetPeer`, which runs between the awaits of a pass.
`call` is the local request in flight and `Serve` the daemon's side of it. Time
is in ticks of 20 s, the heartbeat period; a pass ends within a tick.
`PeerRelay` takes the shadows as given and `PeerShadows` takes no mail, because
the two loops share only the trust store and the roster, which both have.

### Notices

`Poll` and `Deliver` are `poll` and `deliver` of the mod, which run side by side;
each stage (`polling`, `delivering`) ends at an await, and what was read before
it is kept (`asked`, `batch`). `Due` is the debounce timer and the 2 s retry.
`lastEventId` is what was fetched, `acceptedEventId` what Claude accepted, `file`
the cursor file: the three need not agree, and a reload of the mod
starts from the file alone. The agent reads its mail, the person dismisses
notices, a busy turn refuses the prompt, requests and writes fail, and the
session's row may be replaced by one with another agent_id. `noticed` counts how
often Claude was told of each message.

### Sessions

One Claude conversation over several processes. `mem` is the daemon's memory:
the MCP sessions with what each is bound to, `connections` by name, `active`
(the session that may act for the conversation), SSE sinks and the channel
subscription; `cap` is the capability in the database. `StartPost` and
`StartWrite` are the SessionStart hook, `EndRead` and `EndPost` the SessionEnd
hook, which overlap when a conversation is quit and resumed. `Call` is a tool
call with the capability that the bind hook adds to it, `Connect` a new MCP
session, `Delete` and `Abandon` the two ways a client leaves one, and `Shut` all
that `onclose` does. Beside the conversation
there are other clients, which register names, take them over and subscribe,
the orphan limit, the orphan reaper, the row reaper and restarts. What the
daemon does in one request is synchronous and so one action, except for
`register_agent`, which waits for `ps`, OpenCode or a Codex app server before it
registers. It is two actions: `Ask` looks at the session and its capability,
and `Register` does the rest, whatever has become of both (`asks` are the calls
in between, known by the agent_id they would give to a new row). A session that
is closed by then is entered in the maps all the same; `late` is the history of
those.

### Plugins

Extends `Registry`, whose actions are the daemon's part of every request. A
request is sent in one action and answered in another (`Answer`), which applies
the daemon's step and the handler of the answer together; what the request
meant when it was sent is in `calls`. v1 and Pi have one agent for the process,
v2 one per session. `KeepAlive` is Pi's heartbeat, which registers again when it
fails, `Beat` that of v1 and v2, which do not. `Silent` is a row without a
heartbeat for longer than the TTL, which for a process that runs takes a machine
that sleeps; `Sweep` is the daemon's reaper.

### Panes

A session is launched in a pane, by a launcher that pre-registers the pane under
an id which the UI carries on its command line, or without one. A registration
is a chain of awaits, `call[a].pc`: two requests to the app server
(`initializing`, `resuming`), the upsert of the row, then the pre-registrations
(`probing` each pane with `ps`, `reading` the pid's tty, `binding`) and, if that
finds nothing, detection (`listing`, `detecting`, `confirming`) by a score over
all panes. `BindByPid` is `bindRuntimeIdentity` asked for by the session itself.
`lines` is the number of processes that `ps` lists with a UI's command line. It
is two once a wrapper (the Codex of npm) has started its native child (`Spawn`);
then the pane gives no candidate among the pre-registrations (`Matches`) and
scores higher in detection. Panes become active, UIs end, app servers start in
panes, pre-registrations expire, `ps` (`ProbeFails`, `DetectFails`) and `tmux`
fail, and rows go, in between. What a call has seen so far is kept with it
(`seen`, `clear`, `old`), for the properties only.

### Pairing

One inviter and several joiners. At the inviter: `invites`, `pending`, `decided`
in memory, `trust` in memory and `file` on disk. A joiner asks with an invite
code, from a command line process that has loaded a `copy` of the trust file and
afterwards hands the result to its runtime (`HandOver`) or, if that does not
run, writes its copy (`WriteCopy`); or it asks by discovery, in the runtime
itself. Expiries, denied and doubled requests, lost answers, a trust file that
cannot be written, a restart of the inviter, and stops and crashes of the
joiners' runtimes may come at any point. The second peer in a joiner's store
stands for all others, because the stale copy matters to those.

### Lifecycle

Daemons of one home by pid. The stages of `pc` are those of `cli.ts` between two
awaits: `selecting` a port, `checking` the pid file, `writing` it, `opening` the
database, `serving`, `draining`. The supervisor starts the unit whenever it has
ended; `service.mjs` and `reset.mjs` signal what the file names, which may be
another program by then. Ports and pids may be taken by others. `raced` records
that two daemons passed the check before either wrote the file, which nothing in
`pid.ts` prevents.

### Bridge

Bridges of several devices, each beside its daemon. The main loop takes turns
(`loop`): gossip, push with a batch read from the mailbox, pull. Requests of
other bridges (`calls`) are handled between two awaits of it, each in stages
(`sent`, `inject`, then the answer), so that a push and a pull of the same
message can overlap. `rows`, `issued` and `mail` are the daemon's; `roster`,
`shadow`, `cursor`, `failures`, `forwarded` are in the bridge's memory and are
lost by a restart. `run[d]` counts restarts, `injected` how often a message got
into the recipient's daemon.

## 3. The runs

TLC with two workers; every run ends in less than three minutes.

| Run | Properties | Bounds | States, time |
|---|---|---|---|
| `registry` | `OneMailboxPerSession`, `RetainedMailboxKept`, `LiveNameKept`, `StaleSettles` | 2 Claude keys, 1 other key, keyless clients; 4 names with a numbered and a random suffix; 3 rows ever inserted | 41,000, 17 s |
| `mailbox` | `HandedOutOnce`, `NothingSkipped`, `KeepsPromise` (the refinement of `MailboxPromise`) | 2 names, a keyed Claude session and keyless clients that take over from each other; 3 rows, 3 messages, the first of which is older than every row | 157,000, 63 s |
| `wake` | `TypeOK`, `TimersAreListed`, `DeliveredAtOnceReached`, `FinalIsFinal`, `RetriesEnd` | 1 message, 2 agents, 5 kinds of row, 1 change of a row | 252,000, 36 s |
| `notices` | `NoNoticeLost`, `NoticedAgainOnlyByReload`, `NoticeIsSubmitted` | 2 messages, 2 faults | 67,000, 10 s |
| `sessions` | `NothingDangles`, `ActsByCurrentCapability`, `StandingKept`, `ResumedActs` | 4 MCP sessions, 5 moves of persons, other clients, timers and faults; orphan limit 1 | 596,000, 120 s |
| `plugins` | `AgreesOnAddress`, `ClosedLeavesNoRow`, `PiStaysOnBus` | 2 processes (v1 or v2 beside v2 or Pi), 2 sessions, 1 claimed name, 2 moves, 1 fault | 76,000, 27 s |
| `panes` | `BoundPaneRanCodex`, `OwnPaneFirst`, `PreRegistrationUsedOnce` | 2 agents, 2 panes, 2 calls, 2 moves | 1,571,000, 51 s |
| `lifecycle` | `OneDaemon`, `FileNamesDaemon`, `ServesAgain` | 3 pids, 3 ports, 4 steps | 198,000, 42 s |
| `relay` | `NothingSkipped`, `InOrder` | 1 sender, 1 target, 3 messages, 3 requests | 700,000, 16 s |
| `shadows` | `SettledIsNotReaped`, `RevokedShadowsFade` | 2 agents, TTL of 4 ticks | 599,000, 90 s |
| `pairing` | `TrustedAfterApproval`, `InviteDecidedOnce`, `RevocationHolds`, `PairingCompletes` | 2 joiners, 1 invite, 6 moves | 294,000, 26 s |
| `bridge` | `TypeOK`, `ForwardedArrived`, `SecondOnlyByOverlap`, `WaitingIsHandedOver` | 2 devices of one naming, 1 agent on each, one of which writes; 2 messages, pages of 2, 1 fault | 287,000, 160 s |

What each run shows is its "about" in `PROJECT.json`. Why the bounds are enough:

* Three rows, messages or requests are enough for the cases at stake in
  `registry`, `mailbox` and `relay`: a row, its replacement and a competitor; a
  message before, at and after a cursor; a request that is lost, its retry and
  the one after.
* One message is enough in `wake`, because wakes of different messages share
  only the rows and never read each other's state.
* `SettledIsNotReaped` depends on the TTL: 180 s is nine heartbeat periods. With
  ticks that coarse a TTL of four is the smallest for which a heartbeat due late,
  a pass that ends late and a reaper that comes early still fit; a larger one
  changes nothing.
* Two notices are one that is in the prompt and one that comes in meanwhile; two
  faults are a failed write and the reload after it.
* Four MCP sessions are the conversation's own, the one it had before, another
  client and the client that takes over from it. Five moves are a launch, a
  quit, a resumption and two things that happen in between; or another client
  that connects, asks to be registered and leaves, and two things more.
* Two joiners with one code compete for it; six moves are two requests,
  a decision for each, and a fault and a revocation.
* Two panes are one's own and another's, and each UI may be one process or two;
  three pids are the daemon that ends,
  its successor and another program, or two that race beside one that drains.
* Two plugins are a session and the one that has its name, or the same session in
  two processes. With one fault and two moves every pair of overlapping requests
  of one plugin occurs.
* One fault in `bridge` reaches every disagreement listed in section 6;
  a second one doubles neither kind of ledger.

The proofs of section 5 have none of these bounds. `CHECK_DEADLOCK FALSE` stands
in the runs whose moves can be used up (`plugins`, `sessions`, `pairing`,
`panes`, `lifecycle`); the others never stop.

Every property of a run is violated by at least one mutant of the mapped
definitions: a small, plausible bug, kept in the module above the definition it
replaces and marked `mutant:`.

## 4. Fairness

* `Registry`: weak fairness of `Reap`, which `setInterval` drives.
* `Wake`: weak fairness of timers (`Fire`), of the guard's outcome and of the
  last capture (`tmux` calls with a time limit), and of what follows an await
  (`Poked`). None for `Link`, `Type` and `Enter`: neither the app server call
  nor the paste has a time limit, and `RetriesEnd` says so.
* `Notices`: weak fairness of `Poll`, `Due` and `Deliver`: the clock runs, and
  requests and prompts are answered in one way or another.
* `Sessions`: weak fairness of the stages of the hooks, which have time limits,
  and of `Connect` and `Call`: a running Claude keeps calling.
* `Plugins`: weak fairness of `Answer`, `KeepAlive` and `Sweep`: requests are
  answered or time out, and timers run.
* `Panes`: weak fairness of the looks at tmux and ps, which have time limits, and
  none for requests to the app server, which have not. No property uses it.
* `Lifecycle`: weak fairness of `Supervise` and of each daemon's own steps.
* `PeerShadows`: weak fairness of `Reap`, of `SyncStart` (setInterval) and of
  the steps of a pass (every request has a timeout); strong fairness of `Tick`,
  which is the passage of time, however often the runtime restarts in between.
* `Pairing`: weak fairness of `Poll`, `HandOver` and `WriteCopy`, the joiner's
  own loop. None of the person who decides.
* `Bridge`: weak fairness of `Handle` (a server answers) and of the main loop;
  strong fairness of its turn to pull, which comes due however often the turn to
  push does.
* `Mailbox` and `PeerRelay` have no fairness. Reading is up to a model, and a
  peer may stay away for ever.

Apart from a running Claude that keeps calling, no assumption is made about
users, peers, models or the network.

## 5. What is proved

Checked by TLAPS for every value of the constants, from the named assumptions of
the modules alone. Every invariant and action property of the runs is proved,
and so is the refinement; the runs alone have the liveness properties. A module
of proofs is about the components that share state or a process, and each theorem
about one component's specification.

**Registry** (`Agents_proofs`): `RegistryTypeCorrect`, `SessionsOwnOneMailbox`,
`OfflineRowsAreRetained`, `RetainedMailboxesAreKept`, `LiveNamesAreKept`. The
invariant `RegistryInv` is `RegistryTypeOK`, `OneMailboxPerSession` and
`OfflineIsRetained` with two strengthenings. `ClaudeKeysAreClaude` (the key of a
Claude session stands only on Claude rows) is needed because
`OneMailboxPerSession` is about keys and the lookup in `register` about keys
*and* agent types: without it a session's key could stand on a row the lookup
does not find. `IdsAreFresh` and `IdsAreUnique` are what "keeps its agent_id"
rests on. The two action properties then follow from one step under the
invariant, by cases on what wrote the row.

**Mailbox** (`Agents_proofs`): `MailTypeCorrect`, `MailIsHandedOutOnce`,
`NewRowsReadNoHistory`, `MailSkipsNothing`, and `MailboxImplementsPromise`, the
refinement. They rest on `RegistryInv`, because an agent_id that were reused
would inherit another agent's mail, and on four facts that `MailInv` adds:

* `MailIsToRows`: messages are addressed to agent_ids already used, so the row
  that the next INSERT writes starts with no mail of its own.
* `CursorPassedBirth` and `TakenIsBehind`: what was handed out lies after the
  cursor the row was inserted with and not after the cursor it has now. A page
  lies after the cursor, which is why no read repeats a message.
* `TakersHaveRows`: an agent without a row has been handed nothing.
* `NoneSkipped`: `NothingSkipped` by agent_id. A boot moves only cursors at 0,
  so never that of a row born after some event.

For the refinement, the steps of the table and the cleanup map to `Expire`, a
month to `Age`, the three sends to `Post`, a read to `Take`, and a restart to
`Boot` of the rows whose cursor is 0; `StepIsPromised` has one lemma for each.

**Plugins** (`Agents_proofs`): `PluginsAgreeOnAddress`, `PluginsLeaveNoRow`. Of
the table the plugins need only that ids are fresh and unique (`RowsOK`) and
that none is known to a plugin before the daemon gave it (`Known`). `Agrees`,
that a v2 or Pi agent has the name of its row, is then inductive, because a row
keeps its name for as long as it keeps its id, and an answer brings both.
`ClosedLeavesNoRow` is about processes that are closed, and says nothing of how
they got there: `Kept` says, at any time, that a row a v2 plugin was given is
that of one of its agents, or about to be deregistered, or was given to another
process too. It needs `Tidy`: the requests under way match the sessions, one
registration at most for each that has no agent, and none that would outlive its
session. Both hold as long as the process meets no exception that the property
names (`Spared`).

**PeerRelay** (`Federation_proofs`): `RelayTypeCorrect`, `RelaySkipsNothing`,
`RelayLedgerIsHonest`, `RelayKeepsOrder`, `RelayStopsOnRevocation`. The
invariant `RelayInv` adds four parts to the safety properties:

* `HandlersAreHonest`: a handler that answered `ok`, or is about to mark, has
  its message in the daemon. This carries `LedgerIsHonest` over `Mark` and
  `NothingSkipped` over `Acked`.
* `BatchFollowsCursor`: the batch is what follows the cursor of its shadow,
  without gaps, so that advancing to its first element passes nothing else.
* `AwaitedIsFirst`: the awaited request is for the first of the batch.
* `PostedInTurn`: whatever was ever posted has everything older to the same
  target inserted or given up. This is what makes late and repeated handling
  harmless for the order.

All four were first checked with TLC as invariants.

**PeerShadows** (`Federation_proofs`): `ShadowsSettledAreNotReaped`, for any agents
and any TTL of at least 4 ticks; the code's is 9, 180 s of heartbeats every
20 s. `CachedIsRow`: an id in the cache, or in an answer on its way, is that of a
row, unless the row is known to be gone. `RowsAreYoung` says how old a row may be
at each moment of a pass. A tick may pass between a heartbeat and the end of its
pass, and one until the next pass comes to the row, so that no row of a settled
peer is older than 3. This is where 4 comes from.

**Wake** (`Wake_proofs`): `WakeTypeCorrect`, `WakeTimersAreListed`,
`WakeDeliveredAtOnceReached`, `WakeFinalIsFinal`. `WakeInv` says of each wake,
by itself, three things (`Good`). `Listed`: with a timer, or a retry under way, it
is listed as retrying, after as many attempts; under its first poke it is not
listed, and before its message is written it is nowhere. `Hints`: how many hints
may have got through, by where the poke stands (`Level`) and whether one went
before it (`Before`). `Heard`: a poke that counts as done reached the agent or was
unheard. This is the form
that makes it inductive: every step but a send, its collection and a restart
touches one wake only (`Only`), and a step on one wake never reads another.

**Notices** (`Notices_proofs`): `NoticeTypeCorrect`, `NoticesAreNotLost`,
`NoticesRepeatByReload`. `NoticeInv` adds to the types four facts. `Ordered`:
what was accepted, what is in the prompt and what is pending follow each other
in the order of event ids, so that accepting the prompt's last id passes nothing
pending. `Kept`: below the accepted cursor, and below the one in the file if it
is of the present agent_id, nothing is left to tell, which carries
`NoNoticeLost` over a reload. `Blank`: before the cursor is loaded nothing is
pending. `Rare`:
a message that may be told again was told no more than `reloads` times.

**Panes** (`Panes_proofs`): `PaneTypeCorrect`, `PaneBoundRanCodex`, `PaneOwnFirst`,
`PanePreRegistrationUsedOnce`. The invariant is about what a call still believes
after its awaits: a pane it chose showed a Codex UI at some moment since the call
began (`SeenEnough`), what it listed were pre-registrations not used before that
(`ListedWell`), a call whose UI runs and whose own pane showed one process, if it
was probed at all, has not ruled that pane out (`clear` in `ListedWell`), and a
pending pre-registration names the pane its launcher is in (`Honest`).

**Lifecycle** (`Daemon_proofs`): `LifeTypeCorrect`, `LifeOneDaemon`,
`LifeFileNamesDaemon`. `LifeInv` is, unless `raced`: the file names whoever is
past writing it, until the end of its drain (`FileNamesHolder`), and while one
is about to write nobody else is past the check (`WritesAlone`). The drain is
included because a daemon that serves no longer still uses the database.

**Sessions** (`Daemon_proofs`): `SessionsInvariant`, `SessionsDoNotDangle`,
`ActorsHaveCurrentCapability`, `StandingIsKept`. `SessionsInv` says of every map of
the daemon what it may name, and that this names it back (`Sound`): a name or a
sink only a session that acts for an agent, the sink of an agent only a session
of that agent, the Claude agent only one that was bound, the wake subscription
only an open one. Names and sinks may also be those of a session in `late`, of
which nothing more is known. A session that is not open is bound to nothing
(`ClosedIsUnbound`), and one that is open, waits or was late was created
(`KnownWereCreated`); therefore the id of the next `initialize` is named nowhere.
`Shut` takes a session out of one map after the other, so its lemmas are stated
for a memory that is sound but for the names and sinks of some sessions
(`SoundBut`), which also serves for the late ones (`EndedIsSound`).
`HolderIsCurrent` carries
`ActsByCurrentCapability` over a new capability, which resets the holder.

**Pairing** (`Pairing_proofs`): `PairTypeCorrect`, `PairTrustedAfterApproval`,
`PairInviteDecidedOnce`, `PairRevocationHolds`. `PairInv` adds that ids are
unique (`IdsAreUnique`), decisions in memory were made (`DecisionsAreReal`), a
decided request is pending no more and its invite gone, except where an approval
could not be saved (`DecidedIsGone`), a joiner polls for a request of its own
(`PollsItsOwn`), and one that hands a result over was approved
(`HandsOverApproved`). Without the last two a joiner could take another's
approval for its own.

**Bridge** (`Bridge_proofs`): `BridgeTypeCorrect`, `BridgeForwardedArrived`,
`BridgeSecondOnlyByOverlap` and `BridgeOnlyHome`, for any finite sets of devices
and agents (`FiniteAssumption`; the number of messages written is a
cardinality). `BridgeInv` adds four facts. `OneNamePerId`: an id given to a
shadow belongs to one name for ever, in the rows, in the bridge's map and in the
mail, although the map may be stale. `OneNamePerMessage`: messages are numbered
upwards, so that what is remembered of one is never taken for another.
`Remembered`: what got into a daemon is in the `forwarded` of the bridge beside
it, until that restarts; this is the duplicate check. `CallOK`: a delivery is of
a message that was written, to the device its recipient lives on, and if it
begins when the message is there already, that bridge was restarted. `RosterOK`
has the counterpart of a divergence in section 6: no shadow is ever pruned.

The strengthenings were first checked with TLC as invariants.

Only model-checked is liveness (`StaleSettles`, `RetriesEnd`, `NoticeIsSubmitted`,
`ResumedActs`, `PiStaysOnBus`, `ServesAgain`, `RevokedShadowsFade`,
`PairingCompletes`, `WaitingIsHandedOver`): fairness and ENABLED are outside what
this prover handles. Only proved, in no run: `OfflineRowsAreRetained`,
`NewRowsReadNoHistory`, `RelayLedgerIsHonest`, `RelayStopsOnRevocation`,
`BridgeOnlyHome` and most of the type invariants.

## 6. What the code does that its documents do not say

Found while translating; the modules have the behaviour as it is, and the
properties are stated so that each exception is named in them.

**Daemon and mailbox.**

* `touch()` leaves `offline_since` set: a Claude row that missed one reap and
  heartbeats again stays listed offline, and is purged after 30 days
  (`agents-repo.ts:448`; by `tools.ts:113` the flag reflects process liveness).
* A send to a retained session is refused once it has been silent for 180 s
  (`send-message.ts:125`), though `README.md:167` and `tools.ts:113` have mail
  wait for it.
* The watermark migration takes a cursor of 0 for "never set": a restart skips
  the mail of an agent that registered while no event existed
  (`schema.ts:252`, its comment at 249).
* A retry whose poke fails is listed as delivered (`auto-poke-fanout.ts:109`).
* A running Claude conversation whose row is reaped never acts again: its hook
  has no capability to present until the next SessionStart
  (`agents-repo.ts:462`; by the comment at `assets/claude/xats-hook.mjs:20` it
  registers again on its next call).

**Sessions.**

* SessionStart firing again for a running conversation issues a new capability
  and locks its bound MCP session out (403) until it opens another
  (`transport.ts:311`).
* A client that reconnects without a DELETE is locked out by its own abandoned
  session (`claude-bind.ts:55`), and registered sessions of vanished clients
  are never collected (`transport.ts:408`).
* The SessionEnd hook of an earlier process that overlaps the SessionStart of
  the resumed one leaves a live conversation offline, its capability revoked
  (`assets/claude/xats-hook.mjs:168`).
* A session that is closed or reaped while its `register_agent` waits
  (`tools.ts:547`, `:554`, `:612`) is entered in `connections` and the fan-out
  after its `onclose`, and stays there until another session takes the name or
  the agent (by `transport.ts:217` the map "does not retain dead" entries).
  `NothingDangles` admits these two maps for such sessions and no others.
* A session bound by a capability while a `register_agent` of it waits is moved to
  another agent (by `transport.ts:323` "Manual register_agent cannot move a
  capability-bound session").
* `onclose` detaches the sink by agent_id, so also its successor's
  (`transport.ts:206`); connections are kept under the requested, not the granted
  name (`register-agent.ts:153`); unregistering makes an orphan without
  enforcing the limit.

**Plugins and notices.**

* v1 and v2 never register again after a reap, since they ignore the 404 of a
  heartbeat; v1 whose first registration failed never sends one.
* Overlapping `applySession`s of v1 deregister the row one of them just wrote,
  and a failed one leaves name and id of different sessions.
* A takeover keeps the agent_id, so a heartbeat or deregister of the former
  owner, back from sleep, acts on its successor's row.
* A v2 session deleted while it registers, or a claim answered after the plugin
  was closed, leaves a row to the reaper. `ClosedLeavesNoRow` excludes both.

**Panes.**

* Auto-binding does not know which pre-registration is its caller's
  (`auto-bind-codex-pane.ts:155`): with one launcher ready and one not, a session
  is bound to the other's pane. Two that list at once both use one (`:165`).
* A UI that shows as wrapper and child is no candidate
  (`auto-bind-codex-pane.ts:149`), so its session is bound to another's pane if
  that is the only candidate left. `OwnPaneFirst` names as its exceptions this, a
  pre-registration that expired or was never written, a `ps` that failed and a UI
  that ended.
* A UI that ends between the last look and the bind leaves its agent bound to a
  shell (`bind-runtime-identity.ts:34`).
* Detection prefers the active pane (`tmux-pane-detect.ts:131`), which may be
  any session's.
* A row removed during the awaits takes its pre-registration with it: the UPDATE
  hits nothing, but the entry is consumed (`bind-runtime-identity.ts:34`).

**Federation.**

* The daemon is written before the ledger: a retry after a crash in between is
  a second copy (`peer-federation.mjs:239`; `docs/stage1-networking.md:31` says
  retries are recognised).
* A message whose sender registered after the roster was read is given up
  (`:340`).
* One cached shadow whose row is gone fails every pass of its peer, which stays
  disconnected (`:297`; `stage1-networking.md:128`).

**Pairing.**

* The command line joiner writes the trust file it loaded when it began
  (`peer-runtime.mjs:247`): a peer revoked meanwhile is back.
* One failed poll ends the joiner, while the inviter may still approve: trust on
  one side only, and the next attempt is refused as already paired.
* A request by discovery expires after 60 s, the joiner polls for 120 s.
* An approval whose save failed leaves the joiner trusted in memory and the
  request pending, even if it is denied then; a revocation whose save failed is
  undone by a restart.
* A clean stop of the joiner's runtime removes its control port, so that the
  hand-over fails with ENOENT and an approved pairing is reported as failed.

**Lifecycle.**

* `restartDaemon` without a supervisor signals and starts at once; the new daemon
  finds the old one draining and exits (`service.mjs:176`; its comment at 158).
* The second signal of `reset` cuts the drain short (`reset.mjs:98`), and a
  signal may hit another program that got the pid (`:100`); a reused pid also
  blocks every start (`pid.ts:22`).
* Read and write of the pid file are two steps (`pid.ts:19`); `releasePidFile`
  removes whoever's file it is (`:31`); a failed listen leaves the file of a
  dead process (`cli.ts:72`).

**Bridge.**

* A peer that failed three times is never pushed to again (`bridge.mjs:724`, its
  comment at 723): `checkPeerHealth` (472) has no caller.
* After a restart the sender pushes what it had pushed; the receiver answers
  HTTP 400 to the duplicates, which counts as failures.
* A pull marks messages as forwarded before its answer arrives, so a lost answer
  loses them; an error while delivering a pulled message is ignored.
* A push and a pull of the same message that overlap inject it twice.
* Pruning never removes a shadow (against the comment at 51), and a shadow the
  daemon reaped keeps its stale id in the map.

## 7. What is left

* Proofs of the safety half of the liveness properties, which is what their
  arguments rest on: that a retry is always listed until its attempts are spent,
  that a pass of the shadows meets each row once, that what waits at a bridge is
  behind no cursor unless it was handed over.
* An abstract promise of the federation, as `MailboxPromise` is one of the
  mailbox, and its refinement by `PeerRelay`.
* The mail half of the OpenCode and Pi plugins (polling, wake-up of the session)
  against `Mailbox`, as `Notices` does it for Claude, and their `names.json`.
* Pruning of the federation's ledger, and name collisions of shadows with
  local agents.
* `register_opencode_self`, and auto-binding of a host to a channel that
  subscribed before it.

## 8. What is not modelled, and why

* Several devices and teams under one daemon: identity is the triple, and no
  operation of the modelled parts relates rows of two teams except by agent_id.
* Contents: bodies, subjects, labels, payload validation, wording, logs.
* REST authentication: a token comparison and a classification of addresses,
  without state.
* Peer transport: signatures, certificates, clock window and nonce cache protect
  against a party the model does not have; `PeerRelay` and `Pairing` begin with
  requests that were authenticated.
* Discovery: caches that the next answer overwrites, and from which nothing is
  decided without a person or an authenticated request.
* TUI plugin: rendering. Installer and harness detection: files written once by
  a user's command.
* Reactive rebinding of a Claude row by pid; the preflight on a given ui_pid; the
  branch of Codex registration that lists loaded threads, which its caller never
  reaches.
* The number of copies of a role broadcast in one page (section 2).
* The lengths of retry delays, and which of the three comes next.
* The bridge's hop count, which never reaches its limit, and its tunnel, taken
  to be up.
