# Smolit-Assistant: TLA+ verification

TLA+ models of the Smolit-Assistant core (`src/core`), the TLC runs that check
them on small instances, and TLAPS proofs of what matters most for every
instance. Paths below are relative to the repository; `app.rs` and other bare
names are files of `core/src`.

- [1. The system](#1-the-system)
- [2. Modules and how they correspond to the code](#2-modules-and-how-they-correspond-to-the-code)
- [3. Runs: what is checked, bounds, fairness](#3-runs-what-is-checked-bounds-fairness)
- [4. Findings](#4-findings)
- [5. Proofs](#5-proofs)
- [6. Only model-checked, not modelled](#6-only-model-checked-not-modelled)
- [7. Plan](#7-plan)
- [8. Running it](#8-running-it)

## 1. The system

Smolit-Assistant is a desktop assistant: a Rust core on a multi-threaded tokio
runtime, and a Godot UI that talks to it over a local websocket. The core
answers text and voice queries through chains of providers, speaks answers, and
runs a small set of gated desktop interactions. One `App` value is shared by
every connection and by the console loop; there is no actor or queue in front
of it, so **every lock section of one handler interleaves with those of
others**. `PROJECT.json` lists every part with its status. The parts:

| Part | State | Operations | Hard behaviour | What makes it correct |
|---|---|---|---|---|
| Approval gate (`app.rs` 940-1912, `approvals/`, `interaction/executor.rs`) | registry id → oneshot sender; one waiter task per gated command; id counter | dispatch, draw id, register, spawn waiter, poll receiver and timer, answer (take, then send), announce, run, audit | answers of several connections race each other and the timeout, at every poll and between `take` and `send` | nothing runs without a user's approval; one answer is acknowledged; every gate settles; frames, audit and effect agree |
| Audit store (`audit/store.rs`) | ring of entries, id counter | record, list_recent | ids are drawn outside the lock that orders the ring; wrap-around | the ring is the end of the history; no id lost or doubled |
| Vocabulary, guard, interaction, accessibility, audit fields, demo plans (`capabilities.rs`, `capability_guard.rs`, `interaction/`, `actions/`, `audit/{event,correlation}.rs`) | static tables, one selected target | guard, policy, action from a request, question, executor, hints, discovery, sanitising | one fact told in two places: guard and table, question and helper, gate and executor, caller and sanitiser | the places agree for every input |
| Llamafile runtime (`providers/text.rs` 575-910) | per provider: child slot, lifecycle, last use, watchdog flag behind a runtime mutex | run (spawn, wait ready, request), watchdog, drop | processes die at any time; the watchdog races requests; settings replace the provider | the lifecycle tells the truth; no unwatched and no orphan process; a used one is not stopped, an unused one is |
| Provider chains (`providers/{text,stt,tts}.rs`, probes and status in `app.rs`) | per resolver: chain, providers' configurations, runtime status | run down the chain, classify the error, probe, report the status | spawn, write, connect, handshake and answer each fail in their own way; a timeout leaves the program running; the resolver is replaced under a call | the class names the failure; the status is the resolver's own; probes say what a call would meet; no text goes to the cloud unasked |
| Start-up configuration (`config.rs`) | none | parse `.env` and environment | typing errors | defaults, ranges, chains never empty, gates closed |
| Settings store, secrets store (`settings_store.rs`, `secrets_store.rs`) | one JSON file per part | load, save (tmp + rename), clear | crash or error between system calls; a shared temporary name | a start reads a whole document: the last one saved |
| Speech settings (`app.rs` 2500-2665, 2850-3040) | `live_audio`, two resolvers, four files | update config, update/reset chain, per axis | read-modify-write over two lock sections and a file; failing saves | live, resolver and file agree |
| Text settings (`app.rs` 2300-2410, 2665-2850, 3137-3260) | five live parts behind five locks, one resolver, four files | update llamafile, local_http, cloud_http, key, chain; reset chain | a resolver is rebuilt from parts read one lock at a time | the same; two users editing different parts do not lose each other's |
| IPC server and requests (`ipc/server.rs`, `event_loop.rs`, `app.rs` 800-940) | per connection: frames to write, broadcast receiver | connect, read, dispatch, answer, forward, lag, close; query, voice, speak, auto-speak | a connection forwards nothing while it awaits a handler; the channel is bounded; speech frames of several callers mix | answers whole and in order; speech frames paired and after their answer; every request of a live client is answered |
| UI (`ui/autoload/`, `ui/scripts/{approval,presence}/`, `ui/scripts/main.gd`) | connection, one approval card, one banner, one presence with a timer | one handler per frame, buttons, timers, polling the socket, reconnecting | frames missed while away, a restarted core that reuses ids, several actions through one slot | what is shown can be decided, its answer decides nothing else, nothing waits for ever |

How they interact: a connection's `dispatch` calls `App`. Slow requests run
inside the connection; a gated command registers a sender in the approval
registry, spawns a waiter task and returns, and everything after that reaches
clients through one broadcast channel. Settings handlers save a file, install
a new resolver and commit the live value. Queries take a clone of the resolver
`Arc`, so a replaced resolver (and its llamafile process) lives on until its
last caller is through. The UI is one more client: it keeps copies of what the
core asked it, and drops them by frames or by losing the connection.

The hazards, each at its line, are in `PROJECT.json` ("hazards"), with the
property that would catch it or the reason why none does.

## 2. Modules and how they correspond to the code

`PROJECT.json` ("map") gives the lines of every definition. Atomicity follows
the code throughout: one action is what one lock section, one system call, one
poll or one channel operation does.

### ApprovalGate, ApprovalFlow, ApprovalFlowProofs

`ApprovalGate` is the promise, per command: closed or free at dispatch, open
for answers, settled once by an acknowledged answer or by the timeout, executed
at most once and only if free or approved.

`ApprovalFlow` is the code. A `Task` is one dispatched command, of any gated
kind: a desktop interaction, a demo plan, the approval demo. `pc[t]` is where
its handler, then its waiter task, is. `registry` is
`PendingApprovalRegistry`; `slot[t]` is the value in its oneshot
channel, `hand[c]` a sender a connection has taken and not yet used; `inline`, `wire` and `audit` are the frames answered on the
requester's connection, the frames broadcast and the audit entries, per
command. The timeout is tokio's: one poll of `timeout(d, rx)` looks at the
receiver first and only then at the timer, as two actions (`PollReady`,
`PollPending`, then `PollTimerPending` or `PollTimerElapsed`), because the
sender may act in between. Answering is `take()` under the lock, then `send`
without it: two actions of a `Client`. When the wait ends by the timer, the
waiter removes its own entry in a further step. Policy refusals, unsupported kinds, ungated
plans and a backend error take their own routes; the helper process is a free
choice of outcome. The three commands' differing orders of audit and broadcast
are kept.

`IInv` in `ApprovalFlow` is the inductive invariant of the gate, `ReportsInv`
what is added to it about frames and audit; `ImplementsGate` the refinement
(`GatePhase` maps `pc` and `decision` to the gate's phases).

### AuditStore

`BuildEvent` draws the id (atomic counter, no lock), `Push` evicts and appends
under the lock; between them any other thread may run, so ids need not be in
ring order. `pushed` is the history. `ListRecent` is the read. Proved in
`StoreProofs`, which it shares with `SettingsStore` (hence the prefix of
`AuditSpec` and its parts).

### Capabilities, Interaction, Accessibility, AuditEvent, DemoPlan

The pure part of the gated commands, as operators without state: the closed
vocabulary and the guard; policy, actions, what the command backend does with a
template and a name, the executor's frames; what the accessibility layer says
of the desktop; what an audit entry keeps of the fields a caller gives; demo
plans and their sanitisers. `DesktopSession` runs on them. `MCInteraction`
states what TLC evaluates over small inputs, as assumptions of the run
`session`: `GateAndExecutorAgree`, `EveryInteractionEnds`,
`NothingHiddenIsShown`, `ProbeNeedsABus`. Strings are small words that keep
what the code tells apart: blank or not, trimmed, with capital letters or not,
too long or not.

### DesktopSession, DesktopProofs

The UI and the core at the two ends of a connection. Commands travel in
`toCore`, events wait in the connection's receiver (`backlog`), frames travel
in `toUi`. The channel holds the last `Capacity` events: `Broadcast` overwrites
the oldest of a receiver that is further behind, the receiver notices
(`NoticeLag`, `ipc/server.rs:116`), logs it, and goes on with what is left on a
connection that stays up. `LinkDrops` and `CoreDies` lose what is on its way at
any moment; what the core has received of a lost connection it still handles
(`old`), and a new life of the core counts its approvals from one. A job's task
takes one step per broadcast, an interaction's frames one by one (`Reports`), so
that a receiver can keep up or fall behind anywhere between them. The views are
those of the code: `card`
(`approval_card.gd`), `banner` (`main.gd`), `presence`
(`presence_controller.gd`), each with one handler per frame and one for the
lost connection, which the banner lacks. A question is an id and, as history,
the life of the core that asked it; `astray` records a view whose answer decided
another question than the one pressed. Two more histories say what a view can
never learn: `missed` holds the questions a view shows, or is asked by a frame
on its way, whose resolution the UI will not get (overwritten, sent while it was
away, gone with connection or core), `endLost` that the channel overwrote the
end of an action on the connection the UI has. The steps inside a gate are
`ApprovalFlow`'s and are taken at once here. `DesktopProofs` also proves what
the modules of the pure part say of every input.

### LlamafileRuntime, LlamafileProofs

A generation `g` is one `LlamafileLocalProvider`: a settings write replaces it
and callers keep the old one. `pc[c]` follows `run()` under the runtime mutex
of that generation: try_wait, spawn, readiness loop, request, release. `child`
is the process, which boots, serves and crashes by itself. `asleep` and
`waiting` count watchdog tasks, sleeping or queued for the mutex. All
generations' processes share the configured port, so a health check may be
answered by another generation's process (`PortAnswers`).

### Config

Every parser of `config.rs` and what `Config::load` makes of a process
environment and a `.env` file. A variable's text is the sequence of its comma
separated words, trimmed and in lower case.

### ProviderErrors, ProviderCalls, ProviderProbes, ProviderProofs

`ProviderErrors` has the causes a provider can fail with, the phrases each
leaves in the error's contexts, and `classify_error` as the ordered search for
them, every rule with all its alternatives. How rustls words a rejected
certificate is not in this repository; `CertificateText` takes the wording of
the version `core/Cargo.lock:500` names. The class a failure should have
(`Documented`) is taken from the documents (`docs/api.md`,
`docs/provider_fallback_and_settings_architecture.md`), where they speak of it,
and from the comments at the rules, not from what the rules find; where the
code never reaches the documented class, the cause is in `Misnamed`. `ProviderCalls` is the call: it clones the installed resolver, tries each
kind of the chain (`Refuse`, or `Spawn`, `WriteStdin`, wait, or `Connect`,
`Handshake`, `Exchange`), and writes the resolver's status when it ends;
`running` holds the programs a timeout has left behind, and `Rebuild` is a
settings handler installing another resolver. The configurations come from
`Config!Load*`, so the environment is the input. `ProviderProbes` has the five
probes and the provider part of `get_status` as operators over the same
configurations, compared with what a call does: the same class, except for the
three faults of `TwoNames`, which the two name differently. Both lists are exact
(the properties say "if and only if"): a further disagreement, or one that is
mended, violates them. `ProviderProofs` proves what is said of all three and of
`Config`.

### SettingsRegister, SettingsStore, StoreProofs

`SettingsRegister` promises one stored body, replaced whole or not at all.
`SettingsStore` is `write_override_atomic` system call by system call: create
(truncate) the temporary file, write (any prefix may reach the disk before an
error or a crash), rename; plus `remove_file` of a chain reset. Files are
inodes, so a writer keeps writing into the inode it opened after another has
renamed it.

### AudioSettings, AudioSettingsProofs, TextSettings, TextSettingsProofs

The live value, the resolver (as the record of what it was built from), the
files, and each connection's handler, step by step between its lock sections.
Failing saves are recorded in `unsaved`, since the code logs them and goes on.
`Restart` is the reading of all files over the environment at any moment. In
both a save is one step, which `SettingsStore` justifies for one writer of a
file.

### IpcServer, IpcServerProofs

`handle_ws` is a loop with a biased choice: it reads a frame and handles it to
the end, or, when none is waiting, forwards one broadcast frame. A request is
`Ask`ed, `Read`, handled in stages (`stt`, `text`, `tts`; each tries its chain,
`TryNext`, `Succeeds`, `Exhausts`), collecting its frames in `out`, which `Send`
writes. `log` is the sequence of all frames ever broadcast, `next[c]` the
receiver's position in it, `Capacity` the channel's size: `Lagged` jumps forward
as tokio does. The console is a further caller without a connection. `active` is
the provider in the resolver's status, from which `speaking_ended` takes its own.
`ServerInv`, below the three invariants, is what makes them inductive.

## 3. Runs: what is checked, bounds, fairness

Passing runs:

| Run | Checks | Instance, and why it is enough |
|---|---|---|
| `approval_safety` | `ExecutionNeedsConsent`, `OneAnswerAcknowledged`, `AuditNamesTheVerdict`, `RegistryTracksWaiters`, `AuditedBeforeBroadcast`, `ImplementsGate`, `NoAnswerAfterVerdict` | 2 commands, 2 answering connections, confirmation on and off, 2 ids. Races are between two answers, or an answer and the timer, on one approval; the second command is there to be confused with the first. What does not depend on frames or audit is also proved for every instance. |
| `approval_liveness` | `ReportsAgree`, `EveryGateIsReported` | 1 command of every kind under all policies, 2 connections: every route a command can take, for properties of one command. |
| `audit_store` | `AnswersTheLatest`, `ChainInOrder` | 3 threads, 7 events, capacity 3 (asked for 9, clamped): the ring wraps twice with each thread holding an unpushed event. |
| `llamafile` | `LifecycleMatchesChild`, `EveryProcessIsWatched`, `NeverStoppedInUse`, `EveryRunReturns`, `UnusedProcessStops` | 2 callers, 2 generations of any configuration, 2 processes in all: a crash and a restart, a watchdog of either life, a replacement under a request. |
| `settings_store` | `FileIsWhole`, `ImplementsRegister` | 1 writer, bodies of two lengths (2 and 3), 3 inodes: target, temporary, one to reuse. |
| `audio_settings` | `ResolverMatchesLive`, `RestartRestores` | 1 connection, both axes, all handlers; the environment names a command for one axis, so that a cleared value can come back. |
| `text_settings` | `ResolverMatchesLiveInTurn`, `RestartRestores`, `KeyOnDiskIsLive` | 2 connections editing disjoint parts. local_http goes the way of llamafile in the code and keeps its default. |
| `ipc_server` | `AnswersAreWhole`, `SpeechFollowsItsAnswer`, `SpeechIsPaired`, `EveryRequestAnswered`, `SpeechEnds`, `EveryFrameReached` | 2 clients and the console, 2 slow requests overlapping, a channel of 2 frames so that lagging happens, chains with a fallback, three setups (no speech; on request; auto-speak). |
| `provider_calls` | `ClassNamesTheFailure`, `CloudOnlyWhenAsked`, `StatusIsOwn`, `ProbeAgreesWithRun`, `StatusAgreesWithRun`, `EveryCallEnds` | 2 calls, 2 resolvers: a call outlives its resolver and another writes the same status. Nine text and four speech environments per axis: unknown kinds, typing errors, missing and empty parts, refused schemes and headers, `.env` against process. Programs and servers fail in every way `ProviderErrors` names. |
| `session` | `CardAnswersWhatItShows`, `CardOnlyWhileOpen`, `BannerOnlyWhileOpen`, `CardIsReleased`, `ActionModeEnds` | 2 commands that start a job, 1 loss, 1 restart, a channel of one event and one frame in flight, no helper for windows (an interaction fails, plans complete): a question of the life before, the same id given again, two actions or two questions at once, and a lag with any two events. With these bounds every exemption of the properties is met: without it TLC finds each of the four violated. The run also passes with `Capacity` 2 and 3. It also evaluates the assumptions of `MCInteraction`. |

`PROJECT.json` says which run each property belongs to, and every property's
meaning stands above its definition. `TypeOK` of `LlamafileRuntime`,
`IpcServer`, `TextSettings` and `AudioSettings` holds on the same instances
(add `INVARIANT TypeOK` to the configuration) and, but for `TextSettings`, is
part of a proved invariant.

Deadlock checking is on where a state without successors would be an error.
It is off where the bound on inputs legitimately stops the system:
`audit_store` (all events recorded), `llamafile`, `ipc_server`,
`provider_calls` and `session` (the bounded processes, requests, calls and
jobs are used up).

Bounds by name: `MaxApprovals` (ids), `MaxEvents` (audit events), `MaxGen`,
`MaxSpawns` (provider generations, processes), `MaxRequests` (slow requests),
`Capacity` (stands for 256), `Leavers` (which clients may close or stall),
`HardMax`/`DefaultMax` (stand for the ring's limits 1000 and 100), `Resolvers`,
`Asks` (resolvers built, calls made), `MaxJobs` (commands that start a job),
`MaxRestarts`, `MaxLosses`, `MaxInFlight` (events sent to the UI and not
handled; more of them wait in `backlog`, up to `Capacity`). Symmetry is used only
in runs without liveness properties.

Fairness, and why the code justifies it:

- `approval_liveness`: weak fairness of the waiter, of the synchronous code that
  follows it, of the deadline (a tokio timer) and of a `send` already begun
  (no await between `take` and `send`). None for users, clients, or the
  focus-window helper, which is awaited without a timeout: `EveryGateIsReported`
  excludes exactly that wait.
- `llamafile`: strong fairness of acquiring the mutex (tokio's is FIFO) for
  callers and watchdogs; weak fairness of run(), timers and the readiness
  deadline. None for queries, settings, or the process itself.
- `ipc_server`: weak fairness of handlers (every provider call has a timeout)
  and of connection tasks. None for clients asking, leaving or stalling.
- `provider_calls`: weak fairness of each call's steps that the core or one of
  its timers takes: every wait but the write of a text to a speech program is
  under a timeout, and `EveryCallEnds` excludes exactly that one. None for
  programs, servers' answers in particular, settings or returns.
- `session`: the core does not stand still while it has commands, tasks (sending
  an interaction's frames among their steps), deadlines, events or a lag to
  notice, and the UI does not while it has frames, a timer or a
  socket that is gone. Nobody has to press, ask, answer or reconnect.

## 4. Findings

Each is a violation run whose one property states what the repository says.

| Run | Property | What happens | What the repository says |
|---|---|---|---|
| `settings_store_shared` | `FileIsWhole` | Two connections save one file through the one temporary name; one renames the inode the other has just truncated. | `settings_store.rs:210`: atomic, a crash does not damage the file |
| `text_settings_resolver` | `ResolverMatchesLive` | Two connections edit different parts; the later resolver is built from a part read before the other's commit, and nothing rebuilds it. | `app.rs:2301`: the next query sees the new configuration |

Noticed while modelling, claimed by no run:

- Whoever wins `take()` is said to deliver the decision (`approvals/state.rs:6`).
  An answer that takes the sender between the waiter's look at the receiver and
  its look at an elapsed timer is acknowledged, and the verdict is the timeout
  (`app.rs:1728`). Safety is unaffected: a lost approval denies.
- The flag of llamafile's watchdog is to prevent several of them
  (`providers/text.rs:602`). The error branch of `run()` (`:764`) clears it while
  the task sleeps; a process started before it wakes keeps it alive, and the
  next success starts a second one. Harmless: each only stops an idle process.
- An expired demo plan's audit entry loses its result: it is written as
  `timed_out` (`app.rs:1320`), which the vocabulary does not hold
  (`audit/event.rs:33`); an interaction's is `expired`.
- The approval demo writes no audit entries (`app.rs:1011`).
- A `noop` plan emits a step although its kind is described as emitting none
  (`actions/plan.rs:33`).
- The guard's refusal of a demo plan is unreachable: every kind is first mapped
  to a known one.
- A window title of blanks is what the question names, while the helper is run
  for the application of the same target (`app.rs:2086`); `AskedAboutWhatIsFocused`
  therefore assumes that the first name given is not blank.
- The question for opening an application shows the name in lower case.
- `list_recent` is in lock order, not id order (`audit/store.rs:97`).
- Around a provider replacement two llamafile processes can run, and one can be
  `ready` on the strength of the other's answer on the port.
- A chain reset first removes the override, then saves the default as one
  (`app.rs:2845`): after it the environment's chain stays shadowed.
- A command or path cleared with `null` is left out of its file
  (`settings_store.rs:231`) and returns from the environment at the next start;
  the store is described as having the last word (`:171`).
- Two connections writing speech settings can lose an update: each writes back
  the whole `live_audio` record (`app.rs:2875`).
- `speaking_started` reaches clients after speech has ended: both frames are
  returned or broadcast after the run (`app.rs:888`).
- Two overlapping auto-speaks can put two `speaking_started` frames in a row,
  and `speaking_ended` can name another caller's provider (`app.rs:889`).
- The banner keeps its id when the connection is lost (`ui/scripts/main.gd:260`),
  while it is described as shown as long as an approval is open
  (`docs/ui_architecture.md:281`). If the resolution was sent while the UI was
  away, or went with the core, the banner offers a question that is gone, and
  after a restart of the core its press may answer another question of that id.
  `BannerOnlyWhileOpen` says that this is so exactly as long as the missed
  resolution is what the view waits for.
- A receiver more than 256 events behind loses the oldest and nobody is told
  (`ipc/server.rs:116`). On a connection that stays up nothing repeats them: if an
  `approval_resolved` is among them, card and banner go on offering a decided
  question, and a card that was pressed keeps its buttons disabled until the next
  question or the loss of the connection; if the end of an action is, the UI stays
  in action mode until another action ends. The four properties of `session` on
  these views name exactly these cases.
- A scheme other than `http://` and `https://` in the endpoint of cloud_http is
  documented as `endpoint_scheme_unsupported` (`text.rs:285`,
  `docs/provider_fallback_and_settings_architecture.md:1048`, `docs/api.md:1894`),
  and so is one other than `http://` of local_http (the same, `:354`). For
  `ftp://` no error text of `parse_endpoint` holds the phrase of that rule
  (`text.rs:988`, `:1226`), and a failed call shows `endpoint_unparseable`. The
  probe of local_http has the same gap (`app.rs:3050`), that of cloud_http does not
  (`app.rs:3342`): it and the call give one fault two names.
- A certificate that is not valid yet, or not for this host, is documented as
  `cert_invalid` (`docs/provider_fallback_and_settings_architecture.md:1056`,
  `docs/api.md:1904`). The rules look for `notvalidyet`, `notvaliddns` and
  `invalidcertificate` (`text.rs:274`), names of variants that the messages of
  rustls do not hold, so both are shown as `tls_handshake_failed`, by the call and
  by the probe. (The wording is that of the version in `core/Cargo.lock`; see
  section 2.)
- Two more faults have two names: a command of blanks is `command_unparseable` to
  the speech probes (`docs/api.md:1682`) and `not_configured` to the call, and an
  invalid header name is found by the call before it looks at the endpoint and has
  no class there (`unknown`), while the probe looks at it last (`app.rs:3360`,
  `not_configured`).
- The presence's handlers do not look at action ids
  (`presence_controller.gd:219`), and its hold timer, which a plan does not
  stop, takes a newly planned action's context with it (`:263`).
- The UI forgets its selected target when offline because the core does
  (`main.gd:263`); the core keeps it.

## 5. Proofs

All proofs are checked by TLAPS for every value of the constants that satisfies
the named assumptions of the modules.

**Approval gate** (`ApprovalFlowProofs`): any number of commands, connections
and ids, any set of policies. `IInv` is needed because consent is not inductive
by itself: that a command runs only if approved follows from the verdict, the
verdict from the value in the channel, that value from a sender that was in the
registry under this command's id, and that from ids being drawn once. Its parts
are that chain: `IdsInv` (ids distinct and below the counter), `RegistryInv`
(an entry belongs to a waiter that can still receive), `HandInv` and
`SenderInv` (a sender taken by a connection is in no registry and in no other
hand), `SlotInv` (what the channel holds was sent by the acknowledged answer),
`VerdictInv` and `EffectInv`. There is one lemma per action, one step per part
it disturbs. From it: `Consent`, `OneAnswer`, `VerdictSource` (the branch for a
dropped sender is dead), `RegistryExact`, and the action property
`VerdictIsFinal`. From it also follows the refinement
(`FlowImplementsGate`): each action maps to one abstract step or a stutter.

What is said about an approval needs a second invariant, `ReportsInv`, because
the order of a resolution frame and its audit entry is a matter of the whole
trail: for each place of a handler and of its waiter, `Told` says exactly which
frames and entries there are by then, and `Told` of one command is disturbed by
no step of another. From it `TrailNamesVerdict`, `AuditComesFirst` and
`OneReport`, for all three kinds of command with their differing orders.

**Audit store** (`StoreProofs`): any number of writers, any capacity.
`RingInv` says the ring is the last `Capacity` entries of the history;
`OrderInv` that a thread's unpushed event is newer than all it has pushed.
From them `LatestAnswered`, `EveryIdOnce`, `ChainsOrdered`; `CapacityClamped`
bounds the ring whatever the environment asks for.

**Settings store** (`StoreProofs`): under `SingleWriter` (one
connection, as the shipped UI opens; the `settings_store_shared` run shows that
the code does not ensure it for two), for all bodies, sizes
and inodes. The invariant says whose the temporary file is and what it holds at
each step: empty when written, complete when renamed, never the target. From
it: `Whole`, `Stored`, and `StoreImplementsRegister`.

**Llamafile runtime** (`LlamafileProofs`): any number of callers, providers and
processes. `HolderInv` says what the holder of a mutex knows of the process at
each place of `run()`: none while it spawns one, one while it waits for it and
posts to it, with the lifecycle to match; `NotBuilt` that a provider of the
future has neither process nor watchdog, so that a replacement starts from a
clean slot. With them the two invariants hold each other up: a run that ends
well leaves "ready" and a watchdog, every other end leaves neither. From them
`LifecycleIsTrue`, `NoneUnwatched` and the action property `InUseIsKept`. That a
watchdog does come round, and that runs return, stays with TLC.

**Speech settings** (`AudioSettingsProofs`): under `OneConnection`, for all
commands, chains and environments, with failing saves and restarts anywhere.
`Elsewhere` says that the axis no handler writes reads back from the files, is
what its resolver was built from and is unchanged in the clone; `AtWork` what
the handler has already secured of the axis it writes, step by step: the file
it has saved holds what the clone will commit. From it `StatusIsWhatSpeaks`
(`ResolverMatchesLive`) and `SpeechSettingsSurvive` (`RestartRestores`). For two
connections both are false: see the lost update above.

**Text settings** (`TextSettingsProofs`): any number of connections that write
different parts (`DisjointOwns`), in every interleaving. `SavedIsNew` says that
between save and commit the file holds what the handler is about to commit;
`KeyInv` and `BackInv` that a part nobody writes reads back from its file, the
key always, the others unless the save failed. From them `SettingsSurvive` and
`KeyInUseIsStored`. That the resolver matches whatever happens is no theorem:
the second finding. `TurnsEndInAgreement` says what is left, and without
`DisjointOwns`: as long as no two handlers have overlapped, it matches whenever
none is at work. `InTurn` is its invariant: a part of a handler's view
that differs from what is live is its own or still to be read, so that the
resolver it installs is the live one with its own part already changed.

**IPC server** (`IpcServerProofs`): any number of clients and requests, any
chains, settings and channel capacity. What a socket carries depends on where
its handler is, on what every caller has broadcast and on how far the receiver
has come, and `ServerInv` ties these together: `CollectedInv` (what waits in
`out` is of the request in hand, and only its last frame closes it, once the
answer is complete), `WireInv` (on the socket are closed answers, the one in
transit at the end, and frames of the channel the receiver has passed),
`ToldInv` (a speech in the channel has its answer on the socket of the client
that asked, or at the end of what a loop that forwards nothing will write
first), `CastInv` and `LogInv` (who has broadcast which half of a speech) and
`SpeakerInv` (the shared status is what the last run made it, unless `crossed`
says that another caller's run came in between). From it `AnswersComeWhole`,
`SpeechComesAfter` and `SpeechComesInPairs`. Requests of a client are told apart
by their number, so a frame of an old request is never taken for the present
one; a handler that speaks inside its answer broadcasts nothing, which keeps the
two kinds of speech frames of one request from meeting on a socket. The model
needed no change but its type invariant, which had left frames untyped.

**Providers** (`ProviderProofs`): any number of calls and resolvers, any chains
and environments. Of the configuration: `ChainsAreNotEmpty`, `LoadedInRange`,
`DefaultsAgree` (the loader and the `Default` implementations, written down
twice, agree) and `GatesNeedPlainWords` (no typing error opens a gate or waives
a confirmation). Of the calls, `CallsInvariant`: a resolver is what its
constructor makes of the settings it was installed with and differs from that
only in its status (`BuiltInv`); where a call has got to says what it is calling
and that this provider has not refused it (`CallInv`); whoever a status says is
active has not refused. From it `CloudIsAskedFor`, `StatusesAreOwn`,
`ProbesAgreeWithRuns` and `StatusAgreesWithRuns`: a status and a probe are
computed from the configuration alone, a call from what it has met, and what
ties them is that a refusal depends on nothing else; of the three faults of
`TwoNames` the theorem says that probe and call never agree. `ClassesNameTheFailure`
is about `classify_error`, an ordered search for phrases: 52 rules, with the
error's contexts merged into one text, so that an early rule can catch a phrase
of an inner context. The search is brought to a closed form (`From`, `Look`),
then each of the 79 errors a call can end with is looked up: 75 get the class
the documents give them, four (those of `Misnamed`, section 4) never do.

**Desktop** (`DesktopProofs`): any number of commands, losses and restarts, any
capacity of the channel.
`SessionInvariant` has two parts besides types and what is to be shown.
`LifeInv`: nothing outlives the process or the connection it belongs to, so
what a card shows or has sent is of the life of the core that will read it,
although ids begin again with each life. `ViewInv`: a question shown, or in a
frame on its way, is open, or its resolution is behind it in the same queue
(`Covered`), which needs both queues, the connection's receiver and the socket,
in order, or is among those the UI will not get (`missed`); each step that drops
a resolution a view waits for has to account for it there (`BroadcastIs`,
`Remembered`). From them `CardAnswers`, `CardIsCurrent` and `BannerIsCurrent`. For
every id, request, policy and target: `GuardAdmitsTheExecutable` (prefix rules
against the table), `NothingIsTyped`, `DemoPlansPassTheGuard`,
`AskedAboutWhatIsFocused`, `ProductionVerifiesNothing`, `GeneratedIdsSurvive`,
`EntriesHoldKnownWords`, `VocabularySurvives`, `EveryInteractionEndsOnce` and
`GateRunsAsTheExecutor` (the gate's way round the executor's own entry point
leaves no frame out).

Three things in the modules are written the way they are for these proofs. The
rules of `classify_error` and of the resolvers' constructors are chains of `IF`
where `CASE` would leave the order to the prover. `Only`, `Merged` and `ToRead`
are explicit functions where the library's recursive operators on sequences
would need an induction over data, which no installed prover can apply. The few
places that need an induction over a number (the first provider of a chain that
has not refused) take the least element of the set of counterexamples instead.

## 6. Only model-checked, not modelled

Liveness (`EveryGateIsReported`, `EveryRunReturns`, `UnusedProcessStops`,
`EveryRequestAnswered`, `SpeechEnds`, `EveryFrameReached`, `EveryCallEnds`,
`CardIsReleased`, `ActionModeEnds`) rests on fairness and stays with TLC, which
TLAPS does not reach. So do two assumptions of `MCInteraction`, about what is
left of a sequence of children or addresses (an induction over data); its other
two are the theorems `EveryInteractionEndsOnce` and `GateRunsAsTheExecutor`.
Every other property of the passing runs, that is every invariant, action
property and refinement, is also a theorem.

Left out of the models: texts, payload fields no property tells apart, logging
and wire formats; the content of provider requests; the real length of
timeouts; memory ordering below the level of the locks and atomics used; power
loss (the code ignores the result of `fsync`); the fields of a configuration
that follow another one through every save and read. A poisoned mutex (a panic
inside a lock section) is not modelled: the code treats it as fatal (`expect`).
The selected target's slot is one assignment per operation. Whole parts not
modelled are listed with the reason in `PROJECT.json`: protocol types, panels
that show the last frame (audit, workflow, settings shell), window-system calls
whose effect the program cannot see, rendering, third-party tooling
(`ui/addons/godot_mcp`), empty placeholders (`adapters/`).

## 7. Plan

The order was: approval gate first (the one part whose failure would act on the
user's desktop), then the audit trail it reports to, the process runtime, the
stored settings and the handlers over them, the server and speech, the chains
and probes, the interaction vocabulary, and the UI at the other end. Next:

1. **Proofs**: `RestartRestores` of the speech settings for connections that
   write different axes.
2. **UI**: the avatar's talking state between the speech frames and its fallback
   timer, with the utterance bubble; the UI's copy of the selected target.
3. **Composition**: a gate's detailed steps (`ApprovalFlow`) under
   `DesktopSession`'s connection, if its state space allows.

## 8. Running it

    tlc -workers 2 -config ApprovalSafety.cfg MCApprovalFlow.tla
    tlapm ApprovalFlowProofs.tla

Each run's module and configuration are in `PROJECT.json`. The longest
(`ipc_server`, `llamafile`, `session`) take two to three minutes with two
workers. For every property `PROJECT.json` ("mutants") also names a plausible bug: an
operator such as `TakeSender_Keeps`, defined before the `TakeSender` it would
replace, under which TLC finds the property violated.
