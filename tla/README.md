# RTL Debugger: TLA+ models and proofs

This project models the core of the RTL Debugger extension for VS Code: the
connection to a CXXRTL simulation server, the session built on it, and the
parts of the user interface that keep state. `PROJECT.json` maps every
definition to the source lines it models, and lists runs, mutants, findings,
hazards and theorems.

## The system

| Part | State | Operations |
| --- | --- | --- |
| `NodeStreamLink` (`cxxrtl/link.ts`) | receive buffer, the stream's flowing mode, suspended activations of `onStreamData` | data and end events, `send`, `dispose` |
| `Connection` (`cxxrtl/client.ts`) | connection state, queue of promises, list of timestamps | `perform` (seven typed wrappers), `onLinkRecv`, `onLinkDone`, `rejectPromises` |
| `Session`, simulation (`debug/session.ts`) | simulation status, poll timer, time cursor, guessed time step | status query, run, pause, step forward and backward, cursor setter, event callback |
| `Session`, references and samples (with `model/sample.ts`) | reference epochs; handles and offsets of a reference | `add`, `bindReference`, `queryInterval`, `extract` |
| `Session`, hierarchy (with `model/scope.ts`, `variable.ts`) | item and scope caches, root scope | `getRootScope`, `getScopesIn`, `getVariablesIn`, `getVariable` |
| `Observer` (`debug/observer.ts`) | observables with values and callbacks, current reference, refresh in progress | `observe`, `invalidate`, `refresh`, `dispose` |
| `CXXRTLDebugger` (`debugger.ts`) | terminal, session, session status, simulation status | start, stop, socket callbacks |
| Sidebar (`ui/sidebar.ts`) | session, observer, root items; the tree VS Code shows | session handler, `getTreeItem`, `getChildren`, `getValue` |
| Status bar (`ui/status.ts`) | what it shows | update on every change |
| Watch list, options (`debug/watch.ts`, `debug/options.ts`) | a value in the configuration of VS Code | read, change, write back |
| `TimePoint` (`model/time.ts`) | femtoseconds | two text formats, arithmetic |

They interact by calls and promises. A command of the user calls the session,
which performs commands on the connection; replies settle promises in order
and continuations run as microtasks. The server's events call back into the
session, *inside* the packet loop of the link. Changes of status and cursor
are events to the observer, the sidebar and the status bar. Everything runs
in one thread: what is hard is not data races but what happens between an
`await` and its continuation, replies that carry no identification, timers
that outlive the field that records them, sockets whose events come after the
session they belonged to, and configuration updates that take effect later.

What makes each part correct:

- link: the text is cut into the right packets; the handler processes packets
  in order, pauses while it works, and goes on afterwards;
- connection: every command is settled exactly once, by its own reply or by a
  rejection, and nothing waits when the link is done;
- session: the status is followed for as long as it changes, the cursor stays
  within what is simulated, and steps move by one sample and end;
- observer: what is shown comes to be the value at the cursor;
- debugger: status, session, terminal, socket, sidebar and status bar agree, and
  the callbacks of an earlier socket do not touch a later session;
- hierarchy: the tree is that of the current session's design, and whatever VS
  Code asks for comes to an end;
- samples: every handle finds its own values, and nothing else;
- settings: what is added, removed or chosen is what the user asked for;
- time: texts denote the time they were made from.

## Modules

- **Framing**: the first half of `onStreamData`, from chunks to packets.
- **Connection**: the second half of it, the `Connection` class, the
  session's event callback and the server. One step is one run of JavaScript
  between two suspension points. `activation[h]` is one call of the async
  function `onStreamData`: the packets of its chunk still to process, and the
  command it waits for if it is suspended in the event callback. `unpushed`
  holds commands between the two halves of `perform` (client.ts:123-125). A
  reply carries in `re` the command it answers, which the protocol does not
  transmit; only history variables and properties read it. `overtaken` and
  `aborted` are history. The tracing functions are modelled because one of
  them throws and thereby decides what happens to a packet.
- **CommandQueue**: what the typed wrappers promise. `Connection` is mapped to
  it with `queue <- promises \o unpushed` and the answers read off the wire.
- **ConnectionProofs** (also about the refinement of `CommandQueue`),
  **SessionProofs**, **ObserverProofs**, **SidebarProofs** (also about `Debugger`),
  **SettingsProofs**, **FramingProofs** and **SamplesProofs** (also about `TimePoint`):
  the theorems. **RecursionProofs** has what the last two need about recursive
  functions and concatenation.
- **Session**: status, timers, cursor and steps. An async function that is
  suspended is represented by the command it waits for, `then` being its
  continuation. The module takes the connection to be an ordered channel, as
  `CommandQueue` promises and `conn_calm` checks for calm behaviours, and
  runs the continuation of a reply in one step, up to its next `await`. Timers
  have the same delay, so they fire in order; the model keeps the one that
  `simulationStatusTimeout` records and the number of those it has forgotten.
  The channel may cease: an event that is the first packet of its chunk holds the
  stream for good (`conn_pause_ends`). How packets fall into chunks is not a matter
  of this module, so that `OnEvent` chooses whether the event was the first, and once
  `held` is set nothing is received any more.
- **Observer**: the refresh loop, the epochs and references of the session it
  uses, and the tree items that show values. Samples are sequences read by
  position. `reference_items` is taken not to fail, as session.ts:155-157 says.
- **Debugger**: start attempts, each with its terminal, process, socket and
  session, the commands VS Code offers by a delayed copy of the status, and
  the handlers of sidebar and status bar. The 'close' event of a socket that
  failed or was destroyed comes in the same turn of the event loop, before any
  command or timer (`TurnOver`): without it an old 'close' could stop a new session.
- **Sidebar** extends `Debugger` and composes it with the hierarchy and the tree.
  Every step of the debugger is a step of it, joined with what it does to the
  tree. `tree.tasks` holds the calls of VS Code that have not returned
  (`getChildren` and `getTreeItem` of scopes, `getChildren` of the watch item),
  `tree.due` those it is about to make, `tree.results` what it shows. A call awaits
  its listings one after the other (`Listings`); how far it got need not be
  stored, as what it got is in the session's cache. VS Code reads the root items
  some time after it was told, so that scopes of a session that is over can still
  be expanded: they answer from the old session's cache, or never.
- **Settings**: watch list, options and display style in the configuration, and
  the subtree that shows them. `hasty` records the settings that were changed by
  a command before the user could see the change before it.
- **Samples**: references, their layout, queries and extraction. A query begins
  anywhere, as the cursor does, and the server answers with the sample in effect at
  the beginning (`At`) and those up to the end, like `SamplesIn` of `Session`. The
  server packs rows as the client expects them: chunks from the most
  significant one, rows from `first` to `last`, items in order. Chunks have
  `ChunkBits` bits instead of 32. There is one reference, so that the check of
  `Sample.extract` (sample.ts:187) has nothing to find; the checks of `bigintFromRaw`
  and `fromCXXRTL` are in the model, and no caller fails them.
- **TimePoint**: the text formats, for any number of digits and units (the code
  has groups of 3 digits and 6 units); operators only, used by `Samples`. `Power`,
  `Number`, `Filter` and, in `Framing`, `Split` are recursive functions where the
  library's `^`, folds and `SelectSeq` would do for TLC: the prover can unfold them.
- The **MC** modules extend these for TLC.

The server and the simulation are external: they are modelled from what the
client expects of them, and the map marks them so.

## Runs

Passing:

- `conn_safety` (2 commands, 1 event, 1 stray packet, versions 0 and 1, server
  exit, dispose): `NoOrphan`, `DisconnectedSettlesAll`, `CalmReplyMatches`,
  `ElapsedIsOwn`, `SettledInOrder`, `TypeOK`. Two commands are the least that
  can be mixed up; an event makes a third command and a second activation.
- `conn_calm` (2 commands, 1 event, versions 0 and 1, server exit, dispose):
  `ImplementsQueue` and `EveryCommandSettles` for the behaviours of
  `FairCalmSpec`, in which the server keeps to the protocol and no chunk
  overtakes another. `EveryCommandSettles` excepts behaviours with events, for
  the reason `conn_pause_ends` shows, and those with `dispose()`, after which
  commands that wait are never settled.
- `framing`: `Synchronized`, every text of up to 6 characters in every cut.
- `session_safety` (3 overlapping commands, 1 error, samples at 0, 2, 3):
  `CursorInRange`, `PollerAlive`, `NextIsNext`, `TypeOK`. The first gap makes the
  search look twice, so that the cursor can be moved between the two looks. `NextIsNext`
  also says when `nextSampleTime` may be undefined: while the constructor's query is
  under way, or after an error.
- `session_steps` (3 commands, each awaited by the user, samples at 0, 3, 4):
  `NoRangeError`, `StepIsAdjacent`, `StepTerminates`, `StatusConverges`. The step
  that finds the sample at 3 sees the one at 4 as well.
- `observer` (2 designations, 3 times of which two have equal values, 3 cursor
  movements, 1 failing query): `DisplayFresh`, `SingleQuery`,
  `ReferenceCurrent`, `TypeOK`, and `DisplayConverges` as long as no query fails.
- `sidebar` (2 attempts with different designs, 3 scopes expanded by the user, 1
  failing listing): `StatusAgrees`, `OneAttempt`, `ViewsFollow`, `TreeIsDesign`,
  `TreeFollows`, `StartResolves`, `TasksEnd`, `HierarchyAppears` (the root scope of
  every session is shown in the end), `TypeOK`. Two attempts are an earlier
  and a later one; the designs share a scope, so that what was cached for the
  first would be wrong in the second; one watched variable is in both, one in
  the first only. The server lists either all scopes or those from the scope
  asked for downwards.
- `settings` (2 stored items, one of them missing in the design, 2 more, 4
  commands, 2 radixes, 2 styles): `ListAsWanted`, `OptionsAsChosen` and
  `TreeConverges`; the last holds for every user.
- `samples` (every reference of up to 2 of the designations of a flag, a signal
  of two chunks and a memory of two rows of two chunks; 32 samples at times with
  groups at their limits, to 12 seconds; cursors at each of them and after each of
  them; 3 lengths of interval): `HandlesTile`, `ExtractsOwn`, `ShownIsValue`,
  `SamplesInInterval`, `ShownIsExact`.
  The offset of a handle depends only on those before it, so that two handles
  show every way in which one disturbs the next.

`CHECK_DEADLOCK FALSE` everywhere: users, servers and bounded sources of events
may all stop.

Each of the following finds what `PROJECT.json` lists under findings:

- `conn_reentry`: the data handler is re-entered, since the stream is resumed
  inside the loop;
- `conn_pause_ends`: an event that comes first in its chunk waits with the
  stream paused for a reply the stream has to deliver;
- `observer_recheck`: a failed query stops the observer for good.

### Limits of what holds

The passing properties are qualified where the code does not give more. Each
qualification stands for a behaviour of the code:

- `CalmReplyMatches` needs `Calm`: once a chunk overtakes the rest of an earlier
  one, a command may be settled by the reply to another one (client.ts:93);
- an error path leaves the stream paused (link.ts:94, 98) only if no packet
  before the bad one in the chunk has resumed it (link.ts:91);
- `ElapsedIsOwn` needs `Calm` as well: a response nobody asked for finds no timestamp,
  and `traceRecv` throws (client.ts:60), which the model has as an error path;
- `StepTerminates` and `StatusConverges` except a stream that an event holds (`held`):
  replies to the step's commands and status queries are then never delivered
  (link.ts:85, 90; session.ts:28). `DisplayConverges`, `TasksEnd`, `HierarchyAppears` and
  `TreeConverges` take replies to be delivered, and say nothing of such a session;
- `NextIsNext` excepts the initial status until its query is answered, and for good if
  it fails: a step forward then has no `nextSampleTime`, runs without an end time and
  throws (session.ts:297);
- `StepTerminates` is for a user who waits: moving the cursor to the latest time
  during a step makes its search endless (session.ts:306);
- `ListAsWanted` excepts hasty users: the index of an item that is shown may be
  stale, and another item is removed (sidebar.ts:255, watch.ts:31-35); in
  `OptionsAsChosen` a hasty user may lose all but the last choice (options.ts:20-25);
- `TreeFollows` is about sessions whose root scope arrived: if its listing fails,
  VS Code is not told of the session at all (sidebar.ts:284, 291);
- `TasksEnd` allows an error to end a call: one failing listing hides all watch
  items (sidebar.ts:229);
- `ShownIsValue` is about bits of variables whose `lsbAt` is 0: for others
  sidebar.ts:61 selects the wrong bits of the value;
- `ShownIsExact` allows a text to be rejected when typed: `fromString` removes
  separators that its expression does not let through (time.ts:74, 78);
- a command that continues after its input box uses `session!` (extension.ts:45,
  55, 58), which may be null by then; input boxes are not modelled.

### Bounds

Bounds are constants: commands, events, stray packets, errors, cursor
movements, attempts, expansions, clicks, handles. In `Samples` a reference is
queried once, since a query leaves nothing behind. Two more are not constants: the packets' `version` comes
from a small set, and `forwardTimeStep` is not doubled beyond `MaxTime`, where
it already covers every sample. Commands that events cause are not bounded by
`MaxCommands`, only by the number of events.

### Fairness

Microtasks, timers, data on a flowing stream and awaited callbacks happen
eventually: weak fairness on these actions is what the event loop guarantees. In
`Session` this goes for replies only as long as no event holds the stream: `Receives`
is not enabled once `held` is set.
The server is taken to answer, and the simulation to advance and stop; the
user, the server's events and its exit are never required. In `Debugger` a
connection attempt succeeds or fails and the socket of a process that is gone is
closed, as the operating system ensures. In `Observer`, `Sidebar` and `Settings` VS
Code reads again what it was told has changed, and updates of the configuration
take effect.

## Proofs

The theorems hold for every value of the constants that satisfies the module's
assumption. Every safety property of a passing run is a theorem. Each inductive invariant was checked by TLC, with the
constants of the runs, before it was proved.

**Connection**, under `ConnectionAssumption` (bounds are naturals, versions a
nonempty set of naturals, the switches Boolean):

- `TypeCorrect`: `Spec => []TypeOK`. `TypeOK` alone is not inductive: reading
  `wire[activation[h].next]` needs the packets of a chunk to be delivered ones.
  `ActivationOK` adds that.
- `NoCommandLost`, `DoneSettlesAll`, `SettlesInOrder` rest on `QueueInv`: the
  queue followed by the commands not pushed yet is exactly the interval after
  `Base` of the command numbers, and settled means at most `Base`. From the
  explicit form each step follows by arithmetic: `perform` extends the
  interval at its end, replies and rejections take from its beginning.
- `RepliesPaired`: `Spec => []CalmReplyMatches`. While calm, `WireInv` says what
  a correct server has written (the greeting first, replies in the order of
  commands without gaps), `OrderInv` that only one activation has packets left
  and that the commands answered so far are in the queue, and `PairingInv` that
  the replies processed are exactly those to the commands up to `Base`. A reply
  that is processed therefore answers the head of the queue. The proof needs
  that data is delivered only when no microtask is left: otherwise a reply could
  be processed before its command is pushed.
- `ElapsedMeasured`: `Spec => []ElapsedIsOwn`. After a greeting of an unknown version the
  connection stays initializing, and a reply then takes a timestamp off the list
  without settling a promise. The start of that list therefore needs an invariant
  of its own: `ElapsedInv` says that, while calm and initializing, the replies processed are
  those to the commands before it. In a connection that is up both lists start at
  the same command, and in one that is down nothing runs that could look at a packet.
- `RefinesQueue`: `CalmSpec => ImplementsQueue`. `WaitingInv` gives the explicit form
  of `promises \o unpushed`; with it `RefinesCall` shows that `perform` is a call of
  the abstract queue, `RefinesPush` that its second half is invisible,
  `RefinesAnswer` that what the server writes is an answer, `RefinesSettle` that
  a reply settles the head by its own answer (from `PairingInv`), and
  `RefinesReject` that `onLinkDone` rejects all that wait. `CalmSpec` is `Spec` with
  the condition that the next state is calm, since a re-entered data handler
  (`conn_reentry`) may settle a command by the reply to another one.

**Session**, under `SessionAssumption` (sample times are a finite set of naturals
with 0 and one more; bounds are naturals):

- `TypeCorrect`, `CursorStaysInRange`, `PollerNeverDies`, `NextAlwaysNext`, for users
  whose commands overlap in any way. The invariant adds to the properties that
  the latest times are ordered, from the cursor to the status the session has, to
  those on their way in the order in which they will arrive, to the
  simulation (`OrderInv`): without it a late status could move time back behind
  the cursor. `TellsNext` says that every status of a paused simulation has the
  next sample of *its* time, and `FirstPolled` that a session still in its
  initial status has a status query, or the reply to one, on the way, unless one failed.
- `NoRangeErrorWhenWaiting` and `StepsAreAdjacent` have the hypothesis `~Overlap`, which
  is that of the run `session_steps`: the user waits for each command. `StepInv`
  says that then at most one command of the user is under way, so that nothing
  has moved the cursor since a step looked at it. That a look ahead finds the
  neighbour is `RecordedSamples`, about what a server records between two times.

**Observer**, under `ObserverAssumption` (0 is a time, bounds are naturals):

- `TypeCorrect`, `OneQueryAtATime`, `DisplayStaysFresh`, `ReferenceAlwaysCurrent`. The
  central part is `AwaitInv`: requests and replies hold exactly what `refresh()`
  awaits, one binding, query or sample of one reference at one time, and unless
  `refreshNeeded` is set, that time is the cursor and that reference the current one.
  `ShownInv` says that a displayed value is current, or its callback is due.

**Settings**, under `SettingsAssumption`:

- `ListStaysAsWanted`, `OptionsStayAsChosen`. Both are about the configuration once
  updates have taken effect; the invariant is about what it will be: `Upcoming`
  of a setting is the value of its last update, or the stored one. Lists have
  no item twice, so that removing by index removes one item (`RemoveOne`).

**Debugger**, under `DebuggerAssumption` (the bound on attempts is a natural):

- `StatusAlwaysAgrees`, `NoLateCallbacks`, `ViewsAlwaysFollow`: `Spec` implies that
  `StatusAgrees`, `OneAttempt` and `ViewsFollow` always hold. None is inductive by
  itself. `AttemptInv` says where the latest attempt stands: there is a terminal
  exactly while it is under way and a session exactly while it is connected.
  It also says that the stop command is not offered while a session starts:
  VS Code may lag behind the status, but a start is offered only once it has seen
  "absent". A stop at that point would leave the timer of an attempt without
  terminal, which is why the stop command needs it. `TypeCorrect` follows as well.

**Sidebar**, under `SidebarAssumption` (names are sequences, every design has a root
scope, which is no item and is not watched) and `DebuggerAssumption`:

- `SidebarRunsDebugger`: `SidebarSpec => Spec`. Every step of the composition is a
  step of the debugger or leaves it alone, so that the theorems about `Debugger` are
  theorems about what the `sidebar` run explores.
- `TreeAlwaysFollows`, `TreeShowsDesign`. `SidebarInv` relates four things: what a
  session's cache holds is what its design has (`CacheInv`, for all sessions, those
  that are over too); a request of the tree is to the session whose scopes the
  tree shows (`RequestInv`), so that a late listing is stored where it belongs; root
  items are of the session there is (`FollowInv`); results are what the design
  has (`ResultInv`). That filtering what the server lists leaves the same, whether
  it lists all scopes or those below one, is `ListingIsTrue`.

**Framing**, under `FramingAssumption` (the terminator is not a character of a packet,
as a JSON text has no NUL):

- `AlwaysSynchronized`: `Spec => []Synchronized`. The invariant `FramingInv` is the
  property with packets and fragments typed as texts without terminators. What
  it needs is `SplitIsWhole`: the pieces of a chunk have no terminator, and the
  chunk is all of them, each but the last one terminated (`Whole`). `FragmentStep` is
  a chunk without a terminator, `PacketStep` one with some; both are then a
  matter of moving brackets in concatenations.

**Samples** and **TimePoint**, under `SamplesAssumption` (variables have positive widths and
depths; the first sample is at time 0 and times increase; cursors are naturals; a
waveform has a natural number for every row) and `TimePointAssumption` (at least one digit in
a group and at least two units: with one unit there would be no digits behind the
point):

- `AlwaysTiled`, `AlwaysExtractsOwn`, `AlwaysShownIsValue` (the bits of the tree only for
  variables whose bits are numbered from 0), `AlwaysInInterval`, `AlwaysExact`. `SamplesInv` says that the handles are laid out
  one after the other from 0 on (`Layout`), that a frozen reference is bound to the
  designations of its handles, and that the samples are those of the interval, each the
  concatenation of what the designations hold (`Answers`). `AtIsLast` says that one sample
  is in effect at every time, the last one up to then; with `TimesAt` it gives the
  samples of an interval by their numbers, wherever it begins.
- Below it are facts about the operators. `DivDiv` and `ModMod` take quotients and
  remainders by a product apart; `ChunksMakeRow` uses them to show that the client
  puts together from the chunks of a row the row that the server took apart, and
  `BitOf` that a mask leaves the bits below it alone. `NumberDecimal` and `DecimalFits`
  say that what is written in decimal is read as the same number and has the width it
  is padded to, `TimeText` that a time therefore survives the protocol, where the
  server reads a fraction and the client two numbers, and `GroupedReads` and
  `ShownTime` the same for groups and units.

**Recursion.** What a recursive function computes for every input is shown with a set
in place of a predicate: `Induction` says that a set with 0 and all successors has all
naturals (else a least one would be missing), `Recursion` and `FiniteRecursion` that the
function which a definition chooses exists. From these come the equations of
`FlattenSeq` of the library (`FlattenEquations`), `Split`, `Power`, `Number` and `Filter`,
and from the equations what they do to concatenations. `FlattenAt` says where in a
concatenation each part lies; the layout of a reference rests on it.

### Only model-checked

- Liveness (`EveryCommandSettles`, `StepTerminates`, `StatusConverges`,
  `DisplayConverges`, `StartResolves`, `TasksEnd`, `HierarchyAppears`, `TreeConverges`):
  fairness is beyond the prover.
- What the three runs that expect a violation show.

## Not modelled

Presentation (labels, icons, tooltips, the texts of `styling.ts` and
`source.ts`), input boxes, `MockLink`, which nothing uses, and attributes and
diagnostics in `proto.ts`, which the client never reads. The contents of the
greeting are only stored. In `Session`, continuations of two replies in the same
chunk are not interleaved at the granularity of microtasks. Memories that do not
start at row 0 are left out: the tree numbers their rows from `zeroAt`
(styling.ts:65), `designation()` from 0 (variable.ts:77), and what the server
expects cannot be read from the code.

## Plan

Done: all modules; proofs of every safety property and of the refinement of
`CommandQueue`. What could follow is the composition of `Session` over
`CommandQueue`, and of `Observer` over `Session`, in place of the ideal channels.
