# A verification of sony-buds-tray-control

The program is a tray application that controls Sony headphones over Bluetooth.
This directory holds TLA+ models of its parts, from the bytes on the connection
to the menu of the tray, two abstract specifications they implement, TLC
configurations that check them on small instances, and proofs that TLAPS checks
for every value of the constants. Paths below are those of the repository (`src/src/...`).

    tlc -workers 2 -config session_echo.cfg MCSession     # model-check
    tlapm SessionProofs.tla                               # check proofs

`PROJECT.json` ties every modelled definition to the lines it stands for, lists
the runs with their properties, a mutation of the code for every property (each
mutation is an operator marked `mutant` beside the definition it replaces), the
findings, the hazards and the theorems.

## 1. The system

| component | state | operations | interacts with |
|---|---|---|---|
| protocol engine (`device/engine.rs`) | the task (steps, wait, deadline, last command, retries), `tx_seq`, send and receive buffer | `request_init/sync/commit`, `poll`, `advance_task`, `advance_on`, `check_deadline`, frame handlers | polled by the app core once per tick; owns the transport |
| device state (`device/state.rs`) | `Prop {desired, current}` per setting, support tables, capabilities | `overwrite` (a report), `commit` (an ACK), `dirty`, clamps | written by the engine and by user commands |
| app core (`app.rs`) | `ConnState`, engine, `connected_mac`, cached device list, config, auto-connect and reconnect flags, `menu_dirty` | `apply_command`, `tick`, `teardown`, `arm_reconnect`, `snapshot` | driven by the event loop; drives the engine, the lister and the transport factory |
| event loop (`main.rs`) | the command channel, the published snapshot | `select!` of command and 100 ms ticker, publish | tray task on the other side of the channel |
| tray (`tray.rs`) | the snapshot read last; the host's cached menu | notifies the host, renders the menu, sends commands | reads the snapshot, which may be older than the app; the host's menu may be older still |
| settings file (`config.rs`) | `auto_connect`, `last_device` | load, save | app core |
| transports (`transport/*.rs`) | a pipe or socket, a byte that was peeked, a notification task | connect, `poll_read`, `recv`, `send` | engine |
| framing and payloads (`protocol/*.rs`) | none | pack, unpack, (de)serialise | engine |
| headphones (not in the repository) | values, advertised functions, last sequence number | ACK, answer, notify | the other end of the transport |

What is hard here:

* **An interrupted state machine.** The engine's tasks progress one frame per
  `poll`, and between two ticks the user edits the very properties a commit in
  progress is about to confirm. A report may cross either of them.
* **Stop-and-wait without matching.** Any ACK ends the wait for an ACK; one wait
  serves both support tables; a timeout repeats the last command under a *fresh*
  alternating number, which repairs the alternation and defeats the receiver's
  duplicate suppression.
* **Order of arrival as identity.** Capabilities are pushed; the menu addresses
  them by position.
* **Lifecycle flags.** Connecting, reconnecting, auto-connecting and cancelling
  are spread over `apply_command`, `tick`, `teardown` and `arm_reconnect`, with
  commands that were clicked on an old menu arriving at any tick.
* **Four tables that must fit.** Which setting the menu offers, which one
  `is_dirty` looks at, which one a commit writes and under which function, which
  ones its ACK confirms and which ones are ever read, are lists in four places.
* **Bytes in pieces.** A frame arrives in any number of pieces or with a hole; a
  readiness check consumes a byte; a write may be taken in part; a wake-up may
  find nobody waiting.
* **Two vocabularies.** Some fifty messages with a layout each, two conventions for
  on and off, and enumerators a newer headphone has and the app does not; and a
  write of one setting carries its neighbours through all of it and back.
* **A second cache.** The host keeps the menu it fetched last, and hears of a
  newer one only by a comparison that the tray makes every 200 ms.

What makes each part correct: *engine* — every task ends; conditional steps are
resolved with the tables they ask about; a key runs once; both ends agree when
nothing is under way; the alternation never makes the headphones drop a new
command. *App core* — an engine exactly when connected (`tick` and `snapshot`
call `expect`), a reconnect that goes back to the device that was lost, none
against the user's will, a tray that shows the current state, commands that are
served unless a scan or a poll hangs; it attaches unasked only at startup and while it waits for a lost link.
*Settings* — a commit leaves nothing dirty, a write harms no other field, what is
shown is what the headphones have. *Framing and transports* — the engine hears
frames in order, once, and none that was not sent; a loss costs the frames it hits
and the one behind; ACKs leave complete. *Payloads* — what is shown is what the
headphones mean; a message that is cut short changes nothing; a write leaves the
settings next to the edited one as they were, those without a name included. *Tray* — the host gets to show what was
published.

## 2. Modules

    Engine ── Session ── MCSession                    Lifecycle  (abstract)
                  └── SessionProofs                       ▲
                        └── SessionLossProofs         AppCore ── MCAppCore
                              └── SessionWaitProofs       └── AppCoreProofs
                                    └── SessionTaskProofs
                                                      Settings ── MCSettings
    Framing ── Stream ── MCStream                         └── SettingsProofs
                  │ └── StreamProofs
                  ▼                                   Payloads ── Exchange ── MCExchange
               FrameLink (abstract) ── FrameLinkProofs

**`Engine`** is `device/engine.rs`: state, step and task builders, and `poll` with
one action per numbered stage (1 deadline: `DeadlineOpen`, `Retransmit`,
`GiveUp`; 2 `FlushSendBuf`; 3 `ReadFrames`; both failing: `TransportError`;
4 one frame: `NoFrame`, `HandleAck`, `HandleProtocolInfo`,
`HandleSupportFunction`, `HandleCapability`, `HandleParam`, `HandlePairedList`;
5 `StepCompleted`). `pc` names the stage that runs next, because `poll` awaits
between them. `Advanced` is `advance_task`, `AdvanceOn` is `advance_on` with the
`step_completed` it ends in, `Emit` is the collecting loop `poll_engine`.

**`Session`** composes it with one pair of headphones, with the part of `tick`
that starts syncs and commits and tears down, with the user's edits and with a
connection that loses frames and breaks. `Timeout` is `STEP_TIMEOUT` elapsing:
when nothing is under way any more, or, at most `MaxLate` times, prematurely.

**`Settings`** is the other view of the engine: every setting by name, and the
engine reduced to a queue of writes and queries over a connection that loses
nothing. Its tables are those of the code — `Members` is `PropCommit::apply`,
`WriteOrder`, `Needs`, `WrittenVariant` and `Carried` are `build_commit_steps`,
`QueriedVariant` is `Step::NcAsmQuery`, `ReadAtInit` is `build_init_steps`,
`ReportOf` and `Overwritten` are the handlers of reports, the `Offered*`
operators are the builders of the menu — and its actions are the commands
(`SetField`, `PowerDown`, `Nudge`, `SetAmbientMode`, `CycleAmbientMode`,
`MultipointCommand`, `RefreshSync`), the tasks (`StartCommit`, `PeriodicSync`,
`SendStep`, `TaskDone`) and the four kinds of answers.

**`Framing`** is `protocol/packet.rs` and the cut that `process_frame` makes, as
operators on sequences of bytes. **`Stream`** puts it under `poll`: one action per
await of `flush_send_buf`, `poll_read` and `recv_into_buffer`, for the mock pipe,
the RFCOMM socket with the byte it peeks, and the GATT transport with its
notification task. **`FrameLink`** is what all of that promises: an engine that
hears frames of a script, in its order.

**`Payloads`** is what is inside the frames: the enumerations, the layout of every
message as a sequence of kinds of fields (`Messages`), the dispatch (`HandlersOf`),
the writer and the reader that is spoilt by the first byte that is missing.
**`Exchange`** takes a value around: the headphones `Report`, the engine adopts it
in its own terms (`Receive`, with `Adopted`), the user may `Edit` it, `Commit` writes
it with its neighbours (`Written`), the headphones take it. `Fixed` are the bytes
the code writes without having kept what it read there.

**`AppCore`** is the lifecycle of `app.rs` inside the loop of `main.rs`: `pc` is
the place in the loop body, `queue` the command channel, `shown` the published
snapshot; and the loop of `tray.rs`: `seen` is its `last`, `rendered` what the host
has fetched and the user clicks on (`Offered` is what `build_menu` offers for it).
**`Lifecycle`** is its promise to the user, without loop, scans, queue and tray:
six variables, one of them what the file keeps, and eight actions.

How code maps to state:

| code | model |
|---|---|
| `Properties` | Session: `props` (one `[desired, current]` per setting), `key` (`play_control`); Settings: `props` by field, `request` (`multipoint_request`) |
| `DeviceState::support`, `has_table1/2` | `support`, `fns`: a set of functions, `"Table2"` one of them |
| `gs_capabilities` | `caps` |
| `multipoint_devices`, `multipoint_playback` | `mp.list`, `mp.playback` |
| `Task`, `None` | `task`, `task.running = FALSE`; in Settings `task`, `steps`, `waiting` |
| `Step::If*` | `If(function, steps)`; a step the builder leaves out is an `If` that never opens (`NoStep`) |
| events collected by `poll_engine` | `batch` counts them, `pending` keeps the two the app acts on |
| `send_buf`, `recv_buf`, `ClassicTransport::peek`, `Pipe::buf` | `sendBuf`, `recvBuf`, `held`, `pipe` |
| `engine: Option<Engine>` | `link # "none"` in Session, `engine` in AppCore |
| `Instant` deadlines | `deadline` none/running/passed, `due` |
| `Config` in memory, on disk | `config`, `disk` |

### Abstractions

* Session's settings are of two kinds: `Plain` ones every device has, and
  `General` ones, each behind its own table-1 function, with capability and
  position. What the other groups add is in Settings. A battery, codec or model
  query is a command whose answer touches no setting, as `GetPairedList` is there
  and `Query("battery")` in Settings.
* In Session a frame is whole and decodable, and the transport takes the whole
  send buffer or fails; pieces and holes are in Stream. The number of incoming
  data and the engine's own ACKs matter to nobody there and are dropped.
* In Settings a value is 0 or 1, but for volume, level and guidance volume, which
  keep their ranges; clear bass is one with the bands. Nothing is lost and nothing
  times out, so that what is wrong there is wrong without any fault.
* A scan that succeeds lists every known device; those that are connected are
  what it tells. `SetTransport` is read by the transport factory only.
* A save truncates the file, then writes it, and ignores the errors of both
  (`Save`): a failure leaves the old file or an empty one, which `load_from` takes
  for the defaults, while the app goes on with the new settings; a kill in between
  leaves an empty one. `Quit` and ctrl-c end the
  process; `Restart` is a kill at any moment and the next start.
* The periodic sync is due at any idle tick: 120 s is a bound on how seldom, not
  on what it does.

### The headphones

They are external, modelled from what the engine's comments and tests say: a data
frame is ACKed first and answered afterwards; a frame whose number repeats that
of the last one taken is dropped silently, without an ACK (`send_command`, lines
564-569); a change made on the headphones is notified; a preset may be refused
and its bands follow it (`eq_presets`); a connected device has a slot from 1, a
list gives every paired one. Whether they also notify a value the app has just set
is not known: `Echo` chooses, and the simulated device of the tests does not. In
Settings they do not.

## 3. Runs

| run | question | properties |
|---|---|---|
| `session_echo` | Is the picture complete after the handshake, is the settings menu in order, with answers lost too, and do both ends agree at rest? | `SupportComplete`, `CapabilityPerSetting`, `QuietAgreement` |
| `session_loss` | What do retransmissions guarantee of a key and of a single loss, and is a task ever stuck? | `TypeOK`, `TaskCanProceed`, `KeyExactlyOnce`, `KeyNotSkipped`, `OneLossIsSurvived`, `DropsNeedLosses`, `StopAndWait` |
| `session_live` | Does every task end, do both ends converge? | `TaskEnds`, `Converges` |
| `settings` | Do the tables of menu, commit, ACK and reports fit together? | `TypeOK`, `CommitSettles`, `ShownIsReal`, `NoCollateral`, `WireInRange`, `PlaybackIsReal`, `BatteryRefreshed` |
| `stream` | Does the engine hear the frames, whatever the pieces, and do its ACKs leave? | `TypeOK`, `AcksInOrder`, `LossIsBounded`, `LinkSpec` (refines FrameLink), `AllArrive` |
| `exchange` | Does a value survive the way to the menu and back, next to an edited one, with bytes missing or unknown? | `ShownAsMeant`, `ShotsAreMeant`, `SiblingsKept`, `UnknownStaysUnknown`, `ShortIsIgnored` |
| `app_lifecycle` | Are the lifecycle flags consistent whatever is clicked when? | `TypeOK`, `EngineIffConnected`, `TargetIsRemembered`, `ArmedMeansWaiting`, `ShownIsCurrent`, `StaysDisconnected`, `LifecycleKept` (refines Lifecycle) |
| `app_live` | Does a lost link come back, can anything but a scan or a poll that hangs leave the tray at "Connecting" or a command unserved, does the host catch up? | `LinkComesBack`, `OnlyHangsBlock`, `TrayCatchesUp` |

Four more runs end in a counterexample: the program does something its own
comments or documentation exclude.

| run | what happens |
|---|---|
| `lost_update` | Volume is set to *a*; the command is sent; the user sets *b*; the ACK of *a* arrives and `advance_on` marks **b** as current. Nothing is dirty, *b* is never sent. With headphones that report the value they took (`session_echo`) the report repairs the picture — by overwriting the user's *b*. |
| `stale_support` | One premature timeout, between the ACK of the table-1 request and the table: it is asked for again, and the second answer ends the wait for table 2, and the multipoint steps are skipped. |
| `general_position` | Headphones with general setting 2 and no setting 1: the only item of the menu has index 0 and makes setting 1 dirty, which no commit writes. Every tick starts a commit of no steps, and the battery is never asked for again. |
| `recv_blocks` | One byte is left in the socket: `poll_read` takes it, `recv` waits for the next without a limit, and with it the whole event loop. |

`ShownIsReal`, `NoCollateral` and `PlaybackIsReal` say precisely when the code is
right, and so name what it does not promise: `past.astray` are the fields where an
edit or a report has crossed a write (the report of an older value may then win),
`past.relinked` that devices came or went since the list was asked for, and a
level of 0, which is not adopted, stays unknown. `TrayCatchesUp` excepts one
schedule (`Missed`): the tray reads snapshot *A*; before it notifies the host the
loop publishes *B*; the host fetches *B*; the loop publishes *A* again. The tray
compares *A* with the *A* it read, and the host shows *B* until something else
changes. A connect that fails at once after an error goes through just these
snapshots.

### Bounds

* Session: one or two values, and one setting, but for `session_echo`, whose two
  general settings come both, or either alone, so that a setting has the other
  behind it, in front of it or missing. `CapabilityPerSetting` says for each of these
  what the menu is; that entry *i* sets what it names it claims only where no setting
  is missing in front, for `general_position` shows the contrary. `MaxRetries = 3` is the code's value. `BatchLimit` is 2 where the code
  has 8, so that the limit is reached in the middle of a task rather than never.
  `MaxEdits = 2` is the least that puts an edit inside the commit of another;
  `MaxChanges = 1` crosses it. `MaxLost = 2`, `MaxMissed = 1` allow a lost command
  whose repeat is dropped for its number and lost again; `OneLossIsSurvived` is
  tight there; one of each in `session_echo` lets a question be repeated for either
  reason, or for both. `MaxLate = 1` is the least at which an original and its repeat
  are both answered. `MaxBreaks = 1` allows one new
  connection with the state of the old. `Advertised` covers headphones without
  table 2, with it, with and without the multipoint list.
* Settings: two commands and one change are the least at which an edit, a commit
  under way and a report meet. `Focuses` splits the 33 fields into behaviours that
  touch a few of different groups, since only fields of a group, or of one report,
  meet in a payload. The four sets of functions are a model with nearly all of
  them, one with the other NC/ASM variant, one with a seamless level only, one
  with nothing; the headphones start with the app's defaults, with other values,
  and with those and a level of 0.
* Stream: three frames of both tables and an ACK, whose payloads and checksums
  hold all three bytes that are escaped; pieces of 3 and 10 bytes cut frames and
  join them; `Chunk = 4` for 512 makes every ACK take several writes; one loss
  of a piece, one write that fails.
* Exchange: each of the 47 layouts is a behaviour of its own, for the messages do
  not share a field. Every field takes its least and greatest named value and one
  without a name, lists are empty or hold one or two entries, texts are empty or
  not, addresses padded or not; a report ends at any byte. Two changes and one edit
  give reports before and after a write.
* `app_lifecycle`: two clicks on menus that may be out of date; two
  interchangeable headphones (symmetry) let a reconnect go to the wrong one; two
  drops, so that a second one falls into the reconnect after the first, and one
  restart at any step. Nothing limits the scans, attempts and saves that fail. The
  headphones are there or not from the start (`MaxMoves = 0`): what moves change is
  whether a scan sees them, and a scan that fails does that too. `app_live` has one
  headphone, one click, two moves (away and back), one drop and no restart, without
  symmetry.

Deadlock is checked in every run but those of Stream, where a closed link is the
end.

### Fairness

`Session!FairSpec`: the ticker fires for ever (`tokio::time::interval`), so the
stages of `poll` and the tick are weakly fair; time passes, so is `Timeout`; and
the headphones process what reaches them. No user action, loss, change or break is
ever required to happen, nor a new connection: the app makes one by itself only
while its reconnect is armed, which is `AppCore`'s matter, and never after the
user's own `Disconnect`. `Converges` therefore speaks of sessions that do not end
without a connection.

`Settings!FairSpec`: the same loop, and headphones that answer. `Stream!FairSpec`:
the loop, the timeout of `poll_read`, the subscription, and the delivery of what
has been sent; `Recv` is weakly fair within `Poll`, but not enabled while there is
nothing to read, which is `recv_blocks`.

`AppCore!FairSpec`: only what the code bounds. Weakly fair are the stages without an
await (`WithoutWaiting`), the tray's loop, time, and `ConnectFails`, which is
`CONNECT_TIMEOUT` (`app.rs:548`); the factory in front of it (`app.rs:543`) only
constructs a transport. A scan (`app.rs:505`, in a refresh and in the reconnect) and
a poll of the engine have no timeout, and `recv_blocks` shows a poll that does not
return: for them *no* fairness is assumed, and they may hang. Taking a command is
*strongly* fair: `select!` picks among ready branches at random, and the command
branch competes with a ticker that is ready over and over.

`OnlyHangsBlock` then says what a hang can do and what nothing else can: unless a scan
or a poll never ends (`Hung`), no command stays in the queue and the tray does not
stay at "Connecting", which is what the comment at `app.rs:546` promises of a hung
transport. `LinkComesBack` has that exception too, and an assumption of its own,
`Lucky`: scans that are repeated for ever do not fail for ever, nor do attempts while
the headphones are there. Without it the property would be false, and rightly.

## 4. Refinement

`AppCore!LifecycleKept` maps the connection state, the target, the remembered
device, the wish and the file to Lifecycle's variables, and `reconnect` and
`auto_connect_done` to the one that matters to the user, `may`: the app may attach
unasked *once* at startup, while it is *waiting* for a lost link, or not. Every
step of the loop is then a step of Lifecycle or a stutter. A change of the settings
is saved, or fails to be, unnoticed: then older ones are kept, or none. A kill is
`Begin`, which remembers what was kept or, in the middle of a save, nothing. TLC checks it in
`app_lifecycle`, `AppCoreProofs` proves it.

`Stream!LinkSpec` maps the frames handled to `heard` of FrameLink and the frames
that lost bytes to `hurt`. That it holds is not only a matter of the checksum: a
byte lost between peek and `recv`, or a cut at the wrong marker, shows here.
`StreamProofs!LinkRefined` proves it for any script of different frames as long as
nothing is lost once the notifications are subscribed to (`MaxLost = 0`; what comes
before the subscription is lost in any case). Beyond that it is not universal: an
8-bit sum lets one in 256 spoiled frames pass, and only TLC speaks, of the scripts
of `stream`, where a piece is lost anywhere.

## 5. Proofs

Every theorem holds for all values of the constants that satisfy the `ASSUME`s;
where it has a hypothesis of its own, that is named here, with the reason.

### The session (any settings, orders, values, bounds, kinds of headphones)

| module | theorem | states |
|---|---|---|
| `SessionProofs` | `TypeCorrect`, `TasksProceed` | `TypeOK`, `TaskCanProceed` |
| `SessionLossProofs` | `DropsArePaid` | `DropsNeedLosses` |
| `SessionWaitProofs` | `OneCommandAtATime` | `StopAndWait` |
| `SessionTaskProofs` | `KeysNotSkipped`, `KeysOnce` | `KeyNotSkipped`, `KeyExactlyOnce` |
| `SessionTaskProofs` | `SupportIsComplete` | `SupportComplete`, unless an answer was late |
| `SessionTaskProofs` | `LossSurvived` | `OneLossIsSurvived`, if `MaxRetries >= 2` (the code has 3) |
| `SessionTaskProofs` | `RestAgrees` | `QuietAgreement`, if `Echo` |
| `SessionTaskProofs` | `MenuInOrder` | `CapabilityPerSetting`, while no answer is lost |

The invariant of `SessionProofs` is `EngineTypes /\ WireTypes /\ DeviceTypes /\
TaskInv /\ BatchInv`. Neither goal is inductive alone: a frame advances a task only
while something is awaited, so `TaskInv` adds that a task that is *not* running
awaits nothing and has no deadline (else an ACK would advance a finished task by
`Tail(<<>>)`), and `BatchInv` bounds the events of a tick that is still polling.
The heart is `Advanced`: resolving the conditional steps at the front of a queue
that ends in its only `Done` leaves such a queue, with something awaited unless
it is down to the `Done`. For this the module proves lemmas about `Unfold` (the
least opened index exists by well-foundedness of `<`), about concatenation and
tails, and about the three builders.

The three modules behind it speak about the frames in flight, each with the
invariant of the one before:

* `LineInv` (losses). Two commands in a row with the same number, the one taken last
  and the one sent next included, are a drop to come. `Paid` charges each of them to
  a loss: there is a bill, growing along the line from the drops so far to the losses
  so far, that grows at every such place. A lost frame leaves room for one more entry,
  a retransmission under the next number needs none.
* `WaitInv` (stop and wait). Until an answer is late, at most one command is under
  way, or its ACK and the table it asked for behind it, and it is what the running
  task waits for. Without the hypothesis an original and its repeat are both answered,
  and the second ACK passes for that of the next command.
* `KeyInv` counts keys: what was built has run but for the one that is due — still
  among the steps, and not with only its ACK under way. `SupportInv` says that a table
  that is not known is still to be asked for, or asked for and awaited, and that the
  tables under way are true. Both rest on `WaitInv`: that no answer was late
  (`spent.late = 0`) is part of `KeyNotSkipped` and `KeyExactlyOnce`, and the
  hypothesis of `SupportIsComplete`, which `stale_support` shows to be needed.
* `LossInv` (one loss) says how many retries a waiting task can have used while at
  most one thing has gone wrong. Before that it is `Coming`: the command is on its
  way, or its ACK, or what it asked for, so that only a late answer lets the deadline
  pass. After it a first repeat may be dropped for its number, and `dropped <=
  spent.lost` of `LineInv` says that no second one is: the retries are one more than
  the drops at most, and no more than the drops once the deadline has passed or
  nothing is coming. That leaves one of two retries. The heart is that what ends a
  wait is under way again whenever a wait begins (`AdvancedRenewed`, `Served`).
* `ValueInv` (agreement at rest) says of every setting the headphones have: the last
  report of it under way tells its value (`Heard`), and if there is none, it is shown
  as it is, or the task in progress still reads it (`Accounted`). An ACK makes a
  written value the current one, which the report behind it (`Answered`) confirms or
  corrects. That the init handshake skips no setting needs `SupportInv`: it comes to
  no condition on a setting before the table is known (`NothingSkipped`).
  What it supposes is needed: `lost_update` shows it for `Echo`, and where the
  property says that no answer was lost or late, it would fail without: a report that
  is lost, or passed over because a left-over ACK stood for that of a lost command, is
  asked for only by the next connection.
* `CapInv` (one menu entry for each setting, in their order) has an order to keep over three places:
  the capabilities that came, those under way (`Listed`), and what the task still asks
  for (`Wanted`), none of it in front of what has come (`Catalogue`), nothing twice and
  nothing missing. The init handshake starts with its questions in order, each in front
  of the read of its value (`InTurn`), which resolving the conditions keeps
  (`UnfoldCaps`); that no other task asks for a capability is `Mute`. `Prompt` says that
  a capability is behind the ACK of its question or in front of that of the next one, so
  that no second one is on its way; that is where the read between two questions is
  needed. `EntryByPlace` goes on to positions: entries in their order, one for each
  setting, are those of `GeneralOrder` if no setting is missing in front. An answer
  that is lost is outside the proof (a question is repeated and answered twice, or its
  answer never comes); what it costs at most is checked in `session_echo`. A question
  that is lost itself does no harm.

### The settings (any headphones, devices, values and reports)

| theorem | states |
|---|---|
| `TypeCorrect`, `SentInRange` | `TypeOK`, `WireInRange` |
| `CommitsSettle` | `CommitSettles`, if `NoGap` |
| `PlaybackStaysReal` | `PlaybackIsReal` |
| `MenuShowsReal` | `ShownIsReal`, if `QueriedIsWritten` |
| `WritesSpareOwn` | `NoCollateral`, if `WrittenIsRead` |

`TInv` is `TypeOK` with what keeps it: a write carries what its group carries, in
range, reports are in the ranges of the headphones, and a step that was sent has its
one ACK under way. The range of a *write* follows from those of the properties, which
hold only because a reported level of 0 is not adopted and every nudge is clamped.

`SettleInv` says that a dirty field belongs to a group that is written, and that
during a commit each one was edited since or has its write ahead, queued or waiting
for its ACK. It needs the four tables to fit. `NoGap` — the general settings the menu
offers by their positions are among those advertised — is what the numbering by place
relies on; `general_position` shows that it is not idle.

The other three compare the app with the headphones across a queue of reports. The
last report of a field in that queue (`LastIs`; `NoneOf` if there is none) is what
the app will show when it is worked off, so the invariants speak of it and of what
is still to be asked for:

* `PlaybackStaysReal`, by `Playing` and `Marked`: some connected device plays; and,
  unless links have changed since the list was asked for, the last list on its way,
  or the one at hand, is the one the headphones would send now, and the last message
  that names a device, or the mark, names the one that plays.
* `MenuShowsReal`, by five parts. `Truthful`: the last report of a field tells its
  value. `Meant`: a write ahead carries the values desired. `Uncrossed`: no report of
  what a write carries is in front of its ACK. `EqAsked`: a write of the equalizer has
  its query behind it. `Shown`: with nothing of it on its way nor to be asked for, a
  field is in the headphones as the write under way has it, or as the app has it. All
  but for the fields in `astray`; and `BandsClean`: the bands are never dirty.
* `WritesSpareOwn`, by `OwnInv`: a value the owner has set and nobody edited
  (`past.own`) is clean, is the one in the headphones, is the one the app has unless
  a report of it is on its way, and every write ahead that carries it carries that
  value. The bands need a part of their own: they go with the preset. Its proof did
  not go through at first, and rightly: a change on the headphones that hits a setting
  with an edit pending moves the bands that follow it as well, and `own` had kept
  them (`DeviceChanges`).

`QueriedIsWritten` (every noise-control field a query reads is one a write
carries) and `WrittenIsRead` (every one a write carries, of those that exist, is one
the query reads) are about headphones that advertise several NC/ASM variants: the code
queries in one order of precedence and writes in another. One variant, as headphones
have, satisfies both, and so do all four of `settings`. They are needed: with
`{{"DualNc", "AsmSeamless"}}` for `Advertised` TLC finds `ShownIsReal` violated, with
`{{"DualNc", "DualNcNa"}}` `NoCollateral`.

### The bytes (any scripts, pieces, chunks and losses)

`StreamProofs` proves:

* `PackUnpack`: for every frame, `Pack` gives bytes with a marker at each end and none
  between, and `UnpackFull` gives the frame back. Behind it: `EscapedComesBack`
  (unescaping what was escaped), `ChecksumIsByte`, and the layout of the content
  (`Contents`).
* `TypeCorrect` (`TypeOK`) and `AcksLeaveInOrder` (`AcksInOrder`), from `TInv`.
* `LossCostsLittle` (`LossIsBounded`), with any losses. `LossInv` says of every frame
  that has begun to arrive, and neither lost a byte nor is behind one that did, that
  it was handled or is `Intact` in what waits: its bytes so far are there, at an end
  marker or at the front, so that no start marker in front of it can claim them.
  What `process_frame` drops or cuts off then lies in front of the frame or is the
  frame (`IntactCut`).
* `LinkRefined`: `Spec => LinkSpec` if `MaxLost = 0` and the frames of a script
  differ. `LinkInv` says where in the script the waiting bytes begin (`InPlace`) and
  which frames are passed (`Passed`). A start marker that is found is the start of a
  frame (`StartsAt`), the first end marker behind is its own (`PieceIsFrame`), and
  what is dropped in front held no frame (`NotPassed`). That frames differ is needed
  for FrameLink to tell from what was heard last where it is; a script with the same
  frame twice is delivered just as well.

`Escape`, `Unescape`, `Checksum` and `Wire` are functions defined by recursion over
positions. The induction theorems of the library are out of the prover's reach, but
what is proved here needs no more than the least element of a set of numbers: the
module proves once that it exists (`LeastElement`), that a function so defined exists
and satisfies its equation (`Recursion`), and argues by the least position at which
a statement fails (`UpTo`).

### The app core

`AppCoreProofs` (any set of headphones, any bounds):

* `TypeCorrect`, `EngineWhenConnected`, `TargetRemembered`, `ArmedWhenWaiting`,
  `PublishedIsCurrent`: the invariants of `app_lifecycle`.
* `DisconnectedByChoice`: `Spec => StaysDisconnected`.
* `LifecycleImplemented`: `Spec => LifecycleKept`, from a lemma that maps the
  initial states (`InitMaps`) and one for each kind of step (`CommandMaps`,
  `ArmedMaps`, `TickMaps`, `RestMaps`, `Stutters`).

The strengthening has two parts. `Stages` relates the place in the loop to the
state: a stage that waits was entered in a state nothing else can change (at
`connect` the app is `Connecting`, at `poll` `Connected`, at `rescan` an armed
reconnect in `Error`), so what a scan or an attempt finds on its return is what
it left. `Visible` says that `menuDirty` marks every difference between state and
snapshot, at every stage and not only between two ticks.

### The abstract link

`FrameLinkProofs` (any script, any losses):

* `FramesInOrder`: `Spec /\ IsScript => [](InOrder /\ LossAccounted)`. FrameLink
  says where the next frame may come from; this is what its steps add up to. The
  heard frames have increasing places in the script, and a frame in front of the
  last one that was not heard is hurt or follows one that is. The invariant adds
  that places are well defined (`Distinct`); `LastIsLast` is the lemma that no
  place lies behind the last.

### Assumptions, and what is only model-checked

Assumptions of the proofs are the `ASSUME`s of the modules, which TLC evaluates in
every run, and `IsScript`: the script is numbered from 1. The orders list each
setting once, the kinds are disjoint, `None` is not a setting nor a device, bounds
are naturals, the devices are finitely many, a script is made of frames with a known
type and a payload of bytes. `NumberAssumption` (Session) and `StepAssumption`
(Settings) say that `None` is neither a sequence number nor a step.

Model-checked only:

* all liveness (fairness is out of the prover's reach);
* `LinkSpec` with losses behind the subscription, for the reason above;
* Exchange: its 47 layouts are finitely many and TLC goes through all of them, each
  also cut at every length. A proof would need that what each layout writes is read
  back, field by field, by induction over the list of its fields.

## 6. Observations

What else the models show, or was met while writing them. Most of it no comment of
the code speaks about; where one says otherwise, its line is named:

* A key runs again when its ACK is lost: the retransmission has a fresh number
  (`KeyExactlyOnce` says when it does not). A capability request that is repeated
  for the same reason puts a second entry into the settings menu.
* With a seamless ambient level only, a write carries no mode, but its ACK confirms
  the mode too (`Carried` and `Members` differ). Headphones that advertise both
  NC/ASM variants, or on/off only, are written with fields that were never read.
* A level of 0 is not adopted, so that the next write carries the app's 12.
* The menu labels say "−5" and "+5" where the nudges go by 1 (`app.rs:305-306`,
  `824-826`). Band bytes from 0x80 underflow `i8` when 10 is taken off.
* Two clicks on the icon before the ACK of the first give the same mode twice, for
  the cycle starts from what is confirmed.
* A shutdown stays current after its ACK: a second one in the same connection is
  not dirty and not sent.
* The mock's `poll_read` reports a closed pipe before the bytes that are still in
  it. An empty GATT notification would wake a reader into a `recv` that waits.
  Notifications that arrive before the subscription are lost, and dropping an
  engine aborts no notification task, for `disconnect` is called by nobody.
* A write of the auto power off gives 5 minutes as the last selection and one of
  speak-to-chat switches its preview off, whatever the headphones had reported.
* An enumerator the app does not know comes back as 0xFF (0xFE where 0xFF has a
  name) when a setting of the same message is written: never as another setting,
  but not as what it was. A touch message with a single preset is ignored.
* A call volume reported is taken for the music volume. `PowerNtfyStatus` and
  `PeriNtfyParam` have no handler: batteries and the list are as new as the last
  request.
* The type byte of a general setting is skipped, although the comment at
  `payloads.rs:926` has it validated, and the `setting_type` of a capability is never
  read: a setting that is a list is shown and written as a switch.
* A scan that fails leaves the cached list, and the passive reconnect reads it
  (`Refreshed`, `Rescan`): the app then tries to connect to headphones that were
  there at the last good scan and are away, which the comment at `app.rs:638-641`
  excludes.
* A save that fails is not noticed: the app goes on with the new settings, and the
  next start with older ones or with the defaults (`Save`).
* After `TransportError::Timeout`, which only the GATT `poll_read` returns, the
  engine goes on as after a quiet poll.

## 7. Not modelled

* The queries, which have a command and a type and nothing else, and the write of
  the equalizer bands, which `build_commit_steps` has and nothing in the app asks
  for. The 64-byte limit of the writer: the longest message that is sent has 21.
* BlueZ, the SDP lookup behind FFI, and how a connection comes about: one step
  with two outcomes in AppCore. Discovery is the outcome of a scan.
* Icons, titles, tooltips, labels, logging and the text of the settings file.
* `SetVolume`, which no menu item gives, `SetTransport`, `Quit` and ctrl-c, and the
  fallback when there is no BlueZ.
* What is only displayed: batteries (that they are asked for is modelled), codec,
  firmware, metadata, alerts (Exchange has their bytes, not what becomes of them).

Left for later: an abstract
task (idle, running, ended once per request) that Session implements; the composition
of Stream with Session, so that a loss of bytes rather than of frames drives the
retransmissions.
