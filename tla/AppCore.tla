------------------------------ MODULE AppCore -------------------------------
(***************************************************************************)
(* The connection lifecycle of src/src/app.rs and the event loop of        *)
(* src/src/main.rs that drives it: user commands, the startup              *)
(* auto-connect, the connect attempt, the loss of a link and the passive   *)
(* reconnect.                                                              *)
(*                                                                         *)
(* One task runs the loop.  It takes a command from the channel or runs    *)
(* tick(), and publishes a snapshot when something visible changed.  A     *)
(* tick waits for a device scan or for a connect attempt; meanwhile the    *)
(* user clicks on the menu of the last snapshot and the commands queue up. *)
(* What the engine does between two ticks is module Session.               *)
(***************************************************************************)
EXTENDS Integers, Sequences, FiniteSets

CONSTANTS
    Macs,       \* the headphones BlueZ knows
    None,       \* no device
    MaxClicks,  \* bound: commands the user gives
    MaxMoves,   \* bound: times a headphone comes or goes
    MaxDrops,   \* bound: fatal engine events
    MaxStarts   \* bound: times the process is killed and started again

ASSUME MacAssumption   == None \notin Macs
ASSUME BoundAssumption == {MaxClicks, MaxMoves, MaxDrops, MaxStarts} \subseteq Nat

VARIABLES
    connState,     \* ConnState, without its message
    engine,        \* is there an engine?
    connectedMac,  \* connected_mac
    listed,        \* does the cached list hold the known headphones yet?
    devices,       \* those the cached list says are connected
    config,        \* [auto, last]: auto_connect and last_device
    disk,          \* the config file
    autoDone,      \* auto_connect_done
    reconnect,     \* auto-reconnection is armed
    due,           \* has next_reconnect passed?
    refreshPending,
    menuDirty,
    shown,         \* the snapshot shared with the tray
    rendered,      \* the one the host shows
    seen,          \* tray::run, last: the one the tray read last
    trayPc,        \* the tray's loop: "sleep" or "update"
    late,          \* history: did the last update render another one than seen?
    queue,         \* the command channel
    pc,            \* what the event loop does next
    present,       \* the devices that are connected, according to BlueZ
    spent          \* how much of each bound is used up

appVars == <<connState, engine, connectedMac, listed, devices, config, disk, autoDone,
             reconnect, due, refreshPending, menuDirty>>
tray == <<rendered, seen, trayPc, late>>
vars == <<appVars, shown, tray, queue, pc, present, spent>>

Spend(what, bound) == spent[what] < bound /\ spent' = [spent EXCEPT ![what] = @ + 1]

---------------------------------------------------------------------------
(* Commands and the menu that offers them *)

Command(name, arg) == [name |-> name, arg |-> arg]

\* What a snapshot shows of the lifecycle; the rest of the menu is the engine's.
Snapshot == [connState |-> connState, waiting |-> reconnect, listed |-> listed,
             devices |-> devices, auto |-> config.auto]

\* Before the first snapshot is published the tray has an empty menu.
NoMenu == [connState |-> "None", waiting |-> FALSE, listed |-> FALSE, devices |-> {},
           auto |-> FALSE]

\* tray::run has not read any yet.
Unread == [NoMenu EXCEPT !.connState = "Unread"]

\* build_menu: the lifecycle commands it offers in each state.
Offered(menu) ==
    CASE menu = NoMenu -> {}
      [] menu.connState = "Connecting" -> {Command("Disconnect", None)}
      [] menu.connState = "Connected"  -> {Command("Disconnect", None)}
      [] OTHER ->
           {Command("RefreshDevices", None), Command("SetAutoConnect", ~menu.auto)}
           \union {Command("Connect", m) : m \in IF menu.listed THEN Macs ELSE {}}
           \union (IF menu.waiting THEN {Command("Disconnect", None)} ELSE {})

---------------------------------------------------------------------------
(* AppCore::new_with_config *)

Configs == [auto : BOOLEAN, last : Macs \union {None}]

Starts(stored) ==
    /\ connState = "NotConnected" /\ engine = FALSE /\ connectedMac = None
    /\ listed = FALSE /\ devices = {} /\ config = stored /\ disk = stored
    /\ autoDone = FALSE /\ reconnect = FALSE /\ due = TRUE
    /\ refreshPending = TRUE /\ menuDirty = TRUE
    /\ shown = NoMenu /\ rendered = NoMenu /\ seen = Unread
    /\ trayPc = "sleep" /\ late = FALSE
    /\ queue = <<>> /\ pc = "select"

Init ==
    /\ \E stored \in Configs : Starts(stored)
    /\ present \in SUBSET Macs
    /\ spent = [clicks |-> 0, moves |-> 0, drops |-> 0, starts |-> 0]

---------------------------------------------------------------------------
(* teardown and arm_reconnect *)

ArmReconnect ==
    IF config.auto /\ config.last # None
    THEN reconnect' = TRUE /\ due' = FALSE
    ELSE UNCHANGED <<reconnect, due>>

EngineKept ==  \* mutant: the engine outlives the connection
    /\ connectedMac' = None /\ connState' = "NotConnected" /\ reconnect' = FALSE
    /\ UNCHANGED <<engine, due>>

\* teardown(None): the user's own disconnect stops the reconnect.
TeardownByUser ==
    /\ engine' = FALSE /\ connectedMac' = None
    /\ connState' = "NotConnected"
    /\ reconnect' = FALSE /\ UNCHANGED due

\* teardown(Some(error)): a lost link arms it.
TeardownOnError ==
    /\ engine' = FALSE /\ connectedMac' = None
    /\ connState' = "Error"
    /\ ArmReconnect

---------------------------------------------------------------------------
(* apply_command *)

\* Config::load_from takes a file without its lines for the defaults.
EmptyFile == [auto |-> FALSE, last |-> None]

\* Config::save truncates the file and then writes it, and ignores the errors of
\* both: the old file stays, or an empty one is left.
Save == disk' \in {config', disk, EmptyFile}

TargetNotStored(mac) ==  \* mutant: last_device is not updated
    IF connState \in {"Connected", "Connecting"}
    THEN UNCHANGED <<connState, connectedMac, config, disk, menuDirty>>
    ELSE /\ connectedMac' = mac /\ connState' = "Connecting" /\ menuDirty' = TRUE
         /\ UNCHANGED <<config, disk>>

Connect(mac) ==
    IF connState \in {"Connected", "Connecting"}
    THEN UNCHANGED <<connState, connectedMac, config, disk, menuDirty>>
    ELSE /\ config' = [config EXCEPT !.last = mac]
         /\ Save
         /\ connectedMac' = mac
         /\ connState' = "Connecting"
         /\ menuDirty' = TRUE

StillArmed(v) ==  \* mutant: switching it off does not disarm
    /\ config' = [config EXCEPT !.auto = v] /\ Save
    /\ menuDirty' = TRUE /\ UNCHANGED reconnect

SetAutoConnect(v) ==
    /\ config' = [config EXCEPT !.auto = v]
    /\ Save
    /\ reconnect' = (reconnect /\ v)
    /\ menuDirty' = TRUE

ApplyCommand ==
    /\ pc = "select" /\ queue # <<>>
    /\ queue' = Tail(queue)
    /\ pc' = "publish"
    /\ LET cmd == Head(queue) IN
       \/ /\ cmd.name = "Connect" /\ Connect(cmd.arg)
          /\ UNCHANGED <<engine, reconnect, due, refreshPending>>
       \/ /\ cmd.name = "Disconnect" /\ TeardownByUser /\ menuDirty' = TRUE
          /\ UNCHANGED <<config, disk, refreshPending>>
       \/ /\ cmd.name = "SetAutoConnect" /\ SetAutoConnect(cmd.arg)
          /\ UNCHANGED <<connState, engine, connectedMac, due, refreshPending>>
       \/ /\ cmd.name = "RefreshDevices" /\ refreshPending' = TRUE /\ menuDirty' = TRUE
          /\ UNCHANGED <<connState, engine, connectedMac, config, disk, reconnect, due>>
    /\ UNCHANGED <<listed, devices, autoDone, shown, tray, present, spent>>

\* The commands that save the settings: killed while it does, the process
\* leaves the file truncated.
Saving ==
    /\ pc = "select" /\ queue # <<>>
    /\ \/ Head(queue).name = "SetAutoConnect"
       \/ Head(queue).name = "Connect" /\ connState \notin {"Connected", "Connecting"}

---------------------------------------------------------------------------
(* tick *)

TickBegins ==
    /\ pc = "select"
    /\ pc' = IF refreshPending THEN "scan" ELSE "drive"
    /\ refreshPending' = FALSE
    /\ UNCHANGED <<connState, engine, connectedMac, listed, devices, config, disk, autoDone,
                   reconnect, due, menuDirty, shown, tray, queue, present, spent>>

RememberedListed ==  \* mutant: last_device is listed, even when there is none
    /\ menuDirty' = TRUE /\ listed' = TRUE
    /\ devices' = present \union {config.last}

\* refresh_devices_async: a scan that fails leaves the cached list as it was.
Refreshed ==
    /\ menuDirty' = TRUE
    /\ \/ listed' = TRUE /\ devices' = present
       \/ UNCHANGED <<listed, devices>>

Scan ==
    /\ pc = "scan" /\ Refreshed
    /\ pc' = "drive"
    /\ UNCHANGED <<connState, engine, connectedMac, config, disk, autoDone,
                   reconnect, due, refreshPending, shown, tray, queue, present, spent>>

AutoConnectAgain ==  \* mutant: not only in the first tick
    /\ config.auto /\ config.last # None
    /\ connState = "NotConnected" /\ connectedMac = None

\* Once, in the first tick.
AutoConnectDue ==
    /\ ~autoDone /\ config.auto /\ config.last # None
    /\ connState = "NotConnected" /\ connectedMac = None

ReconnectDue == reconnect /\ due /\ connState \in {"NotConnected", "Error"}

AutoConnect ==
    /\ pc = "drive" /\ AutoConnectDue
    /\ autoDone' = TRUE
    /\ connectedMac' = config.last /\ connState' = "Connecting" /\ menuDirty' = TRUE
    /\ pc' = "connect"
    /\ UNCHANGED <<engine, listed, devices, config, disk, reconnect, due, refreshPending,
                   shown, tray, queue, present, spent>>

Drive ==
    /\ pc = "drive" /\ ~AutoConnectDue
    /\ autoDone' = TRUE
    /\ pc' = CASE connState = "Connecting" -> "connect"
               [] connState = "Connected" -> "poll"
               [] ReconnectDue -> "rescan"
               [] OTHER -> "publish"
    /\ due' = (due /\ ~ReconnectDue)
    /\ UNCHANGED <<connState, engine, connectedMac, listed, devices, config, disk, reconnect,
                   refreshPending, menuDirty, shown, tray, queue, present, spent>>

\* The transport connects within CONNECT_TIMEOUT and the engine starts, ...
ConnectSucceeds ==
    /\ pc = "connect"
    /\ engine' = TRUE /\ connState' = "Connected" /\ reconnect' = FALSE
    /\ menuDirty' = TRUE
    /\ pc' = "publish"
    /\ UNCHANGED <<connectedMac, listed, devices, config, disk, autoDone, due, refreshPending,
                   shown, tray, queue, present, spent>>

OnlyAwayFails ==  \* mutant: no CONNECT_TIMEOUT, a transport may hang
    /\ pc = "connect" /\ connectedMac \notin present
    /\ connState' = "Error" /\ menuDirty' = TRUE /\ ArmReconnect /\ pc' = "publish"
    /\ UNCHANGED <<engine, connectedMac, listed, devices, config, disk, autoDone,
                   refreshPending, shown, tray, queue, present, spent>>

FailsUnseen ==  \* mutant: menu_dirty is not set
    /\ pc = "connect" /\ connState' = "Error" /\ ArmReconnect /\ pc' = "publish"
    /\ UNCHANGED <<engine, connectedMac, listed, devices, config, disk, autoDone,
                   refreshPending, menuDirty, shown, tray, queue, present, spent>>

\* ... or the factory fails, the transport fails, or the time is up.
ConnectFails ==
    /\ pc = "connect"
    /\ connState' = "Error" /\ menuDirty' = TRUE
    /\ ArmReconnect
    /\ pc' = "publish"
    /\ UNCHANGED <<engine, connectedMac, listed, devices, config, disk, autoDone,
                   refreshPending, shown, tray, queue, present, spent>>

\* Connected: the engine is polled, and either it goes on ...
PollEngine ==
    /\ pc = "poll"
    /\ menuDirty' \in {menuDirty, TRUE}
    /\ pc' = "publish"
    /\ UNCHANGED <<connState, engine, connectedMac, listed, devices, config, disk, autoDone,
                   reconnect, due, refreshPending, shown, tray, queue, present, spent>>

\* ... or one of its events is fatal.
PollFatal ==
    /\ pc = "poll" /\ Spend("drops", MaxDrops)
    /\ TeardownOnError /\ menuDirty' = TRUE
    /\ pc' = "publish"
    /\ UNCHANGED <<listed, devices, config, disk, autoDone, refreshPending, shown, tray, queue, present>>

RescanForConnected ==  \* mutant: looks for connected_mac, which teardown cleared
    /\ pc = "rescan" /\ Refreshed
    /\ IF connectedMac \in devices'
       THEN connState' = "Connecting" ELSE UNCHANGED connState
    /\ pc' = "publish"
    /\ UNCHANGED <<connectedMac, engine, config, disk, autoDone, reconnect, due,
                   refreshPending, shown, tray, queue, present, spent>>

\* Passive reconnect: scan, and attach if the device is in the list.
Rescan ==
    /\ pc = "rescan" /\ Refreshed
    /\ IF config.last \in devices'
       THEN connectedMac' = config.last /\ connState' = "Connecting"
       ELSE UNCHANGED <<connectedMac, connState>>
    /\ pc' = "publish"
    /\ UNCHANGED <<engine, config, disk, autoDone, reconnect, due, refreshPending,
                   shown, tray, queue, present, spent>>

\* The loop body ends: the snapshot is replaced if menu_dirty.
Publish ==
    /\ pc = "publish"
    /\ shown' = IF menuDirty THEN Snapshot ELSE shown
    /\ menuDirty' = FALSE
    /\ pc' = "select"
    /\ UNCHANGED <<connState, engine, connectedMac, listed, devices, config, disk, autoDone,
                   reconnect, due, refreshPending, tray, queue, present, spent>>

---------------------------------------------------------------------------
(* tray::run *)

\* Every 200 ms the tray compares the snapshot with the one it read last ...
TrayReads ==
    /\ trayPc = "sleep" /\ shown # seen
    /\ seen' = shown /\ trayPc' = "update" /\ late' = FALSE
    /\ UNCHANGED <<appVars, shown, rendered, queue, pc, present, spent>>

UpdateFirst ==  \* mutant: the host is told only of a first snapshot
    /\ trayPc = "update"
    /\ rendered' = IF rendered = NoMenu THEN shown ELSE rendered
    /\ trayPc' = "sleep" /\ late' = (shown # seen)
    /\ UNCHANGED <<appVars, shown, seen, queue, pc, present, spent>>

\* ... and has the host ask for the menu, which is that of the snapshot by then.
TrayUpdates ==
    /\ trayPc = "update"
    /\ rendered' = shown
    /\ trayPc' = "sleep" /\ late' = (shown # seen)
    /\ UNCHANGED <<appVars, shown, seen, queue, pc, present, spent>>

Tray == TrayReads \/ TrayUpdates

---------------------------------------------------------------------------
(* The user, time, the headphones and the process *)

\* A click on an item of the menu the host shows.
Click ==
    /\ Spend("clicks", MaxClicks)
    /\ \E cmd \in Offered(rendered) : queue' = Append(queue, cmd)
    /\ UNCHANGED <<appVars, shown, tray, pc, present>>

\* RECONNECT_DELAY elapses.
DelayPasses ==
    /\ ~due /\ due' = TRUE
    /\ UNCHANGED <<connState, engine, connectedMac, listed, devices, config, disk, autoDone,
                   reconnect, refreshPending, menuDirty, shown, tray, queue, pc, present, spent>>

Move ==
    /\ Spend("moves", MaxMoves)
    /\ \E m \in Macs : present' = IF m \in present THEN present \ {m} ELSE present \union {m}
    /\ UNCHANGED <<appVars, shown, tray, queue, pc>>

\* Killed anywhere; the next process starts from the file.
Restart ==
    /\ Spend("starts", MaxStarts)
    /\ disk' \in {disk} \union (IF Saving THEN {EmptyFile} ELSE {})
    /\ connState' = "NotConnected" /\ engine' = FALSE /\ connectedMac' = None
    /\ listed' = FALSE /\ devices' = {} /\ config' = disk'
    /\ autoDone' = FALSE /\ reconnect' = FALSE /\ due' = TRUE
    /\ refreshPending' = TRUE /\ menuDirty' = TRUE
    /\ shown' = NoMenu /\ rendered' = NoMenu /\ seen' = Unread
    /\ trayPc' = "sleep" /\ late' = FALSE
    /\ queue' = <<>> /\ pc' = "select"
    /\ UNCHANGED present

Tick ==
    \/ TickBegins \/ Scan \/ AutoConnect \/ Drive
    \/ ConnectSucceeds \/ ConnectFails \/ PollEngine \/ PollFatal \/ Rescan

Loop == Tick \/ ApplyCommand \/ Publish

Next == Loop \/ Tray \/ Click \/ DelayPasses \/ Move \/ Restart

Spec == Init /\ [][Next]_vars

\* What the loop does without waiting is done, and CONNECT_TIMEOUT ends a connect
\* attempt; select! takes a waiting command now and then although the ticker is
\* always ready.  Nothing bounds a scan or a poll of the engine.
WithoutWaiting == TickBegins \/ AutoConnect \/ Drive \/ Publish
FairSpec ==
    /\ Spec
    /\ WF_vars(WithoutWaiting) /\ WF_vars(ConnectFails) /\ SF_vars(ApplyCommand)
    /\ WF_vars(Tray) /\ WF_vars(DelayPasses)

---------------------------------------------------------------------------
(* Properties *)

States   == {"NotConnected", "Connecting", "Connected", "Error"}
Commands == [name : {"Connect"}, arg : Macs]
            \union [name : {"SetAutoConnect"}, arg : BOOLEAN]
            \union [name : {"Disconnect", "RefreshDevices"}, arg : {None}]
Menus    == [connState : States \union {"None", "Unread"}, waiting : BOOLEAN,
             listed : BOOLEAN, devices : SUBSET Macs, auto : BOOLEAN]

\* Every variable has its type.
TypeOK ==
    /\ connState \in States /\ engine \in BOOLEAN
    /\ connectedMac \in Macs \union {None}
    /\ listed \in BOOLEAN /\ devices \subseteq Macs
    /\ config \in Configs /\ disk \in Configs
    /\ autoDone \in BOOLEAN /\ reconnect \in BOOLEAN /\ due \in BOOLEAN
    /\ refreshPending \in BOOLEAN /\ menuDirty \in BOOLEAN
    /\ {shown, rendered, seen} \subseteq Menus /\ trayPc \in {"sleep", "update"}
    /\ late \in BOOLEAN
    /\ queue \in Seq(Commands)
    /\ pc \in {"select", "scan", "drive", "connect", "poll", "rescan", "publish"}
    /\ present \subseteq Macs

\* tick() and snapshot() call expect("connected") on the engine: there is one
\* exactly in the Connected state, whatever a command did before that tick.
EngineIffConnected == engine <=> connState = "Connected"

\* A connection or an attempt always has a target, and it is the remembered
\* device: a reconnect, which reads last_device, goes back to the headphones
\* that were lost and not to another pair.
TargetIsRemembered ==
    connState \in {"Connecting", "Connected"} =>
        connectedMac # None /\ connectedMac = config.last

\* The reconnect is armed only for a user who opted in, with a device to wait
\* for, and never while connected (arm_reconnect; SetAutoConnect, Disconnect
\* and a successful connect disarm it).
ArmedMeansWaiting ==
    reconnect => config.auto /\ config.last # None /\ connState \in {"Error", "Connecting"}

\* The tray never shows a stale state: once the loop has published, what it
\* shows is what the state is, so no change of it forgot menu_dirty.
ShownIsCurrent == pc = "select" /\ ~menuDirty => shown = Snapshot

\* After a manual disconnect the app stays disconnected until the user asks
\* for a connection: no step of a tick leaves NotConnected by itself, except
\* the auto-connect of the first tick.
StaysDisconnected ==
    [][connState = "NotConnected" /\ connState' # "NotConnected" /\ Tick
         => ~autoDone]_vars

\* A scan or a poll of the engine that never ends: the await of either has no
\* timeout, and the loop waits for it.
Hung == \E stage \in {"scan", "rescan", "poll"} : <>[](pc = stage)

\* Scans that are repeated do not fail for ever, nor do attempts to connect to
\* headphones that are there.
ScanSees == Rescan /\ devices' = present
Lucky ==
    /\ []<><<Rescan>>_vars => []<><<ScanSees>>_vars
    /\ []<>(pc = "connect" /\ connectedMac \in present) => []<><<ConnectSucceeds>>_vars

\* A lost link comes back: with the reconnect armed and the device back for
\* good, the app connects, unless the user or a restart intervenes.
LinkComesBack ==
    Lucky /\ <>[](config.last \in present /\ queue = <<>>) =>
        Hung \/ (reconnect ~> (connState = "Connected" \/ ~reconnect))

\* What Lifecycle promises is what this does, whatever the loop, the scans, the
\* queue and the tray do in between: the app attaches by itself once in the
\* first tick and while it waits for a lost link, to the remembered device and
\* to no other, and never once the user has left.
May == IF reconnect THEN "waiting" ELSE IF ~autoDone THEN "once" ELSE "no"
Abstract == INSTANCE Lifecycle WITH
    state <- connState, target <- connectedMac, memory <- config.last,
    opted <- config.auto, may <- May, kept <- disk
LifecycleKept == Abstract!Spec

\* The host gets to show what is published, except that an update that renders
\* a newer snapshot than the one the tray has read, which is then published a
\* second time, is missed: the tray takes it for the one it knows.
Missed == late /\ trayPc = "sleep" /\ shown = seen
TrayCatchesUp == rendered # shown ~> (rendered = shown \/ Missed)

\* The comment on the connect attempt ("a hung transport can never leave the UI
\* stuck"), and what is true of it: the tray does not stay at "Connecting", and
\* no command waits for ever, however often attempts hang or fail; only a scan or
\* a poll that hangs can do that.
OnlyHangsBlock ==
    Hung \/ /\ shown.connState = "Connecting" ~> shown.connState # "Connecting"
            /\ queue # <<>> ~> queue = <<>>
=============================================================================
