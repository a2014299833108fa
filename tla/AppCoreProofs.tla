--------------------------- MODULE AppCoreProofs ----------------------------
(***************************************************************************)
(* The safety properties of AppCore, for any set of headphones and any     *)
(* bounds, and that it implements Lifecycle.  None of the four invariants  *)
(* is inductive by itself: which connState a tick finds when its scan or   *)
(* its connect attempt returns is known from the stage it is in (Stages),  *)
(* and a snapshot stays current through every stage and not only between   *)
(* two ticks (Visible).                                                    *)
(***************************************************************************)
EXTENDS AppCore, TLAPS

\* A stage that waits was entered in a state that nothing else can change, and
\* the reconnect is of no earlier process.
Stages ==
    /\ pc = "connect" => connState = "Connecting"
    /\ pc = "poll"    => connState = "Connected"
    /\ pc = "rescan"  => reconnect /\ connState = "Error" /\ autoDone
    /\ pc \in {"connect", "poll"} => autoDone
    /\ reconnect => autoDone

\* menu_dirty marks every difference between the state and the snapshot.
Visible == ~menuDirty => shown = Snapshot

Invariant ==
    /\ TypeOK /\ Stages /\ Visible
    /\ EngineIffConnected /\ TargetIsRemembered /\ ArmedMeansWaiting

\* A menu offers well-formed commands only.
LEMMA OfferedCommands ==
    ASSUME NEW menu \in Menus
    PROVE  Offered(menu) \subseteq Commands
<1>1. \A m \in Macs : Command("Connect", m) \in Commands
  BY DEF Command, Commands
<1>2. \A b \in BOOLEAN : Command("SetAutoConnect", b) \in Commands
  BY DEF Command, Commands
<1>3. Command("Disconnect", None) \in Commands /\ Command("RefreshDevices", None) \in Commands
  BY DEF Command, Commands
<1>4. (~menu.auto) \in BOOLEAN
  BY DEF Menus
<1> QED
  BY <1>1, <1>2, <1>3, <1>4 DEF Offered

\* The two snapshots that are none are menus like the others.
LEMMA FirstMenus == NoMenu \in Menus /\ Unread \in Menus
<1>1. NoMenu \in Menus
  BY DEF NoMenu, Menus
<1>2. Unread \in Menus
  BY <1>1 DEF Unread, NoMenu, Menus
<1> QED
  BY <1>1, <1>2

\* The invariant holds in every process that starts.
LEMMA InitInvariant == Init => Invariant
<1> SUFFICES ASSUME NEW stored \in Configs, Starts(stored), present \in SUBSET Macs
             PROVE  Invariant
  BY DEF Init
<1>1. {shown, rendered, seen} \subseteq Menus
  BY FirstMenus DEF Starts
<1>2. TypeOK
  <2>1. queue \in Seq(Commands) /\ devices \subseteq Macs
    BY DEF Starts
  <2>2. config \in Configs /\ disk \in Configs
    BY DEF Starts
  <2> QED
    BY <1>1, <2>1, <2>2 DEF Starts, TypeOK, States
<1>3. Stages /\ Visible /\ TargetIsRemembered /\ ArmedMeansWaiting
  BY DEF Starts, Stages, Visible, TargetIsRemembered, ArmedMeansWaiting
<1>4. EngineIffConnected
  <2>1. ~engine /\ connState # "Connected"
    BY DEF Starts
  <2> QED
    BY <2>1, Zenon DEF EngineIffConnected
<1> QED
  BY <1>2, <1>3, <1>4 DEF Invariant

\* What a save leaves in the file is a configuration.
LEMMA SaveType ==
    ASSUME disk \in Configs, config' \in Configs, Save
    PROVE  disk' \in Configs
<1>1. EmptyFile \in Configs
  BY DEF EmptyFile, Configs
<1> QED
  BY <1>1 DEF Save

\* Commands keep it.
LEMMA ApplyCommandInvariant == Invariant /\ ApplyCommand => Invariant'
<1> SUFFICES ASSUME Invariant, ApplyCommand PROVE Invariant'
  OBVIOUS
<1> DEFINE cmd == Head(queue)
<1>1. cmd \in Commands /\ queue' \in Seq(Commands)
  BY DEF Invariant, TypeOK, ApplyCommand
<1>2. CASE cmd.name = "Connect" /\ Connect(cmd.arg)
            /\ UNCHANGED <<engine, reconnect, due, refreshPending>>
  <2>1. cmd.arg \in Macs
    BY <1>1, <1>2 DEF Commands
  <2>2. CASE connState \in {"Connected", "Connecting"}
    BY <1>1, <1>2, <2>2
    DEF Connect, ApplyCommand, tray, Invariant, TypeOK, Stages, Visible, Snapshot,
        EngineIffConnected, TargetIsRemembered, ArmedMeansWaiting
  <2>3. CASE connState \notin {"Connected", "Connecting"}
    <3>1. /\ config' = [config EXCEPT !.last = cmd.arg] /\ Save
          /\ connectedMac' = cmd.arg /\ connState' = "Connecting" /\ menuDirty' = TRUE
      BY <1>2, <2>3 DEF Connect
    <3>2. config' \in Configs /\ config'.last = cmd.arg /\ config'.auto = config.auto
      BY <2>1, <3>1 DEF Invariant, TypeOK, Configs
    <3>3. disk' \in Configs
      BY <3>1, <3>2, SaveType DEF Invariant, TypeOK
    <3> QED
      BY <1>1, <1>2, <2>1, <2>3, <3>1, <3>2, <3>3, MacAssumption
      DEF ApplyCommand, tray, Invariant, TypeOK, Stages, Visible, States,
          EngineIffConnected, TargetIsRemembered, ArmedMeansWaiting
  <2> QED
    BY <2>2, <2>3
<1>3. CASE cmd.name = "Disconnect" /\ TeardownByUser /\ menuDirty' = TRUE
            /\ UNCHANGED <<config, disk, refreshPending>>
  BY <1>1, <1>3
  DEF TeardownByUser, ApplyCommand, tray, Invariant, TypeOK, Stages, Visible, States,
      EngineIffConnected, TargetIsRemembered, ArmedMeansWaiting
<1>4. CASE cmd.name = "SetAutoConnect" /\ SetAutoConnect(cmd.arg)
            /\ UNCHANGED <<connState, engine, connectedMac, due, refreshPending>>
  <2>1. cmd.arg \in BOOLEAN
    BY <1>1, <1>4 DEF Commands
  <2>2. config' \in Configs /\ config'.last = config.last /\ config'.auto = cmd.arg
    BY <1>4, <2>1 DEF SetAutoConnect, Invariant, TypeOK, Configs
  <2>3. reconnect' \in BOOLEAN /\ (reconnect' => reconnect /\ cmd.arg)
    BY <1>4, <2>1 DEF SetAutoConnect, Invariant, TypeOK
  <2>4. disk' \in Configs
    BY <1>4, <2>2, SaveType DEF SetAutoConnect, Invariant, TypeOK
  <2> QED
    BY <1>1, <1>4, <2>1, <2>2, <2>3, <2>4
    DEF SetAutoConnect, ApplyCommand, tray, Invariant, TypeOK, Stages, Visible,
        EngineIffConnected, TargetIsRemembered, ArmedMeansWaiting
<1>5. CASE cmd.name = "RefreshDevices" /\ refreshPending' = TRUE /\ menuDirty' = TRUE
            /\ UNCHANGED <<connState, engine, connectedMac, config, disk, reconnect, due>>
  BY <1>1, <1>5
  DEF ApplyCommand, tray, Invariant, TypeOK, Stages, Visible,
      EngineIffConnected, TargetIsRemembered, ArmedMeansWaiting
<1> QED
  BY <1>2, <1>3, <1>4, <1>5 DEF ApplyCommand

\* Every stage of a tick keeps it.
LEMMA TickInvariant == Invariant /\ Tick => Invariant'
<1> SUFFICES ASSUME Invariant, Tick PROVE Invariant'
  OBVIOUS
<1> USE DEF Invariant, TypeOK, Stages, Visible, EngineIffConnected, TargetIsRemembered,
            ArmedMeansWaiting, tray
<1>1. CASE TickBegins
  <2>1. pc' \in {"scan", "drive"} /\ refreshPending' \in BOOLEAN /\ Snapshot' = Snapshot
    BY <1>1 DEF TickBegins, Snapshot
  <2> QED
    BY <1>1, <2>1 DEF TickBegins
<1>2. CASE Scan
  <2>1. listed' \in BOOLEAN /\ devices' \subseteq Macs /\ menuDirty'
    BY <1>2 DEF Scan, Refreshed
  <2> QED
    BY <1>2, <2>1 DEF Scan
<1>3. CASE AutoConnect
  BY <1>3 DEF AutoConnect, AutoConnectDue, States, Configs
<1>4. CASE Drive
  <2>1. pc' = "rescan" => ReconnectDue
    BY <1>4 DEF Drive
  <2>2. (pc' = "connect" => connState = "Connecting") /\ (pc' = "poll" => connState = "Connected")
    BY <1>4 DEF Drive
  <2>3. pc' \in {"connect", "poll", "rescan", "publish"}
    BY <1>4 DEF Drive
  <2>4. due' \in BOOLEAN
    BY <1>4 DEF Drive
  <2> QED
    BY <1>4, <2>1, <2>2, <2>3, <2>4 DEF Drive, ReconnectDue, Snapshot
<1>5. CASE ConnectSucceeds
  BY <1>5 DEF ConnectSucceeds, States
<1>6. CASE ConnectFails
  BY <1>6 DEF ConnectFails, ArmReconnect, States
<1>7. CASE PollEngine
  BY <1>7 DEF PollEngine, Snapshot
<1>8. CASE PollFatal
  BY <1>8 DEF PollFatal, TeardownOnError, ArmReconnect, States
<1>9. CASE Rescan
  BY <1>9 DEF Rescan, Refreshed, States, Configs
<1> QED
  BY <1>1, <1>2, <1>3, <1>4, <1>5, <1>6, <1>7, <1>8, <1>9 DEF Tick

\* So do the end of the loop body and the environment.
LEMMA RestInvariant ==
    Invariant /\ (Publish \/ Tray \/ Click \/ DelayPasses \/ Move \/ Restart) => Invariant'
<1> SUFFICES ASSUME Invariant, Publish \/ Tray \/ Click \/ DelayPasses \/ Move \/ Restart
             PROVE  Invariant'
  OBVIOUS
<1> USE DEF Invariant, TypeOK, Stages, Visible, EngineIffConnected, TargetIsRemembered,
            ArmedMeansWaiting
<1>1. CASE Publish
  <2>1. Snapshot \in Menus
    BY DEF Snapshot, Menus, Configs
  <2>2. shown' \in Menus /\ Visible' /\ menuDirty' = FALSE
    <3>1. Snapshot' = Snapshot
      BY <1>1 DEF Publish, Snapshot
    <3> QED
      BY <1>1, <2>1, <3>1 DEF Publish
  <2>3. UNCHANGED <<connState, engine, connectedMac, listed, devices, config, disk, autoDone,
                    reconnect, due, refreshPending, rendered, seen, trayPc, late, queue, present>>
        /\ pc' = "select"
    BY <1>1 DEF Publish, tray
  <2>4. TypeOK'
    BY <2>2, <2>3
  <2>5. (Stages /\ EngineIffConnected /\ TargetIsRemembered /\ ArmedMeansWaiting)'
    BY <2>3
  <2> QED
    BY <2>2, <2>4, <2>5
<1>2. CASE Click
  <2>1. PICK cmd \in Offered(rendered) : queue' = Append(queue, cmd)
    BY <1>2 DEF Click
  <2>2. queue' \in Seq(Commands)
    BY <2>1, OfferedCommands
  <2> QED
    BY <1>2, <2>2 DEF Click, appVars, tray, Snapshot
<1>3. CASE DelayPasses
  BY <1>3 DEF DelayPasses, tray, Snapshot
<1>4. CASE Move
  BY <1>4 DEF Move, appVars, tray, Snapshot
<1>5. CASE Restart
  <2>1. NoMenu \in Menus /\ Unread \in Menus
    BY FirstMenus
  <2>2. TypeOK'
    <3>1. /\ queue' \in Seq(Commands) /\ devices' \subseteq Macs
          /\ {shown, rendered, seen}' \subseteq Menus
      BY <1>5, <2>1 DEF Restart
    <3>2. config' \in Configs /\ disk' \in Configs /\ present' \subseteq Macs
      <4>1. EmptyFile \in Configs
        BY DEF EmptyFile, Configs
      <4>2. disk' \in Configs
        BY <1>5, <4>1 DEF Restart
      <4> QED
        BY <1>5, <4>2 DEF Restart
    <3> QED
      BY <1>5, <3>1, <3>2 DEF Restart, States
  <2>3. (Stages /\ Visible /\ TargetIsRemembered /\ ArmedMeansWaiting)'
    BY <1>5 DEF Restart
  <2>4. EngineIffConnected'
    BY <1>5 DEF Restart
  <2> QED
    BY <2>2, <2>3, <2>4
<1>6. CASE Tray
  <2>1. CASE TrayReads
    <3>1. /\ UNCHANGED <<appVars, shown, rendered, queue, pc, present>>
          /\ seen' = shown /\ trayPc' = "update" /\ late' = FALSE
      BY <2>1 DEF TrayReads
    <3>2. TypeOK'
      BY <3>1 DEF appVars
    <3>3. Snapshot' = Snapshot /\ UNCHANGED <<menuDirty, shown>>
      BY <3>1 DEF appVars, Snapshot
    <3>4. (Stages /\ EngineIffConnected /\ TargetIsRemembered /\ ArmedMeansWaiting)'
      BY <3>1 DEF appVars
    <3> QED
      BY <3>2, <3>3, <3>4
  <2>2. CASE TrayUpdates
    <3>1. late' \in BOOLEAN /\ {shown, rendered, seen}' \subseteq Menus
      BY <2>2 DEF TrayUpdates
    <3>2. UNCHANGED <<appVars, shown, queue, pc, present>> /\ trayPc' = "sleep"
      BY <2>2 DEF TrayUpdates
    <3>3. TypeOK'
      BY <3>1, <3>2 DEF appVars
    <3>4. Snapshot' = Snapshot /\ UNCHANGED <<menuDirty, shown>>
      BY <3>2 DEF appVars, Snapshot
    <3>5. (Stages /\ EngineIffConnected /\ TargetIsRemembered /\ ArmedMeansWaiting)'
      BY <3>2 DEF appVars
    <3> QED
      BY <3>3, <3>4, <3>5
  <2> QED
    BY <1>6, <2>1, <2>2 DEF Tray
<1> QED
  BY <1>1, <1>2, <1>3, <1>4, <1>5, <1>6

\* No step of the program leaves the invariant.
LEMMA StepInvariant == Invariant /\ [Next]_vars => Invariant'
<1>1. Invariant /\ UNCHANGED vars => Invariant'
  BY DEF vars, appVars, tray, Invariant, TypeOK, Stages, Visible, Snapshot, EngineIffConnected,
         TargetIsRemembered, ArmedMeansWaiting
<1> QED
  BY <1>1, ApplyCommandInvariant, TickInvariant, RestInvariant DEF Next, Loop

\* The invariant holds in every reachable state.
LEMMA InvariantHolds == Spec => []Invariant
  BY InitInvariant, StepInvariant, PTL DEF Spec

\* Every variable keeps its type, for any headphones and bounds.
THEOREM TypeCorrect == Spec => []TypeOK
<1>1. Invariant => TypeOK
  BY DEF Invariant
<1> QED
  BY <1>1, InvariantHolds, PTL

\* The engine is there exactly when the lifecycle says Connected, so that the
\* expect of tick and of snapshot cannot fail.
THEOREM EngineWhenConnected == Spec => []EngineIffConnected
<1>1. Invariant => EngineIffConnected
  BY DEF Invariant
<1> QED
  BY <1>1, InvariantHolds, PTL

\* A connection or an attempt is about the remembered device.
THEOREM TargetRemembered == Spec => []TargetIsRemembered
<1>1. Invariant => TargetIsRemembered
  BY DEF Invariant
<1> QED
  BY <1>1, InvariantHolds, PTL

\* The reconnect is armed only while it has something to wait for.
THEOREM ArmedWhenWaiting == Spec => []ArmedMeansWaiting
<1>1. Invariant => ArmedMeansWaiting
  BY DEF Invariant
<1> QED
  BY <1>1, InvariantHolds, PTL

\* What is published is current: no change of the state forgets menu_dirty.
THEOREM PublishedIsCurrent == Spec => []ShownIsCurrent
<1>1. Invariant => ShownIsCurrent
  BY DEF Invariant, Visible, ShownIsCurrent
<1> QED
  BY <1>1, InvariantHolds, PTL

\* The app never leaves NotConnected without a command, except for the
\* auto-connect of its first tick.
THEOREM DisconnectedByChoice == Spec => StaysDisconnected
<1>1. Invariant /\ [Next]_vars =>
        [connState = "NotConnected" /\ connState' # "NotConnected" /\ Tick => ~autoDone]_vars
  <2> SUFFICES ASSUME Invariant, connState = "NotConnected", connState' # "NotConnected", Tick
               PROVE  ~autoDone
    OBVIOUS
  <2>1. AutoConnect
    BY DEF Invariant, Stages, Tick, TickBegins, Scan, Drive, ConnectSucceeds, ConnectFails,
           PollEngine, PollFatal, Rescan
  <2> QED
    BY <2>1 DEF AutoConnect, AutoConnectDue
<1> QED
  BY <1>1, InitInvariant, StepInvariant, PTL DEF Spec, StaysDisconnected

---------------------------------------------------------------------------
(* AppCore implements Lifecycle *)

\* Every process starts as Lifecycle does.
LEMMA InitMaps == Init => Abstract!Init
<1> SUFFICES ASSUME NEW stored \in Configs, Starts(stored)
             PROVE  Abstract!Init
  BY DEF Init
<1>1. May = "once"
  BY DEF Starts, May
<1>2. disk = config /\ config \in [auto : BOOLEAN, last : Macs \union {None}]
  BY DEF Starts, Configs
<1> QED
  BY <1>1, <1>2 DEF Starts, Abstract!Init, Abstract!Fresh, Abstract!Remembers

\* A step that leaves these alone is a stutter.
AbstractVars == <<connState, connectedMac, config, disk, reconnect, autoDone>>
LEMMA Stutters == UNCHANGED AbstractVars => UNCHANGED Abstract!vars
  BY DEF AbstractVars, Abstract!vars, May

\* A save leaves in the file what Lifecycle allows.
LEMMA SaveMaps ==
    ASSUME config' \in Configs, Save
    PROVE  Abstract!Save
<1>1. config' = [auto |-> config'.auto, last |-> config'.last]
  BY DEF Configs
<1>2. EmptyFile = Abstract!Nothing
  BY DEF EmptyFile, Abstract!Nothing
<1> QED
  BY <1>1, <1>2 DEF Save, Abstract!Save

\* A command is a choice, a departure or a wish of the user, or nothing.
LEMMA CommandMaps == Invariant /\ ApplyCommand => [Abstract!Next]_(Abstract!vars)
<1> SUFFICES ASSUME Invariant, ApplyCommand PROVE [Abstract!Next]_(Abstract!vars)
  OBVIOUS
<1> DEFINE cmd == Head(queue)
<1>1. cmd \in Commands /\ autoDone' = autoDone
  BY DEF Invariant, TypeOK, ApplyCommand
<1>2. CASE cmd.name = "Connect" /\ Connect(cmd.arg)
            /\ UNCHANGED <<engine, reconnect, due, refreshPending>>
  <2>1. cmd.arg \in Macs
    BY <1>1, <1>2 DEF Commands
  <2>2. CASE connState \in {"Connected", "Connecting"}
    BY <1>1, <1>2, <2>2, Stutters DEF Connect, AbstractVars
  <2>3. CASE connState \notin {"Connected", "Connecting"}
    <3>1. config' \in Configs /\ config'.last = cmd.arg /\ config'.auto = config.auto
      BY <1>2, <2>1, <2>3 DEF Connect, Invariant, TypeOK, Configs
    <3>2. connState \in {"NotConnected", "Error"} /\ May' = May
      BY <1>1, <1>2, <2>3 DEF Invariant, TypeOK, States, May
    <3>3. Abstract!Save
      BY <1>2, <2>3, <3>1, SaveMaps DEF Connect
    <3>4. Abstract!Choose(cmd.arg)
      BY <1>2, <2>3, <3>1, <3>2, <3>3 DEF Connect, Abstract!Choose
    <3> QED
      BY <2>1, <3>4 DEF Abstract!Next
  <2> QED
    BY <2>2, <2>3
<1>3. CASE cmd.name = "Disconnect" /\ TeardownByUser /\ menuDirty' = TRUE
            /\ UNCHANGED <<config, disk, refreshPending>>
  <2>1. May' = IF May = "waiting" THEN "no" ELSE May
    BY <1>1, <1>3 DEF TeardownByUser, May, Invariant, TypeOK, Stages
  <2>2. Abstract!Leave
    BY <1>3, <2>1 DEF TeardownByUser, Abstract!Leave
  <2> QED
    BY <2>2 DEF Abstract!Next
<1>4. CASE cmd.name = "SetAutoConnect" /\ SetAutoConnect(cmd.arg)
            /\ UNCHANGED <<connState, engine, connectedMac, due, refreshPending>>
  <2>1. cmd.arg \in BOOLEAN
    BY <1>1, <1>4 DEF Commands
  <2>2. config' \in Configs /\ config'.last = config.last /\ config'.auto = cmd.arg
    BY <1>4, <2>1 DEF SetAutoConnect, Invariant, TypeOK, Configs
  <2>3. May' = IF May = "waiting" /\ ~cmd.arg THEN "no" ELSE May
    BY <1>1, <1>4, <2>1 DEF SetAutoConnect, May, Invariant, TypeOK, Stages
  <2>4. Abstract!Save
    BY <1>4, <2>2, SaveMaps DEF SetAutoConnect
  <2>5. Abstract!Opt(cmd.arg)
    BY <1>4, <2>2, <2>3, <2>4 DEF Abstract!Opt
  <2> QED
    BY <2>1, <2>5 DEF Abstract!Next
<1>5. CASE cmd.name = "RefreshDevices" /\ refreshPending' = TRUE /\ menuDirty' = TRUE
            /\ UNCHANGED <<connState, engine, connectedMac, config, disk, reconnect, due>>
  BY <1>1, <1>5, Stutters DEF AbstractVars
<1> QED
  BY <1>2, <1>3, <1>4, <1>5 DEF ApplyCommand

\* The reconnect is armed for who opted in, with a device to come back to.
LEMMA ArmedMaps ==
    ASSUME Invariant, ArmReconnect, autoDone, autoDone' = autoDone
    PROVE  May' = IF config.auto /\ config.last # None THEN "waiting" ELSE May
  BY DEF ArmReconnect, May, Invariant, TypeOK

\* What a tick does by itself is allowed.
LEMMA TickMaps == Invariant /\ Tick => [Abstract!Next]_(Abstract!vars)
<1> SUFFICES ASSUME Invariant, Tick PROVE [Abstract!Next]_(Abstract!vars)
  OBVIOUS
<1>1. CASE TickBegins
  BY <1>1, Stutters DEF TickBegins, AbstractVars
<1>2. CASE Scan
  BY <1>2, Stutters DEF Scan, AbstractVars
<1>3. CASE AutoConnect
  <2>1. May = "once" /\ May' = "no"
    BY <1>3 DEF AutoConnect, AutoConnectDue, May, Invariant, Stages
  <2>2. Abstract!Attach
    BY <1>3, <2>1 DEF AutoConnect, AutoConnectDue, Abstract!Attach
  <2> QED
    BY <2>2 DEF Abstract!Next
<1>4. CASE Drive
  <2>1. CASE autoDone
    BY <1>4, <2>1, Stutters DEF Drive, AbstractVars, Invariant, TypeOK
  <2>2. CASE ~autoDone
    <3>1. May = "once" /\ May' = "no"
      BY <1>4, <2>2 DEF Drive, May, Invariant, Stages
    <3>2. Abstract!Settle
      BY <1>4, <3>1 DEF Drive, Abstract!Settle
    <3> QED
      BY <3>2 DEF Abstract!Next
  <2> QED
    BY <2>1, <2>2
<1>5. CASE ConnectSucceeds
  <2>1. connState = "Connecting" /\ May' = "no"
    BY <1>5 DEF ConnectSucceeds, May, Invariant, Stages
  <2>2. Abstract!Succeed
    BY <1>5, <2>1 DEF ConnectSucceeds, Abstract!Succeed
  <2> QED
    BY <2>2 DEF Abstract!Next
<1>6. CASE ConnectFails
  <2>1. connState = "Connecting" /\ autoDone /\ autoDone' = autoDone
    BY <1>6 DEF ConnectFails, Invariant, Stages
  <2>2. May' = IF config.auto /\ config.last # None THEN "waiting" ELSE May
    BY <1>6, <2>1, ArmedMaps DEF ConnectFails
  <2>3. Abstract!Fail
    BY <1>6, <2>1, <2>2 DEF ConnectFails, Abstract!Fail
  <2> QED
    BY <2>3 DEF Abstract!Next
<1>7. CASE PollEngine
  BY <1>7, Stutters DEF PollEngine, AbstractVars
<1>8. CASE PollFatal
  <2>1. connState = "Connected" /\ autoDone /\ autoDone' = autoDone
    BY <1>8 DEF PollFatal, Invariant, Stages
  <2>2. May' = IF config.auto /\ config.last # None THEN "waiting" ELSE May
    BY <1>8, <2>1, ArmedMaps DEF PollFatal, TeardownOnError
  <2>3. Abstract!Fail
    BY <1>8, <2>1, <2>2 DEF PollFatal, TeardownOnError, Abstract!Fail
  <2> QED
    BY <2>3 DEF Abstract!Next
<1>9. CASE Rescan
  <2>1. CASE connState' = connState /\ connectedMac' = connectedMac
    BY <1>9, <2>1, Stutters DEF Rescan, AbstractVars
  <2>2. CASE connState' = "Connecting" /\ connectedMac' = config.last
    <3>1. /\ connState = "Error" /\ config.auto /\ config.last # None
          /\ May = "waiting" /\ May' = "waiting"
      BY <1>9 DEF Rescan, May, Invariant, Stages, ArmedMeansWaiting
    <3>2. Abstract!Attach
      BY <1>9, <2>2, <3>1 DEF Rescan, Abstract!Attach
    <3> QED
      BY <3>2 DEF Abstract!Next
  <2> QED
    BY <1>9, <2>1, <2>2 DEF Rescan
<1> QED
  BY <1>1, <1>2, <1>3, <1>4, <1>5, <1>6, <1>7, <1>8, <1>9 DEF Tick

\* Nothing else touches what Lifecycle sees, but a new process.
LEMMA RestMaps ==
    Publish \/ Tray \/ Click \/ DelayPasses \/ Move \/ Restart => [Abstract!Next]_(Abstract!vars)
<1>1. Publish => UNCHANGED AbstractVars
  BY DEF Publish, AbstractVars
<1>2. Tray => UNCHANGED AbstractVars
  BY DEF Tray, TrayReads, TrayUpdates, appVars, AbstractVars
<1>3. Click \/ Move => UNCHANGED AbstractVars
  BY DEF Click, Move, appVars, AbstractVars
<1>4. DelayPasses => UNCHANGED AbstractVars
  BY DEF DelayPasses, AbstractVars
<1>5. ASSUME Restart PROVE Abstract!Next
  <2>1. Abstract!Fresh'
    BY <1>5 DEF Restart, Abstract!Fresh, May
  <2>2. config' = disk' /\ (disk' = disk \/ disk' = EmptyFile)
    BY <1>5 DEF Restart
  <2>3. Abstract!Begin
    BY <2>1, <2>2 DEF Abstract!Begin, Abstract!Remembers, Abstract!Nothing, EmptyFile
  <2> QED
    BY <2>3 DEF Abstract!Next
<1> QED
  BY <1>1, <1>2, <1>3, <1>4, <1>5, Stutters

\* The app keeps the promises of Lifecycle, for any headphones and bounds: it
\* attaches unasked only at startup and while it waits for a lost link, to the
\* remembered device, for a user who opted in and has not left since.
THEOREM LifecycleImplemented == Spec => LifecycleKept
<1>1. Invariant /\ [Next]_vars => [Abstract!Next]_(Abstract!vars)
  <2>1. UNCHANGED vars => UNCHANGED AbstractVars
    BY DEF vars, appVars, AbstractVars
  <2> QED
    BY <2>1, Stutters, CommandMaps, TickMaps, RestMaps DEF Next, Loop
<1> QED
  BY <1>1, InitMaps, InitInvariant, StepInvariant, PTL
  DEF Spec, LifecycleKept, Abstract!Spec
=============================================================================
