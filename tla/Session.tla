------------------------------ MODULE Session -------------------------------
(***************************************************************************)
(* One application, one pair of headphones: the engine of module Engine,   *)
(* the part of AppCore::tick (src/src/app.rs) that starts its tasks and    *)
(* drops it, the user's commands, the connection and the headphones.       *)
(*                                                                         *)
(* The headphones are not in the repository.  They are modelled from what  *)
(* the engine says of them: they ACK a data frame first and answer it      *)
(* afterwards, and they drop a frame whose sequence number repeats that of *)
(* the last one they took (engine.rs, send_command).                       *)
(***************************************************************************)
EXTENDS Engine

CONSTANTS
    Advertised,   \* the sets of functions the headphones may advertise
    Echo,         \* do they report a value the app has just set?
    MaxEdits,     \* bound: settings the user changes in the app
    MaxKeys,      \* bound: playback keys the user presses in the app
    MaxChanges,   \* bound: values changed on the headphones themselves
    MaxLost,      \* bound: data frames lost on the way to the headphones
    MaxMissed,    \* bound: frames lost on the way back
    MaxLate,      \* bound: timeouts that elapse while an answer is on its way
    MaxBreaks     \* bound: connections that die or are closed by the user

ASSUME AdvertisedAssumption ==
    /\ Advertised \subseteq SUBSET Functions
    /\ \A fns \in Advertised : "PairedList" \in fns => "Table2" \in fns
ASSUME SwitchAssumption == Echo \in BOOLEAN
ASSUME NumberAssumption == None \notin {0, 1}  \* no number is not a number
ASSUME BoundAssumption ==
    {MaxEdits, MaxKeys, MaxChanges, MaxLost, MaxMissed, MaxLate, MaxBreaks} \subseteq Nat

VARIABLES
    devVal,   \* the value of each setting in the headphones
    devFns,   \* what they advertise
    devSeq,   \* sequence number of the last data frame they took; None: no frame
    ran,      \* keys they executed on this connection
    built,    \* keys the engine turned into a command on this connection
    dropped,  \* frames they dropped as repeats
    spent     \* how much of each bound is used up

deviceVars == <<devVal, devFns, devSeq, ran, dropped>>
vars == <<engineVars, wireVars, deviceVars, built, spent>>

Spend(what, bound) == spent[what] < bound /\ spent' = [spent EXCEPT ![what] = @ + 1]

InFlight == <<sendBuf, toDevice, fromDevice, recvBuf>>
Quiet    == InFlight = <<<<>>, <<>>, <<>>, <<>>>>

---------------------------------------------------------------------------
(* AppCore *)

\* Engine::new
NewProps == [s \in Settings |-> [desired |-> Default, current |-> Default]]

NewEngine ==
    /\ props = NewProps /\ key = KeyOff /\ support = {} /\ caps = <<>>
    /\ task = NoTask /\ txSeq = 0 /\ sendBuf = <<>> /\ recvBuf = <<>>
    /\ pc = "rest" /\ pending = {} /\ batch = 0

\* What is left of an engine that is dropped: the next one starts from here.
DropEngine ==
    /\ props' = NewProps /\ key' = KeyOff /\ support' = {} /\ caps' = <<>>
    /\ task' = NoTask /\ txSeq' = 0 /\ sendBuf' = <<>> /\ recvBuf' = <<>>
    /\ pc' = "rest" /\ pending' = {} /\ batch' = 0

Init ==
    /\ NewEngine
    /\ link = "none" /\ toDevice = <<>> /\ fromDevice = <<>>
    /\ devVal \in [Settings -> Values] /\ devFns \in Advertised /\ devSeq = None
    /\ ran = 0 /\ built = 0 /\ dropped = 0
    /\ spent = [edits |-> 0, keys |-> 0, changes |-> 0, lost |-> 0, missed |-> 0,
                late |-> 0, breaks |-> 0]

\* ConnState::Connecting with a transport that connects: a new engine, whose
\* first task is the init handshake.
Attach ==
    /\ link = "none"
    /\ link' = "up"
    /\ StartTask(BuildInitSteps, support)
    /\ UNCHANGED <<props, key, support, caps, recvBuf, pc, pending, batch,
                   toDevice, fromDevice, deviceVars, built, spent>>

\* teardown: the engine goes and with it the connection.
CloseConnection ==
    /\ DropEngine
    /\ link' = "none" /\ toDevice' = <<>> /\ fromDevice' = <<>>
    /\ devSeq' = None /\ ran' = 0 /\ built' = 0
    /\ UNCHANGED <<devVal, devFns, dropped>>

Teardown == "Fatal" \in pending /\ CloseConnection /\ UNCHANGED spent

\* What a tick does with the engine once it has polled it.
StartSync ==
    /\ StartTask(BuildSyncSteps, support)
    /\ UNCHANGED <<props, key, built>>

AfterInit    == "InitOk" \in pending /\ IsReady /\ StartSync

AutoCommit ==
    /\ pending = {} /\ IsReady /\ IsDirty
    /\ StartTask(BuildCommitSteps, support)
    /\ key' = KeyOff
    /\ built' = IF key = KeyOff THEN built ELSE built + 1
    /\ UNCHANGED props

PeriodicSync == pending = {} /\ IsReady /\ ~IsDirty /\ StartSync

NothingDue ==
    /\ pending = {}
    /\ ~IsReady \/ ~IsDirty
    /\ UNCHANGED <<props, key, built, task, txSeq, sendBuf>>

Tick ==
    /\ pc = "tick"
    /\ \/ Teardown
       \/ /\ "Fatal" \notin pending
          /\ AfterInit \/ AutoCommit \/ PeriodicSync \/ NothingDue
          /\ pc' = "rest" /\ pending' = {} /\ batch' = 0
          /\ UNCHANGED <<support, caps, recvBuf, wireVars, deviceVars, spent>>

\* User commands run between ticks, on the engine if there is one.
Edit(s, v) ==
    /\ pc = "rest" /\ link # "none" /\ props[s].desired # v
    /\ Spend("edits", MaxEdits)
    /\ props' = [props EXCEPT ![s].desired = v]
    /\ UNCHANGED <<key, support, caps, task, txSeq, sendBuf, recvBuf, pc, pending,
                   batch, wireVars, deviceVars, built>>

\* The settings menu has one entry per capability; entry i sets general setting
\* i, whichever it names (without a gap in front the same: CapabilityPerSetting).
EditGeneral(i, v) ==
    /\ i \in DOMAIN caps \intersect DOMAIN GeneralOrder
    /\ Edit(GeneralOrder[i], v)

PressKey(k) ==
    /\ pc = "rest" /\ link # "none" /\ key # k
    /\ Spend("keys", MaxKeys)
    /\ key' = k
    /\ UNCHANGED <<props, support, caps, task, txSeq, sendBuf, recvBuf, pc, pending,
                   batch, wireVars, deviceVars, built>>

RefreshWhileBusy ==  \* mutant: a refresh does not look for a task in progress
    /\ pc = "rest" /\ link # "none"
    /\ StartSync
    /\ UNCHANGED <<support, caps, recvBuf, pc, pending, batch, wireVars, deviceVars,
                   spent>>

\* "Refresh" asks for a sync; with a task in progress it is refused.
RefreshSync ==
    /\ pc = "rest" /\ link # "none" /\ IsReady
    /\ StartSync
    /\ UNCHANGED <<support, caps, recvBuf, pc, pending, batch, wireVars, deviceVars,
                   spent>>

Disconnect ==
    /\ pc = "rest" /\ link # "none"
    /\ Spend("breaks", MaxBreaks)
    /\ CloseConnection

---------------------------------------------------------------------------
(* The headphones and the connection (external) *)

Report(op, arg, val) == <<[type |-> "Data", body |-> Body(op, arg, val)]>>

Answer(body) ==
    CASE body.op = "GetProtocolInfo" ->
           Report("RetProtocolInfo", None, devFns \intersect {"Table2"})
      [] body.op = "GetSupport"  -> Report("RetSupport", None, devFns \intersect General)
      [] body.op = "GetSupport2" ->
           Report("RetSupport2", None, devFns \intersect {"PairedList"})
      [] body.op = "GetPairedList" -> Report("RetPairedList", None, None)
      [] body.op = "GetCapability" -> Report("RetCapability", body.arg, None)
      [] body.op = "GetParam" -> Report("RetParam", body.arg, devVal[body.arg])
      [] body.op = "SetParam" /\ Echo -> Report("RetParam", body.arg, body.val)
      [] OTHER -> <<>>

Arrived(type) == toDevice # <<>> /\ Head(toDevice).type = type

DeviceTakes ==
    /\ Arrived("Data") /\ Head(toDevice).seq # devSeq
    /\ LET body == Head(toDevice).body IN
       /\ fromDevice' = fromDevice \o <<AckFrame>> \o Answer(body)
       /\ devVal' = IF body.op = "SetParam"
                    THEN [devVal EXCEPT ![body.arg] = body.val] ELSE devVal
       /\ ran' = IF body.op = "Key" THEN ran + 1 ELSE ran
    /\ devSeq' = Head(toDevice).seq
    /\ toDevice' = Tail(toDevice)
    /\ UNCHANGED <<engineVars, link, devFns, dropped, built, spent>>

DeviceDropsRepeat ==
    /\ Arrived("Data") /\ Head(toDevice).seq = devSeq
    /\ dropped' = dropped + 1
    /\ toDevice' = Tail(toDevice)
    /\ UNCHANGED <<engineVars, link, fromDevice, devVal, devFns, devSeq, ran, built, spent>>

DeviceTakesAck ==
    /\ Arrived("Ack")
    /\ toDevice' = Tail(toDevice)
    /\ UNCHANGED <<engineVars, link, fromDevice, deviceVars, built, spent>>

\* Someone turns a knob on the headphones: they notify.
DeviceChanges(s, v) ==
    /\ devVal[s] # v /\ s \in Plain \union devFns
    /\ Spend("changes", MaxChanges)
    /\ devVal' = [devVal EXCEPT ![s] = v]
    /\ fromDevice' = IF link = "up" THEN fromDevice \o Report("RetParam", s, v)
                     ELSE fromDevice
    /\ UNCHANGED <<engineVars, link, toDevice, devFns, devSeq, ran, dropped, built>>

LoseCommand ==
    /\ Arrived("Data") /\ Spend("lost", MaxLost)
    /\ toDevice' = Tail(toDevice)
    /\ UNCHANGED <<engineVars, link, fromDevice, deviceVars, built>>

LoseAnswer ==
    /\ fromDevice # <<>> /\ Spend("missed", MaxMissed)
    /\ fromDevice' = Tail(fromDevice)
    /\ UNCHANGED <<engineVars, link, toDevice, deviceVars, built>>

LinkBreaks ==
    /\ link = "up" /\ Spend("breaks", MaxBreaks)
    /\ link' = "broken" /\ toDevice' = <<>> /\ fromDevice' = <<>>
    /\ UNCHANGED <<engineVars, deviceVars, built>>

Device == DeviceTakes \/ DeviceDropsRepeat \/ DeviceTakesAck

\* Time passes: an answer that is under way arrives first, but for the late ones.
Timeout ==
    /\ IF Quiet THEN UNCHANGED spent ELSE Spend("late", MaxLate)
    /\ DeadlinePasses
    /\ UNCHANGED <<props, key, support, caps, txSeq, sendBuf, recvBuf, pc, pending,
                   batch, wireVars, deviceVars, built>>

---------------------------------------------------------------------------
EngineStep == Poll /\ UNCHANGED <<deviceVars, built, spent>>

User ==
    \/ \E s \in Plain, v \in Values : Edit(s, v)
    \/ \E i \in DOMAIN GeneralOrder, v \in Values : EditGeneral(i, v)
    \/ \E k \in Keys : PressKey(k)
    \/ RefreshSync \/ Disconnect

Environment ==
    \/ \E s \in Settings, v \in Values : DeviceChanges(s, v)
    \/ LoseCommand \/ LoseAnswer \/ LinkBreaks

Next == EngineStep \/ Tick \/ Attach \/ Timeout \/ Device \/ User \/ Environment

Spec == Init /\ [][Next]_vars

\* The event loop polls and ticks for ever and time passes; the headphones
\* answer.  Nobody has to press, change, lose or break anything, and nobody has
\* to connect: when the app does so by itself is for AppCore to say.
FairSpec ==
    /\ Spec
    /\ WF_vars(EngineStep) /\ WF_vars(Tick) /\ WF_vars(Timeout) /\ WF_vars(Device)

---------------------------------------------------------------------------
(* Properties *)

Requests ==
    [op : {"GetProtocolInfo", "GetSupport", "GetSupport2", "GetPairedList"},
     arg : {None}, val : {None}]
    \union [op : {"GetCapability"}, arg : General, val : {None}]
    \union [op : {"GetParam"}, arg : Settings, val : {None}]
    \union [op : {"SetParam"}, arg : Settings, val : Values]
    \union [op : {"Key"}, arg : {None}, val : Keys]

Reports ==
    [op : {"RetProtocolInfo", "RetSupport", "RetSupport2"}, arg : {None},
     val : SUBSET Functions]
    \union [op : {"RetPairedList"}, arg : {None}, val : {None}]
    \union [op : {"RetCapability"}, arg : General, val : {None}]
    \union [op : {"RetParam"}, arg : Settings, val : Values]

Outgoing == {AckFrame} \union [type : {"Data"}, seq : 0..1, body : Requests]
Incomings == {AckFrame} \union [type : {"Data"}, body : Reports]

Waits     == {"Ack", "ProtocolInfo", "SupportFunction"}
SendSteps == [kind : {"Send"}, body : Requests, commit : Settings \union {None}]
                 \union [kind : {"Await"}, wait : Waits]
IfSteps   == [kind : {"If"}, cond : Functions \union {None}, inner : Seq(SendSteps)]
DoneSteps == [kind : {"Done"}, event : {"InitOk", "SyncOk", "CommitOk"}]
Steps     == SendSteps \union IfSteps \union DoneSteps

Tasks == [running : BOOLEAN, steps : Seq(Steps), wait : Waits \union {"None"},
          deadline : {"none", "running", "passed"}, last : Requests \union {NoBody},
          retries : 0..MaxRetries]

Counts == {"edits", "keys", "changes", "lost", "missed", "late", "breaks"}

EngineTypes ==
    /\ props \in [Settings -> [desired : Values, current : Values]]
    /\ key \in Keys \union {KeyOff}
    /\ support \subseteq Functions /\ caps \in Seq(General)
    /\ task \in Tasks /\ txSeq \in 0..1
    /\ pc \in {"rest", "deadline", "flush", "read", "frame", "tail", "tick"}
    /\ pending \subseteq {"InitOk", "Fatal"} /\ batch \in 0..BatchLimit

WireTypes ==
    /\ link \in {"none", "up", "broken"}
    /\ sendBuf \in Seq(Outgoing) /\ toDevice \in Seq(Outgoing)
    /\ recvBuf \in Seq(Incomings) /\ fromDevice \in Seq(Incomings)

DeviceTypes ==
    /\ devVal \in [Settings -> Values] /\ devFns \in Advertised
    /\ devSeq \in {None, 0, 1}
    /\ ran \in Nat /\ built \in Nat /\ dropped \in Nat
    /\ spent \in [Counts -> Nat]

\* Every variable has its type.
TypeOK == EngineTypes /\ WireTypes /\ DeviceTypes

\* A task in progress can always go on: it has steps left, the last of them
\* and only that one is Done, and unless the first is Done there is something
\* awaited and a deadline for it (advance_task,
\* advance_on: a task with no steps, or with no deadline, would never end).
EndsInDone(steps) ==
    /\ steps # <<>>
    /\ \A i \in DOMAIN steps : steps[i].kind = "Done" <=> i = Len(steps)

TaskCanProceed ==
    task.running =>
        /\ EndsInDone(task.steps)
        /\ Head(task.steps).kind # "If"
        /\ task.wait # "None" <=> Head(task.steps).kind # "Done"
        /\ task.wait # "None" <=> task.deadline # "none"

Established == link = "up" /\ IsReady /\ pending = {}

\* With the init handshake behind it, the engine knows exactly what the
\* headphones advertise: it asked for table 2 if there is one, and did not go
\* on before that table had arrived (IfTable2 and the waits behind it), on
\* which every step that is conditional on it depends (IfSupport2Any).
SupportComplete == Established => support = devFns

\* The settings menu has an entry for each capability, by place, and entry i sets
\* general setting i.  While no answer is late the entries are those of the
\* headphones in the order of the settings, whatever is lost and asked for again,
\* and each answer that is lost costs at most one of them: it is there twice, or
\* not at all.  When none is lost and the headphones have the first settings
\* without a gap, every entry sets what it names.
Precedes(s, t) ==
    \E i, j \in DOMAIN GeneralOrder : i < j /\ GeneralOrder[i] = s /\ GeneralOrder[j] = t

Repeated == {i \in DOMAIN caps : \E j \in 1..(i - 1) : caps[j] = caps[i]}
Absent   == (devFns \intersect General) \ {caps[i] : i \in DOMAIN caps}
NoGap    == \A s, t \in General : Precedes(s, t) /\ t \in devFns => s \in devFns

CapabilityPerSetting ==
    Established /\ spent.late = 0 =>
        /\ \A i \in DOMAIN caps : caps[i] \in devFns
        /\ \A i, j \in DOMAIN caps : i < j => caps[i] = caps[j] \/ Precedes(caps[i], caps[j])
        /\ Cardinality(Repeated) + Cardinality(Absent) <= spent.missed
        /\ spent.missed = 0 /\ NoGap =>
               \A i \in DOMAIN caps : i \in DOMAIN GeneralOrder /\ caps[i] = GeneralOrder[i]

\* When nothing is under way and no answer was lost or late, what the app shows
\* for a setting that has no edit pending is what the headphones have, whatever
\* was edited in the app during a commit, changed on the headphones meanwhile,
\* or lost on the way to them.
QuietAgreement ==
    Established /\ Quiet /\ spent.missed = 0 /\ spent.late = 0 =>
        \A s \in (Plain \union support) \intersect Settings :
            s \in Dirty \/ props[s].current = devVal[s]

\* A key that was sent has run exactly once when its task is over, however
\* many commands were lost and sent again, unless an answer was lost or late.
KeyExactlyOnce ==
    Established /\ Quiet /\ spent.missed = 0 /\ spent.late = 0 => ran = built

\* A key that was sent has run when its task is over, unless the task failed.
\* (A late answer leaves an ACK over, which may pass for that of a lost key.)
KeyNotSkipped == Established /\ Quiet /\ spent.late = 0 => ran >= built

\* Retransmissions, ACKs sent in between and resolved conditional steps never
\* make the headphones take a new command for a repeat: every frame they
\* drop for its number is paid for by one that was lost before.
DropsNeedLosses == dropped <= spent.lost

\* The frames between the engine and the headphones, first to last.
Line == toDevice \o sendBuf

\* While no answer is late, at most one command is on its way, and it is the
\* one the task waits for: a retransmission, a refresh or a commit never puts
\* a second one behind it.
StopAndWait ==
    link = "up" /\ spent.late = 0 =>
        /\ \A i, j \in DOMAIN Line :
               Line[i].type = "Data" /\ Line[j].type = "Data" => i = j
        /\ \A i \in DOMAIN Line : Line[i].type = "Data" =>
               task.running /\ task.wait # "None" /\ Line[i].body = task.last

\* One frame lost, either way, or one answer that is late, is never enough to
\* fail a task: the repeat that restores the alternation and the repeat that
\* gets through fit in MAX_STEP_RETRIES.
OneLossIsSurvived ==
    spent.lost + spent.missed + spent.late <= 1 /\ spent.breaks = 0
        => "Fatal" \notin pending

\* Every task ends, completed or failed, whatever the headphones do.
TaskEnds == task.running ~> ~task.running

\* Once the edits and changes are over, the app and the headphones end up in
\* agreement on every setting and nothing is left to commit, also by way of a new
\* connection after one that broke; unless the app stays disconnected for good.
Converges ==
    \/ <>[](link = "none")
    \/ <>[](\A s \in (Plain \union devFns) \intersect Settings :
                s \notin Dirty /\ props[s].current = devVal[s])
=============================================================================
