------------------------------- MODULE Engine -------------------------------
(***************************************************************************)
(* The protocol engine of src/src/device/engine.rs: a task is a queue of   *)
(* steps, a step sends one command or waits for one kind of frame, and     *)
(* poll() drives everything: deadline, flush, read, one frame, completion. *)
(*                                                                         *)
(* poll() gives up control at each await, so each of its numbered stages   *)
(* is an action and pc names the stage that runs next.  Commands are       *)
(* abstract bodies; their byte layout is not modelled here.                *)
(***************************************************************************)
EXTENDS Integers, Sequences, FiniteSets

CONSTANTS
    Plain,        \* settings every device has (volume, auto power off, ...)
    General,      \* general settings: each behind its own table-1 function
    PlainOrder,   \* the order in which the builders visit Plain ...
    GeneralOrder, \* ... and General (the code's index 0..3)
    Values,       \* the values of a setting
    Default,      \* the value Properties::default gives
    Keys,         \* playback keys: PlaybackControl without KeyOff
    KeyOff,       \* "no key pressed"
    None,         \* absence: of an argument, a value, a commit group
    MaxRetries,   \* MAX_STEP_RETRIES
    BatchLimit    \* events one tick collects before it stops polling (8)

Settings  == Plain \union General
Functions == {"Table2", "PairedList"} \union General

IsOrderOf(order, S) ==
    /\ order \in Seq(S)
    /\ \A s \in S : \E i \in DOMAIN order : order[i] = s
    /\ \A i, j \in DOMAIN order : order[i] = order[j] => i = j

ASSUME OrderAssumption ==
    IsOrderOf(PlainOrder, Plain) /\ IsOrderOf(GeneralOrder, General)
ASSUME DisjointAssumption ==
    /\ Plain \intersect General = {}
    /\ General \intersect {"Table2", "PairedList"} = {}
    /\ None \notin Settings /\ KeyOff \notin Keys
ASSUME ValueAssumption == Default \in Values
ASSUME LimitAssumption == MaxRetries \in Nat /\ BatchLimit \in Nat \ {0}

VARIABLES
    props,      \* [Settings -> [desired, current]]
    key,        \* play_control.desired; its current is KeyOff at all times
    support,    \* the Functions known to be advertised
    caps,       \* gs_capabilities, in order of arrival
    task,       \* the Task in progress
    txSeq,      \* sequence number of the next data frame sent
    sendBuf,    \* frames queued for sending
    recvBuf,    \* frames received and not yet processed
    pc,         \* the stage of poll() that runs next; "rest" between ticks
    pending,    \* events collected in this tick that the app acts on
    batch,      \* how many events this tick has collected
    link,       \* "none": no engine; "up"; "broken": every I/O call fails
    toDevice,   \* the connection: frames on their way to the headphones ...
    fromDevice  \* ... and back

engineVars == <<props, key, support, caps, task, txSeq, sendBuf, recvBuf,
                pc, pending, batch>>
wireVars   == <<link, toDevice, fromDevice>>

---------------------------------------------------------------------------
(* Commands and frames *)

Body(op, arg, val) == [op |-> op, arg |-> arg, val |-> val]
NoBody             == Body("None", None, None)
Get(op)            == Body(op, None, None)

AckFrame             == [type |-> "Ack"]
DataFrame(seq, body) == [type |-> "Data", seq |-> seq, body |-> body]

(* Steps *)

Send(body)            == [kind |-> "Send", body |-> body, commit |-> None]
SendCommit(body, s)   == [kind |-> "Send", body |-> body, commit |-> s]
Await(wait)           == [kind |-> "Await", wait |-> wait]
If(function, inner)   == [kind |-> "If", cond |-> function, inner |-> inner]
Done(event)           == [kind |-> "Done", event |-> event]

Task(steps) == [running |-> TRUE, steps |-> steps, deadline |-> "none",
                wait |-> "None", last |-> NoBody, retries |-> 0]
NoTask      == [Task(<<>>) EXCEPT !.running = FALSE]

IsReady == ~task.running
Dirty   == {s \in Settings : props[s].desired # props[s].current}
IsDirty == Dirty # {} \/ key # KeyOff

---------------------------------------------------------------------------
(* Task builders *)

\* A builder passes every setting and may leave its step out: an If that
\* never opens stands for a step that was not built.
NoStep == If(None, <<>>)
Each(order, Step(_)) == [i \in DOMAIN order |-> Step(order[i])]

\* Protocol info, then the support tables, each with its wait.
TableTwoFirst ==  \* mutant: the condition on table 2 comes before the protocol info
    <<If("Table2", <<Send(Get("GetSupport2")), Await("SupportFunction")>>),
      Send(Get("GetProtocolInfo")), Await("ProtocolInfo"),
      Send(Get("GetSupport")), Await("SupportFunction"),
      If("PairedList", <<Send(Get("GetPairedList"))>>)>>

InitTables ==
    <<Send(Get("GetProtocolInfo")), Await("ProtocolInfo"),
      Send(Get("GetSupport")), Await("SupportFunction"),
      If("Table2", <<Send(Get("GetSupport2")), Await("SupportFunction")>>),
      If("PairedList", <<Send(Get("GetPairedList"))>>)>>

\* The general settings: what they are, and their values.
InitGeneral ==
    Each(GeneralOrder, LAMBDA s : If(s, <<Send(Body("GetCapability", s, None)),
                                          Send(Body("GetParam", s, None))>>))

\* Every other value that can be read.
InitPlain == Each(PlainOrder, LAMBDA s : Send(Body("GetParam", s, None)))

BuildInitSteps == InitTables \o InitGeneral \o InitPlain \o <<Done("InitOk")>>

\* The periodic sync reads batteries and the multipoint list: no setting.
BuildSyncSteps ==
    <<If("PairedList", <<Send(Get("GetPairedList"))>>), Done("SyncOk")>>

CommitStep(s) == SendCommit(Body("SetParam", s, props[s].desired), s)

KeyOnItsOwn ==  \* mutant: a key waits for a commit without settings
    Each(PlainOrder, LAMBDA s : IF s \in Dirty THEN CommitStep(s) ELSE NoStep)
    \o <<IF key = KeyOff \/ Dirty # {} THEN NoStep ELSE Send(Body("Key", None, key))>>
    \o Each(GeneralOrder, LAMBDA s : IF s \in support \intersect Dirty
                                     THEN CommitStep(s) ELSE NoStep)
    \o <<Done("CommitOk")>>

\* One step per dirty setting the device supports, with the value desired
\* now.  A key press is sent without a commit: it was cleared already.
BuildCommitSteps ==
    Each(PlainOrder, LAMBDA s : IF s \in Dirty THEN CommitStep(s) ELSE NoStep)
    \o <<IF key = KeyOff THEN NoStep ELSE Send(Body("Key", None, key))>>
    \o Each(GeneralOrder, LAMBDA s : IF s \in support \intersect Dirty
                                     THEN CommitStep(s) ELSE NoStep)
    \o <<Done("CommitOk")>>

---------------------------------------------------------------------------
(* Task scheduling *)

Opened(step, known) ==
    IF step.kind # "If" THEN <<step>>
    ELSE IF step.cond \in known THEN step.inner ELSE <<>>

\* The steps left once every conditional step at the front is resolved.
Unfold(steps, known) ==
    LET kept == {i \in DOMAIN steps : Opened(steps[i], known) # <<>>}
    IN  IF kept = {} THEN <<>>
        ELSE LET k == CHOOSE i \in kept : \A j \in kept : i <= j
             IN  Opened(steps[k], known) \o SubSeq(steps, k + 1, Len(steps))

SeqIncremented == txSeq + 1  \* mutant: counted, not toggled
NextSeq        == 1 - txSeq

\* advance_task: starts the first step of t.  Only a Send touches the buffer.
Advanced(t, buf, known) ==
    LET rest  == Unfold(t.steps, known)
        front == IF rest = <<>> THEN Done("None") ELSE Head(rest)
        waiting(wait, body) ==
            [t EXCEPT !.steps = rest, !.wait = wait, !.deadline = "running",
                      !.last = body, !.retries = 0]
    IN  CASE front.kind = "Send" ->
               [task |-> waiting("Ack", front.body), seq |-> NextSeq,
                buf  |-> Append(buf, DataFrame(txSeq, front.body))]
          [] front.kind = "Await" ->
               [task |-> waiting(front.wait, t.last), seq |-> txSeq, buf |-> buf]
          [] OTHER ->
               [task |-> [t EXCEPT !.steps = rest], seq |-> txSeq, buf |-> buf]

AtDone(t) == t.running /\ t.steps # <<>> /\ Head(t.steps).kind = "Done"

\* What one poll() call hands to the app; the app acts on these two only.
Emit(event) ==
    /\ pending' = IF event \in {"InitOk", "Fatal"}
                  THEN pending \union {event} ELSE pending
    /\ batch' = batch + 1
    /\ pc' = IF batch + 1 >= BatchLimit THEN "tick" ELSE "deadline"

StayQuiet(stage) == pc' = stage /\ UNCHANGED <<pending, batch>>

\* request_init, request_sync, request_commit, once the guards passed.
StartTask(steps, known) ==
    LET next == Advanced(Task(steps), sendBuf, known)
    IN  task' = next.task /\ txSeq' = next.seq /\ sendBuf' = next.buf

Committed(step) ==
    IF step.kind = "Send" /\ step.commit # None
    THEN [props EXCEPT ![step.commit].current = props[step.commit].desired]
    ELSE props

\* advance_on and the step_completed that ends it.  An ACK is not compared
\* with the frame it answers.
AdvanceOn(wait, buf, known) ==
    IF task.wait = wait
    THEN LET left == [task EXCEPT !.wait = "None", !.deadline = "none",
                                  !.steps = Tail(@)]
             next == Advanced(left, buf, known)
         IN  /\ props' = Committed(Head(task.steps))
             /\ txSeq' = next.seq
             /\ sendBuf' = next.buf
             /\ IF AtDone(next.task)
                THEN task' = NoTask /\ Emit(Head(next.task.steps).event)
                ELSE task' = next.task /\ StayQuiet("tail")
    ELSE sendBuf' = buf /\ StayQuiet("tail") /\ UNCHANGED <<props, task, txSeq>>

---------------------------------------------------------------------------
(* poll(), stage by stage *)

\* 1. Step deadline: not yet passed, ...
DeadlineOpen ==
    /\ pc \in {"rest", "deadline"} /\ link # "none"
    /\ task.deadline # "passed"
    /\ StayQuiet("flush")
    /\ UNCHANGED <<props, key, support, caps, task, txSeq, sendBuf, recvBuf>>

DeadlineForgotten(t) ==  \* mutant: the deadline is not set again
    [t EXCEPT !.retries = @ + 1, !.deadline = "none"]
Rearmed(t) == [t EXCEPT !.retries = @ + 1, !.deadline = "running"]

SameNumberAgain ==  \* mutant: the repeat carries the number of the original
    /\ pc \in {"rest", "deadline"} /\ link # "none"
    /\ task.deadline = "passed" /\ task.retries < MaxRetries /\ task.last # NoBody
    /\ sendBuf' = Append(sendBuf, DataFrame(1 - txSeq, task.last))
    /\ task' = Rearmed(task)
    /\ StayQuiet("flush")
    /\ UNCHANGED <<props, key, support, caps, txSeq, recvBuf>>

\* ... passed with retries left: the last command again, under a fresh number, ...
Retransmit ==
    /\ pc \in {"rest", "deadline"} /\ link # "none"
    /\ task.deadline = "passed" /\ task.retries < MaxRetries /\ task.last # NoBody
    /\ sendBuf' = Append(sendBuf, DataFrame(txSeq, task.last))
    /\ txSeq' = NextSeq
    /\ task' = Rearmed(task)
    /\ StayQuiet("flush")
    /\ UNCHANGED <<props, key, support, caps, recvBuf>>

GivenUpAsDone ==  \* mutant: the task is completed, not failed
    /\ pc \in {"rest", "deadline"} /\ link # "none"
    /\ task.deadline = "passed"
    /\ task.retries >= MaxRetries \/ task.last = NoBody
    /\ task' = NoTask
    /\ Emit("CommitOk")
    /\ UNCHANGED <<props, key, support, caps, txSeq, sendBuf, recvBuf>>

\* ... or passed for the last time: fail_task.
GiveUp ==
    /\ pc \in {"rest", "deadline"} /\ link # "none"
    /\ task.deadline = "passed"
    /\ task.retries >= MaxRetries \/ task.last = NoBody
    /\ task' = NoTask
    /\ Emit("Fatal")
    /\ UNCHANGED <<props, key, support, caps, txSeq, sendBuf, recvBuf>>

\* 2. Flush: the transport takes every queued frame.
FlushSendBuf ==
    /\ pc = "flush" /\ (link = "up" \/ sendBuf = <<>>)
    /\ toDevice' = toDevice \o sendBuf
    /\ sendBuf' = <<>>
    /\ StayQuiet("read")
    /\ UNCHANGED <<props, key, support, caps, task, txSeq, recvBuf, link, fromDevice>>

\* 3. Read: whatever has arrived, or a quiet poll.
ReadFrames ==
    /\ pc = "read" /\ link = "up"
    /\ recvBuf' = recvBuf \o fromDevice
    /\ fromDevice' = <<>>
    /\ StayQuiet("frame")
    /\ UNCHANGED <<props, key, support, caps, task, txSeq, sendBuf, link, toDevice>>

\* 2. or 3. on a dead transport: the error event.
TransportError ==
    /\ link = "broken"
    /\ \/ pc = "read"
       \/ pc = "flush" /\ sendBuf # <<>>
    /\ sendBuf' = <<>>
    /\ Emit("Fatal")
    /\ UNCHANGED <<props, key, support, caps, task, txSeq, recvBuf, wireVars>>

\* 4. One frame: nothing buffered, ...
NoFrame ==
    /\ pc = "frame" /\ recvBuf = <<>>
    /\ StayQuiet("tail")
    /\ UNCHANGED <<props, key, support, caps, task, txSeq, sendBuf, recvBuf>>

\* ... an ACK, ...
HandleAck ==
    /\ pc = "frame" /\ recvBuf # <<>> /\ Head(recvBuf).type = "Ack"
    /\ recvBuf' = Tail(recvBuf)
    /\ AdvanceOn("Ack", sendBuf, support)
    /\ UNCHANGED <<key, support, caps>>

\* ... or data, which is ACKed before anything else.
Incoming(op) ==
    /\ pc = "frame" /\ recvBuf # <<>>
    /\ Head(recvBuf).type = "Data" /\ Head(recvBuf).body.op = op
    /\ recvBuf' = Tail(recvBuf)
Acked == Append(sendBuf, AckFrame)

HandleProtocolInfo ==
    /\ Incoming("RetProtocolInfo")
    /\ support' = (support \ {"Table2"}) \union Head(recvBuf).body.val
    /\ AdvanceOn("ProtocolInfo", Acked, support')
    /\ UNCHANGED <<key, caps>>

\* Table 1 or table 2: the same wait, and functions are only ever added.
HandleSupportFunction ==
    /\ Incoming("RetSupport") \/ Incoming("RetSupport2")
    /\ support' = support \union Head(recvBuf).body.val
    /\ AdvanceOn("SupportFunction", Acked, support')
    /\ UNCHANGED <<key, caps>>

NewestFirst ==  \* mutant: put in front of those that are there
    /\ Incoming("RetCapability")
    /\ caps' = <<Head(recvBuf).body.arg>> \o caps
    /\ sendBuf' = Acked
    /\ Emit("Report")
    /\ UNCHANGED <<props, key, support, task, txSeq>>

\* A capability is pushed; nothing looks for one that is there already.
HandleCapability ==
    /\ Incoming("RetCapability")
    /\ caps' = Append(caps, Head(recvBuf).body.arg)
    /\ sendBuf' = Acked
    /\ Emit("Report")
    /\ UNCHANGED <<props, key, support, task, txSeq>>

ReportsIgnored ==  \* mutant: while a task is in progress
    /\ Incoming("RetParam")
    /\ LET body == Head(recvBuf).body
       IN  props' = IF task.running THEN props
                    ELSE [props EXCEPT ![body.arg] =
                             [desired |-> body.val, current |-> body.val]]
    /\ sendBuf' = Acked
    /\ Emit("Report")
    /\ UNCHANGED <<key, support, caps, task, txSeq>>

\* A parameter report, asked for or not, overwrites desired and current.
HandleParam ==
    /\ Incoming("RetParam")
    /\ LET body == Head(recvBuf).body
       IN  props' = [props EXCEPT ![body.arg] =
                        [desired |-> body.val, current |-> body.val]]
    /\ sendBuf' = Acked
    /\ Emit("Report")
    /\ UNCHANGED <<key, support, caps, task, txSeq>>

\* The multipoint list has no setting in it.
HandlePairedList ==
    /\ Incoming("RetPairedList")
    /\ sendBuf' = Acked
    /\ Emit("Report")
    /\ UNCHANGED <<props, key, support, caps, task, txSeq>>

\* 5. A task that is down to Done completes; then the tick has its answer.
StepCompleted ==
    /\ pc = "tail"
    /\ IF AtDone(task)
       THEN task' = NoTask /\ Emit(Head(task.steps).event)
       ELSE UNCHANGED task /\ StayQuiet("tick")
    /\ UNCHANGED <<props, key, support, caps, txSeq, sendBuf, recvBuf>>

\* Engine::poll
Poll ==
    \/ FlushSendBuf \/ ReadFrames \/ TransportError
    \/ /\ \/ DeadlineOpen \/ Retransmit \/ GiveUp
          \/ NoFrame \/ HandleAck
          \/ HandleProtocolInfo \/ HandleSupportFunction
          \/ HandleCapability \/ HandleParam \/ HandlePairedList
          \/ StepCompleted
       /\ UNCHANGED wireVars

\* STEP_TIMEOUT elapses.
DeadlinePasses ==
    /\ task.deadline = "running"
    /\ task' = [task EXCEPT !.deadline = "passed"]

=============================================================================
