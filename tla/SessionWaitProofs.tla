------------------------- MODULE SessionWaitProofs --------------------------
(***************************************************************************)
(* Stop and wait: while no answer is late, one command at most is under    *)
(* way between the engine of Session and the headphones, or its ACK, or    *)
(* the support table it asked for.  On that rest what becomes of a key     *)
(* press and what the engine knows after its init handshake                *)
(* (SessionTaskProofs).                                                    *)
(***************************************************************************)
EXTENDS SessionLossProofs

\* The commands whose answer a task waits for, the wait, and the answer.
Asking == {"GetProtocolInfo", "GetSupport", "GetSupport2"}
WaitFor(op)   == IF op = "GetProtocolInfo" THEN "ProtocolInfo" ELSE "SupportFunction"
TableFor(op) ==
    CASE op = "GetProtocolInfo" -> "RetProtocolInfo"
      [] op = "GetSupport"      -> "RetSupport"
      [] OTHER                  -> "RetSupport2"
TableReports == {"RetProtocolInfo", "RetSupport", "RetSupport2"}

\* The frames on their way to the engine, first to last.
Replies == recvBuf \o fromDevice

Commands == {f \in Outgoing : f.type = "Data"}
Acks     == {AckFrame}
Tables   == {f \in Incomings : f.type = "Data" /\ f.body.op \in TableReports}
Marks    == Acks \union Tables

\* Where frames of a kind are in a sequence.
At(s, kind) == {i \in DOMAIN s : s[i] \in kind}

\* One command at most, or its ACK and the table it asked for, in that order.
OneUnderWay(line, replies) ==
    /\ \A i, j \in At(line, Commands) : i = j
    /\ \A i, j \in At(replies, Acks) : i = j
    /\ \A i, j \in At(replies, Tables) : i = j
    /\ At(line, Commands) # {} => At(replies, Acks) = {} /\ At(replies, Tables) = {}
    /\ \A i \in At(replies, Acks), j \in At(replies, Tables) : i < j

\* Whatever is under way is the business of the step that task t waits on.
ForTask(line, replies, t) ==
    /\ At(line, Commands) # {} \/ At(replies, Acks) # {} \/ At(replies, Tables) # {}
           => t.wait # "None" /\ t.deadline # "passed"
    /\ \A i \in At(line, Commands) : line[i].body = t.last
    /\ \A i \in At(replies, Tables) :
           t.last.op \in Asking /\ replies[i].body.op = TableFor(t.last.op)

---------------------------------------------------------------------------
(* The shape of a task *)

Asks(step) == step.kind = "Send" /\ step.body.op \in Asking

\* A command with an answer to wait for stands right before that wait, and
\* no wait stands anywhere else, but for the one the task is at.
Coupled(steps) ==
    \A i \in DOMAIN steps :
        /\ Asks(steps[i]) =>
               i + 1 \in DOMAIN steps /\ steps[i + 1] = Await(WaitFor(steps[i].body.op))
        /\ steps[i].kind = "Await" /\ i # 1 => Asks(steps[i - 1])

Shaped(steps) ==
    /\ Coupled(steps)
    /\ \A i \in DOMAIN steps :
           steps[i].kind = "If" /\ steps[i].inner # <<>> =>
               Coupled(steps[i].inner) /\ steps[i].inner[1].kind # "Await"

\* What a task awaits is what its first step and its last command call for.
AtStep(t) ==
    /\ t.wait = "Ack" => Head(t.steps).kind = "Send" /\ t.last = Head(t.steps).body
    /\ t.wait \notin {"None", "Ack"} =>
           /\ Head(t.steps) = Await(t.wait)
           /\ t.last.op \in Asking /\ t.wait = WaitFor(t.last.op)

TaskShape == task.running => Shaped(task.steps) /\ AtStep(task)

UnderWay == OneUnderWay(Line, Replies) /\ ForTask(Line, Replies, task)

WaitInv ==
    /\ LineInv
    /\ TaskShape
    /\ link = "up" /\ spent.late = 0 => UnderWay

TableTwoStep == If("Table2", <<Send(Get("GetSupport2")), Await("SupportFunction")>>)

\* What a table tells of the headphones.
Covered(op) ==
    CASE op = "RetProtocolInfo" -> {"Table2"}
      [] op = "RetSupport"      -> General
      [] OTHER                  -> {"PairedList"}

---------------------------------------------------------------------------
(* Frames of a kind in a sequence *)

\* The frames of a kind in s are among those in t, in the order they have there.
Within(s, t, kind) ==
    \E m \in [At(s, kind) -> At(t, kind)] :
        /\ \A i, j \in At(s, kind) : i < j => m[i] < m[j]
        /\ \A i \in At(s, kind) : s[i] = t[m[i]]

LEMMA WithinSame ==
    ASSUME NEW s, NEW kind
    PROVE  Within(s, s, kind)
<1> DEFINE m == [i \in At(s, kind) |-> i]
<1>1. m \in [At(s, kind) -> At(s, kind)]
    OBVIOUS
<1> QED BY <1>1 DEF Within

\* A sequence without one of its elements.
LEMMA WithinLess ==
    ASSUME NEW S, NEW u \in Seq(S), NEW v \in Seq(S), v # <<>>, NEW kind
    PROVE  Within(u \o Tail(v), u \o v, kind)
<1> DEFINE s == u \o Tail(v)
           t == u \o v
           n == Len(u)
           m == [i \in At(s, kind) |-> IF i <= n THEN i ELSE i + 1]
<1>1. /\ Len(v) \in Nat \ {0} /\ n \in Nat
      /\ Tail(v) \in Seq(S) /\ Len(Tail(v)) = Len(v) - 1
      /\ \A i \in 1..(Len(v) - 1) : Tail(v)[i] = v[i + 1]
    BY EmptySeq, LenProperties, HeadTailProperties
<1>2. /\ DOMAIN s = 1..(n + Len(v) - 1)
      /\ \A i \in 1..(n + Len(v) - 1) : s[i] = IF i <= n THEN u[i] ELSE Tail(v)[i - n]
    BY <1>1, ConcatProperties, LenProperties
<1>3. /\ DOMAIN t = 1..(n + Len(v))
      /\ \A i \in 1..(n + Len(v)) : t[i] = IF i <= n THEN u[i] ELSE v[i - n]
    BY <1>1, ConcatProperties, LenProperties
<1> HIDE DEF s, t, n
<1>4. \A i \in At(s, kind) : i \in 1..(n + Len(v) - 1) /\ s[i] \in kind
    BY <1>2 DEF At
<1>5. \A i \in At(s, kind) : m[i] \in 1..(n + Len(v)) /\ t[m[i]] = s[i]
    BY <1>1, <1>2, <1>3, <1>4
<1>6. m \in [At(s, kind) -> At(t, kind)]
    <2>1. \A i \in At(s, kind) : m[i] \in At(t, kind)
        BY <1>3, <1>4, <1>5 DEF At
    <2> QED BY <2>1
<1>7. \A i, j \in At(s, kind) : i < j => m[i] < m[j]
    BY <1>1, <1>4
<1> HIDE DEF m
<1> QED BY <1>5, <1>6, <1>7 DEF Within, s, t

LEMMA WithinTail ==
    ASSUME NEW S, NEW v \in Seq(S), v # <<>>, NEW kind
    PROVE  Within(Tail(v), v, kind)
<1>1. <<>> \in Seq(S) /\ <<>> \o v = v /\ <<>> \o Tail(v) = Tail(v)
    BY ConcatEmptySeq, HeadTailProperties
<1> QED BY <1>1, WithinLess

\* What is appended may be of another kind ...
LEMMA WithinMore ==
    ASSUME NEW S, NEW s \in Seq(S), NEW e \in S, NEW kind, e \notin kind
    PROVE  Within(Append(s, e), s, kind)
<1>1. /\ DOMAIN s = 1..Len(s) /\ Len(s) \in Nat
      /\ DOMAIN Append(s, e) = 1..(Len(s) + 1)
      /\ \A i \in 1..Len(s) : Append(s, e)[i] = s[i]
      /\ Append(s, e)[Len(s) + 1] = e
    BY AppendProperties, LenProperties
<1>2. \A i \in At(Append(s, e), kind) : i \in At(s, kind) /\ Append(s, e)[i] = s[i]
    BY <1>1 DEF At
<1> DEFINE m == [i \in At(Append(s, e), kind) |-> i]
<1>3. m \in [At(Append(s, e), kind) -> At(s, kind)]
    BY <1>2
<1> QED BY <1>2, <1>3 DEF Within

\* ... or of this one.
LEMMA AtMore ==
    ASSUME NEW S, NEW s \in Seq(S), NEW e \in S, NEW kind
    PROVE  /\ \A i \in At(s, kind) : i \in 1..Len(s) /\ Append(s, e)[i] = s[i]
           /\ e \in kind => At(Append(s, e), kind) = At(s, kind) \union {Len(s) + 1}
           /\ e \notin kind => At(Append(s, e), kind) = At(s, kind)
           /\ Append(s, e)[Len(s) + 1] = e
<1>1. /\ DOMAIN s = 1..Len(s) /\ Len(s) \in Nat
      /\ DOMAIN Append(s, e) = 1..(Len(s) + 1)
      /\ \A i \in 1..Len(s) : Append(s, e)[i] = s[i]
      /\ Append(s, e)[Len(s) + 1] = e
    BY AppendProperties, LenProperties
<1> QED BY <1>1 DEF At

\* An empty sequence has nothing of any kind.
LEMMA AtNothing ==
    ASSUME NEW kind
    PROVE  At(<<>>, kind) = {}
BY DEF At

---------------------------------------------------------------------------
(* What keeps the wire to one command *)

\* Frames that go away, or others that come, leave what is under way as it is.
LEMMA FewerUnderWay ==
    ASSUME NEW line \in Seq(Outgoing), NEW more, Within(line, more, Commands),
           NEW replies \in Seq(Incomings), NEW replied \in Seq(Incomings),
           Within(replies, replied, Marks), more \in Seq(Outgoing),
           OneUnderWay(more, replied), NEW t, ForTask(more, replied, t)
    PROVE  OneUnderWay(line, replies) /\ ForTask(line, replies, t)
<1>1. PICK c \in [At(line, Commands) -> At(more, Commands)] :
          /\ \A i, j \in At(line, Commands) : i < j => c[i] < c[j]
          /\ \A i \in At(line, Commands) : line[i] = more[c[i]]
    BY DEF Within
<1>2. PICK m \in [At(replies, Marks) -> At(replied, Marks)] :
          /\ \A i, j \in At(replies, Marks) : i < j => m[i] < m[j]
          /\ \A i \in At(replies, Marks) : replies[i] = replied[m[i]]
    BY DEF Within
<1>3. \A i \in At(line, Commands) : i \in Nat /\ c[i] \in Nat
    BY LenProperties DEF At
<1>4. \A i \in At(replies, Marks) : i \in Nat /\ m[i] \in Nat
    BY LenProperties DEF At
<1>5. /\ \A i \in At(replies, Acks) : i \in At(replies, Marks) /\ m[i] \in At(replied, Acks)
      /\ \A i \in At(replies, Tables) : i \in At(replies, Marks) /\ m[i] \in At(replied, Tables)
    BY <1>2 DEF At, Marks
<1>6. \A i, j \in At(replies, Marks) : m[i] = m[j] => i = j
    <2> SUFFICES ASSUME NEW i \in At(replies, Marks), NEW j \in At(replies, Marks),
                        m[i] = m[j], i # j
                 PROVE  FALSE
        OBVIOUS
    <2>1. i < j \/ j < i
        BY <1>4
    <2> QED BY <1>2, <1>4, <2>1
<1>7. \A i, j \in At(line, Commands) : c[i] = c[j] => i = j
    <2> SUFFICES ASSUME NEW i \in At(line, Commands), NEW j \in At(line, Commands),
                        c[i] = c[j], i # j
                 PROVE  FALSE
        OBVIOUS
    <2>1. i < j \/ j < i
        BY <1>3
    <2> QED BY <1>1, <1>3, <2>1
<1>8. /\ \A i, j \in At(line, Commands) : i = j
      /\ \A i, j \in At(replies, Acks) : i = j
      /\ \A i, j \in At(replies, Tables) : i = j
    BY <1>1, <1>5, <1>6, <1>7 DEF OneUnderWay
<1>9. /\ At(line, Commands) # {} => At(more, Commands) # {}
      /\ At(replies, Acks) # {} => At(replied, Acks) # {}
      /\ At(replies, Tables) # {} => At(replied, Tables) # {}
    BY <1>1, <1>5
<1>10. \A i \in At(replies, Acks), j \in At(replies, Tables) : i < j
    <2> SUFFICES ASSUME NEW i \in At(replies, Acks), NEW j \in At(replies, Tables), ~(i < j)
                 PROVE  FALSE
        OBVIOUS
    <2>1. m[i] < m[j] /\ i \in At(replies, Marks) /\ j \in At(replies, Marks)
        BY <1>5 DEF OneUnderWay
    <2>2. i = j \/ j < i
        BY <1>4, <2>1
    <2> QED BY <1>2, <1>4, <2>1, <2>2
<1>11. OneUnderWay(line, replies)
    BY <1>8, <1>9, <1>10 DEF OneUnderWay
<1>12. \A i \in At(line, Commands) : line[i].body = t.last
    BY <1>1 DEF ForTask
<1>13. \A i \in At(replies, Tables) :
           t.last.op \in Asking /\ replies[i].body.op = TableFor(t.last.op)
    BY <1>2, <1>5 DEF ForTask
<1> QED BY <1>9, <1>11, <1>12, <1>13 DEF ForTask

\* With nothing under way anything goes, a new command included.
Idle(line, replies) ==
    At(line, Commands) = {} /\ At(replies, Acks) = {} /\ At(replies, Tables) = {}

LEMMA NothingUnderWay ==
    ASSUME NEW line, NEW replies, Idle(line, replies), NEW t
    PROVE  OneUnderWay(line, replies) /\ ForTask(line, replies, t)
BY DEF Idle, OneUnderWay, ForTask

LEMMA NewCommand ==
    ASSUME NEW line \in Seq(Outgoing), NEW replies, Idle(line, replies),
           NEW t, t.last \in Requests, t.wait # "None", t.deadline # "passed",
           NEW seq \in 0..1
    PROVE  /\ OneUnderWay(Append(line, DataFrame(seq, t.last)), replies)
           /\ ForTask(Append(line, DataFrame(seq, t.last)), replies, t)
<1> DEFINE frame == DataFrame(seq, t.last)
           more == Append(line, frame)
<1>1. frame \in Outgoing /\ frame.type = "Data" /\ frame.body = t.last
    BY DEF DataFrame, Outgoing
<1>2. frame \in Commands
    BY <1>1 DEF Commands
<1> HIDE DEF frame
<1>3. At(more, Commands) = {Len(line) + 1} /\ more[Len(line) + 1] = frame
    BY <1>1, <1>2, AtMore DEF Idle
<1> HIDE DEF more
<1>4. OneUnderWay(more, replies)
    BY <1>3 DEF Idle, OneUnderWay
<1>5. ForTask(more, replies, t)
    BY <1>1, <1>3 DEF Idle, ForTask
<1> QED BY <1>4, <1>5 DEF more, frame

\* A task that waits for nothing, or whose deadline has passed, has nothing
\* under way.
LEMMA NoneUnderWay ==
    ASSUME NEW line, NEW replies, NEW t, ForTask(line, replies, t),
           t.wait = "None" \/ t.deadline = "passed"
    PROVE  Idle(line, replies)
BY DEF ForTask, Idle

\* The headphones take the command: its ACK is under way, then its answer.
LEMMA AnswerCases ==
    ASSUME DeviceTypes, NEW body \in Requests
    PROVE  \/ Answer(body) = <<>> /\ body.op \notin Asking
           \/ \E report \in Incomings :
                 /\ Answer(body) = <<report>> /\ report.type = "Data"
                 /\ report \in Tables <=> body.op \in Asking
                 /\ body.op \in Asking =>
                        /\ report.body.op = TableFor(body.op)
                        /\ report.body.val = devFns \intersect Covered(report.body.op)
<1>1. \A r : <<r>> \in Seq(Incomings) => r \in Incomings
    <2> SUFFICES ASSUME NEW r, <<r>> \in Seq(Incomings) PROVE r \in Incomings
        OBVIOUS
    <2>1. 1 \in 1..Len(<<r>>) /\ <<r>>[1] = r
        OBVIOUS
    <2> QED BY <2>1, ElementOfSeq
<1> DEFINE told(op, arg, val) == [type |-> "Data", body |-> Body(op, arg, val)]
<1>2. ASSUME NEW op, NEW arg, NEW val, Answer(body) = Report(op, arg, val),
             body.op \in Asking => op = TableFor(body.op)
                                     /\ val = devFns \intersect Covered(op),
             op \in TableReports <=> body.op \in Asking
      PROVE  \E report \in Incomings :
                 /\ Answer(body) = <<report>> /\ report.type = "Data"
                 /\ report \in Tables <=> body.op \in Asking
                 /\ body.op \in Asking =>
                        /\ report.body.op = TableFor(body.op)
                        /\ report.body.val = devFns \intersect Covered(report.body.op)
    <2>1. Answer(body) = <<told(op, arg, val)>>
        BY <1>2 DEF Report
    <2>2. told(op, arg, val) \in Incomings
        BY <1>1, <2>1, AnswerType
    <2>3. /\ told(op, arg, val).type = "Data" /\ told(op, arg, val).body.op = op
          /\ told(op, arg, val).body.val = val
        BY DEF Body
    <2> HIDE DEF told
    <2>4. told(op, arg, val) \in Tables <=> op \in TableReports
        BY <2>2, <2>3 DEF Tables
    <2> QED BY <1>2, <2>1, <2>2, <2>3, <2>4
<1>3. CASE body.op = "GetProtocolInfo"
    BY <1>2, <1>3 DEF Answer, Asking, TableFor, TableReports, Covered
<1>4. CASE body.op = "GetSupport"
    BY <1>2, <1>4 DEF Answer, Asking, TableFor, TableReports, Covered
<1>5. CASE body.op = "GetSupport2"
    BY <1>2, <1>5 DEF Answer, Asking, TableFor, TableReports, Covered
<1>6. CASE body.op = "GetPairedList"
    BY <1>2, <1>6 DEF Answer, Asking, TableReports
<1>7. CASE body.op = "GetCapability"
    BY <1>2, <1>7 DEF Answer, Asking, TableReports
<1>8. CASE body.op = "GetParam"
    BY <1>2, <1>8 DEF Answer, Asking, TableReports
<1>9. CASE body.op = "SetParam" /\ Echo
    BY <1>2, <1>9 DEF Answer, Asking, TableReports
<1>10. CASE /\ body.op \notin Asking \union {"GetPairedList", "GetCapability", "GetParam"}
            /\ ~(body.op = "SetParam" /\ Echo)
    BY <1>10 DEF Answer, Asking
<1> QED
    BY <1>3, <1>4, <1>5, <1>6, <1>7, <1>8, <1>9, <1>10 DEF Asking

\* The headphones take the command: its ACK is under way, its answer behind it.
LEMMA CommandTaken ==
    ASSUME DeviceTypes, NEW line, NEW less, At(less, Commands) = {},
           NEW i \in At(line, Commands), line[i].body \in Requests,
           NEW replies \in Seq(Incomings), OneUnderWay(line, replies),
           NEW t, ForTask(line, replies, t)
    PROVE  LET more == (replies \o <<AckFrame>>) \o Answer(line[i].body) IN
           /\ OneUnderWay(less, more) /\ ForTask(less, more, t)
           /\ At(more, Acks) # {}
           /\ \A j \in At(more, Tables) :
                  more[j].body.val = devFns \intersect Covered(more[j].body.op)
<1> DEFINE body == line[i].body
           acked == Append(replies, AckFrame)
           n == Len(replies)
           more == (replies \o <<AckFrame>>) \o Answer(body)
<1>1. Idle(less, replies) /\ t.wait # "None" /\ t.deadline # "passed" /\ body = t.last
    BY DEF OneUnderWay, ForTask, Idle
<1>2. AckFrame \in Incomings /\ AckFrame \in Acks /\ AckFrame \notin Tables
    BY DEF Incomings, Acks, Tables, AckFrame
<1>3. /\ replies \o <<AckFrame>> = acked /\ acked \in Seq(Incomings)
      /\ n \in Nat /\ Len(acked) = n + 1
    BY <1>2, AppendIsConcat, AppendProperties, LenProperties
<1>4. At(acked, Acks) = {n + 1} /\ At(acked, Tables) = {}
    BY <1>1, <1>2, AtMore DEF Idle
<1> HIDE DEF acked, n, body
<1>5. CASE Answer(body) = <<>> /\ body.op \notin Asking
    <2>1. more = acked
        BY <1>3, <1>5, ConcatEmptySeq
    <2> QED BY <1>1, <1>4, <2>1 DEF Idle, OneUnderWay, ForTask, body
<1>6. ASSUME NEW report \in Incomings,
             Answer(body) = <<report>>, report.type = "Data",
             report \in Tables <=> body.op \in Asking,
             body.op \in Asking =>
                 /\ report.body.op = TableFor(body.op)
                 /\ report.body.val = devFns \intersect Covered(report.body.op)
      PROVE  /\ OneUnderWay(less, more) /\ ForTask(less, more, t)
             /\ At(more, Acks) # {}
             /\ \A j \in At(more, Tables) :
                    more[j].body.val = devFns \intersect Covered(more[j].body.op)
    <2>1. more = Append(acked, report)
        BY <1>3, <1>6, AppendIsConcat
    <2>2. report \notin Acks
        BY <1>6 DEF Acks, AckFrame
    <2>3. At(more, Acks) = {n + 1} /\ more[n + 2] = report
          /\ At(more, Tables) = IF report \in Tables THEN {n + 2} ELSE {}
        <3>1. Len(acked) + 1 = n + 2
            BY <1>3
        <3>2. acked \in Seq(Incomings) /\ report \in Incomings
            BY <1>3, <1>6
        <3>3. /\ At(Append(acked, report), Acks) = At(acked, Acks)
              /\ Append(acked, report)[Len(acked) + 1] = report
            BY <2>2, <3>2, AtMore
        <3>4. /\ report \in Tables =>
                     At(Append(acked, report), Tables) = At(acked, Tables) \union {Len(acked) + 1}
              /\ report \notin Tables => At(Append(acked, report), Tables) = At(acked, Tables)
            BY <3>2, AtMore
        <3> HIDE DEF more
        <3> QED BY <1>4, <2>1, <3>1, <3>3, <3>4
    <2> HIDE DEF more
    <2>4. OneUnderWay(less, more)
        BY <1>1, <1>3, <2>3 DEF Idle, OneUnderWay
    <2>5. ForTask(less, more, t)
        BY <1>1, <1>6, <2>3 DEF Idle, ForTask
    <2> QED BY <1>6, <2>3, <2>4, <2>5
<1> QED BY <1>5, <1>6, AnswerCases DEF body

---------------------------------------------------------------------------
(* What keeps the shape of a task *)

\* The conditional steps at the front are resolved: the k-th step is the
\* first that opens to anything, and the ones before it are conditional.
Unfolds(steps, known, k, u) ==
    /\ Opened(steps[k], known) # <<>>
    /\ \A j \in 1..(k - 1) :
           steps[j].kind = "If" /\ (steps[j].cond \in known => steps[j].inner = <<>>)
    /\ steps[k].kind # "If" =>
           /\ Len(u) = Len(steps) - k + 1
           /\ \A i \in 1..(Len(steps) - k + 1) : u[i] = steps[i + k - 1]
    /\ steps[k].kind = "If" =>
           /\ steps[k].cond \in known
           /\ steps[k].inner \in Seq(SendSteps) /\ steps[k].inner # <<>>
           /\ Len(u) = Len(steps[k].inner) + Len(steps) - k
           /\ \A i \in 1..(Len(steps[k].inner) + Len(steps) - k) :
                  u[i] = IF i <= Len(steps[k].inner) THEN steps[k].inner[i]
                         ELSE steps[i - Len(steps[k].inner) + k]

LEMMA UnfoldForm ==
    ASSUME NEW steps \in Seq(Steps), EndsInDone(steps), NEW known
    PROVE  \E k \in 1..Len(steps) : Unfolds(steps, known, k, Unfold(steps, known))
<1> DEFINE n == Len(steps)
           kept == {i \in DOMAIN steps : Opened(steps[i], known) # <<>>}
<1>1. n \in Nat \ {0} /\ DOMAIN steps = 1..n /\ \A i \in 1..n : steps[i] \in Steps
    BY EmptySeq, LenProperties, ElementOfSeq DEF EndsInDone
<1>2. n \in kept
    <2>1. steps[n].kind = "Done" /\ steps[n] \in Steps
        BY <1>1 DEF EndsInDone
    <2>2. Opened(steps[n], known) = <<steps[n]>>
        BY <2>1, OpenedSteps
    <2>3. <<steps[n]>> # <<>>
        OBVIOUS
    <2>4. n \in DOMAIN steps /\ Opened(steps[n], known) # <<>>
        BY <1>1, <2>2, <2>3
    <2> QED BY <2>4
<1> DEFINE k == CHOOSE i \in kept : \A j \in kept : i <= j
           o == Opened(steps[k], known)
           rest == SubSeq(steps, k + 1, n)
           u == Unfold(steps, known)
<1>3. k \in kept /\ \A j \in kept : k <= j
    <2>1. kept \in SUBSET Nat
        BY <1>1
    <2> HIDE DEF kept
    <2>2. \E i \in kept : \A j \in kept : i <= j
        BY <1>2, <2>1, LeastElement
    <2> QED BY <2>2
<1>4. u = o \o rest
    BY <1>2 DEF Unfold
<1>5. k \in 1..n /\ o # <<>> /\ \A j \in 1..(k - 1) : Opened(steps[j], known) = <<>>
    BY <1>1, <1>3
<1> HIDE DEF k, kept, u
<1>6. o \in Seq(Steps)
    <2>1. o \in Seq(SendSteps \union DoneSteps)
        BY <1>1, <1>5, OpenedSteps
    <2> QED BY <2>1, SeqMonotonic DEF Steps
<1>7. /\ rest \in Seq(Steps) /\ Len(rest) = n - k
      /\ \A i \in 1..(n - k) : rest[i] = steps[i + k]
    <2>1. \A i \in (k + 1)..n : steps[i] \in Steps
        BY <1>1, <1>5
    <2>2. k + 1 \in Int /\ n \in Int
        BY <1>1, <1>5
    <2>3. /\ rest \in Seq(Steps) /\ Len(rest) = IF k + 1 <= n THEN n - (k + 1) + 1 ELSE 0
          /\ \A i \in 1..(n - (k + 1) + 1) : rest[i] = steps[(k + 1) + i - 1]
        BY <2>1, <2>2, SubSeqProperties
    <2> HIDE DEF rest, n
    <2>4. Len(rest) = n - k
        BY <1>1, <1>5, <2>3
    <2>5. ASSUME NEW i \in 1..(n - k) PROVE rest[i] = steps[i + k]
        <3>1. i \in 1..(n - (k + 1) + 1) /\ (k + 1) + i - 1 = i + k
            BY <1>1, <1>5
        <3> QED BY <2>3, <3>1
    <2> QED BY <2>3, <2>4, <2>5
<1>8. /\ Len(u) = Len(o) + (n - k) /\ Len(o) \in Nat \ {0}
      /\ \A i \in 1..(Len(o) + (n - k)) : u[i] = IF i <= Len(o) THEN o[i] ELSE rest[i - Len(o)]
    <2> HIDE DEF o, rest, n
    <2>1. Len(o) \in Nat \ {0}
        BY <1>5, <1>6, EmptySeq
    <2>2. /\ Len(o \o rest) = Len(o) + Len(rest)
          /\ \A i \in 1..(Len(o) + Len(rest)) :
                 (o \o rest)[i] = IF i <= Len(o) THEN o[i] ELSE rest[i - Len(o)]
        BY <1>6, <1>7, ConcatProperties
    <2> QED BY <1>4, <1>7, <2>1, <2>2
<1> HIDE DEF rest
<1>9. \A j \in 1..(k - 1) :
          steps[j].kind = "If" /\ (steps[j].cond \in known => steps[j].inner = <<>>)
    <2> SUFFICES ASSUME NEW j \in 1..(k - 1)
                 PROVE  steps[j].kind = "If" /\ (steps[j].cond \in known => steps[j].inner = <<>>)
        OBVIOUS
    <2>1. Opened(steps[j], known) = <<>>
        BY <1>5
    <2>2. <<steps[j]>> # <<>>
        OBVIOUS
    <2> QED BY <2>1, <2>2 DEF Opened
<1>10. ASSUME steps[k].kind # "If"
       PROVE  Len(u) = n - k + 1 /\ \A i \in 1..(n - k + 1) : u[i] = steps[i + k - 1]
    <2>1. o = <<steps[k]>>
        BY <1>10 DEF Opened
    <2>2. Len(o) = 1 /\ o[1] = steps[k]
        BY <2>1
    <2> HIDE DEF o
    <2>3. Len(u) = n - k + 1
        BY <1>1, <1>5, <1>8, <2>2
    <2>4. ASSUME NEW i \in 1..(n - k + 1) PROVE u[i] = steps[i + k - 1]
        <3>1. CASE i = 1
            <4>1. u[1] = o[1]
                BY <1>1, <1>5, <1>8, <2>2
            <4> QED BY <1>5, <2>2, <3>1, <4>1
        <3>2. CASE i # 1
            <4>1. i - 1 \in 1..(n - k) /\ i \in 1..(Len(o) + (n - k)) /\ ~(i <= Len(o))
                BY <1>1, <1>5, <2>2, <3>2
            <4>2. u[i] = rest[i - 1]
                BY <1>8, <2>2, <4>1
            <4>3. (i - 1) + k = i + k - 1
                BY <1>5
            <4> QED BY <1>7, <4>1, <4>2, <4>3
        <3> QED BY <3>1, <3>2
    <2> QED BY <2>3, <2>4
<1>11. ASSUME steps[k].kind = "If"
       PROVE  /\ steps[k].cond \in known
              /\ steps[k].inner \in Seq(SendSteps) /\ o = steps[k].inner
    <2>1. steps[k] \in IfSteps
        BY <1>1, <1>5, <1>11, StepKinds DEF Steps
    <2> QED BY <1>5, <1>11, <2>1, StepKinds DEF Opened
<1>12. ASSUME steps[k].kind = "If"
       PROVE  /\ Len(u) = Len(steps[k].inner) + n - k
              /\ \A i \in 1..(Len(steps[k].inner) + n - k) :
                     u[i] = IF i <= Len(steps[k].inner) THEN steps[k].inner[i]
                            ELSE steps[i - Len(steps[k].inner) + k]
    <2> DEFINE inner == steps[k].inner
    <2>1. o = inner /\ Len(inner) \in Nat \ {0}
        BY <1>8, <1>11, <1>12
    <2> HIDE DEF o, inner
    <2>2. Len(u) = Len(inner) + n - k
        BY <1>1, <1>5, <1>8, <2>1
    <2>3. ASSUME NEW i \in 1..(Len(inner) + n - k)
          PROVE  u[i] = IF i <= Len(inner) THEN inner[i] ELSE steps[i - Len(inner) + k]
        <3>1. i \in 1..(Len(o) + (n - k))
            BY <1>1, <1>5, <2>1
        <3>2. u[i] = IF i <= Len(inner) THEN inner[i] ELSE rest[i - Len(inner)]
            BY <1>8, <2>1, <3>1
        <3>3. ~(i <= Len(inner)) => i - Len(inner) \in 1..(n - k)
            BY <1>1, <1>5, <2>1
        <3> QED BY <1>7, <3>2, <3>3
    <2> QED BY <2>2, <2>3 DEF inner
<1>13. Opened(steps[k], known) # <<>> /\ (steps[k].kind = "If" => steps[k].inner # <<>>)
    BY <1>5, <1>11
<1> HIDE DEF o
<1>14. Unfolds(steps, known, k, u)
    BY <1>9, <1>10, <1>11, <1>12, <1>13 DEF Unfolds
<1> QED BY <1>5, <1>14 DEF u

\* A wait can only be at the front of what is left after the command it
\* belongs to.
LEMMA UnfoldShaped ==
    ASSUME NEW steps \in Seq(Steps), EndsInDone(steps), Shaped(steps), NEW known
    PROVE  /\ Shaped(Unfold(steps, known))
           /\ Unfold(steps, known)[1].kind = "Await" =>
                  steps[1].kind = "Await" /\ Unfold(steps, known) = steps
<1> DEFINE n == Len(steps)
           u == Unfold(steps, known)
<1>1. /\ n \in Nat /\ DOMAIN steps = 1..n
      /\ u \in Seq(Steps) /\ DOMAIN u = 1..Len(u) /\ Len(u) \in Nat
    BY UnfoldKeepsDone, LenProperties
<1>2. PICK k \in 1..n : Unfolds(steps, known, k, u)
    BY UnfoldForm
<1>6. /\ \A j \in 1..(k - 1) : steps[j].kind = "If"
      /\ steps[k].kind # "If" =>
             /\ Len(u) = n - k + 1
             /\ \A i \in 1..(n - k + 1) : u[i] = steps[i + k - 1]
      /\ steps[k].kind = "If" =>
             /\ steps[k].inner \in Seq(SendSteps) /\ steps[k].inner # <<>>
             /\ Len(u) = Len(steps[k].inner) + n - k
             /\ \A i \in 1..(Len(steps[k].inner) + n - k) :
                    u[i] = IF i <= Len(steps[k].inner) THEN steps[k].inner[i]
                           ELSE steps[i - Len(steps[k].inner) + k]
    BY <1>2 DEF Unfolds
<1> HIDE DEF u, n
<1>3. Coupled(steps)
    BY DEF Shaped
<1>4. CASE steps[k].kind # "If"
    <2>1. /\ DOMAIN u = 1..(n - k + 1)
          /\ \A i \in 1..(n - k + 1) : i + k - 1 \in 1..n /\ u[i] = steps[i + k - 1]
        <3>1. \A i \in 1..(n - k + 1) : i + k - 1 \in 1..n
            BY <1>1
        <3> QED BY <1>1, <1>4, <1>6, <3>1
    <2>2. Coupled(u)
        <3> SUFFICES ASSUME NEW i \in DOMAIN u
                     PROVE  /\ Asks(u[i]) =>
                                   /\ i + 1 \in DOMAIN u
                                   /\ u[i + 1] = Await(WaitFor(u[i].body.op))
                            /\ u[i].kind = "Await" /\ i # 1 => Asks(u[i - 1])
            BY DEF Coupled
        <3>1. ASSUME Asks(u[i])
              PROVE  i + 1 \in DOMAIN u /\ u[i + 1] = Await(WaitFor(u[i].body.op))
            <4>1. i + k - 1 \in DOMAIN steps /\ Asks(steps[i + k - 1])
                BY <1>1, <2>1, <3>1
            <4>2. /\ (i + k - 1) + 1 \in DOMAIN steps
                  /\ steps[(i + k - 1) + 1] = Await(WaitFor(steps[i + k - 1].body.op))
                BY <1>3, <4>1 DEF Coupled
            <4>3. i \in 1..(n - k + 1) /\ (i + k - 1) + 1 \in 1..n
                BY <1>1, <2>1, <4>2
            <4>4. i + 1 \in 1..(n - k + 1) /\ (i + k - 1) + 1 = (i + 1) + k - 1
                BY <1>1, <4>3
            <4> QED BY <2>1, <4>2, <4>4
        <3>2. ASSUME u[i].kind = "Await", i # 1 PROVE Asks(u[i - 1])
            <4>4. i \in 2..(n - k + 1)
                BY <1>1, <2>1, <3>2
            <4>5. i + k - 1 # 1 /\ i - 1 \in 1..(n - k + 1)
                BY <1>1, <4>4
            <4>1. i + k - 1 \in DOMAIN steps /\ steps[i + k - 1].kind = "Await"
                  /\ i + k - 1 # 1 /\ i - 1 \in 1..(n - k + 1)
                BY <1>1, <2>1, <3>2, <4>5
            <4>2. Asks(steps[(i + k - 1) - 1])
                BY <1>3, <4>1 DEF Coupled
            <4>3. (i + k - 1) - 1 = (i - 1) + k - 1
                BY <1>2, <2>1
            <4> QED BY <2>1, <4>1, <4>2, <4>3
        <3> QED BY <3>1, <3>2
    <2>3. Shaped(u)
        BY <1>1, <2>1, <2>2 DEF Shaped
    <2>4. ASSUME u[1].kind = "Await" PROVE steps[1].kind = "Await" /\ u = steps
        <3>1. 1 \in 1..(n - k + 1) /\ u[1] = steps[k]
            BY <1>1, <1>2, <2>1
        <3>2. k = 1
            <4> SUFFICES ASSUME k # 1 PROVE FALSE
                OBVIOUS
            <4>1. k - 1 \in 1..(k - 1) /\ k \in DOMAIN steps
                BY <1>1, <1>2
            <4>2. steps[k - 1].kind = "If" /\ Asks(steps[k - 1])
                BY <1>3, <1>6, <2>4, <3>1, <4>1 DEF Coupled
            <4> QED BY <4>2 DEF Asks
        <3>3. Len(u) = n
            BY <1>1, <1>4, <1>6, <3>2
        <3>4. \A i \in 1..n : u[i] = steps[i]
            <4> SUFFICES ASSUME NEW i \in 1..n PROVE u[i] = steps[i]
                OBVIOUS
            <4>1. i \in 1..(n - k + 1) /\ i + k - 1 = i
                BY <1>1, <3>2
            <4> QED BY <2>1, <4>1
        <3>5. u = steps
            BY <1>1, <3>3, <3>4, SeqEqual DEF n
        <3> QED BY <2>4, <3>1, <3>2, <3>5
    <2> QED BY <2>3, <2>4 DEF u
<1>5. CASE steps[k].kind = "If"
    <2> DEFINE inner == steps[k].inner
               m == Len(inner)
    <2>1. /\ m \in Nat \ {0} /\ DOMAIN inner = 1..m
          /\ DOMAIN u = 1..(m + n - k)
          /\ \A i \in 1..m : i \in 1..(m + n - k) /\ u[i] = inner[i]
          /\ \A i \in (m + 1)..(m + n - k) : u[i] = steps[i - m + k] /\ i - m + k \in 2..n
          /\ \A i \in 1..m : inner[i].kind # "If"
        <3>1. inner \in Seq(SendSteps) /\ inner # <<>>
            BY <1>5, <1>6
        <3>2. m \in Nat \ {0} /\ DOMAIN inner = 1..m
            BY <3>1, EmptySeq, LenProperties
        <3>3. \A i \in 1..m : inner[i].kind # "If"
            BY <3>1, <3>2, StepKinds, ElementOfSeq
        <3>4. /\ DOMAIN u = 1..(m + n - k)
              /\ \A i \in 1..(m + n - k) : u[i] = IF i <= m THEN inner[i] ELSE steps[i - m + k]
            BY <1>1, <1>5, <1>6
        <3> HIDE DEF inner, m
        <3>5. \A i \in 1..m : i \in 1..(m + n - k) /\ u[i] = inner[i]
            <4>1. \A i \in 1..m : i \in 1..(m + n - k) /\ i <= m
                BY <1>1, <3>2
            <4> QED BY <3>4, <4>1
        <3>6. \A i \in (m + 1)..(m + n - k) : u[i] = steps[i - m + k] /\ i - m + k \in 2..n
            <4>1. \A i \in (m + 1)..(m + n - k) :
                      i \in 1..(m + n - k) /\ ~(i <= m) /\ i - m + k \in 2..n
                BY <1>1, <3>2
            <4> QED BY <3>4, <4>1
        <3> QED BY <3>2, <3>3, <3>4, <3>5, <3>6
    <2>2. Coupled(inner) /\ inner[1].kind # "Await"
        BY <1>1, <1>5, <1>6 DEF Shaped
    <2>3. k + 1 \in DOMAIN steps => steps[k + 1].kind # "Await"
        <3>1. k + 1 # 1 /\ (k + 1) - 1 = k
            BY <1>2
        <3> QED BY <1>3, <1>5, <3>1 DEF Coupled, Asks
    <2> HIDE DEF inner, m
    <2>4. ASSUME NEW i \in DOMAIN u, Asks(u[i])
          PROVE  i + 1 \in DOMAIN u /\ u[i + 1] = Await(WaitFor(u[i].body.op))
        <3>1. CASE i <= m
            <4>1. i \in DOMAIN inner /\ Asks(inner[i]) /\ u[i] = inner[i]
                BY <2>1, <2>4, <3>1
            <4>2. i + 1 \in DOMAIN inner /\ inner[i + 1] = Await(WaitFor(inner[i].body.op))
                BY <2>2, <4>1 DEF Coupled
            <4> QED BY <2>1, <4>1, <4>2
        <3>2. CASE i > m
            <4>5. i \in (m + 1)..(m + n - k)
                BY <1>1, <2>1, <3>2
            <4>1. i - m + k \in 1..n /\ Asks(steps[i - m + k]) /\ u[i] = steps[i - m + k]
                <5>1. i - m + k \in 2..n /\ u[i] = steps[i - m + k]
                    BY <2>1, <4>5
                <5> QED BY <1>1, <2>4, <5>1
            <4>2. /\ (i - m + k) + 1 \in DOMAIN steps
                  /\ steps[(i - m + k) + 1] = Await(WaitFor(steps[i - m + k].body.op))
                BY <1>1, <1>3, <4>1 DEF Coupled
            <4>3. (i - m + k) + 1 = (i + 1) - m + k /\ i + 1 \in (m + 1)..(m + n - k)
                <5>1. (i - m + k) + 1 \in 1..n
                    BY <1>1, <4>2
                <5> QED BY <1>1, <2>1, <4>5, <5>1
            <4>4. u[i + 1] = steps[(i - m + k) + 1] /\ i + 1 \in 1..(m + n - k)
                <5>1. u[i + 1] = steps[(i + 1) - m + k]
                    BY <2>1, <4>3
                <5> QED BY <1>1, <2>1, <4>3, <5>1
            <4> QED BY <2>1, <4>1, <4>2, <4>4
        <3> QED BY <2>1, <3>1, <3>2
    <2>5. ASSUME NEW i \in DOMAIN u, u[i].kind = "Await", i # 1
          PROVE  Asks(u[i - 1])
        <3>1. CASE i <= m
            <4>1. i \in DOMAIN inner /\ u[i] = inner[i] /\ i - 1 \in 1..m
                BY <2>1, <2>5, <3>1
            <4>2. Asks(inner[i - 1])
                BY <2>2, <2>5, <4>1 DEF Coupled
            <4> QED BY <2>1, <4>1, <4>2
        <3>2. CASE i > m
            <4>1. i - m + k \in DOMAIN steps /\ u[i] = steps[i - m + k] /\ i - m + k # 1
                BY <1>1, <1>2, <2>1, <3>2
            <4>2. Asks(steps[(i - m + k) - 1])
                BY <1>3, <2>5, <4>1 DEF Coupled
            <4>3. i # m + 1
                <5> SUFFICES ASSUME i = m + 1 PROVE FALSE
                    OBVIOUS
                <5>1. i - m + k = k + 1
                    BY <1>2, <2>1
                <5> QED BY <2>3, <2>5, <4>1, <5>1
            <4>4. i - 1 \in (m + 1)..(m + n - k) /\ (i - m + k) - 1 = (i - 1) - m + k
                BY <1>1, <1>2, <2>1, <3>2, <4>3
            <4> QED BY <2>1, <4>2, <4>4
        <3> QED BY <2>1, <3>1, <3>2
    <2>6. ASSUME NEW i \in DOMAIN u, u[i].kind = "If", u[i].inner # <<>>
          PROVE  Coupled(u[i].inner) /\ u[i].inner[1].kind # "Await"
        <3>1. ~(i <= m)
            BY <2>1, <2>6
        <3>2. i - m + k \in DOMAIN steps /\ u[i] = steps[i - m + k]
            BY <1>1, <1>2, <2>1, <3>1
        <3> QED BY <2>6, <3>2 DEF Shaped
    <2>7. Shaped(u)
        BY <2>4, <2>5, <2>6 DEF Shaped, Coupled
    <2>8. u[1].kind # "Await"
        BY <2>1, <2>2
    <2> QED BY <2>7, <2>8 DEF u
<1> QED BY <1>4, <1>5

\* Without its first step a task keeps its shape; a wait then comes first
\* only behind the command it belongs to.
LEMMA TailShaped ==
    ASSUME NEW steps \in Seq(Steps), steps # <<>>, Shaped(steps)
    PROVE  /\ Shaped(Tail(steps))
           /\ Tail(steps) # <<>> /\ Tail(steps)[1].kind = "Await" =>
                  /\ Asks(Head(steps))
                  /\ Tail(steps)[1] = Await(WaitFor(Head(steps).body.op))
           /\ Asks(Head(steps)) =>
                  /\ Tail(steps) # <<>>
                  /\ Tail(steps)[1] = Await(WaitFor(Head(steps).body.op))
<1> DEFINE n == Len(steps)
           t == Tail(steps)
<1>1. /\ n \in Nat \ {0} /\ DOMAIN steps = 1..n /\ Head(steps) = steps[1]
      /\ DOMAIN t = 1..(n - 1) /\ t \in Seq(Steps) /\ Len(t) = n - 1
      /\ \A i \in 1..(n - 1) : t[i] = steps[i + 1]
    BY EmptySeq, LenProperties, HeadTailProperties
<1> HIDE DEF n, t
<1>2. Coupled(steps)
    BY DEF Shaped
<1>3. ASSUME NEW i \in DOMAIN t, Asks(t[i])
      PROVE  i + 1 \in DOMAIN t /\ t[i + 1] = Await(WaitFor(t[i].body.op))
    <2>1. i + 1 \in DOMAIN steps /\ Asks(steps[i + 1]) /\ t[i] = steps[i + 1]
        BY <1>1, <1>3
    <2>2. (i + 1) + 1 \in DOMAIN steps
          /\ steps[(i + 1) + 1] = Await(WaitFor(steps[i + 1].body.op))
        BY <1>2, <2>1 DEF Coupled
    <2> QED BY <1>1, <2>1, <2>2
<1>4. ASSUME NEW i \in DOMAIN t, t[i].kind = "Await"
      PROVE  Asks(steps[i]) /\ (i # 1 => Asks(t[i - 1]))
    <2>1. i + 1 \in DOMAIN steps /\ steps[i + 1].kind = "Await" /\ i + 1 # 1
        BY <1>1, <1>4
    <2>2. Asks(steps[(i + 1) - 1]) /\ (i + 1) - 1 = i
        BY <1>1, <1>2, <2>1 DEF Coupled
    <2> QED BY <1>1, <2>2
<1>5. Shaped(t)
    <2>1. Coupled(t)
        BY <1>3, <1>4 DEF Coupled
    <2>2. \A i \in DOMAIN t : i + 1 \in DOMAIN steps /\ t[i] = steps[i + 1]
        BY <1>1
    <2> QED BY <2>1, <2>2 DEF Shaped
<1>6. ASSUME Asks(Head(steps))
      PROVE  t # <<>> /\ t[1] = Await(WaitFor(Head(steps).body.op))
    <2>1. 1 \in DOMAIN steps
        BY <1>1
    <2>2. 1 + 1 \in DOMAIN steps /\ steps[1 + 1] = Await(WaitFor(steps[1].body.op))
        BY <1>1, <1>2, <1>6, <2>1 DEF Coupled
    <2> QED BY <1>1, <2>2, EmptySeq
<1>7. ASSUME t # <<>>, t[1].kind = "Await"
      PROVE  Asks(Head(steps)) /\ t[1] = Await(WaitFor(Head(steps).body.op))
    <2>1. 1 \in DOMAIN t
        BY <1>1, <1>7, EmptySeq
    <2>2. Asks(steps[1])
        BY <1>4, <1>7, <2>1
    <2> QED BY <1>1, <1>6, <2>2
<1> QED BY <1>5, <1>6, <1>7 DEF t

\* With a step to run in front, nothing is resolved.
LEMMA UnfoldOfRun ==
    ASSUME NEW steps \in Seq(Steps), EndsInDone(steps), NEW known,
           steps[1].kind # "If"
    PROVE  Unfold(steps, known) = steps
<1> DEFINE n == Len(steps)
           u == Unfold(steps, known)
<1>1. n \in Nat /\ DOMAIN steps = 1..n /\ u \in Seq(Steps) /\ DOMAIN u = 1..Len(u)
    BY UnfoldKeepsDone, LenProperties
<1>2. PICK k \in 1..n : Unfolds(steps, known, k, u)
    BY UnfoldForm
<1> HIDE DEF n, u
<1>3. k = 1
    <2>1. \A j \in 1..(k - 1) : steps[j].kind = "If"
        BY <1>2 DEF Unfolds
    <2> QED BY <1>1, <2>1
<1>4. Len(u) = n /\ \A i \in 1..n : u[i] = steps[i]
    <2>1. Len(u) = n - 1 + 1 /\ \A i \in 1..(n - 1 + 1) : u[i] = steps[i + 1 - 1]
        BY <1>2, <1>3 DEF Unfolds, n
    <2>2. \A i \in 1..n : i + 1 - 1 = i /\ i \in 1..(n - 1 + 1)
        BY <1>1
    <2> QED BY <1>1, <2>1, <2>2
<1> QED BY <1>1, <1>4, SeqEqual DEF n, u

---------------------------------------------------------------------------
(* The shape of the tasks that are built *)

\* Steps that neither wait nor have an answer to wait for.
Loose(step) ==
    /\ step.kind # "Await" /\ ~Asks(step)
    /\ step.kind = "If" /\ step.inner # <<>> =>
           Coupled(step.inner) /\ step.inner[1].kind # "Await"

LEMMA LooseBehind ==
    ASSUME NEW front \in Seq(Steps), Shaped(front),
           NEW back \in Seq(Steps), \A i \in DOMAIN back : Loose(back[i])
    PROVE  Shaped(front \o back)
<1> DEFINE all == front \o back
           n == Len(front)
<1>1. /\ n \in Nat /\ DOMAIN front = 1..n /\ Len(back) \in Nat /\ DOMAIN back = 1..Len(back)
      /\ DOMAIN all = 1..(n + Len(back))
      /\ \A i \in 1..(n + Len(back)) : all[i] = IF i <= n THEN front[i] ELSE back[i - n]
    BY ConcatProperties, LenProperties
<1> HIDE DEF all, n
<1>2. \A i \in DOMAIN all :
          \/ i \in 1..n /\ all[i] = front[i]
          \/ ~(i <= n) /\ Loose(all[i])
    <2> SUFFICES ASSUME NEW i \in DOMAIN all, ~(i <= n) PROVE Loose(all[i])
        BY <1>1
    <2>1. i - n \in DOMAIN back
        BY <1>1
    <2> QED BY <1>1, <2>1
<1>3. Coupled(front)
    BY DEF Shaped
<1>4. ASSUME NEW i \in DOMAIN all, Asks(all[i])
      PROVE  i + 1 \in DOMAIN all /\ all[i + 1] = Await(WaitFor(all[i].body.op))
    <2>1. i \in DOMAIN front /\ all[i] = front[i]
        BY <1>1, <1>2, <1>4 DEF Loose
    <2>2. i + 1 \in DOMAIN front /\ front[i + 1] = Await(WaitFor(front[i].body.op))
        BY <1>3, <1>4, <2>1 DEF Coupled
    <2>3. i + 1 \in 1..(n + Len(back)) /\ i + 1 <= n
        BY <1>1, <2>2
    <2> QED BY <1>1, <2>1, <2>2, <2>3
<1>5. ASSUME NEW i \in DOMAIN all, all[i].kind = "Await", i # 1
      PROVE  Asks(all[i - 1])
    <2>1. i \in DOMAIN front /\ all[i] = front[i]
        BY <1>1, <1>2, <1>5 DEF Loose
    <2>2. Asks(front[i - 1])
        BY <1>3, <1>5, <2>1 DEF Coupled
    <2>3. i - 1 \in 1..(n + Len(back)) /\ i - 1 <= n
        BY <1>1, <1>5, <2>1
    <2> QED BY <1>1, <2>2, <2>3
<1>6. ASSUME NEW i \in DOMAIN all, all[i].kind = "If", all[i].inner # <<>>
      PROVE  Coupled(all[i].inner) /\ all[i].inner[1].kind # "Await"
    <2>1. CASE i \in 1..n /\ all[i] = front[i]
        BY <1>1, <1>6, <2>1 DEF Shaped
    <2>2. CASE Loose(all[i])
        BY <1>6, <2>2 DEF Loose
    <2> QED BY <1>2, <2>1, <2>2
<1>7. Shaped(all)
    BY <1>4, <1>5, <1>6 DEF Shaped, Coupled
<1> QED BY <1>7 DEF all

\* Commands that nothing waits for, in any order.
LEMMA LooseSends ==
    ASSUME NEW inner, \A i \in DOMAIN inner : inner[i].kind = "Send" /\ ~Asks(inner[i])
    PROVE  Coupled(inner)
BY DEF Coupled

\* The steps that the builders put together, but for the tables.
LEMMA LooseSteps ==
    /\ \A body : body.op \notin Asking => Loose(Send(body))
    /\ \A body, s : body.op \notin Asking => Loose(SendCommit(body, s))
    /\ \A f, a : a.op \notin Asking => Loose(If(f, <<Send(a)>>))
    /\ \A f, a, b : a.op \notin Asking /\ b.op \notin Asking => Loose(If(f, <<Send(a), Send(b)>>))
    /\ Loose(NoStep)
    /\ \A event : Loose(Done(event))
<1>1. \A body : body.op \notin Asking => Loose(Send(body))
    BY DEF Loose, Send, Asks
<1>2. \A body, s : body.op \notin Asking => Loose(SendCommit(body, s))
    BY DEF Loose, SendCommit, Asks
<1>3. ASSUME NEW f, NEW a, a.op \notin Asking PROVE Loose(If(f, <<Send(a)>>))
    <2>1. \A i \in DOMAIN <<Send(a)>> : <<Send(a)>>[i] = Send(a)
        OBVIOUS
    <2>2. Coupled(<<Send(a)>>) /\ <<Send(a)>>[1].kind # "Await"
        BY <1>3, <2>1, LooseSends DEF Send, Asks
    <2> QED BY <2>2 DEF Loose, If, Asks
<1>4. ASSUME NEW f, NEW a, NEW b, a.op \notin Asking, b.op \notin Asking
      PROVE  Loose(If(f, <<Send(a), Send(b)>>))
    <2>1. \A i \in DOMAIN <<Send(a), Send(b)>> : <<Send(a), Send(b)>>[i] \in {Send(a), Send(b)}
        OBVIOUS
    <2>2. Coupled(<<Send(a), Send(b)>>) /\ <<Send(a), Send(b)>>[1].kind # "Await"
        BY <1>4, <2>1, LooseSends DEF Send, Asks
    <2> QED BY <2>2 DEF Loose, If, Asks
<1>5. Loose(NoStep) /\ \A event : Loose(Done(event))
    BY DEF Loose, NoStep, If, Done, Asks
<1> QED BY <1>1, <1>2, <1>3, <1>4, <1>5

\* A sequence of loose steps is one behind nothing.
LEMMA LooseShaped ==
    ASSUME NEW steps \in Seq(Steps), \A i \in DOMAIN steps : Loose(steps[i])
    PROVE  Shaped(steps)
<1>1. <<>> \in Seq(Steps) /\ <<>> \o steps = steps
    BY ConcatEmptySeq
<1>2. Shaped(<<>>)
    BY DEF Shaped, Coupled
<1> QED BY <1>1, <1>2, LooseBehind

\* What holds of the elements of two sequences holds of those of both.
LEMMA EachOfBoth ==
    ASSUME NEW S, NEW P, NEW a \in Seq(S), NEW b \in Seq(S),
           \A i \in DOMAIN a : a[i] \in P, \A i \in DOMAIN b : b[i] \in P
    PROVE  a \o b \in Seq(S) /\ \A i \in DOMAIN (a \o b) : (a \o b)[i] \in P
<1> DEFINE all == a \o b
           n == Len(a)
<1>1. /\ n \in Nat /\ DOMAIN a = 1..n /\ Len(b) \in Nat /\ DOMAIN b = 1..Len(b)
      /\ all \in Seq(S) /\ DOMAIN all = 1..(n + Len(b))
      /\ \A i \in 1..(n + Len(b)) : all[i] = IF i <= n THEN a[i] ELSE b[i - n]
    BY ConcatProperties, LenProperties
<1> HIDE DEF all, n
<1>2. ASSUME NEW i \in DOMAIN all PROVE all[i] \in P
    <2>1. i <= n => i \in DOMAIN a
        BY <1>1
    <2>2. ~(i <= n) => i - n \in DOMAIN b
        BY <1>1
    <2> QED BY <1>1, <2>1, <2>2
<1> QED BY <1>1, <1>2 DEF all

\* The parts of the init handshake behind the tables, and of a commit.
InitRest   == InitGeneral \o InitPlain \o <<Done("InitOk")>>
PlainPart  == Each(PlainOrder, LAMBDA s : IF s \in Dirty THEN CommitStep(s) ELSE NoStep)
KeyPart    == IF key = KeyOff THEN NoStep ELSE Send(Body("Key", None, key))
OtherPart  == Each(GeneralOrder, LAMBDA s : IF s \in support \intersect Dirty
                                            THEN CommitStep(s) ELSE NoStep)
CommitRest == OtherPart \o <<Done("CommitOk")>>

LEMMA OrderedSettings ==
    /\ PlainOrder \in Seq(Plain) /\ \A i \in DOMAIN PlainOrder : PlainOrder[i] \in Plain
    /\ GeneralOrder \in Seq(General) /\ \A i \in DOMAIN GeneralOrder : GeneralOrder[i] \in General
BY OrderAssumption, LenProperties, ElementOfSeq DEF IsOrderOf

\* The tables come first, each with its wait.
LEMMA InitParts ==
    /\ BuildInitSteps = InitTables \o InitRest
    /\ InitTables \in Seq(BodySteps) /\ Len(InitTables) = 6
    /\ InitTables[1] = Send(Get("GetProtocolInfo")) /\ InitTables[2] = Await("ProtocolInfo")
    /\ InitTables[3] = Send(Get("GetSupport")) /\ InitTables[4] = Await("SupportFunction")
    /\ InitTables[5] = TableTwoStep
    /\ InitTables[6] = If("PairedList", <<Send(Get("GetPairedList"))>>)
    /\ InitGeneral \in Seq(BodySteps) /\ InitPlain \in Seq(BodySteps)
    /\ <<Done("InitOk")>> \in Seq(Steps)
<1>1. /\ Send(Get("GetProtocolInfo")) \in BodySteps /\ Await("ProtocolInfo") \in BodySteps
      /\ Send(Get("GetSupport")) \in BodySteps /\ Await("SupportFunction") \in BodySteps
    BY StepTypes, RequestTypes DEF BodySteps, Waits
<1>2. TableTwoStep \in BodySteps
    <2>1. Send(Get("GetSupport2")) \in SendSteps /\ Await("SupportFunction") \in SendSteps
        BY StepTypes, RequestTypes DEF Waits
    <2>2. <<Send(Get("GetSupport2")), Await("SupportFunction")>> \in Seq(SendSteps)
        BY <2>1
    <2> QED BY <2>2, StepTypes DEF BodySteps, Functions, TableTwoStep
<1>3. If("PairedList", <<Send(Get("GetPairedList"))>>) \in BodySteps
    <2>1. Send(Get("GetPairedList")) \in SendSteps
        BY StepTypes, RequestTypes
    <2>2. <<Send(Get("GetPairedList"))>> \in Seq(SendSteps)
        BY <2>1, OneElement
    <2> QED BY <2>2, StepTypes DEF BodySteps, Functions
<1>4. InitTables = <<Send(Get("GetProtocolInfo")), Await("ProtocolInfo"),
                     Send(Get("GetSupport")), Await("SupportFunction"),
                     TableTwoStep, If("PairedList", <<Send(Get("GetPairedList"))>>)>>
    BY DEF InitTables, TableTwoStep
<1>5. InitTables \in Seq(BodySteps)
    BY <1>1, <1>2, <1>3, <1>4
<1>6. InitGeneral \in Seq(BodySteps)
    <2> DEFINE both(s) == <<Send(Body("GetCapability", s, None)), Send(Body("GetParam", s, None))>>
    <2>1. \A s \in General : If(s, both(s)) \in BodySteps
        <3> SUFFICES ASSUME NEW s \in General PROVE If(s, both(s)) \in BodySteps
            OBVIOUS
        <3>1. Send(Body("GetCapability", s, None)) \in SendSteps
              /\ Send(Body("GetParam", s, None)) \in SendSteps
            BY StepTypes, RequestTypes DEF Settings
        <3>2. both(s) \in Seq(SendSteps)
            BY <3>1
        <3> HIDE DEF both
        <3> QED BY <3>2, StepTypes DEF BodySteps, Functions
    <2>2. InitGeneral = [i \in DOMAIN GeneralOrder |-> If(GeneralOrder[i], both(GeneralOrder[i]))]
        BY DEF InitGeneral, Each
    <2> HIDE DEF both
    <2>3. InitGeneral \in [DOMAIN GeneralOrder -> BodySteps]
        BY <2>1, <2>2, OrderedSettings
    <2> QED BY <2>3, OrderedSettings, EachIsBody
<1>7. InitPlain \in Seq(BodySteps)
    <2>1. \A s \in Plain : Send(Body("GetParam", s, None)) \in BodySteps
        BY StepTypes, RequestTypes DEF BodySteps, Settings
    <2>2. InitPlain \in [DOMAIN PlainOrder -> BodySteps]
        BY <2>1, OrderedSettings DEF InitPlain, Each
    <2> QED BY <2>2, OrderedSettings, EachIsBody
<1>8. <<Done("InitOk")>> \in Seq(Steps)
    BY StepTypes, OneElement DEF Steps
<1>9. InitRest = (InitGeneral \o InitPlain) \o <<Done("InitOk")>>
      /\ BuildInitSteps = ((InitTables \o InitGeneral) \o InitPlain) \o <<Done("InitOk")>>
    BY DEF InitRest, BuildInitSteps
<1>10. BuildInitSteps = InitTables \o InitRest
    <2>1. BodySteps \subseteq Steps
        BY DEF BodySteps, Steps
    <2>2. /\ InitTables \in Seq(Steps) /\ InitGeneral \in Seq(Steps) /\ InitPlain \in Seq(Steps)
          /\ InitGeneral \o InitPlain \in Seq(Steps)
        BY <1>5, <1>6, <1>7, <2>1, SeqMonotonic, ConcatProperties
    <2>3. (InitTables \o InitGeneral) \o InitPlain = InitTables \o (InitGeneral \o InitPlain)
        <3>1. Regroups(InitTables, InitGeneral, InitPlain)
            BY <2>2, Regrouped, Zenon
        <3> QED BY <3>1, Zenon DEF Regroups
    <2>4. (InitTables \o (InitGeneral \o InitPlain)) \o <<Done("InitOk")>>
              = InitTables \o ((InitGeneral \o InitPlain) \o <<Done("InitOk")>>)
        <3>1. Regroups(InitTables, InitGeneral \o InitPlain, <<Done("InitOk")>>)
            BY <1>8, <2>2, Regrouped, Zenon
        <3> QED BY <3>1, Zenon DEF Regroups
    <2> QED BY <1>9, <2>3, <2>4
<1> QED BY <1>4, <1>5, <1>6, <1>7, <1>8, <1>10

LEMMA InitShaped ==
    Shaped(BuildInitSteps) /\ BuildInitSteps[1].kind = "Send"
<1>1. /\ InitTables \in Seq(Steps) /\ InitGeneral \in Seq(Steps) /\ InitPlain \in Seq(Steps)
      /\ DOMAIN InitTables = 1..6
    <2>1. BodySteps \subseteq Steps
        BY DEF BodySteps, Steps
    <2> QED BY <2>1, InitParts, SeqMonotonic, LenProperties
<1>2. Coupled(InitTables)
    BY <1>1, InitParts DEF Coupled, Asks, Asking, WaitFor, Send, Get, Body, Await, If, TableTwoStep
<1>3. Coupled(TableTwoStep.inner) /\ TableTwoStep.inner[1].kind # "Await"
    <2> DEFINE inner == <<Send(Get("GetSupport2")), Await("SupportFunction")>>
    <2>1. TableTwoStep.inner = inner
        BY DEF TableTwoStep, If
    <2>2. DOMAIN inner = {1, 2} /\ inner[1] = Send(Get("GetSupport2"))
          /\ inner[2] = Await("SupportFunction")
        OBVIOUS
    <2> HIDE DEF inner
    <2>3. inner[1].kind = "Send" /\ Asks(inner[1]) /\ inner[1].body.op = "GetSupport2"
        BY <2>2 DEF Send, Get, Body, Asks, Asking
    <2>4. inner[2].kind = "Await" /\ ~Asks(inner[2])
          /\ inner[2] = Await(WaitFor(inner[1].body.op))
        BY <2>2, <2>3 DEF Await, Asks, WaitFor
    <2>5. Coupled(inner)
        BY <2>2, <2>3, <2>4 DEF Coupled
    <2> QED BY <2>1, <2>3, <2>5
<1>4. Loose(InitTables[6])
    BY InitParts, LooseSteps DEF Get, Body, Asking
<1>5. Shaped(InitTables)
    <2> SUFFICES ASSUME NEW i \in 1..6, InitTables[i].kind = "If", InitTables[i].inner # <<>>
                 PROVE  Coupled(InitTables[i].inner) /\ InitTables[i].inner[1].kind # "Await"
        BY <1>1, <1>2 DEF Shaped
    <2>1. CASE i \in 1..4
        BY <2>1, InitParts DEF Send, Await
    <2>2. CASE i = 5
        BY <1>3, <2>2, InitParts
    <2>3. CASE i = 6
        BY <1>4, <2>3 DEF Loose
    <2> QED BY <2>1, <2>2, <2>3
<1> DEFINE L == {step \in Steps : Loose(step)}
<1>6. \A i \in DOMAIN InitGeneral : InitGeneral[i] \in L
    <2> SUFFICES ASSUME NEW i \in DOMAIN InitGeneral PROVE Loose(InitGeneral[i])
        BY <1>1, LenProperties, ElementOfSeq
    <2>1. InitGeneral[i] = If(GeneralOrder[i],
                              <<Send(Body("GetCapability", GeneralOrder[i], None)),
                                Send(Body("GetParam", GeneralOrder[i], None))>>)
        BY DEF InitGeneral, Each
    <2> QED BY <2>1, LooseSteps DEF Body, Asking
<1>7. \A i \in DOMAIN InitPlain : InitPlain[i] \in L
    <2> SUFFICES ASSUME NEW i \in DOMAIN InitPlain PROVE Loose(InitPlain[i])
        BY <1>1, LenProperties, ElementOfSeq
    <2>1. InitPlain[i] = Send(Body("GetParam", PlainOrder[i], None))
        BY DEF InitPlain, Each
    <2> QED BY <2>1, LooseSteps DEF Body, Asking
<1>8. \A i \in DOMAIN <<Done("InitOk")>> : <<Done("InitOk")>>[i] \in L
    BY StepTypes, LooseSteps DEF Steps
<1> HIDE DEF L
<1>9. /\ InitGeneral \o InitPlain \in Seq(Steps)
      /\ \A i \in DOMAIN (InitGeneral \o InitPlain) : (InitGeneral \o InitPlain)[i] \in L
    BY <1>1, <1>6, <1>7, EachOfBoth
<1>10. InitRest \in Seq(Steps) /\ \A i \in DOMAIN InitRest : InitRest[i] \in L
    BY <1>8, <1>9, EachOfBoth, InitParts DEF InitRest
<1>11. Shaped(InitTables \o InitRest)
    <2>1. \A i \in DOMAIN InitRest : Loose(InitRest[i])
        BY <1>10 DEF L
    <2> QED BY <1>1, <1>5, <1>10, <2>1, LooseBehind
<1>12. (InitTables \o InitRest)[1] = InitTables[1]
    <2>1. Len(InitRest) \in Nat /\ Len(InitTables) = 6
        BY <1>10, LenProperties, InitParts
    <2>2. 1 \in 1..(Len(InitTables) + Len(InitRest)) /\ 1 <= Len(InitTables)
        BY <2>1
    <2> QED BY <1>1, <1>10, <2>2, ConcatProperties
<1>13. /\ BuildInitSteps = InitTables \o InitRest
       /\ InitTables[1] = Send(Get("GetProtocolInfo"))
    BY InitParts
<1>14. InitTables[1].kind = "Send"
    BY <1>13 DEF Send
<1> QED BY <1>11, <1>12, <1>13, <1>14, Zenon

\* A sync asks for the multipoint list, a commit only sets.
LEMMA SyncShaped ==
    Shaped(BuildSyncSteps) /\ BuildSyncSteps[1].kind # "Await"
<1> DEFINE list == If("PairedList", <<Send(Get("GetPairedList"))>>)
<1>1. BuildSyncSteps = <<list, Done("SyncOk")>> /\ BuildSyncSteps \in Seq(Steps)
    BY SyncSteps DEF BuildSyncSteps
<1>2. Loose(list) /\ Loose(Done("SyncOk"))
    BY LooseSteps DEF Get, Body, Asking
<1> HIDE DEF list
<1>3. \A i \in DOMAIN BuildSyncSteps : Loose(BuildSyncSteps[i])
    BY <1>1, <1>2
<1>4. 1 \in DOMAIN BuildSyncSteps
    BY <1>1
<1> QED BY <1>1, <1>3, <1>4, LooseShaped DEF Loose

LEMMA CommitParts ==
    ASSUME EngineTypes
    PROVE  /\ BuildCommitSteps = (PlainPart \o <<KeyPart>>) \o CommitRest
           /\ PlainPart \in Seq(Steps) /\ KeyPart \in Steps /\ OtherPart \in Seq(Steps)
           /\ <<Done("CommitOk")>> \in Seq(Steps)
           /\ \A i \in DOMAIN PlainPart :
                  \/ PlainPart[i] = NoStep
                  \/ \E body, s : /\ body.op = "SetParam" /\ body.arg = s
                                /\ PlainPart[i] = SendCommit(body, s)
           /\ \A i \in DOMAIN OtherPart :
                  \/ OtherPart[i] = NoStep
                  \/ \E body, s : /\ body.op = "SetParam" /\ body.arg = s
                                /\ OtherPart[i] = SendCommit(body, s)
<1>1. BodySteps \subseteq Steps
    BY DEF BodySteps, Steps
<1>2. \A s \in Settings : CommitStep(s) \in Steps
    <2> SUFFICES ASSUME NEW s \in Settings PROVE CommitStep(s) \in Steps
        OBVIOUS
    <2>1. props[s].desired \in Values
        BY DEF EngineTypes
    <2> QED BY <1>1, <2>1, StepTypes, RequestTypes DEF CommitStep, BodySteps
<1>3. NoStep \in Steps
    BY <1>1, StepTypes
<1>4. PlainPart = [i \in DOMAIN PlainOrder |-> IF PlainOrder[i] \in Dirty
                                               THEN CommitStep(PlainOrder[i]) ELSE NoStep]
    BY DEF PlainPart, Each
<1>5. OtherPart = [i \in DOMAIN GeneralOrder |-> IF GeneralOrder[i] \in support \intersect Dirty
                                                 THEN CommitStep(GeneralOrder[i]) ELSE NoStep]
    BY DEF OtherPart, Each
<1>6. PlainPart \in Seq(Steps)
    <2>1. \A i \in DOMAIN PlainOrder : PlainPart[i] \in Steps
        BY <1>2, <1>3, <1>4, OrderedSettings DEF Settings
    <2>2. DOMAIN PlainOrder = 1..Len(PlainOrder) /\ Len(PlainOrder) \in Nat
        BY OrderedSettings, LenProperties
    <2>3. PlainPart \in [1..Len(PlainOrder) -> Steps]
        BY <1>4, <2>1, <2>2
    <2> QED BY <2>2, <2>3
<1>7. OtherPart \in Seq(Steps)
    <2>1. \A i \in DOMAIN GeneralOrder : OtherPart[i] \in Steps
        BY <1>2, <1>3, <1>5, OrderedSettings DEF Settings
    <2>2. DOMAIN GeneralOrder = 1..Len(GeneralOrder) /\ Len(GeneralOrder) \in Nat
        BY OrderedSettings, LenProperties
    <2>3. OtherPart \in [1..Len(GeneralOrder) -> Steps]
        BY <1>5, <2>1, <2>2
    <2> QED BY <2>2, <2>3
<1>8. KeyPart \in Steps
    BY <1>1, StepTypes, RequestTypes DEF KeyPart, EngineTypes, BodySteps
<1>9. <<Done("CommitOk")>> \in Seq(Steps)
    BY StepTypes, OneElement DEF Steps
<1>10. \A s : \E body : /\ body.op = "SetParam" /\ body.arg = s
                          /\ CommitStep(s) = SendCommit(body, s)
    BY DEF CommitStep, Body
<1>11. BuildCommitSteps = (PlainPart \o <<KeyPart>>) \o CommitRest
    <2>1. BuildCommitSteps = ((PlainPart \o <<KeyPart>>) \o OtherPart) \o <<Done("CommitOk")>>
        BY DEF BuildCommitSteps, PlainPart, KeyPart, OtherPart
    <2>2. PlainPart \o <<KeyPart>> \in Seq(Steps)
        BY <1>6, <1>8, OneElement, ConcatProperties
    <2>3. Regroups(PlainPart \o <<KeyPart>>, OtherPart, <<Done("CommitOk")>>)
        BY <1>7, <1>9, <2>2, Regrouped, Zenon
    <2> QED BY <2>1, <2>3, Zenon DEF Regroups, CommitRest
<1>12. ASSUME NEW i \in DOMAIN PlainPart
       PROVE  \/ PlainPart[i] = NoStep
              \/ \E body, s : /\ body.op = "SetParam" /\ body.arg = s
                             /\ PlainPart[i] = SendCommit(body, s)
    <2>1. PlainPart[i] = NoStep \/ PlainPart[i] = CommitStep(PlainOrder[i])
        BY <1>4
    <2>2. PICK body : /\ body.op = "SetParam" /\ body.arg = PlainOrder[i]
                      /\ CommitStep(PlainOrder[i]) = SendCommit(body, PlainOrder[i])
        BY <1>10
    <2> QED BY <2>1, <2>2
<1>13. ASSUME NEW i \in DOMAIN OtherPart
       PROVE  \/ OtherPart[i] = NoStep
              \/ \E body, s : /\ body.op = "SetParam" /\ body.arg = s
                             /\ OtherPart[i] = SendCommit(body, s)
    <2>1. OtherPart[i] = NoStep \/ OtherPart[i] = CommitStep(GeneralOrder[i])
        BY <1>5
    <2>2. PICK body : /\ body.op = "SetParam" /\ body.arg = GeneralOrder[i]
                      /\ CommitStep(GeneralOrder[i]) = SendCommit(body, GeneralOrder[i])
        BY <1>10
    <2> QED BY <2>1, <2>2
<1> QED BY <1>6, <1>7, <1>8, <1>9, <1>11, <1>12, <1>13

LEMMA CommitShaped ==
    ASSUME EngineTypes
    PROVE  Shaped(BuildCommitSteps) /\ BuildCommitSteps[1].kind # "Await"
<1> DEFINE L == {step \in Steps : Loose(step)}
<1>1. \A body, s : body.op = "SetParam" /\ body.arg = s => Loose(SendCommit(body, s))
    BY LooseSteps DEF Asking
<1>2. /\ \A i \in DOMAIN PlainPart : PlainPart[i] \in L
      /\ \A i \in DOMAIN OtherPart : OtherPart[i] \in L
    <2>1. /\ \A i \in DOMAIN PlainPart : PlainPart[i] \in Steps
          /\ \A i \in DOMAIN OtherPart : OtherPart[i] \in Steps
        BY CommitParts
    <2>2. Loose(NoStep)
        BY LooseSteps
    <2>3. ASSUME NEW i \in DOMAIN PlainPart PROVE Loose(PlainPart[i])
        <3>1. \/ PlainPart[i] = NoStep
              \/ \E body, s : /\ body.op = "SetParam" /\ body.arg = s
                             /\ PlainPart[i] = SendCommit(body, s)
            BY CommitParts, Zenon
        <3> QED BY <1>1, <2>2, <3>1, Zenon
    <2>4. ASSUME NEW i \in DOMAIN OtherPart PROVE Loose(OtherPart[i])
        <3>1. \/ OtherPart[i] = NoStep
              \/ \E body, s : /\ body.op = "SetParam" /\ body.arg = s
                             /\ OtherPart[i] = SendCommit(body, s)
            BY CommitParts, Zenon
        <3> QED BY <1>1, <2>2, <3>1, Zenon
    <2> QED BY <2>1, <2>3, <2>4
<1>3. KeyPart \in L
    BY CommitParts, LooseSteps DEF KeyPart, Body, Asking
<1>4. Done("CommitOk") \in L
    BY StepTypes, LooseSteps DEF Steps
<1> HIDE DEF L
<1>5. \A e \in L : \A i \in DOMAIN <<e>> : <<e>>[i] \in L
    OBVIOUS
<1>6. PlainPart \o <<KeyPart>> \in Seq(Steps)
      /\ \A i \in DOMAIN (PlainPart \o <<KeyPart>>) : (PlainPart \o <<KeyPart>>)[i] \in L
    BY <1>2, <1>3, <1>5, CommitParts, OneElement, EachOfBoth
<1>7. CommitRest \in Seq(Steps) /\ \A i \in DOMAIN CommitRest : CommitRest[i] \in L
    BY <1>2, <1>4, <1>5, CommitParts, EachOfBoth DEF CommitRest
<1>8. BuildCommitSteps \in Seq(Steps)
      /\ \A i \in DOMAIN BuildCommitSteps : BuildCommitSteps[i] \in L
    <2> DEFINE front == PlainPart \o <<KeyPart>>
    <2> HIDE DEF front
    <2>1. front \o CommitRest \in Seq(Steps)
          /\ \A i \in DOMAIN (front \o CommitRest) : (front \o CommitRest)[i] \in L
        BY <1>6, <1>7, EachOfBoth DEF front
    <2> QED BY <2>1, CommitParts DEF front
<1>9. \A i \in DOMAIN BuildCommitSteps : Loose(BuildCommitSteps[i])
    BY <1>8 DEF L
<1>10. 1 \in DOMAIN BuildCommitSteps
    BY <1>8, CommitSteps, LenProperties, EmptySeq DEF EndsInDone
<1> QED BY <1>8, <1>9, <1>10, LooseShaped DEF Loose

---------------------------------------------------------------------------
(* Where a task goes on *)

\* The task goes on with these steps: the first sends a command, or awaits the
\* answer to the last one, or is the Done.
GoesOn(steps, last, buf) ==
    /\ task'.running /\ task'.steps = steps
    /\ Head(steps).kind \in {"Send", "Await", "Done"}
    /\ Head(steps).kind = "Send" =>
           /\ task'.wait = "Ack" /\ task'.deadline = "running"
           /\ task'.last = Head(steps).body /\ task'.last \in Requests
           /\ sendBuf' = Append(buf, DataFrame(txSeq, task'.last))
    /\ Head(steps).kind = "Await" =>
           /\ task'.wait = Head(steps).wait /\ task'.deadline = "running"
           /\ task'.last = last /\ sendBuf' = buf
    /\ Head(steps).kind = "Done" =>
           task'.wait = "None" /\ task'.last = last /\ sendBuf' = buf

\* A task that waits for the reply to what it sent last.
Waiting(t, steps, wait, last) ==
    [t EXCEPT !.steps = steps, !.wait = wait, !.deadline = "running",
              !.last = last, !.retries = 0]

LEMMA WaitingFields ==
    ASSUME NEW t \in Tasks, t.running, NEW steps, NEW wait, NEW last, NEW u,
           u = Waiting(t, steps, wait, last)
    PROVE  /\ u.running /\ u.steps = steps /\ u.wait = wait
           /\ u.deadline = "running" /\ u.last = last
BY DEF Tasks, Waiting

LEMMA AdvancedGoesOn ==
    ASSUME NEW t \in Tasks, t.running, EndsInDone(t.steps), t.wait = "None",
           NEW buf, NEW known,
           task' = Advanced(t, buf, known).task, sendBuf' = Advanced(t, buf, known).buf
    PROVE  GoesOn(Unfold(t.steps, known), t.last, buf)
<1> DEFINE rest == Unfold(t.steps, known)
           front == Head(rest)
<1>1. t.steps \in Seq(Steps)
    BY DEF Tasks
<1>2. rest \in Seq(Steps) /\ EndsInDone(rest) /\ rest # <<>> /\ front.kind # "If"
    BY <1>1, UnfoldKeepsDone DEF EndsInDone
<1>3. front \in Steps
    <2> HIDE DEF rest
    <2> QED BY <1>2, HeadTailProperties
<1>4. front.kind \in {"Send", "Await", "Done"} /\ (front.kind = "Send" => front.body \in Requests)
    BY <1>2, <1>3, SendFields
<1> SUFFICES GoesOn(rest, t.last, buf)
    OBVIOUS
<1>5. CASE front.kind = "Send"
    <2>1. /\ task' = [t EXCEPT !.steps = rest, !.wait = "Ack", !.deadline = "running",
                               !.last = front.body, !.retries = 0]
          /\ sendBuf' = Append(buf, DataFrame(txSeq, front.body))
        BY <1>2, <1>5 DEF Advanced
    <2> HIDE DEF rest
    <2>2. /\ task'.running /\ task'.steps = rest /\ task'.wait = "Ack"
          /\ task'.deadline = "running" /\ task'.last = front.body
        <3>1. task' = Waiting(t, rest, "Ack", front.body)
            BY <2>1 DEF Waiting
        <3> HIDE DEF front
        <3> QED BY <3>1, WaitingFields
    <2> QED BY <1>4, <1>5, <2>1, <2>2 DEF GoesOn
<1>6. CASE front.kind = "Await"
    <2>1. /\ task' = [t EXCEPT !.steps = rest, !.wait = front.wait, !.deadline = "running",
                               !.last = t.last, !.retries = 0]
          /\ sendBuf' = buf
        BY <1>2, <1>6 DEF Advanced
    <2> HIDE DEF rest
    <2>2. /\ task'.running /\ task'.steps = rest /\ task'.wait = front.wait
          /\ task'.deadline = "running" /\ task'.last = t.last
        <3>1. task' = Waiting(t, rest, front.wait, t.last)
            BY <2>1 DEF Waiting
        <3> HIDE DEF front
        <3> QED BY <3>1, WaitingFields
    <2> QED BY <1>4, <1>6, <2>1, <2>2 DEF GoesOn
<1>7. CASE front.kind = "Done"
    <2>1. task' = [t EXCEPT !.steps = rest] /\ sendBuf' = buf
        BY <1>2, <1>7 DEF Advanced
    <2> HIDE DEF rest
    <2>2. /\ task'.running /\ task'.steps = rest /\ task'.wait = t.wait
          /\ task'.last = t.last
        BY <2>1 DEF Tasks
    <2> QED BY <1>4, <1>7, <2>1, <2>2 DEF GoesOn
<1> QED BY <1>4, <1>5, <1>6, <1>7

\* A new task goes on with its steps ...
LEMMA StartGoesOn ==
    ASSUME NEW steps \in Seq(Steps), EndsInDone(steps), NEW known, StartTask(steps, known)
    PROVE  GoesOn(Unfold(steps, known), NoBody, sendBuf)
<1>1. Task(steps).last = NoBody
    BY DEF Task
<1>2. /\ Task(steps) \in Tasks /\ Task(steps).running /\ Task(steps).steps = steps
      /\ Task(steps).wait = "None"
    BY NewTask
<1>3. /\ task' = Advanced(Task(steps), sendBuf, known).task
      /\ sendBuf' = Advanced(Task(steps), sendBuf, known).buf
    BY DEF StartTask
<1> QED BY <1>1, <1>2, <1>3, AdvancedGoesOn

\* ... and one that gets what it awaits with the steps behind that; down to
\* its Done it is over.
LEMMA AdvanceGoesOn ==
    ASSUME EngineTypes, TaskInv, NEW wait \in Waits, task.wait = wait, NEW buf, NEW known,
           AdvanceOn(wait, buf, known)
    PROVE  /\ task.running /\ task.steps \in Seq(Steps) /\ EndsInDone(task.steps)
           /\ Tail(task.steps) \in Seq(Steps) /\ EndsInDone(Tail(task.steps))
           /\ \/ GoesOn(Unfold(Tail(task.steps), known), task.last, buf)
              \/ /\ Head(Unfold(Tail(task.steps), known)).kind = "Done"
                 /\ task' = NoTask /\ sendBuf' = buf
<1> DEFINE left == [task EXCEPT !.wait = "None", !.deadline = "none", !.steps = Tail(@)]
           next == Advanced(left, buf, known)
           rest == Unfold(Tail(task.steps), known)
<1>1. task \in Tasks /\ task.steps \in Seq(Steps)
    BY DEF EngineTypes, Tasks
<1>2. task.running /\ Proceeding(task) /\ task.wait # "None"
    BY DEF TaskInv, Waits
<1>3. EndsInDone(task.steps) /\ Head(task.steps).kind # "Done"
    BY <1>2 DEF Proceeding
<1>4. Tail(task.steps) \in Seq(Steps) /\ EndsInDone(Tail(task.steps))
    BY <1>1, <1>3, TailKeepsDone
<1>5. /\ left \in Tasks /\ left.running /\ left.steps = Tail(task.steps)
      /\ left.wait = "None" /\ left.last = task.last
    BY <1>1, <1>2, <1>4 DEF Tasks
<1>6. /\ sendBuf' = next.buf
      /\ IF AtDone(next.task) THEN task' = NoTask ELSE task' = next.task
    BY DEF AdvanceOn
<1> HIDE DEF left
<1>7. CASE task' = next.task
    <2>1. GoesOn(Unfold(left.steps, known), left.last, buf)
        BY <1>4, <1>5, <1>6, <1>7, AdvancedGoesOn
    <2> QED BY <1>1, <1>2, <1>3, <1>4, <1>5, <2>1
<1>8. CASE AtDone(next.task) /\ task' = NoTask
    <2>1. rest # <<>> /\ rest \in Seq(Steps) /\ Head(rest).kind # "If"
        BY <1>4, UnfoldKeepsDone DEF EndsInDone
    <2>2. next.task.steps = rest /\ (Head(rest).kind \notin {"Send", "Await"} => next.buf = buf)
        <3> DEFINE front == Head(rest)
        <3>1. CASE front.kind = "Send"
            <4>1. next.task = [left EXCEPT !.steps = rest, !.wait = "Ack",
                                   !.deadline = "running", !.last = front.body, !.retries = 0]
                BY <1>5, <2>1, <3>1 DEF Advanced
            <4> HIDE DEF rest, next
            <4> QED BY <1>5, <3>1, <4>1 DEF Tasks
        <3>2. CASE front.kind = "Await"
            <4>1. next.task = [left EXCEPT !.steps = rest, !.wait = front.wait,
                                   !.deadline = "running", !.last = left.last, !.retries = 0]
                BY <1>5, <2>1, <3>2 DEF Advanced
            <4> HIDE DEF rest, next
            <4> QED BY <1>5, <3>2, <4>1 DEF Tasks
        <3>3. CASE front.kind \notin {"Send", "Await"}
            <4>1. next.task = [left EXCEPT !.steps = rest] /\ next.buf = buf
                BY <1>5, <2>1, <3>3 DEF Advanced
            <4> HIDE DEF rest, next
            <4> QED BY <1>5, <3>3, <4>1 DEF Tasks
        <3> QED BY <3>1, <3>2, <3>3
    <2>3. Head(rest).kind = "Done"
        BY <1>8, <2>2 DEF AtDone
    <2> QED BY <1>1, <1>2, <1>3, <1>4, <1>6, <1>8, <2>2, <2>3
<1> QED BY <1>6, <1>7, <1>8

---------------------------------------------------------------------------
(* What the buffers hold next *)

\* Without the first frame the others are one place further to the front.
LEMMA AtTail ==
    ASSUME NEW S, NEW s \in Seq(S), s # <<>>, NEW kind
    PROVE  /\ \A i \in At(Tail(s), kind) : i + 1 \in At(s, kind) /\ Tail(s)[i] = s[i + 1]
           /\ \A i \in At(s, kind) : i # 1 => i - 1 \in At(Tail(s), kind)
           /\ At(s, kind) \subseteq Nat \ {0}
           /\ Head(s) \in kind <=> 1 \in At(s, kind)
<1>1. /\ Len(s) \in Nat \ {0} /\ DOMAIN s = 1..Len(s) /\ Head(s) = s[1]
      /\ DOMAIN Tail(s) = 1..(Len(s) - 1)
      /\ \A i \in 1..(Len(s) - 1) : Tail(s)[i] = s[i + 1]
    BY EmptySeq, LenProperties, HeadTailProperties
<1>2. ASSUME NEW i \in At(Tail(s), kind)
      PROVE  i + 1 \in At(s, kind) /\ Tail(s)[i] = s[i + 1]
    BY <1>1 DEF At
<1>3. ASSUME NEW i \in At(s, kind), i # 1
      PROVE  i - 1 \in At(Tail(s), kind)
    <2>1. i - 1 \in 1..(Len(s) - 1) /\ (i - 1) + 1 = i /\ s[i] \in kind
        BY <1>1, <1>3 DEF At
    <2>2. Tail(s)[i - 1] = s[i]
        BY <1>1, <2>1
    <2> QED BY <1>1, <2>1, <2>2 DEF At
<1> QED BY <1>1, <1>2, <1>3 DEF At

\* One of a kind, and it is taken: none is left.
LEMMA AtTaken ==
    ASSUME NEW S, NEW s \in Seq(S), s # <<>>, NEW kind,
           \A i, j \in At(s, kind) : i = j, Head(s) \in kind
    PROVE  At(Tail(s), kind) = {}
<1> SUFFICES ASSUME NEW i \in At(Tail(s), kind) PROVE FALSE
    OBVIOUS
<1>1. i + 1 \in At(s, kind) /\ 1 \in At(s, kind) /\ i \in Nat \ {0}
    <2>1. Tail(s) \in Seq(S)
        BY HeadTailProperties
    <2>2. DOMAIN Tail(s) = 1..Len(Tail(s)) /\ Len(Tail(s)) \in Nat
        BY <2>1, LenProperties
    <2>3. i \in Nat \ {0}
        BY <2>2 DEF At
    <2> QED BY <2>3, AtTail
<1> QED BY <1>1

\* The line with one more frame in the send buffer.
LEMMA LineWith ==
    ASSUME toDevice \in Seq(Outgoing), NEW buf \in Seq(Outgoing), NEW frame \in Outgoing
    PROVE  /\ toDevice \o Append(buf, frame) = Append(toDevice \o buf, frame)
           /\ toDevice \o buf \in Seq(Outgoing)
<1>1. Append(buf, frame) = buf \o <<frame>> /\ <<frame>> \in Seq(Outgoing)
    BY AppendIsConcat, OneElement
<1>2. toDevice \o buf \in Seq(Outgoing)
    BY ConcatProperties
<1>3. Append(toDevice \o buf, frame) = (toDevice \o buf) \o <<frame>>
    BY <1>2, AppendIsConcat
<1>4. Regroups(toDevice, buf, <<frame>>)
    BY <1>1, Regrouped, Zenon
<1> QED BY <1>1, <1>2, <1>3, <1>4, Zenon DEF Regroups

\* An ACK of the engine is no command.
LEMMA AckedLine ==
    ASSUME WireTypes
    PROVE  /\ toDevice \o Acked \in Seq(Outgoing)
           /\ At(toDevice \o Acked, Commands) = At(Line, Commands)
           /\ Within(toDevice \o Acked, Line, Commands)
<1>1. toDevice \in Seq(Outgoing) /\ sendBuf \in Seq(Outgoing) /\ Line \in Seq(Outgoing)
    BY ConcatProperties DEF WireTypes, Line
<1>2. AckFrame \in Outgoing /\ AckFrame \notin Commands
    BY DEF Outgoing, Commands, AckFrame
<1>3. toDevice \o Acked = Append(Line, AckFrame)
    BY <1>1, <1>2, LineWith DEF Acked, Line
<1> HIDE DEF Line
<1>4. Append(Line, AckFrame) \in Seq(Outgoing)
    BY <1>1, <1>2, AppendProperties
<1> QED BY <1>1, <1>2, <1>3, <1>4, AtMore, WithinMore

\* The first frame the engine has read is the first on its way to it.
LEMMA FirstReply ==
    ASSUME WireTypes, recvBuf # <<>>
    PROVE  /\ Replies # <<>> /\ Head(Replies) = Head(recvBuf)
           /\ Tail(recvBuf) \o fromDevice = Tail(Replies)
           /\ Replies \in Seq(Incomings) /\ Tail(Replies) \in Seq(Incomings)
           /\ Head(recvBuf) \in Incomings
<1>1. recvBuf \in Seq(Incomings) /\ fromDevice \in Seq(Incomings)
    BY DEF WireTypes
<1>2. Replies # <<>> /\ Head(Replies) = Head(recvBuf) /\ Replies \in Seq(Incomings)
      /\ Tail(recvBuf) \o fromDevice = Tail(Replies)
    BY <1>1, TailOfConcat DEF Replies
<1> QED BY <1>1, <1>2, HeadTailProperties

---------------------------------------------------------------------------
(* The task keeps its shape *)

\* With the step that a task goes on with.
LEMMA GoesOnShaped ==
    ASSUME NEW steps, Shaped(steps), NEW last, NEW buf, GoesOn(steps, last, buf),
           Head(steps).kind = "Await" =>
               last.op \in Asking /\ Head(steps) = Await(WaitFor(last.op))
    PROVE  TaskShape'
<1>1. CASE Head(steps).kind = "Send"
    BY <1>1 DEF GoesOn, TaskShape, AtStep
<1>2. CASE Head(steps).kind = "Await"
    <2>1. task'.wait = WaitFor(last.op) /\ task'.last = last
        BY <1>2 DEF GoesOn, Await
    <2>2. task'.wait # "Ack"
        BY <2>1 DEF WaitFor
    <2> QED BY <1>2, <2>1, <2>2 DEF GoesOn, TaskShape, AtStep
<1>3. CASE Head(steps).kind = "Done"
    BY <1>3 DEF GoesOn, TaskShape, AtStep
<1> QED BY <1>1, <1>2, <1>3 DEF GoesOn

\* What the builders build.
Built(steps) ==
    /\ steps \in Seq(Steps) /\ EndsInDone(steps)
    /\ Shaped(steps) /\ steps[1].kind # "Await"

LEMMA BuiltTasks ==
    /\ Built(BuildInitSteps) /\ Built(BuildSyncSteps)
    /\ EngineTypes => Built(BuildCommitSteps)
BY InitSteps, SyncSteps, CommitSteps, InitShaped, SyncShaped, CommitShaped DEF Built

LEMMA StartShaped ==
    ASSUME NEW steps, Built(steps), NEW known, StartTask(steps, known)
    PROVE  /\ TaskShape' /\ GoesOn(Unfold(steps, known), NoBody, sendBuf)
           /\ Head(Unfold(steps, known)).kind # "Await"
<1> DEFINE rest == Unfold(steps, known)
<1>1. GoesOn(rest, NoBody, sendBuf)
    BY StartGoesOn DEF Built
<1>2. Shaped(rest) /\ rest[1].kind # "Await"
    BY UnfoldShaped DEF Built
<1>3. Head(rest) = rest[1]
    <2>1. rest \in Seq(Steps) /\ rest # <<>>
        BY UnfoldKeepsDone DEF Built, EndsInDone
    <2> HIDE DEF rest
    <2> QED BY <2>1
<1> HIDE DEF rest
<1>4. TaskShape'
    BY <1>1, <1>2, <1>3, GoesOnShaped
<1> QED BY <1>1, <1>2, <1>3, <1>4 DEF rest

\* advance_on goes from a command that asks to its wait, and from anything
\* else to a step that does not wait.
LEMMA AdvanceShaped ==
    ASSUME EngineTypes, TaskInv, TaskShape,
           NEW wait \in Waits, task.wait = wait, NEW buf, NEW known,
           AdvanceOn(wait, buf, known)
    PROVE  /\ TaskShape'
           /\ wait = "Ack" => Head(task.steps).kind = "Send" /\ task.last = Head(task.steps).body
           /\ wait # "Ack" => Head(task.steps) = Await(wait)
           /\ Asks(Head(task.steps)) =>
                  /\ task'.running /\ task'.steps = Tail(task.steps)
                  /\ Head(task'.steps) = Await(WaitFor(task.last.op))
                  /\ task'.wait # "None" /\ task'.deadline = "running"
                  /\ task'.last = task.last /\ sendBuf' = buf
           /\ ~Asks(Head(task.steps)) =>
                  Head(Unfold(Tail(task.steps), known)).kind # "Await"
<1> DEFINE steps == task.steps
           tail == Tail(steps)
           rest == Unfold(tail, known)
<1>1. /\ task.running /\ steps \in Seq(Steps) /\ EndsInDone(steps)
      /\ tail \in Seq(Steps) /\ EndsInDone(tail)
      /\ \/ GoesOn(rest, task.last, buf)
         \/ Head(rest).kind = "Done" /\ task' = NoTask /\ sendBuf' = buf
    BY AdvanceGoesOn
<1>2. Shaped(steps) /\ AtStep(task) /\ steps # <<>> /\ tail # <<>>
    BY <1>1 DEF TaskShape, EndsInDone
<1>3. /\ Shaped(tail)
      /\ tail[1].kind = "Await" =>
             Asks(Head(steps)) /\ tail[1] = Await(WaitFor(Head(steps).body.op))
      /\ Asks(Head(steps)) => tail[1] = Await(WaitFor(Head(steps).body.op))
    BY <1>1, <1>2, TailShaped
<1>4. /\ wait = "Ack" => Head(steps).kind = "Send" /\ task.last = Head(steps).body
      /\ wait # "Ack" => Head(steps) = Await(wait)
    BY <1>2 DEF AtStep, Waits
<1>5. wait # "Ack" => ~Asks(Head(steps))
    BY <1>4 DEF Asks, Await
<1>6. /\ Shaped(rest) /\ rest \in Seq(Steps) /\ rest # <<>>
      /\ rest[1].kind = "Await" => tail[1].kind = "Await" /\ rest = tail
    BY <1>1, <1>3, UnfoldShaped, UnfoldKeepsDone DEF EndsInDone
<1>7. Asks(Head(steps)) => rest = tail
    <2> HIDE DEF tail, steps
    <2>1. ASSUME Asks(Head(steps)) PROVE tail[1].kind # "If"
        <3>1. tail[1] = Await(WaitFor(Head(steps).body.op))
            BY <1>3, <2>1
        <3>2. Await(WaitFor(Head(steps).body.op)).kind = "Await"
            BY DEF Await
        <3> QED BY <3>1, <3>2
    <2> QED BY <1>1, <2>1, UnfoldOfRun
<1> HIDE DEF rest, tail, steps
<1>8. Head(rest) = rest[1]
    BY <1>6
<1>9. ~Asks(Head(steps)) => Head(rest).kind # "Await"
    BY <1>3, <1>6, <1>8
<1>10. Head(rest).kind = "Await" =>
           task.last.op \in Asking /\ Head(rest) = Await(WaitFor(task.last.op))
    BY <1>3, <1>4, <1>5, <1>6, <1>8, <1>9 DEF Asks, steps
<1>11. TaskShape'
    <2>1. CASE GoesOn(rest, task.last, buf)
        BY <1>6, <1>10, <2>1, GoesOnShaped
    <2>2. CASE task' = NoTask
        BY <2>2, NoTaskType DEF TaskShape
    <2> QED BY <1>1, <2>1, <2>2
<1>12. ASSUME Asks(Head(steps))
       PROVE  /\ task'.running /\ task'.steps = tail
              /\ Head(task'.steps) = Await(WaitFor(task.last.op))
              /\ task'.wait # "None" /\ task'.deadline = "running"
              /\ task'.last = task.last /\ sendBuf' = buf
    <2>1. wait = "Ack" /\ task.last = Head(steps).body
        BY <1>4, <1>5, <1>12
    <2>2. rest = tail /\ Head(rest) = Await(WaitFor(task.last.op))
        BY <1>3, <1>7, <1>8, <1>12, <2>1
    <2>3. Head(rest).kind = "Await" /\ Head(rest).wait = WaitFor(task.last.op)
        BY <2>2 DEF Await
    <2>4. GoesOn(rest, task.last, buf)
        BY <1>1, <2>3
    <2> QED BY <2>2, <2>3, <2>4 DEF GoesOn, WaitFor
<1> QED BY <1>4, <1>9, <1>11, <1>12 DEF rest, tail, steps

---------------------------------------------------------------------------
(* The actions *)

\* With nothing under way, a task may go on with whatever comes next.
LEMMA GoesOnAlone ==
    ASSUME toDevice \in Seq(Outgoing), txSeq \in 0..1,
           NEW buf \in Seq(Outgoing), Idle(toDevice \o buf, Replies'),
           NEW steps, NEW last, GoesOn(steps, last, buf), toDevice' = toDevice
    PROVE  UnderWay'
<1>1. toDevice \o buf \in Seq(Outgoing)
    BY ConcatProperties
<1>2. CASE Head(steps).kind = "Send"
    <2>1. /\ task'.wait = "Ack" /\ task'.deadline = "running" /\ task'.last \in Requests
          /\ sendBuf' = Append(buf, DataFrame(txSeq, task'.last))
        BY <1>2 DEF GoesOn
    <2>2. DataFrame(txSeq, task'.last) \in Outgoing
        BY <2>1 DEF DataFrame, Outgoing
    <2>3. Line' = Append(toDevice \o buf, DataFrame(txSeq, task'.last))
        BY <2>1, <2>2, LineWith DEF Line
    <2>4. /\ OneUnderWay(Line', Replies') /\ ForTask(Line', Replies', task')
        BY <1>1, <2>1, <2>3, NewCommand
    <2> QED BY <2>4 DEF UnderWay
<1>3. CASE Head(steps).kind # "Send"
    <2>1. Line' = toDevice \o buf
        BY <1>3 DEF GoesOn, Line
    <2>2. OneUnderWay(Line', Replies') /\ ForTask(Line', Replies', task')
        BY <2>1, NothingUnderWay
    <2> QED BY <2>2 DEF UnderWay
<1> QED BY <1>2, <1>3

\* A task that is over leaves nothing behind.
LEMMA OverAlone ==
    ASSUME Idle(Line', Replies')
    PROVE  UnderWay'
BY NothingUnderWay DEF UnderWay

\* Frames that go, or that are no business of the task, change nothing.
LEMMA FewerAlone ==
    ASSUME WireTypes, WireTypes', UnderWay,
           Within(Line', Line, Commands), Within(Replies', Replies, Marks),
           task'.last = task.last,
           task.wait # "None" /\ task.deadline # "passed" =>
               task'.wait # "None" /\ task'.deadline # "passed"
    PROVE  UnderWay'
<1>1. /\ Line \in Seq(Outgoing) /\ Line' \in Seq(Outgoing)
      /\ Replies \in Seq(Incomings) /\ Replies' \in Seq(Incomings)
    BY ConcatProperties DEF WireTypes, Line, Replies
<1>2. OneUnderWay(Line', Replies') /\ ForTask(Line', Replies', task)
    BY <1>1, FewerUnderWay DEF UnderWay
<1>3. ForTask(Line', Replies', task')
    BY <1>2 DEF ForTask
<1> QED BY <1>2, <1>3 DEF UnderWay

\* The engine takes an ACK.
LEMMA AckHandled ==
    ASSUME IInv, IInv', TaskShape, HandleAck, UNCHANGED wireVars
    PROVE  TaskShape' /\ (UnderWay => UnderWay')
<1>1. /\ WireTypes /\ WireTypes' /\ EngineTypes /\ TaskInv /\ txSeq \in 0..1
      /\ toDevice \in Seq(Outgoing) /\ sendBuf \in Seq(Outgoing)
    BY DEF IInv, EngineTypes, WireTypes
<1>2. recvBuf # <<>> /\ Head(recvBuf).type = "Ack" /\ recvBuf' = Tail(recvBuf)
      /\ AdvanceOn("Ack", sendBuf, support) /\ toDevice' = toDevice /\ fromDevice' = fromDevice
    BY DEF HandleAck, wireVars
<1>3. /\ Replies \in Seq(Incomings) /\ Replies # <<>> /\ Replies' = Tail(Replies)
      /\ Head(Replies) \in Acks
    <2>1. Replies' = Tail(recvBuf) \o fromDevice
        BY <1>2 DEF Replies
    <2>2. Head(recvBuf) \in Incomings
        BY <1>1, <1>2, FirstReply
    <2>3. Head(recvBuf) = AckFrame
        BY <1>2, <2>2 DEF Incomings
    <2> QED BY <1>1, <1>2, <2>1, <2>3, FirstReply DEF Acks
<1>4. Within(Replies', Replies, Marks)
    BY <1>3, WithinTail
<1>5. CASE task.wait # "Ack"
    <2>1. sendBuf' = sendBuf /\ task' = task
        BY <1>2, <1>5 DEF AdvanceOn
    <2>2. Line' = Line
        BY <1>2, <2>1 DEF Line
    <2>3. TaskShape'
        BY <2>1 DEF TaskShape, AtStep
    <2>4. UnderWay => UnderWay'
        BY <1>1, <1>4, <2>1, <2>2, WithinSame, FewerAlone
    <2> QED BY <2>3, <2>4
<1>6. CASE task.wait = "Ack"
    <2>1. "Ack" \in Waits
        BY DEF Waits
    <2>2. TaskShape' /\ task.last = Head(task.steps).body /\ Head(task.steps).kind = "Send"
        BY <1>1, <1>2, <1>6, <2>1, AdvanceShaped
    <2>3. CASE Asks(Head(task.steps))
        <3>1. /\ task'.wait # "None" /\ task'.deadline = "running" /\ task'.last = task.last
              /\ sendBuf' = sendBuf
            BY <1>1, <1>2, <1>6, <2>1, <2>3, AdvanceShaped
        <3>2. Line' = Line
            BY <1>2, <3>1 DEF Line
        <3>3. UnderWay => UnderWay'
            BY <1>1, <1>4, <3>1, <3>2, WithinSame, FewerAlone
        <3> QED BY <2>2, <3>3
    <2>4. CASE ~Asks(Head(task.steps))
        <3> SUFFICES ASSUME UnderWay PROVE UnderWay'
            BY <2>2
        <3>1. task.last.op \notin Asking
            BY <2>2, <2>4 DEF Asks
        <3>2. 1 \in At(Replies, Acks) /\ At(Replies', Acks) = {}
            BY <1>3, AtTail, AtTaken DEF UnderWay, OneUnderWay
        <3>3. At(Line, Commands) = {} /\ At(Replies, Tables) = {}
            BY <3>1, <3>2 DEF UnderWay, OneUnderWay, ForTask
        <3>4. At(Replies', Tables) = {}
            BY <1>3, <3>3, AtTail
        <3>5. Idle(toDevice \o sendBuf, Replies')
            BY <3>2, <3>3, <3>4 DEF Idle, Line
        <3>6. \/ GoesOn(Unfold(Tail(task.steps), support), task.last, sendBuf)
              \/ sendBuf' = sendBuf
            BY <1>1, <1>2, <1>6, <2>1, AdvanceGoesOn
        <3>7. CASE GoesOn(Unfold(Tail(task.steps), support), task.last, sendBuf)
            BY <1>1, <1>2, <3>5, <3>7, GoesOnAlone
        <3>8. CASE sendBuf' = sendBuf
            <4>1. Line' = toDevice \o sendBuf
                BY <1>2, <3>8 DEF Line
            <4> QED BY <3>5, <4>1, OverAlone
        <3> QED BY <3>6, <3>7, <3>8
    <2> QED BY <2>3, <2>4
<1> QED BY <1>5, <1>6

\* The engine takes a table, or the protocol info.
LEMMA TableHandled ==
    ASSUME IInv, IInv', TaskShape, NEW wait \in {"ProtocolInfo", "SupportFunction"}, NEW known,
           recvBuf # <<>>, Head(recvBuf) \in Tables, recvBuf' = Tail(recvBuf),
           AdvanceOn(wait, Acked, known), UNCHANGED wireVars
    PROVE  TaskShape' /\ (UnderWay => UnderWay')
<1>1. /\ WireTypes /\ WireTypes' /\ EngineTypes /\ TaskInv /\ txSeq \in 0..1
      /\ toDevice \in Seq(Outgoing) /\ Acked \in Seq(Outgoing)
      /\ toDevice' = toDevice /\ fromDevice' = fromDevice
    BY AckedType DEF IInv, EngineTypes, WireTypes, wireVars
<1>2. /\ Replies \in Seq(Incomings) /\ Replies # <<>> /\ Replies' = Tail(Replies)
      /\ Head(Replies) \in Tables
    <2>1. Replies' = Tail(recvBuf) \o fromDevice
        BY <1>1 DEF Replies
    <2> QED BY <1>1, <2>1, FirstReply
<1>3. /\ At(toDevice \o Acked, Commands) = At(Line, Commands)
      /\ Within(toDevice \o Acked, Line, Commands)
    BY <1>1, AckedLine
<1>4. CASE task.wait # wait
    <2>1. sendBuf' = Acked /\ task' = task
        BY <1>4 DEF AdvanceOn
    <2>2. Line' = toDevice \o Acked
        BY <1>1, <2>1 DEF Line
    <2>3. TaskShape'
        BY <2>1 DEF TaskShape, AtStep
    <2>4. Within(Replies', Replies, Marks)
        BY <1>2, WithinTail
    <2>5. UnderWay => UnderWay'
        BY <1>1, <1>3, <2>1, <2>2, <2>4, FewerAlone
    <2> QED BY <2>3, <2>5
<1>5. CASE task.wait = wait
    <2>1. wait \in Waits
        BY DEF Waits
    <2>2. TaskShape'
        BY <1>1, <1>5, <2>1, AdvanceShaped
    <2> SUFFICES ASSUME UnderWay PROVE UnderWay'
        BY <2>2
    <2>3. 1 \in At(Replies, Tables) /\ At(Replies', Tables) = {}
        BY <1>2, AtTail, AtTaken DEF UnderWay, OneUnderWay
    <2>4. At(Line, Commands) = {}
        BY <2>3 DEF UnderWay, OneUnderWay
    <2>5. At(Replies, Acks) = {}
        <3>1. \A i \in At(Replies, Acks) : i < 1 /\ i \in Nat \ {0}
            BY <1>2, <2>3, AtTail DEF UnderWay, OneUnderWay
        <3> QED BY <3>1
    <2>6. At(Replies', Acks) = {}
        BY <1>2, <2>5, AtTail
    <2>7. Idle(toDevice \o Acked, Replies')
        BY <1>3, <2>3, <2>4, <2>6 DEF Idle
    <2>8. \/ GoesOn(Unfold(Tail(task.steps), known), task.last, Acked)
          \/ sendBuf' = Acked
        BY <1>1, <1>5, <2>1, AdvanceGoesOn
    <2>9. CASE GoesOn(Unfold(Tail(task.steps), known), task.last, Acked)
        BY <1>1, <2>7, <2>9, GoesOnAlone
    <2>10. CASE sendBuf' = Acked
        <3>1. Line' = toDevice \o Acked
            BY <1>1, <2>10 DEF Line
        <3> QED BY <2>7, <3>1, OverAlone
    <2> QED BY <2>8, <2>9, <2>10
<1> QED BY <1>4, <1>5

\* A stage of poll().
LEMMA EngineStepWaits ==
    ASSUME IInv, IInv', TaskShape, EngineStep
    PROVE  TaskShape' /\ (link = "up" /\ UnderWay => UnderWay')
<1>1. /\ WireTypes /\ WireTypes' /\ EngineTypes /\ TaskInv /\ txSeq \in 0..1 /\ task \in Tasks
      /\ toDevice \in Seq(Outgoing) /\ sendBuf \in Seq(Outgoing)
      /\ recvBuf \in Seq(Incomings) /\ fromDevice \in Seq(Incomings)
    BY DEF IInv, EngineTypes, WireTypes
<1>2. ASSUME task' = task, Line' = Line, Replies' = Replies
      PROVE  TaskShape' /\ (UnderWay => UnderWay')
    BY <1>2 DEF TaskShape, AtStep, UnderWay
<1>3. CASE FlushSendBuf
    <2>1. toDevice \o sendBuf \in Seq(Outgoing)
        BY <1>1, ConcatProperties
    <2>2. Line' = Line
        BY <1>3, <2>1, ConcatEmptySeq DEF FlushSendBuf, Line
    <2>3. Replies' = Replies /\ task' = task
        BY <1>3 DEF FlushSendBuf, Replies
    <2> QED BY <1>2, <2>2, <2>3
<1>4. CASE ReadFrames
    <2>1. recvBuf \o fromDevice \in Seq(Incomings)
        BY <1>1, ConcatProperties
    <2>2. Replies' = Replies
        BY <1>4, <2>1, ConcatEmptySeq DEF ReadFrames, Replies
    <2>3. Line' = Line /\ task' = task
        BY <1>4 DEF ReadFrames, Line
    <2> QED BY <1>2, <2>2, <2>3
<1>5. CASE TransportError
    BY <1>5 DEF TransportError, TaskShape, AtStep
<1>6. CASE (DeadlineOpen \/ NoFrame) /\ UNCHANGED wireVars
    <2>1. UNCHANGED <<task, sendBuf, recvBuf, toDevice, fromDevice>>
        BY <1>6 DEF DeadlineOpen, NoFrame, wireVars
    <2> QED BY <1>2, <2>1 DEF Line, Replies
<1>7. CASE Retransmit /\ UNCHANGED wireVars
    <2>1. /\ task.deadline = "passed" /\ task.last \in Requests
          /\ sendBuf' = Append(sendBuf, DataFrame(txSeq, task.last)) /\ task' = Rearmed(task)
          /\ UNCHANGED <<recvBuf, toDevice, fromDevice>>
        BY <1>1, <1>7 DEF Retransmit, wireVars, Tasks
    <2>2. /\ task'.running = task.running /\ task'.steps = task.steps /\ task'.wait = task.wait
          /\ task'.last = task.last /\ task'.deadline = "running"
        BY <1>1, <2>1 DEF Rearmed, Tasks
    <2>3. TaskShape'
        BY <2>2 DEF TaskShape, AtStep
    <2>4. task.wait # "None"
        BY <1>1, <2>1 DEF TaskInv, Proceeding
    <2> SUFFICES ASSUME UnderWay PROVE UnderWay'
        BY <2>3
    <2>5. Idle(Line, Replies) /\ Replies' = Replies /\ Line \in Seq(Outgoing)
        BY <1>1, <2>1, NoneUnderWay, ConcatProperties DEF UnderWay, Replies, Line
    <2>6. DataFrame(txSeq, task.last) \in Outgoing
        BY <1>1, <2>1 DEF DataFrame, Outgoing
    <2>7. Line' = Append(Line, DataFrame(txSeq, task'.last))
        BY <1>1, <2>1, <2>2, <2>6, LineWith DEF Line
    <2>8. task'.last \in Requests /\ task'.wait # "None" /\ task'.deadline # "passed"
        BY <2>1, <2>2, <2>4
    <2> HIDE DEF Line, Replies
    <2>9. OneUnderWay(Line', Replies') /\ ForTask(Line', Replies', task')
        BY <1>1, <2>5, <2>7, <2>8, NewCommand
    <2> QED BY <2>9 DEF UnderWay
<1>8. ASSUME task' = NoTask, task.wait = "None" \/ task.deadline = "passed",
             UNCHANGED <<sendBuf, recvBuf, wireVars>>
      PROVE  TaskShape' /\ (UnderWay => UnderWay')
    <2>1. TaskShape'
        BY <1>8, NoTaskType DEF TaskShape
    <2>2. Line' = Line /\ Replies' = Replies
        BY <1>8 DEF Line, Replies, wireVars
    <2>3. UnderWay => UnderWay'
        BY <1>8, <2>2, NoneUnderWay, OverAlone DEF UnderWay
    <2> QED BY <2>1, <2>3
<1>9. CASE GiveUp /\ UNCHANGED wireVars
    BY <1>8, <1>9 DEF GiveUp
<1>10. CASE StepCompleted /\ UNCHANGED wireVars
    <2>1. CASE AtDone(task)
        <3>1. task.wait = "None"
            BY <1>1, <2>1 DEF AtDone, TaskInv, Proceeding
        <3> QED BY <1>8, <1>10, <2>1, <3>1 DEF StepCompleted
    <2>2. CASE ~AtDone(task)
        <3>1. UNCHANGED <<task, sendBuf, recvBuf, toDevice, fromDevice>>
            BY <1>10, <2>2 DEF StepCompleted, wireVars
        <3> QED BY <1>2, <3>1 DEF Line, Replies
    <2> QED BY <2>1, <2>2
<1>11. CASE HandleAck /\ UNCHANGED wireVars
    BY <1>11, AckHandled
<1>12. ASSUME NEW op \in TableReports, Incoming(op)
       PROVE  recvBuf # <<>> /\ Head(recvBuf) \in Tables /\ recvBuf' = Tail(recvBuf)
    BY <1>1, <1>12, FirstReply DEF Incoming, Tables
<1>13. CASE HandleProtocolInfo /\ UNCHANGED wireVars
    <2>1. recvBuf # <<>> /\ Head(recvBuf) \in Tables /\ recvBuf' = Tail(recvBuf)
        BY <1>12, <1>13 DEF HandleProtocolInfo, TableReports
    <2>2. AdvanceOn("ProtocolInfo", Acked, support')
        BY <1>13 DEF HandleProtocolInfo
    <2> QED BY <1>13, <2>1, <2>2, TableHandled
<1>14. CASE HandleSupportFunction /\ UNCHANGED wireVars
    <2>1. recvBuf # <<>> /\ Head(recvBuf) \in Tables /\ recvBuf' = Tail(recvBuf)
        BY <1>12, <1>14 DEF HandleSupportFunction, TableReports
    <2>2. AdvanceOn("SupportFunction", Acked, support')
        BY <1>14 DEF HandleSupportFunction
    <2> QED BY <1>14, <2>1, <2>2, TableHandled
<1>15. CASE (HandleCapability \/ HandleParam \/ HandlePairedList) /\ UNCHANGED wireVars
    <2>1. /\ recvBuf # <<>> /\ recvBuf' = Tail(recvBuf) /\ sendBuf' = Acked /\ task' = task
          /\ toDevice' = toDevice /\ fromDevice' = fromDevice
        BY <1>15 DEF HandleCapability, HandleParam, HandlePairedList, Incoming, wireVars
    <2>2. Within(Line', Line, Commands)
        BY <1>1, <2>1, AckedLine DEF Line
    <2>3. Within(Replies', Replies, Marks)
        <3>1. /\ Replies \in Seq(Incomings) /\ Replies # <<>>
              /\ Tail(recvBuf) \o fromDevice = Tail(Replies)
            BY <1>1, <2>1, FirstReply
        <3>2. Replies' = Tail(Replies)
            BY <2>1, <3>1 DEF Replies
        <3> QED BY <3>1, <3>2, WithinTail
    <2>4. TaskShape'
        BY <2>1 DEF TaskShape, AtStep
    <2>5. UnderWay => UnderWay'
        BY <1>1, <2>1, <2>2, <2>3, FewerAlone
    <2> QED BY <2>4, <2>5
<1> QED
    BY <1>3, <1>4, <1>5, <1>6, <1>7, <1>9, <1>10, <1>11, <1>13, <1>14, <1>15
       DEF EngineStep, Poll

\* A task starts when there is none.
LEMMA StartWaits ==
    ASSUME IInv, IsReady, NEW steps, Built(steps), NEW known, StartTask(steps, known),
           UNCHANGED <<recvBuf, toDevice, fromDevice>>
    PROVE  TaskShape' /\ (UnderWay => UnderWay')
<1>1. /\ toDevice \in Seq(Outgoing) /\ sendBuf \in Seq(Outgoing) /\ txSeq \in 0..1
      /\ task.wait = "None"
    BY DEF IInv, EngineTypes, WireTypes, TaskInv, IsReady
<1>2. TaskShape' /\ GoesOn(Unfold(steps, known), NoBody, sendBuf)
    BY StartShaped
<1> SUFFICES ASSUME UnderWay PROVE UnderWay'
    BY <1>2
<1>3. Idle(toDevice \o sendBuf, Replies') /\ toDevice' = toDevice
    BY <1>1, NoneUnderWay DEF UnderWay, Line, Replies
<1> QED BY <1>1, <1>2, <1>3, GoesOnAlone

\* A frame leaves the front of the line.
LEMMA FrameLeaves ==
    ASSUME WireTypes, toDevice # <<>>, toDevice' = Tail(toDevice), sendBuf' = sendBuf
    PROVE  /\ Line \in Seq(Outgoing) /\ Line # <<>> /\ Line' = Tail(Line)
           /\ Head(Line) = Head(toDevice) /\ Within(Line', Line, Commands)
<1>1. toDevice \in Seq(Outgoing) /\ sendBuf \in Seq(Outgoing)
    BY DEF WireTypes
<1>2. /\ Line \in Seq(Outgoing) /\ Line # <<>> /\ Head(Line) = Head(toDevice)
      /\ Tail(toDevice) \o sendBuf = Tail(Line)
    BY <1>1, TailOfConcat DEF Line
<1>3. Line' = Tail(Line)
    BY <1>2 DEF Line
<1> QED BY <1>2, <1>3, WithinTail

LEMMA DeviceWaits ==
    ASSUME IInv, IInv', Device
    PROVE  UnderWay => UnderWay'
<1>1. WireTypes /\ WireTypes' /\ DeviceTypes
    BY DEF IInv
<1>2. /\ toDevice # <<>> /\ toDevice' = Tail(toDevice)
      /\ sendBuf' = sendBuf /\ recvBuf' = recvBuf /\ task' = task
    BY DEF Device, DeviceTakes, DeviceDropsRepeat, DeviceTakesAck, Arrived, engineVars
<1>3. /\ Line \in Seq(Outgoing) /\ Line # <<>> /\ Line' = Tail(Line)
      /\ Head(Line) = Head(toDevice) /\ Within(Line', Line, Commands)
    BY <1>1, <1>2, FrameLeaves
<1>4. CASE fromDevice' = fromDevice
    <2>1. Replies' = Replies
        BY <1>2, <1>4 DEF Replies
    <2> QED BY <1>1, <1>2, <1>3, <2>1, WithinSame, FewerAlone
<1>5. CASE DeviceTakes
    <2> SUFFICES ASSUME UnderWay PROVE UnderWay'
        OBVIOUS
    <2>1. /\ Head(Line) \in Outgoing /\ Head(Line).type = "Data"
          /\ fromDevice' = (fromDevice \o <<AckFrame>>) \o Answer(Head(Line).body)
        BY <1>3, <1>5, HeadTailProperties DEF DeviceTakes, Arrived
    <2>2. Head(Line) \in Commands /\ Head(Line).body \in Requests
        BY <2>1 DEF Commands, Outgoing, AckFrame
    <2>3. 1 \in At(Line, Commands) /\ Line[1] = Head(Line) /\ At(Line', Commands) = {}
        BY <1>3, <2>2, AtTail, AtTaken DEF UnderWay, OneUnderWay
    <2>4. Replies' = (Replies \o <<AckFrame>>) \o Answer(Head(Line).body)
        <3>1. /\ recvBuf \in Seq(Incomings) /\ fromDevice \in Seq(Incomings)
              /\ <<AckFrame>> \in Seq(Incomings) /\ Answer(Head(Line).body) \in Seq(Incomings)
            BY <1>1, <2>2, AnswerType, OneElement DEF WireTypes, Incomings
        <3>2. fromDevice \o <<AckFrame>> \in Seq(Incomings)
            BY <3>1, ConcatProperties
        <3>3. recvBuf \o ((fromDevice \o <<AckFrame>>) \o Answer(Head(Line).body))
                  = (recvBuf \o (fromDevice \o <<AckFrame>>)) \o Answer(Head(Line).body)
            <4>1. Regroups(recvBuf, fromDevice \o <<AckFrame>>, Answer(Head(Line).body))
                BY <3>1, <3>2, Regrouped, Zenon
            <4> QED BY <4>1, Zenon DEF Regroups
        <3>4. recvBuf \o (fromDevice \o <<AckFrame>>) = (recvBuf \o fromDevice) \o <<AckFrame>>
            <4>1. Regroups(recvBuf, fromDevice, <<AckFrame>>)
                BY <3>1, Regrouped, Zenon
            <4> QED BY <4>1, Zenon DEF Regroups
        <3> QED BY <1>2, <2>1, <3>3, <3>4 DEF Replies
    <2>5. Replies \in Seq(Incomings)
        BY <1>1, ConcatProperties DEF WireTypes, Replies
    <2>6. /\ Line[1].body \in Requests
          /\ Replies' = (Replies \o <<AckFrame>>) \o Answer(Line[1].body)
        BY <2>2, <2>3, <2>4
    <2> DEFINE more == (Replies \o <<AckFrame>>) \o Answer(Line[1].body)
               less == Line'
    <2>7. At(less, Commands) = {}
        BY <2>3
    <2> HIDE DEF less
    <2>8. OneUnderWay(less, more) /\ ForTask(less, more, task)
        BY <1>1, <2>3, <2>5, <2>6, <2>7, CommandTaken DEF UnderWay
    <2>9. OneUnderWay(Line', Replies') /\ ForTask(Line', Replies', task')
        BY <1>2, <2>6, <2>8 DEF less
    <2> QED BY <2>9 DEF UnderWay
<1> QED BY <1>4, <1>5 DEF Device, DeviceDropsRepeat, DeviceTakesAck, deviceVars

\* Every step keeps the wire to one command, while no answer is late.
LEMMA WaitKept == IInv /\ WaitInv /\ [Next]_vars => WaitInv'
<1> SUFFICES ASSUME IInv, WaitInv, [Next]_vars PROVE WaitInv'
    OBVIOUS
<1> DEFINE Kept == TaskShape' /\ (link' = "up" /\ spent'.late = 0 => UnderWay')
<1>1. /\ IInv' /\ WireTypes /\ WireTypes' /\ EngineTypes /\ TaskInv /\ TaskShape
      /\ link \in {"none", "up", "broken"} /\ spent \in [Counts -> Nat]
      /\ toDevice \in Seq(Outgoing) /\ sendBuf \in Seq(Outgoing)
      /\ recvBuf \in Seq(Incomings) /\ fromDevice \in Seq(Incomings)
    BY IInvKept DEF IInv, WireTypes, DeviceTypes, WaitInv
<1>2. LineInv /\ LineInv'
    BY LineKept DEF WaitInv
<1>3. SUFFICES Kept
    BY <1>2 DEF WaitInv
<1>4. ASSUME TaskShape', link' = "up" => link = "up", spent'.late = 0 => spent.late = 0,
             UnderWay => UnderWay'
      PROVE  Kept
    BY <1>4 DEF WaitInv
<1>5. ASSUME NEW what \in Counts, NEW bound, Spend(what, bound)
      PROVE  spent'.late = IF what = "late" THEN spent.late + 1 ELSE spent.late
    BY <1>1, <1>5 DEF Spend, Counts
<1>6. {"edits", "keys", "changes", "lost", "missed", "breaks"} \subseteq Counts \ {"late"}
      /\ "late" \in Counts
    BY DEF Counts
<1>7. ASSUME UNCHANGED <<task, toDevice, sendBuf, fromDevice, recvBuf>>
      PROVE  TaskShape' /\ (UnderWay => UnderWay')
    BY <1>1, <1>7 DEF TaskShape, AtStep, UnderWay, Line, Replies
<1>8. CASE UNCHANGED <<task, wireVars, sendBuf, recvBuf>> /\ spent'.late = spent.late
    BY <1>4, <1>7, <1>8 DEF wireVars
<1>9. CASE CloseConnection
    BY <1>9, NoTaskType DEF CloseConnection, DropEngine, TaskShape
<1>10. CASE EngineStep
    <2>1. link' = link /\ spent' = spent
        BY <1>1, <1>10, EngineStepLine DEF WaitInv
    <2>2. TaskShape' /\ (link = "up" /\ UnderWay => UnderWay')
        BY <1>1, <1>10, EngineStepWaits
    <2> QED BY <2>1, <2>2 DEF WaitInv
<1>11. ASSUME IsReady, NEW steps, Built(steps), StartTask(steps, support),
              UNCHANGED <<recvBuf, wireVars, spent>>
       PROVE  Kept
    BY <1>4, <1>11, StartWaits DEF wireVars
<1>12. CASE Tick
    <2>1. CASE Teardown
        BY <1>9, <2>1 DEF Teardown
    <2>2. CASE NothingDue /\ UNCHANGED <<recvBuf, wireVars, spent>>
        BY <1>8, <2>2 DEF NothingDue
    <2>3. CASE (AfterInit \/ AutoCommit \/ PeriodicSync) /\ UNCHANGED <<recvBuf, wireVars, spent>>
        BY <1>1, <1>11, <2>3, BuiltTasks DEF AfterInit, AutoCommit, PeriodicSync, StartSync
    <2> QED BY <1>12, <2>1, <2>2, <2>3 DEF Tick
<1>13. CASE Attach
    <2>1. /\ link = "none" /\ link' = "up" /\ StartTask(BuildInitSteps, support)
          /\ UNCHANGED <<recvBuf, toDevice, fromDevice, spent>>
        BY <1>13 DEF Attach
    <2>2. toDevice = <<>> /\ fromDevice = <<>> /\ sendBuf = <<>> /\ recvBuf = <<>> /\ txSeq \in 0..1
        BY <1>2, <2>1 DEF LineInv, ConnectionInv, Fresh, NewEngine
    <2>3. TaskShape' /\ GoesOn(Unfold(BuildInitSteps, support), NoBody, sendBuf)
        BY <2>1, BuiltTasks, StartShaped
    <2>4. toDevice \o sendBuf = <<>> /\ Replies' = <<>>
        BY <2>1, <2>2 DEF Replies
    <2>5. Idle(toDevice \o sendBuf, Replies')
        BY <2>4, AtNothing DEF Idle
    <2> QED BY <1>1, <2>1, <2>2, <2>3, <2>5, GoesOnAlone
<1>14. CASE Timeout
    <2>1. /\ task' = [task EXCEPT !.deadline = "passed"]
          /\ UNCHANGED <<sendBuf, recvBuf, wireVars>>
        BY <1>14 DEF Timeout, DeadlinePasses
    <2>2. /\ task'.running = task.running /\ task'.steps = task.steps
          /\ task'.wait = task.wait /\ task'.last = task.last
        BY <1>1, <2>1 DEF EngineTypes, Tasks
    <2>3. TaskShape'
        BY <1>1, <2>2 DEF TaskShape, AtStep
    <2>4. CASE Quiet
        <3>1. toDevice = <<>> /\ fromDevice = <<>> /\ sendBuf = <<>> /\ recvBuf = <<>>
            BY <2>4 DEF Quiet, InFlight
        <3>2. Line' = <<>> /\ Replies' = <<>>
            BY <2>1, <3>1 DEF Line, Replies, wireVars
        <3>3. UnderWay'
            BY <3>2, AtNothing, OverAlone DEF Idle
        <3> QED BY <2>3, <3>3
    <2>5. CASE ~Quiet
        <3>1. spent'.late = spent.late + 1 /\ spent.late \in Nat
            BY <1>1, <1>5, <1>6, <1>14, <2>5 DEF Timeout, Counts
        <3> QED BY <2>3, <3>1
    <2> QED BY <2>4, <2>5
<1>15. CASE Device
    <2>1. UNCHANGED <<task, link, spent>>
        BY <1>15 DEF Device, DeviceTakes, DeviceDropsRepeat, DeviceTakesAck, engineVars
    <2>2. TaskShape'
        BY <1>1, <2>1 DEF TaskShape, AtStep
    <2>3. UnderWay => UnderWay'
        BY <1>1, <1>15, DeviceWaits
    <2> QED BY <1>4, <2>1, <2>2, <2>3
<1>16. CASE User
    <2>1. CASE \E s \in Settings, v \in Values : Edit(s, v)
        BY <1>5, <1>6, <1>8, <2>1 DEF Edit
    <2>2. CASE \E k \in Keys : PressKey(k)
        BY <1>5, <1>6, <1>8, <2>2 DEF PressKey
    <2>3. CASE RefreshSync
        BY <1>11, <2>3, BuiltTasks DEF RefreshSync, StartSync
    <2>4. CASE Disconnect
        BY <1>9, <2>4 DEF Disconnect
    <2>5. \A i \in DOMAIN GeneralOrder : GeneralOrder[i] \in Settings
        BY OrderedSettings DEF Settings
    <2> QED BY <1>16, <2>1, <2>2, <2>3, <2>4, <2>5 DEF User, EditGeneral, Settings
<1>17. CASE Environment
    <2>1. UNCHANGED <<task, sendBuf, recvBuf>>
        BY <1>17 DEF Environment, DeviceChanges, LoseCommand, LoseAnswer, LinkBreaks, engineVars
    <2>2. TaskShape'
        BY <1>1, <2>1 DEF TaskShape, AtStep
    <2>3. CASE LoseCommand
        <3>1. /\ toDevice # <<>> /\ toDevice' = Tail(toDevice) /\ fromDevice' = fromDevice
              /\ link' = link /\ spent'.late = spent.late
            BY <1>5, <1>6, <2>3 DEF LoseCommand, Arrived
        <3>2. Replies' = Replies /\ Within(Line', Line, Commands)
            BY <1>1, <2>1, <3>1, FrameLeaves DEF Replies
        <3>3. UnderWay => UnderWay'
            BY <1>1, <2>1, <3>2, WithinSame, FewerAlone
        <3> QED BY <1>4, <2>2, <3>1, <3>3
    <2>4. CASE LoseAnswer
        <3>1. /\ fromDevice # <<>> /\ fromDevice' = Tail(fromDevice) /\ toDevice' = toDevice
              /\ link' = link /\ spent'.late = spent.late
            BY <1>5, <1>6, <2>4 DEF LoseAnswer
        <3>2. Line' = Line /\ Within(Replies', Replies, Marks)
            BY <1>1, <2>1, <3>1, WithinLess DEF Line, Replies
        <3>3. UnderWay => UnderWay'
            BY <1>1, <2>1, <3>2, WithinSame, FewerAlone
        <3> QED BY <1>4, <2>2, <3>1, <3>3
    <2>5. ASSUME NEW s \in Settings, NEW v \in Values, DeviceChanges(s, v)
          PROVE  Kept
        <3>1. toDevice' = toDevice /\ link' = link /\ spent'.late = spent.late
              /\ fromDevice' = IF link = "up" THEN fromDevice \o Report("RetParam", s, v)
                               ELSE fromDevice
            BY <1>5, <1>6, <2>5 DEF DeviceChanges
        <3>2. CASE link # "up"
            BY <2>2, <3>1, <3>2
        <3>3. CASE link = "up"
            <4> DEFINE told == [type |-> "Data", body |-> Body("RetParam", s, v)]
            <4>1. told \in Incomings /\ told \notin Marks
                BY DEF Incomings, Reports, Body, Marks, Acks, AckFrame, Tables, TableReports
            <4>2. Report("RetParam", s, v) = <<told>> /\ <<told>> \in Seq(Incomings)
                BY <4>1, OneElement DEF Report
            <4> HIDE DEF told
            <4>3. Replies \in Seq(Incomings)
                BY <1>1, ConcatProperties DEF Replies
            <4>4. Replies' = Append(Replies, told)
                <5>1. recvBuf \o (fromDevice \o <<told>>) = (recvBuf \o fromDevice) \o <<told>>
                    <6>1. Regroups(recvBuf, fromDevice, <<told>>)
                        BY <1>1, <4>2, Regrouped, Zenon
                    <6> QED BY <6>1, Zenon DEF Regroups
                <5>2. Append(Replies, told) = Replies \o <<told>>
                    BY <4>1, <4>3, AppendIsConcat
                <5> QED BY <2>1, <3>1, <3>3, <4>2, <5>1, <5>2 DEF Replies
            <4>5. Line' = Line
                BY <2>1, <3>1 DEF Line
            <4>6. Within(Replies', Replies, Marks)
                BY <4>1, <4>3, <4>4, WithinMore
            <4>7. UnderWay => UnderWay'
                BY <1>1, <2>1, <4>5, <4>6, WithinSame, FewerAlone
            <4> QED BY <1>4, <2>2, <3>1, <4>7
        <3> QED BY <3>2, <3>3
    <2>6. CASE LinkBreaks
        BY <2>2, <2>6 DEF LinkBreaks
    <2> QED BY <1>17, <2>3, <2>4, <2>5, <2>6 DEF Environment
<1>18. CASE UNCHANGED vars
    BY <1>8, <1>18 DEF vars, engineVars
<1> QED BY <1>10, <1>12, <1>13, <1>14, <1>15, <1>16, <1>17, <1>18 DEF Next

---------------------------------------------------------------------------
(* The theorem *)

LEMMA WaitInvariance == Spec => [](IInv /\ WaitInv)
<1>1. Init => WaitInv
    <2> SUFFICES ASSUME Init PROVE WaitInv
        OBVIOUS
    <2>1. LineInv /\ link = "none" /\ task = NoTask
        BY DEF Init, NewEngine, LineInv, ConnectionInv, Fresh
    <2> QED BY <2>1, NoTaskType DEF WaitInv, TaskShape
<1>2. IInv /\ WaitInv /\ [Next]_vars => WaitInv'
    BY WaitKept
<1> QED BY <1>1, <1>2, Invariance, PTL DEF Spec

\* While no answer is late, the engine never has two commands on the wire,
\* nor one that its task does not wait for, retransmissions included
\* (advance_task, advance_on, retransmit).
THEOREM OneCommandAtATime == Spec => []StopAndWait
<1>1. IInv /\ WaitInv => StopAndWait
    <2> SUFFICES ASSUME IInv, WaitInv, link = "up", spent.late = 0 PROVE StopAndWait
        BY DEF StopAndWait
    <2>1. OneUnderWay(Line, Replies) /\ ForTask(Line, Replies, task)
        BY DEF WaitInv, UnderWay
    <2>2. \A i \in DOMAIN Line : Line[i].type = "Data" => i \in At(Line, Commands)
        <3>1. Line \in Seq(Outgoing)
            BY ConcatProperties DEF IInv, WireTypes, Line
        <3> HIDE DEF Line
        <3>2. \A i \in DOMAIN Line : Line[i] \in Outgoing
            BY <3>1
        <3> QED BY <3>2 DEF At, Commands
    <2>3. ~task.running => task.wait = "None"
        BY DEF IInv, TaskInv
    <2> QED BY <2>1, <2>2, <2>3 DEF StopAndWait, OneUnderWay, ForTask
<1> QED BY <1>1, WaitInvariance, PTL

=============================================================================
