--------------------------- MODULE SessionProofs ----------------------------
(***************************************************************************)
(* Type correctness of Session, and that no task of the engine gets stuck, *)
(* for any settings, orders, limits and headphones.                        *)
(***************************************************************************)
EXTENDS Session, TLAPS, SequenceTheorems, WellFoundedInduction

\* What TaskCanProceed says of a task in progress.
Proceeding(t) ==
    /\ EndsInDone(t.steps)
    /\ Head(t.steps).kind # "If"
    /\ t.wait # "None" <=> Head(t.steps).kind # "Done"
    /\ t.wait # "None" <=> t.deadline # "none"

TaskInv ==
    /\ task.running => Proceeding(task)
    /\ ~task.running => task.wait = "None" /\ task.deadline = "none"

\* A tick that has collected all the events it may is past polling.
BatchInv == pc # "tick" => batch < BatchLimit

\* The inductive invariant.  A task that is not running has nothing awaited:
\* without that a frame could advance a task that is over.
IInv == EngineTypes /\ WireTypes /\ DeviceTypes /\ TaskInv /\ BatchInv

---------------------------------------------------------------------------
(* Step sequences *)

\* A set of numbers that is not empty has a least element.
LEMMA LeastElement ==
    ASSUME NEW S \in SUBSET Nat, S # {}
    PROVE  \E k \in S : \A j \in S : k <= j
<1> DEFINE R == OpToRel(<, Nat)
<1>1. IsWellFoundedOn(R, Nat)
    BY NatLessThanWellFounded
<1>2. PICK k \in S : \A j \in S : ~(<<j, k>> \in R)
    <2> HIDE DEF R
    <2> QED BY <1>1, WFMin
<1>3. \A j \in S : j < k => <<j, k>> \in R
    BY DEF OpToRel
<1>4. \A j \in S : ~(j < k)
    BY <1>2, <1>3, Zenon
<1> HIDE DEF R
<1> QED BY <1>4, SMT

\* A sequence of one element.
LEMMA OneElement ==
    ASSUME NEW S, NEW e \in S
    PROVE  <<e>> \in Seq(S) /\ Len(<<e>>) = 1 /\ <<e>>[1] = e /\ <<e>> # <<>>
OBVIOUS

\* The kind of a step tells which of the three sets it is from.
LEMMA StepKinds ==
    /\ \A s \in SendSteps : s.kind \in {"Send", "Await"}
    /\ \A s \in IfSteps : s.kind = "If" /\ s.inner \in Seq(SendSteps)
    /\ \A s \in DoneSteps : s.kind = "Done"
BY DEF SendSteps, IfSteps, DoneSteps

\* What a step opens to: nothing, or steps to run; Done if it is Done itself.
LEMMA OpenedSteps ==
    ASSUME NEW step \in Steps, NEW known
    PROVE  /\ Opened(step, known) \in Seq(SendSteps \union DoneSteps)
           /\ step.kind = "Done" => Opened(step, known) = <<step>>
           /\ step.kind # "Done" => Opened(step, known) \in Seq(SendSteps)
<1>1. SendSteps \subseteq SendSteps \union DoneSteps
          /\ DoneSteps \subseteq SendSteps \union DoneSteps
    OBVIOUS
<1>2. CASE step \in SendSteps
    <2>1. Opened(step, known) = <<step>> /\ step.kind # "Done"
        BY <1>2, StepKinds DEF Opened
    <2> QED BY <1>1, <1>2, <2>1, OneElement
<1>3. CASE step \in DoneSteps
    <2>1. Opened(step, known) = <<step>> /\ step.kind = "Done"
        BY <1>3, StepKinds DEF Opened
    <2> QED BY <1>1, <1>3, <2>1, OneElement
<1>4. CASE step \in IfSteps
    <2>1. Opened(step, known) \in Seq(SendSteps) /\ step.kind # "Done"
        BY <1>4, StepKinds DEF Opened
    <2> QED BY <1>1, <2>1, SeqMonotonic
<1> QED BY <1>2, <1>3, <1>4 DEF Steps

\* Resolving the conditional steps at the front leaves a sequence that ends
\* in its Done and starts with a step to run.
LEMMA UnfoldKeepsDone ==
    ASSUME NEW steps \in Seq(Steps), EndsInDone(steps), NEW known
    PROVE  /\ Unfold(steps, known) \in Seq(Steps)
           /\ EndsInDone(Unfold(steps, known))
           /\ Head(Unfold(steps, known)).kind # "If"
<1> DEFINE n == Len(steps)
           kept == {i \in DOMAIN steps : Opened(steps[i], known) # <<>>}
<1>1. n \in Nat \ {0} /\ DOMAIN steps = 1..n /\ \A i \in 1..n : steps[i] \in Steps
    BY SMTT(30) DEF EndsInDone
<1>2. \A i \in 1..n : steps[i].kind = "Done" <=> i = n
    BY <1>1 DEF EndsInDone
<1>3. n \in kept
    <2>1. n \in DOMAIN steps /\ n \in 1..n /\ steps[n] \in Steps
        <3> HIDE DEF n
        <3> QED BY <1>1
    <2>2. steps[n].kind = "Done"
        <3> HIDE DEF n
        <3> QED BY <2>1, <1>2
    <2>3. Opened(steps[n], known) = <<steps[n]>>
        BY <2>1, <2>2, OpenedSteps
    <2>4. <<steps[n]>> # <<>>
        OBVIOUS
    <2> QED BY <2>1, <2>3, <2>4
<1>4. \E k \in kept : \A j \in kept : k <= j
    <2>1. kept \in SUBSET Nat
        BY <1>1
    <2> HIDE DEF kept
    <2> QED BY <1>3, <2>1, LeastElement
<1> DEFINE k == CHOOSE i \in kept : \A j \in kept : i <= j
           o == Opened(steps[k], known)
           r == SubSeq(steps, k + 1, n)
           u == o \o r
<1>5. k \in kept
    <2> HIDE DEF kept
    <2> QED BY <1>4
<1>6. Unfold(steps, known) = u
    BY <1>3 DEF Unfold
<1>7. k \in 1..n /\ o # <<>>
    BY <1>1, <1>5
<1> HIDE DEF k
<1>8. r \in Seq(Steps) /\ Len(r) = n - k /\ \A i \in 1..(n - k) : r[i] = steps[k + i]
    <2>1. k + 1 \in Int /\ n \in Int /\ \A i \in (k + 1)..n : steps[i] \in Steps
        BY <1>1, <1>7
    <2> HIDE DEF n
    <2>2. /\ SubSeq(steps, k + 1, n) \in Seq(Steps)
          /\ Len(SubSeq(steps, k + 1, n)) = IF k + 1 <= n THEN n - (k + 1) + 1 ELSE 0
          /\ \A i \in 1..(n - (k + 1) + 1) : SubSeq(steps, k + 1, n)[i] = steps[(k + 1) + i - 1]
        BY <2>1, SubSeqProperties, SMTT(30)
    <2> QED BY <1>1, <1>7, <2>2
<1>9. /\ o \in Seq(SendSteps \union DoneSteps)
      /\ k = n => o = <<steps[n]>>
      /\ k # n => o \in Seq(SendSteps)
    BY <1>1, <1>2, <1>7, OpenedSteps
<1> HIDE DEF o, r
<1>10. o \in Seq(Steps) /\ Len(o) \in Nat \ {0}
    <2>1. SendSteps \union DoneSteps \subseteq Steps
        BY DEF Steps
    <2>2. o \in Seq(Steps)
        BY <1>9, <2>1, SeqMonotonic
    <2> QED BY <1>7, <2>2, EmptySeq
<1>11. u \in Seq(Steps) /\ Len(u) = Len(o) + (n - k)
    BY <1>8, <1>10, ConcatProperties
<1>12. \A i \in 1..Len(u) : u[i] = IF i <= Len(o) THEN o[i] ELSE r[i - Len(o)]
    BY <1>8, <1>10, <1>11, ConcatProperties
<1> HIDE DEF n, u
<1>13. \A i \in 1..Len(o) : o[i].kind = "Done" <=> k = n
    <2>1. CASE k = n
        <3>1. o = <<steps[n]>> /\ n \in 1..n
            BY <2>1, <1>1, <1>9
        <3>2. Len(o) = 1 /\ o[1] = steps[n]
            BY <3>1
        <3> QED BY <2>1, <3>1, <3>2, <1>2
    <2>2. CASE k # n
        BY <2>2, <1>9, StepKinds
    <2> QED BY <2>1, <2>2
<1>14. k = n => Len(o) = 1
    BY <1>9
<1>15. \A i \in 1..Len(u) : u[i].kind = "Done" <=> i = Len(u)
    <2> SUFFICES ASSUME NEW i \in 1..Len(u) PROVE u[i].kind = "Done" <=> i = Len(u)
        OBVIOUS
    <2>1. CASE i <= Len(o)
        <3>1. u[i].kind = "Done" <=> k = n
            BY <2>1, <1>12, <1>13, <1>11, <1>10, <1>7
        <3>2. i = Len(u) <=> k = n
            <4>1. n \in Nat /\ k \in Nat /\ Len(o) \in Nat /\ i \in Nat /\ i >= 1 /\ k <= n
                BY <1>1, <1>7, <1>10, <1>11
            <4>2. Len(u) = Len(o) + (n - k)
                BY <1>11
            <4>3. CASE k = n
                <5>1. Len(o) = 1 /\ n - k = 0
                    BY <4>1, <4>3, <1>14
                <5>2. Len(u) = 1 /\ i = 1
                    BY <2>1, <4>1, <4>2, <5>1
                <5> QED BY <4>3, <5>2
            <4>4. CASE k # n
                BY <2>1, <4>1, <4>2, <4>4
            <4> QED BY <4>3, <4>4
        <3> QED BY <3>1, <3>2
    <2>2. CASE i > Len(o)
        <3>1. i - Len(o) \in 1..(n - k)
            BY <2>2, <1>1, <1>7, <1>10, <1>11
        <3>2. u[i] = steps[k + (i - Len(o))]
            <4>1. ~(i <= Len(o))
                BY <2>2, <1>10, <1>11
            <4>2. u[i] = r[i - Len(o)]
                BY <4>1, <1>12
            <4> DEFINE j == i - Len(o)
            <4>3. j \in 1..(n - k)
                BY <3>1
            <4> HIDE DEF j
            <4>4. r[j] = steps[k + j]
                BY <4>3, <1>8
            <4> QED BY <4>2, <4>4 DEF j
        <3>3. k + (i - Len(o)) \in 1..n
            BY <3>1, <1>1, <1>7, <1>10
        <3>4. k + (i - Len(o)) = n <=> i = Len(u)
            BY <3>1, <1>1, <1>7, <1>10, <1>11
        <3> QED BY <3>2, <3>3, <3>4, <1>2
    <2> QED BY <2>1, <2>2, <1>10
<1>16. Head(u).kind # "If"
    <2>1. Head(u) = o[1]
        BY <1>10, <1>11, <1>12, <1>7, <1>1
    <2>2. o[1] \in SendSteps \union DoneSteps
        BY <1>9, <1>10
    <2> QED BY <2>1, <2>2, StepKinds
<1>17. u # <<>> /\ DOMAIN u = 1..Len(u)
    <2>1. Len(u) > 0
        BY <1>10, <1>11, <1>7, <1>1
    <2> QED BY <1>11, <2>1, LenProperties, EmptySeq
<1> QED BY <1>6, <1>11, <1>15, <1>16, <1>17 DEF EndsInDone

---------------------------------------------------------------------------
(* Task builders *)

\* The steps a builder puts before the Done.
BodySteps == SendSteps \union IfSteps

\* A builder's steps followed by one Done are steps that end in Done.
LEMMA BodyThenDone ==
    ASSUME NEW body \in Seq(BodySteps), NEW d \in DoneSteps
    PROVE  body \o <<d>> \in Seq(Steps) /\ EndsInDone(body \o <<d>>)
<1> DEFINE all == body \o <<d>>
<1>1. body \in Seq(Steps) /\ <<d>> \in Seq(Steps) /\ Len(<<d>>) = 1 /\ <<d>>[1] = d
    <2>1. BodySteps \subseteq Steps /\ d \in Steps
        BY DEF BodySteps, Steps
    <2> QED BY <2>1, SeqMonotonic, OneElement
<1>2. /\ all \in Seq(Steps) /\ Len(all) = Len(body) + 1
      /\ \A i \in 1..(Len(body) + 1) :
            all[i] = IF i <= Len(body) THEN body[i] ELSE <<d>>[i - Len(body)]
    BY <1>1, ConcatProperties
<1> HIDE DEF all
<1>3. Len(body) \in Nat
    BY <1>1, LenProperties
<1>4. \A i \in 1..Len(body) : body[i].kind # "Done"
    <2> SUFFICES ASSUME NEW i \in 1..Len(body) PROVE body[i].kind # "Done"
        OBVIOUS
    <2>1. body[i] \in BodySteps
        BY ElementOfSeq
    <2> QED BY <2>1, StepKinds DEF BodySteps
<1>5. all[Len(body) + 1] = d
    BY <1>1, <1>2, <1>3
<1>6. DOMAIN all = 1..Len(all) /\ all # <<>>
    BY <1>2, <1>3, LenProperties, EmptySeq
<1>7. \A i \in DOMAIN all : all[i].kind = "Done" <=> i = Len(all)
    <2> SUFFICES ASSUME NEW i \in 1..(Len(body) + 1)
                 PROVE all[i].kind = "Done" <=> i = Len(body) + 1
        BY <1>2, <1>6
    <2>1. CASE i \in 1..Len(body)
        <3>1. all[i] = body[i]
            BY <2>1, <1>2, <1>3
        <3> QED BY <2>1, <3>1, <1>3, <1>4
    <2>2. CASE i = Len(body) + 1
        BY <2>2, <1>5, StepKinds
    <2>3. i \in 1..Len(body) \/ i = Len(body) + 1
        BY <1>3
    <2> QED BY <2>1, <2>2, <2>3
<1>8. EndsInDone(all)
    BY <1>6, <1>7 DEF EndsInDone
<1> QED BY <1>2, <1>8 DEF all

\* What the builders put together.
LEMMA StepTypes ==
    /\ \A r \in Requests : Send(r) \in SendSteps
    /\ \A r \in Requests, s \in Settings : SendCommit(r, s) \in SendSteps
    /\ \A w \in Waits : Await(w) \in SendSteps
    /\ \A f \in Functions \union {None}, inner \in Seq(SendSteps) :
          If(f, inner) \in IfSteps
    /\ \A e \in {"InitOk", "SyncOk", "CommitOk"} : Done(e) \in DoneSteps
    /\ NoStep \in BodySteps
BY DEF SendSteps, IfSteps, DoneSteps, BodySteps, Send, SendCommit, Await, If, Done,
       NoStep

\* What the builders send.
LEMMA RequestTypes ==
    /\ \A op \in {"GetProtocolInfo", "GetSupport", "GetSupport2", "GetPairedList"} :
          Get(op) \in Requests
    /\ \A s \in General : Body("GetCapability", s, None) \in Requests
    /\ \A s \in Settings : Body("GetParam", s, None) \in Requests
    /\ \A s \in Settings, v \in Values : Body("SetParam", s, v) \in Requests
    /\ \A k \in Keys : Body("Key", None, k) \in Requests
BY DEF Requests, Get, Body

\* The steps of a setting, in the order the builder visits them.
LEMMA EachIsBody ==
    ASSUME NEW S, NEW order \in Seq(S), NEW f, f \in [DOMAIN order -> BodySteps]
    PROVE  f \in Seq(BodySteps)
BY LenProperties

LEMMA InitSteps ==
    BuildInitSteps \in Seq(Steps) /\ EndsInDone(BuildInitSteps)
<1> DEFINE table == <<Send(Get("GetProtocolInfo")), Await("ProtocolInfo"),
                      Send(Get("GetSupport")), Await("SupportFunction"),
                      If("Table2", <<Send(Get("GetSupport2")), Await("SupportFunction")>>),
                      If("PairedList", <<Send(Get("GetPairedList"))>>)>>
           both(s) == <<Send(Body("GetCapability", s, None)), Send(Body("GetParam", s, None))>>
           general == [i \in DOMAIN GeneralOrder |-> If(GeneralOrder[i], both(GeneralOrder[i]))]
           plain   == [i \in DOMAIN PlainOrder |-> Send(Body("GetParam", PlainOrder[i], None))]
<1>1. table \in Seq(BodySteps)
    <2>1. Send(Get("GetProtocolInfo")) \in BodySteps
        BY StepTypes, RequestTypes DEF BodySteps
    <2>2. Await("ProtocolInfo") \in BodySteps /\ Await("SupportFunction") \in BodySteps
        BY StepTypes DEF BodySteps, Waits
    <2>3. Send(Get("GetSupport")) \in BodySteps
        BY StepTypes, RequestTypes DEF BodySteps
    <2>4. If("Table2", <<Send(Get("GetSupport2")), Await("SupportFunction")>>) \in BodySteps
        <3>1. Send(Get("GetSupport2")) \in SendSteps /\ Await("SupportFunction") \in SendSteps
            BY StepTypes, RequestTypes DEF Waits
        <3>2. <<Send(Get("GetSupport2")), Await("SupportFunction")>> \in Seq(SendSteps)
            BY <3>1
        <3> QED BY <3>2, StepTypes DEF BodySteps, Functions
    <2>5. If("PairedList", <<Send(Get("GetPairedList"))>>) \in BodySteps
        <3>1. Send(Get("GetPairedList")) \in SendSteps
            BY StepTypes, RequestTypes
        <3>2. <<Send(Get("GetPairedList"))>> \in Seq(SendSteps)
            BY <3>1, OneElement
        <3> QED BY <3>2, StepTypes DEF BodySteps, Functions
    <2> QED BY <2>1, <2>2, <2>3, <2>4, <2>5
<1>2. general \in Seq(BodySteps)
    <2>1. \A s \in General : If(s, both(s)) \in BodySteps
        <3> SUFFICES ASSUME NEW s \in General PROVE If(s, both(s)) \in BodySteps
            OBVIOUS
        <3>1. s \in Settings
            BY DEF Settings
        <3>2. Send(Body("GetCapability", s, None)) \in SendSteps
              /\ Send(Body("GetParam", s, None)) \in SendSteps
            BY <3>1, StepTypes, RequestTypes
        <3>3. both(s) \in Seq(SendSteps)
            BY <3>2
        <3> HIDE DEF both
        <3> QED BY <3>3, StepTypes DEF BodySteps, Functions
    <2>2. GeneralOrder \in Seq(General)
        BY OrderAssumption DEF IsOrderOf
    <2> HIDE DEF both
    <2>3. general \in [DOMAIN GeneralOrder -> BodySteps]
        BY <2>1, <2>2
    <2> HIDE DEF general
    <2> QED BY <2>2, <2>3, EachIsBody
<1>3. plain \in Seq(BodySteps)
    <2>1. \A s \in Plain : Send(Body("GetParam", s, None)) \in BodySteps
        BY StepTypes, RequestTypes DEF BodySteps, Settings
    <2>2. PlainOrder \in Seq(Plain)
        BY OrderAssumption DEF IsOrderOf
    <2>3. plain \in [DOMAIN PlainOrder -> BodySteps]
        BY <2>1, <2>2
    <2> HIDE DEF plain
    <2> QED BY <2>2, <2>3, EachIsBody
<1>4. BuildInitSteps = ((table \o general) \o plain) \o <<Done("InitOk")>>
    BY DEF BuildInitSteps, InitTables, InitGeneral, InitPlain, Each
<1> HIDE DEF table, general, plain
<1>5. (table \o general) \o plain \in Seq(BodySteps)
    BY <1>1, <1>2, <1>3, ConcatProperties
<1> QED BY <1>4, <1>5, BodyThenDone, StepTypes

LEMMA SyncSteps ==
    BuildSyncSteps \in Seq(Steps) /\ EndsInDone(BuildSyncSteps)
<1> DEFINE list == If("PairedList", <<Send(Get("GetPairedList"))>>)
<1>1. list \in BodySteps
    <2>1. Send(Get("GetPairedList")) \in SendSteps
        BY StepTypes, RequestTypes
    <2>2. <<Send(Get("GetPairedList"))>> \in Seq(SendSteps)
        BY <2>1, OneElement
    <2> QED BY <2>2, StepTypes DEF BodySteps, Functions
<1>2. BuildSyncSteps = <<list>> \o <<Done("SyncOk")>>
    BY DEF BuildSyncSteps
<1> HIDE DEF list
<1> QED BY <1>1, <1>2, OneElement, BodyThenDone, StepTypes

LEMMA CommitSteps ==
    ASSUME EngineTypes
    PROVE  BuildCommitSteps \in Seq(Steps) /\ EndsInDone(BuildCommitSteps)
<1> DEFINE plainStep(s) == IF s \in Dirty THEN CommitStep(s) ELSE NoStep
           generalStep(s) == IF s \in support \intersect Dirty THEN CommitStep(s) ELSE NoStep
           plain    == [i \in DOMAIN PlainOrder |-> plainStep(PlainOrder[i])]
           general  == [i \in DOMAIN GeneralOrder |-> generalStep(GeneralOrder[i])]
           keyStep  == IF key = KeyOff THEN NoStep ELSE Send(Body("Key", None, key))
<1>1. \A s \in Settings : CommitStep(s) \in BodySteps
    <2> SUFFICES ASSUME NEW s \in Settings PROVE CommitStep(s) \in BodySteps
        OBVIOUS
    <2>1. props[s].desired \in Values
        BY DEF EngineTypes
    <2> QED BY <2>1, StepTypes, RequestTypes DEF CommitStep, BodySteps
<1>2. plain \in Seq(BodySteps)
    <2>1. \A s \in Plain : plainStep(s) \in BodySteps
        BY <1>1, StepTypes DEF Settings
    <2>2. PlainOrder \in Seq(Plain)
        BY OrderAssumption DEF IsOrderOf
    <2> HIDE DEF plainStep
    <2>3. plain \in [DOMAIN PlainOrder -> BodySteps]
        BY <2>1, <2>2
    <2> HIDE DEF plain
    <2> QED BY <2>2, <2>3, EachIsBody
<1>3. general \in Seq(BodySteps)
    <2>1. \A s \in General : generalStep(s) \in BodySteps
        BY <1>1, StepTypes DEF Settings
    <2>2. GeneralOrder \in Seq(General)
        BY OrderAssumption DEF IsOrderOf
    <2> HIDE DEF generalStep
    <2>3. general \in [DOMAIN GeneralOrder -> BodySteps]
        BY <2>1, <2>2
    <2> HIDE DEF general
    <2> QED BY <2>2, <2>3, EachIsBody
<1>4. keyStep \in BodySteps
    BY StepTypes, RequestTypes DEF EngineTypes, BodySteps
<1>5. BuildCommitSteps = ((plain \o <<keyStep>>) \o general) \o <<Done("CommitOk")>>
    BY DEF BuildCommitSteps, Each
<1> HIDE DEF plain, general, keyStep
<1>6. <<keyStep>> \in Seq(BodySteps)
    BY <1>4, OneElement
<1>7. (plain \o <<keyStep>>) \o general \in Seq(BodySteps)
    BY <1>2, <1>3, <1>6, ConcatProperties
<1> QED BY <1>5, <1>7, BodyThenDone, StepTypes

---------------------------------------------------------------------------
(* Task scheduling *)

\* Without its first step, which was not the Done, a task still ends in Done.
LEMMA TailKeepsDone ==
    ASSUME NEW steps \in Seq(Steps), EndsInDone(steps), Head(steps).kind # "Done"
    PROVE  Tail(steps) \in Seq(Steps) /\ EndsInDone(Tail(steps))
<1> DEFINE n == Len(steps)
           t == Tail(steps)
<1>1. n \in Nat \ {0} /\ DOMAIN steps = 1..n /\ Head(steps) = steps[1]
    BY EmptySeq DEF EndsInDone
<1>2. \A i \in 1..n : steps[i].kind = "Done" <=> i = n
    BY <1>1 DEF EndsInDone
<1>3. t \in Seq(Steps) /\ Len(t) = n - 1 /\ \A i \in 1..(n - 1) : t[i] = steps[i + 1]
    BY HeadTailProperties DEF EndsInDone
<1> HIDE DEF n, t
<1>4. n > 1
    <2>1. n # 1
        BY <1>1, <1>2
    <2> QED BY <1>1, <2>1
<1>5. DOMAIN t = 1..(n - 1) /\ t # <<>>
    BY <1>1, <1>3, <1>4, EmptySeq, LenProperties
<1>6. \A i \in 1..(n - 1) : t[i].kind = "Done" <=> i = n - 1
    BY <1>1, <1>2, <1>3
<1> QED BY <1>3, <1>5, <1>6, SMTT(30) DEF EndsInDone, t

TaskTypes == task \in Tasks /\ txSeq \in 0..1 /\ TaskInv

PollTypes ==
    /\ pc \in {"rest", "deadline", "flush", "read", "frame", "tail", "tick"}
    /\ pending \subseteq {"InitOk", "Fatal"} /\ batch \in 0..BatchLimit
    /\ BatchInv

\* A step whose kind is Send has a request, one whose kind is Await a wait.
LEMMA SendFields ==
    ASSUME NEW s \in Steps
    PROVE  /\ s.kind = "Send" => s.body \in Requests /\ s.commit \in Settings \union {None}
           /\ s.kind = "Await" => s.wait \in Waits
           /\ s.kind \in {"Send", "Await", "If", "Done"}
BY DEF Steps, SendSteps, IfSteps, DoneSteps

\* advance_task leaves a task that awaits something or is at its Done.
LEMMA AdvancedProceeds ==
    ASSUME txSeq \in 0..1,
           NEW t \in Tasks, t.running, EndsInDone(t.steps),
           t.wait = "None", t.deadline = "none",
           NEW buf \in Seq(Outgoing), NEW known
    PROVE  /\ Advanced(t, buf, known).task \in Tasks
           /\ Advanced(t, buf, known).task.running
           /\ Proceeding(Advanced(t, buf, known).task)
           /\ Advanced(t, buf, known).seq \in 0..1
           /\ Advanced(t, buf, known).buf \in Seq(Outgoing)
<1> DEFINE rest == Unfold(t.steps, known)
           front == Head(rest)
           waiting(wait, body) ==
               [t EXCEPT !.steps = rest, !.wait = wait, !.deadline = "running",
                         !.last = body, !.retries = 0]
           result == Advanced(t, buf, known)
<1>1. t.steps \in Seq(Steps)
    BY DEF Tasks
<1>2. rest \in Seq(Steps) /\ EndsInDone(rest) /\ front.kind # "If"
    BY <1>1, UnfoldKeepsDone
<1>3. rest # <<>>
    BY <1>2 DEF EndsInDone
<1>4. front \in Steps
    <2> HIDE DEF rest
    <2> QED BY <1>2, <1>3, HeadTailProperties
<1>5. front.kind \in {"Send", "Await", "Done"}
    BY <1>2, <1>4, SendFields
<1>6. MaxRetries \in Nat
    BY LimitAssumption
<1>7. ASSUME NEW wait \in Waits, NEW body \in Requests \union {NoBody},
             front.kind # "Done"
      PROVE  waiting(wait, body) \in Tasks /\ waiting(wait, body).running
             /\ Proceeding(waiting(wait, body))
    <2> HIDE DEF rest
    <2>1. waiting(wait, body) \in Tasks
        <3>1. rest \in Seq(Steps) /\ wait \in Waits \union {"None"} /\ 0 \in 0..MaxRetries
              /\ "running" \in {"none", "running", "passed"}
            BY <1>2, <1>6
        <3> QED BY <3>1 DEF Tasks
    <2>2. waiting(wait, body).running = t.running
        BY DEF Tasks
    <2>3. /\ waiting(wait, body).steps = rest /\ waiting(wait, body).wait = wait
          /\ waiting(wait, body).deadline = "running"
        BY DEF Tasks
    <2>4. wait # "None"
        BY DEF Waits
    <2> HIDE DEF waiting
    <2> QED BY <2>1, <2>2, <2>3, <2>4, <1>2, <1>7 DEF Proceeding
<1>8. CASE front.kind = "Send"
    <2>1. /\ result.task = waiting("Ack", front.body) /\ result.seq = 1 - txSeq
          /\ result.buf = Append(buf, DataFrame(txSeq, front.body))
        BY <1>3, <1>8 DEF Advanced, NextSeq
    <2>2. front.body \in Requests /\ "Ack" \in Waits
        BY <1>4, <1>8, SendFields DEF Waits
    <2>3. DataFrame(txSeq, front.body) \in Outgoing
        BY <2>2 DEF DataFrame, Outgoing
    <2> HIDE DEF result, waiting, front
    <2>4. result.buf \in Seq(Outgoing)
        BY <2>1, <2>3, AppendProperties
    <2>5. result.seq \in 0..1
        BY <2>1
    <2> QED BY <2>1, <2>2, <2>4, <2>5, <1>7, <1>8 DEF result
<1>9. CASE front.kind = "Await"
    <2>1. /\ result.task = waiting(front.wait, t.last) /\ result.seq = txSeq
          /\ result.buf = buf
        BY <1>3, <1>9 DEF Advanced
    <2>2. front.wait \in Waits /\ t.last \in Requests \union {NoBody}
        BY <1>4, <1>9, SendFields DEF Tasks
    <2> HIDE DEF result, waiting, front
    <2> QED BY <2>1, <2>2, <1>7, <1>9 DEF result
<1>10. CASE front.kind = "Done"
    <2>1. /\ result.task = [t EXCEPT !.steps = rest] /\ result.seq = txSeq
          /\ result.buf = buf
        BY <1>3, <1>10 DEF Advanced
    <2> HIDE DEF rest
    <2>2. [t EXCEPT !.steps = rest] \in Tasks
        BY <1>2 DEF Tasks
    <2>3. [t EXCEPT !.steps = rest].running = t.running
        BY DEF Tasks
    <2>4. /\ [t EXCEPT !.steps = rest].steps = rest
          /\ [t EXCEPT !.steps = rest].wait = "None"
          /\ [t EXCEPT !.steps = rest].deadline = "none"
        BY DEF Tasks
    <2>5. Proceeding([t EXCEPT !.steps = rest])
        BY <2>4, <1>2, <1>10 DEF Proceeding
    <2> HIDE DEF result
    <2> QED BY <2>1, <2>2, <2>3, <2>5 DEF result
<1> QED BY <1>5, <1>8, <1>9, <1>10

\* A new task has nothing awaited yet.
LEMMA NewTask ==
    ASSUME NEW steps \in Seq(Steps)
    PROVE  /\ Task(steps) \in Tasks /\ Task(steps).running = TRUE
           /\ Task(steps).steps = steps
           /\ Task(steps).wait = "None" /\ Task(steps).deadline = "none"
BY LimitAssumption DEF Task, Tasks

LEMMA NoTaskType ==
    NoTask \in Tasks /\ NoTask.running = FALSE /\ NoTask.wait = "None"
    /\ NoTask.deadline = "none"
<1>1. <<>> \in Seq(Steps)
    OBVIOUS
<1>2. Task(<<>>) \in Tasks /\ Task(<<>>).wait = "None" /\ Task(<<>>).deadline = "none"
    BY <1>1, NewTask
<1> QED BY <1>2 DEF NoTask, Tasks

\* request_init, request_sync, request_commit.
LEMMA StartTaskKeeps ==
    ASSUME txSeq \in 0..1, sendBuf \in Seq(Outgoing), NEW known,
           NEW steps \in Seq(Steps), EndsInDone(steps), StartTask(steps, known)
    PROVE  TaskTypes' /\ sendBuf' \in Seq(Outgoing)
<1> DEFINE next == Advanced(Task(steps), sendBuf, known)
<1>1. /\ next.task \in Tasks /\ next.task.running /\ Proceeding(next.task)
      /\ next.seq \in 0..1 /\ next.buf \in Seq(Outgoing)
    BY NewTask, AdvancedProceeds
<1>2. task' = next.task /\ txSeq' = next.seq /\ sendBuf' = next.buf
    BY DEF StartTask
<1> HIDE DEF next
<1> QED BY <1>1, <1>2 DEF TaskTypes, TaskInv, Proceeding

LEMMA EmitKeeps ==
    ASSUME PollTypes, pc # "tick", NEW event, Emit(event)
    PROVE  PollTypes'
<1>1. batch \in 0..BatchLimit /\ batch < BatchLimit /\ BatchLimit \in Nat
    BY LimitAssumption DEF PollTypes, BatchInv
<1>2. batch' \in 0..BatchLimit
    BY <1>1 DEF Emit
<1>3. pending' \subseteq {"InitOk", "Fatal"}
    BY DEF Emit, PollTypes
<1>4. pc' \in {"tick", "deadline"} /\ (pc' # "tick" => batch' < BatchLimit)
    BY <1>1 DEF Emit
<1> QED BY <1>2, <1>3, <1>4 DEF PollTypes, BatchInv

LEMMA StayQuietKeeps ==
    ASSUME PollTypes, pc # "tick",
           NEW stage \in {"flush", "read", "frame", "tail", "tick"}, StayQuiet(stage)
    PROVE  PollTypes'
BY DEF StayQuiet, PollTypes, BatchInv

\* advance_on, whatever frame it is called for.
LEMMA AdvanceOnKeeps ==
    ASSUME EngineTypes, TaskInv, BatchInv, pc # "tick",
           NEW wait \in Waits, NEW buf \in Seq(Outgoing), NEW known,
           AdvanceOn(wait, buf, known)
    PROVE  /\ props' \in [Settings -> [desired : Values, current : Values]]
           /\ TaskTypes' /\ PollTypes' /\ sendBuf' \in Seq(Outgoing)
<1>1. PollTypes /\ TaskTypes
    BY DEF EngineTypes, PollTypes, TaskTypes
<1>2. CASE task.wait # wait
    <2>1. sendBuf' = buf /\ StayQuiet("tail") /\ UNCHANGED <<props, task, txSeq>>
        BY <1>2 DEF AdvanceOn
    <2>2. PollTypes'
        BY <1>1, <2>1, StayQuietKeeps
    <2>3. TaskTypes'
        BY <1>1, <2>1 DEF TaskTypes, TaskInv, Proceeding
    <2> QED BY <2>1, <2>2, <2>3 DEF EngineTypes
<1>3. CASE task.wait = wait
    <2> DEFINE left == [task EXCEPT !.wait = "None", !.deadline = "none", !.steps = Tail(@)]
               next == Advanced(left, buf, known)
               first == Head(task.steps)
    <2>1. task \in Tasks /\ txSeq \in 0..1 /\ task.steps \in Seq(Steps)
        BY DEF EngineTypes, Tasks
    <2>2. task.running /\ Proceeding(task) /\ task.wait # "None"
        BY <1>3 DEF TaskInv, Waits
    <2>3. EndsInDone(task.steps) /\ first.kind # "Done" /\ first \in Steps
        BY <2>1, <2>2, HeadTailProperties DEF Proceeding, EndsInDone
    <2>4. Tail(task.steps) \in Seq(Steps) /\ EndsInDone(Tail(task.steps))
        BY <2>1, <2>3, TailKeepsDone
    <2>5. left \in Tasks /\ left.running = task.running
          /\ left.steps = Tail(task.steps) /\ left.wait = "None" /\ left.deadline = "none"
        BY <2>1, <2>4 DEF Tasks
    <2> HIDE DEF left
    <2>6. /\ next.task \in Tasks /\ next.task.running /\ Proceeding(next.task)
          /\ next.seq \in 0..1 /\ next.buf \in Seq(Outgoing)
        BY <2>1, <2>2, <2>4, <2>5, AdvancedProceeds
    <2>7. /\ props' = Committed(first) /\ txSeq' = next.seq /\ sendBuf' = next.buf
          /\ \/ task' = NoTask /\ Emit(Head(next.task.steps).event)
             \/ task' = next.task /\ StayQuiet("tail")
        BY <1>3 DEF AdvanceOn, left
    <2> HIDE DEF next, first
    <2>8. props' \in [Settings -> [desired : Values, current : Values]]
        <3>1. first.kind = "Send" /\ first.commit # None => first.commit \in Settings
            BY <2>3, SendFields
        <3> QED BY <2>7, <3>1 DEF Committed, EngineTypes
    <2>9. CASE task' = NoTask /\ Emit(Head(next.task.steps).event)
        <3>1. PollTypes'
            BY <1>1, <2>9, EmitKeeps
        <3>2. TaskTypes'
            BY <2>6, <2>7, <2>9, NoTaskType DEF TaskTypes, TaskInv
        <3> QED BY <2>6, <2>7, <2>8, <3>1, <3>2
    <2>10. CASE task' = next.task /\ StayQuiet("tail")
        <3>1. PollTypes'
            BY <1>1, <2>10, StayQuietKeeps
        <3>2. TaskTypes'
            BY <2>6, <2>7, <2>10 DEF TaskTypes, TaskInv, Proceeding
        <3> QED BY <2>6, <2>7, <2>8, <3>1, <3>2
    <2> QED BY <2>7, <2>9, <2>10
<1> QED BY <1>2, <1>3

---------------------------------------------------------------------------
(* The actions *)

\* The data and the link of the engine, apart from its task and its poll.
DataTypes ==
    /\ props \in [Settings -> [desired : Values, current : Values]]
    /\ key \in Keys \union {KeyOff}
    /\ support \subseteq Functions /\ caps \in Seq(General)

LEMMA Parts ==
    IInv <=> DataTypes /\ TaskTypes /\ PollTypes /\ WireTypes /\ DeviceTypes
BY DEF IInv, EngineTypes, DataTypes, TaskTypes, PollTypes

LEMMA PartsNext ==
    IInv' <=> DataTypes' /\ TaskTypes' /\ PollTypes' /\ WireTypes' /\ DeviceTypes'
BY DEF IInv, EngineTypes, DataTypes, TaskTypes, PollTypes

\* What a part says stays true while its variables do not change.
LEMMA Unchanged ==
    /\ DataTypes /\ UNCHANGED <<props, key, support, caps>> => DataTypes'
    /\ TaskTypes /\ UNCHANGED <<task, txSeq>> => TaskTypes'
    /\ PollTypes /\ UNCHANGED <<pc, pending, batch>> => PollTypes'
    /\ WireTypes /\ UNCHANGED <<wireVars, sendBuf, recvBuf>> => WireTypes'
    /\ DeviceTypes /\ UNCHANGED <<deviceVars, built, spent>> => DeviceTypes'
<1>1. DataTypes /\ UNCHANGED <<props, key, support, caps>> => DataTypes'
    BY DEF DataTypes
<1>2. TaskTypes /\ UNCHANGED <<task, txSeq>> => TaskTypes'
    BY DEF TaskTypes, TaskInv, Proceeding
<1>3. PollTypes /\ UNCHANGED <<pc, pending, batch>> => PollTypes'
    BY DEF PollTypes, BatchInv
<1>4. WireTypes /\ UNCHANGED <<wireVars, sendBuf, recvBuf>> => WireTypes'
    BY DEF WireTypes, wireVars
<1>5. DeviceTypes /\ UNCHANGED <<deviceVars, built, spent>> => DeviceTypes'
    BY DEF DeviceTypes, deviceVars
<1> QED BY <1>1, <1>2, <1>3, <1>4, <1>5

LEMMA InitIInv == Init => IInv
<1> SUFFICES ASSUME Init PROVE IInv
    OBVIOUS
<1>1. DataTypes
    <2>1. NewProps \in [Settings -> [desired : Values, current : Values]]
        BY ValueAssumption DEF NewProps
    <2> QED BY <2>1 DEF Init, NewEngine, DataTypes
<1>2. TaskTypes
    BY NoTaskType DEF Init, NewEngine, TaskTypes, TaskInv
<1>3. PollTypes
    BY LimitAssumption DEF Init, NewEngine, PollTypes, BatchInv
<1>4. WireTypes
    BY DEF Init, NewEngine, WireTypes
<1>5. DeviceTypes
    BY DEF Init, DeviceTypes, Counts
<1> QED BY <1>1, <1>2, <1>3, <1>4, <1>5, Parts

\* The first frame received, by its type; Incoming(op) fixes the operation.
LEMMA ReportFields ==
    ASSUME WireTypes, NEW op, Incoming(op)
    PROVE  /\ recvBuf' \in Seq(Incomings)
           /\ Head(recvBuf).body \in Reports /\ Head(recvBuf).body.op = op
<1>1. Head(recvBuf) \in Incomings /\ Tail(recvBuf) \in Seq(Incomings)
    BY HeadTailProperties DEF Incoming, WireTypes
<1>2. Head(recvBuf).type = "Data" /\ Head(recvBuf).body.op = op
      /\ recvBuf' = Tail(recvBuf)
    BY DEF Incoming
<1>3. Head(recvBuf).body \in Reports
    BY <1>1, <1>2 DEF Incomings, AckFrame
<1> QED BY <1>1, <1>2, <1>3

LEMMA AckedType == sendBuf \in Seq(Outgoing) => Acked \in Seq(Outgoing)
<1>1. AckFrame \in Outgoing
    BY DEF Outgoing
<1> QED BY <1>1, AppendProperties DEF Acked

\* Every stage of poll() keeps the invariant.
LEMMA EngineStepKeeps == IInv /\ EngineStep => IInv'
<1> SUFFICES ASSUME IInv, EngineStep PROVE IInv'
    OBVIOUS
<1>1. DataTypes /\ TaskTypes /\ PollTypes /\ WireTypes /\ DeviceTypes
    BY Parts
<1>2. UNCHANGED <<deviceVars, built, spent>> /\ DeviceTypes'
    BY <1>1, Unchanged DEF EngineStep
<1>3. EngineTypes /\ TaskInv /\ BatchInv
    BY DEF IInv
<1>4. /\ task \in Tasks /\ txSeq \in 0..1
      /\ sendBuf \in Seq(Outgoing) /\ toDevice \in Seq(Outgoing)
      /\ recvBuf \in Seq(Incomings) /\ fromDevice \in Seq(Incomings)
    BY <1>1 DEF TaskTypes, WireTypes
<1>5. CASE DeadlineOpen /\ UNCHANGED wireVars
    <2>1. PollTypes'
        BY <1>1, <1>5, StayQuietKeeps DEF DeadlineOpen
    <2>2. DataTypes' /\ TaskTypes' /\ WireTypes'
        BY <1>1, <1>5, Unchanged DEF DeadlineOpen
    <2> QED BY <1>2, <2>1, <2>2, PartsNext
<1>6. CASE Retransmit /\ UNCHANGED wireVars
    <2>1. /\ task.deadline = "passed" /\ task.retries < MaxRetries /\ task.last # NoBody
          /\ sendBuf' = Append(sendBuf, DataFrame(txSeq, task.last))
          /\ txSeq' = 1 - txSeq
          /\ task' = [task EXCEPT !.retries = @ + 1, !.deadline = "running"]
        BY <1>6 DEF Retransmit, NextSeq, Rearmed
    <2>2. PollTypes'
        BY <1>1, <1>6, StayQuietKeeps DEF Retransmit
    <2>3. WireTypes'
        <3>1. DataFrame(txSeq, task.last) \in Outgoing
            BY <1>4, <2>1 DEF DataFrame, Outgoing, Tasks
        <3>2. sendBuf' \in Seq(Outgoing)
            BY <1>4, <2>1, <3>1, AppendProperties
        <3> QED BY <1>1, <1>6, <3>2 DEF Retransmit, WireTypes, wireVars
    <2>4. TaskTypes'
        <3>1. task.retries + 1 \in 0..MaxRetries
            BY <1>4, <2>1, LimitAssumption DEF Tasks
        <3>2. task' \in Tasks
            BY <1>4, <2>1, <3>1 DEF Tasks
        <3>3. /\ task'.running = task.running /\ task'.steps = task.steps
              /\ task'.wait = task.wait /\ task'.deadline = "running"
            BY <1>4, <2>1 DEF Tasks
        <3>4. TaskInv'
            BY <1>3, <2>1, <3>3 DEF TaskInv, Proceeding
        <3>5. txSeq' \in 0..1
            BY <1>4, <2>1
        <3> QED BY <3>2, <3>4, <3>5 DEF TaskTypes
    <2>5. DataTypes'
        BY <1>1, <1>6 DEF Retransmit, DataTypes
    <2> QED BY <1>2, <2>2, <2>3, <2>4, <2>5, PartsNext
<1>7. CASE GiveUp /\ UNCHANGED wireVars
    <2>1. PollTypes'
        BY <1>1, <1>7, EmitKeeps DEF GiveUp
    <2>2. TaskTypes'
        BY <1>4, <1>7, NoTaskType DEF GiveUp, TaskTypes, TaskInv
    <2>3. DataTypes' /\ WireTypes'
        BY <1>1, <1>7, Unchanged DEF GiveUp
    <2> QED BY <1>2, <2>1, <2>2, <2>3, PartsNext
<1>8. CASE FlushSendBuf
    <2>1. PollTypes'
        BY <1>1, <1>8, StayQuietKeeps DEF FlushSendBuf
    <2>2. DataTypes' /\ TaskTypes'
        BY <1>1, <1>8, Unchanged DEF FlushSendBuf
    <2>3. toDevice \o sendBuf \in Seq(Outgoing) /\ <<>> \in Seq(Outgoing)
        BY <1>4, ConcatProperties
    <2>4. WireTypes'
        BY <1>1, <1>8, <2>3 DEF FlushSendBuf, WireTypes
    <2> QED BY <1>2, <2>1, <2>2, <2>4, PartsNext
<1>9. CASE ReadFrames
    <2>1. PollTypes'
        BY <1>1, <1>9, StayQuietKeeps DEF ReadFrames
    <2>2. DataTypes' /\ TaskTypes'
        BY <1>1, <1>9, Unchanged DEF ReadFrames
    <2>3. recvBuf \o fromDevice \in Seq(Incomings) /\ <<>> \in Seq(Incomings)
        BY <1>4, ConcatProperties
    <2>4. WireTypes'
        BY <1>1, <1>9, <2>3 DEF ReadFrames, WireTypes
    <2> QED BY <1>2, <2>1, <2>2, <2>4, PartsNext
<1>10. CASE TransportError
    <2>1. PollTypes'
        BY <1>1, <1>10, EmitKeeps DEF TransportError
    <2>2. DataTypes' /\ TaskTypes'
        BY <1>1, <1>10, Unchanged DEF TransportError
    <2>3. <<>> \in Seq(Outgoing)
        OBVIOUS
    <2>4. WireTypes'
        BY <1>1, <1>10, <2>3 DEF TransportError, WireTypes, wireVars
    <2> QED BY <1>2, <2>1, <2>2, <2>4, PartsNext
<1>11. CASE NoFrame /\ UNCHANGED wireVars
    <2>1. PollTypes'
        BY <1>1, <1>11, StayQuietKeeps DEF NoFrame
    <2>2. DataTypes' /\ TaskTypes' /\ WireTypes'
        BY <1>1, <1>11, Unchanged DEF NoFrame
    <2> QED BY <1>2, <2>1, <2>2, PartsNext
<1>12. ASSUME NEW wait \in Waits, NEW buf \in Seq(Outgoing), NEW known,
              pc = "frame", AdvanceOn(wait, buf, known),
              key' = key, support' \subseteq Functions, caps' = caps,
              recvBuf' \in Seq(Incomings), UNCHANGED wireVars
       PROVE  IInv'
    <2>1. /\ props' \in [Settings -> [desired : Values, current : Values]]
          /\ TaskTypes' /\ PollTypes' /\ sendBuf' \in Seq(Outgoing)
        BY <1>3, <1>12, AdvanceOnKeeps
    <2>2. DataTypes'
        BY <1>1, <1>12, <2>1 DEF DataTypes
    <2>3. WireTypes'
        BY <1>1, <1>12, <2>1 DEF WireTypes, wireVars
    <2> QED BY <1>2, <2>1, <2>2, <2>3, PartsNext
<1>13. CASE HandleAck /\ UNCHANGED wireVars
    <2>1. /\ pc = "frame" /\ recvBuf # <<>> /\ recvBuf' = Tail(recvBuf)
          /\ AdvanceOn("Ack", sendBuf, support)
          /\ UNCHANGED <<key, support, caps>>
        BY <1>13 DEF HandleAck
    <2>2. recvBuf' \in Seq(Incomings) /\ "Ack" \in Waits
        BY <1>4, <2>1, HeadTailProperties DEF Waits
    <2> QED BY <1>1, <1>4, <1>12, <1>13, <2>1, <2>2 DEF DataTypes
<1>14. CASE HandleProtocolInfo /\ UNCHANGED wireVars
    <2>1. /\ Incoming("RetProtocolInfo") /\ pc = "frame"
          /\ support' = (support \ {"Table2"}) \union Head(recvBuf).body.val
          /\ AdvanceOn("ProtocolInfo", Acked, support')
          /\ UNCHANGED <<key, caps>>
        BY <1>14 DEF HandleProtocolInfo, Incoming
    <2>2. /\ recvBuf' \in Seq(Incomings) /\ Head(recvBuf).body \in Reports
          /\ Head(recvBuf).body.op = "RetProtocolInfo"
        BY <1>1, <2>1, ReportFields
    <2>3. Head(recvBuf).body.val \subseteq Functions
        BY <2>2 DEF Reports
    <2>4. support' \subseteq Functions /\ Acked \in Seq(Outgoing) /\ "ProtocolInfo" \in Waits
        BY <1>1, <1>4, <2>1, <2>3, AckedType DEF DataTypes, Waits
    <2> QED BY <1>12, <1>14, <2>1, <2>2, <2>4
<1>15. CASE HandleSupportFunction /\ UNCHANGED wireVars
    <2>1. /\ pc = "frame"
          /\ support' = support \union Head(recvBuf).body.val
          /\ AdvanceOn("SupportFunction", Acked, support')
          /\ UNCHANGED <<key, caps>>
          /\ Incoming("RetSupport") \/ Incoming("RetSupport2")
        BY <1>15 DEF HandleSupportFunction, Incoming
    <2>2. /\ recvBuf' \in Seq(Incomings) /\ Head(recvBuf).body \in Reports
          /\ Head(recvBuf).body.op \in {"RetSupport", "RetSupport2"}
        BY <1>1, <2>1, ReportFields
    <2>3. Head(recvBuf).body.val \subseteq Functions
        BY <2>2 DEF Reports
    <2>4. support' \subseteq Functions /\ Acked \in Seq(Outgoing) /\ "SupportFunction" \in Waits
        BY <1>1, <1>4, <2>1, <2>3, AckedType DEF DataTypes, Waits
    <2> QED BY <1>12, <1>15, <2>1, <2>2, <2>4
<1>16. ASSUME NEW op, Incoming(op), DataTypes', sendBuf' = Acked, Emit("Report"),
              UNCHANGED <<task, txSeq>>, UNCHANGED wireVars
       PROVE  IInv'
    <2>1. recvBuf' \in Seq(Incomings) /\ pc = "frame"
        BY <1>1, <1>16, ReportFields DEF Incoming
    <2>2. PollTypes'
        BY <1>1, <1>16, <2>1, EmitKeeps
    <2>3. WireTypes'
        BY <1>1, <1>4, <1>16, <2>1, AckedType DEF WireTypes, wireVars
    <2>4. TaskTypes'
        BY <1>1, <1>16, Unchanged
    <2> QED BY <1>2, <1>16, <2>2, <2>3, <2>4, PartsNext
<1>17. CASE HandleCapability /\ UNCHANGED wireVars
    <2>1. /\ Incoming("RetCapability") /\ caps' = Append(caps, Head(recvBuf).body.arg)
          /\ sendBuf' = Acked /\ Emit("Report")
          /\ UNCHANGED <<props, key, support, task, txSeq>>
        BY <1>17 DEF HandleCapability
    <2>2. Head(recvBuf).body \in Reports /\ Head(recvBuf).body.op = "RetCapability"
        BY <1>1, <2>1, ReportFields
    <2>3. Head(recvBuf).body.arg \in General
        BY <2>2 DEF Reports
    <2>4. caps' \in Seq(General)
        BY <1>1, <2>1, <2>3, AppendProperties DEF DataTypes
    <2>5. DataTypes'
        BY <1>1, <2>1, <2>4 DEF DataTypes
    <2> QED BY <1>16, <1>17, <2>1, <2>5
<1>18. CASE HandleParam /\ UNCHANGED wireVars
    <2> DEFINE body == Head(recvBuf).body
    <2>1. /\ Incoming("RetParam")
          /\ props' = [props EXCEPT ![body.arg] = [desired |-> body.val, current |-> body.val]]
          /\ sendBuf' = Acked /\ Emit("Report")
          /\ UNCHANGED <<key, support, caps, task, txSeq>>
        BY <1>18 DEF HandleParam
    <2>2. body \in Reports /\ body.op = "RetParam"
        BY <1>1, <2>1, ReportFields
    <2> HIDE DEF body
    <2>3. body.arg \in Settings /\ body.val \in Values
        BY <2>2 DEF Reports
    <2>4. DataTypes'
        BY <1>1, <2>1, <2>3 DEF DataTypes
    <2> QED BY <1>16, <1>18, <2>1, <2>4
<1>19. CASE HandlePairedList /\ UNCHANGED wireVars
    <2>1. /\ Incoming("RetPairedList") /\ sendBuf' = Acked /\ Emit("Report")
          /\ UNCHANGED <<props, key, support, caps, task, txSeq>>
        BY <1>19 DEF HandlePairedList
    <2>2. DataTypes'
        BY <1>1, <2>1, Unchanged
    <2> QED BY <1>16, <1>19, <2>1, <2>2
<1>20. CASE StepCompleted /\ UNCHANGED wireVars
    <2>1. /\ pc = "tail" /\ UNCHANGED <<props, key, support, caps, txSeq, sendBuf, recvBuf>>
          /\ \/ task' = NoTask /\ Emit(Head(task.steps).event)
             \/ UNCHANGED task /\ StayQuiet("tick")
        BY <1>20 DEF StepCompleted
    <2>2. DataTypes' /\ WireTypes'
        BY <1>1, <1>20, <2>1, Unchanged
    <2>3. CASE task' = NoTask /\ Emit(Head(task.steps).event)
        <3>1. PollTypes'
            BY <1>1, <2>1, <2>3, EmitKeeps
        <3>2. TaskTypes'
            BY <1>4, <2>1, <2>3, NoTaskType DEF TaskTypes, TaskInv
        <3> QED BY <1>2, <2>2, <3>1, <3>2, PartsNext
    <2>4. CASE UNCHANGED task /\ StayQuiet("tick")
        <3>1. PollTypes'
            BY <1>1, <2>1, <2>4, StayQuietKeeps
        <3>2. TaskTypes'
            BY <1>1, <2>1, <2>4, Unchanged
        <3> QED BY <1>2, <2>2, <3>1, <3>2, PartsNext
    <2> QED BY <2>1, <2>3, <2>4
<1> QED
    BY <1>5, <1>6, <1>7, <1>8, <1>9, <1>10, <1>11, <1>13, <1>14, <1>15, <1>17, <1>18,
       <1>19, <1>20 DEF EngineStep, Poll

\* A new engine, and what is left of one that was dropped.
LEMMA CloseConnectionKeeps ==
    ASSUME DeviceTypes, CloseConnection, spent' \in [Counts -> Nat]
    PROVE  IInv'
<1>1. DataTypes'
    <2>1. NewProps \in [Settings -> [desired : Values, current : Values]]
        BY ValueAssumption DEF NewProps
    <2> QED BY <2>1 DEF CloseConnection, DropEngine, DataTypes
<1>2. TaskTypes'
    BY NoTaskType DEF CloseConnection, DropEngine, TaskTypes, TaskInv
<1>3. PollTypes'
    BY LimitAssumption DEF CloseConnection, DropEngine, PollTypes, BatchInv
<1>4. WireTypes'
    BY DEF CloseConnection, DropEngine, WireTypes
<1>5. DeviceTypes'
    BY DEF CloseConnection, DeviceTypes
<1> QED BY <1>1, <1>2, <1>3, <1>4, <1>5, PartsNext

LEMMA SpendType ==
    ASSUME spent \in [Counts -> Nat], NEW what \in Counts, NEW bound, Spend(what, bound)
    PROVE  spent' \in [Counts -> Nat]
BY DEF Spend

LEMMA TickKeeps == IInv /\ Tick => IInv'
<1> SUFFICES ASSUME IInv, Tick PROVE IInv'
    OBVIOUS
<1>1. DataTypes /\ TaskTypes /\ PollTypes /\ WireTypes /\ DeviceTypes
    BY Parts
<1>2. EngineTypes /\ txSeq \in 0..1 /\ sendBuf \in Seq(Outgoing)
    BY DEF IInv, EngineTypes, WireTypes
<1>3. CASE Teardown
    <2>1. spent' \in [Counts -> Nat]
        BY <1>1, <1>3 DEF Teardown, DeviceTypes
    <2> QED BY <1>1, <1>3, <2>1, CloseConnectionKeeps DEF Teardown
<1>4. ASSUME TaskTypes', sendBuf' \in Seq(Outgoing), built' \in Nat,
             key' \in Keys \union {KeyOff}, UNCHANGED props,
             pc' = "rest" /\ pending' = {} /\ batch' = 0,
             UNCHANGED <<support, caps, recvBuf, wireVars, deviceVars, spent>>
      PROVE  IInv'
    <2>1. DataTypes'
        BY <1>1, <1>4 DEF DataTypes
    <2>2. PollTypes'
        BY <1>4, LimitAssumption DEF PollTypes, BatchInv
    <2>3. WireTypes'
        BY <1>1, <1>4 DEF WireTypes, wireVars
    <2>4. DeviceTypes'
        BY <1>1, <1>4 DEF DeviceTypes, deviceVars
    <2> QED BY <1>4, <2>1, <2>2, <2>3, <2>4, PartsNext
<1>5. built \in Nat /\ built + 1 \in Nat /\ KeyOff \in Keys \union {KeyOff}
      /\ key \in Keys \union {KeyOff}
    BY <1>1 DEF DeviceTypes, DataTypes
<1>6. CASE /\ AfterInit \/ AutoCommit \/ PeriodicSync \/ NothingDue
           /\ pc' = "rest" /\ pending' = {} /\ batch' = 0
           /\ UNCHANGED <<support, caps, recvBuf, wireVars, deviceVars, spent>>
    <2>1. CASE StartSync
        <3>1. TaskTypes' /\ sendBuf' \in Seq(Outgoing)
            BY <1>2, <2>1, SyncSteps, StartTaskKeeps DEF StartSync
        <3> QED BY <1>4, <1>5, <1>6, <2>1, <3>1 DEF StartSync
    <2>2. CASE AutoCommit
        <3>1. TaskTypes' /\ sendBuf' \in Seq(Outgoing)
            BY <1>2, <2>2, CommitSteps, StartTaskKeeps DEF AutoCommit
        <3>2. key' = KeyOff /\ built' \in Nat /\ UNCHANGED props
            BY <1>5, <2>2 DEF AutoCommit
        <3> QED BY <1>4, <1>5, <1>6, <3>1, <3>2
    <2>3. CASE NothingDue
        <3>1. TaskTypes' /\ sendBuf' \in Seq(Outgoing)
            BY <1>1, <1>2, <2>3, Unchanged DEF NothingDue
        <3> QED BY <1>4, <1>5, <1>6, <2>3, <3>1 DEF NothingDue
    <2> QED BY <1>6, <2>1, <2>2, <2>3 DEF AfterInit, PeriodicSync
<1> QED BY <1>3, <1>6 DEF Tick

LEMMA AttachKeeps == IInv /\ Attach => IInv'
<1> SUFFICES ASSUME IInv, Attach PROVE IInv'
    OBVIOUS
<1>1. DataTypes /\ TaskTypes /\ PollTypes /\ WireTypes /\ DeviceTypes
    BY Parts
<1>2. txSeq \in 0..1 /\ sendBuf \in Seq(Outgoing)
    BY <1>1 DEF TaskTypes, WireTypes
<1>3. TaskTypes' /\ sendBuf' \in Seq(Outgoing)
    BY <1>2, InitSteps, StartTaskKeeps DEF Attach
<1>4. WireTypes'
    BY <1>1, <1>3 DEF Attach, WireTypes
<1>5. DataTypes' /\ PollTypes' /\ DeviceTypes'
    BY <1>1, Unchanged DEF Attach
<1> QED BY <1>3, <1>4, <1>5, PartsNext

LEMMA UserKeeps == IInv /\ User => IInv'
<1> SUFFICES ASSUME IInv, User PROVE IInv'
    OBVIOUS
<1>1. DataTypes /\ TaskTypes /\ PollTypes /\ WireTypes /\ DeviceTypes
    BY Parts
<1>2. ASSUME NEW s \in Settings, NEW v \in Values, Edit(s, v)
      PROVE  IInv'
    <2>1. DataTypes'
        BY <1>1, <1>2 DEF Edit, DataTypes
    <2>2. spent' \in [Counts -> Nat]
        BY <1>1, <1>2, SpendType DEF Edit, DeviceTypes, Counts
    <2>3. DeviceTypes'
        BY <1>1, <1>2, <2>2 DEF Edit, DeviceTypes, deviceVars
    <2>4. TaskTypes' /\ PollTypes' /\ WireTypes'
        BY <1>1, <1>2, Unchanged DEF Edit
    <2> QED BY <2>1, <2>3, <2>4, PartsNext
<1>3. CASE \E s \in Plain, v \in Values : Edit(s, v)
    BY <1>2, <1>3 DEF Settings
<1>4. CASE \E i \in DOMAIN GeneralOrder, v \in Values : EditGeneral(i, v)
    <2>1. \A i \in DOMAIN GeneralOrder : GeneralOrder[i] \in Settings
        BY OrderAssumption DEF IsOrderOf, Settings
    <2> QED BY <1>2, <1>4, <2>1 DEF EditGeneral
<1>5. CASE \E k \in Keys : PressKey(k)
    <2>1. PICK k \in Keys : PressKey(k)
        BY <1>5
    <2>2. DataTypes'
        BY <1>1, <2>1 DEF PressKey, DataTypes
    <2>3. spent' \in [Counts -> Nat]
        BY <1>1, <2>1, SpendType DEF PressKey, DeviceTypes, Counts
    <2>4. DeviceTypes'
        BY <1>1, <2>1, <2>3 DEF PressKey, DeviceTypes, deviceVars
    <2>5. TaskTypes' /\ PollTypes' /\ WireTypes'
        BY <1>1, <2>1, Unchanged DEF PressKey
    <2> QED BY <2>2, <2>4, <2>5, PartsNext
<1>6. CASE RefreshSync
    <2>1. txSeq \in 0..1 /\ sendBuf \in Seq(Outgoing)
        BY <1>1 DEF TaskTypes, WireTypes
    <2>2. TaskTypes' /\ sendBuf' \in Seq(Outgoing)
        BY <1>6, <2>1, SyncSteps, StartTaskKeeps DEF RefreshSync, StartSync
    <2>3. WireTypes'
        BY <1>1, <1>6, <2>2 DEF RefreshSync, StartSync, WireTypes, wireVars
    <2>4. DataTypes' /\ PollTypes' /\ DeviceTypes'
        BY <1>1, <1>6, Unchanged DEF RefreshSync, StartSync
    <2> QED BY <2>2, <2>3, <2>4, PartsNext
<1>7. CASE Disconnect
    <2>1. spent' \in [Counts -> Nat]
        BY <1>1, <1>7, SpendType DEF Disconnect, DeviceTypes, Counts
    <2> QED BY <1>1, <1>7, <2>1, CloseConnectionKeeps DEF Disconnect
<1> QED BY <1>3, <1>4, <1>5, <1>6, <1>7 DEF User

\* The headphones answer with reports the engine knows.
LEMMA AnswerType ==
    ASSUME DeviceTypes, NEW body \in Requests
    PROVE  Answer(body) \in Seq(Incomings)
<1>1. ASSUME NEW op, NEW arg, NEW val, Body(op, arg, val) \in Reports
      PROVE  Report(op, arg, val) \in Seq(Incomings)
    <2>1. [type |-> "Data", body |-> Body(op, arg, val)] \in Incomings
        BY <1>1 DEF Incomings
    <2> QED BY <2>1, OneElement DEF Report
<1>2. \A op \in {"RetProtocolInfo", "RetSupport", "RetSupport2"},
         fns \in SUBSET Functions : Body(op, None, fns) \in Reports
    BY DEF Body, Reports
<1>3. Body("RetPairedList", None, None) \in Reports
    BY DEF Body, Reports
<1>4. \A s \in General : Body("RetCapability", s, None) \in Reports
    BY DEF Body, Reports
<1>5. \A s \in Settings, v \in Values : Body("RetParam", s, v) \in Reports
    BY DEF Body, Reports
<1>6. /\ devFns \intersect {"Table2"} \in SUBSET Functions
      /\ devFns \intersect General \in SUBSET Functions
      /\ devFns \intersect {"PairedList"} \in SUBSET Functions
    BY DEF Functions
<1>7. /\ body.op = "GetCapability" => body.arg \in General
      /\ body.op = "GetParam" => body.arg \in Settings
      /\ body.op = "SetParam" => body.arg \in Settings /\ body.val \in Values
    BY DEF Requests
<1>8. \A s \in Settings : devVal[s] \in Values
    BY DEF DeviceTypes
<1>9. CASE body.op = "GetProtocolInfo"
    BY <1>1, <1>2, <1>6, <1>9 DEF Answer
<1>10. CASE body.op = "GetSupport"
    BY <1>1, <1>2, <1>6, <1>10 DEF Answer
<1>11. CASE body.op = "GetSupport2"
    BY <1>1, <1>2, <1>6, <1>11 DEF Answer
<1>12. CASE body.op = "GetPairedList"
    BY <1>1, <1>3, <1>12 DEF Answer
<1>13. CASE body.op = "GetCapability"
    BY <1>1, <1>4, <1>7, <1>13 DEF Answer
<1>14. CASE body.op = "GetParam"
    BY <1>1, <1>5, <1>7, <1>8, <1>14 DEF Answer
<1>15. CASE body.op = "SetParam" /\ Echo
    BY <1>1, <1>5, <1>7, <1>15 DEF Answer
<1>16. CASE /\ body.op \notin {"GetProtocolInfo", "GetSupport", "GetSupport2",
                                "GetPairedList", "GetCapability", "GetParam"}
            /\ ~(body.op = "SetParam" /\ Echo)
    BY <1>16 DEF Answer
<1> QED BY <1>9, <1>10, <1>11, <1>12, <1>13, <1>14, <1>15, <1>16

LEMMA DeviceKeeps == IInv /\ Device => IInv'
<1> SUFFICES ASSUME IInv, Device PROVE IInv'
    OBVIOUS
<1>1. DataTypes /\ TaskTypes /\ PollTypes /\ WireTypes /\ DeviceTypes
    BY Parts
<1>2. UNCHANGED engineVars /\ UNCHANGED link /\ toDevice # <<>> /\ toDevice' = Tail(toDevice)
    BY DEF Device, DeviceTakes, DeviceDropsRepeat, DeviceTakesAck, Arrived
<1>3. DataTypes' /\ TaskTypes' /\ PollTypes'
    BY <1>1, <1>2, Unchanged DEF engineVars
<1>4. toDevice' \in Seq(Outgoing) /\ Head(toDevice) \in Outgoing
    BY <1>1, <1>2, HeadTailProperties DEF WireTypes
<1>5. CASE DeviceTakes
    <2> DEFINE body == Head(toDevice).body
    <2>1. body \in Requests /\ Head(toDevice).seq \in 0..1
        BY <1>4, <1>5 DEF DeviceTakes, Arrived, Outgoing, AckFrame
    <2>2. /\ fromDevice' = fromDevice \o <<AckFrame>> \o Answer(body)
          /\ devVal' = IF body.op = "SetParam"
                       THEN [devVal EXCEPT ![body.arg] = body.val] ELSE devVal
          /\ ran' = IF body.op = "Key" THEN ran + 1 ELSE ran
          /\ devSeq' = Head(toDevice).seq
          /\ UNCHANGED <<devFns, dropped, built, spent>>
        BY <1>5 DEF DeviceTakes
    <2> HIDE DEF body
    <2>3. fromDevice' \in Seq(Incomings)
        <3>1. AckFrame \in Incomings /\ Answer(body) \in Seq(Incomings)
            BY <1>1, <2>1, AnswerType DEF Incomings
        <3>2. <<AckFrame>> \in Seq(Incomings) /\ fromDevice \in Seq(Incomings)
            BY <1>1, <3>1, OneElement DEF WireTypes
        <3> QED BY <2>2, <3>1, <3>2, ConcatProperties
    <2>4. WireTypes'
        BY <1>1, <1>2, <1>4, <2>3 DEF WireTypes, engineVars
    <2>5. devVal' \in [Settings -> Values]
        <3>1. body.op = "SetParam" => body.val \in Values
            BY <2>1 DEF Requests
        <3> QED BY <1>1, <2>2, <3>1 DEF DeviceTypes
    <2>6. DeviceTypes'
        BY <1>1, <2>1, <2>2, <2>5 DEF DeviceTypes
    <2> QED BY <1>3, <2>4, <2>6, PartsNext
<1>6. CASE DeviceDropsRepeat \/ DeviceTakesAck
    <2>1. WireTypes'
        BY <1>1, <1>2, <1>4, <1>6
        DEF DeviceDropsRepeat, DeviceTakesAck, WireTypes, engineVars
    <2>2. DeviceTypes'
        BY <1>1, <1>6 DEF DeviceDropsRepeat, DeviceTakesAck, DeviceTypes, deviceVars
    <2> QED BY <1>3, <2>1, <2>2, PartsNext
<1> QED BY <1>5, <1>6 DEF Device

LEMMA EnvironmentKeeps == IInv /\ Environment => IInv'
<1> SUFFICES ASSUME IInv, Environment PROVE IInv'
    OBVIOUS
<1>1. DataTypes /\ TaskTypes /\ PollTypes /\ WireTypes /\ DeviceTypes
    BY Parts
<1>2. UNCHANGED engineVars
    BY DEF Environment, DeviceChanges, LoseCommand, LoseAnswer, LinkBreaks
<1>3. DataTypes' /\ TaskTypes' /\ PollTypes'
    BY <1>1, <1>2, Unchanged DEF engineVars
<1>4. spent \in [Counts -> Nat] /\ {"changes", "lost", "missed", "breaks"} \subseteq Counts
    BY <1>1 DEF DeviceTypes, Counts
<1>5. CASE \E s \in Settings, v \in Values : DeviceChanges(s, v)
    <2>1. PICK s \in Settings, v \in Values : DeviceChanges(s, v)
        BY <1>5
    <2>2. Report("RetParam", s, v) \in Seq(Incomings)
        <3>1. [type |-> "Data", body |-> Body("RetParam", s, v)] \in Incomings
            BY DEF Body, Reports, Incomings
        <3> QED BY <3>1, OneElement DEF Report
    <2>3. fromDevice' \in Seq(Incomings)
        BY <1>1, <2>1, <2>2, ConcatProperties DEF DeviceChanges, WireTypes
    <2>4. WireTypes'
        BY <1>1, <2>1, <2>3 DEF DeviceChanges, WireTypes, engineVars
    <2>5. spent' \in [Counts -> Nat]
        BY <1>4, <2>1, SpendType DEF DeviceChanges
    <2>6. DeviceTypes'
        BY <1>1, <2>1, <2>5 DEF DeviceChanges, DeviceTypes
    <2> QED BY <1>3, <2>4, <2>6, PartsNext
<1>6. CASE LoseCommand
    <2>1. toDevice' \in Seq(Outgoing)
        BY <1>1, <1>6, HeadTailProperties DEF LoseCommand, Arrived, WireTypes
    <2>2. WireTypes'
        BY <1>1, <1>6, <2>1 DEF LoseCommand, WireTypes, engineVars
    <2>3. spent' \in [Counts -> Nat]
        BY <1>4, <1>6, SpendType DEF LoseCommand
    <2>4. DeviceTypes'
        BY <1>1, <1>6, <2>3 DEF LoseCommand, DeviceTypes, deviceVars
    <2> QED BY <1>3, <2>2, <2>4, PartsNext
<1>7. CASE LoseAnswer
    <2>1. fromDevice' \in Seq(Incomings)
        BY <1>1, <1>7, HeadTailProperties DEF LoseAnswer, WireTypes
    <2>2. WireTypes'
        BY <1>1, <1>7, <2>1 DEF LoseAnswer, WireTypes, engineVars
    <2>3. spent' \in [Counts -> Nat]
        BY <1>4, <1>7, SpendType DEF LoseAnswer
    <2>4. DeviceTypes'
        BY <1>1, <1>7, <2>3 DEF LoseAnswer, DeviceTypes, deviceVars
    <2> QED BY <1>3, <2>2, <2>4, PartsNext
<1>8. CASE LinkBreaks
    <2>1. WireTypes'
        BY <1>1, <1>8 DEF LinkBreaks, WireTypes, engineVars
    <2>2. spent' \in [Counts -> Nat]
        BY <1>4, <1>8, SpendType DEF LinkBreaks
    <2>3. DeviceTypes'
        BY <1>1, <1>8, <2>2 DEF LinkBreaks, DeviceTypes, deviceVars
    <2> QED BY <1>3, <2>1, <2>3, PartsNext
<1> QED BY <1>5, <1>6, <1>7, <1>8 DEF Environment

LEMMA TimeoutKeeps == IInv /\ Timeout => IInv'
<1> SUFFICES ASSUME IInv, Timeout PROVE IInv'
    OBVIOUS
<1>1. DataTypes /\ TaskTypes /\ PollTypes /\ WireTypes /\ DeviceTypes
    BY Parts
<1>2. task.deadline = "running" /\ task' = [task EXCEPT !.deadline = "passed"]
    BY DEF Timeout, DeadlinePasses
<1>3. TaskTypes'
    <2>1. task \in Tasks
        BY <1>1 DEF TaskTypes
    <2>2. task' \in Tasks
        BY <1>2, <2>1 DEF Tasks
    <2>3. /\ task'.running = task.running /\ task'.steps = task.steps
          /\ task'.wait = task.wait /\ task'.deadline = "passed"
        BY <1>2, <2>1 DEF Tasks
    <2>4. TaskInv'
        BY <1>1, <1>2, <2>3 DEF TaskTypes, TaskInv, Proceeding
    <2> QED BY <1>1, <2>2, <2>4 DEF Timeout, TaskTypes
<1>4. spent' \in [Counts -> Nat]
    BY <1>1, SpendType DEF Timeout, DeviceTypes, Counts
<1>5. DeviceTypes'
    BY <1>1, <1>4 DEF Timeout, DeviceTypes, deviceVars
<1>6. DataTypes' /\ PollTypes' /\ WireTypes'
    BY <1>1, Unchanged DEF Timeout
<1> QED BY <1>3, <1>5, <1>6, PartsNext

---------------------------------------------------------------------------
(* The theorems *)

\* Every step keeps the inductive invariant ...
LEMMA IInvKept == IInv /\ [Next]_vars => IInv'
<1> SUFFICES ASSUME IInv, [Next]_vars PROVE IInv'
    OBVIOUS
<1>1. CASE UNCHANGED vars
    <2>1. DataTypes /\ TaskTypes /\ PollTypes /\ WireTypes /\ DeviceTypes
        BY Parts
    <2>2. DataTypes' /\ TaskTypes' /\ PollTypes' /\ WireTypes' /\ DeviceTypes'
        BY <1>1, <2>1, Unchanged DEF vars, engineVars
    <2> QED BY <2>2, PartsNext
<1> QED
    BY <1>1, EngineStepKeeps, TickKeeps, AttachKeeps, TimeoutKeeps, DeviceKeeps,
       UserKeeps, EnvironmentKeeps DEF Next

\* ... so every reachable state satisfies it.
LEMMA Invariance == Spec => []IInv
<1> QED BY IInvKept, InitIInv, PTL DEF Spec

\* Every variable has its type, for any settings, limits and headphones.
THEOREM TypeCorrect == Spec => []TypeOK
<1>1. IInv => TypeOK
    BY DEF IInv, TypeOK
<1> QED BY <1>1, Invariance, PTL

\* No task of the engine gets stuck: each has a Done to reach and, until it
\* is reached, something awaited and a deadline for it.
THEOREM TasksProceed == Spec => []TaskCanProceed
<1>1. IInv => TaskCanProceed
    BY DEF IInv, TaskInv, Proceeding, TaskCanProceed
<1> QED BY <1>1, Invariance, PTL

=============================================================================
