------------------------- MODULE SessionTaskProofs --------------------------
(***************************************************************************)
(* What the tasks of Session achieve, while no answer is late: a key press *)
(* reaches the headphones, and once unless an answer is lost, and with the *)
(* init handshake behind it the engine knows what they advertise.  One     *)
(* loss, or one late answer, fails no task.  And while nothing is late nor *)
(* lost on the way back, what the app shows at rest is what they have, and *)
(* the settings menu has an entry for each setting, in their order.        *)
(***************************************************************************)
EXTENDS SessionWaitProofs, FiniteSetTheorems

(* The key *)

IsKey(step)   == step.kind = "Send" /\ step.body.op = "Key"
HasKey(steps) == \E i \in DOMAIN steps : IsKey(steps[i])

\* A task has one key to send at most, and that under no condition.
OneKey(steps) ==
    /\ \A i, j \in DOMAIN steps : IsKey(steps[i]) /\ IsKey(steps[j]) => i = j
    /\ \A i \in DOMAIN steps : steps[i].kind = "If" =>
           \A j \in DOMAIN steps[i].inner : ~IsKey(steps[i].inner[j])

\* The key is still to be taken by the headphones: the task has it left, and
\* it is not that it is only the ACK that is under way.
KeyLeft  == task.running /\ HasKey(task.steps)
KeyTaken == task.wait = "Ack" /\ task.last.op = "Key" /\ At(Replies, Acks) # {}
KeyDue   == KeyLeft /\ ~KeyTaken

\* Every key that was built has run but for the one that is due, and none
\* has run that was not built, nor twice unless an answer was missed.
KeyCount ==
    /\ built <= ran \/ (KeyDue /\ built <= ran + 1)
    /\ spent.missed = 0 => ran <= built /\ (KeyDue => ran < built)

\* An answer that is late may pass for another; a failed task leaves its
\* event for the app and a dead connection nothing.
Undisturbed == link = "up" /\ spent.late = 0 /\ "Fatal" \notin pending

KeyInv ==
    /\ task.running => OneKey(task.steps)
    /\ Undisturbed => KeyCount

---------------------------------------------------------------------------
(* The support tables *)

Has(steps, step) == \E i \in DOMAIN steps : steps[i] = step
AskInfo          == Send(Get("GetProtocolInfo"))
AskSupport       == Send(Get("GetSupport"))

\* What is asked for before anything that depends on a table, and under no
\* condition: the protocol info, and table 1.
AskedFirst(steps, ask) ==
    \A j \in DOMAIN steps : steps[j].kind = "If" =>
        /\ \A i \in DOMAIN steps : steps[i] = ask => i < j
        /\ \A l \in DOMAIN steps[j].inner : steps[j].inner[l] # ask
InfoFirst(steps)    == AskedFirst(steps, AskInfo)
SupportFirst(steps) == AskedFirst(steps, AskSupport)

\* A table that is not known yet is still to be asked for, or asked for and
\* awaited.
Awaiting(op)  == Head(task.steps).kind = "Await" /\ task.last.op = op
Pending(op)   == task.running /\ (Has(task.steps, Send(Get(op))) \/ Awaiting(op))
TableTwoAhead == task.running /\ Has(task.steps, TableTwoStep)

\* What the tables under way say is so.
Truthful(replies) ==
    \A i \in At(replies, Tables) :
        replies[i].body.val = devFns \intersect Covered(replies[i].body.op)

Told(op) == devFns \intersect Covered(TableFor(op)) \subseteq support \/ Pending(op)
Complete ==
    /\ Told("GetProtocolInfo") /\ Told("GetSupport")
    /\ Told("GetSupport2") \/ TableTwoAhead

SupportInv ==
    /\ link = "up" => support \subseteq devFns /\ Truthful(Replies)
    /\ task.running => InfoFirst(task.steps)
    /\ Undisturbed => Complete

---------------------------------------------------------------------------
(* The steps that are left *)

\* The steps behind the condition that is resolved first are those of the
\* task, c places further to the front, and the m before them those of the
\* condition, in their order; what is under no condition is kept.
Shifted(steps, u, m, c) ==
    /\ \A i \in DOMAIN u : i > m => i + c \in DOMAIN steps /\ u[i] = steps[i + c]
    /\ \A i \in DOMAIN u : i <= m =>
           /\ u[i].kind # "If" /\ m + c \in DOMAIN steps /\ steps[m + c].kind = "If"
           /\ i \in DOMAIN steps[m + c].inner
           /\ \A l \in DOMAIN steps[m + c].inner :
                  l \in DOMAIN u /\ u[l] = steps[m + c].inner[l]
    /\ \A j \in DOMAIN steps : steps[j].kind # "If" =>
           j - c \in DOMAIN u /\ u[j - c] = steps[j]

LEMMA UnfoldSteps ==
    ASSUME NEW steps \in Seq(Steps), EndsInDone(steps), NEW known
    PROVE  \E m \in Nat, c \in Int :
               /\ Shifted(steps, Unfold(steps, known), m, c)
               /\ \A i \in DOMAIN Unfold(steps, known) : i <= m => steps[m + c].cond \in known
<1> DEFINE n == Len(steps)
           u == Unfold(steps, known)
<1>1. /\ n \in Nat /\ DOMAIN steps = 1..n
      /\ u \in Seq(Steps) /\ DOMAIN u = 1..Len(u) /\ Len(u) \in Nat
    BY UnfoldKeepsDone, LenProperties
<1>2. PICK k \in 1..n : Unfolds(steps, known, k, u)
    BY UnfoldForm
<1> HIDE DEF u, n
<1>3. /\ \A j \in 1..(k - 1) : steps[j].kind = "If"
      /\ steps[k].kind # "If" =>
             /\ Len(u) = n - k + 1
             /\ \A i \in 1..(n - k + 1) : u[i] = steps[i + k - 1]
      /\ steps[k].kind = "If" =>
             /\ steps[k].cond \in known
             /\ steps[k].inner \in Seq(SendSteps) /\ steps[k].inner # <<>>
             /\ Len(u) = Len(steps[k].inner) + n - k
             /\ \A i \in 1..(Len(steps[k].inner) + n - k) :
                    u[i] = IF i <= Len(steps[k].inner) THEN steps[k].inner[i]
                           ELSE steps[i - Len(steps[k].inner) + k]
    BY <1>2 DEF Unfolds, n
<1>4. SUFFICES \E m \in Nat, c \in Int :
                   /\ Shifted(steps, u, m, c)
                   /\ \A i \in DOMAIN u : i <= m => steps[m + c].cond \in known
    BY DEF u
<1>5. CASE steps[k].kind # "If"
    <2>1. ASSUME NEW i \in DOMAIN u PROVE i + (k - 1) \in DOMAIN steps /\ u[i] = steps[i + (k - 1)]
        <3>1. i \in 1..(n - k + 1) /\ i + k - 1 = i + (k - 1) /\ i + (k - 1) \in 1..n
            BY <1>1, <1>3, <1>5
        <3> QED BY <1>1, <1>3, <1>5, <3>1
    <2>2. ASSUME NEW j \in DOMAIN steps, steps[j].kind # "If"
          PROVE  j - (k - 1) \in DOMAIN u /\ u[j - (k - 1)] = steps[j]
        <3>1. j >= k
            BY <1>1, <1>3, <2>2
        <3>2. j - (k - 1) \in DOMAIN u
            BY <1>1, <1>3, <1>5, <3>1
        <3>3. (j - (k - 1)) + (k - 1) = j
            BY <1>1
        <3> QED BY <2>1, <3>2, <3>3
    <2>3. \A i \in DOMAIN u : ~(i <= 0)
        BY <1>1
    <2> DEFINE c == k - 1
    <2>4. c \in Int
        OBVIOUS
    <2> HIDE DEF c
    <2>5. Shifted(steps, u, 0, c)
        BY <2>1, <2>2, <2>3 DEF c, Shifted
    <2> QED BY <2>3, <2>4, <2>5
<1>6. CASE steps[k].kind = "If"
    <2> DEFINE inner == steps[k].inner
               m == Len(inner)
    <2>1. /\ m \in Nat \ {0} /\ DOMAIN inner = 1..m
          /\ \A i \in 1..m : inner[i].kind # "If"
        <3>1. inner \in Seq(SendSteps) /\ inner # <<>>
            BY <1>3, <1>6
        <3>2. m \in Nat \ {0} /\ DOMAIN inner = 1..m
            BY <3>1, EmptySeq, LenProperties
        <3> QED BY <3>1, <3>2, StepKinds, ElementOfSeq
    <2>2. /\ DOMAIN u = 1..(m + n - k)
          /\ \A i \in 1..(m + n - k) : u[i] = IF i <= m THEN inner[i] ELSE steps[i - m + k]
        BY <1>1, <1>3, <1>6
    <2>3. k \in DOMAIN steps /\ steps[k].kind = "If"
        BY <1>1, <1>6
    <2> DEFINE c == k - m
    <2>4. ASSUME NEW i \in DOMAIN u, i > m PROVE i + c \in DOMAIN steps /\ u[i] = steps[i + c]
        <3> HIDE DEF inner, m
        <3>1. i \in 1..(m + n - k) /\ ~(i <= m) /\ i - m + k = i + c /\ i + c \in 1..n
            BY <1>1, <2>1, <2>2, <2>4
        <3> QED BY <1>1, <2>2, <3>1
    <2>5. ASSUME NEW i \in DOMAIN u, i <= m
          PROVE  /\ u[i].kind # "If" /\ m + c \in DOMAIN steps /\ steps[m + c].kind = "If"
                 /\ i \in DOMAIN steps[m + c].inner
                 /\ \A l \in DOMAIN steps[m + c].inner :
                        l \in DOMAIN u /\ u[l] = steps[m + c].inner[l]
                 /\ steps[m + c].cond \in known
        <3>1. /\ i \in DOMAIN inner /\ u[i].kind # "If"
              /\ \A l \in DOMAIN inner : l \in DOMAIN u /\ u[l] = inner[l]
            <4> HIDE DEF inner, m
            <4>1. \A l \in 1..m : l \in 1..(m + n - k) /\ l <= m
                BY <1>1, <2>1
            <4>2. i \in 1..m
                BY <2>2, <2>5
            <4> QED BY <2>1, <2>2, <4>1, <4>2
        <3>2. m + c = k
            <4> HIDE DEF inner, m
            <4> QED BY <1>1, <2>1
        <3> HIDE DEF c, m
        <3> QED BY <1>3, <1>6, <2>3, <3>1, <3>2
    <2>6. ASSUME NEW j \in DOMAIN steps, steps[j].kind # "If"
          PROVE  j - c \in DOMAIN u /\ u[j - c] = steps[j]
        <3>1. j >= k /\ j # k
            BY <1>1, <1>3, <1>6, <2>6
        <3> HIDE DEF inner, m
        <3>2. j - c \in DOMAIN u /\ j - c > m /\ (j - c) + c = j
            BY <1>1, <2>1, <2>2, <3>1
        <3> HIDE DEF c
        <3> QED BY <2>4, <3>2
    <2>7. m \in Nat /\ c \in Int
        <3> HIDE DEF inner, m
        <3> QED BY <2>1
    <2> HIDE DEF inner, m, c
    <2>8. Shifted(steps, u, m, c)
        BY <2>4, <2>5, <2>6 DEF Shifted
    <2> QED BY <2>5, <2>7, <2>8
<1> QED BY <1>5, <1>6

\* Resolving conditions makes no key and loses none ...
LEMMA UnfoldKeys ==
    ASSUME NEW steps \in Seq(Steps), EndsInDone(steps), OneKey(steps), NEW known
    PROVE  OneKey(Unfold(steps, known)) /\ (HasKey(Unfold(steps, known)) <=> HasKey(steps))
<1> DEFINE u == Unfold(steps, known)
<1>0. PICK m \in Nat, c \in Int : Shifted(steps, u, m, c)
    BY UnfoldSteps
<1>2. u \in Seq(Steps)
    BY UnfoldKeepsDone
<1> HIDE DEF u
<1>1. /\ \A i \in DOMAIN u : i > m => i + c \in DOMAIN steps /\ u[i] = steps[i + c]
      /\ \A i \in DOMAIN u : i <= m =>
             /\ u[i].kind # "If"
             /\ \E j \in DOMAIN steps :
                   steps[j].kind = "If" /\ \E l \in DOMAIN steps[j].inner : u[i] = steps[j].inner[l]
      /\ \A j \in DOMAIN steps : steps[j].kind # "If" =>
             j - c \in DOMAIN u /\ u[j - c] = steps[j]
    BY <1>0 DEF Shifted
<1>3. \A i \in DOMAIN u : i \in Nat
    BY <1>2
<1>4. \A i \in DOMAIN u : IsKey(u[i]) => i > m
    <2> SUFFICES ASSUME NEW i \in DOMAIN u, IsKey(u[i]), i <= m PROVE FALSE
        BY <1>3
    <2> QED BY <1>1 DEF OneKey
<1>5. \A i \in DOMAIN u : IsKey(u[i]) => i + c \in DOMAIN steps /\ IsKey(steps[i + c])
    BY <1>1, <1>4
<1>6. ASSUME NEW i \in DOMAIN u, NEW j \in DOMAIN u, IsKey(u[i]), IsKey(u[j]) PROVE i = j
    <2>1. i + c = j + c
        BY <1>5, <1>6 DEF OneKey
    <2> QED BY <1>3, <2>1
<1>7. ASSUME NEW i \in DOMAIN u, u[i].kind = "If", NEW l \in DOMAIN u[i].inner
      PROVE  ~IsKey(u[i].inner[l])
    <2>1. i > m
        BY <1>1, <1>3, <1>7
    <2>2. i + c \in DOMAIN steps /\ u[i] = steps[i + c]
        BY <1>1, <2>1
    <2> QED BY <1>7, <2>2 DEF OneKey
<1>8. \A j \in DOMAIN steps : IsKey(steps[j]) => j - c \in DOMAIN u /\ IsKey(u[j - c])
    BY <1>1 DEF IsKey
<1>9. OneKey(u) /\ (HasKey(u) <=> HasKey(steps))
    BY <1>5, <1>6, <1>7, <1>8 DEF OneKey, HasKey
<1> QED BY <1>9 DEF u

\* ... nor does it take a condition to the front of what is asked for first.
LEMMA UnfoldFirst ==
    ASSUME NEW steps \in Seq(Steps), EndsInDone(steps), NEW known,
           NEW ask, AskedFirst(steps, ask)
    PROVE  AskedFirst(Unfold(steps, known), ask)
<1> DEFINE u == Unfold(steps, known)
<1>0. PICK m \in Nat, c \in Int : Shifted(steps, u, m, c)
    BY UnfoldSteps
<1>2. u \in Seq(Steps)
    BY UnfoldKeepsDone
<1> HIDE DEF u
<1>1. /\ \A i \in DOMAIN u : i > m => i + c \in DOMAIN steps /\ u[i] = steps[i + c]
      /\ \A i \in DOMAIN u : i <= m =>
             /\ u[i].kind # "If"
             /\ \E j \in DOMAIN steps :
                   steps[j].kind = "If" /\ \E l \in DOMAIN steps[j].inner : u[i] = steps[j].inner[l]
      /\ \A j \in DOMAIN steps : steps[j].kind # "If" =>
             j - c \in DOMAIN u /\ u[j - c] = steps[j]
    BY <1>0 DEF Shifted
<1>3. \A i \in DOMAIN u : i \in Nat
    BY <1>2
<1>4. \A i \in DOMAIN u : i <= m => u[i] # ask
    <2> SUFFICES ASSUME NEW i \in DOMAIN u, i <= m PROVE u[i] # ask
        OBVIOUS
    <2>1. PICK j \in DOMAIN steps :
              steps[j].kind = "If" /\ \E l \in DOMAIN steps[j].inner : u[i] = steps[j].inner[l]
        BY <1>1
    <2>2. PICK l \in DOMAIN steps[j].inner : u[i] = steps[j].inner[l]
        BY <2>1
    <2>3. steps[j].inner[l] # ask
        BY <2>1 DEF AskedFirst
    <2> QED BY <2>2, <2>3
<1>5. ASSUME NEW j \in DOMAIN u, u[j].kind = "If"
      PROVE  /\ \A i \in DOMAIN u : u[i] = ask => i < j
             /\ \A l \in DOMAIN u[j].inner : u[j].inner[l] # ask
    <2>1. j > m
        BY <1>1, <1>3, <1>5
    <2>2. j + c \in DOMAIN steps /\ u[j] = steps[j + c]
        BY <1>1, <2>1
    <2>3. ASSUME NEW i \in DOMAIN u, u[i] = ask PROVE i < j
        <3>1. i > m
            BY <1>3, <1>4, <2>3
        <3>2. i + c \in DOMAIN steps /\ steps[i + c] = ask
            BY <1>1, <2>3, <3>1
        <3>3. i + c < j + c
            BY <1>5, <2>2, <3>2 DEF AskedFirst
        <3> QED BY <1>3, <3>3
    <2>4. \A l \in DOMAIN u[j].inner : u[j].inner[l] # ask
        BY <1>5, <2>2 DEF AskedFirst
    <2> QED BY <2>3, <2>4
<1> QED BY <1>5 DEF AskedFirst, u

\* What is under no condition is left, and so is a condition, unless it is
\* resolved: its steps come first then, or the known lacks it.
LEMMA UnfoldHas ==
    ASSUME NEW steps \in Seq(Steps), EndsInDone(steps), NEW known,
           NEW step, Has(steps, step)
    PROVE  /\ step.kind # "If" => Has(Unfold(steps, known), step)
           /\ step.kind = "If" /\ step.inner # <<>> =>
                 \/ Has(Unfold(steps, known), step)
                 \/ /\ Unfold(steps, known)[1] = step.inner[1]
                    /\ \A l \in DOMAIN step.inner : Has(Unfold(steps, known), step.inner[l])
                 \/ step.cond \notin known /\ steps[1].kind = "If"
                    /\ (InfoFirst(steps) => ~Has(Unfold(steps, known), AskInfo))
<1> DEFINE n == Len(steps)
           u == Unfold(steps, known)
<1>1. /\ n \in Nat /\ DOMAIN steps = 1..n
      /\ u \in Seq(Steps) /\ DOMAIN u = 1..Len(u) /\ Len(u) \in Nat
    BY UnfoldKeepsDone, LenProperties
<1>2. PICK j \in 1..n : steps[j] = step
    BY <1>1 DEF Has
<1>0. PICK m \in Nat, c \in Int : Shifted(steps, u, m, c)
    BY UnfoldSteps
<1>3. ASSUME step.kind # "If" PROVE Has(u, step)
    <2> HIDE DEF u
    <2>1. j - c \in DOMAIN u /\ u[j - c] = steps[j]
        BY <1>0, <1>1, <1>2, <1>3 DEF Shifted
    <2> QED BY <1>2, <2>1 DEF Has
<1>4. PICK k \in 1..n : Unfolds(steps, known, k, u)
    BY UnfoldForm
<1>5. ASSUME step.kind = "If", step.inner # <<>>
      PROVE  \/ Has(u, step)
             \/ /\ u[1] = step.inner[1]
                /\ \A l \in DOMAIN step.inner : Has(u, step.inner[l])
             \/ step.cond \notin known /\ steps[1].kind = "If"
                /\ (InfoFirst(steps) => ~Has(u, AskInfo))
    <2> HIDE DEF u, n
    <2>1. CASE j < k
        <3>1. j \in 1..(k - 1) /\ 1 \in 1..(k - 1)
            BY <1>1, <2>1
        <3>2. step.cond \notin known /\ steps[1].kind = "If"
            BY <1>2, <1>4, <1>5, <3>1 DEF Unfolds
        <3>3. ASSUME InfoFirst(steps), Has(u, AskInfo) PROVE FALSE
            <4>1. InfoFirst(u)
                BY <3>3, UnfoldFirst DEF InfoFirst, u
            <4>2. 1 \in DOMAIN steps
                BY <1>1, <1>2
            <4>3. ~Has(steps, AskInfo)
                <5>1. \A i \in DOMAIN steps : steps[i] = AskInfo => i < 1
                    BY <3>2, <3>3, <4>2 DEF InfoFirst, AskedFirst
                <5> QED BY <1>1, <5>1 DEF Has
            <4>4. PICK i \in DOMAIN u : u[i] = AskInfo
                BY <3>3 DEF Has
            <4>5. \/ \E h \in DOMAIN steps : u[i] = steps[h]
                  \/ \E h \in DOMAIN steps : steps[h].kind = "If"
                        /\ \E l \in DOMAIN steps[h].inner : u[i] = steps[h].inner[l]
                <5>1. i <= m \/ i > m
                    BY <1>1
                <5> QED BY <1>0, <5>1 DEF Shifted
            <4> QED BY <3>3, <4>3, <4>4, <4>5 DEF Has, InfoFirst, AskedFirst
        <3> QED BY <3>2, <3>3
    <2>2. CASE j = k
        <3>1. /\ step.inner \in Seq(SendSteps)
              /\ \A i \in 1..(Len(step.inner) + n - k) :
                     u[i] = IF i <= Len(step.inner) THEN step.inner[i]
                            ELSE steps[i - Len(step.inner) + k]
            BY <1>2, <1>4, <1>5, <2>2 DEF Unfolds, n
        <3>2. Len(step.inner) \in Nat \ {0}
            BY <1>5, <3>1, EmptySeq, LenProperties
        <3> DEFINE first == Len(step.inner)
        <3>3. /\ 1 \in 1..(first + n - k) /\ 1 <= first
              /\ \A l \in 1..first : l \in 1..(first + n - k) /\ l <= first
            <4> HIDE DEF first
            <4>1. first \in Nat \ {0}
                BY <3>2 DEF first
            <4> QED BY <1>1, <4>1
        <3>4. DOMAIN step.inner = 1..first
            BY <3>1, LenProperties
        <3>5. DOMAIN u = 1..(first + n - k)
            BY <1>1, <1>2, <1>4, <1>5, <2>2 DEF Unfolds, n
        <3> HIDE DEF first
        <3>6. \A l \in DOMAIN step.inner : l \in DOMAIN u /\ u[l] = step.inner[l]
            BY <3>1, <3>3, <3>4, <3>5 DEF first
        <3>7. u[1] = step.inner[1]
            BY <3>1, <3>3 DEF first
        <3> QED BY <3>6, <3>7 DEF Has
    <2>3. CASE j > k
        <3>1. CASE steps[k].kind # "If"
            <4>1. /\ Len(u) = n - k + 1
                  /\ \A i \in 1..(n - k + 1) : u[i] = steps[i + k - 1]
                BY <1>4, <3>1 DEF Unfolds, n
            <4> DEFINE i == j - k + 1
            <4>2. i \in 1..(n - k + 1) /\ i + k - 1 = j
                BY <1>1, <2>3
            <4> HIDE DEF i
            <4>3. u[i] = step /\ i \in DOMAIN u
                BY <1>1, <1>2, <4>1, <4>2
            <4> QED BY <4>3 DEF Has
        <3>2. CASE steps[k].kind = "If"
            <4> DEFINE first == Len(steps[k].inner)
            <4>1. /\ steps[k].inner \in Seq(SendSteps) /\ Len(u) = first + n - k
                  /\ \A i \in 1..(first + n - k) :
                         u[i] = IF i <= first THEN steps[k].inner[i] ELSE steps[i - first + k]
                BY <1>4, <3>2 DEF Unfolds, n
            <4>2. first \in Nat
                BY <4>1, LenProperties
            <4> DEFINE i == j - k + first
            <4> HIDE DEF first
            <4>3. i \in 1..(first + n - k) /\ ~(i <= first) /\ i - first + k = j
                BY <1>1, <2>3, <4>2
            <4> HIDE DEF i
            <4>4. u[i] = step /\ i \in DOMAIN u
                BY <1>1, <1>2, <4>1, <4>3
            <4> QED BY <4>4 DEF Has
        <3> QED BY <3>1, <3>2
    <2> QED BY <1>1, <2>1, <2>2, <2>3
<1> QED BY <1>3, <1>5 DEF u

---------------------------------------------------------------------------
(* The tail of a task, and its end *)

LEMMA TailSteps ==
    ASSUME NEW steps \in Seq(Steps), steps # <<>>
    PROVE  /\ \A i \in DOMAIN Tail(steps) : i \in Nat /\ i + 1 \in DOMAIN steps
                  /\ i + 1 # 1 /\ Tail(steps)[i] = steps[i + 1]
           /\ \A i \in DOMAIN steps : i = 1 \/ (i - 1 \in DOMAIN Tail(steps)
                  /\ Tail(steps)[i - 1] = steps[i])
           /\ 1 \in DOMAIN steps /\ Head(steps) = steps[1]
<1> DEFINE n == Len(steps)
           rest == Tail(steps)
<1>1. /\ n \in Nat \ {0} /\ DOMAIN steps = 1..n /\ DOMAIN rest = 1..(n - 1)
      /\ \A i \in 1..(n - 1) : rest[i] = steps[i + 1]
      /\ Head(steps) = steps[1]
    BY EmptySeq, LenProperties, HeadTailProperties
<1> HIDE DEF n, rest
<1>2. ASSUME NEW i \in DOMAIN rest
      PROVE  i \in Nat /\ i + 1 \in DOMAIN steps /\ i + 1 # 1 /\ rest[i] = steps[i + 1]
    BY <1>1
<1>3. ASSUME NEW i \in DOMAIN steps, i # 1
      PROVE  i - 1 \in DOMAIN rest /\ rest[i - 1] = steps[i]
    <2>1. i - 1 \in DOMAIN rest /\ (i - 1) + 1 = i
        BY <1>1, <1>3
    <2> QED BY <1>2, <2>1
<1> QED BY <1>1, <1>2, <1>3 DEF rest

\* A task goes on without the key that is acknowledged.
LEMMA TailKeys ==
    ASSUME NEW steps \in Seq(Steps), steps # <<>>, OneKey(steps)
    PROVE  /\ OneKey(Tail(steps))
           /\ HasKey(Tail(steps)) <=> HasKey(steps) /\ ~IsKey(Head(steps))
<1> DEFINE rest == Tail(steps)
<1>1. /\ \A i \in DOMAIN rest : i \in Nat /\ i + 1 \in DOMAIN steps
             /\ i + 1 # 1 /\ rest[i] = steps[i + 1]
      /\ \A i \in DOMAIN steps : i = 1 \/ (i - 1 \in DOMAIN rest /\ rest[i - 1] = steps[i])
      /\ 1 \in DOMAIN steps /\ Head(steps) = steps[1]
    BY TailSteps
<1> HIDE DEF rest
<1>2. ASSUME NEW i \in DOMAIN rest, NEW j \in DOMAIN rest, IsKey(rest[i]), IsKey(rest[j])
      PROVE  i = j
    <2>1. i + 1 = j + 1
        BY <1>1, <1>2 DEF OneKey
    <2> QED BY <1>1, <2>1
<1>3. OneKey(rest)
    BY <1>1, <1>2 DEF OneKey
<1>4. ASSUME HasKey(rest) PROVE HasKey(steps) /\ ~IsKey(Head(steps))
    BY <1>1, <1>4 DEF HasKey, OneKey
<1>5. ASSUME HasKey(steps), ~IsKey(Head(steps)) PROVE HasKey(rest)
    <2>1. PICK i \in DOMAIN steps : IsKey(steps[i])
        BY <1>5 DEF HasKey
    <2>2. i # 1
        BY <1>1, <1>5, <2>1
    <2> QED BY <1>1, <2>1, <2>2 DEF HasKey
<1> QED BY <1>3, <1>4, <1>5 DEF rest

LEMMA TailFirst ==
    ASSUME NEW steps \in Seq(Steps), steps # <<>>,
           NEW ask, AskedFirst(steps, ask)
    PROVE  AskedFirst(Tail(steps), ask)
<1> DEFINE rest == Tail(steps)
<1>1. \A i \in DOMAIN rest : i \in Nat /\ i + 1 \in DOMAIN steps /\ rest[i] = steps[i + 1]
    BY TailSteps
<1> HIDE DEF rest
<1>2. ASSUME NEW j \in DOMAIN rest, rest[j].kind = "If"
      PROVE  /\ \A i \in DOMAIN rest : rest[i] = ask => i < j
             /\ \A l \in DOMAIN rest[j].inner : rest[j].inner[l] # ask
    <2>1. j + 1 \in DOMAIN steps /\ steps[j + 1].kind = "If"
        BY <1>1, <1>2
    <2>2. ASSUME NEW i \in DOMAIN rest, rest[i] = ask PROVE i < j
        <3>1. i + 1 < j + 1
            BY <1>1, <2>1, <2>2 DEF AskedFirst
        <3> QED BY <1>1, <3>1
    <2>3. \A l \in DOMAIN rest[j].inner : rest[j].inner[l] # ask
        BY <1>1, <2>1 DEF AskedFirst
    <2> QED BY <2>2, <2>3
<1> QED BY <1>2 DEF AskedFirst, rest

LEMMA TailHas ==
    ASSUME NEW steps \in Seq(Steps), steps # <<>>, NEW step, Has(steps, step)
    PROVE  step = Head(steps) \/ Has(Tail(steps), step)
<1> DEFINE rest == Tail(steps)
<1>1. /\ \A i \in DOMAIN steps : i = 1 \/ (i - 1 \in DOMAIN rest /\ rest[i - 1] = steps[i])
      /\ Head(steps) = steps[1]
    BY TailSteps
<1> HIDE DEF rest
<1>2. PICK i \in DOMAIN steps : steps[i] = step
    BY DEF Has
<1>3. i = 1 \/ Has(rest, step)
    BY <1>1, <1>2 DEF Has
<1> QED BY <1>1, <1>2, <1>3 DEF rest

\* Down to its Done a task has nothing else left.
LEMMA DoneAlone ==
    ASSUME NEW steps \in Seq(Steps), EndsInDone(steps), Head(steps).kind = "Done"
    PROVE  /\ ~HasKey(steps)
           /\ \A step : step.kind # "Done" => ~Has(steps, step)
<1>1. Len(steps) \in Nat /\ DOMAIN steps = 1..Len(steps) /\ 1 \in DOMAIN steps
      /\ Head(steps) = steps[1]
    BY LenProperties, TailSteps DEF EndsInDone
<1>2. Len(steps) = 1
    BY <1>1 DEF EndsInDone
<1>3. \A i \in DOMAIN steps : steps[i].kind = "Done"
    BY <1>1, <1>2
<1> QED BY <1>3 DEF HasKey, IsKey, Has

---------------------------------------------------------------------------
(* The keys and tables in the tasks that are built *)

\* A step commits the setting it writes.
Settles(step) ==
    step.kind = "Send" /\ step.commit # None =>
        step.body.op = "SetParam" /\ step.body.arg = step.commit
CommitsOwn(steps) ==
    \A i \in DOMAIN steps :
        /\ Settles(steps[i])
        /\ steps[i].kind = "If" => \A l \in DOMAIN steps[i].inner : Settles(steps[i].inner[l])

\* A step that neither sends a key nor asks for what comes first.
Minor(step) == ~IsKey(step) /\ step \notin {AskInfo, AskSupport} /\ Settles(step)
Ordinary(step) ==
    /\ Minor(step)
    /\ step.kind = "If" => \A l \in DOMAIN step.inner : Minor(step.inner[l])

LEMMA OrdinarySteps ==
    /\ \A body : body.op \notin {"Key", "GetProtocolInfo", "GetSupport"} => Ordinary(Send(body))
    /\ \A body, s : body.op = "SetParam" /\ body.arg = s => Ordinary(SendCommit(body, s))
    /\ \A wait : Ordinary(Await(wait))
    /\ \A f, inner : (\A l \in DOMAIN inner : Minor(inner[l])) => Ordinary(If(f, inner))
    /\ Ordinary(NoStep)
    /\ \A event : Ordinary(Done(event))
<1> USE DEF Ordinary, Minor, IsKey, AskInfo, AskSupport, Settles
<1>1. \A body : body.op \notin {"Key", "GetProtocolInfo", "GetSupport"} => Ordinary(Send(body))
    BY DEF Send, Get, Body
<1>2. \A body, s : body.op = "SetParam" /\ body.arg = s => Ordinary(SendCommit(body, s))
    BY DEF SendCommit, Send, Get, Body
<1>3. \A wait : Ordinary(Await(wait))
    BY DEF Await, Send
<1>4. \A f, inner : (\A l \in DOMAIN inner : Minor(inner[l])) => Ordinary(If(f, inner))
    BY DEF If, Send
<1>5. Ordinary(NoStep)
    BY DEF NoStep, If, Send
<1>6. \A event : Ordinary(Done(event))
    BY DEF Done, Send
<1> QED BY <1>1, <1>2, <1>3, <1>4, <1>5, <1>6

\* Ordinary steps have no key and no protocol info in them.
LEMMA OrdinaryTask ==
    ASSUME NEW steps, \A i \in DOMAIN steps : Ordinary(steps[i])
    PROVE  /\ OneKey(steps) /\ ~HasKey(steps) /\ InfoFirst(steps) /\ ~Has(steps, AskInfo)
           /\ SupportFirst(steps) /\ CommitsOwn(steps)
BY DEF Ordinary, Minor, OneKey, HasKey, InfoFirst, SupportFirst, AskedFirst, Has, CommitsOwn

LEMMA SyncOrdinary == \A i \in DOMAIN BuildSyncSteps : Ordinary(BuildSyncSteps[i])
<1> DEFINE list == If("PairedList", <<Send(Get("GetPairedList"))>>)
<1>1. BuildSyncSteps = <<list, Done("SyncOk")>>
    BY DEF BuildSyncSteps
<1>2. Ordinary(list) /\ Ordinary(Done("SyncOk"))
    <2>1. Ordinary(Send(Get("GetPairedList")))
        BY OrdinarySteps DEF Get, Body
    <2>2. \A l \in DOMAIN <<Send(Get("GetPairedList"))>> : Minor(<<Send(Get("GetPairedList"))>>[l])
        BY <2>1 DEF Ordinary
    <2> QED BY <2>2, OrdinarySteps
<1> HIDE DEF list
<1> QED BY <1>1, <1>2

\* Behind the tables the init handshake has nothing but ordinary steps.
LEMMA InitOrdinary ==
    /\ InitTables \in Seq(Steps) /\ InitRest \in Seq(Steps)
    /\ \A i \in DOMAIN InitRest : Ordinary(InitRest[i])
<1> DEFINE L == {step \in Steps : Ordinary(step)}
<1>1. /\ InitTables \in Seq(Steps) /\ InitGeneral \in Seq(Steps) /\ InitPlain \in Seq(Steps)
    <2>1. BodySteps \subseteq Steps
        BY DEF BodySteps, Steps
    <2> QED BY <2>1, InitParts, SeqMonotonic
<1>2. \A i \in DOMAIN InitGeneral : InitGeneral[i] \in L
    <2> SUFFICES ASSUME NEW i \in DOMAIN InitGeneral PROVE Ordinary(InitGeneral[i])
        BY <1>1, LenProperties, ElementOfSeq
    <2> DEFINE ask  == Send(Body("GetCapability", GeneralOrder[i], None))
               read == Send(Body("GetParam", GeneralOrder[i], None))
    <2>1. InitGeneral[i] = If(GeneralOrder[i], <<ask, read>>)
        BY DEF InitGeneral, Each
    <2>2. Ordinary(ask) /\ Ordinary(read)
        BY OrdinarySteps DEF Body
    <2> HIDE DEF ask, read
    <2>3. \A l \in DOMAIN <<ask, read>> : Minor(<<ask, read>>[l])
        BY <2>2 DEF Ordinary
    <2> QED BY <2>1, <2>3, OrdinarySteps
<1>3. \A i \in DOMAIN InitPlain : InitPlain[i] \in L
    <2> SUFFICES ASSUME NEW i \in DOMAIN InitPlain PROVE Ordinary(InitPlain[i])
        BY <1>1, LenProperties, ElementOfSeq
    <2>1. InitPlain[i] = Send(Body("GetParam", PlainOrder[i], None))
        BY DEF InitPlain, Each
    <2> QED BY <2>1, OrdinarySteps DEF Body
<1>4. \A i \in DOMAIN <<Done("InitOk")>> : <<Done("InitOk")>>[i] \in L
    BY StepTypes, OrdinarySteps DEF Steps
<1> HIDE DEF L
<1>5. /\ InitGeneral \o InitPlain \in Seq(Steps)
      /\ \A i \in DOMAIN (InitGeneral \o InitPlain) : (InitGeneral \o InitPlain)[i] \in L
    BY <1>1, <1>2, <1>3, EachOfBoth
<1>6. InitRest \in Seq(Steps) /\ \A i \in DOMAIN InitRest : InitRest[i] \in L
    BY <1>4, <1>5, EachOfBoth, InitParts DEF InitRest
<1> QED BY <1>1, <1>6 DEF L

\* The init handshake asks for the protocol info and for both tables, and
\* has no key.
LEMMA InitAsks ==
    /\ OneKey(BuildInitSteps) /\ ~HasKey(BuildInitSteps) /\ InfoFirst(BuildInitSteps)
    /\ SupportFirst(BuildInitSteps) /\ CommitsOwn(BuildInitSteps)
    /\ Has(BuildInitSteps, AskInfo) /\ Has(BuildInitSteps, Send(Get("GetSupport")))
    /\ Has(BuildInitSteps, TableTwoStep)
<1> DEFINE all == BuildInitSteps
           n   == Len(InitRest)
<1>1. /\ n \in Nat /\ DOMAIN all = 1..(6 + n) /\ DOMAIN InitRest = 1..n
      /\ \A i \in 1..6 : all[i] = InitTables[i]
      /\ \A i \in 7..(6 + n) : all[i] = InitRest[i - 6]
    <2>1. /\ all = InitTables \o InitRest /\ Len(InitTables) = 6
          /\ InitTables \in Seq(Steps) /\ InitRest \in Seq(Steps)
        BY InitParts, InitOrdinary
    <2>2. n \in Nat /\ DOMAIN InitRest = 1..n
        BY <2>1, LenProperties
    <2> HIDE DEF all, n
    <2>3. /\ DOMAIN all = 1..(6 + n)
          /\ \A i \in 1..(6 + n) : all[i] = IF i <= 6 THEN InitTables[i] ELSE InitRest[i - 6]
        <3>1. /\ all \in Seq(Steps) /\ Len(all) = Len(InitTables) + Len(InitRest)
              /\ \A i \in 1..(Len(InitTables) + Len(InitRest)) :
                     all[i] = IF i <= Len(InitTables) THEN InitTables[i]
                              ELSE InitRest[i - Len(InitTables)]
            BY <2>1, ConcatProperties
        <3>2. DOMAIN all = 1..Len(all)
            BY <3>1, LenProperties
        <3> QED BY <2>1, <3>1, <3>2 DEF n
    <2>4. (1..6) \subseteq 1..(6 + n) /\ \A i \in 7..(6 + n) : i \in 1..(6 + n) /\ ~(i <= 6)
        BY <2>2
    <2> QED BY <2>2, <2>3, <2>4
<1> HIDE DEF all, n
<1>2. all[1] = AskInfo
    BY <1>1, InitParts DEF AskInfo
<1>3. \A i \in 2..6 : i # 3 => Ordinary(all[i])
    <2>1. Ordinary(all[2]) /\ Ordinary(all[4])
        BY <1>1, InitParts, OrdinarySteps
    <2>3. Ordinary(all[5])
        <3> DEFINE ask  == Send(Get("GetSupport2"))
                   wait == Await("SupportFunction")
        <3>1. Minor(ask) /\ Minor(wait)
            BY OrdinarySteps DEF Get, Body, Ordinary
        <3>2. TableTwoStep = If("Table2", <<ask, wait>>)
            BY DEF TableTwoStep
        <3> HIDE DEF ask, wait
        <3>3. \A l \in DOMAIN <<ask, wait>> : Minor(<<ask, wait>>[l])
            BY <3>1
        <3>4. Ordinary(TableTwoStep)
            BY <3>2, <3>3, OrdinarySteps
        <3> QED BY <1>1, <3>4, InitParts
    <2>4. Ordinary(all[6])
        <3>1. Ordinary(Send(Get("GetPairedList")))
            BY OrdinarySteps DEF Get, Body
        <3>2. \A l \in DOMAIN <<Send(Get("GetPairedList"))>> : Minor(<<Send(Get("GetPairedList"))>>[l])
            BY <3>1 DEF Ordinary
        <3> QED BY <1>1, <3>2, InitParts, OrdinarySteps
    <2> QED BY <2>1, <2>3, <2>4
<1>4. \A i \in DOMAIN all : i \in Nat \ {0} /\ (i \notin {1, 3} => Ordinary(all[i]))
    <2> SUFFICES ASSUME NEW i \in DOMAIN all, i \notin {1, 3} PROVE Ordinary(all[i])
        BY <1>1
    <2>1. i \in 2..6 \/ (i \in 7..(6 + n) /\ i - 6 \in 1..n)
        BY <1>1
    <2> QED BY <1>1, <1>3, <2>1, InitOrdinary
<1>5. /\ all[3] = AskSupport /\ all[2].kind = "Await"
      /\ \A i \in {1, 3} : ~IsKey(all[i]) /\ all[i].kind # "If" /\ Settles(all[i])
      /\ AskInfo # AskSupport
    <2>1. all[3] = AskSupport /\ all[2] = Await("ProtocolInfo")
        BY <1>1, InitParts DEF AskSupport
    <2> QED BY <1>2, <2>1 DEF IsKey, AskInfo, AskSupport, Send, Get, Body, Settles, Await
<1>6. /\ OneKey(all) /\ ~HasKey(all) /\ InfoFirst(all)
      /\ SupportFirst(all) /\ CommitsOwn(all)
    <2>1. OneKey(all) /\ ~HasKey(all) /\ CommitsOwn(all)
        BY <1>4, <1>5 DEF Ordinary, Minor, OneKey, HasKey, CommitsOwn
    <2>2. \A j \in DOMAIN all : all[j].kind = "If" => j \notin {1, 2, 3}
        BY <1>5
    <2>3. \A j \in DOMAIN all : all[j].kind = "If" => 1 < j /\ 3 < j
        BY <1>4, <2>2
    <2>4. /\ \A i \in DOMAIN all : all[i] = AskInfo => i = 1
          /\ \A i \in DOMAIN all : all[i] = AskSupport => i = 3
        BY <1>2, <1>4, <1>5 DEF Ordinary, Minor
    <2>5. ASSUME NEW j \in DOMAIN all, all[j].kind = "If", NEW l \in DOMAIN all[j].inner
          PROVE  all[j].inner[l] \notin {AskInfo, AskSupport}
        BY <1>4, <2>2, <2>5 DEF Ordinary, Minor
    <2>6. ASSUME NEW j \in DOMAIN all, all[j].kind = "If", NEW i \in DOMAIN all
          PROVE  all[i] \in {AskInfo, AskSupport} => i < j
        BY <2>3, <2>4, <2>6
    <2>7. \A ask \in {AskInfo, AskSupport} : AskedFirst(all, ask)
        BY <2>5, <2>6 DEF AskedFirst
    <2> QED BY <2>1, <2>7 DEF InfoFirst, SupportFirst
<1>7. 1 \in DOMAIN all /\ 3 \in DOMAIN all /\ 5 \in DOMAIN all
    BY <1>1
<1>8. all[3] = Send(Get("GetSupport")) /\ all[5] = TableTwoStep
    BY <1>1, InitParts
<1> QED BY <1>2, <1>6, <1>7, <1>8 DEF all, Has

\* A commit has the key that was pressed, if one was.
LEMMA CommitKeys ==
    ASSUME EngineTypes
    PROVE  /\ OneKey(BuildCommitSteps) /\ InfoFirst(BuildCommitSteps)
           /\ SupportFirst(BuildCommitSteps) /\ CommitsOwn(BuildCommitSteps)
           /\ HasKey(BuildCommitSteps) <=> key # KeyOff
<1> DEFINE L == {step \in Steps : Ordinary(step)}
<1>1. /\ \A i \in DOMAIN PlainPart : PlainPart[i] \in L
      /\ \A i \in DOMAIN OtherPart : OtherPart[i] \in L
    <2>1. /\ \A i \in DOMAIN PlainPart : PlainPart[i] \in Steps
          /\ \A i \in DOMAIN OtherPart : OtherPart[i] \in Steps
        BY CommitParts
    <2>2. /\ Ordinary(NoStep)
          /\ \A body, s : body.op = "SetParam" /\ body.arg = s => Ordinary(SendCommit(body, s))
        BY OrdinarySteps
    <2>3. ASSUME NEW step,
                 \/ step = NoStep
                 \/ \E body, s : /\ body.op = "SetParam" /\ body.arg = s
                               /\ step = SendCommit(body, s)
          PROVE  Ordinary(step)
        BY <2>2, <2>3
    <2>4. \A i \in DOMAIN PlainPart : Ordinary(PlainPart[i])
        BY <2>3, CommitParts
    <2>5. \A i \in DOMAIN OtherPart : Ordinary(OtherPart[i])
        BY <2>3, CommitParts
    <2> QED BY <2>1, <2>4, <2>5
<1>2. \A i \in DOMAIN <<Done("CommitOk")>> : <<Done("CommitOk")>>[i] \in L
    BY StepTypes, OrdinarySteps DEF Steps
<1> HIDE DEF L
<1>3. CommitRest \in Seq(Steps) /\ \A i \in DOMAIN CommitRest : CommitRest[i] \in L
    BY <1>1, <1>2, CommitParts, EachOfBoth DEF CommitRest
<1> DEFINE all == BuildCommitSteps
           n   == Len(PlainPart)
           r   == Len(CommitRest)
<1>4. /\ n \in Nat /\ DOMAIN PlainPart = 1..n /\ r \in Nat /\ DOMAIN CommitRest = 1..r
      /\ DOMAIN all = 1..(n + 1 + r)
      /\ \A i \in 1..n : all[i] = PlainPart[i]
      /\ all[n + 1] = KeyPart
      /\ \A i \in (n + 2)..(n + 1 + r) : all[i] = CommitRest[i - (n + 1)]
    <2> DEFINE front == PlainPart \o <<KeyPart>>
    <2>1. /\ PlainPart \in Seq(Steps) /\ KeyPart \in Steps /\ all = front \o CommitRest
        BY CommitParts
    <2>2. n \in Nat /\ DOMAIN PlainPart = 1..n /\ r \in Nat /\ DOMAIN CommitRest = 1..r
        BY <1>3, <2>1, LenProperties
    <2>3. front = Append(PlainPart, KeyPart)
        BY <2>1, AppendIsConcat
    <2> HIDE DEF all, n, r, front
    <2>4. /\ front \in Seq(Steps) /\ Len(front) = n + 1
          /\ \A i \in 1..n : front[i] = PlainPart[i]
          /\ front[n + 1] = KeyPart
        BY <2>1, <2>3, AppendProperties DEF n
    <2>5. /\ DOMAIN all = 1..(n + 1 + r)
          /\ \A i \in 1..(n + 1 + r) : all[i] = IF i <= n + 1 THEN front[i] ELSE CommitRest[i - (n + 1)]
        <3>1. /\ all \in Seq(Steps) /\ Len(all) = Len(front) + Len(CommitRest)
              /\ \A i \in 1..(Len(front) + Len(CommitRest)) :
                     all[i] = IF i <= Len(front) THEN front[i] ELSE CommitRest[i - Len(front)]
            BY <1>3, <2>1, <2>4, ConcatProperties
        <3>2. DOMAIN all = 1..Len(all)
            BY <3>1, LenProperties
        <3> QED BY <2>4, <3>1, <3>2 DEF r
    <2>6. /\ \A i \in 1..n : i \in 1..(n + 1 + r) /\ i <= n + 1
          /\ n + 1 \in 1..(n + 1 + r)
          /\ \A i \in (n + 2)..(n + 1 + r) : i \in 1..(n + 1 + r) /\ ~(i <= n + 1)
        BY <2>2
    <2> QED BY <2>2, <2>4, <2>5, <2>6
<1> HIDE DEF all, n, r
<1>5. \A i \in DOMAIN all : i # n + 1 => Ordinary(all[i])
    <2> SUFFICES ASSUME NEW i \in DOMAIN all, i # n + 1 PROVE Ordinary(all[i])
        OBVIOUS
    <2>1. i \in 1..n \/ (i \in (n + 2)..(n + 1 + r) /\ i - (n + 1) \in 1..r)
        BY <1>4
    <2>2. all[i] \in L
        BY <1>1, <1>3, <1>4, <2>1
    <2> QED BY <2>2 DEF L
<1>6. n + 1 \in DOMAIN all
    BY <1>4
<1>7. CASE key = KeyOff
    <2>1. Ordinary(all[n + 1])
        BY <1>4, <1>7, OrdinarySteps DEF KeyPart
    <2>2. \A i \in DOMAIN all : Ordinary(all[i])
        BY <1>5, <2>1
    <2> QED BY <1>7, <2>2, OrdinaryTask DEF all
<1>8. CASE key # KeyOff
    <2>1. all[n + 1] = Send(Body("Key", None, key))
        BY <1>4, <1>8 DEF KeyPart
    <2>2. /\ IsKey(all[n + 1]) /\ all[n + 1] \notin {AskInfo, AskSupport}
          /\ all[n + 1].kind # "If" /\ Settles(all[n + 1])
        BY <2>1 DEF IsKey, AskInfo, AskSupport, Send, Get, Body, Settles
    <2>3. /\ OneKey(all) /\ InfoFirst(all) /\ HasKey(all)
          /\ SupportFirst(all) /\ CommitsOwn(all)
        BY <1>5, <1>6, <2>2 DEF Ordinary, Minor, OneKey, HasKey, InfoFirst, SupportFirst,
                                AskedFirst, CommitsOwn
    <2> QED BY <1>8, <2>3 DEF all
<1> QED BY <1>7, <1>8

---------------------------------------------------------------------------
(* What becomes of a key *)

LEMMA StartKeys ==
    ASSUME NEW steps \in Seq(Steps), EndsInDone(steps), OneKey(steps),
           NEW known, StartTask(steps, known)
    PROVE  OneKey(task'.steps) /\ (KeyLeft' <=> HasKey(steps))
BY StartGoesOn, UnfoldKeys DEF GoesOn, KeyLeft

\* A task that gets what it awaits has its key left, unless the ACK of the
\* key is what it awaited.
LEMMA AdvanceKeys ==
    ASSUME EngineTypes, TaskInv, OneKey(task.steps),
           NEW wait \in Waits, task.wait = wait, NEW buf, NEW known,
           AdvanceOn(wait, buf, known)
    PROVE  /\ task'.running => OneKey(task'.steps)
           /\ KeyLeft' <=> HasKey(task.steps) /\ ~IsKey(Head(task.steps))
<1> DEFINE rest == Tail(task.steps)
           u    == Unfold(rest, known)
<1>1. /\ task.steps \in Seq(Steps) /\ task.steps # <<>>
      /\ rest \in Seq(Steps) /\ EndsInDone(rest)
      /\ \/ GoesOn(u, task.last, buf)
         \/ Head(u).kind = "Done" /\ task' = NoTask
    BY AdvanceGoesOn DEF EndsInDone
<1>2. OneKey(rest) /\ (HasKey(rest) <=> HasKey(task.steps) /\ ~IsKey(Head(task.steps)))
    BY <1>1, TailKeys
<1>3. /\ OneKey(u) /\ (HasKey(u) <=> HasKey(rest))
      /\ u \in Seq(Steps) /\ EndsInDone(u)
    BY <1>1, <1>2, UnfoldKeys, UnfoldKeepsDone
<1> HIDE DEF rest, u
<1>4. CASE GoesOn(u, task.last, buf)
    BY <1>2, <1>3, <1>4 DEF GoesOn, KeyLeft
<1>5. CASE Head(u).kind = "Done" /\ task' = NoTask
    <2>1. ~HasKey(u)
        BY <1>3, <1>5, DoneAlone
    <2> QED BY <1>2, <1>3, <1>5, <2>1, NoTaskType DEF KeyLeft
<1> QED BY <1>1, <1>4, <1>5 DEF rest, u

\* An answer that is no ACK leaves the ACKs under way as they are.
LEMMA AcksStay ==
    ASSUME WireTypes, recvBuf # <<>>, recvBuf' = Tail(recvBuf), fromDevice' = fromDevice,
           Head(recvBuf) # AckFrame
    PROVE  At(Replies', Acks) = {} <=> At(Replies, Acks) = {}
<1>1. /\ Replies \in Seq(Incomings) /\ Replies # <<>> /\ Head(Replies) \notin Acks
      /\ Tail(recvBuf) \o fromDevice = Tail(Replies)
    BY FirstReply DEF Acks
<1>2. Replies' = Tail(Replies)
    BY <1>1 DEF Replies
<1> HIDE DEF Replies
<1>3. /\ \A i \in At(Tail(Replies), Acks) : i + 1 \in At(Replies, Acks)
      /\ \A i \in At(Replies, Acks) : i # 1 => i - 1 \in At(Tail(Replies), Acks)
      /\ 1 \notin At(Replies, Acks)
    BY <1>1, AtTail
<1> QED BY <1>2, <1>3

\* Steps that leave the keys as they were.
LEMMA SameKeys ==
    ASSUME KeyInv, UNCHANGED <<built, ran>>, spent'.missed = spent.missed,
           Undisturbed' => Undisturbed, KeyDue' <=> KeyDue,
           task'.running => OneKey(task'.steps)
    PROVE  KeyInv'
BY DEF KeyInv, KeyCount

LEMMA QuietTask ==
    ASSUME KeyInv, UNCHANGED <<built, ran>>, spent'.missed = spent.missed,
           Undisturbed' => Undisturbed,
           task'.running = task.running, task'.steps = task.steps,
           task'.wait = task.wait, task'.last = task.last,
           At(Replies', Acks) = {} <=> At(Replies, Acks) = {}
    PROVE  KeyInv'
<1>1. KeyDue' <=> KeyDue
    BY DEF KeyDue, KeyLeft, KeyTaken
<1> QED BY <1>1, SameKeys DEF KeyInv

\* No stage of poll() takes an event back, nor does it mend a connection.
LEMMA EngineKeepsEvents ==
    ASSUME EngineStep
    PROVE  (Undisturbed' => Undisturbed) /\ UNCHANGED <<devFns, spent, built, ran>>
<1>1. ASSUME NEW event, Emit(event) PROVE pending \subseteq pending'
    BY <1>1 DEF Emit
<1>2. ASSUME NEW stage, StayQuiet(stage) PROVE pending \subseteq pending'
    BY <1>2 DEF StayQuiet
<1>3. ASSUME NEW wait, NEW buf, NEW known, AdvanceOn(wait, buf, known)
      PROVE  pending \subseteq pending'
    BY <1>1, <1>2, <1>3 DEF AdvanceOn
<1>4. pending \subseteq pending'
    BY <1>1, <1>2, <1>3
       DEF EngineStep, Poll, FlushSendBuf, ReadFrames, TransportError, DeadlineOpen,
           Retransmit, GiveUp, NoFrame, HandleAck, HandleProtocolInfo,
           HandleSupportFunction, HandleCapability, HandleParam, HandlePairedList,
           StepCompleted
<1>5. link' = link
    BY DEF EngineStep, Poll, FlushSendBuf, ReadFrames, TransportError, wireVars
<1> QED BY <1>4, <1>5 DEF EngineStep, deviceVars, Undisturbed

\* The engine takes an ACK: of the key, which is then taken care of, or not.
LEMMA AckKeys ==
    ASSUME IInv, WaitInv, KeyInv, HandleAck, UNCHANGED wireVars,
           UNCHANGED <<spent, built, ran>>, Undisturbed' => Undisturbed
    PROVE  KeyInv'
<1>1. /\ EngineTypes /\ TaskInv /\ WireTypes /\ TaskShape
      /\ recvBuf # <<>> /\ recvBuf' = Tail(recvBuf) /\ fromDevice' = fromDevice
      /\ Head(recvBuf).type = "Ack" /\ AdvanceOn("Ack", sendBuf, support)
    BY DEF IInv, WaitInv, HandleAck, wireVars
<1>2. /\ Replies # <<>> /\ Replies \in Seq(Incomings)
      /\ Head(Replies) = AckFrame /\ Replies' = Tail(Replies)
    <2>1. /\ Replies # <<>> /\ Replies \in Seq(Incomings) /\ Head(Replies) = Head(recvBuf)
          /\ Tail(recvBuf) \o fromDevice = Tail(Replies) /\ Head(recvBuf) \in Incomings
        BY <1>1, FirstReply
    <2>2. Head(recvBuf) = AckFrame
        BY <1>1, <2>1 DEF Incomings, AckFrame
    <2> QED BY <1>1, <2>1, <2>2 DEF Replies
<1>3. At(Replies, Acks) # {}
    BY <1>2, AtTail DEF Acks
<1>4. CASE task.wait = "Ack"
    <2>1. task.running /\ OneKey(task.steps)
        BY <1>1, <1>4 DEF TaskInv, KeyInv
    <2>2. /\ task'.running => OneKey(task'.steps)
          /\ KeyLeft' <=> HasKey(task.steps) /\ ~IsKey(Head(task.steps))
        BY <1>1, <1>4, <2>1, AdvanceKeys DEF Waits
    <2>3. KeyTaken <=> IsKey(Head(task.steps))
        BY <1>1, <1>3, <1>4, <2>1 DEF TaskShape, AtStep, KeyTaken, IsKey
    <2>4. ASSUME Undisturbed PROVE ~KeyTaken'
        <3>1. \A i, j \in At(Replies, Acks) : i = j
            BY <2>4 DEF WaitInv, UnderWay, OneUnderWay, Undisturbed
        <3>2. At(Tail(Replies), Acks) = {}
            <4> HIDE DEF Replies
            <4> QED BY <1>2, <3>1, AtTaken DEF Acks
        <3> QED BY <1>2, <3>2 DEF KeyTaken
    <2>5. CASE Undisturbed
        <3>1. KeyDue' <=> KeyDue
            BY <2>1, <2>2, <2>3, <2>4, <2>5 DEF KeyDue, KeyLeft
        <3> QED BY <2>2, <3>1, SameKeys
    <2>6. CASE ~Undisturbed
        BY <2>2, <2>6 DEF KeyInv
    <2> QED BY <2>5, <2>6
<1>5. CASE task.wait # "Ack"
    <2>1. task' = task
        BY <1>1, <1>5 DEF AdvanceOn
    <2>2. KeyDue' <=> KeyDue
        BY <1>5, <2>1 DEF KeyDue, KeyLeft, KeyTaken
    <2> QED BY <2>1, <2>2, SameKeys DEF KeyInv
<1> QED BY <1>4, <1>5

\* The engine takes a table: no ACK is under way then, nor was the key sent.
LEMMA TableKeys ==
    ASSUME IInv, WaitInv, KeyInv, NEW wait \in {"ProtocolInfo", "SupportFunction"}, NEW known,
           recvBuf # <<>>, Head(recvBuf) \in Tables, recvBuf' = Tail(recvBuf),
           AdvanceOn(wait, Acked, known), UNCHANGED wireVars,
           UNCHANGED <<spent, built, ran>>, Undisturbed' => Undisturbed
    PROVE  KeyInv'
<1>1. EngineTypes /\ TaskInv /\ WireTypes /\ TaskShape /\ fromDevice' = fromDevice
    BY DEF IInv, WaitInv, wireVars
<1>2. Head(recvBuf) # AckFrame
    BY DEF Tables, AckFrame
<1>3. At(Replies', Acks) = {} <=> At(Replies, Acks) = {}
    BY <1>1, <1>2, AcksStay
<1>4. CASE task.wait = wait
    <2>1. task.running /\ OneKey(task.steps) /\ wait \in Waits /\ wait \notin {"None", "Ack"}
        BY <1>1, <1>4 DEF TaskInv, KeyInv, Waits
    <2>2. /\ task'.running => OneKey(task'.steps)
          /\ KeyLeft' <=> HasKey(task.steps) /\ ~IsKey(Head(task.steps))
        BY <1>1, <1>4, <2>1, AdvanceKeys
    <2>3. ~IsKey(Head(task.steps)) /\ ~KeyTaken
        BY <1>1, <1>4, <2>1 DEF TaskShape, AtStep, KeyTaken, IsKey, Await
    <2>4. ASSUME Undisturbed PROVE At(Replies, Acks) = {}
        <3>1. 1 \in At(Replies, Tables)
            BY <1>1, FirstReply, AtTail
        <3>2. \A i \in At(Replies, Acks) : i < 1
            BY <2>4, <3>1 DEF WaitInv, UnderWay, OneUnderWay, Undisturbed
        <3>3. At(Replies, Acks) \subseteq Nat \ {0}
            BY <1>1, FirstReply, AtTail
        <3>4. ASSUME NEW i \in At(Replies, Acks) PROVE FALSE
            <4>1. i < 1 /\ i \in Nat \ {0}
                BY <3>2, <3>3
            <4> QED BY <4>1
        <3> QED BY <3>4
    <2>5. CASE Undisturbed
        <3>1. KeyDue' <=> KeyDue
            BY <1>3, <2>1, <2>2, <2>3, <2>4, <2>5 DEF KeyDue, KeyLeft, KeyTaken
        <3> QED BY <2>2, <3>1, SameKeys
    <2>6. CASE ~Undisturbed
        BY <2>2, <2>6 DEF KeyInv
    <2> QED BY <2>5, <2>6
<1>5. CASE task.wait # wait
    <2>1. task' = task
        BY <1>5 DEF AdvanceOn
    <2> QED BY <1>3, <2>1, QuietTask
<1> QED BY <1>4, <1>5

\* A stage of poll().
LEMMA EngineStepKeys ==
    ASSUME IInv, WaitInv, KeyInv, EngineStep
    PROVE  KeyInv'
<1>1. /\ WireTypes /\ EngineTypes /\ TaskInv /\ task \in Tasks
      /\ recvBuf \in Seq(Incomings) /\ fromDevice \in Seq(Incomings)
    BY DEF IInv, EngineTypes, WireTypes
<1>2. (Undisturbed' => Undisturbed) /\ UNCHANGED <<devFns, spent, built, ran>>
    BY EngineKeepsEvents
<1>3. ASSUME task' = task, At(Replies', Acks) = {} <=> At(Replies, Acks) = {} PROVE KeyInv'
    BY <1>2, <1>3, QuietTask
<1>4. ASSUME UNCHANGED <<task, recvBuf, fromDevice>> PROVE KeyInv'
    BY <1>3, <1>4 DEF Replies
<1>5. CASE FlushSendBuf
    BY <1>4, <1>5 DEF FlushSendBuf
<1>6. CASE ReadFrames
    <2>1. recvBuf \o fromDevice \in Seq(Incomings)
        BY <1>1, ConcatProperties
    <2>2. Replies' = Replies
        BY <1>6, <2>1, ConcatEmptySeq DEF ReadFrames, Replies
    <2>3. task' = task
        BY <1>6 DEF ReadFrames
    <2> QED BY <1>3, <2>2, <2>3
<1>7. CASE TransportError
    BY <1>4, <1>7 DEF TransportError, wireVars
<1>8. CASE (DeadlineOpen \/ NoFrame) /\ UNCHANGED wireVars
    BY <1>4, <1>8 DEF DeadlineOpen, NoFrame, wireVars
<1>9. CASE Retransmit /\ UNCHANGED wireVars
    <2>1. task' = Rearmed(task) /\ UNCHANGED <<recvBuf, fromDevice>>
        BY <1>9 DEF Retransmit, wireVars
    <2>2. /\ task'.running = task.running /\ task'.steps = task.steps
          /\ task'.wait = task.wait /\ task'.last = task.last
        BY <1>1, <2>1 DEF Rearmed, Tasks
    <2>3. Replies' = Replies
        BY <2>1 DEF Replies
    <2> QED BY <1>2, <2>2, <2>3, QuietTask
<1>10. CASE GiveUp /\ UNCHANGED wireVars
    <2>1. "Fatal" \in pending' /\ task' = NoTask
        BY <1>10 DEF GiveUp, Emit
    <2> QED BY <2>1, NoTaskType DEF KeyInv, Undisturbed
<1>11. CASE StepCompleted /\ UNCHANGED wireVars
    <2>1. CASE AtDone(task)
        <3>1. task' = NoTask
            BY <1>11, <2>1 DEF StepCompleted
        <3>2. task.running /\ ~HasKey(task.steps)
            BY <1>1, <2>1, DoneAlone DEF AtDone, TaskInv, Proceeding, Tasks
        <3>3. (KeyDue' <=> KeyDue) /\ ~task'.running
            BY <3>1, <3>2, NoTaskType DEF KeyDue, KeyLeft
        <3> QED BY <1>2, <3>3, SameKeys
    <2>2. CASE ~AtDone(task)
        BY <1>4, <1>11, <2>2 DEF StepCompleted, wireVars
    <2> QED BY <2>1, <2>2
<1>12. CASE HandleAck /\ UNCHANGED wireVars
    BY <1>2, <1>12, AckKeys
<1>13. ASSUME NEW op \in TableReports, Incoming(op)
       PROVE  recvBuf # <<>> /\ Head(recvBuf) \in Tables /\ recvBuf' = Tail(recvBuf)
    BY <1>1, <1>13, FirstReply DEF Incoming, Tables
<1>14. CASE HandleProtocolInfo /\ UNCHANGED wireVars
    <2>1. recvBuf # <<>> /\ Head(recvBuf) \in Tables /\ recvBuf' = Tail(recvBuf)
        BY <1>13, <1>14 DEF HandleProtocolInfo, TableReports
    <2>2. AdvanceOn("ProtocolInfo", Acked, support')
        BY <1>14 DEF HandleProtocolInfo
    <2> QED BY <1>2, <1>14, <2>1, <2>2, TableKeys
<1>15. CASE HandleSupportFunction /\ UNCHANGED wireVars
    <2>1. recvBuf # <<>> /\ Head(recvBuf) \in Tables /\ recvBuf' = Tail(recvBuf)
        BY <1>13, <1>15 DEF HandleSupportFunction, TableReports
    <2>2. AdvanceOn("SupportFunction", Acked, support')
        BY <1>15 DEF HandleSupportFunction
    <2> QED BY <1>2, <1>15, <2>1, <2>2, TableKeys
<1>16. CASE (HandleCapability \/ HandleParam \/ HandlePairedList) /\ UNCHANGED wireVars
    <2>1. /\ recvBuf # <<>> /\ recvBuf' = Tail(recvBuf) /\ task' = task
          /\ fromDevice' = fromDevice /\ Head(recvBuf).type = "Data"
        BY <1>16 DEF HandleCapability, HandleParam, HandlePairedList, Incoming, wireVars
    <2>2. Head(recvBuf) # AckFrame
        BY <2>1 DEF AckFrame
    <2> QED BY <1>1, <1>3, <2>1, <2>2, AcksStay
<1> QED
    BY <1>5, <1>6, <1>7, <1>8, <1>9, <1>10, <1>11, <1>12, <1>14, <1>15, <1>16
       DEF EngineStep, Poll

\* A task starts: with the key that was pressed, or without one.
LEMMA StartKeeps ==
    ASSUME IInv, WaitInv, KeyInv, IsReady,
           NEW steps \in Seq(Steps), EndsInDone(steps), OneKey(steps),
           NEW known, StartTask(steps, known), UNCHANGED <<recvBuf, fromDevice, ran, spent>>,
           Undisturbed' => Undisturbed,
           built' = IF HasKey(steps) THEN built + 1 ELSE built
    PROVE  KeyInv'
<1>1. OneKey(task'.steps) /\ (KeyLeft' <=> HasKey(steps))
    BY StartKeys
<1>2. task.wait = "None" /\ ~KeyDue /\ built \in Nat /\ ran \in Nat
    BY DEF IInv, TaskInv, IsReady, KeyDue, KeyLeft, DeviceTypes
<1>3. ASSUME Undisturbed PROVE ~KeyTaken'
    <2>1. Idle(Line, Replies)
        BY <1>2, <1>3, NoneUnderWay DEF WaitInv, UnderWay, Undisturbed
    <2>2. Replies' = Replies
        BY DEF Replies
    <2> QED BY <2>1, <2>2 DEF Idle, KeyTaken
<1>4. ASSUME Undisturbed' PROVE KeyCount'
    <2>1. KeyDue' <=> HasKey(steps)
        BY <1>1, <1>3, <1>4 DEF KeyDue
    <2>2. built <= ran /\ (spent.missed = 0 => ran <= built)
        BY <1>2, <1>4 DEF KeyInv, KeyCount
    <2>3. /\ \/ built' = built + 1 /\ KeyDue'
             \/ built' = built /\ ~KeyDue'
          /\ ran' = ran /\ spent' = spent
        BY <2>1
    <2> QED BY <1>2, <2>2, <2>3 DEF KeyCount
<1> QED BY <1>1, <1>4 DEF KeyInv

\* What the headphones send comes last.
LEMMA RepliesMore ==
    ASSUME WireTypes, recvBuf' = recvBuf, NEW answer \in Seq(Incomings)
    PROVE  /\ Replies \in Seq(Incomings)
           /\ fromDevice' = fromDevice \o answer => Replies' = Replies \o answer
           /\ fromDevice' = (fromDevice \o <<AckFrame>>) \o answer =>
                  Replies' = (Replies \o <<AckFrame>>) \o answer
<1>1. /\ recvBuf \in Seq(Incomings) /\ fromDevice \in Seq(Incomings)
      /\ <<AckFrame>> \in Seq(Incomings)
    BY OneElement DEF WireTypes, Incomings
<1>2. Replies \in Seq(Incomings) /\ fromDevice \o <<AckFrame>> \in Seq(Incomings)
    BY <1>1, ConcatProperties DEF Replies
<1>3. recvBuf \o (fromDevice \o answer) = (recvBuf \o fromDevice) \o answer
    <2>1. Regroups(recvBuf, fromDevice, answer)
        BY <1>1, Regrouped, Zenon
    <2> QED BY <2>1, Zenon DEF Regroups
<1>4. recvBuf \o ((fromDevice \o <<AckFrame>>) \o answer)
          = (recvBuf \o (fromDevice \o <<AckFrame>>)) \o answer
    <2> DEFINE r == recvBuf  acked == fromDevice \o <<AckFrame>>
    <2>1. r \in Seq(Incomings) /\ acked \in Seq(Incomings)
        BY <1>1, <1>2
    <2> HIDE DEF r, acked
    <2>2. r \o (acked \o answer) = (r \o acked) \o answer
        <3>1. Regroups(r, acked, answer)
            BY <2>1, Regrouped, Zenon
        <3> QED BY <3>1, Zenon DEF Regroups
    <2> QED BY <2>2 DEF r, acked
<1>5. recvBuf \o (fromDevice \o <<AckFrame>>) = (recvBuf \o fromDevice) \o <<AckFrame>>
    <2>1. Regroups(recvBuf, fromDevice, <<AckFrame>>)
        BY <1>1, Regrouped, Zenon
    <2> QED BY <2>1, Zenon DEF Regroups
<1> QED BY <1>2, <1>3, <1>4, <1>5 DEF Replies

\* A report of a value is no ACK and no table.
LEMMA ReportMore ==
    ASSUME WireTypes, recvBuf' = recvBuf, NEW s \in Settings, NEW v \in Values,
           fromDevice' = fromDevice \o Report("RetParam", s, v), NEW kind, kind \in {Acks, Tables}
    PROVE  /\ At(Replies', kind) = At(Replies, kind)
           /\ \A i \in At(Replies, kind) : Replies'[i] = Replies[i]
<1> DEFINE told == [type |-> "Data", body |-> Body("RetParam", s, v)]
<1>1. told \in Incomings /\ told \notin kind
    BY DEF Incomings, Reports, Body, Acks, AckFrame, Tables, TableReports
<1>2. Report("RetParam", s, v) = <<told>> /\ <<told>> \in Seq(Incomings)
    BY <1>1, OneElement DEF Report
<1> HIDE DEF told
<1>3. Replies \in Seq(Incomings) /\ Replies' = Replies \o <<told>>
    BY <1>2, RepliesMore
<1>4. Replies' = Append(Replies, told)
    <2>1. Append(Replies, told) = Replies \o <<told>>
        BY <1>1, <1>3, AppendIsConcat
    <2> QED BY <1>3, <2>1
<1>5. /\ At(Append(Replies, told), kind) = At(Replies, kind)
      /\ \A i \in At(Replies, kind) : Append(Replies, told)[i] = Replies[i]
    <2> HIDE DEF Replies
    <2> QED BY <1>1, <1>3, AtMore
<1> QED BY <1>4, <1>5

\* The headphones take a command: if it is the key, the one that is due.
LEMMA DeviceKeys ==
    ASSUME IInv, WaitInv, KeyInv, Device
    PROVE  KeyInv'
<1>1. WireTypes /\ DeviceTypes /\ TaskInv /\ TaskShape /\ built \in Nat /\ ran \in Nat
    BY DEF IInv, DeviceTypes, WaitInv
<1>2. /\ toDevice # <<>> /\ toDevice' = Tail(toDevice) /\ UNCHANGED <<sendBuf, recvBuf>>
      /\ UNCHANGED <<task, link, pending, built, spent>> /\ (Undisturbed' => Undisturbed)
    BY DEF Device, DeviceTakes, DeviceDropsRepeat, DeviceTakesAck, Arrived, engineVars,
           Undisturbed
<1>3. CASE UNCHANGED <<fromDevice, ran>>
    <2>1. Replies' = Replies
        BY <1>2, <1>3 DEF Replies
    <2> QED BY <1>2, <1>3, <2>1, QuietTask
<1>4. CASE DeviceTakes /\ ~Undisturbed
    BY <1>2, <1>4 DEF KeyInv
<1>5. CASE DeviceTakes /\ Undisturbed
    <2> DEFINE body == Head(Line).body
    <2>1. /\ Line \in Seq(Outgoing) /\ Line # <<>> /\ Line' = Tail(Line)
          /\ Head(Line) = Head(toDevice)
        BY <1>1, <1>2, FrameLeaves
    <2>2. /\ Head(Line).type = "Data"
          /\ fromDevice' = (fromDevice \o <<AckFrame>>) \o Answer(body)
          /\ ran' = IF body.op = "Key" THEN ran + 1 ELSE ran
        BY <1>5, <2>1 DEF DeviceTakes, Arrived
    <2>3. Head(Line) \in Commands /\ body \in Requests
        BY <2>1, <2>2, HeadTailProperties DEF Commands, Outgoing, AckFrame
    <2>4. OneUnderWay(Line, Replies) /\ ForTask(Line, Replies, task)
        BY <1>5 DEF WaitInv, UnderWay, Undisturbed
    <2>5. 1 \in At(Line, Commands) /\ Line[1] = Head(Line) /\ At(Tail(Line), Commands) = {}
        <3> HIDE DEF Line
        <3> QED BY <2>1, <2>3, <2>4, AtTail, AtTaken, HeadTailProperties DEF OneUnderWay
    <2>6. /\ At(Replies, Acks) = {} /\ body = task.last
          /\ task.running /\ task.wait # "None"
        <3> HIDE DEF Line
        <3> QED BY <1>1, <2>4, <2>5 DEF OneUnderWay, ForTask, TaskInv
    <2>7. At(Replies', Acks) # {}
        <3> DEFINE more == (Replies \o <<AckFrame>>) \o Answer(Line[1].body)
        <3>1. Replies' = more
            BY <1>1, <1>2, <2>2, <2>3, <2>5, AnswerType, RepliesMore
        <3>2. Line[1].body \in Requests /\ Replies \in Seq(Incomings)
            BY <1>1, <2>3, <2>5, ConcatProperties DEF WireTypes, Replies
        <3>3. At(more, Acks) # {}
            <4> HIDE DEF Line
            <4> QED BY <1>1, <2>4, <2>5, <3>2, CommandTaken
        <3> HIDE DEF more
        <3> QED BY <3>1, <3>3
    <2>8. CASE body.op = "Key"
        <3>1. task.last.op = "Key" /\ task.last.op \notin Asking
            BY <2>6, <2>8 DEF Asking
        <3>2. task.wait = "Ack" /\ IsKey(Head(task.steps))
            BY <1>1, <2>6, <3>1 DEF TaskShape, AtStep, IsKey
        <3>3. KeyLeft
            <4>1. task.steps \in Seq(Steps) /\ task.steps # <<>>
                BY <2>6 DEF IInv, EngineTypes, Tasks, TaskInv, Proceeding, EndsInDone
            <4> QED BY <2>6, <3>2, <4>1, TailSteps DEF KeyLeft, HasKey
        <3>4. KeyDue /\ KeyTaken' /\ ~KeyDue'
            BY <1>2, <2>6, <2>7, <3>1, <3>2, <3>3 DEF KeyDue, KeyTaken
        <3>5. built <= ran + 1 /\ (spent.missed = 0 => ran < built)
            BY <1>1, <1>5, <3>4 DEF KeyInv, KeyCount
        <3>6. ran' = ran + 1 /\ built' = built /\ spent' = spent
            BY <1>2, <2>2, <2>8
        <3>7. KeyCount'
            BY <1>1, <3>4, <3>5, <3>6 DEF KeyCount
        <3> QED BY <1>2, <3>7 DEF KeyInv
    <2>9. CASE body.op # "Key"
        <3>1. ~KeyTaken /\ ~KeyTaken'
            BY <1>2, <2>6, <2>9 DEF KeyTaken
        <3>2. KeyDue' <=> KeyDue
            BY <1>2, <3>1 DEF KeyDue, KeyLeft
        <3>3. UNCHANGED <<built, ran>> /\ spent'.missed = spent.missed
            BY <1>2, <2>2, <2>9
        <3>4. task'.running => OneKey(task'.steps)
            BY <1>2 DEF KeyInv
        <3> QED BY <1>2, <3>2, <3>3, <3>4, SameKeys
    <2> QED BY <2>8, <2>9
<1> QED BY <1>3, <1>4, <1>5 DEF Device, DeviceDropsRepeat, DeviceTakesAck, deviceVars

\* Every step keeps the count of the keys.
LEMMA KeyKept == IInv /\ WaitInv /\ KeyInv /\ [Next]_vars => KeyInv'
<1> SUFFICES ASSUME IInv, WaitInv, KeyInv, [Next]_vars PROVE KeyInv'
    OBVIOUS
<1>1. /\ WireTypes /\ EngineTypes /\ TaskInv /\ task \in Tasks /\ LineInv
      /\ spent \in [Counts -> Nat]
      /\ recvBuf \in Seq(Incomings) /\ fromDevice \in Seq(Incomings)
    BY DEF IInv, WireTypes, EngineTypes, DeviceTypes, WaitInv
<1>2. ASSUME NEW what \in Counts, NEW bound, Spend(what, bound)
      PROVE  /\ what # "late" => spent'.late = spent.late
             /\ what # "missed" => spent'.missed = spent.missed
             /\ spent'[what] = spent[what] + 1
    BY <1>1, <1>2 DEF Spend, Counts
<1>3. Counts = {"edits", "keys", "changes", "lost", "missed", "late", "breaks"}
    BY DEF Counts
<1>4. CASE UNCHANGED <<task, recvBuf, wireVars, pending, built, ran>>
           /\ spent'.late = spent.late /\ spent'.missed = spent.missed
    <2>1. Undisturbed' => Undisturbed
        BY <1>4 DEF Undisturbed, wireVars
    <2>2. Replies' = Replies
        BY <1>4 DEF Replies, wireVars
    <2> QED BY <1>4, <2>1, <2>2, QuietTask
<1>5. CASE CloseConnection
    BY <1>5, NoTaskType DEF CloseConnection, DropEngine, KeyInv, Undisturbed
<1>6. CASE EngineStep
    BY <1>6, EngineStepKeys
<1>7. /\ BuildSyncSteps \in Seq(Steps) /\ EndsInDone(BuildSyncSteps)
      /\ OneKey(BuildSyncSteps) /\ ~HasKey(BuildSyncSteps)
    BY SyncSteps, SyncOrdinary, OrdinaryTask
<1>8. CASE Tick
    <2>1. CASE Teardown
        BY <1>5, <2>1 DEF Teardown
    <2>2. CASE ~Teardown
        <3>1. /\ AfterInit \/ AutoCommit \/ PeriodicSync \/ NothingDue
              /\ "Fatal" \notin pending /\ UNCHANGED <<recvBuf, wireVars, ran, spent>>
            BY <1>8, <2>2 DEF Tick, deviceVars
        <3>2. Undisturbed' => Undisturbed
            BY <3>1 DEF Undisturbed, wireVars
        <3>3. CASE NothingDue
            <4>1. Replies' = Replies
                BY <3>1 DEF Replies, wireVars
            <4> QED BY <3>1, <3>2, <3>3, <4>1, QuietTask DEF NothingDue
        <3>4. CASE AfterInit \/ PeriodicSync
            BY <1>7, <3>1, <3>2, <3>4, StartKeeps
               DEF AfterInit, PeriodicSync, StartSync, wireVars
        <3>5. CASE AutoCommit
            <4>1. /\ BuildCommitSteps \in Seq(Steps) /\ EndsInDone(BuildCommitSteps)
                  /\ OneKey(BuildCommitSteps) /\ (HasKey(BuildCommitSteps) <=> key # KeyOff)
                BY <1>1, CommitSteps, CommitKeys
            <4>2. built' = IF HasKey(BuildCommitSteps) THEN built + 1 ELSE built
                BY <3>5, <4>1 DEF AutoCommit
            <4>3. IsReady /\ StartTask(BuildCommitSteps, support)
                BY <3>5 DEF AutoCommit
            <4> QED BY <3>1, <3>2, <4>1, <4>2, <4>3, StartKeeps DEF wireVars
        <3> QED BY <3>1, <3>3, <3>4, <3>5
    <2> QED BY <2>1, <2>2
<1>9. CASE Attach
    <2>1. /\ link = "none" /\ StartTask(BuildInitSteps, support)
          /\ UNCHANGED <<built, ran, spent>>
        BY <1>9 DEF Attach, deviceVars
    <2>2. ran = 0 /\ built = 0
        BY <1>1, <2>1 DEF LineInv, ConnectionInv, Fresh
    <2>3. OneKey(task'.steps) /\ ~KeyLeft'
        BY <2>1, InitSteps, InitAsks, StartKeys
    <2>4. KeyCount'
        BY <2>1, <2>2, <2>3 DEF KeyCount, KeyDue
    <2> QED BY <2>3, <2>4 DEF KeyInv
<1>10. CASE Timeout
    <2>1. /\ task' = [task EXCEPT !.deadline = "passed"]
          /\ UNCHANGED <<recvBuf, wireVars, pending, built, ran>>
        BY <1>10 DEF Timeout, DeadlinePasses, deviceVars
    <2>2. /\ task'.running = task.running /\ task'.steps = task.steps
          /\ task'.wait = task.wait /\ task'.last = task.last
        BY <1>1, <2>1 DEF Tasks
    <2>3. CASE Quiet
        <3>1. spent' = spent
            BY <1>10, <2>3 DEF Timeout
        <3>2. (Undisturbed' => Undisturbed) /\ Replies' = Replies
            BY <2>1, <3>1 DEF Undisturbed, Replies, wireVars
        <3> QED BY <2>1, <2>2, <3>1, <3>2, QuietTask
    <2>4. CASE ~Quiet
        <3>1. spent'.late = spent.late + 1 /\ spent.late \in Nat
            BY <1>1, <1>2, <1>3, <1>10, <2>4 DEF Timeout
        <3>2. ~Undisturbed'
            BY <3>1 DEF Undisturbed
        <3> QED BY <2>2, <3>2 DEF KeyInv
    <2> QED BY <2>3, <2>4
<1>11. CASE Device
    BY <1>11, DeviceKeys
<1>12. CASE User
    <2>1. CASE \E s \in Settings, v \in Values : Edit(s, v)
        BY <1>2, <1>3, <1>4, <2>1 DEF Edit, deviceVars
    <2>2. CASE \E k \in Keys : PressKey(k)
        BY <1>2, <1>3, <1>4, <2>2 DEF PressKey, deviceVars
    <2>3. CASE RefreshSync
        <3>1. /\ IsReady /\ StartTask(BuildSyncSteps, support)
              /\ UNCHANGED <<recvBuf, wireVars, ran, spent, built, pending>>
            BY <2>3 DEF RefreshSync, StartSync, deviceVars
        <3>2. Undisturbed' => Undisturbed
            BY <3>1 DEF Undisturbed, wireVars
        <3> QED BY <1>7, <3>1, <3>2, StartKeeps DEF wireVars
    <2>4. CASE Disconnect
        BY <1>5, <2>4 DEF Disconnect
    <2>5. \A i \in DOMAIN GeneralOrder : GeneralOrder[i] \in Settings
        BY OrderedSettings DEF Settings
    <2> QED BY <1>12, <2>1, <2>2, <2>3, <2>4, <2>5 DEF User, EditGeneral, Settings
<1>13. CASE Environment
    <2>1. UNCHANGED <<task, recvBuf, pending, built, ran>>
        BY <1>13 DEF Environment, DeviceChanges, LoseCommand, LoseAnswer, LinkBreaks,
                     engineVars, deviceVars
    <2>2. CASE LoseCommand
        <3>1. fromDevice' = fromDevice /\ link' = link /\ spent'.late = spent.late
              /\ spent'.missed = spent.missed
            BY <1>2, <1>3, <2>2 DEF LoseCommand
        <3>2. (Undisturbed' => Undisturbed) /\ Replies' = Replies
            BY <2>1, <3>1 DEF Undisturbed, Replies
        <3> QED BY <2>1, <3>1, <3>2, QuietTask
    <2>3. CASE LoseAnswer
        <3>1. /\ fromDevice # <<>> /\ fromDevice' = Tail(fromDevice) /\ link' = link
              /\ spent'.late = spent.late /\ spent'.missed = spent.missed + 1
              /\ spent.missed \in Nat
            BY <1>1, <1>2, <1>3, <2>3 DEF LoseAnswer
        <3>2. At(Replies, Acks) = {} => At(Replies', Acks) = {}
            <4>1. Within(recvBuf \o Tail(fromDevice), recvBuf \o fromDevice, Acks)
                BY <1>1, <3>1, WithinLess
            <4> QED BY <2>1, <3>1, <4>1 DEF Replies, Within
        <3>3. KeyDue => KeyDue'
            BY <2>1, <3>2 DEF KeyDue, KeyLeft, KeyTaken
        <3>4. Undisturbed' => Undisturbed
            BY <2>1, <3>1 DEF Undisturbed
        <3>5. spent'.missed # 0
            BY <3>1
        <3> QED BY <2>1, <3>3, <3>4, <3>5 DEF KeyInv, KeyCount
    <2>4. ASSUME NEW s \in Settings, NEW v \in Values, DeviceChanges(s, v)
          PROVE  KeyInv'
        <3>1. /\ link' = link /\ spent'.late = spent.late /\ spent'.missed = spent.missed
              /\ fromDevice' = IF link = "up" THEN fromDevice \o Report("RetParam", s, v)
                               ELSE fromDevice
            BY <1>2, <1>3, <2>4 DEF DeviceChanges
        <3>2. Undisturbed' => Undisturbed
            BY <2>1, <3>1 DEF Undisturbed
        <3>3. CASE link # "up"
            BY <2>1, <3>1, <3>3 DEF KeyInv, Undisturbed
        <3>4. CASE link = "up"
            BY <1>1, <2>1, <3>1, <3>2, <3>4, ReportMore, QuietTask
        <3> QED BY <3>3, <3>4
    <2>5. CASE LinkBreaks
        BY <2>1, <2>5 DEF LinkBreaks, KeyInv, Undisturbed
    <2> QED BY <1>13, <2>2, <2>3, <2>4, <2>5 DEF Environment
<1>14. CASE UNCHANGED vars
    BY <1>4, <1>14 DEF vars, engineVars, deviceVars
<1> QED BY <1>6, <1>8, <1>9, <1>10, <1>11, <1>12, <1>13, <1>14 DEF Next

LEMMA KeyInvariance == Spec => [](IInv /\ KeyInv)
<1>1. Init => KeyInv
    BY NoTaskType DEF Init, NewEngine, KeyInv, Undisturbed
<1>2. IInv /\ WaitInv /\ KeyInv /\ [Next]_vars => KeyInv'
    BY KeyKept
<1> QED BY <1>1, <1>2, WaitInvariance, PTL DEF Spec

\* While no answer is late, no key is lost: when the task that sends it is
\* over and has not failed, the headphones have executed it (request_commit,
\* retransmit, and the ACK that handle_frame does not compare).
THEOREM KeysNotSkipped == Spec => []KeyNotSkipped
<1>1. IInv /\ KeyInv => KeyNotSkipped
    BY DEF KeyNotSkipped, Established, IsReady, KeyInv, Undisturbed, KeyCount, KeyDue,
           KeyLeft, IInv, DeviceTypes
<1> QED BY <1>1, KeyInvariance, PTL

\* And no key runs twice unless an answer was lost, however often a command
\* was lost and sent again.
THEOREM KeysOnce == Spec => []KeyExactlyOnce
<1>1. IInv /\ KeyInv => KeyExactlyOnce
    BY DEF KeyExactlyOnce, Established, IsReady, KeyInv, Undisturbed, KeyCount, KeyDue,
           KeyLeft, IInv, DeviceTypes
<1> QED BY <1>1, KeyInvariance, PTL

---------------------------------------------------------------------------
(* What becomes of the support tables *)

\* A task that gets what it awaits asks for what it was going to ask for; the
\* condition on table 2 is resolved when it is known whether there is one.
LEMMA AdvanceHas ==
    ASSUME EngineTypes, TaskInv, InfoFirst(task.steps), Head(task.steps).kind # "If",
           NEW wait \in Waits, task.wait = wait, NEW buf, NEW known,
           AdvanceOn(wait, buf, known)
    PROVE  /\ task'.running => InfoFirst(task'.steps)
           /\ \A op \in Asking :
                  Has(task.steps, Send(Get(op))) /\ Head(task.steps) # Send(Get(op))
                      => task'.running /\ Has(task'.steps, Send(Get(op)))
           /\ Has(task.steps, TableTwoStep) =>
                  \/ task'.running /\ Has(task'.steps, TableTwoStep)
                  \/ task'.running /\ Has(task'.steps, Send(Get("GetSupport2")))
                  \/ /\ "Table2" \notin known
                     /\ Has(task.steps, AskInfo) => Head(task.steps) = AskInfo
<1> DEFINE rest == Tail(task.steps)
           u    == Unfold(rest, known)
<1>1. /\ task.steps \in Seq(Steps) /\ task.steps # <<>>
      /\ rest \in Seq(Steps) /\ EndsInDone(rest)
      /\ \/ GoesOn(u, task.last, buf)
         \/ Head(u).kind = "Done" /\ task' = NoTask
    BY AdvanceGoesOn DEF EndsInDone
<1>2. InfoFirst(rest) /\ InfoFirst(u) /\ u \in Seq(Steps) /\ EndsInDone(u)
    BY <1>1, TailFirst, UnfoldFirst, UnfoldKeepsDone DEF InfoFirst
<1>3. ASSUME NEW step, Has(u, step), step.kind # "Done"
      PROVE  task'.running /\ task'.steps = u
    BY <1>1, <1>2, <1>3, DoneAlone DEF GoesOn
<1>4. task'.running => task'.steps = u
    BY <1>1, NoTaskType DEF GoesOn
<1>5. ASSUME NEW op, Has(task.steps, Send(Get(op))), Head(task.steps) # Send(Get(op))
      PROVE  Has(u, Send(Get(op)))
    <2>1. Has(rest, Send(Get(op))) /\ Send(Get(op)).kind # "If"
        BY <1>1, <1>5, TailHas DEF Send
    <2> QED BY <1>1, <2>1, UnfoldHas
<1>6. ASSUME NEW op, Has(u, Send(Get(op)))
      PROVE  task'.running /\ Has(task'.steps, Send(Get(op)))
    <2>1. Send(Get(op)).kind # "Done"
        BY DEF Send
    <2>2. task'.running /\ task'.steps = u
        BY <1>3, <1>6, <2>1
    <2> QED BY <1>6, <2>2
<1>7. ASSUME Has(task.steps, TableTwoStep)
      PROVE  \/ task'.running /\ Has(task'.steps, TableTwoStep)
             \/ task'.running /\ Has(task'.steps, Send(Get("GetSupport2")))
             \/ /\ "Table2" \notin known
                /\ Has(task.steps, AskInfo) => Head(task.steps) = AskInfo
    <2>1. /\ TableTwoStep.kind = "If" /\ TableTwoStep.cond = "Table2"
          /\ TableTwoStep.inner # <<>> /\ TableTwoStep.inner[1] = Send(Get("GetSupport2"))
        <3> DEFINE ask  == Send(Get("GetSupport2"))
                   wt   == Await("SupportFunction")
        <3>1. TableTwoStep = If("Table2", <<ask, wt>>)
            BY DEF TableTwoStep
        <3> HIDE DEF ask, wt
        <3>2. <<ask, wt>> # <<>> /\ <<ask, wt>>[1] = ask
            OBVIOUS
        <3> QED BY <3>1, <3>2 DEF If, ask
    <2>2. Has(rest, TableTwoStep)
        BY <1>1, <1>7, <2>1, TailHas
    <2>3. \/ Has(u, TableTwoStep)
          \/ u[1] = Send(Get("GetSupport2"))
          \/ "Table2" \notin known /\ ~Has(u, AskInfo)
        <3> HIDE DEF rest, u
        <3>1. /\ rest \in Seq(Steps) /\ EndsInDone(rest) /\ InfoFirst(rest)
              /\ TableTwoStep.kind = "If" /\ TableTwoStep.inner # <<>>
            BY <1>1, <1>2, <2>1
        <3>2. \/ Has(Unfold(rest, known), TableTwoStep)
              \/ Unfold(rest, known)[1] = TableTwoStep.inner[1]
              \/ TableTwoStep.cond \notin known /\ ~Has(Unfold(rest, known), AskInfo)
            BY <2>2, <3>1, UnfoldHas
        <3> QED BY <2>1, <3>2 DEF u
    <2> HIDE DEF u, rest
    <2>4. CASE Has(u, TableTwoStep)
        <3>1. task'.running /\ task'.steps = u
            BY <1>3, <2>1, <2>4
        <3> QED BY <2>4, <3>1
    <2>5. CASE u[1] = Send(Get("GetSupport2"))
        <3>1. Has(u, Send(Get("GetSupport2")))
            BY <1>2, <2>5, TailSteps DEF EndsInDone, Has
        <3> QED BY <1>6, <3>1
    <2>6. CASE "Table2" \notin known /\ ~Has(u, AskInfo)
        BY <1>5, <2>6 DEF AskInfo
    <2> QED BY <2>3, <2>4, <2>5, <2>6
<1> QED BY <1>2, <1>4, <1>5, <1>6, <1>7

\* With the same steps ahead, the engine can only know more.
LEMMA CompleteStays ==
    ASSUME Complete, support \subseteq support', devFns' = devFns,
           task'.running = task.running, task'.steps = task.steps, task'.last = task.last
    PROVE  Complete'
BY DEF Complete, Told, Pending, Awaiting, TableTwoAhead

\* With nothing ahead, it knows everything already.
LEMMA CompleteAlready ==
    ASSUME Complete, support \subseteq support', devFns' = devFns,
           \A op \in Asking : ~Pending(op), ~TableTwoAhead
    PROVE  Complete'
<1>1. \A op \in Asking : devFns \intersect Covered(TableFor(op)) \subseteq support
    BY DEF Complete, Told, Asking
<1>2. \A op \in Asking : devFns' \intersect Covered(TableFor(op)) \subseteq support'
    BY <1>1
<1> QED BY <1>2 DEF Complete, Told, Asking

LEMMA RestingAlready ==
    ASSUME Complete, ~task.running, support' = support, devFns' = devFns
    PROVE  Complete'
BY CompleteAlready DEF Pending, TableTwoAhead

\* A task that asks for nothing right now goes on: what it asked for last is
\* known, and what it has not asked for yet is still ahead.
LEMMA CompleteOn ==
    ASSUME EngineTypes, TaskInv, DeviceTypes, InfoFirst(task.steps), Complete,
           ~Asks(Head(task.steps)),
           NEW wait \in Waits, task.wait = wait, NEW buf, AdvanceOn(wait, buf, support'),
           support \subseteq support', devFns' = devFns,
           \A op \in Asking : Awaiting(op) =>
               devFns \intersect Covered(TableFor(op)) \subseteq support'
    PROVE  Complete'
<1> DEFINE Told1(op) == devFns \intersect Covered(TableFor(op)) \subseteq support'
<1>1. \A op \in Asking : Head(task.steps) # Send(Get(op))
    BY DEF Asks, Send, Get, Body
<1>2. AskInfo = Send(Get("GetProtocolInfo")) /\ Head(task.steps).kind # "If" /\ task.running
    BY DEF AskInfo, TaskInv, Proceeding, Waits
<1>3. \A op \in Asking : Has(task.steps, Send(Get(op))) => Pending(op)'
    BY <1>1, <1>2, AdvanceHas DEF Pending
<1>4. \A op \in Asking : Told(op) => Told1(op) \/ Has(task.steps, Send(Get(op)))
    BY DEF Told, Pending
<1>5. \A op \in Asking : Told(op) => Told(op)'
    BY <1>3, <1>4 DEF Told
<1>6. ASSUME TableTwoAhead PROVE Told("GetSupport2")' \/ TableTwoAhead'
    <2>1. \/ TableTwoAhead' \/ Pending("GetSupport2")'
          \/ "Table2" \notin support' /\ ~Has(task.steps, AskInfo)
        BY <1>1, <1>2, <1>6, AdvanceHas DEF TableTwoAhead, Pending, Asking
    <2>2. ASSUME "Table2" \notin support', ~Has(task.steps, AskInfo)
          PROVE  Told("GetSupport2")'
        <3>1. Told1("GetProtocolInfo")
            BY <1>2, <1>4, <2>2 DEF Complete, Asking
        <3>2. "Table2" \notin devFns
            BY <2>2, <3>1 DEF Covered, TableFor
        <3>3. "PairedList" \notin devFns
            BY <3>2, AdvertisedAssumption DEF DeviceTypes
        <3>4. devFns \intersect Covered(TableFor("GetSupport2")) = {}
            BY <3>3 DEF Covered, TableFor
        <3> QED BY <3>4 DEF Told
    <2> QED BY <2>1, <2>2 DEF Told
<1> QED BY <1>5, <1>6 DEF Complete, Asking

LEMMA SameSupport ==
    ASSUME SupportInv, UNCHANGED <<support, devFns>>, Undisturbed' => Undisturbed,
           link' = "up" => link = "up" /\ (Truthful(Replies) => Truthful(Replies)'),
           task'.running => InfoFirst(task'.steps),
           Undisturbed /\ Complete => Complete'
    PROVE  SupportInv'
BY DEF SupportInv

LEMMA SameTask ==
    ASSUME SupportInv, UNCHANGED <<support, devFns>>, Undisturbed' => Undisturbed,
           link' = "up" => link = "up" /\ (Truthful(Replies) => Truthful(Replies)'),
           task'.running = task.running, task'.steps = task.steps, task'.last = task.last
    PROVE  SupportInv'
BY SameSupport, CompleteStays DEF SupportInv

\* What is told stays true of what is left of it.
LEMMA LessTold ==
    ASSUME WireTypes, recvBuf # <<>>, recvBuf' = Tail(recvBuf),
           UNCHANGED <<fromDevice, devFns>>, Truthful(Replies)
    PROVE  Truthful(Replies)'
<1>1. /\ Replies \in Seq(Incomings) /\ Replies # <<>>
      /\ Tail(recvBuf) \o fromDevice = Tail(Replies)
    BY FirstReply
<1>2. Replies' = Tail(Replies)
    BY <1>1 DEF Replies
<1>3. \A i \in At(Tail(Replies), Tables) :
          i + 1 \in At(Replies, Tables) /\ Tail(Replies)[i] = Replies[i + 1]
    <2> HIDE DEF Replies
    <2> QED BY <1>1, AtTail
<1> QED BY <1>2, <1>3 DEF Truthful

\* The engine takes an ACK: a command that asks is now awaited.
LEMMA AckSupport ==
    ASSUME IInv, WaitInv, SupportInv, HandleAck, UNCHANGED wireVars,
           UNCHANGED devFns, Undisturbed' => Undisturbed
    PROVE  SupportInv'
<1>1. /\ EngineTypes /\ TaskInv /\ WireTypes /\ DeviceTypes /\ TaskShape
      /\ recvBuf # <<>> /\ recvBuf' = Tail(recvBuf) /\ fromDevice' = fromDevice
      /\ AdvanceOn("Ack", sendBuf, support) /\ support' = support /\ link' = link
      /\ "Ack" \in Waits
    BY DEF IInv, WaitInv, HandleAck, wireVars, Waits
<1>2. Truthful(Replies) => Truthful(Replies)'
    BY <1>1, LessTold
<1>3. CASE task.wait = "Ack"
    <2>1. /\ task.running /\ InfoFirst(task.steps)
          /\ task.steps \in Seq(Steps) /\ task.steps # <<>>
        BY <1>1, <1>3 DEF TaskInv, Proceeding, EndsInDone, SupportInv, EngineTypes, Tasks
    <2>2. Head(task.steps).kind = "Send" /\ task.last = Head(task.steps).body
        BY <1>1, <1>3, <2>1 DEF TaskShape, AtStep
    <2>3. task'.running => InfoFirst(task'.steps)
        BY <1>1, <1>3, <2>1, <2>2, AdvanceHas
    <2>4. CASE ~Asks(Head(task.steps))
        <3>1. \A op \in Asking : ~Awaiting(op)
            BY <2>2 DEF Awaiting
        <3>2. Complete => Complete'
            BY <1>1, <1>3, <2>1, <2>4, <3>1, CompleteOn
        <3> QED BY <1>1, <1>2, <2>3, <3>2, SameSupport
    <2>5. CASE Asks(Head(task.steps))
        <3>1. /\ task'.running /\ task'.steps = Tail(task.steps)
              /\ Head(task'.steps).kind = "Await" /\ task'.last = task.last
            <4>1. /\ task'.running /\ task'.steps = Tail(task.steps)
                  /\ Head(task'.steps) = Await(WaitFor(task.last.op))
                  /\ task'.last = task.last
                BY <1>1, <1>3, <2>5, AdvanceShaped
            <4>2. Await(WaitFor(task.last.op)).kind = "Await"
                BY DEF Await
            <4> QED BY <4>1, <4>2
        <3>2. ASSUME NEW op, Pending(op) PROVE Pending(op)'
            <4>1. Has(task.steps, Send(Get(op)))
                BY <2>2, <3>2 DEF Pending, Awaiting
            <4>2. CASE Send(Get(op)) = Head(task.steps)
                <5>1. task'.last.op = op
                    BY <2>2, <3>1, <4>2 DEF Send, Get, Body
                <5> QED BY <3>1, <5>1 DEF Pending, Awaiting
            <4>3. CASE Has(Tail(task.steps), Send(Get(op)))
                BY <3>1, <4>3 DEF Pending
            <4> QED BY <2>1, <4>1, <4>2, <4>3, TailHas
        <3>3. ASSUME TableTwoAhead PROVE TableTwoAhead'
            <4>1. TableTwoStep # Head(task.steps)
                BY <2>2 DEF TableTwoStep, If
            <4> QED BY <2>1, <3>1, <3>3, <4>1, TailHas DEF TableTwoAhead
        <3>4. Complete => Complete'
            BY <1>1, <3>2, <3>3 DEF Complete, Told
        <3> QED BY <1>1, <1>2, <2>3, <3>4, SameSupport
    <2> QED BY <2>4, <2>5
<1>4. CASE task.wait # "Ack"
    <2>1. task' = task
        BY <1>1, <1>4 DEF AdvanceOn
    <2> QED BY <1>1, <1>2, <2>1, SameTask
<1> QED BY <1>3, <1>4

\* The protocol info tells of table 2, the tables of what they cover.
TableLearnt ==
    \/ support' = support \union Head(recvBuf).body.val
    \/ /\ support' = (support \ {"Table2"}) \union Head(recvBuf).body.val
       /\ Head(recvBuf).body.op = "RetProtocolInfo"

\* What the headphones say of their tables the engine adds to what it knows.
LEMMA TableTruth ==
    ASSUME WireTypes, SupportInv, link = "up",
           recvBuf # <<>>, Head(recvBuf) \in Tables, TableLearnt
    PROVE  /\ support' = support \union Head(recvBuf).body.val
           /\ Head(recvBuf).body.val = devFns \intersect Covered(Head(recvBuf).body.op)
           /\ 1 \in At(Replies, Tables) /\ Replies[1] = Head(recvBuf)
<1>1. 1 \in At(Replies, Tables) /\ Replies[1] = Head(recvBuf)
    <2>1. Replies \in Seq(Incomings) /\ Replies # <<>> /\ Head(Replies) = Head(recvBuf)
        BY FirstReply
    <2> HIDE DEF Replies
    <2> QED BY <2>1, AtTail, TailSteps, HeadTailProperties
<1>2. Head(recvBuf).body.val = devFns \intersect Covered(Head(recvBuf).body.op)
    BY <1>1 DEF SupportInv, Truthful
<1>3. support \subseteq devFns
    BY DEF SupportInv
<1> QED BY <1>1, <1>2, <1>3 DEF Covered, TableLearnt

\* The engine takes a table: what the task awaited is known, or more than
\* it awaited.
LEMMA TableSupport ==
    ASSUME IInv, WaitInv, SupportInv, NEW wait \in {"ProtocolInfo", "SupportFunction"},
           recvBuf # <<>>, Head(recvBuf) \in Tables, recvBuf' = Tail(recvBuf),
           AdvanceOn(wait, Acked, support'), UNCHANGED wireVars,
           TableLearnt, UNCHANGED devFns, Undisturbed' => Undisturbed
    PROVE  SupportInv'
<1>1. /\ EngineTypes /\ TaskInv /\ WireTypes /\ DeviceTypes /\ TaskShape
      /\ fromDevice' = fromDevice /\ link' = link /\ wait \in Waits
    BY DEF IInv, WaitInv, wireVars, Waits
<1>2. Truthful(Replies) => Truthful(Replies)'
    BY <1>1, LessTold
<1>3. ASSUME link = "up"
      PROVE  /\ support' = support \union Head(recvBuf).body.val
             /\ support' \subseteq devFns'
             /\ Head(recvBuf).body.val = devFns \intersect Covered(Head(recvBuf).body.op)
             /\ 1 \in At(Replies, Tables) /\ Replies[1] = Head(recvBuf)
    BY <1>1, <1>3, TableTruth DEF SupportInv
<1>4. task'.running => InfoFirst(task'.steps)
    <2>1. CASE task.wait = wait
        <3>1. task.running /\ InfoFirst(task.steps) /\ Head(task.steps).kind # "If"
            BY <1>1, <2>1 DEF TaskInv, Proceeding, SupportInv
        <3> QED BY <1>1, <2>1, <3>1, AdvanceHas
    <2>2. CASE task.wait # wait
        BY <2>2 DEF AdvanceOn, SupportInv
    <2> QED BY <2>1, <2>2
<1>5. ASSUME Undisturbed PROVE Complete'
    <2>1. Complete /\ support \subseteq support'
        BY <1>3, <1>5 DEF SupportInv, Undisturbed
    <2>2. CASE task.wait = wait
        <3>1. task.running /\ InfoFirst(task.steps)
            BY <1>1, <2>2 DEF TaskInv, SupportInv
        <3>2. ~Asks(Head(task.steps))
            BY <1>1, <2>2, <3>1 DEF TaskShape, AtStep, Await, Asks
        <3>3. Head(recvBuf).body.op = TableFor(task.last.op)
            BY <1>3, <1>5 DEF WaitInv, UnderWay, ForTask, Undisturbed
        <3>4. \A op \in Asking : Awaiting(op) =>
                  devFns \intersect Covered(TableFor(op)) \subseteq support'
            BY <1>3, <1>5, <3>3 DEF Awaiting, Undisturbed
        <3> QED BY <1>1, <2>1, <2>2, <3>1, <3>2, <3>4, CompleteOn
    <2>3. CASE task.wait # wait
        <3>1. task' = task
            BY <2>3 DEF AdvanceOn
        <3> QED BY <2>1, <3>1, CompleteStays
    <2> QED BY <2>2, <2>3
<1> QED BY <1>1, <1>2, <1>3, <1>4, <1>5 DEF SupportInv

LEMMA EngineStepSupport ==
    ASSUME IInv, WaitInv, SupportInv, EngineStep
    PROVE  SupportInv'
<1>1. /\ WireTypes /\ EngineTypes /\ TaskInv /\ task \in Tasks
      /\ recvBuf \in Seq(Incomings) /\ fromDevice \in Seq(Incomings)
    BY DEF IInv, EngineTypes, WireTypes
<1>2. (Undisturbed' => Undisturbed) /\ UNCHANGED devFns
    BY EngineKeepsEvents
<1>3. ASSUME link' = link, UNCHANGED support, Truthful(Replies) => Truthful(Replies)',
             task'.running = task.running, task'.steps = task.steps, task'.last = task.last
      PROVE  SupportInv'
    BY <1>2, <1>3, SameTask
<1>4. Replies' = Replies => (Truthful(Replies) => Truthful(Replies)')
    BY <1>2 DEF Truthful
<1>5. CASE FlushSendBuf
    <2>1. UNCHANGED <<link, support, task>> /\ Replies' = Replies
        BY <1>5 DEF FlushSendBuf, Replies
    <2> QED BY <1>3, <1>4, <2>1
<1>6. CASE ReadFrames
    <2>1. recvBuf \o fromDevice \in Seq(Incomings)
        BY <1>1, ConcatProperties
    <2>2. Replies' = Replies
        BY <1>6, <2>1, ConcatEmptySeq DEF ReadFrames, Replies
    <2>3. UNCHANGED <<link, support, task>>
        BY <1>6 DEF ReadFrames
    <2> QED BY <1>3, <1>4, <2>2, <2>3
<1>7. CASE TransportError
    <2>1. UNCHANGED <<link, support, task>> /\ Replies' = Replies
        BY <1>7 DEF TransportError, Replies, wireVars
    <2> QED BY <1>3, <1>4, <2>1
<1>8. CASE (DeadlineOpen \/ NoFrame) /\ UNCHANGED wireVars
    <2>1. UNCHANGED <<link, support, task>> /\ Replies' = Replies
        BY <1>8 DEF DeadlineOpen, NoFrame, Replies, wireVars
    <2> QED BY <1>3, <1>4, <2>1
<1>9. CASE Retransmit /\ UNCHANGED wireVars
    <2>1. task' = Rearmed(task) /\ UNCHANGED <<link, support>> /\ Replies' = Replies
        BY <1>9 DEF Retransmit, Replies, wireVars
    <2>2. /\ task'.running = task.running /\ task'.steps = task.steps
          /\ task'.last = task.last
        BY <1>1, <2>1 DEF Rearmed, Tasks
    <2> QED BY <1>3, <1>4, <2>1, <2>2
<1>10. CASE GiveUp /\ UNCHANGED wireVars
    <2>1. "Fatal" \in pending' /\ task' = NoTask /\ UNCHANGED <<link, support>> /\ Replies' = Replies
        BY <1>10 DEF GiveUp, Emit, Replies, wireVars
    <2> QED BY <1>2, <1>4, <2>1, NoTaskType DEF SupportInv, Undisturbed
<1>11. CASE StepCompleted /\ UNCHANGED wireVars
    <2>1. UNCHANGED <<link, support>> /\ Replies' = Replies
        BY <1>11 DEF StepCompleted, Replies, wireVars
    <2>2. CASE AtDone(task)
        <3>1. task' = NoTask
            BY <1>11, <2>2 DEF StepCompleted
        <3>2. /\ task.steps \in Seq(Steps) /\ EndsInDone(task.steps)
              /\ Head(task.steps).kind = "Done"
            BY <1>1, <2>2 DEF AtDone, TaskInv, Proceeding, Tasks
        <3>3. \A op : ~Pending(op)
            BY <3>2, DoneAlone DEF Pending, Awaiting, Send
        <3>4. ~TableTwoAhead
            BY <3>2, DoneAlone DEF TableTwoAhead, TableTwoStep, If
        <3>5. Complete => Complete'
            BY <1>2, <2>1, <3>3, <3>4, CompleteAlready
        <3> QED BY <1>2, <1>4, <2>1, <3>1, <3>5, NoTaskType, SameSupport
    <2>3. CASE ~AtDone(task)
        <3>1. task' = task
            BY <1>11, <2>3 DEF StepCompleted
        <3> QED BY <1>3, <1>4, <2>1, <3>1
    <2> QED BY <2>2, <2>3
<1>12. CASE HandleAck /\ UNCHANGED wireVars
    BY <1>2, <1>12, AckSupport
<1>13. ASSUME NEW op \in TableReports, Incoming(op)
       PROVE  recvBuf # <<>> /\ Head(recvBuf) \in Tables /\ recvBuf' = Tail(recvBuf)
    BY <1>1, <1>13, FirstReply DEF Incoming, Tables
<1>14. CASE HandleProtocolInfo /\ UNCHANGED wireVars
    <2>1. /\ recvBuf # <<>> /\ Head(recvBuf) \in Tables /\ recvBuf' = Tail(recvBuf)
          /\ Head(recvBuf).body.op = "RetProtocolInfo"
        BY <1>13, <1>14 DEF HandleProtocolInfo, TableReports, Incoming
    <2>2. AdvanceOn("ProtocolInfo", Acked, support') /\ TableLearnt
        BY <1>14, <2>1 DEF HandleProtocolInfo, TableLearnt
    <2> QED BY <1>2, <1>14, <2>1, <2>2, TableSupport
<1>15. CASE HandleSupportFunction /\ UNCHANGED wireVars
    <2>1. recvBuf # <<>> /\ Head(recvBuf) \in Tables /\ recvBuf' = Tail(recvBuf)
        BY <1>13, <1>15 DEF HandleSupportFunction, TableReports
    <2>2. AdvanceOn("SupportFunction", Acked, support')
        BY <1>15 DEF HandleSupportFunction
    <2>3. TableLearnt
        BY <1>15 DEF HandleSupportFunction, TableLearnt
    <2> QED BY <1>2, <1>15, <2>1, <2>2, <2>3, TableSupport
<1>16. CASE (HandleCapability \/ HandleParam \/ HandlePairedList) /\ UNCHANGED wireVars
    <2>1. /\ recvBuf # <<>> /\ recvBuf' = Tail(recvBuf)
          /\ UNCHANGED <<link, support, task, fromDevice>>
        BY <1>16 DEF HandleCapability, HandleParam, HandlePairedList, Incoming, wireVars
    <2> QED BY <1>1, <1>2, <1>3, <2>1, LessTold
<1> QED
    BY <1>5, <1>6, <1>7, <1>8, <1>9, <1>10, <1>11, <1>12, <1>14, <1>15, <1>16
       DEF EngineStep, Poll

\* A task starts when there is none: whatever was asked for is known.
LEMMA StartSupport ==
    ASSUME SupportInv, IsReady, NEW steps \in Seq(Steps), EndsInDone(steps), InfoFirst(steps),
           NEW known, StartTask(steps, known),
           UNCHANGED <<recvBuf, fromDevice, link, support, devFns>>, Undisturbed' => Undisturbed
    PROVE  SupportInv'
<1>1. InfoFirst(task'.steps)
    BY StartGoesOn, UnfoldFirst DEF GoesOn, InfoFirst
<1>2. Truthful(Replies) => Truthful(Replies)'
    BY DEF Truthful, Replies
<1>3. Complete => Complete'
    BY RestingAlready DEF IsReady
<1> QED BY <1>1, <1>2, <1>3, SameSupport

\* The headphones take a command, and answer with what they have.
LEMMA DeviceSupport ==
    ASSUME IInv, SupportInv, Device
    PROVE  SupportInv'
<1>1. WireTypes /\ DeviceTypes
    BY DEF IInv
<1>2. /\ UNCHANGED <<recvBuf, task, link, pending, support, devFns, spent>>
      /\ (Undisturbed' => Undisturbed)
    BY DEF Device, DeviceTakes, DeviceDropsRepeat, DeviceTakesAck, engineVars, deviceVars,
           Undisturbed
<1>3. SUFFICES Truthful(Replies) => Truthful(Replies)'
    BY <1>2, <1>3, SameTask
<1>4. CASE fromDevice' = fromDevice
    BY <1>2, <1>4 DEF Truthful, Replies
<1>5. CASE DeviceTakes
    <2> SUFFICES ASSUME Truthful(Replies) PROVE Truthful(Replies)'
        OBVIOUS
    <2> DEFINE body   == Head(toDevice).body
               answer == Answer(body)
               True   == {f \in Incomings : f \in Tables =>
                                f.body.val = devFns \intersect Covered(f.body.op)}
    <2>1. /\ toDevice # <<>> /\ Head(toDevice).type = "Data"
          /\ fromDevice' = (fromDevice \o <<AckFrame>>) \o answer
        BY <1>5 DEF DeviceTakes, Arrived
    <2>2. body \in Requests
        BY <1>1, <2>1, HeadTailProperties DEF WireTypes, Outgoing, AckFrame
    <2>3. answer \in Seq(Incomings)
        BY <1>1, <2>2, AnswerType
    <2>4. \A i \in DOMAIN answer : answer[i] \in True
        <3>1. CASE answer = <<>>
            BY <3>1
        <3>2. CASE answer # <<>>
            <4>1. PICK report \in Incomings :
                      /\ answer = <<report>>
                      /\ report \in Tables <=> body.op \in Asking
                      /\ body.op \in Asking =>
                             report.body.val = devFns \intersect Covered(report.body.op)
                BY <1>1, <2>2, <3>2, AnswerCases
            <4>2. report \in True
                BY <4>1
            <4> HIDE DEF True
            <4> QED BY <4>1, <4>2
        <3> QED BY <3>1, <3>2
    <2>5. <<AckFrame>> \in Seq(Incomings) /\ \A i \in DOMAIN <<AckFrame>> : <<AckFrame>>[i] \in True
        BY OneElement DEF Incomings, Tables, AckFrame
    <2>6. Replies \in Seq(Incomings) /\ Replies' = (Replies \o <<AckFrame>>) \o answer
        BY <1>1, <1>2, <2>1, <2>3, RepliesMore
    <2>7. \A i \in DOMAIN Replies : Replies[i] \in True
        <3> HIDE DEF Replies
        <3> QED BY <2>6 DEF Truthful, At
    <2> HIDE DEF True, answer
    <2> DEFINE acked == Replies \o <<AckFrame>>
    <2>8. acked \in Seq(Incomings) /\ \A i \in DOMAIN acked : acked[i] \in True
        <3> HIDE DEF Replies
        <3> QED BY <2>5, <2>6, <2>7, EachOfBoth
    <2> HIDE DEF acked
    <2>9. \A i \in DOMAIN (acked \o answer) : (acked \o answer)[i] \in True
        BY <2>3, <2>4, <2>8, EachOfBoth
    <2>10. \A i \in DOMAIN Replies' : Replies'[i] \in True
        BY <2>6, <2>9 DEF acked
    <2> QED BY <1>2, <2>10 DEF True, Truthful, At
<1> QED BY <1>4, <1>5 DEF Device, DeviceDropsRepeat, DeviceTakesAck

\* A new engine asks for everything.
LEMMA AttachSupport ==
    ASSUME IInv, LineInv, Attach
    PROVE  SupportInv'
<1>1. /\ link = "none" /\ StartTask(BuildInitSteps, support)
      /\ UNCHANGED <<support, recvBuf, fromDevice, devFns>>
    BY DEF Attach, deviceVars
<1>2. support = {} /\ recvBuf = <<>> /\ fromDevice = <<>>
    BY <1>1 DEF LineInv, ConnectionInv, Fresh, NewEngine
<1>3. Truthful(Replies)'
    <2>1. Replies' = <<>>
        BY <1>1, <1>2 DEF Replies
    <2> QED BY <2>1, AtNothing DEF Truthful
<1>4. task'.running /\ task'.steps = BuildInitSteps
    <2>1. BuildInitSteps \in Seq(Steps) /\ EndsInDone(BuildInitSteps)
          /\ BuildInitSteps[1].kind # "If"
        BY InitSteps, InitShaped
    <2>2. Unfold(BuildInitSteps, support) = BuildInitSteps
        BY <2>1, UnfoldOfRun
    <2> QED BY <1>1, <2>1, <2>2, StartGoesOn DEF GoesOn
<1>5. Complete'
    BY <1>4, InitAsks DEF Complete, Told, Pending, TableTwoAhead, AskInfo
<1> QED BY <1>1, <1>2, <1>3, <1>4, <1>5, InitAsks DEF SupportInv

\* Every step keeps what is known true, and what is not known ahead.
LEMMA SupportKept == IInv /\ WaitInv /\ SupportInv /\ [Next]_vars => SupportInv'
<1> SUFFICES ASSUME IInv, WaitInv, SupportInv, [Next]_vars PROVE SupportInv'
    OBVIOUS
<1>1. /\ WireTypes /\ EngineTypes /\ task \in Tasks /\ LineInv /\ spent \in [Counts -> Nat]
      /\ recvBuf \in Seq(Incomings) /\ fromDevice \in Seq(Incomings)
    BY DEF IInv, WireTypes, EngineTypes, DeviceTypes, WaitInv
<1>2. ASSUME NEW what \in Counts, NEW bound, Spend(what, bound)
      PROVE  /\ what # "late" => spent'.late = spent.late
             /\ spent'[what] = spent[what] + 1
    BY <1>1, <1>2 DEF Spend, Counts
<1>3. Counts = {"edits", "keys", "changes", "lost", "missed", "late", "breaks"}
    BY DEF Counts
<1>4. CASE UNCHANGED <<task, support, recvBuf, wireVars, pending, devFns>>
           /\ spent'.late = spent.late
    <2>1. Undisturbed' => Undisturbed
        BY <1>4 DEF Undisturbed, wireVars
    <2>2. Truthful(Replies) => Truthful(Replies)'
        BY <1>4 DEF Truthful, Replies, wireVars
    <2> QED BY <1>4, <2>1, <2>2, SameTask DEF wireVars
<1>5. CASE CloseConnection
    BY <1>5, NoTaskType DEF CloseConnection, DropEngine, SupportInv, Undisturbed
<1>6. CASE EngineStep
    BY <1>6, EngineStepSupport
<1>7. /\ BuildSyncSteps \in Seq(Steps) /\ EndsInDone(BuildSyncSteps) /\ InfoFirst(BuildSyncSteps)
    BY SyncSteps, SyncOrdinary, OrdinaryTask
<1>8. CASE Tick
    <2>1. CASE Teardown
        BY <1>5, <2>1 DEF Teardown
    <2>2. CASE ~Teardown
        <3>1. /\ AfterInit \/ AutoCommit \/ PeriodicSync \/ NothingDue
              /\ "Fatal" \notin pending /\ UNCHANGED <<recvBuf, wireVars, devFns, support, spent>>
            BY <1>8, <2>2 DEF Tick, deviceVars
        <3>2. Undisturbed' => Undisturbed
            BY <3>1 DEF Undisturbed, wireVars
        <3>3. CASE NothingDue
            <4>1. Truthful(Replies) => Truthful(Replies)'
                BY <3>1 DEF Truthful, Replies, wireVars
            <4> QED BY <3>1, <3>2, <3>3, <4>1, SameTask DEF NothingDue, wireVars
        <3>4. CASE AfterInit \/ PeriodicSync
            BY <1>7, <3>1, <3>2, <3>4, StartSupport
               DEF AfterInit, PeriodicSync, StartSync, wireVars
        <3>5. CASE AutoCommit
            <4>1. /\ BuildCommitSteps \in Seq(Steps) /\ EndsInDone(BuildCommitSteps)
                  /\ InfoFirst(BuildCommitSteps)
                BY <1>1, CommitSteps, CommitKeys
            <4>2. IsReady /\ StartTask(BuildCommitSteps, support)
                BY <3>5 DEF AutoCommit
            <4> QED BY <3>1, <3>2, <4>1, <4>2, StartSupport DEF wireVars
        <3> QED BY <3>1, <3>3, <3>4, <3>5
    <2> QED BY <2>1, <2>2
<1>9. CASE Attach
    BY <1>1, <1>9, AttachSupport
<1>10. CASE Timeout
    <2>1. /\ task' = [task EXCEPT !.deadline = "passed"]
          /\ UNCHANGED <<recvBuf, wireVars, pending, support, devFns>>
        BY <1>10 DEF Timeout, DeadlinePasses, deviceVars
    <2>2. /\ task'.running = task.running /\ task'.steps = task.steps
          /\ task'.last = task.last
        BY <1>1, <2>1 DEF Tasks
    <2>3. Truthful(Replies) => Truthful(Replies)'
        BY <2>1 DEF Truthful, Replies, wireVars
    <2>4. Undisturbed' => Undisturbed
        <3>1. spent' = spent \/ (spent'.late = spent.late + 1 /\ spent.late \in Nat)
            BY <1>1, <1>2, <1>3, <1>10 DEF Timeout
        <3> QED BY <2>1, <3>1 DEF Undisturbed, wireVars
    <2> QED BY <2>1, <2>2, <2>3, <2>4, SameTask DEF wireVars
<1>11. CASE Device
    BY <1>11, DeviceSupport
<1>12. CASE User
    <2>1. CASE \E s \in Settings, v \in Values : Edit(s, v)
        BY <1>2, <1>3, <1>4, <2>1 DEF Edit, deviceVars
    <2>2. CASE \E k \in Keys : PressKey(k)
        BY <1>2, <1>3, <1>4, <2>2 DEF PressKey, deviceVars
    <2>3. CASE RefreshSync
        <3>1. /\ IsReady /\ StartTask(BuildSyncSteps, support)
              /\ UNCHANGED <<recvBuf, wireVars, support, devFns, spent, pending>>
            BY <2>3 DEF RefreshSync, StartSync, deviceVars
        <3>2. Undisturbed' => Undisturbed
            BY <3>1 DEF Undisturbed, wireVars
        <3> QED BY <1>7, <3>1, <3>2, StartSupport DEF wireVars
    <2>4. CASE Disconnect
        BY <1>5, <2>4 DEF Disconnect
    <2>5. \A i \in DOMAIN GeneralOrder : GeneralOrder[i] \in Settings
        BY OrderedSettings DEF Settings
    <2> QED BY <1>12, <2>1, <2>2, <2>3, <2>4, <2>5 DEF User, EditGeneral, Settings
<1>13. CASE Environment
    <2>1. UNCHANGED <<task, recvBuf, pending, support, devFns>>
        BY <1>13 DEF Environment, DeviceChanges, LoseCommand, LoseAnswer, LinkBreaks,
                     engineVars, deviceVars
    <2>2. CASE LoseCommand
        <3>1. fromDevice' = fromDevice /\ link' = link /\ spent'.late = spent.late
            BY <1>2, <1>3, <2>2 DEF LoseCommand
        <3>2. Truthful(Replies) => Truthful(Replies)'
            BY <2>1, <3>1 DEF Truthful, Replies
        <3> QED BY <2>1, <3>1, <3>2, SameTask DEF Undisturbed
    <2>3. CASE LoseAnswer
        <3>1. /\ fromDevice # <<>> /\ fromDevice' = Tail(fromDevice) /\ link' = link
              /\ spent'.late = spent.late
            BY <1>2, <1>3, <2>3 DEF LoseAnswer
        <3>2. PICK m \in [At(Replies', Tables) -> At(Replies, Tables)] :
                  \A i \in At(Replies', Tables) : Replies'[i] = Replies[m[i]]
            <4>1. Within(recvBuf \o Tail(fromDevice), recvBuf \o fromDevice, Tables)
                BY <1>1, <3>1, WithinLess
            <4> QED BY <2>1, <3>1, <4>1 DEF Replies, Within
        <3>3. Truthful(Replies) => Truthful(Replies)'
            BY <2>1, <3>2 DEF Truthful
        <3> QED BY <2>1, <3>1, <3>3, SameTask DEF Undisturbed
    <2>4. ASSUME NEW s \in Settings, NEW v \in Values, DeviceChanges(s, v)
          PROVE  SupportInv'
        <3>1. /\ link' = link /\ spent'.late = spent.late
              /\ fromDevice' = IF link = "up" THEN fromDevice \o Report("RetParam", s, v)
                               ELSE fromDevice
            BY <1>2, <1>3, <2>4 DEF DeviceChanges
        <3>2. Undisturbed' => Undisturbed
            BY <2>1, <3>1 DEF Undisturbed
        <3>3. ASSUME link = "up" PROVE Truthful(Replies) => Truthful(Replies)'
            BY <1>1, <2>1, <3>1, <3>3, ReportMore DEF Truthful
        <3> QED BY <2>1, <3>1, <3>2, <3>3, SameTask
    <2>5. CASE LinkBreaks
        BY <2>1, <2>5, SameTask DEF LinkBreaks, Undisturbed
    <2> QED BY <1>13, <2>2, <2>3, <2>4, <2>5 DEF Environment
<1>14. CASE UNCHANGED vars
    BY <1>4, <1>14 DEF vars, engineVars, deviceVars
<1> QED BY <1>6, <1>8, <1>9, <1>10, <1>11, <1>12, <1>13, <1>14 DEF Next

LEMMA SupportInvariance == Spec => [](IInv /\ SupportInv)
<1>1. Init => SupportInv
    BY NoTaskType DEF Init, NewEngine, SupportInv, Undisturbed
<1>2. IInv /\ WaitInv /\ SupportInv /\ [Next]_vars => SupportInv'
    BY SupportKept
<1> QED BY <1>1, <1>2, WaitInvariance, PTL DEF Spec

\* Unless an answer was late, the engine knows exactly what the headphones
\* advertise once its init handshake is over (request_init, IfTable2 and the
\* waits behind the tables), whatever was lost and sent again meanwhile.
THEOREM SupportIsComplete == Spec => [](spent.late = 0 => SupportComplete)
<1>1. IInv /\ SupportInv => (spent.late = 0 => SupportComplete)
    <2> SUFFICES ASSUME IInv, SupportInv, spent.late = 0, Established PROVE support = devFns
        BY DEF SupportComplete
    <2>1. /\ Undisturbed /\ ~task.running /\ support \subseteq devFns
          /\ devFns \subseteq Functions
        BY AdvertisedAssumption
           DEF Established, IsReady, Undisturbed, SupportInv, IInv, DeviceTypes
    <2>2. \A op \in Asking : devFns \intersect Covered(TableFor(op)) \subseteq support
        BY <2>1 DEF SupportInv, Complete, Told, Pending, TableTwoAhead, Asking
    <2>3. /\ devFns \intersect {"Table2"} \subseteq support
          /\ devFns \intersect General \subseteq support
          /\ devFns \intersect {"PairedList"} \subseteq support
        BY <2>2 DEF Asking, TableFor, Covered
    <2> QED BY <2>1, <2>3 DEF Functions
<1> QED BY <1>1, SupportInvariance, PTL

---------------------------------------------------------------------------
(* One loss *)

\* The table that the command in last asks for.
Asked(f, last) == f \in Tables /\ f.body.op = TableFor(last.op)

\* What a task waits for is under way: its last command, or the ACK, with the
\* table behind it if the command asks for one, or that table.
Served(line, replies, wait, last) ==
    \/ \E i \in At(line, Commands) : line[i].body = last
    \/ /\ wait = "Ack"
       /\ \E i \in At(replies, Acks) : last.op \in Asking =>
              \E j \in At(replies, Tables) : i < j /\ Asked(replies[j], last)
    \/ /\ wait # "Ack"
       /\ \E j \in At(replies, Tables) : Asked(replies[j], last)

Coming == Served(Line, Replies, task.wait, task.last)

\* Before the first loss a repeat is due to an answer that was late; after it
\* a repeat makes good for the loss, and another for a drop.
Patient ==
    IF spent.lost + spent.missed = 0
    THEN /\ Coming
         /\ task.retries <= spent.late
         /\ task.deadline = "passed" => task.retries < spent.late
    ELSE /\ task.retries <= 1 + dropped
         /\ ~Coming \/ task.deadline = "passed" => task.retries <= dropped

OneAtMost == spent.lost + spent.missed + spent.late <= 1 /\ spent.breaks = 0

LossInv ==
    OneAtMost =>
        /\ "Fatal" \notin pending /\ link # "broken"
        /\ task.wait # "None" => Patient

\* A command that is sent.
LEMMA ServedBySend ==
    ASSUME NEW line \in Seq(Outgoing), NEW seq \in 0..1, NEW body \in Requests,
           NEW replies, NEW wait
    PROVE  Served(Append(line, DataFrame(seq, body)), replies, wait, body)
<1> DEFINE frame == DataFrame(seq, body)
           more == Append(line, frame)
<1>1. frame \in Outgoing /\ frame.type = "Data" /\ frame.body = body
    BY DEF DataFrame, Outgoing
<1>2. frame \in Commands
    BY <1>1 DEF Commands
<1> HIDE DEF frame
<1>3. At(more, Commands) = At(line, Commands) \union {Len(line) + 1} /\ more[Len(line) + 1] = frame
    BY <1>1, <1>2, AtMore
<1> HIDE DEF more
<1>4. Len(line) + 1 \in At(more, Commands) /\ more[Len(line) + 1].body = body
    BY <1>1, <1>3
<1>5. Served(more, replies, wait, body)
    BY <1>4 DEF Served
<1> QED BY <1>5 DEF more, frame

\* A frame that goes first and is not what the task waits for.
LEMMA ServedTail ==
    ASSUME NEW line, NEW replies \in Seq(Incomings), replies # <<>>, NEW wait, NEW last,
           Served(line, replies, wait, last),
           wait = "Ack" => Head(replies) \notin Acks,
           wait # "Ack" => ~Asked(Head(replies), last)
    PROVE  Served(line, Tail(replies), wait, last)
<1> DEFINE rest == Tail(replies)
<1>1. ASSUME NEW kind, NEW j \in At(replies, kind), j # 1
      PROVE  j - 1 \in At(rest, kind) /\ rest[j - 1] = replies[j] /\ j \in Nat
    <2>1. j \in Nat \ {0} /\ j - 1 \in At(rest, kind)
        BY <1>1, AtTail
    <2>2. rest[j - 1] = replies[(j - 1) + 1]
        BY <2>1, AtTail
    <2>3. (j - 1) + 1 = j
        BY <2>1
    <2> HIDE DEF rest
    <2> QED BY <2>1, <2>2, <2>3
<1>2. Head(replies) = replies[1]
    BY HeadTailProperties
<1>3. \A kind : 1 \in At(replies, kind) => replies[1] \in kind
    BY DEF At
<1> HIDE DEF rest
<1>4. CASE \E i \in At(line, Commands) : line[i].body = last
    BY <1>4 DEF Served, rest
<1>5. CASE wait = "Ack" /\ \E i \in At(replies, Acks) : last.op \in Asking =>
               \E j \in At(replies, Tables) : i < j /\ Asked(replies[j], last)
    <2>1. PICK i \in At(replies, Acks) : last.op \in Asking =>
              \E j \in At(replies, Tables) : i < j /\ Asked(replies[j], last)
        BY <1>5
    <2>2. i # 1
        BY <1>2, <1>3, <1>5
    <2>3. i - 1 \in At(rest, Acks) /\ i \in Nat
        BY <1>1, <2>2
    <2>4. ASSUME last.op \in Asking
          PROVE  \E j \in At(rest, Tables) : i - 1 < j /\ Asked(rest[j], last)
        <3>1. PICK j \in At(replies, Tables) : i < j /\ Asked(replies[j], last)
            BY <2>1, <2>4
        <3>2. i \in Nat \ {0} /\ j \in Nat \ {0}
            BY AtTail
        <3>3. j # 1 /\ i - 1 < j - 1
            BY <3>1, <3>2
        <3>4. j - 1 \in At(rest, Tables) /\ rest[j - 1] = replies[j]
            BY <1>1, <3>3
        <3>5. Asked(rest[j - 1], last)
            BY <3>1, <3>4
        <3> QED BY <3>3, <3>4, <3>5
    <2> QED BY <1>5, <2>3, <2>4 DEF Served, rest
<1>6. CASE wait # "Ack" /\ \E j \in At(replies, Tables) : Asked(replies[j], last)
    <2>1. PICK j \in At(replies, Tables) : Asked(replies[j], last)
        BY <1>6
    <2>2. j # 1
        BY <1>2, <1>6, <2>1
    <2>3. j - 1 \in At(rest, Tables) /\ rest[j - 1] = replies[j]
        BY <1>1, <2>2
    <2>4. Asked(rest[j - 1], last)
        BY <2>1, <2>3
    <2> QED BY <1>6, <2>3, <2>4 DEF Served, rest
<1> QED BY <1>4, <1>5, <1>6 DEF Served

\* The ACK of a command that asks: its table is still under way.
LEMMA ServedByTable ==
    ASSUME NEW line, NEW replies \in Seq(Incomings), replies # <<>>, NEW last,
           last.op \in Asking, NEW wait, wait # "Ack",
           Served(line, replies, "Ack", last)
    PROVE  Served(line, Tail(replies), wait, last)
<1> DEFINE rest == Tail(replies)
<1>1. CASE \E i \in At(line, Commands) : line[i].body = last
    BY <1>1 DEF Served
<1>2. CASE \E i \in At(replies, Acks) : last.op \in Asking =>
               \E j \in At(replies, Tables) : i < j /\ Asked(replies[j], last)
    <2>1. PICK i \in At(replies, Acks), j \in At(replies, Tables) :
              i < j /\ Asked(replies[j], last)
        BY <1>2
    <2>2. i \in Nat \ {0} /\ j \in Nat \ {0}
        BY AtTail
    <2>3. j # 1
        BY <2>1, <2>2
    <2>4. j - 1 \in At(rest, Tables)
        BY <2>3, AtTail
    <2>5. rest[j - 1] = replies[(j - 1) + 1]
        BY <2>4, AtTail
    <2>6. (j - 1) + 1 = j
        BY <2>2
    <2> HIDE DEF rest
    <2>7. Asked(rest[j - 1], last)
        BY <2>1, <2>5, <2>6
    <2> QED BY <2>4, <2>7 DEF Served, rest
<1> QED BY <1>1, <1>2 DEF Served

\* More on the way is no less.
LEMMA ServedMore ==
    ASSUME NEW line, NEW more, NEW replies, NEW replied, NEW wait, NEW last,
           Served(line, replies, wait, last),
           \A i \in At(line, Commands) : line[i].body = last =>
               \E j \in At(more, Commands) : more[j].body = last,
           \A kind \in {Acks, Tables} : \A i \in At(replies, kind) :
               i \in At(replied, kind) /\ replied[i] = replies[i]
    PROVE  Served(more, replied, wait, last)
<1>1. /\ \A i \in At(replies, Acks) : i \in At(replied, Acks)
      /\ \A i \in At(replies, Tables) : i \in At(replied, Tables) /\ replied[i] = replies[i]
    OBVIOUS
<1>2. \A j \in At(replies, Tables) : Asked(replies[j], last) => Asked(replied[j], last)
    BY <1>1
<1> QED BY <1>1, <1>2 DEF Served

\* A wait that begins.
Renewed(t) == t.wait # "None" => t.deadline = "running" /\ t.retries = 0

LEMMA AdvancedRenewed ==
    ASSUME NEW t \in Tasks, t.running, EndsInDone(t.steps), t.wait = "None",
           NEW buf, NEW known
    PROVE  Renewed(Advanced(t, buf, known).task)
<1> DEFINE rest == Unfold(t.steps, known)
           front == Head(rest)
           next == Advanced(t, buf, known).task
<1>1. rest # <<>>
    BY UnfoldKeepsDone DEF Tasks, EndsInDone
<1>2. ASSUME NEW wait, NEW body
      PROVE  Renewed([t EXCEPT !.steps = rest, !.wait = wait, !.deadline = "running",
                               !.last = body, !.retries = 0])
    BY DEF Renewed, Tasks
<1>3. CASE front.kind = "Send"
    <2>1. next = [t EXCEPT !.steps = rest, !.wait = "Ack", !.deadline = "running",
                           !.last = front.body, !.retries = 0]
        BY <1>1, <1>3 DEF Advanced
    <2> HIDE DEF rest, next
    <2>2. Renewed(next)
        BY <1>2, <2>1
    <2> QED BY <2>2 DEF next
<1>4. CASE front.kind = "Await"
    <2>1. next = [t EXCEPT !.steps = rest, !.wait = front.wait, !.deadline = "running",
                           !.last = t.last, !.retries = 0]
        BY <1>1, <1>4 DEF Advanced
    <2> HIDE DEF rest, next
    <2>2. Renewed(next)
        BY <1>2, <2>1
    <2> QED BY <2>2 DEF next
<1>5. CASE front.kind \notin {"Send", "Await"}
    <2>1. next = [t EXCEPT !.steps = rest]
        BY <1>1, <1>5 DEF Advanced
    <2> HIDE DEF rest
    <2>2. next.wait = "None"
        BY <2>1 DEF Tasks
    <2> QED BY <2>2 DEF Renewed
<1> QED BY <1>3, <1>4, <1>5

LEMMA StartRenewed ==
    ASSUME NEW steps \in Seq(Steps), EndsInDone(steps), NEW known, StartTask(steps, known)
    PROVE  Renewed(task')
BY NewTask, AdvancedRenewed DEF StartTask

LEMMA AdvanceRenewed ==
    ASSUME EngineTypes, TaskInv, NEW wait \in Waits, task.wait = wait, NEW buf, NEW known,
           AdvanceOn(wait, buf, known)
    PROVE  Renewed(task')
<1> DEFINE left == [task EXCEPT !.wait = "None", !.deadline = "none", !.steps = Tail(@)]
           next == Advanced(left, buf, known)
<1>1. task \in Tasks /\ task.running
    BY DEF EngineTypes, TaskInv, Waits
<1>2. Tail(task.steps) \in Seq(Steps) /\ EndsInDone(Tail(task.steps))
    BY AdvanceGoesOn
<1>3. /\ left \in Tasks /\ left.running /\ left.steps = Tail(task.steps) /\ left.wait = "None"
    BY <1>1, <1>2 DEF Tasks
<1>4. task' = NoTask \/ task' = next.task
    BY DEF AdvanceOn
<1> HIDE DEF left
<1>5. Renewed(next.task)
    BY <1>2, <1>3, AdvancedRenewed
<1> QED BY <1>4, <1>5, NoTaskType DEF Renewed

\* What a task goes on with is under way from the start, unless it is a wait.
LEMMA GoesOnServed ==
    ASSUME toDevice \in Seq(Outgoing), txSeq \in 0..1, NEW buf \in Seq(Outgoing),
           NEW steps, NEW last, GoesOn(steps, last, buf), Head(steps).kind # "Await",
           toDevice' = toDevice
    PROVE  task'.wait # "None" => Coming'
<1>1. CASE Head(steps).kind = "Send"
    <2>1. /\ task'.last \in Requests
          /\ sendBuf' = Append(buf, DataFrame(txSeq, task'.last))
        BY <1>1 DEF GoesOn
    <2>2. DataFrame(txSeq, task'.last) \in Outgoing
        BY <2>1 DEF DataFrame, Outgoing
    <2>3. Line' = Append(toDevice \o buf, DataFrame(txSeq, task'.last))
          /\ toDevice \o buf \in Seq(Outgoing)
        BY <2>1, <2>2, LineWith DEF Line
    <2>4. Served(Line', Replies', task'.wait, task'.last)
        BY <2>1, <2>3, ServedBySend
    <2> QED BY <2>4 DEF Coming
<1>2. CASE Head(steps).kind = "Done"
    BY <1>2 DEF GoesOn
<1> QED BY <1>1, <1>2 DEF GoesOn

\* Steps that leave the task to wait for what it waits for ...
LEMMA StillPatient ==
    ASSUME LossInv, dropped' = dropped, spent'.lost = spent.lost, spent'.missed = spent.missed,
           spent'.late = spent.late, spent'.breaks = spent.breaks,
           OneAtMost => "Fatal" \notin pending' /\ link' # "broken",
           task'.wait = task.wait, task'.retries = task.retries, task'.deadline = task.deadline,
           task.wait # "None" /\ Coming => Coming'
    PROVE  LossInv'
<1>1. OneAtMost' => OneAtMost
    BY DEF OneAtMost
<1>2. OneAtMost /\ task.wait # "None" => Patient'
    BY DEF LossInv, Patient
<1> QED BY <1>1, <1>2 DEF LossInv

\* ... and steps that begin a wait.
LEMMA NewlyPatient ==
    ASSUME DeviceTypes, UNCHANGED <<spent, dropped>>,
           OneAtMost => "Fatal" \notin pending' /\ link' # "broken",
           Renewed(task'),
           OneAtMost /\ spent.lost + spent.missed = 0 /\ task'.wait # "None" => Coming'
    PROVE  LossInv'
<1>1. OneAtMost' => OneAtMost
    BY DEF OneAtMost
<1>2. dropped \in Nat /\ spent.late \in Nat
    BY DEF DeviceTypes, Counts
<1>3. OneAtMost /\ task'.wait # "None" => Patient'
    BY <1>2 DEF Patient, Renewed
<1> QED BY <1>1, <1>3 DEF LossInv

\* A task down to its Done reports what it was for, and no failure.
LEMMA DoneEvent ==
    ASSUME NEW t \in Tasks, AtDone(t)
    PROVE  Head(t.steps).event # "Fatal"
<1>1. t.steps \in Seq(Steps) /\ t.steps # <<>> /\ Head(t.steps).kind = "Done"
    BY DEF Tasks, AtDone
<1>2. Head(t.steps) \in Steps
    BY <1>1, HeadTailProperties
<1>3. Head(t.steps) \in DoneSteps
    BY <1>1, <1>2 DEF Steps, SendSteps, IfSteps
<1> QED BY <1>3 DEF DoneSteps

\* Nothing but a deadline passed for the last time and a dead connection
\* makes a task fail.
LEMMA FailsOnlyThen ==
    ASSUME IInv, EngineStep, ~GiveUp, ~TransportError, "Fatal" \notin pending
    PROVE  "Fatal" \notin pending'
<1>1. EngineTypes /\ TaskInv /\ task \in Tasks /\ txSeq \in 0..1
    BY DEF IInv, EngineTypes
<1>2. ASSUME NEW event, event # "Fatal", Emit(event) PROVE "Fatal" \notin pending'
    BY <1>2 DEF Emit
<1>3. ASSUME NEW stage, StayQuiet(stage) PROVE "Fatal" \notin pending'
    BY <1>3 DEF StayQuiet
<1>4. ASSUME NEW wait \in Waits, NEW buf \in Seq(Outgoing), NEW known, AdvanceOn(wait, buf, known)
      PROVE  "Fatal" \notin pending'
    <2> DEFINE left == [task EXCEPT !.wait = "None", !.deadline = "none", !.steps = Tail(@)]
               next == Advanced(left, buf, known)
    <2>1. CASE task.wait # wait
        BY <1>3, <1>4, <2>1 DEF AdvanceOn
    <2>2. CASE task.wait = wait
        <3>1. task.running
            BY <1>1, <2>2 DEF TaskInv, Waits
        <3>2. Tail(task.steps) \in Seq(Steps) /\ EndsInDone(Tail(task.steps))
            BY <1>1, <1>4, <2>2, AdvanceGoesOn
        <3>3. /\ left \in Tasks /\ left.running /\ left.steps = Tail(task.steps)
              /\ left.wait = "None" /\ left.deadline = "none"
            BY <1>1, <3>1, <3>2 DEF Tasks
        <3>4. \/ AtDone(next.task) /\ Emit(Head(next.task.steps).event)
              \/ StayQuiet("tail")
            BY <1>4, <2>2 DEF AdvanceOn
        <3> HIDE DEF left
        <3>5. next.task \in Tasks
            BY <1>1, <1>4, <3>2, <3>3, AdvancedProceeds
        <3> HIDE DEF next
        <3> QED BY <1>2, <1>3, <3>4, <3>5, DoneEvent
    <2> QED BY <2>1, <2>2
<1>5. CASE StepCompleted
    BY <1>1, <1>2, <1>3, <1>5, DoneEvent DEF StepCompleted
<1>6. CASE HandleAck \/ HandleProtocolInfo \/ HandleSupportFunction
    <2>1. sendBuf \in Seq(Outgoing) /\ Acked \in Seq(Outgoing)
          /\ {"Ack", "ProtocolInfo", "SupportFunction"} \subseteq Waits
        BY AckedType DEF IInv, WireTypes, Waits
    <2> QED BY <1>4, <1>6, <2>1 DEF HandleAck, HandleProtocolInfo, HandleSupportFunction
<1>7. CASE HandleCapability \/ HandleParam \/ HandlePairedList
    BY <1>2, <1>7 DEF HandleCapability, HandleParam, HandlePairedList
<1>8. CASE FlushSendBuf \/ ReadFrames \/ DeadlineOpen \/ Retransmit \/ NoFrame
    BY <1>3, <1>8 DEF FlushSendBuf, ReadFrames, DeadlineOpen, Retransmit, NoFrame
<1> QED BY <1>5, <1>6, <1>7, <1>8 DEF EngineStep, Poll

\* With a deadline passed there is a repeat left.
LEMMA RepeatLeft ==
    ASSUME IInv, WaitInv, LossInv, OneAtMost, MaxRetries >= 2, task.deadline = "passed"
    PROVE  task.retries < MaxRetries /\ task.last # NoBody
<1>1. /\ task \in Tasks /\ TaskInv /\ TaskShape /\ dropped \in Nat /\ task.retries \in Nat
      /\ spent.lost \in Nat /\ spent.missed \in Nat /\ spent.late \in Nat
      /\ dropped <= spent.lost
    <2>1. /\ task \in Tasks /\ TaskInv /\ TaskShape /\ dropped \in Nat
          /\ spent \in [Counts -> Nat] /\ dropped <= spent.lost
        BY DEF IInv, EngineTypes, DeviceTypes, WaitInv, LineInv
    <2>2. task.retries \in 0..MaxRetries /\ MaxRetries \in Nat
        BY <2>1, LimitAssumption DEF Tasks
    <2> QED BY <2>1, <2>2 DEF Counts
<1>2. task.running /\ Proceeding(task) /\ task.wait # "None"
    BY <1>1 DEF TaskInv, Proceeding
<1>3. Patient
    BY <1>2 DEF LossInv
<1>4. task.retries < MaxRetries
    <2>1. CASE spent.lost + spent.missed = 0
        <3>1. task.retries < spent.late /\ spent.late <= 1
            BY <1>1, <1>3, <2>1 DEF Patient, OneAtMost
        <3> QED BY <1>1, <3>1, LimitAssumption
    <2>2. CASE spent.lost + spent.missed # 0
        <3>1. task.retries <= dropped /\ spent.lost <= 1
            BY <1>1, <1>3, <2>2 DEF Patient, OneAtMost
        <3> QED BY <1>1, <3>1, LimitAssumption
    <2> QED BY <2>1, <2>2
<1>5. task.last # NoBody
    <2>1. task.last.op # "None"
        <3>1. CASE task.wait = "Ack"
            <4>1. task.steps \in Seq(Steps) /\ task.steps # <<>>
                BY <1>1, <1>2 DEF Tasks, Proceeding, EndsInDone
            <4>2. Head(task.steps) \in Steps
                BY <4>1, HeadTailProperties
            <4>3. task.last \in Requests
                BY <1>1, <1>2, <3>1, <4>2, SendFields DEF TaskShape, AtStep
            <4> QED BY <4>3 DEF Requests
        <3>2. CASE task.wait # "Ack"
            BY <1>1, <1>2, <3>2 DEF TaskShape, AtStep, Asking
        <3> QED BY <3>1, <3>2
    <2> QED BY <2>1 DEF NoBody, Body
<1> QED BY <1>4, <1>5

\* The engine takes an ACK.
LEMMA AckServed ==
    ASSUME IInv, WaitInv, LossInv, HandleAck, UNCHANGED wireVars,
           UNCHANGED <<spent, dropped>>,
           OneAtMost => "Fatal" \notin pending' /\ link' # "broken"
    PROVE  LossInv'
<1>1. /\ WireTypes /\ EngineTypes /\ TaskInv /\ TaskShape /\ DeviceTypes /\ txSeq \in 0..1
      /\ toDevice \in Seq(Outgoing) /\ sendBuf \in Seq(Outgoing) /\ "Ack" \in Waits
      /\ recvBuf # <<>> /\ Head(recvBuf).type = "Ack" /\ recvBuf' = Tail(recvBuf)
      /\ AdvanceOn("Ack", sendBuf, support) /\ toDevice' = toDevice /\ fromDevice' = fromDevice
    BY DEF IInv, EngineTypes, WireTypes, WaitInv, HandleAck, wireVars, Waits
<1>2. /\ Replies \in Seq(Incomings) /\ Replies # <<>> /\ Head(Replies) = Head(recvBuf)
      /\ Tail(recvBuf) \o fromDevice = Tail(Replies)
    BY <1>1, FirstReply
<1>3. Replies' = Tail(Replies)
    BY <1>1, <1>2 DEF Replies
<1> HIDE DEF Replies
<1>4. CASE task.wait # "Ack"
    <2>1. sendBuf' = sendBuf /\ task' = task
        BY <1>1, <1>4 DEF AdvanceOn
    <2>2. Line' = Line
        BY <1>1, <2>1 DEF Line
    <2>3. ~Asked(Head(Replies), task.last)
        BY <1>1, <1>2 DEF Asked, Tables
    <2>4. Coming => Coming'
        BY <1>2, <1>3, <1>4, <2>1, <2>2, <2>3, ServedTail DEF Coming
    <2> QED BY <1>1, <2>1, <2>4, StillPatient
<1>5. CASE task.wait = "Ack"
    <2>1. Renewed(task')
        BY <1>1, <1>5, AdvanceRenewed
    <2>2. CASE Asks(Head(task.steps))
        <3>1. /\ task'.wait \notin {"None"} /\ task'.last = task.last /\ sendBuf' = sendBuf
              /\ task.last = Head(task.steps).body /\ task'.running
              /\ Head(task'.steps) = Await(WaitFor(task.last.op))
            BY <1>1, <1>5, <2>2, AdvanceShaped
        <3>2. Line' = Line
            BY <1>1, <3>1 DEF Line
        <3>3. task'.wait # "Ack"
            <4>1. TaskShape'
                BY <1>1, <1>5, AdvanceShaped
            <4>2. Head(task'.steps).kind = "Await"
                BY <3>1 DEF Await
            <4> QED BY <3>1, <4>1, <4>2 DEF TaskShape, AtStep
        <3>4. task.last.op \in Asking
            BY <2>2, <3>1 DEF Asks
        <3>5. Coming => Coming'
            BY <1>2, <1>3, <1>5, <3>1, <3>2, <3>3, <3>4, ServedByTable DEF Coming
        <3>6. OneAtMost /\ spent.lost + spent.missed = 0 => Coming
            BY <1>5 DEF LossInv, Patient
        <3> QED BY <1>1, <2>1, <3>5, <3>6, NewlyPatient
    <2>3. CASE ~Asks(Head(task.steps))
        <3>1. Head(Unfold(Tail(task.steps), support)).kind # "Await"
            BY <1>1, <1>5, <2>3, AdvanceShaped
        <3>2. \/ GoesOn(Unfold(Tail(task.steps), support), task.last, sendBuf)
              \/ task' = NoTask
            BY <1>1, <1>5, AdvanceGoesOn
        <3>3. task'.wait # "None" => Coming'
            BY <1>1, <3>1, <3>2, GoesOnServed, NoTaskType
        <3> QED BY <1>1, <2>1, <3>3, NewlyPatient
    <2> QED BY <2>2, <2>3
<1> QED BY <1>4, <1>5

\* An ACK of the engine behind the line.
LEMMA ServedAcked ==
    ASSUME WireTypes, sendBuf' = Acked, toDevice' = toDevice, NEW replies, NEW wait, NEW last,
           Served(Line, replies, wait, last)
    PROVE  Served(Line', replies, wait, last)
<1>1. toDevice \in Seq(Outgoing) /\ sendBuf \in Seq(Outgoing) /\ Line \in Seq(Outgoing)
    BY ConcatProperties DEF WireTypes, Line
<1>2. AckFrame \in Outgoing /\ AckFrame \notin Commands
    BY DEF Outgoing, Commands, AckFrame
<1>3. Line' = Append(Line, AckFrame)
    BY <1>1, <1>2, LineWith DEF Acked, Line
<1> HIDE DEF Line
<1>4. \A i \in At(Line, Commands) :
          i \in At(Append(Line, AckFrame), Commands) /\ Append(Line, AckFrame)[i] = Line[i]
    BY <1>1, <1>2, AtMore
<1>5. \A i \in At(Line, Commands) : Line[i].body = last =>
          \E j \in At(Line', Commands) : Line'[j].body = last
    BY <1>3, <1>4
<1> QED BY <1>5, ServedMore

\* The engine takes a frame that tells it nothing it awaits.
LEMMA OtherServed ==
    ASSUME IInv, LossInv, recvBuf # <<>>, recvBuf' = Tail(recvBuf), UNCHANGED wireVars,
           UNCHANGED <<task, spent, dropped>>, sendBuf' = Acked,
           Head(recvBuf) \notin Acks,
           task.wait \notin {"None", "Ack"} => ~Asked(Head(recvBuf), task.last),
           OneAtMost => "Fatal" \notin pending' /\ link' # "broken"
    PROVE  LossInv'
<1>1. WireTypes /\ toDevice' = toDevice /\ fromDevice' = fromDevice
    BY DEF IInv, wireVars
<1>2. /\ Replies \in Seq(Incomings) /\ Replies # <<>> /\ Head(Replies) = Head(recvBuf)
      /\ Tail(recvBuf) \o fromDevice = Tail(Replies)
    BY <1>1, FirstReply
<1>3. Replies' = Tail(Replies)
    BY <1>1, <1>2 DEF Replies
<1> HIDE DEF Replies
<1>4. ASSUME task.wait # "None", Coming PROVE Coming'
    <2>1. Served(Line, Tail(Replies), task.wait, task.last)
        BY <1>2, <1>4, ServedTail DEF Coming
    <2>2. Served(Line', Tail(Replies), task.wait, task.last)
        BY <1>1, <2>1, ServedAcked
    <2> QED BY <1>3, <2>2 DEF Coming
<1> QED BY <1>4, StillPatient

\* The engine takes a table, or the protocol info.
LEMMA TableServed ==
    ASSUME IInv, WaitInv, LossInv, NEW wait \in {"ProtocolInfo", "SupportFunction"}, NEW known,
           recvBuf # <<>>, Head(recvBuf) \in Tables, recvBuf' = Tail(recvBuf),
           \A op \in Asking : Head(recvBuf).body.op = TableFor(op) => wait = WaitFor(op),
           AdvanceOn(wait, Acked, known), UNCHANGED wireVars, UNCHANGED <<spent, dropped>>,
           OneAtMost => "Fatal" \notin pending' /\ link' # "broken"
    PROVE  LossInv'
<1>1. /\ WireTypes /\ EngineTypes /\ TaskInv /\ TaskShape /\ DeviceTypes /\ txSeq \in 0..1
      /\ toDevice \in Seq(Outgoing) /\ Acked \in Seq(Outgoing) /\ wait \in Waits
      /\ toDevice' = toDevice
    BY AckedType DEF IInv, EngineTypes, WireTypes, WaitInv, wireVars, Waits
<1>2. CASE task.wait # wait
    <2>1. sendBuf' = Acked /\ task' = task
        BY <1>2 DEF AdvanceOn
    <2>2. Head(recvBuf) \notin Acks
        BY DEF Tables, Acks, AckFrame
    <2>3. ASSUME task.wait \notin {"None", "Ack"} PROVE ~Asked(Head(recvBuf), task.last)
        <3>1. task.running
            BY <1>1, <2>3 DEF TaskInv
        <3>2. task.last.op \in Asking /\ task.wait = WaitFor(task.last.op)
            BY <1>1, <2>3, <3>1 DEF TaskShape, AtStep
        <3> QED BY <1>2, <3>2 DEF Asked
    <2> QED BY <2>1, <2>2, <2>3, OtherServed
<1>3. CASE task.wait = wait
    <2>1. Renewed(task')
        BY <1>1, <1>3, AdvanceRenewed
    <2>2. Head(task.steps) = Await(wait)
        BY <1>1, <1>3, AdvanceShaped
    <2>3. ~Asks(Head(task.steps))
        BY <2>2 DEF Asks, Await
    <2>4. Head(Unfold(Tail(task.steps), known)).kind # "Await"
        BY <1>1, <1>3, <2>3, AdvanceShaped
    <2>5. \/ GoesOn(Unfold(Tail(task.steps), known), task.last, Acked)
          \/ task' = NoTask
        BY <1>1, <1>3, AdvanceGoesOn
    <2>6. task'.wait # "None" => Coming'
        BY <1>1, <2>4, <2>5, GoesOnServed, NoTaskType
    <2> QED BY <1>1, <2>1, <2>6, NewlyPatient
<1> QED BY <1>2, <1>3

\* The engine sends the last command again.
LEMMA RepeatServed ==
    ASSUME IInv, LossInv, WaitInv, Retransmit, UNCHANGED wireVars, UNCHANGED <<spent, dropped>>,
           OneAtMost => "Fatal" \notin pending' /\ link' # "broken"
    PROVE  LossInv'
<1>1. /\ WireTypes /\ task \in Tasks /\ TaskInv /\ txSeq \in 0..1
      /\ toDevice \in Seq(Outgoing) /\ sendBuf \in Seq(Outgoing)
      /\ dropped \in Nat /\ spent \in [Counts -> Nat] /\ task.retries \in Nat
    BY LimitAssumption DEF IInv, EngineTypes, WireTypes, DeviceTypes, Tasks
<1>2. /\ task.deadline = "passed" /\ task.last \in Requests /\ task.wait # "None"
      /\ sendBuf' = Append(sendBuf, DataFrame(txSeq, task.last))
      /\ task' = Rearmed(task) /\ toDevice' = toDevice
    BY <1>1 DEF Retransmit, wireVars, Tasks, TaskInv, Proceeding
<1>3. /\ task'.wait = task.wait /\ task'.last = task.last
      /\ task'.retries = task.retries + 1 /\ task'.deadline = "running"
    BY <1>1, <1>2 DEF Rearmed, Tasks
<1>4. Coming'
    <2>1. DataFrame(txSeq, task.last) \in Outgoing
        BY <1>1, <1>2 DEF DataFrame, Outgoing
    <2>2. /\ Line' = Append(toDevice \o sendBuf, DataFrame(txSeq, task'.last))
          /\ toDevice \o sendBuf \in Seq(Outgoing)
        BY <1>1, <1>2, <1>3, <2>1, LineWith DEF Line
    <2>3. Served(Line', Replies', task'.wait, task'.last)
        BY <1>1, <1>2, <1>3, <2>2, ServedBySend
    <2> QED BY <2>3 DEF Coming
<1>5. OneAtMost' => OneAtMost
    BY DEF OneAtMost
<1>6. OneAtMost => Patient
    BY <1>2 DEF LossInv
<1>7. spent.late \in Nat
    BY <1>1 DEF Counts
<1>8. OneAtMost => Patient'
    <2>1. CASE spent.lost + spent.missed = 0
        BY <1>1, <1>2, <1>3, <1>4, <1>6, <1>7, <2>1 DEF Patient
    <2>2. CASE spent.lost + spent.missed # 0
        BY <1>1, <1>2, <1>3, <1>4, <1>6, <2>2 DEF Patient
    <2> QED BY <2>1, <2>2
<1> QED BY <1>5, <1>8 DEF LossInv

LEMMA EngineStepServed ==
    ASSUME IInv, WaitInv, LossInv, MaxRetries >= 2, EngineStep
    PROVE  LossInv'
<1>1. /\ WireTypes /\ EngineTypes /\ TaskInv /\ DeviceTypes /\ task \in Tasks /\ TaskShape
      /\ toDevice \in Seq(Outgoing) /\ sendBuf \in Seq(Outgoing)
      /\ recvBuf \in Seq(Incomings) /\ fromDevice \in Seq(Incomings)
      /\ UNCHANGED <<spent, dropped>> /\ link' = link
    BY DEF IInv, EngineTypes, WireTypes, WaitInv, EngineStep, deviceVars, Poll, FlushSendBuf,
           ReadFrames, TransportError, wireVars
<1>2. CASE GiveUp
    <2>1. ~OneAtMost
        <3> SUFFICES ASSUME OneAtMost PROVE FALSE
            OBVIOUS
        <3>1. task.retries < MaxRetries /\ task.last # NoBody
            BY <1>2, RepeatLeft DEF GiveUp
        <3>2. task.retries \in Nat /\ MaxRetries \in Nat
            BY <1>1, LimitAssumption DEF Tasks
        <3> QED BY <1>2, <3>1, <3>2 DEF GiveUp
    <2> QED BY <1>1, <2>1 DEF LossInv, OneAtMost
<1>3. CASE TransportError
    <2>1. ~OneAtMost
        BY <1>3 DEF TransportError, LossInv
    <2> QED BY <1>1, <2>1 DEF LossInv, OneAtMost
<1>4. CASE ~GiveUp /\ ~TransportError
    <2>1. OneAtMost => "Fatal" \notin pending' /\ link' # "broken"
        BY <1>1, <1>4, FailsOnlyThen DEF LossInv
    <2>2. ASSUME task' = task, Line' = Line, Replies' = Replies
          PROVE  LossInv'
        <3>1. Coming => Coming'
            BY <2>2 DEF Coming
        <3> QED BY <1>1, <2>1, <2>2, <3>1, StillPatient
    <2>3. CASE FlushSendBuf
        <3>1. toDevice \o sendBuf \in Seq(Outgoing)
            BY <1>1, ConcatProperties
        <3>2. Line' = Line
            BY <2>3, <3>1, ConcatEmptySeq DEF FlushSendBuf, Line
        <3>3. Replies' = Replies /\ task' = task
            BY <2>3 DEF FlushSendBuf, Replies
        <3> QED BY <2>2, <3>2, <3>3
    <2>4. CASE ReadFrames
        <3>1. recvBuf \o fromDevice \in Seq(Incomings)
            BY <1>1, ConcatProperties
        <3>2. Replies' = Replies
            BY <2>4, <3>1, ConcatEmptySeq DEF ReadFrames, Replies
        <3>3. Line' = Line /\ task' = task
            BY <2>4 DEF ReadFrames, Line
        <3> QED BY <2>2, <3>2, <3>3
    <2>5. CASE (DeadlineOpen \/ NoFrame) /\ UNCHANGED wireVars
        <3>1. UNCHANGED <<task, sendBuf, recvBuf, toDevice, fromDevice>>
            BY <2>5 DEF DeadlineOpen, NoFrame, wireVars
        <3> QED BY <2>2, <3>1 DEF Line, Replies
    <2>6. CASE Retransmit /\ UNCHANGED wireVars
        BY <1>1, <2>1, <2>6, RepeatServed
    <2>7. CASE StepCompleted /\ UNCHANGED wireVars
        <3>1. UNCHANGED <<sendBuf, recvBuf, toDevice, fromDevice>>
              /\ (task' = task \/ task' = NoTask)
            BY <2>7 DEF StepCompleted, wireVars
        <3>2. CASE task' = task
            BY <2>2, <3>1, <3>2 DEF Line, Replies
        <3>3. CASE task' = NoTask
            BY <1>1, <2>1, <3>3, NoTaskType, NewlyPatient DEF Renewed
        <3> QED BY <3>1, <3>2, <3>3
    <2>8. CASE HandleAck /\ UNCHANGED wireVars
        BY <1>1, <2>1, <2>8, AckServed
    <2>9. ASSUME NEW op \in TableReports, Incoming(op)
          PROVE  /\ recvBuf # <<>> /\ Head(recvBuf) \in Tables /\ recvBuf' = Tail(recvBuf)
                 /\ Head(recvBuf).body.op = op
        BY <1>1, <2>9, FirstReply DEF Incoming, Tables
    <2>10. CASE HandleProtocolInfo /\ UNCHANGED wireVars
        <3>1. /\ recvBuf # <<>> /\ Head(recvBuf) \in Tables /\ recvBuf' = Tail(recvBuf)
              /\ Head(recvBuf).body.op = "RetProtocolInfo"
            BY <2>9, <2>10 DEF HandleProtocolInfo, TableReports
        <3>2. AdvanceOn("ProtocolInfo", Acked, support')
            BY <2>10 DEF HandleProtocolInfo
        <3>3. \A op \in Asking : Head(recvBuf).body.op = TableFor(op) => "ProtocolInfo" = WaitFor(op)
            BY <3>1 DEF Asking, TableFor, WaitFor
        <3> QED BY <1>1, <2>1, <2>10, <3>1, <3>2, <3>3, TableServed
    <2>11. CASE HandleSupportFunction /\ UNCHANGED wireVars
        <3>1. /\ recvBuf # <<>> /\ Head(recvBuf) \in Tables /\ recvBuf' = Tail(recvBuf)
              /\ Head(recvBuf).body.op \in {"RetSupport", "RetSupport2"}
            BY <2>9, <2>11 DEF HandleSupportFunction, TableReports
        <3>2. AdvanceOn("SupportFunction", Acked, support')
            BY <2>11 DEF HandleSupportFunction
        <3>3. \A op \in Asking :
                  Head(recvBuf).body.op = TableFor(op) => "SupportFunction" = WaitFor(op)
            BY <3>1 DEF Asking, TableFor, WaitFor
        <3> QED BY <1>1, <2>1, <2>11, <3>1, <3>2, <3>3, TableServed
    <2>12. CASE (HandleCapability \/ HandleParam \/ HandlePairedList) /\ UNCHANGED wireVars
        <3>1. /\ recvBuf # <<>> /\ recvBuf' = Tail(recvBuf) /\ sendBuf' = Acked /\ task' = task
              /\ Head(recvBuf).type = "Data"
              /\ Head(recvBuf).body.op \in {"RetCapability", "RetParam", "RetPairedList"}
            BY <2>12 DEF HandleCapability, HandleParam, HandlePairedList, Incoming
        <3>2. Head(recvBuf) \notin Acks /\ ~Asked(Head(recvBuf), task.last)
            BY <3>1 DEF Acks, AckFrame, Asked, Tables, TableReports
        <3> QED BY <1>1, <2>1, <2>12, <3>1, <3>2, OtherServed
    <2> QED
        BY <1>4, <2>3, <2>4, <2>5, <2>6, <2>7, <2>8, <2>10, <2>11, <2>12 DEF EngineStep, Poll
<1> QED BY <1>2, <1>3, <1>4

\* Behind what is there comes more.
LEMMA AtConcat ==
    ASSUME NEW S, NEW s \in Seq(S), NEW t \in Seq(S), NEW kind, NEW i \in At(s, kind)
    PROVE  i \in At(s \o t, kind) /\ (s \o t)[i] = s[i]
<1>1. /\ i \in 1..Len(s) /\ s[i] \in kind /\ Len(s) \in Nat /\ Len(t) \in Nat
      /\ s \o t \in Seq(S) /\ Len(s \o t) = Len(s) + Len(t)
    BY ConcatProperties, LenProperties DEF At
<1>2. (s \o t)[i] = s[i] /\ DOMAIN (s \o t) = 1..(Len(s) + Len(t))
    BY <1>1, ConcatProperties, LenProperties
<1> QED BY <1>1, <1>2 DEF At

\* The headphones take the command that the task waits for.
LEMMA ServedTaken ==
    ASSUME DeviceTypes, NEW line, NEW replies \in Seq(Incomings), NEW last \in Requests,
           NEW wait, wait # "Ack" => last.op \in Asking
    PROVE  Served(line, (replies \o <<AckFrame>>) \o Answer(last), wait, last)
<1> DEFINE acked == Append(replies, AckFrame)
           n == Len(replies)
           more == (replies \o <<AckFrame>>) \o Answer(last)
<1>1. AckFrame \in Incomings /\ AckFrame \in Acks
    BY DEF Incomings, Acks
<1>2. /\ replies \o <<AckFrame>> = acked /\ acked \in Seq(Incomings)
      /\ n \in Nat /\ Len(acked) = n + 1 /\ Answer(last) \in Seq(Incomings)
    BY <1>1, AppendIsConcat, AppendProperties, LenProperties, AnswerType
<1>3. n + 1 \in At(acked, Acks)
    BY <1>1, AtMore
<1> HIDE DEF acked, n
<1>4. more = acked \o Answer(last)
    BY <1>2
<1>5. n + 1 \in At(more, Acks)
    BY <1>2, <1>3, <1>4, AtConcat
<1>6. ASSUME last.op \in Asking
      PROVE  n + 2 \in At(more, Tables) /\ Asked(more[n + 2], last)
    <2>1. PICK report \in Incomings :
              /\ Answer(last) = <<report>> /\ report \in Tables
              /\ report.body.op = TableFor(last.op)
        BY <1>6, AnswerCases
    <2>2. more = Append(acked, report)
        BY <1>2, <1>4, <2>1, AppendIsConcat
    <2>3. Len(acked) + 1 = n + 2
        BY <1>2
    <2>4. Append(acked, report)[Len(acked) + 1] = report
          /\ Len(acked) + 1 \in At(Append(acked, report), Tables)
        BY <1>2, <2>1, AtMore
    <2> HIDE DEF more
    <2>5. more[n + 2] = report /\ n + 2 \in At(more, Tables)
        BY <2>2, <2>3, <2>4
    <2> QED BY <2>1, <2>5 DEF Asked
<1> HIDE DEF more
<1>7. n + 1 < n + 2
    BY <1>2
<1>8. Served(line, more, wait, last)
    BY <1>5, <1>6, <1>7 DEF Served
<1> QED BY <1>8 DEF more

\* A frame leaves the line that is not the command the task waits for.
LEMMA ServedBehind ==
    ASSUME NEW line \in Seq(Outgoing), line # <<>>, NEW replies, NEW wait, NEW last,
           Served(line, replies, wait, last),
           Head(line) \in Commands => Head(line).body # last
    PROVE  Served(Tail(line), replies, wait, last)
<1> DEFINE rest == Tail(line)
<1>1. ASSUME NEW i \in At(line, Commands), line[i].body = last
      PROVE  \E j \in At(rest, Commands) : rest[j].body = last
    <2>1. Head(line) = line[1] /\ line[i] \in Commands
        BY HeadTailProperties DEF At
    <2>2. i # 1
        BY <1>1, <2>1
    <2>3. i - 1 \in At(rest, Commands) /\ i \in Nat
        BY <2>2, AtTail
    <2>4. rest[i - 1] = line[(i - 1) + 1]
        BY <2>3, AtTail
    <2>5. (i - 1) + 1 = i
        BY <2>3
    <2> HIDE DEF rest
    <2> QED BY <1>1, <2>3, <2>4, <2>5
<1> HIDE DEF rest
<1>2. Served(rest, replies, wait, last)
    BY <1>1, ServedMore
<1> QED BY <1>2 DEF rest

\* The headphones take a frame, or drop it for its number.
LEMMA DeviceServed ==
    ASSUME IInv, WaitInv, LineInv', LossInv, Device
    PROVE  LossInv'
<1>1. /\ WireTypes /\ DeviceTypes /\ TaskInv /\ TaskShape /\ task \in Tasks
      /\ dropped \in Nat /\ spent \in [Counts -> Nat] /\ task.retries \in Nat
    BY LimitAssumption DEF IInv, EngineTypes, DeviceTypes, WaitInv, Tasks
<1>2. /\ toDevice # <<>> /\ toDevice' = Tail(toDevice) /\ UNCHANGED <<sendBuf, recvBuf>>
      /\ UNCHANGED <<task, link, pending, spent>>
    BY DEF Device, DeviceTakes, DeviceDropsRepeat, DeviceTakesAck, Arrived, engineVars
<1>3. /\ Line \in Seq(Outgoing) /\ Line # <<>> /\ Line' = Tail(Line)
      /\ Head(Line) = Head(toDevice)
    BY <1>1, <1>2, FrameLeaves
<1> HIDE DEF Line
<1>4. CASE DeviceTakesAck
    <2>1. Head(Line) \notin Commands /\ fromDevice' = fromDevice /\ dropped' = dropped
        BY <1>3, <1>4 DEF DeviceTakesAck, Arrived, Commands, deviceVars
    <2>2. Replies' = Replies
        BY <1>2, <2>1 DEF Replies
    <2>3. Coming => Coming'
        BY <1>2, <1>3, <2>1, <2>2, ServedBehind DEF Coming
    <2> QED BY <1>2, <2>1, <2>3, StillPatient DEF LossInv
<1>5. CASE DeviceDropsRepeat
    <2>1. dropped' = dropped + 1 /\ dropped' <= spent.lost
        BY <1>2, <1>5 DEF DeviceDropsRepeat, LineInv
    <2>2. spent.lost \in Nat /\ spent.missed \in Nat
        BY <1>1 DEF Counts
    <2>3. spent.lost + spent.missed # 0
        BY <1>1, <2>1, <2>2
    <2>4. Patient => Patient'
        BY <1>1, <1>2, <2>1, <2>3 DEF Patient
    <2> QED BY <1>2, <2>4 DEF LossInv, OneAtMost
<1>6. CASE DeviceTakes
    <2> DEFINE body == Head(Line).body
    <2>1. /\ Head(Line).type = "Data" /\ dropped' = dropped
          /\ fromDevice' = (fromDevice \o <<AckFrame>>) \o Answer(body)
        BY <1>3, <1>6 DEF DeviceTakes, Arrived
    <2>2. Head(Line) \in Commands /\ body \in Requests
        BY <1>3, <2>1, HeadTailProperties DEF Commands, Outgoing, AckFrame
    <2>3. Replies \in Seq(Incomings) /\ Answer(body) \in Seq(Incomings)
          /\ Replies' = (Replies \o <<AckFrame>>) \o Answer(body)
        BY <1>1, <1>2, <2>1, <2>2, AnswerType, RepliesMore
    <2>4. ASSUME task.wait # "None", Coming PROVE Coming'
        <3>1. CASE body = task.last
            <4>1. task.running
                BY <1>1, <2>4 DEF TaskInv
            <4>2. task.wait # "Ack" => task.last.op \in Asking
                BY <1>1, <2>4, <4>1 DEF TaskShape, AtStep
            <4>3. Served(Line', Replies', task.wait, task.last)
                BY <1>1, <2>2, <2>3, <3>1, <4>2, ServedTaken
            <4> QED BY <1>2, <4>3 DEF Coming
        <3>2. CASE body # task.last
            <4>1. Served(Tail(Line), Replies, task.wait, task.last)
                BY <1>3, <2>4, <3>2, ServedBehind DEF Coming
            <4>2. \A kind : \A i \in At(Replies, kind) :
                      i \in At(Replies', kind) /\ Replies'[i] = Replies[i]
                <5> DEFINE acked == Replies \o <<AckFrame>>
                <5>1. <<AckFrame>> \in Seq(Incomings)
                    BY OneElement DEF Incomings
                <5>2. acked \in Seq(Incomings)
                    BY <2>3, <5>1, ConcatProperties
                <5>3. \A kind : \A i \in At(Replies, kind) :
                          i \in At(acked, kind) /\ acked[i] = Replies[i]
                    BY <2>3, <5>1, AtConcat
                <5> HIDE DEF acked
                <5>4. \A kind : \A i \in At(acked, kind) :
                          /\ i \in At(acked \o Answer(body), kind)
                          /\ (acked \o Answer(body))[i] = acked[i]
                    BY <2>3, <5>2, AtConcat
                <5>5. Replies' = acked \o Answer(body)
                    BY <2>3 DEF acked
                <5> QED BY <5>3, <5>4, <5>5
            <4>3. \A i \in At(Tail(Line), Commands) : Tail(Line)[i].body = task.last =>
                      \E j \in At(Tail(Line), Commands) : Tail(Line)[j].body = task.last
                OBVIOUS
            <4>4. Served(Tail(Line), Replies', task.wait, task.last)
                BY <4>1, <4>2, <4>3, ServedMore
            <4> QED BY <1>2, <1>3, <4>4 DEF Coming
        <3> QED BY <3>1, <3>2
    <2> QED BY <1>2, <2>1, <2>4, StillPatient DEF LossInv
<1> QED BY <1>4, <1>5, <1>6 DEF Device

\* A task starts when there is none.
LEMMA StartServed ==
    ASSUME IInv, LossInv, NEW steps, Built(steps), NEW known, StartTask(steps, known),
           UNCHANGED <<toDevice, dropped, spent, link>>, pending' \subseteq pending
    PROVE  LossInv'
<1>1. /\ toDevice \in Seq(Outgoing) /\ sendBuf \in Seq(Outgoing) /\ txSeq \in 0..1
      /\ DeviceTypes
    BY DEF IInv, EngineTypes, WireTypes
<1>2. /\ GoesOn(Unfold(steps, known), NoBody, sendBuf)
      /\ Head(Unfold(steps, known)).kind # "Await"
    BY StartShaped
<1>3. Renewed(task')
    BY StartRenewed DEF Built
<1>4. task'.wait # "None" => Coming'
    BY <1>1, <1>2, GoesOnServed
<1>5. OneAtMost => "Fatal" \notin pending' /\ link' # "broken"
    BY DEF LossInv
<1> QED BY <1>1, <1>3, <1>4, <1>5, NewlyPatient

\* A deadline passes: with nothing under way, or while an answer is.
LEMMA TimeoutServed ==
    ASSUME IInv, LossInv, Timeout
    PROVE  LossInv'
<1>1. /\ task \in Tasks /\ TaskInv /\ dropped \in Nat /\ spent \in [Counts -> Nat]
      /\ task.retries \in Nat
    BY LimitAssumption DEF IInv, EngineTypes, DeviceTypes, Tasks
<1>2. /\ spent.late \in Nat /\ spent.lost \in Nat /\ spent.missed \in Nat
      /\ spent.breaks \in Nat
    BY <1>1 DEF Counts
<1>3. /\ task.deadline = "running" /\ task' = [task EXCEPT !.deadline = "passed"]
      /\ UNCHANGED <<sendBuf, recvBuf, link, toDevice, fromDevice, pending, dropped>>
    BY DEF Timeout, DeadlinePasses, wireVars, deviceVars
<1>4. /\ task'.wait = task.wait /\ task'.last = task.last /\ task'.retries = task.retries
    BY <1>1, <1>3 DEF Tasks
<1>5. task.wait # "None"
    BY <1>1, <1>3 DEF TaskInv, Proceeding
<1>6. Coming' <=> Coming
    BY <1>3, <1>4 DEF Coming, Line, Replies
<1>7. CASE Quiet
    <2>1. spent' = spent
        BY <1>7 DEF Timeout
    <2>2. Line = <<>> /\ Replies = <<>>
        BY <1>7 DEF Quiet, InFlight, Line, Replies
    <2>3. ~Coming
        BY <2>2, AtNothing DEF Coming, Served
    <2>4. OneAtMost => Patient'
        BY <1>3, <1>4, <1>5, <1>6, <2>1, <2>3 DEF LossInv, Patient
    <2> QED BY <1>3, <2>1, <2>4 DEF LossInv, OneAtMost
<1>8. CASE ~Quiet
    <2>1. spent' = [spent EXCEPT !["late"] = @ + 1]
        BY <1>8 DEF Timeout, Spend
    <2>2. /\ spent'.late = spent.late + 1 /\ spent'.lost = spent.lost
          /\ spent'.missed = spent.missed /\ spent'.breaks = spent.breaks
        BY <1>1, <2>1 DEF Counts
    <2>3. ASSUME OneAtMost'
          PROVE  OneAtMost /\ spent.lost = 0 /\ spent.missed = 0 /\ spent.late = 0
        BY <1>2, <2>2, <2>3 DEF OneAtMost
    <2>4. ASSUME OneAtMost' PROVE Patient'
        <3>1. Coming /\ task.retries <= 0
            BY <1>5, <2>3, <2>4 DEF LossInv, Patient
        <3> QED BY <1>1, <1>4, <1>6, <2>2, <2>3, <2>4, <3>1 DEF Patient
    <2> QED BY <1>3, <2>3, <2>4 DEF LossInv
<1> QED BY <1>7, <1>8

\* The first loss: no repeat has been sent before it.
LEMMA FirstLoss ==
    ASSUME IInv, LossInv, UNCHANGED <<task, pending, link, dropped>>,
           NEW what \in {"lost", "missed"}, spent' = [spent EXCEPT ![what] = @ + 1]
    PROVE  LossInv'
<1>1. /\ task \in Tasks /\ dropped \in Nat /\ spent \in [Counts -> Nat] /\ task.retries \in Nat
    BY LimitAssumption DEF IInv, EngineTypes, DeviceTypes, Tasks
<1>2. /\ spent.late \in Nat /\ spent.lost \in Nat /\ spent.missed \in Nat
      /\ spent.breaks \in Nat
    BY <1>1 DEF Counts
<1>3. /\ spent'.late = spent.late /\ spent'.breaks = spent.breaks
      /\ spent'.lost + spent'.missed = spent.lost + spent.missed + 1
    BY <1>1, <1>2 DEF Counts
<1> SUFFICES ASSUME OneAtMost'
             PROVE  /\ "Fatal" \notin pending' /\ link' # "broken"
                    /\ task'.wait # "None" => Patient'
    BY DEF LossInv
<1>4. OneAtMost /\ spent.lost + spent.missed = 0 /\ spent.late = 0
    BY <1>2, <1>3 DEF OneAtMost
<1>5. ASSUME task.wait # "None" PROVE Patient'
    <2>1. Patient
        BY <1>4, <1>5 DEF LossInv
    <2>2. task.retries <= 0
        BY <1>4, <2>1 DEF Patient
    <2>3. spent'.lost + spent'.missed # 0
        BY <1>3, <1>4
    <2> QED BY <1>1, <2>2, <2>3 DEF Patient
<1> QED BY <1>4, <1>5 DEF LossInv

\* Every step keeps the repeats to those that one loss takes.
LEMMA LossKept ==
    ASSUME MaxRetries >= 2
    PROVE  IInv /\ WaitInv /\ LossInv /\ [Next]_vars => LossInv'
<1> SUFFICES ASSUME IInv, WaitInv, LossInv, [Next]_vars PROVE LossInv'
    OBVIOUS
<1>1. /\ LineInv /\ LineInv' /\ WireTypes /\ EngineTypes /\ spent \in [Counts -> Nat]
      /\ recvBuf \in Seq(Incomings) /\ fromDevice \in Seq(Incomings)
    BY LineKept DEF IInv, WireTypes, DeviceTypes, WaitInv
<1>2. ASSUME NEW what \in Counts, NEW bound, Spend(what, bound)
      PROVE  /\ spent' = [spent EXCEPT ![what] = @ + 1]
             /\ what \notin {"lost", "missed", "late", "breaks"} =>
                    /\ spent'.lost = spent.lost /\ spent'.missed = spent.missed
                    /\ spent'.late = spent.late /\ spent'.breaks = spent.breaks
    BY <1>1, <1>2 DEF Spend, Counts
<1>3. Counts = {"edits", "keys", "changes", "lost", "missed", "late", "breaks"}
    BY DEF Counts
<1>4. ASSUME UNCHANGED <<task, sendBuf, recvBuf, wireVars, pending, dropped>>,
             spent'.lost = spent.lost, spent'.missed = spent.missed,
             spent'.late = spent.late, spent'.breaks = spent.breaks
      PROVE  LossInv'
    <2>1. Coming => Coming'
        BY <1>4 DEF Coming, Line, Replies, wireVars
    <2> QED BY <1>4, <2>1, StillPatient DEF LossInv, wireVars
<1>5. CASE CloseConnection
    BY <1>5, NoTaskType DEF CloseConnection, DropEngine, LossInv
<1>6. CASE EngineStep
    BY <1>6, EngineStepServed
<1>7. ASSUME NEW steps, Built(steps), StartTask(steps, support),
             UNCHANGED <<wireVars, dropped, spent>>, pending' \subseteq pending
      PROVE  LossInv'
    BY <1>7, StartServed DEF wireVars
<1>8. CASE Tick
    <2>1. CASE Teardown
        BY <1>5, <2>1 DEF Teardown
    <2>2. CASE ~Teardown
        <3>1. /\ AfterInit \/ AutoCommit \/ PeriodicSync \/ NothingDue
              /\ pending' = {} /\ UNCHANGED <<recvBuf, wireVars, dropped, spent>>
            BY <1>8, <2>2 DEF Tick, deviceVars
        <3>2. CASE NothingDue
            <4>1. Coming => Coming'
                BY <3>1, <3>2 DEF NothingDue, Coming, Line, Replies, wireVars
            <4> QED BY <3>1, <3>2, <4>1, StillPatient DEF NothingDue, LossInv, wireVars
        <3>3. CASE AfterInit \/ AutoCommit \/ PeriodicSync
            BY <1>1, <1>7, <3>1, <3>3, BuiltTasks DEF AfterInit, AutoCommit, PeriodicSync, StartSync
        <3> QED BY <3>1, <3>2, <3>3
    <2> QED BY <2>1, <2>2
<1>9. CASE Attach
    <2>1. /\ link = "none" /\ link' = "up" /\ StartTask(BuildInitSteps, support)
          /\ UNCHANGED <<toDevice, dropped, spent, pending>>
        BY <1>9 DEF Attach, deviceVars
    <2>2. pending = {} /\ DeviceTypes /\ toDevice \in Seq(Outgoing)
          /\ sendBuf \in Seq(Outgoing) /\ txSeq \in 0..1
        BY <1>1, <2>1 DEF LineInv, ConnectionInv, Fresh, NewEngine, IInv, WireTypes, EngineTypes
    <2>3. /\ GoesOn(Unfold(BuildInitSteps, support), NoBody, sendBuf)
          /\ Head(Unfold(BuildInitSteps, support)).kind # "Await"
        BY <2>1, BuiltTasks, StartShaped
    <2>4. Renewed(task')
        BY <2>1, BuiltTasks, StartRenewed DEF Built
    <2>5. task'.wait # "None" => Coming'
        BY <2>1, <2>2, <2>3, GoesOnServed
    <2> QED BY <2>1, <2>2, <2>4, <2>5, NewlyPatient
<1>10. CASE Timeout
    BY <1>10, TimeoutServed
<1>11. CASE Device
    BY <1>1, <1>11, DeviceServed
<1>12. CASE User
    <2>1. CASE \E s \in Settings, v \in Values : Edit(s, v)
        BY <1>2, <1>3, <1>4, <2>1 DEF Edit, deviceVars
    <2>2. CASE \E k \in Keys : PressKey(k)
        BY <1>2, <1>3, <1>4, <2>2 DEF PressKey, deviceVars
    <2>3. CASE RefreshSync
        BY <1>7, <2>3, BuiltTasks DEF RefreshSync, StartSync, deviceVars
    <2>4. CASE Disconnect
        BY <1>5, <2>4 DEF Disconnect
    <2>5. \A i \in DOMAIN GeneralOrder : GeneralOrder[i] \in Settings
        BY OrderedSettings DEF Settings
    <2> QED BY <1>12, <2>1, <2>2, <2>3, <2>4, <2>5 DEF User, EditGeneral, Settings
<1>13. CASE Environment
    <2>1. UNCHANGED <<task, sendBuf, recvBuf, pending, dropped>>
        BY <1>13 DEF Environment, DeviceChanges, LoseCommand, LoseAnswer, LinkBreaks,
                     engineVars, deviceVars
    <2>2. CASE LoseCommand \/ LoseAnswer
        BY <1>2, <1>3, <2>1, <2>2, FirstLoss DEF LoseCommand, LoseAnswer
    <2>3. ASSUME NEW s \in Settings, NEW v \in Values, DeviceChanges(s, v)
          PROVE  LossInv'
        <3>1. /\ link' = link /\ toDevice' = toDevice
              /\ fromDevice' = IF link = "up" THEN fromDevice \o Report("RetParam", s, v)
                               ELSE fromDevice
              /\ spent'.lost = spent.lost /\ spent'.missed = spent.missed
              /\ spent'.late = spent.late /\ spent'.breaks = spent.breaks
            BY <1>2, <1>3, <2>3 DEF DeviceChanges
        <3>2. Line' = Line
            BY <2>1, <3>1 DEF Line
        <3>3. Coming => Coming'
            <4>1. CASE link = "up"
                <5>1. \A kind \in {Acks, Tables} : \A i \in At(Replies, kind) :
                          i \in At(Replies', kind) /\ Replies'[i] = Replies[i]
                    BY <1>1, <2>1, <3>1, <4>1, ReportMore
                <5>2. \A i \in At(Line, Commands) : Line[i].body = task.last =>
                          \E j \in At(Line, Commands) : Line[j].body = task.last
                    OBVIOUS
                <5> QED BY <2>1, <3>2, <5>1, <5>2, ServedMore DEF Coming
            <4>2. CASE link # "up"
                BY <2>1, <3>1, <3>2, <4>2 DEF Coming, Replies
            <4> QED BY <4>1, <4>2
        <3> QED BY <2>1, <3>1, <3>3, StillPatient DEF LossInv
    <2>4. CASE LinkBreaks
        <3>1. spent' = [spent EXCEPT !["breaks"] = @ + 1]
            BY <1>2, <1>3, <2>4 DEF LinkBreaks
        <3>2. spent'.breaks = spent.breaks + 1 /\ spent.breaks \in Nat
            BY <1>1, <3>1 DEF Counts
        <3> QED BY <3>2 DEF LossInv, OneAtMost
    <2> QED BY <1>13, <2>2, <2>3, <2>4 DEF Environment
<1>14. CASE UNCHANGED vars
    BY <1>4, <1>14 DEF vars, engineVars, deviceVars
<1> QED BY <1>6, <1>8, <1>9, <1>10, <1>11, <1>12, <1>13, <1>14 DEF Next

\* With two repeats or more to spare (MAX_STEP_RETRIES is 3), one frame lost,
\* either way, or one answer that is late never fails a task (retransmit,
\* fail_task): the first repeat may be dropped for its number, which the loss
\* turned against it, and the second gets through.
THEOREM LossSurvived == ASSUME MaxRetries >= 2 PROVE Spec => []OneLossIsSurvived
<1>1. Init => LossInv
    BY NoTaskType DEF Init, NewEngine, LossInv
<1>2. IInv /\ WaitInv /\ LossInv /\ [Next]_vars => LossInv'
    BY LossKept
<1>3. LossInv => OneLossIsSurvived
    BY DEF LossInv, OneLossIsSurvived, OneAtMost
<1> QED BY <1>1, <1>2, <1>3, WaitInvariance, PTL DEF Spec

---------------------------------------------------------------------------
(* What is still to be asked of the settings *)

\* A step that asks for a setting is ahead: under no condition, or under that
\* on the setting.
Behind(step, ask, s) ==
    /\ s \in General /\ step.kind = "If" /\ step.cond = s
    /\ \E l \in DOMAIN step.inner : step.inner[l] = ask
Ahead(steps, ask, s) == \E i \in DOMAIN steps : steps[i] = ask \/ Behind(steps[i], ask, s)

ReadOf(s)        == Send(Body("GetParam", s, None))
Unread(steps, s) == Ahead(steps, ReadOf(s), s)
AskCap(s)        == Send(Body("GetCapability", s, None))

LEMMA AskKinds ==
    /\ \A s : ReadOf(s).kind = "Send" /\ AskCap(s).kind = "Send"
    /\ \A s, t : ReadOf(s) # AskCap(t) /\ (AskCap(s) = AskCap(t) => s = t)
BY DEF ReadOf, AskCap, Send, Body

\* Resolving conditions skips no setting that the headphones are known to have.
LEMMA UnfoldAhead ==
    ASSUME NEW steps \in Seq(Steps), EndsInDone(steps), NEW known,
           NEW s, NEW ask, ask.kind = "Send", Ahead(steps, ask, s),
           s \in General => s \in known \/ steps[1].kind # "If"
    PROVE  Ahead(Unfold(steps, known), ask, s)
<1> DEFINE u == Unfold(steps, known)
<1>1. PICK i \in DOMAIN steps : steps[i] = ask \/ Behind(steps[i], ask, s)
    BY DEF Ahead
<1>2. Has(steps, steps[i])
    BY DEF Has
<1>3. ASSUME Has(u, ask) PROVE Ahead(u, ask, s)
    BY <1>3 DEF Has, Ahead
<1>4. CASE steps[i] = ask
    <2>1. Has(u, ask)
        BY <1>2, <1>4, UnfoldHas
    <2> QED BY <1>3, <2>1
<1>5. CASE Behind(steps[i], ask, s) /\ steps[1].kind # "If"
    <2>1. u = steps
        BY <1>5, UnfoldOfRun
    <2> QED BY <2>1
<1>6. CASE Behind(steps[i], ask, s) /\ s \in known
    <2> DEFINE step == steps[i]
    <2>1. step.kind = "If" /\ step.cond = s
        BY <1>6 DEF Behind
    <2>2. PICK l \in DOMAIN step.inner : step.inner[l] = ask
        BY <1>6 DEF Behind
    <2>3. step.inner # <<>>
        BY <2>2
    <2>4. Has(u, step) \/ Has(u, step.inner[l])
        <3> HIDE DEF step, u
        <3>1. Has(steps, step)
            BY <1>2 DEF step
        <3>2. \/ Has(Unfold(steps, known), step)
              \/ \A h \in DOMAIN step.inner : Has(Unfold(steps, known), step.inner[h])
            BY <1>6, <2>1, <2>3, <3>1, UnfoldHas
        <3> QED BY <2>2, <3>2 DEF u
    <2>5. CASE Has(u, step)
        BY <1>6, <2>5 DEF Has, Ahead
    <2> QED BY <1>3, <2>2, <2>4, <2>5
<1> QED BY <1>1, <1>4, <1>5, <1>6 DEF Behind

LEMMA TailAhead ==
    ASSUME NEW steps \in Seq(Steps), steps # <<>>,
           NEW s, NEW ask, ask.kind = "Send", Ahead(steps, ask, s),
           Head(steps) # ask, Head(steps).kind # "If"
    PROVE  Ahead(Tail(steps), ask, s)
<1> DEFINE rest == Tail(steps)
<1>1. /\ \A i \in DOMAIN steps : i = 1 \/ (i - 1 \in DOMAIN rest /\ rest[i - 1] = steps[i])
      /\ Head(steps) = steps[1]
    BY TailSteps
<1> HIDE DEF rest
<1>2. PICK i \in DOMAIN steps : steps[i] = ask \/ Behind(steps[i], ask, s)
    BY DEF Ahead
<1>3. i # 1
    BY <1>1, <1>2 DEF Behind
<1>4. i - 1 \in DOMAIN rest /\ rest[i - 1] = steps[i]
    BY <1>1, <1>3
<1> QED BY <1>2, <1>4 DEF Ahead, rest

LEMMA NoneAhead ==
    ASSUME NEW steps \in Seq(Steps), EndsInDone(steps), Head(steps).kind = "Done",
           NEW s, NEW ask, ask.kind = "Send"
    PROVE  ~Ahead(steps, ask, s)
<1> SUFFICES ASSUME NEW i \in DOMAIN steps, steps[i] = ask \/ Behind(steps[i], ask, s)
             PROVE  FALSE
    BY DEF Ahead
<1>1. steps[i].kind # "Done"
    BY DEF Behind
<1> QED BY <1>1, DoneAlone DEF Has

\* Every step left commits the setting it writes.
LEMMA UnfoldCommits ==
    ASSUME NEW steps \in Seq(Steps), EndsInDone(steps), CommitsOwn(steps), NEW known
    PROVE  CommitsOwn(Unfold(steps, known))
<1> DEFINE u == Unfold(steps, known)
<1>0. PICK m \in Nat, c \in Int : Shifted(steps, u, m, c)
    BY UnfoldSteps
<1>1. u \in Seq(Steps)
    BY UnfoldKeepsDone
<1> HIDE DEF u
<1>2. \A i \in DOMAIN u : i > m \/ i <= m
    BY <1>1
<1>3. ASSUME NEW i \in DOMAIN u, i > m
      PROVE  /\ Settles(u[i])
             /\ u[i].kind = "If" => \A l \in DOMAIN u[i].inner : Settles(u[i].inner[l])
    <2>1. i + c \in DOMAIN steps /\ u[i] = steps[i + c]
        BY <1>0, <1>3 DEF Shifted
    <2> QED BY <2>1 DEF CommitsOwn
<1>4. ASSUME NEW i \in DOMAIN u, i <= m
      PROVE  Settles(u[i]) /\ u[i].kind # "If"
    <2>1. /\ u[i].kind # "If"
          /\ \E j \in DOMAIN steps :
                steps[j].kind = "If" /\ \E l \in DOMAIN steps[j].inner : u[i] = steps[j].inner[l]
        BY <1>0, <1>4 DEF Shifted
    <2> QED BY <2>1 DEF CommitsOwn
<1>5. CommitsOwn(u)
    BY <1>2, <1>3, <1>4 DEF CommitsOwn
<1> QED BY <1>5 DEF u

LEMMA TailCommits ==
    ASSUME NEW steps \in Seq(Steps), steps # <<>>, CommitsOwn(steps)
    PROVE  CommitsOwn(Tail(steps)) /\ Settles(Head(steps))
<1> DEFINE rest == Tail(steps)
<1>1. /\ \A i \in DOMAIN rest : i + 1 \in DOMAIN steps /\ rest[i] = steps[i + 1]
      /\ 1 \in DOMAIN steps /\ Head(steps) = steps[1]
    BY TailSteps
<1> HIDE DEF rest
<1>2. CommitsOwn(rest)
    BY <1>1 DEF CommitsOwn
<1> QED BY <1>1, <1>2 DEF CommitsOwn, rest

\* The steps of a task in this respect, and how a task goes on with them.
Orderly(steps) == SupportFirst(steps) /\ CommitsOwn(steps)

LEMMA UnfoldOrderly ==
    ASSUME NEW steps \in Seq(Steps), EndsInDone(steps), Orderly(steps), NEW known
    PROVE  Orderly(Unfold(steps, known))
BY UnfoldFirst, UnfoldCommits DEF Orderly, SupportFirst

LEMMA TailOrderly ==
    ASSUME NEW steps \in Seq(Steps), steps # <<>>, Orderly(steps)
    PROVE  Orderly(Tail(steps)) /\ Settles(Head(steps))
BY TailFirst, TailCommits DEF Orderly, SupportFirst

LEMMA BuiltOrderly ==
    /\ Orderly(BuildInitSteps) /\ Orderly(BuildSyncSteps)
    /\ EngineTypes => Orderly(BuildCommitSteps)
BY InitAsks, SyncOrdinary, OrdinaryTask, CommitKeys DEF Orderly

LEMMA AdvanceAhead ==
    ASSUME EngineTypes, TaskInv, Orderly(task.steps), Head(task.steps).kind # "If",
           NEW wait \in Waits, task.wait = wait, NEW buf, NEW known,
           AdvanceOn(wait, buf, known)
    PROVE  /\ task'.running => Orderly(task'.steps)
           /\ \A s, ask :
                  /\ ask.kind = "Send" /\ Ahead(task.steps, ask, s) /\ Head(task.steps) # ask
                  /\ s \in General => s \in known \/ Tail(task.steps)[1].kind # "If"
                  => task'.running /\ Ahead(task'.steps, ask, s)
<1> DEFINE rest == Tail(task.steps)
           u    == Unfold(rest, known)
<1>1. /\ task.steps \in Seq(Steps) /\ task.steps # <<>>
      /\ rest \in Seq(Steps) /\ EndsInDone(rest)
      /\ \/ GoesOn(u, task.last, buf)
         \/ Head(u).kind = "Done" /\ task' = NoTask
    BY AdvanceGoesOn DEF EndsInDone
<1>2. Orderly(rest) /\ Orderly(u) /\ u \in Seq(Steps) /\ EndsInDone(u)
    BY <1>1, TailOrderly, UnfoldOrderly, UnfoldKeepsDone
<1>3. task'.running => task'.steps = u
    BY <1>1, NoTaskType DEF GoesOn
<1>4. ASSUME NEW s, NEW ask, ask.kind = "Send", Ahead(task.steps, ask, s),
             Head(task.steps) # ask,
             s \in General => s \in known \/ rest[1].kind # "If"
      PROVE  task'.running /\ Ahead(task'.steps, ask, s)
    <2>1. Ahead(rest, ask, s)
        BY <1>1, <1>4, TailAhead
    <2>2. Ahead(u, ask, s)
        <3> HIDE DEF rest
        <3> QED BY <1>1, <1>4, <2>1, UnfoldAhead
    <2>3. Head(u).kind # "Done"
        BY <1>2, <1>4, <2>2, NoneAhead
    <2>4. task'.running /\ task'.steps = u
        BY <1>1, <2>3 DEF GoesOn
    <2> QED BY <2>2, <2>4
<1> QED BY <1>2, <1>3, <1>4

LEMMA AdvanceReads ==
    ASSUME EngineTypes, TaskInv, Orderly(task.steps), Head(task.steps).kind # "If",
           NEW wait \in Waits, task.wait = wait, NEW buf, NEW known,
           AdvanceOn(wait, buf, known)
    PROVE  /\ task'.running => Orderly(task'.steps)
           /\ \A s : /\ Unread(task.steps, s) /\ Head(task.steps) # ReadOf(s)
                     /\ s \in General => s \in known \/ Tail(task.steps)[1].kind # "If"
                     => task'.running /\ Unread(task'.steps, s)
BY AdvanceAhead, AskKinds DEF Unread

---------------------------------------------------------------------------
(* The values *)

\* What the headphones say of a setting, and the last of it is what they have.
ReportsOf(s) ==
    {f \in Incomings : f.type = "Data" /\ f.body.op = "RetParam" /\ f.body.arg = s}
LastOf(replies, s) ==
    {j \in At(replies, ReportsOf(s)) : \A i \in At(replies, ReportsOf(s)) : i <= j}
Heard(replies, s, v) == \A j \in LastOf(replies, s) : replies[j].body.val = v

\* Behind the ACK of a command that reads or writes a setting comes its report.
Answered(replies, t) ==
    t.wait = "Ack" /\ t.last.op \in {"GetParam", "SetParam"} =>
        \A i \in At(replies, Acks) : \E j \in At(replies, ReportsOf(t.last.arg)) : i < j

\* A setting the headphones have is shown as it is, or will be: a report is
\* under way, or the task in progress still reads it.
Real == Plain \union (devFns \intersect General)
Reported(s)  == At(Replies, ReportsOf(s)) # {}
ToBeRead(s)  == task.running /\ Unread(task.steps, s)
Accounted(s) == Reported(s) \/ props[s].current = devVal[s] \/ ToBeRead(s)

Accord ==
    /\ Answered(Replies, task)
    /\ \A s \in Real : Heard(Replies, s, devVal[s]) /\ Accounted(s)

\* Nothing late, nothing lost on the way back.
Strong == Undisturbed /\ spent.missed = 0

ValueInv ==
    /\ task.running => Orderly(task.steps)
    /\ Strong => Accord

(* Frames that come and go *)

LEMMA HeardTail ==
    ASSUME NEW replies \in Seq(Incomings), replies # <<>>, NEW s, NEW v, Heard(replies, s, v)
    PROVE  /\ Heard(Tail(replies), s, v)
           /\ Head(replies) \in ReportsOf(s) /\ At(Tail(replies), ReportsOf(s)) = {} =>
                  Head(replies).body.val = v
<1> DEFINE kind == ReportsOf(s)
           rest == Tail(replies)
<1> HIDE DEF kind
<1>1. /\ \A i \in At(rest, kind) : i + 1 \in At(replies, kind) /\ rest[i] = replies[i + 1]
      /\ \A i \in At(replies, kind) : i # 1 => i - 1 \in At(rest, kind)
      /\ At(replies, kind) \subseteq Nat \ {0}
      /\ Head(replies) \in kind <=> 1 \in At(replies, kind)
    BY AtTail
<1>2. At(rest, kind) \subseteq Nat \ {0}
    <2>1. rest \in Seq(Incomings)
        BY HeadTailProperties
    <2>2. DOMAIN rest = 1..Len(rest) /\ Len(rest) \in Nat
        BY <2>1, LenProperties
    <2> QED BY <2>2 DEF At
<1>3. ASSUME NEW j \in LastOf(rest, s) PROVE rest[j].body.val = v
    <2>1. j \in At(rest, kind) /\ \A i \in At(rest, kind) : i <= j
        BY <1>3 DEF LastOf, kind
    <2>2. j + 1 \in At(replies, kind) /\ rest[j] = replies[j + 1]
        BY <1>1, <2>1
    <2>3. \A i \in At(replies, kind) : i <= j + 1
        <3> SUFFICES ASSUME NEW i \in At(replies, kind), i # 1 PROVE i <= j + 1
            BY <1>2, <2>1
        <3>1. i - 1 \in At(rest, kind)
            BY <1>1
        <3>2. i - 1 <= j /\ i \in Nat /\ j \in Nat
            BY <1>1, <1>2, <2>1, <3>1
        <3> QED BY <3>2
    <2>4. j + 1 \in LastOf(replies, s)
        BY <2>2, <2>3 DEF LastOf, kind
    <2> QED BY <2>2, <2>4 DEF Heard
<1>4. ASSUME Head(replies) \in kind, At(rest, kind) = {} PROVE Head(replies).body.val = v
    <2>1. 1 \in At(replies, kind) /\ \A i \in At(replies, kind) : i = 1
        BY <1>1, <1>4
    <2>2. 1 \in LastOf(replies, s)
        BY <2>1 DEF LastOf, kind
    <2>3. replies[1] = Head(replies)
        BY HeadTailProperties
    <2> QED BY <2>2, <2>3 DEF Heard
<1> QED BY <1>3, <1>4 DEF Heard, kind

LEMMA HeardMore ==
    ASSUME NEW replies \in Seq(Incomings), NEW e \in Incomings, NEW s, NEW v
    PROVE  /\ e \notin ReportsOf(s) =>
                  /\ Heard(replies, s, v) => Heard(Append(replies, e), s, v)
                  /\ At(Append(replies, e), ReportsOf(s)) = At(replies, ReportsOf(s))
           /\ e \in ReportsOf(s) =>
                  /\ e.body.val = v => Heard(Append(replies, e), s, v)
                  /\ At(Append(replies, e), ReportsOf(s)) # {}
<1> DEFINE kind == ReportsOf(s)
           more == Append(replies, e)
           n == Len(replies)
<1> HIDE DEF kind
<1>1. /\ \A i \in At(replies, kind) : i \in 1..n /\ more[i] = replies[i]
      /\ e \in kind => At(more, kind) = At(replies, kind) \union {n + 1}
      /\ e \notin kind => At(more, kind) = At(replies, kind)
      /\ more[n + 1] = e
    BY AtMore
<1>2. n \in Nat
    BY LenProperties
<1> HIDE DEF more, n
<1>3. ASSUME e \notin kind, Heard(replies, s, v) PROVE Heard(more, s, v)
    <2>1. At(more, kind) = At(replies, kind)
        BY <1>1, <1>3
    <2>2. LastOf(more, s) = LastOf(replies, s) /\ LastOf(more, s) \subseteq At(replies, kind)
        BY <2>1 DEF LastOf, kind
    <2> QED BY <1>1, <1>3, <2>2 DEF Heard
<1>4. ASSUME e \in kind, e.body.val = v PROVE Heard(more, s, v)
    <2> SUFFICES ASSUME NEW j \in LastOf(more, s) PROVE more[j].body.val = v
        BY DEF Heard
    <2>1. j \in At(more, kind) /\ n + 1 <= j
        <3>1. n + 1 \in At(more, kind)
            BY <1>1, <1>4
        <3> QED BY <3>1 DEF LastOf, kind
    <2>2. j = n + 1
        BY <1>1, <1>2, <1>4, <2>1
    <2> QED BY <1>1, <1>4, <2>2
<1>5. e \in kind => At(more, kind) # {}
    BY <1>1
<1>6. e \notin kind => At(more, kind) = At(replies, kind)
    BY <1>1
<1> QED BY <1>3, <1>4, <1>5, <1>6 DEF kind, more

LEMMA AnsweredTail ==
    ASSUME NEW replies \in Seq(Incomings), replies # <<>>, NEW t, Answered(replies, t)
    PROVE  Answered(Tail(replies), t)
<1> SUFFICES ASSUME t.wait = "Ack", t.last.op \in {"GetParam", "SetParam"},
                    NEW i \in At(Tail(replies), Acks)
             PROVE  \E j \in At(Tail(replies), ReportsOf(t.last.arg)) : i < j
    BY DEF Answered
<1> DEFINE kind == ReportsOf(t.last.arg)
<1> HIDE DEF kind
<1>1. i + 1 \in At(replies, Acks) /\ i \in Nat
    <2>1. Tail(replies) \in Seq(Incomings)
        BY HeadTailProperties
    <2>2. DOMAIN Tail(replies) = 1..Len(Tail(replies)) /\ Len(Tail(replies)) \in Nat
        BY <2>1, LenProperties
    <2> QED BY <2>2, AtTail DEF At
<1>2. PICK j \in At(replies, kind) : i + 1 < j
    BY <1>1 DEF Answered, kind
<1>3. j \in Nat /\ (j # 1 => j - 1 \in At(Tail(replies), kind))
    BY AtTail
<1>4. j - 1 \in At(Tail(replies), kind) /\ i < j - 1
    BY <1>1, <1>2, <1>3
<1> QED BY <1>4 DEF kind

LEMMA AnsweredMore ==
    ASSUME NEW replies \in Seq(Incomings), NEW e \in Incomings, e \notin Acks,
           NEW t, Answered(replies, t)
    PROVE  Answered(Append(replies, e), t)
<1> SUFFICES ASSUME t.wait = "Ack", t.last.op \in {"GetParam", "SetParam"},
                    NEW i \in At(Append(replies, e), Acks)
             PROVE  \E j \in At(Append(replies, e), ReportsOf(t.last.arg)) : i < j
    BY DEF Answered
<1> DEFINE kind == ReportsOf(t.last.arg)
<1> HIDE DEF kind
<1>1. i \in At(replies, Acks) /\ At(replies, kind) \subseteq At(Append(replies, e), kind)
    <2>1. At(Append(replies, e), Acks) = At(replies, Acks)
        BY AtMore
    <2>2. At(replies, kind) \subseteq At(Append(replies, e), kind)
        BY AtMore
    <2> QED BY <2>1, <2>2
<1>2. PICK j \in At(replies, kind) : i < j
    BY <1>1 DEF Answered, kind
<1> QED BY <1>1, <1>2 DEF kind

\* A task that gets what it awaits comes to no condition on a setting before
\* it is known which of them the headphones have.
LEMMA NothingSkipped ==
    ASSUME EngineTypes, TaskInv, TaskShape, task.wait # "None", Orderly(task.steps),
           Complete, support \subseteq support',
           Awaiting("GetSupport") => devFns \intersect General \subseteq support'
    PROVE  devFns \intersect General \subseteq support' \/ Tail(task.steps)[1].kind # "If"
<1>1. /\ task.running /\ task.steps \in Seq(Steps) /\ task.steps # <<>>
      /\ Shaped(task.steps) /\ SupportFirst(task.steps)
    BY DEF EngineTypes, Tasks, TaskInv, Proceeding, EndsInDone, TaskShape, Orderly
<1>2. \/ devFns \intersect General \subseteq support'
      \/ Has(task.steps, AskSupport)
    BY DEF Complete, Told, TableFor, Covered, Pending, AskSupport
<1>3. CASE AskSupport = Head(task.steps)
    <2>1. Asks(Head(task.steps))
        BY <1>3 DEF AskSupport, Asks, Asking, Send, Get, Body
    <2>2. Tail(task.steps)[1] = Await(WaitFor(Head(task.steps).body.op))
        BY <1>1, <2>1, TailShaped
    <2>3. \A wait : Await(wait).kind # "If"
        BY DEF Await
    <2> QED BY <2>2, <2>3
<1>4. CASE Has(Tail(task.steps), AskSupport)
    <2> DEFINE rest == Tail(task.steps)
    <2>1. PICK i \in DOMAIN rest : rest[i] = AskSupport
        BY <1>4 DEF Has
    <2>2. /\ rest \in Seq(Steps) /\ DOMAIN rest = 1..Len(rest) /\ Len(rest) \in Nat
          /\ SupportFirst(rest)
        BY <1>1, HeadTailProperties, LenProperties, TailFirst DEF SupportFirst
    <2> HIDE DEF rest
    <2>3. 1 \in DOMAIN rest /\ ~(i < 1)
        BY <2>1, <2>2
    <2>4. rest[1].kind # "If"
        BY <2>1, <2>2, <2>3 DEF SupportFirst, AskedFirst
    <2> QED BY <2>4 DEF rest
<1> QED BY <1>1, <1>2, <1>3, <1>4, TailHas

\* Steps that leave the values as they were.
LEMMA SameValues ==
    ASSUME ValueInv, UNCHANGED devFns, Strong' => Strong,
           task'.running => Orderly(task'.steps),
           Strong' /\ Answered(Replies, task) => Answered(Replies, task)',
           \A s \in Real : Strong' /\ Heard(Replies, s, devVal[s]) => Heard(Replies, s, devVal[s])',
           \A s \in Real : Strong' /\ Heard(Replies, s, devVal[s]) /\ Accounted(s) => Accounted(s)'
    PROVE  ValueInv'
<1>1. Real' = Real
    BY DEF Real
<1> QED BY <1>1 DEF ValueInv, Accord

LEMMA QuietValues ==
    ASSUME ValueInv, UNCHANGED <<devFns, devVal>>, Strong' => Strong,
           task'.running = task.running, task'.steps = task.steps,
           task'.wait = task.wait, task'.last = task.last, Replies' = Replies,
           \A s \in Real : props'[s].current = props[s].current
    PROVE  ValueInv'
<1>1. Answered(Replies, task) => Answered(Replies, task)'
    BY DEF Answered
<1>2. \A s : Heard(Replies, s, devVal[s]) => Heard(Replies, s, devVal[s])'
    OBVIOUS
<1>3. \A s \in Real : Accounted(s) => Accounted(s)'
    BY DEF Accounted, Reported, ToBeRead
<1> QED BY <1>1, <1>2, <1>3, SameValues DEF ValueInv

\* A frame with no value in it leaves the front.
LEMMA FrameRead ==
    ASSUME WireTypes, recvBuf # <<>>, recvBuf' = Tail(recvBuf), fromDevice' = fromDevice
    PROVE  /\ Replies \in Seq(Incomings) /\ Replies # <<>> /\ Replies' = Tail(Replies)
           /\ Head(Replies) = Head(recvBuf)
           /\ \A s, v : Heard(Replies, s, v) => Heard(Replies', s, v)
           /\ \A s : Head(recvBuf) \notin ReportsOf(s) => (Reported(s)' <=> Reported(s))
           /\ \A t : Answered(Replies, t) => Answered(Replies', t)
<1>1. /\ Replies \in Seq(Incomings) /\ Replies # <<>> /\ Replies' = Tail(Replies)
      /\ Head(Replies) = Head(recvBuf)
    BY FirstReply DEF Replies
<1>2. \A s, v : Heard(Replies, s, v) => Heard(Tail(Replies), s, v)
    BY <1>1, HeardTail
<1>3. ASSUME NEW s, Head(Replies) \notin ReportsOf(s)
      PROVE  At(Tail(Replies), ReportsOf(s)) = {} <=> At(Replies, ReportsOf(s)) = {}
    <2> DEFINE kind == ReportsOf(s)
    <2> HIDE DEF kind, Replies
    <2>1. /\ \A i \in At(Tail(Replies), kind) : i + 1 \in At(Replies, kind)
          /\ \A i \in At(Replies, kind) : i # 1 => i - 1 \in At(Tail(Replies), kind)
          /\ 1 \notin At(Replies, kind)
        BY <1>1, <1>3, AtTail DEF kind
    <2> QED BY <2>1 DEF kind
<1>4. \A t : Answered(Replies, t) => Answered(Tail(Replies), t)
    BY <1>1, AnsweredTail
<1>5. \A s : ReportsOf(s)' = ReportsOf(s)
    BY DEF ReportsOf
<1> QED BY <1>1, <1>2, <1>3, <1>4, <1>5 DEF Reported

\* The engine takes an ACK: what it read or wrote is reported behind it.
LEMMA AckValues ==
    ASSUME IInv, WaitInv, SupportInv, ValueInv, HandleAck, UNCHANGED wireVars,
           UNCHANGED <<devFns, devVal, spent>>, Undisturbed' => Undisturbed
    PROVE  ValueInv'
<1>1. /\ EngineTypes /\ TaskInv /\ WireTypes /\ TaskShape
      /\ recvBuf # <<>> /\ recvBuf' = Tail(recvBuf) /\ fromDevice' = fromDevice
      /\ Head(recvBuf).type = "Ack" /\ AdvanceOn("Ack", sendBuf, support)
      /\ support' = support /\ "Ack" \in Waits /\ (Strong' => Strong)
    BY DEF IInv, WaitInv, HandleAck, wireVars, Waits, Strong
<1>2. /\ Replies \in Seq(Incomings) /\ Replies # <<>> /\ Replies' = Tail(Replies)
      /\ Head(Replies) \in Acks
      /\ \A s, v : Heard(Replies, s, v) => Heard(Replies', s, v)
      /\ \A s : Reported(s)' <=> Reported(s)
      /\ \A t : Answered(Replies, t) => Answered(Replies', t)
    <2>1. Head(recvBuf) \in Incomings
        BY <1>1, FirstReply
    <2>2. Head(recvBuf) \in Acks /\ \A s : Head(recvBuf) \notin ReportsOf(s)
        BY <1>1, <2>1 DEF Incomings, Acks, AckFrame, ReportsOf
    <2> QED BY <1>1, <2>2, FrameRead
<1>3. \A s : Heard(Replies, s, devVal[s]) => Heard(Replies, s, devVal[s])'
    BY <1>2
<1>4. CASE task.wait # "Ack"
    <2>1. task' = task /\ props' = props
        BY <1>1, <1>4 DEF AdvanceOn
    <2>2. Answered(Replies, task) => Answered(Replies, task)'
        BY <1>2, <2>1
    <2>3. \A s : Accounted(s) => Accounted(s)'
        BY <1>2, <2>1 DEF Accounted, ToBeRead
    <2> QED BY <1>1, <1>3, <2>1, <2>2, <2>3, SameValues DEF ValueInv
<1>5. CASE task.wait = "Ack"
    <2> DEFINE front == Head(task.steps)
    <2>1. task.running /\ Orderly(task.steps) /\ task.steps \in Seq(Steps) /\ task.steps # <<>>
        BY <1>1, <1>5 DEF TaskInv, Proceeding, EndsInDone, ValueInv, EngineTypes, Tasks
    <2>2. front.kind = "Send" /\ task.last = front.body /\ Settles(front)
        BY <1>1, <1>5, <2>1, TailOrderly DEF TaskShape, AtStep
    <2>3. /\ task'.running => Orderly(task'.steps)
          /\ \A s : /\ Unread(task.steps, s) /\ front # ReadOf(s)
                    /\ s \in General => s \in support \/ Tail(task.steps)[1].kind # "If"
                    => task'.running /\ Unread(task'.steps, s)
        BY <1>1, <1>5, <2>1, <2>2, AdvanceReads
    <2> SUFFICES ASSUME Strong, Strong' PROVE Accord'
        BY <1>1, <2>3 DEF ValueInv
    <2>4. Answered(Replies, task) /\ \A s \in Real : Heard(Replies, s, devVal[s]) /\ Accounted(s)
        BY DEF ValueInv, Accord
    <2>5. At(Replies, Acks) # {} /\ At(Replies', Acks) = {}
        <3>1. \A i, j \in At(Replies, Acks) : i = j
            BY DEF WaitInv, UnderWay, OneUnderWay, Strong, Undisturbed
        <3> HIDE DEF Replies
        <3> QED BY <1>2, <3>1, AtTail, AtTaken
    <2>6. ASSUME NEW s, task.last.op \in {"GetParam", "SetParam"}, task.last.arg = s
          PROVE  Reported(s)'
        <3>1. At(Replies, ReportsOf(s)) # {}
            BY <1>5, <2>4, <2>5, <2>6 DEF Answered
        <3> QED BY <1>2, <3>1 DEF Reported
    <2>7. ASSUME NEW s \in Real, props[s].current = devVal[s] PROVE Accounted(s)'
        <3>1. props' = Committed(front)
            BY <1>1, <1>5 DEF AdvanceOn
        <3>2. CASE front.commit = s
            <4>1. s # None
                BY DisjointAssumption DEF Real, Settings
            <4>2. task.last.op = "SetParam" /\ task.last.arg = s
                BY <2>2, <3>2, <4>1 DEF Settles
            <4> QED BY <2>6, <4>2 DEF Accounted
        <3>3. CASE front.commit # s
            <4>1. props'[s] = props[s]
                BY <3>1, <3>3 DEF Committed
            <4> QED BY <2>7, <4>1 DEF Accounted
        <3> QED BY <3>2, <3>3
    <2>8. ASSUME NEW s \in Real, ToBeRead(s) PROVE Accounted(s)'
        <3>1. CASE front = ReadOf(s)
            <4>1. task.last.op = "GetParam" /\ task.last.arg = s
                BY <2>2, <3>1 DEF ReadOf, Send, Body
            <4> QED BY <2>6, <4>1 DEF Accounted
        <3>2. CASE front # ReadOf(s)
            <4>1. Complete /\ ~Awaiting("GetSupport")
                BY <2>2 DEF SupportInv, Strong, Awaiting
            <4>2. devFns \intersect General \subseteq support \/ Tail(task.steps)[1].kind # "If"
                BY <1>1, <1>5, <2>1, <4>1, NothingSkipped
            <4>3. s \in General => s \in devFns
                BY DisjointAssumption DEF Real
            <4>4. task'.running /\ Unread(task'.steps, s)
                BY <2>3, <2>8, <3>2, <4>2, <4>3 DEF ToBeRead
            <4> QED BY <4>4 DEF Accounted, ToBeRead
        <3> QED BY <3>1, <3>2
    <2>9. \A s \in Real : Accounted(s)'
        BY <1>2, <2>4, <2>7, <2>8 DEF Accounted
    <2>10. Answered(Replies, task)'
        BY <2>5 DEF Answered
    <2>11. Real' = Real
        BY DEF Real
    <2> QED BY <1>3, <2>4, <2>9, <2>10, <2>11 DEF Accord
<1> QED BY <1>4, <1>5

\* The engine takes a table: the settings it tells of are still to be read.
LEMMA TableValues ==
    ASSUME IInv, WaitInv, SupportInv, ValueInv, NEW wait \in {"ProtocolInfo", "SupportFunction"},
           recvBuf # <<>>, Head(recvBuf) \in Tables, recvBuf' = Tail(recvBuf),
           AdvanceOn(wait, Acked, support'), UNCHANGED wireVars, TableLearnt,
           UNCHANGED <<devFns, devVal, spent>>, Undisturbed' => Undisturbed
    PROVE  ValueInv'
<1>1. /\ EngineTypes /\ TaskInv /\ WireTypes /\ TaskShape /\ fromDevice' = fromDevice
      /\ wait \in Waits /\ wait \notin {"None", "Ack"} /\ (Strong' => Strong)
    BY DEF IInv, WaitInv, wireVars, Waits, Strong
<1>2. /\ Replies \in Seq(Incomings) /\ Replies # <<>> /\ Replies' = Tail(Replies)
      /\ Head(Replies) = Head(recvBuf)
      /\ \A s, v : Heard(Replies, s, v) => Heard(Replies', s, v)
      /\ \A s : Reported(s)' <=> Reported(s)
      /\ \A t : Answered(Replies, t) => Answered(Replies', t)
    <2>1. \A s : Head(recvBuf) \notin ReportsOf(s)
        BY DEF Tables, TableReports, ReportsOf
    <2> QED BY <1>1, <2>1, FrameRead
<1>3. \A s : Heard(Replies, s, devVal[s]) => Heard(Replies, s, devVal[s])'
    BY <1>2
<1>4. CASE task.wait # wait
    <2>1. task' = task /\ props' = props
        BY <1>1, <1>4 DEF AdvanceOn
    <2>2. Answered(Replies, task) => Answered(Replies, task)'
        BY <1>2, <2>1
    <2>3. \A s : Accounted(s) => Accounted(s)'
        BY <1>2, <2>1 DEF Accounted, ToBeRead
    <2> QED BY <1>1, <1>3, <2>1, <2>2, <2>3, SameValues DEF ValueInv
<1>5. CASE task.wait = wait
    <2> DEFINE front == Head(task.steps)
    <2>1. task.running /\ Orderly(task.steps) /\ task.steps \in Seq(Steps) /\ task.steps # <<>>
        BY <1>1, <1>5 DEF TaskInv, Proceeding, EndsInDone, ValueInv, EngineTypes, Tasks
    <2>2. front.kind = "Await"
        BY <1>1, <1>5, <2>1 DEF TaskShape, AtStep, Await
    <2>3. /\ task'.running => Orderly(task'.steps)
          /\ \A s : /\ Unread(task.steps, s) /\ front # ReadOf(s)
                    /\ s \in General => s \in support' \/ Tail(task.steps)[1].kind # "If"
                    => task'.running /\ Unread(task'.steps, s)
        BY <1>1, <1>5, <2>1, <2>2, AdvanceReads
    <2> SUFFICES ASSUME Strong, Strong' PROVE Accord'
        BY <1>1, <2>3 DEF ValueInv
    <2>4. Answered(Replies, task) /\ \A s \in Real : Heard(Replies, s, devVal[s]) /\ Accounted(s)
        BY DEF ValueInv, Accord
    <2>5. props' = props
        BY <1>1, <1>5, <2>2 DEF AdvanceOn, Committed
    <2>6. /\ support \subseteq support'
          /\ Head(recvBuf).body.val = devFns \intersect Covered(Head(recvBuf).body.op)
          /\ Head(recvBuf).body.val \subseteq support'
          /\ 1 \in At(Replies, Tables) /\ Replies[1] = Head(recvBuf)
        BY <1>1, TableTruth DEF Strong, Undisturbed
    <2>7. Head(recvBuf).body.op = TableFor(task.last.op)
        BY <2>6 DEF WaitInv, UnderWay, ForTask, Strong, Undisturbed
    <2>8. devFns \intersect General \subseteq support' \/ Tail(task.steps)[1].kind # "If"
        <3>1. Complete
            BY DEF SupportInv, Strong
        <3>2. Awaiting("GetSupport") => devFns \intersect General \subseteq support'
            BY <2>6, <2>7 DEF Awaiting, TableFor, Covered
        <3>3. task.wait # "None"
            BY <1>1, <1>5
        <3> QED BY <1>1, <2>1, <2>6, <3>1, <3>2, <3>3, NothingSkipped
    <2>9. ASSUME NEW s \in Real, ToBeRead(s) PROVE ToBeRead(s)'
        <3>1. front # ReadOf(s)
            BY <2>2 DEF ReadOf, Send
        <3>2. s \in General => s \in devFns
            BY DisjointAssumption DEF Real
        <3> QED BY <2>3, <2>8, <2>9, <3>1, <3>2 DEF ToBeRead
    <2>10. \A s \in Real : Accounted(s)'
        BY <1>2, <2>4, <2>5, <2>9 DEF Accounted
    <2>11. At(Replies, Acks) = {}
        <3>1. \A i \in At(Replies, Acks) : i < 1 /\ i \in Nat \ {0}
            <4>1. \A i \in At(Replies, Acks) : i < 1
                BY <2>6 DEF WaitInv, UnderWay, OneUnderWay, Strong, Undisturbed
            <4>2. At(Replies, Acks) \subseteq Nat \ {0}
                BY <1>2, AtTail
            <4> QED BY <4>1, <4>2
        <3> QED BY <3>1
    <2>12. At(Replies', Acks) = {}
        <3> HIDE DEF Replies
        <3> QED BY <1>2, <2>11, AtTail
    <2>13. Answered(Replies, task)'
        BY <2>12 DEF Answered
    <2>14. Real' = Real
        BY DEF Real
    <2> QED BY <1>3, <2>4, <2>10, <2>13, <2>14 DEF Accord
<1> QED BY <1>4, <1>5

\* The engine takes the report of a setting: with the last one under way it
\* shows what the headphones have.
LEMMA ParamValues ==
    ASSUME IInv, ValueInv, HandleParam, UNCHANGED wireVars,
           UNCHANGED <<devFns, devVal, spent>>, Undisturbed' => Undisturbed
    PROVE  ValueInv'
<1> DEFINE body == Head(recvBuf).body
<1>1. /\ EngineTypes /\ WireTypes /\ fromDevice' = fromDevice /\ (Strong' => Strong)
      /\ recvBuf # <<>> /\ recvBuf' = Tail(recvBuf) /\ task' = task
      /\ Head(recvBuf).type = "Data" /\ body.op = "RetParam"
      /\ props' = [props EXCEPT ![body.arg] = [desired |-> body.val, current |-> body.val]]
    BY DEF IInv, HandleParam, Incoming, wireVars, Strong
<1>2. /\ Replies \in Seq(Incomings) /\ Replies # <<>> /\ Replies' = Tail(Replies)
      /\ Head(Replies) = Head(recvBuf) /\ Head(recvBuf) \in Incomings
      /\ \A s, v : Heard(Replies, s, v) => Heard(Replies', s, v)
      /\ \A s : Head(recvBuf) \notin ReportsOf(s) => (Reported(s)' <=> Reported(s))
      /\ \A t : Answered(Replies, t) => Answered(Replies', t)
    BY <1>1, FrameRead, FirstReply
<1>3. ASSUME NEW s \in Real, Heard(Replies, s, devVal[s]), Accounted(s) PROVE Accounted(s)'
    <2>1. CASE body.arg = s
        <3>1. Head(Replies) \in ReportsOf(s)
            BY <1>1, <1>2, <2>1 DEF ReportsOf
        <3>2. At(Tail(Replies), ReportsOf(s)) = {} => body.val = devVal[s]
            BY <1>2, <1>3, <3>1, HeardTail
        <3>3. props'[s].current = body.val
            <4>1. s \in Settings
                BY DEF Real, Settings
            <4> QED BY <1>1, <2>1, <4>1 DEF EngineTypes
        <3>4. At(Tail(Replies), ReportsOf(s)) # {} => Reported(s)'
            BY <1>2 DEF Reported, ReportsOf
        <3> QED BY <3>2, <3>3, <3>4 DEF Accounted
    <2>2. CASE body.arg # s
        <3>1. Head(recvBuf) \notin ReportsOf(s) /\ props'[s] = props[s]
            BY <1>1, <2>2 DEF ReportsOf
        <3> QED BY <1>1, <1>2, <1>3, <3>1 DEF Accounted, ToBeRead
    <2> QED BY <2>1, <2>2
<1>4. Answered(Replies, task) => Answered(Replies, task)'
    BY <1>1, <1>2
<1>5. \A s : Heard(Replies, s, devVal[s]) => Heard(Replies, s, devVal[s])'
    BY <1>2
<1> QED BY <1>1, <1>3, <1>4, <1>5, SameValues DEF ValueInv

\* A stage of poll().
LEMMA EngineStepValues ==
    ASSUME IInv, WaitInv, SupportInv, ValueInv, EngineStep
    PROVE  ValueInv'
<1>1. /\ WireTypes /\ EngineTypes /\ TaskInv /\ task \in Tasks
      /\ recvBuf \in Seq(Incomings) /\ fromDevice \in Seq(Incomings)
    BY DEF IInv, EngineTypes, WireTypes
<1>2. /\ (Undisturbed' => Undisturbed) /\ (Strong' => Strong)
      /\ UNCHANGED <<devFns, devVal, spent>>
    BY EngineKeepsEvents DEF EngineStep, deviceVars, Strong
<1>3. ASSUME Replies' = Replies, props' = props,
             task'.running = task.running, task'.steps = task.steps,
             task'.wait = task.wait, task'.last = task.last
      PROVE  ValueInv'
    BY <1>2, <1>3, QuietValues
<1>4. ASSUME UNCHANGED <<task, props, recvBuf, fromDevice>> PROVE ValueInv'
    BY <1>3, <1>4 DEF Replies
<1>5. CASE FlushSendBuf
    BY <1>4, <1>5 DEF FlushSendBuf
<1>6. CASE ReadFrames
    <2>1. recvBuf \o fromDevice \in Seq(Incomings)
        BY <1>1, ConcatProperties
    <2>2. Replies' = Replies
        BY <1>6, <2>1, ConcatEmptySeq DEF ReadFrames, Replies
    <2>3. UNCHANGED <<props, task>>
        BY <1>6 DEF ReadFrames
    <2> QED BY <1>3, <2>2, <2>3
<1>7. CASE TransportError
    BY <1>4, <1>7 DEF TransportError, wireVars
<1>8. CASE (DeadlineOpen \/ NoFrame) /\ UNCHANGED wireVars
    BY <1>4, <1>8 DEF DeadlineOpen, NoFrame, wireVars
<1>9. CASE Retransmit /\ UNCHANGED wireVars
    <2>1. task' = Rearmed(task) /\ props' = props /\ Replies' = Replies
        BY <1>9 DEF Retransmit, Replies, wireVars
    <2>2. /\ task'.running = task.running /\ task'.steps = task.steps
          /\ task'.wait = task.wait /\ task'.last = task.last
        BY <1>1, <2>1 DEF Rearmed, Tasks
    <2> QED BY <1>3, <2>1, <2>2
<1>10. CASE GiveUp /\ UNCHANGED wireVars
    <2>1. "Fatal" \in pending' /\ task' = NoTask
        BY <1>10 DEF GiveUp, Emit
    <2> QED BY <2>1, NoTaskType DEF ValueInv, Strong, Undisturbed
<1>11. CASE StepCompleted /\ UNCHANGED wireVars
    <2>1. CASE AtDone(task)
        <3>1. task' = NoTask /\ props' = props /\ Replies' = Replies
            BY <1>11, <2>1 DEF StepCompleted, Replies, wireVars
        <3>2. /\ task.steps \in Seq(Steps) /\ EndsInDone(task.steps)
              /\ Head(task.steps).kind = "Done"
            BY <1>1, <2>1 DEF AtDone, TaskInv, Proceeding, Tasks
        <3>3. \A s : ~ToBeRead(s)
            BY <3>2, NoneAhead, AskKinds DEF ToBeRead, Unread
        <3>4. \A s : Accounted(s) => Accounted(s)'
            BY <1>2, <3>1, <3>3 DEF Accounted, Reported
        <3>5. ~task'.running /\ Answered(Replies, task)'
            BY <3>1, NoTaskType DEF Answered
        <3>6. \A s : Heard(Replies, s, devVal[s]) => Heard(Replies, s, devVal[s])'
            BY <1>2, <3>1
        <3> QED BY <1>2, <3>4, <3>5, <3>6, SameValues
    <2>2. CASE ~AtDone(task)
        BY <1>4, <1>11, <2>2 DEF StepCompleted, wireVars
    <2> QED BY <2>1, <2>2
<1>12. CASE HandleAck /\ UNCHANGED wireVars
    BY <1>2, <1>12, AckValues
<1>13. ASSUME NEW op \in TableReports, Incoming(op)
       PROVE  recvBuf # <<>> /\ Head(recvBuf) \in Tables /\ recvBuf' = Tail(recvBuf)
    BY <1>1, <1>13, FirstReply DEF Incoming, Tables
<1>14. CASE HandleProtocolInfo /\ UNCHANGED wireVars
    <2>1. /\ recvBuf # <<>> /\ Head(recvBuf) \in Tables /\ recvBuf' = Tail(recvBuf)
          /\ Head(recvBuf).body.op = "RetProtocolInfo"
        BY <1>13, <1>14 DEF HandleProtocolInfo, TableReports, Incoming
    <2>2. AdvanceOn("ProtocolInfo", Acked, support') /\ TableLearnt
        BY <1>14, <2>1 DEF HandleProtocolInfo, TableLearnt
    <2> QED BY <1>2, <1>14, <2>1, <2>2, TableValues
<1>15. CASE HandleSupportFunction /\ UNCHANGED wireVars
    <2>1. recvBuf # <<>> /\ Head(recvBuf) \in Tables /\ recvBuf' = Tail(recvBuf)
        BY <1>13, <1>15 DEF HandleSupportFunction, TableReports
    <2>2. AdvanceOn("SupportFunction", Acked, support')
        BY <1>15 DEF HandleSupportFunction
    <2>3. TableLearnt
        BY <1>15 DEF HandleSupportFunction, TableLearnt
    <2> QED BY <1>2, <1>15, <2>1, <2>2, <2>3, TableValues
<1>16. CASE HandleParam /\ UNCHANGED wireVars
    BY <1>2, <1>16, ParamValues
<1>17. CASE (HandleCapability \/ HandlePairedList) /\ UNCHANGED wireVars
    <2>1. /\ recvBuf # <<>> /\ recvBuf' = Tail(recvBuf)
          /\ UNCHANGED <<props, task, fromDevice>>
          /\ Head(recvBuf).body.op \in {"RetCapability", "RetPairedList"}
        BY <1>17 DEF HandleCapability, HandlePairedList, Incoming, wireVars
    <2>2. \A s : Head(recvBuf) \notin ReportsOf(s)
        BY <2>1 DEF ReportsOf
    <2>3. /\ \A s, v : Heard(Replies, s, v) => Heard(Replies', s, v)
          /\ \A s : Reported(s)' <=> Reported(s)
          /\ \A t : Answered(Replies, t) => Answered(Replies', t)
        BY <1>1, <2>1, <2>2, FrameRead
    <2>4. \A s : Accounted(s) => Accounted(s)'
        BY <1>2, <2>1, <2>3 DEF Accounted, ToBeRead
    <2>5. Answered(Replies, task) => Answered(Replies, task)'
        BY <2>1, <2>3
    <2>6. \A s : Heard(Replies, s, devVal[s]) => Heard(Replies, s, devVal[s])'
        BY <1>2, <2>3
    <2> QED BY <1>2, <2>1, <2>4, <2>5, <2>6, SameValues DEF ValueInv
<1> QED
    BY <1>5, <1>6, <1>7, <1>8, <1>9, <1>10, <1>11, <1>12, <1>14, <1>15, <1>16, <1>17
       DEF EngineStep, Poll

\* A task starts when there is none: nothing is under way for it to miss.
LEMMA StartValues ==
    ASSUME IInv, WaitInv, ValueInv, IsReady,
           NEW steps \in Seq(Steps), EndsInDone(steps), Orderly(steps),
           NEW known, StartTask(steps, known),
           UNCHANGED <<recvBuf, fromDevice, devFns, devVal>>, Strong' => Strong,
           \A s \in Real : props'[s].current = props[s].current
    PROVE  ValueInv'
<1>1. Orderly(task'.steps)
    BY StartGoesOn, UnfoldOrderly DEF GoesOn
<1>2. Replies' = Replies
    BY DEF Replies
<1>3. ASSUME Strong' PROVE Answered(Replies, task)'
    <2>1. task.wait = "None"
        BY DEF IInv, TaskInv, IsReady
    <2>2. Idle(Line, Replies)
        BY <1>3, <2>1, NoneUnderWay DEF WaitInv, UnderWay, Strong, Undisturbed
    <2> QED BY <1>2, <2>2 DEF Idle, Answered
<1>4. \A s \in Real : Accounted(s) => Accounted(s)'
    BY <1>2 DEF Accounted, Reported, ToBeRead, IsReady
<1>5. \A s : Heard(Replies, s, devVal[s]) => Heard(Replies, s, devVal[s])'
    BY <1>2
<1> QED BY <1>1, <1>3, <1>4, <1>5, SameValues

\* What the headphones answer to a command that reads or writes a setting.
LEMMA AnswerValues ==
    ASSUME DeviceTypes, Echo, NEW body \in Requests
    PROVE  \/ Answer(body) = <<>> /\ body.op \notin {"GetParam", "SetParam"}
           \/ \E report \in Incomings :
                 /\ Answer(body) = <<report>> /\ report \notin Acks
                 /\ \A s : report \in ReportsOf(s) <=>
                        body.op \in {"GetParam", "SetParam"} /\ body.arg = s
                 /\ body.op = "GetParam" => report.body.val = devVal[body.arg]
                 /\ body.op = "SetParam" => report.body.val = body.val
<1> DEFINE told(op, arg, val) == [type |-> "Data", body |-> Body(op, arg, val)]
<1>1. ASSUME NEW op, NEW arg, NEW val, Answer(body) = Report(op, arg, val),
             op = "RetParam" <=> body.op \in {"GetParam", "SetParam"},
             op = "RetParam" => arg = body.arg,
             body.op = "GetParam" => val = devVal[body.arg],
             body.op = "SetParam" => val = body.val
      PROVE  \E report \in Incomings :
                 /\ Answer(body) = <<report>> /\ report \notin Acks
                 /\ \A s : report \in ReportsOf(s) <=>
                        body.op \in {"GetParam", "SetParam"} /\ body.arg = s
                 /\ body.op = "GetParam" => report.body.val = devVal[body.arg]
                 /\ body.op = "SetParam" => report.body.val = body.val
    <2>1. Answer(body) = <<told(op, arg, val)>>
        BY <1>1 DEF Report
    <2>2. told(op, arg, val) \in Incomings
        <3> DEFINE r == told(op, arg, val)
        <3>1. <<r>> \in Seq(Incomings) /\ 1 \in 1..Len(<<r>>) /\ <<r>>[1] = r
            BY <2>1, AnswerType
        <3> QED BY <3>1, ElementOfSeq
    <2>3. /\ told(op, arg, val).type = "Data" /\ told(op, arg, val).body.op = op
          /\ told(op, arg, val).body.arg = arg /\ told(op, arg, val).body.val = val
        BY DEF Body
    <2> HIDE DEF told
    <2>4. \A s : told(op, arg, val) \in ReportsOf(s) <=>
              body.op \in {"GetParam", "SetParam"} /\ body.arg = s
        BY <1>1, <2>2, <2>3 DEF ReportsOf
    <2>5. told(op, arg, val) \notin Acks
        BY <2>3 DEF Acks, AckFrame
    <2> QED BY <1>1, <2>1, <2>2, <2>3, <2>4, <2>5
<1>2. CASE body.op = "GetProtocolInfo"
    <2> DEFINE val == devFns \intersect {"Table2"}
    <2>1. Answer(body) = Report("RetProtocolInfo", None, val)
        BY <1>2 DEF Answer
    <2> HIDE DEF val
    <2> QED BY <1>1, <1>2, <2>1
<1>3. CASE body.op = "GetSupport"
    <2> DEFINE val == devFns \intersect General
    <2>1. Answer(body) = Report("RetSupport", None, val)
        BY <1>3 DEF Answer
    <2> HIDE DEF val
    <2> QED BY <1>1, <1>3, <2>1
<1>4. CASE body.op = "GetSupport2"
    <2> DEFINE val == devFns \intersect {"PairedList"}
    <2>1. Answer(body) = Report("RetSupport2", None, val)
        BY <1>4 DEF Answer
    <2> HIDE DEF val
    <2> QED BY <1>1, <1>4, <2>1
<1>5. CASE body.op = "GetPairedList"
    <2>1. Answer(body) = Report("RetPairedList", None, None)
        BY <1>5 DEF Answer
    <2> QED BY <1>1, <1>5, <2>1
<1>6. CASE body.op = "GetCapability"
    <2>1. Answer(body) = Report("RetCapability", body.arg, None)
        BY <1>6 DEF Answer
    <2> QED BY <1>1, <1>6, <2>1
<1>7. CASE body.op = "GetParam"
    <2>1. Answer(body) = Report("RetParam", body.arg, devVal[body.arg])
        BY <1>7 DEF Answer
    <2> QED BY <1>1, <1>7, <2>1
<1>8. CASE body.op = "SetParam"
    <2>1. Answer(body) = Report("RetParam", body.arg, body.val)
        BY <1>8 DEF Answer
    <2> QED BY <1>1, <1>8, <2>1
<1>9. CASE body.op \notin {"GetProtocolInfo", "GetSupport", "GetSupport2", "GetPairedList",
                           "GetCapability", "GetParam", "SetParam"}
    BY <1>9 DEF Answer
<1> QED BY <1>2, <1>3, <1>4, <1>5, <1>6, <1>7, <1>8, <1>9

\* The ACK of a command and its report behind it.
LEMMA ReportBehindAck ==
    ASSUME NEW replies \in Seq(Incomings), At(replies, Acks) = {},
           NEW report \in Incomings, report \notin Acks, NEW t,
           t.last.op \in {"GetParam", "SetParam"} => report \in ReportsOf(t.last.arg)
    PROVE  Answered(Append(Append(replies, AckFrame), report), t)
<1> DEFINE acked == Append(replies, AckFrame)
           n == Len(replies)
<1>1. AckFrame \in Incomings /\ AckFrame \in Acks
    BY DEF Incomings, Acks
<1>2. acked \in Seq(Incomings) /\ Len(acked) = n + 1 /\ n \in Nat
    BY <1>1, AppendProperties, LenProperties
<1>3. At(acked, Acks) = {n + 1}
    BY <1>1, AtMore
<1> HIDE DEF acked, n
<1>4. At(Append(acked, report), Acks) = {n + 1}
    BY <1>2, <1>3, AtMore
<1>5. ASSUME NEW s, report \in ReportsOf(s)
      PROVE  n + 2 \in At(Append(acked, report), ReportsOf(s))
    <2>1. Len(acked) + 1 \in At(Append(acked, report), ReportsOf(s))
        BY <1>2, <1>5, AtMore
    <2>2. Len(acked) + 1 = n + 2
        BY <1>2
    <2> QED BY <2>1, <2>2
<1>6. n + 1 < n + 2
    BY <1>2
<1>7. Answered(Append(acked, report), t)
    BY <1>4, <1>5, <1>6 DEF Answered
<1> QED BY <1>7 DEF acked

\* The command that the headphones take is the one the task waits on.
LEMMA CommandOfTask ==
    ASSUME IInv, WaitInv, DeviceTakes, Undisturbed
    PROVE  /\ Head(toDevice).body = task.last /\ task.last \in Requests
           /\ task.running /\ task.wait # "None" /\ At(Replies, Acks) = {}
<1>1. /\ WireTypes /\ TaskInv /\ toDevice # <<>> /\ toDevice' = Tail(toDevice)
      /\ Head(toDevice).type = "Data" /\ sendBuf' = sendBuf
    BY DEF IInv, DeviceTakes, Arrived, engineVars
<1>2. Line \in Seq(Outgoing) /\ Line # <<>> /\ Head(Line) = Head(toDevice)
    BY <1>1, FrameLeaves
<1>3. Head(Line) \in Commands /\ Head(Line).body \in Requests
    BY <1>1, <1>2, HeadTailProperties DEF Commands, Outgoing, AckFrame
<1>4. OneUnderWay(Line, Replies) /\ ForTask(Line, Replies, task)
    BY DEF WaitInv, UnderWay, Undisturbed
<1> HIDE DEF Line
<1>5. 1 \in At(Line, Commands) /\ Line[1] = Head(Line)
    BY <1>2, <1>3, AtTail, HeadTailProperties
<1> QED BY <1>1, <1>2, <1>3, <1>4, <1>5 DEF OneUnderWay, ForTask, TaskInv

\* The headphones take a command: they report what it reads, or what it sets.
LEMMA DeviceValues ==
    ASSUME Echo, IInv, WaitInv, ValueInv, Device
    PROVE  ValueInv'
<1>1. /\ WireTypes /\ DeviceTypes /\ TaskInv
      /\ UNCHANGED <<recvBuf, task, props, devFns>> /\ (Strong' => Strong)
    BY DEF IInv, Device, DeviceTakes, DeviceDropsRepeat, DeviceTakesAck, engineVars, deviceVars,
           Strong, Undisturbed
<1>2. CASE UNCHANGED <<fromDevice, devVal>>
    <2>1. Replies' = Replies
        BY <1>1, <1>2 DEF Replies
    <2> QED BY <1>1, <1>2, <2>1, QuietValues
<1>3. CASE DeviceTakes
    <2> SUFFICES ASSUME Strong, Strong' PROVE Accord'
        BY <1>1 DEF ValueInv
    <2> DEFINE body  == task.last
               acked == Append(Replies, AckFrame)
    <2>1. /\ Head(toDevice).body = body /\ body \in Requests /\ At(Replies, Acks) = {}
          /\ fromDevice' = (fromDevice \o <<AckFrame>>) \o Answer(body)
          /\ devVal' = IF body.op = "SetParam"
                       THEN [devVal EXCEPT ![body.arg] = body.val] ELSE devVal
        BY <1>3, CommandOfTask DEF DeviceTakes, Strong
    <2>2. Answered(Replies, task) /\ \A s \in Real : Heard(Replies, s, devVal[s]) /\ Accounted(s)
        BY DEF ValueInv, Accord
    <2>3. AckFrame \in Incomings /\ \A s : AckFrame \notin ReportsOf(s)
        BY DEF Incomings, ReportsOf, AckFrame
    <2>4. /\ Replies \in Seq(Incomings) /\ acked \in Seq(Incomings) /\ acked = Replies \o <<AckFrame>>
          /\ Replies' = acked \o Answer(body)
        <3>1. Replies \in Seq(Incomings) /\ Replies' = (Replies \o <<AckFrame>>) \o Answer(body)
            BY <1>1, <2>1, AnswerType, RepliesMore
        <3> QED BY <2>3, <3>1, AppendIsConcat, AppendProperties
    <2>5. \A s : /\ At(acked, ReportsOf(s)) = At(Replies, ReportsOf(s))
                 /\ \A v : Heard(Replies, s, v) => Heard(acked, s, v)
        BY <2>3, <2>4, HeardMore
    <2>6. Real' = Real /\ \A s : ReportsOf(s)' = ReportsOf(s)
        BY <1>1 DEF Real, ReportsOf
    <2>7. SUFFICES /\ Answered(Replies', task)
                   /\ \A s \in Real : Heard(Replies', s, devVal'[s])
                   /\ \A s \in Real : \/ At(Replies', ReportsOf(s)) # {}
                                      \/ /\ At(Replies', ReportsOf(s)) = At(Replies, ReportsOf(s))
                                         /\ devVal'[s] = devVal[s]
        <3>1. Answered(Replies, task)' /\ \A s \in Real : Heard(Replies, s, devVal[s])'
            BY <1>1, <2>7
        <3>2. \A s \in Real : Accounted(s)'
            BY <1>1, <2>2, <2>6, <2>7 DEF Accounted, Reported, ToBeRead
        <3> QED BY <2>6, <3>1, <3>2 DEF Accord
    <2>8. CASE Answer(body) = <<>> /\ body.op \notin {"GetParam", "SetParam"}
        <3>1. Replies' = acked
            BY <2>4, <2>8, ConcatEmptySeq
        <3>2. devVal' = devVal /\ Answered(Replies', task)
            BY <2>1, <2>8 DEF Answered
        <3> QED BY <2>2, <2>5, <3>1, <3>2
    <2>9. ASSUME NEW report \in Incomings, Answer(body) = <<report>>, report \notin Acks,
                 \A s : report \in ReportsOf(s) <=>
                     body.op \in {"GetParam", "SetParam"} /\ body.arg = s,
                 body.op = "GetParam" => report.body.val = devVal[body.arg],
                 body.op = "SetParam" => report.body.val = body.val
          PROVE  /\ Answered(Replies', task)
                 /\ \A s \in Real : Heard(Replies', s, devVal'[s])
                 /\ \A s \in Real : \/ At(Replies', ReportsOf(s)) # {}
                                    \/ /\ At(Replies', ReportsOf(s)) = At(Replies, ReportsOf(s))
                                       /\ devVal'[s] = devVal[s]
        <3>1. Replies' = Append(acked, report)
            BY <2>4, <2>9, AppendIsConcat
        <3>2. Answered(Append(acked, report), task)
            BY <2>1, <2>4, <2>9, ReportBehindAck
        <3>0. acked \in Seq(Incomings)
            BY <2>4
        <3> HIDE DEF acked
        <3>3. ASSUME NEW s \in Real
              PROVE  /\ Heard(Replies', s, devVal'[s])
                     /\ \/ At(Replies', ReportsOf(s)) # {}
                        \/ /\ At(Replies', ReportsOf(s)) = At(Replies, ReportsOf(s))
                           /\ devVal'[s] = devVal[s]
            <4>1. CASE report \in ReportsOf(s)
                <5>1. s \in Settings /\ devVal \in [Settings -> Values]
                    BY <1>1 DEF Real, Settings, DeviceTypes
                <5>2. report.body.val = devVal'[s]
                    BY <2>1, <2>9, <4>1, <5>1
                <5>3. /\ Heard(Append(acked, report), s, devVal'[s])
                      /\ At(Append(acked, report), ReportsOf(s)) # {}
                    BY <2>9, <3>0, <4>1, <5>2, HeardMore
                <5> QED BY <3>1, <5>3
            <4>2. CASE report \notin ReportsOf(s)
                <5>1. devVal'[s] = devVal[s]
                    BY <2>1, <2>9, <4>2
                <5>2. Heard(acked, s, devVal[s])
                    BY <2>2, <2>5
                <5>3. /\ Heard(Append(acked, report), s, devVal[s])
                      /\ At(Append(acked, report), ReportsOf(s)) = At(acked, ReportsOf(s))
                    BY <2>9, <3>0, <4>2, <5>2, HeardMore
                <5>4. At(acked, ReportsOf(s)) = At(Replies, ReportsOf(s))
                    BY <2>5
                <5> QED BY <3>1, <5>1, <5>3, <5>4
            <4> QED BY <4>1, <4>2
        <3> QED BY <3>1, <3>2, <3>3
    <2> QED BY <1>1, <2>1, <2>8, <2>9, AnswerValues
<1> QED BY <1>2, <1>3 DEF Device, DeviceDropsRepeat, DeviceTakesAck, deviceVars

\* Someone turns a knob: the headphones report it.
LEMMA ChangeValues ==
    ASSUME IInv, ValueInv, NEW s \in Settings, NEW v \in Values, DeviceChanges(s, v)
    PROVE  ValueInv'
<1>1. /\ WireTypes /\ DeviceTypes /\ UNCHANGED <<recvBuf, task, props, devFns>>
      /\ devVal' = [devVal EXCEPT ![s] = v] /\ (Strong' => Strong)
      /\ link = "up" => fromDevice' = fromDevice \o Report("RetParam", s, v)
    <2>1. spent'.late = spent.late /\ spent'.missed = spent.missed
        BY DEF DeviceChanges, Spend, IInv, DeviceTypes, Counts
    <2> QED BY <2>1 DEF IInv, DeviceChanges, engineVars, Strong, Undisturbed
<1> SUFFICES ASSUME Strong, Strong' PROVE Accord'
    BY <1>1 DEF ValueInv
<1>2. Answered(Replies, task) /\ \A r \in Real : Heard(Replies, r, devVal[r]) /\ Accounted(r)
    BY DEF ValueInv, Accord
<1> DEFINE told == [type |-> "Data", body |-> Body("RetParam", s, v)]
<1>3. /\ told \in Incomings /\ told \notin Acks /\ told.body.val = v
      /\ \A r : told \in ReportsOf(r) <=> r = s
    BY DEF Incomings, Reports, Body, Acks, AckFrame, ReportsOf
<1>4. Report("RetParam", s, v) = <<told>> /\ <<told>> \in Seq(Incomings)
    BY <1>3, OneElement DEF Report
<1> HIDE DEF told
<1>5. Replies \in Seq(Incomings) /\ Replies' = Append(Replies, told)
    <2>1. Replies \in Seq(Incomings) /\ Replies' = Replies \o <<told>>
        BY <1>1, <1>4, RepliesMore DEF Strong, Undisturbed
    <2>2. Append(Replies, told) = Replies \o <<told>>
        BY <1>3, <2>1, AppendIsConcat
    <2> QED BY <2>1, <2>2
<1>6. Answered(Replies', task)
    BY <1>2, <1>3, <1>5, AnsweredMore
<1>7. Real' = Real /\ \A r : ReportsOf(r)' = ReportsOf(r)
    BY <1>1 DEF Real, ReportsOf
<1>8. ASSUME NEW r \in Real PROVE Heard(Replies', r, devVal'[r]) /\ Accounted(r)'
    <2>1. r \in Settings /\ devVal \in [Settings -> Values]
        BY <1>1 DEF Real, Settings, DeviceTypes
    <2>2. CASE r = s
        <3>1. told \in ReportsOf(r) /\ told.body.val = devVal'[r]
            BY <1>1, <1>3, <2>1, <2>2
        <3> QED BY <1>3, <1>5, <1>7, <3>1, HeardMore DEF Accounted, Reported
    <2>3. CASE r # s
        <3>1. told \notin ReportsOf(r) /\ devVal'[r] = devVal[r]
            BY <1>1, <1>3, <2>1, <2>3
        <3>2. /\ Heard(Replies', r, devVal[r])
              /\ At(Replies', ReportsOf(r)) = At(Replies, ReportsOf(r))
            BY <1>2, <1>3, <1>5, <3>1, HeardMore
        <3>3. Accounted(r)'
            BY <1>1, <1>2, <1>7, <3>1, <3>2 DEF Accounted, Reported, ToBeRead
        <3> QED BY <3>1, <3>2, <3>3
    <2> QED BY <2>2, <2>3
<1> QED BY <1>1, <1>6, <1>7, <1>8 DEF Accord

\* The init handshake reads every setting there is.
LEMMA WithinBoth ==
    ASSUME NEW S, NEW a \in Seq(S), NEW b \in Seq(S)
    PROVE  /\ \A i \in DOMAIN a : \E j \in DOMAIN (a \o b) : (a \o b)[j] = a[i]
           /\ \A i \in DOMAIN b : \E j \in DOMAIN (a \o b) : (a \o b)[j] = b[i]
<1> DEFINE both == a \o b
           m == Len(a)
           n == Len(b)
<1>1. /\ m \in Nat /\ n \in Nat /\ DOMAIN a = 1..m /\ DOMAIN b = 1..n
    BY LenProperties
<1>2. /\ both \in Seq(S) /\ Len(both) = m + n
      /\ \A i \in 1..(m + n) : both[i] = IF i <= m THEN a[i] ELSE b[i - m]
    BY ConcatProperties
<1>3. DOMAIN both = 1..(m + n)
    BY <1>2, LenProperties
<1> HIDE DEF both, m, n
<1>4. ASSUME NEW i \in DOMAIN a PROVE i \in DOMAIN both /\ both[i] = a[i]
    BY <1>1, <1>2, <1>3
<1>5. ASSUME NEW i \in DOMAIN b PROVE i + m \in DOMAIN both /\ both[i + m] = b[i]
    <2>1. i + m \in 1..(m + n) /\ ~(i + m <= m) /\ (i + m) - m = i
        BY <1>1
    <2>2. both[i + m] = b[(i + m) - m]
        BY <1>2, <2>1
    <2> QED BY <1>3, <2>1, <2>2
<1>6. /\ \A i \in DOMAIN a : \E j \in DOMAIN both : both[j] = a[i]
      /\ \A i \in DOMAIN b : \E j \in DOMAIN both : both[j] = b[i]
    BY <1>4, <1>5
<1> QED BY <1>6 DEF both

LEMMA AheadOfBoth ==
    ASSUME NEW a \in Seq(Steps), NEW b \in Seq(Steps),
           NEW s, NEW ask, Ahead(a, ask, s) \/ Ahead(b, ask, s)
    PROVE  Ahead(a \o b, ask, s)
<1> DEFINE both == a \o b
<1>1. /\ \A i \in DOMAIN a : \E j \in DOMAIN both : both[j] = a[i]
      /\ \A i \in DOMAIN b : \E j \in DOMAIN both : both[j] = b[i]
    BY WithinBoth
<1> HIDE DEF both
<1>2. Ahead(both, ask, s)
    <2>1. CASE Ahead(a, ask, s)
        <3>1. PICK i \in DOMAIN a : a[i] = ask \/ Behind(a[i], ask, s)
            BY <2>1 DEF Ahead
        <3>2. PICK j \in DOMAIN both : both[j] = a[i]
            BY <1>1
        <3> QED BY <3>1, <3>2 DEF Ahead
    <2>2. CASE Ahead(b, ask, s)
        <3>1. PICK i \in DOMAIN b : b[i] = ask \/ Behind(b[i], ask, s)
            BY <2>2 DEF Ahead
        <3>2. PICK j \in DOMAIN both : both[j] = b[i]
            BY <1>1
        <3> QED BY <3>1, <3>2 DEF Ahead
    <2> QED BY <2>1, <2>2
<1> QED BY <1>2 DEF both

LEMMA InitReads ==
    /\ \A s \in Settings : Unread(BuildInitSteps, s)
    /\ \A s \in General : Ahead(BuildInitSteps, AskCap(s), s)
<1> SUFFICES ASSUME NEW s \in Settings
             PROVE  /\ Ahead(BuildInitSteps, ReadOf(s), s)
                    /\ s \in General => Ahead(BuildInitSteps, AskCap(s), s)
    BY DEF Unread, Settings
<1>1. /\ InitTables \in Seq(Steps) /\ InitGeneral \in Seq(Steps) /\ InitPlain \in Seq(Steps)
      /\ InitRest \in Seq(Steps) /\ <<Done("InitOk")>> \in Seq(Steps)
    <2>1. BodySteps \subseteq Steps
        BY DEF BodySteps, Steps
    <2>2. Done("InitOk") \in Steps
        BY StepTypes DEF Steps
    <2>3. InitGeneral \in Seq(Steps) /\ InitPlain \in Seq(Steps)
        BY <2>1, InitParts, SeqMonotonic
    <2>4. <<Done("InitOk")>> \in Seq(Steps)
        BY <2>2, OneElement
    <2> QED BY <2>3, <2>4, InitOrdinary
<1>2. ASSUME s \in General, NEW ask \in {AskCap(s), ReadOf(s)} PROVE Ahead(InitGeneral, ask, s)
    <2>1. PICK i \in DOMAIN GeneralOrder : GeneralOrder[i] = s
        BY <1>2, OrderAssumption DEF IsOrderOf
    <2>2. i \in DOMAIN InitGeneral /\ InitGeneral[i] = If(s, <<AskCap(s), ReadOf(s)>>)
        BY <2>1 DEF InitGeneral, Each, ReadOf, AskCap
    <2>3. PICK l \in DOMAIN <<AskCap(s), ReadOf(s)>> : <<AskCap(s), ReadOf(s)>>[l] = ask
        <3>1. /\ 1 \in DOMAIN <<AskCap(s), ReadOf(s)>> /\ <<AskCap(s), ReadOf(s)>>[1] = AskCap(s)
              /\ 2 \in DOMAIN <<AskCap(s), ReadOf(s)>> /\ <<AskCap(s), ReadOf(s)>>[2] = ReadOf(s)
            OBVIOUS
        <3> QED BY <1>2, <3>1
    <2>4. Behind(InitGeneral[i], ask, s)
        BY <1>2, <2>2, <2>3 DEF Behind, If
    <2> QED BY <2>2, <2>4 DEF Ahead
<1>3. ASSUME s \in Plain PROVE Ahead(InitPlain, ReadOf(s), s)
    <2>1. PICK i \in DOMAIN PlainOrder : PlainOrder[i] = s
        BY <1>3, OrderAssumption DEF IsOrderOf
    <2>2. i \in DOMAIN InitPlain /\ InitPlain[i] = ReadOf(s)
        BY <2>1 DEF InitPlain, Each, ReadOf
    <2> QED BY <2>2 DEF Ahead
<1>4. ASSUME NEW ask, Ahead(InitGeneral, ask, s) \/ Ahead(InitPlain, ask, s)
      PROVE  Ahead(BuildInitSteps, ask, s)
    <2>1. InitGeneral \o InitPlain \in Seq(Steps) /\ Ahead(InitGeneral \o InitPlain, ask, s)
        BY <1>1, <1>4, AheadOfBoth, ConcatProperties
    <2>2. Ahead(InitRest, ask, s)
        BY <1>1, <2>1, AheadOfBoth DEF InitRest
    <2> QED BY <1>1, <2>2, AheadOfBoth, InitParts
<1> QED BY <1>2, <1>3, <1>4 DEF Settings

\* A new engine reads everything.
LEMMA AttachValues ==
    ASSUME IInv, LineInv, Attach
    PROVE  ValueInv'
<1>1. /\ link = "none" /\ StartTask(BuildInitSteps, support)
      /\ UNCHANGED <<support, recvBuf, fromDevice>>
    BY DEF Attach, deviceVars
<1>2. Replies' = <<>>
    <2>1. recvBuf = <<>> /\ fromDevice = <<>>
        BY <1>1 DEF LineInv, ConnectionInv, Fresh, NewEngine
    <2> QED BY <1>1, <2>1 DEF Replies
<1>3. task'.running /\ task'.steps = BuildInitSteps
    <2>1. BuildInitSteps \in Seq(Steps) /\ EndsInDone(BuildInitSteps)
          /\ BuildInitSteps[1].kind # "If"
        BY InitSteps, InitShaped
    <2>2. Unfold(BuildInitSteps, support) = BuildInitSteps
        BY <2>1, UnfoldOfRun
    <2> QED BY <1>1, <2>1, <2>2, StartGoesOn DEF GoesOn
<1>4. Answered(Replies, task)' /\ \A s : Heard(Replies, s, devVal[s])'
    BY <1>2, AtNothing DEF Answered, Heard, LastOf
<1>5. \A s \in Real' : Accounted(s)'
    <2>1. Real' \subseteq Settings
        BY DEF Real, Settings
    <2> QED BY <1>3, <2>1, InitReads DEF Accounted, ToBeRead
<1> QED BY <1>3, <1>4, <1>5, BuiltOrderly DEF ValueInv, Accord

\* Every step keeps what is shown true, or on its way.
LEMMA ValueKept ==
    ASSUME Echo
    PROVE  IInv /\ WaitInv /\ SupportInv /\ ValueInv /\ [Next]_vars => ValueInv'
<1> SUFFICES ASSUME IInv, WaitInv, SupportInv, ValueInv, [Next]_vars PROVE ValueInv'
    OBVIOUS
<1>1. /\ WireTypes /\ EngineTypes /\ task \in Tasks /\ LineInv /\ spent \in [Counts -> Nat]
      /\ Real \subseteq Settings
    BY DEF IInv, WireTypes, EngineTypes, DeviceTypes, WaitInv, Real, Settings
<1>2. ASSUME NEW what \in Counts, NEW bound, Spend(what, bound)
      PROVE  /\ what # "late" => spent'.late = spent.late
             /\ what # "missed" => spent'.missed = spent.missed
             /\ spent'[what] = spent[what] + 1
    BY <1>1, <1>2 DEF Spend, Counts
<1>3. Counts = {"edits", "keys", "changes", "lost", "missed", "late", "breaks"}
    BY DEF Counts
<1>4. CASE /\ UNCHANGED <<task, recvBuf, fromDevice, link, pending, devFns, devVal>>
           /\ spent'.late = spent.late /\ spent'.missed = spent.missed
           /\ \A s \in Settings : props'[s].current = props[s].current
    <2>1. (Strong' => Strong) /\ Replies' = Replies
        BY <1>4 DEF Strong, Undisturbed, Replies
    <2> QED BY <1>1, <1>4, <2>1, QuietValues
<1>5. CASE CloseConnection
    BY <1>5, NoTaskType DEF CloseConnection, DropEngine, ValueInv, Strong, Undisturbed
<1>6. CASE EngineStep
    BY <1>6, EngineStepValues
<1>7. /\ BuildSyncSteps \in Seq(Steps) /\ EndsInDone(BuildSyncSteps) /\ Orderly(BuildSyncSteps)
      /\ BuildCommitSteps \in Seq(Steps) /\ EndsInDone(BuildCommitSteps)
      /\ Orderly(BuildCommitSteps)
    BY <1>1, SyncSteps, CommitSteps, BuiltOrderly
<1>8. CASE Tick
    <2>1. CASE Teardown
        BY <1>5, <2>1 DEF Teardown
    <2>2. CASE ~Teardown
        <3>1. /\ AfterInit \/ AutoCommit \/ PeriodicSync \/ NothingDue
              /\ "Fatal" \notin pending
              /\ UNCHANGED <<recvBuf, fromDevice, link, devFns, devVal, spent>>
            BY <1>8, <2>2 DEF Tick, deviceVars, wireVars
        <3>2. (Strong' => Strong) /\ props' = props
            BY <3>1 DEF Strong, Undisturbed, AfterInit, AutoCommit, PeriodicSync, NothingDue,
                        StartSync
        <3>3. CASE NothingDue
            <4>1. Replies' = Replies /\ task' = task
                BY <3>1, <3>3 DEF Replies, NothingDue
            <4> QED BY <3>1, <3>2, <4>1, QuietValues
        <3>4. CASE AfterInit \/ PeriodicSync
            <4>1. IsReady /\ StartTask(BuildSyncSteps, support)
                BY <3>4 DEF AfterInit, PeriodicSync, StartSync
            <4> QED BY <1>7, <3>1, <3>2, <4>1, StartValues
        <3>5. CASE AutoCommit
            <4>1. IsReady /\ StartTask(BuildCommitSteps, support)
                BY <3>5 DEF AutoCommit
            <4> QED BY <1>7, <3>1, <3>2, <4>1, StartValues
        <3> QED BY <3>1, <3>3, <3>4, <3>5
    <2> QED BY <2>1, <2>2
<1>9. CASE Attach
    BY <1>1, <1>9, AttachValues
<1>10. CASE Timeout
    <2>1. /\ task' = [task EXCEPT !.deadline = "passed"]
          /\ UNCHANGED <<recvBuf, fromDevice, link, pending, props, devFns, devVal>>
        BY <1>10 DEF Timeout, DeadlinePasses, deviceVars, wireVars
    <2>2. /\ task'.running = task.running /\ task'.steps = task.steps
          /\ task'.wait = task.wait /\ task'.last = task.last
        BY <1>1, <2>1 DEF Tasks
    <2>3. CASE Quiet
        <3>1. spent' = spent
            BY <1>10, <2>3 DEF Timeout
        <3>2. (Strong' => Strong) /\ Replies' = Replies
            BY <2>1, <3>1 DEF Strong, Undisturbed, Replies
        <3> QED BY <2>1, <2>2, <3>2, QuietValues
    <2>4. CASE ~Quiet
        <3>1. spent'.late = spent.late + 1 /\ spent.late \in Nat
            BY <1>1, <1>2, <1>3, <1>10, <2>4 DEF Timeout
        <3>2. ~Strong'
            BY <3>1 DEF Strong, Undisturbed
        <3> QED BY <2>2, <3>2 DEF ValueInv
    <2> QED BY <2>3, <2>4
<1>11. CASE Device
    BY <1>11, DeviceValues
<1>12. CASE User
    <2>1. ASSUME NEW s \in Settings, NEW v \in Values, Edit(s, v) PROVE ValueInv'
        <3>1. /\ UNCHANGED <<task, recvBuf, fromDevice, link, pending, devFns, devVal>>
              /\ spent'.late = spent.late /\ spent'.missed = spent.missed
              /\ props' = [props EXCEPT ![s].desired = v]
            BY <1>2, <1>3, <2>1 DEF Edit, deviceVars, wireVars
        <3>2. \A r \in Settings : props'[r].current = props[r].current
            BY <1>1, <3>1 DEF EngineTypes
        <3> QED BY <1>4, <3>1, <3>2
    <2>2. CASE \E k \in Keys : PressKey(k)
        BY <1>2, <1>3, <1>4, <2>2 DEF PressKey, deviceVars, wireVars
    <2>3. CASE RefreshSync
        <3>1. /\ IsReady /\ StartTask(BuildSyncSteps, support)
              /\ UNCHANGED <<recvBuf, fromDevice, link, devFns, devVal, spent, pending, props>>
            BY <2>3 DEF RefreshSync, StartSync, deviceVars, wireVars
        <3>2. Strong' => Strong
            BY <3>1 DEF Strong, Undisturbed
        <3> QED BY <1>7, <3>1, <3>2, StartValues
    <2>4. CASE Disconnect
        BY <1>5, <2>4 DEF Disconnect
    <2>5. \A i \in DOMAIN GeneralOrder : GeneralOrder[i] \in Settings
        BY OrderedSettings DEF Settings
    <2> QED BY <1>12, <2>1, <2>2, <2>3, <2>4, <2>5 DEF User, EditGeneral, Settings
<1>13. CASE Environment
    <2>1. CASE LoseCommand
        <3>1. spent'.late = spent.late /\ spent'.missed = spent.missed
            BY <1>2, <1>3, <2>1 DEF LoseCommand
        <3>2. UNCHANGED <<task, recvBuf, fromDevice, link, pending, devFns, devVal, props>>
            BY <2>1 DEF LoseCommand, engineVars, deviceVars
        <3> QED BY <1>4, <3>1, <3>2
    <2>2. CASE LoseAnswer
        <3>1. /\ spent'.missed = spent.missed + 1 /\ spent.missed \in Nat /\ task' = task
            BY <1>1, <1>2, <1>3, <2>2 DEF LoseAnswer, engineVars
        <3>2. ~Strong'
            BY <3>1 DEF Strong
        <3> QED BY <3>1, <3>2 DEF ValueInv
    <2>3. ASSUME NEW s \in Settings, NEW v \in Values, DeviceChanges(s, v)
          PROVE  ValueInv'
        BY <2>3, ChangeValues
    <2>4. CASE LinkBreaks
        BY <2>4 DEF LinkBreaks, ValueInv, Strong, Undisturbed, engineVars
    <2> QED BY <1>13, <2>1, <2>2, <2>3, <2>4 DEF Environment
<1>14. CASE UNCHANGED vars
    BY <1>4, <1>14 DEF vars, engineVars, wireVars, deviceVars
<1> QED BY <1>6, <1>8, <1>9, <1>10, <1>11, <1>12, <1>13, <1>14 DEF Next

LEMMA ValueInvariance ==
    ASSUME Echo
    PROVE  Spec => [](IInv /\ SupportInv /\ ValueInv)
<1>1. Init => ValueInv
    BY NoTaskType DEF Init, NewEngine, ValueInv, Strong, Undisturbed
<1>2. IInv /\ WaitInv /\ SupportInv /\ ValueInv /\ [Next]_vars => ValueInv'
    BY ValueKept
<1> QED BY <1>1, <1>2, WaitInvariance, SupportInvariance, PTL DEF Spec

\* While no answer is late or lost and the headphones report what was set
\* (handle_frame takes the report over the value the app has just committed),
\* whatever is edited, changed on the headphones, lost on the way to them and
\* sent again: with nothing under way, the app shows for every setting that
\* has no edit pending what the headphones have (request_init reads them all,
\* step_completed commits what a report will tell, notifications do the rest).
THEOREM RestAgrees ==
    ASSUME Echo
    PROVE  Spec => []QuietAgreement
<1>1. IInv /\ SupportInv /\ ValueInv => QuietAgreement
    <2> SUFFICES ASSUME IInv, SupportInv, ValueInv, spent.late = 0, spent.missed = 0,
                        Established, Quiet, NEW s \in (Plain \union support) \intersect Settings
                 PROVE  props[s].current = devVal[s]
        BY DEF QuietAgreement
    <2>1. Strong /\ link = "up" /\ ~task.running /\ recvBuf = <<>> /\ fromDevice = <<>>
        BY DEF Strong, Undisturbed, Established, IsReady, Quiet, InFlight
    <2>2. s \in Real
        BY <2>1 DEF SupportInv, Real, Settings
    <2>3. ~Reported(s)
        <3>1. Replies = <<>>
            BY <2>1 DEF Replies
        <3> QED BY <3>1, AtNothing DEF Reported
    <2> QED BY <2>1, <2>2, <2>3 DEF ValueInv, Accord, Accounted, ToBeRead
<1> QED BY <1>1, ValueInvariance, PTL
---------------------------------------------------------------------------
(* The capabilities *)

\* The capabilities are asked for in their order, each in front of its value.
Concerns(step, s) == step = AskCap(s) \/ Behind(step, AskCap(s), s)
CapThenValue(steps) ==
    \A i \in DOMAIN steps, s \in General :
        /\ steps[i] = AskCap(s) => i + 1 \in DOMAIN steps /\ steps[i + 1] = ReadOf(s)
        /\ steps[i].kind = "If" => \A l \in DOMAIN steps[i].inner :
               steps[i].inner[l] = AskCap(s) =>
                   steps[i].cond = s /\ steps[i].inner = <<AskCap(s), ReadOf(s)>>
InTurn(steps) ==
    /\ \A i, j \in DOMAIN steps, s, t \in General :
           i < j /\ Concerns(steps[i], s) /\ Concerns(steps[j], t) => Precedes(s, t)
    /\ CapThenValue(steps)

CapReports == {f \in Incomings : f.type = "Data" /\ f.body.op = "RetCapability"}

\* A setting whose capability has come or is under way.
Offers(list, replies, s) ==
    \/ \E i \in DOMAIN list : list[i] = s
    \/ \E j \in At(replies, CapReports) : replies[j].body.arg = s
Listed(list, replies) ==
    /\ \A i, j \in DOMAIN list : i < j => Precedes(list[i], list[j])
    /\ \A i \in DOMAIN list, j \in At(replies, CapReports) :
           Precedes(list[i], replies[j].body.arg)
    /\ \A i, j \in At(replies, CapReports) :
           i < j => Precedes(replies[i].body.arg, replies[j].body.arg)

\* One whose capability is still to be taken by the headphones.
Offered(s) == Offers(caps, Replies, s)
Wanted(s)  ==
    /\ task.running /\ Ahead(task.steps, AskCap(s), s)
    /\ ~(Head(task.steps) = AskCap(s) /\ At(Replies, Acks) # {})

\* A capability under way is behind the ACK of the command that asked for it,
\* or it comes in front of the next one.
CapAsked == \E s \in General : Head(task.steps) = AskCap(s)
Prompt(replies, asked) ==
    \A j \in At(replies, CapReports) :
        /\ asked => \E i \in At(replies, Acks) : i < j
        /\ ~asked => \A i \in At(replies, Acks) : j < i

Catalogue ==
    /\ Listed(caps, Replies) /\ Prompt(Replies, CapAsked)
    /\ At(Replies, CapReports) # {} => task.running /\ task.wait = "Ack"
    /\ \A s \in General : Offered(s) =>
           s \in devFns /\ \A t \in General : Wanted(t) => Precedes(s, t)
    /\ \A s \in General \intersect devFns : Offered(s) \/ Wanted(s)
    /\ \A s \in General : task.running /\ Has(task.steps, AskCap(s)) => s \in devFns

CapInv ==
    /\ task.running => Orderly(task.steps) /\ InTurn(task.steps)
    /\ Strong => Catalogue

LEMMA NotBeforeItself == \A s : ~Precedes(s, s)
<1> SUFFICES ASSUME NEW s, NEW i \in DOMAIN GeneralOrder, NEW j \in DOMAIN GeneralOrder,
                    i < j, GeneralOrder[i] = s, GeneralOrder[j] = s
             PROVE  FALSE
    BY DEF Precedes
<1>1. i = j
    BY OrderAssumption DEF IsOrderOf
<1>2. i \in Nat
    BY OrderedSettings, LenProperties
<1> QED BY <1>1, <1>2

\* Resolving conditions asks for nothing else, and in the same order.
LEMMA UnfoldCaps ==
    ASSUME NEW steps \in Seq(Steps), EndsInDone(steps), InTurn(steps), NEW known
    PROVE  /\ InTurn(Unfold(steps, known))
           /\ \A s \in General :
                  /\ Ahead(Unfold(steps, known), AskCap(s), s) => Ahead(steps, AskCap(s), s)
                  /\ Has(Unfold(steps, known), AskCap(s)) => Has(steps, AskCap(s)) \/ s \in known
<1> DEFINE u == Unfold(steps, known)
<1>0. PICK m \in Nat, c \in Int :
          /\ Shifted(steps, u, m, c)
          /\ \A i \in DOMAIN u : i <= m => steps[m + c].cond \in known
    BY UnfoldSteps
<1>1. /\ u \in Seq(Steps) /\ DOMAIN u \subseteq Nat \ {0} /\ DOMAIN steps \subseteq Nat \ {0}
    <2>1. u \in Seq(Steps)
        BY UnfoldKeepsDone
    <2> HIDE DEF u
    <2>2. DOMAIN u = 1..Len(u) /\ DOMAIN steps = 1..Len(steps) /\ Len(u) \in Nat
          /\ Len(steps) \in Nat
        BY <2>1, LenProperties
    <2> QED BY <2>1, <2>2
<1> HIDE DEF u
<1>2. ASSUME NEW i \in DOMAIN u, i > m
      PROVE  i + c \in DOMAIN steps /\ u[i] = steps[i + c]
    BY <1>0, <1>2 DEF Shifted
<1>3. ASSUME NEW i \in DOMAIN u, ~(i > m)
      PROVE  /\ u[i].kind # "If" /\ m + c \in DOMAIN steps /\ steps[m + c].kind = "If"
             /\ i \in DOMAIN steps[m + c].inner
             /\ \A l \in DOMAIN steps[m + c].inner :
                    l \in DOMAIN u /\ u[l] = steps[m + c].inner[l]
             /\ steps[m + c].cond \in known
    <2>1. i <= m
        BY <1>1, <1>3
    <2> QED BY <1>0, <2>1 DEF Shifted
<1>4. ASSUME NEW i \in DOMAIN u, ~(i > m), NEW s \in General, Concerns(u[i], s)
      PROVE  /\ i = 1 /\ u[i] = AskCap(s) /\ m + c \in DOMAIN steps
             /\ Behind(steps[m + c], AskCap(s), s) /\ s \in known
             /\ i + 1 \in DOMAIN u /\ u[i + 1] = ReadOf(s)
    <2> DEFINE inner == steps[m + c].inner
    <2>1. u[i] = AskCap(s) /\ i \in DOMAIN inner /\ inner[i] = AskCap(s)
        BY <1>3, <1>4 DEF Concerns, Behind
    <2>2. steps[m + c].cond = s /\ inner = <<AskCap(s), ReadOf(s)>>
        BY <1>3, <1>4, <2>1 DEF InTurn, CapThenValue
    <2>3. DOMAIN inner = {1, 2} /\ inner[1] = AskCap(s) /\ inner[2] = ReadOf(s)
        BY <2>2
    <2>4. i = 1
        BY <2>1, <2>3, AskKinds
    <2>5. 2 \in DOMAIN u /\ u[2] = ReadOf(s)
        BY <1>3, <1>4, <2>3
    <2>6. Behind(steps[m + c], AskCap(s), s)
        BY <1>3, <1>4, <2>1, <2>2 DEF Behind
    <2> QED BY <1>3, <1>4, <2>1, <2>2, <2>4, <2>5, <2>6
<1>5. ASSUME NEW i \in DOMAIN u, NEW s \in General, Concerns(u[i], s)
      PROVE  \E h \in DOMAIN steps : Concerns(steps[h], s)
                /\ h = (IF i > m THEN i + c ELSE m + c)
    BY <1>2, <1>4, <1>5 DEF Concerns
<1>6. ASSUME NEW i \in DOMAIN u, NEW j \in DOMAIN u, i < j, NEW s \in General, NEW t \in General,
             Concerns(u[i], s), Concerns(u[j], t)
      PROVE  Precedes(s, t)
    <2>1. j > m
        <3>1. ~(j > m) => j = 1
            BY <1>4, <1>6
        <3> QED BY <1>1, <1>6, <3>1
    <2>2. PICK g \in DOMAIN steps : Concerns(steps[g], s) /\ g = (IF i > m THEN i + c ELSE m + c)
        BY <1>5, <1>6
    <2>3. j + c \in DOMAIN steps /\ Concerns(steps[j + c], t)
        BY <1>2, <1>6, <2>1
    <2>4. g < j + c
        BY <1>1, <1>6, <2>1, <2>2
    <2> QED BY <2>2, <2>3, <2>4 DEF InTurn
<1>7. ASSUME NEW i \in DOMAIN u, NEW s \in General, u[i] = AskCap(s)
      PROVE  i + 1 \in DOMAIN u /\ u[i + 1] = ReadOf(s)
    <2>1. CASE ~(i > m)
        BY <1>4, <1>7, <2>1 DEF Concerns
    <2>2. CASE i > m
        <3>1. i + c \in DOMAIN steps /\ steps[i + c] = AskCap(s)
            BY <1>2, <1>7, <2>2
        <3>2. (i + c) + 1 \in DOMAIN steps /\ steps[(i + c) + 1] = ReadOf(s)
            BY <3>1 DEF InTurn, CapThenValue
        <3>3. ((i + c) + 1) - c \in DOMAIN u /\ u[((i + c) + 1) - c] = steps[(i + c) + 1]
            BY <1>0, <3>2, AskKinds DEF Shifted
        <3>4. ((i + c) + 1) - c = i + 1
            BY <1>1
        <3> QED BY <3>2, <3>3, <3>4
    <2> QED BY <2>1, <2>2
<1>8. ASSUME NEW i \in DOMAIN u, NEW s \in General, u[i].kind = "If",
             NEW l \in DOMAIN u[i].inner, u[i].inner[l] = AskCap(s)
      PROVE  u[i].cond = s /\ u[i].inner = <<AskCap(s), ReadOf(s)>>
    <2>1. i + c \in DOMAIN steps /\ u[i] = steps[i + c]
        BY <1>2, <1>3, <1>8
    <2> QED BY <1>8, <2>1 DEF InTurn, CapThenValue
<1>9. InTurn(u)
    BY <1>6, <1>7, <1>8 DEF InTurn, CapThenValue
<1>10. ASSUME NEW s \in General, Ahead(u, AskCap(s), s) PROVE Ahead(steps, AskCap(s), s)
    BY <1>5, <1>10 DEF Ahead, Concerns
<1>11. ASSUME NEW s \in General, Has(u, AskCap(s)) PROVE Has(steps, AskCap(s)) \/ s \in known
    <2>1. PICK i \in DOMAIN u : u[i] = AskCap(s)
        BY <1>11 DEF Has
    <2>2. CASE i > m
        BY <1>2, <2>1, <2>2 DEF Has
    <2>3. CASE ~(i > m)
        BY <1>4, <2>1, <2>3 DEF Concerns
    <2> QED BY <2>2, <2>3
<1> QED BY <1>9, <1>10, <1>11 DEF u

LEMMA TailCaps ==
    ASSUME NEW steps \in Seq(Steps), steps # <<>>, InTurn(steps)
    PROVE  /\ InTurn(Tail(steps))
           /\ \A s \in General :
                  /\ Ahead(Tail(steps), AskCap(s), s) =>
                         Ahead(steps, AskCap(s), s) /\ Head(steps) # AskCap(s)
                  /\ Has(Tail(steps), AskCap(s)) => Has(steps, AskCap(s))
                  /\ Head(steps) = AskCap(s) => Tail(steps)[1] = ReadOf(s)
<1> DEFINE rest == Tail(steps)
<1>1. /\ \A i \in DOMAIN rest : i \in Nat \ {0} /\ i + 1 \in DOMAIN steps /\ rest[i] = steps[i + 1]
      /\ \A i \in DOMAIN steps : i = 1 \/ (i - 1 \in DOMAIN rest /\ rest[i - 1] = steps[i])
      /\ 1 \in DOMAIN steps /\ Head(steps) = steps[1]
    <2>1. rest \in Seq(Steps)
        BY HeadTailProperties
    <2>2. DOMAIN rest = 1..Len(rest) /\ Len(rest) \in Nat
        <3> HIDE DEF rest
        <3> QED BY <2>1, LenProperties
    <2>3. \A i \in DOMAIN rest : i \in Nat \ {0}
        <3> HIDE DEF rest
        <3> QED BY <2>2
    <2> QED BY <2>3, TailSteps
<1> HIDE DEF rest
<1>2. ASSUME NEW i \in DOMAIN rest, NEW j \in DOMAIN rest, i < j,
             NEW s \in General, NEW t \in General, Concerns(rest[i], s), Concerns(rest[j], t)
      PROVE  Precedes(s, t)
    <2>1. /\ i + 1 \in DOMAIN steps /\ j + 1 \in DOMAIN steps /\ i + 1 < j + 1
          /\ Concerns(steps[i + 1], s) /\ Concerns(steps[j + 1], t)
        BY <1>1, <1>2
    <2> QED BY <2>1 DEF InTurn
<1>3. ASSUME NEW i \in DOMAIN rest, NEW s \in General, rest[i] = AskCap(s)
      PROVE  i + 1 \in DOMAIN rest /\ rest[i + 1] = ReadOf(s)
    <2>1. i + 1 \in DOMAIN steps /\ steps[i + 1] = AskCap(s)
        BY <1>1, <1>3
    <2>2. (i + 1) + 1 \in DOMAIN steps /\ steps[(i + 1) + 1] = ReadOf(s)
        BY <2>1 DEF InTurn, CapThenValue
    <2>3. (i + 1) + 1 # 1 /\ ((i + 1) + 1) - 1 = i + 1
        BY <1>1
    <2> QED BY <1>1, <2>2, <2>3
<1>4. ASSUME NEW i \in DOMAIN rest, NEW s \in General, rest[i].kind = "If",
             NEW l \in DOMAIN rest[i].inner, rest[i].inner[l] = AskCap(s)
      PROVE  rest[i].cond = s /\ rest[i].inner = <<AskCap(s), ReadOf(s)>>
    <2>1. i + 1 \in DOMAIN steps /\ rest[i] = steps[i + 1]
        BY <1>1
    <2> QED BY <1>4, <2>1 DEF InTurn, CapThenValue
<1>5. InTurn(rest)
    BY <1>2, <1>3, <1>4 DEF InTurn, CapThenValue
<1>6. ASSUME NEW s \in General, Ahead(rest, AskCap(s), s)
      PROVE  Ahead(steps, AskCap(s), s) /\ Head(steps) # AskCap(s)
    <2>1. PICK i \in DOMAIN rest : Concerns(rest[i], s)
        BY <1>6 DEF Ahead, Concerns
    <2>2. i + 1 \in DOMAIN steps /\ Concerns(steps[i + 1], s) /\ 1 < i + 1
        BY <1>1, <2>1
    <2>3. Head(steps) = AskCap(s) => Precedes(s, s)
        BY <1>1, <2>2 DEF InTurn, Concerns
    <2> QED BY <2>2, <2>3, NotBeforeItself DEF Ahead, Concerns
<1>7. ASSUME NEW s \in General, Has(rest, AskCap(s)) PROVE Has(steps, AskCap(s))
    BY <1>1, <1>7 DEF Has
<1>8. ASSUME NEW s \in General, Head(steps) = AskCap(s) PROVE rest[1] = ReadOf(s)
    <2>1. 1 + 1 \in DOMAIN steps /\ steps[1 + 1] = ReadOf(s)
        BY <1>1, <1>8 DEF InTurn, CapThenValue
    <2>2. 1 + 1 # 1 /\ (1 + 1) - 1 = 1
        OBVIOUS
    <2> QED BY <1>1, <2>1, <2>2
<1> QED BY <1>5, <1>6, <1>7, <1>8 DEF rest

\* A step that has nothing to do with capabilities.
Still(step)  == \A s \in General : step # AskCap(s)
Silent(step) == Still(step) /\ (step.kind = "If" => \A l \in DOMAIN step.inner : Still(step.inner[l]))
Mute(steps)  == \A i \in DOMAIN steps : Silent(steps[i])

LEMMA SilentSteps ==
    /\ \A body : body.op # "GetCapability" => Silent(Send(body))
    /\ \A body, s : body.op # "GetCapability" => Silent(SendCommit(body, s))
    /\ \A wait : Silent(Await(wait))
    /\ \A f, inner : Mute(inner) => Silent(If(f, inner))
    /\ Silent(NoStep)
    /\ \A event : Silent(Done(event))
<1> USE DEF Silent, Still, AskCap
<1>1. \A body : body.op # "GetCapability" => Silent(Send(body))
    BY DEF Send, Body
<1>2. \A body, s : body.op # "GetCapability" => Silent(SendCommit(body, s))
    BY DEF SendCommit, Send, Body
<1>3. \A wait : Silent(Await(wait))
    BY DEF Await, Send
<1>4. \A f, inner : Mute(inner) => Silent(If(f, inner))
    BY DEF Mute, If, Send
<1>5. Silent(NoStep)
    BY DEF NoStep, If, Send
<1>6. \A event : Silent(Done(event))
    BY DEF Done, Send
<1> QED BY <1>1, <1>2, <1>3, <1>4, <1>5, <1>6

LEMMA MuteTask ==
    ASSUME NEW steps, Mute(steps)
    PROVE  /\ InTurn(steps)
           /\ \A s \in General : ~Ahead(steps, AskCap(s), s) /\ ~Has(steps, AskCap(s))
BY DEF Mute, Silent, Still, InTurn, CapThenValue, Concerns, Behind, Ahead, Has

LEMMA MuteBoth ==
    ASSUME NEW a \in Seq(Steps), NEW b \in Seq(Steps), Mute(a), Mute(b)
    PROVE  a \o b \in Seq(Steps) /\ Mute(a \o b)
<1> DEFINE L == {step \in Steps : Silent(step)}
<1>1. (\A i \in DOMAIN a : a[i] \in L) /\ (\A i \in DOMAIN b : b[i] \in L)
    BY LenProperties, ElementOfSeq DEF Mute
<1> HIDE DEF L
<1>2. a \o b \in Seq(Steps) /\ \A i \in DOMAIN (a \o b) : (a \o b)[i] \in L
    BY <1>1, EachOfBoth
<1> QED BY <1>2 DEF L, Mute

\* The tasks behind the init handshake leave the capabilities alone.
LEMMA SyncMute == Mute(BuildSyncSteps)
<1> DEFINE ask == Send(Get("GetPairedList"))
<1>1. Silent(ask)
    BY SilentSteps DEF Get, Body
<1>2. Mute(<<ask>>)
    <2> HIDE DEF ask
    <2> QED BY <1>1 DEF Mute
<1>3. Silent(If("PairedList", <<ask>>)) /\ Silent(Done("SyncOk"))
    BY <1>2, SilentSteps
<1> DEFINE list == If("PairedList", <<ask>>)
<1>4. BuildSyncSteps = <<list, Done("SyncOk")>>
    BY DEF BuildSyncSteps
<1> HIDE DEF list, ask
<1> QED BY <1>3, <1>4 DEF Mute, list

LEMMA CommitMute ==
    ASSUME EngineTypes
    PROVE  Mute(BuildCommitSteps)
<1>1. /\ PlainPart \in Seq(Steps) /\ OtherPart \in Seq(Steps)
      /\ <<KeyPart>> \in Seq(Steps) /\ <<Done("CommitOk")>> \in Seq(Steps)
    BY CommitParts, OneElement
<1>2. Mute(PlainPart) /\ Mute(OtherPart)
    <2>1. /\ Silent(NoStep)
          /\ \A body, s : body.op = "SetParam" /\ body.arg = s => Silent(SendCommit(body, s))
        BY SilentSteps
    <2>2. ASSUME NEW step,
                 \/ step = NoStep
                 \/ \E body, s : /\ body.op = "SetParam" /\ body.arg = s
                               /\ step = SendCommit(body, s)
          PROVE  Silent(step)
        BY <2>1, <2>2
    <2>3. \A i \in DOMAIN PlainPart : Silent(PlainPart[i])
        BY <2>2, CommitParts
    <2>4. \A i \in DOMAIN OtherPart : Silent(OtherPart[i])
        BY <2>2, CommitParts
    <2> QED BY <2>3, <2>4 DEF Mute
<1>3. Mute(<<KeyPart>>) /\ Mute(<<Done("CommitOk")>>)
    <2>1. Silent(KeyPart) /\ Silent(Done("CommitOk"))
        BY SilentSteps DEF KeyPart, Body
    <2>2. \A step : Silent(step) => Mute(<<step>>)
        <3> SUFFICES ASSUME NEW step, Silent(step), NEW i \in DOMAIN <<step>>
                     PROVE  Silent(<<step>>[i])
            BY DEF Mute
        <3>1. i = 1
            OBVIOUS
        <3> QED BY <3>1
    <2> QED BY <2>1, <2>2
<1>4. /\ PlainPart \o <<KeyPart>> \in Seq(Steps) /\ Mute(PlainPart \o <<KeyPart>>)
      /\ CommitRest \in Seq(Steps) /\ Mute(CommitRest)
    BY <1>1, <1>2, <1>3, MuteBoth DEF CommitRest
<1> QED BY <1>4, CommitParts, MuteBoth

\* Steps in front of others, where only the ones or the others ask.
LEMMA InTurnBoth ==
    ASSUME NEW a \in Seq(Steps), NEW b \in Seq(Steps), InTurn(a), InTurn(b),
           Mute(a) \/ Mute(b)
    PROVE  /\ InTurn(a \o b)
           /\ \A s \in General : Has(a \o b, AskCap(s)) => Has(a, AskCap(s)) \/ Has(b, AskCap(s))
<1> DEFINE all == a \o b
           n == Len(a)
           r == Len(b)
<1>1. /\ n \in Nat /\ DOMAIN a = 1..n /\ r \in Nat /\ DOMAIN b = 1..r
      /\ DOMAIN all = 1..(n + r)
      /\ \A i \in 1..(n + r) : all[i] = IF i <= n THEN a[i] ELSE b[i - n]
    BY ConcatProperties, LenProperties
<1> HIDE DEF all, n, r
<1>2. ASSUME NEW i \in DOMAIN all
      PROVE  \/ i \in DOMAIN a /\ all[i] = a[i]
             \/ i \notin DOMAIN a /\ i - n \in DOMAIN b /\ all[i] = b[i - n]
    <2>1. i <= n => i \in DOMAIN a
        BY <1>1
    <2>2. ~(i <= n) => i \notin DOMAIN a /\ i - n \in DOMAIN b
        BY <1>1
    <2> QED BY <1>1, <2>1, <2>2
<1>3. /\ \A i \in DOMAIN a : i \in DOMAIN all /\ all[i] = a[i]
      /\ \A i \in DOMAIN b : i + n \in DOMAIN all /\ all[i + n] = b[i]
    <2>1. \A i \in DOMAIN a : i \in 1..(n + r) /\ i <= n
        BY <1>1
    <2>2. \A i \in DOMAIN b : i + n \in 1..(n + r) /\ ~(i + n <= n) /\ (i + n) - n = i
        BY <1>1
    <2> QED BY <1>1, <2>1, <2>2
<1>4. ASSUME NEW i \in DOMAIN all, NEW j \in DOMAIN all, i < j,
             NEW s \in General, NEW t \in General, Concerns(all[i], s), Concerns(all[j], t)
      PROVE  Precedes(s, t)
    <2>1. \A k : Mute(a) => ~(k \in DOMAIN a /\ (Concerns(a[k], s) \/ Concerns(a[k], t)))
        BY DEF Mute, Silent, Still, Concerns, Behind
    <2>2. \A k : Mute(b) => ~(k \in DOMAIN b /\ (Concerns(b[k], s) \/ Concerns(b[k], t)))
        BY DEF Mute, Silent, Still, Concerns, Behind
    <2>3. CASE i \in DOMAIN a /\ j \in DOMAIN a
        BY <1>2, <1>4, <2>3 DEF InTurn
    <2>4. CASE i \notin DOMAIN a /\ j \notin DOMAIN a
        <3>1. i - n \in DOMAIN b /\ j - n \in DOMAIN b /\ i - n < j - n
            BY <1>1, <1>2, <1>4, <2>4
        <3>2. Concerns(b[i - n], s) /\ Concerns(b[j - n], t)
            BY <1>2, <1>4, <2>4
        <3> QED BY <3>1, <3>2 DEF InTurn
    <2> QED BY <1>2, <1>4, <2>1, <2>2, <2>3, <2>4
<1>5. ASSUME NEW i \in DOMAIN all, NEW s \in General, all[i] = AskCap(s)
      PROVE  i + 1 \in DOMAIN all /\ all[i + 1] = ReadOf(s)
    <2>1. CASE i \in DOMAIN a
        BY <1>2, <1>3, <1>5, <2>1 DEF InTurn, CapThenValue
    <2>2. CASE i \notin DOMAIN a
        <3>1. i - n \in DOMAIN b /\ b[i - n] = AskCap(s)
            BY <1>2, <1>5, <2>2
        <3>2. (i - n) + 1 \in DOMAIN b /\ b[(i - n) + 1] = ReadOf(s)
            BY <3>1 DEF InTurn, CapThenValue
        <3>3. ((i - n) + 1) + n = i + 1
            BY <1>1
        <3> QED BY <1>3, <3>2, <3>3
    <2> QED BY <2>1, <2>2
<1>6. ASSUME NEW i \in DOMAIN all, NEW s \in General, all[i].kind = "If",
             NEW l \in DOMAIN all[i].inner, all[i].inner[l] = AskCap(s)
      PROVE  all[i].cond = s /\ all[i].inner = <<AskCap(s), ReadOf(s)>>
    BY <1>2, <1>6 DEF InTurn, CapThenValue
<1>7. ASSUME NEW s \in General, Has(all, AskCap(s))
      PROVE  Has(a, AskCap(s)) \/ Has(b, AskCap(s))
    BY <1>2, <1>7 DEF Has
<1> QED BY <1>4, <1>5, <1>6, <1>7 DEF InTurn, CapThenValue, all

\* The init handshake asks for each capability in turn, once it is known
\* whether there is one.
LEMMA InitInTurn ==
    InTurn(BuildInitSteps) /\ \A s \in General : ~Has(BuildInitSteps, AskCap(s))
<1> DEFINE done == <<Done("InitOk")>>
<1>1. /\ InitTables \in Seq(Steps) /\ InitGeneral \in Seq(Steps) /\ InitPlain \in Seq(Steps)
      /\ done \in Seq(Steps)
    <2>1. BodySteps \subseteq Steps
        BY DEF BodySteps, Steps
    <2> QED BY <2>1, InitParts, SeqMonotonic
<1>2. Mute(done)
    <2> SUFFICES ASSUME NEW i \in DOMAIN done PROVE Silent(done[i])
        BY DEF Mute
    <2>1. i = 1
        OBVIOUS
    <2> QED BY <2>1, SilentSteps
<1>3. Mute(InitPlain)
    <2> SUFFICES ASSUME NEW i \in DOMAIN InitPlain PROVE Silent(InitPlain[i])
        BY DEF Mute
    <2>1. InitPlain[i] = Send(Body("GetParam", PlainOrder[i], None))
        BY DEF InitPlain, Each
    <2> QED BY <2>1, SilentSteps DEF Body
<1>4. Mute(InitTables)
    <2> SUFFICES ASSUME NEW i \in DOMAIN InitTables PROVE Silent(InitTables[i])
        BY DEF Mute
    <2>1. i \in {1, 2, 3, 4, 5, 6}
        BY <1>1, InitParts, LenProperties
    <2> DEFINE ask(op) == Send(Get(op))
    <2>2. \A op : op # "GetCapability" => Silent(ask(op))
        BY SilentSteps DEF Get, Body
    <2>3. \A wait : Silent(Await(wait))
        BY SilentSteps
    <2> HIDE DEF ask
    <2>4. Silent(If("Table2", <<ask("GetSupport2"), Await("SupportFunction")>>))
        <3> DEFINE inner == <<ask("GetSupport2"), Await("SupportFunction")>>
        <3>1. Mute(inner)
            <4> SUFFICES ASSUME NEW l \in DOMAIN inner PROVE Silent(inner[l])
                BY DEF Mute
            <4>1. l \in {1, 2}
                OBVIOUS
            <4> QED BY <2>2, <2>3, <4>1
        <3> HIDE DEF inner
        <3>2. Silent(If("Table2", inner))
            BY <3>1, SilentSteps
        <3> QED BY <3>2 DEF inner
    <2>5. Silent(If("PairedList", <<ask("GetPairedList")>>))
        <3> DEFINE inner == <<ask("GetPairedList")>>
        <3>1. Mute(inner)
            <4> SUFFICES ASSUME NEW l \in DOMAIN inner PROVE Silent(inner[l])
                BY DEF Mute
            <4>1. l = 1
                OBVIOUS
            <4> QED BY <2>2, <4>1
        <3> HIDE DEF inner
        <3>2. Silent(If("PairedList", inner))
            BY <3>1, SilentSteps
        <3> QED BY <3>2 DEF inner
    <2>6. /\ InitTables[1] = ask("GetProtocolInfo") /\ InitTables[2] = Await("ProtocolInfo")
          /\ InitTables[3] = ask("GetSupport") /\ InitTables[4] = Await("SupportFunction")
          /\ InitTables[5] = If("Table2", <<ask("GetSupport2"), Await("SupportFunction")>>)
          /\ InitTables[6] = If("PairedList", <<ask("GetPairedList")>>)
        BY InitParts DEF ask, TableTwoStep
    <2> QED BY <2>1, <2>2, <2>3, <2>4, <2>5, <2>6
<1>5. ASSUME NEW i \in DOMAIN InitGeneral
      PROVE  /\ i \in DOMAIN GeneralOrder /\ GeneralOrder[i] \in General
             /\ InitGeneral[i].kind = "If" /\ InitGeneral[i].cond = GeneralOrder[i]
             /\ InitGeneral[i].inner = <<AskCap(GeneralOrder[i]), ReadOf(GeneralOrder[i])>>
    BY OrderedSettings DEF InitGeneral, Each, If, AskCap, ReadOf
<1>6. ASSUME NEW i \in DOMAIN InitGeneral, NEW s \in General
      PROVE  InitGeneral[i] # AskCap(s) /\ (Concerns(InitGeneral[i], s) => GeneralOrder[i] = s)
    <2>1. InitGeneral[i] # AskCap(s)
        BY <1>5, AskKinds
    <2> QED BY <1>5, <2>1 DEF Concerns, Behind
<1>7. InTurn(InitGeneral) /\ \A s \in General : ~Has(InitGeneral, AskCap(s))
    <2>1. ASSUME NEW i \in DOMAIN InitGeneral, NEW j \in DOMAIN InitGeneral, i < j,
                 NEW s \in General, NEW t \in General,
                 Concerns(InitGeneral[i], s), Concerns(InitGeneral[j], t)
          PROVE  Precedes(s, t)
        BY <1>5, <1>6, <2>1 DEF Precedes
    <2>2. ASSUME NEW i \in DOMAIN InitGeneral, NEW s \in General,
                 NEW l \in DOMAIN InitGeneral[i].inner, InitGeneral[i].inner[l] = AskCap(s)
          PROVE  /\ InitGeneral[i].cond = s
                 /\ InitGeneral[i].inner = <<AskCap(s), ReadOf(s)>>
        <3> DEFINE r == GeneralOrder[i]
        <3>1. l \in {1, 2} /\ <<AskCap(r), ReadOf(r)>>[1] = AskCap(r)
              /\ <<AskCap(r), ReadOf(r)>>[2] = ReadOf(r)
            BY <1>5
        <3>2. r = s
            BY <1>5, <2>2, <3>1, AskKinds
        <3> QED BY <1>5, <3>2
    <2>3. CapThenValue(InitGeneral)
        BY <1>6, <2>2 DEF CapThenValue
    <2> QED BY <1>6, <2>1, <2>3 DEF InTurn, Has
<1> HIDE DEF done
<1> DEFINE general == InitGeneral \o InitPlain
<1>8. general \in Seq(Steps) /\ InTurn(general) /\ \A s \in General : ~Has(general, AskCap(s))
    BY <1>1, <1>3, <1>7, MuteTask, InTurnBoth, ConcatProperties
<1> HIDE DEF general
<1>9. /\ general \o done \in Seq(Steps) /\ InTurn(general \o done)
      /\ \A s \in General : ~Has(general \o done, AskCap(s))
    BY <1>1, <1>2, <1>8, MuteTask, InTurnBoth, ConcatProperties
<1>10. BuildInitSteps = InitTables \o (general \o done)
    BY InitParts DEF InitRest, general, done
<1> DEFINE rest == general \o done
<1> HIDE DEF rest
<1>11. /\ InTurn(InitTables \o rest) /\ \A s \in General : ~Has(InitTables \o rest, AskCap(s))
    <2>1. rest \in Seq(Steps) /\ InTurn(rest) /\ \A s \in General : ~Has(rest, AskCap(s))
        BY <1>9 DEF rest
    <2> QED BY <1>1, <1>4, <2>1, MuteTask, InTurnBoth
<1> QED BY <1>10, <1>11 DEF rest

(* Frames that come and go *)

\* Where frames of a kind are, without the first frame.
LEMMA AtRest ==
    ASSUME NEW replies \in Seq(Incomings), replies # <<>>, NEW kind
    PROVE  /\ \A i \in At(Tail(replies), kind) :
                  i \in Nat \ {0} /\ i + 1 \in At(replies, kind) /\ Tail(replies)[i] = replies[i + 1]
           /\ \A i \in At(replies, kind) : i \in Nat \ {0} /\ (i # 1 =>
                  i - 1 \in At(Tail(replies), kind) /\ Tail(replies)[i - 1] = replies[i])
           /\ 1 \in At(replies, kind) <=> Head(replies) \in kind
           /\ replies[1] = Head(replies)
<1> DEFINE rest == Tail(replies)
<1>1. /\ \A i \in At(rest, kind) : i + 1 \in At(replies, kind) /\ rest[i] = replies[i + 1]
      /\ \A i \in At(replies, kind) : i # 1 => i - 1 \in At(rest, kind)
      /\ At(replies, kind) \subseteq Nat \ {0}
      /\ Head(replies) \in kind <=> 1 \in At(replies, kind)
    BY AtTail
<1>2. replies[1] = Head(replies) /\ rest \in Seq(Incomings)
    BY HeadTailProperties
<1> HIDE DEF rest
<1>3. At(rest, kind) \subseteq Nat \ {0}
    <2>1. DOMAIN rest = 1..Len(rest) /\ Len(rest) \in Nat
        BY <1>2, LenProperties
    <2> QED BY <2>1 DEF At
<1>4. ASSUME NEW i \in At(replies, kind), i # 1
      PROVE  i - 1 \in At(rest, kind) /\ rest[i - 1] = replies[i]
    <2>1. i - 1 \in At(rest, kind) /\ rest[i - 1] = replies[(i - 1) + 1]
        BY <1>1, <1>4
    <2>2. (i - 1) + 1 = i
        BY <1>1
    <2> QED BY <2>1, <2>2
<1> QED BY <1>1, <1>2, <1>3, <1>4 DEF rest

LEMMA ListedTail ==
    ASSUME NEW list \in Seq(General), NEW replies \in Seq(Incomings), replies # <<>>,
           Listed(list, replies), Head(replies) \notin CapReports
    PROVE  /\ Listed(list, Tail(replies))
           /\ \A s : Offers(list, Tail(replies), s) <=> Offers(list, replies, s)
<1> DEFINE rest == Tail(replies)
           kind == CapReports
<1> HIDE DEF kind
<1>1. /\ \A i \in At(rest, kind) :
             i \in Nat \ {0} /\ i + 1 \in At(replies, kind) /\ rest[i] = replies[i + 1]
      /\ \A i \in At(replies, kind) : i \in Nat \ {0} /\ (i # 1 =>
             i - 1 \in At(rest, kind) /\ rest[i - 1] = replies[i])
      /\ 1 \notin At(replies, kind)
    BY AtRest DEF kind
<1> HIDE DEF rest
<1>2. ASSUME NEW i \in At(rest, kind), NEW j \in At(rest, kind), i < j
      PROVE  Precedes(rest[i].body.arg, rest[j].body.arg)
    <2>1. i + 1 < j + 1
        BY <1>1, <1>2
    <2> QED BY <1>1, <2>1 DEF Listed, kind
<1>3. Listed(list, rest)
    BY <1>1, <1>2 DEF Listed, kind
<1>4. \A s : Offers(list, rest, s) <=> Offers(list, replies, s)
    BY <1>1 DEF Offers, kind
<1> QED BY <1>3, <1>4 DEF rest

\* A capability is pushed: it goes from the replies to the end of the list.
LEMMA ListedPush ==
    ASSUME NEW list \in Seq(General), NEW replies \in Seq(Incomings), replies # <<>>,
           Listed(list, replies), Head(replies) \in CapReports
    PROVE  LET more == Append(list, Head(replies).body.arg)
           IN  /\ Listed(more, Tail(replies))
               /\ \A s : Offers(more, Tail(replies), s) <=> Offers(list, replies, s)
<1> DEFINE rest == Tail(replies)
           arg  == Head(replies).body.arg
           more == Append(list, arg)
           n    == Len(list)
           kind == CapReports
<1> HIDE DEF kind
<1>1. /\ \A i \in At(rest, kind) :
             i \in Nat \ {0} /\ i + 1 \in At(replies, kind) /\ rest[i] = replies[i + 1]
      /\ \A i \in At(replies, kind) : i \in Nat \ {0} /\ (i # 1 =>
             i - 1 \in At(rest, kind) /\ rest[i - 1] = replies[i])
      /\ 1 \in At(replies, kind) /\ replies[1].body.arg = arg
    BY AtRest DEF kind
<1>2. /\ n \in Nat /\ DOMAIN list = 1..n /\ DOMAIN more = 1..(n + 1)
      /\ \A i \in 1..n : more[i] = list[i]
      /\ more[n + 1] = arg
    <2>1. arg \in General
        BY DEF CapReports, Incomings, Reports, AckFrame
    <2> HIDE DEF arg
    <2> QED BY <2>1, AppendProperties, LenProperties
<1> HIDE DEF rest, arg, more, n
<1>3. \A i \in DOMAIN more : (i \in DOMAIN list /\ more[i] = list[i]) \/ (i = n + 1 /\ more[i] = arg)
    BY <1>2
<1>4. ASSUME NEW i \in DOMAIN more, NEW j \in DOMAIN more, i < j
      PROVE  Precedes(more[i], more[j])
    <2>1. i \in DOMAIN list /\ more[i] = list[i]
        BY <1>2, <1>4
    <2>2. CASE j \in DOMAIN list
        BY <1>2, <1>4, <2>1, <2>2 DEF Listed
    <2>3. CASE j = n + 1
        BY <1>1, <1>2, <2>1, <2>3 DEF Listed, kind
    <2> QED BY <1>3, <2>2, <2>3
<1>5. ASSUME NEW i \in DOMAIN more, NEW j \in At(rest, kind)
      PROVE  Precedes(more[i], rest[j].body.arg)
    <2>1. CASE i \in DOMAIN list /\ more[i] = list[i]
        BY <1>1, <2>1 DEF Listed, kind
    <2>2. CASE more[i] = arg
        <3>1. 1 < j + 1
            BY <1>1
        <3> QED BY <1>1, <2>2, <3>1 DEF Listed, kind
    <2> QED BY <1>3, <2>1, <2>2
<1>6. ASSUME NEW i \in At(rest, kind), NEW j \in At(rest, kind), i < j
      PROVE  Precedes(rest[i].body.arg, rest[j].body.arg)
    <2>1. i + 1 < j + 1
        BY <1>1, <1>6
    <2> QED BY <1>1, <2>1 DEF Listed, kind
<1>7. Listed(more, rest)
    BY <1>4, <1>5, <1>6 DEF Listed, kind
<1>8. ASSUME NEW s, Offers(more, rest, s) PROVE Offers(list, replies, s)
    <2>1. CASE \E i \in DOMAIN more : more[i] = s
        BY <1>1, <1>3, <2>1 DEF Offers, kind
    <2>2. CASE \E j \in At(rest, kind) : rest[j].body.arg = s
        BY <1>1, <2>2 DEF Offers, kind
    <2> QED BY <1>8, <2>1, <2>2 DEF Offers, kind
<1>9. ASSUME NEW s, Offers(list, replies, s) PROVE Offers(more, rest, s)
    <2>1. CASE \E i \in DOMAIN list : list[i] = s
        <3>1. \A i \in DOMAIN list : i \in DOMAIN more /\ more[i] = list[i]
            BY <1>2
        <3> QED BY <2>1, <3>1 DEF Offers
    <2>2. ASSUME NEW j \in At(replies, kind), replies[j].body.arg = s
          PROVE  Offers(more, rest, s)
        <3>1. CASE j = 1
            <4>1. n + 1 \in DOMAIN more
                BY <1>2
            <4> QED BY <1>1, <1>2, <2>2, <3>1, <4>1 DEF Offers
        <3>2. CASE j # 1
            BY <1>1, <2>2, <3>2 DEF Offers, kind
        <3> QED BY <3>1, <3>2
    <2> QED BY <1>9, <2>1, <2>2 DEF Offers, kind
<1> QED BY <1>7, <1>8, <1>9 DEF rest, arg, more

\* Another frame comes last: a capability behind all the others, or none.
LEMMA ListedMore ==
    ASSUME NEW list \in Seq(General), NEW replies \in Seq(Incomings), NEW e \in Incomings,
           Listed(list, replies)
    PROVE  /\ e \notin CapReports =>
                  /\ Listed(list, Append(replies, e))
                  /\ \A s : Offers(list, Append(replies, e), s) <=> Offers(list, replies, s)
           /\ e \in CapReports /\ (\A s \in General : Offers(list, replies, s) =>
                                       Precedes(s, e.body.arg)) =>
                  /\ Listed(list, Append(replies, e))
                  /\ \A s : Offers(list, Append(replies, e), s) <=>
                                Offers(list, replies, s) \/ s = e.body.arg
<1> DEFINE kind == CapReports
           more == Append(replies, e)
           n == Len(replies)
<1> HIDE DEF kind
<1>1. /\ \A i \in At(replies, kind) : i \in 1..n /\ more[i] = replies[i]
      /\ e \in kind => At(more, kind) = At(replies, kind) \union {n + 1}
      /\ e \notin kind => At(more, kind) = At(replies, kind)
      /\ more[n + 1] = e
    BY AtMore
<1>2. n \in Nat
    BY LenProperties
<1>3. /\ \A i \in DOMAIN list : list[i] \in General
      /\ \A j \in At(replies, kind) : replies[j].body.arg \in General
    <2>1. \A i \in DOMAIN list : list[i] \in General
        BY LenProperties, ElementOfSeq
    <2>2. \A j \in At(replies, kind) : replies[j] \in CapReports
        BY DEF At, kind
    <2> QED BY <2>1, <2>2 DEF CapReports, Incomings, Reports, AckFrame
<1> HIDE DEF more, n
<1>4. ASSUME e \notin kind
      PROVE  Listed(list, more) /\ \A s : Offers(list, more, s) <=> Offers(list, replies, s)
    <2>1. Listed(list, more)
        BY <1>1, <1>4 DEF Listed, kind
    <2> QED BY <1>1, <1>4, <2>1 DEF Offers, kind
<1>5. ASSUME e \in kind, \A s \in General : Offers(list, replies, s) => Precedes(s, e.body.arg)
      PROVE  /\ Listed(list, more)
             /\ \A s : Offers(list, more, s) <=> Offers(list, replies, s) \/ s = e.body.arg
    <2>1. \A j \in At(more, kind) : (j \in At(replies, kind) /\ more[j] = replies[j] /\ j < n + 1)
                                    \/ (j = n + 1 /\ more[j] = e)
        BY <1>1, <1>2, <1>5
    <2>2. \A i \in DOMAIN list : Precedes(list[i], e.body.arg)
        BY <1>3, <1>5 DEF Offers
    <2>3. \A j \in At(replies, kind) : Precedes(replies[j].body.arg, e.body.arg)
        BY <1>3, <1>5 DEF Offers, kind
    <2>4. ASSUME NEW i \in At(more, kind), NEW j \in At(more, kind), i < j
          PROVE  Precedes(more[i].body.arg, more[j].body.arg)
        <3>1. i \in At(replies, kind) /\ more[i] = replies[i]
            BY <1>1, <1>2, <2>1, <2>4
        <3> QED BY <2>1, <2>3, <2>4, <3>1 DEF Listed, kind
    <2>5. \A i \in DOMAIN list, j \in At(more, kind) : Precedes(list[i], more[j].body.arg)
        BY <2>1, <2>2 DEF Listed, kind
    <2>6. Listed(list, more)
        BY <2>4, <2>5 DEF Listed, kind
    <2>7. \A s : Offers(list, more, s) <=> Offers(list, replies, s) \/ s = e.body.arg
        BY <1>1, <1>5, <2>1 DEF Offers, kind
    <2> QED BY <2>6, <2>7
<1> QED BY <1>4, <1>5 DEF kind, more

\* What is behind an ACK, and in front of one, stays there.
LEMMA PromptTail ==
    ASSUME NEW replies \in Seq(Incomings), replies # <<>>, NEW asked, Prompt(replies, asked),
           Head(replies) \notin Acks
    PROVE  /\ Prompt(Tail(replies), asked)
           /\ At(Tail(replies), Acks) = {} <=> At(replies, Acks) = {}
           /\ At(Tail(replies), CapReports) # {} => At(replies, CapReports) # {}
<1> DEFINE rest == Tail(replies)
           kind == CapReports
           ack  == Acks
<1> HIDE DEF kind, ack
<1>1. \A k \in {kind, ack} :
          /\ \A i \in At(rest, k) : i \in Nat \ {0} /\ i + 1 \in At(replies, k)
          /\ \A i \in At(replies, k) : i \in Nat \ {0} /\ (i # 1 => i - 1 \in At(rest, k))
    BY AtRest
<1>2. 1 \notin At(replies, ack)
    BY AtRest DEF ack
<1> HIDE DEF rest
<1>3. ASSUME NEW j \in At(rest, kind), asked PROVE \E i \in At(rest, ack) : i < j
    <2>1. j + 1 \in At(replies, kind) /\ j \in Nat
        BY <1>1
    <2>2. PICK i \in At(replies, ack) : i < j + 1
        BY <1>3, <2>1 DEF Prompt, kind, ack
    <2>3. i - 1 \in At(rest, ack) /\ i \in Nat
        BY <1>1, <1>2
    <2> QED BY <2>1, <2>2, <2>3
<1>4. ASSUME NEW j \in At(rest, kind), ~asked, NEW i \in At(rest, ack) PROVE j < i
    <2>1. /\ j + 1 \in At(replies, kind) /\ j \in Nat
          /\ i + 1 \in At(replies, ack) /\ i \in Nat
        BY <1>1
    <2>2. j + 1 < i + 1
        BY <1>4, <2>1 DEF Prompt, kind, ack
    <2> QED BY <2>1, <2>2
<1>5. Prompt(rest, asked)
    BY <1>3, <1>4 DEF Prompt, kind, ack
<1>6. At(rest, ack) = {} <=> At(replies, ack) = {}
    BY <1>1, <1>2
<1>7. At(rest, kind) # {} => At(replies, kind) # {}
    BY <1>1
<1> QED BY <1>5, <1>6, <1>7 DEF rest, kind, ack

LEMMA PromptMore ==
    ASSUME NEW replies \in Seq(Incomings), NEW e \in Incomings, e \notin Acks,
           e \notin CapReports, NEW asked, Prompt(replies, asked)
    PROVE  /\ Prompt(Append(replies, e), asked)
           /\ At(Append(replies, e), Acks) = At(replies, Acks)
           /\ At(Append(replies, e), CapReports) = At(replies, CapReports)
<1>1. /\ At(Append(replies, e), Acks) = At(replies, Acks)
      /\ At(Append(replies, e), CapReports) = At(replies, CapReports)
    BY AtMore
<1> QED BY <1>1 DEF Prompt

(* Steps of the engine *)

\* Steps that leave a task where it is.
LEMMA SameCaps ==
    ASSUME CapInv, devFns' = devFns, Strong' => Strong,
           task'.running = task.running, task'.steps = task.steps, task'.wait = task.wait,
           Strong' /\ Catalogue =>
               /\ Listed(caps', Replies') /\ Prompt(Replies', CapAsked)
               /\ \A s \in General : Offers(caps', Replies', s) <=> Offers(caps, Replies, s)
               /\ At(Replies', CapReports) # {} =>
                      At(Replies, CapReports) # {} \/ (task.running /\ task.wait = "Ack")
               /\ \/ ~task.running \/ ~CapAsked
                  \/ At(Replies', Acks) = {} <=> At(Replies, Acks) = {}
    PROVE  CapInv'
<1> SUFFICES ASSUME Strong' PROVE Catalogue'
    BY DEF CapInv
<1>1. Catalogue
    BY DEF CapInv
<1>2. /\ Listed(caps', Replies') /\ Prompt(Replies', CapAsked)
      /\ \A s \in General : Offers(caps', Replies', s) <=> Offers(caps, Replies, s)
      /\ At(Replies', CapReports) # {} =>
             At(Replies, CapReports) # {} \/ (task.running /\ task.wait = "Ack")
      /\ \/ ~task.running \/ ~CapAsked
         \/ At(Replies', Acks) = {} <=> At(Replies, Acks) = {}
    BY <1>1
<1>3. /\ CapAsked' <=> CapAsked
      /\ \A s \in General : Wanted(s)' <=> Wanted(s)
    BY <1>2 DEF CapAsked, Wanted
<1>4. \A s \in General : Offered(s)' <=> Offered(s)
    BY <1>2 DEF Offered
<1>5. Prompt(Replies', CapAsked')
    BY <1>2, <1>3 DEF Prompt
<1>6. At(Replies', CapReports) # {} => task'.running /\ task'.wait = "Ack"
    BY <1>1, <1>2 DEF Catalogue
<1>7. \A s \in General : Offered(s)' =>
          s \in devFns' /\ \A t \in General : Wanted(t)' => Precedes(s, t)
    BY <1>1, <1>3, <1>4 DEF Catalogue
<1>8. \A s \in General \intersect devFns' : Offered(s)' \/ Wanted(s)'
    BY <1>1, <1>3, <1>4 DEF Catalogue
<1>9. \A s \in General : task'.running /\ Has(task'.steps, AskCap(s)) => s \in devFns'
    BY <1>1 DEF Catalogue
<1>10. CapReports' = CapReports /\ Acks' = Acks
    BY DEF CapReports, Acks
<1> QED BY <1>2, <1>5, <1>6, <1>7, <1>8, <1>9, <1>10 DEF Catalogue

LEMMA QuietCaps ==
    ASSUME CapInv, UNCHANGED <<devFns, caps>>, Strong' => Strong,
           task'.running = task.running, task'.steps = task.steps, task'.wait = task.wait,
           Replies' = Replies
    PROVE  CapInv'
<1>1. Catalogue => Listed(caps', Replies') /\ Prompt(Replies', CapAsked)
    BY DEF Catalogue
<1> QED BY <1>1, SameCaps

\* The engine takes a frame that is no ACK, and the task does not go on by it.
LEMMA FrameCaps ==
    ASSUME IInv, CapInv, devFns' = devFns, Strong' => Strong, task' = task,
           recvBuf # <<>>, recvBuf' = Tail(recvBuf), fromDevice' = fromDevice,
           Head(recvBuf) \notin Acks,
           caps' = IF Head(recvBuf) \in CapReports
                   THEN Append(caps, Head(recvBuf).body.arg) ELSE caps
    PROVE  CapInv'
<1>1. /\ Replies \in Seq(Incomings) /\ Replies # <<>> /\ Replies' = Tail(Replies)
      /\ Head(Replies) = Head(recvBuf) /\ caps \in Seq(General)
    BY FirstReply DEF IInv, EngineTypes, Replies
<1> HIDE DEF Replies
<1>2. ASSUME Catalogue
      PROVE  /\ Listed(caps', Tail(Replies))
             /\ \A s \in General : Offers(caps', Tail(Replies), s) <=> Offers(caps, Replies, s)
    <2>1. Listed(caps, Replies)
        BY <1>2 DEF Catalogue
    <2>2. CASE Head(Replies) \in CapReports
        BY <1>1, <2>1, <2>2, ListedPush
    <2>3. CASE Head(Replies) \notin CapReports
        BY <1>1, <2>1, <2>3, ListedTail
    <2> QED BY <2>2, <2>3
<1>3. ASSUME Catalogue
      PROVE  /\ Prompt(Tail(Replies), CapAsked)
             /\ At(Tail(Replies), Acks) = {} <=> At(Replies, Acks) = {}
             /\ At(Tail(Replies), CapReports) # {} => At(Replies, CapReports) # {}
    <2>1. Prompt(Replies, CapAsked)
        BY <1>3 DEF Catalogue
    <2> HIDE DEF CapAsked
    <2> QED BY <1>1, <2>1, PromptTail
<1> QED BY <1>1, <1>2, <1>3, SameCaps

\* The task goes on: the settings it still asks for stay the same, but for
\* the one it has just asked for, and what reads that comes next.
LEMMA AdvanceCaps ==
    ASSUME IInv, WaitInv, CapInv, SupportInv', UNCHANGED <<caps, devFns>>, Strong' => Strong,
           recvBuf # <<>>, recvBuf' = Tail(recvBuf), fromDevice' = fromDevice,
           Head(recvBuf) \notin CapReports,
           NEW wait \in Waits, task.wait = wait, NEW buf, AdvanceOn(wait, buf, support'),
           wait = "Ack" => Head(recvBuf) \in Acks,
           Strong => /\ At(Replies', Acks) = {}
                     /\ \/ devFns \intersect General \subseteq support'
                        \/ Tail(task.steps)[1].kind # "If"
    PROVE  CapInv'
<1> DEFINE rest  == Tail(task.steps)
           u     == Unfold(rest, support')
           front == Head(task.steps)
<1>1. /\ EngineTypes /\ TaskInv /\ TaskShape /\ caps \in Seq(General) /\ wait # "None"
      /\ Replies \in Seq(Incomings) /\ Replies # <<>> /\ Replies' = Tail(Replies)
      /\ Head(Replies) = Head(recvBuf)
    BY FirstReply DEF IInv, EngineTypes, WaitInv, Waits, Replies
<1>2. /\ task.running /\ task.steps \in Seq(Steps) /\ task.steps # <<>>
      /\ rest \in Seq(Steps) /\ EndsInDone(rest)
      /\ \/ GoesOn(u, task.last, buf)
         \/ Head(u).kind = "Done" /\ task' = NoTask
    BY <1>1, AdvanceGoesOn DEF EndsInDone
<1>3. /\ wait = "Ack" => front.kind = "Send" /\ At(Replies, Acks) # {}
      /\ wait # "Ack" => front.kind = "Await"
    <2>1. wait = "Ack" => 1 \in At(Replies, Acks)
        <3> HIDE DEF Replies
        <3> QED BY <1>1, AtRest
    <2>2. wait # "Ack" => front = Await(wait)
        BY <1>1, <1>2 DEF TaskShape, AtStep
    <2> QED BY <1>1, <1>2, <2>1, <2>2 DEF TaskShape, AtStep, Await
<1>4. Orderly(task.steps) /\ InTurn(task.steps)
    BY <1>2 DEF CapInv
<1>5. /\ task'.running => Orderly(task'.steps)
      /\ \A s : /\ Ahead(task.steps, AskCap(s), s) /\ front # AskCap(s)
                /\ s \in General => s \in support' \/ rest[1].kind # "If"
                => task'.running /\ Ahead(task'.steps, AskCap(s), s)
    <2>1. front.kind # "If"
        BY <1>3
    <2> QED BY <1>1, <1>4, <2>1, AdvanceAhead, AskKinds
<1>6. InTurn(rest) /\ InTurn(u)
    BY <1>2, <1>4, TailCaps, UnfoldCaps
<1>7. task'.running => task'.steps = u
    BY <1>2, NoTaskType DEF GoesOn
<1>8. ASSUME NEW s \in General
      PROVE  /\ Ahead(u, AskCap(s), s) => Ahead(task.steps, AskCap(s), s) /\ front # AskCap(s)
             /\ Has(u, AskCap(s)) => Has(task.steps, AskCap(s)) \/ s \in support'
             /\ front = AskCap(s) => rest[1] = ReadOf(s)
    <2>1. /\ Ahead(u, AskCap(s), s) => Ahead(rest, AskCap(s), s)
          /\ Has(u, AskCap(s)) => Has(rest, AskCap(s)) \/ s \in support'
        <3> HIDE DEF rest
        <3> QED BY <1>2, <1>6, UnfoldCaps
    <2>2. /\ Ahead(rest, AskCap(s), s) => Ahead(task.steps, AskCap(s), s) /\ front # AskCap(s)
          /\ Has(rest, AskCap(s)) => Has(task.steps, AskCap(s))
          /\ front = AskCap(s) => rest[1] = ReadOf(s)
        BY <1>2, <1>4, TailCaps
    <2> QED BY <2>1, <2>2
<1> SUFFICES ASSUME Strong, Strong' PROVE Catalogue'
    BY <1>5, <1>6, <1>7 DEF CapInv
<1>9. Catalogue /\ At(Replies', Acks) = {}
    BY DEF CapInv
<1>10. /\ Listed(caps', Replies') /\ \A s \in General : Offered(s)' <=> Offered(s)
    <2>1. Listed(caps, Replies)
        BY <1>9 DEF Catalogue
    <2>2. /\ Listed(caps, Tail(Replies))
          /\ \A s : Offers(caps, Tail(Replies), s) <=> Offers(caps, Replies, s)
        <3> HIDE DEF Replies
        <3> QED BY <1>1, <2>1, ListedTail
    <2> QED BY <1>1, <2>2 DEF Offered
<1>11. ASSUME NEW s \in General, Wanted(s)' PROVE Wanted(s)
    BY <1>2, <1>7, <1>8, <1>11 DEF Wanted
<1>12. ASSUME NEW s \in General, s \in devFns, Wanted(s) PROVE Wanted(s)'
    <2>1. front # AskCap(s)
        <3>1. wait # "Ack" => front # AskCap(s)
            BY <1>3, AskKinds
        <3> QED BY <1>3, <1>12, <3>1 DEF Wanted
    <2>2. task'.running /\ Ahead(task'.steps, AskCap(s), s)
        BY <1>5, <1>12, <2>1 DEF Wanted
    <2> QED BY <1>9, <2>2 DEF Wanted
<1>13. ASSUME NEW s \in General, task'.running, Has(task'.steps, AskCap(s)) PROVE s \in devFns'
    <2>1. Has(task.steps, AskCap(s)) \/ s \in support'
        BY <1>7, <1>8, <1>13
    <2>2. support' \subseteq devFns'
        BY DEF SupportInv, Strong, Undisturbed
    <2> QED BY <1>2, <1>9, <2>1, <2>2 DEF Catalogue
<1>14. ASSUME At(Replies', CapReports) # {}
       PROVE  task'.running /\ task'.wait = "Ack" /\ ~CapAsked'
    <2>1. PICK j \in At(Replies, CapReports) : j # 1 /\ j \in Nat \ {0}
        <3> HIDE DEF Replies
        <3>1. PICK i \in At(Tail(Replies), CapReports) : TRUE
            BY <1>1, <1>14
        <3>2. i \in Nat \ {0} /\ i + 1 \in At(Replies, CapReports)
            BY <1>1, AtRest
        <3>3. i + 1 # 1 /\ i + 1 \in Nat \ {0}
            BY <3>2
        <3> QED BY <3>2, <3>3
    <2>2. task.wait = "Ack"
        BY <1>9, <2>1 DEF Catalogue
    <2>3. 1 \in At(Replies, Acks)
        <3> HIDE DEF Replies
        <3> QED BY <1>1, <2>2, AtRest
    <2>4. CapAsked
        <3>1. ~(j < 1)
            BY <2>1
        <3> QED BY <1>9, <2>1, <2>3, <3>1 DEF Catalogue, Prompt
    <2>5. PICK s \in General : front = AskCap(s)
        BY <2>4 DEF CapAsked
    <2>6. rest[1] = ReadOf(s) /\ rest[1].kind = "Send"
        BY <1>8, <2>5, AskKinds
    <2>7. u = rest /\ Head(rest) = rest[1]
        <3> HIDE DEF rest
        <3>1. rest[1].kind # "If"
            BY <2>6
        <3> QED BY <1>2, <3>1, UnfoldOfRun, HeadTailProperties DEF EndsInDone
    <2>8. Head(u) = ReadOf(s) /\ Head(u).kind = "Send"
        BY <2>6, <2>7
    <2> HIDE DEF u
    <2>9. task'.running /\ task'.wait = "Ack" /\ Head(task'.steps) = ReadOf(s)
        BY <1>2, <2>8 DEF GoesOn
    <2> QED BY <2>9, AskKinds DEF CapAsked
<1>15. Prompt(Replies', CapAsked')
    BY <1>9, <1>14 DEF Prompt
<1>16. \A s \in General : Offered(s)' =>
           s \in devFns' /\ \A t \in General : Wanted(t)' => Precedes(s, t)
    BY <1>9, <1>10, <1>11 DEF Catalogue
<1>17. \A s \in General \intersect devFns' : Offered(s)' \/ Wanted(s)'
    BY <1>9, <1>10, <1>12 DEF Catalogue
<1>18. CapReports' = CapReports /\ Acks' = Acks
    BY DEF CapReports, Acks
<1> QED BY <1>10, <1>13, <1>14, <1>15, <1>16, <1>17, <1>18 DEF Catalogue

\* The engine takes an ACK: what it asked for is behind it.
LEMMA AckCaps ==
    ASSUME IInv, WaitInv, SupportInv, SupportInv', CapInv, HandleAck, UNCHANGED wireVars,
           UNCHANGED <<devFns, spent>>, Undisturbed' => Undisturbed
    PROVE  CapInv'
<1>1. /\ EngineTypes /\ TaskInv /\ WireTypes /\ TaskShape /\ caps \in Seq(General)
      /\ recvBuf # <<>> /\ recvBuf' = Tail(recvBuf) /\ fromDevice' = fromDevice
      /\ Head(recvBuf).type = "Ack" /\ AdvanceOn("Ack", sendBuf, support)
      /\ support' = support /\ caps' = caps /\ "Ack" \in Waits /\ (Strong' => Strong)
    BY DEF IInv, WaitInv, HandleAck, wireVars, Waits, Strong, EngineTypes
<1>2. /\ Replies \in Seq(Incomings) /\ Replies # <<>> /\ Replies' = Tail(Replies)
      /\ Head(Replies) = Head(recvBuf) /\ Head(Replies) \in Acks
      /\ Head(Replies) \notin CapReports
    <2>1. /\ Replies \in Seq(Incomings) /\ Replies # <<>> /\ Replies' = Tail(Replies)
          /\ Head(Replies) = Head(recvBuf) /\ Head(recvBuf) \in Incomings
        BY <1>1, FirstReply DEF Replies
    <2> QED BY <1>1, <2>1 DEF Incomings, Acks, AckFrame, CapReports
<1>3. CASE task.wait # "Ack"
    <2>1. task' = task
        BY <1>1, <1>3 DEF AdvanceOn
    <2>2. ~task.running \/ ~CapAsked
        BY <1>1, <1>3, AskKinds DEF CapAsked, TaskInv, Proceeding, TaskShape, AtStep, Await
    <2>3. ASSUME Catalogue
          PROVE  /\ Listed(caps, Tail(Replies))
                 /\ \A s : Offers(caps, Tail(Replies), s) <=> Offers(caps, Replies, s)
                 /\ At(Tail(Replies), CapReports) = {}
        <3>1. Listed(caps, Replies) /\ At(Replies, CapReports) = {}
            BY <1>3, <2>3 DEF Catalogue
        <3> HIDE DEF Replies
        <3> QED BY <1>1, <1>2, <3>1, ListedTail, AtRest
    <2>4. ASSUME Catalogue PROVE Prompt(Tail(Replies), CapAsked)
        BY <2>3, <2>4 DEF Prompt
    <2> QED BY <1>1, <1>2, <2>1, <2>2, <2>3, <2>4, SameCaps
<1>4. CASE task.wait = "Ack"
    <2>1. ASSUME Strong PROVE At(Replies', Acks) = {}
        <3>1. \A i, j \in At(Replies, Acks) : i = j
            BY <2>1 DEF WaitInv, UnderWay, OneUnderWay, Strong, Undisturbed
        <3> HIDE DEF Replies
        <3> QED BY <1>2, <3>1, AtTaken
    <2>2. ASSUME Strong
          PROVE  devFns \intersect General \subseteq support' \/ Tail(task.steps)[1].kind # "If"
        <3>1. task.running /\ Orderly(task.steps) /\ Head(task.steps).kind = "Send"
            BY <1>1, <1>4 DEF TaskInv, CapInv, TaskShape, AtStep
        <3>2. Complete /\ ~Awaiting("GetSupport")
            BY <2>2, <3>1 DEF SupportInv, Strong, Awaiting
        <3> QED BY <1>1, <1>4, <3>1, <3>2, NothingSkipped
    <2>3. "Ack" = "Ack" => Head(recvBuf) \in Acks
        BY <1>2
    <2>4. AdvanceOn("Ack", sendBuf, support') /\ Head(recvBuf) \notin CapReports
        BY <1>1, <1>2
    <2> QED BY <1>1, <1>4, <2>1, <2>2, <2>3, <2>4, AdvanceCaps
<1> QED BY <1>3, <1>4

\* The engine takes a table.
LEMMA TableCaps ==
    ASSUME IInv, WaitInv, SupportInv, SupportInv', CapInv,
           NEW wait \in {"ProtocolInfo", "SupportFunction"},
           recvBuf # <<>>, Head(recvBuf) \in Tables, recvBuf' = Tail(recvBuf),
           AdvanceOn(wait, Acked, support'), UNCHANGED wireVars, TableLearnt,
           UNCHANGED <<caps, devFns, spent>>, Undisturbed' => Undisturbed
    PROVE  CapInv'
<1>1. /\ EngineTypes /\ TaskInv /\ WireTypes /\ TaskShape /\ fromDevice' = fromDevice
      /\ wait \in Waits /\ wait \notin {"None", "Ack"} /\ (Strong' => Strong)
    BY DEF IInv, WaitInv, wireVars, Waits, Strong
<1>2. Head(recvBuf) \notin Acks /\ Head(recvBuf) \notin CapReports
    BY DEF Tables, TableReports, Acks, AckFrame, CapReports
<1>3. CASE task.wait # wait
    <2>1. task' = task
        BY <1>1, <1>3 DEF AdvanceOn
    <2> QED BY <1>1, <1>2, <2>1, FrameCaps
<1>4. CASE task.wait = wait
    <2>1. ASSUME Strong
          PROVE  /\ support \subseteq support'
                 /\ Head(recvBuf).body.val = devFns \intersect Covered(Head(recvBuf).body.op)
                 /\ Head(recvBuf).body.val \subseteq support'
                 /\ 1 \in At(Replies, Tables) /\ Replies[1] = Head(recvBuf)
        BY <1>1, <2>1, TableTruth DEF Strong, Undisturbed
    <2>2. ASSUME Strong
          PROVE  devFns \intersect General \subseteq support' \/ Tail(task.steps)[1].kind # "If"
        <3>1. task.running /\ Orderly(task.steps) /\ task.wait # "None"
            BY <1>1, <1>4 DEF TaskInv, CapInv
        <3>2. Head(recvBuf).body.op = TableFor(task.last.op)
            BY <2>1, <2>2 DEF WaitInv, UnderWay, ForTask, Strong, Undisturbed
        <3>3. Complete
            BY <2>2 DEF SupportInv, Strong
        <3>4. Awaiting("GetSupport") => devFns \intersect General \subseteq support'
            BY <2>1, <2>2, <3>2 DEF Awaiting, TableFor, Covered
        <3> QED BY <1>1, <2>1, <2>2, <3>1, <3>3, <3>4, NothingSkipped
    <2>3. ASSUME Strong PROVE At(Replies', Acks) = {}
        <3>1. \A i \in At(Replies, Acks) : i < 1
            BY <2>1, <2>3 DEF WaitInv, UnderWay, OneUnderWay, Strong, Undisturbed
        <3>2. /\ Replies \in Seq(Incomings) /\ Replies # <<>> /\ Replies' = Tail(Replies)
            BY <1>1, FirstReply DEF Replies
        <3> HIDE DEF Replies
        <3>3. \A i \in At(Replies, Acks) : i \in Nat \ {0}
            BY <3>2, AtRest
        <3>4. At(Replies, Acks) = {}
            BY <3>1, <3>3
        <3> QED BY <3>2, <3>4, AtRest
    <2>4. wait = "Ack" => Head(recvBuf) \in Acks
        BY <1>1
    <2> QED BY <1>1, <1>2, <1>4, <2>2, <2>3, <2>4, AdvanceCaps
<1> QED BY <1>3, <1>4

\* From a task that asks for nothing more to another one, or to none.
LEMMA RestCaps ==
    ASSUME CapInv, UNCHANGED <<caps, devFns>>, Replies' = Replies, Strong' => Strong,
           task.running => /\ task.wait = "None"
                           /\ \A s \in General : ~Ahead(task.steps, AskCap(s), s),
           task'.running => /\ Orderly(task'.steps) /\ InTurn(task'.steps)
                            /\ \A s \in General : /\ ~Ahead(task'.steps, AskCap(s), s)
                                                  /\ ~Has(task'.steps, AskCap(s))
    PROVE  CapInv'
<1> SUFFICES ASSUME Strong, Strong' PROVE Catalogue'
    BY DEF CapInv
<1>1. Catalogue
    BY DEF CapInv
<1>2. /\ At(Replies, CapReports) = {}
      /\ \A s \in General : ~Wanted(s) /\ ~Wanted(s)'
    BY <1>1 DEF Catalogue, Wanted
<1>3. /\ Listed(caps', Replies') /\ At(Replies', CapReports') = {}
      /\ \A s \in General : Offered(s)' <=> Offered(s)
    <2>1. CapReports' = CapReports
        BY DEF CapReports
    <2> QED BY <1>1, <1>2, <2>1 DEF Catalogue, Offered
<1>4. Prompt(Replies', CapAsked')
    BY <1>3 DEF Prompt
<1>5. \A s \in General : Offered(s)' =>
          s \in devFns' /\ \A t \in General : Wanted(t)' => Precedes(s, t)
    BY <1>1, <1>2, <1>3 DEF Catalogue
<1>6. \A s \in General \intersect devFns' : Offered(s)' \/ Wanted(s)'
    BY <1>1, <1>2, <1>3 DEF Catalogue
<1>7. \A s \in General : task'.running /\ Has(task'.steps, AskCap(s)) => s \in devFns'
    OBVIOUS
<1> QED BY <1>3, <1>4, <1>5, <1>6, <1>7 DEF Catalogue

\* A stage of poll().
LEMMA EngineStepCaps ==
    ASSUME IInv, WaitInv, SupportInv, SupportInv', CapInv, EngineStep
    PROVE  CapInv'
<1>1. /\ WireTypes /\ EngineTypes /\ TaskInv /\ task \in Tasks
      /\ recvBuf \in Seq(Incomings) /\ fromDevice \in Seq(Incomings)
    BY DEF IInv, EngineTypes, WireTypes
<1>2. /\ (Undisturbed' => Undisturbed) /\ (Strong' => Strong)
      /\ UNCHANGED <<devFns, devVal, spent>>
    BY EngineKeepsEvents DEF EngineStep, deviceVars, Strong
<1>3. ASSUME UNCHANGED <<task, caps, recvBuf, fromDevice>> PROVE CapInv'
    BY <1>2, <1>3, QuietCaps DEF Replies
<1>4. CASE FlushSendBuf
    BY <1>3, <1>4 DEF FlushSendBuf
<1>5. CASE ReadFrames
    <2>1. recvBuf \o fromDevice \in Seq(Incomings)
        BY <1>1, ConcatProperties
    <2>2. Replies' = Replies
        BY <1>5, <2>1, ConcatEmptySeq DEF ReadFrames, Replies
    <2>3. UNCHANGED <<caps, task>>
        BY <1>5 DEF ReadFrames
    <2> QED BY <1>2, <2>2, <2>3, QuietCaps
<1>6. CASE TransportError
    BY <1>3, <1>6 DEF TransportError, wireVars
<1>7. CASE (DeadlineOpen \/ NoFrame) /\ UNCHANGED wireVars
    BY <1>3, <1>7 DEF DeadlineOpen, NoFrame, wireVars
<1>8. CASE Retransmit /\ UNCHANGED wireVars
    <2>1. task' = Rearmed(task) /\ caps' = caps /\ Replies' = Replies
        BY <1>8 DEF Retransmit, Replies, wireVars
    <2>2. /\ task'.running = task.running /\ task'.steps = task.steps
          /\ task'.wait = task.wait
        BY <1>1, <2>1 DEF Rearmed, Tasks
    <2> QED BY <1>2, <2>1, <2>2, QuietCaps
<1>9. CASE GiveUp /\ UNCHANGED wireVars
    <2>1. "Fatal" \in pending' /\ task' = NoTask
        BY <1>9 DEF GiveUp, Emit
    <2> QED BY <2>1, NoTaskType DEF CapInv, Strong, Undisturbed
<1>10. CASE StepCompleted /\ UNCHANGED wireVars
    <2>1. CASE AtDone(task)
        <3>1. task' = NoTask /\ caps' = caps /\ Replies' = Replies
            BY <1>10, <2>1 DEF StepCompleted, Replies, wireVars
        <3>2. /\ task.steps \in Seq(Steps) /\ EndsInDone(task.steps) /\ task.wait = "None"
              /\ Head(task.steps).kind = "Done"
            BY <1>1, <2>1 DEF AtDone, TaskInv, Proceeding, Tasks
        <3>3. \A s \in General : ~Ahead(task.steps, AskCap(s), s)
            BY <3>2, NoneAhead, AskKinds
        <3>4. ~task'.running
            BY <3>1, NoTaskType
        <3> QED BY <1>2, <3>1, <3>2, <3>3, <3>4, RestCaps
    <2>2. CASE ~AtDone(task)
        BY <1>3, <1>10, <2>2 DEF StepCompleted, wireVars
    <2> QED BY <2>1, <2>2
<1>11. CASE HandleAck /\ UNCHANGED wireVars
    BY <1>2, <1>11, AckCaps
<1>12. ASSUME NEW op \in TableReports, Incoming(op)
       PROVE  recvBuf # <<>> /\ Head(recvBuf) \in Tables /\ recvBuf' = Tail(recvBuf)
    BY <1>1, <1>12, FirstReply DEF Incoming, Tables
<1>13. CASE HandleProtocolInfo /\ UNCHANGED wireVars
    <2>1. /\ recvBuf # <<>> /\ Head(recvBuf) \in Tables /\ recvBuf' = Tail(recvBuf)
          /\ Head(recvBuf).body.op = "RetProtocolInfo"
        BY <1>12, <1>13 DEF HandleProtocolInfo, TableReports, Incoming
    <2>2. AdvanceOn("ProtocolInfo", Acked, support') /\ TableLearnt /\ caps' = caps
        BY <1>13, <2>1 DEF HandleProtocolInfo, TableLearnt
    <2> QED BY <1>2, <1>13, <2>1, <2>2, TableCaps
<1>14. CASE HandleSupportFunction /\ UNCHANGED wireVars
    <2>1. recvBuf # <<>> /\ Head(recvBuf) \in Tables /\ recvBuf' = Tail(recvBuf)
        BY <1>12, <1>14 DEF HandleSupportFunction, TableReports
    <2>2. AdvanceOn("SupportFunction", Acked, support') /\ caps' = caps
        BY <1>14 DEF HandleSupportFunction
    <2>3. TableLearnt
        BY <1>14 DEF HandleSupportFunction, TableLearnt
    <2> QED BY <1>2, <1>14, <2>1, <2>2, <2>3, TableCaps
<1>15. CASE (HandleCapability \/ HandleParam \/ HandlePairedList) /\ UNCHANGED wireVars
    <2>1. /\ recvBuf # <<>> /\ recvBuf' = Tail(recvBuf)
          /\ UNCHANGED <<task, fromDevice>> /\ Head(recvBuf).type = "Data"
          /\ caps' = IF Head(recvBuf).body.op = "RetCapability"
                     THEN Append(caps, Head(recvBuf).body.arg) ELSE caps
        BY <1>15 DEF HandleCapability, HandleParam, HandlePairedList, Incoming, wireVars
    <2>2. Head(recvBuf) \in Incomings
        BY <1>1, <2>1, FirstReply
    <2>3. /\ Head(recvBuf) \notin Acks
          /\ Head(recvBuf) \in CapReports <=> Head(recvBuf).body.op = "RetCapability"
        BY <2>1, <2>2 DEF Acks, AckFrame, CapReports
    <2> QED BY <1>2, <2>1, <2>3, FrameCaps
<1> QED
    BY <1>4, <1>5, <1>6, <1>7, <1>8, <1>9, <1>10, <1>11, <1>13, <1>14, <1>15
       DEF EngineStep, Poll

\* A task starts when there is none.
LEMMA StartCaps ==
    ASSUME CapInv, IsReady,
           NEW steps \in Seq(Steps), EndsInDone(steps), Orderly(steps), Mute(steps),
           NEW known, StartTask(steps, known),
           UNCHANGED <<caps, recvBuf, fromDevice, devFns>>, Strong' => Strong
    PROVE  CapInv'
<1> DEFINE u == Unfold(steps, known)
<1>1. task'.running => task'.steps = u
    BY StartGoesOn DEF GoesOn
<1>2. Orderly(u) /\ InTurn(u) /\ \A s \in General : ~Ahead(u, AskCap(s), s)
    BY MuteTask, UnfoldOrderly, UnfoldCaps
<1>3. \A s \in General : ~Has(u, AskCap(s))
    BY <1>2 DEF Has, Ahead
<1>4. Replies' = Replies
    BY DEF Replies
<1> HIDE DEF u
<1> QED BY <1>1, <1>2, <1>3, <1>4, RestCaps DEF IsReady

\* What the headphones answer to a command.
LEMMA AnswerCaps ==
    ASSUME DeviceTypes, NEW body \in Requests
    PROVE  \/ Answer(body) = <<>> /\ body.op # "GetCapability"
           \/ \E report \in Incomings :
                 /\ Answer(body) = <<report>> /\ report \notin Acks
                 /\ report \in CapReports <=> body.op = "GetCapability"
                 /\ body.op = "GetCapability" => report.body.arg = body.arg
<1> DEFINE told(op, arg, val) == [type |-> "Data", body |-> Body(op, arg, val)]
<1>1. ASSUME NEW op, NEW arg, NEW val, Answer(body) = Report(op, arg, val),
             op = "RetCapability" <=> body.op = "GetCapability",
             body.op = "GetCapability" => arg = body.arg
      PROVE  \E report \in Incomings :
                 /\ Answer(body) = <<report>> /\ report \notin Acks
                 /\ report \in CapReports <=> body.op = "GetCapability"
                 /\ body.op = "GetCapability" => report.body.arg = body.arg
    <2>1. Answer(body) = <<told(op, arg, val)>>
        BY <1>1 DEF Report
    <2>2. told(op, arg, val) \in Incomings
        <3> DEFINE r == told(op, arg, val)
        <3>1. <<r>> \in Seq(Incomings)
            BY <2>1, AnswerType
        <3> HIDE DEF r
        <3>2. 1 \in 1..Len(<<r>>) /\ <<r>>[1] = r
            OBVIOUS
        <3>3. r \in Incomings
            BY <3>1, <3>2, ElementOfSeq
        <3> QED BY <3>3 DEF r
    <2>3. /\ told(op, arg, val).type = "Data" /\ told(op, arg, val).body.op = op
          /\ told(op, arg, val).body.arg = arg
        BY DEF Body
    <2> HIDE DEF told
    <2>4. told(op, arg, val) \in CapReports <=> body.op = "GetCapability"
        BY <1>1, <2>2, <2>3 DEF CapReports
    <2>5. told(op, arg, val) \notin Acks
        BY <2>3 DEF Acks, AckFrame
    <2> QED BY <1>1, <2>1, <2>2, <2>3, <2>4, <2>5
<1>2. CASE body.op = "GetProtocolInfo"
    <2> DEFINE val == devFns \intersect {"Table2"}
    <2>1. Answer(body) = Report("RetProtocolInfo", None, val)
        BY <1>2 DEF Answer
    <2> HIDE DEF val
    <2> QED BY <1>1, <1>2, <2>1
<1>3. CASE body.op = "GetSupport"
    <2> DEFINE val == devFns \intersect General
    <2>1. Answer(body) = Report("RetSupport", None, val)
        BY <1>3 DEF Answer
    <2> HIDE DEF val
    <2> QED BY <1>1, <1>3, <2>1
<1>4. CASE body.op = "GetSupport2"
    <2> DEFINE val == devFns \intersect {"PairedList"}
    <2>1. Answer(body) = Report("RetSupport2", None, val)
        BY <1>4 DEF Answer
    <2> HIDE DEF val
    <2> QED BY <1>1, <1>4, <2>1
<1>5. CASE body.op = "GetPairedList"
    <2>1. Answer(body) = Report("RetPairedList", None, None)
        BY <1>5 DEF Answer
    <2> QED BY <1>1, <1>5, <2>1
<1>6. CASE body.op = "GetCapability"
    <2>1. Answer(body) = Report("RetCapability", body.arg, None)
        BY <1>6 DEF Answer
    <2> QED BY <1>1, <1>6, <2>1
<1>7. CASE body.op = "GetParam"
    <2>1. Answer(body) = Report("RetParam", body.arg, devVal[body.arg])
        BY <1>7 DEF Answer
    <2> QED BY <1>1, <1>7, <2>1
<1>8. CASE body.op = "SetParam" /\ Echo
    <2>1. Answer(body) = Report("RetParam", body.arg, body.val)
        BY <1>8 DEF Answer
    <2> QED BY <1>1, <1>8, <2>1
<1>9. CASE \/ body.op = "SetParam" /\ ~Echo
           \/ body.op \notin {"GetProtocolInfo", "GetSupport", "GetSupport2", "GetPairedList",
                              "GetCapability", "GetParam", "SetParam"}
    BY <1>9 DEF Answer
<1> QED BY <1>2, <1>3, <1>4, <1>5, <1>6, <1>7, <1>8, <1>9

\* The ACK of a command, and behind it the answer: a capability or none.
LEMMA AckListed ==
    ASSUME NEW list \in Seq(General), NEW replies \in Seq(Incomings), Listed(list, replies),
           At(replies, Acks) = {}
    PROVE  LET acked == Append(replies, AckFrame)
               n     == Len(replies)
           IN  /\ acked \in Seq(Incomings) /\ n \in Nat /\ Len(acked) = n + 1
               /\ Listed(list, acked)
               /\ \A s : Offers(list, acked, s) <=> Offers(list, replies, s)
               /\ At(acked, Acks) = {n + 1}
               /\ At(acked, CapReports) = At(replies, CapReports)
               /\ \A j \in At(replies, CapReports) : j \in 1..n
<1>1. AckFrame \in Incomings /\ AckFrame \in Acks /\ AckFrame \notin CapReports
    BY DEF Incomings, Acks, CapReports, AckFrame
<1>2. /\ Append(replies, AckFrame) \in Seq(Incomings) /\ Len(replies) \in Nat
      /\ Len(Append(replies, AckFrame)) = Len(replies) + 1
    BY <1>1, AppendProperties, LenProperties
<1>3. /\ Listed(list, Append(replies, AckFrame))
      /\ \A s : Offers(list, Append(replies, AckFrame), s) <=> Offers(list, replies, s)
    BY <1>1, ListedMore
<1>4. /\ At(Append(replies, AckFrame), Acks) = At(replies, Acks) \union {Len(replies) + 1}
      /\ At(Append(replies, AckFrame), CapReports) = At(replies, CapReports)
      /\ \A j \in At(replies, CapReports) : j \in 1..Len(replies)
    BY <1>1, AtMore
<1> QED BY <1>2, <1>3, <1>4

LEMMA AnswerListed ==
    ASSUME NEW list \in Seq(General), NEW replies \in Seq(Incomings), Listed(list, replies),
           NEW report \in Incomings, report \notin Acks
    PROVE  LET more == Append(replies, report)
           IN  /\ At(more, Acks) = At(replies, Acks)
               /\ report \notin CapReports =>
                      /\ At(more, CapReports) = At(replies, CapReports)
                      /\ Listed(list, more)
                      /\ \A s : Offers(list, more, s) <=> Offers(list, replies, s)
               /\ report \in CapReports =>
                      /\ At(more, CapReports) = At(replies, CapReports) \union {Len(replies) + 1}
                      /\ (\A s \in General : Offers(list, replies, s) =>
                              Precedes(s, report.body.arg)) =>
                             /\ Listed(list, more)
                             /\ \A s : Offers(list, more, s) <=>
                                           Offers(list, replies, s) \/ s = report.body.arg
<1>1. /\ At(Append(replies, report), Acks) = At(replies, Acks)
      /\ report \notin CapReports =>
             At(Append(replies, report), CapReports) = At(replies, CapReports)
      /\ report \in CapReports =>
             At(Append(replies, report), CapReports) =
                 At(replies, CapReports) \union {Len(replies) + 1}
    BY AtMore
<1> QED BY <1>1, ListedMore

\* The headphones take a command, and offer the capability it asks for.
LEMMA DeviceCaps ==
    ASSUME IInv, WaitInv, CapInv, Device
    PROVE  CapInv'
<1>1. /\ WireTypes /\ DeviceTypes /\ TaskInv /\ TaskShape /\ EngineTypes /\ caps \in Seq(General)
      /\ UNCHANGED <<recvBuf, task, caps, devFns>> /\ (Strong' => Strong)
    BY DEF IInv, WaitInv, EngineTypes, Device, DeviceTakes, DeviceDropsRepeat, DeviceTakesAck,
           engineVars, deviceVars, Strong, Undisturbed
<1>2. CASE UNCHANGED fromDevice
    <2>1. Replies' = Replies
        BY <1>1, <1>2 DEF Replies
    <2> QED BY <1>1, <2>1, QuietCaps
<1>3. CASE DeviceTakes
    <2> SUFFICES ASSUME Strong, Strong' PROVE CapInv'
        BY <1>1 DEF CapInv
    <2> DEFINE body  == task.last
               acked == Append(Replies, AckFrame)
               front == Head(task.steps)
               n     == Len(Replies)
    <2>1. /\ body \in Requests /\ At(Replies, Acks) = {} /\ task.running /\ task.wait # "None"
          /\ fromDevice' = (fromDevice \o <<AckFrame>>) \o Answer(body)
        BY <1>3, CommandOfTask DEF DeviceTakes, Strong
    <2>2. /\ Catalogue /\ Orderly(task.steps) /\ InTurn(task.steps)
          /\ Listed(caps, Replies) /\ Prompt(Replies, CapAsked)
        BY <2>1 DEF CapInv, Catalogue
    <2>3. AckFrame \in Incomings /\ AckFrame \in Acks /\ AckFrame \notin CapReports
        BY DEF Incomings, Acks, CapReports, AckFrame
    <2>4. /\ Replies \in Seq(Incomings) /\ acked \in Seq(Incomings) /\ acked = Replies \o <<AckFrame>>
          /\ Replies' = acked \o Answer(body)
        <3>1. Replies \in Seq(Incomings) /\ Replies' = (Replies \o <<AckFrame>>) \o Answer(body)
            BY <1>1, <2>1, AnswerType, RepliesMore
        <3> QED BY <2>3, <3>1, AppendIsConcat, AppendProperties
    <2>5. /\ Listed(caps, acked) /\ \A s : Offers(caps, acked, s) <=> Offers(caps, Replies, s)
          /\ At(acked, Acks) = {n + 1} /\ At(acked, CapReports) = At(Replies, CapReports)
          /\ \A j \in At(Replies, CapReports) : j \in 1..n
          /\ n \in Nat /\ Len(acked) = n + 1
        <3>1. Replies \in Seq(Incomings) /\ At(Replies, Acks) = {} /\ Listed(caps, Replies)
              /\ caps \in Seq(General)
            BY <1>1, <2>1, <2>2, <2>4
        <3> HIDE DEF Replies
        <3> QED BY <3>1, AckListed
    <2>6. /\ task.steps \in Seq(Steps) /\ task.steps # <<>> /\ front \in Steps
          /\ 1 \in DOMAIN task.steps /\ front = task.steps[1]
        BY <1>1, <2>1, HeadTailProperties, LenProperties
           DEF EngineTypes, Tasks, TaskInv, Proceeding, EndsInDone
    <2>7. CASE body.op # "GetCapability"
        <3>1. ~CapAsked
            <4>1. task.wait = "Ack" => front.body = body
                BY <1>1, <2>1 DEF TaskShape, AtStep
            <4>2. task.wait # "Ack" => front.kind = "Await"
                BY <1>1, <2>1 DEF TaskShape, AtStep, Await
            <4>3. \A s : AskCap(s).body.op = "GetCapability"
                BY DEF AskCap, Send, Body
            <4> QED BY <2>7, <4>1, <4>2, <4>3, AskKinds DEF CapAsked
        <3>2. /\ Listed(caps, Replies')
              /\ \A s : Offers(caps, Replies', s) <=> Offers(caps, Replies, s)
              /\ At(Replies', Acks) = {n + 1}
              /\ At(Replies', CapReports) = At(Replies, CapReports)
            <4>1. CASE Answer(body) = <<>>
                <5>1. Replies' = acked
                    BY <2>4, <4>1, ConcatEmptySeq
                <5> QED BY <2>5, <5>1
            <4>2. ASSUME NEW report \in Incomings, Answer(body) = <<report>>, report \notin Acks,
                         report \notin CapReports
                  PROVE  /\ Listed(caps, Replies')
                         /\ \A s : Offers(caps, Replies', s) <=> Offers(caps, Replies, s)
                         /\ At(Replies', Acks) = {n + 1}
                         /\ At(Replies', CapReports) = At(Replies, CapReports)
                <5>1. Replies' = Append(acked, report)
                    BY <2>4, <4>2, AppendIsConcat
                <5>2. acked \in Seq(Incomings) /\ Listed(caps, acked) /\ caps \in Seq(General)
                    BY <1>1, <2>4, <2>5
                <5> HIDE DEF acked, Replies, n
                <5>3. /\ Listed(caps, Append(acked, report))
                      /\ \A s : Offers(caps, Append(acked, report), s) <=> Offers(caps, acked, s)
                      /\ At(Append(acked, report), Acks) = At(acked, Acks)
                      /\ At(Append(acked, report), CapReports) = At(acked, CapReports)
                    BY <4>2, <5>2, AnswerListed
                <5> QED BY <2>5, <5>1, <5>3
            <4> QED BY <1>1, <2>1, <2>7, <4>1, <4>2, AnswerCaps
        <3>3. Prompt(Replies', CapAsked)
            <4>1. \A j \in 1..n : j < n + 1
                BY <2>5
            <4> QED BY <2>5, <3>1, <3>2, <4>1 DEF Prompt
        <3> QED BY <1>1, <3>1, <3>2, <3>3, SameCaps
    <2>8. CASE body.op = "GetCapability"
        <3> DEFINE s == body.arg
        <3>1. s \in General /\ body = Body("GetCapability", s, None)
            BY <2>1, <2>8 DEF Requests, Body
        <3>2. front = AskCap(s) /\ task.wait = "Ack"
            <4>1. task.wait = "Ack"
                BY <1>1, <2>1, <2>8 DEF TaskShape, AtStep, Asking
            <4>2. front.kind = "Send" /\ front.body = body
                BY <1>1, <2>1, <4>1 DEF TaskShape, AtStep
            <4>3. Settles(front)
                BY <2>2, <2>6 DEF Orderly, CommitsOwn
            <4>4. front.commit = None
                BY <2>8, <4>2, <4>3 DEF Settles
            <4>5. front = [kind |-> "Send", body |-> body, commit |-> None]
                BY <2>6, <4>2, <4>4 DEF Steps, SendSteps, IfSteps, DoneSteps
            <4> QED BY <3>1, <4>1, <4>5 DEF AskCap, Send
        <3> HIDE DEF s, front
        <3>3. CapAsked /\ At(Replies, CapReports) = {}
            <4>1. CapAsked
                BY <3>1, <3>2 DEF CapAsked, front
            <4> QED BY <2>1, <2>2, <4>1 DEF Prompt
        <3>4. Wanted(s) /\ s \in devFns
            <4>1. Ahead(task.steps, AskCap(s), s) /\ Has(task.steps, AskCap(s))
                BY <2>6, <3>2 DEF Ahead, Has
            <4> QED BY <2>1, <2>2, <3>1, <4>1 DEF Wanted, Catalogue
        <3>5. \A r \in General : Offers(caps, Replies, r) => Precedes(r, s)
            BY <2>2, <3>1, <3>4 DEF Catalogue, Offered
        <3>6. PICK report \in Incomings : /\ Answer(body) = <<report>> /\ report \notin Acks
                                          /\ report \in CapReports /\ report.body.arg = s
            BY <1>1, <2>1, <2>8, AnswerCaps DEF s
        <3>7. Replies' = Append(acked, report)
            BY <2>4, <3>6, AppendIsConcat
        <3>8. /\ Listed(caps, Replies')
              /\ \A r : Offers(caps, Replies', r) <=> Offers(caps, Replies, r) \/ r = s
              /\ At(Replies', Acks) = {n + 1} /\ At(Replies', CapReports) = {n + 2}
            <4>1. /\ acked \in Seq(Incomings) /\ Listed(caps, acked) /\ caps \in Seq(General)
                  /\ \A r \in General : Offers(caps, acked, r) => Precedes(r, report.body.arg)
                BY <1>1, <2>4, <2>5, <3>5, <3>6
            <4>2. /\ Listed(caps, Append(acked, report))
                  /\ \A r : Offers(caps, Append(acked, report), r) <=>
                                Offers(caps, acked, r) \/ r = report.body.arg
                  /\ At(Append(acked, report), Acks) = At(acked, Acks)
                  /\ At(Append(acked, report), CapReports) =
                         At(acked, CapReports) \union {Len(acked) + 1}
                <5> HIDE DEF acked, Replies, n
                <5> QED BY <3>6, <4>1, AnswerListed
            <4>3. Len(acked) + 1 = n + 2
                BY <2>5
            <4> HIDE DEF acked, n, Replies
            <4> QED BY <2>5, <3>3, <3>6, <3>7, <4>2, <4>3
        <3>9. /\ CapAsked' /\ Prompt(Replies', TRUE)
              /\ CapReports' = CapReports /\ Acks' = Acks
            <4>1. n + 1 < n + 2
                BY <2>5
            <4>2. Prompt(Replies', TRUE)
                BY <3>8, <4>1 DEF Prompt
            <4> QED BY <1>1, <3>3, <4>2 DEF CapAsked, CapReports, Acks
        <3>10. \A r \in General : Offered(r)' <=> Offered(r) \/ r = s
            BY <1>1, <3>8 DEF Offered
        <3>11. ASSUME NEW t \in General
               PROVE  Wanted(t)' <=> Wanted(t) /\ t # s
            <4>1. Wanted(t) <=> task.running /\ Ahead(task.steps, AskCap(t), t)
                BY <2>1 DEF Wanted
            <4>2. Wanted(t)' <=> task.running /\ Ahead(task.steps, AskCap(t), t)
                                 /\ front # AskCap(t)
                BY <1>1, <3>8, <3>9 DEF Wanted, front
            <4>3. front = AskCap(t) <=> s = t
                BY <3>2, AskKinds
            <4> QED BY <4>1, <4>2, <4>3
        <3>12. ASSUME NEW t \in General, Wanted(t), t # s PROVE Precedes(s, t)
            <4>1. PICK i \in DOMAIN task.steps : Concerns(task.steps[i], t)
                BY <3>12 DEF Wanted, Ahead, Concerns
            <4>2. Concerns(task.steps[1], s)
                BY <2>6, <3>2 DEF Concerns, front
            <4>3. i # 1
                <5>1. task.steps[1] = AskCap(s) /\ AskCap(s).kind = "Send"
                    BY <2>6, <3>2, AskKinds DEF front
                <5> QED BY <3>12, <4>1, <5>1, AskKinds DEF Concerns, Behind
            <4>4. 1 < i
                <5>1. i \in 1..Len(task.steps) /\ Len(task.steps) \in Nat
                    BY <2>6, LenProperties
                <5> QED BY <4>3, <5>1
            <4> QED BY <2>2, <2>6, <3>1, <4>1, <4>2, <4>4 DEF InTurn
        <3>13. \A r \in General : Offered(r)' =>
                   r \in devFns' /\ \A t \in General : Wanted(t)' => Precedes(r, t)
            BY <1>1, <2>2, <3>4, <3>10, <3>11, <3>12 DEF Catalogue
        <3>14. \A r \in General \intersect devFns' : Offered(r)' \/ Wanted(r)'
            BY <1>1, <2>2, <3>10, <3>11 DEF Catalogue
        <3>15. \A r \in General : task'.running /\ Has(task'.steps, AskCap(r)) => r \in devFns'
            BY <1>1, <2>2 DEF Catalogue
        <3>16. /\ Listed(caps', Replies') /\ Prompt(Replies', CapAsked')
               /\ task'.running /\ task'.wait = "Ack"
            <4>1. Prompt(Replies', CapAsked')
                BY <3>9 DEF Prompt
            <4> QED BY <1>1, <2>1, <3>2, <3>8, <4>1
        <3>17. Catalogue'
            BY <3>9, <3>13, <3>14, <3>15, <3>16 DEF Catalogue
        <3> QED BY <1>1, <2>2, <3>17 DEF CapInv
    <2> QED BY <2>7, <2>8
<1> QED BY <1>2, <1>3 DEF Device, DeviceDropsRepeat, DeviceTakesAck, deviceVars

\* Someone turns a knob: that says nothing of capabilities.
LEMMA ChangeCaps ==
    ASSUME IInv, CapInv, NEW s \in Settings, NEW v \in Values, DeviceChanges(s, v)
    PROVE  CapInv'
<1>1. /\ WireTypes /\ DeviceTypes /\ UNCHANGED <<recvBuf, task, caps, devFns>>
      /\ (Strong' => Strong) /\ caps \in Seq(General)
      /\ link = "up" => fromDevice' = fromDevice \o Report("RetParam", s, v)
    <2>1. spent'.late = spent.late /\ spent'.missed = spent.missed
        BY DEF DeviceChanges, Spend, IInv, DeviceTypes, Counts
    <2> QED BY <2>1 DEF IInv, EngineTypes, DeviceChanges, engineVars, Strong, Undisturbed
<1> SUFFICES ASSUME Strong, Strong' PROVE CapInv'
    BY <1>1 DEF CapInv
<1> DEFINE told == [type |-> "Data", body |-> Body("RetParam", s, v)]
<1>2. told \in Incomings /\ told \notin Acks /\ told \notin CapReports
    BY DEF Incomings, Reports, Body, Acks, AckFrame, CapReports
<1>3. Report("RetParam", s, v) = <<told>> /\ <<told>> \in Seq(Incomings)
    BY <1>2, OneElement DEF Report
<1> HIDE DEF told
<1>4. Replies \in Seq(Incomings) /\ Replies' = Append(Replies, told)
    <2>1. Replies \in Seq(Incomings) /\ Replies' = Replies \o <<told>>
        BY <1>1, <1>3, RepliesMore DEF Strong, Undisturbed
    <2>2. Append(Replies, told) = Replies \o <<told>>
        BY <1>2, <2>1, AppendIsConcat
    <2> QED BY <2>1, <2>2
<1>5. ASSUME Catalogue
      PROVE  /\ Listed(caps, Append(Replies, told)) /\ Prompt(Append(Replies, told), CapAsked)
             /\ \A r \in General : Offers(caps, Append(Replies, told), r) <=>
                                       Offers(caps, Replies, r)
             /\ At(Append(Replies, told), CapReports) = At(Replies, CapReports)
             /\ At(Append(Replies, told), Acks) = At(Replies, Acks)
    <2>1. Listed(caps, Replies) /\ Prompt(Replies, CapAsked)
        BY <1>5 DEF Catalogue
    <2> HIDE DEF Replies, CapAsked
    <2>2. /\ Listed(caps, Append(Replies, told))
          /\ \A r \in General : Offers(caps, Append(Replies, told), r) <=> Offers(caps, Replies, r)
        BY <1>1, <1>2, <1>4, <2>1, AnswerListed
    <2>3. /\ Prompt(Append(Replies, told), CapAsked)
          /\ At(Append(Replies, told), CapReports) = At(Replies, CapReports)
          /\ At(Append(Replies, told), Acks) = At(Replies, Acks)
        BY <1>2, <1>4, <2>1, PromptMore
    <2> QED BY <2>2, <2>3
<1> QED BY <1>1, <1>4, <1>5, SameCaps

\* A new engine asks for everything.
LEMMA AttachCaps ==
    ASSUME IInv, LineInv, Attach
    PROVE  CapInv'
<1>1. /\ link = "none" /\ StartTask(BuildInitSteps, support)
      /\ UNCHANGED <<support, caps, recvBuf, fromDevice>>
    BY DEF Attach, deviceVars
<1>2. Replies' = <<>> /\ caps' = <<>>
    <2>1. recvBuf = <<>> /\ fromDevice = <<>> /\ caps = <<>>
        BY <1>1 DEF LineInv, ConnectionInv, Fresh, NewEngine
    <2> QED BY <1>1, <2>1 DEF Replies
<1>3. task'.running /\ task'.steps = BuildInitSteps
    <2>1. BuildInitSteps \in Seq(Steps) /\ EndsInDone(BuildInitSteps)
          /\ BuildInitSteps[1].kind # "If"
        BY InitSteps, InitShaped
    <2>2. Unfold(BuildInitSteps, support) = BuildInitSteps
        BY <2>1, UnfoldOfRun
    <2> QED BY <1>1, <2>1, <2>2, StartGoesOn DEF GoesOn
<1>4. At(Replies', CapReports') = {} /\ At(Replies', Acks') = {} /\ \A s : ~Offered(s)'
    BY <1>2, AtNothing DEF Offered, Offers
<1>5. Listed(caps', Replies') /\ Prompt(Replies', CapAsked')
    <2>1. DOMAIN caps' = {}
        BY <1>2
    <2>2. At(Replies', CapReports) = {}
        BY <1>2, AtNothing
    <2> QED BY <2>1, <2>2 DEF Listed, Prompt
<1>6. \A s \in General : Wanted(s)' /\ ~Has(task'.steps, AskCap(s))
    BY <1>3, <1>4, InitReads, InitInTurn DEF Wanted
<1>7. Catalogue'
    BY <1>4, <1>5, <1>6 DEF Catalogue
<1> QED BY <1>3, <1>7, BuiltOrderly, InitInTurn DEF CapInv

\* Every step keeps the capabilities in their order.
LEMMA CapKept ==
    IInv /\ WaitInv /\ SupportInv /\ SupportInv' /\ CapInv /\ [Next]_vars => CapInv'
<1> SUFFICES ASSUME IInv, WaitInv, SupportInv, SupportInv', CapInv, [Next]_vars PROVE CapInv'
    OBVIOUS
<1>1. /\ WireTypes /\ EngineTypes /\ task \in Tasks /\ LineInv /\ spent \in [Counts -> Nat]
    BY DEF IInv, WireTypes, EngineTypes, DeviceTypes, WaitInv
<1>2. ASSUME NEW what \in Counts, NEW bound, Spend(what, bound)
      PROVE  /\ what # "late" => spent'.late = spent.late
             /\ what # "missed" => spent'.missed = spent.missed
             /\ spent'[what] = spent[what] + 1
    BY <1>1, <1>2 DEF Spend, Counts
<1>3. Counts = {"edits", "keys", "changes", "lost", "missed", "late", "breaks"}
    BY DEF Counts
<1>4. CASE /\ UNCHANGED <<task, caps, recvBuf, fromDevice, link, pending, devFns>>
           /\ spent'.late = spent.late /\ spent'.missed = spent.missed
    <2>1. (Strong' => Strong) /\ Replies' = Replies
        BY <1>4 DEF Strong, Undisturbed, Replies
    <2> QED BY <1>4, <2>1, QuietCaps
<1>5. CASE CloseConnection
    BY <1>5, NoTaskType DEF CloseConnection, DropEngine, CapInv, Strong, Undisturbed
<1>6. CASE EngineStep
    BY <1>6, EngineStepCaps
<1>7. /\ BuildSyncSteps \in Seq(Steps) /\ EndsInDone(BuildSyncSteps) /\ Orderly(BuildSyncSteps)
      /\ BuildCommitSteps \in Seq(Steps) /\ EndsInDone(BuildCommitSteps)
      /\ Orderly(BuildCommitSteps) /\ Mute(BuildSyncSteps) /\ Mute(BuildCommitSteps)
    BY <1>1, SyncSteps, CommitSteps, BuiltOrderly, SyncMute, CommitMute
<1>8. CASE Tick
    <2>1. CASE Teardown
        BY <1>5, <2>1 DEF Teardown
    <2>2. CASE ~Teardown
        <3>1. /\ AfterInit \/ AutoCommit \/ PeriodicSync \/ NothingDue
              /\ "Fatal" \notin pending
              /\ UNCHANGED <<caps, recvBuf, fromDevice, link, devFns, spent>>
            BY <1>8, <2>2 DEF Tick, deviceVars, wireVars
        <3>2. Strong' => Strong
            BY <3>1 DEF Strong, Undisturbed
        <3>3. CASE NothingDue
            <4>1. Replies' = Replies /\ task' = task
                BY <3>1, <3>3 DEF Replies, NothingDue
            <4> QED BY <3>1, <3>2, <4>1, QuietCaps
        <3>4. CASE AfterInit \/ PeriodicSync
            <4>1. IsReady /\ StartTask(BuildSyncSteps, support)
                BY <3>4 DEF AfterInit, PeriodicSync, StartSync
            <4> QED BY <1>7, <3>1, <3>2, <4>1, StartCaps
        <3>5. CASE AutoCommit
            <4>1. IsReady /\ StartTask(BuildCommitSteps, support)
                BY <3>5 DEF AutoCommit
            <4> QED BY <1>7, <3>1, <3>2, <4>1, StartCaps
        <3> QED BY <3>1, <3>3, <3>4, <3>5
    <2> QED BY <2>1, <2>2
<1>9. CASE Attach
    BY <1>1, <1>9, AttachCaps
<1>10. CASE Timeout
    <2>1. /\ task' = [task EXCEPT !.deadline = "passed"]
          /\ UNCHANGED <<caps, recvBuf, fromDevice, link, pending, devFns>>
        BY <1>10 DEF Timeout, DeadlinePasses, deviceVars, wireVars
    <2>2. /\ task'.running = task.running /\ task'.steps = task.steps
          /\ task'.wait = task.wait
        BY <1>1, <2>1 DEF Tasks
    <2>3. Strong' => Strong
        <3>1. spent'.missed = spent.missed /\ (spent'.late = 0 => spent.late = 0)
            <4>1. spent.late \in Nat
                BY <1>1, <1>3
            <4> QED BY <1>2, <1>3, <1>10, <4>1 DEF Timeout
        <3> QED BY <2>1, <3>1 DEF Strong, Undisturbed
    <2>4. Replies' = Replies
        BY <2>1 DEF Replies
    <2> QED BY <2>1, <2>2, <2>3, <2>4, QuietCaps
<1>11. CASE Device
    BY <1>11, DeviceCaps
<1>12. CASE User
    <2>1. ASSUME NEW s \in Settings, NEW v \in Values, Edit(s, v) PROVE CapInv'
        BY <1>2, <1>3, <1>4, <2>1 DEF Edit, deviceVars, wireVars
    <2>2. CASE \E k \in Keys : PressKey(k)
        BY <1>2, <1>3, <1>4, <2>2 DEF PressKey, deviceVars, wireVars
    <2>3. CASE RefreshSync
        <3>1. /\ IsReady /\ StartTask(BuildSyncSteps, support)
              /\ UNCHANGED <<caps, recvBuf, fromDevice, link, devFns, spent, pending>>
            BY <2>3 DEF RefreshSync, StartSync, deviceVars, wireVars
        <3>2. Strong' => Strong
            BY <3>1 DEF Strong, Undisturbed
        <3> QED BY <1>7, <3>1, <3>2, StartCaps
    <2>4. CASE Disconnect
        BY <1>5, <2>4 DEF Disconnect
    <2>5. \A i \in DOMAIN GeneralOrder : GeneralOrder[i] \in Settings
        BY OrderedSettings DEF Settings
    <2> QED BY <1>12, <2>1, <2>2, <2>3, <2>4, <2>5 DEF User, EditGeneral, Settings
<1>13. CASE Environment
    <2>1. CASE LoseCommand
        <3>1. spent'.late = spent.late /\ spent'.missed = spent.missed
            BY <1>2, <1>3, <2>1 DEF LoseCommand
        <3>2. UNCHANGED <<task, caps, recvBuf, fromDevice, link, pending, devFns>>
            BY <2>1 DEF LoseCommand, engineVars, deviceVars
        <3> QED BY <1>4, <3>1, <3>2
    <2>2. CASE LoseAnswer
        <3>1. /\ spent'.missed = spent.missed + 1 /\ spent.missed \in Nat /\ task' = task
            BY <1>1, <1>2, <1>3, <2>2 DEF LoseAnswer, engineVars
        <3>2. ~Strong'
            BY <3>1 DEF Strong
        <3> QED BY <3>1, <3>2 DEF CapInv
    <2>3. ASSUME NEW s \in Settings, NEW v \in Values, DeviceChanges(s, v)
          PROVE  CapInv'
        BY <2>3, ChangeCaps
    <2>4. CASE LinkBreaks
        BY <2>4 DEF LinkBreaks, CapInv, Strong, Undisturbed, engineVars
    <2> QED BY <1>13, <2>1, <2>2, <2>3, <2>4 DEF Environment
<1>14. CASE UNCHANGED vars
    BY <1>4, <1>14 DEF vars, engineVars, wireVars, deviceVars
<1> QED BY <1>6, <1>8, <1>9, <1>10, <1>11, <1>12, <1>13, <1>14 DEF Next

LEMMA CapInvariance == Spec => [](IInv /\ CapInv)
<1>1. Init => CapInv
    BY NoTaskType DEF Init, NewEngine, CapInv, Strong, Undisturbed
<1>2. IInv /\ WaitInv /\ SupportInv /\ SupportInv' /\ CapInv /\ [Next]_vars => CapInv'
    BY CapKept
<1> QED BY <1>1, <1>2, WaitInvariance, SupportInvariance, PTL DEF Spec

\* Entries in the order of the settings, one for each that the headphones have:
\* if those are the first settings without a gap, entry i is setting i.
LEMMA EntryByPlace ==
    ASSUME caps \in Seq(General), NoGap,
           \A s \in General : s \in devFns <=> \E i \in DOMAIN caps : caps[i] = s,
           \A i, j \in DOMAIN caps : i < j => Precedes(caps[i], caps[j]),
           NEW n \in DOMAIN caps
    PROVE  n \in DOMAIN GeneralOrder /\ caps[n] = GeneralOrder[n]
<1> DEFINE Wrong == {i \in DOMAIN caps :
                        ~(i \in DOMAIN GeneralOrder /\ caps[i] = GeneralOrder[i])}
<1>1. /\ DOMAIN caps = 1..Len(caps) /\ Len(caps) \in Nat
      /\ DOMAIN GeneralOrder = 1..Len(GeneralOrder) /\ Len(GeneralOrder) \in Nat
      /\ \A i \in DOMAIN caps : caps[i] \in General
    BY OrderedSettings, LenProperties, ElementOfSeq
<1>0. SUFFICES ASSUME Wrong # {} PROVE FALSE
    OBVIOUS
<1>2. PICK i \in Wrong : \A j \in Wrong : i <= j
    <2>1. Wrong \in SUBSET Nat
        BY <1>1
    <2> HIDE DEF Wrong
    <2> QED BY <1>0, <2>1, LeastElement
<1>3. \A j \in DOMAIN caps : j < i => j \in DOMAIN GeneralOrder /\ caps[j] = GeneralOrder[j]
    BY <1>1, <1>2
<1>4. PICK k \in DOMAIN GeneralOrder : GeneralOrder[k] = caps[i]
    BY <1>1, <1>2, OrderAssumption DEF IsOrderOf
<1>5. \A j, l \in DOMAIN GeneralOrder : GeneralOrder[j] = GeneralOrder[l] => j = l
    BY OrderAssumption DEF IsOrderOf
<1>6. k # i
    BY <1>2, <1>4
<1>7. CASE k < i
    <2>1. k \in DOMAIN caps /\ caps[k] = caps[i]
        BY <1>1, <1>2, <1>3, <1>4, <1>7
    <2>2. Precedes(caps[i], caps[i])
        BY <1>2, <1>7, <2>1
    <2> QED BY <2>2, NotBeforeItself
<1>8. CASE i < k
    <2>1. i \in DOMAIN GeneralOrder /\ GeneralOrder[i] \in General
        BY <1>1, <1>2, <1>8, OrderedSettings, ElementOfSeq
    <2>2. Precedes(GeneralOrder[i], caps[i])
        BY <1>4, <1>8, <2>1 DEF Precedes
    <2>3. caps[i] \in General /\ caps[i] \in devFns
        BY <1>1, <1>2
    <2>4. PICK j \in DOMAIN caps : caps[j] = GeneralOrder[i]
        BY <2>1, <2>2, <2>3 DEF NoGap
    <2>5. CASE j < i
        BY <1>1, <1>2, <1>3, <1>5, <2>1, <2>4, <2>5
    <2>6. CASE j = i
        BY <1>2, <2>1, <2>4, <2>6
    <2>7. CASE i < j
        <3>1. Precedes(caps[i], GeneralOrder[i])
            BY <1>2, <2>4, <2>7
        <3>2. PICK a \in DOMAIN GeneralOrder, b \in DOMAIN GeneralOrder :
                  a < b /\ GeneralOrder[a] = caps[i] /\ GeneralOrder[b] = GeneralOrder[i]
            BY <3>1 DEF Precedes
        <3>3. a = k /\ b = i
            BY <1>4, <1>5, <2>1, <3>2
        <3> QED BY <1>1, <1>8, <2>1, <3>2, <3>3
    <2> QED BY <1>1, <1>2, <2>5, <2>6, <2>7
<1> QED BY <1>1, <1>2, <1>6, <1>7, <1>8

\* While no answer is late or lost, whatever is lost on the way to the
\* headphones and asked for again: a connection that has its init handshake
\* behind it has the capability of each general setting the headphones have,
\* once, in the order of the settings (request_init asks for each in turn and
\* reads its value before the next; handle_frame pushes what comes, without
\* looking for what is there).  Entry i of the settings menu sets setting i: that
\* is the one it names when the headphones have the first settings without a gap.
THEOREM MenuInOrder ==
    Spec => [](spent.missed = 0 => CapabilityPerSetting)
<1>1. IInv /\ CapInv => (spent.missed = 0 => CapabilityPerSetting)
    <2> SUFFICES ASSUME IInv, CapInv, spent.late = 0, spent.missed = 0, Established
                 PROVE  /\ \A i \in DOMAIN caps : caps[i] \in devFns
                        /\ \A i, j \in DOMAIN caps : i < j => Precedes(caps[i], caps[j])
                        /\ Cardinality(Repeated) + Cardinality(Absent) <= spent.missed
                        /\ NoGap => \A i \in DOMAIN caps :
                               i \in DOMAIN GeneralOrder /\ caps[i] = GeneralOrder[i]
        BY DEF CapabilityPerSetting
    <2>1. Catalogue /\ ~task.running
        BY DEF CapInv, Strong, Undisturbed, Established, IsReady
    <2>2. At(Replies, CapReports) = {} /\ \A s \in General : ~Wanted(s)
        BY <2>1 DEF Catalogue, Wanted
    <2>3. \A s : Offered(s) <=> \E i \in DOMAIN caps : caps[i] = s
        BY <2>2 DEF Offered, Offers
    <2>4. caps \in Seq(General) /\ \A i \in DOMAIN caps : caps[i] \in General
        BY LenProperties, ElementOfSeq DEF IInv, EngineTypes
    <2>5. \A s \in General : s \in devFns <=> \E i \in DOMAIN caps : caps[i] = s
        BY <2>1, <2>2, <2>3 DEF Catalogue
    <2>6. \A i, j \in DOMAIN caps : i < j => Precedes(caps[i], caps[j])
        BY <2>1 DEF Catalogue, Listed
    <2>7. Repeated = {}
        <3> SUFFICES ASSUME NEW i \in DOMAIN caps, NEW j \in 1..(i - 1), caps[j] = caps[i]
                     PROVE  FALSE
            BY DEF Repeated
        <3>1. j \in DOMAIN caps /\ j < i
            BY <2>4, LenProperties
        <3>2. Precedes(caps[i], caps[i])
            BY <2>6, <3>1
        <3> QED BY <3>2, NotBeforeItself
    <2>8. Absent = {}
        BY <2>5 DEF Absent
    <2>9. Cardinality(Repeated) + Cardinality(Absent) <= spent.missed
        BY <2>7, <2>8, FS_EmptySet
    <2> QED BY <2>4, <2>5, <2>6, <2>9, EntryByPlace
<1> QED BY <1>1, CapInvariance, PTL
=============================================================================
