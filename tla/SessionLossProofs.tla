------------------------- MODULE SessionLossProofs --------------------------
(***************************************************************************)
(* The alternating sequence number of Session: no frame is dropped as a    *)
(* repeat that was not paid for by a frame lost before, for any number of  *)
(* frames, losses, retries and late answers.                               *)
(***************************************************************************)
EXTENDS SessionProofs

\* No data frame lies strictly between two positions of a line.
NoDataBetween(line, i, j) ==
    \A k \in DOMAIN line : i < k /\ k < j => line[k].type # "Data"

\* Position 0 is the frame the headphones took last, with number first, and
\* position Len(line) + 1 the frame the engine sends next, with number next.
IsData(line, i)              == i \in DOMAIN line => line[i].type = "Data"
Number(line, first, next, i) ==
    IF i = 0 THEN first ELSE IF i \in DOMAIN line THEN line[i].seq ELSE next

\* Two data frames in a row with the same number: the second is a repeat to
\* headphones that took the first.
Repeats(line, first, next, i, j) ==
    /\ i < j /\ IsData(line, i) /\ IsData(line, j)
    /\ NoDataBetween(line, i, j)
    /\ Number(line, first, next, i) = Number(line, first, next, j)

Positions(line) == 0..(Len(line) + 1)

\* How many drops the headphones are in for by each position of the line: at
\* least as many as there are repeats up to it.
Bills(line, first, next, bill) ==
    /\ \A i, j \in Positions(line) : i <= j => bill[i] <= bill[j]
    /\ \A i, j \in Positions(line) :
           Repeats(line, first, next, i, j) => bill[i] < bill[j]

\* The drops so far and those to come do not exceed the losses so far.
Paid(line, first, next, drops, losses) ==
    \E bill \in [Positions(line) -> drops..losses] : Bills(line, first, next, bill)

\* A connection that is not up delivers nothing, and one that is not there
\* finds engine and headphones as they were made.
Fresh ==
    /\ NewEngine
    /\ devSeq = None /\ ran = 0 /\ built = 0

ConnectionInv ==
    /\ link # "up" => toDevice = <<>> /\ fromDevice = <<>>
    /\ link = "none" => Fresh

\* With a connection, the sequence numbers that are under way are paid for.
LineInv ==
    /\ ConnectionInv
    /\ dropped <= spent.lost
    /\ link = "up" => Paid(Line, devSeq, txSeq, dropped, spent.lost)

---------------------------------------------------------------------------
(* What happens to a line *)

\* Tail of a concatenation whose first part is not empty.
LEMMA TailOfConcat ==
    ASSUME NEW S, NEW u \in Seq(S), NEW v \in Seq(S), u # <<>>
    PROVE  u \o v # <<>> /\ Head(u \o v) = Head(u) /\ Tail(u) \o v = Tail(u \o v)
           /\ u \o v \in Seq(S)
<1> DEFINE w == u \o v
<1>1. Len(u) \in Nat \ {0} /\ Len(v) \in Nat
    BY EmptySeq, LenProperties
<1>2. /\ w \in Seq(S) /\ Len(w) = Len(u) + Len(v)
      /\ \A k \in 1..Len(w) : w[k] = IF k <= Len(u) THEN u[k] ELSE v[k - Len(u)]
    BY ConcatProperties
<1>3. w # <<>> /\ Head(w) = Head(u)
    BY <1>1, <1>2, EmptySeq
<1>4. /\ Tail(u) \in Seq(S) /\ Len(Tail(u)) = Len(u) - 1
      /\ \A k \in 1..(Len(u) - 1) : Tail(u)[k] = u[k + 1]
    BY HeadTailProperties
<1> HIDE DEF w
<1>5. /\ Tail(w) \in Seq(S) /\ Len(Tail(w)) = Len(w) - 1
      /\ \A k \in 1..(Len(w) - 1) : Tail(w)[k] = w[k + 1]
    BY <1>2, <1>3, HeadTailProperties
<1> DEFINE x == Tail(u) \o v
<1>6. /\ x \in Seq(S) /\ Len(x) = Len(w) - 1
      /\ \A k \in 1..(Len(w) - 1) :
             x[k] = IF k <= Len(u) - 1 THEN Tail(u)[k] ELSE v[k - (Len(u) - 1)]
    BY <1>1, <1>2, <1>4, ConcatProperties
<1> HIDE DEF x
<1>7. \A k \in 1..(Len(w) - 1) : x[k] = Tail(w)[k]
    <2> SUFFICES ASSUME NEW k \in 1..(Len(w) - 1) PROVE x[k] = w[k + 1]
        BY <1>5
    <2>1. k + 1 \in 1..Len(w) /\ (k + 1) - Len(u) = k - (Len(u) - 1)
        BY <1>1, <1>2
    <2>2. CASE k <= Len(u) - 1
        <3>1. k \in 1..(Len(u) - 1) /\ k + 1 <= Len(u)
            BY <1>1, <2>2
        <3>2. x[k] = u[k + 1] /\ w[k + 1] = u[k + 1]
            BY <1>2, <1>4, <1>6, <2>1, <2>2, <3>1
        <3> QED BY <3>2
    <2>3. CASE ~(k <= Len(u) - 1)
        <3>1. ~(k + 1 <= Len(u))
            BY <1>1, <2>3
        <3>2. x[k] = v[k - (Len(u) - 1)]
            BY <1>6, <2>3
        <3>3. w[k + 1] = v[(k + 1) - Len(u)]
            BY <1>2, <2>1, <3>1
        <3> QED BY <2>1, <3>2, <3>3
    <2> QED BY <2>2, <2>3
<1>8. x = Tail(w)
    BY <1>5, <1>6, <1>7, SeqEqual
<1> QED BY <1>2, <1>3, <1>8 DEF w, x

\* A position of a line with one frame more.
LEMMA AppendedLine ==
    ASSUME NEW line \in Seq(Outgoing), NEW frame \in Outgoing,
           NEW first, NEW next, NEW after
    PROVE  LET more == Append(line, frame) IN
           /\ Positions(more) = Positions(line) \union {Len(line) + 2}
           /\ Len(more) = Len(line) + 1 /\ Len(line) \in Nat
           /\ DOMAIN line = 1..Len(line) /\ DOMAIN more = 1..(Len(line) + 1)
           /\ \A k \in 1..Len(line) : more[k] = line[k]
           /\ more[Len(line) + 1] = frame
<1> DEFINE more == Append(line, frame)
<1>1. /\ Len(more) = Len(line) + 1 /\ Len(line) \in Nat
      /\ DOMAIN line = 1..Len(line) /\ DOMAIN more = 1..Len(more)
      /\ \A k \in 1..Len(line) : more[k] = line[k]
      /\ more[Len(line) + 1] = frame
    BY AppendProperties, LenProperties
<1> HIDE DEF more
<1>2. Positions(more) = Positions(line) \union {Len(line) + 2}
    BY <1>1 DEF Positions
<1> QED BY <1>1, <1>2 DEF more

\* An ACK sent in between costs nothing.
LEMMA PaidAck ==
    ASSUME NEW line \in Seq(Outgoing), NEW first, NEW next,
           NEW drops \in Nat, NEW losses \in Nat,
           Paid(line, first, next, drops, losses)
    PROVE  Paid(Append(line, AckFrame), first, next, drops, losses)
<1> DEFINE more == Append(line, AckFrame)
           n == Len(line)
<1>1. PICK bill \in [Positions(line) -> drops..losses] : Bills(line, first, next, bill)
    BY DEF Paid
<1> DEFINE old(i) == IF i <= n THEN i ELSE n + 1
           new == [i \in Positions(more) |-> bill[old(i)]]
<1>2. /\ Positions(more) = Positions(line) \union {n + 2}
      /\ Len(more) = n + 1 /\ n \in Nat
      /\ DOMAIN line = 1..n /\ DOMAIN more = 1..(n + 1)
      /\ \A k \in 1..n : more[k] = line[k]
      /\ more[n + 1] = AckFrame
    <2>1. AckFrame \in Outgoing
        BY DEF Outgoing
    <2> QED BY <2>1, AppendedLine
<1> HIDE DEF more, n
<1>3. Positions(line) = 0..(n + 1) /\ Positions(more) = 0..(n + 2)
    BY <1>2 DEF Positions, n
<1>4. \A i \in Positions(more) : old(i) \in Positions(line)
    BY <1>2, <1>3
<1>5. new \in [Positions(more) -> drops..losses]
    BY <1>4
<1>6. \A i, j \in Positions(more) : i <= j => new[i] <= new[j]
    <2> SUFFICES ASSUME NEW i \in Positions(more), NEW j \in Positions(more), i <= j
                 PROVE  bill[old(i)] <= bill[old(j)]
        OBVIOUS
    <2>1. old(i) <= old(j)
        BY <1>2, <1>3
    <2> QED BY <1>1, <1>4, <2>1 DEF Bills
<1>7. \A i, j \in Positions(more) : Repeats(more, first, next, i, j) => new[i] < new[j]
    <2> SUFFICES ASSUME NEW i \in Positions(more), NEW j \in Positions(more),
                        Repeats(more, first, next, i, j)
                 PROVE  bill[old(i)] < bill[old(j)]
        OBVIOUS
    <2>0. more[n + 1].type # "Data" /\ i < j
        BY <1>2 DEF AckFrame, Repeats
    <2>1. i # n + 1 /\ j # n + 1
        BY <1>2, <2>0 DEF Repeats, IsData
    <2>2. i <= n /\ old(i) = i /\ i < old(j) /\ (j <= n => old(j) = j)
          /\ (j > n => j = n + 2 /\ old(j) = n + 1)
        BY <1>2, <1>3, <2>0, <2>1
    <2>3. IsData(line, i) /\ IsData(line, old(j))
        BY <1>2, <1>3, <2>2 DEF Repeats, IsData
    <2>4. NoDataBetween(line, i, old(j))
        BY <1>2, <1>3, <2>2 DEF Repeats, NoDataBetween
    <2>5. Number(line, first, next, i) = Number(more, first, next, i)
        BY <1>2, <1>3, <2>2 DEF Number
    <2>6. Number(line, first, next, old(j)) = Number(more, first, next, j)
        BY <1>2, <1>3, <2>0, <2>2 DEF Number
    <2>7. Repeats(line, first, next, i, old(j))
        BY <2>2, <2>3, <2>4, <2>5, <2>6 DEF Repeats
    <2> HIDE DEF old
    <2> QED BY <1>1, <1>4, <2>2, <2>7 DEF Bills
<1> QED BY <1>5, <1>6, <1>7 DEF Paid, Bills, more

\* A data frame takes the number that is next; the one after it differs.
LEMMA PaidData ==
    ASSUME NEW line \in Seq(Outgoing), NEW first, NEW next \in 0..1,
           NEW drops \in Nat, NEW losses \in Nat, NEW body \in Requests,
           Paid(line, first, next, drops, losses)
    PROVE  Paid(Append(line, DataFrame(next, body)), first, 1 - next, drops, losses)
<1> DEFINE frame == DataFrame(next, body)
           more == Append(line, frame)
           n == Len(line)
<1>1. PICK bill \in [Positions(line) -> drops..losses] : Bills(line, first, next, bill)
    BY DEF Paid
<1> DEFINE old(i) == IF i <= n THEN i ELSE n + 1
           new == [i \in Positions(more) |-> bill[old(i)]]
<1>2. /\ Positions(more) = Positions(line) \union {n + 2}
      /\ Len(more) = n + 1 /\ n \in Nat
      /\ DOMAIN line = 1..n /\ DOMAIN more = 1..(n + 1)
      /\ \A k \in 1..n : more[k] = line[k]
      /\ more[n + 1] = frame
    <2>1. frame \in Outgoing
        BY DEF Outgoing, DataFrame
    <2> HIDE DEF frame
    <2> QED BY <2>1, AppendedLine
<1>3. frame.type = "Data" /\ frame.seq = next
    BY DEF DataFrame
<1> HIDE DEF more, n, frame
<1>4. Positions(line) = 0..(n + 1) /\ Positions(more) = 0..(n + 2)
    BY <1>2 DEF Positions, n
<1>5. \A i \in Positions(more) : old(i) \in Positions(line)
    BY <1>2, <1>4
<1>6. new \in [Positions(more) -> drops..losses]
    BY <1>5
<1>7. \A i, j \in Positions(more) : i <= j => new[i] <= new[j]
    <2> SUFFICES ASSUME NEW i \in Positions(more), NEW j \in Positions(more), i <= j
                 PROVE  bill[old(i)] <= bill[old(j)]
        OBVIOUS
    <2>1. old(i) <= old(j)
        BY <1>2, <1>4
    <2> QED BY <1>1, <1>5, <2>1 DEF Bills
<1>8. \A i, j \in Positions(more) :
          Repeats(more, first, 1 - next, i, j) => new[i] < new[j]
    <2> SUFFICES ASSUME NEW i \in Positions(more), NEW j \in Positions(more),
                        Repeats(more, first, 1 - next, i, j)
                 PROVE  bill[old(i)] < bill[old(j)]
        OBVIOUS
    <2>1. j # n + 2
        <3> SUFFICES ASSUME j = n + 2 PROVE FALSE
            OBVIOUS
        <3>1. Number(more, first, 1 - next, j) = 1 - next
            BY <1>2 DEF Number
        <3>2. i < n + 2 /\ i \in 0..(n + 2) /\ NoDataBetween(more, i, n + 2)
            BY <1>4 DEF Repeats
        <3>3. n + 1 \in DOMAIN more /\ more[n + 1].type = "Data" /\ n + 1 < n + 2
            BY <1>2, <1>3
        <3>4. ~(i < n + 1)
            BY <3>2, <3>3 DEF NoDataBetween
        <3>5. i = n + 1
            BY <1>2, <3>2, <3>4
        <3>6. Number(more, first, 1 - next, i) = next
            BY <1>2, <1>3, <3>5 DEF Number
        <3> QED BY <3>1, <3>6 DEF Repeats
    <2>2. i < j /\ i <= n /\ j <= n + 1 /\ old(i) = i /\ old(j) = j
        BY <1>2, <1>4, <2>1 DEF Repeats
    <2>3. IsData(line, i) /\ IsData(line, j) /\ NoDataBetween(line, i, j)
        <3>1. \A k \in DOMAIN line : k \in DOMAIN more /\ more[k] = line[k]
            BY <1>2
        <3>2. IsData(line, i) /\ IsData(line, j)
            BY <3>1 DEF Repeats, IsData
        <3>3. NoDataBetween(line, i, j)
            BY <3>1 DEF Repeats, NoDataBetween
        <3> QED BY <3>2, <3>3
    <2>4. Number(line, first, next, i) = Number(more, first, 1 - next, i)
        BY <1>2, <1>4, <2>2 DEF Number
    <2>5. Number(line, first, next, j) = Number(more, first, 1 - next, j)
        <3>1. j \in 1..(n + 1) /\ j # 0
            BY <1>2, <1>4, <2>2
        <3>2. CASE j \in 1..n
            BY <1>2, <3>1, <3>2 DEF Number
        <3>3. CASE j \notin 1..n
            <4>1. j = n + 1
                BY <1>2, <3>1, <3>3
            <4>2. j \in DOMAIN more /\ more[j].seq = next
                BY <1>2, <1>3, <3>1, <4>1
            <4>3. Number(more, first, 1 - next, j) = next
                BY <3>1, <4>2 DEF Number
            <4>4. Number(line, first, next, j) = next
                BY <1>2, <3>1, <3>3 DEF Number
            <4> QED BY <4>3, <4>4
        <3> QED BY <3>2, <3>3
    <2>6. Repeats(line, first, next, i, j)
        BY <2>2, <2>3, <2>4, <2>5 DEF Repeats
    <2> HIDE DEF old
    <2> QED BY <1>1, <1>5, <2>2, <2>6 DEF Bills
<1> QED BY <1>6, <1>7, <1>8 DEF Paid, Bills, more, frame

\* The first frame leaves the line.  It was taken, dropped or lost: the next
\* frame is a repeat at most where the headphones would have had one anyway,
\* and losses pay for the rest.
LEMMA RestOfLine ==
    ASSUME NEW line \in Seq(Outgoing), line # <<>>
    PROVE  LET rest == Tail(line) IN
           /\ Len(rest) = Len(line) - 1 /\ Len(line) \in Nat \ {0}
           /\ DOMAIN line = 1..Len(line) /\ DOMAIN rest = 1..(Len(line) - 1)
           /\ \A k \in 1..(Len(line) - 1) : rest[k] = line[k + 1]
           /\ Positions(line) = 0..(Len(line) + 1) /\ Positions(rest) = 0..Len(line)
           /\ Head(line) = line[1]
<1> DEFINE rest == Tail(line)
<1>1. /\ Len(rest) = Len(line) - 1 /\ Len(line) \in Nat \ {0}
      /\ DOMAIN line = 1..Len(line) /\ DOMAIN rest = 1..Len(rest)
      /\ \A k \in 1..Len(rest) : rest[k] = line[k + 1]
      /\ Head(line) = line[1]
    BY HeadTailProperties, LenProperties, EmptySeq
<1> HIDE DEF rest
<1> QED BY <1>1 DEF Positions, rest

\* Behind the first position the repeats stay the same.
LEMMA RepeatsBehind ==
    ASSUME NEW line \in Seq(Outgoing), line # <<>>, NEW first, NEW next, NEW taken,
           NEW i \in Positions(Tail(line)), NEW j \in Positions(Tail(line)),
           Repeats(Tail(line), taken, next, i, j), i > 0
    PROVE  Repeats(line, first, next, i + 1, j + 1)
<1> DEFINE rest == Tail(line)
           n == Len(line)
<1>1. /\ n \in Nat \ {0}
      /\ DOMAIN line = 1..n /\ DOMAIN rest = 1..(n - 1)
      /\ \A k \in 1..(n - 1) : rest[k] = line[k + 1]
      /\ Positions(rest) = 0..n
    BY RestOfLine
<1>2. Repeats(rest, taken, next, i, j) /\ i \in 1..n /\ j \in 1..n /\ i < j
    BY <1>1 DEF Repeats
<1> HIDE DEF rest, n
<1>3. IsData(line, i + 1) /\ IsData(line, j + 1)
    BY <1>1, <1>2 DEF Repeats, IsData
<1>4. NoDataBetween(line, i + 1, j + 1)
    <2> SUFFICES ASSUME NEW k \in DOMAIN line, i + 1 < k, k < j + 1
                 PROVE  line[k].type # "Data"
        BY DEF NoDataBetween
    <2>1. k - 1 \in DOMAIN rest /\ i < k - 1 /\ k - 1 < j /\ rest[k - 1] = line[k]
        BY <1>1, <1>2
    <2> QED BY <1>2, <2>1 DEF Repeats, NoDataBetween
<1>5. \A x \in 1..n : Number(line, first, next, x + 1) = Number(rest, taken, next, x)
    BY <1>1 DEF Number
<1> QED BY <1>1, <1>2, <1>3, <1>4, <1>5 DEF Repeats

\* A data frame that is taken is the last one taken then; an ACK is not.
Latest(line) == IF Head(line).type = "Data" THEN 1 ELSE 0

\* A repeat of the last one taken was one before.
LEMMA RepeatsOfTaken ==
    ASSUME NEW line \in Seq(Outgoing), line # <<>>, NEW first, NEW next, NEW taken,
           NEW i \in Positions(Tail(line)), NEW j \in Positions(Tail(line)),
           Repeats(Tail(line), taken, next, i, j), i = 0,
           IF Head(line).type = "Data" THEN taken = Head(line).seq ELSE taken = first
    PROVE  Repeats(line, first, next, Latest(line), j + 1)
<1> DEFINE rest == Tail(line)
           n == Len(line)
<1>1. /\ n \in Nat \ {0}
      /\ DOMAIN line = 1..n /\ DOMAIN rest = 1..(n - 1)
      /\ \A k \in 1..(n - 1) : rest[k] = line[k + 1]
      /\ Positions(rest) = 0..n /\ Head(line) = line[1]
    BY RestOfLine
<1>2. Repeats(rest, taken, next, 0, j) /\ j \in 1..n
    BY <1>1 DEF Repeats
<1> HIDE DEF rest, n
<1> DEFINE x == Latest(line)
<1>3. x \in 0..1 /\ x < j + 1 /\ IsData(line, x) /\ IsData(line, j + 1)
    BY <1>1, <1>2 DEF Repeats, IsData, Latest
<1>4. NoDataBetween(line, x, j + 1)
    <2> SUFFICES ASSUME NEW k \in DOMAIN line, x < k, k < j + 1
                 PROVE  line[k].type # "Data"
        BY DEF NoDataBetween
    <2>1. CASE k = 1
        BY <1>1, <2>1 DEF Latest
    <2>2. CASE k > 1
        <3>1. k - 1 \in DOMAIN rest /\ 0 < k - 1 /\ k - 1 < j /\ rest[k - 1] = line[k]
            BY <1>1, <1>2, <2>2
        <3> QED BY <1>2, <3>1 DEF Repeats, NoDataBetween
    <2> QED BY <1>1, <2>1, <2>2
<1>5. Number(line, first, next, j + 1) = Number(rest, taken, next, j)
    BY <1>1, <1>2 DEF Number
<1>6. Number(line, first, next, x) = Number(rest, taken, next, 0)
    BY <1>1 DEF Number, Latest
<1> HIDE DEF x
<1> QED BY <1>2, <1>3, <1>4, <1>5, <1>6 DEF Repeats, x

LEMMA PaidTaken ==
    ASSUME NEW line \in Seq(Outgoing), line # <<>>, NEW first, NEW next, NEW taken,
           NEW drops \in Nat, NEW losses \in Nat,
           Paid(line, first, next, drops, losses),
           IF Head(line).type = "Data" THEN taken = Head(line).seq ELSE taken = first
    PROVE  Paid(Tail(line), taken, next, drops, losses)
<1> DEFINE rest == Tail(line)
           n == Len(line)
<1>1. PICK bill \in [Positions(line) -> drops..losses] : Bills(line, first, next, bill)
    BY DEF Paid
<1> DEFINE at(i) == IF i = 0 THEN Latest(line) ELSE i + 1
           new == [i \in Positions(rest) |-> bill[at(i)]]
<1>2. Positions(line) = 0..(n + 1) /\ Positions(rest) = 0..n /\ n \in Nat
    BY RestOfLine
<1> HIDE DEF rest
<1>3. Latest(line) \in 0..1 /\ \A i \in Positions(rest) : at(i) \in Positions(line)
    BY <1>2 DEF Latest
<1>4. \A i, j \in Positions(rest) : i <= j => new[i] <= new[j]
    <2>1. \A i, j \in Positions(rest) : i <= j => at(i) <= at(j)
        BY <1>2, <1>3
    <2> HIDE DEF at
    <2> QED BY <1>1, <1>3, <2>1 DEF Bills
<1>5. \A i, j \in Positions(rest) : Repeats(rest, taken, next, i, j) => new[i] < new[j]
    <2> SUFFICES ASSUME NEW i \in Positions(rest), NEW j \in Positions(rest),
                        Repeats(rest, taken, next, i, j)
                 PROVE  new[i] < new[j]
        OBVIOUS
    <2>0. j > 0 /\ at(j) = j + 1
        BY <1>2 DEF Repeats
    <2>1. CASE i > 0
        <3>1. Repeats(line, first, next, i + 1, j + 1)
            BY <2>1, RepeatsBehind DEF rest
        <3> QED BY <1>1, <1>2, <2>0, <2>1, <3>1 DEF Bills
    <2>2. CASE i = 0
        <3>1. Repeats(line, first, next, at(i), j + 1)
            BY <2>2, RepeatsOfTaken DEF rest
        <3>2. at(i) \in Positions(line) /\ j + 1 \in Positions(line)
            BY <1>2, <1>3
        <3> HIDE DEF at
        <3> QED BY <1>1, <2>0, <3>1, <3>2 DEF Bills
    <2> QED BY <1>2, <2>1, <2>2
<1>6. new \in [Positions(rest) -> drops..losses]
    <2> HIDE DEF at
    <2> QED BY <1>3
<1> HIDE DEF new
<1> QED BY <1>4, <1>5, <1>6 DEF Paid, Bills, rest

\* The repeat the headphones drop was on the bill.
LEMMA PaidDropped ==
    ASSUME NEW line \in Seq(Outgoing), line # <<>>, NEW first, NEW next,
           NEW drops \in Nat, NEW losses \in Nat,
           Paid(line, first, next, drops, losses),
           Head(line).type = "Data", Head(line).seq = first
    PROVE  Paid(Tail(line), first, next, drops + 1, losses)
<1> DEFINE rest == Tail(line)
           n == Len(line)
<1>1. PICK bill \in [Positions(line) -> drops..losses] : Bills(line, first, next, bill)
    BY DEF Paid
<1> DEFINE new == [i \in Positions(rest) |-> bill[i + 1]]
<1>2. /\ Positions(line) = 0..(n + 1) /\ Positions(rest) = 0..n /\ n \in Nat \ {0}
      /\ DOMAIN line = 1..n /\ Head(line) = line[1]
    BY RestOfLine
<1>3. Repeats(line, first, next, 0, 1)
    BY <1>2 DEF Repeats, IsData, NoDataBetween, Number
<1> HIDE DEF rest
<1>4. new \in [Positions(rest) -> (drops + 1)..losses]
    <2>1. bill[0] < bill[1] /\ bill[0] >= drops
        BY <1>1, <1>2, <1>3 DEF Bills
    <2>2. \A i \in Positions(rest) : bill[1] <= bill[i + 1] /\ bill[i + 1] \in drops..losses
        BY <1>1, <1>2 DEF Bills
    <2>3. bill[0] \in Int /\ bill[1] \in Int
        BY <1>1, <1>2
    <2>4. \A i \in Positions(rest) : bill[i + 1] \in (drops + 1)..losses
        BY <2>1, <2>2, <2>3
    <2> QED BY <2>4
<1>5. \A i, j \in Positions(rest) : i <= j => new[i] <= new[j]
    BY <1>1, <1>2 DEF Bills
<1>6. \A i, j \in Positions(rest) : Repeats(rest, first, next, i, j) => new[i] < new[j]
    <2> SUFFICES ASSUME NEW i \in Positions(rest), NEW j \in Positions(rest),
                        Repeats(rest, first, next, i, j)
                 PROVE  bill[i + 1] < bill[j + 1]
        OBVIOUS
    <2>1. CASE i > 0
        <3>1. Repeats(line, first, next, i + 1, j + 1)
            BY <2>1, RepeatsBehind DEF rest
        <3> QED BY <1>1, <1>2, <3>1 DEF Bills
    <2>2. CASE i = 0
        <3>1. Repeats(line, first, next, 1, j + 1)
            BY <2>2, RepeatsOfTaken DEF rest, Latest
        <3> QED BY <1>1, <1>2, <2>2, <3>1 DEF Bills
    <2> QED BY <1>2, <2>1, <2>2
<1> HIDE DEF new
<1> QED BY <1>4, <1>5, <1>6 DEF Paid, Bills, rest

\* A lost frame makes one repeat more at most: its neighbours meet.
LEMMA PaidLost ==
    ASSUME NEW line \in Seq(Outgoing), line # <<>>, NEW first, NEW next,
           NEW drops \in Nat, NEW losses \in Nat,
           Paid(line, first, next, drops, losses)
    PROVE  Paid(Tail(line), first, next, drops, losses + 1)
<1> DEFINE rest == Tail(line)
           n == Len(line)
<1>1. PICK bill \in [Positions(line) -> drops..losses] : Bills(line, first, next, bill)
    BY DEF Paid
<1> DEFINE new == [i \in Positions(rest) |-> IF i = 0 THEN bill[0] ELSE bill[i + 1] + 1]
<1>2. /\ Positions(line) = 0..(n + 1) /\ Positions(rest) = 0..n /\ n \in Nat \ {0}
    BY RestOfLine
<1> HIDE DEF rest
<1>3. \A i \in Positions(line) : bill[i] \in drops..losses /\ bill[0] <= bill[i]
    BY <1>1, <1>2 DEF Bills
<1>4. new \in [Positions(rest) -> drops..(losses + 1)]
    BY <1>2, <1>3
<1>5. \A i, j \in Positions(rest) : i <= j => new[i] <= new[j]
    <2> SUFFICES ASSUME NEW i \in Positions(rest), NEW j \in Positions(rest), i <= j
                 PROVE  new[i] <= new[j]
        OBVIOUS
    <2>1. /\ bill[0] \in Int /\ bill[i + 1] \in Int /\ bill[j + 1] \in Int
          /\ bill[0] <= bill[j + 1]
        BY <1>2, <1>3
    <2>2. bill[i + 1] <= bill[j + 1]
        <3>1. i + 1 \in Positions(line) /\ j + 1 \in Positions(line) /\ i + 1 <= j + 1
            BY <1>2
        <3> QED BY <1>1, <3>1 DEF Bills
    <2>3. /\ new[i] = IF i = 0 THEN bill[0] ELSE bill[i + 1] + 1
          /\ new[j] = IF j = 0 THEN bill[0] ELSE bill[j + 1] + 1
        OBVIOUS
    <2>4. j = 0 => i = 0
        BY <1>2
    <2> HIDE DEF new
    <2> QED BY <2>1, <2>2, <2>3, <2>4
<1>6. \A i, j \in Positions(rest) : Repeats(rest, first, next, i, j) => new[i] < new[j]
    <2> SUFFICES ASSUME NEW i \in Positions(rest), NEW j \in Positions(rest),
                        Repeats(rest, first, next, i, j)
                 PROVE  new[i] < new[j]
        OBVIOUS
    <2>0. i < j
        BY DEF Repeats
    <2>1. CASE i > 0
        <3>1. Repeats(line, first, next, i + 1, j + 1)
            BY <2>1, RepeatsBehind DEF rest
        <3>2. bill[i + 1] < bill[j + 1]
            BY <1>1, <1>2, <3>1 DEF Bills
        <3>3. bill[i + 1] \in Int /\ bill[j + 1] \in Int
            BY <1>2, <1>3
        <3>4. j # 0 /\ new[i] = bill[i + 1] + 1
            BY <1>2, <2>0, <2>1
        <3>5. new[j] = bill[j + 1] + 1
            BY <3>4
        <3> HIDE DEF new
        <3> QED BY <3>2, <3>3, <3>4, <3>5
    <2>2. CASE i = 0
        <3>1. bill[0] \in Int /\ bill[j + 1] \in Int /\ bill[0] <= bill[j + 1]
            BY <1>2, <1>3
        <3> QED BY <1>2, <2>0, <2>2, <3>1
    <2> QED BY <1>2, <2>1, <2>2
<1> HIDE DEF new
<1> QED BY <1>4, <1>5, <1>6 DEF Paid, Bills, rest

\* An engine that has sent nothing owes nothing.
LEMMA PaidEmpty ==
    ASSUME NEW drops \in Nat, NEW losses \in Nat, drops <= losses
    PROVE  Paid(<<>>, None, 0, drops, losses)
<1> DEFINE new == [i \in Positions(<<>>) |-> drops]
<1>1. Positions(<<>>) = 0..1 /\ DOMAIN <<>> = {}
    BY DEF Positions
<1>2. new \in [Positions(<<>>) -> drops..losses]
    OBVIOUS
<1>3. \A i, j \in Positions(<<>>) : ~Repeats(<<>>, None, 0, i, j)
    BY <1>1, NumberAssumption DEF Repeats, Number
<1>4. \A i, j \in Positions(<<>>) : i <= j => new[i] <= new[j]
    OBVIOUS
<1> HIDE DEF new
<1> QED BY <1>2, <1>3, <1>4 DEF Paid, Bills

\* What is paid needs no more drops than losses.
LEMMA PaidBounds ==
    ASSUME NEW line \in Seq(Outgoing), NEW first, NEW next,
           NEW drops \in Nat, NEW losses \in Nat,
           Paid(line, first, next, drops, losses)
    PROVE  drops <= losses
<1>1. PICK bill \in [Positions(line) -> drops..losses] : TRUE
    BY DEF Paid
<1>2. 0 \in Positions(line)
    BY LenProperties DEF Positions
<1> QED BY <1>1, <1>2

---------------------------------------------------------------------------
(* What the actions do to the line *)

\* A send buffer after an ACK, a command, both or neither.
Sends(buf) ==
    \/ sendBuf' = buf /\ txSeq' = txSeq
    \/ \E body \in Requests :
          sendBuf' = Append(buf, DataFrame(txSeq, body)) /\ txSeq' = 1 - txSeq

\* advance_task sends one command, under the number that is next, or none.
LEMMA AdvancedSends ==
    ASSUME NEW t \in Tasks, EndsInDone(t.steps), NEW buf, NEW known,
           sendBuf' = Advanced(t, buf, known).buf, txSeq' = Advanced(t, buf, known).seq
    PROVE  Sends(buf)
<1> DEFINE rest == Unfold(t.steps, known)
           front == Head(rest)
<1>1. t.steps \in Seq(Steps)
    BY DEF Tasks
<1>2. rest \in Seq(Steps) /\ EndsInDone(rest) /\ rest # <<>>
    BY <1>1, UnfoldKeepsDone DEF EndsInDone
<1>3. front \in Steps
    <2> HIDE DEF rest
    <2> QED BY <1>2, HeadTailProperties
<1>4. CASE front.kind = "Send"
    <2>1. sendBuf' = Append(buf, DataFrame(txSeq, front.body)) /\ txSeq' = 1 - txSeq
        BY <1>2, <1>4 DEF Advanced, NextSeq
    <2>2. front.body \in Requests
        BY <1>3, <1>4, SendFields
    <2> HIDE DEF front
    <2> QED BY <2>1, <2>2 DEF Sends
<1>5. CASE front.kind # "Send"
    <2>1. sendBuf' = buf /\ txSeq' = txSeq
        BY <1>2, <1>5 DEF Advanced
    <2> QED BY <2>1 DEF Sends
<1> QED BY <1>4, <1>5

LEMMA StartTaskSends ==
    ASSUME NEW steps \in Seq(Steps), EndsInDone(steps), NEW known, StartTask(steps, known)
    PROVE  Sends(sendBuf)
<1>1. Task(steps) \in Tasks /\ EndsInDone(Task(steps).steps)
    BY NewTask
<1> QED BY <1>1, AdvancedSends DEF StartTask

LEMMA AdvanceOnSends ==
    ASSUME EngineTypes, TaskInv, NEW wait \in Waits, NEW buf, NEW known,
           AdvanceOn(wait, buf, known)
    PROVE  Sends(buf)
<1>1. CASE task.wait # wait
    BY <1>1 DEF AdvanceOn, Sends
<1>2. CASE task.wait = wait
    <2> DEFINE left == [task EXCEPT !.wait = "None", !.deadline = "none", !.steps = Tail(@)]
    <2>1. task \in Tasks /\ task.steps \in Seq(Steps)
        BY DEF EngineTypes, Tasks
    <2>2. task.running /\ Proceeding(task) /\ task.wait # "None"
        BY <1>2 DEF TaskInv, Waits
    <2>3. EndsInDone(task.steps) /\ Head(task.steps).kind # "Done"
        BY <2>2 DEF Proceeding
    <2>4. Tail(task.steps) \in Seq(Steps) /\ EndsInDone(Tail(task.steps))
        BY <2>1, <2>3, TailKeepsDone
    <2>5. left \in Tasks /\ left.steps = Tail(task.steps)
        BY <2>1, <2>4 DEF Tasks
    <2>6. sendBuf' = Advanced(left, buf, known).buf /\ txSeq' = Advanced(left, buf, known).seq
        BY <1>2 DEF AdvanceOn
    <2> HIDE DEF left
    <2> QED BY <2>4, <2>5, <2>6, AdvancedSends
<1> QED BY <1>1, <1>2

\* What the next lemma says of three sequences, named so that a proof can carry the
\* fact without the provers rewriting the sequences in it.
Regroups(s, t, u) == (s \o t) \o u = s \o (t \o u)

\* Joining three sequences, it does not matter which two are joined first.
LEMMA Regrouped ==
    ASSUME NEW S, NEW s \in Seq(S), NEW t \in Seq(S), NEW u \in Seq(S)
    PROVE  Regroups(s, t, u)
BY ConcatAssociative DEF Regroups

\* A step that sends keeps the bill paid.
LEMMA SendsPaid ==
    ASSUME WireTypes, txSeq \in 0..1, NEW first, NEW drops \in Nat, NEW losses \in Nat,
           NEW buf \in {sendBuf, Acked}, Sends(buf), toDevice' = toDevice,
           Paid(Line, first, txSeq, drops, losses)
    PROVE  Paid(Line', first, txSeq', drops, losses)
<1>1. toDevice \in Seq(Outgoing) /\ sendBuf \in Seq(Outgoing) /\ Line \in Seq(Outgoing)
    BY ConcatProperties DEF WireTypes, Line
<1>2. AckFrame \in Outgoing /\ buf \in Seq(Outgoing)
    BY <1>1, AckedType DEF Outgoing
<1>3. \A s \in Seq(Outgoing), e \in Outgoing :
          toDevice \o Append(s, e) = Append(toDevice \o s, e)
    <2> SUFFICES ASSUME NEW s \in Seq(Outgoing), NEW e \in Outgoing
                 PROVE  toDevice \o Append(s, e) = Append(toDevice \o s, e)
        OBVIOUS
    <2>1. Append(s, e) = s \o <<e>> /\ <<e>> \in Seq(Outgoing)
        BY AppendIsConcat, OneElement
    <2>2. toDevice \o s \in Seq(Outgoing)
        BY <1>1, ConcatProperties
    <2>3. Append(toDevice \o s, e) = (toDevice \o s) \o <<e>>
        BY <2>2, AppendIsConcat
    <2>4. Regroups(toDevice, s, <<e>>)
        BY <1>1, <2>1, Regrouped, Zenon
    <2> QED BY <2>1, <2>3, <2>4, Zenon DEF Regroups
<1> DEFINE line == toDevice \o buf
<1>4. line \in Seq(Outgoing) /\ Paid(line, first, txSeq, drops, losses)
    <2>1. CASE buf = sendBuf
        BY <1>1, <2>1 DEF Line
    <2>2. CASE buf = Acked
        <3>1. line = Append(Line, AckFrame)
            BY <1>1, <1>2, <1>3, <2>2 DEF Acked, Line
        <3>2. line \in Seq(Outgoing)
            BY <1>1, <1>2, ConcatProperties
        <3> QED BY <1>1, <3>1, <3>2, PaidAck
    <2> QED BY <2>1, <2>2
<1>5. CASE sendBuf' = buf /\ txSeq' = txSeq
    BY <1>4, <1>5 DEF Line
<1>6. ASSUME NEW body \in Requests,
             sendBuf' = Append(buf, DataFrame(txSeq, body)), txSeq' = 1 - txSeq
      PROVE  Paid(Line', first, txSeq', drops, losses)
    <2>1. DataFrame(txSeq, body) \in Outgoing
        BY DEF DataFrame, Outgoing
    <2>2. Line' = Append(line, DataFrame(txSeq, body))
        BY <1>2, <1>3, <1>6, <2>1 DEF Line
    <2> HIDE DEF line
    <2> QED BY <1>4, <1>6, <2>2, PaidData
<1> QED BY <1>5, <1>6 DEF Sends

\* A stage of poll(): it sends, flushes, or fails on a dead connection.
LEMMA EngineStepLine ==
    ASSUME IInv, EngineStep
    PROVE  /\ link' = link /\ UNCHANGED <<deviceVars, spent>>
           /\ \/ toDevice' = toDevice /\ Sends(sendBuf)
              \/ toDevice' = toDevice /\ Sends(Acked)
              \/ (link = "up" \/ toDevice' = toDevice) /\ Line' = Line /\ txSeq' = txSeq
              \/ link = "broken" /\ toDevice' = toDevice
<1>1. EngineTypes /\ TaskInv /\ WireTypes /\ task \in Tasks
    BY DEF IInv, EngineTypes
<1>2. toDevice \in Seq(Outgoing) /\ sendBuf \in Seq(Outgoing)
    BY <1>1 DEF WireTypes
<1>3. {"Ack", "ProtocolInfo", "SupportFunction"} \subseteq Waits
    BY DEF Waits
<1>4. UNCHANGED <<deviceVars, spent>>
    BY DEF EngineStep
<1>5. CASE FlushSendBuf
    <2>1. sendBuf' = <<>> /\ toDevice' = toDevice \o sendBuf /\ txSeq' = txSeq
          /\ link' = link /\ (link = "up" \/ sendBuf = <<>>)
        BY <1>5 DEF FlushSendBuf
    <2>2. Line' = Line
        <3>1. toDevice \o sendBuf \in Seq(Outgoing)
            BY <1>2, ConcatProperties
        <3>2. (toDevice \o sendBuf) \o <<>> = toDevice \o sendBuf
            BY <3>1, ConcatEmptySeq
        <3> QED BY <2>1, <3>2 DEF Line
    <2>3. link = "up" \/ toDevice' = toDevice
        BY <1>2, <2>1, ConcatEmptySeq
    <2> QED BY <1>4, <2>1, <2>2, <2>3
<1>6. CASE ReadFrames \/ ((DeadlineOpen \/ GiveUp \/ NoFrame \/ StepCompleted) /\ UNCHANGED wireVars)
    <2>1. link' = link /\ toDevice' = toDevice /\ sendBuf' = sendBuf /\ txSeq' = txSeq
        BY <1>6 DEF ReadFrames, DeadlineOpen, GiveUp, NoFrame, StepCompleted, wireVars
    <2> QED BY <1>4, <2>1 DEF Sends
<1>7. CASE TransportError
    BY <1>4, <1>7 DEF TransportError, wireVars
<1>8. CASE Retransmit /\ UNCHANGED wireVars
    <2>1. task.last \in Requests
        BY <1>1, <1>8 DEF Retransmit, Tasks
    <2>2. sendBuf' = Append(sendBuf, DataFrame(txSeq, task.last)) /\ txSeq' = 1 - txSeq
        BY <1>8 DEF Retransmit, NextSeq
    <2>3. Sends(sendBuf)
        BY <2>1, <2>2 DEF Sends
    <2> QED BY <1>4, <1>8, <2>3 DEF wireVars
<1>9. CASE HandleAck /\ UNCHANGED wireVars
    <2>1. Sends(sendBuf)
        BY <1>1, <1>3, <1>9, AdvanceOnSends DEF HandleAck
    <2> QED BY <1>4, <1>9, <2>1 DEF wireVars
<1>10. CASE (HandleProtocolInfo \/ HandleSupportFunction) /\ UNCHANGED wireVars
    <2>1. Sends(Acked)
        BY <1>1, <1>3, <1>10, AdvanceOnSends DEF HandleProtocolInfo, HandleSupportFunction
    <2> QED BY <1>4, <1>10, <2>1 DEF wireVars
<1>11. CASE (HandleCapability \/ HandleParam \/ HandlePairedList) /\ UNCHANGED wireVars
    <2>1. sendBuf' = Acked /\ txSeq' = txSeq
        BY <1>11 DEF HandleCapability, HandleParam, HandlePairedList
    <2> QED BY <1>4, <1>11, <2>1 DEF wireVars, Sends
<1> QED
    BY <1>5, <1>6, <1>7, <1>8, <1>9, <1>10, <1>11 DEF EngineStep, Poll

LEMMA ConnectionKept == IInv /\ ConnectionInv /\ [Next]_vars => ConnectionInv'
<1> SUFFICES ASSUME IInv, ConnectionInv, [Next]_vars PROVE ConnectionInv'
    OBVIOUS
<1>1. /\ link \in {"none", "up", "broken"}
      /\ toDevice \in Seq(Outgoing) /\ fromDevice \in Seq(Incomings)
    BY DEF IInv, WireTypes
<1>2. CASE EngineStep
    <2>1. link # "none"
        <3> SUFFICES ASSUME link = "none" PROVE FALSE
            OBVIOUS
        <3>1. pc = "rest"
            BY DEF ConnectionInv, Fresh, NewEngine
        <3> QED
            BY <1>2, <3>1 DEF EngineStep, Poll, FlushSendBuf, ReadFrames, TransportError,
               DeadlineOpen, Retransmit, GiveUp, NoFrame, HandleAck, HandleProtocolInfo,
               HandleSupportFunction, HandleCapability, HandleParam, HandlePairedList,
               Incoming, StepCompleted
    <2>2. link' = link
        BY <1>2, EngineStepLine
    <2>3. CASE FlushSendBuf
        <3>1. link = "up" \/ toDevice' = toDevice
            BY <1>1, <2>3, ConcatEmptySeq DEF FlushSendBuf
        <3> QED BY <2>1, <2>2, <2>3, <3>1 DEF ConnectionInv, FlushSendBuf
    <2>4. CASE ReadFrames
        BY <2>1, <2>2, <2>4 DEF ConnectionInv, ReadFrames
    <2>5. CASE UNCHANGED wireVars
        BY <2>1, <2>2, <2>5 DEF ConnectionInv, wireVars
    <2> QED BY <1>2, <2>3, <2>4, <2>5 DEF EngineStep, Poll, TransportError
<1>3. CASE CloseConnection
    BY <1>3 DEF CloseConnection, DropEngine, ConnectionInv, Fresh, NewEngine
<1>4. CASE Tick
    <2>1. CASE Teardown
        BY <1>3, <2>1 DEF Teardown
    <2>2. CASE UNCHANGED wireVars
        <3>1. link # "none"
            BY <1>4 DEF Tick, ConnectionInv, Fresh, NewEngine
        <3> QED BY <2>2, <3>1 DEF ConnectionInv, wireVars
    <2> QED BY <1>4, <2>1, <2>2 DEF Tick
<1>5. CASE Attach
    BY <1>5 DEF Attach, ConnectionInv
<1>6. CASE Timeout
    <2>1. link # "none"
        BY <1>6, NoTaskType DEF Timeout, DeadlinePasses, ConnectionInv, Fresh, NewEngine
    <2> QED BY <1>6, <2>1 DEF Timeout, ConnectionInv, wireVars
<1>7. CASE Device
    <2>1. toDevice # <<>> /\ link' = link
        BY <1>7 DEF Device, DeviceTakes, DeviceDropsRepeat, DeviceTakesAck, Arrived
    <2> QED BY <1>1, <2>1 DEF ConnectionInv
<1>8. CASE User
    <2>1. CASE Disconnect
        BY <1>3, <2>1 DEF Disconnect
    <2>2. CASE link # "none" /\ UNCHANGED wireVars
        BY <2>2 DEF ConnectionInv, wireVars
    <2> QED BY <1>8, <2>1, <2>2 DEF User, Edit, EditGeneral, PressKey, RefreshSync
<1>9. CASE Environment
    <2>1. CASE \E s \in Settings, v \in Values : DeviceChanges(s, v)
        BY <2>1 DEF DeviceChanges, ConnectionInv, Fresh, NewEngine, engineVars
    <2>2. CASE LoseCommand
        BY <2>2 DEF LoseCommand, Arrived, ConnectionInv, Fresh, NewEngine, engineVars, deviceVars
    <2>3. CASE LoseAnswer
        BY <2>3 DEF LoseAnswer, ConnectionInv, Fresh, NewEngine, engineVars, deviceVars
    <2>4. CASE LinkBreaks
        BY <2>4 DEF LinkBreaks, ConnectionInv
    <2> QED BY <1>9, <2>1, <2>2, <2>3, <2>4 DEF Environment
<1>10. CASE UNCHANGED vars
    BY <1>10 DEF vars, engineVars, wireVars, deviceVars, ConnectionInv, Fresh, NewEngine
<1> QED BY <1>2, <1>4, <1>5, <1>6, <1>7, <1>8, <1>9, <1>10 DEF Next

LEMMA EngineStepPaid ==
    ASSUME IInv, LineInv, EngineStep
    PROVE  /\ dropped' <= spent'.lost
           /\ link' = "up" => Paid(Line, devSeq, txSeq, dropped, spent.lost)'
<1>1. /\ WireTypes /\ txSeq \in 0..1
      /\ dropped \in Nat /\ spent.lost \in Nat
    BY DEF IInv, EngineTypes, DeviceTypes, Counts
<1>2. link' = link /\ devSeq' = devSeq /\ dropped' = dropped /\ spent' = spent
    BY EngineStepLine DEF deviceVars
<1>3. dropped' <= spent'.lost
    BY <1>2 DEF LineInv
<1>4. ASSUME link = "up"
      PROVE  Paid(Line', devSeq, txSeq', dropped, spent.lost)
    <2>1. Paid(Line, devSeq, txSeq, dropped, spent.lost)
        BY <1>4 DEF LineInv
    <2>2. CASE Line' = Line /\ txSeq' = txSeq
        BY <2>1, <2>2
    <2>3. CASE toDevice' = toDevice /\ Sends(sendBuf)
        BY <1>1, <2>1, <2>3, SendsPaid
    <2>4. CASE toDevice' = toDevice /\ Sends(Acked)
        BY <1>1, <2>1, <2>4, SendsPaid
    <2> QED BY <1>4, <2>2, <2>3, <2>4, EngineStepLine
<1> QED BY <1>2, <1>3, <1>4 DEF Line

\* Every step keeps the drops paid for.
LEMMA LineKept == IInv /\ LineInv /\ [Next]_vars => LineInv'
<1> SUFFICES ASSUME IInv, LineInv, [Next]_vars PROVE LineInv'
    OBVIOUS
<1> DEFINE Owing == /\ dropped <= spent.lost
                    /\ link = "up" => Paid(Line, devSeq, txSeq, dropped, spent.lost)
<1>1. /\ WireTypes /\ EngineTypes /\ txSeq \in 0..1
      /\ dropped \in Nat /\ spent.lost \in Nat /\ spent \in [Counts -> Nat]
    BY DEF IInv, EngineTypes, DeviceTypes, Counts
<1>2. toDevice \in Seq(Outgoing) /\ sendBuf \in Seq(Outgoing) /\ Line \in Seq(Outgoing)
    BY <1>1, ConcatProperties DEF WireTypes, Line
<1>3. SUFFICES Owing'
    BY ConnectionKept DEF LineInv
<1>4. CASE /\ UNCHANGED <<link, toDevice, sendBuf, txSeq, devSeq, dropped>>
           /\ spent'.lost = spent.lost
    BY <1>4 DEF LineInv, Line
<1>5. CASE EngineStep
    BY <1>5, EngineStepPaid
<1>6. CASE CloseConnection /\ spent'.lost = spent.lost
    BY <1>6 DEF CloseConnection, LineInv
<1>7. ASSUME toDevice' = toDevice, Sends(sendBuf),
             UNCHANGED <<link, devSeq, dropped>>, spent'.lost = spent.lost
      PROVE  Owing'
    <2>1. ASSUME link = "up" PROVE Paid(Line', devSeq, txSeq', dropped, spent.lost)
        BY <1>1, <1>7, <2>1, SendsPaid DEF LineInv
    <2> QED BY <1>7, <2>1 DEF LineInv, Line
<1>8. ASSUME NEW what \in Counts, NEW bound, Spend(what, bound)
      PROVE  spent'.lost = IF what = "lost" THEN spent.lost + 1 ELSE spent.lost
    BY <1>1, <1>8 DEF Spend, Counts
<1>9. {"edits", "keys", "changes", "missed", "late", "breaks"} \subseteq Counts \ {"lost"}
      /\ "lost" \in Counts
    BY DEF Counts
<1>10. CASE Tick
    <2>1. CASE Teardown
        BY <1>6, <2>1 DEF Teardown
    <2>2. ASSUME UNCHANGED <<wireVars, deviceVars, spent>>, NEW steps \in Seq(Steps),
                 EndsInDone(steps), StartTask(steps, support)
          PROVE  Owing'
        BY <1>7, <2>2, StartTaskSends DEF wireVars, deviceVars
    <2>3. CASE UNCHANGED <<wireVars, deviceVars, spent>> /\ NothingDue
        BY <1>4, <2>3 DEF NothingDue, wireVars, deviceVars
    <2> QED BY <1>1, <1>10, <2>1, <2>2, <2>3, SyncSteps, CommitSteps
            DEF Tick, AfterInit, AutoCommit, PeriodicSync, StartSync
<1>11. CASE Attach
    <2>1. Sends(sendBuf) /\ toDevice = <<>> /\ sendBuf = <<>> /\ txSeq = 0 /\ devSeq = None
        BY <1>11, InitSteps, StartTaskSends
           DEF Attach, LineInv, ConnectionInv, Fresh, NewEngine
    <2>2. Paid(Line, devSeq, txSeq, dropped, spent.lost)
        <3>1. Line = <<>>
            BY <1>2, <2>1, ConcatEmptySeq DEF Line
        <3> QED BY <1>1, <2>1, <3>1, PaidEmpty DEF LineInv
    <2>3. Paid(Line', devSeq, txSeq', dropped, spent.lost)
        BY <1>1, <1>11, <2>1, <2>2, SendsPaid DEF Attach
    <2> QED BY <1>11, <2>3 DEF Attach, deviceVars, LineInv, Line
<1>12. CASE Timeout
    <2>1. spent'.lost = spent.lost
        BY <1>8, <1>9, <1>12 DEF Timeout
    <2> QED BY <1>4, <1>12, <2>1 DEF Timeout, wireVars, deviceVars
<1>13. CASE User
    <2>1. CASE \E s \in Settings, v \in Values : Edit(s, v)
        BY <1>4, <1>8, <1>9, <2>1 DEF Edit, wireVars, deviceVars
    <2>2. CASE \E k \in Keys : PressKey(k)
        BY <1>4, <1>8, <1>9, <2>2 DEF PressKey, wireVars, deviceVars
    <2>3. CASE RefreshSync
        BY <1>7, <2>3, SyncSteps, StartTaskSends DEF RefreshSync, StartSync, wireVars, deviceVars
    <2>4. CASE Disconnect
        BY <1>6, <1>8, <1>9, <2>4 DEF Disconnect
    <2>5. \A i \in DOMAIN GeneralOrder : GeneralOrder[i] \in Settings
        BY OrderAssumption DEF IsOrderOf, Settings
    <2> QED BY <1>13, <2>1, <2>2, <2>3, <2>4, <2>5 DEF User, EditGeneral, Settings
<1>14. ASSUME toDevice # <<>>, toDevice' = Tail(toDevice), UNCHANGED <<link, sendBuf>>
       PROVE  Line # <<>> /\ Head(Line) = Head(toDevice) /\ Line' = Tail(Line)
    BY <1>2, <1>14, TailOfConcat DEF Line
<1>15. CASE Device
    <2>1. toDevice # <<>> /\ toDevice' = Tail(toDevice) /\ UNCHANGED <<link, engineVars, spent>>
        BY <1>15 DEF Device, DeviceTakes, DeviceDropsRepeat, DeviceTakesAck, Arrived
    <2>2. link = "up" /\ Paid(Line, devSeq, txSeq, dropped, spent.lost)
        BY <1>1, <2>1 DEF LineInv, ConnectionInv, WireTypes
    <2>3. Line # <<>> /\ Head(Line) = Head(toDevice) /\ Line' = Tail(Line)
        BY <1>14, <2>1 DEF engineVars
    <2>4. CASE DeviceTakes
        <3>1. Head(Line).type = "Data" /\ devSeq' = Head(Line).seq /\ dropped' = dropped
            BY <2>3, <2>4 DEF DeviceTakes, Arrived
        <3>2. Paid(Tail(Line), devSeq', txSeq, dropped, spent.lost)
            BY <1>1, <1>2, <2>2, <2>3, <3>1, PaidTaken
        <3> QED BY <2>1, <2>3, <3>1, <3>2 DEF engineVars, LineInv
    <2>5. CASE DeviceDropsRepeat
        <3>1. Head(Line).type = "Data" /\ devSeq = Head(Line).seq
              /\ devSeq' = devSeq /\ dropped' = dropped + 1
            BY <2>3, <2>5 DEF DeviceDropsRepeat, Arrived
        <3>2. Paid(Tail(Line), devSeq, txSeq, dropped + 1, spent.lost)
            BY <1>1, <1>2, <2>2, <2>3, <3>1, PaidDropped
        <3>3. Tail(Line) \in Seq(Outgoing)
            BY <1>2, <2>3, HeadTailProperties
        <3>4. dropped + 1 <= spent.lost
            <4>1. dropped + 1 \in Nat
                BY <1>1
            <4> QED BY <1>1, <3>2, <3>3, <4>1, PaidBounds
        <3> QED BY <2>1, <2>3, <3>1, <3>2, <3>4 DEF engineVars
    <2>6. CASE DeviceTakesAck
        <3>1. Head(Line).type # "Data" /\ devSeq' = devSeq /\ dropped' = dropped
            BY <2>3, <2>6 DEF DeviceTakesAck, Arrived, deviceVars
        <3>2. Paid(Tail(Line), devSeq, txSeq, dropped, spent.lost)
            BY <1>1, <1>2, <2>2, <2>3, <3>1, PaidTaken
        <3> QED BY <2>1, <2>3, <3>1, <3>2 DEF engineVars, LineInv
    <2> QED BY <1>15, <2>4, <2>5, <2>6 DEF Device
<1>16. CASE Environment
    <2>1. CASE \E s \in Settings, v \in Values : DeviceChanges(s, v)
        BY <1>4, <1>8, <1>9, <2>1 DEF DeviceChanges, engineVars
    <2>2. CASE LoseCommand
        <3>1. /\ toDevice # <<>> /\ toDevice' = Tail(toDevice)
              /\ UNCHANGED <<link, engineVars, deviceVars>> /\ Spend("lost", MaxLost)
            BY <2>2 DEF LoseCommand, Arrived
        <3>2. link = "up" /\ Paid(Line, devSeq, txSeq, dropped, spent.lost)
            BY <1>1, <3>1 DEF LineInv, ConnectionInv, WireTypes
        <3>3. Line # <<>> /\ Line' = Tail(Line)
            BY <1>14, <3>1 DEF engineVars
        <3>4. spent'.lost = spent.lost + 1
            BY <1>8, <1>9, <3>1
        <3>5. Paid(Tail(Line), devSeq, txSeq, dropped, spent.lost + 1)
            BY <1>1, <1>2, <3>2, <3>3, PaidLost
        <3>6. dropped <= spent.lost + 1
            BY <1>1 DEF LineInv
        <3> QED BY <3>1, <3>3, <3>4, <3>5, <3>6 DEF engineVars, deviceVars
    <2>3. CASE LoseAnswer
        BY <1>4, <1>8, <1>9, <2>3 DEF LoseAnswer, engineVars, deviceVars
    <2>4. CASE LinkBreaks
        BY <1>8, <1>9, <2>4 DEF LinkBreaks, LineInv, deviceVars
    <2> QED BY <1>16, <2>1, <2>2, <2>3, <2>4 DEF Environment
<1>17. CASE UNCHANGED vars
    BY <1>4, <1>17 DEF vars, engineVars, wireVars, deviceVars
<1> QED BY <1>5, <1>10, <1>11, <1>12, <1>13, <1>15, <1>16, <1>17 DEF Next

---------------------------------------------------------------------------
(* The theorem *)

LEMMA LineInvariance == Spec => [](IInv /\ LineInv)
<1>1. Init => LineInv
    BY DEF Init, NewEngine, LineInv, ConnectionInv, Fresh
<1>2. IInv /\ LineInv /\ [Next]_vars => LineInv'
    BY LineKept
<1> QED BY <1>1, <1>2, Invariance, PTL DEF Spec

\* However many frames are sent, sent again, lost and acknowledged, early or
\* late, the headphones never take a new command for a repeat without a loss
\* that came before it.
THEOREM DropsArePaid == Spec => []DropsNeedLosses
<1>1. LineInv => DropsNeedLosses
    BY DEF LineInv, DropsNeedLosses
<1> QED BY <1>1, LineInvariance, PTL

=============================================================================
