---------------------------- MODULE StreamProofs ----------------------------
(***************************************************************************)
(* What holds of the framing for all bytes, and of the stream for any      *)
(* script, any pieces and any chunk: a frame that was packed is cut and    *)
(* unpacked as it was, ACKs leave in order, and the engine hears what the  *)
(* headphones say.                                                         *)
(***************************************************************************)
EXTENDS Stream, TLAPS, SequenceTheorems, WellFoundedInduction

---------------------------------------------------------------------------
(* Numbers and recursive functions *)

\* A set of naturals has a least element.
LEMMA LeastElement ==
    ASSUME NEW S \in SUBSET Nat, S # {}
    PROVE  \E k \in S : \A j \in S : k <= j
<1> DEFINE R == OpToRel(<, Nat)
<1>1. IsWellFoundedOn(R, Nat)
    BY NatLessThanWellFounded
<1>2. PICK k \in S : \A j \in S : ~(<<j, k>> \in R)
    <2> HIDE DEF R
    <2> QED BY <1>1, WFMin
<1>3. \A j \in S : j < k => <<j, k>> \in R
    BY DEF OpToRel
<1>4. \A j \in S : ~(j < k)
    BY <1>2, <1>3, Zenon
<1> HIDE DEF R
<1> QED BY <1>4, SMT

\* What holds of 0 and is handed on holds up to n.
LEMMA UpTo ==
    ASSUME NEW n \in Nat, NEW S, 0 \in S,
           \A i \in 1 .. n : i - 1 \in S => i \in S
    PROVE  \A i \in 0 .. n : i \in S
<1> DEFINE B == {i \in 0 .. n : i \notin S}
<1> SUFFICES ASSUME B # {} PROVE FALSE
    OBVIOUS
<1>1. B \in SUBSET Nat
    OBVIOUS
<1>2. PICK k \in B : \A j \in B : k <= j
    <2> HIDE DEF B
    <2> QED BY <1>1, LeastElement
<1>3. k \in 0 .. n /\ k \notin S /\ k # 0
    OBVIOUS
<1>4. k - 1 \in 0 .. n /\ k - 1 \notin B /\ k \in 1 .. n
    BY <1>2, <1>3
<1>5. k - 1 \in S
    BY <1>4
<1> QED BY <1>3, <1>4, <1>5

\* A function given by its first value and a step from one to the next.
Steps(f, n, z, step) == f[0] = z /\ \A i \in 1 .. n : f[i] = step[<<f[i - 1], i>>]

LEMMA Recursion ==
    ASSUME NEW n \in Nat, NEW T, NEW z \in T, NEW step \in [T \X (1 .. n) -> T]
    PROVE  \E f \in [0 .. n -> T] : Steps(f, n, z, step)
<1> DEFINE S == {m \in 0 .. n : \E f \in [0 .. m -> T] : Steps(f, m, z, step)}
<1>1. 0 \in S
    <2> DEFINE f == [i \in 0 .. 0 |-> z]
    <2>1. f \in [0 .. 0 -> T] /\ f[0] = z /\ 1 .. 0 = {}
        OBVIOUS
    <2> HIDE DEF f
    <2>2. Steps(f, 0, z, step)
        BY <2>1 DEF Steps
    <2> QED BY <2>1, <2>2
<1>2. ASSUME NEW m \in 1 .. n, m - 1 \in S
      PROVE  m \in S
    <2>1. PICK f \in [0 .. m - 1 -> T] : Steps(f, m - 1, z, step)
        BY <1>2
    <2> DEFINE v == step[<<f[m - 1], m>>]
               g == [i \in 0 .. m |-> IF i = m THEN v ELSE f[i]]
    <2>2. v \in T
        <3>1. f[m - 1] \in T
            OBVIOUS
        <3> QED BY <3>1
    <2>3. g \in [0 .. m -> T] /\ g[m] = v /\ \A i \in 0 .. m - 1 : g[i] = f[i]
        <3> HIDE DEF v
        <3> QED BY <2>2
    <2> HIDE DEF g
    <2>4. g[0] = z
        BY <2>1, <2>3 DEF Steps
    <2>5. \A i \in 1 .. m : g[i] = step[<<g[i - 1], i>>]
        <3> TAKE i \in 1 .. m
        <3>1. CASE i = m
            BY <2>3, <3>1
        <3>2. CASE i # m
            <4>1. i \in 1 .. m - 1 /\ i \in 0 .. m - 1 /\ i - 1 \in 0 .. m - 1
                BY <3>2
            <4>2. f[i] = step[<<f[i - 1], i>>]
                BY <2>1, <4>1 DEF Steps
            <4> QED BY <2>3, <4>1, <4>2
        <3> QED BY <3>1, <3>2
    <2>6. Steps(g, m, z, step)
        BY <2>4, <2>5 DEF Steps
    <2> QED BY <2>3, <2>6
<1> HIDE DEF S
<1>3. n \in S
    BY <1>1, <1>2, UpTo
<1> QED BY <1>3 DEF S

\* ... is in its range all along.
LEMMA RecursionRange ==
    ASSUME NEW n \in Nat, NEW T, NEW z \in T, NEW step \in [T \X (1 .. n) -> T],
           NEW f, Steps(f, n, z, step)
    PROVE  \A i \in 0 .. n : f[i] \in T
<1> DEFINE S == {i \in 0 .. n : f[i] \in T}
<1>1. 0 \in S
    BY DEF Steps
<1>2. ASSUME NEW i \in 1 .. n, i - 1 \in S PROVE i \in S
    <2>1. f[i - 1] \in T /\ f[i] = step[<<f[i - 1], i>>]
        BY <1>2 DEF Steps
    <2> QED BY <2>1
<1> HIDE DEF S
<1>3. \A i \in 0 .. n : i \in S
    BY <1>1, <1>2, UpTo
<1> QED BY <1>3 DEF S

---------------------------------------------------------------------------
(* Concatenation *)

Prefix(s, t) == Len(s) <= Len(t) /\ \A k \in 1 .. Len(s) : t[k] = s[k]

\* F concatenates the pieces G, one after the other: as a recursive function,
\* and as its equations.
Concatenation(F, n, G) ==
    F = [i \in 0 .. n |-> IF i = 0 THEN <<>> ELSE F[i - 1] \o G[i]]
Joins(F, n, G) == F[0] = <<>> /\ \A i \in 1 .. n : F[i] = F[i - 1] \o G[i]

LEMMA ConcatenationExists ==
    ASSUME NEW S, NEW n \in Nat, NEW G, \A i \in 1 .. n : G[i] \in Seq(S)
    PROVE  \E F : Concatenation(F, n, G)
<1> DEFINE T == Seq(S)
           step == [p \in T \X (1 .. n) |-> p[1] \o G[p[2]]]
<1>1. step \in [T \X (1 .. n) -> T]
    <2>1. \A p \in T \X (1 .. n) : p[1] \o G[p[2]] \in T
        <3> TAKE p \in T \X (1 .. n)
        <3>1. p[1] \in Seq(S) /\ G[p[2]] \in Seq(S)
            OBVIOUS
        <3> DEFINE s == p[1]  t == G[p[2]]
        <3> HIDE DEF s, t
        <3>2. s \o t \in Seq(S)
            BY <3>1 DEF s, t
        <3> QED BY <3>2 DEF s, t
    <2> QED BY <2>1
<1>2. <<>> \in T
    BY EmptySeq
<1> HIDE DEF T
<1>3. PICK f \in [0 .. n -> T] : Steps(f, n, <<>>, step)
    <2> HIDE DEF step
    <2> QED BY <1>1, <1>2, Recursion
<1>4. \A i \in 1 .. n : f[i] = f[i - 1] \o G[i]
    <2> TAKE i \in 1 .. n
    <2>1. f[i] = step[<<f[i - 1], i>>]
        <3> HIDE DEF step
        <3> QED BY <1>3 DEF Steps
    <2>2. f[i - 1] \in T
        OBVIOUS
    <2>3. <<f[i - 1], i>> \in T \X (1 .. n)
        BY <2>2
    <2> QED BY <2>1, <2>3
<1>5. f[0] = <<>>
    BY <1>3 DEF Steps
<1> DEFINE H == [i \in 0 .. n |-> IF i = 0 THEN <<>> ELSE f[i - 1] \o G[i]]
<1>6. \A i \in 0 .. n : f[i] = H[i]
    <2>1. \A i \in 0 .. n : i = 0 \/ i \in 1 .. n
        OBVIOUS
    <2>2. H[0] = <<>> /\ \A i \in 1 .. n : H[i] = f[i - 1] \o G[i]
        <3> DEFINE J(i) == f[i - 1] \o G[i]
        <3>1. H = [i \in 0 .. n |-> IF i = 0 THEN <<>> ELSE J(i)]
            BY Zenon
        <3> HIDE DEF J, H
        <3>2. H[0] = <<>> /\ \A i \in 1 .. n : H[i] = J(i)
            BY <3>1
        <3> QED BY <3>2 DEF J
    <2> HIDE DEF H
    <2> QED BY <1>4, <1>5, <2>1, <2>2, Zenon
<1>7. Concatenation(f, n, G)
    <2>1. H = [i \in 0 .. n |-> H[i]] /\ f = [i \in 0 .. n |-> f[i]]
        OBVIOUS
    <2>2. f = H
        <3> HIDE DEF H
        <3> QED BY <1>6, <2>1
    <2> QED BY <2>2 DEF Concatenation
<1> QED BY <1>7

LEMMA ConcatenationSteps ==
    ASSUME NEW n \in Nat, NEW G, NEW F,
           Concatenation(F, n, G)
    PROVE  Joins(F, n, G)
<1> DEFINE J(i) == F[i - 1] \o G[i]
           H == [i \in 0 .. n |-> IF i = 0 THEN <<>> ELSE J(i)]
<1>1. F = H
    BY Zenon DEF Concatenation
<1>2. H[0] = <<>> /\ \A i \in 1 .. n : H[i] = J(i)
    <2> HIDE DEF J
    <2> QED OBVIOUS
<1> HIDE DEF H
<1>3. F[0] = <<>> /\ \A i \in 1 .. n : F[i] = J(i)
    BY <1>1, <1>2
<1> QED BY <1>3 DEF J, Joins

\* Piece i lies behind the first i - 1 pieces.
PieceAt(F, n, G, i) ==
    \A k \in 1 .. Len(G[i]) : /\ Len(F[i - 1]) + k \in 1 .. Len(F[n])
                              /\ F[n][Len(F[i - 1]) + k] = G[i][k]

\* The lengths add up, what is there stays, and piece i lies in its place.
Parts(F, n, G) ==
    /\ \A i \in 1 .. n : Len(F[i]) = Len(F[i - 1]) + Len(G[i])
    /\ \A m \in 0 .. n : \A i \in 0 .. m : Prefix(F[i], F[m])
    /\ \A i \in 1 .. n : PieceAt(F, n, G, i)

LEMMA ConcatenationParts ==
    ASSUME NEW S, NEW n \in Nat, NEW G, \A i \in 1 .. n : G[i] \in Seq(S),
           NEW F, Joins(F, n, G)
    PROVE  (\A i \in 0 .. n : F[i] \in Seq(S)) /\ Parts(F, n, G)
<1>1. \A i \in 0 .. n : F[i] \in Seq(S)
    <2> DEFINE A == {i \in 0 .. n : F[i] \in Seq(S)}
    <2>1. 0 \in A
        <3>1. <<>> \in Seq(S) /\ 0 \in 0 .. n
            OBVIOUS
        <3> QED BY <3>1, Zenon DEF Joins
    <2>2. ASSUME NEW i \in 1 .. n, i - 1 \in A PROVE i \in A
        <3>1. F[i - 1] \o G[i] \in Seq(S)
            BY <2>2
        <3>2. F[i] \in Seq(S)
            BY <3>1, Zenon DEF Joins
        <3> QED BY <3>2
    <2> HIDE DEF A
    <2>3. \A i \in 0 .. n : i \in A
        BY <2>1, <2>2, UpTo
    <2> QED BY <2>3 DEF A
<1>2. ASSUME NEW i \in 1 .. n
      PROVE  /\ Len(F[i]) = Len(F[i - 1]) + Len(G[i])
             /\ Prefix(F[i - 1], F[i])
             /\ \A k \in 1 .. Len(G[i]) : F[i][Len(F[i - 1]) + k] = G[i][k]
    <2> DEFINE s == F[i - 1]  t == G[i]  u == F[i]
    <2>1. s \in Seq(S) /\ t \in Seq(S) /\ u \in Seq(S)
        BY <1>1, i - 1 \in 0 .. n, i \in 0 .. n, Zenon
    <2>2. u = s \o t
        BY Zenon DEF Joins
    <2> HIDE DEF s, t, u
    <2>3. /\ Len(u) = Len(s) + Len(t) /\ \A k \in 1 .. Len(s) : u[k] = s[k]
          /\ \A k \in 1 .. Len(t) : u[Len(s) + k] = t[k]
        BY <2>1, <2>2
    <2>4. Len(s) <= Len(u)
        BY <2>1, <2>3
    <2> QED BY <2>3, <2>4 DEF s, t, u, Prefix
<1>3. \A m \in 0 .. n : \A i \in 0 .. m : Prefix(F[i], F[m])
    <2> DEFINE A == {m \in 0 .. n : \A i \in 0 .. m : Prefix(F[i], F[m])}
    <2>0. \A i \in 0 .. n : Len(F[i]) \in Nat
        BY <1>1
    <2>1. 0 \in A
        <3>1. Prefix(F[0], F[0])
            BY <2>0 DEF Prefix
        <3> QED BY <3>1
    <2>2. ASSUME NEW m \in 1 .. n, m - 1 \in A PROVE m \in A
        <3>1. Prefix(F[m - 1], F[m])
            BY <1>2
        <3>2. ASSUME NEW i \in 0 .. m - 1 PROVE Prefix(F[i], F[m])
            <4>1. Prefix(F[i], F[m - 1])
                BY <2>2
            <4>2. Len(F[i]) \in Nat /\ Len(F[m - 1]) \in Nat /\ Len(F[m]) \in Nat
                BY <2>0
            <4> QED BY <3>1, <4>1, <4>2 DEF Prefix
        <3>3. Prefix(F[m], F[m])
            BY <2>0 DEF Prefix
        <3>4. \A i \in 0 .. m : i = m \/ i \in 0 .. m - 1
            OBVIOUS
        <3> QED BY <3>2, <3>3, <3>4
    <2> HIDE DEF A
    <2>3. \A m \in 0 .. n : m \in A
        BY <2>1, <2>2, UpTo
    <2> QED BY <2>3 DEF A
<1>4. ASSUME NEW i \in 1 .. n PROVE PieceAt(F, n, G, i)
    <2>1. Prefix(F[i], F[n])
        BY <1>3
    <2>2. Len(F[i - 1]) \in Nat /\ Len(G[i]) \in Nat /\ Len(F[n]) \in Nat /\ Len(F[i]) \in Nat
        BY <1>1
    <2> DEFINE a == Len(F[i - 1])  b == Len(G[i])  c == Len(F[i])
    <2>0. a \in Nat /\ b \in Nat /\ c = a + b
        BY <1>2, <2>2
    <2> HIDE DEF a, b, c
    <2>5. \A k \in 1 .. b : a + k \in 1 .. c
        BY <2>0
    <2>3. \A k \in 1 .. Len(G[i]) : Len(F[i - 1]) + k \in 1 .. Len(F[i])
        BY <2>5 DEF a, b, c
    <2>4. \A k \in 1 .. Len(F[i]) : k \in 1 .. Len(F[n]) /\ F[n][k] = F[i][k]
        BY <2>1, <2>2 DEF Prefix
    <2> QED BY <1>2, <2>3, <2>4 DEF PieceAt
<1>5. Parts(F, n, G)
    BY <1>2, <1>3, <1>4 DEF Parts
<1> QED BY <1>1, <1>5

\* Every element is in a piece.
LEMMA ConcatenationCovers ==
    ASSUME NEW S, NEW n \in Nat, NEW G, \A i \in 1 .. n : G[i] \in Seq(S),
           NEW F, Joins(F, n, G)
    PROVE  \A x \in 1 .. Len(F[n]) : \E i \in 1 .. n : Len(F[i - 1]) < x /\ x <= Len(F[i])
<1> DEFINE In(x, m) == \E i \in 1 .. m : Len(F[i - 1]) < x /\ x <= Len(F[i])
           A == {m \in 0 .. n : \A x \in 1 .. Len(F[m]) : In(x, m)}
<1>1. 0 \in A
    <2>1. Len(F[0]) = 0
        BY EmptySeq DEF Joins
    <2>2. 1 .. Len(F[0]) = {} /\ 0 \in 0 .. n
        BY <2>1
    <2> HIDE DEF In
    <2> QED BY <2>2
<1>2. ASSUME NEW m \in 1 .. n, m - 1 \in A PROVE m \in A
    <2>1. ASSUME NEW x \in 1 .. Len(F[m]) PROVE In(x, m)
        <3>1. Len(F[m - 1]) \in Nat /\ Len(F[m]) \in Nat
            <4>1. F[m - 1] \in Seq(S) /\ F[m] \in Seq(S)
                BY ConcatenationParts, m \in 0 .. n, m - 1 \in 0 .. n, Zenon
            <4> QED BY <4>1
        <3>2. CASE x \in 1 .. Len(F[m - 1])
            <4>1. In(x, m - 1)
                BY <1>2, <3>2
            <4>2. 1 .. m - 1 \subseteq 1 .. m
                OBVIOUS
            <4> QED BY <4>1, <4>2
        <3>3. CASE Len(F[m - 1]) < x
            <4>1. x <= Len(F[m]) /\ m \in 1 .. m
                BY <3>1
            <4> QED BY <3>3, <4>1
        <3> HIDE DEF In
        <3> QED BY <3>1, <3>2, <3>3
    <2> HIDE DEF In
    <2> QED BY <2>1
<1> HIDE DEF A
<1>3. \A m \in 0 .. n : m \in A
    BY <1>1, <1>2, UpTo
<1>4. n \in 0 .. n
    OBVIOUS
<1> QED BY <1>3, <1>4 DEF A

---------------------------------------------------------------------------
(* Escaping *)

\* What becomes of one byte.
Coded(b) == IF b \in Special THEN <<ESCAPE_SENTRY, b - 16>> ELSE <<b>>

LEMMA CodedBytes ==
    ASSUME NEW b \in Byte
    PROVE  /\ Coded(b) \in Seq(Byte)
           /\ \A k \in 1 .. Len(Coded(b)) : Coded(b)[k] \notin {START_MARKER, END_MARKER}
           /\ b \notin Special => Coded(b) = <<b>> /\ Len(Coded(b)) = 1 /\ Coded(b)[1] = b
           /\ b \in Special => /\ Len(Coded(b)) = 2 /\ Coded(b)[1] = ESCAPE_SENTRY
                               /\ Coded(b)[2] = b - 16
<1>1. CASE b \in Special
    <2> DEFINE t == <<ESCAPE_SENTRY, b - 16>>
    <2>1. Coded(b) = t
        BY <1>1 DEF Coded
    <2>2. /\ ESCAPE_SENTRY \in Byte /\ b - 16 \in Byte
          /\ ESCAPE_SENTRY \notin {START_MARKER, END_MARKER}
          /\ b - 16 \notin {START_MARKER, END_MARKER}
        BY <1>1 DEF Special, Byte, ESCAPE_SENTRY, START_MARKER, END_MARKER
    <2>3. t \in Seq(Byte) /\ Len(t) = 2 /\ t[1] = ESCAPE_SENTRY /\ t[2] = b - 16
        <3> HIDE DEF Byte
        <3> QED BY <2>2
    <2> HIDE DEF t
    <2> QED BY <1>1, <2>1, <2>2, <2>3
<1>2. CASE b \notin Special
    <2> DEFINE t == <<b>>
    <2>1. Coded(b) = t
        BY <1>2 DEF Coded
    <2>2. t \in Seq(Byte) /\ Len(t) = 1 /\ t[1] = b
        OBVIOUS
    <2>3. b \notin {START_MARKER, END_MARKER}
        BY <1>2 DEF Special
    <2> QED BY <1>2, <2>1, <2>2, <2>3
<1> QED BY <1>1, <1>2

\* The escaped bytes are those of the bytes in turn.
EscapedBy(bytes, F) == Joins(F, Len(bytes), [i \in DOMAIN bytes |-> Coded(bytes[i])])

LEMMA EscapeJoins ==
    ASSUME NEW bytes \in Seq(Byte)
    PROVE  \E F : EscapedBy(bytes, F) /\ Escape(bytes) = F[Len(bytes)]
<1> DEFINE n == Len(bytes)
           G == [i \in DOMAIN bytes |-> Coded(bytes[i])]
           Rec(F) == F = [i \in 0 .. Len(bytes) |->
                             IF i = 0 THEN <<>>
                             ELSE F[i - 1] \o IF bytes[i] \in Special
                                              THEN <<ESCAPE_SENTRY, bytes[i] - 16>> ELSE <<bytes[i]>>]
           U == CHOOSE F : Rec(F)
<1>1. n \in Nat /\ DOMAIN bytes = 1 .. n
    OBVIOUS
<1>2. \A i \in 1 .. n : G[i] = Coded(bytes[i]) /\ G[i] \in Seq(Byte)
    <2>1. \A i \in 1 .. n : bytes[i] \in Byte
        BY <1>1
    <2> HIDE DEF Byte
    <2> QED BY <1>1, <2>1, CodedBytes
<1>3. ASSUME NEW F
      PROVE  Rec(F) <=> Concatenation(F, n, G)
    <2> DEFINE L == [i \in 0 .. n |-> IF i = 0 THEN <<>> ELSE F[i - 1] \o G[i]]
               R == [i \in 0 .. n |-> IF i = 0 THEN <<>> ELSE F[i - 1] \o Coded(bytes[i])]
    <2>1. Rec(F) <=> F = R
        BY DEF Coded
    <2>2. \A i \in 0 .. n : i = 0 \/ i \in 1 .. n
        BY <1>1
    <2> HIDE DEF G
    <2>3. L = R
        BY <1>2, <2>2, Zenon
    <2>4. Concatenation(F, n, G) <=> F = L
        BY DEF Concatenation
    <2> HIDE DEF R, L, Rec
    <2> QED BY <2>1, <2>3, <2>4
<1>4. \E F : Rec(F)
    <2> HIDE DEF G, n, Rec
    <2>1. \E F : Concatenation(F, n, G)
        BY <1>1, <1>2, ConcatenationExists
    <2> QED BY <1>3, <2>1
<1>5. Escape(bytes) = U[n]
    BY DEF Escape
<1>6. Rec(U)
    <2> HIDE DEF Rec
    <2> QED BY <1>4
<1>7. Joins(U, n, G)
    <2> HIDE DEF Rec, G, n, U
    <2>1. Concatenation(U, n, G)
        BY <1>3, <1>6
    <2> QED BY <1>1, <2>1, ConcatenationSteps
<1> HIDE DEF U
<1> QED BY <1>5, <1>7 DEF EscapedBy

\* What is escaped are bytes, and no markers.
LEMMA EscapedBytes ==
    ASSUME NEW bytes \in Seq(Byte)
    PROVE  /\ Escape(bytes) \in Seq(Byte)
           /\ \A x \in 1 .. Len(Escape(bytes)) : Escape(bytes)[x] \notin {START_MARKER, END_MARKER}
<1> DEFINE n == Len(bytes)
           G == [i \in DOMAIN bytes |-> Coded(bytes[i])]
<1>1. PICK F : Joins(F, n, G) /\ Escape(bytes) = F[n]
    BY EscapeJoins DEF EscapedBy
<1>2. n \in Nat /\ DOMAIN bytes = 1 .. n /\ \A i \in 1 .. n : bytes[i] \in Byte
    OBVIOUS
<1> HIDE DEF n
<1>3. \A i \in 1 .. n : G[i] = Coded(bytes[i])
    BY <1>2
<1> HIDE DEF G
<1>4. \A i \in 1 .. n : /\ G[i] \in Seq(Byte)
                        /\ \A k \in 1 .. Len(G[i]) : G[i][k] \notin {START_MARKER, END_MARKER}
    <2> HIDE DEF Byte
    <2> QED BY <1>2, <1>3, CodedBytes
<1>5. (\A i \in 0 .. n : F[i] \in Seq(Byte)) /\ Parts(F, n, G)
    BY <1>1, <1>2, <1>4, ConcatenationParts, Zenon
<1>6. ASSUME NEW x \in 1 .. Len(F[n])
      PROVE  F[n][x] \notin {START_MARKER, END_MARKER}
    <2>1. PICK i \in 1 .. n : Len(F[i - 1]) < x /\ x <= Len(F[i])
        BY <1>1, <1>2, <1>4, ConcatenationCovers
    <2> DEFINE a == Len(F[i - 1])  b == Len(G[i])
    <2>2. a \in Nat /\ b \in Nat /\ x \in Nat /\ x <= a + b
        <3>1. i - 1 \in 0 .. n /\ n \in 0 .. n
            BY <1>2
        <3>2. F[i - 1] \in Seq(Byte) /\ F[n] \in Seq(Byte) /\ G[i] \in Seq(Byte)
            BY <1>4, <1>5, <3>1, Zenon
        <3>3. a \in Nat /\ b \in Nat /\ Len(F[n]) \in Nat
            <4> HIDE DEF Byte
            <4> QED BY <3>2
        <3>4. Len(F[i]) = a + b
            BY <1>5 DEF Parts
        <3> HIDE DEF a, b
        <3> QED BY <2>1, <3>3, <3>4
    <2>3. x - a \in 1 .. b /\ a + (x - a) = x
        <3> HIDE DEF a, b
        <3> QED BY <2>1, <2>2 DEF a
    <2>4. F[n][a + (x - a)] = G[i][x - a]
        <3>1. PieceAt(F, n, G, i)
            BY <1>5 DEF Parts
        <3> HIDE DEF a, b
        <3> QED BY <2>3, <3>1, Zenon DEF PieceAt, a, b
    <2> QED BY <1>4, <2>3, <2>4
<1>7. n \in 0 .. n
    BY <1>2
<1> QED BY <1>1, <1>5, <1>6, <1>7

---------------------------------------------------------------------------
(* Unescaping *)

\* A byte that a sentry announces, and a sentry that announces one.
Announced(bytes, E) ==
    \A n \in 1 .. Len(bytes) :
        /\ E[n] \in BOOLEAN
        /\ E[n] <=> n > 1 /\ bytes[n - 1] = ESCAPE_SENTRY /\ ~E[n - 1]
Announces(bytes, E, n) == bytes[n] = ESCAPE_SENTRY /\ ~E[n]

Decoded(bytes, E, n) ==
    IF Announces(bytes, E, n) THEN <<>>
    ELSE IF E[n] THEN <<bytes[n] + 16>> ELSE <<bytes[n]>>

Unspoilt(bytes, E) ==
    \A n \in DOMAIN bytes : /\ E[n] => bytes[n] + 16 \in Special
                            /\ n = Len(bytes) => ~Announces(bytes, E, n)

LEMMA AnnouncedExists ==
    ASSUME NEW bytes \in Seq(Byte)
    PROVE  \E E : E = [n \in DOMAIN bytes |->
                          n > 1 /\ bytes[n - 1] = ESCAPE_SENTRY /\ ~E[n - 1]]
<1> DEFINE len == Len(bytes)
           step == [p \in BOOLEAN \X (1 .. len) |->
                       p[2] > 1 /\ bytes[p[2] - 1] = ESCAPE_SENTRY /\ ~p[1]]
<1>1. len \in Nat /\ DOMAIN bytes = 1 .. len
    OBVIOUS
<1> HIDE DEF len
<1>2. step \in [BOOLEAN \X (1 .. len) -> BOOLEAN]
    OBVIOUS
<1>3. PICK f \in [0 .. len -> BOOLEAN] : Steps(f, len, FALSE, step)
    <2> HIDE DEF step
    <2> QED BY <1>1, <1>2, Recursion
<1>4. ASSUME NEW n \in 1 .. len
      PROVE  f[n] = (n > 1 /\ bytes[n - 1] = ESCAPE_SENTRY /\ ~f[n - 1])
    <2>1. f[n] = step[<<f[n - 1], n>>]
        <3> HIDE DEF step
        <3> QED BY <1>3 DEF Steps
    <2>2. <<f[n - 1], n>> \in BOOLEAN \X (1 .. len)
        BY <1>1
    <2> QED BY <2>1, <2>2
<1> DEFINE E == [n \in 1 .. len |-> f[n]]
<1>5. ASSUME NEW n \in 1 .. len
      PROVE  E[n] = (n > 1 /\ bytes[n - 1] = ESCAPE_SENTRY /\ ~E[n - 1])
    <2>1. CASE n > 1
        <3>1. n - 1 \in 1 .. len
            BY <1>1, <2>1
        <3>2. E[n] = f[n] /\ E[n - 1] = f[n - 1]
            BY <3>1
        <3> QED BY <1>4, <3>2, Zenon
    <2>2. CASE ~(n > 1)
        BY <1>4, <2>2, Zenon
    <2> QED BY <2>1, <2>2
<1> DEFINE R == [n \in DOMAIN bytes |-> n > 1 /\ bytes[n - 1] = ESCAPE_SENTRY /\ ~E[n - 1]]
<1>6. E = [n \in 1 .. len |-> E[n]]
    OBVIOUS
<1>7. E = R
    <2> HIDE DEF E
    <2> QED BY <1>1, <1>5, <1>6, Zenon
<1> HIDE DEF E
<1> QED BY <1>7

DecodedBy(bytes, E, O) == Joins(O, Len(bytes), [n \in DOMAIN bytes |-> Decoded(bytes, E, n)])

LEMMA UnescapeJoins ==
    ASSUME NEW bytes \in Seq(Byte)
    PROVE  \E E, O : /\ Announced(bytes, E) /\ DecodedBy(bytes, E, O)
                     /\ Unescape(bytes) = [ok |-> Unspoilt(bytes, E), out |-> O[Len(bytes)]]
<1> DEFINE len == Len(bytes)
           RecE(F) == F = [n \in DOMAIN bytes |->
                              n > 1 /\ bytes[n - 1] = ESCAPE_SENTRY /\ ~F[n - 1]]
           E == CHOOSE F : RecE(F)
           G == [n \in DOMAIN bytes |-> Decoded(bytes, E, n)]
           RecO(F) == F = [n \in 0 .. Len(bytes) |->
                              IF n = 0 THEN <<>>
                              ELSE F[n - 1] \o IF bytes[n] = ESCAPE_SENTRY /\ ~E[n] THEN <<>>
                                               ELSE IF E[n] THEN <<bytes[n] + 16>> ELSE <<bytes[n]>>]
           O == CHOOSE F : RecO(F)
<1>1. len \in Nat /\ DOMAIN bytes = 1 .. len
    OBVIOUS
<1>2. RecE(E)
    <2> HIDE DEF RecE
    <2>1. \E F : RecE(F)
        BY AnnouncedExists DEF RecE
    <2> QED BY <2>1
<1>3. Announced(bytes, E)
    <2> HIDE DEF E
    <2>1. ASSUME NEW n \in 1 .. len
          PROVE  /\ E[n] = (n > 1 /\ bytes[n - 1] = ESCAPE_SENTRY /\ ~E[n - 1])
        <3> DEFINE J(i) == i > 1 /\ bytes[i - 1] = ESCAPE_SENTRY /\ ~E[i - 1]
        <3>1. E = [i \in 1 .. len |-> J(i)]
            BY <1>1, <1>2, Zenon
        <3> HIDE DEF J
        <3>2. E[n] = J(n)
            BY <3>1
        <3> QED BY <3>2 DEF J
    <2>2. ASSUME NEW n \in 1 .. len
          PROVE  /\ E[n] \in BOOLEAN
                 /\ E[n] <=> n > 1 /\ bytes[n - 1] = ESCAPE_SENTRY /\ ~E[n - 1]
        BY <2>1, Zenon
    <2> QED BY <2>2 DEF Announced
<1> HIDE DEF E
<1>4. \A n \in 1 .. len : G[n] = Decoded(bytes, E, n)
    BY <1>1
<1>5. \A n \in 1 .. len : G[n] \in Seq(Nat)
    <2> TAKE n \in 1 .. len
    <2>0. bytes[n] \in Byte
        <3> HIDE DEF Byte
        <3> QED BY <1>1
    <2>1. bytes[n] \in Nat /\ bytes[n] + 16 \in Nat
        <3>1. \A v \in Byte : v \in Nat /\ v + 16 \in Nat
            BY DEF Byte
        <3> QED BY <2>0, <3>1
    <2>2. <<>> \in Seq(Nat) /\ <<bytes[n]>> \in Seq(Nat) /\ <<bytes[n] + 16>> \in Seq(Nat)
        BY <2>1
    <2> HIDE DEF G
    <2> QED BY <1>4, <2>2, Zenon DEF Decoded
<1>6. ASSUME NEW F PROVE RecO(F) <=> Concatenation(F, len, G)
    <2> DEFINE L == [i \in 0 .. len |-> IF i = 0 THEN <<>> ELSE F[i - 1] \o G[i]]
               R == [i \in 0 .. len |-> IF i = 0 THEN <<>> ELSE F[i - 1] \o Decoded(bytes, E, i)]
    <2>1. RecO(F) <=> F = R
        BY Zenon DEF Decoded, Announces
    <2>2. \A i \in 0 .. len : i = 0 \/ i \in 1 .. len
        BY <1>1
    <2> HIDE DEF G
    <2>3. L = R
        BY <1>4, <2>2, Zenon
    <2>4. Concatenation(F, len, G) <=> F = L
        BY DEF Concatenation
    <2> HIDE DEF R, L, RecO
    <2> QED BY <2>1, <2>3, <2>4
<1>7. \E F : RecO(F)
    <2> HIDE DEF G, len, RecO
    <2>1. \E F : Concatenation(F, len, G)
        BY <1>1, <1>5, ConcatenationExists
    <2> QED BY <1>6, <2>1
<1>8. Unescape(bytes) = [ok |-> Unspoilt(bytes, E), out |-> O[len]]
    BY Zenon DEF Unescape, Unspoilt, Announces, E
<1>9. RecO(O)
    <2> HIDE DEF RecO
    <2> QED BY <1>7
<1>10. Joins(O, len, G)
    <2> HIDE DEF RecO, G, len, O
    <2>1. Concatenation(O, len, G)
        BY <1>6, <1>9
    <2> QED BY <1>1, <2>1, ConcatenationSteps
<1> HIDE DEF O
<1> QED BY <1>3, <1>8, <1>10 DEF DecodedBy

---------------------------------------------------------------------------
(* What is escaped comes back *)

\* A byte behind bytes that end in no announcement is not announced, and one
\* behind an announcement is.
LEMMA AnnouncedNext ==
    ASSUME NEW e \in Seq(Byte), NEW E, Announced(e, E),
           NEW a \in Nat, a + 1 <= Len(e)
    PROVE  /\ a = 0 => ~E[a + 1]
           /\ a > 0 => (E[a + 1] <=> Announces(e, E, a))
<1> DEFINE len == Len(e)  c == a + 1
<1>1. len \in Nat
    OBVIOUS
<1> HIDE DEF len
<1>2. c \in 1 .. len /\ c - 1 = a /\ (c > 1 <=> a > 0)
    BY <1>1 DEF len
<1> HIDE DEF c
<1>3. E[c] \in BOOLEAN /\ (E[c] <=> c > 1 /\ e[c - 1] = ESCAPE_SENTRY /\ ~E[c - 1])
    BY <1>2 DEF Announced, len
<1>4. E[c] \in BOOLEAN /\ (E[c] <=> a > 0 /\ e[a] = ESCAPE_SENTRY /\ ~E[a])
    BY <1>2, <1>3, Zenon
<1>5. a = 0 => ~(a > 0)
    OBVIOUS
<1> QED BY <1>4, <1>5, Zenon DEF Announces, c

\* One byte more is decoded.
LEMMA DecodedNext ==
    ASSUME NEW e \in Seq(Byte), NEW E, NEW O, DecodedBy(e, E, O),
           NEW a \in Nat, a + 1 <= Len(e)
    PROVE  O[a + 1] = O[a] \o Decoded(e, E, a + 1)
<1> DEFINE len == Len(e)  c == a + 1
           G == [n \in DOMAIN e |-> Decoded(e, E, n)]
<1>1. len \in Nat /\ DOMAIN e = 1 .. len
    OBVIOUS
<1>2. c \in 1 .. len /\ c - 1 = a
    BY <1>1
<1>3. Joins(O, len, G)
    BY DEF DecodedBy
<1> HIDE DEF len, c
<1>4. G[c] = Decoded(e, E, c)
    BY <1>1, <1>2
<1> HIDE DEF G
<1>5. O[c] = O[c - 1] \o G[c]
    BY <1>2, <1>3 DEF Joins
<1> QED BY <1>2, <1>4, <1>5, Zenon DEF c

\* A byte that is not special stays one byte, and is decoded as it is.
LEMMA PlainBack ==
    ASSUME NEW e \in Seq(Byte), NEW E, NEW O, Announced(e, E), DecodedBy(e, E, O),
           NEW a \in Nat, a + 1 <= Len(e), a > 0 => ~Announces(e, E, a),
           NEW b, e[a + 1] = b, b # ESCAPE_SENTRY
    PROVE  ~E[a + 1] /\ ~Announces(e, E, a + 1) /\ O[a + 1] = O[a] \o <<b>>
<1>1. ~E[a + 1]
    <2>1. a = 0 \/ a > 0
        OBVIOUS
    <2> QED BY <2>1, AnnouncedNext
<1>2. O[a + 1] = O[a] \o Decoded(e, E, a + 1)
    BY DecodedNext
<1> DEFINE c == a + 1
<1> HIDE DEF c
<1> QED BY <1>1, <1>2, Zenon DEF Announces, Decoded, c

\* A special byte is announced, and decoded at once.
SpecialRead(e, E, O, a, b) ==
    /\ ~E[a + 1] /\ E[a + 2] /\ ~Announces(e, E, a + 2)
    /\ e[a + 2] + 16 = b /\ O[a + 2] = O[a] \o <<b>>

LEMMA SpecialBack ==
    ASSUME NEW e \in Seq(Byte), NEW E, NEW O, Announced(e, E), DecodedBy(e, E, O),
           NEW a \in Nat, a + 2 <= Len(e), a > 0 => ~Announces(e, E, a),
           NEW b \in Special, e[a + 1] = ESCAPE_SENTRY, e[a + 2] = b - 16, NEW S, O[a] \in Seq(S)
    PROVE  SpecialRead(e, E, O, a, b)
<1> DEFINE c == a + 1  d == a + 2
<1>0. c \in Nat /\ c + 1 = d /\ c > 0 /\ c <= Len(e) /\ d <= Len(e) /\ Len(e) \in Nat
    BY DEF Byte
<1>1. ~E[c]
    <2>1. a = 0 \/ a > 0
        OBVIOUS
    <2> QED BY <1>0, <2>1, AnnouncedNext
<1>2. Announces(e, E, c)
    BY <1>1, Zenon DEF Announces
<1> HIDE DEF c
<1>3. E[c + 1]
    BY <1>0, <1>2, AnnouncedNext
<1>4. E[d] /\ ~Announces(e, E, d)
    BY <1>0, <1>3, Zenon DEF Announces
<1>5. O[c] = O[a] \o <<>> /\ O[d] = O[c] \o <<b>> /\ e[d] + 16 = b
    <2>1. O[c] = O[a] \o Decoded(e, E, c)
        BY <1>0, DecodedNext DEF c
    <2>2. O[c + 1] = O[c] \o Decoded(e, E, c + 1)
        BY <1>0, DecodedNext
    <2>3. b - 16 + 16 = b
        BY DEF Special, START_MARKER, END_MARKER, ESCAPE_SENTRY
    <2>4. e[d] + 16 = b
        BY <2>3
    <2> HIDE DEF d
    <2>5. Decoded(e, E, d) = <<b>>
        BY <1>4, <2>4, Zenon DEF Decoded
    <2> QED BY <1>0, <1>2, <2>1, <2>2, <2>4, <2>5, Zenon DEF Decoded
<1>6. O[a] \o <<>> = O[a]
    <2> DEFINE s == O[a]
    <2>1. s \in Seq(S)
        OBVIOUS
    <2> HIDE DEF s
    <2>2. s \o <<>> = s
        BY <2>1, ConcatEmptySeq
    <2> QED BY <2>2 DEF s
<1> QED BY <1>1, <1>4, <1>5, <1>6, Zenon DEF SpecialRead, c, d

\* The first i bytes have come back when their escaped form has been read.
Back(bytes, e, E, O, l, i) ==
    /\ O[l] = SubSeq(bytes, 1, i)
    /\ l > 0 => ~Announces(e, E, l)
    /\ \A k \in 1 .. l : E[k] => e[k] + 16 \in Special

LEMMA BackNext ==
    ASSUME NEW bytes \in Seq(Byte), NEW e \in Seq(Byte), NEW E, NEW O,
           Announced(e, E), DecodedBy(e, E, O),
           NEW i \in 1 .. Len(bytes), NEW a \in Nat, NEW l \in Nat,
           l = a + Len(Coded(bytes[i])), l <= Len(e),
           \A k \in 1 .. Len(Coded(bytes[i])) : e[a + k] = Coded(bytes[i])[k],
           Back(bytes, e, E, O, a, i - 1)
    PROVE  Back(bytes, e, E, O, l, i)
<1> DEFINE b == bytes[i]  s == SubSeq(bytes, 1, i - 1)  t == SubSeq(bytes, 1, i)
<1>1. b \in Byte /\ s \in Seq(Byte) /\ t = s \o <<b>>
    <2>1. i - 1 \in Int /\ i \in 1 .. Len(bytes) /\ 1 \in 1 .. Len(bytes) /\ i \in 1 .. i
        OBVIOUS
    <2>2. t = s \o <<b>>
        <3>1. 1 \in 1 .. Len(bytes) /\ i \in 1 .. Len(bytes)
            BY <2>1
        <3> QED BY <3>1, SubSeqRecursiveSecond
    <2>3. \A k \in 1 .. i - 1 : bytes[k] \in Byte
        <3> HIDE DEF Byte
        <3> QED OBVIOUS
    <2>4. s \in Seq(Byte)
        BY <2>1, <2>3, SubSeqProperties
    <2>5. b \in Byte
        <3> HIDE DEF Byte
        <3> QED BY <2>1
    <2> QED BY <2>2, <2>4, <2>5
<1>2. O[a] = s /\ (a > 0 => ~Announces(e, E, a)) /\ \A k \in 1 .. a : E[k] => e[k] + 16 \in Special
    BY Zenon DEF Back
<1>3. Len(e) \in Nat
    OBVIOUS
<1> HIDE DEF b, s, t
<1>4. CASE b \notin Special
    <2>1. Coded(b) = <<b>> /\ Len(Coded(b)) = 1 /\ Coded(b)[1] = b
        BY <1>1, <1>4, CodedBytes
    <2>2. l = a + 1 /\ e[a + 1] = b /\ b # ESCAPE_SENTRY
        <3>1. 1 \in 1 .. 1 /\ b # ESCAPE_SENTRY
            BY <1>4 DEF Special
        <3> QED BY <2>1, <3>1 DEF b
    <2>3. ~E[a + 1] /\ ~Announces(e, E, a + 1) /\ O[a + 1] = O[a] \o <<b>>
        BY <1>2, <2>2, PlainBack
    <2>4. \A k \in 1 .. l : k \in 1 .. a \/ k = a + 1
        BY <2>2
    <2>5. \A k \in 1 .. l : E[k] => e[k] + 16 \in Special
        BY <1>2, <2>3, <2>4, Zenon
    <2>6. O[l] = t /\ ~Announces(e, E, l)
        BY <1>1, <1>2, <2>2, <2>3, Zenon
    <2> QED BY <2>5, <2>6, Zenon DEF Back, t
<1>5. CASE b \in Special
    <2>1. Len(Coded(b)) = 2 /\ Coded(b)[1] = ESCAPE_SENTRY /\ Coded(b)[2] = b - 16
        BY <1>1, <1>5, CodedBytes
    <2>2. l = a + 2 /\ e[a + 1] = ESCAPE_SENTRY /\ e[a + 2] = b - 16
        <3>1. 1 \in 1 .. 2 /\ 2 \in 1 .. 2
            OBVIOUS
        <3> QED BY <2>1, <3>1 DEF b
    <2>3. O[a] \in Seq(Byte)
        BY <1>1, <1>2, Zenon
    <2>9. a + 2 <= Len(e)
        BY <2>2
    <2>4. /\ ~E[a + 1] /\ E[a + 2] /\ ~Announces(e, E, a + 2)
          /\ e[a + 2] + 16 = b /\ O[a + 2] = O[a] \o <<b>>
        <3>1. SpecialRead(e, E, O, a, b)
            <4> HIDE DEF Byte
            <4> QED BY <1>2, <1>5, <2>2, <2>3, <2>9, SpecialBack
        <3> QED BY <3>1 DEF SpecialRead
    <2>5. \A k \in 1 .. l : k \in 1 .. a \/ k = a + 1 \/ k = a + 2
        BY <2>2
    <2>6. \A k \in 1 .. l : E[k] => e[k] + 16 \in Special
        BY <1>2, <1>5, <2>4, <2>5, Zenon
    <2>7. O[l] = t /\ ~Announces(e, E, l)
        BY <1>1, <1>2, <2>2, <2>4, Zenon
    <2> QED BY <2>6, <2>7, Zenon DEF Back, t
<1> QED BY <1>4, <1>5

\* Bytes that were escaped are unescaped as they were.
LEMMA EscapedComesBack ==
    ASSUME NEW bytes \in Seq(Byte)
    PROVE  Unescape(Escape(bytes)) = [ok |-> TRUE, out |-> bytes]
<1> DEFINE n == Len(bytes)
           e == Escape(bytes)
           G == [i \in DOMAIN bytes |-> Coded(bytes[i])]
<1>1. PICK F : Joins(F, n, G) /\ e = F[n]
    BY EscapeJoins DEF EscapedBy
<1>2. n \in Nat /\ DOMAIN bytes = 1 .. n /\ \A i \in 1 .. n : bytes[i] \in Byte
    OBVIOUS
<1>3. e \in Seq(Byte)
    BY EscapedBytes
<1> HIDE DEF n, e
<1>4. \A i \in 1 .. n : G[i] = Coded(bytes[i]) /\ Coded(bytes[i]) \in Seq(Byte)
    <2>1. \A i \in 1 .. n : G[i] = Coded(bytes[i])
        BY <1>2
    <2> HIDE DEF Byte, G
    <2> QED BY <1>2, <2>1, CodedBytes
<1> HIDE DEF G
<1>5. (\A i \in 0 .. n : F[i] \in Seq(Byte)) /\ Parts(F, n, G)
    <2>1. \A i \in 1 .. n : G[i] \in Seq(Byte)
        BY <1>4
    <2> QED BY <1>1, <1>2, <2>1, ConcatenationParts, Zenon
<1>6. PICK E, O : /\ Announced(e, E) /\ DecodedBy(e, E, O)
                  /\ Unescape(e) = [ok |-> Unspoilt(e, E), out |-> O[Len(e)]]
    BY <1>3, UnescapeJoins
<1> DEFINE B == {i \in 0 .. n : Back(bytes, e, E, O, Len(F[i]), i)}
<1>7. 0 \in B
    <2>1. Len(F[0]) = 0
        BY <1>1, EmptySeq DEF Joins
    <2>2. O[0] = <<>>
        BY <1>6 DEF DecodedBy, Joins
    <2>3. SubSeq(bytes, 1, 0) = <<>>
        BY SubSeqEmpty
    <2>4. 0 \in 0 .. n /\ 1 .. 0 = {} /\ ~(0 > 0)
        BY <1>2
    <2>5. Back(bytes, e, E, O, 0, 0)
        BY <2>2, <2>3, <2>4, Zenon DEF Back
    <2> QED BY <2>1, <2>4, <2>5
<1>8. ASSUME NEW i \in 1 .. n, i - 1 \in B
      PROVE  i \in B
    <2> DEFINE a == Len(F[i - 1])  l == Len(F[i])  c == Coded(bytes[i])
    <2>0. i - 1 \in 0 .. n /\ i \in 0 .. n /\ n \in 0 .. n
        BY <1>2
    <2>1. F[i - 1] \in Seq(Byte) /\ F[i] \in Seq(Byte) /\ c \in Seq(Byte) /\ e \in Seq(Byte)
        BY <1>3, <1>4, <1>5, <2>0, Zenon
    <2>2. a \in Nat /\ l \in Nat /\ Len(c) \in Nat /\ Len(e) \in Nat
        <3> HIDE DEF Byte, c
        <3> QED BY <2>1
    <2>3. l = a + Len(c)
        BY <1>4, <1>5 DEF Parts
    <2>4. l <= Len(e)
        BY <1>1, <1>5, <2>0 DEF Parts, Prefix
    <2>5. \A k \in 1 .. Len(c) : e[a + k] = c[k]
        <3>1. PieceAt(F, n, G, i) /\ G[i] = c
            BY <1>4, <1>5 DEF Parts
        <3> HIDE DEF a, c
        <3> QED BY <1>1, <3>1, Zenon DEF PieceAt, a
    <2>6. Back(bytes, e, E, O, a, i - 1)
        BY <1>8
    <2>7. i \in 1 .. Len(bytes)
        BY DEF n
    <2> HIDE DEF a, l
    <2>8. Back(bytes, e, E, O, l, i)
        BY <1>3, <1>6, <2>2, <2>3, <2>4, <2>5, <2>6, <2>7, BackNext
    <2> QED BY <2>0, <2>8 DEF l
<1> HIDE DEF B
<1>9. \A i \in 0 .. n : i \in B
    BY <1>2, <1>7, <1>8, UpTo
<1>10. Back(bytes, e, E, O, Len(e), n)
    <2>1. n \in 0 .. n
        BY <1>2
    <2> QED BY <1>1, <1>9, <2>1 DEF B
<1>11. O[Len(e)] = bytes
    BY <1>10, SubSeqFull DEF Back, n
<1>12. Unspoilt(e, E)
    <2>1. DOMAIN e = 1 .. Len(e) /\ Len(e) \in Nat /\ \A k \in DOMAIN e : k > 0
        BY <1>3
    <2>2. \A k \in DOMAIN e : E[k] => e[k] + 16 \in Special
        BY <1>10, <2>1, Zenon DEF Back
    <2>3. \A k \in DOMAIN e : k = Len(e) => ~Announces(e, E, k)
        BY <1>10, <2>1, Zenon DEF Back
    <2> QED BY <2>2, <2>3, Zenon DEF Unspoilt
<1>13. Unspoilt(e, E) = TRUE
    BY <1>12
<1> QED BY <1>6, <1>11, <1>13, Zenon DEF e

---------------------------------------------------------------------------
(* Packing *)

LEMMA ChecksumIsByte ==
    ASSUME NEW bytes \in Seq(Byte)
    PROVE  Checksum(bytes) \in Byte
<1> DEFINE n == Len(bytes)
           Rec(F) == F = [i \in 0 .. Len(bytes) |-> IF i = 0 THEN 0 ELSE (F[i - 1] + bytes[i]) % 256]
           Sum == CHOOSE F : Rec(F)
           step == [p \in Byte \X (1 .. n) |-> (p[1] + bytes[p[2]]) % 256]
<1>1. n \in Nat /\ \A i \in 1 .. n : bytes[i] \in Byte
    <2> HIDE DEF Byte
    <2> QED OBVIOUS
<1>2. \A x, y \in Byte : (x + y) % 256 \in Byte
    BY DEF Byte
<1>3. step \in [Byte \X (1 .. n) -> Byte]
    <2> HIDE DEF Byte, n
    <2> QED BY <1>1, <1>2
<1>4. 0 \in Byte
    BY DEF Byte
<1> HIDE DEF n, step
<1>5. PICK f \in [0 .. n -> Byte] : Steps(f, n, 0, step)
    BY <1>1, <1>3, <1>4, Recursion
<1>6. \A i \in 1 .. n : f[i] = (f[i - 1] + bytes[i]) % 256
    <2> TAKE i \in 1 .. n
    <2>1. f[i] = step[<<f[i - 1], i>>]
        BY <1>5 DEF Steps
    <2>2. <<f[i - 1], i>> \in Byte \X (1 .. n)
        <3> HIDE DEF Byte
        <3>1. i - 1 \in 0 .. n
            BY <1>1
        <3> QED BY <1>1, <3>1
    <2> QED BY <2>1, <2>2 DEF step
<1>7. f[0] = 0
    BY <1>5 DEF Steps
<1>8. f = [i \in 0 .. n |-> IF i = 0 THEN 0 ELSE (f[i - 1] + bytes[i]) % 256]
    <2>1. \A i \in 0 .. n : i = 0 \/ i \in 1 .. n
        BY <1>1
    <2>2. \A i \in 0 .. n : f[i] = IF i = 0 THEN 0 ELSE (f[i - 1] + bytes[i]) % 256
        BY <1>6, <1>7, <2>1, Zenon
    <2>3. f = [i \in 0 .. n |-> f[i]]
        OBVIOUS
    <2> QED BY <2>2, <2>3, Zenon
<1>9. Rec(f)
    BY <1>8, Zenon DEF n
<1>10. Rec(Sum)
    <2> HIDE DEF Rec
    <2> QED BY <1>9
<1>11. Checksum(bytes) = Sum[n]
    BY DEF Checksum, n
<1> HIDE DEF Sum
<1>12. Sum[0] = 0 /\ \A i \in 1 .. n : Sum[i] = (Sum[i - 1] + bytes[i]) % 256
    <2> DEFINE J(i) == (Sum[i - 1] + bytes[i]) % 256
    <2>1. Sum = [i \in 0 .. n |-> IF i = 0 THEN 0 ELSE J(i)]
        BY <1>10, Zenon DEF n
    <2> HIDE DEF J, Rec
    <2>2. Sum[0] = 0 /\ \A i \in 1 .. n : Sum[i] = J(i)
        BY <1>1, <2>1
    <2> QED BY <2>2 DEF J
<1> DEFINE A == {i \in 0 .. n : Sum[i] \in Byte}
<1>13. 0 \in A
    BY <1>1, <1>4, <1>12
<1>14. ASSUME NEW i \in 1 .. n, i - 1 \in A PROVE i \in A
    <2>1. Sum[i - 1] \in Byte /\ bytes[i] \in Byte /\ Sum[i] = (Sum[i - 1] + bytes[i]) % 256
        BY <1>1, <1>12, <1>14
    <2>2. Sum[i] \in Byte /\ i \in 0 .. n
        BY <1>1, <1>2, <2>1
    <2> QED BY <2>2
<1> HIDE DEF A, Rec
<1>15. \A i \in 0 .. n : i \in A
    BY <1>1, <1>13, <1>14, UpTo
<1>16. n \in 0 .. n
    BY <1>1
<1> QED BY <1>11, <1>15, <1>16 DEF A

\* A sequence between two elements.
Between(p, x, e, y) ==
    /\ Len(p) = Len(e) + 2 /\ p[1] = x /\ p[Len(p)] = y
    /\ \A k \in 1 .. Len(e) : p[k + 1] = e[k]
    /\ SubSeq(p, 2, Len(p) - 1) = e

LEMMA Enclosed ==
    ASSUME NEW S, NEW x \in S, NEW y \in S, NEW e \in Seq(S)
    PROVE  <<x>> \o e \o <<y>> \in Seq(S) /\ Between(<<x>> \o e \o <<y>>, x, e, y)
<1> DEFINE p == <<x>> \o e \o <<y>>  l == Len(e)  q == SubSeq(p, 2, Len(p) - 1)
<1>1. p \in Seq(S) /\ Len(p) = l + 2 /\ l \in Nat
    OBVIOUS
<1>2. p[1] = x /\ p[l + 2] = y /\ \A k \in 1 .. l : p[k + 1] = e[k]
    OBVIOUS
<1> HIDE DEF p
<1>3. \A i \in 2 .. Len(p) - 1 : p[i] \in S
    BY <1>1
<1>4. /\ q \in Seq(S) /\ Len(q) = l
      /\ \A i \in 1 .. l : q[i] = p[i + 1]
    <2> DEFINE m == Len(p) - 1
    <2>1. m \in Int /\ 2 \in Int /\ m - 2 + 1 = l /\ (2 <= m <=> l > 0)
        BY <1>1
    <2>2. \A i \in 1 .. l : 2 + i - 1 = i + 1
        BY <1>1
    <2> HIDE DEF m
    <2>3. /\ SubSeq(p, 2, m) \in Seq(S)
          /\ Len(SubSeq(p, 2, m)) = IF 2 <= m THEN m - 2 + 1 ELSE 0
          /\ \A i \in 1 .. m - 2 + 1 : SubSeq(p, 2, m)[i] = p[2 + i - 1]
        BY <1>3, <2>1, SubSeqProperties DEF m
    <2>4. Len(SubSeq(p, 2, m)) = l
        BY <1>1, <2>1, <2>3
    <2> HIDE DEF l
    <2> QED BY <2>1, <2>2, <2>3, <2>4 DEF m
<1> HIDE DEF q
<1>5. q = e
    <2>1. \A i \in 1 .. l : q[i] = e[i]
        BY <1>2, <1>4, Zenon
    <2> QED BY <1>1, <1>4, <2>1, SeqEqual
<1> QED BY <1>1, <1>2, <1>5 DEF Between, p, q

\* What is where in two sequences put together.
Together(u, s, t) ==
    /\ Len(u) = Len(s) + Len(t)
    /\ \A k \in 1 .. Len(s) : u[k] = s[k]
    /\ \A k \in 1 .. Len(t) : u[Len(s) + k] = t[k]

LEMMA Joined ==
    ASSUME NEW S, NEW s \in Seq(S), NEW t \in Seq(S)
    PROVE  s \o t \in Seq(S) /\ Together(s \o t, s, t)
BY DEF Together

Regroups(s, t, u) == (s \o t) \o u = s \o (t \o u)

LEMMA Regrouped ==
    ASSUME NEW S, NEW s \in Seq(S), NEW t \in Seq(S), NEW u \in Seq(S)
    PROVE  Regroups(s, t, u)
BY ConcatAssociative DEF Regroups

\* A part is what its elements are.
LEMMA PartIs ==
    ASSUME NEW S, NEW b \in Seq(S), NEW t \in Seq(S), NEW m \in Nat, NEW n \in Int,
           m > 0, n = m + Len(t) - 1, n <= Len(b), \A i \in 1 .. Len(t) : b[m + i - 1] = t[i]
    PROVE  SubSeq(b, m, n) = t
<1> DEFINE q == SubSeq(b, m, n)  l == Len(t)
<1>1. l \in Nat /\ Len(b) \in Nat
    OBVIOUS
<1>2. \A i \in m .. n : b[i] \in S
    BY <1>1
<1>3. q \in Seq(S) /\ Len(q) = (IF m <= n THEN n - m + 1 ELSE 0)
      /\ \A i \in 1 .. n - m + 1 : q[i] = b[m + i - 1]
    BY <1>2, SubSeqProperties
<1> HIDE DEF q, l
<1>4. n = m + l - 1
    BY DEF l
<1>5. n - m + 1 = l /\ (m <= n <=> l > 0)
    BY <1>1, <1>4
<1>6. Len(q) = l
    BY <1>1, <1>3, <1>5
<1>7. \A i \in 1 .. l : q[i] = t[i]
    <2>1. \A i \in 1 .. l : b[m + i - 1] = t[i]
        BY DEF l
    <2> QED BY <1>3, <1>5, <2>1, Zenon
<1>8. q = t
    BY <1>3, <1>6, <1>7, SeqEqual DEF l
<1> QED BY <1>8 DEF q

LEMMA SizeIsBytes ==
    ASSUME NEW n \in Nat
    PROVE  SizeBytes(n) \in Seq(Byte) /\ Len(SizeBytes(n)) = 4
<1>1. \A x \in Nat : x % 256 \in Byte
    BY DEF Byte
<1>2. n \div 16777216 \in Nat /\ n \div 65536 \in Nat /\ n \div 256 \in Nat
    OBVIOUS
<1> DEFINE w == (n \div 16777216) % 256  x == (n \div 65536) % 256  y == (n \div 256) % 256
           z == n % 256
<1>3. w \in Byte /\ x \in Byte /\ y \in Byte /\ z \in Byte
    BY <1>1, <1>2
<1> HIDE DEF w, x, y, z
<1>4. <<w, x, y, z>> \in Seq(Byte) /\ Len(<<w, x, y, z>>) = 4
    <2> HIDE DEF Byte
    <2> QED BY <1>3
<1> QED BY <1>4 DEF SizeBytes, w, x, y, z

\* The frames that can be sent, and what goes out between the markers.
Frames == [type : KnownTypes, seq : Byte, data : Seq(Byte)]
Content(frame) == <<frame.type, frame.seq>> \o SizeBytes(Len(frame.data)) \o frame.data
Summed(frame) == Append(Content(frame), Checksum(Content(frame)))

LEMMA Contents ==
    ASSUME NEW frame \in Frames
    PROVE  LET c == Content(frame)  b == Summed(frame)  len == Len(b)
           IN  /\ c \in Seq(Byte) /\ b \in Seq(Byte) /\ len >= 7
               /\ b[1] = frame.type /\ b[2] = frame.seq /\ b[len] = Checksum(c)
               /\ SubSeq(b, 1, len - 1) = c
               /\ SubSeq(b, 3, 6) = SizeBytes(Len(frame.data))
               /\ SubSeq(b, 7, len - 1) = frame.data
<1> DEFINE x == frame.type  y == frame.seq  s == SizeBytes(Len(frame.data))  d == frame.data
           c == <<x, y>> \o s \o d  k == Checksum(c)  b == Append(c, k)
           l == Len(d)  len == Len(b)
<1>1. x \in Byte /\ y \in Byte /\ d \in Seq(Byte)
    <2>1. KnownTypes \subseteq Byte
        BY DEF KnownTypes, Byte
    <2> HIDE DEF Byte
    <2> QED BY <2>1 DEF Frames
<1>2. l \in Nat
    <2> HIDE DEF Byte
    <2> QED BY <1>1
<1>3. s \in Seq(Byte) /\ Len(s) = 4
    BY <1>2, SizeIsBytes
<1> HIDE DEF x, y, s, d
<1>4. /\ c \in Seq(Byte) /\ Len(c) = l + 6
      /\ c[1] = x /\ c[2] = y /\ \A i \in 1 .. 4 : c[2 + i] = s[i]
      /\ \A i \in 1 .. l : c[6 + i] = d[i]
    <2> DEFINE h == <<x, y>>  g == h \o s
    <2> HIDE DEF Byte
    <2>1. h \in Seq(Byte) /\ Len(h) = 2 /\ h[1] = x /\ h[2] = y
        BY <1>1
    <2> HIDE DEF h
    <2>2. g \in Seq(Byte) /\ Together(g, h, s)
        BY <1>3, <2>1, Joined
    <2>3. 1 \in 1 .. 2 /\ 2 \in 1 .. 2
        OBVIOUS
    <2> HIDE DEF g
    <2>4. Len(g) = 6 /\ g[1] = x /\ g[2] = y /\ \A i \in 1 .. 4 : g[2 + i] = s[i]
        BY <1>3, <2>1, <2>2, <2>3 DEF Together
    <2>5. g \o d \in Seq(Byte) /\ Together(g \o d, g, d)
        BY <1>1, <2>2, Joined
    <2>6. g \o d = c
        BY DEF g, h
    <2> HIDE DEF c
    <2>7. \A i \in 1 .. 4 : 2 + i \in 1 .. 6
        OBVIOUS
    <2>8. 1 \in 1 .. 6 /\ 2 \in 1 .. 6
        OBVIOUS
    <2>9. Len(c) = l + 6
        BY <1>2, <2>4, <2>5, <2>6 DEF Together
    <2>10. (\A i \in 1 .. 6 : c[i] = g[i]) /\ \A i \in 1 .. l : c[6 + i] = d[i]
        BY <2>4, <2>5, <2>6, Zenon DEF Together
    <2> QED BY <2>4, <2>5, <2>6, <2>7, <2>8, <2>9, <2>10, Zenon
<1>5. /\ c[1] = x /\ c[2] = y /\ \A i \in 1 .. 4 : c[2 + i] = s[i]
      /\ \A i \in 1 .. l : c[6 + i] = d[i]
    BY <1>4
<1>6. k \in Byte
    BY <1>4, ChecksumIsByte
<1> HIDE DEF c, k
<1>7. b \in Seq(Byte) /\ len = l + 7 /\ b[len] = k /\ \A i \in 1 .. l + 6 : b[i] = c[i]
    <2> HIDE DEF Byte
    <2> QED BY <1>2, <1>4, <1>6
<1> HIDE DEF b, len, l
<1>8. /\ 1 \in 1 .. l + 6 /\ 2 \in 1 .. l + 6 /\ \A i \in 1 .. 4 : 2 + i \in 1 .. l + 6
      /\ \A i \in 1 .. l : 6 + i \in 1 .. l + 6
    BY <1>2
<1>9. b[1] = x /\ b[2] = y
    BY <1>5, <1>7, <1>8, Zenon
<1>10. SubSeq(b, 1, len - 1) = c
    <2>1. \A i \in 1 .. Len(c) : b[1 + i - 1] = c[i]
        BY <1>4, <1>7
    <2>2. len - 1 = 1 + Len(c) - 1 /\ len - 1 <= Len(b) /\ len - 1 \in Int
        BY <1>2, <1>4, <1>7 DEF len
    <2> HIDE DEF Byte
    <2> QED BY <1>4, <1>7, <2>1, <2>2, PartIs
<1>11. SubSeq(b, 3, 6) = s
    <2>1. \A i \in 1 .. Len(s) : b[3 + i - 1] = s[i]
        <3>1. \A i \in 1 .. 4 : b[2 + i] = s[i]
            BY <1>5, <1>7, <1>8, Zenon
        <3>2. \A i \in 1 .. 4 : 3 + i - 1 = 2 + i
            OBVIOUS
        <3> QED BY <1>3, <3>1, <3>2, Zenon
    <2>2. 6 = 3 + Len(s) - 1 /\ 6 <= Len(b)
        BY <1>2, <1>3, <1>7 DEF len
    <2> HIDE DEF Byte
    <2> QED BY <1>3, <1>7, <2>1, <2>2, PartIs
<1>12. SubSeq(b, 7, len - 1) = d
    <2>1. \A i \in 1 .. Len(d) : b[7 + i - 1] = d[i]
        <3>1. \A i \in 1 .. l : b[6 + i] = d[i]
            BY <1>5, <1>7, <1>8, Zenon
        <3>2. \A i \in 1 .. l : 7 + i - 1 = 6 + i
            BY <1>2
        <3> QED BY <3>1, <3>2, Zenon DEF l
    <2>2. len - 1 = 7 + Len(d) - 1 /\ len - 1 <= Len(b) /\ len - 1 \in Int
        BY <1>2, <1>7 DEF len, l
    <2> HIDE DEF Byte
    <2> QED BY <1>1, <1>7, <2>1, <2>2, PartIs
<1>13. len >= 7
    BY <1>2, <1>7
<1>14. Content(frame) = c /\ Summed(frame) = b
    BY DEF Content, Summed, b, c, k, x, y, s, d
<1> QED BY <1>4, <1>7, <1>9, <1>10, <1>11, <1>12, <1>13, <1>14, Zenon DEF len, k, x, y, s, d

\* Pack and unpack_full of packet.rs: a frame that is packed lies between its
\* markers, has no marker in it, and is unpacked as it was.
Whole(piece, frame) ==
    /\ Len(piece) >= 2 /\ piece[1] = START_MARKER /\ piece[Len(piece)] = END_MARKER
    /\ \A k \in 2 .. Len(piece) - 1 : piece[k] \notin {START_MARKER, END_MARKER}
    /\ UnpackFull(piece) = [result |-> "Ok", frame |-> frame]

THEOREM PackUnpack ==
    ASSUME NEW frame \in Frames
    PROVE  Pack(frame) \in Seq(Byte) /\ Whole(Pack(frame), frame)
<1> DEFINE c == Content(frame)  b == Summed(frame)  e == Escape(b)
           p == <<START_MARKER>> \o e \o <<END_MARKER>>
<1>1. /\ c \in Seq(Byte) /\ b \in Seq(Byte) /\ Len(b) >= 7
      /\ b[1] = frame.type /\ b[2] = frame.seq /\ b[Len(b)] = Checksum(c)
      /\ SubSeq(b, 1, Len(b) - 1) = c
      /\ SubSeq(b, 3, 6) = SizeBytes(Len(frame.data))
      /\ SubSeq(b, 7, Len(b) - 1) = frame.data
    BY Contents
<1>2. Pack(frame) = p
    BY DEF Pack, Summed, Content
<1> HIDE DEF c, b
<1>3. /\ e \in Seq(Byte) /\ \A k \in 1 .. Len(e) : e[k] \notin {START_MARKER, END_MARKER}
      /\ Unescape(e) = [ok |-> TRUE, out |-> b]
    BY <1>1, EscapedBytes, EscapedComesBack
<1> HIDE DEF e
<1>4. START_MARKER \in Byte /\ END_MARKER \in Byte
    BY DEF START_MARKER, END_MARKER, Byte
<1>5. p \in Seq(Byte) /\ Between(p, START_MARKER, e, END_MARKER)
    BY <1>3, <1>4, Enclosed
<1> HIDE DEF p
<1>6. Len(p) \in Nat /\ Len(e) \in Nat /\ Len(p) = Len(e) + 2
    BY <1>3, <1>5 DEF Between
<1>7. \A k \in 2 .. Len(p) - 1 : p[k] \notin {START_MARKER, END_MARKER}
    <2> TAKE k \in 2 .. Len(p) - 1
    <2>1. k - 1 \in 1 .. Len(e) /\ (k - 1) + 1 = k
        BY <1>6
    <2>2. p[(k - 1) + 1] = e[k - 1]
        BY <1>5, <2>1 DEF Between
    <2> QED BY <1>3, <2>1, <2>2
<1>8. UnpackFull(p) = [result |-> "Ok", frame |-> frame]
    <2>1. ~(Len(p) < 2) /\ p[1] = START_MARKER /\ p[Len(p)] = END_MARKER
        BY <1>5, <1>6 DEF Between
    <2>2. SubSeq(p, 2, Len(p) - 1) = e
        BY <1>5 DEF Between
    <2>3. Unescape(e).ok /\ Unescape(e).out = b
        BY <1>3
    <2>4. ~(Len(b) < 7)
        <3>1. Len(b) \in Nat
            BY <1>1
        <3> QED BY <1>1, <3>1
    <2>5. TypeFrom(b[1]) = frame.type
        BY <1>1 DEF Frames, TypeFrom
    <2>6. frame = [type |-> frame.type, seq |-> frame.seq, data |-> frame.data]
        BY DEF Frames
    <2> QED BY <1>1, <2>1, <2>2, <2>3, <2>4, <2>5, <2>6, Zenon DEF UnpackFull
<1> QED BY <1>2, <1>5, <1>6, <1>7, <1>8 DEF Whole, Between

---------------------------------------------------------------------------
(* Cutting *)

Slices(s, n) ==
    /\ Len(Upto(s, n)) = n /\ Len(Beyond(s, n)) = Len(s) - n
    /\ \A k \in 1 .. n : Upto(s, n)[k] = s[k]
    /\ \A k \in 1 .. Len(s) - n : Beyond(s, n)[k] = s[n + k]
    /\ Upto(s, n) \o Beyond(s, n) = s

LEMMA Sliced ==
    ASSUME NEW S, NEW s \in Seq(S), NEW n \in 0 .. Len(s)
    PROVE  Upto(s, n) \in Seq(S) /\ Beyond(s, n) \in Seq(S) /\ Slices(s, n)
<1> DEFINE l == Len(s)  u == Upto(s, n)  b == Beyond(s, n)
<1>1. l \in Nat /\ \A k \in 1 .. l : s[k] \in S
    OBVIOUS
<1> HIDE DEF l, u, b
<1>2. n \in 0 .. l /\ n \in Int /\ l \in Int /\ 1 \in Int /\ n + 1 \in Int
    BY <1>1 DEF l
<1>3. u \in Seq(S) /\ Len(u) = n /\ \A k \in 1 .. n : u[k] = s[k]
    <2>1. \A k \in 1 .. n : s[k] \in S
        BY <1>1, <1>2
    <2>2. /\ SubSeq(s, 1, n) \in Seq(S)
          /\ Len(SubSeq(s, 1, n)) = IF 1 <= n THEN n - 1 + 1 ELSE 0
          /\ \A i \in 1 .. n - 1 + 1 : SubSeq(s, 1, n)[i] = s[1 + i - 1]
        BY <1>2, <2>1, SubSeqProperties
    <2>3. n - 1 + 1 = n /\ (1 <= n \/ n = 0) /\ \A i \in 1 .. n : 1 + i - 1 = i
        BY <1>2
    <2> QED BY <2>2, <2>3 DEF u, Upto
<1>4. b \in Seq(S) /\ Len(b) = l - n /\ \A k \in 1 .. l - n : b[k] = s[n + k]
    <2>1. \A k \in n + 1 .. l : s[k] \in S
        BY <1>1, <1>2
    <2> DEFINE m == n + 1
    <2>0. m \in Int
        BY <1>2
    <2>2. /\ SubSeq(s, m, l) \in Seq(S)
          /\ Len(SubSeq(s, m, l)) = IF m <= l THEN l - m + 1 ELSE 0
          /\ \A i \in 1 .. l - m + 1 : SubSeq(s, m, l)[i] = s[m + i - 1]
        BY <1>2, <2>0, <2>1, SubSeqProperties
    <2>3. /\ l - m + 1 = l - n /\ (m <= l \/ l - n = 0) /\ (~(m <= l) => l - n = 0)
          /\ \A i \in 1 .. l - n : m + i - 1 = n + i
        BY <1>2
    <2>4. b = SubSeq(s, m, l)
        BY DEF b, Beyond, l
    <2> HIDE DEF m
    <2> QED BY <2>2, <2>3, <2>4, Zenon
<1>5. u \o b = s
    <2>1. 1 \in 1 .. l + 1 /\ n \in 1 - 1 .. l /\ l \in n .. l
        BY <1>2
    <2>2. SubSeq(s, 1, n) \o SubSeq(s, n + 1, l) = SubSeq(s, 1, l)
        BY <2>1, ConcatAdjacentSubSeq DEF l
    <2>3. SubSeq(s, 1, l) = s
        BY SubSeqFull DEF l
    <2> QED BY <2>2, <2>3, Zenon DEF u, b, Upto, Beyond, l
<1> QED BY <1>3, <1>4, <1>5 DEF Slices, u, b, l

\* The first marker, if there is one.
LEMMA FirstFound ==
    ASSUME NEW bytes \in Seq(Byte), NEW marker
    PROVE  LET n == First(bytes, marker)
           IN  /\ n = 0 => \A k \in 1 .. Len(bytes) : bytes[k] # marker
               /\ n # 0 => /\ n \in 1 .. Len(bytes) /\ bytes[n] = marker
                           /\ \A k \in 1 .. n - 1 : bytes[k] # marker
               /\ n \in 0 .. Len(bytes)
<1> DEFINE at == {n \in DOMAIN bytes : bytes[n] = marker}
           f == First(bytes, marker)
<1>1. DOMAIN bytes = 1 .. Len(bytes) /\ Len(bytes) \in Nat
    OBVIOUS
<1>2. f = IF at = {} THEN 0 ELSE CHOOSE n \in at : \A m \in at : n <= m
    BY DEF First
<1>3. CASE at = {}
    <2>1. f = 0 /\ \A k \in 1 .. Len(bytes) : bytes[k] # marker
        BY <1>1, <1>2, <1>3
    <2> HIDE DEF f
    <2> QED BY <1>1, <2>1 DEF f
<1>4. CASE at # {}
    <2>1. at \in SUBSET Nat
        BY <1>1
    <2> HIDE DEF at
    <2>2. \E n \in at : \A m \in at : n <= m
        BY <1>4, <2>1, LeastElement
    <2>3. f \in at /\ \A m \in at : f <= m
        BY <1>2, <1>4, <2>2
    <2> HIDE DEF f
    <2>4. f \in 1 .. Len(bytes) /\ bytes[f] = marker
        BY <1>1, <2>3 DEF at
    <2>5. \A k \in 1 .. f - 1 : bytes[k] # marker
        <3> SUFFICES ASSUME NEW k \in 1 .. f - 1, bytes[k] = marker PROVE FALSE
            OBVIOUS
        <3>1. k \in at
            BY <1>1, <2>4 DEF at
        <3> QED BY <2>3, <2>4, <3>1
    <2> QED BY <1>1, <2>4, <2>5 DEF f
<1> QED BY <1>3, <1>4

LEMMA NextFrameTyped ==
    ASSUME NEW buffer \in Seq(Byte)
    PROVE  NextFrame(buffer).cut \in Seq(Byte) /\ NextFrame(buffer).rest \in Seq(Byte)
<1> DEFINE start == First(buffer, START_MARKER)
           from == SubSeq(buffer, start, Len(buffer))
           end == First(from, END_MARKER)
<1>1. start \in 0 .. Len(buffer) /\ Len(buffer) \in Nat
    BY FirstFound
<1>2. CASE start = 0
    <2>1. NextFrame(buffer) = [cut |-> <<>>, rest |-> buffer]
        BY <1>2 DEF NextFrame
    <2>2. <<>> \in Seq(Byte)
        OBVIOUS
    <2> QED BY <2>1, <2>2
<1>3. CASE start # 0
    <2> HIDE DEF start
    <2>1. \A k \in start .. Len(buffer) : buffer[k] \in Byte
        <3> HIDE DEF Byte
        <3> QED BY <1>1, <1>3
    <2>2. from \in Seq(Byte)
        BY <1>1, <2>1, SubSeqProperties
    <2> HIDE DEF from
    <2>3. end \in 0 .. Len(from) /\ Len(from) \in Nat
        <3>1. end \in 0 .. Len(from)
            BY <2>2, FirstFound
        <3> HIDE DEF Byte, end
        <3> QED BY <2>2, <3>1
    <2> HIDE DEF end
    <2>4. CASE end = 0
        <3>1. NextFrame(buffer) = [cut |-> <<>>, rest |-> from]
            BY <1>3, <2>4 DEF NextFrame, start, from, end
        <3>2. <<>> \in Seq(Byte)
            OBVIOUS
        <3> QED BY <2>2, <3>1, <3>2
    <2>5. CASE end # 0
        <3>1. NextFrame(buffer) = [cut |-> Upto(from, end), rest |-> Beyond(from, end)]
            BY <1>3, <2>5 DEF NextFrame, start, from, end, Upto, Beyond
        <3>2. Upto(from, end) \in Seq(Byte) /\ Beyond(from, end) \in Seq(Byte)
            BY <2>2, <2>3, Sliced
        <3> QED BY <3>1, <3>2
    <2> QED BY <2>4, <2>5
<1> QED BY <1>2, <1>3

\* What unpack_full makes of any bytes it accepts.
Received == [type : KnownTypes \union {255}, seq : Nat, data : Seq(Nat)]

LEMMA UnpackedTyped ==
    ASSUME NEW piece \in Seq(Byte), UnpackFull(piece).result = "Ok"
    PROVE  UnpackFull(piece).frame \in Received
<1> DEFINE e == SubSeq(piece, 2, Len(piece) - 1)  u == UnpackFull(piece)
           b == Unescape(e).out
           f == [type |-> TypeFrom(b[1]), seq |-> b[2], data |-> SubSeq(b, 7, Len(b) - 1)]
<1>1. ~(Len(piece) < 2) /\ ~(~Unescape(e).ok \/ Len(b) < 7) /\ u = [result |-> "Ok", frame |-> f]
    <2> DEFINE A == Len(piece) < 2  B == piece[1] # START_MARKER  C == piece[Len(piece)] # END_MARKER
               D == ~Unescape(e).ok \/ Len(b) < 7
               E == b[Len(b)] # Checksum(SubSeq(b, 1, Len(b) - 1))
               F == SubSeq(b, 3, 6) # SizeBytes(Len(SubSeq(b, 7, Len(b) - 1)))
    <2>1. u = IF A THEN Rejected("Incomplete") ELSE IF B THEN Rejected("BadMarker")
              ELSE IF C THEN Rejected("Incomplete")
              ELSE IF D THEN Rejected("Malformed") ELSE IF E THEN Rejected("BadChecksum")
              ELSE IF F THEN Rejected("Malformed") ELSE [result |-> "Ok", frame |-> f]
        BY Zenon DEF UnpackFull
    <2>2. u.result = "Ok"
        OBVIOUS
    <2> HIDE DEF A, B, C, D, E, F, f, u
    <2>3. ~A /\ ~D /\ u = [result |-> "Ok", frame |-> f]
        BY <2>1, <2>2 DEF Rejected
    <2> QED BY <2>3 DEF A, D
<1>2. e \in Seq(Byte)
    <2>1. Len(piece) \in Nat /\ \A k \in 2 .. Len(piece) - 1 : piece[k] \in Byte
        <3> HIDE DEF Byte
        <3> QED OBVIOUS
    <2> QED BY <2>1, SubSeqProperties
<1> HIDE DEF e
<1>3. PICK E, O : /\ Announced(e, E) /\ DecodedBy(e, E, O)
                  /\ Unescape(e) = [ok |-> Unspoilt(e, E), out |-> O[Len(e)]]
    BY <1>2, UnescapeJoins
<1>4. b \in Seq(Nat)
    <2> DEFINE G == [n \in DOMAIN e |-> Decoded(e, E, n)]
    <2>1. DOMAIN e = 1 .. Len(e) /\ Len(e) \in Nat
        <3> HIDE DEF Byte
        <3> QED BY <1>2
    <2>2. \A n \in 1 .. Len(e) : G[n] \in Seq(Nat)
        <3> TAKE n \in 1 .. Len(e)
        <3>1. \A v \in Byte : v \in Nat /\ v + 16 \in Nat
            BY DEF Byte
        <3>2. e[n] \in Byte
            <4> HIDE DEF Byte
            <4> QED BY <1>2, <2>1
        <3>3. e[n] \in Nat /\ e[n] + 16 \in Nat
            BY <3>1, <3>2
        <3>4. <<>> \in Seq(Nat) /\ <<e[n]>> \in Seq(Nat) /\ <<e[n] + 16>> \in Seq(Nat)
            BY <3>3
        <3>5. G[n] = Decoded(e, E, n)
            BY <2>1
        <3> HIDE DEF G
        <3> QED BY <3>4, <3>5, Zenon DEF Decoded
    <2> HIDE DEF G
    <2>3. Joins(O, Len(e), G)
        BY <1>3 DEF DecodedBy, G
    <2>4. \A i \in 0 .. Len(e) : O[i] \in Seq(Nat)
        BY <2>1, <2>2, <2>3, ConcatenationParts
    <2>5. Len(e) \in 0 .. Len(e)
        BY <2>1
    <2>6. O[Len(e)] \in Seq(Nat)
        BY <2>4, <2>5
    <2> QED BY <1>3, <2>6
<1> HIDE DEF b
<1>5. b[2] \in Nat /\ TypeFrom(b[1]) \in KnownTypes \union {255}
    <2>1. b[2] \in Nat
        BY <1>1, <1>4
    <2>2. TypeFrom(b[1]) \in KnownTypes \union {255}
        BY DEF TypeFrom
    <2> QED BY <2>1, <2>2
<1>6. SubSeq(b, 7, Len(b) - 1) \in Seq(Nat)
    <2> DEFINE m == Len(b) - 1
    <2>1. Len(b) \in Nat /\ m \in Int /\ \A k \in 7 .. m : b[k] \in Nat
        BY <1>4
    <2> HIDE DEF m
    <2>2. SubSeq(b, 7, m) \in Seq(Nat)
        BY <2>1, SubSeqProperties
    <2> QED BY <2>2 DEF m
<1>7. f \in Received
    <2> DEFINE type == TypeFrom(b[1])  data == SubSeq(b, 7, Len(b) - 1)
    <2> HIDE DEF type, data
    <2>1. type \in KnownTypes \union {255} /\ data \in Seq(Nat) /\ b[2] \in Nat
        BY <1>5, <1>6 DEF type, data
    <2>2. f = [type |-> type, seq |-> b[2], data |-> data]
        BY DEF type, data
    <2> HIDE DEF f
    <2> QED BY <2>1, <2>2 DEF Received
<1> HIDE DEF f
<1> QED BY <1>1, <1>7

\* The ACK of a frame that was unpacked can be sent.
LEMMA AckSendable ==
    ASSUME NEW piece \in Seq(Byte), UnpackFull(piece).result = "Ok"
    PROVE  AckFor(UnpackFull(piece).frame) \in Frames
<1> DEFINE f == UnpackFull(piece).frame
<1>1. f.seq \in Nat
    BY UnpackedTyped DEF Received
<1> HIDE DEF f
<1>2. (1 - f.seq) % 256 \in Byte /\ AckType \in KnownTypes
    <2>1. \A x \in Int : x % 256 \in Byte
        BY DEF Byte
    <2>2. 1 - f.seq \in Int
        BY <1>1
    <2> QED BY <2>1, <2>2 DEF AckType, KnownTypes
<1>3. <<>> \in Seq(Byte)
    OBVIOUS
<1>4. AckFor(f) \in Frames
    BY <1>2, <1>3 DEF AckFor, Frames
<1> QED BY <1>4 DEF f

---------------------------------------------------------------------------
(* Types *)

\* The bytes of the frames of a script, and what there is after i of them.
Pieces(s) == [i \in DOMAIN s |-> Pack(s[i])]

LEMMA ScriptFrames ==
    ASSUME NEW s \in Scripts
    PROVE  /\ Len(s) \in Nat /\ DOMAIN s = 1 .. Len(s)
           /\ \A i \in 1 .. Len(s) : s[i] \in Frames
<1>1. s \in Seq(Frames)
    BY ScriptAssumption DEF Frames
<1> HIDE DEF Frames
<1> QED BY <1>1

LEMMA WireJoins ==
    ASSUME NEW s \in Scripts
    PROVE  Joins(Wire[s], Len(s), Pieces(s)) /\ \A i \in 0 .. Len(s) : Wire[s][i] \in Seq(Byte)
<1> DEFINE n == Len(s)  G == Pieces(s)
           Rec(F) == F = [i \in 0 .. Len(s) |-> IF i = 0 THEN <<>> ELSE F[i - 1] \o Pack(s[i])]
           Bytes == CHOOSE F : Rec(F)
<1>1. n \in Nat /\ DOMAIN s = 1 .. n /\ \A i \in 1 .. n : s[i] \in Frames
    BY ScriptFrames
<1>2. \A i \in 1 .. n : G[i] = Pack(s[i])
    BY <1>1 DEF Pieces
<1>3. \A i \in 1 .. n : G[i] \in Seq(Byte)
    BY <1>1, <1>2, PackUnpack, Zenon
<1> HIDE DEF G
<1>4. ASSUME NEW F PROVE Rec(F) <=> Concatenation(F, n, G)
    <2> DEFINE L == [i \in 0 .. n |-> IF i = 0 THEN <<>> ELSE F[i - 1] \o G[i]]
               R == [i \in 0 .. n |-> IF i = 0 THEN <<>> ELSE F[i - 1] \o Pack(s[i])]
    <2>1. Rec(F) <=> F = R
        BY Zenon
    <2>2. \A i \in 0 .. n : i = 0 \/ i \in 1 .. n
        BY <1>1
    <2>3. L = R
        BY <1>2, <2>2, Zenon
    <2>4. Concatenation(F, n, G) <=> F = L
        BY DEF Concatenation
    <2> HIDE DEF R, L, Rec
    <2> QED BY <2>1, <2>3, <2>4
<1>5. Rec(Bytes)
    <2> HIDE DEF n, Rec
    <2>1. \E F : Concatenation(F, n, G)
        BY <1>1, <1>3, ConcatenationExists
    <2>2. \E F : Rec(F)
        BY <1>4, <2>1
    <2> QED BY <2>2
<1>6. Wire[s] = [i \in 0 .. n |-> Bytes[i]]
    BY Zenon DEF Wire
<1> HIDE DEF Rec, Bytes, n
<1>7. Concatenation(Bytes, n, G)
    BY <1>4, <1>5
<1>8. Joins(Bytes, n, G)
    BY <1>1, <1>7, ConcatenationSteps
<1>9. \A i \in 0 .. n : Wire[s][i] = Bytes[i]
    BY <1>6
<1>10. Joins(Wire[s], n, G)
    <2>1. 0 \in 0 .. n /\ \A i \in 1 .. n : i \in 0 .. n /\ i - 1 \in 0 .. n
        BY <1>1
    <2> QED BY <1>8, <1>9, <2>1, Zenon DEF Joins
<1>11. \A i \in 0 .. n : Wire[s][i] \in Seq(Byte)
    BY <1>1, <1>3, <1>10, ConcatenationParts
<1> QED BY <1>10, <1>11 DEF n, G

\* What the steps preserve: the parts of TypeOK, with bytes for numbers ...
PlacesTyped ==
    /\ kind \in {"mock", "classic", "gatt"} /\ script \in Scripts
    /\ link \in {"open", "closed", "ended"} /\ subscribed \in BOOLEAN
    /\ pc \in {"flush", "look", "arm", "wait", "recv", "frame", "dead"}
    /\ kind = "gatt" => link # "closed"
    /\ spent \in [lost : Nat, fails : Nat]
InTyped  == air \in Seq(Byte) /\ pipe \in Seq(Byte) /\ held \in Seq(Byte) /\ recvBuf \in Seq(Byte)
OutTyped == sendBuf \in Seq(Byte) /\ sink \in Seq(Byte) /\ acked \in Seq(Byte)
OneHeld  == Len(held) = IF kind = "classic" /\ pc = "recv" THEN 1 ELSE 0

\* ... and the order of the ACKs.
TInv == PlacesTyped /\ InTyped /\ OutTyped /\ OneHeld /\ AcksInOrder

LEMMA TInvTypes == ASSUME TInv PROVE TypeOK
<1>1. Byte \subseteq Int
    BY DEF Byte
<1>2. \A s \in Seq(Byte) : s \in Seq(Int)
    <2> TAKE s \in Seq(Byte)
    <2>1. Len(s) \in Nat /\ s = [k \in 1 .. Len(s) |-> s[k]] /\ \A k \in 1 .. Len(s) : s[k] \in Byte
        <3> HIDE DEF Byte
        <3> QED OBVIOUS
    <2>2. \A k \in 1 .. Len(s) : s[k] \in Int
        BY <1>1, <2>1, Zenon
    <2> HIDE DEF Byte
    <2> QED BY <2>1, <2>2
<1> HIDE DEF Byte
<1>3. {air, pipe, held, recvBuf, sendBuf, sink, acked} \subseteq Seq(Int)
    BY <1>2 DEF TInv, InTyped, OutTyped
<1> QED BY <1>3 DEF TInv, PlacesTyped, OneHeld, TypeOK

LEMMA InitTyped == ASSUME Init PROVE TInv
<1>1. <<>> \in Seq(Byte) /\ Len(<<>>) = 0
    OBVIOUS
<1>2. script \in Scripts /\ Len(script) \in 0 .. Len(script)
    <2>1. script \in Scripts
        BY DEF Init
    <2>2. Len(script) \in Nat
        BY <2>1, ScriptFrames
    <2> QED BY <2>1, <2>2
<1>3. air \in Seq(Byte)
    <2>1. Wire[script][Len(script)] \in Seq(Byte)
        BY <1>2, WireJoins
    <2> QED BY <2>1 DEF Init
<1>4. InTyped /\ OutTyped /\ OneHeld
    BY <1>1, <1>3 DEF Init, InTyped, OutTyped, OneHeld
<1>5. PlacesTyped
    BY <1>2, KindAssumption DEF Init, PlacesTyped
<1>6. AcksInOrder
    <2>1. <<>> \o <<>> = <<>>
        BY <1>1, ConcatEmptySeq
    <2> QED BY <2>1 DEF Init, AcksInOrder
<1> QED BY <1>4, <1>5, <1>6 DEF TInv

\* A piece of a sequence, no longer than what there is.
LEMMA LesserFits ==
    ASSUME NEW n \in Nat, NEW l \in Nat
    PROVE  Lesser(n, l) \in 0 .. l /\ Lesser(n, l) <= n
BY DEF Lesser

LEMMA ChunkTyped ==
    ASSUME InTyped, NEW n \in ChunkSizes
    PROVE  /\ Lesser(n, Len(air)) \in 0 .. Len(air)
           /\ Upto(air, Lesser(n, Len(air))) \in Seq(Byte)
           /\ Beyond(air, Lesser(n, Len(air))) \in Seq(Byte)
<1>1. Len(air) \in Nat /\ n \in Nat
    <2>1. Len(air) \in Nat
        <3> HIDE DEF Byte
        <3> QED BY DEF InTyped
    <2> QED BY <2>1, BoundAssumption
<1> DEFINE l == Lesser(n, Len(air))
<1>2. l \in 0 .. Len(air)
    BY <1>1, LesserFits
<1> HIDE DEF l
<1>3. Upto(air, l) \in Seq(Byte) /\ Beyond(air, l) \in Seq(Byte)
    BY <1>2, Sliced DEF InTyped
<1> QED BY <1>2, <1>3 DEF l

LEMMA ArrivalTyped ==
    ASSUME TInv, NEW n \in ChunkSizes, Arrive(n) \/ Vanish(n)
    PROVE  TInv'
<1>1. air' \in Seq(Byte)
    BY ChunkTyped DEF TInv, Arrive, Vanish, NextChunk
<1>2. pipe' \in Seq(Byte)
    <2>1. CASE Arrive(n)
        <3>1. pipe \in Seq(Byte) /\ Upto(air, Lesser(n, Len(air))) \in Seq(Byte)
            BY ChunkTyped DEF TInv, InTyped
        <3>2. pipe \o Upto(air, Lesser(n, Len(air))) \in Seq(Byte)
            BY <3>1, Joined
        <3> QED BY <2>1, <3>2 DEF Arrive
    <2>2. CASE Vanish(n)
        BY <2>2 DEF TInv, InTyped, Vanish
    <2> QED BY <2>1, <2>2
<1>3. InTyped' /\ OutTyped' /\ AcksInOrder'
    BY <1>1, <1>2 DEF TInv, InTyped, OutTyped, AcksInOrder, Arrive, Vanish, Woken, writeVars
<1>4. PlacesTyped' /\ OneHeld'
    <2>1. CASE Arrive(n)
        BY <2>1 DEF TInv, PlacesTyped, OneHeld, Arrive, NextChunk, Woken
    <2>2. CASE Vanish(n)
        <3>1. spent' \in [lost : Nat, fails : Nat]
            BY <2>2 DEF TInv, PlacesTyped, Vanish
        <3> QED BY <2>2, <3>1 DEF TInv, PlacesTyped, OneHeld, Vanish
    <2> QED BY <2>1, <2>2
<1> QED BY <1>3, <1>4 DEF TInv

LEMMA LinkTyped ==
    ASSUME TInv, Subscribe \/ TaskReturns \/ PeerCloses
    PROVE  TInv'
<1>1. InTyped' /\ OutTyped' /\ AcksInOrder'
    BY DEF TInv, InTyped, OutTyped, AcksInOrder, Subscribe, TaskReturns, PeerCloses, Woken, writeVars
<1>2. PlacesTyped' /\ OneHeld'
    BY DEF TInv, PlacesTyped, OneHeld, Subscribe, TaskReturns, PeerCloses, Woken
<1> QED BY <1>1, <1>2 DEF TInv

\* Steps that move pc and no bytes.
LEMMA WaitTyped ==
    ASSUME TInv, FlushDone \/ Look \/ Arm \/ Quiet
    PROVE  TInv'
<1>1. InTyped' /\ OutTyped' /\ AcksInOrder'
    BY DEF TInv, InTyped, OutTyped, AcksInOrder, FlushDone, Look, Arm, Quiet, readVars, writeVars
<1>2. CASE FlushDone \/ Arm \/ Quiet
    <2>1. PlacesTyped' /\ OneHeld'
        BY <1>2 DEF TInv, PlacesTyped, OneHeld, FlushDone, Arm, Quiet, readVars
    <2> QED BY <1>1, <2>1 DEF TInv
<1>3. CASE Look
    <2>1. Len(held) = 0 /\ held = <<>>
        <3>1. held \in Seq(Byte) /\ Len(held) = 0
            BY <1>3 DEF TInv, InTyped, OneHeld, Look
        <3> HIDE DEF Byte
        <3> QED BY <3>1
    <2>2. PlacesTyped' /\ OneHeld'
        BY <1>3, <2>1 DEF TInv, PlacesTyped, OneHeld, Look, readVars
    <2> QED BY <1>1, <2>2 DEF TInv
<1> QED BY <1>2, <1>3

\* What is taken, and what is left, make up what there was.
LEMMA Flushed ==
    ASSUME TInv, NEW k \in 0 .. Taken
    PROVE  /\ Taken \in 0 .. Len(sendBuf) /\ k \in 0 .. Len(sendBuf)
           /\ RestInFront(k) \in Seq(Byte)
           /\ Upto(sendBuf, k) \o RestInFront(k) = sendBuf
<1> DEFINE t == Taken  s == sendBuf  front == Upto(s, t)  rest == Beyond(s, t)
           a == Upto(s, k)  b == Beyond(front, k)
<1>1. s \in Seq(Byte) /\ Len(s) \in Nat
    <2> HIDE DEF Byte
    <2> QED BY DEF TInv, OutTyped
<1>2. t \in 0 .. Len(s)
    BY <1>1, BoundAssumption, LesserFits DEF Taken, Lesser
<1>3. k \in 0 .. Len(s)
    BY <1>1, <1>2
<1> HIDE DEF s, t
<1>4. front \in Seq(Byte) /\ rest \in Seq(Byte) /\ Slices(s, t)
    BY <1>1, <1>2, Sliced
<1>5. a \in Seq(Byte) /\ Slices(s, k)
    BY <1>1, <1>3, Sliced
<1> HIDE DEF front
<1>6. Len(front) = t /\ k \in 0 .. Len(front)
    BY <1>4 DEF Slices, front, t
<1>7. b \in Seq(Byte) /\ Slices(front, k)
    BY <1>4, <1>6, Sliced
<1>8. Upto(front, k) = a
    <2>1. Upto(front, k) \in Seq(Byte)
        BY <1>4, <1>6, Sliced
    <2> DEFINE u == Upto(front, k)
    <2> HIDE DEF u, a
    <2>2. Len(u) = k /\ Len(a) = k
        BY <1>5, <1>7 DEF Slices, u, a
    <2>3. \A i \in 1 .. k : u[i] = front[i] /\ a[i] = s[i]
        BY <1>5, <1>7 DEF Slices, u, a
    <2>4. \A i \in 1 .. k : i \in 1 .. t
        BY <1>2, <1>6
    <2>5. \A i \in 1 .. k : front[i] = s[i]
        BY <1>4, <2>4 DEF Slices, front
    <2>6. \A i \in 1 .. Len(u) : u[i] = a[i]
        BY <2>2, <2>3, <2>5, Zenon
    <2> QED BY <1>5, <2>1, <2>2, <2>6, SeqEqual DEF u
<1>9. a \o b = front
    BY <1>7, <1>8 DEF Slices
<1>10. front \o rest = s
    BY <1>4 DEF Slices, front
<1> HIDE DEF a, b, rest
<1>11. (a \o b) \o rest = a \o (b \o rest) /\ b \o rest \in Seq(Byte)
    <2>1. (a \o b) \o rest = a \o (b \o rest)
        <3>1. Regroups(a, b, rest)
            BY <1>4, <1>5, <1>7, Regrouped, Zenon
        <3> QED BY <3>1, Zenon DEF Regroups
    <2>2. b \o rest \in Seq(Byte)
        BY <1>4, <1>7, Joined
    <2> QED BY <2>1, <2>2
<1>12. RestInFront(k) = b \o rest
    BY Zenon DEF RestInFront, b, rest, front, s, t
<1>13. a \o RestInFront(k) = s
    BY <1>9, <1>10, <1>11, <1>12, Zenon
<1> QED BY <1>2, <1>3, <1>11, <1>12, <1>13, Zenon DEF a, s, t

\* Bytes that move from the front of the buffer to the transport.
LEMMA MovedOn ==
    ASSUME TInv, pc # "dead", NEW a \in Seq(Byte), NEW b \in Seq(Byte), a \o b = sendBuf,
           sink' = sink \o a, sendBuf' = b, UNCHANGED acked
    PROVE  OutTyped' /\ AcksInOrder'
<1>1. sink \in Seq(Byte) /\ sink \o sendBuf = acked
    BY DEF TInv, OutTyped, AcksInOrder
<1>2. sink \o a \in Seq(Byte)
    BY <1>1, Joined
<1>3. (sink \o a) \o b = sink \o (a \o b)
    <2> DEFINE s == sink  t == a  u == b
    <2>1. s \in Seq(Byte) /\ t \in Seq(Byte) /\ u \in Seq(Byte)
        BY <1>1
    <2> HIDE DEF s, t, u
    <2>2. (s \o t) \o u = s \o (t \o u)
        <3>1. Regroups(s, t, u)
            BY <2>1, Regrouped, Zenon
        <3> QED BY <3>1, Zenon DEF Regroups
    <2> QED BY <2>2 DEF s, t, u
<1>4. sink' \o sendBuf' = acked'
    BY <1>1, <1>3, Zenon
<1> HIDE DEF Byte
<1> QED BY <1>2, <1>4 DEF TInv, OutTyped, AcksInOrder

LEMMA FlushTyped ==
    ASSUME TInv, FlushAll \/ FlushFails \/ \E k \in 1 .. Chunk : FlushPart(k)
    PROVE  TInv'
<1>0. sendBuf \in Seq(Byte) /\ Len(sendBuf) \in Nat
    <2> HIDE DEF Byte
    <2> QED BY DEF TInv, OutTyped
<1>1. Taken \in 0 .. Len(sendBuf)
    BY <1>0, BoundAssumption DEF Taken, Lesser
<1>2. /\ Upto(sendBuf, Taken) \in Seq(Byte) /\ Beyond(sendBuf, Taken) \in Seq(Byte)
      /\ Slices(sendBuf, Taken)
    BY <1>0, <1>1, Sliced
<1>3. CASE FlushAll
    <2>1. OutTyped' /\ AcksInOrder'
        BY <1>2, <1>3, MovedOn DEF FlushAll, Slices
    <2>2. InTyped' /\ PlacesTyped' /\ OneHeld'
        BY <1>3 DEF TInv, InTyped, PlacesTyped, OneHeld, FlushAll, readVars
    <2> QED BY <2>1, <2>2 DEF TInv
<1>4. CASE FlushFails
    <2>1. OutTyped' /\ AcksInOrder'
        BY <1>2, <1>4 DEF TInv, OutTyped, AcksInOrder, FlushFails
    <2>2. spent' \in [lost : Nat, fails : Nat]
        BY <1>4 DEF TInv, PlacesTyped, FlushFails, Failing
    <2>3. InTyped' /\ PlacesTyped' /\ OneHeld'
        BY <1>4, <2>2 DEF TInv, InTyped, PlacesTyped, OneHeld, FlushFails, readVars
    <2> QED BY <2>1, <2>3 DEF TInv
<1>5. ASSUME NEW k \in 1 .. Chunk, FlushPart(k)
      PROVE  TInv'
    <2>1. k \in 0 .. Taken
        BY <1>1, <1>5, BoundAssumption DEF FlushPart
    <2>2. /\ k \in 0 .. Len(sendBuf) /\ RestInFront(k) \in Seq(Byte)
          /\ Upto(sendBuf, k) \o RestInFront(k) = sendBuf
        BY <2>1, Flushed
    <2>3. Upto(sendBuf, k) \in Seq(Byte)
        BY <1>0, <2>2, Sliced
    <2>4. OutTyped' /\ AcksInOrder'
        BY <1>5, <2>2, <2>3, MovedOn DEF FlushPart
    <2>5. spent' \in [lost : Nat, fails : Nat]
        BY <1>5 DEF TInv, PlacesTyped, FlushPart, Failing
    <2>6. InTyped' /\ PlacesTyped' /\ OneHeld'
        BY <1>5, <2>5 DEF TInv, InTyped, PlacesTyped, OneHeld, FlushPart, readVars
    <2> QED BY <2>4, <2>6 DEF TInv
<1> QED BY <1>3, <1>4, <1>5

LEMMA ReadTyped ==
    ASSUME TInv, Peek \/ Recv
    PROVE  TInv'
<1>1. pipe \in Seq(Byte) /\ held \in Seq(Byte) /\ recvBuf \in Seq(Byte)
    BY DEF TInv, InTyped
<1>2. OutTyped' /\ AcksInOrder'
    BY DEF TInv, OutTyped, AcksInOrder, Peek, Recv, writeVars
<1>3. CASE Peek /\ pipe # <<>>
    <2>1. Head(pipe) \in Byte /\ Tail(pipe) \in Seq(Byte)
        BY <1>1, <1>3, HeadTailProperties
    <2>2. <<Head(pipe)>> \in Seq(Byte) /\ Len(<<Head(pipe)>>) = 1
        <3> HIDE DEF Byte
        <3> QED BY <2>1
    <2>3. InTyped' /\ PlacesTyped' /\ OneHeld'
        BY <1>3, <2>1, <2>2 DEF TInv, InTyped, PlacesTyped, OneHeld, Peek, ByteHeld
    <2> QED BY <1>2, <2>3 DEF TInv
<1>4. CASE Peek /\ pipe = <<>>
    <2>1. InTyped' /\ PlacesTyped' /\ OneHeld'
        BY <1>4 DEF TInv, InTyped, PlacesTyped, OneHeld, Peek
    <2> QED BY <1>2, <2>1 DEF TInv
<1>5. CASE Recv
    <2>1. recvBuf \o held \in Seq(Byte)
        BY <1>1, Joined
    <2>2. recvBuf \o held \o pipe \in Seq(Byte)
        BY <1>1, <2>1, Joined
    <2>3. <<>> \in Seq(Byte) /\ Len(<<>>) = 0
        OBVIOUS
    <2>4. InTyped'
        BY <1>5, <2>2, <2>3 DEF TInv, InTyped, Recv
    <2>5. PlacesTyped' /\ OneHeld'
        <3>1. pc' \in {"frame", "dead"}
            BY <1>5, Zenon DEF Recv
        <3> QED BY <1>5, <2>3, <3>1 DEF TInv, PlacesTyped, OneHeld, Recv
    <2> QED BY <1>2, <2>4, <2>5 DEF TInv
<1> QED BY <1>3, <1>4, <1>5

LEMMA FrameTyped ==
    ASSUME TInv, ProcessFrame
    PROVE  TInv'
<1> DEFINE next == NextFrame(recvBuf)  unpacked == UnpackFull(next.cut)
           ack == Pack(AckFor(unpacked.frame))
<1>1. next.cut \in Seq(Byte) /\ next.rest \in Seq(Byte)
    BY NextFrameTyped DEF TInv, InTyped
<1>2. recvBuf' = next.rest
    BY DEF ProcessFrame
<1> HIDE DEF next
<1>3. PlacesTyped' /\ InTyped' /\ OneHeld'
    BY <1>1, <1>2 DEF TInv, InTyped, PlacesTyped, OneHeld, ProcessFrame, readVars
<1>4. OutTyped' /\ AcksInOrder'
    <2>0. sink \in Seq(Byte) /\ sendBuf \in Seq(Byte) /\ acked \in Seq(Byte) /\ sink \o sendBuf = acked
        BY DEF TInv, OutTyped, AcksInOrder, ProcessFrame
    <2>1. CASE unpacked.result = "Ok" /\ sendBuf' = sendBuf \o ack /\ acked' = acked \o ack
        <3>1. ack \in Seq(Byte)
            <4>1. AckFor(unpacked.frame) \in Frames
                BY <1>1, <2>1, AckSendable
            <4> QED BY <4>1, PackUnpack
        <3> HIDE DEF ack
        <3>2. sendBuf \o ack \in Seq(Byte) /\ acked \o ack \in Seq(Byte)
            BY <2>0, <3>1, Joined
        <3>3. (sink \o sendBuf) \o ack = sink \o (sendBuf \o ack)
            <4> DEFINE s == sink  t == sendBuf  u == ack
            <4>1. s \in Seq(Byte) /\ t \in Seq(Byte) /\ u \in Seq(Byte)
                BY <2>0, <3>1
            <4> HIDE DEF s, t, u
            <4>2. (s \o t) \o u = s \o (t \o u)
                <5>1. Regroups(s, t, u)
                    BY <4>1, Regrouped, Zenon
                <5> QED BY <5>1, Zenon DEF Regroups
            <4> QED BY <4>2 DEF s, t, u
        <3>4. sink' = sink
            BY DEF ProcessFrame
        <3>5. sink' \o sendBuf' = acked'
            BY <2>0, <2>1, <3>3, <3>4, Zenon
        <3>6. sink' \in Seq(Byte) /\ sendBuf' \in Seq(Byte) /\ acked' \in Seq(Byte)
            BY <2>0, <2>1, <3>2, <3>4, Zenon
        <3> QED BY <3>5, <3>6 DEF OutTyped, AcksInOrder
    <2>2. CASE UNCHANGED <<sendBuf, acked>>
        <3>1. sink' = sink
            BY DEF ProcessFrame
        <3> QED BY <2>0, <2>2, <3>1 DEF OutTyped, AcksInOrder
    <2>3. \/ unpacked.result = "Ok" /\ sendBuf' = sendBuf \o ack /\ acked' = acked \o ack
          \/ UNCHANGED <<sendBuf, acked>>
        BY Zenon DEF ProcessFrame, next
    <2> HIDE DEF unpacked, ack
    <2> QED BY <2>1, <2>2, <2>3
<1> QED BY <1>3, <1>4 DEF TInv

LEMMA TypedStays ==
    ASSUME TInv, [Next]_vars
    PROVE  TInv'
<1>1. CASE UNCHANGED vars
    BY <1>1 DEF vars, readVars, writeVars, TInv, PlacesTyped, InTyped, OutTyped, OneHeld, AcksInOrder
<1>2. CASE Next
    BY <1>2, ArrivalTyped, LinkTyped, WaitTyped, FlushTyped, ReadTyped, FrameTyped
    DEF Next, Poll, Faults
<1> QED BY <1>1, <1>2

\* The types and the order of the ACKs are kept by every step.
LEMMA TInvHolds == Spec => []TInv
<1>1. Init => TInv
    BY InitTyped
<1>2. TInv /\ [Next]_vars => TInv'
    BY TypedStays
<1> QED BY <1>1, <1>2, PTL DEF Spec

\* The bytes, places and numbers of the stream keep their types, and the byte
\* that a socket looked at is held only until it is read.
THEOREM TypeCorrect == Spec => []TypeOK
<1>1. TInv => TypeOK
    BY TInvTypes
<1> QED BY <1>1, TInvHolds, PTL

\* flush_send_buf and send_ack: whatever the transport takes of a chunk, and
\* whatever is queued meanwhile, the ACKs leave complete and in order.
THEOREM AcksLeaveInOrder == Spec => []AcksInOrder
<1>1. TInv => AcksInOrder
    BY DEF TInv
<1> QED BY <1>1, TInvHolds, PTL

---------------------------------------------------------------------------
(* What process_frame cuts off *)

\* No start marker: all stays.
NothingCut(r) ==
    /\ NextFrame(r) = [cut |-> <<>>, rest |-> r]
    /\ \A k \in 1 .. Len(r) : r[k] # START_MARKER

\* A start marker at s and no end marker: what is in front is dropped.
FrontDropped(r, s) ==
    /\ s \in 1 .. Len(r) /\ r[s] = START_MARKER /\ \A k \in 1 .. s - 1 : r[k] # START_MARKER
    /\ \A k \in s .. Len(r) : r[k] # END_MARKER
    /\ NextFrame(r) = [cut |-> <<>>, rest |-> Beyond(r, s - 1)]

\* A start marker at s and an end marker at e: the piece is cut off.
PieceCut(r, s, e) ==
    /\ s \in 1 .. Len(r) /\ r[s] = START_MARKER /\ \A k \in 1 .. s - 1 : r[k] # START_MARKER
    /\ e \in s .. Len(r) /\ r[e] = END_MARKER /\ \A k \in s .. e - 1 : r[k] # END_MARKER
    /\ NextFrame(r) = [cut |-> SubSeq(r, s, e), rest |-> Beyond(r, e)]

LEMMA CutCases ==
    ASSUME NEW r \in Seq(Byte)
    PROVE  \/ NothingCut(r)
           \/ \E s \in Nat : FrontDropped(r, s)
           \/ \E s, e \in Nat : PieceCut(r, s, e)
<1> DEFINE s == First(r, START_MARKER)  len == Len(r)
           from == SubSeq(r, s, Len(r))
           end == First(from, END_MARKER)
<1>1. /\ s = 0 => \A k \in 1 .. Len(r) : r[k] # START_MARKER
      /\ s # 0 => /\ s \in 1 .. Len(r) /\ r[s] = START_MARKER
                  /\ \A k \in 1 .. s - 1 : r[k] # START_MARKER
      /\ s \in 0 .. Len(r)
    BY FirstFound
<1>2. Len(r) \in Nat
    OBVIOUS
<1>3. CASE s = 0
    <2>1. NextFrame(r) = [cut |-> <<>>, rest |-> r]
        BY <1>3 DEF NextFrame
    <2> HIDE DEF s
    <2> QED BY <1>1, <1>3, <2>1 DEF NothingCut
<1>4. CASE s # 0
    <2> HIDE DEF s
    <2>1. s \in 1 .. len /\ len \in Nat /\ s \in Int /\ len \in Int
        BY <1>1, <1>2, <1>4
    <2>2. \A k \in s .. len : r[k] \in Byte
        <3> HIDE DEF Byte
        <3> QED BY <2>1
    <2> HIDE DEF len
    <2>3. /\ SubSeq(r, s, len) \in Seq(Byte)
          /\ Len(SubSeq(r, s, len)) = IF s <= len THEN len - s + 1 ELSE 0
          /\ \A i \in 1 .. len - s + 1 : SubSeq(r, s, len)[i] = r[s + i - 1]
        BY <2>1, <2>2, SubSeqProperties
    <2>4. from = SubSeq(r, s, len)
        BY DEF len
    <2> HIDE DEF from
    <2>5. /\ from \in Seq(Byte) /\ Len(from) = len - s + 1
          /\ \A i \in 1 .. len - s + 1 : from[i] = r[s + i - 1]
        BY <2>1, <2>3, <2>4
    <2>6. /\ end = 0 => \A k \in 1 .. Len(from) : from[k] # END_MARKER
          /\ end # 0 => /\ end \in 1 .. Len(from) /\ from[end] = END_MARKER
                        /\ \A k \in 1 .. end - 1 : from[k] # END_MARKER
          /\ end \in 0 .. Len(from)
        BY <2>5, FirstFound
    <2>7. from = Beyond(r, s - 1)
        <3>1. s - 1 + 1 = s
            BY <2>1
        <3> QED BY <2>4, <3>1, Zenon DEF Beyond, len
    <2>8. CASE end = 0
        <3>1. NextFrame(r) = [cut |-> <<>>, rest |-> from]
            BY <1>4, <2>8 DEF NextFrame, s, from
        <3> HIDE DEF end
        <3>2. \A k \in s .. len : r[k] # END_MARKER
            <4> TAKE k \in s .. len
            <4> DEFINE j == k - s + 1
            <4>1. j \in 1 .. len - s + 1 /\ s + j - 1 = k
                BY <2>1
            <4> HIDE DEF j
            <4> QED BY <2>5, <2>6, <2>8, <4>1
        <3>3. FrontDropped(r, s)
            BY <1>1, <1>4, <2>7, <3>1, <3>2, Zenon DEF FrontDropped, len
        <3> QED BY <2>1, <3>3
    <2>9. CASE end # 0
        <3>1. NextFrame(r) = [cut |-> SubSeq(from, 1, end), rest |-> SubSeq(from, end + 1, Len(from))]
            BY <1>4, <2>9 DEF NextFrame, s, from
        <3> HIDE DEF end
        <3> DEFINE e == s + end - 1
        <3>2. /\ end \in 1 .. len - s + 1 /\ e \in s .. len /\ e \in Nat /\ s \in Nat
              /\ end \in Int /\ end + 1 \in Int /\ s + 1 - 1 = s /\ s + (end + 1) - 1 = e + 1
              /\ s + (len - s + 1) - 1 = len
            BY <2>1, <2>5, <2>6, <2>9
        <3>3. r[e] = END_MARKER
            BY <2>5, <2>6, <2>9, <3>2
        <3>4. \A k \in s .. e - 1 : r[k] # END_MARKER
            <4> TAKE k \in s .. e - 1
            <4> DEFINE j == k - s + 1
            <4>1. j \in 1 .. len - s + 1 /\ j \in 1 .. end - 1 /\ s + j - 1 = k
                BY <2>1, <3>2
            <4> HIDE DEF j, e
            <4>2. from[j] = r[k] /\ from[j] # END_MARKER
                BY <2>5, <2>6, <2>9, <4>1
            <4> QED BY <4>2
        <3>5. SubSeq(from, 1, end) = SubSeq(r, s, e)
            <4>1. 1 \in 1 .. len - s + 1 /\ end \in 1 - 1 .. len - s + 1
                BY <2>1, <3>2
            <4>2. SubSeq(SubSeq(r, s, len), 1, end) = SubSeq(r, s + 1 - 1, s + end - 1)
                BY <2>1, <4>1 DEF len
            <4> QED BY <2>4, <3>2, <4>2, Zenon DEF e
        <3>6. SubSeq(from, end + 1, Len(from)) = Beyond(r, e)
            <4> DEFINE g == end + 1  h == len - s + 1
            <4>1. g \in 1 .. h + 1 /\ h \in g - 1 .. h
                BY <2>1, <3>2
            <4> HIDE DEF g, h
            <4>2. SubSeq(SubSeq(r, s, len), g, h) = SubSeq(r, s + g - 1, s + h - 1)
                BY <2>1, <4>1 DEF len, h
            <4> QED BY <2>4, <2>5, <3>2, <4>2, Zenon DEF Beyond, g, h, e, len
        <3> HIDE DEF e
        <3>7. PieceCut(r, s, e)
            BY <1>1, <1>4, <3>1, <3>2, <3>3, <3>4, <3>5, <3>6, Zenon DEF PieceCut, len
        <3> QED BY <3>2, <3>7
    <2> QED BY <2>8, <2>9
<1> QED BY <1>3, <1>4

---------------------------------------------------------------------------
(* A frame on its way through the buffers *)

\* Of the bytes e of a frame, the first ones of a that have arrived since they
\* began lie in q behind x, and what is in front of them is closed.
Intact(q, e, a, x) ==
    /\ x \in Nat /\ x + Lesser(a, Len(e)) <= Len(q)
    /\ a <= Len(e) => x + a = Len(q)
    /\ \A k \in 1 .. Lesser(a, Len(e)) : q[x + k] = e[k]
    /\ x = 0 \/ q[x] = END_MARKER

\* More of it arrives, or what is behind it.
LEMMA IntactArrives ==
    ASSUME NEW q \in Seq(Byte), NEW new \in Seq(Byte), NEW e \in Seq(Byte), NEW a \in Nat, NEW x,
           Intact(q, e, a, x),
           \A k \in 1 .. Len(new) : a + k <= Len(e) => new[k] = e[a + k]
    PROVE  Intact(q \o new, e, a + Len(new), x)
<1> DEFINE u == q \o new  l == Len(q)  n == Len(new)  m == Len(e)  b == a + Len(new)
<1>1. l \in Nat /\ n \in Nat /\ m \in Nat
    <2> HIDE DEF Byte
    <2> QED OBVIOUS
<1>2. u \in Seq(Byte) /\ Together(u, q, new)
    BY Joined
<1> HIDE DEF u
<1>3. /\ Len(u) = l + n /\ \A k \in 1 .. l : u[k] = q[k]
      /\ \A k \in 1 .. n : u[l + k] = new[k]
    BY <1>2 DEF Together
<1> HIDE DEF l, n, m
<1>4. /\ x \in Nat /\ x + Lesser(a, m) <= l /\ (a <= m => x + a = l)
      /\ \A k \in 1 .. Lesser(a, m) : q[x + k] = e[k]
      /\ x = 0 \/ q[x] = END_MARKER
    BY DEF Intact, l, m
<1>5. b = a + n /\ b \in Nat
    BY <1>1 DEF n
<1>6. \A k \in 1 .. n : a + k <= m => new[k] = e[a + k]
    BY DEF n, m
<1> HIDE DEF b
<1>7. x + Lesser(b, m) <= l + n /\ (b <= m => x + b = l + n) /\ (x = 0 \/ x \in 1 .. l)
    BY <1>1, <1>4, <1>5 DEF Lesser
<1>8. \A k \in 1 .. Lesser(b, m) : u[x + k] = e[k]
    <2> TAKE k \in 1 .. Lesser(b, m)
    <2>1. CASE k \in 1 .. Lesser(a, m)
        <3>1. x + k \in 1 .. l
            BY <1>1, <1>4, <2>1 DEF Lesser
        <3> QED BY <1>3, <1>4, <2>1, <3>1, Zenon
    <2>2. CASE k \notin 1 .. Lesser(a, m)
        <3> DEFINE j == k - a
        <3>1. j \in 1 .. n /\ a + j = k /\ k <= m /\ x + k = l + j
            BY <1>1, <1>4, <1>5, <2>2 DEF Lesser
        <3> HIDE DEF j
        <3> QED BY <1>3, <1>6, <3>1, Zenon
    <2> QED BY <2>1, <2>2
<1>9. x = 0 \/ u[x] = END_MARKER
    BY <1>3, <1>4, <1>7
<1> QED BY <1>3, <1>4, <1>7, <1>8, <1>9, Zenon DEF Intact, u, b, m

\* It begins in what arrives, behind the end of the frame in front.
LEMMA IntactBegins ==
    ASSUME NEW q \in Seq(Byte), NEW new \in Seq(Byte), NEW e \in Seq(Byte),
           NEW j \in 1 .. Len(new), new[j] = END_MARKER,
           \A k \in 1 .. Len(new) - j : k <= Len(e) => new[j + k] = e[k]
    PROVE  Intact(q \o new, e, Len(new) - j, Len(q) + j)
<1> DEFINE u == q \o new  l == Len(q)  n == Len(new)  m == Len(e)  b == Len(new) - j
           x == Len(q) + j
<1>1. l \in Nat /\ n \in Nat /\ m \in Nat
    <2> HIDE DEF Byte
    <2> QED OBVIOUS
<1>2. u \in Seq(Byte) /\ Together(u, q, new)
    BY Joined
<1> HIDE DEF u
<1>3. Len(u) = l + n /\ \A k \in 1 .. n : u[l + k] = new[k]
    BY <1>2 DEF Together
<1>4. \A k \in 1 .. b : k <= m => new[j + k] = e[k]
    OBVIOUS
<1> HIDE DEF l, n, m
<1>5. j \in 1 .. n /\ b = n - j /\ x = l + j
    BY DEF n, l
<1> HIDE DEF b, x
<1>6. x \in Nat /\ x + Lesser(b, m) <= l + n /\ (b <= m => x + b = l + n)
    BY <1>1, <1>5 DEF Lesser
<1>7. u[x] = END_MARKER
    BY <1>3, <1>5
<1>8. \A k \in 1 .. Lesser(b, m) : u[x + k] = e[k]
    <2> TAKE k \in 1 .. Lesser(b, m)
    <2>1. k \in 1 .. b /\ k <= m /\ j + k \in 1 .. n /\ x + k = l + (j + k)
        BY <1>1, <1>5 DEF Lesser
    <2> QED BY <1>3, <1>4, <2>1, Zenon
<1> QED BY <1>3, <1>6, <1>7, <1>8, Zenon DEF Intact, u, b, m, x

\* The bytes of a frame: its markers, and none between them.
Marked(e) ==
    /\ Len(e) >= 2 /\ e[1] = START_MARKER /\ e[Len(e)] = END_MARKER
    /\ \A k \in 2 .. Len(e) - 1 : e[k] \notin {START_MARKER, END_MARKER}

\* What is cut off is in front of it, or is it.
LEMMA IntactPiece ==
    ASSUME NEW r \in Seq(Byte), NEW t \in Seq(Byte), NEW e \in Seq(Byte), Marked(e),
           NEW a \in Nat, NEW x, Intact(r \o t, e, a, x), NEW i \in Nat, NEW j \in Nat, PieceCut(r, i, j)
    PROVE  j <= x \/ SubSeq(r, i, j) = e
<1> DEFINE q == r \o t  l == Len(r)  m == Len(e)
<1>1. l \in Nat /\ m \in Nat /\ Len(t) \in Nat
    <2> HIDE DEF Byte
    <2> QED OBVIOUS
<1>2. q \in Seq(Byte) /\ Together(q, r, t)
    BY Joined
<1>3. Intact(q, e, a, x)
    OBVIOUS
<1> HIDE DEF q
<1>4. l <= Len(q) /\ Len(q) \in Nat /\ \A k \in 1 .. l : q[k] = r[k]
    BY <1>1, <1>2 DEF Together
<1>5. /\ x \in Nat /\ x + Lesser(a, m) <= Len(q) /\ (a <= m => x + a = Len(q))
      /\ \A k \in 1 .. Lesser(a, m) : q[x + k] = e[k]
      /\ x = 0 \/ q[x] = END_MARKER
    BY <1>3 DEF Intact
<1>6. /\ i \in 1 .. l /\ r[i] = START_MARKER /\ \A k \in 1 .. i - 1 : r[k] # START_MARKER
      /\ j \in i .. l /\ r[j] = END_MARKER /\ \A k \in i .. j - 1 : r[k] # END_MARKER
    BY DEF PieceCut
<1>7. /\ m >= 2 /\ e[1] = START_MARKER /\ e[m] = END_MARKER
      /\ \A k \in 2 .. m - 1 : e[k] # END_MARKER
    BY DEF Marked
<1>8. START_MARKER # END_MARKER
    BY DEF START_MARKER, END_MARKER
<1> HIDE DEF l, m
<1> SUFFICES ASSUME x < j PROVE SubSeq(r, i, j) = e
    BY <1>5
<1>9. a >= 1 /\ 1 \in 1 .. Lesser(a, m) /\ x + 1 \in 1 .. l
    BY <1>1, <1>4, <1>5, <1>6, <1>7 DEF Lesser
<1>10. r[x + 1] = START_MARKER
    BY <1>4, <1>5, <1>7, <1>9
<1>11. i <= x + 1
    BY <1>5, <1>6, <1>9, <1>10
<1>12. ~(i <= x)
    <2> SUFFICES ASSUME i <= x PROVE FALSE
        OBVIOUS
    <2>0. x \in 1 .. l /\ x # 0
        BY <1>1, <1>5, <1>6
    <2>1. q[x] = END_MARKER
        BY <1>5, <2>0
    <2>2. r[x] = END_MARKER /\ i # x
        BY <1>4, <1>6, <1>8, <2>0, <2>1
    <2>3. x \in i .. j - 1
        BY <1>5, <1>6, <2>2
    <2> QED BY <1>6, <2>2, <2>3
<1>13. i = x + 1
    BY <1>5, <1>6, <1>11, <1>12
<1>14. ~(x + m < j)
    <2> SUFFICES ASSUME x + m < j PROVE FALSE
        OBVIOUS
    <2>1. m <= a
        BY <1>1, <1>4, <1>5, <1>6
    <2>2. m \in 1 .. Lesser(a, m) /\ x + m \in 1 .. l /\ x + m \in i .. j - 1
        BY <1>1, <1>5, <1>6, <1>7, <1>13, <2>1 DEF Lesser
    <2>3. r[x + m] = END_MARKER
        BY <1>4, <1>5, <1>7, <2>2
    <2> QED BY <1>6, <2>2, <2>3
<1> DEFINE k == j - x
<1>15. k \in 1 .. m /\ k \in 1 .. Lesser(a, m) /\ x + k = j
    BY <1>1, <1>4, <1>5, <1>6, <1>13, <1>14 DEF Lesser
<1> HIDE DEF k
<1>16. e[k] = END_MARKER
    BY <1>4, <1>5, <1>6, <1>15
<1>17. k # 1 /\ ~(k \in 2 .. m - 1)
    BY <1>7, <1>8, <1>16
<1>18. k = m
    BY <1>1, <1>15, <1>17
<1>19. \A n \in 1 .. m : r[i + n - 1] = e[n]
    <2> TAKE n \in 1 .. m
    <2>1. m \in 1 .. Lesser(a, m) /\ x + m <= l
        BY <1>6, <1>15, <1>18
    <2>2. n \in 1 .. Lesser(a, m)
        BY <1>1, <2>1 DEF Lesser
    <2>3. x + n \in 1 .. l /\ i + n - 1 = x + n
        BY <1>1, <1>5, <1>13, <2>1
    <2> QED BY <1>4, <1>5, <2>2, <2>3
<1>20. i \in Nat /\ j \in Int /\ i > 0 /\ j = i + m - 1 /\ j <= l
    BY <1>1, <1>5, <1>6, <1>13, <1>15, <1>18
<1> QED BY <1>19, <1>20, PartIs DEF l, m

\* Dropping what is in front does not touch it.
LEMMA IntactDropped ==
    ASSUME NEW q \in Seq(Byte), NEW e \in Seq(Byte), NEW a \in Nat, NEW x, Intact(q, e, a, x),
           NEW d \in 0 .. Len(q), d <= x
    PROVE  Intact(Beyond(q, d), e, a, x - d)
<1> DEFINE u == Beyond(q, d)  l == Len(q)  m == Len(e)  y == x - d
<1>1. l \in Nat /\ m \in Nat
    <2> HIDE DEF Byte
    <2> QED OBVIOUS
<1>2. Slices(q, d)
    BY Sliced
<1> HIDE DEF u, l, m
<1>3. Len(u) = l - d /\ \A k \in 1 .. l - d : u[k] = q[d + k]
    BY <1>2 DEF Slices, u, l
<1>4. /\ x \in Nat /\ x + Lesser(a, m) <= l /\ (a <= m => x + a = l)
      /\ \A k \in 1 .. Lesser(a, m) : q[x + k] = e[k]
      /\ x = 0 \/ q[x] = END_MARKER
    BY DEF Intact, l, m
<1>5. d \in Nat /\ d <= x
    OBVIOUS
<1>6. y \in Nat /\ y + Lesser(a, m) <= l - d /\ (a <= m => y + a = l - d)
    BY <1>1, <1>4, <1>5 DEF Lesser
<1>7. \A k \in 1 .. Lesser(a, m) : u[y + k] = e[k]
    <2> DEFINE p == Lesser(a, m)
    <2>1. p \in Int /\ y + p <= l - d /\ x \in Nat
        BY <1>1, <1>4, <1>6 DEF Lesser
    <2> HIDE DEF p
    <2>2. \A k \in 1 .. p : y + k \in 1 .. l - d /\ d + (y + k) = x + k
        BY <1>1, <1>5, <2>1
    <2> HIDE DEF y
    <2> QED BY <1>3, <1>4, <2>2, Zenon DEF p
<1>8. y = 0 \/ u[y] = END_MARKER
    <2> SUFFICES ASSUME y # 0 PROVE u[y] = END_MARKER
        OBVIOUS
    <2>1. y \in 1 .. l - d /\ d + y = x /\ x # 0
        BY <1>1, <1>4, <1>5, <1>6 DEF Lesser
    <2> HIDE DEF y
    <2>2. q[x] = END_MARKER
        BY <1>4, <2>1
    <2> QED BY <1>3, <2>1, <2>2, Zenon
<1> HIDE DEF y
<1> QED BY <1>3, <1>6, <1>7, <1>8, Zenon DEF Intact, u, m, y

LEMMA BeyondJoined ==
    ASSUME NEW r \in Seq(Byte), NEW t \in Seq(Byte), NEW d \in 0 .. Len(r)
    PROVE  Beyond(r, d) \o t = Beyond(r \o t, d) /\ d \in 0 .. Len(r \o t)
<1> DEFINE q == r \o t  u == Beyond(r, d)  v == Beyond(q, d)  w == u \o t
           l == Len(r)  n == Len(t)
<1>1. l \in Nat /\ n \in Nat /\ d \in 0 .. l
    <2> HIDE DEF Byte
    <2> QED OBVIOUS
<1>2. q \in Seq(Byte) /\ Together(q, r, t)
    BY Joined
<1>3. u \in Seq(Byte) /\ Slices(r, d)
    BY Sliced
<1> HIDE DEF q
<1>4. d \in 0 .. Len(q)
    BY <1>1, <1>2 DEF Together
<1>5. v \in Seq(Byte) /\ Slices(q, d)
    BY <1>2, <1>4, Sliced
<1> HIDE DEF u, v
<1>6. w \in Seq(Byte) /\ Together(w, u, t)
    BY <1>3, Joined
<1> HIDE DEF w, l, n
<1>7. /\ Len(q) = l + n /\ (\A k \in 1 .. l : q[k] = r[k]) /\ \A k \in 1 .. n : q[l + k] = t[k]
    BY <1>2, Zenon DEF Together, l, n
<1>8. Len(u) = l - d /\ \A k \in 1 .. l - d : u[k] = r[d + k]
    BY <1>3 DEF Slices, u, l
<1>9. Len(v) = Len(q) - d /\ \A k \in 1 .. Len(q) - d : v[k] = q[d + k]
    BY <1>5 DEF Slices, v
<1>10. /\ Len(w) = Len(u) + n /\ (\A k \in 1 .. Len(u) : w[k] = u[k])
       /\ \A k \in 1 .. n : w[Len(u) + k] = t[k]
    BY <1>6, Zenon DEF Together, n
<1>11. Len(w) = l - d + n /\ Len(v) = l - d + n /\ Len(w) = Len(v)
    BY <1>1, <1>7, <1>8, <1>9, <1>10
<1>12. \A k \in 1 .. Len(w) : w[k] = v[k]
    <2> TAKE k \in 1 .. Len(w)
    <2>1. v[k] = q[d + k]
        BY <1>9, <1>11
    <2>2. CASE k \in 1 .. l - d
        <3>1. d + k \in 1 .. l
            BY <1>1, <2>2
        <3>2. w[k] = u[k]
            BY <1>8, <1>10, <2>2
        <3> QED BY <1>7, <1>8, <2>1, <2>2, <3>1, <3>2, Zenon
    <2>3. CASE k \notin 1 .. l - d
        <3> DEFINE j == k - (l - d)
        <3>1. j \in 1 .. n /\ l - d + j = k /\ l + j = d + k
            BY <1>1, <1>11, <2>3
        <3> HIDE DEF j
        <3>2. w[k] = t[j]
            BY <1>8, <1>10, <3>1, Zenon
        <3> QED BY <1>7, <2>1, <3>1, <3>2, Zenon
    <2> QED BY <2>2, <2>3
<1>13. w = v
    BY <1>5, <1>6, <1>11, <1>12, SeqEqual
<1> QED BY <1>4, <1>13 DEF u, v, w, q

\* The start marker that is found is not behind it.
LEMMA IntactStart ==
    ASSUME NEW r \in Seq(Byte), NEW t \in Seq(Byte), NEW e \in Seq(Byte), Marked(e),
           NEW a \in Nat, NEW x, Intact(r \o t, e, a, x),
           NEW s \in 1 .. Len(r), \A k \in 1 .. s - 1 : r[k] # START_MARKER
    PROVE  s - 1 <= x
<1> DEFINE q == r \o t  l == Len(r)  m == Len(e)
<1>1. l \in Nat /\ m \in Nat /\ Len(t) \in Nat /\ s \in 1 .. l
    <2> HIDE DEF Byte
    <2> QED OBVIOUS
<1>2. Together(q, r, t)
    BY Joined
<1>3. Intact(q, e, a, x)
    OBVIOUS
<1> HIDE DEF q, l
<1>4. l <= Len(q) /\ Len(q) \in Nat /\ \A k \in 1 .. l : q[k] = r[k]
    BY <1>1, <1>2 DEF Together, l
<1>5. /\ x \in Nat /\ x + Lesser(a, m) <= Len(q) /\ (a <= m => x + a = Len(q))
      /\ \A k \in 1 .. Lesser(a, m) : q[x + k] = e[k]
    BY <1>3 DEF Intact
<1>6. m >= 2 /\ e[1] = START_MARKER
    BY DEF Marked
<1> HIDE DEF m
<1> SUFFICES ASSUME x + 1 <= s - 1 PROVE FALSE
    BY <1>1, <1>5
<1>7. a >= 1 /\ 1 \in 1 .. Lesser(a, m) /\ x + 1 \in 1 .. l /\ x + 1 \in 1 .. s - 1
    BY <1>1, <1>4, <1>5, <1>6 DEF Lesser
<1>8. r[x + 1] = START_MARKER
    BY <1>4, <1>5, <1>6, <1>7
<1> QED BY <1>7, <1>8

\* process_frame cuts it off, or leaves it as it is.
LEMMA IntactCut ==
    ASSUME NEW r \in Seq(Byte), NEW t \in Seq(Byte), NEW e \in Seq(Byte), Marked(e),
           NEW a \in Nat, NEW x, Intact(r \o t, e, a, x)
    PROVE  \/ NextFrame(r).cut = e
           \/ \E y : Intact(NextFrame(r).rest \o t, e, a, y)
<1>1. r \o t \in Seq(Byte)
    BY Joined
<1>2. x \in Nat /\ Len(r) \in Nat
    <2> HIDE DEF Byte
    <2> QED BY DEF Intact
<1>3. ASSUME NEW d \in 0 .. Len(r), d <= x, NextFrame(r).rest = Beyond(r, d)
      PROVE  \E y : Intact(NextFrame(r).rest \o t, e, a, y)
    <2>1. Beyond(r, d) \o t = Beyond(r \o t, d) /\ d \in 0 .. Len(r \o t)
        BY BeyondJoined
    <2>2. Intact(Beyond(r \o t, d), e, a, x - d)
        BY <1>1, <1>3, <2>1, IntactDropped
    <2> QED BY <1>3, <2>1, <2>2, Zenon
<1>4. CASE NothingCut(r)
    <2>1. NextFrame(r).rest = r
        BY <1>4 DEF NothingCut
    <2> QED BY <2>1, Zenon
<1>5. ASSUME NEW s \in Nat, FrontDropped(r, s)
      PROVE  \E y : Intact(NextFrame(r).rest \o t, e, a, y)
    <2>1. s \in 1 .. Len(r) /\ \A k \in 1 .. s - 1 : r[k] # START_MARKER
        BY <1>5 DEF FrontDropped
    <2>2. s - 1 <= x
        BY <2>1, IntactStart
    <2>3. s - 1 \in 0 .. Len(r)
        BY <1>2, <2>1
    <2>4. NextFrame(r).rest = Beyond(r, s - 1)
        BY <1>5 DEF FrontDropped
    <2> QED BY <1>3, <2>2, <2>3, <2>4
<1>6. ASSUME NEW i \in Nat, NEW j \in Nat, PieceCut(r, i, j)
      PROVE  NextFrame(r).cut = e \/ \E y : Intact(NextFrame(r).rest \o t, e, a, y)
    <2>1. CASE SubSeq(r, i, j) = e
        BY <1>6, <2>1 DEF PieceCut
    <2>2. CASE j <= x
        <3>1. j \in 0 .. Len(r) /\ NextFrame(r).rest = Beyond(r, j)
            BY <1>2, <1>6 DEF PieceCut
        <3> QED BY <1>3, <2>2, <3>1
    <2> QED BY <1>6, <2>1, <2>2, IntactPiece
<1>7. \/ NothingCut(r)
      \/ \E s \in Nat : FrontDropped(r, s)
      \/ \E s, k \in Nat : PieceCut(r, s, k)
    BY CutCases
<1>8. CASE \E s \in Nat : FrontDropped(r, s)
    <2>1. PICK s \in Nat : FrontDropped(r, s)
        BY <1>8
    <2> QED BY <1>5, <2>1
<1>9. CASE \E s, k \in Nat : PieceCut(r, s, k)
    <2>1. PICK s \in Nat : \E k \in Nat : PieceCut(r, s, k)
        BY <1>9
    <2>2. PICK k \in Nat : PieceCut(r, s, k)
        BY <2>1
    <2> QED BY <1>6, <2>2
<1> QED BY <1>4, <1>7, <1>8, <1>9

\* It does not stay once it is complete.
LEMMA IntactWaits ==
    ASSUME NEW r \in Seq(Byte), NEW e \in Seq(Byte), Marked(e),
           NEW a \in Nat, a >= Len(e), NEW x, Intact(r, e, a, x)
    PROVE  NextFrame(r).cut # <<>>
<1> DEFINE l == Len(r)  m == Len(e)
<1>1. l \in Nat /\ m \in Nat
    <2> HIDE DEF Byte
    <2> QED OBVIOUS
<1>2. m >= 2 /\ e[1] = START_MARKER /\ e[m] = END_MARKER
    BY DEF Marked
<1>3. Lesser(a, m) = m
    BY <1>1 DEF Lesser
<1>4. x \in Nat /\ x + m <= l /\ \A k \in 1 .. m : r[x + k] = e[k]
    BY <1>3 DEF Intact
<1> HIDE DEF l, m
<1>5. 1 \in 1 .. m /\ m \in 1 .. m /\ x + 1 \in 1 .. l /\ x + m \in 1 .. l
    BY <1>1, <1>2, <1>4
<1>6. r[x + 1] = START_MARKER /\ r[x + m] = END_MARKER
    BY <1>2, <1>4, <1>5, Zenon
<1>7. ~NothingCut(r)
    BY <1>5, <1>6 DEF NothingCut, l
<1>8. ASSUME NEW s \in Nat, FrontDropped(r, s) PROVE FALSE
    <2>1. /\ s \in 1 .. l /\ \A k \in 1 .. s - 1 : r[k] # START_MARKER
          /\ \A k \in s .. l : r[k] # END_MARKER
        BY <1>8 DEF FrontDropped, l
    <2>2. s <= x + 1
        BY <1>4, <1>5, <1>6, <2>1
    <2>3. x + m \in s .. l
        BY <1>1, <1>2, <1>4, <1>5, <2>1, <2>2
    <2> QED BY <1>6, <2>1, <2>3
<1>9. ASSUME NEW i \in Nat, NEW j \in Nat, PieceCut(r, i, j) PROVE NextFrame(r).cut # <<>>
    <2>1. i \in 1 .. l /\ j \in i .. l /\ NextFrame(r).cut = SubSeq(r, i, j)
        BY <1>9 DEF PieceCut, l
    <2>2. \A k \in i .. j : r[k] \in Byte
        <3> HIDE DEF Byte
        <3> QED BY <1>1, <2>1 DEF l
    <2>3. Len(SubSeq(r, i, j)) = IF i <= j THEN j - i + 1 ELSE 0
        BY <1>1, <2>1, <2>2, SubSeqProperties
    <2>4. Len(SubSeq(r, i, j)) # 0
        BY <1>1, <2>1, <2>3
    <2> DEFINE q == SubSeq(r, i, j)
    <2> HIDE DEF q
    <2>5. Len(<<>>) = 0 /\ Len(q) # 0
        BY <2>4 DEF q
    <2>6. q # <<>>
        BY <2>5, Zenon
    <2> QED BY <2>1, <2>6, Zenon DEF q
<1>10. \/ NothingCut(r)
       \/ \E s \in Nat : FrontDropped(r, s)
       \/ \E s, k \in Nat : PieceCut(r, s, k)
    BY CutCases
<1>11. CASE \E s \in Nat : FrontDropped(r, s)
    <2>1. PICK s \in Nat : FrontDropped(r, s)
        BY <1>11
    <2> QED BY <1>8, <2>1
<1>12. CASE \E s, k \in Nat : PieceCut(r, s, k)
    <2>1. PICK s \in Nat : \E k \in Nat : PieceCut(r, s, k)
        BY <1>12
    <2>2. PICK k \in Nat : PieceCut(r, s, k)
        BY <2>1
    <2> QED BY <1>9, <2>2
<1> QED BY <1>7, <1>10, <1>11, <1>12

---------------------------------------------------------------------------
(* Losses *)

\* The bytes of a script, and how many of them are in front of frame i + 1.
Sent(s)      == Wire[s][Len(s)]
Before(s, i) == Len(Wire[s][i])

LEMMA PackMarked ==
    ASSUME NEW frame \in Frames
    PROVE  /\ Pack(frame) \in Seq(Byte) /\ Marked(Pack(frame))
           /\ UnpackFull(Pack(frame)) = [result |-> "Ok", frame |-> frame]
BY PackUnpack DEF Whole, Marked

\* Frame i lies behind those in front.
Laid(s, i) ==
    /\ Before(s, i - 1) \in Nat /\ Before(s, i) = Before(s, i - 1) + Len(Pack(s[i]))
    /\ Before(s, i) <= Len(Sent(s)) /\ Len(Sent(s)) \in Nat
    /\ \A k \in 1 .. Len(Pack(s[i])) : Sent(s)[Before(s, i - 1) + k] = Pack(s[i])[k]
    /\ i = 1 \/ i - 1 \in DOMAIN s
    /\ i = 1 => Before(s, i - 1) = 0

LEMMA WireParts ==
    ASSUME NEW s \in Scripts
    PROVE  /\ Parts(Wire[s], Len(s), Pieces(s))
           /\ \A k \in 1 .. Len(s) : Pieces(s)[k] \in Seq(Byte)
<1> DEFINE n == Len(s)  G == Pieces(s)
<1>1. n \in Nat /\ DOMAIN s = 1 .. n
    BY ScriptFrames
<1>2. Joins(Wire[s], n, G)
    BY WireJoins
<1>3. \A k \in 1 .. n : G[k] \in Seq(Byte)
    <2> TAKE k \in 1 .. n
    <2>1. s[k] \in Frames
        BY ScriptFrames
    <2>2. G[k] = Pack(s[k])
        BY <1>1 DEF Pieces
    <2> QED BY <2>1, <2>2, PackUnpack
<1> HIDE DEF n, G
<1>4. Parts(Wire[s], n, G)
    BY <1>1, <1>2, <1>3, ConcatenationParts
<1> QED BY <1>3, <1>4 DEF n, G

LEMMA Layout ==
    ASSUME NEW s \in Scripts, NEW i \in DOMAIN s
    PROVE  s[i] \in Frames /\ Laid(s, i)
<1> DEFINE n == Len(s)  G == Pieces(s)
<1>1. n \in Nat /\ DOMAIN s = 1 .. n /\ s[i] \in Frames /\ i \in 1 .. n
    BY ScriptFrames
<1>2. Joins(Wire[s], n, G) /\ \A k \in 0 .. n : Wire[s][k] \in Seq(Byte)
    BY WireJoins
<1>3. G[i] = Pack(s[i])
    BY DEF Pieces
<1>5. Parts(Wire[s], n, G)
    BY WireParts
<1> HIDE DEF n, G
<1>6. i - 1 \in 0 .. n /\ i \in 0 .. n /\ n \in 0 .. n
    BY <1>1
<1>7. Wire[s][i - 1] \in Seq(Byte) /\ Wire[s][n] \in Seq(Byte)
    BY <1>2, <1>6
<1>8. Before(s, i - 1) \in Nat /\ Len(Sent(s)) \in Nat
    <2> HIDE DEF Byte
    <2> QED BY <1>7 DEF Before, Sent, n
<1>9. Before(s, i) = Before(s, i - 1) + Len(Pack(s[i]))
    BY <1>1, <1>3, <1>5 DEF Parts, Before
<1>10. Before(s, i) <= Len(Sent(s))
    BY <1>5, <1>6 DEF Parts, Prefix, Before, Sent, n
<1>11. \A k \in 1 .. Len(Pack(s[i])) : Sent(s)[Before(s, i - 1) + k] = Pack(s[i])[k]
    <2>1. PieceAt(Wire[s], n, G, i)
        BY <1>1, <1>5 DEF Parts
    <2> QED BY <1>3, <2>1, Zenon DEF PieceAt, Before, Sent, n
<1>12. i = 1 \/ i - 1 \in DOMAIN s
    BY <1>1
<1>13. i = 1 => Before(s, i - 1) = 0
    <2>1. Wire[s][0] = <<>> /\ 1 - 1 = 0 /\ Len(<<>>) = 0
        BY <1>2 DEF Joins
    <2> QED BY <2>1, Zenon DEF Before
<1> QED BY <1>1, <1>8, <1>9, <1>10, <1>11, <1>12, <1>13, Zenon DEF Laid

\* What has arrived and was not worked off, and how many bytes are gone.
Waiting == recvBuf \o held \o pipe
Gone    == Len(Sent(script)) - Len(air)

\* What is in the air is the rest of what was sent.
AirInv ==
    /\ Gone \in Nat
    /\ \A k \in 1 .. Len(air) : air[k] = Sent(script)[Gone + k]

\* A frame that has begun to arrive, and that lost nothing and is not behind
\* one that did, was heard or is on its way through the buffers.
Unhurt(i) == {i - 1, i} \intersect hurt = {}
Heard(i)  == \E j \in DOMAIN got : got[j] = script[i]
Safe(i) ==
    Unhurt(i) /\ Gone >= Before(script, i - 1) =>
        \/ Heard(i)
        \/ \E x : Intact(Waiting, Pack(script[i]), Gone - Before(script, i - 1), x)

LossInv == AirInv /\ got \in Seq(Received) /\ \A i \in DOMAIN script : Safe(i)

LEMMA InitLoss == ASSUME Init PROVE LossInv
<1>1. script \in Scripts /\ air = Sent(script) /\ got = <<>> /\ Waiting = <<>> \o <<>> \o <<>>
    BY DEF Init, Sent, Waiting
<1>2. Sent(script) \in Seq(Byte) /\ Len(Sent(script)) \in Nat
    <2>1. Len(script) \in 0 .. Len(script)
        <3>1. Len(script) \in Nat
            BY <1>1, ScriptFrames
        <3> QED BY <3>1
    <2>2. Sent(script) \in Seq(Byte)
        BY <1>1, <2>1, WireJoins DEF Sent
    <2> HIDE DEF Byte
    <2> QED BY <2>2
<1>3. Gone = 0
    BY <1>1, <1>2 DEF Gone
<1>4. AirInv
    BY <1>1, <1>2, <1>3 DEF AirInv
<1>5. Waiting = <<>> /\ Len(<<>>) = 0
    <2>1. <<>> \in Seq(Byte)
        OBVIOUS
    <2>2. <<>> \o <<>> = <<>>
        BY <2>1, ConcatEmptySeq
    <2> QED BY <1>1, <2>2
<1>6. ASSUME NEW i \in DOMAIN script PROVE Safe(i)
    <2> DEFINE e == Pack(script[i])  b == Before(script, i - 1)
    <2>1. e \in Seq(Byte) /\ b \in Nat
        BY <1>1, Layout, PackMarked DEF Laid
    <2>2. Len(e) \in Nat
        <3> HIDE DEF Byte, e
        <3> QED BY <2>1
    <2> SUFFICES ASSUME Gone >= b PROVE Intact(Waiting, e, Gone - b, 0)
        BY Zenon DEF Safe
    <2> HIDE DEF b, e
    <2>3. b = 0 /\ Gone - b = 0
        BY <1>3, <2>1
    <2>4. Intact(<<>>, e, 0, 0)
        BY <1>5, <2>2 DEF Intact, Lesser
    <2> QED BY <1>5, <2>3, <2>4
<1>7. got \in Seq(Received)
    BY <1>1
<1> QED BY <1>4, <1>6, <1>7 DEF LossInv

\* Steps that move no bytes into or out of what waits.
LEMMA StillSafe ==
    ASSUME LossInv, UNCHANGED <<script, air, got, hurt>>, Waiting' = Waiting
    PROVE  LossInv'
<1>1. AirInv' /\ Gone' = Gone
    BY DEF LossInv, AirInv, Gone
<1>2. ASSUME NEW i \in DOMAIN script' PROVE Safe(i)'
    <2>1. i \in DOMAIN script /\ Safe(i)
        BY DEF LossInv
    <2>2. (Unhurt(i)' <=> Unhurt(i)) /\ (Heard(i) <=> Heard(i)')
        BY DEF Unhurt, Heard
    <2> QED BY <1>1, <2>1, <2>2 DEF Safe
<1> QED BY <1>1, <1>2 DEF LossInv

LEMMA ReadWaiting ==
    ASSUME TInv, Peek \/ Recv
    PROVE  Waiting' = Waiting
<1> DEFINE r == recvBuf  h == held  p == pipe
<1>1. r \in Seq(Byte) /\ h \in Seq(Byte) /\ p \in Seq(Byte) /\ <<>> \in Seq(Byte)
    BY DEF TInv, InTyped
<1>2. CASE Peek /\ pipe # <<>>
    <2>1. h = <<>>
        <3>1. Len(h) = 0
            BY <1>2 DEF TInv, OneHeld, Peek
        <3> HIDE DEF h, Byte
        <3> QED BY <1>1, <3>1
    <2> DEFINE one == <<Head(p)>>  rest == Tail(p)
    <2>2. one \in Seq(Byte) /\ rest \in Seq(Byte) /\ one \o rest = p
        <3> HIDE DEF Byte, p
        <3> QED BY <1>1, <1>2 DEF p
    <2>3. Waiting' = r \o one \o rest
        BY <1>2 DEF Waiting, Peek, ByteHeld
    <2> HIDE DEF r, p, one, rest
    <2>4. r \in Seq(Byte) /\ one \in Seq(Byte) /\ rest \in Seq(Byte)
        BY <1>1, <2>2
    <2>5. (r \o one) \o rest = r \o (one \o rest)
        <3>1. Regroups(r, one, rest)
            BY <2>4, Regrouped, Zenon
        <3> QED BY <3>1, Zenon DEF Regroups
    <2>6. r \o <<>> = r
        BY <1>1, ConcatEmptySeq
    <2>7. Waiting = r \o h \o p
        BY DEF Waiting, r, p
    <2> QED BY <2>1, <2>2, <2>3, <2>5, <2>6, <2>7, Zenon
<1>3. CASE Peek /\ pipe = <<>>
    BY <1>3 DEF Peek, Waiting
<1>4. CASE Recv
    <2> DEFINE u == r \o h \o p
    <2>1. u \in Seq(Byte)
        <3>1. r \o h \in Seq(Byte)
            BY <1>1, Joined
        <3> QED BY <1>1, <3>1, Joined
    <2>2. Waiting' = u \o <<>> \o <<>>
        BY <1>4 DEF Recv, Waiting
    <2>3. Waiting = u
        BY DEF Waiting
    <2> HIDE DEF u
    <2>4. u \o <<>> = u
        BY <2>1, ConcatEmptySeq
    <2> QED BY <2>2, <2>3, <2>4, Zenon
<1> QED BY <1>2, <1>3, <1>4

\* What a step of the connection takes out of the air.
TakenOff(l, new) ==
    /\ l \in Nat \ {0} /\ new \in Seq(Byte) /\ Len(new) = l
    /\ Gone' = Gone + l /\ AirInv'
    /\ \A k \in 1 .. l : new[k] = Sent(script)[Gone + k]

LEMMA ChunkGone ==
    ASSUME TInv, AirInv, NEW n \in ChunkSizes, NextChunk(n), UNCHANGED script
    PROVE  TakenOff(Lesser(n, Len(air)), Upto(air, Lesser(n, Len(air))))
<1> DEFINE l == Lesser(n, Len(air))  new == Upto(air, l)  s == Sent(script)  m == Len(air)
<1>1. l \in 0 .. Len(air) /\ new \in Seq(Byte) /\ n \in Nat \ {0}
    BY ChunkTyped, BoundAssumption DEF TInv
<1>2. air \in Seq(Byte) /\ Len(air) \in Nat /\ air # <<>> /\ air' = Beyond(air, l)
    <2>1. Len(air) \in Nat
        <3> HIDE DEF Byte
        <3> QED BY DEF TInv, InTyped
    <2> QED BY <2>1 DEF TInv, InTyped, NextChunk
<1>3. Len(air) # 0
    <2> HIDE DEF Byte
    <2> QED BY <1>2
<1>4. l # 0
    BY <1>1, <1>2, <1>3 DEF Lesser
<1>5. Slices(air, l)
    BY <1>1, <1>2, Sliced
<1> HIDE DEF l, new
<1>6. /\ Len(new) = l /\ Len(air') = Len(air) - l
      /\ \A k \in 1 .. l : new[k] = air[k]
      /\ \A k \in 1 .. Len(air) - l : air'[k] = air[l + k]
    BY <1>2, <1>5 DEF Slices, new
<1>7. Gone \in Nat /\ Gone = Len(s) - Len(air) /\ \A k \in 1 .. Len(air) : air[k] = s[Gone + k]
    BY DEF AirInv, Gone
<1>9. Len(s) \in Nat
    <2>1. script \in Scripts
        BY DEF TInv, PlacesTyped
    <2>2. Len(script) \in 0 .. Len(script)
        <3>1. Len(script) \in Nat
            BY <2>1, ScriptFrames
        <3> QED BY <3>1
    <2>3. s \in Seq(Byte)
        BY <2>1, <2>2, WireJoins DEF Sent
    <2> HIDE DEF s, Byte
    <2> QED BY <2>3
<1> HIDE DEF s, m
<1>10. Gone' = Gone + l /\ Sent(script)' = s
    <2>1. Sent(script)' = s /\ Gone' = Len(s) - Len(air')
        BY DEF Gone, s
    <2> QED BY <1>1, <1>2, <1>6, <1>7, <1>9, <2>1
<1>11. \A k \in 1 .. l : new[k] = s[Gone + k]
    <2>1. \A k \in 1 .. l : k \in 1 .. Len(air)
        BY <1>1, <1>2
    <2> QED BY <1>6, <1>7, <2>1, Zenon
<1>12. \A k \in 1 .. Len(air') : air'[k] = s[Gone' + k]
    <2> TAKE k \in 1 .. Len(air')
    <2> DEFINE g == Gone
    <2>0. g \in Nat /\ Gone' = g + l
        BY <1>7, <1>10
    <2> HIDE DEF g
    <2>1. k \in 1 .. Len(air) - l /\ l + k \in 1 .. Len(air) /\ g + (l + k) = Gone' + k
        BY <1>1, <1>2, <1>6, <2>0
    <2> QED BY <1>6, <1>7, <2>1, Zenon DEF g
<1>13. AirInv'
    <2>1. Gone' \in Nat
        BY <1>1, <1>7, <1>10
    <2> QED BY <1>10, <1>12, <2>1, Zenon DEF AirInv
<1>14. l \in Nat \ {0}
    BY <1>1, <1>4
<1> QED BY <1>1, <1>6, <1>10, <1>11, <1>13, <1>14, Zenon DEF TakenOff, l, new, s

\* The bytes of frame i, in numbers.
LEMMA FrameBytes ==
    ASSUME TInv, NEW i \in DOMAIN script
    PROVE  /\ Laid(script, i) /\ script[i] \in Frames
           /\ Pack(script[i]) \in Seq(Byte) /\ Len(Pack(script[i])) \in Nat /\ Marked(Pack(script[i]))
<1>1. script \in Scripts
    BY DEF TInv, PlacesTyped
<1>2. Laid(script, i) /\ script[i] \in Frames
    BY <1>1, Layout
<1>3. Pack(script[i]) \in Seq(Byte) /\ Marked(Pack(script[i]))
    BY <1>2, PackMarked
<1>4. Len(Pack(script[i])) \in Nat
    <2> DEFINE e == Pack(script[i])
    <2> HIDE DEF Byte, e
    <2> QED BY <1>3 DEF e
<1> QED BY <1>2, <1>3, <1>4

LEMMA WaitingTyped ==
    ASSUME TInv
    PROVE  /\ Waiting \in Seq(Byte) /\ held \o pipe \in Seq(Byte)
           /\ Waiting = recvBuf \o (held \o pipe)
<1> DEFINE r == recvBuf  h == held  p == pipe
<1>1. r \in Seq(Byte) /\ h \in Seq(Byte) /\ p \in Seq(Byte)
    BY DEF TInv, InTyped
<1> HIDE DEF r, h, p
<1>2. r \o h \in Seq(Byte) /\ h \o p \in Seq(Byte)
    BY <1>1, Joined
<1>3. r \o h \o p \in Seq(Byte)
    BY <1>1, <1>2, Joined
<1>4. (r \o h) \o p = r \o (h \o p)
    <2>1. Regroups(r, h, p)
        BY <1>1, Regrouped, Zenon
    <2> QED BY <2>1, Zenon DEF Regroups
<1> QED BY <1>2, <1>3, <1>4, Zenon DEF Waiting, r, h, p

LEMMA ArriveWaiting ==
    ASSUME TInv, NEW n \in ChunkSizes, Arrive(n)
    PROVE  Waiting' = Waiting \o Upto(air, Lesser(n, Len(air)))
<1> DEFINE r == recvBuf  h == held  p == pipe  g == recvBuf \o held
           new == Upto(air, Lesser(n, Len(air)))
<1>1. Waiting' = g \o (p \o new)
    BY DEF Arrive, Waiting
<1>2. g \in Seq(Byte) /\ p \in Seq(Byte) /\ new \in Seq(Byte)
    <2>1. r \in Seq(Byte) /\ h \in Seq(Byte) /\ p \in Seq(Byte)
        BY DEF TInv, InTyped
    <2> QED BY <2>1, Joined, ChunkTyped DEF TInv
<1>3. Waiting = g \o p
    BY DEF Waiting
<1> HIDE DEF g, p, new
<1>4. (g \o p) \o new = g \o (p \o new)
    <2>1. Regroups(g, p, new)
        BY <1>2, Regrouped, Zenon
    <2> QED BY <2>1, Zenon DEF Regroups
<1> QED BY <1>1, <1>3, <1>4, Zenon DEF new

LEMMA ArriveSafe ==
    ASSUME TInv, LossInv, NEW n \in ChunkSizes, Arrive(n)
    PROVE  LossInv'
<1> DEFINE l == Lesser(n, Len(air))  new == Upto(air, l)  q == Waiting  s == Sent(script)
<1>1. TakenOff(l, new)
    BY ChunkGone DEF LossInv, Arrive
<1> HIDE DEF l, new
<1>2. /\ l \in Nat \ {0} /\ new \in Seq(Byte) /\ Len(new) = l
      /\ Gone' = Gone + l /\ AirInv'
      /\ \A k \in 1 .. l : new[k] = s[Gone + k]
    BY <1>1 DEF TakenOff
<1>3. q \in Seq(Byte)
    BY WaitingTyped
<1>4. Waiting' = q \o new
    BY ArriveWaiting DEF l, new
<1>5. Gone \in Nat
    BY DEF LossInv, AirInv
<1> HIDE DEF q, s
<1>6. ASSUME NEW i \in DOMAIN script PROVE Safe(i)'
    <2> DEFINE e == Pack(script[i])  b == Before(script, i - 1)
    <2>1. Laid(script, i) /\ e \in Seq(Byte) /\ Len(e) \in Nat
        BY FrameBytes
    <2>2. b \in Nat /\ \A k \in 1 .. Len(e) : s[b + k] = e[k]
        BY <2>1 DEF Laid, s
    <2>3. Safe(i)
        BY DEF LossInv
    <2>4. UNCHANGED <<script, hurt, got>>
        BY DEF Arrive
    <2>5. (Unhurt(i)' <=> Unhurt(i)) /\ (Heard(i)' <=> Heard(i))
        BY <2>4 DEF Unhurt, Heard
    <2>6. Pack(script[i])' = e /\ Before(script, i - 1)' = b
        BY <2>4
    <2> HIDE DEF e, b
    <2> SUFFICES ASSUME Unhurt(i), Gone' >= b
                 PROVE  Heard(i) \/ \E x : Intact(q \o new, e, Gone' - b, x)
        BY <1>4, <2>5, <2>6, Zenon DEF Safe
    <2>7. CASE Gone >= b
        <3> DEFINE a == Gone - b
        <3>1. a \in Nat /\ a + Len(new) = Gone' - b
            BY <1>2, <1>5, <2>2, <2>7
        <3>2. Heard(i) \/ \E x : Intact(q, e, a, x)
            BY <2>3, <2>7, Zenon DEF Safe, e, b, q
        <3>3. \A k \in 1 .. Len(new) : a + k <= Len(e) => new[k] = e[a + k]
            <4> TAKE k \in 1 .. Len(new)
            <4> HAVE a + k <= Len(e)
            <4>1. k \in 1 .. l /\ a + k \in 1 .. Len(e) /\ b + (a + k) = Gone + k
                BY <1>2, <1>5, <2>1, <2>2, <3>1
            <4> HIDE DEF a
            <4> QED BY <1>2, <2>2, <4>1, Zenon
        <3> HIDE DEF a
        <3>4. ASSUME NEW x, Intact(q, e, a, x) PROVE Intact(q \o new, e, a + Len(new), x)
            BY <1>2, <1>3, <2>1, <3>1, <3>3, <3>4, IntactArrives
        <3> QED BY <3>1, <3>2, <3>4, Zenon
    <2>8. CASE Gone < b
        <3> DEFINE j == b - Gone  f == Pack(script[i - 1])  c == Before(script, (i - 1) - 1)
        <3>1. i - 1 \in DOMAIN script
            BY <1>5, <2>1, <2>8 DEF Laid, b
        <3>2. Laid(script, i - 1) /\ Len(f) \in Nat /\ Marked(f)
            BY <3>1, FrameBytes
        <3>3. /\ c \in Nat /\ b = c + Len(f) /\ Len(f) >= 2 /\ f[Len(f)] = END_MARKER
              /\ \A k \in 1 .. Len(f) : s[c + k] = f[k]
            BY <3>2 DEF Laid, Marked, b, s
        <3> HIDE DEF c, f
        <3>4. s[b] = END_MARKER
            <4>1. Len(f) \in 1 .. Len(f)
                BY <3>2, <3>3
            <4> QED BY <3>3, <4>1, Zenon
        <3>5. j \in 1 .. l /\ Gone + j = b /\ j \in 1 .. Len(new)
            BY <1>2, <1>5, <2>2, <2>8
        <3>6. new[j] = END_MARKER
            BY <1>2, <3>4, <3>5
        <3>7. Len(new) - j = Gone' - b
            BY <1>2, <1>5, <2>2
        <3>8. \A k \in 1 .. Len(new) - j : k <= Len(e) => new[j + k] = e[k]
            <4> TAKE k \in 1 .. Len(new) - j
            <4> HAVE k <= Len(e)
            <4>1. j + k \in 1 .. l /\ k \in 1 .. Len(e) /\ Gone + (j + k) = b + k
                BY <1>2, <1>5, <2>1, <2>2, <3>5
            <4> HIDE DEF j
            <4> QED BY <1>2, <2>2, <4>1, Zenon
        <3> HIDE DEF j
        <3>9. Intact(q \o new, e, Len(new) - j, Len(q) + j)
            BY <1>2, <1>3, <2>1, <3>5, <3>6, <3>8, IntactBegins
        <3> QED BY <3>7, <3>9, Zenon
    <2> QED BY <1>2, <1>5, <2>2, <2>7, <2>8
<1>7. script' = script /\ got' = got
    BY DEF Arrive
<1> QED BY <1>2, <1>6, <1>7 DEF LossInv

LEMMA VanishSafe ==
    ASSUME TInv, LossInv, NEW n \in ChunkSizes, Vanish(n)
    PROVE  LossInv'
<1> DEFINE l == Lesser(n, Len(air))  new == Upto(air, l)  q == Waiting
<1>1. TakenOff(l, new)
    BY ChunkGone DEF LossInv, Vanish
<1>2. hurt' = hurt \union Touched(l) /\ UNCHANGED <<script, got>> /\ Waiting' = q
    BY DEF Vanish, Waiting
<1> HIDE DEF l, new, q
<1>3. l \in Nat \ {0} /\ Gone' = Gone + l /\ AirInv'
    BY <1>1 DEF TakenOff
<1>4. Gone \in Nat
    BY DEF LossInv, AirInv
<1>5. ASSUME NEW i \in DOMAIN script, Before(script, i - 1) < Gone + l, Before(script, i) > Gone
      PROVE  i \in hurt'
    BY <1>2, <1>5 DEF Touched, Gone, Before, Sent
<1>6. ASSUME NEW i \in DOMAIN script PROVE Safe(i)'
    <2> DEFINE e == Pack(script[i])  b == Before(script, i - 1)
    <2>1. Laid(script, i) /\ e \in Seq(Byte) /\ Len(e) \in Nat
        BY FrameBytes
    <2>2. b \in Nat /\ Before(script, i) = b + Len(e)
        BY <2>1 DEF Laid
    <2>3. Safe(i)
        BY DEF LossInv
    <2>4. (Unhurt(i)' => Unhurt(i)) /\ (Heard(i)' <=> Heard(i)) /\ (Unhurt(i)' => i \notin hurt' /\ i - 1 \notin hurt')
        BY <1>2 DEF Unhurt, Heard
    <2>5. Pack(script[i])' = e /\ Before(script, i - 1)' = b
        BY <1>2
    <2> HIDE DEF e
    <2> SUFFICES ASSUME Unhurt(i)', Gone' >= b
                 PROVE  Heard(i) \/ \E x : Intact(q, e, Gone' - b, x)
        BY <1>2, <2>4, <2>5, Zenon DEF Safe
    <2>6. CASE Gone < b
        <3>1. i - 1 \in DOMAIN script
            BY <1>4, <2>1, <2>6 DEF Laid
        <3> DEFINE c == Before(script, (i - 1) - 1)
        <3>2. Laid(script, i - 1) /\ Len(Pack(script[i - 1])) \in Nat /\ Marked(Pack(script[i - 1]))
            BY <3>1, FrameBytes
        <3>3. c \in Nat /\ c < b
            BY <3>2 DEF Laid, Marked
        <3> HIDE DEF b, c
        <3>4. c < Gone + l /\ b > Gone
            BY <1>3, <1>4, <2>2, <2>6, <3>3
        <3>5. i - 1 \in hurt'
            BY <1>5, <3>1, <3>4 DEF b, c
        <3> QED BY <2>4, <3>5
    <2> HIDE DEF b
    <2>7. CASE b <= Gone /\ Gone < b + Len(e)
        <3>1. b < Gone + l /\ Before(script, i) > Gone
            BY <1>3, <1>4, <2>1, <2>2, <2>7 DEF b
        <3>2. i \in hurt'
            BY <1>5, <3>1 DEF b
        <3> QED BY <2>4, <3>2
    <2>8. CASE Gone >= b + Len(e)
        <3> DEFINE a == Gone - b  d == Gone' - b
        <3>1. Gone >= b /\ a \in Nat /\ d \in Nat /\ a >= Len(e) /\ d > Len(e)
            BY <1>3, <1>4, <2>1, <2>2, <2>8
        <3>2. Heard(i) \/ \E x : Intact(q, e, a, x)
            BY <2>3, <2>4, <3>1, Zenon DEF Safe, e, b, q
        <3> HIDE DEF a, d
        <3>3. Lesser(a, Len(e)) = Lesser(d, Len(e)) /\ ~(d <= Len(e))
            BY <2>1, <3>1 DEF Lesser
        <3>4. ASSUME NEW x, Intact(q, e, a, x) PROVE Intact(q, e, d, x)
            BY <3>3, <3>4, Zenon DEF Intact
        <3> QED BY <3>2, <3>4, Zenon DEF d
    <2> QED BY <1>4, <2>1, <2>2, <2>6, <2>7, <2>8
<1>7. got' \in Seq(Received) /\ script' = script
    BY <1>2 DEF LossInv
<1> QED BY <1>3, <1>6, <1>7 DEF LossInv

\* What process_frame does to the history.
LEMMA FrameHandled ==
    ASSUME TInv, got \in Seq(Received), ProcessFrame
    PROVE  LET next == NextFrame(recvBuf)  unpacked == UnpackFull(next.cut)
           IN  /\ recvBuf' = next.rest /\ next.cut \in Seq(Byte) /\ got' \in Seq(Received)
               /\ IF unpacked.result = "Ok"
                  THEN unpacked.frame \in Received /\ got' = Append(got, unpacked.frame)
                  ELSE got' = got
<1> DEFINE next == NextFrame(recvBuf)  unpacked == UnpackFull(next.cut)  f == unpacked.frame
<1>1. next.cut \in Seq(Byte) /\ recvBuf' = next.rest
    BY NextFrameTyped DEF TInv, InTyped, ProcessFrame
<1>2. IF unpacked.result = "Ok" THEN got' = Append(got, f) ELSE got' = got
    BY Zenon DEF ProcessFrame
<1>3. unpacked.result = "Ok" => f \in Received
    BY <1>1, UnpackedTyped
<1> HIDE DEF next, unpacked, f
<1>4. got' \in Seq(Received)
    <2>1. CASE unpacked.result = "Ok"
        <3> HIDE DEF Received
        <3>1. Append(got, f) \in Seq(Received)
            BY <1>3, <2>1
        <3> QED BY <1>2, <2>1, <3>1
    <2>2. CASE unpacked.result # "Ok"
        BY <1>2, <2>2
    <2> QED BY <2>1, <2>2
<1> QED BY <1>1, <1>2, <1>3, <1>4 DEF next, unpacked, f

LEMMA FrameSafe ==
    ASSUME TInv, LossInv, ProcessFrame
    PROVE  LossInv'
<1> DEFINE next == NextFrame(recvBuf)  unpacked == UnpackFull(next.cut)  f == unpacked.frame
           t == held \o pipe
<1>0. got \in Seq(Received)
    BY DEF LossInv
<1>1. /\ recvBuf' = next.rest /\ got' \in Seq(Received)
      /\ IF unpacked.result = "Ok" THEN got' = Append(got, f) ELSE got' = got
    BY <1>0, FrameHandled
<1>2. UNCHANGED <<script, air, hurt, held, pipe>>
    BY DEF ProcessFrame, readVars
<1>3. AirInv' /\ Gone' = Gone
    BY <1>2 DEF LossInv, AirInv, Gone
<1>4. Waiting = recvBuf \o t /\ recvBuf \in Seq(Byte) /\ t \in Seq(Byte)
    BY WaitingTyped DEF TInv, InTyped
<1>5. Waiting' = next.rest \o t
    <2> DEFINE r == next.rest  h == held  p == pipe
    <2>1. r \in Seq(Byte) /\ h \in Seq(Byte) /\ p \in Seq(Byte)
        BY NextFrameTyped DEF TInv, InTyped
    <2>2. Waiting' = r \o h \o p
        BY <1>1, <1>2 DEF Waiting
    <2> HIDE DEF r, h, p
    <2>3. (r \o h) \o p = r \o (h \o p)
        <3>1. Regroups(r, h, p)
            BY <2>1, Regrouped, Zenon
        <3> QED BY <3>1, Zenon DEF Regroups
    <2> QED BY <2>2, <2>3, Zenon DEF r, h, p
<1> HIDE DEF f, t
<1>6. \A j \in DOMAIN got : j \in DOMAIN got' /\ got'[j] = got[j]
    <2>1. CASE unpacked.result = "Ok"
        <3> HIDE DEF Received, unpacked
        <3>1. \A j \in DOMAIN got : j \in DOMAIN Append(got, f) /\ Append(got, f)[j] = got[j]
            BY <1>0
        <3> QED BY <1>1, <2>1, <3>1
    <2>2. CASE unpacked.result # "Ok"
        <3>1. got' = got
            BY <1>1, <2>2, Zenon
        <3> QED BY <3>1
    <2> QED BY <2>1, <2>2
<1>7. ASSUME NEW i \in DOMAIN script PROVE Safe(i)'
    <2> DEFINE e == Pack(script[i])  b == Before(script, i - 1)
    <2>1. /\ Laid(script, i) /\ script[i] \in Frames /\ e \in Seq(Byte) /\ Marked(e)
        BY FrameBytes
    <2>2. b \in Nat
        BY <2>1 DEF Laid
    <2>3. Safe(i)
        BY DEF LossInv
    <2>4. Unhurt(i)' <=> Unhurt(i)
        BY <1>2 DEF Unhurt
    <2>5. Pack(script[i])' = e /\ Before(script, i - 1)' = b
        BY <1>2
    <2>6. Heard(i) => Heard(i)'
        BY <1>2, <1>6, Zenon DEF Heard
    <2>7. next.cut = e => Heard(i)'
        <3> SUFFICES ASSUME next.cut = e PROVE Heard(i)'
            OBVIOUS
        <3>1. unpacked = [result |-> "Ok", frame |-> script[i]]
            <4> HIDE DEF next, e
            <4>1. UnpackFull(e) = [result |-> "Ok", frame |-> script[i]]
                BY <2>1, PackMarked DEF e
            <4> QED BY <4>1
        <3> HIDE DEF unpacked
        <3>2. got' = Append(got, script[i])
            BY <1>1, <3>1 DEF f
        <3> DEFINE g == script[i]  w == Append(got, g)
        <3> HIDE DEF g
        <3>3. Len(w) \in DOMAIN w /\ w[Len(w)] = g
            BY <1>0
        <3> HIDE DEF w
        <3>4. got' = w /\ script'[i] = g
            BY <1>2, <3>2 DEF w, g
        <3> QED BY <3>3, <3>4, Zenon DEF Heard
    <2> HIDE DEF e, b, next, unpacked
    <2> SUFFICES ASSUME Unhurt(i), Gone >= b
                 PROVE  Heard(i)' \/ \E x : Intact(next.rest \o t, e, Gone - b, x)
        BY <1>3, <1>5, <2>4, <2>5, Zenon DEF Safe
    <2> DEFINE a == Gone - b
    <2>8. a \in Nat
        BY <2>2 DEF LossInv, AirInv
    <2>9. Heard(i) \/ \E x : Intact(recvBuf \o t, e, a, x)
        BY <1>4, <2>3, Zenon DEF Safe, e, b
    <2> HIDE DEF a
    <2>10. ASSUME NEW x, Intact(recvBuf \o t, e, a, x)
           PROVE  next.cut = e \/ \E y : Intact(next.rest \o t, e, a, y)
        <3>1. \/ NextFrame(recvBuf).cut = e
              \/ \E y : Intact(NextFrame(recvBuf).rest \o t, e, a, y)
            BY <1>4, <2>1, <2>8, <2>10, IntactCut
        <3> QED BY <3>1 DEF next
    <2> QED BY <2>6, <2>7, <2>9, <2>10, Zenon DEF a
<1> QED BY <1>1, <1>2, <1>3, <1>7 DEF LossInv

LEMMA LossStays ==
    ASSUME TInv, LossInv, [Next]_vars
    PROVE  LossInv'
<1>1. CASE UNCHANGED vars
    BY <1>1, StillSafe DEF vars, readVars, Waiting
<1>2. ASSUME NEW n \in ChunkSizes, Arrive(n) \/ Vanish(n) PROVE LossInv'
    BY <1>2, ArriveSafe, VanishSafe
<1>3. CASE Peek \/ Recv
    <2>1. UNCHANGED <<script, air, got, hurt>>
        BY <1>3 DEF Peek, Recv
    <2> QED BY <1>3, <2>1, ReadWaiting, StillSafe
<1>4. CASE ProcessFrame
    BY <1>4, FrameSafe
<1>5. CASE \/ Subscribe \/ TaskReturns \/ PeerCloses \/ Quiet
           \/ FlushDone \/ FlushAll \/ Look \/ Arm \/ FlushFails
           \/ \E k \in 1 .. Chunk : FlushPart(k)
    <2>1. UNCHANGED <<script, air, got, hurt, recvBuf, held, pipe>>
        BY <1>5 DEF Subscribe, TaskReturns, PeerCloses, Quiet, FlushDone, FlushAll, Look, Arm,
                    FlushFails, FlushPart, readVars
    <2>2. Waiting' = Waiting
        BY <2>1 DEF Waiting
    <2> QED BY <2>1, <2>2, StillSafe
<1> QED BY <1>1, <1>2, <1>3, <1>4, <1>5 DEF Next, Poll, Faults

\* And so is what LossIsBounded needs of the bytes under way.
LEMMA LossInvHolds == Spec => []LossInv
<1>1. Init => LossInv
    BY InitLoss
<1>2. TInv /\ LossInv /\ [Next]_vars => LossInv'
    BY LossStays
<1> QED BY <1>1, <1>2, TInvHolds, PTL DEF Spec

LEMMA LossBound ==
    ASSUME TInv, LossInv
    PROVE  LossIsBounded
<1> SUFFICES ASSUME Settled, NEW i \in DOMAIN script, Unhurt(i), ~Heard(i) PROVE FALSE
    BY Zenon DEF LossIsBounded, Unhurt, Heard
<1> DEFINE e == Pack(script[i])  b == Before(script, i - 1)
<1>1. Laid(script, i) /\ e \in Seq(Byte) /\ Len(e) \in Nat /\ Marked(e)
    BY FrameBytes
<1>2. Gone = Len(Sent(script))
    BY <1>1 DEF Settled, Gone, Laid
<1>3. Gone - b \in Nat /\ Gone - b >= Len(e) /\ Gone >= b
    <2> HIDE DEF e
    <2> QED BY <1>1, <1>2 DEF Laid, e
<1>4. PICK x : Intact(Waiting, e, Gone - b, x)
    BY <1>3, Zenon DEF LossInv, Safe
<1>5. Waiting = recvBuf /\ recvBuf \in Seq(Byte)
    <2>1. Len(held) = 0 /\ held \in Seq(Byte)
        BY DEF TInv, OneHeld, InTyped, Settled
    <2>2. held = <<>>
        <3> HIDE DEF Byte
        <3> QED BY <2>1
    <2>3. recvBuf \in Seq(Byte) /\ pipe = <<>>
        BY DEF TInv, InTyped, Settled
    <2>4. recvBuf \o <<>> = recvBuf
        BY <2>3, ConcatEmptySeq
    <2>5. Waiting = recvBuf \o held \o pipe
        BY DEF Waiting
    <2> QED BY <2>2, <2>3, <2>4, <2>5, Zenon
<1> HIDE DEF e, b
<1>6. Intact(recvBuf, e, Gone - b, x)
    BY <1>4, <1>5, Zenon
<1>7. NextFrame(recvBuf).cut # <<>>
    BY <1>1, <1>3, <1>5, <1>6, IntactWaits
<1> QED BY <1>7 DEF Settled

\* recv_into_buffer and process_frame, with the losses of the GATT transport:
\* once all has arrived and is worked off, a frame that was not handled lost
\* bytes, or the one in front of it did.
THEOREM LossCostsLittle == Spec => []LossIsBounded
<1>1. TInv /\ LossInv => LossIsBounded
    BY LossBound
<1> QED BY <1>1, TInvHolds, LossInvHolds, PTL

---------------------------------------------------------------------------
(* The promise of the link *)

\* Frames lie in their order, and start markers are where they begin.
LEMMA Ordered ==
    ASSUME NEW s \in Scripts, NEW i \in 0 .. Len(s), NEW j \in 0 .. Len(s), i <= j
    PROVE  Before(s, i) <= Before(s, j)
<1> DEFINE n == Len(s)  G == Pieces(s)
<1>1. n \in Nat /\ DOMAIN s = 1 .. n
    BY ScriptFrames
<1>4. Parts(Wire[s], n, G)
    BY WireParts
<1> HIDE DEF G
<1>5. i \in 0 .. j
    OBVIOUS
<1> QED BY <1>4, <1>5 DEF Parts, Prefix, Before

LEMMA StartsAt ==
    ASSUME NEW s \in Scripts, NEW y \in 1 .. Len(Sent(s)), Sent(s)[y] = START_MARKER
    PROVE  \E i \in DOMAIN s : y = Before(s, i - 1) + 1
<1> DEFINE n == Len(s)  G == Pieces(s)
<1>1. n \in Nat /\ DOMAIN s = 1 .. n
    BY ScriptFrames
<1>2. Joins(Wire[s], n, G)
    BY WireJoins
<1>3. \A k \in 1 .. n : G[k] \in Seq(Byte)
    BY WireParts
<1> HIDE DEF G
<1>4. \A x \in 1 .. Len(Wire[s][n]) : \E k \in 1 .. n : Len(Wire[s][k - 1]) < x /\ x <= Len(Wire[s][k])
    <2> HIDE DEF n
    <2> QED BY <1>1, <1>2, <1>3, ConcatenationCovers
<1>5. PICK i \in 1 .. n : Before(s, i - 1) < y /\ y <= Before(s, i)
    BY <1>4 DEF Before, Sent
<1> DEFINE e == Pack(s[i])  b == Before(s, i - 1)  k == y - b
<1>6. Laid(s, i) /\ s[i] \in Frames
    BY <1>1, Layout
<1>7. e \in Seq(Byte) /\ Marked(e)
    BY <1>6, PackMarked
<1>8. Len(e) \in Nat
    <2> HIDE DEF Byte, e
    <2> QED BY <1>7
<1>9. b \in Nat /\ Before(s, i) = b + Len(e) /\ \A m \in 1 .. Len(e) : Sent(s)[b + m] = e[m]
    BY <1>6 DEF Laid
<1> HIDE DEF e, b, n
<1>10. k \in 1 .. Len(e) /\ b + k = y
    BY <1>5, <1>8, <1>9 DEF b
<1> HIDE DEF k
<1>11. e[k] = START_MARKER
    BY <1>9, <1>10
<1>12. k # Len(e) /\ ~(k \in 2 .. Len(e) - 1)
    <2>1. START_MARKER # END_MARKER
        BY DEF START_MARKER, END_MARKER
    <2> QED BY <1>7, <1>11, <2>1 DEF Marked
<1>13. k = 1
    BY <1>8, <1>10, <1>12
<1> QED BY <1>1, <1>10, <1>13 DEF b

\* How many bytes have been worked off: what waits is what was sent behind them.
Worked == Gone - Len(Waiting)
Last   == Link!LastHeard

InPlace ==
    /\ Worked \in Nat
    /\ \A k \in 1 .. Len(Waiting) : Waiting[k] = Sent(script)[Worked + k]
    /\ ~subscribed => Waiting = <<>>

\* The last frame heard has been worked off, and of those behind it nothing
\* has, but for those that were hurt.
Passed ==
    /\ Last \in 0 .. Len(script)
    /\ Last = 0 \/ Before(script, Last) <= Worked
    /\ \A j \in DOMAIN script : j > Last => j \in hurt \/ Worked <= Before(script, j - 1)

LinkInv == AirInv /\ got \in Seq(Received) /\ InPlace /\ Passed

\* The frames of a script can be told apart.
Distinct == \A s \in Scripts : \A i, j \in DOMAIN s : s[i] = s[j] => i = j

LEMMA LastIs ==
    ASSUME Distinct, TInv, NEW i \in DOMAIN script, got \in Seq(Received),
           UNCHANGED script, got' = Append(got, script[i])
    PROVE  Last' = i
<1> DEFINE w == Append(got, script[i])
<1>1. w # <<>> /\ w[Len(w)] = script[i]
    <2> HIDE DEF Received
    <2>1. Len(got) \in Nat /\ Len(w) = Len(got) + 1 /\ w[Len(got) + 1] = script[i]
        OBVIOUS
    <2>2. Len(<<>>) = 0
        OBVIOUS
    <2> HIDE DEF w
    <2>3. Len(w) # 0
        BY <2>1
    <2> QED BY <2>1, <2>2, <2>3, Zenon
<1>2. \A j \in DOMAIN script : script[j] = script[i] => j = i
    BY DEF Distinct, TInv, PlacesTyped
<1> HIDE DEF w
<1>3. got' = w /\ script' = script
    BY DEF w
<1>4. Last' = CHOOSE j \in DOMAIN script : script[j] = w[Len(w)]
    BY <1>1, <1>3 DEF Last, Link!LastHeard
<1> QED BY <1>1, <1>2, <1>4

LEMMA InitLinked == ASSUME Init PROVE LinkInv
<1>1. LossInv /\ script \in Scripts /\ air = Sent(script)
    BY InitLoss DEF Init, Sent
<1>2. TInv
    BY InitTyped
<1>3. Waiting = <<>> /\ Len(<<>>) = 0
    <2>1. <<>> \in Seq(Byte)
        OBVIOUS
    <2>2. <<>> \o <<>> = <<>>
        BY <2>1, ConcatEmptySeq
    <2> QED BY <2>2 DEF Init, Waiting
<1>4. Gone = 0
    <2>1. Len(air) \in Nat
        <3> HIDE DEF Byte
        <3> QED BY <1>2 DEF TInv, InTyped
    <2> QED BY <1>1, <2>1 DEF Gone
<1>5. Worked = 0
    <2>1. Len(Waiting) = 0
        BY <1>3, Zenon
    <2> QED BY <1>4, <2>1 DEF Worked
<1>6. InPlace
    BY <1>3, <1>5 DEF InPlace
<1>7. Last = 0
    BY DEF Init, Last, Link!LastHeard
<1>8. Passed
    <2>1. Len(script) \in Nat
        BY <1>1, ScriptFrames
    <2>2. \A j \in DOMAIN script : Worked <= Before(script, j - 1)
        BY <1>1, <1>5, Layout DEF Laid
    <2> QED BY <1>7, <2>1, <2>2 DEF Passed
<1> QED BY <1>1, <1>6, <1>8 DEF LinkInv, LossInv

LEMMA StillLinked ==
    ASSUME LinkInv, UNCHANGED <<script, air, got, hurt>>, Waiting' = Waiting,
           ~subscribed' => ~subscribed
    PROVE  LinkInv'
<1>1. Gone' = Gone /\ Worked' = Worked
    BY DEF Gone, Worked
<1>2. Last' = Last
    BY DEF Last, Link!LastHeard
<1>3. AirInv'
    BY <1>1 DEF LinkInv, AirInv
<1>4. InPlace'
    BY <1>1 DEF LinkInv, InPlace
<1>5. Passed'
    BY <1>1, <1>2 DEF LinkInv, Passed
<1> QED BY <1>3, <1>4, <1>5 DEF LinkInv

LEMMA ArriveLinked ==
    ASSUME TInv, LinkInv, NEW n \in ChunkSizes, Arrive(n)
    PROVE  LinkInv'
<1> DEFINE l == Lesser(n, Len(air))  new == Upto(air, l)  q == Waiting  u == q \o new
           s == Sent(script)
<1>1. TakenOff(l, new)
    BY ChunkGone DEF LinkInv, Arrive
<1> HIDE DEF l, new
<1>2. /\ l \in Nat \ {0} /\ new \in Seq(Byte) /\ Len(new) = l
      /\ Gone' = Gone + l /\ AirInv'
      /\ \A k \in 1 .. l : new[k] = s[Gone + k]
    BY <1>1 DEF TakenOff
<1>3. q \in Seq(Byte)
    BY WaitingTyped
<1>4. Waiting' = u
    BY ArriveWaiting DEF l, new
<1> HIDE DEF q, s
<1>5. u \in Seq(Byte) /\ Together(u, q, new)
    BY <1>2, <1>3, Joined
<1> HIDE DEF u
<1>6. Len(q) \in Nat /\ Worked = Gone - Len(q) /\ Gone \in Nat
    <2>1. Len(q) \in Nat
        <3> HIDE DEF Byte
        <3> QED BY <1>3
    <2> QED BY <2>1 DEF Worked, q, LinkInv, AirInv
<1>7. Worked' = Worked
    <2>1. Worked' = Gone' - Len(u)
        BY <1>4 DEF Worked
    <2> QED BY <1>2, <1>5, <1>6, <2>1 DEF Together
<1>8. Worked \in Nat /\ \A k \in 1 .. Len(q) : q[k] = s[Worked + k]
    BY DEF LinkInv, InPlace, q, s
<1>9. \A k \in 1 .. Len(u) : u[k] = s[Worked + k]
    <2> TAKE k \in 1 .. Len(u)
    <2>1. CASE k \in 1 .. Len(q)
        BY <1>5, <1>8, <2>1, Zenon DEF Together
    <2>2. CASE k \notin 1 .. Len(q)
        <3> DEFINE j == k - Len(q)
        <3>1. j \in 1 .. l /\ Len(q) + j = k /\ Gone + j = Worked + k
            BY <1>2, <1>5, <1>6, <2>2 DEF Together
        <3> HIDE DEF j
        <3> QED BY <1>2, <1>5, <3>1, Zenon DEF Together
    <2> QED BY <2>1, <2>2
<1>10. UNCHANGED <<script, hurt, got, subscribed>> /\ subscribed
    BY DEF Arrive
<1>11. InPlace'
    <2>1. Sent(script)' = s
        BY <1>10 DEF s
    <2> HIDE DEF Worked, Waiting
    <2> QED BY <1>4, <1>7, <1>8, <1>9, <1>10, <2>1 DEF InPlace
<1>12. Last' = Last
    BY <1>10 DEF Last, Link!LastHeard
<1>13. Passed'
    <2> HIDE DEF Last, Worked
    <2> QED BY <1>7, <1>10, <1>12 DEF LinkInv, Passed
<1> QED BY <1>2, <1>10, <1>11, <1>13 DEF LinkInv

LEMMA VanishLinked ==
    ASSUME MaxLost = 0, TInv, LinkInv, NEW n \in ChunkSizes, Vanish(n)
    PROVE  LinkInv' /\ [Link!Next]_(Link!vars)
<1> DEFINE l == Lesser(n, Len(air))
<1>1. TakenOff(l, Upto(air, l))
    BY ChunkGone DEF LinkInv, Vanish
<1>2. /\ hurt' = hurt \union Touched(l) /\ UNCHANGED <<script, got, subscribed>>
      /\ Waiting' = Waiting
    BY DEF Vanish, Waiting
<1>3. ~subscribed
    <2>1. spent.lost \in Nat
        BY DEF TInv, PlacesTyped
    <2> QED BY <2>1 DEF Vanish
<1> HIDE DEF l
<1>4. l \in Nat \ {0} /\ Gone' = Gone + l /\ AirInv'
    BY <1>1 DEF TakenOff
<1>5. Waiting = <<>> /\ Len(Waiting) = 0 /\ Gone \in Nat
    <2>1. Waiting = <<>> /\ Len(<<>>) = 0
        BY <1>3 DEF LinkInv, InPlace
    <2> QED BY <2>1 DEF LinkInv, AirInv
<1>6. Worked = Gone /\ Worked' = Gone + l
    <2>1. Worked' = Gone' - Len(Waiting)
        BY <1>2 DEF Worked
    <2> QED BY <1>4, <1>5, <2>1 DEF Worked
<1>7. InPlace'
    <2>1. 1 .. Len(Waiting') = {} /\ Worked' \in Nat
        BY <1>2, <1>4, <1>5, <1>6
    <2> QED BY <1>2, <1>5, <2>1 DEF InPlace
<1>8. Last' = Last
    BY <1>2 DEF Last, Link!LastHeard
<1>9. Passed'
    <2> HIDE DEF Last, Worked
    <2>1. Last \in 0 .. Len(script) /\ (Last = 0 \/ Before(script, Last) <= Worked)
        BY DEF LinkInv, Passed
    <2>2. Last = 0 \/ Before(script, Last) <= Worked'
        <3> SUFFICES ASSUME Last # 0 PROVE Before(script, Last) <= Worked'
            OBVIOUS
        <3>1. Last \in DOMAIN script
            <4>1. script \in Scripts
                BY DEF TInv, PlacesTyped
            <4>2. Len(script) \in Nat /\ DOMAIN script = 1 .. Len(script)
                BY <4>1, ScriptFrames
            <4> QED BY <2>1, <4>2
        <3>2. Before(script, Last) \in Nat
            <4>1. Laid(script, Last) /\ Len(Pack(script[Last])) \in Nat
                BY <3>1, FrameBytes
            <4> QED BY <4>1 DEF Laid
        <3> QED BY <1>4, <1>5, <1>6, <2>1, <3>2
    <2>3. ASSUME NEW j \in DOMAIN script, j > Last
          PROVE  j \in hurt' \/ Worked' <= Before(script, j - 1)
        <3>1. j \in hurt \/ Worked <= Before(script, j - 1)
            BY <2>3 DEF LinkInv, Passed
        <3>2. CASE j \in hurt
            BY <1>2, <3>2
        <3>3. CASE Gone <= Before(script, j - 1) /\ Before(script, j - 1) < Gone + l
            <4>1. Laid(script, j) /\ Marked(Pack(script[j])) /\ Len(Pack(script[j])) \in Nat
                BY FrameBytes
            <4>2. Before(script, j) > Gone
                BY <1>5, <3>3, <4>1 DEF Laid, Marked
            <4>3. j \in Touched(l)
                BY <3>3, <4>2 DEF Touched, Before, Gone, Sent
            <4> QED BY <1>2, <4>3
        <3>4. CASE ~(Before(script, j - 1) < Gone + l)
            <4>1. Before(script, j - 1) \in Nat
                BY FrameBytes DEF Laid
            <4> QED BY <1>4, <1>5, <1>6, <3>4, <4>1
        <3> QED BY <1>6, <3>1, <3>2, <3>3, <3>4
    <2> QED BY <1>2, <1>8, <2>1, <2>2, <2>3 DEF Passed
<1>10. Link!Hurt
    <2>1. Touched(l) \in SUBSET DOMAIN script
        BY DEF Touched
    <2> QED BY <1>2, <2>1 DEF Link!Hurt
<1> QED BY <1>2, <1>4, <1>7, <1>9, <1>10 DEF LinkInv, Link!Next

\* Where the bytes that wait lie in what was sent.
LEMMA WaitsAt ==
    ASSUME TInv, LinkInv
    PROVE  /\ Worked \in Nat /\ Len(Waiting) \in Nat /\ Len(Sent(script)) \in Nat
           /\ Worked + Len(Waiting) <= Len(Sent(script))
           /\ \A k \in 1 .. Len(Waiting) : Waiting[k] = Sent(script)[Worked + k]
<1>1. Worked \in Nat /\ \A k \in 1 .. Len(Waiting) : Waiting[k] = Sent(script)[Worked + k]
    BY DEF LinkInv, InPlace
<1>2. Len(Waiting) \in Nat
    <2>1. Waiting \in Seq(Byte)
        BY WaitingTyped
    <2> HIDE DEF Byte
    <2> QED BY <2>1
<1>3. Len(Sent(script)) \in Nat
    <2>1. script \in Scripts
        BY DEF TInv, PlacesTyped
    <2>2. Len(script) \in 0 .. Len(script)
        <3>1. Len(script) \in Nat
            BY <2>1, ScriptFrames
        <3> QED BY <3>1
    <2> DEFINE s == Sent(script)
    <2>3. s \in Seq(Byte)
        BY <2>1, <2>2, WireJoins DEF Sent
    <2> HIDE DEF s, Byte
    <2>4. Len(s) \in Nat
        BY <2>3
    <2> QED BY <2>4 DEF s
<1>4. Len(air) \in Nat
    <2> HIDE DEF Byte
    <2> QED BY DEF TInv, InTyped
<1>5. Gone \in Nat
    BY DEF LinkInv, AirInv
<1>6. Worked = Gone - Len(Waiting) /\ Gone = Len(Sent(script)) - Len(air)
    BY DEF Worked, Gone
<1> QED BY <1>1, <1>2, <1>3, <1>4, <1>5, <1>6

\* No frame begins among bytes without a start marker.
LEMMA NotPassed ==
    ASSUME TInv, LinkInv, NEW d \in 0 .. Len(Waiting),
           \A k \in 1 .. d : Waiting[k] # START_MARKER,
           NEW j \in DOMAIN script, Worked <= Before(script, j - 1)
    PROVE  Worked + d <= Before(script, j - 1)
<1> DEFINE w == Worked  b == Before(script, j - 1)  e == Pack(script[j])  k == b + 1 - w
           l == Len(Waiting)
<1>1. /\ w \in Nat /\ l \in Nat
      /\ \A i \in 1 .. l : Waiting[i] = Sent(script)[w + i]
    BY WaitsAt
<1>2. Laid(script, j) /\ Marked(e) /\ Len(e) \in Nat
    BY FrameBytes
<1>3. b \in Nat /\ \A i \in 1 .. Len(e) : Sent(script)[b + i] = e[i]
    BY <1>2 DEF Laid
<1>4. e[1] = START_MARKER /\ 1 \in 1 .. Len(e)
    BY <1>2 DEF Marked
<1> SUFFICES ASSUME b < w + d PROVE FALSE
    BY <1>1, <1>3
<1>5. Sent(script)[b + 1] = START_MARKER
    BY <1>3, <1>4
<1> HIDE DEF w, b, l
<1>6. k \in 1 .. d /\ k \in 1 .. l /\ w + k = b + 1
    <2>1. w <= b /\ d \in 0 .. l
        BY DEF w, b, l
    <2> QED BY <1>1, <1>3, <2>1
<1> HIDE DEF k
<1> QED BY <1>1, <1>5, <1>6

\* Bytes leave the front of what waits.
LEMMA Shifted ==
    ASSUME TInv, LinkInv, UNCHANGED <<script, air, subscribed>>,
           NEW d \in 0 .. Len(Waiting), Waiting' = Beyond(Waiting, d)
    PROVE  Worked' = Worked + d /\ InPlace' /\ AirInv'
<1> DEFINE q == Waiting  u == Beyond(q, d)  s == Sent(script)  w == Worked  l == Len(q)
<1>1. /\ w \in Nat /\ l \in Nat
      /\ \A k \in 1 .. l : q[k] = s[w + k]
    BY WaitsAt
<1>2. q \in Seq(Byte)
    BY WaitingTyped
<1>3. u \in Seq(Byte) /\ Slices(q, d)
    BY <1>2, Sliced
<1>4. Len(u) = l - d /\ \A k \in 1 .. l - d : u[k] = q[d + k]
    BY <1>3 DEF Slices
<1>5. Gone' = Gone /\ AirInv' /\ Gone \in Nat
    BY DEF Gone, LinkInv, AirInv
<1>6. Worked' = w + d
    <2>1. Worked' = Gone - Len(u) /\ w = Gone - l
        BY <1>5 DEF Worked
    <2> HIDE DEF w, l, u
    <2>2. l \in Nat /\ d \in 0 .. l
        BY <1>1 DEF l
    <2> QED BY <1>4, <1>5, <2>1, <2>2
<1>7. Waiting' = u /\ Sent(script)' = s
    OBVIOUS
<1> HIDE DEF q, u, s, w, l
<1>8. Len(u) = l - d
    BY <1>4
<1>9. d \in 0 .. l
    BY DEF l, q
<1>10. l = 0 => u = <<>>
    <2>1. l # 0 \/ d = 0
        BY <1>1, <1>9
    <2>4. d = 0 => l - d = l
        BY <1>1
    <2>2. l = 0 => Len(u) = 0
        BY <1>8, <2>1, <2>4, Zenon
    <2> HIDE DEF Byte
    <2> QED BY <1>3, <2>2
<1>11. \A k \in 1 .. l - d : u[k] = s[(w + d) + k]
    <2> TAKE k \in 1 .. l - d
    <2>1. d + k \in 1 .. l /\ w + (d + k) = (w + d) + k
        BY <1>1, <1>9
    <2> QED BY <1>1, <1>4, <2>1, Zenon
<1>12. w + d \in Nat
    BY <1>1, <1>9
<1>13. InPlace'
    <2>1. ~subscribed => u = <<>>
        <3>1. ~subscribed => q = <<>>
            BY DEF LinkInv, InPlace, q
        <3>2. Len(<<>>) = 0
            OBVIOUS
        <3> QED BY <1>10, <3>1, <3>2, Zenon DEF l
    <2> HIDE DEF Worked, Waiting
    <2> QED BY <1>4, <1>6, <1>7, <1>11, <1>12, <2>1 DEF InPlace
<1> QED BY <1>5, <1>6, <1>13 DEF w

\* A piece that is cut off is a whole frame: it begins where one begins, and
\* the first end marker behind is that frame's own.
LEMMA PieceIsFrame ==
    ASSUME TInv, LinkInv, NEW s \in Nat, NEW e \in Nat, PieceCut(recvBuf, s, e)
    PROVE  \E i \in DOMAIN script :
               /\ SubSeq(recvBuf, s, e) = Pack(script[i])
               /\ Worked + s - 1 = Before(script, i - 1) /\ Worked + e = Before(script, i)
<1> DEFINE r == recvBuf  q == Waiting  all == Sent(script)  w == Worked  l == Len(r)
<1>1. /\ w \in Nat /\ Len(q) \in Nat /\ Len(all) \in Nat /\ w + Len(q) <= Len(all)
      /\ \A k \in 1 .. Len(q) : q[k] = all[w + k]
    BY WaitsAt
<1>2. r \in Seq(Byte) /\ l \in Nat /\ l <= Len(q) /\ \A k \in 1 .. l : q[k] = r[k]
    <2> DEFINE t == held \o pipe
    <2>1. r \in Seq(Byte) /\ t \in Seq(Byte) /\ q = r \o t
        BY WaitingTyped DEF TInv, InTyped
    <2>2. l \in Nat /\ Len(t) \in Nat
        <3> HIDE DEF Byte, t
        <3> QED BY <2>1
    <2> HIDE DEF t, q
    <2>3. Together(q, r, t)
        BY <2>1, Joined
    <2>4. Len(q) = l + Len(t) /\ \A k \in 1 .. l : q[k] = r[k]
        BY <2>3, Zenon DEF Together
    <2> QED BY <2>1, <2>2, <2>4
<1>3. /\ s \in 1 .. l /\ r[s] = START_MARKER
      /\ e \in s .. l /\ r[e] = END_MARKER /\ \A k \in s .. e - 1 : r[k] # END_MARKER
    BY DEF PieceCut
<1>4. script \in Scripts
    BY DEF TInv, PlacesTyped
<1> HIDE DEF r, q, all, w, l
<1>5. \A k \in 1 .. l : r[k] = all[w + k]
    <2>1. \A k \in 1 .. l : k \in 1 .. Len(q)
        BY <1>1, <1>2
    <2> QED BY <1>1, <1>2, <2>1, Zenon
<1>6. w + s \in 1 .. Len(all) /\ all[w + s] = START_MARKER
    <2>1. w + s \in 1 .. Len(all)
        BY <1>1, <1>2, <1>3
    <2> QED BY <1>3, <1>5, <2>1, Zenon
<1>7. PICK i \in DOMAIN script : w + s = Before(script, i - 1) + 1
    BY <1>4, <1>6, StartsAt DEF all
<1> DEFINE p == Pack(script[i])  m == Len(p)  b == Before(script, i - 1)
<1>8. Laid(script, i) /\ p \in Seq(Byte) /\ m \in Nat /\ Marked(p)
    BY FrameBytes
<1>9. b \in Nat /\ Before(script, i) = b + m /\ \A k \in 1 .. m : all[b + k] = p[k]
    BY <1>8 DEF Laid, all
<1>10. m >= 2 /\ p[1] = START_MARKER /\ p[m] = END_MARKER /\ \A k \in 2 .. m - 1 : p[k] # END_MARKER
    BY <1>8 DEF Marked
<1>11. w + s = b + 1
    BY <1>7
<1> HIDE DEF p, m, b
<1>12. \A k \in 1 .. m : s + k - 1 <= l => r[s + k - 1] = p[k]
    <2> SUFFICES ASSUME NEW k \in 1 .. m, s + k - 1 <= l PROVE r[s + k - 1] = p[k]
        OBVIOUS
    <2> DEFINE j == s + k - 1
    <2>1. j \in 1 .. l /\ w + j = b + k
        BY <1>1, <1>2, <1>3, <1>8, <1>9, <1>11
    <2> HIDE DEF j
    <2> QED BY <1>5, <1>9, <2>1, Zenon DEF j
<1>13. e >= s + m - 1
    <2> SUFFICES ASSUME e < s + m - 1 PROVE FALSE
        BY <1>2, <1>3, <1>8
    <2> DEFINE k == e - s + 1
    <2>1. k \in 1 .. m /\ k # m /\ s + k - 1 = e /\ e <= l /\ (k = 1 \/ k \in 2 .. m - 1)
        BY <1>2, <1>3, <1>8
    <2> HIDE DEF k
    <2>2. p[k] = END_MARKER
        BY <1>3, <1>12, <2>1
    <2>3. START_MARKER # END_MARKER
        BY DEF START_MARKER, END_MARKER
    <2> QED BY <1>10, <2>1, <2>2, <2>3, Zenon
<1>14. e <= s + m - 1
    <2> SUFFICES ASSUME e > s + m - 1 PROVE FALSE
        BY <1>2, <1>3, <1>8
    <2> DEFINE j == s + m - 1
    <2>1. j \in s .. e - 1 /\ j <= l /\ m \in 1 .. m
        BY <1>2, <1>3, <1>8, <1>10
    <2>2. r[j] = p[m]
        BY <1>12, <2>1
    <2> HIDE DEF j
    <2> QED BY <1>3, <1>10, <2>1, <2>2, Zenon
<1>15. e = s + m - 1
    BY <1>2, <1>3, <1>8, <1>13, <1>14
<1>16. w + s - 1 = b /\ w + e = b + m
    BY <1>1, <1>2, <1>3, <1>8, <1>9, <1>11, <1>15
<1>17. SubSeq(r, s, e) = p
    <2>1. e <= Len(r) /\ s > 0 /\ e \in Int
        BY <1>2, <1>3 DEF l
    <2>2. \A k \in 1 .. Len(p) : r[s + k - 1] = p[k]
        <3> TAKE k \in 1 .. Len(p)
        <3>1. k \in 1 .. m /\ s + k - 1 <= l
            BY <1>2, <1>3, <1>8, <1>15 DEF m
        <3> QED BY <1>12, <3>1
    <2> HIDE DEF Byte
    <2> QED BY <1>2, <1>8, <1>15, <2>1, <2>2, PartIs DEF m
<1> QED BY <1>9, <1>16, <1>17, Zenon DEF p, b, r, w

LEMMA LastLaid ==
    ASSUME TInv, NEW i \in 0 .. Len(script), i # 0
    PROVE  i \in DOMAIN script /\ Before(script, i) \in Nat
<1>1. script \in Scripts
    BY DEF TInv, PlacesTyped
<1>2. Len(script) \in Nat /\ DOMAIN script = 1 .. Len(script)
    BY <1>1, ScriptFrames
<1>3. i \in DOMAIN script
    BY <1>2
<1>4. Laid(script, i) /\ Len(Pack(script[i])) \in Nat
    BY <1>3, FrameBytes
<1> QED BY <1>3, <1>4 DEF Laid

\* What is dropped in front of a start marker held no frame.
LEMMA DropLinked ==
    ASSUME TInv, LinkInv, UNCHANGED <<script, air, hurt, got, subscribed>>,
           NEW d \in 0 .. Len(Waiting), Waiting' = Beyond(Waiting, d),
           \A k \in 1 .. d : Waiting[k] # START_MARKER
    PROVE  LinkInv'
<1>1. Worked' = Worked + d /\ InPlace' /\ AirInv'
    BY Shifted
<1>2. Last' = Last
    BY DEF Last, Link!LastHeard
<1>3. Worked \in Nat /\ Len(Waiting) \in Nat
    BY WaitsAt
<1>4. Last \in 0 .. Len(script) /\ (Last = 0 \/ Before(script, Last) <= Worked)
    BY DEF LinkInv, Passed
<1> HIDE DEF Last
<1>5. Last = 0 \/ Before(script, Last) <= Worked'
    <2> SUFFICES ASSUME Last # 0 PROVE Before(script, Last) <= Worked'
        OBVIOUS
    <2>1. Before(script, Last) \in Nat
        BY <1>4, LastLaid
    <2> DEFINE b == Before(script, Last)  w == Worked
    <2>2. b <= w /\ b \in Nat /\ w \in Nat /\ Worked' = w + d
        BY <1>1, <1>3, <1>4, <2>1
    <2>3. d \in Nat
        BY <1>3
    <2> HIDE DEF b, w
    <2>4. b <= w + d
        BY <2>2, <2>3
    <2> QED BY <2>2, <2>4, Zenon DEF b
<1>6. ASSUME NEW j \in DOMAIN script, j > Last
      PROVE  j \in hurt \/ Worked' <= Before(script, j - 1)
    <2>1. CASE j \in hurt
        BY <2>1
    <2>2. CASE Worked <= Before(script, j - 1)
        BY <1>1, <2>2, NotPassed
    <2> QED BY <1>6, <2>1, <2>2 DEF LinkInv, Passed
<1>7. Passed'
    <2> HIDE DEF Worked
    <2> QED BY <1>2, <1>4, <1>5, <1>6, Zenon DEF Passed
<1> QED BY <1>1, <1>7 DEF LinkInv

\* A frame that is cut off is one the link may deliver next.
LEMMA CutLinked ==
    ASSUME Distinct, TInv, LinkInv, UNCHANGED <<script, air, hurt, subscribed>>,
           NEW i \in DOMAIN script, NEW s \in Nat \ {0}, NEW e \in 0 .. Len(Waiting),
           s <= e, \A k \in 1 .. s - 1 : Waiting[k] # START_MARKER,
           Worked + s - 1 = Before(script, i - 1), Worked + e = Before(script, i),
           Waiting' = Beyond(Waiting, e),
           got' = Append(got, script[i]), got' \in Seq(Received)
    PROVE  LinkInv' /\ Link!Next
<1>1. Worked' = Worked + e /\ InPlace' /\ AirInv'
    BY Shifted
<1>2. Last' = i
    BY LastIs DEF LinkInv
<1>3. Worked \in Nat /\ Len(Waiting) \in Nat
    BY WaitsAt
<1>4. script \in Scripts /\ Len(script) \in Nat /\ DOMAIN script = 1 .. Len(script)
    <2>1. script \in Scripts
        BY DEF TInv, PlacesTyped
    <2> QED BY <2>1, ScriptFrames
<1>5. Last \in 0 .. Len(script) /\ (Last = 0 \/ Before(script, Last) <= Worked)
    BY DEF LinkInv, Passed
<1> DEFINE last == Last  w == Worked  n == Len(script)
<1> HIDE DEF Last, last, w, n
<1>6. i > last
    <2> SUFFICES ASSUME i <= last PROVE FALSE
        BY <1>4, <1>5 DEF last
    <2>1. last \in 0 .. n /\ i \in 0 .. n /\ last # 0 /\ i <= last
        BY <1>4, <1>5 DEF last, n
    <2>2. Before(script, i) <= Before(script, last)
        BY <1>4, <2>1, Ordered DEF n
    <2>3. Before(script, last) <= w /\ w + e = Before(script, i) /\ w \in Nat
        BY <1>3, <1>5, <2>1 DEF last, w
    <2>4. Before(script, last) \in Nat /\ e \in Nat
        <3>1. Before(script, last) \in Nat
            BY <1>5, <2>1, LastLaid DEF last
        <3> QED BY <1>3, <3>1
    <2>5. w + e > w
        BY <2>3, <2>4
    <2> QED BY <2>2, <2>3, <2>4, <2>5
<1>7. ASSUME NEW j \in last + 1 .. i - 1 PROVE {j - 1, j} \intersect hurt # {}
    <2>1. j \in DOMAIN script /\ j > Last /\ j \in 0 .. n /\ i - 1 \in 0 .. n /\ j <= i - 1 /\ j - 1 < j
        BY <1>4, <1>5 DEF last, n
    <2>2. j \in hurt \/ w <= Before(script, j - 1)
        BY <2>1 DEF LinkInv, Passed, w
    <2> SUFFICES ASSUME w <= Before(script, j - 1) PROVE FALSE
        BY <2>2
    <2>3. s - 1 \in 0 .. Len(Waiting)
        BY <1>3
    <2>4. w + (s - 1) <= Before(script, j - 1)
        BY <2>1, <2>3, NotPassed DEF w
    <2>5. Before(script, j) <= Before(script, i - 1)
        BY <1>4, <2>1, Ordered DEF n
    <2>6. /\ Before(script, j - 1) \in Nat
          /\ Before(script, j) >= Before(script, j - 1) + 2
        <3>1. Laid(script, j) /\ Len(Pack(script[j])) \in Nat /\ Len(Pack(script[j])) >= 2
            BY <2>1, FrameBytes DEF Marked
        <3> QED BY <3>1 DEF Laid
    <2>7. w + s - 1 = Before(script, i - 1) /\ w \in Nat
        BY <1>3 DEF w
    <2> DEFINE a == Before(script, j - 1)  b == Before(script, j)  c == Before(script, i - 1)
    <2>8. w + (s - 1) <= a /\ b <= c /\ a \in Nat /\ b >= a + 2 /\ w + s - 1 = c
        BY <2>4, <2>5, <2>6, <2>7
    <2>9. b \in Nat
        BY <2>1, FrameBytes DEF Laid
    <2> HIDE DEF a, b, c
    <2> QED BY <2>7, <2>8, <2>9
<1>8. Passed'
    <2>1. i \in 0 .. Len(script) /\ Before(script, i) <= Worked'
        <3>1. Before(script, i) \in Nat /\ Worked' = Before(script, i)
            BY <1>1, FrameBytes DEF Laid
        <3> QED BY <1>4, <3>1
    <2>2. ASSUME NEW j \in DOMAIN script, j > i PROVE Worked' <= Before(script, j - 1)
        <3>1. i \in 0 .. n /\ j - 1 \in 0 .. n /\ i <= j - 1
            BY <1>4, <2>2 DEF n
        <3>2. Before(script, i) <= Before(script, j - 1)
            BY <1>4, <3>1, Ordered DEF n
        <3> QED BY <1>1, <3>2
    <2> HIDE DEF Worked
    <2> QED BY <1>2, <2>1, <2>2 DEF Passed
<1>9. Link!Hear(i)
    BY <1>6, <1>7 DEF Link!Hear, Last, last
<1> QED BY <1>1, <1>8, <1>9 DEF LinkInv, Link!Next

LEMMA FrameLinked ==
    ASSUME Distinct, TInv, LinkInv, ProcessFrame
    PROVE  LinkInv' /\ [Link!Next]_(Link!vars)
<1> DEFINE r == recvBuf  next == NextFrame(r)  unpacked == UnpackFull(next.cut)
           t == held \o pipe
<1>0. got \in Seq(Received)
    BY DEF LinkInv
<1>1. /\ recvBuf' = next.rest /\ got' \in Seq(Received)
      /\ IF unpacked.result = "Ok" THEN got' = Append(got, unpacked.frame) ELSE got' = got
    BY <1>0, FrameHandled
<1>2. UNCHANGED <<script, air, hurt, subscribed, held, pipe>>
    BY DEF ProcessFrame, readVars
<1>3. Waiting = r \o t /\ r \in Seq(Byte) /\ t \in Seq(Byte)
    BY WaitingTyped DEF TInv, InTyped
<1>4. Waiting' = next.rest \o t
    <2> DEFINE u == next.rest  h == held  p == pipe
    <2>1. u \in Seq(Byte) /\ h \in Seq(Byte) /\ p \in Seq(Byte)
        BY NextFrameTyped DEF TInv, InTyped
    <2>2. Waiting' = u \o h \o p
        BY <1>1, <1>2 DEF Waiting
    <2> HIDE DEF u, h, p
    <2>3. (u \o h) \o p = u \o (h \o p)
        <3>1. Regroups(u, h, p)
            BY <2>1, Regrouped, Zenon
        <3> QED BY <3>1, Zenon DEF Regroups
    <2> QED BY <2>2, <2>3, Zenon DEF u, h, p
<1>5. Len(r) \in Nat /\ \A k \in 1 .. Len(r) : Waiting[k] = r[k]
    <2>1. Len(r) \in Nat
        <3> HIDE DEF Byte
        <3> QED BY <1>3
    <2> HIDE DEF r, t
    <2>2. Together(r \o t, r, t)
        BY <1>3, Joined
    <2> QED BY <1>3, <2>1, <2>2, Zenon DEF Together
<1> HIDE DEF r, next, unpacked, t
<1>6. ASSUME next.cut = <<>>, NEW d \in 0 .. Len(r), next.rest = Beyond(r, d),
             \A k \in 1 .. d : r[k] # START_MARKER
      PROVE  LinkInv' /\ [Link!Next]_(Link!vars)
    <2>1. got' = got
        <3>1. UnpackFull(<<>>) = Rejected("Incomplete")
            <4>1. Len(<<>>) < 2
                OBVIOUS
            <4> QED BY <4>1, Zenon DEF UnpackFull
        <3>2. unpacked.result # "Ok"
            BY <1>6, <3>1 DEF unpacked, Rejected
        <3> QED BY <1>1, <3>2
    <2>2. Waiting' = Beyond(Waiting, d) /\ d \in 0 .. Len(Waiting)
        <3>1. Beyond(r, d) \o t = Beyond(r \o t, d) /\ d \in 0 .. Len(r \o t)
            BY <1>3, <1>6, BeyondJoined
        <3> QED BY <1>3, <1>4, <1>6, <3>1, Zenon
    <2>3. \A k \in 1 .. d : Waiting[k] # START_MARKER
        <3> TAKE k \in 1 .. d
        <3>1. k \in 1 .. Len(r)
            BY <1>5, <1>6
        <3> QED BY <1>5, <1>6, <3>1
    <2>4. LinkInv'
        BY <1>2, <2>1, <2>2, <2>3, DropLinked
    <2> QED BY <1>2, <2>1, <2>4 DEF Link!vars
<1>7. ASSUME NothingCut(r) PROVE LinkInv' /\ [Link!Next]_(Link!vars)
    <2>1. next.cut = <<>> /\ next.rest = r
        BY <1>7 DEF NothingCut, next
    <2>2. Beyond(r, 0) = r
        <3>1. 0 + 1 = 1
            OBVIOUS
        <3>2. SubSeq(r, 1, Len(r)) = r
            BY <1>3, SubSeqFull
        <3> QED BY <3>1, <3>2 DEF Beyond
    <2>3. 0 \in 0 .. Len(r) /\ 1 .. 0 = {}
        BY <1>5
    <2> QED BY <1>6, <2>1, <2>2, <2>3
<1>8. ASSUME NEW s \in Nat, FrontDropped(r, s) PROVE LinkInv' /\ [Link!Next]_(Link!vars)
    <2>1. next.cut = <<>> /\ next.rest = Beyond(r, s - 1)
        BY <1>8 DEF FrontDropped, next
    <2>2. s \in 1 .. Len(r) /\ \A k \in 1 .. s - 1 : r[k] # START_MARKER
        BY <1>8 DEF FrontDropped
    <2>3. s - 1 \in 0 .. Len(r)
        BY <1>5, <2>2
    <2> QED BY <1>6, <2>1, <2>2, <2>3
<1>9. ASSUME NEW s \in Nat, NEW e \in Nat, PieceCut(r, s, e)
      PROVE  LinkInv' /\ [Link!Next]_(Link!vars)
    <2>1. PICK i \in DOMAIN script :
              /\ SubSeq(r, s, e) = Pack(script[i])
              /\ Worked + s - 1 = Before(script, i - 1) /\ Worked + e = Before(script, i)
        BY <1>9, PieceIsFrame DEF r
    <2>2. next.cut = Pack(script[i]) /\ next.rest = Beyond(r, e)
        BY <1>9, <2>1 DEF PieceCut, next
    <2>3. /\ s \in 1 .. Len(r) /\ e \in s .. Len(r)
          /\ \A k \in 1 .. s - 1 : r[k] # START_MARKER
        BY <1>9 DEF PieceCut
    <2>4. got' = Append(got, script[i])
        <3> DEFINE f == script[i]
        <3>1. UnpackFull(Pack(f)) = [result |-> "Ok", frame |-> f]
            BY FrameBytes, PackMarked
        <3> HIDE DEF f
        <3>2. unpacked = [result |-> "Ok", frame |-> f]
            BY <2>2, <3>1, Zenon DEF unpacked, f
        <3> QED BY <1>1, <3>2 DEF f
    <2>5. s \in Nat \ {0} /\ e \in 0 .. Len(r) /\ s <= e
        BY <1>5, <2>3
    <2>6. Waiting' = Beyond(Waiting, e) /\ e \in 0 .. Len(Waiting)
        <3>1. Beyond(r, e) \o t = Beyond(r \o t, e) /\ e \in 0 .. Len(r \o t)
            BY <1>3, <2>5, BeyondJoined
        <3> QED BY <1>3, <1>4, <2>2, <3>1, Zenon
    <2>7. \A k \in 1 .. s - 1 : Waiting[k] # START_MARKER
        <3> TAKE k \in 1 .. s - 1
        <3>1. k \in 1 .. Len(r)
            BY <1>5, <2>3
        <3> QED BY <1>5, <2>3, <3>1
    <2> QED BY <1>1, <1>2, <2>1, <2>4, <2>5, <2>6, <2>7, CutLinked
<1>10. \/ NothingCut(r)
       \/ \E s \in Nat : FrontDropped(r, s)
       \/ \E s, e \in Nat : PieceCut(r, s, e)
    BY <1>3, CutCases
<1>11. CASE \E s, e \in Nat : PieceCut(r, s, e)
    <2>1. PICK s \in Nat : \E e \in Nat : PieceCut(r, s, e)
        BY <1>11
    <2>2. PICK e \in Nat : PieceCut(r, s, e)
        BY <2>1
    <2> QED BY <1>9, <2>2
<1> QED BY <1>7, <1>8, <1>10, <1>11

\* Every step is one of the link, or nothing it sees.
LEMMA LinkStays ==
    ASSUME MaxLost = 0, Distinct, TInv, LinkInv, [Next]_vars
    PROVE  LinkInv' /\ [Link!Next]_(Link!vars)
<1>1. CASE UNCHANGED vars
    <2>1. UNCHANGED <<script, air, got, hurt, subscribed, recvBuf, held, pipe>>
        BY <1>1 DEF vars, readVars
    <2>2. Waiting' = Waiting
        BY <2>1 DEF Waiting
    <2> QED BY <2>1, <2>2, StillLinked DEF Link!vars
<1>2. ASSUME NEW n \in ChunkSizes, Arrive(n) PROVE LinkInv' /\ UNCHANGED Link!vars
    BY <1>2, ArriveLinked DEF Arrive, Link!vars
<1>3. ASSUME NEW n \in ChunkSizes, Vanish(n) PROVE LinkInv' /\ [Link!Next]_(Link!vars)
    BY <1>3, VanishLinked
<1>4. CASE Peek \/ Recv
    <2>1. UNCHANGED <<script, air, got, hurt, subscribed>>
        BY <1>4 DEF Peek, Recv
    <2> QED BY <1>4, <2>1, ReadWaiting, StillLinked DEF Link!vars
<1>5. CASE ProcessFrame
    BY <1>5, FrameLinked
<1>6. CASE \/ Subscribe \/ TaskReturns \/ PeerCloses \/ Quiet
           \/ FlushDone \/ FlushAll \/ Look \/ Arm \/ FlushFails
           \/ \E k \in 1 .. Chunk : FlushPart(k)
    <2>1. UNCHANGED <<script, air, got, hurt, recvBuf, held, pipe>>
        BY <1>6 DEF Subscribe, TaskReturns, PeerCloses, Quiet, FlushDone, FlushAll, Look, Arm,
                    FlushFails, FlushPart, readVars
    <2>2. ~subscribed' => ~subscribed
        BY <1>6 DEF Subscribe, TaskReturns, PeerCloses, Quiet, FlushDone, FlushAll, Look, Arm,
                    FlushFails, FlushPart, readVars
    <2>3. Waiting' = Waiting
        BY <2>1 DEF Waiting
    <2> QED BY <2>1, <2>2, <2>3, StillLinked DEF Link!vars
<1> QED BY <1>1, <1>2, <1>3, <1>4, <1>5, <1>6 DEF Next, Poll, Faults

\* The transports and process_frame implement the connection as FrameLink puts
\* it, whatever the transport hands over at a time and whatever it sends: what
\* arrives before the GATT task has subscribed is lost, and the frames behind
\* are heard in order, each once and none made up.  The frames of a script
\* must differ for FrameLink to tell them apart.
THEOREM LinkRefined ==
    ASSUME MaxLost = 0, Distinct
    PROVE  Spec => LinkSpec
<1>1. ASSUME Init PROVE LinkInv /\ Link!Init
    <2>1. script \in Scripts
        BY <1>1 DEF Init
    <2>2. \A i, j \in DOMAIN script : script[i] = script[j] => i = j
        BY <2>1 DEF Distinct
    <2>3. hurt = {} /\ got = <<>>
        BY <1>1 DEF Init
    <2> QED BY <1>1, <2>2, <2>3, InitLinked DEF Link!Init
<1>2. TInv /\ LinkInv /\ [Next]_vars => LinkInv' /\ [Link!Next]_(Link!vars)
    BY LinkStays
<1> QED BY <1>1, <1>2, TInvHolds, PTL DEF Spec, LinkSpec, Link!Spec
=============================================================================
