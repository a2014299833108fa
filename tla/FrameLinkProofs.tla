-------------------------- MODULE FrameLinkProofs ---------------------------
(***************************************************************************)
(* What the steps of FrameLink add up to, for any frames, any losses and   *)
(* any length: the frames heard are frames of the script in its order, and *)
(* one that has been passed over was hurt, or the one in front of it was.  *)
(***************************************************************************)
EXTENDS FrameLink, TLAPS

\* The place in the script of the k-th frame heard.
Place(k) == CHOOSE i \in DOMAIN script : script[i] = heard[k]

\* What is heard was sent, in this order, each frame at most once.
InOrder ==
    /\ \A k \in DOMAIN heard : \E i \in DOMAIN script : script[i] = heard[k]
    /\ \A k, l \in DOMAIN heard : k < l => Place(k) < Place(l)

\* A frame in front of one that was heard has been heard, or its loss, or that
\* of the one before it, is accounted for.
LossAccounted ==
    \A i \in DOMAIN script : i < LastHeard =>
        \/ \E k \in DOMAIN heard : heard[k] = script[i]
        \/ {i - 1, i} \intersect hurt # {}

Distinct == \A i, j \in DOMAIN script : script[i] = script[j] => i = j

\* A script is numbered as a sequence is.
IsScript == \E n \in Nat : DOMAIN script = 1 .. n

Invariant ==
    /\ IsScript /\ Distinct /\ heard \in Seq({script[i] : i \in DOMAIN script})
    /\ InOrder /\ LossAccounted

\* Places are numbers from 1.
LEMMA Places == IsScript => \A i \in DOMAIN script : i \in Nat /\ i >= 1
  BY DEF IsScript

\* A frame is found where it is.
LEMMA PlaceFound ==
    ASSUME Distinct, NEW k, NEW i \in DOMAIN script, script[i] = heard[k]
    PROVE  Place(k) = i
  BY DEF Distinct, Place

\* The last place belongs to the last frame, and no place lies behind it.
LEMMA LastIsLast ==
    ASSUME Invariant
    PROVE  /\ LastHeard \in Nat
           /\ \A k \in DOMAIN heard : Place(k) <= LastHeard
           /\ heard # <<>> => LastHeard = Place(Len(heard)) /\ LastHeard \in DOMAIN script
<1>1. DOMAIN script \subseteq Nat
  BY Places DEF Invariant
<1>2. CASE heard = <<>>
  BY <1>2 DEF LastHeard
<1>3. CASE heard # <<>>
  <2>1. Len(heard) \in DOMAIN heard /\ DOMAIN heard = 1 .. Len(heard) /\ Len(heard) \in Nat
    BY <1>3 DEF Invariant
  <2>2. LastHeard = Place(Len(heard))
    BY <1>3 DEF LastHeard, Place
  <2>3. \A k \in DOMAIN heard : Place(k) \in DOMAIN script
    BY DEF Invariant, InOrder, Place
  <2>4. \A k \in DOMAIN heard : k = Len(heard) \/ k < Len(heard)
    BY <2>1
  <2>5. \A k \in DOMAIN heard : Place(k) <= LastHeard
    BY <1>1, <2>1, <2>2, <2>3, <2>4 DEF Invariant, InOrder
  <2> QED
    BY <1>1, <2>1, <2>2, <2>3, <2>5
<1> QED
  BY <1>2, <1>3

\* Nothing is heard at the start.
LEMMA InitInvariant == Init /\ IsScript => Invariant
<1> SUFFICES ASSUME Init, IsScript PROVE Invariant
  OBVIOUS
<1>1. heard = <<>> /\ DOMAIN heard = {} /\ LastHeard = 0
  BY DEF Init, LastHeard
<1>2. heard \in Seq({script[i] : i \in DOMAIN script})
  BY <1>1
<1>3. \A i \in DOMAIN script : ~(i < 0)
  <2> TAKE i \in DOMAIN script
  <2>1. i \in Nat
    BY Places
  <2> QED
    BY <2>1
<1> QED
  BY <1>1, <1>2, <1>3 DEF Init, Invariant, Distinct, InOrder, LossAccounted

\* Hearing one more frame keeps it.
LEMMA HearInvariant ==
    ASSUME Invariant, NEW n \in DOMAIN script, Hear(n)
    PROVE  Invariant'
<1> DEFINE len == Len(heard)
           frames == {script[i] : i \in DOMAIN script}
<1>1. /\ script' = script /\ hurt' = hurt /\ heard' = Append(heard, script[n])
      /\ n > LastHeard
      /\ \A j \in LastHeard + 1 .. n - 1 : {j - 1, j} \intersect hurt # {}
  BY DEF Hear
<1>2. heard \in Seq(frames) /\ len \in Nat /\ DOMAIN heard = 1 .. len
  BY DEF Invariant
<1>3. /\ heard' \in Seq(frames) /\ DOMAIN heard' = 1 .. len + 1 /\ Len(heard') = len + 1
      /\ heard'[len + 1] = script[n]
      /\ \A k \in DOMAIN heard : heard'[k] = heard[k] /\ k \in DOMAIN heard'
  BY <1>1, <1>2
<1>4. n \in Nat /\ \A i \in DOMAIN script : i \in Nat /\ i >= 1
  BY Places DEF Invariant
<1>5. (IsScript /\ Distinct)'
  BY <1>1 DEF Invariant, IsScript, Distinct
<1>6. \A k \in DOMAIN heard : Place(k)' = Place(k) /\ Place(k) \in DOMAIN script
                               /\ Place(k) <= LastHeard
  BY <1>1, <1>3, LastIsLast DEF Place, Invariant, InOrder
<1>7. (CHOOSE i \in DOMAIN script' : script'[i] = heard'[len + 1]) = n
  <2>1. \A i \in DOMAIN script : script[i] = heard'[len + 1] <=> i = n
    BY <1>3 DEF Invariant, Distinct
  <2> QED
    BY <1>1, <2>1
<1>8. InOrder'
  <2>1. \A k \in DOMAIN heard' : k \in DOMAIN heard \/ k = len + 1
    BY <1>2, <1>3
  <2>2. \A k \in DOMAIN heard' : \E i \in DOMAIN script' : script'[i] = heard'[k]
    BY <1>1, <1>3, <2>1 DEF Invariant, InOrder
  <2>3. ASSUME NEW k \in DOMAIN heard', NEW l \in DOMAIN heard', k < l
        PROVE  Place(k)' < Place(l)'
    <3>1. k \in DOMAIN heard
      BY <1>2, <1>3, <2>3
    <3>2. CASE l \in DOMAIN heard
      BY <1>6, <2>3, <3>1, <3>2 DEF Invariant, InOrder
    <3>3. CASE l = len + 1
      <4>1. Place(l)' = n
        BY <1>7, <3>3 DEF Place
      <4>2. Place(k)' <= LastHeard /\ Place(k)' \in Nat /\ LastHeard \in Nat
        BY <1>4, <1>6, <3>1, LastIsLast
      <4> QED
        BY <1>1, <1>4, <4>1, <4>2
    <3> QED
      BY <2>1, <3>2, <3>3
  <2> QED
    BY <2>2, <2>3 DEF InOrder
<1>9. LastHeard' = n
  <2>1. heard' # <<>>
    BY <1>2, <1>3
  <2> QED
    BY <1>3, <1>7, <2>1 DEF LastHeard
<1>10. LossAccounted'
  <2> SUFFICES ASSUME NEW i \in DOMAIN script, i < n, {i - 1, i} \intersect hurt = {}
               PROVE  \E k \in DOMAIN heard' : heard'[k] = script[i]
    BY <1>1, <1>9 DEF LossAccounted
  <2>1. LastHeard \in Nat /\ i \in Nat
    BY <1>4, LastIsLast
  <2>2. ~(i > LastHeard)
    BY <1>1, <1>4, <2>1
  <2>3. CASE i < LastHeard
    BY <1>3, <2>3 DEF Invariant, LossAccounted
  <2>4. CASE i = LastHeard
    <3>1. heard # <<>>
      <4>1. i # 0
        BY <1>4
      <4> QED
        BY <2>4, <4>1 DEF LastHeard
    <3>2. len \in DOMAIN heard /\ i = Place(len)
      BY <1>2, <2>4, <3>1, LastIsLast
    <3>3. heard[len] = script[i]
      BY <3>2 DEF Place, Invariant, InOrder
    <3> QED
      BY <1>3, <3>2, <3>3
  <2> QED
    BY <2>1, <2>2, <2>3, <2>4
<1> QED
  BY <1>1, <1>3, <1>5, <1>8, <1>10 DEF Invariant

\* So does every other step.
LEMMA StepInvariant == Invariant /\ [Next]_vars => Invariant'
<1> SUFFICES ASSUME Invariant, [Next]_vars PROVE Invariant'
  OBVIOUS
<1>1. ASSUME script' = script, heard' = heard, hurt \subseteq hurt' PROVE Invariant'
  <2>1. LastHeard' = LastHeard /\ \A k : Place(k)' = Place(k)
    BY <1>1 DEF LastHeard, Place
  <2>2. (IsScript /\ Distinct)' /\ heard' \in Seq({script'[i] : i \in DOMAIN script'})
    BY <1>1 DEF Invariant, IsScript, Distinct
  <2>3. InOrder'
    BY <1>1, <2>1 DEF Invariant, InOrder
  <2>4. LossAccounted'
    BY <1>1, <2>1 DEF Invariant, LossAccounted
  <2> QED
    BY <2>2, <2>3, <2>4 DEF Invariant
<1>2. CASE Hurt
  BY <1>1, <1>2 DEF Hurt
<1>3. CASE \E i \in DOMAIN script : Hear(i)
  BY <1>3, HearInvariant
<1>4. CASE UNCHANGED vars
  BY <1>1, <1>4 DEF vars
<1> QED
  BY <1>2, <1>3, <1>4 DEF Next

\* Whatever implements FrameLink hands the engine the frames that were sent, in
\* their order and none twice, and each one it passes over is accounted for by
\* bytes lost in it or in the one before.
THEOREM FramesInOrder == Spec /\ IsScript => [](InOrder /\ LossAccounted)
<1>1. Invariant => InOrder /\ LossAccounted
  BY DEF Invariant
<1> QED
  BY <1>1, InitInvariant, StepInvariant, PTL DEF Spec
=============================================================================
