----------------------------- MODULE FrameLink ------------------------------
(***************************************************************************)
(* What the connection promises the engine, whatever the transport: the    *)
(* frames of the headphones, in their order, each at most once and none    *)
(* that was not sent.  Bytes that are lost on the way cost the frames they *)
(* belong to, and at most the one behind.                                  *)
(***************************************************************************)
EXTENDS Integers, Sequences

VARIABLES
    script,  \* the frames the headphones send, all different
    hurt,    \* those that have lost a byte
    heard    \* those the engine has handled

vars == <<script, hurt, heard>>

Init ==
    /\ \A i, j \in DOMAIN script : script[i] = script[j] => i = j
    /\ hurt = {} /\ heard = <<>>

\* The place of the last frame heard.
LastHeard ==
    IF heard = <<>> THEN 0
    ELSE CHOOSE i \in DOMAIN script : script[i] = heard[Len(heard)]

Hurt == /\ \E S \in SUBSET DOMAIN script : hurt' = hurt \union S
        /\ UNCHANGED <<script, heard>>

Hear(i) ==
    /\ i > LastHeard
    /\ \A j \in LastHeard + 1 .. i - 1 : {j - 1, j} \intersect hurt # {}
    /\ heard' = Append(heard, script[i])
    /\ UNCHANGED <<script, hurt>>

Next == Hurt \/ \E i \in DOMAIN script : Hear(i)

Spec == Init /\ [][Next]_vars
=============================================================================
