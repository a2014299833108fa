----------------------------- MODULE Lifecycle ------------------------------
(***************************************************************************)
(* What the app promises its user about connections, without the loop, the *)
(* scans, the command queue and the tray of AppCore: which device it goes  *)
(* to, and when it may do so without being asked.                          *)
(***************************************************************************)
CONSTANTS Macs, None

VARIABLES
    state,   \* of the connection
    target,  \* the device it is about
    memory,  \* the device to come back to
    opted,   \* does the user want that?
    may,     \* attach unasked: "once" at startup, "waiting" for a lost link, or "no"
    kept     \* what a new process will remember: [auto, last]

vars == <<state, target, memory, opted, may, kept>>

Nothing == [auto |-> FALSE, last |-> None]
Remembers(what) == opted = what.auto /\ memory = what.last

\* The settings are saved when they change.  That may fail unnoticed: then what
\* was kept is kept, or it is lost.
Save == kept' \in {[auto |-> opted', last |-> memory'], kept, Nothing}

Fresh == state = "NotConnected" /\ target = None /\ may = "once"

Init == Fresh /\ kept \in [auto : BOOLEAN, last : Macs \union {None}] /\ Remembers(kept)

\* The user picks a device.
Choose(mac) ==
    /\ state \in {"NotConnected", "Error"}
    /\ state' = "Connecting" /\ target' = mac /\ memory' = mac /\ Save
    /\ UNCHANGED <<opted, may>>

\* The app goes back to the remembered one.
Attach ==
    /\ \/ may = "once" /\ state = "NotConnected" /\ opted /\ may' = "no"
       \/ may = "waiting" /\ state = "Error" /\ opted /\ may' = "waiting"
    /\ memory # None /\ target' = memory
    /\ state' = "Connecting"
    /\ UNCHANGED <<memory, opted, kept>>

\* The startup is over.
Settle == may = "once" /\ may' = "no" /\ UNCHANGED <<state, target, memory, opted, kept>>

Succeed ==
    /\ state = "Connecting"
    /\ state' = "Connected" /\ may' = "no"
    /\ UNCHANGED <<target, memory, opted, kept>>

\* An attempt fails or a link is lost; who opted in waits for the device.
Fail ==
    /\ state \in {"Connecting", "Connected"}
    /\ state' = "Error" /\ target' \in {target, None}
    /\ may' = IF opted /\ memory # None THEN "waiting" ELSE may
    /\ UNCHANGED <<memory, opted, kept>>

\* The user leaves: no more waiting.
Leave ==
    /\ state' = "NotConnected" /\ target' = None
    /\ may' = IF may = "waiting" THEN "no" ELSE may
    /\ UNCHANGED <<memory, opted, kept>>

Opt(wish) ==
    /\ opted' = wish /\ Save
    /\ may' = IF may = "waiting" /\ ~wish THEN "no" ELSE may
    /\ UNCHANGED <<state, target, memory>>

\* A new process remembers what was kept or, if the last one was killed while
\* it saved that, nothing.
Begin == kept' \in {kept, Nothing} /\ Fresh' /\ Remembers(kept)'

Next ==
    \/ \E mac \in Macs : Choose(mac)
    \/ \E wish \in BOOLEAN : Opt(wish)
    \/ Attach \/ Settle \/ Succeed \/ Fail \/ Leave \/ Begin

Spec == Init /\ [][Next]_vars
=============================================================================
