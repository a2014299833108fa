------------------------------- MODULE Stream -------------------------------
(***************************************************************************)
(* The bytes between the headphones and the frames of the engine: the      *)
(* three transports of src/src/transport, and flush_send_buf,              *)
(* recv_into_buffer and process_frame of src/src/device/engine.rs, one     *)
(* await after the other.                                                  *)
(*                                                                         *)
(*   mock     an in-memory pipe; the peer may close it                     *)
(*   classic  an RFCOMM socket; poll_read takes a byte to see that it can  *)
(*   gatt     a task of its own subscribes to notifications and pushes     *)
(*            them into a pipe                                             *)
(***************************************************************************)
EXTENDS Framing, FiniteSets

CONSTANTS
    Kinds,       \* the transports to look at
    Scripts,     \* what the headphones send: sequences of frames
    ChunkSizes,  \* in how many bytes at a time they arrive
    Chunk,       \* bound: bytes handed to the transport at a time, 512 in the code
    MaxLost,     \* bound: notifications lost on the way
    MaxFails     \* bound: writes that fail or are taken in part

ASSUME KindAssumption  == Kinds \subseteq {"mock", "classic", "gatt"}
ASSUME ScriptAssumption ==
    \A s \in Scripts : s \in Seq([type : KnownTypes, seq : Byte, data : Seq(Byte)])
ASSUME BoundAssumption ==
    /\ ChunkSizes \subseteq Nat \ {0} /\ Chunk \in Nat \ {0} /\ {MaxLost, MaxFails} \subseteq Nat

VARIABLES
    kind,        \* which transport
    script,      \* what the headphones send in this behaviour
    air,         \* bytes sent and not arrived
    pipe,        \* bytes arrived and not read: Pipe::buf, or the socket's buffer
    link,        \* "open", "closed" (seen by the reader) or "ended" (not seen)
    subscribed,  \* gatt: has notify() returned yet?
    pc,          \* where poll is
    held,        \* ClassicTransport::peek
    recvBuf,     \* Engine::recv_buf
    sendBuf,     \* Engine::send_buf
    sink,        \* bytes the transport has taken
    got,         \* history: the frames handled
    acked,       \* history: the bytes of the ACKs made
    hurt,        \* history: the frames that lost bytes
    spent        \* bounds: losses and failed writes so far

readVars  == <<air, pipe, link, subscribed, hurt>>
writeVars == <<sendBuf, sink, acked>>
vars == <<kind, script, readVars, pc, held, recvBuf, writeVars, got, spent>>

Lesser(a, b) == IF a < b THEN a ELSE b
Upto(s, n)   == SubSeq(s, 1, n)
Beyond(s, n) == SubSeq(s, n + 1, Len(s))

\* The bytes of the first frames of a script.
Wire == [s \in Scripts |->
    LET Bytes[n \in 0 .. Len(s)] == IF n = 0 THEN <<>> ELSE Bytes[n - 1] \o Pack(s[n])
    IN  [n \in 0 .. Len(s) |-> Bytes[n]]]

Init ==
    /\ kind \in Kinds /\ script \in Scripts
    /\ air = Wire[script][Len(script)] /\ pipe = <<>> /\ link = "open"
    /\ subscribed = (kind # "gatt")
    /\ pc = "flush" /\ held = <<>> /\ recvBuf = <<>>
    /\ sendBuf = <<>> /\ sink = <<>> /\ got = <<>> /\ acked = <<>>
    /\ hurt = {} /\ spent = [lost |-> 0, fails |-> 0]

---------------------------------------------------------------------------
(* Arrival *)

\* The frames with a byte among the next n.
Touched(n) ==
    LET at == Len(Wire[script][Len(script)]) - Len(air)
    IN  {i \in DOMAIN script : /\ Len(Wire[script][i - 1]) < at + n
                               /\ Len(Wire[script][i]) > at}

NextChunk(n) == air # <<>> /\ link = "open" /\ air' = Beyond(air, Lesser(n, Len(air)))

\* notify_waiters: only a reader that waits already is woken.
Woken(at) == IF at = "wait" /\ kind # "classic" THEN "recv" ELSE at

\* Pipe::push, or the socket of the kernel.
Arrive(n) ==
    /\ subscribed
    /\ NextChunk(n)
    /\ pipe' = pipe \o Upto(air, Lesser(n, Len(air)))
    /\ pc' = Woken(pc)
    /\ UNCHANGED <<kind, script, link, subscribed, held, recvBuf, writeVars, got, hurt, spent>>

\* A notification before notify() has returned goes nowhere, and one behind it
\* may be lost: nobody acknowledges them.
Vanish(n) ==
    /\ kind = "gatt"
    /\ NextChunk(n)
    /\ hurt' = hurt \union Touched(Lesser(n, Len(air)))
    /\ IF subscribed THEN spent.lost < MaxLost /\ spent' = [spent EXCEPT !.lost = @ + 1]
                     ELSE UNCHANGED spent
    /\ UNCHANGED <<kind, script, pipe, link, subscribed, pc, held, recvBuf, writeVars, got>>

\* The notification task of GattTransport::connect: it subscribes ...
Subscribe ==
    /\ ~subscribed /\ link = "open"
    /\ subscribed' = TRUE
    /\ UNCHANGED <<kind, script, air, pipe, link, pc, held, recvBuf, writeVars, got, hurt, spent>>

\* ... and returns when it cannot, or when the stream is over.  Nobody joins it.
TaskReturns ==
    /\ kind = "gatt" /\ link = "open"
    /\ link' = "ended"
    /\ UNCHANGED <<kind, script, air, pipe, subscribed, pc, held, recvBuf, writeVars, got, hurt, spent>>

\* The other end closes: Pipe::close wakes the reader too.
PeerCloses ==
    /\ kind # "gatt" /\ link = "open"
    /\ link' = "closed"
    /\ pc' = Woken(pc)
    /\ UNCHANGED <<kind, script, air, pipe, subscribed, held, recvBuf, writeVars, got, hurt, spent>>

---------------------------------------------------------------------------
(* Engine::poll, writing *)

Taken == Lesser(Len(sendBuf), Chunk)

FlushDone ==
    /\ pc = "flush" /\ sendBuf = <<>>
    /\ pc' = "look"
    /\ UNCHANGED <<kind, script, readVars, held, recvBuf, writeVars, got, spent>>

\* The transport takes all of the chunk.
FlushAll ==
    /\ pc = "flush" /\ sendBuf # <<>> /\ link # "closed"
    /\ sink' = sink \o Upto(sendBuf, Taken)
    /\ sendBuf' = Beyond(sendBuf, Taken)
    /\ UNCHANGED <<kind, script, readVars, pc, held, recvBuf, acked, got, spent>>

RestBehind(k) ==  \* mutant: what was not taken goes behind the queue
    Beyond(sendBuf, Taken) \o Beyond(Upto(sendBuf, Taken), k)

\* What was not taken goes back, in front of the queue.
RestInFront(k) == Beyond(Upto(sendBuf, Taken), k) \o Beyond(sendBuf, Taken)

Failing == spent.fails < MaxFails /\ spent' = [spent EXCEPT !.fails = @ + 1]

\* Only the socket takes a part; the rest is tried on the next poll.
FlushPart(k) ==
    /\ pc = "flush" /\ kind = "classic" /\ link # "closed" /\ k < Taken
    /\ Failing
    /\ sink' = sink \o Upto(sendBuf, k)
    /\ sendBuf' = RestInFront(k)
    /\ pc' = "look"
    /\ UNCHANGED <<kind, script, readVars, held, recvBuf, acked, got>>

\* The chunk is out of the buffer by then, but the error ends the engine.
FlushFails ==
    /\ pc = "flush" /\ sendBuf # <<>>
    /\ IF link = "closed" THEN UNCHANGED spent ELSE kind # "mock" /\ Failing
    /\ sendBuf' = Beyond(sendBuf, Taken)
    /\ pc' = "dead"
    /\ UNCHANGED <<kind, script, readVars, held, recvBuf, sink, acked, got>>

---------------------------------------------------------------------------
(* Engine::poll, reading *)

\* poll_read, its look at what is there.
Look ==
    /\ pc = "look"
    /\ pc' = CASE kind = "mock" /\ link = "closed" -> "dead"
               [] kind = "mock" /\ link # "closed" -> IF pipe # <<>> THEN "recv" ELSE "arm"
               [] kind = "gatt" -> IF pipe # <<>> THEN "recv" ELSE "arm"
               [] OTHER -> IF held # <<>> THEN "recv" ELSE "wait"
    /\ UNCHANGED <<kind, script, readVars, held, recvBuf, writeVars, got, spent>>

\* notified() comes after the look: a push in between wakes nobody.
Arm ==
    /\ pc = "arm" /\ pc' = "wait"
    /\ UNCHANGED <<kind, script, readVars, held, recvBuf, writeVars, got, spent>>

UntilWoken ==  \* mutant: a reader of the pipe waits for a push, without a timeout
    /\ pc = "wait" /\ kind = "classic" /\ pc' = "frame"
    /\ UNCHANGED <<kind, script, readVars, held, recvBuf, writeVars, got, spent>>

\* The timeout of poll_read; a quiet poll goes on to the frames it has.
Quiet ==
    /\ pc = "wait" /\ pc' = "frame"
    /\ UNCHANGED <<kind, script, readVars, held, recvBuf, writeVars, got, spent>>

ByteDropped == <<>>  \* mutant: the byte that was looked at is not kept

\* ClassicTransport::poll_read: one byte, to know that there is one.
ByteHeld == <<Head(pipe)>>

Peek ==
    /\ pc = "wait" /\ kind = "classic"
    /\ \/ pipe # <<>> /\ held' = ByteHeld /\ pipe' = Tail(pipe) /\ pc' = "recv"
       \/ pipe = <<>> /\ link = "closed" /\ pc' = "dead" /\ UNCHANGED <<held, pipe>>
    /\ UNCHANGED <<kind, script, air, link, subscribed, hurt, recvBuf, writeVars, got, spent>>

\* recv: what there is, the byte held in front.  With nothing there it waits,
\* without a limit, for more or for the end; only the socket waits with a byte
\* in hand.
Recv ==
    /\ pc = "recv"
    /\ pipe # <<>> \/ link = "closed"
    /\ recvBuf' = recvBuf \o held \o pipe
    /\ held' = <<>> /\ pipe' = <<>>
    /\ pc' = IF held \o pipe # <<>> THEN "frame" ELSE "dead"
    /\ UNCHANGED <<kind, script, air, link, subscribed, hurt, writeVars, got, spent>>

\* process_frame: one frame at most; a piece that does not unpack is dropped.
ProcessFrame ==
    /\ pc = "frame"
    /\ \E next \in {NextFrame(recvBuf)} : \E unpacked \in {UnpackFull(next.cut)} :
        /\ recvBuf' = next.rest
        /\ \/ unpacked.result = "Ok" /\ IsData(unpacked.frame)
              /\ got' = Append(got, unpacked.frame)
              /\ sendBuf' = sendBuf \o Pack(AckFor(unpacked.frame))
              /\ acked' = acked \o Pack(AckFor(unpacked.frame))
           \/ unpacked.result = "Ok" /\ ~IsData(unpacked.frame)
              /\ got' = Append(got, unpacked.frame)
              /\ UNCHANGED <<sendBuf, acked>>
           \/ unpacked.result # "Ok" /\ UNCHANGED <<got, sendBuf, acked>>
    /\ pc' = "flush"
    /\ UNCHANGED <<kind, script, readVars, held, sink, spent>>

Poll == FlushDone \/ FlushAll \/ Look \/ Arm \/ Peek \/ Recv \/ ProcessFrame

Faults == FlushFails \/ (\E k \in 1 .. Chunk : FlushPart(k)) \/ PeerCloses \/ TaskReturns

Next == \/ \E n \in ChunkSizes : Arrive(n) \/ Vanish(n)
        \/ Subscribe \/ Quiet \/ Poll \/ Faults

Spec == Init /\ [][Next]_vars

\* The loop runs, timeouts pass, the connection delivers what it has.
FairSpec ==
    /\ Spec
    /\ WF_vars(Poll) /\ WF_vars(Quiet) /\ WF_vars(Subscribe)
    /\ WF_vars(\E n \in ChunkSizes : Arrive(n))

---------------------------------------------------------------------------
(* Properties *)

TypeOK ==
    /\ kind \in {"mock", "classic", "gatt"}
    /\ link \in {"open", "closed", "ended"} /\ subscribed \in BOOLEAN
    /\ pc \in {"flush", "look", "arm", "wait", "recv", "frame", "dead"}
    /\ kind = "gatt" => link # "closed"
    /\ Len(held) = IF kind = "classic" /\ pc = "recv" THEN 1 ELSE 0
    /\ {air, pipe, held, recvBuf, sendBuf, sink, acked} \subseteq Seq(Int)

\* The engine hears what the headphones say, as FrameLink puts it: in order,
\* nothing twice, nothing made up from pieces of two frames; lost bytes cost
\* the frames they belong to and the one whose start they swallow.
Link == INSTANCE FrameLink WITH heard <- got
LinkSpec == Link!Spec

\* ACKs leave complete and in order, also when the transport takes a part of a
\* chunk and new ACKs are queued before the rest is out.
AcksInOrder == pc # "dead" => sink \o sendBuf = acked

\* When everything has arrived and the buffers are worked off, a loss has cost
\* no more than the frames it hit and the one behind each.
Settled == air = <<>> /\ pipe = <<>> /\ pc = "wait" /\ NextFrame(recvBuf).cut = <<>>
LossIsBounded ==
    Settled => \A i \in DOMAIN script :
        \/ \E j \in DOMAIN got : got[j] = script[i]
        \/ {i - 1, i} \intersect hurt # {}

\* Pushes that wake nobody cost a timeout and no more: as long as the link is
\* up and loses nothing, every frame is heard.
Sound == link = "open" /\ hurt = {} /\ pc # "dead"
AllArrive == kind # "classic" /\ []Sound => <>(got = script)

\* recv is called when there is something to read, and returns.
RecvReturns == pc = "recv" ~> pc # "recv"
=============================================================================
