------------------------------ MODULE Framing -------------------------------
(***************************************************************************)
(* The frames of src/src/protocol/packet.rs and the cut of                 *)
(* src/src/device/engine.rs, process_frame.                                *)
(*                                                                         *)
(*   START  escaped( type  seq  size (4 bytes)  data  checksum )  END      *)
(***************************************************************************)
EXTENDS Integers, Sequences

Byte == 0 .. 255

START_MARKER  == 62
END_MARKER    == 60
ESCAPE_SENTRY == 61
Special == {START_MARKER, END_MARKER, ESCAPE_SENTRY}

\* DataType, those the engine handles and those it knows of.
AckType     == 1
DataMdr     == 12
DataMdrNo2  == 14
KnownTypes  == {0, 1, 2, 9, 10, 12, 13, 14, 16, 18, 25, 26, 28, 29, 30, 45}
TypeFrom(b) == IF b \in KnownTypes THEN b ELSE 255

\* A special byte b becomes the sentry and b - 16: 60, 61, 62 as 44, 45, 46.
Escape(bytes) ==
    LET Out[n \in 0 .. Len(bytes)] ==
            IF n = 0 THEN <<>>
            ELSE Out[n - 1] \o IF bytes[n] \in Special
                               THEN <<ESCAPE_SENTRY, bytes[n] - 16>> ELSE <<bytes[n]>>
    IN  Out[Len(bytes)]

\* A dangling or unknown escape spoils the whole.
Unescape(bytes) ==
    LET Escaped[n \in DOMAIN bytes] ==
            n > 1 /\ bytes[n - 1] = ESCAPE_SENTRY /\ ~Escaped[n - 1]
        Opens(n) == bytes[n] = ESCAPE_SENTRY /\ ~Escaped[n]
        Out[n \in 0 .. Len(bytes)] ==
            IF n = 0 THEN <<>>
            ELSE Out[n - 1] \o IF Opens(n) THEN <<>>
                               ELSE IF Escaped[n] THEN <<bytes[n] + 16>> ELSE <<bytes[n]>>
    IN  [ok  |-> \A n \in DOMAIN bytes : /\ Escaped[n] => bytes[n] + 16 \in Special
                                         /\ n = Len(bytes) => ~Opens(n),
         out |-> Out[Len(bytes)]]

\* Wrapping sum in u8.
Checksum(bytes) ==
    LET Sum[n \in 0 .. Len(bytes)] == IF n = 0 THEN 0 ELSE (Sum[n - 1] + bytes[n]) % 256
    IN  Sum[Len(bytes)]

SizeBytes(n) == <<(n \div 16777216) % 256, (n \div 65536) % 256, (n \div 256) % 256, n % 256>>

Pack(frame) ==
    LET content == <<frame.type, frame.seq>> \o SizeBytes(Len(frame.data)) \o frame.data
    IN  <<START_MARKER>> \o Escape(Append(content, Checksum(content))) \o <<END_MARKER>>

Rejected(why) == [result |-> why]

UnpackFull(packed) ==
    IF Len(packed) < 2 THEN Rejected("Incomplete")
    ELSE IF packed[1] # START_MARKER THEN Rejected("BadMarker")
    ELSE IF packed[Len(packed)] # END_MARKER THEN Rejected("Incomplete")
    ELSE LET inner == Unescape(SubSeq(packed, 2, Len(packed) - 1))
             b     == inner.out
             body  == SubSeq(b, 1, Len(b) - 1)
             data  == SubSeq(b, 7, Len(b) - 1)
         IN  IF ~inner.ok \/ Len(b) < 7 THEN Rejected("Malformed")
             ELSE IF b[Len(b)] # Checksum(body) THEN Rejected("BadChecksum")
             ELSE IF SubSeq(b, 3, 6) # SizeBytes(Len(data)) THEN Rejected("Malformed")
             ELSE [result |-> "Ok", frame |-> [type |-> TypeFrom(b[1]), seq |-> b[2], data |-> data]]

First(bytes, marker) ==  \* 0 when there is none
    LET at == {n \in DOMAIN bytes : bytes[n] = marker}
    IN  IF at = {} THEN 0 ELSE CHOOSE n \in at : \A m \in at : n <= m

\* process_frame: what is in front of the first start marker is dropped, and
\* the piece up to the next end marker is cut off.  Without a start marker all
\* stays as it is.  (Its branches for an end marker in front and for a piece
\* without one are not reachable: the piece starts and ends with its markers.)
NextFrame(buffer) ==
    LET start == First(buffer, START_MARKER)
        from  == SubSeq(buffer, start, Len(buffer))
        end   == First(from, END_MARKER)
    IN  IF start = 0 THEN [cut |-> <<>>, rest |-> buffer]
        ELSE IF end = 0 THEN [cut |-> <<>>, rest |-> from]
        ELSE [cut |-> SubSeq(from, 1, end), rest |-> SubSeq(from, end + 1, Len(from))]

\* send_ack: 1 - seq in u8, wrapping where the build does not check.
AckFor(frame) == [type |-> AckType, seq |-> (1 - frame.seq) % 256, data |-> <<>>]

\* handle_frame: the frames that are acknowledged.
IsData(frame) == frame.type \in {DataMdr, DataMdrNo2}
=============================================================================
