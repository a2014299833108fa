------------------------------ MODULE Payloads ------------------------------
(***************************************************************************)
(* The messages inside the frames: src/src/protocol/payloads.rs, codec.rs  *)
(* and enums.rs.  A message starts with its command and a type, one byte   *)
(* each; what follows is a sequence of fields, and the kind of a field     *)
(* says how it is written and read.                                        *)
(***************************************************************************)
EXTENDS Integers, Sequences, FiniteSets, TLC

AnyByte == 0 .. 255

---------------------------------------------------------------------------
(* Enumerations: the bytes with a name *)

DeviceEnums ==
    [ModelSeries |-> {0, 16, 17, 32, 48, 64, 80, 96, 112, 128, 144},
     ModelColor |-> 0 .. 14, AudioCodec |-> {0, 1, 2, 16, 32, 33, 48, 255}]

PowerEnums ==
    [Charging |-> 0 .. 3, AutoPowerOffElements |-> {0, 1, 2, 3, 4, 17}]

EqPresets ==
    [EqPresetId |-> (0 .. 7) \union (16 .. 23) \union (32 .. 35) \union (48 .. 51)
                    \union (160 .. 165) \union {255}]

AmbientEnums ==
    [NcAsmMode |-> {0, 1}, NoiseAdaptiveSensitivity |-> 0 .. 2,
     Function |-> (0 .. 4) \union {16, 17} \union (32 .. 36) \union (48 .. 57)
                  \union (64 .. 72) \union (80 .. 88) \union (112 .. 114)]

PlaybackEnums ==
    [AlertMessage |-> {0, 1, 2, 3, 7, 8, 10}, AlertAction |-> 0 .. 2,
     PlaybackStatus |-> 0 .. 3, MusicCall |-> {0, 1}, PlaybackControl |-> 0 .. 9,
     PlaybackName |-> 0 .. 2, GsSettingType |-> {0, 1}, GsStringFormat |-> {0, 1}]

AudioEnums == [PriorMode |-> 0 .. 2, UpscalingType |-> 0 .. 3, RoomSize |-> 0 .. 2]

TouchEnums ==
    [Preset |-> {0, 16, 112, 113, 114, 255} \union (32 .. 34) \union (48 .. 56) \union {69, 70},
     DetectSensitivity |-> 0 .. 2, ModeOutTime |-> 0 .. 3]

PeripheralEnums == [Connectivity |-> 0 .. 2, SwitchResult |-> 0 .. 4]

Enums == DeviceEnums @@ PowerEnums @@ EqPresets @@ AmbientEnums @@ PlaybackEnums
         @@ AudioEnums @@ TouchEnums @@ PeripheralEnums

AlwaysFF(kind) == 255  \* mutant: every enumeration marks the unknown alike

\* The byte of Unknown: three enumerations give 0xFF a name.
UnknownOf(kind) == IF 255 \in Enums[kind] THEN 254 ELSE 255

FromU8(kind, b) == IF b \in Enums[kind] THEN b ELSE UnknownOf(kind)

---------------------------------------------------------------------------
(* Layouts: the kinds of the fields, per message the engine reads *)

Message(table, cmds, types, kinds) ==
    [table |-> table, cmds |-> cmds, types |-> types, kinds |-> kinds]

DeviceMessages ==
    [ProtocolInfo |-> Message(1, {1}, AnyByte, <<"u32", "enable", "enable">>),
     UniqueId     |-> Message(1, {3}, AnyByte, <<"byte", "text">>),
     ModelName    |-> Message(1, {5}, {1}, <<"text">>),
     FwVersion    |-> Message(1, {5}, {2}, <<"text">>),
     SeriesColor  |-> Message(1, {5}, {3}, <<"ModelSeries", "ModelColor">>),
     Functions1   |-> Message(1, {7}, AnyByte, <<"functions">>),
     Functions2   |-> Message(2, {7}, AnyByte, <<"functions">>),
     Codec        |-> Message(1, {19, 21}, AnyByte, <<"AudioCodec">>)]

\* The type of a battery report decides which batteries it is about, and
\* whether the thresholds follow, after all the levels.
BatteryMessages ==
    [Single            |-> Message(1, {35}, AnyByte \ {1, 2, 8, 9, 10}, <<"byte", "Charging">>),
     LeftRight         |-> Message(1, {35}, {1}, <<"byte", "Charging", "byte", "Charging">>),
     Cradle            |-> Message(1, {35}, {2}, <<"byte", "Charging">>),
     SingleThreshold   |-> Message(1, {35}, {8}, <<"byte", "Charging", "byte">>),
     LrThreshold       |-> Message(1, {35}, {9}, <<"byte", "Charging", "byte", "Charging", "byte", "byte">>),
     CradleThreshold   |-> Message(1, {35}, {10}, <<"byte", "Charging", "byte">>)]

PowerMessages == [AutoPowerOff |-> Message(1, {39, 41}, {4, 5}, <<"AutoPowerOffElements", "lastSelect">>)]

EqMessages ==
    [EqStatus |-> Message(1, {83, 85}, AnyByte, <<"enable">>),
     EqParam  |-> Message(1, {87, 89}, AnyByte, <<"EqPresetId", "bands">>)]

AmbientMessages ==
    [DualNc      |-> Message(1, {103, 105}, {23}, <<"changed", "on", "NcAsmMode", "on", "level">>),
     DualNcNa    |-> Message(1, {103, 105}, {25},
                         <<"changed", "on", "NcAsmMode", "on", "level", "on", "NoiseAdaptiveSensitivity">>),
     AsmSeamless |-> Message(1, {103, 105}, {34}, <<"changed", "on", "on", "level">>),
     Button      |-> Message(1, {103, 105}, {48}, <<"Function">>)]

PlaybackMessages ==
    [Alert      |-> Message(1, {153}, AnyByte, <<"AlertMessage", "AlertAction">>),
     PlayStatus |-> Message(1, {163, 165}, AnyByte, <<"byte", "PlaybackStatus", "MusicCall">>),
     Names      |-> Message(1, {167, 169}, {1, 2, 3}, <<"names">>),
     Volume     |-> Message(1, {167, 169}, {32, 33, 48, 49}, <<"byte">>)]

\* An unknown number counts as the fourth general setting.
GeneralMessages ==
    [GsCapability |-> Message(1, {209}, AnyByte, <<"GsSettingType", "GsStringFormat", "text", "text">>),
     Gs1 |-> Message(1, {215, 217}, {209}, <<"boolean", "enable">>),
     Gs2 |-> Message(1, {215, 217}, {210}, <<"boolean", "enable">>),
     Gs3 |-> Message(1, {215, 217}, {211}, <<"boolean", "enable">>),
     Gs4 |-> Message(1, {215, 217}, AnyByte \ {209, 210, 211}, <<"boolean", "enable">>)]

AudioMessages ==
    [Upscaling0 |-> Message(1, {225}, AnyByte, <<"UpscalingType">>),
     DseeStatus |-> Message(1, {227, 229}, {1}, <<"enable">>),
     Connection |-> Message(1, {231, 233}, {0}, <<"PriorMode">>),
     Upscaling  |-> Message(1, {231, 233}, {1}, <<"on">>),
     Bgm        |-> Message(1, {231, 233}, {3, 9}, <<"enable", "RoomSize">>),
     Cinema     |-> Message(1, {231, 233}, {4}, <<"enable">>)]

SystemMessages ==
    [AutoPause   |-> Message(1, {247, 249}, {1}, <<"enable">>),
     Touch       |-> Message(1, {247, 249}, {3}, <<"presets">>),
     Stc         |-> Message(1, {247, 249}, {12}, <<"enable", "preview">>),
     HeadGesture |-> Message(1, {247, 249}, {15}, <<"enable">>),
     StcExt      |-> Message(1, {251, 253}, AnyByte, <<"DetectSensitivity", "ModeOutTime">>)]

VoiceMessages ==
    [Voice       |-> Message(2, {71, 73}, {1, 3}, <<"enable">>),
     VoiceVolume |-> Message(2, {71, 73}, {32}, <<"signed", "feedback">>)]

\* The class of a device is there in a list of type 2 only.
PeripheralMessages ==
    [Devices      |-> Message(2, {55}, AnyByte \ {2}, <<"devices", "byte">>),
     ClassDevices |-> Message(2, {55}, {2}, <<"classDevices", "byte">>),
     Switched     |-> Message(2, {61}, {1}, <<"SwitchResult", "mac">>),
     Managed      |-> Message(2, {61}, AnyByte \ {1}, <<"Connectivity", "byte", "mac">>)]

Messages == DeviceMessages @@ BatteryMessages @@ PowerMessages @@ EqMessages @@ AmbientMessages
            @@ PlaybackMessages @@ GeneralMessages @@ AudioMessages @@ SystemMessages
            @@ VoiceMessages @@ PeripheralMessages

\* handle_command_t1 and handle_command_t2: who reads a message.
HandlersOf(table, data) ==
    {m \in DOMAIN Messages : /\ Messages[m].table = table
                             /\ Len(data) >= 2
                             /\ data[1] \in Messages[m].cmds
                             /\ data[2] \in Messages[m].types}

---------------------------------------------------------------------------
(* Writer and Reader *)

\* Lists and the kinds of one entry.  The names come four at a time, any other
\* list with its length in front.
Entry ==
    [functions |-> <<"byte", "byte">>, names |-> <<"PlaybackName", "text">>,
     bands |-> <<"byte">>, presets |-> <<"Preset">>, devices |-> <<"mac", "byte", "text">>,
     classDevices |-> <<"mac", "byte", "class", "text">>]

MacLength == 17

\* Big-endian.
Octets(n, width) == [i \in 1 .. width |-> (n \div 256 ^ (width - i)) % 256]
Number(bytes) ==
    LET Upto[i \in 0 .. Len(bytes)] == IF i = 0 THEN 0 ELSE 256 * Upto[i - 1] + bytes[i]
    IN  Upto[Len(bytes)]

\* mac_bytes pads with blanks.
MacBytes(address) ==
    [i \in 1 .. MacLength |-> IF i \in DOMAIN address THEN address[i] ELSE 32]
LastOther(bytes, byte) ==
    CHOOSE i \in 0 .. Len(bytes) : /\ i > 0 => bytes[i] # byte
                                   /\ \A j \in i + 1 .. Len(bytes) : bytes[j] = byte

BlanksLeft(bytes) ==  \* mutant: only the NULs are taken off
    SubSeq(bytes, 1, LastOther(bytes, 0))

\* mac_string takes off NULs, then blanks, at the end: an address has none in front.
MacString(bytes) ==
    LET chars == SubSeq(bytes, 1, LastOther(bytes, 0))
    IN  SubSeq(chars, 1, LastOther(chars, 32))

Concat(pieces) ==
    LET Upto[i \in 0 .. Len(pieces)] == IF i = 0 THEN <<>> ELSE Upto[i - 1] \o pieces[i]
    IN  Upto[Len(pieces)]

WriteOne(kind, v) ==
    CASE kind = "u32" -> Octets(v, 4)
      [] kind = "class" -> Octets(v, 3)
      [] kind = "mac" -> MacBytes(v)
      [] kind = "text" -> <<Len(v)>> \o v
      [] OTHER -> <<v>>

WriteField(kind, v) ==
    IF kind \notin DOMAIN Entry THEN WriteOne(kind, v)
    ELSE (IF kind = "names" THEN <<>> ELSE <<Len(v)>>)
         \o Concat([i \in DOMAIN v |->
                Concat([j \in DOMAIN Entry[kind] |-> WriteOne(Entry[kind][j], v[i][j])])])

Write(kinds, values) == Concat([i \in DOMAIN kinds |-> WriteField(kinds[i], values[i])])

\* A reader: what is left of the message, and what has been read, if all of it
\* was there.
Reader(data) == [ok |-> TRUE, rest |-> data, got |-> <<>>]
Spoilt == [ok |-> FALSE, rest |-> <<>>, got |-> <<>>]

TakesWhatIsThere(r, n) ==  \* mutant: too short a message is read to its end
    [ok |-> TRUE, bytes |-> [i \in 1 .. n |-> IF i <= Len(r.rest) THEN r.rest[i] ELSE 0],
     rest |-> IF n < Len(r.rest) THEN SubSeq(r.rest, n + 1, Len(r.rest)) ELSE <<>>]

Take(r, n) ==
    IF n <= Len(r.rest)
    THEN [ok |-> TRUE, bytes |-> SubSeq(r.rest, 1, n), rest |-> SubSeq(r.rest, n + 1, Len(r.rest))]
    ELSE [ok |-> FALSE, bytes |-> <<>>, rest |-> r.rest]

Width(kind) == CASE kind = "u32" -> 4 [] kind = "class" -> 3 [] kind = "mac" -> MacLength [] OTHER -> 1

Value(kind, bytes) ==
    CASE kind \in {"u32", "class"} -> Number(bytes)
      [] kind = "mac" -> MacString(bytes)
      [] kind \in DOMAIN Enums -> FromU8(kind, bytes[1])
      [] OTHER -> bytes[1]

ReadOne(kind, r) ==
    LET t == Take(r, Width(kind))
        s == Take(t, t.bytes[1])
        Given(u, v) == [ok |-> TRUE, rest |-> u.rest, got |-> Append(r.got, v)]
    IN  IF ~t.ok THEN Spoilt
        ELSE IF kind # "text" THEN Given(t, Value(kind, t.bytes))
        ELSE IF s.ok THEN Given(s, s.bytes) ELSE Spoilt

ReadAll(kinds, data) ==
    LET Upto[i \in 0 .. Len(kinds)] ==
            IF i = 0 THEN Reader(data)
            ELSE LET r == Upto[i - 1] IN IF r.ok THEN ReadOne(kinds[i], r) ELSE Spoilt
    IN  Upto[Len(kinds)]

ReadField(kind, r) ==
    LET counted == kind # "names"
        t       == Take(r, IF counted THEN 1 ELSE 0)
        count   == IF counted THEN t.bytes[1] ELSE 4
        Upto[i \in 0 .. count] ==
            IF i = 0 THEN Reader(t.rest)
            ELSE LET before == Upto[i - 1]
                     e == ReadAll(Entry[kind], before.rest)
                 IN  IF before.ok /\ e.ok THEN [e EXCEPT !.got = Append(before.got, @)] ELSE Spoilt
        all     == Upto[count]
    IN  IF kind \notin DOMAIN Entry THEN ReadOne(kind, r)
        ELSE IF t.ok /\ all.ok THEN [all EXCEPT !.got = Append(r.got, @)] ELSE Spoilt

\* The two bytes in front have been looked at by the dispatch already.
Read(kinds, data) ==
    LET Upto[i \in 0 .. Len(kinds)] ==
            IF i = 0 THEN Reader(SubSeq(data, 3, Len(data)))
            ELSE LET r == Upto[i - 1] IN IF r.ok THEN ReadField(kinds[i], r) ELSE Spoilt
    IN  Upto[Len(kinds)]

=============================================================================
