------------------------------ MODULE Exchange ------------------------------
(***************************************************************************)
(* What one value goes through: a byte of the headphones is reported, read *)
(* into the engine's own terms (src/src/device/engine.rs), shown, perhaps  *)
(* edited, and written back with its neighbours.  One message at a time    *)
(* and one subject per behaviour; what else may happen meanwhile is for    *)
(* modules Session and Settings.                                           *)
(***************************************************************************)
EXTENDS Payloads

CONSTANTS
    Subjects,   \* the messages looked at
    MaxChanges, \* bound: values changed on the headphones
    MaxEdits    \* bound: edits in the app

ASSUME SubjectAssumption == Subjects \subseteq DOMAIN Messages
ASSUME BoundAssumption   == {MaxChanges, MaxEdits} \subseteq Nat

\* Every report is read by one handler.
ASSUME DispatchAssumption ==
    \A m, n \in DOMAIN Messages :
        \/ m = n
        \/ Messages[m].table # Messages[n].table
        \/ Messages[m].cmds \intersect Messages[n].cmds = {}
        \/ Messages[m].types \intersect Messages[n].types = {}

VARIABLES
    subject, \* the message this behaviour is about
    dev,     \* the values of the headphones, as bytes
    have,    \* Prop::current, or the field of the state, or what has been read
             \* of a message the engine only acts upon: the last one, where the
             \* engine collects them (functions, capabilities)
    want,    \* Prop::desired
    wire,    \* the message under way
    fresh,   \* history: nothing has changed since a complete report
    spent    \* bounds: changes and edits so far

vars == <<subject, dev, have, want, wire, fresh, spent>>

---------------------------------------------------------------------------
(* The terms of the engine *)

\* What a write carries in fields that are no setting: the engine does not keep
\* what it reads there.
Fixed == [changed |-> 1, preview |-> 1, lastSelect |-> 0, boolean |-> 0, feedback |-> 0]

Clamp(v, lo, hi) == IF v < lo THEN lo ELSE IF v > hi THEN hi ELSE v

BassAmongThem(entries, old) ==  \* mutant: the clear bass counts as a band
    [bass |-> 0, config |-> [i \in DOMAIN entries |-> entries[i][1] - 10]]

\* A report of six bands starts with the clear bass.
Bands(entries, old) ==
    CASE Len(entries) = 6 -> [bass |-> entries[1][1] - 10,
                              config |-> [i \in 1 .. 5 |-> entries[i + 1][1] - 10]]
      [] Len(entries) = 10 -> [bass |-> 0, config |-> [i \in 1 .. 10 |-> entries[i][1] - 6]]
      [] OTHER -> old

\* A field read, in the terms of the engine; old is what it had.
Adopted(kind, v, old) ==
    CASE kind \in DOMAIN Fixed -> old
      [] kind = "enable" -> v = 0
      [] kind = "on" -> v = 1
      [] kind = "level" -> IF v > 0 THEN Clamp(v, 1, 20) ELSE old
      [] kind = "signed" -> IF v > 127 THEN v - 256 ELSE v
      [] kind = "bands" -> Bands(v, old)
      [] kind = "presets" -> IF Len(v) >= 2 THEN SubSeq(v, 1, 2) ELSE old
      [] OTHER -> v

ZeroIsOn(kind, x) ==  \* mutant: every switch is written the same way round
    CASE kind \in DOMAIN Fixed -> Fixed[kind]
      [] kind \in {"enable", "on"} -> IF x THEN 0 ELSE 1
      [] kind = "signed" -> x % 256
      [] kind = "bands" -> <<>>
      [] OTHER -> x

\* ... and back.  The equalizer is written by its preset, without bands.
Written(kind, x) ==
    CASE kind \in DOMAIN Fixed -> Fixed[kind]
      [] kind = "enable" -> IF x THEN 0 ELSE 1
      [] kind = "on" -> IF x THEN 1 ELSE 0
      [] kind = "signed" -> x % 256
      [] kind = "bands" -> <<>>
      [] OTHER -> x

\* Properties::default, DeviceState::default.
Default(message, kind) ==
    CASE kind \in {"enable", "on"} -> message = "Voice"
      [] message = "Volume" -> 12
      [] kind = "level" -> 12
      [] kind = "AutoPowerOffElements" -> 17
      [] kind = "ModeOutTime" -> 1
      [] kind = "Function" -> 2
      [] kind = "bands" -> [bass |-> 0, config |-> <<>>]
      [] kind = "presets" -> <<<<32>>, <<32>>>>
      [] kind \in {"text", "mac"} \union DOMAIN Entry -> <<>>
      [] OTHER -> 0

---------------------------------------------------------------------------
(* The commands *)

\* What a setting is written with: the command and the type.
Setters ==
    [DualNc |-> <<104, 23>>, DualNcNa |-> <<104, 25>>, AsmSeamless |-> <<104, 34>>,
     Button |-> <<104, 48>>, Volume |-> <<168, 32>>, Stc |-> <<248, 12>>, StcExt |-> <<252, 12>>,
     Bgm |-> <<232, 9>>, Cinema |-> <<232, 4>>, EqParam |-> <<88, 0>>, Upscaling |-> <<232, 1>>,
     Touch |-> <<248, 3>>, HeadGesture |-> <<248, 15>>, AutoPowerOff |-> <<40, 4>>,
     AutoPause |-> <<248, 1>>, Voice |-> <<72, 1>>, VoiceVolume |-> <<72, 32>>,
     Gs1 |-> <<216, 209>>, Gs2 |-> <<216, 210>>, Gs3 |-> <<216, 211>>, Gs4 |-> <<216, 212>>]

\* The one-shots: a key, the power switch, the alerts and the log, and for an
\* address of the list the switch and the connect of multipoint.
OneShots(addresses) ==
    [cmd : {<<164, 1>>}, kinds : {<<"byte", "PlaybackControl">>}, values : {<<0, 2>>, <<0, 7>>}]
    \union [cmd : {<<36, 3>>}, kinds : {<<"byte">>}, values : {<<1>>}]
    \union [cmd : {<<148, 0>>}, kinds : {<<"byte">>}, values : {<<0>>}]
    \union [cmd : {<<196, 1>>}, kinds : {<<"byte">>}, values : {<<0>>}]
    \union [cmd : {<<60, 1>>}, kinds : {<<"mac">>}, values : {<<a>> : a \in addresses}]
    \union [cmd : {<<60, 0>>, <<60, 2>>}, kinds : {<<"Connectivity", "mac">>},
            values : {<<1, a>> : a \in addresses}]

Listed(m, values) ==
    IF m \in {"Devices", "ClassDevices"} THEN {values[1][i][1] : i \in DOMAIN values[1]} ELSE {}

---------------------------------------------------------------------------
(* Values to start from *)

Texts == {<<>>, <<76, 66>>}
Macs  == {[i \in 1 .. 17 |-> 65], [i \in 1 .. 17 |-> IF i > 15 THEN 0 ELSE 66]}

\* Two bytes with a name, and one without.
Named(S)   == {CHOOSE b \in S : \A c \in S : b <= c, CHOOSE b \in S : \A c \in S : b >= c}
Nameless(S) == CHOOSE b \in AnyByte \ S : \A c \in AnyByte \ S : b <= c

Samples(kind) ==
    CASE kind \in DOMAIN Enums -> Named(Enums[kind]) \union {Nameless(Enums[kind])}
      [] kind \in DOMAIN Fixed -> {0, 1}
      [] kind \in {"enable", "on"} -> {0, 1, 7}
      [] kind = "level" -> {0, 1, 20}
      [] kind = "signed" -> {2, 254}
      [] kind = "u32" -> {1, 16777472}
      [] kind = "text" -> Texts
      [] kind = "mac" -> Macs
      [] kind = "functions" -> {<<>>, <<<<23, 1>>, <<252, 0>>>>}
      [] kind = "names" -> {[i \in 1 .. 4 |-> <<2, t>>] : t \in Texts}
      [] kind = "bands" -> {[i \in 1 .. n |-> <<2 * i>>] : n \in {6, 10}}
      [] kind = "presets" -> {<<<<32>>, <<255>>>>, <<<<49>>, <<1>>>>, <<<<48>>>>}
      [] kind = "devices" -> {<<>>} \union {<<<<m, 1, t>>, <<[i \in 1 .. 17 |-> 67], 0, t>>>> : m \in Macs, t \in Texts}
      [] kind = "classDevices" -> {<<>>} \union {<<<<m, 1, 7078148, t>>>> : m \in Macs, t \in Texts}
      [] OTHER -> {0, 255}

\* What the menu sets.
Choices(kind, x) ==
    CASE kind \in {"enable", "on"} -> {~x}
      [] kind = "level" -> {1, 20}
      [] kind = "signed" -> {-2, 2}
      [] kind = "presets" -> {<<<<16>>, x[2]>>, <<x[1], <<16>>>>}
      [] kind = "byte" -> {0, 30}
      [] kind \in DOMAIN Enums -> Named(Enums[kind])
      [] OTHER -> {}

---------------------------------------------------------------------------
(* The steps *)

Quiet == [to |-> "nobody", data |-> <<>>]

Kinds == Messages[subject].kinds

\* Defaults in the app and some value of every kind on the headphones; Change
\* reaches the others.  A general setting is a boolean or a list, once and for all.
Init ==
    /\ subject \in Subjects
    /\ \E type \in Samples("boolean") :
          dev = [i \in DOMAIN Kinds |->
                    IF Kinds[i] = "boolean" THEN type ELSE CHOOSE v \in Samples(Kinds[i]) : TRUE]
    /\ have = [i \in DOMAIN Kinds |-> Default(subject, Kinds[i])]
    /\ want = have
    /\ wire = Quiet
    /\ fresh = FALSE
    /\ spent = [changes |-> 0, edits |-> 0]

\* A value changes on the headphones.
Change(i) ==
    /\ wire = Quiet
    /\ Kinds[i] # "boolean"
    /\ spent.changes < MaxChanges
    /\ \E v \in Samples(Kinds[i]) \ {dev[i]} : dev' = [dev EXCEPT ![i] = v]
    /\ fresh' = FALSE
    /\ spent' = [spent EXCEPT !.changes = @ + 1]
    /\ UNCHANGED <<subject, have, want, wire>>

Front == {<<c, t>> : c \in Messages[subject].cmds,
                     t \in {CHOOSE b \in Messages[subject].types : TRUE}}

\* The headphones report; short says that the end is missing, be it another
\* firmware or a fault.
Report ==
    /\ wire = Quiet
    /\ \E front \in Front :
          LET data == front \o Write(Kinds, dev)
          IN  \E n \in 0 .. Len(data) :
                 wire' = [to |-> "engine", data |-> SubSeq(data, 1, n), short |-> n < Len(data)]
    /\ UNCHANGED <<subject, dev, have, want, fresh, spent>>

\* handle_command_t1 and handle_command_t2; Prop::overwrite takes an edit along.
Receive ==
    /\ wire.to = "engine"
    /\ wire' = Quiet
    /\ LET read == Read(Kinds, wire.data)
           IN  IF subject \in HandlersOf(Messages[subject].table, wire.data) /\ read.ok
               THEN /\ have' = [i \in DOMAIN Kinds |-> Adopted(Kinds[i], read.got[i], have[i])]
                    /\ want' = have'
               ELSE UNCHANGED <<have, want>>
    /\ fresh' = (fresh \/ ~wire.short)
    /\ UNCHANGED <<subject, dev, spent>>

\* A setter of the menu.
Edit(i) ==
    /\ wire = Quiet
    /\ subject \in DOMAIN Setters
    /\ spent.edits < MaxEdits
    /\ \E x \in Choices(Kinds[i], want[i]) \ {want[i]} : want' = [want EXCEPT ![i] = x]
    /\ spent' = [spent EXCEPT !.edits = @ + 1]
    /\ UNCHANGED <<subject, dev, have, wire, fresh>>

\* build_commit_steps.
Commit ==
    /\ wire = Quiet
    /\ want # have
    /\ wire' = [to |-> "headphones",
                data |-> Setters[subject]
                         \o Write(Kinds, [i \in DOMAIN Kinds |-> Written(Kinds[i], want[i])])]
    /\ UNCHANGED <<subject, dev, have, want, fresh, spent>>

\* The headphones take a write and acknowledge it, which commits the
\* properties.  They keep the bands they are not told.
TakeWrite ==
    /\ wire.to = "headphones"
    /\ wire' = Quiet
    /\ LET got == Read(Kinds, wire.data).got
       IN  dev' = [i \in DOMAIN Kinds |-> IF Kinds[i] = "bands" THEN dev[i] ELSE got[i]]
    /\ have' = want
    /\ UNCHANGED <<subject, want, fresh, spent>>

\* A key, a switch: nothing the engine keeps.
Ask ==
    /\ wire = Quiet
    /\ \E shot \in OneShots(Listed(subject, have)) :
          wire' = [to |-> "device", data |-> shot.cmd \o Write(shot.kinds, shot.values), shot |-> shot]
    /\ UNCHANGED <<subject, dev, have, want, fresh, spent>>

Asked ==
    /\ wire.to = "device"
    /\ wire' = Quiet
    /\ UNCHANGED <<subject, dev, have, want, fresh, spent>>

Next ==
    \/ \E i \in DOMAIN Kinds : Change(i) \/ Edit(i)
    \/ Report \/ Receive \/ Commit \/ TakeWrite \/ Ask \/ Asked

Spec == Init /\ [][Next]_vars

---------------------------------------------------------------------------
(* Properties *)

\* A settings message in single values: the presets of a touch message count
\* one by one.
Pieces(values) ==
    Concat([i \in DOMAIN Kinds |->
        IF Kinds[i] = "presets" THEN [j \in DOMAIN values[i] |-> <<"Preset", values[i][j][1]>>]
        ELSE <<<<Kinds[i], values[i]>>>>])

HasName(kind, byte) == kind \in DOMAIN Enums => byte \in Enums[kind]

\* Bytes the protocol gives a meaning to.
Meaningful(kind, byte) ==
    /\ kind \notin DOMAIN Fixed
    /\ HasName(kind, byte)
    /\ kind \in {"enable", "on"} => byte \in {0, 1}
    /\ kind = "level" => byte > 0

\* x says what the headphones mean by v.
Same(kind, x, v) ==
    CASE kind = "enable" -> x = (v = 0)
      [] kind = "on" -> x = (v = 1)
      [] kind = "signed" -> x \in -128 .. 127 /\ (x - v) % 256 = 0
      [] kind = "mac" -> MacBytes(x) = [i \in 1 .. 17 |-> IF v[i] = 0 THEN 32 ELSE v[i]]
      [] OTHER -> x = v

\* Entry by entry; the bands apart, as the engine shifts and splits them.
SameField(kind, x, v) ==
    CASE kind = "bands" ->
            LET shown == IF Len(v) = 6 THEN <<x.bass>> \o x.config ELSE x.config
            IN  /\ Len(shown) = Len(v)
                /\ \A i, j \in DOMAIN v : shown[i] - shown[j] = v[i][1] - v[j][1]
      [] kind \in DOMAIN Entry \ {"bands"} ->
            /\ Len(x) = Len(v)
            /\ \A i \in DOMAIN v : \A j \in DOMAIN Entry[kind] : Same(Entry[kind][j], x[i][j], v[i][j])
      [] OTHER -> Same(kind, x, v)

\* After a complete report the app shows what the headphones mean, through the
\* bytes, the dispatch and the terms of the engine; and what has no name to the
\* app is never shown under the name of something else.
ShownAsMeant ==
    fresh /\ want = have =>
        \A i \in DOMAIN Kinds :
            /\ Meaningful(Kinds[i], dev[i]) /\ ~(Kinds[i] = "presets")
                  => SameField(Kinds[i], have[i], dev[i])
            /\ ~HasName(Kinds[i], dev[i]) => ~HasName(Kinds[i], have[i])

\* What TakeWrite does to a setting that the user has not touched (headphones
\* with a single key have another number of settings than the app).
Untouched(P(_, _, _)) ==
    wire.to = "headphones" /\ wire'.to = "nobody" /\ fresh =>
        LET edited == Pieces(want)
            known  == Pieces(have)
            before == Pieces(dev)
            after  == Pieces(dev')
        IN  Len(before) = Len(known) =>
                \A n \in DOMAIN before :
                    edited[n] = known[n] => P(before[n][1], before[n][2], after[n][2])

\* One write carries several settings: those the user has not touched come back
\* to the headphones as they left them, byte by byte.
SiblingsKept ==
    [][Untouched(LAMBDA kind, old, new : Meaningful(kind, old) => new = old)]_vars

\* ... and a setting the app has no name for does not come back as one that has.
UnknownStaysUnknown ==
    [][Untouched(LAMBDA kind, old, new : ~HasName(kind, old) => ~HasName(kind, new))]_vars

\* A report cut anywhere changes nothing: no prefix of a message is a message.
ShortIsIgnored ==
    [][wire.to = "engine" /\ wire'.to = "nobody" /\ wire.short => UNCHANGED <<have, want>>]_vars

\* A one-shot is about the device of the list that was clicked, whatever its
\* address was padded with.
ShotsAreMeant ==
    wire.to = "device" =>
        LET read == Read(wire.shot.kinds, wire.data) IN read.ok /\ read.got = wire.shot.values

=============================================================================
