------------------------------ MODULE Settings ------------------------------
(***************************************************************************)
(* The settings one by one: which of them the menu of src/src/app.rs       *)
(* offers, which the engine reads at the start, which of them a report     *)
(* overwrites, which a commit writes, in which group, and which its ACK    *)
(* confirms.  Four tables in four places, and they have to fit.            *)
(*                                                                         *)
(* The engine is reduced to what the tables need: a task is a queue of     *)
(* writes and queries, one under way at a time, nothing is lost and        *)
(* nothing times out (for that, see modules Engine and Session).  A value  *)
(* is 0 or 1, the volume and the ambient level are numbers.                *)
(***************************************************************************)
EXTENDS Integers, Sequences, FiniteSets

CONSTANTS
    Advertised,  \* the sets of functions the headphones may advertise
    Addresses,   \* the devices paired with the headphones (multipoint)
    None,        \* no request, no playback device
    Focuses,     \* bound: what is touched in one behaviour, sets of fields
                 \* and, for the devices paired, "multipoint"
    MaxEdits,    \* bound: commands the user gives
    MaxChanges   \* bound: values changed on the headphones themselves

ASSUME AddressAssumption == None \notin Addresses /\ IsFiniteSet(Addresses)
ASSUME BoundAssumption   == {MaxEdits, MaxChanges} \subseteq Nat

---------------------------------------------------------------------------
(* The tables *)

\* PropCommit::apply: the fields an ACK confirms, group by group.
Members ==
    [Shutdown |-> {"shutdown"},
     NcAsmGroup |-> {"enabled", "mode", "level", "focus", "auto", "sens"},
     NcAsmButton |-> {"button"}, PlayVolume |-> {"volume"},
     StcEnabled |-> {"stc"}, StcExt |-> {"stcSens", "stcTime"},
     BgmMode |-> {"bgm", "room"}, UpmixCinema |-> {"cinema"},
     EqPreset |-> {"preset"}, EqConfig |-> {"bands"}, Upscaling |-> {"dsee"},
     TouchFunctions |-> {"left", "right"}, HeadGesture |-> {"head"},
     AutoPowerOff |-> {"powerOff"}, AutoPause |-> {"autoPause"},
     VoiceGuidanceEnabled |-> {"voice"}, VoiceGuidanceVolume |-> {"voiceVol"},
     Gs1 |-> {"gs1"}, Gs2 |-> {"gs2"}, Gs3 |-> {"gs3"}, Gs4 |-> {"gs4"}]

Groups  == DOMAIN Members
Fields  == (UNION {Members[g] : g \in Groups}) \union {"eqOn"}
General == <<"gs1", "gs2", "gs3", "gs4">>

\* build_commit_steps visits the groups in this order; the multipoint request
\* comes after the volume.
WriteOrder ==
    <<"Shutdown", "NcAsmGroup", "NcAsmButton", "PlayVolume", "Multipoint",
      "StcEnabled", "StcExt", "BgmMode", "UpmixCinema", "EqPreset", "EqConfig",
      "Upscaling", "TouchFunctions", "HeadGesture", "AutoPowerOff", "AutoPause",
      "VoiceGuidanceEnabled", "VoiceGuidanceVolume", "Gs1", "Gs2", "Gs3", "Gs4">>

\* The function a group is written under; the others are written in any case.
Needs ==
    [Shutdown |-> "PowerOff", NcAsmButton |-> "ModeSelect",
     StcEnabled |-> "SmartTalk", StcExt |-> "SmartTalk",
     BgmMode |-> "Listening", UpmixCinema |-> "Listening",
     Upscaling |-> "Dsee", TouchFunctions |-> "Assignable",
     HeadGesture |-> "HeadGesture", AutoPause |-> "AutoPause",
     VoiceGuidanceVolume |-> "VoiceVolume",
     Gs1 |-> "gs1", Gs2 |-> "gs2", Gs3 |-> "gs3", Gs4 |-> "gs4"]

Writable(g, fns) == g \in DOMAIN Needs => Needs[g] \in fns

\* The three variants of the NC/ASM parameter and the fields they carry ...
VariantFields ==
    [DualNc |-> {"enabled", "mode", "level", "focus"},
     DualNcNa |-> {"enabled", "mode", "level", "focus", "auto", "sens"},
     AsmSeamless |-> {"enabled", "level", "focus"}, NoVariant |-> {}]

\* ... the one NcAsmQuery reads ...
QueriedVariant(fns) ==
    CASE "DualNc" \in fns -> "DualNc"
      [] "DualNc" \notin fns /\ "DualNcNa" \in fns -> "DualNcNa"
      [] fns \intersect {"DualNc", "DualNcNa"} = {} /\ "AsmSeamless" \in fns -> "AsmSeamless"
      [] OTHER -> "NoVariant"

\* ... and the one build_commit_steps writes.
SeamlessFirst(fns) ==  \* mutant: the variant without a mode goes first
    CASE "AsmSeamless" \in fns -> "AsmSeamless"
      [] "AsmSeamless" \notin fns /\ "DualNcNa" \in fns -> "AsmSeamless"
      [] OTHER -> "DualNc"

WrittenVariant(fns) ==
    CASE "DualNcNa" \in fns -> "DualNcNa"
      [] "DualNcNa" \notin fns /\ "AsmSeamless" \in fns -> "AsmSeamless"
      [] OTHER -> "DualNc"

\* What a write carries: less than its ACK confirms, for NC/ASM.
Carried(g, fns) ==
    IF g = "NcAsmGroup" THEN VariantFields[WrittenVariant(fns)] ELSE Members[g]

\* The fields one report carries together.
ReportOf(f, fns) ==
    CASE f \in Members.NcAsmGroup -> VariantFields[QueriedVariant(fns)]
      [] f \in Members.StcExt -> Members.StcExt
      [] f \in Members.BgmMode -> Members.BgmMode
      [] f \in Members.TouchFunctions -> Members.TouchFunctions
      [] f \in {"preset", "bands"} -> {"preset", "bands"}
      [] OTHER -> {f}

ExtUnread ==  \* mutant: the second query of Speak-to-Chat is missing
    DOMAIN Needs \ {"Shutdown", "VoiceGuidanceVolume", "StcExt"}

\* build_init_steps: what is read at the start, under the function it is
\* written under ...
QueriedGroups == DOMAIN Needs \ {"Shutdown", "VoiceGuidanceVolume"}

\* ... and otherwise.
ReadAtInit(fns) ==
    {"volume", "preset", "bands", "eqOn", "autoPause"}
    \union VariantFields[QueriedVariant(fns)]
    \union (UNION {Members[g] : g \in {h \in QueriedGroups : Needs[h] \in fns}})
    \union (IF fns \intersect {"AutoOff", "AutoOffWearing"} # {} THEN {"powerOff"} ELSE {})
    \union (IF "Table2" \in fns THEN {"voice", "voiceVol"} ELSE {})

---------------------------------------------------------------------------
(* The menu *)

AmbientSupported(fns) ==
    fns \intersect {"NcOnOff", "AsmSeamless", "DualNc", "DualNcNa"} # {}

\* The general settings are offered by position: there are as many items as
\* there were capabilities, and item i sets value i.
Capabilities(fns) == {i \in DOMAIN General : General[i] \in fns}
OfferedGeneral(fns) == {General[i] : i \in 1 .. Cardinality(Capabilities(fns))}

When(condition, S) == IF condition THEN S ELSE {}

\* A function of a single field, and one function in front of another.
Only(f, v)     == [g \in {f} |-> v]
Over(new, old) ==
    [f \in DOMAIN new \union DOMAIN old |-> IF f \in DOMAIN new THEN new[f] ELSE old[f]]

\* build_ambient_menu, but for the mode.
OfferedAmbient(fns) ==
    When(AmbientSupported(fns), {"level", "focus"})
    \union When(AmbientSupported(fns) /\ "DualNcNa" \in fns, {"auto", "sens"})

\* build_stc_menu, build_eq_menu.
OfferedSound(fns, eqShown) ==
    When("SmartTalk" \in fns, {"stc", "stcSens", "stcTime"})
    \union When(eqShown, {"preset"})
    \union When("Dsee" \in fns, {"dsee"})

\* build_settings_menu, build_touch_menu.
OfferedSettings(fns) ==
    When("Listening" \in fns, {"bgm", "room", "cinema"})
    \union When(fns \intersect {"AutoOff", "AutoOffWearing"} # {}, {"powerOff"})
    \union When("AutoPause" \in fns, {"autoPause"})
    \union When("HeadGesture" \in fns, {"head"})
    \union When("Table2" \in fns, {"voice"})
    \union When({"Table2", "VoiceVolume"} \subseteq fns, {"voiceVol"})
    \union When("Assignable" \in fns, {"left", "right"})
    \union OfferedGeneral(fns)

MultipointSupported(fns) == fns \intersect {"Paired", "PairedClass"} # {}

---------------------------------------------------------------------------
(* The state *)

VARIABLES
    fns,      \* state.support
    props,    \* [Fields -> [desired, current]]
    request,  \* multipoint_request.desired, the current one is always None
    mp,       \* multipoint_devices and multipoint_playback, 0 for None
    task,     \* "none", "commit" or "sync"
    steps,    \* what the task has still to send
    waiting,  \* the step whose ACK is outstanding
    fromDev,  \* ACKs and reports on their way to the engine
    dev,      \* the headphones: values, connection slots, playback slot
    past,     \* history: edited since the last commit was built; fields whose
              \* edits and reports have crossed a write; values the owner set
              \* on the headphones; links changed since the list was answered
    spent     \* bounds: commands and changes so far, and the focus

vars == <<fns, props, request, mp, task, steps, waiting, fromDev, dev, past, spent>>
task_vars == <<task, steps, waiting>>

Unclamped(v, lo, hi) == v  \* mutant: the range is not enforced

Clamp(v, lo, hi) == IF v < lo THEN lo ELSE IF v > hi THEN hi ELSE v
Prop(v) == [desired |-> v, current |-> v]
Dirty(f) == props[f].desired # props[f].current
\* The bands follow the preset.
Following(S) == S \union When("preset" \in S, {"bands"})

AnyDirty == (\E f \in Fields : Dirty(f)) \/ request # None

\* Values a field takes: those of Properties::default, and those of headphones
\* set up differently; a level of 0 is reported while nothing lets sound in.
Default(f)  == CASE f \in {"volume", "level"} -> 12 [] f = "voice" -> 1 [] OTHER -> 0
Opposite(f) == CASE f = "volume" -> 30 [] f = "level" -> 20
                 [] f = "voice" -> 0 [] f = "voiceVol" -> 2
                 [] f = "shutdown" -> 0 [] OTHER -> 1
Samples(f)  == CASE f = "volume" -> {0, 30} [] f = "level" -> {1, 20}
                 [] f = "voiceVol" -> {-2, 2} [] OTHER -> {0, 1}

\* The fields the headphones have at all.
Existing(functions) ==
    {"volume", "preset", "bands", "eqOn"}
    \union (UNION {VariantFields[v] : v \in functions \intersect DOMAIN VariantFields})
    \union (UNION {Members[g] :
                   g \in {h \in DOMAIN Needs \ {"Shutdown"} : Needs[h] \in functions}})
    \union When(functions \intersect {"AutoOff", "AutoOffWearing"} # {}, {"powerOff"})
    \union When("Table2" \in functions, {"voice"})

\* overwrite, for the fields a report carries; a level of 0 is skipped, any
\* other is brought into its range (apply_nc_asm).
LevelTaken(p, values) ==  \* mutant: level > 0 is not asked
    [f \in Fields |-> IF f \in DOMAIN values THEN Prop(values[f]) ELSE p[f]]

Overwritten(p, values) ==
    [f \in Fields |->
        IF f \in DOMAIN values /\ (f = "level" => values[f] > 0)
        THEN Prop(IF f = "level" THEN Clamp(values[f], 1, 20) ELSE values[f])
        ELSE p[f]]

Connected(slot) == slot # 0

\* apply_multipoint_list: the playback device is found by its slot.
PlaybackIndexed(entries, source) == source  \* mutant: the byte indexes the list

PlaybackOf(entries, source) ==
    LET at == {i \in DOMAIN entries : entries[i].slot = source}
    IN  IF at = {} THEN 0 ELSE CHOOSE i \in at : \A j \in at : i <= j

Listed(entries, source) == [list |-> entries, playback |-> PlaybackOf(entries, source)]

\* The answer to the list query: every paired device with its slot, in an
\* order of the headphones.
Order == CHOOSE s \in [1 .. Cardinality(Addresses) -> Addresses] :
            \A i, j \in DOMAIN s : i # j => s[i] # s[j]
Entries(link) == [i \in DOMAIN Order |-> [address |-> Order[i], slot |-> link[Order[i]]]]

\* After the init handshake (modules Engine and Session): what is read at the
\* start is known, the rest has the defaults of the app.
Start(functions, value, link, source, focus) ==
    /\ fns = functions
    /\ dev = [value |-> value, link |-> link, source |-> source]
    /\ props = Overwritten([f \in Fields |-> Prop(Default(f))],
                           [f \in ReadAtInit(functions) |-> value[f]])
    /\ mp = IF MultipointSupported(functions) THEN Listed(Entries(link), source)
            ELSE [list |-> <<>>, playback |-> 0]
    /\ past = [edited |-> {}, astray |-> {}, relinked |-> FALSE,
               own |-> [f \in {g \in Existing(functions) : g = "level" => value[g] > 0} |-> value[f]]]
    /\ request = None
    /\ task = "none" /\ steps = <<>> /\ waiting = None /\ fromDev = <<>>
    /\ spent = [edits |-> 0, changes |-> 0, focus |-> focus]

Init ==
    \E functions \in Advertised, focus \in Focuses :
    \E value \in {[f \in Fields |-> Default(f)],
                  [f \in Fields |-> IF f = "level" /\ f \in focus THEN 0 ELSE Opposite(f)],
                  [f \in Fields |-> Opposite(f)]} :
    \E link \in [Addresses -> 0 .. 2] : \E a \in Addresses :
        /\ \A b, c \in Addresses : b # c /\ Connected(link[b]) => link[b] # link[c]
        /\ Connected(link[a])
        /\ "multipoint" \notin focus => \A b \in Addresses : link[b] = IF b = Order[1] THEN 2 ELSE 0
        /\ "multipoint" \in focus => MultipointSupported(functions)
        /\ Start(functions, value, link, link[a], focus)

---------------------------------------------------------------------------
(* Commands of the tray *)

\* The fields of writes the running task has not seen confirmed.
PendingWrites == {s \in ({waiting} \ {None}) \union {steps[i] : i \in DOMAIN steps} : s.kind = "write"}
Pending == UNION {Members[s.group] : s \in PendingWrites}

Command == spent.edits < MaxEdits /\ spent' = [spent EXCEPT !.edits = @ + 1]

\* Every setter stores the desired values; history notes the edit, and that it
\* meets a commit under way.
SetDesired(desired) ==
    /\ Command
    /\ props' = [f \in Fields |-> IF f \in DOMAIN desired
                                  THEN [props[f] EXCEPT !.desired = desired[f]] ELSE props[f]]
    /\ past' = [past EXCEPT
           !.edited = @ \union DOMAIN desired,
           !.astray = @ \union (DOMAIN desired \intersect Pending),
           !.own = [f \in DOMAIN @ \ Following(DOMAIN desired) |-> @[f]]]
    /\ UNCHANGED <<fns, request, mp, task_vars, fromDev, dev>>

EqShown == props["eqOn"].current = 1 \/ props["preset"].current # 0

\* SetAmbientLevel, SetVoicePassthrough, SetAutoAsm, ..., SetGeneralSetting:
\* the menu may be an old one, and any of the values may be clicked.
SetField(f, v) ==
    /\ f \in OfferedAmbient(fns) \union OfferedSound(fns, EqShown) \union OfferedSettings(fns)
    /\ v # props[f].desired
    /\ SetDesired(Only(f, v))

\* Shutdown.
PowerDown == "PowerOff" \in fns /\ "shutdown" \in spent.focus /\ SetDesired(Only("shutdown", 1))

\* VolumeUp, VolumeDown, AmbientUp, AmbientDown: nudge_volume, nudge_ambient_level.
Nudge(f, delta) ==
    /\ f = "level" => AmbientSupported(fns)
    /\ SetDesired(Only(f, IF f = "volume" THEN Clamp(props[f].desired + delta, 0, 30)
                                          ELSE Clamp(props[f].desired + delta, 1, 20)))

\* The level is raised when sound is let in and there is none.
Ambient(enabled, mode) ==
    [f \in {"enabled", "mode"}
           \union When(enabled = 1 /\ mode = 1 /\ props["level"].desired = 0, {"level"}) |->
        CASE f = "enabled" -> enabled [] f = "mode" -> mode [] OTHER -> 20]

\* SetAmbientMode: noise cancelling, ambient sound, off.
SetAmbientMode ==
    /\ AmbientSupported(fns)
    /\ "mode" \in spent.focus
    /\ \E choice \in {<<1, 0>>, <<1, 1>>, <<0, 0>>} : SetDesired(Ambient(choice[1], choice[2]))

\* CycleAmbientMode, bound to the icon itself: from what is confirmed, not from
\* what is desired, to the next of NC, ambient sound, off.
CycleAmbientMode ==
    LET on   == props["enabled"].current = 1
        next == CASE on /\ props["mode"].current = 0 /\ AmbientSupported(fns) -> <<1, 1>>
                  [] on /\ (props["mode"].current # 0 \/ ~AmbientSupported(fns)) -> <<0, 0>>
                  [] OTHER -> <<1, 0>>
    IN  "mode" \in spent.focus /\ SetDesired(Ambient(next[1], next[2]))

\* MultipointSwitch and MultipointConnect, as the entries of the list offer.
MultipointCommand ==
    /\ "multipoint" \in spent.focus
    /\ Command
    /\ \E i \in DOMAIN mp.list :
          request' = [kind    |-> IF Connected(mp.list[i].slot) THEN "switch" ELSE "link",
                      address |-> mp.list[i].address]
    /\ UNCHANGED <<fns, props, mp, task_vars, fromDev, dev, past>>

---------------------------------------------------------------------------
(* Tasks *)

Query(what) == [kind |-> "query", what |-> what]
Write(g, p) == [kind |-> "write", group |-> g,
                values |-> [f \in Carried(g, fns) |-> p[f].desired]]

\* A request is sent without waiting for its effect; the list is asked again
\* only behind a connect.
RequestSteps ==
    CASE request = None -> <<>>
      [] request # None /\ request.kind = "switch" -> <<request>>
      [] OTHER -> <<request, Query("list")>>

\* The group is written if a field of it is dirty and its function advertised;
\* behind a preset the bands are read again.  Empty bands are not written.
IsWritten(g) ==
    /\ \E f \in Members[g] : Dirty(f)
    /\ Writable(g, fns)
    /\ g = "Shutdown" => props["shutdown"].desired = 1
    /\ g = "EqConfig" => props["bands"].desired # 0

StepsOf(g) ==
    IF g = "Multipoint" THEN RequestSteps
    ELSE IF ~IsWritten(g) THEN <<>>
    ELSE IF g \in {"EqPreset", "EqConfig"} THEN <<Write(g, props), Query("eq")>>
    ELSE <<Write(g, props)>>

RequestKept(pending) == pending  \* mutant: the request is not consumed

\* One-shot: building the commit consumes it.
RequestTaken(pending) == None

BuildCommitSteps ==
    LET built[i \in 0 .. Len(WriteOrder)] ==
            IF i = 0 THEN <<>> ELSE built[i - 1] \o StepsOf(WriteOrder[i])
    IN  built[Len(WriteOrder)]

\* A shutdown that cannot be sent is dropped, and so are bands of no curve.
Settled(p) ==
    [f \in Fields |->
        IF f = "shutdown" /\ Dirty(f) /\ ~IsWritten("Shutdown") THEN Prop(0)
        ELSE IF f = "bands" /\ Dirty(f) /\ ~IsWritten("EqConfig") THEN Prop(p[f].desired)
        ELSE p[f]]

BuildSyncSteps ==
    (IF "Battery" \in fns THEN <<Query("battery")>> ELSE <<>>)
    \o (IF "PairedClass" \in fns THEN <<Query("list")>> ELSE <<>>)
    \o (IF "Paired" \in fns THEN <<Query("list")>> ELSE <<>>)

\* request_commit; the payloads are made here and now.
BuildCommit ==
    /\ task' = "commit" /\ steps' = BuildCommitSteps
    /\ props' = Settled(props)
    /\ request' = RequestTaken(request)
    /\ past' = [past EXCEPT !.edited = {}]

\* tick: with the engine idle and something dirty, a commit.
StartCommit ==
    /\ task = "none" /\ AnyDirty
    /\ BuildCommit
    /\ UNCHANGED <<fns, mp, waiting, fromDev, dev, spent>>

\* Step::Done; the tick that sees it goes on to the next commit at once.
TaskDone ==
    /\ task # "none" /\ steps = <<>> /\ waiting = None
    /\ \/ AnyDirty /\ BuildCommit
       \/ ~AnyDirty /\ task' = "none" /\ UNCHANGED <<props, request, steps, past>>
    /\ UNCHANGED <<fns, mp, waiting, fromDev, dev, spent>>

\* The periodic sync has what the commits leave of the engine's time.
StartSync ==
    /\ task = "none"
    /\ task' = "sync" /\ steps' = BuildSyncSteps
    /\ UNCHANGED <<fns, props, request, mp, waiting, fromDev, dev, past>>

PeriodicSync == StartSync /\ ~AnyDirty /\ UNCHANGED spent

\* The Refresh item, clicked before the tick that would have committed; on a
\* clean engine it is no other than the periodic sync.
RefreshSync == StartSync /\ AnyDirty /\ Command

---------------------------------------------------------------------------
(* The headphones, external: they carry a command out, then acknowledge it,  *)
(* then answer.                                                              *)

Ack == [kind |-> "ack"]
Report(f, value) ==
    [kind |-> "param", values |-> [g \in ReportOf(f, fns) |-> value[g]]]
ListAnswer(d) == [kind |-> "list", entries |-> Entries(d.link), source |-> d.source]

\* The bands follow the preset; firmware may refuse a preset and turn the
\* equalizer off, which it only shows when asked (eq_presets).
Stored(s) ==
    IF s.group # "EqPreset" THEN {Over(s.values, dev.value)}
    ELSE {[dev.value EXCEPT !["preset"] = v, !["bands"] = v] : v \in {s.values["preset"], 0}}

FreeSlots == {1, 2} \ {dev.link[a] : a \in Addresses}

\* What the headphones become and what they answer besides the ACK.
Executed(s) ==
    CASE s.kind = "write" ->
            {[d |-> [dev EXCEPT !.value = v], answer |-> <<>>] : v \in Stored(s)}
      [] s.kind = "query" /\ s.what = "battery" -> {[d |-> dev, answer |-> <<>>]}
      [] s.kind = "query" /\ s.what = "eq" ->
            {[d |-> dev, answer |-> <<Report("preset", dev.value)>>]}
      [] s.kind = "query" /\ s.what = "list" -> {[d |-> dev, answer |-> <<ListAnswer(dev)>>]}
      [] s.kind = "switch" ->
            IF Connected(dev.link[s.address])
            THEN {[d |-> [dev EXCEPT !.source = dev.link[s.address]],
                   answer |-> <<[kind |-> "switched", address |-> s.address]>>]}
            ELSE {[d |-> dev, answer |-> <<>>]}
      [] s.kind = "link" ->
            IF Connected(dev.link[s.address]) \/ FreeSlots = {}
            THEN {[d |-> dev, answer |-> <<>>]}
            ELSE {[d |-> [dev EXCEPT !.link[s.address] = slot], answer |-> <<>>] : slot \in FreeSlots}

InFlight == UNION {DOMAIN fromDev[i].values : i \in {j \in DOMAIN fromDev : fromDev[j].kind = "param"}}

\* A query of the list answers for every link up to then.
Seen(s, relinked) ==
    CASE s.kind = "link" -> TRUE
      [] s = Query("list") -> FALSE
      [] OTHER -> relinked

SendStep ==
    /\ waiting = None /\ steps # <<>>
    /\ waiting' = Head(steps) /\ steps' = Tail(steps)
    /\ \E x \in Executed(Head(steps)) :
          dev' = x.d /\ fromDev' = (fromDev \o <<Ack>>) \o x.answer
    /\ past' = [past EXCEPT
           !.relinked = Seen(Head(steps), @),
           !.astray = IF Head(steps).kind = "write"
                      THEN @ \union Following(DOMAIN Head(steps).values \intersect InFlight) ELSE @]
    /\ UNCHANGED <<fns, props, request, mp, task, spent>>

Change == spent.changes < MaxChanges /\ spent' = [spent EXCEPT !.changes = @ + 1]

\* The owner sets a value on the headphones or in another app.
DeviceChanges(f, v) ==
    /\ Change
    /\ f \in Existing(fns) /\ dev.value[f] # v
    /\ LET value == [dev.value EXCEPT ![f] = v, !["bands"] = IF f = "preset" THEN v ELSE @]
       IN  /\ dev' = [dev EXCEPT !.value = value]
           /\ fromDev' = Append(fromDev, Report(f, value))
           /\ past' = [past EXCEPT !.own = IF Dirty(f) THEN [g \in DOMAIN @ \ Following({f}) |-> @[g]]
                                           ELSE Over([g \in Following({f}) |-> v], @)]
    /\ UNCHANGED <<fns, props, request, mp, task_vars>>

\* Playback moves to another connected device.
DeviceSwitches(a) ==
    /\ "multipoint" \in spent.focus
    /\ Change
    /\ MultipointSupported(fns) /\ Connected(dev.link[a]) /\ dev.link[a] # dev.source
    /\ dev' = [dev EXCEPT !.source = dev.link[a]]
    /\ fromDev' = Append(fromDev, [kind |-> "switched", address |-> a])
    /\ UNCHANGED <<fns, props, request, mp, task_vars, past>>

\* Another device connects or leaves; the list is not sent unasked.
DeviceRelinks(a) ==
    /\ "multipoint" \in spent.focus
    /\ Change
    /\ MultipointSupported(fns) /\ dev.link[a] # dev.source
    /\ \E slot \in IF Connected(dev.link[a]) THEN {0} ELSE FreeSlots :
          dev' = [dev EXCEPT !.link[a] = slot]
    /\ past' = [past EXCEPT !.relinked = TRUE]
    /\ UNCHANGED <<fns, props, request, mp, task_vars, fromDev>>

---------------------------------------------------------------------------
(* What the engine makes of an answer *)

Incoming(kind) == fromDev # <<>> /\ Head(fromDev).kind = kind /\ fromDev' = Tail(fromDev)

\* handle_frame: what the ACKed step has set is now current, all of the group.
OnlyCarried(s) ==  \* mutant: the fields of the payload instead of the group
    [f \in Fields |-> IF f \in DOMAIN s.values THEN Prop(s.values[f]) ELSE props[f]]

Committed(s) ==
    [f \in Fields |-> IF f \in Members[s.group] THEN Prop(props[f].desired) ELSE props[f]]

ReceiveAck ==
    /\ Incoming("ack")
    /\ props' = IF waiting.kind = "write" THEN Committed(waiting) ELSE props
    /\ waiting' = None
    /\ UNCHANGED <<fns, request, mp, task, steps, dev, past, spent>>

ReceiveParam ==
    /\ Incoming("param")
    /\ props' = Overwritten(props, Head(fromDev).values)
    /\ past' = [past EXCEPT !.astray = @ \union
           Following(DOMAIN Head(fromDev).values \intersect
               UNION {DOMAIN steps[i].values :
                          i \in {j \in DOMAIN steps : steps[j].kind = "write"}})]
    /\ UNCHANGED <<fns, request, mp, task_vars, dev, spent>>

ReceiveList ==
    /\ Incoming("list")
    /\ mp' = Listed(Head(fromDev).entries, Head(fromDev).source)
    /\ UNCHANGED <<fns, props, request, task_vars, dev, past, spent>>

\* A switch is reported by address, and looked up in the list at hand.
ReceiveSwitched ==
    /\ Incoming("switched")
    /\ LET at == {i \in DOMAIN mp.list : mp.list[i].address = Head(fromDev).address}
       IN  mp' = [mp EXCEPT !.playback = IF at = {} THEN 0 ELSE CHOOSE i \in at : TRUE]
    /\ UNCHANGED <<fns, props, request, task_vars, dev, past, spent>>

Receive == ReceiveAck \/ ReceiveParam \/ ReceiveList \/ ReceiveSwitched

User ==
    /\ spent.edits < MaxEdits
    /\ \/ \E f \in Fields \intersect spent.focus : \E v \in Samples(f) : SetField(f, v)
       \/ PowerDown
       \/ \E f \in {"volume", "level"} \intersect spent.focus, delta \in {-1, 1} : Nudge(f, delta)
       \/ SetAmbientMode
       \/ CycleAmbientMode
       \/ MultipointCommand
       \/ RefreshSync

Owner ==
    \/ \E f \in Fields \intersect spent.focus : \E v \in Samples(f) : DeviceChanges(f, v)
    \/ \E a \in Addresses : DeviceSwitches(a) \/ DeviceRelinks(a)

Next == User \/ Owner \/ StartCommit \/ PeriodicSync \/ TaskDone \/ SendStep \/ Receive

Spec == Init /\ [][Next]_vars

\* The loop polls and ticks forever, and the headphones answer.
FairSpec ==
    /\ Spec
    /\ WF_vars(StartCommit) /\ WF_vars(PeriodicSync) /\ WF_vars(TaskDone)
    /\ WF_vars(SendStep) /\ WF_vars(Receive)

---------------------------------------------------------------------------
(* Properties *)

\* What a task sends: a write has the fields of its payload.
Functions(domains) == UNION {[S -> Int] : S \in domains}
WriteSteps ==
    [kind : {"write"}, group : Groups,
     values : Functions({Carried(g, functions) : g \in Groups, functions \in Advertised})]
Steps == WriteSteps \union [kind : {"query"}, what : {"battery", "list", "eq"}]
                    \union [kind : {"switch", "link"}, address : Addresses]

ASSUME StepAssumption == None \notin Steps

Values(f) == CASE f = "volume" -> 0 .. 30 [] f = "level" -> 0 .. 20
               [] f = "voiceVol" -> -2 .. 2 [] OTHER -> {0, 1}

\* The properties hold values of their types, a commit under way waits for a
\* step of its own, and there is an answer to wait for.
TypeOK ==
    /\ \A f \in Fields : props[f].desired \in Values(f) /\ props[f].current \in Values(f)
    /\ task \in {"none", "commit", "sync"}
    /\ task = "none" => steps = <<>> /\ waiting = None
    /\ waiting # None <=> \E i \in DOMAIN fromDev : fromDev[i] = Ack
    /\ mp.playback \in 0 .. Len(mp.list)

\* What the menu offers, is_dirty asks, build_commit_steps writes and the ACK
\* confirms fit together: a commit leaves nothing dirty but what was edited
\* since it was built.  (Otherwise is_dirty stays true, every tick commits.)
CommitSettles ==
    task = "commit" /\ steps = <<>> /\ waiting = None
        => {f \in Fields : Dirty(f)} \subseteq past.edited

\* With nothing under way, the menu shows what the headphones have, unless an
\* edit or a report has crossed a write of the field, or the headphones keep
\* their level to themselves.
ShownIsReal ==
    task = "none" /\ fromDev = <<>>
        => \A f \in ReadAtInit(fns) \ past.astray :
              \/ f \notin Existing(fns)
              \/ f = "level" /\ dev.value[f] = 0
              \/ props[f].current = dev.value[f]

\* A write of a group leaves the fields the user has not touched as their owner
\* has set them: whatever build_commit_steps puts into a payload must have been
\* read before.
NoCollateral == \A f \in DOMAIN past.own \ past.astray : dev.value[f] = past.own[f]

\* What is sent is in the ranges of the protocol (src/src/device/state.rs notes
\* [1, 20], [0, 30] and [-2, 2]), by whatever way the value has come in.
WireInRange ==
    \A s \in PendingWrites : \A f \in DOMAIN s.values :
        /\ f = "level" => s.values[f] \in 1 .. 20
        /\ f = "volume" => s.values[f] \in 0 .. 30
        /\ f = "voiceVol" => s.values[f] \in -2 .. 2

\* The device marked as playing in the multipoint menu is the one that plays,
\* whether it was found by the slot in a list or by the address in a report.
PlaybackIsReal ==
    MultipointSupported(fns) /\ fromDev = <<>> /\ ~past.relinked
        => /\ mp.playback # 0
           /\ dev.link[mp.list[mp.playback].address] = dev.source

\* Commits end, so that the batteries are asked for again and again.
BatteryRefreshed == "Battery" \in fns => []<>(waiting = Query("battery"))
=============================================================================
