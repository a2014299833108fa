--------------------------- MODULE SettingsProofs ----------------------------
(***************************************************************************)
(* What holds of the settings for any headphones and any devices paired:   *)
(* the types, the ranges of what is sent, that a commit leaves nothing     *)
(* dirty, that the device that plays is a real one, that at rest the menu  *)
(* shows what the headphones have, and that no write touches a value that  *)
(* nobody edited.                                                          *)
(***************************************************************************)
EXTENDS Settings, TLAPS, SequenceTheorems, FiniteSetTheorems, WellFoundedInduction

---------------------------------------------------------------------------
(* The inductive invariant *)

\* The values the app has of a field: a level of 0 is never adopted.
Kept(f) == IF f = "level" THEN 1 .. 20 ELSE Values(f)

Links   == [Addresses -> 0 .. 2]
Listing == Seq([address : Addresses, slot : 0 .. 2])

Answers ==
    {Ack}
    \union [kind : {"param"},
            values : Functions({ReportOf(f, functions) : f \in Fields, functions \in Advertised})]
    \union [kind : {"list"}, entries : Listing, source : 0 .. 2]
    \union [kind : {"switched"}, address : Addresses]

InKept(p) ==
    /\ p \in [Fields -> [desired : Int, current : Int]]
    /\ \A f \in Fields : p[f].desired \in Kept(f) /\ p[f].current \in Kept(f)
PropsTyped == InKept(props)

DevTyped ==
    /\ dev \in [value : [Fields -> Int], link : Links, source : 0 .. 2]
    /\ \A f \in Fields : dev.value[f] \in Values(f)

\* What the engine knows and what it is about to do ...
EngineTyped ==
    /\ fns \in Advertised
    /\ request = None \/ request \in [kind : {"switch", "link"}, address : Addresses]
    /\ mp \in [list : Listing, playback : Nat] /\ mp.playback \in 0 .. Len(mp.list)
    /\ task \in {"none", "commit", "sync"} /\ steps \in Seq(Steps)
    /\ waiting = None \/ waiting \in Steps
    /\ task = "none" => steps = <<>> /\ waiting = None
    /\ past \in [edited : SUBSET Fields, astray : SUBSET Fields, relinked : BOOLEAN,
                 own : {past.own}]

\* ... a write carries what its group carries, in range, ...
WriteTyped(s) ==
    s.kind = "write" => /\ DOMAIN s.values = Carried(s.group, fns)
                        /\ \A f \in DOMAIN s.values : s.values[f] \in Kept(f)
WritesTyped ==
    /\ waiting # None => WriteTyped(waiting)
    /\ \A i \in DOMAIN steps : WriteTyped(steps[i])

\* ... and a report is in the ranges of the headphones.
AnswerTyped(a) == a.kind = "param" => \A f \in DOMAIN a.values : a.values[f] \in Values(f)
AnswersTyped ==
    /\ fromDev \in Seq(Answers)
    /\ \A i \in DOMAIN fromDev : AnswerTyped(fromDev[i])

\* A step that was sent has its one ACK under way.
OneAck ==
    /\ waiting # None <=> \E i \in DOMAIN fromDev : fromDev[i] = Ack
    /\ \A i, j \in DOMAIN fromDev : fromDev[i] = Ack /\ fromDev[j] = Ack => i = j

TInv == PropsTyped /\ DevTyped /\ EngineTyped /\ WritesTyped /\ AnswersTyped /\ OneAck

\* A dirty field belongs to a group that is written: the menu offers nothing
\* else ...
Reachable(f) ==
    \E g \in Groups : /\ f \in Members[g] /\ Writable(g, fns) /\ g # "EqConfig"
                      /\ g = "Shutdown" => props["shutdown"].desired = 1

\* ... if the general settings it offers by their positions are the ones the
\* headphones have.
NoGap ==
    \A functions \in Advertised :
        OfferedGeneral(functions) \subseteq functions \intersect {"gs1", "gs2", "gs3", "gs4"}

\* What was dirty when a commit was built is clean or has its write ahead.
SettleInv ==
    /\ \A f \in Fields : Dirty(f) => Reachable(f)
    /\ task = "commit" => \A f \in Fields : Dirty(f) => f \in past.edited \union Pending

---------------------------------------------------------------------------
(* Lemmas on numbers and sequences *)

\* A set of naturals has a least element.
LEMMA LeastElement ==
    ASSUME NEW S \in SUBSET Nat, S # {}
    PROVE  \E k \in S : \A j \in S : k <= j
<1> DEFINE R == OpToRel(<, Nat)
<1>1. IsWellFoundedOn(R, Nat)
    BY NatLessThanWellFounded
<1>2. PICK k \in S : \A j \in S : ~(<<j, k>> \in R)
    <2> HIDE DEF R
    <2> QED BY <1>1, WFMin
<1>3. \A j \in S : j < k => <<j, k>> \in R
    BY DEF OpToRel
<1>4. \A j \in S : ~(j < k)
    BY <1>2, <1>3, Zenon
<1> HIDE DEF R
<1> QED BY <1>4, SMT

\* What holds of 0 and is handed on holds up to n.
LEMMA UpTo ==
    ASSUME NEW n \in Nat, NEW S, 0 \in S,
           \A i \in 1 .. n : i - 1 \in S => i \in S
    PROVE  \A i \in 0 .. n : i \in S
<1> DEFINE B == {i \in 0 .. n : i \notin S}
<1> SUFFICES ASSUME B # {} PROVE FALSE
    OBVIOUS
<1>1. B \in SUBSET Nat
    OBVIOUS
<1>2. PICK k \in B : \A j \in B : k <= j
    <2> HIDE DEF B
    <2> QED BY <1>1, LeastElement
<1>3. k \in 0 .. n /\ k \notin S /\ k # 0
    OBVIOUS
<1>4. k - 1 \in 0 .. n /\ k - 1 \notin B /\ k \in 1 .. n
    BY <1>2, <1>3
<1>5. k - 1 \in S
    BY <1>4
<1> QED BY <1>3, <1>4, <1>5

\* Concatenating the pieces of a list is well defined, what comes out is made
\* of what was in the pieces, and none of it is missing.
Joined(G, n, F) ==
    F = [i \in 0 .. n |-> IF i = 0 THEN <<>> ELSE F[i - 1] \o G[i]]

JoinedBy(G, n, F) ==
    /\ F = [i \in 0 .. n |-> F[i]]
    /\ F[0] = <<>> /\ \A i \in 1 .. n : F[i] = F[i - 1] \o G[i]

LEMMA JoinedSteps ==
    ASSUME NEW n \in Nat, NEW G, NEW F
    PROVE  Joined(G, n, F) <=> JoinedBy(G, n, F)
<1> DEFINE Next1(i) == F[i - 1] \o G[i]
           H == [i \in 0 .. n |-> IF i = 0 THEN <<>> ELSE Next1(i)]
<1>1. Joined(G, n, F) <=> F = H
    BY DEF Joined
<1>2. /\ H = [i \in 0 .. n |-> H[i]] /\ H[0] = <<>>
      /\ \A i \in 1 .. n : H[i] = Next1(i)
    <2> HIDE DEF Next1
    <2> QED OBVIOUS
<1>3. JoinedBy(G, n, F) <=>
          F = [i \in 0 .. n |-> F[i]] /\ F[0] = <<>> /\ \A i \in 1 .. n : F[i] = Next1(i)
    BY Zenon DEF JoinedBy
<1>4. ASSUME F = [i \in 0 .. n |-> F[i]], F[0] = <<>>, \A i \in 1 .. n : F[i] = Next1(i)
      PROVE  F = H
    <2> HIDE DEF H, Next1
    <2>1. \A i \in 0 .. n : i = 0 \/ i \in 1 .. n
        OBVIOUS
    <2>2. \A i \in 0 .. n : F[i] = H[i]
        BY <2>1, <1>2, <1>4, Zenon
    <2> QED BY <2>2, <1>2, <1>4
<1> HIDE DEF H, Next1
<1> QED BY <1>1, <1>2, <1>3, <1>4

LEMMA JoinedExists ==
    ASSUME NEW n \in Nat, NEW G
    PROVE  \E F : Joined(G, n, F)
<1> DEFINE S == {m \in Nat : \E F : Joined(G, m, F)}
<1>1. 0 \in S
    <2> DEFINE F == [i \in 0 .. 0 |-> <<>>]
    <2>1. F = [i \in 0 .. 0 |-> F[i]] /\ F[0] = <<>>
        OBVIOUS
    <2>2. Joined(G, 0, F)
        <3> HIDE DEF F
        <3>1. JoinedBy(G, 0, F)
            BY <2>1 DEF JoinedBy
        <3> QED BY <3>1, JoinedSteps
    <2> QED BY <2>2
<1>2. ASSUME NEW m \in 1 .. n, m - 1 \in S
      PROVE  m \in S
    <2>1. PICK F : Joined(G, m - 1, F)
        BY <1>2
    <2> DEFINE H == [i \in 0 .. m |-> IF i = m THEN F[m - 1] \o G[m] ELSE F[i]]
    <2>2. F[0] = <<>> /\ \A i \in 1 .. m - 1 : F[i] = F[i - 1] \o G[i]
        <3>1. m - 1 \in Nat
            OBVIOUS
        <3>2. JoinedBy(G, m - 1, F)
            BY <2>1, <3>1, JoinedSteps, Zenon
        <3> QED BY <3>2, Zenon DEF JoinedBy
    <2>3. \A i \in 0 .. m - 1 : H[i] = F[i]
        OBVIOUS
    <2>4. H[0] = <<>>
        BY <2>2, <2>3
    <2>5. H[m] = H[m - 1] \o G[m]
        BY <2>3
    <2>6. \A i \in 1 .. m : H[i] = H[i - 1] \o G[i]
        <3> TAKE i \in 1 .. m
        <3>1. CASE i = m
            BY <3>1, <2>5
        <3>2. CASE i # m
            <4>1. i \in 1 .. m - 1 /\ i - 1 \in 0 .. m - 1 /\ i \in 0 .. m - 1
                BY <3>2
            <4> HIDE DEF H
            <4> QED BY <4>1, <2>2, <2>3
        <3> QED BY <3>1, <3>2
    <2>7. Joined(G, m, H)
        <3>1. H = [i \in 0 .. m |-> H[i]]
            OBVIOUS
        <3> HIDE DEF H
        <3>2. JoinedBy(G, m, H)
            BY <3>1, <2>4, <2>6, Zenon DEF JoinedBy
        <3> QED BY <3>2, JoinedSteps
    <2> QED BY <2>7
<1> HIDE DEF S
<1>3. n \in S
    BY <1>1, <1>2, UpTo
<1> QED BY <1>3 DEF S

LEMMA JoinedElements ==
    ASSUME NEW T, NEW n \in Nat, NEW G, \A i \in 1 .. n : G[i] \in Seq(T),
           NEW F, Joined(G, n, F)
    PROVE  /\ F[n] \in Seq(T)
           /\ \A i \in 1 .. n : \A j \in DOMAIN G[i] :
                  \E k \in DOMAIN F[n] : F[n][k] = G[i][j]
<1>1. F[0] = <<>> /\ \A i \in 1 .. n : F[i] = F[i - 1] \o G[i]
    <2>1. JoinedBy(G, n, F)
        BY JoinedSteps, Zenon
    <2> QED BY <2>1, Zenon DEF JoinedBy
<1>2. \A i \in 0 .. n : F[i] \in Seq(T)
    <2> DEFINE S == {i \in 0 .. n : F[i] \in Seq(T)}
    <2>1. 0 \in S
        <3>1. <<>> \in Seq(T) /\ 0 \in 0 .. n
            OBVIOUS
        <3> QED BY <3>1, <1>1, Zenon
    <2>2. ASSUME NEW i \in 1 .. n, i - 1 \in S
          PROVE  i \in S
        <3>1. F[i - 1] \o G[i] \in Seq(T)
            BY <2>2
        <3>2. F[i] \in Seq(T)
            BY <3>1, <1>1, Zenon
        <3> QED BY <3>2
    <2> HIDE DEF S
    <2>3. \A i \in 0 .. n : i \in S
        BY <2>1, <2>2, UpTo
    <2> QED BY <2>3 DEF S
<1> DEFINE Has(m, i) == \A j \in DOMAIN G[i] : \E k \in DOMAIN F[m] : F[m][k] = G[i][j]
<1>3. ASSUME NEW m \in 1 .. n
      PROVE  /\ Has(m, m)
             /\ \A i \in 1 .. m - 1 : Has(m - 1, i) => Has(m, i)
    <2> DEFINE s == F[m - 1]  t == G[m]  u == F[m]
    <2>1. s \in Seq(T) /\ t \in Seq(T) /\ u \in Seq(T)
        BY <1>2, m - 1 \in 0 .. n, m \in 0 .. n, Zenon
    <2>2. u = s \o t
        BY <1>1, Zenon
    <2> HIDE DEF s, t, u
    <2>3. \A k \in DOMAIN s : k \in DOMAIN u /\ u[k] = s[k]
        BY <2>1, <2>2
    <2>4. \A j \in DOMAIN t : Len(s) + j \in DOMAIN u /\ u[Len(s) + j] = t[j]
        BY <2>1, <2>2
    <2>5. Has(m, m)
        BY <2>4 DEF t, u
    <2> QED BY <2>3, <2>5 DEF s, u
<1>4. \A m \in 0 .. n : \A i \in 1 .. m : Has(m, i)
    <2> DEFINE S == {m \in 0 .. n : \A i \in 1 .. m : Has(m, i)}
    <2> HIDE DEF Has
    <2>1. 0 \in S
        OBVIOUS
    <2>2. \A m \in 1 .. n : m - 1 \in S => m \in S
        BY <1>3
    <2> HIDE DEF S
    <2>3. \A m \in 0 .. n : m \in S
        BY <2>1, <2>2, UpTo
    <2> QED BY <2>3 DEF S
<1> QED BY <1>2, <1>4
---------------------------------------------------------------------------
(* The tables *)

\* The groups have their fields to themselves, and none of them eqOn.
LEMMA GroupFields ==
    /\ \A g \in Groups : Members[g] \subseteq Fields
    /\ \A g, h \in Groups : g # h => Members[g] \intersect Members[h] = {}
    /\ \A g \in Groups : "eqOn" \notin Members[g]
<1>1. \A g \in Groups : Members[g] \subseteq Fields
    BY Zenon DEF Fields
<1>2. \A g, h \in Groups : g # h => Members[g] \intersect Members[h] = {}
    BY DEF Groups, Members
<1>3. \A g \in Groups : "eqOn" \notin Members[g]
    BY DEF Groups, Members
<1> QED BY <1>1, <1>2, <1>3

\* The fields the model names one by one are fields.
LEMMA FieldNames ==
    {"shutdown", "enabled", "mode", "level", "focus", "auto", "sens", "button",
     "volume", "stc", "stcSens", "stcTime", "bgm", "room", "cinema", "preset",
     "bands", "dsee", "left", "right", "head", "powerOff", "autoPause", "voice",
     "voiceVol", "gs1", "gs2", "gs3", "gs4", "eqOn"} \subseteq Fields
<1>1. /\ "Shutdown" \in Groups /\ "NcAsmGroup" \in Groups /\ "NcAsmButton" \in Groups
      /\ "PlayVolume" \in Groups /\ "StcEnabled" \in Groups /\ "StcExt" \in Groups
      /\ "BgmMode" \in Groups /\ "UpmixCinema" \in Groups /\ "EqPreset" \in Groups
      /\ "EqConfig" \in Groups /\ "Upscaling" \in Groups /\ "TouchFunctions" \in Groups
      /\ "HeadGesture" \in Groups /\ "AutoPowerOff" \in Groups /\ "AutoPause" \in Groups
      /\ "VoiceGuidanceEnabled" \in Groups /\ "VoiceGuidanceVolume" \in Groups
      /\ "Gs1" \in Groups /\ "Gs2" \in Groups /\ "Gs3" \in Groups /\ "Gs4" \in Groups
    BY DEF Groups, Members
<1>2. /\ Members["Shutdown"] = {"shutdown"} /\ Members["NcAsmButton"] = {"button"}
      /\ Members["NcAsmGroup"] = {"enabled", "mode", "level", "focus", "auto", "sens"}
      /\ Members["PlayVolume"] = {"volume"} /\ Members["StcEnabled"] = {"stc"}
      /\ Members["StcExt"] = {"stcSens", "stcTime"} /\ Members["BgmMode"] = {"bgm", "room"}
      /\ Members["UpmixCinema"] = {"cinema"} /\ Members["EqPreset"] = {"preset"}
      /\ Members["EqConfig"] = {"bands"} /\ Members["Upscaling"] = {"dsee"}
      /\ Members["TouchFunctions"] = {"left", "right"} /\ Members["HeadGesture"] = {"head"}
      /\ Members["AutoPowerOff"] = {"powerOff"} /\ Members["AutoPause"] = {"autoPause"}
      /\ Members["VoiceGuidanceEnabled"] = {"voice"}
      /\ Members["VoiceGuidanceVolume"] = {"voiceVol"} /\ Members["Gs1"] = {"gs1"}
      /\ Members["Gs2"] = {"gs2"} /\ Members["Gs3"] = {"gs3"} /\ Members["Gs4"] = {"gs4"}
    BY DEF Members
<1>3. "eqOn" \in Fields
    BY Zenon DEF Fields
<1> QED BY <1>1, <1>2, <1>3, GroupFields

\* What a message carries are fields.
LEMMA CarriedFields ==
    ASSUME NEW functions
    PROVE  /\ \A g \in Groups : Carried(g, functions) \subseteq Fields
           /\ \A g \in Groups : Carried(g, functions) \subseteq Members[g]
           /\ \A f \in Fields : ReportOf(f, functions) \subseteq Fields
<1>1. /\ VariantFields[WrittenVariant(functions)] \subseteq Members["NcAsmGroup"]
      /\ VariantFields[QueriedVariant(functions)] \subseteq Members["NcAsmGroup"]
    BY DEF VariantFields, WrittenVariant, QueriedVariant, Members
<1>2. "NcAsmGroup" \in Groups
    BY DEF Groups, Members
<1>3. \A g \in Groups : Carried(g, functions) \subseteq Members[g]
    BY <1>1 DEF Carried
<1>4. \A f \in Fields : ReportOf(f, functions) \subseteq Fields
    BY <1>1, <1>2, GroupFields, FieldNames DEF ReportOf, Members
<1> QED BY <1>3, <1>4, GroupFields

\* The values the commands and the headphones give are in range.
LEMMA Ranges ==
    \A f \in Fields : /\ Kept(f) \subseteq Values(f) /\ Values(f) \subseteq Int
                      /\ Default(f) \in Kept(f) /\ Opposite(f) \in Kept(f)
                      /\ Samples(f) \subseteq Kept(f)
BY DEF Kept, Values, Default, Opposite, Samples

\* Overwriting and the setters stay in the ranges the app keeps.
LEMMA OverwrittenKept ==
    ASSUME NEW p, InKept(p), NEW values,
           \A f \in Fields \intersect DOMAIN values : values[f] \in Values(f)
    PROVE  InKept(Overwritten(p, values))
<1>1. ASSUME NEW f \in Fields, f \in DOMAIN values, f = "level" => values[f] > 0
      PROVE  (IF f = "level" THEN Clamp(values[f], 1, 20) ELSE values[f]) \in Kept(f)
    BY <1>1 DEF Clamp, Kept, Values
<1>2. \A f \in Fields : Kept(f) \subseteq Int
    BY Ranges
<1> QED BY <1>1, <1>2 DEF InKept, Overwritten, Prop
---------------------------------------------------------------------------
(* The steps of a commit *)

LEMMA InFunctions ==
    ASSUME NEW domains, NEW S \in domains, NEW v \in [S -> Int]
    PROVE  v \in Functions(domains)
<1> DEFINE sets == {[T -> Int] : T \in domains}
<1>1. [S -> Int] \in sets
    OBVIOUS
<1> HIDE DEF sets
<1>2. v \in UNION sets
    BY <1>1
<1> QED BY <1>2 DEF Functions, sets

\* One or two fine steps.
LEMMA ShortSeqs ==
    ASSUME NEW S, NEW a \in S, NEW b \in S
    PROVE  /\ <<>> \in Seq(S)
           /\ <<a>> \in Seq(S) /\ <<a>> # <<>> /\ <<a>>[1] = a
           /\ <<a, b>> \in Seq(S) /\ <<a, b>> # <<>> /\ <<a, b>>[1] = a
OBVIOUS

\* A step that may be sent.
Fine == {s \in Steps : WriteTyped(s)}

LEMMA WriteFine ==
    ASSUME PropsTyped, fns \in Advertised, NEW g \in Groups
    PROVE  Write(g, props) \in Fine /\ Write(g, props).kind = "write"
           /\ Write(g, props).group = g
<1> DEFINE v == [f \in Carried(g, fns) |-> props[f].desired]
<1>1. Carried(g, fns) \subseteq Fields
    BY CarriedFields
<1>2. \A f \in Carried(g, fns) : props[f].desired \in Kept(f) /\ props[f].desired \in Int
    BY <1>1 DEF PropsTyped, InKept
<1>3. v \in [Carried(g, fns) -> Int]
    BY <1>2
<1>4. v \in Functions({Carried(h, functions) : h \in Groups, functions \in Advertised})
    <2>1. Carried(g, fns) \in {Carried(h, functions) : h \in Groups, functions \in Advertised}
        OBVIOUS
    <2> HIDE DEF v
    <2> QED BY <1>3, <2>1, InFunctions
<1>5. DOMAIN v = Carried(g, fns) /\ \A f \in DOMAIN v : v[f] \in Kept(f)
    BY <1>2
<1>6. Write(g, props) = [kind |-> "write", group |-> g, values |-> v]
    BY DEF Write
<1> HIDE DEF v
<1>7. Write(g, props) \in WriteSteps
    BY <1>4, <1>6 DEF WriteSteps
<1>8. WriteTyped(Write(g, props))
    BY <1>5, <1>6 DEF WriteTyped
<1> QED BY <1>6, <1>7, <1>8 DEF Fine, Steps

\* A query or a request is fine as it is.
LEMMA OthersFine ==
    /\ \A what \in {"battery", "list", "eq"} : Query(what) \in Fine
    /\ \A r \in [kind : {"switch", "link"}, address : Addresses] : r \in Fine
    /\ \A s \in Fine : s.kind \in {"write", "query", "switch", "link"}
BY DEF Fine, Query, Steps, WriteSteps, WriteTyped

LEMMA StepsOfFine ==
    ASSUME PropsTyped, EngineTyped, NEW g \in Groups \union {"Multipoint"}
    PROVE  /\ StepsOf(g) \in Seq(Fine)
           /\ g \in Groups /\ IsWritten(g) => /\ StepsOf(g) # <<>>
                                              /\ StepsOf(g)[1] = Write(g, props)
<1>0. "Multipoint" \notin Groups /\ fns \in Advertised
    BY DEF Groups, Members, EngineTyped
<1>1. CASE g = "Multipoint"
    <2>1. CASE request = None
        <3>1. StepsOf(g) = <<>>
            BY <1>1, <2>1 DEF StepsOf, RequestSteps
        <3>2. StepsOf(g) \in Seq(Fine)
            BY <3>1, EmptySeq
        <3> QED BY <1>0, <1>1, <3>2
    <2>2. CASE request # None
        <3>1. request \in Fine /\ Query("list") \in Fine
            BY <2>2, OthersFine DEF EngineTyped
        <3>2. StepsOf(g) = <<request>> \/ StepsOf(g) = <<request, Query("list")>>
            BY <1>1, <2>2 DEF StepsOf, RequestSteps
        <3>3. <<request>> \in Seq(Fine) /\ <<request, Query("list")>> \in Seq(Fine)
            BY <3>1, ShortSeqs, Zenon
        <3>4. StepsOf(g) \in Seq(Fine)
            BY <3>2, <3>3, Zenon
        <3> QED BY <1>0, <1>1, <3>4
    <2> QED BY <2>1, <2>2
<1>2. CASE g \in Groups
    <2> DEFINE w == Write(g, props)  q == Query("eq")
    <2>1. w \in Fine /\ q \in Fine
        BY <1>0, <1>2, WriteFine, OthersFine
    <2>2. \/ StepsOf(g) = <<>> /\ ~IsWritten(g)
          \/ StepsOf(g) = <<w>>
          \/ StepsOf(g) = <<w, q>>
        BY <1>0, <1>2 DEF StepsOf
    <2> HIDE DEF w, q
    <2>3. /\ <<>> \in Seq(Fine)
          /\ <<w>> \in Seq(Fine) /\ <<w>> # <<>> /\ <<w>>[1] = w
          /\ <<w, q>> \in Seq(Fine) /\ <<w, q>> # <<>> /\ <<w, q>>[1] = w
        BY <2>1, ShortSeqs
    <2>4. StepsOf(g) \in Seq(Fine) /\ (IsWritten(g) => StepsOf(g) # <<>> /\ StepsOf(g)[1] = w)
        BY <2>2, <2>3, Zenon
    <2> QED BY <2>4 DEF w
<1> QED BY <1>1, <1>2

LEMMA OrderOfGroups ==
    /\ Len(WriteOrder) = 22
    /\ \A i \in 1 .. 22 : WriteOrder[i] \in Groups \union {"Multipoint"}
    /\ \A g \in Groups : \E i \in 1 .. 22 : WriteOrder[i] = g
<1>1. Len(WriteOrder) = 22
    BY DEF WriteOrder
<1>2. \A i \in 1 .. 22 : WriteOrder[i] \in Groups \union {"Multipoint"}
    BY DEF WriteOrder, Groups, Members
<1>3. \A g \in Groups : \E i \in 1 .. 22 : WriteOrder[i] = g
    BY DEF WriteOrder, Groups, Members
<1> QED BY <1>1, <1>2, <1>3

\* A commit is the steps of the groups, one behind the other.
Pieces == [i \in 1 .. Len(WriteOrder) |-> StepsOf(WriteOrder[i])]

LEMMA CommitJoined ==
    \E F : Joined(Pieces, Len(WriteOrder), F) /\ BuildCommitSteps = F[Len(WriteOrder)]
<1> DEFINE n == Len(WriteOrder)
           G == Pieces
           Rec(F) == F = [i \in 0 .. Len(WriteOrder) |->
                             IF i = 0 THEN <<>> ELSE F[i - 1] \o StepsOf(WriteOrder[i])]
           U == CHOOSE F : Rec(F)
<1>1. n = 22 /\ n \in Nat
    BY OrderOfGroups
<1>2. \A i \in 1 .. n : G[i] = StepsOf(WriteOrder[i])
    BY DEF Pieces
<1>3. ASSUME NEW F PROVE Joined(G, n, F) => Rec(F)
    <2> DEFINE L == [i \in 0 .. n |-> IF i = 0 THEN <<>> ELSE F[i - 1] \o G[i]]
               R == [i \in 0 .. n |-> IF i = 0 THEN <<>>
                                      ELSE F[i - 1] \o StepsOf(WriteOrder[i])]
    <2> HIDE DEF G
    <2>1. \A i \in 0 .. n : i = 0 \/ i \in 1 .. n
        BY <1>1
    <2>2. L = R
        BY <1>2, <2>1, Zenon
    <2> QED BY <2>2 DEF Joined
<1>4. \E F : Joined(G, n, F)
    <2> HIDE DEF G, n
    <2> QED BY <1>1, JoinedExists
<1>5. BuildCommitSteps = U[n]
    BY DEF BuildCommitSteps
<1>6. Rec(U)
    <2> HIDE DEF Rec, G
    <2> QED BY <1>3, <1>4
<1>7. ASSUME NEW F, Rec(F) PROVE Joined(G, n, F)
    <2> DEFINE L == [i \in 0 .. n |-> IF i = 0 THEN <<>> ELSE F[i - 1] \o G[i]]
               R == [i \in 0 .. n |-> IF i = 0 THEN <<>>
                                      ELSE F[i - 1] \o StepsOf(WriteOrder[i])]
    <2> HIDE DEF G
    <2>1. \A i \in 0 .. n : i = 0 \/ i \in 1 .. n
        BY <1>1
    <2>2. L = R
        BY <1>2, <2>1, Zenon
    <2>3. F = R
        BY <1>7
    <2> QED BY <2>2, <2>3 DEF Joined
<1>8. Joined(G, n, U)
    <2> HIDE DEF Rec, G, n, U
    <2> QED BY <1>6, <1>7
<1> QED BY <1>5, <1>8

\* A commit is made of fine steps, with a write of each group that is written.
LEMMA CommitFine ==
    ASSUME PropsTyped, EngineTyped
    PROVE  /\ BuildCommitSteps \in Seq(Fine)
           /\ \A g \in Groups : IsWritten(g) =>
                  \E k \in DOMAIN BuildCommitSteps : BuildCommitSteps[k] = Write(g, props)
<1> DEFINE n == Len(WriteOrder)
           G == Pieces
<1>1. n = 22 /\ n \in Nat
    BY OrderOfGroups
<1>2. \A i \in 1 .. n : G[i] = StepsOf(WriteOrder[i])
    BY DEF Pieces
<1>8. PICK U : Joined(G, n, U) /\ BuildCommitSteps = U[n]
    BY CommitJoined
<1>5. BuildCommitSteps = U[n]
    BY <1>8
<1>9. \A i \in 1 .. n : /\ G[i] \in Seq(Fine)
                        /\ WriteOrder[i] \in Groups /\ IsWritten(WriteOrder[i]) =>
                              1 \in DOMAIN G[i] /\ G[i][1] = Write(WriteOrder[i], props)
    <2> TAKE i \in 1 .. n
    <2> DEFINE g == WriteOrder[i]  t == StepsOf(g)
    <2>1. g \in Groups \union {"Multipoint"}
        BY <1>1, OrderOfGroups
    <2>2. t \in Seq(Fine) /\ (g \in Groups /\ IsWritten(g) => t # <<>> /\ t[1] = Write(g, props))
        <3> HIDE DEF g
        <3> QED BY <2>1, StepsOfFine
    <2> HIDE DEF t, Fine
    <2>3. t # <<>> => 1 \in DOMAIN t
        BY <2>2
    <2>4. G[i] = t
        BY <1>2 DEF t
    <2> HIDE DEF G, g
    <2> QED BY <2>2, <2>3, <2>4 DEF g
<1> HIDE DEF G
<1>10. /\ U[n] \in Seq(Fine)
       /\ \A i \in 1 .. n : \A j \in DOMAIN G[i] : \E k \in DOMAIN U[n] : U[n][k] = G[i][j]
    <2> HIDE DEF n
    <2>1. \A i \in 1 .. n : G[i] \in Seq(Fine)
        BY <1>9, Zenon
    <2>2. n \in Nat
        BY <1>1
    <2>3. U[n] \in Seq(Fine)
        BY <1>8, <2>1, <2>2, JoinedElements, Zenon
    <2>4. \A i \in 1 .. n : \A j \in DOMAIN G[i] : \E k \in DOMAIN U[n] : U[n][k] = G[i][j]
        BY <1>8, <2>1, <2>2, JoinedElements, SMTT(20)
    <2> QED BY <2>3, <2>4
<1>11. ASSUME NEW g \in Groups, IsWritten(g)
       PROVE  \E k \in DOMAIN U[n] : U[n][k] = Write(g, props)
    <2>1. PICK i \in 1 .. n : WriteOrder[i] = g
        BY <1>1, OrderOfGroups
    <2>2. 1 \in DOMAIN G[i] /\ G[i][1] = Write(g, props)
        BY <1>9, <1>11, <2>1
    <2> QED BY <1>10, <2>2
<1> QED BY <1>5, <1>10, <1>11
---------------------------------------------------------------------------
(* The devices *)

\* The list the headphones give has every device once.
LEMMA OrderIsBijection ==
    /\ Cardinality(Addresses) \in Nat
    /\ Order \in [1 .. Cardinality(Addresses) -> Addresses]
    /\ \A i, j \in DOMAIN Order : i # j => Order[i] # Order[j]
<1> DEFINE n == Cardinality(Addresses)
           Lists(s) == \A i, j \in DOMAIN s : i # j => s[i] # s[j]
<1>1. n \in Nat /\ ExistsBijection(1 .. n, Addresses)
    BY AddressAssumption, FS_CardinalityType
<1>2. \E s \in [1 .. n -> Addresses] : Lists(s)
    <2>1. PICK s \in Bijection(1 .. n, Addresses) : TRUE
        BY <1>1 DEF ExistsBijection
    <2>2. s \in [1 .. n -> Addresses] /\ \A i, j \in 1 .. n : s[i] = s[j] => i = j
        BY <2>1 DEF Bijection, Injection, IsInjective, Surjection
    <2> QED BY <2>2
<1>3. Order = CHOOSE s \in [1 .. n -> Addresses] : Lists(s)
    BY DEF Order
<1>4. Order \in [1 .. n -> Addresses] /\ Lists(Order)
    <2> HIDE DEF Lists, n
    <2> QED BY <1>2, <1>3
<1> QED BY <1>1, <1>4

LEMMA EntriesListed ==
    ASSUME NEW link \in Links
    PROVE  Entries(link) \in Listing
<1> DEFINE n == Cardinality(Addresses)
           A == [address : Addresses, slot : 0 .. 2]
<1>1. n \in Nat /\ DOMAIN Order = 1 .. n /\ \A i \in 1 .. n : Order[i] \in Addresses
    BY OrderIsBijection
<1>2. \A i \in 1 .. n : [address |-> Order[i], slot |-> link[Order[i]]] \in A
    BY <1>1 DEF Links
<1>3. Entries(link) \in [1 .. n -> A]
    <2> HIDE DEF A, n
    <2> QED BY <1>1, <1>2 DEF Entries
<1> HIDE DEF A, n
<1>4. Entries(link) \in Seq(A)
    BY <1>1, <1>3, SeqDef
<1> QED BY <1>4 DEF Listing, A

\* The playback device is a place of the list, or none.
LEMMA ListedTyped ==
    ASSUME NEW entries \in Listing, NEW source
    PROVE  /\ Listed(entries, source) \in [list : Listing, playback : Nat]
           /\ Listed(entries, source).playback \in 0 .. Len(entries)
           /\ Listed(entries, source).list = entries
<1> DEFINE at == {i \in DOMAIN entries : entries[i].slot = source}
<1>1. DOMAIN entries = 1 .. Len(entries) /\ Len(entries) \in Nat
    BY DEF Listing
<1>2. PlaybackOf(entries, source) =
          IF at = {} THEN 0 ELSE CHOOSE i \in at : \A j \in at : i <= j
    BY DEF PlaybackOf
<1>3. at \in SUBSET Nat /\ at \subseteq 1 .. Len(entries)
    BY <1>1
<1>4. PlaybackOf(entries, source) \in 0 .. Len(entries)
    <2>1. CASE at = {}
        BY <1>1, <1>2, <2>1
    <2>2. CASE at # {}
        <3> HIDE DEF at
        <3>1. \E i \in at : \A j \in at : i <= j
            BY <1>3, <2>2, LeastElement
        <3>2. PlaybackOf(entries, source) \in at
            BY <1>2, <2>2, <3>1
        <3>3. PlaybackOf(entries, source) \in 1 .. Len(entries)
            BY <1>3, <3>2, Zenon
        <3> QED BY <1>1, <3>3
    <2> QED BY <2>1, <2>2
<1> QED BY <1>1, <1>4 DEF Listed

---------------------------------------------------------------------------
(* The types are kept *)

LEMMA InitTyped == Init => TInv
<1> SUFFICES ASSUME Init PROVE TInv
    OBVIOUS
<1> DEFINE Setups(focus) ==
               {[f \in Fields |-> Default(f)],
                [f \in Fields |-> IF f = "level" /\ f \in focus THEN 0 ELSE Opposite(f)],
                [f \in Fields |-> Opposite(f)]}
<1>0. PICK functions \in Advertised, focus \in Focuses :
          \E value \in Setups(focus), link \in Links, a \in Addresses :
              Start(functions, value, link, link[a], focus)
    <2> HIDE DEF Setups
    <2> QED BY ZenonT(60) DEF Init, Links, Setups
<1>1. PICK value \in Setups(focus), link \in Links, a \in Addresses :
          Start(functions, value, link, link[a], focus)
    <2> HIDE DEF Setups
    <2> QED BY <1>0, Zenon
<1>2. /\ value \in [Fields -> Int] /\ \A f \in Fields : value[f] \in Values(f)
    <2>1. \A f \in Fields : /\ Default(f) \in Values(f) /\ Opposite(f) \in Values(f)
                            /\ f = "level" => 0 \in Values(f)
                            /\ Values(f) \subseteq Int
        BY Ranges DEF Values
    <2> QED BY <1>1, <2>1
<1>3. PropsTyped
    <2> DEFINE p == [f \in Fields |-> Prop(Default(f))]
               v == [f \in ReadAtInit(functions) |-> value[f]]
    <2>1. InKept(p)
        <3>1. \A f \in Fields : Default(f) \in Kept(f) /\ Default(f) \in Int
            BY Ranges
        <3> QED BY <3>1 DEF InKept, Prop
    <2>2. \A f \in Fields \intersect DOMAIN v : v[f] \in Values(f)
        BY <1>2
    <2>3. props = Overwritten(p, v)
        BY <1>1 DEF Start
    <2> HIDE DEF p, v
    <2> QED BY <2>1, <2>2, <2>3, OverwrittenKept DEF PropsTyped
<1>4. DevTyped
    <2>1. link[a] \in 0 .. 2
        BY <1>1 DEF Links
    <2>2. dev = [value |-> value, link |-> link, source |-> link[a]]
        BY <1>1 DEF Start
    <2> QED BY <1>1, <1>2, <2>1, <2>2 DEF DevTyped
<1>5. EngineTyped
    <2>1. mp \in [list : Listing, playback : Nat] /\ mp.playback \in 0 .. Len(mp.list)
        <3>1. CASE mp = Listed(Entries(link), link[a])
            BY <3>1, EntriesListed, ListedTyped, <1>1
        <3>2. CASE mp = [list |-> <<>>, playback |-> 0]
            <4>1. <<>> \in Listing /\ Len(<<>>) = 0
                BY DEF Listing
            <4> QED BY <3>2, <4>1
        <3> QED BY <1>1, <3>1, <3>2 DEF Start
    <2>2. past \in [edited : SUBSET Fields, astray : SUBSET Fields, relinked : BOOLEAN,
                   own : {past.own}]
        BY <1>1 DEF Start
    <2>3. /\ fns \in Advertised /\ request = None /\ task = "none" /\ steps = <<>>
          /\ waiting = None
        BY <1>1 DEF Start
    <2>4. <<>> \in Seq(Steps)
        OBVIOUS
    <2> QED BY <2>1, <2>2, <2>3, <2>4 DEF EngineTyped
<1>6. WritesTyped /\ AnswersTyped /\ OneAck
    <2>1. waiting = None /\ steps = <<>> /\ fromDev = <<>>
        BY <1>1 DEF Start
    <2> QED BY <2>1 DEF WritesTyped, AnswersTyped, OneAck
<1> QED BY <1>3, <1>4, <1>5, <1>6 DEF TInv

\* The history keeps its shape.
PastTyped(p) ==
    p \in [edited : SUBSET Fields, astray : SUBSET Fields, relinked : BOOLEAN, own : {p.own}]

LEMMA FollowingFields ==
    ASSUME NEW S \in SUBSET Fields
    PROVE  Following(S) \subseteq Fields
BY FieldNames DEF Following, When

\* A sync asks and writes nothing.
LEMMA SyncFine ==
    /\ BuildSyncSteps \in Seq(Fine)
    /\ \A i \in DOMAIN BuildSyncSteps : BuildSyncSteps[i].kind = "query"
<1> DEFINE Q == {Query("battery"), Query("list")}
<1>1. BuildSyncSteps \in Seq(Q)
    <2> DEFINE b == Query("battery")  l == Query("list")
               x == IF "Battery" \in fns THEN <<b>> ELSE <<>>
               y == IF "PairedClass" \in fns THEN <<l>> ELSE <<>>
               z == IF "Paired" \in fns THEN <<l>> ELSE <<>>
    <2>1. b \in Q /\ l \in Q
        OBVIOUS
    <2>2. BuildSyncSteps = x \o y \o z
        BY DEF BuildSyncSteps
    <2> HIDE DEF b, l, Q
    <2>3. x \in Seq(Q) /\ y \in Seq(Q) /\ z \in Seq(Q)
        BY <2>1
    <2> HIDE DEF x, y, z
    <2>4. x \o y \o z \in Seq(Q)
        BY <2>3
    <2> QED BY <2>2, <2>4
<1>2. Q \subseteq Fine /\ \A q \in Q : q.kind = "query"
    BY OthersFine DEF Query
<1> HIDE DEF Q
<1>3. BuildSyncSteps \in Seq(Fine)
    BY <1>1, <1>2, SeqMonotonic
<1> QED BY <1>1, <1>2, <1>3

\* Fine steps are typed as the steps of a task.
LEMMA FineSteps ==
    ASSUME NEW s \in Seq(Fine)
    PROVE  s \in Seq(Steps) /\ \A i \in DOMAIN s : WriteTyped(s[i])
<1>1. Fine \subseteq Steps /\ \A x \in Fine : WriteTyped(x)
    BY DEF Fine
<1> QED BY <1>1, SeqMonotonic

LEMMA SyncTyped ==
    ASSUME TInv, StartSync
    PROVE  TInv'
<1> USE DEF TInv
<1>1. /\ UNCHANGED <<fns, props, request, mp, waiting, fromDev, dev, past>>
      /\ task = "none" /\ task' = "sync" /\ steps' = BuildSyncSteps
    BY DEF StartSync
<1>2. BuildSyncSteps \in Seq(Steps) /\ \A i \in DOMAIN BuildSyncSteps : WriteTyped(BuildSyncSteps[i])
    BY SyncFine, FineSteps
<1>3. EngineTyped'
    BY <1>1, <1>2 DEF EngineTyped
<1>4. WritesTyped'
    BY <1>1, <1>2 DEF WritesTyped, WriteTyped
<1> QED BY <1>1, <1>3, <1>4 DEF PropsTyped, InKept, DevTyped, AnswersTyped, AnswerTyped, OneAck

\* A setter.
LEMMA SetDesiredTyped ==
    ASSUME TInv, NEW d, DOMAIN d \subseteq Fields, \A f \in DOMAIN d : d[f] \in Kept(f),
           SetDesired(d)
    PROVE  TInv'
<1> USE DEF TInv
<1>1. UNCHANGED <<fns, request, mp, task, steps, waiting, fromDev, dev>>
    BY DEF SetDesired, task_vars
<1>2. PropsTyped'
    <2>1. props' = [f \in Fields |-> IF f \in DOMAIN d THEN [props[f] EXCEPT !.desired = d[f]]
                                     ELSE props[f]]
        BY DEF SetDesired
    <2>2. \A f \in Fields : Kept(f) \subseteq Int
        BY Ranges
    <2> QED BY <2>1, <2>2 DEF PropsTyped, InKept
<1>3. PastTyped(past')
    BY DEF SetDesired, EngineTyped, PastTyped
<1>4. EngineTyped'
    BY <1>1, <1>3 DEF EngineTyped, PastTyped
<1>5. DevTyped' /\ WritesTyped' /\ AnswersTyped' /\ OneAck'
    BY <1>1 DEF DevTyped, WritesTyped, WriteTyped, AnswersTyped, AnswerTyped, OneAck
<1> QED BY <1>2, <1>4, <1>5

LEMMA UserTyped == TInv /\ User => TInv'
<1> SUFFICES ASSUME TInv, User PROVE TInv'
    OBVIOUS
<1> DEFINE Sets(d) == /\ DOMAIN d \subseteq Fields /\ \A f \in DOMAIN d : d[f] \in Kept(f)
                      /\ SetDesired(d)
<1>1. ASSUME NEW d, Sets(d) PROVE TInv'
    BY <1>1, SetDesiredTyped
<1>2. ASSUME NEW f \in Fields, NEW v \in Kept(f), SetDesired(Only(f, v)) PROVE TInv'
    <2>1. DOMAIN Only(f, v) = {f} /\ Only(f, v)[f] = v
        BY DEF Only
    <2>2. Sets(Only(f, v))
        BY <1>2, <2>1
    <2> HIDE DEF Sets
    <2> QED BY <1>1, <2>2
<1>3. ASSUME NEW e \in {0, 1}, NEW m \in {0, 1}, SetDesired(Ambient(e, m)) PROVE TInv'
    <2>1. /\ DOMAIN Ambient(e, m) \subseteq {"enabled", "mode", "level"}
          /\ \A f \in DOMAIN Ambient(e, m) :
                Ambient(e, m)[f] = CASE f = "enabled" -> e [] f = "mode" -> m [] OTHER -> 20
        BY DEF Ambient, When
    <2>2. Sets(Ambient(e, m))
        BY <1>3, <2>1, FieldNames DEF Kept, Values
    <2> HIDE DEF Sets
    <2> QED BY <1>1, <2>2
<1>4. ASSUME NEW f \in Fields, NEW v \in Samples(f), SetField(f, v) PROVE TInv'
    BY <1>2, <1>4, Ranges DEF SetField
<1>5. CASE PowerDown
    BY <1>2, <1>5, FieldNames DEF PowerDown, Kept, Values
<1>6. ASSUME NEW f \in {"volume", "level"}, NEW delta \in {-1, 1}, Nudge(f, delta) PROVE TInv'
    <2> DEFINE v == IF f = "volume" THEN Clamp(props[f].desired + delta, 0, 30)
                                    ELSE Clamp(props[f].desired + delta, 1, 20)
    <2>1. f \in Fields /\ props[f].desired \in Int
        BY FieldNames DEF TInv, PropsTyped, InKept
    <2>2. v \in Kept(f)
        BY <2>1 DEF Clamp, Kept, Values
    <2>3. SetDesired(Only(f, v))
        BY <1>6 DEF Nudge
    <2> HIDE DEF v
    <2> QED BY <1>2, <2>1, <2>2, <2>3
<1>7. CASE SetAmbientMode
    <2>1. PICK choice \in {<<1, 0>>, <<1, 1>>, <<0, 0>>} : SetDesired(Ambient(choice[1], choice[2]))
        BY <1>7 DEF SetAmbientMode
    <2>2. choice[1] \in {0, 1} /\ choice[2] \in {0, 1}
        OBVIOUS
    <2> QED BY <1>3, <2>1, <2>2
<1>8. CASE CycleAmbientMode
    <2>1. SetDesired(Ambient(1, 1)) \/ SetDesired(Ambient(0, 0)) \/ SetDesired(Ambient(1, 0))
        BY <1>8 DEF CycleAmbientMode
    <2> QED BY <1>3, <2>1
<1>9. CASE MultipointCommand
    <2>1. UNCHANGED <<fns, props, mp, task, steps, waiting, fromDev, dev, past>>
        BY <1>9 DEF MultipointCommand, task_vars
    <2>2. PICK i \in DOMAIN mp.list :
              request' = [kind |-> IF Connected(mp.list[i].slot) THEN "switch" ELSE "link",
                          address |-> mp.list[i].address]
        BY <1>9 DEF MultipointCommand
    <2>3. mp.list[i].address \in Addresses
        <3> DEFINE A == [address : Addresses, slot : 0 .. 2]  l == mp.list
        <3>1. l \in Seq(A)
            BY DEF TInv, EngineTyped, Listing
        <3>2. l[i] \in A
            <4> HIDE DEF A, l
            <4>1. i \in DOMAIN l
                BY DEF l
            <4> QED BY <3>1, <4>1
        <3> QED BY <3>2
    <2>4. request' \in [kind : {"switch", "link"}, address : Addresses]
        BY <2>2, <2>3
    <2> QED BY <2>1, <2>4 DEF TInv, PropsTyped, EngineTyped, DevTyped, WritesTyped, WriteTyped,
                              AnswersTyped, AnswerTyped, OneAck
<1>10. CASE RefreshSync
    BY <1>10, SyncTyped DEF RefreshSync
<1> QED BY <1>4, <1>5, <1>6, <1>7, <1>8, <1>9, <1>10 DEF User

\* A commit, from an idle engine or right behind the one before.
LEMMA SettledKept == PropsTyped => InKept(Settled(props))
<1>1. \A f \in Fields : Kept(f) \subseteq Int /\ 0 \in Kept("shutdown")
    BY Ranges DEF Kept, Values
<1> QED BY <1>1 DEF PropsTyped, InKept, Settled, Prop

LEMMA CommitTyped ==
    ASSUME TInv, BuildCommit, waiting = None, UNCHANGED <<fns, mp, waiting, fromDev, dev>>
    PROVE  TInv'
<1> USE DEF TInv
<1>1. /\ task' = "commit" /\ steps' = BuildCommitSteps /\ props' = Settled(props)
      /\ request' = None /\ past' = [past EXCEPT !.edited = {}]
    BY DEF BuildCommit, RequestTaken
<1>2. BuildCommitSteps \in Seq(Steps)
      /\ \A i \in DOMAIN BuildCommitSteps : WriteTyped(BuildCommitSteps[i])
    BY CommitFine, FineSteps
<1>3. PropsTyped'
    BY <1>1, SettledKept DEF PropsTyped, InKept
<1>4. EngineTyped'
    BY <1>1, <1>2 DEF EngineTyped
<1>5. WritesTyped'
    BY <1>1, <1>2 DEF WritesTyped, WriteTyped
<1> QED BY <1>3, <1>4, <1>5 DEF DevTyped, AnswersTyped, AnswerTyped, OneAck

LEMMA TasksTyped == TInv /\ (StartCommit \/ PeriodicSync \/ TaskDone) => TInv'
<1> SUFFICES ASSUME TInv, StartCommit \/ PeriodicSync \/ TaskDone PROVE TInv'
    OBVIOUS
<1>1. CASE StartCommit
    BY <1>1, CommitTyped DEF StartCommit, TInv, EngineTyped
<1>2. CASE PeriodicSync
    BY <1>2, SyncTyped DEF PeriodicSync
<1>3. CASE TaskDone
    <2>1. CASE BuildCommit
        BY <1>3, <2>1, CommitTyped DEF TaskDone
    <2>2. CASE task' = "none" /\ UNCHANGED <<props, request, steps, past>>
        BY <1>3, <2>2 DEF TaskDone, TInv, PropsTyped, InKept, EngineTyped, DevTyped, WritesTyped,
                          WriteTyped, AnswersTyped, AnswerTyped, OneAck
    <2> QED BY <1>3, <2>1, <2>2 DEF TaskDone
<1> QED BY <1>1, <1>2, <1>3

---------------------------------------------------------------------------
(* The queue of answers *)

\* One ACK behind what has none, and what follows it.
PutBehind(S, a, q, r, t) ==
    /\ t \in Seq(S) /\ \E i \in DOMAIN t : t[i] = a
    /\ \A i, j \in DOMAIN t : t[i] = a /\ t[j] = a => i = j
    /\ \A i \in DOMAIN t : \/ t[i] = a
                           \/ \E j \in DOMAIN q : t[i] = q[j]
                           \/ \E j \in DOMAIN r : t[i] = r[j]

LEMMA AckBehind ==
    ASSUME NEW S, NEW a \in S, NEW q \in Seq(S), NEW r \in Seq(S),
           \A i \in DOMAIN q : q[i] # a, \A i \in DOMAIN r : r[i] # a,
           NEW t, t = (q \o <<a>>) \o r
    PROVE  PutBehind(S, a, q, r, t)
<1> DEFINE n == Len(q)
<1>1. t \in Seq(S) /\ Len(t) = n + 1 + Len(r) /\ n \in Nat /\ Len(r) \in Nat
    OBVIOUS
<1>2. DOMAIN t = 1 .. n + 1 + Len(r) /\ DOMAIN q = 1 .. n /\ DOMAIN r = 1 .. Len(r)
    BY <1>1
<1>3. /\ \A i \in 1 .. n : t[i] = q[i]
      /\ t[n + 1] = a
      /\ \A i \in n + 2 .. n + 1 + Len(r) : t[i] = r[i - (n + 1)]
    OBVIOUS
<1>4. \A i \in n + 2 .. n + 1 + Len(r) : i - (n + 1) \in 1 .. Len(r)
    BY <1>1
<1>5. \A i \in 1 .. n + 1 + Len(r) :
          i \in 1 .. n \/ i = n + 1 \/ i \in n + 2 .. n + 1 + Len(r)
    BY <1>1
<1>6. n + 1 \in 1 .. n + 1 + Len(r)
    BY <1>1
<1> HIDE DEF n
<1>7. \A i \in DOMAIN t : \/ i = n + 1 /\ t[i] = a
                          \/ \E j \in DOMAIN q : t[i] = q[j]
                          \/ \E j \in DOMAIN r : t[i] = r[j]
    <2> TAKE i \in DOMAIN t
    <2>1. CASE i \in 1 .. n
        BY <1>2, <1>3, <2>1, Zenon
    <2>2. CASE i = n + 1
        BY <1>3, <2>2
    <2>3. CASE i \in n + 2 .. n + 1 + Len(r)
        BY <1>2, <1>3, <1>4, <2>3, Zenon
    <2> QED BY <1>2, <1>5, <2>1, <2>2, <2>3
<1>8. \A i \in DOMAIN t : t[i] = a => i = n + 1
    BY <1>7
<1> QED BY <1>1, <1>2, <1>3, <1>6, <1>7, <1>8 DEF PutBehind

\* A message behind the others that is no ACK.
LEMMA NoAckBehind ==
    ASSUME NEW S, NEW a, NEW q \in Seq(S), NEW m \in S, m # a,
           NEW t, t = Append(q, m)
    PROVE  /\ t \in Seq(S)
           /\ (\E i \in DOMAIN t : t[i] = a) <=> \E i \in DOMAIN q : q[i] = a
           /\ (\A i, j \in DOMAIN q : q[i] = a /\ q[j] = a => i = j)
                  => \A i, j \in DOMAIN t : t[i] = a /\ t[j] = a => i = j
           /\ \A i \in DOMAIN t : t[i] = m \/ \E j \in DOMAIN q : t[i] = q[j]
<1> DEFINE n == Len(q)
<1>1. t \in Seq(S) /\ Len(t) = n + 1 /\ n \in Nat /\ DOMAIN q = 1 .. n /\ DOMAIN t = 1 .. n + 1
    OBVIOUS
<1>2. t[n + 1] = m /\ \A i \in 1 .. n : t[i] = q[i]
    OBVIOUS
<1>3. \A i \in 1 .. n + 1 : i = n + 1 \/ i \in 1 .. n
    BY <1>1
<1>4. \A i \in 1 .. n : i \in 1 .. n + 1
    BY <1>1
<1> HIDE DEF n
<1> QED BY <1>1, <1>2, <1>3, <1>4

\* The first message is taken off.
TakenOff(S, a, q, t, h) ==
    /\ t \in Seq(S) /\ h \in S
    /\ \E i \in DOMAIN q : q[i] = h
    /\ \A i \in DOMAIN t : \E j \in DOMAIN q : t[i] = q[j]
    /\ \A i, j \in DOMAIN t : t[i] = a /\ t[j] = a => i = j
    /\ h = a => \A i \in DOMAIN t : t[i] # a
    /\ h # a => ((\E i \in DOMAIN t : t[i] = a) <=> \E i \in DOMAIN q : q[i] = a)

LEMMA HeadOff ==
    ASSUME NEW S, NEW a, NEW q \in Seq(S), q # <<>>, NEW t, t = Tail(q),
           \A i, j \in DOMAIN q : q[i] = a /\ q[j] = a => i = j
    PROVE  TakenOff(S, a, q, t, Head(q))
<1> DEFINE n == Len(q)
<1>1. /\ t \in Seq(S) /\ n \in Nat \ {0} /\ DOMAIN q = 1 .. n /\ DOMAIN t = 1 .. n - 1
      /\ Head(q) = q[1] /\ q[1] \in S
    OBVIOUS
<1>2. \A i \in 1 .. n - 1 : t[i] = q[i + 1]
    OBVIOUS
<1>3. /\ \A i \in 1 .. n - 1 : i + 1 \in 1 .. n /\ i + 1 # 1
      /\ \A i \in 1 .. n : i = 1 \/ (i - 1 \in 1 .. n - 1 /\ (i - 1) + 1 = i)
      /\ 1 \in 1 .. n
      /\ \A i, j \in 1 .. n - 1 : i + 1 = j + 1 => i = j
    BY <1>1
<1> DEFINE h == Head(q)
<1>4. h = q[1] /\ h \in S /\ t \in Seq(S)
    BY <1>1
<1>5. 1 \in DOMAIN q /\ DOMAIN q = 1 .. n /\ DOMAIN t = 1 .. n - 1
    BY <1>1
<1> HIDE DEF n, h
<1>6. \A i \in DOMAIN t : i + 1 \in DOMAIN q /\ t[i] = q[i + 1] /\ i + 1 # 1
    BY <1>2, <1>3, <1>5
<1>7. \A i, j \in DOMAIN t : t[i] = a /\ t[j] = a => i = j
    <2> SUFFICES ASSUME NEW i \in DOMAIN t, NEW j \in DOMAIN t, t[i] = a, t[j] = a
                 PROVE  i = j
        OBVIOUS
    <2>1. i + 1 = j + 1
        BY <1>6
    <2> QED BY <1>3, <1>5, <2>1
<1>8. h = a => \A i \in DOMAIN t : t[i] # a
    BY <1>4, <1>5, <1>6
<1>9. \A i \in DOMAIN q : q[i] = a /\ h # a => \E j \in DOMAIN t : t[j] = a
    <2> SUFFICES ASSUME NEW i \in DOMAIN q, q[i] = a, h # a
                 PROVE  \E j \in DOMAIN t : t[j] = a
        OBVIOUS
    <2>1. i # 1
        BY <1>4
    <2>2. i - 1 \in DOMAIN t /\ (i - 1) + 1 = i
        BY <1>3, <1>5, <2>1
    <2>3. t[i - 1] = q[i]
        BY <1>6, <2>2
    <2> QED BY <2>2, <2>3
<1>10. \E i \in DOMAIN q : q[i] = h
    BY <1>4, <1>5
<1>11. \A i \in DOMAIN t : \E j \in DOMAIN q : t[i] = q[j]
    BY <1>6
<1>12. TakenOff(S, a, q, t, h)
    BY <1>4, <1>7, <1>8, <1>9, <1>10, <1>11, Zenon DEF TakenOff
<1> QED BY <1>12 DEF h

\* A message of the headphones in front is one of the four, and not an ACK
\* unless it is said to be.
LEMMA AnswerKinds ==
    /\ Ack \in Answers /\ Ack.kind = "ack"
    /\ \A a \in Answers : /\ a.kind \in {"ack", "param", "list", "switched"}
                          /\ a.kind = "ack" <=> a = Ack
                          /\ a.kind = "list" => a.entries \in Listing /\ a.source \in 0 .. 2
                          /\ a.kind = "switched" => a.address \in Addresses
BY DEF Answers, Ack

\* A report carries fields.
LEMMA ReportFields ==
    \A a \in Answers : a.kind = "param" => DOMAIN a.values \subseteq Fields
<1> DEFINE domains == {ReportOf(f, functions) : f \in Fields, functions \in Advertised}
<1>1. \A S \in domains : S \subseteq Fields
    BY CarriedFields
<1>2. \A v \in Functions(domains) : DOMAIN v \subseteq Fields
    <2> HIDE DEF domains
    <2> QED BY <1>1 DEF Functions
<1> QED BY <1>2 DEF Answers, Ack

---------------------------------------------------------------------------
(* The engine receives *)

LEMMA ReceiveTyped == TInv /\ Receive => TInv'
<1> SUFFICES ASSUME TInv, Receive PROVE TInv'
    OBVIOUS
<1> DEFINE m == Head(fromDev)
<1>1. fromDev # <<>> /\ fromDev' = Tail(fromDev) /\ UNCHANGED <<fns, request, task, steps, dev>>
    BY DEF Receive, ReceiveAck, ReceiveParam, ReceiveList, ReceiveSwitched, Incoming, task_vars
<1>2. /\ fromDev \in Seq(Answers)
      /\ \A i, j \in DOMAIN fromDev : fromDev[i] = Ack /\ fromDev[j] = Ack => i = j
    BY DEF TInv, AnswersTyped, OneAck
<1>3. /\ fromDev' \in Seq(Answers) /\ m \in Answers
      /\ \E i \in DOMAIN fromDev : fromDev[i] = m
      /\ \A i \in DOMAIN fromDev' : \E j \in DOMAIN fromDev : fromDev'[i] = fromDev[j]
      /\ \A i, j \in DOMAIN fromDev' : fromDev'[i] = Ack /\ fromDev'[j] = Ack => i = j
      /\ m = Ack => \A i \in DOMAIN fromDev' : fromDev'[i] # Ack
      /\ m # Ack => ((\E i \in DOMAIN fromDev' : fromDev'[i] = Ack)
                        <=> \E i \in DOMAIN fromDev : fromDev[i] = Ack)
    <2>1. TakenOff(Answers, Ack, fromDev, fromDev', m)
        BY <1>1, <1>2, HeadOff
    <2> HIDE DEF m
    <2> QED BY <2>1, Zenon DEF TakenOff
<1>4. AnswersTyped' /\ AnswerTyped(m)
    BY <1>1, <1>3 DEF TInv, AnswersTyped, AnswerTyped
<1>5. DevTyped'
    BY <1>1 DEF TInv, DevTyped
<1> HIDE DEF m
<1>6. CASE ReceiveAck
    <2>1. /\ m.kind = "ack" /\ waiting' = None /\ UNCHANGED <<mp, past>>
          /\ props' = IF waiting.kind = "write" THEN Committed(waiting) ELSE props
        BY <1>6 DEF ReceiveAck, Incoming, m
    <2>2. m = Ack
        BY <1>3, <2>1, AnswerKinds
    <2>3. InKept(Committed(waiting))
        BY DEF TInv, PropsTyped, InKept, Committed, Prop
    <2>4. PropsTyped'
        BY <2>1, <2>3 DEF TInv, PropsTyped, InKept
    <2>5. OneAck'
        BY <1>3, <2>1, <2>2 DEF OneAck
    <2>6. EngineTyped' /\ WritesTyped'
        BY <1>1, <2>1 DEF TInv, EngineTyped, WritesTyped, WriteTyped
    <2> QED BY <1>4, <1>5, <2>4, <2>5, <2>6 DEF TInv
<1>7. ASSUME m.kind # "ack", UNCHANGED waiting PROVE OneAck' /\ WritesTyped'
    <2>1. m # Ack
        BY <1>7, AnswerKinds
    <2> QED BY <1>1, <1>3, <1>7, <2>1 DEF TInv, OneAck, WritesTyped, WriteTyped
<1>8. CASE ReceiveParam
    <2>1. /\ m.kind = "param" /\ UNCHANGED <<mp, waiting>>
          /\ props' = Overwritten(props, m.values)
        BY <1>8 DEF ReceiveParam, Incoming, m, task_vars
    <2>2. PropsTyped'
        <3>1. InKept(Overwritten(props, m.values))
            BY <1>4, <2>1, OverwrittenKept DEF AnswerTyped, TInv, PropsTyped
        <3> QED BY <2>1, <3>1 DEF PropsTyped, InKept
    <2>3. PastTyped(past')
        <3> DEFINE more == Following(DOMAIN m.values \intersect
                   UNION {DOMAIN steps[i].values : i \in {j \in DOMAIN steps : steps[j].kind = "write"}})
        <3>1. past' = [past EXCEPT !.astray = @ \union more]
            BY <1>8 DEF ReceiveParam, m
        <3>2. more \subseteq Fields
            <4>1. DOMAIN m.values \subseteq Fields
                BY <1>3, <2>1, ReportFields
            <4> QED BY <4>1, FollowingFields
        <3> HIDE DEF more
        <3> QED BY <3>1, <3>2 DEF PastTyped, TInv, EngineTyped
    <2>4. EngineTyped'
        BY <1>1, <2>1, <2>3 DEF TInv, EngineTyped, PastTyped
    <2> QED BY <1>4, <1>5, <1>7, <2>1, <2>2, <2>4 DEF TInv
<1>9. CASE ReceiveList
    <2>1. /\ m.kind = "list" /\ UNCHANGED <<props, waiting, past>>
          /\ mp' = Listed(m.entries, m.source)
        BY <1>9 DEF ReceiveList, Incoming, m, task_vars
    <2>2. mp' \in [list : Listing, playback : Nat] /\ mp'.playback \in 0 .. Len(mp'.list)
        BY <1>3, <2>1, AnswerKinds, ListedTyped
    <2>3. EngineTyped'
        BY <1>1, <2>1, <2>2 DEF TInv, EngineTyped
    <2> QED BY <1>4, <1>5, <1>7, <2>1, <2>3 DEF TInv, PropsTyped, InKept
<1>10. CASE ReceiveSwitched
    <2> DEFINE at == {i \in DOMAIN mp.list : mp.list[i].address = m.address}
               p  == IF at = {} THEN 0 ELSE CHOOSE i \in at : TRUE
    <2>1. /\ m.kind = "switched" /\ UNCHANGED <<props, waiting, past>>
          /\ mp' = [mp EXCEPT !.playback = p]
        BY <1>10 DEF ReceiveSwitched, Incoming, m, task_vars
    <2>2. DOMAIN mp.list = 1 .. Len(mp.list) /\ Len(mp.list) \in Nat
        BY DEF TInv, EngineTyped, Listing
    <2>3. p \in 0 .. Len(mp.list)
        <3>1. at \subseteq 1 .. Len(mp.list)
            BY <2>2
        <3>2. CASE at = {}
            BY <2>2, <3>2
        <3>3. CASE at # {}
            <4>1. p \in at
                <5> HIDE DEF at
                <5> QED BY <3>3
            <4>2. p \in 1 .. Len(mp.list)
                <5> HIDE DEF p, at
                <5> QED BY <3>1, <4>1, Zenon
            <4> HIDE DEF p
            <4> QED BY <2>2, <4>2
        <3> QED BY <3>2, <3>3
    <2> HIDE DEF p
    <2>4. EngineTyped'
        BY <1>1, <2>1, <2>2, <2>3, SMTT(30) DEF TInv, EngineTyped
    <2> QED BY <1>4, <1>5, <1>7, <2>1, <2>4 DEF TInv, PropsTyped, InKept
<1> QED BY <1>6, <1>8, <1>9, <1>10 DEF Receive

---------------------------------------------------------------------------
(* The headphones carry a step out *)

\* What the headphones may be, and what they may answer besides an ACK.
Fits(d) ==
    /\ d \in [value : [Fields -> Int], link : Links, source : 0 .. 2]
    /\ \A f \in Fields : d.value[f] \in Values(f)

Answer(a) == a \in Answers /\ a # Ack /\ AnswerTyped(a)

LEMMA StepKinds ==
    \A s \in Steps : /\ s.kind \in {"write", "query", "switch", "link"}
                     /\ s.kind = "write" => s.group \in Groups
                     /\ s.kind = "query" => s.what \in {"battery", "list", "eq"}
                     /\ s.kind \in {"switch", "link"} => s.address \in Addresses
BY DEF Steps, WriteSteps

LEMMA ReportAnswers ==
    ASSUME fns \in Advertised, NEW f \in Fields,
           NEW value \in [Fields -> Int], \A g \in Fields : value[g] \in Values(g)
    PROVE  Answer(Report(f, value))
<1> DEFINE v == [g \in ReportOf(f, fns) |-> value[g]]
           domains == {ReportOf(g, functions) : g \in Fields, functions \in Advertised}
<1>1. ReportOf(f, fns) \subseteq Fields /\ ReportOf(f, fns) \in domains
    BY CarriedFields
<1>2. v \in [ReportOf(f, fns) -> Int] /\ \A g \in DOMAIN v : v[g] \in Values(g)
    BY <1>1
<1>3. v \in Functions(domains)
    <2> HIDE DEF v, domains
    <2> QED BY <1>1, <1>2, InFunctions
<1>4. Report(f, value) = [kind |-> "param", values |-> v]
    BY DEF Report
<1> HIDE DEF v
<1> QED BY <1>2, <1>3, <1>4 DEF Answer, Answers, Ack, AnswerTyped

LEMMA StoredFits ==
    ASSUME DevTyped, NEW s \in Steps, s.kind = "write", WriteTyped(s), NEW v \in Stored(s)
    PROVE  v \in [Fields -> Int] /\ \A f \in Fields : v[f] \in Values(f)
<1>1. /\ s.group \in Groups /\ DOMAIN s.values = Carried(s.group, fns)
      /\ \A f \in DOMAIN s.values : s.values[f] \in Kept(f)
    BY StepKinds DEF WriteTyped
<1>2. DOMAIN s.values \subseteq Fields
    BY <1>1, CarriedFields
<1>3. /\ dev.value \in [Fields -> Int] /\ \A f \in Fields : dev.value[f] \in Values(f)
    BY DEF DevTyped
<1>4. CASE s.group = "EqPreset"
    <2>1. Carried(s.group, fns) = {"preset"}
        BY <1>4 DEF Carried, Members
    <2>2. s.values["preset"] \in {0, 1}
        BY <1>1, <2>1 DEF Kept, Values
    <2>3. PICK w \in {0, 1} : v = [dev.value EXCEPT !["preset"] = w, !["bands"] = w]
        BY <1>4, <2>2 DEF Stored
    <2>4. /\ v = [f \in Fields |-> v[f]]
          /\ \A f \in Fields : v[f] = IF f \in {"preset", "bands"} THEN w ELSE dev.value[f]
        BY <1>3, <2>3
    <2>5. \A f \in Fields : v[f] \in Values(f) /\ v[f] \in Int
        BY <1>3, <2>4 DEF Values
    <2> QED BY <2>4, <2>5
<1>5. CASE s.group # "EqPreset"
    <2>1. v = Over(s.values, dev.value)
        BY <1>5 DEF Stored
    <2>2. \A f \in Fields : Kept(f) \subseteq Values(f) /\ Values(f) \subseteq Int
        BY Ranges
    <2>3. DOMAIN s.values \union DOMAIN dev.value = Fields
        BY <1>2, <1>3
    <2>4. v = [f \in Fields |-> IF f \in DOMAIN s.values THEN s.values[f] ELSE dev.value[f]]
        BY <2>1, <2>3 DEF Over
    <2>5. \A f \in Fields : v[f] \in Values(f) /\ Values(f) \subseteq Int
        BY <1>1, <1>3, <2>2, <2>4
    <2>6. \A f \in Fields : v[f] \in Int
        BY <2>5
    <2> QED BY <2>4, <2>5, <2>6
<1> QED BY <1>4, <1>5

LEMMA ExecutedFits ==
    ASSUME DevTyped, fns \in Advertised, NEW s \in Steps, WriteTyped(s), NEW x \in Executed(s)
    PROVE  /\ Fits(x.d) /\ x.answer \in Seq(Answers)
           /\ \A i \in DOMAIN x.answer : Answer(x.answer[i])
<1>1. Fits(dev)
    BY DEF DevTyped, Fits
<1>2. <<>> \in Seq(Answers) /\ DOMAIN <<>> = {}
    BY EmptySeq
<1> DEFINE Good == /\ Fits(x.d) /\ x.answer \in Seq(Answers)
                   /\ \A i \in DOMAIN x.answer : Answer(x.answer[i])
<1>0. ASSUME NEW d, Fits(d), x = [d |-> d, answer |-> <<>>] PROVE Good
    <2>1. x.d = d /\ x.answer = <<>>
        BY <1>0
    <2> QED BY <1>0, <1>2, <2>1
<1> SUFFICES Good
    OBVIOUS
<1> HIDE DEF Good
<1>3. ASSUME NEW a, Answer(a)
      PROVE  <<a>> \in Seq(Answers) /\ \A i \in DOMAIN <<a>> : Answer(<<a>>[i])
    <2>1. DOMAIN <<a>> = {1} /\ <<a>>[1] = a
        OBVIOUS
    <2>2. a \in Answers
        BY <1>3 DEF Answer
    <2>3. <<a>> \in Seq(Answers)
        BY <2>2
    <2> QED BY <1>3, <2>1, <2>3
<1>4. CASE s.kind = "write"
    <2>1. PICK v \in Stored(s) : x = [d |-> [dev EXCEPT !.value = v], answer |-> <<>>]
        BY <1>4 DEF Executed
    <2>2. Fits([dev EXCEPT !.value = v])
        BY <1>1, <1>4, StoredFits DEF Fits
    <2> QED BY <1>0, <2>1, <2>2
<1>5. CASE s.kind = "query"
    <2>1. \/ x = [d |-> dev, answer |-> <<>>]
          \/ x = [d |-> dev, answer |-> <<Report("preset", dev.value)>>]
          \/ x = [d |-> dev, answer |-> <<ListAnswer(dev)>>]
        BY <1>5, StepKinds DEF Executed
    <2>2. Answer(Report("preset", dev.value))
        BY FieldNames, ReportAnswers DEF DevTyped
    <2>3. Answer(ListAnswer(dev))
        <3>1. Entries(dev.link) \in Listing
            BY EntriesListed DEF DevTyped
        <3> QED BY <3>1 DEF DevTyped, ListAnswer, Answer, Answers, Ack, AnswerTyped
    <2> HIDE DEF Answer
    <2> DEFINE r == Report("preset", dev.value)  l == ListAnswer(dev)
    <2> HIDE DEF r, l
    <2>4. CASE x = [d |-> dev, answer |-> <<>>]
        BY <1>0, <1>1, <2>4
    <2>5. ASSUME NEW a, Answer(a), x = [d |-> dev, answer |-> <<a>>]
          PROVE  Good
        <3>1. x.d = dev /\ x.answer = <<a>>
            BY <2>5
        <3> QED BY <1>1, <1>3, <2>5, <3>1 DEF Good
    <2> QED BY <2>1, <2>2, <2>3, <2>4, <2>5
<1>6. CASE s.kind = "switch"
    <2> DEFINE a == [kind |-> "switched", address |-> s.address]
               d == [dev EXCEPT !.source = dev.link[s.address]]
    <2>1. s.address \in Addresses
        BY <1>6, StepKinds
    <2>2. x = [d |-> dev, answer |-> <<>>] \/ x = [d |-> d, answer |-> <<a>>]
        BY <1>6 DEF Executed
    <2>3. Fits(d)
        BY <1>1, <2>1 DEF Fits, Links
    <2>4. Answer(a)
        BY <2>1 DEF Answer, Answers, Ack, AnswerTyped
    <2> HIDE DEF a, d
    <2>5. <<a>> \in Seq(Answers) /\ \A i \in DOMAIN <<a>> : Answer(<<a>>[i])
        BY <1>3, <2>4
    <2>6. CASE x = [d |-> d, answer |-> <<a>>]
        <3>1. x.d = d /\ x.answer = <<a>>
            BY <2>6
        <3> QED BY <2>3, <2>5, <3>1 DEF Good
    <2> QED BY <1>0, <1>1, <2>2, <2>6
<1>7. CASE s.kind = "link"
    <2>1. s.address \in Addresses
        BY <1>7, StepKinds
    <2>2. \/ x = [d |-> dev, answer |-> <<>>]
          \/ \E slot \in FreeSlots :
                x = [d |-> [dev EXCEPT !.link[s.address] = slot], answer |-> <<>>]
        BY <1>7 DEF Executed
    <2>3. \A slot \in FreeSlots : Fits([dev EXCEPT !.link[s.address] = slot])
        BY <1>1, <2>1 DEF Fits, Links, FreeSlots
    <2> QED BY <1>0, <1>1, <2>2, <2>3
<1> QED BY <1>4, <1>5, <1>6, <1>7, StepKinds

LEMMA SendTyped == TInv /\ SendStep => TInv'
<1> SUFFICES ASSUME TInv, SendStep PROVE TInv'
    OBVIOUS
<1> DEFINE s == Head(steps)
<1>1. /\ waiting = None /\ steps # <<>> /\ waiting' = s /\ steps' = Tail(steps)
      /\ UNCHANGED <<fns, props, request, mp, task>>
    BY DEF SendStep
<1>2. steps \in Seq(Steps)
    BY DEF TInv, EngineTyped
<1>3. /\ s \in Steps /\ steps' \in Seq(Steps) /\ 1 \in DOMAIN steps /\ s = steps[1]
      /\ \A i \in DOMAIN steps' : i + 1 \in DOMAIN steps /\ steps'[i] = steps[i + 1]
    BY <1>1, <1>2
<1> HIDE DEF s
<1>4. WritesTyped'
    BY <1>1, <1>3 DEF TInv, WritesTyped, WriteTyped
<1>5. WriteTyped(s)
    BY <1>3 DEF TInv, WritesTyped
<1>6. PICK x \in Executed(s) : dev' = x.d /\ fromDev' = (fromDev \o <<Ack>>) \o x.answer
    BY DEF SendStep, s
<1>7. /\ Fits(x.d) /\ x.answer \in Seq(Answers)
      /\ \A i \in DOMAIN x.answer : Answer(x.answer[i])
    BY <1>3, <1>5, ExecutedFits DEF TInv, EngineTyped
<1>8. DevTyped'
    BY <1>6, <1>7 DEF DevTyped, Fits
<1>9. fromDev \in Seq(Answers) /\ \A i \in DOMAIN fromDev : fromDev[i] # Ack /\ AnswerTyped(fromDev[i])
    BY <1>1 DEF TInv, AnswersTyped, OneAck
<1>10. /\ fromDev' \in Seq(Answers) /\ \E i \in DOMAIN fromDev' : fromDev'[i] = Ack
       /\ \A i, j \in DOMAIN fromDev' : fromDev'[i] = Ack /\ fromDev'[j] = Ack => i = j
       /\ \A i \in DOMAIN fromDev' : \/ fromDev'[i] = Ack
                                     \/ \E j \in DOMAIN fromDev : fromDev'[i] = fromDev[j]
                                     \/ \E j \in DOMAIN x.answer : fromDev'[i] = x.answer[j]
    <2> DEFINE r == x.answer
    <2>1. Ack \in Answers
        BY AnswerKinds
    <2>2. r \in Seq(Answers) /\ \A i \in DOMAIN r : r[i] # Ack
        BY <1>7 DEF Answer
    <2>3. fromDev' = (fromDev \o <<Ack>>) \o r
        BY <1>6
    <2> HIDE DEF r
    <2>4. PutBehind(Answers, Ack, fromDev, r, fromDev')
        BY <1>9, <2>1, <2>2, <2>3, AckBehind
    <2> QED BY <2>4, Zenon DEF PutBehind, r
<1>11. AnswerTyped(Ack)
    BY DEF AnswerTyped, Ack
<1>12. AnswersTyped'
    BY <1>7, <1>9, <1>10, <1>11 DEF AnswersTyped, Answer, AnswerTyped
<1>13. waiting' # None
    BY <1>1, <1>3, StepAssumption
<1>14. OneAck'
    BY <1>10, <1>13 DEF OneAck
<1>15. PastTyped(past')
    <2> DEFINE more == Following(DOMAIN s.values \intersect InFlight)
    <2>1. s.kind = "write" => more \subseteq Fields
        <3> SUFFICES ASSUME s.kind = "write" PROVE more \subseteq Fields
            OBVIOUS
        <3>1. DOMAIN s.values \subseteq Fields
            BY <1>3, <1>5, StepKinds, CarriedFields DEF WriteTyped
        <3> QED BY <3>1, FollowingFields
    <2>2. past' = [past EXCEPT !.relinked = Seen(s, @),
                               !.astray = IF s.kind = "write" THEN @ \union more ELSE @]
        BY DEF SendStep, s
    <2>3. Seen(s, past.relinked) \in BOOLEAN
        BY DEF Seen, TInv, EngineTyped
    <2> HIDE DEF more
    <2> QED BY <2>1, <2>2, <2>3 DEF TInv, EngineTyped, PastTyped
<1>16. EngineTyped'
    BY <1>1, <1>3, <1>15 DEF TInv, EngineTyped, PastTyped
<1> QED BY <1>1, <1>4, <1>8, <1>12, <1>14, <1>16 DEF TInv, PropsTyped, InKept

---------------------------------------------------------------------------
(* The owner *)

\* What the owner does is reported, behind all the rest.
LEMMA ReportedTyped ==
    ASSUME TInv, NEW a, Answer(a), fromDev' = Append(fromDev, a),
           UNCHANGED <<fns, props, request, mp, task, steps, waiting>>,
           PastTyped(past'), DevTyped'
    PROVE  TInv'
<1>1. fromDev \in Seq(Answers) /\ a \in Answers /\ a # Ack /\ AnswerTyped(a)
    BY DEF TInv, AnswersTyped, Answer
<1>2. /\ fromDev' \in Seq(Answers)
      /\ (\E i \in DOMAIN fromDev' : fromDev'[i] = Ack) <=> \E i \in DOMAIN fromDev : fromDev[i] = Ack
      /\ (\A i, j \in DOMAIN fromDev : fromDev[i] = Ack /\ fromDev[j] = Ack => i = j)
             => \A i, j \in DOMAIN fromDev' : fromDev'[i] = Ack /\ fromDev'[j] = Ack => i = j
      /\ \A i \in DOMAIN fromDev' : fromDev'[i] = a \/ \E j \in DOMAIN fromDev : fromDev'[i] = fromDev[j]
    BY <1>1, NoAckBehind
<1>3. AnswersTyped' /\ OneAck'
    BY <1>1, <1>2 DEF TInv, AnswersTyped, AnswerTyped, OneAck
<1>4. EngineTyped' /\ WritesTyped'
    BY DEF TInv, EngineTyped, PastTyped, WritesTyped, WriteTyped
<1> QED BY <1>3, <1>4 DEF TInv, PropsTyped, InKept

LEMMA OwnerTyped == TInv /\ Owner => TInv'
<1> SUFFICES ASSUME TInv, Owner PROVE TInv'
    OBVIOUS
<1>1. ASSUME NEW f \in Fields, NEW v \in Samples(f), DeviceChanges(f, v) PROVE TInv'
    <2> DEFINE value == [dev.value EXCEPT ![f] = v, !["bands"] = IF f = "preset" THEN v ELSE @]
    <2>1. v \in Values(f) /\ v \in Int
        BY Ranges
    <2>2. value \in [Fields -> Int] /\ \A g \in Fields : value[g] \in Values(g)
        <3>1. dev.value \in [Fields -> Int] /\ \A g \in Fields : dev.value[g] \in Values(g)
            BY DEF TInv, DevTyped
        <3>2. f = "preset" => v \in Values("bands")
            BY <2>1 DEF Values
        <3>3. /\ value = [g \in Fields |-> value[g]]
              /\ \A g \in Fields : value[g] = CASE g = "bands" /\ f = "preset" -> v
                                                [] g # "bands" /\ g = f -> v
                                                [] g = "bands" /\ f = "bands" -> v
                                                [] OTHER -> dev.value[g]
            BY <3>1
        <3> HIDE DEF value
        <3>4. \A g \in Fields : value[g] \in Values(g) /\ value[g] \in Int
            BY <2>1, <3>1, <3>2, <3>3
        <3> QED BY <3>3, <3>4
    <2>3. /\ dev' = [dev EXCEPT !.value = value]
          /\ fromDev' = Append(fromDev, Report(f, value))
          /\ UNCHANGED <<fns, props, request, mp, task, steps, waiting>>
        BY <1>1 DEF DeviceChanges, task_vars
    <2>4. PastTyped(past')
        <3>1. \E o : past' = [past EXCEPT !.own = o]
            BY <1>1 DEF DeviceChanges
        <3> QED BY <3>1 DEF TInv, EngineTyped, PastTyped
    <2> HIDE DEF value
    <2>5. Answer(Report(f, value))
        BY <2>2, ReportAnswers DEF TInv, EngineTyped
    <2>6. DevTyped'
        BY <2>2, <2>3 DEF TInv, DevTyped
    <2> QED BY <2>3, <2>4, <2>5, <2>6, ReportedTyped
<1>2. ASSUME NEW a \in Addresses, DeviceSwitches(a) PROVE TInv'
    <2> DEFINE r == [kind |-> "switched", address |-> a]
    <2>1. /\ dev' = [dev EXCEPT !.source = dev.link[a]] /\ fromDev' = Append(fromDev, r)
          /\ UNCHANGED <<fns, props, request, mp, task, steps, waiting, past>>
        BY <1>2 DEF DeviceSwitches, task_vars
    <2>2. Answer(r)
        BY DEF Answer, Answers, Ack, AnswerTyped
    <2> HIDE DEF r
    <2>3. DevTyped'
        BY <2>1 DEF TInv, DevTyped, Links
    <2>4. PastTyped(past')
        BY <2>1 DEF TInv, EngineTyped, PastTyped
    <2> QED BY <2>1, <2>2, <2>3, <2>4, ReportedTyped
<1>3. ASSUME NEW a \in Addresses, DeviceRelinks(a) PROVE TInv'
    <2>1. /\ UNCHANGED <<fns, props, request, mp, task, steps, waiting, fromDev>>
          /\ past' = [past EXCEPT !.relinked = TRUE]
          /\ \E slot \in 0 .. 2 : dev' = [dev EXCEPT !.link[a] = slot]
        BY <1>3 DEF DeviceRelinks, task_vars, FreeSlots
    <2>2. DevTyped'
        BY <2>1 DEF TInv, DevTyped, Links
    <2>3. PastTyped(past')
        BY <2>1 DEF TInv, EngineTyped, PastTyped
    <2>4. EngineTyped' /\ WritesTyped'
        BY <2>1, <2>3 DEF TInv, EngineTyped, PastTyped, WritesTyped, WriteTyped
    <2> QED BY <2>1, <2>2, <2>4 DEF TInv, PropsTyped, InKept, AnswersTyped, AnswerTyped, OneAck
<1> QED BY <1>1, <1>2, <1>3 DEF Owner

LEMMA StepTyped == TInv /\ [Next]_vars => TInv'
<1> SUFFICES ASSUME TInv, [Next]_vars PROVE TInv'
    OBVIOUS
<1>1. CASE UNCHANGED vars
    BY <1>1 DEF vars, TInv, PropsTyped, InKept, DevTyped, EngineTyped, WritesTyped, WriteTyped,
                AnswersTyped, AnswerTyped, OneAck
<1> QED BY <1>1, UserTyped, OwnerTyped, TasksTyped, SendTyped, ReceiveTyped DEF Next

LEMMA Typed == Spec => []TInv
BY InitTyped, StepTyped, PTL DEF Spec

---------------------------------------------------------------------------
(* What follows *)

\* The properties hold values of their types, a task waits for a step of its
\* own with its ACK under way, and the playback device is one of the list: for
\* any headphones, devices, values and reports (apply_report,
\* apply_multipoint_list, build_commit_steps).
THEOREM TypeCorrect == Spec => []TypeOK
<1>1. TInv => TypeOK
    BY Ranges DEF TInv, TypeOK, PropsTyped, InKept, EngineTyped, OneAck
<1> QED BY <1>1, Typed, PTL

\* Whatever was reported, clicked or nudged, a write has the level in [1, 20],
\* the volume in [0, 30] and the volume of the voice guidance in [-2, 2].
THEOREM SentInRange == Spec => []WireInRange
<1>1. TInv => WireInRange
    <2> SUFFICES ASSUME TInv, NEW s \in PendingWrites, NEW f \in DOMAIN s.values
                 PROVE  /\ f = "level" => s.values[f] \in 1 .. 20
                        /\ f = "volume" => s.values[f] \in 0 .. 30
                        /\ f = "voiceVol" => s.values[f] \in -2 .. 2
        BY DEF WireInRange
    <2>1. WriteTyped(s) /\ s.kind = "write"
        BY DEF PendingWrites, TInv, WritesTyped
    <2>2. s.values[f] \in Kept(f)
        BY <2>1 DEF WriteTyped
    <2> QED BY <2>2 DEF Kept, Values
<1> QED BY <1>1, Typed, PTL

---------------------------------------------------------------------------
(* A commit leaves nothing dirty *)

\* A write of the field is ahead.
Ahead(f) ==
    \/ waiting # None /\ waiting.kind = "write" /\ f \in Members[waiting.group]
    \/ \E i \in DOMAIN steps : steps[i].kind = "write" /\ f \in Members[steps[i].group]

LEMMA PendingAhead ==
    \A f : (f \in Pending <=> Ahead(f)) /\ (f \in Pending' <=> Ahead(f)')
<1> DEFINE W == PendingWrites
           S == {Members[s.group] : s \in W}
<1> TAKE f
<1>1. f \in Pending <=> Ahead(f)
    <2>1. f \in Pending <=> \E s \in W : f \in Members[s.group]
        <3>1. Pending = UNION S
            BY DEF Pending
        <3>2. f \in UNION S <=> \E M \in S : f \in M
            <4> HIDE DEF S
            <4> QED BY Zenon
        <3>3. (\E M \in S : f \in M) <=> \E s \in W : f \in Members[s.group]
            OBVIOUS
        <3> QED BY <3>1, <3>2, <3>3, Zenon
    <2>2. \A s : s \in W <=> /\ s.kind = "write"
                             /\ \/ s = waiting /\ waiting # None
                                \/ \E i \in DOMAIN steps : s = steps[i]
        BY DEF PendingWrites
    <2> HIDE DEF W
    <2> QED BY <2>1, <2>2 DEF Ahead
<1>2. f \in Pending' <=> Ahead(f)'
    <2>1. f \in Pending' <=> \E s \in W' : f \in Members[s.group]
        <3>1. Pending' = UNION S'
            BY DEF Pending
        <3>2. f \in UNION S' <=> \E M \in S' : f \in M
            <4> HIDE DEF S
            <4> QED BY Zenon
        <3>3. (\E M \in S' : f \in M) <=> \E s \in W' : f \in Members[s.group]
            OBVIOUS
        <3> QED BY <3>1, <3>2, <3>3, Zenon
    <2>2. \A s : s \in W' <=> /\ s.kind = "write"
                              /\ \/ s = waiting' /\ waiting' # None
                                 \/ \E i \in DOMAIN steps' : s = steps'[i]
        BY DEF PendingWrites
    <2> HIDE DEF W
    <2> QED BY <2>1, <2>2 DEF Ahead
<1> QED BY <1>1, <1>2

\* What has become clean is no obstacle, and nothing else has changed.
LEMMA OnlyCleaned ==
    ASSUME SettleInv, UNCHANGED fns,
           \A f \in Fields : Dirty(f)' => Dirty(f) /\ props'[f] = props[f],
           task' = "commit" => \A f \in Fields : Dirty(f)' => f \in past'.edited \/ Ahead(f)'
    PROVE  SettleInv'
<1>1. ASSUME NEW f \in Fields, Dirty(f)' PROVE Reachable(f)'
    <2>1. Dirty(f) /\ props'[f] = props[f]
        BY <1>1
    <2>2. PICK g \in Groups : /\ f \in Members[g] /\ Writable(g, fns) /\ g # "EqConfig"
                              /\ g = "Shutdown" => props["shutdown"].desired = 1
        BY <2>1 DEF SettleInv, Reachable
    <2>3. g = "Shutdown" => f = "shutdown"
        BY <2>2 DEF Members
    <2>4. g = "Shutdown" => props'["shutdown"].desired = 1
        BY <2>1, <2>2, <2>3
    <2>5. Writable(g, fns)'
        BY <2>2 DEF Writable
    <2> QED BY <2>2, <2>4, <2>5 DEF Reachable
<1>2. ASSUME task' = "commit", NEW f \in Fields, Dirty(f)'
      PROVE  f \in past'.edited \union Pending'
    BY <1>2, PendingAhead
<1> QED BY <1>1, <1>2 DEF SettleInv

\* The menu offers what a commit writes.
LEMMA OfferedWritable ==
    ASSUME NoGap, fns \in Advertised, NEW eqShown, NEW f,
           f \in OfferedAmbient(fns) \union OfferedSound(fns, eqShown) \union OfferedSettings(fns)
    PROVE  \E g \in Groups : f \in Members[g] /\ Writable(g, fns) /\ g \notin {"EqConfig", "Shutdown"}
<1> DEFINE Goal == \E g \in Groups : /\ f \in Members[g] /\ Writable(g, fns)
                                     /\ g \notin {"EqConfig", "Shutdown"}
<1>0. ASSUME NEW g \in Groups, f \in Members[g], Writable(g, fns), g \notin {"EqConfig", "Shutdown"}
      PROVE  Goal
    BY <1>0
<1>1. CASE f \in OfferedAmbient(fns)
    <2>1. f \in Members["NcAsmGroup"] /\ "NcAsmGroup" \in Groups /\ Writable("NcAsmGroup", fns)
        BY <1>1 DEF OfferedAmbient, When, Members, Groups, Writable, Needs
    <2> QED BY <1>0, <2>1
<1>2. CASE f \in OfferedSound(fns, eqShown)
    <2>1. \/ f = "stc" /\ "SmartTalk" \in fns
          \/ f \in {"stcSens", "stcTime"} /\ "SmartTalk" \in fns
          \/ f = "preset"
          \/ f = "dsee" /\ "Dsee" \in fns
        BY <1>2 DEF OfferedSound, When
    <2> QED BY <2>1 DEF Members, Groups, Writable, Needs
<1>3. CASE f \in OfferedSettings(fns) \ OfferedGeneral(fns)
    <2>1. \/ f \in {"bgm", "room"} /\ "Listening" \in fns
          \/ f = "cinema" /\ "Listening" \in fns
          \/ f = "powerOff"
          \/ f = "autoPause" /\ "AutoPause" \in fns
          \/ f = "head" /\ "HeadGesture" \in fns
          \/ f = "voice"
          \/ f = "voiceVol" /\ "VoiceVolume" \in fns
          \/ f \in {"left", "right"} /\ "Assignable" \in fns
        BY <1>3 DEF OfferedSettings, When
    <2> QED BY <2>1 DEF Members, Groups, Writable, Needs
<1>4. CASE f \in OfferedGeneral(fns)
    <2>1. f \in fns /\ f \in {"gs1", "gs2", "gs3", "gs4"}
        BY <1>4 DEF NoGap
    <2> QED BY <2>1 DEF Members, Groups, Writable, Needs
<1> QED BY <1>1, <1>2, <1>3, <1>4

\* A setter, of fields the menu offers or of the shutdown.
Settable(f, v) ==
    \/ f = "shutdown" /\ v = 1 /\ "PowerOff" \in fns
    \/ \E g \in Groups : f \in Members[g] /\ Writable(g, fns) /\ g \notin {"EqConfig", "Shutdown"}

LEMMA SetDesiredSettles ==
    ASSUME TInv, SettleInv, NEW d, SetDesired(d),
           \A f \in DOMAIN d : Settable(f, d[f])
    PROVE  SettleInv'
<1>1. /\ UNCHANGED <<fns, task, steps, waiting>>
      /\ props' = [f \in Fields |-> IF f \in DOMAIN d THEN [props[f] EXCEPT !.desired = d[f]]
                                    ELSE props[f]]
      /\ past'.edited = past.edited \union DOMAIN d
    BY DEF SetDesired, task_vars, TInv, EngineTyped
<1>2. \A f \in Fields : /\ f \in DOMAIN d => props'[f].desired = d[f]
                        /\ f \notin DOMAIN d => props'[f] = props[f]
    BY <1>1 DEF TInv, PropsTyped, InKept
<1>3. \A f \in Fields : f \notin DOMAIN d => (Dirty(f)' <=> Dirty(f))
    BY <1>2 DEF Dirty
<1>4. Members["Shutdown"] = {"shutdown"} /\ "Shutdown" \in Groups /\ "shutdown" \in Fields
    BY FieldNames DEF Members, Groups
<1>5. \A g \in Groups : "shutdown" \in Members[g] => g = "Shutdown"
    BY <1>4, GroupFields
<1>6. ASSUME NEW f \in Fields, Dirty(f)' PROVE Reachable(f)'
    <2>1. CASE f \in DOMAIN d
        <3>1. CASE f = "shutdown" /\ d[f] = 1 /\ "PowerOff" \in fns
            <4>1. Writable("Shutdown", fns)
                BY <3>1 DEF Writable, Needs
            <4>2. Writable("Shutdown", fns)'
                BY <1>1, <4>1 DEF Writable
            <4>3. props'["shutdown"].desired = 1 /\ "Shutdown" # "EqConfig"
                BY <1>2, <2>1, <3>1
            <4> QED BY <1>4, <3>1, <4>2, <4>3 DEF Reachable
        <3>2. ASSUME NEW g \in Groups, f \in Members[g], Writable(g, fns),
                     g \notin {"EqConfig", "Shutdown"}
              PROVE  Reachable(f)'
            BY <1>1, <3>2 DEF Reachable, Writable
        <3> QED BY <2>1, <3>1, <3>2 DEF Settable
    <2>2. CASE f \notin DOMAIN d
        <3>1. Dirty(f)
            BY <1>3, <1>6, <2>2
        <3>2. PICK g \in Groups : /\ f \in Members[g] /\ Writable(g, fns) /\ g # "EqConfig"
                                  /\ g = "Shutdown" => props["shutdown"].desired = 1
            BY <3>1 DEF SettleInv, Reachable
        <3>3. g = "Shutdown" => f = "shutdown"
            BY <1>4, <3>2
        <3>4. g = "Shutdown" => props'["shutdown"].desired = 1
            BY <1>2, <2>2, <3>2, <3>3
        <3> QED BY <1>1, <3>2, <3>4 DEF Reachable, Writable
    <2> QED BY <2>1, <2>2
<1>7. ASSUME task' = "commit", NEW f \in Fields, Dirty(f)'
      PROVE  f \in past'.edited \union Pending'
    <2>1. CASE f \in DOMAIN d
        BY <1>1, <2>1
    <2>2. CASE f \notin DOMAIN d
        <3>1. f \in past.edited \union Pending
            BY <1>1, <1>3, <1>7, <2>2 DEF SettleInv
        <3>2. Ahead(f) => Ahead(f)'
            BY <1>1 DEF Ahead
        <3> QED BY <1>1, <3>1, <3>2, PendingAhead
    <2> QED BY <2>1, <2>2
<1> QED BY <1>6, <1>7 DEF SettleInv

LEMMA UserSettles == NoGap /\ TInv /\ SettleInv /\ User => SettleInv'
<1> SUFFICES ASSUME NoGap, TInv, SettleInv, User PROVE SettleInv'
    OBVIOUS
<1>0. fns \in Advertised
    BY DEF TInv, EngineTyped
<1> DEFINE Sets(d) == SetDesired(d) /\ \A f \in DOMAIN d : Settable(f, d[f])
<1>1. ASSUME NEW d, Sets(d) PROVE SettleInv'
    BY <1>1, SetDesiredSettles
<1>2. ASSUME NEW f, NEW v, Settable(f, v), SetDesired(Only(f, v)) PROVE SettleInv'
    <2>1. DOMAIN Only(f, v) = {f} /\ Only(f, v)[f] = v
        BY DEF Only
    <2>2. Sets(Only(f, v))
        BY <1>2, <2>1
    <2> HIDE DEF Sets
    <2> QED BY <1>1, <2>2
<1>3. \A f \in {"enabled", "mode", "level"} : \A v : Settable(f, v)
    BY DEF Settable, Members, Groups, Writable, Needs
<1>4. ASSUME NEW e, NEW m, SetDesired(Ambient(e, m)) PROVE SettleInv'
    <2>1. DOMAIN Ambient(e, m) \subseteq {"enabled", "mode", "level"}
        BY DEF Ambient, When
    <2>2. Sets(Ambient(e, m))
        <3> DEFINE a == Ambient(e, m)
        <3> HIDE DEF a
        <3>1. \A f \in DOMAIN a : Settable(f, a[f])
            BY <1>3, <2>1 DEF a
        <3> QED BY <1>4, <3>1 DEF a
    <2> HIDE DEF Sets
    <2> QED BY <1>1, <2>2
<1>5. ASSUME NEW f, NEW v, SetField(f, v) PROVE SettleInv'
    <2>1. Settable(f, v)
        BY <1>0, <1>5, OfferedWritable DEF SetField, Settable
    <2> QED BY <1>2, <1>5, <2>1 DEF SetField
<1>6. CASE PowerDown
    BY <1>2, <1>6 DEF PowerDown, Settable
<1>7. ASSUME NEW f \in {"volume", "level"}, NEW delta \in {-1, 1}, Nudge(f, delta) PROVE SettleInv'
    <2>1. \A v : Settable(f, v)
        BY <1>3 DEF Settable, Members, Groups, Writable, Needs
    <2>2. \E v : SetDesired(Only(f, v))
        BY <1>7 DEF Nudge
    <2> QED BY <1>2, <2>1, <2>2
<1>8. CASE SetAmbientMode
    BY <1>4, <1>8 DEF SetAmbientMode
<1>9. CASE CycleAmbientMode
    BY <1>4, <1>9 DEF CycleAmbientMode
<1>10. CASE MultipointCommand
    <2>1. UNCHANGED <<fns, props, task, steps, waiting, past>>
        BY <1>10 DEF MultipointCommand, task_vars
    <2>2. \A f \in Fields : Dirty(f)' <=> Dirty(f)
        BY <2>1 DEF Dirty
    <2>3. \A f \in Fields : Ahead(f)' <=> Ahead(f)
        BY <2>1 DEF Ahead
    <2> QED BY <2>1, <2>2, <2>3, PendingAhead, OnlyCleaned DEF SettleInv
<1>11. CASE RefreshSync
    <2>1. UNCHANGED <<fns, props>> /\ task' = "sync"
        BY <1>11 DEF RefreshSync, StartSync
    <2>2. \A f \in Fields : Dirty(f)' <=> Dirty(f)
        BY <2>1 DEF Dirty
    <2> QED BY <2>1, <2>2, OnlyCleaned
<1> QED BY <1>5, <1>6, <1>7, <1>8, <1>9, <1>10, <1>11 DEF User

\* What is dirty when a commit is built is written.
LEMMA BuildSettles ==
    ASSUME TInv, SettleInv, BuildCommit, waiting = None, UNCHANGED <<fns, waiting>>
    PROVE  SettleInv'
<1>1. /\ steps' = BuildCommitSteps /\ props' = Settled(props) /\ past'.edited = {}
    BY DEF BuildCommit, TInv, EngineTyped
<1>2. \A f \in Fields : /\ props'[f] = props[f] \/ \E v : props'[f] = Prop(v)
                        /\ f = "shutdown" /\ Dirty(f) /\ ~IsWritten("Shutdown") => props'[f] = Prop(0)
    BY <1>1 DEF Settled
<1>3. ASSUME NEW f \in Fields, Dirty(f)'
      PROVE  Dirty(f) /\ props'[f] = props[f]
    <2>1. \A v : Prop(v).desired = Prop(v).current
        BY DEF Prop
    <2> QED BY <1>2, <1>3, <2>1 DEF Dirty
<1>4. ASSUME NEW f \in Fields, Dirty(f)'
      PROVE  Ahead(f)'
    <2>1. PICK g \in Groups : /\ f \in Members[g] /\ Writable(g, fns) /\ g # "EqConfig"
                              /\ g = "Shutdown" => props["shutdown"].desired = 1
        BY <1>3, <1>4 DEF SettleInv, Reachable
    <2>2. IsWritten(g)
        BY <1>3, <1>4, <2>1 DEF IsWritten
    <2>3. PICK k \in DOMAIN BuildCommitSteps : BuildCommitSteps[k] = Write(g, props)
        BY <2>2, CommitFine DEF TInv
    <2>4. steps'[k].kind = "write" /\ steps'[k].group = g
        BY <1>1, <2>3 DEF Write
    <2> QED BY <1>1, <2>1, <2>3, <2>4 DEF Ahead
<1> QED BY <1>3, <1>4, OnlyCleaned

LEMMA TasksSettle == TInv /\ SettleInv /\ (StartCommit \/ PeriodicSync \/ TaskDone) => SettleInv'
<1> SUFFICES ASSUME TInv, SettleInv, StartCommit \/ PeriodicSync \/ TaskDone PROVE SettleInv'
    OBVIOUS
<1>1. CASE StartCommit
    BY <1>1, BuildSettles DEF StartCommit, TInv, EngineTyped
<1>2. ASSUME UNCHANGED <<fns, props>>, task' # "commit" PROVE SettleInv'
    <2>1. \A f \in Fields : Dirty(f)' <=> Dirty(f)
        BY <1>2 DEF Dirty
    <2> QED BY <1>2, <2>1, OnlyCleaned
<1>3. CASE PeriodicSync
    BY <1>2, <1>3 DEF PeriodicSync, StartSync
<1>4. CASE TaskDone
    BY <1>2, <1>4, BuildSettles DEF TaskDone
<1> QED BY <1>1, <1>3, <1>4

\* A step sent is a write ahead as before.
LEMMA SendSettles == TInv /\ SettleInv /\ SendStep => SettleInv'
<1> SUFFICES ASSUME TInv, SettleInv, SendStep PROVE SettleInv'
    OBVIOUS
<1>1. /\ waiting = None /\ steps # <<>> /\ waiting' = Head(steps) /\ steps' = Tail(steps)
      /\ UNCHANGED <<fns, props, task>> /\ past'.edited = past.edited
    BY DEF SendStep, TInv, EngineTyped
<1>2. steps \in Seq(Steps)
    BY DEF TInv, EngineTyped
<1>3. Head(steps) \in Steps /\ Head(steps) = steps[1]
    BY <1>1, <1>2
<1>4. \A i \in DOMAIN steps : i # 1 => i - 1 \in DOMAIN steps' /\ steps'[i - 1] = steps[i]
    BY <1>1, <1>2
<1>5. waiting' # None
    BY <1>1, <1>3, StepAssumption
<1>6. ASSUME NEW f, Ahead(f) PROVE Ahead(f)'
    <2>1. PICK i \in DOMAIN steps : steps[i].kind = "write" /\ f \in Members[steps[i].group]
        BY <1>1, <1>6 DEF Ahead
    <2>2. CASE i = 1
        BY <1>1, <1>3, <1>5, <2>1, <2>2 DEF Ahead
    <2>3. CASE i # 1
        BY <1>4, <2>1, <2>3 DEF Ahead
    <2> QED BY <2>2, <2>3
<1>7. \A f \in Fields : Dirty(f)' <=> Dirty(f)
    BY <1>1 DEF Dirty
<1> QED BY <1>1, <1>6, <1>7, PendingAhead, OnlyCleaned DEF SettleInv

\* An ACK takes a write off and cleans its group.
LEMMA ReceiveSettles == TInv /\ SettleInv /\ Receive => SettleInv'
<1> SUFFICES ASSUME TInv, SettleInv, Receive PROVE SettleInv'
    OBVIOUS
<1>1. UNCHANGED <<fns, task, steps>> /\ past'.edited = past.edited
    BY DEF Receive, ReceiveAck, ReceiveParam, ReceiveList, ReceiveSwitched, task_vars, TInv, EngineTyped
<1>2. CASE ReceiveAck
    <2>1. /\ waiting' = None
          /\ props' = IF waiting.kind = "write" THEN Committed(waiting) ELSE props
        BY <1>2 DEF ReceiveAck
    <2>2. ASSUME NEW f \in Fields, Dirty(f)'
          PROVE  /\ Dirty(f) /\ props'[f] = props[f]
                 /\ waiting.kind = "write" => f \notin Members[waiting.group]
        <3>1. CASE waiting.kind = "write"
            <4>1. f \notin Members[waiting.group]
                <5>1. f \in Members[waiting.group] => props'[f] = Prop(props[f].desired)
                    BY <2>1, <3>1 DEF Committed
                <5> QED BY <2>2, <5>1 DEF Prop, Dirty
            <4>2. props'[f] = props[f]
                BY <2>1, <3>1, <4>1 DEF Committed
            <4> QED BY <2>2, <4>1, <4>2 DEF Dirty
        <3>2. CASE waiting.kind # "write"
            BY <2>1, <2>2, <3>2 DEF Dirty
        <3> QED BY <3>1, <3>2
    <2>3. ASSUME NEW f \in Fields, Dirty(f)', Ahead(f) PROVE Ahead(f)'
        BY <1>1, <2>2, <2>3 DEF Ahead
    <2>4. task' = "commit" => \A f \in Fields : Dirty(f)' => f \in past'.edited \/ Ahead(f)'
        BY <1>1, <2>2, <2>3, PendingAhead DEF SettleInv
    <2> QED BY <1>1, <2>2, <2>4, OnlyCleaned
<1>3. ASSUME UNCHANGED waiting,
             \A f \in Fields : Dirty(f)' => Dirty(f) /\ props'[f] = props[f]
      PROVE  SettleInv'
    <2>1. \A f \in Fields : Ahead(f)' <=> Ahead(f)
        BY <1>1, <1>3 DEF Ahead
    <2> QED BY <1>1, <1>3, <2>1, PendingAhead, OnlyCleaned DEF SettleInv
<1>4. CASE ReceiveParam
    <2> DEFINE v == Head(fromDev).values
    <2>1. UNCHANGED waiting /\ props' = Overwritten(props, v)
        BY <1>4 DEF ReceiveParam, task_vars
    <2> HIDE DEF v
    <2>2. \A f \in Fields : props'[f] = props[f] \/ \E w : props'[f] = Prop(w)
        BY <2>1 DEF Overwritten
    <2>3. \A w : Prop(w).desired = Prop(w).current
        BY DEF Prop
    <2>4. \A f \in Fields : Dirty(f)' => Dirty(f) /\ props'[f] = props[f]
        BY <2>2, <2>3 DEF Dirty
    <2> QED BY <1>3, <2>1, <2>4
<1>5. CASE ReceiveList \/ ReceiveSwitched
    BY <1>3, <1>5 DEF ReceiveList, ReceiveSwitched, task_vars, Dirty
<1> QED BY <1>2, <1>4, <1>5 DEF Receive

LEMMA OwnerSettles == TInv /\ SettleInv /\ Owner => SettleInv'
<1> SUFFICES ASSUME TInv, SettleInv, Owner PROVE SettleInv'
    OBVIOUS
<1>1. UNCHANGED <<fns, props, task, steps, waiting>> /\ past'.edited = past.edited
    BY DEF Owner, DeviceChanges, DeviceSwitches, DeviceRelinks, task_vars, TInv, EngineTyped
<1>2. \A f \in Fields : Dirty(f)' <=> Dirty(f)
    BY <1>1 DEF Dirty
<1>3. \A f \in Fields : Ahead(f)' <=> Ahead(f)
    BY <1>1 DEF Ahead
<1> QED BY <1>1, <1>2, <1>3, PendingAhead, OnlyCleaned DEF SettleInv

LEMMA InitSettles == Init => SettleInv
<1> SUFFICES ASSUME Init PROVE SettleInv
    OBVIOUS
<1>0. \E functions, value, link, source, focus : Start(functions, value, link, source, focus)
    BY Zenon DEF Init
<1>1. PICK functions, value :
          /\ props = Overwritten([f \in Fields |-> Prop(Default(f))],
                                 [f \in ReadAtInit(functions) |-> value[f]])
          /\ task = "none"
    BY <1>0, Zenon DEF Start
<1>2. \A f \in Fields : \E w : props[f] = Prop(w)
    BY <1>1 DEF Overwritten
<1>3. \A w : Prop(w).desired = Prop(w).current
    BY DEF Prop
<1>4. \A f \in Fields : ~Dirty(f)
    BY <1>2, <1>3 DEF Dirty
<1> QED BY <1>1, <1>4 DEF SettleInv

\* A commit leaves nothing dirty but what was edited since it was built, so
\* that the ticks do not commit forever (is_dirty, build_commit_steps,
\* PropCommit::apply): whatever the functions advertised, if the general
\* settings among them come without a gap.  With one it is not so, see run
\* general_position.
THEOREM CommitsSettle ==
    ASSUME NoGap
    PROVE  Spec => []CommitSettles
<1>1. Init => TInv /\ SettleInv
    BY InitTyped, InitSettles
<1>2. TInv /\ SettleInv /\ [Next]_vars => (TInv /\ SettleInv)'
    <2> SUFFICES ASSUME TInv, SettleInv, [Next]_vars PROVE SettleInv'
        BY StepTyped
    <2>1. CASE UNCHANGED vars
        <3>1. UNCHANGED <<fns, props, task, steps, waiting, past>>
            BY <2>1 DEF vars
        <3>2. \A f \in Fields : (Dirty(f)' <=> Dirty(f)) /\ (Ahead(f)' <=> Ahead(f))
            BY <3>1 DEF Dirty, Ahead
        <3> QED BY <3>1, <3>2, PendingAhead, OnlyCleaned DEF SettleInv
    <2> QED BY <2>1, UserSettles, OwnerSettles, TasksSettle, SendSettles, ReceiveSettles DEF Next
<1>3. TInv /\ SettleInv => CommitSettles
    <2> SUFFICES ASSUME TInv, SettleInv, task = "commit", steps = <<>>, waiting = None,
                        NEW f \in Fields, Dirty(f)
                 PROVE  f \in past.edited
        BY DEF CommitSettles
    <2>1. ~Ahead(f)
        BY DEF Ahead
    <2> QED BY <2>1, PendingAhead DEF SettleInv
<1> QED BY <1>1, <1>2, <1>3, PTL DEF Spec

---------------------------------------------------------------------------
(* The last word of a queue *)

\* The last of the messages M is one of G; there is none of the messages M.
LastIs(q, M, G) ==
    \A i \in DOMAIN q : q[i] \in M /\ (\A j \in DOMAIN q : j > i => q[j] \notin M) => q[i] \in G
NoneOf(q, M) == \A i \in DOMAIN q : q[i] \notin M

\* A message behind the others has the last word if it is one of M.
LEMMA LastAppend ==
    ASSUME NEW S, NEW q \in Seq(S), NEW m \in S, NEW t, t = Append(q, m), NEW M, NEW G
    PROVE  /\ m \notin M => /\ LastIs(q, M, G) => LastIs(t, M, G)
                            /\ NoneOf(t, M) <=> NoneOf(q, M)
           /\ m \in M => /\ ~NoneOf(t, M)
                         /\ m \in G => LastIs(t, M, G)
<1> DEFINE n == Len(q)
<1>1. /\ n \in Nat /\ DOMAIN q = 1 .. n /\ DOMAIN t = 1 .. n + 1
      /\ t[n + 1] = m /\ \A i \in 1 .. n : t[i] = q[i]
    OBVIOUS
<1>2. /\ n + 1 \in 1 .. n + 1 /\ \A i \in 1 .. n : i \in 1 .. n + 1 /\ n + 1 > i
      /\ \A i \in 1 .. n + 1 : i = n + 1 \/ i \in 1 .. n
    BY <1>1
<1> HIDE DEF n
<1>3. ASSUME m \notin M, LastIs(q, M, G) PROVE LastIs(t, M, G)
    <2> SUFFICES ASSUME NEW i \in DOMAIN t, t[i] \in M, \A j \in DOMAIN t : j > i => t[j] \notin M
                 PROVE  t[i] \in G
        BY DEF LastIs
    <2>1. i \in 1 .. n
        BY <1>1, <1>2, <1>3
    <2>2. \A j \in 1 .. n : j > i => q[j] \notin M
        BY <1>1, <1>2
    <2> QED BY <1>1, <1>3, <2>1, <2>2 DEF LastIs
<1>4. m \notin M => (NoneOf(t, M) <=> NoneOf(q, M))
    BY <1>1, <1>2 DEF NoneOf
<1>5. m \in M => ~NoneOf(t, M)
    BY <1>1, <1>2 DEF NoneOf
<1>6. ASSUME m \in M, m \in G PROVE LastIs(t, M, G)
    BY <1>1, <1>2, <1>6 DEF LastIs
<1> QED BY <1>3, <1>4, <1>5, <1>6

\* The message in front had it if there was no other.
LEMMA LastTail ==
    ASSUME NEW S, NEW q \in Seq(S), q # <<>>, NEW t, t = Tail(q), NEW M, NEW G
    PROVE  /\ LastIs(q, M, G) => LastIs(t, M, G)
           /\ Head(q) \notin M /\ NoneOf(t, M) => NoneOf(q, M)
           /\ Head(q) \in M /\ NoneOf(t, M) /\ LastIs(q, M, G) => Head(q) \in G
<1> DEFINE n == Len(q)
<1>1. /\ n \in Nat \ {0} /\ DOMAIN q = 1 .. n /\ DOMAIN t = 1 .. n - 1
      /\ Head(q) = q[1] /\ \A i \in 1 .. n - 1 : t[i] = q[i + 1]
    OBVIOUS
<1>2. /\ 1 \in 1 .. n /\ \A i \in 1 .. n - 1 : i + 1 \in 1 .. n
      /\ \A i \in 1 .. n : i = 1 \/ (i - 1 \in 1 .. n - 1 /\ (i - 1) + 1 = i)
      /\ \A i \in 1 .. n - 1, j \in 1 .. n : j > i + 1 => j # 1 /\ j - 1 > i
      /\ \A j \in 1 .. n : j > 1 => j # 1
    BY <1>1
<1> HIDE DEF n
<1>3. \A i \in 1 .. n : i # 1 => i - 1 \in DOMAIN t /\ t[i - 1] = q[i]
    BY <1>1, <1>2
<1>4. ASSUME LastIs(q, M, G) PROVE LastIs(t, M, G)
    <2> SUFFICES ASSUME NEW i \in DOMAIN t, t[i] \in M, \A j \in DOMAIN t : j > i => t[j] \notin M
                 PROVE  t[i] \in G
        BY DEF LastIs
    <2>1. i + 1 \in DOMAIN q /\ q[i + 1] = t[i]
        BY <1>1, <1>2
    <2>2. \A j \in DOMAIN q : j > i + 1 => q[j] \notin M
        BY <1>1, <1>2, <1>3
    <2> QED BY <1>4, <2>1, <2>2 DEF LastIs
<1>5. Head(q) \notin M /\ NoneOf(t, M) => NoneOf(q, M)
    BY <1>1, <1>3 DEF NoneOf
<1>6. ASSUME Head(q) \in M, NoneOf(t, M), LastIs(q, M, G) PROVE Head(q) \in G
    <2>1. \A j \in DOMAIN q : j > 1 => q[j] \notin M
        BY <1>1, <1>2, <1>3, <1>6 DEF NoneOf
    <2>2. 1 \in DOMAIN q /\ q[1] = Head(q)
        BY <1>1, <1>2
    <2> QED BY <1>6, <2>1, <2>2 DEF LastIs
<1> QED BY <1>4, <1>5, <1>6

---------------------------------------------------------------------------
(* The device that plays *)

LEMMA OrderIsOnto == \A a \in Addresses : \E i \in DOMAIN Order : Order[i] = a
<1> DEFINE n == Cardinality(Addresses)
<1>1. n \in Nat /\ Order \in [1 .. n -> Addresses]
      /\ \A i, j \in 1 .. n : Order[i] = Order[j] => i = j
    BY OrderIsBijection
<1>2. Order \in Injection(1 .. n, Addresses)
    BY <1>1 DEF Injection, IsInjective
<1>3. IsFiniteSet(1 .. n) /\ Cardinality(1 .. n) = n
    <2>1. n = 0 \/ ~(1 > n)
        BY <1>1
    <2> HIDE DEF n
    <2> QED BY <1>1, <2>1, FS_Interval
<1>4. Order \in Surjection(1 .. n, Addresses)
    <2> HIDE DEF n
    <2> QED BY <1>2, <1>3, AddressAssumption, FS_Injection DEF n
<1> HIDE DEF n
<1> QED BY <1>1, <1>4 DEF Surjection

\* The list has every device, with its slot.
LEMMA EntryOf ==
    ASSUME NEW link \in Links
    PROVE  /\ DOMAIN Entries(link) \in SUBSET Nat /\ 0 \notin DOMAIN Entries(link)
           /\ \A a \in Addresses : \E i \in DOMAIN Entries(link) : Entries(link)[i].address = a
           /\ \A i \in DOMAIN Entries(link) : /\ Entries(link)[i].address \in Addresses
                                              /\ Entries(link)[i].slot = link[Entries(link)[i].address]
<1>1. /\ Cardinality(Addresses) \in Nat /\ DOMAIN Order = 1 .. Cardinality(Addresses)
      /\ \A i \in DOMAIN Order : Order[i] \in Addresses
    BY OrderIsBijection
<1>2. /\ DOMAIN Entries(link) = DOMAIN Order
      /\ \A i \in DOMAIN Order : /\ Entries(link)[i].address = Order[i]
                                 /\ Entries(link)[i].slot = link[Order[i]]
    BY DEF Entries
<1>3. DOMAIN Order \in SUBSET Nat /\ 0 \notin DOMAIN Order
    BY <1>1
<1> QED BY <1>1, <1>2, <1>3, OrderIsOnto

\* The playback device found by its slot is the one that plays ...
LEMMA FoundBySlot ==
    ASSUME NEW link \in Links, NEW a \in Addresses
    PROVE  LET p == PlaybackOf(Entries(link), link[a])
           IN  p # 0 /\ link[Entries(link)[p].address] = link[a]
<1> DEFINE E == Entries(link)
           at == {i \in DOMAIN E : E[i].slot = link[a]}
           p  == PlaybackOf(E, link[a])
<1>1. /\ DOMAIN E \in SUBSET Nat /\ 0 \notin DOMAIN E
      /\ \E i \in DOMAIN E : E[i].address = a
      /\ \A i \in DOMAIN E : E[i].slot = link[E[i].address]
    BY EntryOf
<1>2. p = IF at = {} THEN 0 ELSE CHOOSE i \in at : \A j \in at : i <= j
    BY DEF PlaybackOf
<1> HIDE DEF E
<1>3. at \in SUBSET Nat /\ at # {}
    BY <1>1
<1>4. p \in at
    <2> HIDE DEF at, p
    <2>1. \E i \in at : \A j \in at : i <= j
        BY <1>3, LeastElement
    <2> QED BY <1>2, <1>3, <2>1
<1> HIDE DEF p
<1>5. p # 0 /\ link[E[p].address] = link[a]
    BY <1>1, <1>4
<1> QED BY <1>5 DEF E, p

\* ... and so is the one found by its address.
Lists   == {a \in Answers : a.kind = "list"}
Sources == {a \in Answers : a.kind \in {"list", "switched"}}
Current(link)      == {a \in Lists : a.entries = Entries(link)}
Told(link, source) ==
    {a \in Sources : /\ a.kind = "list" => a.source = source
                     /\ a.kind = "switched" => link[a.address] = source}

\* One of the devices plays.
Playing == dev.source # 0 /\ \E a \in Addresses : dev.link[a] = dev.source

\* Unless links have changed since the list was asked for: the list at hand,
\* or the last on its way, is the one the headphones would send now, and the
\* device marked, or the last named on its way, is the one that plays.
Says(q) ==
    /\ LastIs(q, Lists, Current(dev.link))
    /\ NoneOf(q, Lists) => mp.list = Entries(dev.link)
    /\ LastIs(q, Sources, Told(dev.link, dev.source))
    /\ NoneOf(q, Sources) =>
          mp.playback # 0 /\ dev.link[mp.list[mp.playback].address] = dev.source
Marked == MultipointSupported(fns) /\ ~past.relinked => Says(fromDev)

LEMMA SourceKinds ==
    /\ \A a \in Answers : a.kind \in {"ack", "param"} => a \notin Lists /\ a \notin Sources
    /\ \A a \in Answers : a.kind = "list" => a \in Lists /\ a \in Sources
    /\ \A a \in Answers : a.kind = "switched" => a \notin Lists /\ a \in Sources
    /\ \A q : NoneOf(q, Sources) => NoneOf(q, Lists)
BY DEF Lists, Sources, NoneOf

LEMMA InitMarked == Init => Playing /\ Marked
<1> SUFFICES ASSUME Init PROVE Playing /\ Marked
    OBVIOUS
<1>1. PICK functions \in Advertised, link \in Links, a \in Addresses :
          /\ Connected(link[a])
          /\ \E value, focus : Start(functions, value, link, link[a], focus)
    BY ZenonT(60) DEF Init, Links
<1>2. /\ dev.link = link /\ dev.source = link[a] /\ fns = functions /\ fromDev = <<>>
      /\ MultipointSupported(fns) => mp = Listed(Entries(link), link[a])
    BY <1>1 DEF Start
<1>3. Playing
    BY <1>1, <1>2 DEF Playing, Connected
<1>4. MultipointSupported(fns) =>
          /\ mp.list = Entries(link)
          /\ mp.playback # 0 /\ link[mp.list[mp.playback].address] = link[a]
    BY <1>2, FoundBySlot DEF Listed
<1>5. \A M, G : LastIs(<<>>, M, G)
    BY DEF LastIs
<1> QED BY <1>2, <1>3, <1>4, <1>5 DEF Marked, Says

\* What is not a matter of the devices leaves it all as it is.
LEMMA StillMarked ==
    ASSUME Playing, Marked, UNCHANGED <<fns, mp, fromDev>>,
           UNCHANGED <<dev.link, dev.source, past.relinked>>
    PROVE  (Playing /\ Marked)'
BY DEF Playing, Marked, Says

\* Another message behind the rest.
LEMMA BehindMarked ==
    ASSUME fromDev \in Seq(Answers), Marked, NEW m \in Answers, NEW q, q = Append(fromDev, m),
           m.kind \in {"ack", "param"}
    PROVE  MultipointSupported(fns) /\ ~past.relinked => Says(q)
<1>1. m \notin Lists /\ m \notin Sources
    BY SourceKinds
<1>2. /\ \A G : LastIs(fromDev, Lists, G) => LastIs(q, Lists, G)
      /\ \A G : LastIs(fromDev, Sources, G) => LastIs(q, Sources, G)
      /\ NoneOf(q, Lists) <=> NoneOf(fromDev, Lists)
      /\ NoneOf(q, Sources) <=> NoneOf(fromDev, Sources)
    BY <1>1, LastAppend
<1> QED BY <1>2 DEF Marked, Says

\* What comes behind the ACK is at most one message.
LEMMA SentBehind ==
    ASSUME NEW S, NEW q \in Seq(S), NEW a \in S
    PROVE  /\ (q \o <<a>>) \o <<>> = Append(q, a)
           /\ \A m \in S : (q \o <<a>>) \o <<m>> = Append(Append(q, a), m)
           /\ Append(q, a) \in Seq(S)
OBVIOUS

LEMMA SendMarked ==
    ASSUME TInv, Playing, Marked, SendStep
    PROVE  (Playing /\ Marked)'
<1> DEFINE s == Head(steps)
           q == Append(fromDev, Ack)
<1>1. /\ s \in Steps /\ WriteTyped(s) /\ UNCHANGED <<fns, mp>>
      /\ past'.relinked = Seen(s, past.relinked)
    <2>1. steps \in Seq(Steps) /\ steps # <<>>
        BY DEF SendStep, TInv, EngineTyped
    <2>2. s \in Steps /\ s = steps[1] /\ 1 \in DOMAIN steps
        BY <2>1
    <2> HIDE DEF s
    <2>3. past'.relinked = Seen(s, past.relinked)
        BY DEF SendStep, TInv, EngineTyped, s
    <2> QED BY <2>2, <2>3 DEF SendStep, TInv, WritesTyped
<1>2. PICK x \in Executed(s) : dev' = x.d /\ fromDev' = (fromDev \o <<Ack>>) \o x.answer
    BY DEF SendStep
<1>3. fromDev \in Seq(Answers) /\ Ack \in Answers /\ Ack.kind = "ack"
    BY AnswerKinds DEF TInv, AnswersTyped
<1>4. q \in Seq(Answers)
    BY <1>3
<1> HIDE DEF s, q
<1>5. MultipointSupported(fns) /\ ~past.relinked => Says(q)
    BY <1>3, BehindMarked, Zenon DEF q
<1>6. dev.link \in Links /\ dev.source \in 0 .. 2
    BY DEF TInv, DevTyped
<1>7. \A a : x.answer = <<>> \/ (x.answer = <<a>> /\ a \in Answers)
          => fromDev' = IF x.answer = <<>> THEN q ELSE Append(q, a)
    <2> TAKE a
    <2>1. CASE x.answer = <<>>
        BY <1>2, <1>3, <2>1, SentBehind, Zenon DEF q
    <2>2. CASE x.answer = <<a>> /\ a \in Answers
        <3>1. x.answer # <<>>
            BY <2>2
        <3>2. (fromDev \o <<Ack>>) \o <<a>> = Append(Append(fromDev, Ack), a)
            BY <1>3, <2>2, SentBehind
        <3>3. fromDev' = Append(q, a)
            BY <1>2, <2>2, <3>2, Zenon DEF q
        <3> QED BY <3>1, <3>3
    <2> QED BY <2>1, <2>2
\* Nothing about the devices: no answer, or a report.
<1>8. ASSUME NEW a \in Answers, x.answer = <<>> \/ (x.answer = <<a>> /\ a.kind = "param"),
             x.d.link = dev.link, x.d.source = dev.source,
             s.kind # "link", s # Query("list")
      PROVE  (Playing /\ Marked)'
    <2>1. past'.relinked = past.relinked
        BY <1>1, <1>8 DEF Seen
    <2>2. CASE x.answer = <<>>
        <3>1. fromDev' = q
            BY <1>7, <2>2
        <3> QED BY <1>1, <1>2, <1>5, <1>8, <2>1, <3>1 DEF Playing, Marked, Says
    <2>3. CASE x.answer = <<a>> /\ a.kind = "param"
        <3>1. fromDev' = Append(q, a)
            <4>1. x.answer # <<>>
                BY <2>3
            <4> QED BY <1>7, <2>3, <4>1
        <3>2. a \notin Lists /\ a \notin Sources
            BY <2>3, SourceKinds
        <3>3. /\ \A G : LastIs(q, Lists, G) => LastIs(fromDev', Lists, G)
              /\ \A G : LastIs(q, Sources, G) => LastIs(fromDev', Sources, G)
              /\ NoneOf(fromDev', Lists) <=> NoneOf(q, Lists)
              /\ NoneOf(fromDev', Sources) <=> NoneOf(q, Sources)
            BY <1>4, <3>1, <3>2, LastAppend
        <3> QED BY <1>1, <1>2, <1>5, <1>8, <2>1, <3>3 DEF Playing, Marked, Says
    <2> QED BY <1>8, <2>2, <2>3
<1>9. CASE s.kind = "write"
    <2>1. x.answer = <<>> /\ x.d.link = dev.link /\ x.d.source = dev.source
        <3>1. PICK v : x = [d |-> [dev EXCEPT !.value = v], answer |-> <<>>]
            BY <1>9 DEF Executed
        <3> QED BY <3>1 DEF TInv, DevTyped
    <2>2. s # Query("list")
        BY <1>9 DEF Query
    <2> QED BY <1>3, <1>8, <1>9, <2>1, <2>2
<1>10. CASE s.kind = "query" /\ s # Query("list")
    <2>1. s.what # "list"
        <3>1. \A y \in Steps : y.kind = "query" => y = Query(y.what)
            BY DEF Steps, WriteSteps, Query
        <3> QED BY <1>1, <1>10, <3>1
    <2>2. \/ x = [d |-> dev, answer |-> <<>>]
          \/ x = [d |-> dev, answer |-> <<Report("preset", dev.value)>>]
        BY <1>1, <1>10, <2>1, StepKinds DEF Executed
    <2> DEFINE r == Report("preset", dev.value)
    <2>3. r \in Answers /\ r.kind = "param"
        <3>1. Answer(r)
            BY FieldNames, ReportAnswers DEF TInv, EngineTyped, DevTyped
        <3> QED BY <3>1 DEF Answer, Report
    <2> HIDE DEF r
    <2>4. /\ x.answer = <<>> \/ x.answer = <<r>>
          /\ x.d = dev
        BY <2>2 DEF r
    <2> QED BY <1>8, <1>10, <2>3, <2>4
<1>11. CASE s = Query("list")
    <2> DEFINE r == ListAnswer(dev)
    <2>1. x = [d |-> dev, answer |-> <<r>>]
        BY <1>11 DEF Executed, Query
    <2>2. Entries(dev.link) \in Listing
        BY <1>6, EntriesListed
    <2>3. r \in Answers /\ r \in Lists /\ r \in Sources
          /\ r \in Current(dev.link) /\ r \in Told(dev.link, dev.source)
        BY <1>6, <2>2 DEF ListAnswer, Answers, Lists, Sources, Current, Told
    <2> HIDE DEF r
    <2>4. x.answer = <<r>> /\ x.answer # <<>> /\ dev' = dev
        BY <1>2, <2>1
    <2>5. fromDev' = Append(q, r)
        BY <1>7, <2>3, <2>4
    <2>6. /\ LastIs(fromDev', Lists, Current(dev.link)) /\ ~NoneOf(fromDev', Lists)
          /\ LastIs(fromDev', Sources, Told(dev.link, dev.source)) /\ ~NoneOf(fromDev', Sources)
        <3> DEFINE G == Current(dev.link)  H == Told(dev.link, dev.source)
        <3> HIDE DEF G, H
        <3>1. r \in G /\ r \in H
            BY <2>3 DEF G, H
        <3>2. LastIs(fromDev', Lists, G) /\ ~NoneOf(fromDev', Lists)
            BY <1>4, <2>3, <2>5, <3>1, LastAppend, Zenon
        <3>3. LastIs(fromDev', Sources, H) /\ ~NoneOf(fromDev', Sources)
            BY <1>4, <2>3, <2>5, <3>1, LastAppend, Zenon
        <3> QED BY <3>2, <3>3 DEF G, H
    <2> QED BY <2>4, <2>6 DEF Playing, Marked, Says
<1>12. CASE s.kind = "switch"
    <2> DEFINE r == [kind |-> "switched", address |-> s.address]
               d == [dev EXCEPT !.source = dev.link[s.address]]
    <2>1. s.address \in Addresses /\ s # Query("list")
        BY <1>1, <1>12, StepKinds DEF Query
    <2>2. \/ x = [d |-> dev, answer |-> <<>>]
          \/ x = [d |-> d, answer |-> <<r>>] /\ Connected(dev.link[s.address])
        BY <1>12 DEF Executed
    <2>3. CASE x = [d |-> dev, answer |-> <<>>]
        BY <1>3, <1>8, <1>12, <2>1, <2>3
    <2>4. CASE x = [d |-> d, answer |-> <<r>>] /\ Connected(dev.link[s.address])
        <3>1. /\ d.link = dev.link /\ d.source = dev.link[s.address] /\ d.source # 0
            BY <2>4 DEF TInv, DevTyped, Connected
        <3>2. r \in Answers /\ r \notin Lists /\ r \in Sources /\ r \in Told(d.link, d.source)
            BY <2>1, <3>1 DEF Answers, Lists, Sources, Told
        <3> HIDE DEF r, d
        <3>3. x.answer = <<r>> /\ x.answer # <<>> /\ dev' = d
            BY <1>2, <2>4
        <3>4. fromDev' = Append(q, r)
            BY <1>7, <3>2, <3>3
        <3>5. /\ \A G : LastIs(q, Lists, G) => LastIs(fromDev', Lists, G)
              /\ NoneOf(fromDev', Lists) <=> NoneOf(q, Lists)
              /\ LastIs(fromDev', Sources, Told(d.link, d.source)) /\ ~NoneOf(fromDev', Sources)
            <4> DEFINE H == Told(d.link, d.source)
            <4> HIDE DEF H
            <4>1. r \in H
                BY <3>2 DEF H
            <4>2. /\ \A G : LastIs(q, Lists, G) => LastIs(fromDev', Lists, G)
                  /\ NoneOf(fromDev', Lists) <=> NoneOf(q, Lists)
                BY <1>4, <3>2, <3>4, LastAppend, Zenon
            <4>3. LastIs(fromDev', Sources, H) /\ ~NoneOf(fromDev', Sources)
                BY <1>4, <3>2, <3>4, <4>1, LastAppend, Zenon
            <4> QED BY <4>2, <4>3 DEF H
        <3>6. past'.relinked = past.relinked
            BY <1>1, <1>12, <2>1 DEF Seen
        <3> QED BY <1>1, <1>5, <2>1, <3>1, <3>3, <3>5, <3>6 DEF Playing, Marked, Says
    <2> QED BY <2>2, <2>3, <2>4
<1>13. CASE s.kind = "link"
    <2>1. past'.relinked = TRUE
        <3>1. s # Query("list")
            BY <1>13 DEF Query
        <3> QED BY <1>1, <1>13, <3>1 DEF Seen
    <2>2. s.address \in Addresses
        BY <1>1, <1>13, StepKinds
    <2>3. \/ x.d = dev
          \/ \E slot \in FreeSlots : /\ x.d = [dev EXCEPT !.link[s.address] = slot]
                                     /\ ~Connected(dev.link[s.address])
        BY <1>13 DEF Executed
    <2>4. Playing'
        <3>1. CASE x.d = dev
            BY <1>2, <3>1 DEF Playing
        <3>2. ASSUME NEW slot \in FreeSlots, x.d = [dev EXCEPT !.link[s.address] = slot],
                     ~Connected(dev.link[s.address])
              PROVE  Playing'
            <4>1. PICK a \in Addresses : dev.link[a] = dev.source /\ dev.source # 0
                BY DEF Playing
            <4>2. a # s.address
                BY <3>2, <4>1 DEF Connected
            <4>3. dev'.source = dev.source /\ dev'.link[a] = dev.link[a]
                BY <1>2, <2>2, <3>2, <4>2 DEF TInv, DevTyped, Links
            <4> QED BY <4>1, <4>3 DEF Playing
        <3> QED BY <2>3, <3>1, <3>2
    <2> QED BY <2>1, <2>4 DEF Marked
<1> QED BY <1>1, <1>9, <1>10, <1>11, <1>12, <1>13, StepKinds

LEMMA ReceiveMarked ==
    ASSUME TInv, Playing, Marked, Receive
    PROVE  (Playing /\ Marked)'
<1> DEFINE m == Head(fromDev)
           L == Current(dev.link)
           T == Told(dev.link, dev.source)
<1>1. fromDev # <<>> /\ fromDev' = Tail(fromDev) /\ UNCHANGED <<fns, dev>>
    BY DEF Receive, ReceiveAck, ReceiveParam, ReceiveList, ReceiveSwitched, Incoming, task_vars
<1>2. fromDev \in Seq(Answers) /\ m \in Answers
    <2>1. fromDev \in Seq(Answers)
        BY DEF TInv, AnswersTyped
    <2> QED BY <1>1, <2>1
<1>3. past'.relinked = past.relinked
    BY DEF Receive, ReceiveAck, ReceiveParam, ReceiveList, ReceiveSwitched, TInv, EngineTyped
<1>4. dev.link \in Links /\ dev.source \in 0 .. 2
    BY DEF TInv, DevTyped
<1> HIDE DEF m, L, T
<1>5. /\ LastIs(fromDev, Lists, L) => LastIs(fromDev', Lists, L)
      /\ m \notin Lists /\ NoneOf(fromDev', Lists) => NoneOf(fromDev, Lists)
      /\ m \in Lists /\ NoneOf(fromDev', Lists) /\ LastIs(fromDev, Lists, L) => m \in L
    BY <1>1, <1>2, LastTail, Zenon DEF m
<1>6. /\ LastIs(fromDev, Sources, T) => LastIs(fromDev', Sources, T)
      /\ m \notin Sources /\ NoneOf(fromDev', Sources) => NoneOf(fromDev, Sources)
      /\ m \in Sources /\ NoneOf(fromDev', Sources) /\ LastIs(fromDev, Sources, T) => m \in T
    BY <1>1, <1>2, LastTail, Zenon DEF m
<1>7. Playing'
    BY <1>1 DEF Playing
<1> SUFFICES ASSUME MultipointSupported(fns), ~past.relinked PROVE Says(fromDev)'
    BY <1>1, <1>3, <1>7 DEF Marked
<1>8. Says(fromDev)
    BY DEF Marked
<1>9. LastIs(fromDev', Lists, L) /\ LastIs(fromDev', Sources, T)
    BY <1>5, <1>6, <1>8 DEF Says, L, T
<1>10. CASE ReceiveAck \/ ReceiveParam
    <2>1. m.kind \in {"ack", "param"} /\ UNCHANGED mp
        BY <1>10 DEF ReceiveAck, ReceiveParam, Incoming, m
    <2>2. m \notin Lists /\ m \notin Sources
        BY <1>2, <2>1, SourceKinds
    <2> QED BY <1>1, <1>5, <1>6, <1>8, <1>9, <2>1, <2>2 DEF Says, L, T
<1>11. CASE ReceiveList
    <2>1. m.kind = "list" /\ mp' = Listed(m.entries, m.source)
        BY <1>11 DEF ReceiveList, Incoming, m
    <2>2. m \in Lists /\ m \in Sources
        BY <1>2, <2>1, SourceKinds
    <2>3. mp'.list = m.entries /\ mp'.playback = PlaybackOf(m.entries, m.source)
        BY <2>1 DEF Listed
    <2>4. ASSUME NoneOf(fromDev', Lists) PROVE mp'.list = Entries(dev.link)
        BY <1>5, <1>8, <2>2, <2>3, <2>4 DEF Says, L, Current
    <2>5. ASSUME NoneOf(fromDev', Sources)
          PROVE  mp'.playback # 0 /\ dev.link[mp'.list[mp'.playback].address] = dev.source
        <3>1. m.source = dev.source
            BY <1>6, <1>8, <2>1, <2>2, <2>5 DEF Says, T, Told
        <3>2. m.entries = Entries(dev.link)
            BY <2>3, <2>4, <2>5, SourceKinds
        <3>3. PICK a \in Addresses : dev.link[a] = dev.source
            BY Zenon DEF Playing
        <3> QED BY <1>4, <2>3, <3>1, <3>2, <3>3, FoundBySlot
    <2> QED BY <1>1, <1>9, <2>4, <2>5 DEF Says, L, T
<1>12. CASE ReceiveSwitched
    <2> DEFINE at == {i \in DOMAIN mp.list : mp.list[i].address = m.address}
               p  == IF at = {} THEN 0 ELSE CHOOSE i \in at : TRUE
    <2>1. m.kind = "switched" /\ mp' = [mp EXCEPT !.playback = p]
        BY <1>12 DEF ReceiveSwitched, Incoming, m
    <2>2. m \notin Lists /\ m \in Sources /\ m.address \in Addresses
        BY <1>2, <2>1, SourceKinds, AnswerKinds
    <2>3. mp'.list = mp.list /\ mp'.playback = p
        <3> HIDE DEF p
        <3> QED BY <2>1 DEF TInv, EngineTyped
    <2>4. ASSUME NoneOf(fromDev', Lists) PROVE mp.list = Entries(dev.link)
        BY <1>5, <1>8, <2>2, <2>4 DEF Says
    <2>5. ASSUME NoneOf(fromDev', Sources)
          PROVE  mp'.playback # 0 /\ dev.link[mp'.list[mp'.playback].address] = dev.source
        <3> DEFINE E == Entries(dev.link)
        <3>1. dev.link[m.address] = dev.source
            BY <1>6, <1>8, <2>1, <2>2, <2>5 DEF Says, T, Told
        <3>2. mp.list = E
            BY <2>4, <2>5, SourceKinds
        <3>3. 0 \notin DOMAIN E /\ \E i \in DOMAIN E : E[i].address = m.address
            BY <1>4, <2>2, EntryOf
        <3> HIDE DEF E
        <3>4. at # {} /\ 0 \notin at
            BY <3>2, <3>3
        <3>5. p \in at
            <4> HIDE DEF at
            <4> QED BY <3>4
        <3>6. p # 0 /\ mp.list[p].address = m.address
            <4> HIDE DEF p
            <4> QED BY <3>4, <3>5
        <3> QED BY <2>3, <3>1, <3>6
    <2> QED BY <1>1, <1>9, <2>3, <2>4, <2>5 DEF Says, L, T
<1> QED BY <1>10, <1>11, <1>12 DEF Receive

LEMMA OwnerMarked ==
    ASSUME TInv, Playing, Marked, Owner
    PROVE  (Playing /\ Marked)'
<1>0. fromDev \in Seq(Answers) /\ dev.link \in Links
    BY DEF TInv, AnswersTyped, DevTyped
<1>1. ASSUME NEW f \in Fields, NEW v \in Samples(f), DeviceChanges(f, v) PROVE (Playing /\ Marked)'
    <2> DEFINE value == [dev.value EXCEPT ![f] = v, !["bands"] = IF f = "preset" THEN v ELSE @]
               r == Report(f, value)
    <2>1. dev' = [dev EXCEPT !.value = value] /\ fromDev' = Append(fromDev, r) /\ UNCHANGED <<fns, mp>>
        BY <1>1 DEF DeviceChanges
    <2>2. past'.relinked = past.relinked
        <3>1. \E o : past' = [past EXCEPT !.own = o]
            BY <1>1 DEF DeviceChanges
        <3> QED BY <3>1 DEF TInv, EngineTyped
    <2>3. r.kind = "param"
        BY DEF Report
    <2>4. r \in Answers
        <3>1. DOMAIN fromDev' = 1 .. Len(fromDev) + 1 /\ fromDev'[Len(fromDev) + 1] = r
            <4> HIDE DEF r
            <4> QED BY <1>0, <2>1
        <3>2. fromDev' \in Seq(Answers)
            BY <1>1, OwnerTyped DEF Owner, TInv, AnswersTyped
        <3> HIDE DEF r
        <3> QED BY <1>0, <3>1, <3>2
    <2> HIDE DEF r, value
    <2>5. dev'.link = dev.link /\ dev'.source = dev.source
        BY <2>1 DEF TInv, DevTyped
    <2>6. MultipointSupported(fns) /\ ~past.relinked => Says(fromDev')
        BY <1>0, <2>1, <2>3, <2>4, BehindMarked, Zenon
    <2> QED BY <2>1, <2>2, <2>5, <2>6 DEF Playing, Marked, Says
<1>2. ASSUME NEW a \in Addresses, DeviceSwitches(a) PROVE (Playing /\ Marked)'
    <2> DEFINE r == [kind |-> "switched", address |-> a]
               H == Told(dev'.link, dev'.source)
    <2>1. /\ dev' = [dev EXCEPT !.source = dev.link[a]] /\ fromDev' = Append(fromDev, r)
          /\ dev.link[a] # 0 /\ UNCHANGED <<fns, mp, past>>
        BY <1>2 DEF DeviceSwitches, Connected
    <2>2. dev'.link = dev.link /\ dev'.source = dev.link[a]
        BY <2>1 DEF TInv, DevTyped
    <2>3. r \in Answers /\ r \notin Lists /\ r \in Sources /\ r \in H
        BY <2>2 DEF Answers, Lists, Sources, Told
    <2> HIDE DEF r, H
    <2>4. /\ \A G : LastIs(fromDev, Lists, G) => LastIs(fromDev', Lists, G)
          /\ NoneOf(fromDev', Lists) <=> NoneOf(fromDev, Lists)
        BY <1>0, <2>1, <2>3, LastAppend, Zenon
    <2>5. LastIs(fromDev', Sources, H) /\ ~NoneOf(fromDev', Sources)
        BY <1>0, <2>1, <2>3, LastAppend, Zenon
    <2> QED BY <2>1, <2>2, <2>4, <2>5 DEF Playing, Marked, Says, H
<1>3. ASSUME NEW a \in Addresses, DeviceRelinks(a) PROVE (Playing /\ Marked)'
    <2>1. /\ dev.link[a] # dev.source
          /\ \E slot : dev' = [dev EXCEPT !.link[a] = slot]
          /\ past' = [past EXCEPT !.relinked = TRUE]
        BY <1>3, Zenon DEF DeviceRelinks
    <2>2. past'.relinked = TRUE
        BY <2>1 DEF TInv, EngineTyped
    <2>3. PICK b \in Addresses : dev.link[b] = dev.source /\ dev.source # 0
        BY DEF Playing
    <2>4. dev'.source = dev.source /\ dev'.link[b] = dev.link[b]
        BY <2>1, <2>3 DEF TInv, DevTyped, Links
    <2> QED BY <2>2, <2>3, <2>4 DEF Playing, Marked
<1> QED BY <1>1, <1>2, <1>3 DEF Owner

\* The rest are matters of the settings.
LEMMA SetDesiredAside ==
    ASSUME TInv, NEW d, SetDesired(d)
    PROVE  UNCHANGED <<fns, mp, fromDev, dev>> /\ past'.relinked = past.relinked
BY DEF SetDesired, TInv, EngineTyped

LEMMA UserAside ==
    ASSUME TInv, User
    PROVE  UNCHANGED <<fns, mp, fromDev, dev>> /\ past'.relinked = past.relinked
<1>1. ASSUME \E d : SetDesired(d)
      PROVE  UNCHANGED <<fns, mp, fromDev, dev>> /\ past'.relinked = past.relinked
    BY <1>1, SetDesiredAside
<1>2. ASSUME NEW f, NEW v, SetField(f, v) PROVE \E d : SetDesired(d)
    BY <1>2 DEF SetField
<1>3. ASSUME NEW f, NEW delta, Nudge(f, delta) PROVE \E d : SetDesired(d)
    BY <1>3, Zenon DEF Nudge
<1>4. PowerDown \/ SetAmbientMode \/ CycleAmbientMode => \E d : SetDesired(d)
    BY Zenon DEF PowerDown, SetAmbientMode, CycleAmbientMode
<1>5. CASE MultipointCommand \/ RefreshSync
    BY <1>5 DEF MultipointCommand, RefreshSync, StartSync, TInv, EngineTyped
<1> QED BY <1>1, <1>2, <1>3, <1>4, <1>5 DEF User

LEMMA TasksAside ==
    ASSUME TInv, StartCommit \/ PeriodicSync \/ TaskDone
    PROVE  UNCHANGED <<fns, mp, fromDev, dev>> /\ past'.relinked = past.relinked
BY DEF StartCommit, PeriodicSync, TaskDone, StartSync, BuildCommit, TInv, EngineTyped

\* The device marked as playing in the multipoint menu is the one that plays,
\* once the messages under way are in (apply_multipoint_list finds it by its
\* slot, apply_report by its address): for any devices paired and linked,
\* whoever moves the playback, unless a device has come or gone since the list
\* was asked for.
THEOREM PlaybackStaysReal == Spec => []PlaybackIsReal
<1> DEFINE I == TInv /\ Playing /\ Marked
<1>1. Init => I
    BY InitTyped, InitMarked
<1>2. I /\ [Next]_vars => I'
    <2> SUFFICES ASSUME I, [Next]_vars PROVE (Playing /\ Marked)'
        BY StepTyped
    <2>1. ASSUME UNCHANGED <<fns, mp, fromDev, dev>>, past'.relinked = past.relinked
          PROVE  (Playing /\ Marked)'
        BY <2>1, StillMarked
    <2>2. CASE UNCHANGED vars
        BY <2>1, <2>2 DEF vars
    <2>3. CASE User
        BY <2>1, <2>3, UserAside
    <2>4. CASE StartCommit \/ PeriodicSync \/ TaskDone
        BY <2>1, <2>4, TasksAside
    <2> QED BY <2>2, <2>3, <2>4, SendMarked, ReceiveMarked, OwnerMarked DEF Next
<1>3. I => PlaybackIsReal
    <2>1. \A M : NoneOf(<<>>, M)
        BY DEF NoneOf
    <2> QED BY <2>1 DEF PlaybackIsReal, Marked, Says
<1> QED BY <1>1, <1>2, <1>3, PTL DEF Spec

---------------------------------------------------------------------------
(* What the headphones tell of a field *)

\* The reports of a field, and those that report it as v.
Reports(f)      == {a \in Answers : a.kind = "param" /\ f \in DOMAIN a.values}
Reporting(f, v) == {a \in Reports(f) : a.values[f] = v}

\* Nothing about the field is on its way.
Silent(f) == NoneOf(fromDev, Reports(f))

\* The fields the app should know: read at the start, and not thrown off by an
\* edit or a report crossing a write.
Followed == (ReadAtInit(fns) \intersect Existing(fns)) \ past.astray

\* What is last reported of a field is its value; the bands are never edited.
BandsClean == ~Dirty("bands")
Truthful   == \A f \in Followed : LastIs(fromDev, Reports(f), Reporting(f, dev.value[f]))

LEMMA ReadFields ==
    ASSUME NEW functions
    PROVE  /\ ReadAtInit(functions) \subseteq Fields \ {"shutdown"}
           /\ Existing(functions) \subseteq Fields
<1>1. \A v \in DOMAIN VariantFields : VariantFields[v] \subseteq Members["NcAsmGroup"]
    BY DEF VariantFields, Members
<1>2. QueriedVariant(functions) \in DOMAIN VariantFields
    BY DEF VariantFields, QueriedVariant
<1>3. \A g \in DOMAIN Needs : g \in Groups
    BY DEF Needs, Groups, Members
<1>4. /\ Members["Shutdown"] = {"shutdown"} /\ "Shutdown" \in Groups /\ "NcAsmGroup" \in Groups
      /\ QueriedGroups \subseteq DOMAIN Needs \ {"Shutdown"}
    BY DEF Members, Groups, QueriedGroups
<1>5. \A g \in Groups : g # "Shutdown" => Members[g] \subseteq Fields \ {"shutdown"}
    BY <1>4, GroupFields
<1>6. VariantFields[QueriedVariant(functions)] \subseteq Fields \ {"shutdown"}
    BY <1>1, <1>2, <1>4, <1>5
<1>7. UNION {Members[g] : g \in {h \in QueriedGroups : Needs[h] \in functions}}
          \subseteq Fields \ {"shutdown"}
    BY <1>3, <1>4, <1>5
<1>8. ReadAtInit(functions) \subseteq Fields \ {"shutdown"}
    BY <1>6, <1>7, FieldNames DEF ReadAtInit
<1>9. /\ UNION {VariantFields[v] : v \in functions \intersect DOMAIN VariantFields} \subseteq Fields
      /\ UNION {Members[g] : g \in {h \in DOMAIN Needs \ {"Shutdown"} : Needs[h] \in functions}}
             \subseteq Fields
    BY <1>1, <1>3, <1>4, GroupFields
<1>10. Existing(functions) \subseteq Fields
    BY <1>9, FieldNames DEF Existing, When
<1> QED BY <1>8, <1>10

\* A field is in its own report, except for what NcAsmQuery does not read.
LEMMA OwnReport ==
    ASSUME NEW functions, NEW f \in Fields,
           f \in Members["NcAsmGroup"] => f \in VariantFields[QueriedVariant(functions)]
    PROVE  f \in ReportOf(f, functions)
BY DEF ReportOf

\* Of the NC/ASM fields those of the variant queried are read at the start.
LEMMA ReadAmbient ==
    ASSUME NEW functions, NEW f \in ReadAtInit(functions), f \in Members["NcAsmGroup"]
    PROVE  f \in VariantFields[QueriedVariant(functions)]
<1>1. \A g \in QueriedGroups : g \in Groups /\ g # "NcAsmGroup"
    BY DEF QueriedGroups, Needs, Groups, Members
<1>2. \A g \in QueriedGroups : f \notin Members[g]
    BY <1>1, GroupFields DEF Groups, Members
<1>3. f \notin UNION {Members[g] : g \in {h \in QueriedGroups : Needs[h] \in functions}}
    BY <1>2
<1>4. f \notin {"volume", "preset", "bands", "eqOn", "autoPause", "powerOff", "voice", "voiceVol"}
    BY DEF Members
<1> QED BY <1>3, <1>4 DEF ReadAtInit

LEMMA ReadIsReported ==
    ASSUME NEW functions, NEW f \in ReadAtInit(functions)
    PROVE  f \in ReportOf(f, functions)
BY ReadFields, OwnReport, ReadAmbient

\* The equalizer reports the preset with the bands.
LEMMA EqReport ==
    /\ \A functions : ReportOf("preset", functions) = {"preset", "bands"}
    /\ \A functions : ReportOf("bands", functions) = {"preset", "bands"}
    /\ \A f \in Fields \ {"preset", "bands"} : \A functions :
           ReportOf(f, functions) \intersect {"preset", "bands"} = {}
<1>1. \A functions : VariantFields[QueriedVariant(functions)] \intersect {"preset", "bands"} = {}
    BY DEF VariantFields, QueriedVariant
<1>2. /\ \A functions : ReportOf("preset", functions) = {"preset", "bands"}
      /\ \A functions : ReportOf("bands", functions) = {"preset", "bands"}
    BY DEF ReportOf, Members
<1>3. \A f \in Fields \ {"preset", "bands"} : \A functions :
          ReportOf(f, functions) \intersect {"preset", "bands"} = {}
    BY <1>1 DEF ReportOf, Members
<1> QED BY <1>2, <1>3

LEMMA EqReported == \A a \in Answers : a \in Reports("bands") <=> a \in Reports("preset")
<1> DEFINE domains == {ReportOf(f, functions) : f \in Fields, functions \in Advertised}
<1>1. ASSUME NEW S \in domains PROVE "bands" \in S <=> "preset" \in S
    <2>1. PICK f \in Fields, functions \in Advertised : S = ReportOf(f, functions)
        OBVIOUS
    <2>2. CASE f \in {"preset", "bands"}
        BY <2>1, <2>2, EqReport
    <2>3. CASE f \notin {"preset", "bands"}
        <3>1. S \intersect {"preset", "bands"} = {}
            BY <2>1, <2>3, EqReport
        <3> QED BY <3>1
    <2> QED BY <2>2, <2>3
<1>2. \A v \in Functions(domains) : "bands" \in DOMAIN v <=> "preset" \in DOMAIN v
    <2> HIDE DEF domains
    <2> QED BY <1>1 DEF Functions
<1>3. \A a \in Answers : a.kind = "param" => a.values \in Functions(domains)
    BY DEF Answers, Ack
<1> HIDE DEF domains
<1>4. \A a \in Answers : a.kind = "param" => ("bands" \in DOMAIN a.values <=> "preset" \in DOMAIN a.values)
    BY <1>2, <1>3
<1> QED BY <1>4 DEF Reports

\* What is in flight, by its messages.
LEMMA FlightIsReports ==
    ASSUME fromDev \in Seq(Answers), NEW f
    PROVE  f \in InFlight <=> ~Silent(f)
<1> DEFINE S == {DOMAIN fromDev[i].values : i \in {j \in DOMAIN fromDev : fromDev[j].kind = "param"}}
<1>1. InFlight = UNION S
    BY DEF InFlight
<1>2. f \in UNION S <=> \E M \in S : f \in M
    <2> HIDE DEF S
    <2> QED BY Zenon
<1>3. (\E M \in S : f \in M)
         <=> \E i \in DOMAIN fromDev : fromDev[i].kind = "param" /\ f \in DOMAIN fromDev[i].values
    OBVIOUS
<1>4. \A i \in DOMAIN fromDev : fromDev[i] \in Answers
    OBVIOUS
<1> HIDE DEF S
<1> QED BY <1>1, <1>2, <1>3, <1>4 DEF Silent, NoneOf, Reports

LEMMA OthersSilent ==
    \A a \in Answers : a.kind # "param" => \A f : a \notin Reports(f)
BY DEF Reports

\* Overwriting a report of a field: what was dirty may become clean.
LEMMA OverwrittenFields ==
    ASSUME NEW p, NEW values, NEW f \in Fields
    PROVE  /\ f \notin DOMAIN values => Overwritten(p, values)[f] = p[f]
           /\ f \in DOMAIN values /\ f # "level" => Overwritten(p, values)[f] = Prop(values[f])
           /\ f \in DOMAIN values /\ f = "level" /\ ~(values[f] > 0) => Overwritten(p, values)[f] = p[f]
           /\ f \in DOMAIN values /\ f = "level" /\ values[f] > 0 =>
                  Overwritten(p, values)[f] = Prop(Clamp(values[f], 1, 20))
BY DEF Overwritten

---------------------------------------------------------------------------
(* What a step does, field by field *)

\* The headphones carry a step out: a write takes effect in its fields, or in
\* the preset and its bands, and the answer to the equalizer's query tells both.
ValueSent(s, value) ==
    /\ value \in [Fields -> Int]
    /\ s.kind # "write" => value = dev.value
    /\ s.kind = "write" /\ s.group # "EqPreset" =>
          \A f \in Fields : value[f] = IF f \in DOMAIN s.values THEN s.values[f] ELSE dev.value[f]
    /\ s.kind = "write" /\ s.group = "EqPreset" =>
          \A f \in Fields \ {"preset", "bands"} : value[f] = dev.value[f]

SaidBy(s, q) ==
    /\ q \in Seq(Answers)
    /\ \A f \in Fields : NoneOf(q, Reports(f)) <=>
           Silent(f) /\ ~(s = Query("eq") /\ f \in {"preset", "bands"})
    /\ \A f \in Fields : \A v :
           /\ LastIs(fromDev, Reports(f), Reporting(f, v))
           /\ s = Query("eq") /\ f \in {"preset", "bands"} => v = dev.value[f]
           => LastIs(q, Reports(f), Reporting(f, v))

\* The headphones are sent step s.
Sends(s) ==
    /\ s \in Steps /\ WriteTyped(s) /\ steps # <<>> /\ waiting = None
    /\ waiting' = s /\ waiting' # None /\ s = steps[1] /\ steps' = Tail(steps)
    /\ UNCHANGED <<fns, props, task>> /\ past'.own = past.own
    /\ s.kind = "write" =>
          past'.astray = past.astray \union Following(DOMAIN s.values \intersect InFlight)
    /\ s.kind # "write" => past'.astray = past.astray

LEMMA SendFacts ==
    ASSUME TInv, SendStep
    PROVE  \E s : Sends(s) /\ ValueSent(s, dev'.value) /\ SaidBy(s, fromDev')
<1> DEFINE s == Head(steps)  q == Append(fromDev, Ack)
<1>1. /\ s \in Steps /\ s = steps[1] /\ 1 \in DOMAIN steps /\ steps # <<>> /\ waiting = None
      /\ waiting' = s /\ steps' = Tail(steps) /\ UNCHANGED <<fns, props, task>>
    <2>1. steps \in Seq(Steps) /\ steps # <<>>
        BY DEF SendStep, TInv, EngineTyped
    <2> QED BY <2>1 DEF SendStep
<1>2. WriteTyped(s) /\ s # None
    BY <1>1, StepAssumption DEF TInv, WritesTyped
<1>3. /\ past'.own = past.own
      /\ s.kind = "write" => past'.astray = past.astray \union
                      Following(DOMAIN s.values \intersect InFlight)
      /\ s.kind # "write" => past'.astray = past.astray
    BY DEF SendStep, TInv, EngineTyped
<1>4. PICK x \in Executed(s) : dev' = x.d /\ fromDev' = (fromDev \o <<Ack>>) \o x.answer
    BY DEF SendStep
<1> SUFFICES ValueSent(s, dev'.value) /\ SaidBy(s, fromDev')
    BY <1>1, <1>2, <1>3 DEF Sends, s
<1> HIDE DEF s
<1>5. fromDev \in Seq(Answers) /\ Ack \in Answers /\ Ack.kind # "param"
    BY AnswerKinds DEF TInv, AnswersTyped
<1>6. dev \in [value : [Fields -> Int], link : Links, source : 0 .. 2]
    BY DEF TInv, DevTyped
<1>7. q \in Seq(Answers)
    BY <1>5
<1> HIDE DEF q
<1>8. \A f : (NoneOf(q, Reports(f)) <=> Silent(f))
             /\ \A v : LastIs(fromDev, Reports(f), Reporting(f, v))
                           => LastIs(q, Reports(f), Reporting(f, v))
    <2> TAKE f
    <2>1. Ack \notin Reports(f)
        BY <1>5, OthersSilent
    <2> QED BY <1>5, <2>1, LastAppend, Zenon DEF q, Silent
\* A message that is no report changes nothing.
<1>9. ASSUME s # Query("eq"), NEW a \in Answers, a.kind # "param",
             x.answer = <<>> \/ x.answer = <<a>>
      PROVE  SaidBy(s, fromDev')
    <2>1. CASE x.answer = <<>>
        <3>1. fromDev' = q
            BY <1>4, <1>5, <2>1, SentBehind, Zenon DEF q
        <3> QED BY <1>7, <1>8, <1>9, <3>1 DEF SaidBy
    <2>2. CASE x.answer = <<a>>
        <3>0. (fromDev \o <<Ack>>) \o <<a>> = Append(Append(fromDev, Ack), a)
            BY <1>5, SentBehind
        <3>1. fromDev' = Append(q, a)
            BY <1>4, <2>2, <3>0, Zenon DEF q
        <3>2. fromDev' \in Seq(Answers)
            BY <1>7, <3>1
        <3>3. \A f : (NoneOf(fromDev', Reports(f)) <=> Silent(f))
                     /\ \A v : LastIs(fromDev, Reports(f), Reporting(f, v))
                                   => LastIs(fromDev', Reports(f), Reporting(f, v))
            <4> TAKE f
            <4>1. a \notin Reports(f)
                BY <1>9, OthersSilent
            <4>2. NoneOf(fromDev', Reports(f)) <=> NoneOf(q, Reports(f))
                BY <1>7, <3>1, <4>1, LastAppend, Zenon
            <4>3. \A G : LastIs(q, Reports(f), G) => LastIs(fromDev', Reports(f), G)
                BY <1>7, <3>1, <4>1, LastAppend, Zenon
            <4> QED BY <1>8, <4>2, <4>3, Zenon
        <3> QED BY <1>9, <3>2, <3>3 DEF SaidBy
    <2> QED BY <1>9, <2>1, <2>2
<1>10. CASE s.kind = "write"
    <2>1. PICK v \in Stored(s) : x = [d |-> [dev EXCEPT !.value = v], answer |-> <<>>]
        BY <1>10 DEF Executed
    <2>2. s # Query("eq")
        BY <1>10 DEF Query
    <2>3. SaidBy(s, fromDev')
        BY <1>5, <1>9, <2>1, <2>2
    <2>4. dev'.value = v
        BY <1>4, <1>6, <2>1
    <2>5. DOMAIN s.values \subseteq Fields
        BY <1>1, <1>2, <1>10, StepKinds, CarriedFields DEF WriteTyped
    <2>6. ValueSent(s, v)
        <3>1. v \in [Fields -> Int]
            BY <1>1, <1>2, <1>10, StoredFits DEF TInv
        <3>2. CASE s.group = "EqPreset"
            <4>1. PICK w : v = [dev.value EXCEPT !["preset"] = w, !["bands"] = w]
                BY <3>2 DEF Stored
            <4>2. \A f \in Fields \ {"preset", "bands"} : v[f] = dev.value[f]
                BY <1>6, <4>1
            <4> QED BY <1>10, <3>1, <3>2, <4>2 DEF ValueSent
        <3>3. CASE s.group # "EqPreset"
            <4>1. v = Over(s.values, dev.value)
                BY <3>3 DEF Stored
            <4>2. \A f \in Fields : v[f] = IF f \in DOMAIN s.values THEN s.values[f] ELSE dev.value[f]
                BY <1>6, <2>5, <4>1 DEF Over
            <4> QED BY <1>10, <3>1, <3>3, <4>2 DEF ValueSent
        <3> QED BY <3>2, <3>3
    <2> QED BY <2>3, <2>4, <2>6
<1>11. ASSUME dev'.value = dev.value, s.kind # "write", SaidBy(s, fromDev')
       PROVE  ValueSent(s, dev'.value) /\ SaidBy(s, fromDev')
    BY <1>6, <1>11 DEF ValueSent
<1>12. CASE s.kind = "query" /\ s # Query("eq")
    <2>1. s.what # "eq"
        <3>1. \A y \in Steps : y.kind = "query" => y = Query(y.what)
            BY DEF Steps, WriteSteps, Query
        <3> QED BY <1>1, <1>12, <3>1
    <2> DEFINE r == ListAnswer(dev)
    <2>2. x = [d |-> dev, answer |-> <<>>] \/ x = [d |-> dev, answer |-> <<r>>]
        BY <1>1, <1>12, <2>1, StepKinds DEF Executed
    <2>3. r \in Answers /\ r.kind # "param"
        <3>1. Entries(dev.link) \in Listing
            BY <1>6, EntriesListed
        <3> QED BY <1>6, <3>1 DEF ListAnswer, Answers
    <2> HIDE DEF r
    <2>4. x.d = dev /\ (x.answer = <<>> \/ x.answer = <<r>>)
        BY <2>2
    <2> QED BY <1>4, <1>9, <1>11, <1>12, <2>3, <2>4
<1>13. CASE s = Query("eq")
    <2> DEFINE r == Report("preset", dev.value)
    <2>1. x = [d |-> dev, answer |-> <<r>>] /\ s.kind = "query"
        BY <1>13 DEF Executed, Query
    <2>2. r \in Answers
        BY <1>6, FieldNames, ReportAnswers DEF Answer, TInv, EngineTyped, DevTyped
    <2>3. r.kind = "param" /\ DOMAIN r.values = {"preset", "bands"}
          /\ \A f \in {"preset", "bands"} : r.values[f] = dev.value[f]
        BY EqReport DEF Report
    <2> HIDE DEF r
    <2>4. x.d = dev /\ x.answer = <<r>>
        BY <2>1
    <2>5. fromDev' = Append(q, r)
        <3>1. (fromDev \o <<Ack>>) \o <<r>> = Append(Append(fromDev, Ack), r)
            BY <1>5, <2>2, SentBehind
        <3> QED BY <1>4, <2>4, <3>1, Zenon DEF q
    <2>6. fromDev' \in Seq(Answers)
        BY <1>7, <2>2, <2>5
    <2>7. ASSUME NEW f \in Fields, f \notin {"preset", "bands"}
          PROVE  /\ NoneOf(fromDev', Reports(f)) <=> Silent(f)
                 /\ \A v : LastIs(fromDev, Reports(f), Reporting(f, v))
                               => LastIs(fromDev', Reports(f), Reporting(f, v))
        <3>1. r \notin Reports(f)
            BY <2>3, <2>7 DEF Reports
        <3>2. NoneOf(fromDev', Reports(f)) <=> NoneOf(q, Reports(f))
            BY <1>7, <2>2, <2>5, <3>1, LastAppend, Zenon
        <3>3. \A G : LastIs(q, Reports(f), G) => LastIs(fromDev', Reports(f), G)
            BY <1>7, <2>2, <2>5, <3>1, LastAppend, Zenon
        <3> QED BY <1>8, <3>2, <3>3, Zenon
    <2>8. ASSUME NEW f \in {"preset", "bands"}
          PROVE  /\ ~NoneOf(fromDev', Reports(f))
                 /\ LastIs(fromDev', Reports(f), Reporting(f, dev.value[f]))
        <3> DEFINE G == Reporting(f, dev.value[f])
        <3>1. r \in Reports(f) /\ r \in Reporting(f, dev.value[f])
            BY <2>2, <2>3 DEF Reports, Reporting
        <3> HIDE DEF G
        <3>2. r \in G
            BY <3>1 DEF G
        <3>3. ~NoneOf(fromDev', Reports(f)) /\ LastIs(fromDev', Reports(f), G)
            BY <1>7, <2>2, <2>5, <3>1, <3>2, LastAppend, Zenon
        <3> QED BY <3>3 DEF G
    <2>9. SaidBy(s, fromDev')
        BY <1>13, <2>6, <2>7, <2>8 DEF SaidBy
    <2> QED BY <1>4, <1>11, <2>1, <2>4, <2>9
<1>14. CASE s.kind \in {"switch", "link"}
    <2> DEFINE r == [kind |-> "switched", address |-> s.address]
    <2>1. s.address \in Addresses /\ s # Query("eq")
        BY <1>1, <1>14, StepKinds DEF Query
    <2>2. r \in Answers /\ r.kind # "param"
        BY <2>1 DEF Answers
    <2>3. x.answer = <<>> \/ x.answer = <<r>>
        BY <1>14 DEF Executed
    <2>4. x.d.value = dev.value
        <3>1. CASE s.kind = "switch"
            <4>1. x.d = dev \/ x.d = [dev EXCEPT !.source = dev.link[s.address]]
                BY <3>1 DEF Executed
            <4> QED BY <1>6, <4>1
        <3>2. CASE s.kind = "link"
            <4>1. \/ x = [d |-> dev, answer |-> <<>>]
                  \/ \E slot \in FreeSlots :
                        x = [d |-> [dev EXCEPT !.link[s.address] = slot], answer |-> <<>>]
                BY <3>2 DEF Executed
            <4> QED BY <1>6, <4>1
        <3> QED BY <1>14, <3>1, <3>2
    <2> HIDE DEF r
    <2>5. SaidBy(s, fromDev')
        BY <1>9, <2>1, <2>2, <2>3
    <2> QED BY <1>4, <1>11, <1>14, <2>4, <2>5
<1> QED BY <1>1, <1>10, <1>12, <1>13, <1>14, StepKinds

\* The engine takes a report: the fields in it have its values, but for a level
\* of 0, and those a write ahead carries are thrown off.
WrittenAhead == UNION {DOMAIN steps[i].values : i \in {j \in DOMAIN steps : steps[j].kind = "write"}}

Adopts(m) ==
    /\ m \in Answers /\ m.kind = "param" /\ AnswerTyped(m) /\ DOMAIN m.values \subseteq Fields
    /\ UNCHANGED <<fns, task, steps, waiting, dev>> /\ past'.own = past.own
    /\ past'.astray = past.astray \union Following(DOMAIN m.values \intersect WrittenAhead)
    /\ \A f \in Fields \ DOMAIN m.values : props'[f] = props[f]
    /\ \A f \in DOMAIN m.values :
          \/ /\ f # "level" \/ m.values[f] # 0
             /\ props'[f].desired = m.values[f] /\ props'[f].current = m.values[f]
          \/ f = "level" /\ m.values[f] = 0 /\ props'[f] = props[f]

\* The message in front is gone, and with it its word.
TakesOff(m) ==
    /\ m \in Answers /\ fromDev # <<>> /\ fromDev' = Tail(fromDev) /\ fromDev' \in Seq(Answers)
    /\ \A f : /\ m \notin Reports(f) => (NoneOf(fromDev', Reports(f)) <=> Silent(f))
              /\ \A G : /\ LastIs(fromDev, Reports(f), G) => LastIs(fromDev', Reports(f), G)
                        /\ m \in Reports(f) /\ NoneOf(fromDev', Reports(f))
                               /\ LastIs(fromDev, Reports(f), G) => m \in G

LEMMA ReceiveFacts ==
    ASSUME TInv, Receive
    PROVE  \E m : /\ TakesOff(m) /\ m = Head(fromDev)
                  /\ \/ ReceiveParam /\ Adopts(m)
                     \/ /\ ReceiveAck /\ m.kind = "ack"
                     \/ /\ m.kind \in {"list", "switched"}
                        /\ UNCHANGED <<fns, props, task, steps, waiting, dev, past>>
<1> DEFINE m == Head(fromDev)
<1>1. fromDev \in Seq(Answers) /\ fromDev # <<>> /\ fromDev' = Tail(fromDev)
    BY DEF Receive, ReceiveAck, ReceiveParam, ReceiveList, ReceiveSwitched, Incoming,
           TInv, AnswersTyped
<1>2. /\ m \in Answers /\ fromDev' \in Seq(Answers) /\ 1 \in DOMAIN fromDev /\ m = fromDev[1]
      /\ \A i \in DOMAIN fromDev' : i + 1 \in DOMAIN fromDev /\ fromDev'[i] = fromDev[i + 1]
    BY <1>1
<1>3. TakesOff(m)
    <2> HIDE DEF m
    <2> SUFFICES ASSUME NEW f
                 PROVE  /\ m \notin Reports(f) => (NoneOf(fromDev', Reports(f)) <=> Silent(f))
                        /\ \A G : /\ LastIs(fromDev, Reports(f), G) => LastIs(fromDev', Reports(f), G)
                                  /\ m \in Reports(f) /\ NoneOf(fromDev', Reports(f))
                                         /\ LastIs(fromDev, Reports(f), G) => m \in G
        BY <1>1, <1>2, Zenon DEF TakesOff
    <2>1. m \notin Reports(f) /\ NoneOf(fromDev', Reports(f)) => Silent(f)
        BY <1>1, LastTail, Zenon DEF Silent, m
    <2>2. Silent(f) => NoneOf(fromDev', Reports(f))
        BY <1>2 DEF Silent, NoneOf
    <2>3. \A G : /\ LastIs(fromDev, Reports(f), G) => LastIs(fromDev', Reports(f), G)
                 /\ m \in Reports(f) /\ NoneOf(fromDev', Reports(f))
                        /\ LastIs(fromDev, Reports(f), G) => m \in G
        BY <1>1, LastTail, Zenon DEF m
    <2> QED BY <2>1, <2>2, <2>3
<1>4. AnswerTyped(m)
    BY <1>2 DEF TInv, AnswersTyped
<1> HIDE DEF m
<1>5. CASE ReceiveParam
    <2>1. /\ m.kind = "param" /\ UNCHANGED <<fns, task, steps, waiting, dev>>
          /\ props' = Overwritten(props, m.values)
          /\ past' = [past EXCEPT !.astray = @ \union Following(DOMAIN m.values \intersect WrittenAhead)]
        BY <1>5 DEF ReceiveParam, Incoming, m, task_vars, WrittenAhead
    <2>2. /\ past'.own = past.own
          /\ past'.astray = past.astray \union Following(DOMAIN m.values \intersect WrittenAhead)
        BY <2>1 DEF TInv, EngineTyped
    <2>3. DOMAIN m.values \subseteq Fields /\ \A f \in DOMAIN m.values : m.values[f] \in Values(f)
        BY <1>2, <1>4, <2>1, ReportFields DEF AnswerTyped
    <2>4. \A f \in Fields \ DOMAIN m.values : props'[f] = props[f]
        BY <2>1, OverwrittenFields
    <2>5. ASSUME NEW f \in DOMAIN m.values
          PROVE  \/ /\ f # "level" \/ m.values[f] # 0
                    /\ props'[f].desired = m.values[f] /\ props'[f].current = m.values[f]
                 \/ f = "level" /\ m.values[f] = 0 /\ props'[f] = props[f]
        <3>0. f \in Fields
            BY <2>3
        <3>1. CASE f # "level"
            <4>1. props'[f] = Prop(m.values[f])
                BY <2>1, <3>0, <3>1, OverwrittenFields
            <4> QED BY <3>1, <4>1 DEF Prop
        <3>2. CASE f = "level"
            <4>1. m.values[f] \in 0 .. 20
                BY <2>3, <3>2 DEF Values
            <4>2. CASE m.values[f] > 0
                <5>1. Clamp(m.values[f], 1, 20) = m.values[f]
                    BY <4>1, <4>2 DEF Clamp
                <5>2. props'[f] = Prop(m.values[f])
                    BY <2>1, <3>0, <3>2, <4>2, <5>1, OverwrittenFields
                <5>3. m.values[f] # 0
                    BY <4>1, <4>2
                <5> QED BY <5>2, <5>3 DEF Prop
            <4>3. CASE ~(m.values[f] > 0)
                BY <2>1, <3>0, <3>2, <4>1, <4>3, OverwrittenFields
            <4> QED BY <4>2, <4>3
        <3> QED BY <3>1, <3>2
    <2>6. Adopts(m)
        BY <1>2, <1>4, <2>1, <2>2, <2>3, <2>4, <2>5 DEF Adopts
    <2> QED BY <1>3, <1>5, <2>6 DEF m
<1>6. CASE ReceiveAck
    <2>1. m.kind = "ack"
        BY <1>6 DEF ReceiveAck, Incoming, m
    <2> QED BY <1>3, <1>6, <2>1 DEF m
<1>7. CASE ReceiveList \/ ReceiveSwitched
    <2>1. /\ m.kind \in {"list", "switched"}
          /\ UNCHANGED <<fns, props, task, steps, waiting, dev, past>>
        BY <1>7 DEF ReceiveList, ReceiveSwitched, Incoming, m, task_vars
    <2> QED BY <1>3, <2>1 DEF m
<1> QED BY <1>5, <1>6, <1>7 DEF Receive

\* The ACK confirms a group.
LEMMA AckFacts ==
    ASSUME TInv, ReceiveAck
    PROVE  /\ waiting # None /\ waiting' = None
           /\ UNCHANGED <<fns, task, steps, dev, past>>
           /\ \A f \in Fields :
                 \/ /\ waiting.kind = "write" /\ f \in Members[waiting.group]
                    /\ props'[f].desired = props[f].desired /\ props'[f].current = props[f].desired
                 \/ /\ waiting.kind = "write" => f \notin Members[waiting.group]
                    /\ props'[f] = props[f]
<1>1. /\ waiting' = None /\ UNCHANGED <<fns, task, steps, dev, past>>
      /\ props' = IF waiting.kind = "write" THEN Committed(waiting) ELSE props
    BY DEF ReceiveAck
<1>2. waiting # None
    <2>1. fromDev \in Seq(Answers) /\ fromDev # <<>> /\ Head(fromDev).kind = "ack"
        BY DEF ReceiveAck, Incoming, TInv, AnswersTyped
    <2>2. 1 \in DOMAIN fromDev /\ fromDev[1] \in Answers /\ fromDev[1].kind = "ack"
        BY <2>1
    <2>3. fromDev[1] = Ack
        BY <2>2, AnswerKinds
    <2> QED BY <2>2, <2>3 DEF TInv, OneAck
<1>3. ASSUME NEW f \in Fields
      PROVE  \/ /\ waiting.kind = "write" /\ f \in Members[waiting.group]
                /\ props'[f].desired = props[f].desired /\ props'[f].current = props[f].desired
             \/ /\ waiting.kind = "write" => f \notin Members[waiting.group]
                /\ props'[f] = props[f]
    BY <1>1 DEF Committed, Prop
<1> QED BY <1>1, <1>2, <1>3

\* The owner changes a value: it is reported as it is now.
Reported(f, v, r) ==
    /\ r \in Answers /\ r.kind = "param"
    /\ fromDev' = Append(fromDev, r) /\ fromDev' \in Seq(Answers)
    /\ f \in Fields \intersect Existing(fns) /\ v \in Samples(f)
    /\ UNCHANGED <<fns, props, task, steps, waiting>> /\ past'.astray = past.astray
    /\ \A g \in Fields : dev'.value[g] = IF g \in Following({f}) THEN v ELSE dev.value[g]
    /\ \A g \in Fields : r \in Reports(g) <=> g \in ReportOf(f, fns)
    /\ \A g \in ReportOf(f, fns) : r \in Reporting(g, dev'.value[g])
    /\ Dirty(f) => past'.own = [g \in DOMAIN past.own \ Following({f}) |-> past.own[g]]
    /\ ~Dirty(f) => past'.own = Over([g \in Following({f}) |-> v], past.own)

LEMMA ChangeFacts ==
    ASSUME TInv, Owner, NEW f \in Fields, NEW v \in Samples(f), DeviceChanges(f, v)
    PROVE  \E r : Reported(f, v, r)
<1> DEFINE value == [dev.value EXCEPT ![f] = v, !["bands"] = IF f = "preset" THEN v ELSE @]
           r == Report(f, value)
<1>1. /\ dev' = [dev EXCEPT !.value = value] /\ fromDev' = Append(fromDev, r)
      /\ f \in Existing(fns) /\ UNCHANGED <<fns, props, task, steps, waiting>>
      /\ past' = [past EXCEPT !.own = IF Dirty(f) THEN [g \in DOMAIN @ \ Following({f}) |-> @[g]]
                                      ELSE Over([g \in Following({f}) |-> v], @)]
    BY DEF DeviceChanges, task_vars
<1>2. fromDev \in Seq(Answers) /\ fromDev' \in Seq(Answers)
    BY OwnerTyped DEF TInv, AnswersTyped
<1>3. r \in Answers
    <2>1. DOMAIN fromDev' = 1 .. Len(fromDev) + 1 /\ fromDev'[Len(fromDev) + 1] = r
        <3> HIDE DEF r
        <3> QED BY <1>1, <1>2
    <2> HIDE DEF r
    <2> QED BY <1>2, <2>1
<1>4. dev.value \in [Fields -> Int]
    BY DEF TInv, DevTyped
<1>5. \A g \in Fields : value[g] = IF g \in Following({f}) THEN v ELSE dev.value[g]
    <2>1. \A g : g \in Following({f}) <=> g = f \/ (g = "bands" /\ f = "preset")
        BY DEF Following, When
    <2>2. \A g \in Fields : value[g] = CASE g = "bands" /\ f = "preset" -> v
                                         [] g # "bands" /\ g = f -> v
                                         [] g = "bands" /\ f = "bands" -> v
                                         [] OTHER -> dev.value[g]
        <3>1. value = [[dev.value EXCEPT ![f] = v] EXCEPT
                           !["bands"] = IF f = "preset" THEN v ELSE @]
            OBVIOUS
        <3> DEFINE once == [dev.value EXCEPT ![f] = v]
        <3>2. DOMAIN once = Fields
            BY <1>4
        <3>3. \A g \in Fields : once[g] = IF g = f THEN v ELSE dev.value[g]
            BY <1>4
        <3>4. \A g \in Fields : value[g] = IF g = "bands" /\ f = "preset" THEN v ELSE once[g]
            <4> HIDE DEF once
            <4> QED BY <3>1, <3>2 DEF once
        <3> HIDE DEF once, value
        <3> QED BY <3>3, <3>4
    <2> HIDE DEF value
    <2> QED BY <2>1, <2>2
<1>6. r.kind = "param" /\ DOMAIN r.values = ReportOf(f, fns)
      /\ \A g \in ReportOf(f, fns) : r.values[g] = value[g]
    BY DEF Report
<1> HIDE DEF r, value
<1>7. dev'.value = value
    BY <1>1 DEF TInv, DevTyped
<1>8. /\ past'.astray = past.astray
      /\ Dirty(f) => past'.own = [g \in DOMAIN past.own \ Following({f}) |-> past.own[g]]
      /\ ~Dirty(f) => past'.own = Over([g \in Following({f}) |-> v], past.own)
    BY <1>1 DEF TInv, EngineTyped
<1>9. /\ \A g \in Fields : r \in Reports(g) <=> g \in ReportOf(f, fns)
      /\ \A g \in ReportOf(f, fns) : r \in Reporting(g, dev'.value[g])
    BY <1>3, <1>6, <1>7 DEF Reports, Reporting
<1> QED BY <1>1, <1>2, <1>3, <1>5, <1>6, <1>7, <1>8, <1>9 DEF Reported

\* There are no more items than general settings.
LEMMA GeneralNames == \A functions : OfferedGeneral(functions) \subseteq {"gs1", "gs2", "gs3", "gs4"}
<1> SUFFICES ASSUME NEW functions, NEW i \in 1 .. Cardinality(Capabilities(functions))
             PROVE  General[i] \in {"gs1", "gs2", "gs3", "gs4"}
    BY DEF OfferedGeneral
<1>1. DOMAIN General = 1 .. 4
    BY DEF General
<1>2. IsFiniteSet(1 .. 4) /\ Cardinality(1 .. 4) = 4
    <2> DEFINE n == 4
    <2>1. n \in Int /\ ~(1 > n) /\ n - 1 + 1 = 4 /\ 1 \in Int
        OBVIOUS
    <2> HIDE DEF n
    <2>2. IsFiniteSet(1 .. n) /\ Cardinality(1 .. n) = IF 1 > n THEN 0 ELSE n - 1 + 1
        BY <2>1, FS_Interval, Zenon
    <2>3. IsFiniteSet(1 .. n) /\ Cardinality(1 .. n) = 4
        BY <2>1, <2>2, Zenon
    <2> QED BY <2>3 DEF n
<1>3. Capabilities(functions) \in SUBSET (1 .. 4)
    BY <1>1 DEF Capabilities
<1>4. /\ IsFiniteSet(Capabilities(functions)) /\ Cardinality(Capabilities(functions)) <= 4
    BY <1>2, <1>3, FS_Subset
<1>5. Cardinality(Capabilities(functions)) \in Nat
    BY <1>4, FS_CardinalityType
<1>6. i \in 1 .. 4
    BY <1>4, <1>5
<1> QED BY <1>6 DEF General

\* A setter touches a field of the menu or the shutdown, never the bands.
Edits(d) ==
    /\ DOMAIN d \subseteq Fields \ {"bands"}
    /\ UNCHANGED <<fns, task, steps, waiting, fromDev, dev>>
    /\ \A f \in Fields : props'[f].current = props[f].current
    /\ \A f \in Fields \ DOMAIN d : props'[f] = props[f]
    /\ past'.astray = past.astray \union (DOMAIN d \intersect Pending)
    /\ past'.own = [f \in DOMAIN past.own \ Following(DOMAIN d) |-> past.own[f]]

Idles ==
    /\ UNCHANGED <<fns, props, waiting, fromDev, dev>>
    /\ past'.astray = past.astray /\ past'.own = past.own
    /\ \/ UNCHANGED <<task, steps>>
       \/ task = "none" /\ steps' = BuildSyncSteps
       \/ steps = <<>> /\ waiting = None /\ task' = "none" /\ UNCHANGED steps

Builds ==
    /\ steps = <<>> /\ waiting = None /\ steps' = BuildCommitSteps /\ props' = Settled(props)
    /\ UNCHANGED <<fns, waiting, fromDev, dev>>
    /\ past'.astray = past.astray /\ past'.own = past.own

LEMMA SetDesiredEdits ==
    ASSUME TInv, NEW d, DOMAIN d \subseteq Fields \ {"bands"}, SetDesired(d)
    PROVE  Edits(d)
<1>1. /\ UNCHANGED <<fns, task, steps, waiting, fromDev, dev>>
      /\ props' = [f \in Fields |-> IF f \in DOMAIN d THEN [props[f] EXCEPT !.desired = d[f]]
                                    ELSE props[f]]
      /\ past'.astray = past.astray \union (DOMAIN d \intersect Pending)
      /\ past'.own = [f \in DOMAIN past.own \ Following(DOMAIN d) |-> past.own[f]]
    BY DEF SetDesired, task_vars, TInv, EngineTyped
<1>2. \A f \in Fields : props[f] \in [desired : Int, current : Int]
    BY DEF TInv, PropsTyped, InKept
<1>3. /\ \A f \in Fields : props'[f].current = props[f].current
      /\ \A f \in Fields \ DOMAIN d : props'[f] = props[f]
    BY <1>1, <1>2
<1> QED BY <1>1, <1>3 DEF Edits

LEMMA UserFacts ==
    ASSUME TInv, User
    PROVE  Idles \/ \E d : Edits(d)
<1>1. ASSUME NEW f \in Fields \ {"bands"}, NEW v, SetDesired(Only(f, v)) PROVE \E d : Edits(d)
    <2>1. DOMAIN Only(f, v) = {f}
        BY DEF Only
    <2> QED BY <1>1, <2>1, SetDesiredEdits
<1>2. ASSUME NEW e, NEW m, SetDesired(Ambient(e, m)) PROVE \E d : Edits(d)
    <2>1. DOMAIN Ambient(e, m) \subseteq {"enabled", "mode", "level"}
        BY DEF Ambient, When
    <2>2. DOMAIN Ambient(e, m) \subseteq Fields \ {"bands"}
        BY <2>1, FieldNames
    <2> DEFINE a == Ambient(e, m)
    <2> HIDE DEF a
    <2> QED BY <1>2, <2>2, SetDesiredEdits DEF a
<1>3. ASSUME NEW f \in Fields, NEW v, SetField(f, v) PROVE \E d : Edits(d)
    <2>1. f # "bands"
        <3>1. "bands" \notin OfferedGeneral(fns)
            BY GeneralNames
        <3> QED BY <1>3, <3>1 DEF SetField, OfferedAmbient, OfferedSound, OfferedSettings,
                                  When
    <2> QED BY <1>1, <1>3, <2>1 DEF SetField
<1>4. CASE PowerDown
    BY <1>1, <1>4, FieldNames DEF PowerDown
<1>5. ASSUME NEW f \in {"volume", "level"}, NEW delta, Nudge(f, delta) PROVE \E d : Edits(d)
    <2>1. \E v : SetDesired(Only(f, v))
        BY <1>5 DEF Nudge
    <2> QED BY <1>1, <2>1, FieldNames
<1>6. CASE SetAmbientMode \/ CycleAmbientMode
    BY <1>2, <1>6 DEF SetAmbientMode, CycleAmbientMode
<1>7. CASE MultipointCommand
    BY <1>7 DEF MultipointCommand, Idles, task_vars
<1>8. CASE RefreshSync
    BY <1>8 DEF RefreshSync, StartSync, Idles
<1> QED BY <1>3, <1>4, <1>5, <1>6, <1>7, <1>8 DEF User

LEMMA TasksFacts ==
    ASSUME TInv, StartCommit \/ PeriodicSync \/ TaskDone
    PROVE  Idles \/ Builds
<1>1. CASE StartCommit
    BY <1>1 DEF StartCommit, BuildCommit, Builds, TInv, EngineTyped
<1>2. CASE PeriodicSync
    BY <1>2 DEF PeriodicSync, StartSync, Idles
<1>3. CASE TaskDone
    <2>1. CASE BuildCommit
        BY <1>3, <2>1 DEF TaskDone, BuildCommit, Builds, TInv, EngineTyped
    <2>2. CASE task' = "none" /\ UNCHANGED <<props, request, steps, past>>
        BY <1>3, <2>2 DEF TaskDone, Idles
    <2> QED BY <1>3, <2>1, <2>2 DEF TaskDone
<1> QED BY <1>1, <1>2, <1>3

\* The devices are no matter of the values.
Aside ==
    /\ UNCHANGED <<fns, props, task, steps, waiting, fromDev, dev.value>>
    /\ past'.astray = past.astray /\ past'.own = past.own

Apart ==
    \E a \in Answers :
        /\ a.kind = "switched" /\ fromDev' = Append(fromDev, a) /\ fromDev' \in Seq(Answers)
        /\ UNCHANGED <<fns, props, task, steps, waiting, dev.value>>
        /\ past'.astray = past.astray /\ past'.own = past.own

LEMMA OwnerFacts ==
    ASSUME TInv, Owner
    PROVE  \/ \E f, v, r : Reported(f, v, r)
           \/ Aside \/ Apart
<1>1. ASSUME NEW f \in Fields, NEW v \in Samples(f), DeviceChanges(f, v)
      PROVE  \E g, w, r : Reported(g, w, r)
    BY <1>1, ChangeFacts
<1>2. ASSUME NEW a \in Addresses, DeviceSwitches(a) PROVE Apart
    <2> DEFINE r == [kind |-> "switched", address |-> a]
    <2>1. /\ dev' = [dev EXCEPT !.source = dev.link[a]] /\ fromDev' = Append(fromDev, r)
          /\ UNCHANGED <<fns, props, task, steps, waiting, past>>
        BY <1>2 DEF DeviceSwitches, task_vars
    <2>2. r \in Answers /\ r.kind = "switched"
        BY DEF Answers
    <2> HIDE DEF r
    <2>3. fromDev' \in Seq(Answers)
        BY <2>1, <2>2 DEF TInv, AnswersTyped
    <2>4. dev'.value = dev.value
        BY <2>1 DEF TInv, DevTyped
    <2> QED BY <2>1, <2>2, <2>3, <2>4 DEF Apart
<1>3. ASSUME NEW a \in Addresses, DeviceRelinks(a) PROVE Aside
    <2>1. /\ UNCHANGED <<fns, props, task, steps, waiting, fromDev>>
          /\ past' = [past EXCEPT !.relinked = TRUE]
          /\ \E slot : dev' = [dev EXCEPT !.link[a] = slot]
        BY <1>3, Zenon DEF DeviceRelinks, task_vars
    <2>2. dev'.value = dev.value
        BY <2>1 DEF TInv, DevTyped
    <2>3. past'.astray = past.astray /\ past'.own = past.own
        BY <2>1 DEF TInv, EngineTyped
    <2> QED BY <2>1, <2>2, <2>3 DEF Aside
<1> QED BY <1>1, <1>2, <1>3 DEF Owner

\* Whatever the step.
LEMMA NextFacts ==
    ASSUME TInv, [Next]_vars
    PROVE  \/ Idles
           \/ \E d : Edits(d)
           \/ Builds
           \/ SendStep /\ \E s : Sends(s) /\ ValueSent(s, dev'.value) /\ SaidBy(s, fromDev')
           \/ \E m : TakesOff(m) /\ ReceiveParam /\ Adopts(m) /\ m = Head(fromDev)
           \/ \E m : TakesOff(m) /\ ReceiveAck /\ m.kind = "ack" /\ m = Head(fromDev)
           \/ \E m : /\ TakesOff(m) /\ m.kind \in {"list", "switched"}
                     /\ UNCHANGED <<fns, props, task, steps, waiting, dev, past>>
           \/ \E f, v, r : Reported(f, v, r)
           \/ Aside \/ Apart
<1>1. CASE UNCHANGED vars
    BY <1>1 DEF vars, Idles
<1>2. CASE User
    BY <1>2, UserFacts
<1>3. CASE StartCommit \/ PeriodicSync \/ TaskDone
    BY <1>3, TasksFacts
<1>4. CASE SendStep
    BY <1>4, SendFacts
<1>5. CASE Receive
    BY <1>5, ReceiveFacts
<1>6. CASE Owner
    BY <1>6, OwnerFacts
<1> QED BY <1>1, <1>2, <1>3, <1>4, <1>5, <1>6 DEF Next

\* The history only grows astray, and only what is astray is forgotten.
LEMMA FollowedLess ==
    ASSUME TInv, [Next]_vars
    PROVE  UNCHANGED fns /\ past.astray \subseteq past'.astray /\ Followed' \subseteq Followed
<1>1. UNCHANGED fns /\ past.astray \subseteq past'.astray
    BY NextFacts, AckFacts DEF Idles, Edits, Builds, Sends, Adopts, Reported, Aside, Apart
<1> QED BY <1>1 DEF Followed

\* What is written lies in nothing on its way, or goes astray.
LEMMA SentSilent ==
    ASSUME TInv, NEW s, Sends(s), s.kind = "write", NEW f, f \notin past'.astray,
           f \in DOMAIN s.values \/ (s.group = "EqPreset" /\ f \in {"preset", "bands"})
    PROVE  Silent(f)
<1>1. past'.astray = past.astray \union Following(DOMAIN s.values \intersect InFlight)
    BY DEF Sends
<1>2. fromDev \in Seq(Answers)
    BY DEF TInv, AnswersTyped
<1>3. CASE f \in DOMAIN s.values
    <2>1. f \notin InFlight
        BY <1>1, <1>3 DEF Following
    <2> QED BY <1>2, <2>1, FlightIsReports
<1>4. CASE s.group = "EqPreset" /\ f \in {"preset", "bands"}
    <2>1. DOMAIN s.values = {"preset"}
        BY <1>4 DEF Sends, WriteTyped, Carried, Members
    <2>2. "preset" \notin InFlight
        BY <1>1, <1>4, <2>1 DEF Following, When
    <2>3. Silent("preset")
        BY <1>2, <2>2, FlightIsReports
    <2>4. \A i \in DOMAIN fromDev : fromDev[i] \in Answers
        BY <1>2
    <2>5. Silent("bands")
        BY <2>3, <2>4, EqReported DEF Silent, NoneOf
    <2> QED BY <1>4, <2>3, <2>5
<1> QED BY <1>3, <1>4

\* A commit changes what is dirty only.
LEMMA SettledFields ==
    ASSUME NEW f \in Fields
    PROVE  /\ ~Dirty(f) => Settled(props)[f] = props[f]
           /\ f \notin {"shutdown", "bands"} => Settled(props)[f] = props[f]
           /\ f # "shutdown" => Settled(props)[f].desired = props[f].desired
           /\ IsWritten("Shutdown") => Settled(props)[f].desired = props[f].desired
BY DEF Settled, Prop

LEMMA BandsStayClean ==
    ASSUME TInv, BandsClean, [Next]_vars
    PROVE  BandsClean'
<1> DEFINE b == "bands"
<1>0. b \in Fields
    BY FieldNames
<1>1. ASSUME props'[b] = props[b] \/ props'[b].desired = props'[b].current PROVE BandsClean'
    BY <1>1 DEF BandsClean, Dirty
<1> HIDE DEF b
<1>2. CASE \E d : Edits(d)
    BY <1>0, <1>1, <1>2 DEF Edits, b
<1>3. CASE Builds
    BY <1>0, <1>1, <1>3, SettledFields DEF Builds, BandsClean, b
<1>4. ASSUME NEW m, Adopts(m) PROVE BandsClean'
    <2>1. CASE b \in DOMAIN m.values
        BY <1>1, <1>4, <2>1 DEF Adopts, b
    <2>2. CASE b \notin DOMAIN m.values
        BY <1>0, <1>1, <1>4, <2>2 DEF Adopts
    <2> QED BY <2>1, <2>2
<1>5. CASE ReceiveAck
    BY <1>0, <1>1, <1>5, AckFacts
<1>6. CASE UNCHANGED props
    BY <1>1, <1>6
<1> QED BY <1>2, <1>3, <1>4, <1>5, <1>6, NextFacts DEF Idles, Sends, Reported, Aside, Apart

LEMMA StayTruthful ==
    ASSUME TInv, Truthful, [Next]_vars
    PROVE  Truthful'
<1> SUFFICES ASSUME NEW f \in Followed'
             PROVE  LastIs(fromDev', Reports(f), Reporting(f, dev'.value[f]))
    BY DEF Truthful
<1>1. f \in Followed /\ f \notin past'.astray /\ UNCHANGED fns
    BY FollowedLess DEF Followed
<1>2. f \in Fields /\ f \in ReadAtInit(fns)
    BY <1>1, ReadFields DEF Followed
<1> DEFINE R == Reports(f)  v == dev.value[f]
<1>3. LastIs(fromDev, R, Reporting(f, v))
    BY <1>1 DEF Truthful
<1>4. fromDev \in Seq(Answers)
    BY DEF TInv, AnswersTyped
<1>0. ASSUME NEW a \in Answers, a \notin R, fromDev' = Append(fromDev, a)
      PROVE  LastIs(fromDev', R, Reporting(f, v))
    <2> DEFINE G == Reporting(f, v)
    <2>1. LastIs(fromDev, R, G)
        BY <1>3
    <2> HIDE DEF G, R
    <2>2. LastIs(fromDev', R, G)
        BY <1>0, <1>4, <2>1, LastAppend, Zenon
    <2> QED BY <2>2 DEF G
<1>5. CASE UNCHANGED <<fromDev, dev.value>>
    BY <1>3, <1>5
<1>6. ASSUME NEW a \in Answers, a.kind # "param", fromDev' = Append(fromDev, a), UNCHANGED dev.value
      PROVE  LastIs(fromDev', Reports(f), Reporting(f, dev'.value[f]))
    <2>1. a \notin R
        BY <1>6, OthersSilent
    <2>2. LastIs(fromDev', R, Reporting(f, v))
        BY <1>0, <1>6, <2>1
    <2> QED BY <1>6, <2>2
<1>7. ASSUME NEW s, Sends(s), ValueSent(s, dev'.value), SaidBy(s, fromDev')
      PROVE  LastIs(fromDev', Reports(f), Reporting(f, dev'.value[f]))
    <2>1. CASE dev'.value[f] = dev.value[f]
        BY <1>2, <1>3, <1>7, <2>1 DEF SaidBy
    <2>2. CASE dev'.value[f] # dev.value[f]
        <3>1. s.kind = "write" /\ s # Query("eq")
            BY <1>7, <2>2 DEF ValueSent, Query
        <3>2. f \in DOMAIN s.values \/ (s.group = "EqPreset" /\ f \in {"preset", "bands"})
            BY <1>2, <1>7, <2>2, <3>1 DEF ValueSent
        <3>3. Silent(f)
            BY <1>1, <1>7, <3>1, <3>2, SentSilent
        <3> DEFINE w == dev'.value[f]
        <3>4. LastIs(fromDev, R, Reporting(f, w))
            BY <3>3 DEF Silent, NoneOf, LastIs
        <3> QED BY <1>2, <1>7, <3>1, <3>4 DEF SaidBy
    <2> QED BY <2>1, <2>2
<1>8. ASSUME NEW m, TakesOff(m), UNCHANGED dev
      PROVE  LastIs(fromDev', Reports(f), Reporting(f, dev'.value[f]))
    BY <1>3, <1>8 DEF TakesOff
<1>9. ASSUME NEW g, NEW w, NEW r, Reported(g, w, r)
      PROVE  LastIs(fromDev', Reports(f), Reporting(f, dev'.value[f]))
    <2>1. CASE f \in ReportOf(g, fns)
        <3> DEFINE G == Reporting(f, dev'.value[f])
        <3>1. r \in R /\ r \in G /\ r \in Answers /\ fromDev' = Append(fromDev, r)
            BY <1>2, <1>9, <2>1 DEF Reported
        <3> HIDE DEF G, R
        <3>2. LastIs(fromDev', R, G)
            BY <1>4, <3>1, LastAppend, Zenon
        <3> QED BY <3>2 DEF G, R
    <2>2. CASE f \notin ReportOf(g, fns)
        <3>1. f \notin Following({g})
            <4>1. f # g
                BY <1>2, <2>2, ReadIsReported
            <4>2. f = "bands" => g # "preset"
                BY <2>2, EqReport
            <4> QED BY <4>1, <4>2 DEF Following, When
        <3>2. dev'.value[f] = v /\ r \notin R /\ r \in Answers /\ fromDev' = Append(fromDev, r)
            BY <1>2, <1>9, <2>2, <3>1 DEF Reported
        <3>3. LastIs(fromDev', R, Reporting(f, v))
            BY <1>0, <3>2
        <3> QED BY <3>2, <3>3
    <2> QED BY <2>1, <2>2
<1>10. CASE Idles \/ (\E d : Edits(d)) \/ Builds \/ Aside
    BY <1>5, <1>10 DEF Idles, Edits, Builds, Aside
<1>11. CASE Apart
    BY <1>6, <1>11 DEF Apart
<1>12. CASE ReceiveAck
    BY <1>8, <1>12, AckFacts, ReceiveFacts DEF Receive
<1>13. ASSUME NEW m, TakesOff(m), Adopts(m) PROVE UNCHANGED dev
    BY <1>13 DEF Adopts
<1> QED BY <1>7, <1>8, <1>9, <1>10, <1>11, <1>12, <1>13, NextFacts

---------------------------------------------------------------------------
(* What a commit writes *)

\* Behind each of the steps E comes a step a.
Chased(q, E, a) == \A i \in DOMAIN q : q[i] \in E => \E j \in DOMAIN q : j > i /\ q[j] = a

LEMMA ChasedBoth ==
    ASSUME NEW T, NEW s \in Seq(T), NEW t \in Seq(T), NEW E, NEW a, Chased(s, E, a), Chased(t, E, a),
           NEW u, u = s \o t
    PROVE  Chased(u, E, a)
<1> DEFINE m == Len(s)  n == Len(t)
<1>1. /\ m \in Nat /\ n \in Nat /\ DOMAIN s = 1 .. m /\ DOMAIN t = 1 .. n /\ DOMAIN u = 1 .. m + n
      /\ \A i \in 1 .. m : u[i] = s[i]
      /\ \A i \in 1 .. n : u[m + i] = t[i]
    OBVIOUS
<1>2. /\ \A i \in 1 .. m + n : i \in 1 .. m \/ (i - m \in 1 .. n /\ m + (i - m) = i)
      /\ \A i \in 1 .. m : i \in 1 .. m + n
      /\ \A i \in 1 .. n : m + i \in 1 .. m + n
      /\ \A i \in 1 .. m + n, j \in 1 .. n : j > i - m => m + j > i
    BY <1>1
<1> HIDE DEF m, n
<1> SUFFICES ASSUME NEW i \in DOMAIN u, u[i] \in E
             PROVE  \E j \in DOMAIN u : j > i /\ u[j] = a
    BY DEF Chased
<1>3. CASE i \in 1 .. m
    BY <1>1, <1>2, <1>3 DEF Chased
<1>4. CASE i - m \in 1 .. n /\ m + (i - m) = i
    <2> DEFINE k == i - m
    <2>1. k \in DOMAIN t /\ t[k] \in E
        BY <1>1, <1>4
    <2>2. PICK j \in DOMAIN t : j > k /\ t[j] = a
        BY <2>1 DEF Chased
    <2>3. m + j \in DOMAIN u /\ m + j > i /\ u[m + j] = a
        BY <1>1, <1>2, <2>2
    <2> QED BY <2>3
<1> QED BY <1>1, <1>2, <1>3, <1>4

LEMMA JoinedChased ==
    ASSUME NEW T, NEW n \in Nat, NEW G, \A i \in 1 .. n : G[i] \in Seq(T),
           NEW E, NEW a, \A i \in 1 .. n : Chased(G[i], E, a),
           NEW F, Joined(G, n, F)
    PROVE  Chased(F[n], E, a)
<1>1. F[0] = <<>> /\ \A i \in 1 .. n : F[i] = F[i - 1] \o G[i]
    <2>1. JoinedBy(G, n, F)
        BY JoinedSteps, Zenon
    <2> QED BY <2>1, Zenon DEF JoinedBy
<1> DEFINE S == {i \in 0 .. n : F[i] \in Seq(T) /\ Chased(F[i], E, a)}
<1>2. 0 \in S
    <2>1. F[0] \in Seq(T)
        BY <1>1
    <2>2. DOMAIN F[0] = {}
        BY <1>1
    <2> QED BY <2>1, <2>2 DEF Chased
<1>3. ASSUME NEW i \in 1 .. n, i - 1 \in S PROVE i \in S
    <2> DEFINE s == F[i - 1]  t == G[i]  u == F[i]
    <2>1. s \in Seq(T) /\ Chased(s, E, a) /\ t \in Seq(T) /\ Chased(t, E, a) /\ u = s \o t
        BY <1>1, <1>3
    <2> HIDE DEF s, t, u
    <2>2. u \in Seq(T) /\ Chased(u, E, a)
        <3>1. u \in Seq(T)
            BY <2>1
        <3> QED BY <2>1, <3>1, ChasedBoth, Zenon
    <2> QED BY <2>2 DEF u
<1> HIDE DEF S
<1>4. \A i \in 0 .. n : i \in S
    BY <1>2, <1>3, UpTo
<1> QED BY <1>4 DEF S

\* The writes of a commit are those of the groups written, with what is
\* desired now; behind a write of the equalizer it is asked for.
Made == {s \in Fine : s.kind = "write" => \E g \in Groups : IsWritten(g) /\ s = Write(g, props)}
EqWrites == {s \in Steps : s.kind = "write" /\ s.group \in {"EqPreset", "EqConfig"}}

LEMMA ChasedShort ==
    ASSUME NEW E, NEW a
    PROVE  /\ Chased(<<>>, E, a)
           /\ \A w : w \notin E => Chased(<<w>>, E, a)
           /\ \A w : a \notin E => Chased(<<w, a>>, E, a)
           /\ \A w, v : w \notin E /\ v \notin E => Chased(<<w, v>>, E, a)
<1>1. Chased(<<>>, E, a)
    BY DEF Chased
<1>2. \A w : w \notin E => Chased(<<w>>, E, a)
    BY DEF Chased
<1>3. ASSUME NEW w, a \notin E PROVE Chased(<<w, a>>, E, a)
    <2> DEFINE q == <<w, a>>
    <2>1. DOMAIN q = {1, 2} /\ q[2] = a /\ 2 > 1
        OBVIOUS
    <2> HIDE DEF q
    <2> QED BY <1>3, <2>1 DEF Chased, q
<1>4. ASSUME NEW w, NEW v, w \notin E, v \notin E PROVE Chased(<<w, v>>, E, a)
    <2> DEFINE q == <<w, v>>
    <2>1. DOMAIN q = {1, 2} /\ q[1] = w /\ q[2] = v
        OBVIOUS
    <2> HIDE DEF q
    <2>2. Chased(q, E, a)
        BY <1>4, <2>1 DEF Chased
    <2> QED BY <2>2 DEF q
<1> QED BY <1>1, <1>2, <1>3, <1>4

LEMMA StepsOfMade ==
    ASSUME PropsTyped, EngineTyped, NEW g \in Groups \union {"Multipoint"}
    PROVE  StepsOf(g) \in Seq(Made) /\ Chased(StepsOf(g), EqWrites, Query("eq"))
<1>0. "Multipoint" \notin Groups /\ fns \in Advertised
    BY DEF Groups, Members, EngineTyped
<1> DEFINE q == Query("eq")  l == Query("list")
<1>1. /\ q \in Made /\ q \notin EqWrites /\ l \in Made /\ l \notin EqWrites
    BY OthersFine DEF Made, EqWrites, Query
<1> HIDE DEF q, l
<1>2. CASE g = "Multipoint"
    <2>1. CASE request = None
        <3>1. StepsOf(g) = <<>>
            BY <1>2, <2>1 DEF StepsOf, RequestSteps
        <3> QED BY <3>1, ShortSeqs, ChasedShort, <1>1
    <2>2. CASE request # None
        <3>1. request \in Made /\ request \notin EqWrites
            BY <2>2, OthersFine DEF EngineTyped, Made, EqWrites
        <3>2. StepsOf(g) = <<request>> \/ StepsOf(g) = <<request, l>>
            BY <1>2, <2>2 DEF StepsOf, RequestSteps, l
        <3>3. <<request>> \in Seq(Made) /\ <<request, l>> \in Seq(Made)
            BY <1>1, <3>1, ShortSeqs, Zenon
        <3>4. Chased(<<request>>, EqWrites, q) /\ Chased(<<request, l>>, EqWrites, q)
            BY <1>1, <3>1, ChasedShort, Zenon
        <3> QED BY <3>2, <3>3, <3>4, Zenon DEF q
    <2> QED BY <2>1, <2>2
<1>3. CASE g \in Groups
    <2> DEFINE w == Write(g, props)
    <2>1. w \in Fine /\ w.kind = "write" /\ w.group = g
        BY <1>0, <1>3, WriteFine
    <2>2. \/ StepsOf(g) = <<>>
          \/ /\ StepsOf(g) = <<w>> /\ IsWritten(g) /\ g \notin {"EqPreset", "EqConfig"}
          \/ /\ StepsOf(g) = <<w, q>> /\ IsWritten(g)
        BY <1>0, <1>3 DEF StepsOf, q
    <2>3. IsWritten(g) => w \in Made
        BY <1>3, <2>1 DEF Made
    <2> HIDE DEF w
    <2>4. g \notin {"EqPreset", "EqConfig"} => w \notin EqWrites
        BY <2>1 DEF EqWrites
    <2>5. CASE StepsOf(g) = <<>>
        BY <2>5, <1>1, ShortSeqs, ChasedShort
    <2>6. CASE StepsOf(g) = <<w>> /\ w \in Made /\ w \notin EqWrites
        BY <2>6, <1>1, ShortSeqs, ChasedShort, ZenonT(60) DEF q
    <2>7. CASE StepsOf(g) = <<w, q>> /\ w \in Made
        BY <2>7, <1>1, ShortSeqs, ChasedShort, ZenonT(60) DEF q
    <2> QED BY <2>2, <2>3, <2>4, <2>5, <2>6, <2>7
<1> QED BY <1>2, <1>3

LEMMA CommitMade ==
    ASSUME PropsTyped, EngineTyped
    PROVE  BuildCommitSteps \in Seq(Made) /\ Chased(BuildCommitSteps, EqWrites, Query("eq"))
<1> DEFINE n == Len(WriteOrder)
<1>1. n = 22 /\ n \in Nat
    BY OrderOfGroups
<1>2. \A i \in 1 .. n : Pieces[i] = StepsOf(WriteOrder[i])
    BY DEF Pieces
<1>3. PICK U : Joined(Pieces, n, U) /\ BuildCommitSteps = U[n]
    BY CommitJoined
<1> HIDE DEF n
<1>4. ASSUME NEW i \in 1 .. n
      PROVE  Pieces[i] \in Seq(Made) /\ Chased(Pieces[i], EqWrites, Query("eq"))
    <2> DEFINE g == WriteOrder[i]
    <2>1. g \in Groups \union {"Multipoint"}
        BY <1>1, OrderOfGroups
    <2> HIDE DEF g
    <2>2. StepsOf(g) \in Seq(Made) /\ Chased(StepsOf(g), EqWrites, Query("eq"))
        BY <2>1, StepsOfMade
    <2>3. Pieces[i] = StepsOf(g)
        BY <1>2 DEF g
    <2> QED BY <2>2, <2>3
<1> DEFINE T == Made  E == EqWrites  a == Query("eq")
<1>5. \A i \in 1 .. n : Pieces[i] \in Seq(T) /\ Chased(Pieces[i], E, a)
    BY <1>4
<1> HIDE DEF T, E, a
<1>6. U[n] \in Seq(T)
    BY <1>1, <1>3, <1>5, JoinedElements, Zenon
<1>7. Chased(U[n], E, a)
    BY <1>1, <1>3, <1>5, JoinedChased, Zenon
<1> QED BY <1>3, <1>6, <1>7 DEF T, E, a

---------------------------------------------------------------------------
(* The menu shows what the headphones have *)

\* The NC/ASM fields that are read are written as well.
QueriedIsWritten ==
    \A functions \in Advertised :
        VariantFields[QueriedVariant(functions)] \subseteq VariantFields[WrittenVariant(functions)]

\* No message of M lies in front of an a.
NoneAhead(q, a, M) == \A i, j \in DOMAIN q : q[j] = a /\ i < j => q[i] \notin M

\* A write has the values desired, and no report of what it carries is on its
\* way before its ACK, unless that was thrown off.
MeantBy(s, p, crossed) ==
    s.kind = "write" => \A f \in DOMAIN s.values \ crossed : s.values[f] = p[f].desired
Meant ==
    /\ waiting # None => MeantBy(waiting, props, past.astray)
    /\ \A i \in DOMAIN steps : MeantBy(steps[i], props, past.astray)

Writing(f) == waiting # None /\ waiting.kind = "write" /\ f \in DOMAIN waiting.values
Uncrossed == \A f \in Fields \ past.astray : Writing(f) => NoneAhead(fromDev, Ack, Reports(f))

\* A write of the equalizer is followed by its query.
Asked == \E i \in DOMAIN steps : steps[i] = Query("eq")
EqAsked ==
    /\ Chased(steps, EqWrites, Query("eq"))
    /\ waiting # None /\ waiting \in EqWrites => Asked

\* With nothing of it on its way and none of it asked for, a field is as the
\* write under way has it, or as the app has it.
Real(f) == props[f].current = dev.value[f] \/ (f = "level" /\ dev.value[f] = 0)
Shown ==
    \A f \in Followed : Silent(f) /\ (f \in {"preset", "bands"} => ~Asked)
        => IF Writing(f) THEN waiting.values[f] = dev.value[f] ELSE Real(f)

LEMMA AheadAppend ==
    ASSUME NEW S, NEW q \in Seq(S), NEW m \in S, NEW t, t = Append(q, m), NEW a, NEW M
    PROVE  /\ m # a /\ NoneAhead(q, a, M) => NoneAhead(t, a, M)
           /\ m = a /\ NoneOf(q, M) => NoneAhead(t, a, M)
<1> DEFINE n == Len(q)
<1>1. /\ n \in Nat /\ DOMAIN q = 1 .. n /\ DOMAIN t = 1 .. n + 1
      /\ t[n + 1] = m /\ \A i \in 1 .. n : t[i] = q[i]
    OBVIOUS
<1>2. /\ \A i \in 1 .. n + 1 : i = n + 1 \/ i \in 1 .. n
      /\ \A i, j \in 1 .. n + 1 : i < j => i \in 1 .. n
    BY <1>1
<1> HIDE DEF n
<1>3. ASSUME m # a, NoneAhead(q, a, M) PROVE NoneAhead(t, a, M)
    <2> SUFFICES ASSUME NEW i \in DOMAIN t, NEW j \in DOMAIN t, t[j] = a, i < j
                 PROVE  t[i] \notin M
        BY DEF NoneAhead
    <2>1. j \in 1 .. n /\ i \in 1 .. n
        BY <1>1, <1>2, <1>3
    <2>2. q[j] = a /\ q[i] = t[i]
        BY <1>1, <2>1
    <2> QED BY <1>1, <1>3, <2>1, <2>2 DEF NoneAhead
<1>4. ASSUME NoneOf(q, M) PROVE NoneAhead(t, a, M)
    <2> SUFFICES ASSUME NEW i \in DOMAIN t, NEW j \in DOMAIN t, t[j] = a, i < j
                 PROVE  t[i] \notin M
        BY DEF NoneAhead
    <2>1. i \in 1 .. n
        BY <1>1, <1>2
    <2> QED BY <1>1, <1>4, <2>1 DEF NoneOf
<1> QED BY <1>3, <1>4

LEMMA AheadTail ==
    ASSUME NEW S, NEW q \in Seq(S), q # <<>>, NEW t, t = Tail(q), NEW a, NEW M, NoneAhead(q, a, M)
    PROVE  /\ NoneAhead(t, a, M)
           /\ Head(q) \in M /\ a \notin M => \A i \in DOMAIN q : q[i] # a
<1> DEFINE n == Len(q)
<1>1. /\ n \in Nat \ {0} /\ DOMAIN q = 1 .. n /\ DOMAIN t = 1 .. n - 1
      /\ Head(q) = q[1] /\ \A i \in 1 .. n - 1 : t[i] = q[i + 1]
    OBVIOUS
<1>2. /\ 1 \in 1 .. n /\ \A i \in 1 .. n - 1 : i + 1 \in 1 .. n
      /\ \A i, j \in 1 .. n - 1 : i < j => i + 1 < j + 1
      /\ \A i \in 1 .. n : i = 1 \/ 1 < i
    BY <1>1
<1> HIDE DEF n
<1>3. NoneAhead(t, a, M)
    <2> SUFFICES ASSUME NEW i \in DOMAIN t, NEW j \in DOMAIN t, t[j] = a, i < j
                 PROVE  t[i] \notin M
        BY DEF NoneAhead
    <2>1. i + 1 \in DOMAIN q /\ j + 1 \in DOMAIN q /\ i + 1 < j + 1
        BY <1>1, <1>2
    <2>2. q[i + 1] = t[i] /\ q[j + 1] = a
        BY <1>1
    <2>3. q[i + 1] \notin M
        BY <2>1, <2>2 DEF NoneAhead
    <2> QED BY <2>2, <2>3
<1>4. ASSUME Head(q) \in M, a \notin M, NEW i \in DOMAIN q, q[i] = a PROVE FALSE
    <2>1. 1 < i /\ 1 \in DOMAIN q
        BY <1>1, <1>2, <1>4
    <2>2. q[1] \notin M
        BY <1>4, <2>1 DEF NoneAhead
    <2> QED BY <1>1, <1>4, <2>2
<1> QED BY <1>3, <1>4

LEMMA ChasedTail ==
    ASSUME NEW S, NEW q \in Seq(S), q # <<>>, NEW t, t = Tail(q), NEW E, NEW a, Chased(q, E, a)
    PROVE  Chased(t, E, a) /\ (Head(q) \in E => ~NoneOf(t, {a}))
<1> DEFINE n == Len(q)
<1>1. /\ n \in Nat \ {0} /\ DOMAIN q = 1 .. n /\ DOMAIN t = 1 .. n - 1
      /\ Head(q) = q[1] /\ \A i \in 1 .. n - 1 : t[i] = q[i + 1]
    OBVIOUS
<1>2. /\ 1 \in 1 .. n /\ \A i \in 1 .. n - 1 : i + 1 \in 1 .. n
      /\ \A j \in 1 .. n : j > 1 => j - 1 \in 1 .. n - 1 /\ (j - 1) + 1 = j
      /\ \A i \in 1 .. n - 1, j \in 1 .. n : j > i + 1 => j > 1 /\ j - 1 > i
    BY <1>1
<1> HIDE DEF n
<1>3. \A j \in DOMAIN q : j > 1 => j - 1 \in DOMAIN t /\ t[j - 1] = q[j]
    BY <1>1, <1>2
<1>4. Chased(t, E, a)
    <2> SUFFICES ASSUME NEW i \in DOMAIN t, t[i] \in E
                 PROVE  \E j \in DOMAIN t : j > i /\ t[j] = a
        BY DEF Chased
    <2>1. i + 1 \in DOMAIN q /\ q[i + 1] \in E
        BY <1>1, <1>2
    <2>2. PICK j \in DOMAIN q : j > i + 1 /\ q[j] = a
        BY <2>1 DEF Chased
    <2>3. j > 1 /\ j - 1 > i
        BY <1>1, <1>2, <2>2
    <2> QED BY <1>3, <2>2, <2>3
<1>5. ASSUME Head(q) \in E PROVE \E i \in DOMAIN t : t[i] = a
    <2>1. PICK j \in DOMAIN q : j > 1 /\ q[j] = a
        BY <1>1, <1>2, <1>5 DEF Chased
    <2> QED BY <1>3, <2>1
<1> QED BY <1>4, <1>5 DEF NoneOf

\* A write is answered by its ACK alone.
LEMMA WriteAnswered ==
    ASSUME TInv, SendStep, NEW s, Sends(s), s.kind = "write"
    PROVE  fromDev' = Append(fromDev, Ack)
<1>1. fromDev \in Seq(Answers) /\ Ack \in Answers
    BY AnswerKinds DEF TInv, AnswersTyped
<1>2. s = Head(steps)
    BY DEF Sends, TInv, EngineTyped
<1>3. PICK x \in Executed(s) : fromDev' = (fromDev \o <<Ack>>) \o x.answer
    BY <1>2 DEF SendStep
<1>4. x.answer = <<>>
    BY <1>3 DEF Executed
<1> QED BY <1>1, <1>3, <1>4, SentBehind, Zenon

\* The steps behind the one that is sent.
LEMMA StepsBehind ==
    ASSUME TInv, NEW s, Sends(s)
    PROVE  /\ \A i \in DOMAIN steps' : i + 1 \in DOMAIN steps /\ steps'[i] = steps[i + 1]
           /\ 1 \in DOMAIN steps /\ s = steps[1] /\ s = Head(steps)
           /\ \A i \in DOMAIN steps : steps[i] = s \/ \E j \in DOMAIN steps' : steps'[j] = steps[i]
<1> DEFINE n == Len(steps)
<1>1. /\ n \in Nat \ {0} /\ DOMAIN steps = 1 .. n /\ DOMAIN steps' = 1 .. n - 1
      /\ Head(steps) = steps[1] /\ \A i \in 1 .. n - 1 : steps'[i] = steps[i + 1]
    BY DEF Sends, TInv, EngineTyped
<1>2. /\ 1 \in 1 .. n /\ \A i \in 1 .. n - 1 : i + 1 \in 1 .. n
      /\ \A j \in 1 .. n : j = 1 \/ (j - 1 \in 1 .. n - 1 /\ (j - 1) + 1 = j)
    BY <1>1
<1>3. s = steps[1]
    BY DEF Sends
<1> HIDE DEF n
<1>4. \A i \in DOMAIN steps : steps[i] = s \/ \E j \in DOMAIN steps' : steps'[j] = steps[i]
    BY <1>1, <1>2, <1>3
<1> QED BY <1>1, <1>2, <1>3, <1>4

\* What a write carries is pending, and what is ahead of it is thrown off.
LEMMA CarriedAhead ==
    ASSUME TInv, NEW s, s \in Steps, WriteTyped(s), s.kind = "write", NEW f \in DOMAIN s.values
    PROVE  f \in Fields /\ s.group \in Groups /\ f \in Members[s.group]
BY StepKinds, CarriedFields DEF WriteTyped

LEMMA AheadOfAll ==
    ASSUME TInv, NEW i \in DOMAIN steps, steps[i].kind = "write", NEW f \in DOMAIN steps[i].values
    PROVE  f \in WrittenAhead
BY DEF WrittenAhead

\* The writes of a commit are as desired.
LEMMA BuiltAsMeant ==
    ASSUME TInv, Builds, NEW i \in DOMAIN steps', steps'[i].kind = "write"
    PROVE  \E g \in Groups : /\ IsWritten(g) /\ steps'[i].group = g
                             /\ DOMAIN steps'[i].values = Carried(g, fns)
                             /\ \A f \in Carried(g, fns) :
                                   steps'[i].values[f] = props[f].desired
<1>1. steps' \in Seq(Made)
    BY CommitMade DEF Builds, TInv
<1>2. steps'[i] \in Made
    BY <1>1
<1>3. PICK g \in Groups : IsWritten(g) /\ steps'[i] = Write(g, props)
    BY <1>2 DEF Made
<1> QED BY <1>3 DEF Write

LEMMA StayMeant ==
    ASSUME TInv, Meant, Uncrossed, [Next]_vars
    PROVE  Meant'
<1>0. past.astray \subseteq past'.astray /\ UNCHANGED fns
    BY FollowedLess
<1>1. TInv'
    BY StepTyped
\* A step kept is as meant if what it carries is still desired as it was.
<1>2. ASSUME NEW s, MeantBy(s, props, past.astray),
             s.kind = "write" => \A f \in DOMAIN s.values \ past'.astray :
                                     props'[f].desired = props[f].desired
      PROVE  MeantBy(s, props', past'.astray)
    BY <1>0, <1>2 DEF MeantBy
<1>3. ASSUME UNCHANGED props, NEW s, MeantBy(s, props, past.astray)
      PROVE  MeantBy(s, props', past'.astray)
    BY <1>2, <1>3
<1>4. CASE Idles
    <2>1. waiting' # None => MeantBy(waiting', props', past'.astray)
        BY <1>3, <1>4 DEF Idles, Meant
    <2>2. \A i \in DOMAIN steps' : MeantBy(steps'[i], props', past'.astray)
        <3>1. CASE UNCHANGED steps
            BY <1>3, <1>4, <3>1 DEF Idles, Meant
        <3>2. CASE steps' = BuildSyncSteps
            BY <3>2, SyncFine DEF MeantBy
        <3> QED BY <1>4, <3>1, <3>2 DEF Idles
    <2> QED BY <2>1, <2>2 DEF Meant
<1>5. ASSUME NEW d, Edits(d) PROVE Meant'
    <2>1. ASSUME NEW s, MeantBy(s, props, past.astray), s \in Steps, WriteTyped(s),
                 (s = waiting /\ waiting # None) \/ \E i \in DOMAIN steps : s = steps[i]
          PROVE  MeantBy(s, props', past'.astray)
        <3> SUFFICES ASSUME s.kind = "write", NEW f \in DOMAIN s.values \ past'.astray
                     PROVE  props'[f].desired = props[f].desired
            BY <1>2, <2>1
        <3>1. f \in Fields /\ f \in Members[s.group]
            BY <2>1, CarriedAhead
        <3>2. f \in Pending
            BY <2>1, <3>1, PendingAhead DEF Ahead
        <3>3. f \notin DOMAIN d
            BY <1>5, <3>2 DEF Edits
        <3> QED BY <1>5, <3>1, <3>3 DEF Edits
    <2>2. waiting # None => waiting \in Steps /\ WriteTyped(waiting)
        BY DEF TInv, EngineTyped, WritesTyped
    <2>3. \A i \in DOMAIN steps : steps[i] \in Steps /\ WriteTyped(steps[i])
        BY DEF TInv, EngineTyped, WritesTyped
    <2> QED BY <1>5, <2>1, <2>2, <2>3 DEF Meant, Edits
<1>6. CASE Builds
    <2>1. waiting' = None
        BY <1>6 DEF Builds
    <2>2. ASSUME NEW i \in DOMAIN steps' PROVE MeantBy(steps'[i], props', past'.astray)
        <3> SUFFICES ASSUME steps'[i].kind = "write",
                            NEW f \in DOMAIN steps'[i].values \ past'.astray
                     PROVE  steps'[i].values[f] = props'[f].desired
            BY DEF MeantBy
        <3>1. PICK g \in Groups : /\ IsWritten(g)
                                  /\ DOMAIN steps'[i].values = Carried(g, fns)
                                  /\ \A h \in Carried(g, fns) : steps'[i].values[h] = props[h].desired
            BY <1>6, BuiltAsMeant
        <3>2. f \in Fields /\ f \in Members[g] /\ f \in Carried(g, fns)
            BY <3>1, CarriedFields
        <3>3. f = "shutdown" => IsWritten("Shutdown")
            BY <3>1, <3>2, GroupFields DEF Groups, Members
        <3>4. props'[f].desired = props[f].desired
            BY <1>6, <3>2, <3>3, SettledFields DEF Builds
        <3> QED BY <3>1, <3>2, <3>4
    <2> QED BY <2>1, <2>2 DEF Meant
<1>7. ASSUME NEW s, Sends(s) PROVE Meant'
    <2>1. UNCHANGED props /\ waiting' = s
        BY <1>7 DEF Sends
    <2>2. /\ MeantBy(s, props, past.astray)
          /\ \A i \in DOMAIN steps' : MeantBy(steps'[i], props, past.astray)
        BY <1>7, StepsBehind DEF Meant
    <2> QED BY <1>3, <2>1, <2>2 DEF Meant
<1>8. ASSUME NEW m, TakesOff(m), Adopts(m), m = Head(fromDev) PROVE Meant'
    <2>0. fromDev \in Seq(Answers) /\ fromDev # <<>>
        BY <1>8 DEF TakesOff, TInv, AnswersTyped
    <2>1. ASSUME waiting # None, waiting.kind = "write", NEW f \in DOMAIN waiting.values \ past'.astray
          PROVE  f \in Fields /\ f \notin DOMAIN m.values
        <3>1. waiting \in Steps /\ WriteTyped(waiting) /\ f \in Fields
            BY <2>1, CarriedAhead DEF TInv, EngineTyped, WritesTyped
        <3>2. NoneAhead(fromDev, Ack, Reports(f))
            BY <1>0, <2>1, <3>1 DEF Uncrossed, Writing
        <3>3. Ack \notin Reports(f)
            BY AnswerKinds, OthersSilent
        <3>4. \E i \in DOMAIN fromDev : fromDev[i] = Ack
            BY <2>1 DEF TInv, OneAck
        <3>5. m \notin Reports(f)
            BY <1>8, <2>0, <3>2, <3>3, <3>4, AheadTail, Zenon
        <3> QED BY <1>8, <3>1, <3>5 DEF Adopts, Reports
    <2>2. ASSUME NEW i \in DOMAIN steps, steps[i].kind = "write",
                 NEW f \in DOMAIN steps[i].values \ past'.astray
          PROVE  f \in Fields /\ f \notin DOMAIN m.values
        <3>1. f \in Fields
            BY <2>2, CarriedAhead DEF TInv, EngineTyped, WritesTyped
        <3>2. f \in WrittenAhead
            BY <2>2, AheadOfAll
        <3> QED BY <1>8, <2>2, <3>1, <3>2 DEF Adopts, Following
    <2>3. \A f \in Fields \ DOMAIN m.values : props'[f].desired = props[f].desired
        BY <1>8 DEF Adopts
    <2>4. waiting' # None => MeantBy(waiting', props', past'.astray)
        BY <1>2, <1>8, <2>1, <2>3 DEF Adopts, Meant
    <2>5. \A i \in DOMAIN steps : MeantBy(steps[i], props', past'.astray)
        BY <1>2, <2>2, <2>3 DEF Meant
    <2> QED BY <1>8, <2>4, <2>5 DEF Adopts, Meant
<1>9. CASE ReceiveAck
    <2>1. waiting' = None /\ UNCHANGED steps
          /\ \A f \in Fields : props'[f].desired = props[f].desired
        BY <1>9, AckFacts
    <2>2. ASSUME NEW i \in DOMAIN steps, steps[i].kind = "write", NEW f \in DOMAIN steps[i].values
          PROVE  f \in Fields
        BY <2>2, CarriedAhead DEF TInv, EngineTyped, WritesTyped
    <2>3. \A i \in DOMAIN steps : MeantBy(steps[i], props', past'.astray)
        BY <1>2, <2>1, <2>2 DEF Meant
    <2> QED BY <2>1, <2>3 DEF Meant
<1>10. CASE UNCHANGED <<props, steps, waiting>>
    BY <1>3, <1>10 DEF Meant
<1> QED BY <1>4, <1>5, <1>6, <1>7, <1>8, <1>9, <1>10, NextFacts DEF Reported, Aside, Apart

LEMMA StayUncrossed ==
    ASSUME TInv, Uncrossed, [Next]_vars
    PROVE  Uncrossed'
<1> SUFFICES ASSUME NEW f \in Fields, f \notin past'.astray, Writing(f)'
             PROVE  NoneAhead(fromDev', Ack, Reports(f))
    BY DEF Uncrossed
<1>1. f \notin past.astray /\ fromDev \in Seq(Answers)
    BY FollowedLess DEF TInv, AnswersTyped
<1>2. Ack \in Answers /\ Ack \notin Reports(f)
    BY AnswerKinds, OthersSilent
<1>3. UNCHANGED waiting => NoneAhead(fromDev, Ack, Reports(f))
    BY <1>1 DEF Uncrossed, Writing
<1>4. CASE UNCHANGED <<waiting, fromDev>>
    BY <1>3, <1>4
<1>5. ASSUME NEW s, SendStep, Sends(s) PROVE NoneAhead(fromDev', Ack, Reports(f))
    <2>1. s.kind = "write" /\ f \in DOMAIN s.values
        BY <1>5 DEF Sends, Writing
    <2>2. NoneOf(fromDev, Reports(f))
        BY <1>5, <2>1, SentSilent DEF Silent
    <2>3. fromDev' = Append(fromDev, Ack)
        BY <1>5, <2>1, WriteAnswered
    <2> QED BY <1>1, <1>2, <2>2, <2>3, AheadAppend, Zenon
<1>6. ASSUME NEW m, TakesOff(m), UNCHANGED waiting PROVE NoneAhead(fromDev', Ack, Reports(f))
    <2>1. fromDev # <<>> /\ fromDev' = Tail(fromDev)
        BY <1>6 DEF TakesOff
    <2> QED BY <1>1, <1>3, <1>6, <2>1, AheadTail, Zenon
<1>7. ASSUME NEW a \in Answers, a # Ack, fromDev' = Append(fromDev, a), UNCHANGED waiting
      PROVE  NoneAhead(fromDev', Ack, Reports(f))
    <2>1. NoneAhead(fromDev, Ack, Reports(f))
        BY <1>3, <1>7
    <2> QED BY <1>1, <1>7, <2>1, AheadAppend, Zenon
<1>8. ASSUME NEW g, NEW v, NEW r, Reported(g, v, r) PROVE NoneAhead(fromDev', Ack, Reports(f))
    BY <1>7, <1>8, AnswerKinds DEF Reported
<1>9. CASE ReceiveAck
    BY <1>9, AckFacts DEF Writing
<1>10. CASE Apart
    BY <1>7, <1>10, AnswerKinds DEF Apart
<1> QED BY <1>4, <1>5, <1>6, <1>8, <1>9, <1>10, NextFacts DEF Idles, Edits, Builds, Adopts, Aside

LEMMA StayAsked ==
    ASSUME TInv, EqAsked, [Next]_vars
    PROVE  EqAsked'
<1> DEFINE E == EqWrites  a == Query("eq")
<1>1. steps \in Seq(Steps) /\ Chased(steps, E, a)
    BY DEF TInv, EngineTyped, EqAsked
<1>2. CASE UNCHANGED <<steps, waiting>>
    BY <1>2 DEF EqAsked, Asked
<1>3. CASE Idles /\ ~UNCHANGED steps
    <2>1. waiting = None /\ UNCHANGED waiting /\ steps' = BuildSyncSteps
        BY <1>3 DEF Idles, TInv, EngineTyped
    <2>2. \A i \in DOMAIN steps' : steps'[i] \notin EqWrites
        BY <2>1, SyncFine DEF EqWrites
    <2> QED BY <2>1, <2>2 DEF EqAsked, Chased
<1>4. CASE Builds
    BY <1>4, CommitMade DEF Builds, EqAsked, TInv
<1>5. ASSUME NEW s, Sends(s) PROVE EqAsked'
    <2>0. steps # <<>> /\ steps' = Tail(steps)
        BY <1>5 DEF Sends
    <2>1. s = Head(steps) /\ waiting' = s
        BY <1>5, StepsBehind DEF Sends
    <2> HIDE DEF E, a
    <2>2. Chased(steps', E, a) /\ (Head(steps) \in E => ~NoneOf(steps', {a}))
        BY <1>1, <2>0, ChasedTail, Zenon
    <2> QED BY <2>1, <2>2 DEF EqAsked, Asked, NoneOf, E, a
<1>6. CASE ReceiveAck
    BY <1>6, AckFacts DEF EqAsked, Asked
<1> QED BY <1>2, <1>3, <1>4, <1>5, <1>6, NextFacts DEF Idles, Edits, Adopts, Reported, Aside, Apart

\* What a report of the owner's change silences or not.
LEMMA ReportedSilence ==
    ASSUME TInv, NEW g, NEW v, NEW r, Reported(g, v, r), NEW f \in Fields
    PROVE  /\ NoneOf(fromDev', Reports(f)) <=> Silent(f) /\ f \notin ReportOf(g, fns)
           /\ f \in Following({g}) /\ f \in ReadAtInit(fns) => f \in ReportOf(g, fns)
           /\ f \in Following({g}) => f = g \/ (f = "bands" /\ g = "preset")
<1>1. fromDev \in Seq(Answers) /\ r \in Answers /\ fromDev' = Append(fromDev, r)
    BY DEF Reported, TInv, AnswersTyped
<1>2. r \in Reports(f) <=> f \in ReportOf(g, fns)
    BY DEF Reported
<1>3. NoneOf(fromDev', Reports(f)) <=> NoneOf(fromDev, Reports(f)) /\ r \notin Reports(f)
    <2>1. r \notin Reports(f) => (NoneOf(fromDev', Reports(f)) <=> NoneOf(fromDev, Reports(f)))
        BY <1>1, LastAppend, Zenon
    <2>2. r \in Reports(f) => ~NoneOf(fromDev', Reports(f))
        BY <1>1, LastAppend, Zenon
    <2> QED BY <2>1, <2>2
<1>4. f \in Following({g}) => f = g \/ (f = "bands" /\ g = "preset")
    BY DEF Following, When
<1>5. f \in Following({g}) /\ f \in ReadAtInit(fns) => f \in ReportOf(g, fns)
    BY <1>4, ReadIsReported, EqReport
<1> QED BY <1>2, <1>3, <1>4, <1>5 DEF Silent

\* So does another message.
LEMMA ApartSilence ==
    ASSUME TInv, Apart, NEW f \in Fields
    PROVE  NoneOf(fromDev', Reports(f)) <=> Silent(f)
<1>1. PICK a \in Answers : a.kind = "switched" /\ fromDev' = Append(fromDev, a)
    BY DEF Apart
<1>2. fromDev \in Seq(Answers) /\ a \notin Reports(f)
    BY <1>1, OthersSilent DEF TInv, AnswersTyped
<1> QED BY <1>1, <1>2, LastAppend, Zenon DEF Silent

LEMMA StayShown ==
    ASSUME QueriedIsWritten, TInv, BandsClean, Truthful, Meant, Uncrossed, EqAsked', Shown,
           [Next]_vars
    PROVE  Shown'
<1> SUFFICES ASSUME NEW f \in Followed', NoneOf(fromDev', Reports(f)),
                    f \in {"preset", "bands"} => ~Asked'
             PROVE  IF Writing(f)' THEN waiting'.values[f] = dev'.value[f] ELSE Real(f)'
    BY DEF Shown, Silent
<1> DEFINE Goal == IF Writing(f)' THEN waiting'.values[f] = dev'.value[f] ELSE Real(f)'
<1>1. f \in Followed /\ f \notin past'.astray /\ f \notin past.astray /\ UNCHANGED fns
    BY FollowedLess DEF Followed
<1>2. f \in Fields /\ f \in ReadAtInit(fns) /\ f # "shutdown"
    BY <1>1, ReadFields DEF Followed
<1>3. Silent(f) /\ (f \in {"preset", "bands"} => ~Asked)
          => IF Writing(f) THEN waiting.values[f] = dev.value[f] ELSE Real(f)
    BY <1>1 DEF Shown
<1>4. ASSUME Silent(f), f \in {"preset", "bands"} => ~Asked,
             UNCHANGED waiting, dev'.value[f] = dev.value[f],
             props'[f].current = props[f].current
      PROVE  Goal
    BY <1>3, <1>4 DEF Writing, Real
<1>5. ASSUME UNCHANGED steps PROVE f \in {"preset", "bands"} => ~Asked
    BY <1>5 DEF Asked
<1> SUFFICES Goal
    OBVIOUS
<1> HIDE DEF Goal
<1>6. CASE Idles
    <2>1. f \in {"preset", "bands"} => ~Asked
        <3>1. CASE UNCHANGED steps
            BY <1>5, <3>1
        <3>2. CASE task = "none"
            BY <3>2 DEF Asked, TInv, EngineTyped
        <3> QED BY <1>6, <3>1, <3>2 DEF Idles
    <2>2. Silent(f) /\ UNCHANGED waiting /\ dev'.value[f] = dev.value[f]
          /\ props'[f].current = props[f].current
        BY <1>6 DEF Idles, Silent
    <2> QED BY <1>4, <2>1, <2>2
<1>7. ASSUME NEW d, Edits(d) PROVE Goal
    BY <1>2, <1>4, <1>5, <1>7 DEF Edits, Silent
<1>8. CASE Builds
    <2>1. ~Asked /\ props'[f] = props[f]
        <3>1. props'[f] = props[f]
            BY <1>2, <1>8, SettledFields DEF Builds, BandsClean
        <3> QED BY <1>8, <3>1 DEF Builds, Asked
    <2>2. Silent(f) /\ UNCHANGED waiting /\ dev'.value[f] = dev.value[f]
          /\ props'[f].current = props[f].current
        BY <1>8, <2>1 DEF Builds, Silent
    <2> QED BY <1>4, <2>1, <2>2
<1>9. ASSUME NEW s, Sends(s), ValueSent(s, dev'.value), SaidBy(s, fromDev') PROVE Goal
    <2>1. Silent(f) /\ ~(s = Query("eq") /\ f \in {"preset", "bands"})
        BY <1>2, <1>9 DEF SaidBy
    <2>2. f \in {"preset", "bands"} => ~Asked
        BY <1>9, <2>1, StepsBehind DEF Asked
    <2>3. Real(f)
        BY <1>3, <1>9, <2>1, <2>2 DEF Sends, Writing
    <2>4. waiting' = s /\ s # None /\ UNCHANGED props
        BY <1>9 DEF Sends
    <2>5. s.kind = "write" /\ s.group = "EqPreset" =>
              f \notin {"preset", "bands"} /\ DOMAIN s.values = {"preset"}
        <3> SUFFICES ASSUME s.kind = "write", s.group = "EqPreset"
                     PROVE  f \notin {"preset", "bands"} /\ DOMAIN s.values = {"preset"}
            OBVIOUS
        <3>1. s \in EqWrites
            BY <1>9 DEF Sends, EqWrites
        <3>2. Asked'
            BY <2>4, <3>1 DEF EqAsked
        <3>3. DOMAIN s.values = {"preset"}
            BY <1>9 DEF Sends, WriteTyped, Carried, Members
        <3> QED BY <3>2, <3>3
    <2>6. CASE s.kind = "write" /\ f \in DOMAIN s.values
        <3>1. s.group # "EqPreset"
            BY <2>5, <2>6
        <3>2. dev'.value[f] = s.values[f]
            BY <1>2, <1>9, <2>6, <3>1 DEF ValueSent
        <3> QED BY <2>4, <2>6, <3>2 DEF Goal, Writing
    <2>7. CASE ~(s.kind = "write" /\ f \in DOMAIN s.values)
        <3>1. dev'.value[f] = dev.value[f]
            BY <1>2, <1>9, <2>5, <2>7 DEF ValueSent
        <3> QED BY <2>3, <2>4, <2>7, <3>1 DEF Goal, Writing, Real
    <2> QED BY <2>6, <2>7
<1>10. ASSUME NEW m, TakesOff(m), Adopts(m), m = Head(fromDev) PROVE Goal
    <2>1. CASE m \notin Reports(f)
        <3>1. Silent(f) /\ f \notin DOMAIN m.values
            BY <1>10, <2>1 DEF TakesOff, Adopts, Reports
        <3> QED BY <1>2, <1>4, <1>5, <1>10, <3>1 DEF Adopts
    <2>2. CASE m \in Reports(f)
        <3>1. m \in Reporting(f, dev.value[f])
            BY <1>1, <1>10, <2>2 DEF TakesOff, Truthful
        <3>2. f \in DOMAIN m.values /\ m.values[f] = dev.value[f]
            BY <3>1 DEF Reporting, Reports
        <3>3. Real(f)'
            BY <1>10, <3>2 DEF Adopts, Real
        <3>4. ~Writing(f)
            <4> SUFFICES ASSUME Writing(f) PROVE FALSE
                OBVIOUS
            <4>1. NoneAhead(fromDev, Ack, Reports(f))
                BY <1>1, <1>2 DEF Uncrossed
            <4>2. Ack \notin Reports(f) /\ fromDev \in Seq(Answers) /\ fromDev # <<>>
                BY <1>10, AnswerKinds, OthersSilent DEF TakesOff, TInv, AnswersTyped
            <4>3. \A i \in DOMAIN fromDev : fromDev[i] # Ack
                BY <1>10, <2>2, <4>1, <4>2, AheadTail, Zenon
            <4> QED BY <4>3 DEF Writing, TInv, OneAck
        <3>5. ~Writing(f)'
            BY <1>10, <3>4 DEF Adopts, Writing
        <3> QED BY <3>3, <3>5 DEF Goal
    <2> QED BY <2>1, <2>2
<1>11. ASSUME NEW m, TakesOff(m), ReceiveAck, m.kind = "ack" PROVE Goal
    <2>1. Silent(f) /\ waiting # None /\ waiting' = None /\ UNCHANGED <<steps, dev>>
        <3>1. m \notin Reports(f)
            BY <1>11 DEF Reports
        <3> QED BY <1>11, <3>1, AckFacts DEF TakesOff
    <2>2. IF Writing(f) THEN waiting.values[f] = dev.value[f] ELSE Real(f)
        BY <1>3, <1>5, <2>1
    <2>3. CASE /\ waiting.kind = "write" /\ f \in Members[waiting.group]
               /\ props'[f].desired = props[f].desired /\ props'[f].current = props[f].desired
        <3>1. waiting \in Steps /\ DOMAIN waiting.values = Carried(waiting.group, fns)
              /\ waiting.group \in Groups /\ fns \in Advertised
            BY <2>1, <2>3, StepKinds DEF TInv, EngineTyped, WritesTyped, WriteTyped
        <3>2. f \in Carried(waiting.group, fns)
            <4>1. CASE waiting.group = "NcAsmGroup"
                <5>1. f \in VariantFields[QueriedVariant(fns)]
                    BY <1>2, <2>3, <4>1, ReadAmbient
                <5> QED BY <3>1, <4>1, <5>1 DEF QueriedIsWritten, Carried
            <4>2. CASE waiting.group # "NcAsmGroup"
                BY <2>3, <4>2 DEF Carried
            <4> QED BY <4>1, <4>2
        <3>3. Writing(f) /\ waiting.values[f] = props[f].desired
            BY <1>1, <2>1, <2>3, <3>1, <3>2 DEF Writing, Meant, MeantBy
        <3>4. Real(f)'
            BY <2>1, <2>2, <2>3, <3>3 DEF Real
        <3> QED BY <2>1, <3>4 DEF Goal, Writing
    <2>4. CASE (waiting.kind = "write" => f \notin Members[waiting.group]) /\ props'[f] = props[f]
        <3>1. ~Writing(f)
            <4> SUFFICES ASSUME Writing(f) PROVE FALSE
                OBVIOUS
            <4> QED BY <2>1, <2>4, CarriedAhead DEF Writing, TInv, EngineTyped, WritesTyped
        <3>2. Real(f)'
            BY <2>1, <2>2, <2>4, <3>1 DEF Real
        <3> QED BY <2>1, <3>2 DEF Goal, Writing
    <2> QED BY <1>2, <1>11, <2>3, <2>4, AckFacts
<1>12. ASSUME NEW m, TakesOff(m), m.kind \in {"list", "switched"},
              UNCHANGED <<fns, props, task, steps, waiting, dev, past>>
       PROVE  Goal
    <2>1. Silent(f)
        <3>1. m \notin Reports(f)
            BY <1>12 DEF Reports
        <3> QED BY <1>12, <3>1 DEF TakesOff
    <2> QED BY <1>4, <1>5, <1>12, <2>1
<1>13. ASSUME NEW g, NEW v, NEW r, Reported(g, v, r) PROVE Goal
    <2>1. Silent(f) /\ f \notin Following({g})
        BY <1>2, <1>13, ReportedSilence
    <2>2. dev'.value[f] = dev.value[f] /\ UNCHANGED <<steps, waiting, props>>
        BY <1>2, <1>13, <2>1 DEF Reported
    <2> QED BY <1>4, <1>5, <2>1, <2>2
<1>14. CASE Aside
    <2>1. Silent(f) /\ UNCHANGED waiting /\ dev'.value[f] = dev.value[f]
          /\ props'[f].current = props[f].current
        BY <1>14 DEF Aside, Silent
    <2>2. UNCHANGED steps
        BY <1>14 DEF Aside
    <2> QED BY <1>4, <1>5, <2>1, <2>2
<1>15. CASE Apart
    <2>1. Silent(f) /\ UNCHANGED waiting /\ dev'.value[f] = dev.value[f]
          /\ props'[f].current = props[f].current
        BY <1>2, <1>15, ApartSilence DEF Apart
    <2>2. UNCHANGED steps
        BY <1>15 DEF Apart
    <2> QED BY <1>4, <1>5, <2>1, <2>2
<1> QED BY <1>6, <1>7, <1>8, <1>9, <1>10, <1>11, <1>12, <1>13, <1>14, <1>15, NextFacts

\* At the start what is read is known, and nothing is under way.
LEMMA InitFacts ==
    ASSUME Init
    PROVE  /\ fromDev = <<>> /\ steps = <<>> /\ waiting = None
           /\ \A f \in Fields : props[f].desired = props[f].current
           /\ \A f \in ReadAtInit(fns) : Real(f)
           /\ past.own = [f \in {g \in Existing(fns) : g = "level" => dev.value[g] > 0} |-> dev.value[f]]
<1>0. \E functions, value, link, source, focus : Start(functions, value, link, source, focus)
    BY Zenon DEF Init
<1>1. PICK functions, value, link, source, focus : Start(functions, value, link, source, focus)
    BY <1>0
<1>2. TInv
    BY InitTyped
<1> DEFINE p == [f \in Fields |-> Prop(Default(f))]
           w == [f \in ReadAtInit(functions) |-> value[f]]
<1>3. /\ fns = functions /\ dev.value = value
      /\ props = Overwritten(p, w)
      /\ past.own = [f \in {g \in Existing(functions) : g = "level" => value[g] > 0} |-> value[f]]
      /\ steps = <<>> /\ waiting = None /\ fromDev = <<>>
    BY <1>1 DEF Start
<1>4. \A f \in Fields : props[f].desired = props[f].current
    <2>1. \A f \in Fields : \E v : props[f] = Prop(v)
        BY <1>3 DEF Overwritten
    <2>2. \A v : Prop(v).desired = Prop(v).current
        BY DEF Prop
    <2> QED BY <2>1, <2>2
<1>5. ASSUME NEW f \in ReadAtInit(functions) PROVE Real(f)
    <2>1. f \in Fields /\ f \in DOMAIN w /\ w[f] = dev.value[f]
        BY <1>3, ReadFields
    <2> HIDE DEF w, p
    <2>2. CASE f # "level"
        <3>1. props[f] = Prop(dev.value[f])
            BY <1>3, <2>1, <2>2, OverwrittenFields
        <3> QED BY <3>1 DEF Real, Prop
    <2>3. CASE f = "level"
        <3>1. dev.value[f] \in 0 .. 20
            BY <1>2, <2>1, <2>3 DEF TInv, DevTyped, Values
        <3>2. CASE dev.value[f] > 0
            <4>1. props[f] = Prop(Clamp(dev.value[f], 1, 20))
                BY <1>3, <2>1, <2>3, <3>2, OverwrittenFields
            <4>2. Clamp(dev.value[f], 1, 20) = dev.value[f]
                BY <3>1, <3>2 DEF Clamp
            <4> QED BY <4>1, <4>2 DEF Real, Prop
        <3>3. CASE ~(dev.value[f] > 0)
            BY <2>3, <3>1, <3>3 DEF Real
        <3> QED BY <3>2, <3>3
    <2> QED BY <2>2, <2>3
<1> HIDE DEF w, p
<1> QED BY <1>3, <1>4, <1>5

LEMMA InitFollows ==
    ASSUME Init
    PROVE  BandsClean /\ Truthful /\ Meant /\ Uncrossed /\ EqAsked /\ Shown
<1>1. BandsClean
    BY InitFacts, FieldNames DEF BandsClean, Dirty
<1>2. Truthful
    BY InitFacts DEF Truthful, LastIs
<1>3. Meant /\ Uncrossed
    BY InitFacts DEF Meant, Uncrossed, Writing
<1>4. EqAsked
    BY InitFacts DEF EqAsked, Chased
<1>5. Shown
    BY InitFacts DEF Shown, Followed, Writing
<1> QED BY <1>1, <1>2, <1>3, <1>4, <1>5

\* With nothing under way the menu shows what the headphones have, for every
\* set of functions (overwrite, PropCommit::apply, build_commit_steps): unless
\* an edit or a report has crossed a write, and if whatever NcAsmQuery reads is
\* written as well.
THEOREM MenuShowsReal ==
    ASSUME QueriedIsWritten
    PROVE  Spec => []ShownIsReal
<1> DEFINE I == TInv /\ BandsClean /\ Truthful /\ Meant /\ Uncrossed /\ EqAsked /\ Shown
<1>1. Init => I
    BY InitTyped, InitFollows
<1>2. I /\ [Next]_vars => I'
    <2> SUFFICES ASSUME I, [Next]_vars PROVE I'
        OBVIOUS
    <2>1. TInv' /\ BandsClean' /\ Truthful' /\ Meant' /\ Uncrossed' /\ EqAsked'
        BY StepTyped, BandsStayClean, StayTruthful, StayMeant, StayUncrossed, StayAsked
    <2>2. Shown'
        BY <2>1, StayShown
    <2> QED BY <2>1, <2>2
<1>3. I => ShownIsReal
    <2> SUFFICES ASSUME I, task = "none", fromDev = <<>>, NEW f \in ReadAtInit(fns) \ past.astray,
                        f \in Existing(fns)
                 PROVE  (f = "level" /\ dev.value[f] = 0) \/ props[f].current = dev.value[f]
        BY DEF ShownIsReal
    <2>1. steps = <<>> /\ waiting = None
        BY DEF TInv, EngineTyped
    <2>2. Silent(f) /\ ~Asked /\ ~Writing(f)
        BY <2>1 DEF Silent, NoneOf, Asked, Writing
    <2> QED BY <2>2 DEF Shown, Followed, Real
<1> QED BY <1>1, <1>2, <1>3, PTL DEF Spec

---------------------------------------------------------------------------
(* What the owner has set stays *)

\* The NC/ASM fields that are written are read as well, if the headphones have
\* them at all.
WrittenIsRead ==
    \A functions \in Advertised :
        VariantFields[WrittenVariant(functions)] \intersect Existing(functions)
            \subseteq VariantFields[QueriedVariant(functions)]

\* The fields as their owner has set them and the user has left them.
Owned == DOMAIN past.own \ past.astray

\* They are clean, and the app has them unless it is about to be told.
OwnKept ==
    /\ \A f \in DOMAIN past.own : f \in Existing(fns) /\ ~Dirty(f) /\ (f = "level" => past.own[f] > 0)
    /\ \A f \in Owned : /\ dev.value[f] = past.own[f]
                        /\ f \in ReadAtInit(fns) /\ Silent(f) => props[f].desired = past.own[f]

\* A write ahead that carries one, along with what the user has touched, has
\* its value; otherwise a report will throw it off.
CarriesOwn(s) ==
    s.kind = "write" => \A f \in DOMAIN s.values \intersect Owned :
        \/ ~Silent(f)
        \/ Members[s.group] # {f} /\ s.values[f] = past.own[f]
OwnCarried == \A i \in DOMAIN steps : CarriesOwn(steps[i])

\* The bands go with the preset.
PresetAhead == \E i \in DOMAIN steps : steps[i].kind = "write" /\ steps[i].group = "EqPreset"
OwnBands == "bands" \in Owned /\ (Dirty("preset") \/ PresetAhead) => ~Silent("preset")

OwnInv == OwnKept /\ OwnCarried /\ OwnBands

\* A group of several fields is read at the start if it is written.
LEMMA GroupRead ==
    ASSUME WrittenIsRead, fns \in Advertised, NEW g \in Groups, Writable(g, fns),
           NEW f \in Carried(g, fns), f \in Existing(fns), Members[g] # {f}
    PROVE  f \in ReadAtInit(fns)
<1>1. CASE g = "NcAsmGroup"
    <2>1. f \in VariantFields[QueriedVariant(fns)]
        BY <1>1 DEF WrittenIsRead, Carried
    <2> QED BY <2>1 DEF ReadAtInit
<1>2. CASE g # "NcAsmGroup"
    <2>1. f \in Members[g]
        BY <1>2 DEF Carried
    <2>2. g \in {"StcExt", "BgmMode", "TouchFunctions"}
        BY <1>2, <2>1 DEF Groups, Members
    <2>3. g \in QueriedGroups /\ Needs[g] \in fns
        BY <2>2 DEF Writable, QueriedGroups, Needs
    <2>4. f \in UNION {Members[h] : h \in {k \in QueriedGroups : Needs[k] \in fns}}
        BY <2>1, <2>3
    <2> QED BY <2>4 DEF ReadAtInit
<1> QED BY <1>1, <1>2

LEMMA InitOwn ==
    ASSUME Init
    PROVE  OwnInv
<1>1. \A f \in Fields : ~Dirty(f)
    BY InitFacts DEF Dirty
<1> DEFINE D == {g \in Existing(fns) : g = "level" => dev.value[g] > 0}
<1>2. DOMAIN past.own = D /\ \A f \in D : past.own[f] = dev.value[f]
    BY InitFacts
<1>3. D \subseteq Existing(fns) /\ D \subseteq Fields /\ \A f \in D : f = "level" => dev.value[f] > 0
    BY ReadFields
<1> HIDE DEF D
<1>4. \A f \in DOMAIN past.own : f \in Existing(fns) /\ ~Dirty(f) /\ (f = "level" => past.own[f] > 0)
    BY <1>1, <1>2, <1>3
<1>5. ASSUME NEW f \in Owned
      PROVE  /\ dev.value[f] = past.own[f]
             /\ f \in ReadAtInit(fns) /\ Silent(f) => props[f].desired = past.own[f]
    <2>1. f \in D /\ past.own[f] = dev.value[f] /\ f \in Fields
        BY <1>2, <1>3, <1>5 DEF Owned
    <2>2. f = "level" => dev.value[f] # 0
        BY <1>3, <2>1
    <2>3. f \in ReadAtInit(fns) => props[f].current = dev.value[f]
        BY <2>2, InitFacts DEF Real
    <2>4. props[f].desired = props[f].current
        BY <2>1, InitFacts
    <2> QED BY <2>1, <2>3, <2>4
<1>6. OwnCarried
    BY InitFacts DEF OwnCarried
<1>7. OwnBands
    BY <1>1, InitFacts, FieldNames DEF OwnBands, PresetAhead
<1> QED BY <1>4, <1>5, <1>6, <1>7 DEF OwnInv, OwnKept

\* Only a change on the headphones makes a value the owner's.
LEMMA OwnLess ==
    ASSUME TInv, [Next]_vars
    PROVE  \/ \E g, v, r : Reported(g, v, r)
           \/ \A f \in DOMAIN past'.own : f \in DOMAIN past.own /\ past'.own[f] = past.own[f]
<1>1. past'.own = past.own =>
          \A f \in DOMAIN past'.own : f \in DOMAIN past.own /\ past'.own[f] = past.own[f]
    OBVIOUS
<1>2. ASSUME NEW d, Edits(d)
      PROVE  \A f \in DOMAIN past'.own : f \in DOMAIN past.own /\ past'.own[f] = past.own[f]
    BY <1>2 DEF Edits
<1>3. ReceiveAck => past'.own = past.own
    BY AckFacts
<1> QED BY <1>1, <1>2, <1>3, NextFacts DEF Idles, Builds, Sends, Adopts, Aside, Apart

LEMMA OwnReported ==
    ASSUME TInv, BandsClean, OwnKept, NEW g, NEW v, NEW r, Reported(g, v, r), NEW f \in DOMAIN past'.own
    PROVE  /\ f \in Fields
           /\ \/ /\ f \in Following({g}) /\ past'.own[f] = v /\ dev'.value[f] = v
                 /\ f \in Existing(fns) /\ ~Dirty(f) /\ (f = "level" => v > 0)
              \/ /\ f \notin Following({g}) /\ f \in DOMAIN past.own /\ past'.own[f] = past.own[f]
                 /\ dev'.value[f] = dev.value[f]
<1>1. /\ g \in Fields /\ g \in Existing(fns) /\ v \in Samples(g)
      /\ \A h \in Fields : dev'.value[h] = IF h \in Following({g}) THEN v ELSE dev.value[h]
    BY DEF Reported
<1>2. DOMAIN past.own \subseteq Fields
    BY ReadFields DEF OwnKept
<1>3. Following({g}) \subseteq Fields
    BY <1>1, FollowingFields
<1>4. CASE Dirty(g)
    <2>1. past'.own = [h \in DOMAIN past.own \ Following({g}) |-> past.own[h]]
        BY <1>4 DEF Reported
    <2> QED BY <1>1, <1>2, <2>1
<1>5. CASE ~Dirty(g)
    <2>1. past'.own = Over([h \in Following({g}) |-> v], past.own)
        BY <1>5 DEF Reported
    <2>2. CASE f \in Following({g})
        <3>1. past'.own[f] = v /\ dev'.value[f] = v /\ f \in Fields
            BY <1>1, <1>3, <2>1, <2>2 DEF Over
        <3>2. f = g \/ f = "bands"
            BY <2>2 DEF Following, When
        <3>3. f \in Existing(fns)
            BY <1>1, <3>2 DEF Existing
        <3>4. ~Dirty(f)
            BY <1>5, <3>2 DEF BandsClean
        <3>5. f = "level" => v > 0
            BY <1>1, <3>2 DEF Samples
        <3> QED BY <2>2, <3>1, <3>3, <3>4, <3>5
    <2>3. CASE f \notin Following({g})
        <3>1. f \in DOMAIN past.own /\ past'.own[f] = past.own[f]
            BY <2>1, <2>3 DEF Over
        <3> QED BY <1>1, <1>2, <2>3, <3>1
    <2> QED BY <2>2, <2>3
<1> QED BY <1>4, <1>5

LEMMA StayOwnKept ==
    ASSUME TInv, BandsClean, Truthful, OwnInv, [Next]_vars
    PROVE  OwnKept'
<1>0. UNCHANGED fns /\ past.astray \subseteq past'.astray
    BY FollowedLess
<1> DEFINE Clean(f) == f \in Existing(fns) /\ ~Dirty(f)' /\ (f = "level" => past'.own[f] > 0)
           Stays(f) == /\ dev'.value[f] = past'.own[f]
                       /\ f \in ReadAtInit(fns) /\ NoneOf(fromDev', Reports(f))
                              => props'[f].desired = past'.own[f]
<1> SUFFICES ASSUME NEW f \in DOMAIN past'.own
             PROVE  Clean(f) /\ (f \notin past'.astray => Stays(f))
    BY <1>0 DEF OwnKept, Owned, Silent
<1> HIDE DEF Clean, Stays
<1>1. CASE \E g, v, r : Reported(g, v, r)
    <2>1. PICK g, v, r : Reported(g, v, r)
        BY <1>1
    <2>2. UNCHANGED props /\ past'.astray = past.astray /\ f \in Fields
        BY <2>1, OwnReported DEF Reported, OwnInv
    <2>3. CASE /\ f \in Following({g}) /\ past'.own[f] = v /\ dev'.value[f] = v
               /\ f \in Existing(fns) /\ ~Dirty(f) /\ (f = "level" => v > 0)
        <3>1. Clean(f)
            BY <2>2, <2>3 DEF Clean, Dirty
        <3>2. f \in ReadAtInit(fns) => ~NoneOf(fromDev', Reports(f))
            BY <2>1, <2>2, <2>3, ReportedSilence
        <3> QED BY <2>3, <3>1, <3>2 DEF Stays
    <2>4. CASE /\ f \notin Following({g}) /\ f \in DOMAIN past.own /\ past'.own[f] = past.own[f]
               /\ dev'.value[f] = dev.value[f]
        <3>1. Clean(f)
            BY <2>2, <2>4 DEF Clean, Dirty, OwnInv, OwnKept
        <3>2. NoneOf(fromDev', Reports(f)) => Silent(f)
            BY <2>1, <2>2, ReportedSilence
        <3>3. f \notin past'.astray => Stays(f)
            BY <2>2, <2>4, <3>2 DEF Stays, OwnInv, OwnKept, Owned
        <3> QED BY <3>1, <3>3
    <2> QED BY <2>1, <2>3, <2>4, OwnReported DEF OwnInv
<1>2. CASE f \in DOMAIN past.own /\ past'.own[f] = past.own[f]
    <2>1. f \in Fields /\ f \in Existing(fns) /\ ~Dirty(f) /\ (f = "level" => past'.own[f] > 0)
        BY <1>2, ReadFields DEF OwnInv, OwnKept
    <2>2. ~Dirty(f)' => Clean(f)
        BY <2>1 DEF Clean
    <2>3. f \notin past'.astray => f \in Owned /\ dev.value[f] = past'.own[f]
        BY <1>0, <1>2 DEF OwnInv, OwnKept, Owned
    <2>4. f \notin past'.astray /\ f \in ReadAtInit(fns) /\ Silent(f) => props[f].desired = past'.own[f]
        BY <1>2, <2>3 DEF OwnInv, OwnKept
\* A step that touches neither the field nor what is told of it.
    <2>5. ASSUME props'[f].desired = props[f].desired,
                 props'[f].current = props[f].current \/ props'[f].current = props[f].desired,
                 dev'.value[f] = dev.value[f], NoneOf(fromDev', Reports(f)) => Silent(f)
          PROVE  Clean(f) /\ (f \notin past'.astray => Stays(f))
        <3>1. Clean(f)
            BY <2>1, <2>2, <2>5 DEF Dirty
        <3> QED BY <2>3, <2>4, <2>5, <3>1 DEF Stays
    <2>6. ASSUME NEW d, Edits(d) PROVE Clean(f) /\ (f \notin past'.astray => Stays(f))
        <3>1. f \notin DOMAIN d
            BY <2>6 DEF Edits, Following
        <3>2. props'[f] = props[f] /\ UNCHANGED <<dev, fromDev>>
            BY <2>1, <2>6, <3>1 DEF Edits
        <3> QED BY <2>5, <3>2 DEF Silent
    <2>7. CASE Idles
        BY <2>5, <2>7 DEF Idles, Silent
    <2>8. CASE Builds
        <3>1. props'[f] = props[f]
            BY <2>1, <2>8, SettledFields DEF Builds
        <3>2. UNCHANGED <<dev, fromDev>>
            BY <2>8 DEF Builds
        <3> QED BY <2>5, <3>1, <3>2 DEF Silent
    <2>9. ASSUME NEW s, Sends(s), ValueSent(s, dev'.value), SaidBy(s, fromDev')
          PROVE  Clean(f) /\ (f \notin past'.astray => Stays(f))
        <3>1. UNCHANGED props /\ (NoneOf(fromDev', Reports(f)) => Silent(f))
            BY <2>1, <2>9 DEF Sends, SaidBy
        <3>2. Clean(f)
            BY <2>1, <2>2, <3>1 DEF Dirty
        <3>3. ASSUME f \notin past'.astray PROVE dev'.value[f] = past'.own[f]
            <4>1. CASE s.kind = "write" /\ s.group # "EqPreset" /\ f \in DOMAIN s.values
                <5>1. Silent(f)
                    BY <2>9, <3>3, <4>1, SentSilent
                <5>2. CarriesOwn(s)
                    BY <2>9, StepsBehind DEF OwnInv, OwnCarried
                <5>3. s.values[f] = past.own[f]
                    BY <2>3, <3>3, <4>1, <5>1, <5>2 DEF CarriesOwn
                <5> QED BY <1>2, <2>1, <2>9, <4>1, <5>3 DEF ValueSent
            <4>2. CASE s.kind = "write" /\ s.group = "EqPreset" /\ f \in {"preset", "bands"}
                <5>1. Silent(f)
                    BY <2>9, <3>3, <4>2, SentSilent
                <5>2. s \in Steps /\ DOMAIN s.values = {"preset"} /\ Members["EqPreset"] = {"preset"}
                    BY <2>9, <4>2 DEF Sends, WriteTyped, Carried, Members
                <5>3. CASE f = "preset"
                    <6>1. CarriesOwn(s)
                        BY <2>9, StepsBehind DEF OwnInv, OwnCarried
                    <6> QED BY <2>3, <3>3, <4>2, <5>1, <5>2, <5>3, <6>1 DEF CarriesOwn
                <5>4. CASE f = "bands"
                    <6>1. PresetAhead
                        BY <2>9, <4>2, StepsBehind DEF PresetAhead
                    <6>2. ~Silent("preset")
                        BY <2>3, <3>3, <5>4, <6>1 DEF OwnInv, OwnBands
                    <6>3. \A i \in DOMAIN fromDev : fromDev[i] \in Answers
                        BY DEF TInv, AnswersTyped
                    <6> QED BY <5>1, <5>4, <6>2, <6>3, EqReported DEF Silent, NoneOf
                <5> QED BY <4>2, <5>3, <5>4
            <4>3. CASE dev'.value[f] = dev.value[f]
                BY <2>3, <3>3, <4>3
            <4> QED BY <2>1, <2>9, <4>1, <4>2, <4>3 DEF ValueSent
        <3> QED BY <2>4, <3>1, <3>2, <3>3 DEF Stays
    <2>10. ASSUME NEW m, TakesOff(m), Adopts(m) PROVE Clean(f) /\ (f \notin past'.astray => Stays(f))
        <3>0. UNCHANGED dev
            BY <2>10 DEF Adopts
        <3>1. CASE f \notin DOMAIN m.values
            <4>1. props'[f] = props[f]
                BY <2>1, <2>10, <3>1 DEF Adopts
            <4>2. NoneOf(fromDev', Reports(f)) => Silent(f)
                BY <2>10, <3>1 DEF TakesOff, Reports
            <4> QED BY <2>5, <3>0, <4>1, <4>2
        <3>2. CASE f \in DOMAIN m.values
            <4>1. Clean(f)
                BY <2>1, <2>2, <2>10, <3>2 DEF Adopts, Dirty
            <4>2. ASSUME f \notin past'.astray, f \in ReadAtInit(fns), NoneOf(fromDev', Reports(f))
                  PROVE  props'[f].desired = past'.own[f]
                <5>1. f \in Followed /\ m \in Reports(f)
                    BY <1>0, <2>1, <2>10, <3>2, <4>2 DEF Followed, Reports, Adopts
                <5>2. m \in Reporting(f, dev.value[f])
                    BY <2>10, <4>2, <5>1 DEF TakesOff, Truthful
                <5>3. m.values[f] = past'.own[f]
                    BY <2>3, <4>2, <5>2 DEF Reporting
                <5>4. f = "level" => m.values[f] # 0
                    BY <2>1, <5>3
                <5> QED BY <2>10, <3>2, <5>3, <5>4 DEF Adopts
            <4> QED BY <2>3, <3>0, <4>1, <4>2 DEF Stays
        <3> QED BY <3>1, <3>2
    <2>11. ASSUME NEW m, TakesOff(m), ReceiveAck, m.kind = "ack"
           PROVE  Clean(f) /\ (f \notin past'.astray => Stays(f))
        <3>1. m \notin Reports(f)
            BY <2>11 DEF Reports
        <3>2. NoneOf(fromDev', Reports(f)) => Silent(f)
            BY <2>11, <3>1 DEF TakesOff
        <3>3. /\ UNCHANGED dev /\ props'[f].desired = props[f].desired
              /\ props'[f].current = props[f].current \/ props'[f].current = props[f].desired
            BY <2>1, <2>11, AckFacts
        <3> QED BY <2>5, <3>2, <3>3
    <2>12. ASSUME NEW m, TakesOff(m), m.kind \in {"list", "switched"},
                  UNCHANGED <<fns, props, task, steps, waiting, dev, past>>
           PROVE  Clean(f) /\ (f \notin past'.astray => Stays(f))
        <3>1. m \notin Reports(f)
            BY <2>12 DEF Reports
        <3>2. NoneOf(fromDev', Reports(f)) => Silent(f)
            BY <2>12, <3>1 DEF TakesOff
        <3> QED BY <2>5, <2>12, <3>2
    <2>13. CASE Aside
        <3>1. UNCHANGED <<props, fromDev>> /\ dev'.value[f] = dev.value[f]
            BY <2>13 DEF Aside
        <3> QED BY <2>5, <3>1 DEF Silent
    <2>14. CASE Apart
        <3>1. UNCHANGED props /\ dev'.value[f] = dev.value[f]
            BY <2>14 DEF Apart
        <3> QED BY <2>1, <2>5, <2>14, <3>1, ApartSilence
    <2> QED BY <1>1, <2>6, <2>7, <2>8, <2>9, <2>10, <2>11, <2>12, <2>13, <2>14, NextFacts
<1> QED BY <1>1, <1>2, OwnLess

\* A message of another kind than the reports is taken off, and nothing of a
\* field is lost with it.
LEMMA OthersOff ==
    ASSUME NEW m, TakesOff(m), m.kind # "param", NEW f
    PROVE  NoneOf(fromDev', Reports(f)) <=> Silent(f)
<1>1. m \notin Reports(f)
    BY DEF Reports
<1> QED BY <1>1 DEF TakesOff

LEMMA StayOwnCarried ==
    ASSUME WrittenIsRead, TInv, BandsClean, OwnInv, [Next]_vars
    PROVE  OwnCarried'
<1>0. UNCHANGED fns /\ past.astray \subseteq past'.astray /\ TInv' /\ fns \in Advertised
    BY FollowedLess, StepTyped DEF TInv, EngineTyped
<1> SUFFICES ASSUME NEW i \in DOMAIN steps', steps'[i].kind = "write",
                    NEW f \in DOMAIN steps'[i].values, f \in DOMAIN past'.own, f \notin past'.astray,
                    NoneOf(fromDev', Reports(f))
             PROVE  Members[steps'[i].group] # {f} /\ steps'[i].values[f] = past'.own[f]
    BY DEF OwnCarried, CarriesOwn, Owned, Silent
<1> DEFINE s == steps'[i]
           Goal == Members[s.group] # {f} /\ s.values[f] = past'.own[f]
<1>1. /\ s \in Steps /\ s.kind = "write" /\ f \in DOMAIN s.values
      /\ DOMAIN s.values = Carried(s.group, fns)
    <2>1. steps' \in Seq(Steps)
        BY <1>0 DEF TInv, EngineTyped
    <2>2. DOMAIN s.values = Carried(s.group, fns)
        BY <1>0 DEF TInv, WritesTyped, WriteTyped
    <2> QED BY <2>1, <2>2
<1>2. f \in Fields /\ s.group \in Groups /\ f \in Members[s.group] /\ f \in Carried(s.group, fns)
    <2>1. f \in Carried(s.group, fns)
        BY <1>0, <1>1 DEF WriteTyped
    <2> QED BY <1>1, <2>1, StepKinds, CarriedFields
<1> SUFFICES Goal
    OBVIOUS
\* The step was ahead before.
<1>3. ASSUME f \in DOMAIN past.own, past'.own[f] = past.own[f], Silent(f),
             NEW j \in DOMAIN steps, steps[j] = s
      PROVE  Goal
    <2>1. f \in Owned /\ CarriesOwn(steps[j])
        BY <1>0, <1>3 DEF Owned, OwnInv, OwnCarried
    <2> QED BY <1>1, <1>3, <2>1 DEF CarriesOwn
<1>4. CASE \E g, v, r : Reported(g, v, r)
    <2>1. PICK g, v, r : Reported(g, v, r)
        BY <1>4
    <2>2. Silent(f) /\ f \notin ReportOf(g, fns) /\ UNCHANGED steps
        BY <1>2, <2>1, ReportedSilence DEF Reported
    <2>3. f \notin Following({g})
        <3> SUFFICES ASSUME f \in Following({g}) PROVE FALSE
            OBVIOUS
        <3>1. f = g
            <4>1. f = "bands" /\ g = "preset" => f \in ReportOf(g, fns)
                BY EqReport
            <4> QED BY <1>2, <2>1, <2>2, <4>1, ReportedSilence
        <3>2. f \in Members["NcAsmGroup"] /\ f \notin VariantFields[QueriedVariant(fns)]
            BY <1>2, <2>2, <3>1, OwnReport
        <3>3. s.group = "NcAsmGroup"
            BY <1>2, <3>2, GroupFields DEF Groups, Members
        <3>4. f \in Existing(fns)
            BY <2>1, <3>1 DEF Reported
        <3> QED BY <1>0, <1>2, <3>2, <3>3, <3>4 DEF WrittenIsRead, Carried
    <2>4. f \in DOMAIN past.own /\ past'.own[f] = past.own[f]
        BY <2>1, <2>3, OwnReported DEF OwnInv
    <2> QED BY <1>3, <2>2, <2>4
<1>5. CASE f \in DOMAIN past.own /\ past'.own[f] = past.own[f]
    <2>1. CASE UNCHANGED steps /\ Silent(f)
        BY <1>3, <1>5, <2>1
    <2>2. CASE Idles
        <3>1. CASE UNCHANGED steps
            BY <2>1, <2>2, <3>1 DEF Idles, Silent
        <3>2. CASE steps' = BuildSyncSteps
            <4>1. s.kind = "query"
                BY <3>2, SyncFine
            <4> QED BY <1>1, <4>1
        <3> QED BY <2>2, <3>1, <3>2 DEF Idles
    <2>3. ASSUME NEW d, Edits(d) PROVE Goal
        BY <2>1, <2>3 DEF Edits, Silent
    <2>4. CASE Builds
        <3>1. PICK g \in Groups : /\ IsWritten(g) /\ s.group = g
                                  /\ \A h \in Carried(g, fns) : s.values[h] = props[h].desired
            BY <1>1, <2>4, BuiltAsMeant
        <3>2. PICK h \in Members[g] : Dirty(h)
            BY <3>1 DEF IsWritten
        <3>3. f \in Owned /\ f \in Existing(fns) /\ ~Dirty(f)
            BY <1>0, <1>5 DEF Owned, OwnInv, OwnKept
        <3>4. Members[g] # {f}
            BY <3>2, <3>3
        <3>5. f \in ReadAtInit(fns)
            BY <1>0, <1>2, <3>1, <3>3, <3>4, GroupRead DEF IsWritten
        <3>6. Silent(f)
            BY <2>4 DEF Builds, Silent
        <3>7. props[f].desired = past.own[f]
            BY <3>3, <3>5, <3>6 DEF OwnInv, OwnKept
        <3> QED BY <1>2, <1>5, <3>1, <3>4, <3>7
    <2>5. ASSUME NEW q, Sends(q), SaidBy(q, fromDev') PROVE Goal
        <3>1. Silent(f)
            BY <1>2, <2>5 DEF SaidBy
        <3>2. i + 1 \in DOMAIN steps /\ steps[i + 1] = s
            BY <2>5, StepsBehind
        <3> QED BY <1>3, <1>5, <3>1, <3>2
    <2>6. ASSUME NEW m, TakesOff(m), Adopts(m) PROVE Goal
        <3>1. UNCHANGED steps
            BY <2>6 DEF Adopts
        <3>2. f \in WrittenAhead
            BY <1>1, <3>1, AheadOfAll
        <3>3. f \notin DOMAIN m.values
            BY <2>6, <3>2 DEF Adopts, Following
        <3>4. Silent(f)
            BY <2>6, <3>3 DEF TakesOff, Reports
        <3> QED BY <2>1, <3>1, <3>4
    <2>7. ASSUME NEW m, TakesOff(m), m.kind # "param", UNCHANGED steps PROVE Goal
        BY <2>1, <2>7, OthersOff
    <2>8. CASE Aside
        BY <2>1, <2>8 DEF Aside, Silent
    <2>9. CASE Apart
        <3>1. UNCHANGED steps /\ Silent(f)
            BY <1>2, <2>9, ApartSilence DEF Apart
        <3> QED BY <2>1, <3>1
    <2>10. ReceiveAck => UNCHANGED steps
        BY AckFacts
    <2> HIDE DEF Goal
    <2> QED BY <1>4, <2>2, <2>3, <2>4, <2>5, <2>6, <2>7, <2>8, <2>9, <2>10, NextFacts
<1> QED BY <1>4, <1>5, OwnLess

LEMMA StayOwnBands ==
    ASSUME TInv, BandsClean, OwnInv, [Next]_vars
    PROVE  OwnBands'
<1> DEFINE p == "preset"  b == "bands"
<1>0. p \in Fields /\ b \in Fields /\ b \in Following({p}) /\ Following({b}) = {b}
    BY FieldNames DEF Following, When
<1>1. past.astray \subseteq past'.astray
    BY FollowedLess
<1> SUFFICES ASSUME b \in DOMAIN past'.own, b \notin past'.astray, Dirty(p)' \/ PresetAhead',
                    NoneOf(fromDev', Reports(p))
             PROVE  FALSE
    BY DEF OwnBands, Owned, Silent
<1>2. b \in DOMAIN past.own /\ (Dirty(p) \/ PresetAhead) => ~Silent(p)
    BY <1>1 DEF OwnInv, OwnBands, Owned
<1>3. CASE \E g, v, r : Reported(g, v, r)
    <2>1. PICK g, v, r : Reported(g, v, r)
        BY <1>3
    <2>2. Silent(p) /\ p \notin ReportOf(g, fns) /\ UNCHANGED <<props, steps>>
        BY <1>0, <2>1, ReportedSilence DEF Reported
    <2>3. b \notin Following({g})
        BY <2>2, EqReport DEF Following, When
    <2>4. b \in DOMAIN past.own
        BY <2>1, <2>3, OwnReported DEF OwnInv
    <2> QED BY <1>2, <2>2, <2>4 DEF Dirty, PresetAhead
<1>4. CASE b \in DOMAIN past.own /\ past'.own[b] = past.own[b]
    <2>0. ~((Dirty(p) \/ PresetAhead) /\ Silent(p))
        BY <1>2, <1>4
    <2>1. ASSUME UNCHANGED steps, Dirty(p)' => Dirty(p), Silent(p) PROVE FALSE
        BY <2>0, <2>1 DEF PresetAhead
    <2>2. CASE Idles
        <3>1. UNCHANGED <<props, fromDev>>
            BY <2>2 DEF Idles
        <3>2. PresetAhead' => PresetAhead
            <4>1. CASE UNCHANGED steps
                BY <4>1 DEF PresetAhead
            <4>2. CASE steps' = BuildSyncSteps
                BY <4>2, SyncFine DEF PresetAhead
            <4> QED BY <2>2, <4>1, <4>2 DEF Idles
        <3> QED BY <2>0, <3>1, <3>2 DEF Dirty, Silent
    <2>3. ASSUME NEW d, Edits(d) PROVE FALSE
        <3>1. p \notin DOMAIN d
            BY <2>3 DEF Edits, Following, When
        <3>2. props'[p] = props[p] /\ UNCHANGED <<steps, fromDev>>
            BY <1>0, <2>3, <3>1 DEF Edits
        <3> QED BY <2>1, <3>2 DEF Dirty, Silent
    <2>4. CASE Builds
        <3>1. UNCHANGED fromDev /\ props'[p] = props[p]
            BY <1>0, <2>4, SettledFields DEF Builds
        <3>2. PresetAhead' => Dirty(p)
            <4> SUFFICES ASSUME NEW i \in DOMAIN steps', steps'[i].kind = "write",
                                steps'[i].group = "EqPreset"
                         PROVE  Dirty(p)
                BY DEF PresetAhead
            <4>1. IsWritten("EqPreset")
                BY <2>4, BuiltAsMeant
            <4> QED BY <4>1 DEF IsWritten, Members
        <3> QED BY <2>0, <3>1, <3>2 DEF Dirty, Silent
    <2>5. ASSUME NEW s, Sends(s), SaidBy(s, fromDev') PROVE FALSE
        <3>1. Silent(p) /\ UNCHANGED props
            BY <1>0, <2>5 DEF SaidBy, Sends
        <3>2. PresetAhead' => PresetAhead
            BY <2>5, StepsBehind DEF PresetAhead
        <3> QED BY <2>0, <3>1, <3>2 DEF Dirty
    <2>6. ASSUME NEW m, TakesOff(m), Adopts(m) PROVE FALSE
        <3>1. UNCHANGED steps
            BY <2>6 DEF Adopts
        <3>2. CASE p \in DOMAIN m.values
            <4>1. ~Dirty(p)'
                BY <2>6, <3>2 DEF Adopts, Dirty
            <4>2. PICK i \in DOMAIN steps : steps[i].kind = "write" /\ steps[i].group = "EqPreset"
                BY <3>1, <4>1 DEF PresetAhead
            <4>3. p \in DOMAIN steps[i].values
                BY <4>2 DEF TInv, WritesTyped, WriteTyped, Carried, Members
            <4>4. p \in WrittenAhead
                BY <4>2, <4>3, AheadOfAll
            <4> QED BY <2>6, <3>2, <4>4 DEF Adopts, Following, When
        <3>3. CASE p \notin DOMAIN m.values
            <4>1. Silent(p) /\ props'[p] = props[p]
                BY <1>0, <2>6, <3>3 DEF TakesOff, Adopts, Reports
            <4> QED BY <2>1, <3>1, <4>1 DEF Dirty
        <3> QED BY <3>2, <3>3
    <2>7. ASSUME NEW m, TakesOff(m), m.kind = "ack", ReceiveAck PROVE FALSE
        <3>1. Silent(p)
            BY <2>7, OthersOff
        <3>2. UNCHANGED steps /\ (Dirty(p)' => Dirty(p))
            BY <1>0, <2>7, AckFacts DEF Dirty
        <3> QED BY <2>1, <3>1, <3>2
    <2>8. ASSUME NEW m, TakesOff(m), m.kind \in {"list", "switched"}, UNCHANGED <<props, steps>>
          PROVE  FALSE
        <3>1. Silent(p)
            BY <2>8, OthersOff
        <3> QED BY <2>1, <2>8, <3>1 DEF Dirty
    <2>9. CASE Aside
        BY <2>1, <2>9 DEF Aside, Silent, Dirty
    <2>10. CASE Apart
        <3>1. UNCHANGED <<props, steps>> /\ Silent(p)
            BY <1>0, <2>10, ApartSilence DEF Apart
        <3> QED BY <2>1, <3>1 DEF Dirty
    <2> QED BY <1>3, <2>2, <2>3, <2>4, <2>5, <2>6, <2>7, <2>8, <2>9, <2>10, NextFacts
<1> QED BY <1>3, <1>4, OwnLess

\* A write of a group leaves what the user has not touched as its owner has set
\* it, whatever is reported while the write is made and sent (build_commit_steps
\* fills the whole payload): unless an edit or a report has crossed a write, and
\* if whatever is written of the NC/ASM fields is read as well.
THEOREM WritesSpareOwn ==
    ASSUME WrittenIsRead
    PROVE  Spec => []NoCollateral
<1> DEFINE I == TInv /\ BandsClean /\ Truthful /\ OwnInv
<1>1. Init => I
    BY InitTyped, InitFollows, InitOwn
<1>2. I /\ [Next]_vars => I'
    <2> SUFFICES ASSUME I, [Next]_vars PROVE I'
        OBVIOUS
    <2>1. TInv' /\ BandsClean' /\ Truthful'
        BY StepTyped, BandsStayClean, StayTruthful
    <2>2. OwnInv'
        BY StayOwnKept, StayOwnCarried, StayOwnBands DEF OwnInv
    <2> QED BY <2>1, <2>2
<1>3. I => NoCollateral
    BY DEF NoCollateral, OwnInv, OwnKept, Owned
<1> QED BY <1>1, <1>2, <1>3, PTL DEF Spec
=============================================================================
