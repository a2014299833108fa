---------------------------- MODULE MCSettings ------------------------------
(* Small instances of Settings: headphones by the functions they advertise. *)
EXTENDS Settings

CONSTANTS a1, a2

MCAddresses == {a1, a2}

\* After the in-ear and over-ear models the code names, and the two corners: a
\* model with nothing but a seamless ambient level, and one with nothing.
Xm6 == {"Battery", "PowerOff", "DualNcNa", "ModeSelect", "SmartTalk", "Listening", "Dsee",
        "Assignable", "HeadGesture", "AutoOffWearing", "AutoPause", "Table2", "VoiceVolume",
        "PairedClass", "gs1", "gs2"}
Xm5 == {"Battery", "DualNc", "AutoOff", "Dsee", "Table2", "Paired", "gs1"}
MCAdvertised == {Xm6, Xm5, {"AsmSeamless"}, {}}

\* One behaviour touches the ambient sound, the playback, or the rest.
MCFocuses ==
    {{"enabled", "mode", "level", "auto"}, {"volume", "preset"}, {"stc", "stcTime", "left"},
     {"voiceVol", "autoPause", "gs1", "gs2"}, {"powerOff", "shutdown", "cinema"}, {"multipoint", "room"}}

\* A second general setting without a first.
SecondOnly == {{"Battery", "gs2"}}
GeneralFocus == {{"gs1", "gs2"}}

=============================================================================
