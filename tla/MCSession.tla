----------------------------- MODULE MCSession -----------------------------
(* Instances of Session for TLC: one plain setting, up to two general ones. *)
EXTENDS Session, TLC

CONSTANTS volume, gs1, gs2

OnePlain   == <<volume>>
NoSettings == <<>>
TwoGeneral == <<gs1, gs2>>

\* Headphones with table 2 and both general settings, and without it and with
\* only one of them, the second as well as the first.
FullAndGaps == {{"Table2", "PairedList", gs1, gs2}, {gs1}, {gs2}}
JustTableTwo == {{"Table2", "PairedList"}}
Nothing      == {{}}
=============================================================================
