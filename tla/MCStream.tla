------------------------------ MODULE MCStream ------------------------------
(* Small instances of Stream. *)
EXTENDS Stream

Frame(type, seq, data) == [type |-> type, seq |-> seq, data |-> data]

\* Three frames, two of them to be acknowledged, one of them made of bytes that
\* have to be escaped; and a frame of a type the engine passes over.
Three   == <<Frame(DataMdr, 0, <<60, 61>>), Frame(AckType, 1, <<>>), Frame(DataMdrNo2, 1, <<62>>)>>
Unknown == <<Frame(DataMdr, 1, <<>>), Frame(13, 0, <<48>>)>>
MCScripts == {Three, Unknown}

AllKinds    == {"mock", "classic", "gatt"}
JustClassic == {"classic"}
OneFrame    == {<<Frame(DataMdr, 0, <<>>)>>}
=============================================================================
