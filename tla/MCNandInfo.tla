----------------------------- MODULE MCNandInfo -----------------------------
(* Fields of up to two characters over a byte of four values.             *)
EXTENDS NandInfo

Rain    == <<1, 2>>     \* the type with LEDs
Rain100 == {<<1>>}

Pad(s, n) == s \o [i \in 1 .. n - Len(s) |-> 3]   \* bytes nobody has cleared

Serials == {Pad(<<Len(s), h>> \o s, 4) : s \in {<<>>, <<1>>, <<2, 1>>, <<1, 0>>}, h \in {0, 3}}
Types   == {Pad(<<Len(s)>> \o s, 3) : s \in {<<>>, <<1>>, <<1, 2>>, <<2, 0>>}}
Ids     == {<<0, 0, 0, 1>>, <<1, 2, 3, 0>>, <<2, 0, 0, 3>>, <<3, 3, 3, 3>>}

Full  == {s \o t \o h \o i : s \in Serials, t \in Types, h \in Types, i \in Ids}
Short == {SubSeq(n, 1, k) : n \in {<<2, 0, 2, 1, 2, 1, 2, 1, 1, 3, 3, 3, 3, 3>>},
                            k \in 0 .. 13}

MCNands == Full \cup Short
=============================================================================
