-------------------------- MODULE MCCommandQueries --------------------------
(* Model-checking instance of CommandQueries: every output of at most      *)
(* MaxOut bytes over two letters, newline and zero.                        *)
EXTENDS CommandQueries

CONSTANTS MaxOut, Other

MCOutputs == BoundedSeq(Char, MaxOut)
MCRates   == <<Other, Yes>>
MCDigit   == (Yes :> 7 @@ Other :> 2)
MCNumber  == [w \in BoundedSeq(Letter, SIZE - 1) |->
                 FoldLeft(LAMBDA acc, c : 10 * acc + MCDigit[c], 0, w)]
MCUpper   == [c \in Letter |-> Other]
MCValues  == {<<>>, <<Yes>>, <<Yes, Other>>}
MCSizes   == 1 .. 100
MCBytes   == {2^i : i \in 0 .. 7} \cup {0, 170, 255}
=============================================================================
