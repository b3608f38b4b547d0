--------------------------- MODULE MCAndroIntAdder ---------------------------
(* Sums that tell the pairs and their mixtures apart; the last overflows.  *)
EXTENDS AndroIntAdder

MCPairs == {<<1, 2>>, <<3, -4>>, <<7, 6>>}
=============================================================================
