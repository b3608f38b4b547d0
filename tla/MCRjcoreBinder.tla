--------------------------- MODULE MCRjcoreBinder ---------------------------
(* RjcoreBinder with the interface of the rjcore service.  One client      *)
(* calls every method, the others the one that waits for a mutex, holds    *)
(* it, or is refused before it.                                            *)
EXTENDS RjcoreBinder, RjcoreInterface

CONSTANT CallsAll

MCUses == [c \in Clients |->
    IF c = CallsAll THEN DOMAIN RjcoreProxy ELSE {"collectLogFiles_block"}]
=============================================================================
