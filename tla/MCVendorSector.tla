--------------------------- MODULE MCVendorSector ---------------------------
(* Model-checking instance of VendorSector: two resolutions, a request     *)
(* that switches the override off, and one out of range on each side.      *)
EXTENDS VendorSector

Req(x, y, r, f) == [xres |-> x, yres |-> y, refresh |-> r, flag |-> f]

MCRequests == {Req(1920, 1080, 60, 1), Req(800, 600, 100, 1), Req(2560, 1600, 0, 0),
               Req(799, 600, 60, 1), Req(1920, 1601, 60, 1)}

MCInitSector == [flag |-> 0, xres |-> 0, yres |-> 0, refresh |-> 0, rest |-> "vendor"]

=============================================================================
