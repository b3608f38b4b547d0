---------------------------- MODULE VendorSector ----------------------------
(***************************************************************************)
(* setDeviceResolution (RjcoreServiceProduct.cpp): a read-modify-write of  *)
(* the vendor sector of the NAND, made of three ioctls on a descriptor     *)
(* opened for the call and taken under no lock, while the binder thread    *)
(* pool lets several callers run it at once.                               *)
(*                                                                         *)
(* Of the sector's 512 bytes the model keeps data[1] (flag), data[2..3]    *)
(* (xres), data[4..5] (yres), data[6] (refresh) and, as one value, all the *)
(* other bytes (rest).                                                     *)
(***************************************************************************)
EXTENDS Integers

CONSTANTS
    Callers,      \* binder threads
    Requests,     \* the argument tuples the clients use
    InitSector,   \* the sector as the factory or an earlier boot left it
    Garbage       \* bytes of sysData nobody has written

ENABLED_FLAG == 172   \* 0xAC, "resolution flag"

Sector == [flag : Int, xres : Int, yres : Int, refresh : Int,
           rest : {InitSector.rest, Garbage}]

ASSUME RequestsAssumption ==
    Requests \subseteq [xres : Int, yres : Int, refresh : Int, flag : Int]
ASSUME InitSectorAssumption == InitSector \in Sector

VARIABLES
    pc,       \* pc[t]: the next ioctl of caller t
    req,      \* req[t]: the arguments of t's call
    sysData,  \* sysData[t]: t's local copy of the sector
    ret,      \* ret[t]: what t's last call returned
    sector,   \* the sector in the NAND
    fds,      \* callers whose descriptor of RKNAND_DEVICE is open
    stored    \* callers whose current or last call has stored (history)

vars == <<pc, req, sysData, ret, sector, fds, stored>>

-----------------------------------------------------------------------------
(* The four range checks at the top of the function.                       *)
InRange(q) ==
    /\ q.refresh \in 0 .. 100
    /\ q.flag \in 0 .. 1
    /\ q.xres \in 800 .. 2560
    /\ q.yres \in 600 .. 1600

Return(t, result) ==
    /\ pc' = [pc EXCEPT ![t] = "idle"]
    /\ ret' = [ret EXCEPT ![t] = result]

Goto(t, l) == pc' = [pc EXCEPT ![t] = l]

Init ==
    /\ pc = [t \in Callers |-> "idle"]
    /\ req \in [Callers -> Requests]
    /\ sysData = [t \in Callers |-> Garbage]
    /\ ret = [t \in Callers |-> "none"]
    /\ sector = InitSector
    /\ fds = {}
    /\ stored = {}

(* A call arrives; a request out of range is refused at once.              *)
Call(t, q) ==
    /\ pc[t] = "idle"
    /\ req' = [req EXCEPT ![t] = q]
    /\ stored' = stored \ {t}
    /\ IF InRange(q)
       THEN Goto(t, "open") /\ ret' = [ret EXCEPT ![t] = "none"]
       ELSE Return(t, "false")
    /\ UNCHANGED <<sysData, sector, fds>>

Open(t) ==
    /\ pc[t] = "open"
    /\ \/ Goto(t, "get") /\ fds' = fds \cup {t} /\ UNCHANGED ret
       \/ Return(t, "false") /\ UNCHANGED fds
    /\ UNCHANGED <<req, sysData, sector, stored>>

FailKeepsFd(t) == Return(t, "false") /\ UNCHANGED fds   \* mutant: no close(fd)

(* An ioctl that fails closes the descriptor and returns false.            *)
Fail(t) == Return(t, "false") /\ fds' = fds \ {t}

(* Mutants: the flag byte alone is set, whatever the request; the other    *)
(* bytes of the local copy are not those of the sector.                    *)
ModifyFlagOnly(s, q) == [s EXCEPT !.flag = IF q.flag = 1 THEN ENABLED_FLAG ELSE 0]
ModifyFresh(s, q) ==
    [flag |-> IF q.flag = 1 THEN ENABLED_FLAG ELSE 0, xres |-> q.xres,
     yres |-> q.yres, refresh |-> q.refresh, rest |-> Garbage]

(* data[1] = flag; with flag set also the resolution itself.               *)
Modify(s, q) ==
    IF q.flag = 1
    THEN [flag |-> ENABLED_FLAG, xres |-> q.xres, yres |-> q.yres,
          refresh |-> q.refresh, rest |-> s.rest]
    ELSE [s EXCEPT !.flag = 0]

(* RKNAND_GET_VENDOR_SECTOR0, then the changes to the local copy.          *)
GetSector(t) ==
    /\ pc[t] = "get"
    /\ \/ /\ sysData' = [sysData EXCEPT ![t] = Modify(sector, req[t])]
          /\ Goto(t, "store") /\ UNCHANGED <<ret, fds>>
       \/ Fail(t) /\ UNCHANGED sysData
    /\ UNCHANGED <<req, sector, stored>>

(* Mutant: a failed store goes on to the read-back. *)
StoreSectorUnchecked(t) ==
    /\ pc[t] = "store"
    /\ \/ sector' = sysData[t] /\ stored' = stored \cup {t}
       \/ UNCHANGED <<sector, stored>>
    /\ Goto(t, "reget")
    /\ UNCHANGED <<req, sysData, ret, fds>>

(* RKNAND_STORE_VENDOR_SECTOR0 writes the whole local copy or nothing.     *)
StoreSector(t) ==
    /\ pc[t] = "store"
    /\ \/ /\ sector' = sysData[t]
          /\ stored' = stored \cup {t}
          /\ Goto(t, "reget") /\ UNCHANGED <<ret, fds>>
       \/ Fail(t) /\ UNCHANGED <<sector, stored>>
    /\ UNCHANGED <<req, sysData>>

(* The read-back.  Its contents are not compared with what was stored, but *)
(* its failure makes the call return false.                                *)
RegetSector(t) ==
    /\ pc[t] = "reget"
    /\ \/ /\ sysData' = [sysData EXCEPT ![t] = sector]
          /\ Return(t, "true") /\ fds' = fds \ {t}
       \/ Fail(t) /\ UNCHANGED sysData
    /\ UNCHANGED <<req, sector, stored>>

(* The service dies and is started again, or the device reboots: calls are *)
(* gone, the kernel has closed their descriptors, the NAND stays.          *)
Crash ==
    /\ \E t \in Callers : pc[t] # "idle"
    /\ pc' = [t \in Callers |-> "idle"]
    /\ ret' = [t \in Callers |-> "none"]
    /\ fds' = {}
    /\ stored' = {}
    /\ UNCHANGED <<req, sysData, sector>>

Step(t) == Open(t) \/ GetSector(t) \/ StoreSector(t) \/ RegetSector(t)

Next ==
    \/ \E t \in Callers : Step(t) \/ \E q \in Requests : Call(t, q)
    \/ Crash

Spec == Init /\ [][Next]_vars

-----------------------------------------------------------------------------
(* Every path out of the function, the failing ones too, closes the        *)
(* descriptor it opened (RjcoreServiceProduct.cpp 611, 630, 638, 642).     *)
DescriptorsBalanced ==
    fds = {t \in Callers : pc[t] \in {"get", "store", "reget"}}

(* The types, and: what is in the sector is always a sector, never the     *)
(* uninitialised local buffer, and descriptors are balanced.               *)
TypeOK ==
    /\ DescriptorsBalanced
    /\ pc \in [Callers -> {"idle", "open", "get", "store", "reget"}]
    /\ req \in [Callers -> Requests]
    /\ sysData \in [Callers -> Sector \cup {Garbage}]
    /\ ret \in [Callers -> {"none", "true", "false"}]
    /\ sector \in Sector
    /\ stored \in SUBSET Callers

(* The resolution the kernel will use after a reboot.                      *)
Effective(s) ==
    IF s.flag = ENABLED_FLAG THEN <<s.xres, s.yres, s.refresh>> ELSE <<>>

Chosen(q) == IF q.flag = 1 THEN <<q.xres, q.yres, q.refresh>> ELSE <<>>

Pending == [t \in Callers |->
              IF pc[t] \in {"open", "get", "store"} THEN {Chosen(req[t])} ELSE {}]

Register == INSTANCE ResolutionRegister WITH
    Clients   <- Callers,
    Choices   <- {Chosen(q) : q \in {r \in Requests : InRange(r)}},
    Initial   <- Effective(InitSector),
    effective <- Effective(sector),
    pending   <- Pending

(* Although the read-modify-write is not locked, concurrent calls behave   *)
(* like requests served one after the other at their store: the resolution *)
(* that will take effect is always exactly the one of some single request, *)
(* never one mixed from several, and no request takes effect twice or      *)
(* after it has failed (RjcoreServiceProduct.cpp 608-632).                 *)
BehavesAtomically == Register!RegSpec

(* Bytes of the sector that are not the resolution's survive every         *)
(* interleaving of calls (the reason the sector is read before it is       *)
(* written, RjcoreServiceProduct.cpp 608).                                 *)
RestPreserved == sector.rest = InitSector.rest

(* A call that returned true has stored its request.                       *)
TrueMeansStored == \A t \in Callers : ret[t] = "true" => t \in stored
=============================================================================
