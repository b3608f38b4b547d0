------------------------------ MODULE Bandwidth ------------------------------
(***************************************************************************)
(* checkBandwidth_block (RjcoreServiceNetwork.cpp): under the mutex        *)
(* sNetLock it downloads a file to the fixed path bandtmpfile, takes its   *)
(* size with du, divides by the time the download took and removes it.     *)
(*                                                                         *)
(* Whether the download worked is judged only by the file being there, so  *)
(* a file some earlier call left behind is taken for a new one.  The       *)
(* contents of the file are the number of the call that wrote it.          *)
(***************************************************************************)
EXTENDS Naturals

CONSTANTS
    Threads,    \* binder threads
    NoThread,
    MaxCalls    \* bound on the number of calls explored

ASSUME NoThreadAssumption == NoThread \notin Threads
ASSUME MaxCallsAssumption == MaxCalls \in Nat

Addresses == {"valid", "invalid"}   \* what check_ipaddr says of serverIp
NoFile    == 0
NoSpeed   == 0                      \* the empty string

VARIABLES
    pc,       \* pc[t]: where t's call stands
    addr,     \* addr[t]: serverIp
    id,       \* id[t]: the number of t's call
    speed,    \* speed[t]: the call whose file the returned speed measures
    lock,     \* the holder of sNetLock
    calls,    \* calls made so far
    file,     \* bandtmpfile: NoFile or the call that wrote it
    left      \* "yes" once a call has ended without removing it (history)

vars == <<pc, addr, id, speed, lock, calls, file, left>>

-----------------------------------------------------------------------------
Init ==
    /\ pc = [t \in Threads |-> "idle"]
    /\ addr \in [Threads -> Addresses]
    /\ id = [t \in Threads |-> 0]
    /\ speed = [t \in Threads |-> NoSpeed]
    /\ lock = NoThread
    /\ calls = 0
    /\ file = NoFile
    /\ left = "no"

Goto(t, l) == pc' = [pc EXCEPT ![t] = l] /\ UNCHANGED <<speed, lock>>

ReturnLocked(t, s) ==   \* mutant: a return that leaves the mutex locked
    /\ pc' = [pc EXCEPT ![t] = "idle"]
    /\ speed' = [speed EXCEPT ![t] = s]
    /\ lock' = IF s = NoSpeed THEN lock ELSE NoThread

(* The Autolock is released on every return.                               *)
Return(t, s) ==
    /\ pc' = [pc EXCEPT ![t] = "idle"]
    /\ speed' = [speed EXCEPT ![t] = s]
    /\ lock' = NoThread

Call(t, a) ==
    /\ pc[t] = "idle" /\ calls < MaxCalls
    /\ calls' = calls + 1
    /\ id' = [id EXCEPT ![t] = calls + 1]
    /\ addr' = [addr EXCEPT ![t] = a]
    /\ speed' = [speed EXCEPT ![t] = NoSpeed]
    /\ pc' = [pc EXCEPT ![t] = "lock"]
    /\ UNCHANGED <<lock, file, left>>

Lock(t) ==
    /\ pc[t] = "lock" /\ lock = NoThread
    /\ lock' = t
    /\ pc' = [pc EXCEPT ![t] = "check"]
    /\ UNCHANGED <<addr, id, speed, calls, file, left>>

CheckIp(t) ==
    /\ pc[t] = "check"
    /\ IF addr[t] = "valid" THEN Goto(t, "wget") ELSE Return(t, NoSpeed)
    /\ UNCHANGED <<addr, id, calls, file, left>>

(* executeCmd(cmd_down): wget writes the file, all of it or what came      *)
(* within its timeout, or ends without having touched it.                  *)
Wget(t) ==
    /\ pc[t] = "wget"
    /\ file' \in {id[t], file}
    /\ Goto(t, "access")
    /\ UNCHANGED <<addr, id, calls, left>>

(* access(bandtmpfile, F_OK) == 0 *)
Access(t) ==
    /\ pc[t] = "access"
    /\ IF file # NoFile THEN Goto(t, "du") ELSE Return(t, NoSpeed)
    /\ UNCHANGED <<addr, id, calls, file, left>>

(* executeCmd(cmd_size): without an answer CHECK_STR16_RES returns at      *)
(* once, and the file stays.                                               *)
Du(t) ==
    /\ pc[t] = "du"
    /\ \/ Goto(t, "rm") /\ UNCHANGED left
       \/ Return(t, NoSpeed) /\ left' = "yes"
    /\ UNCHANGED <<addr, id, calls, file>>

RemoveSkipped(t) ==   \* mutant: the temporary file is not removed
    /\ pc[t] = "rm"
    /\ Return(t, file)
    /\ UNCHANGED <<addr, id, calls, file, left>>

(* mySystem(cmd_rm): a failure is logged and the speed returned all the    *)
(* same.                                                                   *)
Remove(t) ==
    /\ pc[t] = "rm"
    /\ \/ file' = NoFile /\ UNCHANGED left
       \/ UNCHANGED file /\ left' = "yes"
    /\ Return(t, file)
    /\ UNCHANGED <<addr, id, calls>>

(* The service is restarted; the file is not cleaned up.                   *)
Crash ==
    /\ \E t \in Threads : pc[t] # "idle"
    /\ pc' = [t \in Threads |-> "idle"]
    /\ speed' = [t \in Threads |-> NoSpeed]
    /\ lock' = NoThread
    /\ left' = IF file # NoFile THEN "yes" ELSE left
    /\ UNCHANGED <<addr, id, calls, file>>

Step(t) == Lock(t) \/ CheckIp(t) \/ Wget(t) \/ Access(t) \/ Du(t) \/ Remove(t)

Next ==
    \/ \E t \in Threads : Step(t) \/ \E a \in Addresses : Call(t, a)
    \/ Crash

Spec == Init /\ [][Next]_vars

-----------------------------------------------------------------------------
(* The types, and: sNetLock is held by the one thread that works between   *)
(* the lock and the return, and by nobody else: no path out of the         *)
(* function keeps it, a crash included.                                    *)
TypeOK ==
    /\ \A t \in Threads : pc[t] \notin {"idle", "lock"} <=> lock = t
    /\ pc \in [Threads -> {"idle", "lock", "check", "wget", "access", "du", "rm"}]
    /\ addr \in [Threads -> Addresses]
    /\ id \in [Threads -> 0 .. MaxCalls]
    /\ speed \in [Threads -> 0 .. MaxCalls]
    /\ lock \in Threads \cup {NoThread}
    /\ calls \in 0 .. MaxCalls
    /\ file \in 0 .. MaxCalls
    /\ left \in {"no", "yes"}

(* Every speed checkBandwidth_block returns measures the file this very    *)
(* call has downloaded, unless an earlier call left its file behind: du    *)
(* without an answer, a failed rm or a crash ("synchronized",              *)
(* IRjcoreService.h:55).                                                   *)
SpeedIsOwn ==
    left = "no" =>
        \A t \in Threads : speed[t] # NoSpeed => speed[t] = id[t]
=============================================================================
