-------------------------- MODULE Bandwidth_proofs --------------------------
(***************************************************************************)
(* Proofs about Bandwidth for every set of threads and bound on calls.     *)
(***************************************************************************)
EXTENDS Bandwidth, TLAPS

Measuring == {"access", "du", "rm"}

(* While no file was left behind, bandtmpfile exists only under the mutex, *)
(* between the download and the rm of one call, and is that call's.        *)
OwnFile ==
    left = "no" /\ file # NoFile =>
        lock \in Threads /\ pc[lock] \in Measuring /\ file = id[lock]

BInv == TypeOK /\ OwnFile /\ SpeedIsOwn

LEMMA InitBInv == Init => BInv
  BY NoThreadAssumption, MaxCallsAssumption
  DEF Init, BInv, TypeOK, OwnFile, SpeedIsOwn, Addresses, NoFile, NoSpeed

(* Only the holder of the mutex can be past the lock.                      *)
LEMMA Exclusive ==
    ASSUME TypeOK, NEW t \in Threads, pc[t] \notin {"idle", "lock"}
    PROVE  lock = t /\ \A u \in Threads \ {t} : pc[u] \in {"idle", "lock"}
  BY DEF TypeOK

LEMMA CallKeeps ==
    ASSUME BInv, NEW t \in Threads, NEW a \in Addresses, Call(t, a)
    PROVE  BInv'
  <1>1. TypeOK'
    BY NoThreadAssumption, MaxCallsAssumption
    DEF BInv, TypeOK, Call, NoSpeed
  <1>2. OwnFile'
    BY NoThreadAssumption DEF BInv, TypeOK, OwnFile, Call, Measuring, NoFile
  <1>3. SpeedIsOwn'
    BY DEF BInv, TypeOK, SpeedIsOwn, Call, NoSpeed
  <1> QED BY <1>1, <1>2, <1>3 DEF BInv

LEMMA LockKeeps ==
    ASSUME BInv, NEW t \in Threads, Lock(t)
    PROVE  BInv'
  <1>1. TypeOK'
    BY NoThreadAssumption DEF BInv, TypeOK, Lock
  <1>2. OwnFile'
    BY NoThreadAssumption DEF BInv, OwnFile, Lock, NoFile
  <1>3. SpeedIsOwn'
    BY DEF BInv, SpeedIsOwn, Lock
  <1> QED BY <1>1, <1>2, <1>3 DEF BInv

LEMMA CheckIpKeeps ==
    ASSUME BInv, NEW t \in Threads, CheckIp(t)
    PROVE  BInv'
  <1>0. lock = t /\ \A u \in Threads \ {t} : pc[u] \in {"idle", "lock"}
    BY Exclusive DEF BInv, CheckIp
  <1>1. TypeOK'
    BY <1>0, NoThreadAssumption, MaxCallsAssumption
    DEF BInv, TypeOK, CheckIp, Goto, Return, NoSpeed
  <1>2. OwnFile'
    BY <1>0 DEF BInv, OwnFile, CheckIp, Measuring, NoFile
  <1>3. SpeedIsOwn'
    BY DEF BInv, TypeOK, SpeedIsOwn, CheckIp, Goto, Return, NoSpeed
  <1> QED BY <1>1, <1>2, <1>3 DEF BInv

LEMMA WgetKeeps ==
    ASSUME BInv, NEW t \in Threads, Wget(t)
    PROVE  BInv'
  <1>0. lock = t /\ \A u \in Threads \ {t} : pc[u] \in {"idle", "lock"}
    BY Exclusive DEF BInv, Wget
  <1>1. TypeOK'
    BY <1>0, NoThreadAssumption DEF BInv, TypeOK, Wget, Goto
  <1>2. OwnFile'
    BY <1>0 DEF BInv, TypeOK, OwnFile, Wget, Goto, Measuring, NoFile
  <1>3. SpeedIsOwn'
    BY DEF BInv, SpeedIsOwn, Wget, Goto
  <1> QED BY <1>1, <1>2, <1>3 DEF BInv

LEMMA AccessKeeps ==
    ASSUME BInv, NEW t \in Threads, Access(t)
    PROVE  BInv'
  <1>0. lock = t /\ \A u \in Threads \ {t} : pc[u] \in {"idle", "lock"}
    BY Exclusive DEF BInv, Access
  <1>1. TypeOK'
    BY <1>0, NoThreadAssumption, MaxCallsAssumption
    DEF BInv, TypeOK, Access, Goto, Return, NoSpeed
  <1>2. OwnFile'
    BY <1>0 DEF BInv, TypeOK, OwnFile, Access, Goto, Return, Measuring, NoFile
  <1>3. SpeedIsOwn'
    BY DEF BInv, TypeOK, SpeedIsOwn, Access, Goto, Return, NoSpeed
  <1> QED BY <1>1, <1>2, <1>3 DEF BInv

LEMMA DuKeeps ==
    ASSUME BInv, NEW t \in Threads, Du(t)
    PROVE  BInv'
  <1>0. lock = t /\ \A u \in Threads \ {t} : pc[u] \in {"idle", "lock"}
    BY Exclusive DEF BInv, Du
  <1>1. TypeOK'
    BY <1>0, NoThreadAssumption, MaxCallsAssumption
    DEF BInv, TypeOK, Du, Goto, Return, NoSpeed
  <1>2. OwnFile'
    BY <1>0 DEF BInv, TypeOK, OwnFile, Du, Goto, Return, Measuring, NoFile
  <1>3. SpeedIsOwn'
    BY DEF BInv, TypeOK, SpeedIsOwn, Du, Goto, Return, NoSpeed
  <1> QED BY <1>1, <1>2, <1>3 DEF BInv

(* The one step that returns a speed: the file measured is the caller's.   *)
LEMMA RemoveKeeps ==
    ASSUME BInv, NEW t \in Threads, Remove(t)
    PROVE  BInv'
  <1>0. lock = t /\ \A u \in Threads \ {t} : pc[u] \in {"idle", "lock"}
    BY Exclusive DEF BInv, Remove
  <1>1. TypeOK'
    BY <1>0, NoThreadAssumption, MaxCallsAssumption
    DEF BInv, TypeOK, Remove, Return, NoFile
  <1>2. OwnFile'
    BY DEF BInv, OwnFile, Remove, NoFile
  <1>3. left = "no" /\ file # NoFile => file = id[t]
    BY <1>0 DEF BInv, OwnFile
  <1>4. SpeedIsOwn'
    BY <1>3 DEF BInv, TypeOK, SpeedIsOwn, Remove, Return, NoFile, NoSpeed
  <1> QED BY <1>1, <1>2, <1>4 DEF BInv

LEMMA CrashKeeps ==
    ASSUME BInv, Crash
    PROVE  BInv'
  <1>1. TypeOK'
    BY NoThreadAssumption, MaxCallsAssumption DEF BInv, TypeOK, Crash, NoSpeed
  <1>2. OwnFile'
    BY DEF BInv, OwnFile, Crash, NoFile
  <1>3. SpeedIsOwn'
    BY DEF BInv, SpeedIsOwn, Crash, NoSpeed
  <1> QED BY <1>1, <1>2, <1>3 DEF BInv

LEMMA NextBInv == BInv /\ [Next]_vars => BInv'
  <1> SUFFICES ASSUME BInv, [Next]_vars PROVE BInv' OBVIOUS
  <1>1. CASE UNCHANGED vars
    BY <1>1 DEF BInv, TypeOK, OwnFile, SpeedIsOwn, vars
  <1>2. ASSUME NEW t \in Threads, Step(t) PROVE BInv'
    BY <1>2, LockKeeps, CheckIpKeeps, WgetKeeps, AccessKeeps, DuKeeps, RemoveKeeps
    DEF Step
  <1>3. ASSUME NEW t \in Threads, NEW a \in Addresses, Call(t, a) PROVE BInv'
    BY <1>3, CallKeeps
  <1>4. CASE Crash
    BY <1>4, CrashKeeps
  <1> QED BY <1>1, <1>2, <1>3, <1>4 DEF Next

LEMMA Invariance == Spec => []BInv
  BY InitBInv, NextBInv, PTL DEF Spec

(* sNetLock is held exactly by the thread between the lock and the return  *)
(* of checkBandwidth_block, for any number of threads, calls and crashes.  *)
THEOREM MutexComesBack == Spec => []TypeOK
  <1>1. BInv => TypeOK BY DEF BInv
  <1> QED BY <1>1, Invariance, PTL

(* As long as no call left its file behind, every speed returned measures  *)
(* the caller's own download, for any number of concurrent calls.          *)
THEOREM MeasuresOwn == Spec => []SpeedIsOwn
  <1>1. BInv => SpeedIsOwn BY DEF BInv
  <1> QED BY <1>1, Invariance, PTL
=============================================================================
