---------------------------- MODULE LogCollector ----------------------------
(***************************************************************************)
(* collectLogFiles_block (RjcoreServiceProduct.cpp): under the mutex       *)
(* sLockLog it saves the system log, makes /data/tombstones if there is    *)
(* none, packs the log directories into /sdcard/localhost.tar.gz and moves *)
(* that to /sdcard/<zipFilename>.                                          *)
(*                                                                         *)
(* Each command is run through mySystem, whose caller looks only at the    *)
(* sign of the result: a command that exits with a failure counts as done, *)
(* and a negative result does not mean that the command did not run.  The  *)
(* contents of the log and of an archive are the number of the call that   *)
(* wrote them and whether it wrote all of it.                              *)
(***************************************************************************)
EXTENDS Naturals

CONSTANTS
    Threads,    \* binder threads
    Names,      \* the values of zipFilename clients use
    ZipNames,   \* those that contain ".zip"
    NoThread,
    FdLimit,    \* descriptors the process may hold for directories
    MaxCalls    \* bound on the number of calls explored

ASSUME NamesAssumption    == ZipNames \subseteq Names
ASSUME NoThreadAssumption == NoThread \notin Threads
ASSUME BoundsAssumption   == FdLimit \in Nat /\ MaxCalls \in Nat

VARIABLES
    pc,         \* pc[t]: where t's call stands
    name,       \* name[t]: zipFilename
    id,         \* id[t]: the number of t's call
    ret,        \* ret[t]: "none", "true" or "false"
    lock,       \* the holder of sLockLog
    calls,      \* calls made so far
    systemLog,  \* /data/systemLog
    tombstones, \* /data/tombstones: "absent", "made" (by this service,
                \* with the default mode) or "ready" (766, or there since boot)
    fds,        \* DIR streams chmodDir has opened
    tmp,        \* /sdcard/localhost.tar.gz
    archive,    \* archive[n]: /sdcard/n
    clean,      \* threads whose call has met no failure (history)
    faulty      \* "yes" once some call met a failure or a crash (history)

files == <<systemLog, tombstones, tmp, archive>>
vars  == <<pc, name, id, ret, lock, calls, files, fds, clean, faulty>>

Absent     == [by |-> 0, extent |-> "none"]
Whole(i)   == [by |-> i, extent |-> "whole"]
Partial(i) == [by |-> i, extent |-> "part"]

-----------------------------------------------------------------------------
Init ==
    /\ pc = [t \in Threads |-> "idle"]
    /\ name \in [Threads -> Names]
    /\ id = [t \in Threads |-> 0]
    /\ ret = [t \in Threads |-> "none"]
    /\ lock = NoThread
    /\ calls = 0
    /\ systemLog = Absent
    /\ tombstones \in {"absent", "ready"}
    /\ fds = 0
    /\ tmp = Absent
    /\ archive = [n \in Names |-> Absent]
    /\ clean = {}
    /\ faulty = "no"

Goto(t, l) == pc' = [pc EXCEPT ![t] = l] /\ UNCHANGED <<ret, lock>>

(* Mutant: a return that leaves the mutex locked. *)
ReturnLocked(t, r) ==
    /\ pc' = [pc EXCEPT ![t] = "idle"]
    /\ ret' = [ret EXCEPT ![t] = r]
    /\ lock' = IF r = "false" THEN lock ELSE NoThread

(* Leaving the function releases the mutex: Autolock's destructor.         *)
Return(t, r) ==
    /\ pc' = [pc EXCEPT ![t] = "idle"]
    /\ ret' = [ret EXCEPT ![t] = r]
    /\ lock' = IF lock = t THEN NoThread ELSE lock

Fault(t) == clean' = clean \ {t} /\ faulty' = "yes"
NoFault  == UNCHANGED <<clean, faulty>>

(* if (mySystem(cmd) < 0) return false.  Effect is what the command does   *)
(* when it works, Left what it leaves behind when it does not.             *)
Command(t, Effect, Left, next) ==
    \/ Effect /\ Goto(t, next) /\ NoFault
    \/ Left /\ Goto(t, next) /\ Fault(t)
    \/ (Effect \/ Left) /\ Return(t, "false") /\ Fault(t)

(* A call; a name without ".zip" is refused before the lock is taken.      *)
Call(t, n) ==
    /\ pc[t] = "idle" /\ calls < MaxCalls
    /\ calls' = calls + 1
    /\ id' = [id EXCEPT ![t] = calls + 1]
    /\ name' = [name EXCEPT ![t] = n]
    /\ clean' = clean \cup {t}
    /\ IF n \in ZipNames
       THEN /\ pc' = [pc EXCEPT ![t] = "lock"]
            /\ ret' = [ret EXCEPT ![t] = "none"]
            /\ UNCHANGED lock
       ELSE Return(t, "false")
    /\ UNCHANGED <<files, fds, faulty>>

LockUnguarded(t) ==   \* mutant: Mutex::Autolock _l(sLockLog) missing
    /\ pc[t] = "lock"
    /\ pc' = [pc EXCEPT ![t] = "save"]
    /\ UNCHANGED <<name, id, ret, lock, calls, files, fds, clean, faulty>>

Lock(t) ==
    /\ pc[t] = "lock"
    /\ lock = NoThread
    /\ lock' = t
    /\ pc' = [pc EXCEPT ![t] = "save"]
    /\ UNCHANGED <<name, id, ret, calls, files, fds, clean, faulty>>

SaveSystemInfo(t) ==
    /\ pc[t] = "save"
    /\ Command(t, systemLog' = Whole(id[t]),
                  systemLog' \in {systemLog, Partial(id[t])}, "checks")
    /\ UNCHANGED <<name, id, calls, tombstones, tmp, archive, fds>>

(* access(SYSTEM_LOG) and access(TOMBSTONES) *)
CheckLogs(t) ==
    /\ pc[t] = "checks"
    /\ \/ systemLog = Absent /\ Return(t, "false")
       \/ systemLog # Absent /\ tombstones = "absent" /\ Goto(t, "mkdir")
       \/ systemLog # Absent /\ tombstones # "absent" /\ Goto(t, "inputs")
    /\ NoFault /\ UNCHANGED <<name, id, calls, files, fds>>

MkdirTombstones(t) ==
    /\ pc[t] = "mkdir"
    /\ Command(t, tombstones' = "made", UNCHANGED tombstones, "opendir")
    /\ UNCHANGED <<name, id, calls, systemLog, tmp, archive, fds>>

(* chmodDir("/data/tombstones", "766"): opendir, whose stream stays open,  *)
(* then chmod -R, then the mode read back with stat.                       *)
ChmodDirOpen(t) ==
    /\ pc[t] = "opendir"
    /\ \/ /\ tombstones # "absent" /\ fds < FdLimit
          /\ fds' = fds + 1
          /\ Goto(t, "chmod") /\ NoFault
       \/ /\ tombstones = "absent" \/ fds = FdLimit
          /\ Return(t, "false") /\ Fault(t) /\ UNCHANGED fds
    /\ UNCHANGED <<name, id, calls, files>>

ChmodDirRun(t) ==
    /\ pc[t] = "chmod"
    /\ Command(t, tombstones' = "ready", UNCHANGED tombstones, "stat")
    /\ UNCHANGED <<name, id, calls, systemLog, tmp, archive, fds>>

ChmodDirCheck(t) ==
    /\ pc[t] = "stat"
    /\ \/ tombstones = "ready" /\ Goto(t, "inputs") /\ NoFault
       \/ Return(t, "false") /\ Fault(t)   \* another mode, or stat not run
    /\ UNCHANGED <<name, id, calls, files, fds>>

CheckInputsUnlocks(t) ==   \* mutant: the scope of the Autolock ends here
    /\ pc[t] = "inputs"
    /\ pc' = [pc EXCEPT ![t] = "tar"] /\ lock' = NoThread
    /\ UNCHANGED <<name, id, ret, calls, files, fds, clean, faulty>>

(* access(CLIENT_LOG) and access(PROC_LAST_LOG): files of other programs.  *)
CheckInputs(t) ==
    /\ pc[t] = "inputs"
    /\ \/ Goto(t, "tar") /\ NoFault
       \/ Return(t, "false") /\ Fault(t)
    /\ UNCHANGED <<name, id, calls, files, fds>>

Tar(t) ==
    /\ pc[t] = "tar"
    /\ Command(t, tmp' = Whole(id[t]), tmp' \in {tmp, Partial(id[t])}, "mv")
    /\ UNCHANGED <<name, id, calls, systemLog, tombstones, archive, fds>>

Moved(n) == archive' = [archive EXCEPT ![n] = tmp] /\ tmp' = Absent

(* mv of a file that is not there is one of its failures.                  *)
Move(t) ==
    /\ pc[t] = "mv"
    /\ Command(t, tmp # Absent /\ Moved(name[t]), UNCHANGED <<tmp, archive>>, "sync")
    /\ UNCHANGED <<name, id, calls, systemLog, tombstones, fds>>

SyncReturn(t) ==
    /\ pc[t] = "sync"
    /\ Return(t, "true")
    /\ UNCHANGED <<name, id, calls, files, fds, clean, faulty>>

(* The service is killed and started again by init: its mutex and its      *)
(* descriptors are gone, the files are not.                                *)
Crash ==
    /\ \E t \in Threads : pc[t] # "idle"
    /\ pc' = [t \in Threads |-> "idle"]
    /\ ret' = [t \in Threads |-> "none"]
    /\ lock' = NoThread
    /\ fds' = 0
    /\ clean' = {}
    /\ faulty' = "yes"
    /\ UNCHANGED <<name, id, calls, files>>

Step(t) ==
    \/ Lock(t) \/ SaveSystemInfo(t) \/ CheckLogs(t) \/ MkdirTombstones(t)
    \/ ChmodDirOpen(t) \/ ChmodDirRun(t) \/ ChmodDirCheck(t)
    \/ CheckInputs(t) \/ Tar(t) \/ Move(t) \/ SyncReturn(t)

Next ==
    \/ \E t \in Threads : Step(t) \/ \E n \in Names : Call(t, n)
    \/ Crash

Spec == Init /\ [][Next]_vars

(* Binder threads are scheduled and every command ends.                    *)
FairSpec == Spec /\ \A t \in Threads : WF_vars(Step(t))

-----------------------------------------------------------------------------
Labels == {"idle", "lock", "save", "checks", "mkdir", "opendir", "chmod",
           "stat", "inputs", "tar", "mv", "sync"}
Content == [by : 0 .. MaxCalls, extent : {"none", "part", "whole"}]

(* The types, and: the leaked directory streams stay within the limit of   *)
(* descriptors (opendir fails beyond it).                                  *)
TypeOK ==
    /\ pc \in [Threads -> Labels]
    /\ name \in [Threads -> Names]
    /\ id \in [Threads -> 0 .. MaxCalls]
    /\ ret \in [Threads -> {"none", "true", "false"}]
    /\ lock \in Threads \cup {NoThread}
    /\ calls \in 0 .. MaxCalls
    /\ systemLog \in Content /\ tmp \in Content
    /\ archive \in [Names -> Content]
    /\ tombstones \in {"absent", "made", "ready"}
    /\ fds \in 0 .. FdLimit
    /\ clean \in SUBSET Threads /\ faulty \in {"no", "yes"}

(* When collectLogFiles_block is about to return true and none of its      *)
(* commands failed, the file under the name it was given is the complete   *)
(* archive of this very call, made from the log it saved itself, however   *)
(* many other calls share /sdcard/localhost.tar.gz and /data/systemLog     *)
(* ("synchronized", IRjcoreService.h:34).                                  *)
DeliversOwnArchive ==
    \A t \in Threads :
        pc[t] = "sync" /\ t \in clean =>
            /\ archive[name[t]] = Whole(id[t])
            /\ systemLog = Whole(id[t])

(* Without failing commands or crashes, nobody ever finds the tombstones   *)
(* directory made but not yet opened up to mode 766: it is made and        *)
(* changed within one critical section (RjcoreServiceProduct.cpp 378-388). *)
TombstonesUsable ==
    lock = NoThread /\ faulty = "no" => tombstones # "made"

(* Every call ends, on whatever path: the mutex is given back.             *)
EveryCallReturns == \A t \in Threads : pc[t] = "lock" ~> pc[t] = "idle"
=============================================================================
