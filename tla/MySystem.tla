------------------------------ MODULE MySystem ------------------------------
(***************************************************************************)
(* mySystem (RjcoreService.cpp): saves the process-wide disposition of     *)
(* SIGCHLD, sets it to SIG_DFL for the time of system(), and puts the      *)
(* saved one back.  Every handler that runs a command goes through it, on  *)
(* whatever binder thread serves the call, so that the three steps of      *)
(* several threads interleave.                                             *)
(*                                                                         *)
(* system() itself is external: it forks the command and waits for it.     *)
(* While SIGCHLD is ignored the kernel reaps a child that exits by itself, *)
(* and the waitpid inside system() then fails although the command ran.    *)
(* The check for an empty command at the top is left out: every caller     *)
(* passes a literal or formatted, non-empty one.                           *)
(***************************************************************************)
EXTENDS Naturals

CONSTANT Threads    \* binder threads

DFL == "SIG_DFL"
IGN == "SIG_IGN"

VARIABLES
    pc,         \* pc[t]: "idle", or the next step of t's mySystem
    disp,       \* the disposition of SIGCHLD
    old,        \* old[t]: t's old_handler, SIG_DFL when it is out of scope
    child,      \* child[t]: "none", "running", "zombie", "gone"
    ret,        \* ret[t]: "none", "status" (>= 0) or "error" (< 0)
    noFork,     \* threads whose last command could not be started (history)
    overlapped, \* two calls have overlapped (history)
    inherited   \* the disposition the process was started with

vars == <<pc, disp, old, child, ret, noFork, overlapped, inherited>>

-----------------------------------------------------------------------------
Init ==
    /\ inherited \in {DFL, IGN}
    /\ disp = inherited
    /\ pc = [t \in Threads |-> "idle"]
    /\ old = [t \in Threads |-> DFL]
    /\ child = [t \in Threads |-> "none"]
    /\ ret = [t \in Threads |-> "none"]
    /\ noFork = {}
    /\ overlapped = FALSE

Busy == {t \in Threads : pc[t] # "idle"}

(* Mutant: only remembers the disposition. *)
SaveHandlerOnly(t) ==
    /\ pc[t] = "idle"
    /\ pc' = [pc EXCEPT ![t] = "fork"]
    /\ old' = [old EXCEPT ![t] = disp]
    /\ child' = [child EXCEPT ![t] = "none"]
    /\ ret' = [ret EXCEPT ![t] = "none"]
    /\ noFork' = noFork \ {t}
    /\ overlapped' = (overlapped \/ Busy # {})
    /\ UNCHANGED <<disp, inherited>>

(* old_handler = signal(SIGCHLD, SIG_DFL) *)
SaveHandler(t) ==
    /\ pc[t] = "idle"
    /\ pc' = [pc EXCEPT ![t] = "fork"]
    /\ old' = [old EXCEPT ![t] = disp]
    /\ disp' = DFL
    /\ child' = [child EXCEPT ![t] = "none"]
    /\ ret' = [ret EXCEPT ![t] = "none"]
    /\ noFork' = noFork \ {t}
    /\ overlapped' = (overlapped \/ Busy # {})
    /\ UNCHANGED inherited

(* system(cmd): fork ... *)
Fork(t) ==
    /\ pc[t] = "fork"
    /\ \/ /\ child' = [child EXCEPT ![t] = "running"]
          /\ pc' = [pc EXCEPT ![t] = "wait"]
          /\ UNCHANGED <<ret, noFork>>
       \/ /\ ret' = [ret EXCEPT ![t] = "error"]
          /\ noFork' = noFork \cup {t}
          /\ pc' = [pc EXCEPT ![t] = "restore"]
          /\ UNCHANGED child
    /\ UNCHANGED <<disp, old, overlapped, inherited>>

(* ... the command ends, with whatever status ...                          *)
ChildExit(t) ==
    /\ child[t] = "running"
    /\ child' = [child EXCEPT ![t] = IF disp = IGN THEN "gone" ELSE "zombie"]
    /\ UNCHANGED <<pc, disp, old, ret, noFork, overlapped, inherited>>

(* ... and waitpid collects it, or finds it gone (ECHILD).                 *)
WaitChild(t) ==
    /\ pc[t] = "wait"
    /\ child[t] \in {"zombie", "gone"}
    /\ ret' = [ret EXCEPT ![t] = IF child[t] = "zombie" THEN "status" ELSE "error"]
    /\ child' = [child EXCEPT ![t] = "none"]
    /\ pc' = [pc EXCEPT ![t] = "restore"]
    /\ UNCHANGED <<disp, old, noFork, overlapped, inherited>>

(* Mutant: an error path returns before the second signal(). *)
RestoreUnlessError(t) ==
    /\ pc[t] = "restore"
    /\ disp' = IF ret[t] = "error" THEN disp ELSE old[t]
    /\ pc' = [pc EXCEPT ![t] = "idle"]
    /\ old' = [old EXCEPT ![t] = DFL]
    /\ UNCHANGED <<child, ret, noFork, overlapped, inherited>>

(* signal(SIGCHLD, old_handler), then the status goes to the caller.  Only *)
(* a negative one is an error: a command that exits with a non-zero status *)
(* or is killed counts as done.                                            *)
Restore(t) ==
    /\ pc[t] = "restore"
    /\ disp' = old[t]
    /\ pc' = [pc EXCEPT ![t] = "idle"]
    /\ old' = [old EXCEPT ![t] = DFL]
    /\ UNCHANGED <<child, ret, noFork, overlapped, inherited>>

(* The caller has looked at the status.                                    *)
Forget(t) ==
    /\ pc[t] = "idle"
    /\ ret' = [ret EXCEPT ![t] = "none"]
    /\ noFork' = noFork \ {t}
    /\ UNCHANGED <<pc, disp, old, child, overlapped, inherited>>

Next == \E t \in Threads :
    \/ SaveHandler(t) \/ Fork(t) \/ ChildExit(t) \/ WaitChild(t)
    \/ Restore(t) \/ Forget(t)

Spec == Init /\ [][Next]_vars

-----------------------------------------------------------------------------
(* The types, and: the disposition of SIGCHLD is always SIG_DFL or the one *)
(* the process was started with, whatever the interleaving.                *)
TypeOK ==
    /\ pc \in [Threads -> {"idle", "fork", "wait", "restore"}]
    /\ disp \in {DFL, inherited}
    /\ old \in [Threads -> {DFL, inherited}]
    /\ child \in [Threads -> {"none", "running", "zombie", "gone"}]
    /\ ret \in [Threads -> {"none", "status", "error"}]
    /\ noFork \in SUBSET Threads
    /\ overlapped \in BOOLEAN
    /\ inherited \in {DFL, IGN}

(* mySystem reports an error for a command that did run only if SIGCHLD    *)
(* was ignored at the start and two calls overlapped: one thread's restore *)
(* undid the SIG_DFL another still relied on (RjcoreService.cpp 138-143).  *)
FalseErrorNeedsOverlap ==
    \A t \in Threads :
        ret[t] = "error" /\ t \notin noFork => overlapped /\ inherited = IGN

(* As long as calls have not overlapped, mySystem leaves the disposition   *)
(* as it found it.                                                         *)
RestoredUnlessOverlapped ==
    Busy = {} /\ ~overlapped => disp = inherited
=============================================================================
