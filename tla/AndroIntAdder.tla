---------------------------- MODULE AndroIntAdder ----------------------------
(***************************************************************************)
(* The AndroInt adder: the character device /dev/androint keeps two        *)
(* integers in one place for all its users (androint_module.c); add_-      *)
(* androint of the HAL (androint-hal.c), and the JNI code of the activity, *)
(* which is the same, write a pair to it and read the sum back.            *)
(*                                                                         *)
(* The driver's semaphore covers one write or one read, not the two that   *)
(* make an addition, and the HAL looks at no return value.                 *)
(***************************************************************************)
EXTENDS Integers

CONSTANTS
    Clients, NoClient,
    Pairs,      \* the operands considered
    Half,       \* an int is one of -Half .. Half - 1 (Half = 2^31)
    MaxAdds     \* bound on the number of additions

Ints    == -Half .. Half - 1
Wrap(x) == ((x + Half) % (2 * Half)) - Half

ASSUME HalfAssumption == Half \in Nat \ {0}
ASSUME PairsAssumption == Pairs \subseteq Ints \X Ints
ASSUME NoClientAssumption == NoClient \notin Clients
ASSUME MaxAddsAssumption == MaxAdds \in Nat

VARIABLES
    pc,        \* pc[c]: where c's addition stands
    in,        \* in[c]: its operands
    fd,        \* fd[c]: "open" or "none"
    out,       \* out[c]: the variable the sum is read into
    sem,       \* the client whose system call holds the semaphore
    data,      \* the device's two integers
    adds,
    written,   \* the pairs written so far (history)
    got,       \* got[c]: "sum" when the read delivered one (history)
    failed,    \* the additions one of whose system calls failed (history)
    disturbed  \* those whose pair was overwritten before the read (history)

vars == <<pc, in, fd, out, sem, data, adds, written, got, failed, disturbed>>
history == <<written, got, failed, disturbed>>

-----------------------------------------------------------------------------
Init ==
    /\ pc = [c \in Clients |-> "idle"]
    /\ in \in [Clients -> Pairs]
    /\ fd = [c \in Clients |-> "none"]
    /\ out = [c \in Clients |-> 0]
    /\ sem = NoClient
    /\ data = <<0, 0>>            \* androint_device is static
    /\ adds = 0
    /\ written = {<<0, 0>>}
    /\ got = [c \in Clients |-> "none"]
    /\ failed = {} /\ disturbed = {}

Goto(c, l) == pc' = [pc EXCEPT ![c] = l]

(* add_androint(dev, a, b) is called; out holds what the stack held.       *)
Add(c, p) ==
    /\ pc[c] = "idle" /\ adds < MaxAdds
    /\ adds' = adds + 1
    /\ in' = [in EXCEPT ![c] = p]
    /\ \E x \in {0, -1} : out' = [out EXCEPT ![c] = x]
    /\ got' = [got EXCEPT ![c] = "none"]
    /\ failed' = failed \ {c} /\ disturbed' = disturbed \ {c}
    /\ Goto(c, "open")
    /\ UNCHANGED <<fd, sem, data, written>>

(* open(ADDER_FILE, O_RDWR): the result is not checked.                    *)
Open(c) ==
    /\ pc[c] = "open"
    /\ \/ fd' = [fd EXCEPT ![c] = "open"] /\ UNCHANGED failed
       \/ failed' = failed \cup {c} /\ UNCHANGED fd
    /\ Goto(c, "write")
    /\ UNCHANGED <<in, out, sem, data, adds, written, got, disturbed>>

(* A system call that does nothing, and nobody notices...                  *)
Fails(c, next) ==
    /\ failed' = failed \cup {c}
    /\ Goto(c, next)
    /\ UNCHANGED <<in, fd, out, sem, data, adds, written, got, disturbed>>

(* ... EBADF, without a descriptor; -ERESTARTSYS, when a signal arrives    *)
(* during down_interruptible.                                              *)
BadFd(c, next)       == fd[c] = "none" /\ Fails(c, next)
Interrupted(c, next) == fd[c] = "open" /\ sem # NoClient /\ Fails(c, next)

DownUnguarded(c, next) ==   \* mutant: no semaphore
    /\ fd[c] = "open"
    /\ Goto(c, next)
    /\ UNCHANGED <<in, fd, out, sem, data, adds, history>>

(* androint_access enters: down_interruptible(&device->sem).               *)
Down(c, next) ==
    /\ fd[c] = "open" /\ sem = NoClient
    /\ sem' = c
    /\ Goto(c, next)
    /\ UNCHANGED <<in, fd, out, data, adds, history>>

Write(c) == pc[c] = "write" /\ (Down(c, "copy0") \/ BadFd(c, "read"))
Read(c)  == pc[c] = "read"  /\ (Down(c, "sum") \/ BadFd(c, "close"))
Signal(c) == \/ pc[c] = "write" /\ Interrupted(c, "read")
             \/ pc[c] = "read" /\ Interrupted(c, "close")

CopyFirstRefused(c) ==   \* mutant: the size check of the write refuses it
    /\ pc[c] = "copy0"
    /\ sem' = NoClient
    /\ Goto(c, "read")
    /\ UNCHANGED <<in, fd, out, data, adds, history>>

(* copy_from_user(data, buf, count): one integer after the other...        *)
CopyFirst(c) ==
    /\ pc[c] = "copy0"
    /\ data' = [data EXCEPT ![1] = in[c][1]]
    /\ Goto(c, "copy1")
    /\ UNCHANGED <<in, fd, out, sem, adds, history>>

CopySecondHolds(c) ==   \* mutant: up() is missing on the write path
    /\ pc[c] = "copy1"
    /\ data' = [data EXCEPT ![2] = in[c][2]]
    /\ written' = written \cup {in[c]}
    /\ disturbed' = disturbed \cup {d \in Clients \ {c} : pc[d] = "read"}
    /\ Goto(c, "read")
    /\ UNCHANGED <<in, fd, out, sem, adds, got, failed>>

(* ... and up(&device->sem).                                               *)
CopySecond(c) ==
    /\ pc[c] = "copy1"
    /\ data' = [data EXCEPT ![2] = in[c][2]]
    /\ written' = written \cup {in[c]}
    /\ disturbed' = disturbed \cup {d \in Clients \ {c} : pc[d] = "read"}
    /\ sem' = NoClient
    /\ Goto(c, "read")
    /\ UNCHANGED <<in, fd, out, adds, got, failed>>

(* int sum = data[0] + data[1]; copy_to_user; up.                          *)
Sum(c) ==
    /\ pc[c] = "sum"
    /\ out' = [out EXCEPT ![c] = Wrap(data[1] + data[2])]
    /\ got' = [got EXCEPT ![c] = "sum"]
    /\ sem' = NoClient
    /\ Goto(c, "close")
    /\ UNCHANGED <<in, fd, data, adds, written, failed, disturbed>>

(* close(fd); return out;                                                  *)
Close(c) ==
    /\ pc[c] = "close"
    /\ fd' = [fd EXCEPT ![c] = "none"]
    /\ Goto(c, "idle")
    /\ UNCHANGED <<in, out, sem, data, adds, history>>

Step(c) == \/ Open(c) \/ Write(c) \/ CopyFirst(c) \/ CopySecond(c)
           \/ Read(c) \/ Sum(c) \/ Close(c)

Next == \E c \in Clients : Step(c) \/ Signal(c) \/ \E p \in Pairs : Add(c, p)

Spec == Init /\ [][Next]_vars

(* The callers and the kernel's copies go on, whether or not a signal      *)
(* interrupts a wait.                                                      *)
FairSpec == Spec /\ \A c \in Clients : WF_vars(Step(c))

-----------------------------------------------------------------------------
(* The types, and: nobody keeps a descriptor after an addition.            *)
TypeOK ==
    /\ pc \in [Clients -> {"idle", "open", "write", "copy0", "copy1",
                           "read", "sum", "close"}]
    /\ in \in [Clients -> Pairs]
    /\ fd \in [Clients -> {"open", "none"}]
    /\ \A c \in Clients : pc[c] \in {"idle", "open"} => fd[c] = "none"
    /\ out \in [Clients -> Ints]
    /\ sem \in Clients \cup {NoClient}
    /\ data \in Ints \X Ints
    /\ adds \in 0 .. MaxAdds
    /\ written \subseteq Ints \X Ints
    /\ got \in [Clients -> {"none", "sum"}]
    /\ failed \subseteq Clients /\ disturbed \subseteq Clients

Added(c) == pc[c] = "idle" /\ got[c] = "sum"

(* A sum the driver delivers is that of a pair some client wrote as a      *)
(* whole: the semaphore of androint_access keeps two writes from mixing    *)
(* and a read from seeing half of one.                                     *)
NeverTorn ==
    \A c \in Clients : Added(c) =>
        \E p \in written : out[c] = Wrap(p[1] + p[2])

(* An addition returns a + b, in the arithmetic of an int, if its system   *)
(* calls succeed and nobody else writes between its write and its read.    *)
SumUnlessDisturbed ==
    \A c \in Clients : Added(c) /\ c \notin failed \cup disturbed =>
        out[c] = Wrap(in[c][1] + in[c][2])

(* Every addition returns: no path through the driver keeps the semaphore. *)
EveryAddReturns == \A c \in Clients : pc[c] = "open" ~> pc[c] = "idle"
=============================================================================
