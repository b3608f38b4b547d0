----------------------------- MODULE ExecuteCmd -----------------------------
(***************************************************************************)
(* executeCmd (RjcoreService.cpp): runs a shell command with popen and     *)
(* gathers its standard output into the caller's buffer, one fgets at a    *)
(* time.  One call is modelled, together with the child process at the     *)
(* other end of the pipe.                                                  *)
(*                                                                         *)
(* The buffer is result[0 .. SIZE-1].  As in the code, pBuf is the offset  *)
(* at which the next fgets writes and size what is left from there on; n   *)
(* counts the bytes the running fgets has stored.  The pipe is the part of *)
(* the child's output between the two counters: output[read+1 .. wrote].   *)
(***************************************************************************)
EXTENDS Integers, Sequences, FiniteSets

CONSTANTS
    SIZE,     \* sizeof the caller's buffer, the argument "size"
    PipeCap,  \* bytes the kernel holds for the pipe before a writer blocks
    Letter,   \* the bytes other than '\n' and '\0'
    Outputs   \* the byte strings the command may write

NUL  == "NUL"
NL   == "NL"
Char == Letter \cup {NUL, NL}

ASSUME SizeAssumption    == SIZE \in Nat \ {0}
ASSUME PipeAssumption    == PipeCap \in Nat \ {0}
ASSUME OutputsAssumption == Outputs \subseteq Seq(Char)

VARIABLES
    pc,       \* where executeCmd stands
    result,   \* the caller's buffer
    pBuf,     \* pBuf - result
    size,     \* the local copy of "size"
    n,        \* bytes stored by the fgets in progress
    output,   \* what the command would write if nothing stopped it
    wrote,    \* bytes of it written into the pipe
    read,     \* bytes of it taken from the pipe
    readOpen, \* the parent's end of the pipe is open
    child     \* the command: "none", "running" or "exited"

vars == <<pc, result, pBuf, size, n, output, wrote, read, readOpen, child>>
pipe == <<output, wrote, read, readOpen, child>>

-----------------------------------------------------------------------------
(* Every caller passes a zeroed buffer and its sizeof.                     *)
Init ==
    /\ pc = "popen"
    /\ result = [i \in 0 .. SIZE-1 |-> NUL]
    /\ pBuf = 0
    /\ size = SIZE
    /\ n = 0
    /\ output \in Outputs
    /\ wrote = 0
    /\ read = 0
    /\ readOpen = FALSE
    /\ child = "none"

(* An empty command, or popen failing: the buffer is left as it is.        *)
Refuse ==
    /\ pc = "popen"
    /\ pc' = "done"
    /\ UNCHANGED <<result, pBuf, size, n, pipe>>

Popen ==
    /\ pc = "popen"
    /\ pc' = "fgets"
    /\ readOpen' = TRUE
    /\ child' = "running"
    /\ UNCHANGED <<result, pBuf, size, n, output, wrote, read>>

(* fgets(pBuf, size, ptr) stops after a newline or after size-1 bytes.     *)
GotLine == n > 0 /\ result[pBuf + n - 1] = NL

GotAllMutant == GotLine \/ n = size   \* mutant: no room left for the terminator

GotAll == GotLine \/ n = size - 1

FgetsByte ==
    /\ pc = "fgets"
    /\ ~GotAll
    /\ read < wrote
    /\ result' = [result EXCEPT ![pBuf + n] = output[read + 1]]
    /\ read' = read + 1
    /\ n' = n + 1
    /\ UNCHANGED <<pc, pBuf, size, output, wrote, readOpen, child>>

EndOfFile == child = "exited" /\ read = wrote

(* fgets returns the buffer: the bytes it has are terminated.              *)
FgetsReturn ==
    /\ pc = "fgets"
    /\ GotAll \/ (EndOfFile /\ n > 0)
    /\ result' = [result EXCEPT ![pBuf + n] = NUL]
    /\ pc' = "strlen"
    /\ UNCHANGED <<pBuf, size, n, pipe>>

(* fgets returns NULL: end of file with nothing read.                      *)
FgetsNull ==
    /\ pc = "fgets"
    /\ ~GotAll /\ EndOfFile /\ n = 0
    /\ pc' = "pclose"
    /\ UNCHANGED <<result, pBuf, size, n, pipe>>

(* strlen(pBuf) *)
StrLen(buf, p) ==
    CHOOSE i \in 0 .. SIZE - 1 - p :
        /\ buf[p + i] = NUL
        /\ \A j \in 0 .. i - 1 : buf[p + j] # NUL

Advance(len, left, next) ==
    IF len = 0
    THEN pc' = "pclose" /\ UNCHANGED <<pBuf, size, n>>
    ELSE pc' = next /\ size' = left /\ pBuf' = pBuf + len /\ n' = 0

(* Mutant: the loop is left after the first line. *)
LoopBodyOneLine ==
    /\ pc = "strlen"
    /\ LET len == StrLen(result, pBuf) IN Advance(len, size - len, "pclose")
    /\ UNCHANGED <<result, pipe>>

(* The body of the while loop.  An empty string ends it: the buffer is     *)
(* full (fgets with size 1 stores only the terminator) or the line began   *)
(* with a zero byte.                                                       *)
LoopBody ==
    /\ pc = "strlen"
    /\ LET len == StrLen(result, pBuf) IN Advance(len, size - len, "fgets")
    /\ UNCHANGED <<result, pipe>>

(* Mutant: waits for the command before closing the pipe. *)
PcloseKeepsPipe ==
    /\ pc = "pclose"
    /\ pc' = "waitpid"
    /\ UNCHANGED <<result, pBuf, size, n, pipe>>

(* pclose closes the parent's end first ...                                *)
Pclose ==
    /\ pc = "pclose"
    /\ pc' = "waitpid"
    /\ readOpen' = FALSE
    /\ UNCHANGED <<result, pBuf, size, n, output, wrote, read, child>>

(* ... and then waits for the command.                                     *)
PcloseWait ==
    /\ pc = "waitpid"
    /\ child = "exited"
    /\ pc' = "done"
    /\ UNCHANGED <<result, pBuf, size, n, pipe>>

(* The command blocks on a full pipe, is killed by SIGPIPE when it writes  *)
(* and nobody can read, and exits once all its output is out.              *)
ChildWrite ==
    /\ child = "running" /\ readOpen
    /\ wrote < Len(output)
    /\ wrote - read < PipeCap
    /\ wrote' = wrote + 1
    /\ UNCHANGED <<pc, result, pBuf, size, n, output, read, readOpen, child>>

ChildExit ==
    /\ child = "running"
    /\ wrote = Len(output) \/ ~readOpen
    /\ child' = "exited"
    /\ UNCHANGED <<pc, result, pBuf, size, n, output, wrote, read, readOpen>>

Parent == \/ Refuse \/ Popen \/ FgetsByte \/ FgetsReturn \/ FgetsNull
          \/ LoopBody \/ Pclose \/ PcloseWait
Child  == ChildWrite \/ ChildExit

Next == Parent \/ Child

Spec == Init /\ [][Next]_vars

-----------------------------------------------------------------------------
(* The types, and: what is read is at most what was written, and that at   *)
(* most what the command has to write.                                     *)
TypeOK ==
    /\ pc \in {"popen", "fgets", "strlen", "pclose", "waitpid", "done"}
    /\ result \in [0 .. SIZE-1 -> Char]
    /\ pBuf \in Nat /\ size \in Nat /\ n \in Nat
    /\ output \in Seq(Char)
    /\ wrote \in 0 .. Len(output) /\ read \in 0 .. wrote
    /\ readOpen \in BOOLEAN
    /\ child \in {"none", "running", "exited"}

(* The size handed to fgets is exactly the room left in the caller's       *)
(* buffer, there is always room for a terminator, and every byte fgets has *)
(* stored lies inside the buffer (RjcoreService.cpp 80-88: size -= len and *)
(* pBuf += len go together).                                               *)
BufferInBounds ==
    /\ pBuf + size = SIZE
    /\ size >= 1
    /\ n < size

(* When executeCmd returns, the buffer holds a C string whose length is    *)
(* pBuf: no zero byte before it, one at it.  The callers go on to use      *)
(* strlen(res) and res[len - 1] on it.                                     *)
ResultIsCString ==
    pc = "done" =>
        /\ result[pBuf] = NUL
        /\ \A i \in 0 .. pBuf - 1 : result[i] # NUL

(* What executeCmd hands back is a C string and, unless the output holds a *)
(* zero byte, it is the output of the command, cut at SIZE - 1 bytes,      *)
(* however the child's writes, the line ends and the buffer end fall       *)
(* together.                                                               *)
ResultIsOutput ==
    /\ ResultIsCString
    /\ (/\ pc = "done" /\ child # "none"
        /\ \A i \in 1 .. Len(output) : output[i] # NUL) =>
           /\ pBuf = IF Len(output) < SIZE THEN Len(output) ELSE SIZE - 1
           /\ \A i \in 0 .. pBuf - 1 : result[i] = output[i + 1]
=============================================================================
