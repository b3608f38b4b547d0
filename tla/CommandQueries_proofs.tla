------------------------ MODULE CommandQueries_proofs ------------------------
(***************************************************************************)
(* Proofs about executeCmd and the queries that go through it, for every   *)
(* buffer size, pipe capacity and set of outputs.  The first part is about *)
(* executeCmd on its own: the buffer is never overrun, what it holds at    *)
(* the end is a C string, and that string is the command's output.  The    *)
(* second part shows the same of executeCmd run by the queries, where      *)
(* checkIpConflict_block enters it twice, and that a query answers from    *)
(* the output of the last command.                                         *)
(***************************************************************************)
EXTENDS CommandQueries, WellFoundedInduction, FiniteSetTheorems, TLAPS


NulFree == \A i \in 1 .. Len(output) : output[i] # NUL

(* The string gathered so far has no zero byte before pBuf, and pBuf       *)
(* points at a terminator whenever no fgets is half-way.                   *)
Terminated ==
    /\ \A i \in 0 .. pBuf - 1 : result[i] # NUL
    /\ pc \in {"popen", "pclose", "waitpid", "done"} => result[pBuf] = NUL
    /\ pc = "fgets" /\ n = 0 => result[pBuf] = NUL
    /\ pc = "strlen" => result[pBuf + n] = NUL

(* For an output without zero bytes: what was read is what the buffer      *)
(* holds, and the loop is left at end of file or with the buffer full.     *)
Gathered ==
    NulFree =>
        /\ read = pBuf + n
        /\ \A i \in 0 .. read - 1 : result[i] = output[i + 1]
        /\ pc = "strlen" => n > 0 \/ size = 1
        /\ pc \in {"pclose", "waitpid", "done"} /\ child # "none" =>
              n = 0 /\ (read = Len(output) \/ size = 1)

(* End of file is seen only after all of the output.                       *)
ChildState ==
    /\ pc = "popen" => child = "none" /\ n = 0
    /\ pc \in {"fgets", "strlen", "pclose"} => readOpen /\ child # "none"
    /\ child = "exited" /\ readOpen => wrote = Len(output)
    /\ child = "none" => pc \in {"popen", "done"} /\ pBuf = 0 /\ n = 0

IInv == TypeOK /\ BufferInBounds /\ Terminated /\ Gathered /\ ChildState

-----------------------------------------------------------------------------
(* A nonempty set of natural numbers has a least element.                  *)
LEMMA LeastNat ==
    ASSUME NEW T, T \subseteq Nat, T # {}
    PROVE  \E x \in T : \A y \in T : ~(y < x)
<1>1. IsWellFoundedOn(OpToRel(<, Nat), Nat)
  BY NatLessThanWellFounded
<1>2. PICK x \in T : \A y \in T : ~(<<y, x>> \in OpToRel(<, Nat))
  BY <1>1, WFMin
<1>3. QED
  BY <1>2 DEF OpToRel

(* What strlen returns on a buffer that has a zero byte at or after p.     *)
LEMMA StrLenLemma ==
    ASSUME NEW buf, NEW p \in Nat, NEW k \in 0 .. SIZE - 1 - p,
           buf[p + k] = NUL
    PROVE  /\ StrLen(buf, p) \in 0 .. k
           /\ buf[p + StrLen(buf, p)] = NUL
           /\ \A j \in 0 .. StrLen(buf, p) - 1 : buf[p + j] # NUL
<1> DEFINE T == {i \in 0 .. SIZE - 1 - p : buf[p + i] = NUL}
<1>1. T \subseteq Nat /\ k \in T
  BY SizeAssumption
<1>2. PICK x \in T : \A y \in T : ~(y < x)
  BY <1>1, LeastNat
<1>3. /\ x \in 0 .. SIZE - 1 - p
      /\ buf[p + x] = NUL
      /\ \A j \in 0 .. x - 1 : buf[p + j] # NUL
  BY <1>2, SizeAssumption
<1>4. /\ StrLen(buf, p) \in 0 .. SIZE - 1 - p
      /\ buf[p + StrLen(buf, p)] = NUL
      /\ \A j \in 0 .. StrLen(buf, p) - 1 : buf[p + j] # NUL
  BY <1>3 DEF StrLen
<1>5. StrLen(buf, p) <= k
  BY <1>4, SizeAssumption
<1>6. QED
  BY <1>4, <1>5, SizeAssumption

(* The empty, zeroed buffer with which executeCmd starts.                  *)
LEMMA InitInv == Init => IInv
<1> SUFFICES ASSUME Init PROVE IInv
  OBVIOUS
<1> USE SizeAssumption, OutputsAssumption DEF Init
<1>1. TypeOK
  BY DEF TypeOK, Char
<1>2. BufferInBounds
  BY DEF BufferInBounds
<1>3. Terminated
  BY DEF Terminated
<1>4. Gathered
  BY DEF Gathered
<1>5. ChildState
  BY DEF ChildState
<1>6. QED
  BY <1>1, <1>2, <1>3, <1>4, <1>5 DEF IInv

(* A byte fgets stores stays in the buffer, before room for the terminator. *)
LEMMA FgetsByteInv == IInv /\ FgetsByte => IInv'
<1> SUFFICES ASSUME IInv, FgetsByte PROVE IInv'
  OBVIOUS
<1> USE SizeAssumption DEF IInv, FgetsByte, GotAll
<1>0. pBuf + n \in 0 .. SIZE - 1 /\ n < size - 1
  BY DEF TypeOK, BufferInBounds
<1>a. /\ \A i \in 0 .. SIZE - 1 : i # pBuf + n => result'[i] = result[i]
      /\ result'[pBuf + n] = output[read + 1]
  BY <1>0 DEF TypeOK
<1>b. read + 1 \in 1 .. Len(output) /\ output[read + 1] \in Char
  BY DEF TypeOK
<1>1. TypeOK'
  BY <1>b DEF TypeOK
<1>2. BufferInBounds'
  BY <1>0 DEF BufferInBounds, TypeOK
<1>3. Terminated'
  BY <1>0, <1>a DEF Terminated, BufferInBounds, TypeOK
<1>4. Gathered'
  BY <1>0, <1>a DEF Gathered, NulFree, BufferInBounds, TypeOK
<1>5. ChildState'
  BY DEF ChildState
<1>6. QED
  BY <1>1, <1>2, <1>3, <1>4, <1>5

(* The terminator fgets adds lies inside the buffer.                       *)
LEMMA FgetsReturnInv == IInv /\ FgetsReturn => IInv'
<1> SUFFICES ASSUME IInv, FgetsReturn PROVE IInv'
  OBVIOUS
<1> USE SizeAssumption DEF IInv, FgetsReturn, pipe
<1>0. pBuf + n \in 0 .. SIZE - 1
  BY DEF TypeOK, BufferInBounds
<1>a. /\ \A i \in 0 .. SIZE - 1 : i # pBuf + n => result'[i] = result[i]
      /\ result'[pBuf + n] = NUL
  BY <1>0 DEF TypeOK
<1>1. TypeOK'
  BY DEF TypeOK, Char
<1>2. BufferInBounds'
  BY DEF BufferInBounds
<1>3. Terminated'
  BY <1>0, <1>a DEF Terminated, BufferInBounds, TypeOK
<1>4. Gathered'
  BY <1>0, <1>a DEF Gathered, NulFree, BufferInBounds, TypeOK, GotAll, GotLine
<1>5. ChildState'
  BY DEF ChildState
<1>6. QED
  BY <1>1, <1>2, <1>3, <1>4, <1>5

(* size -= len and pBuf += len keep offset and room in step.               *)
LEMMA LoopBodyInv == IInv /\ LoopBody => IInv'
<1> SUFFICES ASSUME IInv, LoopBody PROVE IInv'
  OBVIOUS
<1> DEFINE len == StrLen(result, pBuf)
<1>0. /\ pBuf \in Nat /\ n \in 0 .. SIZE - 1 - pBuf
      /\ result[pBuf + n] = NUL
  BY SizeAssumption DEF IInv, TypeOK, BufferInBounds, Terminated, LoopBody
<1>1. /\ len \in 0 .. n
      /\ result[pBuf + len] = NUL
      /\ \A j \in 0 .. len - 1 : result[pBuf + j] # NUL
  BY <1>0, StrLenLemma
<1> HIDE DEF len
<1>2. ASSUME NulFree PROVE len = n
  <2>1. SUFFICES ASSUME len < n PROVE FALSE
    BY <1>0, <1>1
  <2>2. /\ read = pBuf + n
        /\ \A i \in 0 .. read - 1 : result[i] = output[i + 1]
    BY <1>2 DEF IInv, Gathered
  <2>3. pBuf + len \in 0 .. read - 1 /\ (pBuf + len) + 1 \in 1 .. Len(output)
    BY <2>1, <2>2, <1>0, <1>1 DEF IInv, TypeOK
  <2>4. QED
    BY <2>2, <2>3, <1>1, <1>2 DEF NulFree
<1>3. CASE len = 0
  <2>0. pc' = "pclose" /\ UNCHANGED <<result, pBuf, size, n, pipe>>
    BY <1>3 DEF LoopBody, Advance, len
  <2>1. TypeOK' /\ BufferInBounds'
    BY <2>0 DEF IInv, TypeOK, BufferInBounds, pipe
  <2>2. Terminated'
    BY <2>0, <1>0, <1>1, <1>3 DEF IInv, Terminated, pipe
  <2>3. Gathered'
    BY <2>0, <1>0, <1>2, <1>3 DEF IInv, Gathered, NulFree, pipe, LoopBody
  <2>4. ChildState'
    BY <2>0 DEF IInv, ChildState, pipe, LoopBody
  <2>5. QED
    BY <2>1, <2>2, <2>3, <2>4 DEF IInv
<1>4. CASE len # 0
  <2>0. /\ pc' = "fgets" /\ size' = size - len /\ pBuf' = pBuf + len /\ n' = 0
        /\ UNCHANGED <<result, pipe>>
    BY <1>4 DEF LoopBody, Advance, len
  <2>1. TypeOK' /\ BufferInBounds'
    BY <2>0, <1>0, <1>1, SizeAssumption DEF IInv, TypeOK, BufferInBounds, pipe
  <2>2. Terminated'
    <3>1. \A i \in 0 .. pBuf + len - 1 : result[i] # NUL
      <4> SUFFICES ASSUME NEW i \in 0 .. pBuf + len - 1 PROVE result[i] # NUL
        OBVIOUS
      <4>1. CASE i < pBuf
        BY <4>1, <1>0, <1>1 DEF IInv, Terminated
      <4>2. CASE i >= pBuf
        <5>1. i - pBuf \in 0 .. len - 1 /\ pBuf + (i - pBuf) = i
          BY <4>2, <1>0, <1>1
        <5>2. QED
          BY <5>1, <1>1
      <4>3. QED
        BY <4>1, <4>2, <1>0, <1>1
    <3>2. QED
      BY <3>1, <2>0, <1>0, <1>1 DEF Terminated
  <2>3. Gathered'
    BY <2>0, <1>0, <1>2 DEF IInv, Gathered, NulFree, pipe, LoopBody
  <2>4. ChildState'
    BY <2>0 DEF IInv, ChildState, pipe, LoopBody
  <2>5. QED
    BY <2>1, <2>2, <2>3, <2>4 DEF IInv
<1>5. QED
  BY <1>3, <1>4

(* Every step of executeCmd and its child preserves the invariant.         *)
LEMMA NextInv == IInv /\ [Next]_vars => IInv'
<1> SUFFICES ASSUME IInv, [Next]_vars PROVE IInv'
  OBVIOUS
<1> USE SizeAssumption
<1> USE DEF IInv
<1>1. CASE Refuse
  BY <1>1 DEF Refuse, TypeOK, BufferInBounds, Terminated, Gathered, NulFree,
              ChildState, pipe
<1>2. CASE Popen
  BY <1>2 DEF Popen, TypeOK, BufferInBounds, Terminated, Gathered, NulFree,
              ChildState
<1>3. CASE FgetsByte
  BY <1>3, FgetsByteInv
<1>4. CASE FgetsReturn
  BY <1>4, FgetsReturnInv
<1>5. CASE FgetsNull
  BY <1>5 DEF FgetsNull, EndOfFile, TypeOK, BufferInBounds, Terminated,
              Gathered, NulFree, ChildState, pipe
<1>6. CASE LoopBody
  BY <1>6, LoopBodyInv
<1>7. CASE Pclose
  BY <1>7 DEF Pclose, TypeOK, BufferInBounds, Terminated, Gathered, NulFree,
              ChildState
<1>8. CASE PcloseWait
  BY <1>8 DEF PcloseWait, TypeOK, BufferInBounds, Terminated, Gathered,
              NulFree, ChildState, pipe
<1>9. CASE ChildWrite
  BY <1>9 DEF ChildWrite, TypeOK, BufferInBounds, Terminated, Gathered,
              NulFree, ChildState
<1>10. CASE ChildExit
  BY <1>10 DEF ChildExit, TypeOK, BufferInBounds, Terminated, Gathered,
               NulFree, ChildState
<1>11. CASE UNCHANGED vars
  BY <1>11 DEF vars, TypeOK, BufferInBounds, Terminated, Gathered, NulFree,
               ChildState
<1>12. QED
  BY <1>1, <1>2, <1>3, <1>4, <1>5, <1>6, <1>7, <1>8, <1>9, <1>10, <1>11
     DEF Next, Parent, Child

(* The inductive invariant holds throughout executeCmd.                    *)
LEMMA InvHolds == Spec => []IInv
<1>1. QED
  BY InitInv, NextInv, PTL DEF Spec

(* The invariant decides what the buffer holds in the end.                 *)
LEMMA OutputReturned == IInv => ResultIsOutput
<1>1. IInv => ResultIsCString
  BY DEF IInv, Terminated, ResultIsCString
<1>2. QED
  BY <1>1, SizeAssumption DEF IInv, TypeOK, BufferInBounds, Gathered, NulFree,
     ResultIsOutput

-----------------------------------------------------------------------------
(* The variables of executeCmd and of its child keep their types.          *)
THEOREM TypeCorrect == Spec => []TypeOK
<1>1. IInv => TypeOK
  BY DEF IInv
<1>2. QED
  BY <1>1, InvHolds, PTL

(* executeCmd never writes outside the caller's buffer, whatever its size  *)
(* and whatever the command writes.                                        *)
THEOREM NoOverrun == Spec => []BufferInBounds
<1>1. IInv => BufferInBounds
  BY DEF IInv
<1>2. QED
  BY <1>1, InvHolds, PTL

(* executeCmd returns a C string of length pBuf, and it is the command's   *)
(* output, cut to the size of the buffer, unless that holds a zero byte.   *)
THEOREM ReturnsOutput == Spec => []ResultIsOutput
<1>1. QED
  BY OutputReturned, InvHolds, PTL

-----------------------------------------------------------------------------
(* Where a query stands, what it has read and what executeCmd has done.    *)
QueryState ==
    /\ query \in Queries /\ valid \in BOOLEAN
    /\ ~valid => query \in Checks
    /\ phase \in {"check", "link", "run", "answered"}
    /\ phase = "check" => pc = "popen" /\ input = <<>> /\ answer = <<>>
    /\ phase \in {"link", "run"} => query \in Commands /\ valid
    /\ phase = "link" => query = "checkIpConflict_block"
    /\ phase = "link" => input = <<>>
    /\ phase = "run" => (query = "checkIpConflict_block" => input = <<Yes>>)
    /\ phase = "run" => (query # "checkIpConflict_block" => input = <<>>)
    /\ query = "getCpuInfo" => input = <<>> \/ input \in Values

(* An answer is what the method makes of the buffer of the last command,   *)
(* and without a command that ended there is none.                         *)
AnswerKept ==
    phase = "answered" =>
        /\ ~valid => answer = <<>> /\ child = "none"
        /\ query = "checkIpConflict_block" /\ input = <<>> => answer = <<>>
        /\ Finished => pc = "done" /\ answer = AnswerTo(Text, input)
        /\ query = "getSupportResolution" /\ input # <<>> =>
              \E b0, b1 \in Bytes :
                  input = <<b0, b1>> /\ answer = Modes(SupportIndex(b0, b1))
        /\ query = "getStorageInfo" /\ input # <<>> =>
              \E b \in Sizes : input = <<b>> /\ answer = StorageSize(b)

QInv == IInv /\ QueryState /\ AnswerKept

(* A query begins with the buffer executeCmd expects.                      *)
LEMMA QueryInitInv == QueryInit => QInv
<1> SUFFICES ASSUME QueryInit PROVE QInv
  OBVIOUS
<1>1. IInv
  BY InitInv DEF QueryInit
<1>2. QueryState /\ AnswerKept
  BY DEF QueryInit, Init, QueryState, AnswerKept, Checks
<1>3. QED
  BY <1>1, <1>2 DEF QInv

(* The second command of checkIpConflict_block starts as the first did.    *)
LEMMA RestartInv == Restart => IInv'
<1> SUFFICES ASSUME Restart PROVE IInv'
  OBVIOUS
<1> USE SizeAssumption, OutputsAssumption DEF Restart, NewCommand
<1>1. TypeOK'
  BY DEF TypeOK, Char
<1>2. BufferInBounds' /\ Terminated' /\ Gathered' /\ ChildState'
  BY DEF BufferInBounds, Terminated, Gathered, ChildState
<1>3. QED
  BY <1>1, <1>2 DEF IInv

(* executeCmd and its child run only while the query waits for them.       *)
LEMMA ExecuteInv ==
    QInv /\ InExecuteCmd /\ Next /\ UNCHANGED queryVars => QInv'
<1> SUFFICES ASSUME QInv, InExecuteCmd, Next, UNCHANGED queryVars PROVE QInv'
  OBVIOUS
<1>1. IInv'
  BY NextInv DEF QInv
<1>2. QueryState' /\ AnswerKept'
  BY DEF QInv, InExecuteCmd, queryVars, QueryState, AnswerKept
<1>3. QED
  BY <1>1, <1>2 DEF QInv

(* A step that leaves executeCmd alone leaves its invariant alone.         *)
LEMMA ExecuteIdle == IInv /\ UNCHANGED vars => IInv'
<1>1. QED
  BY NextInv

(* Every step of a query preserves the invariant.                          *)
LEMMA QueryNextInv == QInv /\ [QueryNext]_allVars => QInv'
<1> SUFFICES ASSUME QInv, [QueryNext]_allVars PROVE QInv'
  OBVIOUS
<1>1. CASE RefuseArguments
  <2>1. IInv'
    BY <1>1, ExecuteIdle DEF QInv, RefuseArguments
  <2>2. child = "none"
    BY <1>1 DEF QInv, QueryState, IInv, ChildState, RefuseArguments
  <2>3. QueryState' /\ AnswerKept'
    BY <1>1, <2>2 DEF QInv, QueryState, AnswerKept, RefuseArguments, Answered,
       Finished, vars
  <2>4. QED
    BY <2>1, <2>3 DEF QInv
<1>2. CASE Start
  <2>1. IInv'
    BY <1>2, ExecuteIdle DEF QInv, Start
  <2>2. QueryState' /\ AnswerKept'
    BY <1>2 DEF QInv, QueryState, AnswerKept, Start, vars
  <2>3. QED
    BY <2>1, <2>2 DEF QInv
<1>3. CASE Caller \/ Shell
  BY <1>3, ExecuteInv DEF Caller, Shell, Next
<1>4. CASE LinkChecked
  <2>1. CASE LinkUp
    <3>1. IInv'
      BY <1>4, <2>1, RestartInv DEF LinkChecked
    <3>2. QueryState' /\ AnswerKept'
      BY <1>4, <2>1 DEF QInv, QueryState, AnswerKept, LinkChecked
    <3>3. QED
      BY <3>1, <3>2 DEF QInv
  <2>2. CASE ~LinkUp
    <3>1. IInv'
      BY <1>4, <2>2, ExecuteIdle DEF QInv, LinkChecked
    <3>2. QueryState' /\ AnswerKept'
      BY <1>4, <2>2 DEF QInv, QueryState, AnswerKept, LinkChecked, Answered,
         Finished
    <3>3. QED
      BY <3>1, <3>2 DEF QInv
  <2>3. QED
    BY <2>1, <2>2
<1>5. CASE Reply
  <2>1. IInv'
    BY <1>5, ExecuteIdle DEF QInv, Reply
  <2>2. Text' = Text /\ LinkUp' = LinkUp
    BY <1>5 DEF Reply, vars, Text, LinkUp, StrLen
  <2>3. AnswerTo(Text, input)' = AnswerTo(Text, input')
    BY <1>5, <2>2 DEF Reply, AnswerTo
  <2>4. answer' = AnswerTo(Text, input)' /\ pc' = "done" /\ valid'
    BY <1>5, <2>3 DEF Reply, Answered, vars, QInv, QueryState
  <2>5. QueryState' /\ AnswerKept'
    BY <1>5, <2>4 DEF QInv, QueryState, AnswerKept, Reply, Answered
  <2>6. QED
    BY <2>1, <2>5 DEF QInv
<1>6. CASE ReadProperty
  <2>1. IInv'
    BY <1>6, ExecuteIdle DEF QInv, ReadProperty
  <2>2. query \notin Commands
    BY <1>6 DEF ReadProperty, Getprops, Commands, Trimmed
  <2>3. QueryState' /\ AnswerKept'
    BY <1>6, <2>2 DEF QInv, QueryState, AnswerKept, ReadProperty, Answered,
       Finished, Commands, Trimmed, Getprops
  <2>4. QED
    BY <2>1, <2>3 DEF QInv
<1>7. CASE ReadSupport \/ ReadStorage
  <2>1. IInv'
    BY <1>7, ExecuteIdle DEF QInv, ReadSupport, ReadStorage
  <2>2. query \notin Commands
    BY <1>7 DEF ReadSupport, ReadStorage, Commands, Trimmed
  <2>3. /\ UNCHANGED <<query, valid>> /\ phase' = "answered"
        /\ query \notin {"getCpuInfo", "checkIpConflict_block"}
        /\ valid \in BOOLEAN /\ query \in Queries
    BY <1>7 DEF ReadSupport, ReadStorage, Answered, QInv, QueryState
  <2>4. valid
    BY <1>7 DEF QInv, QueryState, Checks, ReadSupport, ReadStorage
  <2>5. /\ query = "getSupportResolution" /\ input' # <<>> =>
              \E b0, b1 \in Bytes :
                  input' = <<b0, b1>> /\ answer' = Modes(SupportIndex(b0, b1))
        /\ query = "getStorageInfo" /\ input' # <<>> =>
              \E b \in Sizes : input' = <<b>> /\ answer' = StorageSize(b)
    BY <1>7 DEF ReadSupport, ReadStorage, Answered, QInv, QueryState
  <2>6. QueryState' /\ AnswerKept'
    BY <2>2, <2>3, <2>4, <2>5 DEF QueryState, AnswerKept, Finished
  <2>7. QED
    BY <2>1, <2>6 DEF QInv
<1>8. CASE UNCHANGED allVars
  <2>1. IInv'
    BY <1>8, ExecuteIdle DEF QInv, allVars
  <2>2. Text' = Text /\ LinkUp' = LinkUp
    BY <1>8 DEF allVars, vars, Text, LinkUp, StrLen
  <2>3. AnswerTo(Text, input)' = AnswerTo(Text, input)
    BY <1>8, <2>2 DEF allVars, queryVars, AnswerTo
  <2>4. QueryState' /\ AnswerKept'
    BY <1>8, <2>3 DEF allVars, vars, queryVars, QInv, QueryState, AnswerKept,
       Finished
  <2>5. QED
    BY <2>1, <2>4 DEF QInv
<1>9. QED
  BY <1>1, <1>2, <1>3, <1>4, <1>5, <1>6, <1>7, <1>8 DEF QueryNext

(* The invariant holds throughout a query.                                 *)
LEMMA QueryInvHolds == QuerySpec => []QInv
<1>1. QED
  BY QueryInitInv, QueryNextInv, PTL DEF QuerySpec

-----------------------------------------------------------------------------
(* What Min returns on a nonempty set of natural numbers.                  *)
LEMMA MinLemma ==
    ASSUME NEW T, T \subseteq Nat, T # {}
    PROVE  /\ Min(T) \in T
           /\ \A y \in T : Min(T) <= y
<1>1. PICK x \in T : \A y \in T : ~(y < x)
  BY LeastNat
<1>2. \A y \in T : x =< y
  BY <1>1
<1>3. QED
  BY <1>1, <1>2 DEF Min

(* The part of the output that fits is a sequence of its bytes.            *)
LEMMA SeenLemma ==
    ASSUME IInv
    PROVE  /\ Seen \in Seq(Char)
           /\ Len(Seen) = IF child = "none" THEN 0
                          ELSE IF Len(output) < SIZE THEN Len(output)
                               ELSE SIZE - 1
           /\ \A i \in 1 .. Len(Seen) : Seen[i] = output[i]
<1>1. output \in Seq(Char) /\ Len(output) \in Nat /\ SIZE - 1 \in Nat
  BY SizeAssumption DEF IInv, TypeOK
<1>2. PICK k : k = Min({Len(output), SIZE - 1})
  OBVIOUS
<1>8. /\ k \in 0 .. Len(output)
      /\ k = IF Len(output) < SIZE THEN Len(output) ELSE SIZE - 1
  <2>1. PICK T : T = {Len(output), SIZE - 1}
    OBVIOUS
  <2>2. T \subseteq Nat /\ T # {}
    BY <2>1, <1>1
  <2>3. k \in T /\ \A y \in T : k <= y
    BY <2>1, <2>2, <1>2, MinLemma
  <2>4. QED
    BY <2>1, <2>3, <1>1, SizeAssumption
<1>3. CASE child = "none"
  BY <1>3 DEF Seen
<1>4. CASE child # "none"
  <2>1. Seen = SubSeq(output, 1, k)
    BY <1>2, <1>4 DEF Seen
  <2>2. /\ Seen \in Seq(Char) /\ Len(Seen) = k
        /\ \A i \in 1 .. k : Seen[i] = output[i]
    BY <2>1, <1>8, <1>1
  <2>3. QED
    BY <2>2, <1>8, <1>4
<1>5. QED
  BY <1>3, <1>4

(* When executeCmd has returned, the string in the buffer is the output of *)
(* the command it ran, as far as it fits; of no command, the empty string. *)
LEMMA TextIsSeen ==
    ASSUME IInv, pc = "done", NUL \notin Range(output)
    PROVE  Text = Seen
<1>0. /\ pBuf \in 0 .. SIZE - 1 /\ SIZE \in Nat
      /\ result[pBuf] = NUL
      /\ \A i \in 0 .. pBuf - 1 : result[i] # NUL
  BY SizeAssumption DEF IInv, TypeOK, BufferInBounds, Terminated
<1>1. NulFree
  BY DEF NulFree, Range, IInv, TypeOK
<1>2. /\ StrLen(result, 0) \in 0 .. pBuf
      /\ result[0 + StrLen(result, 0)] = NUL
  BY <1>0, StrLenLemma
<1>3. StrLen(result, 0) = pBuf
  BY <1>0, <1>2
<1>4. /\ pBuf = Len(Seen)
      /\ \A i \in 1 .. pBuf : result[i - 1] = Seen[i]
  <2>1. CASE child = "none"
    BY <2>1, SeenLemma DEF IInv, ChildState
  <2>2. CASE child # "none"
    <3>1. /\ n = 0 /\ read = pBuf /\ (read = Len(output) \/ size = 1)
          /\ \A i \in 0 .. read - 1 : result[i] = output[i + 1]
      BY <2>2, <1>0, <1>1 DEF IInv, Gathered, TypeOK
    <3>2. pBuf = IF Len(output) < SIZE THEN Len(output) ELSE SIZE - 1
      BY <3>1, <1>0 DEF IInv, TypeOK, BufferInBounds
    <3>3. pBuf = Len(Seen) /\ \A i \in 1 .. pBuf : Seen[i] = output[i]
      BY <3>2, <2>2, SeenLemma
    <3>4. \A i \in 1 .. pBuf : i - 1 \in 0 .. read - 1 /\ (i - 1) + 1 = i
      BY <3>1, <1>0
    <3>5. QED
      BY <3>1, <3>3, <3>4
  <2>3. QED
    BY <2>1, <2>2
<1>5. Text = [i \in 1 .. pBuf |-> result[i - 1]]
  BY <1>3 DEF Text
<1>6. Seen = [i \in 1 .. pBuf |-> Seen[i]]
  BY <1>4, SeenLemma
<1>7. QED
  BY <1>4, <1>5, <1>6

(* Trim takes one newline off the end and nothing else.                    *)
LEMMA TrimLemma ==
    ASSUME NEW s \in Seq(Char), s # <<>>
    PROVE  /\ Trim(s) = s \/ Trim(s) \o <<NL>> = s
           /\ Last(s) = NL => Len(Trim(s)) = Len(s) - 1
           /\ Last(s) # NL => Trim(s) = s
           /\ Trim(s) \in Seq(Char)
           /\ Last(s) = NL => Lines(Trim(s)) = Lines(s) - 1
<1>1. CASE Last(s) # NL
  BY <1>1 DEF Trim
<1>2. CASE Last(s) = NL
  <2>0. Len(s) \in Nat \ {0} /\ s[Len(s)] = NL
    BY <1>2 DEF Last
  <2>1. /\ Trim(s) \in Seq(Char) /\ Len(Trim(s)) = Len(s) - 1
        /\ \A i \in 1 .. Len(s) - 1 : Trim(s)[i] = s[i]
    <3>1. PICK m : m = Len(s) - 1
      OBVIOUS
    <3>2. Trim(s) = SubSeq(s, 1, m)
      BY <1>2, <3>1 DEF Trim, Front
    <3>3. m \in 0 .. Len(s)
      BY <2>0, <3>1
    <3>4. QED
      BY <3>1, <3>2, <3>3, <2>0
  <2>2. Trim(s) \o <<NL>> = s
    <3>1. Len(Trim(s) \o <<NL>>) = Len(s) /\ Trim(s) \o <<NL>> \in Seq(Char)
      BY <2>0, <2>1 DEF Char
    <3>2. \A i \in 1 .. Len(s) : (Trim(s) \o <<NL>>)[i] = s[i]
      BY <2>0, <2>1 DEF Char
    <3>3. QED
      BY <3>1, <3>2
  <2>3. Lines(Trim(s)) = Lines(s) - 1
    <3>1. PICK T : T = {i \in 1 .. Len(s) : s[i] = NL}
      OBVIOUS
    <3>2. IsFiniteSet(T)
      <4>1. IsFiniteSet(1 .. Len(s)) /\ T \in SUBSET (1 .. Len(s))
        BY <2>0, <3>1, FS_Interval
      <4>2. QED
        BY <4>1, FS_Subset
    <3>3. Len(s) \in T
      BY <2>0, <3>1
    <3>4. {i \in 1 .. Len(Trim(s)) : Trim(s)[i] = NL} = T \ {Len(s)}
      BY <2>0, <2>1, <3>1
    <3>5. Cardinality(T \ {Len(s)}) = Cardinality(T) - 1
      BY <3>2, <3>3, FS_RemoveElement
    <3>6. QED
      BY <3>1, <3>4, <3>5 DEF Lines
  <2>4. QED
    BY <1>2, <2>1, <2>2, <2>3
<1>3. QED
  BY <1>1, <1>2

(* The first word stands between the newlines at the start and the next.   *)
LEMMA WordLemma ==
    ASSUME NEW s \in Seq(Char)
    PROVE  \E first \in 1 .. Len(s) + 1 : \E end \in first .. Len(s) + 1 :
              /\ \A j \in 1 .. first - 1 : s[j] = NL
              /\ first <= Len(s) => s[first] # NL
              /\ \A j \in first .. end - 1 : s[j] # NL
              /\ end <= Len(s) => s[end] = NL
              /\ Len(FirstWord(s)) = end - first
              /\ \A i \in 1 .. end - first :
                    FirstWord(s)[i] = s[first + i - 1]
              /\ FirstWord(s) \in Seq(Char)
<1>0. Len(s) \in Nat
  OBVIOUS
<1>1. PICK S : S = {i \in 1 .. Len(s) : s[i] # NL} \cup {Len(s) + 1}
  OBVIOUS
<1>2. PICK first : first = Min(S)
  OBVIOUS
<1>3. /\ first \in 1 .. Len(s) + 1
      /\ \A j \in 1 .. first - 1 : s[j] = NL
      /\ first <= Len(s) => s[first] # NL
  <2>1. S \subseteq Nat /\ S # {}
    BY <1>0, <1>1
  <2>2. first \in S /\ \A y \in S : first <= y
    BY <2>1, <1>2, MinLemma
  <2>3. QED
    BY <2>2, <1>0, <1>1
<1>4. PICK T : T = {i \in first .. Len(s) : s[i] = NL} \cup {Len(s) + 1}
  OBVIOUS
<1>5. PICK end : end = Min(T)
  OBVIOUS
<1>6. /\ end \in first .. Len(s) + 1
      /\ \A j \in first .. end - 1 : s[j] # NL
      /\ end <= Len(s) => s[end] = NL
  <2>1. T \subseteq Nat /\ T # {}
    BY <1>0, <1>3, <1>4
  <2>2. end \in T /\ \A y \in T : end <= y
    BY <2>1, <1>5, MinLemma
  <2>3. QED
    BY <2>2, <1>0, <1>3, <1>4
<1>7. FirstWord(s) = SubSeq(s, first, end - 1)
  BY <1>1, <1>2, <1>4, <1>5 DEF FirstWord
<1>8. /\ Len(FirstWord(s)) = end - first
      /\ \A i \in 1 .. end - first : FirstWord(s)[i] = s[first + i - 1]
      /\ FirstWord(s) \in Seq(Char)
  <2>1. PICK m : m = end - 1
    OBVIOUS
  <2>2. m \in first - 1 .. Len(s) /\ FirstWord(s) = SubSeq(s, first, m)
    BY <2>1, <1>0, <1>3, <1>6, <1>7
  <2>3. /\ Len(FirstWord(s)) = m - first + 1
        /\ \A i \in 1 .. m - first + 1 : FirstWord(s)[i] = s[first + i - 1]
        /\ FirstWord(s) \in Seq(Char)
    BY <2>2, <1>0, <1>3
  <2>4. m - first + 1 = end - first
    BY <2>1, <1>0, <1>3, <1>6
  <2>5. QED
    BY <2>3, <2>4, Zenon
<1>9. QED
  BY <1>3, <1>6, <1>8

(* The first word is the one letter w exactly if w is what first follows   *)
(* newlines, and a newline or nothing follows it.                          *)
LEMMA FirstWordLemma ==
    ASSUME NEW s \in Seq(Char), NEW w, w # NL
    PROVE  FirstWord(s) = <<w>> <=>
              \E i \in 1 .. Len(s) :
                  /\ s[i] = w
                  /\ \A j \in 1 .. i - 1 : s[j] = NL
                  /\ i < Len(s) => s[i + 1] = NL
<1>0. Len(s) \in Nat
  OBVIOUS
<1>1. PICK first \in 1 .. Len(s) + 1 : \E end \in first .. Len(s) + 1 :
         /\ \A j \in 1 .. first - 1 : s[j] = NL
         /\ first <= Len(s) => s[first] # NL
         /\ \A j \in first .. end - 1 : s[j] # NL
         /\ end <= Len(s) => s[end] = NL
         /\ Len(FirstWord(s)) = end - first
         /\ \A i \in 1 .. end - first : FirstWord(s)[i] = s[first + i - 1]
         /\ FirstWord(s) \in Seq(Char)
  BY WordLemma
<1>2. PICK end \in first .. Len(s) + 1 :
         /\ \A j \in first .. end - 1 : s[j] # NL
         /\ end <= Len(s) => s[end] = NL
         /\ Len(FirstWord(s)) = end - first
         /\ \A i \in 1 .. end - first : FirstWord(s)[i] = s[first + i - 1]
  BY <1>1
<1>3. /\ first \in 1 .. Len(s) + 1
      /\ \A j \in 1 .. first - 1 : s[j] = NL
      /\ first <= Len(s) => s[first] # NL
  BY <1>1
<1>6. /\ end \in first .. Len(s) + 1
      /\ \A j \in first .. end - 1 : s[j] # NL
      /\ end <= Len(s) => s[end] = NL
  BY <1>2
<1>8. /\ Len(FirstWord(s)) = end - first
      /\ \A i \in 1 .. end - first : FirstWord(s)[i] = s[first + i - 1]
      /\ FirstWord(s) \in Seq(Char)
  BY <1>1, <1>2
<1>9. ASSUME FirstWord(s) = <<w>>
      PROVE  \E i \in 1 .. Len(s) :
                 /\ s[i] = w
                 /\ \A j \in 1 .. i - 1 : s[j] = NL
                 /\ i < Len(s) => s[i + 1] = NL
  <2>1. end - first = 1 /\ s[first + 1 - 1] = w
    BY <1>8, <1>9
  <2>2. end = first + 1 /\ first \in 1 .. Len(s) /\ s[first] = w
    BY <2>1, <1>0, <1>3, <1>6
  <2>3. QED
    BY <2>2, <1>0, <1>3, <1>6
<1>10. ASSUME NEW i \in 1 .. Len(s), s[i] = w,
              \A j \in 1 .. i - 1 : s[j] = NL,
              i < Len(s) => s[i + 1] = NL
       PROVE  FirstWord(s) = <<w>>
  <2>1. first = i
    BY <1>0, <1>3, <1>10
  <2>2. end = i + 1
    BY <2>1, <1>0, <1>6, <1>10
  <2>3. Len(FirstWord(s)) = 1 /\ FirstWord(s)[1] = w
    BY <2>1, <2>2, <1>8, <1>10
  <2>4. QED
    BY <2>3, <1>8
<1>11. QED
  BY <1>9, <1>10

(* atoi has a value for the first word of every output that fits.          *)
LEMMA AtoiLemma ==
    ASSUME NEW s \in Seq(Char), Len(s) < SIZE, NUL \notin Range(s)
    PROVE  Atoi(s) \in Nat
<1>0. PICK first \in 1 .. Len(s) + 1 : \E end \in first .. Len(s) + 1 :
         /\ \A j \in first .. end - 1 : s[j] # NL
         /\ Len(FirstWord(s)) = end - first
         /\ \A i \in 1 .. end - first : FirstWord(s)[i] = s[first + i - 1]
         /\ FirstWord(s) \in Seq(Char)
  BY WordLemma
<1>1. PICK end \in first .. Len(s) + 1 :
         /\ \A j \in first .. end - 1 : s[j] # NL
         /\ Len(FirstWord(s)) = end - first
         /\ \A i \in 1 .. end - first : FirstWord(s)[i] = s[first + i - 1]
         /\ FirstWord(s) \in Seq(Char)
  BY <1>0
<1>2. PICK m \in 0 .. SIZE - 1 : m = end - first
  BY <1>1, SizeAssumption
<1>3. \A i \in 1 .. m : FirstWord(s)[i] \in Letter
  <2>1. \A i \in 1 .. m : first + i - 1 \in first .. end - 1
    BY <1>2
  <2>2. \A j \in first .. end - 1 : s[j] \in Char /\ s[j] # NUL /\ s[j] # NL
    BY <1>1 DEF Range
  <2>3. \A i \in 1 .. m : FirstWord(s)[i] = s[first + i - 1]
    BY <1>1, <1>2
  <2>4. QED
    BY <2>1, <2>2, <2>3 DEF Char
<1>4. FirstWord(s) \in [1 .. m -> Letter]
  BY <1>1, <1>2, <1>3
<1>5. FirstWord(s) \in BoundedSeq(Letter, SIZE - 1)
  BY <1>2, <1>4 DEF BoundedSeq, SeqOf
<1>6. QED
  BY <1>5, NumberAssumption DEF Atoi

(* Concatenation, and a sequence over a larger set.                        *)
LEMMA ConcatLemma ==
    ASSUME NEW U, NEW a \in Seq(U), NEW b \in Seq(U)
    PROVE  a \o b \in Seq(U) /\ Len(a \o b) = Len(a) + Len(b)
<1>1. QED
  OBVIOUS

LEMMA SeqOfMore ==
    ASSUME NEW S, NEW U, S \subseteq U, NEW s \in Seq(S)
    PROVE  s \in Seq(U)
<1>1. s \in [1 .. Len(s) -> U] /\ Len(s) \in Nat
  OBVIOUS
<1>2. QED
  BY <1>1

(* getCpuInfo's string: the output, its newline a space, the name, a word. *)
LEMMA CpuInfoLemma ==
    ASSUME NEW s \in Seq(Char), s # <<>>, NEW name \in Values
    PROVE  /\ CpuInfo(s, name) # <<>> <=> name # <<>>
           /\ name # <<>> => Len(CpuInfo(s, name)) = Len(s) + Len(name) + 1
<1>1. CASE name = <<>>
  BY <1>1 DEF CpuInfo
<1>2. CASE name # <<>>
  <2>1. PICK U : /\ Char \subseteq U /\ "SPACE" \in U /\ "SUFFIX" \in U
                 /\ \A c \in Letter \cup {NL} : Upper[c] \in U
    <3>1. PICK V : V = {Upper[c] : c \in Letter \cup {NL}}
      OBVIOUS
    <3>2. PICK U : U = Char \cup V \cup {"SPACE", "SUFFIX"}
      OBVIOUS
    <3>3. QED
      BY <3>1, <3>2
  <2>2. PICK space : space = IF Last(s) = NL THEN <<"SPACE">> ELSE <<>>
    OBVIOUS
  <2>3. PICK t : t = Trim(s)
    OBVIOUS
  <2>4. PICK u : u = ToUpper(name)
    OBVIOUS
  <2>5. t \in Seq(U) /\ Len(s) \in Nat
    <3>1. t \in Seq(Char)
      BY <2>3, TrimLemma
    <3>2. QED
      BY <3>1, <2>1, SeqOfMore
  <2>6. /\ space \in Seq(U)
        /\ Len(t) + Len(space) = Len(s)
    <3>1. CASE Last(s) = NL
      <4>1. space = <<"SPACE">> /\ space \in Seq(U) /\ Len(space) = 1
        BY <3>1, <2>1, <2>2
      <4>2. Len(t) = Len(s) - 1
        BY <3>1, <2>3, TrimLemma
      <4>3. QED
        BY <4>1, <4>2, <2>5
    <3>2. CASE Last(s) # NL
      BY <3>2, <2>2, <2>3, <2>5, TrimLemma
    <3>3. QED
      BY <3>1, <3>2
  <2>7. name \in Seq(Letter \cup {NL})
    BY ValuesAssumption
  <2>8. u \in Seq(U) /\ Len(u) = Len(name)
    <3>1. u = [i \in 1 .. Len(name) |-> Upper[name[i]]]
      BY <2>4 DEF ToUpper
    <3>2. \A i \in 1 .. Len(name) : Upper[name[i]] \in U
      BY <2>1, <2>7
    <3>3. Len(name) \in Nat
      BY <2>7
    <3>4. QED
      BY <3>1, <3>2, <3>3
  <2>9. <<"SUFFIX">> \in Seq(U)
    BY <2>1
  <2>10. PICK v : v = t \o space
    OBVIOUS
  <2>11. v \in Seq(U) /\ Len(v) = Len(s)
    BY <2>5, <2>6, <2>10, ConcatLemma
  <2>12. PICK w : w = v \o u
    OBVIOUS
  <2>13. w \in Seq(U) /\ Len(w) = Len(s) + Len(name)
    <3>1. v \o u \in Seq(U) /\ Len(v \o u) = Len(v) + Len(u)
      BY <2>8, <2>11, ConcatLemma
    <3>2. QED
      BY <3>1, <2>8, <2>11, <2>12
  <2>14. CpuInfo(s, name) = w \o <<"SUFFIX">>
    BY <1>2, <2>2, <2>3, <2>4, <2>10, <2>12 DEF CpuInfo
  <2>15. Len(w \o <<"SUFFIX">>) = Len(w) + Len(<<"SUFFIX">>)
    BY <2>9, <2>13, ConcatLemma
  <2>16. /\ Len(CpuInfo(s, name)) = Len(s) + Len(name) + 1
         /\ Len(s) + Len(name) + 1 # 0
    BY <2>13, <2>14, <2>15, <2>5, <2>7
  <2>17. QED
    BY <1>2, <2>16
<1>3. QED
  BY <1>1, <1>2

(* The flag is found at the head of the output only, and its value is the  *)
(* word after it.                                                          *)
LEMMA OtaLemma ==
    ASSUME NEW s \in Seq(Char), Success # NL
    PROVE  OtaResult(s) <=>
              \E i \in 2 .. Len(s) :
                  /\ s[1] = Flag /\ s[i] = Success
                  /\ \A j \in 2 .. i - 1 : s[j] = NL
                  /\ i < Len(s) => s[i + 1] = NL
<1>1. CASE s = <<>>
  BY <1>1 DEF OtaResult
<1>2. CASE s # <<>>
  <2>0. Tail(s) \in Seq(Char) /\ s # <<>>
    BY <1>2
  <2>1. PICK t \in Seq(Char) : t = Tail(s)
    BY <2>0
  <2>2. Len(t) = Len(s) - 1 /\ \A k \in 1 .. Len(t) : t[k] = s[k + 1]
    BY <1>2, <2>1
  <2>3. Len(s) \in Nat
    OBVIOUS
  <2>4. ASSUME NEW i \in 1 .. Len(t), t[i] = Success,
               \A j \in 1 .. i - 1 : t[j] = NL, i < Len(t) => t[i + 1] = NL
        PROVE  \E k \in 2 .. Len(s) :
                  /\ s[k] = Success
                  /\ \A j \in 2 .. k - 1 : s[j] = NL
                  /\ k < Len(s) => s[k + 1] = NL
    <3>1. i + 1 \in 2 .. Len(s) /\ s[i + 1] = Success
      BY <2>2, <2>3, <2>4
    <3>2. ASSUME NEW j \in 2 .. (i + 1) - 1
          PROVE  s[j] = NL
      <4>1. j - 1 \in 1 .. i - 1 /\ j - 1 \in 1 .. Len(t) /\ (j - 1) + 1 = j
        BY <2>2, <2>3
      <4>2. QED
        BY <2>2, <2>4, <4>1
    <3>3. i + 1 < Len(s) => s[(i + 1) + 1] = NL
      BY <2>2, <2>3, <2>4
    <3>4. QED
      BY <3>1, <3>2, <3>3
  <2>5. ASSUME NEW k \in 2 .. Len(s), s[k] = Success,
               \A j \in 2 .. k - 1 : s[j] = NL, k < Len(s) => s[k + 1] = NL
        PROVE  \E i \in 1 .. Len(t) :
                  /\ t[i] = Success
                  /\ \A j \in 1 .. i - 1 : t[j] = NL
                  /\ i < Len(t) => t[i + 1] = NL
    <3>1. k - 1 \in 1 .. Len(t) /\ (k - 1) + 1 = k /\ t[k - 1] = Success
      BY <2>2, <2>3, <2>5
    <3>2. ASSUME NEW j \in 1 .. (k - 1) - 1
          PROVE  t[j] = NL
      <4>1. j + 1 \in 2 .. k - 1 /\ j \in 1 .. Len(t)
        BY <2>2, <2>3
      <4>2. QED
        BY <2>2, <2>5, <4>1
    <3>3. k - 1 < Len(t) => t[(k - 1) + 1] = NL
      BY <2>2, <2>3, <2>5, <3>1
    <3>4. QED
      BY <3>1, <3>2, <3>3
  <2>6. FirstWord(t) = <<Success>> <=>
            \E i \in 1 .. Len(t) :
                /\ t[i] = Success
                /\ \A j \in 1 .. i - 1 : t[j] = NL
                /\ i < Len(t) => t[i + 1] = NL
    BY FirstWordLemma
  <2>7. OtaResult(s) <=> s[1] = Flag /\ FirstWord(t) = <<Success>>
    BY <1>2, <2>1 DEF OtaResult
  <2>8. QED
    BY <2>4, <2>5, <2>6, <2>7
<1>3. QED
  BY <1>1, <1>2

(* Every string a query returns is the output's, and its words are found.  *)
LEMMA TextHolds == QInv => TextAnswer
<1> SUFFICES ASSUME QInv, phase = "answered" PROVE
       /\ ~valid => answer = <<>> /\ child = "none"
       /\ query = "checkIpConflict_block" /\ input = <<>> => answer = <<>>
       /\ Finished /\ NUL \notin Range(output) => StringAsWritten /\ WordFound
  BY DEF TextAnswer
<1>1. /\ ~valid => answer = <<>> /\ child = "none"
      /\ query = "checkIpConflict_block" /\ input = <<>> => answer = <<>>
  BY DEF QInv, AnswerKept
<1>2. ASSUME Finished, NUL \notin Range(output)
      PROVE  StringAsWritten /\ WordFound
  <2>1. Text = Seen /\ answer = AnswerTo(Seen, input)
    BY <1>2, TextIsSeen DEF QInv, AnswerKept
  <2>2. PICK s : s = Seen
    OBVIOUS
  <2>3. s \in Seq(Char) /\ answer = AnswerTo(s, input) /\ Text = s
    BY <2>1, <2>2, SeenLemma DEF QInv
  <2>4. ASSUME query \in Trimmed
        PROVE  /\ answer = s \/ answer \o <<NL>> = s
               /\ s # <<>> /\ Last(s) = NL => Lines(answer) = Lines(s) - 1
    <3>1. answer = IF s = <<>> THEN s ELSE Trim(s)
      BY <2>3, <2>4 DEF AnswerTo, Trimmed
    <3>2. QED
      BY <3>1, <2>3, TrimLemma
  <2>5. query = "getProcessId" => answer = s
    BY <2>3 DEF AnswerTo, Trimmed
  <2>6. ASSUME query = "getCpuInfo"
        PROVE  /\ answer # <<>> <=> s # <<>> /\ input # <<>>
               /\ answer # <<>> => Len(answer) = Len(s) + Len(input) + 1
    <3>1. answer = IF s = <<>> THEN s ELSE CpuInfo(s, input)
      BY <2>3, <2>6 DEF AnswerTo, Trimmed
    <3>2. s # <<>> => input = <<>> \/ input \in Values
      BY <2>6 DEF QInv, QueryState
    <3>3. CASE s # <<>> /\ input = <<>>
      BY <3>1, <3>3 DEF CpuInfo
    <3>4. CASE s # <<>> /\ input \in Values
      BY <3>1, <3>4, <2>3, CpuInfoLemma
    <3>5. QED
      BY <3>1, <3>2, <3>3, <3>4
  <2>7. query = "isProcessRunning" => answer[1] = (s # <<>>)
    <3>1. query = "isProcessRunning" => answer = <<PidsPrinted(s)>>
      BY <2>3 DEF AnswerTo, Trimmed
    <3>2. QED
      BY <3>1 DEF PidsPrinted
  <2>8. query = "getNetcardState" => answer[1] = IsPrefix(<<Yes>>, s)
    <3>1. query = "getNetcardState" => answer = <<LinkUp>>
      BY <2>3 DEF AnswerTo, Trimmed
    <3>2. LinkUp <=> IsPrefix(<<Yes>>, s)
      BY <2>3 DEF LinkUp, IsPrefix
    <3>3. QED
      BY <3>1, <3>2 DEF LinkUp, IsPrefix
  <2>9. query = "getOtaResult" => answer[1] =
            (\E i \in 2 .. Len(s) :
                /\ s[1] = Flag /\ s[i] = Success
                /\ \A j \in 2 .. i - 1 : s[j] = NL
                /\ i < Len(s) => s[i + 1] = NL)
    <3>1. query = "getOtaResult" => answer = <<OtaResult(s)>>
      BY <2>3 DEF AnswerTo, Trimmed
    <3>2. Success # NL
      BY WordsAssumption
    <3>3. OtaResult(s) <=>
            (\E i \in 2 .. Len(s) :
                /\ s[1] = Flag /\ s[i] = Success
                /\ \A j \in 2 .. i - 1 : s[j] = NL
                /\ i < Len(s) => s[i + 1] = NL)
      BY <3>2, <2>3, OtaLemma
    <3>4. OtaResult(s) \in BOOLEAN
      BY DEF OtaResult
    <3>5. ASSUME query = "getOtaResult"
          PROVE  answer[1] = OtaResult(s)
      BY <3>1, <3>5
    <3>6. OtaResult(s) =
            (\E i \in 2 .. Len(s) :
                /\ s[1] = Flag /\ s[i] = Success
                /\ \A j \in 2 .. i - 1 : s[j] = NL
                /\ i < Len(s) => s[i + 1] = NL)
      BY <3>3, <3>4, Zenon
    <3>7. QED
      BY <3>5, <3>6, Zenon
  <2>10. StringAsWritten
    BY <2>2, <2>4, <2>5, <2>6 DEF StringAsWritten
  <2>11. WordFound
    BY <2>2, <2>7, <2>8, <2>9 DEF WordFound
  <2>12. QED
    BY <2>10, <2>11
<1>3. QED
  BY <1>1, <1>2

-----------------------------------------------------------------------------
(* What \div and % return, and that nothing else would do.                 *)
LEMMA Quotient ==
    ASSUME NEW x \in Nat, NEW u \in Nat \ {0}
    PROVE  /\ x \div u \in Nat /\ x % u \in 0 .. u - 1
           /\ x = (x \div u) * u + (x % u)
<1>1. x % u \in 0 .. u-1
  OBVIOUS
<1>2. x = u * (x \div u) + (x % u)
  OBVIOUS
<1>3. PICK q : q = x \div u
  OBVIOUS
<1>4. PICK r : r = x % u
  OBVIOUS
<1>5. q \in Int
  BY <1>3
<1>6. x = u * q + r /\ r \in 0 .. u - 1
  BY <1>1, <1>2, <1>3, <1>4
<1>7. ASSUME q <= -1
      PROVE  FALSE
  <2>1. PICK p \in Nat : q = -1 - p
    <3>1. -1 - q \in Nat /\ q = -1 - (-1 - q)
      BY <1>5, <1>7
    <3>2. QED
      BY <3>1
  <2>2. u * q = -u - u * p
    BY <2>1
  <2>3. u * p >= 0
    BY <2>1
  <2>4. QED
    BY <2>1, <2>2, <2>3, <1>6
<1>8. q \in Nat
  BY <1>5, <1>7
<1>9. QED
  BY <1>1, <1>2, <1>3, <1>8

LEMMA QuotientIs ==
    ASSUME NEW x \in Nat, NEW u \in Nat \ {0}, NEW q \in Nat,
           NEW r \in 0 .. u - 1, x = q * u + r
    PROVE  x \div u = q /\ x % u = r
<1>1. PICK Q \in Nat, R \in 0 .. u - 1 :
         /\ Q = x \div u /\ R = x % u /\ x = Q * u + R
  BY Quotient
<1>2. ASSUME NEW a \in Nat, NEW b \in Nat, NEW s \in 0 .. u - 1,
             NEW t \in 0 .. u - 1, a * u + s = b * u + t, a > b
      PROVE  FALSE
  <2>1. PICK d \in Nat : a = b + 1 + d
    <3>1. a - b - 1 \in Nat /\ a = b + 1 + (a - b - 1)
      BY <1>2
    <3>2. QED
      BY <3>1
  <2>2. a * u = b * u + u + d * u
    BY <2>1
  <2>3. d * u \in Nat /\ b * u \in Nat
    OBVIOUS
  <2>4. PICK v, w \in Nat : v = d * u /\ w = b * u
    BY <2>3
  <2>5. w + u + v + s = w + t
    BY <1>2, <2>2, <2>4
  <2>6. QED
    BY <2>5
<1>3. Q = q
  <2>1. Q > q \/ Q < q \/ Q = q
    OBVIOUS
  <2>2. QED
    BY <1>1, <1>2, <2>1
<1>4. PICK w \in Nat : w = q * u
  <2>1. q * u \in Nat
    OBVIOUS
  <2>2. QED
    BY <2>1
<1>5. x = w + r
  BY <1>4
<1>6. x = w + R
  BY <1>1, <1>3, <1>4
<1>7. r = R
  BY <1>5, <1>6
<1>8. QED
  BY <1>1, <1>3, <1>7

(* Multiplication keeps the order.                                         *)
LEMMA Multiples ==
    ASSUME NEW a \in Nat, NEW b \in Nat, NEW u \in Nat, a <= b
    PROVE  a * u <= b * u
<1>1. PICK d \in Nat : b = a + d
  <2>1. b - a \in Nat /\ b = a + (b - a)
    OBVIOUS
  <2>2. QED
    BY <2>1
<1>2. b * u = a * u + d * u
  BY <1>1
<1>3. d * u \in Nat /\ a * u \in Nat /\ b * u \in Nat
  OBVIOUS
<1>4. QED
  BY <1>2, <1>3

(* printf's %.1Lf is off by half a tenth at most, and keeps whole numbers  *)
(* on their side.                                                          *)
LEMMA TenthsLemma ==
    ASSUME NEW x \in Nat, NEW u \in Nat \ {0}
    PROVE  /\ Tenths(x, u) \in Nat
           /\ -u <= 2 * (Tenths(x, u) * u - 10 * x)
           /\ 2 * (Tenths(x, u) * u - 10 * x) <= u
           /\ \A y \in Nat : x <= y * u => Tenths(x, u) <= 10 * y
           /\ \A y \in Nat : y * u <= x => 10 * y <= Tenths(x, u)
<1>1. PICK z \in Nat : z = 10 * x
  OBVIOUS
<1>2. PICK q \in Nat, r \in 0 .. u - 1 :
         q = z \div u /\ r = z % u /\ z = q * u + r
  BY Quotient
<1>3. PICK w \in Nat : w = q * u
  <2>1. q * u \in Nat
    OBVIOUS
  <2>2. QED
    BY <2>1
<1>4. PICK t : t = Tenths(x, u)
  OBVIOUS
<1>5. \/ t = q /\ 2 * r <= u
      \/ t = q + 1 /\ u <= 2 * r
  <2>1. t = IF 2 * r < u \/ (2 * r = u /\ q % 2 = 0) THEN q ELSE q + 1
    BY <1>1, <1>2, <1>4 DEF Tenths
  <2>2. QED
    BY <2>1
<1>6. t \in Nat
  BY <1>5
<1>7. PICK v \in Nat : v = t * u
  <2>1. t * u \in Nat
    BY <1>6
  <2>2. QED
    BY <2>1
<1>8. t = q + 1 => v = w + u
  BY <1>3, <1>7
<1>9. t = q => v = w
  BY <1>3, <1>7
<1>10. -u <= 2 * (v - z) /\ 2 * (v - z) <= u
  <2>1. z = w + r
    BY <1>2, <1>3
  <2>2. QED
    BY <2>1, <1>5, <1>8, <1>9
<1>11. ASSUME NEW y \in Nat, x <= y * u
       PROVE  t <= 10 * y
  <2>1. PICK k \in Nat : k = y * u
    <3>1. y * u \in Nat
      OBVIOUS
    <3>2. QED
      BY <3>1
  <2>2. (10 * y + 1) * u = 10 * k + u
    BY <2>1
  <2>3. z <= 10 * k
    BY <1>1, <2>1, <1>11
  <2>4. 10 * y + 1 <= t => (10 * y + 1) * u <= v
    BY <1>6, <1>7, Multiples
  <2>5. ~(10 * y + 1 <= t)
    BY <2>2, <2>3, <2>4, <1>10
  <2>6. QED
    BY <2>5, <1>6
<1>12. ASSUME NEW y \in Nat, y * u <= x
       PROVE  10 * y <= t
  <2>1. PICK k \in Nat : k = y * u
    <3>1. y * u \in Nat
      OBVIOUS
    <3>2. QED
      BY <3>1
  <2>2. (10 * y) * u = 10 * k
    BY <2>1
  <2>3. 10 * k <= z
    BY <1>1, <2>1, <1>12
  <2>4. t + 1 <= 10 * y => (t + 1) * u <= (10 * y) * u
    BY <1>6, Multiples
  <2>5. (t + 1) * u = v + u
    BY <1>6, <1>7
  <2>6. ~(t + 1 <= 10 * y)
    BY <2>2, <2>3, <2>4, <2>5, <1>10
  <2>7. QED
    BY <2>6, <1>6
<1>13. QED
  BY <1>1, <1>4, <1>6, <1>7, <1>10, <1>11, <1>12

(* Two bytes, and a power of two that divides the lower one.               *)
Word(high, low) == 256 * high + low
Within(p) == \E s \in Nat : p * (2 * s) = 256

(* A bit of the lower byte, and one of the higher byte.                    *)
LEMMA LowBit ==
    ASSUME NEW h \in Nat, NEW b \in Nat, NEW p \in Nat \ {0}, Within(p)
    PROVE  (Word(h, b) \div p) % 2 = (b \div p) % 2
<1>0. PICK s \in Nat : p * (2 * s) = 256
  BY DEF Within
<1>1. PICK d \in Nat, e \in 0 .. p - 1 : d = b \div p /\ b = d * p + e
  BY Quotient
<1>2. PICK f \in Nat, g \in 0 .. 1 : g = d % 2 /\ d = f * 2 + g
  BY Quotient
<1>3. PICK k \in Nat : k = s * h
  <2>1. s * h \in Nat
    OBVIOUS
  <2>2. QED
    BY <2>1
<1>4. 256 * h = p * (2 * k)
  <2>1. 256 * h = (p * (2 * s)) * h
    BY <1>0
  <2>2. (p * (2 * s)) * h = p * (2 * (s * h))
    OBVIOUS
  <2>3. QED
    BY <1>0, <2>1, <2>2, <1>3
<1>5. 256 * h + b = (2 * k + d) * p + e
  <2>1. (2 * k + d) * p = p * (2 * k) + d * p
    OBVIOUS
  <2>2. PICK a \in Int, c \in Int : a = p * (2 * k) /\ c = d * p
    OBVIOUS
  <2>3. 256 * h = a /\ b = c + e /\ (2 * k + d) * p = a + c
    BY <2>1, <2>2, <1>1, <1>4
  <2>4. QED
    BY <2>3
<1>6. (256 * h + b) \div p = 2 * k + d
  <2>1. 256 * h + b \in Nat /\ 2 * k + d \in Nat
    OBVIOUS
  <2>2. QED
    BY <2>1, <1>5, QuotientIs, SMTT(20)
<1>7. 2 * k + d = (k + f) * 2 + g
  BY <1>2
<1>8. (2 * k + d) % 2 = g
  <2>1. 2 * k + d \in Nat /\ k + f \in Nat
    OBVIOUS
  <2>2. QED
    BY <2>1, <1>7, QuotientIs
<1>9. QED
  BY <1>1, <1>2, <1>6, <1>8 DEF Word

LEMMA HighBit ==
    ASSUME NEW h \in Nat, NEW b \in 0 .. 255, NEW t \in Nat \ {0}
    PROVE  Word(h, b) \div Word(t, 0) = h \div t
<1>1. PICK d \in Nat, e \in 0 .. t - 1 : d = h \div t /\ h = d * t + e
  BY Quotient
<1>2. PICK a \in Nat : a = d * t
  <2>1. d * t \in Nat
    OBVIOUS
  <2>2. QED
    BY <2>1
<1>3. d * (256 * t) = 256 * a
  BY <1>2
<1>4. 256 * h + b = d * (256 * t) + (256 * e + b)
  BY <1>1, <1>2, <1>3
<1>5. /\ 256 * t \in Nat \ {0} /\ 256 * h + b \in Nat
      /\ 256 * e + b \in 0 .. 256 * t - 1
  OBVIOUS
<1>6. (256 * h + b) \div (256 * t) = d
  BY <1>4, <1>5, QuotientIs
<1>7. Word(t, 0) = 256 * t
  BY DEF Word
<1>8. QED
  BY <1>1, <1>6, <1>7 DEF Word

(* The masks 1 << i of getSupportResolution.                               *)
LEMMA LowPower ==
    ASSUME NEW i \in 1 .. 7
    PROVE  \E p \in Nat \ {0} : 2^i = p /\ Within(p)
<1>0. /\ 2^1 = 2 /\ 2 * (2 * 64) = 256
      /\ 2^2 = 4 /\ 4 * (2 * 32) = 256
      /\ 2^3 = 8 /\ 8 * (2 * 16) = 256
      /\ 2^4 = 16 /\ 16 * (2 * 8) = 256
      /\ 2^5 = 32 /\ 32 * (2 * 4) = 256
      /\ 2^6 = 64 /\ 64 * (2 * 2) = 256
      /\ 2^7 = 128 /\ 128 * (2 * 1) = 256
  OBVIOUS
<1> USE <1>0
<1>1. ASSUME i = 1 PROVE 2^i = 2
  BY <1>1, Zenon
<1>2. ASSUME i = 2 PROVE 2^i = 4
  BY <1>2, Zenon
<1>3. ASSUME i = 3 PROVE 2^i = 8
  BY <1>3, Zenon
<1>4. ASSUME i = 4 PROVE 2^i = 16
  BY <1>4, Zenon
<1>5. ASSUME i = 5 PROVE 2^i = 32
  BY <1>5, Zenon
<1>6. ASSUME i = 6 PROVE 2^i = 64
  BY <1>6, Zenon
<1>7. ASSUME i = 7 PROVE 2^i = 128
  BY <1>7, Zenon
<1>8. PICK p : p = 2^i
  OBVIOUS
<1>9. /\ i = 1 => p = 2
      /\ i = 2 => p = 4
      /\ i = 3 => p = 8
      /\ i = 4 => p = 16
      /\ i = 5 => p = 32
      /\ i = 6 => p = 64
      /\ i = 7 => p = 128
  BY <1>1, <1>2, <1>3, <1>4, <1>5, <1>6, <1>7, <1>8,
     ZenonT(30)
<1>10. p \in {2, 4, 8, 16, 32, 64, 128}
  BY <1>9
<1>11. p \in Nat \ {0} /\ \E s \in Nat : p * (2 * s) = 256
  BY <1>10
<1>12. QED
  BY <1>8, <1>11 DEF Within

LEMMA HighPower ==
    ASSUME NEW i \in 8 .. 9
    PROVE  \E t \in {1, 2} : 2^i = Word(t, 0) /\ 2^(i - 8) = t
<1>0. 2^8 = Word(1, 0) /\ 2^0 = 1 /\ 2^9 = Word(2, 0) /\ 2^1 = 2
  BY DEF Word
<1>1. ASSUME i = 8 PROVE 2^i = Word(1, 0) /\ 2^(i - 8) = 1
  <2>1. i - 8 = 0
    BY <1>1
  <2>2. QED
    BY <1>0, <1>1, <2>1, Zenon
<1>2. ASSUME i = 9 PROVE 2^i = Word(2, 0) /\ 2^(i - 8) = 2
  <2>1. i - 8 = 1
    BY <1>2
  <2>2. QED
    BY <1>0, <1>2, <2>1, Zenon
<1>3. i = 8 \/ i = 9
  OBVIOUS
<1>4. QED
  BY <1>1, <1>2, <1>3, Zenon

(* Bits 1-7 of the index are those of the first byte of lcdinfo.ini, and   *)
(* bits 8 and 9 the two lowest of the second.                              *)
LEMMA IndexLemma ==
    ASSUME NEW b0 \in 0 .. 255, NEW b1 \in 0 .. 255
    PROVE  /\ \A i \in 1 .. 7 : Bit(SupportIndex(b0, b1), i) = Bit(b0, i)
           /\ \A i \in 8 .. 9 : Bit(SupportIndex(b0, b1), i) = Bit(b1, i - 8)
<1>1. PICK j \in Nat, h \in 0 .. 3 : h = b1 % 4 /\ b1 = j * 4 + h
  BY Quotient
<1>2. SupportIndex(b0, b1) = Word(h, b0)
  <2>1. PICK x \in Nat, y \in 0 .. 1023 :
           x = b1 * 256 + b0 /\ y = 256 * h + b0
    OBVIOUS
  <2>2. x = j * 1024 + y
    BY <1>1, <2>1
  <2>3. x % 1024 = y
    BY <2>2, QuotientIs
  <2>4. QED
    BY <2>1, <2>3 DEF SupportIndex, Word
<1>3. h \in Nat /\ b0 \in Nat
  OBVIOUS
<1>4. ASSUME NEW i \in 1 .. 7
      PROVE  Bit(SupportIndex(b0, b1), i) = Bit(b0, i)
  <2>1. PICK p \in Nat \ {0} : 2^i = p /\ Within(p)
    BY LowPower
  <2>2. (Word(h, b0) \div p) % 2 = (b0 \div p) % 2
    BY <1>3, <2>1, LowBit, ZenonT(30)
  <2>3. QED
    BY <1>2, <2>1, <2>2, Zenon DEF Bit
<1>5. ASSUME NEW i \in 8 .. 9
      PROVE  Bit(SupportIndex(b0, b1), i) = Bit(b1, i - 8)
  <2>1. PICK t \in {1, 2} : 2^i = Word(t, 0) /\ 2^(i - 8) = t
    BY HighPower
  <2>2. Word(h, b0) \div Word(t, 0) = h \div t
    <3>1. t \in Nat \ {0}
      BY <2>1
    <3>2. QED
      BY <1>3, <3>1, HighBit, Zenon
  <2>3. (b1 \div t) % 2 = (h \div t) % 2
    BY <1>1, <2>1
  <2>4. QED
    BY <1>2, <2>1, <2>2, <2>3, Zenon DEF Bit
<1>6. QED
  BY <1>4, <1>5

(* The first word of Rates that is in the output.                          *)
LEMMA MaxSpeedLemma ==
    ASSUME NEW s \in Seq(Char)
    PROVE  \A i \in 1 .. Len(Rates) :
               MaxSpeed(s) = <<Rates[i]>> <=>
                   /\ Rates[i] \in Range(s)
                   /\ \A j \in 1 .. i - 1 : Rates[j] \notin Range(s)
<1>1. PICK found : found = {i \in 1 .. Len(Rates) : Contains(s, Rates[i])}
  OBVIOUS
<1>2. found = {i \in 1 .. Len(Rates) : Rates[i] \in Range(s)}
  BY <1>1 DEF Contains, Range
<1>3. Len(Rates) \in Nat
  BY RatesAssumption
<1>4. CASE found = {}
  <2>1. MaxSpeed(s) = <<>>
    BY <1>1, <1>4 DEF MaxSpeed
  <2>2. QED
    BY <2>1, <1>2, <1>4
<1>5. CASE found # {}
  <2>1. PICK m : m = Min(found)
    OBVIOUS
  <2>2. m \in found /\ \A y \in found : m <= y
    <3>1. found \subseteq Nat
      BY <1>2, <1>3
    <3>2. QED
      BY <3>1, <1>5, <2>1, MinLemma
  <2>3. MaxSpeed(s) = <<Rates[m]>>
    BY <1>1, <1>5, <2>1 DEF MaxSpeed
  <2>4. ASSUME NEW i \in 1 .. Len(Rates)
        PROVE  <<Rates[m]>> = <<Rates[i]>> <=> m = i
    BY <1>2, <2>2, RatesAssumption
  <2>5. ASSUME NEW i \in 1 .. Len(Rates)
        PROVE  m = i <=> /\ Rates[i] \in Range(s)
                         /\ \A j \in 1 .. i - 1 : Rates[j] \notin Range(s)
    BY <1>2, <1>3, <2>2
  <2>6. QED
    BY <2>3, <2>4, <2>5
<1>6. QED
  BY <1>4, <1>5

(* A number that is scaled is rounded down, and stays within the unit if   *)
(* there is a larger one.                                                  *)
LEMMA ScaleLemma ==
    ASSUME NEW v \in Nat
    PROVE  LET m    == Scale(Scale(<<v, 0>>))
               unit == <<1, SIZE_1K, SIZE_1M>>[m[2] + 1]
           IN  /\ m[1] * unit <= v
               /\ v < (m[1] + 1) * unit
               /\ m[1] <= SIZE_1K \/ m[2] = 2
<1>1. PICK K : K = SIZE_1K
  OBVIOUS
<1>2. K \in Nat \ {0} /\ SIZE_1M = K * K
  BY <1>1, SizesAssumption DEF SIZE_1M
<1>3. PICK m : m = Scale(Scale(<<v, 0>>))
  OBVIOUS
<1>4. PICK a \in Nat, r \in 0 .. K - 1 : a = v \div K /\ v = a * K + r
  BY <1>2, Quotient
<1>5. PICK b \in Nat, t \in 0 .. K - 1 : b = a \div K /\ a = b * K + t
  BY <1>2, Quotient
<1>6. m = IF v > K THEN IF a > K THEN <<b, 2>> ELSE <<a, 1>> ELSE <<v, 0>>
  <2>1. Scale(<<v, 0>>) = IF v > K THEN <<a, 1>> ELSE <<v, 0>>
    BY <1>1, <1>4 DEF Scale
  <2>2. Scale(<<a, 1>>) = IF a > K THEN <<b, 2>> ELSE <<a, 1>>
    BY <1>1, <1>5 DEF Scale
  <2>3. ~(v > K) => Scale(<<v, 0>>) = <<v, 0>>
    BY <2>1
  <2>4. QED
    BY <1>3, <2>1, <2>2, <2>3
<1>7. PICK unit : unit = <<1, K, K * K>>[m[2] + 1]
  OBVIOUS
<1>8. /\ m[1] * unit <= v
      /\ v < (m[1] + 1) * unit
      /\ m[1] <= K \/ m[2] = 2
  <2>1. CASE ~(v > K)
    <3>1. m[1] = v /\ m[2] = 0 /\ unit = 1
      BY <2>1, <1>6, <1>7
    <3>2. QED
      BY <3>1, <2>1, <1>2
  <2>2. CASE v > K /\ ~(a > K)
    <3>1. m[1] = a /\ m[2] = 1 /\ unit = K
      BY <2>2, <1>6, <1>7
    <3>2. PICK w \in Nat : w = a * K
      BY <1>2
    <3>3. (a + 1) * K = w + K
      BY <3>2, <1>2
    <3>4. v = w + r
      BY <3>2, <1>4
    <3>5. QED
      BY <3>1, <3>2, <3>3, <3>4, <2>2, <1>2
  <2>3. CASE v > K /\ a > K
    <3>1. m[1] = b /\ m[2] = 2 /\ unit = K * K
      BY <2>3, <1>6, <1>7
    <3>2. PICK w \in Nat, x \in Nat, k \in Nat :
             w = b * (K * K) /\ x = t * K /\ k = K * K
      <4>1. b * (K * K) \in Nat /\ t * K \in Nat /\ K * K \in Nat
        BY <1>2
      <4>2. QED
        BY <4>1
    <3>3. a * K = w + x
      <4>1. (b * K + t) * K = b * (K * K) + t * K
        BY <1>2
      <4>2. QED
        BY <4>1, <3>2, <1>5
    <3>4. v = w + x + r
      BY <3>3, <1>4
    <3>5. x <= k - K
      <4>1. t * K <= (K - 1) * K
        <5>1. K - 1 \in Nat /\ t \in Nat /\ t <= K - 1
          BY <1>2
        <5>2. QED
          BY <5>1, <1>2, Multiples
      <4>2. (K - 1) * K = K * K - K
        BY <1>2
      <4>3. QED
        BY <4>1, <4>2, <3>2
    <3>6. (b + 1) * (K * K) = w + k
      BY <3>2, <1>2
    <3>7. w <= v /\ v < w + k
      BY <3>4, <3>5, <1>2
    <3>8. QED
      BY <3>1, <3>2, <3>6, <3>7
  <2>4. QED
    BY <2>1, <2>2, <2>3
<1>9. QED
  BY <1>1, <1>2, <1>3, <1>7, <1>8

(* The storage is within half a tenth of its unit, which is the largest    *)
(* that leaves 1.0 or more.                                                *)
LEMMA StorageLemma ==
    ASSUME NEW b \in Nat
    PROVE  LET a     == StorageSize(b)
               unit  == <<SIZE_1K, SIZE_1M, SIZE_1G>>[a[2] + 1]
               twice == 2 * (a[1] * unit - 10 * b)
           IN  /\ -unit <= twice /\ twice <= unit
               /\ a[1] <= 10 * SIZE_1K \/ a[2] = 2
               /\ a[1] >= 10 \/ a[2] = 0
<1>1. PICK K, M, G : K = SIZE_1K /\ M = SIZE_1M /\ G = SIZE_1G
  OBVIOUS
<1>2. /\ K \in Nat \ {0} /\ M \in Nat \ {0} /\ G \in Nat \ {0}
      /\ M = K * K /\ G = K * M
  <2>1. K \in Nat \ {0} /\ M = K * K /\ G = M * K
    BY <1>1, SizesAssumption DEF SIZE_1M, SIZE_1G
  <2>2. M \in Nat \ {0}
    BY <2>1
  <2>3. G \in Nat \ {0} /\ G = K * M
    BY <2>1, <2>2
  <2>4. QED
    BY <2>1, <2>2, <2>3
<1>3. PICK a : a = StorageSize(b)
  OBVIOUS
<1>4. PICK unit : unit = <<K, M, G>>[a[2] + 1]
  OBVIOUS
<1>5. /\ -unit <= 2 * (a[1] * unit - 10 * b)
      /\ 2 * (a[1] * unit - 10 * b) <= unit
      /\ a[1] <= 10 * K \/ a[2] = 2
      /\ a[1] >= 10 \/ a[2] = 0
  <2>1. CASE b > G
    <3>1. a[1] = Tenths(b, G) /\ a[2] = 2 /\ unit = G
      BY <2>1, <1>1, <1>3, <1>4 DEF StorageSize
    <3>2. 1 * G <= b
      BY <2>1, <1>2
    <3>3. \A y \in Nat : y * G <= b => 10 * y <= Tenths(b, G)
      BY <1>2, TenthsLemma
    <3>4. 10 * 1 <= Tenths(b, G) /\ Tenths(b, G) \in Nat
      BY <3>2, <3>3, <1>2, TenthsLemma
    <3>5. /\ -G <= 2 * (Tenths(b, G) * G - 10 * b)
          /\ 2 * (Tenths(b, G) * G - 10 * b) <= G
      BY <1>2, TenthsLemma
    <3>6. QED
      BY <3>1, <3>4, <3>5
  <2>2. CASE ~(b > G) /\ b > M
    <3>1. a[1] = Tenths(b, M) /\ a[2] = 1 /\ unit = M
      BY <2>2, <1>1, <1>3, <1>4 DEF StorageSize
    <3>2. 1 * M <= b /\ b <= K * M
      BY <2>2, <1>2
    <3>3. \A y \in Nat : b <= y * M => Tenths(b, M) <= 10 * y
      BY <1>2, TenthsLemma
    <3>4. Tenths(b, M) <= 10 * K
      BY <3>2, <3>3, <1>2, Zenon
    <3>5. \A y \in Nat : y * M <= b => 10 * y <= Tenths(b, M)
      BY <1>2, TenthsLemma
    <3>6. 10 * 1 <= Tenths(b, M) /\ Tenths(b, M) \in Nat
      BY <3>2, <3>5, <1>2, TenthsLemma
    <3>7. /\ -M <= 2 * (Tenths(b, M) * M - 10 * b)
          /\ 2 * (Tenths(b, M) * M - 10 * b) <= M
      BY <1>2, TenthsLemma
    <3>8. QED
      BY <3>1, <3>4, <3>6, <3>7
  <2>3. CASE ~(b > G) /\ ~(b > M)
    <3>1. a[1] = Tenths(b, K) /\ a[2] = 0 /\ unit = K
      BY <2>3, <1>1, <1>3, <1>4 DEF StorageSize
    <3>2. b <= K * K
      BY <2>3, <1>2
    <3>3. \A y \in Nat : b <= y * K => Tenths(b, K) <= 10 * y
      BY <1>2, TenthsLemma
    <3>4. Tenths(b, K) <= 10 * K
      BY <3>2, <3>3, <1>2, Zenon
    <3>5. /\ -K <= 2 * (Tenths(b, K) * K - 10 * b)
          /\ 2 * (Tenths(b, K) * K - 10 * b) <= K
      BY <1>2, TenthsLemma
    <3>6. QED
      BY <3>1, <3>4, <3>5
  <2>4. QED
    BY <2>1, <2>2, <2>3
<1>6. QED
  BY <1>1, <1>3, <1>4, <1>5

(* Every answer is what there was to read.                                 *)
LEMMA AnswerHolds == QInv => QueryAnswer
<1> SUFFICES ASSUME QInv, phase = "answered"
             PROVE  /\ Finished /\ NUL \notin Range(output) =>
                          BestSpeed /\ RoundedDown
                    /\ ModesAsStored /\ Rounded
  BY TextHolds DEF QueryAnswer
<1>1. ASSUME Finished, NUL \notin Range(output)
      PROVE  BestSpeed /\ RoundedDown
  <2>1. Text = Seen /\ answer = AnswerTo(Seen, input)
    BY <1>1, TextIsSeen DEF QInv, AnswerKept
  <2>2. PICK s : s = Seen
    OBVIOUS
  <2>3. s \in Seq(Char) /\ answer = AnswerTo(s, input)
    BY <2>1, <2>2, SeenLemma DEF QInv
  <2>4. Len(s) < SIZE /\ NUL \notin Range(s)
    <3>1. /\ Len(s) = IF child = "none" THEN 0
                      ELSE IF Len(output) < SIZE THEN Len(output)
                           ELSE SIZE - 1
          /\ \A i \in 1 .. Len(s) : s[i] = output[i]
      BY <2>2, SeenLemma DEF QInv
    <3>2. output \in Seq(Char) /\ Len(output) \in Nat
      BY DEF QInv, IInv, TypeOK
    <3>3. Len(s) < SIZE /\ \A i \in 1 .. Len(s) : i \in 1 .. Len(output)
      BY <3>1, <3>2, SizeAssumption
    <3>4. \A i \in 1 .. Len(output) : output[i] # NUL
      BY <1>1, <3>2 DEF Range
    <3>5. QED
      BY <3>1, <3>3, <3>4, <2>3 DEF Range
  <2>5. BestSpeed
    <3>1. query = "getNetcardMaxSpeed" => answer = MaxSpeed(s)
      BY <2>3 DEF AnswerTo, Trimmed
    <3>2. QED
      BY <3>1, <2>2, <2>3, MaxSpeedLemma DEF BestSpeed
  <2>6. RoundedDown
    <3>1. SUFFICES ASSUME query = "getMemoryInfo", s # <<>>
                   PROVE  RoundedDown
      BY <2>2 DEF RoundedDown
    <3>2. PICK v \in Nat : v = Atoi(s)
      BY <2>3, <2>4, AtoiLemma
    <3>3. answer = Scale(Scale(<<v, 0>>))
      BY <3>1, <3>2, <2>3 DEF AnswerTo, Trimmed, MemoryInfo
    <3>4. QED
      BY <3>2, <3>3, <2>2, ScaleLemma DEF RoundedDown
  <2>7. QED
    BY <2>5, <2>6
<1>2. ModesAsStored
  <2>1. SUFFICES ASSUME query = "getSupportResolution", input # <<>>
                 PROVE  ModesAsStored
    BY DEF ModesAsStored
  <2>2. PICK b0, b1 \in Bytes :
           input = <<b0, b1>> /\ answer = Modes(SupportIndex(b0, b1))
    BY <2>1 DEF QInv, AnswerKept
  <2>3. b0 \in 0 .. 255 /\ b1 \in 0 .. 255
    BY BytesAssumption
  <2>4. \A i \in 1 .. 9 : answer[i] = Bit(SupportIndex(b0, b1), i)
    BY <2>2 DEF Modes, MAX_RESOLUTION_SUPPORT
  <2>5. /\ \A i \in 1 .. 7 : Bit(SupportIndex(b0, b1), i) = Bit(b0, i)
        /\ \A i \in 8 .. 9 : Bit(SupportIndex(b0, b1), i) = Bit(b1, i - 8)
    BY <2>3, IndexLemma
  <2>6. input[1] = b0 /\ input[2] = b1
    BY <2>2
  <2>7. QED
    BY <2>4, <2>5, <2>6 DEF ModesAsStored
<1>3. Rounded
  <2>1. SUFFICES ASSUME query = "getStorageInfo", input # <<>>
                 PROVE  Rounded
    BY DEF Rounded
  <2>2. PICK b \in Sizes : input = <<b>> /\ answer = StorageSize(b)
    BY <2>1 DEF QInv, AnswerKept
  <2>3. b \in Nat /\ input[1] = b
    BY <2>2, SizesAssumption
  <2>4. QED
    BY <2>2, <2>3, StorageLemma DEF Rounded
<1>4. QED
  BY <1>1, <1>2, <1>3

-----------------------------------------------------------------------------
(* executeCmd run by any query, checkIpConflict_block's two runs included, *)
(* never writes outside the buffer.                                        *)
THEOREM QueriesNeverOverrun == QuerySpec => []BufferInBounds
<1>1. QInv => BufferInBounds
  BY DEF QInv, IInv
<1>2. QED
  BY <1>1, QueryInvHolds, PTL

(* Whatever query runs it, executeCmd hands back the output of the command *)
(* it ran last, cut to the size of the buffer.                             *)
THEOREM QueriesGetOutput == QuerySpec => []ResultIsOutput
<1>1. IInv => ResultIsOutput
  BY OutputReturned
<1>2. QInv => ResultIsOutput
  BY <1>1 DEF QInv
<1>3. QED
  BY <1>2, QueryInvHolds, PTL

(* Every query answers what there was to read: the strings, words and      *)
(* numbers of its last command's output, whatever the size of the buffer   *)
(* and however the output is cut, the modes of lcdinfo.ini, the storage    *)
(* rounded to a tenth.                                                     *)
THEOREM QueriesAnswer == QuerySpec => []QueryAnswer
<1>1. QED
  BY AnswerHolds, QueryInvHolds, PTL
=============================================================================
