------------------------ MODULE AndroIntAdder_proofs ------------------------
(***************************************************************************)
(* NeverTorn and SumUnlessDisturbed of the AndroInt adder, for every       *)
(* number of clients, every set of operands and every width of an int.     *)
(*                                                                         *)
(* The invariant behind both: who copies or adds holds the semaphore, so   *)
(* that outside a copy the device holds a pair that was written as a       *)
(* whole - the pair of every client that has written and not been          *)
(* disturbed since.                                                        *)
(***************************************************************************)
EXTENDS AndroIntAdder, TLAPS

(* The semaphore is held by the client in the driver's critical section.   *)
Exclusive == \A c \in Clients : pc[c] \in {"copy0", "copy1", "sum"} => sem = c

(* Nobody is between the two halves of a write.                            *)
Settled == \A c \in Clients : pc[c] # "copy1"

DataWhole ==
    /\ Settled => data \in written
    /\ \A c \in Clients : pc[c] = "copy1" => data[1] = in[c][1]

OutWhole ==
    \A c \in Clients : got[c] = "sum" =>
        \E p \in written : out[c] = Wrap(p[1] + p[2])

Undisturbed(c) == c \notin failed \cup disturbed

(* A client that has written finds its pair in the device, and one that    *)
(* has read has the sum of its pair.                                       *)
OwnPair ==
    \A c \in Clients : Undisturbed(c) =>
        /\ pc[c] \in {"read", "sum"} /\ Settled => data = in[c]
        /\ got[c] = "sum" => out[c] = Wrap(in[c][1] + in[c][2])

-----------------------------------------------------------------------------
(* A wrapped sum is an int.                                                *)
LEMMA WrapInts ==
    ASSUME NEW x \in Int
    PROVE  Wrap(x) \in Ints
  <1>1. 2 * Half \in Nat \ {0} /\ Half \in Nat
    BY HalfAssumption
  <1>2. (x + Half) % (2 * Half) \in 0 .. 2 * Half - 1
    BY <1>1
  <1> QED
    BY <1>1, <1>2 DEF Wrap, Ints

(* The type invariant is inductive.                                        *)
LEMMA TypeStep ==
    ASSUME TypeOK, [Next]_vars
    PROVE  TypeOK'
  <1> USE PairsAssumption, MaxAddsAssumption, HalfAssumption DEF TypeOK, history, Goto
  <1>0. 0 \in Ints /\ -1 \in Ints /\ Ints \subseteq Int
    BY DEF Ints
  <1>1. ASSUME NEW c \in Clients, NEW p \in Pairs, Add(c, p) PROVE TypeOK'
    BY <1>0, <1>1 DEF Add
  <1>2. ASSUME NEW c \in Clients, Open(c) PROVE TypeOK'
    BY <1>2 DEF Open
  <1>3. ASSUME NEW c \in Clients, Write(c) PROVE TypeOK'
    BY <1>3 DEF Write, Down, BadFd, Fails
  <1>4. ASSUME NEW c \in Clients, Read(c) PROVE TypeOK'
    BY <1>4 DEF Read, Down, BadFd, Fails
  <1>5. ASSUME NEW c \in Clients, Signal(c) PROVE TypeOK'
    BY <1>5 DEF Signal, Interrupted, Fails
  <1>6. ASSUME NEW c \in Clients, CopyFirst(c) PROVE TypeOK'
    BY <1>6 DEF CopyFirst
  <1>7. ASSUME NEW c \in Clients, CopySecond(c) PROVE TypeOK'
    BY <1>7 DEF CopySecond
  <1>8. ASSUME NEW c \in Clients, Sum(c) PROVE TypeOK'
    <2>0. data[1] \in Ints /\ data[2] \in Ints
      OBVIOUS
    <2>1. data[1] + data[2] \in Int
      BY <2>0 DEF Ints
    <2>2. Wrap(data[1] + data[2]) \in Ints
      BY <2>1, WrapInts
    <2> QED
      BY <1>8, <2>2 DEF Sum
  <1>9. ASSUME NEW c \in Clients, Close(c) PROVE TypeOK'
    BY <1>9 DEF Close
  <1>10. CASE UNCHANGED vars
    BY <1>10 DEF vars
  <1> QED
    BY <1>1, <1>2, <1>3, <1>4, <1>5, <1>6, <1>7, <1>8, <1>9, <1>10 DEF Next, Step

(* Every behaviour is well typed, and no addition keeps its descriptor.    *)
THEOREM TypeCorrect == Spec => []TypeOK
  <1>1. Init => TypeOK
    <2>1. 0 \in Ints
      BY HalfAssumption DEF Ints
    <2> QED
      BY <2>1, MaxAddsAssumption DEF Init, TypeOK
  <1> QED
    BY <1>1, TypeStep, PTL DEF Spec

-----------------------------------------------------------------------------
(* One lemma per part of the invariant.  Only Down takes the semaphore and *)
(* only while it is free, so at most one client is in the critical section.*)
LEMMA ExclusiveStep ==
    ASSUME TypeOK, Exclusive, [Next]_vars
    PROVE  Exclusive'
  <1> USE NoClientAssumption DEF TypeOK, Exclusive, history, Goto
  <1>1. ASSUME NEW c \in Clients, NEW p \in Pairs, Add(c, p) PROVE Exclusive'
    BY <1>1 DEF Add
  <1>2. ASSUME NEW c \in Clients, Open(c) PROVE Exclusive'
    BY <1>2 DEF Open
  <1>3. ASSUME NEW c \in Clients, Write(c) PROVE Exclusive'
    BY <1>3 DEF Write, Down, BadFd, Fails
  <1>4. ASSUME NEW c \in Clients, Read(c) PROVE Exclusive'
    BY <1>4 DEF Read, Down, BadFd, Fails
  <1>5. ASSUME NEW c \in Clients, Signal(c) PROVE Exclusive'
    BY <1>5 DEF Signal, Interrupted, Fails
  <1>6. ASSUME NEW c \in Clients, CopyFirst(c) PROVE Exclusive'
    BY <1>6 DEF CopyFirst
  <1>7. ASSUME NEW c \in Clients, CopySecond(c) PROVE Exclusive'
    BY <1>7 DEF CopySecond
  <1>8. ASSUME NEW c \in Clients, Sum(c) PROVE Exclusive'
    BY <1>8 DEF Sum
  <1>9. ASSUME NEW c \in Clients, Close(c) PROVE Exclusive'
    BY <1>9 DEF Close
  <1>10. CASE UNCHANGED vars
    BY <1>10 DEF vars
  <1> QED
    BY <1>1, <1>2, <1>3, <1>4, <1>5, <1>6, <1>7, <1>8, <1>9, <1>10 DEF Next, Step

(* The two halves of a write are not mixed with another write.             *)
LEMMA DataWholeStep ==
    ASSUME TypeOK, Exclusive, DataWhole, [Next]_vars
    PROVE  DataWhole'
  <1> USE NoClientAssumption DEF TypeOK, Exclusive, DataWhole, Settled, history, Goto
  <1>1. ASSUME NEW c \in Clients, NEW p \in Pairs, Add(c, p) PROVE DataWhole'
    BY <1>1 DEF Add
  <1>2. ASSUME NEW c \in Clients, Open(c) PROVE DataWhole'
    BY <1>2 DEF Open
  <1>3. ASSUME NEW c \in Clients, Write(c) PROVE DataWhole'
    BY <1>3 DEF Write, Down, BadFd, Fails
  <1>4. ASSUME NEW c \in Clients, Read(c) PROVE DataWhole'
    BY <1>4 DEF Read, Down, BadFd, Fails
  <1>5. ASSUME NEW c \in Clients, Signal(c) PROVE DataWhole'
    BY <1>5 DEF Signal, Interrupted, Fails
  <1>6. ASSUME NEW c \in Clients, CopyFirst(c) PROVE DataWhole'
    BY <1>6 DEF CopyFirst
  <1>7. ASSUME NEW c \in Clients, CopySecond(c) PROVE DataWhole'
    <2>1. data' = in[c]
      <3>1. data \in Ints \X Ints /\ in[c] \in Ints \X Ints
        BY PairsAssumption
      <3>2. data' = [data EXCEPT ![2] = in[c][2]] /\ data[1] = in[c][1]
        BY <1>7 DEF CopySecond
      <3> QED
        BY <3>1, <3>2
    <2> QED
      BY <1>7, <2>1 DEF CopySecond
  <1>8. ASSUME NEW c \in Clients, Sum(c) PROVE DataWhole'
    BY <1>8 DEF Sum
  <1>9. ASSUME NEW c \in Clients, Close(c) PROVE DataWhole'
    BY <1>9 DEF Close
  <1>10. CASE UNCHANGED vars
    BY <1>10 DEF vars
  <1> QED
    BY <1>1, <1>2, <1>3, <1>4, <1>5, <1>6, <1>7, <1>8, <1>9, <1>10 DEF Next, Step

(* A read happens inside the critical section, outside any copy.           *)
LEMMA OutWholeStep ==
    ASSUME TypeOK, Exclusive, DataWhole, OutWhole, [Next]_vars
    PROVE  OutWhole'
  <1> USE NoClientAssumption DEF TypeOK, Exclusive, DataWhole, OutWhole, Settled, history, Goto
  <1>1. ASSUME NEW c \in Clients, NEW p \in Pairs, Add(c, p) PROVE OutWhole'
    BY <1>1 DEF Add
  <1>2. ASSUME NEW c \in Clients, Open(c) PROVE OutWhole'
    BY <1>2 DEF Open
  <1>3. ASSUME NEW c \in Clients, Write(c) PROVE OutWhole'
    BY <1>3 DEF Write, Down, BadFd, Fails
  <1>4. ASSUME NEW c \in Clients, Read(c) PROVE OutWhole'
    BY <1>4 DEF Read, Down, BadFd, Fails
  <1>5. ASSUME NEW c \in Clients, Signal(c) PROVE OutWhole'
    BY <1>5 DEF Signal, Interrupted, Fails
  <1>6. ASSUME NEW c \in Clients, CopyFirst(c) PROVE OutWhole'
    BY <1>6 DEF CopyFirst
  <1>7. ASSUME NEW c \in Clients, CopySecond(c) PROVE OutWhole'
    BY <1>7 DEF CopySecond
  <1>8. ASSUME NEW c \in Clients, Sum(c) PROVE OutWhole'
    BY <1>8 DEF Sum
  <1>9. ASSUME NEW c \in Clients, Close(c) PROVE OutWhole'
    BY <1>9 DEF Close
  <1>10. CASE UNCHANGED vars
    BY <1>10 DEF vars
  <1> QED
    BY <1>1, <1>2, <1>3, <1>4, <1>5, <1>6, <1>7, <1>8, <1>9, <1>10 DEF Next, Step

(* The driver never delivers the sum of a mixed pair: each sum read from   *)
(* the device belongs to one pair that was written as a whole.             *)
THEOREM SumsAreWhole == Spec => []NeverTorn
  <1> DEFINE Inv == TypeOK /\ Exclusive /\ DataWhole /\ OutWhole
  <1>1. Init => Inv
    <2>1. 0 \in Ints
      BY HalfAssumption DEF Ints
    <2> QED
      BY <2>1, MaxAddsAssumption
      DEF Init, TypeOK, Exclusive, DataWhole, Settled, OutWhole
  <1>2. Inv /\ [Next]_vars => Inv'
    BY TypeStep, ExclusiveStep, DataWholeStep, OutWholeStep
  <1>3. Inv => NeverTorn
    BY DEF OutWhole, NeverTorn, Added
  <1> QED
    BY <1>1, <1>2, <1>3, PTL DEF Spec

(* A client's pair stays in the device until it has read the sum or        *)
(* another write has disturbed it.                                         *)
LEMMA OwnPairStep ==
    ASSUME TypeOK, Exclusive, DataWhole, OwnPair, [Next]_vars
    PROVE  OwnPair'
  <1> USE NoClientAssumption DEF TypeOK, Exclusive, OwnPair, Undisturbed, Settled, history, Goto
  <1>1. ASSUME NEW c \in Clients, NEW p \in Pairs, Add(c, p) PROVE OwnPair'
    BY <1>1 DEF Add
  <1>2. ASSUME NEW c \in Clients, Open(c) PROVE OwnPair'
    BY <1>2 DEF Open
  <1>3. ASSUME NEW c \in Clients, Write(c) PROVE OwnPair'
    BY <1>3 DEF Write, Down, BadFd, Fails
  <1>4. ASSUME NEW c \in Clients, Read(c) PROVE OwnPair'
    BY <1>4 DEF Read, Down, BadFd, Fails
  <1>5. ASSUME NEW c \in Clients, Signal(c) PROVE OwnPair'
    BY <1>5 DEF Signal, Interrupted, Fails
  <1>6. ASSUME NEW c \in Clients, CopyFirst(c) PROVE OwnPair'
    BY <1>6 DEF CopyFirst
  <1>7. ASSUME NEW c \in Clients, CopySecond(c) PROVE OwnPair'
    <2>1. data' = in[c]
      <3>1. data \in Ints \X Ints /\ in[c] \in Ints \X Ints
        BY PairsAssumption
      <3>2. data' = [data EXCEPT ![2] = in[c][2]] /\ data[1] = in[c][1]
        BY <1>7 DEF CopySecond, DataWhole
      <3> QED
        BY <3>1, <3>2
    <2> QED
      BY <1>7, <2>1 DEF CopySecond
  <1>8. ASSUME NEW c \in Clients, Sum(c) PROVE OwnPair'
    BY <1>8 DEF Sum
  <1>9. ASSUME NEW c \in Clients, Close(c) PROVE OwnPair'
    BY <1>9 DEF Close
  <1>10. CASE UNCHANGED vars
    BY <1>10 DEF vars
  <1> QED
    BY <1>1, <1>2, <1>3, <1>4, <1>5, <1>6, <1>7, <1>8, <1>9, <1>10 DEF Next, Step

(* An addition whose system calls succeed and that no other write disturbs *)
(* returns a + b, wrapped to an int.                                       *)
THEOREM SerialSums == Spec => []SumUnlessDisturbed
  <1> DEFINE Inv == TypeOK /\ Exclusive /\ DataWhole /\ OwnPair
  <1>1. Init => Inv
    <2>1. 0 \in Ints
      BY HalfAssumption DEF Ints
    <2> QED
      BY <2>1, MaxAddsAssumption
      DEF Init, TypeOK, Exclusive, DataWhole, Settled, OwnPair
  <1>2. Inv /\ [Next]_vars => Inv'
    BY TypeStep, ExclusiveStep, DataWholeStep, OwnPairStep
  <1>3. Inv => SumUnlessDisturbed
    BY DEF OwnPair, Undisturbed, SumUnlessDisturbed, Added
  <1> QED
    BY <1>1, <1>2, <1>3, PTL DEF Spec
=============================================================================
