----------------------------- MODULE Nand_proofs -----------------------------
(***************************************************************************)
(* Proofs about what the service keeps in the NAND.  VendorSector, for every *)
(* set of callers and requests: the unlocked read-modify-write implements  *)
(* the atomic ResolutionRegister.  NandInfo, for every contents of the file, *)
(* offsets and width of a char: the fields are those stored, and gate the  *)
(* board.                                                                  *)
(***************************************************************************)
EXTENDS VendorSector, NandInfo, SequenceTheorems, NaturalsInduction,
        WellFoundedInduction, TLAPS

(* What a caller between two ioctls knows: its request is in range, the    *)
(* copy it is about to store says what its request says and carries the    *)
(* vendor's other bytes, and past the store it has stored.                 *)
InFlight ==
    \A t \in Callers :
        /\ pc[t] # "idle" => InRange(req[t])
        /\ pc[t] = "store" =>
              /\ sysData[t] \in Sector
              /\ sysData[t].rest = InitSector.rest
              /\ Effective(sysData[t]) = Chosen(req[t])
        /\ pc[t] = "reget" => t \in stored

IInv == TypeOK /\ InFlight /\ RestPreserved /\ TrueMeansStored

USE RequestsAssumption, InitSectorAssumption

-----------------------------------------------------------------------------
(* The local change: the copy keeps the other bytes, and the resolution it *)
(* would put into effect is the one asked for.                             *)
LEMMA ModifyLemma ==
    ASSUME NEW s \in Sector, NEW q \in Requests, InRange(q)
    PROVE  /\ Modify(s, q) \in Sector
           /\ Modify(s, q).rest = s.rest
           /\ Effective(Modify(s, q)) = Chosen(q)
<1>1. q.flag \in {0, 1} /\ q.xres \in Int /\ q.yres \in Int /\ q.refresh \in Int
  BY DEF InRange
<1>2. CASE q.flag = 1
  <2> DEFINE m == Modify(s, q)
  <2>1. /\ m \in Sector /\ m.rest = s.rest
        /\ m.flag = 172 /\ m.xres = q.xres /\ m.yres = q.yres
        /\ m.refresh = q.refresh
    BY <1>1, <1>2 DEF Modify, Sector, ENABLED_FLAG
  <2> HIDE DEF m
  <2>2. Effective(m) = Chosen(q)
    BY <2>1, <1>2 DEF Effective, Chosen, ENABLED_FLAG
  <2>3. QED
    BY <2>1, <2>2 DEF m
<1>3. CASE q.flag = 0
  BY <1>1, <1>3 DEF Modify, Sector, Effective, Chosen, ENABLED_FLAG
<1>4. QED
  BY <1>1, <1>2, <1>3

(* Before the first call of setDeviceResolution.                           *)
LEMMA InitInv == Init => IInv
  BY DEF Init, IInv, TypeOK, InFlight, RestPreserved, DescriptorsBalanced,
         TrueMeansStored

(* Every ioctl, and a crash, preserves the invariant.                      *)
LEMMA NextInv == IInv /\ [Next]_vars => IInv'
<1> SUFFICES ASSUME IInv, [Next]_vars PROVE IInv'
  OBVIOUS
<1> USE DEF IInv, TypeOK, InFlight, RestPreserved, DescriptorsBalanced,
            TrueMeansStored, Return, Goto, Fail
<1>1. ASSUME NEW t \in Callers, NEW q \in Requests, Call(t, q)
      PROVE  IInv'
  <2>1. CASE InRange(q)
    BY <1>1, <2>1 DEF Call
  <2>2. CASE ~InRange(q)
    BY <1>1, <2>2 DEF Call
  <2>3. QED
    BY <2>1, <2>2
<1>2. ASSUME NEW t \in Callers, Open(t)
      PROVE  IInv'
  BY <1>2 DEF Open
<1>3. ASSUME NEW t \in Callers, GetSector(t)
      PROVE  IInv'
  <2>1. /\ Modify(sector, req[t]) \in Sector
        /\ Modify(sector, req[t]).rest = sector.rest
        /\ Effective(Modify(sector, req[t])) = Chosen(req[t])
    BY <1>3, ModifyLemma DEF GetSector
  <2>2. CASE pc' = [pc EXCEPT ![t] = "store"]
    <3>1. /\ sysData' = [sysData EXCEPT ![t] = Modify(sector, req[t])]
          /\ UNCHANGED <<req, sector, stored, ret, fds>>
      BY <1>3, <2>2 DEF GetSector
    <3>2. TypeOK' /\ RestPreserved' /\ TrueMeansStored'
      BY <1>3, <2>1, <2>2, <3>1 DEF GetSector
    <3>3. InFlight'
      BY <1>3, <2>1, <2>2, <3>1 DEF GetSector
    <3>4. QED
      BY <3>2, <3>3
  <2>3. CASE pc' = [pc EXCEPT ![t] = "idle"]
    BY <1>3, <2>3 DEF GetSector
  <2>4. QED
    BY <1>3, <2>2, <2>3 DEF GetSector
<1>4. ASSUME NEW t \in Callers, StoreSector(t)
      PROVE  IInv'
  <2>1. CASE pc' = [pc EXCEPT ![t] = "reget"]
    <3>1. /\ sector' = sysData[t] /\ stored' = stored \cup {t}
          /\ sysData[t] \in Sector /\ sysData[t].rest = InitSector.rest
          /\ UNCHANGED <<req, sysData, ret, fds>>
      BY <1>4, <2>1 DEF StoreSector
    <3>2. TypeOK' /\ RestPreserved' /\ TrueMeansStored'
      BY <1>4, <2>1, <3>1 DEF StoreSector
    <3>3. InFlight'
      BY <1>4, <2>1, <3>1 DEF StoreSector
    <3>4. QED
      BY <3>2, <3>3
  <2>2. CASE pc' = [pc EXCEPT ![t] = "idle"]
    BY <1>4, <2>2 DEF StoreSector
  <2>3. QED
    BY <1>4, <2>1, <2>2 DEF StoreSector
<1>5. ASSUME NEW t \in Callers, RegetSector(t)
      PROVE  IInv'
  <2>1. CASE ret' = [ret EXCEPT ![t] = "true"]
    <3>1. /\ pc' = [pc EXCEPT ![t] = "idle"] /\ fds' = fds \ {t} /\ t \in stored
          /\ sysData' \in [Callers -> Sector \cup {Garbage}]
          /\ \A u \in Callers \ {t} : sysData'[u] = sysData[u]
          /\ UNCHANGED <<req, sector, stored>>
      BY <1>5, <2>1 DEF RegetSector
    <3>2. TypeOK' /\ RestPreserved' /\ TrueMeansStored'
      BY <2>1, <3>1
    <3>3. InFlight'
      BY <2>1, <3>1
    <3>4. QED
      BY <3>2, <3>3
  <2>2. CASE ret' = [ret EXCEPT ![t] = "false"]
    BY <1>5, <2>2 DEF RegetSector
  <2>3. QED
    BY <1>5, <2>1, <2>2 DEF RegetSector
<1>6. CASE Crash
  BY <1>6 DEF Crash
<1>7. CASE UNCHANGED vars
  BY <1>7 DEF vars
<1>8. QED
  BY <1>1, <1>2, <1>3, <1>4, <1>5, <1>6, <1>7 DEF Next, Step

(* The inductive invariant holds throughout setDeviceResolution.           *)
LEMMA InvHolds == Spec => []IInv
<1>1. QED
  BY InitInv, NextInv, PTL DEF Spec

-----------------------------------------------------------------------------
(* Calls, copies, the sector and the descriptors keep their types.         *)
THEOREM TypeCorrect == Spec => []TypeOK
<1>1. IInv => TypeOK
  BY DEF IInv
<1>2. QED
  BY <1>1, InvHolds, PTL

(* Every path out of setDeviceResolution has closed its descriptor.        *)
THEOREM DescriptorsClosed == Spec => []DescriptorsBalanced
<1>1. IInv => DescriptorsBalanced
  BY DEF IInv, TypeOK
<1>2. QED
  BY <1>1, InvHolds, PTL

(* setDeviceResolution never changes the vendor's other bytes.             *)
THEOREM RestSurvives == Spec => []RestPreserved
<1>1. IInv => RestPreserved
  BY DEF IInv
<1>2. QED
  BY <1>1, InvHolds, PTL

(* It returns true only after a store.                                     *)
THEOREM SectorSafe == Spec => []TrueMeansStored
<1>1. IInv => TrueMeansStored
  BY DEF IInv
<1>2. QED
  BY <1>1, InvHolds, PTL

-----------------------------------------------------------------------------
(* The code starts where the register starts.                              *)
LEMMA RefineInit == Init => Register!RegInit
  BY DEF Init, Register!RegInit, Pending

(* One step of the code is one step of the register, or none.              *)
LEMMA RefineNext == IInv /\ [Next]_vars => [Register!RegNext]_(Register!regVars)
<1> SUFFICES ASSUME IInv, [Next]_vars PROVE [Register!RegNext]_(Register!regVars)
  OBVIOUS
<1> DEFINE Ch == {Chosen(q) : q \in {r \in Requests : InRange(r)}}
<1> USE DEF IInv, TypeOK, Return, Goto, Fail
<1>0. ASSUME NEW T \in SUBSET Callers, UNCHANGED sector,
             Pending' = [t \in Callers |-> IF t \in T THEN {} ELSE Pending[t]]
      PROVE  Register!RegNext
  BY <1>0 DEF Register!RegNext, Register!GiveUp
<1>1. ASSUME NEW t \in Callers, NEW q \in Requests, Call(t, q)
      PROVE  [Register!RegNext]_(Register!regVars)
  <2>1. CASE InRange(q)
    <3>1. /\ Pending[t] = {} /\ UNCHANGED sector
          /\ Pending' = [Pending EXCEPT ![t] = {Chosen(q)}]
      BY <1>1, <2>1 DEF Call, Pending
    <3>2. Register!Request(t, Chosen(q))
      BY <3>1 DEF Register!Request
    <3>3. Chosen(q) \in Ch
      BY <2>1
    <3>4. QED
      BY <3>2, <3>3 DEF Register!RegNext
  <2>2. CASE ~InRange(q)
    <3>1. Pending' = Pending /\ UNCHANGED sector
      BY <1>1, <2>2 DEF Call, Pending
    <3>2. QED
      BY <3>1 DEF Register!regVars
  <2>3. QED
    BY <2>1, <2>2
<1>2. ASSUME NEW t \in Callers, Open(t) \/ GetSector(t)
      PROVE  [Register!RegNext]_(Register!regVars)
  <2>1. CASE pc'[t] # "idle"
    <3>1. Pending' = Pending /\ UNCHANGED sector
      BY <1>2, <2>1 DEF Open, GetSector, Pending
    <3>2. QED
      BY <3>1 DEF Register!regVars
  <2>2. CASE pc'[t] = "idle"
    <3>1. /\ {t} \in SUBSET Callers
          /\ Pending' = [u \in Callers |-> IF u \in {t} THEN {} ELSE Pending[u]]
          /\ UNCHANGED sector
      BY <1>2, <2>2 DEF Open, GetSector, Pending
    <3>2. QED
      BY <3>1, <1>0
  <2>3. QED
    BY <2>1, <2>2
<1>3. ASSUME NEW t \in Callers, StoreSector(t)
      PROVE  [Register!RegNext]_(Register!regVars)
  <2>1. CASE pc'[t] = "idle"
    <3>1. /\ {t} \in SUBSET Callers
          /\ Pending' = [u \in Callers |-> IF u \in {t} THEN {} ELSE Pending[u]]
          /\ UNCHANGED sector
      BY <1>3, <2>1 DEF StoreSector, Pending
    <3>2. QED
      BY <3>1, <1>0
  <2>2. CASE pc'[t] # "idle"
    <3>1. /\ Chosen(req[t]) \in Pending[t]
          /\ Effective(sector)' = Chosen(req[t])
          /\ Pending' = [Pending EXCEPT ![t] = {}]
      BY <1>3, <2>2 DEF StoreSector, Pending, InFlight, Effective
    <3>2. Register!Set(t, Chosen(req[t]))
      BY <3>1 DEF Register!Set
    <3>3. Chosen(req[t]) \in Ch
      BY <1>3 DEF StoreSector, InFlight
    <3>4. QED
      BY <3>2, <3>3 DEF Register!RegNext
  <2>3. QED
    BY <2>1, <2>2
<1>4. ASSUME NEW t \in Callers, RegetSector(t)
      PROVE  [Register!RegNext]_(Register!regVars)
  <2>1. Pending' = Pending /\ UNCHANGED sector
    BY <1>4 DEF RegetSector, Pending
  <2>2. QED
    BY <2>1 DEF Register!regVars
<1>5. CASE Crash
  <2>1. /\ Pending' = [u \in Callers |-> IF u \in Callers THEN {} ELSE Pending[u]]
        /\ UNCHANGED sector
    BY <1>5 DEF Crash, Pending
  <2>2. QED
    BY <2>1, <1>0
<1>6. CASE UNCHANGED vars
  BY <1>6 DEF vars, Register!regVars, Pending
<1>7. QED
  BY <1>1, <1>2, <1>3, <1>4, <1>5, <1>6 DEF Next, Step

(* Every interleaving of setDeviceResolution calls, failures and crashes   *)
(* is a behaviour of the atomic register.                                  *)
THEOREM ImplementsRegister == Spec => BehavesAtomically
<1>1. QED
  BY RefineInit, RefineNext, InvHolds, PTL DEF Spec, BehavesAtomically, Register!RegSpec

-----------------------------------------------------------------------------
(* The identity of the device: strings                                     *)

Chars == 0 .. BYTE - 1

LEMMA LeastNat ==
    ASSUME NEW T, T \subseteq Nat, T # {}
    PROVE  \E x \in T : \A y \in T : ~(y < x)
<1>1. IsWellFoundedOn(OpToRel(<, Nat), Nat)
  BY NatLessThanWellFounded
<1>2. PICK x \in T : \A y \in T : ~(<<y, x>> \in OpToRel(<, Nat))
  BY <1>1, WFMin
<1>3. QED
  BY <1>2 DEF OpToRel

(* The first NUL of a buffer ends its string.                              *)
LEMMA CStringEnds ==
    ASSUME NEW buf, NEW n \in Nat, DOMAIN buf = 1 .. n, NEW e \in 1 .. n,
           buf[e] = 0, \A j \in 1 .. e - 1 : buf[j] # 0
    PROVE  CString(buf) = SubSeq(buf, 1, e - 1)
<1> DEFINE First(i) == buf[i] = 0 /\ \A j \in 1 .. i - 1 : buf[j] # 0
<1>1. ASSUME NEW i \in DOMAIN buf, First(i) PROVE i = e
  <2>1. i < e => FALSE
    BY <1>1
  <2>2. e < i => FALSE
    BY <1>1
  <2>3. QED
    BY <1>1, <2>1, <2>2
<1>2. First(e) /\ e \in DOMAIN buf
  OBVIOUS
<1>3. e = CHOOSE i \in DOMAIN buf : First(i)
  <2> HIDE DEF First
  <2>1. QED
    BY <1>1, <1>2
<1>4. QED
  BY <1>3 DEF CString

LEMMA UntilNulEnds ==
    ASSUME NEW s \in Seq(Chars), NEW e \in 1 .. Len(s),
           s[e] = 0, \A j \in 1 .. e - 1 : s[j] # 0
    PROVE  UntilNul(s) = SubSeq(s, 1, e - 1)
<1> DEFINE First(i) == s[i] = 0 /\ \A j \in 1 .. i - 1 : s[j] # 0
<1>1. DOMAIN s = 1 .. Len(s) /\ Len(s) \in Nat
  BY LenProperties
<1>2. ASSUME NEW i \in DOMAIN s, First(i) PROVE i = e
  <2>1. i < e => FALSE
    BY <1>1, <1>2
  <2>2. e < i => FALSE
    BY <1>1, <1>2
  <2>3. QED
    BY <1>1, <1>2, <2>1, <2>2
<1>3. First(e) /\ e \in DOMAIN s
  BY <1>1
<1>4. e = CHOOSE i \in DOMAIN s : First(i)
  <2> HIDE DEF First
  <2>1. QED
    BY <1>2, <1>3
<1>5. QED
  BY <1>3, <1>4 DEF UntilNul

(* A buffer that holds s and then a NUL reads as s up to its first NUL.    *)
LEMMA CStringIs ==
    ASSUME NEW s \in Seq(Chars), NEW buf, NEW n \in Nat, DOMAIN buf = 1 .. n,
           Len(s) + 1 <= n, buf[Len(s) + 1] = 0,
           \A i \in 1 .. Len(s) : buf[i] = s[i]
    PROVE  CString(buf) = UntilNul(s)
<1>1. Len(s) \in Nat /\ DOMAIN s = 1 .. Len(s) /\ s \in [1 .. Len(s) -> Chars]
  BY LenProperties
<1>2. ASSUME NEW e \in 1 .. Len(s) + 1
      PROVE  /\ SubSeq(buf, 1, e - 1) \in Seq(Chars)
             /\ SubSeq(s, 1, e - 1) = SubSeq(buf, 1, e - 1)
             /\ e = Len(s) + 1 => s = SubSeq(buf, 1, e - 1)
  <2>1. /\ e - 1 \in Int /\ 1 \in Int
        /\ \A i \in 1 .. e - 1 : buf[i] \in Chars /\ s[i] \in Chars /\ s[i] = buf[i]
    BY <1>1
  <2> DEFINE b == SubSeq(buf, 1, e - 1)
             t == SubSeq(s, 1, e - 1)
  <2>2. /\ b \in Seq(Chars) /\ Len(b) = IF 1 <= e - 1 THEN e - 1 - 1 + 1 ELSE 0
        /\ \A i \in 1 .. e - 1 - 1 + 1 : b[i] = buf[1 + i - 1]
    BY <2>1, SubSeqProperties
  <2>3. /\ t \in Seq(Chars) /\ Len(t) = IF 1 <= e - 1 THEN e - 1 - 1 + 1 ELSE 0
        /\ \A i \in 1 .. e - 1 - 1 + 1 : t[i] = s[1 + i - 1]
    BY <2>1, SubSeqProperties
  <2> HIDE DEF b, t
  <2>4. /\ Len(b) = e - 1 /\ Len(t) = e - 1
        /\ \A i \in 1 .. e - 1 : b[i] = s[i] /\ t[i] = s[i]
    BY <1>1, <2>1, <2>2, <2>3
  <2>5. t = b
    <3>1. Len(t) = Len(b) /\ \A i \in 1 .. Len(t) : t[i] = b[i]
      BY <2>4
    <3>2. QED
      BY <2>2, <2>3, <3>1, SeqEqual
  <2>6. e = Len(s) + 1 => s = b
    <3> SUFFICES ASSUME e = Len(s) + 1 PROVE s = b
      OBVIOUS
    <3>1. Len(s) = Len(b) /\ \A i \in 1 .. Len(s) : s[i] = b[i]
      BY <1>1, <2>4
    <3>2. QED
      BY <2>2, <3>1, SeqEqual
  <2>7. QED
    BY <2>2, <2>5, <2>6 DEF b, t
<1>3. CASE \E i \in 1 .. Len(s) : s[i] = 0
  <2> DEFINE Z == {i \in 1 .. Len(s) : s[i] = 0}
  <2>1. Z \subseteq Nat /\ Z # {}
    BY <1>1, <1>3
  <2>2. PICK e \in Z : \A y \in Z : ~(y < e)
    BY <2>1, LeastNat
  <2>3. e \in 1 .. Len(s) /\ s[e] = 0 /\ \A j \in 1 .. e - 1 : s[j] # 0
    BY <1>1, <2>2
  <2>4. UntilNul(s) = SubSeq(s, 1, e - 1)
    BY <2>3, UntilNulEnds
  <2>5. e \in 1 .. n /\ buf[e] = 0 /\ \A j \in 1 .. e - 1 : buf[j] # 0
    BY <1>1, <2>3
  <2>6. CString(buf) = SubSeq(buf, 1, e - 1)
    BY <2>5, CStringEnds
  <2>7. QED
    BY <1>1, <1>2, <2>3, <2>4, <2>6
<1>4. CASE \A i \in 1 .. Len(s) : s[i] # 0
  <2>1. UntilNul(s) = s
    BY <1>1, <1>4 DEF UntilNul
  <2> DEFINE e == Len(s) + 1
  <2>2. e \in 1 .. n /\ buf[e] = 0 /\ \A j \in 1 .. e - 1 : buf[j] # 0
    BY <1>1, <1>4
  <2>3. e \in 1 .. Len(s) + 1
    BY <1>1
  <2> HIDE DEF e
  <2>4. CString(buf) = SubSeq(buf, 1, e - 1)
    BY <2>2, CStringEnds
  <2>5. QED
    BY <1>2, <2>1, <2>3, <2>4 DEF e
<1>5. QED
  BY <1>3, <1>4

-----------------------------------------------------------------------------
(* The identity of the device: one read                                    *)

(* fread: the bytes asked for, when there are that many.                   *)
LEMMA BytesRead ==
    ASSUME nand \in Nands, NEW off \in Nat, NEW len \in Nat,
           Len(Bytes(off, len)) = len
    PROVE  /\ len > 0 => off + len <= Len(nand)
           /\ \A i \in 1 .. len : Bytes(off, len)[i] = nand[off + i]
           /\ \A i \in 1 .. len : nand[off + i] \in Chars
<1>1. nand \in Seq(Chars)
  BY NandsAssumption DEF Chars
<1>2. Len(nand) \in Nat /\ nand \in [1 .. Len(nand) -> Chars]
  BY <1>1, LenProperties
<1> DEFINE end == IF off + len <= Len(nand) THEN off + len ELSE Len(nand)
<1>3. end \in Int /\ end <= Len(nand) /\ end <= off + len /\ off + 1 \in Int
  BY <1>2
<1>4. \A i \in off + 1 .. end : nand[i] \in Chars
  BY <1>2
<1>5. Bytes(off, len) = SubSeq(nand, off + 1, end)
  BY DEF Bytes
<1> HIDE DEF end
<1>6. /\ Len(SubSeq(nand, off + 1, end))
           = IF off + 1 <= end THEN end - (off + 1) + 1 ELSE 0
      /\ \A i \in 1 .. end - (off + 1) + 1 :
            SubSeq(nand, off + 1, end)[i] = nand[off + 1 + i - 1]
  BY <1>3, <1>4, SubSeqProperties
<1>7. len = 0 \/ end = off + len
  BY <1>3, <1>5, <1>6
<1>8. ASSUME NEW i \in 1 .. len
      PROVE  Bytes(off, len)[i] = nand[off + i] /\ nand[off + i] \in Chars
  <2>1. end = off + len
    BY <1>7
  <2>2. i \in 1 .. end - (off + 1) + 1 /\ off + i \in off + 1 .. end
        /\ off + 1 + i - 1 = off + i
    BY <2>1
  <2>3. QED
    BY <1>4, <1>5, <1>6, <2>2
<1>9. QED
  BY <1>3, <1>7, <1>8

(* A field is the string stored in the file: it is read over its length    *)
(* into a buffer without bytes of another field.                           *)
LEMMA StringRead ==
    ASSUME nand \in Nands, res = Zeroed, NEW off \in Nat,
           NEW h \in {1, 2}, h = 2 => nand[off + 1] # 1 \/ nand[off + 2] = 0,
           ReadNand(off, h, TRUE).ok
    PROVE  CString(ReadNand(off, h, TRUE).buf) = StoredString(off, h)
<1> DEFINE head == Bytes(off, h)
           res1 == Overwrite(res, head)
           L    == nand[off + 1]
           body == Bytes(off + h, L)
           buf  == Overwrite(res1, body)
<1>1. BYTE \in Nat /\ SizeOfRes \in Nat /\ SizeOfRes >= BYTE /\ SizeOfRes >= 4
  BY WordsAssumption, SizeAssumption DEF PRODUCT_ID_LEN
<1>2. Len(head) = h /\ h \in Nat
  BY DEF ReadNand
<1>3. \A i \in 1 .. h : head[i] = nand[off + i] /\ nand[off + i] \in Chars
  BY <1>2, BytesRead
<1>4. /\ 1 \in 1 .. h /\ L \in Chars /\ head[1] = L
      /\ h = 2 /\ L = 1 => head[2] = 0
  BY <1>2, <1>3
<1>5. /\ DOMAIN res1 = 1 .. SizeOfRes
      /\ \A i \in 1 .. SizeOfRes : res1[i] = IF i <= h THEN head[i] ELSE 0
  <2> HIDE DEF head
  <2>1. QED
    BY <1>2 DEF Overwrite, Zeroed
<1>6. res1[1] = L
  BY <1>1, <1>3, <1>4, <1>5
<1>7. /\ Len(Bytes(off + h, res1[1])) = res1[1]
      /\ ReadNand(off, h, TRUE).buf = Overwrite(res1, Bytes(off + h, res1[1]))
  BY <1>2 DEF ReadNand
<1>8. Len(body) = L /\ ReadNand(off, h, TRUE).buf = buf
  BY <1>6, <1>7
<1>9. L \in Nat /\ L < BYTE /\ off + h \in Nat
  BY <1>1, <1>2, <1>4 DEF Chars
<1>10. \A i \in 1 .. L : body[i] = nand[off + h + i] /\ nand[off + h + i] \in Chars
  <2> HIDE DEF L
  <2>1. QED
    BY <1>8, <1>9, BytesRead
<1> DEFINE s == SubSeq(nand, off + h + 1, off + h + L)
<1>11. s \in Seq(Chars) /\ Len(s) = L /\ \A i \in 1 .. L : s[i] = nand[off + h + i]
  <2> HIDE DEF L
  <2>1. \A i \in off + h + 1 .. off + h + L : nand[i] \in Chars
    <3> SUFFICES ASSUME NEW i \in off + h + 1 .. off + h + L PROVE nand[i] \in Chars
      OBVIOUS
    <3>1. i - (off + h) \in 1 .. L /\ off + h + (i - (off + h)) = i
      BY <1>9
    <3>2. QED
      BY <1>10, <3>1
  <2> DEFINE m == off + h + 1
             n == off + h + L
  <2>2. m \in Int /\ n \in Int /\ n - m + 1 = L
    BY <1>9
  <2>3. \A i \in 1 .. L : m + i - 1 = off + h + i
    BY <1>9
  <2>4. (IF m <= n THEN L ELSE 0) = L
    BY <1>9
  <2> HIDE DEF m, n
  <2>5. /\ SubSeq(nand, m, n) \in Seq(Chars)
        /\ Len(SubSeq(nand, m, n)) = IF m <= n THEN n - m + 1 ELSE 0
        /\ \A i \in 1 .. n - m + 1 : SubSeq(nand, m, n)[i] = nand[m + i - 1]
    BY <2>1, <2>2, SubSeqProperties DEF m, n
  <2>6. QED
    BY <2>2, <2>3, <2>4, <2>5 DEF m, n
<1>12. /\ DOMAIN buf = 1 .. SizeOfRes
       /\ \A i \in 1 .. SizeOfRes : buf[i] = IF i <= L THEN body[i] ELSE res1[i]
  <2> HIDE DEF body, res1, L
  <2>1. QED
    BY <1>5, <1>8 DEF Overwrite
<1>13. L + 1 <= SizeOfRes /\ buf[L + 1] = 0
  <2> HIDE DEF L, head, body, res1, buf
  <2>1. L + 1 \in 1 .. SizeOfRes /\ ~(L + 1 <= L)
    BY <1>1, <1>9
  <2>2. buf[L + 1] = IF L + 1 <= h THEN head[L + 1] ELSE 0
    BY <1>5, <1>12, <2>1
  <2>3. CASE L = 0
    BY <1>4, <2>1, <2>2, <2>3
  <2>4. CASE L = 1 /\ h = 2
    BY <1>4, <2>1, <2>2, <2>4
  <2>5. CASE ~(L + 1 <= h)
    BY <2>1, <2>2, <2>5
  <2>6. QED
    BY <1>9, <2>1, <2>3, <2>4, <2>5
<1>14. \A i \in 1 .. L : buf[i] = s[i]
  <2> HIDE DEF L, body, buf, s
  <2>1. \A i \in 1 .. L : i \in 1 .. SizeOfRes
    BY <1>1, <1>9
  <2>2. QED
    BY <1>10, <1>11, <1>12, <2>1
<1> HIDE DEF s, buf, L
<1>15. CString(buf) = UntilNul(s)
  BY <1>1, <1>11, <1>12, <1>13, <1>14, CStringIs
<1>16. QED
  BY <1>8, <1>15 DEF StoredString, s, L

(* The id, most significant byte first.                                    *)
LEMMA IdRead ==
    ASSUME nand \in Nands, res = Zeroed,
           ReadNand(PRODUCT_ID_OFF, PRODUCT_ID_LEN, FALSE).ok
    PROVE  LET id == ProductId(ReadNand(PRODUCT_ID_OFF, PRODUCT_ID_LEN, FALSE).buf)
           IN  id \in Nat /\ (LONG = INT => id = StoredId)
<1> DEFINE head == Bytes(PRODUCT_ID_OFF, PRODUCT_ID_LEN)
           buf  == ReadNand(PRODUCT_ID_OFF, PRODUCT_ID_LEN, FALSE).buf
<1>1. /\ BYTE \in Nat \ {0} /\ SizeOfRes \in Nat /\ SizeOfRes >= 4
      /\ PRODUCT_ID_OFF \in Nat /\ PRODUCT_ID_LEN = 4
      /\ LONG \in {INT, INT * INT}
  BY WordsAssumption, SizeAssumption, OffsetsAssumption DEF PRODUCT_ID_LEN
<1>2. Len(head) = PRODUCT_ID_LEN /\ buf = Overwrite(res, head)
  BY DEF ReadNand
<1>3. \A i \in 1 .. 4 : head[i] = nand[PRODUCT_ID_OFF + i] /\ nand[PRODUCT_ID_OFF + i] \in Chars
  BY <1>1, <1>2, BytesRead, ZenonT(30)
<1>4. \A i \in 1 .. 4 : buf[i] = nand[PRODUCT_ID_OFF + i]
  <2> HIDE DEF head, buf
  <2>1. \A i \in 1 .. 4 : i \in DOMAIN res /\ i <= Len(head)
    BY <1>1, <1>2 DEF Zeroed
  <2>2. QED
    BY <1>2, <1>3, <2>1 DEF Overwrite
<1> DEFINE b1 == buf[1]
           b2 == buf[2]
           b3 == buf[3]
           b4 == buf[4]
           n  == b1 * (BYTE * BYTE * BYTE) + b2 * (BYTE * BYTE) + b3 * BYTE + b4
<1>5. /\ b1 = nand[PRODUCT_ID_OFF + 1] /\ b2 = nand[PRODUCT_ID_OFF + 2]
      /\ b3 = nand[PRODUCT_ID_OFF + 3] /\ b4 = nand[PRODUCT_ID_OFF + 4]
      /\ b1 \in Chars /\ b2 \in Chars /\ b3 \in Chars /\ b4 \in Chars
  <2> HIDE DEF head, buf
  <2>1. QED
    BY <1>3, <1>4
<1>6. StoredId = ((b1 * BYTE + b2) * BYTE + b3) * BYTE + b4
  <2> HIDE DEF b1, b2, b3, b4
  <2>1. QED
    BY <1>5 DEF StoredId
<1>7. ProductId(buf) = IF 2 * n < INT THEN n ELSE n + (LONG - INT)
  BY DEF ProductId
<1> HIDE DEF b1, b2, b3, b4, buf
<1>8. n \in Nat /\ n = ((b1 * BYTE + b2) * BYTE + b3) * BYTE + b4
  <2>1. BYTE * BYTE \in Nat /\ BYTE * BYTE * BYTE \in Nat
    BY <1>1
  <2>2. b1 * (BYTE * BYTE * BYTE) \in Nat /\ b2 * (BYTE * BYTE) \in Nat /\ b3 * BYTE \in Nat
    BY <1>1, <1>5, <2>1 DEF Chars
  <2>3. n \in Nat
    BY <1>5, <2>2 DEF Chars
  <2>4. n = ((b1 * BYTE + b2) * BYTE + b3) * BYTE + b4
    <3>1. ASSUME NEW x \in Int, NEW y \in Int, NEW z \in Int
          PROVE  (x + y) * z = x * z + y * z /\ (x * y) * z = x * (y * z)
      OBVIOUS
    <3>2. /\ b1 \in Int /\ b2 \in Int /\ b3 \in Int /\ b4 \in Int /\ BYTE \in Int
          /\ BYTE * BYTE \in Int
      BY <1>1, <1>5 DEF Chars
    <3>3. (b1 * BYTE + b2) * BYTE = b1 * (BYTE * BYTE) + b2 * BYTE
      <4>1. b1 * BYTE \in Int
        BY <3>2
      <4>2. QED
        BY <3>1, <3>2, <4>1
    <3>4. (b1 * (BYTE * BYTE) + b2 * BYTE + b3) * BYTE
             = b1 * (BYTE * BYTE * BYTE) + b2 * (BYTE * BYTE) + b3 * BYTE
      <4>1. b1 * (BYTE * BYTE) \in Int /\ b2 * BYTE \in Int
        BY <3>2
      <4>2. (b1 * (BYTE * BYTE) + b2 * BYTE + b3) * BYTE
               = (b1 * (BYTE * BYTE)) * BYTE + (b2 * BYTE) * BYTE + b3 * BYTE
        BY <3>1, <3>2, <4>1
      <4>3. (b1 * (BYTE * BYTE)) * BYTE = b1 * (BYTE * BYTE * BYTE)
        BY <3>1, <3>2
      <4>4. (b2 * BYTE) * BYTE = b2 * (BYTE * BYTE)
        BY <3>1, <3>2
      <4>5. QED
        BY <4>2, <4>3, <4>4
    <3>5. QED
      BY <3>3, <3>4
  <2>5. QED
    BY <2>3, <2>4
<1>9. INT \in Nat /\ LONG - INT \in Nat
  <2>1. INT \in Nat \ {0}
    BY <1>1 DEF INT
  <2>2. INT * INT - INT \in Nat
    BY <2>1
  <2>3. QED
    BY <1>1, <2>1, <2>2
<1> HIDE DEF n
<1>10. ProductId(buf) \in Nat /\ (LONG = INT => ProductId(buf) = n)
  BY <1>7, <1>8, <1>9
<1>11. QED
  BY <1>6, <1>8, <1>10 DEF buf

-----------------------------------------------------------------------------
(* The identity of the device: the constructor and the calls               *)

SerialStored ==
    nand[1] # 1 \/ nand[2] = 0 => mSerialNum = StoredString(0, SERIAL_NUMBER_LEN)

(* The fields read so far are those of the file, and the buffer is clean   *)
(* for the next one; a reading that has failed leaves a prefix of them.    *)
NandInv ==
    /\ nand \in Nands
    /\ step # "ready" => res = Zeroed /\ mInit = "no"
    /\ step \in {"type", "hw", "id"} \/ mInit = "yes" => SerialStored
    /\ mProductType \in {Empty, StoredString(PRODUCT_TYPE_OFF, 1)}
    /\ step \in {"hw", "id"} \/ mInit = "yes" =>
          mProductType = StoredString(PRODUCT_TYPE_OFF, 1)
    /\ step = "id" \/ mInit = "yes" =>
          mHardwareVersion = StoredString(HARDWARE_VERSION_OFF, 1)
    /\ mInit = "yes" => mProductId \in Nat /\ (LONG = INT => mProductId = StoredId)

LEMMA NandInitInv ==
    ASSUME InfoInit
    PROVE  NandInv
  BY DEF InfoInit, NandInv

LEMMA FOpenInv ==
    ASSUME NandInv, FOpen
    PROVE  NandInv'
  BY DEF NandInv, FOpen, fields, SerialStored, StoredString, StoredId

LEMMA GiveUpInv ==
    ASSUME NandInv, step # "ready", GiveUp, UNCHANGED nand
    PROVE  NandInv'
  BY DEF NandInv, GiveUp, fields, SerialStored, StoredString, StoredId

LEMMA ReadSerialInv ==
    ASSUME NandInv, ReadSerial
    PROVE  NandInv'
<1>1. CASE GiveUp
  BY <1>1, GiveUpInv DEF ReadSerial
<1> DEFINE r == ReadNand(0, SERIAL_NUMBER_LEN, TRUE)
<1>2. CASE r.ok /\ Saved(r.buf, "type")
           /\ mSerialNum' = CString(r.buf)
           /\ UNCHANGED <<mProductType, mHardwareVersion, mProductId>>
  <2>1. step = "serial" /\ res = Zeroed /\ mInit = "no" /\ nand' = nand
    BY DEF ReadSerial, NandInv
  <2>2. SerialStored'
    <3>1. ASSUME nand[1] # 1 \/ nand[2] = 0
          PROVE  CString(r.buf) = StoredString(0, SERIAL_NUMBER_LEN)
      <4>1. nand \in Nands /\ SERIAL_NUMBER_LEN = 2
        BY DEF NandInv, SERIAL_NUMBER_LEN
      <4>2. ReadNand(0, SERIAL_NUMBER_LEN, TRUE).ok
        BY <1>2
      <4>3. nand[0 + 1] # 1 \/ nand[0 + 2] = 0
        BY <3>1
      <4>4. CString(ReadNand(0, 2, TRUE).buf) = StoredString(0, 2)
        BY <2>1, <4>1, <4>2, <4>3, StringRead
      <4>5. QED
        BY <4>1, <4>4
    <3>2. QED
      BY <1>2, <2>1, <3>1 DEF SerialStored, StoredString, UntilNul
  <2>3. step' = "type" /\ res' = Zeroed /\ mInit' = "no" /\ mProductType' = mProductType
        /\ Zeroed' = Zeroed
    BY <1>2, <2>1 DEF Saved, Zeroed
  <2> HIDE DEF r
  <2>4. QED
    BY <2>1, <2>2, <2>3 DEF NandInv, StoredString
<1>3. QED
  BY <1>1, <1>2 DEF ReadSerial

LEMMA ReadTypeInv ==
    ASSUME NandInv, ReadType
    PROVE  NandInv'
<1>1. CASE GiveUp
  BY <1>1, GiveUpInv DEF ReadType
<1> DEFINE r == ReadNand(PRODUCT_TYPE_OFF, 1, TRUE)
<1>2. CASE r.ok /\ Saved(r.buf, "hw")
           /\ mProductType' = CString(r.buf)
           /\ UNCHANGED <<mSerialNum, mHardwareVersion, mProductId>>
  <2>1. step = "type" /\ res = Zeroed /\ mInit = "no" /\ nand' = nand
    BY DEF ReadType, NandInv
  <2>2. CString(r.buf) = StoredString(PRODUCT_TYPE_OFF, 1)
    <3>1. nand \in Nands /\ PRODUCT_TYPE_OFF \in Nat
      BY OffsetsAssumption DEF NandInv
    <3>2. ReadNand(PRODUCT_TYPE_OFF, 1, TRUE).ok
      BY <1>2
    <3>3. 1 \in {1, 2} /\ 1 # 2
      OBVIOUS
    <3>4. QED
      BY <2>1, <3>1, <3>2, <3>3, StringRead
  <2>3. mProductType' = StoredString(PRODUCT_TYPE_OFF, 1)'
    BY <1>2, <2>1, <2>2 DEF StoredString
  <2>4. step' = "hw" /\ res' = Zeroed /\ mInit' = "no" /\ mSerialNum' = mSerialNum
        /\ Zeroed' = Zeroed
    BY <1>2, <2>1 DEF Saved, Zeroed
  <2> HIDE DEF r
  <2>5. QED
    BY <2>1, <2>3, <2>4 DEF NandInv, SerialStored, StoredString
<1>3. QED
  BY <1>1, <1>2 DEF ReadType

LEMMA ReadHardwareInv ==
    ASSUME NandInv, ReadHardware
    PROVE  NandInv'
<1>1. CASE GiveUp
  BY <1>1, GiveUpInv DEF ReadHardware
<1> DEFINE r == ReadNand(HARDWARE_VERSION_OFF, 1, TRUE)
<1>2. CASE r.ok /\ Saved(r.buf, "id")
           /\ mHardwareVersion' = CString(r.buf)
           /\ UNCHANGED <<mSerialNum, mProductType, mProductId>>
  <2>1. step = "hw" /\ res = Zeroed /\ mInit = "no" /\ nand' = nand
    BY DEF ReadHardware, NandInv
  <2>2. CString(r.buf) = StoredString(HARDWARE_VERSION_OFF, 1)
    <3>1. nand \in Nands /\ HARDWARE_VERSION_OFF \in Nat
      BY OffsetsAssumption DEF NandInv
    <3>2. ReadNand(HARDWARE_VERSION_OFF, 1, TRUE).ok
      BY <1>2
    <3>3. 1 \in {1, 2} /\ 1 # 2
      OBVIOUS
    <3>4. QED
      BY <2>1, <3>1, <3>2, <3>3, StringRead
  <2>3. mHardwareVersion' = StoredString(HARDWARE_VERSION_OFF, 1)'
    BY <1>2, <2>1, <2>2 DEF StoredString
  <2>4. step' = "id" /\ res' = Zeroed /\ mInit' = "no" /\ mSerialNum' = mSerialNum
        /\ mProductType' = mProductType /\ Zeroed' = Zeroed
    BY <1>2, <2>1 DEF Saved, Zeroed
  <2> HIDE DEF r
  <2>5. QED
    BY <2>1, <2>3, <2>4 DEF NandInv, SerialStored, StoredString
<1>3. QED
  BY <1>1, <1>2 DEF ReadHardware

LEMMA ReadIdInv ==
    ASSUME NandInv, ReadId
    PROVE  NandInv'
<1>1. CASE GiveUp
  BY <1>1, GiveUpInv DEF ReadId
<1> DEFINE r == ReadNand(PRODUCT_ID_OFF, PRODUCT_ID_LEN, FALSE)
<1>2. CASE /\ r.ok /\ step' = "ready" /\ mProductId' = ProductId(r.buf)
           /\ UNCHANGED <<mSerialNum, mProductType, mHardwareVersion>>
  <2>1. step = "id" /\ res = Zeroed /\ nand' = nand
    BY DEF ReadId, NandInv
  <2>2. mProductId' \in Nat /\ (LONG = INT => mProductId' = StoredId)
    BY <1>2, <2>1, IdRead DEF NandInv
  <2>3. StoredId' = StoredId
    BY <2>1 DEF StoredId
  <2> HIDE DEF r
  <2>4. QED
    BY <1>2, <2>1, <2>2, <2>3 DEF NandInv, SerialStored, StoredString
<1>3. QED
  BY <1>1, <1>2 DEF ReadId

(* The constructor is over, and no call changes what it has read.          *)
LEMMA CallsInv ==
    ASSUME NandInv, UNCHANGED <<step, nand, res, fields, mInit>>
    PROVE  NandInv'
  BY DEF NandInv, fields, SerialStored, StoredString, StoredId

LEMMA NandNextInv == NandInv /\ [InfoNext]_(infoVars) => NandInv'
<1> SUFFICES ASSUME NandInv, [InfoNext]_(infoVars) PROVE NandInv'
  OBVIOUS
<1>1. CASE UNCHANGED infoVars
  BY <1>1, CallsInv DEF infoVars
<1>2. CASE GetString \/ GetProductId \/ GetPowerState
  BY <1>2, CallsInv DEF GetString, GetProductId, GetPowerState, Calls
<1>3. ASSUME NEW s, NEW c, SetPowerState(s) \/ SetLedStatus(c, s) \/ GetLedStatus(c)
      PROVE  NandInv'
  BY <1>3, CallsInv DEF SetPowerState, SetLedStatus, GetLedStatus, Calls
<1>4. QED
  BY <1>1, <1>2, <1>3, FOpenInv, ReadSerialInv, ReadTypeInv, ReadHardwareInv, ReadIdInv
     DEF InfoNext

LEMMA NandInvAlways == InfoSpec => []NandInv
<1>1. InfoInit => NandInv
  BY NandInitInv
<1>2. QED
  BY <1>1, NandNextInv, PTL DEF InfoSpec

(* Once the service is initialised its fields are what the file holds, for *)
(* every file, every offset and every size of a char, where an unsigned    *)
(* long is as wide as an int.                                              *)
THEOREM FieldsRead ==
    ASSUME LONG = INT
    PROVE  InfoSpec => []FieldsAsStored
<1>1. NandInv => FieldsAsStored
  BY DEF NandInv, SerialStored, FieldsAsStored
<1>2. QED
  BY <1>1, NandInvAlways, PTL

(* No failed or partial reading of the file opens the gate of the LEDs or  *)
(* of wake-on-LAN.                                                         *)
THEOREM GateHolds == InfoSpec => BoardGuarded
<1> DEFINE Guarded ==
      /\ led' # led => StoredString(PRODUCT_TYPE_OFF, 1) = Rain200S
      /\ power' # power =>
            StoredString(PRODUCT_TYPE_OFF, 1) \notin NoPowerTypes \cup {Empty}
<1>1. ASSUME NandInv, NEW s, NEW c, SetLedStatus(c, s) PROVE Guarded
  BY <1>1, TypesAssumption DEF SetLedStatus, HasLeds, NandInv, Empty
<1>2. ASSUME NandInv, NEW s, SetPowerState(s) PROVE Guarded
  BY <1>2 DEF SetPowerState, HasPower, NandInv
<1>3. ASSUME UNCHANGED board PROVE Guarded
  BY <1>3 DEF board
<1> HIDE DEF Guarded
<1>4. NandInv /\ [InfoNext]_(infoVars) => [Guarded]_(infoVars)
  BY <1>1, <1>2, <1>3 DEF InfoNext, FOpen, ReadSerial, ReadType, ReadHardware, ReadId,
     GetString, GetProductId, GetPowerState, GetLedStatus
<1> USE DEF Guarded
<1>5. QED
  BY <1>4, NandInvAlways, PTL DEF InfoSpec, BoardGuarded

(* No getter gives a field away before all of them are known.              *)
THEOREM NothingPartial == InfoSpec => AllOrNothing
<1> DEFINE Whole == (GetString \/ GetProductId) /\ answer' # Empty => mProductId # NoId
<1>1. NandInv /\ [InfoNext]_(infoVars) => [Whole]_(infoVars)
  <2>1. ASSUME NandInv, GetString \/ GetProductId, answer' # Empty PROVE mProductId # NoId
    <3>1. mInit = "yes"
      BY <2>1 DEF GetString, GetProductId, Checked
    <3>2. QED
      BY <2>1, <3>1 DEF NandInv, NoId
  <2>2. QED
    BY <2>1
<1>2. QED
  BY <1>1, NandInvAlways, PTL DEF InfoSpec, AllOrNothing
=============================================================================
