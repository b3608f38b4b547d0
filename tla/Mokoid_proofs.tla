---------------------------- MODULE Mokoid_proofs ----------------------------
(***************************************************************************)
(* Proofs about the Mokoid LED stack and the sensors HAL: LedStack's type  *)
(* invariant and its three safety invariants, for every set of activities, *)
(* limit of descriptors and number of deaths; and the descriptors and      *)
(* vectors of SensorsHal, for every set of sessions and samples.           *)
(***************************************************************************)
EXTENDS LedStack, SensorsHal, NaturalsInduction, WellFoundedInduction, TLAPS

Excused == lapses \cap {"refused", "javaDeath"} # {}

(* A start that was asked for is queued, being handled, or has published   *)
(* the service.                                                            *)
Asked ==
    \A i \in Activities : act[i] # "none" =>
        \/ \E k \in DOMAIN pending : pending[k] = i
        \/ jpc \in {"new", "open", "add"}
        \/ led = "up" \/ Excused

(* A null service, and the death it leads to, has one of the reasons.      *)
NullExplained ==
    \A i \in Activities :
        (thr[i] = "run" /\ ref[i] = "null") \/ act[i] = "dead" => eager # {} \/ Excused

(* A published service that found a HAL has a device.                      *)
JavaUp ==
    /\ \A i \in Activities : ref[i] = "live" => led = "up"
    /\ stub # "none" /\ (led = "up" \/ jpc = "add") => jdev # "null"

(* As long as the device has been opened once per process, it is opened    *)
(* with a descriptor left, and before the service is published.            *)
FirstOpen ==
    hw = "ok" /\ stub # "none" /\ "reopened" \notin lapses =>
        /\ jdev = "null" \/ jpc = "open" => fds < FdLimit
        /\ led = "up" \/ jpc = "add" => jdev = "open"
        /\ \A i \in Activities : sw[i] # "miss"

(* The HAL for the DMA6410 is never seen without its descriptor; only when *)
(* none is left has it a bad one.                                          *)
LateOpen ==
    hw = "ok" /\ stub = "led.dma6410xp.c" =>
        /\ jdev # "zero"
        /\ jdev = "bad" => fds = FdLimit
        /\ (\E i \in Activities : sw[i] = "miss") =>
              fds = FdLimit \/ "javaDeath" \in lapses

(* The native service a process has found is up, or has died.              *)
NativeUp ==
    /\ nref = "live" => nat = "up"
    /\ nref = "dead" => "nativeDeath" \in lapses
    /\ \A i \in Activities : act[i] = "on" => nref # "null"
    /\ hw = "ok" /\ stub # "none" /\ nat = "up" => ndev = "open"

LInv == /\ TypeOK /\ Asked /\ NullExplained /\ JavaUp /\ FirstOpen /\ LateOpen
        /\ NativeUp /\ ShownMeansSwitched

-----------------------------------------------------------------------------
(* Before the first activity and the first service.                        *)
LEMMA LedInitInv == Init => LInv
  BY FdLimitAssumption, MaxCrashesAssumption
     DEF Init, Fresh, LInv, TypeOK, Asked, NullExplained, JavaUp, FirstOpen, LateOpen, NativeUp,
         ShownMeansSwitched, Stubs, Proxies, Descriptors

(* Every step preserves it.                                                *)
LEMMA LedNextInv == LInv /\ [Next]_vars => LInv'
  <1> SUFFICES ASSUME LInv, [Next]_vars PROVE LInv'
    OBVIOUS
  <1> USE DEF LInv, app, jserver, nserver, history
  <1>1. CASE UNCHANGED vars
    BY <1>1 DEF vars, TypeOK, Asked, NullExplained, JavaUp, FirstOpen, LateOpen, NativeUp,
                ShownMeansSwitched, Excused
  <1>2. ASSUME NEW i \in Activities, OnCreate(i) PROVE LInv'
    <2>1. TypeOK'
      BY <1>2 DEF OnCreate, TypeOK, Stubs, Proxies, Descriptors
    <2>2. Asked'
      <3>1. pending' = Append(pending, i) /\ pending \in Seq(Activities)
        BY <1>2 DEF OnCreate, TypeOK
      <3>2. \A k \in DOMAIN pending : k \in DOMAIN pending' /\ pending'[k] = pending[k]
        BY <3>1
      <3>3. \E k \in DOMAIN pending' : pending'[k] = i
        <4>1. Len(pending) + 1 \in DOMAIN pending' /\ pending'[Len(pending) + 1] = i
          BY <3>1
        <4> QED
          BY <4>1
      <3>4. /\ \A j \in Activities \ {i} : act'[j] = act[j]
            /\ UNCHANGED <<jpc, led, lapses>>
        BY <1>2 DEF OnCreate, TypeOK
      <3> QED
        BY <3>2, <3>3, <3>4 DEF Asked, Excused
    <2>3. /\ NullExplained' /\ JavaUp' /\ FirstOpen'
          /\ LateOpen' /\ NativeUp' /\ ShownMeansSwitched'
      BY <1>2 DEF OnCreate, NullExplained, JavaUp, FirstOpen, LateOpen, NativeUp,
             ShownMeansSwitched, Excused, TypeOK
    <2> QED
      BY <2>1, <2>2, <2>3
  <1>3. ASSUME NEW i \in Activities, OnClick(i) PROVE LInv'
    <2>1. TypeOK'
      BY <1>3 DEF OnClick, TypeOK, Stubs, Proxies, Descriptors
    <2>2. Asked'
      BY <1>3 DEF OnClick, Asked, Excused, TypeOK
    <2>3. NullExplained'
      BY <1>3 DEF OnClick, NullExplained, Excused, TypeOK, Asked, Starting
    <2>4. JavaUp'
      BY <1>3 DEF OnClick, JavaUp, TypeOK
    <2>5. FirstOpen' /\ LateOpen' /\ NativeUp' /\ ShownMeansSwitched'
      BY <1>3 DEF OnClick, FirstOpen, LateOpen, NativeUp, ShownMeansSwitched, TypeOK
    <2> QED
      BY <2>1, <2>2, <2>3, <2>4, <2>5
  <1>4. ASSUME NEW i \in Activities, GetLedService(i) PROVE LInv'
    <2>1. TypeOK'
      BY <1>4 DEF GetLedService, TypeOK, Stubs, Proxies, Descriptors
    <2>2. NativeUp'
      BY <1>4 DEF GetLedService, NativeUp, TypeOK
    <2>3. /\ Asked' /\ NullExplained' /\ JavaUp'
          /\ FirstOpen' /\ LateOpen' /\ ShownMeansSwitched'
      BY <1>4 DEF GetLedService, Asked, NullExplained, JavaUp, FirstOpen, LateOpen,
             ShownMeansSwitched, Excused, TypeOK
    <2> QED
      BY <2>1, <2>2, <2>3
  <1>5. ASSUME NEW i \in Activities, NativeLedOn(i) PROVE LInv'
    <2>1. TypeOK'
      BY <1>5 DEF NativeLedOn, TransactLedOn, NativeSetOn, LedOn, Knows, TypeOK, Stubs,
             Proxies, Descriptors
    <2>2. NativeUp'
      BY <1>5 DEF NativeLedOn, TransactLedOn, NativeSetOn, LedOn, Knows, NativeUp, TypeOK
    <2>3. ShownMeansSwitched'
      BY <1>5 DEF NativeLedOn, TransactLedOn, NativeSetOn, LedOn, Knows, ShownMeansSwitched,
             TypeOK, NativeUp, Proxies
    <2>4. Asked' /\ NullExplained' /\ JavaUp' /\ FirstOpen' /\ LateOpen'
      BY <1>5 DEF NativeLedOn, Asked, NullExplained, JavaUp, FirstOpen, LateOpen,
             Excused, TypeOK
    <2> QED
      BY <2>1, <2>2, <2>3, <2>4
  <1>6. ASSUME NEW i \in Activities, HandleMessage(i) PROVE LInv'
    <2>1. TypeOK'
      BY <1>6 DEF HandleMessage, TypeOK, Stubs, Proxies, Descriptors
    <2>2. /\ Asked' /\ NullExplained' /\ JavaUp'
          /\ FirstOpen' /\ LateOpen' /\ NativeUp' /\ ShownMeansSwitched'
      BY <1>6 DEF HandleMessage, Asked, NullExplained, JavaUp, FirstOpen, LateOpen,
             NativeUp, ShownMeansSwitched, Excused, TypeOK
    <2> QED
      BY <2>1, <2>2
  <1>7. ASSUME NEW i \in Activities, SetOn(i) PROVE LInv'
    <2>1. TypeOK'
      BY <1>7 DEF SetOn, MokoidSetOn, LedOn, Knows, TypeOK, Stubs, Proxies, Descriptors
    <2>2. FirstOpen'
      BY <1>7 DEF SetOn, MokoidSetOn, LedOn, Knows, FirstOpen, TypeOK, JavaUp, Descriptors
    <2>3. LateOpen'
      BY <1>7 DEF SetOn, MokoidSetOn, LedOn, Knows, LateOpen, TypeOK, JavaUp, Descriptors
    <2>4. Asked' /\ NullExplained' /\ JavaUp' /\ NativeUp' /\ ShownMeansSwitched'
      BY <1>7 DEF SetOn, Asked, NullExplained, JavaUp, NativeUp, ShownMeansSwitched,
             Excused, TypeOK
    <2> QED
      BY <2>1, <2>2, <2>3, <2>4
  <1>8. ASSUME NEW i \in Activities, SetOnNull(i) PROVE LInv'
    <2>1. TypeOK'
      BY <1>8 DEF SetOnNull, Die, TypeOK, Stubs, Proxies, Descriptors
    <2>2. NullExplained'
      BY <1>8 DEF SetOnNull, Die, NullExplained, Excused, TypeOK
    <2>3. NativeUp'
      BY <1>8 DEF SetOnNull, Die, NativeUp, TypeOK
    <2>4. Asked' /\ JavaUp' /\ FirstOpen' /\ LateOpen' /\ ShownMeansSwitched'
      BY <1>8 DEF SetOnNull, Die, Asked, JavaUp, FirstOpen, LateOpen,
             ShownMeansSwitched, Excused, TypeOK
    <2> QED
      BY <2>1, <2>2, <2>3, <2>4
  <1>9. ASSUME NEW i \in Activities, SendMessage(i) PROVE LInv'
    <2>1. TypeOK'
      BY <1>9 DEF SendMessage, TypeOK, Stubs, Proxies, Descriptors
    <2>2. /\ Asked' /\ NullExplained' /\ JavaUp'
          /\ FirstOpen' /\ LateOpen' /\ NativeUp' /\ ShownMeansSwitched'
      BY <1>9 DEF SendMessage, Asked, NullExplained, JavaUp, FirstOpen, LateOpen,
             NativeUp, ShownMeansSwitched, Excused, TypeOK
    <2> QED
      BY <2>1, <2>2
  <1>10. ASSUME NEW i \in Activities, CatchRemote(i) PROVE LInv'
    <2>1. TypeOK'
      BY <1>10 DEF CatchRemote, TypeOK, Stubs, Proxies, Descriptors
    <2>2. /\ Asked' /\ NullExplained' /\ JavaUp'
          /\ FirstOpen' /\ LateOpen' /\ NativeUp' /\ ShownMeansSwitched'
      BY <1>10 DEF CatchRemote, Asked, NullExplained, JavaUp, FirstOpen, LateOpen,
             NativeUp, ShownMeansSwitched, Excused, TypeOK
    <2> QED
      BY <2>1, <2>2
  <1>11. CASE OnStart
    <2>1. TypeOK'
      BY <1>11 DEF OnStart, TypeOK, Stubs, Proxies, Descriptors
    <2>2. Asked'
      BY <1>11 DEF OnStart, Asked, Excused, TypeOK
    <2>3. /\ NullExplained' /\ JavaUp' /\ FirstOpen'
          /\ LateOpen' /\ NativeUp' /\ ShownMeansSwitched'
      BY <1>11 DEF OnStart, NullExplained, JavaUp, FirstOpen, LateOpen, NativeUp,
             ShownMeansSwitched, Excused, TypeOK
    <2> QED
      BY <2>1, <2>2, <2>3
  <1>12. CASE MokoidInit
    <2>1. TypeOK'
      BY <1>12 DEF MokoidInit, StoresOpened, TypeOK, Stubs, Proxies, Descriptors
    <2>2. Asked'
      BY <1>12 DEF MokoidInit, StoresOpened, Asked, Excused, TypeOK
    <2>3. JavaUp'
      BY <1>12 DEF MokoidInit, StoresOpened, JavaUp, TypeOK
    <2>4. FirstOpen'
      BY <1>12 DEF MokoidInit, StoresOpened, FirstOpen, TypeOK
    <2>5. LateOpen'
      BY <1>12 DEF MokoidInit, StoresOpened, LateOpen, TypeOK
    <2>6. NullExplained' /\ NativeUp' /\ ShownMeansSwitched'
      BY <1>12 DEF MokoidInit, StoresOpened, NullExplained, NativeUp, ShownMeansSwitched, Excused,
             TypeOK
    <2> QED
      BY <2>1, <2>2, <2>3, <2>4, <2>5, <2>6
  <1>13. CASE MokoidOpen
    <2>1. TypeOK'
      BY <1>13, FdLimitAssumption DEF MokoidOpen, TypeOK, Stubs, Proxies, Descriptors
    <2>2. JavaUp'
      BY <1>13, FdLimitAssumption DEF MokoidOpen, JavaUp, TypeOK
    <2>3. FirstOpen'
      BY <1>13, FdLimitAssumption DEF MokoidOpen, FirstOpen, TypeOK
    <2>4. LateOpen'
      BY <1>13, FdLimitAssumption DEF MokoidOpen, LateOpen, TypeOK
    <2>5. Asked' /\ NullExplained' /\ NativeUp' /\ ShownMeansSwitched'
      BY <1>13, FdLimitAssumption DEF MokoidOpen, Asked, NullExplained, NativeUp,
             ShownMeansSwitched, Excused, TypeOK
    <2> QED
      BY <2>1, <2>2, <2>3, <2>4, <2>5
  <1>14. CASE AddService
    <2>1. TypeOK'
      BY <1>14 DEF AddService, TypeOK, Stubs, Proxies, Descriptors
    <2>2. Asked'
      BY <1>14 DEF AddService, Asked, Excused, TypeOK
    <2>3. JavaUp'
      BY <1>14 DEF AddService, JavaUp, TypeOK
    <2>4. FirstOpen'
      BY <1>14 DEF AddService, FirstOpen, TypeOK
    <2>5. NullExplained' /\ LateOpen' /\ NativeUp' /\ ShownMeansSwitched'
      BY <1>14 DEF AddService, NullExplained, LateOpen, NativeUp, ShownMeansSwitched,
             Excused, TypeOK
    <2> QED
      BY <2>1, <2>2, <2>3, <2>4, <2>5
  <1>15. CASE Instantiate
    <2>1. TypeOK'
      BY <1>15 DEF Instantiate, TypeOK, Stubs, Proxies, Descriptors
    <2>2. NativeUp'
      BY <1>15 DEF Instantiate, NativeUp, TypeOK
    <2>3. /\ Asked' /\ NullExplained' /\ JavaUp'
          /\ FirstOpen' /\ LateOpen' /\ ShownMeansSwitched'
      BY <1>15 DEF Instantiate, Asked, NullExplained, JavaUp, FirstOpen, LateOpen,
             ShownMeansSwitched, Excused, TypeOK
    <2> QED
      BY <2>1, <2>2, <2>3
  <1>16. CASE JavaDeath
    <2>1. TypeOK'
      BY <1>16, FdLimitAssumption, MaxCrashesAssumption DEF JavaDeath, Fresh, TypeOK, Stubs,
             Proxies, Descriptors
    <2>2. Asked'
      BY <1>16 DEF JavaDeath, Asked, Excused, TypeOK
    <2>3. JavaUp'
      BY <1>16 DEF JavaDeath, JavaUp, TypeOK
    <2>4. FirstOpen'
      BY <1>16, FdLimitAssumption DEF JavaDeath, Fresh, FirstOpen, TypeOK
    <2>5. LateOpen'
      BY <1>16 DEF JavaDeath, LateOpen, TypeOK
    <2>6. NullExplained' /\ NativeUp' /\ ShownMeansSwitched'
      BY <1>16 DEF JavaDeath, NullExplained, NativeUp, ShownMeansSwitched, Excused,
             TypeOK
    <2> QED
      BY <2>1, <2>2, <2>3, <2>4, <2>5, <2>6
  <1>17. CASE NativeDeath
    <2>1. TypeOK'
      BY <1>17, MaxCrashesAssumption DEF NativeDeath, TypeOK, Stubs, Proxies,
             Descriptors
    <2>2. NativeUp'
      BY <1>17 DEF NativeDeath, NativeUp, TypeOK
    <2>3. ShownMeansSwitched'
      BY <1>17 DEF NativeDeath, ShownMeansSwitched, TypeOK
    <2>4. Asked' /\ NullExplained' /\ JavaUp' /\ FirstOpen' /\ LateOpen'
      BY <1>17 DEF NativeDeath, Asked, NullExplained, JavaUp, FirstOpen, LateOpen,
             Excused, TypeOK
    <2> QED
      BY <2>1, <2>2, <2>3, <2>4
  <1> QED
    BY <1>1, <1>2, <1>3, <1>4, <1>5, <1>6, <1>7, <1>8, <1>9, <1>10, <1>11,
       <1>12, <1>13, <1>14, <1>15, <1>16, <1>17 DEF Next, Ui, Thread

LEMMA LedInvHolds == Spec => []LInv
  BY LedInitInv, LedNextInv, PTL DEF Spec

-----------------------------------------------------------------------------
(* The variables of LedStack keep their types, and the process that opens  *)
(* the device again and again stays within its descriptors (led.cpp 82).   *)
THEOREM TypeCorrect == Spec => []TypeOK
  <1>1. LInv => TypeOK
    BY DEF LInv
  <1> QED
    BY <1>1, LedInvHolds, PTL

(* The application dies of a null service only for one of the reasons      *)
(* DiesOnlyIfEager names (LedManager.java 44, 71).                         *)
THEOREM DeathsExplained == Spec => []DiesOnlyIfEager
  <1>1. LInv => DiesOnlyIfEager
    BY DEF LInv, NullExplained, Excused, DiesOnlyIfEager
  <1> QED
    BY <1>1, LedInvHolds, PTL

(* A switch through the Java service misses the LED only after the device  *)
(* has been opened again (com_mokoid_server_LedService.cpp 14-31).         *)
THEOREM JavaSwitchReaches == Spec => []SwitchReachesLed
  <1>1. LInv => SwitchReachesLed
    BY DEF LInv, FirstOpen, LateOpen, SwitchReachesLed
  <1> QED
    BY <1>1, LedInvHolds, PTL

(* The text "LED 1 is On." tells the truth until the native service dies,  *)
(* and with the HAL for the DMA6410 never does (LedTest.java 81).          *)
THEOREM TextIsTrue == Spec => []ShownMeansSwitched
  <1>1. LInv => ShownMeansSwitched
    BY DEF LInv
  <1> QED
    BY <1>1, LedInvHolds, PTL

-----------------------------------------------------------------------------
(* The sensors HAL                                                         *)

Places == {"none", "handle", "handover", "open", "wait", "read", "polled"}
Holding == {s \in Sessions : at[s] \in {"handle", "handover"}}

SensorsTypeOK ==
    /\ table \in [Fds -> {"free", "sensor", "other"}]
    /\ sInputFD \in Fds \cup {-1}
    /\ at \in [Sessions -> Places]
    /\ handle \in [Sessions -> Fds \cup {-1}]
    /\ watched \in [Sessions -> {"none", "free", "sensor", "other"}]
    /\ vector \in [Sessions -> Int \X Int \X Int]
    /\ crossed \in BOOLEAN
    /\ faults \subseteq {"dup", "read"}

(* A session that has taken a handle has a descriptor of the sensor in it, *)
(* and nobody else has the same.                                           *)
HandlesOwn ==
    \A s \in Holding :
        /\ Kind(handle[s]) = "sensor"
        /\ \A u \in Holding : handle[u] = handle[s] => u = s

(* One session at most is open, and sInputFD is its own descriptor, unless *)
(* dup failed.                                                             *)
InputOwn ==
    \A s \in InUse :
        /\ \A u \in InUse : u = s
        /\ \/ sInputFD = -1 /\ "dup" \in faults
           \/ Kind(sInputFD) = "sensor" /\ \A u \in Holding : handle[u] # sInputFD

(* NoDescriptorLeak, descriptor by descriptor.                             *)
Accounted ==
    \A fd \in Fds : table[fd] = "sensor" <=>
        (\E s \in Holding : handle[s] = fd) \/ (InUse # {} /\ sInputFD = fd)

SensorsInv ==
    /\ SensorsTypeOK
    /\ ~crossed => HandlesOwn /\ InputOwn /\ Accounted
    /\ VectorIsSample

-----------------------------------------------------------------------------
(* Helpers *)

(* A nonempty set of natural numbers has a least element, which Min finds. *)
LEMMA MinIn ==
    ASSUME NEW T, T \subseteq Nat, T # {}
    PROVE  Min(T) \in T
<1>1. IsWellFoundedOn(OpToRel(<, Nat), Nat)
  BY NatLessThanWellFounded
<1>2. PICK x \in T : \A y \in T : ~(<<y, x>> \in OpToRel(<, Nat))
  BY <1>1, WFMin
<1>2a. \A y \in T : ~(y < x)
  BY <1>2 DEF OpToRel
<1>3. x \in T /\ \A y \in T : x <= y
  BY <1>2a
<1>4. QED
  BY <1>3 DEF Min

(* The kernel hands out a descriptor that is free.                         *)
LEMMA NewFdFree ==
    ASSUME Free # {}
    PROVE  NewFd \in Fds /\ table[NewFd] = "free"
<1>1. Free \subseteq Nat
  BY FdMaxAssumption DEF Free, Fds
<1>2. NewFd \in Free
  BY <1>1, MinIn DEF NewFd
<1>3. QED
  BY <1>2 DEF Free

(* The vector of three bytes shows them, as signed numbers.                *)
LEMMA VectorShows ==
    ASSUME NEW b \in Bytes \X Bytes \X Bytes
    PROVE  Vector(b) \in Int \X Int \X Int /\ Shows(Vector(b), b)
<1>1. b[1] \in 0 .. 255 /\ b[2] \in 0 .. 255 /\ b[3] \in 0 .. 255
  BY DEF Bytes
<1>2. ASSUME NEW n \in 0 .. 255
      PROVE  /\ -Signed(n) \in -127 .. 128
             /\ (-Signed(n) + n) % 256 = 0
  BY <1>2 DEF Signed
<1>3. /\ Vector(b)[1] = -Signed(b[2])
      /\ Vector(b)[2] = -Signed(b[1])
      /\ Vector(b)[3] = -Signed(b[3])
  BY DEF Vector
<1>4. /\ <<2, 1, 3>>[1] = 2 /\ <<2, 1, 3>>[2] = 1 /\ <<2, 1, 3>>[3] = 3
  OBVIOUS
<1>5. Shows(Vector(b), b)
  <2> SUFFICES ASSUME NEW i \in 1 .. 3
               PROVE  /\ (Vector(b)[i] + b[<<2, 1, 3>>[i]]) % 256 = 0
                      /\ Vector(b)[i] \in -127 .. 128
    BY DEF Shows
  <2>1. i = 1 \/ i = 2 \/ i = 3
    OBVIOUS
  <2>2. CASE i = 1
    <3>1. b[<<2, 1, 3>>[i]] = b[2] /\ Vector(b)[i] = -Signed(b[2])
      BY <1>3, <1>4, <2>2
    <3>2. -Signed(b[2]) \in -127 .. 128 /\ (-Signed(b[2]) + b[2]) % 256 = 0
      BY <1>1, <1>2
    <3>3. QED
      BY <3>1, <3>2
  <2>3. CASE i = 2
    <3>1. b[<<2, 1, 3>>[i]] = b[1] /\ Vector(b)[i] = -Signed(b[1])
      BY <1>3, <1>4, <2>3
    <3>2. -Signed(b[1]) \in -127 .. 128 /\ (-Signed(b[1]) + b[1]) % 256 = 0
      BY <1>1, <1>2
    <3>3. QED
      BY <3>1, <3>2
  <2>4. CASE i = 3
    <3>1. b[<<2, 1, 3>>[i]] = b[3] /\ Vector(b)[i] = -Signed(b[3])
      BY <1>3, <1>4, <2>4
    <3>2. -Signed(b[3]) \in -127 .. 128 /\ (-Signed(b[3]) + b[3]) % 256 = 0
      BY <1>1, <1>2
    <3>3. QED
      BY <3>1, <3>2
  <2>5. QED
    BY <2>1, <2>2, <2>3, <2>4
<1>6. Vector(b) \in Int \X Int \X Int
  <2>1. /\ -Signed(b[1]) \in Int /\ -Signed(b[2]) \in Int /\ -Signed(b[3]) \in Int
    BY <1>1 DEF Signed
  <2>2. QED
    BY <2>1 DEF Vector
<1>7. QED
  BY <1>5, <1>6

(* What a step of s from one place to another does to the two groups.      *)
LEMMA Moves ==
    ASSUME SensorsTypeOK, NEW s \in Sessions, NEW p \in Places, Goto(s, p)
    PROVE  /\ at' \in [Sessions -> Places]
           /\ Holding' = IF p \in {"handle", "handover"}
                         THEN Holding \cup {s} ELSE Holding \ {s}
           /\ InUse' = IF p \in {"handover", "open", "wait", "read", "polled"}
                       THEN InUse \cup {s} ELSE InUse \ {s}
  BY DEF SensorsTypeOK, Goto, Holding, InUse

LEMMA LeakByFd ==
    ASSUME SensorsTypeOK, ~crossed => HandlesOwn /\ Accounted
    PROVE  NoDescriptorLeak
<1>1. ~crossed => \A s \in Holding : handle[s] \in Fds
  BY DEF HandlesOwn, Kind
<1>2. QED
  BY <1>1 DEF NoDescriptorLeak, Accounted, Holding

-----------------------------------------------------------------------------
LEMMA SensorsInitInv ==
    ASSUME SensorsInit
    PROVE  SensorsInv
<1>1. Holding = {} /\ InUse = {}
  BY DEF SensorsInit, Holding, InUse
<1>2. SensorsTypeOK
  <2>1. Zeros \in Int \X Int \X Int
    BY DEF Zeros
  <2>2. QED
    BY <2>1 DEF SensorsInit, SensorsTypeOK, Places
<1>3. HandlesOwn /\ InputOwn
  BY <1>1 DEF HandlesOwn, InputOwn
<1>4. Accounted
  BY <1>1 DEF SensorsInit, Accounted
<1>5. VectorIsSample
  BY DEF SensorsInit, VectorIsSample
<1>6. QED
  BY <1>2, <1>3, <1>4, <1>5 DEF SensorsInv

LEMMA OpenDataSourceInv ==
    ASSUME SensorsInv, NEW s \in Sessions, OpenDataSource(s)
    PROVE  SensorsInv'
<1>1. CASE UNCHANGED sensorsVars
  BY <1>1 DEF SensorsInv, SensorsTypeOK, HandlesOwn, InputOwn, Accounted, VectorIsSample,
              Holding, InUse, Kind, sensorsVars
<1>2. CASE /\ at[s] = "none" /\ Free # {} /\ Opened("sensor")
           /\ handle' = [handle EXCEPT ![s] = NewFd]
           /\ Goto(s, "handle")
           /\ UNCHANGED <<sInputFD, watched, vector, crossed, faults>>
  <2>1. NewFd \in Fds /\ table[NewFd] = "free"
    BY <1>2, NewFdFree DEF SensorsInv
  <2> DEFINE n == NewFd
  <2> HIDE DEF n
  <2>2. /\ at' \in [Sessions -> Places]
        /\ Holding' = Holding \cup {s} /\ InUse' = InUse \ {s}
    BY <1>2, Moves DEF SensorsInv, Places
  <2>3. /\ table' = [table EXCEPT ![n] = "sensor"]
        /\ handle' = [handle EXCEPT ![s] = n]
        /\ n \in Fds /\ table[n] = "free"
    BY <1>2, <2>1 DEF Opened, n
  <2>4. s \notin Holding /\ s \notin InUse
    BY <1>2 DEF Holding, InUse
  <2>5. Holding \subseteq Sessions
    BY DEF Holding
  <2>6. SensorsTypeOK'
    <3>1. /\ table' \in [Fds -> {"free", "sensor", "other"}]
          /\ handle' \in [Sessions -> Fds \cup {-1}]
      BY <2>3 DEF SensorsInv, SensorsTypeOK
    <3>2. QED
      BY <1>2, <2>2, <3>1 DEF SensorsInv, SensorsTypeOK
  <2>7. ASSUME ~crossed PROVE HandlesOwn'
    BY <2>2, <2>3, <2>4, <2>5, <2>7 DEF SensorsInv, SensorsTypeOK, HandlesOwn, Kind
  <2>8. ASSUME ~crossed PROVE InputOwn'
    BY <1>2, <2>2, <2>3, <2>4, <2>5, <2>8 DEF SensorsInv, SensorsTypeOK, InputOwn, Kind
  <2>9. ASSUME ~crossed PROVE Accounted'
    BY <1>2, <2>2, <2>3, <2>4, <2>5, <2>9 DEF SensorsInv, SensorsTypeOK, Accounted
  <2>10. VectorIsSample'
    BY <1>2 DEF Goto, SensorsInv, SensorsTypeOK, VectorIsSample
  <2>11. QED
    BY <1>2, <2>6, <2>7, <2>8, <2>9, <2>10 DEF SensorsInv
<1>3. QED
  BY <1>1, <1>2 DEF OpenDataSource, sensorsVars

LEMMA DataOpenInv ==
    ASSUME SensorsInv, NEW s \in Sessions, DataOpen(s)
    PROVE  SensorsInv'
<1>1. /\ at[s] = "handle" /\ Goto(s, "handover")
      /\ crossed' = (crossed \/ InUse # {})
      /\ UNCHANGED <<handle, watched, vector>>
  BY DEF DataOpen
<1>2. /\ at' \in [Sessions -> Places]
      /\ Holding' = Holding \cup {s} /\ InUse' = InUse \cup {s}
  BY <1>1, Moves DEF SensorsInv, Places
<1>3. s \in Holding /\ s \notin InUse /\ Holding \subseteq Sessions
  BY <1>1 DEF Holding, InUse
<1>3a. ~crossed' => ~crossed /\ InUse = {} /\ Holding' = Holding /\ InUse' = {s}
  BY <1>1, <1>2, <1>3
<1>4. VectorIsSample'
  BY <1>1, DataOpen(s) DEF DataOpen, Goto, SensorsInv, SensorsTypeOK, VectorIsSample
<1>5. CASE Free # {} /\ sInputFD' = NewFd /\ Opened("sensor") /\ UNCHANGED faults
  <2>1. NewFd \in Fds /\ table[NewFd] = "free"
    BY <1>5, NewFdFree DEF SensorsInv
  <2> DEFINE n == NewFd
  <2> HIDE DEF n
  <2>2. /\ table' = [table EXCEPT ![n] = "sensor"] /\ sInputFD' = n
        /\ n \in Fds /\ table[n] = "free"
    BY <1>5, <2>1 DEF Opened, n
  <2>3. SensorsTypeOK'
    <3>1. table' \in [Fds -> {"free", "sensor", "other"}]
      BY <2>2 DEF SensorsInv, SensorsTypeOK
    <3>2. QED
      BY <1>1, <1>2, <1>5, <2>2, <3>1 DEF SensorsInv, SensorsTypeOK
  <2>4. ASSUME ~crossed' PROVE HandlesOwn'
    BY <1>1, <1>2, <1>3, <2>2, <2>4 DEF SensorsInv, SensorsTypeOK, HandlesOwn, Kind
  <2>5. ASSUME ~crossed' PROVE InputOwn'
    <3>1. \A u \in Holding : handle[u] # n
      BY <1>3a, <2>2, <2>5 DEF SensorsInv, HandlesOwn, Kind
    <3>2. Kind(sInputFD)' = "sensor"
      BY <2>2 DEF SensorsInv, SensorsTypeOK, Kind
    <3>3. QED
      BY <1>1, <1>3a, <2>2, <2>5, <3>1, <3>2 DEF InputOwn
  <2>6. ASSUME ~crossed' PROVE Accounted'
    <3>1. \A fd \in Fds : table'[fd] = IF fd = n THEN "sensor" ELSE table[fd]
      BY <2>2 DEF SensorsInv, SensorsTypeOK
    <3>2. ~\E u \in Holding : handle[u] = n
      BY <1>3a, <2>2, <2>6 DEF SensorsInv, HandlesOwn, Kind
    <3>3. QED
      BY <1>1, <1>3a, <2>2, <2>6, <3>1, <3>2 DEF SensorsInv, Accounted
  <2>7. QED
    BY <1>4, <2>3, <2>4, <2>5, <2>6 DEF SensorsInv
<1>6. CASE Free = {} /\ sInputFD' = -1 /\ faults' = faults \cup {"dup"} /\ UNCHANGED table
  <2>1. SensorsTypeOK'
    BY <1>1, <1>2, <1>6 DEF SensorsInv, SensorsTypeOK
  <2>2. ASSUME ~crossed' PROVE HandlesOwn' /\ InputOwn'
    BY <1>1, <1>3a, <1>6, <2>2 DEF SensorsInv, HandlesOwn, InputOwn, Kind
  <2>3. ASSUME ~crossed' PROVE Accounted'
    <3>1. -1 \notin Fds
      BY FdMaxAssumption DEF SensorsInv, Fds
    <3>2. QED
      BY <1>1, <1>3a, <1>6, <2>3, <3>1 DEF SensorsInv, Accounted
  <2>4. QED
    BY <1>4, <2>1, <2>2, <2>3 DEF SensorsInv
<1>7. QED
  BY <1>5, <1>6 DEF DataOpen

(* close() of a descriptor.                                                *)
LEMMA ClosedTable ==
    ASSUME SensorsTypeOK, NEW d, Closed(d)
    PROVE  /\ table' \in [Fds -> {"free", "sensor", "other"}]
           /\ \A fd \in Fds : table'[fd] = IF fd = d THEN "free" ELSE table[fd]
  BY DEF SensorsTypeOK, Closed

LEMMA HandoverInv ==
    ASSUME SensorsInv, NEW s \in Sessions, Handover(s)
    PROVE  SensorsInv'
<1>1. /\ at[s] = "handover" /\ Goto(s, "open")
      /\ Closed(handle[s]) /\ handle' = [handle EXCEPT ![s] = -1]
      /\ UNCHANGED <<sInputFD, watched, vector, crossed, faults>>
  BY DEF Handover
<1>2. /\ at' \in [Sessions -> Places]
      /\ Holding' = Holding \ {s} /\ InUse' = InUse \cup {s}
  BY <1>1, Moves DEF SensorsInv, Places
<1>3. s \in Holding /\ s \in InUse /\ Holding \subseteq Sessions
  BY <1>1 DEF Holding, InUse
<1>4. /\ table' \in [Fds -> {"free", "sensor", "other"}]
      /\ \A fd \in Fds : table'[fd] = IF fd = handle[s] THEN "free" ELSE table[fd]
  BY <1>1, ClosedTable DEF SensorsInv
<1>5. SensorsTypeOK'
  BY <1>1, <1>2, <1>4 DEF SensorsInv, SensorsTypeOK
<1>6. ASSUME ~crossed PROVE HandlesOwn'
  BY <1>1, <1>2, <1>3, <1>4, <1>6 DEF SensorsInv, SensorsTypeOK, HandlesOwn, Kind
<1>7. ASSUME ~crossed PROVE InputOwn'
  BY <1>1, <1>2, <1>3, <1>4, <1>7 DEF SensorsInv, SensorsTypeOK, InputOwn, Kind
<1>8. ASSUME ~crossed PROVE Accounted'
  <2>1. \A u \in Holding' : handle'[u] = handle[u] /\ handle[u] # handle[s]
    BY <1>1, <1>2, <1>3, <1>8 DEF SensorsInv, SensorsTypeOK, HandlesOwn
  <2>2. InUse' # {} /\ InUse # {} /\ sInputFD # handle[s]
    <3>1. \/ sInputFD = -1
          \/ \A u \in Holding : handle[u] # sInputFD
      BY <1>3, <1>8 DEF SensorsInv, InputOwn
    <3>2. handle[s] \in Fds /\ -1 \notin Fds
      BY <1>3, <1>8, FdMaxAssumption DEF SensorsInv, HandlesOwn, Kind, Fds
    <3>3. QED
      BY <1>2, <1>3, <3>1, <3>2
  <2>3. QED
    BY <1>1, <1>2, <1>3, <1>4, <1>8, <2>1, <2>2 DEF SensorsInv, Accounted
<1>9. VectorIsSample'
  BY <1>1 DEF Goto, SensorsInv, SensorsTypeOK, VectorIsSample
<1>10. QED
  BY <1>1, <1>5, <1>6, <1>7, <1>8, <1>9 DEF SensorsInv

LEMMA DataCloseInv ==
    ASSUME SensorsInv, NEW s \in Sessions, DataClose(s)
    PROVE  SensorsInv'
<1>1. /\ at[s] = "open" /\ Goto(s, "none") /\ Closed(sInputFD)
      /\ UNCHANGED <<sInputFD, handle, watched, vector, crossed, faults>>
  BY DEF DataClose
<1>2. /\ at' \in [Sessions -> Places]
      /\ Holding' = Holding \ {s} /\ InUse' = InUse \ {s}
  BY <1>1, Moves DEF SensorsInv, Places
<1>3. s \notin Holding /\ s \in InUse
  BY <1>1 DEF Holding, InUse
<1>4. /\ table' \in [Fds -> {"free", "sensor", "other"}]
      /\ \A fd \in Fds : table'[fd] = IF fd = sInputFD THEN "free" ELSE table[fd]
  BY <1>1, ClosedTable DEF SensorsInv
<1>5. SensorsTypeOK'
  BY <1>1, <1>2, <1>4 DEF SensorsInv, SensorsTypeOK
<1>6. ASSUME ~crossed PROVE InUse' = {} /\ \A u \in Holding : handle[u] # sInputFD
  <2>1. -1 \notin Fds
    BY FdMaxAssumption DEF SensorsInv, Fds
  <2>2. QED
    BY <1>2, <1>3, <1>6, <2>1 DEF SensorsInv, HandlesOwn, InputOwn, Kind
<1>7. ASSUME ~crossed PROVE HandlesOwn' /\ InputOwn'
  BY <1>1, <1>2, <1>3, <1>4, <1>6, <1>7 DEF SensorsInv, HandlesOwn, InputOwn, Kind
<1>8. ASSUME ~crossed PROVE Accounted'
  BY <1>1, <1>2, <1>3, <1>4, <1>6, <1>8 DEF SensorsInv, Accounted
<1>9. VectorIsSample'
  BY <1>1 DEF Goto, SensorsInv, SensorsTypeOK, VectorIsSample
<1>10. QED
  BY <1>1, <1>5, <1>7, <1>8, <1>9 DEF SensorsInv

(* The steps that open and close nothing: a session that is in use stays   *)
(* so, and Read alone writes a vector.                                     *)
LEMMA InUseInv ==
    ASSUME SensorsInv, NEW s \in Sessions, NEW p \in {"open", "wait", "read", "polled"},
           at[s] \in {"open", "wait", "read", "polled"}, Goto(s, p),
           UNCHANGED <<table, sInputFD, handle, crossed>>,
           faults \subseteq faults', faults' \subseteq {"dup", "read"},
           watched' \in [Sessions -> {"none", "free", "sensor", "other"}],
           vector' \in [Sessions -> Int \X Int \X Int],
           VectorIsSample'
    PROVE  SensorsInv'
<1>1. /\ at' \in [Sessions -> Places]
      /\ Holding' = Holding \ {s} /\ InUse' = InUse \cup {s}
  BY Moves DEF SensorsInv, Places
<1>2. s \notin Holding /\ s \in InUse
  BY DEF Holding, InUse
<1>3. Holding' = Holding /\ InUse' = InUse
  BY <1>1, <1>2
<1>4. SensorsTypeOK'
  BY <1>1 DEF SensorsInv, SensorsTypeOK
<1>5. ~crossed => HandlesOwn' /\ InputOwn' /\ Accounted'
  BY <1>3 DEF SensorsInv, HandlesOwn, InputOwn, Accounted, Kind
<1>6. QED
  BY <1>4, <1>5 DEF SensorsInv

LEMMA PollInv ==
    ASSUME SensorsInv, NEW s \in Sessions,
           DataPoll(s) \/ PollReady(s) \/ PollOther(s) \/ PollInterrupted(s) \/ Use(s)
    PROVE  SensorsInv'
<1> USE DEF SensorsInv
<1>1. Zeros \in Int \X Int \X Int
  BY DEF Zeros
<1>2. Kind(sInputFD) \in {"none", "free", "sensor", "other"}
  BY DEF SensorsTypeOK, Kind
<1>3. CASE DataPoll(s)
  <2>1. VectorIsSample'
    BY <1>3 DEF DataPoll, Goto, SensorsTypeOK, VectorIsSample
  <2>2. watched' \in [Sessions -> {"none", "free", "sensor", "other"}]
    BY <1>2, <1>3 DEF DataPoll, SensorsTypeOK
  <2>3. QED
    BY <1>3, <2>1, <2>2, InUseInv DEF DataPoll, SensorsTypeOK
<1>4. CASE PollReady(s) \/ PollOther(s)
  <2>1. VectorIsSample'
    BY <1>4 DEF PollReady, PollOther, Goto, SensorsTypeOK, VectorIsSample
  <2>2. QED
    BY <1>4, <2>1, InUseInv DEF PollReady, PollOther, SensorsTypeOK
<1>5. CASE PollInterrupted(s)
  <2>1. VectorIsSample'
    BY <1>5 DEF PollInterrupted, Goto, SensorsTypeOK, VectorIsSample
  <2>2. QED
    BY <1>5, <2>1, InUseInv DEF PollInterrupted, SensorsTypeOK
<1>6. CASE Use(s)
  <2>1. VectorIsSample'
    BY <1>6 DEF Use, Goto, SensorsTypeOK, VectorIsSample
  <2>2. QED
    BY <1>1, <1>6, <2>1, InUseInv DEF Use, SensorsTypeOK
<1>7. QED
  BY <1>3, <1>4, <1>5, <1>6

(* A session that is in use reads the sensor, unless one of the excuses.   *)
LEMMA ReadInv ==
    ASSUME SensorsInv, NEW s \in Sessions, Read(s)
    PROVE  SensorsInv'
<1>1. /\ at[s] = "read" /\ Goto(s, "polled")
      /\ watched' = [watched EXCEPT ![s] = "none"]
      /\ UNCHANGED <<table, sInputFD, handle, crossed>>
  BY DEF Read
<1>2. Foreign \in Bytes \X Bytes \X Bytes /\ Zeros \in Bytes \X Bytes \X Bytes
  BY SamplesAssumption DEF SensorsInv, Bytes, Zeros
<1>3. PICK b \in Samples \cup {Foreign, Zeros} :
         /\ vector' = [vector EXCEPT ![s] = Vector(b)]
         /\ Kind(sInputFD) = "sensor" => b \in Samples \/ faults' # {}
         /\ faults' = faults \/ faults' = faults \cup {"read"}
  BY DEF Read
<1>4. b \in Bytes \X Bytes \X Bytes
  BY <1>2, SamplesAssumption DEF SensorsInv
<1>5. Vector(b) \in Int \X Int \X Int /\ Shows(Vector(b), b)
  BY <1>4, VectorShows
<1>6. vector' \in [Sessions -> Int \X Int \X Int] /\ vector'[s] = Vector(b)
  BY <1>3, <1>5 DEF SensorsInv, SensorsTypeOK
<1>7. s \in InUse
  BY <1>1 DEF InUse
<1>8. crossed \/ faults # {} \/ Kind(sInputFD) = "sensor"
  BY <1>7 DEF SensorsInv, InputOwn
<1>9. b \in Samples \/ crossed' \/ faults' # {}
  BY <1>1, <1>3, <1>8
<1>10. VectorIsSample'
  <2> SUFFICES ASSUME NEW u \in Sessions, at'[u] = "polled"
               PROVE  \/ \E c \in Samples : Shows(vector'[u], c)
                      \/ crossed' \/ faults' # {}
    BY DEF VectorIsSample, Shows
  <2>1. CASE u = s
    BY <1>5, <1>6, <1>9, <2>1
  <2>2. CASE u # s
    <3>1. at[u] = "polled" /\ vector'[u] = vector[u]
      BY <1>1, <1>3, <2>2 DEF Goto, SensorsInv, SensorsTypeOK
    <3>2. QED
      BY <1>1, <1>3, <3>1 DEF SensorsInv, VectorIsSample
  <2>3. QED
    BY <2>1, <2>2
<1>11. QED
  BY <1>1, <1>3, <1>6, <1>10, InUseInv DEF SensorsInv, SensorsTypeOK

LEMMA RestInv ==
    ASSUME SensorsInv, OtherOpen \/ OtherClose
    PROVE  SensorsInv'
<1>1. UNCHANGED <<sInputFD, at, handle, watched, vector, crossed, faults>>
  BY DEF OtherOpen, OtherClose
<1>2. Holding' = Holding /\ InUse' = InUse
  BY <1>1 DEF Holding, InUse
<1>3. /\ table' \in [Fds -> {"free", "sensor", "other"}]
      /\ \A fd \in Fds : table'[fd] = "sensor" <=> table[fd] = "sensor"
  <2>1. CASE OtherOpen
    BY <2>1, NewFdFree DEF OtherOpen, Opened, SensorsInv, SensorsTypeOK
  <2>2. CASE OtherClose
    BY <2>2 DEF OtherClose, Closed, SensorsInv, SensorsTypeOK
  <2>3. QED
    BY <2>1, <2>2
<1>4. SensorsTypeOK'
  BY <1>1, <1>3 DEF SensorsInv, SensorsTypeOK
<1>5. ~crossed => HandlesOwn' /\ InputOwn' /\ Accounted'
  BY <1>1, <1>2, <1>3 DEF SensorsInv, HandlesOwn, InputOwn, Accounted, Kind
<1>6. VectorIsSample'
  BY <1>1 DEF SensorsInv, VectorIsSample
<1>7. QED
  BY <1>1, <1>4, <1>5, <1>6 DEF SensorsInv

LEMMA SensorsNextInv == SensorsInv /\ [SensorsNext]_(sensorsVars) => SensorsInv'
<1> SUFFICES ASSUME SensorsInv, [SensorsNext]_(sensorsVars) PROVE SensorsInv'
  OBVIOUS
<1>1. ASSUME NEW s \in Sessions,
             \/ Session(s) \/ OpenDataSource(s) \/ DataOpen(s) \/ DataPoll(s)
             \/ PollOther(s) \/ PollInterrupted(s) \/ Use(s) \/ DataClose(s)
      PROVE  SensorsInv'
  BY <1>1, OpenDataSourceInv, DataOpenInv, HandoverInv, DataCloseInv, PollInv, ReadInv
     DEF Session
<1>2. CASE UNCHANGED sensorsVars
  BY <1>2 DEF sensorsVars, SensorsInv, SensorsTypeOK, HandlesOwn, InputOwn, Accounted, VectorIsSample,
              Holding, InUse, Kind
<1>3. QED
  BY <1>1, <1>2, RestInv DEF SensorsNext

LEMMA SensorsInvAlways == SensorsSpec => []SensorsInv
<1>1. SensorsInit => SensorsInv
  BY SensorsInitInv
<1>2. QED
  BY <1>1, SensorsNextInv, PTL DEF SensorsSpec

-----------------------------------------------------------------------------
(* Every path through data_open and data_close gives back the descriptors *)
(* it took, for any number of sessions and descriptors.                    *)
THEOREM DescriptorsReturned == SensorsSpec => []NoDescriptorLeak
<1>1. SensorsInv => NoDescriptorLeak
  BY LeakByFd DEF SensorsInv
<1>2. QED
  BY <1>1, SensorsInvAlways, PTL

(* A vector that data_poll reports is that of a sample, whatever bytes the *)
(* sensor yields.                                                          *)
THEOREM VectorsAreSamples == SensorsSpec => []VectorIsSample
<1>1. SensorsInv => VectorIsSample
  BY DEF SensorsInv
<1>2. QED
  BY <1>1, SensorsInvAlways, PTL

(* The descriptors that Handover and DataClose close are not of the rest.  *)
LEMMA StepClosesOwn ==
    ASSUME SensorsInv, SensorsNext, NEW fd \in Fds, table[fd] = "other", table'[fd] # "other", ~crossed
    PROVE  UNCHANGED at
<1>1. ASSUME Free # {}, NEW kind, Opened(kind) PROVE FALSE
  BY <1>1, NewFdFree DEF Opened, SensorsInv, SensorsTypeOK
<1>2. ASSUME NEW s \in Sessions, Handover(s) PROVE FALSE
  <2>1. s \in Holding /\ table'[fd] = IF fd = handle[s] THEN "free" ELSE table[fd]
    BY <1>2 DEF Handover, Holding, Closed
  <2>2. QED
    BY <2>1 DEF SensorsInv, HandlesOwn, Kind
<1>3. ASSUME NEW s \in Sessions, DataClose(s) PROVE FALSE
  <2>1. s \in InUse /\ table'[fd] = IF fd = sInputFD THEN "free" ELSE table[fd]
    BY <1>3 DEF DataClose, InUse, Closed
  <2>2. -1 \notin Fds
    BY FdMaxAssumption DEF SensorsInv, Fds
  <2>3. QED
    BY <2>1, <2>2 DEF SensorsInv, InputOwn, Kind
<1>4. ASSUME NEW s \in Sessions,
             \/ Session(s) \/ OpenDataSource(s) \/ DataOpen(s) \/ DataPoll(s)
             \/ PollOther(s) \/ PollInterrupted(s) \/ Use(s) \/ DataClose(s)
      PROVE  FALSE
  <2>1. CASE OpenDataSource(s)
    BY <1>1, <2>1 DEF OpenDataSource
  <2>2. CASE DataOpen(s)
    BY <1>1, <2>2 DEF DataOpen
  <2>3. CASE PollReady(s) \/ Read(s) \/ DataPoll(s) \/ PollOther(s)
             \/ PollInterrupted(s) \/ Use(s)
    BY <2>3 DEF PollReady, Read, DataPoll, PollOther, PollInterrupted, Use
  <2>4. QED
    BY <1>2, <1>3, <1>4, <2>1, <2>2, <2>3 DEF Session
<1>5. CASE OtherOpen
  BY <1>5 DEF OtherOpen
<1>6. CASE OtherClose
  BY <1>6 DEF OtherClose
<1>7. QED
  BY <1>4, <1>5, <1>6 DEF SensorsNext

(* The HAL closes no descriptor of the rest of the process.                *)
THEOREM ClosesOwnDescriptors == SensorsSpec => ClosesOnlyOwn
<1> DEFINE Own == \A fd \in Fds : table[fd] = "other" /\ table'[fd] # "other"
                                      => crossed \/ UNCHANGED at
<1>1. SensorsInv /\ [SensorsNext]_(sensorsVars) => [Own]_(sensorsVars)
  BY StepClosesOwn
<1>2. QED
  BY <1>1, SensorsInvAlways, PTL DEF SensorsSpec, ClosesOnlyOwn
=============================================================================
