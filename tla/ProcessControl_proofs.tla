------------------------ MODULE ProcessControl_proofs ------------------------
(***************************************************************************)
(* Proofs about mySystem and the handlers that run it, for every set of    *)
(* threads, processes and pids.  The first part is about mySystem alone;   *)
(* the composition is shown to be a MySystem, so that the first part holds *)
(* under the handlers too; and killByProcessName spares the processes of   *)
(* other names.                                                            *)
(***************************************************************************)
EXTENDS ProcessControl, FiniteSetTheorems, TLAPS

-----------------------------------------------------------------------------
(* mySystem alone                                                          *)

(* A command belongs to a thread that waits for it.                        *)
ChildOwned == \A t \in Threads : child[t] # "none" => pc[t] = "wait"

(* Before the first overlap: one thread at most is inside, it has saved    *)
(* the inherited disposition and runs under SIG_DFL, so nothing the kernel *)
(* reaps is lost; with nobody inside the inherited one is in place.        *)
Serial ==
    ~overlapped =>
        /\ \A t, u \in Busy : t = u
        /\ Busy = {} => disp = inherited
        /\ \A t \in Busy : old[t] = inherited /\ disp = DFL
        /\ \A t \in Threads : child[t] # "gone"

(* A process started with SIG_DFL never leaves it.                         *)
NeverIgnored == inherited = DFL => \A t \in Threads : child[t] # "gone"

IInv == TypeOK /\ ChildOwned /\ Serial /\ NeverIgnored /\ FalseErrorNeedsOverlap

-----------------------------------------------------------------------------
(* Before the first call of mySystem.                                      *)
LEMMA InitInv == Init => IInv
  BY DEF Init, IInv, TypeOK, ChildOwned, Serial, NeverIgnored, Busy,
         FalseErrorNeedsOverlap

(* Every step of mySystem and of the commands preserves the invariant.     *)
LEMMA NextInv == IInv /\ [Next]_vars => IInv'
<1> SUFFICES ASSUME IInv, [Next]_vars PROVE IInv'
  OBVIOUS
<1> USE DEF IInv, TypeOK, ChildOwned, Serial, NeverIgnored, Busy,
            FalseErrorNeedsOverlap, DFL, IGN
<1>1. ASSUME NEW t \in Threads, SaveHandler(t)
      PROVE  IInv'
  <2>1. TypeOK' /\ ChildOwned' /\ NeverIgnored' /\ FalseErrorNeedsOverlap'
    BY <1>1 DEF SaveHandler
  <2>2. Serial'
    <3>1. SUFFICES ASSUME ~overlapped' PROVE Serial'
      OBVIOUS
    <3>2. ~overlapped /\ Busy = {}
      BY <1>1, <3>1 DEF SaveHandler
    <3>3. Busy' = {t} /\ old'[t] = inherited /\ disp' = DFL /\ inherited' = inherited
      BY <1>1, <3>2 DEF SaveHandler
    <3>4. \A u \in Threads : child'[u] # "gone"
      BY <1>1, <3>2 DEF SaveHandler
    <3>5. QED
      BY <3>3, <3>4
  <2>3. QED
    BY <2>1, <2>2
<1>2. ASSUME NEW t \in Threads, Fork(t)
      PROVE  IInv'
  <2>1. Busy' = Busy
    BY <1>2 DEF Fork
  <2>2. QED
    BY <1>2, <2>1 DEF Fork
<1>3. ASSUME NEW t \in Threads, ChildExit(t)
      PROVE  IInv'
  BY <1>3 DEF ChildExit
<1>4. ASSUME NEW t \in Threads, WaitChild(t)
      PROVE  IInv'
  <2>1. Busy' = Busy
    BY <1>4 DEF WaitChild
  <2>2. QED
    BY <1>4, <2>1 DEF WaitChild
<1>5. ASSUME NEW t \in Threads, Restore(t)
      PROVE  IInv'
  <2>1. TypeOK' /\ ChildOwned' /\ NeverIgnored' /\ FalseErrorNeedsOverlap'
    BY <1>5 DEF Restore
  <2>2. Serial'
    <3>1. SUFFICES ASSUME ~overlapped' PROVE Serial'
      OBVIOUS
    <3>2. ~overlapped /\ Busy = {t} /\ old[t] = inherited
      BY <1>5, <3>1 DEF Restore
    <3>3. Busy' = {} /\ disp' = inherited' /\ UNCHANGED child
      BY <1>5, <3>2 DEF Restore
    <3>4. QED
      BY <3>2, <3>3
  <2>3. QED
    BY <2>1, <2>2
<1>6. ASSUME NEW t \in Threads, Forget(t)
      PROVE  IInv'
  BY <1>6 DEF Forget
<1>7. CASE UNCHANGED vars
  BY <1>7 DEF vars
<1>8. QED
  BY <1>1, <1>2, <1>3, <1>4, <1>5, <1>6, <1>7 DEF Next

(* The inductive invariant holds throughout mySystem.                      *)
LEMMA InvHolds == Spec => []IInv
<1>1. QED
  BY InitInv, NextInv, PTL DEF Spec

-----------------------------------------------------------------------------
(* The disposition is only ever SIG_DFL or the inherited one.              *)
THEOREM TypeCorrect == Spec => []TypeOK
<1>1. IInv => TypeOK
  BY DEF IInv
<1>2. QED
  BY <1>1, InvHolds, PTL

(* mySystem's error for a command that ran needs an overlap of two calls   *)
(* and an inherited SIG_IGN.                                               *)
THEOREM ErrorsExplained == Spec => []FalseErrorNeedsOverlap
<1>1. IInv => FalseErrorNeedsOverlap
  BY DEF IInv
<1>2. QED
  BY <1>1, InvHolds, PTL

(* Calls of mySystem that do not overlap restore the disposition.          *)
THEOREM RestoresSerially == Spec => []RestoredUnlessOverlapped
<1>1. IInv => RestoredUnlessOverlapped
  BY DEF IInv, Serial, RestoredUnlessOverlapped
<1>2. QED
  BY <1>1, InvHolds, PTL

-----------------------------------------------------------------------------
(* mySystem under the handlers                                             *)

Lists == [name : Names \cup {None}, whole : SUBSET Pids, cut : SUBSET Nat]

ControlType ==
    /\ proc \in [Pids -> Names \cup {Launching, None}]
    /\ cmd \in [Threads -> Commands \cup {None}]
    /\ list \in [Threads -> Lists]
    /\ stale \in [Threads -> SUBSET Pids]

(* A pid on the list still belongs to a process of the name, unless one    *)
(* has ended since.                                                        *)
Fresh ==
    \A t \in Threads : \A p \in list[t].whole :
        p \in stale[t] \/ (proc[p] = list[t].name /\ list[t].name \in Names)

CInv == ControlType /\ Fresh

(* The handler of a thread is in mySystem exactly while mySystem runs.     *)
Places == {"idle", "kill", "link", "daemon", "start", "system", "end"}

Flow ==
    /\ at \in [Threads -> Places]
    /\ \A t \in Threads :
          /\ at[t] = "system" <=> pc[t] # "idle"
          /\ at[t] = "system" => cmd[t] \in Commands
          /\ at[t] \notin {"system", "end"} => cmd[t] = None
          /\ at[t] = "end" /\ cmd[t] = "kill" => ret[t] = "error"
          /\ pc[t] = "restore" /\ t \in noFork => ret[t] = "error"
          /\ pc[t] \in {"fork", "wait"} => t \notin noFork

(* t's command has run.                                                    *)
Executed(t) == \/ child[t] \in {"zombie", "gone"}
               \/ pc[t] = "restore" /\ t \notin noFork

(* Calls of startAvahi that overlap are blind.                             *)
Alone == \A t, u \in Threads : t # u /\ Starting(t) /\ Starting(u) => t \in blind

(* A call that is not blind knows the daemons: it starts one only when     *)
(* there is none, and kills the one there is.                              *)
Sighted ==
    \A t \in Threads \ blind :
        /\ at[t] = "start" => Daemons = {}
        /\ cmd[t] = "start" /\ pc[t] \in {"fork", "wait"} /\ ~Executed(t) => Daemons = {}
        /\ at[t] = "system" /\ cmd[t] = "kill" =>
              Daemons = IF Executed(t) THEN {} ELSE Running(Avahi)

AtMostOne == doubled \/ \A p, q \in Daemons : p = q

(* A start that has run has left a daemon, unless one has ended since.     *)
Left ==
    \A t \in Threads :
        cmd[t] = "start" /\ (at[t] = "end" \/ pc[t] = "restore" \/ Executed(t)) =>
            t \in noFork \/ t \in undone \/ Daemons # {}

DInv == Flow /\ Alone /\ Sighted /\ AtMostOne /\ Left

-----------------------------------------------------------------------------
(* Every step of a handler is a step of its mySystem, or none; a process   *)
(* that comes or goes is none.                                             *)
LEMMA StepIsSystemStep == [ControlNext]_all => [Next]_vars
  <1> SUFFICES ASSUME [ControlNext]_all PROVE [Next]_vars
    OBVIOUS
  <1>1. CASE UNCHANGED all
    BY <1>1 DEF all, vars
  <1>2. CASE Environment
    BY <1>2 DEF Environment, ProcessStarts, ProcessEnds, Exec, vars
  <1>3. ASSUME NEW t \in Threads, Handler(t) PROVE [Next]_vars
    <2>1. CASE \E name \in Names : KillByProcessName(t, name)
      BY <2>1 DEF KillByProcessName
    <2>2. CASE KillPids(t) \/ StartDaemon(t)
      BY <2>2 DEF KillPids, StartDaemon, System, Next
    <2>3. CASE StartAvahi(t) \/ StopAvahi(t)
      BY <2>3 DEF StartAvahi, StopAvahi, System, Next
    <2>4. CASE CheckLink(t)
      BY <2>4 DEF CheckLink
    <2>5. CASE CheckDaemon(t)
      BY <2>5 DEF CheckDaemon, System, Next
    <2>6. CASE Return(t)
      BY <2>6 DEF Return, Next
    <2>7. CASE ForkShell(t) \/ Collect(t)
      BY <2>7 DEF ForkShell, Collect, Next
    <2>8. CASE RunCommand(t)
      BY <2>8 DEF RunCommand, Next
    <2>9. CASE SystemReturn(t)
      BY <2>9 DEF SystemReturn, Next
    <2> QED
      BY <1>3, <2>1, <2>2, <2>3, <2>4, <2>5, <2>6, <2>7, <2>8, <2>9 DEF Handler
  <1> QED
    BY <1>1, <1>2, <1>3 DEF ControlNext

(* killByProcessName, startAvahi and stopAvahi use mySystem as MySystem    *)
(* allows (RjcoreServiceApplication.cpp 74, RjcoreServiceNetwork.cpp       *)
(* 125-142, 160).                                                          *)
THEOREM ImplementsMySystem == ControlSpec => Spec
  <1>1. ControlInit => Init
    BY DEF ControlInit
  <1> QED
    BY <1>1, StepIsSystemStep, PTL DEF ControlSpec, Spec

(* Under these handlers, too, a false error of mySystem needs an overlap   *)
(* and an inherited SIG_IGN (RjcoreService.cpp 138-143).                   *)
THEOREM ErrorsExplainedInHandlers == ControlSpec => []FalseErrorNeedsOverlap
  BY ImplementsMySystem, ErrorsExplained, PTL

(* ... and calls that do not overlap leave the disposition as it was.      *)
THEOREM RestoresSeriallyInHandlers == ControlSpec => []RestoredUnlessOverlapped
  BY ImplementsMySystem, RestoresSerially, PTL

-----------------------------------------------------------------------------
(* What snprintf leaves of a list of pids names no others, but for the one *)
(* it cut.                                                                 *)
LEMMA PrintedPids ==
    ASSUME NEW S \in SUBSET Pids, NEW w \in Printed(S)
    PROVE  w[1] \in SUBSET S /\ w[2] \in SUBSET Nat
  <1>1. CASE Cardinality(S) <= Fits
    BY <1>1 DEF Printed
  <1>2. CASE ~(Cardinality(S) <= Fits)
    <2>1. PICK W \in SUBSET S :
             w \in {<<W, {}>>} \cup {<<W, {r}>> : r \in UNION {Stumps(p) : p \in S \ W}}
      BY <1>2 DEF Printed
    <2>2. CASE w = <<W, {}>>
      BY <2>2
    <2>3. CASE w # <<W, {}>>
      <3>1. PICK p \in S : \E r \in Stumps(p) : w = <<W, {r}>>
        BY <2>1, <2>3
      <3>2. Stumps(p) \subseteq Nat
        BY PidsAssumption DEF Stumps
      <3>3. QED
        BY <3>1, <3>2
    <2> QED
      BY <2>2, <2>3
  <1> QED
    BY <1>1, <1>2

LEMMA ControlInitInv == ControlInit => CInv
  BY DEF ControlInit, CInv, ControlType, Fresh, NoList, Lists, Names

(* Processes that end are remembered as stale for every list they are on.  *)
LEMMA EndKeepsFresh ==
    ASSUME CInv, NEW S, NEW t,
           list' \in [Threads -> Lists],
           \A u \in Threads : list'[u] = list[u] \/ list'[u] = NoList,
           End(S, t)
    PROVE  /\ proc' \in [Pids -> Names \cup {Launching, None}]
           /\ stale' \in [Threads -> SUBSET Pids]
           /\ Fresh'
  <1>1. proc' \in [Pids -> Names \cup {Launching, None}]
    BY DEF End, CInv, ControlType
  <1>2. stale' \in [Threads -> SUBSET Pids]
    BY DEF End, Lists
  <1>3. ASSUME NEW u \in Threads, NEW p \in list'[u].whole
        PROVE  \/ p \in stale'[u]
               \/ proc'[p] = list'[u].name /\ list'[u].name \in Names
    <2>1. list'[u] = list[u] /\ p \in Pids
      BY <1>3 DEF NoList, CInv, ControlType, Lists
    <2>2. stale'[u] = (stale[u] \cup S) \cap list'[u].whole
      BY DEF End
    <2>3. p \notin S => proc'[p] = proc[p]
      BY <2>1 DEF End
    <2> QED
      BY <1>3, <2>1, <2>2, <2>3 DEF CInv, Fresh
  <1> QED
    BY <1>1, <1>2, <1>3 DEF Fresh

(* A step that leaves the lists alone, and gives pids only to processes    *)
(* that nobody can have listed.                                            *)
LEMMA QuietKeepsFresh ==
    ASSUME CInv, UNCHANGED <<list, stale>>,
           proc' \in [Pids -> Names \cup {Launching, None}],
           \A p \in Pids : proc'[p] = proc[p] \/ proc[p] \in {Launching, None}
    PROVE  Fresh'
  BY NamesAssumption DEF CInv, ControlType, Fresh, Lists

LEMMA ControlNextInv == CInv /\ [ControlNext]_all => CInv'
  <1> SUFFICES ASSUME CInv, [ControlNext]_all PROVE CInv'
    OBVIOUS
  <1> USE DEF CInv, ControlType
  <1>1. CASE UNCHANGED all
    BY <1>1 DEF all, ctl, hist, Fresh
  <1>2. CASE Environment
    <2>1. PICK p \in Pids : ProcessStarts(p) \/ ProcessEnds(p) \/ Exec(p)
      BY <1>2 DEF Environment
    <2>2. CASE ProcessStarts(p) \/ Exec(p)
      <3>1. /\ UNCHANGED <<cmd, list, stale>>
            /\ proc' \in [Pids -> Names \cup {Launching, None}]
            /\ \A q \in Pids : proc'[q] = proc[q] \/ proc[q] \in {Launching, None}
        BY <2>2 DEF ProcessStarts, Exec, hist, Names
      <3> QED
        BY <3>1, QuietKeepsFresh
    <2>3. CASE ProcessEnds(p)
      BY <2>3, EndKeepsFresh DEF ProcessEnds
    <2> QED
      BY <2>1, <2>2, <2>3
  <1>3. ASSUME NEW t \in Threads, Handler(t) PROVE CInv'
    <2>1. ASSUME NEW name \in Names, KillByProcessName(t, name) PROVE CInv'
      <3>1. UNCHANGED <<proc, cmd, stale>>
        BY <2>1 DEF KillByProcessName, hist
      <3>2. CASE UNCHANGED list
        BY <3>1, <3>2 DEF Fresh
      <3>3. CASE \E w \in Printed(Running(name)) :
                    SetList(t, [name |-> name, whole |-> w[1], cut |-> w[2]])
        <4>1. PICK w \in Printed(Running(name)) :
                 SetList(t, [name |-> name, whole |-> w[1], cut |-> w[2]])
          BY <3>3
        <4>2. w[1] \in SUBSET Running(name) /\ w[2] \in SUBSET Nat
          BY PrintedPids DEF Running
        <4>3. list' \in [Threads -> Lists]
          BY <4>1, <4>2 DEF SetList, Lists, Running
        <4>4. Fresh'
          BY <3>1, <4>1, <4>2 DEF Fresh, SetList, Running
        <4> QED
          BY <3>1, <4>3, <4>4
      <3> QED
        BY <2>1, <3>2, <3>3 DEF KillByProcessName
    <2>2. CASE KillPids(t) \/ StartDaemon(t)
      BY <2>2 DEF KillPids, StartDaemon, System, hist, Fresh, Commands
    <2>3. CASE StartAvahi(t) \/ StopAvahi(t)
      BY <2>3 DEF StartAvahi, StopAvahi, System, hist, Fresh, Commands
    <2>4. CASE CheckLink(t)
      BY <2>4 DEF CheckLink, Fresh
    <2>5. CASE CheckDaemon(t)
      BY <2>5 DEF CheckDaemon, System, Fresh, Commands
    <2>6. CASE Return(t)
      BY <2>6 DEF Return, NoList, Lists, Fresh
    <2>7. CASE ForkShell(t) \/ Collect(t)
      BY <2>7 DEF ForkShell, Collect, ctl, hist, Fresh
    <2>8. CASE SystemReturn(t)
      BY <2>8 DEF SystemReturn, hist, Fresh
    <2>9. CASE RunCommand(t)
      <3>1. UNCHANGED cmd
        BY <2>9 DEF RunCommand
      <3>2. CASE KillList(t)
        BY <3>1, <3>2, EndKeepsFresh DEF KillList, NoList, Lists
      <3>3. CASE UNCHANGED list /\ Config(t)
        BY <3>1, <3>3 DEF Config, hist, Fresh
      <3>4. CASE UNCHANGED list /\ KillDaemon(t)
        <4>1. CASE UNCHANGED <<proc, stale>>
          BY <3>1, <3>4, <4>1 DEF Fresh
        <4>2. CASE End(Running(Avahi), t)
          BY <3>1, <3>4, <4>2, EndKeepsFresh
        <4> QED
          BY <3>4, <4>1, <4>2 DEF KillDaemon
      <3>5. CASE UNCHANGED list /\ Launch(t)
        <4>1. /\ proc' \in [Pids -> Names \cup {Launching, None}]
              /\ \A q \in Pids : proc'[q] = proc[q] \/ proc[q] \in {Launching, None}
              /\ UNCHANGED stale
          BY <3>5 DEF Launch
        <4> QED
          BY <3>1, <3>5, <4>1, QuietKeepsFresh
      <3> QED
        BY <2>9, <3>2, <3>3, <3>4, <3>5 DEF RunCommand
    <2> QED
      BY <1>3, <2>1, <2>2, <2>3, <2>4, <2>5, <2>6, <2>7, <2>8, <2>9 DEF Handler
  <1> QED
    BY <1>1, <1>2, <1>3 DEF ControlNext

-----------------------------------------------------------------------------
(* Only the end of a thread's own command changes the state of its child   *)
(* from running.                                                           *)
LEMMA KillStep == IInv /\ CInv /\ [ControlNext]_all => [SparesOthers]_all
  <1> SUFFICES ASSUME IInv, CInv, [ControlNext]_all,
                      NEW t \in Threads,
                      cmd[t] = "kill9", child[t] = "running", child'[t] # "running",
                      NEW p \in Pids, proc[p] # proc'[p]
               PROVE  proc[p] = list[t].name \/ p \in stale[t] \/ p \in list[t].cut
    BY DEF SparesOthers
  <1>1. pc[t] = "wait"
    BY DEF IInv, ChildOwned
  <1>2. child \in [Threads -> {"none", "running", "zombie", "gone"}]
    BY DEF IInv, TypeOK
  <1>3. PICK u \in Threads : Handler(u)
    BY DEF ControlNext, all, vars, Environment, ProcessStarts, ProcessEnds, Exec
  <1>4. RunCommand(u)
    <2>1. ~\E name \in Names : KillByProcessName(u, name)
      BY DEF KillByProcessName, vars
    <2>2. ~(KillPids(u) \/ StartDaemon(u) \/ StopAvahi(u) \/ ForkShell(u) \/ Collect(u)
             \/ SystemReturn(u))
      BY DEF KillPids, StartDaemon, StopAvahi, ForkShell, Collect, SystemReturn, ctl
    <2>3. ~(StartAvahi(u) \/ CheckLink(u) \/ CheckDaemon(u) \/ Return(u))
      BY DEF StartAvahi, CheckLink, CheckDaemon, Return
    <2> QED
      BY <1>3, <2>1, <2>2, <2>3 DEF Handler
  <1>5. u = t
    BY <1>2, <1>4 DEF RunCommand, ChildExit
  <1>6. KillList(t)
    BY <1>4, <1>5 DEF RunCommand, Config, KillDaemon, Launch
  <1>7. p \in list[t].whole \cup list[t].cut
    BY <1>6 DEF KillList, End
  <1> QED
    BY <1>7 DEF CInv, Fresh

(* kill -9 with the pids pidof printed a moment ago hits a process of      *)
(* another name only through a pid used again or cut (Application.cpp 73), *)
(* for any number of threads, processes and pids.                          *)
THEOREM KillsNamed == ControlSpec => KillsOnlyNamed
  <1>1. ControlSpec => []IInv
    BY ImplementsMySystem, InvHolds, PTL
  <1> QED
    BY <1>1, ControlInitInv, ControlNextInv, KillStep, PTL DEF ControlSpec, KillsOnlyNamed

-----------------------------------------------------------------------------
LEMMA DaemonInitInv == ControlInit => DInv
  BY NamesAssumption DEF ControlInit, Init, DInv, Flow, Places, Executed, Alone, Starting,
       Sighted, AtMostOne, Left, Daemons, Running, Names

(* Ending processes takes them from the daemons, and from those pidof      *)
(* shows.                                                                  *)
LEMMA EndDaemons ==
    ASSUME NEW S, NEW t, End(S, t)
    PROVE  Daemons' = Daemons \ S /\ Running(Avahi)' = Running(Avahi) \ S
  BY NamesAssumption DEF End, Daemons, Running, Names

(* A step that changes no process changes no daemon.                       *)
LEMMA SameDaemons ==
    ASSUME UNCHANGED proc
    PROVE  Daemons' = Daemons /\ Running(Avahi)' = Running(Avahi)
  BY DEF Daemons, Running

(* Processes that come and go, and the shell that becomes the daemon.      *)
LEMMA EnvironmentDInv == IInv /\ CInv /\ DInv /\ Environment => DInv'
  <1> SUFFICES ASSUME IInv, CInv, DInv,
                      NEW p \in Pids, ProcessStarts(p) \/ ProcessEnds(p) \/ Exec(p)
               PROVE  DInv'
    BY DEF Environment
  <1>1. UNCHANGED <<vars, at, cmd, list, blind, doubled>>
    BY DEF ProcessStarts, ProcessEnds, Exec, hist
  <1>2. Flow' /\ Alone'
    BY <1>1 DEF DInv, Flow, Alone, Starting, vars
  <1>3. \A t \in Threads : Executed(t)' = Executed(t)
    BY <1>1 DEF Executed, vars
  <1>4. CASE ProcessEnds(p)
    <2>1. Daemons' = Daemons \ {p} /\ Running(Avahi)' = Running(Avahi) \ {p}
      BY <1>4, EndDaemons DEF ProcessEnds
    <2>2. Sighted' /\ AtMostOne'
      BY <1>1, <1>3, <2>1 DEF DInv, Sighted, AtMostOne, vars
    <2>3. Left'
      BY <1>1, <1>3, <1>4, <2>1, NamesAssumption DEF DInv, Left, vars, ProcessEnds, End
    <2> QED
      BY <1>2, <2>2, <2>3 DEF DInv
  <1>5. CASE ProcessStarts(p) \/ Exec(p)
    <2>1. UNCHANGED undone
      BY <1>5 DEF ProcessStarts, Exec, hist
    <2>2. Daemons' = Daemons
      BY <1>5, NamesAssumption DEF ProcessStarts, Exec, Daemons, Names, CInv, ControlType
    <2>3. Daemons \in {{}, Running(Avahi)} => Running(Avahi)' = Running(Avahi)
      BY <1>5, NamesAssumption
         DEF ProcessStarts, Exec, Daemons, Running, Names, CInv, ControlType
    <2>4. Sighted' /\ AtMostOne'
      BY <1>1, <1>3, <2>2, <2>3 DEF DInv, Sighted, AtMostOne, vars
    <2>5. Left'
      BY <1>1, <1>3, <2>1, <2>2 DEF DInv, Left, vars
    <2> QED
      BY <1>2, <2>4, <2>5 DEF DInv
  <1> QED
    BY <1>4, <1>5

(* The command of a thread runs.                                           *)
LEMMA RunCommandDInv ==
    ASSUME IInv, CInv, DInv, NEW t \in Threads, RunCommand(t)
    PROVE  DInv'
  <1>1. /\ child[t] = "running" /\ pc[t] = "wait" /\ at[t] = "system"
        /\ cmd[t] \in Commands /\ t \notin noFork
    BY DEF RunCommand, ChildExit, IInv, ChildOwned, DInv, Flow
  <1>2. /\ UNCHANGED <<pc, ret, noFork, at, cmd>>
        /\ child' \in [Threads -> {"none", "running", "zombie", "gone"}]
        /\ child'[t] \in {"zombie", "gone"}
        /\ \A u \in Threads \ {t} : child'[u] = child[u]
    BY DEF RunCommand, ChildExit, IInv, TypeOK
  <1>3. Executed(t)' /\ ~Executed(t) /\ \A u \in Threads \ {t} : Executed(u)' = Executed(u)
    BY <1>1, <1>2 DEF Executed
  <1>4. blind \subseteq blind'
    BY DEF RunCommand, KillList, Config, KillDaemon, Launch, hist
  <1>5. Flow' /\ Alone'
    BY <1>2, <1>4 DEF DInv, Flow, Alone, Starting
  <1>6. ASSUME NEW S, End(S, t), UNCHANGED <<blind, doubled>>, cmd[t] # "start",
               cmd[t] = "kill" => S = Running(Avahi)
        PROVE  DInv'
    <2>1. Daemons' = Daemons \ S /\ Running(Avahi)' = Running(Avahi) \ S
      BY <1>6, EndDaemons
    <2>2. Sighted'
      BY <1>1, <1>2, <1>3, <1>6, <2>1 DEF DInv, Sighted
    <2>3. AtMostOne'
      BY <1>6, <2>1 DEF DInv, AtMostOne
    <2>4. Left'
      BY <1>2, <1>3, <1>6, <2>1 DEF DInv, Left, End
    <2> QED
      BY <1>5, <2>2, <2>3, <2>4 DEF DInv
  <1>7. ASSUME UNCHANGED <<proc, undone, doubled>>, cmd[t] # "start",
               cmd[t] = "kill" => t \in blind'
        PROVE  DInv'
    <2>1. Daemons' = Daemons /\ Running(Avahi)' = Running(Avahi)
      BY <1>7, SameDaemons
    <2>2. Sighted'
      BY <1>1, <1>2, <1>3, <1>4, <1>7, <2>1 DEF DInv, Sighted
    <2>3. AtMostOne' /\ Left'
      BY <1>2, <1>3, <1>7, <2>1 DEF DInv, AtMostOne, Left
    <2> QED
      BY <1>5, <2>2, <2>3 DEF DInv
  <1>8. CASE KillList(t)
    BY <1>6, <1>8 DEF KillList
  <1>9. CASE Config(t)
    BY <1>7, <1>9 DEF Config, hist
  <1>10. CASE KillDaemon(t)
    BY <1>6, <1>7, <1>10 DEF KillDaemon
  <1>11. CASE Launch(t)
    <2>1. Starting(t)
      BY <1>1, <1>11 DEF Launch, Starting
    <2>2. ASSUME NEW u \in Threads \ {t}, u \notin blind PROVE ~Starting(u)
      BY <2>1, <2>2 DEF DInv, Alone
    <2>3. UNCHANGED blind
      BY <1>11 DEF Launch
    <2>4. Sighted'
      BY <1>1, <1>2, <1>3, <1>11, <2>2, <2>3 DEF DInv, Sighted, Starting, Launch, Flow
    <2>5. CASE UNCHANGED <<proc, doubled>> /\ undone' = undone \cup {t}
      BY <1>2, <1>3, <1>5, <2>4, <2>5, SameDaemons DEF DInv, AtMostOne, Left
    <2>6. ASSUME NEW p \in Pids, proc[p] = None,
                 proc' = [proc EXCEPT ![p] = Launching],
                 doubled' = (doubled \/ t \in blind), UNCHANGED undone
          PROVE  DInv'
      <3>1. Daemons' = Daemons \cup {p}
        BY <2>6 DEF Daemons, CInv, ControlType
      <3>2. t \notin blind => Daemons = {}
        BY <1>1, <1>3, <1>11 DEF DInv, Sighted, Launch
      <3>3. AtMostOne'
        BY <2>6, <3>1, <3>2 DEF DInv, AtMostOne
      <3>4. Left'
        BY <1>2, <1>3, <2>6, <3>1 DEF DInv, Left
      <3> QED
        BY <1>5, <2>4, <3>3, <3>4 DEF DInv
    <2> QED
      BY <1>11, <2>5, <2>6 DEF Launch
  <1> QED
    BY <1>8, <1>9, <1>10, <1>11 DEF RunCommand

(* The other steps of a handler change no process.                         *)
LEMMA HandlerDInv ==
    ASSUME IInv, CInv, DInv, NEW t \in Threads, Handler(t), ~RunCommand(t)
    PROVE  DInv'
  <1> USE DEF DInv
  <1>1. UNCHANGED <<proc, doubled>>
    BY DEF Handler, KillByProcessName, KillPids, StartAvahi, CheckLink, CheckDaemon,
           StartDaemon, StopAvahi, Return, ForkShell, Collect, SystemReturn, ctl, hist
  <1>2. Daemons' = Daemons /\ Running(Avahi)' = Running(Avahi)
    BY <1>1, SameDaemons
  <1>3. AtMostOne'
    BY <1>1, <1>2 DEF AtMostOne
  <1>4. /\ pc \in [Threads -> {"idle", "fork", "wait", "restore"}]
        /\ child \in [Threads -> {"none", "running", "zombie", "gone"}]
        /\ ret \in [Threads -> {"none", "status", "error"}]
        /\ noFork \in SUBSET Threads
        /\ cmd \in [Threads -> Commands \cup {None}]
        /\ at \in [Threads -> Places]
        /\ \A u \in Threads : child[u] # "none" => pc[u] = "wait"
    BY DEF IInv, TypeOK, ChildOwned, CInv, ControlType, Flow
  <1>5. ASSUME NEW place \in Places \ {"system"}, Goto(t, place), at[t] # "system",
               UNCHANGED <<vars, cmd, undone>>, blind \subseteq blind',
               place \in {"idle", "kill", "link", "daemon", "start"} => cmd[t] = None,
               place = "end" => cmd[t] # "kill" /\ cmd[t] # "start",
               place = "start" => t \in blind' \/ Daemons = {},
               place \in {"link", "daemon", "start"} =>
                   \/ Starting(t)
                   \/ \A u \in Threads \ {t} : Starting(u) => {t, u} \subseteq blind'
        PROVE  DInv'
    <2>1. \A u \in Threads : Executed(u)' = Executed(u)
      BY <1>5 DEF Executed, vars
    <2>2. Flow'
      BY <1>4, <1>5 DEF Flow, Goto, vars, Places
    <2>3. Alone'
      BY <1>4, <1>5 DEF Flow, Goto, Alone, Starting
    <2>4. Sighted'
      BY <1>2, <1>4, <1>5, <2>1 DEF Sighted, Goto, Flow, vars
    <2>5. Left'
      BY <1>2, <1>4, <1>5, <2>1 DEF Left, Goto, Flow, vars
    <2> QED
      BY <1>3, <2>2, <2>3, <2>4, <2>5
  <1>6. ASSUME NEW c \in Commands, System(t, c), at[t] \notin {"system", "end"},
               UNCHANGED undone, blind \subseteq blind',
               c = "start" => t \in blind' \/ Daemons = {},
               c = "kill" => t \in blind' \/ Daemons = Running(Avahi),
               c \in {"config", "kill", "start"} =>
                   \/ Starting(t)
                   \/ \A u \in Threads \ {t} : Starting(u) => {t, u} \subseteq blind'
        PROVE  DInv'
    <2>1. /\ pc' = [pc EXCEPT ![t] = "fork"] /\ child' = [child EXCEPT ![t] = "none"]
          /\ ret' = [ret EXCEPT ![t] = "none"] /\ noFork' = noFork \ {t}
          /\ cmd' = [cmd EXCEPT ![t] = c] /\ at' = [at EXCEPT ![t] = "system"]
      BY <1>6 DEF System, SaveHandler, Goto
    <2>2. ~Executed(t)' /\ \A u \in Threads \ {t} : Executed(u)' = Executed(u)
      BY <1>4, <2>1 DEF Executed
    <2>3. Flow'
      BY <1>4, <2>1 DEF Flow, Places
    <2>4. Alone'
      BY <1>4, <1>6, <2>1 DEF Alone, Starting
    <2>5. Sighted'
      BY <1>2, <1>4, <1>6, <2>1, <2>2 DEF Sighted
    <2>6. Left'
      BY <1>2, <1>4, <1>6, <2>1, <2>2 DEF Left
    <2> QED
      BY <1>3, <2>3, <2>4, <2>5, <2>6
  <1>7. CASE \E name \in Names : KillByProcessName(t, name)
    BY <1>4, <1>5, <1>7, NamesAssumption
       DEF KillByProcessName, hist, Places, Flow, Commands
  <1>8. CASE KillPids(t)
    BY <1>6, <1>8 DEF KillPids, hist, Commands
  <1>9. CASE StartAvahi(t)
    <2>1. \A u \in Threads \ {t} : Starting(u) => {t, u} \subseteq blind'
      BY <1>9 DEF StartAvahi
    <2>2. blind \subseteq blind' /\ UNCHANGED undone /\ at[t] = "idle"
      BY <1>9 DEF StartAvahi
    <2>3. CASE System(t, "config")
      BY <1>6, <2>1, <2>2, <2>3 DEF Commands
    <2>4. CASE Goto(t, "link") /\ UNCHANGED <<vars, cmd>>
      BY <1>5, <2>1, <2>2, <2>4 DEF Places, Flow
    <2> QED
      BY <1>9, <2>3, <2>4 DEF StartAvahi
  <1>10. CASE CheckLink(t)
    <2>1. /\ UNCHANGED <<vars, cmd, undone>> /\ at[t] = "link" /\ cmd[t] = None
          /\ blind \subseteq blind' /\ Starting(t)
      BY <1>10 DEF CheckLink, Flow, Starting
    <2>2. \/ Goto(t, "end") \/ Goto(t, "daemon")
          \/ Goto(t, "start") /\ t \in blind'
      BY <1>10 DEF CheckLink
    <2> QED
      BY <1>5, <2>1, <2>2, NamesAssumption DEF Places, Commands
  <1>11. CASE CheckDaemon(t)
    <2>1. /\ UNCHANGED undone /\ at[t] = "daemon" /\ cmd[t] = None
          /\ blind \subseteq blind' /\ Starting(t)
      BY <1>11 DEF CheckDaemon, Flow, Starting
    <2>2. CASE System(t, "kill")
      <3>1. t \in blind' \/ Daemons = Running(Avahi)
        BY <1>11 DEF CheckDaemon
      <3> QED
        BY <1>6, <2>1, <2>2, <3>1 DEF Commands
    <2>3. CASE Goto(t, "start") /\ UNCHANGED <<vars, cmd>>
      <3>1. t \in blind' \/ Daemons = {}
        BY <1>4, <1>11, <2>3 DEF CheckDaemon, Goto
      <3> QED
        BY <1>5, <2>1, <2>3, <3>1 DEF Places
    <2> QED
      BY <1>11, <2>2, <2>3 DEF CheckDaemon
  <1>12. CASE StartDaemon(t)
    <2>1. t \in blind \/ Daemons = {}
      BY <1>12 DEF StartDaemon, Sighted
    <2> QED
      BY <1>6, <1>12, <2>1 DEF StartDaemon, hist, Commands, Starting
  <1>13. CASE StopAvahi(t)
    <2>1. /\ UNCHANGED <<blind, undone>> /\ at[t] = "idle" /\ cmd[t] = None
      BY <1>13 DEF StopAvahi, hist, Flow
    <2> QED
      BY <1>5, <1>6, <1>13, <2>1, NamesAssumption DEF StopAvahi, Commands, Places
  <1>14. CASE Return(t)
    <2>1. /\ at[t] = "end" /\ at' = [at EXCEPT ![t] = "idle"]
          /\ cmd' = [cmd EXCEPT ![t] = None] /\ blind' = blind \ {t}
          /\ undone' = undone \ {t} /\ noFork' = noFork \ {t}
          /\ ret' = [ret EXCEPT ![t] = "none"] /\ UNCHANGED <<pc, child>>
          /\ pc[t] = "idle"
      BY <1>14 DEF Return, Forget, Goto
    <2>2. \A u \in Threads \ {t} : Executed(u)' = Executed(u)
      BY <2>1 DEF Executed
    <2>3. Flow'
      BY <1>4, <2>1 DEF Flow, Places
    <2>4. Alone'
      BY <1>4, <2>1 DEF Alone, Starting
    <2>5. Sighted'
      BY <1>2, <1>4, <2>1, <2>2 DEF Sighted
    <2>6. Left'
      BY <1>2, <1>4, <2>1, <2>2, NamesAssumption DEF Left, Commands
    <2> QED
      BY <1>3, <2>3, <2>4, <2>5, <2>6
  <1>15. CASE ForkShell(t) \/ Collect(t)
    <2>1. UNCHANGED <<at, cmd, blind, undone>>
      BY <1>15 DEF ForkShell, Collect, ctl, hist
    <2>2. \A u \in Threads : Executed(u)' = Executed(u)
      BY <1>4, <1>15 DEF ForkShell, Collect, Fork, WaitChild, Executed, Flow
    <2>3. Flow'
      BY <1>4, <1>15, <2>1 DEF Flow, ForkShell, Collect, Fork, WaitChild
    <2>4. Alone'
      BY <2>1 DEF Alone, Starting
    <2>5. Sighted'
      BY <1>2, <1>4, <1>15, <2>1, <2>2 DEF Sighted, ForkShell, Collect, Fork, WaitChild
    <2>6. Left'
      BY <1>2, <1>4, <1>15, <2>1, <2>2
         DEF Left, ForkShell, Collect, Fork, WaitChild, Executed, Flow
    <2> QED
      BY <1>3, <2>3, <2>4, <2>5, <2>6
  <1>16. CASE SystemReturn(t)
    <2>1. /\ pc[t] = "restore" /\ pc' = [pc EXCEPT ![t] = "idle"]
          /\ UNCHANGED <<child, ret, noFork, blind, undone>>
          /\ at[t] = "system" /\ child[t] = "none" /\ cmd[t] \in Commands
      BY <1>4, <1>16 DEF SystemReturn, Restore, hist, Flow
    <2>2. PICK place \in {"end", "link", "start"} :
             /\ at' = [at EXCEPT ![t] = place]
             /\ cmd' = [cmd EXCEPT ![t] = IF place = "end" THEN cmd[t] ELSE None]
             /\ place = "start" => cmd[t] = "kill" /\ ret[t] # "error"
             /\ place = "link" => cmd[t] = "config"
             /\ place = "end" /\ cmd[t] = "kill" => ret[t] = "error"
      BY <1>4, <1>16, <2>1 DEF SystemReturn, Goto, Then, Commands
    <2>3. /\ ~Executed(t)' /\ \A u \in Threads \ {t} : Executed(u)' = Executed(u)
          /\ ret[t] # "error" => Executed(t)
      BY <1>4, <2>1 DEF Executed, Flow
    <2>4. Flow'
      BY <1>4, <2>1, <2>2 DEF Flow, Places
    <2>5. Alone'
      BY <1>4, <2>1, <2>2 DEF Alone, Starting, Commands
    <2>6. Sighted'
      BY <1>2, <1>4, <2>1, <2>2, <2>3 DEF Sighted
    <2>7. Left'
      BY <1>2, <1>4, <2>1, <2>2, <2>3, NamesAssumption DEF Left, Commands
    <2> QED
      BY <1>3, <2>4, <2>5, <2>6, <2>7
  <1> QED
    BY <1>7, <1>8, <1>9, <1>10, <1>11, <1>12, <1>13, <1>14, <1>15, <1>16 DEF Handler

LEMMA DaemonNextInv == IInv /\ CInv /\ DInv /\ [ControlNext]_all => DInv'
  <1>1. ASSUME DInv, UNCHANGED all PROVE DInv'
    BY <1>1 DEF all, ctl, hist, vars, DInv, Flow, Alone, Starting, Sighted, Executed,
                AtMostOne, Left, Daemons, Running
  <1> QED
    BY <1>1, EnvironmentDInv, RunCommandDInv, HandlerDInv DEF ControlNext

LEMMA ControlInvs == ControlSpec => [](IInv /\ CInv /\ DInv)
  <1>1. ControlSpec => []IInv
    BY ImplementsMySystem, InvHolds, PTL
  <1> QED
    BY <1>1, ControlInitInv, ControlNextInv, DaemonInitInv, DaemonNextInv, PTL
       DEF ControlSpec

(* startAvahi leaves a daemon running (RjcoreServiceNetwork.cpp 131-145),  *)
(* with the exceptions StartLeavesDaemon names, for any number of threads. *)
THEOREM StartLeavesOne == ControlSpec => []StartLeavesDaemon
  <1>1. IInv /\ DInv => StartLeavesDaemon
    BY DEF IInv, DInv, Flow, Left, StartLeavesDaemon, FalseErrorNeedsOverlap
  <1> QED
    BY <1>1, ControlInvs, PTL

(* Without a call that could not see the first, there are never two        *)
(* daemons (RjcoreServiceNetwork.cpp 132-142).                             *)
THEOREM NeverTwoDaemons == ControlSpec => []OneDaemon
  <1>1. ASSUME DInv PROVE OneDaemon
    <2>1. CASE doubled
      BY <2>1 DEF OneDaemon
    <2>2. CASE Daemons = {}
      BY <2>2, FS_EmptySet DEF OneDaemon
    <2>3. CASE Daemons # {} /\ ~doubled
      <3>1. PICK p : Daemons = {p}
        BY <1>1, <2>3 DEF DInv, AtMostOne
      <3> QED
        BY <3>1, FS_Singleton DEF OneDaemon
    <2> QED
      BY <2>1, <2>2, <2>3
  <1> QED
    BY <1>1, ControlInvs, PTL
=============================================================================
