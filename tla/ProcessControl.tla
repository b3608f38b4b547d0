--------------------------- MODULE ProcessControl ---------------------------
(***************************************************************************)
(* killByProcessName (RjcoreServiceApplication.cpp) and startAvahi and     *)
(* stopAvahi (RjcoreServiceNetwork.cpp) on several binder threads, above   *)
(* MySystem, whose steps run their commands.  A command acts when its      *)
(* child ends; until then other threads, and processes that come and go on *)
(* their own, change what the handler had looked at.                       *)
(*                                                                         *)
(* executeCmd is one step here (ExecuteCmd shows what it returns): pidof   *)
(* and ethtool see one moment, or popen fails and the answer is "".  The   *)
(* avahi daemon and the scripts are external.  `avahi-autoipd ... &`       *)
(* leaves a shell that is not yet the daemon and that pidof does not list. *)
(***************************************************************************)
EXTENDS MySystem, FiniteSets

CONSTANTS
    Pids,       \* process numbers
    App, Avahi, \* process names
    Launching,  \* the name of a shell about to execute avahi-autoipd
    None,
    Fits,       \* how many pids fit into the 512 bytes of "kill -9 ..."
    MaxRunning  \* bound on the processes that run at the same time

ASSUME PidsAssumption == Pids \subseteq Nat
ASSUME FitsAssumption == Fits \in Nat
ASSUME MaxRunningAssumption == MaxRunning \in Nat

Names == {App, Avahi}

Commands == {"kill9", "config", "kill", "stop", "start"}

ASSUME NamesAssumption ==
    /\ App # Avahi /\ Launching \notin Names
    /\ None \notin Names \cup {Launching} \cup Threads \cup Commands

VARIABLES
    proc,     \* proc[p]: the name of process p, None if there is none
    at,       \* at[t]: where t's handler stands
    cmd,      \* cmd[t]: the last command it gave to mySystem, None before
    list,     \* list[t]: what its pidof printed, as far as it fits in cmd
    stale,    \* stale[t]: pids of list[t] whose process has ended since (history)
    blind,    \* startAvahi calls that could not see every daemon (history)
    doubled,  \* such a call has started another one (history)
    undone    \* startAvahi calls after whose start a daemon ended (history)

hist == <<stale, blind, doubled, undone>>
ctl  == <<proc, at, cmd, list, hist>>
all  == <<vars, ctl>>

NoList  == [name |-> None, whole |-> {}, cut |-> {}]
Daemons == {p \in Pids : proc[p] \in {Avahi, Launching}}
Running(name) == {p \in Pids : proc[p] = name}
Room == Cardinality(Pids \ Running(None)) < MaxRunning

ControlInit ==
    /\ Init
    /\ proc = [p \in Pids |-> None]
    /\ at = [t \in Threads |-> "idle"]
    /\ cmd = [t \in Threads |-> None]
    /\ list = [t \in Threads |-> NoList]
    /\ stale = [t \in Threads |-> {}]
    /\ blind = {} /\ undone = {} /\ doubled = FALSE

Goto(t, place) == at' = [at EXCEPT ![t] = place]

-----------------------------------------------------------------------------
(* mySystem called with the command c: its first step, and then the others *)
System(t, c) ==
    /\ SaveHandler(t)
    /\ cmd' = [cmd EXCEPT ![t] = c]
    /\ Goto(t, "system")

ForkShell(t) == Fork(t) /\ UNCHANGED ctl

Collect(t) == WaitChild(t) /\ UNCHANGED ctl

(* The processes S end; by whose doing is t, or None.                      *)
End(S, t) ==
    /\ proc' = [p \in Pids |-> IF p \in S THEN None ELSE proc[p]]
    /\ stale' = [u \in Threads |-> (stale[u] \cup S) \cap list'[u].whole]
    /\ undone' = IF S \cap Daemons = {} THEN undone
                 ELSE undone \cup {u \in Threads \ {t} : cmd[u] = "start"}

(* kill -9 <the pids>: a pid nobody has is an error of kill's alone.       *)
KillList(t) ==
    /\ cmd[t] = "kill9"
    /\ list' = [list EXCEPT ![t] = NoList]
    /\ End(list[t].whole \cup list[t].cut, t)
    /\ UNCHANGED <<blind, doubled>>

(* config_avahi.sh prepares avahi's directory.                             *)
Config(t) ==
    cmd[t] = "config" /\ UNCHANGED <<proc, hist>>

(* avahi-autoipd --kill eth0 and shutdown_avahi.sh end the daemon, or fail *)
(* with a status nobody looks at.                                          *)
KillDaemon(t) ==
    /\ cmd[t] \in {"kill", "stop"}
    /\ \/ End(Running(Avahi), t) /\ UNCHANGED blind
       \/ blind' = blind \cup {t} /\ UNCHANGED <<proc, stale, undone>>
    /\ UNCHANGED doubled

(* avahi-autoipd ... & : the shell forks another for it, or cannot.        *)
Launch(t) ==
    /\ cmd[t] = "start"
    /\ \/ \E p \in Pids :
             /\ proc[p] = None /\ Room
             /\ proc' = [proc EXCEPT ![p] = Launching]
             /\ doubled' = (doubled \/ t \in blind)
             /\ UNCHANGED undone
       \/ undone' = undone \cup {t} /\ UNCHANGED <<proc, doubled>>
    /\ UNCHANGED <<stale, blind>>

RunCommand(t) ==
    /\ ChildExit(t)
    /\ \/ KillList(t)
       \/ UNCHANGED list /\ (Config(t) \/ KillDaemon(t) \/ Launch(t))
    /\ UNCHANGED <<at, cmd>>

(* Where the handlers go on after a command that did not return an error.  *)
ThenNoStart(c) ==    \* mutant: startAvahi returns after the kill
    IF c = "config" THEN "link" ELSE "end"

ThenUnchecked(c) ==  \* mutant: no look for a daemon after the script has run
    IF c \in {"config", "kill"} THEN "start" ELSE "end"

Then(c) == CASE c = "config" -> "link" [] c = "kill" -> "start" [] OTHER -> "end"

(* mySystem returns; an error ends every handler.                          *)
SystemReturn(t) ==
    /\ Restore(t)
    /\ Goto(t, IF ret[t] = "error" THEN "end" ELSE Then(cmd[t]))
    /\ cmd' = [cmd EXCEPT ![t] = IF at'[t] = "end" THEN @ ELSE None]
    /\ UNCHANGED <<proc, list, hist>>

Return(t) ==
    /\ at[t] = "end"
    /\ Forget(t)
    /\ Goto(t, "idle")
    /\ cmd' = [cmd EXCEPT ![t] = None]
    /\ list' = [list EXCEPT ![t] = NoList]
    /\ stale' = [stale EXCEPT ![t] = {}]
    /\ blind' = blind \ {t}
    /\ undone' = undone \ {t}
    /\ UNCHANGED <<proc, doubled>>

-----------------------------------------------------------------------------
(* The numbers that are left of p when some of its last digits, but not    *)
(* all, are cut off; a pid has at most five.                               *)
Stumps(p) == {p \div d : d \in {10, 100, 1000, 10000}} \ {0}

(* What snprintf leaves of the pids S in cmd: all of them, or as many as   *)
(* fit and perhaps the first digits of one more.                           *)
Printed(S) ==
    IF Cardinality(S) <= Fits THEN {<<S, {}>>}
    ELSE UNION {{<<W, {}>>} \cup {<<W, {r}>> : r \in UNION {Stumps(p) : p \in S \ W}} :
                   W \in {X \in SUBSET S : Cardinality(X) = Fits}}

StaticList(t, l) ==   \* mutant: a static buffer
    list' = [u \in Threads |-> IF u = t THEN l ELSE [l EXCEPT !.name = list[u].name]]

SetList(t, l) == list' = [list EXCEPT ![t] = l]

(* killByProcessName: getProcessId; "" (nothing runs, or popen failed) is  *)
(* the end of it ...                                                       *)
KillByProcessName(t, name) ==
    /\ at[t] = "idle"
    /\ \/ /\ Running(name) # {}
          /\ \E w \in Printed(Running(name)) :
                SetList(t, [name |-> name, whole |-> w[1], cut |-> w[2]])
          /\ Goto(t, "kill")
       \/ Goto(t, "end") /\ UNCHANGED list
    /\ UNCHANGED <<vars, proc, cmd, hist>>

(* ... and else the pids it printed are killed.                            *)
KillPids(t) ==
    /\ at[t] = "kill"
    /\ System(t, "kill9")
    /\ UNCHANGED <<proc, list, hist>>

-----------------------------------------------------------------------------
Starting(t) ==
    \/ at[t] \in {"link", "daemon", "start"}
    \/ at[t] = "system" /\ cmd[t] \in {"config", "kill", "start"}

(* startAvahi.  The directory is missing and there is a script to make it, *)
(* or not.  Calls that overlap cannot see what the other starts.           *)
StartAvahi(t) ==
    /\ at[t] = "idle"
    /\ LET others == {u \in Threads : Starting(u)}
       IN  blind' = IF others = {} THEN blind ELSE blind \cup others \cup {t}
    /\ \/ System(t, "config")
       \/ Goto(t, "link") /\ UNCHANGED <<vars, cmd>>
    /\ UNCHANGED <<proc, list, stale, doubled, undone>>

(* With the action script there, getNetcardState() == true && ...          *)
CheckLink(t) ==
    /\ at[t] = "link"
    /\ \/ Goto(t, "end") /\ UNCHANGED blind            \* no script
       \/ Goto(t, "daemon") /\ UNCHANGED blind
       \/ Goto(t, "start") /\ blind' = blind \cup {t}   \* no link, or popen failed
    /\ UNCHANGED <<vars, proc, cmd, list, stale, doubled, undone>>

(* ... getProcessId("avahi-autoipd") != "": then it is killed first.       *)
CheckDaemon(t) ==
    /\ at[t] = "daemon"
    /\ \/ Running(Avahi) # {} /\ System(t, "kill")
       \/ Goto(t, "start") /\ UNCHANGED <<vars, cmd>>
    /\ blind' = IF Daemons = Running(Avahi) /\ (Daemons = {} \/ at'[t] = "system")
                THEN blind ELSE blind \cup {t}
    /\ UNCHANGED <<proc, list, stale, doubled, undone>>

StartDaemon(t) ==
    /\ at[t] = "start"
    /\ System(t, "start")
    /\ UNCHANGED <<proc, list, hist>>

StopAvahi(t) ==
    /\ at[t] = "idle"
    /\ \/ System(t, "stop")
       \/ Goto(t, "end") /\ UNCHANGED <<vars, cmd>>   \* no script
    /\ UNCHANGED <<proc, list, hist>>

-----------------------------------------------------------------------------
(* Processes start and end by themselves and pids are used again; the      *)
(* launched shell becomes the daemon.                                      *)
ProcessStarts(p) ==
    /\ proc[p] = None /\ Room
    /\ proc' = [proc EXCEPT ![p] = App]
    /\ UNCHANGED <<vars, at, cmd, list, hist>>

ProcessEnds(p) ==
    /\ proc[p] # None
    /\ UNCHANGED <<vars, at, cmd, list, blind, doubled>>
    /\ End({p}, None)

Exec(p) ==
    /\ proc[p] = Launching
    /\ proc' = [proc EXCEPT ![p] = Avahi]
    /\ UNCHANGED <<vars, at, cmd, list, hist>>

Handler(t) ==
    \/ \E name \in Names : KillByProcessName(t, name)
    \/ KillPids(t) \/ StartAvahi(t) \/ CheckLink(t)
    \/ CheckDaemon(t) \/ StartDaemon(t) \/ StopAvahi(t) \/ Return(t)
    \/ ForkShell(t) \/ RunCommand(t) \/ Collect(t) \/ SystemReturn(t)

Environment == \E p \in Pids : ProcessStarts(p) \/ ProcessEnds(p) \/ Exec(p)

ControlNext == Environment \/ \E t \in Threads : Handler(t)

ControlSpec == ControlInit /\ [][ControlNext]_all

-----------------------------------------------------------------------------
(* The processes that end when t's kill -9 runs.                           *)
SparesOthers ==
    \A t \in Threads :
        cmd[t] = "kill9" /\ child[t] = "running" /\ child'[t] # "running" =>
            \A p \in Pids : proc[p] # proc'[p] =>
                proc[p] = list[t].name \/ p \in stale[t] \/ p \in list[t].cut

(* killByProcessName kills a process of another name only when the pid it  *)
(* read has changed hands before kill runs, or when the list was cut       *)
(* inside a pid.                                                           *)
KillsOnlyNamed == [][SparesOthers]_all

(* Two daemons run only if some startAvahi could not see or end the first: *)
(* another startAvahi overlapped it, the link was down, a command failed,  *)
(* or the first was still being launched.                                  *)
OneDaemon == Cardinality(Daemons) > 1 => doubled

(* When startAvahi ends after killing or starting there is a daemon, or    *)
(* one is being launched, unless its last command could not be forked, one *)
(* ended again meanwhile, or mySystem reported an error for a command that *)
(* did run: then startAvahi may have killed the old daemon and started     *)
(* none.  That takes SIGCHLD ignored and an overlapping mySystem.          *)
StartLeavesDaemon ==
    \A t \in Threads :
        at[t] = "end" /\ cmd[t] \in {"kill", "start"} /\ Daemons = {} =>
            \/ t \in noFork \/ t \in undone
            \/ overlapped /\ inherited = IGN
=============================================================================
