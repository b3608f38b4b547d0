------------------------------- MODULE FileOps -------------------------------
(***************************************************************************)
(* chmodFile, chmodDir and rmFile (RjcoreServiceProduct.cpp), served by    *)
(* several binder threads with no lock, on a file system other programs    *)
(* use too.  Each is a sequence of access, opendir, a command through      *)
(* mySystem and, for the chmods, a stat through executeCmd.                *)
(*                                                                         *)
(* "Is it a directory?" is asked with opendir(path) != NULL.  The stream   *)
(* is never closed, so every directory met costs a descriptor for good,    *)
(* and once they run out opendir returns NULL for directories as well.     *)
(***************************************************************************)
EXTENDS Naturals

CONSTANTS
    Callers,     \* binder threads
    Paths,       \* the paths clients name
    Empty,       \* the empty string
    Modes,       \* the modes clients name
    Numeric,     \* those of three or four octal digits
    Under,       \* Under[p]: p and the paths below it
    StreamLimit, \* descriptors left for directory streams
    MaxOthers,   \* bound on the interferences of other programs explored
    InitKind     \* InitKind[p]: "file", "dir" or "absent"

ASSUME ModesAssumption == Numeric \subseteq Modes
ASSUME UnderAssumption ==
    Under \in [Paths -> SUBSET Paths] /\ \A p \in Paths : p \in Under[p]
ASSUME StreamsAssumption == StreamLimit \in Nat /\ MaxOthers \in Nat
ASSUME KindAssumption == InitKind \in [Paths -> {"file", "dir", "absent"}]

VARIABLES
    at,      \* at[t]: where t's call stands
    call,    \* call[t]: the operation and its arguments
    answer,  \* answer[t]: "none", "true" or "false"
    kind,    \* kind[p]: what is at p
    mode,    \* mode[p]: its mode, Empty for the one it was created with
    streams, \* directory streams left open
    latest,  \* the thread whose command came last, as a set; nothing has
             \* touched the file system since (history)
    worked,  \* whether that command did its work (history)
    late,    \* callers whose call came when no descriptor was left (history)
    others   \* interferences of other programs so far

history  == <<latest, worked>>
fileVars == <<at, call, answer, kind, mode, streams, history, late, others>>

Path(t)  == call[t].path
IsDir(p) == kind[p] = "dir"

-----------------------------------------------------------------------------
FilesInit ==
    /\ at = [t \in Callers |-> "idle"]
    /\ call \in [Callers -> [op : {"rmFile"}, path : {Empty}, mode : {Empty}]]
    /\ answer = [t \in Callers |-> "none"]
    /\ kind = InitKind
    /\ mode = [p \in Paths |-> Empty]
    /\ streams = 0
    /\ latest = {} /\ worked = FALSE /\ late = {}
    /\ others = 0

Proceed(t, l) == at' = [at EXCEPT ![t] = l] /\ UNCHANGED answer
Answer(t, r)  == at' = [at EXCEPT ![t] = "idle"] /\ answer' = [answer EXCEPT ![t] = r]

(* A call arrives.  An empty mode or path is refused; chmodFile only looks *)
(* at the mode, and finds in its access that there is no empty path.       *)
Request(t, c) ==
    /\ at[t] = "idle"
    /\ call' = [call EXCEPT ![t] = c]
    /\ latest' = latest \ {t}
    /\ late' = IF streams = StreamLimit THEN late \cup {t} ELSE late \ {t}
    /\ IF c.path = Empty \/ (c.op # "rmFile" /\ c.mode = Empty)
       THEN Answer(t, "false")
       ELSE /\ at' = [at EXCEPT ![t] = IF c.op = "chmodDir" THEN "opendir" ELSE "access"]
            /\ answer' = [answer EXCEPT ![t] = "none"]
    /\ UNCHANGED <<kind, mode, streams, worked, others>>

(* access(path, F_OK) *)
Access(t) ==
    /\ at[t] = "access"
    /\ IF kind[Path(t)] = "absent" THEN Answer(t, "false") ELSE Proceed(t, "opendir")
    /\ UNCHANGED <<call, kind, mode, streams, history, late, others>>

Opens(p) == IsDir(p) /\ streams < StreamLimit

(* The two sides of the test, for the operations in Only: chmodFile and    *)
(* rmFile refuse what opens as a directory, chmodDir what does not.        *)
Guarded(t, Only) ==
    /\ at[t] = "opendir"
    /\ streams' = IF Opens(Path(t)) THEN streams + 1 ELSE streams
    /\ IF call[t].op \in Only => Opens(Path(t)) = (call[t].op = "chmodDir")
       THEN Proceed(t, "run")
       ELSE Answer(t, "false")
    /\ UNCHANGED <<call, kind, mode, history, late, others>>

OpenDirRmUnguarded(t)    == Guarded(t, {"chmodFile", "chmodDir"})   \* mutant
OpenDirChmodUnguarded(t) == Guarded(t, {"rmFile", "chmodDir"})      \* mutant
OpenDirTreeUnguarded(t)  == Guarded(t, {"chmodFile", "rmFile"})     \* mutant

OpenDir(t) == Guarded(t, {"chmodFile", "chmodDir", "rmFile"})

SetMode(S, m) == mode' = [p \in Paths |-> IF p \in S /\ kind[p] # "absent" THEN m ELSE mode[p]]

(* rm -f path: a directory is left alone.                                  *)
Rm(p) ==
    /\ kind' = IF IsDir(p) THEN kind ELSE [kind EXCEPT ![p] = "absent"]
    /\ UNCHANGED mode

(* chmod mode path, with -R for chmodDir *)
Chmod(c) ==
    /\ SetMode(IF c.op = "chmodDir" THEN Under[c.path] ELSE {c.path}, c.mode)
    /\ UNCHANGED kind

(* What the command of the call does when it works.                        *)
Effect(c) == IF c.op = "rmFile" THEN Rm(c.path) ELSE Chmod(c)

(* What a failing one leaves: nothing done, or a tree changed in part.     *)
Failure(c) ==
    /\ \E S \in SUBSET (IF c.op = "chmodDir" THEN Under[c.path] ELSE {}) : SetMode(S, c.mode)
    /\ UNCHANGED kind

AfterRun(t) == IF call[t].op = "rmFile" THEN Answer(t, "true") ELSE Proceed(t, "stat")

(* mySystem(cmd): the command worked; it failed, with an exit status the   *)
(* caller does not look at; or mySystem returned an error.                 *)
RunCommand(t) ==
    /\ at[t] = "run"
    /\ \/ Effect(call[t]) /\ worked' = TRUE
       \/ Failure(call[t]) /\ worked' = FALSE
    /\ AfterRun(t) \/ Answer(t, "false")
    /\ latest' = {t}
    /\ UNCHANGED <<call, streams, late, others>>

CheckExistence(t) ==   \* mutant: what stat prints is not compared
    /\ at[t] = "stat"
    /\ Answer(t, IF kind[Path(t)] # "absent" /\ call[t].mode \in Numeric
                 THEN "true" ELSE "false")
    /\ UNCHANGED <<call, kind, mode, streams, history, late, others>>

(* checkFileMode: only a mode of three or four characters can be compared, *)
(* and a stat that could not be run yields an empty one.                   *)
CheckFileMode(t) ==
    /\ at[t] = "stat"
    /\ \/ /\ kind[Path(t)] # "absent"
          /\ call[t].mode \in Numeric /\ mode[Path(t)] = call[t].mode
          /\ Answer(t, "true")
       \/ Answer(t, "false")
    /\ UNCHANGED <<call, kind, mode, streams, history, late, others>>

(* Another program replaces what is at p.                                  *)
Others(p) ==
    /\ others < MaxOthers
    /\ others' = others + 1
    /\ \E k \in {"file", "dir", "absent"} \ {kind[p]} : kind' = [kind EXCEPT ![p] = k]
    /\ mode' = [mode EXCEPT ![p] = Empty]
    /\ latest' = {}
    /\ UNCHANGED <<at, call, answer, streams, worked, late>>

(* The service is restarted: the leaked descriptors are gone.              *)
Restart ==
    /\ streams > 0 \/ \E t \in Callers : at[t] # "idle"
    /\ at' = [t \in Callers |-> "idle"]
    /\ answer' = [t \in Callers |-> "none"]
    /\ streams' = 0
    /\ latest' = {} /\ late' = {}
    /\ UNCHANGED <<call, kind, mode, worked, others>>

Calls ==
    [op : {"chmodFile", "chmodDir"}, path : Paths \cup {Empty}, mode : Modes \cup {Empty}]
    \cup [op : {"rmFile"}, path : Paths \cup {Empty}, mode : {Empty}]

Serve(t) == Access(t) \/ OpenDir(t) \/ RunCommand(t) \/ CheckFileMode(t)

FilesNext ==
    \/ \E t \in Callers : Serve(t) \/ \E c \in Calls : Request(t, c)
    \/ \E p \in Paths : Others(p)
    \/ Restart

FilesSpec == FilesInit /\ [][FilesNext]_fileVars

-----------------------------------------------------------------------------
(* Descriptors that opendir used up never come back (RjcoreServiceProduct  *)
(* 430, 461, 491: no closedir): a chmodDir that is called when none is     *)
(* left is refused, whichever directory it names and whatever other calls  *)
(* end in the meantime, until the service is restarted.                    *)
ExhaustionIsFinal ==
    \A t \in late : call[t].op = "chmodDir" => answer[t] # "true"

(* rmFile answers true for a command that worked only if the file is gone, *)
(* as long as nobody has put another there.  The one exception is a        *)
(* directory: it was taken for a file because no descriptor was left, or   *)
(* another program made it after rmFile had looked.                        *)
RmFileAnswer ==
    \A t \in latest : worked /\ answer[t] = "true" /\ call[t].op = "rmFile" =>
        \/ kind[Path(t)] = "absent"
        \/ IsDir(Path(t)) /\ (streams = StreamLimit \/ others > 0)

(* chmodFile changes the mode of a directory only when descriptors have    *)
(* run out or the path became a directory after it was looked at           *)
(* (RjcoreServiceProduct.cpp 430: "not support dir").                      *)
ChmodFileSparesDirectories ==
    [][\A t \in Callers :
         (at[t] = "run" /\ RunCommand(t) /\ call[t].op = "chmodFile" /\ IsDir(Path(t))) =>
             mode' = mode \/ streams = StreamLimit \/ others > 0]_fileVars

(* True from chmodFile or chmodDir means that the path is there, of the    *)
(* kind the method is for and with the mode asked for, until somebody      *)
(* touches it again.  The exit status of chmod is lost in mySystem, so the *)
(* command may have failed, or stopped half way through the tree: only the *)
(* stat after it keeps such a call from being reported as done             *)
(* (RjcoreServiceProduct.cpp 445, 473).  Nothing is said of what is below  *)
(* the path of a chmodDir: nobody looks.                                   *)
ChmodTrueHolds ==
    \A t \in latest : answer[t] = "true" /\ call[t].op # "rmFile" =>
        /\ kind[Path(t)] # "absent" /\ mode[Path(t)] = call[t].mode
        /\ \/ IsDir(Path(t)) = (call[t].op = "chmodDir")
           \/ streams = StreamLimit \/ others > 0

(* What the log line RjcoreServiceProduct.cpp:500 ("remove the file:%s     *)
(* successful!") and rjcoreserver_tests.cpp:154 ("rm File Success!") say   *)
(* of rmFile's true: the file is no longer there.                          *)
RmFileTrueMeansGone ==
    \A t \in Callers :
        answer[t] = "true" /\ call[t].op = "rmFile" /\ others = 0 =>
            kind[Path(t)] = "absent"
=============================================================================
