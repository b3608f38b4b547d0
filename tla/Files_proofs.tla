---------------------------- MODULE Files_proofs -----------------------------
(***************************************************************************)
(* Proofs about the log collection, for every number of threads, names,    *)
(* calls and descriptors, and about the file operations, for every number of *)
(* threads, paths and directory streams.                                   *)
(***************************************************************************)
EXTENDS LogCollector, FileOps, TLAPS

(* A thread past the Autolock is the holder of the mutex, and only such a  *)
(* thread is.                                                              *)
MutexInv == \A t \in Threads : lock = t <=> pc[t] \notin {"idle", "lock"}

(* What a call without failures has achieved by the time it reaches each   *)
(* of its steps.                                                           *)
Progress ==
    \A t \in clean :
        /\ pc[t] \notin {"idle", "lock", "save"} => systemLog = Whole(id[t])
        /\ pc[t] = "mv" => tmp = Whole(id[t])
        /\ pc[t] = "sync" => archive[name[t]] = Whole(id[t])

(* Without failures the directory is half-made only inside chmodDir.       *)
HalfMade ==
    faulty = "no" /\ tombstones = "made" =>
        \E t \in Threads : pc[t] \in {"opendir", "chmod"}

IInv == TypeOK /\ MutexInv /\ Progress /\ HalfMade

USE NamesAssumption, NoThreadAssumption, BoundsAssumption

-----------------------------------------------------------------------------
(* The contents commands write are contents of the type invariant.         *)
LEMMA ContentLemma ==
    /\ Absent \in Content
    /\ \A i \in 0 .. MaxCalls : Whole(i) \in Content /\ Partial(i) \in Content
  BY DEF Absent, Whole, Partial, Content

(* Before the first call of collectLogFiles_block.                         *)
LEMMA InitInv == Init => IInv
<1> SUFFICES ASSUME Init PROVE IInv
  OBVIOUS
<1>1. TypeOK
  BY ContentLemma DEF Init, TypeOK, Labels
<1>2. MutexInv
  BY DEF Init, MutexInv
<1>3. Progress /\ HalfMade
  BY DEF Init, Progress, HalfMade
<1>4. QED
  BY <1>1, <1>2, <1>3 DEF IInv

(* Steps on which every file stays as it is.                               *)
LEMMA QuietSteps ==
    ASSUME IInv, NEW t \in Threads,
           \/ Lock(t) \/ CheckLogs(t) \/ ChmodDirOpen(t) \/ ChmodDirCheck(t)
           \/ CheckInputs(t) \/ SyncReturn(t)
    PROVE  IInv'
<1> USE DEF IInv, TypeOK, MutexInv, Progress, HalfMade, Labels, files,
            Goto, Return, Fault, NoFault
<1>1. CASE Lock(t)
  BY <1>1 DEF Lock
<1>2. CASE CheckLogs(t)
  BY <1>2 DEF CheckLogs
<1>3. CASE ChmodDirOpen(t)
  BY <1>3 DEF ChmodDirOpen
<1>4. CASE ChmodDirCheck(t)
  BY <1>4 DEF ChmodDirCheck
<1>5. CASE CheckInputs(t)
  BY <1>5 DEF CheckInputs
<1>6. CASE SyncReturn(t)
  BY <1>6 DEF SyncReturn
<1>7. QED
  BY <1>1, <1>2, <1>3, <1>4, <1>5, <1>6

(* The commands that write a file, run by the holder of the mutex.         *)
LEMMA CommandSteps ==
    ASSUME IInv, NEW t \in Threads,
           SaveSystemInfo(t) \/ MkdirTombstones(t) \/ ChmodDirRun(t) \/ Tar(t) \/ Move(t)
    PROVE  IInv'
<1> USE DEF IInv, TypeOK, MutexInv, Progress, HalfMade, Labels,
            Goto, Return, Fault, NoFault, Command
<1>0. Whole(id[t]) \in Content /\ Partial(id[t]) \in Content /\ Absent \in Content
  BY ContentLemma
<1>1. CASE SaveSystemInfo(t)
  BY <1>0, <1>1 DEF SaveSystemInfo
<1>2. CASE MkdirTombstones(t)
  BY <1>2 DEF MkdirTombstones
<1>3. CASE ChmodDirRun(t)
  BY <1>3 DEF ChmodDirRun
<1>4. CASE Tar(t)
  BY <1>0, <1>4 DEF Tar
<1>5. CASE Move(t)
  BY <1>0, <1>5 DEF Move, Moved
<1>6. QED
  BY <1>1, <1>2, <1>3, <1>4, <1>5

(* Every step, a crash included, preserves the invariant.                  *)
LEMMA NextInv == IInv /\ [Next]_vars => IInv'
<1> SUFFICES ASSUME IInv, [Next]_vars PROVE IInv'
  OBVIOUS
<1> USE DEF IInv, TypeOK, MutexInv, Progress, HalfMade, Labels
<1>1. ASSUME NEW t \in Threads, NEW n \in Names, Call(t, n)
      PROVE  IInv'
  <2>1. CASE n \in ZipNames
    BY <1>1, <2>1 DEF Call, files
  <2>2. CASE n \notin ZipNames
    BY <1>1, <2>2 DEF Call, files, Return
  <2>3. QED
    BY <2>1, <2>2
<1>2. ASSUME NEW t \in Threads, Step(t)
      PROVE  IInv'
  BY <1>2, QuietSteps, CommandSteps DEF Step
<1>3. CASE Crash
  BY <1>3 DEF Crash, files
<1>4. CASE UNCHANGED vars
  BY <1>4 DEF vars, files
<1>5. QED
  BY <1>1, <1>2, <1>3, <1>4 DEF Next

(* The inductive invariant holds throughout collectLogFiles_block.         *)
LEMMA InvHolds == Spec => []IInv
<1>1. QED
  BY InitInv, NextInv, PTL DEF Spec

-----------------------------------------------------------------------------
(* Calls, files and descriptors keep their types.                          *)
THEOREM TypeCorrect == Spec => []TypeOK
<1>1. IInv => TypeOK
  BY DEF IInv
<1>2. QED
  BY <1>1, InvHolds, PTL

(* A call of collectLogFiles_block without failures hands out its own,     *)
(* complete archive, whatever the other threads do.                        *)
THEOREM OwnArchive == Spec => []DeliversOwnArchive
<1>1. IInv => DeliversOwnArchive
  BY DEF IInv, TypeOK, Progress, DeliversOwnArchive
<1>2. QED
  BY <1>1, InvHolds, PTL

(* Without failures the tombstones directory is never left half-made.      *)
THEOREM TombstonesNeverHalfMade == Spec => []TombstonesUsable
<1>1. IInv => TombstonesUsable
  BY DEF IInv, TypeOK, MutexInv, HalfMade, TombstonesUsable
<1>2. QED
  BY <1>1, InvHolds, PTL

-----------------------------------------------------------------------------
(* The state of chmodFile, chmodDir and rmFile                             *)

FilesTypeOK ==
    /\ call \in [Callers -> Calls]
    /\ at \in [Callers -> {"idle", "access", "opendir", "run", "stat"}]
    /\ answer \in [Callers -> {"none", "true", "false"}]
    /\ kind \in [Paths -> {"file", "dir", "absent"}]
    /\ mode \in [Paths -> Modes \cup {Empty}]
    /\ streams \in 0 .. StreamLimit
    /\ latest \subseteq Callers /\ worked \in BOOLEAN /\ late \subseteq Callers
    /\ others \in 0 .. MaxOthers

(* A call under way names a path and has no answer yet, and only a chmod   *)
(* goes on to stat.                                                        *)
CallTyped ==
    \A t \in Callers :
        /\ at[t] # "idle" => Path(t) \in Paths /\ answer[t] = "none"
        /\ at[t] = "stat" => call[t].op # "rmFile"

(* What c names is a directory exactly if its method is chmodDir, unless   *)
(* opendir could not tell it or another program has been there.            *)
KindFits(c) ==
    IsDir(c.path) = (c.op = "chmodDir") \/ streams = StreamLimit \/ others > 0

(* Past opendir a call works on what its method is for.                    *)
RunGuarded == \A t \in Callers : at[t] \in {"run", "stat"} => KindFits(call[t])

(* What the call whose command came last has left.                         *)
LatestDone ==
    \A t \in latest :
        /\ Path(t) \in Paths
        /\ worked /\ call[t].op = "rmFile" =>
              \/ kind[Path(t)] = "absent"
              \/ IsDir(Path(t)) /\ (streams = StreamLimit \/ others > 0)
        /\ answer[t] = "true" /\ call[t].op # "rmFile" =>
              /\ kind[Path(t)] # "absent" /\ mode[Path(t)] = call[t].mode
              /\ KindFits(call[t])

(* A call that came too late still finds no descriptor, and a chmodDir     *)
(* gets no further than opendir.                                           *)
LateRefused ==
    \A t \in late :
        /\ streams = StreamLimit
        /\ call[t].op = "chmodDir" =>
              at[t] \in {"idle", "opendir"} /\ answer[t] # "true"

FilesInv ==
    FilesTypeOK /\ CallTyped /\ RunGuarded /\ LatestDone /\ LateRefused

LEMMA FilesInitInv ==
    ASSUME FilesInit
    PROVE  FilesInv
<1>1. FilesTypeOK
  <2>1. call \in [Callers -> Calls]
    BY DEF FilesInit, Calls
  <2>2. /\ at \in [Callers -> {"idle", "access", "opendir", "run", "stat"}]
        /\ answer \in [Callers -> {"none", "true", "false"}]
        /\ kind \in [Paths -> {"file", "dir", "absent"}]
        /\ mode \in [Paths -> Modes \cup {Empty}]
    BY KindAssumption DEF FilesInit
  <2>3. streams \in 0 .. StreamLimit /\ others \in 0 .. MaxOthers
    BY StreamsAssumption DEF FilesInit
  <2>4. QED
    BY <2>1, <2>2, <2>3 DEF FilesInit, FilesTypeOK
<1>2. CallTyped /\ RunGuarded /\ LatestDone /\ LateRefused
  BY DEF FilesInit, CallTyped, RunGuarded, LatestDone, LateRefused
<1>3. QED
  BY <1>1, <1>2 DEF FilesInv

(* A step of t that touches neither the file system nor its history: where *)
(* it goes, what it must know before it runs a command, and what before it *)
(* answers true.                                                           *)
LEMMA FilesMove ==
    ASSUME FilesInv, NEW t \in Callers, at[t] # "idle",
           NEW l \in {"idle", "opendir", "run"}, NEW r \in {"none", "true", "false"},
           at' = [at EXCEPT ![t] = l], answer' = [answer EXCEPT ![t] = r],
           UNCHANGED <<call, kind, mode, history, late, others>>,
           streams' \in 0 .. StreamLimit, streams' >= streams,
           l # "idle" => r = "none",
           l = "run" => KindFits(call[t])' /\ (t \in late => call[t].op # "chmodDir"),
           r = "true" =>
               /\ call[t].op # "rmFile" /\ (t \in late => call[t].op # "chmodDir")
               /\ kind[Path(t)] # "absent" /\ mode[Path(t)] = call[t].mode
               /\ KindFits(call[t])'
    PROVE  FilesInv'
<1> USE DEF history
<1>1. FilesTypeOK'
  BY DEF FilesInv, FilesTypeOK
<1>2. \A u \in Callers \ {t} : at'[u] = at[u] /\ answer'[u] = answer[u]
  BY DEF FilesInv, FilesTypeOK
<1>3. at'[t] = l /\ answer'[t] = r
  BY DEF FilesInv, FilesTypeOK
<1>4. CallTyped'
  BY <1>2, <1>3 DEF FilesInv, CallTyped, Path
<1>5. streams = StreamLimit => streams' = StreamLimit
  BY StreamsAssumption DEF FilesInv, FilesTypeOK
<1>6. \A u \in Callers : KindFits(call[u]) => KindFits(call[u])'
  BY <1>5 DEF KindFits, IsDir
<1>7. RunGuarded'
  BY <1>2, <1>3, <1>6 DEF FilesInv, RunGuarded
<1>8. LatestDone'
  <2>1. SUFFICES ASSUME NEW u \in latest
                 PROVE  /\ Path(u) \in Paths
                        /\ worked /\ call[u].op = "rmFile" =>
                              \/ kind[Path(u)] = "absent"
                              \/ IsDir(Path(u)) /\ (streams' = StreamLimit \/ others > 0)
                        /\ answer'[u] = "true" /\ call[u].op # "rmFile" =>
                              /\ kind[Path(u)] # "absent" /\ mode[Path(u)] = call[u].mode
                              /\ KindFits(call[u])'
    BY DEF LatestDone, Path, IsDir
  <2>2. u \in Callers
    BY <2>1 DEF FilesInv, FilesTypeOK
  <2>3. QED
    BY <1>2, <1>3, <1>5, <1>6, <2>1, <2>2 DEF FilesInv, LatestDone
<1>9. LateRefused'
  BY <1>2, <1>3, <1>5 DEF FilesInv, FilesTypeOK, LateRefused
<1>10. QED
  BY <1>1, <1>4, <1>7, <1>8, <1>9 DEF FilesInv

LEMMA AccessInv ==
    ASSUME FilesInv, NEW t \in Callers, Access(t)
    PROVE  FilesInv'
<1>1. at[t] = "access" /\ UNCHANGED <<call, kind, mode, streams, history, late, others>>
  BY DEF Access
<1>2. answer[t] = "none" /\ answer = [answer EXCEPT ![t] = answer[t]]
  BY <1>1 DEF FilesInv, FilesTypeOK, CallTyped
<1>3. streams' \in 0 .. StreamLimit /\ streams' >= streams
  BY <1>1, StreamsAssumption DEF FilesInv, FilesTypeOK
<1>4. CASE Answer(t, "false")
  BY <1>1, <1>3, <1>4, FilesMove DEF Answer
<1>5. CASE Proceed(t, "opendir")
  BY <1>1, <1>2, <1>3, <1>5, FilesMove DEF Proceed
<1>6. QED
  BY <1>4, <1>5 DEF Access

LEMMA OpenDirInv ==
    ASSUME FilesInv, NEW t \in Callers, OpenDir(t)
    PROVE  FilesInv'
<1>1. /\ at[t] = "opendir"
      /\ streams' = IF Opens(Path(t)) THEN streams + 1 ELSE streams
      /\ UNCHANGED <<call, kind, mode, history, late, others>>
      /\ call[t].op \in {"chmodFile", "chmodDir", "rmFile"}
  BY DEF OpenDir, Guarded, FilesInv, FilesTypeOK, Calls
<1>2. streams' \in 0 .. StreamLimit /\ streams' >= streams
  BY <1>1, StreamsAssumption DEF Opens, FilesInv, FilesTypeOK
<1>3. answer[t] = "none" /\ answer = [answer EXCEPT ![t] = answer[t]]
  BY <1>1 DEF FilesInv, FilesTypeOK, CallTyped
<1>4. CASE Proceed(t, "run") /\ (Opens(Path(t)) = (call[t].op = "chmodDir"))
  <2>1. KindFits(call[t])'
    BY <1>1, <1>4, StreamsAssumption DEF Opens, KindFits, Path, IsDir, FilesInv, FilesTypeOK
  <2>2. t \in late => call[t].op # "chmodDir"
    BY <1>4 DEF Opens, FilesInv, FilesTypeOK, LateRefused
  <2>3. QED
    BY <1>1, <1>2, <1>3, <1>4, <2>1, <2>2, FilesMove DEF Proceed
<1>5. CASE Answer(t, "false")
  BY <1>1, <1>2, <1>5, FilesMove DEF Answer
<1>6. QED
  BY <1>1, <1>4, <1>5 DEF OpenDir, Guarded

LEMMA CheckFileModeInv ==
    ASSUME FilesInv, NEW t \in Callers, CheckFileMode(t)
    PROVE  FilesInv'
<1>1. at[t] = "stat" /\ UNCHANGED <<call, kind, mode, streams, history, late, others>>
  BY DEF CheckFileMode
<1>2. streams' \in 0 .. StreamLimit /\ streams' >= streams
  BY <1>1, StreamsAssumption DEF FilesInv, FilesTypeOK
<1>3. CASE Answer(t, "false")
  BY <1>1, <1>2, <1>3, FilesMove DEF Answer
<1>4. CASE /\ kind[Path(t)] # "absent" /\ mode[Path(t)] = call[t].mode
           /\ Answer(t, "true")
  <2>1. call[t].op # "rmFile" /\ (t \in late => call[t].op # "chmodDir")
    BY <1>1 DEF FilesInv, CallTyped, LateRefused
  <2>2. KindFits(call[t])'
    BY <1>1 DEF FilesInv, RunGuarded, KindFits, IsDir
  <2>3. QED
    BY <1>1, <1>2, <1>4, <2>1, <2>2, FilesMove DEF Answer
<1>5. QED
  BY <1>3, <1>4 DEF CheckFileMode

LEMMA CallInv ==
    ASSUME FilesInv, NEW t \in Callers, NEW c \in Calls, Request(t, c)
    PROVE  FilesInv'
<1>1. /\ at[t] = "idle" /\ call' = [call EXCEPT ![t] = c]
      /\ latest' = latest \ {t} /\ UNCHANGED <<kind, mode, streams, worked, others>>
      /\ late' = IF streams = StreamLimit THEN late \cup {t} ELSE late \ {t}
  BY DEF Request
<1>2. PICK l \in {"idle", "opendir", "access"}, r \in {"none", "false"} :
         /\ at' = [at EXCEPT ![t] = l] /\ answer' = [answer EXCEPT ![t] = r]
         /\ l # "idle" => c.path # Empty /\ r = "none"
         /\ l = "access" => c.op # "chmodDir"
  BY DEF Request, Answer
<1>3. FilesTypeOK'
  BY <1>1, <1>2 DEF FilesInv, FilesTypeOK
<1>4. /\ call'[t] = c /\ at'[t] = l /\ answer'[t] = r
      /\ \A u \in Callers \ {t} :
            call'[u] = call[u] /\ at'[u] = at[u] /\ answer'[u] = answer[u]
  BY <1>1, <1>2 DEF FilesInv, FilesTypeOK
<1>5. CallTyped'
  <2>1. at'[t] # "idle" => c.path \in Paths
    BY <1>2, <1>4 DEF Calls
  <2>2. QED
    BY <1>2, <1>4, <2>1 DEF FilesInv, CallTyped, Path
<1>6. RunGuarded'
  BY <1>1, <1>4 DEF FilesInv, RunGuarded, KindFits, IsDir
<1>7. LatestDone'
  BY <1>1, <1>4 DEF FilesInv, FilesTypeOK, LatestDone, KindFits, Path, IsDir
<1>8. LateRefused'
  BY <1>1, <1>2, <1>4 DEF FilesInv, FilesTypeOK, LateRefused
<1>9. QED
  BY <1>3, <1>5, <1>6, <1>7, <1>8 DEF FilesInv

(* A command leaves directories what they are, and makes none.             *)
LEMMA CommandKinds ==
    ASSUME FilesInv, NEW t \in Callers, at[t] = "run",
           Effect(call[t]) \/ Failure(call[t])
    PROVE  /\ kind' \in [Paths -> {"file", "dir", "absent"}]
           /\ mode' \in [Paths -> Modes \cup {Empty}]
           /\ \A p \in Paths : kind'[p] = "dir" <=> kind[p] = "dir"
<1>1. call[t] \in Calls /\ Path(t) \in Paths
  BY DEF FilesInv, FilesTypeOK, CallTyped
<1>2. call[t].mode \in Modes \cup {Empty}
  BY <1>1 DEF Calls
<1>3. CASE Failure(call[t])
  BY <1>2, <1>3 DEF Failure, SetMode, FilesInv, FilesTypeOK
<1>4. CASE Effect(call[t]) /\ call[t].op = "rmFile"
  BY <1>1, <1>4 DEF Effect, Rm, IsDir, Path, FilesInv, FilesTypeOK
<1>5. CASE Effect(call[t]) /\ call[t].op # "rmFile"
  BY <1>2, <1>5 DEF Effect, Chmod, SetMode, FilesInv, FilesTypeOK
<1>6. QED
  BY <1>3, <1>4, <1>5

(* What the command of a call has left.                                    *)
LEMMA CommandDone ==
    ASSUME FilesInv, NEW t \in Callers, at[t] = "run",
           worked' => Effect(call[t]), latest' = {t},
           call[t].op # "rmFile" => answer'[t] # "true",
           UNCHANGED <<call, streams, others>>
    PROVE  LatestDone'
<1>1. Path(t) \in Paths /\ KindFits(call[t])
  BY DEF FilesInv, CallTyped, RunGuarded
<1>2. ASSUME worked', call[t].op = "rmFile"
      PROVE  \/ kind'[Path(t)] = "absent"
             \/ kind'[Path(t)] = "dir" /\ (streams = StreamLimit \/ others > 0)
  BY <1>1, <1>2 DEF Effect, Rm, IsDir, Path, FilesInv, FilesTypeOK, KindFits
<1>3. QED
  BY <1>1, <1>2 DEF LatestDone, Path, IsDir

LEMMA RunCommandInv ==
    ASSUME FilesInv, NEW t \in Callers, RunCommand(t)
    PROVE  FilesInv'
<1>1. /\ at[t] = "run" /\ UNCHANGED <<call, streams, late, others>>
      /\ \/ Effect(call[t]) /\ worked' = TRUE
         \/ Failure(call[t]) /\ worked' = FALSE
      /\ latest' = {t}
  BY Zenon DEF RunCommand
<1>2. PICK l \in {"idle", "stat"}, r \in {"none", "true", "false"} :
         /\ at' = [at EXCEPT ![t] = l] /\ answer' = [answer EXCEPT ![t] = r]
         /\ l = "stat" => call[t].op # "rmFile" /\ r = "none"
         /\ r = "true" => call[t].op = "rmFile"
  <2>1. answer[t] = "none" /\ answer = [answer EXCEPT ![t] = answer[t]]
    BY <1>1 DEF FilesInv, FilesTypeOK, CallTyped
  <2>2. CASE Answer(t, "false")
    BY <2>2 DEF Answer
  <2>3. CASE AfterRun(t)
    BY <2>1, <2>3 DEF AfterRun, Answer, Proceed
  <2>4. QED
    BY <2>2, <2>3 DEF RunCommand
<1>3. /\ kind' \in [Paths -> {"file", "dir", "absent"}]
      /\ mode' \in [Paths -> Modes \cup {Empty}]
      /\ \A p \in Paths : kind'[p] = "dir" <=> kind[p] = "dir"
  BY <1>1, CommandKinds
<1>4. FilesTypeOK'
  BY <1>1, <1>2, <1>3 DEF FilesInv, FilesTypeOK
<1>5. /\ at'[t] = l /\ answer'[t] = r
      /\ \A u \in Callers \ {t} : at'[u] = at[u] /\ answer'[u] = answer[u]
  BY <1>2 DEF FilesInv, FilesTypeOK
<1>6. CallTyped'
  BY <1>1, <1>2, <1>5 DEF FilesInv, CallTyped, Path
<1>7. RunGuarded'
  <2>1. ASSUME NEW u \in Callers, at'[u] \in {"run", "stat"}
        PROVE  KindFits(call[u])'
    <3>1. at[u] \in {"run", "stat"} /\ call[u].path \in Paths
      BY <1>1, <1>5, <2>1 DEF FilesInv, CallTyped, Path
    <3>2. (kind'[call[u].path] = "dir") = (kind[call[u].path] = "dir")
      BY <1>3, <3>1
    <3>3. QED
      BY <1>1, <3>1, <3>2 DEF FilesInv, RunGuarded, KindFits, IsDir
  <2>2. QED
    BY <1>1, <2>1 DEF RunGuarded
<1>8. LatestDone'
  BY <1>1, <1>2, <1>5, CommandDone
<1>9. LateRefused'
  BY <1>1, <1>2, <1>5 DEF FilesInv, FilesTypeOK, LateRefused
<1>10. QED
  BY <1>4, <1>6, <1>7, <1>8, <1>9 DEF FilesInv

LEMMA OthersInv ==
    ASSUME FilesInv, NEW p \in Paths, Others(p)
    PROVE  FilesInv'
<1>1. FilesTypeOK'
  BY StreamsAssumption DEF Others, FilesInv, FilesTypeOK
<1>2. CallTyped' /\ LatestDone' /\ LateRefused'
  BY DEF Others, FilesInv, CallTyped, LatestDone, LateRefused, Path
<1>3. others' > 0
  BY DEF Others, FilesInv, FilesTypeOK
<1>4. RunGuarded'
  BY <1>3 DEF RunGuarded, KindFits
<1>5. QED
  BY <1>1, <1>2, <1>4 DEF FilesInv

LEMMA FilesCrashInv ==
    ASSUME FilesInv, Restart
    PROVE  FilesInv'
<1>1. FilesTypeOK'
  BY StreamsAssumption DEF Restart, FilesInv, FilesTypeOK
<1>2. CallTyped' /\ LatestDone' /\ RunGuarded' /\ LateRefused'
  BY DEF Restart, CallTyped, LatestDone, RunGuarded, LateRefused
<1>3. QED
  BY <1>1, <1>2 DEF FilesInv

LEMMA FilesNextInv == FilesInv /\ [FilesNext]_(fileVars) => FilesInv'
<1> SUFFICES ASSUME FilesInv, [FilesNext]_(fileVars) PROVE FilesInv'
  OBVIOUS
<1>1. CASE UNCHANGED fileVars
  BY <1>1 DEF fileVars, history, FilesInv, FilesTypeOK, CallTyped, RunGuarded,
     LatestDone, LateRefused, KindFits, Path, IsDir
<1>2. QED
  BY <1>1, AccessInv, OpenDirInv, CheckFileModeInv, CallInv, RunCommandInv, OthersInv,
     FilesCrashInv DEF FilesNext, Serve

LEMMA FilesInvAlways == FilesSpec => []FilesInv
<1>1. FilesInit => FilesInv
  BY FilesInitInv
<1>2. QED
  BY <1>1, FilesNextInv, PTL DEF FilesSpec

(* The calls, the file system and the descriptors keep their types.        *)
THEOREM FilesTypeCorrect == FilesSpec => []FilesTypeOK
<1>1. FilesInv => FilesTypeOK
  BY DEF FilesInv
<1>2. QED
  BY <1>1, FilesInvAlways, PTL

(* rmFile answers true for a command that worked only if the file is gone  *)
(* or is a directory that could not be told, for every number of threads,  *)
(* paths and descriptors.                                                  *)
THEOREM RemovalAnswered == FilesSpec => []RmFileAnswer
<1>1. FilesInv => RmFileAnswer
  BY DEF FilesInv, LatestDone, RmFileAnswer
<1>2. QED
  BY <1>1, FilesInvAlways, PTL

(* A chmod that answers true has given its path the mode, whether or not   *)
(* its command worked, and the path is of the method's kind.               *)
THEOREM ChmodAnswered == FilesSpec => []ChmodTrueHolds
<1>1. FilesInv => ChmodTrueHolds
  BY DEF FilesInv, LatestDone, ChmodTrueHolds, KindFits, Path
<1>2. QED
  BY <1>1, FilesInvAlways, PTL

(* When the last descriptor has leaked, no chmodDir called from then on    *)
(* succeeds before a restart.                                              *)
THEOREM NoChmodDirWhenExhausted == FilesSpec => []ExhaustionIsFinal
<1>1. FilesInv => ExhaustionIsFinal
  BY DEF FilesInv, LateRefused, ExhaustionIsFinal
<1>2. QED
  BY <1>1, FilesInvAlways, PTL

(* chmodFile meets a directory only without descriptors or after another   *)
(* program's change.                                                       *)
THEOREM DirectoriesSpared == FilesSpec => ChmodFileSparesDirectories
<1> DEFINE Spared ==
      \A t \in Callers :
         (at[t] = "run" /\ RunCommand(t) /\ call[t].op = "chmodFile" /\ IsDir(Path(t))) =>
             mode' = mode \/ streams = StreamLimit \/ others > 0
<1>1. FilesInv /\ [FilesNext]_(fileVars) => [Spared]_(fileVars)
  BY DEF FilesInv, RunGuarded, KindFits, Path
<1>2. QED
  BY <1>1, FilesInvAlways, PTL DEF FilesSpec, ChmodFileSparesDirectories
=============================================================================
