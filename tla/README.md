# A verification of rjcoreservice and of the Mokoid stubs

The repository collects Android system components: a native system service
(`src/framework/native_server/rjcoreservice`), teaching stacks of a kernel
driver, a HAL and a service each (`src/mokoid-stub-comment`), and device
configuration.  This directory holds TLA+ models of the parts that have
behaviour of their own, TLC configurations that check them on small
instances, and TLAPS proofs for every instance.

Short names of the sources used below, under
`src/framework/native_server/rjcoreservice/`:

| | |
|---|---|
| IC | `librjcore/IRjcoreService.cpp` (interface in `include/IRjcoreService.h`) |
| RS | `librjcoreservice/RjcoreService.cpp` |
| RP | `librjcoreservice/RjcoreServiceProduct.cpp` |
| RN | `librjcoreservice/RjcoreServiceNetwork.cpp` |
| RA | `librjcoreservice/RjcoreServiceApplication.cpp` |
| RC | `librjcoreservice/RjcoreServiceControl.cpp` |

## 1. Inventory

### The rjcore service

A process (`rjcoreserver/main_rjcoreserver.cpp`) that registers
`ruijie.core.service` with the service manager, starts a binder thread pool and
serves 37 methods.  Clients reach it through a hand-written proxy
(`BpRjcoreService`) and stub (`BnRjcoreService::onTransact`).  The methods do
almost all of their work in shell commands.

| Part | State | Operations | Interacts with |
|---|---|---|---|
| Binder interface, process (IC, main) | transaction queue, pool threads, the clients' handles, the instance running | 37 proxy methods, `onTransact`, start, death | every handler below runs on one of its threads |
| `executeCmd` (RS 68-95) | the caller's buffer, `pBuf`, `size`, the pipe, the child | `popen`, `fgets` loop, `pclose` | all queries, `checkFileMode`, bandwidth |
| `mySystem` (RS 130-157) | the process-wide SIGCHLD disposition | `signal`, `system`, `signal` | all handlers that change something |
| Display resolution (RP 573-647) | vendor sector of the NAND | `setDeviceResolution` | kernel, `/dev/rknand_sys_storage` |
| Log collection (RP 352-418) | `sLockLog`, `/data/systemLog`, `/data/tombstones`, `/sdcard/localhost.tar.gz`, archives | `collectLogFiles_block` | `mySystem`, `chmodDir` |
| File operations (RP 420-506) | file system, directory streams left open | `chmodFile`, `chmodDir`, `rmFile`, `checkFileMode` | `mySystem`, `executeCmd`, other programs |
| Bandwidth (RN 231-285) | `sNetLock`, `bandtmpfile` | `checkBandwidth_block` | `executeCmd`, `mySystem`, a web server |
| Identity, LEDs, wake-on-LAN (RS 42-66, 159-225, RP) | `mSerialNum`, `mProductType`, `mHardwareVersion`, `mProductId`, `mInit`, the LEDs, the power mode | `init`, getters, `get/setPowerState`, `get/setLedStatus` | `/proc/sn.info`, board tools |
| Queries (RP, RN, RA, RC) | none | 18 methods: properties, CPU, memory, storage, net card, IP conflict, ping, resolutions, processes, OTA result | `executeCmd`, properties, `lcdinfo.ini`, `statfs` |
| Process and Avahi control (RA, RN 116-164) | processes of the system | `killByProcessName`, `isProcessRunning`, `getProcessId`, `startAvahi`, `stopAvahi` | `executeCmd`, `mySystem` |
| `reboot`, `shutdown` | - | one command each | - |

What is hard in it:

- *concurrency*: handlers run on several pool threads and only two of them take
  a mutex.  The SIGCHLD disposition, the vendor sector and all paths are shared;
- *partial failure*: `mySystem` returns the status of the command, callers test
  only `< 0`, so a command that exits with an error counts as done; proxies drop
  the status of `transact()`;
- *restart*: `init` restarts the service; files, the vendor sector and the
  clients' handles outlive it, mutexes and descriptors do not;
- *limits*: fixed buffers with a hand-kept rest length, `opendir` streams that
  are never closed, bytes shifted into an `int`.

### AndroInt (`mokoid-stub-comment/mokoid-stub/androint-moko365`)

A character device `/dev/androint` whose driver keeps two integers behind a
semaphore: `write` stores a pair, `read` returns its sum.  A HAL
(`androint-hal.c`) and a JNI library open the device, write, read and close it
for each addition; an activity and a bound service sit above.  The device is
shared by all processes, the semaphore covers one system call.

### The Mokoid LED stack (`mokoid-stub-comment/mokoid-stub`)

The activity `LedTest` switches an LED in two ways at one click: from a thread of
`LedManager` through a Java service, "led", which `LedSystemServer.onStart`
creates and publishes in a process of its own, and from the user interface thread
through `Led`, its JNI code and a native service, "mokoid.led", of `ledserver`.
Both services load a HAL stub (`led.cpp`, or `led.omap3.c` or `led.dma6410xp.c` for
two boards), which opens a device file and issues an ioctl or a write.  State: the
service references of the application (one per `LedManager`, one native per process),
`sLedDevice` of each service, the descriptors left open.
Hard: the services start whenever they start, a start may be repeated under
running calls, processes die, and no error is reported upwards.

### The sensors HAL (`mokoid-stub-comment/mokoid-stub/hardware/modules/sensors`)

An accelerometer: the control device opens the device file and puts the descriptor
into a handle, the data device duplicates it into the static `sInputFD`, closes the
handle, polls, reads three bytes and closes.  State: `sInputFD` and the descriptor
table of the process.  Hard: one static for all users, which `data_close` does not
reset, and system calls whose results are not looked at.

### Other parts

The `cdata` kernel module, and the device tree, init scripts, make files and
binaries.  They are listed in `PROJECT.json`; section 7 says why they are left out.

### What makes each part correct

| Part | Correct when |
|---|---|
| Interface | the method called is the one run, with the same arguments in the same order, once, and its own result returned; every call returns |
| `executeCmd` | never outside the buffer; the result is a C string and the output, cut to size; returns even when the command has more to say |
| `mySystem` | an error means the command was not run; the disposition is the one found |
| Resolution | behaves as an atomic register; the rest of the sector survives; no descriptor leaks; true means stored |
| Log collection | a successful call delivers its own, whole archive; no half-made directory; the mutex comes back |
| File operations | true means that the path has the mode asked for, or is gone; `chmodFile` leaves directories alone; exhausted descriptors are no excuse for a true |
| Bandwidth | the speed is that of this call's download; the mutex comes back |
| Identity | fields are what the file holds; all or nothing; the board is driven only where it has the hardware |
| Queries | the answer is what the last command, the property or the file says, and nothing else; every query returns |
| Process and Avahi control | only processes of the name are killed; one daemon after a start, never two |
| Sensors HAL | descriptors come back and nobody else's is closed; a vector is a sample; a poll returns |
| LED stack | a click ends and does not kill the application; what is shown as on was switched; a repeated start breaks nothing |
| AndroInt | a sum is that of one pair; the client's own unless disturbed; the semaphore comes back |

## 2. Modules

Each component is a module of its own; `MC*` modules give constants their
values, `*_proofs` modules hold the theorems.  A proof module extends the modules it
is about, two components each in `Files_proofs` (`LogCollector`, `FileOps`),
`Nand_proofs` (`VendorSector`, `NandInfo`) and `Mokoid_proofs` (`LedStack`,
`SensorsHal`); so that both can be extended, the second of each pair has names of its
own for what the first calls `Init`, `Next`, `Spec`, `vars` and `pc` (`FilesInit` ...,
`InfoInit` ..., `SensorsInit` ...).  In the same way `CommandQueries` and
`ProcessControl` add their names to those of `ExecuteCmd` and `MySystem`.

| Module | Models | Correspondence |
|---|---|---|
| `CommandQueries` | the queries, one call, composed with `ExecuteCmd` | extends `ExecuteCmd`: `Caller` and `Shell` are its steps; `RefuseArguments`, `Start`, `LinkChecked`, `Reply`, `ReadProperty`, `ReadSupport`, `ReadStorage` are the methods around it; `AnswerTo` says what each makes of the buffer.  A letter stands for a word, `Flag` for the prefix "updateFlag=" that `sscanf` requires, `Number` for what `atoi` makes of it, and the modes listed are a row of Booleans |
| `ProcessControl` | `killByProcessName`, `startAvahi`, `stopAvahi` on several threads, composed with `MySystem` | extends `MySystem`: `System`, `ForkShell`, `RunCommand`, `Collect`, `SystemReturn` are its steps with the effect of the command at the child's end; the other actions are the handlers' checks; `ProcessStarts`, `ProcessEnds`, `Exec` are the rest of the system |
| `SensorsHal` | sessions of the sensors HAL and the descriptor table | `OpenDataSource`, `DataOpen`/`Handover` = `data_open` up to and after `dup`, `DataPoll`/`PollReady`/`Read` = `data_poll` before, in and after `poll`, `DataClose`; `OtherOpen`/`OtherClose` = the rest of the process, so that numbers are used again |
| `ExecuteCmd` | one `executeCmd` and the child at the other end of the pipe | `pBuf`, `size` and `result` as in the code; one action per `fgets` byte, return, loop body, `pclose`; `ChildWrite` blocks on a full pipe, `ChildExit` also stands for SIGPIPE |
| `MySystem` | `mySystem` on several threads | `SaveHandler` = first `signal`, `Fork`/`ChildExit`/`WaitChild` = `system`, `Restore` = second `signal`; a child that exits while SIGCHLD is ignored is reaped by the kernel and its `waitpid` fails |
| `VendorSector`, `ResolutionRegister` | `setDeviceResolution`; what it promises | one action per ioctl, each may fail; the register sets the resolution in one step, and the code's step is its store |
| `LogCollector` | `collectLogFiles_block` with the `chmodDir` it calls | one action per command or check; `Command` is the idiom `if (mySystem(cmd) < 0) return false`: it worked, it failed unnoticed, or an error was returned |
| `FileOps` | `chmodFile`, `chmodDir`, `rmFile`, `checkFileMode` | access, opendir, command, stat as separate steps; a failing `chmod -R` may have changed any part of the tree; `Others` is another program, `streams` counts the directory streams left open; `latest`, `worked` and `late` are history, read by no guard |
| `Bandwidth` | `checkBandwidth_block` | one action per command; the file is the number of the call that wrote it; the arithmetic of the speed is left out |
| `NandInfo` | `init`, `getNandStoreInfo`, `readNand`, the getters, LEDs, power | the file byte by byte, the shared buffer `res`, the sign extension of the product id |
| `RjcoreInterface` | the tables of the proxy and of the stub, transcribed separately | `Proxy[m]`: code, types written and read; `Stub[code]`: method, types read and written |
| `RjcoreBinder` | client, queue, pool, service process | `Call`/`Return` = a proxy method before and after `transact`, whose status it drops and which it never repeats (`Leave`); `Take` = `onTransact` up to the method; `Enter`/`Refuse`/`Finish` = the method; `Crash`/`Instantiate`/`StartThreadPool` = the process |
| `AndroIntAdder` | driver, HAL and JNI of `/dev/androint` | one action per system call step; the copy of the pair is two steps; integers wrap at a chosen width |
| `LedStack` | activity, `LedManager`, `Led`, both services, the HAL, for one click per activity, with each HAL stub | `OnCreate`, `OnClick`, `GetLedService`, `NativeLedOn`, `HandleMessage` on the user interface thread; `SetOn` ... `CatchRemote` = `MyThread.run`; `OnStart`, `MokoidInit`, `MokoidOpen`, `AddService` = `LedSystemServer.onStart` down to the two assignments of `led_device_open`; `Instantiate` = `ledserver`.  `led.omap3.c` takes the steps of `led.cpp`, so the two are one value of `stub`.  A process that starts has some descriptors open already (`Fresh`) |

How they fit together: `RjcoreBinder` takes handlers as opaque steps with a
mutex and an end; `LogCollector`, `Bandwidth`, `FileOps`, `VendorSector` and
`NandInfo` say what such a handler does on each of its threads.  `CommandQueries`
and `ProcessControl` are compositions: the first runs its methods over the steps of
`ExecuteCmd`, the second over those of `MySystem`, of which it is proved to be an
implementation.  The other modules take a command as one step, and those two justify
how: `executeCmd` returns (hence the fairness of the handlers), `mySystem` may
report an error for a command that ran, and an exit status is no error.

Definitions whose comment says *mutant* are deliberately wrong forms of the
definition that follows.  They are used by no specification: putting one in the
place of the definition must make TLC find a property violated, which shows that
the property depends on that piece of code.

## 3. Runs

| Run | Question | Instance and why it is enough | Outcome |
|---|---|---|---|
| `command_queries` | bounds, C string, answers, return | buffer of 4, pipe of 1 byte, every output of at most 5 bytes over two letters, newline and NUL (for each of the two commands of `checkIpConflict_block`): outputs shorter than, equal to and longer than the buffer, lines ending at its last byte, blocked writers, a first output longer than the second; a unit of 2 instead of 1024, so that both boundaries and ties of the rounding are met; every single bit of `lcdinfo.ini` | holds |
| `process_control` | who is killed, how many daemons, are errors and the disposition right? | 2 threads (two calls overlap), pids 1, 11 and 12 (so that a cut list names another process), two processes at a time (two daemons, or a daemon and another program), a list with room for one pid (the cut leaves any proper prefix of the next one's digits, `Stumps`), both inherited dispositions; symmetric | holds |
| `vendor_sector` | atomic register, rest, descriptors, truth of true | 2 callers, requests on, off and out of range, failing ioctls, crashes | holds |
| `log_collector` | own archive, tombstones, mutex | 2 threads, 3 calls, a name with and one without `.zip`, one descriptor (the second `chmodDir` finds none) | holds |
| `file_ops` | what does true mean, and what do exhausted descriptors and replaced paths do? | 2 threads, a directory and a file in it (so that a tree can be changed in part), 2 descriptors (so that a call still finds one and a later one none), one interference by another program; symmetric | holds |
| `file_ops_rm` | does true mean gone? | one thread | violated, see 6 |
| `bandwidth` | own file, mutex | 3 threads, 4 calls: a call that leaves its file, one that finds it, others waiting | holds |
| `nand_info` | fields, gates, all or nothing | a `char` of 4 values (`BYTE`), so that four of them make the 256 of `LONG`; all combinations of fields up to two characters with NULs and uncleared bytes, every truncation of a file; a `long` as wide as the id, as on the 32-bit target | holds |
| `binder` | arguments, answers, at most once, every call returns | 3 clients on 2 threads, 3 calls, 2 starts of the service; one client calls any of the 37 methods, the others the one with a mutex: a thread works, one waits for the mutex, a transaction queues, the service dies at any point | holds |
| `androint_adder` | torn and disturbed sums, semaphore | 2 clients, 3 additions, 4-bit integers, pairs whose mixtures have other sums and one that overflows | holds |
| `led_stack` | when is a click lost, when does it kill, does it end? | 2 activities (so a second start meets a running call), 2 descriptors of which a process that starts has none or one open already (so the second start finds one or none), 2 deaths of services (so both may die, or one twice), each HAL stub or none, with and without device file | holds |
| `sensors_hal` | descriptors, samples, return of a poll | 2 sessions (so one may open over the other), 4 descriptors (so that two handles, `sInputFD` and another file fit, and so that `dup` fails), bytes at both ends of the signed range | holds |

Bounds that exist only for TLC are constants with names (`MaxCalls`, `MaxAdds`,
`MaxStarts`, `MaxCrashes`, `MaxOthers`, `MaxOut`, `MaxRunning`).
`CHECK_DEADLOCK FALSE` is set where a run may end: the query is answered, or the
bound on calls is used up; and in `process_control` and `sensors_hal`, whose steps belong to callers that may stop.
Type invariants of the modules with proofs are proved rather than checked in a run.

What a few of them say about the code, beyond "holds":

- `BehavesAtomically` is not obvious: `setDeviceResolution` is an unlocked
  read-modify-write.  It holds because each request overwrites all of the
  effective resolution and nobody else in this process writes the rest of the
  sector.
- `OneDaemon` and `StartLeavesDaemon` list the ways `startAvahi` goes wrong: two
  daemons after an overlapping `startAvahi`, with the link down (the check for a
  running daemon is then skipped, RN:132), after a failed kill, or while the first is
  still being launched; none at all when `mySystem` says -1 after the kill has run.
- `KillsOnlyNamed` has two exceptions and both are reached: a pid that changed hands
  between `pidof` and `kill`, and a list cut at 512 bytes inside a number (RA:73).
- `QueryAnswer` takes `char` to be unsigned, as on ARM; with a signed one a low byte
  above 127 of `lcdinfo.ini` would offer the modes 8 and 9 (RP:687).
- `ClosesOnlyOwn`, `NoDescriptorLeak` and `VectorIsSample` hold as long as no
  `data_open` meets an open session.  Then one descriptor leaks, and the second
  `data_close` may close a file of the rest of the process that got the number.
- `FalseErrorNeedsOverlap` and `RestoredUnlessOverlapped` say exactly when
  `mySystem` goes wrong: two overlapping calls, and for a false error a process
  started with SIGCHLD ignored.
- `SpeedIsOwn` needs `left = "no"`: after a failed `du`, a failed `rm` or a
  crash the next measurement may be of an old file.
- `ArgumentsArrive` is checked with `ReadOrder = "ltr"`.  Several cases of
  `onTransact` read their arguments inside one argument list, whose order C++
  does not fix; the Android compilers evaluate it left to right.  Under `"rtl"`
  the arguments of methods with more than one arrive permuted.
- `RmFileAnswer`, `ChmodTrueHolds` and `ChmodFileSparesDirectories` have an exception
  for exhausted descriptors, and it is reached: `opendir` is used as a test and the
  stream is never closed.  `ExhaustionIsFinal` says what that costs `chmodDir`: once
  the descriptors are gone no call succeeds before the service is restarted.
- `ChmodTrueHolds` holds although the exit status of `chmod` is lost, because the
  mode is looked at afterwards (RP:445, RP:473).  Only the path itself is looked at:
  a `chmod -R` that fails half way with its root done is answered with true.  The
  model has that step; no property says otherwise, as the code does nothing against
  it.
- `SumUnlessDisturbed` needs its exception: the semaphore covers the write and
  the read of an addition separately, so a second client's write in between makes
  the first return the other's sum (`androint-hal.c:40-41`).
- `SwitchReachesLed` holds for one start of the Java service.  A second start (a
  second activity) stores a device with descriptor 0 in `sLedDevice` before
  `open` (`led.cpp:79-82`), and a call in between goes to descriptor 0; the stub
  for another board, `led.dma6410xp.c:97-99`, has the safe order.
- `EveryClickEnds` has one exception, stated in it: `getLedService` waits for
  "mokoid.led" without limit on the user interface thread
  (`mokoid_hardware_Led.cpp:28-34`), so a click hangs for good while `ledserver` is
  down (`UiBlocked`).  Nothing in the repository starts it.  The property says that
  this is the only way to hang.
- `AtMostOnce` depends on the proxies: one that repeated `transact` after a
  DEAD_OBJECT would run a method twice.
- `ShownMeansSwitched` exempts a death of `ledserver`: the cached `mLedService`
  (`mokoid_hardware_Led.cpp:25`) is never looked up again.  With the stub for the
  DMA6410 the text is always wrong: the proxy does not send the LED's number
  (`libledservice/LedService.cpp:55`) and the stub knows only 1 and 2.

## 4. Fairness

- `CommandQueries`: the calling thread and the command run on (weak fairness of
  each); the command is one that ends when its output is written.
- `LogCollector`: weak fairness of each thread's next step: binder threads are
  scheduled and commands end.  The mutex
  grants no fairness; that a waiting call gets it follows from the bounded number
  of calls.  Under an endless stream of calls a thread could starve; the code does
  nothing against it.
- `RjcoreBinder`: weak fairness of each pool thread, of the return of a proxy
  method and of `ProcessState::startThreadPool` after `instantiate`.  Neither a
  restart nor a further call is ever forced.
- `AndroIntAdder`: weak fairness of each client's steps; signals are never
  forced.
- `SensorsHal`: a call that is not blocked goes on and the sensor delivers samples;
  callers need not call, and other files need not become readable.
- `ProcessControl` states no liveness: `system` waits as long as the command does.
- `LedStack`: weak fairness of the user interface thread and of each `MyThread`.
  The start of `ledserver` is not assumed, as no init script of the repository
  starts it: a click may wait for it for good, and `EveryClickEnds` says so.  Nor is
  the start of the Java service: the click ends without it, with a dead application.

## 5. Proofs

TLAPS proves every safety property of every run that is expected to hold, for all
values of the constants.  The assumptions are the named ones of the modules (bounds are
natural numbers, `SIZE`, `PipeCap` and `FdLimit` positive, `NoThread` is no thread, `Rates` without
repetition, bytes within their range, requests and outputs well typed), which TLC
evaluates on each instance, and three hypotheses that theorems state themselves, below.

| Module | Theorems | The inductive invariant, and why it is needed |
|---|---|---|
| `CommandQueries_proofs`, `executeCmd` alone | `TypeCorrect`, `NoOverrun`, `ReturnsOutput` | `IInv`: the bounds are not inductive without knowing where the terminator is, since `strlen` decides by how much `size` shrinks.  `Terminated` (no zero byte before `pBuf`, one at or after it), `Gathered` (what the buffer holds is what was read), `ChildState` (end of file comes after all of the output) |
| `CommandQueries_proofs`, the queries | `QueriesNeverOverrun`, `QueriesGetOutput`, `QueriesAnswer` | `QInv`: `IInv` again, which the second command of `checkIpConflict_block` re-establishes (`RestartInv`), where the query stands (`QueryState`), and that an answer is what the method makes of the buffer (`AnswerKept`).  `TextIsSeen` turns the buffer into the output as far as it fits; a lemma per operation on it says what trimming, searching, scaling, rounding and bit masks yield |
| `ProcessControl_proofs`, `mySystem` alone | `TypeCorrect`, `ErrorsExplained`, `RestoresSerially` | what is true before the first overlap (`Serial`), who owns a child (`ChildOwned`), and that an inherited SIG_DFL never becomes SIG_IGN |
| `ProcessControl_proofs`, the handlers | `ImplementsMySystem`, `ErrorsExplainedInHandlers`, `RestoresSeriallyInHandlers`, `KillsNamed`, `StartLeavesOne`, `NeverTwoDaemons` | every step of the composition is a step of `MySystem` or a stutter, so its theorems carry over.  `KillsNamed` needs `Fresh`: a listed pid is still of the name or its process has ended since.  The daemons need to know where a handler stands when its command is out (`Flow`, `Executed`), that overlapping starts are blind (`Alone`), what a call that is not blind knows (`Sighted`) and what a start that has run left (`Left`) |
| `Nand_proofs`, the vendor sector | `TypeCorrect`, `DescriptorsClosed`, `RestSurvives`, `SectorSafe`, `ImplementsRegister` | `InFlight` describes the local copy of a caller between its ioctls: it says what its request says and carries the vendor's bytes.  Each step of the code is then a step of `ResolutionRegister` or a stutter |
| `Nand_proofs`, the device's identity | `FieldsRead`, `GateHolds`, `NothingPartial` | `NandInv`: the buffer is clean for the next field, and the fields read so far are those of the file; a reading that failed leaves a prefix of them.  `GateHolds` and `NothingPartial` follow because the product type is either empty or the stored one.  The lemmas before it say what `readNand` leaves of a field with a length byte, and that four shifted bytes make the number stored |
| `Files_proofs`, log collection | `TypeCorrect`, `OwnArchive`, `TombstonesNeverHalfMade` | mutual exclusion (`MutexInv`), what a call without failures has achieved at each of its steps (`Progress`), and where a half-made directory can be (`HalfMade`) |
| `Files_proofs`, file operations | `FilesTypeCorrect`, `RemovalAnswered`, `ChmodAnswered`, `NoChmodDirWhenExhausted`, `DirectoriesSpared` | `FilesInv`: past `opendir` a path is of the kind the method is for, unless `opendir` could not tell or another program replaced it since (`RunGuarded`, by `KindFits`), what the command that came last has left (`LatestDone`), and that a `chmodDir` that came too late gets no further than `opendir`, as no descriptor comes back (`LateRefused`) |
| `Mokoid_proofs`, the LED stack | `TypeCorrect`, `DeathsExplained`, `JavaSwitchReaches`, `TextIsTrue` | `LInv`: a start is queued, running or done for every activity created (`Asked`), why a service reference is null (`NullExplained`), that a published service has been through `mokoid_init` (`JavaUp`, `NativeUp`), and which descriptor the device has on the first start and on later ones (`FirstOpen`, `LateOpen`) |
| `Mokoid_proofs`, the sensors | `DescriptorsReturned`, `VectorsAreSamples`, `ClosesOwnDescriptors` | `SensorsInv`: until one session opens over another, whoever holds a handle has a descriptor of the sensor to itself (`HandlesOwn`), the open session owns `sInputFD` (`InputOwn`), and each of the sensor's descriptors has a holder (`Accounted`) |
| `RjcoreBinder_proofs` | `RunsAtMostOnce`, `AnswersAreOwn`, `CallsArrive`, `RjcoreAgrees`, `RjcoreCalls` | a call under way carries the parcel of its method (`InCall`), a transaction is in the queue once or with one thread (`Queued`, `Served`), and a reply is the result's parcel or empty after a death (`Replied`) |
| `AndroIntAdder_proofs` | `TypeCorrect`, `SumsAreWhole`, `SerialSums` | who copies or adds holds the semaphore (`Exclusive`), outside a copy the device holds a pair written as a whole (`DataWhole`), a sum read is of such a pair (`OutWhole`), and a client's pair is in the device until it is disturbed (`OwnPair`) |
| `Bandwidth_proofs` | `MutexComesBack` (held exactly between the lock and the return), `MeasuresOwn` | while no call left its file, the file exists only under the mutex and is the holder's (`OwnFile`) |

The hypotheses stated in theorems:

- `Interface` (`RunsAtMostOnce`, `AnswersAreOwn`, `CallsArrive`): proxy and stub agree
  on the methods the clients use (`AgreeOn`: same code, same types in the same order,
  same method), and a method that may refuse its arguments has one result.  It is no
  restriction to this service: `RjcoreAgrees` proves it of the two tables transcribed
  from IC, all 37 methods, and `RjcoreCalls` states the three properties for them.
  `TablesAssumption` of `RjcoreInterface` says that the tables, built with `@@`, are
  the union `Joined` of their four parts; the prover has no rule for `@@`, TLC
  evaluates the equation.
- `ReadOrder = "ltr"` (`CallsArrive`, `RjcoreCalls`): argument lists are evaluated from
  left to right; under `"rtl"` the property is false (section 3).
- `LONG = INT` (`FieldsRead`): an `unsigned long` is as wide as an `int`, as on the
  32-bit target.  With a wider one the id of a device with a first byte above 127 is
  sign-extended (RS:210) and the property is false.

Only model-checked: the liveness properties `QueryReturns`, `EveryCallReturns` (of
`LogCollector` and of `RjcoreBinder`), `EveryAddReturns`, `EveryClickEnds` and
`PollReturns`; fairness and ENABLED are out of the prover's reach.  What `atoi` makes
of a word is a constant in `CommandQueries`, computed by a fold in
`MCCommandQueries`.

## 6. Findings

- `rmFile` returns true and logs "remove the file:%s successful!" (RP:500) for a
  file that is still there, because only the sign of `mySystem`'s result is looked
  at (`file_ops_rm`).

Met while modelling and evident from the code: `setDeviceResolution` returns
false when only the read-back after a successful store fails (RP:636); the test
program calls `collectLogFiles_block` with a name without `.zip`, which the code
refuses (RP:361), and then looks for the archive
(`tests/rjcoreserver_tests.cpp:147-149`); `mokoid_setOn` and `led_on` return -1,
which Java reads as true, where they mean an error; the native `onTransact` passes
a `char *` to `setOn(int)` (`libledservice/LedService.cpp:101`), which compiles
only with a permissive compiler and hands on 0, a number `led.cpp` only logs and
`led.dma6410xp.c` refuses; and the
goldfish `LedManager.java:86` has `mThread.run(); // async method call`, which runs
the body in the caller's thread.

## 7. Plan and what is not modelled

Done, in this order: `ExecuteCmd`, `MySystem`, `VendorSector` with its register,
`LogCollector`, `FileOps`, `Bandwidth`, `NandInfo`, `RjcoreInterface` and
`RjcoreBinder`, `AndroIntAdder`, `LedStack`, `ProcessControl`, `SensorsHal`,
`CommandQueries`.

Proved, in this order: `ExecuteCmd`, `MySystem`, `VendorSector` and its register,
`LogCollector`, `AndroIntAdder`, `ProcessControl`, `LedStack`, `Bandwidth`,
`RjcoreBinder` and its tables, `FileOps`, `NandInfo`, `SensorsHal`, `CommandQueries`.

Left: that `RjcoreBinder` implements an abstract remote call (the result of one run of
the method, or the default) with a refinement mapping; that `CommandQueries` implements
`ExecuteCmd` run once or twice; type invariants of `NandInfo`, `SensorsHal` and
`RjcoreBinder` as theorems of their own (they are parts of the invariants above).

Not modelled:

- `reboot` and `shutdown`: one command each, after which there is no system;
- the arithmetic of the bandwidth (floating point and a division by a time that may
  be zero);
- `strcat` in `getCpuInfo` beyond the end of the buffer: the line it appends to is
  far shorter than the buffer;
- the `cdata` driver, which only logs its calls, and the HAL stub `led2.c`;
- loading and unloading of the AndroInt driver, and the opening and closing of HAL
  devices, which allocate and fill tables;
- `set_delay`, `activate` and `wake` of the sensors HAL (a pause; nothing), `led_off`
  and `setDeviceName` of the LED stack (mirror images and logging);
- the AndroInt activities and their service, which adds two integers without state;
- configuration, generated code and binaries.
