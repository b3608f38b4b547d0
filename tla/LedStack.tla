------------------------------ MODULE LedStack ------------------------------
(***************************************************************************)
(* The Mokoid LED stack (mokoid-stub): the LedTest activity, LedManager    *)
(* and Led in the application's process; the Java service "led", which     *)
(* LedSystemServer.onStart creates and publishes in a process of its own;  *)
(* the native service "mokoid.led" of ledserver; and the HAL stub that     *)
(* both services load: led.cpp, or the variants for the OMAP3 and DMA6410  *)
(* boards.                                                                 *)
(*                                                                         *)
(* One click switches the LED twice: through the Java service, from a      *)
(* thread LedManager starts, and through the native one, from the user     *)
(* interface thread.  A switch is the ioctl or write of led_on; it is a    *)
(* "hit" when it is made on an open device and a "miss" when it is made on *)
(* another descriptor, or not at all.  Neither is reported: led_on ignores *)
(* the result of its system call, and the callers that of led_on.          *)
(***************************************************************************)
EXTENDS Naturals, Sequences

CONSTANTS
    Activities,   \* instances of the LedTest activity
    FdLimit,      \* descriptors the Java service's process may have
    MaxCrashes    \* bound on the deaths of service processes explored

ASSUME FdLimitAssumption == FdLimit \in Nat \ {0}
ASSUME MaxCrashesAssumption == MaxCrashes \in Nat

VARIABLES
    stub,      \* the HAL built: "led.cpp", which led.omap3.c agrees with in
               \* every step, "led.dma6410xp.c" or "none"
    hw,        \* the LED: "ok" or "noNode" (no device file)
    act,       \* act[i]: where activity i stands, "init" and "on" in onClick
    thr,       \* thr[i]: MyThread of i's LedManager and its message
    ref,       \* ref[i]: LedManager.mLedService of i's LedManager
    nref,      \* mLedService of mokoid_hardware_Led.cpp, one per process
    pending,   \* startService requests not handled yet
    jpc,       \* main thread of the .LedSystemServer process
    led,       \* "led" in the service manager: "none" or "up"
    jdev,      \* sLedDevice there: "null", or its descriptor
    fds,       \* descriptors that process has
    nat,       \* ledserver: "down" or "up" ("mokoid.led" published)
    ndev,      \* its sLedDevice
    crashes,   \* deaths so far
    sw,        \* sw[i]: what i's Java switch did (history)
    nsw,       \* nsw[i]: what i's native switch did (history)
    eager,     \* activities clicked before their start was done (history)
    lapses     \* faults met so far (history)

app     == <<act, thr, ref, nref>>
jserver == <<jpc, led, jdev, fds>>
nserver == <<nat, ndev>>
history == <<sw, nsw, eager, lapses>>
vars    == <<stub, hw, app, pending, jserver, nserver, crashes, history>>

Stubs       == {"led.cpp", "led.dma6410xp.c", "none"}
Proxies     == {"null", "live", "dead"}
Descriptors == {"zero", "bad", "open"}   \* 0 of memset, -1, a device file

(* A process that starts has some descriptors, and room for one more.      *)
Fresh == 0 .. FdLimit - 1

-----------------------------------------------------------------------------
Init ==
    /\ stub \in Stubs
    /\ hw \in IF stub = "none" THEN {"ok"} ELSE {"ok", "noNode"}
    /\ act = [i \in Activities |-> "none"]
    /\ thr = [i \in Activities |-> "none"]
    /\ ref = [i \in Activities |-> "null"]
    /\ nref = "null"
    /\ pending = <<>>
    /\ jpc = "down" /\ led = "none" /\ jdev = "null" /\ fds \in Fresh
    /\ nat = "down" /\ ndev = "null"
    /\ crashes = 0
    /\ sw = [i \in Activities |-> "none"]
    /\ nsw = [i \in Activities |-> "none"]
    /\ eager = {} /\ lapses = {}

InOnClick(i) == act[i] \in {"init", "on"}

(* One thread runs onCreate, onClick and handleMessage of all activities.  *)
UiIdle == \A i \in Activities : ~InOnClick(i)

(* An uncaught exception ends the process with everything in it; the next  *)
(* activity runs in a new one.                                             *)
Die ==
    /\ act' = [i \in Activities |-> IF act[i] = "none" THEN "none" ELSE "dead"]
    /\ thr' = [i \in Activities |-> IF thr[i] = "none" THEN "none" ELSE "dead"]
    /\ nref' = "null"
    /\ UNCHANGED ref

(* The switch of led.dma6410xp.c: it knows LED_C608 and LED_C609.          *)
Knows(number) == number \in {1, 2}

(* led_on of the HAL: an ioctl or write, unchecked; only the one for the   *)
(* DMA6410 looks at the number of the LED.                                 *)
LedOn(fd, number) ==
    IF fd = "open" /\ (stub = "led.dma6410xp.c" => Knows(number))
    THEN "hit" ELSE "miss"

(* mokoid_setOn of the Java service and LedService::setOn of the native    *)
(* one: nothing happens without a device.                                  *)
MokoidSetOn(number) == IF jdev = "null" THEN "miss" ELSE LedOn(jdev, number)
NativeSetOn(number) == IF ndev = "null" THEN "miss" ELSE LedOn(ndev, number)

(* The proxy's transact(LED_ON): the number of the LED is not sent, so the *)
(* service passes on what an empty parcel holds, 0, and the error status   *)
(* of a dead service is dropped.                                           *)
TransactLedOn == IF nref = "live" THEN NativeSetOn(0) ELSE "miss"

-----------------------------------------------------------------------------
(* LedTest *)

(* onCreate: startService, and the button.                                 *)
OnCreate(i) ==
    /\ act[i] = "none" /\ UiIdle
    /\ act' = [act EXCEPT ![i] = "created"]
    /\ pending' = Append(pending, i)
    /\ UNCHANGED <<stub, hw, thr, ref, nref, jserver, nserver, crashes, history>>

(* Its start is still queued, or being handled by onStart.                 *)
Starting(i) == \/ \E k \in DOMAIN pending : pending[k] = i
               \/ jpc \notin {"down", "idle"}

(* onClick, up to LedManager.LedOn: the new LedManager looks the service   *)
(* up, getService answering null when there is none, and MyThread starts.  *)
OnClick(i) ==
    /\ act[i] = "created" /\ UiIdle
    /\ ref' = [ref EXCEPT ![i] = IF led = "up" THEN "live" ELSE "null"]
    /\ thr' = [thr EXCEPT ![i] = "run"]
    /\ act' = [act EXCEPT ![i] = "init"]
    /\ eager' = IF Starting(i) THEN eager \cup {i} ELSE eager
    /\ UNCHANGED <<stub, hw, nref, pending, jserver, nserver, crashes, sw, nsw, lapses>>

GetLedServiceOnce(i) ==   \* mutant: getLedService does not wait
    /\ act[i] = "init"
    /\ nref' = IF nref # "null" THEN nref
               ELSE IF nat = "up" THEN "live" ELSE "dead"
    /\ act' = [act EXCEPT ![i] = "on"]
    /\ UNCHANGED <<stub, hw, thr, ref, pending, jserver, nserver, crashes, history>>

GetLedServiceAfterIpc(i) ==   \* mutant: onClick first waits for the answer
    /\ act[i] = "init" /\ thr[i] \in {"notified", "failed"}
    /\ nref # "null" \/ nat = "up"
    /\ nref' = IF nref = "null" THEN "live" ELSE nref
    /\ act' = [act EXCEPT ![i] = "on"]
    /\ UNCHANGED <<stub, hw, thr, ref, pending, jserver, nserver, crashes, history>>

(* new Led(): getLedService asks every 0.1 s until "mokoid.led" is there,  *)
(* once per process.                                                       *)
GetLedService(i) ==
    /\ act[i] = "init"
    /\ nref # "null" \/ nat = "up"
    /\ nref' = IF nref = "null" THEN "live" ELSE nref
    /\ act' = [act EXCEPT ![i] = "on"]
    /\ UNCHANGED <<stub, hw, thr, ref, pending, jserver, nserver, crashes, history>>

(* led.LedOn(1), which answers true whatever happened, and then the text   *)
(* "LED 1 is On.".                                                         *)
NativeLedOn(i) ==
    /\ act[i] = "on"
    /\ nsw' = [nsw EXCEPT ![i] = TransactLedOn]
    /\ act' = [act EXCEPT ![i] = "shown"]
    /\ UNCHANGED <<stub, hw, thr, ref, nref, pending, jserver, nserver, crashes,
                   sw, eager, lapses>>

-----------------------------------------------------------------------------
(* LedManager *)

(* mLedService.setOn(1) reaches mokoid_setOn on a binder thread.           *)
SetOn(i) ==
    /\ thr[i] = "run" /\ ref[i] = "live"
    /\ sw' = [sw EXCEPT ![i] = MokoidSetOn(1)]
    /\ thr' = [thr EXCEPT ![i] = "call"]
    /\ UNCHANGED <<stub, hw, act, ref, nref, pending, jserver, nserver, crashes,
                   nsw, eager, lapses>>

(* setOn on null: a NullPointerException, which nobody catches.            *)
SetOnNull(i) ==
    /\ thr[i] = "run" /\ ref[i] = "null"
    /\ Die
    /\ UNCHANGED <<stub, hw, pending, jserver, nserver, crashes, history>>

(* setOn returns after the HAL's sleep; mHandler.sendMessage(msg).         *)
SendMessage(i) ==
    /\ thr[i] = "call" /\ ref[i] = "live"
    /\ thr' = [thr EXCEPT ![i] = "msg"]
    /\ UNCHANGED <<stub, hw, act, ref, nref, pending, jserver, nserver, crashes, history>>

(* The service died before or during the call: the RemoteException is      *)
(* caught, and there is no message.                                        *)
CatchRemote(i) ==
    /\ thr[i] \in {"run", "call"} /\ ref[i] = "dead"
    /\ thr' = [thr EXCEPT ![i] = "failed"]
    /\ UNCHANGED <<stub, hw, act, ref, nref, pending, jserver, nserver, crashes, history>>

(* handleMessage: mContext.onLedChanged().                                 *)
HandleMessage(i) ==
    /\ thr[i] = "msg" /\ UiIdle
    /\ thr' = [thr EXCEPT ![i] = "notified"]
    /\ UNCHANGED <<stub, hw, act, ref, nref, pending, jserver, nserver, crashes, history>>

-----------------------------------------------------------------------------
(* LedSystemServer and LedService (Java), in their process *)

OnStartPublishes ==   \* mutant: addService before the object is constructed
    /\ pending # <<>> /\ jpc \in {"down", "idle"}
    /\ pending' = Tail(pending)
    /\ jpc' = "new" /\ led' = "up"
    /\ UNCHANGED <<stub, hw, app, jdev, fds, nserver, crashes, history>>

(* onStart, in a process started for it if need be.                        *)
OnStart ==
    /\ pending # <<>> /\ jpc \in {"down", "idle"}
    /\ pending' = Tail(pending)
    /\ jpc' = "new"
    /\ UNCHANGED <<stub, hw, app, led, jdev, fds, nserver, crashes, history>>

(* The stub for the DMA6410 stores the device once it has its descriptor.  *)
StoresOpened == stub = "led.dma6410xp.c"

(* mokoid_init: without a HAL sLedDevice keeps its value; otherwise        *)
(* led_device_open stores the new device in it with descriptor 0, unless   *)
(* it opens first.                                                         *)
MokoidInit ==
    /\ jpc = "new"
    /\ IF stub = "none"
       THEN jpc' = "add" /\ UNCHANGED <<jdev, lapses>>
       ELSE /\ jpc' = "open"
            /\ jdev' = IF StoresOpened THEN jdev ELSE "zero"
            /\ lapses' = IF jdev = "null" THEN lapses
                                          ELSE lapses \cup {"reopened"}
    /\ UNCHANGED <<stub, hw, app, pending, led, fds, nserver, crashes, sw, nsw, eager>>

(* dev->fd = open(...), unchecked; the descriptor of the device that was   *)
(* there before is never closed.                                           *)
MokoidOpen ==
    /\ jpc = "open"
    /\ IF hw = "ok" /\ fds < FdLimit
       THEN jdev' = "open" /\ fds' = fds + 1
       ELSE jdev' = "bad" /\ UNCHANGED fds
    /\ jpc' = "add"
    /\ UNCHANGED <<stub, hw, app, pending, led, nserver, crashes, history>>

AddServiceIfOpen ==   \* mutant: only a working service is published
    /\ jpc = "add"
    /\ jpc' = "idle"
    /\ led' = IF jdev = "open" THEN "up" ELSE led
    /\ UNCHANGED <<stub, hw, app, pending, jdev, fds, nserver, crashes, history>>

(* addService, whether or not there is a device; when it is refused the    *)
(* RuntimeException is caught and logged.                                  *)
AddService ==
    /\ jpc = "add"
    /\ jpc' = "idle"
    /\ \/ led' = "up" /\ UNCHANGED lapses
       \/ UNCHANGED led /\ lapses' = lapses \cup {"refused"}
    /\ UNCHANGED <<stub, hw, app, pending, jdev, fds, nserver, crashes, sw, nsw, eager>>

(* The process dies and takes its binder objects with it.                  *)
JavaDeath ==
    /\ jpc # "down" /\ crashes < MaxCrashes
    /\ crashes' = crashes + 1
    /\ jpc' = "down" /\ led' = "none" /\ jdev' = "null" /\ fds' \in Fresh
    /\ ref' = [i \in Activities |-> IF ref[i] = "live" THEN "dead" ELSE ref[i]]
    /\ lapses' = lapses \cup {"javaDeath"}
    /\ UNCHANGED <<stub, hw, act, thr, nref, pending, nserver, sw, nsw, eager>>

-----------------------------------------------------------------------------
(* ledserver: the constructor opens the device before addService, and no   *)
(* transaction is taken before that.                                       *)
Instantiate ==
    /\ nat = "down"
    /\ nat' = "up"
    /\ ndev' = CASE stub = "none"   -> "null"
                 [] hw = "noNode"   -> "bad"
                 [] OTHER           -> "open"
    /\ UNCHANGED <<stub, hw, app, pending, jserver, crashes, history>>

NativeDeath ==
    /\ nat = "up" /\ crashes < MaxCrashes
    /\ crashes' = crashes + 1
    /\ nat' = "down" /\ ndev' = "null"
    /\ nref' = IF nref = "live" THEN "dead" ELSE nref
    /\ lapses' = lapses \cup {"nativeDeath"}
    /\ UNCHANGED <<stub, hw, act, thr, ref, pending, jserver, sw, nsw, eager>>

-----------------------------------------------------------------------------
Ui(i)     == GetLedService(i) \/ NativeLedOn(i) \/ HandleMessage(i)
Thread(i) == SetOn(i) \/ SetOnNull(i) \/ SendMessage(i) \/ CatchRemote(i)

Next == \/ \E i \in Activities : OnCreate(i) \/ OnClick(i) \/ Ui(i) \/ Thread(i)
        \/ OnStart \/ MokoidInit \/ MokoidOpen \/ AddService
        \/ Instantiate \/ JavaDeath \/ NativeDeath

Spec == Init /\ [][Next]_vars

(* The threads of the application run.  The user and the Java service owe  *)
(* nothing, and neither does ledserver: no init.rc starts it.              *)
FairSpec == /\ Spec
            /\ \A i \in Activities : WF_vars(Ui(i)) /\ WF_vars(Thread(i))

-----------------------------------------------------------------------------
(* The types, and: the processes that open the device again and again stay *)
(* within their descriptors.                                               *)
TypeOK ==
    /\ stub \in Stubs /\ hw \in {"ok", "noNode"}
    /\ act \in [Activities ->
                   {"none", "created", "init", "on", "shown", "dead"}]
    /\ thr \in [Activities ->
                   {"none", "run", "call", "msg", "notified", "failed", "dead"}]
    /\ ref \in [Activities -> Proxies] /\ nref \in Proxies
    /\ pending \in Seq(Activities)
    /\ jpc \in {"down", "idle", "new", "open", "add"}
    /\ led \in {"none", "up"} /\ nat \in {"down", "up"}
    /\ {jdev, ndev} \subseteq {"null"} \cup Descriptors
    /\ fds \in 0 .. FdLimit
    /\ crashes \in 0 .. MaxCrashes
    /\ sw \in [Activities -> {"none", "hit", "miss"}]
    /\ nsw \in [Activities -> {"none", "hit", "miss"}]
    /\ eager \subseteq Activities
    /\ lapses \subseteq {"reopened", "refused", "javaDeath", "nativeDeath"}

(* The application dies of the null service (LedManager.java:71) only if   *)
(* an activity was clicked before the start it asked for in onCreate was   *)
(* done, the service was refused, or its process died: otherwise onStart   *)
(* has published "led", with or without a LED, before anybody asks for it. *)
DiesOnlyIfEager ==
    (\E i \in Activities : act[i] = "dead") =>
        eager # {} \/ lapses \cap {"refused", "javaDeath"} # {}

(* On a device with a LED a call of the Java service's setOn reaches it,   *)
(* unless a second start has opened the device again: mokoid_init replaces *)
(* sLedDevice under the feet of the binder threads, before the new one has *)
(* its descriptor, and the leaked ones may have used up the table.  The    *)
(* HAL for the DMA6410 is exposed to the second only.                      *)
SwitchReachesLed ==
    hw = "ok" /\ stub # "none" /\ (\E i \in Activities : sw[i] = "miss") =>
        /\ "reopened" \in lapses
        /\ stub = "led.dma6410xp.c" => fds = FdLimit \/ "javaDeath" \in lapses

(* "LED 1 is On." (LedTest.java:81) is shown after the native service has  *)
(* switched the LED, unless there is none or the native service has died,  *)
(* after which the process keeps a dead mLedService.  With the HAL for the *)
(* DMA6410 it never has: the number of the LED is lost on the way.         *)
ShownMeansSwitched ==
    \A i \in Activities :
        hw = "ok" /\ stub # "none" /\ act[i] = "shown" =>
            IF stub = "led.dma6410xp.c" THEN nsw[i] = "miss"
            ELSE nsw[i] = "hit" \/ "nativeDeath" \in lapses

(* getLedService (mokoid_hardware_Led.cpp 28-34) keeps the user interface  *)
(* thread in its loop, and there is no ledserver.                          *)
UiBlocked == nref = "null" /\ nat = "down" /\ \E i \in Activities : act[i] = "init"

(* Every click ends: the text is shown and the listener told, or its call  *)
(* failed, or the application is dead; unless the loop of getLedService    *)
(* holds the user interface thread for good, because ledserver is down and *)
(* stays so.  Nothing else can: onClick does not wait for the thread whose *)
(* message only the user interface thread handles, nor for the Java        *)
(* service, and a ledserver that comes up and stays ends the loop.         *)
EveryClickEnds ==
    \A i \in Activities : act[i] = "init" ~>
        \/ act[i] = "dead"
        \/ act[i] = "shown" /\ thr[i] \in {"notified", "failed"}
        \/ []UiBlocked
=============================================================================
