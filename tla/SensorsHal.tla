----------------------------- MODULE SensorsHal -----------------------------
(***************************************************************************)
(* The accelerometer HAL (hardware/modules/sensors/sensors.cpp) and the    *)
(* descriptors of the process that loads it.  A session is a caller that   *)
(* takes a handle from open_data_source, hands it to data_open, polls and  *)
(* ends with data_close.  All sessions share the static sInputFD, which    *)
(* data_close does not reset.                                              *)
(*                                                                         *)
(* Other code of the process opens and closes descriptors meanwhile; the   *)
(* kernel hands out the lowest free one.  What set_delay stores is only    *)
(* the length of the pause in data_poll and is left out, as are activate   *)
(* and wake, which do nothing.                                             *)
(***************************************************************************)
EXTENDS Integers, FiniteSetsExt

CONSTANTS
    Sessions,
    FdMax,      \* descriptors are 0 .. FdMax
    Samples,    \* the three bytes a read of the sensor yields: X, Y and Z
    Foreign     \* three bytes of some other file

ASSUME FdMaxAssumption == FdMax \in Nat

Fds   == 0 .. FdMax
Bytes == 0 .. 255
Zeros == <<0, 0, 0>>

ASSUME SamplesAssumption ==
    Samples \cup {Foreign} \subseteq Bytes \X Bytes \X Bytes

VARIABLES
    table,     \* table[fd]: "free", "sensor" or "other"
    sInputFD,  \* the static descriptor, -1 at first
    at,        \* at[s]: where session s stands
    handle,    \* handle[s]: data[0] of its native_handle
    watched,   \* watched[s]: what its poll() waits for
    vector,    \* vector[s]: data->vector.v after its last data_poll
    crossed,   \* a data_open has taken sInputFD from a session (history)
    faults     \* system calls that have failed (history)

sensorsVars == <<table, sInputFD, at, handle, watched, vector, crossed, faults>>

-----------------------------------------------------------------------------
SensorsInit ==
    /\ table = [fd \in Fds |-> "free"]
    /\ sInputFD = -1
    /\ at = [s \in Sessions |-> "none"]
    /\ handle = [s \in Sessions |-> -1]
    /\ watched = [s \in Sessions |-> "none"]
    /\ vector = [s \in Sessions |-> Zeros]
    /\ crossed = FALSE
    /\ faults = {}

Goto(s, place) == at' = [at EXCEPT ![s] = place]
Free           == {fd \in Fds : table[fd] = "free"}
Kind(fd)       == IF fd \in Fds THEN table[fd] ELSE "none"

(* A new descriptor for a file of the given kind.                          *)
NewFd == Min(Free)
Opened(kind) == table' = [table EXCEPT ![NewFd] = kind]

(* close(fd): of -1, or of a descriptor that is not open, it has no effect *)
Closed(fd) == table' = [f \in Fds |-> IF f = fd THEN "free" ELSE table[f]]

(* Sessions between data_open and data_close.                              *)
InUse == {s \in Sessions : at[s] \in {"handover", "open", "wait", "read", "polled"}}

-----------------------------------------------------------------------------
(* open_data_source; without a descriptor it returns NULL.                 *)
OpenDataSource(s) ==
    /\ at[s] = "none"
    /\ \/ /\ Free # {}
          /\ Opened("sensor")
          /\ handle' = [handle EXCEPT ![s] = NewFd]
          /\ Goto(s, "handle")
       \/ UNCHANGED <<table, handle, at>>
    /\ UNCHANGED <<sInputFD, watched, vector, crossed, faults>>

DataOpenNoDup(s) ==   \* mutant: the handle's own descriptor is kept
    /\ at[s] = "handle"
    /\ crossed' = (crossed \/ InUse # {})
    /\ sInputFD' = handle[s]
    /\ Goto(s, "handover")
    /\ UNCHANGED <<table, handle, watched, vector, faults>>

DataOpenClosed(s) ==   \* mutant: the handle is closed before it is duplicated
    /\ at[s] = "handle"
    /\ crossed' = (crossed \/ InUse # {})
    /\ sInputFD' = -1
    /\ Goto(s, "handover")
    /\ UNCHANGED <<table, handle, watched, vector, faults>>

(* data_open: sInputFD = dup(handle->data[0]), unchecked ...               *)
DataOpen(s) ==
    /\ at[s] = "handle"
    /\ crossed' = (crossed \/ InUse # {})
    /\ \/ Free # {} /\ sInputFD' = NewFd /\ Opened("sensor") /\ UNCHANGED faults
       \/ Free = {} /\ sInputFD' = -1 /\ faults' = faults \cup {"dup"} /\ UNCHANGED table
    /\ Goto(s, "handover")
    /\ UNCHANGED <<handle, watched, vector>>

HandoverLeak(s) ==   \* mutant: native_handle_delete without native_handle_close
    /\ at[s] = "handover"
    /\ handle' = [handle EXCEPT ![s] = -1]
    /\ Goto(s, "open")
    /\ UNCHANGED <<table, sInputFD, watched, vector, crossed, faults>>

(* ... and the handle is closed and deleted.                               *)
Handover(s) ==
    /\ at[s] = "handover"
    /\ Closed(handle[s])
    /\ handle' = [handle EXCEPT ![s] = -1]
    /\ Goto(s, "open")
    /\ UNCHANGED <<sInputFD, watched, vector, crossed, faults>>

(* data_poll: poll() on sInputFD without a timeout ...                     *)
DataPoll(s) ==
    /\ at[s] = "open"
    /\ watched' = [watched EXCEPT ![s] = Kind(sInputFD)]
    /\ Goto(s, "wait")
    /\ UNCHANGED <<table, sInputFD, handle, vector, crossed, faults>>

(* ... returns when the sensor has a sample, and at once (POLLNVAL) for a  *)
(* descriptor that is not open.                                            *)
PollReady(s) ==
    /\ at[s] = "wait" /\ watched[s] \in {"sensor", "free"}
    /\ Goto(s, "read")
    /\ UNCHANGED <<table, sInputFD, handle, watched, vector, crossed, faults>>

(* It may return for another file, and fails when a signal comes: then     *)
(* data_poll returns the error.                                            *)
PollOther(s) ==
    /\ at[s] = "wait" /\ watched[s] = "other"
    /\ Goto(s, "read")
    /\ UNCHANGED <<table, sInputFD, handle, watched, vector, crossed, faults>>

PollInterrupted(s) ==
    /\ at[s] = "wait"
    /\ Goto(s, "open")
    /\ watched' = [watched EXCEPT ![s] = "none"]
    /\ UNCHANGED <<table, sInputFD, handle, vector, crossed, faults>>

(* (signed char) *)
Signed(b) == IF b >= 128 THEN b - 256 ELSE b

VectorUnsigned(b) == <<-b[2], -b[1], -b[3]>>   \* mutant: no (signed char)

(* The vector for the bytes X, Y, Z, in units of ST_SENSITIVITY *          *)
(* GRAVITY_EARTH: X and Y change places, and every sign is turned.         *)
Vector(b) == <<-Signed(b[2]), -Signed(b[1]), -Signed(b[3])>>

(* After the pause: read(sInputFD, buff, 3).  Its result is not looked at, *)
(* so that after a failure the zeroed buffer is reported.                  *)
Read(s) ==
    /\ at[s] = "read"
    /\ \/ /\ Kind(sInputFD) = "sensor"
          /\ \E b \in Samples : vector' = [vector EXCEPT ![s] = Vector(b)]
          /\ UNCHANGED faults
       \/ /\ Kind(sInputFD) = "other"
          /\ vector' = [vector EXCEPT ![s] = Vector(Foreign)]
          /\ UNCHANGED faults
       \/ /\ vector' = [vector EXCEPT ![s] = Vector(Zeros)]
          /\ faults' = IF Kind(sInputFD) = "sensor" THEN faults \cup {"read"} ELSE faults
    /\ Goto(s, "polled")
    /\ watched' = [watched EXCEPT ![s] = "none"]
    /\ UNCHANGED <<table, sInputFD, handle, crossed>>

(* The caller uses the vector and goes on.                                 *)
Use(s) ==
    /\ at[s] = "polled"
    /\ vector' = [vector EXCEPT ![s] = Zeros]
    /\ Goto(s, "open")
    /\ UNCHANGED <<table, sInputFD, handle, watched, crossed, faults>>

DataClose(s) ==
    /\ at[s] = "open"
    /\ Closed(sInputFD)
    /\ Goto(s, "none")
    /\ UNCHANGED <<sInputFD, handle, watched, vector, crossed, faults>>

(* The rest of the process.                                                *)
OtherOpen ==
    /\ Free # {}
    /\ Opened("other")
    /\ UNCHANGED <<sInputFD, at, handle, watched, vector, crossed, faults>>

OtherClose ==
    /\ \E fd \in Fds : table[fd] = "other" /\ Closed(fd)
    /\ UNCHANGED <<sInputFD, at, handle, watched, vector, crossed, faults>>

Session(s) == Handover(s) \/ PollReady(s) \/ Read(s)

SensorsNext ==
    \/ \E s \in Sessions :
          \/ Session(s) \/ OpenDataSource(s) \/ DataOpen(s) \/ DataPoll(s)
          \/ PollOther(s) \/ PollInterrupted(s) \/ Use(s) \/ DataClose(s)
    \/ OtherOpen \/ OtherClose

SensorsSpec == SensorsInit /\ [][SensorsNext]_sensorsVars

(* The sensor delivers samples, and a call that is not blocked goes on.    *)
(* The callers, and the other files, owe nothing.                          *)
FairSensors == SensorsSpec /\ \A s \in Sessions : WF_sensorsVars(Session(s))

-----------------------------------------------------------------------------
(* As long as no session has opened over another one, the HAL closes no    *)
(* descriptor of the rest of the process, although sInputFD keeps its      *)
(* value after data_close and the number is used again: a file of the rest *)
(* goes only by the rest's own close.                                      *)
ClosesOnlyOwn ==
    [][\A fd \in Fds : table[fd] = "other" /\ table'[fd] # "other" => crossed \/ UNCHANGED at]_sensorsVars

(* As long as no session has opened over another one, the descriptors of   *)
(* the sensor are those of the handles and of the session that is open:    *)
(* every path through data_open and data_close gives back what it took.    *)
NoDescriptorLeak ==
    ~crossed =>
        {fd \in Fds : table[fd] = "sensor"} =
            {handle[s] : s \in {x \in Sessions : at[x] \in {"handle", "handover"}}}
            \cup (IF InUse = {} THEN {} ELSE {sInputFD} \cap Fds)

(* v is the acceleration that the bytes b give as two's complement numbers *)
(* X, Y, Z: -Y, -X, -Z.                                                    *)
Shows(v, b) ==
    \A i \in 1 .. 3 :
        /\ (v[i] + b[<<2, 1, 3>>[i]]) % 256 = 0
        /\ v[i] \in -127 .. 128

(* A vector data_poll reports is that of a sample of the sensor, unless a  *)
(* session opened over another one, dup failed, or the read failed, all of *)
(* which data_poll reports as success.                                     *)
VectorIsSample ==
    \A s \in Sessions : at[s] = "polled" =>
        \/ \E b \in Samples : Shows(vector[s], b)
        \/ crossed \/ faults # {}

(* data_poll returns, unless it waits on sInputFD = -1 after a failed dup, *)
(* or on a file that is not the sensor.                                    *)
PollReturns ==
    \A s \in Sessions : at[s] = "wait" ~> at[s] # "wait" \/ crossed \/ "dup" \in faults
=============================================================================
