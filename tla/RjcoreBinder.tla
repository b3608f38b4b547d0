---------------------------- MODULE RjcoreBinder ----------------------------
(***************************************************************************)
(* Calls of the rjcore service across processes.  A client's BpRjcore-     *)
(* Service method marshals its arguments and transacts; the transaction    *)
(* waits in the binder queue of the service process until one of its pool  *)
(* threads takes it, reads the arguments in BnRjcoreService::onTransact,   *)
(* runs the method and writes the reply the proxy reads.                   *)
(*                                                                         *)
(* No proxy looks at the status transact() returns, or at the exception    *)
(* code: when the service has died the reply is empty and the method       *)
(* returns "" or 0.                                                        *)
(*                                                                         *)
(* A value is the client it comes from and its place: <<c, i>> is the i-th *)
(* argument of c's call and <<c, 0>> what the method returns to it.        *)
(***************************************************************************)
EXTENDS Naturals, Sequences

CONSTANTS
    Clients, Threads,   \* client processes; threads of the service's pool
    None,
    Proxy, Stub,        \* the two halves of the interface (RjcoreInterface)
    Mutex,              \* Mutex[m]: the mutex method m holds while it works
    ChecksFirst,        \* those of them that check arguments before locking
    Uses,               \* Uses[c]: the methods client c calls
    ReadOrder,          \* "ltr" | "rtl": the order in which the compiler has
                        \* the arguments of a call evaluated
    MaxCalls, MaxStarts \* bounds on calls and on starts of the service

ASSUME ReadOrderAssumption == ReadOrder \in {"ltr", "rtl"}
ASSUME BoundsAssumption == MaxCalls \in Nat /\ MaxStarts \in Nat

Zero    == <<"zero", 0>>      \* what reading an empty parcel yields: "" or 0
Garbage == <<"garbage", 0>>   \* what reading an item of another type yields

VARIABLES
    svc,      \* the running instance of the service, 0 when there is none
    pool,     \* "yes" when it has started its thread pool
    starts, calls,
    handle,   \* handle[c]: the instance c's proxy refers to
    pc,       \* pc[c]: "idle", "wait" (in transact) or "reply"
    method,   \* method[c]: the method c is in, None when idle
    data,     \* data[c]: the parcel sent
    reply,    \* reply[c]: the parcel received
    todo,     \* the transactions no thread has taken yet
    serving,  \* serving[t]: the client whose transaction t handles
    stage,    \* stage[t]: "free", "enter" (arguments read) or "run"
    holder,   \* holder[x]: the thread that holds the mutex x
    seen,     \* seen[c]: what the service called on c's behalf (history)
    result,   \* result[c]: what that method returned (history)
    runs      \* runs[c]: how often it was called for c's call (history)

client  == <<handle, method, data>>
server  == <<todo, serving, stage, holder>>
history == <<seen, result, runs>>
vars == <<svc, pool, starts, calls, pc, reply, client, server, history>>

Mutexes == {Mutex[m] : m \in DOMAIN Mutex}

-----------------------------------------------------------------------------
(* Parcels *)

Item(type, val) == [type |-> type, val |-> val]
Token       == Item("token", Zero)         \* writeInterfaceToken
NoException == Item("exception", Zero)     \* writeNoException

(* A read at the k-th place: past the end of the parcel it fails and       *)
(* yields the default of the type.                                         *)
Read(parcel, k, type) ==
    IF k > Len(parcel) THEN Zero
    ELSE IF parcel[k].type = type THEN parcel[k].val ELSE Garbage

(* The arguments c passes to m.                                            *)
Args(c, m) == [i \in 1 .. Len(Proxy[m].writes) |-> <<c, i>>]

(* The parcel m's proxy builds: the token, then the arguments.             *)
Marshal(c, m) ==
    <<Token>> \o [i \in 1 .. Len(Proxy[m].writes) |->
                     Item(Proxy[m].writes[i], <<c, i>>)]

PlaceReversed(i, n) == n + 1 - i   \* mutant: the last argument is read first

(* Which of the n reads in an argument list is made for argument i.        *)
Place(i, n) == IF ReadOrder = "ltr" THEN i ELSE n + 1 - i

(* data.readX() for every argument of the method that code's case calls.   *)
Unmarshal(parcel, code) ==
    LET types == Stub[code].reads
    IN  [i \in 1 .. Len(types) |-> Read(parcel, 1 + Place(i, Len(types)), types[i])]

ReadReplyNoException(parcel, m) ==   \* mutant: readExceptionCode is forgotten
    [i \in 1 .. Len(Proxy[m].reads) |-> Read(parcel, i, Proxy[m].reads[i])]

(* What the proxy of m returns, given the reply.                           *)
ReadReply(parcel, m) ==
    [i \in 1 .. Len(Proxy[m].reads) |-> Read(parcel, 1 + i, Proxy[m].reads[i])]

-----------------------------------------------------------------------------
Init ==
    /\ svc = 0 /\ pool = "no" /\ starts = 0 /\ calls = 0
    /\ handle = [c \in Clients |-> 0]
    /\ pc = [c \in Clients |-> "idle"]
    /\ method = [c \in Clients |-> None]
    /\ data = [c \in Clients |-> <<>>]
    /\ reply = [c \in Clients |-> <<>>]
    /\ todo = <<>>
    /\ serving = [t \in Threads |-> None]
    /\ stage = [t \in Threads |-> "free"]
    /\ holder = [x \in Mutexes |-> None]
    /\ seen = [c \in Clients |-> None]
    /\ result = [c \in Clients |-> None]
    /\ runs = [c \in Clients |-> 0]

(* main: RjcoreService::instantiate() registers the service...             *)
Instantiate ==
    /\ svc = 0 /\ starts < MaxStarts
    /\ svc' = starts + 1 /\ starts' = starts + 1
    /\ UNCHANGED <<pool, calls, pc, reply, client, server, history>>

(* ... before the pool has a thread; clients may call in between.          *)
StartThreadPool ==
    /\ svc # 0 /\ pool = "no"
    /\ pool' = "yes"
    /\ UNCHANGED <<svc, starts, calls, pc, reply, client, server, history>>

(* sm->getService(String16("ruijie.core.service")) and interface_cast      *)
GetService(c) ==
    /\ pc[c] = "idle" /\ svc # 0 /\ handle[c] # svc
    /\ handle' = [handle EXCEPT ![c] = svc]
    /\ UNCHANGED <<svc, pool, starts, calls, pc, method, data, reply, server, history>>

(* A proxy method up to transact(): with a dead binder it returns at once, *)
(* DEAD_OBJECT, and the reply is empty.                                    *)
Call(c, m) ==
    /\ pc[c] = "idle" /\ handle[c] # 0 /\ calls < MaxCalls
    /\ calls' = calls + 1
    /\ method' = [method EXCEPT ![c] = m]
    /\ data' = [data EXCEPT ![c] = Marshal(c, m)]
    /\ \/ /\ handle[c] = svc
          /\ todo' = Append(todo, c)
          /\ pc' = [pc EXCEPT ![c] = "wait"]
       \/ /\ handle[c] # svc
          /\ pc' = [pc EXCEPT ![c] = "reply"]
          /\ UNCHANGED todo
    /\ UNCHANGED <<svc, pool, starts, handle, reply, serving, stage, holder, history>>

(* transact() has returned: the rest of the proxy method reads the answer  *)
(* out of the reply ...                                                    *)
Answer(c) == ReadReply(reply[c], method[c])

(* ... and its two parcels are local and go.                               *)
Leave(c) ==
    /\ pc' = [pc EXCEPT ![c] = "idle"]
    /\ method' = [method EXCEPT ![c] = None]
    /\ data' = [data EXCEPT ![c] = <<>>]
    /\ reply' = [reply EXCEPT ![c] = <<>>]
    /\ seen' = [seen EXCEPT ![c] = None]
    /\ result' = [result EXCEPT ![c] = None]
    /\ runs' = [runs EXCEPT ![c] = 0]
    /\ UNCHANGED <<svc, pool, starts, calls, handle, server>>

ReturnOrRetry(c) ==   \* mutant: the proxy sends a failed call once more
    /\ pc[c] = "reply"
    /\ IF reply[c] = <<>> /\ svc # 0
       THEN /\ handle' = [handle EXCEPT ![c] = svc]
            /\ todo' = Append(todo, c)
            /\ pc' = [pc EXCEPT ![c] = "wait"]
            /\ UNCHANGED <<svc, pool, starts, calls, method, data, reply, serving,
                           stage, holder, history>>
       ELSE Leave(c)

(* The proxy method returns, also when transact() has failed: it neither   *)
(* looks at the status nor sends the parcel again.                         *)
Return(c) == pc[c] = "reply" /\ Leave(c)

(* A pool thread takes the oldest transaction.  onTransact: CHECK_-        *)
(* INTERFACE, then the arguments are read for the call; a code without a   *)
(* case goes to BBinder::onTransact, which replies nothing.                *)
Take(t) ==
    /\ pool = "yes" /\ serving[t] = None /\ todo # <<>>
    /\ todo' = Tail(todo)
    /\ LET c    == Head(todo)
           code == Proxy[method[c]].code
       IN  IF code \in DOMAIN Stub /\ data[c][1] = Token
           THEN /\ serving' = [serving EXCEPT ![t] = c]
                /\ stage' = [stage EXCEPT ![t] = "enter"]
                /\ seen' = [seen EXCEPT ![c] = [calls |-> Stub[code].calls,
                                                args |-> Unmarshal(data[c], code)]]
                /\ UNCHANGED pc
           ELSE /\ pc' = [pc EXCEPT ![c] = "reply"]
                /\ UNCHANGED <<serving, stage, seen>>
    /\ UNCHANGED <<svc, pool, starts, calls, reply, client, holder, result, runs>>

Locks(t) == seen[serving[t]].calls \in DOMAIN Mutex
Lock(t)  == Mutex[seen[serving[t]].calls]

(* The method starts; one with a mutex works once it has it.               *)
Enter(t) ==
    /\ stage[t] = "enter"
    /\ \/ ~Locks(t) /\ UNCHANGED holder
       \/ /\ Locks(t) /\ holder[Lock(t)] = None
          /\ holder' = [holder EXCEPT ![Lock(t)] = t]
    /\ stage' = [stage EXCEPT ![t] = "run"]
    /\ runs' = [runs EXCEPT ![serving[t]] = @ + 1]
    /\ UNCHANGED <<svc, pool, starts, calls, pc, reply, client, todo, serving, seen, result>>

(* t's method has returned vals: writeNoException, the result written, and *)
(* the reply delivered.                                                    *)
Deliver(t, vals) ==
    LET c     == serving[t]
        types == Stub[Proxy[method[c]].code].writes
    IN  /\ reply' = [reply EXCEPT ![c] =
                        <<NoException>> \o [i \in 1 .. Len(types) |->
                                               Item(types[i], vals[i])]]
        /\ result' = [result EXCEPT ![c] = vals]
        /\ pc' = [pc EXCEPT ![c] = "reply"]
        /\ serving' = [serving EXCEPT ![t] = None]
        /\ stage' = [stage EXCEPT ![t] = "free"]

(* What the method called for c returns.                                   *)
Results(c) == [i \in 1 .. Len(Stub[Proxy[method[c]].code].writes) |-> <<c, 0>>]

(* The checks before Mutex::Autolock fail: false, without the mutex.       *)
Refuse(t) ==
    /\ stage[t] = "enter" /\ seen[serving[t]].calls \in ChecksFirst
    /\ runs' = [runs EXCEPT ![serving[t]] = @ + 1]
    /\ Deliver(t, <<Zero>>)
    /\ UNCHANGED <<svc, pool, starts, calls, client, todo, holder, seen>>

FinishLocked(t) ==   \* mutant: the mutex is not released on return
    /\ stage[t] = "run"
    /\ Deliver(t, Results(serving[t]))
    /\ UNCHANGED <<svc, pool, starts, calls, client, todo, holder, seen, runs>>

Finish(t) ==
    /\ stage[t] = "run"
    /\ Deliver(t, Results(serving[t]))
    /\ holder' = [x \in Mutexes |-> IF holder[x] = t THEN None ELSE holder[x]]
    /\ UNCHANGED <<svc, pool, starts, calls, client, todo, seen, runs>>

(* The service process dies: binder fails its outstanding transactions     *)
(* with DEAD_REPLY.                                                        *)
Crash ==
    /\ svc # 0
    /\ svc' = 0 /\ pool' = "no"
    /\ todo' = <<>>
    /\ serving' = [t \in Threads |-> None]
    /\ stage' = [t \in Threads |-> "free"]
    /\ holder' = [x \in Mutexes |-> None]
    /\ pc' = [c \in Clients |-> IF pc[c] = "wait" THEN "reply" ELSE pc[c]]
    /\ UNCHANGED <<starts, calls, reply, client, history>>

Serve(t) == Take(t) \/ Enter(t) \/ Refuse(t) \/ Finish(t)

Next ==
    \/ Instantiate \/ StartThreadPool \/ Crash
    \/ \E c \in Clients :
          GetService(c) \/ Return(c) \/ \E m \in Uses[c] : Call(c, m)
    \/ \E t \in Threads : Serve(t)

Spec == Init /\ [][Next]_vars

(* Threads and clients are scheduled, main goes on to the thread pool, and *)
(* the methods end (ExecuteCmd, LogCollector, Bandwidth).  A restart and   *)
(* further calls are never forced.                                         *)
FairSpec ==
    /\ Spec
    /\ WF_vars(StartThreadPool)
    /\ \A c \in Clients : WF_vars(Return(c))
    /\ \A t \in Threads : WF_vars(Serve(t))

-----------------------------------------------------------------------------
(* The service calls the method the client called, with the client's       *)
(* arguments in the client's order: proxy and stub, written by hand on     *)
(* both sides, agree on the code, on the types and on their order.  It     *)
(* needs the argument lists of onTransact to be evaluated left to right    *)
(* (ReadOrder), which C++ does not promise.                                *)
ArgumentsArrive ==
    \A c \in Clients : seen[c] # None =>
        seen[c] = [calls |-> method[c], args |-> Args(c, method[c])]

(* What a proxy method returns is what the service's method returned to    *)
(* this very call; only a call whose service instance has died since may   *)
(* return the default, "" or 0, instead.                                   *)
AnswerIsOwn ==
    \A c \in Clients : pc[c] = "reply" =>
        \/ Answer(c) = result[c]
        \/ /\ handle[c] # svc
           /\ Answer(c) = [i \in 1 .. Len(Proxy[method[c]].reads) |-> Zero]

(* A method runs at most once for a call, also when the service dies in    *)
(* it, or with its answer on the way, and is started again: the proxies    *)
(* never repeat a transact() that failed (IRjcoreService.cpp 70-76 and so  *)
(* on).  It runs only while its caller waits for it.                       *)
AtMostOnce ==
    /\ \A c \in Clients : runs[c] <= 1
    /\ \A t \in Threads : serving[t] # None =>
          pc[serving[t]] = "wait" /\ handle[serving[t]] = svc

(* Every call returns, although pool threads wait for mutexes, more        *)
(* clients call than there are threads and the service may die: a client   *)
(* is never in a call for good.                                            *)
EveryCallReturns ==
    \A c \in Clients : []<>(pc[c] = "idle")
=============================================================================
