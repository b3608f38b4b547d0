------------------------- MODULE RjcoreBinder_proofs -------------------------
(***************************************************************************)
(* Proofs about RjcoreBinder, for every set of clients and pool threads    *)
(* and every number of calls and restarts: a call is delivered to the      *)
(* method the client named, with its arguments, at most once, and what it  *)
(* returns is its own answer.  The tables of the interface enter by one    *)
(* hypothesis, that proxy and stub agree method by method; RjcoreAgrees    *)
(* shows that those of RjcoreInterface do.                                 *)
(***************************************************************************)
EXTENDS RjcoreBinder, RjcoreInterface, TLAPS

Types == {String16, Int32}

(* Proxy and stub tables P and S describe method m alike.                  *)
AgreeOn(P, S, m) ==
    /\ P[m].writes \in Seq(Types) /\ P[m].reads \in Seq(Types)
    /\ P[m].code \in DOMAIN S
    /\ S[P[m].code] = Serves(m, P[m].writes, P[m].reads)

(* A method that may refuse its arguments has one value to say so with.    *)
Interface ==
    /\ None \notin Clients
    /\ \A c \in Clients : \A m \in Uses[c] : AgreeOn(Proxy, Stub, m)
    /\ \A m \in ChecksFirst : Len(Proxy[m].reads) = 1

Methods == UNION {Uses[c] : c \in Clients}

TypeOK ==
    /\ starts \in Nat /\ svc \in {0, starts}
    /\ handle \in [Clients -> Nat]
    /\ pc \in [Clients -> {"idle", "wait", "reply"}]
    /\ method \in [Clients -> Methods \cup {None}]
    /\ DOMAIN data = Clients /\ DOMAIN reply = Clients
    /\ DOMAIN seen = Clients /\ DOMAIN result = Clients
    /\ runs \in [Clients -> {0, 1}]
    /\ todo \in Seq(Clients)
    /\ serving \in [Threads -> Clients \cup {None}]
    /\ stage \in [Threads -> {"free", "enter", "run"}]

(* A call carries the parcel of its method; while it waits it is a call of *)
(* the running instance and has no reply.                                  *)
InCall ==
    \A c \in Clients :
        /\ handle[c] <= starts
        /\ pc[c] = "idle" => seen[c] = None /\ runs[c] = 0
        /\ pc[c] # "idle" => /\ handle[c] # 0
                             /\ method[c] \in Uses[c]
                             /\ data[c] = Marshal(c, method[c])
        /\ pc[c] = "wait" => handle[c] = svc
        /\ pc[c] # "reply" => reply[c] = <<>>

(* A transaction is in the queue once, and then with no thread.            *)
Queued ==
    \A i \in 1 .. Len(todo) :
        /\ pc[todo[i]] = "wait" /\ runs[todo[i]] = 0
        /\ \A j \in 1 .. Len(todo) : todo[j] = todo[i] => j = i
        /\ \A t \in Threads : serving[t] # todo[i]

(* A thread serves a call that waits, and no other thread serves it.       *)
Served ==
    \A t \in Threads :
        /\ serving[t] = None <=> stage[t] = "free"
        /\ serving[t] # None =>
              /\ pc[serving[t]] = "wait"
              /\ seen[serving[t]].calls = method[serving[t]]
              /\ runs[serving[t]] = IF stage[t] = "run" THEN 1 ELSE 0
              /\ \A u \in Threads : serving[u] = serving[t] => u = t

Replied ==
    \A c \in Clients : pc[c] = "reply" =>
        \/ Answer(c) = result[c]
        \/ handle[c] # svc /\ reply[c] = <<>>

IInv == TypeOK /\ InCall /\ Queued /\ Served /\ Replied

-----------------------------------------------------------------------------
(* Parcels *)

(* A parcel of one item and then n more, by place.                         *)
LEMMA ParcelLemma ==
    ASSUME NEW first, NEW n \in Nat, NEW rest,
           rest = [i \in 1 .. n |-> rest[i]]
    PROVE  /\ Len(<<first>> \o rest) = n + 1
           /\ (<<first>> \o rest)[1] = first
           /\ \A i \in 1 .. n : (<<first>> \o rest)[1 + i] = rest[i]
<1> DEFINE S == {first} \cup {rest[i] : i \in 1 .. n}
<1>1. rest \in Seq(S) /\ Len(rest) = n
  <2>1. rest \in [1 .. n -> S]
    OBVIOUS
  <2>2. QED
    BY <2>1
<1>2. <<first>> \in Seq(S) /\ Len(<<first>>) = 1 /\ <<first>>[1] = first
  OBVIOUS
<1> HIDE DEF S
<1>3. QED
  BY <1>1, <1>2

(* What the proxy builds: the token, then the arguments in order.          *)
LEMMA MarshalLemma ==
    ASSUME NEW c, NEW m, Proxy[m].writes \in Seq(Types)
    PROVE  /\ Len(Marshal(c, m)) = Len(Proxy[m].writes) + 1
           /\ Marshal(c, m)[1] = Token
           /\ \A i \in 1 .. Len(Proxy[m].writes) :
                 Marshal(c, m)[1 + i] = Item(Proxy[m].writes[i], <<c, i>>)
<1> DEFINE n    == Len(Proxy[m].writes)
           rest == [i \in 1 .. n |-> Item(Proxy[m].writes[i], <<c, i>>)]
<1>1. n \in Nat /\ rest = [i \in 1 .. n |-> rest[i]]
  OBVIOUS
<1>2. \A i \in 1 .. n : rest[i] = Item(Proxy[m].writes[i], <<c, i>>)
  OBVIOUS
<1>3. Marshal(c, m) = <<Token>> \o rest
  BY DEF Marshal
<1> HIDE DEF rest, n
<1>4. /\ Len(<<Token>> \o rest) = n + 1
      /\ (<<Token>> \o rest)[1] = Token
      /\ \A i \in 1 .. n : (<<Token>> \o rest)[1 + i] = rest[i]
  BY <1>1, ParcelLemma
<1>5. QED
  BY <1>2, <1>3, <1>4 DEF n

(* The stub reads the arguments the proxy has written, when the compiler   *)
(* has them read in their order.                                           *)
LEMMA ArgumentsLemma ==
    ASSUME NEW c, NEW m, AgreeOn(Proxy, Stub, m), ReadOrder = "ltr"
    PROVE  Unmarshal(Marshal(c, m), Proxy[m].code) = Args(c, m)
<1> DEFINE types == Proxy[m].writes
           n     == Len(types)
<1>1. types \in Seq(Types) /\ n \in Nat /\ Stub[Proxy[m].code].reads = types
  BY DEF AgreeOn, Serves
<1>2. ASSUME NEW i \in 1 .. n
      PROVE  Read(Marshal(c, m), 1 + Place(i, n), types[i]) = <<c, i>>
  <2>1. Place(i, n) = i
    BY DEF Place
  <2>2. Marshal(c, m)[1 + i] = Item(types[i], <<c, i>>) /\ Len(Marshal(c, m)) = n + 1
    BY <1>1, MarshalLemma
  <2>3. QED
    BY <2>1, <2>2, <1>1 DEF Read, Item
<1>3. QED
  BY <1>1, <1>2 DEF Unmarshal, Args

(* The reply to a call of m whose method has returned vals.                *)
Written(m, vals) ==
    <<NoException>> \o [i \in 1 .. Len(Proxy[m].reads) |-> Item(Proxy[m].reads[i], vals[i])]

(* The proxy reads the values the stub has written behind NoException.     *)
LEMMA ReplyLemma ==
    ASSUME NEW m, NEW vals, Proxy[m].reads \in Seq(Types),
           vals = [i \in 1 .. Len(Proxy[m].reads) |-> vals[i]]
    PROVE  ReadReply(Written(m, vals), m) = vals
<1> DEFINE types == Proxy[m].reads
           n     == Len(types)
           rest  == [i \in 1 .. n |-> Item(types[i], vals[i])]
           p     == <<NoException>> \o rest
<1>1. n \in Nat /\ rest = [i \in 1 .. n |-> rest[i]]
  OBVIOUS
<1>2. \A i \in 1 .. n : rest[i] = Item(types[i], vals[i])
  OBVIOUS
<1> HIDE DEF rest, n
<1>3. Len(p) = n + 1 /\ \A i \in 1 .. n : p[1 + i] = rest[i]
  BY <1>1, ParcelLemma
<1>4. ASSUME NEW i \in 1 .. n
      PROVE  Read(p, 1 + i, types[i]) = vals[i]
  <2> HIDE DEF p
  <2>1. p[1 + i] = Item(types[i], vals[i])
    BY <1>2, <1>3
  <2>2. ~(1 + i > Len(p))
    BY <1>1, <1>3
  <2>3. QED
    BY <2>1, <2>2 DEF Read, Item
<1>5. ReadReply(p, m) = [i \in 1 .. n |-> Read(p, 1 + i, types[i])]
  BY DEF ReadReply, n
<1>6. ReadReply(p, m) = [i \in 1 .. n |-> vals[i]]
  BY <1>4, <1>5
<1>7. QED
  BY <1>6 DEF rest, n, Written

(* With the empty reply of a dead service it reads defaults.               *)
LEMMA EmptyReplyLemma ==
    ASSUME NEW m, Proxy[m].reads \in Seq(Types)
    PROVE  ReadReply(<<>>, m) = [i \in 1 .. Len(Proxy[m].reads) |-> Zero]
BY DEF ReadReply, Read

-----------------------------------------------------------------------------
LEMMA InitInv == Interface /\ Init => IInv
BY DEF Interface, Init, IInv, TypeOK, InCall, Queued, Served, Replied

(* main, the clients up to transact(), and a crash.                        *)
LEMMA ClientSteps ==
    ASSUME Interface, IInv,
           \/ Instantiate \/ StartThreadPool \/ Crash
           \/ \E c \in Clients : GetService(c) \/ Return(c)
    PROVE  IInv'
<1> USE DEF IInv, TypeOK, InCall, Queued, Served, Replied, client, server, history
<1>1. CASE Instantiate
  BY <1>1 DEF Instantiate, Answer, Interface
<1>2. CASE StartThreadPool
  BY <1>2 DEF StartThreadPool, Answer
<1>3. CASE Crash
  BY <1>3 DEF Crash, Answer, Interface
<1>4. ASSUME NEW c \in Clients, GetService(c)
      PROVE  IInv'
  BY <1>4 DEF GetService, Answer, Interface
<1>5. ASSUME NEW c \in Clients, Return(c)
      PROVE  IInv'
  BY <1>5 DEF Return, Leave, Answer, Interface
<1>6. QED
  BY <1>1, <1>2, <1>3, <1>4, <1>5

(* A transaction enters the queue, or fails on a dead handle.              *)
LEMMA CallStep ==
    ASSUME Interface, IInv, NEW c \in Clients, NEW m \in Uses[c], Call(c, m)
    PROVE  IInv'
<1>1. /\ c \in Clients /\ pc[c] = "idle" /\ m \in Methods
      /\ \A i \in 1 .. Len(todo) : todo[i] # c
      /\ \A t \in Threads : serving[t] # c
  <2>1. pc[c] = "idle" /\ m \in Methods
    BY DEF Call, Methods
  <2>2. \A i \in 1 .. Len(todo) : todo[i] # c
    BY <2>1 DEF IInv, Queued
  <2>3. \A t \in Threads : serving[t] # c
    BY <2>1 DEF IInv, Served, Interface
  <2>4. QED
    BY <2>1, <2>2, <2>3
<1>2. CASE handle[c] = svc
  <2>1. /\ todo' = Append(todo, c) /\ Len(todo') = Len(todo) + 1
        /\ \A i \in 1 .. Len(todo) : todo'[i] = todo[i]
        /\ todo'[Len(todo) + 1] = c /\ todo' \in Seq(Clients)
    <3>1. todo \in Seq(Clients) /\ todo' = Append(todo, c)
      BY <1>2 DEF Call, IInv, TypeOK
    <3>2. QED
      BY <3>1
  <2>2. /\ pc' = [pc EXCEPT ![c] = "wait"]
        /\ method' = [method EXCEPT ![c] = m]
        /\ data' = [data EXCEPT ![c] = Marshal(c, m)]
        /\ handle[c] # 0
        /\ UNCHANGED <<svc, starts, handle, reply, serving, stage, seen, result, runs>>
    BY <1>2 DEF Call, history
  <2> USE DEF IInv, TypeOK, InCall, Queued, Served, Replied
  <2>3. TypeOK'
    BY <1>1, <2>1, <2>2
  <2>4. InCall'
    BY <1>1, <1>2, <2>2
  <2>5. Queued'
    BY <1>1, <2>1, <2>2
  <2>6. Served'
    BY <1>1, <2>2
  <2>7. Replied'
    BY <1>1, <2>2 DEF Answer
  <2>8. QED
    BY <2>3, <2>4, <2>5, <2>6, <2>7
<1>3. CASE handle[c] # svc
  <2>1. /\ pc' = [pc EXCEPT ![c] = "reply"]
        /\ method' = [method EXCEPT ![c] = m]
        /\ data' = [data EXCEPT ![c] = Marshal(c, m)]
        /\ handle[c] # 0
        /\ UNCHANGED <<svc, starts, handle, todo, reply, serving, stage, seen, result, runs>>
    BY <1>3 DEF Call, history
  <2> USE DEF IInv, TypeOK, InCall, Queued, Served, Replied
  <2>2. TypeOK'
    BY <1>1, <2>1
  <2>3. InCall'
    BY <1>1, <1>3, <2>1
  <2>4. Queued' /\ Served'
    BY <1>1, <2>1
  <2>5. Replied'
    BY <1>1, <1>3, <2>1 DEF Answer
  <2>6. QED
    BY <2>2, <2>3, <2>4, <2>5
<1>4. QED
  BY <1>2, <1>3

(* A thread takes the head of the queue: its code has a case, and it is    *)
(* the case of the method called.                                          *)
LEMMA TakeFacts ==
    ASSUME Interface, IInv, NEW t \in Threads, Take(t)
    PROVE  \E c \in Clients :
              /\ c = todo[1] /\ Len(todo) > 0 /\ todo' = Tail(todo)
              /\ serving[t] = None
              /\ serving' = [serving EXCEPT ![t] = c]
              /\ stage' = [stage EXCEPT ![t] = "enter"]
              /\ seen' = [seen EXCEPT ![c] =
                    [calls |-> method[c],
                     args |-> Unmarshal(Marshal(c, method[c]), Proxy[method[c]].code)]]
              /\ UNCHANGED <<svc, starts, pc, handle, method, data, reply, result, runs>>
<1> DEFINE c == Head(todo)
<1>1. todo \in Seq(Clients) /\ todo # <<>>
  BY DEF Take, IInv, TypeOK
<1>2. c \in Clients /\ c = todo[1] /\ Len(todo) > 0
  BY <1>1
<1>3. pc[c] = "wait"
  BY <1>1, <1>2 DEF IInv, Queued
<1>4. method[c] \in Uses[c] /\ data[c] = Marshal(c, method[c])
  BY <1>2, <1>3 DEF IInv, InCall
<1>5. AgreeOn(Proxy, Stub, method[c])
  BY <1>2, <1>4 DEF Interface
<1>6. Proxy[method[c]].code \in DOMAIN Stub /\ Stub[Proxy[method[c]].code].calls = method[c]
  BY <1>5 DEF AgreeOn, Serves
<1>7. data[c][1] = Token
  BY <1>4, <1>5, MarshalLemma DEF AgreeOn
<1>8. QED
  BY <1>1, <1>2, <1>4, <1>6, <1>7 DEF Take, client, history

LEMMA TakeStep ==
    ASSUME Interface, IInv, NEW t \in Threads, Take(t)
    PROVE  IInv'
<1> USE DEF IInv, TypeOK, InCall, Queued, Served, Replied
<1>1. PICK c \in Clients :
         /\ c = todo[1] /\ Len(todo) > 0 /\ todo' = Tail(todo)
         /\ serving[t] = None
         /\ serving' = [serving EXCEPT ![t] = c]
         /\ stage' = [stage EXCEPT ![t] = "enter"]
         /\ seen' = [seen EXCEPT ![c] =
               [calls |-> method[c],
                args |-> Unmarshal(Marshal(c, method[c]), Proxy[method[c]].code)]]
         /\ UNCHANGED <<svc, starts, pc, handle, method, data, reply, result, runs>>
  BY TakeFacts
<1>2. /\ todo' \in Seq(Clients) /\ Len(todo') = Len(todo) - 1
      /\ \A i \in 1 .. Len(todo') : todo'[i] = todo[i + 1] /\ todo'[i] # c
  BY <1>1
<1>3. /\ pc[c] = "wait" /\ runs[c] = 0
      /\ \A u \in Threads : serving[u] # c
      /\ c # None /\ seen'[c].calls = method[c]
  BY <1>1 DEF Interface
<1>4. TypeOK'
  BY <1>1, <1>2
<1>5. InCall'
  BY <1>1, <1>3
<1>6. Queued'
  BY <1>1, <1>2, <1>3
<1>7. Served'
  BY <1>1, <1>3
<1>8. Replied'
  BY <1>1 DEF Answer
<1>9. QED
  BY <1>4, <1>5, <1>6, <1>7, <1>8

(* The method is called: its first and only call for this transaction.     *)
LEMMA EnterStep ==
    ASSUME Interface, IInv, NEW t \in Threads, Enter(t)
    PROVE  IInv'
<1> DEFINE c == serving[t]
<1>1. /\ c \in Clients /\ pc[c] = "wait" /\ runs[c] = 0
  BY DEF Enter, IInv, TypeOK, Served
<1>2. /\ stage' = [stage EXCEPT ![t] = "run"]
      /\ runs' = [runs EXCEPT ![c] = 1]
      /\ UNCHANGED <<svc, starts, handle, pc, method, data, reply, todo, serving,
                     seen, result>>
  BY <1>1 DEF Enter, client
<1>3. \A i \in 1 .. Len(todo) : todo[i] # c
  BY DEF IInv, Queued
<1> HIDE DEF c
<1> USE DEF IInv, TypeOK, InCall, Queued, Served, Replied
<1>4. TypeOK'
  BY <1>1, <1>2
<1>5. InCall'
  BY <1>1, <1>2
<1>6. Queued'
  BY <1>1, <1>2, <1>3
<1>7. Served'
  <2>1. \A u \in Threads : u # t =>
            stage'[u] = stage[u] /\ (serving[u] # None => runs'[serving[u]] = runs[serving[u]])
    BY <1>1, <1>2 DEF c
  <2>2. stage[t] = "enter" /\ stage'[t] = "run" /\ runs'[c] = 1
    BY <1>1, <1>2 DEF Enter
  <2>3. QED
    BY <1>1, <1>2, <2>1, <2>2 DEF c
<1>8. Replied'
  BY <1>1, <1>2 DEF Answer
<1>9. QED
  BY <1>4, <1>5, <1>6, <1>7, <1>8 DEF IInv

(* The reply of the method, or its refusal, is delivered to the client.    *)
LEMMA DeliverStep ==
    ASSUME Interface, IInv, NEW t \in Threads, NEW vals,
           NEW c \in Clients, serving[t] = c,
           NEW m, method[c] = m,
           vals = [i \in 1 .. Len(Proxy[m].reads) |-> vals[i]],
           Deliver(t, vals),
           runs' = [runs EXCEPT ![c] = 1],
           UNCHANGED <<svc, starts, handle, method, data, todo, seen>>
    PROVE  IInv'
<1> USE DEF IInv, TypeOK, InCall, Queued, Served, Replied
<1>1. c # None /\ pc[c] = "wait" /\ m \in Uses[c]
  BY DEF Interface
<1>2. Proxy[m].reads \in Seq(Types) /\ Stub[Proxy[m].code].writes = Proxy[m].reads
  <2>1. AgreeOn(Proxy, Stub, m)
    BY <1>1 DEF Interface
  <2>2. QED
    BY <2>1 DEF AgreeOn, Serves
<1>3. /\ reply' = [reply EXCEPT ![c] = Written(m, vals)]
      /\ result' = [result EXCEPT ![c] = vals]
      /\ pc' = [pc EXCEPT ![c] = "reply"]
      /\ serving' = [serving EXCEPT ![t] = None]
      /\ stage' = [stage EXCEPT ![t] = "free"]
  BY <1>2, ZenonT(30) DEF Deliver, Written
<1>4. /\ \A i \in 1 .. Len(todo) : todo[i] # c
      /\ \A u \in Threads : u # t => serving[u] # c
  BY <1>1
<1>5. TypeOK'
  BY <1>1, <1>3
<1>6. InCall'
  BY <1>1, <1>3
<1>7. Queued'
  <2>1. \A d \in Clients : d # c => runs'[d] = runs[d] /\ pc'[d] = pc[d]
    BY <1>3
  <2>2. \A u \in Threads : serving'[u] \in {serving[u], None}
    BY <1>3
  <2>3. QED
    BY <1>4, <2>1, <2>2 DEF Interface
<1>8. Served'
  <2>1. ASSUME NEW u \in Threads, u # t
        PROVE  /\ serving'[u] = serving[u] /\ stage'[u] = stage[u]
               /\ serving[u] # c
               /\ serving[u] # None =>
                     /\ runs'[serving[u]] = runs[serving[u]]
                     /\ pc'[serving[u]] = pc[serving[u]]
    <3>1. serving'[u] = serving[u] /\ stage'[u] = stage[u] /\ serving[u] # c
      BY <1>3, <1>4, <2>1
    <3>2. \A d \in Clients : d # c => runs'[d] = runs[d] /\ pc'[d] = pc[d]
      BY <1>3
    <3>3. QED
      BY <3>1, <3>2
  <2>2. serving'[t] = None /\ stage'[t] = "free"
    BY <1>3
  <2>3. QED
    BY <1>4, <2>1, <2>2
<1>9. Replied'
  <2>1. ReadReply(reply'[c], method'[c]) = result'[c]
    BY <1>1, <1>2, <1>3, ReplyLemma
  <2>2. \A d \in Clients : d # c =>
            /\ pc'[d] = pc[d] /\ reply'[d] = reply[d]
            /\ method'[d] = method[d] /\ result'[d] = result[d]
    BY <1>3
  <2>3. \A d \in Clients : d # c =>
            \/ ReadReply(reply'[d], method'[d]) = result'[d]
            \/ pc'[d] # "reply"
            \/ handle'[d] # svc' /\ reply'[d] = <<>>
    <3>1. \A d \in Clients : d # c =>
              \/ ReadReply(reply[d], method[d]) = result[d]
              \/ pc[d] # "reply"
              \/ handle[d] # svc /\ reply[d] = <<>>
      BY DEF Answer
    <3>2. QED
      BY <2>2, <3>1
  <2>4. QED
    BY <2>1, <2>3 DEF Answer
<1>10. QED
  BY <1>5, <1>6, <1>7, <1>8, <1>9

LEMMA RefuseStep ==
    ASSUME Interface, IInv, NEW t \in Threads, Refuse(t)
    PROVE  IInv'
<1>1. PICK c \in Clients : c = serving[t] /\ runs[c] = 0 /\ method[c] \in ChecksFirst
  BY DEF Refuse, IInv, TypeOK, Served
<1>2. PICK m : method[c] = m
  OBVIOUS
<1>3. Len(Proxy[m].reads) = 1
  BY <1>1, <1>2 DEF Interface
<1>4. <<Zero>> = [i \in 1 .. Len(Proxy[m].reads) |-> <<Zero>>[i]]
  BY <1>3
<1>5. runs' = [runs EXCEPT ![c] = 1]
  BY <1>1 DEF Refuse, IInv, TypeOK
<1>6. Deliver(t, <<Zero>>) /\ UNCHANGED <<svc, starts, handle, method, data, todo, seen>>
  BY DEF Refuse, client
<1>7. QED
  BY <1>1, <1>2, <1>4, <1>5, <1>6, DeliverStep

LEMMA FinishStep ==
    ASSUME Interface, IInv, NEW t \in Threads, Finish(t)
    PROVE  IInv'
<1>1. PICK c \in Clients : c = serving[t] /\ runs[c] = 1 /\ method[c] \in Uses[c]
  BY DEF Finish, IInv, TypeOK, Served, InCall
<1>2. PICK m : method[c] = m
  OBVIOUS
<1>3. PICK vals : vals = Results(c)
  OBVIOUS
<1>4. AgreeOn(Proxy, Stub, m)
  BY <1>1, <1>2 DEF Interface
<1>5. vals = [i \in 1 .. Len(Proxy[m].reads) |-> vals[i]]
  BY <1>2, <1>3, <1>4 DEF Results, AgreeOn, Serves
<1>6. runs' = [runs EXCEPT ![c] = 1]
  BY <1>1 DEF Finish, IInv, TypeOK
<1>7. Deliver(t, vals) /\ UNCHANGED <<svc, starts, handle, method, data, todo, seen>>
  BY <1>1, <1>3 DEF Finish, client
<1>8. QED
  BY <1>1, <1>2, <1>5, <1>6, <1>7, DeliverStep

(* Every step of clients, pool and service preserves the invariant.        *)
LEMMA NextInv == Interface /\ IInv /\ [Next]_vars => IInv'
<1> SUFFICES ASSUME Interface, IInv, [Next]_vars PROVE IInv'
  OBVIOUS
<1>1. CASE \/ Instantiate \/ StartThreadPool \/ Crash
           \/ \E c \in Clients : GetService(c) \/ Return(c)
  BY <1>1, ClientSteps
<1>2. ASSUME NEW c \in Clients, NEW m \in Uses[c], Call(c, m)
      PROVE  IInv'
  BY <1>2, CallStep
<1>3. ASSUME NEW t \in Threads, Serve(t)
      PROVE  IInv'
  BY <1>3, TakeStep, EnterStep, RefuseStep, FinishStep DEF Serve
<1>4. CASE UNCHANGED vars
  BY <1>4 DEF vars, client, server, history, IInv, TypeOK, InCall, Queued, Served,
              Replied, Answer
<1>5. QED
  BY <1>1, <1>2, <1>3, <1>4 DEF Next

LEMMA InvHolds ==
    ASSUME Interface
    PROVE  Spec => []IInv
<1>1. Init => IInv
  BY InitInv
<1>2. IInv /\ [Next]_vars => IInv'
  BY NextInv
<1>3. QED
  BY <1>1, <1>2, PTL DEF Spec

-----------------------------------------------------------------------------
(* A method of the service runs at most once for a call, also when the     *)
(* service is restarted, and only while its caller waits for it.           *)
THEOREM RunsAtMostOnce ==
    ASSUME Interface
    PROVE  Spec => []AtMostOnce
<1>1. IInv => AtMostOnce
  BY SMTT(20) DEF IInv, TypeOK, InCall, Served, AtMostOnce
<1>2. QED
  BY <1>1, InvHolds, PTL

(* A proxy method returns what the service's method returned to this call, *)
(* or the default when the instance it called has died.                    *)
THEOREM AnswersAreOwn ==
    ASSUME Interface
    PROVE  Spec => []AnswerIsOwn
<1>1. IInv => AnswerIsOwn
  <2> SUFFICES ASSUME IInv, NEW c \in Clients, pc[c] = "reply",
                      handle[c] # svc, reply[c] = <<>>
               PROVE  Answer(c) = [i \in 1 .. Len(Proxy[method[c]].reads) |-> Zero]
    BY DEF IInv, Replied, AnswerIsOwn
  <2>1. AgreeOn(Proxy, Stub, method[c])
    BY DEF IInv, InCall, Interface
  <2>2. QED
    BY <2>1, EmptyReplyLemma DEF Answer, AgreeOn
<1>2. QED
  BY <1>1, InvHolds, PTL

(* The service calls the method the client called, with its arguments in   *)
(* their places, if the compiler evaluates the argument list of the call   *)
(* in onTransact from left to right.                                       *)
THEOREM CallsArrive ==
    ASSUME Interface, ReadOrder = "ltr"
    PROVE  Spec => []ArgumentsArrive
<1>1. Init => ArgumentsArrive
  BY DEF Init, ArgumentsArrive
<1>2. IInv /\ ArgumentsArrive /\ [Next]_vars => ArgumentsArrive'
  <2> SUFFICES ASSUME IInv, ArgumentsArrive, [Next]_vars,
                      NEW c \in Clients, seen'[c] # None
               PROVE  seen'[c] = [calls |-> method'[c], args |-> Args(c, method'[c])]
    BY DEF ArgumentsArrive
  <2>1. ASSUME NEW t \in Threads, Take(t)
        PROVE  seen'[c] = [calls |-> method'[c], args |-> Args(c, method'[c])]
    <3>1. PICK d \in Clients :
             /\ d = todo[1] /\ Len(todo) > 0
             /\ seen' = [seen EXCEPT ![d] =
                   [calls |-> method[d],
                    args |-> Unmarshal(Marshal(d, method[d]), Proxy[method[d]].code)]]
             /\ method' = method
      BY <2>1, TakeFacts
    <3>2. CASE c = d
      <4>1. pc[c] = "wait"
        BY <3>1, <3>2 DEF IInv, Queued, TypeOK
      <4>2. AgreeOn(Proxy, Stub, method[c])
        BY <4>1 DEF IInv, InCall, Interface
      <4>3. Unmarshal(Marshal(c, method[c]), Proxy[method[c]].code) = Args(c, method[c])
        BY <4>2, ArgumentsLemma
      <4>4. QED
        BY <3>1, <3>2, <4>3 DEF IInv, TypeOK
    <3>3. CASE c # d
      BY <3>1, <3>3 DEF ArgumentsArrive
    <3>4. QED
      BY <3>2, <3>3
  <2>2. ASSUME NEW d \in Clients, NEW m \in Uses[d], Call(d, m)
        PROVE  seen'[c] = [calls |-> method'[c], args |-> Args(c, method'[c])]
    <3>1. pc[d] = "idle" /\ seen' = seen /\ method' = [method EXCEPT ![d] = m]
      BY <2>2 DEF Call, history
    <3>2. c # d
      BY <3>1 DEF IInv, InCall
    <3>3. QED
      BY <3>1, <3>2 DEF ArgumentsArrive
  <2>3. ASSUME NEW d \in Clients, Return(d)
        PROVE  seen'[c] = [calls |-> method'[c], args |-> Args(c, method'[c])]
    BY <2>3 DEF Return, Leave, ArgumentsArrive, IInv, TypeOK
  <2>4. CASE UNCHANGED <<seen, method>>
    BY <2>4 DEF ArgumentsArrive
  <2>5. QED
    BY <2>1, <2>2, <2>3, <2>4
       DEF Next, Serve, Instantiate, StartThreadPool, Crash, GetService, Enter, Refuse,
           Finish, vars, client, server, history
<1>3. QED
  BY <1>1, <1>2, InvHolds, PTL DEF Spec

-----------------------------------------------------------------------------
(* The type lists of the interface, by length.                             *)
LEMMA TypeLists ==
    \A a, b, c, d \in Types :
        {<<>>, <<a>>, <<a, b>>, <<a, b, c>>, <<a, b, c, d>>} \subseteq Seq(Types)
OBVIOUS

(* One row of each table.                                                  *)
LEMMA Row ==
    ASSUME NEW P, NEW S, NEW m, NEW code,
           NEW w \in Seq(Types), NEW r \in Seq(Types),
           P[m] = Sends(code, w, r), code \in DOMAIN S, S[code] = Serves(m, w, r)
    PROVE  AgreeOn(P, S, m)
BY DEF Sends, AgreeOn

(* The groups of methods, one step per few rows.                           *)
LEMMA ProductInfoAgrees ==
    \A m \in DOMAIN ProductInfoProxy : AgreeOn(ProductInfoProxy, ProductInfoStub, m)
<1> DEFINE Agrees(m) == AgreeOn(ProductInfoProxy, ProductInfoStub, m)
<1>1. /\ Agrees("getCpuInfo") /\ Agrees("getAndroidVersion")
      /\ Agrees("getSystemVersion") /\ Agrees("getSerialNumber")
  BY Row, TypeLists DEF Types, ProductInfoProxy, ProductInfoStub
<1>2. /\ Agrees("getProductType") /\ Agrees("getHardwareVesion")
      /\ Agrees("getProductId") /\ Agrees("getProductName")
  BY Row, TypeLists DEF Types, ProductInfoProxy, ProductInfoStub
<1>3. /\ Agrees("getBaseboardInfo") /\ Agrees("getMemoryInfo")
      /\ Agrees("getStorageInfo")
  BY Row, TypeLists DEF Types, ProductInfoProxy, ProductInfoStub
<1>4. DOMAIN ProductInfoProxy =
         {"getCpuInfo", "getAndroidVersion", "getSystemVersion",
          "getSerialNumber", "getProductType", "getHardwareVesion",
          "getProductId", "getProductName", "getBaseboardInfo",
          "getMemoryInfo", "getStorageInfo"}
  BY DEF ProductInfoProxy
<1> HIDE DEF Agrees
<1>5. \A m \in DOMAIN ProductInfoProxy : Agrees(m)
  BY <1>1, <1>2, <1>3, <1>4
<1>6. QED
  BY <1>5 DEF Agrees

LEMMA ProductControlAgrees ==
    \A m \in DOMAIN ProductControlProxy : AgreeOn(ProductControlProxy, ProductControlStub, m)
<1> DEFINE Agrees(m) == AgreeOn(ProductControlProxy, ProductControlStub, m)
<1>1. /\ Agrees("setPowerState") /\ Agrees("getPowerState")
      /\ Agrees("collectLogFiles_block") /\ Agrees("chmodFile")
  BY Row, TypeLists DEF Types, ProductControlProxy, ProductControlStub
<1>2. /\ Agrees("chmodDir") /\ Agrees("rmFile")
      /\ Agrees("reboot") /\ Agrees("shutdown")
  BY Row, TypeLists DEF Types, ProductControlProxy, ProductControlStub
<1>3. /\ Agrees("getLedStatus") /\ Agrees("setLedStatus")
      /\ Agrees("setDeviceResolution") /\ Agrees("getCurrentResolution_block")
  BY Row, TypeLists DEF Types, ProductControlProxy, ProductControlStub
<1>4. Agrees("getSupportResolution") /\ Agrees("getPropertyValue")
  BY Row, TypeLists DEF Types, ProductControlProxy, ProductControlStub
<1>5. DOMAIN ProductControlProxy =
         {"setPowerState", "getPowerState", "collectLogFiles_block",
          "chmodFile", "chmodDir", "rmFile", "reboot", "shutdown",
          "getLedStatus", "setLedStatus", "setDeviceResolution",
          "getCurrentResolution_block", "getSupportResolution",
          "getPropertyValue"}
  BY DEF ProductControlProxy
<1> HIDE DEF Agrees
<1>6. \A m \in DOMAIN ProductControlProxy : Agrees(m)
  BY <1>1, <1>2, <1>3, <1>4, <1>5
<1>7. QED
  BY <1>6 DEF Agrees

LEMMA NetworkAgrees ==
    \A m \in DOMAIN NetworkProxy : AgreeOn(NetworkProxy, NetworkStub, m)
<1> DEFINE Agrees(m) == AgreeOn(NetworkProxy, NetworkStub, m)
<1>1. /\ Agrees("getNetcardState") /\ Agrees("getNetcardCurSpeed")
      /\ Agrees("getNetcardMaxSpeed") /\ Agrees("startAvahi")
  BY Row, TypeLists DEF Types, NetworkProxy, NetworkStub
<1>2. /\ Agrees("stopAvahi") /\ Agrees("checkIpConflict_block")
      /\ Agrees("ping_block") /\ Agrees("checkBandwidth_block")
  BY Row, TypeLists DEF Types, NetworkProxy, NetworkStub
<1>3. DOMAIN NetworkProxy =
         {"getNetcardState", "getNetcardCurSpeed",
          "getNetcardMaxSpeed", "startAvahi", "stopAvahi",
          "checkIpConflict_block", "ping_block", "checkBandwidth_block"}
  BY DEF NetworkProxy
<1> HIDE DEF Agrees
<1>4. \A m \in DOMAIN NetworkProxy : Agrees(m)
  BY <1>1, <1>2, <1>3
<1>5. QED
  BY <1>4 DEF Agrees

LEMMA ApplicationAgrees ==
    \A m \in DOMAIN ApplicationProxy : AgreeOn(ApplicationProxy, ApplicationStub, m)
<1> DEFINE Agrees(m) == AgreeOn(ApplicationProxy, ApplicationStub, m)
<1>1. /\ Agrees("getOtaResult") /\ Agrees("isProcessRunning")
      /\ Agrees("getProcessId") /\ Agrees("killByProcessName")
  BY Row, TypeLists DEF Types, ApplicationProxy, ApplicationStub
<1>2. DOMAIN ApplicationProxy =
         {"getOtaResult", "isProcessRunning", "getProcessId",
          "killByProcessName"}
  BY DEF ApplicationProxy
<1> HIDE DEF Agrees
<1>3. \A m \in DOMAIN ApplicationProxy : Agrees(m)
  BY <1>1, <1>2
<1>4. QED
  BY <1>3 DEF Agrees

(* Two interfaces with different codes, put together, still agree.         *)
LEMMA JoinAgrees ==
    ASSUME NEW P, NEW Q, NEW S, NEW T,
           \A m \in DOMAIN P : AgreeOn(P, S, m),
           \A m \in DOMAIN Q : AgreeOn(Q, T, m),
           DOMAIN S \cap DOMAIN T = {}
    PROVE  \A m \in DOMAIN Joined(P, Q) : AgreeOn(Joined(P, Q), Joined(S, T), m)
<1>1. ASSUME NEW m \in DOMAIN Joined(P, Q)
      PROVE  AgreeOn(Joined(P, Q), Joined(S, T), m)
  <2>1. CASE m \in DOMAIN P
    <3>1. Joined(P, Q)[m] = P[m] /\ P[m].code \in DOMAIN S
      BY <2>1 DEF Joined, AgreeOn
    <3>2. P[m].code \in DOMAIN Joined(S, T) /\ Joined(S, T)[P[m].code] = S[P[m].code]
      BY <3>1 DEF Joined
    <3>3. QED
      BY <2>1, <3>1, <3>2 DEF AgreeOn
  <2>2. CASE m \notin DOMAIN P
    <3>1. Joined(P, Q)[m] = Q[m] /\ m \in DOMAIN Q /\ Q[m].code \in DOMAIN T
      BY <2>2, <1>1 DEF Joined, AgreeOn
    <3>2. Q[m].code \in DOMAIN Joined(S, T) /\ Joined(S, T)[Q[m].code] = T[Q[m].code]
      BY <3>1 DEF Joined
    <3>3. QED
      BY <3>1, <3>2 DEF AgreeOn
  <2>3. QED
    BY <2>1, <2>2
<1>2. QED
  BY <1>1

(* BpRjcoreService and BnRjcoreService agree on all methods.               *)
THEOREM RjcoreAgrees ==
    \A m \in DOMAIN RjcoreProxy : AgreeOn(RjcoreProxy, RjcoreStub, m)
<1> DEFINE P2 == Joined(NetworkProxy, ApplicationProxy)
           S2 == Joined(NetworkStub, ApplicationStub)
           P3 == Joined(ProductControlProxy, P2)
           S3 == Joined(ProductControlStub, S2)
<1>1. DOMAIN ProductInfoStub =
         {"GET_CPU_INFO", "GET_ANDROID_VERSION", "GET_SYSTEM_VERSION",
          "GET_SERIAL_NUMBER", "GET_PRODUCT_TYPE",
          "GET_HARDWARE_VERSION", "GET_PRODUCT_ID", "GET_PRODUCT_NAME",
          "GET_BASEBOARD_INFO", "GET_MEMORY_INFO", "GET_STORAGE_INFO"}
  BY DEF ProductInfoStub
<1>2. DOMAIN ProductControlStub =
         {"SET_POWER_STATE", "GET_POWER_STATE",
          "COLLECT_LOG_FILES_BLOCK", "CHMOD_FILE", "CHMOD_DIR",
          "RM_FILE", "SHUTDOWN", "REBOOT", "GET_LED_STATUS",
          "SET_LED_STATUS", "SET_DEVICE_RESOLUTION",
          "GET_CURRENT_RESOLUTION_BLOCK", "GET_SUPPORT_RESOLUTION",
          "GET_PROPERTY_VALUE"}
  BY DEF ProductControlStub
<1>3. DOMAIN NetworkStub =
         {"GET_NETCARD_STATE", "GET_NETCARD_CUR_SPEED",
          "GET_NETCARD_MAX_SPEED", "START_AVAHI", "STOP_AVAHI",
          "CHECK_IP_CONFLICT_BLOCK", "PING_BLOCK",
          "CHECK_BANDWIDTH_BLOCK"}
  BY DEF NetworkStub
<1>4. DOMAIN ApplicationStub =
         {"GET_OTA_RESULT", "IS_PROCESS_RUNNING", "GET_PROCESS_ID",
          "KILL_PROCESS_BY_NAME"}
  BY DEF ApplicationStub
<1>5. DOMAIN S2 = DOMAIN NetworkStub \cup DOMAIN ApplicationStub
  BY DEF Joined
<1>6. DOMAIN S3 = DOMAIN ProductControlStub \cup DOMAIN S2
  BY DEF Joined
<1>7. \A m \in DOMAIN P2 : AgreeOn(P2, S2, m)
  <2>1. DOMAIN NetworkStub \cap DOMAIN ApplicationStub = {}
    BY <1>3, <1>4
  <2>2. QED
    BY <2>1, JoinAgrees, NetworkAgrees, ApplicationAgrees
<1>8. \A m \in DOMAIN P3 : AgreeOn(P3, S3, m)
  <2> HIDE DEF P2, S2
  <2>1. DOMAIN ProductControlStub \cap DOMAIN S2 = {}
    BY <1>2, <1>3, <1>4, <1>5
  <2>2. QED
    BY <2>1, <1>7, JoinAgrees, ProductControlAgrees
<1>9. \A m \in DOMAIN Joined(ProductInfoProxy, P3) :
         AgreeOn(Joined(ProductInfoProxy, P3), Joined(ProductInfoStub, S3), m)
  <2> HIDE DEF P3, S3, S2
  <2>1. DOMAIN ProductInfoStub \cap DOMAIN S3 = {}
    BY <1>1, <1>2, <1>3, <1>4, <1>5, <1>6
  <2>2. QED
    BY <2>1, <1>8, JoinAgrees, ProductInfoAgrees
<1>10. RjcoreProxy = Joined(ProductInfoProxy, P3) /\ RjcoreStub = Joined(ProductInfoStub, S3)
  BY TablesAssumption
<1>11. QED
  BY <1>9, <1>10

(* The service as it is: its tables, its one method that may refuse, and   *)
(* clients that call its methods.                                          *)
RjcoreService ==
    /\ Proxy = RjcoreProxy /\ Stub = RjcoreStub
    /\ ChecksFirst = RjcoreChecksFirst
    /\ \A c \in Clients : Uses[c] \subseteq DOMAIN RjcoreProxy
    /\ None \notin Clients

(* The rjcore interface is one the theorems above are about.               *)
LEMMA RjcoreInterfaceLemma == RjcoreService => Interface
<1>1. Len(RjcoreProxy["collectLogFiles_block"].reads) = 1
  <2>1. /\ "collectLogFiles_block" \in DOMAIN ProductControlProxy
        /\ ProductControlProxy["collectLogFiles_block"].reads = <<Int32>>
    BY DEF ProductControlProxy, Sends
  <2>2. "collectLogFiles_block" \notin DOMAIN ProductInfoProxy
    BY DEF ProductInfoProxy
  <2>3. RjcoreProxy["collectLogFiles_block"] = ProductControlProxy["collectLogFiles_block"]
    BY <2>1, <2>2, TablesAssumption DEF Joined
  <2>4. QED
    BY <2>1, <2>3
<1>2. QED
  BY <1>1, RjcoreAgrees DEF RjcoreService, Interface, RjcoreChecksFirst

(* All three, for the interface of the rjcore service.                     *)
THEOREM RjcoreCalls ==
    ASSUME RjcoreService, ReadOrder = "ltr"
    PROVE  Spec => [](ArgumentsArrive /\ AnswerIsOwn /\ AtMostOnce)
<1>1. Interface
  BY RjcoreInterfaceLemma
<1>2. Spec => []ArgumentsArrive
  BY <1>1, CallsArrive
<1>3. Spec => []AnswerIsOwn
  BY <1>1, AnswersAreOwn
<1>4. Spec => []AtMostOnce
  BY <1>1, RunsAtMostOnce
<1>5. QED
  BY <1>2, <1>3, <1>4, PTL
=============================================================================
