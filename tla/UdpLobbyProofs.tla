--------------------------- MODULE UdpLobbyProofs ---------------------------
(***************************************************************************)
(* Safety of UdpLobby, for any number of workers, addresses, sessions and  *)
(* any hash of addresses.  The argument starts from TypeInv: the typing of *)
(* the variables is inductive only together with the fact that the receive *)
(* loop admits one worker at a time (Solo), since the context a worker     *)
(* holds and the buffer it reads are protected by nothing else.  On it     *)
(* rest the results on the registry: the two maps of UdpService agree, ids *)
(* are acknowledged to the right address, a handler acts for the sender    *)
(* when the address hash is injective, clients leave once and for good,    *)
(* and the duplicate filter passes growing sequences.                      *)
(***************************************************************************)
EXTENDS UdpLobby, UdpLobbyHistory, FiniteSetTheorems, TLAPS

-----------------------------------------------------------------------------
(* The strengthening of OneReceive, without cardinalities: nobody receives *)
(* before Start; afterwards the receive is with the kernel or on the port  *)
(* while all workers are idle, or it is with exactly one worker.           *)
AllIdle == \A w \in Workers : pc[w] = "idle"

OnlyBusy(w) == pc[w] # "idle" /\ \A v \in Workers \ {w} : pc[v] = "idle"

Solo ==
    \/ main = "boot" /\ AllIdle /\ posted = 0 /\ completions = 0
    \/ main # "boot" /\ AllIdle /\ posted + completions = 1
    \/ /\ main # "boot" /\ posted = 0 /\ completions = 0
       /\ \E w \in Workers : OnlyBusy(w)

(* A worker that reads the packet finds one in the buffer, and past the    *)
(* lookup it holds a context.                                              *)
Held ==
    \A w \in Workers :
        /\ pc[w] \in {"lookup", "filter", "handle", "ack"} => recvBuf \in Datagram
        /\ pc[w] \in {"filter", "handle", "ack"} => wctx[w] \in Session

TypeInv == TypeOK /\ Solo /\ Held

(* While a worker processes a packet, nothing else of the receive loop is  *)
(* under way.                                                              *)
LEMMA BusyIsAlone ==
    ASSUME TypeOK, Solo, NEW w \in Workers, pc[w] # "idle"
    PROVE  OnlyBusy(w) /\ posted = 0 /\ completions = 0 /\ main # "boot"
BY DEF TypeOK, Solo, AllIdle, OnlyBusy

LEMMA TypeInvInit == Init => TypeInv
<1> SUFFICES ASSUME Init PROVE TypeInv
    OBVIOUS
<1>1. TypeOK
    BY BoundAssumption DEF Init, TypeOK, Time, Session, Ref, NoSession, Context,
       Unborn, Seq, WorkerPC, MainPC
<1>2. Solo
    BY DEF Init, Solo, AllIdle
<1>3. Held
    BY DEF Init, Held
<1> QED BY <1>1, <1>2, <1>3 DEF TypeInv

(* The worker's steps between Dispatch and Rearm keep the receive loop     *)
(* where it is.                                                            *)
LEMMA SoloMidway ==
    ASSUME TypeOK, Solo, NEW w \in Workers, NEW l \in WorkerPC,
           pc[w] # "idle", l # "idle", Goto(w, l),
           UNCHANGED <<posted, completions, main>>
    PROVE  Solo'
<1>1. OnlyBusy(w) /\ posted = 0 /\ completions = 0 /\ main # "boot"
    BY BusyIsAlone
<1>2. OnlyBusy(w)'
    BY <1>1 DEF TypeOK, OnlyBusy, Goto
<1> QED BY <1>1, <1>2 DEF Solo

(* The same for Held, when the buffer stays and the worker reaches l       *)
(* holding what l needs.                                                   *)
LEMMA HeldMidway ==
    ASSUME TypeOK, Solo, Held, NEW w \in Workers, NEW l \in WorkerPC,
           pc[w] # "idle", Goto(w, l), wctx' \in [Workers -> Ref],
           UNCHANGED recvBuf,
           l \in {"filter", "handle", "ack"} =>
               recvBuf \in Datagram /\ wctx'[w] \in Session,
           l # "lookup"
    PROVE  Held'
<1>1. OnlyBusy(w)
    BY BusyIsAlone
<1> QED BY <1>1 DEF TypeOK, OnlyBusy, Goto, Held

(* The context a worker holds or finds is typed: RegisterNew and Filter    *)
(* build records.                                                          *)
LEMMA NewContextTyped ==
    ASSUME TypeOK, NEW a \in Addr
    PROVE  [addr |-> a, userId |-> NoUser, lastSeq |-> 0, lastAlive |-> now] \in Context
BY BoundAssumption DEF TypeOK, Context, Seq, Time

LEMMA DatagramTyped ==
    ASSUME NEW d \in Datagram
    PROVE  /\ d.from \in Addr /\ d.fresh \in BOOLEAN /\ d.seq \in Seq
           /\ SockAddrKey(d.from) \in Key
BY KeyAssumption DEF Datagram

LEMMA EnvironmentTypeInv ==
    ASSUME TypeInv, Advance \/ (\E d \in Datagram \cup {NoDatagram} : Arrive(d))
    PROVE  TypeInv'
<1> USE DEF TypeInv
<1>1. CASE Advance
    <2>1. TypeOK'
        BY <1>1, BoundAssumption DEF Advance, TypeOK, Time, registry, receive,
           workers, ticker, clients
    <2>2. Solo' /\ Held'
        BY <1>1 DEF Advance, Solo, AllIdle, OnlyBusy, Held, registry, receive,
           workers, ticker, clients
    <2> QED BY <2>1, <2>2
<1>2. ASSUME NEW d \in Datagram \cup {NoDatagram}, Arrive(d)
      PROVE  TypeInv'
    <2>1. TypeOK'
        BY <1>2 DEF Arrive, TypeOK, registry, workers, ticker, clients
    <2>2. AllIdle /\ main # "boot" /\ posted + completions = 1
        BY <1>2 DEF Arrive, Solo, TypeOK
    <2>3. Solo' /\ Held'
        BY <1>2, <2>2 DEF Arrive, Solo, AllIdle, Held, TypeOK, registry, workers,
           ticker, clients
    <2> QED BY <2>1, <2>3
<1> QED BY <1>1, <1>2

LEMMA RegisterTypeInv ==
    ASSUME TypeInv, NEW w \in Workers, Register(w)
    PROVE  TypeInv'
<1> USE DEF TypeInv
<1> DEFINE a == recvBuf.from
           old == addrMap[SockAddrKey(a)]
<1>1. a \in Addr /\ SockAddrKey(a) \in Key /\ recvBuf \in Datagram
    BY DatagramTyped DEF Held, Register
<1>2. old \in Ref
    BY <1>1 DEF TypeOK
<1>3. TypeOK' /\ wctx'[w] \in Session
    <2>1. CASE old # NoSession /\ RegisterKnown(w, old)
        <3>1. old \in Session
            BY <2>1, <1>2 DEF Ref
        <3>2. ctx' \in [Session -> Context]
            BY <2>1, <3>1 DEF RegisterKnown, TypeOK, Context
        <3>3. wctx' \in [Workers -> Ref] /\ wctx'[w] \in Session
            BY <2>1, <3>1 DEF RegisterKnown, Hold, TypeOK, Ref
        <3>4. pc' \in [Workers -> WorkerPC]
            BY DEF Register, Goto, TypeOK, WorkerPC
        <3> QED BY <2>1, <3>2, <3>3, <3>4 DEF Register, RegisterKnown, TypeOK,
               receive, ticker, clients
    <2>2. CASE old = NoSession /\ RegisterNew(w, a)
        <3>1. nextId \in Session /\ nextId + 1 \in 1..(MaxSession + 1)
            BY <2>2, BoundAssumption DEF RegisterNew, TypeOK, Session
        <3>2. ctx' \in [Session -> Context]
            BY <2>2, <1>1, NewContextTyped DEF RegisterNew, TypeOK
        <3>3. wctx' \in [Workers -> Ref] /\ wctx'[w] \in Session
            BY <2>2, <3>1 DEF RegisterNew, Hold, TypeOK, Ref
        <3>4. pc' \in [Workers -> WorkerPC]
            BY DEF Register, Goto, TypeOK, WorkerPC
        <3>5. addrMap' \in [Key -> Ref] /\ idMap' \in SUBSET Session
            BY <2>2, <3>1 DEF RegisterNew, TypeOK, Ref
        <3> QED BY <2>2, <3>1, <3>2, <3>3, <3>4, <3>5 DEF Register, RegisterNew,
               TypeOK, receive, ticker, clients
    <2> QED BY <2>1, <2>2 DEF Register
<1>4. Goto(w, "handle") /\ UNCHANGED <<posted, completions, main, recvBuf>>
    BY DEF Register, receive, ticker
<1>5. pc[w] # "idle" /\ "handle" \in WorkerPC
    BY DEF Register, WorkerPC
<1>6. Solo'
    BY <1>4, <1>5, SoloMidway
<1>7. Held'
    BY <1>1, <1>3, <1>4, <1>5, HeldMidway DEF TypeOK
<1> QED BY <1>3, <1>6, <1>7

LEMMA WorkerTypeInv ==
    ASSUME TypeInv, NEW w \in Workers, WorkerStep(w)
    PROVE  TypeInv'
<1> USE DEF TypeInv
<1>1. CASE Dispatch(w)
    <2>1. AllIdle /\ main # "boot" /\ posted = 0 /\ completions = 1
        BY <1>1 DEF Dispatch, Solo, OnlyBusy, TypeOK
    <2>2. TypeOK'
        BY <1>1, <2>1 DEF Dispatch, Goto, TypeOK, WorkerPC, registry, ticker, clients
    <2>3. Solo'
        BY <1>1, <2>1 DEF Dispatch, Goto, TypeOK, AllIdle, Solo, OnlyBusy, ticker
    <2>4. Held'
        BY <1>1, <2>1 DEF Dispatch, Goto, TypeOK, AllIdle, Held
    <2> QED BY <2>2, <2>3, <2>4
<1>2. CASE Find(w)
    <2> DEFINE s == FoundByAddr(recvBuf.from)
               l == IF s = NoSession THEN "rearm" ELSE "filter"
    <2>1. s \in Ref /\ recvBuf \in Datagram
        BY <1>2, DatagramTyped DEF Find, Held, FoundByAddr, TypeOK, Ref
    <2>2. Goto(w, l) /\ Hold(w, s) /\ l \in {"rearm", "filter"} /\ pc[w] # "idle"
        BY <1>2 DEF Find
    <2>3. wctx' \in [Workers -> Ref] /\ wctx'[w] = s
        BY <2>1, <2>2 DEF Hold, TypeOK
    <2>4. TypeOK'
        BY <1>2, <2>2, <2>3 DEF Find, Goto, TypeOK, WorkerPC, registry, receive,
           ticker, clients
    <2>5. UNCHANGED <<posted, completions, main, recvBuf>> /\ l \in WorkerPC
        BY <1>2 DEF Find, receive, ticker, WorkerPC
    <2>6. Solo'
        BY <2>2, <2>5, SoloMidway
    <2>7. l = "filter" => s \in Session
        BY <2>1 DEF Ref
    <2>8. Held'
        BY <2>1, <2>2, <2>3, <2>5, <2>7, HeldMidway
    <2> QED BY <2>4, <2>6, <2>8
<1>3. CASE Filter(w)
    <2>1. recvBuf \in Datagram /\ wctx[w] \in Session /\ pc[w] # "idle"
        BY <1>3 DEF Filter, Held
    <2>2. ctx' \in [Session -> Context]
        <3>1. CASE UNCHANGED ctx
            BY <3>1 DEF TypeOK
        <3>2. CASE ctx' = [ctx EXCEPT ![wctx[w]].lastSeq = recvBuf.seq,
                                      ![wctx[w]].lastAlive = now]
            BY <3>2, <2>1, DatagramTyped DEF TypeOK, Context
        <3> QED BY <1>3, <3>1, <3>2 DEF Filter
    <2>3. PICK l \in {"rearm", "handle"} : Goto(w, l)
        BY <1>3 DEF Filter
    <2>4. TypeOK'
        BY <1>3, <2>2, <2>3 DEF Filter, Goto, TypeOK, WorkerPC, receive, ticker, clients
    <2>5. UNCHANGED <<posted, completions, main, recvBuf, wctx>> /\ l \in WorkerPC
        BY <1>3 DEF Filter, receive, ticker, WorkerPC
    <2>6. Solo' /\ Held'
        BY <2>1, <2>3, <2>4, <2>5, SoloMidway, HeldMidway DEF TypeOK
    <2> QED BY <2>4, <2>6
<1>4. CASE HandleHello(w) \/ HandleHeartbeat(w)
    <2>1. recvBuf \in Datagram /\ wctx[w] \in Session /\ pc[w] # "idle"
        BY <1>4 DEF HandleHello, HandleHeartbeat, Handling, Held
    <2>2. ctx' \in [Session -> Context]
        BY <1>4, <2>1, DatagramTyped DEF HandleHello, HandleHeartbeat, TypeOK, Context
    <2>3. PICK l \in {"rearm", "ack"} : Goto(w, l)
        BY <1>4 DEF HandleHello, HandleHeartbeat
    <2>4. TypeOK'
        BY <1>4, <2>2, <2>3 DEF HandleHello, HandleHeartbeat, Goto, TypeOK, WorkerPC,
           receive, ticker, clients
    <2>5. UNCHANGED <<posted, completions, main, recvBuf, wctx>> /\ l \in WorkerPC
        BY <1>4 DEF HandleHello, HandleHeartbeat, receive, ticker, WorkerPC
    <2>6. Solo' /\ Held'
        BY <2>1, <2>3, <2>4, <2>5, SoloMidway, HeldMidway DEF TypeOK
    <2> QED BY <2>4, <2>6
<1>5. CASE SendAck(w) \/ HandleMove(w) \/ HandleOther(w) \/ Redis(w)
    <2>1. PICK l \in {"rearm", "redis"} : Goto(w, l)
        BY <1>5 DEF SendAck, HandleMove, HandleOther, Redis
    <2>2. pc[w] # "idle" /\ (pc[w] \in {"handle", "ack"} => wctx[w] \in Session)
        BY <1>5 DEF SendAck, HandleMove, HandleOther, Handling, Redis, Held
    <2>3. told' \in [Addr -> Ref] /\ shown' \in [Session -> SUBSET Session]
        BY <1>5, <2>2 DEF SendAck, HandleMove, HandleOther, Redis, Handling, TypeOK,
           Ref, clients
    <2>4. UNCHANGED <<now, registry, receive, wctx, ticker>> /\ l \in WorkerPC
        BY <1>5 DEF SendAck, HandleMove, HandleOther, Redis, WorkerPC
    <2>5. TypeOK'
        BY <2>1, <2>3, <2>4 DEF Goto, TypeOK, WorkerPC, registry, receive, ticker
    <2>6. UNCHANGED <<posted, completions, main, recvBuf, wctx>>
        BY <2>4 DEF receive, ticker
    <2>7. Solo' /\ Held'
        BY <2>1, <2>2, <2>4, <2>5, <2>6, SoloMidway, HeldMidway DEF TypeOK
    <2> QED BY <2>5, <2>7
<1>6. CASE Rearm(w)
    <2>1. OnlyBusy(w) /\ posted = 0 /\ completions = 0 /\ main # "boot"
        BY <1>6, BusyIsAlone DEF Rearm
    <2>2. TypeOK'
        BY <1>6 DEF Rearm, Goto, Hold, TypeOK, WorkerPC, Ref, registry, ticker, clients
    <2>3. Solo' /\ Held'
        BY <1>6, <2>1 DEF Rearm, Goto, TypeOK, OnlyBusy, AllIdle, Solo, Held, ticker
    <2> QED BY <2>2, <2>3
<1> QED BY <1>1, <1>2, <1>3, <1>4, <1>5, <1>6 DEF WorkerStep

(* The main thread touches nothing of the receive loop after Start.        *)
LEMMA MainTypeInv ==
    ASSUME TypeInv, MainStep
    PROVE  TypeInv'
<1> USE DEF TypeInv
<1>1. CASE Start
    <2>1. TypeOK'
        BY <1>1 DEF Start, TypeOK, MainPC, registry, workers, clients
    <2>2. Solo' /\ Held'
        BY <1>1 DEF Start, Solo, AllIdle, OnlyBusy, Held, workers
    <2> QED BY <2>1, <2>2
<1>2. ASSUME main # "boot", main' # "boot", UNCHANGED <<receive, workers>>
      PROVE  Solo' /\ Held'
    BY <1>2 DEF Solo, AllIdle, OnlyBusy, Held, receive, workers
<1>3. CASE ReadClock \/ ScanBegin \/ LoopEnd \/ TellEnd
    <2>1. TypeOK'
        BY <1>3, BoundAssumption DEF ReadClock, ScanBegin, LoopEnd, TellEnd, TypeOK,
           MainPC, Time, Ref, registry, receive, workers, clients
    <2>2. main # "boot" /\ main' # "boot" /\ UNCHANGED <<receive, workers>>
        BY <1>3 DEF ReadClock, ScanBegin, LoopEnd, TellEnd
    <2> QED BY <1>2, <2>1, <2>2
<1>4. ASSUME NEW s \in Session, ScanOne(s) \/ RemoveOne(s) \/ LeaveBegin(s) \/ TellOne(s)
      PROVE  TypeInv'
    <2>1. TypeOK'
        <3>1. CASE ScanOne(s)
            BY <3>1 DEF ScanOne, TypeOK, registry, receive, workers, clients
        <3>2. CASE RemoveOne(s)
            BY <3>2 DEF RemoveOne, TypeOK, Ref, receive, workers, clients
        <3>3. CASE LeaveBegin(s)
            BY <3>3 DEF LeaveBegin, TypeOK, Ref, MainPC, registry, receive, workers, clients
        <3>4. CASE TellOne(s)
            BY <3>4 DEF TellOne, TypeOK, registry, receive, workers
        <3> QED BY <1>4, <3>1, <3>2, <3>3, <3>4
    <2>2. main # "boot" /\ main' # "boot" /\ UNCHANGED <<receive, workers>>
        BY <1>4 DEF ScanOne, RemoveOne, LeaveBegin, TellOne
    <2> QED BY <1>2, <2>1, <2>2
<1> QED BY <1>1, <1>3, <1>4 DEF MainStep

LEMMA TypeInvStep == TypeInv /\ [Next]_vars => TypeInv'
<1> SUFFICES ASSUME TypeInv, [Next]_vars PROVE TypeInv'
    OBVIOUS
<1>1. CASE UNCHANGED vars
    BY <1>1 DEF TypeInv, TypeOK, Solo, AllIdle, OnlyBusy, Held, vars, registry,
       receive, workers, ticker, clients
<1> QED BY <1>1, EnvironmentTypeInv, RegisterTypeInv, WorkerTypeInv, MainTypeInv DEF Next

LEMMA TypeInvHolds == Spec => []TypeInv
BY TypeInvInit, TypeInvStep, PTL DEF Spec

(* Type correctness of the whole server.                                   *)
THEOREM TypeCorrect == Spec => []TypeOK
<1>1. TypeInv => TypeOK
    BY DEF TypeInv
<1> QED BY <1>1, TypeInvHolds, PTL

(* One receive is outstanding at any time: handlers never overlap, whatever *)
(* the number of workers.                                                  *)
THEOREM ReceiveIsSingle == Spec => []OneReceive
<1>1. TypeInv => OneReceive
    <2> SUFFICES ASSUME TypeInv, main # "boot"
                 PROVE  posted + completions + Cardinality(Busy) = 1
        BY DEF OneReceive
    <2>1. CASE AllIdle /\ posted + completions = 1
        <3>1. Busy = {}
            BY <2>1 DEF AllIdle, Busy
        <3> QED BY <2>1, <3>1, FS_EmptySet
    <2>2. CASE posted = 0 /\ completions = 0 /\ \E w \in Workers : OnlyBusy(w)
        <3>1. PICK w \in Workers : Busy = {w}
            BY <2>2 DEF OnlyBusy, Busy
        <3> QED BY <2>2, <3>1, FS_Singleton
    <2> QED BY <2>1, <2>2 DEF TypeInv, Solo
<1> QED BY <1>1, TypeInvHolds, PTL

(* A worker's packet and sender address stay put until it re-arms.         *)
THEOREM BufferIsStable == Spec => BufferStable
<1>1. ASSUME TypeInv, [Next]_vars, NEW w \in Workers, pc[w] # "idle", pc'[w] # "idle"
      PROVE  recvBuf' = recvBuf
    <2>1. OnlyBusy(w) /\ posted = 0
        BY <1>1, BusyIsAlone DEF TypeInv
    <2>2. ASSUME NEW v \in Workers, Rearm(v)
          PROVE  FALSE
        BY <1>1, <2>1, <2>2 DEF OnlyBusy, Rearm, Goto, TypeInv, TypeOK
    <2>3. ~ \E d \in Datagram \cup {NoDatagram} : Arrive(d)
        BY <2>1 DEF Arrive
    <2> QED BY <1>1, <2>2, <2>3 DEF Next, Advance, Register, WorkerStep, Dispatch,
           Find, Filter, HandleHello, SendAck, HandleMove, HandleHeartbeat,
           HandleOther, Redis, MainStep, Start, ReadClock, ScanBegin, ScanOne,
           LoopEnd, RemoveOne, LeaveBegin, TellOne, TellEnd, vars, receive
<1>2. TypeInv /\ [Next]_vars =>
          [\A w \in Workers :
              pc[w] # "idle" /\ pc'[w] # "idle" => recvBuf' = recvBuf]_vars
    BY <1>1
<1> QED BY <1>2, TypeInvHolds, PTL DEF BufferStable, Spec

(* A worker takes up a packet only while all workers are idle: what Begin  *)
(* of Armory asks for before a request talks to Redis.                     *)
OneAtATime ==
    [][\A w \in Workers : pc[w] = "idle" /\ pc'[w] # "idle" =>
          \A v \in Workers : pc[v] = "idle"]_vars

(* GRedisClient needs no lock in the server as it is: no worker dequeues a *)
(* completion while another is between Dispatch and RegisterRecv.          *)
THEOREM RequestsDoNotOverlap == Spec => OneAtATime
<1>1. ASSUME TypeInv, [Next]_vars, NEW w \in Workers, pc[w] = "idle", pc'[w] # "idle"
      PROVE  \A v \in Workers : pc[v] = "idle"
    <2>1. CASE completions > 0
        BY <2>1, <1>1, BusyIsAlone DEF TypeInv, TypeOK
    <2>2. CASE ~(completions > 0)
        <3>1. ASSUME NEW v \in Workers, pc[v] # "idle", \E l : Goto(v, l)
              PROVE  FALSE
            BY <1>1, <3>1 DEF Goto, TypeInv, TypeOK
        <3> QED BY <1>1, <2>2, <3>1 DEF Next, Advance, Arrive, Register, WorkerStep,
               Dispatch, Find, Filter, HandleHello, SendAck, HandleMove, HandleHeartbeat,
               HandleOther, Handling, Redis, Rearm, MainStep, Start, ReadClock, ScanBegin,
               ScanOne, LoopEnd, RemoveOne, LeaveBegin, TellOne, TellEnd, vars, workers
    <2> QED BY <2>1, <2>2
<1>2. TypeInv /\ [Next]_vars =>
          [\A w \in Workers : pc[w] = "idle" /\ pc'[w] # "idle" =>
              \A v \in Workers : pc[v] = "idle"]_vars
    BY <1>1
<1> QED BY <1>2, TypeInvHolds, PTL DEF OneAtATime, Spec

-----------------------------------------------------------------------------
(* Registered clients have ids already issued and real addresses.          *)
Registered == \A s \in idMap : s < nextId /\ ctx[s].addr \in Addr

RegistryInv == Registered /\ MapsAgree

NewClient(a) == addrMap[SockAddrKey(a)] = NoSession /\ \E w \in Workers : RegisterNew(w, a)

(* Only a registration changes the addresses on record, and only that of   *)
(* the id it issues.                                                       *)
LEMMA AddressesKept ==
    ASSUME TypeInv, [Next]_vars
    PROVE  \/ /\ \E a \in Addr : NewClient(a)
              /\ UNCHANGED <<main, expired, todo, told, announced, leaving>>
           \/ nextId' = nextId /\ \A s \in Session : ctx'[s].addr = ctx[s].addr
<1>1. ASSUME NEW w \in Workers, Register(w)
      PROVE  \/ /\ \E a \in Addr : NewClient(a)
                /\ UNCHANGED <<main, expired, todo, told, announced, leaving>>
             \/ nextId' = nextId /\ \A s \in Session : ctx'[s].addr = ctx[s].addr
    <2>1. recvBuf.from \in Addr
        BY <1>1, DatagramTyped DEF Register, TypeInv, Held
    <2> QED BY <1>1, <2>1 DEF Register, RegisterKnown, NewClient, TypeInv, TypeOK,
           Context, ticker, clients
<1>2. ASSUME NEW w \in Workers, Filter(w) \/ HandleHello(w) \/ HandleHeartbeat(w)
      PROVE  nextId' = nextId /\ \A s \in Session : ctx'[s].addr = ctx[s].addr
    BY <1>2 DEF Filter, HandleHello, HandleHeartbeat, TypeInv, TypeOK, Context
<1>3. CASE UNCHANGED <<nextId, ctx>>
    BY <1>3
<1> QED BY <1>1, <1>2, <1>3 DEF Next, Advance, Arrive, WorkerStep, Dispatch, Find,
       SendAck, HandleMove, HandleOther, Redis, Rearm, MainStep, Start, ReadClock,
       ScanBegin, ScanOne, LoopEnd, RemoveOne, LeaveBegin, TellOne, TellEnd, vars,
       registry

(* Only RegisterNew and RemoveOne change the maps.                         *)
LEMMA MapsKept ==
    ASSUME TypeInv, [Next]_vars
    PROVE  \/ UNCHANGED <<idMap, addrMap>>
           \/ \E a \in Addr : NewClient(a)
           \/ \E s \in Session : RemoveOne(s)
<1>1. ASSUME NEW w \in Workers, Register(w)
      PROVE  UNCHANGED <<idMap, addrMap>> \/ \E a \in Addr : NewClient(a)
    <2>1. recvBuf.from \in Addr
        BY <1>1, DatagramTyped DEF Register, TypeInv, Held
    <2> QED BY <1>1, <2>1 DEF Register, RegisterKnown, NewClient
<1> QED BY <1>1 DEF Next, Advance, Arrive, WorkerStep, Dispatch, Find, Filter,
       HandleHello, SendAck, HandleMove, HandleHeartbeat, HandleOther, Redis, Rearm,
       MainStep, Start, ReadClock, ScanBegin, ScanOne, LoopEnd, LeaveBegin, TellOne,
       TellEnd, vars, registry

LEMMA RegistryInvStep == TypeInv /\ RegistryInv /\ [Next]_vars => RegistryInv'
<1> SUFFICES ASSUME TypeInv, RegistryInv, [Next]_vars PROVE RegistryInv'
    OBVIOUS
<1>1. ASSUME NEW a \in Addr, NewClient(a)
      PROVE  RegistryInv'
    <2>1. /\ nextId \in Session /\ nextId # NoSession
          /\ SockAddrKey(a) \in Key
        BY <1>1, KeyAssumption DEF NewClient, RegisterNew, TypeInv, TypeOK, Session,
           NoSession
    <2>2. /\ ctx' = [ctx EXCEPT ![nextId] = [addr |-> a, userId |-> NoUser,
                                             lastSeq |-> 0, lastAlive |-> now]]
          /\ idMap' = idMap \cup {nextId}
          /\ addrMap' = [addrMap EXCEPT ![SockAddrKey(a)] = nextId]
          /\ nextId' = nextId + 1 /\ addrMap[SockAddrKey(a)] = NoSession
        BY <1>1 DEF NewClient, RegisterNew
    <2>3. \A s \in Session : ctx'[s].addr = IF s = nextId THEN a ELSE ctx[s].addr
        BY <2>2 DEF TypeInv, TypeOK
    <2>4. idMap \subseteq Session /\ nextId \notin idMap
        BY DEF RegistryInv, Registered, TypeInv, TypeOK
    <2>5. Registered'
        BY <2>1, <2>2, <2>3, <2>4 DEF RegistryInv, Registered, Session
    <2>6. ASSUME NEW k \in Key, addrMap'[k] # NoSession
          PROVE  addrMap'[k] \in idMap' /\ SockAddrKey(ctx'[addrMap'[k]].addr) = k
        <3>1. CASE k = SockAddrKey(a)
            BY <2>1, <2>2, <2>3, <3>1 DEF TypeInv, TypeOK
        <3>2. CASE k # SockAddrKey(a)
            <4>1. addrMap'[k] = addrMap[k]
                BY <2>2, <3>2 DEF TypeInv, TypeOK
            <4>2. addrMap[k] \in idMap /\ SockAddrKey(ctx[addrMap[k]].addr) = k
                BY <2>6, <4>1 DEF RegistryInv, MapsAgree
            <4> QED BY <2>2, <2>3, <2>4, <4>1, <4>2
        <3> QED BY <3>1, <3>2
    <2>7. ASSUME NEW s \in idMap'
          PROVE  addrMap'[SockAddrKey(ctx'[s].addr)] = s
        <3>1. CASE s = nextId
            BY <2>1, <2>2, <2>3, <3>1 DEF TypeInv, TypeOK
        <3>2. CASE s # nextId
            <4>1. s \in idMap /\ s \in Session /\ ctx'[s].addr = ctx[s].addr
                BY <2>2, <2>3, <2>4, <3>2
            <4>2. addrMap[SockAddrKey(ctx[s].addr)] = s /\ s # NoSession
                BY <4>1 DEF RegistryInv, MapsAgree, Session, NoSession
            <4> QED BY <2>2, <4>1, <4>2 DEF TypeInv, TypeOK
        <3> QED BY <3>1, <3>2
    <2> QED BY <2>5, <2>6, <2>7 DEF RegistryInv, MapsAgree
<1>2. ASSUME NEW r \in Session, RemoveOne(r)
      PROVE  RegistryInv'
    <2>1. UNCHANGED <<nextId, ctx>>
        BY <1>2 DEF RemoveOne
    <2>2. CASE r \notin idMap
        BY <1>2, <2>1, <2>2 DEF RemoveOne, RegistryInv, Registered, MapsAgree
    <2>3. CASE r \in idMap
        <3> DEFINE key == SockAddrKey(ctx[r].addr)
        <3>1. idMap' = idMap \ {r} /\ addrMap' = [addrMap EXCEPT ![key] = NoSession]
            BY <1>2, <2>3 DEF RemoveOne
        <3>2. key \in Key
            BY <2>3, KeyAssumption DEF RegistryInv, Registered
        <3>3. \A k \in Key : addrMap'[k] = IF k = key THEN NoSession ELSE addrMap[k]
            BY <3>1 DEF TypeInv, TypeOK
        <3>4. \A k \in Key : addrMap'[k] # NoSession =>
                  addrMap'[k] \in idMap' /\ SockAddrKey(ctx[addrMap'[k]].addr) = k
            BY <3>1, <3>3 DEF RegistryInv, MapsAgree
        <3>5. \A s \in idMap' : addrMap'[SockAddrKey(ctx[s].addr)] = s
            <4> SUFFICES ASSUME NEW s \in idMap'
                         PROVE  addrMap'[SockAddrKey(ctx[s].addr)] = s
                OBVIOUS
            <4>1. s \in idMap /\ s # r
                BY <3>1
            <4>2. addrMap[key] = r /\ addrMap[SockAddrKey(ctx[s].addr)] = s
                BY <2>3, <4>1 DEF RegistryInv, MapsAgree
            <4>3. SockAddrKey(ctx[s].addr) \in Key
                BY <4>1, KeyAssumption DEF RegistryInv, Registered
            <4> QED BY <3>3, <4>1, <4>2, <4>3
        <3> QED BY <2>1, <3>1, <3>4, <3>5 DEF RegistryInv, Registered, MapsAgree
    <2> QED BY <2>2, <2>3
<1>3. ASSUME UNCHANGED <<idMap, addrMap>>, ~ \E a \in Addr : NewClient(a)
      PROVE  RegistryInv'
    <2>1. nextId' = nextId /\ \A s \in Session : ctx'[s].addr = ctx[s].addr
        BY <1>3, AddressesKept
    <2>2. idMap \subseteq Session
        BY DEF TypeInv, TypeOK
    <2> QED BY <1>3, <2>1, <2>2 DEF RegistryInv, Registered, MapsAgree
<1> QED BY <1>1, <1>2, <1>3, MapsKept

LEMMA RegistryInvHolds == Spec => []RegistryInv
<1>1. Init => RegistryInv
    BY DEF Init, RegistryInv, Registered, MapsAgree
<1> QED BY <1>1, RegistryInvStep, TypeInvHolds, PTL DEF Spec

(* The two maps agree at every step, whether or not addresses collide.     *)
THEOREM MapsAlwaysAgree == Spec => []MapsAgree
<1>1. RegistryInv => MapsAgree
    BY DEF RegistryInv
<1> QED BY <1>1, RegistryInvHolds, PTL

-----------------------------------------------------------------------------
(* An id once told was issued, and its context keeps the address it was    *)
(* issued for: SendTo answers the address on record, not the sender.       *)
AckInv == \A a \in Addr : told[a] # NoSession => told[a] < nextId /\ ctx[told[a]].addr = a

LEMMA AckInvStep == TypeInv /\ RegistryInv /\ AckInv /\ [Next]_vars => AckInv'
<1> SUFFICES ASSUME TypeInv, RegistryInv, AckInv, [Next]_vars PROVE AckInv'
    OBVIOUS
<1> USE DEF TypeInv, TypeOK
<1>1. \A a \in Addr : told[a] # NoSession => told[a] \in Session
    BY DEF Ref
<1>2. ASSUME NEW a \in Addr, NewClient(a), UNCHANGED told
      PROVE  AckInv'
    <2>1. /\ nextId' = nextId + 1
          /\ \A s \in Session : s # nextId => ctx'[s].addr = ctx[s].addr
        BY <1>2 DEF NewClient, RegisterNew
    <2> QED BY <1>1, <1>2, <2>1 DEF AckInv, Session
<1>3. ASSUME nextId' = nextId, \A s \in Session : ctx'[s].addr = ctx[s].addr
      PROVE  AckInv'
    <2>1. CASE UNCHANGED told
        BY <1>1, <1>3, <2>1 DEF AckInv
    <2>2. ASSUME NEW w \in Workers, SendAck(w)
          PROVE  AckInv'
        <3>1. CASE wctx[w] \in idMap
            <4>1. wctx[w] \in Session /\ wctx[w] < nextId
                BY <3>1 DEF RegistryInv, Registered
            <4>2. told' = [told EXCEPT ![ctx[wctx[w]].addr] = wctx[w]]
                BY <2>2, <3>1 DEF SendAck
            <4> QED BY <1>1, <1>3, <4>1, <4>2 DEF AckInv
        <3>2. CASE wctx[w] \notin idMap
            BY <1>1, <1>3, <2>2, <3>2 DEF SendAck, AckInv
        <3> QED BY <3>1, <3>2
    <2>3. \/ UNCHANGED told
          \/ \E w \in Workers : SendAck(w)
        BY DEF Next, Advance, Arrive, Register, WorkerStep, Dispatch, Find, Filter,
           HandleHello, HandleMove, HandleHeartbeat, HandleOther, Redis, Rearm,
           MainStep, Start, ReadClock, ScanBegin, ScanOne, LoopEnd, RemoveOne,
           LeaveBegin, TellOne, TellEnd, vars, clients
    <2> QED BY <2>1, <2>2, <2>3
<1> QED BY <1>2, <1>3, AddressesKept

(* An id is acknowledged to nobody but the client it was issued to, even   *)
(* when RegisterClient mistakes one address for another.                   *)
THEOREM AckReachesOwner == Spec => []AckedToOwner
<1>1. Init => AckInv
    BY DEF Init, AckInv
<1>2. AckInv => AckedToOwner
    BY DEF AckInv, AckedToOwner
<1> QED BY <1>1, <1>2, AckInvStep, TypeInvHolds, RegistryInvHolds, PTL DEF Spec

-----------------------------------------------------------------------------
InjectiveKey == \A a, b \in Addr : SockAddrKey(a) = SockAddrKey(b) => a = b

LEMMA OwnIdentityStep ==
    ASSUME InjectiveKey
    PROVE  TypeInv /\ RegistryInv /\ OwnIdentity /\ [Next]_vars => OwnIdentity'
<1> SUFFICES ASSUME TypeInv, RegistryInv, OwnIdentity, [Next]_vars PROVE OwnIdentity'
    OBVIOUS
<1> DEFINE Mine == \A w \in Workers : pc[w] \in {"filter", "handle", "ack"} =>
                      ctx[wctx[w]].addr = recvBuf.from
           Named == \A s \in Session : ctx[s].userId \in {NoUser, ctx[s].addr}
<1>1. ASSUME NEW d \in Datagram \cup {NoDatagram}, Arrive(d)
      PROVE  OwnIdentity'
    <2>1. AllIdle
        BY <1>1, BusyIsAlone DEF Arrive, AllIdle, TypeInv, TypeOK
    <2> QED BY <1>1, <2>1 DEF Arrive, AllIdle, OwnIdentity, registry, workers
<1>2. ASSUME NEW w \in Workers, Register(w)
      PROVE  OwnIdentity'
    <2> DEFINE a == recvBuf.from
               old == addrMap[SockAddrKey(a)]
    <2>1. a \in Addr /\ SockAddrKey(a) \in Key
        BY <1>2, DatagramTyped DEF Register, TypeInv, Held
    <2>2. OnlyBusy(w)
        BY <1>2, BusyIsAlone DEF Register, TypeInv
    <2>3. \A v \in Workers : v # w => pc'[v] = "idle"
        BY <1>2, <2>2 DEF Register, Goto, OnlyBusy, TypeInv, TypeOK
    <2>4. recvBuf' = recvBuf
        BY <1>2 DEF Register, receive
    <2>5. ctx'[wctx'[w]].addr = a /\ Named'
        <3>1. CASE old # NoSession /\ RegisterKnown(w, old)
            <4>1. old \in idMap /\ old \in Session /\ SockAddrKey(ctx[old].addr) = SockAddrKey(a)
                BY <2>1, <3>1 DEF RegistryInv, MapsAgree, TypeInv, TypeOK
            <4>2. ctx[old].addr = a
                BY <2>1, <4>1 DEF InjectiveKey, RegistryInv, Registered
            <4>3. wctx'[w] = old /\ ctx' = [ctx EXCEPT ![old].lastAlive = now]
                BY <3>1 DEF RegisterKnown, Hold, TypeInv, TypeOK
            <4> QED BY <4>1, <4>2, <4>3 DEF OwnIdentity, TypeInv, TypeOK, Context
        <3>2. CASE old = NoSession /\ RegisterNew(w, a)
            <4>1. nextId \in Session /\ wctx'[w] = nextId
                BY <3>2 DEF RegisterNew, Hold, TypeInv, TypeOK, Session
            <4> QED BY <3>2, <4>1 DEF RegisterNew, OwnIdentity, TypeInv, TypeOK
        <3> QED BY <1>2, <3>1, <3>2 DEF Register
    <2> QED BY <2>3, <2>4, <2>5 DEF OwnIdentity
<1>3. ASSUME NEW w \in Workers, Find(w)
      PROVE  OwnIdentity'
    <2>1. Hold(w, FoundByAddr(recvBuf.from)) /\ UNCHANGED <<ctx, recvBuf>>
        BY <1>3 DEF Find, registry, receive
    <2>2. pc' = [pc EXCEPT ![w] = IF FoundByAddr(recvBuf.from) = NoSession
                                  THEN "rearm" ELSE "filter"]
        BY <1>3 DEF Find, Goto
    <2>3. FoundByAddr(recvBuf.from) # NoSession =>
              ctx[FoundByAddr(recvBuf.from)].addr = recvBuf.from
        BY DEF FoundByAddr
    <2> QED BY <2>1, <2>2, <2>3 DEF Hold, OwnIdentity, TypeInv, TypeOK
<1>4. ASSUME NEW w \in Workers, Filter(w) \/ HandleHello(w) \/ HandleHeartbeat(w)
      PROVE  OwnIdentity'
    <2>1. /\ wctx[w] \in Session /\ ctx[wctx[w]].addr = recvBuf.from
          /\ pc[w] \in {"filter", "handle"}
        BY <1>4 DEF Filter, HandleHello, HandleHeartbeat, Handling, TypeInv, Held,
           OwnIdentity
    <2>2. UNCHANGED <<recvBuf, wctx>> /\ \A v \in Workers : v # w => pc'[v] = pc[v]
        BY <1>4 DEF Filter, HandleHello, HandleHeartbeat, Goto, receive, TypeInv, TypeOK
    <2>3. \A s \in Session : ctx'[s].addr = ctx[s].addr
        BY <1>4 DEF Filter, HandleHello, HandleHeartbeat, TypeInv, TypeOK, Context
    <2>4. \A s \in Session : ctx'[s].userId =
              IF HandleHello(w) /\ s = wctx[w] THEN recvBuf.from ELSE ctx[s].userId
        BY <1>4, <2>1 DEF Filter, HandleHello, HandleHeartbeat, Handling, TypeInv, TypeOK,
           Context
    <2>5. Named'
        BY <2>1, <2>3, <2>4 DEF OwnIdentity
    <2>6. Mine'
        BY <2>1, <2>2, <2>3 DEF OwnIdentity, TypeInv, Held
    <2> QED BY <2>5, <2>6 DEF OwnIdentity
<1>5. ASSUME NEW w \in Workers, Rearm(w)
      PROVE  OwnIdentity'
    <2>1. OnlyBusy(w)
        BY <1>5, BusyIsAlone DEF Rearm, TypeInv
    <2>2. \A v \in Workers : pc'[v] = "idle"
        BY <1>5, <2>1 DEF Rearm, Goto, OnlyBusy, TypeInv, TypeOK
    <2> QED BY <1>5, <2>2 DEF Rearm, OwnIdentity, registry
<1>6. ASSUME NEW w \in Workers,
             Dispatch(w) \/ SendAck(w) \/ HandleMove(w) \/ HandleOther(w) \/ Redis(w)
      PROVE  OwnIdentity'
    <2>1. UNCHANGED <<ctx, recvBuf, wctx>>
        BY <1>6 DEF Dispatch, SendAck, HandleMove, HandleOther, Redis, registry, receive
    <2>2. \A v \in Workers : pc'[v] \in {"filter", "handle", "ack"} => pc'[v] = pc[v]
        BY <1>6 DEF Dispatch, SendAck, HandleMove, HandleOther, Redis, Goto, TypeInv,
           TypeOK
    <2> QED BY <2>1, <2>2 DEF OwnIdentity
<1>7. CASE UNCHANGED <<ctx, recvBuf, workers>>
    BY <1>7 DEF OwnIdentity, workers
<1> QED BY <1>1, <1>2, <1>3, <1>4, <1>5, <1>6, <1>7 DEF Next, Advance, WorkerStep,
       MainStep, Start, ReadClock, ScanBegin, ScanOne, LoopEnd, RemoveOne, LeaveBegin,
       TellOne, TellEnd, vars, registry, receive

(* When no two addresses share a key, every handler acts for the sender of *)
(* the packet and every context records its own client's user.  The        *)
(* hypothesis is needed: RegisterClient compares keys only.                *)
THEOREM ActsForSender ==
    ASSUME InjectiveKey
    PROVE  Spec => []OwnIdentity
<1>1. Init => OwnIdentity
    BY DEF Init, OwnIdentity, Unborn
<1>2. TypeInv /\ RegistryInv /\ OwnIdentity /\ [Next]_vars => OwnIdentity'
    BY OwnIdentityStep
<1> QED BY <1>1, <1>2, TypeInvHolds, RegistryInvHolds, PTL DEF Spec

-----------------------------------------------------------------------------
(* Where the ids of departing clients are during a round of the main       *)
(* thread: still registered while Tick scans, removed one by one, and      *)
(* announced one by one once all are removed.                              *)
Departing ==
    /\ main \in {"boot", "sleep", "lock"} => expired = {}
    /\ main = "scan" => todo \subseteq idMap /\ expired \subseteq idMap
    /\ main = "remove" => expired \cap idMap \subseteq todo
    /\ main \in {"leave", "tell"} => expired \cap idMap = {}
    /\ main = "leave" => todo = expired
    /\ main # "tell" => leaving = NoSession

Issued == \A s \in announced \cup expired : s < nextId

LeaveInv == Departing /\ Issued /\ LeftForGood /\ expired \cap announced = {}

LEMMA LeaveInvStep == TypeInv /\ RegistryInv /\ LeaveInv /\ [Next]_vars => LeaveInv'
<1> SUFFICES ASSUME TypeInv, RegistryInv, LeaveInv, [Next]_vars PROVE LeaveInv'
    OBVIOUS
<1> USE DEF LeaveInv, LeftForGood
<1>1. CASE UNCHANGED <<nextId, idMap, main, todo, expired, leaving, announced>>
    BY <1>1 DEF Departing, Issued
<1>2. ASSUME NEW w \in Workers, Register(w)
      PROVE  LeaveInv'
    <2>1. main \notin {"scan", "tell"} /\ UNCHANGED ticker
        BY <1>2 DEF Register, MainReads
    <2>2. CASE UNCHANGED <<nextId, idMap>>
        BY <1>1, <2>1, <2>2 DEF ticker
    <2>3. CASE nextId' = nextId + 1 /\ idMap' = idMap \cup {nextId}
        <3>1. nextId \notin announced \cup expired
            BY DEF Issued, TypeInv, TypeOK
        <3> QED BY <2>1, <2>3, <3>1 DEF Departing, Issued, ticker, TypeInv, TypeOK, Session
    <2> QED BY <1>2, <2>2, <2>3 DEF Register, RegisterKnown, RegisterNew
<1>3. CASE Start \/ ReadClock
    BY <1>3 DEF Start, ReadClock, registry, Departing, Issued
<1>4. CASE ScanBegin
    BY <1>4 DEF ScanBegin, registry, Departing, Issued
<1>5. CASE LoopEnd
    BY <1>5 DEF LoopEnd, registry, Departing, Issued
<1>6. CASE TellEnd
    BY <1>6 DEF TellEnd, registry, Departing, Issued
<1>7. ASSUME NEW s \in Session, ScanOne(s)
      PROVE  LeaveInv'
    <2>1. /\ main = "scan" /\ s \in idMap /\ s < nextId
          /\ expired' \in {expired, expired \cup {s}} /\ todo' = todo \ {s}
          /\ UNCHANGED <<nextId, idMap, main, leaving, announced>>
        BY <1>7 DEF ScanOne, registry, Departing, RegistryInv, Registered
    <2> QED BY <2>1 DEF Departing, Issued
<1>8. ASSUME NEW s \in Session, RemoveOne(s)
      PROVE  LeaveInv'
    <2>1. /\ main = "remove" /\ todo' = todo \ {s} /\ idMap' = idMap \ {s}
          /\ UNCHANGED <<nextId, main, expired, leaving, announced>>
        BY <1>8 DEF RemoveOne
    <2> QED BY <2>1 DEF Departing, Issued
<1>9. ASSUME NEW s \in Session, LeaveBegin(s)
      PROVE  LeaveInv'
    BY <1>9 DEF LeaveBegin, registry, Departing, Issued
<1>10. ASSUME NEW r \in Session, TellOne(r)
       PROVE  LeaveInv'
    BY <1>10 DEF TellOne, registry, Departing, Issued
<1> QED BY <1>1, <1>2, <1>3, <1>4, <1>5, <1>6, <1>7, <1>8, <1>9, <1>10 DEF Next,
       Advance, Arrive, WorkerStep, Dispatch, Find, Filter, HandleHello, SendAck,
       HandleMove, HandleHeartbeat, HandleOther, Redis, Rearm, MainStep, vars,
       registry, ticker

LEMMA LeaveInvHolds == Spec => []LeaveInv
<1>1. Init => LeaveInv
    BY DEF Init, LeaveInv, Departing, Issued, LeftForGood
<1> QED BY <1>1, LeaveInvStep, TypeInvHolds, RegistryInvHolds, PTL DEF Spec

(* A client announced as gone stays unregistered: ids never come back.     *)
THEOREM GoneForGood == Spec => []LeftForGood
<1>1. LeaveInv => LeftForGood
    BY DEF LeaveInv
<1> QED BY <1>1, LeaveInvHolds, PTL

(* No departure is announced twice.                                        *)
THEOREM AnnouncedAtMostOnce == Spec => AnnouncedOnce
<1>1. ASSUME TypeInv, LeaveInv, [Next]_vars, leaving' # leaving
      PROVE  leaving' \notin announced
    <2>1. CASE TellEnd
        BY <1>1, <2>1 DEF TellEnd, TypeInv, TypeOK, Session, NoSession
    <2>2. ASSUME NEW s \in Session, LeaveBegin(s)
          PROVE  leaving' \notin announced
        BY <1>1, <2>2 DEF LeaveBegin, LeaveInv, Departing
    <2> QED BY <1>1, <2>1, <2>2 DEF Next, Advance, Arrive, Register, WorkerStep,
           Dispatch, Find, Filter, HandleHello, SendAck, HandleMove, HandleHeartbeat,
           HandleOther, Redis, Rearm, MainStep, Start, ReadClock, ScanBegin, ScanOne,
           LoopEnd, RemoveOne, TellOne, vars, ticker
<1>2. TypeInv /\ LeaveInv /\ [Next]_vars => [leaving' # leaving => leaving' \notin announced]_vars
    BY <1>1
<1> QED BY <1>2, TypeInvHolds, LeaveInvHolds, PTL DEF AnnouncedOnce, Spec

-----------------------------------------------------------------------------
(* Tick's clock reading is never ahead of the clock.                       *)
ClockInv == tickNow <= now

LEMMA ClockInvStep == TypeInv /\ ClockInv /\ [Next]_vars => ClockInv'
<1> SUFFICES ASSUME TypeInv, ClockInv, [Next]_vars PROVE ClockInv'
    OBVIOUS
<1>1. now \in Int /\ tickNow \in Int /\ 0 <= now
    BY DEF TypeInv, TypeOK, Time
<1>2. \/ now' = now + 1 /\ tickNow' = tickNow
      \/ now' = now /\ tickNow' \in {tickNow, now, 0}
    BY DEF Next, Advance, Arrive, Register, WorkerStep, Dispatch, Find, Filter,
       HandleHello, SendAck, HandleMove, HandleHeartbeat, HandleOther, Redis, Rearm,
       MainStep, Start, ReadClock, ScanBegin, ScanOne, LoopEnd, RemoveOne, LeaveBegin,
       TellOne, TellEnd, vars, ticker
<1> QED BY <1>1, <1>2 DEF ClockInv

(* The scan condemns only clients silent for longer than the timeout.      *)
THEOREM FreshIsNotCondemned == Spec => NoFreshEviction
<1>1. Init => ClockInv
    BY DEF Init, ClockInv
<1>2. ASSUME TypeInv, ClockInv, [Next]_vars, NEW s \in expired' \ expired
      PROVE  now - ctx[s].lastAlive > SESSION_TIMEOUT_MS
    <2>1. ASSUME NEW r \in Session, ScanOne(r)
          PROVE  now - ctx[s].lastAlive > SESSION_TIMEOUT_MS
        <3>1. s = r /\ Expired(r)
            BY <1>2, <2>1 DEF ScanOne
        <3>2. ctx[r].lastAlive \in Int /\ now \in Int /\ tickNow \in Int
            BY <1>2 DEF TypeInv, TypeOK, Context, Time
        <3> QED BY <1>2, <3>1, <3>2, TimeoutAssumption DEF Expired, ClockInv
    <2>2. expired' \subseteq expired \/ \E r \in Session : ScanOne(r)
        BY <1>2 DEF Next, Advance, Arrive, Register, WorkerStep, Dispatch, Find, Filter,
           HandleHello, SendAck, HandleMove, HandleHeartbeat, HandleOther, Redis, Rearm,
           MainStep, Start, ReadClock, ScanBegin, LoopEnd, RemoveOne, LeaveBegin,
           TellOne, TellEnd, vars, ticker
    <2> QED BY <1>2, <2>1, <2>2
<1>3. TypeInv /\ ClockInv /\ [Next]_vars =>
          [\A s \in expired' \ expired : now - ctx[s].lastAlive > SESSION_TIMEOUT_MS]_vars
    BY <1>2
<1> QED BY <1>1, <1>3, ClockInvStep, TypeInvHolds, PTL DEF NoFreshEviction, Spec

(* A departed client reappears on another only through a MOVE accepted     *)
(* before the removal; the LEAVE broadcast itself misses no one.           *)
THEOREM GhostsAreStaleRelays == Spec => GhostOnlyFromStaleRelay
<1> DEFINE Relayed(m) == \E w \in Workers : pc[w] = "handle" /\ wctx[w] = m
<1>1. ASSUME TypeInv, LeaveInv, [Next]_vars, NEW r \in idMap',
             NEW m \in Ghosts(r)' \ Ghosts(r)
      PROVE  Relayed(m)
    <2>1. m \in shown'[r] /\ m \in announced' /\ ~(leaving' = m /\ r \in todo')
        BY <1>1 DEF Ghosts
    <2>2. m \notin shown[r] \/ m \notin announced \/ (leaving = m /\ r \in todo)
        BY <1>1 DEF Ghosts
    <2>3. main # "tell" => leaving \notin announced
        BY <1>1 DEF LeaveInv, Departing, TypeInv, TypeOK, Session, NoSession
    <2>4. ASSUME NEW w \in Workers, HandleMove(w)
          PROVE  Relayed(m)
        <3>1. UNCHANGED <<announced, leaving, todo>>
            BY <2>4 DEF HandleMove, ticker
        <3>2. m \notin shown[r]
            BY <2>1, <2>2, <3>1
        <3>3. m = wctx[w]
            BY <1>1, <2>1, <2>4, <3>2, TypeInvStep DEF HandleMove, TypeInv, TypeOK
        <3> QED BY <2>4, <3>3 DEF HandleMove, Handling
    <2>5. ASSUME NEW s \in Session, LeaveBegin(s)
          PROVE  FALSE
        <3>1. leaving = NoSession /\ announced \subseteq Session
            BY <1>1, <2>5 DEF LeaveBegin, LeaveInv, Departing, TypeInv, TypeOK
        <3>2. /\ leaving' = s /\ todo' = idMap' /\ announced' = announced \cup {s}
              /\ shown' = shown
            BY <2>5 DEF LeaveBegin, clients, registry
        <3>3. m # s /\ m \in announced
            BY <1>1, <2>1, <3>2
        <3> QED BY <2>1, <2>2, <3>1, <3>2, <3>3 DEF Session, NoSession
    <2>6. ASSUME NEW q \in Session, TellOne(q)
          PROVE  FALSE
        BY <1>1, <2>1, <2>2, <2>6 DEF TellOne, TypeInv, TypeOK
    <2>7. CASE TellEnd
        BY <2>1, <2>2, <2>7 DEF TellEnd, clients
    <2>8. ASSUME UNCHANGED <<shown, announced, leaving>>, main # "tell" \/ UNCHANGED todo
          PROVE  FALSE
        BY <2>1, <2>2, <2>3, <2>8
    <2> QED BY <1>1, <2>4, <2>5, <2>6, <2>7, <2>8 DEF Next, Advance, Arrive, Register,
           WorkerStep, Dispatch, Find, Filter, HandleHello, SendAck, HandleHeartbeat,
           HandleOther, Redis, Rearm, MainStep, Start, ReadClock, ScanBegin, ScanOne,
           LoopEnd, RemoveOne, vars, ticker, clients
<1>2. TypeInv /\ LeaveInv /\ [Next]_vars =>
          [\A r \in idMap' : \A m \in Ghosts(r)' \ Ghosts(r) :
              \E w \in Workers : pc[w] = "handle" /\ wctx[w] = m]_vars
    BY <1>1
<1> QED BY <1>2, TypeInvHolds, LeaveInvHolds, PTL DEF GhostOnlyFromStaleRelay, Spec

-----------------------------------------------------------------------------
(* The duplicate filter (UdpLobbyHistory).  A worker holds only contexts   *)
(* already issued, so a new context, whose lastSeq is 0, has let nothing   *)
(* through; and no packet that got through a context since its last 0 is   *)
(* ahead of its lastSeq.                                                   *)
HoldsIssued == \A w \in Workers : wctx[w] < nextId

Behind == \A s \in Session :
             /\ \A q \in recent[s] : q \in Seq /\ q <= ctx[s].lastSeq
             /\ s >= nextId => recent[s] = {}

HistoryInv == HoldsIssued /\ Behind

LEMMA HoldsIssuedStep ==
    ASSUME TypeInv, RegistryInv, HoldsIssued, [Next]_vars
    PROVE  HoldsIssued'
<1> USE DEF HoldsIssued, Hold
<1>1. ASSUME NEW w \in Workers, Register(w)
      PROVE  HoldsIssued'
    <2>1. recvBuf.from \in Addr /\ SockAddrKey(recvBuf.from) \in Key
        BY <1>1, DatagramTyped DEF Register, TypeInv, Held
    <2>2. CASE RegisterKnown(w, addrMap[SockAddrKey(recvBuf.from)])
        BY <2>1, <2>2 DEF RegisterKnown, RegistryInv, Registered, MapsAgree, TypeInv,
           TypeOK, Ref, Session, NoSession
    <2>3. CASE RegisterNew(w, recvBuf.from)
        BY <2>3 DEF RegisterNew, TypeInv, TypeOK, Ref, Session, NoSession
    <2> QED BY <1>1, <2>2, <2>3 DEF Register
<1>2. ASSUME NEW w \in Workers, Find(w)
      PROVE  HoldsIssued'
    <2>1. recvBuf.from \in Addr /\ SockAddrKey(recvBuf.from) \in Key
        BY <1>2, DatagramTyped DEF Find, TypeInv, Held
    <2>2. FoundByAddr(recvBuf.from) < nextId
        BY <2>1 DEF FoundByAddr, RegistryInv, Registered, MapsAgree, TypeInv, TypeOK,
           Ref, Session, NoSession
    <2> QED BY <1>2, <2>2 DEF Find, registry, TypeInv, TypeOK
<1>3. ASSUME NEW w \in Workers, Rearm(w)
      PROVE  HoldsIssued'
    BY <1>3 DEF Rearm, registry, TypeInv, TypeOK, NoSession
<1>4. CASE UNCHANGED <<nextId, wctx>>
    BY <1>4
<1> QED BY <1>1, <1>2, <1>3, <1>4 DEF Next, Advance, Arrive, WorkerStep, Dispatch,
       Filter, HandleHello, SendAck, HandleMove, HandleHeartbeat, HandleOther, Redis,
       MainStep, Start, ReadClock, ScanBegin, ScanOne, LoopEnd, RemoveOne, LeaveBegin,
       TellOne, TellEnd, vars, registry, workers

(* lastSeq moves only when a new context is made and when a packet passes. *)
LEMMA LastSeqKept ==
    ASSUME TypeInv, [Next]_vars
    PROVE  \/ \E w \in Workers : Register(w) /\ RegisterNew(w, recvBuf.from)
           \/ \E w \in Workers : Filter(w) /\ Accepted(w, wctx[w])
           \/ nextId' = nextId /\ \A s \in Session : ctx'[s].lastSeq = ctx[s].lastSeq
<1>1. ASSUME NEW w \in Workers, Register(w), ~RegisterNew(w, recvBuf.from)
      PROVE  nextId' = nextId /\ \A s \in Session : ctx'[s].lastSeq = ctx[s].lastSeq
    BY <1>1 DEF Register, RegisterKnown, TypeInv, TypeOK, Context
<1>2. ASSUME NEW w \in Workers, Filter(w)
      PROVE  Accepted(w, wctx[w]) \/ UNCHANGED <<nextId, ctx>>
    BY <1>2 DEF Filter, Accepted, Goto, TypeInv, TypeOK
<1>3. ASSUME NEW w \in Workers, HandleHello(w) \/ HandleHeartbeat(w)
      PROVE  nextId' = nextId /\ \A s \in Session : ctx'[s].lastSeq = ctx[s].lastSeq
    BY <1>3 DEF HandleHello, HandleHeartbeat, TypeInv, TypeOK, Context
<1>4. CASE UNCHANGED <<nextId, ctx>>
    BY <1>4
<1> QED BY <1>1, <1>2, <1>3, <1>4 DEF Next, Advance, Arrive, WorkerStep, Dispatch,
       Find, SendAck, HandleMove, HandleOther, Redis, Rearm, MainStep, Start, ReadClock,
       ScanBegin, ScanOne, LoopEnd, RemoveOne, LeaveBegin, TellOne, TellEnd, vars,
       registry

(* Only the filter lets a packet through: it is no duplicate, and the      *)
(* context it belongs to moves to its sequence.                            *)
LEMMA AcceptedByFilter ==
    ASSUME TypeInv, [Next]_vars, NEW w \in Workers, NEW s \in Session, Accepted(w, s)
    PROVE  /\ \A v \in Workers, r \in Session : Accepted(v, r) => r = s
           /\ recvBuf.seq \in Seq /\ nextId' = nextId
           /\ ~IsDuplicate(s)
           /\ ctx'[s].lastSeq = recvBuf.seq
           /\ \A r \in Session \ {s} : ctx'[r].lastSeq = ctx[r].lastSeq
<1>1. pc[w] = "filter" /\ pc'[w] = "handle" /\ wctx[w] = s
    BY DEF Accepted
<1>2. OnlyBusy(w)
    BY <1>1, BusyIsAlone DEF TypeInv
<1>3. Filter(w)
    BY <1>1, <1>2 DEF Next, Advance, Arrive, Register, WorkerStep, Dispatch, Find,
       Filter, HandleHello, SendAck, HandleMove, HandleHeartbeat, HandleOther, Handling,
       Redis, Rearm, MainStep, Start, ReadClock, ScanBegin, ScanOne, LoopEnd, RemoveOne,
       LeaveBegin, TellOne, TellEnd, vars, workers, TypeInv, TypeOK, Goto, OnlyBusy
<1>4. recvBuf.seq \in Seq
    BY <1>1, DatagramTyped DEF TypeInv, Held
<1>5. /\ ~IsDuplicate(s) /\ nextId' = nextId
      /\ ctx' = [ctx EXCEPT ![s].lastSeq = recvBuf.seq, ![s].lastAlive = now]
    BY <1>1, <1>3 DEF Filter, Goto, TypeInv, TypeOK
<1>6. \A v \in Workers, r \in Session : Accepted(v, r) => r = s
    BY <1>1, <1>2 DEF Accepted, OnlyBusy
<1> QED BY <1>4, <1>5, <1>6 DEF TypeInv, TypeOK, Context

LEMMA BehindStep ==
    ASSUME TypeInv, HistoryInv, Next, HistoryNext
    PROVE  Behind'
<1>1. CASE \E w \in Workers, s \in Session : Accepted(w, s)
    <2>1. PICK w \in Workers, s \in Session : Accepted(w, s)
        BY <1>1
    <2>2. /\ recvBuf.seq \in Seq /\ nextId' = nextId /\ ~IsDuplicate(s)
          /\ ctx'[s].lastSeq = recvBuf.seq
          /\ \A r \in Session \ {s} : ctx'[r].lastSeq = ctx[r].lastSeq
        BY <2>1, AcceptedByFilter
    <2>3. \A r \in Session \ {s} : recent'[r] = recent[r]
        BY <2>1, AcceptedByFilter DEF HistoryNext
    <2>4. recent'[s] = IF recvBuf.seq = 0 THEN {} ELSE recent[s] \cup {recvBuf.seq}
        BY <2>1 DEF HistoryNext
    <2>5. s < nextId
        BY <2>1 DEF Accepted, HistoryInv, HoldsIssued
    <2>6. ctx[s].lastSeq \in Seq
        BY DEF TypeInv, TypeOK, Context
    <2>7. ASSUME NEW q \in recent'[s]
          PROVE  q \in Seq /\ q <= ctx'[s].lastSeq
        BY <2>2, <2>4, <2>6, <2>7 DEF IsDuplicate, HistoryInv, Behind, Seq
    <2>8. ~(s >= nextId')
        BY <2>2, <2>5 DEF Session, TypeInv, TypeOK
    <2> QED BY <2>2, <2>3, <2>7, <2>8 DEF HistoryInv, Behind
<1>2. CASE ~\E w \in Workers, s \in Session : Accepted(w, s)
    <2>1. \A s \in Session : recent'[s] = recent[s]
        BY <1>2 DEF HistoryNext
    <2>2. CASE \E w \in Workers : Register(w) /\ RegisterNew(w, recvBuf.from)
        <3>1. nextId \in Session /\ nextId' = nextId + 1
            BY <2>2 DEF RegisterNew, TypeInv, TypeOK, Session
        <3>2. \A s \in Session \ {nextId} : ctx'[s] = ctx[s]
            BY <2>2 DEF RegisterNew, TypeInv, TypeOK
        <3>3. recent'[nextId] = {}
            BY <2>1, <3>1 DEF HistoryInv, Behind, Session
        <3> QED BY <2>1, <3>1, <3>2, <3>3 DEF HistoryInv, Behind, Session
    <2>3. CASE nextId' = nextId /\ \A s \in Session : ctx'[s].lastSeq = ctx[s].lastSeq
        BY <2>1, <2>3 DEF HistoryInv, Behind
    <2>4. ~\E w \in Workers : Filter(w) /\ Accepted(w, wctx[w])
        BY <1>2 DEF Filter, TypeInv, Held
    <2> QED BY <2>2, <2>3, <2>4, LastSeqKept
<1> QED BY <1>1, <1>2

LEMMA HistoryInvHolds == SpecH => []HistoryInv /\ [](TypeInv /\ RegistryInv)
<1>1. Init /\ recent = [s \in Session |-> {}] => HistoryInv
    BY DEF Init, HistoryInv, HoldsIssued, Behind, NoSession
<1>2. SpecH => Spec
    <2>1. [Next /\ HistoryNext]_<<vars, recent>> => [Next]_vars
        OBVIOUS
    <2> QED BY <2>1, PTL DEF SpecH, Spec
<1>3. TypeInv /\ RegistryInv /\ HistoryInv /\ [Next /\ HistoryNext]_<<vars, recent>>
          => HistoryInv'
    <2>1. ASSUME TypeInv, HistoryInv, UNCHANGED <<vars, recent>>
          PROVE  Behind'
        BY <2>1 DEF HistoryInv, Behind, vars, registry
    <2> QED BY <2>1, BehindStep, HoldsIssuedStep DEF HistoryInv
<1> QED BY <1>1, <1>2, <1>3, TypeInvHolds, RegistryInvHolds, PTL DEF SpecH

(* The duplicate filter of OnRecvPacket: between two packets with sequence *)
(* 0, which always pass, the packets of a session that reach a handler     *)
(* have growing sequences, whatever is lost, duplicated or reordered and   *)
(* however often the client registers again from the same address.         *)
THEOREM HandledInOrder == SpecH => ReplayOnlyAfterZero
<1>1. ASSUME TypeInv, HistoryInv, [Next]_vars, NEW w \in Workers, NEW s \in Session,
             Accepted(w, s), recvBuf.seq # 0, NEW q \in recent[s]
      PROVE  q < recvBuf.seq
    <2>1. ~IsDuplicate(s) /\ recvBuf.seq \in Seq
        BY <1>1, AcceptedByFilter
    <2>2. q \in Seq /\ q <= ctx[s].lastSeq /\ ctx[s].lastSeq \in Seq
        BY <1>1 DEF HistoryInv, Behind, TypeInv, TypeOK, Context
    <2> QED BY <1>1, <2>1, <2>2 DEF IsDuplicate, Seq
<1>2. TypeInv /\ HistoryInv /\ [Next /\ HistoryNext]_<<vars, recent>> =>
          [\A w \in Workers, s \in Session : Accepted(w, s) /\ recvBuf.seq # 0 =>
              \A q \in recent[s] : q < recvBuf.seq]_<<vars, recent>>
    BY <1>1
<1> QED BY <1>2, HistoryInvHolds, PTL DEF ReplayOnlyAfterZero, SpecH

=============================================================================
