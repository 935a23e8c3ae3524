------------------------------ MODULE UdpLobby ------------------------------
(***************************************************************************)
(* The UDP lobby server: one datagram socket (UdpSession), the registry of *)
(* its clients (UdpService), the packet handlers (UdpGameSession and       *)
(* UdpServerPacketHandler), the workers that dequeue completions           *)
(* (IocpCore::Dispatch) and the main thread that expires silent clients    *)
(* (UdpService::Tick and OnClientLeave, called from main).                 *)
(*                                                                         *)
(* Grain.  A step of a worker is a call that takes the registry lock once, *)
(* or the code between two such calls.  A body under WRITE_LOCK, and a     *)
(* lookup or a MOVE broadcast under READ_LOCK, is one step; the two loops  *)
(* that the main thread runs under READ_LOCK (the scan of Tick, the LEAVE  *)
(* broadcast) are one step per element, because workers go on reading the  *)
(* registry, writing lastAliveMs and broadcasting meanwhile.  The sending  *)
(* that follows SendTo's lookup is in the same step: it uses only the      *)
(* context's address, which never changes.                                 *)
(*                                                                         *)
(* Outgoing datagrams.  told and shown record what the server sends, in    *)
(* the order it sends; a WSASendTo that fails at once (the code prints the *)
(* error and goes on) and a datagram lost or overtaken on its way to a     *)
(* client are not modelled.                                                *)
(***************************************************************************)
EXTENDS Integers, FiniteSets

CONSTANTS
    Workers,            \* threads in the loop around IocpCore::Dispatch
    Addr,               \* client socket addresses (SOCKADDR_IN)
    Key,                \* keys of _addrMap
    SockAddrKey(_),     \* the hash of an address: ip XOR port
    SESSION_TIMEOUT_MS, \* silence after which Tick removes a client
    NoUser,             \* the empty userId of a new context
    NoDatagram,         \* a completion shorter than the packet header
    Kinds,              \* bound: the kinds of packet clients send
    MaxSession,         \* bound: session ids the model may issue
    MaxTime,            \* bound: the last instant of the clock
    MaxSeq              \* bound: the largest packet sequence

ASSUME WorkersAssumption == IsFiniteSet(Workers) /\ Workers # {}
ASSUME KeyAssumption     == \A a \in Addr : SockAddrKey(a) \in Key
ASSUME TimeoutAssumption == SESSION_TIMEOUT_MS \in Nat
ASSUME BoundAssumption   == MaxSession \in Nat /\ MaxTime \in Nat /\ MaxSeq \in Nat
ASSUME NoUserAssumption  == NoUser \notin Addr

Session   == 1..MaxSession  \* ids handed out by GenerateSessionId
NoSession == 0              \* no client context: nullptr, or an empty map slot
Ref       == Session \cup {NoSession}
Time      == 0..MaxTime
Seq       == 0..MaxSeq

(* What a datagram asks for.  IGNORED stands for every packet that changes *)
(* nothing once it passed the filter: an unknown id, a payload too short;  *)
(* REDIS for the two requests that only talk to Redis and answer.          *)
Kind == {"HELLO", "MOVE", "HEARTBEAT", "REDIS", "IGNORED"}

(* fresh: the header carries sessionId 0.  No code path reads the sequence *)
(* of a fresh packet, so only sequence 0 is enumerated for one.            *)
Datagram == {d \in [from : Addr, fresh : BOOLEAN, seq : Seq, kind : Kinds] :
                d.fresh => d.seq = 0}

ASSUME KindsAssumption      == Kinds \subseteq Kind
ASSUME NoDatagramAssumption == NoDatagram \notin Datagram

Context == [addr : Addr \cup {NoUser}, userId : Addr \cup {NoUser},
            lastSeq : Seq, lastAlive : Time]
Unborn  == [addr |-> NoUser, userId |-> NoUser, lastSeq |-> 0, lastAlive |-> 0]

VARIABLES
    now,         \* GetTickCount64
    nextId,      \* sCounter of GenerateSessionId
    ctx,         \* the UdpClientContext of each session id
    idMap,       \* the keys of _idMap
    addrMap,     \* _addrMap
    posted,      \* WSARecvFrom calls the kernel holds
    completions, \* receive completions queued on the port
    recvBuf,     \* _recvBuf and _recvFromAddr
    pc, wctx,    \* per worker: where it is, the context it holds
    main,        \* where the main thread is
    tickNow,     \* Tick's local now
    todo,        \* what the main thread's current loop has left to visit
    expired,     \* Tick's vector of expired ids
    leaving,     \* the id whose LEAVE is being broadcast
    told,        \* per address: the last session id acknowledged to it
    shown,       \* per session: the sessions its client displays by what was sent to it
    announced    \* history: the sessions whose LEAVE was started

registry == <<nextId, ctx, idMap, addrMap>>
receive  == <<posted, completions, recvBuf>>
workers  == <<pc, wctx>>
ticker   == <<main, tickNow, todo, expired, leaving, announced>>
clients  == <<told, shown>>
vars     == <<now, registry, receive, workers, ticker, clients>>

WorkerPC == {"idle", "lookup", "filter", "handle", "ack", "redis", "rearm"}
MainPC   == {"boot", "sleep", "lock", "scan", "remove", "leave", "tell"}

Goto(w, l)  == pc' = [pc EXCEPT ![w] = l]
Hold(w, s)  == wctx' = [wctx EXCEPT ![w] = s]

(* The main thread is inside one of its two loops under READ_LOCK.         *)
MainReads == main \in {"scan", "tell"}

Init ==
    /\ now = 0 /\ nextId = 1
    /\ ctx = [s \in Session |-> Unborn]
    /\ idMap = {} /\ addrMap = [k \in Key |-> NoSession]
    /\ posted = 0 /\ completions = 0 /\ recvBuf = NoDatagram
    /\ pc = [w \in Workers |-> "idle"]
    /\ wctx = [w \in Workers |-> NoSession]
    /\ main = "boot" /\ tickNow = 0 /\ todo = {} /\ expired = {}
    /\ leaving = NoSession /\ announced = {}
    /\ told = [a \in Addr |-> NoSession]
    /\ shown = [s \in Session |-> {}]

-----------------------------------------------------------------------------
(* The environment: the clock, and the kernel that completes a receive.    *)

Advance ==
    /\ now < MaxTime
    /\ now' = now + 1
    /\ UNCHANGED <<registry, receive, workers, ticker, clients>>

(* A datagram, or an ICMP error of a client that went away (NoDatagram),   *)
(* lands in the buffer of a posted receive.  Loss, duplication and         *)
(* reordering are the freedom to deliver any datagram, or none, next.      *)
Arrive(d) ==
    /\ posted > 0
    /\ d # NoDatagram => (d.fresh => nextId <= MaxSession)
    /\ posted' = posted - 1
    /\ completions' = completions + 1
    /\ recvBuf' = d
    /\ UNCHANGED <<now, registry, workers, ticker, clients>>

-----------------------------------------------------------------------------
(* A worker.                                                               *)

(* Faulty variants of Dispatch: go on after GetQueuedCompletionStatus ran  *)
(* into its timeout; forget to re-arm after an error completion.           *)
DispatchUnguarded(w) ==
    /\ pc[w] = "idle"
    /\ completions' = completions - 1
    /\ Goto(w, IF recvBuf = NoDatagram THEN "rearm" ELSE "lookup")
    /\ UNCHANGED <<now, registry, posted, recvBuf, wctx, ticker, clients>>

DispatchDropsErrors(w) ==
    /\ pc[w] = "idle" /\ completions > 0
    /\ completions' = completions - 1
    /\ Goto(w, IF recvBuf = NoDatagram THEN "idle" ELSE "lookup")
    /\ UNCHANGED <<now, registry, posted, recvBuf, wctx, ticker, clients>>

(* IocpCore::Dispatch and the size test of UdpSession::ProcessRecv.        *)
Dispatch(w) ==
    /\ pc[w] = "idle"
    /\ completions > 0
    /\ completions' = completions - 1
    /\ Goto(w, IF recvBuf = NoDatagram THEN "rearm" ELSE "lookup")
    /\ UNCHANGED <<now, registry, posted, recvBuf, wctx, ticker, clients>>

RegisterKnown(w, s) ==
    /\ ctx' = [ctx EXCEPT ![s].lastAlive = now]
    /\ Hold(w, s)
    /\ UNCHANGED <<nextId, idMap, addrMap>>

(* Faulty variant of RegisterNew: the context of the session issued last,  *)
(* if it left, is used again without a reset.                              *)
RegisterNewRecycles(w, a) ==
    LET s == IF nextId - 1 \in Session \ idMap THEN nextId - 1 ELSE nextId
    IN /\ s <= MaxSession
       /\ ctx' = [ctx EXCEPT ![s].addr = a, ![s].lastAlive = now]
       /\ idMap' = idMap \cup {s}
       /\ addrMap' = [addrMap EXCEPT ![SockAddrKey(a)] = s]
       /\ nextId' = s + 1
       /\ Hold(w, s)

RegisterNew(w, a) ==
    /\ nextId <= MaxSession
    /\ ctx' = [ctx EXCEPT ![nextId] =
           [addr |-> a, userId |-> NoUser, lastSeq |-> 0, lastAlive |-> now]]
    /\ idMap' = idMap \cup {nextId}
    /\ addrMap' = [addrMap EXCEPT ![SockAddrKey(a)] = nextId]
    /\ nextId' = nextId + 1
    /\ Hold(w, nextId)

(* FindByAddr: here a colliding key is told apart by the whole address.    *)
FoundByAddr(a) ==
    LET s == addrMap[SockAddrKey(a)]
    IN IF s # NoSession /\ ctx[s].addr = a THEN s ELSE NoSession

(* RegisterClient: a key already present is a client already registered,   *)
(* whatever its address.                                                   *)
Register(w) ==
    LET old == addrMap[SockAddrKey(recvBuf.from)]
    IN /\ pc[w] = "lookup" /\ recvBuf.fresh
       /\ ~MainReads
       /\ \/ old # NoSession /\ RegisterKnown(w, old)
          \/ old = NoSession /\ RegisterNew(w, recvBuf.from)
       /\ Goto(w, "handle")
       /\ UNCHANGED <<now, receive, ticker, clients>>

Find(w) ==
    LET s == FoundByAddr(recvBuf.from)
    IN /\ pc[w] = "lookup" /\ ~recvBuf.fresh
       /\ Hold(w, s)
       /\ Goto(w, IF s = NoSession THEN "rearm" ELSE "filter")
       /\ UNCHANGED <<now, registry, receive, ticker, clients>>

(* Faulty variant of IsDuplicate: the last sequence itself passes.         *)
IsOlder(s) == recvBuf.seq # 0 /\ recvBuf.seq < ctx[s].lastSeq

(* The duplicate filter of OnRecvPacket.                                   *)
IsDuplicate(s) == recvBuf.seq # 0 /\ recvBuf.seq <= ctx[s].lastSeq

Filter(w) ==
    /\ pc[w] = "filter"
    /\ \/ /\ IsDuplicate(wctx[w])
          /\ Goto(w, "rearm")
          /\ UNCHANGED ctx
       \/ /\ ~IsDuplicate(wctx[w])
          /\ ctx' = [ctx EXCEPT ![wctx[w]].lastSeq = recvBuf.seq,
                                ![wctx[w]].lastAlive = now]
          /\ Goto(w, "handle")
    /\ UNCHANGED <<now, nextId, idMap, addrMap, receive, wctx, ticker, clients>>

Handling(w, kind) == pc[w] = "handle" /\ recvBuf.kind = kind

(* Handle_C_UDP_HELLO: record the user, acknowledge, then ask Redis.  The  *)
(* user of address a is written a: what matters is whose it is.            *)
HandleHello(w) ==
    /\ Handling(w, "HELLO")
    /\ ctx' = [ctx EXCEPT ![wctx[w]].userId = recvBuf.from]
    /\ Goto(w, "ack")
    /\ UNCHANGED <<now, nextId, idMap, addrMap, receive, wctx, ticker, clients>>

(* Faulty variant of SendAck: answer whoever sent the packet.              *)
SendAckToSender(w) ==
    /\ pc[w] = "ack"
    /\ told' = [told EXCEPT ![recvBuf.from] = wctx[w]]
    /\ Goto(w, "redis")
    /\ UNCHANGED <<now, registry, receive, wctx, ticker, shown>>

(* SendTo looks the id up again: nothing is sent to a session evicted in   *)
(* the meantime.  READ_LOCK is released between the lookup and the send;   *)
(* they are one step, since the address of a context never changes.        *)
SendAck(w) ==
    /\ pc[w] = "ack"
    /\ told' = IF wctx[w] \in idMap
               THEN [told EXCEPT ![ctx[wctx[w]].addr] = wctx[w]] ELSE told
    /\ Goto(w, "redis")
    /\ UNCHANGED <<now, registry, receive, wctx, ticker, shown>>

(* Handle_C_LOBBY_MOVE: everyone registered but the mover now shows it.    *)
HandleMove(w) ==
    /\ Handling(w, "MOVE")
    /\ shown' = [s \in Session |-> IF s \in idMap \ {wctx[w]}
                                   THEN shown[s] \cup {wctx[w]} ELSE shown[s]]
    /\ Goto(w, "rearm")
    /\ UNCHANGED <<now, registry, receive, wctx, ticker, told>>

HandleHeartbeat(w) ==
    /\ Handling(w, "HEARTBEAT")
    /\ ctx' = [ctx EXCEPT ![wctx[w]].lastAlive = now]
    /\ Goto(w, "rearm")
    /\ UNCHANGED <<now, nextId, idMap, addrMap, receive, wctx, ticker, clients>>

HandleOther(w) ==
    /\ \/ Handling(w, "REDIS") /\ Goto(w, "redis")
       \/ Handling(w, "IGNORED") /\ Goto(w, "rearm")
    /\ UNCHANGED <<now, registry, receive, wctx, ticker, clients>>

(* A call into GRedisClient, whose connection has no lock of its own.      *)
Redis(w) ==
    /\ pc[w] = "redis"
    /\ Goto(w, "rearm")
    /\ UNCHANGED <<now, registry, receive, wctx, ticker, clients>>

(* RegisterRecv, the tail of ProcessRecv on every path; an error other     *)
(* than WSA_IO_PENDING is retried until a receive is posted.  From here on *)
(* the buffer belongs to the kernel.                                       *)
Rearm(w) ==
    /\ pc[w] = "rearm"
    /\ posted' = posted + 1
    /\ recvBuf' = NoDatagram
    /\ Goto(w, "idle")
    /\ Hold(w, NoSession)
    /\ UNCHANGED <<now, registry, completions, ticker, clients>>

-----------------------------------------------------------------------------
(* The main thread.                                                        *)

(* UdpService::Start posts the first receive.                              *)
Start ==
    /\ main = "boot"
    /\ main' = "sleep"
    /\ posted' = posted + 1
    /\ UNCHANGED <<now, registry, completions, recvBuf, workers, tickNow, todo,
                   expired, leaving, announced, clients>>

(* Tick reads the clock before it asks for the lock.                       *)
ReadClock ==
    /\ main = "sleep"
    /\ main' = "lock"
    /\ tickNow' = now
    /\ UNCHANGED <<now, registry, receive, workers, todo, expired, leaving,
                   announced, clients>>

ScanBegin ==
    /\ main = "lock"
    /\ main' = "scan"
    /\ todo' = idMap
    /\ UNCHANGED <<now, registry, receive, workers, tickNow, expired, leaving,
                   announced, clients>>

(* Faulty variant of Expired: GetTickCount64 is unsigned (here 16 bits).   *)
ExpiredUnsigned(s) == (tickNow - ctx[s].lastAlive) % 2^16 > SESSION_TIMEOUT_MS

(* Tick subtracts signed numbers.                                          *)
Expired(s) == tickNow - ctx[s].lastAlive > SESSION_TIMEOUT_MS

ScanOne(s) ==
    /\ main = "scan" /\ s \in todo
    /\ todo' = todo \ {s}
    /\ expired' = IF Expired(s) THEN expired \cup {s} ELSE expired
    /\ UNCHANGED <<now, registry, receive, workers, main, tickNow, leaving,
                   announced, clients>>

(* Faulty variant of LoopEnd: nothing is announced.                        *)
NeverAnnounce ==
    /\ todo = {}
    /\ \/ main = "scan"   /\ main' = "remove" /\ todo' = expired /\ UNCHANGED expired
       \/ main = "remove" /\ main' = "sleep"  /\ todo' = {} /\ expired' = {}
    /\ UNCHANGED <<now, registry, receive, workers, tickNow, leaving, announced,
                   clients>>

(* The end of a loop: the vector of expired ids is walked twice, once to   *)
(* remove its clients (in Tick) and once to announce them (in main).       *)
LoopEnd ==
    /\ todo = {}
    /\ \/ main = "scan"   /\ main' = "remove" /\ todo' = expired /\ UNCHANGED <<tickNow, expired>>
       \/ main = "remove" /\ main' = "leave"  /\ todo' = expired /\ UNCHANGED <<tickNow, expired>>
       \/ main = "leave"  /\ main' = "sleep"  /\ todo' = {} /\ tickNow' = 0 /\ expired' = {}
    /\ UNCHANGED <<now, registry, receive, workers, leaving, announced, clients>>

(* Faulty variant of RemoveOne: _idMap keeps the client.                   *)
RemoveFromAddrMap(s) ==
    /\ main = "remove" /\ s \in todo
    /\ todo' = todo \ {s}
    /\ addrMap' = [addrMap EXCEPT ![SockAddrKey(ctx[s].addr)] = NoSession]
    /\ UNCHANGED <<now, nextId, ctx, idMap, receive, workers, main, tickNow,
                   expired, leaving, announced, clients>>

(* RemoveClient: the address's slot is erased by key.                      *)
RemoveOne(s) ==
    /\ main = "remove" /\ s \in todo
    /\ todo' = todo \ {s}
    /\ IF s \in idMap
       THEN /\ idMap' = idMap \ {s}
            /\ addrMap' = [addrMap EXCEPT ![SockAddrKey(ctx[s].addr)] = NoSession]
       ELSE UNCHANGED <<idMap, addrMap>>
    /\ UNCHANGED <<now, nextId, ctx, receive, workers, main, tickNow, expired,
                   leaving, announced, clients>>

(* Faulty variant of LeaveBegin: tell only the clients that said HELLO.    *)
LeaveToGreeted(s) ==
    /\ main = "leave" /\ s \in todo
    /\ main' = "tell" /\ leaving' = s
    /\ todo' = {r \in idMap : ctx[r].userId # NoUser}
    /\ expired' = expired \ {s} /\ announced' = announced \cup {s}
    /\ UNCHANGED <<now, registry, receive, workers, tickNow, clients>>

(* OnClientLeave: todo is now the ids still to announce; the recipients of *)
(* the broadcast are those registered when it takes the lock.              *)
LeaveBegin(s) ==
    /\ main = "leave" /\ s \in todo
    /\ main' = "tell"
    /\ leaving' = s
    /\ todo' = idMap
    /\ expired' = expired \ {s}
    /\ announced' = announced \cup {s}
    /\ UNCHANGED <<now, registry, receive, workers, tickNow, clients>>

TellOne(r) ==
    /\ main = "tell" /\ r \in todo
    /\ todo' = todo \ {r}
    /\ shown' = [shown EXCEPT ![r] = @ \ {leaving}]
    /\ UNCHANGED <<now, registry, receive, workers, main, tickNow, expired,
                   leaving, announced, told>>

TellEnd ==
    /\ main = "tell" /\ todo = {}
    /\ main' = "leave"
    /\ leaving' = NoSession
    /\ todo' = expired
    /\ UNCHANGED <<now, registry, receive, workers, tickNow, expired, announced,
                   clients>>

-----------------------------------------------------------------------------
(* Steps that need no lock, or the lock shared.                            *)
WorkerStep(w) ==
    \/ Dispatch(w) \/ Find(w) \/ Filter(w) \/ HandleHello(w) \/ SendAck(w)
    \/ HandleMove(w) \/ HandleHeartbeat(w) \/ HandleOther(w) \/ Redis(w) \/ Rearm(w)

MainStep ==
    \/ Start \/ ReadClock \/ ScanBegin \/ LoopEnd \/ TellEnd
    \/ \E s \in Session : ScanOne(s) \/ RemoveOne(s) \/ LeaveBegin(s) \/ TellOne(s)

Next ==
    \/ Advance
    \/ \E d \in Datagram \cup {NoDatagram} : Arrive(d)
    \/ \E w \in Workers : Register(w) \/ WorkerStep(w)
    \/ MainStep

Spec == Init /\ [][Next]_vars

(* Every thread keeps running.  RegisterClient needs the lock exclusively: *)
(* the main thread shares it for a moment in each one-second round, so a   *)
(* writer that keeps asking (Lock::WriteLock spins for up to ten seconds)  *)
(* finds it free.  Nothing makes a datagram arrive or the clock advance.   *)
Fairness ==
    /\ \A w \in Workers : WF_vars(WorkerStep(w)) /\ SF_vars(Register(w))
    /\ WF_vars(MainStep)

FairSpec == Spec /\ Fairness
-----------------------------------------------------------------------------
(* Every variable has the type its C++ counterpart has.                    *)
TypeOK ==
    /\ now \in Time /\ nextId \in 1..(MaxSession + 1)
    /\ ctx \in [Session -> Context]
    /\ idMap \in SUBSET Session /\ addrMap \in [Key -> Ref]
    /\ posted \in Nat /\ completions \in Nat
    /\ recvBuf \in Datagram \cup {NoDatagram}
    /\ pc \in [Workers -> WorkerPC] /\ wctx \in [Workers -> Ref]
    /\ main \in MainPC /\ tickNow \in Time
    /\ todo \in SUBSET Session /\ expired \in SUBSET Session
    /\ leaving \in Ref /\ announced \in SUBSET Session
    /\ told \in [Addr -> Ref] /\ shown \in [Session -> SUBSET Session]

(* The two maps of UdpService hold the same clients, each under its own    *)
(* key, although RegisterClient and RemoveClient update them one after the *)
(* other and two addresses may share a key.                                *)
MapsAgree ==
    /\ \A k \in Key : addrMap[k] # NoSession =>
          addrMap[k] \in idMap /\ SockAddrKey(ctx[addrMap[k]].addr) = k
    /\ \A s \in idMap : addrMap[SockAddrKey(ctx[s].addr)] = s

Busy == {w \in Workers : pc[w] # "idle"}

(* However many workers run, one receive is outstanding: either the kernel *)
(* holds it, or its completion is queued, or one worker is processing it.  *)
(* This, and no lock, is what keeps handlers, the client contexts and      *)
(* GRedisClient to one thread at a time (ProcessRecv re-arms last).        *)
OneReceive == main # "boot" => posted + completions + Cardinality(Busy) = 1

(* The packet and the sender address a worker is processing do not change  *)
(* under it: _recvBuf is not handed back to the kernel before OnRecvPacket *)
(* returns.                                                                *)
BufferStable ==
    [][\A w \in Workers :
          pc[w] # "idle" /\ pc'[w] # "idle" => recvBuf' = recvBuf]_vars

(* A handler works on the context of the client that sent the packet, and  *)
(* a context records nobody's user but its own address's.                  *)
OwnIdentity ==
    /\ \A w \in Workers : pc[w] \in {"filter", "handle", "ack"} =>
          ctx[wctx[w]].addr = recvBuf.from
    /\ \A s \in Session : ctx[s].userId \in {NoUser, ctx[s].addr}

(* A session id is acknowledged only to the address it was issued for, so  *)
(* no two clients are ever given the same id, even under one key.          *)
AckedToOwner == \A a \in Addr : told[a] # NoSession => ctx[told[a]].addr = a

(* A session whose departure was announced is not registered, and its id   *)
(* never comes back: LEAVE follows the removal, and ids are not reused.    *)
LeftForGood == announced \cap idMap = {}

(* The departure of a session is announced at most once, however Tick's    *)
(* rounds, removals and new registrations interleave.                      *)
AnnouncedOnce == [][leaving' # leaving => leaving' \notin announced]_vars

(* Tick condemns a client only when its silence exceeds the timeout at     *)
(* that instant, although it compares a clock read before it had the lock  *)
(* with a lastAliveMs that a worker may have moved past it.                *)
NoFreshEviction ==
    [][\A s \in expired' \ expired : now - ctx[s].lastAlive > SESSION_TIMEOUT_MS]_vars

(* The departed sessions client r still displays, once LEAVE reached it.   *)
Ghosts(r) == {m \in shown[r] \cap announced : ~(leaving = m /\ r \in todo)}

(* A departed session reappears on a client only by a MOVE that a worker   *)
(* had accepted before the session was removed: the LEAVE broadcast misses *)
(* no one, whoever registers while Tick removes and main announces.  This  *)
(* is about what the server sends, not what the network delivers.          *)
GhostOnlyFromStaleRelay ==
    [][\A r \in idMap' : \A m \in Ghosts(r)' \ Ghosts(r) :
          \E w \in Workers : pc[w] = "handle" /\ wctx[w] = m]_vars

Silent(s) == s \in idMap /\ now - ctx[s].lastAlive > SESSION_TIMEOUT_MS

(* A client silent for longer than the timeout is removed, or heard again. *)
SilentIsRemoved == \A s \in Session : Silent(s) ~> ~Silent(s)

(* Every client removed is announced to those that remain.                 *)
RemovedIsAnnounced ==
    \A s \in Session : s < nextId /\ s \notin idMap ~> s \in announced /\ leaving # s

(* The receive loop survives every packet and every error completion: a    *)
(* receive is posted again and again (README: the loop is kept on 10054).  *)
ReceiveLoop == []<>(posted > 0)

-----------------------------------------------------------------------------
(* What a comment says and the code does not do.                           *)

(* packetTypes.h:38, "the client removes that session's character": after  *)
(* its LEAVE a departed session is displayed by no registered client.  A   *)
(* MOVE accepted before the removal is relayed after the LEAVE.            *)
NoGhost == \A r \in idMap : Ghosts(r) = {}
=============================================================================
