# Formal models of the cowboy-poker lobby server

TLA+ modules beside the C++ sources in `src/`. They model the UDP lobby server
(`GameServer.exe`), the reader-writer spin lock it is built on with its deadlock
profiler, its purchases in Redis, and the TCP library: a session, its receive
buffer, and a service with its listener. TLC checks them on small instances;
TLAPS proves, for every value of the constants, the safety properties of all of
them that the runs check; liveness is left to TLC.

## 1. Inventory of the system

| Part | State | Operations | Interacts with |
|---|---|---|---|
| **Receive loop** `UdpSession`, `IocpCore`, five workers of `main` | one socket, `_recvBuf`, `_recvFromAddr`, `_recvEvent`; the completion port | `IocpCore::Dispatch`, `UdpSession::Dispatch/ProcessRecv/RegisterRecv/SendTo` | kernel completions; calls `UdpGameSession::OnRecvPacket` |
| **Registry** `UdpService` | `_idMap`, `_addrMap`, the `UdpClientContext`s, `sCounter`, one `Lock` | `RegisterClient`, `RemoveClient`, `FindByAddr`, `FindById`, `SendTo`, `Broadcast`, `BroadcastExcept`, `Tick`, `Start` | called by handlers (workers) and by the main thread |
| **Handlers** `UdpGameSession`, `UdpServerPacketHandler` | none of their own; they write `lastSeq`, `lastAliveMs`, `userId` of a context without a lock | `OnRecvPacket`, `Handle_C_*`, `OnClientLeave`, `Make_S_*` | registry, `GRedisClient` |
| **Expiry** main thread | local `now` and `expired` of `Tick` | `Tick`, then `OnClientLeave` for each id, every second | registry lock, broadcasts |
| **Redis client** `RedisClient`, `WeaponData` | one hiredis connection, the hash `user:<id>` of each user | `GetPlayerInfo`, `GetBalance`, `SetAmmo`, `PurchaseWeapon`, `ConsumeLobbyAmmo` | handlers; no lock |
| **Lock** `Lock.cpp`, `Lock.h` | `_lockFlag` (owner id, read count), `_writeCount` | `WriteLock`, `WriteUnlock`, `ReadLock`, `ReadUnlock` through guards | every class with `USE_LOCK` |
| **Deadlock profiler** (debug builds) | lock ids by name, lock history, DFS marks, per-thread lock stack | `PushLock`, `PopLock`, `CheckCycle`, `Dfs` | `Lock` |
| **TCP session** `Session`, `PacketSession` | connected flag, send queue, `_sendRegistered`, events, `RecvBuffer` | `Connect`, `Send`, `Disconnect`, `Register*`, `Process*`, `HandleError`, `OnRecv` | completion port, `Service` |
| **TCP listener and services** `Listener`, `Service`, `GameSessionManager` | accept events; `_sessions` with `_sessionCount`; the content's own set | `Start`, `StartAccept`, `RegisterAccept`, `ProcessAccept`, `CreateSession`, `AddSession`, `ReleaseSession`, `Add`, `Remove`, `Broadcast` | sessions, completion port |
| **Receive buffer, framing** | two cursors and a byte array | `Clean`, `OnRead`, `OnWrite`, `PacketSession::OnRecv` | `Session::ProcessRecv` |
| **Rest** | | reference counts, thread manager, allocators, readers and writers, socket helpers | |

The hard behaviours of each part, and what makes it correct:

* *Receive loop.* Any of five workers may dequeue any completion, and handlers,
  contexts, `_recvBuf` and Redis have no lock. All rests on `ProcessRecv`
  calling `RegisterRecv` last. Correct: one receive outstanding; the packet in
  hand is stable; the loop survives errors.
* *Registry.* Two maps changed together under the write lock, a hash that may collide,
  contexts that outlive their removal. Correct: the maps agree; an id goes to
  the address it was issued for; a handler acts for the sender.
* *Handlers.* Datagrams are lost, duplicated, reordered; a MOVE may be relayed
  while its sender is removed. Correct: the filter passes growing sequences;
  departed players do not come back on other screens.
* *Receive buffer.* Cursors, an occasional copy to the front, packets cut
  anywhere. Correct: always room, no overlap, nothing held back.
* *Expiry.* Decision, removal and announcement are three loops under three lock
  acquisitions. Correct: only the silent are condemned; each departure is
  announced, once, and is final.
* *Redis.* Several commands per purchase, each of which may fail or leave its
  effect unknown. Correct: charged means granted; answers are true.
* *TCP session.* Any thread sends while any worker completes; the queue has a
  lock, the send event only the flag `_sendRegistered`; every registration may
  fail at once. Correct: nothing the kernel uses is freed; buffers leave in
  order, once; no wake-up is lost; one release.
* *TCP services.* Accept events are used again for ever, by whichever worker;
  a session is entered in two sets and leaves them in the opposite order;
  `Broadcast` iterates over one of them. Correct: no accept event is lost or
  used twice; the sets agree; the iteration is safe; accepting goes on.
* *Deadlock profiler.* A depth-first search with global marks over a graph that
  grows by an edge at a time. Correct: exactly the circles are reported, before
  anybody waits in one.
* *Lock.* A compare-exchange word, a plain counter, nesting. Correct:
  exclusion, exact flag, nobody blamed who keeps the rules, progress.

## 2. Modules

| Module | Models |
|---|---|
| `UdpLobby` | receive loop, registry, handlers and expiry composed: the running UDP server |
| `UdpLobbyHistory` | `UdpLobby` with a history variable for the duplicate filter |
| `MCUdpLobby`, `MCUdpLobbyHistory` | TLC instances (addresses, the XOR hash, symmetry) |
| `UdpLobbyProofs` | theorems about `UdpLobby` and `UdpLobbyHistory`: the one receive, then the registry, the handlers and the expiry |
| `SharedLock` | abstract: the reader-writer lock the comment of `Lock.h` promises |
| `RWLock`, `MCRWLock`, `RWLockProofs` | `Lock.cpp` step by step; TLC instances; theorems, among them that it implements `SharedLock` |
| `Armory`, `MCArmory` | purchases and shots: `Handle_C_BUY_WEAPON`, `Handle_C_GUN_SHOT_LOBBY` and `RedisClient`, one step per Redis command; TLC instances |
| `ArmoryProofs` | theorems about the books and about the answers |
| `SendChannel` | abstract: what `Session::Send` promises its callers |
| `TcpSession`, `MCTcpSession` | one `Session` from connect to release, one step per atomic access, critical section or WinSock call; the TLC instance |
| `TcpSessionProofs` | theorems about a session, among them that it implements `SendChannel` |
| `TcpService`, `MCTcpService` | a service of either kind with its accept events, its sessions, `GSessionManager` and `Broadcast`; the TLC instance |
| `TcpServiceProofs` | theorems about accept events, the two sets and the release |
| `LockOrder` | abstract: what the deadlock profiler promises, on any threads, locks and names |
| `DeadLockProfiler`, `MCDeadLockProfiler` | `DeadLockProfiler.cpp` with its search, one step per turn of a loop of `Dfs`; the TLC instance |
| `LockOrderProofs` | the theorem that the promise of `LockOrder` rules out deadlocks |
| `DeadLockProfilerProofs` | theorems about the search: it finds exactly the circles, and so the profiler implements `LockOrder` |
| `RecvBuffer`, `MCRecvBuffer`, `RecvBufferProofs` | the receiving side of a TCP session: cursors, framing, `ProcessRecv`; TLC instance; theorems |

The modules meet where the code's parts meet: `RWLock` justifies the atomic
sections of all others; `UdpLobby` proves the single handler `Armory` assumes;
`RecvBuffer` is the inside of `ProcessRecv` of `TcpSession`; `TcpSession` is the
inside of a session of `TcpService`; `DeadLockProfiler` wraps each guard of `RWLock`.

Every definition that models code is tied to its lines in `PROJECT.json`
(`map`). A definition introduced as a *faulty variant* is not part of any
specification: it is what a definition would be with a plausible bug in the
code, and it is used to confirm that a property notices that bug.

### UdpLobby

State and code: `ctx`, `idMap`, `addrMap`, `nextId` are the contexts, `_idMap`,
`_addrMap`, `sCounter`. `posted`, `completions`, `recvBuf` are the receives the
kernel holds, the completions on the port, and the buffer with the sender's
address. `pc`, `wctx` are where each worker is and the context it holds; `main`,
`tickNow`, `todo`, `expired`, `leaving` are the main thread. `told` and `shown`
are what clients learned (the last acknowledged id of an address, the sessions a
client displays). `announced` is history.

Actions and code:

* `Dispatch` – `IocpCore::Dispatch` and the size test of `ProcessRecv`; a
  timeout of the dequeue is no step; an error completion goes straight to `Rearm`.
* `Register`, `Find`, `Filter` – `OnRecvPacket`.
* `HandleHello`, `SendAck`, `Redis` – `Handle_C_UDP_HELLO`: the context is
  written, the acknowledgement looks the id up again, Redis is asked.
* `HandleMove`, `HandleHeartbeat`, `HandleOther` – the other handlers.
* `Rearm` – the tail of `ProcessRecv`.
* `ReadClock`, `ScanBegin`, `ScanOne`, `LoopEnd`, `RemoveOne`, `LeaveBegin`,
  `TellOne`, `TellEnd` – `Tick`, `RemoveClient`, `OnClientLeave`, `Broadcast`,
  `Start` – `UdpService::Start` (a failure ends the process by `ASSERT_CRASH`
  and is left out).
* `Advance`, `Arrive` – the clock and the kernel.

Decisions a reader should know:

* *Atomicity.* A body under `WRITE_LOCK`, and a lookup or a MOVE broadcast under
  `READ_LOCK`, is one step; `RWLock` justifies this (exclusion is proved). The
  two loops the main thread runs under `READ_LOCK` are one step per element,
  since workers keep reading the registry and writing contexts meanwhile;
  registration is excluded during them (`~MainReads`).
* *Datagrams.* The kernel may deliver any datagram at any time. This covers
  loss, duplication, reordering and delay of what clients send. In the other
  direction the model records what the server sends, in the order it sends:
  a `WSASendTo` that fails at once (`UdpSession.cpp:53-59` prints the error and
  goes on) and a datagram lost or overtaken on its way are not modelled, so
  `GhostOnlyFromStaleRelay` and `ghost` say what the server tells its clients to
  display; a lost LEAVE leaves a character on the screen without any relay.
* *`SendTo`* releases `READ_LOCK` between `FindById` and the send
  (`UdpService.cpp:105-108`); `SendAck` is one step. The address of a context never
  changes, so a removal in between makes no difference to any property.
* *Fresh packets* (`sessionId` 0) register their sender whatever their kind, as
  `OnRecvPacket` does. Their sequence is never read, so only 0 is enumerated.
* *Buffer.* `Rearm` forgets the packet: from then on the kernel owns the buffer.
* *Immediate errors* of `WSARecvFrom` are retried until a receive is posted, as
  the recursion of `RegisterRecv` does.
* *Users.* The user of address `a` is written `a`, so that "whose user is this"
  can be stated.
* *Memory.* `lastAliveMs` is read and written by two threads without
  synchronisation. An aligned 8-byte access of the x64 build is not torn; the
  model makes each access atomic.
* *Late removal.* `Tick` decides under `READ_LOCK` and removes later without
  looking again, so a client heard in between is removed anyway and has to greet
  again. `NoFreshEviction` is about the decision, not the removal.
* *Expired ids* are a set: the order of the vector does not matter to any property.
* `lastSeq` is bounded by `MaxSeq`; the wrap of the 32-bit counter is, to the
  filter, a client that starts again, which the model contains.

### RWLock and SharedLock

`flag` is `_lockFlag` split in its halves, with the carries of `fetch_add` and
`fetch_sub` across them; `writeCount` is `_writeCount`; `seen` is `expected` of
`ReadLock`; `depth` and `readers` are the guards in force and what `SharedLock`
speaks about. A guard enters at the step that makes the lock its own
(`WriteSwap`, `ReadSwap`, `WriteAgain`, `ReadAgain`) and leaves at the step that
gives it up. `CRASH` ends the process (`crashed`). Users keep the rule of
`Lock.h` (no write lock inside a read guard); reader ids are distinct and not 0,
as `ThreadManager::InitTLS` makes them.

### Armory

`redis` holds the fields the server writes; `link` is down when `_ctx` is null
or in error. Each command ends in a reply, an error reply or a null reply; with
a null reply the command may have taken effect or not, and every later command
fails, because nothing in the server connects again. The failing paths of
`Handle_C_BUY_WEAPON` end in the answer they send. `Begin` admits a request when
no other is being handled: this is `OneReceive` of `UdpLobby`, proved there.
The variant `BeginAnyTime` is the plan of `README.md` ("수신-처리 분리"), handlers
on several workers: with it charges and shots are lost, so that step needs a
lock around Redis first. Users have a hash, and only this server writes it.

### TcpSession

`connected`, `registered`, `queue`, `sendBuffers` are `_connected`,
`_sendRegistered`, `_sendQueue` and the buffers of `_sendEvent`; `posted` and
`owner` say, per event, whether the kernel has it and whether its `owner`
reference is set. `holder` is the thread that keeps the lock between steps:
only `ProcessSend` does, through `RegisterSend`. `pc` and `ret` are where a
thread is in a call and where `Disconnect` returns to. Buffers are numbered as
they are queued; `wire` is what `WSASend` was given. `told` and `member` stand
for the content's notifications and `Service::_sessions`.

A completion is dequeued by any idle thread, with bytes or with none.
`ProcessRecv` is one step up to `RegisterRecv`: what `OnRecv` does to the
session, a `Send` or a `Disconnect`, is the step of another thread in between.
`Failures` lists the calls into WinSock that may fail at once; `Reset` errors are
those `HandleError` disconnects for. The model starts with the connect (or
accept) completed. `SendChannel` sees the drained batch and the queue as one
sequence `pending`.

Three things the model shows that a caller must know. A buffer queued while a
failing `RegisterSend` is about to clear the flag stays in the queue until
somebody calls `Send` again (`Stranded`). A connection whose `WSARecv` fails with
another error than a reset stays connected and hears nothing (`Deaf`). A session
whose `DisconnectEx` fails at once is never released (`Abandoned`). The
properties state that there is no other way into these. The comment at
`Session.cpp:192-194` says that `Send` holds the lock when it calls
`RegisterSend`; it has released it, and the flag alone keeps `WSASend` to one
thread, which `TypeOK` (`posted` at most 1) and `Hostages` check.

### RecvBuffer

`TcpSession` takes `ProcessRecv` as one step; `RecvBuffer` is the inside of that
step. `readPos`, `writePos` are the cursors, `processLen` is the local of
`OnRecv`, `size` the size in the header of the next packet: the stream is fixed
by its sender, so the size is chosen when the packet before it has been passed
and stays the same however often the header is read. `OnWrite` takes a receive of
any length up to the room it was posted for; `Assemble` is a round of the loop in
`OnRecv`; `OnRead` and `Clean` follow, and `Clean` ends with the next receive
posted.

### TcpService

`accepting` and `armed` are, per accept event, its `session` and whether the
kernel has it; `posted`, `connected` are the events of a session the kernel has
and `_connected`; `linked` says whether the peer agreed; `sessions`, `count` are
`Service::_sessions` and `_sessionCount`, `managed` is `GameSessionManager`'s set,
`todo` what an iteration of `Broadcast` has still to visit. `pc` says, per thread,
in which call it is, with which accept event (`slot`) and session.

* `StartClient`, `StartAccept` – a round of the loops of `ClientService::Start` and
  `Listener::StartAccept`. The calls that make the listening socket come before
  any state; when one fails `Start` returns, and nothing follows.
* `RegisterAccept`, `ProcessAccept` – as named. Whatever fails on the way, the
  socket's options, the peer's name, `AcceptEx` itself, ends in `RegisterAccept`
  with the same event. `ProcessAccept` goes through `ProcessConnect` of the
  session, so `onConnected` and `regRecv` come before the event is armed again.
* `ProcessConnect` – also of a connection that was refused: `IocpCore.cpp:40-44`
  dispatches a completion that failed like one that did not. Such a session is
  connected and not `linked`; its receive fails and it is told to nobody.
* `OnConnected`, `OnDisconnected` – the content enters and leaves
  `GSessionManager` under its lock. `Broadcast` holds that lock for the loop, so the
  loop is one step per session and `ManagerLocked` stops the other two.
* `ProcessDisconnect`, `ReleaseSession` – the content first, then the service.
* `CreateFails` – `IocpCore::Register` refuses the socket, `CreateSession` returns
  `nullptr`, and its callers dereference it (`Listener.cpp:73`).

`Free` are the objects nothing refers to any more: reference counting as the
factory sees it. `Disconnect` is one step with its `DisconnectEx`, and a send may
only fail; `TcpSession` has the details. The maximum number of sessions is
compared nowhere in the code, nor here: `RegisterAccept` makes a new session for
each round, so `count` is bounded by `Session` only.

### DeadLockProfiler and LockOrder

`names`, `history`, `lockStack` are `_idToName`, `_lockHistory` and `LLockStack`;
`guards` and `pc` are the threads' guards and whether one still spins for its lock.
`PushLock` is the whole function under the profiler's mutex, unless the history grew:
then `check` holds the thread, its guard and the new order, nobody else pushes or pops
(the mutex), and `CheckCycle` searches. `Acquire` is `Lock`, which the thread tries only
afterwards; threads that already spin go on getting their locks during a search.
`PopLock` comes before the release. Ids count from 1, where the code counts from 0.

`Dfs` is recursive; the model keeps its call stack the way the code's marks do.
`here` is the argument of the innermost call, `parent` leads to its callers, `todo`
holds what the loop over `nextSet` has yet to visit in each call (it visits the least
id first, as `set` does), `order`, `count`, `finished` are `_discoveredOrder`,
`_discoveredCount`, `_finished`. `DfsRoot` is a turn of the loop of `CheckCycle`,
`DfsNext` a turn of the loop of `Dfs`, `DfsReturn` its end, `PrintParent` a turn of
the loop that prints; `printed` are the lines. `CheckEnd` clears the marks and pushes.
For `LockOrder` the request is made when the search is over: `Settled` leaves out the
order that is still being searched.

`LockOrder` says what it is for: the process ends at the
first request that closes a circle of names, found by the definition of a circle
(a set in which each member has a successor) and not by a search.

The profiler knows a lock by the class it is in. Hence two things it cannot
see or sees too much of: threads that take two locks *of one class* in opposite
orders are not reported (`DeadlockIsReported` says so by asking for different
names), and a thread that takes A, then B, then A again, which the lock allows
as nesting, is reported as a circle A, B, A.

## 3. Runs

| Run | Properties | Shows |
|---|---|---|
| `registry` | `TypeOK` `OwnIdentity` `NoFreshEviction` `GhostOnlyFromStaleRelay` | two clients with different keys come, greet, move, expire and come back |
| `receive` | `OneReceive` `AckedToOwner` `ReplayOnlyAfterZero` | all kinds of packets, duplicated and reordered, from two addresses under one key |
| `live` | `SilentIsRemoved` `RemovedIsAnnounced` `ReceiveLoop` | progress under fair threads, with every kind of packet but MOVE |
| `lock` | `TypeOK` `Exclusion` `ImplementsShared` `WaitersEnter` | two threads with nested guards, at every atomic access; neither starves |
| `armory` | `TypeOK` `ChargedIsGranted` `HalfDoneOnce` `SuccessIsStored` | purchases and shots of two users with a connection that may be lost at any command |
| `tcp` | `TypeOK` `Hostages` `ReleasedOnce` `StrandedOnlyByFailure` `DeafOnlyByFailure` `ImplementsChannel` `QueuedIsSent` `DisconnectedIsReleased` | three threads, three buffers, every failure |
| `recv` | `TypeOK` `RoomToReceive` `CopyIsDisjoint` `ReceivesAgain` | every way to cut a stream of five sizes of packet into receives |
| `service` | `TypeOK` `SetsAgree` `IteratorValid` `ConnectedIsKnown` `EventsKept` `Rearmed` | a server or a client service, two workers, every failure |
| `profiler` | `TypeOK` `ImplementsOrder` `DeadlockIsReported` `PrintedIsCircle` | every order in which two threads nest three locks |
| `ghost`, `clash_identity`, `armory_errors` | one each | what a comment says and the code does not do, below |

**Bounds.** `registry`: two workers (at most one is ever busy, so a second one
is what shows that), two addresses, three sessions, so that a client can rejoin
while another is leaving; two instants and timeout 0, so that a client may be
silent, be refreshed at the last instant, or be judged by an old clock reading.
`receive`: sequences up to 2, needed for a reordered pair; one key for two
addresses. `live`: two sessions, two instants, timeout 0. `lock`: two
threads, two write guards deep, with a read guard inside or alone, which
makes two compare-exchanges, and count and owner, race, and nests write in write and
read in write (read in read is left to the theorems); `READ_COUNT_MASK` 2, exactly the number of read guards. The
theorems hold for any number of threads and guards. `armory`: weapons 2 and 4 of
the table with their prices and magazines and a type that is not in it; 800
dollars buy up to two weapons. `tcp`: three threads, so that one completes, one
sends and one disconnects at the same time; three buffers, one on its way, one
drained and one queued. `recv`: three buffers of seven bytes, a header of two;
sizes below a header, of a header alone, of a whole buffer, and between. Three is
the least `BUFFER_COUNT` for which the moved bytes cannot overlap (the code has
ten). `service`: two workers, so that one broadcasts or accepts while the
other disconnects; two accept events and three sessions, so that one is connected while
both events hold a session, and objects are made anew. `profiler`: three locks,
each in a class of its own, and depth 3, so that a circle of two and of three can
close, edges back and across occur, and a re-entry A, B, A; two threads suffice for an order to
come from another thread, and for a deadlock between two. The theorems remove the bounds
for everything in section 4. `CHECK_DEADLOCK FALSE` appears in `lock`, `profiler` and `service`,
where the process has ended after a crash, and in `tcp` and `recv`, where a
session that has ended is done. In `live` the cap of sessions and of the clock ends no
behaviour: the main thread always has a next round.

**Fairness.** Every worker and the main thread keep running (WF). `Register`
needs the write lock; the main thread holds a read lock only for a moment of
each one-second round and the worker spins for up to ten seconds, so it gets a
free moment infinitely often and takes it (SF). No fairness of the environment:
no datagram need ever arrive and the clock may stop. In `RWLock` steps of the
lock's code are fair; a waiter that spins thousands of times per yield also
tries while the lock is free (SF of the compare-exchange); guards' scopes end,
the outer scope of two as well: a thread that opens and closes inner guards for
ever must still be assumed to leave the outer one (`EndsRead(t, n)`, `EndsWrite(t, n)`).
Two threads is what the UDP server has: the main thread and the one busy worker.
With three threads two readers that overlap forever keep a writer out until
`WRITE_LOCK_TIMEOUT`; that is the code's design and no property claims otherwise.
In `TcpSession` calls under way are finished (WF), the session's lock, whose
holder never waits, is obtained (SF), and workers dequeue completed sends and
disconnects (WF), which the kernel completes at the latest when the connection
breaks. A posted receive need never complete. In `TcpService` calls are finished,
the manager's lock is obtained since every `Broadcast` ends (SF), the main thread
starts the listener, and `AcceptEx` does not fail for ever (SF of the attempts that
succeed): the code retries without end. In `RecvBuffer` the thread in
`ProcessRecv` keeps running.

**What the comments say and the code does not do.**

* `ghost` – `packetTypes.h:38` "클라이언트는 해당 sessionId 캐릭터 제거". A MOVE looked
  up before the removal is relayed after the LEAVE, and the character stays on
  the other screens. `GhostOnlyFromStaleRelay`, proved, says this is the only way.
* `clash_identity` – `UdpService.h:73` "충돌은 FindByAddr에서 이중 검사". `RegisterClient`
  compares keys only: two addresses under one key share a context.
* `armory_errors` – `RedisClient.h:30` "명령 실패 시 false". Error replies to `HSET`
  are printed and taken for success.
* Not a run: `UdpService.h:16` "마지막 패킷 수신 시각". Packets the filter drops do not
  refresh `lastAliveMs`, so a client that starts again from the same address with
  low sequences is removed while it talks. `Filter` and `HandleHeartbeat` show it.

## 4. Proofs

All theorems hold for every value of the constants under the named `ASSUME`s:
finite nonempty `Workers`, a hash into `Key`, natural bounds, distinct model
values, well-formed sets of failures; for the lock, thread ids distinct and positive, and no more guards than
the 16-bit count holds (`MaskAssumption`). Hypotheses of single theorems are named below.

`UdpLobbyProofs`. The inductive invariant is `TypeInv = TypeOK /\ Solo /\ Held`.
Types alone are not inductive: that a worker reads a packet, and holds a context,
depends on nobody else re-arming the receive. `Solo` says where the one receive
is (nowhere before `Start`; with the kernel or the port while all are idle; with
exactly one worker), `Held` what that worker may rely on. From it `TypeCorrect`,
`ReceiveIsSingle` (`OneReceive`) and `BufferIsStable` follow: the packet a worker
reads does not change under it (`BufferStable`, proved only). `RequestsDoNotOverlap`
proves the guard that `Begin` of `Armory` has: a packet is taken up while all workers are idle.

Its second part is about the registry and what is done with it. `RegistryInv` adds that registered ids were issued and have
addresses, and gives `MapsAlwaysAgree` for every hash; `AckReachesOwner` follows
the id through an acknowledgement; `ActsForSender` needs the extra assumption
that the hash is injective on `Addr`, and the run `clash_identity` shows it is
needed. `LeaveInv` records, per phase of the main thread, which ids are still
registered, removed, or announced: `GoneForGood` (`LeftForGood`) and `AnnouncedAtMostOnce`
(`AnnouncedOnce`), which, like `MapsAgree`, have no run beside their proofs.
`FreshIsNotCondemned` uses that Tick's reading is never ahead of the clock.
`GhostsAreStaleRelays` shows that a LEAVE broadcast misses no one. `HandledInOrder`
is about the duplicate filter: nothing that passed since the last 0 is ahead of the
`lastSeq` of its context (`Behind`), which needs that a worker holds issued contexts
only (`HoldsIssued`), since the next id issued starts again from 0.

`RWLockProofs`. `Inv` ties the owner half to write guards, the count half to the
number of read guards, `_writeCount` to the depth up to the lag at the first
lock and the last unlock, and says what each line of the code may rely on
(`Phase`). It gives `LockTypeCorrect`, `WriterIsAlone`, `FlagTellsTruth`,
`DisciplineIsEnough`, and `LockRefines`: every step is a step of `SharedLock` or
a stutter. `FlagAgrees` and `NoMisuse` are proved only.

`LockOrderProofs`. `DeadlocksAreReported` is about what the profiler promises: if
orders without a circle are all a process has seen, nobody waits in a circle.
`Recorded` strengthens it: for two different names one under the other on a
thread's stack there is an edge out of the lower one towards something between,
since the edge the profiler records is from the *last* lock only. A set of threads
waiting for each other then gives a set of names in which each has a successor, a
circle the request had to report.

`DeadLockProfilerProofs`. That `DeadLockProfiler.cpp` keeps this promise, for any graph
of orders. `Calls` says what the marks mean: the active ids (found, not finished) are
the calls of `Dfs` under way, each found by the one before it in discovery order, and
`here` is the last. `Visited` says what the loops have left behind: an active id leads
to what it has yet to visit, to finished ids or to its child; a finished id leads to
finished ids only, and no set of finished ids has a successor for each member. So when
all are finished there is no circle (`NoCircleLeft`). An edge to an id found before, which
is not finished, goes up the calls, and the calls between and that edge are a circle
(`PrintedOnACircle`); `Printing` says that the way back has not passed that id yet, so the
loop that prints meets it and never runs off the first parent. `Stacks` ties the profiler's
stack to the guards: `MULTIPLE_UNLOCK` and `INVALID_UNLOCK` never happen. `SearchIsRight`
is this invariant, `ProfilerIsTyped` and `CirclesArePrinted` (`PrintedIsCircle`) follow, and
`ProfilerKeepsOrder` is `ImplementsOrder`: the push without a search and the end of a search
are requests, a crash is a request that is reported, the rest of the search is a stutter.
Names stand for ids there, which is sound because a name has one id (`CircleOfNames`).
`ProfilerReportsDeadlock` puts `DeadlocksAreReported` on top (`OrderP` is `LockOrderProofs`
seen through the same mapping): no deadlock under different names goes unreported.

`RecvBufferProofs`. `Inv` adds to the types `Leftover`: outside `OnRecv` nothing
is half cut and what is left is shorter than one buffer, because a packet is. From
it follow `CursorsStayInside`, `AlwaysRoom`, `PacketsAreTaken` (`NothingHeldBack`) and, with at least
three buffers allocated (`BufferAssumption`), `CopiesAreDisjoint`. `size` may be 0
in the theorems; only termination of `OnRecv` needs it not to be.

`ArmoryProofs`. `TypeInv` adds to the types `Solo`, one request at a time, and
`Phase`, what a handler remembers between two commands: `BooksAreTyped` holds
whatever Redis replies, so no balance or magazine goes below zero. `Inv` adds
`Books` (while the connection lives, only the user of the purchase in progress is
owed something, and exactly its price once charged), `Progress` (which fields are
already in Redis at each command) and `Truth`. It gives `ChargesMatchGrants`,
`HalfDoneAtMostOnce` and `SuccessIsTrue` under one hypothesis, `NoErrors`: Redis
may answer, or not answer and have done it or not, but does not refuse a command.
The run `armory_errors` shows that `SuccessIsTrue` fails without it. What error replies
cannot spoil needs no hypothesis: `NoUpdateIsLost` says that a balance only ever moves by
the price of a weapon and an ammo by one shot or to a full supply (`ExactMoves`, proved
only), since what a handler read is still in Redis when it writes (`Fresh`).

`TcpServiceProofs`. `Slots` says that each accept event is in exactly one place, the
kernel or the `slot` of one thread, `Accepting` that no two events have the same
session. `Life` follows a session: while its connection is awaited nobody knows it;
while connected it is in both sets, or its `OnConnected` is under way with nobody else
at it; whoever takes it out is alone and finds it still in `sessions`. `Sending` ties
what `Broadcast` has left to the manager's lock. Together they give `NoEventIsLost`,
`TheSetsAgree`, `IteratorStaysValid`, `ConnectedStaysKnown` and `ReleaseNeverAsserts`,
which has no run beside its proof. That `Broadcast` is safe rests on that lock alone.

`TcpSessionProofs`. What a thread in `Disconnect` is doing is what it goes on with
afterwards (`Task`). `OneSender` gives `_sendRegistered` one owner: one thread
anywhere between setting and clearing it, or the kernel. `SendersBuffers` says what
that owner relies on, the queue not empty before it drains, the batch in the event
while it is sent; `OneReceiver` says the same of the receive event, `OneDisconnect` that
the exchange of `_connected` lets one thread through, and `Connecting` that nothing
happens before the connection is there. From these `HostagesAreKept`,
`SessionReleasedOnce`, and step by step `OnlyFailureStrands` and `OnlyFailureDeafens`:
the only steps that leave buffers without a sender, or a connection without a
receive, are those after a failed call. `SessionIsChannel` maps what `SendChannel`
calls pending to the batch on its way to `WSASend` followed by the queue.

Each inductive invariant was checked by TLC as an invariant of the runs' instances
before it was proved.

Only model-checked: the liveness properties (`SilentIsRemoved`, `RemovedIsAnnounced`,
`ReceiveLoop`, `WaitersEnter`, `QueuedIsSent`, `DisconnectedIsReleased`, `ReceivesAgain`,
`Rearmed`), which are beyond the prover. `DeadLockProfiler` states no liveness: that a
search ends is plain (each id is found once, each edge taken once) and is not proved.

## 5. Not modelled

* Layout of packets, readers and writers, `MakeShared`, logging: no property is
  about them.
* `RedisClient` against other writers of the same hashes, and malformed fields
  (`stoi` throws): outside this repository.
* A failing `UdpService::Start` (the process ends) and a failing set-up of the
  listening socket (`Start` returns).
* `CloseService` is empty. The packet handlers of the TCP content only print.
* Reference counting (`RefCounting.h`): no class derives from `RefCountable` and no code
  holds a `TSharedPtr`; the program uses `std::shared_ptr`, which the models take as
  "alive while referred to". (Read while deciding this: a `TSharedPtr` move-assigned
  to itself loses its pointer, and one made from a raw pointer leaves a count of 2.)
* Thread manager: `Launch`, `Join` and the id counter run at the start; the lock's
  model assumes what they establish, distinct ids that are not 0.
* Allocators, containers, socket helpers, global objects: no state of interest.

## 6. Plan

Done: `UdpLobby` (the running server) with its history; `RWLock` with `SharedLock`;
`Armory`; `TcpSession` with `SendChannel`; `TcpService`; `RecvBuffer`; `DeadLockProfiler`
with `LockOrder`; and the proofs of section 4. What would come next is a
refinement between `TcpService` and `TcpSession`: a session of the former as the latter
seen from its service.
