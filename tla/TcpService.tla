------------------------------ MODULE TcpService ------------------------------
(***************************************************************************)
(* A service of the TCP stack with its sessions: its start, the accept     *)
(* events that are armed again for ever, the two sets a session is in      *)
(* (Service::_sessions and GSessionManager) and Broadcast over the second. *)
(* A session is what TcpSession models from close by; Disconnect, with the *)
(* call of DisconnectEx in it, and a send are one step each here.          *)
(***************************************************************************)
EXTENDS Integers, FiniteSets

CONSTANTS Workers,         \* threads of the completion port
          Main,            \* the thread that calls Start
          Session,         \* bound: the session objects alive at a time
          NoSession,
          Types,           \* the kinds of service: "Server", "Client"
          MaxSessionCount, \* _maxSessionCount
          Failures         \* the calls that may fail at once

ASSUME WorkersAssumption  == IsFiniteSet(Workers) /\ Main \notin Workers
ASSUME SessionAssumption  == IsFiniteSet(Session) /\ NoSession \notin Session
ASSUME TypesAssumption    == Types \subseteq {"Server", "Client"}
ASSUME CountAssumption    == MaxSessionCount \in Nat
(* create: IocpCore::Register; reset and other: WSARecv, as in TcpSession. *)
ASSUME FailuresAssumption ==
    Failures \subseteq {"create", "accept", "connect", "reset", "other", "send", "disconnect"}

VARIABLES
    type,      \* _type
    started,   \* rounds of Start's loop begun
    accepting, \* per accept event: its session
    armed,     \* the accept events the kernel has
    posted,    \* per session: its events the kernel has
    connected, \* per session: _connected
    linked,    \* per session: the peer agreed to the connection
    sessions,  \* Service::_sessions
    count,     \* _sessionCount
    managed,   \* GameSessionManager::_sessions
    todo,      \* the sessions the Broadcast under way has still to send to
    pc,        \* per thread: where it is, with which accept event and session
    crashed    \* how the process ended

vars == <<type, started, accepting, armed, posted, connected, linked, sessions, count,
          managed, todo, pc, crashed>>

Thread == Workers \cup {Main}
Slot   == 1..MaxSessionCount
Event  == {"Connect", "Recv", "Disconnect"}
PC     == [at : {"idle", "accept", "onConnected", "regRecv", "onDisconnected", "release",
                 "broadcast"},
           slot : {0} \cup Slot, session : Session \cup {NoSession}]
Idle   == [at |-> "idle", slot |-> 0, session |-> NoSession]

At(t, l)           == pc[t].at = l /\ crashed = "no"
Goes(t, l, k, s)   == pc' = [pc EXCEPT ![t] = [at |-> l, slot |-> k, session |-> s]]
GoesOn(t, l)       == pc' = [pc EXCEPT ![t].at = l]
Returns(t)         == pc' = [pc EXCEPT ![t] = Idle]
ManagerLocked      == \E t \in Thread : pc[t].at = "broadcast"

(* Nothing refers to these any more, and the factory may make them anew.   *)
Free == {s \in Session \ (sessions \cup managed) :
            /\ posted[s] = {} /\ \A k \in Slot : accepting[k] # s
            /\ \A t \in Thread : pc[t].session # s}

sets == <<sessions, count, managed>>
boot == <<type, started>>
link == <<posted, connected, linked>>

Init ==
    /\ type \in Types /\ started = 0
    /\ accepting = [k \in Slot |-> NoSession] /\ armed = {}
    /\ posted = [s \in Session |-> {}]
    /\ connected = [s \in Session |-> FALSE] /\ linked = [s \in Session |-> FALSE]
    /\ sessions = {} /\ count = 0 /\ managed = {} /\ todo = {}
    /\ pc = [t \in Thread |-> Idle] /\ crashed = "no"

-----------------------------------------------------------------------------
(* CreateSession gives no session, and its callers use it all the same.    *)
CreateFails(t) ==
    /\ \/ At(t, "accept")
       \/ At(t, "idle") /\ t = Main /\ type = "Client" /\ started < MaxSessionCount
    /\ "create" \in Failures
    /\ crashed' = "nullptr"
    /\ UNCHANGED <<boot, accepting, armed, link, sets, todo, pc>>

(* A round of ClientService::Start; the first failure ends it.             *)
StartClient ==
    /\ At(Main, "idle") /\ type = "Client" /\ started < MaxSessionCount
    /\ \/ \E s \in Free :
            /\ posted' = [posted EXCEPT ![s] = {"Connect"}]
            /\ connected' = [connected EXCEPT ![s] = FALSE]
            /\ linked' = [linked EXCEPT ![s] = FALSE]
            /\ started' = started + 1
       \/ "connect" \in Failures /\ started' = MaxSessionCount /\ UNCHANGED link
    /\ UNCHANGED <<type, accepting, armed, sets, todo, pc, crashed>>

(* A round of Listener::StartAccept.                                       *)
StartAccept ==
    /\ At(Main, "idle") /\ type = "Server" /\ started < MaxSessionCount
    /\ started' = started + 1
    /\ Goes(Main, "accept", started', NoSession)
    /\ UNCHANGED <<type, accepting, armed, link, sets, todo, crashed>>

(* Faulty variant: an AcceptEx that fails is not tried again.              *)
GiveUp(t) == Returns(t)

(* RegisterAccept calls itself.                                            *)
Retry(t) == UNCHANGED pc

(* A session for the accept event, which lets go of its last one.          *)
RegisterAccept(t) ==
    /\ At(t, "accept")
    /\ \E s \in Free :
        /\ accepting' = [accepting EXCEPT ![pc[t].slot] = s]
        /\ connected' = [connected EXCEPT ![s] = FALSE]
        /\ linked' = [linked EXCEPT ![s] = FALSE]
    /\ \/ armed' = armed \cup {pc[t].slot} /\ Returns(t)
       \/ "accept" \in Failures /\ Retry(t) /\ UNCHANGED armed
    /\ UNCHANGED <<boot, posted, sets, todo, crashed>>

-----------------------------------------------------------------------------
(* ProcessConnect up to OnConnected: nobody else knows the session yet.    *)
Connects(t, s) ==
    /\ connected' = [connected EXCEPT ![s] = TRUE]
    /\ sessions' = sessions \cup {s}
    /\ count' = count + 1

(* ProcessAccept: the socket takes over the listener's options, the peer   *)
(* has a name, or else the event is armed again.                           *)
ProcessAccept(t, k) ==
    /\ At(t, "idle") /\ t # Main /\ k \in armed
    /\ armed' = armed \ {k}
    /\ \/ /\ linked' = [linked EXCEPT ![accepting[k]] = TRUE]
          /\ Connects(t, accepting[k])
          /\ Goes(t, "onConnected", k, accepting[k])
       \/ Goes(t, "accept", k, NoSession) /\ UNCHANGED <<connected, linked, sessions, count>>
    /\ UNCHANGED <<boot, accepting, posted, managed, todo, crashed>>

(* Dispatch of a connect event, whether the peer agreed or refused.        *)
ProcessConnect(t, s) ==
    /\ At(t, "idle") /\ t # Main /\ "Connect" \in posted[s]
    /\ posted' = [posted EXCEPT ![s] = @ \ {"Connect"}]
    /\ linked' \in {linked, [linked EXCEPT ![s] = TRUE]}
    /\ Connects(t, s)
    /\ Goes(t, "onConnected", 0, s)
    /\ UNCHANGED <<boot, accepting, armed, managed, todo, crashed>>

(* GameSession::OnConnected, GSessionManager.Add.                          *)
OnConnected(t) ==
    /\ At(t, "onConnected") /\ ~ManagerLocked
    /\ managed' = managed \cup {pc[t].session}
    /\ GoesOn(t, "regRecv")
    /\ UNCHANGED <<boot, accepting, armed, link, sessions, count, todo, crashed>>

(* Disconnect(s) with ps the events of the kernel: the first call starts   *)
(* DisconnectEx, which needs a connection.                                 *)
Disconnecting(s, ps) ==
    \/ connected[s] /\ linked[s] /\ posted' = [ps EXCEPT ![s] = @ \cup {"Disconnect"}]
    \/ (connected[s] /\ linked[s] => "disconnect" \in Failures) /\ posted' = ps

(* Faulty variant: the flag is only read.                                  *)
DisconnectsAgain(s, ps) == Disconnecting(s, ps) /\ UNCHANGED connected

Disconnects(s, ps) ==
    Disconnecting(s, ps) /\ connected' = [connected EXCEPT ![s] = FALSE]

(* Faulty variants: the event is not armed again; it always is.            *)
AfterRecvReturns(t) == Returns(t)
AfterRecvAccepts(t) == Goes(t, "accept", pc[t].slot, NoSession)

(* After RegisterRecv a worker that accepted arms the event again.         *)
AfterRecv(t) ==
    IF pc[t].slot = 0 THEN Returns(t) ELSE Goes(t, "accept", pc[t].slot, NoSession)

RegisterRecv(t) ==
    /\ At(t, "regRecv") /\ AfterRecv(t)
    /\ LET s == pc[t].session
       IN  \/ ~connected[s] /\ UNCHANGED <<posted, connected>>
           \/ connected[s] /\ linked[s]
                /\ posted' = [posted EXCEPT ![s] = @ \cup {"Recv"}] /\ UNCHANGED connected
           \/ connected[s] /\ "reset" \in Failures /\ Disconnects(s, posted)
           \/ connected[s] /\ ("other" \in Failures \/ ~linked[s])
                /\ UNCHANGED <<posted, connected>>
    /\ UNCHANGED <<boot, accepting, armed, linked, sets, todo, crashed>>

(* ProcessRecv: bytes, and the next receive; or the end.                   *)
ProcessRecv(t, s) ==
    /\ At(t, "idle") /\ t # Main /\ "Recv" \in posted[s]
    /\ LET ps == [posted EXCEPT ![s] = @ \ {"Recv"}]
       IN  \/ Disconnects(s, ps) /\ UNCHANGED pc
           \/ posted' = ps /\ Goes(t, "regRecv", 0, s) /\ UNCHANGED connected
    /\ UNCHANGED <<boot, accepting, armed, linked, sets, todo, crashed>>

(* The content ends a connection it knows.                                 *)
CallDisconnect(t, s) ==
    /\ At(t, "idle") /\ t # Main /\ s \in managed /\ connected[s]
    /\ Disconnects(s, posted)
    /\ UNCHANGED <<boot, accepting, armed, linked, sets, todo, pc, crashed>>

(* Faulty variant of TellsContent: the service at once.                    *)
Untold(t, s) == Goes(t, "release", 0, s)

(* ProcessDisconnect tells the content first.                              *)
TellsContent(t, s) == Goes(t, "onDisconnected", 0, s)

ProcessDisconnect(t, s) ==
    /\ At(t, "idle") /\ t # Main /\ "Disconnect" \in posted[s]
    /\ posted' = [posted EXCEPT ![s] = @ \ {"Disconnect"}]
    /\ TellsContent(t, s)
    /\ UNCHANGED <<boot, accepting, armed, connected, linked, sets, todo, crashed>>

(* Faulty variant of RemoveLocks: without the lock.                        *)
RemoveAnyway == TRUE

(* GameSessionManager::Remove waits for the write lock.                    *)
RemoveLocks == ~ManagerLocked

(* GameSession::OnDisconnected, GSessionManager.Remove.                    *)
OnDisconnected(t) ==
    /\ At(t, "onDisconnected") /\ RemoveLocks
    /\ managed' = managed \ {pc[t].session}
    /\ GoesOn(t, "release")
    /\ UNCHANGED <<boot, accepting, armed, link, sessions, count, todo, crashed>>

(* ReleaseSession, which asserts that it erased one.                       *)
ReleaseSession(t) ==
    /\ At(t, "release")
    /\ IF pc[t].session \in sessions
       THEN /\ sessions' = sessions \ {pc[t].session} /\ count' = count - 1
            /\ Returns(t) /\ UNCHANGED crashed
       ELSE crashed' = "assert" /\ UNCHANGED <<sessions, count, pc>>
    /\ UNCHANGED <<boot, accepting, armed, link, managed, todo>>

-----------------------------------------------------------------------------
(* Broadcast, a session at a time, under the manager's lock.               *)
Broadcast(t) ==
    /\ At(t, "idle") /\ t # Main /\ ~ManagerLocked
    /\ todo' = managed
    /\ GoesOn(t, "broadcast")
    /\ UNCHANGED <<boot, accepting, armed, link, sets, crashed>>

SendOne(t) ==
    /\ At(t, "broadcast")
    /\ \E s \in todo :
        /\ todo' = todo \ {s}
        /\ \/ UNCHANGED <<posted, connected>>
           \/ "send" \in Failures /\ connected[s] /\ linked[s] /\ Disconnects(s, posted)
    /\ UNCHANGED <<boot, accepting, armed, linked, sets, pc, crashed>>

EndBroadcast(t) ==
    /\ At(t, "broadcast") /\ todo = {}
    /\ Returns(t)
    /\ UNCHANGED <<boot, accepting, armed, link, sets, todo, crashed>>

-----------------------------------------------------------------------------
(* The steps of a thread in a call, but for those that need the lock.      *)
Inside(t) == RegisterAccept(t) \/ RegisterRecv(t) \/ ReleaseSession(t) \/ SendOne(t)
             \/ EndBroadcast(t)

Locking(t) == OnConnected(t) \/ OnDisconnected(t)

Dequeue(t) == \/ \E k \in Slot : ProcessAccept(t, k)
              \/ \E s \in Session :
                    ProcessConnect(t, s) \/ ProcessRecv(t, s) \/ ProcessDisconnect(t, s)

Call(t) == Broadcast(t) \/ CreateFails(t) \/ \E s \in Session : CallDisconnect(t, s)

Next == StartClient \/ StartAccept
        \/ \E t \in Thread : Inside(t) \/ Locking(t) \/ Dequeue(t) \/ Call(t)

Spec == Init /\ [][Next]_vars

(* A worker's call is finished; it obtains the manager's lock, since every *)
(* Broadcast ends; AcceptEx does not fail for ever.                        *)
Arms(t)  == RegisterAccept(t) /\ armed' # armed
Fairness ==
    /\ \A t \in Workers : WF_vars(Inside(t)) /\ SF_vars(Locking(t))
    /\ \A t \in Thread : SF_vars(Arms(t))
    /\ WF_vars(StartAccept)

FairSpec == Spec /\ Fairness

-----------------------------------------------------------------------------
TypeOK ==
    /\ type \in Types /\ started \in 0..MaxSessionCount
    /\ accepting \in [Slot -> Session \cup {NoSession}] /\ armed \subseteq Slot
    /\ posted \in [Session -> SUBSET Event]
    /\ connected \in [Session -> BOOLEAN] /\ linked \in [Session -> BOOLEAN]
    /\ sessions \subseteq Session /\ count \in Nat /\ managed \subseteq Session
    /\ todo \subseteq Session /\ pc \in [Thread -> PC]
    /\ crashed \in {"no", "nullptr", "assert"}

(* No session stays in GSessionManager, to be sent to for ever, once the   *)
(* service has released it; _sessionCount is the number of sessions.       *)
SetsAgree == managed \subseteq sessions /\ count = Cardinality(sessions)

(* The set Broadcast iterates over keeps the elements it has yet to visit, *)
(* whatever is removed meanwhile.                                          *)
IteratorValid == todo \subseteq managed

(* A connected session is one that Broadcast reaches, or is about to be.   *)
ConnectedIsKnown ==
    \A s \in Session : connected[s] =>
        s \in managed \/ \E t \in Thread : pc[t].at = "onConnected" /\ pc[t].session = s

(* Each accept event is with the kernel or with one thread that is going   *)
(* to arm it: AcceptEx never gets an OVERLAPPED that is in use, and none   *)
(* is lost ("must not break off", Listener.cpp:78).                        *)
EventsKept ==
    type = "Server" => \A k \in 1..started :
        Cardinality({t \in Thread : pc[t].slot = k}) = (IF k \in armed THEN 0 ELSE 1)

(* The listener goes on accepting, however often AcceptEx, the options of  *)
(* the socket or a receive fail (Free is empty at the bound only).         *)
Rearmed ==
    type = "Server" => \A k \in Slot :
        []<>(k \in armed \/ Free = {} \/ crashed # "no")
=============================================================================
