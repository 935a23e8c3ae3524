----------------------------- MODULE TcpSession -----------------------------
(***************************************************************************)
(* One Session of the TCP stack, from the completion of its connect (or    *)
(* accept) to its release: threads of the completion port process its      *)
(* events while any thread calls Send and Disconnect.  One step per atomic *)
(* variable accessed, critical section or call into WinSock.               *)
(*                                                                         *)
(* A completion is dequeued by an idle thread at any time after the event  *)
(* was posted, with bytes or with none.  That it waits on the port first   *)
(* changes nothing the session can see.                                    *)
(***************************************************************************)
EXTENDS Integers, Sequences, FiniteSets

CONSTANTS Threads,  \* threads that run Dispatch or call the session
          NoThread, \* nobody has the session's lock
          Failures, \* the calls into WinSock that may fail at once
          MaxSends  \* bound: calls of Send

ASSUME ThreadsAssumption  == IsFiniteSet(Threads) /\ NoThread \notin Threads
ASSUME SendsAssumption    == MaxSends \in Nat
(* Reset: WSAECONNRESET or WSAECONNABORTED; Other: every other error.      *)
ASSUME FailuresAssumption ==
    Failures \subseteq {"sendReset", "sendOther", "recvReset", "recvOther", "disconnect"}

VARIABLES
    connected,   \* _connected
    registered,  \* _sendRegistered
    queue,       \* _sendQueue, as buffer numbers
    sendBuffers, \* _sendEvent.sendBuffers
    holder,      \* the thread inside the lock between two steps
    posted,      \* per event: operations the kernel has it for
    owner,       \* per event: its owner is set
    member,      \* the session is in Service::_sessions
    told,        \* the content's last notification
    crashed,     \* an ASSERT_CRASH failed
    pc, ret,     \* per thread: where it is, and where Disconnect returns to
    accepted,    \* number of buffers queued so far
    wire         \* buffers given to WSASend, in order

vars == <<connected, registered, queue, sendBuffers, holder, posted, owner, member,
          told, crashed, pc, ret, accepted, wire>>

Event  == {"Connect", "Disconnect", "Recv", "Send"}
PC     == {"idle", "push", "regSend", "drain", "wsaSend", "clear", "unregister", "sent",
           "regRecv", "wsaRecv", "recvFailed", "disconnect", "regDisconnect"}
Buffer == 1..MaxSends

At(t, l)   == pc[t] = l /\ ~crashed
Goto(t, l) == pc' = [pc EXCEPT ![t] = l]

(* HandleError and Disconnect return to l.                                 *)
Disconnects(t, l) == Goto(t, "disconnect") /\ ret' = [ret EXCEPT ![t] = l]

(* The end of ProcessSend's scope, or of a call that did not take the lock.*)
Unlocks(t) == holder' = IF holder = t THEN NoThread ELSE holder

Init ==
    /\ connected = FALSE /\ registered = FALSE
    /\ queue = <<>> /\ sendBuffers = <<>> /\ holder = NoThread
    /\ posted = [e \in Event |-> IF e = "Connect" THEN 1 ELSE 0]
    /\ owner = [e \in Event |-> e = "Connect"]
    /\ member = FALSE /\ told = "nothing" /\ crashed = FALSE
    /\ pc = [t \in Threads |-> "idle"] /\ ret = [t \in Threads |-> "idle"]
    /\ accepted = 0 /\ wire = <<>>

sending == <<registered, queue, sendBuffers, holder, accepted, wire>>
life    == <<member, told, crashed>>

-----------------------------------------------------------------------------
(* Send.  Others know the session once OnConnected has run.                *)

Calls == accepted + Cardinality({t \in Threads : pc[t] = "push"})

Send(t) ==
    /\ At(t, "idle") /\ told # "nothing" /\ Calls < MaxSends
    /\ connected
    /\ Goto(t, "push")
    /\ UNCHANGED <<connected, sending, posted, owner, life, ret>>

(* Faulty variant of Claims: the flag is not looked at.                    *)
ClaimsAlways(t) == Goto(t, "regSend")

(* Who finds the flag unset goes on to RegisterSend.                       *)
Claims(t) == Goto(t, IF registered THEN "idle" ELSE "regSend")

Push(t) ==
    /\ At(t, "push") /\ holder = NoThread
    /\ accepted' = accepted + 1
    /\ queue' = Append(queue, accepted')
    /\ registered' = TRUE
    /\ Claims(t)
    /\ UNCHANGED <<connected, sendBuffers, holder, posted, owner, life, ret, wire>>

(* RegisterSend: without a connection it returns and leaves the flag set.  *)
RegisterSend(t) ==
    /\ At(t, "regSend")
    /\ IF connected
       THEN owner' = [owner EXCEPT !["Send"] = TRUE] /\ Goto(t, "drain") /\ UNCHANGED holder
       ELSE Goto(t, "idle") /\ Unlocks(t) /\ UNCHANGED owner
    /\ UNCHANGED <<connected, registered, queue, sendBuffers, posted, life, ret, accepted, wire>>

Drain(t) ==
    /\ At(t, "drain") /\ holder \in {NoThread, t}
    /\ sendBuffers' = sendBuffers \o queue
    /\ queue' = <<>>
    /\ Goto(t, "wsaSend")
    /\ UNCHANGED <<connected, registered, holder, posted, owner, life, ret, accepted, wire>>

(* WSASend takes the buffers, now or later.                                *)
WsaSend(t) ==
    /\ At(t, "wsaSend")
    /\ posted' = [posted EXCEPT !["Send"] = @ + 1]
    /\ wire' = wire \o sendBuffers
    /\ Goto(t, "idle") /\ Unlocks(t)
    /\ UNCHANGED <<connected, registered, queue, sendBuffers, owner, life, ret, accepted>>

(* Faulty variant of StaysRegistered: the flag is cleared first, not last. *)
UnregistersFirst == registered' = FALSE

StaysRegistered == UNCHANGED registered

WsaSendFails(t) ==
    /\ At(t, "wsaSend")
    /\ \/ "sendReset" \in Failures /\ Disconnects(t, "clear")
       \/ "sendOther" \in Failures /\ Goto(t, "clear") /\ UNCHANGED ret
    /\ StaysRegistered
    /\ UNCHANGED <<connected, queue, sendBuffers, holder, posted, owner, life, accepted, wire>>

Clear(t) ==
    /\ At(t, "clear")
    /\ owner' = [owner EXCEPT !["Send"] = FALSE]
    /\ sendBuffers' = <<>>
    /\ Goto(t, "unregister")
    /\ UNCHANGED <<connected, registered, queue, holder, posted, life, ret, accepted, wire>>

(* The store that ends a failed RegisterSend: the lock is held only if     *)
(* ProcessSend called, and what was queued meanwhile is not looked at.     *)
Unregister(t) ==
    /\ At(t, "unregister")
    /\ registered' = FALSE
    /\ Goto(t, "idle") /\ Unlocks(t)
    /\ UNCHANGED <<connected, queue, sendBuffers, posted, owner, life, ret, accepted, wire>>

(* Faulty variant of LetsGo: the buffers are kept.                         *)
Keeps == UNCHANGED sendBuffers

LetsGo == sendBuffers' = <<>>

(* ProcessSend up to its lock, with no bytes or with some.                 *)
ProcessSend(t) ==
    /\ At(t, "idle") /\ posted["Send"] > 0
    /\ posted' = [posted EXCEPT !["Send"] = @ - 1]
    /\ owner' = [owner EXCEPT !["Send"] = FALSE]
    /\ LetsGo
    /\ \/ Disconnects(t, "idle")
       \/ Goto(t, "sent") /\ UNCHANGED ret
    /\ UNCHANGED <<connected, registered, queue, holder, life, accepted, wire>>

(* Faulty variants: the flag is cleared whatever is queued; it is never.   *)
NothingElse == TRUE
FlagStays   == UNCHANGED registered

NothingQueued == queue = <<>>
ClearsFlag    == registered' = FALSE

(* The rest of it: the lock is kept through RegisterSend.                  *)
Sent(t) ==
    /\ At(t, "sent") /\ holder = NoThread
    /\ \/ NothingQueued /\ ClearsFlag /\ Goto(t, "idle") /\ UNCHANGED holder
       \/ ~NothingQueued /\ holder' = t /\ Goto(t, "regSend") /\ UNCHANGED registered
    /\ UNCHANGED <<connected, queue, sendBuffers, posted, owner, life, ret, accepted, wire>>

-----------------------------------------------------------------------------
(* Connection.                                                             *)

(* ProcessConnect up to RegisterRecv.  Until OnConnected makes the session *)
(* known no other thread touches it.                                       *)
ProcessConnect(t) ==
    /\ At(t, "idle") /\ posted["Connect"] > 0
    /\ posted' = [posted EXCEPT !["Connect"] = @ - 1]
    /\ owner' = [owner EXCEPT !["Connect"] = FALSE]
    /\ connected' = TRUE
    /\ member' = TRUE
    /\ told' = "connected"
    /\ Goto(t, "regRecv")
    /\ UNCHANGED <<sending, crashed, ret>>

RegisterRecv(t) ==
    /\ At(t, "regRecv")
    /\ IF connected THEN owner' = [owner EXCEPT !["Recv"] = TRUE] /\ Goto(t, "wsaRecv")
                    ELSE Goto(t, "idle") /\ UNCHANGED owner
    /\ UNCHANGED <<connected, sending, posted, life, ret>>

WsaRecv(t) ==
    /\ At(t, "wsaRecv")
    /\ \/ /\ posted' = [posted EXCEPT !["Recv"] = @ + 1]
          /\ Goto(t, "idle") /\ UNCHANGED ret
       \/ "recvReset" \in Failures /\ Disconnects(t, "recvFailed") /\ UNCHANGED posted
       \/ "recvOther" \in Failures /\ Goto(t, "recvFailed") /\ UNCHANGED <<posted, ret>>
    /\ UNCHANGED <<connected, sending, owner, life>>

RecvFailed(t) ==
    /\ At(t, "recvFailed")
    /\ owner' = [owner EXCEPT !["Recv"] = FALSE]
    /\ Goto(t, "idle")
    /\ UNCHANGED <<connected, sending, posted, life, ret>>

(* Faulty variant of Refuses: the connection stays.                        *)
RefusesOnly(t) == Goto(t, "idle") /\ UNCHANGED ret

(* No bytes, or more than the buffer or the packet format allow: the end   *)
(* of the connection.                                                      *)
Refuses(t) == Disconnects(t, "idle")

ProcessRecv(t) ==
    /\ At(t, "idle") /\ posted["Recv"] > 0
    /\ posted' = [posted EXCEPT !["Recv"] = @ - 1]
    /\ owner' = [owner EXCEPT !["Recv"] = FALSE]
    /\ \/ Refuses(t)
       \/ Goto(t, "regRecv") /\ UNCHANGED ret
    /\ UNCHANGED <<connected, sending, life>>

(* A thread that knows the session ends the connection.                    *)
CallDisconnect(t) ==
    /\ At(t, "idle") /\ told # "nothing" /\ connected
    /\ Disconnects(t, "idle")
    /\ UNCHANGED <<connected, sending, posted, owner, life>>

(* Return to the caller of Disconnect.                                     *)
Return(t) == Goto(t, ret[t]) /\ ret' = [ret EXCEPT ![t] = "idle"]

(* Faulty variant of IsFirst: everyone disconnects.                        *)
IsAnyone == TRUE

(* The exchange tells one caller that it was connected.                    *)
IsFirst == connected

Disconnect(t) ==
    /\ At(t, "disconnect")
    /\ IF IsFirst THEN Goto(t, "regDisconnect") /\ UNCHANGED ret ELSE Return(t)
    /\ connected' = FALSE
    /\ UNCHANGED <<sending, posted, owner, life>>

(* RegisterDisconnect; nobody looks at its result.                         *)
RegisterDisconnect(t) ==
    /\ At(t, "regDisconnect")
    /\ \/ /\ posted' = [posted EXCEPT !["Disconnect"] = @ + 1]
          /\ owner' = [owner EXCEPT !["Disconnect"] = TRUE]
       \/ "disconnect" \in Failures /\ UNCHANGED <<posted, owner>>
    /\ Return(t)
    /\ UNCHANGED <<connected, sending, life>>

(* Faulty variant of Releases: the session stays in the service.           *)
ReleasesNot == UNCHANGED member

Releases == member' = FALSE

(* ProcessDisconnect and ReleaseSession, which asserts that it erased one. *)
ProcessDisconnect(t) ==
    /\ At(t, "idle") /\ posted["Disconnect"] > 0
    /\ posted' = [posted EXCEPT !["Disconnect"] = @ - 1]
    /\ owner' = [owner EXCEPT !["Disconnect"] = FALSE]
    /\ told' = "disconnected"
    /\ crashed' = ~member
    /\ Releases
    /\ UNCHANGED <<connected, sending, pc, ret>>

-----------------------------------------------------------------------------
(* The steps of a call under way, but for those that wait for the lock.    *)
Inside(t) ==
    \/ RegisterSend(t) \/ WsaSend(t) \/ WsaSendFails(t) \/ Clear(t) \/ Unregister(t)
    \/ RegisterRecv(t) \/ WsaRecv(t) \/ RecvFailed(t)
    \/ Disconnect(t) \/ RegisterDisconnect(t)

Locking(t)    == Push(t) \/ Drain(t) \/ Sent(t)
Completion(t) == ProcessSend(t) \/ ProcessConnect(t) \/ ProcessRecv(t) \/ ProcessDisconnect(t)
Call(t)       == Send(t) \/ CallDisconnect(t)

Next == \E t \in Threads : Inside(t) \/ Locking(t) \/ Completion(t) \/ Call(t)

Spec == Init /\ [][Next]_vars

(* A call under way is finished; the lock is free again and again, since   *)
(* its holder never waits; a thread of the port dequeues what completed.   *)
(* The kernel completes a disconnect, and a send: if the peer reads no     *)
(* more, when the connection breaks.  A receive may stay posted forever.   *)
Fairness ==
    /\ \A t \in Threads : WF_vars(Inside(t)) /\ SF_vars(Locking(t))
    /\ WF_vars(\E t \in Threads : ProcessSend(t))
    /\ WF_vars(\E t \in Threads : ProcessDisconnect(t))

FairSpec == Spec /\ Fairness

-----------------------------------------------------------------------------
(* Types; an event, being one OVERLAPPED, serves one operation at a time:  *)
(* _sendRegistered keeps a second WSASend from using _sendEvent.           *)
TypeOK ==
    /\ connected \in BOOLEAN /\ registered \in BOOLEAN /\ member \in BOOLEAN
    /\ crashed \in BOOLEAN /\ told \in {"nothing", "connected", "disconnected"}
    /\ queue \in Seq(Buffer) /\ sendBuffers \in Seq(Buffer) /\ wire \in Seq(Buffer)
    /\ holder \in Threads \cup {NoThread}
    /\ posted \in [Event -> 0..1] /\ owner \in [Event -> BOOLEAN]
    /\ pc \in [Threads -> PC] /\ ret \in [Threads -> PC] /\ accepted \in 0..MaxSends

(* What the kernel works with stays alive (Session.cpp:133 and :177, "must *)
(* never vanish"): the session through the event's owner, and the buffers  *)
(* of a send through the event, these and no others.                       *)
Hostages ==
    /\ \A e \in Event : posted[e] > 0 => owner[e]
    /\ posted["Send"] > 0 =>
           /\ Len(sendBuffers) \in 1..Len(wire)
           /\ sendBuffers = SubSeq(wire, Len(wire) - Len(sendBuffers) + 1, Len(wire))

(* The release of a session finds it in the service (the assertion of      *)
(* ReleaseSession): the content is told of one disconnect, after connect.  *)
ReleasedOnce == ~crashed

(* Buffers nobody is going to send until someone calls Send again.         *)
Stranded == connected /\ queue # <<>> /\ ~registered

(* A queued buffer is left behind only by a call of WSASend that failed at *)
(* once: no interleaving of Send with completions loses the wake-up.       *)
StrandedOnlyByFailure ==
    [][~Stranded /\ Stranded' =>
          \E t \in Threads : pc[t] = "unregister" /\ pc'[t] = "idle"]_vars

(* A connected session without a receive that could notice the end: none   *)
(* posted, none about to be, and no thread about to disconnect it.         *)
Deaf ==
    /\ connected /\ posted["Recv"] = 0
    /\ \A t \in Threads : pc[t] \notin {"regRecv", "wsaRecv", "recvFailed", "disconnect"}

(* A connection stops receiving only when WSARecv fails with an error that *)
(* HandleError does not take for the end of the connection.                *)
DeafOnlyByFailure ==
    [][~Deaf /\ Deaf' =>
          \E t \in Threads : pc[t] = "recvFailed" /\ pc'[t] = "idle"]_vars

(* Buffers drained and not yet given to WSASend.                           *)
Batch == IF \E t \in Threads : pc[t] = "wsaSend" THEN sendBuffers ELSE <<>>

Channel == INSTANCE SendChannel WITH Buffers <- Buffer, pending <- Batch \o queue

(* Send keeps the promise of SendChannel.                                  *)
ImplementsChannel == Channel!ChannelSpec

Queued(b) == \E i \in 1..Len(queue) : queue[i] = b

(* A queued buffer is sent, unless the connection ends or a failure        *)
(* strands it.                                                             *)
QueuedIsSent ==
    \A b \in Buffer : Queued(b) ~> ~Queued(b) \/ ~connected \/ Stranded

(* DisconnectEx failed at once, and nothing is left that could release.    *)
Abandoned ==
    member /\ ~connected /\ told = "connected" /\ posted["Disconnect"] = 0
    /\ \A t \in Threads : pc[t] # "regDisconnect"

(* A session that is disconnected is released, unless DisconnectEx failed. *)
DisconnectedIsReleased == member /\ ~connected ~> ~member \/ Abandoned
=============================================================================
