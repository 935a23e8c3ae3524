--------------------------- MODULE TcpSessionProofs ---------------------------
(***************************************************************************)
(* TcpSession for any threads, failures and number of sends: it implements *)
(* SendChannel, an event serves one operation at a time and stays alive    *)
(* with its buffers, one disconnect releases the session, and only the two *)
(* known failures leave buffers or a receive behind.                       *)
(***************************************************************************)
EXTENDS TcpSession, FiniteSetTheorems, SequenceTheorems, TLAPS

Disconnecting == {"disconnect", "regDisconnect"}

(* What a thread is doing, or goes on with when Disconnect returns.        *)
Task(t) == IF pc[t] \in Disconnecting THEN ret[t] ELSE pc[t]

SendTask == {"regSend", "drain", "wsaSend", "clear", "unregister", "sent"}
RecvTask == {"regRecv", "wsaRecv", "recvFailed"}

Calling ==
    /\ Calls <= MaxSends
    /\ \A t \in Threads : ret[t] \in {"idle", "clear", "recvFailed"}

(* Before the connect completes nobody does anything.                      *)
Connecting ==
    posted["Connect"] > 0 =>
        /\ owner["Connect"] /\ told = "nothing" /\ queue = <<>>
        /\ \A t \in Threads : pc[t] = "idle"
        /\ \A e \in Event \ {"Connect"} : posted[e] = 0

(* _sendRegistered has one owner: a thread, the kernel, or after the       *)
(* connection nobody.                                                      *)
OneSender ==
    /\ \A t \in Threads : Task(t) \in SendTask => registered /\ posted["Send"] = 0
    /\ posted["Send"] > 0 => registered
    /\ \A t, u \in Threads : Task(t) \in SendTask /\ Task(u) \in SendTask => t = u
    /\ \A t \in Threads : holder = t => Task(t) \in SendTask \ {"sent"}

UpTo(s, n) == \A i \in 1..Len(s) : s[i] <= n

(* What the owner of the flag relies on, and the kernel.  No buffer has a  *)
(* number that is yet to be given.                                         *)
SendersBuffers ==
    /\ UpTo(queue, accepted) /\ UpTo(sendBuffers, accepted) /\ UpTo(wire, accepted)
    /\ \A t \in Threads : Task(t) \in {"regSend", "drain"} => queue # <<>>
    /\ \A t \in Threads : Task(t) \in {"drain", "wsaSend"} => owner["Send"]
    /\ \A t \in Threads : Task(t) = "wsaSend" => sendBuffers # <<>>
    /\ sendBuffers # <<>> =>
          posted["Send"] > 0 \/ \E t \in Threads : Task(t) \in {"wsaSend", "clear"}
    /\ posted["Send"] > 0 =>
          /\ owner["Send"] /\ Len(sendBuffers) \in 1..Len(wire)
          /\ sendBuffers = SubSeq(wire, Len(wire) - Len(sendBuffers) + 1, Len(wire))

OneReceiver ==
    /\ \A t \in Threads : Task(t) \in RecvTask => posted["Recv"] = 0
    /\ \A t, u \in Threads : Task(t) \in RecvTask /\ Task(u) \in RecvTask => t = u
    /\ \A t \in Threads : Task(t) = "wsaRecv" => owner["Recv"]
    /\ posted["Recv"] > 0 => owner["Recv"]

(* One exchange finds the session connected, and one event releases it.    *)
OneDisconnect ==
    /\ connected => /\ member /\ posted["Disconnect"] = 0
                    /\ \A t \in Threads : pc[t] # "regDisconnect"
    /\ posted["Disconnect"] > 0 => member /\ owner["Disconnect"]
    /\ \A t \in Threads : pc[t] = "regDisconnect" => member /\ posted["Disconnect"] = 0
    /\ \A t, u \in Threads : pc[t] = "regDisconnect" /\ pc[u] = "regDisconnect" => t = u

Inv == /\ TypeOK /\ Calling /\ Connecting /\ OneSender /\ SendersBuffers
       /\ OneReceiver /\ OneDisconnect /\ ~crashed

-----------------------------------------------------------------------------
LEMMA InitInv == Init => Inv
<1>. SUFFICES ASSUME Init  PROVE Inv
  OBVIOUS
<1>. USE DEF Init
<1>1. \A t \in Threads : pc[t] = "idle" /\ ret[t] = "idle" /\ Task(t) = "idle"
  BY DEF Task, Disconnecting
<1>2. /\ posted["Connect"] = 1 /\ owner["Connect"]
      /\ \A e \in Event \ {"Connect"} : posted[e] = 0
  BY DEF Event
<1>3. TypeOK
  <2>1. <<>> \in Seq(Buffer)
    OBVIOUS
  <2>2. posted \in [Event -> 0..1] /\ owner \in [Event -> BOOLEAN]
    OBVIOUS
  <2>3. pc \in [Threads -> PC] /\ ret \in [Threads -> PC] /\ accepted \in 0..MaxSends
    BY SendsAssumption DEF PC
  <2>. QED
    BY <2>1, <2>2, <2>3 DEF TypeOK
<1>4. Calling
  <2>1. {t \in Threads : pc[t] = "push"} = {}
    BY <1>1
  <2>2. Calls = 0
    BY <2>1, FS_EmptySet DEF Calls
  <2>. QED
    BY <1>1, <2>2, SendsAssumption DEF Calling
<1>5. Connecting
  BY <1>1, <1>2 DEF Connecting
<1>6. OneSender /\ SendersBuffers
  <2>1. \A n : UpTo(<<>>, n)
    BY DEF UpTo
  <2>. QED
    BY <1>1, <1>2, <2>1, ThreadsAssumption DEF OneSender, SendersBuffers, SendTask, Event
<1>7. OneReceiver /\ OneDisconnect
  BY <1>1, <1>2 DEF OneReceiver, OneDisconnect, RecvTask, Event
<1>. QED
  BY <1>3, <1>4, <1>5, <1>6, <1>7 DEF Inv

(* Whoever is not idle, and whatever is posted, the connection was made.   *)
LEMMA Connected ==
    ASSUME Inv,
           \/ told # "nothing"
           \/ \E t \in Threads : pc[t] # "idle"
           \/ \E e \in Event \ {"Connect"} : posted[e] > 0
    PROVE  posted["Connect"] = 0
BY DEF Inv, Connecting, TypeOK, Event

(* The step of one thread.                                                 *)
Moves(t, l, r) ==
    /\ pc' \in [Threads -> PC] /\ ret' \in [Threads -> PC]
    /\ pc'[t] = l /\ ret'[t] = r
    /\ \A u \in Threads \ {t} : pc'[u] = pc[u] /\ ret'[u] = ret[u] /\ Task(u)' = Task(u)

LEMMA MovesTo ==
    ASSUME TypeOK, NEW t \in Threads, NEW l \in PC, NEW r \in PC,
           pc' = [pc EXCEPT ![t] = l], ret' = [ret EXCEPT ![t] = r]
    PROVE  Moves(t, l, r)
BY DEF TypeOK, Moves, Task

(* Steps that leave one part of the invariant alone.                       *)
LEMMA SameCalling ==
    ASSUME Calling, UNCHANGED accepted,
           \A t \in Threads : pc'[t] = "push" <=> pc[t] = "push",
           \A t \in Threads : ret'[t] \in {"idle", "clear", "recvFailed"}
    PROVE  Calling'
BY DEF Calling, Calls

LEMMA SameSending ==
    ASSUME OneSender, SendersBuffers, UNCHANGED sending,
           posted'["Send"] = posted["Send"], owner'["Send"] = owner["Send"],
           \A t \in Threads : Task(t)' = Task(t) \/ {Task(t), Task(t)'} \cap SendTask = {}
    PROVE  OneSender' /\ SendersBuffers'
<1>1. OneSender'
  BY DEF OneSender, sending
<1>2. SendersBuffers'
  BY DEF SendersBuffers, sending, SendTask
<1>. QED
  BY <1>1, <1>2

LEMMA SameReceiving ==
    ASSUME OneReceiver, posted'["Recv"] = posted["Recv"], owner'["Recv"] = owner["Recv"],
           \A t \in Threads : Task(t)' = Task(t) \/ {Task(t), Task(t)'} \cap RecvTask = {}
    PROVE  OneReceiver'
BY DEF OneReceiver, RecvTask

LEMMA SameDisconnect ==
    ASSUME OneDisconnect, UNCHANGED member, connected' => connected,
           posted'["Disconnect"] = posted["Disconnect"],
           owner'["Disconnect"] = owner["Disconnect"],
           \A t \in Threads : pc'[t] = "regDisconnect" => pc[t] = "regDisconnect"
    PROVE  OneDisconnect'
BY DEF OneDisconnect

LEMMA UpToConcat ==
    ASSUME NEW s \in Seq(Buffer), NEW u \in Seq(Buffer), NEW n, UpTo(s, n), UpTo(u, n)
    PROVE  UpTo(s \o u, n)
<1>1. /\ Len(s) \in Nat /\ Len(u) \in Nat /\ Len(s \o u) = Len(s) + Len(u)
      /\ \A i \in 1..Len(s \o u) :
            (s \o u)[i] = IF i <= Len(s) THEN s[i] ELSE u[i - Len(s)]
  BY ConcatProperties, LenProperties
<1>2. ASSUME NEW i \in 1..Len(s \o u)  PROVE (s \o u)[i] <= n
  <2>1. CASE i <= Len(s)
    BY <1>1, <2>1 DEF UpTo
  <2>2. CASE ~(i <= Len(s))
    <3>1. i - Len(s) \in 1..Len(u)
      BY <1>1, <2>2
    <3>. QED
      BY <1>1, <2>2, <3>1 DEF UpTo
  <2>. QED
    BY <2>1, <2>2
<1>. QED
  BY <1>2 DEF UpTo

-----------------------------------------------------------------------------
(* Sending.                                                                *)

(* A step of the flag's owner leaves the rest of the session alone.        *)
LEMMA SenderOnly ==
    ASSUME Inv, NEW t \in Threads, NEW l \in PC, NEW r \in PC, Moves(t, l, r),
           Task(t) \in SendTask, r \in {"idle", "clear", "recvFailed"}, l \notin {"push", "regDisconnect"},
           pc[t] \notin {"push", "regDisconnect"},
           Task(t)' \in SendTask \cup {"idle"},
           UNCHANGED <<connected, member, told, crashed, accepted>>,
           \A e \in Event \ {"Send"} : posted'[e] = posted[e] /\ owner'[e] = owner[e]
    PROVE  Calling' /\ Connecting' /\ OneReceiver' /\ OneDisconnect'
<1>. USE DEF Inv
<1>1. pc[t] # "idle"
  BY DEF Task, SendTask, Disconnecting
<1>2. Connecting'
  BY <1>1, Connected DEF Connecting, Event
<1>3. Calling'
  BY SameCalling DEF Moves, Calling
<1>4. OneReceiver'
  BY SameReceiving DEF Moves, Event, SendTask, RecvTask
<1>5. OneDisconnect'
  BY SameDisconnect DEF Moves, Event
<1>. QED
  BY <1>2, <1>3, <1>4, <1>5

LEMMA RegisterSendInv ==
    ASSUME Inv, NEW t \in Threads, RegisterSend(t)
    PROVE  Inv'
<1>. USE DEF RegisterSend, Inv
<1>1. pc[t] = "regSend" /\ Task(t) = "regSend"
  BY DEF At, Task, Disconnecting
<1>2. PICK l \in {"drain", "idle"} :
        /\ Goto(t, l)
        /\ l = "drain" => owner' = [owner EXCEPT !["Send"] = TRUE] /\ UNCHANGED holder
        /\ l = "idle" => Unlocks(t) /\ UNCHANGED owner
  OBVIOUS
<1>3. Moves(t, l, ret[t])
  <2>1. l \in PC /\ ret[t] \in PC /\ ret' = [ret EXCEPT ![t] = ret[t]]
    BY DEF TypeOK, PC
  <2>. QED
    BY <1>2, <2>1, MovesTo DEF Goto
<1>4. Task(t)' = l
  BY <1>3 DEF Moves, Task, Disconnecting
<1>5. owner' \in [Event -> BOOLEAN] /\ \A e \in Event \ {"Send"} : owner'[e] = owner[e]
  BY <1>2 DEF TypeOK
<1>6. TypeOK'
  BY <1>2, <1>3, <1>5 DEF TypeOK, Moves, life, Unlocks
<1>7. Calling' /\ Connecting' /\ OneReceiver' /\ OneDisconnect'
  BY <1>1, <1>2, <1>3, <1>4, <1>5, SenderOnly DEF Calling, TypeOK, SendTask, life, PC
<1>8. OneSender'
  <2>1. \A u \in Threads : holder' = u => holder = u /\ (u = t => l = "drain")
    BY <1>2, ThreadsAssumption DEF Unlocks
  <2>. QED
    BY <1>1, <1>3, <1>4, <2>1 DEF Moves, OneSender, SendTask
<1>9. SendersBuffers'
  <2>1. /\ \A u \in Threads \ {t} : Task(u)' \notin SendTask
        /\ sendBuffers = <<>> /\ posted["Send"] = 0 /\ queue # <<>>
        /\ UpTo(queue, accepted) /\ UpTo(sendBuffers, accepted) /\ UpTo(wire, accepted)
    BY <1>1, <1>3 DEF OneSender, SendersBuffers, SendTask, Moves, TypeOK, Event
  <2>2. l = "drain" => owner'["Send"]
    BY <1>2 DEF TypeOK, Event
  <2>. QED
    BY <1>2, <1>4, <2>1, <2>2 DEF SendersBuffers, SendTask
<1>. QED
  BY <1>6, <1>7, <1>8, <1>9 DEF life

LEMMA DrainInv ==
    ASSUME Inv, NEW t \in Threads, Drain(t)
    PROVE  Inv'
<1>. USE DEF Drain, Inv
<1>1. pc[t] = "drain" /\ Task(t) = "drain"
  BY DEF At, Task, Disconnecting
<1>2. Moves(t, "wsaSend", ret[t]) /\ Task(t)' = "wsaSend"
  BY MovesTo DEF TypeOK, Goto, PC, Moves, Task, Disconnecting
<1>3. /\ \A u \in Threads \ {t} : Task(u)' \notin SendTask
      /\ sendBuffers = <<>> /\ posted["Send"] = 0 /\ queue # <<>> /\ owner["Send"]
  BY <1>1, <1>2 DEF OneSender, SendersBuffers, SendTask, Moves, TypeOK, Event
<1>4. sendBuffers' = queue /\ queue' = <<>>
  BY <1>3, ConcatEmptySeq DEF TypeOK
<1>5. TypeOK'
  <2>1. <<>> \in Seq(Buffer)
    OBVIOUS
  <2>. QED
    BY <1>2, <1>4, <2>1 DEF TypeOK, Moves, life
<1>6. Calling' /\ Connecting' /\ OneReceiver' /\ OneDisconnect'
  BY <1>1, <1>2, SenderOnly DEF Calling, TypeOK, SendTask, life, PC
<1>7. OneSender'
  BY <1>1, <1>2 DEF Moves, OneSender, SendTask
<1>8. SendersBuffers'
  <2>1. UpTo(<<>>, accepted)
    BY DEF UpTo
  <2>2. UpTo(queue', accepted') /\ UpTo(sendBuffers', accepted') /\ UpTo(wire', accepted')
    BY <1>4, <2>1 DEF SendersBuffers
  <2>. QED
    BY <1>2, <1>3, <1>4, <2>2 DEF SendersBuffers, SendTask
<1>. QED
  BY <1>5, <1>6, <1>7, <1>8 DEF life

LEMMA WsaSendInv ==
    ASSUME Inv, NEW t \in Threads, WsaSend(t)
    PROVE  Inv'
<1>. USE DEF WsaSend, Inv
<1>1. pc[t] = "wsaSend" /\ Task(t) = "wsaSend"
  BY DEF At, Task, Disconnecting
<1>2. Moves(t, "idle", ret[t]) /\ Task(t)' = "idle"
  BY MovesTo DEF TypeOK, Goto, PC, Moves, Task, Disconnecting
<1>3. /\ \A u \in Threads : Task(u)' \notin SendTask
      /\ sendBuffers # <<>> /\ posted["Send"] = 0 /\ owner["Send"] /\ registered
  BY <1>1, <1>2 DEF OneSender, SendersBuffers, SendTask, Moves, TypeOK, Event
<1>4. posted' \in [Event -> 0..1] /\ \A e \in Event \ {"Send"} : posted'[e] = posted[e]
  <2>1. "Send" \in Event /\ posted["Send"] + 1 \in 0..1
    BY <1>3 DEF Event
  <2>. QED
    BY <2>1 DEF TypeOK
<1>5. wire' = wire \o sendBuffers /\ wire' \in Seq(Buffer)
  BY ConcatProperties DEF TypeOK
<1>6. TypeOK'
  BY <1>2, <1>4, <1>5 DEF TypeOK, Moves, life, Unlocks
<1>7. Calling' /\ Connecting' /\ OneReceiver' /\ OneDisconnect'
  <2>1. ret[t] \in {"idle", "clear", "recvFailed"} /\ ret[t] \in PC
    BY DEF Calling, TypeOK
  <2>. QED
    BY <1>1, <1>2, <1>4, <2>1, SenderOnly DEF SendTask, life, PC
<1>8. OneSender'
  <2>1. \A u \in Threads : holder' # u
    BY <1>1, <1>3, <1>2, ThreadsAssumption DEF Unlocks, OneSender, Moves, SendTask
  <2>. QED
    BY <1>3, <2>1 DEF OneSender
<1>9. SendersBuffers'
  <2>1. /\ Len(sendBuffers) \in Nat \ {0} /\ Len(wire) \in Nat
        /\ Len(wire') = Len(wire) + Len(sendBuffers)
    BY <1>3, <1>5, ConcatProperties, EmptySeq, LenProperties DEF TypeOK
  <2>2. UpTo(queue', accepted') /\ UpTo(sendBuffers', accepted') /\ UpTo(wire', accepted')
    BY <1>5, UpToConcat DEF SendersBuffers, TypeOK
  <2>3. sendBuffers = SubSeq(wire', Len(wire') - Len(sendBuffers) + 1, Len(wire'))
    <3>1. /\ Len(wire) + 1 \in Len(wire) + 1 .. Len(wire) + Len(sendBuffers)
          /\ Len(wire) + Len(sendBuffers) \in Len(wire) + 1 .. Len(wire) + Len(sendBuffers)
      BY <2>1
    <3>2. SubSeq(wire \o sendBuffers, Len(wire) + 1, Len(wire) + Len(sendBuffers)) =
             SubSeq(sendBuffers, Len(wire) + 1 - Len(wire),
                    Len(wire) + Len(sendBuffers) - Len(wire))
      BY <3>1, SubSeqOfConcat2 DEF TypeOK
    <3>3. /\ Len(wire) + 1 - Len(wire) = 1
          /\ Len(wire) + Len(sendBuffers) - Len(wire) = Len(sendBuffers)
          /\ Len(wire') - Len(sendBuffers) + 1 = Len(wire) + 1
      BY <2>1
    <3>4. SubSeq(sendBuffers, 1, Len(sendBuffers)) = sendBuffers
      BY SubSeqFull DEF TypeOK
    <3>. QED
      BY <1>5, <2>1, <3>2, <3>3, <3>4
  <2>4. Len(sendBuffers) \in 1..Len(wire')
    BY <2>1
  <2>5. posted'["Send"] > 0 /\ UNCHANGED <<queue, sendBuffers, owner>>
    BY <1>3 DEF TypeOK, Event
  <2>. QED
    BY <1>3, <2>2, <2>3, <2>4, <2>5 DEF SendersBuffers, SendTask
<1>. QED
  BY <1>6, <1>7, <1>8, <1>9 DEF life

LEMMA WsaSendFailsInv ==
    ASSUME Inv, NEW t \in Threads, WsaSendFails(t)
    PROVE  Inv'
<1>. USE DEF WsaSendFails, StaysRegistered, Inv
<1>1. pc[t] = "wsaSend" /\ Task(t) = "wsaSend"
  BY DEF At, Task, Disconnecting
<1>2. PICK l \in {"disconnect", "clear"}, r \in {"idle", "clear", "recvFailed"} :
        Moves(t, l, r) /\ (l = "disconnect" => r = "clear")
  <2>1. CASE Disconnects(t, "clear")
    BY <2>1, MovesTo DEF Disconnects, Goto, PC
  <2>2. CASE Goto(t, "clear") /\ UNCHANGED ret
    <3>1. ret[t] \in {"idle", "clear", "recvFailed"} /\ ret' = [ret EXCEPT ![t] = ret[t]]
      BY <2>2 DEF Calling, TypeOK
    <3>2. ret[t] \in PC
      BY <3>1 DEF PC
    <3>. QED
      BY <2>2, <3>1, <3>2, MovesTo DEF Goto, PC
  <2>. QED
    BY <2>1, <2>2
<1>3. Task(t)' = "clear"
  BY <1>2 DEF Moves, Task, Disconnecting
<1>4. TypeOK'
  BY <1>2 DEF TypeOK, Moves, life
<1>5. Calling' /\ Connecting' /\ OneReceiver' /\ OneDisconnect'
  BY <1>1, <1>2, <1>3, SenderOnly DEF SendTask, life, PC
<1>6. OneSender'
  BY <1>1, <1>2, <1>3 DEF Moves, OneSender, SendTask
<1>7. SendersBuffers'
  <2>1. posted["Send"] = 0 /\ \A u \in Threads \ {t} : Task(u)' \notin SendTask
    BY <1>1, <1>2 DEF OneSender, SendTask, Moves, TypeOK, Event
  <2>. QED
    BY <1>3, <2>1 DEF SendersBuffers, SendTask
<1>. QED
  BY <1>4, <1>5, <1>6, <1>7 DEF life

LEMMA ClearInv ==
    ASSUME Inv, NEW t \in Threads, Clear(t)
    PROVE  Inv'
<1>. USE DEF Clear, Inv
<1>1. pc[t] = "clear" /\ Task(t) = "clear"
  BY DEF At, Task, Disconnecting
<1>2. Moves(t, "unregister", ret[t]) /\ Task(t)' = "unregister"
  BY MovesTo DEF TypeOK, Goto, PC, Moves, Task, Disconnecting
<1>3. owner' \in [Event -> BOOLEAN] /\ \A e \in Event \ {"Send"} : owner'[e] = owner[e]
  BY DEF TypeOK
<1>4. TypeOK'
  <2>1. <<>> \in Seq(Buffer)
    OBVIOUS
  <2>. QED
    BY <1>2, <1>3, <2>1 DEF TypeOK, Moves, life
<1>5. Calling' /\ Connecting' /\ OneReceiver' /\ OneDisconnect'
  BY <1>1, <1>2, <1>3, SenderOnly DEF Calling, TypeOK, SendTask, life, PC
<1>6. OneSender'
  BY <1>1, <1>2 DEF Moves, OneSender, SendTask
<1>7. SendersBuffers'
  <2>1. posted["Send"] = 0 /\ \A u \in Threads \ {t} : Task(u)' \notin SendTask
    BY <1>1, <1>2 DEF OneSender, SendTask, Moves, TypeOK, Event
  <2>2. UpTo(sendBuffers', accepted')
    BY DEF UpTo
  <2>. QED
    BY <1>2, <2>1, <2>2 DEF SendersBuffers, SendTask
<1>. QED
  BY <1>4, <1>5, <1>6, <1>7 DEF life

LEMMA UnregisterInv ==
    ASSUME Inv, NEW t \in Threads, Unregister(t)
    PROVE  Inv'
<1>. USE DEF Unregister, Inv
<1>1. pc[t] = "unregister" /\ Task(t) = "unregister"
  BY DEF At, Task, Disconnecting
<1>2. Moves(t, "idle", ret[t]) /\ Task(t)' = "idle"
  BY MovesTo DEF TypeOK, Goto, PC, Moves, Task, Disconnecting
<1>3. posted["Send"] = 0 /\ \A u \in Threads : Task(u)' \notin SendTask
  BY <1>1, <1>2 DEF OneSender, SendTask, Moves, TypeOK, Event
<1>4. TypeOK'
  BY <1>2 DEF TypeOK, Moves, life, Unlocks
<1>5. Calling' /\ Connecting' /\ OneReceiver' /\ OneDisconnect'
  BY <1>1, <1>2, SenderOnly DEF Calling, TypeOK, SendTask, life, PC
<1>6. OneSender'
  <2>1. \A u \in Threads : holder' # u
    BY <1>1, <1>3, <1>2, ThreadsAssumption DEF Unlocks, OneSender, Moves, SendTask
  <2>. QED
    BY <1>3, <2>1 DEF OneSender
<1>7. SendersBuffers'
  <2>1. sendBuffers = <<>>
    BY <1>1, <1>3 DEF SendersBuffers, OneSender, SendTask
  <2>. QED
    BY <1>3, <2>1 DEF SendersBuffers, SendTask
<1>. QED
  BY <1>4, <1>5, <1>6, <1>7 DEF life

LEMMA SentInv ==
    ASSUME Inv, NEW t \in Threads, Sent(t)
    PROVE  Inv'
<1>. USE DEF Sent, NothingQueued, ClearsFlag, Inv
<1>1. pc[t] = "sent" /\ Task(t) = "sent" /\ holder = NoThread
  BY DEF At, Task, Disconnecting
<1>2. PICK l \in {"idle", "regSend"} :
        /\ Goto(t, l)
        /\ l = "idle" => registered' = FALSE /\ UNCHANGED holder
        /\ l = "regSend" => queue # <<>> /\ holder' = t /\ UNCHANGED registered
  OBVIOUS
<1>3. Moves(t, l, ret[t])
  <2>1. l \in PC /\ ret[t] \in PC /\ ret' = [ret EXCEPT ![t] = ret[t]]
    BY DEF TypeOK, PC
  <2>. QED
    BY <1>2, <2>1, MovesTo DEF Goto
<1>4. Task(t)' = l
  BY <1>3 DEF Moves, Task, Disconnecting
<1>5. posted["Send"] = 0 /\ \A u \in Threads \ {t} : Task(u)' \notin SendTask
  BY <1>1, <1>3 DEF OneSender, SendTask, Moves, TypeOK, Event
<1>6. TypeOK'
  BY <1>2, <1>3 DEF TypeOK, Moves, life
<1>7. Calling' /\ Connecting' /\ OneReceiver' /\ OneDisconnect'
  BY <1>1, <1>3, <1>4, SenderOnly DEF Calling, TypeOK, SendTask, life, PC
<1>8. OneSender'
  <2>1. \A u \in Threads : holder' = u => u = t /\ l = "regSend"
    BY <1>1, <1>2, ThreadsAssumption
  <2>2. l = "regSend" => registered'
    BY <1>1, <1>2 DEF OneSender, SendTask
  <2>3. posted'["Send"] = 0
    BY <1>5
  <2>. QED
    BY <1>4, <1>5, <2>1, <2>2, <2>3 DEF OneSender, SendTask
<1>9. SendersBuffers'
  <2>1. sendBuffers = <<>>
    BY <1>1, <1>3, <1>5 DEF SendersBuffers, OneSender, SendTask, Moves
  <2>. QED
    BY <1>2, <1>4, <1>5, <2>1 DEF SendersBuffers, SendTask
<1>. QED
  BY <1>6, <1>7, <1>8, <1>9 DEF life

LEMMA ProcessSendInv ==
    ASSUME Inv, NEW t \in Threads, ProcessSend(t)
    PROVE  Inv'
<1>. USE DEF ProcessSend, LetsGo, Inv
<1>1. pc[t] = "idle" /\ Task(t) = "idle" /\ posted["Send"] > 0 /\ posted["Connect"] = 0
  BY Connected DEF At, Task, Disconnecting, Event
<1>2. PICK l \in {"disconnect", "sent"}, r \in {"idle", "clear", "recvFailed"} :
        Moves(t, l, r) /\ (l = "disconnect" => r = "idle")
  <2>1. CASE Disconnects(t, "idle")
    BY <2>1, MovesTo DEF Disconnects, Goto, PC
  <2>2. CASE Goto(t, "sent") /\ UNCHANGED ret
    <3>1. ret[t] \in {"idle", "clear", "recvFailed"} /\ ret' = [ret EXCEPT ![t] = ret[t]]
      BY <2>2 DEF Calling, TypeOK
    <3>2. ret[t] \in PC
      BY <3>1 DEF PC
    <3>. QED
      BY <2>2, <3>1, <3>2, MovesTo DEF Goto, PC
  <2>. QED
    BY <2>1, <2>2
<1>3. Task(t)' \in {"idle", "sent"}
  BY <1>2 DEF Moves, Task, Disconnecting
<1>4. /\ posted' \in [Event -> 0..1] /\ posted'["Send"] = 0
      /\ owner' \in [Event -> BOOLEAN]
      /\ \A e \in Event \ {"Send"} : posted'[e] = posted[e] /\ owner'[e] = owner[e]
  <2>1. "Send" \in Event /\ posted["Send"] - 1 = 0
    BY <1>1 DEF Event, TypeOK
  <2>. QED
    BY <2>1 DEF TypeOK
<1>5. registered /\ \A u \in Threads : Task(u) \notin SendTask
  BY <1>1 DEF OneSender, TypeOK
<1>6. TypeOK'
  <2>1. <<>> \in Seq(Buffer)
    OBVIOUS
  <2>. QED
    BY <1>2, <1>4, <2>1 DEF TypeOK, Moves, life
<1>7. Calling'
  BY <1>1, <1>2, SameCalling DEF Moves, Calling
<1>8. Connecting'
  BY <1>1, <1>4 DEF Connecting, Event
<1>9. OneSender'
  BY <1>2, <1>3, <1>4, <1>5 DEF Moves, OneSender, SendTask
<1>10. SendersBuffers'
  <2>1. UpTo(sendBuffers', accepted')
    BY DEF UpTo
  <2>2. \A u \in Threads : Task(u)' \notin SendTask \/ Task(u)' = "sent"
    BY <1>2, <1>3, <1>5 DEF Moves, SendTask
  <2>. QED
    BY <1>4, <2>1, <2>2 DEF SendersBuffers, SendTask
<1>11. OneReceiver'
  BY <1>1, <1>2, <1>3, <1>4, SameReceiving DEF Moves, Event, RecvTask
<1>12. OneDisconnect'
  BY <1>2, <1>4, SameDisconnect DEF Moves, Event, life
<1>. QED
  BY <1>6, <1>7, <1>8, <1>9, <1>10, <1>11, <1>12 DEF life

(* A call of Send is counted from its first step on.                       *)
LEMMA SendInv ==
    ASSUME Inv, NEW t \in Threads, Send(t)
    PROVE  Inv'
<1>. USE DEF Send, Inv
<1>1. pc[t] = "idle" /\ Task(t) = "idle" /\ posted["Connect"] = 0 /\ Calls < MaxSends
  BY Connected DEF At, Task, Disconnecting
<1>2. Moves(t, "push", ret[t]) /\ Task(t)' = "push"
  BY MovesTo DEF TypeOK, Goto, PC, Moves, Task, Disconnecting
<1>3. TypeOK'
  BY <1>2 DEF TypeOK, Moves, sending, life
<1>4. Calling'
  <2>. DEFINE P == {u \in Threads : pc[u] = "push"}
  <2>1. IsFiniteSet(P) /\ Cardinality(P) \in Nat
    BY FS_Subset, FS_CardinalityType, ThreadsAssumption
  <2>2. {u \in Threads : pc'[u] = "push"} = P \cup {t} /\ t \notin P
    BY <1>1, <1>2 DEF Moves
  <2>3. Cardinality(P \cup {t}) = Cardinality(P) + 1
    BY <2>1, <2>2, FS_AddElement
  <2>4. accepted \in Nat /\ accepted' = accepted /\ MaxSends \in Nat
    BY SendsAssumption DEF TypeOK, sending
  <2>5. accepted + Cardinality(P) < MaxSends
    BY <1>1 DEF Calls
  <2>6. Cardinality({u \in Threads : pc'[u] = "push"}) = Cardinality(P) + 1
    BY <2>2, <2>3
  <2>. HIDE DEF P
  <2>7. accepted' + (Cardinality(P) + 1) <= MaxSends
    BY <2>1, <2>4, <2>5
  <2>. QED
    BY <1>2, <2>6, <2>7 DEF Calling, Calls, Moves
<1>5. Connecting'
  BY <1>1 DEF Connecting
<1>6. OneSender' /\ SendersBuffers'
  BY <1>1, <1>2, SameSending DEF Moves, SendTask
<1>7. OneReceiver' /\ OneDisconnect'
  BY <1>1, <1>2, SameReceiving, SameDisconnect DEF Moves, RecvTask, life
<1>. QED
  BY <1>3, <1>4, <1>5, <1>6, <1>7 DEF life

LEMMA Numbers ==
    ASSUME NEW s \in Seq(Buffer)
    PROVE  \A i \in 1..Len(s) : s[i] \in Nat
<1>1. \A i \in 1..Len(s) : s[i] \in Buffer
  BY ElementOfSeq
<1>. QED
  BY <1>1 DEF Buffer

(* The buffer gets the next number, and the flag an owner if it had none.  *)
LEMMA PushInv ==
    ASSUME Inv, NEW t \in Threads, Push(t)
    PROVE  Inv'
<1>. USE DEF Push, Inv
<1>1. /\ pc[t] = "push" /\ Task(t) = "push" /\ posted["Connect"] = 0
      /\ holder = NoThread
  BY Connected DEF At, Task, Disconnecting
<1>2. PICK l \in {"idle", "regSend"} : Goto(t, l) /\ (l = "regSend" <=> ~registered)
  BY DEF Claims
<1>3. Moves(t, l, ret[t])
  <2>1. l \in PC /\ ret[t] \in PC /\ ret' = [ret EXCEPT ![t] = ret[t]]
    BY DEF TypeOK, PC
  <2>. QED
    BY <1>2, <2>1, MovesTo DEF Goto
<1>4. Task(t)' = l
  BY <1>3 DEF Moves, Task, Disconnecting
<1>5. Calling' /\ accepted' \in 1..MaxSends
  <2>. DEFINE P == {u \in Threads : pc[u] = "push"}
  <2>1. IsFiniteSet(P) /\ Cardinality(P) \in Nat /\ IsFiniteSet(P \ {t})
    BY FS_Subset, FS_CardinalityType, FS_RemoveElement, ThreadsAssumption
  <2>2. {u \in Threads : pc'[u] = "push"} = P \ {t} /\ t \in P
    BY <1>1, <1>3 DEF Moves
  <2>3. Cardinality(P \ {t}) = Cardinality(P) - 1 /\ Cardinality(P \ {t}) \in Nat
    BY <2>1, <2>2, FS_RemoveElement, FS_CardinalityType
  <2>4. accepted \in Nat /\ accepted' = accepted + 1 /\ MaxSends \in Nat
    BY SendsAssumption DEF TypeOK
  <2>5. accepted + Cardinality(P) <= MaxSends
    BY DEF Calling, Calls
  <2>6. Cardinality({u \in Threads : pc'[u] = "push"}) = Cardinality(P) - 1
    BY <2>2, <2>3
  <2>. HIDE DEF P
  <2>7. Cardinality(P) - 1 \in Nat
    BY <2>3
  <2>8. accepted' + (Cardinality(P) - 1) <= MaxSends /\ accepted' \in 1..MaxSends
    BY <2>1, <2>4, <2>5, <2>7
  <2>. QED
    BY <1>3, <2>6, <2>8 DEF Calling, Calls, Moves
<1>6. queue' = Append(queue, accepted') /\ queue' \in Seq(Buffer) /\ queue' # <<>>
  <2>1. accepted' \in Buffer
    BY <1>5 DEF Buffer
  <2>. QED
    BY <2>1, AppendProperties DEF TypeOK
<1>7. TypeOK'
  BY <1>3, <1>5, <1>6 DEF TypeOK, Moves, life
<1>8. Connecting'
  BY <1>1 DEF Connecting
<1>9. OneSender'
  <2>1. \A u \in Threads : holder' # u
    BY <1>1, ThreadsAssumption
  <2>2. \A u \in Threads \ {t} : Task(u)' = Task(u)
    BY <1>3 DEF Moves
  <2>3. ~registered => posted["Send"] = 0 /\ \A u \in Threads : Task(u) \notin SendTask
    BY DEF OneSender, TypeOK, Event
  <2>4. \A u \in Threads : Task(u)' \in SendTask =>
           posted["Send"] = 0 /\ (u = t \/ Task(u) \in SendTask)
    BY <1>2, <1>4, <2>2, <2>3 DEF SendTask, OneSender
  <2>5. \A u, v \in Threads : Task(u)' \in SendTask /\ Task(v)' \in SendTask => u = v
    BY <1>2, <1>4, <2>2, <2>3 DEF SendTask, OneSender
  <2>. QED
    BY <2>1, <2>4, <2>5 DEF OneSender
<1>10. SendersBuffers'
  <2>1. UpTo(queue', accepted') /\ UpTo(sendBuffers', accepted') /\ UpTo(wire', accepted')
    <3>1. accepted \in Nat /\ accepted' = accepted + 1
      BY DEF TypeOK
    <3>2. UpTo(sendBuffers', accepted') /\ UpTo(wire', accepted')
      <4>1. /\ \A i \in 1..Len(sendBuffers) : sendBuffers[i] \in Nat
            /\ \A i \in 1..Len(wire) : wire[i] \in Nat
        BY Numbers DEF TypeOK
      <4>. QED
        BY <3>1, <4>1 DEF UpTo, SendersBuffers
    <3>3. /\ Len(queue) \in Nat /\ Len(queue') = Len(queue) + 1
          /\ \A i \in 1..Len(queue) : queue'[i] = queue[i] /\ queue[i] \in Nat
          /\ queue'[Len(queue) + 1] = accepted'
      <4>1. accepted' \in Buffer
        BY <1>5 DEF Buffer
      <4>2. \A i \in 1..Len(queue) : queue[i] \in Nat
        BY Numbers DEF TypeOK
      <4>. QED
        BY <1>6, <4>1, <4>2, AppendProperties, LenProperties DEF TypeOK
    <3>4. ASSUME NEW i \in 1..Len(queue')  PROVE queue'[i] <= accepted'
      <4>1. CASE i = Len(queue) + 1
        BY <3>1, <3>3, <4>1
      <4>2. CASE i \in 1..Len(queue)
        BY <3>1, <3>3, <4>2 DEF UpTo, SendersBuffers
      <4>. QED
        BY <3>3, <4>1, <4>2
    <3>. QED
      BY <3>2, <3>4 DEF UpTo
  <2>2. \A u \in Threads : Task(u)' = Task(u) \/ Task(u)' \in {"idle", "regSend"}
    BY <1>3, <1>4 DEF Moves
  <2>3. \A u \in Threads : Task(u) \in {"wsaSend", "clear"} => Task(u)' = Task(u)
    BY <1>1, <1>3 DEF Moves
  <2>. QED
    BY <1>6, <2>1, <2>2, <2>3 DEF SendersBuffers
<1>11. OneReceiver' /\ OneDisconnect'
  BY <1>1, <1>3, <1>4, SameReceiving, SameDisconnect DEF Moves, RecvTask, life
<1>. QED
  BY <1>5, <1>7, <1>8, <1>9, <1>10, <1>11 DEF life

-----------------------------------------------------------------------------
(* Receiving.                                                              *)
LEMMA ProcessConnectInv ==
    ASSUME Inv, NEW t \in Threads, ProcessConnect(t)
    PROVE  Inv'
<1>. USE DEF ProcessConnect, Inv
<1>1. /\ \A u \in Threads : pc[u] = "idle" /\ Task(u) = "idle"
      /\ \A e \in Event \ {"Connect"} : posted[e] = 0
  BY DEF Connecting, Task, Disconnecting
<1>2. Moves(t, "regRecv", ret[t]) /\ Task(t)' = "regRecv"
  BY MovesTo DEF TypeOK, Goto, PC, Moves, Task, Disconnecting
<1>3. /\ posted' \in [Event -> 0..1] /\ owner' \in [Event -> BOOLEAN]
      /\ \A e \in Event : posted'[e] = 0
      /\ \A e \in Event \ {"Connect"} : owner'[e] = owner[e]
  <2>1. "Connect" \in Event /\ posted["Connect"] - 1 = 0
    BY DEF Event, TypeOK
  <2>. QED
    BY <1>1, <2>1 DEF TypeOK
<1>4. TypeOK'
  BY <1>2, <1>3 DEF TypeOK, Moves, sending
<1>5. Calling'
  BY <1>1, <1>2, SameCalling DEF Moves, Calling, sending
<1>6. Connecting'
  BY <1>3 DEF Connecting, Event
<1>7. OneSender' /\ SendersBuffers'
  BY <1>1, <1>2, <1>3, SameSending DEF Moves, SendTask, Event
<1>8. OneReceiver'
  BY <1>1, <1>2, <1>3 DEF Moves, OneReceiver, RecvTask, Event
<1>9. OneDisconnect'
  BY <1>1, <1>2, <1>3 DEF Moves, OneDisconnect, Event
<1>. QED
  BY <1>4, <1>5, <1>6, <1>7, <1>8, <1>9

(* A step of the one receiver leaves the rest of the session alone.        *)
LEMMA ReceiverOnly ==
    ASSUME Inv, NEW t \in Threads, NEW l \in PC, NEW r \in PC, Moves(t, l, r),
           r \in {"idle", "clear", "recvFailed"}, l \notin {"push", "regDisconnect"},
           pc[t] \notin {"push", "regDisconnect"}, Task(t) \notin SendTask,
           Task(t)' \notin SendTask, posted["Connect"] = 0,
           UNCHANGED <<connected, sending, life>>,
           \A e \in Event \ {"Recv"} : posted'[e] = posted[e] /\ owner'[e] = owner[e]
    PROVE  /\ Calling' /\ Connecting' /\ OneSender' /\ SendersBuffers'
           /\ OneDisconnect' /\ ~crashed'
<1>. USE DEF Inv
<1>1. Connecting'
  BY DEF Connecting, Event
<1>2. Calling'
  BY SameCalling DEF Moves, Calling, sending
<1>3. OneSender' /\ SendersBuffers'
  BY SameSending DEF Moves, Event
<1>4. OneDisconnect'
  BY SameDisconnect DEF Moves, Event, life
<1>. QED
  BY <1>1, <1>2, <1>3, <1>4 DEF life

LEMMA RegisterRecvInv ==
    ASSUME Inv, NEW t \in Threads, RegisterRecv(t)
    PROVE  Inv'
<1>. USE DEF RegisterRecv, Inv
<1>1. pc[t] = "regRecv" /\ Task(t) = "regRecv" /\ posted["Connect"] = 0
  BY Connected DEF At, Task, Disconnecting
<1>2. PICK l \in {"wsaRecv", "idle"} :
        /\ Goto(t, l)
        /\ l = "wsaRecv" => owner' = [owner EXCEPT !["Recv"] = TRUE]
        /\ l = "idle" => UNCHANGED owner
  OBVIOUS
<1>3. ret[t] \in {"idle", "clear", "recvFailed"} /\ ret[t] \in PC /\ l \in PC
  BY DEF Calling, TypeOK, PC
<1>4. Moves(t, l, ret[t])
  <2>1. ret' = [ret EXCEPT ![t] = ret[t]]
    BY DEF TypeOK
  <2>. QED
    BY <1>2, <1>3, <2>1, MovesTo DEF Goto
<1>5. Task(t)' = l
  BY <1>4 DEF Moves, Task, Disconnecting
<1>6. /\ owner' \in [Event -> BOOLEAN] /\ (l = "wsaRecv" => owner'["Recv"])
      /\ \A e \in Event \ {"Recv"} : owner'[e] = owner[e]
  BY <1>2 DEF TypeOK, Event
<1>7. TypeOK'
  BY <1>4, <1>6 DEF TypeOK, Moves, sending, life
<1>8. /\ Calling' /\ Connecting' /\ OneSender' /\ SendersBuffers'
      /\ OneDisconnect' /\ ~crashed'
  BY <1>1, <1>3, <1>4, <1>5, <1>6, ReceiverOnly DEF SendTask
<1>9. OneReceiver'
  BY <1>1, <1>4, <1>5, <1>6 DEF Moves, OneReceiver, RecvTask
<1>. QED
  BY <1>7, <1>8, <1>9

LEMMA WsaRecvInv ==
    ASSUME Inv, NEW t \in Threads, WsaRecv(t)
    PROVE  Inv'
<1>. USE DEF WsaRecv, Inv
<1>1. pc[t] = "wsaRecv" /\ Task(t) = "wsaRecv" /\ posted["Connect"] = 0
  BY Connected DEF At, Task, Disconnecting
<1>2. owner["Recv"] /\ posted["Recv"] = 0 /\ \A u \in Threads \ {t} : Task(u) \notin RecvTask
  BY <1>1 DEF OneReceiver, RecvTask, TypeOK, Event
<1>3. PICK l \in {"idle", "disconnect", "recvFailed"}, r \in {"idle", "clear", "recvFailed"} :
        /\ Moves(t, l, r)
        /\ l = "disconnect" => r = "recvFailed"
        /\ l # "idle" => UNCHANGED posted
        /\ l = "idle" => posted' = [posted EXCEPT !["Recv"] = @ + 1]
  <2>1. CASE Disconnects(t, "recvFailed") /\ UNCHANGED posted
    BY <2>1, MovesTo DEF Disconnects, Goto, PC
  <2>2. ASSUME NEW l \in {"idle", "recvFailed"}, Goto(t, l), UNCHANGED ret
        PROVE  ret[t] \in {"idle", "clear", "recvFailed"} /\ Moves(t, l, ret[t])
    <3>1. ret[t] \in {"idle", "clear", "recvFailed"} /\ ret' = [ret EXCEPT ![t] = ret[t]]
      BY <2>2 DEF Calling, TypeOK
    <3>2. ret[t] \in PC /\ l \in PC
      BY <3>1 DEF PC
    <3>. QED
      BY <2>2, <3>1, <3>2, MovesTo DEF Goto
  <2>. QED
    BY <2>1, <2>2
<1>4. Task(t)' \in {"idle", "recvFailed"} /\ (Task(t)' = "idle" <=> l = "idle")
  BY <1>3 DEF Moves, Task, Disconnecting
<1>5. /\ posted' \in [Event -> 0..1] /\ (l # "idle" => posted'["Recv"] = 0)
      /\ \A e \in Event \ {"Recv"} : posted'[e] = posted[e]
  <2>1. "Recv" \in Event /\ posted["Recv"] + 1 \in 0..1
    BY <1>2 DEF Event
  <2>. QED
    BY <1>2, <1>3, <2>1 DEF TypeOK
<1>6. TypeOK'
  BY <1>3, <1>5 DEF TypeOK, Moves, sending, life
<1>7. /\ Calling' /\ Connecting' /\ OneSender' /\ SendersBuffers'
      /\ OneDisconnect' /\ ~crashed'
  BY <1>1, <1>3, <1>4, <1>5, ReceiverOnly DEF SendTask, PC
<1>8. OneReceiver'
  BY <1>2, <1>3, <1>4, <1>5 DEF Moves, OneReceiver, RecvTask
<1>. QED
  BY <1>6, <1>7, <1>8

LEMMA RecvFailedInv ==
    ASSUME Inv, NEW t \in Threads, RecvFailed(t)
    PROVE  Inv'
<1>. USE DEF RecvFailed, Inv
<1>1. pc[t] = "recvFailed" /\ Task(t) = "recvFailed" /\ posted["Connect"] = 0
  BY Connected DEF At, Task, Disconnecting
<1>2. ret[t] \in {"idle", "clear", "recvFailed"} /\ ret[t] \in PC
  BY DEF Calling, TypeOK
<1>3. Moves(t, "idle", ret[t]) /\ Task(t)' = "idle"
  BY MovesTo DEF TypeOK, Goto, PC, Moves, Task, Disconnecting
<1>4. /\ posted["Recv"] = 0 /\ owner' \in [Event -> BOOLEAN]
      /\ \A e \in Event \ {"Recv"} : owner'[e] = owner[e]
  BY <1>1 DEF OneReceiver, RecvTask, TypeOK
<1>5. TypeOK'
  BY <1>3, <1>4 DEF TypeOK, Moves, sending, life
<1>6. /\ Calling' /\ Connecting' /\ OneSender' /\ SendersBuffers'
      /\ OneDisconnect' /\ ~crashed'
  BY <1>1, <1>2, <1>3, <1>4, ReceiverOnly DEF SendTask, PC
<1>7. OneReceiver'
  BY <1>1, <1>3, <1>4 DEF Moves, OneReceiver, RecvTask
<1>. QED
  BY <1>5, <1>6, <1>7

LEMMA ProcessRecvInv ==
    ASSUME Inv, NEW t \in Threads, ProcessRecv(t)
    PROVE  Inv'
<1>. USE DEF ProcessRecv, Refuses, Inv
<1>1. pc[t] = "idle" /\ Task(t) = "idle" /\ posted["Recv"] > 0 /\ posted["Connect"] = 0
  BY Connected DEF At, Task, Disconnecting, Event
<1>2. PICK l \in {"disconnect", "regRecv"}, r \in {"idle", "clear", "recvFailed"} :
        Moves(t, l, r) /\ (l = "disconnect" => r = "idle")
  <2>1. CASE Disconnects(t, "idle")
    BY <2>1, MovesTo DEF Disconnects, Goto, PC
  <2>2. CASE Goto(t, "regRecv") /\ UNCHANGED ret
    <3>1. ret[t] \in {"idle", "clear", "recvFailed"} /\ ret' = [ret EXCEPT ![t] = ret[t]]
      BY <2>2 DEF Calling, TypeOK
    <3>2. ret[t] \in PC
      BY <3>1 DEF PC
    <3>. QED
      BY <2>2, <3>1, <3>2, MovesTo DEF Goto, PC
  <2>. QED
    BY <2>1, <2>2
<1>3. Task(t)' \in {"idle", "regRecv"}
  BY <1>2 DEF Moves, Task, Disconnecting
<1>4. /\ posted' \in [Event -> 0..1] /\ posted'["Recv"] = 0
      /\ owner' \in [Event -> BOOLEAN]
      /\ \A e \in Event \ {"Recv"} : posted'[e] = posted[e] /\ owner'[e] = owner[e]
  <2>1. "Recv" \in Event /\ posted["Recv"] - 1 = 0
    BY <1>1 DEF Event, TypeOK
  <2>. QED
    BY <2>1 DEF TypeOK
<1>5. \A u \in Threads : Task(u) \notin RecvTask
  BY <1>1 DEF OneReceiver, TypeOK
<1>6. TypeOK'
  BY <1>2, <1>4 DEF TypeOK, Moves, sending, life
<1>7. /\ Calling' /\ Connecting' /\ OneSender' /\ SendersBuffers'
      /\ OneDisconnect' /\ ~crashed'
  BY <1>1, <1>2, <1>3, <1>4, ReceiverOnly DEF SendTask, PC
<1>8. OneReceiver'
  BY <1>2, <1>3, <1>4, <1>5 DEF Moves, OneReceiver, RecvTask
<1>. QED
  BY <1>6, <1>7, <1>8

-----------------------------------------------------------------------------
(* Disconnecting, which no task notices.                                   *)
LEMMA DisconnectOnly ==
    ASSUME Inv, NEW t \in Threads, NEW l \in PC, NEW r \in PC, Moves(t, l, r),
           r \in {"idle", "clear", "recvFailed"}, l # "push", pc[t] # "push",
           Task(t)' = Task(t), posted["Connect"] = 0, UNCHANGED sending,
           \A e \in Event \ {"Disconnect"} : posted'[e] = posted[e] /\ owner'[e] = owner[e]
    PROVE  Calling' /\ Connecting' /\ OneSender' /\ SendersBuffers' /\ OneReceiver'
<1>. USE DEF Inv
<1>1. Connecting'
  BY DEF Connecting, Event
<1>2. Calling'
  BY SameCalling DEF Moves, Calling, sending
<1>3. OneSender' /\ SendersBuffers'
  BY SameSending DEF Moves, Event
<1>4. OneReceiver'
  BY SameReceiving DEF Moves, Event
<1>. QED
  BY <1>1, <1>2, <1>3, <1>4

LEMMA CallDisconnectInv ==
    ASSUME Inv, NEW t \in Threads, CallDisconnect(t)
    PROVE  Inv'
<1>. USE DEF CallDisconnect, Inv
<1>1. pc[t] = "idle" /\ Task(t) = "idle" /\ posted["Connect"] = 0
  BY Connected DEF At, Task, Disconnecting
<1>2. Moves(t, "disconnect", "idle") /\ Task(t)' = "idle"
  BY MovesTo DEF Disconnects, Goto, PC, Moves, Task, Disconnecting
<1>3. TypeOK'
  BY <1>2 DEF TypeOK, Moves, sending, life
<1>4. Calling' /\ Connecting' /\ OneSender' /\ SendersBuffers' /\ OneReceiver'
  BY <1>1, <1>2, DisconnectOnly DEF PC
<1>5. OneDisconnect'
  BY <1>2, SameDisconnect DEF Moves, life
<1>. QED
  BY <1>3, <1>4, <1>5 DEF life

(* The first caller goes on to DisconnectEx.                               *)
LEMMA DisconnectInv ==
    ASSUME Inv, NEW t \in Threads, Disconnect(t)
    PROVE  Inv'
<1>. USE DEF Disconnect, IsFirst, Inv
<1>1. /\ pc[t] = "disconnect" /\ Task(t) = ret[t] /\ posted["Connect"] = 0
      /\ ret[t] \in {"idle", "clear", "recvFailed"} /\ ret[t] \in PC
  BY Connected DEF At, Task, Disconnecting, Calling, TypeOK
<1>2. PICK l \in PC, r \in {"idle", "clear", "recvFailed"} :
        /\ Moves(t, l, r) /\ Task(t)' = ret[t] /\ l # "push"
        /\ l = "regDisconnect" => connected
  <2>1. CASE connected
    <3>1. Moves(t, "regDisconnect", ret[t])
      <4>1. ret' = [ret EXCEPT ![t] = ret[t]]
        BY <2>1 DEF TypeOK
      <4>. QED
        BY <1>1, <2>1, <4>1, MovesTo DEF Goto, PC
    <3>2. Task(t)' = ret[t] /\ "regDisconnect" \in PC
      BY <3>1 DEF Moves, Task, Disconnecting, PC
    <3>. QED
      BY <1>1, <2>1, <3>1, <3>2
  <2>2. CASE ~connected
    <3>1. Moves(t, ret[t], "idle")
      BY <1>1, <2>2, MovesTo DEF Return, Goto, PC
    <3>2. Task(t)' = ret[t]
      BY <1>1, <3>1 DEF Moves, Task, Disconnecting
    <3>. QED
      BY <1>1, <3>1, <3>2
  <2>. QED
    BY <2>1, <2>2
<1>3. TypeOK'
  BY <1>2 DEF TypeOK, Moves, sending, life
<1>4. Calling' /\ Connecting' /\ OneSender' /\ SendersBuffers' /\ OneReceiver'
  <2>1. r \in PC
    BY DEF PC
  <2>. QED
    BY <1>1, <1>2, <2>1, DisconnectOnly
<1>5. OneDisconnect'
  BY <1>2 DEF OneDisconnect, Moves, life
<1>. QED
  BY <1>3, <1>4, <1>5 DEF life

LEMMA RegisterDisconnectInv ==
    ASSUME Inv, NEW t \in Threads, RegisterDisconnect(t)
    PROVE  Inv'
<1>. USE DEF RegisterDisconnect, Inv
<1>1. /\ pc[t] = "regDisconnect" /\ Task(t) = ret[t] /\ posted["Connect"] = 0
      /\ ret[t] \in {"idle", "clear", "recvFailed"} /\ ret[t] \in PC
  BY Connected DEF At, Task, Disconnecting, Calling, TypeOK
<1>2. Moves(t, ret[t], "idle") /\ Task(t)' = ret[t]
  <2>1. Moves(t, ret[t], "idle")
    BY <1>1, MovesTo DEF Return, Goto, PC
  <2>. QED
    BY <1>1, <2>1 DEF Moves, Task, Disconnecting
<1>3. posted["Disconnect"] = 0 /\ member /\ ~connected
  BY <1>1 DEF OneDisconnect
<1>4. /\ posted' \in [Event -> 0..1] /\ owner' \in [Event -> BOOLEAN]
      /\ posted'["Disconnect"] > 0 => owner'["Disconnect"]
      /\ \A e \in Event \ {"Disconnect"} : posted'[e] = posted[e] /\ owner'[e] = owner[e]
  <2>1. "Disconnect" \in Event /\ posted["Disconnect"] + 1 \in 0..1
    BY <1>3 DEF Event
  <2>2. CASE UNCHANGED <<posted, owner>>
    BY <1>3, <2>2 DEF TypeOK
  <2>3. CASE /\ posted' = [posted EXCEPT !["Disconnect"] = @ + 1]
             /\ owner' = [owner EXCEPT !["Disconnect"] = TRUE]
    BY <2>1, <2>3 DEF TypeOK
  <2>. QED
    BY <2>2, <2>3
<1>5. TypeOK'
  BY <1>2, <1>4 DEF TypeOK, Moves, sending, life
<1>6. Calling' /\ Connecting' /\ OneSender' /\ SendersBuffers' /\ OneReceiver'
  BY <1>1, <1>2, <1>4, DisconnectOnly DEF PC
<1>7. OneDisconnect'
  <2>1. \A u \in Threads : pc'[u] # "regDisconnect"
    BY <1>1, <1>2 DEF OneDisconnect, Moves
  <2>. QED
    BY <1>3, <1>4, <2>1 DEF OneDisconnect, life
<1>. QED
  BY <1>5, <1>6, <1>7 DEF life

(* The session is in the service when its end is processed.                *)
LEMMA ProcessDisconnectInv ==
    ASSUME Inv, NEW t \in Threads, ProcessDisconnect(t)
    PROVE  Inv'
<1>. USE DEF ProcessDisconnect, Releases, Inv
<1>1. posted["Disconnect"] > 0 /\ posted["Connect"] = 0
  BY Connected DEF Event
<1>2. member /\ ~connected /\ \A u \in Threads : pc[u] # "regDisconnect"
  BY <1>1 DEF OneDisconnect
<1>3. /\ posted' \in [Event -> 0..1] /\ posted'["Disconnect"] = 0
      /\ owner' \in [Event -> BOOLEAN]
      /\ \A e \in Event \ {"Disconnect"} : posted'[e] = posted[e] /\ owner'[e] = owner[e]
  <2>1. "Disconnect" \in Event /\ posted["Disconnect"] - 1 = 0
    BY <1>1 DEF Event, TypeOK
  <2>. QED
    BY <2>1 DEF TypeOK
<1>4. TypeOK'
  BY <1>2, <1>3 DEF TypeOK, sending
<1>5. \A u \in Threads : Task(u)' = Task(u)
  BY DEF Task
<1>6. Calling' /\ Connecting'
  BY <1>1, <1>3, SameCalling DEF Calling, Connecting, sending, Event
<1>7. OneSender' /\ SendersBuffers' /\ OneReceiver'
  BY <1>3, <1>5, SameSending, SameReceiving DEF Event
<1>8. OneDisconnect'
  BY <1>2, <1>3 DEF OneDisconnect
<1>. QED
  BY <1>2, <1>4, <1>6, <1>7, <1>8

LEMMA StutterInv == Inv /\ UNCHANGED vars => Inv'
<1>. SUFFICES ASSUME Inv, UNCHANGED vars  PROVE Inv'
  OBVIOUS
<1>. USE DEF Inv, vars
<1>1. TypeOK' /\ Connecting' /\ OneDisconnect' /\ ~crashed'
  BY DEF TypeOK, Connecting, OneDisconnect
<1>2. \A u \in Threads : Task(u)' = Task(u)
  BY DEF Task
<1>3. Calling' /\ OneSender' /\ SendersBuffers' /\ OneReceiver'
  BY <1>2, SameCalling, SameSending, SameReceiving DEF Calling, sending
<1>. QED
  BY <1>1, <1>3

LEMMA StepInv == Inv /\ [Next]_vars => Inv'
<1>. SUFFICES ASSUME Inv, [Next]_vars  PROVE Inv'
  OBVIOUS
<1>1. ASSUME NEW t \in Threads, Inside(t)  PROVE Inv'
  BY <1>1, RegisterSendInv, WsaSendInv, WsaSendFailsInv, ClearInv, UnregisterInv,
     RegisterRecvInv, WsaRecvInv, RecvFailedInv, DisconnectInv, RegisterDisconnectInv
     DEF Inside
<1>2. ASSUME NEW t \in Threads, Locking(t)  PROVE Inv'
  BY <1>2, PushInv, DrainInv, SentInv DEF Locking
<1>3. ASSUME NEW t \in Threads, Completion(t)  PROVE Inv'
  BY <1>3, ProcessSendInv, ProcessConnectInv, ProcessRecvInv, ProcessDisconnectInv
     DEF Completion
<1>4. ASSUME NEW t \in Threads, Call(t)  PROVE Inv'
  BY <1>4, SendInv, CallDisconnectInv DEF Call
<1>5. CASE UNCHANGED vars
  BY <1>5, StutterInv
<1>. QED
  BY <1>1, <1>2, <1>3, <1>4, <1>5 DEF Next

LEMMA SpecInv == Spec => []Inv
BY InitInv, StepInv, PTL DEF Spec

-----------------------------------------------------------------------------
(* Every variable of a session keeps its type, and no OVERLAPPED serves    *)
(* two operations at a time.                                               *)
THEOREM SessionIsTyped == Spec => []TypeOK
<1>1. Inv => TypeOK
  BY DEF Inv
<1>. QED
  BY <1>1, SpecInv, PTL

(* The owner of an event the kernel has is set, and _sendEvent.sendBuffers *)
(* are the buffers of the send under way.                                  *)
THEOREM HostagesAreKept == Spec => []Hostages
<1>1. Inv => Hostages
  BY DEF Inv, Hostages, Connecting, SendersBuffers, OneReceiver, OneDisconnect, Event
<1>. QED
  BY <1>1, SpecInv, PTL

(* However Disconnect is called, ProcessDisconnect runs once, and          *)
(* ReleaseSession finds the session.                                       *)
THEOREM SessionReleasedOnce == Spec => []ReleasedOnce
<1>1. Inv => ReleasedOnce
  BY DEF Inv, ReleasedOnce
<1>. QED
  BY <1>1, SpecInv, PTL

(* No interleaving of Send with completions loses a wake-up: buffers stay  *)
(* behind only where a failed RegisterSend clears the flag.                *)
THEOREM OnlyFailureStrands == Spec => StrandedOnlyByFailure
<1>1. ASSUME Inv, [Next]_vars, ~Stranded, Stranded'
      PROVE  \E t \in Threads : pc[t] = "unregister" /\ pc'[t] = "idle"
  <2>. USE <1>1 DEF Stranded
  <2>1. connected' /\ queue' # <<>> /\ ~registered'
    OBVIOUS
  <2>2. ASSUME connected' = connected, registered' = registered, queue' \in {queue, <<>>}
        PROVE  FALSE
    BY <2>1, <2>2
  <2>3. ASSUME NEW t \in Threads, Inside(t)
        PROVE  pc[t] = "unregister" /\ pc'[t] = "idle"
    <3>1. CASE Unregister(t)
      BY <3>1 DEF Unregister, At, Goto, Inv, TypeOK
    <3>2. CASE Disconnect(t)
      BY <2>1, <3>2 DEF Disconnect
    <3>3. CASE ~Unregister(t) /\ ~Disconnect(t)
      BY <2>2, <2>3, <3>3 DEF Inside, RegisterSend, WsaSend, WsaSendFails, Clear, RegisterRecv,
         WsaRecv, RecvFailed, RegisterDisconnect, StaysRegistered, sending
    <3>. QED
      BY <3>1, <3>2, <3>3
  <2>4. ASSUME NEW t \in Threads, Locking(t)  PROVE FALSE
    BY <2>1, <2>2, <2>4 DEF Locking, Push, Drain, Sent, NothingQueued, ClearsFlag
  <2>5. ASSUME NEW t \in Threads, Completion(t)  PROVE FALSE
    <3>1. CASE ProcessConnect(t)
      BY <2>1, <3>1 DEF ProcessConnect, sending, Inv, Connecting
    <3>2. CASE ~ProcessConnect(t)
      BY <2>2, <2>5, <3>2 DEF Completion, ProcessSend, ProcessRecv, ProcessDisconnect, sending
    <3>. QED
      BY <3>1, <3>2
  <2>6. ASSUME NEW t \in Threads, Call(t)  PROVE FALSE
    BY <2>2, <2>6 DEF Call, Send, CallDisconnect, sending
  <2>7. CASE UNCHANGED vars
    BY <2>2, <2>7 DEF vars
  <2>. QED
    BY <2>3, <2>4, <2>5, <2>6, <2>7 DEF Next
<1>. QED
  BY <1>1, SpecInv, PTL DEF Spec, StrandedOnlyByFailure

(* The end of the connection goes unnoticed only where WSARecv failed with *)
(* an error that HandleError only logs.                                    *)
THEOREM OnlyFailureDeafens == Spec => DeafOnlyByFailure
<1>. DEFINE Ears == {"regRecv", "wsaRecv", "recvFailed", "disconnect"}
<1>1. ASSUME Inv, [Next]_vars, ~Deaf, Deaf'
      PROVE  \E t \in Threads : pc[t] = "recvFailed" /\ pc'[t] = "idle"
  <2>. USE <1>1 DEF Deaf
  <2>1. connected' /\ posted'["Recv"] = 0 /\ \A t \in Threads : pc'[t] \notin Ears
    OBVIOUS
  <2>2. \/ ~connected \/ posted["Recv"] # 0
        \/ \E t \in Threads : pc[t] \in Ears
    OBVIOUS
  <2>3. pc \in [Threads -> PC] /\ posted \in [Event -> 0..1] /\ "Recv" \in Event
    BY DEF Inv, TypeOK, Event
  <2>4. ASSUME NEW t \in Threads, UNCHANGED connected, posted'["Recv"] = posted["Recv"],
               NEW l, Goto(t, l), pc[t] \notin Ears
        PROVE  FALSE
    BY <2>1, <2>2, <2>3, <2>4 DEF Goto
  <2>5. ASSUME NEW t \in Threads, Inside(t)
        PROVE  pc[t] = "recvFailed" /\ pc'[t] = "idle"
    <3>1. CASE RecvFailed(t)
      BY <2>3, <3>1 DEF RecvFailed, At, Goto
    <3>2. CASE RegisterRecv(t) \/ WsaRecv(t)
      <4>1. ASSUME NEW l \in Ears, Goto(t, l)  PROVE FALSE
        BY <2>1, <2>3, <4>1 DEF Goto
      <4>2. CASE RegisterRecv(t)
        BY <2>1, <4>1, <4>2 DEF RegisterRecv
      <4>3. CASE WsaRecv(t)
        <5>1. CASE posted' = [posted EXCEPT !["Recv"] = @ + 1]
          <6>1. posted'["Recv"] = posted["Recv"] + 1 /\ posted["Recv"] \in 0..1
            BY <2>3, <5>1
          <6>. QED
            BY <2>1, <6>1
        <5>2. CASE Goto(t, "disconnect") \/ Goto(t, "recvFailed")
          BY <4>1, <5>2
        <5>. QED
          BY <4>3, <5>1, <5>2 DEF WsaRecv, Disconnects
      <4>. QED
        BY <3>2, <4>2, <4>3
    <3>3. CASE Disconnect(t)
      BY <2>1, <3>3 DEF Disconnect
    <3>4. CASE RegisterDisconnect(t)
      BY <2>3, <2>4, <3>4 DEF RegisterDisconnect, Return, At
    <3>5. CASE \/ RegisterSend(t) \/ WsaSend(t) \/ WsaSendFails(t) \/ Clear(t)
               \/ Unregister(t)
      BY <2>3, <2>4, <3>5 DEF RegisterSend, WsaSend, WsaSendFails, Clear, Unregister,
         Disconnects, At
    <3>. QED
      BY <2>5, <3>1, <3>2, <3>3, <3>4, <3>5 DEF Inside
  <2>6. ASSUME NEW t \in Threads, Locking(t)  PROVE FALSE
    BY <2>3, <2>4, <2>6 DEF Locking, Push, Drain, Sent, Claims, At
  <2>7. ASSUME NEW t \in Threads, Completion(t)  PROVE FALSE
    <3>1. CASE ProcessConnect(t)
      BY <2>1, <2>3, <3>1 DEF ProcessConnect, Goto
    <3>2. CASE ProcessRecv(t)
      BY <2>1, <2>3, <3>2 DEF ProcessRecv, Refuses, Disconnects, Goto
    <3>3. CASE ProcessSend(t)
      BY <2>3, <2>4, <3>3 DEF ProcessSend, Disconnects, At
    <3>4. CASE ProcessDisconnect(t)
      BY <2>1, <2>2, <2>3, <3>4 DEF ProcessDisconnect
    <3>. QED
      BY <2>7, <3>1, <3>2, <3>3, <3>4 DEF Completion
  <2>8. ASSUME NEW t \in Threads, Call(t)  PROVE FALSE
    BY <2>3, <2>4, <2>8 DEF Call, Send, CallDisconnect, Disconnects, At
  <2>9. CASE UNCHANGED vars
    BY <2>1, <2>2, <2>9 DEF vars
  <2>. QED
    BY <2>5, <2>6, <2>7, <2>8, <2>9 DEF Next
<1>. QED
  BY <1>1, SpecInv, PTL DEF Spec, DeafOnlyByFailure

-----------------------------------------------------------------------------
(* Send keeps the promise of SendChannel.                                  *)

LEMMA BatchTypes ==
    ASSUME Inv
    PROVE  /\ queue \in Seq(Buffer) /\ sendBuffers \in Seq(Buffer) /\ wire \in Seq(Buffer)
           /\ Batch \in Seq(Buffer) /\ UpTo(Batch, accepted)
<1>1. <<>> \in Seq(Buffer) /\ UpTo(<<>>, accepted)
  BY DEF UpTo
<1>. QED
  BY <1>1 DEF Inv, TypeOK, Batch, SendersBuffers

(* One thread at most has a batch, and has claimed the flag for it.        *)
LEMMA OneBatch ==
    ASSUME Inv, NEW t \in Threads, Task(t) \in SendTask \/ posted["Send"] > 0,
           pc[t] # "wsaSend"
    PROVE  Batch = <<>>
BY DEF Inv, OneSender, Task, SendTask, Disconnecting, Batch

LEMMA SameChannel ==
    ASSUME UNCHANGED <<queue, wire>>,
           \/ /\ UNCHANGED sendBuffers
              /\ \A u \in Threads : pc'[u] = "wsaSend" <=> pc[u] = "wsaSend"
           \/ Batch = <<>> /\ \A u \in Threads : pc'[u] # "wsaSend"
    PROVE  UNCHANGED Channel!channel
<1>1. Batch' = Batch
  BY DEF Batch
<1>. QED
  BY <1>1 DEF Channel!channel

LEMMA PushAccepts ==
    ASSUME Inv, Inv', NEW t \in Threads, Push(t)
    PROVE  \E b \in Buffer : Channel!Accept(b)
<1>1. accepted' \in Buffer /\ accepted \in Nat /\ accepted' = accepted + 1
  <2>1. accepted' \in 0..MaxSends /\ accepted \in 0..MaxSends /\ MaxSends \in Nat
    BY SendsAssumption DEF Inv, TypeOK
  <2>. QED
    BY <2>1 DEF Push, Buffer
<1>2. /\ queue \in Seq(Buffer) /\ wire \in Seq(Buffer) /\ Batch \in Seq(Buffer)
      /\ UpTo(Batch, accepted)
  BY BatchTypes
<1>3. UpTo(Batch \o queue, accepted) /\ UpTo(wire, accepted)
  BY <1>2, UpToConcat DEF Inv, SendersBuffers
<1>4. ASSUME NEW s \in Seq(Buffer), UpTo(s, accepted)  PROVE Channel!Newer(accepted', s)
  <2>1. \A i \in 1..Len(s) : s[i] \in Nat
    BY Numbers
  <2>. QED
    BY <1>1, <1>4, <2>1 DEF UpTo, Channel!Newer
<1>5. Channel!Newer(accepted', wire) /\ Channel!Newer(accepted', Batch \o queue)
  BY <1>2, <1>3, <1>4, ConcatProperties
<1>6. Batch' = Batch
  <2>1. \A u \in Threads : pc'[u] = "wsaSend" <=> pc[u] = "wsaSend"
    BY DEF Push, Claims, Goto, At, Inv, TypeOK
  <2>. QED
    BY <2>1 DEF Batch, Push
<1>7. (Batch \o queue)' = Append(Batch \o queue, accepted')
  <2>1. Append(queue, accepted') = queue \o <<accepted'>>
    BY <1>1, <1>2, AppendIsConcat
  <2>2. Append(Batch \o queue, accepted') = (Batch \o queue) \o <<accepted'>>
    BY <1>1, <1>2, AppendIsConcat, ConcatProperties
  <2>3. <<accepted'>> \in Seq(Buffer)
    BY <1>1
  <2>4. (Batch \o queue) \o <<accepted'>> = Batch \o (queue \o <<accepted'>>)
    BY <1>2, <2>3, ConcatAssociative
  <2>. QED
    BY <1>6, <2>1, <2>2, <2>4 DEF Push
<1>. QED
  BY <1>1, <1>5, <1>7 DEF Channel!Accept, Push

(* A batch that leaves is the oldest part of what is pending.              *)
LEMMA BatchLeaves ==
    ASSUME Inv, NEW t \in Threads, pc[t] = "wsaSend", UNCHANGED queue,
           \A u \in Threads : pc'[u] # "wsaSend"
    PROVE  /\ Len(sendBuffers) \in 1..Len(Batch \o queue)
           /\ SubSeq(Batch \o queue, 1, Len(sendBuffers)) = sendBuffers
           /\ (Batch \o queue)' =
                 SubSeq(Batch \o queue, Len(sendBuffers) + 1, Len(Batch \o queue))
<1>1. /\ sendBuffers \in Seq(Buffer) /\ queue \in Seq(Buffer) /\ Batch = sendBuffers
      /\ Batch' = <<>> /\ sendBuffers # <<>>
  BY BatchTypes DEF Batch, Inv, SendersBuffers, Task, Disconnecting
<1>. DEFINE n == Len(sendBuffers)
            m == Len(queue)
<1>2. n \in Nat \ {0} /\ m \in Nat /\ Len(sendBuffers \o queue) = n + m
  BY <1>1, EmptySeq, LenProperties, ConcatProperties
<1>3. SubSeq(sendBuffers \o queue, 1, n) = sendBuffers
  <2>1. 1 \in 1..n /\ n \in 1..n
    BY <1>2
  <2>2. SubSeq(sendBuffers \o queue, 1, n) = SubSeq(sendBuffers, 1, n)
    BY <1>1, <2>1, SubSeqOfConcat1
  <2>. QED
    BY <1>1, <2>2, SubSeqFull
<1>4. queue = SubSeq(sendBuffers \o queue, n + 1, n + m)
  <2>1. CASE m = 0
    <3>1. queue = <<>>
      BY <1>1, <2>1, EmptySeq
    <3>2. SubSeq(sendBuffers \o queue, n + 1, n + m) = <<>>
      <4>1. n + 1 \in Int /\ n + m \in Int /\ n + m < n + 1
        BY <1>2, <2>1
      <4>. QED
        BY <4>1, SubSeqEmpty
    <3>. QED
      BY <3>1, <3>2
  <2>2. CASE m # 0
    <3>1. n + 1 \in n + 1..n + m /\ n + m \in n + 1..n + m
      BY <1>2, <2>2
    <3>2. SubSeq(sendBuffers \o queue, n + 1, n + m) = SubSeq(queue, n + 1 - n, n + m - n)
      BY <1>1, <3>1, SubSeqOfConcat2
    <3>3. n + 1 - n = 1 /\ n + m - n = m
      BY <1>2
    <3>4. SubSeq(queue, 1, m) = queue
      BY <1>1, SubSeqFull
    <3>. QED
      BY <3>2, <3>3, <3>4
  <2>. QED
    BY <2>1, <2>2
<1>5. (Batch \o queue)' = queue
  BY <1>1, ConcatEmptySeq
<1>. QED
  BY <1>1, <1>2, <1>3, <1>4, <1>5

(* After a step of the flag's owner nobody has a batch, but who drains.    *)
LEMMA NoBatchAfter ==
    ASSUME Inv, NEW t \in Threads, Task(t) \in SendTask \/ posted["Send"] > 0,
           NEW l, l # "wsaSend", Goto(t, l)
    PROVE  \A u \in Threads : pc'[u] # "wsaSend"
<1>1. \A u \in Threads \ {t} : pc[u] # "wsaSend"
  BY DEF Inv, OneSender, Task, SendTask, Disconnecting
<1>. QED
  BY <1>1 DEF Inv, TypeOK, Goto

LEMMA StepIsChannel ==
    Inv /\ Inv' /\ [Next]_vars => [Channel!ChannelNext]_(Channel!channel)
<1>. SUFFICES ASSUME Inv, Inv', [Next]_vars
              PROVE  Channel!ChannelNext \/ UNCHANGED Channel!channel
  BY DEF Channel!channel
<1>1. ASSUME NEW t \in Threads, Push(t)  PROVE Channel!ChannelNext
  BY <1>1, PushAccepts DEF Channel!ChannelNext
<1>2. ASSUME NEW t \in Threads, Drain(t)  PROVE UNCHANGED Channel!channel
  <2>1. /\ pc[t] = "drain" /\ Task(t) = "drain" /\ pc'[t] = "wsaSend" /\ UNCHANGED wire
        /\ sendBuffers' = sendBuffers \o queue /\ queue' = <<>>
    BY <1>2 DEF Drain, At, Goto, Task, Disconnecting, Inv, TypeOK
  <2>2. Batch = <<>> /\ Batch' = sendBuffers'
    BY <2>1, OneBatch DEF SendTask, Batch
  <2>3. sendBuffers = <<>>
    BY <2>1 DEF Inv, SendersBuffers, OneSender, SendTask
  <2>4. sendBuffers' \o <<>> = sendBuffers' /\ <<>> \o queue = queue
    BY ConcatEmptySeq, BatchTypes DEF Inv, TypeOK
  <2>. QED
    BY <2>1, <2>2, <2>3, <2>4 DEF Channel!channel
<1>3. ASSUME NEW t \in Threads, WsaSend(t)  PROVE Channel!ChannelNext
  <2>1. pc[t] = "wsaSend" /\ Task(t) = "wsaSend" /\ Goto(t, "idle")
    BY <1>3 DEF WsaSend, At, Task, Disconnecting
  <2>2. \A u \in Threads : pc'[u] # "wsaSend"
    BY <2>1, NoBatchAfter DEF SendTask
  <2>. QED
    BY <1>3, <2>1, <2>2, BatchLeaves DEF WsaSend, Channel!ChannelNext, Channel!Transmit
<1>4. ASSUME NEW t \in Threads, WsaSendFails(t)  PROVE Channel!ChannelNext
  <2>1. pc[t] = "wsaSend" /\ Task(t) = "wsaSend"
    BY <1>4 DEF WsaSendFails, At, Task, Disconnecting
  <2>2. Goto(t, "disconnect") \/ Goto(t, "clear")
    BY <1>4 DEF WsaSendFails, Disconnects
  <2>3. \A u \in Threads : pc'[u] # "wsaSend"
    BY <2>1, <2>2, NoBatchAfter DEF SendTask
  <2>. QED
    BY <1>4, <2>1, <2>3, BatchLeaves DEF WsaSendFails, Channel!ChannelNext, Channel!GiveUp
<1>5. ASSUME NEW t \in Threads, NEW l, l # "wsaSend", Goto(t, l), pc[t] # "wsaSend",
             UNCHANGED <<queue, wire>>,
             UNCHANGED sendBuffers \/ Task(t) \in SendTask \/ posted["Send"] > 0
      PROVE  UNCHANGED Channel!channel
  <2>1. CASE UNCHANGED sendBuffers
    <3>1. \A u \in Threads : pc'[u] = "wsaSend" <=> pc[u] = "wsaSend"
      BY <1>5 DEF Goto, Inv, TypeOK
    <3>. QED
      BY <1>5, <2>1, <3>1, SameChannel
  <2>2. CASE Task(t) \in SendTask \/ posted["Send"] > 0
    BY <1>5, <2>2, OneBatch, NoBatchAfter, SameChannel
  <2>. QED
    BY <1>5, <2>1, <2>2
<1>6. ASSUME NEW t \in Threads, \/ RegisterSend(t) \/ Clear(t) \/ Unregister(t) \/ Sent(t)
                                \/ ProcessSend(t)
      PROVE  UNCHANGED Channel!channel
  <2>1. CASE Clear(t)
    <3>1. pc[t] = "clear" /\ Task(t) \in SendTask
      BY <2>1 DEF Clear, At, Task, SendTask, Disconnecting
    <3>. QED
      BY <1>5, <2>1, <3>1 DEF Clear
  <2>2. CASE RegisterSend(t) \/ Unregister(t) \/ Sent(t)
    BY <1>5, <2>2 DEF RegisterSend, Unregister, Sent, At
  <2>3. CASE ProcessSend(t)
    BY <1>5, <2>3 DEF ProcessSend, Disconnects, At
  <2>. QED
    BY <1>6, <2>1, <2>2, <2>3
<1>7. ASSUME NEW t \in Threads, UNCHANGED sending,
             NEW l \in PC, Goto(t, l), l # "wsaSend", pc[t] # "wsaSend"
      PROVE  UNCHANGED Channel!channel
  BY <1>5, <1>7 DEF sending
<1>8. ASSUME NEW t \in Threads, \/ RegisterRecv(t) \/ WsaRecv(t) \/ RecvFailed(t)
                                \/ ProcessRecv(t) \/ ProcessConnect(t)
      PROVE  UNCHANGED Channel!channel
  BY <1>7, <1>8 DEF RegisterRecv, WsaRecv, RecvFailed, ProcessRecv, ProcessConnect, Refuses,
     Disconnects, At, PC
<1>9. ASSUME NEW t \in Threads, \/ Disconnect(t) \/ RegisterDisconnect(t) \/ Send(t)
                                \/ CallDisconnect(t)
      PROVE  UNCHANGED Channel!channel
  <2>1. ret[t] \in PC /\ ret[t] # "wsaSend"
    BY DEF Inv, TypeOK, Calling
  <2>. QED
    BY <1>7, <1>9, <2>1 DEF Disconnect, RegisterDisconnect, Send, CallDisconnect, Disconnects,
       Return, At, PC
<1>10. ASSUME NEW t \in Threads, ProcessDisconnect(t)  PROVE UNCHANGED Channel!channel
  BY <1>10, SameChannel DEF ProcessDisconnect, sending
<1>11. CASE UNCHANGED vars
  BY <1>11, SameChannel DEF vars
<1>. QED
  BY <1>1, <1>2, <1>3, <1>4, <1>6, <1>8, <1>9, <1>10, <1>11
     DEF Next, Inside, Locking, Completion, Call

(* Whatever happens to the connection, buffers go to WSASend in the order  *)
(* in which Send accepted them, and none twice.                            *)
THEOREM SessionIsChannel == Spec => ImplementsChannel
<1>1. Init => Batch \o queue = <<>> /\ wire = <<>>
  <2>. SUFFICES ASSUME Init  PROVE Batch \o queue = <<>> /\ wire = <<>>
    OBVIOUS
  <2>1. Batch = <<>> /\ queue = <<>> /\ wire = <<>>
    BY DEF Init, Batch
  <2>2. <<>> \o <<>> = <<>>
    BY ConcatEmptySeq
  <2>. QED
    BY <2>1, <2>2
<1>. QED
  BY <1>1, StepIsChannel, SpecInv, PTL DEF Spec, ImplementsChannel, Channel!ChannelSpec

=============================================================================
