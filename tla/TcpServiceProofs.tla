--------------------------- MODULE TcpServiceProofs ---------------------------
(***************************************************************************)
(* TcpService for any workers, sessions, accept events and failures: no    *)
(* accept event is lost or armed twice, the two sets of sessions agree,    *)
(* Broadcast never visits a removed element, and ReleaseSession never      *)
(* fails its assertion.                                                    *)
(***************************************************************************)
EXTENDS TcpService, FiniteSetTheorems, TLAPS

Leaving == {"onDisconnected", "release"}

(* What a thread carries along at each place.                              *)
Shape(t) ==
    /\ pc[t].at \in {"idle", "broadcast"} => pc[t].slot = 0 /\ pc[t].session = NoSession
    /\ pc[t].at = "accept" => pc[t].slot # 0 /\ pc[t].session = NoSession
    /\ pc[t].at \in {"onConnected", "regRecv"} \cup Leaving => pc[t].session \in Session
    /\ pc[t].at \in Leaving => pc[t].slot = 0

(* Each accept event is in one place.                                      *)
Slots ==
    /\ armed \subseteq 1..started
    /\ armed # {} => type = "Server"
    /\ \A t \in Thread : pc[t].slot # 0 =>
          type = "Server" /\ pc[t].slot \in (1..started) \ armed
    /\ \A t, u \in Thread : pc[t].slot # 0 /\ pc[t].slot = pc[u].slot => t = u
    /\ type = "Server" =>
          \A k \in 1..started : k \in armed \/ \E t \in Thread : pc[t].slot = k

(* An event that is armed has a session, and no two have the same.         *)
Accepting ==
    /\ \A k \in armed : accepting[k] \in Session
    /\ \A j, k \in Slot : accepting[j] = accepting[k] /\ accepting[j] \in Session => j = k

(* A connection that has yet to be made.                                   *)
Awaited(s) == "Connect" \in posted[s] \/ \E k \in armed : accepting[k] = s

(* The life of a session, from nobody knows it to nobody needs it.         *)
Life(s) ==
    /\ Awaited(s) =>
          /\ s \notin sessions \cup managed /\ ~connected[s] /\ posted[s] \subseteq {"Connect"}
          /\ \A t \in Thread : pc[t].session # s
    /\ "Connect" \in posted[s] => \A k \in Slot : accepting[k] # s
    /\ connected[s] =>
          /\ s \in sessions /\ "Disconnect" \notin posted[s]
          /\ s \in managed \/ \E t \in Thread : pc[t].at = "onConnected" /\ pc[t].session = s
    /\ "Disconnect" \in posted[s] => s \in sessions
    /\ \A t \in Thread : pc[t].session = s /\ pc[t].at = "onConnected" =>
          /\ connected[s] /\ posted[s] = {} /\ s \notin managed
          /\ \A u \in Thread : pc[u].session = s => u = t
    /\ \A t \in Thread : pc[t].session = s /\ pc[t].at \in Leaving =>
          /\ ~connected[s] /\ "Disconnect" \notin posted[s] /\ s \in sessions
          /\ pc[t].at = "release" => s \notin managed
          /\ \A u \in Thread : pc[u].session = s /\ pc[u].at \in Leaving => u = t

(* A Broadcast under way holds the manager's lock.                         *)
Sending == todo \subseteq managed /\ (todo # {} => ManagerLocked)

Inv ==
    /\ TypeOK /\ \A t \in Thread : Shape(t)
    /\ Slots /\ Accepting /\ \A s \in Session : Life(s)
    /\ SetsAgree /\ Sending /\ crashed # "assert"

-----------------------------------------------------------------------------
LEMMA InitInv == Init => Inv
<1>. SUFFICES ASSUME Init  PROVE Inv
  OBVIOUS
<1>. USE DEF Init
<1>1. \A t \in Thread : pc[t] = Idle
  OBVIOUS
<1>2. Cardinality({}) = 0
  BY FS_EmptySet
<1>3. TypeOK
  BY <1>1, CountAssumption DEF TypeOK, PC, Idle
<1>4. (\A t \in Thread : Shape(t)) /\ Slots
  BY <1>1 DEF Shape, Slots, Leaving, Idle
<1>5. Accepting
  BY SessionAssumption DEF Accepting
<1>6. \A s \in Session : Life(s)
  BY <1>1, SessionAssumption DEF Life, Awaited, Leaving, Idle
<1>. QED
  BY <1>2, <1>3, <1>4, <1>5, <1>6 DEF Inv, SetsAgree, Sending

(* The accept events stay where they are.                                  *)
LEMMA SameSlots ==
    ASSUME Slots, Accepting, UNCHANGED <<type, started, accepting, armed>>,
           \A t \in Thread : pc'[t].slot = pc[t].slot
    PROVE  Slots' /\ Accepting'
BY DEF Slots, Accepting

(* A step that does not concern s.                                         *)
Apart(s) ==
    /\ posted'[s] = posted[s] /\ connected'[s] = connected[s]
    /\ (s \in sessions' <=> s \in sessions) /\ (s \in managed' <=> s \in managed)
    /\ \A t \in Thread : /\ pc'[t].session = s <=> pc[t].session = s
                         /\ pc[t].session = s => pc'[t].at = pc[t].at
    /\ \A k \in Slot : accepting'[k] = s => accepting[k] = s
    /\ \A k \in armed' : accepting'[k] = s => k \in armed /\ accepting[k] = s

LEMMA SameLife ==
    ASSUME NEW s \in Session, Life(s), Apart(s)
    PROVE  Life(s)'
BY DEF Life, Apart, Awaited

(* Steps with a session s that is known to its service, or was: a receive, *)
(* a Disconnect, or neither.                                               *)
Quiet(at) == at \notin {"onConnected"} \cup Leaving

LEMMA KnownLife ==
    ASSUME Inv, NEW s \in Session, ~Awaited(s),
           \A t \in Thread : pc[t].session = s => pc[t].at # "onConnected",
           UNCHANGED <<sessions, managed, accepting, armed>>,
           \A r \in Session \ {s} : posted'[r] = posted[r] /\ connected'[r] = connected[r],
           "Connect" \notin posted'[s],
           connected'[s] => connected[s] /\ "Disconnect" \notin posted'[s],
           "Disconnect" \in posted'[s] =>
               "Disconnect" \in posted[s] \/ (connected[s] /\ ~connected'[s]),
           \A t \in Thread :
               \/ pc'[t] = pc[t]
               \/ Quiet(pc[t].at) /\ Quiet(pc'[t].at) /\ pc'[t].session \in {s, NoSession}
    PROVE  \A r \in Session : Life(r)'
<1>1. Life(s)'
  <2>1. Life(s)
    BY DEF Inv
  <2>2. ~Awaited(s)'
    BY DEF Awaited
  <2>. QED
    BY <2>1, <2>2, SessionAssumption DEF Life, Quiet
<1>2. ASSUME NEW r \in Session \ {s}  PROVE Life(r)'
  <2>1. Life(r)
    BY DEF Inv
  <2>2. \A t \in Thread : pc'[t].session = r => pc'[t] = pc[t]
    BY SessionAssumption
  <2>3. \A t \in Thread : pc[t].session = r => pc'[t] = pc[t] \/ Quiet(pc[t].at)
    OBVIOUS
  <2>4. Awaited(r)' => Awaited(r)
    BY DEF Awaited
  <2>. QED
    BY <2>1, <2>2, <2>3, <2>4 DEF Life, Quiet
<1>. QED
  BY <1>1, <1>2

(* Disconnect(s) with the kernel's events ps, and what KnownLife asks.     *)
LEMMA DisconnectsOnce ==
    ASSUME Inv, NEW s \in Session, ~Awaited(s), NEW ps \in [Session -> SUBSET Event],
           \A r \in Session \ {s} : ps[r] = posted[r], ps[s] \subseteq posted[s],
           Disconnects(s, ps)
    PROVE  /\ posted' \in [Session -> SUBSET Event] /\ connected' \in [Session -> BOOLEAN]
           /\ \A r \in Session \ {s} : posted'[r] = posted[r] /\ connected'[r] = connected[r]
           /\ "Connect" \notin posted'[s] /\ ~connected'[s]
           /\ "Disconnect" \in posted'[s] => "Disconnect" \in posted[s] \/ connected[s]
BY DEF Inv, TypeOK, Disconnects, Disconnecting, Awaited, Event

-----------------------------------------------------------------------------
(* Connections: the two starts, the accept events.                         *)
LEMMA StartClientInv == Inv /\ StartClient => Inv'
<1>. SUFFICES ASSUME Inv, StartClient  PROVE Inv'
  OBVIOUS
<1>. USE DEF StartClient, link, sets, Inv
<1>1. started' \in 0..MaxSessionCount /\ started <= started'
  BY CountAssumption DEF TypeOK
<1>2. TypeOK'
  BY <1>1 DEF TypeOK, Free, Event
<1>3. Slots' /\ Accepting'
  <2>1. type = "Client" /\ armed = {}
    BY DEF Slots
  <2>. QED
    BY <2>1, <1>1 DEF Slots, Accepting
<1>4. \A s \in Session : Life(s)'
  <2>1. CASE UNCHANGED link
    BY <2>1 DEF Life, Awaited
  <2>2. ASSUME NEW r \in Free, posted' = [posted EXCEPT ![r] = {"Connect"}],
               connected' = [connected EXCEPT ![r] = FALSE]
        PROVE  \A s \in Session : Life(s)'
    <3>1. /\ r \in Session \ (sessions \cup managed) /\ \A k \in Slot : accepting[k] # r
          /\ \A t \in Thread : pc[t].session # r
      BY <2>2 DEF Free
    <3>2. /\ posted'[r] = {"Connect"} /\ ~connected'[r]
          /\ \A s \in Session \ {r} : posted'[s] = posted[s] /\ connected'[s] = connected[s]
      BY <2>2, <3>1 DEF TypeOK
    <3>3. Life(r)'
      BY <3>1, <3>2 DEF Life
    <3>4. ASSUME NEW s \in Session \ {r}  PROVE Life(s)'
      BY <3>2, SameLife DEF Apart
    <3>. QED
      BY <3>3, <3>4
  <2>. QED
    BY <2>1, <2>2
<1>. QED
  BY <1>2, <1>3, <1>4 DEF Shape, SetsAgree, Sending, ManagerLocked

LEMMA StartAcceptInv == Inv /\ StartAccept => Inv'
<1>. SUFFICES ASSUME Inv, StartAccept  PROVE Inv'
  OBVIOUS
<1>. USE DEF StartAccept, link, sets, Inv
<1>1. started' = started + 1 /\ started' \in 1..MaxSessionCount /\ started \in Nat
  BY CountAssumption DEF TypeOK
<1>2. /\ Main \in Thread /\ pc[Main].at = "idle"
      /\ pc[Main].slot = 0 /\ pc[Main].session = NoSession
  BY DEF Thread, At, Shape
<1>3. /\ pc'[Main] = [at |-> "accept", slot |-> started', session |-> NoSession]
      /\ \A t \in Thread \ {Main} : pc'[t] = pc[t]
  BY <1>2 DEF Goes, TypeOK
<1>4. TypeOK'
  <2>1. [at |-> "accept", slot |-> started', session |-> NoSession] \in PC
    BY <1>1 DEF PC, Slot
  <2>. QED
    BY <1>1, <1>2, <2>1, CountAssumption DEF TypeOK, Goes
<1>5. \A t \in Thread : Shape(t)'
  BY <1>1, <1>3 DEF Shape, Leaving
<1>6. Slots'
  <2>1. \A t \in Thread : pc[t].slot # started'
    BY <1>1 DEF Slots
  <2>2. armed \subseteq 1..started' /\ started' \notin armed
    BY <1>1 DEF Slots
  <2>3. \A k \in 1..started' : k = started' \/ k \in 1..started
    BY <1>1
  <2>4. 1..started \subseteq 1..started'
    BY <1>1
  <2>5. type' = "Server" =>
           \A k \in 1..started' : k \in armed' \/ \E t \in Thread : pc'[t].slot = k
    <3>1. ASSUME NEW k \in 1..started, type = "Server"
          PROVE  k \in armed \/ \E t \in Thread : pc'[t].slot = k
      <4>1. k # 0
        BY <1>1
      <4>. QED
        BY <1>2, <1>3, <3>1, <4>1 DEF Slots
    <3>. QED
      BY <1>2, <1>3, <2>3, <3>1
  <2>6. \A t \in Thread : pc'[t].slot # 0 =>
           type' = "Server" /\ pc'[t].slot \in (1..started') \ armed'
    BY <1>1, <1>3, <2>2, <2>4 DEF Slots
  <2>. QED
    BY <1>2, <1>3, <2>1, <2>2, <2>5, <2>6 DEF Slots
<1>7. Accepting'
  BY DEF Accepting
<1>8. \A s \in Session : Life(s)'
  BY <1>2, <1>3, SameLife, SessionAssumption DEF Apart
<1>9. todo' # {} => ManagerLocked'
  BY <1>2, <1>3 DEF Sending, ManagerLocked
<1>. QED
  BY <1>4, <1>5, <1>6, <1>7, <1>8, <1>9 DEF SetsAgree, Sending

LEMMA RegisterAcceptInv ==
    ASSUME Inv, NEW t \in Thread, RegisterAccept(t)
    PROVE  Inv'
<1>. USE DEF RegisterAccept, boot, sets, Inv
<1>. DEFINE k == pc[t].slot
<1>1. /\ pc[t].at = "accept" /\ k # 0 /\ k \in Slot /\ k \in (1..started) \ armed
      /\ pc[t].session = NoSession /\ type = "Server"
  BY DEF At, Shape, Slots, TypeOK, PC
<1>2. PICK s \in Free : /\ accepting' = [accepting EXCEPT ![k] = s]
                        /\ connected' = [connected EXCEPT ![s] = FALSE]
                        /\ linked' = [linked EXCEPT ![s] = FALSE]
  OBVIOUS
<1>3. /\ s \in Session \ (sessions \cup managed) /\ posted[s] = {}
      /\ \A j \in Slot : accepting[j] # s
      /\ \A u \in Thread : pc[u].session # s
  BY <1>2 DEF Free
<1>4. /\ accepting'[k] = s /\ \A j \in Slot \ {k} : accepting'[j] = accepting[j]
      /\ ~connected'[s] /\ \A r \in Session \ {s} : connected'[r] = connected[r]
  BY <1>1, <1>2, <1>3 DEF TypeOK
<1>5. armed' \subseteq armed \cup {k} /\ armed \subseteq armed'
  OBVIOUS
<1>6. \/ armed' = armed \cup {k} /\ pc'[t] = Idle /\ \A u \in Thread \ {t} : pc'[u] = pc[u]
      \/ armed' = armed /\ \A u \in Thread : pc'[u] = pc[u]
  BY DEF Returns, Retry, TypeOK
<1>7. TypeOK'
  <2>1. Idle \in PC
    BY DEF Idle, PC
  <2>2. pc' \in [Thread -> PC]
    BY <2>1 DEF Returns, Retry, TypeOK
  <2>. QED
    BY <1>1, <1>2, <1>3, <1>5, <2>2 DEF TypeOK
<1>8. \A u \in Thread : Shape(u)'
  BY <1>6 DEF Shape, Idle, Leaving
<1>9. Slots'
  <2>1. CASE armed' = armed /\ \A u \in Thread : pc'[u] = pc[u]
    BY <2>1 DEF Slots
  <2>2. CASE armed' = armed \cup {k} /\ pc'[t] = Idle /\ \A u \in Thread \ {t} : pc'[u] = pc[u]
    <3>1. \A u \in Thread \ {t} : pc[u].slot # k
      BY <1>1 DEF Slots
    <3>. QED
      BY <1>1, <2>2, <3>1 DEF Slots, Idle
  <2>. QED
    BY <1>6, <2>1, <2>2
<1>10. Accepting'
  <2>1. armed \subseteq Slot
    BY DEF TypeOK
  <2>. QED
    BY <1>1, <1>3, <1>4, <1>5, <2>1 DEF Accepting
<1>11. ASSUME NEW r \in Session  PROVE Life(r)'
  <2>1. /\ pc'[t].session = NoSession /\ pc'[t].at \in {"idle", "accept"}
        /\ \A u \in Thread \ {t} : pc'[u] = pc[u]
    BY <1>1, <1>6 DEF Idle
  <2>2. CASE r = s
    BY <1>3, <1>4, <2>1, <2>2, SessionAssumption DEF Life
  <2>3. CASE r # s
    <3>1. Apart(r)
      <4>1. ASSUME NEW u \in Thread
            PROVE  /\ pc'[u].session = r <=> pc[u].session = r
                   /\ pc[u].session = r => pc'[u].at = pc[u].at
        BY <1>1, <2>1, SessionAssumption
      <4>2. \A j \in Slot : accepting'[j] = r => j # k /\ accepting[j] = r
        BY <1>4, <2>3
      <4>3. \A j \in armed' : j \in Slot
        BY <1>1, <1>5 DEF TypeOK
      <4>. QED
        BY <1>4, <1>5, <2>3, <4>1, <4>2, <4>3 DEF Apart
    <3>. QED
      BY <3>1, SameLife
  <2>. QED
    BY <2>2, <2>3
<1>12. Sending'
  BY <1>1, <1>6 DEF Sending, ManagerLocked, Idle
<1>. QED
  BY <1>7, <1>8, <1>9, <1>10, <1>11, <1>12 DEF SetsAgree

(* A new connection is known to the service, and to the thread that tells  *)
(* the content.                                                            *)
LEMMA ConnectsLife ==
    ASSUME Inv, NEW t \in Thread, NEW s \in Session, Awaited(s), Connects(t, s),
           NEW n, pc[t].at = "idle", Goes(t, "onConnected", n, s),
           UNCHANGED <<managed, accepting>>, armed' \subseteq armed,
           posted' \in [Session -> SUBSET Event], posted'[s] = {},
           \A r \in Session \ {s} : posted'[r] = posted[r],
           \A k \in armed' : accepting[k] # s
    PROVE  /\ \A r \in Session : Life(r)'
           /\ connected' \in [Session -> BOOLEAN]
           /\ sessions' \subseteq Session /\ count' \in Nat /\ SetsAgree'
<1>1. /\ s \notin sessions \cup managed /\ \A u \in Thread : pc[u].session # s
  BY DEF Inv, Life
<1>2. /\ connected' \in [Session -> BOOLEAN] /\ connected'[s]
      /\ \A r \in Session \ {s} : connected'[r] = connected[r]
      /\ sessions' = sessions \cup {s} /\ sessions \subseteq Session /\ count' = count + 1
  BY DEF Inv, TypeOK, Connects
<1>3. /\ pc[t].session = NoSession
      /\ pc'[t] = [at |-> "onConnected", slot |-> n, session |-> s]
      /\ \A u \in Thread \ {t} : pc'[u] = pc[u]
  BY DEF Inv, TypeOK, Goes, Shape
<1>4. Life(s)'
  BY <1>1, <1>2, <1>3 DEF Life, Awaited, Leaving
<1>5. ASSUME NEW r \in Session \ {s}  PROVE Life(r)'
  <2>1. ASSUME NEW u \in Thread
        PROVE  /\ pc'[u].session = r <=> pc[u].session = r
               /\ pc[u].session = r => pc'[u].at = pc[u].at
    BY <1>3, SessionAssumption
  <2>2. Apart(r)
    BY <1>2, <2>1 DEF Apart
  <2>. QED
    BY <2>2, SameLife DEF Inv
<1>6. count' \in Nat /\ SetsAgree'
  <2>1. IsFiniteSet(sessions)
    BY <1>2, FS_Subset, SessionAssumption
  <2>2. Cardinality(sessions') = Cardinality(sessions) + 1
    BY <1>1, <1>2, <2>1, FS_AddElement
  <2>. QED
    BY <1>2, <2>2 DEF Inv, TypeOK, SetsAgree
<1>. QED
  BY <1>2, <1>4, <1>5, <1>6

LEMMA ProcessAcceptInv ==
    ASSUME Inv, NEW t \in Thread, NEW k \in Slot, ProcessAccept(t, k)
    PROVE  Inv'
<1>. USE DEF ProcessAccept, boot, Inv
<1>1. pc[t].at = "idle" /\ pc[t].slot = 0 /\ pc[t].session = NoSession /\ k \in armed
  BY DEF At, Shape
<1>. PICK s \in Session : s = accepting[k]
  BY <1>1 DEF Accepting
<1>2. /\ s \in Session /\ type = "Server" /\ k \in 1..started /\ k # 0
      /\ \A j \in armed \ {k} : accepting[j] # s
  BY <1>1 DEF Slots, Accepting, TypeOK, Slot
<1>3. Awaited(s) /\ posted[s] = {}
  BY <1>1, <1>2 DEF Awaited, Life
<1>4. PICK l \in {"onConnected", "accept"}, r \in {s, NoSession} :
        /\ Goes(t, l, k, r)
        /\ (l = "onConnected" /\ r = s) \/ (l = "accept" /\ r = NoSession)
  OBVIOUS
<1>5. /\ pc'[t] = [at |-> l, slot |-> k, session |-> r]
      /\ \A u \in Thread \ {t} : pc'[u] = pc[u]
  BY <1>4 DEF Goes, TypeOK
<1>6. pc' \in [Thread -> PC] /\ \A u \in Thread : Shape(u)'
  <2>1. [at |-> l, slot |-> k, session |-> r] \in PC
    BY <1>2, <1>4 DEF PC
  <2>2. pc' \in [Thread -> PC]
    BY <1>4, <2>1 DEF Goes, TypeOK
  <2>. QED
    BY <1>2, <1>4, <1>5, <2>2 DEF Shape, Leaving
<1>7. Slots'
  <2>1. \A u \in Thread : pc[u].slot # k
    BY <1>1, <1>2 DEF Slots
  <2>2. pc'[t].slot = k /\ \A u \in Thread \ {t} : pc'[u].slot = pc[u].slot
    BY <1>5
  <2>3. \A j \in 1..started : j \in armed' \/ \E u \in Thread : pc'[u].slot = j
    <3>1. ASSUME NEW j \in 1..started, NEW u \in Thread, pc[u].slot = j
          PROVE  pc'[u].slot = j
      BY <1>1, <2>2, <3>1
    <3>. QED
      BY <1>2, <2>2, <3>1 DEF Slots
  <2>4. \A u \in Thread : pc'[u].slot # 0 => pc'[u].slot \in (1..started) \ armed'
    BY <1>2, <2>1, <2>2 DEF Slots
  <2>. QED
    BY <1>1, <1>2, <2>1, <2>2, <2>3, <2>4 DEF Slots
<1>8. Accepting'
  BY DEF Accepting
<1>9. Sending'
  BY <1>1, <1>5 DEF Sending, ManagerLocked
<1>10. CASE Goes(t, "onConnected", k, s) /\ Connects(t, s)
             /\ linked' = [linked EXCEPT ![s] = TRUE]
  <2>1. /\ \A q \in Session : Life(q)'
        /\ connected' \in [Session -> BOOLEAN]
        /\ sessions' \subseteq Session /\ count' \in Nat /\ SetsAgree'
    <3>1. posted' \in [Session -> SUBSET Event] /\ posted'[s] = {}
      BY <1>3 DEF TypeOK
    <3>2. armed' \subseteq armed /\ \A j \in armed' : accepting[j] # s
      BY <1>2
    <3>. QED
      BY <1>1, <1>2, <1>3, <1>10, <3>1, <3>2, ConnectsLife
  <2>2. TypeOK'
    BY <1>6, <1>10, <2>1 DEF TypeOK
  <2>. QED
    BY <1>6, <1>7, <1>8, <1>9, <2>1, <2>2
<1>11. CASE Goes(t, "accept", k, NoSession) /\ UNCHANGED <<connected, linked, sessions, count>>
  <2>1. ASSUME NEW q \in Session  PROVE Life(q)'
    <3>1. /\ pc'[t] = [at |-> "accept", slot |-> k, session |-> NoSession]
      BY <1>11 DEF Goes, TypeOK
    <3>2. Apart(q)
      BY <1>1, <1>5, <1>11, <3>1, SessionAssumption DEF Apart
    <3>. QED
      BY <3>2, SameLife
  <2>2. TypeOK' /\ SetsAgree'
    BY <1>6, <1>11 DEF TypeOK, SetsAgree
  <2>. QED
    BY <1>6, <1>7, <1>8, <1>9, <2>1, <2>2
<1>. QED
  BY <1>10, <1>11

LEMMA ProcessConnectInv ==
    ASSUME Inv, NEW t \in Thread, NEW s \in Session, ProcessConnect(t, s)
    PROVE  Inv'
<1>. USE DEF ProcessConnect, boot, Inv
<1>1. pc[t].at = "idle" /\ pc[t].slot = 0 /\ "Connect" \in posted[s]
  BY DEF At, Shape
<1>2. Awaited(s) /\ posted[s] = {"Connect"} /\ \A k \in Slot : accepting[k] # s
  BY <1>1 DEF Awaited, Life
<1>3. /\ posted' \in [Session -> SUBSET Event] /\ posted'[s] = {}
      /\ \A r \in Session \ {s} : posted'[r] = posted[r]
  BY <1>2 DEF TypeOK
<1>4. /\ pc'[t] = [at |-> "onConnected", slot |-> 0, session |-> s]
      /\ \A u \in Thread \ {t} : pc'[u] = pc[u]
  BY DEF Goes, TypeOK
<1>5. /\ \A q \in Session : Life(q)'
      /\ connected' \in [Session -> BOOLEAN]
      /\ sessions' \subseteq Session /\ count' \in Nat /\ SetsAgree'
  <2>1. armed' \subseteq armed /\ \A j \in armed' : accepting[j] # s
    BY <1>2 DEF TypeOK
  <2>. QED
    BY <1>1, <1>2, <1>3, <2>1, ConnectsLife
<1>6. pc' \in [Thread -> PC] /\ \A u \in Thread : Shape(u)'
  <2>1. [at |-> "onConnected", slot |-> 0, session |-> s] \in PC
    BY DEF PC
  <2>2. pc' \in [Thread -> PC]
    BY <2>1 DEF Goes, TypeOK
  <2>. QED
    BY <1>4, <2>2 DEF Shape, Leaving
<1>7. TypeOK'
  BY <1>3, <1>5, <1>6 DEF TypeOK
<1>8. Slots' /\ Accepting'
  <2>1. \A u \in Thread : pc'[u].slot = pc[u].slot
    BY <1>1, <1>4
  <2>. QED
    BY <2>1, SameSlots
<1>9. Sending'
  BY <1>1, <1>4 DEF Sending, ManagerLocked
<1>. QED
  BY <1>5, <1>6, <1>7, <1>8, <1>9

(* OnConnected makes the session known to the content as well.             *)
LEMMA OnConnectedInv ==
    ASSUME Inv, NEW t \in Thread, OnConnected(t)
    PROVE  Inv'
<1>. USE DEF OnConnected, boot, link, Inv
<1>1. PICK s \in Session : pc[t].at = "onConnected" /\ s = pc[t].session
  BY DEF At, Shape
<1>2. /\ pc'[t] = [pc[t] EXCEPT !.at = "regRecv"]
      /\ \A u \in Thread \ {t} : pc'[u] = pc[u]
  BY DEF GoesOn, TypeOK
<1>3. /\ pc'[t].at = "regRecv" /\ pc'[t].session = s /\ pc'[t].slot = pc[t].slot
      /\ pc'[t] \in PC
  BY <1>1, <1>2 DEF TypeOK, PC
<1>4. s \in sessions /\ connected[s]
  BY <1>1 DEF Life
<1>5. TypeOK'
  <2>1. pc' \in [Thread -> PC]
    BY <1>3 DEF GoesOn, TypeOK
  <2>. QED
    BY <1>1, <2>1 DEF TypeOK
<1>6. \A u \in Thread : Shape(u)'
  BY <1>1, <1>2, <1>3 DEF Shape, Leaving
<1>7. Slots' /\ Accepting'
  <2>1. \A u \in Thread : pc'[u].slot = pc[u].slot
    BY <1>2, <1>3
  <2>. QED
    BY <2>1, SameSlots
<1>8. Life(s)'
  <2>1. Life(s)
    BY <1>1
  <2>2. \A u \in Thread \ {t} : pc'[u].session # s
    BY <1>1, <1>2, <2>1 DEF Life
  <2>3. ~Awaited(s)'
    BY <1>4, <2>1 DEF Life, Awaited
  <2>4. s \in sessions' /\ s \in managed'
    BY <1>1, <1>4
  <2>. QED
    BY <1>1, <1>2, <1>3, <1>4, <2>4, <2>1, <2>2, <2>3 DEF Life, Leaving
<1>9. ASSUME NEW r \in Session \ {s}  PROVE Life(r)'
  <2>1. Apart(r)
    BY <1>1, <1>2, <1>3 DEF Apart
  <2>. QED
    BY <2>1, SameLife
<1>10. SetsAgree' /\ Sending'
  <2>1. managed' = managed \cup {s} /\ todo' = {}
    BY <1>1 DEF Sending
  <2>. QED
    BY <1>4, <2>1 DEF SetsAgree, Sending
<1>. QED
  BY <1>5, <1>6, <1>7, <1>8, <1>9, <1>10

-----------------------------------------------------------------------------
(* A known session is not awaited.                                         *)
LEMMA KnownIsNotAwaited ==
    ASSUME Inv, NEW s \in Session,
           \/ s \in managed
           \/ "Recv" \in posted[s]
           \/ \E t \in Thread : pc[t].session = s
    PROVE  ~Awaited(s)
BY DEF Inv, Life

(* A receive is posted, or ends the connection, or is not posted at all.   *)
LEMMA RegisterRecvInv ==
    ASSUME Inv, NEW t \in Thread, RegisterRecv(t)
    PROVE  Inv'
<1>. USE DEF RegisterRecv, boot, sets, Inv
<1>1. PICK s \in Session : pc[t].at = "regRecv" /\ s = pc[t].session
  BY DEF At, Shape
<1>2. ~Awaited(s) /\ \A u \in Thread : pc[u].session = s => pc[u].at # "onConnected"
  BY <1>1, KnownIsNotAwaited DEF Life
<1>3. /\ posted' \in [Session -> SUBSET Event] /\ connected' \in [Session -> BOOLEAN]
      /\ \A r \in Session \ {s} : posted'[r] = posted[r] /\ connected'[r] = connected[r]
      /\ "Connect" \notin posted'[s]
      /\ connected'[s] => connected[s] /\ "Disconnect" \notin posted'[s]
      /\ "Disconnect" \in posted'[s] =>
            "Disconnect" \in posted[s] \/ (connected[s] /\ ~connected'[s])
  <2>1. CASE UNCHANGED <<posted, connected>>
    BY <1>2, <2>1 DEF TypeOK, Life, Awaited
  <2>2. CASE connected[s] /\ posted' = [posted EXCEPT ![s] = @ \cup {"Recv"}]
             /\ UNCHANGED connected
    BY <1>2, <2>2 DEF TypeOK, Life, Awaited, Event
  <2>3. CASE connected[s] /\ Disconnects(s, posted)
    <3>1. posted \in [Session -> SUBSET Event]
      BY DEF TypeOK
    <3>. QED
      BY <1>2, <2>3, <3>1, DisconnectsOnce
  <2>. QED
    BY <1>1, <2>1, <2>2, <2>3
<1>4. PICK l \in {"idle", "accept"} :
        pc' = [pc EXCEPT ![t] = [at |-> l, slot |-> pc[t].slot, session |-> NoSession]]
        /\ (l = "idle" <=> pc[t].slot = 0)
  BY DEF AfterRecv, Returns, Goes, Idle
<1>5. /\ pc'[t] = [at |-> l, slot |-> pc[t].slot, session |-> NoSession]
      /\ \A u \in Thread \ {t} : pc'[u] = pc[u]
  BY <1>4 DEF TypeOK
<1>6. TypeOK'
  <2>1. [at |-> l, slot |-> pc[t].slot, session |-> NoSession] \in PC
    BY <1>4 DEF TypeOK, PC
  <2>2. pc' \in [Thread -> PC]
    BY <1>4, <2>1 DEF TypeOK
  <2>. QED
    BY <1>3, <2>2 DEF TypeOK
<1>7. \A u \in Thread : Shape(u)'
  BY <1>4, <1>5 DEF Shape, Leaving
<1>8. Slots' /\ Accepting'
  BY <1>5, SameSlots
<1>9. \A r \in Session : Life(r)'
  <2>1. ASSUME NEW u \in Thread
        PROVE  \/ pc'[u] = pc[u]
               \/ Quiet(pc[u].at) /\ Quiet(pc'[u].at) /\ pc'[u].session \in {s, NoSession}
    BY <1>1, <1>5 DEF Quiet, Leaving
  <2>. QED
    BY <1>2, <1>3, <2>1, KnownLife
<1>10. SetsAgree' /\ Sending'
  BY <1>1, <1>5 DEF SetsAgree, Sending, ManagerLocked
<1>. QED
  BY <1>6, <1>7, <1>8, <1>9, <1>10

LEMMA ProcessRecvInv ==
    ASSUME Inv, NEW t \in Thread, NEW s \in Session, ProcessRecv(t, s)
    PROVE  Inv'
<1>. USE DEF ProcessRecv, boot, sets, Inv
<1>. DEFINE ps == [posted EXCEPT ![s] = @ \ {"Recv"}]
<1>1. pc[t].at = "idle" /\ pc[t].slot = 0 /\ pc[t].session = NoSession /\ "Recv" \in posted[s]
  BY DEF At, Shape
<1>2. ~Awaited(s) /\ \A u \in Thread : pc[u].session = s => pc[u].at # "onConnected"
  BY <1>1, KnownIsNotAwaited DEF Life
<1>3. /\ ps \in [Session -> SUBSET Event] /\ ps[s] = posted[s] \ {"Recv"}
      /\ \A r \in Session \ {s} : ps[r] = posted[r]
  BY DEF TypeOK
<1>4. /\ posted' \in [Session -> SUBSET Event] /\ connected' \in [Session -> BOOLEAN]
      /\ \A r \in Session \ {s} : posted'[r] = posted[r] /\ connected'[r] = connected[r]
      /\ "Connect" \notin posted'[s]
      /\ connected'[s] => connected[s] /\ "Disconnect" \notin posted'[s]
      /\ "Disconnect" \in posted'[s] =>
            "Disconnect" \in posted[s] \/ (connected[s] /\ ~connected'[s])
  <2>1. CASE posted' = ps /\ UNCHANGED connected
    BY <1>2, <1>3, <2>1 DEF TypeOK, Life, Awaited
  <2>2. CASE Disconnects(s, ps)
    <3>. HIDE DEF ps
    <3>1. ps[s] \subseteq posted[s]
      BY <1>3
    <3>. QED
      BY <1>2, <1>3, <2>2, <3>1, DisconnectsOnce
  <2>. QED
    BY <2>1, <2>2
<1>5. \/ pc' = pc
      \/ pc' = [pc EXCEPT ![t] = [at |-> "regRecv", slot |-> 0, session |-> s]]
  BY DEF Goes
<1>6. /\ pc'[t] = pc[t] \/ pc'[t] = [at |-> "regRecv", slot |-> 0, session |-> s]
      /\ \A u \in Thread \ {t} : pc'[u] = pc[u]
  BY <1>5 DEF TypeOK
<1>7. TypeOK'
  <2>1. [at |-> "regRecv", slot |-> 0, session |-> s] \in PC
    BY DEF PC
  <2>2. pc' \in [Thread -> PC]
    BY <1>5, <2>1 DEF TypeOK
  <2>. QED
    BY <1>4, <2>2 DEF TypeOK
<1>8. \A u \in Thread : Shape(u)'
  BY <1>6 DEF Shape, Leaving
<1>9. Slots' /\ Accepting'
  BY <1>1, <1>6, SameSlots
<1>10. \A r \in Session : Life(r)'
  <2>1. ASSUME NEW u \in Thread
        PROVE  \/ pc'[u] = pc[u]
               \/ Quiet(pc[u].at) /\ Quiet(pc'[u].at) /\ pc'[u].session \in {s, NoSession}
    BY <1>1, <1>6 DEF Quiet, Leaving
  <2>. QED
    BY <1>2, <1>4, <2>1, KnownLife
<1>11. SetsAgree' /\ Sending'
  BY <1>1, <1>6 DEF SetsAgree, Sending, ManagerLocked
<1>. QED
  BY <1>7, <1>8, <1>9, <1>10, <1>11

(* A step that disconnects a managed session and leaves the threads where  *)
(* they are.                                                               *)
LEMMA DisconnectsInv ==
    ASSUME Inv, NEW s \in managed, Disconnects(s, posted), todo' \subseteq todo,
           UNCHANGED <<boot, accepting, armed, linked, sets, pc, crashed>>
    PROVE  Inv'
<1>. USE DEF boot, sets, Inv
<1>1. s \in Session
  BY DEF TypeOK
<1>2. ~Awaited(s) /\ \A u \in Thread : pc[u].session = s => pc[u].at # "onConnected"
  BY <1>1, KnownIsNotAwaited DEF Life
<1>3. /\ posted' \in [Session -> SUBSET Event] /\ connected' \in [Session -> BOOLEAN]
      /\ \A r \in Session \ {s} : posted'[r] = posted[r] /\ connected'[r] = connected[r]
      /\ "Connect" \notin posted'[s] /\ ~connected'[s]
      /\ "Disconnect" \in posted'[s] => "Disconnect" \in posted[s] \/ connected[s]
  <2>1. posted \in [Session -> SUBSET Event]
    BY DEF TypeOK
  <2>. QED
    BY <1>1, <1>2, <2>1, DisconnectsOnce
<1>4. TypeOK'
  BY <1>3 DEF TypeOK
<1>5. (\A u \in Thread : Shape(u)') /\ Slots' /\ Accepting'
  BY DEF Shape, Slots, Accepting
<1>6. \A r \in Session : Life(r)'
  BY <1>1, <1>2, <1>3, KnownLife
<1>7. SetsAgree' /\ Sending'
  BY DEF SetsAgree, Sending, ManagerLocked
<1>. QED
  BY <1>4, <1>5, <1>6, <1>7

LEMMA SendOneInv ==
    ASSUME Inv, NEW t \in Thread, SendOne(t)
    PROVE  Inv'
<1>1. PICK s \in todo :
        /\ todo' = todo \ {s}
        /\ UNCHANGED <<posted, connected>> \/ Disconnects(s, posted)
  BY DEF SendOne
<1>2. UNCHANGED <<boot, accepting, armed, linked, sets, pc, crashed>>
  BY DEF SendOne
<1>3. s \in managed
  BY DEF Inv, Sending
<1>4. CASE Disconnects(s, posted)
  BY <1>1, <1>2, <1>3, <1>4, DisconnectsInv
<1>5. CASE UNCHANGED <<posted, connected>>
  <2>. USE <1>1, <1>2, <1>5 DEF Inv, boot, sets
  <2>1. TypeOK'
    BY DEF TypeOK
  <2>2. (\A u \in Thread : Shape(u)') /\ Slots' /\ Accepting'
    BY DEF Shape, Slots, Accepting
  <2>3. \A r \in Session : Life(r)'
    BY SameLife DEF Apart
  <2>4. SetsAgree' /\ Sending'
    BY DEF SetsAgree, Sending, ManagerLocked
  <2>. QED
    BY <2>1, <2>2, <2>3, <2>4
<1>. QED
  BY <1>1, <1>4, <1>5

-----------------------------------------------------------------------------
(* The end of a connection: only one thread has it.                        *)
LEMMA ProcessDisconnectInv ==
    ASSUME Inv, NEW t \in Thread, NEW s \in Session, ProcessDisconnect(t, s)
    PROVE  Inv'
<1>. USE DEF ProcessDisconnect, boot, sets, Inv
<1>1. pc[t].at = "idle" /\ pc[t].slot = 0 /\ pc[t].session = NoSession
  BY DEF At, Shape
<1>2. /\ posted' \in [Session -> SUBSET Event] /\ posted'[s] = posted[s] \ {"Disconnect"}
      /\ \A r \in Session \ {s} : posted'[r] = posted[r]
  BY DEF TypeOK
<1>3. /\ pc'[t] = [at |-> "onDisconnected", slot |-> 0, session |-> s]
      /\ \A u \in Thread \ {t} : pc'[u] = pc[u]
  BY DEF TypeOK, TellsContent, Goes
<1>4. TypeOK'
  <2>1. [at |-> "onDisconnected", slot |-> 0, session |-> s] \in PC
    BY DEF PC
  <2>2. pc' \in [Thread -> PC]
    BY <2>1 DEF TypeOK, TellsContent, Goes
  <2>. QED
    BY <1>2, <2>2 DEF TypeOK
<1>5. \A u \in Thread : Shape(u)'
  BY <1>3 DEF Shape, Leaving
<1>6. Slots' /\ Accepting'
  BY <1>1, <1>3, SameSlots
<1>7. Life(s)'
  <2>1. /\ Life(s) /\ ~connected[s] /\ s \in sessions
        /\ \A u \in Thread : pc[u].session = s => pc[u].at \notin Leaving
    BY DEF Life
  <2>2. \A u \in Thread : pc[u].session = s => pc[u].at # "onConnected"
    BY <2>1 DEF Life
  <2>3. ~Awaited(s)'
    BY <1>2, <2>1 DEF Life, Awaited
  <2>. QED
    BY <1>2, <1>3, <2>1, <2>2, <2>3 DEF Life, Leaving
<1>8. ASSUME NEW r \in Session \ {s}  PROVE Life(r)'
  <2>1. Apart(r)
    BY <1>1, <1>2, <1>3, SessionAssumption DEF Apart
  <2>. QED
    BY <2>1, SameLife
<1>9. SetsAgree' /\ Sending'
  BY <1>1, <1>3 DEF SetsAgree, Sending, ManagerLocked
<1>. QED
  BY <1>4, <1>5, <1>6, <1>7, <1>8, <1>9

LEMMA OnDisconnectedInv ==
    ASSUME Inv, NEW t \in Thread, OnDisconnected(t)
    PROVE  Inv'
<1>. USE DEF OnDisconnected, boot, link, Inv
<1>1. PICK s \in Session : /\ pc[t].at = "onDisconnected" /\ s = pc[t].session
                           /\ pc[t].slot = 0
  BY DEF At, Shape, Leaving
<1>2. todo = {} /\ managed' = managed \ {s}
  BY <1>1 DEF RemoveLocks, Sending
<1>3. /\ pc'[t] = [pc[t] EXCEPT !.at = "release"]
      /\ \A u \in Thread \ {t} : pc'[u] = pc[u]
  BY DEF GoesOn, TypeOK
<1>4. /\ pc'[t].at = "release" /\ pc'[t].session = s /\ pc'[t].slot = 0
      /\ pc'[t] \in PC
  BY <1>1, <1>3 DEF TypeOK, PC
<1>5. TypeOK'
  <2>1. pc' \in [Thread -> PC]
    BY <1>4 DEF GoesOn, TypeOK
  <2>. QED
    BY <1>2, <2>1 DEF TypeOK
<1>6. \A u \in Thread : Shape(u)'
  BY <1>3, <1>4 DEF Shape, Leaving
<1>7. Slots' /\ Accepting'
  BY <1>1, <1>3, <1>4, SameSlots
<1>8. Life(s)'
  <2>1. Life(s) /\ ~connected[s] /\ s \in sessions /\ "Disconnect" \notin posted[s]
    BY <1>1 DEF Life, Leaving
  <2>2. /\ \A u \in Thread : pc[u].session = s => pc[u].at # "onConnected"
        /\ \A u \in Thread \ {t} : pc[u].session = s => pc[u].at \notin Leaving
    BY <1>1, <2>1 DEF Life, Leaving
  <2>3. ~Awaited(s)'
    BY <2>1 DEF Life, Awaited
  <2>4. s \in sessions' /\ s \notin managed'
    BY <1>2, <2>1
  <2>5. \A u \in Thread : pc'[u].session = s =>
          pc'[u].at # "onConnected" /\ (pc'[u].at \in Leaving => u = t)
    BY <1>3, <1>4, <2>2
  <2>. QED
    BY <1>4, <2>1, <2>3, <2>4, <2>5 DEF Life
<1>9. ASSUME NEW r \in Session \ {s}  PROVE Life(r)'
  <2>1. Apart(r)
    BY <1>1, <1>2, <1>3, <1>4 DEF Apart
  <2>. QED
    BY <2>1, SameLife
<1>10. SetsAgree' /\ Sending'
  BY <1>2 DEF SetsAgree, Sending
<1>. QED
  BY <1>5, <1>6, <1>7, <1>8, <1>9, <1>10

(* The service finds the session it is to release.                         *)
LEMMA ReleaseSessionInv ==
    ASSUME Inv, NEW t \in Thread, ReleaseSession(t)
    PROVE  Inv'
<1>. USE DEF ReleaseSession, boot, link, Inv
<1>1. PICK s \in Session : /\ pc[t].at = "release" /\ s = pc[t].session
                           /\ pc[t].slot = 0
  BY DEF At, Shape, Leaving
<1>2. /\ Life(s) /\ ~connected[s] /\ s \in sessions /\ s \notin managed
      /\ "Disconnect" \notin posted[s]
      /\ \A u \in Thread : pc[u].session = s => pc[u].at # "onConnected"
      /\ \A u \in Thread \ {t} : pc[u].session = s => pc[u].at \notin Leaving
  BY <1>1 DEF Life, Leaving
<1>3. /\ sessions' = sessions \ {s} /\ count' = count - 1
      /\ Returns(t) /\ UNCHANGED crashed
  BY <1>1, <1>2
<1>4. pc'[t] = Idle /\ \A u \in Thread \ {t} : pc'[u] = pc[u]
  BY <1>3 DEF Returns, TypeOK
<1>5. count' \in Nat /\ SetsAgree'
  <2>1. IsFiniteSet(sessions)
    BY FS_Subset, SessionAssumption DEF TypeOK
  <2>2. Cardinality(sessions') = Cardinality(sessions) - 1 /\ IsFiniteSet(sessions')
    BY <1>2, <1>3, <2>1, FS_RemoveElement
  <2>3. Cardinality(sessions') \in Nat
    BY <2>2, FS_CardinalityType
  <2>. QED
    BY <1>2, <1>3, <2>2, <2>3 DEF SetsAgree
<1>6. TypeOK'
  <2>1. Idle \in PC
    BY DEF Idle, PC
  <2>2. pc' \in [Thread -> PC]
    BY <1>3, <2>1 DEF Returns, TypeOK
  <2>. QED
    BY <1>3, <1>5, <2>2 DEF TypeOK
<1>7. \A u \in Thread : Shape(u)'
  BY <1>4 DEF Shape, Leaving, Idle
<1>8. Slots' /\ Accepting'
  BY <1>1, <1>4, SameSlots DEF Idle
<1>9. Life(s)'
  <2>1. ~Awaited(s)'
    BY <1>2 DEF Life, Awaited
  <2>. QED
    BY <1>2, <1>3, <1>4, <2>1, SessionAssumption DEF Life, Idle
<1>10. ASSUME NEW r \in Session \ {s}  PROVE Life(r)'
  <2>1. Apart(r)
    BY <1>1, <1>3, <1>4, SessionAssumption DEF Apart, Idle
  <2>. QED
    BY <2>1, SameLife
<1>11. Sending'
  BY <1>1, <1>4 DEF Sending, ManagerLocked
<1>. QED
  BY <1>3, <1>5, <1>6, <1>7, <1>8, <1>9, <1>10, <1>11

-----------------------------------------------------------------------------
(* Broadcast takes the lock with the sessions it is to visit, and lets go  *)
(* of it when it has visited them.                                         *)
LEMMA BroadcastInv ==
    ASSUME Inv, NEW t \in Thread, Broadcast(t) \/ EndBroadcast(t)
    PROVE  Inv'
<1>. USE DEF Broadcast, EndBroadcast, boot, link, sets, Inv
<1>1. /\ pc[t].at \in {"idle", "broadcast"} /\ pc[t].slot = 0 /\ pc[t].session = NoSession
      /\ UNCHANGED <<boot, accepting, armed, link, sets, crashed>>
  BY DEF At, Shape
<1>2. PICK l \in {"idle", "broadcast"} :
        /\ pc'[t] = [at |-> l, slot |-> 0, session |-> NoSession]
        /\ \A u \in Thread \ {t} : pc'[u] = pc[u]
        /\ todo' \subseteq managed /\ (todo' # {} => l = "broadcast")
        /\ pc' \in [Thread -> PC]
  <2>1. CASE Broadcast(t)
    <3>1. pc'[t] = [pc[t] EXCEPT !.at = "broadcast"]
      BY <2>1 DEF GoesOn, TypeOK
    <3>2. pc'[t] = [at |-> "broadcast", slot |-> 0, session |-> NoSession]
      BY <1>1, <3>1 DEF TypeOK, PC
    <3>3. pc'[t] \in PC
      BY <3>2 DEF PC
    <3>. QED
      BY <2>1, <3>2, <3>3 DEF GoesOn, TypeOK
  <2>2. CASE EndBroadcast(t)
    <3>1. Idle \in PC
      BY DEF Idle, PC
    <3>. QED
      BY <2>2, <3>1 DEF Returns, Idle, TypeOK
  <2>. QED
    BY <2>1, <2>2
<1>3. TypeOK'
  BY <1>1, <1>2 DEF TypeOK
<1>4. \A u \in Thread : Shape(u)'
  BY <1>2 DEF Shape, Leaving
<1>5. Slots' /\ Accepting'
  BY <1>1, <1>2, SameSlots
<1>6. ASSUME NEW r \in Session  PROVE Life(r)'
  <2>1. Apart(r)
    BY <1>1, <1>2, SessionAssumption DEF Apart
  <2>. QED
    BY <2>1, SameLife
<1>7. SetsAgree' /\ Sending'
  BY <1>1, <1>2 DEF SetsAgree, Sending, ManagerLocked
<1>. QED
  BY <1>1, <1>3, <1>4, <1>5, <1>6, <1>7

(* The process may end for want of a session, or nothing happens.          *)
LEMMA StillInv ==
    ASSUME Inv,
           UNCHANGED <<boot, accepting, armed, link, sets, todo, pc>>,
           crashed' \in {crashed, "nullptr"}
    PROVE  Inv'
<1>. USE DEF boot, link, sets, Inv
<1>1. TypeOK' /\ \A u \in Thread : Shape(u)'
  BY DEF TypeOK, Shape
<1>2. Slots' /\ Accepting' /\ SetsAgree' /\ Sending'
  BY DEF Slots, Accepting, SetsAgree, Sending, ManagerLocked
<1>3. \A r \in Session : Life(r)'
  BY SameLife DEF Apart
<1>. QED
  BY <1>1, <1>2, <1>3

LEMMA StepInv == Inv /\ [Next]_vars => Inv'
<1>. SUFFICES ASSUME Inv, [Next]_vars  PROVE Inv'
  OBVIOUS
<1>1. CASE StartClient \/ StartAccept
  BY <1>1, StartClientInv, StartAcceptInv
<1>2. ASSUME NEW t \in Thread, Inside(t)  PROVE Inv'
  BY <1>2, RegisterAcceptInv, RegisterRecvInv, ReleaseSessionInv, SendOneInv, BroadcastInv
     DEF Inside
<1>3. ASSUME NEW t \in Thread, Locking(t)  PROVE Inv'
  BY <1>3, OnConnectedInv, OnDisconnectedInv DEF Locking
<1>4. ASSUME NEW t \in Thread, Dequeue(t)  PROVE Inv'
  BY <1>4, ProcessAcceptInv, ProcessConnectInv, ProcessRecvInv, ProcessDisconnectInv
     DEF Dequeue
<1>5. ASSUME NEW t \in Thread, Call(t)  PROVE Inv'
  <2>1. CASE Broadcast(t)
    BY <2>1, BroadcastInv
  <2>2. CASE CreateFails(t)
    BY <2>2, StillInv DEF CreateFails
  <2>3. ASSUME NEW s \in Session, CallDisconnect(t, s)  PROVE Inv'
    BY <2>3, DisconnectsInv DEF CallDisconnect
  <2>. QED
    BY <1>5, <2>1, <2>2, <2>3 DEF Call
<1>6. CASE UNCHANGED vars
  BY <1>6, StillInv DEF vars, boot, link, sets
<1>. QED
  BY <1>1, <1>2, <1>3, <1>4, <1>5, <1>6 DEF Next

LEMMA SpecInv == Spec => []Inv
BY InitInv, StepInv, PTL DEF Spec

-----------------------------------------------------------------------------
(* Every variable of the service keeps its type; _sessionCount is never    *)
(* negative.                                                               *)
THEOREM ServiceIsTyped == Spec => []TypeOK
<1>1. Inv => TypeOK
  BY DEF Inv
<1>. QED
  BY <1>1, SpecInv, PTL

(* What the service has released GSessionManager has let go of before, and *)
(* _sessionCount counts Service::_sessions (Service.cpp, GameSession.cpp). *)
THEOREM TheSetsAgree == Spec => []SetsAgree
<1>1. Inv => SetsAgree
  BY DEF Inv
<1>. QED
  BY <1>1, SpecInv, PTL

(* Nothing that GameSessionManager::Broadcast has yet to visit is erased.  *)
THEOREM IteratorStaysValid == Spec => []IteratorValid
<1>1. Inv => IteratorValid
  BY DEF Inv, Sending, IteratorValid
<1>. QED
  BY <1>1, SpecInv, PTL

(* A session whose _connected is set is one that Broadcast reaches, or its *)
(* OnConnected is under way.                                               *)
THEOREM ConnectedStaysKnown == Spec => []ConnectedIsKnown
<1>1. Inv => ConnectedIsKnown
  BY DEF Inv, Life, ConnectedIsKnown
<1>. QED
  BY <1>1, SpecInv, PTL

(* ProcessAccept, AfterRecv and RegisterAccept pass each accept event on,  *)
(* to one thread or to the kernel.                                         *)
THEOREM NoEventIsLost == Spec => []EventsKept
<1>1. ASSUME Inv  PROVE EventsKept
  <2>. SUFFICES ASSUME type = "Server", NEW k \in 1..started
                PROVE  Cardinality({t \in Thread : pc[t].slot = k}) =
                          IF k \in armed THEN 0 ELSE 1
    BY DEF EventsKept
  <2>1. k # 0
    BY <1>1 DEF Inv, TypeOK
  <2>2. CASE k \in armed
    <3>1. {t \in Thread : pc[t].slot = k} = {}
      BY <1>1, <2>1, <2>2 DEF Inv, Slots
    <3>. QED
      BY <2>2, <3>1, FS_EmptySet
  <2>3. CASE k \notin armed
    <3>1. PICK t \in Thread : pc[t].slot = k
      BY <1>1, <2>3 DEF Inv, Slots
    <3>2. {u \in Thread : pc[u].slot = k} = {t}
      BY <1>1, <2>1, <3>1 DEF Inv, Slots
    <3>. QED
      BY <2>3, <3>2, FS_Singleton
  <2>. QED
    BY <2>2, <2>3
<1>. QED
  BY <1>1, SpecInv, PTL

(* The assertion of Service::ReleaseSession, that it erased one session,   *)
(* never fails.                                                            *)
THEOREM ReleaseNeverAsserts == Spec => [](crashed # "assert")
<1>1. Inv => crashed # "assert"
  BY DEF Inv
<1>. QED
  BY <1>1, SpecInv, PTL

=============================================================================
