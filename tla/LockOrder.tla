------------------------------ MODULE LockOrder ------------------------------
(***************************************************************************)
(* What the deadlock profiler promises: threads take locks through guards  *)
(* that nest, the order in which two names are taken is remembered for     *)
(* ever, and the process ends at the first request that closes a circle of *)
(* names.  Locks of one class share a name, and a name after itself is no  *)
(* order.                                                                  *)
(***************************************************************************)
EXTENDS Integers, Sequences

CONSTANTS Threads,
          Locks,
          Name,    \* the name of each lock: typeid of the class it is in
          MaxDepth \* bound: the guards one thread may have

VARIABLES
    guards,  \* per thread: its guards, each a lock and a mode, the last one innermost
    waits,   \* per thread: the innermost guard has not got its lock yet
    edges,   \* the orders seen: the second name was asked for under the first
    reported \* a circle was found, and ended the process

orderVars == <<guards, waits, edges, reported>>

Mode  == {"read", "write"}
Guard == [lock : Locks, mode : Mode]

(* Every member of a nonempty set has a successor in it.                   *)
Cyclic(R) ==
    LET ids == {e[1] : e \in R}
    IN  \E C \in SUBSET ids : C # {} /\ \A c \in C : \E d \in C : <<c, d>> \in R

Top(t)  == guards[t][Len(guards[t])]
Held(t) == {guards[t][i] : i \in 1..(IF waits[t] THEN Len(guards[t]) - 1 ELSE Len(guards[t]))}

(* u keeps t from the lock it asks for; in the third case perhaps t itself.*)
Blocks(u, t) ==
    LET l == Top(t).lock
    IN  \/ u # t /\ [lock |-> l, mode |-> "write"] \in Held(u)
        \/ /\ Top(t).mode = "write"
           /\ [lock |-> l, mode |-> "read"] \in Held(u)
           /\ [lock |-> l, mode |-> "write"] \notin Held(t)

NewOrder(t, l) ==
    IF guards[t] = <<>> \/ Name[Top(t).lock] = Name[l] THEN {}
    ELSE {<<Name[Top(t).lock], Name[l]>>}

OrderInit ==
    /\ guards = [t \in Threads |-> <<>>] /\ waits = [t \in Threads |-> FALSE]
    /\ edges = {} /\ reported = FALSE

Request(t, g) ==
    /\ ~reported /\ ~waits[t] /\ Len(guards[t]) < MaxDepth
    /\ edges' = edges \cup NewOrder(t, g.lock)
    /\ reported' = Cyclic(edges')
    /\ IF reported' THEN UNCHANGED <<guards, waits>>
       ELSE /\ guards' = [guards EXCEPT ![t] = Append(@, g)]
            /\ waits' = [waits EXCEPT ![t] = TRUE]

Enter(t) ==
    /\ ~reported /\ waits[t]
    /\ \A u \in Threads : ~Blocks(u, t)
    /\ waits' = [waits EXCEPT ![t] = FALSE]
    /\ UNCHANGED <<guards, edges, reported>>

Leave(t) ==
    /\ ~reported /\ ~waits[t] /\ guards[t] # <<>>
    /\ guards' = [guards EXCEPT ![t] = SubSeq(@, 1, Len(@) - 1)]
    /\ UNCHANGED <<waits, edges, reported>>

OrderNext == \E t \in Threads : Enter(t) \/ Leave(t) \/ \E g \in Guard : Request(t, g)

OrderSpec == OrderInit /\ [][OrderNext]_orderVars

-----------------------------------------------------------------------------
OrderTypeOK ==
    /\ guards \in [Threads -> Seq(Guard)] /\ waits \in [Threads -> BOOLEAN]
    /\ \A t \in Threads : waits[t] => guards[t] # <<>>
    /\ reported \in BOOLEAN

(* Each of S waits for another of S, under another name than its own lock. *)
Deadlocked(S) ==
    \A t \in S : waits[t] /\ \E u \in S :
        waits[u] /\ Blocks(u, t) /\ Name[Top(u).lock] # Name[Top(t).lock]

(* No set of threads waits for itself for ever: the request that would     *)
(* complete the circle is reported first (PushLock runs before the lock is *)
(* tried).  Circles within one name escape, as the README says.            *)
DeadlockIsReported == reported \/ \A S \in SUBSET Threads : Deadlocked(S) => S = {}
=============================================================================
