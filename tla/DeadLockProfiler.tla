--------------------------- MODULE DeadLockProfiler ---------------------------
(***************************************************************************)
(* The deadlock profiler of debug builds: Lock calls PushLock before it    *)
(* tries the lock and PopLock before it gives it up.  Both run under the   *)
(* profiler's own mutex.  PushLock is one step, unless it saw a new order  *)
(* of two locks: then CheckCycle searches, one step per turn of a loop of  *)
(* Dfs, and the push is the last step.  Ids count from 1 here, and 0 is    *)
(* what -1 is in _parent.                                                  *)
(***************************************************************************)
EXTENDS Integers, Sequences

CONSTANTS Threads, Locks, Name, MaxDepth, \* see LockOrder
          NoThread                        \* nobody holds the profiler's mutex

ASSUME NameAssumption     == Locks \subseteq DOMAIN Name
ASSUME DepthAssumption    == MaxDepth \in Nat
ASSUME NoThreadAssumption == NoThread \notin Threads

VARIABLES
    names,     \* _idToName; _nameToId is its inverse
    history,   \* _lockHistory, as pairs of ids
    lockStack, \* LLockStack of each thread
    guards,    \* the guards of each thread, see LockOrder
    pc,        \* per thread: spinning for its lock, or outside the lock's code
    crashed,   \* the cause of CRASH
    check,     \* the PushLock that is in CheckCycle, with the order it added
    here,      \* the argument of the innermost call of Dfs, 0 outside
    order,     \* _discoveredOrder
    count,     \* _discoveredCount
    finished,  \* _finished, as a set
    parent,    \* _parent
    todo,      \* per id: what the loop of its call of Dfs has yet to visit
    printed    \* the lines Dfs printed, as pairs of ids

marks == <<here, order, count, finished, parent, todo>>
vars  == <<names, history, lockStack, guards, pc, crashed, check, marks, printed>>

Mode    == {"read", "write"}
Guard   == [lock : Locks, mode : Mode]
Crash   == {"no", "DEADLOCK_DETECTED", "MULTIPLE_UNLOCK", "INVALID_UNLOCK"}
NoCheck == [thread |-> NoThread, guard |-> NoThread, new |-> {}]

Top(s)      == s[Len(s)]
Pop(s)      == SubSeq(s, 1, Len(s) - 1)
Ids         == 1..Len(names)
Goto(t, l)  == pc' = [pc EXCEPT ![t] = l]
IdIn(ns, n) == CHOOSE i \in DOMAIN ns : ns[i] = n

(* The marks CheckCycle starts with; without ids, those it leaves behind.  *)
Unmark(n) ==
    /\ here' = 0 /\ count' = 0 /\ finished' = {}
    /\ order' = [i \in 1..n |-> -1]
    /\ parent' = [i \in 1..n |-> 0] /\ todo' = [i \in 1..n |-> {}]

Init ==
    /\ names = <<>> /\ history = {} /\ printed = <<>> /\ check = NoCheck
    /\ lockStack = [t \in Threads |-> <<>>] /\ guards = [t \in Threads |-> <<>>]
    /\ pc = [t \in Threads |-> "user"] /\ crashed = "no"
    /\ here = 0 /\ count = 0 /\ finished = {}
    /\ order = <<>> /\ parent = <<>> /\ todo = <<>>

-----------------------------------------------------------------------------
(* PushLock.                                                               *)

(* Faulty variant: a name is registered again.                             *)
RegisteredAgain(ns, n) == Append(ns, n)

Registered(ns, n) == IF \E i \in DOMAIN ns : ns[i] = n THEN ns ELSE Append(ns, n)

(* Faulty variant of Order: from the first lock the thread took.           *)
OrderFromFirst(t, id) ==
    IF lockStack[t] = <<>> \/ lockStack[t][1] = id THEN {} ELSE {<<lockStack[t][1], id>>}

(* The order a push adds: the last lock the thread took, then this one.    *)
Order(t, id) ==
    IF lockStack[t] = <<>> \/ Top(lockStack[t]) = id THEN {}
    ELSE {<<Top(lockStack[t]), id>>}

(* The end of PushLock; the thread goes on to try the lock.                *)
Pushed(t, g, id) ==
    /\ lockStack' = [lockStack EXCEPT ![t] = Append(@, id)]
    /\ guards' = [guards EXCEPT ![t] = Append(@, g)]
    /\ Goto(t, "spin")

PushLock(t, g) ==
    /\ crashed = "no" /\ check = NoCheck
    /\ pc[t] = "user" /\ Len(guards[t]) < MaxDepth
    /\ names' = Registered(names, Name[g.lock])
    /\ LET id  == IdIn(names', Name[g.lock])
           new == Order(t, id) \ history
       IN  /\ history' = history \cup new
           /\ \/ new = {} /\ Pushed(t, g, id) /\ UNCHANGED <<check, marks>>
              \/ /\ new # {}
                 /\ check' = [thread |-> t, guard |-> g, new |-> new]
                 /\ Unmark(Len(names'))
                 /\ UNCHANGED <<lockStack, guards, pc>>
    /\ UNCHANGED <<crashed, printed>>

-----------------------------------------------------------------------------
(* CheckCycle and Dfs.                                                     *)

Searching == crashed = "no" /\ check # NoCheck /\ printed = <<>>

(* The call of Dfs for an id not discovered yet.                           *)
Discover(i) ==
    /\ here' = i
    /\ order' = [order EXCEPT ![i] = count] /\ count' = count + 1
    /\ parent' = [parent EXCEPT ![i] = here]

Successors(i) == {j \in Ids : <<i, j>> \in history}

(* The loop of CheckCycle calls Dfs for the next id.                       *)
DfsRoot(i) ==
    /\ Searching /\ here = 0
    /\ order[i] = -1 /\ \A j \in 1..(i - 1) : order[j] # -1
    /\ Discover(i)
    /\ todo' = [todo EXCEPT ![i] = Successors(i)]
    /\ UNCHANGED <<names, history, lockStack, guards, pc, crashed, check, finished, printed>>

(* Faulty variants: whether the search of there is over is not asked; the  *)
(* comparison is the wrong way round.                                      *)
ClosesCrossing(there) == order[here] >= order[there]
ClosesForward(there)  == order[here] < order[there] /\ there \notin finished

(* An edge from here to a vertex found before, whose search is not over.   *)
ClosesCircle(there) == order[here] >= order[there] /\ there \notin finished

(* A turn of the loop over nextSet.                                        *)
DfsNext(there) ==
    /\ Searching /\ here # 0
    /\ there \in todo[here] /\ \A j \in todo[here] : there <= j
    /\ \/ /\ order[there] = -1
          /\ Discover(there)
          /\ todo' = [todo EXCEPT ![here] = @ \ {there}, ![there] = Successors(there)]
          /\ UNCHANGED printed
       \/ /\ order[there] # -1
          /\ todo' = [todo EXCEPT ![here] = @ \ {there}]
          /\ printed' = IF ClosesCircle(there) THEN <<<<here, there>>>> ELSE <<>>
          /\ UNCHANGED <<here, order, count, parent>>
    /\ UNCHANGED <<names, history, lockStack, guards, pc, crashed, check, finished>>

(* The caller of a call of Dfs is the call for the parent, or CheckCycle.  *)
DfsReturn ==
    /\ Searching /\ here # 0 /\ todo[here] = {}
    /\ finished' = finished \cup {here}
    /\ here' = parent[here]
    /\ UNCHANGED <<names, history, lockStack, guards, pc, crashed, check, order, count,
                   parent, todo, printed>>

(* A turn of the loop that prints the way back, and the end of the process.*)
PrintParent ==
    /\ crashed = "no" /\ printed # <<>>
    /\ LET now == Top(printed)[1]
       IN  /\ printed' = Append(printed, <<parent[now], now>>)
           /\ crashed' = IF parent[now] = printed[1][2] THEN "DEADLOCK_DETECTED" ELSE "no"
    /\ UNCHANGED <<names, history, lockStack, guards, pc, check, marks>>

(* No circle: CheckCycle clears its marks and PushLock goes on.            *)
CheckEnd ==
    /\ Searching /\ here = 0 /\ \A i \in Ids : order[i] # -1
    /\ Pushed(check.thread, check.guard, IdIn(names, Name[check.guard.lock]))
    /\ check' = NoCheck /\ Unmark(0)
    /\ UNCHANGED <<names, history, crashed, printed>>

CheckCycle ==
    \/ DfsReturn \/ PrintParent \/ CheckEnd
    \/ \E i \in Ids : DfsRoot(i) \/ DfsNext(i)

-----------------------------------------------------------------------------
(* The orders that were searched for circles.                              *)
Settled == IF crashed = "no" THEN history \ check.new ELSE history

LockOf == INSTANCE LockOrder WITH
    waits <- [t \in Threads |-> pc[t] = "spin"],
    edges <- {<<names[e[1]], names[e[2]]>> : e \in Settled},
    reported <- crashed # "no"

(* The lock of Lock.cpp, as RWLock models it: the thread gets through.     *)
Acquire(t) ==
    /\ crashed = "no" /\ pc[t] = "spin"
    /\ \A u \in Threads : ~LockOf!Blocks(u, t)
    /\ Goto(t, "user")
    /\ UNCHANGED <<names, history, lockStack, guards, crashed, check, marks, printed>>

(* PopLock, and the release after it: nobody else sees this lockStack.     *)
PopLock(t) ==
    /\ crashed = "no" /\ check = NoCheck /\ pc[t] = "user" /\ guards[t] # <<>>
    /\ crashed' = IF lockStack[t] = <<>> THEN "MULTIPLE_UNLOCK"
                  ELSE IF names[Top(lockStack[t])] # Name[Top(guards[t]).lock]
                  THEN "INVALID_UNLOCK" ELSE "no"
    /\ IF crashed' # "no" THEN UNCHANGED <<lockStack, guards>>
       ELSE /\ lockStack' = [lockStack EXCEPT ![t] = Pop(@)]
            /\ guards' = [guards EXCEPT ![t] = Pop(@)]
    /\ UNCHANGED <<names, history, pc, check, marks, printed>>

Next ==
    \/ CheckCycle
    \/ \E t \in Threads : Acquire(t) \/ PopLock(t) \/ \E g \in Guard : PushLock(t, g)

Spec == Init /\ [][Next]_vars

-----------------------------------------------------------------------------
(* Types; ids are given to names once, and marks to ids.                   *)
TypeOK ==
    /\ names \in Seq({Name[l] : l \in Locks})
    /\ \A i, j \in Ids : names[i] = names[j] => i = j
    /\ history \subseteq Ids \X Ids
    /\ lockStack \in [Threads -> Seq(Ids)] /\ guards \in [Threads -> Seq(Guard)]
    /\ pc \in [Threads -> {"user", "spin"}] /\ crashed \in Crash
    /\ check = NoCheck \/ check \in [thread : Threads, guard : Guard, new : SUBSET history]
    /\ here \in {0} \cup Ids /\ count \in Nat /\ finished \subseteq Ids
    /\ LET ids == IF check = NoCheck THEN {} ELSE Ids
       IN  /\ order \in [ids -> (-1)..(count - 1)] /\ parent \in [ids -> {0} \cup ids]
           /\ todo \in [ids -> SUBSET ids]
    /\ printed \in Seq(history)

(* The search reports exactly the first circle of names, and the guards    *)
(* never unlock out of turn (crashed is DEADLOCK_DETECTED or no).          *)
ImplementsOrder == LockOf!OrderSpec

(* No deadlock between locks of different names goes unreported.           *)
DeadlockIsReported == LockOf!DeadlockIsReported

(* The lines printed are orders that were really seen, each leads to the   *)
(* one before, and when the process ends they are a circle.                *)
PrintedIsCircle ==
    /\ \A k \in DOMAIN printed : printed[k] \in history
    /\ \A k \in 2..Len(printed) : printed[k][2] = printed[k - 1][1]
    /\ crashed = "DEADLOCK_DETECTED" => Top(printed)[1] = printed[1][2]
=============================================================================
