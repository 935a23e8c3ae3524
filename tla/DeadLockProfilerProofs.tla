------------------------- MODULE DeadLockProfilerProofs -------------------------
(***************************************************************************)
(* DeadLockProfiler for any threads, locks, names and depth.  The search   *)
(* of Dfs is right for every graph of orders: it prints a circle if and    *)
(* only if there is one.  With that, the profiler implements LockOrder,    *)
(* and what LockOrderProofs proves of LockOrder holds of it.               *)
(***************************************************************************)
EXTENDS DeadLockProfiler, SequenceTheorems, TLAPS

(* What a thread has on its profiler's stack are the names of its guards.  *)
Stacks == \A t \in Threads :
    /\ Len(lockStack[t]) = Len(guards[t])
    /\ \A k \in 1..Len(guards[t]) : names[lockStack[t][k]] = Name[guards[t][k].lock]
    /\ pc[t] = "spin" => guards[t] # <<>>

(* The PushLock that waits for CheckCycle, and the only order not settled. *)
Checking ==
    /\ \A e \in history : e[1] # e[2]
    /\ check # NoCheck =>
          /\ pc[check.thread] = "user" /\ Len(guards[check.thread]) < MaxDepth
          /\ lockStack[check.thread] # <<>>
          /\ \E id \in Ids :
                /\ names[id] = Name[check.guard.lock] /\ id # Top(lockStack[check.thread])
                /\ check.new = {<<Top(lockStack[check.thread]), id>>}
    /\ crashed = "no" => ~LockOf!Cyclic(history \ check.new)

Found  == {i \in DOMAIN order : order[i] # -1}
Active == Found \ finished

(* The calls of Dfs under way: they were found one after the other, each   *)
(* by the one before it, and here is the last one.                         *)
Calls ==
    /\ finished \subseteq Found
    /\ \A i, j \in Found : order[i] = order[j] => i = j
    /\ here = 0 => Active = {}
    /\ here # 0 => here \in Active /\ \A i \in Active : order[i] <= order[here]
    /\ \A i \in Active :
          /\ parent[i] = 0 => \A j \in Active : order[i] <= order[j]
          /\ parent[i] # 0 =>
                /\ parent[i] \in Active /\ <<parent[i], i>> \in history
                /\ order[parent[i]] < order[i]
                /\ \A j \in Active : order[j] < order[i] => order[j] <= order[parent[i]]
          /\ i # here => \E j \in Active : parent[j] = i

(* What the loops have been through: a vertex that was left leads only to  *)
(* such vertices, and they form no circle.                                 *)
Visited ==
    /\ \A i \in Active :
          /\ \A j \in todo[i] : <<i, j>> \in history
          /\ printed = <<>> => \A j \in Ids : <<i, j>> \in history =>
                j \in todo[i] \/ j \in finished \/ (j \in Active /\ parent[j] = i)
    /\ \A i \in finished : \A j \in Ids : <<i, j>> \in history => j \in finished
    /\ \A C \in SUBSET finished : C # {} => \E c \in C : \A d \in C : <<c, d>> \notin history

(* The way back: from the edge that closes the circle up the calls, and it *)
(* has not been passed by.                                                 *)
Printing ==
    /\ PrintedIsCircle
    /\ crashed \in {"no", "DEADLOCK_DETECTED"} /\ (crashed # "no" => printed # <<>>)
    /\ printed # <<>> => check # NoCheck /\ here # 0 /\ printed[1][1] = here
    /\ printed # <<>> /\ crashed = "no" =>
          /\ Top(printed)[1] \in Active /\ printed[1][2] \in Active
          /\ order[printed[1][2]] < order[Top(printed)[1]]

Inv == TypeOK /\ Stacks /\ Checking /\ Calls /\ Visited /\ Printing

-----------------------------------------------------------------------------
(* The values the variables of the search have while it is under way.      *)
LEMMA SearchTypes ==
    ASSUME Inv, check # NoCheck
    PROVE  /\ order \in [Ids -> (-1)..(count - 1)] /\ parent \in [Ids -> {0} \cup Ids]
           /\ todo \in [Ids -> SUBSET Ids]
           /\ count \in Nat /\ Len(names) \in Nat /\ finished \subseteq Ids
           /\ here \in {0} \cup Ids
           /\ Found = {i \in Ids : order[i] # -1} /\ Found \subseteq Ids
           /\ Active \subseteq Ids /\ Active \subseteq Found
<1>1. /\ order \in [Ids -> (-1)..(count - 1)] /\ parent \in [Ids -> {0} \cup Ids]
      /\ todo \in [Ids -> SUBSET Ids] /\ count \in Nat /\ finished \subseteq Ids
      /\ here \in {0} \cup Ids /\ names \in Seq({Name[l] : l \in Locks})
  BY DEF Inv, TypeOK
<1>2. Len(names) \in Nat   BY <1>1, LenProperties
<1>3. DOMAIN order = Ids   BY <1>1
<1> QED BY <1>1, <1>2, <1>3 DEF Found, Active

(* The variables of the search do not change: nothing of it does.          *)
LEMMA SearchStutter ==
    ASSUME Inv, UNCHANGED <<names, history, check, marks, printed, crashed>>
    PROVE  Calls' /\ Visited' /\ Printing'
<1>1. /\ here' = here /\ order' = order /\ count' = count /\ finished' = finished
      /\ parent' = parent /\ todo' = todo
  BY DEF marks
<1>2. Found' = Found /\ Active' = Active /\ Ids' = Ids   BY <1>1 DEF Found, Active, Ids
<1>3. Calls /\ Visited /\ Printing   BY DEF Inv
<1>4. Calls'   BY <1>1, <1>2, <1>3 DEF Calls
<1>5. Visited'   BY <1>1, <1>2, <1>3 DEF Visited
<1>6. Printing'   BY <1>1, <1>2, <1>3 DEF Printing, PrintedIsCircle
<1> QED BY <1>4, <1>5, <1>6

(* A step of the search leaves the threads as they are.                    *)
LEMMA ThreadsStutter ==
    ASSUME Inv, UNCHANGED <<names, history, lockStack, guards, pc, check>>,
           crashed' = "no" => crashed = "no"
    PROVE  Stacks' /\ Checking'
<1>1. Ids' = Ids   BY DEF Ids
<1>2. Stacks /\ Checking   BY DEF Inv
<1>3. Stacks'   BY <1>2 DEF Stacks
<1>4. Checking'   BY <1>1, <1>2 DEF Checking
<1> QED BY <1>3, <1>4

LEMMA NothingYet == ASSUME Init PROVE Inv
<1>1. Ids = {} /\ names = <<>> /\ Len(names) = 0   BY DEF Init, Ids
<1>2. TypeOK
  <2>1. names \in Seq({Name[l] : l \in Locks}) /\ printed \in Seq(history)
    BY EmptySeq DEF Init
  <2>2. lockStack \in [Threads -> Seq(Ids)] /\ guards \in [Threads -> Seq(Guard)]
    BY EmptySeq DEF Init
  <2>3. pc \in [Threads -> {"user", "spin"}] /\ crashed \in Crash   BY DEF Init, Crash
  <2>4. order \in [{} -> (-1)..(count - 1)] /\ parent \in [{} -> {0} \cup {}]
        /\ todo \in [{} -> SUBSET {}]
    BY EmptySeq DEF Init
  <2>5. check = NoCheck /\ history \subseteq Ids \X Ids /\ here \in {0} \cup Ids
        /\ count \in Nat /\ finished \subseteq Ids
    BY DEF Init
  <2>6. \A i, j \in Ids : names[i] = names[j] => i = j   BY <1>1
  <2> QED BY <2>1, <2>2, <2>3, <2>4, <2>5, <2>6 DEF TypeOK
<1>3. Stacks
  <2> SUFFICES ASSUME NEW t \in Threads
               PROVE  /\ Len(lockStack[t]) = Len(guards[t])
                      /\ \A k \in 1..Len(guards[t]) :
                            names[lockStack[t][k]] = Name[guards[t][k].lock]
                      /\ pc[t] = "spin" => guards[t] # <<>>
    BY DEF Stacks
  <2>1. lockStack[t] = <<>> /\ guards[t] = <<>> /\ pc[t] = "user"   BY DEF Init
  <2>2. Len(<<>>) = 0   BY EmptySeq
  <2> QED BY <2>1, <2>2
<1>4. ~LockOf!Cyclic(history \ check.new)   BY DEF Init, NoCheck, LockOf!Cyclic
<1>5. Checking   BY <1>4 DEF Init, Checking
<1>6. Found = {} /\ Active = {} /\ finished = {}   BY DEF Init, Found, Active
<1>7. Calls   BY <1>6 DEF Init, Calls
<1>8. Visited   BY <1>6 DEF Visited
<1>9. Printing   BY DEF Init, Printing, PrintedIsCircle
<1> QED BY <1>2, <1>3, <1>5, <1>7, <1>8, <1>9 DEF Inv

-----------------------------------------------------------------------------
(* The search, one lemma for each of its steps.                            *)
LEMMA SearchTyped ==
    ASSUME Inv, check # NoCheck, UNCHANGED <<names, history, lockStack, guards, pc, check>>,
           crashed' \in Crash, here' \in {0} \cup Ids, count' \in Nat, finished' \subseteq Ids,
           order' \in [Ids -> (-1)..(count' - 1)], parent' \in [Ids -> {0} \cup Ids],
           todo' \in [Ids -> SUBSET Ids], printed' \in Seq(history)
    PROVE  TypeOK'
<1>1. Ids' = Ids   BY DEF Ids
<1>2. TypeOK   BY DEF Inv
<1> QED BY <1>1, <1>2 DEF TypeOK

LEMMA DiscoverTyped ==
    ASSUME Inv, check # NoCheck, NEW i \in Ids, Discover(i)
    PROVE  /\ order' \in [Ids -> (-1)..(count' - 1)] /\ parent' \in [Ids -> {0} \cup Ids]
           /\ count' \in Nat /\ here' \in {0} \cup Ids
           /\ order'[i] = count /\ parent'[i] = here
           /\ \A j \in Ids \ {i} : order'[j] = order[j] /\ parent'[j] = parent[j]
           /\ \A j \in Ids : order[j] < count /\ order[j] \in Int
           /\ Found' = Found \cup {i} /\ DOMAIN order' = Ids
<1>1. /\ order \in [Ids -> (-1)..(count - 1)] /\ parent \in [Ids -> {0} \cup Ids]
      /\ count \in Nat /\ here \in {0} \cup Ids
      /\ Found = {j \in Ids : order[j] # -1}
  BY SearchTypes
<1>2. /\ here' = i /\ order' = [order EXCEPT ![i] = count] /\ count' = count + 1
      /\ parent' = [parent EXCEPT ![i] = here]
  BY DEF Discover
<1>3. order'[i] = count /\ \A j \in Ids \ {i} : order'[j] = order[j]   BY <1>1, <1>2
<1>4. parent'[i] = here /\ \A j \in Ids \ {i} : parent'[j] = parent[j]   BY <1>1, <1>2
<1>5. \A j \in Ids : order[j] < count /\ order[j] \in Int   BY <1>1
<1>6. DOMAIN order' = Ids   BY <1>1, <1>2
<1>7. order' \in [Ids -> (-1)..(count' - 1)]
  <2>1. \A j \in Ids : order'[j] \in (-1)..(count' - 1)   BY <1>1, <1>2, <1>3
  <2> QED BY <1>1, <1>2, <2>1
<1>8. parent' \in [Ids -> {0} \cup Ids]   BY <1>1, <1>2
<1>9. Found' = Found \cup {i}
  <2>1. Found' = {j \in Ids : order'[j] # -1}   BY <1>6 DEF Found
  <2>2. count # -1   BY <1>1
  <2> QED BY <1>1, <1>3, <2>1, <2>2
<1> QED BY <1>1, <1>2, <1>3, <1>4, <1>5, <1>6, <1>7, <1>8, <1>9

LEMMA RootKeepsInv == ASSUME Inv, NEW i \in Ids, DfsRoot(i) PROVE Inv'
<1>1. /\ crashed = "no" /\ check # NoCheck /\ printed = <<>> /\ here = 0
      /\ order[i] = -1 /\ Discover(i) /\ todo' = [todo EXCEPT ![i] = Successors(i)]
      /\ UNCHANGED <<names, history, lockStack, guards, pc, crashed, check, finished, printed>>
  BY DEF DfsRoot, Searching
<1>2. /\ todo \in [Ids -> SUBSET Ids] /\ count \in Nat /\ finished \subseteq Ids
      /\ Found = {j \in Ids : order[j] # -1} /\ Active = Found \ finished
  BY <1>1, SearchTypes DEF Active
<1>3. /\ order' \in [Ids -> (-1)..(count' - 1)] /\ parent' \in [Ids -> {0} \cup Ids]
      /\ count' \in Nat /\ here' \in {0} \cup Ids
      /\ order'[i] = count /\ parent'[i] = here
      /\ \A j \in Ids \ {i} : order'[j] = order[j] /\ parent'[j] = parent[j]
      /\ \A j \in Ids : order[j] < count /\ order[j] \in Int
      /\ Found' = Found \cup {i}
  BY <1>1, DiscoverTyped
<1>4. Calls /\ Visited /\ Printing /\ TypeOK   BY DEF Inv
<1>5. Active = {} /\ finished \subseteq Found   BY <1>1, <1>4 DEF Calls
<1>6. Active' = {i} /\ i \notin finished /\ Ids' = Ids /\ here' = i
  BY <1>1, <1>2, <1>3, <1>5 DEF Active, Ids, Discover
<1>7. TypeOK'
  <2>1. todo' \in [Ids -> SUBSET Ids]   BY <1>1, <1>2 DEF Successors
  <2>2. printed' \in Seq(history) /\ crashed' \in Crash   BY <1>1, <1>4 DEF TypeOK
  <2> QED BY <1>1, <1>2, <1>3, <2>1, <2>2, SearchTyped
<1>8. Stacks' /\ Checking'   BY <1>1, ThreadsStutter
<1>9. Calls'
  <2>1. finished' \subseteq Found'   BY <1>1, <1>3, <1>5
  <2>2. \A j, k \in Found' : order'[j] = order'[k] => j = k
    BY <1>2, <1>3, <1>4 DEF Calls
  <2>3. here' # 0 /\ here' \in Active' /\ \A j \in Active' : order'[j] <= order'[here']
    BY <1>2, <1>3, <1>6 DEF Ids
  <2>4. parent'[i] = 0   BY <1>1, <1>3
  <2>5. \A j \in Active' : order'[i] <= order'[j]   BY <1>2, <1>3, <1>6
  <2> QED BY <1>6, <2>1, <2>2, <2>3, <2>4, <2>5 DEF Calls
<1>10. Visited'
  <2>1. todo'[i] = {j \in Ids : <<i, j>> \in history}   BY <1>1, <1>2 DEF Successors
  <2>2. \A j \in todo'[i] : <<i, j>> \in history'   BY <1>1, <2>1
  <2>3. \A j \in Ids : <<i, j>> \in history' => j \in todo'[i]   BY <1>1, <2>1
  <2> QED BY <1>1, <1>4, <1>6, <2>2, <2>3 DEF Visited
<1>11. Printing'   BY <1>1, <1>4 DEF Printing, PrintedIsCircle
<1> QED BY <1>7, <1>8, <1>9, <1>10, <1>11 DEF Inv

LEMMA ReturnKeepsInv == ASSUME Inv, DfsReturn PROVE Inv'
<1>1. /\ crashed = "no" /\ check # NoCheck /\ printed = <<>> /\ here # 0 /\ todo[here] = {}
      /\ finished' = finished \cup {here} /\ here' = parent[here]
      /\ UNCHANGED <<names, history, lockStack, guards, pc, crashed, check, order, count,
                     parent, todo, printed>>
  BY DEF DfsReturn, Searching
<1>2. /\ order \in [Ids -> (-1)..(count - 1)] /\ parent \in [Ids -> {0} \cup Ids]
      /\ todo \in [Ids -> SUBSET Ids]
      /\ count \in Nat /\ finished \subseteq Ids /\ here \in Ids
      /\ Active \subseteq Ids /\ Active \subseteq Found /\ Found \subseteq Ids
  BY <1>1, SearchTypes
<1>3. Calls /\ Visited /\ Printing /\ TypeOK /\ Checking   BY DEF Inv
<1>4. Ids' = Ids /\ Found' = Found /\ Active' = Active \ {here}
  BY <1>1 DEF Ids, Found, Active
<1>5. here \in Active /\ \A i \in Active : order[i] <= order[here]   BY <1>1, <1>3 DEF Calls
<1>6. \A i \in Ids : order[i] \in Int   BY <1>2
<1>7. TypeOK'
  <2>1. printed' \in Seq(history) /\ crashed' \in Crash   BY <1>1, <1>3 DEF TypeOK
  <2>2. here' \in {0} \cup Ids /\ finished' \subseteq Ids   BY <1>1, <1>2
  <2> QED BY <1>1, <1>2, <2>1, <2>2, SearchTyped
<1>8. Stacks' /\ Checking'   BY <1>1, ThreadsStutter
<1>9. Calls'
  <2>1. finished' \subseteq Found'   BY <1>1, <1>3, <1>4, <1>5 DEF Calls, Active
  <2>2. \A i, j \in Found' : order'[i] = order'[j] => i = j   BY <1>1, <1>3, <1>4 DEF Calls
  <2>3. ASSUME parent[here] = 0 PROVE Active' = {}
    <3>1. \A j \in Active : order[here] <= order[j]   BY <1>3, <1>5, <2>3 DEF Calls
    <3>3. \A j \in Active : order[j] = order[here]   BY <1>2, <1>5, <1>6, <3>1
    <3>2. \A j \in Active : j = here   BY <1>2, <1>3, <1>5, <3>3 DEF Calls
    <3> QED BY <1>4, <3>2
  <2>4. ASSUME parent[here] # 0
        PROVE  parent[here] \in Active' /\ \A j \in Active' : order[j] <= order[parent[here]]
    <3>1. /\ parent[here] \in Active /\ order[parent[here]] < order[here]
          /\ \A j \in Active : order[j] < order[here] => order[j] <= order[parent[here]]
      BY <1>3, <1>5, <2>4 DEF Calls
    <3>2. parent[here] # here   BY <1>2, <1>6, <3>1
    <3>3. ASSUME NEW j \in Active' PROVE order[j] < order[here]
      <4>1. j \in Active /\ j # here /\ order[j] <= order[here]   BY <1>4, <1>5
      <4>2. order[j] # order[here]   BY <1>2, <1>3, <1>5, <4>1 DEF Calls
      <4> QED BY <1>2, <1>6, <4>1, <4>2
    <3> QED BY <1>4, <3>1, <3>2, <3>3
  <2>5. /\ here' = 0 => Active' = {}
        /\ here' # 0 => here' \in Active' /\ \A i \in Active' : order'[i] <= order'[here']
    BY <1>1, <2>3, <2>4
  <2>6. ASSUME NEW i \in Active'
        PROVE  /\ parent'[i] = 0 => \A j \in Active' : order'[i] <= order'[j]
               /\ parent'[i] # 0 =>
                     /\ parent'[i] \in Active' /\ <<parent'[i], i>> \in history'
                     /\ order'[parent'[i]] < order'[i]
                     /\ \A j \in Active' : order'[j] < order'[i] => order'[j] <= order'[parent'[i]]
               /\ i # here' => \E j \in Active' : parent'[j] = i
    <3>1. i \in Active /\ i # here   BY <1>4
    <3>2. parent[i] = 0 => \A j \in Active' : order[i] <= order[j]
      BY <1>3, <1>4, <3>1 DEF Calls
    <3>3. ASSUME parent[i] # 0
          PROVE  /\ parent[i] \in Active' /\ <<parent[i], i>> \in history
                 /\ order[parent[i]] < order[i]
                 /\ \A j \in Active' : order[j] < order[i] => order[j] <= order[parent[i]]
      <4>1. /\ parent[i] \in Active /\ <<parent[i], i>> \in history
            /\ order[parent[i]] < order[i]
            /\ \A j \in Active : order[j] < order[i] => order[j] <= order[parent[i]]
        BY <1>3, <3>1, <3>3 DEF Calls
      <4>2. parent[i] # here   BY <1>2, <1>5, <1>6, <3>1, <4>1
      <4> QED BY <1>4, <4>1, <4>2
    <3>4. ASSUME i # parent[here] PROVE \E j \in Active' : parent[j] = i
      <4>1. PICK j \in Active : parent[j] = i   BY <1>3, <3>1 DEF Calls
      <4>2. j # here   BY <3>4, <4>1
      <4> QED BY <1>4, <4>1, <4>2
    <3> QED BY <1>1, <3>2, <3>3, <3>4
  <2> QED BY <2>1, <2>2, <2>5, <2>6 DEF Calls
<1>10. ASSUME NEW j \in Ids, <<here, j>> \in history PROVE j \in finished
  <2>1. j \in finished \/ (j \in Active /\ parent[j] = here)
    BY <1>1, <1>3, <1>5, <1>10 DEF Visited
  <2>2. ASSUME j \in Active, parent[j] = here PROVE FALSE
    <3>1. order[here] < order[j]   BY <1>1, <1>3, <2>2 DEF Calls
    <3>2. order[j] <= order[here]   BY <1>5, <2>2
    <3> QED BY <1>2, <1>6, <2>2, <3>1, <3>2
  <2> QED BY <2>1, <2>2
<1>11. Visited'
  <2>1. ASSUME NEW i \in Active'
        PROVE  /\ \A j \in todo'[i] : <<i, j>> \in history'
               /\ \A j \in Ids' : <<i, j>> \in history' =>
                     j \in todo'[i] \/ j \in finished' \/ (j \in Active' /\ parent'[j] = i)
    BY <1>1, <1>3, <1>4 DEF Visited
  <2>2. \A i \in finished' : \A j \in Ids' : <<i, j>> \in history' => j \in finished'
    BY <1>1, <1>3, <1>4, <1>10 DEF Visited
  <2>3. ASSUME NEW C \in SUBSET finished', C # {}
        PROVE  \E c \in C : \A d \in C : <<c, d>> \notin history
    <3>1. CASE here \notin C   BY <1>1, <1>3, <2>3, <3>1 DEF Visited
    <3>2. CASE C = {here}   BY <1>3, <3>2 DEF Checking
    <3>3. CASE here \in C /\ C # {here}
      <4>1. C \ {here} \in SUBSET finished /\ C \ {here} # {}   BY <1>1, <3>3
      <4>2. PICK c \in C \ {here} : \A d \in C \ {here} : <<c, d>> \notin history
        BY <1>3, <4>1 DEF Visited
      <4>3. c \in finished /\ here \notin finished   BY <1>5, <4>1 DEF Active
      <4>4. <<c, here>> \notin history   BY <1>2, <1>3, <4>3 DEF Visited
      <4> QED BY <4>2, <4>4
    <3> QED BY <3>1, <3>2, <3>3
  <2> QED BY <1>1, <2>1, <2>2, <2>3 DEF Visited
<1>12. Printing'   BY <1>1, <1>3 DEF Printing, PrintedIsCircle
<1> QED BY <1>7, <1>8, <1>9, <1>11, <1>12 DEF Inv

LEMMA DiscoverKeepsInv ==
    ASSUME Inv, NEW there \in Ids, DfsNext(there), order[there] = -1
    PROVE  Inv'
<1>1. /\ crashed = "no" /\ check # NoCheck /\ printed = <<>> /\ here # 0 /\ there \in todo[here]
      /\ Discover(there)
      /\ todo' = [todo EXCEPT ![here] = @ \ {there}, ![there] = Successors(there)]
      /\ UNCHANGED <<names, history, lockStack, guards, pc, crashed, check, finished, printed>>
  BY DEF DfsNext, Searching
<1>2. /\ order \in [Ids -> (-1)..(count - 1)] /\ todo \in [Ids -> SUBSET Ids]
      /\ count \in Nat /\ finished \subseteq Ids /\ here \in Ids
      /\ Found = {j \in Ids : order[j] # -1} /\ Active = Found \ finished
      /\ Active \subseteq Ids
  BY <1>1, SearchTypes DEF Active
<1>3. /\ order' \in [Ids -> (-1)..(count' - 1)] /\ parent' \in [Ids -> {0} \cup Ids]
      /\ count' \in Nat /\ here' \in {0} \cup Ids
      /\ order'[there] = count /\ parent'[there] = here
      /\ \A j \in Ids \ {there} : order'[j] = order[j] /\ parent'[j] = parent[j]
      /\ \A j \in Ids : order[j] < count /\ order[j] \in Int
      /\ Found' = Found \cup {there}
  BY <1>1, DiscoverTyped
<1>4. Calls /\ Visited /\ Printing /\ TypeOK   BY DEF Inv
<1>5. here \in Active /\ finished \subseteq Found /\ \A i \in Active : order[i] <= order[here]
  BY <1>1, <1>4 DEF Calls
<1>6. /\ there \notin Found /\ there \notin Active /\ there \notin finished
      /\ Active' = Active \cup {there} /\ Ids' = Ids /\ here' = there /\ there # here
  BY <1>1, <1>2, <1>3, <1>5 DEF Active, Ids, Discover
<1>7. <<here, there>> \in history   BY <1>1, <1>4, <1>5 DEF Visited
<1>8. /\ todo'[here] = todo[here] \ {there}
      /\ todo'[there] = {j \in Ids : <<there, j>> \in history}
      /\ \A i \in Ids \ {here, there} : todo'[i] = todo[i]
      /\ todo' \in [Ids -> SUBSET Ids]
  <2> DEFINE S == Successors(there)
             R == todo[here] \ {there}
  <2>1. S = {j \in Ids : <<there, j>> \in history} /\ S \in SUBSET Ids   BY DEF Successors
  <2>2. todo' = [todo EXCEPT ![here] = R, ![there] = S]   BY <1>1
  <2>3. R \in SUBSET Ids   BY <1>2
  <2> HIDE DEF S, R
  <2>4. /\ todo'[here] = R /\ todo'[there] = S
        /\ \A i \in Ids \ {here, there} : todo'[i] = todo[i]
        /\ todo' \in [Ids -> SUBSET Ids]
    BY <1>2, <1>6, <2>1, <2>2, <2>3
  <2> QED BY <2>1, <2>4 DEF R
<1>9. TypeOK'
  <2>1. printed' \in Seq(history) /\ crashed' \in Crash   BY <1>1, <1>4 DEF TypeOK
  <2> QED BY <1>1, <1>2, <1>3, <1>8, <2>1, SearchTyped
<1>10. Stacks' /\ Checking'   BY <1>1, ThreadsStutter
<1>11. Calls'
  <2>1. finished' \subseteq Found'   BY <1>1, <1>3, <1>5
  <2>2. \A j, k \in Found' : order'[j] = order'[k] => j = k
    BY <1>2, <1>3, <1>4, <1>6 DEF Calls
  <2>3. \A i \in Active : order'[i] = order[i] /\ parent'[i] = parent[i] /\ order[i] < count
    BY <1>2, <1>3, <1>6
  <2>4. \A j \in Active' : order'[j] <= count   BY <1>2, <1>3, <1>6, <2>3
  <2>5. here' # 0 /\ here' \in Active' /\ \A j \in Active' : order'[j] <= order'[here']
    BY <1>2, <1>3, <1>6, <2>4 DEF Ids
  <2>6. ASSUME NEW i \in Active'
        PROVE  /\ parent'[i] = 0 => \A j \in Active' : order'[i] <= order'[j]
               /\ parent'[i] # 0 =>
                     /\ parent'[i] \in Active' /\ <<parent'[i], i>> \in history'
                     /\ order'[parent'[i]] < order'[i]
                     /\ \A j \in Active' : order'[j] < order'[i] => order'[j] <= order'[parent'[i]]
               /\ i # here' => \E j \in Active' : parent'[j] = i
    <3>1. CASE i = there
      <4>1. parent'[i] = here /\ here \in Active' /\ order'[here] = order[here]
        BY <1>3, <1>5, <1>6, <2>3, <3>1
      <4>2. \A j \in Active' : order'[j] < order'[i] => order'[j] <= order'[here]
        BY <1>3, <1>5, <1>6, <2>3, <3>1
      <4> QED BY <1>1, <1>2, <1>3, <1>5, <1>6, <1>7, <2>3, <3>1, <4>1, <4>2
    <3>2. CASE i # there
      <4>1. i \in Active /\ order'[i] = order[i] /\ parent'[i] = parent[i] /\ order[i] < count
        BY <1>6, <2>3, <3>2
      <4>2. parent[i] = 0 => \A j \in Active' : order'[i] <= order'[j]
        <5>1. parent[i] = 0 => \A j \in Active : order[i] <= order[j]   BY <1>4, <4>1 DEF Calls
        <5> QED BY <1>2, <1>3, <1>6, <2>3, <4>1, <5>1
      <4>3. ASSUME parent[i] # 0
            PROVE  /\ parent[i] \in Active' /\ <<parent[i], i>> \in history'
                   /\ order'[parent[i]] < order'[i]
                   /\ \A j \in Active' : order'[j] < order'[i] => order'[j] <= order'[parent[i]]
        <5>1. /\ parent[i] \in Active /\ <<parent[i], i>> \in history
              /\ order[parent[i]] < order[i]
              /\ \A j \in Active : order[j] < order[i] => order[j] <= order[parent[i]]
          BY <1>4, <4>1, <4>3 DEF Calls
        <5>2. order'[there] > order[i]   BY <1>2, <1>3, <4>1
        <5>3. order'[parent[i]] = order[parent[i]]   BY <2>3, <5>1
        <5>4. ASSUME NEW j \in Active', order'[j] < order'[i]
              PROVE  order'[j] <= order'[parent[i]]
          <6>1. j # there   BY <1>2, <1>3, <4>1, <5>4
          <6>2. j \in Active /\ order'[j] = order[j]   BY <1>6, <2>3, <6>1
          <6> QED BY <4>1, <5>1, <5>3, <5>4, <6>2
        <5> QED BY <1>1, <1>6, <4>1, <5>1, <5>3, <5>4
      <4>4. \E j \in Active' : parent'[j] = i
        <5>1. CASE i = here   BY <1>3, <1>6, <5>1
        <5>2. CASE i # here
          <6>1. PICK j \in Active : parent[j] = i   BY <1>4, <4>1, <5>2 DEF Calls
          <6> QED BY <1>6, <2>3, <6>1
        <5> QED BY <5>1, <5>2
      <4> QED BY <4>1, <4>2, <4>3, <4>4
    <3> QED BY <3>1, <3>2
  <2> QED BY <2>1, <2>2, <2>5, <2>6 DEF Calls
<1>12. Visited'
  <2>1. ASSUME NEW i \in Active'
        PROVE  /\ \A j \in todo'[i] : <<i, j>> \in history'
               /\ \A j \in Ids' : <<i, j>> \in history' =>
                     j \in todo'[i] \/ j \in finished' \/ (j \in Active' /\ parent'[j] = i)
    <3>1. CASE i = there   BY <1>1, <1>6, <1>8, <3>1
    <3>2. CASE i # there
      <4>1. i \in Active /\ i \in Ids   BY <1>2, <1>6, <3>2
      <4>2. todo'[i] = todo[i] \/ (i = here /\ todo'[i] = todo[i] \ {there})
        BY <1>6, <1>8, <3>2, <4>1
      <4>3. \A j \in todo[i] : <<i, j>> \in history   BY <1>4, <4>1 DEF Visited
      <4>4. ASSUME NEW j \in Ids, <<i, j>> \in history
            PROVE  j \in todo'[i] \/ j \in finished' \/ (j \in Active' /\ parent'[j] = i)
        <5>1. j \in todo[i] \/ j \in finished \/ (j \in Active /\ parent[j] = i)
          BY <1>1, <1>4, <4>1, <4>4 DEF Visited
        <5>2. CASE j \in Active /\ parent[j] = i   BY <1>3, <1>6, <5>2
        <5>3. CASE j \in todo[i]   BY <1>3, <1>6, <4>2, <5>3
        <5> QED BY <1>1, <5>1, <5>2, <5>3
      <4> QED BY <1>1, <1>6, <4>2, <4>3, <4>4
    <3> QED BY <3>1, <3>2
  <2>2. \A i \in finished' : \A j \in Ids' : <<i, j>> \in history' => j \in finished'
    BY <1>1, <1>4, <1>6 DEF Visited
  <2>3. \A C \in SUBSET finished' : C # {} => \E c \in C : \A d \in C : <<c, d>> \notin history'
    BY <1>1, <1>4 DEF Visited
  <2> QED BY <2>1, <2>2, <2>3 DEF Visited
<1>13. Printing'   BY <1>1, <1>4 DEF Printing, PrintedIsCircle
<1> QED BY <1>9, <1>10, <1>11, <1>12, <1>13 DEF Inv

(* An edge to a vertex found before: either that vertex is done with, or   *)
(* its call of Dfs is under way and the edge closes a circle.              *)
LEMMA TurnKeepsInv ==
    ASSUME Inv, NEW there \in Ids, DfsNext(there), order[there] # -1
    PROVE  Inv'
<1>1. /\ crashed = "no" /\ check # NoCheck /\ printed = <<>> /\ here # 0 /\ there \in todo[here]
      /\ todo' = [todo EXCEPT ![here] = @ \ {there}]
      /\ printed' = IF ClosesCircle(there) THEN <<<<here, there>>>> ELSE <<>>
      /\ UNCHANGED <<here, order, count, parent>>
      /\ UNCHANGED <<names, history, lockStack, guards, pc, crashed, check, finished>>
  BY DEF DfsNext, Searching
<1>2. /\ order \in [Ids -> (-1)..(count - 1)] /\ parent \in [Ids -> {0} \cup Ids]
      /\ todo \in [Ids -> SUBSET Ids]
      /\ count \in Nat /\ finished \subseteq Ids /\ here \in Ids
      /\ Found = {j \in Ids : order[j] # -1} /\ Active = Found \ finished
      /\ Active \subseteq Ids
  BY <1>1, SearchTypes DEF Active
<1>3. Calls /\ Visited /\ Printing /\ TypeOK /\ Checking   BY DEF Inv
<1>4. Ids' = Ids /\ Found' = Found /\ Active' = Active   BY <1>1 DEF Ids, Found, Active
<1>5. here \in Active /\ \A i \in Active : order[i] <= order[here]   BY <1>1, <1>3 DEF Calls
<1>6. <<here, there>> \in history /\ here # there   BY <1>1, <1>3, <1>5 DEF Visited, Checking
<1>7. /\ todo'[here] = todo[here] \ {there} /\ \A i \in Ids \ {here} : todo'[i] = todo[i]
      /\ todo' \in [Ids -> SUBSET Ids]
  BY <1>1, <1>2
<1>8. ASSUME ~ClosesCircle(there)
      PROVE  /\ Printing' /\ printed' \in Seq(history)
             /\ \A i \in Active : \A j \in Ids : <<i, j>> \in history =>
                   j \in todo'[i] \/ j \in finished \/ (j \in Active /\ parent[j] = i)
  <2>1. printed' = <<>>   BY <1>1, <1>8
  <2>2. there \in finished
    <3>1. there \in Found   BY <1>2
    <3>2. there \in Active => order[there] <= order[here]   BY <1>5
    <3>3. order[there] \in Int /\ order[here] \in Int   BY <1>2
    <3> QED BY <1>2, <1>8, <3>1, <3>2, <3>3 DEF ClosesCircle
  <2>3. Printing'   BY <1>1, <1>3, <2>1 DEF Printing, PrintedIsCircle
  <2>4. printed' \in Seq(history)   BY <1>1, <1>3, <2>1 DEF TypeOK
  <2>5. ASSUME NEW i \in Active, NEW j \in Ids, <<i, j>> \in history
        PROVE  j \in todo'[i] \/ j \in finished \/ (j \in Active /\ parent[j] = i)
    <3>1. j \in todo[i] \/ j \in finished \/ (j \in Active /\ parent[j] = i)
      BY <1>1, <1>3, <2>5 DEF Visited
    <3> QED BY <1>2, <1>7, <2>2, <3>1
  <2> QED BY <2>3, <2>4, <2>5
<1>9. ASSUME ClosesCircle(there)
      PROVE  Printing' /\ printed' \in Seq(history) /\ printed' # <<>>
  <2>1. printed' = <<<<here, there>>>>   BY <1>1, <1>9
  <2>2. there \in Active /\ order[there] <= order[here]
    BY <1>2, <1>9 DEF ClosesCircle
  <2>3. order[there] < order[here]
    <3>1. order[there] # order[here]   BY <1>2, <1>3, <1>5, <1>6, <2>2 DEF Calls
    <3> QED BY <1>2, <2>2, <3>1
  <2>4. printed' \in Seq(history)   BY <1>6, <2>1
  <2>5. Len(printed') = 1 /\ printed'[1] = <<here, there>> /\ DOMAIN printed' = 1..1
    BY <2>1
  <2>6. Top(printed') = <<here, there>>   BY <2>5 DEF Top
  <2>7. PrintedIsCircle'   BY <1>1, <1>6, <2>5, <2>6 DEF PrintedIsCircle
  <2>8. Printing'
    BY <1>1, <1>3, <1>4, <1>5, <2>1, <2>2, <2>3, <2>5, <2>6, <2>7 DEF Printing, Top
  <2>9. printed' # <<>>   BY <2>1
  <2> QED BY <2>4, <2>8, <2>9
<1>10. Printing' /\ printed' \in Seq(history)   BY <1>8, <1>9
<1>11. printed' = <<>> => \A i \in Active : \A j \in Ids : <<i, j>> \in history =>
           j \in todo'[i] \/ j \in finished \/ (j \in Active /\ parent[j] = i)
  BY <1>8, <1>9
<1>12. TypeOK'
  <2>1. crashed' \in Crash   BY <1>1, <1>3 DEF TypeOK
  <2> QED BY <1>1, <1>2, <1>7, <1>10, <2>1, SearchTyped
<1>13. Stacks' /\ Checking'   BY <1>1, ThreadsStutter
<1>14. Calls'   BY <1>1, <1>3, <1>4 DEF Calls
<1>15. Visited'
  <2>1. \A i \in Active : \A j \in todo'[i] : <<i, j>> \in history
    BY <1>2, <1>3, <1>7 DEF Visited
  <2> QED BY <1>1, <1>3, <1>4, <1>11, <2>1 DEF Visited
<1> QED BY <1>10, <1>12, <1>13, <1>14, <1>15 DEF Inv

(* What PrintParent prints next, and where it stops.                       *)
LEMMA WayBack ==
    ASSUME Inv, crashed = "no", printed # <<>>, NEW now, now = Top(printed)[1]
    PROVE  /\ now \in Active /\ parent[now] \in Active /\ <<parent[now], now>> \in history
           /\ printed[1][2] \in Active /\ order[printed[1][2]] <= order[parent[now]]
           /\ parent[now] # printed[1][2] => order[printed[1][2]] < order[parent[now]]
<1> DEFINE there == printed[1][2]
<1>1. /\ now \in Active /\ there \in Active /\ order[there] < order[now] /\ check # NoCheck
  BY DEF Inv, Printing
<1>2. /\ order \in [Ids -> (-1)..(count - 1)] /\ Active \subseteq Ids /\ Active \subseteq Found
      /\ count \in Nat
  BY <1>1, SearchTypes
<1>3. Calls   BY DEF Inv
<1> HIDE DEF there
<1>4. parent[now] # 0
  <2>1. ASSUME parent[now] = 0 PROVE order[now] <= order[there]   BY <1>1, <1>3, <2>1 DEF Calls
  <2> QED BY <1>1, <1>2, <2>1
<1>5. /\ parent[now] \in Active /\ <<parent[now], now>> \in history
      /\ order[there] <= order[parent[now]]
  BY <1>1, <1>3, <1>4 DEF Calls
<1>6. parent[now] # there => order[there] # order[parent[now]]
  BY <1>1, <1>2, <1>3, <1>5 DEF Calls
<1>7. parent[now] # there => order[there] < order[parent[now]]   BY <1>1, <1>2, <1>5, <1>6
<1> QED BY <1>1, <1>5, <1>7 DEF there

LEMMA PrintKeepsInv == ASSUME Inv, PrintParent PROVE Inv'
<1> DEFINE now  == Top(printed)[1]
           line == <<parent[now], now>>
<1>1. /\ crashed = "no" /\ printed # <<>> /\ printed' = Append(printed, line)
      /\ crashed' = IF parent[now] = printed[1][2] THEN "DEADLOCK_DETECTED" ELSE "no"
      /\ UNCHANGED <<names, history, lockStack, guards, pc, check, marks>>
  BY DEF PrintParent
<1>2. /\ now \in Active /\ parent[now] \in Active /\ line \in history
      /\ printed[1][2] \in Active
      /\ parent[now] # printed[1][2] => order[printed[1][2]] < order[parent[now]]
  BY <1>1, WayBack
<1>3. Calls /\ Visited /\ Printing /\ TypeOK   BY DEF Inv
<1>4. check # NoCheck /\ here # 0 /\ printed[1][1] = here   BY <1>1, <1>3 DEF Printing
<1>5. /\ order \in [Ids -> (-1)..(count - 1)] /\ parent \in [Ids -> {0} \cup Ids]
      /\ todo \in [Ids -> SUBSET Ids] /\ count \in Nat /\ finished \subseteq Ids
      /\ here \in {0} \cup Ids
  BY <1>4, SearchTypes
<1>6. /\ here' = here /\ order' = order /\ count' = count /\ finished' = finished
      /\ parent' = parent /\ todo' = todo
  BY <1>1 DEF marks
<1>7. Ids' = Ids /\ Found' = Found /\ Active' = Active   BY <1>1, <1>6 DEF Ids, Found, Active
<1>8. line[1] = parent[now] /\ line[2] = now   OBVIOUS
<1> HIDE DEF line
<1>9. printed \in Seq(history) /\ Len(printed) \in Nat \ {0} /\ DOMAIN printed = 1..Len(printed)
  BY <1>1, <1>3, EmptySeq, LenProperties DEF TypeOK
<1>10. /\ printed' \in Seq(history) /\ Len(printed') = Len(printed) + 1
       /\ DOMAIN printed' = 1..(Len(printed) + 1)
       /\ \A k \in 1..Len(printed) : printed'[k] = printed[k]
       /\ printed'[Len(printed) + 1] = line
  BY <1>1, <1>2, <1>9, AppendProperties
<1>11. /\ printed' # <<>> /\ printed'[1] = printed[1] /\ Top(printed') = line
       /\ Top(printed)[1] = now
  BY <1>9, <1>10, EmptySeq DEF Top
<1>12. TypeOK'
  <2>1. crashed' \in Crash   BY <1>1 DEF Crash
  <2> QED BY <1>1, <1>4, <1>5, <1>6, <1>10, <2>1, SearchTyped
<1>13. Stacks' /\ Checking'   BY <1>1, ThreadsStutter
<1>14. Calls'   BY <1>1, <1>3, <1>6, <1>7 DEF Calls
<1>15. Visited'   BY <1>1, <1>3, <1>6, <1>7, <1>11 DEF Visited
<1>16. PrintedIsCircle'
  <2>1. \A k \in DOMAIN printed' : printed'[k] \in history'
    BY <1>1, <1>2, <1>3, <1>9, <1>10 DEF Printing, PrintedIsCircle
  <2>2. ASSUME NEW k \in 2..Len(printed') PROVE printed'[k][2] = printed'[k - 1][1]
    <3>1. CASE k \in 2..Len(printed)
      BY <1>3, <1>9, <1>10, <3>1 DEF Printing, PrintedIsCircle
    <3>2. CASE k = Len(printed) + 1
      <4>1. printed'[k] = line /\ printed'[k - 1] = printed[Len(printed)]
        BY <1>9, <1>10, <3>2
      <4> QED BY <1>8, <1>11, <4>1 DEF Top
    <3> QED BY <1>9, <1>10, <3>1, <3>2
  <2>3. crashed' = "DEADLOCK_DETECTED" => Top(printed')[1] = printed'[1][2]
    BY <1>1, <1>8, <1>11
  <2>4. Top(printed)' = Top(printed')   BY DEF Top
  <2> QED BY <2>1, <2>2, <2>3, <2>4 DEF PrintedIsCircle
<1>17. Printing'
  <2>1. Top(printed)' = Top(printed')   BY DEF Top
  <2>2. crashed' \in {"no", "DEADLOCK_DETECTED"}   BY <1>1
  <2>3. crashed' = "no" =>
            /\ line[1] \in Active' /\ printed'[1][2] \in Active'
            /\ order'[printed'[1][2]] < order'[line[1]]
    BY <1>1, <1>2, <1>6, <1>7, <1>8, <1>11
  <2> QED BY <1>1, <1>4, <1>6, <1>11, <1>16, <2>1, <2>2, <2>3 DEF Printing
<1> QED BY <1>12, <1>13, <1>14, <1>15, <1>17 DEF Inv

(* When the lines are printed there is a circle: here, the calls that led  *)
(* to it from the vertex there, and the edge from here to there.           *)
LEMMA PrintedOnACircle ==
    ASSUME Inv, crashed = "no", printed # <<>>
    PROVE  LockOf!Cyclic(history)
<1> DEFINE there == printed[1][2]
           C == {v \in Active : order[there] <= order[v]}
<1>1. /\ check # NoCheck /\ here # 0 /\ printed[1][1] = here /\ there \in Active
      /\ Top(printed)[1] \in Active /\ order[there] < order[Top(printed)[1]]
      /\ printed \in Seq(history) /\ Calls
  BY DEF Inv, Printing, TypeOK
<1>2. /\ order \in [Ids -> (-1)..(count - 1)] /\ Active \subseteq Ids /\ count \in Nat
      /\ parent \in [Ids -> {0} \cup Ids]
  BY <1>1, SearchTypes
<1>3. <<here, there>> \in history
  <2>1. printed[1] \in history   BY <1>1, EmptySeq, ElementOfSeq
  <2>2. history \subseteq Ids \X Ids   BY DEF Inv, TypeOK
  <2> QED BY <1>1, <2>1, <2>2
<1> HIDE DEF there
<1>4. here \in Active /\ \A i \in Active : order[i] <= order[here]   BY <1>1 DEF Calls
<1>5. here \in C /\ there \in C   BY <1>1, <1>2, <1>4
<1>6. ASSUME NEW v \in C PROVE \E w \in C : <<v, w>> \in history
  <2>1. CASE v = here   BY <1>3, <1>5, <2>1
  <2>2. CASE v # here
    <3>1. PICK w \in Active : parent[w] = v   BY <1>1, <1>6, <2>2 DEF Calls
    <3>2. v # 0   BY <1>2 DEF Ids
    <3>3. <<v, w>> \in history /\ order[v] < order[w]   BY <1>1, <3>1, <3>2 DEF Calls
    <3>4. w \in C   BY <1>1, <1>2, <1>6, <3>1, <3>3
    <3> QED BY <3>3, <3>4
  <2> QED BY <2>1, <2>2
<1>7. C \in SUBSET {e[1] : e \in history}
  <2>1. ASSUME NEW v \in C PROVE v \in {e[1] : e \in history}
    <3>1. PICK w \in C : <<v, w>> \in history   BY <1>6
    <3>2. <<v, w>>[1] = v   OBVIOUS
    <3> QED BY <3>1, <3>2
  <2> QED BY <2>1
<1> HIDE DEF C
<1> QED BY <1>5, <1>6, <1>7 DEF LockOf!Cyclic

-----------------------------------------------------------------------------
(* PushLock, PopLock and the lock itself.                                  *)

(* A name gets an id once, and the ids of other names stay.                *)
LEMMA NamesGrow ==
    ASSUME Inv, NEW l \in Locks, names' = Registered(names, Name[l])
    PROVE  /\ names' \in Seq({Name[m] : m \in Locks}) /\ Ids \subseteq Ids'
           /\ Len(names) \in Nat /\ Len(names') \in Nat
           /\ \A i \in Ids : names'[i] = names[i]
           /\ \A i, j \in Ids' : names'[i] = names'[j] => i = j
           /\ IdIn(names', Name[l]) \in Ids' /\ names'[IdIn(names', Name[l])] = Name[l]
<1> DEFINE n == Name[l]
           S == {Name[m] : m \in Locks}
<1>1. n \in S   OBVIOUS
<1>2. names \in Seq(S) /\ \A i, j \in Ids : names[i] = names[j] => i = j
  BY DEF Inv, TypeOK
<1> HIDE DEF n, S
<1>3. Len(names) \in Nat /\ DOMAIN names = Ids   BY <1>2, LenProperties DEF Ids
<1>4. names' = IF \E i \in Ids : names[i] = n THEN names ELSE Append(names, n)
  BY <1>3 DEF Registered, n
<1>5. ASSUME NEW i \in Ids', names'[i] = n, names' \in Seq(S)
      PROVE  IdIn(names', n) \in Ids' /\ names'[IdIn(names', n)] = n
  <2>1. DOMAIN names' = Ids'   BY <1>5, LenProperties DEF Ids
  <2> QED BY <1>5, <2>1 DEF IdIn
<1>6. CASE \E i \in Ids : names[i] = n
  <2>1. names' = names   BY <1>4, <1>6
  <2>2. Ids' = Ids   BY <2>1 DEF Ids
  <2>3. IdIn(names', n) \in Ids' /\ names'[IdIn(names', n)] = n
    BY <1>2, <1>5, <1>6, <2>1, <2>2
  <2> QED BY <1>2, <1>3, <2>1, <2>2, <2>3 DEF n, S
<1>7. CASE ~\E i \in Ids : names[i] = n
  <2>1. names' = Append(names, n)   BY <1>4, <1>7
  <2>2. /\ names' \in Seq(S) /\ Len(names') = Len(names) + 1
        /\ \A i \in 1..Len(names) : names'[i] = names[i]
        /\ names'[Len(names) + 1] = n
    BY <1>1, <1>2, <1>3, <2>1, AppendProperties
  <2>3. Ids = 1..Len(names) /\ Ids' = 1..(Len(names) + 1)   BY <2>2 DEF Ids
  <2>4. Len(names) + 1 \in Ids' /\ Len(names') \in Nat /\ Ids \subseteq Ids'
    BY <1>3, <2>2, <2>3
  <2>5. IdIn(names', n) \in Ids' /\ names'[IdIn(names', n)] = n
    BY <1>5, <2>2, <2>4
  <2>6. \A i, j \in Ids' : names'[i] = names'[j] => i = j
    <3>1. \A i \in Ids' : i \in Ids \/ i = Len(names) + 1   BY <1>3, <2>3
    <3>2. \A i \in Ids : names'[i] = names[i] /\ names[i] # n   BY <1>7, <2>2, <2>3
    <3> QED BY <1>2, <2>2, <3>1, <3>2
  <2> QED BY <1>3, <2>2, <2>3, <2>4, <2>5, <2>6 DEF n, S
<1> QED BY <1>6, <1>7

(* The end of PushLock, in the step PushLock or after a search.            *)
LEMMA PushedKeepsStacks ==
    ASSUME Inv, NEW t \in Threads, NEW g \in Guard, NEW id \in Ids', Pushed(t, g, id),
           names'[id] = Name[g.lock], Ids \subseteq Ids', \A i \in Ids : names'[i] = names[i]
    PROVE  /\ Stacks' /\ pc' \in [Threads -> {"user", "spin"}]
           /\ lockStack' \in [Threads -> Seq(Ids')] /\ guards' \in [Threads -> Seq(Guard)]
<1>1. /\ lockStack' = [lockStack EXCEPT ![t] = Append(@, id)]
      /\ guards' = [guards EXCEPT ![t] = Append(@, g)]
      /\ pc' = [pc EXCEPT ![t] = "spin"]
  BY DEF Pushed, Goto
<1>2. /\ lockStack \in [Threads -> Seq(Ids)] /\ guards \in [Threads -> Seq(Guard)]
      /\ pc \in [Threads -> {"user", "spin"}] /\ Stacks
  BY DEF Inv, TypeOK
<1>3. lockStack \in [Threads -> Seq(Ids')]
  <2>1. \A u \in Threads : lockStack[u] \in Seq(Ids')   BY <1>2, SeqMonotonic
  <2> QED BY <1>2, <2>1
<1>4. /\ lockStack[t] \in Seq(Ids') /\ guards[t] \in Seq(Guard)
      /\ lockStack'[t] = Append(lockStack[t], id) /\ guards'[t] = Append(guards[t], g)
      /\ Len(lockStack[t]) = Len(guards[t]) /\ Len(guards[t]) \in Nat
  BY <1>1, <1>2, <1>3, LenProperties DEF Stacks
<1>5. /\ lockStack'[t] \in Seq(Ids') /\ Len(lockStack'[t]) = Len(guards[t]) + 1
      /\ \A k \in 1..Len(guards[t]) : lockStack'[t][k] = lockStack[t][k]
      /\ lockStack'[t][Len(guards[t]) + 1] = id
  BY <1>4, AppendProperties
<1>6. /\ guards'[t] \in Seq(Guard) /\ Len(guards'[t]) = Len(guards[t]) + 1
      /\ \A k \in 1..Len(guards[t]) : guards'[t][k] = guards[t][k]
      /\ guards'[t][Len(guards[t]) + 1] = g
  BY <1>4, AppendProperties
<1>7. \A u \in Threads : lockStack[u] \in Seq(Ids)   BY <1>2
<1>8. ASSUME NEW u \in Threads, NEW k \in 1..Len(guards[u])
      PROVE  lockStack[u][k] \in Ids /\ names'[lockStack[u][k]] = Name[guards[u][k].lock]
  <2>1. Len(lockStack[u]) = Len(guards[u]) /\ names[lockStack[u][k]] = Name[guards[u][k].lock]
    BY <1>2, <1>8 DEF Stacks
  <2>2. lockStack[u][k] \in Ids   BY <1>7, <1>8, <2>1, ElementOfSeq
  <2> QED BY <2>1, <2>2
<1>9. ASSUME NEW u \in Threads
      PROVE  /\ Len(lockStack'[u]) = Len(guards'[u])
             /\ \A k \in 1..Len(guards'[u]) : names'[lockStack'[u][k]] = Name[guards'[u][k].lock]
             /\ pc'[u] = "spin" => guards'[u] # <<>>
  <2>1. CASE u = t
    <3>1. Len(guards[t]) \in Nat /\ Len(guards'[t]) = Len(guards[t]) + 1   BY <1>4, <1>6
    <3>2. guards'[t] # <<>>
      <4>1. Len(guards'[t]) # 0   BY <3>1
      <4> QED BY <4>1, EmptySeq
    <3>3. ASSUME NEW k \in 1..Len(guards'[t])
          PROVE  names'[lockStack'[t][k]] = Name[guards'[t][k].lock]
      <4>1. k \in 1..Len(guards[t]) \/ k = Len(guards[t]) + 1   BY <3>1, <3>3
      <4>2. CASE k \in 1..Len(guards[t])
        <5>1. lockStack'[t][k] = lockStack[t][k] /\ guards'[t][k] = guards[t][k]
          BY <1>5, <1>6, <4>2
        <5> QED BY <1>8, <4>2, <5>1
      <4>3. CASE k = Len(guards[t]) + 1
        <5>1. lockStack'[t][k] = id /\ guards'[t][k] = g   BY <1>5, <1>6, <4>3
        <5> QED BY <5>1
      <4> QED BY <4>1, <4>2, <4>3
    <3>4. Len(lockStack'[t]) = Len(guards'[t])   BY <1>5, <1>6
    <3> QED BY <2>1, <3>2, <3>3, <3>4
  <2>2. CASE u # t
    <3>1. lockStack'[u] = lockStack[u] /\ guards'[u] = guards[u] /\ pc'[u] = pc[u]
      BY <1>1, <1>2, <2>2
    <3> QED BY <1>2, <1>8, <3>1 DEF Stacks
  <2> QED BY <2>1, <2>2
<1>10. Stacks'   BY <1>9 DEF Stacks
<1> QED BY <1>1, <1>2, <1>3, <1>4, <1>5, <1>6, <1>10

(* No marks, no search.                                                    *)
LEMMA Unmarked ==
    ASSUME here' = 0, finished' = {}, \A i \in DOMAIN order' : order'[i] = -1,
           printed' = <<>>, crashed' = "no"
    PROVE  Calls' /\ Visited' /\ Printing'
<1>1. Found' = {} /\ Active' = {}   BY DEF Found, Active
<1>2. Calls'   BY <1>1 DEF Calls
<1>3. Visited'   BY <1>1 DEF Visited
<1>4. DOMAIN printed' = {} /\ Len(printed') = 0   OBVIOUS
<1>5. PrintedIsCircle'   BY <1>4 DEF PrintedIsCircle
<1>6. Printing'   BY <1>5 DEF Printing
<1> QED BY <1>2, <1>3, <1>6

LEMMA Idle ==
    ASSUME Inv, check = NoCheck
    PROVE  /\ printed = <<>> /\ crashed = "no" /\ here = 0 /\ finished = {}
           /\ \A i \in DOMAIN order : order[i] = -1
           /\ count \in Nat /\ order \in [{} -> (-1)..(count - 1)]
           /\ parent \in [{} -> {0}] /\ todo \in [{} -> SUBSET {}]
<1>1. /\ count \in Nat /\ order \in [{} -> (-1)..(count - 1)]
      /\ parent \in [{} -> {0} \cup {}] /\ todo \in [{} -> SUBSET {}]
  BY DEF Inv, TypeOK
<1>2. Found = {} /\ Active = {}   BY <1>1 DEF Found, Active
<1>3. Calls /\ Printing   BY DEF Inv
<1>4. here = 0 /\ finished = {}   BY <1>2, <1>3 DEF Calls
<1>5. printed = <<>>   BY <1>3 DEF Printing
<1>6. crashed = "no"   BY <1>3, <1>5 DEF Printing
<1> QED BY <1>1, <1>4, <1>5, <1>6

(* The search has been everywhere and found no circle: there is none.      *)
LEMMA NoCircleLeft ==
    ASSUME Inv, Searching, here = 0, \A i \in Ids : order[i] # -1
    PROVE  ~LockOf!Cyclic(history)
<1>1. check # NoCheck   BY DEF Searching
<1>2. Found = Ids /\ finished \subseteq Ids   BY <1>1, SearchTypes
<1>3. Calls /\ Visited /\ history \subseteq Ids \X Ids   BY DEF Inv, TypeOK
<1>4. finished = Ids   BY <1>2, <1>3 DEF Calls, Active
<1>5. {e[1] : e \in history} \subseteq Ids
  <2>1. \A e \in history : e[1] \in Ids   BY <1>3
  <2> QED BY <2>1
<1>6. \A C \in SUBSET finished : C # {} => \E c \in C : \A d \in C : <<c, d>> \notin history
  BY <1>3 DEF Visited
<1> QED BY <1>4, <1>5, <1>6 DEF LockOf!Cyclic

LEMMA EndKeepsInv == ASSUME Inv, CheckEnd PROVE Inv'
<1> DEFINE t  == check.thread
           g  == check.guard
           id == IdIn(names, Name[g.lock])
<1>1. /\ Searching /\ here = 0 /\ \A i \in Ids : order[i] # -1
      /\ Pushed(t, g, id) /\ check' = NoCheck /\ Unmark(0)
      /\ UNCHANGED <<names, history, crashed, printed>>
  BY DEF CheckEnd
<1>2. crashed = "no" /\ check # NoCheck /\ printed = <<>>   BY <1>1 DEF Searching
<1>3. TypeOK /\ Stacks /\ Checking   BY DEF Inv
<1>4. t \in Threads /\ g \in Guard   BY <1>2, <1>3 DEF TypeOK
<1>5. /\ here' = 0 /\ count' = 0 /\ finished' = {} /\ order' = <<>> /\ parent' = <<>>
      /\ todo' = <<>>
  <2>1. 1..0 = {}   OBVIOUS
  <2>2. /\ here' = 0 /\ count' = 0 /\ finished' = {} /\ order' = [i \in {} |-> -1]
        /\ parent' = [i \in {} |-> 0] /\ todo' = [i \in {} |-> {}]
    BY <1>1, <2>1 DEF Unmark
  <2> QED BY <2>2
<1>6. Ids' = Ids   BY <1>1 DEF Ids
<1>7. id \in Ids' /\ names'[id] = Name[g.lock]
  <2>1. \E i \in Ids : names[i] = Name[g.lock]   BY <1>2, <1>3 DEF Checking
  <2>2. DOMAIN names = Ids   BY <1>3, LenProperties DEF Ids, TypeOK
  <2> QED BY <1>1, <1>6, <2>1, <2>2 DEF IdIn
<1> HIDE DEF t, g, id
<1>8. /\ Stacks' /\ pc' \in [Threads -> {"user", "spin"}]
      /\ lockStack' \in [Threads -> Seq(Ids')] /\ guards' \in [Threads -> Seq(Guard)]
  BY <1>1, <1>4, <1>6, <1>7, PushedKeepsStacks
<1>9. TypeOK'
  <2>1. /\ order' \in [{} -> (-1)..(count' - 1)] /\ parent' \in [{} -> {0} \cup {}]
        /\ todo' \in [{} -> SUBSET {}]
    BY <1>5
  <2>2. count' \in Nat /\ finished' \subseteq Ids' /\ here' \in {0} \cup Ids'   BY <1>5
  <2>3. /\ names' \in Seq({Name[l] : l \in Locks}) /\ history' \subseteq Ids' \X Ids'
        /\ \A i, j \in Ids' : names'[i] = names'[j] => i = j
        /\ crashed' \in Crash /\ printed' \in Seq(history')
    BY <1>1, <1>3, <1>6 DEF TypeOK
  <2> QED BY <1>1, <1>8, <2>1, <2>2, <2>3 DEF TypeOK
<1>10. Checking'
  <2>1. ~LockOf!Cyclic(history)   BY <1>1, NoCircleLeft
  <2>2. check'.new = {}   BY <1>1 DEF NoCheck
  <2>3. history' \ check'.new = history   BY <1>1, <2>2
  <2> QED BY <1>1, <1>3, <2>1, <2>3 DEF Checking
<1>11. Calls' /\ Visited' /\ Printing'
  <2>1. DOMAIN order' = {}   BY <1>5
  <2> QED BY <1>1, <1>2, <1>5, <2>1, Unmarked
<1> QED BY <1>8, <1>9, <1>10, <1>11 DEF Inv

(* What PushLock finds out before it changes anything but the ids.         *)
LEMMA PushIds ==
    ASSUME Inv, NEW t \in Threads, NEW g \in Guard, PushLock(t, g),
           NEW id, id = IdIn(names', Name[g.lock])
    PROVE  /\ crashed = "no" /\ check = NoCheck /\ pc[t] = "user" /\ Len(guards[t]) < MaxDepth
           /\ names' \in Seq({Name[m] : m \in Locks}) /\ Ids \subseteq Ids'
           /\ Len(names) \in Nat /\ Len(names') \in Nat
           /\ \A i \in Ids : names'[i] = names[i]
           /\ \A i, j \in Ids' : names'[i] = names'[j] => i = j
           /\ id \in Ids' /\ names'[id] = Name[g.lock]
           /\ lockStack[t] # <<>> => Top(lockStack[t]) \in Ids
           /\ Order(t, id) \subseteq Ids' \X Ids'
           /\ lockStack[t] = <<>> => Order(t, id) = {}
<1>1. /\ crashed = "no" /\ check = NoCheck /\ pc[t] = "user" /\ Len(guards[t]) < MaxDepth
      /\ names' = Registered(names, Name[g.lock])
  BY DEF PushLock
<1>2. g.lock \in Locks   BY DEF Guard
<1>3. /\ names' \in Seq({Name[m] : m \in Locks}) /\ Ids \subseteq Ids'
      /\ Len(names) \in Nat /\ Len(names') \in Nat
      /\ \A i \in Ids : names'[i] = names[i]
      /\ \A i, j \in Ids' : names'[i] = names'[j] => i = j
      /\ id \in Ids' /\ names'[id] = Name[g.lock]
  BY <1>1, <1>2, NamesGrow
<1>4. lockStack[t] \in Seq(Ids)   BY DEF Inv, TypeOK
<1>5. lockStack[t] # <<>> => Top(lockStack[t]) \in Ids   BY <1>4, EmptySeq, ElementOfSeq DEF Top
<1>6. Order(t, id) \subseteq Ids' \X Ids'   BY <1>3, <1>5 DEF Order
<1>7. lockStack[t] = <<>> => Order(t, id) = {}   BY DEF Order
<1> QED BY <1>1, <1>3, <1>5, <1>6, <1>7

LEMMA PushKeepsInv ==
    ASSUME Inv, NEW t \in Threads, NEW g \in Guard, PushLock(t, g)
    PROVE  Inv'
<1> DEFINE id  == IdIn(names', Name[g.lock])
           new == Order(t, id) \ history
<1>1. /\ history' = history \cup new /\ UNCHANGED <<crashed, printed>>
      /\ \/ new = {} /\ Pushed(t, g, id) /\ UNCHANGED <<check, marks>>
         \/ /\ new # {}
            /\ check' = [thread |-> t, guard |-> g, new |-> new]
            /\ Unmark(Len(names'))
            /\ UNCHANGED <<lockStack, guards, pc>>
  BY DEF PushLock
<1>2. /\ crashed = "no" /\ check = NoCheck /\ pc[t] = "user" /\ Len(guards[t]) < MaxDepth
      /\ names' \in Seq({Name[m] : m \in Locks}) /\ Ids \subseteq Ids'
      /\ Len(names) \in Nat /\ Len(names') \in Nat
      /\ \A i \in Ids : names'[i] = names[i]
      /\ \A i, j \in Ids' : names'[i] = names'[j] => i = j
      /\ id \in Ids' /\ names'[id] = Name[g.lock]
      /\ lockStack[t] # <<>> => Top(lockStack[t]) \in Ids
      /\ Order(t, id) \subseteq Ids' \X Ids'
      /\ lockStack[t] = <<>> => Order(t, id) = {}
  BY PushIds
<1>3. /\ TypeOK /\ Stacks /\ Checking   BY DEF Inv
<1>4. /\ printed = <<>> /\ here = 0 /\ finished = {} /\ \A i \in DOMAIN order : order[i] = -1
      /\ count \in Nat /\ order \in [{} -> (-1)..(count - 1)]
      /\ parent \in [{} -> {0}] /\ todo \in [{} -> SUBSET {}]
  BY <1>2, Idle
<1>5. new \subseteq Order(t, id) /\ new \cap history = {}   OBVIOUS
<1>6. new # {} => /\ lockStack[t] # <<>> /\ id # Top(lockStack[t])
                  /\ new = {<<Top(lockStack[t]), id>>}
  BY DEF Order
<1> HIDE DEF id, new
<1>7. history' \subseteq Ids' \X Ids'
  <2>1. history \subseteq Ids \X Ids   BY <1>3 DEF TypeOK
  <2> QED BY <1>1, <1>2, <1>5, <2>1
<1>8. \A e \in history' : e[1] # e[2]
  <2>1. \A e \in history : e[1] # e[2]   BY <1>3 DEF Checking
  <2>2. \A e \in new : e[1] # e[2]   BY <1>6
  <2> QED BY <1>1, <2>1, <2>2
<1>9. ~LockOf!Cyclic(history)
  <2>1. check.new = {}   BY <1>2 DEF NoCheck
  <2>2. history \ check.new = history   BY <2>1
  <2> QED BY <1>2, <1>3, <2>2 DEF Checking
<1>10. printed' \in Seq(history') /\ crashed' \in Crash   BY <1>1, <1>2, <1>4, EmptySeq DEF Crash
<1>11. CASE new = {}
  <2>1. Pushed(t, g, id) /\ UNCHANGED <<check, marks>> /\ history' = history
    BY <1>1, <1>11
  <2>2. /\ Stacks' /\ pc' \in [Threads -> {"user", "spin"}]
        /\ lockStack' \in [Threads -> Seq(Ids')] /\ guards' \in [Threads -> Seq(Guard)]
    BY <1>2, <2>1, PushedKeepsStacks
  <2>3. /\ here' = here /\ order' = order /\ count' = count /\ finished' = finished
        /\ parent' = parent /\ todo' = todo
    BY <2>1 DEF marks
  <2>4. TypeOK'
    <3>1. /\ count' \in Nat /\ order' \in [{} -> (-1)..(count' - 1)]
          /\ parent' \in [{} -> {0} \cup {}] /\ todo' \in [{} -> SUBSET {}]
          /\ here' \in {0} \cup Ids' /\ finished' \subseteq Ids' /\ check' = NoCheck
      BY <1>2, <1>4, <2>1, <2>3
    <3> QED BY <1>2, <1>7, <1>10, <2>2, <3>1 DEF TypeOK
  <2>5. Checking'
    <3>1. check' = NoCheck /\ NoCheck.new = {}   BY <1>2, <2>1 DEF NoCheck
    <3>2. history' \ check'.new = history   BY <2>1, <3>1
    <3> QED BY <1>8, <1>9, <3>1, <3>2 DEF Checking
  <2>6. Calls' /\ Visited' /\ Printing'   BY <1>1, <1>2, <1>4, <2>3, Unmarked
  <2> QED BY <2>2, <2>4, <2>5, <2>6 DEF Inv
<1>12. CASE new # {}
  <2>1. /\ check' = [thread |-> t, guard |-> g, new |-> new] /\ Unmark(Len(names'))
        /\ UNCHANGED <<lockStack, guards, pc>>
    BY <1>1, <1>12
  <2>2. /\ here' = 0 /\ count' = 0 /\ finished' = {}
        /\ order' = [i \in Ids' |-> -1] /\ parent' = [i \in Ids' |-> 0]
        /\ todo' = [i \in Ids' |-> {}]
    BY <2>1 DEF Unmark, Ids
  <2>3. check'.thread = t /\ check'.guard = g /\ check'.new = new   BY <2>1
  <2>4. check' # NoCheck
    <3>1. NoCheck.thread = NoThread   BY DEF NoCheck
    <3> QED BY <2>3, <3>1, NoThreadAssumption
  <2>5. check' \in [thread : Threads, guard : Guard, new : SUBSET history']   BY <1>1, <2>1
  <2>6. TypeOK'
    <3>1. /\ order' \in [Ids' -> (-1)..(count' - 1)] /\ parent' \in [Ids' -> {0} \cup Ids']
          /\ todo' \in [Ids' -> SUBSET Ids'] /\ count' \in Nat /\ finished' \subseteq Ids'
          /\ here' \in {0} \cup Ids'
      BY <2>2
    <3>2. /\ lockStack' \in [Threads -> Seq(Ids')] /\ guards' \in [Threads -> Seq(Guard)]
          /\ pc' \in [Threads -> {"user", "spin"}]
      <4>1. /\ lockStack \in [Threads -> Seq(Ids)] /\ guards \in [Threads -> Seq(Guard)]
            /\ pc \in [Threads -> {"user", "spin"}]
        BY <1>3 DEF TypeOK
      <4>2. \A u \in Threads : lockStack[u] \in Seq(Ids')   BY <1>2, <4>1, SeqMonotonic
      <4> QED BY <2>1, <4>1, <4>2
    <3> QED BY <1>2, <1>7, <1>10, <2>4, <2>5, <3>1, <3>2 DEF TypeOK
  <2>7. Stacks'
    <3>1. ASSUME NEW u \in Threads, NEW k \in 1..Len(guards[u])
          PROVE  names'[lockStack[u][k]] = Name[guards[u][k].lock]
      <4>1. Len(lockStack[u]) = Len(guards[u]) /\ names[lockStack[u][k]] = Name[guards[u][k].lock]
        BY <1>3, <3>1 DEF Stacks
      <4>2. lockStack[u] \in Seq(Ids)   BY <1>3 DEF TypeOK
      <4>3. lockStack[u][k] \in Ids   BY <3>1, <4>1, <4>2, ElementOfSeq
      <4> QED BY <1>2, <4>1, <4>3
    <3> QED BY <1>3, <2>1, <3>1 DEF Stacks
  <2>8. Checking'
    <3>1. history' \ new = history   BY <1>1, <1>5
    <3>2. /\ pc'[t] = "user" /\ Len(guards'[t]) < MaxDepth /\ lockStack'[t] = lockStack[t]
      BY <1>2, <2>1
    <3>3. /\ lockStack[t] # <<>> /\ id # Top(lockStack[t])
          /\ new = {<<Top(lockStack[t]), id>>}
      BY <1>6, <1>12
    <3>4. Top(lockStack[t]) = Top(lockStack'[t])   BY <3>2
    <3> QED BY <1>2, <1>8, <1>9, <2>3, <3>1, <3>2, <3>3, <3>4 DEF Checking, Top
  <2>9. Calls' /\ Visited' /\ Printing'
    <3>1. \A i \in DOMAIN order' : order'[i] = -1   BY <2>2
    <3> QED BY <1>1, <1>2, <1>4, <2>2, <3>1, Unmarked
  <2> QED BY <2>6, <2>7, <2>8, <2>9 DEF Inv
<1> QED BY <1>11, <1>12

(* A guard that is destroyed is on top of its thread's stack.              *)
LEMMA PopIsLegal ==
    ASSUME Inv, NEW t \in Threads, PopLock(t)
    PROVE  /\ crashed = "no" /\ check = NoCheck /\ pc[t] = "user" /\ guards[t] # <<>>
           /\ crashed' = "no"
           /\ lockStack' = [lockStack EXCEPT ![t] = Pop(@)]
           /\ guards' = [guards EXCEPT ![t] = Pop(@)]
           /\ UNCHANGED <<names, history, pc, check, marks, printed>>
<1>1. /\ crashed = "no" /\ check = NoCheck /\ pc[t] = "user" /\ guards[t] # <<>>
      /\ crashed' = IF lockStack[t] = <<>> THEN "MULTIPLE_UNLOCK"
                    ELSE IF names[Top(lockStack[t])] # Name[Top(guards[t]).lock]
                    THEN "INVALID_UNLOCK" ELSE "no"
      /\ IF crashed' # "no" THEN UNCHANGED <<lockStack, guards>>
         ELSE /\ lockStack' = [lockStack EXCEPT ![t] = Pop(@)]
              /\ guards' = [guards EXCEPT ![t] = Pop(@)]
      /\ UNCHANGED <<names, history, pc, check, marks, printed>>
  BY DEF PopLock
<1>2. /\ guards[t] \in Seq(Guard) /\ lockStack[t] \in Seq(Ids)
      /\ Len(lockStack[t]) = Len(guards[t])
      /\ \A k \in 1..Len(guards[t]) : names[lockStack[t][k]] = Name[guards[t][k].lock]
  BY DEF Inv, TypeOK, Stacks
<1>3. Len(guards[t]) \in Nat \ {0}   BY <1>1, <1>2, EmptySeq
<1>4. lockStack[t] # <<>>   BY <1>2, <1>3, EmptySeq
<1>5. names[Top(lockStack[t])] = Name[Top(guards[t]).lock]   BY <1>2, <1>3 DEF Top
<1> QED BY <1>1, <1>4, <1>5

LEMMA PopKeepsInv == ASSUME Inv, NEW t \in Threads, PopLock(t) PROVE Inv'
<1>1. /\ crashed = "no" /\ check = NoCheck /\ pc[t] = "user" /\ guards[t] # <<>>
      /\ crashed' = "no"
      /\ lockStack' = [lockStack EXCEPT ![t] = Pop(@)]
      /\ guards' = [guards EXCEPT ![t] = Pop(@)]
      /\ UNCHANGED <<names, history, pc, check, marks, printed>>
  BY PopIsLegal
<1>2. TypeOK /\ Stacks /\ Checking   BY DEF Inv
<1>3. Calls' /\ Visited' /\ Printing'   BY <1>1, SearchStutter
<1>4. /\ lockStack \in [Threads -> Seq(Ids)] /\ guards \in [Threads -> Seq(Guard)]
      /\ Len(lockStack[t]) = Len(guards[t])
  BY <1>2 DEF TypeOK, Stacks
<1>5. guards[t] \in Seq(Guard) /\ lockStack[t] \in Seq(Ids)   BY <1>4
<1>6. Len(guards[t]) \in Nat \ {0}   BY <1>1, <1>5, EmptySeq
<1>7. ASSUME NEW S, NEW s \in Seq(S), Len(s) \in Nat \ {0}
      PROVE  /\ Pop(s) \in Seq(S) /\ Len(Pop(s)) = Len(s) - 1
             /\ \A k \in 1..(Len(s) - 1) : Pop(s)[k] = s[k]
  <2>1. \A k \in 1..(Len(s) - 1) : s[k] \in S   BY <1>7, ElementOfSeq
  <2>2. Len(s) - 1 \in Int   BY <1>7
  <2>3. /\ SubSeq(s, 1, Len(s) - 1) \in Seq(S)
        /\ Len(SubSeq(s, 1, Len(s) - 1)) =
               IF 1 <= Len(s) - 1 THEN (Len(s) - 1) - 1 + 1 ELSE 0
        /\ \A k \in 1..((Len(s) - 1) - 1 + 1) : SubSeq(s, 1, Len(s) - 1)[k] = s[1 + k - 1]
    BY <2>1, <2>2, SubSeqProperties
  <2> DEFINE p == SubSeq(s, 1, Len(s) - 1)
             m == Len(s)
  <2>4. /\ p \in Seq(S) /\ Len(p) = IF 1 <= m - 1 THEN (m - 1) - 1 + 1 ELSE 0
        /\ \A k \in 1..((m - 1) - 1 + 1) : p[k] = s[1 + k - 1]
        /\ m \in Nat \ {0}
    BY <1>7, <2>3
  <2>5. p = Pop(s)   BY DEF Pop
  <2> HIDE DEF p, m
  <2>6. Len(p) = m - 1   BY <2>4
  <2>7. \A k \in 1..(m - 1) : 1 + k - 1 = k /\ k \in 1..((m - 1) - 1 + 1)   BY <2>4
  <2>8. \A k \in 1..(m - 1) : p[k] = s[k]
    <3> TAKE k \in 1..(m - 1)
    <3>1. p[k] = s[1 + k - 1] /\ 1 + k - 1 = k   BY <2>4, <2>7
    <3> QED BY <3>1
  <2> QED BY <2>4, <2>5, <2>6, <2>8 DEF m
<1>8. /\ lockStack'[t] = Pop(lockStack[t]) /\ guards'[t] = Pop(guards[t])
      /\ \A u \in Threads \ {t} : lockStack'[u] = lockStack[u] /\ guards'[u] = guards[u]
  BY <1>1, <1>4
<1>9. /\ guards'[t] \in Seq(Guard) /\ Len(guards'[t]) = Len(guards[t]) - 1
      /\ \A k \in 1..(Len(guards[t]) - 1) : guards'[t][k] = guards[t][k]
  BY <1>5, <1>6, <1>7, <1>8
<1>10. /\ lockStack'[t] \in Seq(Ids) /\ Len(lockStack'[t]) = Len(guards[t]) - 1
       /\ \A k \in 1..(Len(guards[t]) - 1) : lockStack'[t][k] = lockStack[t][k]
  BY <1>4, <1>5, <1>6, <1>7, <1>8
<1>11. Ids' = Ids   BY <1>1 DEF Ids
<1>12. TypeOK'
  <2>1. lockStack' \in [Threads -> Seq(Ids)] /\ guards' \in [Threads -> Seq(Guard)]
    BY <1>1, <1>4, <1>9, <1>10
  <2>2. crashed' \in Crash /\ UNCHANGED <<here, order, count, finished, parent, todo>>
    BY <1>1 DEF Crash, marks
  <2> QED BY <1>1, <1>2, <1>11, <2>1, <2>2 DEF TypeOK
<1>13. Stacks'
  <2>1. ASSUME NEW u \in Threads
        PROVE  /\ Len(lockStack'[u]) = Len(guards'[u])
               /\ \A k \in 1..Len(guards'[u]) : names[lockStack'[u][k]] = Name[guards'[u][k].lock]
               /\ pc[u] = "spin" => guards'[u] # <<>>
    <3>1. CASE u = t
      <4>1. \A k \in 1..Len(guards'[t]) : names[lockStack'[t][k]] = Name[guards'[t][k].lock]
        <5>1. ASSUME NEW k \in 1..(Len(guards[t]) - 1)
              PROVE  names[lockStack'[t][k]] = Name[guards'[t][k].lock]
          <6>1. k \in 1..Len(guards[t])   BY <1>6, <5>1
          <6>2. names[lockStack[t][k]] = Name[guards[t][k].lock]   BY <1>2, <6>1 DEF Stacks
          <6> QED BY <1>9, <1>10, <5>1, <6>2
        <5> QED BY <1>9, <5>1
      <4> QED BY <1>1, <1>9, <1>10, <3>1, <4>1
    <3>2. CASE u # t   BY <1>2, <1>8, <3>2 DEF Stacks
    <3> QED BY <3>1, <3>2
  <2> QED BY <1>1, <2>1 DEF Stacks
<1>14. Checking'   BY <1>1, <1>2, <1>11 DEF Checking
<1> QED BY <1>3, <1>12, <1>13, <1>14 DEF Inv

LEMMA AcquireKeepsInv == ASSUME Inv, NEW t \in Threads, Acquire(t) PROVE Inv'
<1>1. /\ pc[t] = "spin" /\ pc' = [pc EXCEPT ![t] = "user"]
      /\ UNCHANGED <<names, history, lockStack, guards, crashed, check, marks, printed>>
  BY DEF Acquire, Goto
<1>2. TypeOK /\ Stacks /\ Checking   BY DEF Inv
<1>3. Calls' /\ Visited' /\ Printing'   BY <1>1, SearchStutter
<1>4. Ids' = Ids   BY <1>1 DEF Ids
<1>5. pc \in [Threads -> {"user", "spin"}]   BY <1>2 DEF TypeOK
<1>6. pc' \in [Threads -> {"user", "spin"}] /\ \A u \in Threads : pc'[u] \in {pc[u], "user"}
  BY <1>1, <1>5
<1>7. TypeOK'
  <2>1. UNCHANGED <<here, order, count, finished, parent, todo>>   BY <1>1 DEF marks
  <2> QED BY <1>1, <1>2, <1>4, <1>6, <2>1 DEF TypeOK
<1>8. Stacks'   BY <1>1, <1>2, <1>6 DEF Stacks
<1>9. Checking'
  <2>1. check # NoCheck => pc'[check.thread] = "user"
    <3>1. check # NoCheck => check.thread \in Threads /\ pc[check.thread] = "user"
      BY <1>2 DEF Checking, TypeOK
    <3> QED BY <1>6, <3>1
  <2> QED BY <1>1, <1>2, <1>4, <2>1 DEF Checking
<1> QED BY <1>3, <1>7, <1>8, <1>9 DEF Inv

LEMMA StutterKeepsInv == ASSUME Inv, UNCHANGED vars PROVE Inv'
<1>1. UNCHANGED <<names, history, lockStack, guards, pc, crashed, check, marks, printed>>
  BY DEF vars
<1>2. Calls' /\ Visited' /\ Printing' /\ Stacks' /\ Checking'
  BY <1>1, SearchStutter, ThreadsStutter
<1>3. TypeOK'
  <2>1. UNCHANGED <<here, order, count, finished, parent, todo>> /\ Ids' = Ids
    BY <1>1 DEF marks, Ids
  <2>2. TypeOK   BY DEF Inv
  <2> QED BY <1>1, <2>1, <2>2 DEF TypeOK
<1> QED BY <1>2, <1>3 DEF Inv

LEMMA StepKeepsInv == ASSUME Inv, [Next]_vars PROVE Inv'
<1>1. ASSUME NEW i \in Ids, DfsNext(i) PROVE Inv'
  BY <1>1, DiscoverKeepsInv, TurnKeepsInv
<1>2. ASSUME NEW i \in Ids, DfsRoot(i) PROVE Inv'   BY <1>2, RootKeepsInv
<1>3. CASE CheckCycle
  BY <1>1, <1>2, <1>3, ReturnKeepsInv, PrintKeepsInv, EndKeepsInv DEF CheckCycle
<1>4. ASSUME NEW t \in Threads, Acquire(t) \/ PopLock(t) \/ \E g \in Guard : PushLock(t, g)
      PROVE  Inv'
  BY <1>4, AcquireKeepsInv, PopKeepsInv, PushKeepsInv
<1>5. CASE UNCHANGED vars   BY <1>5, StutterKeepsInv
<1> QED BY <1>3, <1>4, <1>5 DEF Next

(* The search is right in every graph of orders, the marks mean what the   *)
(* comments on them say, and the stacks match the guards.                  *)
THEOREM SearchIsRight == Spec => []Inv
<1>1. Init => Inv   BY NothingYet
<1>2. Inv /\ [Next]_vars => Inv'   BY StepKeepsInv
<1> QED BY <1>1, <1>2, PTL DEF Spec

(* Types; ids are given to names once, and marks to ids.                   *)
THEOREM ProfilerIsTyped == Spec => []TypeOK
<1>1. Inv => TypeOK   BY DEF Inv
<1> QED BY <1>1, SearchIsRight, PTL

(* What the process prints before it ends is a circle of orders seen, for  *)
(* any number of locks: the loop that prints meets the vertex there.       *)
THEOREM CirclesArePrinted == Spec => []PrintedIsCircle
<1>1. Inv => PrintedIsCircle   BY DEF Inv, Printing
<1> QED BY <1>1, SearchIsRight, PTL

-----------------------------------------------------------------------------
(* The profiler implements LockOrder.  Names for what LockOf puts in place *)
(* of waits and edges.                                                     *)
Named(ns, R) == {<<ns[e[1]], ns[e[2]]>> : e \in R}
Waits        == [t \in Threads |-> pc[t] = "spin"]
Edges        == Named(names, Settled)

(* A name has one id: there is a circle of names where there is one of ids.*)
LEMMA CircleOfNames ==
    ASSUME NEW D, NEW ns, NEW R \in SUBSET (D \X D),
           \A i, j \in D : ns[i] = ns[j] => i = j
    PROVE  LockOf!Cyclic(Named(ns, R)) <=> LockOf!Cyclic(R)
<1>1. \A e \in R : e = <<e[1], e[2]>> /\ e[1] \in D /\ e[2] \in D   OBVIOUS
<1>2. ASSUME LockOf!Cyclic(Named(ns, R)) PROVE LockOf!Cyclic(R)
  <2>1. PICK C \in SUBSET {p[1] : p \in Named(ns, R)} :
            C # {} /\ \A c \in C : \E d \in C : <<c, d>> \in Named(ns, R)
    BY <1>2 DEF LockOf!Cyclic
  <2> DEFINE B == {i \in {e[1] : e \in R} : ns[i] \in C}
  <2>2. ASSUME NEW c \in C PROVE \E i \in B : ns[i] = c
    <3>1. PICK p \in Named(ns, R) : p[1] = c   BY <2>1
    <3>2. PICK e \in R : p = <<ns[e[1]], ns[e[2]]>>   BY DEF Named
    <3>3. ns[e[1]] = c   BY <3>1, <3>2
    <3> QED BY <3>3
  <2>3. ASSUME NEW i \in B PROVE \E j \in B : <<i, j>> \in R
    <3>1. i \in D /\ ns[i] \in C   BY <1>1
    <3>2. PICK d \in C : <<ns[i], d>> \in Named(ns, R)   BY <2>1, <3>1
    <3>3. PICK e \in R : <<ns[i], d>> = <<ns[e[1]], ns[e[2]]>>   BY <3>2 DEF Named
    <3>4. PICK j \in B : ns[j] = d   BY <2>2
    <3>5. i = e[1]   BY <1>1, <3>1, <3>3
    <3>6. j \in D   BY <1>1
    <3>7. j = e[2]   BY <1>1, <3>3, <3>4, <3>6
    <3> QED BY <1>1, <3>5, <3>7
  <2>4. B # {} /\ B \in SUBSET {e[1] : e \in R}   BY <2>1, <2>2
  <2> HIDE DEF B
  <2> QED BY <2>3, <2>4 DEF LockOf!Cyclic
<1>3. ASSUME LockOf!Cyclic(R) PROVE LockOf!Cyclic(Named(ns, R))
  <2>1. PICK C \in SUBSET {e[1] : e \in R} : C # {} /\ \A c \in C : \E d \in C : <<c, d>> \in R
    BY <1>3 DEF LockOf!Cyclic
  <2> DEFINE B == {ns[i] : i \in C}
  <2>2. ASSUME NEW b \in B PROVE \E d \in B : <<b, d>> \in Named(ns, R)
    <3>1. PICK i \in C : ns[i] = b   OBVIOUS
    <3>2. PICK j \in C : <<i, j>> \in R   BY <2>1
    <3>3. <<ns[<<i, j>>[1]], ns[<<i, j>>[2]]>> \in Named(ns, R)   BY <3>2 DEF Named
    <3> QED BY <3>1, <3>3
  <2>3. B # {}   BY <2>1
  <2>4. B \in SUBSET {p[1] : p \in Named(ns, R)}
    <3>1. ASSUME NEW b \in B PROVE b \in {p[1] : p \in Named(ns, R)}
      <4>1. PICK d \in B : <<b, d>> \in Named(ns, R)   BY <2>2
      <4>2. <<b, d>>[1] = b   OBVIOUS
      <4> QED BY <4>1, <4>2
    <3> QED BY <3>1
  <2> HIDE DEF B
  <2> QED BY <2>2, <2>3, <2>4 DEF LockOf!Cyclic
<1> QED BY <1>2, <1>3

(* The order PushLock adds is the one of the innermost guard's name and    *)
(* the name asked for.                                                     *)
LEMMA OrderIsNewOrder ==
    ASSUME Inv, NEW t \in Threads, NEW g \in Guard, NEW ns, NEW id,
           ns[id] = Name[g.lock], id \in Ids \/ (\A i \in Ids : ns[i] # Name[g.lock]),
           \A i \in Ids : ns[i] = names[i]
    PROVE  Named(ns, Order(t, id)) = LockOf!NewOrder(t, g.lock)
<1>1. /\ lockStack[t] \in Seq(Ids) /\ guards[t] \in Seq(Guard)
      /\ Len(lockStack[t]) = Len(guards[t])
      /\ \A k \in 1..Len(guards[t]) : names[lockStack[t][k]] = Name[guards[t][k].lock]
      /\ \A i, j \in Ids : names[i] = names[j] => i = j
  BY DEF Inv, TypeOK, Stacks
<1>2. lockStack[t] = <<>> <=> guards[t] = <<>>
  BY <1>1, EmptySeq
<1>3. CASE lockStack[t] = <<>>
  BY <1>2, <1>3 DEF Named, Order, LockOf!NewOrder
<1>4. CASE lockStack[t] # <<>>
  <2> DEFINE p == Top(lockStack[t])
  <2>1. Len(lockStack[t]) \in Nat \ {0}   BY <1>1, <1>4, EmptySeq
  <2>2. p \in Ids /\ names[p] = Name[LockOf!Top(t).lock]
    BY <1>1, <2>1, ElementOfSeq DEF Top, LockOf!Top
  <2>3. Order(t, id) = IF p = id THEN {} ELSE {<<p, id>>}   BY <1>4 DEF Order
  <2>4. guards[t] # <<>>   BY <1>2, <1>4
  <2>5. LockOf!NewOrder(t, g.lock) =
            IF names[p] = Name[g.lock] THEN {} ELSE {<<names[p], Name[g.lock]>>}
    BY <2>2, <2>4 DEF LockOf!NewOrder
  <2> HIDE DEF p
  <2>6. p = id <=> names[p] = Name[g.lock]   BY <1>1, <2>2
  <2>7. Named(ns, {}) = {}   BY DEF Named
  <2>8. Named(ns, {<<p, id>>}) = {<<names[p], Name[g.lock]>>}
    <3>1. <<p, id>>[1] = p /\ <<p, id>>[2] = id   OBVIOUS
    <3> QED BY <2>2, <3>1 DEF Named
  <2> QED BY <2>3, <2>5, <2>6, <2>7, <2>8
<1> QED BY <1>3, <1>4

LEMMA RequestOf ==
    ASSUME NEW t \in Threads, NEW g \in Guard, crashed = "no", ~Waits[t],
           Len(guards[t]) < MaxDepth, Edges' = Edges \cup LockOf!NewOrder(t, g.lock),
           (crashed' # "no") <=> LockOf!Cyclic(Edges'),
           IF crashed' # "no" THEN guards' = guards /\ Waits' = Waits
           ELSE /\ guards' = [guards EXCEPT ![t] = Append(@, g)]
                /\ Waits' = [Waits EXCEPT ![t] = TRUE]
    PROVE  LockOf!OrderNext
<1> DEFINE E == {<<names[e[1]], names[e[2]]>> : e \in Settled}
           W == [u \in Threads |-> pc[u] = "spin"]
<1>1. E = Edges /\ E' = Edges' /\ W = Waits /\ W' = Waits'   BY DEF Edges, Named, Waits
<1>2. ~(crashed # "no") /\ ~W[t]   BY <1>1
<1>3. E' = E \cup LockOf!NewOrder(t, g.lock)   BY <1>1
<1>4. (crashed' # "no") = LockOf!Cyclic(E')
  <2>1. (crashed' # "no") \in BOOLEAN /\ LockOf!Cyclic(E') \in BOOLEAN   BY DEF LockOf!Cyclic
  <2>2. (crashed' # "no") <=> LockOf!Cyclic(E')   BY <1>1
  <2> QED BY <2>1, <2>2
<1>5. crashed' # "no" => guards' = guards /\ W' = W   BY <1>1
<1>6. crashed' = "no" => /\ guards' = [guards EXCEPT ![t] = Append(@, g)]
                         /\ W' = [W EXCEPT ![t] = TRUE]
  BY <1>1
<1>7. LockOf!Request(t, g)   BY <1>2, <1>3, <1>4, <1>5, <1>6 DEF LockOf!Request
<1>8. g \in LockOf!Guard   BY DEF Guard, Mode, LockOf!Guard, LockOf!Mode
<1> QED BY <1>7, <1>8 DEF LockOf!OrderNext

LEMMA StutterOf ==
    ASSUME guards' = guards, Waits' = Waits, Edges' = Edges,
           (crashed' # "no") <=> (crashed # "no")
    PROVE  UNCHANGED LockOf!orderVars
BY DEF LockOf!orderVars, Edges, Named, Waits

LEMMA InitOf == ASSUME Init PROVE LockOf!OrderInit
<1>1. Settled = {} /\ crashed = "no"   BY DEF Init, Settled
<1>2. guards = [t \in Threads |-> <<>>] /\ pc = [t \in Threads |-> "user"]   BY DEF Init
<1>3. [t \in Threads |-> pc[t] = "spin"] = [t \in Threads |-> FALSE]
  <2>1. \A t \in Threads : (pc[t] = "spin") = FALSE   BY <1>2
  <2> QED BY <2>1
<1> QED BY <1>1, <1>2, <1>3 DEF LockOf!OrderInit

(* The order that is searched for circles, when the search is over.        *)
LEMMA OrderIsSettled ==
    ASSUME Inv, crashed = "no", check # NoCheck
    PROVE  /\ check.thread \in Threads /\ check.guard \in Guard /\ ~Waits[check.thread]
           /\ Len(guards[check.thread]) < MaxDepth
           /\ Named(names, history) = Edges \cup LockOf!NewOrder(check.thread, check.guard.lock)
           /\ LockOf!Cyclic(Named(names, history)) <=> LockOf!Cyclic(history)
<1> DEFINE t == check.thread
           g == check.guard
<1>1. TypeOK /\ Checking   BY DEF Inv
<1>2. t \in Threads /\ g \in Guard /\ check.new \subseteq history   BY <1>1 DEF TypeOK
<1>3. pc[t] = "user" /\ Len(guards[t]) < MaxDepth   BY <1>1 DEF Checking
<1>4. PICK id \in Ids : /\ names[id] = Name[g.lock] /\ id # Top(lockStack[t])
                        /\ check.new = {<<Top(lockStack[t]), id>>}
  BY <1>1 DEF Checking
<1>5. lockStack[t] # <<>>   BY <1>1 DEF Checking
<1> HIDE DEF t, g
<1>6. Order(t, id) = check.new   BY <1>4, <1>5 DEF Order
<1>7. Named(names, check.new) = LockOf!NewOrder(t, g.lock)
  BY <1>2, <1>4, <1>6, OrderIsNewOrder
<1>8. Settled = history \ check.new   BY DEF Settled
<1>9. Named(names, history) = Edges \cup Named(names, check.new)
  BY <1>2, <1>8 DEF Edges, Named
<1>10. history \subseteq Ids \X Ids /\ \A i, j \in Ids : names[i] = names[j] => i = j
  BY <1>1 DEF TypeOK
<1>11. LockOf!Cyclic(Named(names, history)) <=> LockOf!Cyclic(history)
  BY <1>10, CircleOfNames
<1>12. ~Waits[t]   BY <1>2, <1>3 DEF Waits
<1> QED BY <1>2, <1>3, <1>7, <1>9, <1>11, <1>12 DEF t, g

LEMMA PushOf ==
    ASSUME Inv, NEW t \in Threads, NEW g \in Guard, PushLock(t, g)
    PROVE  [LockOf!OrderNext]_(LockOf!orderVars)
<1> DEFINE id  == IdIn(names', Name[g.lock])
           new == Order(t, id) \ history
<1>1. /\ history' = history \cup new /\ UNCHANGED <<crashed, printed>>
      /\ \/ new = {} /\ Pushed(t, g, id) /\ UNCHANGED <<check, marks>>
         \/ /\ new # {}
            /\ check' = [thread |-> t, guard |-> g, new |-> new]
            /\ UNCHANGED <<lockStack, guards, pc>>
  BY DEF PushLock
<1>2. /\ crashed = "no" /\ check = NoCheck /\ pc[t] = "user" /\ Len(guards[t]) < MaxDepth
      /\ \A i \in Ids : names'[i] = names[i]
      /\ \A i, j \in Ids' : names'[i] = names'[j] => i = j
      /\ id \in Ids' /\ names'[id] = Name[g.lock] /\ Ids \subseteq Ids'
  BY PushIds
<1>3. new = Order(t, id) \ history   OBVIOUS
<1> HIDE DEF id, new
<1>4. /\ history \subseteq Ids \X Ids /\ pc \in [Threads -> {"user", "spin"}]
      /\ \A i, j \in Ids : names[i] = names[j] => i = j
      /\ guards \in [Threads -> Seq(Guard)] /\ Checking
  BY DEF Inv, TypeOK
<1>5. Settled = history
  <2>1. check.new = {}   BY <1>2 DEF NoCheck
  <2> QED BY <2>1 DEF Settled
<1>6. Settled' = history
  <2>1. CASE new = {}
    <3>1. check'.new = {}   BY <1>1, <1>2, <2>1 DEF NoCheck
    <3> QED BY <1>1, <2>1, <3>1 DEF Settled
  <2>2. CASE new # {}
    <3>1. check'.new = new /\ new \cap history = {}   BY <1>1, <1>3, <2>2
    <3> QED BY <1>1, <1>2, <3>1 DEF Settled
  <2> QED BY <2>1, <2>2
<1>7. Edges' = Edges
  <2>1. \A e \in history : names'[e[1]] = names[e[1]] /\ names'[e[2]] = names[e[2]]
    BY <1>2, <1>4
  <2>2. Named(names', history) = Named(names, history)   BY <2>1 DEF Named
  <2> QED BY <1>5, <1>6, <2>2 DEF Edges, Named
<1>8. CASE new # {}
  <2>1. guards' = guards /\ Waits' = Waits   BY <1>1, <1>8 DEF Waits
  <2> QED BY <1>1, <1>7, <2>1, StutterOf
<1>9. CASE new = {}
  <2>1. Pushed(t, g, id)   BY <1>1, <1>9
  <2>2. /\ guards' = [guards EXCEPT ![t] = Append(@, g)] /\ pc' = [pc EXCEPT ![t] = "spin"]
    BY <2>1 DEF Pushed, Goto
  <2>3. Waits' = [Waits EXCEPT ![t] = TRUE] /\ ~Waits[t]
    <3>1. ~Waits[t]   BY <1>2 DEF Waits
    <3>2. \A u \in Threads : (pc'[u] = "spin") = (IF u = t THEN TRUE ELSE pc[u] = "spin")
      BY <1>4, <2>2
    <3> QED BY <3>1, <3>2 DEF Waits
  <2>4. Order(t, id) \subseteq history   BY <1>3, <1>9
  <2>5. Named(names', Order(t, id)) = LockOf!NewOrder(t, g.lock)
    <3>1. id \in Ids \/ \A i \in Ids : names'[i] # Name[g.lock]   BY <1>2
    <3> QED BY <1>2, <3>1, OrderIsNewOrder
  <2>6. LockOf!NewOrder(t, g.lock) \subseteq Edges
    <3>1. Named(names', Order(t, id)) \subseteq Named(names', history)   BY <2>4 DEF Named
    <3>2. Named(names', history) = Edges'   BY <1>6 DEF Edges, Named
    <3> QED BY <1>7, <2>5, <3>1, <3>2
  <2>7. ~LockOf!Cyclic(Edges)
    <3>1. check.new = {}   BY <1>2 DEF NoCheck
    <3>2. history \ check.new = history   BY <3>1
    <3>3. ~LockOf!Cyclic(history)   BY <1>2, <1>4, <3>2 DEF Checking
    <3> QED BY <1>4, <1>5, <3>3, CircleOfNames DEF Edges
  <2>8. Edges' = Edges \cup LockOf!NewOrder(t, g.lock)   BY <1>7, <2>6
  <2>9. ~LockOf!Cyclic(Edges') /\ crashed' = "no"   BY <1>1, <1>2, <1>7, <2>7
  <2> QED BY <1>2, <2>2, <2>3, <2>8, <2>9, RequestOf
<1> QED BY <1>8, <1>9

LEMMA EndOf == ASSUME Inv, CheckEnd PROVE LockOf!OrderNext
<1> DEFINE t == check.thread
           g == check.guard
<1>1. /\ Searching /\ here = 0 /\ \A i \in Ids : order[i] # -1
      /\ Pushed(t, g, IdIn(names, Name[g.lock])) /\ check' = NoCheck
      /\ UNCHANGED <<names, history, crashed, printed>>
  BY DEF CheckEnd
<1>2. crashed = "no" /\ check # NoCheck   BY <1>1 DEF Searching
<1>3. /\ t \in Threads /\ g \in Guard /\ ~Waits[t] /\ Len(guards[t]) < MaxDepth
      /\ Named(names, history) = Edges \cup LockOf!NewOrder(t, g.lock)
      /\ LockOf!Cyclic(Named(names, history)) <=> LockOf!Cyclic(history)
  BY <1>2, OrderIsSettled
<1> HIDE DEF t, g
<1>4. ~LockOf!Cyclic(history)   BY <1>1, NoCircleLeft
<1>5. Edges' = Named(names, history)
  <2>1. check'.new = {}   BY <1>1 DEF NoCheck
  <2>2. Settled' = history   BY <1>1, <2>1 DEF Settled
  <2> QED BY <1>1, <2>2 DEF Edges, Named
<1>6. /\ guards' = [guards EXCEPT ![t] = Append(@, g)] /\ pc' = [pc EXCEPT ![t] = "spin"]
  BY <1>1 DEF Pushed, Goto
<1>7. Waits' = [Waits EXCEPT ![t] = TRUE]
  <2>1. pc \in [Threads -> {"user", "spin"}]   BY DEF Inv, TypeOK
  <2>2. \A u \in Threads : (pc'[u] = "spin") = (IF u = t THEN TRUE ELSE pc[u] = "spin")
    BY <1>6, <2>1
  <2> QED BY <2>2 DEF Waits
<1>8. ~LockOf!Cyclic(Edges') /\ crashed' = "no"   BY <1>1, <1>2, <1>3, <1>4, <1>5
<1>9. Edges' = Edges \cup LockOf!NewOrder(t, g.lock)   BY <1>3, <1>5
<1> QED BY <1>2, <1>3, <1>6, <1>7, <1>8, <1>9, RequestOf

LEMMA PrintOf == ASSUME Inv, PrintParent PROVE [LockOf!OrderNext]_(LockOf!orderVars)
<1> DEFINE t == check.thread
           g == check.guard
<1>1. /\ crashed = "no" /\ printed # <<>> /\ crashed' \in {"no", "DEADLOCK_DETECTED"}
      /\ UNCHANGED <<names, history, lockStack, guards, pc, check, marks>>
  BY DEF PrintParent
<1>2. check # NoCheck   BY <1>1 DEF Inv, Printing
<1>3. guards' = guards /\ Waits' = Waits   BY <1>1 DEF Waits
<1>4. CASE crashed' = "no"
  <2>1. Settled' = Settled   BY <1>1, <1>4 DEF Settled
  <2>2. Edges' = Edges   BY <1>1, <2>1 DEF Edges, Named
  <2> QED BY <1>1, <1>3, <1>4, <2>2, StutterOf
<1>5. CASE crashed' = "DEADLOCK_DETECTED"
  <2>1. /\ t \in Threads /\ g \in Guard /\ ~Waits[t] /\ Len(guards[t]) < MaxDepth
        /\ Named(names, history) = Edges \cup LockOf!NewOrder(t, g.lock)
        /\ LockOf!Cyclic(Named(names, history)) <=> LockOf!Cyclic(history)
    BY <1>1, <1>2, OrderIsSettled
  <2> HIDE DEF t, g
  <2>2. LockOf!Cyclic(history)   BY <1>1, PrintedOnACircle
  <2>3. Settled' = history   BY <1>1, <1>5 DEF Settled
  <2>4. Edges' = Named(names, history)   BY <1>1, <2>3 DEF Edges, Named
  <2>5. LockOf!Cyclic(Edges') /\ crashed' # "no"   BY <1>5, <2>1, <2>2, <2>4
  <2>6. Edges' = Edges \cup LockOf!NewOrder(t, g.lock)   BY <2>1, <2>4
  <2> QED BY <1>1, <1>3, <2>1, <2>5, <2>6, RequestOf
<1> QED BY <1>1, <1>4, <1>5

LEMMA SearchOf ==
    ASSUME UNCHANGED <<names, history, guards, pc, crashed, check>>
    PROVE  UNCHANGED LockOf!orderVars
<1>1. Settled' = Settled   BY DEF Settled
<1>2. Edges' = Edges   BY <1>1 DEF Edges, Named
<1>3. Waits' = Waits   BY DEF Waits
<1> QED BY <1>2, <1>3, StutterOf

LEMMA AcquireOf == ASSUME Inv, NEW t \in Threads, Acquire(t) PROVE LockOf!OrderNext
<1>1. /\ crashed = "no" /\ pc[t] = "spin" /\ pc' = [pc EXCEPT ![t] = "user"]
      /\ \A u \in Threads : ~LockOf!Blocks(u, t)
      /\ UNCHANGED <<names, history, guards, crashed, check>>
  BY DEF Acquire, Goto
<1>2. Settled' = Settled   BY <1>1 DEF Settled
<1>3. Edges' = Edges   BY <1>1, <1>2 DEF Edges, Named
<1>4. Waits[t] /\ Waits' = [Waits EXCEPT ![t] = FALSE]
  <2>1. pc \in [Threads -> {"user", "spin"}]   BY DEF Inv, TypeOK
  <2>2. \A u \in Threads : (pc'[u] = "spin") = (IF u = t THEN FALSE ELSE pc[u] = "spin")
    BY <1>1, <2>1
  <2> QED BY <1>1, <2>2 DEF Waits
<1>5. LockOf!Enter(t)   BY <1>1, <1>3, <1>4 DEF LockOf!Enter, Edges, Named, Waits
<1> QED BY <1>5 DEF LockOf!OrderNext

LEMMA PopOf == ASSUME Inv, NEW t \in Threads, PopLock(t) PROVE LockOf!OrderNext
<1>1. /\ crashed = "no" /\ pc[t] = "user" /\ guards[t] # <<>> /\ crashed' = "no"
      /\ guards' = [guards EXCEPT ![t] = Pop(@)]
      /\ UNCHANGED <<names, history, pc, check>>
  BY PopIsLegal
<1>2. Settled' = Settled   BY <1>1 DEF Settled
<1>3. Edges' = Edges   BY <1>1, <1>2 DEF Edges, Named
<1>4. ~Waits[t] /\ Waits' = Waits   BY <1>1 DEF Waits
<1>5. LockOf!Leave(t)   BY <1>1, <1>3, <1>4 DEF LockOf!Leave, Edges, Named, Waits, Pop
<1> QED BY <1>5 DEF LockOf!OrderNext

LEMMA StepOf == ASSUME Inv, [Next]_vars PROVE [LockOf!OrderNext]_(LockOf!orderVars)
<1>1. CASE DfsReturn   BY <1>1, SearchOf DEF DfsReturn
<1>2. ASSUME NEW i \in Ids, DfsRoot(i) \/ DfsNext(i) PROVE UNCHANGED LockOf!orderVars
  <2>1. UNCHANGED <<names, history, guards, pc, crashed, check>>   BY <1>2 DEF DfsRoot, DfsNext
  <2> QED BY <2>1, SearchOf
<1>3. CASE CheckCycle   BY <1>1, <1>2, <1>3, PrintOf, EndOf DEF CheckCycle
<1>4. ASSUME NEW t \in Threads, Acquire(t) \/ PopLock(t) \/ \E g \in Guard : PushLock(t, g)
      PROVE  [LockOf!OrderNext]_(LockOf!orderVars)
  BY <1>4, AcquireOf, PopOf, PushOf
<1>5. CASE UNCHANGED vars   BY <1>5, SearchOf DEF vars
<1> QED BY <1>3, <1>4, <1>5 DEF Next

(* The search reports exactly the first circle of names, whatever the      *)
(* number of locks and threads, and no guard is unlocked out of turn.      *)
THEOREM ProfilerKeepsOrder == Spec => ImplementsOrder
<1>1. Init => LockOf!OrderInit   BY InitOf
<1>2. Inv /\ [Next]_vars => [LockOf!OrderNext]_(LockOf!orderVars)   BY StepOf
<1> QED BY <1>1, <1>2, SearchIsRight, PTL DEF Spec, ImplementsOrder, LockOf!OrderSpec

-----------------------------------------------------------------------------
(* What LockOrderProofs proves of LockOrder holds of the profiler.         *)
OrderP == INSTANCE LockOrderProofs WITH
    waits <- [t \in Threads |-> pc[t] = "spin"],
    edges <- {<<names[e[1]], names[e[2]]>> : e \in Settled},
    reported <- crashed # "no"

(* No deadlock between locks of different names goes unreported: whatever  *)
(* threads do with any locks, PushLock ends the process first.             *)
THEOREM ProfilerReportsDeadlock == Spec => []DeadlockIsReported
<1>1. OrderP!OrderSpec => []OrderP!DeadlockIsReported   BY OrderP!DeadlocksAreReported
<1>2. LockOf!OrderInit <=> OrderP!OrderInit   BY DEF LockOf!OrderInit, OrderP!OrderInit
<1>3. [LockOf!OrderNext]_(LockOf!orderVars) <=> [OrderP!OrderNext]_(OrderP!orderVars)
  BY DEF LockOf!OrderNext, LockOf!orderVars, LockOf!Enter, LockOf!Leave, LockOf!Request,
         LockOf!Guard, LockOf!Mode, LockOf!Blocks, LockOf!Top, LockOf!Held,
         LockOf!NewOrder, LockOf!Cyclic,
         OrderP!OrderNext, OrderP!orderVars, OrderP!Enter, OrderP!Leave, OrderP!Request,
         OrderP!Guard, OrderP!Mode, OrderP!Blocks, OrderP!Top, OrderP!Held,
         OrderP!NewOrder, OrderP!Cyclic
<1>4. DeadlockIsReported <=> OrderP!DeadlockIsReported
  BY DEF DeadlockIsReported, LockOf!DeadlockIsReported, LockOf!Deadlocked, LockOf!Blocks,
         LockOf!Top, LockOf!Held,
         OrderP!DeadlockIsReported, OrderP!Deadlocked, OrderP!Blocks, OrderP!Top, OrderP!Held
<1>5. ImplementsOrder => OrderP!OrderSpec
  BY <1>2, <1>3, PTL DEF ImplementsOrder, LockOf!OrderSpec, OrderP!OrderSpec
<1> QED BY <1>1, <1>4, <1>5, ProfilerKeepsOrder, PTL

=============================================================================
