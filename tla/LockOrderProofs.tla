--------------------------- MODULE LockOrderProofs ---------------------------
(***************************************************************************)
(* The promise of LockOrder for any threads, locks and names.              *)
(***************************************************************************)
EXTENDS LockOrder, SequenceTheorems, TLAPS

NameAt(t, i) == Name[guards[t][i].lock]

(* Two different names on a thread's stack, one under the other: an order  *)
(* from the first one was seen when the thread left it.                    *)
Recorded ==
    \A t \in Threads : \A j \in 1..Len(guards[t]) : \A i \in 1..(j - 1) :
        NameAt(t, i) # NameAt(t, j) =>
            \E k \in 1..j : <<NameAt(t, i), NameAt(t, k)>> \in edges

Inv == OrderTypeOK /\ Recorded /\ (reported \/ ~Cyclic(edges))

-----------------------------------------------------------------------------
(* While the process runs the orders seen form no circle.                  *)
LEMMA InitInv == OrderInit => Inv
<1>. SUFFICES ASSUME OrderInit PROVE Inv
  OBVIOUS
<1>1. /\ guards = [t \in Threads |-> <<>>] /\ waits = [t \in Threads |-> FALSE]
      /\ reported = FALSE /\ \A t \in Threads : Len(guards[t]) = 0
  BY DEF OrderInit
<1>3. OrderTypeOK
  <2>1. <<>> \in Seq(Guard)
    OBVIOUS
  <2>. QED
    BY <1>1, <2>1 DEF OrderTypeOK
<1>4. Recorded
  BY <1>1 DEF Recorded
<1>2. ~Cyclic(edges)
  <2>1. edges = {}
    BY DEF OrderInit
  <2>. QED
    BY <2>1 DEF Cyclic
<1>. QED
  BY <1>2, <1>3, <1>4 DEF Inv

(* A request records the order it makes, and is refused if that is a circle.*)
LEMMA RequestInv ==
    ASSUME Inv, NEW t \in Threads, NEW g \in Guard, Request(t, g) PROVE Inv'
<1>. DEFINE s == guards[t]
<1>0. /\ guards \in [Threads -> Seq(Guard)] /\ waits \in [Threads -> BOOLEAN]
      /\ s \in Seq(Guard) /\ edges \subseteq edges'
  BY DEF Inv, OrderTypeOK, Request
<1>1. reported' \/ ~Cyclic(edges')
  BY DEF Request
<1>2. CASE reported'
  <2>1. guards' = guards /\ waits' = waits
    BY <1>2 DEF Request
  <2>2. OrderTypeOK'
    BY <1>2, <2>1 DEF Inv, OrderTypeOK
  <2>3. Recorded'
    BY <1>0, <2>1 DEF Inv, Recorded, NameAt
  <2>. QED
    BY <1>1, <2>2, <2>3 DEF Inv
<1>3. CASE ~reported'
  <2>1. /\ guards' = [guards EXCEPT ![t] = Append(s, g)]
        /\ waits' = [waits EXCEPT ![t] = TRUE]
    BY <1>3 DEF Request
  <2>5. reported' \in BOOLEAN
    BY DEF Request, Cyclic
  <2>2. /\ Append(s, g) \in Seq(Guard) /\ Append(s, g) # <<>>
        /\ Len(Append(s, g)) = Len(s) + 1
        /\ Append(s, g)[Len(s) + 1] = g
        /\ \A i \in 1..Len(s) : Append(s, g)[i] = s[i]
    BY <1>0
  <2>3. OrderTypeOK'
    BY <1>0, <2>1, <2>2, <2>5 DEF Inv, OrderTypeOK
  <2>4. Recorded'
    <3>. SUFFICES ASSUME NEW u \in Threads, NEW j \in 1..Len(guards'[u]), NEW i \in 1..(j - 1),
                         NameAt(u, i)' # NameAt(u, j)'
                  PROVE  \E k \in 1..j : <<NameAt(u, i)', NameAt(u, k)'>> \in edges'
      BY DEF Recorded
    <3>1. CASE u # t
      <4>1. guards'[u] = guards[u]
        BY <1>0, <2>1, <3>1
      <4>2. PICK k \in 1..j : <<NameAt(u, i), NameAt(u, k)>> \in edges
        BY <4>1 DEF Inv, Recorded, NameAt
      <4>. QED
        BY <1>0, <4>1, <4>2 DEF NameAt
    <3>2. CASE u = t
      <4>0. guards'[t] = Append(s, g)
        BY <1>0, <2>1
      <4>5. Len(s) \in Nat /\ j \in 1..(Len(s) + 1) /\ i \in 1..Len(s)
        <5>1. Len(s) \in Nat
          BY <1>0
        <5>2. Len(guards'[u]) = Len(s) + 1
          BY <2>2, <3>2, <4>0
        <5>. HIDE DEF s
        <5>. QED
          BY <5>1, <5>2
      <4>6. /\ \A k \in 1..Len(s) : NameAt(t, k)' = NameAt(t, k)
            /\ \A k : k = Len(s) + 1 => NameAt(t, k)' = Name[g.lock]
        BY <2>2, <4>0 DEF NameAt
      <4>1. /\ Len(s) \in Nat /\ j \in 1..(Len(s) + 1) /\ i \in 1..Len(s)
            /\ NameAt(t, i)' = NameAt(t, i)
            /\ \A k \in 1..Len(s) : NameAt(t, k)' = NameAt(t, k)
            /\ \A k : k = Len(s) + 1 => NameAt(t, k)' = Name[g.lock]
        BY <4>5, <4>6
      <4>2. CASE j \in 1..Len(s)
        <5>1. PICK k \in 1..j : <<NameAt(t, i), NameAt(t, k)>> \in edges
          BY <3>2, <4>1, <4>2 DEF Inv, Recorded
        <5>2. k \in 1..Len(s)
          BY <4>1, <4>2
        <5>. QED
          BY <1>0, <3>2, <4>1, <5>1, <5>2
      <4>3. CASE j = Len(s) + 1 /\ NameAt(t, i) # NameAt(t, Len(s))
        <5>1. i \in 1..(Len(s) - 1) /\ Len(s) \in 1..Len(s)
          BY <4>1, <4>3
        <5>2. PICK k \in 1..Len(s) : <<NameAt(t, i), NameAt(t, k)>> \in edges
          BY <4>3, <5>1 DEF Inv, Recorded
        <5>3. k \in 1..j
          BY <4>1, <4>3
        <5>. QED
          BY <1>0, <3>2, <4>1, <5>2, <5>3
      <4>4. CASE j = Len(s) + 1 /\ NameAt(t, i) = NameAt(t, Len(s))
        <5>0. NameAt(t, j)' = Name[g.lock] /\ NameAt(t, i)' = NameAt(t, Len(s)) /\ Len(s) # 0
          BY <4>1, <4>4
        <5>3. NameAt(t, Len(s)) # Name[g.lock]
          BY <3>2, <5>0
        <5>1. NameAt(t, Len(s)) # Name[g.lock] /\ s # <<>>
          BY <5>0, <5>3
        <5>2. edges' = edges \cup {<<NameAt(t, Len(s)), Name[g.lock]>>}
          BY <5>1 DEF Request, NewOrder, Top, NameAt
        <5>4. <<NameAt(u, i)', NameAt(u, j)'>> \in edges'
          BY <3>2, <5>0, <5>2
        <5>. QED
          BY <4>1, <4>4, <5>4
      <4>. QED
        BY <4>1, <4>2, <4>3, <4>4
    <3>. QED
      BY <3>1, <3>2
  <2>. QED
    BY <1>1, <2>3, <2>4 DEF Inv
<1>. QED
  BY <1>2, <1>3

(* Leaving shortens one stack.                                             *)
LEMMA LeaveInv == ASSUME Inv, NEW t \in Threads, Leave(t) PROVE Inv'
<1>. DEFINE s == guards[t]
            short == SubSeq(s, 1, Len(s) - 1)
<1>0. /\ guards \in [Threads -> Seq(Guard)] /\ s \in Seq(Guard) /\ s # <<>>
      /\ guards' = [guards EXCEPT ![t] = short] /\ UNCHANGED <<waits, edges, reported>>
      /\ ~waits[t]
  BY DEF Inv, OrderTypeOK, Leave
<1>1. /\ short \in Seq(Guard) /\ Len(s) \in Nat \ {0} /\ Len(short) = Len(s) - 1
      /\ \A i \in 1..Len(short) : short[i] = s[i]
  <2>1. Len(s) \in Nat \ {0}
    BY <1>0, EmptySeq
  <2>2. 1 \in Int /\ Len(s) - 1 \in Int /\ \A i \in 1..(Len(s) - 1) : s[i] \in Guard
    BY <1>0, <2>1
  <2>3. /\ short \in Seq(Guard)
        /\ Len(short) = IF 1 <= Len(s) - 1 THEN (Len(s) - 1) - 1 + 1 ELSE 0
        /\ \A i \in 1..((Len(s) - 1) - 1 + 1) : short[i] = s[1 + i - 1]
    BY <2>2, SubSeqProperties
  <2>. HIDE DEF short
  <2>5. Len(short) = Len(s) - 1 /\ \A i \in 1..(Len(s) - 1) : short[i] = s[i]
    <3>1. \A n \in Nat \ {0} : (IF 1 <= n - 1 THEN (n - 1) - 1 + 1 ELSE 0) = n - 1
      OBVIOUS
    <3>2. \A n \in Nat \ {0} : 1..((n - 1) - 1 + 1) = 1..(n - 1)
      OBVIOUS
    <3>3. \A i \in 1..(Len(s) - 1) : 1 + i - 1 = i
      BY <2>1
    <3>. HIDE DEF s
    <3>. QED
      BY <2>1, <2>3, <3>1, <3>2, <3>3
  <2>. QED
    BY <2>1, <2>3, <2>5
<1>2. OrderTypeOK'
  BY <1>0, <1>1 DEF Inv, OrderTypeOK
<1>3. Recorded'
  <2>. SUFFICES ASSUME NEW u \in Threads, NEW j \in 1..Len(guards'[u]), NEW i \in 1..(j - 1),
                       NameAt(u, i)' # NameAt(u, j)'
                PROVE  \E k \in 1..j : <<NameAt(u, i)', NameAt(u, k)'>> \in edges'
    BY DEF Recorded
  <2>1. /\ Len(guards[u]) \in Nat /\ Len(guards'[u]) \in Nat /\ Len(guards'[u]) <= Len(guards[u])
        /\ \A k \in 1..Len(guards'[u]) : guards'[u][k] = guards[u][k]
    BY <1>0, <1>1
  <2>2. j \in 1..Len(guards[u]) /\ NameAt(u, i) # NameAt(u, j)
    BY <2>1 DEF NameAt
  <2>3. PICK k \in 1..j : <<NameAt(u, i), NameAt(u, k)>> \in edges
    BY <2>2 DEF Inv, Recorded
  <2>4. /\ NameAt(u, i)' = NameAt(u, i) /\ NameAt(u, k)' = NameAt(u, k)
        /\ edges' = edges
    <3>1. i \in 1..Len(guards'[u]) /\ k \in 1..Len(guards'[u])
      BY <2>1
    <3>. QED
      BY <1>0, <2>1, <3>1 DEF NameAt
  <2>. QED
    BY <2>3, <2>4
<1>. QED
  BY <1>0, <1>2, <1>3 DEF Inv, Cyclic

LEMMA StepInv == Inv /\ [OrderNext]_orderVars => Inv'
<1>. SUFFICES ASSUME Inv, [OrderNext]_orderVars PROVE Inv'
  OBVIOUS
<1>1. ASSUME NEW t \in Threads, Enter(t) PROVE Inv'
  BY <1>1 DEF Enter, Inv, OrderTypeOK, Recorded, NameAt, Cyclic
<1>2. CASE UNCHANGED orderVars
  BY <1>2 DEF orderVars, Inv, OrderTypeOK, Recorded, NameAt, Cyclic
<1>. QED
  BY <1>1, <1>2, RequestInv, LeaveInv DEF OrderNext

-----------------------------------------------------------------------------
(* The names on the stacks of deadlocked threads have successors among     *)
(* themselves: the next name of the thread, or of the one it waits for.    *)
LEMMA DeadlockIsCircle ==
    ASSUME Inv, NEW S \in SUBSET Threads, S # {}, Deadlocked(S) PROVE Cyclic(edges)
<1>. DEFINE C == {e[1] : e \in {f \in edges : \E u \in S : \E i \in 1..Len(guards[u]) :
                                                 f[1] = NameAt(u, i)}}
<1>0. \A t \in S : guards[t] \in Seq(Guard) /\ guards[t] # <<>> /\ Len(guards[t]) \in Nat \ {0}
  <2>. TAKE t \in S
  <2>1. t \in Threads /\ waits[t]
    BY DEF Deadlocked
  <2>2. guards[t] \in Seq(Guard) /\ guards[t] # <<>>
    BY <2>1 DEF Inv, OrderTypeOK
  <2>. QED
    BY <2>2, EmptySeq
<1>1. ASSUME NEW t \in S, NEW u \in S, waits[u], Blocks(u, t)
      PROVE  \E i \in 1..(Len(guards[u]) - 1) : NameAt(u, i) = Name[Top(t).lock]
  BY <1>0, <1>1 DEF Blocks, Held, NameAt
<1>2. ASSUME NEW t \in S
      PROVE  \E u \in S : \E k \in 1..Len(guards[u]) : <<Name[Top(t).lock], NameAt(u, k)>> \in edges
  <2>1. PICK u \in S : waits[u] /\ Blocks(u, t) /\ Name[Top(u).lock] # Name[Top(t).lock]
    BY DEF Deadlocked
  <2>2. PICK i \in 1..(Len(guards[u]) - 1) : NameAt(u, i) = Name[Top(t).lock]
    BY <1>1, <2>1
  <2>3. Len(guards[u]) \in 1..Len(guards[u]) /\ NameAt(u, Len(guards[u])) = Name[Top(u).lock]
    BY <1>0 DEF NameAt, Top
  <2>4. u \in Threads /\ NameAt(u, i) # NameAt(u, Len(guards[u]))
    BY <2>1, <2>2, <2>3
  <2>. QED
    BY <2>2, <2>3, <2>4 DEF Inv, Recorded
<1>3. ASSUME NEW t \in S, NEW i \in 1..Len(guards[t])
      PROVE  \E u \in S : \E k \in 1..Len(guards[u]) : <<NameAt(t, i), NameAt(u, k)>> \in edges
  <2>1. NameAt(t, Len(guards[t])) = Name[Top(t).lock]
    BY DEF NameAt, Top
  <2>2. CASE NameAt(t, i) = Name[Top(t).lock]
    BY <1>2, <2>2
  <2>3. CASE NameAt(t, i) # Name[Top(t).lock]
    <3>1. /\ t \in Threads /\ Len(guards[t]) \in 1..Len(guards[t])
          /\ i \in 1..(Len(guards[t]) - 1)
      BY <1>0, <2>1, <2>3
    <3>. QED
      BY <2>1, <2>3, <3>1 DEF Inv, Recorded
  <2>. QED
    BY <2>2, <2>3
<1>4. C \in SUBSET {e[1] : e \in edges}
  OBVIOUS
<1>5. ASSUME NEW t \in S, NEW i \in 1..Len(guards[t]) PROVE NameAt(t, i) \in C
  <2>1. PICK u \in S : \E k \in 1..Len(guards[u]) : <<NameAt(t, i), NameAt(u, k)>> \in edges
    BY <1>3
  <2>. QED
    BY <2>1
<1>6. C # {}
  <2>1. PICK t \in S : TRUE
    OBVIOUS
  <2>2. 1 \in 1..Len(guards[t])
    BY <1>0
  <2>. QED
    BY <1>5, <2>2
<1>7. \A c \in C : \E d \in C : <<c, d>> \in edges
  <2>. TAKE c \in C
  <2>1. PICK t \in S : \E i \in 1..Len(guards[t]) : c = NameAt(t, i)
    OBVIOUS
  <2>2. PICK u \in S : \E k \in 1..Len(guards[u]) : <<c, NameAt(u, k)>> \in edges
    BY <1>3, <2>1
  <2>. QED
    BY <1>5, <2>1, <2>2
<1>. QED
  BY <1>4, <1>6, <1>7 DEF Cyclic

(* DeadLockProfiler::PushLock before the lock is tried: threads that wait  *)
(* in a circle for locks of different names never get that far.            *)
THEOREM DeadlocksAreReported == OrderSpec => []DeadlockIsReported
<1>1. Inv => DeadlockIsReported
  BY DeadlockIsCircle DEF Inv, DeadlockIsReported
<1>. QED
  BY <1>1, InitInv, StepInv, PTL DEF OrderSpec
=============================================================================
