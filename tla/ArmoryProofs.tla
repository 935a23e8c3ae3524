----------------------------- MODULE ArmoryProofs -----------------------------
(***************************************************************************)
(* Armory for any users, weapons, prices and number of workers: balances   *)
(* stay natural numbers and no update is lost, and as long as Redis gives  *)
(* no error replies the books balance but for one purchase, and the client *)
(* is told the truth.                                                      *)
(***************************************************************************)
EXTENDS Armory, TLAPS

(* One request at a time, as Begin has it.                                 *)
Solo == \A v, w \in Workers : pc[v] # "idle" /\ pc[w] # "idle" => v = w

Paying(w) == pc[w] \in {"charge", "weapon", "ammoType", "ammo"}

(* What a handler may rely on between its commands.                        *)
Phase(w) ==
    /\ pc[w] # "idle" => job[w] \in Job
    /\ Paying(w) => job[w].weapon \in Weapon /\ got[w] >= Price[job[w].weapon]
    /\ pc[w] = "fire" => got[w] > 0

TypeInv == TypeOK /\ Solo /\ \A w \in Workers : Phase(w)

-----------------------------------------------------------------------------
(* A write changes one field of one user.                                  *)
LEMMA StoredTypes ==
    ASSUME TypeOK, NEW w \in Workers, job[w] \in Job, NEW field, NEW value,
           Stored(w, field, value),
           \/ field \in {"balance", "ammo"} /\ value \in Nat
           \/ field = "weapon" /\ value \in Weapon
           \/ field = "ammoType" /\ value = 0
    PROVE  redis' \in [User -> Hash]
<1>. DEFINE u == job[w].user
<1>1. u \in User /\ redis \in [User -> Hash] /\ redis[u] \in Hash
  BY DEF TypeOK, Job
<1>2. [redis[u] EXCEPT ![field] = value] \in Hash
  BY <1>1 DEF Hash
<1>3. redis' = [redis EXCEPT ![u] = [redis[u] EXCEPT ![field] = value]]
  BY <1>1 DEF Stored
<1>. QED
  BY <1>1, <1>2, <1>3

(* The request is over.                                                    *)
LEMMA EndTypes ==
    ASSUME TypeInv, NEW w \in Workers, End(w)
    PROVE  /\ pc' \in [Workers -> ArmoryPC] /\ job' \in [Workers -> Job \cup {NoJob}]
           /\ got' \in [Workers -> Nat] /\ Solo' /\ \A v \in Workers : Phase(v)'
<1>1. /\ pc' \in [Workers -> ArmoryPC] /\ job' \in [Workers -> Job \cup {NoJob}]
      /\ got' \in [Workers -> Nat]
  BY DEF TypeInv, TypeOK, End, Goto, ArmoryPC
<1>2. /\ pc'[w] = "idle"
      /\ \A v \in Workers \ {w} : pc'[v] = pc[v] /\ job'[v] = job[v] /\ got'[v] = got[v]
  BY DEF TypeInv, TypeOK, End, Goto
<1>3. Solo'
  BY <1>2 DEF TypeInv, Solo
<1>4. \A v \in Workers : Phase(v)'
  BY <1>2 DEF TypeInv, Phase, Paying
<1>. QED
  BY <1>1, <1>3, <1>4

(* The request goes on at l.                                               *)
LEMMA GotoTypes ==
    ASSUME TypeInv, NEW w \in Workers, NEW l \in ArmoryPC \ {"idle"}, Goto(w, l),
           pc[w] # "idle", UNCHANGED job, NEW n \in Nat, got' = [got EXCEPT ![w] = n],
           l \in {"charge", "weapon", "ammoType", "ammo"} =>
               job[w].weapon \in Weapon /\ n >= Price[job[w].weapon],
           l = "fire" => n > 0
    PROVE  /\ pc' \in [Workers -> ArmoryPC] /\ job' \in [Workers -> Job \cup {NoJob}]
           /\ got' \in [Workers -> Nat] /\ Solo' /\ \A v \in Workers : Phase(v)'
<1>1. /\ pc' \in [Workers -> ArmoryPC] /\ job' \in [Workers -> Job \cup {NoJob}]
      /\ got' \in [Workers -> Nat]
  BY DEF TypeInv, TypeOK, Goto
<1>2. /\ pc'[w] = l /\ got'[w] = n /\ job' = job
      /\ \A v \in Workers \ {w} : pc'[v] = pc[v] /\ got'[v] = got[v]
  BY DEF TypeInv, TypeOK, Goto
<1>3. Solo'
  BY <1>2 DEF TypeInv, Solo
<1>4. \A v \in Workers : Phase(v)'
  BY <1>2 DEF TypeInv, Phase, Paying
<1>. QED
  BY <1>1, <1>3, <1>4

-----------------------------------------------------------------------------
LEMMA InitTypes == Init => TypeInv
<1>. SUFFICES ASSUME Init PROVE TypeInv
  OBVIOUS
<1>1. redis \in [User -> Hash]
  BY BalanceAssumption DEF Init, Hash, NoWeapon
<1>2. \A w \in Workers : pc[w] = "idle"
  BY DEF Init
<1>3. TypeOK
  BY <1>1 DEF Init, TypeOK, ArmoryPC, NoAnswer
<1>. QED
  BY <1>2, <1>3 DEF TypeInv, Solo, Phase, Paying

(* One command: the connection, the answer and the ways on.                *)
LEMMA HSetTypes ==
    ASSUME TypeInv, NEW w \in Workers, pc[w] # "idle", Paying(w),
           NEW field, NEW value, NEW next \in {"weapon", "ammoType", "ammo"},
           HSet(w, field, value, next), UNCHANGED granted,
           \/ field \in {"balance", "ammo"} /\ value \in Nat
           \/ field = "weapon" /\ value \in Weapon
           \/ field = "ammoType" /\ value = 0
    PROVE  TypeInv'
<1>1. PICK reply \in {"ok", "error", "null"}, done \in BOOLEAN :
          /\ reply \in Outcome /\ done \in Landed(reply) /\ Sent(reply)
          /\ IF done THEN Stored(w, field, value) ELSE UNCHANGED redis
          /\ \/ reply = "null" /\ Answer(w, FALSE, got[w]) /\ End(w)
             \/ reply # "null" /\ Goto(w, next) /\ UNCHANGED <<job, got, answer>>
  BY RepliesAssumption DEF HSet, Outcome, Landed
<1>2. job[w] \in Job /\ got[w] \in Nat
  BY DEF TypeInv, TypeOK, Phase
<1>3. redis' \in [User -> Hash]
  BY <1>1, <1>2, StoredTypes DEF TypeInv, TypeOK
<1>4. link' \in {"up", "down"}
  BY <1>1 DEF Sent, TypeInv, TypeOK
<1>5. granted' \in [User -> Nat]
  BY DEF TypeInv, TypeOK
<1>6. CASE Answer(w, FALSE, got[w]) /\ End(w)
  <2>1. answer' \in [success : BOOLEAN, balance : Nat, job : Job \cup {NoJob}]
    BY <1>2, <1>6 DEF Answer
  <2>. QED
    BY <1>3, <1>4, <1>5, <1>6, <2>1, EndTypes DEF TypeInv, TypeOK
<1>7. CASE Goto(w, next) /\ UNCHANGED <<job, got, answer>>
  <2>1. got' = [got EXCEPT ![w] = got[w]]
    BY <1>7 DEF TypeInv, TypeOK
  <2>2. job[w].weapon \in Weapon /\ got[w] >= Price[job[w].weapon]
    BY DEF TypeInv, Phase
  <2>. QED
    BY <1>2, <1>3, <1>4, <1>5, <1>7, <2>1, <2>2, GotoTypes DEF TypeInv, TypeOK, ArmoryPC
<1>. QED
  BY <1>1, <1>6, <1>7

LEMMA StepTypes == TypeInv /\ [Next]_vars => TypeInv'
<1>. SUFFICES ASSUME TypeInv, [Next]_vars PROVE TypeInv'
  OBVIOUS
<1>. USE DEF TypeInv
<1>1. CASE UNCHANGED vars
  BY <1>1 DEF vars, TypeOK, Solo, Phase, Paying
<1>2. ASSUME NEW w \in Workers, NEW j \in Job, Begin(w, j) PROVE TypeInv'
  <2>1. /\ pc' \in [Workers -> ArmoryPC] /\ pc'[w] \in {"balance", "shot", "info"}
        /\ job' \in [Workers -> Job \cup {NoJob}] /\ job'[w] = j /\ got' = got
        /\ \A v \in Workers \ {w} : pc'[v] = "idle"
    BY <1>2 DEF Begin, Begins, Goto, TypeOK, ArmoryPC
  <2>2. TypeOK'
    BY <1>2, <2>1 DEF Begin, Begins, TypeOK, NoAnswer
  <2>3. Solo' /\ \A v \in Workers : Phase(v)'
    BY <2>1 DEF Solo, Phase, Paying
  <2>. QED
    BY <2>2, <2>3
<1>3. ASSUME NEW w \in Workers, ReadBalance(w) PROVE TypeInv'
  <2>1. job[w] \in Job /\ redis[job[w].user].balance \in Nat
    BY <1>3 DEF ReadBalance, Phase, TypeOK, Hash, Job
  <2>2. link' \in {"up", "down"} /\ redis' = redis /\ granted' = granted
    BY <1>3 DEF ReadBalance, Sent, TypeOK
  <2>3. ASSUME NEW b \in Nat, Answer(w, FALSE, b), End(w) PROVE TypeInv'
    <3>1. answer' \in [success : BOOLEAN, balance : Nat, job : Job \cup {NoJob}]
      BY <2>1, <2>3 DEF Answer
    <3>. QED
      BY <2>2, <2>3, <3>1, EndTypes DEF TypeOK
  <2>4. CASE /\ job[w].weapon \in Weapon /\ Affords(w)
             /\ got' = [got EXCEPT ![w] = redis[job[w].user].balance]
             /\ Goto(w, "charge") /\ UNCHANGED <<job, answer>>
    <3>1. pc[w] # "idle" /\ "charge" \in ArmoryPC \ {"idle"} /\ answer' = answer
      BY <1>3, <2>4 DEF ReadBalance, ArmoryPC
    <3>2. redis[job[w].user].balance >= Price[job[w].weapon]
      BY <2>4 DEF Affords
    <3>3. /\ pc' \in [Workers -> ArmoryPC] /\ job' \in [Workers -> Job \cup {NoJob}]
          /\ got' \in [Workers -> Nat] /\ Solo' /\ \A v \in Workers : Phase(v)'
      BY <2>1, <2>4, <3>1, <3>2, GotoTypes
    <3>. QED
      BY <2>2, <3>1, <3>3 DEF TypeOK
  <2>. QED
    BY <1>3, <2>1, <2>3, <2>4 DEF ReadBalance
<1>4. ASSUME NEW w \in Workers, Charge(w) PROVE TypeInv'
  <2>1. got[w] - Price[job[w].weapon] \in Nat
    BY <1>4, TableAssumption DEF Charge, Phase, Paying, TypeOK
  <2>. QED
    BY <1>4, <2>1, HSetTypes DEF Charge, Paying
<1>5. ASSUME NEW w \in Workers, PutWeapon(w) PROVE TypeInv'
  <2>1. job[w].weapon \in Weapon
    BY <1>5 DEF PutWeapon, Phase, Paying
  <2>. QED
    BY <1>5, <2>1, HSetTypes DEF PutWeapon, Paying
<1>6. ASSUME NEW w \in Workers, PutAmmoType(w) PROVE TypeInv'
  BY <1>6, HSetTypes DEF PutAmmoType, Paying
<1>7. ASSUME NEW w \in Workers, PutAmmo(w) PROVE TypeInv'
  <2>1. /\ job[w] \in Job /\ job[w].user \in User /\ job[w].weapon \in Weapon
        /\ got[w] \in Nat /\ got[w] - Price[job[w].weapon] \in Nat
        /\ Price[job[w].weapon] \in Nat /\ NewAmmo(w) \in Nat
    BY <1>7, TableAssumption DEF PutAmmo, Phase, Paying, TypeOK, Job, NewAmmo, Supply
  <2>2. PICK reply \in {"ok", "error", "null"}, done \in BOOLEAN :
            /\ reply \in Outcome /\ done \in Landed(reply) /\ Sent(reply)
            /\ IF done THEN Stored(w, "ammo", NewAmmo(w)) /\ Granted(w)
                       ELSE UNCHANGED <<redis, granted>>
            /\ \/ reply = "null" /\ Answer(w, FALSE, got[w]) /\ End(w)
               \/ /\ reply # "null" /\ Goto(w, "info") /\ UNCHANGED <<job, got>>
                  /\ Answer(w, TRUE, got[w] - Price[job[w].weapon])
    BY <1>7, RepliesAssumption DEF PutAmmo, Outcome, Landed
  <2>3. redis' \in [User -> Hash]
    BY <2>1, <2>2, StoredTypes DEF TypeOK
  <2>4. granted' \in [User -> Nat]
    BY <2>1, <2>2 DEF Granted, TypeOK
  <2>5. link' \in {"up", "down"}
    BY <2>2 DEF Sent, TypeOK
  <2>6. answer' \in [success : BOOLEAN, balance : Nat, job : Job \cup {NoJob}]
    <3>1. \E yes \in BOOLEAN, b \in Nat : Answer(w, yes, b)
      BY <2>1, <2>2
    <3>. QED
      BY <2>1, <3>1 DEF Answer
  <2>7. CASE End(w)
    BY <2>3, <2>4, <2>5, <2>6, <2>7, EndTypes DEF TypeOK
  <2>8. CASE Goto(w, "info") /\ UNCHANGED <<job, got>>
    <3>1. /\ got' = [got EXCEPT ![w] = got[w]] /\ pc[w] # "idle"
          /\ "info" \in ArmoryPC \ {"idle"}
      BY <1>7, <2>8 DEF TypeOK, PutAmmo, ArmoryPC
    <3>2. /\ pc' \in [Workers -> ArmoryPC] /\ job' \in [Workers -> Job \cup {NoJob}]
          /\ got' \in [Workers -> Nat] /\ Solo' /\ \A v \in Workers : Phase(v)'
      BY <2>1, <2>8, <3>1, GotoTypes
    <3>. QED
      BY <2>3, <2>4, <2>5, <2>6, <3>2 DEF TypeOK
  <2>. QED
    BY <2>2, <2>7, <2>8
<1>8. ASSUME NEW w \in Workers, Info(w) PROVE TypeInv'
  <2>1. link' \in {"up", "down"}
    BY <1>8 DEF Info, Sent, TypeOK
  <2>. QED
    BY <1>8, <2>1, EndTypes DEF Info, TypeOK
<1>9. ASSUME NEW w \in Workers, ReadAmmo(w) PROVE TypeInv'
  <2>1. link' \in {"up", "down"} /\ UNCHANGED <<redis, answer, granted>>
    BY <1>9 DEF ReadAmmo, Sent, TypeOK
  <2>2. redis[job[w].user].ammo \in Nat
    BY <1>9 DEF ReadAmmo, Phase, TypeOK, Hash, Job
  <2>3. CASE End(w)
    BY <2>1, <2>3, EndTypes DEF TypeOK
  <2>4. CASE /\ redis[job[w].user].ammo > 0
             /\ got' = [got EXCEPT ![w] = redis[job[w].user].ammo]
             /\ Goto(w, "fire") /\ UNCHANGED job
    BY <1>9, <2>1, <2>2, <2>4, GotoTypes DEF TypeOK, ArmoryPC, ReadAmmo
  <2>. QED
    BY <1>9, <2>3, <2>4 DEF ReadAmmo
<1>10. ASSUME NEW w \in Workers, Fire(w) PROVE TypeInv'
  <2>1. job[w] \in Job /\ got[w] - 1 \in Nat
    BY <1>10 DEF Fire, Phase, TypeOK
  <2>2. redis' \in [User -> Hash] /\ link' \in {"up", "down"}
    BY <1>10, <2>1, StoredTypes DEF Fire, TypeOK, Sent
  <2>. QED
    BY <1>10, <2>2, EndTypes DEF Fire, TypeOK
<1>. QED
  BY <1>1, <1>2, <1>3, <1>4, <1>5, <1>6, <1>7, <1>8, <1>9, <1>10 DEF Next

LEMMA TypesHold == Spec => []TypeInv
  BY InitTypes, StepTypes, PTL DEF Spec

(* No sequence of purchases, shots and lost or refused commands makes a    *)
(* balance or a magazine negative, whatever Redis replies.                 *)
THEOREM BooksAreTyped == Spec => []TypeOK
<1>1. TypeInv => TypeOK
  BY DEF TypeInv
<1>. QED
  BY <1>1, TypesHold, PTL

-----------------------------------------------------------------------------
(* What error replies cannot spoil.  What a handler read is still what     *)
(* Redis holds when it writes the new value.                               *)
Fresh ==
    \A w \in Workers :
        /\ pc[w] = "charge" => got[w] = redis[job[w].user].balance
        /\ pc[w] = "fire" => got[w] = redis[job[w].user].ammo

(* GetBalance and HSET, or ConsumeLobbyAmmo's two commands, are no         *)
(* transaction, and yet no update is lost: a balance moves by the price of *)
(* a weapon and an ammo by one shot, or it becomes a full supply.          *)
ExactMoves ==
    \A u \in User :
        /\ redis'[u].balance \in {redis[u].balance} \cup
               {redis[u].balance - Price[k] : k \in Weapon}
        /\ redis'[u].ammo \in {redis[u].ammo, redis[u].ammo - 1} \cup
               {Supply(k) : k \in Weapon}

(* A write by w, seen from each field.                                     *)
LEMMA StoredFields ==
    ASSUME TypeOK, NEW w \in Workers, job[w] \in Job, NEW field, NEW value,
           Stored(w, field, value)
    PROVE  \A u \in User :
               /\ redis'[u].balance = IF u = job[w].user /\ field = "balance" THEN value
                                      ELSE redis[u].balance
               /\ redis'[u].ammo = IF u = job[w].user /\ field = "ammo" THEN value
                                   ELSE redis[u].ammo
<1>. DEFINE v == job[w].user
<1>1. v \in User /\ redis \in [User -> Hash] /\ redis[v] \in Hash   BY DEF TypeOK, Job
<1>2. redis' = [redis EXCEPT ![v] = [redis[v] EXCEPT ![field] = value]]
  BY <1>1 DEF Stored
<1>3. /\ [redis[v] EXCEPT ![field] = value].balance =
             IF field = "balance" THEN value ELSE redis[v].balance
      /\ [redis[v] EXCEPT ![field] = value].ammo =
             IF field = "ammo" THEN value ELSE redis[v].ammo
  BY <1>1 DEF Hash
<1>. HIDE DEF v
<1>4. \A u \in User \ {v} : redis'[u] = redis[u]   BY <1>1, <1>2
<1>5. redis'[v] = [redis[v] EXCEPT ![field] = value]   BY <1>1, <1>2
<1>. QED
  BY <1>3, <1>4, <1>5 DEF v

(* The steps that write, with what they write.                             *)
LEMMA Writes ==
    ASSUME TypeInv, [Next]_vars, UNCHANGED redis => FALSE
    PROVE  \E w \in Workers :
               /\ job[w] \in Job /\ pc[w] # "idle" /\ pc'[w] \notin {"charge", "fire"}
               /\ \/ pc[w] = "charge" /\ Stored(w, "balance", got[w] - Price[job[w].weapon])
                  \/ pc[w] = "weapon" /\ Stored(w, "weapon", job[w].weapon)
                  \/ pc[w] = "ammoType" /\ Stored(w, "ammoType", 0)
                  \/ pc[w] = "ammo" /\ Stored(w, "ammo", NewAmmo(w))
                  \/ pc[w] = "fire" /\ Stored(w, "ammo", got[w] - 1)
<1>1. \A w \in Workers : pc[w] # "idle" => job[w] \in Job   BY DEF TypeInv, Phase
<1>2. pc \in [Workers -> ArmoryPC]   BY DEF TypeInv, TypeOK
<1>3. ASSUME NEW w \in Workers, NEW field, NEW value,
             NEW next \in {"weapon", "ammoType", "ammo"}, HSet(w, field, value, next)
      PROVE  Stored(w, field, value) /\ pc'[w] \notin {"charge", "fire"}
  BY <1>2, <1>3 DEF HSet, End, Goto
<1>4. ASSUME NEW w \in Workers, Charge(w) \/ PutWeapon(w) \/ PutAmmoType(w)
      PROVE  /\ job[w] \in Job /\ pc[w] # "idle" /\ pc'[w] \notin {"charge", "fire"}
             /\ \/ pc[w] = "charge" /\ Stored(w, "balance", got[w] - Price[job[w].weapon])
                \/ pc[w] = "weapon" /\ Stored(w, "weapon", job[w].weapon)
                \/ pc[w] = "ammoType" /\ Stored(w, "ammoType", 0)
  BY <1>1, <1>3, <1>4 DEF Charge, PutWeapon, PutAmmoType
<1>5. ASSUME NEW w \in Workers, PutAmmo(w)
      PROVE  /\ job[w] \in Job /\ pc[w] = "ammo" /\ pc'[w] \notin {"charge", "fire"}
             /\ Stored(w, "ammo", NewAmmo(w))
  BY <1>1, <1>2, <1>5 DEF PutAmmo, End, Goto
<1>6. ASSUME NEW w \in Workers, Fire(w)
      PROVE  /\ job[w] \in Job /\ pc[w] = "fire" /\ pc'[w] \notin {"charge", "fire"}
             /\ Stored(w, "ammo", got[w] - 1)
  BY <1>1, <1>2, <1>6 DEF Fire, End, Goto
<1>7. ASSUME NEW w \in Workers, Info(w) \/ ReadBalance(w) \/ ReadAmmo(w) PROVE FALSE
  BY <1>7 DEF Info, ReadBalance, ReadAmmo
<1>8. ASSUME NEW w \in Workers, NEW j \in Job, Begin(w, j) PROVE FALSE
  BY <1>8 DEF Begin, Begins
<1>9. ~UNCHANGED vars   BY DEF vars
<1>. QED
  BY <1>4, <1>5, <1>6, <1>7, <1>8, <1>9 DEF Next

LEMMA StepFresh == ASSUME TypeInv, TypeInv', Fresh, [Next]_vars PROVE Fresh'
<1>1. /\ pc \in [Workers -> ArmoryPC] /\ job \in [Workers -> Job \cup {NoJob}]
      /\ got \in [Workers -> Nat]
  BY DEF TypeInv, TypeOK
<1>2. ASSUME NEW w \in Workers, pc'[w] \in {"charge", "fire"}, UNCHANGED redis
      PROVE  /\ pc'[w] = "charge" => got'[w] = redis[job'[w].user].balance
             /\ pc'[w] = "fire" => got'[w] = redis[job'[w].user].ammo
  <2>1. CASE UNCHANGED <<pc, job, got>>   BY <1>2, <2>1 DEF Fresh
  <2>2. ASSUME NEW v \in Workers, NEW j \in Job, Begin(v, j)
        PROVE  pc'[w] = pc[w] /\ job'[w] = job[w] /\ got'[w] = got[w]
    BY <1>1, <1>2, <2>2 DEF Begin, Begins, Goto
  <2>3. ASSUME NEW v \in Workers, ReadBalance(v) \/ ReadAmmo(v)
        PROVE  \/ pc'[w] = pc[w] /\ job'[w] = job[w] /\ got'[w] = got[w]
               \/ pc'[w] = "charge" /\ job'[w] = job[w] /\ got'[w] = redis[job[w].user].balance
               \/ pc'[w] = "fire" /\ job'[w] = job[w] /\ got'[w] = redis[job[w].user].ammo
    BY <1>1, <1>2, <2>3 DEF ReadBalance, ReadAmmo, Goto, End
  <2>4. ASSUME NEW v \in Workers, NEW field, NEW value,
               NEW next \in {"weapon", "ammoType", "ammo"}, HSet(v, field, value, next)
        PROVE  pc'[w] = pc[w] /\ job'[w] = job[w] /\ got'[w] = got[w]
    BY <1>1, <1>2, <2>4 DEF HSet, Goto, End
  <2>5. ASSUME NEW v \in Workers, Charge(v) \/ PutWeapon(v) \/ PutAmmoType(v)
        PROVE  pc'[w] = pc[w] /\ job'[w] = job[w] /\ got'[w] = got[w]
    BY <2>4, <2>5 DEF Charge, PutWeapon, PutAmmoType
  <2>6. ASSUME NEW v \in Workers, PutAmmo(v) \/ Info(v) \/ Fire(v)
        PROVE  pc'[w] = pc[w] /\ job'[w] = job[w] /\ got'[w] = got[w]
    BY <1>1, <1>2, <2>6 DEF PutAmmo, Info, Fire, Goto, End
  <2>7. \/ pc'[w] = pc[w] /\ job'[w] = job[w] /\ got'[w] = got[w]
        \/ pc'[w] = "charge" /\ job'[w] = job[w] /\ got'[w] = redis[job[w].user].balance
        \/ pc'[w] = "fire" /\ job'[w] = job[w] /\ got'[w] = redis[job[w].user].ammo
    BY <2>1, <2>2, <2>3, <2>5, <2>6 DEF Next, vars
  <2>. QED
    BY <2>7 DEF Fresh
<1>3. CASE UNCHANGED redis   BY <1>2, <1>3 DEF Fresh
<1>4. CASE ~UNCHANGED redis
  <2>1. PICK w \in Workers : pc[w] # "idle" /\ pc'[w] \notin {"charge", "fire"}
    BY <1>4, Writes
  <2>2. \A v \in Workers \ {w} : pc[v] = "idle"   BY <2>1 DEF TypeInv, Solo
  <2>3. ASSUME NEW v \in Workers \ {w} PROVE pc'[v] \notin {"charge", "fire"}
    <3>1. \A x \in Workers : ~ReadBalance(x) /\ ~ReadAmmo(x)
      BY <1>4 DEF ReadBalance, ReadAmmo
    <3>2. \A x \in Workers, j \in Job : ~Begin(x, j)   BY <1>4 DEF Begin, Begins
    <3>3. ASSUME NEW x \in Workers, NEW field, NEW value,
                 NEW next \in {"weapon", "ammoType", "ammo"}, HSet(x, field, value, next)
          PROVE  pc'[v] \notin {"charge", "fire"}
      BY <1>1, <2>2, <3>3 DEF HSet, Goto, End
    <3>4. ASSUME NEW x \in Workers, Charge(x) \/ PutWeapon(x) \/ PutAmmoType(x)
          PROVE  pc'[v] \notin {"charge", "fire"}
      BY <3>3, <3>4 DEF Charge, PutWeapon, PutAmmoType
    <3>5. ASSUME NEW x \in Workers, PutAmmo(x) \/ Info(x) \/ Fire(x)
          PROVE  pc'[v] \notin {"charge", "fire"}
      BY <1>1, <2>2, <3>5 DEF PutAmmo, Info, Fire, Goto, End
    <3>. QED
      BY <1>4, <3>1, <3>2, <3>4, <3>5 DEF Next, vars
  <2>. QED
    BY <2>1, <2>3 DEF Fresh
<1>. QED
  BY <1>3, <1>4

LEMMA StepExact == ASSUME TypeInv, Fresh, [Next]_vars PROVE ExactMoves
<1>1. CASE UNCHANGED redis   BY <1>1 DEF ExactMoves
<1>2. CASE ~UNCHANGED redis
  <2>1. PICK w \in Workers :
            /\ job[w] \in Job /\ pc[w] # "idle"
            /\ \/ pc[w] = "charge" /\ Stored(w, "balance", got[w] - Price[job[w].weapon])
               \/ pc[w] = "weapon" /\ Stored(w, "weapon", job[w].weapon)
               \/ pc[w] = "ammoType" /\ Stored(w, "ammoType", 0)
               \/ pc[w] = "ammo" /\ Stored(w, "ammo", NewAmmo(w))
               \/ pc[w] = "fire" /\ Stored(w, "ammo", got[w] - 1)
    BY <1>2, Writes
  <2>2. TypeOK /\ (Paying(w) => job[w].weapon \in Weapon)   BY DEF TypeInv, Phase
  <2>3. CASE pc[w] = "charge" /\ Stored(w, "balance", got[w] - Price[job[w].weapon])
    <3>1. job[w].weapon \in Weapon /\ got[w] = redis[job[w].user].balance
      BY <2>2, <2>3 DEF Fresh, Paying
    <3>. QED
      BY <2>1, <2>2, <2>3, <3>1, StoredFields DEF ExactMoves
  <2>4. CASE \/ pc[w] = "weapon" /\ Stored(w, "weapon", job[w].weapon)
             \/ pc[w] = "ammoType" /\ Stored(w, "ammoType", 0)
    <3>1. \A u \in User : redis'[u].balance = redis[u].balance /\ redis'[u].ammo = redis[u].ammo
      BY <2>1, <2>2, <2>4, StoredFields
    <3>. QED
      BY <3>1 DEF ExactMoves
  <2>5. CASE pc[w] = "ammo" /\ Stored(w, "ammo", NewAmmo(w))
    <3>1. job[w].weapon \in Weapon   BY <2>2, <2>5 DEF Paying
    <3>. QED
      BY <2>1, <2>2, <2>5, <3>1, StoredFields DEF ExactMoves, NewAmmo
  <2>6. CASE pc[w] = "fire" /\ Stored(w, "ammo", got[w] - 1)
    <3>1. got[w] = redis[job[w].user].ammo   BY <2>6 DEF Fresh
    <3>. QED
      BY <2>1, <2>2, <2>6, <3>1, StoredFields DEF ExactMoves
  <2>. QED
    BY <2>1, <2>3, <2>4, <2>5, <2>6
<1>. QED
  BY <1>1, <1>2

(* No purchase and no shot is lost between a read and the write that goes  *)
(* back on it, whatever Redis replies, error replies included: requests    *)
(* come one at a time, and a handler that stops never writes again.        *)
THEOREM NoUpdateIsLost == Spec => [][ExactMoves]_vars
<1>1. Init => Fresh   BY DEF Init, Fresh
<1>2. TypeInv /\ TypeInv' /\ Fresh /\ [Next]_vars => Fresh'   BY StepFresh
<1>3. Spec => []Fresh   BY <1>1, <1>2, TypesHold, PTL DEF Spec
<1>4. TypeInv /\ Fresh /\ [Next]_vars => [ExactMoves]_vars   BY StepExact
<1>. QED
  BY <1>3, <1>4, TypesHold, PTL DEF Spec

-----------------------------------------------------------------------------
(* The books.  Without error replies a command that is answered was done.  *)
NoErrors == "error" \notin Replies

Charged(w) == pc[w] \in {"weapon", "ammoType", "ammo"}

(* While the connection lives, who is charged and has not got everything   *)
(* yet is the user of the purchase in progress.                            *)
Books ==
    /\ HalfDoneOnce
    /\ link = "up" =>
        /\ \A w \in Workers : Charged(w) => Owed(job[w].user) = Price[job[w].weapon]
        /\ \A u \in User : Owed(u) # 0 => \E w \in Workers : Buying(w, u)

(* What is in Redis while a purchase is under way.                         *)
Progress(w) ==
    LET hash == redis[job[w].user]
    IN  /\ pc[w] = "charge" => hash.balance = got[w]
        /\ Charged(w) => hash.balance = got[w] - Price[job[w].weapon]
        /\ pc[w] \in {"ammoType", "ammo"} => hash.weapon = job[w].weapon

Truth ==
    /\ SuccessIsStored
    /\ answer.success => \A w \in Workers : pc[w] \in {"idle", "info"}

Inv ==
    /\ TypeInv /\ Books /\ Truth
    /\ link = "up" => \A w \in Workers : Progress(w)

LEMMA OwedType == ASSUME TypeOK, NEW u \in User PROVE Owed(u) \in Int
  BY BalanceAssumption DEF TypeOK, Owed, Hash

(* The user of the handler at work is the only one who may be owed.        *)
LEMMA OthersAreEven ==
    ASSUME TypeInv, Books, link = "up", NEW w \in Workers, pc[w] # "idle", NEW u \in User,
           u # job[w].user \/ ~Charged(w)
    PROVE  Owed(u) = 0
<1>. SUFFICES ASSUME Owed(u) # 0 PROVE FALSE
  OBVIOUS
<1>1. PICK v \in Workers : Buying(v, u)
  BY DEF Books
<1>2. v = w
  BY <1>1 DEF TypeInv, Solo, Buying
<1>. QED
  BY <1>1, <1>2 DEF Buying, Charged

(* A step of w that settles its own account keeps the books.               *)
LEMMA BooksStep ==
    ASSUME TypeInv, TypeInv', Books, NEW w \in Workers,
           link = "down" => link' = "down",
           \A v \in Workers \ {w} : pc'[v] = pc[v] /\ job'[v] = job[v],
           \A u \in User : link = "down" \/ pc[w] = "idle" \/ u # job[w].user
                               => Owed(u)' = Owed(u),
           \A u \in User : pc[w] # "idle" /\ u = job[w].user /\ link = "up" =>
               /\ Owed(u)' = 0 \/ (job[w].weapon \in Weapon /\ Owed(u)' = Price[job[w].weapon])
               /\ link' = "up" => Owed(u)' = IF Charged(w)' THEN Price[job[w].weapon] ELSE 0,
           link' = "up" /\ Charged(w)' => job'[w] = job[w] /\ pc[w] # "idle"
    PROVE  Books'
<1>1. link = "up" /\ pc[w] # "idle" => \A u \in User \ {job[w].user} : Owed(u)' = 0
  BY OthersAreEven
<1>2. HalfDoneOnce'
  <2>1. CASE link = "down" \/ pc[w] = "idle"
    <3>1. \A u \in User : Owed(u)' = Owed(u)
      BY <2>1
    <3>. QED
      BY <3>1 DEF Books, HalfDoneOnce
  <2>2. CASE link = "up" /\ pc[w] # "idle"
    <3>1. \A u \in User : Owed(u)' # 0 => u = job[w].user
      BY <1>1, <2>2
    <3>2. \A u \in User : Owed(u)' \in {0} \cup {Price[k] : k \in Weapon}
      BY <1>1, <2>2
    <3>. QED
      BY <3>1, <3>2 DEF HalfDoneOnce
  <2>. QED
    BY <2>1, <2>2 DEF TypeInv, TypeOK
<1>3. ASSUME link' = "up", NEW v \in Workers, Charged(v)'
      PROVE  (Owed(job[v].user) = Price[job[v].weapon])'
  <2>0. link = "up"
    BY <1>3 DEF TypeInv, TypeOK
  <2>1. CASE v = w
    <3>1. pc[w] # "idle" /\ job'[w] = job[w] /\ job[w].user \in User
      BY <1>3, <2>1 DEF TypeInv, Phase, Job
    <3>2. \A u \in User : u = job[w].user => Owed(u)' = Price[job[w].weapon]
      BY <1>3, <2>0, <2>1, <3>1
    <3>. QED
      BY <2>1, <3>1, <3>2 DEF Owed
  <2>2. CASE v # w
    <3>1. pc[v] # "idle" /\ Charged(v) /\ job'[v] = job[v] /\ job[v].user \in User
      BY <1>3, <2>2 DEF Charged, TypeInv, Phase, Job
    <3>2. pc[w] = "idle"
      BY <2>2, <3>1 DEF TypeInv, Solo
    <3>. QED
      BY <2>0, <3>1, <3>2 DEF Books, Owed
  <2>. QED
    BY <2>1, <2>2
<1>4. ASSUME link' = "up", NEW u \in User, Owed(u)' # 0
      PROVE  \E v \in Workers : Buying(v, u)'
  <2>0. link = "up"
    BY <1>4 DEF TypeInv, TypeOK
  <2>1. CASE pc[w] = "idle"
    <3>1. PICK v \in Workers : Buying(v, u)
      BY <1>4, <2>0, <2>1 DEF Books
    <3>2. v # w
      BY <2>1, <3>1 DEF Buying
    <3>. QED
      BY <3>1, <3>2 DEF Buying
  <2>2. CASE pc[w] # "idle"
    <3>1. u = job[w].user /\ Charged(w)'
      BY <1>1, <1>4, <2>0, <2>2
    <3>. QED
      BY <1>4, <3>1 DEF Buying, Charged
  <2>. QED
    BY <2>1, <2>2
<1>. QED
  BY <1>2, <1>3, <1>4 DEF Books

-----------------------------------------------------------------------------
(* How a command ends: refused on a dead connection, lost with it, or done.*)
LEMMA Commands ==
    ASSUME NoErrors, TypeOK, NEW reply \in {"ok", "error", "null"}, NEW done \in BOOLEAN,
           reply \in Outcome, done \in Landed(reply), Sent(reply)
    PROVE  \/ link = "down" /\ link' = "down" /\ reply = "null" /\ ~done
           \/ link = "up" /\ link' = "down" /\ reply = "null"
           \/ link = "up" /\ link' = "up" /\ reply = "ok" /\ done
  BY DEF NoErrors, TypeOK, Outcome, Landed, Sent

LEMMA HSetEnds ==
    ASSUME NoErrors, TypeOK, NEW w \in Workers, NEW field, NEW value, NEW next,
           HSet(w, field, value, next)
    PROVE  \/ link = "down" /\ link' = "down" /\ UNCHANGED redis
              /\ End(w) /\ Answer(w, FALSE, got[w])
           \/ link = "up" /\ link' = "down" /\ (UNCHANGED redis \/ Stored(w, field, value))
              /\ End(w) /\ Answer(w, FALSE, got[w])
           \/ link = "up" /\ link' = "up" /\ Stored(w, field, value)
              /\ Goto(w, next) /\ UNCHANGED <<job, got, answer>>
<1>1. PICK reply \in {"ok", "error", "null"}, done \in BOOLEAN :
          /\ reply \in Outcome /\ done \in Landed(reply) /\ Sent(reply)
          /\ IF done THEN Stored(w, field, value) ELSE UNCHANGED redis
          /\ \/ reply = "null" /\ Answer(w, FALSE, got[w]) /\ End(w)
             \/ reply # "null" /\ Goto(w, next) /\ UNCHANGED <<job, got, answer>>
  BY RepliesAssumption DEF HSet, Outcome, Landed
<1>2. \/ link = "down" /\ link' = "down" /\ reply = "null" /\ ~done
      \/ link = "up" /\ link' = "down" /\ reply = "null"
      \/ link = "up" /\ link' = "up" /\ reply = "ok" /\ done
  BY <1>1, Commands
<1>. QED
  BY <1>1, <1>2

(* What a stored field means to the account.                               *)
LEMMA StoredOwed ==
    ASSUME TypeOK, NEW w \in Workers, job[w] \in Job, NEW field, NEW value,
           Stored(w, field, value),
           field \in {"balance", "weapon", "ammoType", "ammo"},
           UNCHANGED granted
    PROVE  \A u \in User :
               Owed(u)' = IF u = job[w].user /\ field = "balance"
                          THEN InitialBalance - value - granted[u] ELSE Owed(u)
<1>1. job[w].user \in User /\ redis \in [User -> Hash]
  BY DEF TypeOK, Job
<1>2. redis' = [redis EXCEPT ![job[w].user] = [redis[job[w].user] EXCEPT ![field] = value]]
  BY <1>1 DEF Stored
<1>3. ASSUME NEW u \in User
      PROVE  redis'[u].balance = IF u = job[w].user /\ field = "balance"
                                 THEN value ELSE redis[u].balance
  BY <1>1, <1>2 DEF Hash
<1>. QED
  BY <1>3 DEF Owed

(* Where a request ends nothing more is due, and nothing is claimed.       *)
LEMMA EndMoves ==
    ASSUME TypeInv, NEW w \in Workers, End(w)
    PROVE  /\ pc'[w] = "idle"
           /\ \A v \in Workers \ {w} :
                  pc'[v] = pc[v] /\ job'[v] = job[v] /\ got'[v] = got[v]
           /\ pc[w] # "idle" => \A v \in Workers : pc'[v] = "idle"
  BY DEF TypeInv, TypeOK, End, Goto, Solo

(* The first three commands of a purchase: the first one charges, and none *)
(* tells the client anything but failure.                                  *)
LEMMA HSetInv ==
    ASSUME NoErrors, Inv, TypeInv', NEW w \in Workers, NEW field, NEW value, NEW next,
           HSet(w, field, value, next), UNCHANGED granted,
           \/ /\ pc[w] = "charge" /\ field = "balance"
              /\ value = got[w] - Price[job[w].weapon] /\ next = "weapon"
           \/ /\ pc[w] = "weapon" /\ field = "weapon"
              /\ value = job[w].weapon /\ next = "ammoType"
           \/ pc[w] = "ammoType" /\ field = "ammoType" /\ value = 0 /\ next = "ammo"
    PROVE  Inv'
<1>. DEFINE price == Price[job[w].weapon]
<1>1. /\ TypeInv /\ TypeOK /\ Books /\ pc[w] # "idle" /\ job[w] \in Job
      /\ job[w].user \in User /\ job[w].weapon \in Weapon /\ got[w] \in Nat
      /\ price \in Nat /\ price # 0 /\ ~answer.success
      /\ \A u \in User : Owed(u) \in Int /\ granted[u] \in Nat
  BY TableAssumption, OwedType DEF Inv, TypeInv, TypeOK, Phase, Paying, Truth, Job
<1>2. \/ link = "down" /\ link' = "down" /\ UNCHANGED redis
         /\ End(w) /\ Answer(w, FALSE, got[w])
      \/ link = "up" /\ link' = "down" /\ (UNCHANGED redis \/ Stored(w, field, value))
         /\ End(w) /\ Answer(w, FALSE, got[w])
      \/ link = "up" /\ link' = "up" /\ Stored(w, field, value)
         /\ Goto(w, next) /\ UNCHANGED <<job, got, answer>>
  BY <1>1, HSetEnds
<1>3. Truth'
  BY <1>1, <1>2 DEF Truth, SuccessIsStored, Answer
<1>4. /\ \A v \in Workers \ {w} : pc'[v] = pc[v] /\ job'[v] = job[v]
      /\ link' = "up" => pc'[w] = next /\ job'[w] = job[w] /\ got' = got
  BY <1>1, <1>2, EndMoves DEF Goto, TypeOK
<1>5. ASSUME NEW u \in User, UNCHANGED redis PROVE Owed(u)' = Owed(u)
  BY <1>5 DEF Owed
<1>6. Books'
  <2>1. \A u \in User : link = "down" \/ u # job[w].user => Owed(u)' = Owed(u)
    BY <1>1, <1>2, <1>5, StoredOwed
  <2>2. ASSUME NEW u \in User, u = job[w].user, link = "up"
        PROVE  /\ Owed(u) = IF pc[w] = "charge" THEN 0 ELSE price
               /\ Owed(u)' \in {0, price} /\ (Stored(w, field, value) => Owed(u)' = price)
    <3>1. Owed(u) = IF pc[w] = "charge" THEN 0 ELSE price
      <4>1. CASE pc[w] = "charge"
        BY <1>1, <2>2, <4>1, OthersAreEven DEF Charged
      <4>2. CASE pc[w] # "charge"
        BY <1>1, <2>2, <4>2 DEF Books, Charged
      <4>. QED
        BY <4>1, <4>2
    <3>2. pc[w] = "charge" => redis[u].balance = got[w]
      BY <1>1, <2>2 DEF Inv, Progress
    <3>3. ASSUME Stored(w, field, value) PROVE Owed(u)' = price
      <4>1. Owed(u)' = IF field = "balance" THEN InitialBalance - value - granted[u]
                                            ELSE Owed(u)
        BY <1>1, <2>2, <3>3, StoredOwed
      <4>2. CASE pc[w] = "charge"
        BY <1>1, <3>1, <3>2, <4>1, <4>2, BalanceAssumption DEF Owed
      <4>3. CASE pc[w] # "charge"
        BY <3>1, <4>1, <4>3
      <4>. QED
        BY <4>2, <4>3
    <3>. QED
      BY <1>2, <1>5, <2>2, <3>1, <3>3
  <2>3. link' = "up" => Charged(w)' /\ Stored(w, field, value) /\ link = "up"
    BY <1>2, <1>4 DEF Charged
  <2>4. link = "down" => link' = "down"
    BY <1>2
  <2>5. ASSUME NEW u \in User, u = job[w].user, link = "up"
        PROVE  /\ Owed(u)' = 0 \/ (job[w].weapon \in Weapon /\ Owed(u)' = Price[job[w].weapon])
               /\ link' = "up" => Owed(u)' = IF Charged(w)' THEN Price[job[w].weapon] ELSE 0
    <3>1. Owed(u)' \in {0, price} /\ (Stored(w, field, value) => Owed(u)' = price)
      BY <2>2, <2>5
    <3>2. link' = "up" => Charged(w)' /\ Owed(u)' = price
      BY <2>3, <3>1
    <3>. QED
      BY <1>1, <3>1, <3>2
  <2>6. link' = "up" /\ Charged(w)' => job'[w] = job[w] /\ pc[w] # "idle"
    BY <1>1, <1>4
  <2>. QED
    BY <1>1, <1>4, <2>1, <2>4, <2>5, <2>6, BooksStep
<1>7. ASSUME link' = "up", NEW v \in Workers PROVE Progress(v)'
  <2>1. CASE v # w
    <3>1. pc'[v] = "idle"
      BY <1>1, <1>4, <2>1 DEF TypeInv, Solo
    <3>. QED
      BY <3>1 DEF Progress, Charged
  <2>2. CASE v = w
    <3>1. link = "up" /\ Stored(w, field, value) /\ redis \in [User -> Hash]
      BY <1>1, <1>2, <1>7 DEF TypeOK
    <3>2. redis' = [redis EXCEPT ![job[w].user] = [redis[job[w].user] EXCEPT ![field] = value]]
      BY <1>1, <3>1 DEF Stored
    <3>3. /\ redis'[job[w].user].balance =
                 IF field = "balance" THEN value ELSE redis[job[w].user].balance
          /\ redis'[job[w].user].weapon =
                 IF field = "weapon" THEN value ELSE redis[job[w].user].weapon
      BY <1>1, <3>1, <3>2 DEF Hash
    <3>. QED
      BY <1>1, <1>4, <1>7, <2>2, <3>1, <3>3 DEF Inv, Progress, Charged
  <2>. QED
    BY <2>1, <2>2
<1>. QED
  BY <1>3, <1>6, <1>7 DEF Inv

(* The last command grants what was charged, and success is true.          *)
LEMMA PutAmmoInv ==
    ASSUME NoErrors, Inv, TypeInv', NEW w \in Workers, PutAmmo(w) PROVE Inv'
<1>. DEFINE price == Price[job[w].weapon]
            hash  == redis[job[w].user]
<1>1. /\ TypeInv /\ TypeOK /\ Books /\ pc[w] = "ammo" /\ job[w] \in Job
      /\ job[w].user \in User /\ job[w].weapon \in Weapon /\ got[w] \in Nat
      /\ price \in Nat /\ redis \in [User -> Hash] /\ hash \in Hash
      /\ granted \in [User -> Nat] /\ \A u \in User : Owed(u) \in Int
  BY TableAssumption, OwedType DEF Inv, TypeInv, TypeOK, Phase, Paying, PutAmmo, Job
<1>2. PICK reply \in {"ok", "error", "null"}, done \in BOOLEAN :
          /\ reply \in Outcome /\ done \in Landed(reply) /\ Sent(reply)
          /\ IF done THEN Stored(w, "ammo", NewAmmo(w)) /\ Granted(w)
                     ELSE UNCHANGED <<redis, granted>>
          /\ \/ reply = "null" /\ Answer(w, FALSE, got[w]) /\ End(w)
             \/ /\ reply # "null" /\ Goto(w, "info") /\ UNCHANGED <<job, got>>
                /\ Answer(w, TRUE, got[w] - price)
  BY RepliesAssumption DEF PutAmmo, Outcome, Landed
<1>3. \/ link = "down" /\ link' = "down" /\ reply = "null" /\ ~done
      \/ link = "up" /\ link' = "down" /\ reply = "null"
      \/ link = "up" /\ link' = "up" /\ reply = "ok" /\ done
  BY <1>1, <1>2, Commands
<1>4. pc'[w] \in {"idle", "info"} /\ \A v \in Workers \ {w} : pc'[v] = "idle"
  BY <1>1, <1>2 DEF TypeInv, TypeOK, Solo, End, Goto
<1>5. \A v \in Workers \ {w} : pc'[v] = pc[v] /\ job'[v] = job[v]
  BY <1>1, <1>2 DEF TypeOK, End, Goto
<1>6. ASSUME done
      PROVE  /\ redis' = [redis EXCEPT ![job[w].user] = [hash EXCEPT !.ammo = NewAmmo(w)]]
             /\ granted' = [granted EXCEPT ![job[w].user] = @ + price]
  BY <1>1, <1>2, <1>6 DEF Stored, Granted
<1>7. ASSUME NEW u \in User
      PROVE  Owed(u)' = IF done /\ u = job[w].user THEN Owed(u) - price ELSE Owed(u)
  <2>1. CASE done
    <3>1. redis'[u].balance = redis[u].balance
      BY <1>1, <1>6, <2>1 DEF Hash
    <3>2. redis[u].balance \in Nat /\ granted[u] \in Nat
      BY <1>1 DEF Hash
    <3>. QED
      BY <1>1, <1>6, <2>1, <3>1, <3>2, BalanceAssumption DEF Owed
  <2>2. CASE ~done
    BY <1>2, <2>2 DEF Owed
  <2>. QED
    BY <2>1, <2>2
<1>8. Books'
  <2>1. link = "up" => \A u \in User : u = job[w].user => Owed(u) = price
    BY <1>1 DEF Books, Charged
  <2>2. ~Charged(w)'
    BY <1>4 DEF Charged
  <2>3. \A u \in User : link = "down" \/ u # job[w].user => Owed(u)' = Owed(u)
    BY <1>3, <1>7
  <2>4. ASSUME NEW u \in User, u = job[w].user, link = "up"
        PROVE  /\ Owed(u)' = 0 \/ (job[w].weapon \in Weapon /\ Owed(u)' = Price[job[w].weapon])
               /\ link' = "up" => Owed(u)' = 0
    BY <1>1, <1>3, <1>7, <2>1, <2>4
  <2>5. link = "down" => link' = "down"
    BY <1>3
  <2>. QED
    BY <1>1, <1>5, <2>2, <2>3, <2>4, <2>5, BooksStep
<1>9. Truth'
  <2>1. answer'.success =>
            redis'[answer'.job.user] =
                [balance |-> answer'.balance, weapon |-> answer'.job.weapon,
                 ammoType |-> 0, ammo |-> Supply(answer'.job.weapon)]
    <3>. SUFFICES ASSUME answer'.success
                  PROVE  redis'[answer'.job.user] =
                             [balance |-> answer'.balance, weapon |-> answer'.job.weapon,
                              ammoType |-> 0, ammo |-> Supply(answer'.job.weapon)]
      OBVIOUS
    <3>1. /\ answer' = [success |-> TRUE, balance |-> got[w] - price, job |-> job[w]]
          /\ link = "up" /\ done
      BY <1>2, <1>3 DEF Answer
    <3>2. hash.balance = got[w] - price /\ hash.weapon = job[w].weapon /\ hash.ammoType = 0
      BY <1>1, <3>1 DEF Inv, Progress, Charged, Hash
    <3>3. hash = [balance |-> hash.balance, weapon |-> hash.weapon,
                  ammoType |-> hash.ammoType, ammo |-> hash.ammo]
      BY <1>1 DEF Hash
    <3>4. [hash EXCEPT !.ammo = NewAmmo(w)] =
              [balance |-> got[w] - price, weapon |-> job[w].weapon,
               ammoType |-> 0, ammo |-> Supply(job[w].weapon)]
      BY <3>2, <3>3 DEF NewAmmo
    <3>5. redis'[job[w].user] = [hash EXCEPT !.ammo = NewAmmo(w)]
      BY <1>1, <1>6, <3>1
    <3>. QED
      BY <3>1, <3>4, <3>5
  <2>. QED
    BY <1>4, <2>1 DEF Truth, SuccessIsStored, Supply
<1>10. \A v \in Workers : Progress(v)'
  BY <1>4 DEF Progress, Charged
<1>. QED
  BY <1>8, <1>9, <1>10 DEF Inv

-----------------------------------------------------------------------------
(* Steps that move no money and start or end outside the commands of a     *)
(* purchase.                                                               *)
LEMMA BooksQuiet ==
    ASSUME TypeInv, TypeInv', Books, NEW w \in Workers, ~Charged(w), ~Charged(w)',
           link = "down" => link' = "down",
           \A v \in Workers \ {w} : pc'[v] = pc[v] /\ job'[v] = job[v],
           \A u \in User : Owed(u)' = Owed(u)
    PROVE  Books'
<1>1. ASSUME NEW u \in User, pc[w] # "idle", link = "up" PROVE Owed(u)' = 0
  BY <1>1, OthersAreEven
<1>. QED
  BY <1>1, BooksStep

LEMMA SentFails == ASSUME NEW reply, TypeOK, Sent(reply) PROVE link = "down" => link' = "down"
  BY DEF Sent, TypeOK

LEMMA StepInv == ASSUME NoErrors PROVE Inv /\ [Next]_vars => Inv'
<1>. SUFFICES ASSUME Inv, [Next]_vars PROVE Inv'
  OBVIOUS
<1>0. TypeInv /\ TypeInv' /\ TypeOK /\ Books /\ Truth
  BY StepTypes DEF Inv, TypeInv
<1>1. CASE UNCHANGED vars
  <2>2. Books'
    BY <1>0, <1>1 DEF Books, HalfDoneOnce, Owed, Charged, Buying, vars
  <2>3. Truth'
    BY <1>0, <1>1 DEF Truth, SuccessIsStored, vars
  <2>. QED
    BY <1>0, <1>1, <2>2, <2>3 DEF Inv, Progress, Charged, vars
<1>2. ASSUME NEW w \in Workers, NEW j \in Job, Begin(w, j) PROVE Inv'
  <2>1. /\ pc[w] = "idle" /\ pc'[w] \in {"balance", "shot", "info"}
        /\ \A v \in Workers \ {w} : pc'[v] = pc[v] /\ pc[v] = "idle" /\ job'[v] = job[v]
        /\ UNCHANGED <<redis, link, granted>> /\ ~answer'.success
    BY <1>0, <1>2 DEF Begin, Begins, Goto, TypeOK, NoAnswer
  <2>2. Books'
    BY <1>0, <2>1, BooksQuiet DEF Charged, Owed
  <2>. QED
    BY <1>0, <2>1, <2>2 DEF Inv, Progress, Charged, Truth, SuccessIsStored
<1>3. ASSUME NEW w \in Workers, ReadBalance(w) PROVE Inv'
  <2>1. /\ pc[w] = "balance" /\ UNCHANGED <<redis, granted>>
        /\ \/ pc'[w] = "idle"
           \/ pc'[w] = "charge" /\ got'[w] = redis[job[w].user].balance /\ job'[w] = job[w]
        /\ \A v \in Workers \ {w} : pc'[v] = pc[v] /\ job'[v] = job[v]
        /\ link = "down" => link' = "down"
        /\ answer' = answer \/ ~answer'.success
    BY <1>0, <1>3, SentFails DEF ReadBalance, End, Goto, Answer, TypeOK
  <2>2. Books'
    BY <1>0, <2>1, BooksQuiet DEF Charged, Owed
  <2>3. \A v \in Workers \ {w} : pc'[v] = "idle"
    BY <1>0, <2>1 DEF TypeInv, Solo
  <2>4. ~answer'.success
    BY <1>0, <2>1 DEF Truth
  <2>. QED
    BY <1>0, <2>1, <2>2, <2>3, <2>4 DEF Inv, Progress, Charged, Truth, SuccessIsStored
<1>4. ASSUME NEW w \in Workers, Charge(w) PROVE Inv'
  BY <1>0, <1>4, HSetInv DEF Charge
<1>5. ASSUME NEW w \in Workers, PutWeapon(w) PROVE Inv'
  BY <1>0, <1>5, HSetInv DEF PutWeapon
<1>6. ASSUME NEW w \in Workers, PutAmmoType(w) PROVE Inv'
  BY <1>0, <1>6, HSetInv DEF PutAmmoType
<1>7. ASSUME NEW w \in Workers, PutAmmo(w) PROVE Inv'
  BY <1>0, <1>7, PutAmmoInv
<1>8. ASSUME NEW w \in Workers, Info(w) PROVE Inv'
  <2>1. /\ pc[w] = "info" /\ UNCHANGED <<redis, granted, answer>>
        /\ link = "down" => link' = "down"
    BY <1>0, <1>8, SentFails DEF Info
  <2>2. /\ \A v \in Workers : pc'[v] = "idle"
        /\ \A v \in Workers \ {w} : pc'[v] = pc[v] /\ job'[v] = job[v]
    BY <1>0, <1>8, <2>1, EndMoves DEF Info
  <2>3. Books'
    BY <1>0, <2>1, <2>2, BooksQuiet DEF Charged, Owed
  <2>. QED
    BY <1>0, <2>1, <2>2, <2>3 DEF Inv, Progress, Charged, Truth, SuccessIsStored
<1>9. ASSUME NEW w \in Workers, ReadAmmo(w) PROVE Inv'
  <2>1. /\ pc[w] = "shot" /\ UNCHANGED <<redis, granted, answer>>
        /\ pc'[w] \in {"idle", "fire"}
        /\ link = "down" => link' = "down"
        /\ \A v \in Workers \ {w} : pc'[v] = pc[v] /\ job'[v] = job[v]
    BY <1>0, <1>9, SentFails DEF ReadAmmo, End, Goto, TypeOK
  <2>2. Books'
    BY <1>0, <2>1, BooksQuiet DEF Charged, Owed
  <2>3. \A v \in Workers \ {w} : pc'[v] = "idle"
    BY <1>0, <2>1 DEF TypeInv, Solo
  <2>. QED
    BY <1>0, <2>1, <2>2, <2>3 DEF Inv, Progress, Charged, Truth, SuccessIsStored
<1>10. ASSUME NEW w \in Workers, Fire(w) PROVE Inv'
  <2>1. /\ pc[w] = "fire" /\ job[w] \in Job /\ UNCHANGED <<granted, answer>> /\ End(w)
        /\ link = "down" => link' = "down"
        /\ UNCHANGED redis \/ Stored(w, "ammo", got[w] - 1)
    BY <1>0, <1>10, SentFails DEF Fire, TypeInv, Phase
  <2>2. /\ \A v \in Workers : pc'[v] = "idle"
        /\ \A v \in Workers \ {w} : pc'[v] = pc[v] /\ job'[v] = job[v]
    BY <1>0, <2>1, EndMoves
  <2>3. \A u \in User : Owed(u)' = Owed(u)
    <3>1. CASE UNCHANGED redis
      BY <2>1, <3>1 DEF Owed
    <3>2. CASE Stored(w, "ammo", got[w] - 1)
      BY <1>0, <2>1, <3>2, StoredOwed
    <3>. QED
      BY <2>1, <3>1, <3>2
  <2>4. Books'
    BY <1>0, <2>1, <2>2, <2>3, BooksQuiet DEF Charged
  <2>5. ~answer'.success
    BY <1>0, <2>1 DEF Truth
  <2>. QED
    BY <1>0, <2>2, <2>4, <2>5 DEF Inv, Progress, Charged, Truth, SuccessIsStored
<1>. QED
  BY <1>1, <1>2, <1>3, <1>4, <1>5, <1>6, <1>7, <1>8, <1>9, <1>10 DEF Next

LEMMA InitInv == Init => Inv
<1>. SUFFICES ASSUME Init PROVE Inv
  OBVIOUS
<1>1. TypeInv
  BY InitTypes
<1>2. \A w \in Workers : pc[w] = "idle"
  BY DEF Init
<1>3. \A u \in User : Owed(u) = 0
  BY BalanceAssumption DEF Init, Owed
<1>4. ~answer.success
  BY DEF Init, NoAnswer
<1>. QED
  BY <1>1, <1>2, <1>3, <1>4
     DEF Inv, Books, HalfDoneOnce, Charged, Progress, Truth, SuccessIsStored

LEMMA InvHolds == ASSUME NoErrors PROVE Spec => []Inv
  BY InitInv, StepInv, PTL DEF Spec

-----------------------------------------------------------------------------
(* As long as Redis gives no error reply, a user is charged exactly for    *)
(* the weapons stored with their ammo and for the purchase in progress,    *)
(* until the connection is lost.                                           *)
THEOREM ChargesMatchGrants == ASSUME NoErrors PROVE Spec => []ChargedIsGranted
<1>1. Inv => ChargedIsGranted
  <2>. SUFFICES ASSUME Inv, link = "up", NEW u \in User, Owed(u) # 0
                PROVE  \E w \in Workers : Buying(w, u) /\ Owed(u) = Price[job[w].weapon]
    BY DEF ChargedIsGranted
  <2>1. PICK w \in Workers : Buying(w, u)
    BY DEF Inv, Books
  <2>2. Owed(job[w].user) = Price[job[w].weapon] /\ job[w].user = u
    BY <2>1 DEF Inv, Books, Buying, Charged
  <2>. QED
    BY <2>1, <2>2
<1>. QED
  BY <1>1, InvHolds, PTL

(* However many users buy and whenever the connection to Redis is lost, at *)
(* most one purchase of one user is left charged and not delivered.        *)
THEOREM HalfDoneAtMostOnce == ASSUME NoErrors PROVE Spec => []HalfDoneOnce
<1>1. Inv => HalfDoneOnce
  BY DEF Inv, Books
<1>. QED
  BY <1>1, InvHolds, PTL

(* Without error replies S_PURCHASE_WEAPON_RESULT never claims success for *)
(* a weapon, ammo or balance that is not stored; the run armory_errors     *)
(* shows that an error reply to HSET is enough to break this.              *)
THEOREM SuccessIsTrue == ASSUME NoErrors PROVE Spec => []SuccessIsStored
<1>1. Inv => SuccessIsStored
  BY DEF Inv, Truth
<1>. QED
  BY <1>1, InvHolds, PTL
=============================================================================
