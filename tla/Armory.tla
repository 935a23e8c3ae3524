------------------------------- MODULE Armory -------------------------------
(***************************************************************************)
(* Buying a weapon and firing it in the lobby: the handlers of             *)
(* C_PURCHASE_WEAPON and C_GUN_SHOT_LOBBY, the lookup at the end of        *)
(* C_UDP_HELLO, and the commands RedisClient sends for them, one step per  *)
(* command.  RedisClient has one connection and no lock: that a worker     *)
(* begins a request only when no other is in one is OneReceive of UdpLobby.*)
(* Redis is modelled from how hiredis is used: a reply, an error reply, or *)
(* a null reply, after which the context refuses every further command     *)
(* (nothing in the server connects again).  No one else writes the hashes. *)
(***************************************************************************)
EXTENDS Integers, FiniteSets

CONSTANTS Workers,        \* threads that handle packets
          User,           \* users that have a hash in Redis
          WeaponType,     \* the weaponType values requests carry
          Weapon,         \* those of them in the weapon table
          Price,          \* price of each Weapon
          MagazineSize,   \* magazineSize of each Weapon
          InitialBalance, \* the balance users start with
          NoJob,          \* no request
          Replies,        \* bound: the kinds of reply Redis gives
          MaxGranted      \* bound: what a user may buy in all

ASSUME UserAssumption   == IsFiniteSet(User) /\ IsFiniteSet(Workers)
ASSUME WeaponAssumption == Weapon \subseteq WeaponType /\ WeaponType \subseteq Nat \ {0}
ASSUME TableAssumption  == Price \in [Weapon -> Nat \ {0}]
                           /\ MagazineSize \in [Weapon -> Nat \ {0}]
ASSUME BalanceAssumption == InitialBalance \in Nat /\ MaxGranted \in Nat
ASSUME RepliesAssumption == Replies \subseteq {"ok", "error", "null"}

VARIABLES redis,   \* the hash of each user, the fields the server writes
          link,    \* "down" without a connection or with a failed context
          pc, job, \* per worker: where it is, the request it handles
          got,     \* per worker: the balance or the ammo it read
          answer,  \* the last S_PURCHASE_WEAPON_RESULT
          granted  \* history: per user, the price of purchases stored in full

vars == <<redis, link, pc, job, got, answer, granted>>

NoWeapon == 0
Hash     == [balance : Nat, weapon : Weapon \cup {NoWeapon}, ammoType : {0}, ammo : Nat]
Job      == [kind : {"BUY", "SHOT", "HELLO"}, user : User, weapon : WeaponType]
NoAnswer == [success |-> FALSE, balance |-> 0, job |-> NoJob]
ASSUME NoJobAssumption == NoJob \notin Job

ArmoryPC == {"idle", "info", "balance", "charge", "weapon", "ammoType", "ammo",
             "shot", "fire"}

Goto(w, l) == pc' = [pc EXCEPT ![w] = l]

Init ==
    /\ redis = [u \in User |-> [balance |-> InitialBalance, weapon |-> NoWeapon,
                                ammoType |-> 0, ammo |-> 0]]
    /\ link \in {"up", "down"}
    /\ pc = [w \in Workers |-> "idle"] /\ job = [w \in Workers |-> NoJob]
    /\ got = [w \in Workers |-> 0]
    /\ answer = NoAnswer
    /\ granted = [u \in User |-> 0]

-----------------------------------------------------------------------------
(* One command to Redis.                                                   *)

Outcome == IF link = "up" THEN Replies ELSE {"null"}

(* Faulty variant of Sent: the connection is opened again.                 *)
SentAndReconnected(reply) == UNCHANGED link

Sent(reply) == link' = IF reply = "null" THEN "down" ELSE link

(* Whether a write took effect: a lost reply leaves that open.             *)
Landed(reply) ==
    IF reply = "ok" THEN {TRUE}
    ELSE IF reply = "null" /\ link = "up" THEN BOOLEAN ELSE {FALSE}

Stored(w, field, value) == redis' = [redis EXCEPT ![job[w].user][field] = value]

Answer(w, success, balance) ==
    answer' = [success |-> success, balance |-> balance, job |-> job[w]]

-----------------------------------------------------------------------------
(* Requests.  The next packet is received when the last one is done with.  *)

Begins(w, j) ==
    /\ pc[w] = "idle"
    /\ j.kind = "BUY" => granted[j.user] < MaxGranted
    /\ Goto(w, CASE j.kind = "BUY" -> "balance" [] j.kind = "SHOT" -> "shot"
                 [] OTHER -> "info")
    /\ job' = [job EXCEPT ![w] = j]
    /\ answer' = NoAnswer
    /\ UNCHANGED <<redis, link, got, granted>>

(* Faulty variant of Begin: workers handle packets side by side.           *)
BeginAnyTime(w, j) == Begins(w, j)

Begin(w, j) == (\A v \in Workers : pc[v] = "idle") /\ Begins(w, j)

End(w) ==
    /\ Goto(w, "idle")
    /\ job' = [job EXCEPT ![w] = NoJob]
    /\ got' = [got EXCEPT ![w] = 0]

(* Faulty variant of Affords: buy whatever the balance is.                 *)
AffordsAll(w) == TRUE

Affords(w) == redis[job[w].user].balance >= Price[job[w].weapon]

(* FindWeapon, GetBalance and the comparison with the price.  A field that *)
(* is missing or no string fails like an error reply.                      *)
ReadBalance(w) ==
    LET balance == redis[job[w].user].balance
    IN /\ pc[w] = "balance"
       /\ \/ /\ job[w].weapon \notin Weapon
             /\ Answer(w, FALSE, 0) /\ End(w) /\ UNCHANGED link
          \/ /\ job[w].weapon \in Weapon
             /\ \E reply \in Outcome :
                   /\ Sent(reply)
                   /\ \/ reply # "ok" /\ Answer(w, FALSE, 0) /\ End(w)
                      \/ reply = "ok" /\ ~Affords(w) /\ Answer(w, FALSE, balance) /\ End(w)
                      \/ /\ reply = "ok" /\ Affords(w)
                         /\ got' = [got EXCEPT ![w] = balance]
                         /\ Goto(w, "charge") /\ UNCHANGED <<job, answer>>
       /\ UNCHANGED <<redis, granted>>

(* A step of PurchaseWeapon: HSET, and on to next unless the reply is null.*)
(* An error reply is printed and otherwise taken for success.              *)
HSet(w, field, value, next) ==
    \E reply \in Outcome : \E done \in Landed(reply) :
        /\ Sent(reply)
        /\ IF done THEN Stored(w, field, value) ELSE UNCHANGED redis
        /\ \/ reply = "null" /\ Answer(w, FALSE, got[w]) /\ End(w)
           \/ reply # "null" /\ Goto(w, next) /\ UNCHANGED <<job, got, answer>>

Charge(w) ==
    /\ pc[w] = "charge"
    /\ HSet(w, "balance", got[w] - Price[job[w].weapon], "weapon")
    /\ UNCHANGED granted

PutWeapon(w) ==
    /\ pc[w] = "weapon"
    /\ HSet(w, "weapon", job[w].weapon, "ammoType")
    /\ UNCHANGED granted

PutAmmoType(w) ==
    /\ pc[w] = "ammoType"
    /\ HSet(w, "ammoType", 0, "ammo")
    /\ UNCHANGED granted

Supply(weapon) == MagazineSize[weapon] * 5

Granted(w) == granted' = [granted EXCEPT ![job[w].user] = @ + Price[job[w].weapon]]

(* Faulty variant of NewAmmo: a magazine is added to what is left.         *)
MoreAmmo(w) == redis[job[w].user].ammo + Supply(job[w].weapon)

NewAmmo(w) == Supply(job[w].weapon)

(* The last command; then the client is told of its success.               *)
PutAmmo(w) ==
    /\ pc[w] = "ammo"
    /\ \E reply \in Outcome : \E done \in Landed(reply) :
          /\ Sent(reply)
          /\ IF done THEN Stored(w, "ammo", NewAmmo(w)) /\ Granted(w)
                     ELSE UNCHANGED <<redis, granted>>
          /\ \/ reply = "null" /\ Answer(w, FALSE, got[w]) /\ End(w)
             \/ /\ reply # "null" /\ Goto(w, "info") /\ UNCHANGED <<job, got>>
                /\ Answer(w, TRUE, got[w] - Price[job[w].weapon])

(* GetPlayerInfo for S_PLAYER_INFO, after a purchase and after HELLO.      *)
Info(w) ==
    /\ pc[w] = "info"
    /\ \E reply \in Outcome : Sent(reply)
    /\ End(w)
    /\ UNCHANGED <<redis, answer, granted>>

(* ConsumeLobbyAmmo: nothing without a weapon or with an empty one.        *)
ReadAmmo(w) ==
    LET hash == redis[job[w].user]
    IN /\ pc[w] = "shot"
       /\ \E reply \in Outcome :
             /\ Sent(reply)
             /\ \/ /\ reply = "ok" /\ hash.weapon # NoWeapon /\ hash.ammo > 0
                   /\ got' = [got EXCEPT ![w] = hash.ammo]
                   /\ Goto(w, "fire") /\ UNCHANGED job
                \/ (reply # "ok" \/ hash.weapon = NoWeapon \/ hash.ammo <= 0) /\ End(w)
       /\ UNCHANGED <<redis, answer, granted>>

Fire(w) ==
    /\ pc[w] = "fire"
    /\ \E reply \in Outcome : \E done \in Landed(reply) :
          /\ Sent(reply)
          /\ IF done THEN Stored(w, "ammo", got[w] - 1) ELSE UNCHANGED redis
    /\ End(w)
    /\ UNCHANGED <<answer, granted>>

Next == \E w \in Workers :
    \/ \E j \in Job : Begin(w, j)
    \/ ReadBalance(w) \/ Charge(w) \/ PutWeapon(w) \/ PutAmmoType(w) \/ PutAmmo(w)
    \/ Info(w) \/ ReadAmmo(w) \/ Fire(w)

Spec == Init /\ [][Next]_vars

-----------------------------------------------------------------------------
(* Every variable has its type: no balance and no ammo is ever negative.   *)
TypeOK ==
    /\ redis \in [User -> Hash] /\ link \in {"up", "down"}
    /\ pc \in [Workers -> ArmoryPC] /\ job \in [Workers -> Job \cup {NoJob}]
    /\ got \in [Workers -> Nat] /\ granted \in [User -> Nat]
    /\ answer \in [success : BOOLEAN, balance : Nat, job : Job \cup {NoJob}]

(* What u was charged for and does not have.                               *)
Owed(u) == InitialBalance - redis[u].balance - granted[u]

Buying(w, u) == pc[w] \in {"weapon", "ammoType", "ammo"} /\ job[w].user = u

(* While the connection lives a user is charged exactly for the purchases  *)
(* stored in full and the one in progress, whatever else is asked for.     *)
ChargedIsGranted ==
    link = "up" => \A u \in User :
        \/ Owed(u) = 0
        \/ \E w \in Workers : Buying(w, u) /\ Owed(u) = Price[job[w].weapon]

(* The four HSET of PurchaseWeapon are no transaction, but a lost          *)
(* connection is lost for good: over its whole life the server leaves at   *)
(* most one purchase half done, of one user.                               *)
HalfDoneOnce ==
    /\ \A u, v \in User : Owed(u) # 0 /\ Owed(v) # 0 => u = v
    /\ \A u \in User : Owed(u) \in {0} \cup {Price[k] : k \in Weapon}

(* RedisClient.h:30, "a command that fails returns false": who is told of  *)
(* success has the weapon, its ammo and the balance named, all stored.     *)
SuccessIsStored ==
    answer.success =>
        redis[answer.job.user] = [balance |-> answer.balance, weapon |-> answer.job.weapon,
                                  ammoType |-> 0, ammo |-> Supply(answer.job.weapon)]
=============================================================================
