--------------------------- MODULE Follows_proofs ---------------------------
(***************************************************************************)
(* Theorems about Follows, for any accounts, requests, forms and caps that *)
(* FollowsAssumption admits.                                               *)
(***************************************************************************)
EXTENDS Follows, FiniteSetTheorems, TLAPS

-----------------------------------------------------------------------------
(* The inductive invariant *)

Active(r) == tx[r].at # "idle"

\* An owner's transactions exclude each other, and each belongs to an owner
\* with a row; a sign-in that has seeds is the one that makes the row.
Staged ==
    \A r \in Requests :
        /\ Active(r) => lock[tx[r].who] = r
        /\ Active(r) =>
             IF tx[r].op = "sign_in" THEN tx[r].who \in Accounts ELSE Known(tx[r].who)
        /\ tx[r].at = "locked" /\ tx[r].op = "add" => tx[r].target.owner = tx[r].who
        /\ tx[r].at \in {"found", "roomy", "granted", "refused"} => tx[r].op # "sign_in"
        /\ tx[r].at = "seeded" =>
             tx[r].op = "sign_in" /\ tx[r].who \in Accounts \ users

\* No row of the owner of s is a twin of s, save by import.
Untwinned(s) ==
    \A t \in spots :
        t.owner = s.owner /\ SameSpot(t.form, s.form)
            => s.owner = Public /\ {t.form, s.form} \cap Importable # {}

\* What a transaction read still holds when it acts on it.
PreparedTx(r) ==
    /\ tx[r].at \in {"found", "roomy", "granted"} =>
         /\ Visible(tx[r].who, tx[r].target)
         /\ tx[r].target \notin spots =>
              /\ tx[r].op = "add"
              /\ tx[r].target.owner = tx[r].who
              /\ Untwinned(tx[r].target)
    /\ tx[r].at \in {"roomy", "granted"} => Room(tx[r].who, tx[r].target)
    /\ tx[r].at = "granted" => Creates(tx[r]) /\ RoomToCreate(tx[r].who)
    /\ tx[r].at = "seeded" =>
         /\ IsFiniteSet(tx[r].seed) /\ Cardinality(tx[r].seed) <= FollowCap
         /\ \A s \in tx[r].seed : s \in spots /\ s.owner = Public

Prepared == \A r \in Requests : PreparedTx(r)

Bounded ==
    /\ \A o \in Owners : IsFiniteSet(follows[o]) /\ Cardinality(follows[o]) <= FollowCap
    /\ \A a \in Accounts : IsFiniteSet(Own(a)) /\ Cardinality(Own(a)) <= CustomCap

BookInv == TypeOK /\ Staged /\ Prepared /\ Bounded /\ NoTwins /\ Isolation

-----------------------------------------------------------------------------
(* The shapes that steps have *)

\* A step of r inside its transaction changes tx[r] alone.
LEMMA BecomeShape ==
  ASSUME TypeOK, NEW r \in Requests, NEW t \in Tx, Become(r, t)
  PROVE  /\ UNCHANGED <<users, spots, follows, lock>>
         /\ tx' \in [Requests -> Tx]
         /\ tx'[r] = t
         /\ \A q \in Requests : q # r => tx'[q] = tx[q]
BY DEF Become, TypeOK

LEMMA EndShape ==
  ASSUME TypeOK, NEW r \in Requests, End(r)
  PROVE  /\ tx' \in [Requests -> Tx] /\ lock' \in [Owners -> Requests \cup {Unlocked}]
         /\ tx'[r] = Idle
         /\ lock'[tx[r].who] = Unlocked
         /\ \A o \in Owners : o # tx[r].who => lock'[o] = lock[o]
         /\ \A q \in Requests : q # r => tx'[q] = tx[q]
<1>1. Idle \in Tx /\ tx[r].who \in Owners
  BY DEF Idle, Tx, Step, Op, Owners, TypeOK
<1> QED
  BY <1>1 DEF End, TypeOK

\* Two transactions never have the same owner.
LEMMA OwnersDiffer ==
  ASSUME TypeOK, Staged, NEW q \in Requests, NEW r \in Requests, q # r, Active(q), Active(r)
  PROVE  tx[q].who # tx[r].who
BY DEF Staged

\* The actions inside a transaction, as the record they leave behind.
Inside(r, t) ==
    /\ Active(r)
    /\ t \in Tx
    /\ t.op = tx[r].op /\ t.who = tx[r].who
    /\ \/ tx[r].at = "locked" /\ t.at = "found" /\ t.op \in {"watch", "unwatch", "add"}
             /\ t.seed = tx[r].seed
             /\ t.target \in spots /\ Visible(t.who, t.target)
       \/ tx[r].at = "locked" /\ t = [tx[r] EXCEPT !.at = "found"] /\ t.op = "add"
             /\ Matches(tx[r]) = {}
       \/ tx[r].at = "found" /\ t = [tx[r] EXCEPT !.at = "roomy"]
             /\ Room(t.who, t.target)
       \/ tx[r].at = "roomy" /\ t = [tx[r] EXCEPT !.at = "granted"]
             /\ Creates(tx[r]) /\ RoomToCreate(t.who)
       \/ tx[r].at \in {"found", "roomy"} /\ t = [tx[r] EXCEPT !.at = "refused"]
       \/ tx[r].at = "locked" /\ t.at = "seeded" /\ t.op = "sign_in" /\ t.who \notin users
             /\ t.target = tx[r].target /\ t.seed \in Seeds

Opens(r) ==
    \E op \in Op, who \in Owners, target \in Spot \cup {NoSpot} :
        /\ Begin(r, op, who, target)
        /\ IF op = "sign_in" THEN who \in Accounts ELSE Known(who) /\ target \in Spot
        /\ op = "add" => target.owner = who

LEMMA RequestShape ==
  ASSUME TypeOK, Staged, NEW r \in Requests, Request(r)
  PROVE  \/ Opens(r)
         \/ Active(r) /\ Rollback(r)
         \/ \E t \in Tx : Inside(r, t) /\ Become(r, t)
         \/ Follow(r) \/ Unfollow(r) \/ Join(r)
<1>0. tx[r] \in Tx
  BY DEF TypeOK
<1>1. ASSUME NEW who \in Owners, NEW s \in spots, Watch(r, who, s) \/ Unwatch(r, who, s)
      PROVE  Opens(r)
  <2>1. s \in Spot /\ "watch" \in Op /\ "unwatch" \in Op
    BY DEF TypeOK, Op
  <2> QED
    BY <1>1, <2>1 DEF Watch, Unwatch, Opens
<1>2. ASSUME NEW who \in Owners, NEW f \in Forms, Add(r, who, f) PROVE Opens(r)
  <2>1. [owner |-> who, form |-> f] \in Spot /\ "add" \in Op
    BY DEF Spot, Op
  <2>2. [owner |-> who, form |-> f].owner = who
    OBVIOUS
  <2> QED
    BY <1>2, <2>1, <2>2 DEF Add, Opens
<1>3. ASSUME NEW who \in Owners, SignIn(r, who) PROVE Opens(r)
  <2>1. NoSpot \in Spot \cup {NoSpot} /\ "sign_in" \in Op
    BY DEF Op
  <2> QED
    BY <1>3, <2>1 DEF SignIn, Opens
<1>4. ASSUME NEW at \in Step, Advance(r, at)
      PROVE  [tx[r] EXCEPT !.at = at] \in Tx /\ Become(r, [tx[r] EXCEPT !.at = at])
  BY <1>0, <1>4 DEF Advance, Tx
<1>5. ASSUME NEW s \in spots, Found(r, s), Visible(tx[r].who, s), tx[r].at = "locked",
             tx[r].op \in {"watch", "unwatch", "add"}
      PROVE  \/ Active(r) /\ Rollback(r)
             \/ \E t \in Tx : Inside(r, t) /\ Become(r, t)
  <2>1. CASE Settled(tx[r], s)
    BY <1>5, <2>1 DEF Found, Active
  <2>2. CASE ~Settled(tx[r], s)
    <3> DEFINE t == [tx[r] EXCEPT !.at = "found", !.target = s]
    <3>1. s \in Spot
      BY DEF TypeOK
    <3>2. /\ t \in Tx /\ t.op = tx[r].op /\ t.who = tx[r].who /\ t.seed = tx[r].seed
          /\ t.at = "found" /\ t.target = s
      BY <1>0, <3>1 DEF Tx, Step
    <3>3. Become(r, t)
      BY <1>5, <2>2 DEF Found
    <3> HIDE DEF t
    <3>4. Inside(r, t)
      BY <1>5, <3>2 DEF Inside, Active
    <3> QED
      BY <3>2, <3>3, <3>4
  <2> QED
    BY <2>1, <2>2
<1>6. CASE Lookup(r)
  BY <1>5, <1>6 DEF Lookup, Active
<1>7. CASE SearchHits(r)
  <2>1. PICK s \in Preferred(Matches(tx[r])) : Found(r, s)
    BY <1>7 DEF SearchHits
  <2>2. s \in Matches(tx[r])
    BY DEF Preferred
  <2>3. s \in spots /\ Visible(tx[r].who, s)
    BY <2>2 DEF Matches
  <2> QED
    BY <1>5, <1>7, <2>1, <2>3 DEF SearchHits
<1>8. CASE SearchMisses(r)
  <2>1. Inside(r, [tx[r] EXCEPT !.at = "found"])
    BY <1>0, <1>4, <1>8 DEF SearchMisses, Inside, Active, Tx, Step
  <2> QED
    BY <1>4, <1>8, <2>1 DEF SearchMisses, Step
<1>9. CASE Count(r)
  <2>1. CASE Room(tx[r].who, tx[r].target)
    <3>1. Inside(r, [tx[r] EXCEPT !.at = "roomy"])
      BY <1>0, <1>4, <1>9, <2>1 DEF Count, Inside, Active, Tx, Step
    <3> QED
      BY <1>4, <1>9, <2>1, <3>1 DEF Count, Step
  <2>2. CASE ~Room(tx[r].who, tx[r].target)
    <3>1. Inside(r, [tx[r] EXCEPT !.at = "refused"])
      BY <1>0, <1>4, <1>9, <2>2 DEF Count, Inside, Active, Tx, Step
    <3> QED
      BY <1>4, <1>9, <2>2, <3>1 DEF Count, Step
  <2> QED
    BY <2>1, <2>2
<1>10. CASE CountOwn(r)
  <2>1. CASE RoomToCreate(tx[r].who)
    <3>1. Inside(r, [tx[r] EXCEPT !.at = "granted"])
      BY <1>0, <1>4, <1>10, <2>1 DEF CountOwn, Inside, Active, Tx, Step
    <3> QED
      BY <1>4, <1>10, <2>1, <3>1 DEF CountOwn, Step
  <2>2. CASE ~RoomToCreate(tx[r].who)
    <3>1. Inside(r, [tx[r] EXCEPT !.at = "refused"])
      BY <1>0, <1>4, <1>10, <2>2 DEF CountOwn, Inside, Active, Tx, Step
    <3> QED
      BY <1>4, <1>10, <2>2, <3>1 DEF CountOwn, Step
  <2> QED
    BY <2>1, <2>2
<1>11. CASE Seed(r)
  <2>1. PICK S \in Seeds : Become(r, [tx[r] EXCEPT !.at = "seeded", !.seed = S])
    BY <1>11 DEF Seed
  <2> DEFINE t == [tx[r] EXCEPT !.at = "seeded", !.seed = S]
  <2>2. S \in SUBSET Spot
    BY DEF Seeds, TypeOK, Owners
  <2>3. /\ t \in Tx /\ t.op = tx[r].op /\ t.who = tx[r].who /\ t.target = tx[r].target
        /\ t.at = "seeded" /\ t.seed = S
    BY <1>0, <2>2 DEF Tx, Step
  <2> HIDE DEF t
  <2>4. Inside(r, t)
    BY <1>11, <2>3 DEF Inside, Active, Seed
  <2> QED
    BY <2>1, <2>3, <2>4 DEF t
<1>12. CASE Return(r) \/ Abort(r)
  BY <1>12 DEF Return, Abort, Active
<1> QED
  BY <1>1, <1>2, <1>3, <1>6, <1>7, <1>8, <1>9, <1>10, <1>11, <1>12 DEF Request

-----------------------------------------------------------------------------
(* Types and stages *)

LEMMA InitStaged == Init => TypeOK /\ Staged
<1> SUFFICES ASSUME Init PROVE TypeOK /\ Staged
  OBVIOUS
<1>1. Idle \in Tx /\ Idle.at = "idle"
  BY DEF Idle, Tx, Step, Op, Owners
<1>2. PublicSpots(Catalogue) \subseteq Spot
  BY FollowsAssumption DEF PublicSpots, Spot, Owners
<1> QED
  BY <1>1, <1>2 DEF Init, TypeOK, Staged, Active, Owners

LEMMA OpensStaged ==
  ASSUME TypeOK, Staged, NEW r \in Requests, Opens(r)
  PROVE  /\ TypeOK' /\ Staged'
         /\ tx'[r].at = "locked"
         /\ \A q \in Requests : q # r => tx'[q] = tx[q]
<1>1. PICK op \in Op, who \in Owners, target \in Spot \cup {NoSpot} :
        /\ Begin(r, op, who, target)
        /\ IF op = "sign_in" THEN who \in Accounts ELSE Known(who) /\ target \in Spot
        /\ op = "add" => target.owner = who
  BY DEF Opens
<1> DEFINE t == [at |-> "locked", op |-> op, who |-> who, target |-> target, seed |-> {}]
<1>2. /\ t \in Tx /\ t.at = "locked" /\ t.op = op /\ t.who = who /\ t.target = target
  BY DEF Tx, Step
<1>3. /\ lock' = [lock EXCEPT ![who] = r]
      /\ lock[who] = Unlocked
      /\ tx' = [tx EXCEPT ![r] = t]
      /\ UNCHANGED <<users, spots, follows>>
      /\ tx[r].at = "idle"
  BY <1>1 DEF Begin, LockFree
<1> HIDE DEF t
<1>4. TypeOK'
  BY <1>1, <1>2, <1>3 DEF TypeOK
<1>5. \A q \in Requests : q # r => tx'[q] = tx[q]
  BY <1>3 DEF TypeOK
<1>6. tx'[r] = t /\ lock'[who] = r
  BY <1>3 DEF TypeOK
<1>7. ASSUME NEW q \in Requests, q # r, Active(q) PROVE lock'[tx[q].who] = q
  <2>1. lock[tx[q].who] = q /\ tx[q].who \in Owners
    BY <1>7 DEF Staged, TypeOK, Tx
  <2>2. q # Unlocked
    BY FollowsAssumption
  <2> QED
    BY <1>3, <2>1, <2>2 DEF TypeOK
<1>8. Staged'
  BY <1>1, <1>2, <1>3, <1>5, <1>6, <1>7 DEF Staged, Active, Known
<1> QED
  BY <1>2, <1>4, <1>5, <1>6, <1>8

LEMMA EndStaged ==
  ASSUME TypeOK, Staged, NEW r \in Requests, Active(r), End(r),
         users \subseteq users', \A a \in users' \ users : a = tx[r].who,
         users' \subseteq Accounts, spots' \subseteq Spot,
         follows' \in [Owners -> SUBSET Spot],
         \A a \in Accounts \ users' : follows'[a] = {}
  PROVE  TypeOK' /\ Staged'
<1>1. /\ tx' \in [Requests -> Tx] /\ lock' \in [Owners -> Requests \cup {Unlocked}]
      /\ tx'[r].at = "idle"
      /\ \A o \in Owners : o # tx[r].who => lock'[o] = lock[o]
      /\ \A q \in Requests : q # r => tx'[q] = tx[q]
  BY EndShape DEF Idle
<1>2. TypeOK'
  BY <1>1 DEF TypeOK
<1>3. ASSUME NEW q \in Requests, q # r, Active(q)
      PROVE  /\ lock'[tx[q].who] = q
             /\ tx[q].who \notin users => tx[q].who \notin users'
  <2>1. tx[q].who # tx[r].who /\ tx[q].who \in Owners
    BY <1>3, OwnersDiffer DEF TypeOK, Tx
  <2> QED
    BY <1>1, <1>3, <2>1 DEF Staged
<1>4. Staged'
  BY <1>1, <1>3 DEF Staged, Active, Known
<1> QED
  BY <1>2, <1>4

LEMMA InsideStaged ==
  ASSUME TypeOK, Staged, NEW r \in Requests, NEW t \in Tx, Inside(r, t), Become(r, t)
  PROVE  TypeOK' /\ Staged'
<1>1. /\ UNCHANGED <<users, spots, follows, lock>>
      /\ tx' \in [Requests -> Tx]
      /\ tx'[r] = t
      /\ \A q \in Requests : q # r => tx'[q] = tx[q]
  BY BecomeShape
<1>2. /\ t.op = tx[r].op /\ t.who = tx[r].who
      /\ t.at \in {"found", "roomy", "granted", "refused"} => t.op # "sign_in"
      /\ t.at = "seeded" => t.op = "sign_in" /\ t.who \notin users
      /\ t.at # "locked"
  BY DEF Inside, Staged, Tx, TypeOK
<1>3. t.target = tx[r].target \/ t.target \in spots
  <2>1. tx[r] \in Tx
    BY DEF TypeOK
  <2>2. \A at : [tx[r] EXCEPT !.at = at].target = tx[r].target
    BY <2>1 DEF Tx
  <2> QED
    BY <2>2 DEF Inside
<1>4. t.op # "sign_in" => t.target \in Spot
  BY <1>2, <1>3 DEF TypeOK, Inside, Active
<1>5. t.op = "sign_in" => t.who \in Accounts
  BY <1>2 DEF Staged, Inside
<1> QED
  <2>1. TypeOK'
    BY <1>1, <1>4 DEF TypeOK
  <2>2. Active(r) /\ tx'[r].who = tx[r].who /\ tx'[r].op = tx[r].op
    BY <1>1, <1>2 DEF Inside
  <2>3. tx'[r].at = "seeded" => tx'[r].who \in Accounts \ users
    BY <1>1, <1>2, <1>5
  <2>4. Staged'
    BY <1>1, <1>2, <2>2, <2>3 DEF Staged, Active, Known
  <2> QED
    BY <2>1, <2>4

-----------------------------------------------------------------------------
(* The transactions of other owners *)

\* The rows and follows of one owner do not disturb what the transactions of
\* other owners have read.
LEMMA OthersStayPrepared ==
  ASSUME TypeOK, Staged, Prepared,
         NEW r \in Requests, Active(r), NEW q \in Requests, q # r, tx'[q] = tx[q],
         spots \subseteq spots', \A s \in spots' \ spots : s.owner = tx[r].who,
         \A o \in Owners : o # tx[r].who => follows'[o] = follows[o]
  PROVE  PreparedTx(q)'
<1>0. tx[q] \in Tx
  BY DEF TypeOK
<1>1. PreparedTx(q)
  BY DEF Prepared
<1>2. CASE tx[q].at \notin {"found", "roomy", "granted", "seeded"}
  BY <1>2 DEF PreparedTx
<1>3. CASE tx[q].at = "seeded"
  BY <1>1, <1>3 DEF PreparedTx
<1>4. CASE tx[q].at \in {"found", "roomy", "granted"}
  <2>1. tx[q].who # tx[r].who /\ tx[q].who \in Owners
    BY <1>0, <1>4, OwnersDiffer DEF Active, Tx
  <2>2. Own(tx[q].who)' = Own(tx[q].who)
    BY <2>1 DEF Own
  <2>3. tx[q].target \notin spots' =>
          /\ tx[q].op = "add"
          /\ tx[q].target.owner = tx[q].who
          /\ Untwinned(tx[q].target)'
    BY <1>1, <1>4, <2>1 DEF PreparedTx, Untwinned
  <2>4. tx[q].at \in {"roomy", "granted"} => Room(tx[q].who, tx[q].target)'
    BY <1>1, <2>1 DEF PreparedTx, Room
  <2>5. tx[q].at = "granted" => Creates(tx[q])' /\ RoomToCreate(tx[q].who)'
    BY <1>1, <2>1, <2>2 DEF PreparedTx, Creates, RoomToCreate
  <2> QED
    BY <1>1, <1>4, <2>3, <2>4, <2>5 DEF PreparedTx, Visible
<1> QED
  BY <1>2, <1>3, <1>4

LEMMA PreparedAfter ==
  ASSUME TypeOK, Staged, Prepared,
         NEW r \in Requests, Active(r), PreparedTx(r)',
         \A q \in Requests : q # r => tx'[q] = tx[q],
         spots \subseteq spots', \A s \in spots' \ spots : s.owner = tx[r].who,
         \A o \in Owners : o # tx[r].who => follows'[o] = follows[o]
  PROVE  Prepared'
BY OthersStayPrepared DEF Prepared

LEMMA IdleIsPrepared ==
  ASSUME NEW r \in Requests, tx[r].at \in {"idle", "locked", "refused"}
  PROVE  PreparedTx(r)
BY DEF PreparedTx

LEMMA InsidePrepared ==
  ASSUME TypeOK, Staged, Prepared, Bounded, Isolation,
         NEW r \in Requests, NEW t \in Tx, Inside(r, t), Become(r, t)
  PROVE  Prepared'
<1>0. tx[r] \in Tx /\ Active(r) /\ t.op = tx[r].op /\ t.who = tx[r].who
  BY DEF TypeOK, Inside
<1>1. /\ UNCHANGED <<users, spots, follows, lock>>
      /\ tx' \in [Requests -> Tx]
      /\ tx'[r] = t
      /\ \A q \in Requests : q # r => tx'[q] = tx[q]
  BY BecomeShape
<1>2. PreparedTx(r)
  BY DEF Prepared
<1>3. PreparedTx(r)'
  <2>1. \A at \in Step : /\ [tx[r] EXCEPT !.at = at].at = at
                         /\ [tx[r] EXCEPT !.at = at].target = tx[r].target
    BY <1>0 DEF Tx
  <2>2. CASE /\ tx[r].at = "locked" /\ t.at = "found"
             /\ t.target \in spots /\ Visible(t.who, t.target)
    BY <1>1, <2>2 DEF PreparedTx, Visible
  <2>3. CASE /\ tx[r].at = "locked" /\ t = [tx[r] EXCEPT !.at = "found"] /\ t.op = "add"
             /\ Matches(tx[r]) = {}
    <3>1. t.at = "found" /\ t.target = tx[r].target
      BY <2>1, <2>3 DEF Step
    <3>2. t.target.owner = t.who
      BY <1>0, <2>3, <3>1 DEF Staged
    <3> QED
      BY <1>0, <1>1, <2>3, <3>1, <3>2
         DEF PreparedTx, Matches, Visible, Untwinned
  <2>4. CASE tx[r].at = "found" /\ t = [tx[r] EXCEPT !.at = "roomy"] /\ Room(t.who, t.target)
    <3>1. t.at = "roomy" /\ t.target = tx[r].target
      BY <2>1, <2>4 DEF Step
    <3> QED
      BY <1>0, <1>1, <1>2, <2>4, <3>1 DEF PreparedTx, Visible, Untwinned, Room
  <2>5. CASE /\ tx[r].at = "roomy" /\ t = [tx[r] EXCEPT !.at = "granted"]
             /\ Creates(tx[r]) /\ RoomToCreate(t.who)
    <3>1. t.at = "granted" /\ t.target = tx[r].target
      BY <2>1, <2>5 DEF Step
    <3> QED
      BY <1>0, <1>1, <1>2, <2>5, <3>1
         DEF PreparedTx, Visible, Untwinned, Room, Creates, RoomToCreate, Own
  <2>6. CASE t = [tx[r] EXCEPT !.at = "refused"]
    BY <1>1, <2>1, <2>6, IdleIsPrepared DEF Step, PreparedTx
  <2>7. CASE t.at = "seeded" /\ t.seed \in Seeds
    <3>1. /\ t.seed \subseteq follows[Public]
          /\ Cardinality(t.seed) = Smaller(FollowCap, Cardinality(follows[Public]))
      BY <2>7 DEF Seeds
    <3>2. /\ Public \in Owners
          /\ IsFiniteSet(follows[Public]) /\ Cardinality(follows[Public]) <= FollowCap
      BY DEF Owners, Bounded
    <3>3. IsFiniteSet(t.seed) /\ Cardinality(t.seed) <= Cardinality(follows[Public])
      BY <3>1, <3>2, FS_Subset
    <3>4. Cardinality(t.seed) <= FollowCap
      BY <3>2, <3>3, FS_CardinalityType, FollowsAssumption
    <3>5. \A s \in t.seed : s \in spots /\ s.owner = Public
      BY <3>1, <3>2 DEF Isolation
    <3> QED
      BY <1>1, <2>7, <3>3, <3>4, <3>5 DEF PreparedTx
  <2> QED
    BY <2>2, <2>3, <2>4, <2>5, <2>6, <2>7 DEF Inside
<1> QED
  BY <1>0, <1>1, <1>3, PreparedAfter

-----------------------------------------------------------------------------
(* The steps that write *)

LEMMA FollowWrites ==
  ASSUME BookInv, NEW r \in Requests, Follow(r)
  PROVE  BookInv'
<1> DEFINE who == tx[r].who
           s == tx[r].target
<1>0. /\ TypeOK /\ Staged /\ Prepared /\ Bounded /\ NoTwins /\ Isolation
      /\ tx[r] \in Tx
  BY DEF BookInv, TypeOK
<1>1. /\ tx[r].at \in {"roomy", "granted"}
      /\ spots' = spots \cup {s}
      /\ follows' = [follows EXCEPT ![who] = @ \cup {s}]
      /\ End(r) /\ users' = users
  BY DEF Follow
<1>2. /\ PreparedTx(r) /\ Active(r)
      /\ Visible(who, s) /\ Room(who, s)
      /\ s \notin spots => tx[r].op = "add" /\ s.owner = who /\ Untwinned(s)
  BY <1>0, <1>1 DEF Prepared, PreparedTx, Active
<1>3. /\ who \in Owners /\ Known(who)
      /\ s \in Spot
  BY <1>0, <1>1, <1>2 DEF Staged, TypeOK, Tx, Active
<1>4. /\ follows'[who] = follows[who] \cup {s}
      /\ follows' \in [Owners -> SUBSET Spot]
      /\ \A o \in Owners : o # who => follows'[o] = follows[o]
  BY <1>0, <1>1, <1>3 DEF TypeOK
<1>5. TypeOK' /\ Staged'
  <2>1. \A a \in Accounts \ users : follows'[a] = {}
    BY <1>0, <1>3, <1>4, FollowsAssumption DEF TypeOK, Known, Owners
  <2> QED
    BY <1>0, <1>1, <1>2, <1>3, <1>4, <2>1, EndStaged DEF TypeOK
<1>6. Prepared'
  <2>1. /\ tx'[r].at = "idle"
        /\ \A q \in Requests : q # r => tx'[q] = tx[q]
    BY <1>0, <1>1, EndShape DEF Idle
  <2>2. PreparedTx(r)'
    BY <2>1 DEF PreparedTx
  <2>3. \A t \in spots' \ spots : t.owner = who
    BY <1>1, <1>2
  <2> QED
    BY <1>0, <1>1, <1>2, <1>4, <2>1, <2>2, <2>3, PreparedAfter
<1>7. ASSUME NEW o \in Owners
      PROVE  IsFiniteSet(follows'[o]) /\ Cardinality(follows'[o]) <= FollowCap
  <2>1. IsFiniteSet(follows[who]) /\ Cardinality(follows[who] \ {s}) < FollowCap
    BY <1>0, <1>2, <1>3 DEF Bounded, Room
  <2> DEFINE rest == follows[who] \ {s}
  <2>2. IsFiniteSet(rest) /\ Cardinality(rest) \in Nat
    BY <2>1, FS_RemoveElement, FS_CardinalityType
  <2>3. follows'[who] = rest \cup {s} /\ s \notin rest
    BY <1>4
  <2>4. IsFiniteSet(follows'[who]) /\ Cardinality(follows'[who]) = Cardinality(rest) + 1
    <3> HIDE DEF rest
    <3>1. IsFiniteSet(rest \cup {s}) /\ Cardinality(rest \cup {s}) = Cardinality(rest) + 1
      BY <2>2, <2>3, FS_AddElement
    <3> QED
      BY <2>3, <3>1
  <2>5. Cardinality(follows'[who]) <= FollowCap
    BY <2>1, <2>2, <2>4, FollowsAssumption
  <2> QED
    BY <1>0, <1>4, <2>4, <2>5 DEF Bounded
<1>8. ASSUME NEW a \in Accounts
      PROVE  IsFiniteSet(Own(a)') /\ Cardinality(Own(a)') <= CustomCap
  <2>1. IsFiniteSet(Own(a)) /\ Cardinality(Own(a)) <= CustomCap
    BY <1>0 DEF Bounded
  <2>2. CASE s \in spots \/ s.owner # a
    <3>1. Own(a)' = Own(a)
      BY <1>1, <2>2 DEF Own
    <3> QED
      BY <2>1, <3>1
  <2>3. CASE s \notin spots /\ s.owner = a
    <3>1. who = a /\ Creates(tx[r])
      BY <1>2, <2>3, FollowsAssumption DEF Creates
    <3>2. tx[r].at = "granted"
      BY <3>1 DEF Follow
    <3>3. Cardinality(Own(a)) < CustomCap
      BY <1>2, <3>1, <3>2 DEF PreparedTx, RoomToCreate
    <3>4. Own(a)' = Own(a) \cup {s} /\ s \notin Own(a)
      BY <1>1, <2>3 DEF Own
    <3>5. IsFiniteSet(Own(a)') /\ Cardinality(Own(a)') = Cardinality(Own(a)) + 1
      <4> DEFINE own == Own(a)
      <4>1. IsFiniteSet(own) /\ s \notin own /\ Own(a)' = own \cup {s}
        BY <2>1, <3>4
      <4> HIDE DEF own
      <4>2. IsFiniteSet(own \cup {s}) /\ Cardinality(own \cup {s}) = Cardinality(own) + 1
        BY <4>1, FS_AddElement
      <4> QED
        BY <4>1, <4>2 DEF own
    <3>6. Cardinality(Own(a)) \in Nat
      BY <2>1, FS_CardinalityType
    <3> QED
      BY <3>3, <3>5, <3>6, FollowsAssumption
  <2> QED
    BY <2>2, <2>3
<1>9. NoTwins'
  <2>1. ASSUME NEW t \in spots, t.owner = s.owner, SameSpot(t.form, s.form), s \notin spots
        PROVE  s.owner = Public /\ {t.form, s.form} \cap Importable # {}
    BY <1>2, <2>1 DEF Untwinned
  <2>2. \A t, u \in Spot : SameSpot(t.form, u.form) = SameSpot(u.form, t.form)
    BY DEF SameSpot
  <2>3. \A t \in spots' : t \in spots \/ t = s
    BY <1>1
  <2> QED
    BY <1>0, <1>3, <2>1, <2>2, <2>3 DEF NoTwins, SameSpot, TypeOK
<1>10. Isolation'
  BY <1>0, <1>1, <1>2, <1>4 DEF Isolation, Visible
<1> QED
  BY <1>5, <1>6, <1>7, <1>8, <1>9, <1>10 DEF BookInv, Bounded

LEMMA UnfollowWrites ==
  ASSUME BookInv, NEW r \in Requests, Unfollow(r)
  PROVE  BookInv'
<1> DEFINE who == tx[r].who
           s == tx[r].target
<1>0. /\ TypeOK /\ Staged /\ Prepared /\ Bounded /\ NoTwins /\ Isolation
      /\ tx[r] \in Tx /\ who \in Owners
  BY DEF BookInv, TypeOK, Tx
<1>1. /\ Active(r)
      /\ follows' = [follows EXCEPT ![who] = @ \ {s}]
      /\ End(r) /\ users' = users /\ spots' = spots
  BY DEF Unfollow, Active
<1>2. /\ follows'[who] = follows[who] \ {s}
      /\ follows' \in [Owners -> SUBSET Spot]
      /\ \A o \in Owners : o # who => follows'[o] = follows[o]
  BY <1>0, <1>1 DEF TypeOK
<1>3. TypeOK' /\ Staged'
  <2>1. \A a \in Accounts \ users : follows'[a] = {}
    BY <1>0, <1>2 DEF TypeOK, Owners
  <2> QED
    BY <1>0, <1>1, <1>2, <2>1, EndStaged DEF TypeOK
<1>4. Prepared'
  <2>1. /\ tx'[r].at = "idle"
        /\ \A q \in Requests : q # r => tx'[q] = tx[q]
    BY <1>0, <1>1, EndShape DEF Idle
  <2>2. PreparedTx(r)'
    BY <2>1 DEF PreparedTx
  <2> QED
    BY <1>0, <1>1, <1>2, <2>1, <2>2, PreparedAfter
<1>5. ASSUME NEW o \in Owners
      PROVE  IsFiniteSet(follows'[o]) /\ Cardinality(follows'[o]) <= FollowCap
  <2>1. /\ IsFiniteSet(follows[o]) /\ Cardinality(follows[o]) <= FollowCap
        /\ follows'[o] \subseteq follows[o]
    BY <1>0, <1>2 DEF Bounded
  <2>2. IsFiniteSet(follows'[o]) /\ Cardinality(follows'[o]) <= Cardinality(follows[o])
    BY <2>1, FS_Subset
  <2> QED
    BY <2>1, <2>2, FS_CardinalityType, FollowsAssumption
<1>6. \A a \in Accounts : Own(a)' = Own(a)
  BY <1>1 DEF Own
<1>7. NoTwins' /\ Isolation'
  BY <1>0, <1>1, <1>2 DEF NoTwins, Isolation
<1> QED
  BY <1>0, <1>3, <1>4, <1>5, <1>6, <1>7 DEF BookInv, Bounded

LEMMA JoinWrites ==
  ASSUME BookInv, NEW r \in Requests, Join(r)
  PROVE  BookInv'
<1> DEFINE who == tx[r].who
           seed == tx[r].seed
<1>0. /\ TypeOK /\ Staged /\ Prepared /\ Bounded /\ NoTwins /\ Isolation
      /\ tx[r] \in Tx /\ seed \subseteq Spot
  BY DEF BookInv, TypeOK, Tx
<1>1. /\ Active(r)
      /\ users' = users \cup {who}
      /\ follows' = [follows EXCEPT ![who] = seed]
      /\ End(r) /\ spots' = spots
  BY DEF Join, Active
<1>2. /\ who \in Accounts \ users /\ who \in Owners
      /\ IsFiniteSet(seed) /\ Cardinality(seed) <= FollowCap
      /\ \A s \in seed : s \in spots /\ s.owner = Public
  BY <1>0 DEF Join, Staged, Prepared, PreparedTx, Owners
<1>3. /\ follows'[who] = seed
      /\ follows' \in [Owners -> SUBSET Spot]
      /\ \A o \in Owners : o # who => follows'[o] = follows[o]
  BY <1>0, <1>1, <1>2 DEF TypeOK
<1>4. TypeOK' /\ Staged'
  <2>1. \A a \in Accounts \ users' : follows'[a] = {}
    BY <1>0, <1>1, <1>3 DEF TypeOK, Owners
  <2> QED
    BY <1>0, <1>1, <1>2, <1>3, <2>1, EndStaged DEF TypeOK
<1>5. Prepared'
  <2>1. /\ tx'[r].at = "idle"
        /\ \A q \in Requests : q # r => tx'[q] = tx[q]
    BY <1>0, <1>1, EndShape DEF Idle
  <2>2. PreparedTx(r)'
    BY <2>1 DEF PreparedTx
  <2> QED
    BY <1>0, <1>1, <1>3, <2>1, <2>2, PreparedAfter
<1>6. \A o \in Owners : IsFiniteSet(follows'[o]) /\ Cardinality(follows'[o]) <= FollowCap
  BY <1>0, <1>2, <1>3 DEF Bounded
<1>7. \A a \in Accounts : Own(a)' = Own(a)
  BY <1>1 DEF Own
<1>8. NoTwins' /\ Isolation'
  BY <1>0, <1>1, <1>2, <1>3 DEF NoTwins, Isolation
<1> QED
  BY <1>0, <1>4, <1>5, <1>6, <1>7, <1>8 DEF BookInv, Bounded

-----------------------------------------------------------------------------
(* The steps that write nothing, and the import *)

LEMMA RollbackKeeps ==
  ASSUME BookInv, NEW r \in Requests, Active(r), Rollback(r)
  PROVE  BookInv'
<1>0. TypeOK /\ Staged /\ Prepared /\ Bounded /\ NoTwins /\ Isolation
  BY DEF BookInv
<1>1. End(r) /\ users' = users /\ spots' = spots /\ follows' = follows
  BY DEF Rollback
<1>2. TypeOK' /\ Staged'
  BY <1>0, <1>1, EndStaged DEF TypeOK
<1>3. Prepared'
  <2>1. /\ tx'[r].at = "idle"
        /\ \A q \in Requests : q # r => tx'[q] = tx[q]
    BY <1>0, <1>1, EndShape DEF Idle
  <2>2. PreparedTx(r)'
    BY <2>1 DEF PreparedTx
  <2> QED
    BY <1>0, <1>1, <2>1, <2>2, PreparedAfter
<1>4. Bounded' /\ NoTwins' /\ Isolation'
  BY <1>0, <1>1 DEF Bounded, NoTwins, Isolation, Own
<1> QED
  BY <1>2, <1>3, <1>4 DEF BookInv

LEMMA InsideKeeps ==
  ASSUME BookInv, NEW r \in Requests, NEW t \in Tx, Inside(r, t), Become(r, t)
  PROVE  BookInv'
<1>0. TypeOK /\ Staged /\ Prepared /\ Bounded /\ NoTwins /\ Isolation
  BY DEF BookInv
<1>1. TypeOK' /\ Staged'
  BY <1>0, InsideStaged
<1>2. Prepared'
  BY <1>0, InsidePrepared
<1>3. Bounded' /\ NoTwins' /\ Isolation'
  BY <1>0 DEF Become, Bounded, NoTwins, Isolation, Own
<1> QED
  BY <1>1, <1>2, <1>3 DEF BookInv

LEMMA OpensKeeps ==
  ASSUME BookInv, NEW r \in Requests, Opens(r)
  PROVE  BookInv'
<1>0. TypeOK /\ Staged /\ Prepared /\ Bounded /\ NoTwins /\ Isolation
  BY DEF BookInv
<1>1. /\ TypeOK' /\ Staged'
      /\ tx'[r].at = "locked"
      /\ \A q \in Requests : q # r => tx'[q] = tx[q]
  BY <1>0, OpensStaged
<1>2. UNCHANGED <<users, spots, follows>>
  BY DEF Opens, Begin
<1>3. ASSUME NEW q \in Requests PROVE PreparedTx(q)'
  <2>1. CASE q = r
    BY <1>1, <2>1 DEF PreparedTx
  <2>2. CASE q # r
    <3>1. PreparedTx(q) /\ tx'[q] = tx[q]
      BY <1>0, <1>1, <2>2 DEF Prepared
    <3> QED
      BY <1>2, <3>1
         DEF PreparedTx, Visible, Untwinned, Room, Creates, RoomToCreate, Own
  <2> QED
    BY <2>1, <2>2
<1>4. Bounded' /\ NoTwins' /\ Isolation'
  BY <1>0, <1>2 DEF Bounded, NoTwins, Isolation, Own
<1> QED
  BY <1>1, <1>3, <1>4 DEF BookInv, Prepared

\* What the import adds is public, so no account's rows change, and may only be
\* a twin of what Untwinned and NoTwins let be.
LEMMA ImportKeeps ==
  ASSUME BookInv, NEW F \in SUBSET Importable, Import(F)
  PROVE  BookInv'
<1>0. TypeOK /\ Staged /\ Prepared /\ Bounded /\ NoTwins /\ Isolation
  BY DEF BookInv
<1>1. /\ spots' = spots \cup PublicSpots(F)
      /\ UNCHANGED <<users, follows, lock, tx>>
  BY DEF Import
<1>2. \A s \in PublicSpots(F) : s \in Spot /\ s.owner = Public /\ s.form \in Importable
  BY FollowsAssumption DEF PublicSpots, Spot, Owners
<1>3. TypeOK'
  BY <1>0, <1>1, <1>2 DEF TypeOK
<1>4. Staged'
  BY <1>0, <1>1 DEF Staged, Active, Known
<1>5. \A a \in Accounts : Own(a)' = Own(a)
  BY <1>1, <1>2, FollowsAssumption DEF Own
<1>6. ASSUME NEW q \in Requests PROVE PreparedTx(q)'
  <2>1. PreparedTx(q) /\ tx[q] \in Tx
    BY <1>0 DEF Prepared, TypeOK
  <2>2. ASSUME NEW s \in Spot, Untwinned(s) PROVE Untwinned(s)'
    <3>1. ASSUME NEW t \in PublicSpots(F), t.owner = s.owner
          PROVE  s.owner = Public /\ {t.form, s.form} \cap Importable # {}
      BY <1>2, <3>1
    <3> QED
      BY <1>1, <2>2, <3>1 DEF Untwinned
  <2>3. tx[q].at \in {"found", "roomy", "granted"} /\ tx[q].target \notin spots
          => tx[q].target \in Spot
    BY <1>0, <2>1 DEF TypeOK, Staged, Active
  <2>4. ASSUME tx[q].at = "granted"
        PROVE  Creates(tx[q])' /\ RoomToCreate(tx[q].who)'
    <3>1. Creates(tx[q]) /\ RoomToCreate(tx[q].who)
      BY <2>1, <2>4 DEF PreparedTx
    <3>2. tx[q].who \in Accounts /\ tx[q].target \notin PublicSpots(F)
      BY <1>2, <2>1, <3>1 DEF Creates, Tx, Owners
    <3> QED
      BY <1>1, <1>5, <3>1, <3>2 DEF Creates, RoomToCreate
  <2> QED
    BY <1>1, <2>1, <2>2, <2>3, <2>4 DEF PreparedTx, Visible, Room
<1>7. Bounded'
  BY <1>0, <1>1, <1>5 DEF Bounded
<1>8. NoTwins'
  BY <1>0, <1>1, <1>2 DEF NoTwins
<1>9. Isolation'
  BY <1>0, <1>1 DEF Isolation
<1> QED
  BY <1>3, <1>4, <1>6, <1>7, <1>8, <1>9 DEF BookInv, Prepared

-----------------------------------------------------------------------------
(* The theorems *)

LEMMA InitBook == Init => BookInv
<1> SUFFICES ASSUME Init PROVE BookInv
  OBVIOUS
<1>1. TypeOK /\ Staged
  BY InitStaged
<1>2. /\ \A s \in spots : s.owner = Public /\ s.form \in Importable
      /\ \A o \in Owners : follows[o] = {}
      /\ \A r \in Requests : tx[r].at = "idle"
  BY FollowsAssumption DEF Init, PublicSpots, Idle
<1>3. Prepared
  BY <1>2 DEF Prepared, PreparedTx
<1>4. IsFiniteSet({}) /\ Cardinality({}) = 0
  BY FS_EmptySet
<1>5. \A a \in Accounts : Own(a) = {}
  BY <1>2, FollowsAssumption DEF Own
<1>6. Bounded
  <2>1. 0 <= FollowCap /\ 0 <= CustomCap
    BY FollowsAssumption
  <2>2. \A o \in Owners : IsFiniteSet(follows[o]) /\ Cardinality(follows[o]) <= FollowCap
    BY <1>2, <1>4, <2>1, Zenon
  <2>3. \A a \in Accounts : IsFiniteSet(Own(a)) /\ Cardinality(Own(a)) <= CustomCap
    BY <1>4, <1>5, <2>1, Zenon
  <2> QED
    BY <2>2, <2>3 DEF Bounded
<1>7. NoTwins /\ Isolation
  BY <1>2 DEF NoTwins, Isolation
<1> QED
  BY <1>1, <1>3, <1>6, <1>7 DEF BookInv

LEMMA NextBook == BookInv /\ [Next]_vars => BookInv'
<1> SUFFICES ASSUME BookInv, [Next]_vars PROVE BookInv'
  OBVIOUS
<1>1. ASSUME NEW r \in Requests, Request(r) PROVE BookInv'
  <2>1. TypeOK /\ Staged
    BY DEF BookInv
  <2>2. \/ Opens(r)
        \/ Active(r) /\ Rollback(r)
        \/ \E t \in Tx : Inside(r, t) /\ Become(r, t)
        \/ Follow(r) \/ Unfollow(r) \/ Join(r)
    BY <1>1, <2>1, RequestShape
  <2> QED
    BY <2>2, OpensKeeps, RollbackKeeps, InsideKeeps, FollowWrites, UnfollowWrites, JoinWrites
<1>2. ASSUME NEW F \in SUBSET Importable, Import(F) PROVE BookInv'
  BY <1>2, ImportKeeps
<1>3. CASE UNCHANGED vars
  <2>1. UNCHANGED <<users, spots, follows, lock, tx>>
    BY <1>3 DEF vars
  <2>2. TypeOK' /\ Staged'
    BY <2>1 DEF BookInv, TypeOK, Staged, Active, Known
  <2>3. Prepared'
    BY <2>1 DEF BookInv, Prepared, PreparedTx, Visible, Untwinned, Room, Creates, RoomToCreate, Own
  <2>4. Bounded' /\ NoTwins' /\ Isolation'
    BY <2>1 DEF BookInv, Bounded, Own, NoTwins, Isolation
  <2> QED
    BY <2>2, <2>3, <2>4 DEF BookInv
<1> QED
  BY <1>1, <1>2, <1>3 DEF Next

\* BookInv holds in every state that the transactions can reach.
THEOREM BookIsKept == Spec => []BookInv
BY InitBook, NextBook, PTL DEF Spec

\* The types hold, and only accounts with a row follow anything, for any
\* accounts, requests, forms and caps.
THEOREM TypeCorrect == Spec => []TypeOK
<1>1. BookInv => TypeOK
  BY DEF BookInv
<1> QED
  BY <1>1, BookIsKept, PTL

\* However requests interleave, none lets an owner follow more than the cap.
THEOREM FollowsAreLimited == Spec => []FollowLimit
<1>1. BookInv => FollowLimit
  BY DEF BookInv, Bounded, FollowLimit
<1> QED
  BY <1>1, BookIsKept, PTL

\* ... nor an account own more custom spots than its cap.
THEOREM CustomSpotsAreLimited == Spec => []CustomLimit
<1>1. BookInv => CustomLimit
  BY DEF BookInv, Bounded, CustomLimit
<1> QED
  BY <1>1, BookIsKept, PTL

\* Adding one place twice, at once and in other words, makes one row of it.
THEOREM TwinsAreImported == Spec => []NoTwins
<1>1. BookInv => NoTwins
  BY DEF BookInv
<1> QED
  BY <1>1, BookIsKept, PTL

\* No account ever follows a spot of another one, or one without a row.
THEOREM SpotsAreIsolated == Spec => []Isolation
<1>1. BookInv => Isolation
  BY DEF BookInv
<1> QED
  BY <1>1, BookIsKept, PTL

LEMMA OnlySeedSeeds ==
  ASSUME BookInv, NEW r \in Requests, [Next]_vars, tx[r].at = "locked", tx'[r].at = "seeded"
  PROVE  tx'[r].seed \in Seeds
<1>0. TypeOK /\ Staged /\ Active(r)
  BY DEF BookInv, Active
<1>1. tx' # tx
  OBVIOUS
<1>2. PICK q \in Requests : Request(q)
  BY <1>1 DEF Next, Import, vars
<1>3. \/ Opens(q)
      \/ Active(q) /\ End(q)
      \/ \E t \in Tx : Inside(q, t) /\ Become(q, t)
  BY <1>0, <1>2, RequestShape DEF Rollback, Follow, Unfollow, Join, Active
<1>4. CASE Opens(q)
  BY <1>0, <1>4, OpensStaged DEF Opens, Begin, Active
<1>5. CASE Active(q) /\ End(q)
  BY <1>0, <1>5, EndShape DEF Idle
<1>6. ASSUME NEW t \in Tx, Inside(q, t), Become(q, t) PROVE tx'[r].seed \in Seeds
  <2>1. q = r /\ tx'[r] = t
    BY <1>0, <1>6, BecomeShape
  <2>2. \A at \in Step : [tx[r] EXCEPT !.at = at].at = at
    BY <1>0 DEF TypeOK, Tx
  <2> QED
    BY <1>6, <2>1, <2>2 DEF Inside, Step
<1> QED
  BY <1>3, <1>4, <1>5, <1>6

\* LIMIT 20 takes all of the featured spots that a new account should get.
THEOREM SeedsAreWhole == Spec => SeedIsWhole
<1>1. ASSUME BookInv, [Next]_vars, NEW r \in Requests, tx[r].at = "locked", tx'[r].at = "seeded"
      PROVE  tx'[r].seed = follows[Public]
  <2>1. tx'[r].seed \in Seeds
    BY <1>1, OnlySeedSeeds
  <2>2. IsFiniteSet(follows[Public]) /\ Cardinality(follows[Public]) <= FollowCap
    BY <1>1 DEF BookInv, Bounded, Owners
  <2>3. Cardinality(follows[Public]) \in Nat
    BY <2>2, FS_CardinalityType
  <2>4. Smaller(FollowCap, Cardinality(follows[Public])) = Cardinality(follows[Public])
    BY <2>2, <2>3, FollowsAssumption DEF Smaller
  <2>5. /\ tx'[r].seed \subseteq follows[Public]
        /\ Cardinality(tx'[r].seed) = Cardinality(follows[Public])
    BY <2>1, <2>4 DEF Seeds
  <2> QED
    BY <2>2, <2>5, FS_Subset
<1>2. BookInv /\ [Next]_vars =>
        [\A r \in Requests :
           tx[r].at = "locked" /\ tx'[r].at = "seeded" => tx'[r].seed = follows[Public]]_vars
  BY <1>1
<1> QED
  BY <1>2, BookIsKept, PTL DEF Spec, SeedIsWhole

=============================================================================
