------------------------------ MODULE Follows -------------------------------
(***************************************************************************)
(* Spots and who follows them: the transactions of set_watch and add_spot  *)
(* (server/src/db.rs), set_personal_watch, add_personal_spot and           *)
(* sign_in_account (server/src/accounts.rs), next to import_spots.         *)
(*                                                                         *)
(* Public stands for the installation itself: its spots are those with     *)
(* owner_user_id NULL and its follows are the `watched` column.  So the    *)
(* two pairs of transactions have one shape: take the owner's lock (the    *)
(* advisory lock 76249101, or the user's row), look, count, write, commit. *)
(*                                                                         *)
(* Under READ COMMITTED each statement sees what has been committed before *)
(* it, and others run between any two.  The writes of a transaction are    *)
(* its last statements: invisible until the commit, they are one step with *)
(* it.  A row is named by its owner and its form (name and coordinates),   *)
(* which the two unique indexes make a key; ORDER BY id is left open.      *)
(***************************************************************************)
EXTENDS Integers, FiniteSets

CONSTANTS
    Accounts,    \* Google subjects
    Public,      \* the installation
    Forms,       \* name and coordinates of a spot, as given
    PlaceOf,     \* form -> its place: same name but for case, within one metre
    Catalogue,   \* forms that migrate inserts
    Importable,  \* forms that the operator may import
    Requests,    \* connections that serve requests
    FollowCap,   \* spots that an owner may follow
    CustomCap,   \* spots that an account may create
    Unlocked,    \* no request
    NoSpot       \* no row

Owners == Accounts \cup {Public}
Spot == [owner: Owners, form: Forms]
PublicSpots(F) == [owner: {Public}, form: F]

ASSUME FollowsAssumption ==
    /\ Public \notin Accounts
    /\ IsFiniteSet(Forms)
    /\ DOMAIN PlaceOf = Forms
    /\ Catalogue \subseteq Importable
    /\ Importable \subseteq Forms
    /\ FollowCap \in Nat \ {0}
    /\ CustomCap \in Nat \ {0}
    /\ Unlocked \notin Requests
    /\ NoSpot \notin Spot

VARIABLES
    users,    \* accounts that have a row
    spots,    \* rows of bodhi.spots
    follows,  \* owner -> the spots it follows
    lock,     \* owner -> the request that holds its lock
    tx        \* request -> its transaction

vars == <<users, spots, follows, lock, tx>>

Op == {"watch", "unwatch", "add", "sign_in"}
Step == {"idle", "locked", "found", "roomy", "granted", "refused", "seeded"}

\* target is the row named in the path, or for "add" the row it would insert;
\* seed holds the follows that sign_in_account has inserted but not committed.
Tx == [at: Step, op: Op, who: Owners, target: Spot \cup {NoSpot}, seed: SUBSET Spot]

Idle == [at |-> "idle", op |-> "watch", who |-> Public, target |-> NoSpot, seed |-> {}]

\* The last conjunct is the foreign key of user_follows.
TypeOK ==
    /\ users \subseteq Accounts
    /\ spots \subseteq Spot
    /\ follows \in [Owners -> SUBSET Spot]
    /\ lock \in [Owners -> Requests \cup {Unlocked}]
    /\ tx \in [Requests -> Tx]
    /\ \A r \in Requests :
         tx[r].at # "idle" /\ tx[r].op # "sign_in" => tx[r].target \in Spot
    /\ \A a \in Accounts \ users : follows[a] = {}

Init ==
    /\ users = {}
    /\ spots = PublicSpots(Catalogue)
    /\ follows = [o \in Owners |-> {}]
    /\ lock = [o \in Owners |-> Unlocked]
    /\ tx = [r \in Requests |-> Idle]

-----------------------------------------------------------------------------
(* The start and the end of a transaction *)

\* Mutant of LockFree: the transaction does not wait for the owner's lock.
LockFreeAlways(o) == TRUE

LockFree(o) == lock[o] = Unlocked

\* Mutant of Known: the user's row is not asked for.
KnownAnyone(o) == TRUE

\* SELECT id FROM bodhi.users ... FOR UPDATE returns one row.
Known(o) == o \in users \cup {Public}

\* A request that finds the lock taken waits, which changes nothing.
Begin(r, op, who, target) ==
    /\ tx[r].at = "idle"
    /\ LockFree(who)
    /\ lock' = [lock EXCEPT ![who] = r]
    /\ tx' = [tx EXCEPT ![r] =
                [at |-> "locked", op |-> op, who |-> who, target |-> target, seed |-> {}]]
    /\ UNCHANGED <<users, spots, follows>>

Watch(r, who, target) == Known(who) /\ Begin(r, "watch", who, target)
Unwatch(r, who, target) == Known(who) /\ Begin(r, "unwatch", who, target)
Add(r, who, form) == Known(who) /\ Begin(r, "add", who, [owner |-> who, form |-> form])
SignIn(r, who) == who \in Accounts /\ Begin(r, "sign_in", who, NoSpot)

End(r) ==
    /\ tx' = [tx EXCEPT ![r] = Idle]
    /\ lock' = [lock EXCEPT ![tx[r].who] = Unlocked]

\* A statement fails, the connection is lost or the process dies; or the code
\* returns without a commit.  PostgreSQL rolls back.
Rollback(r) == End(r) /\ UNCHANGED <<users, spots, follows>>

Abort(r) == tx[r].at # "idle" /\ Rollback(r)

Become(r, transaction) ==
    /\ tx' = [tx EXCEPT ![r] = transaction]
    /\ UNCHANGED <<users, spots, follows, lock>>

Advance(r, at) == Become(r, [tx[r] EXCEPT !.at = at])

-----------------------------------------------------------------------------
(* Following and adding *)

\* Mutant of Visible: the WHERE clause does not name the owner.
VisibleToAll(who, s) == TRUE

Visible(who, s) == s.owner = Public \/ s.owner = who

\* Nothing is to be done for a public spot that is watched as asked; the
\* account's transactions count and write anyway.
Settled(t, s) ==
    /\ t.who = Public
    /\ (s \in follows[Public]) = (t.op # "unwatch")

\* Found a row: it becomes the target.
Found(r, s) ==
    IF Settled(tx[r], s)
      THEN Rollback(r)
      ELSE Become(r, [tx[r] EXCEPT !.at = "found", !.target = s])

Lookup(r) ==
    /\ tx[r].at = "locked"
    /\ tx[r].op \in {"watch", "unwatch"}
    /\ IF tx[r].target \in spots /\ Visible(tx[r].who, tx[r].target)
         THEN Found(r, tx[r].target)
         ELSE Rollback(r)

\* Mutant of SameSpot: lower() and ST_DWithin are left out.
SameSpotExactly(f, g) == f = g

SameSpot(f, g) == PlaceOf[f] = PlaceOf[g]

Matches(t) == {s \in spots : Visible(t.who, s) /\ SameSpot(s.form, t.target.form)}

\* ORDER BY owner_user_id NULLS FIRST
Preferred(S) == IF \E s \in S : s.owner = Public THEN {s \in S : s.owner = Public} ELSE S

\* An existing row is followed as if it had been named.
SearchHits(r) ==
    /\ tx[r].at = "locked"
    /\ tx[r].op = "add"
    /\ \E s \in Preferred(Matches(tx[r])) : Found(r, s)

SearchMisses(r) ==
    /\ tx[r].at = "locked"
    /\ tx[r].op = "add"
    /\ Matches(tx[r]) = {}
    /\ Advance(r, "found")

\* Mutant of Room: one more than the cap is let in.
RoomForOneMore(o, s) == Cardinality(follows[o] \ {s}) <= FollowCap

Room(o, s) == Cardinality(follows[o] \ {s}) < FollowCap

Count(r) ==
    /\ tx[r].at = "found"
    /\ tx[r].op \in {"watch", "add"}
    /\ Advance(r, IF Room(tx[r].who, tx[r].target) THEN "roomy" ELSE "refused")

Own(o) == {s \in spots : s.owner = o}

\* An account that adds a spot which does not exist yet.
Creates(t) == t.op = "add" /\ t.who # Public /\ t.target.owner = t.who /\ t.target \notin spots

\* Mutant of RoomToCreate: the count is compared with <=.
RoomToCreateOneMore(o) == Cardinality(Own(o)) <= CustomCap

RoomToCreate(o) == Cardinality(Own(o)) < CustomCap

CountOwn(r) ==
    /\ tx[r].at = "roomy"
    /\ Creates(tx[r])
    /\ Advance(r, IF RoomToCreate(tx[r].who) THEN "granted" ELSE "refused")

Follow(r) ==
    /\ tx[r].at = IF Creates(tx[r]) THEN "granted" ELSE "roomy"
    /\ spots' = spots \cup {tx[r].target}
    /\ follows' = [follows EXCEPT ![tx[r].who] = @ \cup {tx[r].target}]
    /\ End(r)
    /\ UNCHANGED users

Unfollow(r) ==
    /\ tx[r].at = "found"
    /\ tx[r].op = "unwatch"
    /\ follows' = [follows EXCEPT ![tx[r].who] = @ \ {tx[r].target}]
    /\ End(r)
    /\ UNCHANGED <<users, spots>>

-----------------------------------------------------------------------------
(* Signing in: a new account starts with the featured follows *)

Smaller(a, b) == IF a < b THEN a ELSE b

\* ... WHERE watched AND owner_user_id IS NULL ORDER BY id LIMIT 20
Seeds ==
    {S \in SUBSET follows[Public] :
        Cardinality(S) = Smaller(FollowCap, Cardinality(follows[Public]))}

Seed(r) ==
    /\ tx[r].at = "locked"
    /\ tx[r].op = "sign_in"
    /\ tx[r].who \notin users
    /\ \E S \in Seeds : Become(r, [tx[r] EXCEPT !.at = "seeded", !.seed = S])

Join(r) ==
    /\ tx[r].at = "seeded"
    /\ users' = users \cup {tx[r].who}
    /\ follows' = [follows EXCEPT ![tx[r].who] = tx[r].seed]
    /\ End(r)
    /\ UNCHANGED spots

\* Only email, name and last_login_at change.
Return(r) ==
    /\ tx[r].at = "locked"
    /\ tx[r].op = "sign_in"
    /\ tx[r].who \in users
    /\ Rollback(r)

-----------------------------------------------------------------------------
\* INSERT ... ON CONFLICT DO NOTHING, without a lock; the catalogue of migrate
\* goes the same way.
Import(F) ==
    /\ spots' = spots \cup PublicSpots(F)
    /\ UNCHANGED <<users, follows, lock, tx>>

Request(r) ==
    \/ \E who \in Owners :
         \/ \E s \in spots : Watch(r, who, s) \/ Unwatch(r, who, s)
         \/ \E f \in Forms : Add(r, who, f)
         \/ SignIn(r, who)
    \/ Lookup(r) \/ SearchHits(r) \/ SearchMisses(r)
    \/ Count(r) \/ CountOwn(r) \/ Follow(r) \/ Unfollow(r)
    \/ Seed(r) \/ Join(r) \/ Return(r) \/ Abort(r)

Next ==
    \/ \E r \in Requests : Request(r)
    \/ \E F \in SUBSET Importable : Import(F)

Spec == Init /\ [][Next]_vars

-----------------------------------------------------------------------------
(* Properties *)

\* docs/api.md: "Each user can follow 20 spots"; README: "At most 20 followed
\* spots".  Every cap is a count that was read before the write, and another
\* request, of either kind, may run between the two.
FollowLimit == \A o \in Owners : Cardinality(follows[o]) <= FollowCap

\* docs/api.md: "... and create 100 custom spots".
CustomLimit == \A a \in Accounts : Cardinality(Own(a)) <= CustomCap

\* Two requests that add the same spot in other words make one row: no account
\* has two rows for one place, nor has the public catalogue, except where the
\* operator's import, which neither searches nor locks, put one.
NoTwins ==
    \A s, t \in spots :
        /\ s.owner = t.owner
        /\ PlaceOf[s.form] = PlaceOf[t.form]
        /\ s.owner # Public \/ {s.form, t.form} \cap Importable = {}
        => s = t

\* An account follows existing spots that it may see, its own or public ones,
\* and the installation features public spots only.
Isolation ==
    \A o \in Owners : \A s \in follows[o] : s \in spots /\ s.owner \in {Public, o}

\* docs/api.md: "New accounts start with a copy of the featured public
\* follows": LIMIT 20 never cuts it, because the same cap holds for the
\* featured spots at the moment the copy is made.
SeedIsWhole ==
    [][\A r \in Requests :
         tx[r].at = "locked" /\ tx'[r].at = "seeded" => tx'[r].seed = follows[Public]]_vars

=============================================================================
