--------------------------- MODULE Refresh_proofs ---------------------------
(***************************************************************************)
(* Theorems about Refresh, for any instances: both kinds of deployment,    *)
(* any number of calls of each kind under way at a time, any number of     *)
(* changes and sign-ins.                                                   *)
(***************************************************************************)
EXTENDS Refresh, TLAPS

-----------------------------------------------------------------------------
(* The inductive invariant *)

\* An answer is of the kind of its request, and no list is from the future.
Fits(kind, got, v) ==
    \/ kind = "caps" /\ got \in Rights
    \/ kind # "caps" /\ got \in 0..v
    \/ kind \in Writes /\ got = Refused

AnsweredWell(q) == q.got # Unknown => Fits(q.kind, q.got, version)

\* While a write is on its way it is the only request of its call: the load
\* begins after its answer.  The calls beside it may be anywhere.
WriteAlone(w) ==
    w.kind \in Writes => w.by \in Chains /\ \A q \in requests : q.by = w.by => q = w

Calls == \A q \in requests : AnsweredWell(q) /\ WriteAlone(q)

MadeBefore == \A c \in Chains : made[c] <= version

\* Nobody leaves for Google after the last sign-in that the bound allows; and the
\* rights stay known while the dialog is open that a click on them opened, so that
\* what its save carries is a right.
Placed(p, n) ==
    /\ p.leaving = "google" => n < MaxSession
    /\ p.draft # "no" => p.right \in Rights

PagePlaced == Placed(page, logins)

RefreshInv == TypeOK /\ Calls /\ MadeBefore /\ PagePlaced /\ ReloadSeesChange

\* The buttons that mutate disables are disabled exactly while one of its requests
\* is under way; so a second write of mutate never starts beside the first.
Mutating == \E q \in requests : q.by = "mutate"

BusyIsMutate == page.busy <=> Mutating

LEMMA NamesDiffer ==
  /\ "timer" \notin Chains /\ "nobody" \notin Chains /\ "no" \notin Callers
  /\ "timer" \in Callers /\ "nobody" \in Callers /\ "mutate" \in Chains
  /\ Chains \subseteq Callers /\ Agains \subseteq Callers /\ Unlocks \subseteq Callers
  /\ Agains \cap Chains = {} /\ Unlocks \cap Chains = {}
  /\ \A c \in Saves \cup Agains \cup Unlocks : c # "timer" /\ c # "mutate"
BY RefreshAssumption DEF Chains, Callers

LEMMA LoadsAreRequests ==
  ASSUME NEW by \in Callers, NEW token \in Rights, NEW q \in Load(by, token)
  PROVE  q \in Request /\ q.by = by /\ q.kind \in Loads /\ q.got = Unknown
BY DEF Load, New, Request, Loads

LEMMA NoRightIsARight == 0 \in Rights /\ 1 \in Rights /\ {0, 1} \subseteq Rights
BY RefreshAssumption DEF Rights

LEMMA RefreshInvInit == Init => RefreshInv
<1> SUFFICES ASSUME Init PROVE RefreshInv
  OBVIOUS
<1>1. FreshPage \in Page /\ Placed(FreshPage, logins)
  BY DEF FreshPage, Page, Placed
<1>2. \A q \in requests : q \in Request /\ q.by = "timer" /\ q.kind \in Loads /\ q.got = Unknown
  BY LoadsAreRequests, NoRightIsARight, NamesDiffer DEF Init
<1>3. TypeOK
  BY <1>1, <1>2, RefreshAssumption, NoRightIsARight DEF Init, TypeOK, Versions
<1>4. Calls
  BY <1>2 DEF Calls, AnsweredWell, WriteAlone, Loads, Writes
<1>5. MadeBefore /\ PagePlaced /\ ReloadSeesChange
  BY <1>1, <1>2 DEF Init, MadeBefore, PagePlaced, ReloadSeesChange
<1> QED
  BY <1>3, <1>4, <1>5 DEF RefreshInv

-----------------------------------------------------------------------------
(* What steps do with requests *)

JustMade(q) == q \in Request /\ q.kind \in Loads /\ q.got = Unknown /\ q.by \notin Chains

Forsaken(q) ==
    \E p \in requests :
        p.by \in Chains /\ p.kind \in Loads /\ q = [p EXCEPT !.by = "nobody"]

\* Requests end, are forsaken or are made, but none of a call that writes.
Moves == \A q \in requests' : q \in requests \/ JustMade(q) \/ Forsaken(q)

\* What a step that makes no write does with the history.
Forgets == made' \in [Chains -> Versions] /\ \A c \in Chains : made'[c] \in {0, made[c]}

LEMMA OverForgets == ASSUME RefreshInv, NEW by, made' = Over(by) \/ made' = made PROVE Forgets
BY DEF RefreshInv, TypeOK, Forgets, Over, Versions

LEMMA MovesKeepCalls ==
  ASSUME RefreshInv, Moves, Forgets, version' \in Versions, version <= version'
  PROVE  /\ requests' \subseteq Request
         /\ Calls' /\ MadeBefore' /\ ReloadSeesChange'
<1>0. /\ version \in Nat /\ version' \in Nat /\ requests \subseteq Request
      /\ made \in [Chains -> Nat] /\ made' \in [Chains -> Nat]
  BY DEF RefreshInv, TypeOK, Versions, Forgets
<1>1. ASSUME NEW q, Forsaken(q)
      PROVE  /\ q \in Request /\ q.by = "nobody" /\ q.kind \in Loads
             /\ q.got # Unknown => Fits(q.kind, q.got, version)
  <2>1. PICK p \in requests :
          p.by \in Chains /\ p.kind \in Loads /\ q = [p EXCEPT !.by = "nobody"]
    BY <1>1 DEF Forsaken
  <2>2. p \in Request /\ (p.got # Unknown => Fits(p.kind, p.got, version))
    BY <1>0 DEF RefreshInv, Calls, AnsweredWell
  <2>3. q \in Request /\ q.by = "nobody" /\ q.kind = p.kind /\ q.got = p.got
    BY <2>1, <2>2, NamesDiffer DEF Request
  <2> QED
    BY <2>1, <2>2, <2>3
<1>2. ASSUME NEW kind, NEW got, Fits(kind, got, version) PROVE Fits(kind, got, version')
  BY <1>0, <1>2 DEF Fits
<1>3. requests' \subseteq Request
  BY <1>0, <1>1 DEF Moves, JustMade
<1>4. ASSUME NEW q \in requests' PROVE AnsweredWell(q)'
  BY <1>1, <1>2, <1>4 DEF Moves, JustMade, RefreshInv, Calls, AnsweredWell
<1>5. ASSUME NEW w \in requests', w.kind \in Writes
      PROVE  w.by \in Chains /\ \A q \in requests' : q.by = w.by => q = w
  <2>1. w \in requests
    BY <1>1, <1>5 DEF Moves, JustMade, Loads, Writes
  <2>2. w.by \in Chains /\ \A p \in requests : p.by = w.by => p = w
    BY <2>1, <1>5 DEF RefreshInv, Calls, WriteAlone
  <2>3. ASSUME NEW q \in requests', q.by = w.by PROVE q \in requests
    BY <1>1, <2>2, <2>3, NamesDiffer DEF Moves, JustMade
  <2> QED
    BY <2>2, <2>3
<1>6. Calls'
  BY <1>4, <1>5 DEF Calls, WriteAlone
<1>7. ASSUME NEW q \in requests', q.by \in Chains, q.kind = "spots", q.got # Unknown
      PROVE  q.got >= made'[q.by]
  <2>1. q \in requests
    BY <1>1, <1>7, NamesDiffer DEF Moves, JustMade
  <2>2. q.got \in Nat
    BY <1>7, <2>1 DEF RefreshInv, Calls, AnsweredWell, Fits, Writes
  <2>3. q.got >= made[q.by]
    BY <1>7, <2>1 DEF RefreshInv, ReloadSeesChange
  <2> QED
    BY <1>0, <1>7, <2>2, <2>3 DEF Forgets
<1>8. ReloadSeesChange'
  BY <1>7 DEF ReloadSeesChange
<1>9. MadeBefore'
  BY <1>0 DEF RefreshInv, MadeBefore, Forgets
<1> QED
  BY <1>3, <1>6, <1>8, <1>9

-----------------------------------------------------------------------------
(* The server *)

LEMMA AnswerShape ==
  ASSUME NEW r \in Request, NEW g, Answer(r, g), NEW v \in Versions, Fits(r.kind, g, v)
  PROVE  \E q \in Request :
           requests' = (requests \ {r}) \cup {q} /\ q.by = r.by /\ q.kind = r.kind /\ q.got = g
<1>1. 0..v \subseteq Versions
  BY DEF Versions
<1>2. g \in Versions \cup Rights \cup {Unknown, Refused}
  BY <1>1 DEF Fits
<1>3. PICK q : q = [r EXCEPT !.got = g]
  OBVIOUS
<1>4. q \in Request /\ q.by = r.by /\ q.kind = r.kind /\ q.got = g
  BY <1>2, <1>3 DEF Request
<1> QED
  BY <1>3, <1>4 DEF Answer

LEMMA ServeShape ==
  ASSUME RefreshInv, NEW r \in requests, Serve(r)
  PROVE  /\ \E q \in Request :
              /\ requests' = (requests \ {r}) \cup {q} /\ q.by = r.by /\ q.kind = r.kind
              /\ Fits(r.kind, q.got, version')
              /\ r.kind = "spots" => q.got = version
         /\ version' \in Versions /\ version <= version'
         /\ session' \in Rights
         /\ UNCHANGED <<instance, up, logins, page, made>>
<1>0. /\ version \in Nat /\ session \in Rights /\ r \in Request
      /\ 0 \in Rights /\ {0, 1} \subseteq Rights
  BY NoRightIsARight DEF RefreshInv, TypeOK, Versions
<1>1. UNCHANGED <<instance, up, logins, page, made>>
  BY DEF Serve
<1>2. SUFFICES \E g : /\ Answer(r, g) /\ Fits(r.kind, g, version') /\ (r.kind = "spots" => g = version)
                      /\ version' \in Versions /\ version <= version' /\ session' \in Rights
  BY <1>0, <1>1, AnswerShape
<1>3. CASE r.kind = "spots" /\ Answer(r, version) /\ UNCHANGED <<version, session>>
  BY <1>0, <1>3 DEF Fits, Versions
<1>4. CASE r.kind = "caps" /\ Answer(r, Right(r.with)) /\ UNCHANGED <<version, session>>
  <2>1. Right(r.with) \in Rights
    BY <1>0 DEF Right, Request
  <2> QED
    BY <1>0, <1>4, <2>1 DEF Fits, Versions
<1>5. CASE r.kind \in {"follow", "add"} /\ version' = version + 1
           /\ Answer(r, version') /\ UNCHANGED session
  BY <1>0, <1>5 DEF Fits, Versions
<1>6. CASE r.kind \in {"retry", "logout"} /\ Answer(r, version) /\ session' \in {0, session}
           /\ UNCHANGED version
  BY <1>0, <1>6 DEF Fits, Versions
<1>7. CASE r.kind \in Writes /\ Answer(r, Refused) /\ UNCHANGED <<version, session>>
  BY <1>0, <1>7 DEF Fits, Versions, Writes
<1> QED
  BY <1>3, <1>4, <1>5, <1>6, <1>7 DEF Serve

LEMMA ServeKeeps ==
  ASSUME RefreshInv, NEW r \in requests, Serve(r)
  PROVE  RefreshInv'
<1>0. /\ version \in Nat /\ r \in Request /\ requests \subseteq Request
      /\ made \in [Chains -> Nat] /\ MadeBefore
  BY DEF RefreshInv, TypeOK, Versions
<1>1. PICK q \in Request :
         /\ requests' = (requests \ {r}) \cup {q} /\ q.by = r.by /\ q.kind = r.kind
         /\ Fits(r.kind, q.got, version')
         /\ r.kind = "spots" => q.got = version
  BY ServeShape
<1>2. version' \in Nat /\ version <= version' /\ session' \in Rights
      /\ UNCHANGED <<instance, up, logins, page, made>>
  BY ServeShape DEF Versions
<1>3. ASSUME NEW kind, NEW got, Fits(kind, got, version) PROVE Fits(kind, got, version')
  BY <1>0, <1>2, <1>3 DEF Fits
<1>4. TypeOK'
  BY <1>0, <1>1, <1>2 DEF RefreshInv, TypeOK, Versions
<1>5. ASSUME NEW p \in requests' PROVE AnsweredWell(p)'
  BY <1>1, <1>3 DEF RefreshInv, Calls, AnsweredWell
<1>6. ASSUME NEW w \in requests', w.kind \in Writes
      PROVE  w.by \in Chains /\ \A p \in requests' : p.by = w.by => p = w
  <2>1. CASE w = q
    <3>1. r.by \in Chains /\ \A p \in requests : p.by = r.by => p = r
      BY <1>1, <1>6, <2>1 DEF RefreshInv, Calls, WriteAlone
    <3> QED
      BY <1>1, <2>1, <3>1
  <2>2. CASE w # q
    <3>1. w \in requests /\ w # r
      BY <1>1, <2>2
    <3>2. w.by \in Chains /\ \A p \in requests : p.by = w.by => p = w
      BY <1>6, <3>1 DEF RefreshInv, Calls, WriteAlone
    <3> QED
      BY <1>1, <3>1, <3>2
  <2> QED
    BY <2>1, <2>2
<1>7. Calls'
  BY <1>5, <1>6 DEF Calls, WriteAlone
<1>8. ReloadSeesChange'
  BY <1>0, <1>1, <1>2 DEF RefreshInv, ReloadSeesChange, MadeBefore
<1>9. MadeBefore'
  BY <1>0, <1>2 DEF MadeBefore
<1>10. PagePlaced'
  BY <1>2 DEF RefreshInv, PagePlaced, Placed
<1> QED
  BY <1>4, <1>7, <1>8, <1>9, <1>10 DEF RefreshInv

LEMMA SurroundingsKeep ==
  ASSUME RefreshInv, ChangeElsewhere \/ Turn
  PROVE  RefreshInv'
<1>1. /\ UNCHANGED <<instance, logins, page, requests, made>>
      /\ version' \in Versions /\ version <= version'
      /\ session' \in {session, 0}
  BY DEF ChangeElsewhere, Turn, RefreshInv, TypeOK, Versions
<1>2. up' \in BOOLEAN
  BY DEF ChangeElsewhere, Turn, RefreshInv, TypeOK
<1>3. Moves /\ Forgets
  BY <1>1, OverForgets DEF Moves
<1>4. Calls' /\ MadeBefore' /\ ReloadSeesChange'
  BY <1>1, <1>3, MovesKeepCalls
<1>5. TypeOK'
  BY <1>1, <1>2, NoRightIsARight DEF RefreshInv, TypeOK
<1> QED
  BY <1>1, <1>4, <1>5 DEF RefreshInv, PagePlaced, Placed

-----------------------------------------------------------------------------
(* Steps of the page that leave the server as it is *)

\* What is left to say of a step of the page that makes no write.
LEMMA PageStep ==
  ASSUME RefreshInv, UNCHANGED server, Moves, Forgets,
         page' \in Page, Placed(page', logins)
  PROVE  RefreshInv'
<1>1. version' \in Versions /\ version <= version'
  BY DEF server, RefreshInv, TypeOK, Versions
<1>2. requests' \subseteq Request /\ Calls' /\ MadeBefore' /\ ReloadSeesChange'
  BY <1>1, MovesKeepCalls
<1> QED
  BY <1>2 DEF RefreshInv, TypeOK, PagePlaced, Placed, server, Forgets

LEMMA TimerKeeps ==
  ASSUME RefreshInv, Fire \/ Rearm
  PROVE  RefreshInv'
<1>1. page \in Page /\ page.token \in Rights /\ page.armed \in Rights
  BY NoRightIsARight DEF RefreshInv, TypeOK, Page
<1>2. ASSUME NEW token \in Rights, requests' \subseteq requests \cup Load("timer", token) PROVE Moves
  BY <1>2, LoadsAreRequests, NamesDiffer DEF Moves, JustMade
<1>3. Moves
  BY <1>1, <1>2 DEF Fire, Rearm
<1>4. page' \in Page /\ Placed(page', logins)
  <2>1. page.token \in {0, 1}
    BY <1>1 DEF Page
  <2>2. page' = page \/ page' = [page EXCEPT !.armed = page.token]
    BY DEF Fire, Rearm
  <2> QED
    BY <1>1, <2>1, <2>2 DEF Page, Placed, PagePlaced, RefreshInv
<1>5. UNCHANGED server /\ Forgets
  BY OverForgets DEF Fire, Rearm
<1> QED
  BY <1>3, <1>4, <1>5, PageStep

-----------------------------------------------------------------------------
(* Answers *)

LEMMA CallerOf == RefreshInv => \A r \in requests : r.by \in Callers
BY DEF RefreshInv, TypeOK, Request

LEMMA OutcomesArePages ==
  ASSUME NEW p \in Page, NEW n, Placed(p, n), NEW by \in Callers
  PROVE  /\ Ended(by, p) \in Page /\ Placed(Ended(by, p), n)
         /\ Failed(by, p) \in Page /\ Placed(Failed(by, p), n)
<1>1. Ended(by, p) \in Page /\ Placed(Ended(by, p), n)
  BY DEF Ended, Page, Placed
<1>2. ASSUME NEW q, q = [p EXCEPT !.draft = Reopened(p.draft, by), !.unlock = Reopened(p.unlock, by)]
      PROVE  q \in Page /\ Placed(q, n)
  <2>1. PICK d : d = Reopened(p.draft, by)
    OBVIOUS
  <2>2. PICK u : u = Reopened(p.unlock, by)
    OBVIOUS
  <2>3. d \in {"no", "open"} \cup Saves /\ u \in {"no", "open"} \cup Unlocks
    BY <2>1, <2>2 DEF Reopened, Page
  <2>4. d # "no" => p.draft # "no"
    BY <2>1, NamesDiffer DEF Reopened
  <2>5. q = [p EXCEPT !.draft = d, !.unlock = u]
    BY <1>2, <2>1, <2>2
  <2>6. q \in Page
    BY <2>3, <2>5 DEF Page
  <2>7. q.draft = d /\ q.right = p.right /\ q.leaving = p.leaving
    BY <2>5 DEF Page
  <2> QED
    BY <2>4, <2>6, <2>7 DEF Placed
<1>3. Failed(by, p) \in Page /\ Placed(Failed(by, p), n)
  <2>1. CASE by = "mutate"
    BY <2>1 DEF Failed, Page, Placed
  <2>2. CASE by # "mutate" /\ by \in {"timer"} \cup Agains
    BY <2>2 DEF Failed, Page, Placed
  <2>3. CASE by # "mutate" /\ by \notin {"timer"} \cup Agains
    <3>1. Failed(by, p) =
            [p EXCEPT !.draft = Reopened(p.draft, by), !.unlock = Reopened(p.unlock, by)]
      BY <2>3 DEF Failed
    <3> QED
      BY <1>2, <3>1
  <2> QED
    BY <2>1, <2>2, <2>3
<1> QED
  BY <1>1, <1>3

LEMMA SettleKeeps ==
  ASSUME RefreshInv, NEW r \in requests, NEW p \in Page, Placed(p, logins),
         Settle(r, p), UNCHANGED server
  PROVE  RefreshInv'
<1>1. Moves /\ Forgets
  BY OverForgets DEF Settle, Moves
<1>2. page' \in Page /\ Placed(page', logins)
  BY OutcomesArePages, CallerOf DEF Settle
<1> QED
  BY <1>1, <1>2, PageStep

LEMMA FailKeeps ==
  ASSUME RefreshInv, NEW r \in requests, Fail(r)
  PROVE  RefreshInv'
<1>0. page \in Page /\ Placed(page, logins)
  BY DEF RefreshInv, TypeOK, PagePlaced
<1>1. CASE r.kind = "caps" /\ r.by \notin Unlocks
  BY <1>0, <1>1, SettleKeeps DEF Fail
<1>2. CASE ~(r.kind = "caps" /\ r.by \notin Unlocks)
  <2>1. Forsake(r) /\ page' = Failed(r.by, page) /\ UNCHANGED server
    BY <1>2 DEF Fail
  <2>2. ASSUME NEW q \in requests' PROVE q \in requests \/ Forsaken(q)
    <3>1. PICK p \in requests \ {r} :
            q = IF p.by = r.by /\ r.by \in Chains THEN [p EXCEPT !.by = "nobody"] ELSE p
      BY <2>1 DEF Forsake
    <3>2. CASE p.by = r.by /\ r.by \in Chains
      <4>1. p.kind \notin Writes
        BY <3>1, <3>2 DEF RefreshInv, Calls, WriteAlone
      <4>2. p.kind \in Loads
        BY <4>1 DEF RefreshInv, TypeOK, Request
      <4> QED
        BY <3>1, <3>2, <4>2 DEF Forsaken
    <3>3. CASE ~(p.by = r.by /\ r.by \in Chains)
      BY <3>1, <3>3
    <3> QED
      BY <3>2, <3>3
  <2>3. Moves /\ Forgets
    BY <2>1, <2>2, OverForgets DEF Moves, Forsake
  <2>4. page' \in Page /\ Placed(page', logins)
    BY <1>0, <2>1, OutcomesArePages, CallerOf
  <2> QED
    BY <2>1, <2>3, <2>4, PageStep
<1> QED
  BY <1>1, <1>2

LEMMA DeliverLoadKeeps ==
  ASSUME RefreshInv, NEW r \in requests, r.got # Unknown,
         DeliverUnlock(r) \/ DeliverLoad(r), UNCHANGED server
  PROVE  RefreshInv'
<1>0. page \in Page /\ r \in Request /\ Fits(r.kind, r.got, version)
      /\ version \in Nat /\ 1 \in Rights
      /\ Placed(page, logins)
  BY NoRightIsARight DEF RefreshInv, TypeOK, Versions, Calls, AnsweredWell, PagePlaced
<1>1. CASE DeliverUnlock(r)
  <2>1. Moves
    BY <1>1 DEF DeliverUnlock, Moves
  <2>2. page' \in Page /\ Placed(page', logins)
    <3>1. CASE r.got = 1
      BY <1>0, <1>1, <3>1 DEF DeliverUnlock, Page, Placed
    <3>2. CASE r.got # 1
      BY <1>0, <1>1, <3>2, OutcomesArePages, CallerOf DEF DeliverUnlock
    <3> QED
      BY <3>1, <3>2
  <2>3. Forgets
    BY <1>1, OverForgets DEF DeliverUnlock
  <2> QED
    BY <2>1, <2>2, <2>3, PageStep
<1>2. CASE DeliverLoad(r)
  <2>1. PICK p : p = IF r.kind = "spots" THEN [page EXCEPT !.list = r.got, !.error = FALSE]
                                         ELSE [page EXCEPT !.right = r.got]
    OBVIOUS
  <2>2. Settle(r, p) /\ r.kind \in Loads
    BY <1>2, <2>1 DEF DeliverLoad
  <2>3. CASE r.kind = "spots"
    <3>1. r.got \in Versions
      BY <1>0, <2>3 DEF Fits, Writes, Versions
    <3>2. p = [page EXCEPT !.list = r.got, !.error = FALSE]
      BY <2>1, <2>3
    <3>3. p \in Page /\ Placed(p, logins)
      BY <1>0, <3>1, <3>2 DEF Page, Placed
    <3> QED
      BY <2>2, <3>3, SettleKeeps
  <2>4. CASE r.kind = "caps"
    <3>1. r.got \in Rights
      BY <1>0, <2>4 DEF Fits, Writes
    <3>2. p = [page EXCEPT !.right = r.got]
      BY <2>1, <2>4
    <3>3. p \in Page /\ Placed(p, logins)
      BY <1>0, <3>1, <3>2 DEF Page, Placed
    <3> QED
      BY <2>2, <3>3, SettleKeeps
  <2> QED
    BY <2>2, <2>3, <2>4 DEF Loads
<1> QED
  BY <1>1, <1>2

LEMMA DeliverWriteKeeps ==
  ASSUME RefreshInv, NEW r \in requests, r.got # Unknown, DeliverWrite(r), UNCHANGED server
  PROVE  RefreshInv'
<1>0. /\ page \in Page /\ r \in Request /\ r.kind \in Writes /\ Fits(r.kind, r.got, version)
      /\ version \in Nat /\ version' = version /\ Placed(page, logins)
      /\ made \in [Chains -> Nat] /\ requests \subseteq Request
  BY DEF RefreshInv, TypeOK, Versions, Calls, AnsweredWell, DeliverWrite, PagePlaced, server
<1>1. CASE r.got = Refused
  <2>1. page' = Failed(r.by, page) /\ requests' = requests \ {r} /\ made' = made
    BY <1>1 DEF DeliverWrite
  <2>2. Moves /\ Forgets
    BY <2>1, OverForgets DEF Moves
  <2>3. page' \in Page /\ Placed(page', logins)
    BY <1>0, <2>1, OutcomesArePages, CallerOf
  <2> QED
    BY <2>2, <2>3, PageStep
<1>2. CASE r.got # Refused
  <2>1. /\ requests' = (requests \ {r}) \cup Load(r.by, TokenOf(r))
        /\ page' = [page EXCEPT !.leaving = IF r.kind = "logout" THEN "home" ELSE page.leaving]
        /\ made' = [made EXCEPT ![r.by] = r.got]
    BY <1>2 DEF DeliverWrite
  <2>2. r.by \in Chains /\ \A p \in requests : p.by = r.by => p = r
    BY <1>0 DEF RefreshInv, Calls, WriteAlone
  <2>3. r.by \in Callers /\ TokenOf(r) \in Rights
    BY <1>0, NoRightIsARight DEF Request, TokenOf
  <2>4. \A q \in Load(r.by, TokenOf(r)) :
           q \in Request /\ q.by = r.by /\ q.kind \in Loads /\ q.got = Unknown
    BY <2>3, LoadsAreRequests
  <2>5. r.got \in 0..version
    BY <1>0, <1>2 DEF Fits, Writes
  <2>6. made' \in [Chains -> Nat] /\ made'[r.by] = r.got
        /\ \A c \in Chains : c # r.by => made'[c] = made[c]
    BY <1>0, <2>1, <2>2, <2>5
  <2>7. ASSUME NEW q \in requests' PROVE AnsweredWell(q)'
    BY <1>0, <2>1, <2>4 DEF RefreshInv, Calls, AnsweredWell
  <2>8. ASSUME NEW w \in requests', w.kind \in Writes
        PROVE  w.by \in Chains /\ \A q \in requests' : q.by = w.by => q = w
    <3>1. w \in requests /\ w # r
      BY <2>1, <2>4, <2>8 DEF Loads, Writes
    <3>2. w.by \in Chains /\ \A p \in requests : p.by = w.by => p = w
      BY <2>8, <3>1 DEF RefreshInv, Calls, WriteAlone
    <3>3. w.by # r.by
      BY <2>2, <3>1
    <3> QED
      BY <2>1, <2>4, <3>2, <3>3
  <2>9. Calls'
    BY <2>7, <2>8 DEF Calls, WriteAlone
  <2>10. MadeBefore'
    BY <1>0, <2>5, <2>6 DEF RefreshInv, MadeBefore
  <2>11. ASSUME NEW q \in requests', q.by \in Chains, q.kind = "spots", q.got # Unknown
         PROVE  q.got >= made'[q.by]
    <3>1. q \in requests /\ q # r
      BY <2>1, <2>4, <2>11
    <3>2. q.by # r.by
      BY <2>2, <3>1
    <3> QED
      BY <2>6, <2>11, <3>1, <3>2 DEF RefreshInv, ReloadSeesChange
  <2>12. page' \in Page /\ Placed(page', logins)
    BY <1>0, <2>1 DEF Page, Placed
  <2>13. requests' \subseteq Request
    BY <1>0, <2>1, <2>4
  <2>14. TypeOK'
    BY <2>6, <2>12, <2>13 DEF RefreshInv, TypeOK, server, Versions
  <2>15. ReloadSeesChange' /\ PagePlaced'
    BY <2>11, <2>12 DEF ReloadSeesChange, PagePlaced, server
  <2> QED
    BY <2>9, <2>10, <2>14, <2>15 DEF RefreshInv
<1> QED
  BY <1>1, <1>2

-----------------------------------------------------------------------------
(* The reader *)

LEMMA ClickKeeps ==
  ASSUME RefreshInv, NEW p \in Page, Placed(p, logins), NEW new,
         Click(p, new), \A q \in new : JustMade(q)
  PROVE  RefreshInv'
<1>1. page' = p /\ requests' = requests \cup new /\ made' = made /\ UNCHANGED server
  BY DEF Click
<1>2. Moves /\ Forgets
  BY <1>1, OverForgets DEF Moves
<1> QED
  BY <1>1, <1>2, PageStep

\* A click that makes the first request of a call that writes, when no other
\* request is of that call.
LEMMA WriteClickKeeps ==
  ASSUME RefreshInv, NEW p \in Page, Placed(p, logins),
         NEW by \in Chains, NEW kind \in Writes, NEW right \in Rights,
         Click(p, FirstOf(by, kind, right)), \A w \in requests : w.by # by
  PROVE  RefreshInv'
<1>1. PICK q : q = New(by, kind, right)
  OBVIOUS
<1>2. q \in Request /\ q.kind = kind /\ q.by = by /\ q.got = Unknown
  BY <1>1, NamesDiffer DEF New, Request
<1>3. page' = p /\ requests' = requests \cup {q} /\ made' = made /\ UNCHANGED server
  BY <1>1 DEF Click, FirstOf
<1>4. version' = version
  BY <1>3 DEF server
<1>5. ASSUME NEW w \in requests' PROVE AnsweredWell(w)'
  BY <1>2, <1>3, <1>4 DEF RefreshInv, Calls, AnsweredWell
<1>6. ASSUME NEW w \in requests', w.kind \in Writes
      PROVE  w.by \in Chains /\ \A v \in requests' : v.by = w.by => v = w
  <2>1. CASE w = q
    BY <1>2, <1>3, <2>1
  <2>2. CASE w # q
    <3>1. w \in requests
      BY <1>3, <2>2
    <3>2. w.by \in Chains /\ \A v \in requests : v.by = w.by => v = w
      BY <1>6, <3>1 DEF RefreshInv, Calls, WriteAlone
    <3> QED
      BY <1>2, <1>3, <3>1, <3>2
  <2> QED
    BY <2>1, <2>2
<1>7. Calls'
  BY <1>5, <1>6 DEF Calls, WriteAlone
<1>8. ReloadSeesChange' /\ MadeBefore'
  BY <1>2, <1>3, <1>4 DEF RefreshInv, ReloadSeesChange, MadeBefore
<1>9. TypeOK'
  BY <1>2, <1>3 DEF RefreshInv, TypeOK, server
<1> QED
  BY <1>3, <1>7, <1>8, <1>9 DEF RefreshInv, PagePlaced, Placed, server

LEMMA MutateKeeps ==
  ASSUME RefreshInv, BusyIsMutate, NEW kind \in Writes, NEW right \in Rights, Mutate(kind, right)
  PROVE  RefreshInv'
<1>1. PICK p : p = [page EXCEPT !.busy = TRUE]
  OBVIOUS
<1>2. p \in Page /\ Placed(p, logins)
  BY <1>1 DEF RefreshInv, TypeOK, Page, PagePlaced, Placed
<1>3. Click(p, FirstOf("mutate", kind, right))
  BY <1>1 DEF Mutate, OnPage
<1>4. \A w \in requests : w.by # "mutate"
  BY DEF Mutate, BusyIsMutate, Mutating
<1> QED
  BY <1>2, <1>3, <1>4, NamesDiffer, WriteClickKeeps

LEMMA RightsOfButtons ==
  ASSUME RefreshInv
  PROVE  /\ page \in Page /\ page.token \in Rights
         /\ MayEdit => page.right \in Rights
         /\ MayEdit \/ page.draft # "no" => Carried \in Rights
BY NoRightIsARight DEF RefreshInv, TypeOK, Page, PagePlaced, Placed, MayEdit, Carried, Unknown

\* A click that changes which dialog is open, or where the page goes, alone.
LEMMA DialogKeeps ==
  ASSUME RefreshInv,
         OpenDraft \/ CloseDraft \/ OpenUnlock \/ CloseUnlock \/ FollowSignsIn
  PROVE  RefreshInv'
<1>0. page \in Page /\ Placed(page, logins) /\ (MayEdit => page.right \in Rights)
  BY RightsOfButtons DEF RefreshInv, PagePlaced
<1>1. ASSUME NEW p \in Page, Click(p, {}), Placed(p, logins)
      PROVE  RefreshInv'
  BY <1>1, ClickKeeps
<1>2. ASSUME NEW b \in {"no", "open"}
      PROVE  /\ [page EXCEPT !.draft = b] \in Page
             /\ b = "no" \/ MayEdit => Placed([page EXCEPT !.draft = b], logins)
             /\ [page EXCEPT !.unlock = b] \in Page /\ Placed([page EXCEPT !.unlock = b], logins)
  BY <1>0 DEF Page, Placed
<1>3. /\ [page EXCEPT !.leaving = "google"] \in Page
      /\ logins < MaxSession => Placed([page EXCEPT !.leaving = "google"], logins)
  BY <1>0 DEF Page, Placed
<1>4. CASE OpenDraft
  BY <1>1, <1>2, <1>4 DEF OpenDraft, OnPage
<1>5. CASE CloseDraft
  BY <1>1, <1>2, <1>5 DEF CloseDraft
<1>6. CASE OpenUnlock
  BY <1>1, <1>2, <1>6 DEF OpenUnlock, OnPage
<1>7. CASE CloseUnlock
  BY <1>1, <1>2, <1>7 DEF CloseUnlock
<1>8. CASE FollowSignsIn
  BY <1>1, <1>3, <1>8 DEF FollowSignsIn, OnPage
<1> QED
  BY <1>4, <1>5, <1>6, <1>7, <1>8

LEMMA SaveKeeps ==
  ASSUME RefreshInv, Save
  PROVE  RefreshInv'
<1>1. PICK c \in Unused(Saves) : Click([page EXCEPT !.draft = c], FirstOf(c, "add", Carried))
  BY DEF Save
<1>2. c \in Saves /\ c \in Chains /\ \A w \in requests : w.by # c
  BY <1>1, NamesDiffer DEF Unused, UnderWay, Chains
<1>3. page \in Page /\ Placed(page, logins) /\ page.draft # "no" /\ Carried \in Rights
  BY RightsOfButtons DEF Save, RefreshInv, PagePlaced
<1>4. PICK p : p = [page EXCEPT !.draft = c]
  OBVIOUS
<1>5. p \in Page /\ Placed(p, logins)
  BY <1>2, <1>3, <1>4 DEF Page, Placed
<1>6. Click(p, FirstOf(c, "add", Carried)) /\ "add" \in Writes
  BY <1>1, <1>4 DEF Writes
<1> QED
  BY <1>2, <1>3, <1>5, <1>6, WriteClickKeeps

LEMMA UnlockKeeps ==
  ASSUME RefreshInv, NEW token \in {0, 1}, Unlock(token)
  PROVE  RefreshInv'
<1>1. PICK c \in Unused(Unlocks) : Click([page EXCEPT !.unlock = c], {New(c, "caps", token)})
  BY DEF Unlock
<1>2. New(c, "caps", token) \in Load(c, token)
  BY DEF Load, Loads
<1>3. c \in Unlocks /\ c \in Callers /\ c \notin Chains
  BY <1>1, NamesDiffer DEF Unused
<1>4. JustMade(New(c, "caps", token))
  <2>1. token \in Rights
    BY NoRightIsARight
  <2>2. PICK q : q = New(c, "caps", token)
    OBVIOUS
  <2>3. q \in Request /\ q.by = c /\ q.kind \in Loads /\ q.got = Unknown
    BY <1>2, <1>3, <2>1, <2>2, LoadsAreRequests
  <2> QED
    BY <1>3, <2>2, <2>3 DEF JustMade
<1>5. PICK p : p = [page EXCEPT !.unlock = c]
  OBVIOUS
<1>6. p \in Page /\ Placed(p, logins)
  BY <1>3, <1>5 DEF RefreshInv, TypeOK, PagePlaced, Page, Placed
<1> QED
  BY <1>1, <1>4, <1>5, <1>6, ClickKeeps

LEMMA ReaderKeeps ==
  ASSUME RefreshInv, BusyIsMutate, TryAgain \/ Follow \/ RetryJobs \/ SignOut
  PROVE  RefreshInv'
<1>0. /\ page \in Page /\ page.token \in Rights
      /\ MayEdit => page.right \in Rights
      /\ MayEdit => Carried \in Rights
      /\ Placed(page, logins)
  BY RightsOfButtons DEF RefreshInv, PagePlaced
<1>1. CASE TryAgain
  <2>1. PICK c \in Agains : Click(page, Load(c, page.token))
    BY <1>1 DEF TryAgain, OnPage, Unused
  <2>2. \A q \in Load(c, page.token) : JustMade(q)
    BY <1>0, LoadsAreRequests, NamesDiffer DEF JustMade
  <2> QED
    BY <1>0, <2>1, <2>2, ClickKeeps
<1>2. CASE Follow
  BY <1>0, <1>2, MutateKeeps DEF Follow, Writes
<1>3. CASE RetryJobs
  BY <1>0, <1>3, MutateKeeps DEF RetryJobs, Writes
<1>4. CASE SignOut
  BY <1>0, <1>4, MutateKeeps DEF SignOut, Writes
<1> QED
  BY <1>1, <1>2, <1>3, <1>4

LEMMA LeaveKeeps ==
  ASSUME RefreshInv, Leave
  PROVE  RefreshInv'
<1>0. /\ page' = FreshPage /\ requests' = Load("timer", 0) /\ made' = [c \in Chains |-> 0]
      /\ UNCHANGED <<instance, up, version>>
  BY DEF Leave, Open
<1>1. FreshPage \in Page
  BY DEF FreshPage, Page
<1>2. logins' \in Rights /\ session' \in Rights
  <2>1. CASE page.leaving = "google"
    <3>1. logins \in 0..MaxSession /\ logins < MaxSession /\ MaxSession \in Nat /\ session \in 0..MaxSession
      BY <2>1, RefreshAssumption DEF RefreshInv, TypeOK, PagePlaced, Placed, Rights
    <3>2. logins' = logins + 1 /\ session' \in {session, logins + 1}
      BY <2>1 DEF Leave
    <3> QED
      BY <3>1, <3>2 DEF Rights
  <2>2. CASE page.leaving # "google"
    BY <2>2 DEF Leave, RefreshInv, TypeOK
  <2> QED
    BY <2>1, <2>2
<1>3. \A q \in requests' : q \in Request /\ q.by = "timer" /\ q.kind \in Loads /\ q.got = Unknown
  BY <1>0, LoadsAreRequests, NoRightIsARight, NamesDiffer
<1>4. version' \in Nat /\ made' \in [Chains -> Nat] /\ MadeBefore'
  BY <1>0 DEF RefreshInv, TypeOK, Versions, MadeBefore
<1>5. instance' \in Instances /\ up' \in BOOLEAN
  BY <1>0 DEF RefreshInv, TypeOK
<1>6. TypeOK'
  BY <1>0, <1>1, <1>2, <1>3, <1>4, <1>5 DEF TypeOK, Versions
<1>7. Calls' /\ ReloadSeesChange'
  BY <1>3, NamesDiffer DEF Calls, AnsweredWell, WriteAlone, ReloadSeesChange, Loads, Writes
<1>8. PagePlaced'
  BY <1>0 DEF PagePlaced, Placed, FreshPage
<1> QED
  BY <1>4, <1>6, <1>7, <1>8 DEF RefreshInv

-----------------------------------------------------------------------------
(* The steps *)

LEMMA RefreshInvStep == RefreshInv /\ BusyIsMutate /\ [Next]_vars => RefreshInv'
<1> SUFFICES ASSUME RefreshInv, BusyIsMutate, [Next]_vars PROVE RefreshInv'
  OBVIOUS
<1>1. ASSUME NEW r \in requests, Serve(r) \/ Deliver(r) \/ Fail(r) PROVE RefreshInv'
  BY <1>1, ServeKeeps, FailKeeps, DeliverWriteKeeps, DeliverLoadKeeps DEF Deliver
<1>2. CASE Fire \/ Rearm
  BY <1>2, TimerKeeps
<1>3. CASE ChangeElsewhere \/ Turn
  BY <1>3, SurroundingsKeep
<1>4. CASE TryAgain \/ Follow \/ RetryJobs \/ SignOut
  BY <1>4, ReaderKeeps
<1>5. CASE OpenDraft \/ CloseDraft \/ OpenUnlock \/ CloseUnlock \/ FollowSignsIn
  BY <1>5, DialogKeeps
<1>6. CASE Save \/ \E token \in {0, 1} : Unlock(token)
  BY <1>6, SaveKeeps, UnlockKeeps
<1>7. CASE Leave
  BY <1>7, LeaveKeeps
<1>8. CASE UNCHANGED vars
  <2>1. UNCHANGED <<instance, up, version, session, logins, page, requests, made>>
    BY <1>8 DEF vars
  <2>2. TypeOK'
    BY <2>1 DEF RefreshInv, TypeOK
  <2>3. Calls' /\ ReloadSeesChange' /\ PagePlaced' /\ MadeBefore'
    BY <2>1 DEF RefreshInv, Calls, AnsweredWell, WriteAlone, ReloadSeesChange, PagePlaced, MadeBefore
  <2> QED
    BY <2>2, <2>3 DEF RefreshInv
<1> QED
  BY <1>1, <1>2, <1>3, <1>4, <1>5, <1>6, <1>7, <1>8 DEF Next

-----------------------------------------------------------------------------
(* The buttons wait for mutate *)

LEMMA OutcomeIsBusy ==
  ASSUME NEW p \in Page, NEW by
  PROVE  /\ Ended(by, p).busy <=> p.busy /\ by # "mutate"
         /\ Failed(by, p).busy <=> p.busy /\ by # "mutate"
<1>1. PICK q : q = [p EXCEPT !.busy = FALSE]
  OBVIOUS
<1>2. q.busy = FALSE
  BY <1>1 DEF Page
<1>3. ASSUME NEW d, NEW u
      PROVE  /\ [p EXCEPT !.draft = d].busy = p.busy
             /\ [p EXCEPT !.draft = d, !.unlock = u].busy = p.busy
             /\ [p EXCEPT !.error = TRUE].busy = p.busy
  BY DEF Page
<1>4. CASE by = "mutate"
  BY <1>1, <1>2, <1>4 DEF Ended, Failed
<1>5. CASE by # "mutate"
  <2>1. Ended(by, p) = p \/ Ended(by, p) = [p EXCEPT !.draft = "no"]
    BY <1>5 DEF Ended
  <2>2. \/ Failed(by, p) = [p EXCEPT !.error = TRUE]
        \/ \E d, u : Failed(by, p) = [p EXCEPT !.draft = d, !.unlock = u]
    BY <1>5 DEF Failed
  <2> QED
    <3>1. Ended(by, p).busy = p.busy
      <4>1. CASE Ended(by, p) = p
        BY <4>1
      <4>2. CASE Ended(by, p) = [p EXCEPT !.draft = "no"]
        BY <1>3, <4>2
      <4> QED
        BY <2>1, <4>1, <4>2
    <3>2. Failed(by, p).busy = p.busy
      <4>1. CASE Failed(by, p) = [p EXCEPT !.error = TRUE]
        BY <1>3, <4>1
      <4>2. CASE \E d, u : Failed(by, p) = [p EXCEPT !.draft = d, !.unlock = u]
        <5>1. PICK d, u : Failed(by, p) = [p EXCEPT !.draft = d, !.unlock = u]
          BY <4>2
        <5> QED
          BY <1>3, <5>1
      <4> QED
        BY <2>2, <4>1, <4>2
    <3> QED
      BY <1>5, <3>1, <3>2
<1> QED
  BY <1>4, <1>5

\* The last request of mutate takes the state away.
LEMMA SettleBusy ==
  ASSUME BusyIsMutate, NEW r \in requests, NEW p \in Page, p.busy <=> page.busy, Settle(r, p)
  PROVE  BusyIsMutate'
<1>1. requests' = requests \ {r}
  BY DEF Settle
<1>2. CASE By(r.by) = {r}
  <2>1. page' = Ended(r.by, p)
    BY <1>2 DEF Settle
  <2>2. \A q \in requests : q.by = r.by => q = r
    BY <1>2 DEF By
  <2>3. Mutating' <=> Mutating /\ r.by # "mutate"
    BY <1>1, <2>2 DEF Mutating
  <2> QED
    BY <2>1, <2>3, OutcomeIsBusy DEF BusyIsMutate
<1>3. CASE By(r.by) # {r}
  <2>1. page' = p
    BY <1>3 DEF Settle
  <2>2. PICK q \in requests : q # r /\ q.by = r.by
    BY <1>3 DEF By
  <2>3. Mutating' <=> Mutating
    BY <1>1, <2>2 DEF Mutating
  <2> QED
    BY <2>1, <2>3 DEF BusyIsMutate
<1> QED
  BY <1>2, <1>3

LEMMA FailBusy ==
  ASSUME RefreshInv, BusyIsMutate, NEW r \in requests, Fail(r)
  PROVE  BusyIsMutate'
<1>0. page \in Page
  BY DEF RefreshInv, TypeOK
<1>1. CASE r.kind = "caps" /\ r.by \notin Unlocks
  BY <1>0, <1>1, SettleBusy DEF Fail
<1>2. CASE ~(r.kind = "caps" /\ r.by \notin Unlocks)
  <2>1. Forsake(r) /\ page' = Failed(r.by, page)
    BY <1>2 DEF Fail
  <2>2. page'.busy <=> page.busy /\ r.by # "mutate"
    BY <1>0, <2>1, OutcomeIsBusy
  <2>3. \A q \in requests : q \in Request
    BY DEF RefreshInv, TypeOK
  <2>4. CASE r.by \in Chains
    <3>1. ASSUME NEW q \in requests'
          PROVE  q.by = "nobody" \/ (q \in requests \ {r} /\ q.by # r.by)
      <4>1. PICK p \in requests \ {r} :
              q = IF p.by = r.by THEN [p EXCEPT !.by = "nobody"] ELSE p
        BY <2>1, <2>4 DEF Forsake
      <4>2. p \in Request
        BY <2>3
      <4> QED
        BY <4>1, <4>2 DEF Request
    <3>2. ASSUME NEW p \in requests, p.by # r.by PROVE p \in requests'
      BY <2>1, <3>2 DEF Forsake
    <3>3. Mutating' <=> Mutating /\ r.by # "mutate"
      BY <3>1, <3>2 DEF Mutating
    <3> QED
      BY <2>2, <3>3 DEF BusyIsMutate
  <2>5. CASE r.by \notin Chains
    <3>1. requests' = requests \ {r}
      BY <2>1, <2>5 DEF Forsake
    <3>2. Mutating' <=> Mutating
      BY <2>5, <3>1, NamesDiffer DEF Mutating
    <3> QED
      BY <2>2, <2>5, <3>2, NamesDiffer DEF BusyIsMutate
  <2> QED
    BY <2>4, <2>5
<1> QED
  BY <1>1, <1>2

LEMMA DeliverWriteBusy ==
  ASSUME RefreshInv, BusyIsMutate, NEW r \in requests, DeliverWrite(r)
  PROVE  BusyIsMutate'
<1>0. page \in Page /\ r \in Request
  BY DEF RefreshInv, TypeOK
<1>1. \A q \in requests : q.by = r.by => q = r
  BY DEF RefreshInv, Calls, WriteAlone, DeliverWrite
<1>2. CASE r.got = Refused
  <2>1. page' = Failed(r.by, page) /\ requests' = requests \ {r}
    BY <1>2 DEF DeliverWrite
  <2>2. Mutating' <=> Mutating /\ r.by # "mutate"
    BY <1>1, <2>1 DEF Mutating
  <2> QED
    BY <1>0, <2>1, <2>2, OutcomeIsBusy DEF BusyIsMutate
<1>3. CASE r.got # Refused
  <2>1. /\ requests' = (requests \ {r}) \cup Load(r.by, TokenOf(r))
        /\ page' = [page EXCEPT !.leaving = IF r.kind = "logout" THEN "home" ELSE page.leaving]
    BY <1>3 DEF DeliverWrite
  <2>2. New(r.by, "spots", TokenOf(r)) \in Load(r.by, TokenOf(r))
    BY DEF Load, Loads
  <2>3. r.by \in Callers /\ TokenOf(r) \in Rights
    BY <1>0, NoRightIsARight DEF Request, TokenOf
  <2>4. \A q \in Load(r.by, TokenOf(r)) : q.by = r.by
    BY <2>3, LoadsAreRequests
  <2>5. Mutating' <=> Mutating
    BY <2>1, <2>2, <2>4 DEF Mutating
  <2>6. page'.busy = page.busy
    BY <1>0, <2>1 DEF Page
  <2> QED
    BY <2>5, <2>6 DEF BusyIsMutate
<1> QED
  BY <1>2, <1>3

LEMMA DeliverBusy ==
  ASSUME RefreshInv, BusyIsMutate, NEW r \in requests, Deliver(r)
  PROVE  BusyIsMutate'
<1>0. page \in Page
  BY DEF RefreshInv, TypeOK
<1>1. CASE DeliverWrite(r)
  BY <1>1, DeliverWriteBusy
<1>2. CASE DeliverUnlock(r)
  <2>1. r.by # "mutate" /\ requests' = requests \ {r}
    BY <1>2, NamesDiffer DEF DeliverUnlock
  <2>2. page'.busy <=> page.busy
    <3>1. CASE r.got = 1
      <4>1. page' = [page EXCEPT !.token = 1, !.right = 1, !.unlock = "no"]
        BY <1>2, <3>1 DEF DeliverUnlock
      <4> QED
        BY <1>0, <4>1 DEF Page
    <3>2. CASE r.got # 1
      <4>1. page' = Failed(r.by, page)
        BY <1>2, <3>2 DEF DeliverUnlock
      <4> QED
        BY <1>0, <2>1, <4>1, OutcomeIsBusy
    <3> QED
      BY <3>1, <3>2
  <2>3. Mutating' <=> Mutating
    BY <2>1 DEF Mutating
  <2> QED
    BY <2>2, <2>3 DEF BusyIsMutate
<1>3. CASE DeliverLoad(r)
  <2>1. PICK p : p = IF r.kind = "spots" THEN [page EXCEPT !.list = r.got, !.error = FALSE]
                                         ELSE [page EXCEPT !.right = r.got]
    OBVIOUS
  <2>2. Settle(r, p)
    BY <1>3, <2>1 DEF DeliverLoad
  <2>3. p \in Page /\ (p.busy <=> page.busy)
    <3>1. Fits(r.kind, r.got, version) /\ version \in Nat
      BY DEF RefreshInv, TypeOK, Versions, Calls, AnsweredWell, Deliver
    <3>2. CASE r.kind = "spots"
      <4>1. r.got \in Versions
        BY <3>1, <3>2 DEF Fits, Writes, Versions
      <4>2. p = [page EXCEPT !.list = r.got, !.error = FALSE]
        BY <2>1, <3>2
      <4> QED
        BY <1>0, <4>1, <4>2 DEF Page
    <3>3. CASE r.kind = "caps"
      <4>1. r.got \in Rights
        BY <3>1, <3>3 DEF Fits, Writes
      <4>2. p = [page EXCEPT !.right = r.got]
        BY <2>1, <3>3
      <4> QED
        BY <1>0, <4>1, <4>2 DEF Page
    <3> QED
      BY <1>3, <3>2, <3>3 DEF DeliverLoad, Loads
  <2> QED
    BY <2>2, <2>3, SettleBusy
<1> QED
  BY <1>1, <1>2, <1>3 DEF Deliver

\* A click that asks for nothing in mutate's name, and leaves the buttons alone.
LEMMA ClickBusy ==
  ASSUME BusyIsMutate, NEW p, p.busy <=> page.busy, NEW new, \A q \in new : q.by # "mutate",
         Click(p, new)
  PROVE  BusyIsMutate'
<1>1. page' = p /\ requests' = requests \cup new
  BY DEF Click
<1>2. Mutating' <=> Mutating
  BY <1>1 DEF Mutating
<1> QED
  BY <1>1, <1>2 DEF BusyIsMutate

LEMMA MutateBusy ==
  ASSUME RefreshInv, NEW kind, NEW right, Mutate(kind, right)
  PROVE  BusyIsMutate'
<1>1. PICK q : q = New("mutate", kind, right)
  OBVIOUS
<1>2. q.by = "mutate"
  BY <1>1 DEF New
<1>3. page' = [page EXCEPT !.busy = TRUE] /\ requests' = requests \cup {q}
  BY <1>1 DEF Mutate, OnPage, Click, FirstOf
<1>4. page'.busy = TRUE
  BY <1>3 DEF RefreshInv, TypeOK, Page
<1>5. Mutating'
  BY <1>2, <1>3 DEF Mutating
<1> QED
  BY <1>4, <1>5 DEF BusyIsMutate

LEMMA ReaderBusy ==
  ASSUME RefreshInv, BusyIsMutate,
         \/ TryAgain \/ Follow \/ RetryJobs \/ SignOut \/ Save
         \/ \E token \in {0, 1} : Unlock(token)
  PROVE  BusyIsMutate'
<1>0. page \in Page /\ page.token \in Rights
  BY RightsOfButtons
<1>1. CASE TryAgain
  <2>1. PICK c \in Agains : Click(page, Load(c, page.token))
    BY <1>1 DEF TryAgain, OnPage, Unused
  <2>2. \A q \in Load(c, page.token) : q.by # "mutate"
    BY <1>0, LoadsAreRequests, NamesDiffer
  <2> QED
    BY <2>1, <2>2, ClickBusy
<1>2. CASE Follow \/ RetryJobs \/ SignOut
  BY <1>2, MutateBusy DEF Follow, RetryJobs, SignOut
<1>3. CASE Save
  <2>1. PICK c \in Saves : Click([page EXCEPT !.draft = c], FirstOf(c, "add", Carried))
    BY <1>3 DEF Save, Unused
  <2>2. \A q \in FirstOf(c, "add", Carried) : q.by # "mutate"
    BY NamesDiffer DEF FirstOf, New
  <2>3. [page EXCEPT !.draft = c].busy = page.busy
    BY <1>0 DEF Page
  <2> QED
    BY <2>1, <2>2, <2>3, ClickBusy
<1>4. ASSUME NEW token \in {0, 1}, Unlock(token) PROVE BusyIsMutate'
  <2>1. PICK c \in Unlocks : Click([page EXCEPT !.unlock = c], {New(c, "caps", token)})
    BY <1>4 DEF Unlock, Unused
  <2>2. \A q \in {New(c, "caps", token)} : q.by # "mutate"
    BY NamesDiffer DEF New
  <2>3. [page EXCEPT !.unlock = c].busy = page.busy
    BY <1>0 DEF Page
  <2> QED
    BY <2>1, <2>2, <2>3, ClickBusy
<1> QED
  BY <1>1, <1>2, <1>3, <1>4

LEMMA DialogBusy ==
  ASSUME RefreshInv, BusyIsMutate,
         OpenDraft \/ CloseDraft \/ OpenUnlock \/ CloseUnlock \/ FollowSignsIn
  PROVE  BusyIsMutate'
<1>1. PICK p : /\ Click(p, {})
               /\ \/ \E b : p = [page EXCEPT !.draft = b] \/ p = [page EXCEPT !.unlock = b]
                  \/ p = [page EXCEPT !.leaving = "google"]
  BY DEF OpenDraft, CloseDraft, OpenUnlock, CloseUnlock, FollowSignsIn, OnPage
<1>2. p.busy = page.busy
  BY <1>1 DEF RefreshInv, TypeOK, Page
<1> QED
  BY <1>1, <1>2, ClickBusy

\* Steps of the server, the timer and others leave the buttons and mutate alone;
\* a page that is opened has nothing under way for its buttons.
LEMMA OthersBusy ==
  ASSUME RefreshInv, BusyIsMutate,
         \/ \E r \in requests : Serve(r)
         \/ Fire \/ Rearm \/ ChangeElsewhere \/ Turn \/ Leave \/ UNCHANGED vars
  PROVE  BusyIsMutate'
<1>0. page \in Page /\ {page.token, page.armed, 0} \subseteq Rights
  BY NoRightIsARight DEF RefreshInv, TypeOK, Page
<1>1. ASSUME NEW r \in requests, Serve(r) PROVE BusyIsMutate'
  <2>1. PICK q : requests' = (requests \ {r}) \cup {q} /\ q.by = r.by
    BY <1>1, ServeShape
  <2>2. page' = page
    BY <1>1, ServeShape
  <2>3. Mutating' <=> Mutating
    BY <2>1 DEF Mutating
  <2> QED
    BY <2>2, <2>3 DEF BusyIsMutate
<1>2. ASSUME NEW token \in Rights, NEW q \in Load("timer", token) PROVE q.by = "timer"
  BY LoadsAreRequests, NamesDiffer
<1>3. CASE Fire
  <2>1. Mutating' <=> Mutating
    BY <1>0, <1>2, <1>3 DEF Fire, Mutating
  <2> QED
    BY <1>3, <2>1 DEF Fire, BusyIsMutate
<1>4. CASE Rearm
  <2>1. Mutating' <=> Mutating
    BY <1>0, <1>2, <1>4 DEF Rearm, Mutating, By
  <2>2. page'.busy = page.busy
    BY <1>0, <1>4 DEF Rearm, Page
  <2> QED
    BY <2>1, <2>2 DEF BusyIsMutate
<1>5. CASE ChangeElsewhere \/ Turn \/ UNCHANGED vars
  <2>1. page' = page /\ requests' = requests
    BY <1>5 DEF ChangeElsewhere, Turn, vars
  <2> QED
    BY <2>1 DEF BusyIsMutate, Mutating
<1>6. CASE Leave
  <2>1. page' = FreshPage /\ requests' = Load("timer", 0)
    BY <1>6 DEF Leave, Open
  <2>2. ~ Mutating'
    BY <1>0, <1>2, <2>1 DEF Mutating
  <2>3. page'.busy = FALSE
    BY <2>1 DEF FreshPage
  <2> QED
    BY <2>2, <2>3 DEF BusyIsMutate
<1> QED
  BY <1>1, <1>3, <1>4, <1>5, <1>6

LEMMA BusyIsMutateInit == Init => BusyIsMutate
<1> SUFFICES ASSUME Init PROVE BusyIsMutate
  OBVIOUS
<1>1. \A q \in requests : q.by = "timer"
  BY LoadsAreRequests, NoRightIsARight, NamesDiffer DEF Init
<1>2. page.busy = FALSE
  BY DEF Init, FreshPage
<1> QED
  BY <1>1, <1>2 DEF BusyIsMutate, Mutating

LEMMA BusyIsMutateStep == RefreshInv /\ BusyIsMutate /\ [Next]_vars => BusyIsMutate'
BY FailBusy, DeliverBusy, ReaderBusy, DialogBusy, OthersBusy DEF Next

\* Each of the two needs the other: no second write of mutate begins beside the
\* first because its buttons are disabled.
LEMMA RefreshInvHolds == Spec => [](RefreshInv /\ BusyIsMutate)
BY RefreshInvInit, RefreshInvStep, BusyIsMutateInit, BusyIsMutateStep, PTL DEF Spec

-----------------------------------------------------------------------------
(* Theorems *)

\* The page, its requests and the server's answers always have their types: a
\* list is a version, a right is a right, and no write carries an unknown one.
THEOREM RefreshTypeCorrect == Spec => []TypeOK
<1>1. RefreshInv => TypeOK
  BY DEF RefreshInv
<1> QED
  BY <1>1, RefreshInvHolds, PTL

\* The list that is loaded behind a write of the page was read after that write,
\* for any number of saves, loads and follows under way beside each other, any
\* number of changes and sign-ins, with and without accounts.
THEOREM ReloadIsBehindWrite == Spec => []ReloadSeesChange
<1>1. RefreshInv => ReloadSeesChange
  BY DEF RefreshInv
<1> QED
  BY <1>1, RefreshInvHolds, PTL

\* The buttons that mutate disables are disabled exactly while one of its requests
\* is under way, whatever is refused, fails or is answered in part, and whatever
\* other calls are under way: nothing keeps them so for good, and no second write
\* of mutate starts next to the first.
THEOREM ButtonsWaitForMutate == Spec => []BusyIsMutate
BY RefreshInvHolds, PTL

=============================================================================
