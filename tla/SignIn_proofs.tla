---------------------------- MODULE SignIn_proofs ----------------------------
(***************************************************************************)
(* Theorems about SignIn, for every set of browsers and accounts, every    *)
(* finite set of handlers and every value of the limits.                   *)
(***************************************************************************)
EXTENDS SignIn, FiniteSetTheorems, TLAPS

Ops == {"none", "login", "callback", "logout"}
Steps == {"idle", "discover", "insert", "claim", "exchange", "lock", "commit", "drop", "end", "answer"}
Ids == 0..MaxAttempts

Handling ==
    [op : Ops, step : Steps, browser : Browsers \cup {Nobody}, id : Ids, old : Ids,
     gone : SUBSET Attempts, ok : BOOLEAN]

\* TypeOK without the permits.
Shape ==
    /\ attempts \subseteq Attempts
    /\ sessions \subseteq Attempts
    /\ jar \in [Browsers -> [login : Ids, session : Ids]]
    /\ handler \in [Handlers -> Handling]
    /\ origin \in [Attempts -> Browsers \cup {Nobody}]
    /\ google \in [Attempts -> Accounts \cup {"away", "asked", "declined"}]
    /\ exchanged \in [Attempts -> Nat]
    /\ crossed \subseteq Attempts

\* Which requests come to which awaits.
Staged(h) ==
    /\ handler[h].op = "none" <=> handler[h].step = "idle"
    /\ handler[h].op # "none" => handler[h].browser \in Browsers
    /\ handler[h].op = "callback" => handler[h].id \in Attempts
    /\ handler[h].step \in {"discover", "insert"} => handler[h].op = "login"
    /\ handler[h].step \in {"claim", "exchange", "lock", "commit", "drop"} => handler[h].op = "callback"
    /\ handler[h].step = "end" => handler[h].op = "logout"

Stages == \A h \in Handlers : Staged(h)

TypeInv == Shape /\ Stages /\ Cardinality(Flowing) <= Flows

LEMMA TypeIsShape == TypeOK <=> Shape /\ Cardinality(Flowing) <= Flows
BY DEF TypeOK, Shape, Handling, Ops, Steps, Ids

LEMMA AttemptsAreIds == Attempts \subseteq Ids /\ 0 \in Ids /\ 0 \notin Attempts
BY SignInAssumption DEF Attempts, Ids

LEMMA NoRequestIsHandling == NoRequest \in Handling
BY AttemptsAreIds DEF NoRequest, Handling, Ops, Steps

LEMMA RequestIsHandling ==
    ASSUME Shape, NEW op \in Ops, NEW step \in Steps, NEW b \in Browsers, NEW i \in Ids
    PROVE  Request(op, step, b, i) \in Handling
<1>1. jar[b].session \in Ids
  BY DEF Shape
<1> QED
  BY <1>1 DEF Request, Handling

\* The step and the operation of a request that is handled.
LEMMA HandlerType ==
    ASSUME Shape, NEW h \in Handlers
    PROVE  /\ handler[h] \in Handling
           /\ handler[h].op \in Ops /\ handler[h].step \in Steps /\ handler[h].ok \in BOOLEAN
           /\ handler[h].id \in Ids /\ handler[h].browser \in Browsers \cup {Nobody}
           /\ handler[h].gone \subseteq Attempts
BY DEF Shape, Handling


-----------------------------------------------------------------------------
(* What each action does to the handlers, field by field *)

\* Only the request of h changes, and it stays one.
Only(h) ==
    /\ handler' \in [Handlers -> Handling]
    /\ \A g \in Handlers \ {h} : handler'[g] = handler[g]

\* It is still the request that it was.
Same(h) ==
    /\ handler'[h].op = handler[h].op
    /\ handler'[h].browser = handler[h].browser
    /\ handler'[h].old = handler[h].old

LEMMA SetHandler ==
    ASSUME Shape, NEW h \in Handlers, NEW r \in Handling, handler' = [handler EXCEPT ![h] = r]
    PROVE  Only(h) /\ handler'[h] = r
BY DEF Shape, Only

LEMMA GoToMoves ==
    ASSUME Shape, NEW h \in Handlers, NEW s \in Steps, GoTo(h, s)
    PROVE  /\ Only(h) /\ Same(h)
           /\ handler'[h].step = s /\ handler'[h].id = handler[h].id
           /\ handler'[h].gone = handler[h].gone /\ handler'[h].ok = handler[h].ok
<1> DEFINE r == [handler[h] EXCEPT !.step = s]
<1>1. handler[h] \in Handling
  BY HandlerType
<1>2. r \in Handling
  BY <1>1 DEF Handling
<1>3. /\ r.step = s /\ r.op = handler[h].op /\ r.browser = handler[h].browser
      /\ r.old = handler[h].old /\ r.id = handler[h].id
      /\ r.gone = handler[h].gone /\ r.ok = handler[h].ok
  BY <1>1 DEF Handling
<1>4. handler' = [handler EXCEPT ![h] = r]
  BY DEF GoTo
<1> HIDE DEF r
<1> QED
  BY <1>2, <1>3, <1>4, SetHandler DEF Same

LEMMA AnsweredMoves ==
    ASSUME Shape, NEW h \in Handlers, NEW ok \in BOOLEAN, Answered(h, ok)
    PROVE  /\ Only(h) /\ Same(h)
           /\ handler'[h].step = "answer" /\ handler'[h].id = handler[h].id
           /\ handler'[h].gone = {} /\ handler'[h].ok = ok
<1> DEFINE r == [handler[h] EXCEPT !.step = "answer", !.gone = {}, !.ok = ok]
<1>1. handler[h] \in Handling /\ "answer" \in Steps
  BY HandlerType DEF Steps
<1>2. r \in Handling
  BY <1>1 DEF Handling
<1>3. /\ r.step = "answer" /\ r.op = handler[h].op /\ r.browser = handler[h].browser
      /\ r.old = handler[h].old /\ r.id = handler[h].id
      /\ r.gone = {} /\ r.ok = ok
  BY <1>1 DEF Handling
<1>4. handler' = [handler EXCEPT ![h] = r]
  BY DEF Answered
<1> HIDE DEF r
<1> QED
  BY <1>2, <1>3, <1>4, SetHandler DEF Same

LEMMA ArriveMoves ==
    ASSUME Shape, NEW h \in Handlers, NEW op \in Ops, NEW step \in Steps, NEW b \in Browsers,
           NEW i \in Ids, Arrive(h, Request(op, step, b, i))
    PROVE  /\ Only(h) /\ At(h, "idle")
           /\ handler'[h].step = step /\ handler'[h].op = op /\ handler'[h].browser = b
           /\ handler'[h].id = i /\ ~handler'[h].ok /\ handler'[h].gone = {}
           /\ UNCHANGED <<attempts, sessions, jar, origin, google, exchanged>>
<1> DEFINE r == Request(op, step, b, i)
<1>1. r \in Handling
  BY RequestIsHandling
<1>2. handler' = [handler EXCEPT ![h] = r] /\ At(h, "idle")
      /\ UNCHANGED <<attempts, sessions, jar, origin, google, exchanged>>
  BY DEF Arrive
<1>3. /\ r.step = step /\ r.op = op /\ r.browser = b /\ r.id = i /\ ~r.ok /\ r.gone = {}
  BY DEF Request
<1> HIDE DEF r
<1> QED
  BY <1>1, <1>2, <1>3, SetHandler

LEMMA LoginMoves ==
    ASSUME Shape, NEW h \in Handlers, NEW b \in Browsers, Login(h, b)
    PROVE  /\ Only(h) /\ At(h, "idle")
           /\ handler'[h].op = "login" /\ handler'[h].browser = b /\ handler'[h].id = 0
           /\ handler'[h].step = (IF Free THEN "discover" ELSE "answer")
           /\ ~handler'[h].ok
           /\ UNCHANGED <<attempts, sessions, jar, origin, google, exchanged, crossed>>
<1>1. "login" \in Ops /\ (IF Free THEN "discover" ELSE "answer") \in Steps /\ 0 \in Ids
  BY AttemptsAreIds DEF Ops, Steps
<1> QED
  BY <1>1, ArriveMoves DEF Login

LEMMA CallbackMoves ==
    ASSUME Shape, NEW h \in Handlers, NEW b \in Browsers, NEW i \in Attempts, Callback(h, b, i)
    PROVE  /\ Only(h) /\ At(h, "idle")
           /\ google[i] \notin {"away", "asked"}
           /\ handler'[h].op = "callback" /\ handler'[h].browser = b /\ handler'[h].id = i
           /\ handler'[h].step = (IF Free /\ SameBrowser(b, i) THEN "claim" ELSE "answer")
           /\ ~handler'[h].ok
           /\ crossed' = crossed \cup AttemptsOf(b)
           /\ UNCHANGED <<attempts, sessions, jar, origin, google, exchanged>>
<1>1. "callback" \in Ops /\ (IF Free /\ SameBrowser(b, i) THEN "claim" ELSE "answer") \in Steps /\ i \in Ids
  BY AttemptsAreIds DEF Ops, Steps
<1> QED
  BY <1>1, ArriveMoves DEF Callback

LEMMA LogoutMoves ==
    ASSUME Shape, NEW h \in Handlers, NEW b \in Browsers, Logout(h, b)
    PROVE  /\ Only(h) /\ At(h, "idle")
           /\ handler'[h].op = "logout" /\ handler'[h].browser = b /\ handler'[h].id = 0
           /\ handler'[h].step = "end" /\ ~handler'[h].ok
           /\ UNCHANGED <<attempts, sessions, jar, origin, google, exchanged, crossed>>
<1>1. "logout" \in Ops /\ "end" \in Steps /\ 0 \in Ids
  BY AttemptsAreIds DEF Ops, Steps
<1> QED
  BY <1>1, ArriveMoves DEF Logout

LEMMA CountMoves ==
    ASSUME Shape, NEW h \in Handlers, Count(h)
    PROVE  /\ Only(h) /\ Same(h) /\ At(h, "discover") /\ QueueLock
           /\ handler'[h].id = handler[h].id
           /\ \/ /\ Cardinality(attempts) < QueueLimit
                 /\ handler'[h].step = "insert" /\ handler'[h].ok = handler[h].ok
              \/ handler'[h].step = "answer" /\ ~handler'[h].ok
           /\ UNCHANGED <<attempts, sessions, jar, origin, google, exchanged, crossed>>
<1>1. "insert" \in Steps /\ FALSE \in BOOLEAN
  BY DEF Steps
<1>2. CASE Cardinality(attempts) < QueueLimit
  BY <1>1, <1>2, GoToMoves DEF Count
<1>3. CASE ~(Cardinality(attempts) < QueueLimit)
  BY <1>1, <1>3, AnsweredMoves DEF Count
<1> QED
  BY <1>2, <1>3

LEMMA InsertMoves ==
    ASSUME Shape, NEW h \in Handlers, Insert(h)
    PROVE  \E i \in Attempts :
              /\ Only(h) /\ Same(h) /\ At(h, "insert") /\ origin[i] = Nobody
              /\ handler'[h].id = i /\ handler'[h].step = "answer" /\ handler'[h].ok
              /\ attempts' = attempts \cup {i}
              /\ origin' = [origin EXCEPT ![i] = handler[h].browser]
              /\ crossed' = crossed \cup AttemptsOf(handler[h].browser)
                              \cup IF Beside(h) THEN {i} ELSE {}
              /\ UNCHANGED <<sessions, jar, google, exchanged>>
<1>1. PICK i \in Attempts :
         /\ origin[i] = Nobody
         /\ attempts' = attempts \cup {i}
         /\ origin' = [origin EXCEPT ![i] = handler[h].browser]
         /\ handler' = [handler EXCEPT ![h].step = "answer", ![h].ok = TRUE, ![h].id = i]
         /\ crossed' = crossed \cup AttemptsOf(handler[h].browser)
                         \cup IF Beside(h) THEN {i} ELSE {}
  BY DEF Insert
<1> DEFINE r == [handler[h] EXCEPT !.step = "answer", !.ok = TRUE, !.id = i]
<1>2. handler[h] \in Handling /\ "answer" \in Steps /\ i \in Ids
  BY HandlerType, AttemptsAreIds DEF Steps
<1>3. r \in Handling
  BY <1>2 DEF Handling
<1>4. /\ r.step = "answer" /\ r.op = handler[h].op /\ r.browser = handler[h].browser
      /\ r.old = handler[h].old /\ r.id = i /\ r.ok
  BY <1>2 DEF Handling
<1>5. handler' = [handler EXCEPT ![h] = r]
  BY <1>1
<1> HIDE DEF r
<1>6. Only(h) /\ handler'[h] = r
  BY <1>3, <1>5, SetHandler
<1>7. /\ Same(h) /\ handler'[h].id = i /\ handler'[h].step = "answer" /\ handler'[h].ok
  BY <1>4, <1>6 DEF Same
<1>8. At(h, "insert") /\ UNCHANGED <<sessions, jar, google, exchanged>>
  BY DEF Insert
<1> QED
  BY ONLY <1>1, <1>6, <1>7, <1>8, i \in Attempts

LEMMA ClaimMoves ==
    ASSUME Shape, NEW h \in Handlers, Claim(h)
    PROVE  /\ Only(h) /\ Same(h) /\ At(h, "claim") /\ handler'[h].id = handler[h].id
           /\ attempts' = attempts \ {handler[h].id}
           /\ \/ /\ handler[h].id \in attempts /\ google[handler[h].id] # "declined"
                 /\ handler'[h].step = "exchange"
              \/ handler'[h].step = "answer" /\ ~handler'[h].ok
           /\ UNCHANGED <<sessions, jar, origin, google, exchanged, crossed>>
<1>1. "exchange" \in Steps /\ FALSE \in BOOLEAN
  BY DEF Steps
<1>2. CASE handler[h].id \in attempts /\ google[handler[h].id] # "declined"
  BY <1>1, <1>2, GoToMoves DEF Claim, Claimed
<1>3. CASE ~(handler[h].id \in attempts /\ google[handler[h].id] # "declined")
  BY <1>1, <1>3, AnsweredMoves DEF Claim, Claimed
<1> QED
  BY <1>2, <1>3

LEMMA ExchangeMoves ==
    ASSUME Shape, NEW h \in Handlers, Exchange(h)
    PROVE  /\ Only(h) /\ Same(h) /\ At(h, "exchange") /\ handler'[h].id = handler[h].id
           /\ handler'[h].step = "lock"
           /\ exchanged' = [exchanged EXCEPT ![handler[h].id] = @ + 1]
           /\ UNCHANGED <<attempts, sessions, jar, origin, google, crossed>>
<1>1. "lock" \in Steps
  BY DEF Steps
<1> QED
  BY <1>1, GoToMoves DEF Exchange

LEMMA FailMoves ==
    ASSUME Shape, NEW h \in Handlers, Fail(h)
    PROVE  /\ Only(h) /\ Same(h) /\ h \in Flowing /\ handler'[h].id = handler[h].id
           /\ handler'[h].step = "answer" /\ ~handler'[h].ok
           /\ UNCHANGED <<attempts, sessions, jar, origin, google, exchanged, crossed>>
BY AnsweredMoves, FALSE \in BOOLEAN DEF Fail

LEMMA LockMoves ==
    ASSUME Shape, NEW h \in Handlers, Lock(h)
    PROVE  /\ Only(h) /\ Same(h) /\ At(h, "lock") /\ AccountLock(Account(h))
           /\ handler'[h].id = handler[h].id /\ handler'[h].step = "commit"
           /\ handler'[h].gone \in Surplus(Of(Account(h)))
           /\ UNCHANGED <<attempts, sessions, jar, origin, google, exchanged, crossed>>
<1>1. PICK G \in Surplus(Of(Account(h))) :
         handler' = [handler EXCEPT ![h].step = "commit", ![h].gone = G]
  BY DEF Lock
<1> DEFINE r == [handler[h] EXCEPT !.step = "commit", !.gone = G]
<1>2. handler[h] \in Handling /\ "commit" \in Steps /\ G \in SUBSET Attempts
  BY <1>1, HandlerType DEF Steps, Surplus, Of, Shape
<1>3. r \in Handling
  BY <1>2 DEF Handling
<1>4. /\ r.step = "commit" /\ r.op = handler[h].op /\ r.browser = handler[h].browser
      /\ r.old = handler[h].old /\ r.id = handler[h].id /\ r.gone = G
  BY <1>2 DEF Handling
<1>5. handler' = [handler EXCEPT ![h] = r]
  BY <1>1
<1> HIDE DEF r
<1> QED
  BY <1>1, <1>3, <1>4, <1>5, SetHandler DEF Same, Lock

LEMMA CommitMoves ==
    ASSUME Shape, NEW h \in Handlers, Commit(h)
    PROVE  /\ Only(h) /\ Same(h) /\ At(h, "commit")
           /\ handler'[h].id = handler[h].id /\ handler'[h].step = "drop"
           /\ sessions' = (sessions \ handler[h].gone) \cup {handler[h].id}
           /\ UNCHANGED <<attempts, jar, origin, google, exchanged, crossed>>
<1> DEFINE r == [handler[h] EXCEPT !.step = "drop", !.gone = {}]
<1>2. handler[h] \in Handling /\ "drop" \in Steps
  BY HandlerType DEF Steps
<1>3. r \in Handling
  BY <1>2 DEF Handling
<1>4. /\ r.step = "drop" /\ r.op = handler[h].op /\ r.browser = handler[h].browser
      /\ r.old = handler[h].old /\ r.id = handler[h].id
  BY <1>2 DEF Handling
<1>5. handler' = [handler EXCEPT ![h] = r]
  BY DEF Commit
<1> HIDE DEF r
<1> QED
  BY <1>3, <1>4, <1>5, SetHandler DEF Same, Commit

LEMMA DropMoves ==
    ASSUME Shape, NEW h \in Handlers, Drop(h)
    PROVE  /\ Only(h) /\ Same(h) /\ At(h, "drop")
           /\ handler'[h].id = handler[h].id /\ handler'[h].step = "answer" /\ handler'[h].ok
           /\ sessions' = sessions \ {handler[h].old}
           /\ UNCHANGED <<attempts, jar, origin, google, exchanged, crossed>>
BY AnsweredMoves, TRUE \in BOOLEAN DEF Drop, Without

LEMMA EndMoves ==
    ASSUME Shape, NEW h \in Handlers, End(h)
    PROVE  /\ Only(h) /\ Same(h) /\ At(h, "end")
           /\ handler'[h].id = handler[h].id /\ handler'[h].step = "answer"
           /\ sessions' = sessions \ {handler[h].old}
           /\ UNCHANGED <<attempts, jar, origin, google, exchanged, crossed>>
BY AnsweredMoves, TRUE \in BOOLEAN DEF End, Without

\* What remains of a request that was answered or dropped.
LEMMA Leaves ==
    ASSUME Shape, NEW h \in Handlers, handler' = [handler EXCEPT ![h] = NoRequest]
    PROVE  /\ Only(h)
           /\ handler'[h].op = "none" /\ handler'[h].step = "idle" /\ ~handler'[h].ok
<1>1. NoRequest.op = "none" /\ NoRequest.step = "idle" /\ ~NoRequest.ok
  BY DEF NoRequest
<1> QED
  BY <1>1, SetHandler, NoRequestIsHandling

-----------------------------------------------------------------------------
(* Types *)

\* What Answer does, with the cookies it leaves.
Begun(h) == handler[h].op = "login" /\ handler[h].ok

LEMMA AnswerMoves ==
    ASSUME Shape, NEW h \in Handlers, Answer(h)
    PROVE  /\ Only(h) /\ At(h, "answer")
           /\ handler'[h].op = "none" /\ handler'[h].step = "idle" /\ ~handler'[h].ok
           /\ jar' = [jar EXCEPT ![handler[h].browser] = Cookies(@, handler[h])]
           /\ google' = IF Begun(h) THEN [google EXCEPT ![handler[h].id] = "asked"] ELSE google
           /\ UNCHANGED <<attempts, sessions, origin, exchanged, crossed>>
<1>1. handler' = [handler EXCEPT ![h] = NoRequest]
  BY DEF Answer
<1> QED
  BY <1>1, Leaves DEF Answer, Begun

LEMMA AbandonMoves ==
    ASSUME Shape, NEW h \in Handlers, Abandon(h)
    PROVE  /\ Only(h)
           /\ handler'[h].op = "none" /\ handler'[h].step = "idle" /\ ~handler'[h].ok
           /\ UNCHANGED <<attempts, sessions, jar, origin, google, exchanged, crossed>>
BY Leaves DEF Abandon

\* A jar holds ids, whatever answer arrives.
LEMMA CookiesType ==
    ASSUME NEW old \in [login : Ids, session : Ids], NEW r \in Handling
    PROVE  Cookies(old, r) \in [login : Ids, session : Ids]
<1>1. r.id \in Ids /\ 0 \in Ids
  BY AttemptsAreIds DEF Handling
<1>2. /\ [old EXCEPT !.login = r.id] \in [login : Ids, session : Ids]
      /\ [login |-> 0, session |-> IF r.ok THEN r.id ELSE old.session] \in [login : Ids, session : Ids]
      /\ [old EXCEPT !.session = 0] \in [login : Ids, session : Ids]
  BY <1>1
<1> QED
  BY <1>2 DEF Cookies

\* The fields of a handler that has answered.
LEMMA AnswerKeepsShape ==
    ASSUME Shape, NEW h \in Handlers, Answer(h)
    PROVE  Shape'
<1>1. \A b \in Browsers : Cookies(jar[b], handler[h]) \in [login : Ids, session : Ids]
  BY HandlerType, CookiesType DEF Shape
<1>2. jar' \in [Browsers -> [login : Ids, session : Ids]]
  <2> DEFINE J == [login : Ids, session : Ids]
             new == Cookies(jar[handler[h].browser], handler[h])
  <2>1. jar \in [Browsers -> J] /\ jar' = [jar EXCEPT ![handler[h].browser] = new]
    BY AnswerMoves DEF Shape
  <2>2. handler[h].browser \in Browsers => new \in J
    BY <1>1
  <2> HIDE DEF new
  <2> QED
    BY <2>1, <2>2
<1>3. google' \in [Attempts -> Accounts \cup {"away", "asked", "declined"}]
  BY AnswerMoves DEF Shape
<1>4. crossed' \subseteq Attempts
  BY AnswerMoves DEF Shape
<1> QED
  BY <1>2, <1>3, <1>4, AnswerMoves DEF Shape, Only

LEMMA HandlersKeepShape ==
    ASSUME Shape, NEW h \in Handlers, Staged(h)
    PROVE  /\ \A b \in Browsers : Login(h, b) \/ Logout(h, b) => Shape'
           /\ \A b \in Browsers, i \in Attempts : Callback(h, b, i) => Shape'
           /\ Count(h) \/ Insert(h) \/ Claim(h) \/ Exchange(h) \/ Fail(h) => Shape'
           /\ Lock(h) \/ Commit(h) \/ Drop(h) \/ End(h) \/ Answer(h) \/ Abandon(h) => Shape'
<1>1. ASSUME NEW b \in Browsers, Login(h, b) \/ Logout(h, b) PROVE Shape'
  BY <1>1, LoginMoves, LogoutMoves DEF Shape, Only
<1>2. ASSUME NEW b \in Browsers, NEW i \in Attempts, Callback(h, b, i) PROVE Shape'
  BY <1>2, CallbackMoves DEF Shape, Only, AttemptsOf
<1>3. ASSUME Count(h) PROVE Shape'
  BY <1>3, CountMoves DEF Shape, Only
<1>4. ASSUME Insert(h) PROVE Shape'
  <2>1. PICK i \in Attempts :
           /\ Only(h) /\ attempts' = attempts \cup {i}
           /\ origin' = [origin EXCEPT ![i] = handler[h].browser]
           /\ crossed' = crossed \cup AttemptsOf(handler[h].browser)
                           \cup IF Beside(h) THEN {i} ELSE {}
           /\ UNCHANGED <<sessions, jar, google, exchanged>>
    BY <1>4, InsertMoves
  <2>2. crossed' \subseteq Attempts
    BY <2>1 DEF Shape, AttemptsOf
  <2> QED
    BY <2>1, <2>2, HandlerType DEF Shape, Only
<1>5. ASSUME Claim(h) PROVE Shape'
  BY <1>5, ClaimMoves DEF Shape, Only
<1>6. ASSUME Exchange(h) PROVE Shape'
  BY <1>6, ExchangeMoves DEF Shape, Only
<1>7. ASSUME Fail(h) PROVE Shape'
  BY <1>7, FailMoves DEF Shape, Only
<1>8. ASSUME Lock(h) PROVE Shape'
  BY <1>8, LockMoves DEF Shape, Only
<1>9. ASSUME Commit(h) PROVE Shape'
  <2>1. At(h, "commit") /\ handler[h].id \in Attempts
    BY <1>9, CommitMoves DEF Staged, At
  <2> QED
    BY <1>9, <2>1, CommitMoves DEF Shape, Only
<1>10. ASSUME Drop(h) \/ End(h) PROVE Shape'
  BY <1>10, DropMoves, EndMoves DEF Shape, Only
<1>11. ASSUME Abandon(h) PROVE Shape'
  BY <1>11, AbandonMoves DEF Shape, Only
<1> QED
  BY <1>1, <1>2, <1>3, <1>4, <1>5, <1>6, <1>7, <1>8, <1>9, <1>10, <1>11, AnswerKeepsShape

\* Outside the handlers: users and the clock.
Surroundings ==
    \/ \E i \in Attempts : Consent(i) \/ ExpireAttempt(i) \/ ExpireSession(i)
    \/ \E b \in Browsers : ExpireLoginCookie(b) \/ ExpireSessionCookie(b)

LEMMA SurroundingsMove ==
    ASSUME Surroundings
    PROVE  /\ UNCHANGED <<handler, origin, exchanged, crossed>>
           /\ attempts' \subseteq attempts /\ sessions' \subseteq sessions
           /\ \/ google' = google
              \/ \E i \in Attempts : \E said \in Accounts \cup {"declined"} :
                    google[i] = "asked" /\ google' = [google EXCEPT ![i] = said]
BY DEF Surroundings, Consent, ExpireAttempt, ExpireSession, ExpireLoginCookie,
   ExpireSessionCookie, Without

\* Cookies go one at a time, and the one of a waiting attempt stays.
LEMMA JarsFade ==
    ASSUME Shape, Surroundings
    PROVE  /\ jar' \in [Browsers -> [login : Ids, session : Ids]]
           /\ \A b \in Browsers :
                 /\ jar'[b].login = jar[b].login \/ (jar'[b].login = 0 /\ jar[b].login \notin attempts)
                 /\ jar'[b].session \in {0, jar[b].session}
<1> DEFINE J == [login : Ids, session : Ids]
<1>1. jar \in [Browsers -> J] /\ 0 \in Ids
  BY AttemptsAreIds DEF Shape
<1>2. \A b \in Browsers :
         /\ [jar[b] EXCEPT !.login = 0] \in J
         /\ [jar[b] EXCEPT !.login = 0].login = 0
         /\ [jar[b] EXCEPT !.login = 0].session = jar[b].session
         /\ [jar[b] EXCEPT !.session = 0] \in J
         /\ [jar[b] EXCEPT !.session = 0].session = 0
         /\ [jar[b] EXCEPT !.session = 0].login = jar[b].login
  BY <1>1
<1>3. CASE \E i \in Attempts : Consent(i) \/ ExpireAttempt(i) \/ ExpireSession(i)
  BY <1>1, <1>3 DEF Consent, ExpireAttempt, ExpireSession
<1>4. ASSUME NEW c \in Browsers, ExpireLoginCookie(c)
      PROVE  jar' \in [Browsers -> J] /\ \A b \in Browsers :
                 /\ jar'[b].login = jar[b].login \/ (jar'[b].login = 0 /\ jar[b].login \notin attempts)
                 /\ jar'[b].session \in {0, jar[b].session}
  <2>1. PICK j : j = [jar[c] EXCEPT !.login = 0]
    OBVIOUS
  <2>2. j \in J /\ j.login = 0 /\ j.session = jar[c].session
    BY <1>2, <2>1
  <2>3. jar' = [jar EXCEPT ![c] = j] /\ jar[c].login \notin attempts
    BY <1>4, <2>1 DEF ExpireLoginCookie
  <2> HIDE DEF J
  <2>4. jar'[c] = j /\ \A b \in Browsers : b # c => jar'[b] = jar[b]
    BY <1>1, <2>3
  <2> QED
    BY <1>1, <2>2, <2>3, <2>4
<1>5. ASSUME NEW c \in Browsers, ExpireSessionCookie(c)
      PROVE  jar' \in [Browsers -> J] /\ \A b \in Browsers :
                 /\ jar'[b].login = jar[b].login \/ (jar'[b].login = 0 /\ jar[b].login \notin attempts)
                 /\ jar'[b].session \in {0, jar[b].session}
  <2>1. PICK j : j = [jar[c] EXCEPT !.session = 0]
    OBVIOUS
  <2>2. j \in J /\ j.session = 0 /\ j.login = jar[c].login
    BY <1>2, <2>1
  <2>3. jar' = [jar EXCEPT ![c] = j]
    BY <1>5, <2>1 DEF ExpireSessionCookie
  <2> HIDE DEF J
  <2>4. jar'[c] = j /\ \A b \in Browsers : b # c => jar'[b] = jar[b]
    BY <1>1, <2>3
  <2> QED
    BY <1>1, <2>2, <2>3, <2>4
<1> QED
  BY <1>3, <1>4, <1>5 DEF Surroundings

LEMMA SurroundingsKeepShape == ASSUME Shape, Surroundings PROVE Shape'
<1>1. google' \in [Attempts -> Accounts \cup {"away", "asked", "declined"}]
  BY SurroundingsMove DEF Shape
<1> QED
  BY <1>1, SurroundingsMove, JarsFade DEF Shape

\* The actions of one handler.
Handles(h) ==
    \/ Count(h) \/ Insert(h) \/ Claim(h) \/ Exchange(h) \/ Fail(h)
    \/ Lock(h) \/ Commit(h) \/ Drop(h) \/ End(h) \/ Answer(h) \/ Abandon(h)
    \/ \E b \in Browsers : Login(h, b) \/ Logout(h, b) \/ (\E i \in Attempts : Callback(h, b, i))

LEMMA NextIs == Next <=> (\E h \in Handlers : Handles(h)) \/ Surroundings
BY DEF Next, Handles, Surroundings

LEMMA HandlesKeepsStage ==
    ASSUME Shape, NEW h \in Handlers, Staged(h), Handles(h)
    PROVE  Staged(h)' /\ Only(h)
<1>1. ASSUME NEW b \in Browsers, Login(h, b) \/ Logout(h, b) PROVE Staged(h)' /\ Only(h)
  BY <1>1, LoginMoves, LogoutMoves DEF Staged
<1>2. ASSUME NEW b \in Browsers, NEW i \in Attempts, Callback(h, b, i) PROVE Staged(h)' /\ Only(h)
  BY <1>2, CallbackMoves DEF Staged
<1>3. ASSUME Count(h) \/ Claim(h) \/ Exchange(h) PROVE Staged(h)' /\ Only(h)
  BY <1>3, CountMoves, ClaimMoves, ExchangeMoves DEF Staged, Same, At
<1>4. ASSUME Insert(h) PROVE Staged(h)' /\ Only(h)
  BY <1>4, InsertMoves DEF Staged, Same, At
<1>5. ASSUME Fail(h) \/ Lock(h) \/ Commit(h) PROVE Staged(h)' /\ Only(h)
  BY <1>5, FailMoves, LockMoves, CommitMoves DEF Staged, Same, At, Flowing
<1>6. ASSUME Drop(h) \/ End(h) PROVE Staged(h)' /\ Only(h)
  BY <1>6, DropMoves, EndMoves DEF Staged, Same, At
<1>7. ASSUME Answer(h) \/ Abandon(h) PROVE Staged(h)' /\ Only(h)
  BY <1>7, AnswerMoves, AbandonMoves DEF Staged
<1> QED
  BY <1>1, <1>2, <1>3, <1>4, <1>5, <1>6, <1>7 DEF Handles

\* A request gets its permit when it arrives, or never.
LEMMA HandlesKeepsFlows ==
    ASSUME Shape, NEW h \in Handlers, Staged(h), Handles(h)
    PROVE  Flowing' \subseteq Flowing \/ (Free /\ Flowing' \subseteq Flowing \cup {h})
<1>0. Only(h)
  BY HandlesKeepsStage
<1>1. Flowing' \subseteq Flowing \cup {h}
  BY <1>0 DEF Flowing, Only, At
<1>2. SUFFICES ASSUME h \in Flowing', h \notin Flowing PROVE Free
  BY <1>1
<1>3. handler'[h].op \in {"login", "callback"} /\ handler'[h].step # "answer"
      /\ ~(handler[h].op \in {"login", "callback"} /\ handler[h].step # "answer")
  BY <1>2 DEF Flowing, At
<1>4. CASE \E b \in Browsers : Login(h, b) \/ Logout(h, b) \/ (\E i \in Attempts : Callback(h, b, i))
  BY <1>3, <1>4, LoginMoves, LogoutMoves, CallbackMoves
<1>5. CASE Count(h) \/ Claim(h) \/ Exchange(h)
  BY <1>3, <1>5, CountMoves, ClaimMoves, ExchangeMoves DEF Staged, Same, At
<1>6. CASE Insert(h)
  BY <1>3, <1>6, InsertMoves
<1>7. CASE Fail(h) \/ Lock(h) \/ Commit(h)
  BY <1>3, <1>7, FailMoves, LockMoves, CommitMoves DEF Staged, Same, At
<1>8. CASE Drop(h) \/ End(h)
  BY <1>3, <1>8, DropMoves, EndMoves
<1>9. CASE Answer(h) \/ Abandon(h)
  BY <1>3, <1>9, AnswerMoves, AbandonMoves
<1> QED
  BY <1>4, <1>5, <1>6, <1>7, <1>8, <1>9 DEF Handles

LEMMA FlowsAreBounded ==
    ASSUME Cardinality(Flowing) <= Flows, NEW h,
           Flowing' \subseteq Flowing \/ (Free /\ Flowing' \subseteq Flowing \cup {h})
    PROVE  Cardinality(Flowing') <= Flows
<1>1. IsFiniteSet(Flowing) /\ Cardinality(Flowing) \in Nat /\ Flows \in Nat
  <2>1. Flowing \in SUBSET Handlers /\ IsFiniteSet(Handlers) /\ Flows \in Nat
    BY SignInAssumption DEF Flowing
  <2> QED
    BY <2>1, FS_Subset, FS_CardinalityType
<1>2. CASE Flowing' \subseteq Flowing
  <2>1. Cardinality(Flowing') <= Cardinality(Flowing) /\ Cardinality(Flowing') \in Nat
    BY <1>1, <1>2, FS_Subset, FS_CardinalityType
  <2> QED
    BY <1>1, <2>1
<1>3. CASE Free /\ Flowing' \subseteq Flowing \cup {h}
  <2> DEFINE more == Flowing \cup {h}
  <2>1. IsFiniteSet(more) /\ Cardinality(more) <= Cardinality(Flowing) + 1 /\ Cardinality(more) \in Nat
    BY <1>1, FS_AddElement, FS_CardinalityType
  <2>2. Cardinality(Flowing') <= Cardinality(more) /\ Cardinality(Flowing') \in Nat
    BY <1>3, <2>1, FS_Subset, FS_CardinalityType
  <2>3. Cardinality(Flowing) < Flows
    BY <1>3 DEF Free
  <2> QED
    BY <1>1, <2>1, <2>2, <2>3
<1> QED
  BY <1>2, <1>3

LEMMA TypeInit == Init => TypeInv
<1> SUFFICES ASSUME Init PROVE TypeInv
  OBVIOUS
<1>1. Shape
  BY NoRequestIsHandling, AttemptsAreIds DEF Init, Shape
<1>2. Stages
  BY DEF Init, Stages, Staged, NoRequest
<1>3. Flowing = {}
  BY DEF Init, Flowing, NoRequest, At
<1>4. Cardinality({}) = 0 /\ Flows \in Nat
  BY FS_EmptySet, SignInAssumption
<1> QED
  BY <1>1, <1>2, <1>3, <1>4 DEF TypeInv

LEMMA TypeStep == TypeInv /\ [Next]_vars => TypeInv'
<1> SUFFICES ASSUME TypeInv, [Next]_vars PROVE TypeInv'
  OBVIOUS
<1>1. ASSUME NEW h \in Handlers, Handles(h) PROVE TypeInv'
  <2>1. Shape /\ Staged(h) /\ Stages /\ Cardinality(Flowing) <= Flows
    BY DEF TypeInv, Stages
  <2>2. Shape'
    BY <1>1, <2>1, HandlersKeepShape DEF Handles
  <2>3. Stages'
    BY <1>1, <2>1, HandlesKeepsStage DEF Stages, Staged, Only
  <2>4. Cardinality(Flowing') <= Flows
    BY <1>1, <2>1, HandlesKeepsFlows, FlowsAreBounded
  <2> QED
    BY <2>2, <2>3, <2>4 DEF TypeInv
<1>2. CASE Surroundings
  <2>1. Shape'
    BY <1>2, SurroundingsKeepShape DEF TypeInv
  <2> QED
    BY <1>2, <2>1, SurroundingsMove DEF TypeInv, Stages, Staged, Flowing, At
<1>3. CASE UNCHANGED vars
  BY <1>3 DEF vars, TypeInv, Shape, Stages, Staged, Flowing, At
<1> QED
  BY <1>1, <1>2, <1>3, NextIs

LEMMA TypeInvariant == Spec => []TypeInv
BY TypeInit, TypeStep, PTL DEF Spec

\* A request that signs in holds one of the permits until it is answered; every
\* variable keeps its type.
THEOREM TypeCorrect == Spec => []TypeOK
<1>1. TypeInv => TypeOK
  BY TypeIsShape DEF TypeInv
<1> QED
  BY <1>1, TypeInvariant, PTL

-----------------------------------------------------------------------------
(* Whose attempts, cookies and sessions they are *)

\* An attempt that was not made yet.
Unmade == \A i \in Attempts :
    origin[i] = Nobody => google[i] = "away" /\ exchanged[i] = 0 /\ i \notin attempts

\* A new attempt is of the browser that is answered, and not known to Google
\* before; a callback that goes on is of the browser that made the attempt, and
\* the user has chosen an account there.
Owner(h) ==
    /\ handler[h].op = "login" /\ handler[h].ok =>
          /\ handler[h].step = "answer" /\ handler[h].id \in Attempts
          /\ origin[handler[h].id] = handler[h].browser /\ google[handler[h].id] = "away"
    /\ handler[h].op = "callback" => google[handler[h].id] \notin {"away", "asked"}
    /\ handler[h].op = "callback" /\ (handler[h].step # "answer" \/ handler[h].ok) =>
          origin[handler[h].id] = handler[h].browser
    /\ handler[h].step \in {"exchange", "lock", "commit", "drop"} => google[handler[h].id] \in Accounts
    /\ handler[h].step \in {"lock", "commit", "drop"} => exchanged[handler[h].id] > 0

\* No two answers bring the same attempt.
Distinct == \A g, h \in Handlers :
    /\ g # h
    /\ handler[g].op = "login" /\ handler[g].ok
    /\ handler[h].op = "login" /\ handler[h].ok
    => handler[g].id # handler[h].id

Jars == \A b \in Browsers :
    /\ jar[b].login # 0 => origin[jar[b].login] = b
    /\ jar[b].session # 0 => origin[jar[b].session] = b

Genuine == \A s \in sessions : google[s] \in Accounts /\ exchanged[s] > 0

\* Beside an attempt that is not crossed, its browser awaits no other answer that
\* sets the login cookie.
CalmFor(i, r) ==
    r.browser = origin[i] => r.op # "callback" /\ (r.op = "login" /\ r.ok => r.id = i)
Calm == \A i \in Attempts \ crossed : origin[i] # Nobody =>
    \A g \in Handlers : CalmFor(i, handler[g])

OwnInv ==
    /\ Unmade
    /\ \A h \in Handlers : Owner(h)
    /\ Distinct
    /\ Jars
    /\ Genuine
    /\ Calm
    /\ OwnCookieStays

\* What only one action changes.
LEMMA Elsewhere ==
    ASSUME Shape, NEW h \in Handlers, Handles(h)
    PROVE  /\ (jar' = jar /\ google' = google) \/ Answer(h)
           /\ crossed \subseteq crossed'
           /\ (origin' = origin /\ attempts' \subseteq attempts) \/ Insert(h)
           /\ exchanged' = exchanged \/ Exchange(h)
           /\ sessions' \subseteq sessions \/ Commit(h)
           /\ handler'[h].step = "insert" => Count(h)
           /\ handler'[h].step = "commit" => Lock(h)
           /\ handler'[h].step = "exchange" => Claim(h)
<1>1. ASSUME NEW b \in Browsers, Login(h, b) \/ Logout(h, b)
      PROVE  /\ UNCHANGED <<attempts, sessions, jar, origin, google, exchanged, crossed>>
             /\ handler'[h].step \notin {"insert", "commit", "exchange"}
  BY <1>1, LoginMoves, LogoutMoves
<1>2. ASSUME NEW b \in Browsers, NEW i \in Attempts, Callback(h, b, i)
      PROVE  /\ UNCHANGED <<attempts, sessions, jar, origin, google, exchanged>>
             /\ crossed \subseteq crossed'
             /\ handler'[h].step \notin {"insert", "commit", "exchange"}
  BY <1>2, CallbackMoves
<1>3. CASE Count(h) \/ Claim(h) \/ Exchange(h)
  BY <1>3, CountMoves, ClaimMoves, ExchangeMoves
<1>4. CASE Insert(h)
  BY <1>4, InsertMoves
<1>5. CASE Fail(h) \/ Lock(h) \/ Commit(h)
  BY <1>5, FailMoves, LockMoves, CommitMoves
<1>6. CASE Drop(h) \/ End(h)
  BY <1>6, DropMoves, EndMoves
<1>7. CASE Answer(h) \/ Abandon(h)
  BY <1>7, AnswerMoves, AbandonMoves
<1> QED
  BY <1>1, <1>2, <1>3, <1>4, <1>5, <1>6, <1>7 DEF Handles

\* An attempt keeps its browser and its account, and its exchanges are counted.
AttemptsStay ==
    \A i \in Attempts :
        /\ origin[i] # Nobody => origin'[i] = origin[i]
        /\ google[i] \notin {"away", "asked"} => google'[i] = google[i]
        /\ exchanged'[i] >= exchanged[i]

LEMMA HandlesKeepsAttempts ==
    ASSUME TypeInv, OwnInv, NEW h \in Handlers, Handles(h)
    PROVE  /\ AttemptsStay
           /\ \A g \in Handlers \ {h} :
                 handler[g].op = "login" /\ handler[g].ok => google'[handler[g].id] = google[handler[g].id]
<1>0. Shape
  BY DEF TypeInv
<1>1. CASE Answer(h)
  <2>1. google' = IF Begun(h) THEN [google EXCEPT ![handler[h].id] = "asked"] ELSE google
    BY <1>0, <1>1, AnswerMoves
  <2>2. Begun(h) => google[handler[h].id] = "away"
    BY DEF OwnInv, Owner, Begun
  <2>3. \A i \in Attempts : google[i] \notin {"away", "asked"} => google'[i] = google[i]
    BY <1>0, <2>1, <2>2 DEF Shape
  <2>4. ASSUME NEW g \in Handlers \ {h}, handler[g].op = "login", handler[g].ok
        PROVE  google'[handler[g].id] = google[handler[g].id]
    <3>1. handler[g].id \in Attempts
      BY <2>4 DEF OwnInv, Owner
    <3>2. Begun(h) => handler[g].id # handler[h].id
      BY <2>4 DEF OwnInv, Distinct, Begun
    <3> QED
      BY <1>0, <2>1, <3>1, <3>2 DEF Shape
  <2>5. origin' = origin /\ exchanged' = exchanged
    BY <1>0, <1>1, AnswerMoves
  <2> QED
    BY <1>0, <2>3, <2>4, <2>5 DEF AttemptsStay, Shape
<1>2. CASE Insert(h)
  <2>1. PICK i \in Attempts :
           /\ origin[i] = Nobody /\ origin' = [origin EXCEPT ![i] = handler[h].browser]
           /\ UNCHANGED <<google, exchanged>>
    BY <1>0, <1>2, InsertMoves
  <2> QED
    BY <1>0, <2>1 DEF AttemptsStay, Shape
<1>3. CASE Exchange(h)
  BY <1>0, <1>3, ExchangeMoves DEF AttemptsStay, Shape
<1>4. CASE ~(Answer(h) \/ Insert(h) \/ Exchange(h))
  <2>1. google' = google /\ origin' = origin /\ exchanged' = exchanged
    BY <1>0, <1>4, Elsewhere
  <2> QED
    BY <1>0, <2>1 DEF AttemptsStay, Shape
<1> QED
  BY <1>1, <1>2, <1>3, <1>4

LEMMA OthersStayOwners ==
    ASSUME TypeInv, OwnInv, NEW h \in Handlers, Handles(h), NEW g \in Handlers \ {h}
    PROVE  Owner(g)'
<1>1. handler'[g] = handler[g] /\ Owner(g) /\ Staged(g) /\ handler[g] \in Handling
  BY HandlesKeepsStage, HandlerType DEF Only, OwnInv, TypeInv, Stages
<1>2. /\ AttemptsStay
      /\ handler[g].op = "login" /\ handler[g].ok => google'[handler[g].id] = google[handler[g].id]
  BY HandlesKeepsAttempts
<1> DEFINE i == handler[g].id
<1>3. \A j \in Attempts : google[j] \in Accounts => google[j] \notin {"away", "asked"}
  BY SignInAssumption
<1>4. ASSUME handler[g].op = "login", handler[g].ok
      PROVE  /\ handler[g].step = "answer" /\ i \in Attempts
             /\ origin'[i] = handler[g].browser /\ google'[i] = "away"
  <2>1. /\ handler[g].step = "answer" /\ i \in Attempts
        /\ origin[i] = handler[g].browser /\ google[i] = "away"
    BY <1>1, <1>4 DEF Owner
  <2>2. origin[i] # Nobody
    BY <1>1, <1>4, <2>1, SignInAssumption DEF Staged
  <2> QED
    BY <1>2, <1>4, <2>1, <2>2 DEF AttemptsStay
<1>5. ASSUME handler[g].op = "callback"
      PROVE  /\ i \in Attempts /\ google'[i] = google[i] /\ google[i] \notin {"away", "asked"}
             /\ exchanged'[i] >= exchanged[i]
             /\ handler[g].step # "answer" \/ handler[g].ok => origin'[i] = handler[g].browser
  <2>1. i \in Attempts /\ google[i] \notin {"away", "asked"}
    BY <1>1, <1>5 DEF Owner, Staged
  <2>2. ASSUME handler[g].step # "answer" \/ handler[g].ok PROVE origin'[i] = handler[g].browser
    <3>1. origin[i] = handler[g].browser /\ origin[i] # Nobody
      BY <1>1, <1>5, <2>2, SignInAssumption DEF Owner, Staged
    <3> QED
      BY <1>2, <2>1, <3>1 DEF AttemptsStay
  <2> QED
    BY <1>2, <2>1, <2>2 DEF AttemptsStay
<1>6. \A j \in Attempts : exchanged[j] \in Nat /\ exchanged'[j] \in Nat
  <2>1. Shape /\ Shape'
    BY HandlersKeepShape DEF TypeInv, Stages, Handles
  <2> QED
    BY <2>1 DEF Shape
<1>7. handler[g].step \in {"exchange", "lock", "commit", "drop"} =>
         handler[g].op = "callback" /\ google'[i] \in Accounts
  BY <1>1, <1>5 DEF Owner, Staged
<1>8. handler[g].step \in {"lock", "commit", "drop"} => exchanged'[i] > 0
  BY <1>1, <1>5, <1>6 DEF Owner, Staged
<1> HIDE DEF i
<1> QED
  BY <1>1, <1>4, <1>5, <1>7, <1>8 DEF Owner, i

LEMMA HandlesKeepsOwner ==
    ASSUME TypeInv, OwnInv, NEW h \in Handlers, Handles(h)
    PROVE  Owner(h)'
<1>0. Shape /\ Staged(h) /\ Owner(h) /\ Jars
  BY DEF TypeInv, Stages, OwnInv
<1>1. CASE \E b \in Browsers : Login(h, b) \/ Logout(h, b)
  BY <1>0, <1>1, LoginMoves, LogoutMoves DEF Owner
<1>2. ASSUME NEW b \in Browsers, NEW i \in Attempts, Callback(h, b, i) PROVE Owner(h)'
  <2>1. SameBrowser(b, i) => origin[i] = b
    BY <1>0, AttemptsAreIds DEF SameBrowser, Jars
  <2> QED
    BY <1>0, <1>2, <2>1, CallbackMoves DEF Owner
<1>3. CASE Count(h)
  BY <1>0, <1>3, CountMoves DEF Owner, Same, Staged, At
<1>4. CASE Insert(h)
  <2>1. PICK i \in Attempts :
           /\ Same(h) /\ At(h, "insert") /\ origin[i] = Nobody
           /\ handler'[h].id = i /\ handler'[h].step = "answer"
           /\ origin' = [origin EXCEPT ![i] = handler[h].browser] /\ google' = google
    BY <1>0, <1>4, InsertMoves
  <2>2. handler'[h].op = "login" /\ google[i] = "away" /\ origin'[i] = handler'[h].browser
    BY <1>0, <2>1 DEF Staged, OwnInv, Unmade, Same, At, Shape
  <2> QED
    BY <2>1, <2>2 DEF Owner
<1>5. CASE Claim(h)
  <2>1. google[handler[h].id] \in Accounts \cup {"declined"} /\ handler[h].op = "callback"
    BY <1>0, <1>5, ClaimMoves DEF Owner, Staged, Shape, At
  <2> QED
    BY <1>0, <1>5, <2>1, ClaimMoves DEF Owner, Same, Staged, At
<1>6. CASE Exchange(h)
  <2>1. handler[h].id \in Attempts
    BY <1>0, <1>6, ExchangeMoves DEF Staged, At
  <2>2. exchanged'[handler[h].id] > 0
    BY <1>0, <1>6, <2>1, ExchangeMoves DEF Shape
  <2> QED
    BY <1>0, <1>6, <2>1, <2>2, ExchangeMoves DEF Owner, Same, Staged, At
<1>7. CASE Fail(h)
  BY <1>0, <1>7, FailMoves DEF Owner, Same, Staged, Flowing, At
<1>8. CASE Lock(h) \/ Commit(h)
  BY <1>0, <1>8, LockMoves, CommitMoves DEF Owner, Same, Staged, At
<1>9. CASE Drop(h)
  BY <1>0, <1>9, DropMoves DEF Owner, Same, Staged, At
<1>10. CASE End(h)
  BY <1>0, <1>10, EndMoves DEF Owner, Same, Staged, At
<1>11. CASE Answer(h) \/ Abandon(h)
  BY <1>0, <1>11, AnswerMoves, AbandonMoves DEF Owner
<1> QED
  BY <1>1, <1>2, <1>3, <1>4, <1>5, <1>6, <1>7, <1>8, <1>9, <1>10, <1>11 DEF Handles

LEMMA HandlesKeepsUnmade ==
    ASSUME TypeInv, OwnInv, NEW h \in Handlers, Handles(h)
    PROVE  Unmade'
<1>0. Shape /\ Staged(h) /\ Owner(h) /\ Unmade
  BY DEF TypeInv, Stages, OwnInv
<1>1. CASE Answer(h)
  <2>1. Begun(h) => handler[h].id \in Attempts /\ origin[handler[h].id] # Nobody
    BY <1>0, SignInAssumption DEF Begun, Owner, Staged
  <2> QED
    BY <1>0, <1>1, <2>1, AnswerMoves DEF Unmade, Shape
<1>2. CASE Insert(h)
  <2>1. handler[h].browser # Nobody
    BY <1>0, <1>2, InsertMoves, SignInAssumption DEF Staged, At
  <2> QED
    BY <1>0, <1>2, <2>1, InsertMoves DEF Unmade, Shape
<1>3. CASE Exchange(h)
  <2>1. handler[h].id \in Attempts /\ origin[handler[h].id] # Nobody
    BY <1>0, <1>3, ExchangeMoves, SignInAssumption DEF Owner, Staged, At
  <2> QED
    BY <1>0, <1>3, <2>1, ExchangeMoves DEF Unmade, Shape
<1>4. CASE ~(Answer(h) \/ Insert(h) \/ Exchange(h))
  <2>1. google' = google /\ origin' = origin /\ exchanged' = exchanged /\ attempts' \subseteq attempts
    BY <1>0, <1>4, Elsewhere
  <2> QED
    BY <1>0, <2>1 DEF Unmade
<1> QED
  BY <1>1, <1>2, <1>3, <1>4

\* A login that brings an attempt has just inserted it, if it did not before.
LEMMA HandlesKeepsDistinct ==
    ASSUME TypeInv, OwnInv, NEW h \in Handlers, Handles(h)
    PROVE  Distinct'
<1>0. Shape /\ Staged(h) /\ Only(h) /\ Distinct
  BY HandlesKeepsStage DEF TypeInv, Stages, OwnInv
<1>1. SUFFICES ASSUME NEW g \in Handlers \ {h},
                      handler[g].op = "login", handler[g].ok, handler'[h].op = "login", handler'[h].ok
               PROVE  handler[g].id # handler'[h].id
  BY <1>0 DEF Distinct, Only
<1>2. handler[g].id \in Attempts /\ origin[handler[g].id] # Nobody
  BY <1>1, SignInAssumption DEF OwnInv, Owner, TypeInv, Stages, Staged
<1>3. CASE \E b \in Browsers : Login(h, b) \/ Logout(h, b) \/ (\E i \in Attempts : Callback(h, b, i))
  BY <1>0, <1>1, <1>3, LoginMoves, LogoutMoves, CallbackMoves
<1>4. CASE Count(h) \/ Claim(h) \/ Exchange(h)
  BY <1>0, <1>1, <1>4, CountMoves, ClaimMoves, ExchangeMoves DEF Distinct, Same, Staged, At
<1>5. CASE Insert(h)
  BY <1>0, <1>2, <1>5, InsertMoves
<1>6. CASE Fail(h) \/ Lock(h) \/ Commit(h)
  BY <1>0, <1>1, <1>6, FailMoves, LockMoves, CommitMoves DEF Same, Staged, At
<1>7. CASE Drop(h) \/ End(h)
  BY <1>0, <1>1, <1>7, DropMoves, EndMoves DEF Same, Staged, At
<1>8. CASE Answer(h) \/ Abandon(h)
  BY <1>0, <1>1, <1>8, AnswerMoves, AbandonMoves
<1> QED
  BY <1>3, <1>4, <1>5, <1>6, <1>7, <1>8 DEF Handles

\* Cookies are set by Answer alone, to the attempt of the browser's own request.
LEMMA HandlesKeepsJars ==
    ASSUME TypeInv, OwnInv, NEW h \in Handlers, Handles(h)
    PROVE  Jars'
<1>0. Shape /\ Staged(h) /\ Owner(h) /\ Jars /\ AttemptsStay
  BY HandlesKeepsAttempts DEF TypeInv, Stages, OwnInv
<1>1. ASSUME NEW b \in Browsers, NEW i \in Ids, i # 0, origin[i] = b PROVE origin'[i] = b
  <2>1. i \in Attempts /\ b # Nobody
    BY <1>1, SignInAssumption DEF Ids, Attempts
  <2> QED
    BY <1>0, <1>1, <2>1 DEF AttemptsStay
<1>2. \A b \in Browsers : jar[b].login \in Ids /\ jar[b].session \in Ids
  BY <1>0 DEF Shape
<1>3. CASE jar' = jar
  BY <1>0, <1>1, <1>2, <1>3 DEF Jars
<1>4. CASE Answer(h)
  <2> DEFINE r == handler[h]
  <2>1. jar' = [jar EXCEPT ![r.browser] = Cookies(@, r)] /\ origin' = origin /\ r.step = "answer"
    BY <1>0, <1>4, AnswerMoves DEF At
  <2>2. SUFFICES ASSUME NEW b \in Browsers
                 PROVE  /\ jar'[b].login # 0 => origin[jar'[b].login] = b
                        /\ jar'[b].session # 0 => origin[jar'[b].session] = b
    BY <2>1 DEF Jars
  <2>3. CASE b # r.browser
    BY <1>0, <2>1, <2>3 DEF Jars, Shape
  <2>4. CASE b = r.browser
    <3>1. jar'[b] = Cookies(jar[b], r) /\ jar[b] \in [login : Ids, session : Ids]
      BY <1>0, <2>1, <2>4 DEF Shape
    <3>2. r.op = "login" /\ r.ok => origin[r.id] = b
      BY <1>0, <2>4 DEF Owner
    <3>3. r.op = "callback" /\ r.ok => origin[r.id] = b
      BY <1>0, <2>4 DEF Owner
    <3>4. /\ jar[b].login # 0 => origin[jar[b].login] = b
          /\ jar[b].session # 0 => origin[jar[b].session] = b
      BY <1>0 DEF Jars
    <3> HIDE DEF r
    <3>5. CASE r.op = "login" /\ r.ok
      <4>1. jar'[b] = [jar[b] EXCEPT !.login = r.id]
        BY <3>1, <3>5 DEF Cookies
      <4> QED
        BY <3>1, <3>2, <3>4, <3>5, <4>1
    <3>6. CASE r.op = "callback"
      <4>1. jar'[b] = [login |-> 0, session |-> IF r.ok THEN r.id ELSE jar[b].session]
        BY <3>1, <3>6 DEF Cookies
      <4> QED
        BY <3>1, <3>3, <3>4, <3>6, <4>1
    <3>7. CASE r.op = "logout"
      <4>1. jar'[b] = [jar[b] EXCEPT !.session = 0]
        BY <3>1, <3>7 DEF Cookies
      <4> QED
        BY <3>1, <3>4, <3>7, <4>1
    <3>8. CASE ~(r.op = "login" /\ r.ok) /\ r.op # "callback" /\ r.op # "logout"
      <4>1. jar'[b] = jar[b]
        BY <3>1, <3>8 DEF Cookies
      <4> QED
        BY <3>4, <4>1
    <3> QED
      BY <3>5, <3>6, <3>7, <3>8
  <2> QED
    BY <2>3, <2>4
<1> QED
  BY <1>0, <1>3, <1>4, Elsewhere

\* A session is created by a callback whose attempt was exchanged.
LEMMA HandlesKeepsGenuine ==
    ASSUME TypeInv, OwnInv, NEW h \in Handlers, Handles(h)
    PROVE  Genuine'
<1>0. Shape /\ Shape' /\ Staged(h) /\ Owner(h) /\ Genuine /\ AttemptsStay
  BY HandlesKeepsAttempts, HandlersKeepShape DEF TypeInv, Stages, OwnInv, Handles
<1>1. ASSUME NEW s \in Attempts, google[s] \in Accounts, exchanged[s] > 0
      PROVE  google'[s] \in Accounts /\ exchanged'[s] > 0
  <2>1. google'[s] = google[s] /\ exchanged'[s] >= exchanged[s]
    BY <1>0, <1>1, SignInAssumption DEF AttemptsStay
  <2>2. exchanged[s] \in Nat /\ exchanged'[s] \in Nat
    BY <1>0 DEF Shape
  <2> QED
    BY <1>1, <2>1, <2>2
<1>2. CASE sessions' \subseteq sessions
  BY <1>0, <1>1, <1>2 DEF Genuine, Shape
<1>3. CASE Commit(h)
  <2>1. At(h, "commit") /\ sessions' = (sessions \ handler[h].gone) \cup {handler[h].id}
    BY <1>0, <1>3, CommitMoves
  <2>2. handler[h].id \in Attempts /\ google[handler[h].id] \in Accounts /\ exchanged[handler[h].id] > 0
    BY <1>0, <2>1 DEF Owner, Staged, At
  <2> QED
    BY <1>0, <1>1, <2>1, <2>2 DEF Genuine, Shape
<1> QED
  BY <1>0, <1>2, <1>3, Elsewhere

\* A browser's requests that set the login cookie cross its attempts as they
\* arrive, and an attempt that is made beside them is crossed at once.
LEMMA HandlesKeepsCalm ==
    ASSUME TypeInv, OwnInv, NEW h \in Handlers, Handles(h)
    PROVE  Calm'
<1>0. Shape /\ Staged(h) /\ Owner(h) /\ Calm /\ AttemptsStay /\ Only(h)
  BY HandlesKeepsAttempts, HandlesKeepsStage DEF TypeInv, Stages, OwnInv
<1>1. ASSUME origin' = origin, crossed \subseteq crossed',
             \A i \in Attempts \ crossed' :
                origin[i] # Nobody /\ CalmFor(i, handler[h]) => CalmFor(i, handler'[h])
      PROVE  Calm'
  <2>1. SUFFICES ASSUME NEW i \in Attempts \ crossed', origin[i] # Nobody, NEW g \in Handlers
                 PROVE  CalmFor(i, handler'[g])
    BY <1>1 DEF Calm, CalmFor
  <2>2. CalmFor(i, handler[g]) /\ CalmFor(i, handler[h])
    BY <1>0, <1>1, <2>1 DEF Calm
  <2>3. CASE g = h
    BY <1>1, <2>1, <2>2, <2>3
  <2>4. CASE g # h
    BY <1>0, <2>2, <2>4 DEF Only
  <2> QED
    BY <2>3, <2>4
<1>2. ASSUME NEW b \in Browsers, Login(h, b) \/ Logout(h, b) PROVE Calm'
  BY <1>0, <1>1, <1>2, LoginMoves, LogoutMoves DEF CalmFor
<1>3. ASSUME NEW b \in Browsers, NEW i \in Attempts, Callback(h, b, i) PROVE Calm'
  BY <1>0, <1>1, <1>3, CallbackMoves DEF CalmFor, AttemptsOf
<1>4. CASE Count(h) \/ Claim(h) \/ Exchange(h)
  <2>1. /\ origin' = origin /\ crossed' = crossed /\ Same(h) /\ handler'[h].id = handler[h].id
        /\ handler[h].op = "callback" \/ handler'[h].ok = handler[h].ok \/ ~handler'[h].ok
    BY <1>0, <1>4, CountMoves, ClaimMoves, ExchangeMoves DEF Staged, At
  <2> QED
    BY <1>1, <2>1 DEF CalmFor, Same
<1>5. CASE Fail(h) \/ Lock(h) \/ Commit(h)
  <2>1. /\ origin' = origin /\ crossed' = crossed /\ Same(h) /\ handler'[h].id = handler[h].id
        /\ handler[h].op = "callback" \/ handler'[h].ok = handler[h].ok \/ ~handler'[h].ok
    BY <1>0, <1>5, FailMoves, LockMoves, CommitMoves DEF Staged, At
  <2> QED
    BY <1>1, <2>1 DEF CalmFor, Same
<1>6. CASE Drop(h) \/ End(h)
  BY <1>0, <1>1, <1>6, DropMoves, EndMoves DEF CalmFor, Same, Staged, At
<1>7. CASE Answer(h) \/ Abandon(h)
  BY <1>0, <1>1, <1>7, AnswerMoves, AbandonMoves DEF CalmFor
<1>8. CASE Insert(h)
  <2>1. PICK i \in Attempts :
           /\ Same(h) /\ At(h, "insert") /\ origin[i] = Nobody
           /\ handler'[h].id = i
           /\ origin' = [origin EXCEPT ![i] = handler[h].browser]
           /\ crossed' = crossed \cup AttemptsOf(handler[h].browser)
                           \cup IF Beside(h) THEN {i} ELSE {}
    BY <1>0, <1>8, InsertMoves
  <2>2. handler[h].op = "login" /\ handler'[h].op = "login"
        /\ handler'[h].browser = handler[h].browser
    BY <1>0, <2>1 DEF Same, Staged, At
  <2>3. ASSUME NEW j \in Attempts \ crossed', origin'[j] # Nobody, NEW g \in Handlers
        PROVE  CalmFor(j, handler[g])' 
    <3>1. CASE j = i /\ g = h
      BY <2>1, <2>2, <3>1 DEF CalmFor
    <3>2. CASE j = i /\ g # h
      <4>1. ~Beside(h)
        BY <2>1, <2>3, <3>2
      <4>2. handler'[g] = handler[g] /\ origin'[j] = handler[h].browser
        BY <1>0, <2>1, <3>2 DEF Only, Shape
      <4> QED
        BY <3>2, <4>1, <4>2 DEF Beside, CalmFor
    <3>3. CASE j # i
      <4>1. origin'[j] = origin[j] /\ j \notin crossed /\ origin[j] # handler[h].browser
        BY <1>0, <2>1, <2>3, <3>3 DEF AttemptsOf, Shape
      <4>2. CASE g = h
        BY <2>2, <4>1, <4>2 DEF CalmFor
      <4>3. CASE g # h
        BY <1>0, <2>3, <4>1, <4>3 DEF Calm, CalmFor, Only
      <4> QED
        BY <4>2, <4>3
    <3> QED
      BY <3>1, <3>2, <3>3
  <2> QED
    BY <2>3 DEF Calm
<1> QED
  BY <1>2, <1>3, <1>4, <1>5, <1>6, <1>7, <1>8 DEF Handles

LEMMA HandlesKeepsCookies ==
    ASSUME TypeInv, OwnInv, NEW h \in Handlers, Handles(h)
    PROVE  OwnCookieStays'
<1>0. Shape /\ Staged(h) /\ Owner(h) /\ Unmade /\ Calm /\ OwnCookieStays /\ AttemptsStay
  BY HandlesKeepsAttempts DEF TypeInv, Stages, OwnInv
<1>1. CASE jar' = jar /\ google' = google /\ crossed \subseteq crossed'
  <2>1. \A i \in Attempts : google[i] # "away" => origin'[i] = origin[i]
    BY <1>0 DEF Unmade, AttemptsStay
  <2>2. \A i \in attempts' : google[i] # "away" => i \in attempts /\ i \in Attempts
    <3>1. CASE Insert(h)
      <4>1. PICK i \in Attempts : origin[i] = Nobody /\ attempts' = attempts \cup {i}
        BY <1>0, <3>1, InsertMoves
      <4>2. google[i] = "away"
        BY <1>0, <4>1 DEF Unmade
      <4> QED
        BY <1>0, <4>1, <4>2 DEF Shape
    <3>2. CASE attempts' \subseteq attempts
      BY <1>0, <3>2 DEF Shape
    <3> QED
      BY <1>0, <3>1, <3>2, Elsewhere
  <2> QED
    BY <1>0, <1>1, <2>1, <2>2 DEF OwnCookieStays
<1>2. CASE Answer(h)
  <2> DEFINE r == handler[h]
  <2>1. /\ jar' = [jar EXCEPT ![r.browser] = Cookies(@, r)] /\ origin' = origin /\ r.step = "answer"
        /\ google' = IF Begun(h) THEN [google EXCEPT ![r.id] = "asked"] ELSE google
        /\ crossed' = crossed /\ attempts' = attempts
    BY <1>0, <1>2, AnswerMoves DEF At
  <2>2. r.browser \in Browsers /\ r \in Handling
    BY <1>0, <2>1, HandlerType DEF Staged
  <2>3. Begun(h) => r.id \in Attempts /\ origin[r.id] = r.browser
    BY <1>0 DEF Owner, Begun
  <2>4. SUFFICES ASSUME NEW i \in attempts, google'[i] # "away", i \notin crossed'
                 PROVE  jar'[origin[i]].login = i
    BY <2>1 DEF OwnCookieStays
  <2>5. i \notin crossed /\ i \in Attempts
    BY <1>0, <2>1, <2>4 DEF Shape
  <2>6. CASE Begun(h) /\ i = r.id
    <3>1. jar'[r.browser] = Cookies(jar[r.browser], r) /\ jar[r.browser] \in [login : Ids, session : Ids]
      BY <1>0, <2>1, <2>2 DEF Shape
    <3>2. Cookies(jar[r.browser], r) = [jar[r.browser] EXCEPT !.login = r.id]
      BY <2>6 DEF Cookies, Begun
    <3> QED
      BY <2>3, <2>6, <3>1, <3>2
  <2>7. CASE ~(Begun(h) /\ i = r.id)
    <3>1. google'[i] = google[i]
      BY <1>0, <2>1, <2>5, <2>7 DEF Shape
    <3>2. jar[origin[i]].login = i /\ origin[i] \in Browsers
      BY <1>0, <2>4, <2>5, <3>1 DEF OwnCookieStays, Unmade, Shape
    <3>3. CASE origin[i] # r.browser
      BY <1>0, <2>1, <3>2, <3>3 DEF Shape
    <3>4. CASE origin[i] = r.browser
      <4>1. ~Begun(h) /\ r.op # "callback"
        BY <1>0, <2>5, <2>7, <3>2, <3>4, SignInAssumption DEF Calm, CalmFor, Begun
      <4>2. jar'[r.browser] = Cookies(jar[r.browser], r) /\ jar[r.browser] \in [login : Ids, session : Ids]
        BY <1>0, <2>1, <2>2 DEF Shape
      <4>3. Cookies(jar[r.browser], r) \in {jar[r.browser], [jar[r.browser] EXCEPT !.session = 0]}
        BY <4>1 DEF Cookies, Begun
      <4> QED
        BY <3>2, <3>4, <4>2, <4>3
    <3> QED
      BY <3>3, <3>4
  <2> QED
    BY <2>6, <2>7
<1> QED
  BY <1>0, <1>1, <1>2, Elsewhere

LEMMA SurroundingsKeepOwn ==
    ASSUME TypeInv, OwnInv, Surroundings
    PROVE  OwnInv'
<1>0. Shape /\ Stages
  BY DEF TypeInv
<1>1. /\ UNCHANGED <<handler, origin, exchanged, crossed>>
      /\ attempts' \subseteq attempts /\ sessions' \subseteq sessions
  BY SurroundingsMove
<1>2. \A i \in Attempts :
         /\ google[i] # "asked" => google'[i] = google[i]
         /\ google[i] = "asked" => google'[i] # "away" /\ google'[i] \in Accounts \cup {"asked", "declined"}
  BY <1>0, SurroundingsMove, SignInAssumption DEF Shape
<1>3. Unmade'
  BY <1>1, <1>2 DEF OwnInv, Unmade
<1>4. ASSUME NEW h \in Handlers PROVE Owner(h)'
  <2>1. Owner(h) /\ Staged(h) /\ handler'[h] = handler[h]
    BY <1>0, <1>1 DEF OwnInv, Stages
  <2>2. handler[h].op = "callback" => google'[handler[h].id] = google[handler[h].id]
    BY <1>2, <2>1 DEF Owner, Staged
  <2> QED
    BY <1>1, <1>2, <2>1, <2>2 DEF Owner, Staged
<1>5. Distinct' /\ Jars' /\ Calm'
  BY <1>0, <1>1, JarsFade DEF OwnInv, Distinct, Jars, Calm, CalmFor
<1>6. Genuine'
  BY <1>0, <1>1, <1>2, SignInAssumption DEF OwnInv, Genuine, Shape
<1>7. OwnCookieStays'
  <2>1. SUFFICES ASSUME NEW i \in attempts', google'[i] # "away", i \notin crossed'
                 PROVE  jar'[origin[i]].login = i
    BY <1>1 DEF OwnCookieStays
  <2>2. i \in attempts /\ i \in Attempts /\ google[i] # "away" /\ i \notin crossed
    BY <1>0, <1>1, <1>2, <2>1 DEF Shape
  <2>3. jar[origin[i]].login = i /\ origin[i] \in Browsers
    BY <1>0, <2>2 DEF OwnInv, OwnCookieStays, Unmade, Shape
  <2> QED
    BY <1>0, <2>2, <2>3, JarsFade
<1> QED
  BY <1>3, <1>4, <1>5, <1>6, <1>7 DEF OwnInv

LEMMA OwnInit == Init => OwnInv
BY AttemptsAreIds DEF Init, OwnInv, Unmade, Owner, Distinct, Jars, Genuine, Calm,
   OwnCookieStays, NoRequest

LEMMA OwnStep == TypeInv /\ OwnInv /\ [Next]_vars => OwnInv'
<1> SUFFICES ASSUME TypeInv, OwnInv, [Next]_vars PROVE OwnInv'
  OBVIOUS
<1>1. ASSUME NEW h \in Handlers, Handles(h) PROVE OwnInv'
  <2>1. \A g \in Handlers : Owner(g)'
    BY <1>1, OthersStayOwners, HandlesKeepsOwner
  <2> QED
    BY <1>1, <2>1, HandlesKeepsUnmade, HandlesKeepsDistinct, HandlesKeepsJars,
       HandlesKeepsGenuine, HandlesKeepsCalm, HandlesKeepsCookies DEF OwnInv
<1>2. CASE UNCHANGED vars
  BY <1>2 DEF vars, OwnInv, Unmade, Owner, Distinct, Jars, Genuine, Calm, CalmFor, OwnCookieStays
<1> QED
  BY <1>1, <1>2, SurroundingsKeepOwn, NextIs

LEMMA OwnInvariant == Spec => []OwnInv
BY TypeInvariant, OwnInit, OwnStep, PTL DEF Spec

\* The session cookie of a browser comes from an attempt that the browser made
\* itself, and every session from an attempt whose account was chosen at Google
\* and whose code was exchanged: finish_login compares state and login cookie.
THEOREM SignInsAreOwn == Spec => []SignedInByOwnAttempt
<1>1. OwnInv => SignedInByOwnAttempt
  BY DEF OwnInv, Jars, Genuine, SignedInByOwnAttempt
<1> QED
  BY <1>1, OwnInvariant, PTL

\* While an attempt can be used its browser has the cookie, unless the browser
\* itself began another attempt after it or loaded a callback, or had either on
\* its way when it began this one: no sign-out, failed login, expiry or other
\* browser takes it.
THEOREM CookiesAreLeftAlone == Spec => []OwnCookieStays
<1>1. OwnInv => OwnCookieStays
  BY DEF OwnInv
<1> QED
  BY <1>1, OwnInvariant, PTL

-----------------------------------------------------------------------------
(* Attempts are used once *)

\* While a row is there its code was not exchanged, nor is it about to be; the
\* one request that has deleted the row may exchange the code.
UsedInv ==
    /\ \A i \in Attempts : exchanged[i] <= 1
    /\ \A i \in attempts : exchanged[i] = 0
    /\ \A h \in Handlers : At(h, "exchange") =>
          handler[h].id \notin attempts /\ exchanged[handler[h].id] = 0
    /\ \A g, h \in Handlers :
          g # h /\ At(g, "exchange") /\ At(h, "exchange") => handler[g].id # handler[h].id

LEMMA HandlesKeepsUsed ==
    ASSUME TypeInv, OwnInv, UsedInv, NEW h \in Handlers, Handles(h)
    PROVE  UsedInv'
<1>0. Shape /\ Stages /\ Staged(h) /\ Only(h) /\ Unmade
  BY HandlesKeepsStage DEF TypeInv, Stages, OwnInv
<1>1. \A g \in Handlers : At(g, "exchange") => handler[g].id \in Attempts /\ origin[handler[g].id] # Nobody
  BY <1>0, SignInAssumption DEF Stages, Staged, OwnInv, Owner, At
<1>2. \A g \in Handlers \ {h} : handler'[g] = handler[g]
  BY <1>0 DEF Only
<1>3. CASE Claim(h)
  <2>1. /\ At(h, "claim") /\ handler'[h].id = handler[h].id
        /\ attempts' = attempts \ {handler[h].id} /\ exchanged' = exchanged
        /\ handler'[h].step = "exchange" => handler[h].id \in attempts
    BY <1>0, <1>3, ClaimMoves
  <2>2. \A g \in Handlers \ {h} : At(g, "exchange") => handler[g].id \notin attempts
    BY DEF UsedInv
  <2> QED
    BY <1>0, <1>2, <2>1, <2>2 DEF UsedInv, At
<1>4. CASE Exchange(h)
  <2>1. /\ At(h, "exchange") /\ handler'[h].step = "lock" /\ attempts' = attempts
        /\ exchanged' = [exchanged EXCEPT ![handler[h].id] = @ + 1]
    BY <1>0, <1>4, ExchangeMoves
  <2>2. exchanged[handler[h].id] = 0 /\ handler[h].id \notin attempts /\ handler[h].id \in Attempts
    BY <1>1, <2>1 DEF UsedInv
  <2>3. \A g \in Handlers \ {h} : At(g, "exchange") => handler[g].id # handler[h].id
    BY <2>1 DEF UsedInv
  <2>4. \A i \in Attempts : i # handler[h].id => exchanged'[i] = exchanged[i]
    BY <1>0, <2>1 DEF Shape
  <2>5. exchanged'[handler[h].id] = 1
    BY <1>0, <2>1, <2>2 DEF Shape
  <2>6. ~At(h, "exchange")' /\ attempts \subseteq Attempts
    BY <1>0, <2>1 DEF At, Shape
  <2> QED
    BY <1>1, <1>2, <2>1, <2>2, <2>3, <2>4, <2>5, <2>6 DEF UsedInv, At
<1>5. CASE Insert(h)
  <2>1. PICK i \in Attempts :
           /\ origin[i] = Nobody /\ handler'[h].step = "answer"
           /\ attempts' = attempts \cup {i} /\ exchanged' = exchanged
    BY <1>0, <1>5, InsertMoves
  <2>2. exchanged[i] = 0
    BY <1>0, <2>1 DEF Unmade
  <2>3. ~At(h, "exchange")'
    BY <2>1 DEF At
  <2> QED
    BY <1>1, <1>2, <2>1, <2>2, <2>3 DEF UsedInv, At
<1>6. CASE ~(Claim(h) \/ Exchange(h) \/ Insert(h))
  <2>1. attempts' \subseteq attempts /\ exchanged' = exchanged /\ handler'[h].step # "exchange"
    BY <1>0, <1>6, Elsewhere
  <2> QED
    BY <1>2, <2>1 DEF UsedInv, At
<1> QED
  BY <1>3, <1>4, <1>5, <1>6

LEMMA UsedInit == Init => UsedInv
BY DEF Init, UsedInv, At, NoRequest

LEMMA UsedStep == TypeInv /\ OwnInv /\ UsedInv /\ [Next]_vars => UsedInv'
<1>1. ASSUME UsedInv, Surroundings PROVE UsedInv'
  BY <1>1, SurroundingsMove DEF UsedInv, At
<1>2. ASSUME UsedInv, UNCHANGED vars PROVE UsedInv'
  BY <1>2 DEF vars, UsedInv, At
<1> QED
  BY <1>1, <1>2, HandlesKeepsUsed, NextIs

\* The code of an attempt is exchanged once at most: DELETE ... RETURNING gives
\* the row to one request, and no attempt is made twice.
THEOREM AttemptsAreUsedOnce == Spec => []UsedOnce
<1>1. UsedInv => UsedOnce
  BY DEF UsedInv, UsedOnce
<1> QED
  BY <1>1, TypeInvariant, OwnInvariant, UsedInit, UsedStep, PTL DEF Spec

-----------------------------------------------------------------------------
(* The queue of attempts *)

\* The one request that has counted and not inserted yet still finds room.
QueueInv ==
    /\ Cardinality(attempts) <= QueueLimit
    /\ \A h \in Handlers : At(h, "insert") => Cardinality(attempts) < QueueLimit
    /\ \A g, h \in Handlers : At(g, "insert") /\ At(h, "insert") => g = h

LEMMA AttemptsAreFinite ==
    ASSUME NEW S \in SUBSET Attempts
    PROVE  IsFiniteSet(S) /\ Cardinality(S) \in Nat
<1>1. IsFiniteSet(1..MaxAttempts)
  BY SignInAssumption, FS_Interval
<1> QED
  BY <1>1, FS_Subset, FS_CardinalityType DEF Attempts

LEMMA FewerAttempts ==
    ASSUME NEW S \in SUBSET Attempts, NEW T \in SUBSET S
    PROVE  Cardinality(T) <= Cardinality(S) /\ Cardinality(T) \in Nat /\ Cardinality(S) \in Nat
BY AttemptsAreFinite, FS_Subset

LEMMA HandlesKeepsQueue ==
    ASSUME TypeInv, QueueInv, NEW h \in Handlers, Handles(h)
    PROVE  QueueInv'
<1>0. Shape /\ Only(h) /\ QueueLimit \in Nat /\ attempts \in SUBSET Attempts
  BY HandlesKeepsStage, SignInAssumption DEF TypeInv, Stages, Shape
<1>1. \A g \in Handlers \ {h} : handler'[g] = handler[g]
  BY <1>0 DEF Only
<1>2. CASE Count(h)
  <2>1. /\ \A g \in Handlers : ~At(g, "insert")
        /\ attempts' = attempts
        /\ handler'[h].step = "insert" => Cardinality(attempts) < QueueLimit
    BY <1>0, <1>2, CountMoves DEF QueueLock
  <2> QED
    BY <1>1, <2>1 DEF QueueInv, At
<1>3. CASE Insert(h)
  <2>1. PICK i \in Attempts :
           At(h, "insert") /\ handler'[h].step = "answer" /\ attempts' = attempts \cup {i}
    BY <1>0, <1>3, InsertMoves
  <2>2. \A g \in Handlers : ~At(g, "insert")'
    BY <1>1, <2>1 DEF QueueInv, At
  <2>3. Cardinality(attempts') <= Cardinality(attempts) + 1
    BY <1>0, <2>1, AttemptsAreFinite, FS_AddElement
  <2>4. Cardinality(attempts) < QueueLimit /\ Cardinality(attempts) \in Nat
    BY <1>0, <2>1, AttemptsAreFinite DEF QueueInv
  <2>5. Cardinality(attempts') \in Nat
    BY <1>0, <2>1, AttemptsAreFinite
  <2> QED
    BY <1>0, <2>2, <2>3, <2>4, <2>5 DEF QueueInv
<1>4. CASE ~(Count(h) \/ Insert(h))
  <2>1. attempts' \subseteq attempts /\ handler'[h].step # "insert"
    BY <1>0, <1>4, Elsewhere
  <2>2. /\ Cardinality(attempts') <= Cardinality(attempts)
        /\ Cardinality(attempts') \in Nat /\ Cardinality(attempts) \in Nat
    BY <1>0, <2>1, FewerAttempts
  <2> QED
    BY <1>0, <1>1, <2>1, <2>2 DEF QueueInv, At
<1> QED
  BY <1>2, <1>3, <1>4

LEMMA QueueInit == Init => QueueInv
<1>1. Cardinality({}) = 0 /\ QueueLimit \in Nat
  BY FS_EmptySet, SignInAssumption
<1> QED
  BY <1>1 DEF Init, QueueInv, At, NoRequest

LEMMA QueueStep == TypeInv /\ QueueInv /\ [Next]_vars => QueueInv'
<1>1. ASSUME TypeInv, QueueInv, Surroundings PROVE QueueInv'
  <2>1. attempts \in SUBSET Attempts /\ attempts' \subseteq attempts /\ handler' = handler
    BY <1>1, SurroundingsMove DEF TypeInv, Shape
  <2>2. /\ Cardinality(attempts') <= Cardinality(attempts) /\ QueueLimit \in Nat
        /\ Cardinality(attempts') \in Nat /\ Cardinality(attempts) \in Nat
    BY <2>1, FewerAttempts, SignInAssumption
  <2> QED
    BY <1>1, <2>1, <2>2 DEF QueueInv, At
<1>2. ASSUME QueueInv, UNCHANGED vars PROVE QueueInv'
  BY <1>2 DEF vars, QueueInv, At
<1> QED
  BY <1>1, <1>2, HandlesKeepsQueue, NextIs

\* No more attempts wait than the queue has room for: a login counts and
\* inserts under the advisory lock, and rows only vanish in between.
THEOREM QueueIsBounded == Spec => []QueueBounded
<1>1. QueueInv => QueueBounded
  BY DEF QueueInv, QueueBounded
<1> QED
  BY <1>1, TypeInvariant, QueueInit, QueueStep, PTL DEF Spec

-----------------------------------------------------------------------------
(* The sessions of an account *)

\* The one request that has the account's lock keeps what it has made room for:
\* sessions of the account only vanish until it commits.
SessionInv ==
    /\ \A a \in Accounts : Cardinality(Of(a)) <= Kept + 1
    /\ \A h \in Handlers : At(h, "commit") => Cardinality(Of(Account(h)) \ handler[h].gone) <= Kept
    /\ \A g, h \in Handlers :
          At(g, "commit") /\ At(h, "commit") /\ Account(g) = Account(h) => g = h

\* A request that is about to commit has an account, and keeps it.
LEMMA CommitterKeepsAccount ==
    ASSUME TypeInv, OwnInv, NEW h \in Handlers, Handles(h), NEW g \in Handlers \ {h}, At(g, "commit")
    PROVE  handler'[g] = handler[g] /\ Account(g) \in Accounts /\ Account(g)' = Account(g)
<1>1. handler'[g] = handler[g]
  BY HandlesKeepsStage DEF TypeInv, Stages, Only
<1>2. handler[g].id \in Attempts /\ google[handler[g].id] \in Accounts
  BY DEF TypeInv, Stages, Staged, OwnInv, Owner, At
<1>3. google'[handler[g].id] = google[handler[g].id]
  BY <1>2, HandlesKeepsAttempts, SignInAssumption DEF AttemptsStay
<1> QED
  BY <1>1, <1>2, <1>3 DEF Account

\* An account has the sessions it had, except for the ones that are added.
LEMMA AccountsKeepSessions ==
    ASSUME Shape, Genuine, NEW S, sessions' \subseteq sessions \cup S,
           \A i \in Attempts : google[i] \in Accounts => google'[i] = google[i],
           NEW a \in Accounts
    PROVE  Of(a)' \subseteq Of(a) \cup S
BY DEF Of, Shape, Genuine

LEMMA FewerSessions ==
    ASSUME Shape, NEW T \in SUBSET Attempts, NEW U \in SUBSET T, NEW n \in Nat, Cardinality(T) <= n
    PROVE  Cardinality(U) <= n
<1>1. Cardinality(U) <= Cardinality(T) /\ Cardinality(U) \in Nat /\ Cardinality(T) \in Nat
  BY FewerAttempts
<1> QED
  BY <1>1

\* No step but a commit adds sessions, and none but a lock takes an account.
LEMMA QuietKeepsSessions ==
    ASSUME TypeInv, OwnInv, SessionInv, sessions' \subseteq sessions,
           \A i \in Attempts : google[i] \in Accounts => google'[i] = google[i],
           \A g \in Handlers : At(g, "commit")' =>
              /\ handler'[g] = handler[g]
              /\ Account(g) \in Accounts /\ Account(g)' = Account(g)
    PROVE  SessionInv'
<1>0. Shape /\ Genuine /\ Kept \in Nat /\ Kept + 1 \in Nat
  BY SignInAssumption DEF TypeInv, OwnInv
<1>1. \A a \in Accounts : Of(a)' \subseteq Of(a)
  BY <1>0, AccountsKeepSessions
<1>2. \A a \in Accounts : Of(a) \in SUBSET Attempts
  BY <1>0 DEF Of, Shape
<1>3. ASSUME NEW a \in Accounts PROVE Cardinality(Of(a)') <= Kept + 1
  BY <1>0, <1>1, <1>2, <1>3, FewerSessions DEF SessionInv
<1>4. ASSUME NEW h \in Handlers, At(h, "commit")'
      PROVE  Cardinality((Of(Account(h)) \ handler[h].gone)') <= Kept
  <2> DEFINE a == Account(h)
  <2>1. a \in Accounts /\ Account(h)' = a /\ handler'[h] = handler[h] /\ At(h, "commit")
    BY <1>4 DEF At
  <2>2. (Of(Account(h)) \ handler[h].gone)' = Of(a)' \ handler[h].gone
    BY <2>1 DEF Of
  <2>3. /\ Of(a)' \ handler[h].gone \in SUBSET (Of(a) \ handler[h].gone)
        /\ Of(a) \ handler[h].gone \in SUBSET Attempts
    BY <1>1, <1>2, <2>1
  <2>4. Cardinality(Of(a) \ handler[h].gone) <= Kept
    BY <2>1 DEF SessionInv
  <2> HIDE DEF a
  <2>5. Cardinality(Of(a)' \ handler[h].gone) <= Kept
    BY <1>0, <2>3, <2>4, FewerSessions
  <2> QED
    BY <2>2, <2>5
<1>5. \A g, h \in Handlers :
         (At(g, "commit") /\ At(h, "commit") /\ Account(g) = Account(h))' => g = h
  BY DEF SessionInv, At
<1> QED
  BY <1>3, <1>4, <1>5 DEF SessionInv

\* The account is locked, and what is to be deleted leaves room.
LEMMA LockKeepsSessions ==
    ASSUME TypeInv, OwnInv, SessionInv, NEW h \in Handlers, Lock(h)
    PROVE  SessionInv'
<1> DEFINE mine == Of(Account(h))
<1>0. Shape /\ Kept \in Nat
  BY SignInAssumption DEF TypeInv
<1>1. /\ At(h, "lock") /\ AccountLock(Account(h)) /\ handler'[h].id = handler[h].id
      /\ handler'[h].gone \in Surplus(mine) /\ sessions' = sessions /\ google' = google
      /\ \A g \in Handlers \ {h} : handler'[g] = handler[g]
  BY <1>0, LockMoves DEF Only
<1>2. \A a : Of(a)' = Of(a)
  BY <1>1 DEF Of
<1>3. \A g \in Handlers : Account(g)' = Account(g)
  BY <1>1 DEF Account
<1>4. Cardinality(mine \ handler'[h].gone) <= Kept
  <2>1. mine \in SUBSET Attempts /\ mine \ {} = mine
    BY <1>0 DEF Of, Shape
  <2>2. Cardinality(mine) \in Nat
    BY <2>1, AttemptsAreFinite
  <2> HIDE DEF mine
  <2>3. \/ Cardinality(mine \ handler'[h].gone) = Kept
        \/ handler'[h].gone = {} /\ Cardinality(mine) < Kept
    BY <1>1 DEF Surplus
  <2> QED
    BY <1>0, <2>1, <2>2, <2>3
<1>5. ASSUME NEW g \in Handlers, At(g, "commit")'
      PROVE  Cardinality((Of(Account(g)) \ handler[g].gone)') <= Kept
  <2>1. (Of(Account(g)) \ handler[g].gone)' = Of(Account(g)) \ handler'[g].gone
    BY <1>2, <1>3 DEF Of
  <2>2. CASE g = h
    BY <1>4, <2>1, <2>2
  <2>3. CASE g # h
    BY <1>1, <1>5, <2>1, <2>3 DEF SessionInv, At
  <2> QED
    BY <2>2, <2>3
<1>6. \A g \in Handlers \ {h} : At(g, "commit")' => Account(g) # Account(h)
  BY <1>1 DEF AccountLock, At
<1>7. \A f, g \in Handlers :
         (At(f, "commit") /\ At(g, "commit") /\ Account(f) = Account(g))' => f = g
  BY <1>1, <1>3, <1>6 DEF SessionInv, At
<1> QED
  BY <1>2, <1>5, <1>7 DEF SessionInv

\* The new session takes the room, and other accounts keep theirs.
LEMMA CommitKeepsSessions ==
    ASSUME TypeInv, OwnInv, SessionInv, NEW h \in Handlers, Commit(h)
    PROVE  SessionInv'
<1> PICK a : a = Account(h)
  OBVIOUS
<1> DEFINE id == handler[h].id
           kept == Of(a) \ handler[h].gone
<1>0. Shape /\ Kept \in Nat /\ Kept + 1 \in Nat /\ Staged(h)
  BY SignInAssumption DEF TypeInv, Stages
<1>1. /\ At(h, "commit") /\ handler'[h].step = "drop" /\ google' = google
      /\ sessions' = (sessions \ handler[h].gone) \cup {id}
      /\ \A g \in Handlers \ {h} : handler'[g] = handler[g]
  BY <1>0, CommitMoves DEF Only
<1>2. id \in Attempts /\ google[id] = a
  BY <1>0, <1>1 DEF Staged, At, Account
<1>3. Of(a)' \subseteq kept \cup {id}
  BY <1>1 DEF Of
<1>4. \A b : b # a => Of(b)' \subseteq Of(b)
  BY <1>1, <1>2 DEF Of
<1>5. \A b : Of(b) \in SUBSET Attempts
  BY <1>0 DEF Of, Shape
<1>6. kept \in SUBSET Attempts /\ kept \cup {id} \in SUBSET Attempts
  BY <1>2, <1>5
<1>7. Cardinality(kept) <= Kept
  BY <1>1 DEF SessionInv
<1> HIDE DEF id, kept
<1>8. Cardinality(kept \cup {id}) <= Kept + 1
  <2>1. IsFiniteSet(kept) /\ Cardinality(kept) \in Nat /\ Cardinality(kept \cup {id}) \in Nat
    BY <1>6, AttemptsAreFinite
  <2>2. Cardinality(kept \cup {id}) <= Cardinality(kept) + 1
    BY <2>1, FS_AddElement
  <2> QED
    BY <1>0, <1>7, <2>1, <2>2
<1>9. Cardinality(Of(a)') <= Kept + 1
  BY <1>0, <1>3, <1>6, <1>8, FewerSessions
<1>10. ASSUME NEW b \in Accounts PROVE Cardinality(Of(b)') <= Kept + 1
  <2>1. CASE b = a
    BY <1>9, <2>1
  <2>2. CASE b # a
    <3>1. Of(b) \in SUBSET Attempts /\ Of(b)' \in SUBSET Of(b) /\ Cardinality(Of(b)) <= Kept + 1
      BY <1>4, <1>5, <1>10, <2>2 DEF SessionInv
    <3> QED
      BY <1>0, <3>1, FewerSessions
  <2> QED
    BY <2>1, <2>2
<1>11. ASSUME NEW g \in Handlers, At(g, "commit")'
       PROVE  Cardinality((Of(Account(g)) \ handler[g].gone)') <= Kept
  <2>1. g # h /\ handler'[g] = handler[g] /\ At(g, "commit")
    BY <1>1, <1>11 DEF At
  <2>2. Account(g)' = Account(g) /\ Account(g) # a
    BY <1>1, <2>1 DEF Account, SessionInv
  <2>3. (Of(Account(g)) \ handler[g].gone)' = Of(Account(g))' \ handler[g].gone
    BY <2>1, <2>2 DEF Of
  <2>4. Of(Account(g))' \subseteq Of(Account(g))
    <3>1. \A b : b = Account(g) => Of(b)' \subseteq Of(b)
      BY <1>4, <2>2
    <3> QED
      BY <2>2, <3>1 DEF Of
  <2> DEFINE T == Of(Account(g)) \ handler[g].gone
             U == (Of(Account(g)) \ handler[g].gone)'
  <2>5. T \in SUBSET Attempts /\ U \in SUBSET T /\ Cardinality(T) <= Kept
    BY <1>5, <2>1, <2>3, <2>4 DEF SessionInv
  <2> HIDE DEF T, U
  <2>6. Cardinality(U) <= Kept
    BY <1>0, <2>5, FewerSessions
  <2> QED
    BY <2>6 DEF U
<1>12. \A f, g \in Handlers :
          (At(f, "commit") /\ At(g, "commit") /\ Account(f) = Account(g))' => f = g
  BY <1>1 DEF SessionInv, At, Account
<1> QED
  BY <1>10, <1>11, <1>12 DEF SessionInv

LEMMA HandlesKeepsSessions ==
    ASSUME TypeInv, OwnInv, SessionInv, NEW h \in Handlers, Handles(h)
    PROVE  SessionInv'
<1>1. CASE Lock(h) \/ Commit(h)
  BY <1>1, LockKeepsSessions, CommitKeepsSessions
<1>2. CASE ~(Lock(h) \/ Commit(h))
  <2>1. Shape /\ sessions' \subseteq sessions /\ handler'[h].step # "commit"
    BY <1>2, Elsewhere DEF TypeInv
  <2>2. \A i \in Attempts : google[i] \in Accounts => google'[i] = google[i]
    BY HandlesKeepsAttempts, SignInAssumption DEF AttemptsStay
  <2>3. \A g \in Handlers : At(g, "commit")' =>
           /\ handler'[g] = handler[g]
           /\ Account(g) \in Accounts /\ Account(g)' = Account(g)
    <3>1. SUFFICES ASSUME NEW g \in Handlers, At(g, "commit")'
                   PROVE  /\ handler'[g] = handler[g]
                          /\ Account(g) \in Accounts /\ Account(g)' = Account(g)
      OBVIOUS
    <3>2. g \in Handlers \ {h}
      BY <2>1, <3>1 DEF At
    <3>3. At(g, "commit")
      BY <3>1, <3>2, HandlesKeepsStage DEF TypeInv, Stages, Only, At
    <3> QED
      BY <3>2, <3>3, CommitterKeepsAccount
  <2> QED
    BY <2>1, <2>2, <2>3, QuietKeepsSessions
<1> QED
  BY <1>1, <1>2

LEMMA SurroundingsKeepSessions ==
    ASSUME TypeInv, OwnInv, SessionInv, Surroundings
    PROVE  SessionInv'
<1>1. handler' = handler /\ sessions' \subseteq sessions
  BY SurroundingsMove
<1>2. \A i \in Attempts : google[i] \in Accounts => google'[i] = google[i]
  BY SurroundingsMove, SignInAssumption DEF TypeInv, Shape
<1>3. \A g \in Handlers : At(g, "commit")' => handler[g].id \in Attempts /\ google[handler[g].id] \in Accounts
  BY <1>1 DEF TypeInv, Stages, Staged, OwnInv, Owner, At
<1> QED
  BY <1>1, <1>2, <1>3, QuietKeepsSessions DEF Account

LEMMA SessionInit == Init => SessionInv
<1>1. SUFFICES ASSUME Init PROVE SessionInv
  OBVIOUS
<1>2. \A a : Of(a) = {}
  BY <1>1 DEF Init, Of
<1>3. Cardinality({}) = 0 /\ Kept + 1 >= 0
  BY FS_EmptySet, SignInAssumption
<1> QED
  BY <1>1, <1>2, <1>3 DEF Init, SessionInv, At, NoRequest

LEMMA SessionStep == TypeInv /\ OwnInv /\ SessionInv /\ [Next]_vars => SessionInv'
<1>1. ASSUME SessionInv, UNCHANGED vars PROVE SessionInv'
  BY <1>1 DEF vars, SessionInv, At, Account, Of
<1> QED
  BY <1>1, HandlesKeepsSessions, SurroundingsKeepSessions, NextIs

\* However many browsers of an account sign in at once, the account has no more
\* sessions than create_session keeps, and the new one: it counts, deletes and
\* inserts under the lock on the user's row.
THEOREM SessionsAreBounded == Spec => []SessionsBounded
<1>1. SessionInv => SessionsBounded
  BY DEF SessionInv, SessionsBounded
<1> QED
  BY <1>1, TypeInvariant, OwnInvariant, SessionInit, SessionStep, PTL DEF Spec

=============================================================================
