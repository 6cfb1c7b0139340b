------------------------------- MODULE SignIn -------------------------------
(***************************************************************************)
(* Signing in with Google, of server/src/auth.rs: begin_login makes an     *)
(* attempt and a login cookie, Google sends the tab back with the attempt, *)
(* finish_login uses the attempt up, asks Google whose account it is and   *)
(* creates a session.  Requests are handled concurrently, one await after  *)
(* the other; the tabs of a browser share its cookies.                     *)
(*                                                                         *)
(* A request sends the cookies the browser has then, and its answer sets   *)
(* them when it arrives.  A client that goes away cancels the handler at   *)
(* its next await.  The tokens are random and so never repeat: an attempt  *)
(* is a number, and the session it leads to has the same.  A row that has  *)
(* expired is ignored or deleted by every statement, so it counts as gone. *)
(* A cookie lasts as long as the row of its token, but from the answer on: *)
(* the browser drops it only after the row has gone.                       *)
(* Which of an account's sessions are the newest is left open.             *)
(* The account that sign_in_account makes is the subject of Follows.       *)
(***************************************************************************)
EXTENDS Integers, FiniteSets

CONSTANTS
    Browsers,
    Accounts,      \* those the users of the browsers have at Google
    Handlers,      \* bound: requests handled at a time
    MaxAttempts,   \* bound: attempts ever made
    Flows,         \* permits for requests to sign in: 4
    QueueLimit,    \* attempts that may wait: 1000
    Kept,          \* sessions kept when another is created: 9
    Nobody

ASSUME SignInAssumption ==
    /\ Nobody \notin Browsers
    /\ Accounts \cap {"away", "asked", "declined"} = {}
    /\ IsFiniteSet(Handlers)
    /\ {MaxAttempts, Flows, QueueLimit} \subseteq Nat \ {0}
    /\ Kept \in Nat

VARIABLES
    attempts,   \* rows of login_attempts
    sessions,   \* rows of sessions
    jar,        \* the cookies of a browser; 0 is none
    handler,    \* the requests that are handled
    origin,     \* history: the browser in which an attempt was made
    google,     \* the tabs at Google: what the user said there
    exchanged,  \* history: how often the code of an attempt was exchanged
    crossed     \* history: attempts beside which their browser signed in otherwise

vars == <<attempts, sessions, jar, handler, origin, google, exchanged, crossed>>

Attempts == 1..MaxAttempts
NoRequest ==
    [op |-> "none", step |-> "idle", browser |-> Nobody, id |-> 0, old |-> 0, gone |-> {}, ok |-> FALSE]

At(h, step) == handler[h].step = step

\* The requests that hold a permit for signing in.
Flowing == {h \in Handlers : handler[h].op \in {"login", "callback"} /\ ~At(h, "answer")}

TypeOK ==
    /\ attempts \subseteq Attempts
    /\ sessions \subseteq Attempts
    /\ jar \in [Browsers -> [login : 0..MaxAttempts, session : 0..MaxAttempts]]
    /\ handler \in [Handlers ->
          [op : {"none", "login", "callback", "logout"},
           step : {"idle", "discover", "insert", "claim", "exchange", "lock",
                   "commit", "drop", "end", "answer"},
           browser : Browsers \cup {Nobody}, id : 0..MaxAttempts, old : 0..MaxAttempts,
           gone : SUBSET Attempts, ok : BOOLEAN]]
    /\ origin \in [Attempts -> Browsers \cup {Nobody}]
    /\ google \in [Attempts -> Accounts \cup {"away", "asked", "declined"}]
    /\ exchanged \in [Attempts -> Nat]
    /\ crossed \subseteq Attempts
    /\ Cardinality(Flowing) <= Flows

Init ==
    /\ attempts = {}
    /\ sessions = {}
    /\ jar = [b \in Browsers |-> [login |-> 0, session |-> 0]]
    /\ handler = [h \in Handlers |-> NoRequest]
    /\ origin = [i \in Attempts |-> Nobody]
    /\ google = [i \in Attempts |-> "away"]
    /\ exchanged = [i \in Attempts |-> 0]
    /\ crossed = {}

\* Mutant of Free: a permit is asked for and not waited for.
FreeAlways == TRUE

Free == Cardinality(Flowing) < Flows

GoTo(h, step) == handler' = [handler EXCEPT ![h].step = step]
Answered(h, ok) ==
    handler' = [handler EXCEPT ![h].step = "answer", ![h].gone = {}, ![h].ok = ok]

Arrive(h, request) ==
    /\ At(h, "idle")
    /\ handler' = [handler EXCEPT ![h] = request]
    /\ UNCHANGED <<attempts, sessions, jar, origin, google, exchanged>>

AttemptsOf(b) == {i \in Attempts : origin[i] = b}

Request(op, step, b, id) ==
    [op |-> op, step |-> step, browser |-> b, id |-> id, old |-> jar[b].session, gone |-> {}, ok |-> FALSE]

-----------------------------------------------------------------------------
(* begin_login *)

Login(h, b) ==
    /\ Arrive(h, Request("login", IF Free THEN "discover" ELSE "answer", b, 0))
    /\ UNCHANGED crossed

\* Mutant of QueueLock: the count and the insertion are not locked.
QueueLockNone == TRUE

QueueLock == \A h \in Handlers : ~At(h, "insert")

\* The provider has answered; the advisory lock is taken and rows are counted.
Count(h) ==
    /\ At(h, "discover")
    /\ QueueLock
    /\ IF Cardinality(attempts) < QueueLimit THEN GoTo(h, "insert") ELSE Answered(h, FALSE)
    /\ UNCHANGED <<attempts, sessions, jar, origin, google, exchanged, crossed>>

\* Another request of the browser whose answer may be about an attempt.
Beside(h) ==
    \E g \in Handlers \ {h} :
        /\ handler[g].browser = handler[h].browser
        /\ handler[g].op = "callback" \/ (handler[g].op = "login" /\ handler[g].ok)

\* The row is inserted and the transaction commits.
Insert(h) ==
    /\ At(h, "insert")
    /\ \E i \in Attempts :
         /\ origin[i] = Nobody
         /\ \A j \in Attempts : j < i => origin[j] # Nobody
         /\ attempts' = attempts \cup {i}
         /\ origin' = [origin EXCEPT ![i] = handler[h].browser]
         /\ handler' = [handler EXCEPT ![h].step = "answer", ![h].ok = TRUE, ![h].id = i]
         /\ crossed' = crossed \cup AttemptsOf(handler[h].browser) \cup IF Beside(h) THEN {i} ELSE {}
    /\ UNCHANGED <<sessions, jar, google, exchanged>>

-----------------------------------------------------------------------------
(* finish_login *)

\* Mutant of SameBrowser: the state is looked up without the cookie.
AnyBrowser(b, i) == TRUE

SameBrowser(b, i) == jar[b].login = i

\* Google's redirect, as often as the tab loads it, and wherever it is opened.
Callback(h, b, i) ==
    /\ google[i] \notin {"away", "asked"}
    /\ Arrive(h, Request("callback", IF Free /\ SameBrowser(b, i) THEN "claim" ELSE "answer", b, i))
    /\ crossed' = crossed \cup AttemptsOf(b)

\* Mutant of Claimed: the row is read here and deleted later.
ClaimedLater(i) == attempts

Claimed(i) == attempts \ {i}

\* DELETE ... RETURNING.
Claim(h) ==
    /\ At(h, "claim")
    /\ attempts' = Claimed(handler[h].id)
    /\ IF handler[h].id \in attempts /\ google[handler[h].id] # "declined"
         THEN GoTo(h, "exchange") ELSE Answered(h, FALSE)
    /\ UNCHANGED <<sessions, jar, origin, google, exchanged, crossed>>

\* Google exchanges the code for an ID token.
Exchange(h) ==
    /\ At(h, "exchange")
    /\ exchanged' = [exchanged EXCEPT ![handler[h].id] = @ + 1]
    /\ GoTo(h, "lock")
    /\ UNCHANGED <<attempts, sessions, jar, origin, google, crossed>>

\* An error of the provider, of the database, or of the verification.
Fail(h) ==
    /\ h \in Flowing
    /\ Answered(h, FALSE)
    /\ UNCHANGED <<attempts, sessions, jar, origin, google, exchanged, crossed>>

-----------------------------------------------------------------------------
(* create_session *)

Account(h) == google[handler[h].id]
Of(account) == {s \in sessions : google[s] = account}

\* Mutant of AccountLock: the users row is read without FOR UPDATE.
AccountLockNone(account) == TRUE

AccountLock(account) == \A h \in Handlers : At(h, "commit") => Account(h) # account

\* The account's sessions but for the newest ones, of which there are Kept or,
\* if it has no more, all.
Surplus(mine) ==
    {gone \in SUBSET mine : Cardinality(mine \ gone) = Kept \/ (gone = {} /\ Cardinality(mine) < Kept)}

\* The users row is locked, and the surplus deleted in the transaction.
Lock(h) ==
    /\ At(h, "lock")
    /\ AccountLock(Account(h))
    /\ \E gone \in Surplus(Of(Account(h))) :
          handler' = [handler EXCEPT ![h].step = "commit", ![h].gone = gone]
    /\ UNCHANGED <<attempts, sessions, jar, origin, google, exchanged, crossed>>

\* The session is inserted, and the transaction commits.
Commit(h) ==
    /\ At(h, "commit")
    /\ sessions' = (sessions \ handler[h].gone) \cup {handler[h].id}
    /\ handler' = [handler EXCEPT ![h].step = "drop", ![h].gone = {}]
    /\ UNCHANGED <<attempts, jar, origin, google, exchanged, crossed>>

Without(s) == sessions \ {s}

\* The session of the cookie that came with the callback.
Drop(h) ==
    /\ At(h, "drop")
    /\ sessions' = Without(handler[h].old)
    /\ Answered(h, TRUE)
    /\ UNCHANGED <<attempts, jar, origin, google, exchanged, crossed>>

-----------------------------------------------------------------------------
(* logout *)

\* authorize: the session exists, and the page has its CSRF token.
Logout(h, b) ==
    /\ jar[b].session \in sessions
    /\ Arrive(h, Request("logout", "end", b, 0))
    /\ UNCHANGED crossed

End(h) ==
    /\ At(h, "end")
    /\ sessions' = Without(handler[h].old)
    /\ Answered(h, TRUE)
    /\ UNCHANGED <<attempts, jar, origin, google, exchanged, crossed>>

-----------------------------------------------------------------------------
(* Answers, the clock and the user *)

\* Mutant of Cookies: signing out clears both cookies.
CookiesBothCleared(old, r) ==
    CASE r.op = "login" /\ r.ok -> [old EXCEPT !.login = r.id]
      [] r.op = "callback" -> [login |-> 0, session |-> IF r.ok THEN r.id ELSE old.session]
      [] r.op = "logout" -> [login |-> 0, session |-> 0]
      [] OTHER -> old

\* Set-Cookie of the answers; a failed login sets none.
Cookies(old, r) ==
    CASE r.op = "login" /\ r.ok -> [old EXCEPT !.login = r.id]
      [] r.op = "callback" -> [login |-> 0, session |-> IF r.ok THEN r.id ELSE old.session]
      [] r.op = "logout" -> [old EXCEPT !.session = 0]
      [] OTHER -> old

\* The answer arrives, and a tab with a new attempt goes to Google.
Answer(h) ==
    LET r == handler[h] IN
    /\ At(h, "answer")
    /\ jar' = [jar EXCEPT ![r.browser] = Cookies(@, r)]
    /\ handler' = [handler EXCEPT ![h] = NoRequest]
    /\ google' = IF r.op = "login" /\ r.ok THEN [google EXCEPT ![r.id] = "asked"] ELSE google
    /\ UNCHANGED <<attempts, sessions, origin, exchanged, crossed>>

\* The client has gone: the handler is dropped, its transaction rolled back.
Abandon(h) ==
    /\ ~At(h, "idle")
    /\ handler' = [handler EXCEPT ![h] = NoRequest]
    /\ UNCHANGED <<attempts, sessions, jar, origin, google, exchanged, crossed>>

\* The user chooses an account, or declines.
Consent(i) ==
    /\ google[i] = "asked"
    /\ \E said \in Accounts \cup {"declined"} : google' = [google EXCEPT ![i] = said]
    /\ UNCHANGED <<attempts, sessions, jar, handler, origin, exchanged, crossed>>

\* Fifteen minutes, and thirty days, for the rows and then for the cookies.
ExpireAttempt(i) ==
    /\ i \in attempts
    /\ attempts' = attempts \ {i}
    /\ UNCHANGED <<sessions, jar, handler, origin, google, exchanged, crossed>>

ExpireSession(s) ==
    /\ s \in sessions
    /\ sessions' = Without(s)
    /\ UNCHANGED <<attempts, jar, handler, origin, google, exchanged, crossed>>

ExpireLoginCookie(b) ==
    /\ jar[b].login \notin attempts \cup {0}
    /\ jar' = [jar EXCEPT ![b].login = 0]
    /\ UNCHANGED <<attempts, sessions, handler, origin, google, exchanged, crossed>>

ExpireSessionCookie(b) ==
    /\ jar[b].session \notin sessions \cup {0}
    /\ jar' = [jar EXCEPT ![b].session = 0]
    /\ UNCHANGED <<attempts, sessions, handler, origin, google, exchanged, crossed>>

Next ==
    \/ \E h \in Handlers :
         \/ Count(h) \/ Insert(h) \/ Claim(h) \/ Exchange(h) \/ Fail(h)
         \/ Lock(h) \/ Commit(h) \/ Drop(h) \/ End(h) \/ Answer(h) \/ Abandon(h)
         \/ \E b \in Browsers : Login(h, b) \/ Logout(h, b) \/ (\E i \in Attempts : Callback(h, b, i))
    \/ \E i \in Attempts : Consent(i) \/ ExpireAttempt(i) \/ ExpireSession(i)
    \/ \E b \in Browsers : ExpireLoginCookie(b) \/ ExpireSessionCookie(b)

Spec == Init /\ [][Next]_vars

-----------------------------------------------------------------------------
(* Properties *)

\* However many logins begin at once, no more attempts wait than the queue has
\* room for.
QueueBounded == Cardinality(attempts) <= QueueLimit

\* An attempt is good for one exchange, though its callback is loaded again, or
\* twice at a time, and though handlers fail or are dropped in between.
UsedOnce == \A i \in Attempts : exchanged[i] <= 1

\* An account has ten sessions at most, however many of its browsers sign in at
\* once and whichever callbacks are dropped half way.
SessionsBounded == \A a \in Accounts : Cardinality(Of(a)) <= Kept + 1

\* A browser is signed in by an attempt of its own, for the account that its
\* user chose there, and a session exists only for an attempt that was
\* exchanged: also when a callback is opened in another browser.
SignedInByOwnAttempt ==
    /\ \A b \in Browsers : jar[b].session # 0 => origin[jar[b].session] = b
    /\ \A s \in sessions : google[s] \in Accounts /\ exchanged[s] > 0

\* While an attempt can be used, its browser can use it: the cookie stays until
\* the row has gone, unless the browser began another attempt after it, or
\* loaded a callback, or had either on its way when it began this one.  Signing
\* out, failed logins, expiry and what other browsers do leave it alone.
OwnCookieStays ==
    \A i \in attempts :
        google[i] # "away" /\ i \notin crossed => jar[origin[i]].login = i

=============================================================================
