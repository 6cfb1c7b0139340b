------------------------------ MODULE Refresh ------------------------------
(***************************************************************************)
(* How the web client keeps its list, its rights and its notices in step   *)
(* with the server: load, the 30-second refresh, mutate, and the dialogs   *)
(* that add a spot and unlock editing, in web/src/App.tsx, over `request`  *)
(* of web/src/api.ts.                                                      *)
(*                                                                         *)
(* What the server lists is a version: every change, by this page or       *)
(* elsewhere, makes the next one.  A right is 0 (may not write), 1 with    *)
(* the write token, or the number of the session whose CSRF token it is.   *)
(* A request is a record: the server reads or writes for it (Serve), then  *)
(* its answer arrives (Deliver), or it fails at either point (Fail).       *)
(* While the server is `up` it answers within the time limit of a request; *)
(* while it is not, requests fail or run into the limit.  A write that     *)
(* the client gave up and the server then executes is a ChangeElsewhere.   *)
(* Time is left out: a refresh is settled before the timer fires again,    *)
(* because the limit is 12 seconds and the period 30 (module Outlook       *)
(* counts them).                                                           *)
(* What the reader's clicks ask for runs beside the refresh and beside     *)
(* each other: Try again is never disabled, mutate disables only its own   *)
(* buttons, and a dialog that is closed while it saves or unlocks leaves   *)
(* its call on its way.  A call is told from others by a name; the         *)
(* requests it gives up are nobody's, and two that are alike are one.      *)
(* The status request of a load is handled like the one for the            *)
(* capabilities, and left out with it are the notices that only explain.   *)
(***************************************************************************)
EXTENDS Integers, FiniteSets

CONSTANTS
    Instances,    \* bound: what one execution may do, chosen at its start
    Agains,       \* names of the loads of Try again
    Saves,        \* names of the calls of the add dialog
    Unlocks,      \* names of the calls of the unlock dialog
    MaxSession    \* bound: sign-ins

\* A deployment has one write token or accounts.  The rest of an instance bounds
\* the buttons that the reader uses, the calls under way at a time beside the
\* refresh, and the version up to which the page, and others, change the list.
Buttons == {"again", "follow", "retry", "in", "out", "add", "unlock"}
Instance ==
    [deployment : {"token", "google"}, buttons : SUBSET Buttons, together : Nat,
     changes : Nat, others : Nat]

Chains == {"mutate"} \cup Saves    \* calls that write and load behind the write
Callers == {"timer", "nobody"} \cup Chains \cup Agains \cup Unlocks

ASSUME RefreshAssumption ==
    /\ Instances \subseteq Instance
    /\ {"timer", "nobody", "mutate", "no", "open"} \cap (Agains \cup Saves \cup Unlocks) = {}
    /\ Agains \cap (Saves \cup Unlocks) = {} /\ Saves \cap Unlocks = {}
    /\ MaxSession \in Nat \ {0}

VARIABLES
    instance,
    up,        \* whether the server can be reached and answers in time
    version,   \* the last version of the list
    session,   \* the browser's session, 0 for none
    logins,    \* sessions there have been
    page,      \* the state of the page
    requests,  \* the page's requests
    made       \* history: call -> the version that its write made, 0 when it is over

server == <<instance, up, version, session, logins>>
vars == <<instance, up, version, session, logins, page, requests, made>>

deployment == instance.deployment

Unknown == -1   \* no answer yet
Refused == -2   \* the server's answer to a write it does not allow

Versions == Nat
Rights == 0..MaxSession
Loads == {"spots", "caps"}
Writes == {"follow", "add", "retry", "logout"}

Request ==
    [by : Callers,
     kind : Loads \cup Writes,
     with : Rights,             \* token of a load, right that a write carries
     got : Versions \cup Rights \cup {Unknown, Refused}]

Page ==
    [list : Versions \cup {Unknown},      \* spots
     right : Rights \cup {Unknown},       \* caps
     token : {0, 1},
     armed : {0, 1},                      \* the token of the running refresh
     error : BOOLEAN,                     \* the list could not be loaded
     busy : BOOLEAN,
     draft : {"no", "open"} \cup Saves,     \* the add dialog, or the call it waits for
     unlock : {"no", "open"} \cup Unlocks,  \* the unlock dialog, likewise
     leaving : {"no", "home", "google"}]

TypeOK ==
    /\ instance \in Instances
    /\ up \in BOOLEAN
    /\ version \in Versions
    /\ session \in Rights
    /\ logins \in Rights
    /\ page \in Page
    /\ requests \subseteq Request
    /\ made \in [Chains -> Versions]

-----------------------------------------------------------------------------
(* Requests *)

New(by, kind, with) == [by |-> by, kind |-> kind, with |-> with, got |-> Unknown]

Load(by, token) == {New(by, kind, token) : kind \in Loads}

By(name) == {r \in requests : r.by = name}

Right(token) == IF deployment = "token" THEN token ELSE session

\* A page that has just been opened: its effects have run once.
FreshPage ==
    [list |-> Unknown, right |-> Unknown, token |-> 0, armed |-> 0,
     error |-> FALSE, busy |-> FALSE, draft |-> "no", unlock |-> "no", leaving |-> "no"]

Open ==
    /\ page' = FreshPage
    /\ requests' = Load("timer", 0)
    /\ made' = [c \in Chains |-> 0]

Init ==
    /\ instance \in Instances
    /\ up = TRUE
    /\ version = 0
    /\ logins \in Rights
    /\ session \in {0, logins}
    /\ page = FreshPage
    /\ requests = Load("timer", 0)
    /\ made = [c \in Chains |-> 0]

-----------------------------------------------------------------------------
(* The server *)

Allowed(r) == r.with # 0 /\ (deployment = "google" => r.with = session)

Answer(r, got) == requests' = (requests \ {r}) \cup {[r EXCEPT !.got = got]}

Serve(r) ==
    /\ up
    /\ r \in requests
    /\ r.got = Unknown
    /\ \/ /\ r.kind = "spots" /\ Answer(r, version)
          /\ UNCHANGED <<version, session>>
       \/ /\ r.kind = "caps" /\ Answer(r, Right(r.with))
          /\ UNCHANGED <<version, session>>
       \/ /\ r.kind \in {"follow", "add"} /\ Allowed(r) /\ version < instance.changes
          /\ version' = version + 1
          /\ Answer(r, version')
          /\ UNCHANGED session
       \/ /\ r.kind = "retry" /\ Allowed(r) /\ Answer(r, version)
          /\ UNCHANGED <<version, session>>
       \/ /\ r.kind = "logout" /\ Allowed(r) /\ Answer(r, version)
          /\ session' = 0
          /\ UNCHANGED version
       \/ /\ r.kind \in Writes    \* not authorised, a limit, a spot that is not there
          /\ Answer(r, Refused)
          /\ UNCHANGED <<version, session>>
    /\ UNCHANGED <<instance, up, logins, page, made>>

\* Another page or another person.
ChangeElsewhere ==
    /\ version < instance.others
    /\ version' = version + 1
    /\ session' \in {session, 0}
    /\ UNCHANGED <<instance, up, logins, page, requests, made>>

Turn ==
    /\ up' = ~up
    /\ UNCHANGED <<instance, version, session, logins, page, requests, made>>

-----------------------------------------------------------------------------
(* Timer and effects *)

\* The timer of a refresh.  Its requests carry the signal of its effect.
Fire ==
    /\ By("timer") = {}
    /\ requests' = requests \cup Load("timer", page.armed)
    /\ UNCHANGED <<page, made>>
    /\ UNCHANGED server

\* Mutant of TokenChanged: load does not depend on the token.
TokenChangedIgnored == FALSE

TokenChanged == page.token # page.armed

\* The effect on load, after token has changed: the refresh of the old token is
\* aborted and a new one starts.
Rearm ==
    /\ TokenChanged
    /\ page' = [page EXCEPT !.armed = page.token]
    /\ requests' = (requests \ By("timer")) \cup Load("timer", page.token)
    /\ UNCHANGED made
    /\ UNCHANGED server

-----------------------------------------------------------------------------
(* Answers *)

\* mutate and the add dialog: a write, then a load.  Both end when the last
\* request of the load has been answered, or failed if it is not the list's.
Ended(by, p) ==
    IF by = "mutate" THEN [p EXCEPT !.busy = FALSE]
    ELSE IF by \in Saves THEN [p EXCEPT !.draft = "no"]
    ELSE p

\* The dialog that waits for the call may be used again; one that was closed,
\* and perhaps opened anew, hears nothing of it.
Reopened(state, by) == IF state = by THEN "open" ELSE state

\* Mutant of Failed: mutate without its finally.
FailedStaysBusy(by, p) ==
    IF by \in {"timer"} \cup Agains THEN [p EXCEPT !.error = TRUE]
    ELSE [p EXCEPT !.draft = Reopened(@, by), !.unlock = Reopened(@, by)]

Failed(by, p) ==
    IF by = "mutate" THEN [p EXCEPT !.busy = FALSE]
    ELSE IF by \in {"timer"} \cup Agains THEN [p EXCEPT !.error = TRUE]
    ELSE [p EXCEPT !.draft = Reopened(@, by), !.unlock = Reopened(@, by)]

Over(by) == [c \in Chains |-> IF c = by THEN 0 ELSE made[c]]

\* One request of a load is settled, and p is the page with what it brought.
Settle(r, p) ==
    /\ requests' = requests \ {r}
    /\ IF By(r.by) = {r}
         THEN page' = Ended(r.by, p) /\ made' = Over(r.by)
         ELSE page' = p /\ UNCHANGED made

\* The others of its load stay on their way, but nobody awaits them.
Forsake(r) ==
    /\ made' = Over(r.by)
    /\ requests' = {IF q.by = r.by /\ r.by \in Chains THEN [q EXCEPT !.by = "nobody"] ELSE q :
                      q \in requests \ {r}}

TokenOf(r) == IF deployment = "token" THEN r.with ELSE 0

DeliverWrite(r) ==
    /\ r.kind \in Writes
    /\ IF r.got = Refused
         THEN /\ page' = Failed(r.by, page)
              /\ requests' = requests \ {r}
              /\ UNCHANGED made
         ELSE /\ requests' = (requests \ {r}) \cup Load(r.by, TokenOf(r))
              /\ page' = [page EXCEPT !.leaving = IF r.kind = "logout" THEN "home" ELSE @]
              /\ made' = [made EXCEPT ![r.by] = r.got]

DeliverUnlock(r) ==
    /\ r.by \in Unlocks
    /\ requests' = requests \ {r}
    /\ page' = IF r.got = 1
                 THEN [page EXCEPT !.token = 1, !.right = 1, !.unlock = "no"]
                 ELSE Failed(r.by, page)
    /\ UNCHANGED made

DeliverLoad(r) ==
    /\ r.kind \in Loads
    /\ r.by \notin Unlocks
    /\ Settle(r,
         IF r.kind = "spots" THEN [page EXCEPT !.list = r.got, !.error = FALSE]
                             ELSE [page EXCEPT !.right = r.got])

Deliver(r) ==
    /\ r \in requests
    /\ r.got # Unknown
    /\ DeliverWrite(r) \/ DeliverUnlock(r) \/ DeliverLoad(r)
    /\ UNCHANGED server

\* No connection, an error status, or the time limit.
Fail(r) ==
    /\ ~up
    /\ r \in requests
    /\ IF r.kind = "caps" /\ r.by \notin Unlocks
         THEN Settle(r, page)
         ELSE Forsake(r) /\ page' = Failed(r.by, page)
    /\ UNCHANGED server

-----------------------------------------------------------------------------
(* The reader.  The dialogs are modal: what is behind them gets no clicks.   *)

\* The calls of clicks that are under way, those that nobody awaits as one.
UnderWay == {r.by : r \in requests} \ {"timer"}

Click(p, new) ==
    /\ page.leaving = "no"
    /\ new # {} => Cardinality(UnderWay) < instance.together
    /\ page' = p
    /\ requests' = requests \cup new
    /\ UNCHANGED made
    /\ UNCHANGED server

OnPage(p, new) == page.draft = "no" /\ page.unlock = "no" /\ Click(p, new)

\* A new call gets a name that no other has.
Unused(names) == names \ UnderWay

TryAgain ==
    /\ page.error
    /\ \E c \in Unused(Agains) : OnPage(page, Load(c, page.token))

\* The right a write carries: the token, or the CSRF token of the capabilities.
Carried == IF deployment = "token" THEN page.token ELSE page.right

\* Mutant of FirstOf: the list is loaded while the write is on its way.
FirstOfAll(by, kind, with) ==
    {New(by, kind, with)} \cup Load(by, IF deployment = "token" THEN with ELSE 0)

\* What mutate and the add dialog send first; the load follows the answer.
FirstOf(by, kind, with) == {New(by, kind, with)}

\* Mutant of MayEdit: the buttons do not wait for the capabilities.
MayEditAlways == TRUE

MayEdit == page.right > 0

Mutate(kind, with) ==
    /\ ~page.busy
    /\ OnPage([page EXCEPT !.busy = TRUE], FirstOf("mutate", kind, with))

Follow == MayEdit /\ Mutate("follow", Carried)

\* Without a session the button leads to Google.
FollowSignsIn ==
    /\ deployment = "google"
    /\ ~page.busy
    /\ page.right = 0
    /\ logins < MaxSession
    /\ OnPage([page EXCEPT !.leaving = "google"], {})

SignOut == deployment = "google" /\ MayEdit /\ Mutate("logout", page.right)

\* can_retry_jobs is can_write where there are no accounts.
RetryJobs == deployment = "token" /\ MayEdit /\ Mutate("retry", page.token)

OpenDraft == MayEdit /\ OnPage([page EXCEPT !.draft = "open"], {})

\* The dialog can be closed while it saves; the save goes on.
CloseDraft == page.draft # "no" /\ Click([page EXCEPT !.draft = "no"], {})

Save ==
    /\ page.draft = "open"
    /\ \E c \in Unused(Saves) : Click([page EXCEPT !.draft = c], FirstOf(c, "add", Carried))

OpenUnlock ==
    /\ deployment = "token"
    /\ page.right = 0
    /\ OnPage([page EXCEPT !.unlock = "open"], {})

CloseUnlock == page.unlock # "no" /\ Click([page EXCEPT !.unlock = "no"], {})

Unlock(token) ==
    /\ page.unlock = "open"
    /\ \E c \in Unused(Unlocks) : Click([page EXCEPT !.unlock = c], {New(c, "caps", token)})

\* The page is left for its own start page, or for Google and back.
Leave ==
    /\ page.leaving # "no"
    /\ Open
    /\ IF page.leaving = "google"
         THEN logins' = logins + 1 /\ session' \in {session, logins + 1}
         ELSE UNCHANGED <<logins, session>>
    /\ UNCHANGED <<instance, up, version>>

Progress(by) ==
    \E r \in requests : r.by = by /\ (Serve(r) \/ Deliver(r) \/ Fail(r))

Uses(button) == button \in instance.buttons

Next ==
    \/ \E r \in requests : Serve(r) \/ Deliver(r) \/ Fail(r)
    \/ Fire \/ Rearm
    \/ ChangeElsewhere \/ Turn
    \/ Uses("again") /\ TryAgain
    \/ Uses("follow") /\ Follow
    \/ Uses("in") /\ FollowSignsIn
    \/ Uses("retry") /\ RetryJobs
    \/ Uses("out") /\ SignOut
    \/ Uses("add") /\ (OpenDraft \/ CloseDraft \/ Save)
    \/ Uses("unlock") /\ (OpenUnlock \/ CloseUnlock \/ \E token \in {0, 1} : Unlock(token))
    \/ Leave

Spec == Init /\ [][Next]_vars

(* The timer fires, effects run, and every request of the refresh, of mutate *)
(* and of the add dialog is answered or fails: the server if it is up, the   *)
(* network or the time limit if it is not.  Nothing is assumed of the        *)
(* reader, of others and of other calls, and nothing of the server's staying *)
(* up.                                                                       *)
Fairness ==
    /\ WF_vars(Fire)
    /\ WF_vars(Rearm)
    /\ \A by \in {"timer"} \cup Chains : WF_vars(Progress(by))

LiveSpec == Spec /\ Fairness

-----------------------------------------------------------------------------
(* Properties *)

\* The list that mutate or the add dialog loads behind its own write was read
\* after the write: whatever else is on its way (the refresh, Try again, another
\* write and the load behind it), the load does not bring the reader a list
\* without the change.
ReloadSeesChange ==
    \A r \in requests :
        r.by \in Chains /\ r.kind = "spots" /\ r.got # Unknown => r.got >= made[r.by]

\* The buttons that mutate disables are enabled again, also when the server is
\* down, refuses the write or answers the write but not the load behind it, and
\* whatever else is under way.
BusyEnds == page.busy ~> ~page.busy

\* What the reader sees is what the server has.
Fresh == page.list = version /\ page.right = Right(page.token) /\ ~page.error

\* If the server stays up, the page comes to show its list, the rights of the
\* page's token or session and no error, and stays so: an answer that was read
\* before a change, or asked for with the token of before, can replace a newer
\* one, but the next refresh puts it right.
Converges == <>[]up => <>[]Fresh

=============================================================================
