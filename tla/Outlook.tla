------------------------------ MODULE Outlook ------------------------------
(***************************************************************************)
(* The forecast of the selected spot in web/src/App.tsx: the request when  *)
(* the spot changes, every thirty seconds and on Retry, through request()  *)
(* of web/src/api.ts; what is kept, shown or called an error; the day and  *)
(* the time the user chose.  And what the server answers: the rows that    *)
(* forecast jobs save in any order, of which a reader gets the newest      *)
(* model run for each time (Db::save_forecasts and Db::forecasts).         *)
(*                                                                         *)
(* The effects of a rendering run some time after it (`due`), but before   *)
(* the next click or rendering; an answer may come in between.  The        *)
(* requests for stations are made and handled in the same way next to      *)
(* these; only their Retry button is here, which asks for both again.      *)
(* Days are the user's local ones.  One tile of the grid has all spots.    *)
(***************************************************************************)
EXTENDS Integers, FiniteSetsExt

CONSTANTS
    Spots,
    Times,        \* valid times, three hours apart
    Runs,         \* model times
    Day,          \* the local day of a time
    Period,       \* between refreshes: 30 s
    TimeLimit     \* of a request: 12 s

ASSUME OutlookAssumption ==
    /\ 0 \notin Spots
    /\ Times \subseteq Nat \ {0}
    /\ Runs \subseteq Nat \ {0}
    /\ Day \in [Times -> Nat \ {0}]
    /\ Period \in Nat
    /\ TimeLimit \in Nat \ {0}
    /\ TimeLimit < Period

VARIABLES
    saved,      \* rows of bodhi.forecasts: a time and a run
    now,        \* the hour, as a time
    selected,   \* selectedId, 0 when there is none
    due,        \* the effects to run: "no", after a "retry", or for another "spot"
    clock,      \* since the last refresh of the running effect
    since,      \* history: since that effect began, up to TimeLimit + 1
    requests,   \* those that have not ended
    kept,       \* forecastState
    err,        \* forecastError: "" as 0, or the spot whose request failed
    choice,     \* selectedDay and selectedTime, and history: for which spot
    shown       \* the point in the last rendering

outlookVars ==
    <<saved, now, selected, due, clock, since, requests, kept, err, choice, shown>>

Ids == Spots \cup {0}
Points == UNION {[T -> Runs] : T \in SUBSET Times}
MaxAge == Period + TimeLimit + 1
NoForecast == [spot |-> 0, points |-> <<>>, age |-> 0]
NoChoice == [spot |-> 0, day |-> 0, time |-> 0]
NoPoint == [time |-> 0, run |-> 0]

OutlookTypeOK ==
    /\ saved \subseteq Times \X Runs
    /\ now \in Nat
    /\ selected \in Ids
    /\ due \in {"no", "retry", "spot"}
    /\ clock \in 0..Period
    /\ since \in 0..TimeLimit + 1
    /\ \A r \in requests : r \in [spot : Spots, aborted : BOOLEAN, age : 0..TimeLimit,
                                  read : BOOLEAN, answer : Points]
    /\ kept \in [spot : Ids, points : Points, age : 0..MaxAge]
    /\ err \in Ids
    /\ choice \in [spot : Ids, day : Nat, time : Times \cup {0}]
    /\ shown \in [time : Times, run : Runs] \cup {NoPoint}

OutlookInit ==
    /\ saved = {}
    /\ now = 1
    /\ selected = 0
    /\ due = "no"
    /\ clock = 0
    /\ since = 0
    /\ requests = {}
    /\ kept = NoForecast
    /\ err = 0
    /\ choice = NoChoice
    /\ shown = NoPoint

-----------------------------------------------------------------------------
(* The server *)

\* A job saves its row.  Runs and times arrive in any order: jobs fail, are
\* retried, and are claimed by priority.
Save(row) ==
    /\ saved' = saved \cup {row}
    /\ UNCHANGED <<now, selected, due, clock, since, requests, kept, err, choice, shown>>

\* Rows of the last three hours and later.
Held == {t \in Times : t >= now - 1 /\ \E run \in Runs : <<t, run>> \in saved}

\* Mutant of Answer: one row of each time, whichever comes first.
AnswerOldestRun == [t \in Held |-> Min({run \in Runs : <<t, run>> \in saved})]

Answer == [t \in Held |-> Max({run \in Runs : <<t, run>> \in saved})]

\* The server has read the rows; the answer is on its way.
Respond(r) ==
    /\ ~r.read
    /\ requests' = (requests \ {r}) \cup {[r EXCEPT !.read = TRUE, !.answer = Answer]}
    /\ UNCHANGED <<saved, now, selected, due, clock, since, kept, err, choice, shown>>

-----------------------------------------------------------------------------
(* What is rendered *)

ActiveDay(times, chosen) ==
    LET days == {Day[t] : t \in times}
    IN  IF chosen.day \in days THEN chosen.day ELSE Day[Min(times)]

DayTimes(times, chosen) == {t \in times : Day[t] = ActiveDay(times, chosen)}

Pick(times, chosen) ==
    LET ahead == {t \in times : t >= now}
    IN  IF chosen.time \in times THEN chosen.time
        ELSE IF ahead # {} THEN Min(ahead) ELSE Min(times)

\* The point that a rendering shows; the hour is that of the rendering.
Point(id, forecast, chosen) ==
    LET times == DOMAIN forecast.points
        time == Pick(DayTimes(times, chosen), chosen)
    IN  IF forecast.spot # id \/ times = {} THEN NoPoint
        ELSE [time |-> time, run |-> forecast.points[time]]

Render == shown' = Point(selected', kept', choice')

-----------------------------------------------------------------------------
(* Requests *)

New(id) == [spot |-> id, aborted |-> FALSE, age |-> 0, read |-> FALSE, answer |-> <<>>]

\* Mutant of Aborted: the effect has no cleanup.
NotAborted == requests

Aborted == {[r EXCEPT !.aborted = TRUE] : r \in requests}

Cleared == IF due = "spot" THEN NoChoice ELSE choice

\* The effects of a rendering, and the cleanup of the ones before.  Without a
\* spot nothing is asked for, and what was kept stays.
RunEffects ==
    /\ due # "no"
    /\ choice' = Cleared
    /\ due' = "no"
    /\ clock' = 0
    /\ since' = 0
    /\ IF selected = 0
         THEN /\ requests' = Aborted
              /\ UNCHANGED <<kept, err>>
         ELSE /\ kept' = IF kept.spot = selected THEN kept ELSE NoForecast
              /\ err' = 0
              /\ requests' = Aborted \cup {New(selected)}
    /\ UNCHANGED <<saved, now, selected>>
    /\ Render

\* The interval.
Refresh ==
    /\ due = "no"
    /\ selected # 0
    /\ clock = Period
    /\ clock' = 0
    /\ requests' = requests \cup {New(selected)}
    /\ UNCHANGED <<saved, now, selected, due, since, kept, err, choice, shown>>

Wanted(r) == ~r.aborted

\* The answer is read whole and parsed.
Deliver(r) ==
    /\ r.read
    /\ requests' = requests \ {r}
    /\ IF Wanted(r)
         THEN /\ kept' = [spot |-> r.spot, points |-> r.answer, age |-> r.age]
              /\ err' = 0
         ELSE UNCHANGED <<kept, err>>
    /\ UNCHANGED <<saved, now, selected, due, clock, since, choice>>
    /\ Render

\* request() throws: no connection, an HTTP error, an unreadable answer, the
\* time limit, or the caller's abort.
Fail(r) ==
    /\ requests' = requests \ {r}
    /\ err' = IF Wanted(r) THEN r.spot ELSE err
    /\ UNCHANGED <<saved, now, selected, due, clock, since, kept, choice>>
    /\ Render

\* Mutant of InTime: a request may take as long as it likes.
InTimeAlways(r) == TRUE

InTime(r) == r.age < TimeLimit

\* A second passes: timers that are due and aborts have had their effect.
Second ==
    /\ due = "no"
    /\ selected # 0 => clock < Period
    /\ \A r \in requests : ~r.aborted /\ InTime(r)
    /\ clock' = IF selected = 0 THEN 0 ELSE clock + 1
    /\ since' = Min({since + 1, TimeLimit + 1})
    /\ requests' = {[r EXCEPT !.age = Min({@ + 1, TimeLimit})] : r \in requests}
    /\ kept' = IF kept = NoForecast THEN kept ELSE [kept EXCEPT !.age = Min({@ + 1, MaxAge})]
    /\ UNCHANGED <<saved, now, selected, due, err, choice, shown>>

Hour ==
    /\ now < Max(Times)
    /\ now' = now + 1
    /\ UNCHANGED <<saved, selected, due, clock, since, requests, kept, err, choice, shown>>

-----------------------------------------------------------------------------
(* The user *)

\* Another spot, by a card, a marker, the back button or a list without it.
Switch(id) ==
    /\ due = "no"
    /\ id # selected
    /\ selected' = id
    /\ due' = "spot"
    /\ UNCHANGED <<saved, now, clock, since, requests, kept, err, choice>>
    /\ Render

\* The Retry button of the forecast or of the stations.
Retry ==
    /\ due = "no"
    /\ selected # 0
    /\ due' = "retry"
    /\ UNCHANGED <<saved, now, selected, clock, since, requests, kept, err, choice>>
    /\ Render

\* Mutant of ChosenDay: the time of the other day stays.
ChosenDayAlone(day) == [choice EXCEPT !.spot = selected, !.day = day]

ChosenDay(day) == [spot |-> selected, day |-> day, time |-> 0]

Choose(chosen) ==
    /\ due = "no"
    /\ choice' = chosen
    /\ UNCHANGED <<saved, now, selected, due, clock, since, requests, kept, err>>
    /\ Render

\* The points of the forecast on the screen.
OnScreen == IF kept.spot = selected THEN DOMAIN kept.points ELSE {}

ChooseDay == \E t \in OnScreen : Choose(ChosenDay(Day[t]))

\* A bar of the chart or a row of the table, which are those of the active day.
ChooseTime ==
    \E t \in DayTimes(OnScreen, choice) :
        Choose([choice EXCEPT !.spot = selected, !.time = t])

=============================================================================
