----------------------------- MODULE SpotPanel -----------------------------
(***************************************************************************)
(* The panel of the selected spot: Outlook, and inside it the beach view   *)
(* of Ocean, which is there when the forecast has points and gets a new    *)
(* ocean whenever a rendering hands it another point object.               *)
(*                                                                         *)
(* `instance` is chosen at the start and never changes: which spots and    *)
(* rows there are and what the surroundings do, so that one run asks       *)
(* several questions, each over the part of the state it is about.  Its    *)
(* `open` is a bound: the requests that have not ended when a click or     *)
(* another spot adds one.                                                  *)
(***************************************************************************)
EXTENDS Outlook, Ocean

CONSTANT Instances

Powers == {"seconds", "failures", "display"}

ASSUME SpotPanelAssumption ==
    Instances \subseteq [spots : SUBSET Ids, rows : SUBSET (Times \X Runs), open : Nat, powers : SUBSET Powers]

VARIABLE instance

vars == <<instance, outlookVars, oceanVars>>

TypeOK == OutlookTypeOK /\ OceanTypeOK /\ instance \in Instances

Init == instance \in Instances /\ OutlookInit /\ OceanInit

With(power) == power \in instance.powers

\* The view in the rendering that the panel's step causes.
Nested(anew) ==
    /\ Rendered
    /\ CASE shown' = NoPoint /\ wave.mounted -> ShowNoPoint
         [] shown' # NoPoint /\ (anew \/ ~wave.mounted \/ shown' # shown) ->
                \E playing \in (IF With("display") THEN BOOLEAN ELSE {TRUE}) : ShowPoint(playing)
         [] OTHER -> UNCHANGED oceanVars

Room == Cardinality(requests) <= instance.open

\* Steps of the panel.  The dialog is modal: what is behind it gets no clicks,
\* but the spot may change by the back button or by another list.
Panel ==
    \/ RunEffects /\ Nested(FALSE)
    \/ \E r \in requests : Deliver(r) /\ Nested(Wanted(r))
    \/ \E r \in requests : (With("failures") \/ r.aborted) /\ Fail(r) /\ Nested(FALSE)
    \/ \E id \in instance.spots : Room /\ Switch(id) /\ Nested(FALSE)
    \/ Room /\ ~wave.expanded /\ Retry /\ Nested(FALSE)
    \/ ~wave.expanded /\ (ChooseDay \/ ChooseTime) /\ Nested(FALSE)

\* Steps that no rendering follows.
Quiet ==
    /\ \/ \E row \in instance.rows \ saved : Save(row)
       \/ \E r \in requests : Respond(r)
       \/ Refresh
       \/ With("seconds") /\ Second
       \/ Hour
    /\ UNCHANGED oceanVars

View ==
    /\ \/ \E c \in Canvases :
            \/ Draw(c) \/ Remove(c)
            \/ \E outcome \in Outcomes : (outcome = "live" \/ With("display")) /\ Renew(c, outcome)
            \/ With("display") /\ (Resize(c) \/ ContextLost(c))
            \/ With("display") /\ (\E visible \in BOOLEAN : Intersect(c, visible))
       \/ With("display") /\ (VisibilityChange \/ TogglePlaying \/ Expand \/ Collapse)
    /\ UNCHANGED outlookVars

Next == (Panel \/ Quiet \/ View) /\ UNCHANGED instance

Spec == Init /\ [][Next]_vars

-----------------------------------------------------------------------------
(* Properties *)

\* Once the effects of a selection have run, the error and the chosen day and
\* time are of the selected spot, though requests of other spots were under way
\* and may have been answered in the meantime.  (Without a selected spot the
\* effect returns early and an old error stays.)
PanelIsForSelected ==
    due = "no" /\ selected # 0 => err \in {0, selected} /\ choice.spot \in {0, selected}

\* While a spot is on the screen, no refresh or Retry replaces a time of its
\* forecast by an older model run, or takes one away that is not past: whatever
\* the order in which runs are saved, read and answered.
OutlookNeverOlder ==
    [][\A t \in DOMAIN kept.points :
           kept'.spot = kept.spot =>
               \/ t < now - 1
               \/ t \in DOMAIN kept'.points /\ kept'.points[t] >= kept.points[t]]_vars

\* An outlook that is shown without the notice that it could not be refreshed
\* was asked for at most a period and a time limit ago, except within one time
\* limit after Retry or a selection, which clear the notice at once.
NoSilentStaleness ==
    due = "no" /\ err = 0 /\ selected # 0 /\ kept.spot = selected /\ since > TimeLimit
        => kept.age <= Period + TimeLimit

\* The time the user chose is the one that is shown as long as the forecast has
\* it and the chosen day, through refreshes, other hours and other spots.  The
\* exception is a time of another day than the chosen one, which is over in part:
\* it had left the forecast, the time was chosen from the day shown instead, and
\* a row that was saved late brought the chosen day back.
ChosenTimeShown ==
    LET times == OnScreen
    IN  due = "no" /\ choice.time \in times /\ (\E t \in times : Day[t] = choice.day) =>
            \/ shown.time = choice.time
            \/ Day[choice.time] # choice.day /\ \E t \in Times : Day[t] = choice.day /\ t < now - 1

=============================================================================
