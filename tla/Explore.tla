------------------------------ MODULE Explore ------------------------------
(***************************************************************************)
(* The list of surf spots and the selected spot of the web client: the     *)
(* search, filter and pages of the list, the spot named by the address,    *)
(* and the effect of web/src/App.tsx that corrects an address whose spot   *)
(* cannot be found.                                                        *)
(*                                                                         *)
(* React keeps three things apart, and so does the model: the state as the *)
(* setters left it (`state`), the state that is on the screen and in the   *)
(* closures of its handlers (`view`), and the dependencies with which the  *)
(* correction effect ran last (`done`).  Updates of a click or of the back *)
(* button are rendered, and the effects they cause run, before the next    *)
(* event (`sync`); those of an answer of the server are rendered later.    *)
(* A pending effect runs, with the closure of its own rendering, before    *)
(* the next rendering.                                                     *)
(*                                                                         *)
(* What the server lists arrives here in any order; module Refresh says    *)
(* which answers arrive.                                                   *)
(***************************************************************************)
EXTENDS Integers, FiniteSets

CONSTANTS
    Ids,        \* ids of spots; their order is the order of the list
    Jetty,      \* the id of "1st Street Jetty", listed or not
    Queries,    \* what may be typed into the search field
    Blank,      \* the empty query
    Hits,       \* query -> the spots whose name or coastline matches it
    PageSize,   \* cards on a page of the list
    NoMode      \* the filter has not been chosen yet

\* Ids are positive numbers of 64 bits.
ASSUME ExploreAssumption ==
    /\ Ids \subseteq Nat \ {0} /\ IsFiniteSet(Ids)
    /\ Blank \in Queries
    /\ Hits \in [Queries -> SUBSET Ids]
    /\ Hits[Blank] = Ids
    /\ PageSize \in Nat \ {0}
    /\ NoMode \notin {"all", "following"}

VARIABLES
    state,    \* React's state, all setters applied
    view,     \* the state of the last rendering
    done,     \* the dependencies of the correction effect when it last ran
    address,  \* the spot parameter of location.search
    entries,  \* the addresses of the other entries of the history
    sync,     \* whether the last update was an event's
    missed    \* history: a spot was asked for between a correction and its rendering

vars == <<state, view, done, address, entries, sync, missed>>

\* Ids that no spot has: null or none, and the two addresses that name no id.
None == 0
NoParam == -1
Unreadable == 0

Addresses == Ids \cup {NoParam, Unreadable}

Catalogues == {c \in [listed : SUBSET Ids, watched : SUBSET Ids] : c.watched \subseteq c.listed}

States ==
    [spots : Catalogues, loaded : BOOLEAN, requested : Ids \cup {None},
     mode : {"all", "following", NoMode}, query : Queries, page : Nat, notice : BOOLEAN]

-----------------------------------------------------------------------------
(* What is derived from the state *)

Least(S) == CHOOSE i \in S : \A j \in S : i <= j

\* Mutant of ResolveSpot: the spot that the address names is not preferred.
ResolveDefault(spots, requested) ==
    IF spots.watched # {} THEN Least(spots.watched)
    ELSE IF Jetty \in spots.listed THEN Jetty
    ELSE IF spots.listed # {} THEN Least(spots.listed) ELSE None

ResolveSpot(spots, requested) ==
    IF requested \in spots.listed THEN requested
    ELSE IF spots.watched # {} THEN Least(spots.watched)
    ELSE IF Jetty \in spots.listed THEN Jetty
    ELSE IF spots.listed # {} THEN Least(spots.listed) ELSE None

\* Mutant of ReadSpotId: the parameter is not checked to be a positive integer.
ReadSpotIdUnchecked(a) == a

\* The number after spot=, if it is a positive integer.
ReadSpotId(a) == IF a \in Ids THEN a ELSE None

Selected(s) == ResolveSpot(s.spots, s.requested)

DefaultMode(spots) == IF spots.watched # {} THEN "following" ELSE "all"

ActiveMode(s) == IF s.mode = NoMode THEN DefaultMode(s.spots) ELSE s.mode

Visible(s) ==
    (IF ActiveMode(s) = "all" THEN s.spots.listed ELSE s.spots.watched) \cap Hits[s.query]

PageCount(s) ==
    LET pages == (Cardinality(Visible(s)) + PageSize - 1) \div PageSize
    IN  IF pages > 1 THEN pages ELSE 1

CurrentPage(s) == IF s.page < PageCount(s) THEN s.page ELSE PageCount(s) - 1

\* The cards of the current page: the position of a spot is how many are before it.
PageSpots(s) ==
    {i \in Visible(s) :
        LET before == Cardinality({j \in Visible(s) : j < i})
        IN  before \div PageSize = CurrentPage(s)}

\* Mutant of Deps: the effect does not depend on the spot that is shown.
DepsWithoutSelected(s) == <<s.loaded, s.requested, None>>

Deps(s) == <<s.loaded, s.requested, Selected(s)>>

EffectPending == Deps(view) # done

\* The screen shows the state, and its effects have run.
Quiet == state = view /\ ~EffectPending

TypeOK ==
    /\ state \in States
    /\ view \in States
    /\ done \in BOOLEAN \X (Ids \cup {None}) \X (Ids \cup {None})
    /\ address \in Addresses
    /\ entries \subseteq Addresses
    /\ sync \in BOOLEAN
    /\ missed \in BOOLEAN

Init ==
    \E a \in Addresses :
        /\ address = a
        /\ entries = {}
        /\ state = [spots |-> [listed |-> {}, watched |-> {}], loaded |-> FALSE,
                    requested |-> ReadSpotId(a), mode |-> NoMode, query |-> Blank,
                    page |-> 0, notice |-> FALSE]
        /\ view = state
        /\ done = <<FALSE, ReadSpotId(a), None>>
        /\ sync = FALSE
        /\ missed = FALSE

\* The spot that the address asks for is not the one on the screen.
Misdirected ==
    /\ view.loaded
    /\ Selected(view) # None
    /\ address # NoParam
    /\ view.requested # Selected(view)

-----------------------------------------------------------------------------
(* Events; each waits until the updates of the one before are on the screen *)

Update(next) ==
    /\ sync => Quiet
    /\ state' = next
    /\ UNCHANGED <<view, done>>

\* history.pushState, unless the address is the same already.
Push(a) ==
    /\ address' = a
    /\ entries' = IF a = address THEN entries ELSE entries \cup {address}

Asked == missed' = (missed \/ (Misdirected /\ ~EffectPending))

Select(id) ==
    /\ Update([state EXCEPT !.requested = id, !.notice = FALSE])
    /\ Push(id)
    /\ Asked

\* A card of the list, and a marker of the map, which has one for every spot.
SelectCard(id) == id \in PageSpots(view) /\ Select(id) /\ sync' = TRUE
SelectMarker(id) == id \in view.spots.listed /\ Select(id) /\ sync' = TRUE

\* The spot that the dialog added, after the list was loaded again: called when
\* the last of the answers arrives and not by an event.  A refresh that was on
\* its way may have taken the spot off the list again.
SelectAdded(id) == Select(id) /\ sync' = FALSE

\* The back and forward buttons.
PopState(a) ==
    /\ a \in entries
    /\ address' = a
    /\ entries' = entries \cup {address}
    /\ Update([state EXCEPT !.requested = ReadSpotId(a)])
    /\ Asked
    /\ sync' = TRUE

\* A change of the list alone.
Arrange(next) ==
    /\ Update(next)
    /\ sync' = TRUE
    /\ UNCHANGED <<address, entries, missed>>

ChooseMode(mode) == Arrange([state EXCEPT !.mode = mode, !.page = 0])

SearchSpots(query) ==
    Arrange([state EXCEPT !.query = query, !.page = 0,
                          !.mode = IF query # Blank THEN "all" ELSE @])

PreviousPage ==
    /\ CurrentPage(view) > 0
    /\ Arrange([state EXCEPT !.page = CurrentPage(view) - 1])

NextPage ==
    /\ CurrentPage(view) < PageCount(view) - 1
    /\ Arrange([state EXCEPT !.page = CurrentPage(view) + 1])

-----------------------------------------------------------------------------
(* Answers, renderings and effects *)

\* What load does with the spots that the server listed.
CatalogArrives(spots) ==
    /\ Update([state EXCEPT !.spots = spots, !.loaded = TRUE,
                            !.mode = IF @ = NoMode THEN DefaultMode(spots) ELSE @])
    /\ sync' = FALSE
    /\ UNCHANGED <<address, entries, missed>>

Render ==
    /\ ~EffectPending
    /\ state # view
    /\ view' = state
    /\ UNCHANGED <<state, done, address, entries, sync, missed>>

Corrected == [state EXCEPT !.notice = TRUE, !.requested = Selected(view)]

CorrectAddress ==
    /\ EffectPending
    /\ IF Misdirected
         THEN state' = Corrected /\ address' = Selected(view)
         ELSE UNCHANGED <<state, address>>
    /\ done' = Deps(view)
    /\ missed' = FALSE
    /\ UNCHANGED <<view, entries, sync>>

Next ==
    \/ \E id \in Ids : SelectCard(id) \/ SelectMarker(id) \/ SelectAdded(id)
    \/ \E a \in Addresses : PopState(a)
    \/ \E mode \in {"all", "following"} : ChooseMode(mode)
    \/ \E query \in Queries : SearchSpots(query)
    \/ PreviousPage \/ NextPage
    \/ \E spots \in Catalogues : CatalogArrives(spots)
    \/ Render
    \/ CorrectAddress

Spec == Init /\ [][Next]_vars

-----------------------------------------------------------------------------
(* Properties *)

\* Once the screen is settled, an address that names a spot, or tries to, names
\* the one that is shown: after any clicks, steps in the history, corrections
\* and lists in which a spot appears or vanishes.  There is one exception: a
\* step back to a missing spot, or its addition, between its correction and the
\* rendering of the correction; the effect then sees its dependencies unchanged.
AddressNamesTheSpot ==
    Quiet /\ view.loaded /\ Selected(view) # None /\ address # NoParam /\ ~missed
        => address = Selected(view)

\* No rendering takes a spot that the address names off the screen while it is
\* listed, whatever else an answer of the server changes (a follow, the spot that
\* would be shown by default): it stays until the reader asks for another one,
\* and then the address is another one before the screen is.
LinkedSpotStays ==
    [][Selected(view) # Selected(view)' /\ address = Selected(view) =>
         Selected(view) \notin view'.spots.listed]_vars

=============================================================================
