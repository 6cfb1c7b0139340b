--------------------------- MODULE Explore_proofs ---------------------------
(***************************************************************************)
(* Theorems about Explore, for any ids, queries and page size that         *)
(* ExploreAssumption admits.                                               *)
(***************************************************************************)
EXTENDS Explore, FiniteSetTheorems, WellFoundedInduction, TLAPS

-----------------------------------------------------------------------------
(* What the selection and the pages are *)

\* A set of numbers has a least one.
LEMMA LeastIsThere ==
  ASSUME NEW S, S \subseteq Nat, S # {}
  PROVE  Least(S) \in S /\ \A j \in S : Least(S) <= j
<1> DEFINE R == OpToRel(<, Nat)
<1>1. PICK x \in S : \A y \in S : ~ (<<y, x>> \in R)
  <2>1. IsWellFoundedOn(R, Nat)
    BY NatLessThanWellFounded
  <2> QED
    BY <2>1, WFMin
<1>2. ASSUME NEW y \in S PROVE x <= y
  <2>1. x \in Nat /\ y \in Nat
    OBVIOUS
  <2>2. ~ (y < x)
    BY <1>1, <2>1 DEF OpToRel
  <2> QED
    BY <2>1, <2>2
<1> QED
  BY <1>2 DEF Least

LEMMA SelectedIsListed ==
  ASSUME NEW s \in States
  PROVE  /\ Selected(s) \in Ids \cup {None}
         /\ s.requested \in s.spots.listed => Selected(s) = s.requested
<1>1. s.spots.listed \subseteq Ids /\ s.spots.watched \subseteq Ids
  BY DEF States, Catalogues
<1>2. \A S \in SUBSET Ids : S # {} => Least(S) \in S
  <2>1. ASSUME NEW S \in SUBSET Ids, S # {} PROVE Least(S) \in S
    <3>1. S \subseteq Nat
      BY ExploreAssumption
    <3> QED
      BY <2>1, <3>1, LeastIsThere
  <2> QED
    BY <2>1
<1> QED
  BY <1>1, <1>2 DEF Selected, ResolveSpot

LEMMA PagesAreThere ==
  ASSUME NEW s \in States
  PROVE  PageCount(s) \in Nat \ {0} /\ CurrentPage(s) \in Nat
<1>1. IsFiniteSet(Visible(s))
  <2>1. Visible(s) \subseteq Ids
    BY DEF Visible, States, Catalogues
  <2> QED
    BY <2>1, ExploreAssumption, FS_Subset
<1>2. PICK n \in Nat : n = Cardinality(Visible(s))
  BY <1>1, FS_CardinalityType
<1>3. PICK p : p = (n + PageSize - 1) \div PageSize
  OBVIOUS
<1>4. p \in Int
  BY <1>3, ExploreAssumption
<1>5. PageCount(s) = IF p > 1 THEN p ELSE 1
  BY <1>2, <1>3 DEF PageCount
<1>6. PageCount(s) \in Nat \ {0}
  BY <1>4, <1>5
<1>7. s.page \in Nat
  BY DEF States
<1> QED
  BY <1>6, <1>7 DEF CurrentPage

-----------------------------------------------------------------------------
(* The inductive invariant *)

Visited == entries \cup {address}

\* What the address asks for is what the state asks for; and only the address
\* that the page was opened with can name no id, so there are never both kinds.
AddressIsRequested ==
    /\ state.requested = ReadSpotId(address)
    /\ ~ {NoParam, Unreadable} \subseteq Visited

\* Without a parameter in the address the rendering asks for nothing, except
\* between a step back to such an address and its rendering.
BareAddress == address = NoParam /\ view.requested # None => sync

\* A wrong address whose correction has run waits for a rendering that asks for
\* another spot than the one before, unless a request was missed.
CorrectionGoesOn == Misdirected /\ ~EffectPending /\ ~missed => state.requested # view.requested

AddressInv == TypeOK /\ AddressIsRequested /\ BareAddress /\ CorrectionGoesOn

LEMMA AddressInvInit == Init => AddressInv
<1> SUFFICES ASSUME Init PROVE AddressInv
  OBVIOUS
<1>1. PICK a \in Addresses :
        /\ address = a
        /\ entries = {}
        /\ state = [spots |-> [listed |-> {}, watched |-> {}], loaded |-> FALSE,
                    requested |-> ReadSpotId(a), mode |-> NoMode, query |-> Blank,
                    page |-> 0, notice |-> FALSE]
        /\ view = state
        /\ done = <<FALSE, ReadSpotId(a), None>>
        /\ sync = FALSE
        /\ missed = FALSE
  BY DEF Init
<1>2. ReadSpotId(a) \in Ids \cup {None}
  BY DEF ReadSpotId
<1>3. [listed |-> {}, watched |-> {}] \in Catalogues
  BY DEF Catalogues
<1>4. state \in States
  BY <1>1, <1>2, <1>3, ExploreAssumption DEF States
<1>5. TypeOK
  BY <1>1, <1>2, <1>4 DEF TypeOK
<1>6. AddressIsRequested
  BY <1>1 DEF AddressIsRequested, Visited, NoParam, Unreadable
<1>7. BareAddress
  BY <1>1, ExploreAssumption DEF BareAddress, ReadSpotId, NoParam
<1>8. CorrectionGoesOn
  BY <1>1 DEF CorrectionGoesOn, Misdirected
<1> QED
  BY <1>5, <1>6, <1>7, <1>8 DEF AddressInv

-----------------------------------------------------------------------------
(* The shapes that steps have *)

\* A click on a card or a marker, an added spot, or a step in the history.
Asks(a) ==
    /\ a \in Ids \cup entries
    /\ sync => Quiet
    /\ state' \in States /\ state'.requested = ReadSpotId(a)
    /\ address' = a
    /\ entries' \subseteq Visited
    /\ Asked
    /\ sync' \in BOOLEAN /\ (a \notin Ids => sync')
    /\ UNCHANGED <<view, done>>

\* A change of the list, or an answer.
Rearranges ==
    /\ sync => Quiet
    /\ state' \in States /\ state'.requested = state.requested
    /\ sync' \in BOOLEAN
    /\ UNCHANGED <<view, done, address, entries, missed>>

LEMMA SelectAsks ==
  ASSUME TypeOK, NEW id \in Ids, Select(id), sync' \in BOOLEAN
  PROVE  Asks(id)
<1>1. state' = [state EXCEPT !.requested = id, !.notice = FALSE]
  BY DEF Select, Update
<1>2. state' \in States /\ state'.requested = id
  BY <1>1 DEF TypeOK, States
<1>3. ReadSpotId(id) = id
  BY DEF ReadSpotId
<1>4. address' = id /\ entries' \subseteq Visited
  BY DEF Select, Push, Visited
<1> QED
  BY <1>2, <1>3, <1>4 DEF Select, Update, Asks

LEMMA PopStateAsks ==
  ASSUME TypeOK, NEW a, PopState(a)
  PROVE  Asks(a)
<1>1. state' = [state EXCEPT !.requested = ReadSpotId(a)]
  BY DEF PopState, Update
<1>2. state' \in States /\ state'.requested = ReadSpotId(a)
  BY <1>1 DEF TypeOK, States, ReadSpotId
<1> QED
  BY <1>2 DEF PopState, Update, Asks, Visited

LEMMA ArrangeRearranges ==
  ASSUME NEW next \in States, next.requested = state.requested, Arrange(next)
  PROVE  Rearranges
BY DEF Arrange, Update, Rearranges

LEMMA ListRearranges ==
  ASSUME TypeOK,
         \/ \E mode \in {"all", "following"} : ChooseMode(mode)
         \/ \E query \in Queries : SearchSpots(query)
         \/ PreviousPage
         \/ NextPage
  PROVE  Rearranges
<1>0. state \in States /\ view \in States
  BY DEF TypeOK
<1>1. ASSUME NEW mode \in {"all", "following"}, ChooseMode(mode) PROVE Rearranges
  <2>1. [state EXCEPT !.mode = mode, !.page = 0] \in States
    BY <1>0 DEF States
  <2>2. [state EXCEPT !.mode = mode, !.page = 0].requested = state.requested
    BY <1>0 DEF States
  <2> QED
    BY <1>1, <2>1, <2>2, ArrangeRearranges DEF ChooseMode
<1>2. ASSUME NEW query \in Queries, SearchSpots(query) PROVE Rearranges
  <2>1. PICK m \in {"all", "following", NoMode} : m = IF query # Blank THEN "all" ELSE state.mode
    BY <1>0 DEF States
  <2>2. PICK n : n = [state EXCEPT !.query = query, !.page = 0, !.mode = m]
    OBVIOUS
  <2>3. n \in States /\ n.requested = state.requested
    BY <1>0, <2>2 DEF States
  <2>4. Arrange(n)
    BY <1>2, <2>1, <2>2 DEF SearchSpots
  <2> QED
    BY <2>3, <2>4, ArrangeRearranges
<1>3. ASSUME NEW p \in Nat, Arrange([state EXCEPT !.page = p]) PROVE Rearranges
  <2>1. [state EXCEPT !.page = p] \in States
    BY <1>0 DEF States
  <2>2. [state EXCEPT !.page = p].requested = state.requested
    BY <1>0 DEF States
  <2> QED
    BY <1>3, <2>1, <2>2, ArrangeRearranges
<1>4. CurrentPage(view) \in Nat
  BY <1>0, PagesAreThere
<1>5. CASE PreviousPage
  <2>1. CurrentPage(view) - 1 \in Nat
    BY <1>4, <1>5 DEF PreviousPage
  <2> QED
    BY <1>3, <1>5, <2>1 DEF PreviousPage
<1>6. CASE NextPage
  <2>1. CurrentPage(view) + 1 \in Nat
    BY <1>4
  <2> QED
    BY <1>3, <1>6, <2>1 DEF NextPage
<1> QED
  BY <1>1, <1>2, <1>5, <1>6

LEMMA CatalogRearranges ==
  ASSUME TypeOK, NEW spots \in Catalogues, CatalogArrives(spots)
  PROVE  Rearranges
<1>1. PICK m \in {"all", "following", NoMode} :
        m = IF state.mode = NoMode THEN DefaultMode(spots) ELSE state.mode
  BY DEF TypeOK, States, DefaultMode
<1>2. state' = [state EXCEPT !.spots = spots, !.loaded = TRUE, !.mode = m]
  BY <1>1 DEF CatalogArrives, Update
<1>3. state' \in States /\ state'.requested = state.requested
  BY <1>2 DEF TypeOK, States
<1> QED
  BY <1>3 DEF CatalogArrives, Update, Rearranges

LEMMA ExploreStepShape ==
  ASSUME TypeOK, Next
  PROVE  \/ \E a : Asks(a)
         \/ Rearranges
         \/ Render
         \/ CorrectAddress
<1>1. ASSUME NEW id \in Ids, SelectCard(id) \/ SelectMarker(id) \/ SelectAdded(id)
      PROVE  Asks(id)
  BY <1>1, SelectAsks DEF SelectCard, SelectMarker, SelectAdded
<1>2. ASSUME NEW a \in Addresses, PopState(a) PROVE Asks(a)
  BY <1>2, PopStateAsks
<1>3. ASSUME \/ \E mode \in {"all", "following"} : ChooseMode(mode)
             \/ \E query \in Queries : SearchSpots(query)
             \/ PreviousPage
             \/ NextPage
      PROVE  Rearranges
  BY <1>3, ListRearranges
<1>4. ASSUME NEW spots \in Catalogues, CatalogArrives(spots) PROVE Rearranges
  BY <1>4, CatalogRearranges
<1> QED
  BY <1>1, <1>2, <1>3, <1>4 DEF Next
-----------------------------------------------------------------------------
(* The steps *)

LEMMA ExploreTypeStep ==
  ASSUME TypeOK, Next
  PROVE  TypeOK'
<1>1. CASE \E a : Asks(a)
  <2>1. PICK a : Asks(a)
    BY <1>1
  <2>2. a \in Addresses
    BY <2>1 DEF Asks, TypeOK, Addresses
  <2>3. missed' \in BOOLEAN
    BY <2>1 DEF Asks, Asked, TypeOK
  <2> QED
    BY <2>1, <2>2, <2>3 DEF Asks, TypeOK, Visited
<1>2. CASE Rearranges
  BY <1>2 DEF Rearranges, TypeOK
<1>3. CASE Render
  BY <1>3 DEF Render, TypeOK
<1>4. CASE CorrectAddress
  <2>1. Selected(view) \in Ids \cup {None}
    BY SelectedIsListed DEF TypeOK
  <2>2. Deps(view) \in BOOLEAN \X (Ids \cup {None}) \X (Ids \cup {None})
    BY <2>1 DEF Deps, TypeOK, States
  <2>3. Corrected \in States
    BY <2>1 DEF Corrected, TypeOK, States
  <2>4. Misdirected => Selected(view) \in Addresses
    BY <2>1 DEF Misdirected, Addresses
  <2> QED
    BY <1>4, <2>2, <2>3, <2>4 DEF CorrectAddress, TypeOK
<1> QED
  BY <1>1, <1>2, <1>3, <1>4, ExploreStepShape

LEMMA AsksKeepsAddressInv ==
  ASSUME AddressInv, NEW a, Asks(a)
  PROVE  AddressIsRequested' /\ BareAddress' /\ CorrectionGoesOn'
<1>0. a \in Ids \cup entries /\ address' = a /\ view' = view /\ done' = done
  BY DEF Asks
<1>1. Visited' \subseteq Visited \cup Ids
  BY <1>0 DEF Asks, Visited
<1>2. NoParam \notin Ids /\ Unreadable \notin Ids
  BY ExploreAssumption DEF NoParam, Unreadable
<1>3. AddressIsRequested'
  BY <1>0, <1>1, <1>2 DEF AddressInv, AddressIsRequested, Asks
<1>4. BareAddress'
  BY <1>0, <1>2 DEF BareAddress, Asks
<1>5. CorrectionGoesOn'
  <2> SUFFICES ASSUME Misdirected', ~EffectPending', ~missed'
               PROVE  state'.requested # view'.requested
    BY DEF CorrectionGoesOn
  <2>1. ~EffectPending
    BY <1>0 DEF EffectPending
  <2>2. ~Misdirected
    BY <2>1 DEF Asks, Asked
  <2>3. address = NoParam /\ a # NoParam
    BY <1>0, <2>2 DEF Misdirected
  <2>4. a \in Ids
    BY <1>0, <2>3 DEF AddressInv, AddressIsRequested, Visited, TypeOK, Addresses
  <2>5. state'.requested = a /\ a # None
    BY <2>4, <1>2 DEF Asks, ReadSpotId, None, Unreadable
  <2>6. view.requested = None
    BY <2>3, <1>2 DEF AddressInv, AddressIsRequested, BareAddress, Asks, Quiet, ReadSpotId
  <2> QED
    BY <1>0, <2>5, <2>6
<1> QED
  BY <1>3, <1>4, <1>5

LEMMA RearrangesKeepsAddressInv ==
  ASSUME AddressInv, Rearranges
  PROVE  AddressIsRequested' /\ BareAddress' /\ CorrectionGoesOn'
<1>0. /\ address' = address /\ view' = view /\ done' = done /\ missed' = missed
      /\ entries' = entries /\ state'.requested = state.requested
  BY DEF Rearranges
<1>1. AddressIsRequested'
  BY <1>0 DEF AddressInv, AddressIsRequested, Visited
<1>2. BareAddress'
  <2> SUFFICES ASSUME address = NoParam, view.requested # None PROVE FALSE
    BY <1>0 DEF BareAddress
  <2>1. state.requested = None
    BY ExploreAssumption DEF AddressInv, AddressIsRequested, ReadSpotId, NoParam
  <2> QED
    BY <2>1 DEF AddressInv, BareAddress, Rearranges, Quiet
<1>3. CorrectionGoesOn'
  BY <1>0 DEF AddressInv, CorrectionGoesOn, Misdirected, EffectPending
<1> QED
  BY <1>1, <1>2, <1>3

LEMMA RenderKeepsAddressInv ==
  ASSUME AddressInv, Render
  PROVE  AddressIsRequested' /\ BareAddress' /\ CorrectionGoesOn'
<1>0. /\ ~EffectPending /\ view' = state
      /\ UNCHANGED <<state, done, address, entries, sync, missed>>
  BY DEF Render
<1>1. AddressIsRequested'
  BY <1>0 DEF AddressInv, AddressIsRequested, Visited
<1>2. BareAddress'
  BY <1>0, ExploreAssumption DEF AddressInv, AddressIsRequested, BareAddress, ReadSpotId, NoParam
<1>3. CorrectionGoesOn'
  <2> SUFFICES ASSUME Misdirected', ~EffectPending', ~missed' PROVE FALSE
    BY DEF CorrectionGoesOn
  <2>1. Deps(view) = done /\ Deps(state) = done
    BY <1>0 DEF EffectPending
  <2>2. view.loaded = state.loaded /\ view.requested = state.requested /\ Selected(view) = Selected(state)
    BY <2>1 DEF Deps
  <2>3. Misdirected
    BY <1>0, <2>2 DEF Misdirected
  <2> QED
    BY <1>0, <2>2, <2>3 DEF AddressInv, CorrectionGoesOn
<1> QED
  BY <1>1, <1>2, <1>3

LEMMA CorrectKeepsAddressInv ==
  ASSUME AddressInv, CorrectAddress
  PROVE  AddressIsRequested' /\ BareAddress' /\ CorrectionGoesOn'
<1>0. view' = view /\ entries' = entries /\ sync' = sync
  BY DEF CorrectAddress
<1>1. NoParam \notin Ids /\ Unreadable \notin Ids
  BY ExploreAssumption DEF NoParam, Unreadable
<1>2. CASE Misdirected
  <2>1. Selected(view) \in Ids
    BY <1>2, SelectedIsListed DEF Misdirected, AddressInv, TypeOK
  <2>2. state' = Corrected /\ address' = Selected(view)
    BY <1>2 DEF CorrectAddress
  <2>3. state'.requested = Selected(view)
    BY <2>2 DEF Corrected, AddressInv, TypeOK, States
  <2>4. AddressIsRequested'
    BY <1>0, <1>1, <2>1, <2>2, <2>3 DEF AddressInv, AddressIsRequested, Visited, ReadSpotId
  <2>5. BareAddress'
    BY <1>1, <2>1, <2>2 DEF BareAddress
  <2>6. CorrectionGoesOn'
    BY <1>0, <1>2, <2>3 DEF CorrectionGoesOn, Misdirected
  <2> QED
    BY <2>4, <2>5, <2>6
<1>3. CASE ~Misdirected
  <2>1. state' = state /\ address' = address
    BY <1>3 DEF CorrectAddress
  <2>2. ~Misdirected'
    BY <1>0, <1>3, <2>1 DEF Misdirected
  <2> QED
    BY <1>0, <2>1, <2>2 DEF AddressInv, AddressIsRequested, Visited, BareAddress, CorrectionGoesOn
<1> QED
  BY <1>2, <1>3

LEMMA AddressInvStep == AddressInv /\ [Next]_vars => AddressInv'
<1> SUFFICES ASSUME AddressInv, [Next]_vars PROVE AddressInv'
  OBVIOUS
<1>1. CASE Next
  <2>1. TypeOK'
    BY <1>1, ExploreTypeStep DEF AddressInv
  <2> QED
    BY <1>1, <2>1, ExploreStepShape, AsksKeepsAddressInv, RearrangesKeepsAddressInv,
       RenderKeepsAddressInv, CorrectKeepsAddressInv DEF AddressInv
<1>2. CASE UNCHANGED vars
  BY <1>2 DEF vars, AddressInv, TypeOK, AddressIsRequested, Visited, BareAddress,
              CorrectionGoesOn, Misdirected, EffectPending
<1> QED
  BY <1>1, <1>2

LEMMA AddressInvHolds == Spec => []AddressInv
BY AddressInvInit, AddressInvStep, PTL DEF Spec

-----------------------------------------------------------------------------
(* Theorems *)

\* The list, its pages and the selection always have their types.
THEOREM ExploreTypeCorrect == Spec => []TypeOK
<1>1. AddressInv => TypeOK
  BY DEF AddressInv
<1> QED
  BY <1>1, AddressInvHolds, PTL

\* For any ids, matches of the search and page size: once the screen is settled,
\* the address names the spot that is shown, unless a spot was asked for between
\* a correction and its rendering.
THEOREM AddressFollowsSelection == Spec => []AddressNamesTheSpot
<1>1. ASSUME AddressInv PROVE AddressNamesTheSpot
  <2> SUFFICES ASSUME Quiet, view.loaded, Selected(view) # None, address # NoParam, ~missed
               PROVE  address = Selected(view)
    BY DEF AddressNamesTheSpot
  <2>1. view.requested = ReadSpotId(address)
    BY <1>1 DEF AddressInv, AddressIsRequested, Quiet
  <2>2. ~Misdirected
    BY <1>1 DEF AddressInv, CorrectionGoesOn, Quiet
  <2>3. view.requested = Selected(view)
    BY <2>2 DEF Misdirected
  <2> QED
    BY <2>1, <2>3 DEF ReadSpotId
<1> QED
  BY <1>1, AddressInvHolds, PTL

\* No rendering takes the spot that the address names off the screen while the
\* server lists it, for any lists and any order of events and answers.
THEOREM LinkedSpotIsKept == Spec => LinkedSpotStays
<1>1. ASSUME AddressInv, [Next]_vars, Selected(view) # Selected(view)', address = Selected(view)
      PROVE  Selected(view) \notin view'.spots.listed
  <2>1. view' # view
    BY <1>1 DEF Selected, ResolveSpot
  <2>2. Render
    BY <1>1, <2>1, ExploreStepShape DEF vars, AddressInv, Asks, Rearranges, CorrectAddress
  <2>3. view' = state
    BY <2>2 DEF Render
  <2>4. Selected(state) # Selected(view)
    BY <1>1, <2>3
  <2>5. state \in States /\ state.spots.listed \subseteq Ids
    BY <1>1 DEF AddressInv, TypeOK, States, Catalogues
  <2>6. address \in Ids => state.requested = address
    BY <1>1 DEF AddressInv, AddressIsRequested, ReadSpotId
  <2>7. address \notin state.spots.listed
    BY <1>1, <2>4, <2>5, <2>6, SelectedIsListed
  <2> QED
    BY <1>1, <2>3, <2>7
<1> QED
  BY <1>1, AddressInvHolds, PTL DEF Spec, LinkedSpotStays

=============================================================================
