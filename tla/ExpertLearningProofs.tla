------------------------ MODULE ExpertLearningProofs ------------------------
(***************************************************************************)
(* Proofs about the learning side, for any questions, batches and evidence. *)
(*                                                                          *)
(* A resolver's answer stands because it selects the first of a window, and *)
(* what becomes known later does not come before it.                        *)
(*                                                                          *)
(* A learning run leaves every cutoff with its predictions found and in     *)
(* hand until they are decided (LoopInv), and owes the competence memory    *)
(* the scores it has queued and no others (LearnInv).                       *)
(*                                                                          *)
(* A rerun adds nothing because what a run leaves done stage by stage       *)
(* (RestInv) is what each stage looks for before it adds anything, and      *)
(* because a batch holds of its own predictions all or none (WholeInv).     *)
(*                                                                          *)
(* A synthesis is the market state of what was on record (SynthesisInv):    *)
(* its groups are followed pair by pair, its sums member by member.         *)
(***************************************************************************)
EXTENDS LearningLoop, QuestionResolvers, Synthesis, SequenceTheorems, FiniteSetTheorems, WellFoundedInduction, TLAPS

\* Induction, as the least number a set of numbers has.
LEMMA FirstNumber ==
  ASSUME NEW S \in SUBSET Nat, S # {}
  PROVE  \E m \in S : \A k \in S : ~ (k < m)
<1>1. IsWellFoundedOn(OpToRel(<, Nat), Nat)
  BY NatLessThanWellFounded
<1>2. PICK R : R = OpToRel(<, Nat)
  OBVIOUS
<1>3. \E m \in S : \A k \in S : <<k, m>> \notin R
  BY <1>1, <1>2, WFMin
<1>4. \A k, m \in S : k < m => <<k, m>> \in R
  BY <1>2 DEF OpToRel
<1>5. QED
  BY <1>3, <1>4

\* A journal of events, of any kind.
IsSeq(ev) == \E S : ev \in Seq(S)

-----------------------------------------------------------------------------
(* The resolvers.  A resolver is a function of what it selects from the    *)
(* durable evidence, and what it selects is the first in some window.      *)
(* What becomes known after a final answer is dated never takes the place  *)
(* of a first, and once a window has closed nothing new falls into it.     *)

\* Evidence has its times, and its identity determines it.
Dated(S) == \A e, f \in S : {e.id, e.known, e.cutoff} \subseteq Nat /\ (e.id = f.id => e = f)

LEMMA OnlyFirst ==
  ASSUME NEW S, Dated(S), NEW e \in S, \A f \in S \ {e} : Before(e, f)
  PROVE  FirstOf(S) = {e}
<1>1. ASSUME NEW g \in S, \A f \in S \ {g} : Before(g, f) PROVE g = e
  <2>1. SUFFICES ASSUME g # e PROVE FALSE
    OBVIOUS
  <2>2. Before(g, e) /\ Before(e, g)
    BY <1>1, <2>1
  <2>3. {e.id, e.known, e.cutoff, g.id, g.known, g.cutoff} \subseteq Nat
    BY DEF Dated
  <2>4. QED
    BY <2>2, <2>3 DEF Before
<1>2. (CHOOSE g \in S : \A f \in S \ {g} : Before(g, f)) = e
  BY <1>1
<1>3. QED
  BY <1>2 DEF FirstOf

LEMMA FirstIs ==
  ASSUME NEW S, Dated(S), S # {}
  PROVE  \E e \in S : FirstOf(S) = {e} /\ \A f \in S \ {e} : Before(e, f)
<1>1. PICK e1 \in S : \A f \in S : ~ (f.known < e1.known)
  <2>1. {e.known : e \in S} \in SUBSET Nat /\ {e.known : e \in S} # {}
    BY DEF Dated
  <2>2. QED
    BY <2>1, FirstNumber
<1>2. PICK e2 \in S : e2.known = e1.known /\ \A f \in S : f.known = e1.known => ~ (f.cutoff < e2.cutoff)
  <2>1. PICK T : T = {e \in S : e.known = e1.known}
    OBVIOUS
  <2>2. {e.cutoff : e \in T} \in SUBSET Nat /\ {e.cutoff : e \in T} # {}
    BY <2>1 DEF Dated
  <2>3. QED
    BY <2>1, <2>2, FirstNumber
<1>3. PICK e3 \in S : /\ e3.known = e1.known /\ e3.cutoff = e2.cutoff
                      /\ \A f \in S : f.known = e1.known /\ f.cutoff = e2.cutoff => ~ (f.id < e3.id)
  <2>1. PICK T : T = {e \in S : e.known = e1.known /\ e.cutoff = e2.cutoff}
    OBVIOUS
  <2>2. {e.id : e \in T} \in SUBSET Nat /\ {e.id : e \in T} # {}
    BY <1>2, <2>1 DEF Dated
  <2>3. QED
    BY <2>1, <2>2, FirstNumber
<1>4. ASSUME NEW f \in S \ {e3} PROVE Before(e3, f)
  <2>1. /\ {f.id, f.known, f.cutoff, e3.id, e3.known, e3.cutoff} \subseteq Nat
        /\ f.id # e3.id
    BY DEF Dated
  <2>2. ~ (f.known < e3.known)
    BY <1>1, <1>3
  <2>3. f.known = e3.known => ~ (f.cutoff < e3.cutoff)
    BY <1>2, <1>3
  <2>4. f.known = e3.known /\ f.cutoff = e3.cutoff => ~ (f.id < e3.id)
    BY <1>3
  <2>5. QED
    BY <2>1, <2>2, <2>3, <2>4 DEF Before
<1>5. QED
  BY <1>4, OnlyFirst

LEMMA NoFirst == FirstOf({}) = {}
BY DEF FirstOf

\* What becomes known after the first does not take its place.
LEMMA FirstStays ==
  ASSUME NEW T, Dated(T), NEW S \in SUBSET T, NEW e \in FirstOf(S), S # {},
         \A f \in T \ S : e.known < f.known
  PROVE  FirstOf(T) = FirstOf(S)
<1>1. Dated(S)
  BY DEF Dated
<1>2. e \in S /\ FirstOf(S) = {e} /\ \A f \in S \ {e} : Before(e, f)
  BY <1>1, FirstIs
<1>3. \A f \in T \ {e} : Before(e, f)
  BY <1>2 DEF Before
<1>4. QED
  BY <1>2, <1>3, OnlyFirst

-----------------------------------------------------------------------------
(* A final answer.                                                         *)

LEMMA ClosesIs == Closes \in Nat /\ ResolvesAt \in Nat /\ Cutoff \in Nat /\ ResolvesAt <= Closes /\ Cutoff < ResolvesAt
BY TimesAssumption DEF Closes

LEMMA MaxOf ==
  ASSUME NEW b \in Nat, NEW K \in SUBSET Nat, K # {}, \A k \in K : k <= b
  PROVE  Max(K) \in K /\ \A k \in K : k <= Max(K)
<1>1. {b - k : k \in K} \in SUBSET Nat /\ {b - k : k \in K} # {}
  <2>1. \A k \in K : b - k \in Nat
    OBVIOUS
  <2>2. QED
    BY <2>1
<1>2. PICK m \in {b - k : k \in K} : \A n \in {b - k : k \in K} : ~ (n < m)
  BY <1>1, FirstNumber
<1>3. PICK k \in K : m = b - k
  BY <1>2
<1>4. \A j \in K : k >= j
  <2>1. TAKE j \in K
  <2>2. ~ (b - j < b - k)
    BY <1>2, <1>3
  <2>3. QED
    BY <2>2
<1>5. QED
  BY <1>4 DEF Max

Final(r) == r.status \in {"RESOLVED", "UNRESOLVABLE"}
Decided(v, selected, t) ==
  IF selected = {} THEN Unresolved(t)
  ELSE IF \E e \in selected : t < e.known THEN Pending
  ELSE Resolved(v, selected)
Timed(selected) == \A e \in selected : e.known \in Nat

LEMMA UnresolvedFor ==
  ASSUME NEW t \in Nat, Final(Unresolved(t))
  PROVE  /\ Unresolved(t).at = Closes + 1
         /\ \A u \in Nat : t <= u => Unresolved(u) = Unresolved(t)
BY ClosesIs DEF Unresolved, Final, Pending, Answer

LEMMA ResolvedFor ==
  ASSUME NEW v, NEW selected, selected # {}, Timed(selected), Final(Resolved(v, selected))
  PROVE  /\ \A e \in selected : Cutoff < e.known /\ e.known <= Closes /\ e.known <= Resolved(v, selected).at
         /\ Resolved(v, selected).at \in Nat
<1>1. \A e \in selected : Cutoff < e.known /\ e.known <= Closes
  BY DEF Resolved, Final, Raised, Answer
<1>2. Resolved(v, selected) = Answer("RESOLVED", Max({e.known : e \in selected}), v, selected)
  BY <1>1 DEF Resolved
<1>3. Resolved(v, selected).at = Max({e.known : e \in selected})
  BY <1>2 DEF Answer
<1>4. {e.known : e \in selected} \in SUBSET Nat /\ {e.known : e \in selected} # {}
  BY DEF Timed
<1>5. \A k \in {e.known : e \in selected} : k <= Closes
  BY <1>1
<1>6. PICK b : b = Closes
  OBVIOUS
<1>7. /\ \A k \in {e.known : e \in selected} : k <= Max({e.known : e \in selected})
      /\ Max({e.known : e \in selected}) \in Nat
  BY <1>4, <1>5, <1>6, ClosesIs, MaxOf
<1>8. QED
  BY <1>1, <1>3, <1>7

\* A final decision is one of the two, and dated no earlier than what it rests on.
LEMMA FinalDecision ==
  ASSUME NEW v, NEW selected, Timed(selected), NEW t \in Nat, Final(Decided(v, selected, t))
  PROVE  /\ Decided(v, selected, t).at \in Nat
         /\ selected = {} => Decided(v, selected, t).at = Closes + 1
         /\ \A e \in selected : e.known <= t /\ e.known <= Decided(v, selected, t).at
         /\ \A u \in Nat : t <= u => Decided(v, selected, u) = Decided(v, selected, t)
<1>1. CASE selected = {}
  <2>1. \A u : Decided(v, selected, u) = Unresolved(u)
    BY <1>1 DEF Decided
  <2>2. QED
    BY <1>1, <2>1, UnresolvedFor, ClosesIs
<1>2. CASE selected # {}
  <2>1. ~ \E e \in selected : t < e.known
    BY <1>2 DEF Decided, Final, Pending, Answer
  <2>2. \A u \in Nat : t <= u => ~ \E e \in selected : u < e.known
    BY <2>1 DEF Timed
  <2>3. \A u \in Nat : t <= u => Decided(v, selected, u) = Resolved(v, selected)
    BY <1>2, <2>2 DEF Decided
  <2>4. Decided(v, selected, t) = Resolved(v, selected)
    BY <2>3
  <2>5. Resolved(v, selected).at \in Nat /\ \A e \in selected : e.known <= Resolved(v, selected).at
    BY <1>2, <2>4, ResolvedFor
  <2>6. \A e \in selected : e.known <= t
    BY <2>1 DEF Timed
  <2>7. QED
    BY <1>2, <2>3, <2>4, <2>5, <2>6
<1>3. QED
  BY <1>1, <1>2

\* The evidence of the journal grew, and nothing of what came is late for it.
NothingLate(S, E, at) == S \in SUBSET E /\ \A e \in E \ S : ~ (e.known <= at)

\* A window is a part of the evidence that becomes known while it is open.
Window(S, E, W, X) ==
  /\ W = X \cap S
  /\ X \in SUBSET E /\ \A e \in X : e.known <= Closes

LEMMA SelectionStays ==
  ASSUME NEW S, NEW E, Dated(E), NEW W, NEW X, Window(S, E, W, X),
         NEW at \in Nat, NothingLate(S, E, at),
         W = {} => at >= Closes,
         \A e \in FirstOf(W) : e.known <= at
  PROVE  FirstOf(X) = FirstOf(W)
<1>1. \A e \in X \ W : ~ (e.known <= at) /\ e.known \in Nat /\ e.known <= Closes
  BY DEF Window, NothingLate, Dated
<1>2. CASE W = {}
  BY <1>1, <1>2, ClosesIs DEF Window
<1>3. CASE W # {}
  <2>1. Dated(W) /\ Dated(X)
    BY DEF Window, Dated
  <2>2. PICK e \in W : FirstOf(W) = {e}
    BY <1>3, <2>1, FirstIs
  <2>3. e.known \in Nat /\ e.known <= at
    BY <2>1, <2>2 DEF Dated
  <2>4. \A f \in X \ W : e.known < f.known
    BY <1>1, <2>3
  <2>5. W \in SUBSET X /\ e \in FirstOf(W)
    BY <2>2 DEF Window
  <2>6. QED
    BY <1>3, <2>1, <2>4, <2>5, FirstStays
<1>4. QED
  BY <1>2, <1>3

FrameWindow(E) == InWindow(Qualified(E))
BookWindow(E) == {e \in InWindow(Qualified(E)) : Measurable(e.book)}
EndpointWindow(E) == {e \in InWindow(Comparable(E)) : ResolvesAt <= e.cutoff /\ e.cutoff <= Closes}
StateWindow(E) == {e \in InWindow(Qualified(E)) : e.sameRelationship /\ e.basis # Missing}

LEMMA Windows ==
  ASSUME NEW E, NEW S \in SUBSET E
  PROVE  /\ Window(S, E, FrameWindow(S), FrameWindow(E))
         /\ Window(S, E, BookWindow(S), BookWindow(E))
         /\ Window(S, E, EndpointWindow(S), EndpointWindow(E))
         /\ Window(S, E, StateWindow(S), StateWindow(E))
<1>1. Window(S, E, FrameWindow(S), FrameWindow(E))
  BY DEF Window, FrameWindow, InWindow, Qualified
<1>2. Window(S, E, BookWindow(S), BookWindow(E))
  BY DEF Window, BookWindow, InWindow, Qualified
<1>3. Window(S, E, EndpointWindow(S), EndpointWindow(E))
  BY DEF Window, EndpointWindow, InWindow, Comparable, Qualified
<1>4. Window(S, E, StateWindow(S), StateWindow(E))
  BY DEF Window, StateWindow, InWindow, Qualified
<1>5. QED
  BY <1>1, <1>2, <1>3, <1>4

\* The evidence a prediction is decided on, by its kind.
LEMMA Selections ==
  ASSUME NEW E
  PROVE  /\ SelectForwardFrame(E) = FirstOf(FrameWindow(E))
         /\ SelectForwardBook(E) = FirstOf(BookWindow(E))
         /\ Endpoint(E) = FirstOf(EndpointWindow(E))
         /\ SelectForwardState(E) = FirstOf(StateWindow(E))
BY DEF SelectForwardFrame, SelectForwardBook, Endpoint, SelectForwardState,
       FrameWindow, BookWindow, EndpointWindow, StateWindow

LEMMA WindowTimes ==
  ASSUME NEW E, Dated(E), NEW S \in SUBSET E, NEW W, NEW X, Window(S, E, W, X)
  PROVE  Dated(W) /\ Timed(FirstOf(W)) /\ (FirstOf(W) = {} <=> W = {}) /\ FirstOf(W) \subseteq W
<1>1. Dated(W)
  BY DEF Dated, Window
<1>2. CASE W = {}
  BY <1>1, <1>2, NoFirst DEF Timed
<1>3. CASE W # {}
  <2>1. PICK e \in W : FirstOf(W) = {e}
    BY <1>1, <1>3, FirstIs
  <2>2. QED
    BY <1>1, <1>3, <2>1 DEF Timed, Dated
<1>4. QED
  BY <1>2, <1>3

\* A decision on the first of a window is the same on the evidence that came
\* since.
LEMMA FirstDecisionStays ==
  ASSUME NEW E, Dated(E), NEW S \in SUBSET E, NEW W, NEW X, Window(S, E, W, X), NEW v, NEW t \in Nat,
         Final(Decided(v, FirstOf(W), t)), NothingLate(S, E, Decided(v, FirstOf(W), t).at)
  PROVE  FirstOf(X) = FirstOf(W)
<1>1. PICK at : at = Decided(v, FirstOf(W), t).at
  OBVIOUS
<1>2. /\ at \in Nat /\ (FirstOf(W) = {} => at = Closes + 1)
      /\ \A e \in FirstOf(W) : e.known <= at
  BY <1>1, FinalDecision, WindowTimes
<1>3. W = {} => at >= Closes
  BY <1>2, WindowTimes, ClosesIs
<1>4. NothingLate(S, E, at)
  BY <1>1
<1>5. QED
  BY <1>2, <1>3, <1>4, SelectionStays

LEMMA EndpointStays ==
  ASSUME NEW E, Dated(E), NEW S \in SUBSET E, NEW v, NEW t \in Nat,
         Final(Decided(v, ContinuousEndpoint(S), t)), NothingLate(S, E, Decided(v, ContinuousEndpoint(S), t).at)
  PROVE  ContinuousEndpoint(E) = ContinuousEndpoint(S)
<1>1. PICK at : at = Decided(v, ContinuousEndpoint(S), t).at
  OBVIOUS
<1>2. PICK W : W = EndpointWindow(S)
  OBVIOUS
<1>3. PICK X : X = EndpointWindow(E)
  OBVIOUS
<1>4. Window(S, E, W, X)
  BY <1>2, <1>3, Windows
<1>5. Endpoint(S) = FirstOf(W) /\ Endpoint(E) = FirstOf(X)
  BY <1>2, <1>3, Selections
<1>6. Dated(W) /\ Timed(FirstOf(W)) /\ (FirstOf(W) = {} <=> W = {}) /\ FirstOf(W) \subseteq W
  BY <1>4, WindowTimes
<1>7. ContinuousEndpoint(S) \subseteq FirstOf(W)
  BY <1>5 DEF ContinuousEndpoint
<1>8. /\ at \in Nat /\ (ContinuousEndpoint(S) = {} => at = Closes + 1)
      /\ \A e \in ContinuousEndpoint(S) : e.known <= at
  <2>1. Timed(ContinuousEndpoint(S))
    BY <1>6, <1>7 DEF Timed
  <2>2. QED
    BY <1>1, <2>1, FinalDecision
<1>9. W = {} => at >= Closes
  BY <1>6, <1>7, <1>8, ClosesIs
<1>10. \A e \in FirstOf(W) : e.known <= at
  <2>1. CASE ContinuousEndpoint(S) = {}
    <3>1. \A e \in W : e.known <= Closes /\ e.known \in Nat
      BY <1>4, <1>6 DEF Window, Dated
    <3>2. QED
      BY <1>6, <1>8, <2>1, <3>1, ClosesIs
  <2>2. CASE ContinuousEndpoint(S) # {}
    <3>1. W # {}
      BY <1>6, <1>7, <2>2
    <3>2. PICK e \in W : FirstOf(W) = {e}
      BY <1>6, <3>1, FirstIs
    <3>3. QED
      BY <1>7, <1>8, <2>2, <3>2
  <2>3. QED
    BY <2>1, <2>2
<1>11. NothingLate(S, E, at)
  BY <1>1
<1>12. FirstOf(X) = FirstOf(W)
  BY <1>4, <1>8, <1>9, <1>10, <1>11, SelectionStays
<1>13. QED
  BY <1>5, <1>12 DEF ContinuousEndpoint

-----------------------------------------------------------------------------
(* The path of the grid.                                                   *)

Points == Len(ResolutionGrid)
SlotOf(E, i) == {e \in Qualified(E) : ResolutionGrid[i] <= e.known /\ e.known <= SlotUpper(i)}
PathOf(E, n) == [i \in 1..n |-> FirstOf(SlotOf(E, i))]

LEMMA GridIs ==
  /\ Points \in Nat \ {0} /\ DOMAIN ResolutionGrid = 1..Points
  /\ \A i \in 1..Points : ResolutionGrid[i] \in Nat /\ ResolutionGrid[i] = Cutoff + i * Grid
  /\ ResolutionGrid[Points] = ResolvesAt
  /\ \A i \in 1..Points : ResolutionGrid[i] > Cutoff /\ ResolutionGrid[i] <= ResolvesAt
  /\ \A i, j \in 1..Points : i < j => ResolutionGrid[i] < ResolutionGrid[j]
<1>1. PICK c : c = Cutoff
  OBVIOUS
<1>2. PICK g : g = Grid
  OBVIOUS
<1>3. PICK n : n = (ResolvesAt - Cutoff) \div Grid
  OBVIOUS
<1>4. c \in Nat /\ g \in Nat /\ g > 0 /\ ResolvesAt \in Nat /\ c < ResolvesAt
  BY <1>1, <1>2, TimesAssumption
<1>5. n \in Nat /\ n * g = ResolvesAt - c /\ n > 0
  <2>1. PICK d : d = ResolvesAt - c
    OBVIOUS
  <2>2. d \in Nat /\ d > 0 /\ d % g = 0 /\ n = d \div g
    BY <1>1, <1>2, <1>3, <1>4, <2>1, TimesAssumption
  <2>3. n \in Int /\ d = n * g + (d % g)
    BY <1>4, <2>2
  <2>4. d = n * g
    BY <1>4, <2>2, <2>3
  <2>5. n > 0
    <3>1. SUFFICES ASSUME n <= 0 PROVE FALSE
      BY <2>3
    <3>2. n * g <= 0
      BY <1>4, <2>3, <3>1
    <3>3. QED
      BY <2>2, <2>4, <3>2
  <2>6. QED
    BY <2>1, <2>3, <2>4, <2>5
<1>6. ResolutionGrid = [i \in 1..n |-> c + i * g]
  BY <1>1, <1>2, <1>3 DEF ResolutionGrid
<1>7. Points = n /\ DOMAIN ResolutionGrid = 1..n
  BY <1>5, <1>6 DEF Points
<1>8. \A i \in 1..n : ResolutionGrid[i] = c + i * g /\ i * g \in Nat
  BY <1>4, <1>5, <1>6
<1>9. ASSUME NEW i \in 1..n, NEW j \in 1..n, i < j PROVE i * g < j * g
  BY <1>4, <1>5, <1>9
<1>10. ASSUME NEW i \in 1..n PROVE i * g > 0 /\ i * g <= n * g
  BY <1>4, <1>5
<1>11. \A i \in 1..n : ResolutionGrid[i] \in Nat /\ ResolutionGrid[i] > c /\ ResolutionGrid[i] <= ResolvesAt
  BY <1>4, <1>5, <1>8, <1>10
<1>12. \A i, j \in 1..n : i < j => ResolutionGrid[i] < ResolutionGrid[j]
  BY <1>4, <1>8, <1>9
<1>13. ResolutionGrid[n] = ResolvesAt
  BY <1>4, <1>5, <1>8
<1>14. QED
  BY <1>1, <1>2, <1>5, <1>7, <1>8, <1>11, <1>12, <1>13

\* A slot is over before the next one, and the last with the window.
LEMMA SlotEnds ==
  ASSUME NEW i \in 1..Points
  PROVE  /\ SlotUpper(i) \in Nat /\ SlotUpper(i) <= Closes
         /\ \A j \in 1..Points : i < j => SlotUpper(i) < ResolutionGrid[j]
<1>1. MaxLag \in Nat /\ Closes = ResolvesAt + MaxLag /\ ResolvesAt \in Nat
  BY TimesAssumption DEF Closes
<1>2. CASE i = Points
  <2>1. SlotUpper(i) = ResolvesAt + MaxLag
    BY <1>2, GridIs DEF SlotUpper, Points
  <2>2. \A j \in 1..Points : ~ (i < j)
    BY <1>2, GridIs
  <2>3. QED
    BY <1>1, <2>1, <2>2
<1>3. CASE i # Points
  <2>1. i + 1 \in 1..Points
    BY <1>3, GridIs
  <2>2. PICK a : a = ResolutionGrid[i] + MaxLag
    OBVIOUS
  <2>3. PICK b : b = ResolutionGrid[i + 1] - 1
    OBVIOUS
  <2>4. a \in Nat /\ b \in Nat /\ a <= Closes /\ b < ResolutionGrid[i + 1]
    BY <1>1, <2>1, <2>2, <2>3, GridIs
  <2>5. SlotUpper(i) = Min({a, b})
    BY <1>3, <2>2, <2>3 DEF SlotUpper, Points
  <2>6. Min({a, b}) \in {a, b} /\ Min({a, b}) <= a /\ Min({a, b}) <= b
    <3>1. \E x \in {a, b} : \A y \in {a, b} : x <= y
      BY <2>4
    <3>2. QED
      BY <3>1 DEF Min
  <2>7. \A j \in 1..Points : i < j => ResolutionGrid[i + 1] <= ResolutionGrid[j]
    <3>1. TAKE j \in 1..Points
    <3>2. i < j => j = i + 1 \/ i + 1 < j
      OBVIOUS
    <3>3. QED
      BY <2>1, <3>2, GridIs
  <2>8. \A j \in 1..Points : ResolutionGrid[j] \in Nat
    BY GridIs
  <2>9. \A j \in 1..Points : i < j => b < ResolutionGrid[j]
    BY <2>1, <2>4, <2>7, <2>8
  <2>10. PICK m : m = Min({a, b})
    OBVIOUS
  <2>11. m \in Nat /\ m <= a /\ m <= b
    BY <2>4, <2>6, <2>10
  <2>12. QED
    BY <1>1, <2>4, <2>5, <2>8, <2>9, <2>10, <2>11
<1>4. QED
  BY <1>2, <1>3

LEMMA SlotTimes ==
  ASSUME NEW E, Dated(E), NEW i \in 1..Points
  PROVE  Dated(SlotOf(E, i)) /\ FirstOf(SlotOf(E, i)) \subseteq SlotOf(E, i)
         /\ (FirstOf(SlotOf(E, i)) = {} <=> SlotOf(E, i) = {})
<1>1. Dated(SlotOf(E, i))
  BY DEF Dated, SlotOf, Qualified
<1>2. PICK W : W = SlotOf(E, i)
  OBVIOUS
<1>3. CASE W = {}
  BY <1>1, <1>2, <1>3, NoFirst
<1>4. CASE W # {}
  <2>1. PICK e \in W : FirstOf(W) = {e}
    BY <1>1, <1>2, <1>4, FirstIs
  <2>2. QED
    BY <1>1, <1>2, <1>4, <2>1
<1>5. QED
  BY <1>3, <1>4

\* No frame falls into two slots, so none is used before its slot comes.
LEMMA SlotIsFree ==
  ASSUME NEW E, Dated(E), NEW i \in 1..Points
  PROVE  {e \in Qualified(E) :
            /\ \A j \in 1..(i - 1) : e \notin PathOf(E, i - 1)[j]
            /\ ResolutionGrid[i] <= e.known /\ e.known <= SlotUpper(i)} = SlotOf(E, i)
<1>1. SUFFICES ASSUME NEW e \in SlotOf(E, i), NEW j \in 1..(i - 1) PROVE e \notin PathOf(E, i - 1)[j]
  BY DEF SlotOf
<1>2. j \in 1..Points /\ j < i
  BY GridIs
<1>3. PathOf(E, i - 1)[j] = FirstOf(SlotOf(E, j))
  BY DEF PathOf
<1>4. SUFFICES ASSUME e \in SlotOf(E, j) PROVE FALSE
  BY <1>2, <1>3, SlotTimes
<1>5. e.known \in Nat /\ e.known <= SlotUpper(j) /\ ResolutionGrid[i] <= e.known
  BY <1>4 DEF SlotOf, Qualified, Dated
<1>6. SlotUpper(j) \in Nat /\ SlotUpper(j) < ResolutionGrid[i] /\ ResolutionGrid[i] \in Nat
  BY <1>2, SlotEnds, GridIs
<1>7. QED
  BY <1>5, <1>6

Row(chosen, E, i) ==
  IF i = 0 THEN <<>>
  ELSE chosen[i - 1] \o <<FirstOf({e \in Qualified(E) :
           /\ \A j \in 1..(i - 1) : e \notin chosen[i - 1][j]
           /\ ResolutionGrid[i] <= e.known /\ e.known <= SlotUpper(i)})>>

LEMMA PathGoesOn ==
  ASSUME NEW E, NEW n \in Nat
  PROVE  PathOf(E, n) \o <<FirstOf(SlotOf(E, n + 1))>> = PathOf(E, n + 1)
<1>1. PICK f : f = [i \in 1..(n + 1) |-> FirstOf(SlotOf(E, i))]
  OBVIOUS
<1>2. PICK T : T = {f[i] : i \in 1..(n + 1)}
  OBVIOUS
<1>3. PathOf(E, n + 1) = f
  BY <1>1 DEF PathOf
<1>4. PathOf(E, n) = [i \in 1..n |-> f[i]]
  BY <1>1 DEF PathOf
<1>5. [i \in 1..n |-> f[i]] \in Seq(T) /\ Len([i \in 1..n |-> f[i]]) = n
  BY <1>1, <1>2
<1>6. f \in Seq(T) /\ Len(f) = n + 1 /\ f[n + 1] \in T
  BY <1>1, <1>2
<1>7. PICK s \in Seq(T) : s = [i \in 1..n |-> f[i]]
  BY <1>5
<1>8. Len(s) = n /\ \A i \in 1..n : s[i] = f[i]
  BY <1>5, <1>7
<1>9. PICK x \in T : x = f[n + 1]
  BY <1>6
<1>10. s \o <<x>> \in Seq(T) /\ Len(s \o <<x>>) = n + 1
       /\ \A i \in 1..(n + 1) : (s \o <<x>>)[i] = f[i]
  BY <1>8, <1>9
<1>11. s \o <<x>> = f
  BY <1>6, <1>10
<1>12. QED
  BY <1>1, <1>3, <1>4, <1>7, <1>9, <1>11

LEMMA PathRow ==
  ASSUME NEW E, Dated(E), NEW chosen, NEW i \in 1..Points, chosen[i - 1] = PathOf(E, i - 1)
  PROVE  Row(chosen, E, i) = PathOf(E, i)
<1>1. PICK m \in Nat : i = m + 1
  <2>1. i - 1 \in Nat /\ i = (i - 1) + 1
    BY GridIs
  <2>2. QED
    BY <2>1
<1>2. i # 0 /\ i - 1 = m
  BY <1>1
<1>3. Row(chosen, E, i) = PathOf(E, i - 1) \o <<FirstOf(SlotOf(E, i))>>
  BY <1>2, SlotIsFree DEF Row
<1>4. QED
  BY <1>1, <1>2, <1>3, PathGoesOn

LEMMA GridPath ==
  ASSUME NEW E, Dated(E)
  PROVE  GridFrames(E) = PathOf(E, Points)
<1>1. PICK n \in Nat : n = Points
  BY GridIs
<1>2. PICK c : c = [i \in 0..n |-> PathOf(E, i)]
  OBVIOUS
<1>3. c = [i \in 0..n |-> Row(c, E, i)]
  <2>1. ASSUME NEW i \in 0..n PROVE PathOf(E, i) = Row(c, E, i)
    <3>1. CASE i = 0
      BY <3>1 DEF PathOf, Row
    <3>2. CASE i # 0
      <4>1. i \in 1..Points /\ i - 1 \in 0..n
        BY <1>1, <3>2
      <4>2. c[i - 1] = PathOf(E, i - 1)
        BY <1>2, <4>1
      <4>3. QED
        BY <4>1, <4>2, PathRow
    <3>3. QED
      BY <3>1, <3>2
  <2>2. QED
    BY <1>2, <2>1
<1>4. ASSUME NEW f, f = [i \in 0..n |-> Row(f, E, i)]
      PROVE  f[n] = PathOf(E, n)
  <2>1. PICK bad : bad = {i \in 0..n : f[i] # PathOf(E, i)}
    OBVIOUS
  <2>2. SUFFICES ASSUME bad # {} PROVE FALSE
    BY <1>1, <2>1
  <2>3. bad \in SUBSET Nat
    BY <2>1
  <2>4. PICK i \in bad : \A j \in bad : ~ (j < i)
    BY <2>2, <2>3, FirstNumber
  <2>5. f[i] = Row(f, E, i) /\ i \in 0..n /\ f[i] # PathOf(E, i)
    BY <1>4, <2>1
  <2>6. i # 0
    BY <2>5 DEF Row, PathOf
  <2>7. i - 1 \in 0..n /\ i - 1 < i /\ i \in 1..Points
    BY <1>1, <2>5, <2>6
  <2>8. f[i - 1] = PathOf(E, i - 1)
    BY <2>1, <2>4, <2>7
  <2>9. QED
    BY <2>5, <2>7, <2>8, PathRow
<1>5. \E f : f = [i \in 0..n |-> Row(f, E, i)]
  BY <1>3
<1>6. PICK g : g = CHOOSE f : f = [i \in 0..n |-> Row(f, E, i)]
  OBVIOUS
<1>7. g = [i \in 0..n |-> Row(g, E, i)]
  BY <1>5, <1>6
<1>8. GridFrames(E) = g[n]
  BY <1>1, <1>6 DEF GridFrames, Row, Points
<1>9. QED
  BY <1>1, <1>4, <1>7, <1>8

\* The slots that were filled keep their frames, and if one was empty the
\* window has closed on it.
LEMMA GridStays ==
  ASSUME NEW E, Dated(E), NEW S \in SUBSET E, NEW v, NEW t \in Nat,
         Final(Decided(v, SelectGridFrames(S), t)), NothingLate(S, E, Decided(v, SelectGridFrames(S), t).at)
  PROVE  SelectGridFrames(E) = SelectGridFrames(S)
<1>1. PICK at : at = Decided(v, SelectGridFrames(S), t).at
  OBVIOUS
<1>2. Dated(S)
  BY DEF Dated
<1>3. GridFrames(S) = PathOf(S, Points) /\ GridFrames(E) = PathOf(E, Points)
  BY <1>2, GridPath
<1>4. /\ DOMAIN PathOf(S, Points) = 1..Points
      /\ \A i \in 1..Points : PathOf(S, Points)[i] = FirstOf(SlotOf(S, i))
  BY DEF PathOf
<1>5. \A i \in 1..Points : FirstOf(SlotOf(S, i)) \subseteq SlotOf(S, i)
  BY <1>2, SlotTimes
<1>6. Timed(SelectGridFrames(S))
  <2>1. \A i \in 1..Points : Timed(FirstOf(SlotOf(S, i)))
    BY <1>5, <1>2 DEF Timed, SlotOf, Qualified, Dated
  <2>2. ASSUME NEW e \in SelectGridFrames(S) PROVE \E i \in 1..Points : e \in FirstOf(SlotOf(S, i))
    BY <1>3, <1>4 DEF SelectGridFrames
  <2>3. QED
    BY <2>1, <2>2 DEF Timed
<1>7. /\ at \in Nat /\ (SelectGridFrames(S) = {} => at = Closes + 1)
      /\ \A e \in SelectGridFrames(S) : e.known <= at
  BY <1>1, <1>6, FinalDecision
<1>8. NothingLate(S, E, at)
  BY <1>1
<1>9. ASSUME NEW i \in 1..Points PROVE FirstOf(SlotOf(E, i)) = FirstOf(SlotOf(S, i))
  <2>1. Window(S, E, SlotOf(S, i), SlotOf(E, i))
    <3>1. \A e \in SlotOf(E, i) : e.known <= Closes
      <4>1. TAKE e \in SlotOf(E, i)
      <4>2. e.known <= SlotUpper(i) /\ e.known \in Nat
        BY DEF SlotOf, Qualified, Dated
      <4>3. QED
        BY <4>2, SlotEnds, ClosesIs
    <3>2. QED
      BY <3>1 DEF Window, SlotOf, Qualified
  <2>2. CASE SelectGridFrames(S) = {}
    <3>1. at = Closes + 1
      BY <1>7, <2>2
    <3>2. \A e \in SlotOf(S, i) : e.known <= at
      <4>1. TAKE e \in SlotOf(S, i)
      <4>2. e.known <= SlotUpper(i) /\ e.known \in Nat
        BY <1>2 DEF SlotOf, Qualified, Dated
      <4>3. QED
        BY <3>1, <4>2, SlotEnds, ClosesIs
    <3>3. \A e \in FirstOf(SlotOf(S, i)) : e.known <= at
      BY <1>5, <3>2
    <3>4. at >= Closes
      BY <3>1, ClosesIs
    <3>5. QED
      BY <1>7, <1>8, <2>1, <3>3, <3>4, SelectionStays
  <2>3. CASE SelectGridFrames(S) # {}
    <3>1. \A j \in 1..Points : FirstOf(SlotOf(S, j)) # {}
      BY <1>3, <1>4, <2>3 DEF SelectGridFrames
    <3>2. SlotOf(S, i) # {}
      BY <1>5, <3>1
    <3>3. FirstOf(SlotOf(S, i)) \subseteq SelectGridFrames(S)
      BY <1>3, <1>4, <3>1 DEF SelectGridFrames
    <3>4. \A e \in FirstOf(SlotOf(S, i)) : e.known <= at
      BY <1>7, <3>3
    <3>5. QED
      BY <1>7, <1>8, <2>1, <3>2, <3>4, SelectionStays
  <2>4. QED
    BY <2>2, <2>3
<1>10. PathOf(E, Points) = PathOf(S, Points)
  BY <1>9 DEF PathOf
<1>11. QED
  BY <1>3, <1>10 DEF SelectGridFrames

-----------------------------------------------------------------------------
(* The persistence of a regime rests on every context of the interval.     *)

\* A context is not known later than it was cut for.
Lawful(E) == \A e \in E : e.known <= e.cutoff

Broken(E) == \E e \in Interval(E) : ~e.sameContract
Observed(E) ==
  IF ContinuousEndpoint(E) = {} \/ Broken(E) THEN {} ELSE Interval(E) \cup ContinuousEndpoint(E)

LEMMA EndpointIs ==
  ASSUME NEW E, Dated(E)
  PROVE  \A e \in ContinuousEndpoint(E) :
           e \in E /\ e.known \in Nat /\ ResolvesAt <= e.known /\ e.known <= Closes
<1>1. ContinuousEndpoint(E) \subseteq EndpointWindow(E)
  <2>1. Window(E, E, EndpointWindow(E), EndpointWindow(E))
    BY DEF Window, EndpointWindow, InWindow, Comparable, Qualified
  <2>2. FirstOf(EndpointWindow(E)) \subseteq EndpointWindow(E)
    BY <2>1, WindowTimes
  <2>3. QED
    BY <2>2, Selections DEF ContinuousEndpoint
<1>2. QED
  BY <1>1 DEF EndpointWindow, InWindow, Comparable, Qualified, Dated

LEMMA IntervalIs ==
  ASSUME NEW E, Dated(E), Lawful(E)
  PROVE  \A e \in Interval(E) : e \in E /\ e.known \in Nat /\ e.known <= ResolvesAt
<1>1. TAKE e \in Interval(E)
<1>2. e \in E /\ e.cutoff <= ResolvesAt
  BY DEF Interval, Comparable, Qualified
<1>3. e.known \in Nat /\ e.cutoff \in Nat /\ e.known <= e.cutoff
  BY <1>2 DEF Dated, Lawful
<1>4. QED
  BY <1>2, <1>3, ClosesIs

LEMMA PersistenceIs ==
  ASSUME NEW E, Dated(E), Lawful(E), NEW t \in Nat, \A e \in E : e.known <= t
  PROVE  Persistence(E, t) = Decided(Persisted(Observed(E)), Observed(E), t)
<1>1. CASE ContinuousEndpoint(E) = {} \/ Broken(E)
  BY <1>1 DEF Persistence, Observed, Broken, Decided
<1>2. CASE ~ (ContinuousEndpoint(E) = {} \/ Broken(E))
  <2>1. Observed(E) = Interval(E) \cup ContinuousEndpoint(E) /\ Observed(E) # {}
    BY <1>2 DEF Observed
  <2>2. \A e \in Observed(E) : e.known \in Nat /\ e.known <= t
    BY <2>1, EndpointIs, IntervalIs
  <2>3. ~ \E e \in Observed(E) : t < e.known
    BY <2>2
  <2>4. ~ \E e \in ContinuousEndpoint(E) : t < e.known
    BY <2>1, <2>3
  <2>5. Decided(Persisted(Observed(E)), Observed(E), t) = Resolved(Persisted(Observed(E)), Observed(E))
    BY <2>1, <2>3 DEF Decided
  <2>6. QED
    BY <1>2, <2>1, <2>4, <2>5 DEF Persistence, Broken
<1>3. QED
  BY <1>1, <1>2

LEMMA ObservedStays ==
  ASSUME NEW E, Dated(E), Lawful(E), NEW S \in SUBSET E, NEW v, NEW t \in Nat,
         Final(Decided(v, Observed(S), t)), NothingLate(S, E, Decided(v, Observed(S), t).at)
  PROVE  Observed(E) = Observed(S)
<1>1. PICK at : at = Decided(v, Observed(S), t).at
  OBVIOUS
<1>2. Dated(S) /\ Lawful(S)
  BY DEF Dated, Lawful
<1>3. Timed(Observed(S))
  BY <1>2, EndpointIs, IntervalIs DEF Timed, Observed
<1>4. /\ at \in Nat /\ (Observed(S) = {} => at = Closes + 1)
      /\ \A e \in Observed(S) : e.known <= at
  BY <1>1, <1>3, FinalDecision
<1>5. at >= ResolvesAt
  <2>1. CASE Observed(S) = {}
    BY <1>4, <2>1, ClosesIs
  <2>2. CASE Observed(S) # {}
    <3>1. PICK e \in ContinuousEndpoint(S) : e \in Observed(S)
      BY <2>2 DEF Observed
    <3>2. e.known \in Nat /\ ResolvesAt <= e.known
      BY <1>2, <3>1, EndpointIs
    <3>3. QED
      BY <1>4, <3>1, <3>2, ClosesIs
  <2>3. QED
    BY <2>1, <2>2
<1>6. \A e \in E \ S : ~ (e.known <= at)
  BY <1>1 DEF NothingLate
<1>7. Interval(E) = Interval(S)
  <2>1. Interval(S) \subseteq Interval(E)
    BY DEF Interval, Comparable, Qualified
  <2>2. ASSUME NEW e \in Interval(E) PROVE e \in S
    <3>1. e \in E /\ e.known \in Nat /\ e.known <= ResolvesAt
      BY IntervalIs
    <3>2. QED
      BY <1>4, <1>5, <1>6, <3>1, ClosesIs
  <2>3. \A e \in Interval(E) : e \in S => e \in Interval(S)
    BY DEF Interval, Comparable, Qualified
  <2>4. QED
    BY <2>1, <2>2, <2>3
<1>8. CASE Broken(S)
  BY <1>7, <1>8 DEF Broken, Observed
<1>9. CASE ~ Broken(S)
  <2>1. ContinuousEndpoint(E) = ContinuousEndpoint(S)
    <3>1. CASE ContinuousEndpoint(S) = {}
      <4>1. Observed(S) = {}
        BY <3>1 DEF Observed
      <4>2. Decided(v, Observed(S), t) = Decided(v, ContinuousEndpoint(S), t)
        BY <3>1, <4>1
      <4>3. QED
        BY <4>2, EndpointStays
    <3>2. CASE ContinuousEndpoint(S) # {}
      <4>1. ContinuousEndpoint(S) \subseteq Observed(S)
        BY <1>9 DEF Observed
      <4>2. PICK W : W = EndpointWindow(S)
        OBVIOUS
      <4>3. PICK X : X = EndpointWindow(E)
        OBVIOUS
      <4>4. Window(S, E, W, X)
        BY <4>2, <4>3, Windows
      <4>5. Endpoint(S) = FirstOf(W) /\ Endpoint(E) = FirstOf(X)
        BY <4>2, <4>3, Selections
      <4>6. Dated(W) /\ (FirstOf(W) = {} <=> W = {})
        BY <4>4, WindowTimes
      <4>7. ContinuousEndpoint(S) \subseteq FirstOf(W)
        BY <4>5 DEF ContinuousEndpoint
      <4>8. W # {}
        BY <3>2, <4>6, <4>7
      <4>9. PICK e \in W : FirstOf(W) = {e}
        BY <4>6, <4>8, FirstIs
      <4>10. e \in Observed(S)
        BY <3>2, <4>1, <4>7, <4>9
      <4>11. \A f \in FirstOf(W) : f.known <= at
        BY <1>4, <4>9, <4>10
      <4>12. NothingLate(S, E, at)
        BY <1>1
      <4>13. FirstOf(X) = FirstOf(W)
        BY <1>4, <4>4, <4>8, <4>11, <4>12, SelectionStays
      <4>14. QED
        BY <4>5, <4>13 DEF ContinuousEndpoint
    <3>3. QED
      BY <3>1, <3>2
  <2>2. Broken(E) <=> Broken(S)
    BY <1>7 DEF Broken
  <2>3. QED
    BY <1>7, <2>1, <2>2 DEF Observed
<1>10. QED
  BY <1>8, <1>9

-----------------------------------------------------------------------------
(* All kinds of question.                                                  *)

OfAFrame == {"DIRECTION_10S", "MAGNITUDE_30S", "REVERSAL_60S@1.1", "REVERSAL_60S@1.2"}
OfAPath == {"VOLATILITY_60S", "FRAGILITY_MAE_60S"}
OfAState == {"BASIS_CHANGE_5M", "RELATIVE_VALUE_CONVERGENCE_5M"}
SelectedBy(q, E) ==
  IF q \in OfAFrame THEN SelectForwardFrame(E)
  ELSE IF q \in OfAPath THEN SelectGridFrames(E)
  ELSE IF q \in OfAState THEN SelectForwardState(E)
  ELSE IF q = "LIQUIDITY_DETERIORATION_30S" THEN SelectForwardBook(E)
  ELSE IF q = "DIRECTION_REGIME_15M" THEN ContinuousEndpoint(E)
  ELSE Observed(E)

\* What may be durable for a question of a kind at an instant.
Durable(q, E, t) ==
  /\ q \in Kinds /\ E \subseteq Candidates[q] /\ t \in Nat
  /\ \A e \in E : e.known <= t

LEMMA DurableIs ==
  ASSUME NEW q, NEW E, NEW t, Durable(q, E, t)
  PROVE  Dated(E) /\ (q = "REGIME_PERSISTENCE_5M" => Lawful(E))
<1>1. Dated(E)
  BY EvidenceAssumption DEF Durable, Dated
<1>2. q = "REGIME_PERSISTENCE_5M" => Lawful(E)
  BY ContextsAreLawful DEF Durable, Lawful
<1>3. QED
  BY <1>1, <1>2

\* A resolver decides on what it selects and on nothing else.
LEMMA ResolverDecides ==
  ASSUME NEW q, NEW E, NEW t, NEW F, NEW u, Durable(q, E, t), Durable(q, F, u),
         SelectedBy(q, F) = SelectedBy(q, E)
  PROVE  \E v : /\ Resolution(q, E, t) = Decided(v, SelectedBy(q, E), t)
                /\ Resolution(q, F, u) = Decided(v, SelectedBy(q, E), u)
<1>1. q \in Kinds
  BY DEF Durable
<1>2. CASE q = "DIRECTION_10S"
  BY <1>2 DEF SelectedBy, OfAFrame, Resolution, Decision, Decided
<1>3. CASE q = "MAGNITUDE_30S"
  BY <1>3 DEF SelectedBy, OfAFrame, Resolution, Decision, Decided
<1>4. CASE q = "REVERSAL_60S@1.1"
  BY <1>4 DEF SelectedBy, OfAFrame, Resolution, Decision, Decided
<1>5. CASE q = "REVERSAL_60S@1.2"
  BY <1>5 DEF SelectedBy, OfAFrame, Resolution, Decision, Decided
<1>6. CASE q = "VOLATILITY_60S"
  BY <1>6 DEF SelectedBy, OfAFrame, OfAPath, Resolution, Decision, Decided
<1>7. CASE q = "FRAGILITY_MAE_60S"
  BY <1>7 DEF SelectedBy, OfAFrame, OfAPath, Resolution, Decision, Decided
<1>8. CASE q = "LIQUIDITY_DETERIORATION_30S"
  BY <1>8 DEF SelectedBy, OfAFrame, OfAPath, OfAState, Resolution, Decision, Decided
<1>9. CASE q = "DIRECTION_REGIME_15M"
  BY <1>9 DEF SelectedBy, OfAFrame, OfAPath, OfAState, Resolution, Decision, Decided
<1>10. CASE q = "BASIS_CHANGE_5M"
  BY <1>10 DEF SelectedBy, OfAFrame, OfAPath, OfAState, Resolution, Decision, Decided
<1>11. CASE q = "RELATIVE_VALUE_CONVERGENCE_5M"
  BY <1>11 DEF SelectedBy, OfAFrame, OfAPath, OfAState, Resolution, Decision, Decided
<1>12. CASE q = "REGIME_PERSISTENCE_5M"
  <2>1. SelectedBy(q, E) = Observed(E) /\ SelectedBy(q, F) = Observed(F)
    BY <1>12 DEF SelectedBy, OfAFrame, OfAPath, OfAState
  <2>2. Resolution(q, E, t) = Persistence(E, t) /\ Resolution(q, F, u) = Persistence(F, u)
    BY <1>12 DEF Resolution
  <2>3. Persistence(E, t) = Decided(Persisted(Observed(E)), Observed(E), t)
    BY <1>12, DurableIs, PersistenceIs DEF Durable
  <2>4. Persistence(F, u) = Decided(Persisted(Observed(F)), Observed(F), u)
    BY <1>12, DurableIs, PersistenceIs DEF Durable
  <2>5. Observed(F) = Observed(E)
    BY <2>1
  <2>6. QED
    BY <2>1, <2>2, <2>3, <2>4, <2>5
<1>13. QED
  BY <1>1, <1>2, <1>3, <1>4, <1>5, <1>6, <1>7, <1>8, <1>9, <1>10, <1>11, <1>12, KindsAssumption

LEMMA StateStays ==
  ASSUME NEW E, Dated(E), NEW S \in SUBSET E, NEW v, NEW t \in Nat, NEW W, NEW X, NEW q,
         Window(S, E, W, X), SelectedBy(q, S) = FirstOf(W), SelectedBy(q, E) = FirstOf(X),
         Final(Decided(v, SelectedBy(q, S), t)), NothingLate(S, E, Decided(v, SelectedBy(q, S), t).at)
  PROVE  SelectedBy(q, E) = SelectedBy(q, S)
<1>1. Final(Decided(v, FirstOf(W), t)) /\ NothingLate(S, E, Decided(v, FirstOf(W), t).at)
  BY SMT
<1>2. QED
  BY <1>1, FirstDecisionStays

LEMMA SelectedStays ==
  ASSUME NEW q, NEW S, NEW t, NEW E, NEW u, Durable(q, S, t), Durable(q, E, u), S \subseteq E, NEW v,
         Final(Decided(v, SelectedBy(q, S), t)), NothingLate(S, E, Decided(v, SelectedBy(q, S), t).at)
  PROVE  SelectedBy(q, E) = SelectedBy(q, S)
<1>1. q \in Kinds /\ t \in Nat /\ S \in SUBSET E /\ Dated(E)
  BY DurableIs DEF Durable
<1>2. CASE q \in OfAFrame
  <2>1. \A D : SelectedBy(q, D) = FirstOf(FrameWindow(D))
    BY <1>2, Selections DEF SelectedBy
  <2>2. Window(S, E, FrameWindow(S), FrameWindow(E))
    BY <1>1, Windows
  <2>3. QED
    BY <1>1, <2>1, <2>2, StateStays
<1>3. CASE q \in OfAPath
  <2>1. \A D : SelectedBy(q, D) = SelectGridFrames(D)
    BY <1>3 DEF SelectedBy, OfAFrame, OfAPath
  <2>2. Final(Decided(v, SelectGridFrames(S), t)) /\ NothingLate(S, E, Decided(v, SelectGridFrames(S), t).at)
    BY <2>1
  <2>3. QED
    BY <1>1, <2>1, <2>2, GridStays
<1>4. CASE q \in OfAState
  <2>1. \A D : SelectedBy(q, D) = FirstOf(StateWindow(D))
    BY <1>4, Selections DEF SelectedBy, OfAFrame, OfAPath, OfAState
  <2>2. Window(S, E, StateWindow(S), StateWindow(E))
    BY <1>1, Windows
  <2>3. QED
    BY <1>1, <2>1, <2>2, StateStays
<1>5. CASE q = "LIQUIDITY_DETERIORATION_30S"
  <2>1. \A D : SelectedBy(q, D) = FirstOf(BookWindow(D))
    BY <1>5, Selections DEF SelectedBy, OfAFrame, OfAPath, OfAState
  <2>2. Window(S, E, BookWindow(S), BookWindow(E))
    BY <1>1, Windows
  <2>3. QED
    BY <1>1, <2>1, <2>2, StateStays
<1>6. CASE q = "DIRECTION_REGIME_15M"
  <2>1. \A D : SelectedBy(q, D) = ContinuousEndpoint(D)
    BY <1>6 DEF SelectedBy, OfAFrame, OfAPath, OfAState
  <2>2. Final(Decided(v, ContinuousEndpoint(S), t)) /\ NothingLate(S, E, Decided(v, ContinuousEndpoint(S), t).at)
    BY <2>1
  <2>3. QED
    BY <1>1, <2>1, <2>2, EndpointStays
<1>7. CASE q = "REGIME_PERSISTENCE_5M"
  <2>1. \A D : SelectedBy(q, D) = Observed(D)
    BY <1>7 DEF SelectedBy, OfAFrame, OfAPath, OfAState
  <2>2. Final(Decided(v, Observed(S), t)) /\ NothingLate(S, E, Decided(v, Observed(S), t).at)
    BY <2>1
  <2>3. Lawful(E)
    BY <1>7, DurableIs
  <2>4. QED
    BY <1>1, <2>1, <2>2, <2>3, ObservedStays
<1>8. QED
  BY <1>1, <1>2, <1>3, <1>4, <1>5, <1>6, <1>7, KindsAssumption DEF OfAFrame, OfAPath, OfAState

\* What is selected is durable, and known while the window is open; only a
\* context of the interval may be as old as the prediction.
LEMMA SelectedIs ==
  ASSUME NEW q, NEW E, NEW t, Durable(q, E, t)
  PROVE  \A e \in SelectedBy(q, E) :
           /\ e \in E /\ e.known \in Nat /\ e.known <= Closes
           /\ Cutoff < e.known \/ (q = "REGIME_PERSISTENCE_5M" /\ e \in Interval(E))
<1>1. q \in Kinds /\ Dated(E)
  BY DurableIs DEF Durable
<1>2. ASSUME NEW W, W \in SUBSET E, \A e \in W : ResolvesAt <= e.known /\ e.known <= Closes
      PROVE  \A e \in FirstOf(W) : e \in E /\ e.known \in Nat /\ e.known <= Closes /\ Cutoff < e.known
  <2>1. Window(E, E, W, W)
    BY <1>2 DEF Window
  <2>2. FirstOf(W) \subseteq W
    BY <1>1, <2>1, WindowTimes
  <2>3. \A e \in W : e.known \in Nat
    BY <1>1, <1>2 DEF Dated
  <2>4. QED
    BY <1>2, <2>2, <2>3, ClosesIs
<1>3. CASE q \in OfAFrame
  <2>1. SelectedBy(q, E) = FirstOf(FrameWindow(E))
    BY <1>3, Selections DEF SelectedBy
  <2>2. FrameWindow(E) \in SUBSET E /\ \A e \in FrameWindow(E) : ResolvesAt <= e.known /\ e.known <= Closes
    BY DEF FrameWindow, InWindow, Qualified
  <2>3. QED
    BY <1>2, <2>1, <2>2
<1>4. CASE q \in OfAPath
  <2>1. SelectedBy(q, E) = SelectGridFrames(E)
    BY <1>4 DEF SelectedBy, OfAFrame, OfAPath
  <2>2. GridFrames(E) = PathOf(E, Points)
    BY <1>1, GridPath
  <2>3. /\ DOMAIN PathOf(E, Points) = 1..Points
        /\ \A i \in 1..Points : PathOf(E, Points)[i] = FirstOf(SlotOf(E, i))
    BY DEF PathOf
  <2>4. ASSUME NEW e \in SelectedBy(q, E)
        PROVE  e \in E /\ e.known \in Nat /\ e.known <= Closes /\ Cutoff < e.known
    <3>1. PICK i \in 1..Points : e \in FirstOf(SlotOf(E, i))
      BY <2>1, <2>2, <2>3 DEF SelectGridFrames
    <3>2. e \in SlotOf(E, i)
      BY <1>1, <3>1, SlotTimes
    <3>3. e \in E /\ e.known \in Nat /\ ResolutionGrid[i] <= e.known /\ e.known <= SlotUpper(i)
      BY <1>1, <3>2 DEF SlotOf, Qualified, Dated
    <3>4. QED
      BY <3>3, SlotEnds, GridIs, ClosesIs
  <2>5. QED
    BY <2>4
<1>5. CASE q \in OfAState
  <2>1. SelectedBy(q, E) = FirstOf(StateWindow(E))
    BY <1>5, Selections DEF SelectedBy, OfAFrame, OfAPath, OfAState
  <2>2. StateWindow(E) \in SUBSET E /\ \A e \in StateWindow(E) : ResolvesAt <= e.known /\ e.known <= Closes
    BY DEF StateWindow, InWindow, Qualified
  <2>3. QED
    BY <1>2, <2>1, <2>2
<1>6. CASE q = "LIQUIDITY_DETERIORATION_30S"
  <2>1. SelectedBy(q, E) = FirstOf(BookWindow(E))
    BY <1>6, Selections DEF SelectedBy, OfAFrame, OfAPath, OfAState
  <2>2. BookWindow(E) \in SUBSET E /\ \A e \in BookWindow(E) : ResolvesAt <= e.known /\ e.known <= Closes
    BY DEF BookWindow, InWindow, Qualified
  <2>3. QED
    BY <1>2, <2>1, <2>2
<1>7. CASE q = "DIRECTION_REGIME_15M"
  <2>1. SelectedBy(q, E) = ContinuousEndpoint(E)
    BY <1>7 DEF SelectedBy, OfAFrame, OfAPath, OfAState
  <2>2. QED
    BY <1>1, <2>1, EndpointIs, ClosesIs
<1>8. CASE q = "REGIME_PERSISTENCE_5M"
  <2>1. SelectedBy(q, E) \subseteq Interval(E) \cup ContinuousEndpoint(E)
    BY <1>8 DEF SelectedBy, OfAFrame, OfAPath, OfAState, Observed
  <2>2. Lawful(E)
    BY <1>8, DurableIs
  <2>3. \A e \in ContinuousEndpoint(E) : e \in E /\ e.known \in Nat /\ e.known <= Closes /\ Cutoff < e.known
    BY <1>1, EndpointIs, ClosesIs
  <2>4. \A e \in Interval(E) : e \in E /\ e.known \in Nat /\ e.known <= Closes
    BY <1>1, <2>2, IntervalIs, ClosesIs
  <2>5. QED
    BY <1>8, <2>1, <2>3, <2>4
<1>9. QED
  BY <1>1, <1>3, <1>4, <1>5, <1>6, <1>7, <1>8, KindsAssumption DEF OfAFrame, OfAPath, OfAState

\* An answer that is final stays the answer, unless some evidence is late.
LEMMA AnswerStands ==
  ASSUME NEW q, NEW S, NEW t, NEW E, NEW u, Durable(q, S, t), Durable(q, E, u), S \subseteq E, t <= u,
         Final(Resolution(q, S, t)), NothingLate(S, E, Resolution(q, S, t).at)
  PROVE  Resolution(q, E, u) = Resolution(q, S, t)
<1>1. PICK v : Resolution(q, S, t) = Decided(v, SelectedBy(q, S), t)
  BY ResolverDecides
<1>2. Final(Decided(v, SelectedBy(q, S), t)) /\ NothingLate(S, E, Decided(v, SelectedBy(q, S), t).at)
  BY <1>1
<1>3. SelectedBy(q, E) = SelectedBy(q, S)
  BY <1>2, SelectedStays
<1>4. PICK w : /\ Resolution(q, S, t) = Decided(w, SelectedBy(q, S), t)
               /\ Resolution(q, E, u) = Decided(w, SelectedBy(q, S), u)
  BY <1>3, ResolverDecides
<1>5. Final(Decided(w, SelectedBy(q, S), t))
  BY <1>4
<1>6. t \in Nat /\ u \in Nat
  BY DEF Durable
<1>7. Timed(SelectedBy(q, S))
  BY SelectedIs DEF Timed
<1>8. QED
  BY <1>4, <1>5, <1>6, <1>7, FinalDecision

-----------------------------------------------------------------------------
(* What is on record was an answer, and answers stand.                     *)

ResolversInv ==
  /\ Durable(question, evidence, now)
  /\ outcome # Missing =>
       /\ seen \subseteq evidence /\ Final(outcome)
       /\ \E t \in Nat : t <= now /\ Durable(question, seen, t) /\ outcome = Resolution(question, seen, t)

LEMMA ResolversStart == ResolversInit => ResolversInv
<1> SUFFICES ASSUME ResolversInit PROVE ResolversInv
  OBVIOUS
<1>1. now \in Nat /\ question \in Kinds /\ evidence = {} /\ outcome = Missing
  BY ClosesIs DEF ResolversInit
<1>2. QED
  BY <1>1 DEF ResolversInv, Durable

LEMMA ResolversStep == ResolversInv /\ [ResolversNext]_resolverVars => ResolversInv'
<1> SUFFICES ASSUME ResolversInv, [ResolversNext]_resolverVars PROVE ResolversInv'
  OBVIOUS
<1>1. Durable(question, evidence, now)
  BY DEF ResolversInv
<1>2. now \in Nat /\ evidence \subseteq Candidates[question] /\ question \in Kinds
  BY <1>1 DEF Durable
<1>3. CASE TimePasses
  <2>1. now' = now + 1 /\ question' = question /\ evidence' = evidence /\ outcome' = outcome /\ seen' = seen
    BY <1>3 DEF TimePasses
  <2>2. now' \in Nat /\ now <= now'
    BY <1>2, <2>1
  <2>3. \A e \in evidence : e.known \in Nat
    BY <1>1, DurableIs DEF Dated
  <2>4. \A e \in evidence : e.known <= now'
    BY <1>1, <1>2, <2>1, <2>3 DEF Durable
  <2>5. Durable(question', evidence', now')
    BY <1>2, <2>1, <2>2, <2>4 DEF Durable
  <2>6. \A t \in Nat : t <= now => t <= now'
    BY <1>2, <2>1
  <2>7. QED
    BY <2>1, <2>5, <2>6 DEF ResolversInv
<1>4. ASSUME NEW e \in Candidates[question], Arrive(e) PROVE ResolversInv'
  <2>1. /\ evidence' = evidence \cup {e} /\ e.known <= now
        /\ now' = now /\ question' = question /\ outcome' = outcome /\ seen' = seen
    BY <1>4 DEF Arrive
  <2>2. Durable(question', evidence', now')
    BY <1>1, <1>2, <2>1 DEF Durable
  <2>3. QED
    BY <2>1, <2>2 DEF ResolversInv
<1>5. CASE ResolveQuestion
  <2>1. /\ Final(Resolution(question, evidence, now))
        /\ outcome' = Resolution(question, evidence, now) /\ seen' = evidence
        /\ now' = now /\ question' = question /\ evidence' = evidence
    BY <1>5 DEF ResolveQuestion, Final
  <2>2. Durable(question', evidence', now')
    BY <1>1, <2>1
  <2>3. now' <= now'
    BY <1>2, <2>1
  <2>4. /\ seen' \subseteq evidence' /\ Final(outcome') /\ outcome' = Resolution(question', seen', now')
        /\ Durable(question', seen', now') /\ now' \in Nat
    BY <1>1, <1>2, <2>1
  <2>5. QED
    BY <2>2, <2>3, <2>4 DEF ResolversInv
<1>6. CASE UNCHANGED resolverVars
  <2>1. now' = now /\ question' = question /\ evidence' = evidence /\ outcome' = outcome /\ seen' = seen
    BY <1>6 DEF resolverVars
  <2>2. QED
    BY <2>1 DEF ResolversInv
<1>7. QED
  BY <1>3, <1>4, <1>5, <1>6 DEF ResolversNext

\* The outcome on record is the answer on all the evidence there is by now,
\* as long as none of it is late: a retry after a death between resolving and
\* appending finds the same (resolve_*_question and QuestionOutcomeJournal).
THEOREM OutcomesStand == ResolversSpec => []DecisionsStand
<1>1. ResolversInv => DecisionsStand
  <2> SUFFICES ASSUME ResolversInv, outcome # Missing, Late = {}
               PROVE  Resolution(question, evidence, now) = outcome
    BY DEF DecisionsStand
  <2>1. PICK t \in Nat : t <= now /\ Durable(question, seen, t) /\ outcome = Resolution(question, seen, t)
    BY DEF ResolversInv
  <2>2. Durable(question, evidence, now) /\ seen \subseteq evidence /\ Final(outcome)
    BY DEF ResolversInv
  <2>3. NothingLate(seen, evidence, outcome.at)
    BY <2>2 DEF Late, NothingLate
  <2>4. QED
    BY <2>1, <2>2, <2>3, AnswerStands
<1>2. QED
  BY <1>1, ResolversStart, ResolversStep, PTL DEF ResolversSpec

\* Once the window has closed no resolver waits, and none refuses what was
\* measured after the prediction (QuestionBoundOutcome.validate).
THEOREM QuestionsDecide == ResolversSpec => []EveryQuestionDecides
<1>1. ResolversInv => EveryQuestionDecides
  <2> SUFFICES ASSUME ResolversInv, now > Closes, ~StaleInterval
               PROVE  Final(Resolution(question, evidence, now))
    BY DEF EveryQuestionDecides, Final
  <2>1. Durable(question, evidence, now)
    BY DEF ResolversInv
  <2>2. now \in Nat /\ \A e \in evidence : e.known <= now
    BY <2>1 DEF Durable
  <2>3. PICK v : Resolution(question, evidence, now) = Decided(v, SelectedBy(question, evidence), now)
    BY <2>1, ResolverDecides
  <2>4. PICK sel : sel = SelectedBy(question, evidence)
    OBVIOUS
  <2>5. \A e \in sel : e \in evidence /\ e.known \in Nat /\ e.known <= Closes /\ Cutoff < e.known
    <3>1. TAKE e \in sel
    <3>2. /\ e \in evidence /\ e.known \in Nat /\ e.known <= Closes
          /\ Cutoff < e.known \/ (question = "REGIME_PERSISTENCE_5M" /\ e \in Interval(evidence))
      BY <2>1, <2>4, SelectedIs
    <3>3. question = "REGIME_PERSISTENCE_5M" /\ e \in Interval(evidence) => ~ (e.known <= Cutoff)
      BY DEF StaleInterval
    <3>4. QED
      BY <3>2, <3>3, ClosesIs
  <2>6. CASE sel = {}
    <3>1. Decided(v, sel, now) = Unresolved(now)
      BY <2>6 DEF Decided
    <3>2. ~ (now <= Closes)
      BY <2>2, ClosesIs
    <3>3. Unresolved(now).status = "UNRESOLVABLE"
      BY <3>2 DEF Unresolved, Answer
    <3>4. QED
      BY <2>3, <2>4, <3>1, <3>3 DEF Final
  <2>7. CASE sel # {}
    <3>1. ~ \E e \in sel : now < e.known
      BY <2>2, <2>5
    <3>2. Decided(v, sel, now) = Resolved(v, sel)
      BY <2>7, <3>1 DEF Decided
    <3>3. Resolved(v, sel).status = "RESOLVED"
      BY <2>5 DEF Resolved, Answer
    <3>4. QED
      BY <2>3, <2>4, <3>2, <3>3 DEF Final
  <2>8. QED
    BY <2>6, <2>7
<1>2. QED
  BY <1>1, ResolversStart, ResolversStep, PTL DEF ResolversSpec

-----------------------------------------------------------------------------
(* The entries of a sequence at some of its places.                         *)

LEMMA SpotsAreFinite ==
  ASSUME NEW n \in Nat, NEW P \in SUBSET (1..n)
  PROVE  IsFiniteSet(P)
<1>1. IsFiniteSet(1..n)
  BY FS_Interval
<1>2. QED
  BY <1>1, FS_Subset

LEMMA RankIs ==
  ASSUME NEW n \in Nat, NEW P \in SUBSET (1..n)
  PROVE  /\ Cardinality(P) \in Nat /\ Rank(P, 0) = 0 /\ Rank(P, n) = Cardinality(P)
         /\ \A i \in Nat : Rank(P, i) \in Nat /\ Rank(P, i) <= Cardinality(P)
         /\ \A i \in 1..n : Rank(P, i) = IF i \in P THEN Rank(P, i - 1) + 1 ELSE Rank(P, i - 1)
<1>0. \A j \in P : j \in Int /\ 1 <= j /\ j <= n
  OBVIOUS
<1>1. IsFiniteSet(P)
  BY SpotsAreFinite
<1>2. \A i \in Nat : /\ IsFiniteSet({j \in P : j <= i}) /\ Cardinality({j \in P : j <= i}) \in Nat
                     /\ Cardinality({j \in P : j <= i}) <= Cardinality(P)
  BY <1>1, FS_Subset, FS_CardinalityType
<1>3. Rank(P, 0) = 0
  <2>1. \A j \in P : ~(j <= 0)
    BY <1>0
  <2>2. {j \in P : j <= 0} = {}
    BY <2>1
  <2>3. QED
    BY <2>2, FS_EmptySet DEF Rank
<1>4. Rank(P, n) = Cardinality(P)
  <2>1. {j \in P : j <= n} = P
    BY <1>0
  <2>2. QED
    BY <2>1 DEF Rank
<1>5. ASSUME NEW i \in 1..n PROVE Rank(P, i) = IF i \in P THEN Rank(P, i - 1) + 1 ELSE Rank(P, i - 1)
  <2>1. CASE i \in P
    <3>0. \A j \in P : (j <= i <=> j <= i - 1 \/ j = i) /\ (j <= i - 1 => j # i)
      BY <1>0
    <3>1. {j \in P : j <= i} = {j \in P : j <= i - 1} \cup {i} /\ i \notin {j \in P : j <= i - 1}
      BY <2>1, <3>0
    <3>2. i - 1 \in Nat
      OBVIOUS
    <3>3. QED
      BY <1>2, <2>1, <3>1, <3>2, FS_AddElement DEF Rank
  <2>2. CASE i \notin P
    <3>0. \A j \in P : j <= i <=> j <= i - 1
      BY <1>0, <2>2
    <3>1. {j \in P : j <= i} = {j \in P : j <= i - 1}
      BY <3>0
    <3>2. QED
      BY <2>2, <3>1 DEF Rank
  <2>3. QED
    BY <2>1, <2>2
<1>6. QED
  BY <1>1, <1>2, <1>3, <1>4, <1>5, FS_CardinalityType DEF Rank

\* There is a place of every rank.
LEMMA NthIs ==
  ASSUME NEW n \in Nat, NEW P \in SUBSET (1..n), NEW k \in 1 .. Cardinality(P)
  PROVE  Nth(P, k) \in P /\ Rank(P, Nth(P, k)) = k
<1>1. /\ Cardinality(P) \in Nat /\ Rank(P, 0) = 0 /\ Rank(P, n) = Cardinality(P)
      /\ \A i \in Nat : Rank(P, i) \in Nat
      /\ \A i \in 1..n : Rank(P, i) = IF i \in P THEN Rank(P, i - 1) + 1 ELSE Rank(P, i - 1)
  BY RankIs
<1>2. PICK T : T = {i \in 0..n : Rank(P, i) >= k}
  OBVIOUS
<1>3. n \in T /\ T \in SUBSET Nat
  BY <1>1, <1>2
<1>4. PICK m \in T : \A i \in T : ~ (i < m)
  BY <1>3, FirstNumber
<1>5. m \in 1..n /\ m - 1 \in 0..n /\ Rank(P, m - 1) < k /\ Rank(P, m) >= k
  <2>1. m \in 0..n /\ Rank(P, m) >= k
    BY <1>2, <1>4
  <2>2. m # 0
    BY <1>1, <2>1
  <2>3. m - 1 \in 0..n /\ m - 1 \notin T
    BY <1>4, <2>1, <2>2
  <2>4. QED
    BY <1>1, <1>2, <2>1, <2>2, <2>3
<1>6. m \in P /\ Rank(P, m) = k
  BY <1>1, <1>5
<1>7. {j \in P : Rank(P, j) = k} # {}
  BY <1>6
<1>8. QED
  BY <1>7 DEF Nth

LEMMA ThoseAre ==
  ASSUME NEW S, NEW s \in Seq(S), NEW P \in SUBSET (DOMAIN s)
  PROVE  /\ Those(s, P) \in Seq(S) /\ Len(Those(s, P)) = Cardinality(P) /\ Cardinality(P) \in Nat
         /\ DOMAIN Those(s, P) = 1 .. Cardinality(P)
         /\ \A k \in 1 .. Cardinality(P) : Nth(P, k) \in P /\ Rank(P, Nth(P, k)) = k /\ Those(s, P)[k] = s[Nth(P, k)]
<1>1. PICK n \in Nat : n = Len(s) /\ DOMAIN s = 1..n
  OBVIOUS
<1>2. Cardinality(P) \in Nat
  BY <1>1, RankIs
<1>3. \A k \in 1 .. Cardinality(P) : Nth(P, k) \in P /\ Rank(P, Nth(P, k)) = k
  BY <1>1, NthIs
<1>4. \A i \in DOMAIN s : s[i] \in S
  BY <1>1
<1>5. Those(s, P) \in [1 .. Cardinality(P) -> S]
  BY <1>3, <1>4 DEF Those
<1>6. PICK c, t : c = Cardinality(P) /\ t = Those(s, P) /\ c \in Nat
  BY <1>2
<1>7. t \in [1..c -> S]
  BY <1>5, <1>6
<1>8. t \in Seq(S) /\ Len(t) = c /\ DOMAIN t = 1..c
  BY <1>6, <1>7
<1>9. \A k \in 1 .. Cardinality(P) : Those(s, P)[k] = s[Nth(P, k)]
  BY DEF Those
<1>10. QED
  BY <1>2, <1>3, <1>6, <1>8, <1>9

LEMMA ThoseGrow ==
  ASSUME NEW S, NEW s \in Seq(S), NEW x \in S, NEW P \in SUBSET (DOMAIN s)
  PROVE  /\ Those(Append(s, x), P) = Those(s, P)
         /\ Those(Append(s, x), P \cup {Len(s) + 1}) = Append(Those(s, P), x)
<1>1. PICK n \in Nat : n = Len(s) /\ DOMAIN s = 1..n
  OBVIOUS
<1>2. PICK t : t = Append(s, x)
  OBVIOUS
<1>3. t \in Seq(S) /\ DOMAIN t = 1 .. (n + 1) /\ t[n + 1] = x /\ \A i \in 1..n : t[i] = s[i]
  BY <1>1, <1>2
<1>0. \A j \in P : j \in Int /\ 1 <= j /\ j <= n
  BY <1>1
<1>4. PICK c \in Nat : c = Cardinality(P)
  BY <1>1, RankIs
<1>5. PICK Q : Q = P \cup {n + 1} /\ Q \in SUBSET (DOMAIN t)
  <2>1. \A j \in P : j \in 1 .. (n + 1)
    BY <1>0
  <2>2. n + 1 \in 1 .. (n + 1)
    OBVIOUS
  <2>3. P \cup {n + 1} \subseteq DOMAIN t
    BY <1>3, <2>1, <2>2
  <2>4. QED
    BY <2>3
<1>6. /\ Those(s, P) \in Seq(S) /\ Len(Those(s, P)) = c
      /\ \A k \in 1..c : Nth(P, k) \in P /\ Those(s, P)[k] = s[Nth(P, k)]
  BY <1>4, ThoseAre
<1>7. P \in SUBSET (DOMAIN t)
  BY <1>1, <1>3
<1>8. /\ Those(t, P) \in Seq(S) /\ Len(Those(t, P)) = c
      /\ \A k \in 1..c : Nth(P, k) \in P /\ Those(t, P)[k] = t[Nth(P, k)]
  <2>1. /\ Those(t, P) \in Seq(S) /\ Len(Those(t, P)) = Cardinality(P)
        /\ \A k \in 1 .. Cardinality(P) : Nth(P, k) \in P /\ Rank(P, Nth(P, k)) = k /\ Those(t, P)[k] = t[Nth(P, k)]
    BY <1>3, <1>7, ThoseAre
  <2>2. QED
    BY <1>4, <2>1
<1>9. Those(t, P) = Those(s, P)
  <2>1. \A k \in 1..c : Those(t, P)[k] = Those(s, P)[k]
    BY <1>1, <1>3, <1>6, <1>8
  <2>2. QED
    BY <1>6, <1>8, <2>1, SeqEqual
<1>10. Cardinality(Q) = c + 1
  <2>0. n + 1 \notin P
    BY <1>0
  <2>1. IsFiniteSet(P)
    BY <1>1, SpotsAreFinite
  <2>2. QED
    BY <1>4, <1>5, <2>0, <2>1, FS_AddElement
<1>11. /\ Those(t, Q) \in Seq(S) /\ Len(Those(t, Q)) = c + 1
       /\ \A k \in 1 .. (c + 1) : Nth(Q, k) \in Q /\ Rank(Q, Nth(Q, k)) = k /\ Those(t, Q)[k] = t[Nth(Q, k)]
  <2>1. t \in Seq(S) /\ Q \in SUBSET (DOMAIN t)
    BY <1>3, <1>5
  <2>2. /\ Those(t, Q) \in Seq(S) /\ Len(Those(t, Q)) = Cardinality(Q)
        /\ \A k \in 1 .. Cardinality(Q) : Nth(Q, k) \in Q /\ Rank(Q, Nth(Q, k)) = k /\ Those(t, Q)[k] = t[Nth(Q, k)]
    BY <2>1, ThoseAre
  <2>3. QED
    BY <1>10, <2>2
<1>12. \A i \in 1..n : Rank(Q, i) = Rank(P, i) /\ Rank(P, i) \in Nat /\ Rank(P, i) <= c
  <2>1. \A i \in 1..n : Rank(P, i) \in Nat /\ Rank(P, i) <= c
    BY <1>1, <1>4, RankIs
  <2>2. \A i \in 1..n : {j \in Q : j <= i} = {j \in P : j <= i}
    BY <1>0, <1>1, <1>5
  <2>3. QED
    BY <2>1, <2>2 DEF Rank
<1>13. Rank(Q, n + 1) = c + 1
  <2>1. {j \in Q : j <= n + 1} = Q
    BY <1>0, <1>1, <1>5
  <2>2. QED
    BY <1>10, <2>1 DEF Rank
<1>14. \A k \in 1..c : Nth(Q, k) = Nth(P, k)
  <2>1. ASSUME NEW k \in 1..c PROVE {j \in Q : Rank(Q, j) = k} = {j \in P : Rank(P, j) = k}
    <3>1. \A j \in P : Rank(Q, j) = Rank(P, j)
      BY <1>0, <1>12
    <3>2. Rank(Q, n + 1) # k
      BY <1>13
    <3>3. QED
      BY <1>5, <3>1, <3>2
  <2>2. QED
    BY <2>1 DEF Nth
<1>15. Nth(Q, c + 1) = n + 1
  <2>1. Nth(Q, c + 1) \in Q /\ Rank(Q, Nth(Q, c + 1)) = c + 1
    BY <1>11
  <2>2. \A i \in P : Rank(Q, i) # c + 1
    BY <1>0, <1>1, <1>12
  <2>3. QED
    BY <1>5, <2>1, <2>2
<1>16. Those(t, Q) = Append(Those(s, P), x)
  <2>1. PICK u \in Seq(S) : u = Those(s, P)
    BY <1>6
  <2>2. Append(u, x) \in Seq(S) /\ Len(Append(u, x)) = c + 1 /\ Append(u, x)[c + 1] = x /\ \A k \in 1..c : Append(u, x)[k] = u[k]
    BY <1>6, <2>1
  <2>3. \A k \in 1..c : Those(t, Q)[k] = u[k]
    <3>1. SUFFICES ASSUME NEW k \in 1..c PROVE Those(t, Q)[k] = u[k]
      OBVIOUS
    <3>2. Those(t, Q)[k] = t[Nth(P, k)]
      BY <1>11, <1>14
    <3>3. Nth(P, k) \in 1..n /\ u[k] = s[Nth(P, k)]
      BY <1>1, <1>6, <2>1
    <3>4. QED
      BY <1>3, <3>2, <3>3
  <2>4. Those(t, Q)[c + 1] = x
    BY <1>3, <1>11, <1>15
  <2>5. \A k \in 1 .. (c + 1) : Those(t, Q)[k] = Append(u, x)[k]
    BY <2>2, <2>3, <2>4
  <2>6. QED
    BY <1>11, <2>1, <2>2, <2>5, SeqEqual
<1>17. QED
  BY <1>1, <1>2, <1>5, <1>9, <1>16

-----------------------------------------------------------------------------
(* The learning loops: what a run has decided.  All is said of the journals *)
(* as arguments, for what holds of them before a line and after it.         *)

AllModels == UNION {ToSet(Models[q]) : q \in Questions}
APrediction ==
  {p \in [question : Questions, model : AllModels, cutoff : Int, context : Int] : p.model \in ToSet(Models[p.question])}
AnOutcome == [prediction : APrediction, status : {"RESOLVED", "UNRESOLVABLE"}, decided : Int]
AnItem == [prediction : APrediction, under : Int]

\* A run, but for its queue and its seen cutoffs: any.
Fields(p) ==
  p = [stage |-> p.stage, question |-> p.question, batch |-> p.batch, cutoffs |-> p.cutoffs, models |-> p.models,
       seen |-> p.seen, context |-> p.context, items |-> p.items, queue |-> p.queue, scored |-> p.scored, steady |-> p.steady]
ARun(p) ==
  /\ Fields(p)
  /\ p.cutoffs \in Seq(Int) /\ p.models \in Seq(AllModels) /\ p.items \in Seq(AnItem) /\ p.context \in Int
  /\ p.stage = "idle" => p = Idle
  /\ p.stage # "idle" =>
       /\ p.question \in Questions /\ p.batch \in Batches
       /\ ToSet(p.models) \subseteq ToSet(Models[p.question])
  /\ p.stage # "cutoff" => p.cutoffs = <<>>
  /\ p.cutoffs = <<>> => p.models = <<>>
  /\ p.stage \notin {"cutoff", "resolve"} => p.items = <<>>

OutcomesFor(out, e) == {o \in ToSet(out) : o.prediction = e}
Hidden(pr, e) ==
  \E i, j \in DOMAIN pr : i < j /\ pr[j] = e /\ pr[i].cutoff = e.cutoff /\ pr[i].model = e.model
Answered(pr, out, b, e) ==
  \/ OutcomesFor(out, e) # {}
  \/ Decide(b, e).status = "PENDING"
  \/ e.question = "DIRECTION" /\ Hidden(pr, e)
Handled(pr, out, p, e) == Answered(pr, out, p.batch, e) \/ \E i \in DOMAIN p.items : p.items[i].prediction = e
Found(pr, q, c, m) == \E e \in ToSet(pr) : e.question = q /\ e.cutoff = c /\ e.model = m

\* One prediction of a question, a cutoff and a model.
SameKey(e, f) == e.question = f.question /\ e.cutoff = f.cutoff /\ e.model = f.model
Unique(pr) == \A i, j \in DOMAIN pr : SameKey(pr[i], pr[j]) => i = j

\* The cutoffs a run has left behind.
Behind(pr, out, p) ==
  \A c \in Examined(p.question, p.batch) : c \notin ToSet(p.cutoffs) =>
    /\ \A m \in ToSet(Models[p.question]) : Found(pr, p.question, c, m)
    /\ \A e \in ToSet(pr) : e.question = p.question /\ e.cutoff = c => Handled(pr, out, p, e)
\* The cutoff it is at, for the models it has left behind; what it has not
\* seen there it has added itself.
Within(pr, out, p) ==
  p.models # <<>> =>
    /\ \A m \in ToSet(Models[p.question]) : m \notin ToSet(p.models) => Found(pr, p.question, Head(p.cutoffs), m)
    /\ \A e \in ToSet(pr) : e.question = p.question /\ e.cutoff = Head(p.cutoffs) =>
         /\ e.model \notin ToSet(p.models) => Handled(pr, out, p, e)
         /\ \/ <<e.cutoff, e.model>> \in p.seen
            \/ e = [question |-> p.question, model |-> e.model, cutoff |-> Head(p.cutoffs), context |-> p.context]
\* What it has seen is there, as the journal only grows.
StillThere(pr, p) == \A x \in p.seen : Found(pr, p.question, x[1], x[2])
InHand(pr, out, p) == p.stage # "idle" => Behind(pr, out, p) /\ Within(pr, out, p)

\* A run that returned.
Complete(pr, out, q, b) ==
  /\ \A c \in Examined(q, b) : \A m \in ToSet(Models[q]) : Found(pr, q, c, m)
  /\ \A e \in ToSet(pr) : e.question = q /\ e.cutoff \in Examined(q, b) => Answered(pr, out, b, e)

LoopTyped ==
  /\ predictions \in Seq(APrediction) /\ outcomes \in Seq(AnOutcome) /\ IsFiniteSet(frames)
  /\ run = [r \in Runners |-> run[r]] /\ \A r \in Runners : ARun(run[r]) /\ StillThere(predictions, run[r])
  /\ overlapped \in BOOLEAN
OneRun == \A r, s \in Runners : run[r].stage # "idle" /\ run[s].stage # "idle" => r = s
AllDecided ==
  /\ OneRun /\ Unique(predictions)
  /\ \A r \in Runners : InHand(predictions, outcomes, run[r])
  /\ \A q \in Questions, b \in Batches : <<q, b>> \in completed => Complete(predictions, outcomes, q, b)
LoopInv == LoopTyped /\ (~overlapped => AllDecided)

-----------------------------------------------------------------------------
(* Sequences by their first, and by their last.                             *)

LEMMA Beginning ==
  ASSUME NEW S, NEW s \in Seq(S), s # <<>>
  PROVE  /\ Head(s) \in S /\ Tail(s) \in Seq(S) /\ ToSet(s) = {Head(s)} \cup ToSet(Tail(s))
         /\ Len(s) = 1 <=> Tail(s) = <<>>
         /\ \A i \in DOMAIN s : s[i] = Head(s) \/ \E j \in DOMAIN Tail(s) : s[i] = Tail(s)[j]
<1>1. /\ Len(s) \in Nat \ {0} /\ DOMAIN s = 1..Len(s) /\ Head(s) = s[1] /\ Head(s) \in S
      /\ Tail(s) \in Seq(S) /\ Len(Tail(s)) = Len(s) - 1
      /\ \A i \in 1 .. Len(s) - 1 : Tail(s)[i] = s[i + 1]
  BY EmptySeq, LenProperties, HeadTailProperties
<1>2. DOMAIN Tail(s) = 1 .. Len(s) - 1
  BY <1>1, LenProperties
<1>3. \A i \in DOMAIN s : s[i] = Head(s) \/ \E j \in DOMAIN Tail(s) : s[i] = Tail(s)[j]
  <2>1. SUFFICES ASSUME NEW i \in DOMAIN s, i # 1 PROVE \E j \in DOMAIN Tail(s) : s[i] = Tail(s)[j]
    BY <1>1
  <2>2. i - 1 \in 1 .. Len(s) - 1 /\ (i - 1) + 1 = i
    BY <1>1, <2>1
  <2>3. QED
    BY <1>1, <1>2, <2>2
<1>4. \A j \in DOMAIN Tail(s) : \E i \in DOMAIN s : s[i] = Tail(s)[j]
  BY <1>1, <1>2
<1>5. ToSet(s) = {Head(s)} \cup ToSet(Tail(s))
  <2>1. Head(s) = s[1] /\ 1 \in DOMAIN s
    BY <1>1
  <2>2. \A x \in ToSet(s) : x \in {Head(s)} \cup ToSet(Tail(s))
    BY <1>3 DEF ToSet
  <2>3. \A x \in {Head(s)} \cup ToSet(Tail(s)) : x \in ToSet(s)
    BY <1>4, <2>1 DEF ToSet
  <2>4. QED
    BY <2>2, <2>3
<1>6. Len(s) = 1 <=> Tail(s) = <<>>
  <2>1. Tail(s) # <<>> => Len(Tail(s)) # 0
    BY <1>1, EmptySeq
  <2>2. Len(<<>>) = 0
    BY EmptySeq
  <2>3. QED
    BY <1>1, <2>1, <2>2
<1>7. QED
  BY <1>1, <1>3, <1>5, <1>6

Grows(s, t) == \A i \in DOMAIN s : i \in DOMAIN t /\ t[i] = s[i]

LEMMA Ending ==
  ASSUME NEW S, NEW s \in Seq(S), NEW x \in S
  PROVE  /\ Append(s, x) \in Seq(S) /\ ToSet(Append(s, x)) = ToSet(s) \cup {x} /\ Grows(s, Append(s, x))
         /\ DOMAIN s = 1..Len(s) /\ DOMAIN Append(s, x) = 1 .. (Len(s) + 1) /\ Append(s, x)[Len(s) + 1] = x /\ Len(s) \in Nat
<1>1. /\ Append(s, x) \in Seq(S) /\ Len(s) \in Nat /\ DOMAIN s = 1..Len(s) /\ DOMAIN Append(s, x) = 1 .. (Len(s) + 1)
      /\ \A i \in 1..Len(s) : Append(s, x)[i] = s[i]
      /\ Append(s, x)[Len(s) + 1] = x
  OBVIOUS
<1>2. Grows(s, Append(s, x))
  BY <1>1 DEF Grows
<1>3. ToSet(Append(s, x)) = ToSet(s) \cup {x}
  BY <1>1 DEF ToSet
<1>4. QED
  BY <1>1, <1>2, <1>3

LEMMA Members ==
  ASSUME NEW s, NEW t, Grows(s, t)
  PROVE  ToSet(s) \subseteq ToSet(t)
BY DEF Grows, ToSet

-----------------------------------------------------------------------------
(* What stays as the journals grow.                                         *)

LEMMA AnswersStay ==
  ASSUME NEW pr, NEW out, NEW pr2, NEW out2, Grows(pr, pr2), Grows(out, out2)
  PROVE  /\ \A b, e : Answered(pr, out, b, e) => Answered(pr2, out2, b, e)
         /\ \A p, e : Handled(pr, out, p, e) => Handled(pr2, out2, p, e)
         /\ \A q, c, m : Found(pr, q, c, m) => Found(pr2, q, c, m)
<1>1. ToSet(pr) \subseteq ToSet(pr2) /\ ToSet(out) \subseteq ToSet(out2)
  BY Members
<1>2. \A e : Hidden(pr, e) => Hidden(pr2, e)
  BY DEF Grows, Hidden
<1>3. \A e : OutcomesFor(out, e) # {} => OutcomesFor(out2, e) # {}
  BY <1>1 DEF OutcomesFor
<1>4. \A b, e : Answered(pr, out, b, e) => Answered(pr2, out2, b, e)
  BY <1>2, <1>3 DEF Answered
<1>5. \A p, e : Handled(pr, out, p, e) => Handled(pr2, out2, p, e)
  BY <1>4 DEF Handled
<1>6. \A q, c, m : Found(pr, q, c, m) => Found(pr2, q, c, m)
  BY <1>1 DEF Found
<1>7. QED
  BY <1>4, <1>5, <1>6

LEMMA SeenStays ==
  ASSUME NEW pr, NEW pr2, Grows(pr, pr2), NEW p, StillThere(pr, p), NEW n, n.seen = p.seen, n.question = p.question
  PROVE  StillThere(pr2, n)
<1>1. ToSet(pr) \subseteq ToSet(pr2)
  BY Members
<1>2. QED
  BY <1>1 DEF StillThere, Found

LEMMA GrowsNot == \A s : Grows(s, s)
BY DEF Grows

\* Two runs that do the same work.
SameWork(p, n) ==
  /\ n.stage # "idle" => p.stage # "idle"
  /\ n.question = p.question /\ n.batch = p.batch /\ n.cutoffs = p.cutoffs /\ n.models = p.models
  /\ n.seen = p.seen /\ n.context = p.context
  /\ n.items = p.items

\* The outcomes of a run's items, or of another's.
LEMMA InHandStays ==
  ASSUME NEW pr, NEW out, NEW out2, NEW p, NEW n, Grows(out, out2), InHand(pr, out, p), SameWork(p, n)
  PROVE  InHand(pr, out2, n)
<1>1. SUFFICES ASSUME n.stage # "idle" PROVE Behind(pr, out2, n) /\ Within(pr, out2, n)
  BY DEF InHand
<1>2. Behind(pr, out, p) /\ Within(pr, out, p)
  BY <1>1 DEF InHand, SameWork
<1>3. \A e : Handled(pr, out, p, e) => Handled(pr, out2, n, e)
  <2>1. \A e : Handled(pr, out, p, e) => Handled(pr, out2, p, e)
    BY AnswersStay, GrowsNot
  <2>2. \A e : Handled(pr, out2, p, e) => Handled(pr, out2, n, e)
    BY DEF Handled, SameWork
  <2>3. QED
    BY <2>1, <2>2
<1>4. Behind(pr, out2, n)
  BY <1>2, <1>3 DEF Behind, SameWork
<1>5. Within(pr, out2, n)
  BY <1>2, <1>3 DEF Within, SameWork
<1>6. QED
  BY <1>4, <1>5

LEMMA CompleteStays ==
  ASSUME NEW pr, NEW out, NEW out2, Grows(out, out2), NEW q, NEW b, Complete(pr, out, q, b)
  PROVE  Complete(pr, out2, q, b)
BY AnswersStay, GrowsNot DEF Complete

\* A prediction joins: the only one of its key.
Joins(pr, x, pr2) == IF x \in ToSet(pr) THEN pr2 = pr ELSE pr2 = Append(pr, x)
OnlyOne(pr, x) == \A e \in ToSet(pr) : SameKey(e, x) => e = x
LEMMA JoinsGrows ==
  ASSUME NEW pr \in Seq(APrediction), NEW x \in APrediction, NEW pr2, Joins(pr, x, pr2)
  PROVE  pr2 \in Seq(APrediction) /\ Grows(pr, pr2) /\ ToSet(pr2) = ToSet(pr) \cup {x}
<1>1. CASE x \in ToSet(pr)
  BY <1>1, GrowsNot DEF Joins
<1>2. CASE x \notin ToSet(pr)
  <2>1. pr2 = Append(pr, x)
    BY <1>2 DEF Joins
  <2>2. /\ Append(pr, x) \in Seq(APrediction) /\ ToSet(Append(pr, x)) = ToSet(pr) \cup {x} /\ Grows(pr, Append(pr, x))
    BY Ending
  <2>3. QED
    BY <2>1, <2>2
<1>3. QED
  BY <1>1, <1>2

LEMMA PredictionJoins ==
  ASSUME NEW pr \in Seq(APrediction), NEW x \in APrediction, NEW pr2, OnlyOne(pr, x), Unique(pr), Joins(pr, x, pr2)
  PROVE  /\ pr2 \in Seq(APrediction) /\ Grows(pr, pr2) /\ ToSet(pr2) = ToSet(pr) \cup {x} /\ Unique(pr2)
<1>1. CASE x \in ToSet(pr)
  BY <1>1, GrowsNot DEF Joins
<1>2. CASE x \notin ToSet(pr)
  <2>1. /\ pr2 \in Seq(APrediction) /\ ToSet(pr2) = ToSet(pr) \cup {x} /\ Grows(pr, pr2)
        /\ DOMAIN pr = 1..Len(pr) /\ DOMAIN pr2 = 1 .. (Len(pr) + 1) /\ pr2[Len(pr) + 1] = x /\ Len(pr) \in Nat
    <3>1. pr2 = Append(pr, x)
      BY <1>2 DEF Joins
    <3>2. /\ Append(pr, x) \in Seq(APrediction) /\ ToSet(Append(pr, x)) = ToSet(pr) \cup {x} /\ Grows(pr, Append(pr, x))
          /\ DOMAIN pr = 1..Len(pr) /\ DOMAIN Append(pr, x) = 1 .. (Len(pr) + 1) /\ Append(pr, x)[Len(pr) + 1] = x
          /\ Len(pr) \in Nat
      BY Ending
    <3>3. QED
      BY <3>1, <3>2
  <2>2. \A e \in ToSet(pr) : ~SameKey(e, x) /\ ~SameKey(x, e)
    BY <1>2 DEF OnlyOne, SameKey
  <2>3. \A i \in DOMAIN pr2 : (i \in DOMAIN pr /\ pr2[i] = pr[i] /\ pr2[i] \in ToSet(pr)) \/ (i = Len(pr) + 1 /\ pr2[i] = x)
    BY <2>1 DEF Grows, ToSet
  <2>4. Unique(pr2)
    BY <2>2, <2>3 DEF Unique
  <2>5. QED
    BY <2>1, <2>4
<1>3. QED
  BY <1>1, <1>2

LEMMA CompleteJoins ==
  ASSUME NEW pr \in Seq(APrediction), NEW x \in APrediction, NEW pr2, OnlyOne(pr, x), Unique(pr), Joins(pr, x, pr2),
         NEW out, NEW q, NEW b, Complete(pr, out, q, b)
  PROVE  Complete(pr2, out, q, b)
<1>1. Grows(pr, pr2) /\ ToSet(pr2) = ToSet(pr) \cup {x}
  BY PredictionJoins
<1>2. \A c, m : Found(pr, q, c, m) => Found(pr2, q, c, m)
  BY <1>1, AnswersStay, GrowsNot
<1>3. ASSUME NEW e \in ToSet(pr2), e.question = q, e.cutoff \in Examined(q, b) PROVE Answered(pr2, out, b, e)
  <2>1. e \in ToSet(pr)
    <3>1. SUFFICES ASSUME e = x PROVE x \in ToSet(pr)
      BY <1>1
    <3>2. Found(pr, q, x.cutoff, x.model)
      BY <1>3, <3>1 DEF Complete, APrediction
    <3>3. PICK f \in ToSet(pr) : f.question = q /\ f.cutoff = x.cutoff /\ f.model = x.model
      BY <3>2 DEF Found
    <3>4. f = x
      BY <1>3, <3>1, <3>3 DEF OnlyOne, SameKey
    <3>5. QED
      BY <3>3, <3>4
  <2>2. Answered(pr, out, b, e)
    BY <1>3, <2>1 DEF Complete
  <2>3. QED
    BY <1>1, <2>2, AnswersStay, GrowsNot
<1>4. QED
  BY <1>2, <1>3 DEF Complete

-----------------------------------------------------------------------------
(* The steps of a run.                                                      *)

\* What a run that is recording has in hand.
AtModel(p) == ARun(p) /\ p.stage = "cutoff" /\ p.models # <<>>
LEMMA AtModelHas ==
  ASSUME NEW p, AtModel(p)
  PROVE  /\ p.question \in Questions /\ p.batch \in Batches /\ p.cutoffs # <<>>
         /\ Head(p.models) \in AllModels /\ Head(p.models) \in ToSet(Models[p.question])
         /\ Tail(p.models) \in Seq(AllModels) /\ ToSet(p.models) = {Head(p.models)} \cup ToSet(Tail(p.models))
         /\ Len(p.models) = 1 <=> Tail(p.models) = <<>>
         /\ Head(p.cutoffs) \in Int /\ Tail(p.cutoffs) \in Seq(Int)
         /\ ToSet(p.cutoffs) = {Head(p.cutoffs)} \cup ToSet(Tail(p.cutoffs))
         /\ Prediction(p) \in APrediction
<1>1. /\ p.question \in Questions /\ p.batch \in Batches /\ p.cutoffs # <<>> /\ p.context \in Int
      /\ p.models \in Seq(AllModels) /\ p.cutoffs \in Seq(Int) /\ ToSet(p.models) \subseteq ToSet(Models[p.question])
  BY DEF AtModel, ARun
<1>2. /\ Head(p.models) \in AllModels /\ Tail(p.models) \in Seq(AllModels)
      /\ ToSet(p.models) = {Head(p.models)} \cup ToSet(Tail(p.models))
      /\ Len(p.models) = 1 <=> Tail(p.models) = <<>>
  BY <1>1, Beginning DEF AtModel
<1>3. /\ Head(p.cutoffs) \in Int /\ Tail(p.cutoffs) \in Seq(Int)
      /\ ToSet(p.cutoffs) = {Head(p.cutoffs)} \cup ToSet(Tail(p.cutoffs))
  BY <1>1, Beginning
<1>4. Head(p.models) \in ToSet(Models[p.question])
  BY <1>1, <1>2
<1>5. Prediction(p) \in APrediction
  BY <1>1, <1>2, <1>3, <1>4 DEF Prediction, APrediction
<1>6. QED
  BY <1>1, <1>2, <1>3, <1>4, <1>5

LEMMA UnseenIsOnly ==
  ASSUME NEW pr, NEW out, NEW p, AtModel(p), InHand(pr, out, p), ~Reuses(p)
  PROVE  OnlyOne(pr, Prediction(p))
<1>1. Within(pr, out, p)
  BY DEF InHand, AtModel
<1>2. SUFFICES ASSUME NEW e \in ToSet(pr), SameKey(e, Prediction(p)) PROVE e = Prediction(p)
  BY DEF OnlyOne
<1>3. e.question = p.question /\ e.cutoff = Head(p.cutoffs) /\ e.model = Head(p.models)
  BY <1>2 DEF SameKey, Prediction
<1>4. <<e.cutoff, e.model>> \notin p.seen
  BY <1>3 DEF Reuses
<1>5. e = [question |-> p.question, model |-> e.model, cutoff |-> Head(p.cutoffs), context |-> p.context]
  BY <1>1, <1>3, <1>4 DEF Within, AtModel
<1>6. QED
  BY <1>3, <1>5 DEF Prediction

\* A model of the cutoff is recorded: by the prediction it made, or by the
\* entry it found.
LEMMA ItemJoins ==
  ASSUME NEW s \in Seq(AnItem), NEW item \in AnItem
  PROVE  /\ Append(s, item) \in Seq(AnItem) /\ Grows(s, Append(s, item))
         /\ Len(s) + 1 \in DOMAIN Append(s, item) /\ Append(s, item)[Len(s) + 1] = item
<1>1. /\ Append(s, item) \in Seq(AnItem) /\ Len(s) \in Nat /\ DOMAIN s = 1..Len(s)
      /\ DOMAIN Append(s, item) = 1 .. (Len(s) + 1) /\ Append(s, item)[Len(s) + 1] = item
      /\ \A i \in 1..Len(s) : Append(s, item)[i] = s[i]
  OBVIOUS
<1>2. Grows(s, Append(s, item))
  BY <1>1 DEF Grows
<1>3. Len(s) + 1 \in 1 .. (Len(s) + 1)
  BY <1>1
<1>4. QED
  BY <1>1, <1>2, <1>3

OfKey(p, e) == e.question = p.question /\ e.cutoff = Head(p.cutoffs) /\ e.model = Head(p.models)
LEMMA RecordedIs ==
  ASSUME NEW p, AtModel(p), NEW entry \in APrediction, NEW under \in Int, NEW n, n = Recorded(p, entry, under)
  PROVE  /\ ARun(n)
         /\ n.stage = "cutoff" /\ n.question = p.question /\ n.batch = p.batch /\ n.seen = p.seen /\ n.context = p.context
         /\ n.models = Tail(p.models) /\ n.cutoffs = (IF Len(p.models) = 1 THEN Tail(p.cutoffs) ELSE p.cutoffs)
         /\ \A i \in DOMAIN p.items : i \in DOMAIN n.items /\ n.items[i] = p.items[i]
         /\ \E i \in DOMAIN n.items : n.items[i].prediction = entry
<1>1. /\ Fields(p) /\ p.items \in Seq(AnItem) /\ p.stage = "cutoff" /\ p.context \in Int /\ p.cutoffs \in Seq(Int)
  BY DEF AtModel, ARun
<1>2. n = [p EXCEPT !.items = Append(p.items, [prediction |-> entry, under |-> under]), !.models = Tail(p.models),
                    !.cutoffs = IF Len(p.models) = 1 THEN Tail(p.cutoffs) ELSE p.cutoffs]
  BY DEF Recorded
<1>3. /\ n.stage = p.stage /\ n.question = p.question /\ n.batch = p.batch /\ n.seen = p.seen /\ n.context = p.context
      /\ n.models = Tail(p.models) /\ n.cutoffs = (IF Len(p.models) = 1 THEN Tail(p.cutoffs) ELSE p.cutoffs)
      /\ n.items = Append(p.items, [prediction |-> entry, under |-> under])
  BY <1>1, <1>2 DEF Fields
<1>4. Fields(n)
  BY <1>1, <1>2 DEF Fields
<1>5. [prediction |-> entry, under |-> under] \in AnItem
  BY DEF AnItem
<1>6. /\ n.items \in Seq(AnItem) /\ Grows(p.items, n.items)
      /\ Len(p.items) + 1 \in DOMAIN n.items /\ n.items[Len(p.items) + 1] = [prediction |-> entry, under |-> under]
  <2>1. PICK item \in AnItem, s \in Seq(AnItem) : item = [prediction |-> entry, under |-> under] /\ s = p.items
    BY <1>1, <1>5
  <2>2. n.items = Append(s, item)
    BY <1>3, <2>1
  <2>3. /\ Append(s, item) \in Seq(AnItem) /\ Grows(s, Append(s, item))
        /\ Len(s) + 1 \in DOMAIN Append(s, item) /\ Append(s, item)[Len(s) + 1] = item
    BY ItemJoins
  <2>4. QED
    BY <2>1, <2>2, <2>3
<1>7. n.models \in Seq(AllModels) /\ n.cutoffs \in Seq(Int) /\ n.question \in Questions /\ n.batch \in Batches
  BY <1>1, <1>3, AtModelHas
<1>8. ToSet(n.models) \subseteq ToSet(Models[n.question])
  <2>1. ToSet(n.models) \subseteq ToSet(p.models)
    BY <1>3, AtModelHas
  <2>2. QED
    BY <1>3, <2>1 DEF AtModel, ARun
<1>9. n.cutoffs = <<>> => n.models = <<>>
  <2>1. p.cutoffs # <<>>
    BY AtModelHas
  <2>2. QED
    BY <1>3, <2>1, AtModelHas
<1>10. ARun(n)
  BY <1>1, <1>3, <1>4, <1>6, <1>7, <1>8, <1>9 DEF ARun
<1>11. \E i \in DOMAIN n.items : n.items[i].prediction = entry
  BY <1>6
<1>12. QED
  BY <1>1, <1>3, <1>6, <1>10, <1>11 DEF Grows

LEMMA RecordingKeeps ==
  ASSUME NEW pr, NEW pr2, NEW out, NEW p, AtModel(p), InHand(pr, out, p), Grows(pr, pr2),
         NEW entry \in APrediction, NEW under \in Int, NEW n, n = Recorded(p, entry, under),
         \A e \in ToSet(pr2) : e \in ToSet(pr) \/ e = Prediction(p),
         \A e \in ToSet(pr2) : OfKey(p, e) => e = entry \/ (e.question = "DIRECTION" /\ Hidden(pr2, e)),
         Found(pr2, p.question, Head(p.cutoffs), Head(p.models))
  PROVE  InHand(pr2, out, n)
<1> DEFINE c == Head(p.cutoffs)
           m == Head(p.models)
<1>1. /\ n.stage = "cutoff" /\ n.question = p.question /\ n.batch = p.batch /\ n.seen = p.seen /\ n.context = p.context
      /\ n.models = Tail(p.models) /\ n.cutoffs = (IF Len(p.models) = 1 THEN Tail(p.cutoffs) ELSE p.cutoffs)
      /\ \A i \in DOMAIN p.items : i \in DOMAIN n.items /\ n.items[i] = p.items[i]
      /\ \E i \in DOMAIN n.items : n.items[i].prediction = entry
  BY RecordedIs
<1>2. /\ ToSet(p.models) = {m} \cup ToSet(Tail(p.models)) /\ (Len(p.models) = 1 <=> Tail(p.models) = <<>>)
      /\ ToSet(p.cutoffs) = {c} \cup ToSet(Tail(p.cutoffs)) /\ m \in AllModels
  BY AtModelHas
<1>3. Behind(pr, out, p) /\ Within(pr, out, p) /\ p.models # <<>>
  BY DEF InHand, AtModel
<1>4. \A q, d, k : Found(pr, q, d, k) => Found(pr2, q, d, k)
  BY AnswersStay, GrowsNot
<1>5. \A e : Handled(pr, out, p, e) => Handled(pr2, out, n, e)
  <2>1. \A e : Answered(pr, out, p.batch, e) => Answered(pr2, out, n.batch, e)
    BY <1>1, AnswersStay, GrowsNot
  <2>2. QED
    BY <1>1, <2>1 DEF Handled
<1>6. \A e \in ToSet(pr2) : OfKey(p, e) => Handled(pr2, out, n, e)
  BY <1>1 DEF Handled, Answered
<1>7. Prediction(p).cutoff = c /\ Prediction(p).model = m /\ Prediction(p).question = p.question
      /\ Prediction(p) = [question |-> p.question, model |-> m, cutoff |-> c, context |-> p.context]
  BY DEF Prediction
<1>8. ASSUME NEW k \in ToSet(Models[p.question]), k \notin ToSet(n.models) PROVE Found(pr2, p.question, c, k)
  BY <1>1, <1>2, <1>3, <1>4, <1>8 DEF Within
<1>9. ASSUME NEW e \in ToSet(pr2), e.question = p.question, e.cutoff = c, e.model \notin ToSet(n.models)
      PROVE  Handled(pr2, out, n, e)
  <2>1. CASE e.model = m
    BY <1>6, <1>9, <2>1 DEF OfKey
  <2>2. CASE e.model # m
    <3>1. e \in ToSet(pr) /\ e.model \notin ToSet(p.models)
      BY <1>1, <1>2, <1>7, <1>9, <2>2
    <3>2. Handled(pr, out, p, e)
      BY <1>3, <1>9, <3>1 DEF Within
    <3>3. QED
      BY <1>5, <3>2
  <2>3. QED
    BY <2>1, <2>2
<1>10. Behind(pr2, out, n)
  <2>1. SUFFICES ASSUME NEW d \in Examined(p.question, p.batch), d \notin ToSet(n.cutoffs)
                 PROVE  /\ \A k \in ToSet(Models[p.question]) : Found(pr2, p.question, d, k)
                        /\ \A e \in ToSet(pr2) : e.question = p.question /\ e.cutoff = d => Handled(pr2, out, n, e)
    BY <1>1 DEF Behind
  <2>2. CASE d \notin ToSet(p.cutoffs)
    <3>1. d # c
      BY <1>2, <2>2
    <3>2. \A e \in ToSet(pr2) : e.cutoff = d => e \in ToSet(pr)
      BY <1>7, <3>1
    <3>3. QED
      BY <1>3, <1>4, <1>5, <2>1, <2>2, <3>2 DEF Behind
  <2>3. CASE d \in ToSet(p.cutoffs)
    <3>1. d = c /\ n.models = <<>>
      BY <1>1, <1>2, <2>1, <2>3
    <3>2. ToSet(n.models) = {}
      BY <3>1 DEF ToSet
    <3>3. QED
      BY <1>8, <1>9, <3>1, <3>2
  <2>4. QED
    BY <2>2, <2>3
<1>11. Within(pr2, out, n)
  <2>1. SUFFICES ASSUME n.models # <<>>
                 PROVE  /\ \A k \in ToSet(Models[n.question]) : k \notin ToSet(n.models) => Found(pr2, n.question, Head(n.cutoffs), k)
                        /\ \A e \in ToSet(pr2) : e.question = n.question /\ e.cutoff = Head(n.cutoffs) =>
                             /\ e.model \notin ToSet(n.models) => Handled(pr2, out, n, e)
                             /\ \/ <<e.cutoff, e.model>> \in n.seen
                                \/ e = [question |-> n.question, model |-> e.model, cutoff |-> Head(n.cutoffs), context |-> n.context]
    BY DEF Within
  <2>2. Head(n.cutoffs) = c
    BY <1>1, <1>2, <2>1
  <2>3. ASSUME NEW e \in ToSet(pr2), e.question = p.question, e.cutoff = c
        PROVE  \/ <<e.cutoff, e.model>> \in p.seen
               \/ e = [question |-> p.question, model |-> e.model, cutoff |-> c, context |-> p.context]
    <3>1. CASE e \in ToSet(pr)
      BY <1>3, <2>3, <3>1 DEF Within
    <3>2. CASE e = Prediction(p)
      BY <1>7, <3>2
    <3>3. QED
      BY <3>1, <3>2
  <2>4. QED
    BY <1>1, <1>8, <1>9, <2>2, <2>3
<1>12. QED
  BY <1>10, <1>11 DEF InHand

\* The next cutoff is passed over: it is not one the run examines.
LEMMA PassingIs ==
  ASSUME NEW p, ARun(p), p.stage = "cutoff", p.cutoffs # <<>>, p.models = <<>>,
         NEW n, n = [p EXCEPT !.cutoffs = Tail(p.cutoffs)]
  PROVE  /\ ARun(n)
         /\ n.stage = "cutoff" /\ n.question = p.question /\ n.batch = p.batch /\ n.items = p.items /\ n.models = <<>>
         /\ n.cutoffs = Tail(p.cutoffs) /\ ToSet(p.cutoffs) = {Head(p.cutoffs)} \cup ToSet(Tail(p.cutoffs))
<1>1. Fields(p) /\ p.cutoffs \in Seq(Int)
  BY DEF ARun
<1>2. /\ n.stage = "cutoff" /\ n.question = p.question /\ n.batch = p.batch /\ n.seen = p.seen /\ n.context = p.context
      /\ n.items = p.items /\ n.models = <<>> /\ n.cutoffs = Tail(p.cutoffs) /\ Fields(n)
  BY <1>1 DEF Fields
<1>3. Tail(p.cutoffs) \in Seq(Int) /\ ToSet(p.cutoffs) = {Head(p.cutoffs)} \cup ToSet(Tail(p.cutoffs))
  BY <1>1, Beginning
<1>4. ARun(n)
  <2>1. n.models \in Seq(AllModels) /\ ToSet(n.models) \subseteq ToSet(Models[n.question])
    BY <1>2 DEF ARun
  <2>2. QED
    BY <1>2, <1>3, <2>1 DEF ARun
<1>5. QED
  BY <1>2, <1>3, <1>4

LEMMA PassingKeeps ==
  ASSUME NEW pr, NEW out, NEW p, ARun(p), InHand(pr, out, p), p.stage = "cutoff", p.cutoffs # <<>>, p.models = <<>>,
         Head(p.cutoffs) \in p.batch.absent \cup p.batch.degraded, NEW n, n = [p EXCEPT !.cutoffs = Tail(p.cutoffs)]
  PROVE  InHand(pr, out, n)
<1>2. /\ n.stage = "cutoff" /\ n.question = p.question /\ n.batch = p.batch /\ n.items = p.items /\ n.models = <<>>
      /\ n.cutoffs = Tail(p.cutoffs) /\ ToSet(p.cutoffs) = {Head(p.cutoffs)} \cup ToSet(Tail(p.cutoffs))
  BY PassingIs
<1>5. Head(p.cutoffs) \notin Examined(p.question, p.batch)
  BY DEF Examined
<1>6. \A e : Handled(pr, out, p, e) => Handled(pr, out, n, e)
  BY <1>2 DEF Handled
<1>7. Behind(pr, out, p)
  BY DEF InHand
<1>8. Behind(pr, out, n)
  <2>1. \A c \in Examined(p.question, p.batch) : c \notin ToSet(n.cutoffs) => c \notin ToSet(p.cutoffs)
    BY <1>2, <1>5
  <2>2. QED
    BY <1>2, <1>6, <1>7, <2>1 DEF Behind
<1>9. Within(pr, out, n)
  BY <1>2 DEF Within
<1>10. QED
  BY <1>8, <1>9 DEF InHand

\* The models of the next cutoff are taken up.
Seen(pr, q) == {<<e.cutoff, e.model>> : e \in {e \in ToSet(pr) : e.question = q}}
LEMMA ArrivalIs ==
  ASSUME NEW pr, NEW p, ARun(p), p.stage = "cutoff", p.cutoffs # <<>>, p.models = <<>>,
         NEW current \in Int, NEW steady, NEW n, n = [p EXCEPT !.models = Models[p.question], !.context = current, !.seen = Seen(pr, p.question), !.steady = steady]
  PROVE  /\ ARun(n) /\ StillThere(pr, n)
         /\ n.stage = "cutoff" /\ n.question = p.question /\ n.batch = p.batch /\ n.seen = Seen(pr, p.question) /\ n.context = current
         /\ n.items = p.items /\ n.models = Models[p.question] /\ n.cutoffs = p.cutoffs
<1>1. Fields(p) /\ p.cutoffs \in Seq(Int) /\ p.question \in Questions
  BY DEF ARun
<1>2. /\ n.stage = "cutoff" /\ n.question = p.question /\ n.batch = p.batch /\ n.seen = Seen(pr, p.question) /\ n.context = current
      /\ n.items = p.items /\ n.models = Models[p.question] /\ n.cutoffs = p.cutoffs /\ Fields(n)
  BY <1>1 DEF Fields
<1>3. Models[p.question] \in Seq(AllModels)
  <2>1. Models[p.question] \in Seq(ToSet(Models[p.question])) /\ ToSet(Models[p.question]) \subseteq AllModels
    BY <1>1, ModelsAreSequences DEF AllModels
  <2>2. QED
    BY <2>1, SeqMonotonic
<1>4. ARun(n)
  BY <1>2, <1>3 DEF ARun
<1>5. \A x \in Seen(pr, p.question) : Found(pr, p.question, x[1], x[2])
  <2>1. SUFFICES ASSUME NEW e \in ToSet(pr), e.question = p.question PROVE Found(pr, p.question, e.cutoff, e.model)
    BY DEF Seen
  <2>2. QED
    BY <2>1 DEF Found
<1>6. QED
  BY <1>2, <1>4, <1>5 DEF StillThere

LEMMA ArrivalKeeps ==
  ASSUME NEW pr, NEW out, NEW p, ARun(p), InHand(pr, out, p), p.stage = "cutoff", p.cutoffs # <<>>, p.models = <<>>,
         \A e \in ToSet(pr) : e \in APrediction,
         NEW current \in Int, NEW steady, NEW n, n = [p EXCEPT !.models = Models[p.question], !.context = current, !.seen = Seen(pr, p.question), !.steady = steady]
  PROVE  InHand(pr, out, n)
<1>1. Fields(p)
  BY DEF ARun
<1>2. /\ n.stage = "cutoff" /\ n.question = p.question /\ n.batch = p.batch /\ n.seen = Seen(pr, p.question) /\ n.context = current
      /\ n.items = p.items /\ n.models = Models[p.question] /\ n.cutoffs = p.cutoffs
  BY <1>1 DEF Fields
<1>5. \A e : Handled(pr, out, p, e) => Handled(pr, out, n, e)
  BY <1>2 DEF Handled
<1>6. Behind(pr, out, n)
  <2>1. Behind(pr, out, p)
    BY DEF InHand
  <2>2. QED
    BY <1>2, <1>5, <2>1 DEF Behind
<1>7. \A e \in ToSet(pr) : e.question = p.question => e.model \in ToSet(Models[p.question]) /\ <<e.cutoff, e.model>> \in Seen(pr, p.question)
  BY DEF APrediction, Seen
<1>8. Within(pr, out, n)
  BY <1>2, <1>7 DEF Within
<1>9. QED
  BY <1>6, <1>8 DEF InHand

\* The first item is resolved.
LEMMA ResolvingIs ==
  ASSUME NEW p, ARun(p), p.stage = "resolve", p.items # <<>>, NEW n, n = [p EXCEPT !.items = Tail(p.items)]
  PROVE  /\ ARun(n)
         /\ n.stage = p.stage /\ n.question = p.question /\ n.batch = p.batch /\ n.seen = p.seen
         /\ n.items = Tail(p.items) /\ n.models = p.models /\ n.cutoffs = p.cutoffs
<1>1. Fields(p) /\ p.items \in Seq(AnItem)
  BY DEF ARun
<1>2. /\ n.stage = p.stage /\ n.question = p.question /\ n.batch = p.batch /\ n.seen = p.seen /\ n.context = p.context
      /\ n.items = Tail(p.items) /\ n.models = p.models /\ n.cutoffs = p.cutoffs /\ Fields(n)
  BY <1>1 DEF Fields
<1>3. Tail(p.items) \in Seq(AnItem)
  BY <1>1, Beginning
<1>4. ARun(n)
  BY <1>2, <1>3 DEF ARun
<1>5. QED
  BY <1>2, <1>4

LEMMA ResolvingKeeps ==
  ASSUME NEW pr, NEW out, NEW out2, Grows(out, out2), NEW p, ARun(p), InHand(pr, out, p),
         p.stage = "resolve", p.items # <<>>,
         Answered(pr, out2, p.batch, Head(p.items).prediction), NEW n, n = [p EXCEPT !.items = Tail(p.items)]
  PROVE  InHand(pr, out2, n)
<1>1. p.items \in Seq(AnItem)
  BY DEF ARun
<1>2. /\ n.stage = p.stage /\ n.question = p.question /\ n.batch = p.batch
      /\ n.items = Tail(p.items) /\ n.models = p.models /\ n.cutoffs = p.cutoffs
  BY ResolvingIs
<1>3. \A i \in DOMAIN p.items : p.items[i] = Head(p.items) \/ \E j \in DOMAIN Tail(p.items) : p.items[i] = Tail(p.items)[j]
  BY <1>1, Beginning
<1>5. \A e : Handled(pr, out, p, e) => Handled(pr, out2, n, e)
  <2>1. SUFFICES ASSUME NEW e, Handled(pr, out, p, e) PROVE Handled(pr, out2, n, e)
    OBVIOUS
  <2>2. CASE Answered(pr, out, p.batch, e)
    <3>1. Answered(pr, out2, p.batch, e)
      BY <2>2, AnswersStay, GrowsNot
    <3>2. QED
      BY <1>2, <3>1 DEF Handled
  <2>3. CASE \E i \in DOMAIN p.items : p.items[i].prediction = e
    <3>1. e = Head(p.items).prediction \/ \E j \in DOMAIN n.items : n.items[j].prediction = e
      BY <1>2, <1>3, <2>3
    <3>2. QED
      BY <1>2, <3>1 DEF Handled
  <2>4. QED
    BY <2>1, <2>2, <2>3 DEF Handled
<1>6. Behind(pr, out, p)
  BY DEF InHand
<1>7. Behind(pr, out2, n)
  BY <1>2, <1>5, <1>6 DEF Behind
<1>8. n.models = <<>>
  BY <1>2 DEF ARun
<1>9. QED
  BY <1>7, <1>8 DEF InHand, Within

\* What a run that returns has decided.
LEMMA ReturnIsComplete ==
  ASSUME NEW pr, NEW out, NEW p, ARun(p), InHand(pr, out, p), p.stage \notin {"idle", "cutoff", "resolve"}
  PROVE  Complete(pr, out, p.question, p.batch)
<1>1. p.cutoffs = <<>> /\ p.items = <<>>
  BY DEF ARun
<1>2. ToSet(p.cutoffs) = {} /\ DOMAIN p.items = {}
  BY <1>1 DEF ToSet
<1>3. \A e : Handled(pr, out, p, e) => Answered(pr, out, p.batch, e)
  BY <1>2 DEF Handled
<1>4. Behind(pr, out, p)
  BY DEF InHand
<1>5. QED
  BY <1>2, <1>3, <1>4 DEF Behind, Complete

-----------------------------------------------------------------------------
(* The invariant of the loops.                                              *)

LEMMA IdleIs ==
  /\ ARun(Idle) /\ Idle.stage = "idle" /\ Idle.queue = <<>>
  /\ \A pr, out : StillThere(pr, Idle) /\ InHand(pr, out, Idle)
<1>1. Idle.seen = {} /\ Idle.queue = <<>> /\ Idle.stage = "idle" /\ Fields(Idle) /\ Idle.cutoffs = <<>> /\ Idle.models = <<>> /\ Idle.items = <<>> /\ Idle.context = 0
  BY DEF Idle, At, Fields
<1>2. ARun(Idle)
  BY <1>1 DEF ARun
<1>3. QED
  BY <1>1, <1>2 DEF InHand, StillThere

LEMMA Forgets ==
  ASSUME NEW p, ARun(p)
  PROVE  ARun([p EXCEPT !.steady = "no"]) /\ SameWork(p, [p EXCEPT !.steady = "no"])
<1>1. PICK n : n = [p EXCEPT !.steady = "no"]
  OBVIOUS
<1>2. /\ Fields(n) /\ n.stage = p.stage /\ n.question = p.question /\ n.batch = p.batch /\ n.cutoffs = p.cutoffs
      /\ n.models = p.models /\ n.seen = p.seen /\ n.context = p.context /\ n.items = p.items
  BY <1>1 DEF ARun, Fields
<1>3. p = Idle => n = Idle
  <2>1. Idle.steady = "no" /\ Fields(Idle)
    BY DEF Idle, At, Fields
  <2>2. QED
    BY <1>1, <2>1 DEF Fields
<1>4. ARun(n)
  BY <1>2, <1>3 DEF ARun
<1>5. QED
  BY <1>1, <1>2, <1>4 DEF SameWork

\* One run moves on.
LEMMA StepKeeps ==
  ASSUME LoopInv, NEW r \in Runners, NEW n, run[r].stage # "idle", ARun(n), Step(r, n), overlapped' = overlapped,
         IsFiniteSet(frames'), predictions' \in Seq(APrediction), outcomes' \in Seq(AnOutcome),
         Grows(predictions, predictions'), StillThere(predictions', n),
         ~overlapped =>
           /\ Unique(predictions') /\ InHand(predictions', outcomes', n)
           /\ \A q \in Questions, b \in Batches : <<q, b>> \in completed' => Complete(predictions', outcomes', q, b)
  PROVE  LoopInv'
<1>1. run = [s \in Runners |-> run[s]] /\ run' = [run EXCEPT ![r] = n]
  BY DEF LoopInv, LoopTyped, Step
<1>2. run'[r] = n /\ \A s \in Runners \ {r} : run'[s] = run[s]
  BY <1>1
<1>3. run' = [s \in Runners |-> run'[s]]
  BY <1>1
<1>4. \A s \in Runners : ARun(run'[s]) /\ StillThere(predictions', run'[s])
  BY <1>2, SeenStays DEF LoopInv, LoopTyped
<1>5. LoopTyped'
  BY <1>3, <1>4 DEF LoopInv, LoopTyped
<1>6. ASSUME ~overlapped' PROVE AllDecided'
  <2>1. ~overlapped /\ AllDecided
    BY <1>6 DEF LoopInv
  <2>2. \A s \in Runners \ {r} : run[s].stage = "idle"
    BY <2>1 DEF AllDecided, OneRun
  <2>3. \A s \in Runners \ {r} : run'[s].stage = "idle"
    BY <1>2, <2>2
  <2>4. OneRun'
    BY <2>3 DEF OneRun
  <2>5. \A s \in Runners : InHand(predictions', outcomes', run'[s])
    BY <1>2, <2>1, <2>3 DEF InHand
  <2>6. QED
    BY <2>1, <2>4, <2>5 DEF AllDecided
<1>7. QED
  BY <1>5, <1>6 DEF LoopInv

\* One that leaves the journals alone, and completes nothing.
LEMMA QuietStepKeeps ==
  ASSUME LoopInv, NEW r \in Runners, NEW n, run[r].stage # "idle", ARun(n), StillThere(predictions, n), Step(r, n),
         ~overlapped => InHand(predictions, outcomes, n),
         \/ UNCHANGED <<journals, frames, completed, overlapped>>
         \/ UNCHANGED <<journals, completed, overlapped>> /\ IsFiniteSet(frames')
  PROVE  LoopInv'
<1>1. predictions' = predictions /\ outcomes' = outcomes /\ (frames' = frames \/ IsFiniteSet(frames')) /\ completed' = completed /\ overlapped' = overlapped
  BY DEF journals
<1>2. /\ predictions' \in Seq(APrediction) /\ outcomes' \in Seq(AnOutcome) /\ IsFiniteSet(frames')
      /\ Grows(predictions, predictions')
  BY <1>1, GrowsNot DEF LoopInv, LoopTyped
<1>3. ASSUME ~overlapped
      PROVE  /\ Unique(predictions') /\ InHand(predictions', outcomes', n)
             /\ \A q \in Questions, b \in Batches : <<q, b>> \in completed' => Complete(predictions', outcomes', q, b)
  BY <1>1, <1>3 DEF LoopInv, AllDecided
<1>4. StillThere(predictions', n)
  BY <1>1
<1>5. QED
  BY <1>1, <1>2, <1>3, <1>4, StepKeeps

\* One that only ends, or does the same work as before.
LEMMA SameWorkKeeps ==
  ASSUME LoopInv, NEW r \in Runners, NEW n, run[r].stage # "idle", Step(r, n),
         n = Idle \/ (ARun(n) /\ SameWork(run[r], n)),
         \/ UNCHANGED <<journals, frames, completed, overlapped>>
         \/ UNCHANGED <<journals, completed, overlapped>> /\ IsFiniteSet(frames')
  PROVE  LoopInv'
<1>1. ARun(n)
  BY IdleIs
<1>2. ASSUME ~overlapped PROVE InHand(predictions, outcomes, n)
  <2>1. InHand(predictions, outcomes, run[r])
    BY <1>2 DEF LoopInv, AllDecided
  <2>2. CASE n = Idle
    BY <2>2, IdleIs
  <2>3. CASE SameWork(run[r], n)
    BY <2>1, <2>3, InHandStays, GrowsNot
  <2>4. QED
    BY <2>2, <2>3
<1>3. StillThere(predictions, n)
  <2>1. StillThere(predictions, run[r])
    BY DEF LoopInv, LoopTyped
  <2>2. QED
    BY <2>1, IdleIs, SeenStays, GrowsNot DEF SameWork
<1>4. QED
  BY <1>1, <1>2, <1>3, QuietStepKeeps

LEMMA RunIs == ASSUME LoopInv, NEW r \in Runners
               PROVE  /\ ARun(run[r]) /\ StillThere(predictions, run[r]) /\ (run[r].stage = "idle" <=> run[r] = Idle)
                      /\ ~overlapped => InHand(predictions, outcomes, run[r]) /\ Unique(predictions)
BY IdleIs DEF LoopInv, LoopTyped, ARun, AllDecided

\* One that returned.
LEMMA ReturnKeeps ==
  ASSUME LoopInv, NEW r \in Runners, run[r].stage \notin {"idle", "cutoff", "resolve"}, Return(r), UNCHANGED <<journals, frames>>
  PROVE  LoopInv'
<1>1. /\ predictions' = predictions /\ outcomes' = outcomes /\ frames' = frames /\ overlapped' = overlapped
      /\ completed' = completed \cup {<<run[r].question, run[r].batch>>} /\ Step(r, Idle)
  BY DEF journals, Return
<1>2. /\ predictions' \in Seq(APrediction) /\ outcomes' \in Seq(AnOutcome) /\ IsFiniteSet(frames')
      /\ Grows(predictions, predictions')
  BY <1>1, GrowsNot DEF LoopInv, LoopTyped
<1>3. ASSUME ~overlapped
      PROVE  /\ Unique(predictions') /\ InHand(predictions', outcomes', Idle)
             /\ \A q \in Questions, b \in Batches : <<q, b>> \in completed' => Complete(predictions', outcomes', q, b)
  <2>1. Complete(predictions, outcomes, run[r].question, run[r].batch)
    BY <1>3, RunIs, ReturnIsComplete
  <2>2. \A q \in Questions, b \in Batches : <<q, b>> \in completed => Complete(predictions, outcomes, q, b)
    BY <1>3 DEF LoopInv, AllDecided
  <2>3. \A q, b : <<q, b>> \in completed' => <<q, b>> \in completed \/ (q = run[r].question /\ b = run[r].batch)
    BY <1>1
  <2>4. \A q \in Questions, b \in Batches : <<q, b>> \in completed' => Complete(predictions, outcomes, q, b)
    BY <2>1, <2>2, <2>3
  <2>5. QED
    BY <1>1, <1>3, <2>4, IdleIs DEF LoopInv, AllDecided
<1>4. StillThere(predictions', Idle)
  BY IdleIs
<1>5. QED
  BY <1>1, <1>2, <1>3, <1>4, IdleIs, StepKeeps

-----------------------------------------------------------------------------
(* Every step of the loops.                                                 *)

\* The frames stay finite in number, and so the context built of them a number.
LEMMA FramesOfCutoff == ASSUME NEW q, NEW b, NEW c PROVE IsFiniteSet(CutoffFrames(q, b, c))
<1>1. \A f : IsFiniteSet({f}) /\ IsFiniteSet({})
  BY FS_Singleton, FS_EmptySet
<1>2. \A f, g : IsFiniteSet({f} \cup {g}) /\ IsFiniteSet({f} \cup {})
  BY <1>1, FS_Union
<1>3. QED
  BY <1>1, <1>2 DEF CutoffFrames

LEMMA FramesKept ==
  ASSUME LoopInv, NEW kept, IsFiniteSet(kept) PROVE IsFiniteSet(frames \cup kept)
BY FS_Union DEF LoopInv, LoopTyped

LEMMA ContextIs ==
  ASSUME NEW stored, IsFiniteSet(stored), NEW c
  PROVE  ContextOf(stored, c).frames \in Nat
<1>1. IsFiniteSet({f \in stored : f.at <= c})
  BY FS_Subset
<1>2. QED
  BY <1>1, FS_CardinalityType DEF ContextOf

LEMMA BeginStep ==
  ASSUME LoopInv, NEW r \in Runners, NEW q \in Questions, NEW b \in Batches, Begin(r, q, b)
  PROVE  LoopInv'
<1> DEFINE n == [At("cutoff") EXCEPT !.question = q, !.batch = b, !.cutoffs = Cutoffs(q, b), !.steady = Steady(q, b)]
<1>1. /\ run[r] = Idle /\ run' = [s \in Runners |-> IF s = r THEN n ELSE [run[s] EXCEPT !.steady = "no"]]
      /\ predictions' = predictions /\ outcomes' = outcomes /\ frames' = frames /\ completed' = completed
      /\ overlapped' = (overlapped \/ \E s \in Runners : run[s] # Idle)
  BY DEF Begin, market, journals
<1>2. /\ n.stage = "cutoff" /\ n.question = q /\ n.batch = b /\ n.cutoffs = Cutoffs(q, b) /\ n.models = <<>>
      /\ n.items = <<>> /\ n.context = 0 /\ n.seen = {} /\ Fields(n)
  <2>1. PICK p : p = At("cutoff")
    OBVIOUS
  <2>2. Fields(p) /\ p.stage = "cutoff" /\ p.models = <<>> /\ p.items = <<>> /\ p.context = 0 /\ p.seen = {}
    BY <2>1 DEF At, Fields
  <2>3. n = [p EXCEPT !.question = q, !.batch = b, !.cutoffs = Cutoffs(q, b), !.steady = Steady(q, b)]
    BY <2>1
  <2> HIDE DEF n
  <2>4. QED
    BY <2>2, <2>3 DEF Fields
<1>3. Cutoffs(q, b) \in Seq(Int)
  <2>1. b.start \in Int /\ b.end \in Int
    BY BatchesAreIntervals
  <2>2. Horizon[q] \in {5, 15}
    BY DEF Questions, Horizon
  <2>3. PICK first \in Int, room \in Int, spacing \in {5, 15} :
          first = b.start + Lookback /\ room = b.end - Lag - first /\ spacing = Horizon[q]
    BY <2>1, <2>2 DEF Lookback, Lag
  <2>4. room >= 0 => room \div spacing \in Nat
    BY <2>3
  <2>5. PICK top \in Nat : top = IF room < 0 THEN 0 ELSE room \div spacing
    BY <2>3, <2>4
  <2>6. Cutoffs(q, b) = [i \in 1..top |-> first + (i - 1) * spacing]
    BY <2>3, <2>5 DEF Cutoffs
  <2>7. \A i \in 1..top : first + (i - 1) * spacing \in Int
    BY <2>3
  <2>8. Cutoffs(q, b) \in [1..top -> Int]
    BY <2>6, <2>7
  <2>9. QED
    BY <2>5, <2>8
<1>4. ARun(n)
  <2> HIDE DEF n
  <2>1. ToSet(n.models) = {} /\ n.models \in Seq(AllModels) /\ n.items \in Seq(AnItem)
    BY <1>2 DEF ToSet
  <2>2. QED
    BY <1>2, <1>3, <2>1 DEF ARun
<1> HIDE DEF n
<1>5. \A s \in Runners : ARun(run'[s]) /\ (s # r => SameWork(run[s], run'[s]))
  <2>1. SUFFICES ASSUME NEW s \in Runners, s # r PROVE ARun(run'[s]) /\ SameWork(run[s], run'[s])
    BY <1>1, <1>4
  <2>2. run'[s] = [run[s] EXCEPT !.steady = "no"]
    BY <1>1, <2>1
  <2>3. PICK p : p = run[s]
    OBVIOUS
  <2>4. ARun(p)
    BY <2>3, RunIs
  <2>5. ARun([p EXCEPT !.steady = "no"]) /\ SameWork(p, [p EXCEPT !.steady = "no"])
    BY <2>4, Forgets
  <2>6. QED
    BY <2>2, <2>3, <2>5
<1>6. LoopTyped'
  <2>1. run' = [s \in Runners |-> run'[s]]
    BY <1>1
  <2>2. overlapped' \in BOOLEAN
    BY <1>1
  <2>3. \A s \in Runners : StillThere(predictions, run'[s])
    <3>1. StillThere(predictions, run'[r])
      BY <1>1, <1>2 DEF StillThere
    <3>2. ASSUME NEW s \in Runners \ {r} PROVE StillThere(predictions, run'[s])
      <4>1. StillThere(predictions, run[s]) /\ SameWork(run[s], run'[s])
        BY <1>5, RunIs
      <4>2. QED
        BY <4>1, SeenStays, GrowsNot DEF SameWork
    <3>3. QED
      BY <3>1, <3>2
  <2>4. QED
    BY <1>1, <1>5, <2>1, <2>2, <2>3 DEF LoopInv, LoopTyped
<1>7. ASSUME ~overlapped' PROVE AllDecided'
  <2>1. AllDecided /\ \A s \in Runners : run[s] = Idle
    BY <1>1, <1>7 DEF LoopInv
  <2>2. \A s \in Runners \ {r} : run'[s].stage = "idle"
    <3>1. \A s \in Runners : run[s].stage = "idle"
      BY <2>1, IdleIs
    <3>2. QED
      BY <1>5, <3>1 DEF SameWork
  <2>3. InHand(predictions, outcomes, n)
    <3>1. Behind(predictions, outcomes, n)
      BY <1>2 DEF Behind, Examined
    <3>2. Within(predictions, outcomes, n)
      BY <1>2 DEF Within
    <3>3. QED
      BY <3>1, <3>2 DEF InHand
  <2>4. \A s \in Runners : InHand(predictions, outcomes, run'[s])
    <3>1. run'[r] = n
      BY <1>1
    <3>2. QED
      BY <2>2, <2>3, <3>1 DEF InHand
  <2>5. OneRun'
    BY <2>2 DEF OneRun
  <2>6. QED
    BY <1>1, <2>1, <2>4, <2>5 DEF AllDecided
<1>8. QED
  BY <1>6, <1>7 DEF LoopInv

LEMMA ContextStep == ASSUME LoopInv, ContextChanges PROVE LoopInv'
<1>1. /\ run' = [r \in Runners |-> [run[r] EXCEPT !.steady = "no"]] /\ \E b \in Batches : frames' = frames \cup {OtherFrame(b)}
      /\ predictions' = predictions /\ outcomes' = outcomes /\ completed' = completed /\ overlapped' = overlapped
  BY DEF ContextChanges, market, journals
<1>2. \A s \in Runners : ARun(run'[s]) /\ SameWork(run[s], run'[s])
  <2>1. SUFFICES ASSUME NEW s \in Runners PROVE ARun(run'[s]) /\ SameWork(run[s], run'[s])
    OBVIOUS
  <2>2. run'[s] = [run[s] EXCEPT !.steady = "no"]
    BY <1>1
  <2>3. PICK p : p = run[s]
    OBVIOUS
  <2>4. ARun(p)
    BY <2>3, RunIs
  <2>5. ARun([p EXCEPT !.steady = "no"]) /\ SameWork(p, [p EXCEPT !.steady = "no"])
    BY <2>4, Forgets
  <2>6. QED
    BY <2>2, <2>3, <2>5
<1>3. LoopTyped'
  <2>1. run' = [s \in Runners |-> run'[s]]
    BY <1>1
  <2>2. IsFiniteSet(frames')
    BY <1>1, FramesKept, FS_Singleton
  <2>3. ASSUME NEW s \in Runners PROVE StillThere(predictions, run'[s])
    <3>1. StillThere(predictions, run[s]) /\ SameWork(run[s], run'[s])
      BY <1>2, RunIs
    <3>2. QED
      BY <3>1, SeenStays, GrowsNot DEF SameWork
  <2>4. QED
    BY <1>1, <1>2, <2>1, <2>2, <2>3 DEF LoopInv, LoopTyped
<1>4. ASSUME ~overlapped' PROVE AllDecided'
  <2>1. AllDecided
    BY <1>1, <1>4 DEF LoopInv
  <2>2. OneRun'
    BY <1>2, <2>1 DEF AllDecided, OneRun, SameWork
  <2>3. \A s \in Runners : InHand(predictions, outcomes, run'[s])
    BY <1>2, <2>1, InHandStays, GrowsNot DEF AllDecided
  <2>4. QED
    BY <1>1, <2>1, <2>2, <2>3 DEF AllDecided
<1>5. QED
  BY <1>3, <1>4 DEF LoopInv

LEMMA NextCutoffStep == ASSUME LoopInv, NEW r \in Runners, NextCutoff(r) PROVE LoopInv'
<1>1. PICK p : p = run[r]
  OBVIOUS
<1>2. /\ ARun(p) /\ StillThere(predictions, p) /\ p.stage = "cutoff" /\ p.cutoffs # <<>> /\ p.models = <<>> /\ run[r].stage # "idle"
      /\ ~overlapped => InHand(predictions, outcomes, p)
      /\ UNCHANGED <<journals, completed, overlapped>>
      /\ frames' = frames \cup CutoffFrames(p.question, p.batch, Head(p.cutoffs))
  BY <1>1, RunIs DEF NextCutoff, Raise, counters
<1>0. IsFiniteSet(frames') /\ UNCHANGED <<journals, completed, overlapped>>
  BY <1>2, FramesKept, FramesOfCutoff
<1>10. PICK steady : steady = IF p.steady = "again" /\ newest' # newest THEN "moved" ELSE p.steady
  OBVIOUS
<1>11. PICK current \in Int : current = ContextOf(frames', Head(p.cutoffs)).frames
  BY <1>0, ContextIs
<1>3. \/ Step(r, Idle)
      \/ /\ Head(p.cutoffs) \in p.batch.absent \cup p.batch.degraded
         /\ Step(r, [p EXCEPT !.cutoffs = Tail(p.cutoffs)])
      \/ Step(r, [p EXCEPT !.models = Models[p.question], !.context = current, !.seen = Seen(predictions, p.question), !.steady = steady])
  BY <1>1, <1>10, <1>11 DEF NextCutoff, Raise, Seen
<1>4. \A e \in ToSet(predictions) : e \in APrediction
  BY DEF LoopInv, LoopTyped, ToSet
<1>5. CASE Step(r, Idle)
  BY <1>0, <1>2, <1>5, SameWorkKeeps
<1>6. CASE /\ Head(p.cutoffs) \in p.batch.absent \cup p.batch.degraded
           /\ Step(r, [p EXCEPT !.cutoffs = Tail(p.cutoffs)])
  <2>1. PICK n : n = [p EXCEPT !.cutoffs = Tail(p.cutoffs)]
    OBVIOUS
  <2>2. ARun(n) /\ n.question = p.question
    BY <1>2, <1>6, <2>1, PassingIs
  <2>3. ~overlapped => InHand(predictions, outcomes, n)
    BY <1>2, <1>6, <2>1, PassingKeeps
  <2>4. n.seen = p.seen
    BY <1>2, <2>1 DEF ARun, Fields
  <2>5. StillThere(predictions, n)
    BY <1>2, <2>2, <2>4, SeenStays, GrowsNot
  <2>6. QED
    BY <1>0, <1>2, <1>6, <2>1, <2>2, <2>3, <2>5, QuietStepKeeps
<1>7. CASE Step(r, [p EXCEPT !.models = Models[p.question], !.context = current, !.seen = Seen(predictions, p.question), !.steady = steady])
  <2>2. PICK n : n = [p EXCEPT !.models = Models[p.question], !.context = current, !.seen = Seen(predictions, p.question), !.steady = steady]
    OBVIOUS
  <2>3. ARun(n) /\ StillThere(predictions, n)
    BY <1>2, <2>2, ArrivalIs
  <2>4. ~overlapped => InHand(predictions, outcomes, n)
    BY <1>2, <1>4, <2>2, ArrivalKeeps
  <2>5. Step(r, n)
    BY <1>7, <2>2
  <2>6. QED
    BY <1>0, <1>2, <2>3, <2>4, <2>5, QuietStepKeeps
<1>8. QED
  BY <1>3, <1>5, <1>6, <1>7

\* The entry a rerun finds: the one of its key, or for Direction the first
\* of that cutoff and model, which then hides the one of its key.
LEMMA MatchIs ==
  ASSUME predictions \in Seq(APrediction), NEW q \in Questions, NEW c, NEW m, Found(predictions, q, c, m)
  PROVE  /\ Match(q, c, m) \in APrediction
         /\ Unique(predictions) => \A e \in ToSet(predictions) : e.question = q /\ e.cutoff = c /\ e.model = m =>
              e = Match(q, c, m) \/ (q = "DIRECTION" /\ Hidden(predictions, e))
<1>1. PICK size \in Nat : size = Len(predictions) /\ DOMAIN predictions = 1..size
  OBVIOUS
<1>2. \A e \in ToSet(predictions) : \E i \in DOMAIN predictions : e = predictions[i]
  BY DEF ToSet
<1>3. PICK f \in DOMAIN predictions : predictions[f].question = q /\ predictions[f].cutoff = c /\ predictions[f].model = m
  BY <1>2 DEF Found
<1>4. f \in Matches(q, c, m) /\ Matches(q, c, m) \in SUBSET (1..size)
  BY <1>1, <1>3 DEF Matches
<1>5. PICK first \in Matches(q, c, m) : \A k \in Matches(q, c, m) : ~ (k < first)
  BY <1>1, <1>4, FirstNumber
<1>6. \E i \in Matches(q, c, m) : \A j \in Matches(q, c, m) : i <= j
  BY <1>1, <1>4, <1>5
<1>7. PICK i \in Matches(q, c, m) : Match(q, c, m) = predictions[i] /\ \A j \in Matches(q, c, m) : i <= j
  BY <1>6 DEF Match
<1>8. i \in DOMAIN predictions /\ predictions[i] \in APrediction
  BY <1>1, <1>4, <1>7
<1>9. ASSUME Unique(predictions), NEW e \in ToSet(predictions), e.question = q, e.cutoff = c, e.model = m
      PROVE  e = predictions[i] \/ (q = "DIRECTION" /\ Hidden(predictions, e))
  <2>1. PICK j \in DOMAIN predictions : e = predictions[j]
    BY <1>2
  <2>2. j \in Matches(q, c, m)
    BY <1>9, <2>1 DEF Matches
  <2>3. i <= j
    BY <1>7, <2>2
  <2>4. CASE q = "DIRECTION"
    <3>1. predictions[i].cutoff = c /\ predictions[i].model = m
      BY <1>7 DEF Matches
    <3>2. i = j \/ i < j
      BY <1>1, <1>8, <2>1, <2>3
    <3>3. CASE i < j
      BY <1>8, <1>9, <2>1, <2>4, <3>1, <3>3 DEF Hidden
    <3>4. QED
      BY <2>1, <3>2, <3>3
  <2>5. CASE q # "DIRECTION"
    <3>1. SameKey(predictions[i], predictions[j])
      BY <1>7, <1>9, <2>1, <2>5 DEF Matches, SameKey
    <3>2. QED
      BY <1>8, <1>9, <2>1, <3>1 DEF Unique
  <2>6. QED
    BY <2>4, <2>5
<1>10. QED
  BY <1>7, <1>8, <1>9

LEMMA Resumed ==
  ASSUME NEW p, ARun(p), p.stage # "idle", NEW n, Fields(n), n.stage # "idle",
         n.question = p.question /\ n.batch = p.batch /\ n.cutoffs = p.cutoffs /\ n.models = p.models,
         n.seen = p.seen /\ n.context = p.context /\ n.items = p.items,
         n.stage # "cutoff" => p.cutoffs = <<>>, n.stage \notin {"cutoff", "resolve"} => p.items = <<>>
  PROVE  ARun(n) /\ SameWork(p, n)
BY DEF ARun, SameWork

LEMMA ReuseStep == ASSUME LoopInv, NEW r \in Runners, Reuse(r) PROVE LoopInv'
<1>1. PICK p : p = run[r]
  OBVIOUS
<1>2. PICK entry, under, n :
        /\ entry = Match(p.question, Head(p.cutoffs), Head(p.models))
        /\ under = IF p.question = "DIRECTION" THEN entry.context ELSE p.context
        /\ n = Recorded(p, entry, under) /\ Step(r, n)
  BY <1>1 DEF Reuse, market
<1>3. /\ AtModel(p) /\ Reuses(p) /\ run[r].stage # "idle" /\ StillThere(predictions, p)
      /\ ~overlapped => InHand(predictions, outcomes, p) /\ Unique(predictions)
      /\ UNCHANGED <<journals, frames, completed, overlapped>>
  BY <1>1, RunIs DEF Reuse, market, Recording, AtModel, counters
<1>4. predictions \in Seq(APrediction)
  BY DEF LoopInv, LoopTyped
<1>5. p.question \in Questions /\ p.context \in Int
  BY <1>3, AtModelHas DEF AtModel, ARun
<1>6. Found(predictions, p.question, Head(p.cutoffs), Head(p.models))
  <2>1. PICK x \in p.seen : x = <<Head(p.cutoffs), Head(p.models)>>
    BY <1>3 DEF Reuses
  <2>2. Found(predictions, p.question, x[1], x[2])
    BY <1>3 DEF StillThere
  <2>3. QED
    BY <2>1, <2>2
<1>7. /\ entry \in APrediction
      /\ ~overlapped =>
           \A e \in ToSet(predictions) : OfKey(p, e) => e = entry \/ (e.question = "DIRECTION" /\ Hidden(predictions, e))
  BY <1>2, <1>3, <1>4, <1>5, <1>6, MatchIs DEF OfKey
<1>8. under \in Int
  BY <1>2, <1>5, <1>7 DEF APrediction
<1>9. ARun(n) /\ n.seen = p.seen /\ n.question = p.question
  BY <1>2, <1>3, <1>7, <1>8, RecordedIs
<1>10. StillThere(predictions, n)
  BY <1>3, <1>9, SeenStays, GrowsNot
<1>11. ASSUME ~overlapped PROVE InHand(predictions, outcomes, n)
  BY <1>2, <1>3, <1>6, <1>7, <1>8, <1>11, RecordingKeeps, GrowsNot
<1>12. QED
  BY <1>2, <1>3, <1>9, <1>10, <1>11, QuietStepKeeps

\* The line of a prediction, whether or not its writer lives on.
LEMMA PredictionWritten ==
  ASSUME LoopInv, NEW p, AtModel(p), ~Reuses(p), NEW r \in Runners, p = run[r],
         Joins(predictions, Prediction(p), predictions'), outcomes' = outcomes
  PROVE  /\ predictions' \in Seq(APrediction) /\ Grows(predictions, predictions')
         /\ ToSet(predictions') = ToSet(predictions) \cup {Prediction(p)}
         /\ outcomes' \in Seq(AnOutcome)
         /\ ~overlapped =>
              /\ Unique(predictions') /\ OnlyOne(predictions, Prediction(p))
              /\ \A q \in Questions, b \in Batches : <<q, b>> \in completed => Complete(predictions', outcomes', q, b)
<1>1. PICK x \in APrediction : x = Prediction(p)
  BY AtModelHas
<1>2. predictions \in Seq(APrediction) /\ outcomes' \in Seq(AnOutcome)
  BY DEF LoopInv, LoopTyped
<1>3. /\ predictions' \in Seq(APrediction) /\ Grows(predictions, predictions')
      /\ ToSet(predictions') = ToSet(predictions) \cup {x}
  <2>1. Joins(predictions, x, predictions')
    BY <1>1
  <2>2. QED
    BY <1>2, <2>1, JoinsGrows
<1>4. ASSUME ~overlapped
      PROVE  /\ Unique(predictions') /\ OnlyOne(predictions, x)
             /\ \A q \in Questions, b \in Batches : <<q, b>> \in completed => Complete(predictions', outcomes', q, b)
  <2>1. Unique(predictions) /\ InHand(predictions, outcomes, p)
    BY <1>4, RunIs
  <2>2. OnlyOne(predictions, x)
    BY <1>1, <2>1, UnseenIsOnly
  <2>3. Joins(predictions, x, predictions')
    BY <1>1
  <2>4. Unique(predictions')
    BY <1>2, <2>1, <2>2, <2>3, PredictionJoins
  <2>5. \A q \in Questions, b \in Batches : <<q, b>> \in completed => Complete(predictions, outcomes, q, b)
    BY <1>4 DEF LoopInv, AllDecided
  <2>6. \A q, b : Complete(predictions, outcomes, q, b) => Complete(predictions', outcomes, q, b)
    BY <1>2, <2>1, <2>2, <2>3, CompleteJoins
  <2>7. QED
    BY <2>2, <2>4, <2>5, <2>6
<1>5. QED
  BY <1>1, <1>2, <1>3, <1>4

LEMMA PredictStep == ASSUME LoopInv, NEW r \in Runners, Predict(r) PROVE LoopInv'
<1>1. PICK p : p = run[r]
  OBVIOUS
<1>2. /\ AtModel(p) /\ ~Reuses(p) /\ run[r].stage # "idle" /\ StillThere(predictions, p)
      /\ ~overlapped => InHand(predictions, outcomes, p)
      /\ outcomes' = outcomes /\ frames' = frames /\ completed' = completed /\ overlapped' = overlapped
  BY <1>1, RunIs DEF Predict, market, Recording, AtModel, counters
<1>3. Joins(predictions, Prediction(p), predictions')
  BY <1>1 DEF Predict, market, AppendPrediction, Joins
<1>4. PICK n : n = Recorded(p, Prediction(p), p.context) /\ Step(r, n)
  BY <1>1 DEF Predict, market
<1>5. /\ predictions' \in Seq(APrediction) /\ Grows(predictions, predictions')
      /\ ToSet(predictions') = ToSet(predictions) \cup {Prediction(p)}
      /\ outcomes' \in Seq(AnOutcome)
      /\ ~overlapped =>
           /\ Unique(predictions') /\ OnlyOne(predictions, Prediction(p))
           /\ \A q \in Questions, b \in Batches : <<q, b>> \in completed => Complete(predictions', outcomes', q, b)
  BY <1>1, <1>2, <1>3, PredictionWritten
<1>6. PICK entry \in APrediction, under \in Int : entry = Prediction(p) /\ under = p.context
  BY <1>2, AtModelHas DEF AtModel, ARun
<1>7. ARun(n) /\ n.seen = p.seen /\ n.question = p.question
  BY <1>2, <1>4, <1>6, RecordedIs
<1>8. StillThere(predictions', n)
  BY <1>2, <1>5, <1>7, SeenStays
<1>9. ASSUME ~overlapped PROVE InHand(predictions', outcomes, n)
  <2>1. \A e \in ToSet(predictions') : e \in ToSet(predictions) \/ e = Prediction(p)
    BY <1>5
  <2>2. /\ Prediction(p).question = p.question /\ Prediction(p).cutoff = Head(p.cutoffs) /\ Prediction(p).model = Head(p.models)
    BY DEF Prediction
  <2>3. \A e \in ToSet(predictions') : OfKey(p, e) => e = entry
    BY <1>5, <1>6, <1>9, <2>1, <2>2 DEF OfKey, OnlyOne, SameKey
  <2>4. Found(predictions', p.question, Head(p.cutoffs), Head(p.models))
    BY <1>5, <2>2 DEF Found
  <2>5. PICK pr2 : pr2 = predictions'
    OBVIOUS
  <2>6. InHand(pr2, outcomes, n)
    BY <1>2, <1>4, <1>5, <1>6, <1>9, <2>1, <2>3, <2>4, <2>5, RecordingKeeps
  <2>7. QED
    BY <2>5, <2>6
<1>10. IsFiniteSet(frames')
  BY <1>2 DEF LoopInv, LoopTyped
<1>11. QED
  BY <1>2, <1>4, <1>5, <1>7, <1>8, <1>9, <1>10, StepKeeps

LEMMA EndOfCutoffsStep == ASSUME LoopInv, NEW r \in Runners, EndOfCutoffs(r) PROVE LoopInv'
<1>1. PICK p : p = run[r]
  OBVIOUS
<1>2. /\ ARun(p) /\ p.stage = "cutoff" /\ p.cutoffs = <<>> /\ run[r].stage # "idle"
      /\ UNCHANGED <<journals, frames, completed, overlapped>>
      /\ Step(r, Idle) \/ Step(r, [p EXCEPT !.stage = "resolve"])
  BY <1>1, RunIs DEF EndOfCutoffs, market, Raise, counters
<1>3. PICK n : n = [p EXCEPT !.stage = "resolve"]
  OBVIOUS
<1>4. ARun(n) /\ SameWork(p, n)
  BY <1>2, <1>3 DEF ARun, Fields, SameWork
<1>5. QED
  BY <1>1, <1>2, <1>3, <1>4, SameWorkKeeps

\* The stages after the last item: they only pass the queue on.
LEMMA LaterStages ==
  ASSUME NEW p, ARun(p), p.stage \notin {"idle", "cutoff"}, p.items = <<>>, NEW n, NEW stage, NEW queue, NEW scored,
         stage \notin {"idle", "cutoff"},
         n = [p EXCEPT !.stage = stage, !.queue = queue, !.scored = scored] \/ n = [p EXCEPT !.stage = stage, !.queue = queue]
  PROVE  ARun(n) /\ SameWork(p, n)
<1>1. Fields(p)
  BY DEF ARun
<1>2. /\ Fields(n) /\ n.stage = stage /\ n.question = p.question /\ n.batch = p.batch /\ n.cutoffs = p.cutoffs
      /\ n.models = p.models /\ n.seen = p.seen /\ n.context = p.context /\ n.items = p.items
  BY <1>1 DEF Fields
<1>3. QED
  BY <1>2 DEF ARun, SameWork

LEMMA DecideIs ==
  ASSUME NEW b, NEW e \in APrediction
  PROVE  Decide(b, e).status = "PENDING" \/ (Decide(b, e) \in AnOutcome /\ Decide(b, e).prediction = e)
<1>1. Resolves(e) \in Int /\ Resolves(e) + Lag + 1 \in Int
  <2>1. e.cutoff \in Int /\ e.question \in Questions
    BY DEF APrediction
  <2>2. Horizon[e.question] \in Int
    BY <2>1 DEF Horizon, Questions
  <2>3. QED
    BY <2>1, <2>2 DEF Resolves, Lag
<1>2. CASE Resolves(e) \notin b.quiet
  BY <1>1, <1>2 DEF Decide, AnOutcome
<1>3. CASE Resolves(e) \in b.quiet /\ b.end <= Resolves(e) + Lag
  BY <1>3 DEF Decide
<1>4. CASE Resolves(e) \in b.quiet /\ ~(b.end <= Resolves(e) + Lag)
  BY <1>1, <1>4 DEF Decide, AnOutcome
<1>5. QED
  BY <1>2, <1>3, <1>4

\* The line of a decision.
LEMMA OutcomeWritten ==
  ASSUME NEW out \in Seq(AnOutcome), NEW b, NEW e \in APrediction, Decide(b, e).status # "PENDING",
         NEW out2, out2 = IF OutcomesFor(out, e) # {} THEN out ELSE Append(out, Decide(b, e))
  PROVE  out2 \in Seq(AnOutcome) /\ Grows(out, out2) /\ OutcomesFor(out2, e) # {}
<1>1. PICK decision \in AnOutcome : decision = Decide(b, e) /\ decision.prediction = e
  BY DecideIs
<1>2. CASE OutcomesFor(out, e) # {}
  BY <1>2, GrowsNot
<1>3. CASE OutcomesFor(out, e) = {}
  <2>1. out2 = Append(out, decision)
    BY <1>1, <1>3
  <2>2. out2 \in Seq(AnOutcome) /\ Grows(out, out2) /\ ToSet(out2) = ToSet(out) \cup {decision}
    BY <2>1, Ending
  <2>3. QED
    BY <1>1, <2>2 DEF OutcomesFor
<1>4. QED
  BY <1>2, <1>3

\* What a decision leaves alone, whether or not its writer lives on.
LEMMA OutcomesGrow ==
  ASSUME LoopInv, predictions' = predictions, Grows(outcomes, outcomes'), ~overlapped
  PROVE  /\ Unique(predictions')
         /\ \A q \in Questions, b \in Batches : <<q, b>> \in completed => Complete(predictions', outcomes', q, b)
<1>1. \A q \in Questions, b \in Batches : <<q, b>> \in completed => Complete(predictions, outcomes, q, b)
  BY DEF LoopInv, AllDecided
<1>2. \A q, b : Complete(predictions, outcomes, q, b) => Complete(predictions, outcomes', q, b)
  BY CompleteStays
<1>3. QED
  BY <1>1, <1>2 DEF LoopInv, AllDecided

LEMMA ResolveStep == ASSUME LoopInv, NEW r \in Runners, Resolve(r) PROVE LoopInv'
<1>1. PICK p : p = run[r]
  OBVIOUS
<1>2. /\ ARun(p) /\ p.stage = "resolve" /\ p.items # <<>> /\ run[r].stage # "idle" /\ StillThere(predictions, p)
      /\ ~overlapped => InHand(predictions, outcomes, p)
      /\ predictions' = predictions /\ predictionState' = predictionState
      /\ frames' = frames \cup {ForwardFrame(p.batch, Head(p.items).prediction)}
      /\ completed' = completed /\ overlapped' = overlapped
  BY <1>1, RunIs DEF Resolve, market, Raise, counters
<1>0. IsFiniteSet(frames')
  BY <1>2, FramesKept, FS_Singleton
<1>3. PICK item, decision : item = Head(p.items) /\ decision = Decide(p.batch, item.prediction)
  OBVIOUS
<1>4. \/ Step(r, Idle) /\ UNCHANGED <<outcomes, outcomeState>>
      \/ /\ Step(r, [p EXCEPT !.items = Tail(p.items)])
         /\ \/ decision.status = "PENDING" /\ outcomes' = outcomes
            \/ decision.status # "PENDING" /\ AppendOutcome(decision)
  BY <1>1, <1>3 DEF Resolve, market, Raise
<1>5. item \in AnItem /\ item.prediction \in APrediction
  <2>1. p.items \in Seq(AnItem)
    BY <1>2 DEF ARun
  <2>2. item \in AnItem
    BY <1>2, <1>3, <2>1, Beginning
  <2>3. QED
    BY <2>2 DEF AnItem
<1>6. outcomes \in Seq(AnOutcome) /\ predictions' \in Seq(APrediction) /\ IsFiniteSet(frames') /\ Grows(predictions, predictions')
  BY <1>0, <1>2, GrowsNot DEF LoopInv, LoopTyped
<1>7. CASE Step(r, Idle) /\ UNCHANGED <<outcomes, outcomeState>>
  BY <1>0, <1>2, <1>7, SameWorkKeeps DEF journals
<1>8. CASE /\ Step(r, [p EXCEPT !.items = Tail(p.items)])
           /\ \/ decision.status = "PENDING" /\ outcomes' = outcomes
              \/ decision.status # "PENDING" /\ AppendOutcome(decision)
  <2>1. outcomes' \in Seq(AnOutcome) /\ Grows(outcomes, outcomes') /\ Answered(predictions, outcomes', p.batch, item.prediction)
    <3>1. CASE decision.status = "PENDING" /\ outcomes' = outcomes
      BY <1>3, <1>6, <3>1, GrowsNot DEF Answered
    <3>2. CASE decision.status # "PENDING" /\ AppendOutcome(decision)
      <4>1. decision.prediction = item.prediction
        BY <1>3, <1>5, <3>2, DecideIs
      <4>2. outcomes' = IF OutcomesFor(outcomes, item.prediction) # {} THEN outcomes ELSE Append(outcomes, decision)
        BY <3>2, <4>1 DEF AppendOutcome, OutcomeOf, OutcomesFor
      <4>3. outcomes' \in Seq(AnOutcome) /\ Grows(outcomes, outcomes') /\ OutcomesFor(outcomes', item.prediction) # {}
        BY <1>3, <1>5, <1>6, <3>2, <4>2, OutcomeWritten
      <4>4. QED
        BY <4>3 DEF Answered
    <3>3. QED
      BY <1>8, <3>1, <3>2
  <2>2. PICK n : n = [p EXCEPT !.items = Tail(p.items)]
    OBVIOUS
  <2>3. ARun(n) /\ n.seen = p.seen /\ n.question = p.question
    BY <1>2, <2>2, ResolvingIs
  <2>4. StillThere(predictions', n)
    BY <1>2, <2>3, SeenStays, GrowsNot
  <2>5. ASSUME ~overlapped PROVE InHand(predictions', outcomes', n)
    BY <1>2, <1>3, <2>1, <2>2, <2>5, ResolvingKeeps
  <2>6. QED
    BY <1>2, <1>6, <1>8, <2>1, <2>2, <2>3, <2>4, <2>5, OutcomesGrow, StepKeeps
<1>9. QED
  BY <1>4, <1>7, <1>8

LEMMA SyncStep == ASSUME LoopInv, NEW r \in Runners, Sync(r) PROVE LoopInv'
<1>1. PICK p : p = run[r]
  OBVIOUS
<1>2. /\ ARun(p) /\ p.stage = "resolve" /\ p.items = <<>> /\ run[r].stage # "idle"
      /\ UNCHANGED <<journals, frames, completed, overlapped>>
  BY <1>1, RunIs DEF Sync, market, Raise, counters
<1>3. Step(r, Idle) \/ \E queue, scored : Step(r, [p EXCEPT !.stage = "rebuild", !.scored = scored, !.queue = queue])
  BY <1>1 DEF Sync, market, Raise
<1>4. CASE Step(r, Idle)
  BY <1>2, <1>4, SameWorkKeeps
<1>5. CASE \E queue, scored : Step(r, [p EXCEPT !.stage = "rebuild", !.scored = scored, !.queue = queue])
  <2>1. PICK queue, scored : Step(r, [p EXCEPT !.stage = "rebuild", !.scored = scored, !.queue = queue])
    BY <1>5
  <2>2. PICK n : n = [p EXCEPT !.stage = "rebuild", !.queue = queue, !.scored = scored]
    OBVIOUS
  <2>3. Step(r, n)
    <3>1. n = [p EXCEPT !.stage = "rebuild", !.scored = scored, !.queue = queue]
      BY <1>2, <2>2 DEF ARun, Fields
    <3>2. QED
      BY <2>1, <3>1
  <2>4. ARun(n) /\ SameWork(p, n)
    <3>1. PICK stage : stage = "rebuild" /\ stage \notin {"idle", "cutoff"}
      OBVIOUS
    <3>2. n = [p EXCEPT !.stage = stage, !.queue = queue, !.scored = scored]
      BY <2>2, <3>1
    <3>3. ARun(p) /\ p.stage \notin {"idle", "cutoff"} /\ p.items = <<>> /\ stage \notin {"idle", "cutoff"}
      BY <1>2, <3>1
    <3>4. QED
      BY <3>2, <3>3, LaterStages
  <2>5. QED
    BY <1>1, <1>2, <2>3, <2>4, SameWorkKeeps
<1>6. QED
  BY <1>3, <1>4, <1>5

LEMMA AppendNextStep == ASSUME LoopInv, NEW r \in Runners, AppendNext(r) PROVE LoopInv'
<1>1. PICK p : p = run[r]
  OBVIOUS
<1>2. /\ ARun(p) /\ p.stage # "idle" /\ run[r].stage # "idle"
      /\ UNCHANGED <<journals, frames, completed, overlapped>>
  BY <1>1, RunIs, IdleIs DEF AppendNext, market, counters
<1>3. PICK n : n = [p EXCEPT !.queue = Tail(p.queue)] /\ Step(r, n)
  BY <1>1 DEF AppendNext, market
<1>4. ARun(n) /\ SameWork(p, n)
  BY <1>2, <1>3 DEF ARun, Fields, SameWork
<1>5. QED
  BY <1>1, <1>2, <1>3, <1>4, SameWorkKeeps

\* A later stage and its queue.
LEMMA LaterKeeps ==
  ASSUME LoopInv, NEW r \in Runners, run[r].stage \notin {"idle", "cutoff"}, run[r].items = <<>>,
         NEW stage, stage \notin {"idle", "cutoff"}, NEW queue, Step(r, [run[r] EXCEPT !.stage = stage, !.queue = queue]),
         UNCHANGED <<journals, frames, completed, overlapped>>
  PROVE  LoopInv'
<1>1. PICK p : p = run[r]
  OBVIOUS
<1>2. PICK n : n = [p EXCEPT !.stage = stage, !.queue = queue]
  OBVIOUS
<1>3. ARun(p)
  BY <1>1, RunIs
<1>4. ARun(n) /\ SameWork(p, n)
  BY <1>1, <1>2, <1>3, LaterStages
<1>5. QED
  BY <1>1, <1>2, <1>4, SameWorkKeeps

LEMMA NoItems ==
  ASSUME LoopInv, NEW r \in Runners, run[r].stage \in {"rebuild", "assemble", "synthesize", "return"}
  PROVE  run[r].items = <<>>
BY RunIs DEF ARun

LEMMA RebuildStep == ASSUME LoopInv, NEW r \in Runners, Rebuild(r) PROVE LoopInv'
<1>1. /\ run[r].stage = "rebuild" /\ \E queue : Step(r, [run[r] EXCEPT !.stage = "assemble", !.queue = queue])
      /\ UNCHANGED <<journals, frames, completed, overlapped>>
  BY DEF Rebuild, market, counters
<1>2. run[r].items = <<>>
  BY <1>1, NoItems
<1>3. QED
  BY <1>1, <1>2, LaterKeeps

LEMMA AssembleStep == ASSUME LoopInv, NEW r \in Runners, Assemble(r) PROVE LoopInv'
<1>1. run[r].stage = "assemble" /\ UNCHANGED <<journals, frames>>
  BY DEF Assemble, market
<1>2. \/ Return(r)
      \/ /\ UNCHANGED counters
         /\ Step(r, Idle) \/ \E queue : Step(r, [run[r] EXCEPT !.stage = "synthesize", !.queue = queue])
  BY DEF Assemble, market, Raise
<1>3. CASE Return(r)
  BY <1>1, <1>3, ReturnKeeps
<1>4. CASE UNCHANGED counters /\ Step(r, Idle)
  BY <1>1, <1>4, SameWorkKeeps DEF counters
<1>5. CASE UNCHANGED counters /\ \E queue : Step(r, [run[r] EXCEPT !.stage = "synthesize", !.queue = queue])
  <2>1. run[r].items = <<>>
    BY <1>1, NoItems
  <2>2. UNCHANGED <<journals, frames, completed, overlapped>>
    BY <1>1, <1>5 DEF counters
  <2>3. QED
    BY <1>1, <1>5, <2>1, <2>2, LaterKeeps
<1>6. QED
  BY <1>2, <1>3, <1>4, <1>5

LEMMA SynthesizeStep == ASSUME LoopInv, NEW r \in Runners, Synthesize(r) PROVE LoopInv'
<1>1. run[r].stage = "synthesize" /\ UNCHANGED <<journals, frames>>
  BY DEF Synthesize, market
<1>2. \/ Return(r)
      \/ UNCHANGED counters /\ \E queue : Step(r, [run[r] EXCEPT !.stage = "return", !.queue = queue])
  BY DEF Synthesize, market
<1>3. CASE Return(r)
  BY <1>1, <1>3, ReturnKeeps
<1>4. CASE UNCHANGED counters /\ \E queue : Step(r, [run[r] EXCEPT !.stage = "return", !.queue = queue])
  <2>1. run[r].items = <<>>
    BY <1>1, NoItems
  <2>2. UNCHANGED <<journals, frames, completed, overlapped>>
    BY <1>1, <1>4 DEF counters
  <2>3. QED
    BY <1>1, <1>4, <2>1, <2>2, LaterKeeps
<1>5. QED
  BY <1>2, <1>3, <1>4

LEMMA FinishStep == ASSUME LoopInv, NEW r \in Runners, Finish(r) PROVE LoopInv'
BY ReturnKeeps DEF Finish, market

\* A run that dies leaves at most one line behind, the one it was writing.
LEMMA DieStep == ASSUME LoopInv, NEW r \in Runners, Die(r) PROVE LoopInv'
<1>1. PICK p : p = run[r]
  OBVIOUS
<1>2. /\ ARun(p) /\ run[r].stage # "idle" /\ Step(r, Idle)
      /\ completed' = completed /\ overlapped' = overlapped /\ \E kept \in SUBSET Keeping(p) : frames' = frames \cup kept
  <2>1. /\ run[r] # Idle /\ Step(r, Idle) /\ completed' = completed /\ overlapped' = overlapped
        /\ frames' = frames \/ frames' = frames \cup Keeping(p) \/ \E kept \in SUBSET Keeping(p) : frames' = frames \cup kept
    BY <1>1 DEF Die
  <2>2. frames = frames \cup {} /\ {} \in SUBSET Keeping(p) /\ Keeping(p) \in SUBSET Keeping(p)
    OBVIOUS
  <2>3. QED
    BY <1>1, <2>1, <2>2, RunIs
<1>3. predictions \in Seq(APrediction) /\ outcomes \in Seq(AnOutcome) /\ IsFiniteSet(frames')
  <2>1. IsFiniteSet(Keeping(p))
    BY FramesOfCutoff, FS_Singleton, FS_EmptySet DEF Keeping
  <2>2. \A kept \in SUBSET Keeping(p) : IsFiniteSet(kept)
    BY <2>1, FS_Subset
  <2>3. IsFiniteSet(frames')
    BY <1>2, <2>2, FramesKept
  <2>4. QED
    BY <2>3 DEF LoopInv, LoopTyped
<1>4. \/ UNCHANGED <<predictions, outcomes>>
      \/ /\ AtModel(p) /\ ~Reuses(p) /\ outcomes' = outcomes
         /\ Joins(predictions, Prediction(p), predictions')
      \/ /\ p.stage = "resolve" /\ p.items # <<>> /\ predictions' = predictions
         /\ LET item == Head(p.items) decision == Decide(p.batch, item.prediction) IN
              /\ decision.status # "PENDING" /\ OutcomeOf(item.prediction) = {}
              /\ outcomes' = Append(outcomes, decision)
  BY <1>1, <1>2 DEF Die, market, journals, Recording, AtModel, Joins
<1>5. ASSUME predictions' \in Seq(APrediction), outcomes' \in Seq(AnOutcome), Grows(predictions, predictions'),
             ~overlapped =>
               /\ Unique(predictions')
               /\ \A q \in Questions, b \in Batches : <<q, b>> \in completed => Complete(predictions', outcomes', q, b)
      PROVE  LoopInv'
  BY <1>2, <1>3, <1>5, IdleIs, StepKeeps
<1>6. CASE UNCHANGED <<predictions, outcomes>>
  BY <1>3, <1>5, <1>6, GrowsNot, OutcomesGrow
<1>7. CASE /\ AtModel(p) /\ ~Reuses(p) /\ outcomes' = outcomes
           /\ Joins(predictions, Prediction(p), predictions')
  BY <1>1, <1>5, <1>7, PredictionWritten
<1>8. CASE /\ p.stage = "resolve" /\ p.items # <<>> /\ predictions' = predictions
           /\ LET item == Head(p.items) decision == Decide(p.batch, item.prediction) IN
                /\ decision.status # "PENDING" /\ OutcomeOf(item.prediction) = {}
                /\ outcomes' = Append(outcomes, decision)
  <2>1. PICK item, decision : item = Head(p.items) /\ decision = Decide(p.batch, item.prediction)
    OBVIOUS
  <2>2. decision.status # "PENDING" /\ OutcomeOf(item.prediction) = {} /\ outcomes' = Append(outcomes, decision)
    BY <1>8, <2>1
  <2>3. item.prediction \in APrediction
    <3>1. item \in AnItem
      BY <1>2, <1>8, <2>1, Beginning DEF ARun
    <3>2. QED
      BY <3>1 DEF AnItem
  <2>4. decision \in AnOutcome
    BY <2>1, <2>2, <2>3, DecideIs
  <2>5. outcomes' \in Seq(AnOutcome) /\ Grows(outcomes, outcomes')
    BY <1>3, <2>2, <2>4, Ending
  <2>6. QED
    BY <1>3, <1>5, <1>8, <2>5, GrowsNot, OutcomesGrow
<1>9. QED
  BY <1>4, <1>6, <1>7, <1>8

\* A run whose append finds the lease held has written nothing of it.
LEMMA LeaseHeldStep == ASSUME LoopInv, NEW r \in Runners, LeaseHeld(r) PROVE LoopInv'
<1>1. PICK p : p = run[r]
  OBVIOUS
<1>2. /\ Appending(p) /\ Step(r, Idle) /\ UNCHANGED <<journals, completed, overlapped>>
      /\ frames' = frames \/ frames' = frames \cup {ForwardFrame(p.batch, Head(p.items).prediction)}
  BY <1>1 DEF LeaseHeld
<1>3. run[r].stage # "idle"
  BY <1>1, <1>2, RunIs, IdleIs DEF Appending
<1>4. frames' = frames \/ IsFiniteSet(frames')
  BY <1>2, FramesKept, FS_Singleton
<1>5. QED
  BY <1>2, <1>3, <1>4, SameWorkKeeps

LEMMA LoopStarts == ASSUME LoopInit PROVE LoopInv
<1>1. /\ predictions = <<>> /\ outcomes = <<>> /\ frames = {} /\ run = [r \in Runners |-> Idle]
      /\ completed = {} /\ overlapped = FALSE
  BY DEF LoopInit
<1>2. \A r \in Runners : run[r] = Idle
  BY <1>1
<1>3. LoopTyped
  <2>1. predictions \in Seq(APrediction) /\ outcomes \in Seq(AnOutcome) /\ IsFiniteSet(frames) /\ overlapped \in BOOLEAN
    <3>1. <<>> \in Seq(APrediction) /\ <<>> \in Seq(AnOutcome)
      BY EmptySeq
    <3>2. IsFiniteSet(frames)
      BY <1>1, FS_EmptySet
    <3>3. overlapped \in BOOLEAN
      BY <1>1
    <3>4. QED
      BY <1>1, <3>1, <3>2, <3>3
  <2>2. \A r \in Runners : ARun(run[r]) /\ StillThere(predictions, run[r])
    BY <1>2, IdleIs
  <2>3. run = [r \in Runners |-> run[r]]
    BY <1>1
  <2>4. QED
    BY <2>1, <2>2, <2>3 DEF LoopTyped
<1>4. OneRun
  BY <1>2, IdleIs DEF OneRun
<1>5. Unique(predictions)
  BY <1>1 DEF Unique
<1>6. AllDecided
  BY <1>1, <1>2, <1>4, <1>5, IdleIs DEF AllDecided
<1>7. QED
  BY <1>3, <1>6 DEF LoopInv

LEMMA LoopKeeps == ASSUME LoopInv, [LoopNext]_loopVars PROVE LoopInv'
<1>1. CASE UNCHANGED loopVars
  <2>1. UNCHANGED <<predictions, outcomes, frames, run, completed, overlapped>>
    BY <1>1 DEF loopVars, journals, market, counters
  <2>2. LoopTyped'
    BY <2>1 DEF LoopInv, LoopTyped
  <2>3. ~overlapped' => AllDecided'
    BY <2>1 DEF LoopInv, AllDecided, OneRun
  <2>4. QED
    BY <2>2, <2>3 DEF LoopInv
<1>2. CASE ContextChanges
  BY <1>2, ContextStep
<1>3. CASE \E r \in Runners, q \in Questions, b \in Batches : Begin(r, q, b)
  BY <1>3, BeginStep
<1>4. ASSUME NEW r \in Runners,
             \/ NextCutoff(r) \/ Reuse(r) \/ Predict(r) \/ EndOfCutoffs(r) \/ Resolve(r)
             \/ Sync(r) \/ AppendNext(r) \/ Rebuild(r) \/ Assemble(r) \/ Synthesize(r) \/ Finish(r)
             \/ LeaseHeld(r) \/ Die(r)
      PROVE  LoopInv'
  BY <1>4, NextCutoffStep, ReuseStep, PredictStep, EndOfCutoffsStep, ResolveStep, SyncStep, AppendNextStep,
     RebuildStep, AssembleStep, SynthesizeStep, FinishStep, LeaseHeldStep, DieStep
<1>5. QED
  BY <1>1, <1>2, <1>3, <1>4 DEF LoopNext

\* A run that returned has decided what it examined, for any batches, models
\* and number of runners, runs that die and contexts that change.
THEOREM PredictionsAreDecided == LoopSpec => []EveryPredictionDecided
<1>1. LoopInv => EveryPredictionDecided
  <2>1. SUFFICES ASSUME LoopInv, ~overlapped, NEW q \in Questions, NEW b \in Batches, <<q, b>> \in completed,
                        NEW p \in ToSet(predictions), p.question = q, p.cutoff \in Examined(q, b)
                 PROVE  OutcomeOf(p) # {} \/ Decide(b, p).status = "PENDING" \/ (q = "DIRECTION" /\ Shadowed(p))
    BY DEF EveryPredictionDecided
  <2>2. Answered(predictions, outcomes, b, p)
    BY <2>1 DEF LoopInv, AllDecided, Complete
  <2>3. QED
    BY <2>1, <2>2 DEF Answered, OutcomesFor, OutcomeOf, Hidden, Shadowed
<1>2. LoopInit => LoopInv
  BY LoopStarts
<1>3. LoopInv /\ [LoopNext]_loopVars => LoopInv'
  BY LoopKeeps
<1>4. QED
  BY <1>1, <1>2, <1>3, PTL DEF LoopSpec

-----------------------------------------------------------------------------
(* What a run still owes the memory, at each of its stages.                 *)

AScore == [claim : APrediction, resolved : Int]
Counted(ev) ==
  /\ Items(ev, "score") \in Seq(AScore)
  /\ \A i, j \in DOMAIN Items(ev, "score") : Items(ev, "score")[i].claim = Items(ev, "score")[j].claim => i = j
Remembered(ev) ==
  Items(ev, "score") # <<>> => Competence(ev) # Absent /\ Competence(ev).scores = Items(ev, "score")
Owed(ev, queue) ==
  /\ \A i \in DOMAIN queue :
       /\ queue[i].type \in {"claim", "score"}
       /\ queue[i].type = "score" =>
            /\ queue[i].item \in AScore
            /\ \A j \in DOMAIN Items(ev, "score") : Items(ev, "score")[j].claim # queue[i].item.claim
  /\ \A i, j \in DOMAIN queue :
       queue[i].type = "score" /\ queue[j].type = "score" /\ queue[i].item.claim = queue[j].item.claim => i = j
HasOnly(queue, types) == \A i \in DOMAIN queue : queue[i].type \in types
\* The memory counts all there is, or is known to be behind.
Recalls(ev, late) == late \/ Remembered(ev)
NewMemory(ev, queue) == \E at \in Int : queue = <<Event("competence", at, Memory(at, Items(ev, "score")))>>

Opening == {"idle", "cutoff", "resolve"}
Closing == {"synthesize", "return"}
Aims(ev, late, p) ==
  /\ p.stage \in Opening \cup {"rebuild", "assemble"} \cup Closing
  /\ IsSeq(p.queue) /\ Counted(ev)
  /\ p.stage \in Opening => p.queue = <<>> /\ Recalls(ev, late)
  /\ p.stage = "rebuild" =>
       /\ Owed(ev, p.queue)
       /\ p.scored \/ (Recalls(ev, late) /\ HasOnly(p.queue, {"claim"}))
  /\ p.stage = "assemble" => (p.queue = <<>> /\ Recalls(ev, late)) \/ NewMemory(ev, p.queue)
  /\ p.stage \in Closing => Recalls(ev, late) /\ HasOnly(p.queue, {"assembly", "synthesis"})

Undying == deaths = 0 /\ ~overlapped
Undisturbed == Undying /\ ~refused
Learns ==
  /\ (\A r \in Runners : run[r].stage = "idle") => Counted(events) /\ Recalls(events, behind)
  /\ \A r \in Runners : run[r].stage # "idle" => Aims(events, behind, run[r])
LearnInv ==
  /\ LoopInv /\ deaths \in Nat /\ IsSeq(events)
  /\ behind \in BOOLEAN /\ refused \in BOOLEAN /\ (behind => refused)
  /\ deaths = 0 => projected = Len(events)
  /\ Undying => Learns

-----------------------------------------------------------------------------
(* The events of a type as a journal grows.                                 *)

LEMMA ItemsAre ==
  ASSUME NEW S, NEW ev \in Seq(S), NEW type
  PROVE  /\ Items(ev, type) \in Seq({e.item : e \in S})
         /\ \A i \in DOMAIN Items(ev, type) : \E j \in DOMAIN ev : ev[j].type = type /\ Items(ev, type)[i] = ev[j].item
<1>1. PICK P : P = {i \in DOMAIN ev : ev[i].type = type} /\ P \in SUBSET (DOMAIN ev)
  OBVIOUS
<1>2. PICK of, c : of = Those(ev, P) /\ c = Cardinality(P)
  OBVIOUS
<1>3. /\ of \in Seq(S) /\ Len(of) = c /\ c \in Nat /\ DOMAIN of = 1..c
      /\ \A k \in 1..c : Nth(P, k) \in P /\ of[k] = ev[Nth(P, k)]
  <2>1. /\ Those(ev, P) \in Seq(S) /\ Len(Those(ev, P)) = Cardinality(P) /\ Cardinality(P) \in Nat
        /\ DOMAIN Those(ev, P) = 1 .. Cardinality(P)
        /\ \A k \in 1 .. Cardinality(P) : Nth(P, k) \in P /\ Rank(P, Nth(P, k)) = k /\ Those(ev, P)[k] = ev[Nth(P, k)]
    BY <1>1, ThoseAre
  <2>2. QED
    BY <1>2, <2>1
<1>4. Items(ev, type) = [i \in 1..c |-> of[i].item]
  BY <1>1, <1>2, <1>3 DEF Items
<1>5. \A i \in 1..c : of[i] \in S
  BY <1>3
<1>6. Items(ev, type) \in [1..c -> {e.item : e \in S}]
  BY <1>4, <1>5
<1>7. PICK items : items = Items(ev, type)
  OBVIOUS
<1>8. items \in Seq({e.item : e \in S}) /\ DOMAIN items = 1..c
  BY <1>3, <1>6, <1>7
<1>9. ASSUME NEW i \in DOMAIN items PROVE \E j \in DOMAIN ev : ev[j].type = type /\ items[i] = ev[j].item
  <2>1. Nth(P, i) \in P /\ of[i] = ev[Nth(P, i)] /\ items[i] = of[i].item
    BY <1>3, <1>4, <1>7, <1>8, <1>9
  <2>2. QED
    BY <1>1, <2>1
<1>10. QED
  BY <1>7, <1>8, <1>9

LEMMA ItemsGrow ==
  ASSUME NEW S, NEW ev \in Seq(S), NEW e \in S, NEW type
  PROVE  Items(Append(ev, e), type) = IF e.type = type THEN Append(Items(ev, type), e.item) ELSE Items(ev, type)
<1>1. PICK n, ev2 : n = Len(ev) /\ ev2 = Append(ev, e)
  OBVIOUS
<1>2. n \in Nat /\ ev2 \in Seq(S) /\ DOMAIN ev = 1..n /\ DOMAIN ev2 = 1 .. (n + 1) /\ ev2[n + 1] = e /\ \A i \in 1..n : ev2[i] = ev[i]
  BY <1>1
<1>3. PICK P : P = {i \in DOMAIN ev : ev[i].type = type} /\ P \in SUBSET (DOMAIN ev)
  OBVIOUS
<1>4. PICK of, c : of = Those(ev, P) /\ c = Cardinality(P)
  OBVIOUS
<1>5. of \in Seq(S) /\ Len(of) = c /\ c \in Nat /\ DOMAIN of = 1..c
  <2>1. /\ Those(ev, P) \in Seq(S) /\ Len(Those(ev, P)) = Cardinality(P) /\ Cardinality(P) \in Nat
        /\ DOMAIN Those(ev, P) = 1 .. Cardinality(P)
    BY <1>3, ThoseAre
  <2>2. QED
    BY <1>4, <2>1
<1>6. Those(ev2, P) = of /\ Those(ev2, P \cup {n + 1}) = Append(of, e)
  <2>1. /\ Those(Append(ev, e), P) = Those(ev, P)
        /\ Those(Append(ev, e), P \cup {Len(ev) + 1}) = Append(Those(ev, P), e)
    BY <1>3, ThoseGrow
  <2>2. QED
    BY <1>1, <1>4, <2>1
<1>7. Items(ev, type) = [i \in 1..c |-> of[i].item]
  BY <1>3, <1>4, <1>5 DEF Items
<1>8. CASE e.type # type
  <2>1. {i \in DOMAIN ev2 : ev2[i].type = type} = P
    <3>1. \A i \in 1 .. (n + 1) : i \in 1..n \/ i = n + 1
      BY <1>2
    <3>2. \A i \in 1..n : i \in 1 .. (n + 1)
      BY <1>2
    <3>3. QED
      BY <1>2, <1>3, <1>8, <3>1, <3>2
  <2>2. Items(ev2, type) = [i \in 1..c |-> of[i].item]
    BY <1>5, <1>6, <2>1 DEF Items
  <2>3. QED
    BY <1>1, <1>7, <1>8, <2>2
<1>9. CASE e.type = type
  <2>1. {i \in DOMAIN ev2 : ev2[i].type = type} = P \cup {n + 1}
    <3>1. \A i \in 1 .. (n + 1) : i \in 1..n \/ i = n + 1
      BY <1>2
    <3>2. \A i \in 1..n : i \in 1 .. (n + 1)
      BY <1>2
    <3>3. n + 1 \in 1 .. (n + 1)
      BY <1>2
    <3>4. QED
      BY <1>2, <1>3, <1>9, <3>1, <3>2, <3>3
  <2>2. PICK of2 : of2 = Append(of, e)
    OBVIOUS
  <2>3. DOMAIN of2 = 1 .. (c + 1) /\ of2[c + 1] = e /\ \A i \in 1..c : of2[i] = of[i]
    BY <1>5, <2>2
  <2>4. Items(ev2, type) = [i \in 1 .. (c + 1) |-> of2[i].item]
    BY <1>6, <2>1, <2>2, <2>3 DEF Items
  <2>5. PICK T : T = {f.item : f \in S}
    OBVIOUS
  <2>6. PICK items, items2 : items = Items(ev, type) /\ items2 = Items(ev2, type)
    OBVIOUS
  <2>7. items \in Seq(T) /\ items2 \in Seq(T) /\ e.item \in T
    BY <1>2, <2>5, <2>6, ItemsAre
  <2>8. Len(items) = c /\ Len(items2) = c + 1 /\ \A i \in 1..c : items[i] = of[i].item
    BY <1>5, <1>7, <2>4, <2>6, <2>7
  <2>9. /\ Append(items, e.item) \in Seq(T) /\ Len(Append(items, e.item)) = c + 1
        /\ Append(items, e.item)[c + 1] = e.item /\ \A i \in 1..c : Append(items, e.item)[i] = items[i]
    BY <2>7, <2>8
  <2>10. \A i \in 1 .. (c + 1) : items2[i] = Append(items, e.item)[i]
    <3>1. \A i \in 1 .. (c + 1) : i \in 1..c \/ i = c + 1
      BY <1>5
    <3>2. \A i \in 1 .. (c + 1) : items2[i] = of2[i].item
      BY <2>4, <2>6
    <3>3. QED
      BY <2>3, <2>8, <2>9, <3>1, <3>2
  <2>11. items2 = Append(items, e.item)
    BY <2>7, <2>8, <2>9, <2>10, SeqEqual
  <2>12. QED
    BY <1>1, <1>9, <2>6, <2>11
<1>10. QED
  BY <1>8, <1>9

LEMMA NothingYet == \A type : Items(<<>>, type) = <<>>
<1>1. SUFFICES ASSUME NEW type PROVE Items(<<>>, type) = <<>>
  OBVIOUS
<1>2. PICK T : T = {e.item : e \in {}}
  OBVIOUS
<1>3. T = {} /\ <<>> \in Seq({})
  BY <1>2
<1>4. Items(<<>>, type) \in Seq(T)
  BY <1>2, <1>3, ItemsAre
<1>5. \A q \in Seq({}) : q = <<>>
  <2>1. SUFFICES ASSUME NEW q \in Seq({}), q # <<>> PROVE FALSE
    OBVIOUS
  <2>2. Head(q) \in {}
    BY <2>1, HeadTailProperties
  <2>3. QED
    BY <2>2
<1>6. QED
  BY <1>3, <1>4, <1>5

\* An event that joins the journal.
Joined(ev, e, ev2) ==
  \A type : Items(ev2, type) = IF e.type = type THEN Append(Items(ev, type), e.item) ELSE Items(ev, type)
LEMMA EventJoins ==
  ASSUME NEW ev, IsSeq(ev), NEW e, NEW ev2, ev2 = Append(ev, e)
  PROVE  IsSeq(ev2) /\ Len(ev2) = Len(ev) + 1 /\ Joined(ev, e, ev2)
<1>1. PICK S : ev \in Seq(S)
  BY DEF IsSeq
<1>2. PICK T : T = S \cup {e}
  OBVIOUS
<1>3. ev \in Seq(T) /\ e \in T
  BY <1>1, <1>2
<1>4. ev2 \in Seq(T) /\ Len(ev2) = Len(ev) + 1
  BY <1>3
<1>5. Joined(ev, e, ev2)
  BY <1>3, ItemsGrow DEF Joined
<1>6. QED
  BY <1>4, <1>5 DEF IsSeq

\* One that is not about the memory.
LEMMA OtherEvents ==
  ASSUME NEW ev, IsSeq(ev), NEW e, NEW ev2, ev2 = Append(ev, e), e.type \notin {"score", "competence"}
  PROVE  /\ Items(ev2, "score") = Items(ev, "score") /\ Competence(ev2) = Competence(ev)
         /\ Counted(ev) => Counted(ev2)
         /\ Remembered(ev) => Remembered(ev2)
<1>0. Joined(ev, e, ev2)
  BY EventJoins
<1>1. Items(ev2, "score") = Items(ev, "score") /\ Items(ev2, "competence") = Items(ev, "competence")
  BY <1>0 DEF Joined
<1>2. Competence(ev2) = Competence(ev)
  BY <1>1 DEF Competence
<1>3. QED
  BY <1>1, <1>2 DEF Counted, Remembered

\* A score that was owed.
LEMMA ScoreJoins ==
  ASSUME NEW ev, IsSeq(ev), NEW queue, IsSeq(queue), queue # <<>>, Counted(ev), Owed(ev, queue), NEW ev2,
         ev2 = Append(ev, Head(queue))
  PROVE  Counted(ev2) /\ Owed(ev2, Tail(queue)) /\ IsSeq(Tail(queue))
<1>1. PICK S : queue \in Seq(S)
  BY DEF IsSeq
<1>2. PICK n \in Nat \ {0} : n = Len(queue)
  BY <1>1, EmptySeq
<1>3. /\ DOMAIN queue = 1..n /\ Head(queue) = queue[1] /\ Tail(queue) \in Seq(S) /\ DOMAIN Tail(queue) = 1 .. (n - 1)
      /\ \A i \in 1 .. (n - 1) : Tail(queue)[i] = queue[i + 1] /\ i + 1 \in 2..n /\ i + 1 \in 1..n /\ i + 1 # 1
      /\ 1 \in 1..n
  BY <1>1, <1>2
<1>4. PICK e, t, sc, sc2 : e = queue[1] /\ t = Tail(queue) /\ sc = Items(ev, "score") /\ sc2 = Items(ev2, "score")
  OBVIOUS
<1>5. sc2 = IF e.type = "score" THEN Append(sc, e.item) ELSE sc
  <2>1. ev2 = Append(ev, e)
    BY <1>3, <1>4
  <2>2. Joined(ev, e, ev2)
    BY <2>1, EventJoins
  <2>3. QED
    BY <1>4, <2>2 DEF Joined
<1>6. sc \in Seq(AScore) /\ \A i, j \in DOMAIN sc : sc[i].claim = sc[j].claim => i = j
  BY <1>4 DEF Counted
<1>7. /\ \A i \in 1..n : /\ queue[i].type \in {"claim", "score"}
                         /\ queue[i].type = "score" =>
                              queue[i].item \in AScore /\ \A j \in DOMAIN sc : sc[j].claim # queue[i].item.claim
      /\ \A i, j \in 1..n :
           queue[i].type = "score" /\ queue[j].type = "score" /\ queue[i].item.claim = queue[j].item.claim => i = j
  BY <1>3, <1>4 DEF Owed
<1>8. IsSeq(t)
  BY <1>3, <1>4 DEF IsSeq
<1>9. CASE e.type # "score"
  <2>1. sc2 = sc
    BY <1>5, <1>9
  <2>2. Counted(ev2)
    BY <1>4, <1>6, <2>1 DEF Counted
  <2>3. Owed(ev2, t)
    BY <1>3, <1>4, <1>7, <2>1 DEF Owed
  <2>4. QED
    BY <1>4, <1>8, <2>2, <2>3
<1>10. CASE e.type = "score"
  <2>1. e.item \in AScore /\ \A j \in DOMAIN sc : sc[j].claim # e.item.claim
    BY <1>3, <1>4, <1>7, <1>10
  <2>2. PICK x, m : x = e.item /\ m = Len(sc)
    OBVIOUS
  <2>3. sc2 = Append(sc, x) /\ x \in AScore /\ m \in Nat /\ DOMAIN sc = 1..m
    BY <1>5, <1>6, <1>10, <2>1, <2>2
  <2>4. /\ sc2 \in Seq(AScore) /\ DOMAIN sc2 = 1 .. (m + 1) /\ sc2[m + 1] = x
        /\ \A i \in 1..m : sc2[i] = sc[i]
    BY <1>6, <2>2, <2>3
  <2>5. \A i \in DOMAIN sc2 : (i \in DOMAIN sc /\ sc2[i] = sc[i]) \/ (i = m + 1 /\ sc2[i] = x)
    BY <2>3, <2>4
  <2>6. Counted(ev2)
    <3>1. \A i, j \in DOMAIN sc2 : sc2[i].claim = sc2[j].claim => i = j
      BY <1>6, <2>1, <2>2, <2>5
    <3>2. QED
      BY <1>4, <2>4, <3>1 DEF Counted
  <2>7. Owed(ev2, t)
    <3>1. ASSUME NEW i \in DOMAIN t
          PROVE  /\ t[i].type \in {"claim", "score"}
                 /\ t[i].type = "score" => t[i].item \in AScore /\ \A j \in DOMAIN sc2 : sc2[j].claim # t[i].item.claim
      <4>1. t[i] = queue[i + 1] /\ i + 1 \in 1..n /\ i + 1 # 1
        BY <1>3, <1>4, <3>1
      <4>2. t[i].type = "score" => t[i].item.claim # x.claim
        BY <1>3, <1>4, <1>7, <1>10, <2>2, <4>1
      <4>3. QED
        BY <1>7, <2>5, <4>1, <4>2
    <3>2. \A i, j \in DOMAIN t : t[i].type = "score" /\ t[j].type = "score" /\ t[i].item.claim = t[j].item.claim => i = j
      <4>1. SUFFICES ASSUME NEW i \in DOMAIN t, NEW j \in DOMAIN t, t[i].type = "score", t[j].type = "score",
                            t[i].item.claim = t[j].item.claim
                     PROVE  i = j
        OBVIOUS
      <4>2. t[i] = queue[i + 1] /\ i + 1 \in 1..n /\ t[j] = queue[j + 1] /\ j + 1 \in 1..n /\ i \in Int /\ j \in Int
        BY <1>3, <1>4, <4>1
      <4>3. i + 1 = j + 1
        BY <1>7, <4>1, <4>2
      <4>4. QED
        BY <4>2, <4>3
    <3>3. QED
      BY <1>4, <3>1, <3>2 DEF Owed
  <2>8. QED
    BY <1>4, <1>8, <2>6, <2>7
<1>11. QED
  BY <1>9, <1>10

\* The memory of all the scores there are.
LEMMA MemoryJoins ==
  ASSUME NEW ev, IsSeq(ev), Counted(ev), NEW at \in Int, NEW ev2,
         ev2 = Append(ev, Event("competence", at, Memory(at, Items(ev, "score"))))
  PROVE  Counted(ev2) /\ Remembered(ev2)
<1>1. PICK e, memory, old : e = Event("competence", at, memory) /\ memory = Memory(at, Items(ev, "score"))
                            /\ old = Items(ev, "competence")
  OBVIOUS
<1>2. ev2 = Append(ev, e) /\ e.type = "competence" /\ e.item = memory
  BY <1>1 DEF Event
<1>3. Items(ev2, "score") = Items(ev, "score") /\ Items(ev2, "competence") = Append(old, memory)
  <2>1. Joined(ev, e, ev2)
    BY <1>2, EventJoins
  <2>2. QED
    BY <1>1, <1>2, <2>1 DEF Joined
<1>4. IsSeq(old)
  <2>1. PICK S : ev \in Seq(S)
    BY DEF IsSeq
  <2>2. QED
    BY <1>1, <2>1, ItemsAre DEF IsSeq
<1>5. Competence(ev2) = memory
  <2>1. PICK S : old \in Seq(S)
    BY <1>4 DEF IsSeq
  <2>2. PICK T : T = S \cup {memory}
    OBVIOUS
  <2>3. old \in Seq(T) /\ memory \in T
    BY <2>1, <2>2
  <2>4. Append(old, memory) # <<>> /\ Last(Append(old, memory)) = memory
    BY <2>3, AppendProperties DEF Last
  <2>5. QED
    BY <1>3, <2>4 DEF Competence
<1>6. memory # Absent
  <2>1. Items(ev, "score") \in Seq(AScore)
    BY DEF Counted
  <2>2. AScore \subseteq [claim : [question : Questions, model : AllModels, cutoff : Int, context : Int], resolved : Int]
    BY DEF AScore, APrediction
  <2>3. Items(ev, "score") \in Seq([claim : [question : Questions, model : AllModels, cutoff : Int, context : Int], resolved : Int])
    BY <2>1, <2>2, SeqMonotonic
  <2>4. memory \in [known : Int, scores : Seq([claim : [question : Questions, model : AllModels, cutoff : Int, context : Int], resolved : Int])]
    BY <1>1, <2>3 DEF Memory
  <2>5. QED
    BY <2>4, AbsentIsNoMemory DEF AllModels
<1>7. memory.scores = Items(ev, "score")
  BY <1>1 DEF Memory
<1>8. QED
  BY <1>3, <1>5, <1>6, <1>7 DEF Counted, Remembered

-----------------------------------------------------------------------------
(* What a sync decides on.                                                  *)

LEMMA NewScoresAre ==
  ASSUME predictions \in Seq(APrediction), outcomes \in Seq(AnOutcome), Unique(predictions), NEW knownAt, NEW state
  PROVE  /\ NewScores(knownAt, state) \in Seq(AnOutcome)
         /\ \A i \in DOMAIN NewScores(knownAt, state) :
              /\ NewScores(knownAt, state)[i] \in AnOutcome
              /\ \A j \in DOMAIN Items(state, "score") :
                   Items(state, "score")[j].claim # NewScores(knownAt, state)[i].prediction
         /\ \A i, j \in DOMAIN NewScores(knownAt, state) :
              NewScores(knownAt, state)[i].prediction = NewScores(knownAt, state)[j].prediction => i = j
<1> DEFINE scored == {s.claim : s \in ToSet(Items(state, "score"))}
           decided(p) == {o \in OutcomeOf(p) : o.status = "RESOLVED" /\ o.decided <= knownAt}
           DuePlaces == {i \in DOMAIN predictions :
                        Known(predictions[i], knownAt) /\ predictions[i] \notin scored /\ decided(predictions[i]) # {}}
<1>0. PICK pr \in Seq(APrediction) : pr = predictions
  OBVIOUS
<1>1. PICK P : P = DuePlaces /\ P \in SUBSET (DOMAIN predictions)
  OBVIOUS
<1>2. PICK due, c : due = Those(predictions, P) /\ c = Cardinality(P)
  OBVIOUS
<1>3. /\ due \in Seq(APrediction) /\ c \in Nat /\ DOMAIN due = 1..c
      /\ \A k \in 1..c : Nth(P, k) \in P /\ Rank(P, Nth(P, k)) = k /\ due[k] = predictions[Nth(P, k)]
  <2>1. P \in SUBSET (DOMAIN pr)
    BY <1>0, <1>1
  <2>2. /\ Those(pr, P) \in Seq(APrediction) /\ Len(Those(pr, P)) = Cardinality(P) /\ Cardinality(P) \in Nat
        /\ DOMAIN Those(pr, P) = 1 .. Cardinality(P)
        /\ \A k \in 1 .. Cardinality(P) : Nth(P, k) \in P /\ Rank(P, Nth(P, k)) = k /\ Those(pr, P)[k] = pr[Nth(P, k)]
    BY <2>1, ThoseAre
  <2>3. QED
    BY <1>0, <1>2, <2>2
<1>4. PICK new : new = NewScores(knownAt, state)
  OBVIOUS
<1>5. new = [i \in 1..c |-> CHOOSE o \in decided(due[i]) : TRUE]
  BY <1>1, <1>2, <1>3, <1>4 DEF NewScores
<1>6. ASSUME NEW i \in 1..c
      PROVE  new[i] \in AnOutcome /\ new[i].prediction = due[i] /\ due[i] \notin scored
  <2>1. decided(due[i]) # {} /\ due[i] \notin scored
    BY <1>1, <1>3
  <2>2. new[i] \in decided(due[i])
    BY <1>5, <2>1
  <2>3. new[i] \in OutcomeOf(due[i])
    BY <2>2
  <2>4. new[i] \in ToSet(outcomes) /\ new[i].prediction = due[i]
    BY <2>3 DEF OutcomeOf
  <2>5. new[i] \in AnOutcome
    BY <2>4 DEF ToSet
  <2>6. QED
    BY <2>1, <2>4, <2>5
<1>7. new \in Seq(AnOutcome) /\ DOMAIN new = 1..c
  <2>1. new \in [1..c -> AnOutcome]
    BY <1>5, <1>6
  <2>2. QED
    BY <1>3, <2>1
<1>8. \A i \in 1..c : \A j \in DOMAIN Items(state, "score") : Items(state, "score")[j].claim # new[i].prediction
  <2>1. \A j \in DOMAIN Items(state, "score") : Items(state, "score")[j].claim \in scored
    BY DEF ToSet
  <2>2. QED
    BY <1>6, <2>1
<1>9. ASSUME NEW i \in 1..c, NEW j \in 1..c, new[i].prediction = new[j].prediction PROVE i = j
  <2>1. due[i] = due[j]
    BY <1>6, <1>9
  <2>2. predictions[Nth(P, i)] = predictions[Nth(P, j)] /\ Nth(P, i) \in DOMAIN predictions /\ Nth(P, j) \in DOMAIN predictions
    BY <1>1, <1>3, <2>1
  <2>3. SameKey(predictions[Nth(P, i)], predictions[Nth(P, j)])
    BY <2>2 DEF SameKey
  <2>4. Nth(P, i) = Nth(P, j)
    BY <2>2, <2>3 DEF Unique
  <2>5. QED
    BY <1>3, <2>4
<1>10. QED
  BY <1>4, <1>6, <1>7, <1>8, <1>9

LEMMA NewClaimsAre ==
  ASSUME predictions \in Seq(APrediction), NEW knownAt, NEW state
  PROVE  NewClaims(knownAt, state) \in Seq(APrediction)
<1>1. PICK P : /\ P = {i \in DOMAIN predictions : Known(predictions[i], knownAt)
                                                   /\ predictions[i] \notin ToSet(Items(state, "claim"))}
               /\ P \in SUBSET (DOMAIN predictions)
  OBVIOUS
<1>2. Those(predictions, P) \in Seq(APrediction)
  BY <1>1, ThoseAre
<1>3. QED
  BY <1>1, <1>2 DEF NewClaims

Follows(q, a, b, n, m) ==
  /\ DOMAIN q = 1 .. (n + m)
  /\ \A i \in 1..n : q[i] = a[i]
  /\ \A i \in (n + 1) .. (n + m) : q[i] = b[i - n] /\ i - n \in 1..m /\ i \in Int /\ i - n \in Int
LEMMA Joining ==
  ASSUME NEW S, NEW a \in Seq(S), NEW b \in Seq(S), NEW n \in Nat, NEW m \in Nat, Len(a) = n, Len(b) = m,
         NEW q, q = a \o b
  PROVE  q \in Seq(S) /\ Follows(q, a, b, n, m)
<1>2. /\ q \in Seq(S) /\ Len(q) = n + m
      /\ \A i \in 1 .. n + m : q[i] = IF i <= n THEN a[i] ELSE b[i - n]
  BY ConcatProperties
<1>3. DOMAIN q = 1 .. (n + m)
  BY <1>2
<1>4. \A i \in 1..n : i \in 1 .. (n + m) /\ i <= n
  OBVIOUS
<1>5. \A i \in (n + 1) .. (n + m) : i \in 1 .. (n + m) /\ ~(i <= n) /\ i - n \in 1..m /\ i \in Int /\ i - n \in Int
  OBVIOUS
<1>6. QED
  BY <1>2, <1>3, <1>4, <1>5 DEF Follows

\* Claims, then scores that nobody has counted.
LEMMA SyncOwes ==
  ASSUME NEW ev, Counted(ev), NEW claims \in Seq(APrediction), NEW scores \in Seq(AnOutcome),
         \A i \in DOMAIN scores : \A j \in DOMAIN Items(ev, "score") : Items(ev, "score")[j].claim # scores[i].prediction,
         \A i, j \in DOMAIN scores : scores[i].prediction = scores[j].prediction => i = j,
         NEW queue, queue = [i \in DOMAIN claims |-> Claim(claims[i])] \o [i \in DOMAIN scores |-> Score(scores[i])]
  PROVE  IsSeq(queue) /\ Owed(ev, queue) /\ (scores = <<>> => HasOnly(queue, {"claim"}))
<1>1. PICK n \in Nat, m \in Nat : n = Len(claims) /\ m = Len(scores) /\ DOMAIN claims = 1..n /\ DOMAIN scores = 1..m
  OBVIOUS
<1>2. PICK a, b : a = [i \in 1..n |-> Claim(claims[i])] /\ b = [i \in 1..m |-> Score(scores[i])]
  OBVIOUS
<1>3. PICK S : S = {Claim(claims[i]) : i \in 1..n} \cup {Score(scores[i]) : i \in 1..m}
  OBVIOUS
<1>4. a \in Seq(S) /\ b \in Seq(S) /\ Len(a) = n /\ Len(b) = m
  <2>1. a \in [1..n -> S] /\ b \in [1..m -> S]
    BY <1>2, <1>3
  <2>2. n \in Nat /\ m \in Nat
    BY <1>1
  <2>3. a \in Seq(S) /\ Len(a) = n
    BY <2>1, <2>2
  <2>4. b \in Seq(S) /\ Len(b) = m
    BY <2>1, <2>2
  <2>5. QED
    BY <2>3, <2>4
<1>5. queue = a \o b
  BY <1>1, <1>2
<1>6. /\ queue \in Seq(S) /\ DOMAIN queue = 1 .. (n + m)
      /\ \A i \in 1..n : queue[i] = a[i]
      /\ \A i \in (n + 1) .. (n + m) : queue[i] = b[i - n] /\ i - n \in 1..m /\ i \in Int /\ i - n \in Int
  <2>1. n \in Nat /\ m \in Nat
    BY <1>1
  <2>2. queue \in Seq(S) /\ Follows(queue, a, b, n, m)
    BY <1>4, <1>5, <2>1, Joining
  <2>3. QED
    BY <2>2 DEF Follows
<1>7. ASSUME NEW i \in 1..n PROVE queue[i].type = "claim"
  <2>1. queue[i] = a[i]
    BY <1>6
  <2>2. PICK e : e = claims[i]
    OBVIOUS
  <2>3. a[i] = Claim(e)
    BY <1>2, <2>2
  <2>4. Claim(e).type = "claim"
    BY DEF Claim, Event
  <2>5. QED
    BY <2>1, <2>3, <2>4
<1>8. ASSUME NEW i \in (n + 1) .. (n + m)
      PROVE  /\ i - n \in DOMAIN scores /\ scores[i - n] \in AnOutcome /\ i \in Int /\ i - n \in Int
             /\ queue[i].item = [claim |-> scores[i - n].prediction, resolved |-> scores[i - n].decided]
             /\ queue[i].type = "score"
  <2>1. queue[i] = b[i - n] /\ i - n \in 1..m /\ i \in Int /\ i - n \in Int
    BY <1>6
  <2>2. b[i - n] = Score(scores[i - n])
    BY <1>2, <2>1
  <2>3. queue[i] = Score(scores[i - n])
    BY <2>1, <2>2
  <2>4. scores[i - n] \in AnOutcome
    BY <1>1, <2>1
  <2>5. PICK o : o = scores[i - n]
    OBVIOUS
  <2>6. Score(o).type = "score" /\ Score(o).item = [claim |-> o.prediction, resolved |-> o.decided]
    BY DEF Score, Event
  <2>7. QED
    BY <1>1, <2>1, <2>3, <2>4, <2>5, <2>6
<1>9. \A i \in 1 .. (n + m) : i \in 1..n \/ i \in (n + 1) .. (n + m)
  <2>1. n \in Nat /\ m \in Nat
    BY <1>1
  <2>2. QED
    BY <2>1
<1>11. ASSUME NEW i \in DOMAIN queue
       PROVE  /\ queue[i].type \in {"claim", "score"}
              /\ queue[i].type = "score" =>
                   queue[i].item \in AScore /\ \A j \in DOMAIN Items(ev, "score") : Items(ev, "score")[j].claim # queue[i].item.claim
  <2>1. CASE i \in 1..n
    BY <1>7, <2>1
  <2>2. CASE i \in (n + 1) .. (n + m)
    <3>1. PICK o : o = scores[i - n]
      OBVIOUS
    <3>2. i - n \in DOMAIN scores /\ o \in AnOutcome /\ queue[i].item = [claim |-> o.prediction, resolved |-> o.decided]
      BY <1>8, <2>2, <3>1
    <3>3. queue[i].item \in AScore /\ queue[i].item.claim = o.prediction
      <4>1. PICK x : x = [claim |-> o.prediction, resolved |-> o.decided]
        OBVIOUS
      <4>2. x \in AScore /\ x.claim = o.prediction
        BY <3>2, <4>1 DEF AScore, AnOutcome
      <4>3. queue[i].item = x
        BY <3>2, <4>1
      <4>4. QED
        BY <4>2, <4>3
    <3>4. \A j \in DOMAIN Items(ev, "score") : Items(ev, "score")[j].claim # o.prediction
      BY <3>1, <3>2
    <3>5. QED
      BY <1>8, <2>2, <3>3, <3>4
  <2>3. QED
    BY <1>6, <1>9, <1>11, <2>1, <2>2
<1>12. ASSUME NEW i \in DOMAIN queue, NEW j \in DOMAIN queue, queue[i].type = "score", queue[j].type = "score",
              queue[i].item.claim = queue[j].item.claim
       PROVE  i = j
  <2>1. i \in (n + 1) .. (n + m) /\ j \in (n + 1) .. (n + m)
    BY <1>6, <1>7, <1>9, <1>12
  <2>2. PICK k, l : k = i - n /\ l = j - n
    OBVIOUS
  <2>3. /\ k \in DOMAIN scores /\ queue[i].item = [claim |-> scores[k].prediction, resolved |-> scores[k].decided]
        /\ l \in DOMAIN scores /\ queue[j].item = [claim |-> scores[l].prediction, resolved |-> scores[l].decided]
        /\ i \in Int /\ j \in Int
    BY <1>8, <2>1, <2>2
  <2>4. scores[k].prediction = scores[l].prediction
    <3>1. PICK x, y, ck, cl : x = queue[i].item /\ y = queue[j].item /\ ck = scores[k].prediction /\ cl = scores[l].prediction
      OBVIOUS
    <3>2. x.claim = ck /\ y.claim = cl
      BY <2>3, <3>1
    <3>3. x.claim = y.claim
      BY <1>12, <3>1
    <3>4. QED
      BY <3>1, <3>2, <3>3
  <2>5. k = l
    BY <2>3, <2>4
  <2>6. n \in Nat
    BY <1>1
  <2>7. QED
    BY <2>2, <2>3, <2>5, <2>6
<1>13. Owed(ev, queue)
  BY <1>11, <1>12 DEF Owed
<1>14. ASSUME scores = <<>> PROVE HasOnly(queue, {"claim"})
  <2>1. m = 0
    BY <1>1, <1>14
  <2>2. DOMAIN queue = 1..n
    BY <1>1, <1>6, <2>1
  <2>3. QED
    BY <1>7, <2>2 DEF HasOnly
<1>15. QED
  BY <1>6, <1>13, <1>14 DEF IsSeq

-----------------------------------------------------------------------------
(* The steps of a run, and what they leave of the memory.                   *)

\* One step of one run, the others being idle.
LEMMA LearnStep ==
  ASSUME LearnInv, LoopInv', NEW r \in Runners, run[r].stage # "idle", NEW n, Step(r, n),
         deaths' = deaths, overlapped' = overlapped, IsSeq(events'),
         behind' \in BOOLEAN, refused' \in BOOLEAN, behind' => refused',
         deaths = 0 => projected' = Len(events'),
         Undying => IF n.stage = "idle" THEN Counted(events') /\ Recalls(events', behind') ELSE Aims(events', behind', n)
  PROVE  LearnInv'
<1>1. run = [s \in Runners |-> run[s]] /\ run' = [run EXCEPT ![r] = n]
  BY DEF LearnInv, LoopInv, LoopTyped, Step
<1>2. run'[r] = n /\ \A s \in Runners \ {r} : run'[s] = run[s]
  BY <1>1
<1>3. ASSUME Undying' PROVE Learns'
  <2>1. Undying
    BY <1>3 DEF Undying
  <2>2. \A s \in Runners \ {r} : run'[s].stage = "idle"
    BY <1>2, <2>1 DEF LearnInv, LoopInv, AllDecided, OneRun, Undying
  <2>3. PICK ev, late : ev = events' /\ late = behind'
    OBVIOUS
  <2>4. IF n.stage = "idle" THEN Counted(ev) /\ Recalls(ev, late) ELSE Aims(ev, late, n)
    BY <2>1, <2>3
  <2>5. (\A s \in Runners : run'[s].stage = "idle") => Counted(ev) /\ Recalls(ev, late)
    BY <1>2, <2>4
  <2>6. \A s \in Runners : run'[s].stage # "idle" => Aims(ev, late, run'[s])
    BY <1>2, <2>2, <2>4
  <2>7. QED
    BY <2>3, <2>5, <2>6 DEF Learns
<1>4. QED
  BY <1>3 DEF LearnInv

\* What is known of the run that takes a step.
LEMMA RunAims ==
  ASSUME LearnInv, NEW r \in Runners, run[r].stage # "idle"
  PROVE  (Undying => Aims(events, behind, run[r])) /\ (Undisturbed => Aims(events, behind, run[r]) /\ ~behind)
BY DEF LearnInv, Learns, Undisturbed

\* A step that writes no event.
LEMMA SilentStep ==
  ASSUME LearnInv, LoopInv', NEW r \in Runners, run[r].stage # "idle", NEW n, Step(r, n),
         deaths' = deaths, overlapped' = overlapped, behind' = behind, refused' = refused, UNCHANGED runtimeVars,
         Undying => IF n.stage = "idle" THEN Counted(events) /\ Recalls(events, behind) ELSE Aims(events, behind, n)
  PROVE  LearnInv'
<1>1. events' = events /\ projected' = projected
  BY DEF runtimeVars
<1>2. /\ IsSeq(events') /\ (deaths = 0 => projected' = Len(events'))
      /\ behind' \in BOOLEAN /\ refused' \in BOOLEAN /\ (behind' => refused')
  BY <1>1 DEF LearnInv
<1>3. QED
  BY <1>1, <1>2, LearnStep

\* A run that stops where nothing is owed.
NothingOwed(p) ==
  p.stage \in Opening \/ (p.stage \in {"assemble"} \cup Closing /\ p.queue = <<>>)
LEMMA NothingIsOwed ==
  ASSUME NEW ev, NEW late, NEW p, Aims(ev, late, p), NothingOwed(p)
  PROVE  Counted(ev) /\ Recalls(ev, late)
<1>1. p.stage = "assemble" /\ p.queue = <<>> => Recalls(ev, late)
  <2>1. SUFFICES ASSUME p.stage = "assemble", p.queue = <<>>, NewMemory(ev, p.queue) PROVE FALSE
    BY DEF Aims
  <2>2. \A e : <<e>> # <<>>
    OBVIOUS
  <2>3. QED
    BY <2>1, <2>2 DEF NewMemory
<1>2. QED
  BY <1>1 DEF Aims, NothingOwed

LEMMA Stops ==
  ASSUME LearnInv, LoopInv', NEW r \in Runners, run[r].stage # "idle", Step(r, Idle), NothingOwed(run[r]),
         deaths' = deaths, overlapped' = overlapped, behind' = behind, refused' = refused, UNCHANGED runtimeVars
  PROVE  LearnInv'
<1>1. ASSUME Undying PROVE Counted(events) /\ Recalls(events, behind)
  BY <1>1, RunAims, NothingIsOwed
<1>2. QED
  BY <1>1, IdleIs, SilentStep

\* A step among the opening stages.
LEMMA Opens ==
  ASSUME LearnInv, LoopInv', NEW r \in Runners, run[r].stage \in Opening \ {"idle"}, NEW n, Step(r, n),
         n.stage \in Opening \ {"idle"}, n.queue = run[r].queue,
         deaths' = deaths, overlapped' = overlapped, behind' = behind, refused' = refused, UNCHANGED runtimeVars
  PROVE  LearnInv'
<1>1. ASSUME Undying PROVE Aims(events, behind, n)
  <2>1. Aims(events, behind, run[r])
    BY <1>1, RunAims
  <2>2. QED
    BY <2>1 DEF Aims, Opening, Closing
<1>2. QED
  BY <1>1, SilentStep DEF Opening

LEMMA OpeningSteps ==
  ASSUME LearnInv, LoopInv', NEW r \in Runners,
         NextCutoff(r) \/ Reuse(r) \/ Predict(r) \/ EndOfCutoffs(r) \/ Resolve(r)
  PROVE  LearnInv'
<1>1. PICK p : p = run[r]
  OBVIOUS
<1>2. Fields(p)
  BY <1>1, RunIs DEF LearnInv, ARun
<1>3. /\ p.stage \in {"cutoff", "resolve"} /\ deaths' = deaths /\ overlapped' = overlapped /\ behind' = behind /\ refused' = refused /\ UNCHANGED runtimeVars
  BY <1>1 DEF NextCutoff, Reuse, Predict, EndOfCutoffs, Resolve, Recording, Raise, counters
<1>4. Step(r, Idle) \/ \E n : Step(r, n) /\ n.stage \in {"cutoff", "resolve"} /\ n.queue = p.queue
  <2>1. CASE NextCutoff(r)
    <3>1. \/ Step(r, Idle) \/ Step(r, [p EXCEPT !.cutoffs = Tail(p.cutoffs)])
          \/ \E models, at, before, steady : Step(r, [p EXCEPT !.models = models, !.context = at, !.seen = before, !.steady = steady])
      BY <1>1, <2>1 DEF NextCutoff, Raise
    <3>2. PICK n : n = [p EXCEPT !.cutoffs = Tail(p.cutoffs)]
      OBVIOUS
    <3>3. n.stage = p.stage /\ n.queue = p.queue
      BY <1>2, <3>2 DEF Fields
    <3>4. ASSUME NEW models, NEW at, NEW before, NEW steady,
                 Step(r, [p EXCEPT !.models = models, !.context = at, !.seen = before, !.steady = steady])
          PROVE  \E m : Step(r, m) /\ m.stage \in {"cutoff", "resolve"} /\ m.queue = p.queue
      <4>1. PICK m : m = [p EXCEPT !.models = models, !.context = at, !.seen = before, !.steady = steady]
        OBVIOUS
      <4>2. m.stage = p.stage /\ m.queue = p.queue
        BY <1>2, <4>1 DEF Fields
      <4>3. QED
        BY <1>3, <3>4, <4>1, <4>2
    <3>5. CASE Step(r, [p EXCEPT !.cutoffs = Tail(p.cutoffs)])
      BY <1>3, <3>2, <3>3, <3>5
    <3>6. QED
      BY <3>1, <3>4, <3>5
  <2>2. CASE Reuse(r) \/ Predict(r)
    <3>1. PICK entry, under, n : n = Recorded(p, entry, under) /\ Step(r, n)
      BY <1>1, <2>2 DEF Reuse, Predict
    <3>2. n.stage = p.stage /\ n.queue = p.queue
      BY <1>2, <3>1 DEF Fields, Recorded
    <3>3. QED
      BY <1>3, <3>1, <3>2
  <2>3. CASE EndOfCutoffs(r)
    <3>1. PICK n : n = [p EXCEPT !.stage = "resolve"]
      OBVIOUS
    <3>2. n.stage = "resolve" /\ n.queue = p.queue
      BY <1>2, <3>1 DEF Fields
    <3>3. Step(r, Idle) \/ Step(r, n)
      BY <1>1, <2>3, <3>1 DEF EndOfCutoffs, Raise
    <3>4. QED
      BY <3>2, <3>3
  <2>4. CASE Resolve(r)
    <3>1. PICK n : n = [p EXCEPT !.items = Tail(p.items)]
      OBVIOUS
    <3>2. n.stage = p.stage /\ n.queue = p.queue
      BY <1>2, <3>1 DEF Fields
    <3>3. Step(r, Idle) \/ Step(r, n)
      BY <1>1, <2>4, <3>1 DEF Resolve, Raise
    <3>4. QED
      BY <1>3, <3>2, <3>3
  <2>5. QED
    BY <2>1, <2>2, <2>3, <2>4
<1>5. CASE Step(r, Idle)
  BY <1>1, <1>3, <1>5, Stops DEF NothingOwed, Opening
<1>6. CASE \E n : Step(r, n) /\ n.stage \in {"cutoff", "resolve"} /\ n.queue = p.queue
  BY <1>1, <1>3, <1>6, Opens DEF Opening
<1>7. QED
  BY <1>4, <1>5, <1>6

LEMMA StateIsJournal == ASSUME LearnInv, Undying \/ Undisturbed PROVE StateFile = events
<1>1. projected = Len(events) /\ IsSeq(events)
  BY DEF LearnInv, Undying, Undisturbed
<1>2. PICK S : events \in Seq(S)
  BY <1>1 DEF IsSeq
<1>3. SubSeq(events, 1, Len(events)) = events
  BY <1>2, SubSeqFull
<1>4. QED
  BY <1>1, <1>3 DEF StateFile

LEMMA SyncLearns == ASSUME LearnInv, LoopInv', NEW r \in Runners, Sync(r) PROVE LearnInv'
<1>1. PICK p : p = run[r]
  OBVIOUS
<1>2. /\ Fields(p) /\ p.stage = "resolve" /\ UNCHANGED runtimeVars /\ deaths' = deaths /\ overlapped' = overlapped /\ behind' = behind /\ refused' = refused
  BY <1>1, RunIs DEF LearnInv, ARun, Sync, Raise, counters
<1>3. PICK claims, scores : claims = NewClaims(p.batch.end, StateFile) /\ scores = NewScores(p.batch.end, StateFile)
  OBVIOUS
<1>4. PICK queue, n :
        /\ queue = [i \in DOMAIN claims |-> Claim(claims[i])] \o [i \in DOMAIN scores |-> Score(scores[i])]
        /\ n = [p EXCEPT !.stage = "rebuild", !.scored = (scores # <<>>), !.queue = queue]
  OBVIOUS
<1>5. Step(r, Idle) \/ Step(r, n)
  BY <1>1, <1>3, <1>4 DEF Sync, Raise
<1>6. CASE Step(r, Idle)
  BY <1>1, <1>2, <1>6, Stops DEF NothingOwed, Opening
<1>7. CASE Step(r, n)
  <2>1. n.stage = "rebuild" /\ n.queue = queue /\ n.scored = (scores # <<>>)
    BY <1>2, <1>4 DEF Fields
  <2>2. ASSUME Undying PROVE Aims(events, behind, n)
    <3>1. Aims(events, behind, p) /\ StateFile = events
      BY <1>1, <1>2, <2>2, RunAims, StateIsJournal
    <3>2. Counted(events) /\ Recalls(events, behind)
      BY <1>2, <3>1 DEF Aims, Opening
    <3>3. predictions \in Seq(APrediction) /\ outcomes \in Seq(AnOutcome) /\ Unique(predictions)
      BY <2>2 DEF LearnInv, LoopInv, LoopTyped, AllDecided, Undying
    <3>4. claims \in Seq(APrediction)
      BY <1>3, <3>3, NewClaimsAre
    <3>5. /\ scores \in Seq(AnOutcome)
          /\ \A i \in DOMAIN scores : \A j \in DOMAIN Items(events, "score") :
               Items(events, "score")[j].claim # scores[i].prediction
          /\ \A i, j \in DOMAIN scores : scores[i].prediction = scores[j].prediction => i = j
      BY <1>3, <3>1, <3>3, NewScoresAre
    <3>6. IsSeq(queue) /\ Owed(events, queue) /\ (scores = <<>> => HasOnly(queue, {"claim"}))
      BY <1>4, <3>2, <3>4, <3>5, SyncOwes
    <3>7. QED
      BY <2>1, <3>2, <3>6 DEF Aims, Opening, Closing
  <2>3. QED
    BY <1>1, <1>2, <1>7, <2>1, <2>2, SilentStep
<1>8. QED
  BY <1>5, <1>6, <1>7

\* What is left of a queue.
LEMMA QueueShrinks ==
  ASSUME NEW queue, IsSeq(queue), queue # <<>>, NEW types, HasOnly(queue, types)
  PROVE  IsSeq(Tail(queue)) /\ HasOnly(Tail(queue), types) /\ Head(queue).type \in types
<1>1. PICK S : queue \in Seq(S)
  BY DEF IsSeq
<1>2. PICK n \in Nat \ {0} : n = Len(queue)
  BY <1>1, EmptySeq
<1>3. /\ DOMAIN queue = 1..n /\ Head(queue) = queue[1] /\ Tail(queue) \in Seq(S) /\ DOMAIN Tail(queue) = 1 .. (n - 1)
      /\ \A i \in 1 .. (n - 1) : Tail(queue)[i] = queue[i + 1] /\ i + 1 \in 1..n
      /\ 1 \in 1..n
  BY <1>1, <1>2
<1>4. QED
  BY <1>3 DEF IsSeq, HasOnly

LEMMA AppendAims ==
  ASSUME NEW ev, IsSeq(ev), NEW p, Fields(p), p.queue # <<>>, NEW late \in BOOLEAN, Aims(ev, late, p),
         NEW ev2, ev2 = Append(ev, Head(p.queue)), NEW n, n = [p EXCEPT !.queue = Tail(p.queue)],
         NEW late2 \in BOOLEAN, late2 <=> late /\ Head(p.queue).type # "competence"
  PROVE  Aims(ev2, late2, n)
<1>1. n.stage = p.stage /\ n.queue = Tail(p.queue) /\ n.scored = p.scored
  BY DEF Fields
<1>2. PICK e, q, t : e = Head(p.queue) /\ q = p.queue /\ t = Tail(p.queue)
  OBVIOUS
<1>3. IsSeq(q) /\ q # <<>> /\ Counted(ev) /\ ev2 = Append(ev, e)
  BY <1>2 DEF Aims
<1>4. p.stage \in {"rebuild", "assemble"} \cup Closing
  BY DEF Aims
<1>5. CASE p.stage = "rebuild"
  <2>1. Owed(ev, q)
    BY <1>2, <1>5 DEF Aims
  <2>2. Counted(ev2) /\ Owed(ev2, t) /\ IsSeq(t)
    BY <1>2, <1>3, <2>1, ScoreJoins
  <2>3. ASSUME ~p.scored PROVE Recalls(ev2, late2) /\ HasOnly(t, {"claim"})
    <3>1. Recalls(ev, late) /\ HasOnly(q, {"claim"})
      BY <1>2, <1>5, <2>3 DEF Aims
    <3>2. HasOnly(t, {"claim"}) /\ e.type \in {"claim"}
      BY <1>2, <1>3, <3>1, QueueShrinks
    <3>3. e.type \notin {"score", "competence"}
      BY <3>2
    <3>4. QED
      BY <1>2, <1>3, <3>1, <3>2, <3>3, OtherEvents DEF Recalls
  <2>4. QED
    BY <1>1, <1>2, <1>5, <2>2, <2>3 DEF Aims, Opening, Closing
<1>6. CASE p.stage = "assemble"
  <2>1. NewMemory(ev, q)
    BY <1>2, <1>3, <1>6 DEF Aims
  <2>2. PICK at \in Int : q = <<Event("competence", at, Memory(at, Items(ev, "score")))>>
    BY <2>1 DEF NewMemory
  <2>3. PICK x : x = Event("competence", at, Memory(at, Items(ev, "score")))
    OBVIOUS
  <2>4. q = <<x>> /\ Head(q) = x /\ Tail(q) = <<>>
    BY <2>2, <2>3
  <2>5. ev2 = Append(ev, Event("competence", at, Memory(at, Items(ev, "score"))))
    BY <1>2, <2>3, <2>4
  <2>6. Counted(ev2) /\ Remembered(ev2)
    BY <1>3, <2>5, MemoryJoins
  <2>7. n.queue = <<>> /\ IsSeq(n.queue)
    <3>1. n.queue = <<>>
      BY <1>1, <1>2, <2>4
    <3>2. <<>> \in Seq({})
      BY EmptySeq
    <3>3. QED
      BY <3>1, <3>2 DEF IsSeq
  <2>8. QED
    BY <1>1, <1>6, <2>6, <2>7 DEF Aims, Recalls, Opening, Closing
<1>7. CASE p.stage \in Closing
  <2>1. Recalls(ev, late) /\ HasOnly(q, {"assembly", "synthesis"})
    BY <1>2, <1>7 DEF Aims
  <2>2. IsSeq(t) /\ HasOnly(t, {"assembly", "synthesis"}) /\ e.type \in {"assembly", "synthesis"}
    BY <1>2, <1>3, <2>1, QueueShrinks
  <2>3. e.type \notin {"score", "competence"}
    BY <2>2
  <2>4. Counted(ev2) /\ Recalls(ev2, late2)
    BY <1>2, <1>3, <2>1, <2>3, OtherEvents DEF Recalls
  <2>5. QED
    BY <1>1, <1>2, <1>7, <2>2, <2>4 DEF Aims, Opening, Closing
<1>8. QED
  BY <1>4, <1>5, <1>6, <1>7

LEMMA AppendNextLearns == ASSUME LearnInv, LoopInv', NEW r \in Runners, AppendNext(r) PROVE LearnInv'
<1>1. PICK p, n, ev, ev2 : p = run[r] /\ n = [p EXCEPT !.queue = Tail(p.queue)] /\ ev = events /\ ev2 = events'
  OBVIOUS
<1>2. /\ Fields(p) /\ p.stage # "idle" /\ p.queue # <<>> /\ Step(r, n) /\ ev2 = Append(ev, Head(p.queue))
      /\ projected' = Len(ev2) /\ deaths' = deaths /\ overlapped' = overlapped /\ refused' = refused
      /\ behind' = (behind /\ Head(p.queue).type # "competence")
  <2>1. p.queue # <<>> /\ Step(r, n) /\ ev2 = Append(ev, Head(p.queue)) /\ projected' = Len(ev2)
        /\ deaths' = deaths /\ overlapped' = overlapped /\ refused' = refused
        /\ behind' = (behind /\ Head(p.queue).type # "competence")
    BY <1>1 DEF AppendNext, Journal, counters
  <2>2. Fields(p) /\ p.stage # "idle"
    BY <1>1, <2>1, RunIs, IdleIs DEF LearnInv, ARun
  <2>3. QED
    BY <2>1, <2>2
<1>3. IsSeq(ev)
  BY <1>1 DEF LearnInv
<1>4. IsSeq(ev2)
  BY <1>2, <1>3, EventJoins
<1>7. PICK late \in BOOLEAN, late2 \in BOOLEAN :
        late = behind /\ late2 = behind' /\ (late2 <=> late /\ Head(p.queue).type # "competence")
  BY <1>2 DEF LearnInv
<1>8. behind' \in BOOLEAN /\ refused' \in BOOLEAN /\ (behind' => refused')
  BY <1>2, <1>7 DEF LearnInv
<1>5. ASSUME Undying PROVE n.stage # "idle" /\ Aims(ev2, late2, n)
  <2>0. late = behind
    BY <1>7
  <2>6. run[r].stage # "idle"
    BY <1>1, <1>2
  <2>5. Aims(events, behind, run[r])
    BY <1>5, <2>6, RunAims
  <2>1. Aims(ev, late, p)
    BY <1>1, <2>0, <2>5
  <2>2. Aims(ev2, late2, n)
    <3>1. IsSeq(ev) /\ Fields(p) /\ p.queue # <<>> /\ ev2 = Append(ev, Head(p.queue)) /\ n = [p EXCEPT !.queue = Tail(p.queue)]
      BY <1>1, <1>2, <1>3
    <3>2. late2 <=> late /\ Head(p.queue).type # "competence"
      BY <1>7
    <3>3. QED
      BY <2>1, <3>1, <3>2, AppendAims
  <2>3. n.stage = p.stage
    BY <1>1, <1>2 DEF Fields
  <2>4. QED
    BY <1>2, <2>2, <2>3
<1>6. QED
  BY <1>1, <1>2, <1>4, <1>5, <1>7, <1>8, LearnStep

LEMMA RebuildLearns == ASSUME LearnInv, LoopInv', NEW r \in Runners, Rebuild(r) PROVE LearnInv'
<1>1. PICK p, queue : /\ p = run[r]
                      /\ queue = IF Items(StateFile, "score") # <<>> /\ (p.scored \/ Competence(StateFile) = Absent)
                                 THEN <<Event("competence", p.batch.end, Memory(p.batch.end, Items(events, "score")))>>
                                 ELSE <<>>
  OBVIOUS
<1>2. PICK n : n = [p EXCEPT !.stage = "assemble", !.queue = queue]
  OBVIOUS
<1>3. /\ p.stage = "rebuild" /\ p.queue = <<>> /\ Step(r, n) /\ UNCHANGED runtimeVars
      /\ deaths' = deaths /\ overlapped' = overlapped /\ behind' = behind /\ refused' = refused
  BY <1>1, <1>2 DEF Rebuild, counters
<1>4. Fields(p) /\ p.batch \in Batches
  BY <1>1, <1>3, RunIs DEF LearnInv, ARun
<1>5. n.stage = "assemble" /\ n.queue = queue
  BY <1>2, <1>4 DEF Fields
<1>6. PICK at \in Int : at = p.batch.end
  BY <1>4, BatchesAreIntervals
<1>7. IsSeq(queue)
  <2>1. PICK x : x = Event("competence", at, Memory(at, Items(events, "score")))
    OBVIOUS
  <2>2. <<x>> \in Seq({x}) /\ <<>> \in Seq({x})
    BY EmptySeq
  <2>3. queue = <<x>> \/ queue = <<>>
    BY <1>1, <1>6, <2>1
  <2>4. QED
    BY <2>2, <2>3 DEF IsSeq
<1>8. ASSUME Undying PROVE Aims(events, behind, n)
  <2>1. Aims(events, behind, p) /\ StateFile = events
    BY <1>1, <1>3, <1>8, RunAims, StateIsJournal
  <2>2. Counted(events) /\ (p.scored \/ Recalls(events, behind))
    BY <1>3, <2>1 DEF Aims
  <2>3. CASE Items(events, "score") # <<>> /\ (p.scored \/ Competence(events) = Absent)
    <3>1. queue = <<Event("competence", at, Memory(at, Items(events, "score")))>>
      BY <1>1, <1>6, <2>1, <2>3
    <3>2. NewMemory(events, queue)
      BY <3>1 DEF NewMemory
    <3>3. QED
      BY <1>5, <1>7, <2>2, <3>2 DEF Aims, Opening, Closing
  <2>4. CASE ~(Items(events, "score") # <<>> /\ (p.scored \/ Competence(events) = Absent))
    <3>1. queue = <<>>
      BY <1>1, <2>1, <2>4
    <3>2. Recalls(events, behind)
      BY <2>2, <2>4 DEF Recalls, Remembered
    <3>3. QED
      BY <1>5, <1>7, <2>2, <3>1, <3>2 DEF Aims, Opening, Closing
  <2>5. QED
    BY <2>3, <2>4
<1>9. QED
  BY <1>1, <1>3, <1>5, <1>8, SilentStep

\* A stage after the memory is settled, with an event of its own or none.
LEMMA Concludes ==
  ASSUME LearnInv, LoopInv', NEW r \in Runners, run[r].stage # "idle", NothingOwed(run[r]),
         NEW n, Step(r, n), n.stage \in Closing, NEW e, e.type \in {"assembly", "synthesis"},
         n.queue = <<>> \/ n.queue = <<e>>,
         deaths' = deaths, overlapped' = overlapped, behind' = behind, refused' = refused, UNCHANGED runtimeVars
  PROVE  LearnInv'
<1>1. IsSeq(n.queue) /\ HasOnly(n.queue, {"assembly", "synthesis"})
  <2>1. <<e>> \in Seq({e}) /\ <<>> \in Seq({e}) /\ DOMAIN <<e>> = {1} /\ <<e>>[1] = e
    BY EmptySeq
  <2>2. \A i \in DOMAIN <<>> : FALSE
    OBVIOUS
  <2>3. QED
    BY <2>1, <2>2 DEF IsSeq, HasOnly
<1>2. ASSUME Undying PROVE Aims(events, behind, n)
  <2>1. Counted(events) /\ Recalls(events, behind)
    BY <1>2, RunAims, NothingIsOwed
  <2>2. QED
    BY <1>1, <2>1 DEF Aims, Opening, Closing
<1>3. QED
  BY <1>2, SilentStep DEF Closing

LEMMA AssembleLearns == ASSUME LearnInv, LoopInv', NEW r \in Runners, Assemble(r) PROVE LearnInv'
<1>1. PICK p : p = run[r]
  OBVIOUS
<1>2. /\ Fields(p) /\ p.stage = "assemble" /\ p.queue = <<>> /\ UNCHANGED runtimeVars
      /\ deaths' = deaths /\ overlapped' = overlapped /\ behind' = behind /\ refused' = refused
  BY <1>1, RunIs DEF LearnInv, ARun, Assemble, Raise, Return, counters
<1>3. PICK e : e = Event("assembly", p.batch.end, Envelope(p.question, p.batch.end, StateFile))
  OBVIOUS
<1>4. e.type = "assembly"
  BY <1>3 DEF Event
<1>5. \/ Step(r, Idle)
      \/ \E queue : Step(r, [p EXCEPT !.stage = "synthesize", !.queue = queue]) /\ (queue = <<>> \/ queue = <<e>>)
  BY <1>1, <1>3 DEF Assemble, Raise, Return
<1>6. NothingOwed(p)
  BY <1>2 DEF NothingOwed
<1>7. CASE Step(r, Idle)
  BY <1>1, <1>2, <1>6, <1>7, Stops
<1>8. ASSUME NEW queue, Step(r, [p EXCEPT !.stage = "synthesize", !.queue = queue]), queue = <<>> \/ queue = <<e>>
      PROVE  LearnInv'
  <2>1. PICK n : n = [p EXCEPT !.stage = "synthesize", !.queue = queue]
    OBVIOUS
  <2>2. n.stage = "synthesize" /\ n.queue = queue
    BY <1>2, <2>1 DEF Fields
  <2>3. /\ run[r].stage # "idle" /\ NothingOwed(run[r]) /\ Step(r, n) /\ n.stage \in Closing
        /\ e.type \in {"assembly", "synthesis"} /\ (n.queue = <<>> \/ n.queue = <<e>>)
    BY <1>1, <1>2, <1>4, <1>6, <1>8, <2>1, <2>2 DEF Closing
  <2>4. QED
    BY <1>2, <2>3, Concludes
<1>9. QED
  BY <1>5, <1>7, <1>8

LEMMA SynthesizeLearns == ASSUME LearnInv, LoopInv', NEW r \in Runners, Synthesize(r) PROVE LearnInv'
<1>1. PICK p : p = run[r]
  OBVIOUS
<1>2. /\ Fields(p) /\ p.stage = "synthesize" /\ p.queue = <<>> /\ UNCHANGED runtimeVars
      /\ deaths' = deaths /\ overlapped' = overlapped /\ behind' = behind /\ refused' = refused
  BY <1>1, RunIs DEF LearnInv, ARun, Synthesize, Return, counters
<1>3. PICK e : e = Event("synthesis", p.batch.end, Synthesis(p.batch.end))
  OBVIOUS
<1>4. e.type = "synthesis"
  BY <1>3 DEF Event
<1>5. Step(r, Idle) \/ Step(r, [p EXCEPT !.stage = "return", !.queue = <<e>>])
  BY <1>1, <1>3 DEF Synthesize, Return
<1>6. NothingOwed(p)
  BY <1>2 DEF NothingOwed, Closing
<1>7. CASE Step(r, Idle)
  BY <1>1, <1>2, <1>6, <1>7, Stops
<1>8. CASE Step(r, [p EXCEPT !.stage = "return", !.queue = <<e>>])
  <2>1. PICK n : n = [p EXCEPT !.stage = "return", !.queue = <<e>>]
    OBVIOUS
  <2>2. n.stage = "return" /\ n.queue = <<e>>
    BY <1>2, <2>1 DEF Fields
  <2>3. /\ run[r].stage # "idle" /\ NothingOwed(run[r]) /\ Step(r, n) /\ n.stage \in Closing
        /\ e.type \in {"assembly", "synthesis"} /\ (n.queue = <<>> \/ n.queue = <<e>>)
    BY <1>1, <1>2, <1>4, <1>6, <1>8, <2>1, <2>2 DEF Closing
  <2>4. QED
    BY <1>2, <2>3, Concludes
<1>9. QED
  BY <1>5, <1>7, <1>8

LEMMA FinishLearns == ASSUME LearnInv, LoopInv', NEW r \in Runners, Finish(r) PROVE LearnInv'
<1>1. /\ run[r].stage = "return" /\ run[r].queue = <<>> /\ Step(r, Idle) /\ UNCHANGED runtimeVars
      /\ deaths' = deaths /\ overlapped' = overlapped /\ behind' = behind /\ refused' = refused
  BY DEF Finish, Return
<1>2. NothingOwed(run[r])
  BY <1>1 DEF NothingOwed, Closing
<1>3. QED
  BY <1>1, <1>2, Stops

-----------------------------------------------------------------------------
(* The steps of the environment, and the whole.                             *)

LEMMA BeginLearns ==
  ASSUME LearnInv, LoopInv', NEW r \in Runners, NEW q \in Questions, NEW b \in Batches, Begin(r, q, b)
  PROVE  LearnInv'
<1>1. PICK n : n = [At("cutoff") EXCEPT !.question = q, !.batch = b, !.cutoffs = Cutoffs(q, b), !.steady = Steady(q, b)]
  OBVIOUS
<1>2. n.stage = "cutoff" /\ n.queue = <<>>
  <2>1. PICK p : p = At("cutoff")
    OBVIOUS
  <2>2. Fields(p) /\ p.stage = "cutoff" /\ p.queue = <<>>
    BY <2>1 DEF At, Fields
  <2>3. n = [p EXCEPT !.question = q, !.batch = b, !.cutoffs = Cutoffs(q, b), !.steady = Steady(q, b)]
    BY <1>1, <2>1
  <2>4. QED
    BY <2>2, <2>3 DEF Fields
<1>3. /\ run' = [s \in Runners |-> IF s = r THEN n ELSE [run[s] EXCEPT !.steady = "no"]]
      /\ events' = events /\ projected' = projected /\ deaths' = deaths /\ behind' = behind /\ refused' = refused
      /\ overlapped' = (overlapped \/ \E s \in Runners : run[s] # Idle)
  BY <1>1 DEF Begin, runtimeVars
<1>4. ASSUME Undying' PROVE Learns'
  <2>1. Undying /\ \A s \in Runners : run[s] = Idle
    BY <1>3, <1>4 DEF Undying, LearnInv, LoopInv, LoopTyped
  <2>2. Counted(events) /\ Recalls(events, behind)
    BY <2>1, IdleIs DEF LearnInv, Learns
  <2>3. run'[r] = n
    BY <1>3
  <2>4. \A s \in Runners \ {r} : run'[s].stage = "idle"
    <3>1. PICK p : p = Idle
      OBVIOUS
    <3>2. Fields(p) /\ p.stage = "idle"
      BY <3>1, IdleIs DEF ARun
    <3>3. [p EXCEPT !.steady = "no"].stage = "idle"
      BY <3>2 DEF Fields
    <3>4. \A s \in Runners \ {r} : run'[s] = [p EXCEPT !.steady = "no"]
      BY <1>3, <2>1, <3>1
    <3>5. QED
      BY <3>3, <3>4
  <2>5. PICK ev, late : ev = events' /\ ev = events /\ late = behind /\ late = behind'
    BY <1>3
  <2>6. IsSeq(<<>>)
    <3>1. <<>> \in Seq({})
      BY EmptySeq
    <3>2. QED
      BY <3>1 DEF IsSeq
  <2>7. Aims(ev, late, n)
    BY <1>2, <2>2, <2>5, <2>6 DEF Aims, Opening, Closing
  <2>8. n.stage # "idle"
    BY <1>2
  <2>9. \A s \in Runners : run'[s].stage # "idle" => Aims(ev, late, run'[s])
    BY <2>3, <2>4, <2>7
  <2>10. ~ \A s \in Runners : run'[s].stage = "idle"
    BY <2>3, <2>8
  <2>11. QED
    BY <2>5, <2>9, <2>10 DEF Learns
<1>5. QED
  BY <1>3, <1>4 DEF LearnInv

LEMMA ContextLearns == ASSUME LearnInv, LoopInv', ContextChanges PROVE LearnInv'
<1>1. /\ run' = [r \in Runners |-> [run[r] EXCEPT !.steady = "no"]]
      /\ events' = events /\ projected' = projected /\ deaths' = deaths /\ overlapped' = overlapped /\ behind' = behind /\ refused' = refused
  BY DEF ContextChanges, runtimeVars
<1>2. \A r \in Runners : run'[r].stage = run[r].stage /\ run'[r].queue = run[r].queue /\ run'[r].scored = run[r].scored
  <2>1. SUFFICES ASSUME NEW r \in Runners
                 PROVE  run'[r].stage = run[r].stage /\ run'[r].queue = run[r].queue /\ run'[r].scored = run[r].scored
    OBVIOUS
  <2>2. PICK p, n : p = run[r] /\ n = run'[r]
    OBVIOUS
  <2>3. Fields(p) /\ n = [p EXCEPT !.steady = "no"]
    BY <1>1, <2>2, RunIs DEF LearnInv, ARun
  <2>4. n.stage = p.stage /\ n.queue = p.queue /\ n.scored = p.scored
    BY <2>3 DEF Fields
  <2>5. QED
    BY <2>2, <2>4
<1>3. ASSUME Undying' PROVE Learns'
  <2>1. Learns
    BY <1>1, <1>3 DEF Undying, LearnInv
  <2>2. \A ev, late, p, n :
          Aims(ev, late, p) /\ n.stage = p.stage /\ n.queue = p.queue /\ n.scored = p.scored => Aims(ev, late, n)
    BY DEF Aims
  <2>3. PICK ev, late : ev = events' /\ ev = events /\ late = behind /\ late = behind'
    BY <1>1
  <2>4. \A r \in Runners : run'[r].stage # "idle" => Aims(ev, late, run'[r])
    BY <1>2, <2>1, <2>2, <2>3 DEF Learns
  <2>5. (\A r \in Runners : run'[r].stage = "idle") => Counted(ev) /\ Recalls(ev, late)
    BY <1>2, <2>1, <2>3 DEF Learns
  <2>6. QED
    BY <2>3, <2>4, <2>5 DEF Learns
<1>4. QED
  BY <1>1, <1>3 DEF LearnInv

\* After a death nothing is promised of the memory.
LEMMA DieLearns == ASSUME LearnInv, LoopInv', NEW r \in Runners, Die(r) PROVE LearnInv'
<1>1. deaths' = deaths + 1 /\ deaths \in Nat /\ IsSeq(events) /\ behind' = behind /\ refused' = refused
  BY DEF Die, LearnInv
<1>2. deaths' \in Nat /\ deaths' # 0
  BY <1>1
<1>3. UNCHANGED runtimeVars \/ \E e : JournalWithoutState(e)
  BY DEF Die
<1>4. IsSeq(events')
  <2>1. CASE UNCHANGED runtimeVars
    BY <1>1, <2>1 DEF runtimeVars
  <2>2. CASE \E e : JournalWithoutState(e)
    <3>1. PICK e, ev, ev2 : ev = events /\ ev2 = events' /\ ev2 = Append(ev, e)
      BY <2>2 DEF JournalWithoutState
    <3>2. IsSeq(ev2)
      BY <1>1, <3>1, EventJoins
    <3>3. QED
      BY <3>1, <3>2
  <2>3. QED
    BY <1>3, <2>1, <2>2
<1>5. QED
  BY <1>1, <1>2, <1>4 DEF LearnInv, Undying

\* A run refused the lease while it owes the memory leaves it behind.
LEMMA LeaseHeldLearns == ASSUME LearnInv, LoopInv', NEW r \in Runners, LeaseHeld(r) PROVE LearnInv'
<1>1. PICK p : p = run[r]
  OBVIOUS
<1>2. /\ Appending(p) /\ Step(r, Idle) /\ UNCHANGED runtimeVars /\ deaths' = deaths /\ overlapped' = overlapped
      /\ refused' = TRUE /\ behind' = (behind \/ (p.stage = "rebuild" /\ p.scored) \/ p.stage = "assemble")
  BY <1>1 DEF LeaseHeld
<1>3. run[r].stage # "idle"
  BY <1>1, <1>2, RunIs, IdleIs DEF Appending, LearnInv
<1>4. events' = events /\ projected' = projected
  BY <1>2 DEF runtimeVars
<1>5. PICK late \in BOOLEAN : late = behind
  BY DEF LearnInv
<1>0. PICK late2 : late2 = behind'
  OBVIOUS
<1>6. late2 \in BOOLEAN /\ (late2 <=> late \/ (p.stage = "rebuild" /\ p.scored) \/ p.stage = "assemble")
  BY <1>0, <1>2, <1>5
<1>7. ASSUME Undying PROVE Counted(events) /\ Recalls(events, late2)
  <2>1. Aims(events, late, p)
    BY <1>1, <1>3, <1>5, <1>7, RunAims
  <2>2. QED
    BY <1>6, <2>1 DEF Aims, Recalls, Opening, Closing
<1>8. IsSeq(events') /\ (deaths = 0 => projected' = Len(events')) /\ behind' \in BOOLEAN /\ refused' \in BOOLEAN /\ refused'
  BY <1>0, <1>2, <1>4, <1>5, <1>6 DEF LearnInv
<1>9. QED
  BY <1>2, <1>3, <1>4, <1>5, <1>7, <1>8, <1>0, IdleIs, LearnStep

LEMMA LearnStarts == ASSUME LoopInit PROVE LearnInv
<1>1. LoopInv
  BY LoopStarts
<1>2. /\ events = <<>> /\ projected = 0 /\ deaths = 0 /\ run = [r \in Runners |-> Idle]
      /\ behind = FALSE /\ refused = FALSE
  BY DEF LoopInit, RuntimeInit
<1>3. <<>> \in Seq({}) /\ <<>> \in Seq(AScore) /\ Len(<<>>) = 0
  BY EmptySeq
<1>4. IsSeq(events) /\ projected = Len(events)
  BY <1>2, <1>3 DEF IsSeq
<1>5. PICK none : none = Items(events, "score") /\ none = <<>>
  BY <1>2, NothingYet
<1>6. \A i \in DOMAIN none : FALSE
  BY <1>5
<1>7. Counted(events) /\ Remembered(events)
  BY <1>3, <1>5, <1>6 DEF Counted, Remembered
<1>8. \A r \in Runners : run[r].stage = "idle"
  BY <1>2, IdleIs
<1>9. Learns
  BY <1>7, <1>8 DEF Learns, Recalls
<1>10. deaths \in Nat
  BY <1>2
<1>11. QED
  BY <1>1, <1>2, <1>4, <1>9, <1>10 DEF LearnInv

LEMMA LearnKeeps == ASSUME LearnInv, [LoopNext]_loopVars PROVE LearnInv'
<1>1. LoopInv'
  BY LoopKeeps DEF LearnInv
<1>2. CASE UNCHANGED loopVars
  <2>1. UNCHANGED <<events, projected, run, deaths, overlapped, behind, refused>>
    BY <1>2 DEF loopVars, runtimeVars, counters
  <2>2. Undying' => Learns'
    BY <2>1 DEF LearnInv, Undying, Learns
  <2>3. QED
    BY <1>1, <2>1, <2>2 DEF LearnInv
<1>3. CASE ContextChanges
  BY <1>1, <1>3, ContextLearns
<1>4. CASE \E r \in Runners, q \in Questions, b \in Batches : Begin(r, q, b)
  BY <1>1, <1>4, BeginLearns
<1>5. ASSUME NEW r \in Runners,
             \/ NextCutoff(r) \/ Reuse(r) \/ Predict(r) \/ EndOfCutoffs(r) \/ Resolve(r)
             \/ Sync(r) \/ AppendNext(r) \/ Rebuild(r) \/ Assemble(r) \/ Synthesize(r) \/ Finish(r)
             \/ LeaseHeld(r) \/ Die(r)
      PROVE  LearnInv'
  BY <1>1, <1>5, OpeningSteps, SyncLearns, AppendNextLearns, RebuildLearns, AssembleLearns, SynthesizeLearns,
     FinishLearns, LeaseHeldLearns, DieLearns
<1>6. QED
  BY <1>2, <1>3, <1>4, <1>5 DEF LoopNext

\* At rest no claim is scored twice, and unless a refused run left it behind
\* the competence memory counts every score, for any batches, models, number
\* of runners and of runs, refusals of the lease and contexts that change.
THEOREM TheMemoryCountsOnce == LoopSpec => []CompetenceCountsOnce
<1>1. LearnInv => CompetenceCountsOnce
  <2>1. SUFFICES ASSUME LearnInv, \A r \in Runners : run[r] = Idle, deaths = 0, ~overlapped
                 PROVE  /\ \A i, j \in DOMAIN Items(events, "score") :
                             Items(events, "score")[i].claim = Items(events, "score")[j].claim => i = j
                        /\ Items(events, "score") # <<>> /\ ~behind =>
                             Competence(events) # Absent /\ Competence(events).scores = Items(events, "score")
    BY DEF CompetenceCountsOnce
  <2>2. Counted(events) /\ Recalls(events, behind)
    BY <2>1, IdleIs DEF LearnInv, Undying, Learns
  <2>3. QED
    BY <2>2 DEF Counted, Recalls, Remembered
<1>2. LoopInit => LearnInv
  BY LearnStarts
<1>3. LearnInv /\ [LoopNext]_loopVars => LearnInv'
  BY LearnKeeps
<1>4. QED
  BY <1>1, <1>2, <1>3, PTL DEF LoopSpec

LEMMA Inductive ==
  ASSUME NEW S, 0 \in S, \A n \in Nat : n \in S => n + 1 \in S
  PROVE  Nat \subseteq S
<1>1. SUFFICES ASSUME Nat \ S # {} PROVE FALSE
  OBVIOUS
<1>2. PICK m \in Nat \ S : \A k \in Nat \ S : ~ (k < m)
  BY <1>1, FirstNumber
<1>3. m # 0 /\ m - 1 \in Nat /\ m - 1 < m
  BY <1>2
<1>4. m - 1 \in S
  BY <1>2, <1>3
<1>5. (m - 1) + 1 = m
  BY <1>2
<1>6. QED
  BY <1>2, <1>3, <1>4, <1>5

-----------------------------------------------------------------------------
(* What a rerun rests on.                                                   *)

\* A question over a batch that has no cutoff to stop at.
Plain(q, b) == q = "MAGNITUDE" \/ \A c \in ToSet(Cutoffs(q, b)) : c \notin b.absent
Untouched(pr, q, b) == \A e \in ToSet(pr) : ~ (e.question = q /\ e.cutoff \in Examined(q, b))
Settled(out, b, e) == OutcomesFor(out, e) # {} \/ Decide(b, e).status = "PENDING"

\* Where a run is: what it has passed was there, and its items are of cutoffs
\* it examines.
Apart(s) == \A i, j \in DOMAIN s : s[i] = s[j] => i = j
OnItsWay(p) ==
  p.stage # "idle" =>
    /\ ToSet(p.cutoffs) \subseteq ToSet(Cutoffs(p.question, p.batch)) /\ Apart(p.cutoffs)
    /\ p.question = "MAGNITUDE" \/
         \A c \in ToSet(Cutoffs(p.question, p.batch)) : c \in p.batch.absent => c \in ToSet(p.cutoffs)
    /\ p.models # <<>> => Head(p.cutoffs) \in Examined(p.question, p.batch)
    /\ \A i \in DOMAIN p.items : p.items[i].prediction.cutoff \in Examined(p.question, p.batch)
Made(pr) == \A e \in ToSet(pr) : \E b \in Batches : e.cutoff \in Examined(e.question, b)
WayInv ==
  /\ LearnInv /\ Made(predictions) /\ \A r \in Runners : OnItsWay(run[r])
  /\ \A q \in Questions, b \in Batches : <<q, b>> \in completed => Plain(q, b)
  /\ deaths = 0 => predictionState = Len(predictions) /\ outcomeState = Len(outcomes)

\* Of Magnitude and of Liquidity a batch holds all or nothing at rest; a run
\* that began with nothing resolves what it makes itself.
InSpan(b, c) == b.start < c /\ c < b.end
ByItsBatch(out) == \A o \in ToSet(out), b \in Batches : InSpan(b, o.prediction.cutoff) => o = Decide(b, o.prediction)
Fresh(pr, p) ==
  /\ \A i \in DOMAIN p.items : p.items[i].under = p.items[i].prediction.context
  /\ \A e \in ToSet(pr) :
       e.question = p.question /\ e.cutoff \in ToSet(p.cutoffs) /\ e.cutoff \in Examined(p.question, p.batch) =>
         p.models # <<>> /\ e.cutoff = Head(p.cutoffs)
  /\ p.models # <<>> => \A x \in p.seen : x[1] # Head(p.cutoffs)
On(p, q, b) == p.stage # "idle" /\ p.question = q /\ p.batch = b
Whole(pr, out, q, b) ==
  \/ Complete(pr, out, q, b)
  \/ Untouched(pr, q, b) /\ \A r \in Runners : ~On(run[r], q, b)
  \/ \E r \in Runners : On(run[r], q, b) /\ Fresh(pr, run[r])
WholeInv ==
  Undisturbed =>
    /\ ByItsBatch(outcomes)
    /\ \A q \in {"MAGNITUDE", "LIQUIDITY"}, b \in Batches : Plain(q, b) => Whole(predictions, outcomes, q, b)

\* What the sync of a batch leaves undone: nothing but its queue.
Claimed(ev, queue, e) ==
  \/ e \in ToSet(Items(ev, "claim"))
  \/ \E j \in DOMAIN queue : queue[j].type = "claim" /\ queue[j].item = e
Scored(ev, queue, e) ==
  \/ \E s \in ToSet(Items(ev, "score")) : s.claim = e
  \/ \E j \in DOMAIN queue : queue[j].type = "score" /\ queue[j].item.claim = e
Synced(pr, out, ev, queue, t) ==
  \A e \in ToSet(pr) : Known(e, t) =>
    /\ Claimed(ev, queue, e)
    /\ (\E o \in ToSet(out) : o.prediction = e /\ o.status = "RESOLVED" /\ o.decided <= t) => Scored(ev, queue, e)

Assembled(q, t) == Envelope(q, t, events) \in ToSet(Items(events, "assembly"))
Concluded(t) == Conflict(t) \/ Synthesis(t) \in ToSet(Items(events, "synthesis"))
Rested(q, b) ==
  /\ Synced(predictions, outcomes, events, <<>>, b.end)
  /\ Blocked(q, b.end, events) \/ (Assembled(q, b.end) /\ Concluded(b.end))
\* A run that does again what was done last has nothing to decide or to sync.
Redo(p) ==
  /\ <<p.question, p.batch>> \in completed /\ Synced(predictions, outcomes, events, <<>>, p.batch.end)
  /\ (p.stage \notin Closing => p.queue = <<>>) /\ (p.stage = "rebuild" => ~p.scored)
  /\ \A i \in DOMAIN p.items : Settled(outcomes, p.batch, p.items[i].prediction)
  /\ p.models # <<>> => \A m \in ToSet(p.models) : <<Head(p.cutoffs), m>> \in p.seen
\* And while no context of its own is the newest, neither has what follows.
Again(p) ==
  /\ Redo(p) /\ Rested(p.question, p.batch) /\ p.queue = <<>> /\ p.stage # "return"
  /\ p.stage = "synthesize" => Assembled(p.question, p.batch.end) /\ Concluded(p.batch.end)
Redoes(p) == Redo(p) /\ (p.steady = "again" => Again(p))
Holds(p) ==
  LET t == p.batch.end IN
  /\ p.stage = "rebuild" => Synced(predictions, outcomes, events, p.queue, t)
  /\ p.stage \in {"assemble"} \cup Closing => Synced(predictions, outcomes, events, <<>>, t)
  /\ p.steady # "no" /\ p.stage = "synthesize" =>
       \/ p.queue = <<>> /\ Assembled(p.question, t)
       \/ p.queue = <<Event("assembly", t, Envelope(p.question, t, events))>>
  /\ p.steady # "no" /\ p.stage = "return" =>
       /\ Assembled(p.question, t)
       /\ \/ p.queue = <<>> /\ Concluded(t)
          \/ p.queue = <<Event("synthesis", t, Synthesis(t))>>
RestInv ==
  Undisturbed =>
    /\ \A r \in Runners : run[r].stage # "idle" => Holds(run[r])
    /\ \A q \in Questions, b \in Batches : latest = <<q, b>> =>
         <<q, b>> \in completed /\ Rested(q, b) /\ \A r \in Runners : run[r].stage = "idle"
AgainInv == Undisturbed => \A r \in Runners : run[r].steady \in {"again", "moved"} => Redoes(run[r])

LEMMA CutoffsAre ==
  ASSUME NEW q \in Questions, NEW b \in Batches
  PROVE  /\ Cutoffs(q, b) \in Seq(Int) /\ Apart(Cutoffs(q, b))
         /\ \A c \in ToSet(Cutoffs(q, b)) : c \in Int /\ InSpan(b, c)
         /\ ToSet(Cutoffs(q, b)) \subseteq ToSet(Cutoffs("DIRECTION", b))
<1>1. b.start \in Int /\ b.end \in Int
  BY BatchesAreIntervals
<1>2. PICK first \in Int, room \in Int : first = b.start + 5 /\ room = b.end - 1 - first
  BY <1>1
<1>3. ASSUME NEW k \in Questions
      PROVE  \E spacing \in {5, 15}, top \in Nat :
               /\ spacing = Horizon[k] /\ top = (IF room < 0 THEN 0 ELSE room \div spacing)
               /\ Cutoffs(k, b) = [i \in 1..top |-> first + (i - 1) * spacing]
  <2>1. PICK spacing \in {5, 15} : spacing = Horizon[k]
    BY DEF Questions, Horizon
  <2>2. PICK top \in Nat : top = IF room < 0 THEN 0 ELSE room \div spacing
    BY <1>2, <2>1
  <2>3. Cutoffs(k, b) = [i \in 1..top |-> first + (i - 1) * spacing]
    BY <1>2, <2>1, <2>2 DEF Cutoffs, Lookback, Lag
  <2>4. QED
    BY <2>1, <2>2, <2>3
<1>4. PICK spacing \in {5, 15}, top \in Nat :
        /\ spacing = Horizon[q] /\ top = (IF room < 0 THEN 0 ELSE room \div spacing)
        /\ Cutoffs(q, b) = [i \in 1..top |-> first + (i - 1) * spacing]
  BY <1>3
<1>0. top \in Nat /\ spacing \in {5, 15}
  BY <1>4
<1>5. PICK s : s = Cutoffs(q, b)
  OBVIOUS
<1>6. DOMAIN s = 1..top /\ \A i \in 1..top : s[i] = first + (i - 1) * spacing /\ s[i] \in Int
  BY <1>2, <1>4, <1>5
<1>7. s \in Seq(Int)
  <2>1. s \in [1..top -> Int]
    BY <1>4, <1>5, <1>6
  <2>2. QED
    BY <1>0, <2>1
<1>8. Apart(s)
  <2>1. SUFFICES ASSUME NEW i \in 1..top, NEW j \in 1..top, s[i] = s[j] PROVE i = j
    BY <1>6 DEF Apart
  <2>2. first + (i - 1) * spacing = first + (j - 1) * spacing
    BY <1>6, <2>1
  <2>3. i \in Int /\ j \in Int /\ first \in Int
    BY <1>2, <2>1
  <2>4. CASE spacing = 5
    BY <2>2, <2>3, <2>4
  <2>5. CASE spacing = 15
    BY <2>2, <2>3, <2>5
  <2>6. QED
    BY <1>0, <2>4, <2>5
<1>9. ASSUME NEW i \in 1..top PROVE InSpan(b, s[i])
  <2>1. room >= 0 /\ i <= room \div spacing /\ i >= 1 /\ i \in Int
    BY <1>4, <1>9
  <2>2. i * spacing <= room
    <3>1. CASE spacing = 5
      BY <1>2, <2>1, <3>1
    <3>2. CASE spacing = 15
      BY <1>2, <2>1, <3>2
    <3>3. QED
      BY <1>4, <3>1, <3>2
  <2>3. s[i] = first + (i - 1) * spacing
    BY <1>6, <1>9
  <2>4. b.start < s[i] /\ s[i] < b.end
    <3>1. CASE spacing = 5
      BY <1>1, <1>2, <2>1, <2>2, <2>3, <3>1
    <3>2. CASE spacing = 15
      BY <1>1, <1>2, <2>1, <2>2, <2>3, <3>2
    <3>3. QED
      BY <1>0, <3>1, <3>2
  <2>5. QED
    BY <2>4 DEF InSpan
<1>10. \A c \in ToSet(s) : \E i \in 1..top : c = s[i]
  BY <1>6 DEF ToSet
<1>11. ToSet(s) \subseteq ToSet(Cutoffs("DIRECTION", b))
  <2>1. "DIRECTION" \in Questions /\ Horizon["DIRECTION"] = 5
    BY DEF Questions, Horizon
  <2>2. PICK top2 \in Nat : /\ top2 = (IF room < 0 THEN 0 ELSE room \div 5)
                            /\ Cutoffs("DIRECTION", b) = [i \in 1..top2 |-> first + (i - 1) * 5]
    BY <1>3, <2>1
  <2>3. ASSUME NEW i \in 1..top PROVE \E j \in 1..top2 : s[i] = first + (j - 1) * 5
    <3>1. room >= 0 /\ i <= room \div spacing /\ i >= 1 /\ i \in Int
      BY <1>4, <2>3
    <3>2. CASE spacing = 5
      BY <1>4, <1>6, <2>2, <3>1, <3>2
    <3>3. CASE spacing = 15
      <4>1. 3 * (i - 1) + 1 \in 1..top2
        BY <1>2, <2>2, <3>1, <3>3
      <4>2. s[i] = first + (i - 1) * 15
        BY <1>6, <2>3, <3>3
      <4>3. PICK j \in Int : j = 3 * (i - 1) + 1
        BY <3>1
      <4>4. (i - 1) * 15 = (j - 1) * 5
        BY <3>1, <4>3
      <4>5. j \in 1..top2 /\ s[i] = first + (j - 1) * 5
        BY <4>1, <4>2, <4>3, <4>4
      <4>6. QED
        BY <4>5
    <3>4. QED
      BY <1>4, <3>2, <3>3
  <2>4. PICK d : d = Cutoffs("DIRECTION", b)
    OBVIOUS
  <2>5. DOMAIN d = 1..top2 /\ \A j \in 1..top2 : d[j] = first + (j - 1) * 5
    BY <2>2, <2>4
  <2>6. ASSUME NEW c \in ToSet(s) PROVE c \in ToSet(d)
    <3>1. PICK i \in 1..top : c = s[i]
      BY <1>10, <2>6
    <3>2. PICK j \in 1..top2 : s[i] = first + (j - 1) * 5
      BY <2>3
    <3>3. j \in DOMAIN d /\ d[j] = c
      BY <2>5, <3>1, <3>2
    <3>4. QED
      BY <3>3 DEF ToSet
  <2>7. QED
    BY <2>4, <2>6
<1>12. QED
  BY <1>5, <1>6, <1>7, <1>8, <1>9, <1>10, <1>11

\* A cutoff is in the span of one batch only.
LEMMA OneBatch ==
  ASSUME NEW b \in Batches, NEW d \in Batches, NEW c \in Int, InSpan(b, c), InSpan(d, c)
  PROVE  b = d
<1>1. b.start \in Int /\ b.end \in Int /\ d.start \in Int /\ d.end \in Int
  BY BatchesAreIntervals
<1>2. b = d \/ b.end <= d.start \/ d.end <= b.start
  BY BatchesAreDisjoint
<1>3. QED
  BY <1>1, <1>2 DEF InSpan

LEMMA ExaminedIs ==
  ASSUME NEW q \in Questions, NEW b \in Batches, NEW c \in Examined(q, b)
  PROVE  c \in Int /\ InSpan(b, c) /\ c \in ToSet(Cutoffs(q, b)) /\ c \notin b.absent
<1>1. c \in ToSet(Cutoffs(q, b)) /\ c \notin b.absent
  BY DEF Examined
<1>2. QED
  BY <1>1, CutoffsAre

-----------------------------------------------------------------------------
(* How a run moves.                                                         *)

\* The entry a rerun finds is the first of that cutoff and model, for Direction
\* of any question.
Rivals(q, c, m) == {i \in DOMAIN predictions : predictions[i].cutoff = c /\ predictions[i].model = m /\ (q # "DIRECTION" => predictions[i].question = q)}
LEMMA MatchFirst ==
  ASSUME predictions \in Seq(APrediction), NEW q \in Questions, NEW c, NEW m, Found(predictions, q, c, m)
  PROVE  \E i \in Rivals(q, c, m) : Match(q, c, m) = predictions[i] /\ \A j \in Rivals(q, c, m) : ~ (j < i)
<1>1. PICK size \in Nat : size = Len(predictions) /\ DOMAIN predictions = 1..size
  OBVIOUS
<1>2. PICK R : R = Rivals(q, c, m) /\ R = Matches(q, c, m)
  BY DEF Rivals, Matches
<1>3. PICK e \in ToSet(predictions) : e.question = q /\ e.cutoff = c /\ e.model = m
  BY DEF Found
<1>4. PICK f \in DOMAIN predictions : e = predictions[f]
  BY DEF ToSet
<1>5. f \in R /\ R \in SUBSET (1..size)
  BY <1>1, <1>2, <1>3, <1>4 DEF Rivals
<1>6. PICK i \in R : \A j \in R : i <= j
  <2>1. PICK i \in R : \A j \in R : ~ (j < i)
    BY <1>1, <1>5, FirstNumber
  <2>2. QED
    BY <1>1, <1>5, <2>1
<1>7. PICK k : k = CHOOSE x \in R : \A j \in R : x <= j
  OBVIOUS
<1>8. k \in R /\ \A j \in R : k <= j
  BY <1>6, <1>7
<1>9. Match(q, c, m) = predictions[k]
  BY <1>2, <1>7 DEF Match
<1>10. \A j \in R : ~ (j < k)
  BY <1>1, <1>5, <1>8
<1>11. QED
  BY <1>2, <1>8, <1>9, <1>10

LEMMA RecordedItems ==
  ASSUME NEW p, AtModel(p), NEW entry \in APrediction, NEW under \in Int, NEW n, n = Recorded(p, entry, under)
  PROVE  /\ n.steady = p.steady /\ n.queue = p.queue /\ n.scored = p.scored
         /\ \A i \in DOMAIN n.items :
              \/ n.items[i].prediction = entry /\ n.items[i].under = under
              \/ \E j \in DOMAIN p.items : n.items[i] = p.items[j]
<1>1. Fields(p) /\ p.items \in Seq(AnItem)
  BY DEF AtModel, ARun
<1>2. n = [p EXCEPT !.items = Append(p.items, [prediction |-> entry, under |-> under]), !.models = Tail(p.models),
                    !.cutoffs = IF Len(p.models) = 1 THEN Tail(p.cutoffs) ELSE p.cutoffs]
  BY DEF Recorded
<1>3. n.steady = p.steady /\ n.queue = p.queue /\ n.scored = p.scored
      /\ n.items = Append(p.items, [prediction |-> entry, under |-> under])
  BY <1>1, <1>2 DEF Fields
<1>4. PICK item, s : item = [prediction |-> entry, under |-> under] /\ s = p.items
  OBVIOUS
<1>5. item \in AnItem /\ item.prediction = entry /\ item.under = under /\ s \in Seq(AnItem)
  BY <1>1, <1>4 DEF AnItem
<1>6. \A i \in DOMAIN Append(s, item) : Append(s, item)[i] = item \/ \E j \in DOMAIN s : Append(s, item)[i] = s[j]
  <2>1. /\ DOMAIN Append(s, item) = 1 .. (Len(s) + 1) /\ Append(s, item)[Len(s) + 1] = item /\ DOMAIN s = 1..Len(s) /\ Len(s) \in Nat
        /\ \A i \in 1..Len(s) : Append(s, item)[i] = s[i]
    BY <1>5
  <2>2. \A i \in 1 .. (Len(s) + 1) : i \in 1..Len(s) \/ i = Len(s) + 1
    BY <2>1
  <2>3. QED
    BY <2>1, <2>2
<1>7. QED
  BY <1>3, <1>4, <1>5, <1>6

LEMMA ReuseMoves ==
  ASSUME LoopInv, NEW r \in Runners, Reuse(r)
  PROVE  /\ AtModel(run[r]) /\ Reuses(run[r]) /\ run[r].stage # "idle" /\ UNCHANGED <<runtimeVars, journals, newest, counters>>
         /\ Found(predictions, run[r].question, Head(run[r].cutoffs), Head(run[r].models))
         /\ \E entry \in APrediction, under \in Int : \E n :
              /\ entry = Match(run[r].question, Head(run[r].cutoffs), Head(run[r].models))
              /\ entry.cutoff = Head(run[r].cutoffs) /\ entry.model = Head(run[r].models)
              /\ n = Recorded(run[r], entry, under) /\ Step(r, n)
<1>1. PICK p : p = run[r]
  OBVIOUS
<1>2. PICK entry, under, n :
        /\ entry = Match(p.question, Head(p.cutoffs), Head(p.models))
        /\ under = IF p.question = "DIRECTION" THEN entry.context ELSE p.context
        /\ n = Recorded(p, entry, under) /\ Step(r, n)
  BY <1>1 DEF Reuse, market
<1>3. AtModel(p) /\ Reuses(p) /\ p.stage # "idle" /\ StillThere(predictions, p) /\ UNCHANGED <<runtimeVars, journals, newest, counters>>
  BY <1>1, RunIs DEF Reuse, market, Recording, AtModel
<1>4. predictions \in Seq(APrediction)
  BY DEF LoopInv, LoopTyped
<1>5. p.question \in Questions /\ p.context \in Int
  BY <1>3, AtModelHas DEF AtModel, ARun
<1>6. Found(predictions, p.question, Head(p.cutoffs), Head(p.models))
  <2>1. PICK x \in p.seen : x = <<Head(p.cutoffs), Head(p.models)>>
    BY <1>3 DEF Reuses
  <2>2. Found(predictions, p.question, x[1], x[2])
    BY <1>3 DEF StillThere
  <2>3. QED
    BY <2>1, <2>2
<1>7. PICK i \in Rivals(p.question, Head(p.cutoffs), Head(p.models)) : entry = predictions[i]
  BY <1>2, <1>4, <1>5, <1>6, MatchFirst
<1>8. entry \in APrediction /\ entry.cutoff = Head(p.cutoffs) /\ entry.model = Head(p.models)
  BY <1>4, <1>7 DEF Rivals
<1>9. under \in Int
  BY <1>2, <1>5, <1>8 DEF APrediction
<1>10. QED
  BY <1>1, <1>2, <1>3, <1>6, <1>8, <1>9

LEMMA PredictMoves ==
  ASSUME LoopInv, NEW r \in Runners, Predict(r)
  PROVE  /\ AtModel(run[r]) /\ ~Reuses(run[r]) /\ run[r].stage # "idle"
         /\ UNCHANGED <<runtimeVars, outcomes, outcomeState, newest, counters>>
         /\ AppendPrediction(Prediction(run[r])) /\ Joins(predictions, Prediction(run[r]), predictions')
         /\ ToSet(predictions') = ToSet(predictions) \cup {Prediction(run[r])}
         /\ \E entry \in APrediction, under \in Int : \E n :
              /\ entry = Prediction(run[r]) /\ under = run[r].context /\ under = entry.context
              /\ entry.cutoff = Head(run[r].cutoffs) /\ entry.model = Head(run[r].models) /\ entry.question = run[r].question
              /\ n = Recorded(run[r], entry, under) /\ Step(r, n)
<1>1. PICK p : p = run[r]
  OBVIOUS
<1>2. AtModel(p) /\ ~Reuses(p) /\ p.stage # "idle"
      /\ UNCHANGED <<runtimeVars, outcomes, outcomeState, newest, counters>> /\ AppendPrediction(Prediction(p))
  BY <1>1, RunIs DEF Predict, market, Recording, AtModel
<1>3. PICK n : n = Recorded(p, Prediction(p), p.context) /\ Step(r, n)
  BY <1>1 DEF Predict, market
<1>4. Joins(predictions, Prediction(p), predictions')
  BY <1>2 DEF AppendPrediction, Joins
<1>5. ToSet(predictions') = ToSet(predictions) \cup {Prediction(p)}
  BY <1>1, <1>2, <1>4, PredictionWritten
<1>6. PICK entry \in APrediction, under \in Int : entry = Prediction(p) /\ under = p.context
  BY <1>2, AtModelHas DEF AtModel, ARun
<1>7. entry.context = under /\ entry.cutoff = Head(p.cutoffs) /\ entry.model = Head(p.models) /\ entry.question = p.question
  BY <1>6 DEF Prediction
<1>8. n = Recorded(p, entry, under)
  BY <1>3, <1>6
<1>9. QED
  BY <1>1, <1>2, <1>3, <1>4, <1>5, <1>6, <1>7, <1>8

\* The stages after the last item: the work stays, or the run is over.
LaterMove(r) == Sync(r) \/ AppendNext(r) \/ Rebuild(r) \/ Assemble(r) \/ Synthesize(r) \/ Finish(r)
Goes(p, n) == n.stage # "idle" /\ SameWork(p, n) /\ n.steady = p.steady
Over(p) == p.stage \notin {"idle", "cutoff"} /\ p.items = <<>>
LEMMA Going ==
  ASSUME NEW p, Fields(p), p.stage # "idle", NEW n, NEW stage, NEW queue, stage # "idle",
         n = [p EXCEPT !.stage = stage, !.queue = queue]
  PROVE  Goes(p, n)
<1>1. /\ n.stage = stage /\ n.question = p.question /\ n.batch = p.batch /\ n.cutoffs = p.cutoffs
      /\ n.models = p.models /\ n.seen = p.seen /\ n.context = p.context /\ n.items = p.items /\ n.steady = p.steady
  BY DEF Fields
<1>2. QED
  BY <1>1 DEF Goes, SameWork

LEMMA GoingSynced ==
  ASSUME NEW p, Fields(p), p.stage # "idle", NEW n, NEW stage, NEW queue, NEW scored, stage # "idle",
         n = [p EXCEPT !.stage = stage, !.scored = scored, !.queue = queue]
  PROVE  Goes(p, n)
<1>1. /\ n.stage = stage /\ n.question = p.question /\ n.batch = p.batch /\ n.cutoffs = p.cutoffs
      /\ n.models = p.models /\ n.seen = p.seen /\ n.context = p.context /\ n.items = p.items /\ n.steady = p.steady
  BY DEF Fields
<1>2. QED
  BY <1>1 DEF Goes, SameWork

LEMMA GoingQueued ==
  ASSUME NEW p, Fields(p), p.stage # "idle", NEW n, NEW queue, n = [p EXCEPT !.queue = queue]
  PROVE  Goes(p, n)
<1>1. /\ n.stage = p.stage /\ n.question = p.question /\ n.batch = p.batch /\ n.cutoffs = p.cutoffs
      /\ n.models = p.models /\ n.seen = p.seen /\ n.context = p.context /\ n.items = p.items /\ n.steady = p.steady
  BY DEF Fields
<1>2. QED
  BY <1>1 DEF Goes, SameWork

LEMMA LaterMoves ==
  ASSUME LoopInv, NEW r \in Runners, LaterMove(r)
  PROVE  /\ run[r].stage # "idle" /\ UNCHANGED <<journals, newest, deaths, refused, overlapped>>
         /\ \/ Step(r, Idle) /\ Over(run[r]) /\ UNCHANGED <<counters, runtimeVars>>
            \/ Step(r, Idle) /\ Over(run[r]) /\ run[r].stage # "resolve" /\ Return(r) /\ UNCHANGED runtimeVars
            \/ UNCHANGED counters /\ \E n : Step(r, n) /\ Goes(run[r], n)
<1>1. PICK p : p = run[r]
  OBVIOUS
<1>2. ARun(p) /\ Fields(p)
  BY <1>1, RunIs DEF ARun
<1>3. CASE Sync(r)
  <2>1. /\ p.stage = "resolve" /\ p.items = <<>> /\ UNCHANGED <<journals, newest, runtimeVars, counters>>
        /\ Step(r, Idle) \/ \E queue, scored : Step(r, [p EXCEPT !.stage = "rebuild", !.scored = scored, !.queue = queue])
    BY <1>1, <1>3 DEF Sync, market, Raise
  <2>2. ASSUME NEW queue, NEW scored, Step(r, [p EXCEPT !.stage = "rebuild", !.scored = scored, !.queue = queue])
        PROVE  \E n : Step(r, n) /\ Goes(p, n)
    <3>1. PICK n : n = [p EXCEPT !.stage = "rebuild", !.scored = scored, !.queue = queue]
      OBVIOUS
    <3>2. PICK stage : stage = "rebuild" /\ stage # "idle"
      OBVIOUS
    <3>3. n = [p EXCEPT !.stage = stage, !.scored = scored, !.queue = queue] /\ p.stage # "idle"
      BY <2>1, <3>1, <3>2
    <3>4. Goes(p, n)
      BY <1>2, <3>2, <3>3, GoingSynced
    <3>5. QED
      BY <2>2, <3>1, <3>4
  <2>3. QED
    BY <1>1, <2>1, <2>2 DEF Over, counters
<1>4. CASE AppendNext(r)
  <2>1. p.stage # "idle" /\ UNCHANGED <<journals, newest, counters>>
    BY <1>1, <1>4, RunIs, IdleIs DEF AppendNext, market
  <2>2. PICK n : n = [p EXCEPT !.queue = Tail(p.queue)] /\ Step(r, n)
    BY <1>1, <1>4 DEF AppendNext, market
  <2>3. PICK queue : queue = Tail(p.queue)
    OBVIOUS
  <2>4. Goes(p, n)
    BY <1>2, <2>1, <2>2, <2>3, GoingQueued
  <2>5. QED
    BY <1>1, <2>1, <2>2, <2>4 DEF counters
<1>5. CASE Rebuild(r)
  <2>1. p.stage = "rebuild" /\ UNCHANGED <<journals, newest, counters>>
        /\ \E queue : Step(r, [p EXCEPT !.stage = "assemble", !.queue = queue])
    BY <1>1, <1>5 DEF Rebuild, market
  <2>2. PICK queue, n, stage : Step(r, n) /\ stage = "assemble" /\ stage # "idle" /\ n = [p EXCEPT !.stage = stage, !.queue = queue]
    BY <2>1
  <2>3. Goes(p, n)
    BY <1>2, <2>1, <2>2, Going
  <2>4. QED
    BY <1>1, <2>1, <2>2, <2>3 DEF counters
<1>6. CASE Assemble(r)
  <2>1. /\ p.stage = "assemble" /\ UNCHANGED <<journals, newest, runtimeVars>>
        /\ \/ Return(r)
           \/ Step(r, Idle) /\ UNCHANGED counters
           \/ UNCHANGED counters /\ \E queue : Step(r, [p EXCEPT !.stage = "synthesize", !.queue = queue])
    BY <1>1, <1>6 DEF Assemble, market, Raise
  <2>2. Over(p) /\ p.stage # "resolve"
    BY <1>2, <2>1 DEF ARun, Over
  <2>3. ASSUME NEW queue, Step(r, [p EXCEPT !.stage = "synthesize", !.queue = queue]) PROVE \E n : Step(r, n) /\ Goes(p, n)
    <3>1. PICK n, stage : stage = "synthesize" /\ stage # "idle" /\ n = [p EXCEPT !.stage = stage, !.queue = queue] /\ Step(r, n)
      BY <2>3
    <3>2. p.stage # "idle"
      BY <2>1
    <3>3. Goes(p, n)
      BY <1>2, <3>1, <3>2, Going
    <3>4. QED
      BY <3>1, <3>3
  <2>4. Return(r) => Step(r, Idle) /\ deaths' = deaths /\ refused' = refused /\ overlapped' = overlapped
    BY DEF Return
  <2>5. QED
    BY <1>1, <2>1, <2>2, <2>3, <2>4 DEF counters
<1>7. CASE Synthesize(r)
  <2>1. /\ p.stage = "synthesize" /\ UNCHANGED <<journals, newest, runtimeVars>>
        /\ \/ Return(r)
           \/ UNCHANGED counters /\ \E queue : Step(r, [p EXCEPT !.stage = "return", !.queue = queue])
    BY <1>1, <1>7 DEF Synthesize, market
  <2>2. Over(p) /\ p.stage # "resolve"
    BY <1>2, <2>1 DEF ARun, Over
  <2>3. ASSUME NEW queue, Step(r, [p EXCEPT !.stage = "return", !.queue = queue]) PROVE \E n : Step(r, n) /\ Goes(p, n)
    <3>1. PICK n, stage : stage = "return" /\ stage # "idle" /\ n = [p EXCEPT !.stage = stage, !.queue = queue] /\ Step(r, n)
      BY <2>3
    <3>2. p.stage # "idle"
      BY <2>1
    <3>3. Goes(p, n)
      BY <1>2, <3>1, <3>2, Going
    <3>4. QED
      BY <3>1, <3>3
  <2>4. Return(r) => Step(r, Idle) /\ deaths' = deaths /\ refused' = refused /\ overlapped' = overlapped
    BY DEF Return
  <2>5. QED
    BY <1>1, <2>1, <2>2, <2>3, <2>4 DEF counters
<1>8. CASE Finish(r)
  <2>1. p.stage = "return" /\ UNCHANGED <<journals, newest, runtimeVars>> /\ Return(r)
    BY <1>1, <1>8 DEF Finish, market
  <2>2. Over(p) /\ p.stage # "resolve"
    BY <1>2, <2>1 DEF ARun, Over
  <2>3. Step(r, Idle) /\ deaths' = deaths /\ refused' = refused /\ overlapped' = overlapped
    BY <2>1 DEF Return
  <2>4. QED
    BY <1>1, <2>1, <2>2, <2>3
<1>9. QED
  BY <1>3, <1>4, <1>5, <1>6, <1>7, <1>8 DEF LaterMove

-----------------------------------------------------------------------------
(* Where every run is.                                                      *)

StatesWritten == deaths = 0 => predictionState = Len(predictions) /\ outcomeState = Len(outcomes)
LEMMA WayStep ==
  ASSUME WayInv, LearnInv', NEW r \in Runners, NEW n, Step(r, n), OnItsWay(n), Made(predictions'),
         \A q \in Questions, b \in Batches : <<q, b>> \in completed' => <<q, b>> \in completed \/ Plain(q, b),
         StatesWritten'
  PROVE  WayInv'
<1>1. run = [s \in Runners |-> run[s]] /\ run' = [run EXCEPT ![r] = n]
  BY DEF WayInv, LearnInv, LoopInv, LoopTyped, Step
<1>2. run'[r] = n /\ \A s \in Runners \ {r} : run'[s] = run[s]
  BY <1>1
<1>3. \A s \in Runners : OnItsWay(run'[s])
  BY <1>2 DEF WayInv
<1>4. QED
  BY <1>3 DEF WayInv, StatesWritten

LEMMA IdleWay == OnItsWay(Idle)
BY IdleIs DEF OnItsWay

LEMMA WayGoes ==
  ASSUME NEW p, NEW n, OnItsWay(p), SameWork(p, n)
  PROVE  OnItsWay(n)
BY DEF OnItsWay, SameWork

LEMMA Tails ==
  ASSUME NEW S, NEW s \in Seq(S), s # <<>>, Apart(s)
  PROVE  Apart(Tail(s)) /\ Head(s) \notin ToSet(Tail(s))
<1>1. /\ Len(s) \in Nat \ {0} /\ DOMAIN s = 1..Len(s) /\ Head(s) = s[1]
      /\ Tail(s) \in Seq(S) /\ Len(Tail(s)) = Len(s) - 1
      /\ \A i \in 1 .. Len(s) - 1 : Tail(s)[i] = s[i + 1]
  BY EmptySeq, LenProperties, HeadTailProperties
<1>2. PICK k, t : k = Len(s) - 1 /\ t = Tail(s)
  OBVIOUS
<1>0. k \in Nat
  BY <1>1, <1>2
<1>3. DOMAIN t = 1..k /\ \A i \in 1..k : t[i] = s[i + 1] /\ i + 1 \in DOMAIN s /\ i + 1 # 1 /\ i \in Int
  BY <1>1, <1>2, LenProperties
<1>4. Apart(t)
  <2>1. SUFFICES ASSUME NEW i \in 1..k, NEW j \in 1..k, t[i] = t[j] PROVE i = j
    BY <1>3 DEF Apart
  <2>2. s[i + 1] = s[j + 1] /\ i + 1 \in DOMAIN s /\ j + 1 \in DOMAIN s /\ i \in Int /\ j \in Int
    BY <1>3, <2>1
  <2>3. i + 1 = j + 1
    BY <2>2 DEF Apart
  <2>4. QED
    BY <2>2, <2>3
<1>5. Head(s) \notin ToSet(t)
  <2>1. SUFFICES ASSUME NEW i \in 1..k, t[i] = s[1] PROVE FALSE
    BY <1>1, <1>3 DEF ToSet
  <2>2. s[i + 1] = s[1] /\ i + 1 \in DOMAIN s /\ 1 \in DOMAIN s /\ i + 1 # 1
    BY <1>1, <1>3, <2>1
  <2>3. QED
    BY <2>2 DEF Apart
<1>6. QED
  BY <1>2, <1>4, <1>5

\* A step that leaves the predictions alone and completes nothing new.
LEMMA WayQuiet ==
  ASSUME WayInv, LearnInv', NEW r \in Runners, NEW n, Step(r, n), OnItsWay(n), UNCHANGED <<journals, completed, deaths>>
  PROVE  WayInv'
<1>1. /\ predictions' = predictions /\ predictionState' = predictionState
      /\ outcomes' = outcomes /\ outcomeState' = outcomeState /\ completed' = completed /\ deaths' = deaths
  BY DEF journals
<1>2. StatesWritten'
  BY <1>1 DEF WayInv, StatesWritten
<1>3. Made(predictions')
  BY <1>1 DEF WayInv
<1>4. \A q \in Questions, b \in Batches : <<q, b>> \in completed' => <<q, b>> \in completed \/ Plain(q, b)
  BY <1>1
<1>5. QED
  BY <1>2, <1>3, <1>4, WayStep

LEMMA NextCutoffWay == ASSUME WayInv, LearnInv', NEW r \in Runners, NextCutoff(r) PROVE WayInv'
<1>1. PICK p : p = run[r]
  OBVIOUS
<1>2. /\ ARun(p) /\ p.stage = "cutoff" /\ p.cutoffs # <<>> /\ p.models = <<>> /\ OnItsWay(p)
      /\ UNCHANGED <<journals, completed, deaths>>
  BY <1>1, RunIs DEF NextCutoff, market, Raise, counters, WayInv, LearnInv
<1>10. PICK current, steady : /\ current = ContextOf(frames', Head(p.cutoffs)).frames
                              /\ steady = IF p.steady = "again" /\ newest' # newest THEN "moved" ELSE p.steady
  OBVIOUS
<1>3. \/ Step(r, Idle)
      \/ /\ Head(p.cutoffs) \in p.batch.absent \cup p.batch.degraded
         /\ Head(p.cutoffs) \in p.batch.absent => p.question = "MAGNITUDE"
         /\ Step(r, [p EXCEPT !.cutoffs = Tail(p.cutoffs)])
      \/ /\ Head(p.cutoffs) \notin p.batch.absent \cup p.batch.degraded
         /\ Step(r, [p EXCEPT !.models = Models[p.question], !.context = current, !.seen = Seen(predictions, p.question), !.steady = steady])
  BY <1>1, <1>10 DEF NextCutoff, Raise, Seen
<1>4. CASE Step(r, Idle)
  BY <1>2, <1>4, IdleWay, WayQuiet
<1>5. CASE /\ Head(p.cutoffs) \in p.batch.absent \cup p.batch.degraded
           /\ Head(p.cutoffs) \in p.batch.absent => p.question = "MAGNITUDE"
           /\ Step(r, [p EXCEPT !.cutoffs = Tail(p.cutoffs)])
  <2>1. PICK n : n = [p EXCEPT !.cutoffs = Tail(p.cutoffs)]
    OBVIOUS
  <2>2. /\ n.stage = "cutoff" /\ n.question = p.question /\ n.batch = p.batch /\ n.items = p.items /\ n.models = <<>>
        /\ n.cutoffs = Tail(p.cutoffs) /\ ToSet(p.cutoffs) = {Head(p.cutoffs)} \cup ToSet(Tail(p.cutoffs))
    BY <1>2, <2>1, PassingIs
  <2>3. Apart(n.cutoffs)
    BY <1>2, <2>2, Tails DEF OnItsWay, ARun
  <2>4. OnItsWay(n)
    BY <1>2, <1>5, <2>2, <2>3 DEF OnItsWay
  <2>5. QED
    BY <1>2, <1>5, <2>1, <2>4, WayQuiet
<1>6. CASE /\ Head(p.cutoffs) \notin p.batch.absent \cup p.batch.degraded
           /\ Step(r, [p EXCEPT !.models = Models[p.question], !.context = current, !.seen = Seen(predictions, p.question), !.steady = steady])
  <2>2. PICK pr, n : /\ pr = predictions
                     /\ n = [p EXCEPT !.models = Models[p.question], !.context = current, !.seen = Seen(pr, p.question), !.steady = steady]
    OBVIOUS
  <2>3. /\ n.stage = "cutoff" /\ n.question = p.question /\ n.batch = p.batch /\ n.items = p.items /\ n.cutoffs = p.cutoffs
    BY <1>2, <2>2 DEF ARun, Fields
  <2>4. Head(p.cutoffs) \in ToSet(p.cutoffs)
    BY <1>2, Beginning DEF ARun
  <2>5. Head(p.cutoffs) \in Examined(p.question, p.batch)
    BY <1>2, <1>6, <2>4 DEF Examined, OnItsWay
  <2>6. OnItsWay(n)
    BY <1>2, <2>3, <2>5 DEF OnItsWay
  <2>7. Step(r, n)
    BY <1>6, <2>2
  <2>8. QED
    BY <1>2, <2>6, <2>7, WayQuiet
<1>7. QED
  BY <1>3, <1>4, <1>5, <1>6

\* A model of the cutoff is recorded.
LEMMA RecordedWay ==
  ASSUME NEW p, AtModel(p), OnItsWay(p), NEW entry \in APrediction, entry.cutoff = Head(p.cutoffs), NEW under \in Int,
         NEW n, n = Recorded(p, entry, under)
  PROVE  OnItsWay(n)
<1>1. /\ n.stage = "cutoff" /\ n.question = p.question /\ n.batch = p.batch
      /\ n.models = Tail(p.models) /\ n.cutoffs = (IF Len(p.models) = 1 THEN Tail(p.cutoffs) ELSE p.cutoffs)
  BY RecordedIs
<1>2. \A i \in DOMAIN n.items : n.items[i].prediction = entry \/ \E j \in DOMAIN p.items : n.items[i] = p.items[j]
  BY RecordedItems
<1>3. p.cutoffs # <<>> /\ p.cutoffs \in Seq(Int) /\ p.models \in Seq(AllModels) /\ p.models # <<>> /\ p.stage # "idle"
  BY AtModelHas DEF AtModel, ARun
<1>4. Head(p.cutoffs) \in Examined(p.question, p.batch)
  BY <1>3 DEF OnItsWay
<1>5. ToSet(p.cutoffs) = {Head(p.cutoffs)} \cup ToSet(Tail(p.cutoffs)) /\ (Len(p.models) = 1 <=> Tail(p.models) = <<>>)
  BY <1>3, Beginning
<1>6. Apart(Tail(p.cutoffs))
  BY <1>3, Tails DEF OnItsWay
<1>7. Head(p.cutoffs) \notin p.batch.absent
  BY <1>4 DEF Examined
<1>8. \A i \in DOMAIN n.items : n.items[i].prediction.cutoff \in Examined(n.question, n.batch)
  BY <1>1, <1>2, <1>3, <1>4 DEF OnItsWay
<1>9. CASE Len(p.models) = 1
  <2>1. n.models = <<>> /\ n.cutoffs = Tail(p.cutoffs)
    BY <1>1, <1>5, <1>9
  <2>2. QED
    BY <1>1, <1>3, <1>5, <1>6, <1>7, <1>8, <2>1 DEF OnItsWay
<1>10. CASE Len(p.models) # 1
  <2>1. n.cutoffs = p.cutoffs
    BY <1>1, <1>10
  <2>2. QED
    BY <1>1, <1>3, <1>4, <1>8, <2>1 DEF OnItsWay
<1>11. QED
  BY <1>9, <1>10

LEMMA ReuseWay == ASSUME WayInv, LearnInv', NEW r \in Runners, Reuse(r) PROVE WayInv'
<1>1. LoopInv /\ OnItsWay(run[r])
  BY DEF WayInv, LearnInv
<1>2. AtModel(run[r]) /\ UNCHANGED <<journals, completed, deaths>>
  BY <1>1, ReuseMoves DEF counters
<1>0. PICK entry \in APrediction, under \in Int : \E n :
        entry.cutoff = Head(run[r].cutoffs) /\ n = Recorded(run[r], entry, under) /\ Step(r, n)
  BY <1>1, ReuseMoves
<1>3. PICK n : entry.cutoff = Head(run[r].cutoffs) /\ n = Recorded(run[r], entry, under) /\ Step(r, n)
  BY <1>0
<1>4. PICK p : p = run[r]
  OBVIOUS
<1>5. OnItsWay(n)
  BY <1>1, <1>2, <1>3, <1>4, RecordedWay
<1>6. QED
  BY <1>2, <1>3, <1>5, WayQuiet

LEMMA MadeAlso ==
  ASSUME NEW p, AtModel(p), OnItsWay(p), NEW pr, Made(pr), NEW pr2, ToSet(pr2) \subseteq ToSet(pr) \cup {Prediction(p)}
  PROVE  Made(pr2)
<1>1. Prediction(p).question = p.question /\ Prediction(p).cutoff = Head(p.cutoffs)
  BY DEF Prediction
<1>2. p.batch \in Batches /\ Head(p.cutoffs) \in Examined(p.question, p.batch)
  BY AtModelHas DEF AtModel, OnItsWay
<1>3. QED
  BY <1>1, <1>2 DEF Made

LEMMA PredictWay == ASSUME WayInv, LearnInv', NEW r \in Runners, Predict(r) PROVE WayInv'
<1>1. LoopInv /\ OnItsWay(run[r]) /\ Made(predictions) /\ StatesWritten
  BY DEF WayInv, LearnInv, StatesWritten
<1>2. /\ AtModel(run[r]) /\ completed' = completed /\ deaths' = deaths /\ outcomes' = outcomes /\ outcomeState' = outcomeState
      /\ AppendPrediction(Prediction(run[r]))
      /\ ToSet(predictions') = ToSet(predictions) \cup {Prediction(run[r])}
  BY <1>1, PredictMoves DEF counters
<1>0. PICK entry \in APrediction, under \in Int : \E n :
        entry.cutoff = Head(run[r].cutoffs) /\ n = Recorded(run[r], entry, under) /\ Step(r, n)
  BY <1>1, PredictMoves
<1>3. PICK n : entry.cutoff = Head(run[r].cutoffs) /\ n = Recorded(run[r], entry, under) /\ Step(r, n)
  BY <1>0
<1>4. PICK p : p = run[r]
  OBVIOUS
<1>5. OnItsWay(n)
  BY <1>1, <1>2, <1>3, <1>4, RecordedWay
<1>6. StatesWritten'
  BY <1>1, <1>2 DEF StatesWritten, AppendPrediction
<1>7. Made(predictions')
  <2>1. PICK pr2 : pr2 = predictions'
    OBVIOUS
  <2>2. Made(pr2)
    BY <1>1, <1>2, <1>4, <2>1, MadeAlso
  <2>3. QED
    BY <2>1, <2>2
<1>8. QED
  BY <1>2, <1>3, <1>5, <1>6, <1>7, WayStep

LEMMA EndOfCutoffsWay == ASSUME WayInv, LearnInv', NEW r \in Runners, EndOfCutoffs(r) PROVE WayInv'
<1>1. PICK p : p = run[r]
  OBVIOUS
<1>2. /\ Fields(p) /\ p.stage # "idle" /\ OnItsWay(p) /\ UNCHANGED <<journals, completed, deaths>>
      /\ Step(r, Idle) \/ Step(r, [p EXCEPT !.stage = "resolve"])
  BY <1>1, RunIs DEF EndOfCutoffs, market, Raise, counters, WayInv, LearnInv, ARun
<1>3. PICK n : n = [p EXCEPT !.stage = "resolve"]
  OBVIOUS
<1>4. SameWork(p, n)
  BY <1>2, <1>3 DEF Fields, SameWork
<1>5. QED
  BY <1>2, <1>3, <1>4, IdleWay, WayGoes, WayQuiet

LEMMA ResolveWay == ASSUME WayInv, LearnInv', NEW r \in Runners, Resolve(r) PROVE WayInv'
<1>1. PICK p : p = run[r]
  OBVIOUS
<1>2. /\ ARun(p) /\ p.stage = "resolve" /\ p.items # <<>> /\ OnItsWay(p) /\ Made(predictions) /\ StatesWritten
      /\ predictions' = predictions /\ predictionState' = predictionState /\ completed' = completed /\ deaths' = deaths
      /\ Step(r, Idle) \/ Step(r, [p EXCEPT !.items = Tail(p.items)])
      /\ UNCHANGED <<outcomes, outcomeState>> \/ \E decision : AppendOutcome(decision)
  BY <1>1, RunIs DEF Resolve, market, Raise, counters, WayInv, LearnInv, StatesWritten
<1>3. StatesWritten'
  BY <1>2 DEF StatesWritten, AppendOutcome
<1>4. PICK n : n = [p EXCEPT !.items = Tail(p.items)]
  OBVIOUS
<1>5. n.stage = p.stage /\ n.question = p.question /\ n.batch = p.batch
      /\ n.items = Tail(p.items) /\ n.models = p.models /\ n.cutoffs = p.cutoffs
  BY <1>2, <1>4, ResolvingIs
<1>6. \A i \in DOMAIN n.items : \E j \in DOMAIN p.items : n.items[i] = p.items[j]
  <2>1. ToSet(p.items) = {Head(p.items)} \cup ToSet(Tail(p.items))
    BY <1>2, Beginning DEF ARun
  <2>2. QED
    BY <1>5, <2>1 DEF ToSet
<1>7. OnItsWay(n)
  BY <1>2, <1>5, <1>6 DEF OnItsWay
<1>8. QED
  BY <1>2, <1>3, <1>4, <1>7, IdleWay, WayStep

LEMMA LaterWay == ASSUME WayInv, LearnInv', NEW r \in Runners, LaterMove(r) PROVE WayInv'
<1>1. LoopInv /\ OnItsWay(run[r]) /\ ARun(run[r])
  BY RunIs DEF WayInv, LearnInv
<1>2. /\ UNCHANGED <<journals, deaths>>
      /\ \/ Step(r, Idle) /\ Over(run[r]) /\ UNCHANGED completed
         \/ Step(r, Idle) /\ Over(run[r]) /\ Return(r)
         \/ UNCHANGED completed /\ \E n : Step(r, n) /\ Goes(run[r], n)
  BY <1>1, LaterMoves DEF counters
<1>3. CASE Step(r, Idle) /\ UNCHANGED completed
  BY <1>2, <1>3, IdleWay, WayQuiet
<1>4. CASE Step(r, Idle) /\ Over(run[r]) /\ Return(r)
  <2>1. PICK p : p = run[r]
    OBVIOUS
  <2>2. p.cutoffs = <<>> /\ p.stage # "idle" /\ ARun(p) /\ OnItsWay(p)
    BY <1>1, <1>4, <2>1 DEF ARun, Over
  <2>3. ToSet(p.cutoffs) = {}
    BY <2>2 DEF ToSet
  <2>4. Plain(p.question, p.batch)
    BY <2>2, <2>3 DEF OnItsWay, Plain
  <2>5. completed' = completed \cup {<<p.question, p.batch>>}
    BY <1>4, <2>1 DEF Return
  <2>6. \A q, b : <<q, b>> \in completed' => <<q, b>> \in completed \/ (q = p.question /\ b = p.batch)
    BY <2>5
  <2>7. \A q \in Questions, b \in Batches : <<q, b>> \in completed' => <<q, b>> \in completed \/ Plain(q, b)
    BY <2>4, <2>6
  <2>8. predictions' = predictions /\ StatesWritten'
    BY <1>2 DEF StatesWritten, WayInv, journals
  <2>9. Made(predictions')
    BY <2>8 DEF WayInv
  <2>10. QED
    BY <1>4, <2>7, <2>8, <2>9, IdleWay, WayStep
<1>5. CASE UNCHANGED completed /\ \E n : Step(r, n) /\ Goes(run[r], n)
  <2>1. PICK n, p : p = run[r] /\ Step(r, n) /\ Goes(p, n)
    BY <1>5
  <2>2. OnItsWay(n)
    BY <1>1, <2>1, WayGoes DEF Goes
  <2>3. QED
    BY <1>2, <1>5, <2>1, <2>2, WayQuiet
<1>6. QED
  BY <1>2, <1>3, <1>4, <1>5

LEMMA WayOfAll ==
  ASSUME WayInv, LearnInv', \A s \in Runners : OnItsWay(run'[s]), UNCHANGED <<journals, completed, deaths>>
  PROVE  WayInv'
<1>1. /\ predictions' = predictions /\ predictionState' = predictionState
      /\ outcomes' = outcomes /\ outcomeState' = outcomeState /\ completed' = completed /\ deaths' = deaths
  BY DEF journals
<1>2. QED
  BY <1>1 DEF WayInv

\* A run that begins, and one that is no longer steady.
Begun(n, q, b) ==
  /\ n.stage = "cutoff" /\ n.question = q /\ n.batch = b /\ n.cutoffs = Cutoffs(q, b)
  /\ n.models = <<>> /\ n.items = <<>> /\ n.queue = <<>> /\ n.seen = {} /\ ~n.scored
Calmed(p, n) == SameWork(p, n) /\ n.stage = p.stage /\ n.queue = p.queue /\ n.scored = p.scored /\ n.steady = "no"

LEMMA CalmedIs ==
  ASSUME LoopInv, NEW s \in Runners
  PROVE  Calmed(run[s], [run[s] EXCEPT !.steady = "no"])
<1>1. PICK p, n : p = run[s] /\ n = [p EXCEPT !.steady = "no"]
  OBVIOUS
<1>2. ARun(p) /\ Fields(p)
  BY <1>1, RunIs DEF ARun
<1>3. SameWork(p, n)
  BY <1>1, <1>2, Forgets
<1>4. n.stage = p.stage /\ n.queue = p.queue /\ n.scored = p.scored /\ n.steady = "no"
  BY <1>1, <1>2 DEF Fields
<1>5. Calmed(p, n)
  BY <1>3, <1>4 DEF Calmed
<1>6. QED
  BY <1>1, <1>5

LEMMA BeginMoves ==
  ASSUME LoopInv, NEW r \in Runners, NEW q \in Questions, NEW b \in Batches, Begin(r, q, b)
  PROVE  /\ run[r] = Idle /\ latest' = Absent /\ UNCHANGED <<runtimeVars, journals, newest, completed, deaths, refused>>
         /\ overlapped' = (overlapped \/ \E s \in Runners : run[s] # Idle)
         /\ Begun(run'[r], q, b) /\ run'[r].steady = Steady(q, b)
         /\ \A s \in Runners \ {r} : Calmed(run[s], run'[s])
<1>1. PICK n, steady, p :
        /\ steady = Steady(q, b) /\ p = At("cutoff")
        /\ n = [p EXCEPT !.question = q, !.batch = b, !.cutoffs = Cutoffs(q, b), !.steady = steady]
  OBVIOUS
<1>2. /\ Fields(p) /\ p.stage = "cutoff" /\ p.models = <<>> /\ p.items = <<>> /\ p.queue = <<>> /\ p.seen = {} /\ ~p.scored
  BY <1>1 DEF At, Fields
<1>3. Begun(n, q, b) /\ n.steady = steady
  BY <1>1, <1>2 DEF Fields, Begun
<1>4. run' = [s \in Runners |-> IF s = r THEN n ELSE [run[s] EXCEPT !.steady = "no"]]
  BY <1>1 DEF Begin, market
<1>5. run'[r] = n /\ \A s \in Runners \ {r} : run'[s] = [run[s] EXCEPT !.steady = "no"]
  BY <1>4
<1>6. QED
  BY <1>1, <1>3, <1>5, CalmedIs DEF Begin, market

LEMMA CalmedWay ==
  ASSUME NEW p, NEW n, OnItsWay(p), Calmed(p, n)
  PROVE  OnItsWay(n)
BY WayGoes DEF Calmed

LEMMA BeginWay ==
  ASSUME WayInv, LearnInv', NEW r \in Runners, NEW q \in Questions, NEW b \in Batches, Begin(r, q, b)
  PROVE  WayInv'
<1>1. /\ Begun(run'[r], q, b) /\ UNCHANGED <<journals, completed, deaths>>
      /\ \A s \in Runners \ {r} : Calmed(run[s], run'[s])
  BY BeginMoves DEF WayInv, LearnInv
<1>2. PICK n : n = run'[r]
  OBVIOUS
<1>3. OnItsWay(n)
  <2>1. /\ n.stage = "cutoff" /\ n.question = q /\ n.batch = b /\ n.cutoffs = Cutoffs(q, b)
        /\ n.models = <<>> /\ n.items = <<>>
    BY <1>1, <1>2 DEF Begun
  <2>2. Apart(Cutoffs(q, b))
    BY CutoffsAre
  <2>3. DOMAIN n.items = {}
    BY <2>1
  <2>4. QED
    BY <2>1, <2>2, <2>3 DEF OnItsWay
<1>4. \A s \in Runners : OnItsWay(run[s])
  BY DEF WayInv
<1>5. \A s \in Runners : OnItsWay(run'[s])
  BY <1>1, <1>2, <1>3, <1>4, CalmedWay
<1>6. QED
  BY <1>1, <1>5, WayOfAll

LEMMA ContextMoves ==
  ASSUME LoopInv, ContextChanges
  PROVE  /\ latest' = Absent /\ UNCHANGED <<runtimeVars, journals, completed, deaths, refused, overlapped>>
         /\ \A s \in Runners : Calmed(run[s], run'[s])
<1>1. \A s \in Runners : run'[s] = [run[s] EXCEPT !.steady = "no"]
  BY DEF ContextChanges, market
<1>2. QED
  BY <1>1, CalmedIs DEF ContextChanges, market

LEMMA ContextWay == ASSUME WayInv, LearnInv', ContextChanges PROVE WayInv'
<1>1. UNCHANGED <<journals, completed, deaths>> /\ \A s \in Runners : Calmed(run[s], run'[s])
  BY ContextMoves DEF WayInv, LearnInv
<1>2. \A s \in Runners : OnItsWay(run'[s])
  BY <1>1, CalmedWay DEF WayInv
<1>3. QED
  BY <1>1, <1>2, WayOfAll

LEMMA DieWay == ASSUME WayInv, LearnInv', NEW r \in Runners, Die(r) PROVE WayInv'
<1>1. PICK p : p = run[r]
  OBVIOUS
<1>2. LoopInv /\ ARun(p) /\ OnItsWay(p) /\ Made(predictions) /\ deaths \in Nat /\ predictions \in Seq(APrediction)
  BY <1>1, RunIs DEF WayInv, LearnInv, LoopInv, LoopTyped
<1>3. /\ Step(r, Idle) /\ completed' = completed /\ deaths' = deaths + 1
      /\ \/ predictions' = predictions
         \/ AtModel(p) /\ predictions' = Append(predictions, Prediction(p))
  BY <1>1, <1>2 DEF Die, market, journals, Recording, AtModel
<1>4. StatesWritten'
  BY <1>2, <1>3 DEF StatesWritten
<1>5. Made(predictions')
  <2>1. CASE predictions' = predictions
    BY <1>2, <2>1
  <2>2. CASE AtModel(p) /\ predictions' = Append(predictions, Prediction(p))
    <3>1. PICK pr, pr2 : pr = predictions /\ pr2 = predictions' /\ pr2 = Append(pr, Prediction(p))
      BY <2>2
    <3>2. pr \in Seq(APrediction) /\ Prediction(p) \in APrediction
      BY <1>2, <2>2, <3>1, AtModelHas
    <3>3. ToSet(pr2) \subseteq ToSet(pr) \cup {Prediction(p)}
      BY <3>1, <3>2, Ending
    <3>4. Made(pr2)
      BY <1>2, <2>2, <3>1, <3>3, MadeAlso
    <3>5. QED
      BY <3>1, <3>4
  <2>3. QED
    BY <1>3, <2>1, <2>2
<1>6. QED
  BY <1>3, <1>4, <1>5, IdleWay, WayStep

LEMMA LeaseHeldWay == ASSUME WayInv, LearnInv', NEW r \in Runners, LeaseHeld(r) PROVE WayInv'
<1>1. Step(r, Idle) /\ UNCHANGED <<journals, completed, deaths>>
  BY DEF LeaseHeld
<1>2. QED
  BY <1>1, IdleWay, WayQuiet

LEMMA WayStarts == ASSUME LoopInit PROVE WayInv
<1>1. LearnInv /\ (\A r \in Runners : OnItsWay(run[r]))
  BY LearnStarts, IdleWay DEF LoopInit
<1>2. predictions = <<>> /\ outcomes = <<>> /\ predictionState = 0 /\ outcomeState = 0 /\ completed = {}
  BY DEF LoopInit
<1>3. ToSet(predictions) = {} /\ Len(predictions) = 0 /\ Len(outcomes) = 0
  BY <1>2 DEF ToSet
<1>4. QED
  BY <1>1, <1>2, <1>3 DEF WayInv, Made

\* A step is one of the environment, of the recording, or of what follows.
LEMMA StepsAre ==
  ASSUME [LoopNext]_loopVars
  PROVE  \/ UNCHANGED loopVars
         \/ ContextChanges
         \/ \E r \in Runners, q \in Questions, b \in Batches : Begin(r, q, b)
         \/ \E r \in Runners :
              NextCutoff(r) \/ Reuse(r) \/ Predict(r) \/ EndOfCutoffs(r) \/ Resolve(r) \/ LaterMove(r)
              \/ LeaseHeld(r) \/ Die(r)
BY DEF LoopNext, LaterMove

LEMMA WayKeeps == ASSUME WayInv, [LoopNext]_loopVars PROVE WayInv'
<1>1. LearnInv'
  BY LearnKeeps DEF WayInv
<1>2. CASE UNCHANGED loopVars
  <2>1. UNCHANGED <<journals, completed, deaths>> /\ run' = run
    BY <1>2 DEF loopVars, counters
  <2>2. \A s \in Runners : OnItsWay(run'[s])
    BY <2>1 DEF WayInv
  <2>3. QED
    BY <1>1, <2>1, <2>2, WayOfAll
<1>3. QED
  BY <1>1, <1>2, StepsAre, ContextWay, BeginWay, NextCutoffWay, ReuseWay, PredictWay, EndOfCutoffsWay, ResolveWay,
     LaterWay, LeaseHeldWay, DieWay

LEMMA FreshGoes ==
  ASSUME NEW pr, NEW p, NEW n, Fresh(pr, p), SameWork(p, n)
  PROVE  Fresh(pr, n)
BY DEF Fresh, SameWork

LEMMA NothingLeft ==
  ASSUME NEW pr, NEW out, NEW p, InHand(pr, out, p), p.stage # "idle", p.cutoffs = <<>>, p.items = <<>>
  PROVE  Complete(pr, out, p.question, p.batch)
<1>1. Behind(pr, out, p) /\ ToSet(p.cutoffs) = {} /\ DOMAIN p.items = {}
  BY DEF InHand, ToSet
<1>2. \A e : Handled(pr, out, p, e) => Answered(pr, out, p.batch, e)
  BY <1>1 DEF Handled
<1>3. QED
  BY <1>1, <1>2 DEF Behind, Complete

LEMMA WholeStep ==
  ASSUME WayInv, WholeInv, NEW r \in Runners, NEW n, Step(r, n), run[r].stage # "idle", UNCHANGED <<deaths, refused, overlapped>>,
         n.stage # "idle" => n.question = run[r].question /\ n.batch = run[r].batch,
         Undisturbed =>
           /\ ByItsBatch(outcomes')
           /\ \A q \in Questions, b \in Batches :
                /\ Complete(predictions, outcomes, q, b) => Complete(predictions', outcomes', q, b)
                /\ Untouched(predictions, q, b) =>
                     Untouched(predictions', q, b) \/ (q = run[r].question /\ b = run[r].batch)
           /\ Plain(run[r].question, run[r].batch) /\ Fresh(predictions, run[r]) =>
                \/ Complete(predictions', outcomes', run[r].question, run[r].batch)
                \/ n.stage # "idle" /\ Fresh(predictions', n)
  PROVE  WholeInv'
<1>1. SUFFICES ASSUME Undisturbed' PROVE WholeInv'
  BY DEF WholeInv
<1>2. Undisturbed /\ OneRun
  BY <1>1 DEF Undisturbed, Undying, WayInv, LearnInv, LoopInv, AllDecided
<1>3. run = [s \in Runners |-> run[s]] /\ run' = [run EXCEPT ![r] = n]
  BY DEF WayInv, LearnInv, LoopInv, LoopTyped, Step
<1>4. run'[r] = n /\ \A s \in Runners \ {r} : run'[s] = run[s] /\ run[s].stage = "idle"
  BY <1>2, <1>3 DEF OneRun
<1>5. PICK pr, out, pr2, out2, p : pr = predictions /\ out = outcomes /\ pr2 = predictions' /\ out2 = outcomes' /\ p = run[r]
  OBVIOUS
<1>6. /\ ByItsBatch(out2)
      /\ \A q \in Questions, b \in Batches :
           /\ Complete(pr, out, q, b) => Complete(pr2, out2, q, b)
           /\ Untouched(pr, q, b) => Untouched(pr2, q, b) \/ (q = p.question /\ b = p.batch)
      /\ Plain(p.question, p.batch) /\ Fresh(pr, p) =>
           Complete(pr2, out2, p.question, p.batch) \/ (n.stage # "idle" /\ Fresh(pr2, n))
  BY <1>2, <1>5
<1>7. ASSUME NEW q \in {"MAGNITUDE", "LIQUIDITY"}, NEW b \in Batches, Plain(q, b)
      PROVE  \/ Complete(pr2, out2, q, b)
             \/ Untouched(pr2, q, b) /\ \A s \in Runners : ~On(run'[s], q, b)
             \/ \E s \in Runners : On(run'[s], q, b) /\ Fresh(pr2, run'[s])
  <2>1. q \in Questions /\ (Whole(pr, out, q, b))
    BY <1>2, <1>5, <1>7 DEF WholeInv, Questions
  <2>2. CASE q = p.question /\ b = p.batch
    <3>1. On(run[r], q, b)
      BY <1>5, <2>2 DEF On
    <3>2. Complete(pr, out, q, b) \/ \E s \in Runners : On(run[s], q, b) /\ Fresh(pr, run[s])
      BY <2>1, <3>1 DEF Whole
    <3>3. CASE Complete(pr, out, q, b)
      BY <1>6, <2>1, <3>3
    <3>4. CASE \E s \in Runners : On(run[s], q, b) /\ Fresh(pr, run[s])
      <4>1. Fresh(pr, p)
        BY <1>4, <1>5, <3>4 DEF On
      <4>2. Complete(pr2, out2, q, b) \/ (n.stage # "idle" /\ Fresh(pr2, n))
        BY <1>6, <1>7, <2>2, <4>1
      <4>3. n.stage # "idle" => On(run'[r], q, b)
        BY <1>4, <1>5, <2>2 DEF On
      <4>4. QED
        BY <1>4, <4>2, <4>3
    <3>5. QED
      BY <3>2, <3>3, <3>4
  <2>3. CASE ~ (q = p.question /\ b = p.batch)
    <3>1. \A s \in Runners : ~On(run[s], q, b) /\ ~On(run'[s], q, b)
      BY <1>4, <1>5, <2>3 DEF On
    <3>2. Complete(pr, out, q, b) \/ Untouched(pr, q, b)
      BY <2>1, <3>1 DEF Whole
    <3>3. QED
      BY <1>6, <2>1, <2>3, <3>1, <3>2
  <2>4. QED
    BY <2>2, <2>3
<1>8. QED
  BY <1>5, <1>6, <1>7 DEF WholeInv, Whole

\* A step that leaves the journals alone.
LEMMA WholeQuiet ==
  ASSUME WayInv, WholeInv, NEW r \in Runners, NEW n, Step(r, n), run[r].stage # "idle", UNCHANGED <<journals, deaths, refused, overlapped>>,
         n.stage # "idle" => n.question = run[r].question /\ n.batch = run[r].batch,
         Undisturbed /\ Plain(run[r].question, run[r].batch) /\ Fresh(predictions, run[r]) =>
                \/ Complete(predictions, outcomes, run[r].question, run[r].batch)
                \/ n.stage # "idle" /\ Fresh(predictions, n)
  PROVE  WholeInv'
<1>1. predictions' = predictions /\ outcomes' = outcomes
  BY DEF journals
<1>2. PICK pr, out : pr = predictions /\ out = outcomes
  OBVIOUS
<1>3. Undisturbed => ByItsBatch(out)
  BY <1>2 DEF WholeInv
<1>4. QED
  BY <1>1, <1>2, <1>3, WholeStep

LEMMA NextCutoffWhole == ASSUME WayInv, WholeInv, NEW r \in Runners, NextCutoff(r) PROVE WholeInv'
<1>1. PICK p, pr : p = run[r] /\ pr = predictions
  OBVIOUS
<1>2. /\ ARun(p) /\ p.stage = "cutoff" /\ p.cutoffs # <<>> /\ p.models = <<>> /\ OnItsWay(p)
      /\ UNCHANGED <<journals, deaths, refused, overlapped>>
  BY <1>1, RunIs DEF NextCutoff, market, Raise, counters, WayInv, LearnInv
<1>10. PICK current, steady : /\ current = ContextOf(frames', Head(p.cutoffs)).frames
                              /\ steady = IF p.steady = "again" /\ newest' # newest THEN "moved" ELSE p.steady
  OBVIOUS
<1>3. \/ Step(r, Idle) /\ Head(p.cutoffs) \in p.batch.absent /\ p.question # "MAGNITUDE"
      \/ /\ Head(p.cutoffs) \in p.batch.absent \cup p.batch.degraded
         /\ Step(r, [p EXCEPT !.cutoffs = Tail(p.cutoffs)])
      \/ /\ Head(p.cutoffs) \notin p.batch.absent \cup p.batch.degraded
         /\ Step(r, [p EXCEPT !.models = Models[p.question], !.context = current, !.seen = Seen(predictions, p.question), !.steady = steady])
  BY <1>1, <1>10 DEF NextCutoff, Raise, Seen
<1>4. Head(p.cutoffs) \in ToSet(p.cutoffs) /\ ToSet(Tail(p.cutoffs)) \subseteq ToSet(p.cutoffs)
  BY <1>2, Beginning DEF ARun
<1>5. Head(p.cutoffs) \in ToSet(Cutoffs(p.question, p.batch))
  BY <1>2, <1>4 DEF OnItsWay
<1>6. CASE Step(r, Idle) /\ Head(p.cutoffs) \in p.batch.absent /\ p.question # "MAGNITUDE"
  <2>1. ~Plain(p.question, p.batch)
    BY <1>5, <1>6 DEF Plain
  <2>2. QED
    BY <1>1, <1>2, <1>6, <2>1, IdleIs, WholeQuiet
<1>7. CASE Step(r, [p EXCEPT !.cutoffs = Tail(p.cutoffs)])
  <2>1. PICK n : n = [p EXCEPT !.cutoffs = Tail(p.cutoffs)]
    OBVIOUS
  <2>2. /\ n.stage = "cutoff" /\ n.question = p.question /\ n.batch = p.batch /\ n.items = p.items /\ n.models = <<>>
        /\ n.cutoffs = Tail(p.cutoffs)
    BY <1>2, <2>1, PassingIs
  <2>3. Fresh(pr, p) => Fresh(pr, n)
    BY <1>2, <1>4, <2>2 DEF Fresh
  <2>4. QED
    BY <1>1, <1>2, <1>7, <2>1, <2>2, <2>3, WholeQuiet
<1>8. CASE /\ Head(p.cutoffs) \notin p.batch.absent \cup p.batch.degraded
           /\ Step(r, [p EXCEPT !.models = Models[p.question], !.context = current, !.seen = Seen(predictions, p.question), !.steady = steady])
  <2>1. PICK n : n = [p EXCEPT !.models = Models[p.question], !.context = current, !.seen = Seen(pr, p.question), !.steady = steady]
    OBVIOUS
  <2>2. /\ n.stage = "cutoff" /\ n.question = p.question /\ n.batch = p.batch /\ n.items = p.items
        /\ n.cutoffs = p.cutoffs /\ n.seen = Seen(pr, p.question)
    BY <1>2, <2>1 DEF ARun, Fields
  <2>3. Head(p.cutoffs) \in Examined(p.question, p.batch)
    BY <1>5, <1>8 DEF Examined
  <2>4. Fresh(pr, p) => Fresh(pr, n)
    <3>1. SUFFICES ASSUME Fresh(pr, p) PROVE Fresh(pr, n)
      OBVIOUS
    <3>2. \A e \in ToSet(pr) : ~ (e.question = p.question /\ e.cutoff \in ToSet(p.cutoffs) /\ e.cutoff \in Examined(p.question, p.batch))
      BY <1>2, <3>1 DEF Fresh
    <3>3. \A x \in n.seen : \E e \in ToSet(pr) : e.question = p.question /\ x[1] = e.cutoff
      BY <2>2 DEF Seen
    <3>4. \A x \in n.seen : x[1] # Head(p.cutoffs)
      BY <1>4, <2>3, <3>2, <3>3
    <3>5. QED
      BY <2>2, <3>1, <3>2, <3>4 DEF Fresh
  <2>5. Step(r, n)
    BY <1>1, <1>8, <2>1
  <2>6. QED
    BY <1>1, <1>2, <2>2, <2>4, <2>5, WholeQuiet
<1>9. QED
  BY <1>3, <1>6, <1>7, <1>8

LEMMA ReuseWhole == ASSUME WayInv, WholeInv, NEW r \in Runners, Reuse(r) PROVE WholeInv'
<1>1. /\ AtModel(run[r]) /\ Reuses(run[r]) /\ run[r].stage # "idle" /\ UNCHANGED <<journals, deaths, refused, overlapped>>
  BY ReuseMoves DEF WayInv, LearnInv, counters
<1>2. PICK entry \in APrediction, under \in Int : \E n : n = Recorded(run[r], entry, under) /\ Step(r, n)
  BY ReuseMoves DEF WayInv, LearnInv
<1>3. PICK n, p, pr : p = run[r] /\ pr = predictions /\ n = Recorded(p, entry, under) /\ Step(r, n)
  BY <1>2
<1>4. n.question = p.question /\ n.batch = p.batch
  BY <1>1, <1>3, RecordedIs
<1>5. ~Fresh(pr, p)
  BY <1>1, <1>3 DEF Fresh, Reuses, AtModel
<1>6. QED
  BY <1>1, <1>3, <1>4, <1>5, WholeQuiet

\* What is made at a cutoff of the run's batch is of no other batch.
LEMMA OfOneBatch ==
  ASSUME NEW q \in Questions, NEW b \in Batches, NEW c \in Examined(q, b), NEW k \in Questions, NEW d \in Batches, c \in Examined(k, d)
  PROVE  b = d
BY ExaminedIs, OneBatch

LEMMA PredictWhole == ASSUME WayInv, WholeInv, NEW r \in Runners, Predict(r) PROVE WholeInv'
<1>1. LoopInv /\ OnItsWay(run[r])
  BY DEF WayInv, LearnInv
<1>2. /\ AtModel(run[r]) /\ ~Reuses(run[r]) /\ run[r].stage # "idle" /\ UNCHANGED <<outcomes, deaths, refused, overlapped>>
      /\ Joins(predictions, Prediction(run[r]), predictions')
      /\ ToSet(predictions') = ToSet(predictions) \cup {Prediction(run[r])}
  BY <1>1, PredictMoves DEF counters
<1>3. PICK entry \in APrediction, under \in Int : \E n :
        /\ entry = Prediction(run[r]) /\ under = entry.context
        /\ entry.cutoff = Head(run[r].cutoffs) /\ entry.question = run[r].question
        /\ n = Recorded(run[r], entry, under) /\ Step(r, n)
  BY <1>1, PredictMoves
<1>4. PICK n, p, pr, pr2, out :
        /\ p = run[r] /\ pr = predictions /\ pr2 = predictions' /\ out = outcomes
        /\ n = Recorded(p, entry, under) /\ Step(r, n)
  BY <1>3
<1>5. /\ entry = Prediction(p) /\ under = entry.context /\ entry.cutoff = Head(p.cutoffs) /\ entry.question = p.question
      /\ pr \in Seq(APrediction) /\ Joins(pr, entry, pr2) /\ ToSet(pr2) = ToSet(pr) \cup {entry}
      /\ AtModel(p) /\ OnItsWay(p) /\ ~Reuses(p) /\ p.stage # "idle"
  BY <1>1, <1>2, <1>3, <1>4 DEF LoopInv, LoopTyped
<1>6. /\ n.stage = "cutoff" /\ n.question = p.question /\ n.batch = p.batch /\ n.seen = p.seen
      /\ n.models = Tail(p.models) /\ n.cutoffs = (IF Len(p.models) = 1 THEN Tail(p.cutoffs) ELSE p.cutoffs)
  BY <1>4, <1>5, RecordedIs
<1>7. p.question \in Questions /\ p.batch \in Batches /\ p.cutoffs # <<>> /\ p.cutoffs \in Seq(Int)
      /\ (Len(p.models) = 1 <=> Tail(p.models) = <<>>) /\ Head(p.cutoffs) \in Examined(p.question, p.batch)
  BY <1>5, AtModelHas DEF AtModel, ARun, OnItsWay
<1>8. ASSUME Undisturbed, NEW q \in Questions, NEW b \in Batches
      PROVE  /\ Complete(pr, out, q, b) => Complete(pr2, out, q, b)
             /\ Untouched(pr, q, b) => Untouched(pr2, q, b) \/ (q = p.question /\ b = p.batch)
  <2>1. Unique(pr) /\ InHand(pr, out, p)
    BY <1>1, <1>4, <1>8, RunIs DEF Undisturbed, Undying
  <2>2. OnlyOne(pr, entry)
    BY <1>5, <2>1, UnseenIsOnly
  <2>3. Complete(pr, out, q, b) => Complete(pr2, out, q, b)
    BY <1>5, <2>1, <2>2, CompleteJoins
  <2>4. entry.question = q /\ entry.cutoff \in Examined(q, b) => q = p.question /\ b = p.batch
    BY <1>5, <1>7, OfOneBatch
  <2>5. QED
    BY <1>5, <2>3, <2>4 DEF Untouched
<1>9. ASSUME Fresh(pr, p) PROVE Fresh(pr2, n)
  <2>1. \A i \in DOMAIN n.items : n.items[i].under = n.items[i].prediction.context
    <3>1. \A i \in DOMAIN n.items :
            \/ n.items[i].prediction = entry /\ n.items[i].under = under
            \/ \E j \in DOMAIN p.items : n.items[i] = p.items[j]
      BY <1>4, <1>5, RecordedItems
    <3>2. QED
      BY <1>5, <1>9, <3>1 DEF Fresh
  <2>2. ASSUME NEW e \in ToSet(pr2), e.question = p.question, e.cutoff \in ToSet(n.cutoffs), e.cutoff \in Examined(p.question, p.batch)
        PROVE  n.models # <<>> /\ e.cutoff = Head(n.cutoffs)
    <3>1. Head(p.cutoffs) \notin ToSet(Tail(p.cutoffs)) /\ ToSet(Tail(p.cutoffs)) \subseteq ToSet(p.cutoffs)
      BY <1>5, <1>7, Tails, Beginning DEF OnItsWay
    <3>2. e.cutoff = Head(p.cutoffs)
      <4>1. CASE e = entry
        BY <1>5, <4>1
      <4>2. CASE e \in ToSet(pr)
        <5>1. e.cutoff \in ToSet(p.cutoffs)
          BY <1>6, <2>2, <3>1
        <5>2. QED
          BY <1>9, <2>2, <4>2, <5>1 DEF Fresh
      <4>3. QED
        BY <1>5, <2>2, <4>1, <4>2
    <3>3. Len(p.models) # 1
      BY <1>6, <2>2, <3>1, <3>2
    <3>4. QED
      BY <1>6, <1>7, <3>2, <3>3
  <2>3. n.models # <<>> => \A x \in n.seen : x[1] # Head(n.cutoffs)
    BY <1>5, <1>6, <1>7, <1>9 DEF Fresh, AtModel
  <2>4. QED
    BY <1>6, <2>1, <2>2, <2>3 DEF Fresh
<1>10. Undisturbed => ByItsBatch(out)
  BY <1>4 DEF WholeInv
<1>11. outcomes' = out /\ n.stage # "idle"
  BY <1>2, <1>4, <1>6
<1>12. QED
  BY <1>2, <1>4, <1>6, <1>8, <1>9, <1>10, <1>11, WholeStep

LEMMA EndOfCutoffsWhole == ASSUME WayInv, WholeInv, NEW r \in Runners, EndOfCutoffs(r) PROVE WholeInv'
<1>1. PICK p, pr, out : p = run[r] /\ pr = predictions /\ out = outcomes
  OBVIOUS
<1>2. /\ Fields(p) /\ p.stage # "idle" /\ p.cutoffs = <<>> /\ UNCHANGED <<journals, deaths, refused, overlapped>>
      /\ (Step(r, Idle) /\ p.items = <<>>) \/ Step(r, [p EXCEPT !.stage = "resolve"])
      /\ Undisturbed => InHand(pr, out, p)
  BY <1>1, RunIs DEF EndOfCutoffs, market, Raise, counters, WayInv, LearnInv, ARun, Undisturbed, Undying
<1>3. CASE Step(r, Idle) /\ p.items = <<>>
  <2>1. Undisturbed => Complete(pr, out, p.question, p.batch)
    BY <1>2, <1>3, NothingLeft
  <2>2. QED
    BY <1>1, <1>2, <1>3, <2>1, IdleIs, WholeQuiet
<1>4. CASE Step(r, [p EXCEPT !.stage = "resolve"])
  <2>1. PICK n : n = [p EXCEPT !.stage = "resolve"]
    OBVIOUS
  <2>2. SameWork(p, n) /\ n.stage = "resolve" /\ n.question = p.question /\ n.batch = p.batch
    BY <1>2, <2>1 DEF Fields, SameWork
  <2>3. Fresh(pr, p) => Fresh(pr, n)
    BY <2>2, FreshGoes
  <2>4. QED
    BY <1>1, <1>2, <1>4, <2>1, <2>2, <2>3, WholeQuiet
<1>5. QED
  BY <1>2, <1>3, <1>4

LEMMA LaterWhole == ASSUME WayInv, WholeInv, NEW r \in Runners, LaterMove(r) PROVE WholeInv'
<1>1. PICK p, pr, out : p = run[r] /\ pr = predictions /\ out = outcomes
  OBVIOUS
<1>2. /\ p.stage # "idle" /\ UNCHANGED <<journals, deaths, refused, overlapped>> /\ ARun(p)
      /\ (Step(r, Idle) /\ Over(p)) \/ \E n : Step(r, n) /\ Goes(p, n)
      /\ Undisturbed => InHand(pr, out, p)
  BY <1>1, LaterMoves, RunIs DEF WayInv, LearnInv, Undisturbed, Undying
<1>3. CASE Step(r, Idle) /\ Over(p)
  <2>1. p.cutoffs = <<>> /\ p.items = <<>>
    BY <1>2, <1>3 DEF Over, ARun
  <2>2. Undisturbed => Complete(pr, out, p.question, p.batch)
    BY <1>2, <2>1, NothingLeft
  <2>3. QED
    BY <1>1, <1>2, <1>3, <2>2, IdleIs, WholeQuiet
<1>4. CASE \E n : Step(r, n) /\ Goes(p, n)
  <2>1. PICK n : Step(r, n) /\ Goes(p, n)
    BY <1>4
  <2>2. SameWork(p, n) /\ n.stage # "idle" /\ n.question = p.question /\ n.batch = p.batch
    BY <2>1 DEF Goes, SameWork
  <2>3. Fresh(pr, p) => Fresh(pr, n)
    BY <2>2, FreshGoes
  <2>4. QED
    BY <1>1, <1>2, <2>1, <2>2, <2>3, WholeQuiet
<1>5. QED
  BY <1>2, <1>3, <1>4

\* A decision of the batch a run is over.
LEMMA DecisionJoins ==
  ASSUME NEW out \in Seq(AnOutcome), ByItsBatch(out), NEW q \in Questions, NEW b \in Batches, NEW e \in APrediction,
         e.cutoff \in Examined(q, b), Decide(b, e).status # "PENDING",
         NEW out2, out2 = IF OutcomesFor(out, e) # {} THEN out ELSE Append(out, Decide(b, e))
  PROVE  ByItsBatch(out2)
<1>1. Decide(b, e) \in AnOutcome /\ Decide(b, e).prediction = e
  BY DecideIs
<1>2. PICK d : d = Decide(b, e)
  OBVIOUS
<1>3. \A o \in ToSet(out2) : o \in ToSet(out) \/ o = d
  <2>1. ToSet(Append(out, d)) = ToSet(out) \cup {d}
    BY <1>1, <1>2, Ending
  <2>2. QED
    BY <1>2, <2>1
<1>4. ASSUME NEW k \in Batches, InSpan(k, e.cutoff) PROVE k = b
  BY <1>4, ExaminedIs, OneBatch
<1>5. QED
  BY <1>1, <1>2, <1>3, <1>4 DEF ByItsBatch

\* What is decided of the batch stands, so that a fresh run is not refused.
LEMMA DecidedAlike ==
  ASSUME NEW out, ByItsBatch(out), NEW q \in Questions, NEW b \in Batches, NEW e, e.cutoff \in Examined(q, b)
  PROVE  OutcomesFor(out, e) \in {{}, {Decide(b, e)}}
<1>1. \A o \in OutcomesFor(out, e) : o = Decide(b, e)
  BY ExaminedIs DEF OutcomesFor, ByItsBatch
<1>2. QED
  BY <1>1

LEMMA ResolveWhole == ASSUME WayInv, WholeInv, NEW r \in Runners, Resolve(r) PROVE WholeInv'
<1>1. PICK p, pr, out : p = run[r] /\ pr = predictions /\ out = outcomes
  OBVIOUS
<1>2. PICK item, e, decision : item = Head(p.items) /\ e = item.prediction /\ decision = Decide(p.batch, e)
  OBVIOUS
<1>3. /\ ARun(p) /\ p.stage = "resolve" /\ p.items # <<>> /\ OnItsWay(p) /\ StatesWritten
      /\ pr \in Seq(APrediction) /\ out \in Seq(AnOutcome)
      /\ predictions' = pr /\ deaths' = deaths /\ refused' = refused /\ overlapped' = overlapped
  BY <1>1, RunIs DEF Resolve, market, Raise, counters, WayInv, LearnInv, LoopInv, LoopTyped, StatesWritten
<1>30. item \in AnItem /\ e \in APrediction /\ ToSet(p.items) = {item} \cup ToSet(Tail(p.items))
  <2>1. PICK s : s = p.items
    OBVIOUS
  <2>2. s \in Seq(AnItem) /\ s # <<>> /\ item = Head(s)
    BY <1>2, <1>3, <2>1 DEF ARun
  <2>3. item \in AnItem /\ ToSet(s) = {item} \cup ToSet(Tail(s))
    BY <2>2, Beginning
  <2>4. QED
    BY <1>2, <2>1, <2>3 DEF AnItem
<1>4. \/ Step(r, Idle) /\ outcomes' = out /\ Refused(item, decision)
      \/ /\ Step(r, [p EXCEPT !.items = Tail(p.items)])
         /\ IF decision.status = "PENDING" THEN outcomes' = out
            ELSE outcomes' = IF OutcomesFor(out, e) # {} THEN out ELSE Append(out, decision)
  <2>1. \/ Step(r, Idle) /\ outcomes' = outcomes /\ Refused(item, decision)
        \/ /\ Step(r, [p EXCEPT !.items = Tail(p.items)])
           /\ IF decision.status = "PENDING" THEN UNCHANGED <<outcomes, outcomeState>> ELSE AppendOutcome(decision)
    BY <1>1, <1>2 DEF Resolve, market, Raise
  <2>2. decision.status # "PENDING" => decision.prediction = e
    <3>1. e \in APrediction
      BY <1>30
    <3>2. QED
      BY <1>2, <3>1, DecideIs
  <2>3. OutcomeOf(e) = OutcomesFor(out, e)
    BY <1>1 DEF OutcomeOf, OutcomesFor
  <2>4. decision.status # "PENDING" /\ AppendOutcome(decision) =>
          outcomes' = IF OutcomesFor(out, e) # {} THEN out ELSE Append(out, decision)
    BY <1>1, <2>2, <2>3 DEF AppendOutcome
  <2>5. QED
    BY <1>1, <2>1, <2>4
<1>5. /\ item \in AnItem /\ e \in APrediction /\ ToSet(p.items) = {item} \cup ToSet(Tail(p.items)) /\ item = p.items[1] /\ 1 \in DOMAIN p.items
      /\ p.question \in Questions /\ p.batch \in Batches /\ e.cutoff \in Examined(p.question, p.batch)
  <2>1. /\ item \in AnItem /\ e \in APrediction /\ ToSet(p.items) = {item} \cup ToSet(Tail(p.items))
        /\ p.question \in Questions /\ p.batch \in Batches
    BY <1>3, <1>30 DEF ARun
  <2>2. item = p.items[1] /\ 1 \in DOMAIN p.items
    BY <1>2, <1>3, LenProperties DEF ARun
  <2>3. QED
    BY <1>2, <1>3, <2>1, <2>2 DEF OnItsWay
<1>6. CASE Step(r, Idle) /\ outcomes' = out /\ Refused(item, decision)
  <2>1. ASSUME Undisturbed PROVE ~Fresh(pr, p)
    <3>1. SUFFICES ASSUME Fresh(pr, p) PROVE FALSE
      OBVIOUS
    <3>2. PredictionsValid
      BY <1>1, <1>3, <2>1 DEF StatesWritten, Undisturbed, Undying, PredictionsValid
    <3>3. item.under = e.context
      BY <1>2, <1>5, <3>1 DEF Fresh
    <3>4. OutcomesFor(out, e) \in {{}, {decision}}
      BY <1>1, <1>2, <1>5, <2>1, DecidedAlike DEF WholeInv
    <3>5. OutcomeOf(e) = OutcomesFor(out, e)
      BY <1>1 DEF OutcomeOf, OutcomesFor
    <3>6. QED
      BY <1>2, <1>6, <3>2, <3>3, <3>4, <3>5 DEF Refused
  <2>2. Undisturbed => ByItsBatch(out)
    BY <1>1 DEF WholeInv
  <2>3. PICK q, b : q = p.question /\ b = p.batch
    OBVIOUS
  <2>4. run[r].stage # "idle"
    BY <1>1, <1>3
  <2>5. QED
    BY <1>1, <1>3, <1>6, <2>1, <2>2, <2>4, IdleIs, WholeStep
<1>7. CASE /\ Step(r, [p EXCEPT !.items = Tail(p.items)])
           /\ IF decision.status = "PENDING" THEN outcomes' = out
              ELSE outcomes' = IF OutcomesFor(out, e) # {} THEN out ELSE Append(out, decision)
  <2>1. PICK n, out2 : n = [p EXCEPT !.items = Tail(p.items)] /\ out2 = outcomes'
    OBVIOUS
  <2>2. n.stage = p.stage /\ n.question = p.question /\ n.batch = p.batch /\ n.seen = p.seen
        /\ n.items = Tail(p.items) /\ n.models = p.models /\ n.cutoffs = p.cutoffs
    BY <1>3, <2>1, ResolvingIs
  <2>3. ASSUME Undisturbed PROVE ByItsBatch(out2) /\ Grows(out, out2)
    <3>1. ByItsBatch(out)
      BY <1>1, <2>3 DEF WholeInv
    <3>2. CASE decision.status = "PENDING"
      <4>1. out2 = out
        BY <1>7, <2>1, <3>2
      <4>2. QED
        BY <3>1, <4>1, GrowsNot
    <3>3. CASE decision.status # "PENDING"
      <4>1. PICK q \in Questions, b \in Batches : q = p.question /\ b = p.batch
        BY <1>5
      <4>2. /\ out \in Seq(AnOutcome) /\ e \in APrediction /\ e.cutoff \in Examined(q, b) /\ Decide(b, e).status # "PENDING"
            /\ out2 = IF OutcomesFor(out, e) # {} THEN out ELSE Append(out, Decide(b, e))
        BY <1>2, <1>3, <1>5, <1>7, <2>1, <3>3, <4>1
      <4>3. ByItsBatch(out2)
        BY <3>1, <4>2, DecisionJoins
      <4>4. Grows(out, out2)
        BY <4>2, OutcomeWritten
      <4>5. QED
        BY <4>3, <4>4
    <3>4. QED
      BY <3>2, <3>3
  <2>4. ASSUME Undisturbed, NEW q \in Questions, NEW b \in Batches, Complete(pr, out, q, b) PROVE Complete(pr, out2, q, b)
    BY <2>3, <2>4, CompleteStays
  <2>5. Fresh(pr, p) => Fresh(pr, n)
    <3>1. \A i \in DOMAIN n.items : \E j \in DOMAIN p.items : n.items[i] = p.items[j]
      BY <1>5, <2>2 DEF ToSet
    <3>2. QED
      BY <2>2, <3>1 DEF Fresh
  <2>6. run[r].stage # "idle" /\ n.stage # "idle"
    BY <1>1, <1>3, <2>2
  <2>7. QED
    BY <1>1, <1>3, <1>7, <2>1, <2>2, <2>3, <2>4, <2>5, <2>6, WholeStep
<1>8. QED
  BY <1>4, <1>6, <1>7

LEMMA BeginWhole ==
  ASSUME WayInv, WholeInv, NEW r \in Runners, NEW q \in Questions, NEW b \in Batches, Begin(r, q, b)
  PROVE  WholeInv'
<1>1. /\ Begun(run'[r], q, b) /\ UNCHANGED <<journals, deaths, refused>> /\ overlapped' = (overlapped \/ \E s \in Runners : run[s] # Idle)
      /\ \A s \in Runners \ {r} : Calmed(run[s], run'[s])
  BY BeginMoves DEF WayInv, LearnInv
<1>2. SUFFICES ASSUME Undisturbed' PROVE WholeInv'
  BY DEF WholeInv
<1>3. Undisturbed /\ \A s \in Runners : run[s] = Idle
  BY <1>1, <1>2 DEF Undisturbed, Undying, WayInv, LearnInv, LoopInv, LoopTyped
<1>4. PICK pr, out, n : pr = predictions /\ pr = predictions' /\ out = outcomes /\ out = outcomes' /\ n = run'[r]
  BY <1>1 DEF journals
<1>5. \A s \in Runners : run[s].stage = "idle"
  BY <1>3, IdleIs
<1>6. \A s \in Runners \ {r} : run'[s].stage = "idle"
  BY <1>1, <1>5 DEF Calmed
<1>7. n.stage = "cutoff" /\ n.question = q /\ n.batch = b /\ n.models = <<>> /\ n.items = <<>>
  BY <1>1, <1>4 DEF Begun
<1>8. Untouched(pr, q, b) => Fresh(pr, n)
  <2>1. DOMAIN n.items = {}
    BY <1>7
  <2>2. QED
    BY <1>7, <2>1 DEF Fresh, Untouched
<1>9. ASSUME NEW k \in {"MAGNITUDE", "LIQUIDITY"}, NEW d \in Batches, Plain(k, d)
      PROVE  \/ Complete(pr, out, k, d)
             \/ Untouched(pr, k, d) /\ \A s \in Runners : ~On(run'[s], k, d)
             \/ \E s \in Runners : On(run'[s], k, d) /\ Fresh(pr, run'[s])
  <2>1. Complete(pr, out, k, d) \/ Untouched(pr, k, d)
    BY <1>3, <1>4, <1>5, <1>9 DEF WholeInv, Whole, On
  <2>2. CASE k = q /\ d = b
    BY <1>4, <1>7, <1>8, <2>1, <2>2 DEF On
  <2>3. CASE ~ (k = q /\ d = b)
    BY <1>4, <1>6, <1>7, <2>1, <2>3 DEF On
  <2>4. QED
    BY <2>2, <2>3
<1>10. ByItsBatch(out)
  BY <1>3, <1>4 DEF WholeInv
<1>11. QED
  BY <1>4, <1>9, <1>10 DEF WholeInv, Whole

LEMMA ContextWhole == ASSUME WayInv, WholeInv, ContextChanges PROVE WholeInv'
<1>1. UNCHANGED <<journals, deaths, refused, overlapped>> /\ \A s \in Runners : Calmed(run[s], run'[s])
  BY ContextMoves DEF WayInv, LearnInv
<1>2. PICK pr, out : pr = predictions /\ pr = predictions' /\ out = outcomes /\ out = outcomes'
  BY <1>1 DEF journals
<1>3. SUFFICES ASSUME Undisturbed, Undisturbed' PROVE WholeInv'
  BY <1>1 DEF WholeInv, Undisturbed, Undying
<1>4. ASSUME NEW s \in Runners, NEW q, NEW b
      PROVE  (On(run'[s], q, b) <=> On(run[s], q, b)) /\ (Fresh(pr, run[s]) => Fresh(pr, run'[s]))
  BY <1>1, FreshGoes DEF Calmed, SameWork, On
<1>5. \A q \in {"MAGNITUDE", "LIQUIDITY"}, b \in Batches : Plain(q, b) =>
        \/ Complete(pr, out, q, b)
        \/ Untouched(pr, q, b) /\ \A s \in Runners : ~On(run'[s], q, b)
        \/ \E s \in Runners : On(run'[s], q, b) /\ Fresh(pr, run'[s])
  BY <1>2, <1>3, <1>4 DEF WholeInv, Whole
<1>6. ByItsBatch(out)
  BY <1>2, <1>3 DEF WholeInv
<1>7. QED
  BY <1>2, <1>5, <1>6 DEF WholeInv, Whole

LEMMA DieDisturbs == ASSUME WayInv, NEW r \in Runners, Die(r) PROVE ~Undisturbed'
<1>1. deaths' = deaths + 1 /\ deaths \in Nat
  BY DEF Die, market, WayInv, LearnInv
<1>2. deaths' # 0
  BY <1>1
<1>3. QED
  BY <1>2 DEF Undisturbed, Undying

LEMMA LeaseHeldDisturbs == ASSUME NEW r \in Runners, LeaseHeld(r) PROVE ~Undisturbed'
BY DEF LeaseHeld, Undisturbed

LEMMA WholeStarts == ASSUME LoopInit PROVE WholeInv
<1>1. predictions = <<>> /\ outcomes = <<>> /\ run = [r \in Runners |-> Idle]
  BY DEF LoopInit
<1>2. ToSet(predictions) = {} /\ ToSet(outcomes) = {} /\ \A r \in Runners : run[r].stage = "idle"
  BY <1>1, IdleIs DEF ToSet
<1>3. QED
  BY <1>2 DEF WholeInv, ByItsBatch, Whole, Untouched, On

LEMMA WholeKeeps == ASSUME WayInv, WholeInv, [LoopNext]_loopVars PROVE WholeInv'
<1>1. CASE UNCHANGED loopVars
  <2>1. UNCHANGED <<predictions, outcomes, run, deaths, refused, overlapped>>
    BY <1>1 DEF loopVars, counters, journals
  <2>2. QED
    BY <2>1 DEF WholeInv, Undisturbed, Undying, Whole
<1>2. ASSUME NEW r \in Runners, LeaseHeld(r) \/ Die(r) PROVE WholeInv'
  BY <1>2, LeaseHeldDisturbs, DieDisturbs DEF WholeInv
<1>3. QED
  BY <1>1, <1>2, StepsAre, ContextWhole, BeginWhole, NextCutoffWhole, ReuseWhole, PredictWhole, EndOfCutoffsWhole,
     ResolveWhole, LaterWhole

-----------------------------------------------------------------------------
(* What a rerun reads.                                                      *)

\* The assembly of a question reads the predictions, what is decided of them,
\* the scores, the memory and the context.
LEMMA SelectsAlike ==
  ASSUME predictions' = predictions
  PROVE  \A q, t : /\ Rows(q, t)' = Rows(q, t) /\ Eligible(q, t)' = Eligible(q, t) /\ Selected(q, t)' = Selected(q, t)
                   /\ SelectCutoff(q, t)' = SelectCutoff(q, t)
<1>1. \A q, t : Rows(q, t)' = Rows(q, t)
  BY DEF Rows
<1>2. \A q, t, c : RowsAt(q, t, c)' = RowsAt(q, t, c)
  BY <1>1 DEF RowsAt
<1>3. \A q, t : Eligible(q, t)' = Eligible(q, t)
  BY <1>1, <1>2 DEF Eligible
<1>4. \A q, t : SelectCutoff(q, t)' = SelectCutoff(q, t)
  BY <1>3 DEF SelectCutoff
<1>5. \A q, t : Selected(q, t)' = Selected(q, t)
  BY <1>2, <1>4 DEF Selected
<1>6. QED
  BY <1>1, <1>3, <1>4, <1>5

LEMMA EnvelopeAlike ==
  ASSUME predictions' = predictions, newest' = newest, NEW ev, NEW ev2,
         Items(ev2, "score") = Items(ev, "score"), Competence(ev2) = Competence(ev)
  PROVE  \A q, t : Envelope(q, t, ev2)' = Envelope(q, t, ev)
<1>1. \A t : ScoredBy(ev2, t) = ScoredBy(ev, t)
  BY DEF ScoredBy
<1>2. \A q, t : Selected(q, t)' = Selected(q, t) /\ SelectCutoff(q, t)' = SelectCutoff(q, t)
  BY SelectsAlike
<1>3. SUFFICES ASSUME NEW q, NEW t PROVE Envelope(q, t, ev2)' = Envelope(q, t, ev)
  OBVIOUS
<1>4. /\ Selected(q, t)' = Selected(q, t) /\ SelectCutoff(q, t)' = SelectCutoff(q, t)
      /\ ScoredBy(ev2, t) = ScoredBy(ev, t) /\ Competence(ev2) = Competence(ev) /\ newest' = newest
  BY <1>1, <1>2
<1>5. QED
  BY <1>4 DEF Envelope

LEMMA BlockedAlike ==
  ASSUME predictions' = predictions, outcomes' = outcomes, NEW ev,
         (PredictionsValid /\ OutcomesValid)', PredictionsValid /\ OutcomesValid
  PROVE  \A q, t : Blocked(q, t, ev)' <=> Blocked(q, t, ev)
<1>1. \A q, t : Rows(q, t)' = Rows(q, t) /\ Selected(q, t)' = Selected(q, t) /\ Eligible(q, t)' = Eligible(q, t)
  BY SelectsAlike
<1>2. \A p : OutcomeOf(p)' = OutcomeOf(p)
  BY DEF OutcomeOf
<1>3. \A p, t : Contributes(p, ev, t)' <=> Contributes(p, ev, t)
  BY <1>2 DEF Contributes
<1>4. QED
  BY <1>1, <1>3 DEF Blocked

\* A synthesis reads the assemblies and the context.
LEMMA SynthesisAlike ==
  ASSUME newest' = newest, ToSet(Items(events', "assembly")) = ToSet(Items(events, "assembly"))
  PROVE  \A t : (Conflict(t)' <=> Conflict(t)) /\ Synthesis(t)' = Synthesis(t)
<1>1. \A t : KnownAssemblies(t)' = KnownAssemblies(t)
  BY DEF KnownAssemblies
<1>2. \A q, t : LatestOf(q, t)' = LatestOf(q, t)
  BY <1>1 DEF LatestOf
<1>3. QED
  BY <1>2 DEF Conflict, Synthesis

LEMMA StatesAreValid == ASSUME WayInv, Undisturbed PROVE PredictionsValid /\ OutcomesValid
BY DEF WayInv, Undisturbed, Undying, PredictionsValid, OutcomesValid

\* Where nothing is written all of it stays as it was.
LEMMA RestAlike ==
  ASSUME UNCHANGED <<predictions, outcomes, events, newest>>, (PredictionsValid /\ OutcomesValid)', PredictionsValid /\ OutcomesValid
  PROVE  \A q, t : /\ Blocked(q, t, events)' <=> Blocked(q, t, events)
                   /\ Assembled(q, t)' <=> Assembled(q, t)
                   /\ Concluded(t)' <=> Concluded(t)
                   /\ Envelope(q, t, events)' = Envelope(q, t, events)
                   /\ Synthesis(t)' = Synthesis(t)
<1>1. PICK ev : ev = events /\ ev = events'
  OBVIOUS
<1>2. \A q, t : Blocked(q, t, ev)' <=> Blocked(q, t, ev)
  BY BlockedAlike
<1>3. \A q, t : Envelope(q, t, ev)' = Envelope(q, t, ev)
  BY EnvelopeAlike
<1>4. \A t : (Conflict(t)' <=> Conflict(t)) /\ Synthesis(t)' = Synthesis(t)
  BY SynthesisAlike
<1>5. \A q, t : Assembled(q, t)' <=> Assembled(q, t)
  BY <1>1, <1>3 DEF Assembled
<1>6. \A t : Concluded(t)' <=> Concluded(t)
  BY <1>1, <1>4 DEF Concluded
<1>7. QED
  BY <1>1, <1>2, <1>3, <1>4, <1>5, <1>6

-----------------------------------------------------------------------------
(* A sync leaves nothing undone.                                            *)

LEMMA RankTells ==
  ASSUME NEW n \in Nat, NEW P \in SUBSET (1..n), NEW i \in P, NEW j \in P, Rank(P, i) = Rank(P, j)
  PROVE  i = j
<1>1. ASSUME NEW k \in P, NEW l \in P, k < l PROVE Rank(P, k) < Rank(P, l)
  <2>1. \A x \in P : x \in Int
    OBVIOUS
  <2>2. PICK A, B : A = {x \in P : x <= k} /\ B = {x \in P : x <= l}
    OBVIOUS
  <2>0. (\A x \in P : x <= k => x <= l) /\ l <= l /\ ~ (l <= k)
    BY <1>1, <2>1
  <2>3. A \subseteq B /\ l \in B /\ l \notin A
    BY <2>0, <2>2
  <2>4. IsFiniteSet(B)
    BY <2>2, SpotsAreFinite, FS_Subset
  <2>5. Cardinality(A) \in Nat /\ Cardinality(B) \in Nat /\ Cardinality(A) <= Cardinality(B) /\ Cardinality(A) # Cardinality(B)
    BY <2>3, <2>4, FS_Subset, FS_CardinalityType
  <2>6. QED
    BY <2>2, <2>5 DEF Rank
<1>2. i \in Nat /\ j \in Nat
  OBVIOUS
<1>3. Rank(P, i) \in Nat /\ Rank(P, j) \in Nat
  BY <1>2, RankIs
<1>4. ~ (i < j) /\ ~ (j < i)
  BY <1>1, <1>3
<1>5. QED
  BY <1>2, <1>4

LEMMA ThoseCover ==
  ASSUME NEW S, NEW s \in Seq(S), NEW P \in SUBSET (DOMAIN s), NEW i \in P
  PROVE  \E k \in DOMAIN Those(s, P) : Those(s, P)[k] = s[i]
<1>1. PICK n \in Nat : DOMAIN s = 1..n /\ P \in SUBSET (1..n)
  OBVIOUS
<1>2. PICK k : k = Rank(P, i)
  OBVIOUS
<1>3. i \in 1..n /\ i - 1 \in Nat
  BY <1>1
<1>4. k \in Nat /\ k <= Cardinality(P) /\ Cardinality(P) \in Nat /\ k = Rank(P, i - 1) + 1 /\ Rank(P, i - 1) \in Nat
  BY <1>1, <1>2, <1>3, RankIs
<1>5. k \in 1 .. Cardinality(P)
  BY <1>4
<1>6. /\ DOMAIN Those(s, P) = 1 .. Cardinality(P)
      /\ Nth(P, k) \in P /\ Rank(P, Nth(P, k)) = k /\ Those(s, P)[k] = s[Nth(P, k)]
  BY <1>5, ThoseAre
<1>7. Nth(P, k) = i
  BY <1>1, <1>2, <1>6, RankTells
<1>8. QED
  BY <1>5, <1>6, <1>7

LEMMA ThoseOfNone ==
  ASSUME NEW s
  PROVE  DOMAIN Those(s, {}) = {}
BY FS_EmptySet DEF Those

LEMMA NoSteps ==
  ASSUME NEW S, NEW s \in Seq(S), DOMAIN s = {}
  PROVE  s = <<>>
<1>1. Len(s) \in Nat /\ DOMAIN s = 1..Len(s)
  BY LenProperties
<1>2. 1 \notin 1..Len(s)
  BY <1>1
<1>3. Len(s) = 0
  BY <1>1, <1>2
<1>4. QED
  BY <1>3, EmptySeq

LEMMA ClaimsCover ==
  ASSUME predictions \in Seq(APrediction), NEW t, NEW ev, NEW e \in ToSet(predictions), Known(e, t)
  PROVE  e \in ToSet(Items(ev, "claim")) \/ \E k \in DOMAIN NewClaims(t, ev) : NewClaims(t, ev)[k] = e
<1>1. PICK claimed, P :
        /\ claimed = ToSet(Items(ev, "claim"))
        /\ P = {i \in DOMAIN predictions : Known(predictions[i], t) /\ predictions[i] \notin claimed}
  OBVIOUS
<1>2. NewClaims(t, ev) = Those(predictions, P)
  BY <1>1 DEF NewClaims
<1>3. PICK i \in DOMAIN predictions : predictions[i] = e
  BY DEF ToSet
<1>4. PICK pr \in Seq(APrediction) : pr = predictions /\ P \in SUBSET (DOMAIN pr)
  BY <1>1
<1>5. CASE i \in P
  <2>1. \E k \in DOMAIN Those(pr, P) : Those(pr, P)[k] = pr[i]
    BY <1>4, <1>5, ThoseCover
  <2>2. QED
    BY <1>2, <1>3, <1>4, <2>1
<1>6. CASE i \notin P
  BY <1>1, <1>3, <1>6
<1>7. QED
  BY <1>5, <1>6

LEMMA NoClaims ==
  ASSUME predictions \in Seq(APrediction), NEW t, NEW ev,
         \A e \in ToSet(predictions) : Known(e, t) => e \in ToSet(Items(ev, "claim"))
  PROVE  NewClaims(t, ev) = <<>>
<1>1. PICK claimed, P :
        /\ claimed = ToSet(Items(ev, "claim"))
        /\ P = {i \in DOMAIN predictions : Known(predictions[i], t) /\ predictions[i] \notin claimed}
  OBVIOUS
<1>2. NewClaims(t, ev) = Those(predictions, P)
  BY <1>1 DEF NewClaims
<1>3. P = {}
  BY <1>1 DEF ToSet
<1>4. DOMAIN NewClaims(t, ev) = {}
  BY <1>2, <1>3, ThoseOfNone
<1>5. PICK new \in Seq(APrediction) : new = NewClaims(t, ev)
  BY NewClaimsAre
<1>6. QED
  BY <1>4, <1>5, NoSteps

Due(out, e, t) == \E o \in ToSet(out) : o.prediction = e /\ o.status = "RESOLVED" /\ o.decided <= t
LEMMA ScoresCover ==
  ASSUME predictions \in Seq(APrediction), NEW t, NEW ev, NEW e \in ToSet(predictions), Known(e, t), Due(outcomes, e, t)
  PROVE  \/ \E s \in ToSet(Items(ev, "score")) : s.claim = e
         \/ \E k \in DOMAIN NewScores(t, ev) : NewScores(t, ev)[k].prediction = e
<1> DEFINE decided(p) == {o \in OutcomeOf(p) : o.status = "RESOLVED" /\ o.decided <= t}
<1>1. PICK scored, P :
        /\ scored = {s.claim : s \in ToSet(Items(ev, "score"))}
        /\ P = {i \in DOMAIN predictions : Known(predictions[i], t) /\ predictions[i] \notin scored /\ decided(predictions[i]) # {}}
  OBVIOUS
<1>2. PICK due : due = Those(predictions, P)
  OBVIOUS
<1>3. NewScores(t, ev) = [i \in DOMAIN due |-> CHOOSE o \in decided(due[i]) : TRUE]
  BY <1>1, <1>2 DEF NewScores
<1>4. PICK i \in DOMAIN predictions : predictions[i] = e
  BY DEF ToSet
<1>5. PICK pr \in Seq(APrediction) : pr = predictions /\ P \in SUBSET (DOMAIN pr)
  BY <1>1
<1>6. decided(e) # {}
  BY DEF Due, OutcomeOf
<1>7. CASE i \in P
  <2>1. \E k \in DOMAIN Those(pr, P) : Those(pr, P)[k] = pr[i]
    BY <1>5, <1>7, ThoseCover
  <2>2. PICK k \in DOMAIN due : due[k] = e
    BY <1>2, <1>4, <1>5, <2>1
  <2>3. PICK new : new = NewScores(t, ev)
    OBVIOUS
  <2>4. k \in DOMAIN new /\ new[k] = CHOOSE o \in decided(e) : TRUE
    BY <1>3, <2>2, <2>3
  <2>5. new[k] \in decided(e)
    BY <1>6, <2>4
  <2>6. new[k].prediction = e
    BY <2>5 DEF OutcomeOf
  <2>7. QED
    BY <2>3, <2>4, <2>6
<1>8. CASE i \notin P
  BY <1>1, <1>4, <1>6, <1>8
<1>9. QED
  BY <1>7, <1>8

LEMMA NoScores ==
  ASSUME predictions \in Seq(APrediction), outcomes \in Seq(AnOutcome), Unique(predictions), NEW t, NEW ev,
         \A e \in ToSet(predictions) : Known(e, t) /\ Due(outcomes, e, t) => \E s \in ToSet(Items(ev, "score")) : s.claim = e
  PROVE  NewScores(t, ev) = <<>>
<1> DEFINE decided(p) == {o \in OutcomeOf(p) : o.status = "RESOLVED" /\ o.decided <= t}
<1>1. PICK scored, P :
        /\ scored = {s.claim : s \in ToSet(Items(ev, "score"))}
        /\ P = {i \in DOMAIN predictions : Known(predictions[i], t) /\ predictions[i] \notin scored /\ decided(predictions[i]) # {}}
  OBVIOUS
<1>2. PICK due : due = Those(predictions, P)
  OBVIOUS
<1>3. NewScores(t, ev) = [i \in DOMAIN due |-> CHOOSE o \in decided(due[i]) : TRUE]
  BY <1>1, <1>2 DEF NewScores
<1>4. \A e : decided(e) # {} => Due(outcomes, e, t)
  BY DEF Due, OutcomeOf
<1>5. P = {}
  <2>1. SUFFICES ASSUME NEW i \in P PROVE FALSE
    OBVIOUS
  <2>2. PICK e : e = predictions[i] /\ e \in ToSet(predictions)
    BY <1>1, <2>1 DEF ToSet
  <2>3. Known(e, t) /\ e \notin scored /\ decided(e) # {}
    BY <1>1, <2>1, <2>2
  <2>4. QED
    BY <1>1, <1>4, <2>2, <2>3
<1>6. DOMAIN due = {}
  BY <1>2, <1>5, ThoseOfNone
<1>7. PICK new \in Seq(AnOutcome) : new = NewScores(t, ev)
  BY NewScoresAre
<1>8. DOMAIN new = {}
  BY <1>3, <1>6, <1>7
<1>9. QED
  BY <1>7, <1>8, NoSteps

Gathers(ev, e, ev2) ==
  \A type : ToSet(Items(ev2, type)) = ToSet(Items(ev, type)) \cup {x \in {e.item} : e.type = type}
LEMMA ItemsJoin ==
  ASSUME NEW ev, IsSeq(ev), NEW e, NEW ev2, ev2 = Append(ev, e)
  PROVE  Gathers(ev, e, ev2)
<1>1. Joined(ev, e, ev2)
  BY EventJoins
<1>2. PICK S : ev \in Seq(S)
  BY DEF IsSeq
<1>3. PICK U, T : U = {x.item : x \in S} /\ T = U \cup {e.item}
  OBVIOUS
<1>4. ASSUME NEW type PROVE ToSet(Items(ev2, type)) = ToSet(Items(ev, type)) \cup {x \in {e.item} : e.type = type}
  <2>1. PICK s, x : s = Items(ev, type) /\ x = e.item
    OBVIOUS
  <2>2. s \in Seq(U)
    BY <1>2, <1>3, <2>1, ItemsAre
  <2>3. s \in Seq(T) /\ x \in T
    BY <1>3, <2>1, <2>2
  <2>4. ToSet(Append(s, x)) = ToSet(s) \cup {x}
    BY <2>3, Ending
  <2>5. Items(ev2, type) = IF e.type = type THEN Append(s, x) ELSE s
    BY <1>1, <2>1 DEF Joined
  <2>6. QED
    BY <2>1, <2>4, <2>5
<1>5. QED
  BY <1>4 DEF Gathers

LEMMA SyncedJoins ==
  ASSUME NEW ev, IsSeq(ev), NEW queue, IsSeq(queue), queue # <<>>, NEW ev2, ev2 = Append(ev, Head(queue)),
         NEW pr, NEW out, NEW t, Synced(pr, out, ev, queue, t)
  PROVE  Synced(pr, out, ev2, Tail(queue), t)
<1>1. PICK e : e = Head(queue)
  OBVIOUS
<1>2. Gathers(ev, e, ev2)
  BY <1>1, ItemsJoin
<1>3. PICK S : queue \in Seq(S)
  BY DEF IsSeq
<1>4. \A j \in DOMAIN queue : queue[j] = e \/ \E k \in DOMAIN Tail(queue) : queue[j] = Tail(queue)[k]
  BY <1>1, <1>3, Beginning
<1>5. \A x : Claimed(ev, queue, x) => Claimed(ev2, Tail(queue), x)
  <2>1. SUFFICES ASSUME NEW x, Claimed(ev, queue, x) PROVE Claimed(ev2, Tail(queue), x)
    OBVIOUS
  <2>2. CASE x \in ToSet(Items(ev, "claim"))
    BY <1>2, <2>2 DEF Claimed, Gathers
  <2>3. CASE \E j \in DOMAIN queue : queue[j].type = "claim" /\ queue[j].item = x
    <3>1. PICK j \in DOMAIN queue : queue[j].type = "claim" /\ queue[j].item = x
      BY <2>3
    <3>2. CASE queue[j] = e
      BY <1>2, <3>1, <3>2 DEF Claimed, Gathers
    <3>3. CASE \E k \in DOMAIN Tail(queue) : queue[j] = Tail(queue)[k]
      BY <3>1, <3>3 DEF Claimed
    <3>4. QED
      BY <1>4, <3>2, <3>3
  <2>4. QED
    BY <2>1, <2>2, <2>3 DEF Claimed
<1>6. \A x : Scored(ev, queue, x) => Scored(ev2, Tail(queue), x)
  <2>1. SUFFICES ASSUME NEW x, Scored(ev, queue, x) PROVE Scored(ev2, Tail(queue), x)
    OBVIOUS
  <2>2. CASE \E s \in ToSet(Items(ev, "score")) : s.claim = x
    BY <1>2, <2>2 DEF Scored, Gathers
  <2>3. CASE \E j \in DOMAIN queue : queue[j].type = "score" /\ queue[j].item.claim = x
    <3>1. PICK j \in DOMAIN queue : queue[j].type = "score" /\ queue[j].item.claim = x
      BY <2>3
    <3>2. CASE queue[j] = e
      BY <1>2, <3>1, <3>2 DEF Scored, Gathers
    <3>3. CASE \E k \in DOMAIN Tail(queue) : queue[j] = Tail(queue)[k]
      BY <3>1, <3>3 DEF Scored
    <3>4. QED
      BY <1>4, <3>2, <3>3
  <2>4. QED
    BY <2>1, <2>2, <2>3 DEF Scored
<1>7. QED
  BY <1>5, <1>6 DEF Synced

LEMMA SyncedStays ==
  ASSUME NEW ev, IsSeq(ev), NEW e, NEW ev2, ev2 = Append(ev, e), NEW pr, NEW out, NEW t, Synced(pr, out, ev, <<>>, t)
  PROVE  Synced(pr, out, ev2, <<>>, t)
<1>0. Gathers(ev, e, ev2)
  BY ItemsJoin
<1>1. \A type : ToSet(Items(ev, type)) \subseteq ToSet(Items(ev2, type))
  BY <1>0 DEF Gathers
<1>2. \A x : (Claimed(ev, <<>>, x) => Claimed(ev2, <<>>, x)) /\ (Scored(ev, <<>>, x) => Scored(ev2, <<>>, x))
  BY <1>1 DEF Claimed, Scored
<1>3. QED
  BY <1>2 DEF Synced

\* What a sync decides on is all there is to do, and where it was done it is
\* nothing.
LEMMA SyncDoes ==
  ASSUME predictions \in Seq(APrediction), outcomes \in Seq(AnOutcome), Unique(predictions), NEW t, NEW ev,
         NEW claims, claims = NewClaims(t, ev), NEW scores, scores = NewScores(t, ev), NEW queue,
         queue = [i \in DOMAIN claims |-> Claim(claims[i])] \o [i \in DOMAIN scores |-> Score(scores[i])]
  PROVE  /\ Synced(predictions, outcomes, ev, queue, t)
         /\ Synced(predictions, outcomes, ev, <<>>, t) => scores = <<>> /\ queue = <<>>
<1>1. claims \in Seq(APrediction) /\ scores \in Seq(AnOutcome)
  BY NewClaimsAre, NewScoresAre
<1>2. PICK n \in Nat, m \in Nat : n = Len(claims) /\ m = Len(scores) /\ DOMAIN claims = 1..n /\ DOMAIN scores = 1..m
  BY <1>1
<1>3. PICK a, b : a = [i \in 1..n |-> Claim(claims[i])] /\ b = [i \in 1..m |-> Score(scores[i])]
  OBVIOUS
<1>4. PICK T : T = {Claim(claims[i]) : i \in 1..n} \cup {Score(scores[i]) : i \in 1..m}
  OBVIOUS
<1>5. a \in [1..n -> T] /\ b \in [1..m -> T]
  <2>1. \A i \in 1..n : Claim(claims[i]) \in T
    BY <1>4
  <2>2. \A i \in 1..m : Score(scores[i]) \in T
    BY <1>4
  <2>3. QED
    BY <1>3, <2>1, <2>2
<1>6. a \in Seq(T) /\ b \in Seq(T) /\ Len(a) = n /\ Len(b) = m
  <2>1. n \in Nat /\ m \in Nat
    BY <1>2
  <2>2. a \in Seq(T) /\ Len(a) = n
    BY <1>5, <2>1
  <2>3. b \in Seq(T) /\ Len(b) = m
    BY <1>5, <2>1
  <2>4. QED
    BY <2>2, <2>3
<1>7. queue = a \o b
  BY <1>2, <1>3
<1>8. queue \in Seq(T) /\ Follows(queue, a, b, n, m)
  BY <1>6, <1>7, Joining
<1>9. \A x \in APrediction : Claim(x).type = "claim" /\ Claim(x).item = x
  BY DEF Claim, Event
<1>10. \A o \in AnOutcome : Score(o).type = "score" /\ Score(o).item.claim = o.prediction
  BY DEF Score, Event
<1>11. ASSUME NEW e \in ToSet(predictions), Known(e, t) PROVE Claimed(ev, queue, e)
  <2>1. CASE e \in ToSet(Items(ev, "claim"))
    BY <2>1 DEF Claimed
  <2>2. CASE \E k \in DOMAIN claims : claims[k] = e
    <3>1. PICK k \in 1..n : claims[k] = e
      BY <1>2, <2>2
    <3>2. k \in DOMAIN queue /\ queue[k] = a[k] /\ a[k] = Claim(e) /\ e \in APrediction
      BY <1>1, <1>2, <1>3, <1>8, <3>1 DEF Follows
    <3>3. queue[k].type = "claim" /\ queue[k].item = e
      BY <1>9, <3>2
    <3>4. QED
      BY <3>2, <3>3 DEF Claimed
  <2>3. QED
    BY <1>11, <2>1, <2>2, ClaimsCover
<1>12. ASSUME NEW e \in ToSet(predictions), Known(e, t), Due(outcomes, e, t) PROVE Scored(ev, queue, e)
  <2>1. CASE \E s \in ToSet(Items(ev, "score")) : s.claim = e
    BY <2>1 DEF Scored
  <2>2. CASE \E k \in DOMAIN scores : scores[k].prediction = e
    <3>1. PICK k \in 1..m : scores[k].prediction = e /\ scores[k] \in AnOutcome
      BY <1>1, <1>2, <2>2
    <3>2. PICK j : j = n + k
      OBVIOUS
    <3>3. j \in (n + 1) .. (n + m) /\ j \in 1 .. (n + m) /\ j - n = k
      BY <3>2
    <3>4. j \in DOMAIN queue /\ queue[j] = b[k] /\ b[k] = Score(scores[k])
      BY <1>3, <1>8, <3>1, <3>3 DEF Follows
    <3>5. queue[j].type = "score" /\ queue[j].item.claim = e
      BY <1>10, <3>1, <3>4
    <3>6. QED
      BY <3>4, <3>5 DEF Scored
  <2>3. QED
    BY <1>12, <2>1, <2>2, ScoresCover
<1>13. Synced(predictions, outcomes, ev, queue, t)
  BY <1>11, <1>12 DEF Synced, Due
<1>14. ASSUME Synced(predictions, outcomes, ev, <<>>, t) PROVE scores = <<>> /\ queue = <<>>
  <2>1. \A e \in ToSet(predictions) : Known(e, t) => e \in ToSet(Items(ev, "claim"))
    BY <1>14 DEF Synced, Claimed
  <2>2. \A e \in ToSet(predictions) : Known(e, t) /\ Due(outcomes, e, t) => \E s \in ToSet(Items(ev, "score")) : s.claim = e
    BY <1>14 DEF Synced, Scored, Due
  <2>3. claims = <<>> /\ scores = <<>>
    BY <2>1, <2>2, NoClaims, NoScores
  <2>4. n = 0 /\ m = 0
    BY <1>2, <2>3, EmptySeq
  <2>5. DOMAIN queue = {}
    <3>1. 1 .. (n + m) = {}
      BY <2>4
    <3>2. QED
      BY <1>8, <3>1 DEF Follows
  <2>6. QED
    BY <1>8, <2>3, <2>5, NoSteps
<1>15. QED
  BY <1>13, <1>14

-----------------------------------------------------------------------------
(* A run that does again what was done last.                                *)

\* The entry it finds is settled: the one of its own question, which nothing
\* comes before, or another question's, whose batch holds all or nothing.
LEMMA MatchSettled ==
  ASSUME WayInv, WholeInv, Undisturbed, NEW q \in Questions, NEW b \in Batches, <<q, b>> \in completed,
         NEW r \in Runners, On(run[r], q, b), NEW c \in Examined(q, b), NEW m, Found(predictions, q, c, m),
         NEW entry, entry = Match(q, c, m)
  PROVE  Settled(outcomes, b, entry)
<1>1. PICK pr, out : pr = predictions /\ out = outcomes
  OBVIOUS
<1>2. /\ pr \in Seq(APrediction) /\ Unique(pr) /\ OneRun /\ Complete(pr, out, q, b) /\ Made(pr) /\ Plain(q, b)
  BY <1>1 DEF WayInv, LearnInv, LoopInv, LoopTyped, AllDecided, Undisturbed, Undying
<1>3. PICK i \in Rivals(q, c, m) : entry = predictions[i] /\ \A j \in Rivals(q, c, m) : ~ (j < i)
  BY <1>1, <1>2, MatchFirst
<1>4. /\ i \in DOMAIN pr /\ entry = pr[i] /\ entry.cutoff = c /\ entry.model = m /\ entry \in APrediction
      /\ q # "DIRECTION" => entry.question = q
  BY <1>1, <1>2, <1>3 DEF Rivals
<1>5. entry \in ToSet(pr) /\ entry.question \in Questions
  BY <1>4 DEF ToSet, APrediction
<1>6. CASE entry.question = q
  <2>1. Answered(pr, out, b, entry)
    BY <1>2, <1>4, <1>5, <1>6 DEF Complete
  <2>2. ASSUME q = "DIRECTION", Hidden(pr, entry) PROVE FALSE
    <3>1. PICK k \in DOMAIN pr, j \in DOMAIN pr :
            k < j /\ pr[j] = entry /\ pr[k].cutoff = entry.cutoff /\ pr[k].model = entry.model
      BY <2>2 DEF Hidden
    <3>2. j = i
      BY <1>2, <1>4, <3>1 DEF Unique, SameKey
    <3>3. k \in Rivals(q, c, m)
      BY <1>1, <1>4, <2>2, <3>1 DEF Rivals
    <3>4. QED
      BY <1>3, <3>1, <3>2, <3>3
  <2>3. QED
    BY <1>1, <1>6, <2>1, <2>2 DEF Answered, Settled
<1>7. CASE entry.question # q
  <2>1. PICK k \in Questions : k = entry.question /\ k # q /\ q = "DIRECTION" /\ k \in {"MAGNITUDE", "LIQUIDITY"}
    BY <1>4, <1>5, <1>7 DEF Questions
  <2>2. PICK d \in Batches : c \in Examined(k, d)
    BY <1>2, <1>4, <1>5, <2>1 DEF Made
  <2>3. c \in Examined(k, b)
    BY <2>2, OfOneBatch
  <2>4. Plain(k, b)
    BY <1>2, <2>1, CutoffsAre DEF Plain
  <2>5. Whole(pr, out, k, b)
    BY <1>1, <2>1, <2>4 DEF WholeInv
  <2>6. ~ \E s \in Runners : On(run[s], k, b)
    BY <1>2, <2>1 DEF OneRun, On
  <2>7. ~Untouched(pr, k, b)
    BY <1>4, <1>5, <2>1, <2>3 DEF Untouched
  <2>8. Complete(pr, out, k, b)
    BY <2>5, <2>6, <2>7 DEF Whole
  <2>9. Answered(pr, out, b, entry)
    BY <1>4, <1>5, <2>1, <2>3, <2>8 DEF Complete
  <2>10. QED
    BY <1>1, <2>1, <2>9 DEF Answered, Settled
<1>8. QED
  BY <1>6, <1>7

\* What is known of it, and what is shown of each of its steps.
OwnStep(r) == NextCutoff(r) \/ Reuse(r) \/ Predict(r) \/ EndOfCutoffs(r) \/ Resolve(r) \/ LaterMove(r)
DoesAgain(r) == r \in Runners /\ Undisturbed /\ run[r].steady \in {"again", "moved"}
AddsNothing(r) ==
  /\ UNCHANGED <<predictions, outcomes, events>>
  /\ \/ Step(r, Idle)
     \/ \E n : Step(r, n) /\ Redoes(n) /\ (n.steady = "again" => newest' = newest)

LEMMA AgainIs ==
  ASSUME WayInv, AgainInv, NEW r, DoesAgain(r)
  PROVE  /\ ARun(run[r]) /\ OnItsWay(run[r]) /\ Redoes(run[r]) /\ Redo(run[r]) /\ run[r].stage # "idle"
         /\ Aims(events, behind, run[r]) /\ ~behind
         /\ run[r].question \in Questions /\ run[r].batch \in Batches
         /\ predictions \in Seq(APrediction) /\ outcomes \in Seq(AnOutcome) /\ Unique(predictions)
         /\ Complete(predictions, outcomes, run[r].question, run[r].batch) /\ StillThere(predictions, run[r])
<1>1. PICK p : p = run[r]
  OBVIOUS
<1>2. /\ ARun(p) /\ OnItsWay(p) /\ (p.stage = "idle" => p = Idle) /\ StillThere(predictions, p)
      /\ r \in Runners /\ Undisturbed /\ p.steady \in {"again", "moved"}
      /\ predictions \in Seq(APrediction) /\ outcomes \in Seq(AnOutcome) /\ Unique(predictions)
  BY <1>1, RunIs DEF WayInv, LearnInv, LoopInv, LoopTyped, AllDecided, DoesAgain, Undisturbed, Undying
<1>3. p.stage # "idle"
  <2>1. PICK idle, q : idle = Idle /\ idle = At(q)
    BY DEF Idle
  <2>2. idle.steady = "no"
    BY <2>1 DEF At
  <2>3. QED
    BY <1>2, <2>1, <2>2
<1>4. Redoes(p) /\ Redo(p)
  BY <1>1, <1>2 DEF AgainInv, Redoes
<1>5. p.question \in Questions /\ p.batch \in Batches
  BY <1>2, <1>3 DEF ARun
<1>6. Complete(predictions, outcomes, p.question, p.batch)
  BY <1>2, <1>4, <1>5 DEF Redo, WayInv, LearnInv, LoopInv, AllDecided, Undisturbed, Undying
<1>7. Aims(events, behind, p) /\ ~behind
  BY <1>1, <1>2, <1>3, RunAims DEF WayInv
<1>8. QED
  BY <1>1, <1>2, <1>3, <1>4, <1>5, <1>6, <1>7

LEMMA NextCutoffAgain == ASSUME WayInv, AgainInv, NEW r, DoesAgain(r), NextCutoff(r) PROVE AddsNothing(r)
<1>1. PICK p, pr, current, steady :
        /\ p = run[r] /\ pr = predictions /\ current = ContextOf(frames', Head(p.cutoffs)).frames
        /\ steady = IF p.steady = "again" /\ newest' # newest THEN "moved" ELSE p.steady
  OBVIOUS
<1>2. /\ ARun(p) /\ Fields(p) /\ p.stage = "cutoff" /\ p.cutoffs # <<>> /\ p.models = <<>> /\ OnItsWay(p) /\ Redoes(p)
      /\ UNCHANGED <<predictions, outcomes, events>> /\ Complete(pr, outcomes, p.question, p.batch)
  BY <1>1, AgainIs DEF NextCutoff, journals, runtimeVars, ARun
<1>3. \/ Step(r, Idle)
      \/ Step(r, [p EXCEPT !.cutoffs = Tail(p.cutoffs)]) /\ newest' = newest
      \/ /\ Head(p.cutoffs) \notin p.batch.absent \cup p.batch.degraded
         /\ Step(r, [p EXCEPT !.models = Models[p.question], !.context = current, !.seen = Seen(predictions, p.question), !.steady = steady])
  BY <1>1 DEF NextCutoff, Raise, Seen
<1>4. CASE Step(r, Idle)
  BY <1>2, <1>4 DEF AddsNothing
<1>5. CASE Step(r, [p EXCEPT !.cutoffs = Tail(p.cutoffs)]) /\ newest' = newest
  <2>1. PICK n, c : n = [p EXCEPT !.cutoffs = c] /\ c = Tail(p.cutoffs)
    OBVIOUS
  <2>2. /\ n.stage = "cutoff" /\ n.question = p.question /\ n.batch = p.batch /\ n.items = p.items /\ n.models = <<>>
        /\ n.queue = p.queue /\ n.steady = p.steady
    BY <1>2, <2>1 DEF Fields
  <2>3. Redoes(n)
    BY <1>2, <2>2 DEF Redoes, Redo, Again, Closing
  <2>4. QED
    BY <1>2, <1>5, <2>1, <2>3 DEF AddsNothing
<1>6. CASE /\ Head(p.cutoffs) \notin p.batch.absent \cup p.batch.degraded
           /\ Step(r, [p EXCEPT !.models = Models[p.question], !.context = current, !.seen = Seen(predictions, p.question), !.steady = steady])
  <2>1. PICK n : n = [p EXCEPT !.models = Models[p.question], !.context = current, !.seen = Seen(pr, p.question), !.steady = steady]
    OBVIOUS
  <2>2. /\ n.stage = "cutoff" /\ n.question = p.question /\ n.batch = p.batch /\ n.items = p.items
        /\ n.cutoffs = p.cutoffs /\ n.seen = Seen(pr, p.question) /\ n.models = Models[p.question]
        /\ n.queue = p.queue /\ n.steady = steady
    BY <1>2, <2>1 DEF Fields
  <2>3. Head(p.cutoffs) \in Examined(p.question, p.batch)
    <3>1. Head(p.cutoffs) \in ToSet(p.cutoffs)
      BY <1>2, Beginning DEF ARun
    <3>2. QED
      BY <1>2, <1>6, <3>1 DEF Examined, OnItsWay
  <2>4. \A m \in ToSet(Models[p.question]) : <<Head(n.cutoffs), m>> \in n.seen
    <3>1. SUFFICES ASSUME NEW m \in ToSet(Models[p.question]) PROVE <<Head(p.cutoffs), m>> \in n.seen
      BY <2>2
    <3>2. PICK e \in ToSet(pr) : e.question = p.question /\ e.cutoff = Head(p.cutoffs) /\ e.model = m
      BY <1>2, <2>3 DEF Complete, Found
    <3>3. QED
      BY <2>2, <3>2 DEF Seen
  <2>5. steady = "again" => p.steady = "again" /\ newest' = newest
    BY <1>1
  <2>6. Redo(n)
    BY <1>2, <2>2, <2>4 DEF Redoes, Redo, Closing
  <2>7. Redoes(n)
    BY <1>2, <2>2, <2>5, <2>6 DEF Redoes, Again
  <2>8. Step(r, n)
    BY <1>1, <1>6, <2>1
  <2>9. QED
    BY <1>2, <2>2, <2>5, <2>7, <2>8 DEF AddsNothing
<1>7. QED
  BY <1>3, <1>4, <1>5, <1>6

LEMMA ReuseAgain == ASSUME WayInv, WholeInv, AgainInv, NEW r, DoesAgain(r), Reuse(r) PROVE AddsNothing(r)
<1>1. /\ AtModel(run[r]) /\ Reuses(run[r]) /\ UNCHANGED <<predictions, outcomes, events, newest>> /\ r \in Runners
      /\ Found(predictions, run[r].question, Head(run[r].cutoffs), Head(run[r].models))
  BY ReuseMoves DEF WayInv, LearnInv, journals, runtimeVars, DoesAgain
<1>2. PICK entry \in APrediction, under \in Int : \E n :
        /\ entry = Match(run[r].question, Head(run[r].cutoffs), Head(run[r].models))
        /\ n = Recorded(run[r], entry, under) /\ Step(r, n)
  BY <1>1, ReuseMoves DEF WayInv, LearnInv
<1>3. PICK n, p : p = run[r] /\ n = Recorded(p, entry, under) /\ Step(r, n)
  BY <1>2
<1>4. Redoes(p) /\ Redo(p) /\ OnItsWay(p) /\ AtModel(p) /\ p.stage = "cutoff" /\ p.models # <<>>
  BY <1>1, <1>3, AgainIs DEF AtModel
<1>5. /\ n.stage = "cutoff" /\ n.question = p.question /\ n.batch = p.batch /\ n.seen = p.seen
      /\ n.models = Tail(p.models) /\ n.cutoffs = (IF Len(p.models) = 1 THEN Tail(p.cutoffs) ELSE p.cutoffs)
  BY <1>3, <1>4, RecordedIs
<1>6. /\ n.steady = p.steady /\ n.queue = p.queue
      /\ \A i \in DOMAIN n.items :
              \/ n.items[i].prediction = entry
              \/ \E j \in DOMAIN p.items : n.items[i] = p.items[j]
  BY <1>3, <1>4, RecordedItems
<1>7. /\ ToSet(p.models) = {Head(p.models)} \cup ToSet(Tail(p.models)) /\ (Len(p.models) = 1 <=> Tail(p.models) = <<>>)
      /\ p.question \in Questions /\ p.batch \in Batches
  BY <1>4, AtModelHas
<1>8. Settled(outcomes, p.batch, entry)
  <2>0. PICK q \in Questions, b \in Batches : q = p.question /\ b = p.batch
    BY <1>7
  <2>1. PICK c, m : c \in Examined(q, b) /\ c = Head(p.cutoffs) /\ m = Head(p.models)
    BY <1>4, <2>0 DEF OnItsWay
  <2>2. Undisturbed /\ On(run[r], q, b) /\ Found(predictions, q, c, m) /\ entry = Match(q, c, m) /\ <<q, b>> \in completed
    BY <1>1, <1>2, <1>3, <1>4, <2>0, <2>1 DEF DoesAgain, On, Redo
  <2>3. Settled(outcomes, b, entry)
    BY <1>1, <2>1, <2>2, MatchSettled
  <2>4. QED
    BY <2>0, <2>3
<1>9. \A i \in DOMAIN n.items : Settled(outcomes, n.batch, n.items[i].prediction)
  BY <1>4, <1>5, <1>6, <1>8 DEF Redo
<1>10. n.models # <<>> => \A m \in ToSet(n.models) : <<Head(n.cutoffs), m>> \in n.seen
  BY <1>4, <1>5, <1>7 DEF Redo
<1>11. Redoes(n)
  BY <1>4, <1>5, <1>6, <1>9, <1>10 DEF Redoes, Redo, Again, Closing
<1>12. QED
  BY <1>1, <1>3, <1>5, <1>6, <1>11 DEF AddsNothing

LEMMA PredictAgain == ASSUME WayInv, AgainInv, NEW r, DoesAgain(r) PROVE ~ (Recording(r) /\ ~Reuses(run[r]))
<1>1. PICK p : p = run[r]
  OBVIOUS
<1>2. SUFFICES ASSUME p.stage = "cutoff", p.models # <<>>, ~Reuses(p) PROVE FALSE
  BY <1>1 DEF Recording
<1>3. AtModel(p) /\ Redo(p)
  BY <1>1, <1>2, AgainIs DEF AtModel
<1>4. Head(p.models) \in ToSet(p.models)
  BY <1>3, AtModelHas
<1>5. QED
  BY <1>2, <1>3, <1>4 DEF Redo, Reuses

LEMMA EndOfCutoffsAgain == ASSUME WayInv, AgainInv, NEW r, DoesAgain(r), EndOfCutoffs(r) PROVE AddsNothing(r)
<1>1. PICK p, n : p = run[r] /\ n = [p EXCEPT !.stage = "resolve"]
  OBVIOUS
<1>2. /\ Fields(p) /\ Redoes(p) /\ p.stage = "cutoff" /\ UNCHANGED <<predictions, outcomes, events, newest>>
      /\ Step(r, Idle) \/ Step(r, n)
  BY <1>1, AgainIs DEF EndOfCutoffs, market, Raise, ARun, journals, runtimeVars
<1>3. /\ n.stage = "resolve" /\ n.question = p.question /\ n.batch = p.batch /\ n.items = p.items /\ n.models = p.models
      /\ n.cutoffs = p.cutoffs /\ n.seen = p.seen /\ n.queue = p.queue /\ n.steady = p.steady
  BY <1>1, <1>2 DEF Fields
<1>4. Redoes(n)
  BY <1>2, <1>3 DEF Redoes, Redo, Again, Closing
<1>5. QED
  BY <1>1, <1>2, <1>3, <1>4 DEF AddsNothing

\* The decision of an item that is settled is not written.
LEMMA SettledItem ==
  ASSUME WayInv, AgainInv, NEW r, DoesAgain(r), run[r].items # <<>>
  PROVE  /\ Settled(outcomes, run[r].batch, Head(run[r].items).prediction)
         /\ Head(run[r].items).prediction \in APrediction
         /\ OutcomeOf(Head(run[r].items).prediction) = OutcomesFor(outcomes, Head(run[r].items).prediction)
<1>1. PICK p, s : p = run[r] /\ s = p.items
  OBVIOUS
<1>2. s \in Seq(AnItem) /\ s # <<>> /\ Redo(p)
  BY <1>1, AgainIs DEF ARun
<1>3. 1 \in DOMAIN s /\ Head(s) = s[1] /\ Head(s) \in AnItem
  BY <1>2, Beginning, LenProperties, EmptySeq
<1>4. Settled(outcomes, p.batch, Head(s).prediction)
  BY <1>1, <1>2, <1>3 DEF Redo
<1>5. QED
  BY <1>1, <1>3, <1>4 DEF AnItem, OutcomeOf, OutcomesFor

LEMMA ResolveAgain == ASSUME WayInv, AgainInv, NEW r, DoesAgain(r), Resolve(r) PROVE AddsNothing(r)
<1>1. PICK p, n, e, decision : /\ p = run[r] /\ n = [p EXCEPT !.items = Tail(p.items)]
                               /\ e = Head(p.items).prediction /\ decision = Decide(p.batch, e)
  OBVIOUS
<1>2. /\ ARun(p) /\ Redoes(p) /\ p.stage = "resolve" /\ p.items # <<>> /\ UNCHANGED <<predictions, events, newest>>
      /\ Settled(outcomes, p.batch, e) /\ e \in APrediction /\ OutcomeOf(e) = OutcomesFor(outcomes, e)
  BY <1>1, AgainIs, SettledItem DEF Resolve, market, runtimeVars
<1>3. \/ Step(r, Idle) /\ outcomes' = outcomes
      \/ /\ Step(r, n)
         /\ IF decision.status = "PENDING" THEN UNCHANGED <<outcomes, outcomeState>> ELSE AppendOutcome(decision)
  BY <1>1 DEF Resolve, market, Raise
<1>4. decision.status # "PENDING" => OutcomeOf(decision.prediction) # {}
  BY <1>1, <1>2, DecideIs DEF Settled
<1>5. outcomes' = outcomes
  BY <1>3, <1>4 DEF AppendOutcome
<1>6. n.stage = p.stage /\ n.question = p.question /\ n.batch = p.batch /\ n.seen = p.seen
      /\ n.items = Tail(p.items) /\ n.models = p.models /\ n.cutoffs = p.cutoffs /\ n.queue = p.queue /\ n.steady = p.steady
  BY <1>1, <1>2 DEF ARun, Fields
<1>7. \A i \in DOMAIN n.items : \E j \in DOMAIN p.items : n.items[i] = p.items[j]
  <2>1. ToSet(p.items) = {Head(p.items)} \cup ToSet(Tail(p.items))
    BY <1>2, Beginning DEF ARun
  <2>2. QED
    BY <1>6, <2>1 DEF ToSet
<1>8. Redoes(n)
  BY <1>2, <1>6, <1>7 DEF Redoes, Redo, Again, Closing
<1>9. QED
  BY <1>1, <1>2, <1>3, <1>5, <1>6, <1>8 DEF AddsNothing

LEMMA SyncAgain == ASSUME WayInv, AgainInv, NEW r, DoesAgain(r), Sync(r) PROVE AddsNothing(r)
<1>1. PICK p, t, ev : p = run[r] /\ t = p.batch.end /\ ev = events
  OBVIOUS
<1>2. /\ Fields(p) /\ Redoes(p) /\ p.stage = "resolve" /\ p.items = <<>> /\ UNCHANGED <<predictions, outcomes, events, newest>>
      /\ StateFile = ev /\ predictions \in Seq(APrediction) /\ outcomes \in Seq(AnOutcome) /\ Unique(predictions)
  BY <1>1, AgainIs, StateIsJournal DEF Sync, market, ARun, journals, runtimeVars, WayInv, DoesAgain
<1>3. PICK claims, scores, queue, n :
        /\ claims = NewClaims(t, ev) /\ scores = NewScores(t, ev)
        /\ queue = [i \in DOMAIN claims |-> Claim(claims[i])] \o [i \in DOMAIN scores |-> Score(scores[i])]
        /\ n = [p EXCEPT !.stage = "rebuild", !.scored = (scores # <<>>), !.queue = queue]
  OBVIOUS
<1>4. Step(r, Idle) \/ Step(r, n)
  BY <1>1, <1>2, <1>3 DEF Sync, market, Raise
<1>5. Synced(predictions, outcomes, ev, <<>>, t)
  BY <1>1, <1>2 DEF Redoes, Redo
<1>6. scores = <<>> /\ queue = <<>>
  BY <1>2, <1>3, <1>5, SyncDoes
<1>7. /\ n.stage = "rebuild" /\ n.question = p.question /\ n.batch = p.batch /\ n.items = <<>> /\ n.models = p.models
      /\ n.cutoffs = p.cutoffs /\ n.seen = p.seen /\ n.queue = <<>> /\ n.steady = p.steady /\ n.scored = FALSE
  BY <1>2, <1>3, <1>6 DEF Fields
<1>8. Redoes(n)
  BY <1>2, <1>7 DEF Redoes, Redo, Again, Closing
<1>9. QED
  BY <1>1, <1>2, <1>4, <1>7, <1>8 DEF AddsNothing

\* What it may still write is an assembly or a synthesis of the moved context.
LEMMA AppendNextAgain ==
  ASSUME WayInv, AgainInv, NEW r, DoesAgain(r), run[r].queue # <<>>, NEW ev2, ev2 = Append(events, Head(run[r].queue))
  PROVE  /\ run[r].steady = "moved" /\ run[r].stage \in Closing /\ IsSeq(events)
         /\ \A type \in {"claim", "score", "competence"} : Items(ev2, type) = Items(events, type)
<1>1. PICK p, ev, e : p = run[r] /\ ev = events /\ e = Head(p.queue)
  OBVIOUS
<1>2. Redoes(p) /\ Redo(p) /\ Aims(ev, behind, p) /\ p.queue # <<>> /\ p.steady \in {"again", "moved"} /\ IsSeq(ev)
  BY <1>1, AgainIs DEF DoesAgain, WayInv, LearnInv
<1>3. p.stage \in Closing /\ p.steady = "moved"
  BY <1>2 DEF Redoes, Redo, Again
<1>4. IsSeq(p.queue) /\ HasOnly(p.queue, {"assembly", "synthesis"})
  BY <1>2, <1>3 DEF Aims
<1>5. 1 \in DOMAIN p.queue /\ e = p.queue[1]
  <2>1. PICK S : p.queue \in Seq(S)
    BY <1>4 DEF IsSeq
  <2>2. PICK queue \in Seq(S) : queue = p.queue /\ queue # <<>>
    BY <1>2, <2>1
  <2>3. 1 \in DOMAIN queue /\ Head(queue) = queue[1]
    BY <2>2, LenProperties, EmptySeq
  <2>4. QED
    BY <1>1, <2>2, <2>3
<1>6. e.type \in {"assembly", "synthesis"}
  BY <1>4, <1>5 DEF HasOnly
<1>7. Joined(ev, e, ev2)
  BY <1>1, <1>2, EventJoins
<1>8. QED
  BY <1>1, <1>2, <1>3, <1>6, <1>7 DEF Joined

LEMMA RebuildAgain == ASSUME WayInv, AgainInv, NEW r, DoesAgain(r), Rebuild(r) PROVE AddsNothing(r)
<1>1. PICK p, ev : p = run[r] /\ ev = events
  OBVIOUS
<1>2. /\ Fields(p) /\ Redoes(p) /\ p.stage = "rebuild" /\ Aims(ev, behind, p) /\ UNCHANGED <<predictions, outcomes, events, newest>>
      /\ StateFile = events /\ ~behind
  BY <1>1, AgainIs, StateIsJournal DEF Rebuild, market, ARun, journals, runtimeVars, WayInv, DoesAgain
<1>3. PICK late \in BOOLEAN : late = behind
  BY DEF WayInv, LearnInv
<1>4. ~late /\ Aims(ev, late, p) /\ ~p.scored
  BY <1>2, <1>3 DEF Redoes, Redo
<1>5. Remembered(ev)
  BY <1>2, <1>4 DEF Aims, Recalls
<1>6. PICK queue, n : queue = <<>> /\ n = [p EXCEPT !.stage = "assemble", !.queue = queue]
  OBVIOUS
<1>7. Step(r, n)
  BY <1>1, <1>2, <1>4, <1>5, <1>6 DEF Rebuild, Remembered
<1>8. /\ n.stage = "assemble" /\ n.question = p.question /\ n.batch = p.batch /\ n.items = p.items /\ n.models = p.models
      /\ n.cutoffs = p.cutoffs /\ n.seen = p.seen /\ n.queue = <<>> /\ n.steady = p.steady
  BY <1>2, <1>6 DEF Fields
<1>9. Redoes(n)
  BY <1>2, <1>8 DEF Redoes, Redo, Again, Closing
<1>10. QED
  BY <1>1, <1>2, <1>7, <1>9 DEF AddsNothing

LEMMA AssembleAgain == ASSUME WayInv, AgainInv, NEW r, DoesAgain(r), Assemble(r) PROVE AddsNothing(r)
<1>1. PICK p, q, t, queue, n :
        /\ p = run[r] /\ q = p.question /\ t = p.batch.end /\ n = [p EXCEPT !.stage = "synthesize", !.queue = queue]
        /\ queue = IF Envelope(q, t, events) \in ToSet(Items(events, "assembly")) THEN <<>>
                   ELSE <<Event("assembly", t, Envelope(q, t, events))>>
  OBVIOUS
<1>2. /\ Fields(p) /\ Redoes(p) /\ p.stage = "assemble" /\ UNCHANGED <<predictions, outcomes, events, newest>>
      /\ StateFile = events
  BY <1>1, AgainIs, StateIsJournal DEF Assemble, market, ARun, journals, runtimeVars, WayInv, DoesAgain
<1>3. p.steady = "again" => Blocked(q, t, events) \/ (Assembled(q, t) /\ Concluded(t))
  BY <1>1, <1>2 DEF Redoes, Again, Rested
<1>4. /\ Blocked(q, t, events) => Step(r, Idle)
      /\ ~Blocked(q, t, events) => Step(r, Idle) \/ Step(r, n)
  BY <1>1, <1>2 DEF Assemble, Raise, Return
<1>5. Step(r, Idle) \/ (Step(r, n) /\ (p.steady = "again" => Assembled(q, t) /\ Concluded(t) /\ queue = <<>>))
  BY <1>1, <1>3, <1>4 DEF Assembled
<1>6. /\ n.stage = "synthesize" /\ n.question = p.question /\ n.batch = p.batch /\ n.items = p.items /\ n.models = p.models
      /\ n.cutoffs = p.cutoffs /\ n.seen = p.seen /\ n.queue = queue /\ n.steady = p.steady
  BY <1>1, <1>2 DEF Fields
<1>7. Redo(n)
  BY <1>2, <1>6 DEF Redoes, Redo, Closing
<1>8. p.steady = "again" /\ Assembled(q, t) /\ Concluded(t) /\ queue = <<>> => Again(n)
  BY <1>1, <1>2, <1>6, <1>7 DEF Redoes, Again
<1>9. Step(r, Idle) \/ (Step(r, n) /\ Redoes(n))
  BY <1>5, <1>6, <1>7, <1>8 DEF Redoes
<1>10. QED
  BY <1>2, <1>9 DEF AddsNothing

LEMMA SynthesizeAgain == ASSUME WayInv, AgainInv, NEW r, DoesAgain(r), Synthesize(r) PROVE AddsNothing(r)
<1>1. PICK p, t, queue, n :
        /\ p = run[r] /\ t = p.batch.end /\ queue = <<Event("synthesis", t, Synthesis(t))>>
        /\ n = [p EXCEPT !.stage = "return", !.queue = queue]
  OBVIOUS
<1>2. Fields(p) /\ Redoes(p) /\ p.stage = "synthesize" /\ UNCHANGED <<predictions, outcomes, events, newest>>
  BY <1>1, AgainIs DEF Synthesize, market, journals, runtimeVars, ARun
<1>3. p.steady = "again" => Concluded(t)
  BY <1>1, <1>2 DEF Redoes, Again
<1>4. IF Concluded(t) THEN Step(r, Idle) ELSE Step(r, n)
  BY <1>1 DEF Synthesize, Concluded, Return
<1>5. /\ n.stage = "return" /\ n.question = p.question /\ n.batch = p.batch /\ n.items = p.items /\ n.models = p.models
      /\ n.cutoffs = p.cutoffs /\ n.seen = p.seen /\ n.queue = queue /\ n.steady = p.steady
  BY <1>1, <1>2 DEF Fields
<1>6. Redo(n)
  BY <1>2, <1>5 DEF Redoes, Redo, Closing
<1>7. Step(r, Idle) \/ (Step(r, n) /\ Redoes(n))
  BY <1>3, <1>4, <1>5, <1>6 DEF Redoes
<1>8. QED
  BY <1>2, <1>7 DEF AddsNothing

LEMMA FinishAgain == ASSUME NEW r, Finish(r) PROVE AddsNothing(r)
BY DEF Finish, Return, journals, runtimeVars, AddsNothing

LEMMA OwnStepAgain ==
  ASSUME WayInv, WholeInv, AgainInv, NEW r, DoesAgain(r), OwnStep(r), ~AppendNext(r)
  PROVE  AddsNothing(r)
<1>1. ~Predict(r)
  BY PredictAgain DEF Predict
<1>2. QED
  BY <1>1, NextCutoffAgain, ReuseAgain, EndOfCutoffsAgain, ResolveAgain, SyncAgain, RebuildAgain, AssembleAgain,
     SynthesizeAgain, FinishAgain DEF OwnStep, LaterMove

\* One that dies had no more to write.
LEMMA DieAgain ==
  ASSUME WayInv, AgainInv, NEW r, DoesAgain(r), Die(r)
  PROVE  /\ UNCHANGED <<predictions, outcomes>>
         /\ events' = events \/ (run[r].queue # <<>> /\ events' = Append(events, Head(run[r].queue)))
<1>1. ~ (Recording(r) /\ ~Reuses(run[r]))
  BY PredictAgain
<1>2. ASSUME run[r].items # <<>>, Decide(run[r].batch, Head(run[r].items).prediction).status # "PENDING"
      PROVE  OutcomeOf(Head(run[r].items).prediction) # {}
  BY <1>2, SettledItem DEF Settled
<1>3. QED
  BY <1>1, <1>2 DEF Die, runtimeVars, journals, JournalWithoutState

-----------------------------------------------------------------------------
(* What every run leaves done.                                              *)

LEMMA RestStep ==
  ASSUME WayInv, RestInv, NEW r \in Runners, NEW n, Step(r, n), run[r].stage # "idle", UNCHANGED <<deaths, refused, overlapped>>,
         NEW q, NEW b, q = run[r].question, b = run[r].batch,
         Undisturbed /\ n.stage # "idle" => Holds(n)',
         \/ latest' = latest \/ latest' = Absent
         \/ /\ n.stage = "idle" /\ latest' = <<q, b>> /\ <<q, b>> \in completed'
            /\ Undisturbed => Rested(q, b)'
  PROVE  RestInv'
<1>1. SUFFICES ASSUME Undisturbed
               PROVE  /\ \A s \in Runners : run'[s].stage # "idle" => Holds(run[s])'
                      /\ \A k \in Questions, d \in Batches : latest' = <<k, d>> =>
                           <<k, d>> \in completed' /\ Rested(k, d)' /\ \A s \in Runners : run'[s].stage = "idle"
  BY DEF RestInv, Undisturbed, Undying
<1>2. \A s \in Runners : s # r => run[s].stage = "idle"
  BY <1>1 DEF WayInv, LearnInv, LoopInv, AllDecided, OneRun, Undisturbed, Undying
<1>3. run'[r] = n /\ \A s \in Runners : s # r => run'[s].stage = "idle"
  BY <1>2 DEF WayInv, LearnInv, LoopInv, LoopTyped, Step
<1>4. ASSUME NEW s \in Runners, run'[s].stage # "idle" PROVE Holds(run[s])'
  <2>1. s = r /\ run'[s] = n
    BY <1>3, <1>4
  <2>2. Holds(n)'
    BY <1>1, <1>4, <2>1
  <2>3. QED
    BY <2>1, <2>2
<1>5. ASSUME NEW k \in Questions, NEW d \in Batches, latest' = <<k, d>>
      PROVE  <<k, d>> \in completed' /\ Rested(k, d)' /\ \A s \in Runners : run'[s].stage = "idle"
  <2>1. latest # <<k, d>>
    BY <1>1 DEF RestInv
  <2>2. <<k, d>> # Absent
    BY AbsentIsNoRun
  <2>3. n.stage = "idle" /\ <<q, b>> \in completed' /\ Rested(q, b)' /\ q = k /\ b = d
    BY <1>1, <1>5, <2>1, <2>2
  <2>4. Rested(k, d)'
    BY <2>3
  <2>5. QED
    BY <1>3, <2>3, <2>4
<1>6. QED
  BY <1>4, <1>5

\* A run that is not yet at its sync has nothing to show.
LEMMA EarlyHolds ==
  ASSUME NEW n, n.stage \in {"cutoff", "resolve"}
  PROVE  Holds(n)'
BY DEF Holds, Closing
LEMMA EarlyRest ==
  ASSUME WayInv, RestInv, NEW r \in Runners, NEW n, Step(r, n), run[r].stage # "idle",
         n.stage \in Opening, UNCHANGED <<deaths, refused, overlapped, latest>>
  PROVE  RestInv'
<1>1. PICK q, b : q = run[r].question /\ b = run[r].batch
  OBVIOUS
<1>2. n.stage # "idle" => Holds(n)'
  BY EarlyHolds DEF Opening
<1>3. QED
  BY <1>1, <1>2, RestStep

LEMMA NextCutoffRest ==
  ASSUME WayInv, RestInv, NEW r \in Runners, NextCutoff(r)
  PROVE  RestInv'
<1>1. PICK p, cutoffs, models, current, found, steady, n, m :
        /\ p = run[r] /\ cutoffs = Tail(p.cutoffs) /\ models = Models[p.question]
        /\ current = ContextOf(frames', Head(p.cutoffs)).frames
        /\ found = {<<e.cutoff, e.model>> : e \in {e \in ToSet(predictions) : e.question = p.question}}
        /\ steady = IF p.steady = "again" /\ newest' # newest THEN "moved" ELSE p.steady
        /\ n = [p EXCEPT !.cutoffs = cutoffs]
        /\ m = [p EXCEPT !.models = models, !.context = current, !.seen = found, !.steady = steady]
  OBVIOUS
<1>2. Fields(p) /\ p.stage = "cutoff" /\ UNCHANGED counters
  BY <1>1 DEF WayInv, LearnInv, LoopInv, LoopTyped, ARun, NextCutoff, Raise
<1>3. Step(r, Idle) \/ Step(r, n) \/ Step(r, m)
  BY <1>1 DEF NextCutoff, Raise
<1>4. n.stage = "cutoff" /\ m.stage = "cutoff"
  BY <1>1, <1>2 DEF Fields
<1>5. QED
  BY <1>1, <1>2, <1>3, <1>4, EarlyRest, IdleIs DEF Opening, counters

LEMMA ReuseRest ==
  ASSUME WayInv, RestInv, NEW r \in Runners, Reuse(r)
  PROVE  RestInv'
<1>1. LoopInv
  BY DEF WayInv, LearnInv
<1>2. /\ AtModel(run[r]) /\ UNCHANGED counters
      /\ \E entry \in APrediction, under \in Int : \E n : n = Recorded(run[r], entry, under) /\ Step(r, n)
  BY <1>1, ReuseMoves
<1>3. PICK entry \in APrediction, under \in Int : \E n : n = Recorded(run[r], entry, under) /\ Step(r, n)
  BY <1>2
<1>4. PICK n : n = Recorded(run[r], entry, under) /\ Step(r, n)
  BY <1>3
<1>5. n.steady = run[r].steady
  BY <1>2, <1>4, RecordedItems
<1>6. n.stage = "cutoff" /\ run[r].stage = "cutoff"
  BY <1>2, <1>4 DEF AtModel, ARun, Fields, Recorded
<1>7. QED
  BY <1>2, <1>4, <1>5, <1>6, EarlyRest DEF Opening, counters

LEMMA PredictRest ==
  ASSUME WayInv, RestInv, NEW r \in Runners, Predict(r)
  PROVE  RestInv'
<1>1. LoopInv
  BY DEF WayInv, LearnInv
<1>2. /\ AtModel(run[r]) /\ UNCHANGED counters
      /\ \E entry \in APrediction, under \in Int : \E n : n = Recorded(run[r], entry, under) /\ Step(r, n)
  BY <1>1, PredictMoves
<1>3. PICK entry \in APrediction, under \in Int : \E n : n = Recorded(run[r], entry, under) /\ Step(r, n)
  BY <1>2
<1>4. PICK n : n = Recorded(run[r], entry, under) /\ Step(r, n)
  BY <1>3
<1>5. n.steady = run[r].steady
  BY <1>2, <1>4, RecordedItems
<1>6. n.stage = "cutoff" /\ run[r].stage = "cutoff"
  BY <1>2, <1>4 DEF AtModel, ARun, Fields, Recorded
<1>7. QED
  BY <1>2, <1>4, <1>5, <1>6, EarlyRest DEF Opening, counters

LEMMA EndOfCutoffsRest ==
  ASSUME WayInv, RestInv, NEW r \in Runners, EndOfCutoffs(r)
  PROVE  RestInv'
<1>1. PICK p, n : p = run[r] /\ n = [p EXCEPT !.stage = "resolve"]
  OBVIOUS
<1>2. Fields(p) /\ p.stage = "cutoff" /\ UNCHANGED counters
  BY <1>1 DEF WayInv, LearnInv, LoopInv, LoopTyped, ARun, EndOfCutoffs, Raise
<1>3. Step(r, Idle) \/ Step(r, n)
  BY <1>1 DEF EndOfCutoffs, market, Raise
<1>4. n.stage = "resolve" /\ n.steady = p.steady
  BY <1>1, <1>2 DEF Fields
<1>5. QED
  BY <1>1, <1>2, <1>3, <1>4, EarlyRest, IdleIs DEF Opening, counters

LEMMA ResolveRest ==
  ASSUME WayInv, RestInv, NEW r \in Runners, Resolve(r)
  PROVE  RestInv'
<1>1. PICK p, items, n : p = run[r] /\ items = Tail(p.items) /\ n = [p EXCEPT !.items = items]
  OBVIOUS
<1>2. Fields(p) /\ p.stage = "resolve" /\ UNCHANGED counters
  BY <1>1 DEF WayInv, LearnInv, LoopInv, LoopTyped, ARun, Resolve, Raise
<1>3. Step(r, Idle) \/ Step(r, n)
  BY <1>1 DEF Resolve, market, Raise
<1>4. n.stage = "resolve" /\ n.steady = p.steady
  BY <1>1, <1>2 DEF Fields
<1>5. QED
  BY <1>1, <1>2, <1>3, <1>4, EarlyRest, IdleIs DEF Opening, counters

LEMMA DisturbedRest ==
  ASSUME ~Undisturbed, UNCHANGED <<deaths, refused, overlapped>>
  PROVE  RestInv'
BY DEF RestInv, Undisturbed, Undying

\* A run that rests when it returns is the last one.
LEMMA RestedAlike ==
  ASSUME UNCHANGED <<predictions, outcomes, events, newest>>, (PredictionsValid /\ OutcomesValid)', PredictionsValid /\ OutcomesValid
  PROVE  \A q, b : Rested(q, b) => Rested(q, b)'
<1>1. \A t : Synced(predictions, outcomes, events, <<>>, t) => Synced(predictions, outcomes, events, <<>>, t)'
  OBVIOUS
<1>2. \A q, t : /\ Blocked(q, t, events)' <=> Blocked(q, t, events)
                /\ Assembled(q, t)' <=> Assembled(q, t)
                /\ Concluded(t)' <=> Concluded(t)
  BY RestAlike
<1>3. QED
  BY <1>1, <1>2 DEF Rested

LEMMA ReturnRest ==
  ASSUME WayInv, RestInv, NEW r \in Runners, Undisturbed, run[r].stage # "idle", Return(r),
         UNCHANGED <<runtimeVars, journals, newest>>,
         run[r].steady # "no" => Rested(run[r].question, run[r].batch)
  PROVE  RestInv'
<1>1. PICK q, b, n : q = run[r].question /\ b = run[r].batch /\ n = Idle
  OBVIOUS
<1>2. Step(r, n) /\ n.stage = "idle" /\ UNCHANGED <<deaths, refused, overlapped>> /\ <<q, b>> \in completed'
  BY <1>1, IdleIs DEF Return
<1>3. (latest' = <<q, b>> /\ run[r].steady # "no") \/ latest' = Absent
  BY <1>1 DEF Return
<1>4. (PredictionsValid /\ OutcomesValid)' /\ PredictionsValid /\ OutcomesValid
  BY StatesAreValid DEF PredictionsValid, OutcomesValid, journals
<1>5. Rested(q, b) => Rested(q, b)'
  BY <1>4, RestedAlike DEF runtimeVars, journals
<1>6. \/ latest' = latest \/ latest' = Absent
      \/ n.stage = "idle" /\ latest' = <<q, b>> /\ <<q, b>> \in completed' /\ (Undisturbed => Rested(q, b)')
  BY <1>1, <1>2, <1>3, <1>5
<1>7. QED
  BY <1>1, <1>2, <1>6, RestStep

\* What is known of a run when nothing disturbs it.
LEMMA RestIs ==
  ASSUME WayInv, RestInv, Undisturbed, NEW r \in Runners, run[r].stage # "idle"
  PROVE  /\ ARun(run[r]) /\ Holds(run[r]) /\ Aims(events, behind, run[r]) /\ StateFile = events /\ IsSeq(events)
         /\ predictions \in Seq(APrediction) /\ outcomes \in Seq(AnOutcome) /\ Unique(predictions)
         /\ PredictionsValid /\ OutcomesValid
BY StateIsJournal, RunAims, StatesAreValid DEF WayInv, LearnInv, LoopInv, LoopTyped, AllDecided, Undisturbed, Undying, RestInv

LEMMA RaiseRest ==
  ASSUME WayInv, RestInv, NEW r \in Runners, run[r].stage # "idle", Step(r, Idle), UNCHANGED counters
  PROVE  RestInv'
<1>1. PICK q, b, n : q = run[r].question /\ b = run[r].batch /\ n = Idle
  OBVIOUS
<1>2. n.stage = "idle" /\ UNCHANGED <<deaths, refused, overlapped, latest>>
  BY <1>1, IdleIs DEF counters
<1>3. QED
  BY <1>1, <1>2, RestStep
LEMMA GoRest ==
  ASSUME WayInv, RestInv, NEW r \in Runners, run[r].stage # "idle", NEW n, Step(r, n), UNCHANGED counters,
         Undisturbed => Holds(n)'
  PROVE  RestInv'
<1>1. PICK q, b : q = run[r].question /\ b = run[r].batch
  OBVIOUS
<1>2. QED
  BY <1>1, RestStep DEF counters

LEMMA SyncRest ==
  ASSUME WayInv, RestInv, NEW r \in Runners, Sync(r)
  PROVE  RestInv'
<1>1. PICK p, t, ev : p = run[r] /\ t = p.batch.end /\ ev = events
  OBVIOUS
<1>2. PICK claims, scores, queue, n :
        /\ claims = NewClaims(t, StateFile) /\ scores = NewScores(t, StateFile)
        /\ queue = [i \in DOMAIN claims |-> Claim(claims[i])] \o [i \in DOMAIN scores |-> Score(scores[i])]
        /\ n = [p EXCEPT !.stage = "rebuild", !.scored = (scores # <<>>), !.queue = queue]
  OBVIOUS
<1>3. (Step(r, Idle) \/ Step(r, n)) /\ UNCHANGED counters /\ UNCHANGED <<runtimeVars, journals, newest>> /\ p.stage # "idle"
  BY <1>1, <1>2 DEF Sync, market, Raise
<1>4. ASSUME Undisturbed PROVE Holds(n)'
  <2>1. /\ Fields(p) /\ StateFile = ev
        /\ predictions \in Seq(APrediction) /\ outcomes \in Seq(AnOutcome) /\ Unique(predictions)
    BY <1>1, <1>3, <1>4, RestIs DEF ARun
  <2>2. n.stage = "rebuild" /\ n.queue = queue /\ n.steady = p.steady /\ n.batch.end = t
    BY <1>1, <1>2, <2>1 DEF Fields
  <2>3. Synced(predictions, outcomes, ev, queue, t)
    BY <1>2, <2>1, SyncDoes
  <2>4. Synced(predictions, outcomes, events, n.queue, n.batch.end)'
    BY <1>1, <1>3, <2>2, <2>3 DEF runtimeVars, journals
  <2>5. QED
    BY <1>1, <2>2, <2>4 DEF Holds, Closing
<1>5. QED
  BY <1>1, <1>3, <1>4, RaiseRest, GoRest

LEMMA RebuildRest ==
  ASSUME WayInv, RestInv, NEW r \in Runners, Rebuild(r)
  PROVE  RestInv'
<1>1. PICK p, queue, n :
        /\ p = run[r] /\ n = [p EXCEPT !.stage = "assemble", !.queue = queue]
        /\ queue = IF Items(StateFile, "score") # <<>> /\ (p.scored \/ Competence(StateFile) = Absent)
                   THEN <<Event("competence", p.batch.end, Memory(p.batch.end, Items(events, "score")))>>
                   ELSE <<>>
  OBVIOUS
<1>2. Step(r, n) /\ UNCHANGED counters /\ UNCHANGED <<runtimeVars, journals, newest>> /\ p.stage = "rebuild" /\ p.queue = <<>>
  BY <1>1 DEF Rebuild, market
<1>3. ASSUME Undisturbed PROVE Holds(n)'
  <2>1. Fields(p) /\ Holds(p)
    BY <1>1, <1>2, <1>3, RestIs DEF ARun
  <2>2. n.stage = "assemble" /\ n.steady = p.steady /\ n.batch = p.batch
    BY <1>1, <2>1 DEF Fields
  <2>3. Synced(predictions, outcomes, events, <<>>, p.batch.end)
    BY <1>2, <2>1 DEF Holds
  <2>4. Synced(predictions, outcomes, events, <<>>, n.batch.end)'
    BY <1>2, <2>2, <2>3 DEF runtimeVars, journals
  <2>5. QED
    BY <1>1, <2>2, <2>4 DEF Holds, Closing
<1>4. QED
  BY <1>1, <1>2, <1>3, GoRest

LEMMA AssembleRest ==
  ASSUME WayInv, RestInv, NEW r \in Runners, Assemble(r)
  PROVE  RestInv'
<1>1. PICK p, q, t : p = run[r] /\ q = p.question /\ t = p.batch.end
  OBVIOUS
<1>2. /\ p.stage = "assemble" /\ p.queue = <<>> /\ UNCHANGED <<runtimeVars, journals, newest>>
      /\ UNCHANGED <<deaths, refused, overlapped>>
  BY <1>1 DEF Assemble, market, Return, Raise, counters
<1>3. SUFFICES ASSUME Undisturbed PROVE RestInv'
  BY <1>2, DisturbedRest
<1>4. Fields(p) /\ Holds(p) /\ StateFile = events /\ PredictionsValid /\ OutcomesValid
  BY <1>1, <1>2, <1>3, RestIs DEF ARun
<1>5. Synced(predictions, outcomes, events, <<>>, t)
  BY <1>1, <1>2, <1>4 DEF Holds
<1>6. CASE Blocked(q, t, events)
  <2>1. Return(r) /\ Rested(q, p.batch)
    BY <1>1, <1>4, <1>5, <1>6 DEF Assemble, market, Rested
  <2>2. QED
    BY <1>1, <1>2, <1>3, <2>1, ReturnRest
<1>7. CASE Step(r, Idle) /\ UNCHANGED counters
  BY <1>1, <1>2, <1>7, RaiseRest
<1>8. CASE ~Blocked(q, t, events) /\ ~ (Step(r, Idle) /\ UNCHANGED counters)
  <2>1. PICK queue, n :
          /\ queue = IF Envelope(q, t, events) \in ToSet(Items(events, "assembly")) THEN <<>>
                     ELSE <<Event("assembly", t, Envelope(q, t, events))>>
          /\ n = [p EXCEPT !.stage = "synthesize", !.queue = queue]
    OBVIOUS
  <2>2. Step(r, n) /\ UNCHANGED counters
    BY <1>1, <1>4, <1>8, <2>1 DEF Assemble, market, Raise
  <2>3. n.stage = "synthesize" /\ n.queue = queue /\ n.steady = p.steady /\ n.batch = p.batch /\ n.question = q
    BY <1>1, <1>4, <2>1 DEF Fields
  <2>4. (PredictionsValid /\ OutcomesValid)'
    BY <1>2, <1>4 DEF PredictionsValid, OutcomesValid, journals
  <2>5. (Assembled(q, t)' <=> Assembled(q, t)) /\ Envelope(q, t, events)' = Envelope(q, t, events)
    BY <1>2, <1>4, <2>4, RestAlike DEF runtimeVars, journals
  <2>6. \/ n.queue = <<>> /\ Assembled(n.question, n.batch.end)'
        \/ n.queue = <<Event("assembly", n.batch.end, Envelope(n.question, n.batch.end, events))>>'
    BY <1>1, <2>1, <2>3, <2>5 DEF Assembled
  <2>7. Synced(predictions, outcomes, events, <<>>, n.batch.end)'
    BY <1>1, <1>2, <1>5, <2>3 DEF runtimeVars, journals
  <2>8. Holds(n)'
    BY <1>1, <2>3, <2>6, <2>7 DEF Holds
  <2>9. QED
    BY <1>1, <1>2, <2>2, <2>8, GoRest
<1>9. QED
  BY <1>6, <1>7, <1>8

LEMMA SynthesizeRest ==
  ASSUME WayInv, RestInv, NEW r \in Runners, Synthesize(r)
  PROVE  RestInv'
<1>1. PICK p, q, t : p = run[r] /\ q = p.question /\ t = p.batch.end
  OBVIOUS
<1>2. /\ p.stage = "synthesize" /\ p.queue = <<>> /\ UNCHANGED <<runtimeVars, journals, newest>>
      /\ UNCHANGED <<deaths, refused, overlapped>>
  BY <1>1 DEF Synthesize, market, Return, counters
<1>3. SUFFICES ASSUME Undisturbed PROVE RestInv'
  BY <1>2, DisturbedRest
<1>4. Fields(p) /\ Holds(p) /\ PredictionsValid /\ OutcomesValid
  BY <1>1, <1>2, <1>3, RestIs DEF ARun
<1>5. Synced(predictions, outcomes, events, <<>>, t)
  BY <1>1, <1>2, <1>4 DEF Holds, Closing
<1>6. p.steady # "no" => Assembled(q, t)
  <2>1. ASSUME NEW e PROVE <<e>> # <<>>
    OBVIOUS
  <2>2. QED
    BY <1>1, <1>2, <1>4, <2>1 DEF Holds
<1>7. CASE Concluded(t)
  <2>1. Return(r)
    BY <1>1, <1>7 DEF Synthesize, market, Concluded
  <2>2. p.steady # "no" => Rested(q, p.batch)
    BY <1>1, <1>5, <1>6, <1>7 DEF Rested
  <2>3. QED
    BY <1>1, <1>2, <1>3, <2>1, <2>2, ReturnRest
<1>8. CASE ~Concluded(t)
  <2>1. PICK drawn, queue, n :
          /\ drawn = Synthesis(t) /\ queue = <<Event("synthesis", t, drawn)>>
          /\ n = [p EXCEPT !.stage = "return", !.queue = queue]
    OBVIOUS
  <2>2. Step(r, n) /\ UNCHANGED counters
    BY <1>1, <1>8, <2>1 DEF Synthesize, market, Concluded
  <2>3. n.stage = "return" /\ n.queue = queue /\ n.steady = p.steady /\ n.batch = p.batch /\ n.question = q
    BY <1>1, <1>4, <2>1 DEF Fields
  <2>4. (PredictionsValid /\ OutcomesValid)'
    BY <1>2, <1>4 DEF PredictionsValid, OutcomesValid, journals
  <2>5. (Assembled(q, t)' <=> Assembled(q, t)) /\ Synthesis(t)' = Synthesis(t)
    BY <1>2, <1>4, <2>4, RestAlike DEF runtimeVars, journals
  <2>6. /\ n.steady # "no" => Assembled(n.question, n.batch.end)'
        /\ n.queue = <<Event("synthesis", n.batch.end, Synthesis(n.batch.end))>>'
    BY <1>1, <1>6, <2>1, <2>3, <2>5
  <2>7. Synced(predictions, outcomes, events, <<>>, n.batch.end)'
    BY <1>1, <1>2, <1>5, <2>3 DEF runtimeVars, journals
  <2>8. Holds(n)'
    BY <1>1, <2>3, <2>6, <2>7 DEF Holds
  <2>9. QED
    BY <1>1, <1>2, <2>2, <2>8, GoRest
<1>9. QED
  BY <1>7, <1>8

LEMMA FinishRest ==
  ASSUME WayInv, RestInv, NEW r \in Runners, Finish(r)
  PROVE  RestInv'
<1>1. PICK p, q, t : p = run[r] /\ q = p.question /\ t = p.batch.end
  OBVIOUS
<1>2. /\ p.stage = "return" /\ p.queue = <<>> /\ UNCHANGED <<runtimeVars, journals, newest>>
      /\ UNCHANGED <<deaths, refused, overlapped>> /\ Return(r)
  BY <1>1 DEF Finish, market, Return
<1>3. SUFFICES ASSUME Undisturbed PROVE RestInv'
  BY <1>2, DisturbedRest
<1>4. Holds(p)
  BY <1>1, <1>2, <1>3, RestIs
<1>5. Synced(predictions, outcomes, events, <<>>, t)
  BY <1>1, <1>2, <1>4 DEF Holds, Closing
<1>6. p.steady # "no" => Assembled(q, t) /\ Concluded(t)
  <2>1. ASSUME NEW e PROVE <<e>> # <<>>
    OBVIOUS
  <2>2. QED
    BY <1>1, <1>2, <1>4, <2>1 DEF Holds
<1>7. p.steady # "no" => Rested(q, p.batch)
  BY <1>1, <1>5, <1>6 DEF Rested
<1>8. QED
  BY <1>1, <1>2, <1>3, <1>7, ReturnRest

\* An event of a run that is in order settles what it was decided for.
LEMMA AppendNextRest ==
  ASSUME WayInv, RestInv, NEW r \in Runners, AppendNext(r)
  PROVE  RestInv'
<1>1. PICK p, q, t, queue, e, ev, ev2 :
        /\ p = run[r] /\ q = p.question /\ t = p.batch.end /\ queue = Tail(p.queue) /\ e = Head(p.queue)
        /\ ev = events /\ ev2 = events'
  OBVIOUS
<1>2. PICK n : n = [p EXCEPT !.queue = queue]
  OBVIOUS
<1>3. /\ p.queue # <<>> /\ ev2 = Append(ev, e) /\ Step(r, n) /\ UNCHANGED <<journals, newest, counters>>
      /\ UNCHANGED <<deaths, refused, overlapped>>
  BY <1>1, <1>2 DEF AppendNext, market, Journal, counters
<1>4. p.stage # "idle"
  BY <1>1, <1>3, IdleIs, RunIs DEF WayInv, LearnInv
<1>5. SUFFICES ASSUME Undisturbed PROVE RestInv'
  BY <1>3, DisturbedRest
<1>6. /\ Fields(p) /\ Holds(p) /\ Aims(ev, behind, p) /\ IsSeq(ev) /\ IsSeq(p.queue)
      /\ Synced(predictions, outcomes, ev, p.queue, t)' <=> Synced(predictions, outcomes, ev, p.queue, t)
  BY <1>1, <1>3, <1>4, <1>5, RestIs DEF ARun, Aims, journals
<1>7. n.stage = p.stage /\ n.queue = queue /\ n.steady = p.steady /\ n.batch = p.batch /\ n.question = q
  BY <1>1, <1>2, <1>6 DEF Fields
<1>8. Gathers(ev, e, ev2)
  BY <1>3, <1>6, ItemsJoin
<1>9. ASSUME p.stage = "rebuild" PROVE Holds(n)'
  <2>1. Synced(predictions, outcomes, ev2, queue, t)
    BY <1>1, <1>3, <1>6, <1>9, SyncedJoins DEF Holds
  <2>2. Synced(predictions, outcomes, events, n.queue, n.batch.end)'
    BY <1>1, <1>3, <1>7, <2>1 DEF journals
  <2>3. QED
    BY <1>1, <1>7, <1>9, <2>2 DEF Holds, Closing
<1>10. ASSUME p.stage # "rebuild" PROVE Holds(n)'
  <2>1. p.stage \in {"assemble"} \cup Closing
    BY <1>3, <1>6, <1>10 DEF Aims
  <2>2. Synced(predictions, outcomes, ev, <<>>, t)
    BY <1>1, <1>6, <2>1 DEF Holds
  <2>3. Synced(predictions, outcomes, ev2, <<>>, t)
    BY <1>3, <1>6, <2>2, SyncedStays
  <2>4. Synced(predictions, outcomes, events, <<>>, n.batch.end)'
    BY <1>1, <1>3, <1>7, <2>3 DEF journals
  <2>5. ASSUME e.type \in {"assembly", "synthesis"}
        PROVE  Envelope(q, t, events)' = Envelope(q, t, events)
    <3>1. Items(ev2, "score") = Items(ev, "score") /\ Competence(ev2) = Competence(ev)
      BY <1>3, <1>6, <2>5, OtherEvents
    <3>2. Envelope(q, t, ev2)' = Envelope(q, t, ev)
      BY <1>3, <3>1, EnvelopeAlike DEF journals
    <3>3. QED
      BY <1>1, <3>2
  <2>6. ASSUME NEW f, p.queue = <<f>> PROVE e = f /\ queue = <<>>
    BY <1>1, <2>6
  <2>7. ASSUME NEW f, p.queue = <<f>>, NEW type, NEW item, f = Event(type, t, item)
        PROVE  e.type = type /\ e.item = item /\ queue = <<>>
    BY <2>6, <2>7 DEF Event
  <2>8. \A type : ToSet(Items(ev2, type)) = ToSet(Items(ev, type)) \cup {x \in {e.item} : e.type = type}
    BY <1>8 DEF Gathers
  <2>9. ASSUME p.steady # "no", p.stage = "synthesize"
        PROVE  queue = <<>> /\ Assembled(q, t)'
    <3>1. p.queue = <<Event("assembly", t, Envelope(q, t, events))>>
      BY <1>1, <1>3, <1>6, <2>9 DEF Holds
    <3>2. e.type = "assembly" /\ e.item = Envelope(q, t, events) /\ queue = <<>>
      BY <2>7, <3>1
    <3>3. Envelope(q, t, events) \in ToSet(Items(ev2, "assembly"))
      BY <2>8, <3>2
    <3>4. QED
      BY <1>1, <2>5, <3>2, <3>3 DEF Assembled
  <2>10. ASSUME p.steady # "no", p.stage = "return"
         PROVE  queue = <<>> /\ Assembled(q, t)' /\ Concluded(t)'
    <3>1. p.queue = <<Event("synthesis", t, Synthesis(t))>> /\ Assembled(q, t)
      BY <1>1, <1>3, <1>6, <2>10 DEF Holds
    <3>2. e.type = "synthesis" /\ e.item = Synthesis(t) /\ queue = <<>>
      BY <2>7, <3>1
    <3>3. Envelope(q, t, events) \in ToSet(Items(ev2, "assembly")) /\ Synthesis(t) \in ToSet(Items(ev2, "synthesis"))
      BY <1>1, <2>8, <3>1, <3>2 DEF Assembled
    <3>4. ToSet(Items(events', "assembly")) = ToSet(Items(events, "assembly"))
      <4>1. {x \in {e.item} : e.type = "assembly"} = {}
        BY <3>2
      <4>2. ToSet(Items(ev2, "assembly")) = ToSet(Items(ev, "assembly")) \cup {x \in {e.item} : e.type = "assembly"}
        BY <2>8
      <4>3. ToSet(Items(ev2, "assembly")) = ToSet(Items(ev, "assembly"))
        BY <4>1, <4>2
      <4>4. QED
        BY <1>1, <4>3
    <3>5. Synthesis(t)' = Synthesis(t)
      BY <1>3, <3>4, SynthesisAlike
    <3>6. Assembled(q, t)'
      BY <1>1, <2>5, <3>2, <3>3 DEF Assembled
    <3>7. Concluded(t)'
      BY <1>1, <3>3, <3>5 DEF Concluded
    <3>8. QED
      BY <3>2, <3>6, <3>7
  <2>11. n.steady # "no" /\ n.stage = "synthesize" => n.queue = <<>> /\ Assembled(n.question, n.batch.end)'
    BY <1>1, <1>7, <2>9
  <2>12. n.steady # "no" /\ n.stage = "return" =>
           n.queue = <<>> /\ Assembled(n.question, n.batch.end)' /\ Concluded(n.batch.end)'
    BY <1>1, <1>7, <2>10
  <2>13. QED
    BY <1>1, <1>7, <1>10, <2>4, <2>11, <2>12 DEF Holds
<1>11. Holds(n)'
  BY <1>9, <1>10
<1>12. QED
  BY <1>1, <1>3, <1>4, <1>11, GoRest

\* Where nothing is written a run is as far as it was.
LEMMA HoldsAlike ==
  ASSUME UNCHANGED <<predictions, outcomes, events, newest>>,
         (PredictionsValid /\ OutcomesValid)', PredictionsValid /\ OutcomesValid, NEW n, Holds(n)
  PROVE  Holds(n)'
<1>1. PICK q, t : q = n.question /\ t = n.batch.end
  OBVIOUS
<1>2. /\ Assembled(q, t)' <=> Assembled(q, t)
      /\ Concluded(t)' <=> Concluded(t)
      /\ Envelope(q, t, events)' = Envelope(q, t, events)
      /\ Synthesis(t)' = Synthesis(t)
  BY RestAlike
<1>3. /\ Synced(predictions, outcomes, events, n.queue, t)' <=> Synced(predictions, outcomes, events, n.queue, t)
      /\ Synced(predictions, outcomes, events, <<>>, t)' <=> Synced(predictions, outcomes, events, <<>>, t)
  OBVIOUS
<1>4. QED
  BY <1>1, <1>2, <1>3 DEF Holds

LEMMA OwnSteps ==
  ASSUME WayInv, NEW r \in Runners, OwnStep(r)
  PROVE  run[r].stage # "idle" /\ UNCHANGED <<deaths, refused, overlapped>> /\ completed \subseteq completed'
<1>1. LoopInv
  BY DEF WayInv, LearnInv
<1>2. CASE LaterMove(r)
  BY <1>1, <1>2, LaterMoves DEF Return, counters
<1>3. CASE NextCutoff(r) \/ Reuse(r) \/ Predict(r) \/ EndOfCutoffs(r) \/ Resolve(r)
  BY <1>3 DEF NextCutoff, Reuse, Predict, EndOfCutoffs, Resolve, Recording, Raise, counters
<1>4. QED
  BY <1>2, <1>3 DEF OwnStep

LEMMA OwnRest ==
  ASSUME WayInv, RestInv, NEW r \in Runners, OwnStep(r)
  PROVE  RestInv'
BY NextCutoffRest, ReuseRest, PredictRest, EndOfCutoffsRest, ResolveRest, SyncRest, AppendNextRest, RebuildRest,
   AssembleRest, SynthesizeRest, FinishRest DEF OwnStep, LaterMove

LEMMA BeginRest ==
  ASSUME WayInv, RestInv, NEW r \in Runners, NEW q \in Questions, NEW b \in Batches, Begin(r, q, b)
  PROVE  RestInv'
<1>1. PICK n : n = run'[r]
  OBVIOUS
<1>2. /\ latest' = Absent /\ UNCHANGED <<deaths, refused>>
      /\ overlapped' = (overlapped \/ \E s \in Runners : run[s] # Idle)
      /\ Begun(n, q, b) /\ \A s \in Runners \ {r} : Calmed(run[s], run'[s])
  BY <1>1, BeginMoves DEF WayInv, LearnInv
<1>3. SUFFICES ASSUME Undisturbed'
               PROVE  \A s \in Runners : run'[s].stage # "idle" => Holds(run[s])'
  <2>1. \A k, d : <<k, d>> \in Questions \X Batches => <<k, d>> # latest'
    BY <1>2, AbsentIsNoRun
  <2>2. QED
    BY <1>3, <2>1 DEF RestInv
<1>4. \A s \in Runners : run[s] = Idle
  BY <1>2, <1>3 DEF Undisturbed, Undying, WayInv, LearnInv, LoopInv, LoopTyped
<1>5. \A s \in Runners : s # r => run'[s].stage = "idle"
  BY <1>2, <1>4, IdleIs DEF Calmed
<1>6. n.stage = "cutoff"
  BY <1>2 DEF Begun
<1>7. Holds(n)'
  BY <1>6, EarlyHolds
<1>8. ASSUME NEW s \in Runners, run'[s].stage # "idle" PROVE Holds(run[s])'
  <2>1. run'[s] = n
    BY <1>1, <1>5, <1>8
  <2>2. QED
    BY <1>7, <2>1
<1>9. QED
  BY <1>8

LEMMA ContextRest == ASSUME WayInv, RestInv, ContextChanges PROVE RestInv'
<1>1. /\ latest' = Absent /\ UNCHANGED <<runtimeVars, journals, completed, deaths, refused, overlapped>>
      /\ \A s \in Runners : Calmed(run[s], run'[s])
  BY ContextMoves DEF WayInv, LearnInv
<1>2. SUFFICES ASSUME Undisturbed
               PROVE  \A s \in Runners : run'[s].stage # "idle" => Holds(run[s])'
  <2>1. \A k, d : <<k, d>> \in Questions \X Batches => <<k, d>> # latest'
    BY <1>1, AbsentIsNoRun
  <2>2. QED
    BY <1>1, <1>2, <2>1 DEF RestInv, Undisturbed, Undying
<1>3. ASSUME NEW s \in Runners, run'[s].stage # "idle" PROVE Holds(run[s])'
  <2>1. PICK p, n : p = run[s] /\ n = run'[s]
    OBVIOUS
  <2>2. Calmed(p, n) /\ p.stage # "idle" /\ Holds(p)
    BY <1>1, <1>2, <1>3, <2>1 DEF Calmed, RestInv
  <2>3. /\ p.stage = "rebuild" => Synced(predictions, outcomes, events, p.queue, p.batch.end)
        /\ p.stage \in {"assemble"} \cup Closing => Synced(predictions, outcomes, events, <<>>, p.batch.end)
    BY <2>2 DEF Holds
  <2>4. /\ n.stage = p.stage /\ n.queue = p.queue /\ n.batch = p.batch /\ n.steady = "no"
    BY <2>2 DEF Calmed, SameWork
  <2>5. /\ n.stage = "rebuild" => Synced(predictions, outcomes, events, n.queue, n.batch.end)'
        /\ n.stage \in {"assemble"} \cup Closing => Synced(predictions, outcomes, events, <<>>, n.batch.end)'
    BY <1>1, <2>3, <2>4 DEF runtimeVars, journals
  <2>6. Holds(n)'
    BY <2>4, <2>5 DEF Holds
  <2>7. QED
    BY <2>1, <2>6
<1>4. QED
  BY <1>3

LEMMA StillRest == ASSUME WayInv, RestInv, UNCHANGED loopVars PROVE RestInv'
<1>1. UNCHANGED <<run, predictions, predictionState, outcomes, outcomeState, events, newest, completed, latest, deaths, refused, overlapped>>
  BY DEF loopVars, runtimeVars, journals, market, counters
<1>2. SUFFICES ASSUME Undisturbed PROVE RestInv'
  BY <1>1, DisturbedRest
<1>3. (PredictionsValid /\ OutcomesValid)' /\ PredictionsValid /\ OutcomesValid
  BY <1>1, <1>2, StatesAreValid DEF PredictionsValid, OutcomesValid
<1>4. ASSUME NEW s \in Runners, run'[s].stage # "idle" PROVE Holds(run[s])'
  <2>1. PICK n : n = run[s]
    OBVIOUS
  <2>2. Holds(n)
    BY <1>1, <1>2, <1>4, <2>1 DEF RestInv
  <2>3. Holds(n)'
    BY <1>1, <1>3, <2>2, HoldsAlike
  <2>4. QED
    BY <1>1, <2>1, <2>3
<1>5. \A q, b : Rested(q, b) => Rested(q, b)'
  BY <1>1, <1>3, RestedAlike
<1>6. ASSUME NEW q \in Questions, NEW b \in Batches, latest' = <<q, b>>
      PROVE  <<q, b>> \in completed' /\ Rested(q, b)' /\ \A r \in Runners : run'[r].stage = "idle"
  BY <1>1, <1>2, <1>5, <1>6 DEF RestInv
<1>7. QED
  BY <1>4, <1>6 DEF RestInv

LEMMA RestStarts == ASSUME LoopInit PROVE RestInv
<1>1. \A r \in Runners : run[r].stage = "idle"
  BY IdleIs DEF LoopInit
<1>2. \A q, b : <<q, b>> \in Questions \X Batches => <<q, b>> # latest
  BY AbsentIsNoRun DEF LoopInit
<1>3. QED
  BY <1>1, <1>2 DEF RestInv

LEMMA RestKeeps == ASSUME WayInv, RestInv, [LoopNext]_loopVars PROVE RestInv'
<1>1. CASE UNCHANGED loopVars
  BY <1>1, StillRest
<1>2. CASE ContextChanges
  BY <1>2, ContextRest
<1>3. ASSUME NEW r \in Runners, NEW q \in Questions, NEW b \in Batches, Begin(r, q, b) PROVE RestInv'
  BY <1>3, BeginRest
<1>4. ASSUME NEW r \in Runners, OwnStep(r) PROVE RestInv'
  BY <1>4, OwnRest
<1>5. ASSUME NEW r \in Runners, LeaseHeld(r) \/ Die(r) PROVE RestInv'
  <2>1. ~Undisturbed'
    BY <1>5, LeaseHeldDisturbs, DieDisturbs
  <2>2. QED
    BY <2>1 DEF RestInv
<1>6. QED
  BY <1>1, <1>2, <1>3, <1>4, <1>5, StepsAre DEF OwnStep

-----------------------------------------------------------------------------
(* What a run that does again what was done last stays.                     *)

LEMMA RedoAlike ==
  ASSUME UNCHANGED <<predictions, outcomes, events>>, completed \subseteq completed', NEW n, Redo(n)
  PROVE  Redo(n)'
BY DEF Redo

LEMMA AgainAlike ==
  ASSUME UNCHANGED <<predictions, outcomes, events, newest>>, completed \subseteq completed',
         (PredictionsValid /\ OutcomesValid)', PredictionsValid /\ OutcomesValid, NEW n, Again(n)
  PROVE  Again(n)'
<1>1. Rested(n.question, n.batch) => Rested(n.question, n.batch)'
  BY RestedAlike
<1>2. /\ Assembled(n.question, n.batch.end)' <=> Assembled(n.question, n.batch.end)
      /\ Concluded(n.batch.end)' <=> Concluded(n.batch.end)
  BY RestAlike
<1>3. Redo(n)'
  BY RedoAlike DEF Again
<1>4. QED
  BY <1>1, <1>2, <1>3 DEF Again

LEMMA RedoesAlike ==
  ASSUME UNCHANGED <<predictions, outcomes, events>>, completed \subseteq completed',
         (PredictionsValid /\ OutcomesValid)', PredictionsValid /\ OutcomesValid,
         NEW n, Redoes(n), n.steady = "again" => newest' = newest
  PROVE  Redoes(n)'
<1>1. Redo(n)'
  BY RedoAlike DEF Redoes
<1>2. n.steady = "again" => Again(n)'
  BY AgainAlike DEF Redoes
<1>3. QED
  BY <1>1, <1>2 DEF Redoes

LEMMA IdleIsNoRerun == Idle.steady = "no"
<1>1. PICK idle, q : idle = Idle /\ idle = At(q)
  BY DEF Idle
<1>2. idle.steady = "no"
  BY <1>1 DEF At
<1>3. QED
  BY <1>1, <1>2

LEMMA AgainStep ==
  ASSUME WayInv, AgainInv, NEW r \in Runners, NEW n, Step(r, n), run[r].stage # "idle", UNCHANGED <<deaths, refused, overlapped>>,
         Undisturbed /\ n.steady \in {"again", "moved"} => Redoes(n)'
  PROVE  AgainInv'
<1>1. SUFFICES ASSUME Undisturbed, NEW s \in Runners, run'[s].steady \in {"again", "moved"} PROVE Redoes(run[s])'
  BY DEF AgainInv, Undisturbed, Undying
<1>2. \A x \in Runners : x # r => run[x] = Idle
  BY <1>1, RunIs DEF WayInv, LearnInv, LoopInv, AllDecided, OneRun, Undisturbed, Undying
<1>3. run'[r] = n /\ \A x \in Runners : x # r => run'[x] = Idle
  BY <1>2 DEF WayInv, LearnInv, LoopInv, LoopTyped, Step
<1>4. s = r /\ run'[s] = n
  BY <1>1, <1>3, IdleIsNoRerun
<1>5. Redoes(n)'
  BY <1>1, <1>4
<1>6. QED
  BY <1>4, <1>5

\* A run does not become one that does again what was done last on its way.
LEMMA SteadyStays ==
  ASSUME WayInv, NEW r \in Runners, OwnStep(r)
  PROVE  \E n : Step(r, n) /\ (n.steady \in {"again", "moved"} => run[r].steady \in {"again", "moved"})
<1>1. PICK p : p = run[r]
  OBVIOUS
<1>2. LoopInv /\ ARun(p) /\ Fields(p)
  BY <1>1, RunIs DEF WayInv, LearnInv, ARun
<1>3. CASE Step(r, Idle)
  BY <1>3, IdleIsNoRerun
<1>4. CASE NextCutoff(r) /\ ~Step(r, Idle)
  <2>1. PICK cutoffs, models, current, found, steady, n, m :
          /\ cutoffs = Tail(p.cutoffs) /\ models = Models[p.question] /\ current = ContextOf(frames', Head(p.cutoffs)).frames
          /\ found = {<<e.cutoff, e.model>> : e \in {e \in ToSet(predictions) : e.question = p.question}}
          /\ steady = IF p.steady = "again" /\ newest' # newest THEN "moved" ELSE p.steady
          /\ n = [p EXCEPT !.cutoffs = cutoffs]
          /\ m = [p EXCEPT !.models = models, !.context = current, !.seen = found, !.steady = steady]
    OBVIOUS
  <2>2. Step(r, n) \/ Step(r, m)
    BY <1>1, <1>4, <2>1 DEF NextCutoff, Raise
  <2>3. n.steady = p.steady /\ m.steady = steady
    BY <1>2, <2>1 DEF Fields
  <2>4. QED
    BY <1>1, <2>1, <2>2, <2>3
<1>5. CASE Reuse(r) \/ Predict(r)
  <2>1. /\ AtModel(run[r])
        /\ \E entry \in APrediction, under \in Int : \E n : n = Recorded(run[r], entry, under) /\ Step(r, n)
    BY <1>2, <1>5, ReuseMoves, PredictMoves
  <2>2. PICK entry \in APrediction, under \in Int : \E n : n = Recorded(run[r], entry, under) /\ Step(r, n)
    BY <2>1
  <2>3. PICK n : n = Recorded(run[r], entry, under) /\ Step(r, n)
    BY <2>2
  <2>4. n.steady = run[r].steady
    BY <2>1, <2>3, RecordedItems
  <2>5. QED
    BY <2>3, <2>4
<1>6. CASE (EndOfCutoffs(r) \/ Resolve(r)) /\ ~Step(r, Idle)
  <2>1. PICK items, n, m : items = Tail(p.items) /\ n = [p EXCEPT !.stage = "resolve"] /\ m = [p EXCEPT !.items = items]
    OBVIOUS
  <2>2. Step(r, n) \/ Step(r, m)
    BY <1>1, <1>6, <2>1 DEF EndOfCutoffs, Resolve, Raise
  <2>3. n.steady = p.steady /\ m.steady = p.steady
    BY <1>2, <2>1 DEF Fields
  <2>4. QED
    BY <1>1, <2>2, <2>3
<1>7. CASE LaterMove(r) /\ ~Step(r, Idle)
  <2>1. PICK n : Step(r, n) /\ Goes(run[r], n)
    BY <1>2, <1>7, LaterMoves
  <2>2. QED
    BY <2>1 DEF Goes
<1>8. QED
  BY <1>3, <1>4, <1>5, <1>6, <1>7 DEF OwnStep

LEMMA AppendKeepsAgain == ASSUME WayInv, AgainInv, NEW r, DoesAgain(r), AppendNext(r) PROVE AgainInv'
<1>1. PICK p, queue, n, e, ev, ev2 :
        /\ p = run[r] /\ queue = Tail(p.queue) /\ n = [p EXCEPT !.queue = queue] /\ e = Head(p.queue) /\ ev = events /\ ev2 = events'
  OBVIOUS
<1>2. /\ p.queue # <<>> /\ Step(r, n) /\ ev2 = Append(ev, e) /\ UNCHANGED <<predictions, outcomes, completed>>
      /\ UNCHANGED <<deaths, refused, overlapped>>
  BY <1>1 DEF AppendNext, Journal, journals, counters
<1>3. /\ p.steady = "moved" /\ p.stage \in Closing /\ IsSeq(ev) /\ Redo(p) /\ Fields(p) /\ p.stage # "idle"
  BY <1>1, <1>2, AppendNextAgain, AgainIs DEF ARun
<1>4. /\ n.stage = p.stage /\ n.question = p.question /\ n.batch = p.batch /\ n.items = p.items /\ n.models = p.models
      /\ n.cutoffs = p.cutoffs /\ n.seen = p.seen /\ n.steady = p.steady
  BY <1>1, <1>3 DEF Fields
<1>5. Synced(predictions, outcomes, ev2, <<>>, p.batch.end)
  BY <1>1, <1>2, <1>3, SyncedStays DEF Redo
<1>6. Synced(predictions, outcomes, events, <<>>, n.batch.end)'
  BY <1>1, <1>2, <1>4, <1>5
<1>7. Redo(n)'
  BY <1>2, <1>3, <1>4, <1>6 DEF Redo, Closing
<1>8. Redoes(n)'
  BY <1>3, <1>4, <1>7 DEF Redoes
<1>9. QED
  BY <1>1, <1>2, <1>3, <1>8, AgainStep DEF DoesAgain

LEMMA DisturbedAgain ==
  ASSUME ~Undisturbed, UNCHANGED <<deaths, refused, overlapped>>
  PROVE  AgainInv'
BY DEF AgainInv, Undisturbed, Undying

LEMMA OwnAgain ==
  ASSUME WayInv, WholeInv, AgainInv, WayInv', NEW r \in Runners, OwnStep(r)
  PROVE  AgainInv'
<1>1. run[r].stage # "idle" /\ UNCHANGED <<deaths, refused, overlapped>> /\ completed \subseteq completed'
  BY OwnSteps
<1>2. SUFFICES ASSUME Undisturbed PROVE AgainInv'
  BY <1>1, DisturbedAgain
<1>3. CASE run[r].steady \notin {"again", "moved"}
  <2>1. PICK n : Step(r, n) /\ (n.steady \in {"again", "moved"} => run[r].steady \in {"again", "moved"})
    BY SteadyStays
  <2>2. QED
    BY <1>1, <1>3, <2>1, AgainStep
<1>4. CASE DoesAgain(r) /\ AppendNext(r)
  BY <1>4, AppendKeepsAgain
<1>5. CASE DoesAgain(r) /\ ~AppendNext(r)
  <2>1. AddsNothing(r)
    BY <1>5, OwnStepAgain
  <2>2. CASE Step(r, Idle)
    BY <1>1, <2>2, AgainStep, IdleIsNoRerun
  <2>3. CASE ~Step(r, Idle)
    <3>1. PICK n : Step(r, n) /\ Redoes(n) /\ (n.steady = "again" => newest' = newest)
      BY <2>1, <2>3 DEF AddsNothing
    <3>2. (PredictionsValid /\ OutcomesValid)' /\ PredictionsValid /\ OutcomesValid
      BY <1>1, <1>2, StatesAreValid DEF WayInv, Undisturbed, Undying, PredictionsValid, OutcomesValid
    <3>3. Redoes(n)'
      BY <1>1, <2>1, <3>1, <3>2, RedoesAlike DEF AddsNothing
    <3>4. QED
      BY <1>1, <3>1, <3>3, AgainStep
  <2>4. QED
    BY <2>2, <2>3
<1>6. QED
  BY <1>2, <1>3, <1>4, <1>5 DEF DoesAgain

LEMMA BeginAgain ==
  ASSUME WayInv, RestInv, AgainInv, NEW r \in Runners, NEW q \in Questions, NEW b \in Batches, Begin(r, q, b)
  PROVE  AgainInv'
<1>1. PICK n : n = run'[r]
  OBVIOUS
<1>2. /\ UNCHANGED <<runtimeVars, journals, newest, completed, deaths, refused>>
      /\ overlapped' = (overlapped \/ \E s \in Runners : run[s] # Idle)
      /\ Begun(n, q, b) /\ n.steady = Steady(q, b) /\ \A s \in Runners \ {r} : Calmed(run[s], run'[s])
  BY <1>1, BeginMoves DEF WayInv, LearnInv
<1>3. SUFFICES ASSUME Undisturbed', NEW s \in Runners, run'[s].steady \in {"again", "moved"} PROVE Redoes(run[s])'
  BY DEF AgainInv
<1>4. s = r /\ run'[s] = n
  BY <1>1, <1>2, <1>3 DEF Calmed
<1>5. Undisturbed /\ n.steady = "again" /\ latest = <<q, b>>
  BY <1>2, <1>3, <1>4 DEF Undisturbed, Undying, Steady
<1>6. <<q, b>> \in completed /\ Rested(q, b)
  BY <1>5 DEF RestInv
<1>7. DOMAIN n.items = {} /\ n.models = <<>> /\ n.stage = "cutoff" /\ n.queue = <<>> /\ n.question = q /\ n.batch = b
  BY <1>2 DEF Begun
<1>8. Redo(n)
  BY <1>6, <1>7 DEF Redo, Rested
<1>9. Redoes(n)
  BY <1>6, <1>7, <1>8 DEF Redoes, Again
<1>10. (PredictionsValid /\ OutcomesValid)' /\ PredictionsValid /\ OutcomesValid
  BY <1>2, <1>5, StatesAreValid DEF PredictionsValid, OutcomesValid, journals
<1>11. UNCHANGED <<predictions, outcomes, events, newest>> /\ completed \subseteq completed'
  BY <1>2 DEF runtimeVars, journals
<1>12. Redoes(n)'
  BY <1>9, <1>10, <1>11, RedoesAlike
<1>13. QED
  BY <1>4, <1>12

LEMMA ContextAgain == ASSUME WayInv, AgainInv, ContextChanges PROVE AgainInv'
<1>1. \A s \in Runners : run'[s].steady = "no"
  BY ContextMoves DEF WayInv, LearnInv, Calmed
<1>2. QED
  BY <1>1 DEF AgainInv

LEMMA StillAgain == ASSUME WayInv, AgainInv, UNCHANGED loopVars PROVE AgainInv'
<1>1. UNCHANGED <<run, predictions, predictionState, outcomes, outcomeState, events, newest, completed, deaths, refused, overlapped>>
  BY DEF loopVars, runtimeVars, journals, market, counters
<1>2. SUFFICES ASSUME Undisturbed, NEW s \in Runners, run'[s].steady \in {"again", "moved"} PROVE Redoes(run[s])'
  BY <1>1 DEF AgainInv, Undisturbed, Undying
<1>3. (PredictionsValid /\ OutcomesValid)' /\ PredictionsValid /\ OutcomesValid
  BY <1>1, <1>2, StatesAreValid DEF PredictionsValid, OutcomesValid
<1>4. PICK n : n = run[s] /\ run'[s] = n
  BY <1>1
<1>5. Redoes(n)
  BY <1>2, <1>4 DEF AgainInv
<1>6. completed \subseteq completed'
  BY <1>1
<1>7. Redoes(n)'
  BY <1>1, <1>3, <1>5, <1>6, RedoesAlike
<1>8. QED
  BY <1>4, <1>7

LEMMA AgainKeeps == ASSUME WayInv, WholeInv, RestInv, AgainInv, [LoopNext]_loopVars PROVE AgainInv'
<1>1. WayInv'
  BY WayKeeps
<1>2. CASE UNCHANGED loopVars
  BY <1>2, StillAgain
<1>3. CASE ContextChanges
  BY <1>3, ContextAgain
<1>4. ASSUME NEW r \in Runners, NEW q \in Questions, NEW b \in Batches, Begin(r, q, b) PROVE AgainInv'
  BY <1>4, BeginAgain
<1>5. ASSUME NEW r \in Runners, OwnStep(r) PROVE AgainInv'
  BY <1>1, <1>5, OwnAgain
<1>6. ASSUME NEW r \in Runners, LeaseHeld(r) \/ Die(r) PROVE AgainInv'
  <2>1. ~Undisturbed'
    BY <1>6, LeaseHeldDisturbs, DieDisturbs
  <2>2. QED
    BY <2>1 DEF AgainInv
<1>7. QED
  BY <1>2, <1>3, <1>4, <1>5, <1>6, StepsAre DEF OwnStep

-----------------------------------------------------------------------------
\* What a step may do while a run does again what was done last.
KeepsTo(r) ==
  /\ run[r].steady = "again" => UNCHANGED <<predictions, outcomes, events>>
  /\ run[r].steady = "moved" => UNCHANGED Learnt
LEMMA NothingAdded == ASSUME NEW r, UNCHANGED <<predictions, outcomes, events>> PROVE KeepsTo(r)
BY DEF KeepsTo, Learnt

LEMMA AppendedOnly ==
  ASSUME WayInv, AgainInv, NEW r, DoesAgain(r), UNCHANGED <<predictions, outcomes>>,
         run[r].queue # <<>>, events' = Append(events, Head(run[r].queue))
  PROVE  KeepsTo(r)
<1>1. PICK ev2 : ev2 = events'
  OBVIOUS
<1>2. run[r].steady = "moved" /\ \A type \in {"claim", "score", "competence"} : Items(ev2, type) = Items(events, type)
  BY <1>1, AppendNextAgain
<1>3. /\ Items(events', "claim") = Items(events, "claim") /\ Items(events', "score") = Items(events, "score")
      /\ Items(events', "competence") = Items(events, "competence")
  BY <1>1, <1>2
<1>4. QED
  BY <1>2, <1>3 DEF KeepsTo, Learnt

LEMMA AgainAddsNothing ==
  ASSUME WayInv, WholeInv, AgainInv, [LoopNext]_loopVars, NEW r \in Runners, run[r].steady \in {"again", "moved"}, Undisturbed
  PROVE  KeepsTo(r)
<1>1. DoesAgain(r)
  BY DEF DoesAgain
<1>2. run[r].stage # "idle" /\ OneRun
  BY <1>1, AgainIs DEF WayInv, LearnInv, LoopInv, AllDecided, Undisturbed, Undying
<1>3. CASE UNCHANGED loopVars
  BY <1>3, NothingAdded DEF loopVars, runtimeVars, journals
<1>4. CASE ContextChanges
  BY <1>4, NothingAdded DEF ContextChanges, runtimeVars, journals
<1>5. ASSUME NEW s \in Runners, NEW q \in Questions, NEW b \in Batches, Begin(s, q, b)
      PROVE  KeepsTo(r)
  BY <1>5, NothingAdded DEF Begin, runtimeVars, journals
<1>6. ASSUME NEW s \in Runners, OwnStep(s) PROVE KeepsTo(r)
  <2>1. s = r
    BY <1>2, <1>6, OwnSteps DEF OneRun
  <2>2. CASE AppendNext(r)
    BY <1>1, <2>2, AppendedOnly DEF AppendNext, Journal, journals
  <2>3. CASE ~AppendNext(r)
    BY <1>1, <1>6, <2>1, <2>3, OwnStepAgain, NothingAdded DEF AddsNothing
  <2>4. QED
    BY <2>2, <2>3
<1>7. ASSUME NEW s \in Runners, LeaseHeld(s) PROVE KeepsTo(r)
  BY <1>7, NothingAdded DEF LeaseHeld, runtimeVars, journals
<1>8. ASSUME NEW s \in Runners, Die(s) PROVE KeepsTo(r)
  <2>1. run[s].stage # "idle"
    BY <1>8, RunIs DEF Die, WayInv, LearnInv
  <2>2. s = r
    BY <1>2, <2>1 DEF OneRun
  <2>3. QED
    BY <1>1, <1>8, <2>2, DieAgain, AppendedOnly, NothingAdded
<1>9. QED
  BY <1>3, <1>4, <1>5, <1>6, <1>7, <1>8, StepsAre DEF OwnStep

\* Processing the batch again that was processed last writes no prediction, no
\* outcome, no claim, no score and no memory, whatever the batches, the models
\* and the runners, and no event at all unless a context that it built became
\* the newest.
THEOREM RerunsAddNothing == LoopSpec => RerunAddsNothing
<1>1. LoopInit => WayInv /\ WholeInv /\ RestInv /\ AgainInv
  <2>1. LoopInit => \A r \in Runners : run[r].steady = "no"
    BY IdleIsNoRerun DEF LoopInit
  <2>2. QED
    BY <2>1, WayStarts, WholeStarts, RestStarts DEF AgainInv
<1>2. WayInv /\ WholeInv /\ RestInv /\ AgainInv /\ [LoopNext]_loopVars => (WayInv /\ WholeInv /\ RestInv /\ AgainInv)'
  <2>1. WayInv /\ [LoopNext]_loopVars => WayInv'
    BY WayKeeps
  <2>2. WayInv /\ WholeInv /\ [LoopNext]_loopVars => WholeInv'
    BY WholeKeeps
  <2>3. WayInv /\ RestInv /\ [LoopNext]_loopVars => RestInv'
    BY RestKeeps
  <2>4. WayInv /\ WholeInv /\ RestInv /\ AgainInv /\ [LoopNext]_loopVars => AgainInv'
    BY AgainKeeps
  <2>5. QED
    BY <2>1, <2>2, <2>3, <2>4
<1>3. WayInv /\ WholeInv /\ AgainInv /\ [LoopNext]_loopVars =>
        [\A r \in Runners : deaths = 0 /\ ~refused /\ ~overlapped =>
           /\ run[r].steady = "again" => UNCHANGED <<predictions, outcomes, events>>
           /\ run[r].steady = "moved" => UNCHANGED Learnt]_loopVars
  <2>1. SUFFICES ASSUME WayInv, WholeInv, AgainInv, [LoopNext]_loopVars, NEW r \in Runners, deaths = 0, ~refused, ~overlapped
                 PROVE  KeepsTo(r)
    BY DEF KeepsTo
  <2>2. CASE run[r].steady \in {"again", "moved"}
    BY <2>1, <2>2, AgainAddsNothing DEF Undisturbed, Undying
  <2>3. CASE run[r].steady \notin {"again", "moved"}
    BY <2>3 DEF KeepsTo
  <2>4. QED
    BY <2>2, <2>3
<1>4. QED
  BY <1>1, <1>2, <1>3, PTL DEF LoopSpec, RerunAddsNothing

-----------------------------------------------------------------------------
(* A sum over a set, however it is added up.                                *)

SumRow(g, s, w) == IF s = {} THEN 0 ELSE w[CHOOSE x \in s : TRUE] + g[s \ {CHOOSE x \in s : TRUE}]
Upto(S, n) == {s \in SUBSET S : Cardinality(s) <= n}

LEMMA SmallerSet ==
  ASSUME NEW S, IsFiniteSet(S), NEW n \in Nat, NEW s \in Upto(S, n + 1), s # {}
  PROVE  /\ (CHOOSE x \in s : TRUE) \in s
         /\ s \ {CHOOSE x \in s : TRUE} \in Upto(S, n)
         /\ IsFiniteSet(s)
<1>1. PICK x : x = CHOOSE y \in s : TRUE
  OBVIOUS
<1>2. x \in s
  BY <1>1
<1>3. s \in SUBSET S /\ IsFiniteSet(s) /\ Cardinality(s) <= n + 1
  BY FS_Subset DEF Upto
<1>4. IsFiniteSet(s \ {x}) /\ Cardinality(s \ {x}) = Cardinality(s) - 1 /\ Cardinality(s) \in Nat
  BY <1>2, <1>3, FS_RemoveElement, FS_CardinalityType
<1>5. s \ {x} \in Upto(S, n)
  BY <1>3, <1>4 DEF Upto
<1>6. QED
  BY <1>1, <1>2, <1>3, <1>5

SumsUpto(g, S, n, v) == g = [s \in Upto(S, n) |-> SumRow(g, s, v)]

LEMMA SumTable ==
  ASSUME NEW S, IsFiniteSet(S), NEW v
  PROVE  \A n \in Nat : \E g : SumsUpto(g, S, n, v)
<1> DEFINE I == {n \in Nat : \E g : g = [s \in Upto(S, n) |-> SumRow(g, s, v)]}
<1>1. 0 \in I
  <2>1. \A s \in Upto(S, 0) : s = {}
    <3>1. TAKE s \in Upto(S, 0)
    <3>2. IsFiniteSet(s) /\ Cardinality(s) <= 0
      BY FS_Subset DEF Upto
    <3>3. Cardinality(s) \in Nat
      BY <3>2, FS_CardinalityType
    <3>4. QED
      BY <3>2, <3>3, FS_EmptySet
  <2>2. PICK g : g = [s \in Upto(S, 0) |-> 0]
    OBVIOUS
  <2>3. \A s \in Upto(S, 0) : SumRow(g, s, v) = 0
    BY <2>1 DEF SumRow
  <2>4. QED
    BY <2>2, <2>3
<1>2. ASSUME NEW n \in Nat, n \in I PROVE n + 1 \in I
  <2>1. PICK g : g = [s \in Upto(S, n) |-> SumRow(g, s, v)]
    BY <1>2
  <2>2. PICK h : h = [s \in Upto(S, n + 1) |-> SumRow(g, s, v)]
    OBVIOUS
  <2>3. \A s \in Upto(S, n) : s \in Upto(S, n + 1)
    <3>1. TAKE s \in Upto(S, n)
    <3>2. IsFiniteSet(s) /\ Cardinality(s) <= n /\ s \in SUBSET S
      BY FS_Subset DEF Upto
    <3>3. Cardinality(s) \in Nat
      BY <3>2, FS_CardinalityType
    <3>4. QED
      BY <3>2, <3>3 DEF Upto
  <2>4. \A s \in Upto(S, n) : h[s] = g[s]
    BY <2>1, <2>2, <2>3
  <2>5. ASSUME NEW s \in Upto(S, n + 1) PROVE SumRow(g, s, v) = SumRow(h, s, v)
    <3>1. CASE s = {}
      BY <3>1 DEF SumRow
    <3>2. CASE s # {}
      <4>1. s \ {CHOOSE x \in s : TRUE} \in Upto(S, n)
        BY <3>2, SmallerSet
      <4>2. QED
        BY <2>4, <4>1 DEF SumRow
    <3>3. QED
      BY <3>1, <3>2
  <2>6. h = [s \in Upto(S, n + 1) |-> SumRow(h, s, v)]
    BY <2>2, <2>5
  <2>7. QED
    BY <2>6
<1>3. Nat \subseteq I
  <2> HIDE DEF I
  <2>1. QED
    BY <1>1, <1>2, Inductive
<1>4. QED
  BY <1>3 DEF SumsUpto

LEMMA UptoAll ==
  ASSUME NEW S, IsFiniteSet(S)
  PROVE  Cardinality(S) \in Nat /\ Upto(S, Cardinality(S)) = SUBSET S
<1>1. \A s \in SUBSET S : Cardinality(s) <= Cardinality(S)
  BY FS_Subset
<1>2. QED
  BY <1>1, FS_CardinalityType DEF Upto

Adds(g, S, w) == g = [s \in SUBSET S |-> SumRow(g, s, w)]

LEMMA SumExists ==
  ASSUME NEW S, IsFiniteSet(S), NEW w
  PROVE  \E g : Adds(g, S, w)
<1>1. PICK c \in Nat : c = Cardinality(S) /\ Upto(S, c) = SUBSET S
  BY UptoAll
<1>2. \E g : SumsUpto(g, S, c, w)
  BY <1>1, SumTable
<1>3. QED
  BY <1>1, <1>2 DEF SumsUpto, Adds

LEMMA SumsAreNumbers ==
  ASSUME NEW S, IsFiniteSet(S), NEW w \in [S -> Int], NEW g, Adds(g, S, w)
  PROVE  \A s \in SUBSET S : g[s] \in Int
<1> DEFINE I == {n \in Nat : \A s \in Upto(S, n) : g[s] \in Int}
<1>1. 0 \in I
  <2>1. SUFFICES ASSUME NEW s \in Upto(S, 0) PROVE g[s] \in Int
    OBVIOUS
  <2>2. IsFiniteSet(s) /\ Cardinality(s) <= 0 /\ s \in SUBSET S
    BY FS_Subset DEF Upto
  <2>3. s = {}
    BY <2>2, FS_CardinalityType, FS_EmptySet
  <2>4. g[s] = SumRow(g, s, w)
    BY <2>2 DEF Adds
  <2>5. QED
    BY <2>3, <2>4 DEF SumRow
<1>2. ASSUME NEW n \in Nat, n \in I PROVE n + 1 \in I
  <2>1. SUFFICES ASSUME NEW s \in Upto(S, n + 1) PROVE g[s] \in Int
    OBVIOUS
  <2>2. s \in SUBSET S
    BY DEF Upto
  <2>3. g[s] = SumRow(g, s, w)
    BY <2>2 DEF Adds
  <2>4. CASE s = {}
    BY <2>3, <2>4 DEF SumRow
  <2>5. CASE s # {}
    <3>1. PICK x : x = CHOOSE y \in s : TRUE
      OBVIOUS
    <3>2. x \in s /\ s \ {x} \in Upto(S, n)
      BY <2>5, <3>1, SmallerSet
    <3>3. g[s \ {x}] \in Int /\ w[x] \in Int
      BY <1>2, <2>2, <3>2
    <3>4. QED
      BY <2>3, <2>5, <3>1, <3>3 DEF SumRow
  <2>6. QED
    BY <2>4, <2>5
<1>3. Nat \subseteq I
  <2> HIDE DEF I
  <2>1. QED
    BY <1>1, <1>2, Inductive
<1>4. PICK c \in Nat : c = Cardinality(S) /\ Upto(S, c) = SUBSET S
  BY UptoAll
<1>5. QED
  BY <1>3, <1>4

\* Any member may be added last.
InAnyOrder(g, S, w) == \A s \in SUBSET S : \A x \in s : g[s] = w[x] + g[s \ {x}]

LEMMA AnyLast ==
  ASSUME NEW S, IsFiniteSet(S), NEW w \in [S -> Int], NEW g, Adds(g, S, w)
  PROVE  InAnyOrder(g, S, w)
<1> DEFINE I == {n \in Nat : \A s \in Upto(S, n) : \A x \in s : g[s] = w[x] + g[s \ {x}]}
<1>1. 0 \in I
  <2>1. SUFFICES ASSUME NEW s \in Upto(S, 0), NEW x \in s PROVE FALSE
    OBVIOUS
  <2>2. IsFiniteSet(s) /\ Cardinality(s) <= 0
    BY FS_Subset DEF Upto
  <2>3. QED
    BY <2>2, FS_CardinalityType, FS_EmptySet
<1>2. ASSUME NEW n \in Nat, n \in I PROVE n + 1 \in I
  <2>1. SUFFICES ASSUME NEW s \in Upto(S, n + 1), NEW x \in s PROVE g[s] = w[x] + g[s \ {x}]
    OBVIOUS
  <2>2. s \in SUBSET S /\ s # {}
    BY DEF Upto
  <2>3. PICK c : c = CHOOSE y \in s : TRUE
    OBVIOUS
  <2>4. c \in s /\ s \ {c} \in Upto(S, n) /\ IsFiniteSet(s)
    BY <2>2, <2>3, SmallerSet
  <2>5. g[s] = w[c] + g[s \ {c}]
    BY <2>2, <2>3 DEF Adds, SumRow
  <2>6. CASE x = c
    BY <2>5, <2>6
  <2>7. CASE x # c
    <3>1. x \in s \ {c} /\ c \in s \ {x}
      BY <2>4, <2>7
    <3>2. g[s \ {c}] = w[x] + g[(s \ {c}) \ {x}]
      BY <1>2, <2>4, <3>1
    <3>3. s \ {x} \in Upto(S, n)
      <4>1. Cardinality(s \ {x}) = Cardinality(s) - 1 /\ Cardinality(s) \in Nat /\ Cardinality(s) <= n + 1
        BY <2>4, FS_RemoveElement, FS_CardinalityType DEF Upto
      <4>2. QED
        BY <2>2, <4>1 DEF Upto
    <3>4. g[s \ {x}] = w[c] + g[(s \ {x}) \ {c}]
      BY <1>2, <3>1, <3>3
    <3>5. (s \ {x}) \ {c} = (s \ {c}) \ {x}
      OBVIOUS
    <3>6. PICK r : r = (s \ {c}) \ {x}
      OBVIOUS
    <3>7. r \in SUBSET S
      BY <2>2, <3>6
    <3>8. g[r] \in Int /\ w[x] \in Int /\ w[c] \in Int
      BY <2>2, <2>4, <3>7, SumsAreNumbers
    <3>9. g[s \ {c}] = w[x] + g[r] /\ g[s \ {x}] = w[c] + g[r]
      BY <3>2, <3>4, <3>5, <3>6
    <3>10. PICK a \in Int, b \in Int, d \in Int : a = g[r] /\ b = w[x] /\ d = w[c]
      BY <3>8
    <3>11. g[s] = d + (b + a) /\ g[s \ {x}] = d + a
      BY <2>5, <3>9, <3>10
    <3>12. QED
      BY <3>10, <3>11
  <2>8. QED
    BY <2>6, <2>7
<1>3. Nat \subseteq I
  <2> HIDE DEF I
  <2>1. QED
    BY <1>1, <1>2, Inductive
<1>4. PICK c \in Nat : c = Cardinality(S) /\ Upto(S, c) = SUBSET S
  BY UptoAll
<1>5. QED
  BY <1>3, <1>4 DEF InAnyOrder

\* More members of no lesser weight do not make a lesser sum.

LEMMA SumsCompare ==
  ASSUME NEW R, IsFiniteSet(R), NEW S \in SUBSET R, NEW w \in [S -> Int], NEW v \in [R -> Nat],
         \A x \in S : w[x] <= v[x], NEW g, Adds(g, S, w), NEW h, Adds(h, R, v)
  PROVE  g[S] \in Int /\ h[R] \in Int /\ g[S] <= h[R]
<1>1. IsFiniteSet(S) /\ v \in [R -> Int]
  BY FS_Subset
<1>2. /\ \A s \in SUBSET S : g[s] \in Int
      /\ \A s \in SUBSET S : \A x \in s : g[s] = w[x] + g[s \ {x}]
  <2>1. \A s \in SUBSET S : g[s] \in Int
    BY <1>1, SumsAreNumbers
  <2>2. InAnyOrder(g, S, w)
    BY <1>1, AnyLast
  <2>3. QED
    BY <2>1, <2>2 DEF InAnyOrder
<1>3. /\ \A s \in SUBSET R : h[s] \in Int
      /\ \A s \in SUBSET R : \A x \in s : h[s] = v[x] + h[s \ {x}]
  <2>1. \A s \in SUBSET R : h[s] \in Int
    BY <1>1, SumsAreNumbers
  <2>2. InAnyOrder(h, R, v)
    BY <1>1, AnyLast
  <2>3. QED
    BY <2>1, <2>2 DEF InAnyOrder
<1>4. g[{}] = 0 /\ h[{}] = 0
  <2>1. {} \in SUBSET S /\ {} \in SUBSET R
    OBVIOUS
  <2>2. QED
    BY <2>1 DEF Adds, SumRow
<1> DEFINE I == {n \in Nat : \A r \in Upto(R, n) : \A s \in SUBSET S : s \subseteq r => g[s] <= h[r]}
<1>5. 0 \in I
  <2>1. SUFFICES ASSUME NEW r \in Upto(R, 0), NEW s \in SUBSET S, s \subseteq r PROVE g[s] <= h[r]
    OBVIOUS
  <2>2. IsFiniteSet(r) /\ Cardinality(r) <= 0
    BY FS_Subset DEF Upto
  <2>3. r = {}
    BY <2>2, FS_CardinalityType, FS_EmptySet
  <2>4. s = {}
    BY <2>1, <2>3
  <2>5. QED
    BY <1>4, <2>3, <2>4
<1>6. ASSUME NEW n \in Nat, n \in I PROVE n + 1 \in I
  <2>1. SUFFICES ASSUME NEW r \in Upto(R, n + 1), NEW s \in SUBSET S, s \subseteq r PROVE g[s] <= h[r]
    OBVIOUS
  <2>2. CASE r = {}
    <3>1. s = {}
      BY <2>1, <2>2
    <3>2. QED
      BY <1>4, <2>2, <3>1
  <2>3. CASE r # {}
    <3>1. PICK x : x = CHOOSE y \in r : TRUE
      OBVIOUS
    <3>2. x \in r /\ r \ {x} \in Upto(R, n) /\ r \in SUBSET R
      BY <2>3, <3>1, SmallerSet DEF Upto
    <3>3. PICK q : q = r \ {x}
      OBVIOUS
    <3>4. q \in Upto(R, n) /\ q \in SUBSET R /\ h[r] = v[x] + h[q] /\ h[q] \in Int /\ v[x] \in Nat
      BY <1>3, <3>2, <3>3
    <3>5. CASE x \in s
      <4>1. PICK p : p = s \ {x}
        OBVIOUS
      <4>2. p \in SUBSET S /\ p \subseteq q /\ x \in S
        BY <2>1, <3>3, <3>5, <4>1
      <4>3. g[p] <= h[q]
        BY <1>6, <3>4, <4>2
      <4>4. g[s] = w[x] + g[p] /\ g[p] \in Int /\ w[x] \in Int /\ w[x] <= v[x]
        BY <1>2, <3>5, <4>1, <4>2
      <4>5. QED
        BY <3>4, <4>3, <4>4
    <3>6. CASE x \notin s
      <4>1. s \subseteq q
        BY <2>1, <3>3, <3>6
      <4>2. g[s] <= h[q] /\ g[s] \in Int
        BY <1>2, <1>6, <3>4, <4>1
      <4>3. QED
        BY <3>4, <4>2
    <3>7. QED
      BY <3>5, <3>6
  <2>4. QED
    BY <2>2, <2>3
<1>7. Nat \subseteq I
  <2> HIDE DEF I
  <2>1. QED
    BY <1>5, <1>6, Inductive
<1>8. PICK c \in Nat : c = Cardinality(R) /\ Upto(R, c) = SUBSET R
  BY UptoAll
<1>9. R \in Upto(R, c) /\ S \in SUBSET S /\ R \in SUBSET R
  BY <1>8
<1>10. QED
  BY <1>2, <1>3, <1>7, <1>8, <1>9

-----------------------------------------------------------------------------
(* What synthesis adds up: penalties and weights.                           *)

Penalties(F) == [x \in F |-> Penalty(x)]
Weights(A, t) == [f \in Available(A) |-> IF f \in StaleFamilies(A, t) THEN DIMENSION_WEIGHTS[f] ELSE 2 * DIMENSION_WEIGHTS[f]]

PenaltyRow(g, s) ==
  IF s = {} THEN 0 ELSE Penalty(CHOOSE x \in s : TRUE) + g[s \ {CHOOSE x \in s : TRUE}]

LEMMA PenaltySum ==
  ASSUME NEW F, IsFiniteSet(F)
  PROVE  \E g : Adds(g, F, Penalties(F)) /\ MapThenSumSet(Penalty, F) = g[F]
<1>1. PICK w : w = Penalties(F)
  OBVIOUS
<1>2. \A s \in SUBSET F : \A g : PenaltyRow(g, s) = SumRow(g, s, w)
  <2>1. TAKE s \in SUBSET F
  <2>2. TAKE g
  <2>3. CASE s = {}
    BY <2>3 DEF PenaltyRow, SumRow
  <2>4. CASE s # {}
    <3>1. PICK x : x = CHOOSE y \in s : TRUE
      OBVIOUS
    <3>2. x \in F
      BY <2>4, <3>1
    <3>3. w[x] = Penalty(x)
      BY <1>1, <3>2 DEF Penalties
    <3>4. QED
      BY <2>4, <3>1, <3>3 DEF PenaltyRow, SumRow
  <2>5. QED
    BY <2>3, <2>4
<1>3. PICK h : h = CHOOSE g : g = [s \in SUBSET F |-> PenaltyRow(g, s)]
  OBVIOUS
<1>4. MapThenSumSet(Penalty, F) = h[F]
  BY <1>3 DEF MapThenSumSet, MapThenFoldSet, PenaltyRow
<1>5. PICK g : Adds(g, F, w)
  BY SumExists
<1>6. g = [s \in SUBSET F |-> PenaltyRow(g, s)]
  BY <1>2, <1>5 DEF Adds
<1>7. h = [s \in SUBSET F |-> PenaltyRow(h, s)]
  BY <1>3, <1>6
<1>8. Adds(h, F, w)
  BY <1>2, <1>7 DEF Adds
<1>9. QED
  BY <1>1, <1>4, <1>8
WeightRow(g, s, stale) ==
  IF s = {} THEN 0 ELSE (IF (CHOOSE x \in s : TRUE) \in stale THEN DIMENSION_WEIGHTS[CHOOSE x \in s : TRUE]
        ELSE 2 * DIMENSION_WEIGHTS[CHOOSE x \in s : TRUE]) + g[s \ {CHOOSE x \in s : TRUE}]

LEMMA WeightSum ==
  ASSUME NEW A, NEW t, IsFiniteSet(Available(A))
  PROVE  \E g : Adds(g, Available(A), Weights(A, t)) /\ Completeness(A, t) = g[Available(A)]
<1>1. PICK F, stale, w : F = Available(A) /\ stale = StaleFamilies(A, t) /\ w = Weights(A, t)
  OBVIOUS
<1>2. \A s \in SUBSET F : \A g : WeightRow(g, s, stale) = SumRow(g, s, w)
  <2>1. TAKE s \in SUBSET F
  <2>2. TAKE g
  <2>3. CASE s = {}
    BY <2>3 DEF WeightRow, SumRow
  <2>4. CASE s # {}
    <3>1. PICK x : x = CHOOSE y \in s : TRUE
      OBVIOUS
    <3>2. x \in F
      BY <2>4, <3>1
    <3>3. w[x] = IF x \in stale THEN DIMENSION_WEIGHTS[x] ELSE 2 * DIMENSION_WEIGHTS[x]
      BY <1>1, <3>2 DEF Weights
    <3>4. QED
      BY <2>4, <3>1, <3>3 DEF WeightRow, SumRow
  <2>5. QED
    BY <2>3, <2>4
<1>3. PICK h : h = CHOOSE g : g = [s \in SUBSET F |-> WeightRow(g, s, stale)]
  OBVIOUS
<1>4. Completeness(A, t) = h[F]
  BY <1>1, <1>3 DEF Completeness, MapThenSumSet, MapThenFoldSet, WeightRow
<1>5. PICK g : Adds(g, F, w)
  BY <1>1, SumExists
<1>6. g = [s \in SUBSET F |-> WeightRow(g, s, stale)]
  BY <1>2, <1>5 DEF Adds
<1>7. h = [s \in SUBSET F |-> WeightRow(h, s, stale)]
  BY <1>3, <1>6
<1>8. Adds(h, F, w)
  BY <1>2, <1>7 DEF Adds
<1>9. QED
  BY <1>1, <1>4, <1>8

-----------------------------------------------------------------------------
(* Families, the latest of each, findings.                                  *)

LEMMA TenFamilies == Len(QUESTION_FAMILIES) = 10 /\ DOMAIN QUESTION_FAMILIES = 1..10
  BY DEF QUESTION_FAMILIES

LEMMA FamiliesNumbered ==
  /\ \A f \in Families : \E i \in 1..10 : QUESTION_FAMILIES[i] = f
  /\ IsFiniteSet(Families)
<1>1. \A f \in Families : \E i \in 1..10 : QUESTION_FAMILIES[i] = f
  BY TenFamilies DEF Families, Range
<1>2. PICK q : q = [i \in 1..10 |-> QUESTION_FAMILIES[i]]
  OBVIOUS
<1>3. q \in Surjection(1..10, Families)
  <2>1. \A i \in 1..10 : QUESTION_FAMILIES[i] \in Families
    BY TenFamilies DEF Families, Range
  <2>2. q \in [1..10 -> Families]
    BY <1>2, <2>1
  <2>3. \A f \in Families : \E i \in 1..10 : q[i] = f
    BY <1>1, <1>2
  <2>4. QED
    BY <2>2, <2>3 DEF Surjection
<1>4. IsFiniteSet(1..10)
  <2>1. PICK n \in Nat : n = 10
    OBVIOUS
  <2>2. IsFiniteSet(1..n)
    BY FS_Interval
  <2>3. QED
    BY <2>1, <2>2
<1>5. QED
  BY <1>1, <1>3, <1>4, FS_Surjection

LEMMA WeightsAreNumbers == \A f \in Families : DIMENSION_WEIGHTS[f] \in Nat
<1>1. TAKE f \in Families
<1>2. f \in {"DIRECTION", "MAGNITUDE", "VOLATILITY", "FRAGILITY", "LIQUIDITY",
             "BASIS", "RELATIVE_VALUE", "REGIME", "PERSISTENCE", "REVERSAL"}
  <2>1. PICK i \in 1..10 : QUESTION_FAMILIES[i] = f
    BY FamiliesNumbered
  <2>2. i \in {1, 2, 3, 4, 5, 6, 7, 8, 9, 10}
    BY <2>1
  <2>3. QED
    BY <2>1, <2>2 DEF QUESTION_FAMILIES
<1>3. QED
  BY <1>2 DEF DIMENSION_WEIGHTS

\* Assemblies on record by t.
OnRecord(A, t) ==
  /\ IsFiniteSet(A) /\ t \in Nat
  /\ \A a \in A : a.family \in Families /\ a.known \in 0..t /\ a.cutoff \in 0..t

LEMMA AvailableAre ==
  ASSUME NEW A, NEW t, OnRecord(A, t)
  PROVE  Available(A) \in SUBSET Families /\ IsFiniteSet(Available(A))
<1>1. Available(A) \in SUBSET Families
  BY DEF OnRecord, Available
<1>2. QED
  BY <1>1, FamiliesNumbered, FS_Subset

LEMMA LatestIsThere ==
  ASSUME NEW A, NEW t, OnRecord(A, t), NEW f \in Available(A)
  PROVE  Latest(A, f) \in A /\ Latest(A, f).family = f
<1>1. PICK T : T = OfFamily(A, f)
  OBVIOUS
<1>2. T \subseteq A /\ T # {} /\ \A a \in T : a.family = f
  BY <1>1 DEF Available, OfFamily
<1>3. t \in Nat /\ \A a \in T : a.known \in 0..t /\ a.cutoff \in 0..t
  BY <1>2 DEF OnRecord
<1>4. PICK N : N = {t - a.known : a \in T}
  OBVIOUS
<1>5. N \in SUBSET Nat /\ N # {}
  BY <1>2, <1>3, <1>4
<1>6. PICK a \in T : \A b \in T : ~ (t - b.known < t - a.known)
  <2>1. PICK m \in N : \A k \in N : ~ (k < m)
    BY <1>5, FirstNumber
  <2>2. QED
    BY <1>4, <2>1
<1>7. PICK M : M = {t - b.cutoff : b \in {c \in T : c.known = a.known}}
  OBVIOUS
<1>8. M \in SUBSET Nat /\ M # {}
  <2>1. \A b \in T : t - b.cutoff \in Nat
    BY <1>3
  <2>2. QED
    BY <1>7, <2>1
<1>9. PICK d \in T : d.known = a.known /\ \A b \in T : b.known = a.known => ~ (t - b.cutoff < t - d.cutoff)
  <2>1. PICK m \in M : \A k \in M : ~ (k < m)
    BY <1>8, FirstNumber
  <2>2. QED
    BY <1>7, <2>1
<1>10. \A b \in T : b.known < d.known \/ (b.known = d.known /\ b.cutoff <= d.cutoff)
  <2>1. TAKE b \in T
  <2>2. b.known \in Int /\ d.known \in Int /\ b.cutoff \in Int /\ d.cutoff \in Int /\ a.known \in Int
    BY <1>3
  <2>3. QED
    BY <1>3, <1>6, <1>9, <2>2
<1>11. Contenders(A, f) # {}
  BY <1>1, <1>10 DEF Contenders
<1>12. Latest(A, f) \in Contenders(A, f)
  BY <1>11 DEF Latest
<1>13. QED
  BY <1>1, <1>2, <1>12 DEF Contenders

\* Time only makes stale.

LEMMA StaleStays ==
  ASSUME NEW A, NEW t, OnRecord(A, t), NEW u \in Nat, t <= u
  PROVE  StaleFamilies(A, t) \subseteq StaleFamilies(A, u)
<1>1. SUFFICES ASSUME NEW f \in Available(A), Stale(Latest(A, f), t) PROVE Stale(Latest(A, f), u)
  BY DEF StaleFamilies
<1>2. PICK a : a = Latest(A, f)
  OBVIOUS
<1>3. a \in A
  BY <1>2, LatestIsThere
<1>4. a.known \in Int /\ a.family \in Families /\ t \in Nat
  BY <1>3 DEF OnRecord
<1>5. HorizonOf[a.family] \in Nat
  BY <1>4, QuestionsAreKnown
<1>6. QED
  BY <1>1, <1>2, <1>4, <1>5 DEF Stale, STALE_HORIZON_MULTIPLE
FindingKinds == {"DIRECT_CONTRADICTION", "STRUCTURAL_DIVERGENCE", "FRAGILITY_WARNING", "REGIME_TRANSITION", "STALE_INPUT",
                 "LOW_INDEPENDENCE", "LINEAGE_UNKNOWN", "HORIZON_TENSION", "MISSING_SUPPORT"}
Findings == [kind : FindingKinds, families : SUBSET Families]
FindingsOf(A, t) == Contradiction(A, t) \cup Tensions(A) \cup Quality(A, t, Independence(A))

LEMMA AFinding ==
  ASSUME NEW A, NEW k \in FindingKinds, NEW S \in SUBSET Families, NEW P \in BOOLEAN
  PROVE  Finding(A, k, S, P) \in SUBSET Findings /\ IsFiniteSet(Finding(A, k, S, P))
<1>1. PICK x : x = [kind |-> k, families |-> S]
  OBVIOUS
<1>2. x \in Findings
  BY <1>1 DEF Findings
<1>3. IsFiniteSet({}) /\ IsFiniteSet({x})
  BY FS_EmptySet, FS_Singleton
<1>4. Finding(A, k, S, P) = {x} \/ Finding(A, k, S, P) = {}
  BY <1>1 DEF Finding
<1>5. QED
  BY <1>2, <1>3, <1>4

LEMMA KnownFamilies ==
  {"DIRECTION", "MAGNITUDE", "VOLATILITY", "FRAGILITY", "LIQUIDITY",
   "BASIS", "RELATIVE_VALUE", "REGIME", "PERSISTENCE", "REVERSAL"} \subseteq Families
<1>1. \A i \in 1..10 : QUESTION_FAMILIES[i] \in Families
  BY TenFamilies DEF Families, Range
<1>2. 1 \in 1..10 /\ 2 \in 1..10 /\ 3 \in 1..10 /\ 4 \in 1..10 /\ 5 \in 1..10
  OBVIOUS
<1>3. 6 \in 1..10 /\ 7 \in 1..10 /\ 8 \in 1..10 /\ 9 \in 1..10 /\ 10 \in 1..10
  OBVIOUS
<1>4. QED
  BY <1>1, <1>2, <1>3 DEF QUESTION_FAMILIES

LEMMA ContradictionIs ==
  ASSUME NEW A, NEW t
  PROVE  Contradiction(A, t) \in SUBSET Findings /\ IsFiniteSet(Contradiction(A, t))
<1>1. PICK P \in BOOLEAN : P = (/\ {"DIRECTION", "MAGNITUDE"} \subseteq PresentFamilies(A, t)
                                /\ Polarity(Said(A, "DIRECTION")) * Sgn(Said(A, "MAGNITUDE")) = -1)
  OBVIOUS
<1>2. Contradiction(A, t) = Finding(A, "DIRECT_CONTRADICTION", {"DIRECTION", "MAGNITUDE"}, P)
  BY <1>1 DEF Contradiction
<1>3. "DIRECT_CONTRADICTION" \in FindingKinds /\ {"DIRECTION", "MAGNITUDE"} \in SUBSET Families
  BY KnownFamilies DEF FindingKinds
<1>4. QED
  BY <1>2, <1>3, AFinding

LEMMA TensionsAre ==
  ASSUME NEW A
  PROVE  Tensions(A) \in SUBSET Findings /\ IsFiniteSet(Tensions(A))
<1>1. PICK P \in BOOLEAN, Q \in BOOLEAN, R \in BOOLEAN, S \in BOOLEAN, T \in BOOLEAN :
        /\ P = (Said(A, "REVERSAL") = 1)
        /\ Q = (Said(A, "LIQUIDITY") = 1 /\ Convinced(Said(A, "DIRECTION")))
        /\ R = (Motion(Said(A, "BASIS")) = 1 /\ Motion(Said(A, "RELATIVE_VALUE")) = -1)
        /\ S = (Said(A, "PERSISTENCE") = 0)
        /\ T = (Polarity(Said(A, "DIRECTION")) * Said(A, "REGIME") = -1)
  OBVIOUS
<1>2. PICK kind : kind = IF TimescaleCategory("DIRECTION") # TimescaleCategory("REGIME")
                         THEN "HORIZON_TENSION" ELSE "DIRECT_CONTRADICTION"
  OBVIOUS
<1>3. PICK p, q, r, s, u :
        /\ p = Finding(A, "REGIME_TRANSITION", {"DIRECTION", "REVERSAL"}, P)
        /\ q = Finding(A, "FRAGILITY_WARNING", {"DIRECTION", "LIQUIDITY"}, Q)
        /\ r = Finding(A, "STRUCTURAL_DIVERGENCE", {"BASIS", "RELATIVE_VALUE"}, R)
        /\ s = Finding(A, "REGIME_TRANSITION", {"REGIME", "PERSISTENCE"}, S)
        /\ u = Finding(A, kind, {"DIRECTION", "REGIME"}, T)
  OBVIOUS
<1>4. /\ {kind, "REGIME_TRANSITION", "FRAGILITY_WARNING", "STRUCTURAL_DIVERGENCE"} \subseteq FindingKinds
      /\ {"DIRECTION", "REVERSAL"} \in SUBSET Families /\ {"DIRECTION", "LIQUIDITY"} \in SUBSET Families
      /\ {"BASIS", "RELATIVE_VALUE"} \in SUBSET Families /\ {"REGIME", "PERSISTENCE"} \in SUBSET Families
      /\ {"DIRECTION", "REGIME"} \in SUBSET Families
  BY <1>2, KnownFamilies DEF FindingKinds
<1>5. p \in SUBSET Findings /\ IsFiniteSet(p)
  BY <1>3, <1>4, AFinding
<1>6. q \in SUBSET Findings /\ IsFiniteSet(q)
  BY <1>3, <1>4, AFinding
<1>7. r \in SUBSET Findings /\ IsFiniteSet(r)
  BY <1>3, <1>4, AFinding
<1>8. s \in SUBSET Findings /\ IsFiniteSet(s)
  BY <1>3, <1>4, AFinding
<1>9. u \in SUBSET Findings /\ IsFiniteSet(u)
  BY <1>3, <1>4, AFinding
<1>10. Tensions(A) = p \cup (q \cup (r \cup (s \cup u)))
  <2>1. Tensions(A) = UNION {p, q, r, s, u}
    BY <1>1, <1>2, <1>3 DEF Tensions
  <2>2. QED
    BY <2>1
<1>11. IsFiniteSet(s \cup u)
  BY <1>8, <1>9, FS_Union
<1>12. IsFiniteSet(r \cup (s \cup u))
  BY <1>7, <1>11, FS_Union
<1>13. IsFiniteSet(q \cup (r \cup (s \cup u)))
  BY <1>6, <1>12, FS_Union
<1>14. IsFiniteSet(p \cup (q \cup (r \cup (s \cup u))))
  BY <1>5, <1>13, FS_Union
<1>15. QED
  BY <1>5, <1>6, <1>7, <1>8, <1>9, <1>10, <1>14

Stales(A, t) == {[kind |-> "STALE_INPUT", families |-> {f}] : f \in StaleFamilies(A, t)}
Lineage(A, independence) ==
  IF Available(A) # {} /\ ~LineageKnown(A) THEN {[kind |-> "LINEAGE_UNKNOWN", families |-> Available(A)]}
  ELSE IF independence[1] \notin {0, independence[2]} THEN {[kind |-> "LOW_INDEPENDENCE", families |-> Available(A)]} ELSE {}
Gaps(A) == IF Available(A) # Families THEN {[kind |-> "MISSING_SUPPORT", families |-> Families \ Available(A)]} ELSE {}

LEMMA QualityReads ==
  ASSUME NEW A, NEW t, NEW independence
  PROVE  Quality(A, t, independence) = Stales(A, t) \cup (Lineage(A, independence) \cup Gaps(A))
<1>1. Quality(A, t, independence) = UNION {Stales(A, t), Lineage(A, independence), Gaps(A)}
  BY DEF Quality, Stales, Lineage, Gaps
<1>2. QED
  BY <1>1

LEMMA QualityIs ==
  ASSUME NEW A, NEW t, OnRecord(A, t), NEW u, NEW independence
  PROVE  Quality(A, u, independence) \in SUBSET Findings /\ IsFiniteSet(Quality(A, u, independence))
<1>1. PICK F : F = StaleFamilies(A, u)
  OBVIOUS
<1>2. F \in SUBSET Families /\ IsFiniteSet(F) /\ Available(A) \in SUBSET Families
  <2>1. F \subseteq Available(A)
    BY <1>1 DEF StaleFamilies
  <2>2. QED
    BY <2>1, AvailableAre, FS_Subset
<1>3. Stales(A, u) \in SUBSET Findings /\ IsFiniteSet(Stales(A, u))
  <2>1. PICK m : m = [f \in F |-> [kind |-> "STALE_INPUT", families |-> {f}]]
    OBVIOUS
  <2>2. m \in Surjection(F, Stales(A, u))
    <3>1. \A f \in F : m[f] \in Stales(A, u)
      BY <1>1, <2>1 DEF Stales
    <3>2. \A x \in Stales(A, u) : \E f \in F : m[f] = x
      BY <1>1, <2>1 DEF Stales
    <3>3. m \in [F -> Stales(A, u)]
      BY <2>1, <3>1
    <3>4. QED
      BY <3>2, <3>3 DEF Surjection
  <2>3. IsFiniteSet(Stales(A, u))
    BY <1>2, <2>2, FS_Surjection
  <2>4. \A f \in F : [kind |-> "STALE_INPUT", families |-> {f}] \in Findings
    BY <1>2 DEF Findings, FindingKinds
  <2>5. QED
    BY <1>1, <2>3, <2>4 DEF Stales
<1>4. Lineage(A, independence) \in SUBSET Findings /\ IsFiniteSet(Lineage(A, independence))
  <2>1. PICK x, y : x = [kind |-> "LINEAGE_UNKNOWN", families |-> Available(A)]
                    /\ y = [kind |-> "LOW_INDEPENDENCE", families |-> Available(A)]
    OBVIOUS
  <2>2. x \in Findings /\ y \in Findings
    BY <1>2, <2>1 DEF Findings, FindingKinds
  <2>3. IsFiniteSet({x}) /\ IsFiniteSet({y}) /\ IsFiniteSet({})
    BY FS_Singleton, FS_EmptySet
  <2>4. Lineage(A, independence) \in {{x}, {y}, {}}
    BY <2>1 DEF Lineage
  <2>5. QED
    BY <2>2, <2>3, <2>4
<1>5. Gaps(A) \in SUBSET Findings /\ IsFiniteSet(Gaps(A))
  <2>1. PICK x : x = [kind |-> "MISSING_SUPPORT", families |-> Families \ Available(A)]
    OBVIOUS
  <2>2. x \in Findings
    BY <2>1 DEF Findings, FindingKinds
  <2>3. IsFiniteSet({x}) /\ IsFiniteSet({})
    BY FS_Singleton, FS_EmptySet
  <2>4. Gaps(A) \in {{x}, {}}
    BY <2>1 DEF Gaps
  <2>5. QED
    BY <2>2, <2>3, <2>4
<1>6. IsFiniteSet(Lineage(A, independence) \cup Gaps(A))
  BY <1>4, <1>5, FS_Union
<1>7. IsFiniteSet(Stales(A, u) \cup (Lineage(A, independence) \cup Gaps(A)))
  BY <1>3, <1>6, FS_Union
<1>8. QED
  BY <1>3, <1>4, <1>5, <1>7, QualityReads

LEMMA FindingsAre ==
  ASSUME NEW A, NEW t, OnRecord(A, t), NEW u
  PROVE  FindingsOf(A, u) \in SUBSET Findings /\ IsFiniteSet(FindingsOf(A, u))
<1>1. PICK c, s, q : c = Contradiction(A, u) /\ s = Tensions(A) /\ q = Quality(A, u, Independence(A))
  OBVIOUS
<1>2. c \in SUBSET Findings /\ IsFiniteSet(c)
  BY <1>1, ContradictionIs
<1>3. s \in SUBSET Findings /\ IsFiniteSet(s)
  BY <1>1, TensionsAre
<1>4. q \in SUBSET Findings /\ IsFiniteSet(q)
  BY <1>1, QualityIs
<1>5. IsFiniteSet(c \cup s)
  BY <1>2, <1>3, FS_Union
<1>6. IsFiniteSet((c \cup s) \cup q)
  BY <1>4, <1>5, FS_Union
<1>7. QED
  BY <1>1, <1>2, <1>3, <1>4, <1>6 DEF FindingsOf

\* Later there is no finding less, but for a contradiction out of sight.

LEMMA FindingsGrow ==
  ASSUME NEW A, NEW t, OnRecord(A, t), NEW u \in Nat, t <= u,
         \A x \in FindingsOf(A, t) : x.kind = "DIRECT_CONTRADICTION" => x \in FindingsOf(A, u)
  PROVE  FindingsOf(A, t) \subseteq FindingsOf(A, u)
<1>1. \A x \in Contradiction(A, t) : x.kind = "DIRECT_CONTRADICTION"
  BY DEF Contradiction, Finding
<1>2. Stales(A, t) \subseteq Stales(A, u)
  BY StaleStays DEF Stales
<1>3. Quality(A, t, Independence(A)) \subseteq Quality(A, u, Independence(A))
  BY <1>2, QualityReads
<1>4. QED
  BY <1>1, <1>3 DEF FindingsOf

LEMMA PenaltyIsNumber == \A x \in Findings : Penalty(x) \in Nat
<1>1. SUFFICES ASSUME NEW x \in Findings PROVE Penalty(x) \in Nat
  OBVIOUS
<1>2. x.kind \in FindingKinds /\ IsFiniteSet(x.families)
  BY FamiliesNumbered, FS_Subset DEF Findings
<1>3. PICK n \in Nat : n = Cardinality(x.families)
  BY <1>2, FS_CardinalityType
<1>4. Min({4, n}) \in Nat
  <2>1. \E y \in {4, n} : \A z \in {4, n} : y <= z
    OBVIOUS
  <2>2. Min({4, n}) \in {4, n}
    BY <2>1 DEF Min
  <2>3. QED
    BY <2>2
<1>5. CASE x.kind = "MISSING_SUPPORT"
  BY <1>3, <1>4, <1>5 DEF Penalty
<1>6. CASE x.kind # "MISSING_SUPPORT"
  BY <1>2, <1>6 DEF Penalty, FindingKinds
<1>7. QED
  BY <1>5, <1>6

LEMMA CoherenceFalls ==
  ASSUME NEW G \in SUBSET Findings, IsFiniteSet(G), NEW F \in SUBSET G
  PROVE  Coherence(F) \in Int /\ Coherence(G) \in Int /\ Coherence(G) <= Coherence(F)
<1>1. IsFiniteSet(F) /\ F \in SUBSET Findings
  BY FS_Subset
<1>2. PICK f : Adds(f, F, Penalties(F)) /\ MapThenSumSet(Penalty, F) = f[F]
  BY <1>1, PenaltySum
<1>3. PICK g : Adds(g, G, Penalties(G)) /\ MapThenSumSet(Penalty, G) = g[G]
  BY PenaltySum
<1>4. PICK w, v : w = Penalties(F) /\ v = Penalties(G)
  OBVIOUS
<1>5. w \in [F -> Int] /\ v \in [G -> Nat] /\ \A x \in F : w[x] <= v[x]
  <2>1. \A x \in F : w[x] = Penalty(x) /\ v[x] = Penalty(x) /\ Penalty(x) \in Nat
    BY <1>1, <1>4, PenaltyIsNumber DEF Penalties
  <2>2. w \in [F -> Int]
    BY <1>4, <2>1 DEF Penalties
  <2>3. v \in [G -> Nat]
    BY <1>4, PenaltyIsNumber DEF Penalties
  <2>4. \A x \in F : w[x] <= v[x]
    BY <2>1
  <2>5. QED
    BY <2>2, <2>3, <2>4
<1>6. f[F] \in Int /\ g[G] \in Int /\ f[F] <= g[G]
  BY <1>2, <1>3, <1>4, <1>5, SumsCompare
<1>7. PICK a \in Int, b \in Int : a = MapThenSumSet(Penalty, F) /\ b = MapThenSumSet(Penalty, G) /\ a <= b
  BY <1>2, <1>3, <1>6
<1>8. Coherence(F) = (IF 100 - a >= 0 THEN 100 - a ELSE 0)
  BY <1>7 DEF Coherence, Max
<1>9. Coherence(G) = (IF 100 - b >= 0 THEN 100 - b ELSE 0)
  BY <1>7 DEF Coherence, Max
<1>10. QED
  BY <1>7, <1>8, <1>9

LEMMA CompletenessFalls ==
  ASSUME NEW A, NEW t, OnRecord(A, t), NEW u \in Nat, t <= u
  PROVE  Completeness(A, t) \in Int /\ Completeness(A, u) \in Int /\ Completeness(A, u) <= Completeness(A, t)
<1>1. PICK F : F = Available(A) /\ F \in SUBSET Families /\ IsFiniteSet(F)
  BY AvailableAre
<1>2. PICK f : Adds(f, F, Weights(A, u)) /\ Completeness(A, u) = f[F]
  BY <1>1, WeightSum
<1>3. PICK g : Adds(g, F, Weights(A, t)) /\ Completeness(A, t) = g[F]
  BY <1>1, WeightSum
<1>4. PICK w, v : w = Weights(A, u) /\ v = Weights(A, t)
  OBVIOUS
<1>5. \A x \in F : /\ w[x] \in Nat /\ v[x] \in Nat /\ w[x] <= v[x]
  <2>1. TAKE x \in F
  <2>2. PICK d \in Nat : d = DIMENSION_WEIGHTS[x]
    BY <1>1, WeightsAreNumbers
  <2>3. /\ w[x] = IF x \in StaleFamilies(A, u) THEN d ELSE 2 * d
        /\ v[x] = IF x \in StaleFamilies(A, t) THEN d ELSE 2 * d
    BY <1>1, <1>4, <2>2 DEF Weights
  <2>4. x \in StaleFamilies(A, t) => x \in StaleFamilies(A, u)
    BY StaleStays
  <2>5. QED
    BY <2>2, <2>3, <2>4
<1>6. w \in [F -> Int] /\ v \in [F -> Nat]
  <2>1. w = [x \in F |-> w[x]] /\ v = [x \in F |-> v[x]]
    BY <1>1, <1>4 DEF Weights
  <2>2. QED
    BY <1>5, <2>1
<1>7. \A x \in F : w[x] <= v[x]
  BY <1>5
<1>8. F \in SUBSET F
  OBVIOUS
<1>9. f[F] \in Int /\ g[F] \in Int /\ f[F] <= g[F]
  BY <1>1, <1>2, <1>3, <1>4, <1>6, <1>7, <1>8, SumsCompare
<1>10. QED
  BY <1>2, <1>3, <1>9

\* The second term of the confidence: the independence of the same evidence.

LEMMA IndependenceIs ==
  ASSUME NEW A, NEW t, OnRecord(A, t)
  PROVE  \/ Independence(A) = <<0, 1>>
         \/ /\ Independence(A) = <<ConnectedGroupCount(A), Cardinality(Available(A))>> /\ LineageKnown(A)
            /\ Cardinality(Available(A)) \in Nat /\ Cardinality(Available(A)) >= 2
<1>1. Cardinality(Available(A)) \in Nat
  BY AvailableAre, FS_CardinalityType
<1>2. QED
  BY <1>1 DEF Independence

-----------------------------------------------------------------------------
(* The groups of distinct evidence.                                         *)

Left(k) == QUESTION_FAMILIES[((k - 1) \div Len(QUESTION_FAMILIES)) + 1]
Right(k) == QUESTION_FAMILIES[((k - 1) % Len(QUESTION_FAMILIES)) + 1]
PairShares(A, k) ==
  /\ (k - 1) \div Len(QUESTION_FAMILIES) < (k - 1) % Len(QUESTION_FAMILIES)
  /\ {Left(k), Right(k)} \subseteq Available(A) /\ Share(A, Left(k), Right(k))
RootRow(A, g, k) ==
  IF k = 0 THEN [f \in Available(A) |-> f]
  ELSE IF PairShares(A, k) THEN Join(g[k - 1], Left(k), Right(k)) ELSE g[k - 1]
RootTable(A, g, n) == g = [k \in 0..n |-> RootRow(A, g, k)]

LEMMA RootTables == \A A : \A n \in Nat : \E g : RootTable(A, g, n)
<1>1. TAKE A
<1> DEFINE I == {n \in Nat : \E g : g = [k \in 0..n |-> RootRow(A, g, k)]}
<1>2. 0 \in I
  <2>1. PICK g : g = [k \in 0..0 |-> [f \in Available(A) |-> f]]
    OBVIOUS
  <2>2. \A k \in 0..0 : RootRow(A, g, k) = [f \in Available(A) |-> f]
    BY DEF RootRow
  <2>3. g = [k \in 0..0 |-> RootRow(A, g, k)]
    BY <2>1, <2>2
  <2>4. QED
    BY <2>3
<1>3. ASSUME NEW n \in Nat, n \in I PROVE n + 1 \in I
  <2>1. PICK g : g = [k \in 0..n |-> RootRow(A, g, k)]
    BY <1>3
  <2>2. PICK h : h = [k \in 0..(n + 1) |-> RootRow(A, g, k)]
    OBVIOUS
  <2>3. \A k \in 0..n : k \in 0..(n + 1) /\ h[k] = g[k]
    BY <2>1, <2>2
  <2>4. ASSUME NEW k \in 0..(n + 1) PROVE RootRow(A, g, k) = RootRow(A, h, k)
    <3>1. k = 0 \/ k - 1 \in 0..n
      OBVIOUS
    <3>2. k = 0 \/ h[k - 1] = g[k - 1]
      BY <2>3, <3>1
    <3>3. QED
      BY <3>2 DEF RootRow
  <2>5. h = [k \in 0..(n + 1) |-> RootRow(A, h, k)]
    BY <2>2, <2>4
  <2>6. QED
    BY <2>5
<1>4. Nat \subseteq I
  <2> HIDE DEF I
  <2>1. QED
    BY <1>2, <1>3, Inductive
<1>5. QED
  BY <1>4 DEF RootTable

LEMMA RootsUnfold == \A A : \E g : RootTable(A, g, 100) /\ Roots(A) = g[100]
<1>1. TAKE A
<1>2. PICK n : n = Len(QUESTION_FAMILIES) * Len(QUESTION_FAMILIES)
  OBVIOUS
<1>3. PICK h : h = CHOOSE g : g = [k \in 0..n |-> RootRow(A, g, k)]
  OBVIOUS
<1>4. h = CHOOSE g : g = [k \in 0..(Len(QUESTION_FAMILIES) * Len(QUESTION_FAMILIES)) |-> RootRow(A, g, k)]
  BY <1>2, <1>3
<1>5. Roots(A) = h[n]
  BY <1>2, <1>4 DEF Roots, RootRow, PairShares, Left, Right
<1>6. n = 100
  BY <1>2, TenFamilies
<1>7. \E g : RootTable(A, g, n)
  BY <1>6, RootTables
<1>8. h = [k \in 0..n |-> RootRow(A, h, k)]
  BY <1>3, <1>7 DEF RootTable
<1>9. RootTable(A, h, n)
  BY <1>8 DEF RootTable
<1>10. QED
  BY <1>5, <1>6, <1>9
\* Families with one root are in one component.
Tied(A, root) ==
  \A f, g \in Available(A) : root[f] = root[g] =>
    \A C \in SUBSET Available(A) : Closed(A, C) /\ f \in C => g \in C
RootsAre(A, root, n) ==
  /\ DOMAIN root = Available(A) /\ Tied(A, root)
  /\ \A k \in 1..n : PairShares(A, k) => root[Left(k)] = root[Right(k)]

LEMMA SharingGoesBothWays == \A A, f, g : Share(A, f, g) <=> Share(A, g, f)
  BY DEF Share

LEMMA JoinKeepsTies ==
  ASSUME NEW A, NEW root, DOMAIN root = Available(A), Tied(A, root),
         NEW f \in Available(A), NEW g \in Available(A), Share(A, f, g)
  PROVE  /\ DOMAIN Join(root, f, g) = Available(A) /\ Tied(A, Join(root, f, g))
         /\ Join(root, f, g)[f] = Join(root, f, g)[g]
         /\ \A x, y \in Available(A) : root[x] = root[y] => Join(root, f, g)[x] = Join(root, f, g)[y]
<1>1. PICK new : new = Join(root, f, g)
  OBVIOUS
<1>2. DOMAIN new = Available(A) /\ \A h \in Available(A) : new[h] = IF root[h] = root[g] THEN root[f] ELSE root[h]
  BY <1>1 DEF Join
<1>3. \A x, y \in Available(A) : root[x] = root[y] => new[x] = new[y]
  BY <1>2
<1>4. ASSUME NEW C \in SUBSET Available(A), Closed(A, C)
      PROVE  f \in C <=> g \in C
  BY <1>4, SharingGoesBothWays DEF Closed
<1>5. ASSUME NEW x \in Available(A), NEW y \in Available(A), new[x] = new[y],
             NEW C \in SUBSET Available(A), Closed(A, C), x \in C
      PROVE  y \in C
  <2>1. \A a, b \in Available(A) : root[a] = root[b] /\ a \in C => b \in C
    BY <1>5 DEF Tied
  <2>2. root[x] = root[y] \/ (root[x] = root[g] /\ root[f] = root[y]) \/ (root[y] = root[g] /\ root[x] = root[f])
    BY <1>2, <1>5
  <2>3. f \in C <=> g \in C
    BY <1>4, <1>5
  <2>4. CASE root[x] = root[y]
    BY <1>5, <2>1, <2>4
  <2>5. CASE root[x] = root[g] /\ root[f] = root[y]
    BY <1>5, <2>1, <2>3, <2>5
  <2>6. CASE root[y] = root[g] /\ root[x] = root[f]
    <3>1. f \in C
      BY <1>5, <2>1, <2>6
    <3>2. g \in C /\ root[g] = root[y]
      BY <2>3, <2>6, <3>1
    <3>3. QED
      BY <2>1, <3>2
  <2>7. QED
    BY <2>2, <2>4, <2>5, <2>6
<1>6. Tied(A, new)
  BY <1>5 DEF Tied
<1>7. new[f] = new[g]
  BY <1>2
<1>8. QED
  BY <1>1, <1>2, <1>3, <1>6, <1>7

LEMMA RootsGrow ==
  ASSUME NEW A, NEW g, RootTable(A, g, 100)
  PROVE  RootsAre(A, g[100], 100)
<1>1. PICK N \in Nat : N = 100
  OBVIOUS
<1>2. \A k \in 0..N : g[k] = RootRow(A, g, k)
  BY <1>1 DEF RootTable
<1> DEFINE S == {k \in Nat : k <= N => RootsAre(A, g[k], k)}
<1>3. 0 \in S
  <2>1. PICK root : root = [f \in Available(A) |-> f]
    OBVIOUS
  <2>2. 0 \in 0..N
    BY <1>1
  <2>3. g[0] = root
    BY <1>2, <2>1, <2>2 DEF RootRow
  <2>4. Tied(A, root)
    BY <2>1 DEF Tied
  <2>5. \A k \in 1..0 : FALSE
    OBVIOUS
  <2>6. DOMAIN root = Available(A)
    BY <2>1
  <2>7. RootsAre(A, root, 0)
    BY <2>4, <2>5, <2>6 DEF RootsAre
  <2>8. QED
    BY <2>3, <2>7
<1>4. ASSUME NEW n \in Nat, n \in S PROVE n + 1 \in S
  <2>1. SUFFICES ASSUME n + 1 <= N PROVE RootsAre(A, g[n + 1], n + 1)
    OBVIOUS
  <2>2. RootsAre(A, g[n], n)
    BY <1>1, <1>4, <2>1
  <2>3. PICK j \in 0..N : j = n + 1 /\ j - 1 = n /\ j # 0
    BY <1>1, <2>1
  <2>4. g[j] = IF PairShares(A, j) THEN Join(g[n], Left(j), Right(j)) ELSE g[n]
    BY <1>2, <2>3 DEF RootRow
  <2>5. \A k \in 1..j : k \in 1..n \/ k = j
    BY <2>3
  <2>6. DOMAIN g[n] = Available(A) /\ Tied(A, g[n]) /\ \A k \in 1..n : PairShares(A, k) => g[n][Left(k)] = g[n][Right(k)]
    BY <2>2 DEF RootsAre
  <2>7. CASE PairShares(A, j)
    <3>1. PICK f, h : f = Left(j) /\ h = Right(j)
      OBVIOUS
    <3>2. f \in Available(A) /\ h \in Available(A) /\ Share(A, f, h)
      BY <2>7, <3>1 DEF PairShares
    <3>3. PICK new : new = Join(g[n], f, h)
      OBVIOUS
    <3>4. /\ DOMAIN new = Available(A) /\ Tied(A, new) /\ new[f] = new[h]
          /\ \A x, y \in Available(A) : g[n][x] = g[n][y] => new[x] = new[y]
      BY <2>6, <3>2, <3>3, JoinKeepsTies
    <3>5. \A k \in 1..n : PairShares(A, k) => new[Left(k)] = new[Right(k)]
      <4>1. \A k : PairShares(A, k) => Left(k) \in Available(A) /\ Right(k) \in Available(A)
        BY DEF PairShares
      <4>2. QED
        BY <2>6, <3>4, <4>1
    <3>6. g[j] = new
      BY <2>4, <2>7, <3>1, <3>3
    <3>7. \A k \in 1..j : PairShares(A, k) => new[Left(k)] = new[Right(k)]
      BY <2>5, <3>1, <3>4, <3>5
    <3>8. RootsAre(A, new, j)
      BY <3>4, <3>7 DEF RootsAre
    <3>9. QED
      BY <2>3, <3>6, <3>8
  <2>8. CASE ~ PairShares(A, j)
    <3>1. g[j] = g[n]
      BY <2>4, <2>8
    <3>2. \A k \in 1..j : PairShares(A, k) => g[n][Left(k)] = g[n][Right(k)]
      BY <2>5, <2>6, <2>8
    <3>3. RootsAre(A, g[n], j)
      BY <2>6, <3>2 DEF RootsAre
    <3>4. QED
      BY <2>3, <3>1, <3>3
  <2>9. QED
    BY <2>7, <2>8
<1>5. Nat \subseteq S
  <2> HIDE DEF S
  <2>1. QED
    BY <1>3, <1>4, Inductive
<1>6. QED
  BY <1>1, <1>5

\* Every two families come up, the one listed earlier on the left.

LEMMA EveryPairComes ==
  ASSUME NEW i \in 1..10, NEW j \in 1..10, i < j
  PROVE  \E k \in 1..100 : /\ Left(k) = QUESTION_FAMILIES[i] /\ Right(k) = QUESTION_FAMILIES[j]
                           /\ (k - 1) \div Len(QUESTION_FAMILIES) < (k - 1) % Len(QUESTION_FAMILIES)
<1>1. PICK k \in 1..100 : k = 10 * (i - 1) + j
  OBVIOUS
<1>2. (k - 1) \div 10 = i - 1 /\ (k - 1) % 10 = j - 1
  BY <1>1
<1>3. ((k - 1) \div 10) + 1 = i /\ ((k - 1) % 10) + 1 = j /\ (k - 1) \div 10 < (k - 1) % 10
  BY <1>2
<1>4. PICK n : n = Len(QUESTION_FAMILIES) /\ n = 10
  BY TenFamilies
<1>5. Left(k) = QUESTION_FAMILIES[((k - 1) \div n) + 1] /\ Right(k) = QUESTION_FAMILIES[((k - 1) % n) + 1]
  BY <1>4 DEF Left, Right
<1>6. QED
  BY <1>3, <1>4, <1>5

\* What the roots are worth: whoever shares has one root, whoever has one root

\* is connected.
LEMMA RootsJoin ==
  ASSUME NEW A, NEW t, OnRecord(A, t)
  PROVE  /\ DOMAIN Roots(A) = Available(A) /\ Tied(A, Roots(A))
         /\ \A f, g \in Available(A) : Share(A, f, g) => Roots(A)[f] = Roots(A)[g]
<1>1. PICK root : root = Roots(A) /\ RootsAre(A, root, 100)
  BY RootsUnfold, RootsGrow
<1>2. DOMAIN root = Available(A) /\ Tied(A, root) /\ \A k \in 1..100 : PairShares(A, k) => root[Left(k)] = root[Right(k)]
  BY <1>1 DEF RootsAre
<1>3. ASSUME NEW i \in 1..10, NEW j \in 1..10, i < j, QUESTION_FAMILIES[i] \in Available(A),
             QUESTION_FAMILIES[j] \in Available(A), Share(A, QUESTION_FAMILIES[i], QUESTION_FAMILIES[j])
      PROVE  root[QUESTION_FAMILIES[i]] = root[QUESTION_FAMILIES[j]]
  <2>1. PICK k \in 1..100 : /\ Left(k) = QUESTION_FAMILIES[i] /\ Right(k) = QUESTION_FAMILIES[j]
                            /\ (k - 1) \div Len(QUESTION_FAMILIES) < (k - 1) % Len(QUESTION_FAMILIES)
    BY <1>3, EveryPairComes
  <2>2. PairShares(A, k)
    BY <1>3, <2>1 DEF PairShares
  <2>3. QED
    BY <1>2, <2>1, <2>2
<1>4. ASSUME NEW f \in Available(A), NEW g \in Available(A), Share(A, f, g)
      PROVE  root[f] = root[g]
  <2>1. f \in Families /\ g \in Families
    BY AvailableAre
  <2>2. PICK i \in 1..10 : QUESTION_FAMILIES[i] = f
    BY <2>1, FamiliesNumbered
  <2>3. PICK j \in 1..10 : QUESTION_FAMILIES[j] = g
    BY <2>1, FamiliesNumbered
  <2>4. i < j \/ j < i \/ i = j
    OBVIOUS
  <2>5. CASE i < j
    BY <1>3, <1>4, <2>2, <2>3, <2>5
  <2>6. CASE j < i
    <3>1. Share(A, g, f)
      BY <1>4, SharingGoesBothWays
    <3>2. QED
      BY <1>3, <2>2, <2>3, <2>6, <3>1
  <2>7. CASE i = j
    BY <2>2, <2>3, <2>7
  <2>8. QED
    BY <2>4, <2>5, <2>6, <2>7
<1>5. QED
  BY <1>1, <1>2, <1>4
RootSet(A) == Range(Roots(A))
Under(A, r) == {f \in Available(A) : Roots(A)[f] = r}

LEMMA ComponentsAreRoots ==
  ASSUME NEW A, NEW t, OnRecord(A, t)
  PROVE  /\ \A r \in RootSet(A) : Under(A, r) \in Components(A)
         /\ \A C \in Components(A) : \E r \in RootSet(A) : Under(A, r) = C
         /\ \A r, s \in RootSet(A) : Under(A, r) = Under(A, s) => r = s
<1>1. PICK root, V : root = Roots(A) /\ V = Available(A)
  OBVIOUS
<1>2. /\ DOMAIN root = V
      /\ \A f, g \in V : root[f] = root[g] => \A C \in SUBSET V : Closed(A, C) /\ f \in C => g \in C
      /\ \A f, g \in V : Share(A, f, g) => root[f] = root[g]
  <2>1. DOMAIN root = V /\ Tied(A, root) /\ \A f, g \in V : Share(A, f, g) => root[f] = root[g]
    BY <1>1, RootsJoin
  <2>2. QED
    BY <1>1, <2>1 DEF Tied
<1>3. \A r : r \in RootSet(A) <=> \E f \in V : root[f] = r
  BY <1>1, <1>2 DEF RootSet, Range
<1>4. \A r : Under(A, r) \in SUBSET V /\ Closed(A, Under(A, r))
  BY <1>1, <1>2 DEF Under, Closed
<1>5. ASSUME NEW r \in RootSet(A) PROVE Under(A, r) \in Components(A)
  <2>1. Under(A, r) # {}
    BY <1>1, <1>3 DEF Under
  <2>2. ASSUME NEW D \in SUBSET Under(A, r), D # {}, Closed(A, D) PROVE D = Under(A, r)
    <3>1. PICK f \in D : TRUE
      BY <2>2
    <3>2. D \in SUBSET V
      BY <1>4
    <3>3. \A g \in Under(A, r) : g \in V /\ f \in V /\ root[f] = root[g]
      BY <1>1, <3>1 DEF Under
    <3>4. \A g \in Under(A, r) : g \in D
      BY <1>2, <2>2, <3>1, <3>2, <3>3
    <3>5. QED
      BY <3>4
  <2>3. QED
    BY <1>1, <1>4, <2>1, <2>2 DEF Components
<1>6. ASSUME NEW C \in Components(A) PROVE \E r \in RootSet(A) : Under(A, r) = C
  <2>1. C \in SUBSET V /\ C # {} /\ Closed(A, C) /\ \A D \in (SUBSET C) \ {{}} : Closed(A, D) => D = C
    BY <1>1 DEF Components
  <2>2. PICK f \in C : TRUE
    BY <2>1
  <2>3. PICK r : r = root[f]
    OBVIOUS
  <2>4. r \in RootSet(A) /\ f \in Under(A, r)
    BY <1>1, <1>3, <2>1, <2>2, <2>3 DEF Under
  <2>5. \A g \in Under(A, r) : g \in C
    BY <1>1, <1>2, <2>1, <2>2, <2>3 DEF Under
  <2>6. Under(A, r) \in (SUBSET C) \ {{}}
    BY <2>4, <2>5
  <2>7. QED
    BY <1>4, <2>1, <2>4, <2>6
<1>7. ASSUME NEW r \in RootSet(A), NEW s \in RootSet(A), Under(A, r) = Under(A, s) PROVE r = s
  BY <1>1, <1>3, <1>7 DEF Under
<1>8. QED
  BY <1>5, <1>6, <1>7

LEMMA RootSetIsFinite ==
  ASSUME NEW A, NEW t, OnRecord(A, t)
  PROVE  IsFiniteSet(RootSet(A)) /\ ConnectedGroupCount(A) = Cardinality(RootSet(A)) /\ ConnectedGroupCount(A) \in Nat
<1>1. PICK root, V : root = Roots(A) /\ V = Available(A)
  OBVIOUS
<1>2. DOMAIN root = V /\ IsFiniteSet(V)
  BY <1>1, RootsJoin, AvailableAre
<1>3. PICK m : m = [f \in V |-> root[f]]
  OBVIOUS
<1>4. m \in Surjection(V, RootSet(A))
  <2>1. m \in [V -> RootSet(A)]
    BY <1>1, <1>2, <1>3 DEF RootSet, Range
  <2>2. \A r \in RootSet(A) : \E f \in V : m[f] = r
    BY <1>1, <1>2, <1>3 DEF RootSet, Range
  <2>3. QED
    BY <2>1, <2>2 DEF Surjection
<1>5. IsFiniteSet(RootSet(A))
  BY <1>2, <1>4, FS_Surjection
<1>6. QED
  BY <1>5, FS_CardinalityType DEF ConnectedGroupCount, RootSet

LEMMA CountsComponents ==
  ASSUME NEW A, NEW t, OnRecord(A, t)
  PROVE  ConnectedGroupCount(A) = Cardinality(Components(A))
<1>1. PICK R, C : R = RootSet(A) /\ C = Components(A)
  OBVIOUS
<1>2. PICK b : b = [r \in R |-> Under(A, r)]
  OBVIOUS
<1>3. b \in Bijection(R, C)
  <2>1. /\ \A r \in R : Under(A, r) \in C
        /\ \A D \in C : \E r \in R : Under(A, r) = D
        /\ \A r, s \in R : Under(A, r) = Under(A, s) => r = s
    BY <1>1, ComponentsAreRoots
  <2>2. b \in [R -> C]
    BY <1>2, <2>1
  <2>3. b \in Injection(R, C)
    BY <1>2, <2>1, <2>2 DEF Injection, IsInjective
  <2>4. b \in Surjection(R, C)
    BY <1>2, <2>1, <2>2 DEF Surjection
  <2>5. QED
    BY <2>3, <2>4 DEF Bijection
<1>4. IsFiniteSet(R)
  BY <1>1, RootSetIsFinite
<1>5. Cardinality(R) = Cardinality(C)
  BY <1>3, <1>4, FS_Bijection DEF ExistsBijection
<1>6. QED
  BY <1>1, <1>5, RootSetIsFinite

\* More questions on evidence that is represented make no new group.

LEMMA NoNewGroup ==
  ASSUME NEW A, NEW t, OnRecord(A, t), NEW B, NEW u, OnRecord(B, u), A \subseteq B,
         \A b \in B \ A : b.family \notin Available(A) /\ Represented(b, A)
  PROVE  /\ ConnectedGroupCount(B) <= ConnectedGroupCount(A)
         /\ Cardinality(Available(A)) <= Cardinality(Available(B))
<1>1. PICK V, W, old, new : V = Available(A) /\ W = Available(B) /\ old = Roots(A) /\ new = Roots(B)
  OBVIOUS
<1>2. V \subseteq W /\ IsFiniteSet(W)
  BY <1>1, AvailableAre DEF Available
<1>3. \A f \in V : Latest(B, f) = Latest(A, f)
  <2>1. TAKE f \in V
  <2>2. OfFamily(B, f) = OfFamily(A, f)
    BY <1>1 DEF OfFamily
  <2>3. Contenders(B, f) = Contenders(A, f)
    BY <2>2 DEF Contenders
  <2>4. QED
    BY <2>3 DEF Latest
<1>4. /\ DOMAIN old = V /\ DOMAIN new = W
      /\ \A f, g \in V : old[f] = old[g] => \A C \in SUBSET V : Closed(A, C) /\ f \in C => g \in C
      /\ \A f, g \in W : Share(B, f, g) => new[f] = new[g]
  <2>1. DOMAIN old = V /\ Tied(A, old)
    BY <1>1, RootsJoin
  <2>2. DOMAIN new = W /\ \A f, g \in W : Share(B, f, g) => new[f] = new[g]
    BY <1>1, RootsJoin
  <2>3. QED
    BY <1>1, <2>1, <2>2 DEF Tied
<1>5. ASSUME NEW f \in V, NEW g \in V, old[f] = old[g] PROVE new[f] = new[g]
  <2>1. PICK C : C = {h \in V : new[h] = new[f]}
    OBVIOUS
  <2>2. \A h, k \in V : Share(A, h, k) => Share(B, h, k)
    BY <1>3 DEF Share
  <2>3. Closed(A, C)
    BY <1>1, <1>2, <1>4, <2>1, <2>2 DEF Closed
  <2>4. g \in C
    BY <1>4, <1>5, <2>1, <2>3
  <2>5. QED
    BY <2>1, <2>4
<1>6. ASSUME NEW g \in W PROVE \E f \in V : new[f] = new[g]
  <2>1. CASE g \in V
    BY <2>1
  <2>2. CASE g \notin V
    <3>1. PICK b : b = Latest(B, g)
      OBVIOUS
    <3>2. b \in B /\ b.family = g
      BY <1>1, <3>1, LatestIsThere
    <3>3. b \notin A
      BY <1>1, <2>2, <3>2 DEF Available
    <3>4. PICK f \in V : b.groups \cap Latest(A, f).groups # {}
      BY <1>1, <3>2, <3>3 DEF Represented
    <3>5. Share(B, f, g)
      BY <1>3, <3>1, <3>4 DEF Share
    <3>6. QED
      BY <1>2, <1>4, <3>4, <3>5
  <2>3. QED
    BY <2>1, <2>2
<1>7. PICK m : m = [r \in RootSet(A) |-> new[CHOOSE f \in V : old[f] = r]]
  OBVIOUS
<1>8. m \in Surjection(RootSet(A), RootSet(B))
  <2>1. /\ \A r : r \in RootSet(A) <=> \E f \in V : old[f] = r
        /\ \A r : r \in RootSet(B) <=> \E f \in W : new[f] = r
    BY <1>1, <1>4 DEF RootSet, Range
  <2>2. ASSUME NEW r \in RootSet(A) PROVE \E f \in V : old[f] = r /\ m[r] = new[f]
    <3>1. PICK f : f = CHOOSE h \in V : old[h] = r
      OBVIOUS
    <3>2. f \in V /\ old[f] = r
      BY <2>1, <3>1
    <3>3. QED
      BY <1>7, <3>1, <3>2
  <2>3. m \in [RootSet(A) -> RootSet(B)]
    <3>1. \A r \in RootSet(A) : m[r] \in RootSet(B)
      BY <1>2, <2>1, <2>2
    <3>2. QED
      BY <1>7, <3>1
  <2>4. ASSUME NEW s \in RootSet(B) PROVE \E r \in RootSet(A) : m[r] = s
    <3>1. PICK f \in V : new[f] = s
      BY <1>6, <2>1
    <3>2. PICK r : r = old[f] /\ r \in RootSet(A)
      BY <2>1
    <3>3. PICK h \in V : old[h] = r /\ m[r] = new[h]
      BY <2>2, <3>2
    <3>4. new[h] = new[f]
      BY <1>5, <3>2, <3>3
    <3>5. QED
      BY <3>1, <3>2, <3>3, <3>4
  <2>5. QED
    BY <2>3, <2>4 DEF Surjection
<1>9. IsFiniteSet(RootSet(A))
  BY RootSetIsFinite
<1>10. Cardinality(RootSet(B)) <= Cardinality(RootSet(A))
  BY <1>8, <1>9, FS_Surjection
<1>11. ConnectedGroupCount(A) = Cardinality(RootSet(A)) /\ ConnectedGroupCount(B) = Cardinality(RootSet(B))
  BY RootSetIsFinite
<1>12. Cardinality(V) <= Cardinality(W)
  BY <1>2, FS_Subset
<1>13. QED
  BY <1>1, <1>10, <1>11, <1>12

-----------------------------------------------------------------------------
(* The synthesis on record.                                                 *)

\* It is the market state of assemblies that are still there, by some instant.
Synthesizes(document, A, t) == document = MarketState(A, t)
SynthesisInv ==
  /\ OnRecord(assemblies, instant)
  /\ synthesis # None => \E A \in SUBSET assemblies, t \in 0..instant : OnRecord(A, t) /\ Synthesizes(synthesis, A, t)

LEMMA SynthesisStarts == SynthesisInit => SynthesisInv
<1>1. IsFiniteSet({})
  BY FS_EmptySet
<1>2. QED
  BY <1>1 DEF SynthesisInit, SynthesisInv, OnRecord

LEMMA SynthesisSteps == SynthesisInv /\ [SynthesisNext]_synthesisVars => SynthesisInv'
<1> SUFFICES ASSUME SynthesisInv, [SynthesisNext]_synthesisVars PROVE SynthesisInv'
  OBVIOUS
<1>1. /\ IsFiniteSet(assemblies) /\ instant \in Nat
      /\ \A a \in assemblies : a.family \in Families /\ a.known \in 0..instant /\ a.cutoff \in 0..instant
      /\ synthesis # None => \E A \in SUBSET assemblies, t \in 0..instant : OnRecord(A, t) /\ Synthesizes(synthesis, A, t)
  BY DEF SynthesisInv, OnRecord
<1>2. ASSUME NEW a \in Arrivals, RecordAssembly(a) PROVE SynthesisInv'
  <2>1. PICK x : x = [family |-> a.family, ref |-> a.ref, known |-> instant,
                      cutoff |-> instant, answer |-> a.answer, groups |-> a.groups]
    OBVIOUS
  <2>2. assemblies' = assemblies \cup {x} /\ instant' = instant /\ synthesis' = synthesis
    BY <1>2, <2>1 DEF RecordAssembly
  <2>3. x.family \in Families /\ x.known \in 0..instant /\ x.cutoff \in 0..instant
    BY <1>1, <2>1, QuestionsAreKnown
  <2>4. IsFiniteSet(assemblies')
    BY <1>1, <2>2, FS_AddElement
  <2>5. OnRecord(assemblies', instant')
    BY <1>1, <2>2, <2>3, <2>4 DEF OnRecord
  <2>6. synthesis' # None => \E A \in SUBSET assemblies', t \in 0..instant' : OnRecord(A, t) /\ Synthesizes(synthesis', A, t)
    BY <1>1, <2>2
  <2>7. QED
    BY <2>5, <2>6 DEF SynthesisInv, OnRecord, Synthesizes
<1>3. ASSUME Age PROVE SynthesisInv'
  <2>1. instant' = instant + 1 /\ assemblies' = assemblies /\ synthesis' = synthesis
    BY <1>3 DEF Age
  <2>2. 0..instant \subseteq 0..instant' /\ instant' \in Nat
    BY <1>1, <2>1
  <2>3. OnRecord(assemblies', instant')
    BY <1>1, <2>1, <2>2 DEF OnRecord
  <2>4. synthesis' # None => \E A \in SUBSET assemblies', t \in 0..instant' : OnRecord(A, t) /\ Synthesizes(synthesis', A, t)
    BY <1>1, <2>1, <2>2
  <2>5. QED
    BY <2>3, <2>4 DEF SynthesisInv
<1>4. ASSUME SynthesizeMarket PROVE SynthesisInv'
  <2>1. instant' = instant /\ assemblies' = assemblies /\ Synthesizes(synthesis', assemblies, instant)
    BY <1>4 DEF SynthesizeMarket, Synthesizes
  <2>2. assemblies \in SUBSET assemblies /\ instant \in 0..instant /\ OnRecord(assemblies, instant)
    BY <1>1 DEF OnRecord
  <2>3. QED
    BY <2>1, <2>2 DEF SynthesisInv
<1>5. CASE UNCHANGED synthesisVars
  <2>1. instant' = instant /\ assemblies' = assemblies /\ synthesis' = synthesis
    BY <1>5 DEF synthesisVars
  <2>2. OnRecord(assemblies', instant')
    BY <2>1 DEF SynthesisInv
  <2>3. QED
    BY <1>1, <2>1, <2>2 DEF SynthesisInv
<1>6. QED
  BY <1>2, <1>3, <1>4, <1>5 DEF SynthesisNext

LEMMA MarketStateIs ==
  ASSUME NEW document, NEW A, NEW t, Synthesizes(document, A, t)
  PROVE  /\ document.inputs = A /\ document.independence = Independence(A) /\ document.findings = FindingsOf(A, t)
         /\ document.confidence = Confidence(Completeness(A, t), Coherence(FindingsOf(A, t)), Independence(A))
  BY DEF Synthesizes, MarketState, FindingsOf

LEMMA GroupsCounted == SynthesisInv => GroupsAreComponents
<1> SUFFICES ASSUME SynthesisInv, synthesis # None, synthesis.independence[1] > 0
             PROVE  synthesis.independence[1] = Cardinality(Components(synthesis.inputs))
  BY DEF GroupsAreComponents
<1>1. PICK A \in SUBSET assemblies, t \in 0..instant : OnRecord(A, t) /\ Synthesizes(synthesis, A, t)
  BY DEF SynthesisInv
<1>2. synthesis.inputs = A /\ synthesis.independence = Independence(A)
  BY <1>1, MarketStateIs
<1>3. Independence(A) # <<0, 1>>
  BY <1>2
<1>4. Independence(A)[1] = ConnectedGroupCount(A)
  BY <1>1, <1>3, IndependenceIs
<1>5. ConnectedGroupCount(A) = Cardinality(Components(A))
  BY <1>1, CountsComponents
<1>6. QED
  BY <1>2, <1>4, <1>5

\* Confidence grows with completeness and with coherence.

LEMMA ConfidenceFollows ==
  ASSUME NEW c \in Int, NEW d \in Int, c <= d, NEW x \in Int, NEW y \in Int, x <= y,
         NEW A, NEW t, OnRecord(A, t)
  PROVE  Confidence(c, x, Independence(A)) <= Confidence(d, y, Independence(A))
<1>1. PICK i : i = Independence(A)
  OBVIOUS
<1>2. PICK n \in Nat, m \in Nat \ {0} : n = i[1] /\ m = i[2]
  <2>1. CASE i = <<0, 1>>
    BY <2>1
  <2>2. CASE i # <<0, 1>>
    <3>1. PICK m \in Nat : m = Cardinality(Available(A)) /\ m >= 2 /\ i = <<ConnectedGroupCount(A), m>>
      BY <1>1, <2>2, IndependenceIs
    <3>2. ConnectedGroupCount(A) \in Nat
      BY RootSetIsFinite
    <3>3. QED
      BY <3>1, <3>2
  <2>3. QED
    BY <2>1, <2>2
<1>3. PICK q \in Int : q = 2520 \div m
  BY <1>2
<1>4. PICK p \in Int : p = 5000 * n * q
  OBVIOUS
<1>5. Confidence(c, x, i) = 2520 * (35 * c + 80 * x) + p
  BY <1>2, <1>3, <1>4 DEF Confidence
<1>6. Confidence(d, y, i) = 2520 * (35 * d + 80 * y) + p
  BY <1>2, <1>3, <1>4 DEF Confidence
<1>7. 2520 * (35 * c + 80 * x) + p <= 2520 * (35 * d + 80 * y) + p
  OBVIOUS
<1>8. QED
  BY <1>1, <1>5, <1>6, <1>7

LEMMA AgingStep ==
  ASSUME NEW was, NEW A, NEW t, OnRecord(A, t), Synthesizes(was, A, t),
         NEW is, NEW u \in Nat, t <= u, Synthesizes(is, A, u),
         DirectContradictions(is) = DirectContradictions(was)
  PROVE  is.confidence <= was.confidence
<1>1. PICK F, G : F = FindingsOf(A, t) /\ G = FindingsOf(A, u)
  OBVIOUS
<1>2. /\ was.findings = F /\ was.confidence = Confidence(Completeness(A, t), Coherence(F), Independence(A))
      /\ is.findings = G /\ is.confidence = Confidence(Completeness(A, u), Coherence(G), Independence(A))
  <2>1. was.findings = F /\ was.confidence = Confidence(Completeness(A, t), Coherence(F), Independence(A))
    BY <1>1, MarketStateIs
  <2>2. is.findings = G /\ is.confidence = Confidence(Completeness(A, u), Coherence(G), Independence(A))
    BY <1>1, MarketStateIs
  <2>3. QED
    BY <2>1, <2>2
<1>3. \A x \in F : x.kind = "DIRECT_CONTRADICTION" => x \in G
  <2>1. {x \in F : x.kind = "DIRECT_CONTRADICTION"} = {x \in G : x.kind = "DIRECT_CONTRADICTION"}
    BY <1>2 DEF DirectContradictions
  <2>2. QED
    BY <2>1
<1>4. F \subseteq G
  BY <1>1, <1>3, FindingsGrow
<1>5. G \in SUBSET Findings /\ IsFiniteSet(G)
  BY <1>1, FindingsAre
<1>6. Coherence(F) \in Int /\ Coherence(G) \in Int /\ Coherence(G) <= Coherence(F)
  BY <1>4, <1>5, CoherenceFalls
<1>7. Completeness(A, t) \in Int /\ Completeness(A, u) \in Int /\ Completeness(A, u) <= Completeness(A, t)
  BY CompletenessFalls
<1>8. PICK c \in Int, d \in Int, x \in Int, y \in Int :
        c = Completeness(A, u) /\ d = Completeness(A, t) /\ x = Coherence(G) /\ y = Coherence(F) /\ c <= d /\ x <= y
  BY <1>6, <1>7
<1>9. Confidence(c, x, Independence(A)) <= Confidence(d, y, Independence(A))
  BY <1>8, ConfidenceFollows
<1>10. QED
  BY <1>2, <1>8, <1>9

LEMMA DuplicatesStep ==
  ASSUME NEW was, NEW A, NEW t, OnRecord(A, t), Synthesizes(was, A, t),
         NEW is, NEW B, NEW u, OnRecord(B, u), Synthesizes(is, B, u),
         was.independence[1] > 0, A \subseteq B,
         \A b \in B \ A : b.family \notin Available(A) /\ Represented(b, A)
  PROVE  is.independence[1] * was.independence[2] <= was.independence[1] * is.independence[2]
<1>1. was.independence = Independence(A)
  BY MarketStateIs
<1>2. is.independence = Independence(B)
  BY MarketStateIs
<1>3. PICK n \in Nat, m \in Nat, k \in Nat, l \in Nat :
        /\ n = ConnectedGroupCount(A) /\ m = Cardinality(Available(A))
        /\ k = ConnectedGroupCount(B) /\ l = Cardinality(Available(B))
  <2>1. ConnectedGroupCount(A) \in Nat /\ ConnectedGroupCount(B) \in Nat
    BY RootSetIsFinite
  <2>2. IsFiniteSet(Available(A)) /\ IsFiniteSet(Available(B))
    BY AvailableAre
  <2>3. Cardinality(Available(A)) \in Nat /\ Cardinality(Available(B)) \in Nat
    BY <2>2, FS_CardinalityType
  <2>4. QED
    BY <2>1, <2>3
<1>4. Independence(A) = <<n, m>>
  <2>1. Independence(A) # <<0, 1>>
    BY <1>1
  <2>2. QED
    BY <1>3, <2>1, IndependenceIs
<1>5. Independence(B) = <<0, 1>> \/ Independence(B) = <<k, l>>
  BY <1>3, IndependenceIs
<1>6. k <= n /\ m <= l
  BY <1>3, NoNewGroup
<1>7. k * m <= n * l
  <2>1. k * m <= n * m
    BY <1>6
  <2>2. n * m <= n * l
    BY <1>6
  <2>3. PICK a \in Int, b \in Int, c \in Int : a = k * m /\ b = n * m /\ c = n * l
    OBVIOUS
  <2>4. QED
    BY <2>1, <2>2, <2>3
<1>8. 0 * m <= n * 1
  OBVIOUS
<1>9. QED
  BY <1>1, <1>2, <1>4, <1>5, <1>7, <1>8

LEMMA SynthesizedStep ==
  ASSUME SynthesisInv, [SynthesisNext]_synthesisVars, Synthesized
  PROVE  \E A \in SUBSET assemblies, t \in 0..instant :
           /\ OnRecord(A, t) /\ Synthesizes(synthesis, A, t)
           /\ OnRecord(assemblies, instant) /\ Synthesizes(synthesis', assemblies, instant)
<1>1. PICK A \in SUBSET assemblies, t \in 0..instant : OnRecord(A, t) /\ Synthesizes(synthesis, A, t)
  BY DEF SynthesisInv, Synthesized
<1>2. SynthesizeMarket
  BY DEF Synthesized, SynthesisNext, Age, RecordAssembly, synthesisVars
<1>3. Synthesizes(synthesis', assemblies, instant)
  BY <1>2 DEF SynthesizeMarket, Synthesizes
<1>4. QED
  BY <1>1, <1>3 DEF SynthesisInv

LEMMA AgingNever ==
  SynthesisInv /\ [SynthesisNext]_synthesisVars =>
    [ /\ Synthesized /\ synthesis'.inputs = synthesis.inputs
      /\ DirectContradictions(synthesis') = DirectContradictions(synthesis)
      => synthesis'.confidence <= synthesis.confidence ]_synthesisVars
<1> SUFFICES ASSUME SynthesisInv, [SynthesisNext]_synthesisVars, Synthesized, synthesis'.inputs = synthesis.inputs,
                    DirectContradictions(synthesis') = DirectContradictions(synthesis)
             PROVE  synthesis'.confidence <= synthesis.confidence
  OBVIOUS
<1>1. PICK A \in SUBSET assemblies, t \in 0..instant :
        /\ OnRecord(A, t) /\ Synthesizes(synthesis, A, t)
        /\ OnRecord(assemblies, instant) /\ Synthesizes(synthesis', assemblies, instant)
  BY SynthesizedStep
<1>2. PICK was, is : was = synthesis /\ is = synthesis'
  OBVIOUS
<1>3. was.inputs = A
  BY <1>1, <1>2, MarketStateIs
<1>4. is.inputs = assemblies
  BY <1>1, <1>2, MarketStateIs
<1>5. A = assemblies
  BY <1>2, <1>3, <1>4
<1>6. instant \in Nat /\ t <= instant
  BY <1>1 DEF OnRecord
<1>7. is.confidence <= was.confidence
  BY <1>1, <1>2, <1>5, <1>6, AgingStep
<1>8. QED
  BY <1>2, <1>7

LEMMA DuplicatesNever ==
  SynthesisInv /\ [SynthesisNext]_synthesisVars =>
    [ /\ Synthesized /\ synthesis.independence[1] > 0
      /\ synthesis.inputs \subseteq synthesis'.inputs
      /\ \A a \in synthesis'.inputs \ synthesis.inputs :
            a.family \notin Available(synthesis.inputs) /\ Represented(a, synthesis.inputs)
      => LET was == synthesis.independence  is == synthesis'.independence
         IN is[1] * was[2] <= was[1] * is[2] ]_synthesisVars
<1> SUFFICES ASSUME SynthesisInv, [SynthesisNext]_synthesisVars, Synthesized, synthesis.independence[1] > 0,
                    synthesis.inputs \subseteq synthesis'.inputs,
                    \A a \in synthesis'.inputs \ synthesis.inputs :
                       a.family \notin Available(synthesis.inputs) /\ Represented(a, synthesis.inputs)
             PROVE  synthesis'.independence[1] * synthesis.independence[2]
                      <= synthesis.independence[1] * synthesis'.independence[2]
  OBVIOUS
<1>1. PICK A \in SUBSET assemblies, t \in 0..instant :
        /\ OnRecord(A, t) /\ Synthesizes(synthesis, A, t)
        /\ OnRecord(assemblies, instant) /\ Synthesizes(synthesis', assemblies, instant)
  BY SynthesizedStep
<1>2. PICK was, is, B : was = synthesis /\ is = synthesis' /\ B = assemblies
  OBVIOUS
<1>3. was.inputs = A
  BY <1>1, <1>2, MarketStateIs
<1>4. is.inputs = B
  BY <1>1, <1>2, MarketStateIs
<1>5. A \subseteq B /\ \A b \in B \ A : b.family \notin Available(A) /\ Represented(b, A)
  BY <1>2, <1>3, <1>4
<1>6. is.independence[1] * was.independence[2] <= was.independence[1] * is.independence[2]
  BY <1>1, <1>2, <1>5, DuplicatesStep
<1>7. QED
  BY <1>2, <1>6

\* synthesize_market_state weighs evidence by what it is, for any arrivals,

\* horizons and clock: what shares evidence is one group, time alone never
\* raises the confidence unless a contradiction went out of sight, and one more
\* question on represented evidence never raises the independence.
THEOREM SynthesisIsFair == SynthesisSpec => EvidenceWeighsFairly
<1>1. SynthesisSpec => []SynthesisInv
  BY SynthesisStarts, SynthesisSteps, PTL DEF SynthesisSpec
<1>2. SynthesisSpec => []GroupsAreComponents
  BY <1>1, GroupsCounted, PTL
<1>3. SynthesisSpec => AgingWeakens
  BY <1>1, AgingNever, PTL DEF SynthesisSpec, AgingWeakens
<1>4. SynthesisSpec => DuplicatesDoNotInflate
  BY <1>1, DuplicatesNever, PTL DEF SynthesisSpec, DuplicatesDoNotInflate
<1>5. QED
  BY <1>2, <1>3, <1>4 DEF EvidenceWeighsFairly
=============================================================================
