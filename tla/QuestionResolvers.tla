------------------------- MODULE QuestionResolvers -------------------------
(***************************************************************************)
(* The resolvers of evaluation/: how a journaled prediction becomes an     *)
(* outcome.  Each is a function of the prediction, of the evidence that is *)
(* durable when it is called and of the caller's clock; the evidence keeps *)
(* arriving, sometimes long after the instant it was knowable at.  Lineage *)
(* checks (hashes, subjects, policies, the bound baseline) are taken to    *)
(* hold, and the journal refuses a prediction that is not written before   *)
(* ResolvesAt (prediction/question_journal.py:90), so that check is too.     *)
(*                                                                         *)
(* A piece of evidence is a record with id, known, cutoff and status, and  *)
(* what its kind is measured by.                                           *)
(***************************************************************************)
EXTENDS Integers, FiniteSets, Sequences, FiniteSetsExt

CONSTANTS Kinds,        \* the questions asked in this instance
          Candidates,   \* of each kind, the evidence that may ever exist
          Cutoff,       \* when the prediction was made
          ResolvesAt,   \* cutoff_at_ns + horizon_ns
          MaxLag,       \* max_resolution_lag_ns
          Grid,         \* the interval of the fixed-grid questions
          Base,         \* the baseline price; one unit is a basis point of it
          Trailing,     \* the bound root path's return, in basis points
          BaseBook,     \* the baseline frame's book at each venue
          BaseRegime,   \* the baseline context's direction
          BaseBasis,    \* the baseline relationship's basis
          MaxEvidence,  \* bound: pieces of evidence
          MaxTime,      \* bound: the clock
          Missing

ASSUME TimesAssumption ==
    /\ {Cutoff, ResolvesAt, MaxLag, Grid, Base} \subseteq Nat
    /\ Cutoff < ResolvesAt /\ Grid > 0 /\ (ResolvesAt - Cutoff) % Grid = 0

\* The identity of an artifact is a hash of its content; a number stands for it,
\* which only orders it.
ASSUME EvidenceAssumption ==
    \A q \in Kinds : \A e, f \in Candidates[q] :
        {e.id, e.known, e.cutoff} \subseteq Nat /\ (e.id = f.id => e = f)

\* MarketContextFrame refuses a context known later than it was cut for.
ASSUME ContextsAreLawful ==
    \A q \in Kinds \cap {"REGIME_PERSISTENCE_5M"} : \A e \in Candidates[q] : e.known <= e.cutoff

ASSUME KindsAssumption ==
    Kinds \subseteq {"DIRECTION_10S", "MAGNITUDE_30S", "REVERSAL_60S@1.1", "REVERSAL_60S@1.2",
                    "VOLATILITY_60S", "FRAGILITY_MAE_60S", "LIQUIDITY_DETERIORATION_30S",
                    "DIRECTION_REGIME_15M", "REGIME_PERSISTENCE_5M", "BASIS_CHANGE_5M",
                    "RELATIVE_VALUE_CONVERGENCE_5M"}

VARIABLES now,       \* the caller's clock
          question,  \* the kind of the prediction
          evidence,  \* what is durable
          outcome,   \* the journaled outcome, or Missing
          seen       \* the evidence it was decided on

resolverVars == <<now, question, evidence, outcome, seen>>

Closes == ResolvesAt + MaxLag

\* The order candidates are sorted in.
Before(a, b) ==
    \/ a.known < b.known
    \/ a.known = b.known /\ a.cutoff < b.cutoff
    \/ a.known = b.known /\ a.cutoff = b.cutoff /\ a.id < b.id

\* Variant: the most recent evidence is taken.
LastOf(S) == IF S = {} THEN {} ELSE {CHOOSE e \in S : \A f \in S \ {e} : Before(f, e)}

\* The first of them, as a set: empty if there is none.
FirstOf(S) == IF S = {} THEN {} ELSE {CHOOSE e \in S : \A f \in S \ {e} : Before(e, f)}

-----------------------------------------------------------------------------
(* What a resolver answers.                                                *)

Answer(status, at, value, forward) ==
    [status |-> status, at |-> at, value |-> value, forward |-> forward]
Pending == Answer("PENDING", 0, <<>>, {})
Raised == Answer("RAISED", 0, <<>>, {})

\* No forward evidence: wait for the window to close, then give up for good.
Unresolved(t) == IF t <= Closes THEN Pending ELSE Answer("UNRESOLVABLE", Closes + 1, <<>>, {})

\* QuestionBoundOutcome refuses forward evidence from outside the window.
Resolved(value, forward) ==
    IF \A e \in forward : Cutoff < e.known /\ e.known <= Closes
    THEN Answer("RESOLVED", Max({e.known : e \in forward}), value, forward)
    ELSE Raised

\* The answer on the selected evidence, once the caller can know of it.
Decision(value(_), selected, t) ==
    IF selected = {} THEN Unresolved(t)
    ELSE IF \E e \in selected : t < e.known THEN Pending
    ELSE Resolved(value(selected), selected)

-----------------------------------------------------------------------------
(* One frame at or after the target.                                       *)

Qualified(E) == {e \in E : e.status = "QUALIFIED"}
\* Variant: the window stays open.
FromTarget(E) == {e \in E : ResolvesAt <= e.known}

\* Known at or after the target, before the window closes.
InWindow(E) == {e \in E : ResolvesAt <= e.known /\ e.known <= Closes}
PriceOf(selected) == (CHOOSE e \in selected : TRUE).price

SelectForwardFrame(E) == FirstOf(InWindow(Qualified(E)))

Direction(selected) == <<IF PriceOf(selected) > Base THEN 1 ELSE 0>>
Magnitude(selected) == <<PriceOf(selected) - Base>>

Sign(x) == IF x > 0 THEN 1 ELSE IF x < 0 THEN -1 ELSE 0
Abs(x) == IF x < 0 THEN -x ELSE x

\* v1.1: the forward return has the opposite sign of the trailing one.
Reverses(trailing, forward) == Sign(trailing) * Sign(forward) = -1
\* v1.2: and both are material; the ratio is a quarter.
MaterialReversal(trailing, forward) ==
    /\ Abs(trailing) >= 2
    /\ Reverses(trailing, forward)
    /\ Abs(forward) >= 2 /\ 4 * Abs(forward) >= Abs(trailing)

Reversal(selected) == <<IF Reverses(Trailing, PriceOf(selected) - Base) THEN 1 ELSE 0>>
Material(selected) == <<IF MaterialReversal(Trailing, PriceOf(selected) - Base) THEN 1 ELSE 0>>

-----------------------------------------------------------------------------
(* A path of frames, one for each point of the grid.                       *)

ResolutionGrid == [i \in 1..((ResolvesAt - Cutoff) \div Grid) |-> Cutoff + i * Grid]

\* Slots but the last end before the next point of the grid.
SlotUpper(i) ==
    IF i = Len(ResolutionGrid) THEN ResolutionGrid[i] + MaxLag
    ELSE Min({ResolutionGrid[i] + MaxLag, ResolutionGrid[i + 1] - 1})

\* The frame chosen for each slot, given those used by the slots before it;
\* a slot without one leaves the path incomplete.
GridFrames(E) ==
    LET chosen[i \in 0..Len(ResolutionGrid)] ==
            IF i = 0 THEN <<>>
            ELSE chosen[i - 1] \o <<FirstOf({e \in Qualified(E) :
                     /\ \A j \in 1..(i - 1) : e \notin chosen[i - 1][j]
                     /\ ResolutionGrid[i] <= e.known /\ e.known <= SlotUpper(i)})>>
    IN chosen[Len(ResolutionGrid)]

SelectGridFrames(E) ==
    LET path == GridFrames(E) IN
    IF \E i \in DOMAIN path : path[i] = {} THEN {} ELSE UNION {path[i] : i \in DOMAIN path}

\* The volatility is that of the baseline price followed by the path; it is
\* kept as these prices.
Volatility(selected) ==
    LET path == GridFrames(selected) IN [i \in DOMAIN path |-> PriceOf(path[i])]
MAE(selected) == <<Max({0} \cup {Base - e.price : e \in selected})>>

-----------------------------------------------------------------------------
(* The book of the venues that were qualified at the cutoff.               *)

FrozenVenues == {v \in DOMAIN BaseBook : BaseBook[v].measured}
CrossBid(book, venues) == Max({book[v].bid : v \in venues})
CrossAsk(book, venues) == Min({book[v].ask : v \in venues})
Depth(book, venues) == MapThenSumSet(LAMBDA v : book[v].depth, venues)

\* Every frozen venue is measurable, and together they are not crossed.
Measurable(book) ==
    /\ \A v \in FrozenVenues : book[v].measured
    /\ CrossBid(book, FrozenVenues) < CrossAsk(book, FrozenVenues)

\* Spreads are relative to the midpoint.
Wider(book) ==
    LET bid == CrossBid(book, FrozenVenues)          ask == CrossAsk(book, FrozenVenues)
        was == CrossBid(BaseBook, FrozenVenues)      wasAsk == CrossAsk(BaseBook, FrozenVenues)
    IN (ask - bid) * (wasAsk + was) > (wasAsk - was) * (ask + bid)

Shallower(book) == Depth(book, FrozenVenues) < Depth(BaseBook, FrozenVenues)

SelectForwardBook(E) == FirstOf({e \in InWindow(Qualified(E)) : Measurable(e.book)})

Deteriorated(selected) ==
    LET book == (CHOOSE e \in selected : TRUE).book
    IN <<IF Wider(book) /\ Shallower(book) THEN 1 ELSE 0>>

-----------------------------------------------------------------------------
(* Market contexts: the first after the target, and all in between.        *)

Comparable(E) == {e \in Qualified(E) : e.sameUniverse}

Endpoint(E) == FirstOf({e \in InWindow(Comparable(E)) : ResolvesAt <= e.cutoff /\ e.cutoff <= Closes})

\* An endpoint under another contract is as good as none: the window has to
\* close.
ContinuousEndpoint(E) == {e \in Endpoint(E) : e.sameContract}

Regime(selected) == <<(CHOOSE e \in selected : TRUE).direction>>

Interval(E) == {e \in Comparable(E) : Cutoff < e.cutoff /\ e.cutoff <= ResolvesAt}

Persisted(observed) == <<IF \A e \in observed : e.direction = BaseRegime THEN 1 ELSE 0>>

Persistence(E, t) ==
    LET endpoint == ContinuousEndpoint(E) IN
    IF endpoint = {} \/ \E e \in Interval(E) : ~e.sameContract THEN Unresolved(t)
    ELSE IF \E e \in endpoint : t < e.known THEN Pending
    ELSE Resolved(Persisted(Interval(E) \cup endpoint), Interval(E) \cup endpoint)

-----------------------------------------------------------------------------
(* Relationship states: unqualified, unfrozen or incomparable ones are     *)
(* passed over.                                                            *)

SelectForwardState(E) ==
    FirstOf({e \in InWindow(Qualified(E)) : e.sameRelationship /\ e.basis # Missing})

BasisChange(selected) == <<(CHOOSE e \in selected : TRUE).basis - BaseBasis>>
Convergence(selected) == <<Abs(BaseBasis) - Abs((CHOOSE e \in selected : TRUE).basis)>>

-----------------------------------------------------------------------------
\* The answer of the resolver of question q on evidence E at time t.
Resolution(q, E, t) ==
    CASE q = "DIRECTION_10S" -> Decision(Direction, SelectForwardFrame(E), t)
      [] q = "MAGNITUDE_30S" -> Decision(Magnitude, SelectForwardFrame(E), t)
      [] q = "REVERSAL_60S@1.1" -> Decision(Reversal, SelectForwardFrame(E), t)
      [] q = "REVERSAL_60S@1.2" -> Decision(Material, SelectForwardFrame(E), t)
      [] q = "VOLATILITY_60S" -> Decision(Volatility, SelectGridFrames(E), t)
      [] q = "FRAGILITY_MAE_60S" -> Decision(MAE, SelectGridFrames(E), t)
      [] q = "LIQUIDITY_DETERIORATION_30S" -> Decision(Deteriorated, SelectForwardBook(E), t)
      [] q = "DIRECTION_REGIME_15M" -> Decision(Regime, ContinuousEndpoint(E), t)
      [] q = "REGIME_PERSISTENCE_5M" -> Persistence(E, t)
      [] q = "BASIS_CHANGE_5M" -> Decision(BasisChange, SelectForwardState(E), t)
      [] q = "RELATIVE_VALUE_CONVERGENCE_5M" -> Decision(Convergence, SelectForwardState(E), t)

ResolversInit ==
    /\ now = Cutoff
    /\ question \in Kinds
    /\ evidence = {}
    /\ outcome = Missing
    /\ seen = {}

TimePasses == now < MaxTime /\ now' = now + 1 /\ UNCHANGED <<question, evidence, outcome, seen>>

\* A frame, context or relationship state becomes durable, at the earliest
\* when it is cut.
Arrive(e) ==
    /\ e \notin evidence /\ Cardinality(evidence) < MaxEvidence
    /\ e.known <= now /\ e.cutoff <= now
    /\ evidence' = evidence \cup {e}
    /\ UNCHANGED <<now, question, outcome, seen>>

\* Resolve and append to the outcome journal, where the first outcome of a
\* prediction is final.
ResolveQuestion ==
    LET answer == Resolution(question, evidence, now) IN
    /\ outcome = Missing
    /\ answer.status \in {"RESOLVED", "UNRESOLVABLE"}
    /\ outcome' = answer
    /\ seen' = evidence
    /\ UNCHANGED <<now, question, evidence>>

ResolversNext ==
    \/ TimePasses
    \/ \E e \in Candidates[question] : Arrive(e)
    \/ ResolveQuestion

ResolversSpec == ResolversInit /\ [][ResolversNext]_resolverVars

-----------------------------------------------------------------------------
(* Properties.                                                             *)

\* Evidence that was knowable by the instant an outcome is dated at, but was
\* not durable when it was decided.
Late == {e \in evidence \ seen : e.known <= outcome.at}

\* Resolving again gives the outcome on record, however much evidence has
\* arrived since, unless some of it is late: then the journal would refuse
\* the second answer as a different final outcome.  A retry after a crash
\* between resolving and appending rests on it.
DecisionsStand ==
    outcome # Missing /\ Late = {} => Resolution(question, evidence, now) = outcome

\* A context cut inside the interval from frames that are no younger than the
\* prediction.
StaleInterval == question = "REGIME_PERSISTENCE_5M" /\ \E e \in Interval(evidence) : e.known <= Cutoff

\* Once the window has closed, every question has a final answer: no
\* resolver waits any longer, and none raises on evidence that was measured
\* from the market after the prediction.
EveryQuestionDecides ==
    now > Closes /\ ~StaleInterval
        => Resolution(question, evidence, now).status \in {"RESOLVED", "UNRESOLVABLE"}
=============================================================================
