--------------------------- MODULE MarketContexts ---------------------------
(***************************************************************************)
(* What is derived of the instruments' frames at a cutoff: the market      *)
(* context (context/builder.py) and the state of one spot-derivative       *)
(* relationship (experience/relationships.py).  Both turn each             *)
(* instrument's frames into returns, align two instruments' returns in     *)
(* time and grade what they have.                                          *)
(*                                                                         *)
(* A frame is [id, instrument, cutoff, known, status, priced, level]; a    *)
(* level is the logarithm of the midpoint in steps of the threshold's      *)
(* size, so a return is a difference of levels.  Correlations, spread,     *)
(* depth, volatility and what is read from them are left out, among it the *)
(* feature families CORRELATION, LEAD_LAG and LIQUIDITY.                   *)
(***************************************************************************)
EXTENDS Integers, Sequences, SequencesExt, FiniteSets, FiniteSetsExt
CONSTANTS
  Spots, Derivatives,           \* instruments
  Quote,                        \* instrument -> the unit it is quoted in
  Reports,                      \* the frames that may be observed
  Cutoffs,                      \* when contexts are built for
  Tolerance, MinCore, MinPairs, Threshold      \* the builder's parameters

ASSUME ParametersAreLawful ==
  /\ Tolerance \in Nat /\ MinCore \in Nat \ {0} /\ MinPairs \in Nat /\ MinPairs >= 3 /\ Threshold \in Int

\* An id is the hash of a frame.
ASSUME ReportsAreLawful ==
  /\ \A f \in Reports : /\ f.id \in Int /\ f.cutoff \in Int /\ f.known \in Int /\ f.level \in Int
                        /\ f.priced \in BOOLEAN
  /\ \A f, g \in Reports : f.id = g.id => f = g

VARIABLE observed               \* the frames there are
ContextsInit == observed = {}

Instruments == Spots \cup Derivatives
Distance(a, b) == IF a > b THEN a - b ELSE b - a

-----------------------------------------------------------------------------
(* Returns and their alignment.                                             *)

\* select_point_in_time_history.
Selected(frames, t) == {f \in frames : f.known <= t /\ f.cutoff <= t}
Of(frames, i) == {f \in frames : f.instrument = i}

Earlier(f, g) ==
  \/ f.cutoff < g.cutoff
  \/ f.cutoff = g.cutoff /\ f.known < g.known
  \/ f.cutoff = g.cutoff /\ f.known = g.known /\ f.id <= g.id
Position(frames, f) == Cardinality({g \in frames : Earlier(g, f)})
Ordered(frames) == [k \in 1..Cardinality(frames) |-> CHOOSE f \in frames : Position(frames, f) = k]
Newest(frames) == CHOOSE f \in frames : \A g \in frames : Earlier(g, f)

\* One return per priced frame that another came before; unpriced ones are
\* passed over, so a return may span them, and may be older than the newest.
ReturnsOf(frames) ==
  LET priced == Ordered({f \in frames : f.priced}) IN
  [k \in 1..(Len(priced) - 1) |->
     [at |-> priced[k + 1].cutoff, value |-> priced[k + 1].level - priced[k].level]]
Empty(returns) == DOMAIN returns = {}

Closer(right, at, j, k) ==
  \/ Distance(right[j].at, at) < Distance(right[k].at, at)
  \/ Distance(right[j].at, at) = Distance(right[k].at, at) /\ right[j].at < right[k].at
  \/ Distance(right[j].at, at) = Distance(right[k].at, at) /\ right[j].at = right[k].at /\ j <= k

\* Variant: a return may be matched again.
AlignedWithReuse(left, right) ==
  FoldLeftDomain(LAMBDA pairs, i :
    LET near == {j \in DOMAIN right : Distance(left[i].at, right[j].at) <= Tolerance} IN
    IF near = {} THEN pairs
    ELSE Append(pairs, <<i, CHOOSE j \in near : \A k \in near : Closer(right, left[i].at, j, k)>>), <<>>, left)

\* _aligned: each return on the left takes the nearest on the right, within
\* the tolerance, that none before it took.
Aligned(left, right) ==
  FoldLeftDomain(LAMBDA pairs, i :
    LET used == {pairs[n][2] : n \in DOMAIN pairs}
        near == {j \in DOMAIN right \ used : Distance(left[i].at, right[j].at) <= Tolerance} IN
    IF near = {} THEN pairs
    ELSE Append(pairs, <<i, CHOOSE j \in near : \A k \in near : Closer(right, left[i].at, j, k)>>), <<>>, left)

-----------------------------------------------------------------------------
(* The market context.                                                      *)

Members(frames) == {f.instrument : f \in frames}
Latest(frames) == [i \in Members(frames) |-> Newest(Of(frames, i))]
WithReturn(frames) == {i \in Members(frames) : ~Empty(ReturnsOf(Of(frames, i)))}
LastReturn(frames, i) == Last(ReturnsOf(Of(frames, i))).value
QualifiedSpots(frames) ==
  {i \in Members(frames) \cap Spots : Latest(frames)[i].status = "QUALIFIED" /\ Latest(frames)[i].priced}

\* Variant: a member without a return is a hole in the core.
CoreStatusOfAll(frames) ==
  IF Cardinality(QualifiedSpots(frames)) >= MinCore /\ WithReturn(frames) = Members(frames) THEN "QUALIFIED"
  ELSE IF QualifiedSpots(frames) # {} THEN "DEGRADED" ELSE "UNAVAILABLE"

\* The returns counted may be those of derivatives, and of any age.
CoreStatus(frames) ==
  IF Cardinality(QualifiedSpots(frames)) >= MinCore /\ Cardinality(WithReturn(frames)) >= MinCore THEN "QUALIFIED"
  ELSE IF QualifiedSpots(frames) # {} THEN "DEGRADED" ELSE "UNAVAILABLE"

ContextStatus(frames) ==
  IF CoreStatus(frames) = "UNAVAILABLE" THEN "UNAVAILABLE"
  ELSE IF CoreStatus(frames) # "QUALIFIED" \/ \E i \in Members(frames) : Latest(frames)[i].status # "QUALIFIED"
  THEN "DEGRADED" ELSE "QUALIFIED"

\* The spot-derivative pairs of one unit that are both priced.
Related(frames) ==
  {p \in (Members(frames) \cap Spots) \X (Members(frames) \cap Derivatives) :
     Quote[p[1]] = Quote[p[2]] /\ Latest(frames)[p[1]].priced /\ Latest(frames)[p[2]].priced}
\* CORE_MARKET, CROSS_ASSET and DERIVATIVES of feature_quality.
FeatureQuality(frames) ==
  [core |-> CoreStatus(frames),
   crossAsset |-> IF Cardinality(WithReturn(frames)) >= MinCore THEN "QUALIFIED"
                  ELSE IF WithReturn(frames) # {} THEN "DEGRADED" ELSE "UNAVAILABLE",
   derivatives |-> IF Related(frames) # {} THEN "QUALIFIED" ELSE "UNAVAILABLE"]

\* The direction regime: the mean return at the threshold, and three fifths
\* of the members with it.
Direction(values) ==
  LET n == Cardinality(DOMAIN values)
      sum == FoldSet(LAMBDA i, s : s + values[i], 0, DOMAIN values)
      rising == Cardinality({i \in DOMAIN values : values[i] > 0}) IN
  IF n = 0 THEN "UNAVAILABLE"
  ELSE IF sum >= Threshold * n /\ 5 * rising >= 3 * n THEN "RISK_ON"
  ELSE IF sum <= -Threshold * n /\ 5 * rising <= 2 * n THEN "RISK_OFF"
  ELSE IF Distance(sum, 0) < Threshold * n THEN "NEUTRAL" ELSE "MIXED"
MarketReturns(frames) == [i \in WithReturn(frames) |-> LastReturn(frames, i)]

-----------------------------------------------------------------------------
(* The relationship of one spot and one derivative.                         *)

BasisAvailable(spot, derivative) ==
  /\ Quote[Newest(spot).instrument] = Quote[Newest(derivative).instrument]
  /\ Newest(spot).priced /\ Newest(derivative).priced

Sign(n) == IF n > 0 THEN 1 ELSE IF n < 0 THEN -1 ELSE 0
Confirmation(spot, derivative) ==
  LET s == ReturnsOf(spot) d == ReturnsOf(derivative) IN
  IF Empty(s) \/ Empty(d) THEN "UNAVAILABLE"
  ELSE IF Sign(Last(s).value) # Sign(Last(d).value) THEN "DIVERGENT"
  ELSE IF Last(s).value = 0 THEN "FLAT_AGREEMENT" ELSE "DIRECTIONALLY_CONFIRMED"

\* What a caller passes: the frames of both, or the builder raises.
RelationStatus(spot, derivative) ==
  LET families == {BasisAvailable(spot, derivative),
                   Len(Aligned(ReturnsOf(spot), ReturnsOf(derivative))) >= MinPairs,
                   Confirmation(spot, derivative) # "UNAVAILABLE"} IN
  IF \E f \in spot \cup derivative : f.status = "DEGRADED" THEN "DEGRADED"
  ELSE IF (\A f \in spot \cup derivative : f.status = "QUALIFIED") /\ TRUE \in families THEN "QUALIFIED"
  ELSE IF \E f \in spot \cup derivative : f.status = "QUALIFIED" THEN "DEGRADED" ELSE "UNAVAILABLE"

-----------------------------------------------------------------------------
(* Frames are observed in any order, late ones too.                         *)

Observe == \E f \in Reports \ observed : observed' = observed \cup {f}
ContextsSpec == ContextsInit /\ [][Observe]_observed

-----------------------------------------------------------------------------
(* Properties.                                                              *)

\* Aligning two instruments uses no return twice and leaves none unmatched that
\* still has one to match. Where the returns on the right are more than twice the
\* tolerance apart it keeps both in order of time, as the lead-lag reading of
\* consecutive pairs needs, and where those on both sides are, it pairs the same
\* returns whichever instrument is on the left. Closer ones may pair crosswise,
\* and their number may depend on which instrument is on the left (_aligned).
Sparse(returns) ==
  \A k, l \in DOMAIN returns : k # l => Distance(returns[k].at, returns[l].at) > 2 * Tolerance
AlignmentIsFair ==
  \A i, j \in Instruments :
    LET left == ReturnsOf(Of(observed, i)) right == ReturnsOf(Of(observed, j))
        pairs == Aligned(left, right) turned == Aligned(right, left)
        used == {pairs[n][2] : n \in DOMAIN pairs} IN
    i # j =>
      /\ \A m, n \in DOMAIN pairs : m < n => pairs[m][1] < pairs[n][1] /\ pairs[m][2] # pairs[n][2]
      /\ \A k \in DOMAIN left : k \in {pairs[n][1] : n \in DOMAIN pairs} \/
           \A l \in DOMAIN right \ used : Distance(left[k].at, right[l].at) > Tolerance
      /\ Sparse(right) => \A m, n \in DOMAIN pairs : m < n => pairs[m][2] < pairs[n][2]
      /\ Sparse(left) /\ Sparse(right) =>
           {pairs[n] : n \in DOMAIN pairs} = {<<turned[n][2], turned[n][1]>> : n \in DOMAIN turned}

\* A rise and the same fall are read alike: with every return reversed the
\* regime is its opposite, at the thresholds too, as long as none is zero; a
\* zero return counts with the falling ones.
Opposite(regime) == IF regime = "RISK_ON" THEN "RISK_OFF" ELSE IF regime = "RISK_OFF" THEN "RISK_ON" ELSE regime
RegimesMirror ==
  LET values == MarketReturns(observed) IN
  (\A i \in DOMAIN values : values[i] # 0) =>
    Direction([i \in DOMAIN values |-> -values[i]]) = Opposite(Direction(values))

\* Contexts are even-handed between directions, and between instruments as far
\* as the returns of an instrument are spaced out.
ContextsAreEvenHanded == AlignmentIsFair /\ RegimesMirror

\* A qualified frame with a price, on time or late, of a member or of a new
\* instrument, never lowers the status of the context of any cutoff, nor of its
\* core, cross-asset and derivatives families, nor that of a relationship.
\* Nothing is claimed of CORRELATION and LEAD_LAG, which are read from aligned
\* returns: one more frame can leave the aligned ones of a side constant, and
\* then there is no correlation any more (build_market_context, _pearson).
Grade == [UNAVAILABLE |-> 0, DEGRADED |-> 1, QUALIFIED |-> 2]
NotBelow(before, after) == Grade[after] >= Grade[before]
GoodEvidenceNeverLowers ==
  [][\A f \in observed' \ observed : f.status = "QUALIFIED" /\ f.priced =>
       /\ \A t \in Cutoffs :
            LET before == Selected(observed, t) after == Selected(observed', t)
                was == FeatureQuality(before) is == FeatureQuality(after) IN
            /\ NotBelow(ContextStatus(before), ContextStatus(after))
            /\ \A q \in {"core", "crossAsset", "derivatives"} : NotBelow(was[q], is[q])
       /\ \A s \in Spots, d \in Derivatives :
            Of(observed, s) # {} /\ Of(observed, d) # {} =>
              NotBelow(RelationStatus(Of(observed, s), Of(observed, d)),
                       RelationStatus(Of(observed', s), Of(observed', d)))]_observed
=============================================================================
