------------------------------ MODULE Synthesis ------------------------------
(***************************************************************************)
(* synthesis/reasoner.py: one market state out of the assembled answers of *)
(* ten question families.  Assemblies arrive and age; the synthesis is a   *)
(* function of those on record and of the clock.  Its findings lower a     *)
(* coherence, and completeness, coherence and the independence of the      *)
(* evidence make up its confidence.                                        *)
(*                                                                         *)
(* An assembly is a record with family, ref (the version of the question), *)
(* known, cutoff, answer and groups (the evidence it was computed from,    *)
(* empty if its lineage is unknown).  Answers are integers: percent for    *)
(* DIRECTION, basis points, 0 or 1, and the sign of the stance for REGIME. *)
(* Completeness is counted in half percents, coherence in percents.        *)
(* Inferences, wording and the renderer are left out: none of them feeds   *)
(* back.  The rounding to six digits is too.                               *)
(***************************************************************************)
EXTENDS Integers, FiniteSets, Sequences, FiniteSetsExt, SequencesExt

CONSTANTS HorizonOf,     \* of each family, its question's horizon
          Arrivals,      \* the assemblies that may be recorded, known aside
          MaxAssemblies, \* bound: assemblies
          LastInstant,   \* bound: the clock
          None

QUESTION_FAMILIES == <<"DIRECTION", "MAGNITUDE", "VOLATILITY", "FRAGILITY", "LIQUIDITY",
                       "BASIS", "RELATIVE_VALUE", "REGIME", "PERSISTENCE", "REVERSAL">>
Families == Range(QUESTION_FAMILIES)

DIMENSION_WEIGHTS ==
    [f \in Families |->
        CASE f = "DIRECTION" -> 18
          [] f = "LIQUIDITY" -> 12
          [] f \in {"MAGNITUDE", "VOLATILITY", "FRAGILITY", "REGIME"} -> 10
          [] f \in {"BASIS", "RELATIVE_VALUE"} -> 8
          [] f \in {"PERSISTENCE", "REVERSAL"} -> 7]

\* The shortest timescale a question requires.
TimescaleCategory(f) ==
    IF f \in {"DIRECTION", "MAGNITUDE", "LIQUIDITY", "FRAGILITY"} THEN "MICRO"
    ELSE IF f \in {"REGIME", "PERSISTENCE"} THEN "MEDIUM" ELSE "SHORT"

STALE_HORIZON_MULTIPLE == 3

\* normalize_question_assembly refuses a question of no active family.
ASSUME QuestionsAreKnown == HorizonOf \in [Families -> Nat] /\ \A a \in Arrivals : a.family \in Families

VARIABLES instant,    \* the clock
          assemblies, \* those on record
          synthesis   \* the latest synthesis on record, or None

synthesisVars == <<instant, assemblies, synthesis>>

-----------------------------------------------------------------------------
(* Which assembly speaks for a family.                                     *)

OfFamily(A, f) == {a \in A : a.family = f}
Contenders(A, f) ==
    {a \in OfFamily(A, f) : \A b \in OfFamily(A, f) :
        b.known < a.known \/ (b.known = a.known /\ b.cutoff <= a.cutoff)}

\* Two versions of one question, or two assemblies of one instant, raise.
Conflicting(A) ==
    \E f \in Families : \/ Cardinality({a.ref : a \in OfFamily(A, f)}) > 1
                        \/ Cardinality(Contenders(A, f)) > 1

Available(A) == {a.family : a \in A}
Latest(A, f) == CHOOSE a \in Contenders(A, f) : TRUE

Stale(a, t) == t - a.known > STALE_HORIZON_MULTIPLE * HorizonOf[a.family]
StaleFamilies(A, t) == {f \in Available(A) : Stale(Latest(A, f), t)}
PresentFamilies(A, t) == Available(A) \ StaleFamilies(A, t)

-----------------------------------------------------------------------------
(* What the answers say.                                                   *)

Said(A, f) == Latest(A, f).answer
Sgn(x) == IF x > 0 THEN 1 ELSE IF x < 0 THEN -1 ELSE 0
Polarity(p) == IF p >= 55 THEN 1 ELSE IF p <= 45 THEN -1 ELSE 0
Motion(bps) == IF bps >= 1 THEN 1 ELSE IF bps <= -1 THEN -1 ELSE 0
Convinced(p) == p >= 65 \/ p <= 35

\* Findings of kind about families, if they are all available and P holds.
Finding(A, kind, families, P) ==
    IF families \subseteq Available(A) /\ P THEN {[kind |-> kind, families |-> families]} ELSE {}

\* Only fresh answers contradict each other.
Contradiction(A, t) ==
    Finding(A, "DIRECT_CONTRADICTION", {"DIRECTION", "MAGNITUDE"},
        /\ {"DIRECTION", "MAGNITUDE"} \subseteq PresentFamilies(A, t)
        /\ Polarity(Said(A, "DIRECTION")) * Sgn(Said(A, "MAGNITUDE")) = -1)

Tensions(A) ==
    UNION {Finding(A, "REGIME_TRANSITION", {"DIRECTION", "REVERSAL"}, Said(A, "REVERSAL") = 1),
           Finding(A, "FRAGILITY_WARNING", {"DIRECTION", "LIQUIDITY"},
               Said(A, "LIQUIDITY") = 1 /\ Convinced(Said(A, "DIRECTION"))),
           Finding(A, "STRUCTURAL_DIVERGENCE", {"BASIS", "RELATIVE_VALUE"},
               Motion(Said(A, "BASIS")) = 1 /\ Motion(Said(A, "RELATIVE_VALUE")) = -1),
           Finding(A, "REGIME_TRANSITION", {"REGIME", "PERSISTENCE"}, Said(A, "PERSISTENCE") = 0),
           Finding(A, IF TimescaleCategory("DIRECTION") # TimescaleCategory("REGIME")
                      THEN "HORIZON_TENSION" ELSE "DIRECT_CONTRADICTION", {"DIRECTION", "REGIME"},
               Polarity(Said(A, "DIRECTION")) * Said(A, "REGIME") = -1)}

-----------------------------------------------------------------------------
(* How many independent pieces of evidence the families rest on.           *)

LineageKnown(A) == \A f \in Available(A) : Latest(A, f).groups # {}
Share(A, f, g) == Latest(A, f).groups \cap Latest(A, g).groups # {}

\* union: all of g's group get f's root.
Join(root, f, g) == [h \in DOMAIN root |-> IF root[h] = root[g] THEN root[f] ELSE root[h]]

\* Pair after pair of the available families, in their order.
Roots(A) ==
    LET n == Len(QUESTION_FAMILIES)
        left(k) == QUESTION_FAMILIES[((k - 1) \div n) + 1]
        right(k) == QUESTION_FAMILIES[((k - 1) % n) + 1]
        joined(k) == /\ (k - 1) \div n < (k - 1) % n /\ {left(k), right(k)} \subseteq Available(A)
                     /\ Share(A, left(k), right(k))
        root[k \in 0..(n * n)] ==
            IF k = 0 THEN [f \in Available(A) |-> f]
            ELSE IF joined(k) THEN Join(root[k - 1], left(k), right(k)) ELSE root[k - 1]
    IN root[n * n]

ConnectedGroupCount(A) == Cardinality(Range(Roots(A)))

\* Distinct groups and families, of which independence is the ratio; a lone
\* family, or an unknown lineage, establishes none.
Independence(A) ==
    IF Cardinality(Available(A)) < 2 \/ ~LineageKnown(A) THEN <<0, 1>>
    ELSE <<ConnectedGroupCount(A), Cardinality(Available(A))>>

-----------------------------------------------------------------------------
(* Completeness, coherence and confidence.                                 *)

Quality(A, t, independence) ==
    UNION {{[kind |-> "STALE_INPUT", families |-> {f}] : f \in StaleFamilies(A, t)},
           IF Available(A) # {} /\ ~LineageKnown(A)
           THEN {[kind |-> "LINEAGE_UNKNOWN", families |-> Available(A)]}
           ELSE IF independence[1] \notin {0, independence[2]}
           THEN {[kind |-> "LOW_INDEPENDENCE", families |-> Available(A)]} ELSE {},
           IF Available(A) # Families
           THEN {[kind |-> "MISSING_SUPPORT", families |-> Families \ Available(A)]} ELSE {}}

Penalty(finding) ==
    CASE finding.kind = "DIRECT_CONTRADICTION" -> 35
      [] finding.kind = "STRUCTURAL_DIVERGENCE" -> 20
      [] finding.kind = "FRAGILITY_WARNING" -> 18
      [] finding.kind = "REGIME_TRANSITION" -> 15
      [] finding.kind = "STALE_INPUT" -> 12
      [] finding.kind \in {"LOW_INDEPENDENCE", "LINEAGE_UNKNOWN"} -> 10
      [] finding.kind = "HORIZON_TENSION" -> 8
      [] finding.kind = "MISSING_SUPPORT" -> 5 * Min({4, Cardinality(finding.families)})

Coherence(findings) == Max({0, 100 - MapThenSumSet(Penalty, findings)})

\* Variant: a stale answer counts double instead of half.
CompletenessOfStale(A, t) ==
    MapThenSumSet(LAMBDA f : IF f \in StaleFamilies(A, t) THEN 4 * DIMENSION_WEIGHTS[f]
                             ELSE 2 * DIMENSION_WEIGHTS[f], Available(A))

\* A stale answer counts half.
Completeness(A, t) ==
    MapThenSumSet(LAMBDA f : IF f \in StaleFamilies(A, t) THEN DIMENSION_WEIGHTS[f]
                             ELSE 2 * DIMENSION_WEIGHTS[f], Available(A))

\* 0.35, 0.40 and 0.25 of the three, times 200 and 2520 (which 1..10 divide).
Confidence(completeness, coherence, independence) ==
    2520 * (35 * completeness + 80 * coherence)
        + 5000 * independence[1] * (2520 \div independence[2])

MarketState(A, t) ==
    LET independence == Independence(A)
        findings == Contradiction(A, t) \cup Tensions(A) \cup Quality(A, t, independence)
        completeness == Completeness(A, t)
    IN [inputs |-> A, at |-> t, independence |-> independence, findings |-> findings,
        complete |-> completeness = 200,
        confidence |-> Confidence(completeness, Coherence(findings), independence)]

-----------------------------------------------------------------------------
SynthesisInit == instant = 0 /\ assemblies = {} /\ synthesis = None

\* An assembly of a question is recorded, known from now on.
RecordAssembly(a) ==
    /\ Cardinality(assemblies) < MaxAssemblies
    /\ assemblies' = assemblies \cup {[family |-> a.family, ref |-> a.ref, known |-> instant,
                                       cutoff |-> instant, answer |-> a.answer, groups |-> a.groups]}
    /\ UNCHANGED <<instant, synthesis>>

Age == instant < LastInstant /\ instant' = instant + 1 /\ UNCHANGED <<assemblies, synthesis>>

\* synthesize_and_record; conflicting assemblies raise.
SynthesizeMarket ==
    /\ ~Conflicting(assemblies)
    /\ synthesis' = MarketState(assemblies, instant)
    /\ UNCHANGED <<instant, assemblies>>

SynthesisNext == Age \/ SynthesizeMarket \/ \E a \in Arrivals : RecordAssembly(a)

SynthesisSpec == SynthesisInit /\ [][SynthesisNext]_synthesisVars

-----------------------------------------------------------------------------
(* Properties.                                                             *)

\* The groups counted as distinct evidence are the connected components of
\* the families that share a group: the smallest sets closed under sharing.
Closed(A, C) == \A f \in C, g \in Available(A) : Share(A, f, g) => g \in C
Components(A) ==
    {C \in (SUBSET Available(A)) \ {{}} :
        Closed(A, C) /\ \A D \in (SUBSET C) \ {{}} : Closed(A, D) => D = C}
GroupsAreComponents ==
    synthesis # None /\ synthesis.independence[1] > 0
        => synthesis.independence[1] = Cardinality(Components(synthesis.inputs))

Synthesized == synthesis # None /\ synthesis' # synthesis
DirectContradictions(document) == {f \in document.findings : f.kind = "DIRECT_CONTRADICTION"}

\* Synthesizing the same assemblies again later does not raise the confidence,
\* unless a direct contradiction drops out of sight because one of its sides
\* went stale.
AgingWeakens ==
    [][ /\ Synthesized /\ synthesis'.inputs = synthesis.inputs
        /\ DirectContradictions(synthesis') = DirectContradictions(synthesis)
        => synthesis'.confidence <= synthesis.confidence ]_synthesisVars

\* One more question whose evidence is already represented does not raise the
\* independence, once two questions have established it.
Represented(a, A) == \E f \in Available(A) : a.groups \cap Latest(A, f).groups # {}
DuplicatesDoNotInflate ==
    [][ /\ Synthesized /\ synthesis.independence[1] > 0
        /\ synthesis.inputs \subseteq synthesis'.inputs
        /\ \A a \in synthesis'.inputs \ synthesis.inputs :
              a.family \notin Available(synthesis.inputs) /\ Represented(a, synthesis.inputs)
        => LET was == synthesis.independence  is == synthesis'.independence
           IN is[1] * was[2] <= was[1] * is[2] ]_synthesisVars

\* The synthesis weighs evidence by what it is, but for the two exceptions named:
\* shared evidence counts once, stale evidence and repeated evidence no more.
EvidenceWeighsFairly == []GroupsAreComponents /\ AgingWeakens /\ DuplicatesDoNotInflate
==============================================================================
