---------------------------- MODULE BenjaminGate ----------------------------
(***************************************************************************)
(* The gate between the expert runtime and Benjamin: a publication is      *)
(* qualified from documents the journal already holds, and an eligible one *)
(* is handed off.  The verdict is one append, the handoff a second one; a  *)
(* client that retries finds the verdict and goes on to the handoff.  Each *)
(* append is under the writer lease, no check is.                          *)
(*                                                                         *)
(* A dossier holds what one qualification is asked about: the publication  *)
(* and the assembly, competence memory, context and claims it cites.  It   *)
(* has the instants they carry, and one at which all of them are           *)
(* journalled; "intact" says that the hashes, the schema, the question and *)
(* the forbidden fields are in order.  Shares are percents.                *)
(***************************************************************************)
EXTENDS ExpertRuntime, FiniteSetsExt
CONSTANTS
  Clients, Dossiers, Instants, Qualities,
  Policy,                       \* POLICY_THRESHOLDS
  MaxCalls, MaxGateDeaths       \* bounds

\* No instant is negative: the gate refuses such a cutoff, _append such an event,
\* build_intelligence_publication and MarketContextFrame such a document.
ASSUME CutoffsAreInstants == Instants \subseteq Nat /\ {Policy.contextAge, Policy.competenceAge} \subseteq Nat
ASSUME DossiersAreDated ==
  \A d \in Dossiers :
    /\ {d.journalled, d.published, d.competenceKnown, d.contextKnown} \subseteq Nat
    /\ \A x \in DOMAIN d.entries : d.entries[x].lastResolved \in Nat
    /\ IsFiniteSet(DOMAIN d.claims)

VARIABLES
  dossier,       \* the documents at hand
  client,        \* client -> what it is doing
  calls, gateDeaths, gateOverlapped
gateVars == <<runtimeVars, dossier, client, calls, gateDeaths, gateOverlapped>>

Away == [stage |-> "away", cutoff |-> 0, verdict |-> Absent]

GateInit ==
  /\ RuntimeInit /\ dossier \in Dossiers
  /\ client = [c \in Clients |-> Away] /\ calls = 0 /\ gateDeaths = 0 /\ gateOverlapped = FALSE

-----------------------------------------------------------------------------
(* What the documents of a dossier are, as events of the journal.           *)

Claims(d) == DOMAIN d.claims      \* expert -> [cutoff, weight, support]
Documents(d) ==
  LET document(type, item) == Event(type, d.journalled, [dossier |-> d.id, of |-> item])
      experts == SetToSeq(Claims(d))
  IN  [i \in DOMAIN experts |-> document("claim", experts[i])]
      \o [i \in DOMAIN experts |-> document("score", experts[i])]
      \o <<document("competence", "all"), document("assembly", "all"), document("publication", "all")>>

\* _require_recorded_qualification_inputs: every one of them recorded as of
\* the cutoff, and at least one claim.
InputsRecorded(d, cutoff) ==
  /\ Claims(d) # {}
  /\ \A document \in ToSet(Documents(d)) : document \in ToSet(events) /\ document.at <= cutoff

-----------------------------------------------------------------------------
(* assess_benjamin_publication_qualification.                               *)

\* int(x or -1): the instant 0 is taken for an absent one.
OrAbsent(t) == IF t = 0 THEN -1 ELSE t
If(condition, reason) == IF condition THEN {reason} ELSE {}

ClockReasons(d, cutoff) ==
  LET published == OrAbsent(d.published)
      known == OrAbsent(d.competenceKnown)
  IN
  If(published > cutoff \/ known > cutoff \/ d.contextKnown > cutoff
     \/ (published >= 0 /\ known > published), "FUTURE_INFORMATION_LEAKAGE")
  \cup If(cutoff - d.contextKnown \notin 0 .. Policy.contextAge, "STALE_CONTEXT")
  \cup If(known < 0 \/ cutoff - known \notin 0 .. Policy.competenceAge, "STALE_COMPETENCE")

\* Variant: the competence is not looked into.
OnlyClaimClocks(d, cutoff) ==
  If(\E x \in Claims(d) : OrAbsent(d.claims[x].cutoff) > cutoff, "FUTURE_INFORMATION_LEAKAGE")

\* Every entry of the competence memory, and the entry and the claim behind
\* every contribution.
ClaimReasons(d, cutoff) ==
  LET last(x) == OrAbsent(d.entries[x].lastResolved)
      backed == Claims(d) \cap DOMAIN d.entries
  IN
  If(Claims(d) # backed, "COMPETENCE_PROVENANCE_MISMATCH")
  \cup If(\E x \in backed : last(x) > cutoff \/ OrAbsent(d.claims[x].cutoff) > cutoff, "FUTURE_INFORMATION_LEAKAGE")
  \cup If(OrAbsent(d.competenceKnown) >= 0 /\ \E x \in DOMAIN d.entries : last(x) > d.competenceKnown,
          "COMPETENCE_CONTAINS_FUTURE_OUTCOME")

SupportReasons(d) ==
  LET backed == Claims(d) \cap DOMAIN d.entries
      samples == {d.entries[x].samples : x \in backed}
      total == FoldSet(LAMBDA x, sum : d.entries[x].samples + sum, 0, backed)
  IN
  If(Cardinality(Claims(d)) < Policy.experts, "INSUFFICIENT_EXPERT_COUNT")
  \cup If(total < Policy.total, "INSUFFICIENT_TOTAL_SAMPLE_SUPPORT")
  \cup If(\E n \in samples \cup {IF samples = {} THEN 0 ELSE Policy.samples} : n < Policy.samples,
          "INSUFFICIENT_PER_EXPERT_SAMPLES")
  \cup If(\E x \in backed : d.claims[x].support < Policy.support, "INSUFFICIENT_CONTEXTUAL_SAMPLE_SUPPORT")
  \cup If(\E x \in backed : d.claims[x].weight > Policy.weight, "EXCESSIVE_EXPERT_DOMINANCE")
  \cup If(d.confidence < Policy.confidence, "INSUFFICIENT_ASSEMBLY_CONFIDENCE")
  \cup If(d.disagreement > Policy.disagreement, "EXCESSIVE_DISAGREEMENT")
  \cup If(Cardinality(backed) < 2 \/ d.overlap > Policy.overlap, "INSUFFICIENT_EVIDENCE_INDEPENDENCE")

Reasons(d, cutoff, quality) ==
  If(~d.intact, "INTEGRITY_FAILURE")
  \cup If(quality # "VALID", "DATA_QUALITY_NOT_VALID")
  \cup If(~d.contextQualified, "CONTEXT_NOT_QUALIFIED")
  \cup If(~d.contextMatches, "ASSEMBLY_CONTEXT_MISMATCH")
  \cup ClockReasons(d, cutoff) \cup ClaimReasons(d, cutoff) \cup SupportReasons(d)

\* The identity does not hold the data quality, the reasons do.
Identity(d, cutoff) == <<d.id, cutoff>>
Assess(d, cutoff, quality) == [id |-> Identity(d, cutoff), cutoff |-> cutoff, reasons |-> Reasons(d, cutoff, quality)]
Passes(verdict) == verdict.reasons = {}
VerdictEvent(verdict) == Event("qualification", verdict.cutoff, verdict)
HandoffEvent(verdict) == Event("handoff", verdict.cutoff, verdict)

-----------------------------------------------------------------------------
\* The pipeline journals the documents one after the other.
RecordDocument ==
  LET documents == Documents(dossier)
      missing == {i \in DOMAIN documents : documents[i] \notin ToSet(events)}
  IN
  /\ missing # {} /\ Journal(documents[Min(missing)])
  /\ UNCHANGED <<dossier, client, calls, gateDeaths, gateOverlapped>>

Become(c, next) == client' = [client EXCEPT ![c] = next] /\ UNCHANGED <<dossier, calls, gateDeaths, gateOverlapped>>

\* qualify_for_benjamin: the inputs are looked up, the verdict is reached.
Qualify(c, cutoff, quality) ==
  /\ client[c] = Away /\ calls < MaxCalls /\ InputsRecorded(dossier, cutoff)
  /\ client' = [client EXCEPT ![c] = [stage |-> "look", cutoff |-> cutoff, verdict |-> Assess(dossier, cutoff, quality)]]
  /\ calls' = calls + 1
  /\ gateOverlapped' = (gateOverlapped \/ \E o \in Clients : client[o] # Away)
  /\ UNCHANGED <<runtimeVars, dossier, gateDeaths>>

\* Where the journal holds an event of a type and identity.
Places(type, id) == {i \in DOMAIN events : events[i].type = type /\ events[i].item.id = id}

\* A verdict of that identity is reused, and must be the same.
Look(c) ==
  LET verdict == client[c].verdict
      existing == Places("qualification", verdict.id)
  IN
  /\ client[c].stage = "look"
  /\ Become(c, IF existing = {} THEN [client[c] EXCEPT !.stage = "record"]
               ELSE IF events[Min(existing)].item # verdict \/ ~Passes(verdict) THEN Away
               ELSE [client[c] EXCEPT !.stage = "handoff"])
  /\ UNCHANGED runtimeVars

RecordVerdict(c) ==
  /\ client[c].stage = "record" /\ Journal(VerdictEvent(client[c].verdict))
  /\ Become(c, IF Passes(client[c].verdict) THEN [client[c] EXCEPT !.stage = "handoff"] ELSE Away)

\* _ensure_recorded_handoff and record_handoff: the last verdict of that
\* identity must be this one; a handoff that is there is returned.
LookForHandoff(c) ==
  LET verdict == client[c].verdict
      recorded == {i \in Places("qualification", verdict.id) : events[i].item.cutoff <= client[c].cutoff}
  IN
  /\ client[c].stage = "handoff"
  /\ Become(c, IF events[Max(recorded)].item = verdict /\ Places("handoff", verdict.id) = {}
               THEN [client[c] EXCEPT !.stage = "write"] ELSE Away)
  /\ UNCHANGED runtimeVars

HandOff(c) ==
  /\ client[c].stage = "write" /\ Journal(HandoffEvent(client[c].verdict))
  /\ Become(c, Away)

ClientDies(c) ==
  /\ client[c] # Away /\ gateDeaths < MaxGateDeaths
  /\ \/ UNCHANGED runtimeVars
     \/ client[c].stage = "record" /\ JournalWithoutState(VerdictEvent(client[c].verdict))
     \/ client[c].stage = "write" /\ JournalWithoutState(HandoffEvent(client[c].verdict))
  /\ client' = [client EXCEPT ![c] = Away] /\ gateDeaths' = gateDeaths + 1
  /\ UNCHANGED <<dossier, calls, gateOverlapped>>

GateNext ==
  \/ RecordDocument
  \/ RebuildState /\ projected # Len(events) /\ UNCHANGED <<dossier, client, calls, gateDeaths, gateOverlapped>>
  \/ \E c \in Clients :
       \/ \E cutoff \in Instants, quality \in Qualities : Qualify(c, cutoff, quality)
       \/ Look(c) \/ RecordVerdict(c) \/ LookForHandoff(c) \/ HandOff(c) \/ ClientDies(c)

GateSpec == GateInit /\ [][GateNext]_gateVars

-----------------------------------------------------------------------------
(* Properties.                                                              *)

\* A handoff looks at nothing that was not known (assess_benjamin_publication_
\* qualification): the outcomes behind the competence were resolved before it
\* was known, it was known before the publication, that was made before the
\* cutoff, and so was the context, which is fresh; two experts or more stand
\* behind it.  A publication dated at the instant 0 passes for an undated one,
\* and is exempt from the chronology.
HandoffsLookBack ==
  \A i \in DOMAIN events : events[i].type = "handoff" =>
    LET h == events[i].item  d == dossier IN
    /\ d.journalled <= h.cutoff
    /\ \A x \in DOMAIN d.entries : d.entries[x].lastResolved <= d.competenceKnown
    /\ d.competenceKnown <= h.cutoff /\ d.published <= h.cutoff
    /\ d.published # 0 => d.competenceKnown <= d.published
    /\ d.contextKnown <= h.cutoff /\ h.cutoff <= d.contextKnown + Policy.contextAge
    /\ Cardinality(Claims(d)) >= 2 /\ Claims(d) \subseteq DOMAIN d.entries

\* A handoff in the journal follows the eligible verdict it cites, and that
\* follows every document it was reached from, all of them known at the
\* cutoff; unless two clients overlapped, there is one verdict and one handoff
\* per identity, whatever died in between and was retried.
HandoffsAreEarned ==
  /\ \A i \in DOMAIN events : events[i].type = "handoff" =>
       \E j \in 1 .. i - 1 :
         /\ events[j].type = "qualification" /\ events[j].item = events[i].item /\ Passes(events[j].item)
         /\ \A document \in ToSet(Documents(dossier)) : \E l \in 1 .. j - 1 : events[l] = document
  /\ gateOverlapped \/ \A i, j \in DOMAIN events :
       events[i].type \in {"qualification", "handoff"} /\ events[j].type = events[i].type
         /\ events[i].item.id = events[j].item.id => i = j

\* Both: what goes out at a hand-off was known, qualified and recorded first,
\* and goes out once.
HandoffsStand == HandoffsLookBack /\ HandoffsAreEarned
=============================================================================
