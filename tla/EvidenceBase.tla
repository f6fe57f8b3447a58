---------------------------- MODULE EvidenceBase ----------------------------
(***************************************************************************)
(* What the evidence journals promise a reader: a base of facts that only   *)
(* grows.  A prediction is claimed once, gets at most one final outcome and *)
(* only after it was claimed.  An assembled prediction counts only outcomes  *)
(* on record, decided before the cutoff, and is certified by at most one    *)
(* receipt, whose evidence was all on record.                               *)
(***************************************************************************)
CONSTANTS
    History,        \* predictions of the past, whose outcomes are competence
    Components,     \* predictions the assembly combines
    Early           \* predictions of History decided before the cutoff

VARIABLES
    claims,         \* predictions on record
    outcomes,       \* final outcomes on record
    receipts        \* assembly receipts on record

STATUSES == {"RESOLVED", "UNRESOLVABLE"}
Outcomes == [prediction : History, status : STATUSES]

\* An assembled prediction, identified by its content: the components are
\* the same, the weights follow from the resolved outcomes counted.
Blends == [evidence : SUBSET History]
Claims == History \cup Components \cup Blends

\* The competence profiles at the cutoff: which claims and which outcomes
\* they were built from.  A receipt carries their hashes.
Profiles == [claims : SUBSET History, outcomes : SUBSET Outcomes]
Receipts == [blend : Blends, profile : Profiles]

Resolved(os) == {o.prediction : o \in {q \in os : q.status = "RESOLVED"}}
BlendFrom(profile) == [evidence |-> Resolved(profile.outcomes)]

Init == claims = {} /\ outcomes = {} /\ receipts = {}

Claim(c) ==
    /\ c \notin claims
    /\ c \in Blends => /\ Components \subseteq claims
                       /\ c.evidence \subseteq Resolved(outcomes) \cap Early
    /\ claims' = claims \cup {c}
    /\ UNCHANGED <<outcomes, receipts>>

Resolve(o) ==
    /\ o.prediction \in claims
    /\ \A q \in outcomes : q.prediction # o.prediction
    /\ outcomes' = outcomes \cup {o}
    /\ UNCHANGED <<claims, receipts>>

Certify(r) ==
    /\ r.blend \in claims /\ r.blend = BlendFrom(r.profile)
    /\ r.profile.claims \subseteq claims /\ r.profile.outcomes \subseteq outcomes
    /\ \A q \in r.profile.outcomes : q.prediction \in Early
    /\ \A s \in receipts : s.blend # r.blend
    /\ receipts' = receipts \cup {r}
    /\ UNCHANGED <<claims, outcomes>>

Next ==
    \/ \E c \in Claims : Claim(c)
    \/ \E o \in Outcomes : Resolve(o)
    \/ \E r \in Receipts : Certify(r)

Spec == Init /\ [][Next]_<<claims, outcomes, receipts>>
=============================================================================
