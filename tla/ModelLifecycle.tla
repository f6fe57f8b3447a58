--------------------------- MODULE ModelLifecycle ---------------------------
(***************************************************************************)
(* The governed lifecycle of ZLJ's models (autonomous_kernel/models/        *)
(* registry.py and qualification.py).  memory/model_transitions.jsonl is    *)
(* the source: an append-only chain of registrations and transitions.       *)
(* state/model_registry.json is its projection, kept here as the length of  *)
(* the prefix it reflects.  The registry works under the writer lease (one  *)
(* holder, as ExclusiveLease promises; a dead holder's lease is cleared by  *)
(* the next process), and still crashes between its two writes.             *)
(*                                                                          *)
(* Qualification decides outside the lease: build_transition_proposal and   *)
(* apply_transition_proposal read the registry, let go, and write later.    *)
(***************************************************************************)
EXTENDS Naturals, Sequences, FiniteSets

CONSTANTS
    Procs,          \* processes of the kernel
    Models,         \* model references
    Receipts,       \* SUPPORTED evaluation receipts: [model, target]
    Direct,         \* evidence of a transition asked of the registry itself
    None,           \* no holder, no evidence
    MaxEvents,      \* bound on the journal
    MaxProposals,   \* bound on the persisted proposals
    MaxCrashes      \* bound on the crashes of a behaviour

MODEL_STATES ==
    {"CANDIDATE", "REPLAY_QUALIFIED", "WALK_FORWARD_QUALIFIED", "SHADOW",
     "QUALIFIED", "DEGRADED", "QUARANTINED", "SUPERSEDED"}

\* Variant: a degraded model may be put straight back into service.
AllowedBackIntoService(s) ==
    CASE s = "CANDIDATE" -> {"REPLAY_QUALIFIED", "QUARANTINED"}
      [] s = "REPLAY_QUALIFIED" -> {"WALK_FORWARD_QUALIFIED", "DEGRADED", "QUARANTINED"}
      [] s = "WALK_FORWARD_QUALIFIED" -> {"SHADOW", "DEGRADED", "QUARANTINED"}
      [] s = "SHADOW" -> {"QUALIFIED", "DEGRADED", "QUARANTINED"}
      [] s = "QUALIFIED" -> {"DEGRADED", "QUARANTINED", "SUPERSEDED"}
      [] s = "DEGRADED" -> {"QUALIFIED", "QUARANTINED", "SUPERSEDED"}
      [] OTHER -> {}

\* ALLOWED_TRANSITIONS.
Allowed(s) ==
    CASE s = "CANDIDATE" -> {"REPLAY_QUALIFIED", "QUARANTINED"}
      [] s = "REPLAY_QUALIFIED" -> {"WALK_FORWARD_QUALIFIED", "DEGRADED", "QUARANTINED"}
      [] s = "WALK_FORWARD_QUALIFIED" -> {"SHADOW", "DEGRADED", "QUARANTINED"}
      [] s = "SHADOW" -> {"QUALIFIED", "DEGRADED", "QUARANTINED"}
      [] s = "QUALIFIED" -> {"DEGRADED", "QUARANTINED", "SUPERSEDED"}
      [] s = "DEGRADED" -> {"SHADOW", "QUARANTINED", "SUPERSEDED"}
      [] OTHER -> {}

\* EVALUATION_MODE_BY_TARGET and EVIDENCE_KIND_BY_TARGET name exactly these.
Targets == MODEL_STATES \ {"CANDIDATE"}
Unregistered == "UNREGISTERED"

ASSUME ReceiptsType == Receipts \subseteq [model : Models, target : Targets]
ASSUME BoundsAreNatural == MaxEvents \in Nat /\ MaxCrashes \in Nat
ASSUME DirectIsNoReceipt == Direct \notin Receipts /\ None \notin Receipts \cup Procs

VARIABLES
    journal,    \* memory/model_transitions.jsonl
    torn,       \* whether its last line is the beginning of an event
    projected,  \* how many events state/model_registry.json reflects
    lock,       \* the holder of the writer lease, or None
    pc, job,    \* where each process is, and what it is about to write
    receipts,   \* persisted receipts
    proposals,  \* persisted proposals
    crashes

registry == <<journal, torn, projected>>
evidence == <<receipts, proposals>>
vars == <<registry, lock, pc, job, evidence, crashes>>

Event(m, from, to, e) == [model |-> m, from |-> from, to |-> to, evidence |-> e]
NoJob == Event(None, Unregistered, Unregistered, None)

Init ==
    /\ journal = <<>> /\ torn = FALSE /\ projected = 0
    /\ lock = None
    /\ pc = [w \in Procs |-> "idle"]
    /\ job = [w \in Procs |-> NoJob]
    /\ receipts = {} /\ proposals = {}
    /\ crashes = 0

EventsOf(m) == {i \in 1..Len(journal) : journal[i].model = m}
LastOf(m) == CHOOSE i \in EventsOf(m) : \A j \in EventsOf(m) : j <= i

\* _project_events for one model: the state its last event left it in.
StateOf(m) == IF EventsOf(m) = {} THEN Unregistered ELSE journal[LastOf(m)].to
EvidenceOf(m) == IF EventsOf(m) = {} THEN None ELSE journal[LastOf(m)].evidence

\* validate_model_registry: the journal parses and the projection is current.
RegistryValid == ~torn /\ projected = Len(journal)

Does(w, step, what) ==
    /\ pc' = [pc EXCEPT ![w] = step]
    /\ job' = [job EXCEPT ![w] = what]

Return(w) == Does(w, "idle", NoJob)

-----------------------------------------------------------------------------
(* ModelRegistry: all of it under the writer lease, deciding from the       *)
(* journal and never from the projection.                                   *)

\* Take the lease; what the journal says cannot change until it is released.
Take(w) == lock = None /\ ~torn /\ lock' = w

\* A registration appends once; repeated, it only rewrites the projection.
Register(w, m) ==
    /\ pc[w] = "idle" /\ Take(w)
    /\ IF StateOf(m) = Unregistered
       THEN /\ Len(journal) < MaxEvents
            /\ Does(w, "append", Event(m, Unregistered, "CANDIDATE", None))
       ELSE Does(w, "project", NoJob)
    /\ UNCHANGED <<registry, evidence, crashes>>

\* transition, as far as the append: the state the edge starts from is read
\* under the lease, whatever state the caller saw.  A repetition of the last
\* transition with the same evidence only rewrites the projection.
Transition(w, m, to, e) ==
    /\ Take(w)
    /\ \/ /\ to \in Allowed(StateOf(m)) /\ Len(journal) < MaxEvents
          /\ Does(w, "append", Event(m, StateOf(m), to, e))
       \/ /\ to = StateOf(m) /\ e = EvidenceOf(m)
          /\ Does(w, "project", NoJob)
    /\ UNCHANGED <<registry, evidence, crashes>>

TransitionDirectly(w, m, to) ==
    pc[w] = "idle" /\ Transition(w, m, to, Direct)

RebuildState(w) ==
    /\ pc[w] = "idle" /\ Take(w)
    /\ Does(w, "project", NoJob)
    /\ UNCHANGED <<registry, evidence, crashes>>

AppendEvent(w) ==
    /\ pc[w] = "append"
    /\ journal' = Append(journal, job[w])
    /\ Does(w, "project", NoJob)
    /\ UNCHANGED <<torn, projected, lock, evidence, crashes>>

\* _atomic_json(state_path, ...), then the lease is released.
Project(w) ==
    /\ pc[w] = "project"
    /\ projected' = Len(journal)
    /\ lock' = None
    /\ Return(w)
    /\ UNCHANGED <<journal, torn, evidence, crashes>>

-----------------------------------------------------------------------------
(* Qualification.                                                           *)

PersistReceipt(r) ==
    /\ lock = None
    /\ receipts' = receipts \cup {r}
    /\ UNCHANGED <<registry, lock, pc, job, proposals, crashes>>

\* build_transition_proposal: read without the lease.
BuildProposal(w, r) ==
    /\ pc[w] = "idle" /\ RegistryValid
    /\ r.target \in Allowed(StateOf(r.model))
    /\ Does(w, "propose", Event(r.model, StateOf(r.model), r.target, r))
    /\ UNCHANGED <<registry, lock, evidence, crashes>>

PersistProposal(w) ==
    /\ pc[w] = "propose" /\ lock = None
    /\ Cardinality(proposals \cup {job[w]}) <= MaxProposals
    /\ proposals' = proposals \cup {job[w]}
    /\ Return(w)
    /\ UNCHANGED <<registry, lock, receipts, crashes>>

\* apply_transition_proposal up to its call of transition: proposal, receipt
\* and registry are read without the lease, and a model that is no longer in
\* from_state is refused.
ApplyCheck(w, p) ==
    /\ pc[w] = "idle" /\ RegistryValid
    /\ p \in proposals /\ p.evidence \in receipts
    /\ StateOf(p.model) = p.from
    /\ Does(w, "apply", p)
    /\ UNCHANGED <<registry, lock, evidence, crashes>>

ApplyTransition(w) ==
    LET p == job[w] IN
    pc[w] = "apply" /\ Transition(w, p.model, p.to, p.evidence)

\* transition refuses an edge that is no longer legal, a repetition with other
\* evidence, a torn journal, and whatever the model's state a time before the
\* model's last event.
ApplyRefused(w) ==
    /\ pc[w] = "apply" /\ lock = None
    /\ Return(w)
    /\ UNCHANGED <<registry, lock, evidence, crashes>>

-----------------------------------------------------------------------------

\* A process dies.  Its lease goes with it; an interrupted append may leave
\* the beginning of a line.
Crash(w) ==
    /\ pc[w] # "idle" /\ crashes < MaxCrashes
    /\ crashes' = crashes + 1
    /\ lock' = IF lock = w THEN None ELSE lock
    /\ \/ UNCHANGED torn
       \/ pc[w] = "append" /\ torn' = TRUE
    /\ Return(w)
    /\ UNCHANGED <<journal, projected, evidence>>

Next ==
    \/ \E r \in Receipts : PersistReceipt(r)
    \/ \E w \in Procs :
          \/ \E m \in Models : Register(w, m)
          \/ \E m \in Models, to \in Targets : TransitionDirectly(w, m, to)
          \/ \E r \in Receipts : BuildProposal(w, r)
          \/ \E p \in proposals : ApplyCheck(w, p)
          \/ RebuildState(w) \/ AppendEvent(w) \/ Project(w)
          \/ PersistProposal(w) \/ ApplyTransition(w) \/ ApplyRefused(w)
          \/ Crash(w)

Spec == Init /\ [][Next]_vars

-----------------------------------------------------------------------------
(* What the lifecycle promises.                                             *)

Events == [model : Models, from : MODEL_STATES \cup {Unregistered},
           to : MODEL_STATES, evidence : Receipts \cup {Direct, None}]

TypeOK ==
    /\ journal \in Seq(Events) /\ Len(journal) <= MaxEvents
    /\ torn \in BOOLEAN
    /\ projected \in 0..Len(journal)
    /\ lock \in Procs \cup {None}
    /\ pc \in [Procs -> {"idle", "append", "project", "propose", "apply"}]
    /\ job \in [Procs -> Events \cup {NoJob}]
    /\ receipts \subseteq Receipts
    /\ proposals \subseteq Events
    /\ crashes \in 0..MaxCrashes

\* The last event of a model before position i.
Before(i) == {j \in 1..(i - 1) : journal[j].model = journal[i].model}
Previous(i) == CHOOSE j \in Before(i) : \A k \in Before(i) : k <= j

\* The journal is a legal history of every model: one registration, and then
\* only edges of ALLOWED_TRANSITIONS that start where the last one ended, even
\* for transitions decided outside the lease.  A journal that is not is
\* refused by every operation from then on.
LegalHistory ==
    \A i \in 1..Len(journal) :
        LET e == journal[i] IN
        IF Before(i) = {}
        THEN e.from = Unregistered /\ e.to = "CANDIDATE"
        ELSE e.from = journal[Previous(i)].to /\ e.to \in Allowed(e.from)

\* The projection, which proposals and applications are checked against, lags
\* behind the journal by no more than the events in flight and those whose
\* writer crashed between the two writes.
ProjectionLag ==
    Len(journal) <= projected + crashes + Cardinality({w \in Procs : pc[w] = "project"})

\* A transition recorded on the strength of an evaluation receipt has that
\* receipt on disk, for that model and that target.
EvidenceOnRecord ==
    \A i \in 1..Len(journal) :
        LET r == journal[i].evidence IN
        r \in Receipts => r \in receipts /\ r.model = journal[i].model /\ r.target = journal[i].to

Reached(m, s, n) == \E i \in 1..n : journal[i].model = m /\ journal[i].to = s

\* No model becomes QUALIFIED without replay evidence and, after it, shadow
\* evidence, whichever way round it degraded and came back.
QualifiedWasShadowed ==
    \A i \in 1..Len(journal) : journal[i].to = "QUALIFIED" =>
        \E j \in 1..(i - 1) :
            /\ journal[j].model = journal[i].model /\ journal[j].to = "SHADOW"
            /\ Reached(journal[i].model, "REPLAY_QUALIFIED", j - 1)

\* The registry stays a sound history, whoever reads outside the lease and
\* whoever dies under it: legal edges only, each on evidence on record, no
\* service without a shadow, and a projection that lags by the deaths alone.
HistoryIsLegal ==
    LegalHistory /\ EvidenceOnRecord /\ QualifiedWasShadowed /\ ProjectionLag
=============================================================================
