-------------------------- MODULE RegistriesProofs --------------------------
(***************************************************************************)
(* Proofs about the governed registries, ModelLifecycle, ContextProfiles    *)
(* and QuestionRegistry, for every set of processes, models, receipts,      *)
(* profiles and questions.                                                  *)
(*                                                                          *)
(* The model lifecycle is decided from the journal under the lease, so what *)
(* a process is about to append continues the history as it is when it      *)
(* appends.  What was decided outside the lease, a proposal and its check,  *)
(* contributes the evidence and the target and never the state an edge      *)
(* starts from.  The same holds of the chain of profiles; an assembly reads  *)
(* it without the lease, and what it read stays true because an event can    *)
(* only change what an instant resolves to if it is dated before it.         *)
(***************************************************************************)
EXTENDS ModelLifecycle, QuestionRegistry, ContextProfiles, FiniteSetTheorems, WellFoundedInduction, TLAPS

\* The lease is held exactly between the look at the journal and the projection.
LeaseInv ==
    \A w \in Procs : lock = w <=> pc[w] \in {"append", "project"}

\* An event on the strength of a receipt is for the receipt's model and target.
Matches(e) ==
    e.evidence \in Receipts => e.evidence.model = e.model /\ e.evidence.target = e.to

\* An event that continues the history of its model as the journal has it.
Continues(e) ==
    /\ IF EventsOf(e.model) = {}
       THEN e.from = Unregistered /\ e.to = "CANDIDATE"
       ELSE e.from = journal[LastOf(e.model)].to /\ e.to \in Allowed(e.from)
    /\ e.evidence \in Receipts => e.evidence \in receipts

JobInv(w) ==
    /\ pc[w] \in {"append", "propose", "apply"} => job[w] \in Events /\ Matches(job[w])
    /\ pc[w] = "append" => Continues(job[w]) /\ Len(journal) < MaxEvents
    /\ pc[w] = "apply" => job[w].evidence \in receipts

\* A set of positions has a last one, if it has any.
HasLast(S) == S # {} => \E i \in S : \A j \in S : j <= i

LastInv ==
    /\ \A m \in Models : HasLast(EventsOf(m))
    /\ \A i \in 1..Len(journal) : HasLast(Before(i))

\* Whatever comes after replay qualification had it before.
Later == {"WALK_FORWARD_QUALIFIED", "SHADOW", "QUALIFIED", "DEGRADED"}
ReplayedFirst ==
    \A i \in 1..Len(journal) :
        journal[i].to \in Later => Reached(journal[i].model, "REPLAY_QUALIFIED", i - 1)

IInv ==
    /\ TypeOK /\ LeaseInv /\ LastInv
    /\ \A w \in Procs : JobInv(w)
    /\ \A p \in proposals : Matches(p)
    /\ LegalHistory /\ EvidenceOnRecord /\ ReplayedFirst /\ ProjectionLag

-----------------------------------------------------------------------------
(* Operators of the model.                                                  *)

\* The shape of ALLOWED_TRANSITIONS that the order of qualifications rests on.
LEMMA AllowedEdges ==
    ASSUME NEW s, NEW t \in Allowed(s)
    PROVE  /\ t \in MODEL_STATES \ {"CANDIDATE"}
           /\ s \in MODEL_STATES
           /\ t = "WALK_FORWARD_QUALIFIED" => s = "REPLAY_QUALIFIED"
           /\ t = "SHADOW" => s \in {"WALK_FORWARD_QUALIFIED", "DEGRADED"}
           /\ t = "QUALIFIED" => s = "SHADOW"
           /\ t = "DEGRADED" => s \in {"REPLAY_QUALIFIED", "WALK_FORWARD_QUALIFIED", "SHADOW", "QUALIFIED"}
<1>1. CASE s = "CANDIDATE"
  BY <1>1 DEF Allowed, MODEL_STATES
<1>2. CASE s = "REPLAY_QUALIFIED"
  BY <1>2 DEF Allowed, MODEL_STATES
<1>3. CASE s = "WALK_FORWARD_QUALIFIED"
  BY <1>3 DEF Allowed, MODEL_STATES
<1>4. CASE s = "SHADOW"
  BY <1>4 DEF Allowed, MODEL_STATES
<1>5. CASE s = "QUALIFIED"
  BY <1>5 DEF Allowed, MODEL_STATES
<1>6. CASE s = "DEGRADED"
  BY <1>6 DEF Allowed, MODEL_STATES
<1>7. CASE s \notin {"CANDIDATE", "REPLAY_QUALIFIED", "WALK_FORWARD_QUALIFIED",
                     "SHADOW", "QUALIFIED", "DEGRADED"}
  BY <1>7 DEF Allowed
<1>8. QED
  BY <1>1, <1>2, <1>3, <1>4, <1>5, <1>6, <1>7

\* The last event of a model, and the one before a position, are such events.
LEMMA LastIsOne ==
    ASSUME NEW S, HasLast(S), S # {}
    PROVE  LET k == CHOOSE i \in S : \A j \in S : j <= i
           IN  k \in S /\ \A j \in S : j <= k
BY DEF HasLast

LEMMA LastEvents ==
    ASSUME LastInv
    PROVE  /\ \A m \in Models : EventsOf(m) # {} => LastOf(m) \in EventsOf(m)
           /\ \A i \in 1..Len(journal) : Before(i) # {} => Previous(i) \in Before(i)
BY LastIsOne DEF LastInv, LastOf, Previous

\* The state the journal leaves a model in.
LEMMA States ==
    ASSUME TypeOK, LastInv, NEW m \in Models
    PROVE  /\ StateOf(m) \in MODEL_STATES \cup {Unregistered}
           /\ StateOf(m) = Unregistered <=> EventsOf(m) = {}
           /\ EventsOf(m) # {} => StateOf(m) = journal[LastOf(m)].to
<1>1. CASE EventsOf(m) = {}
  BY <1>1 DEF StateOf
<1>2. CASE EventsOf(m) # {}
  <2>1. LastOf(m) \in 1..Len(journal)
    BY <1>2, LastEvents DEF EventsOf
  <2>2. journal[LastOf(m)] \in Events
    BY <2>1 DEF TypeOK
  <2>3. journal[LastOf(m)].to \in MODEL_STATES /\ Unregistered \notin MODEL_STATES
    BY <2>2 DEF Events, MODEL_STATES, Unregistered
  <2>4. QED
    BY <1>2, <2>3 DEF StateOf
<1>3. QED
  BY <1>1, <1>2

\* What an event is made of.
LEMMA EventTypes ==
    /\ \A m \in Models, f \in MODEL_STATES \cup {Unregistered}, t \in MODEL_STATES,
          e \in Receipts \cup {Direct, None} : Event(m, f, t, e) \in Events
    /\ \A m, f, t, e :
          /\ Event(m, f, t, e).model = m /\ Event(m, f, t, e).from = f
          /\ Event(m, f, t, e).to = t /\ Event(m, f, t, e).evidence = e
    /\ \A e \in Events :
          /\ e.model \in Models /\ e.from \in MODEL_STATES \cup {Unregistered}
          /\ e.to \in MODEL_STATES /\ e.evidence \in Receipts \cup {Direct, None}
    /\ \A r \in Receipts : r.model \in Models /\ r.target \in MODEL_STATES \ {"CANDIDATE"}
BY ReceiptsType DEF Event, Events, Targets

LEMMA Did ==
    ASSUME TypeOK, NEW w \in Procs, NEW s, NEW b, Does(w, s, b)
    PROVE  /\ pc'[w] = s /\ job'[w] = b
           /\ \A v \in Procs \ {w} : pc'[v] = pc[v] /\ job'[v] = job[v]
           /\ s \in {"idle", "append", "project", "propose", "apply"}
                => pc' \in [Procs -> {"idle", "append", "project", "propose", "apply"}]
           /\ b \in Events \cup {NoJob} => job' \in [Procs -> Events \cup {NoJob}]
BY DEF TypeOK, Does

\* Under the lease at most one process is between its two writes.
LEMMA LagIs ==
    ASSUME NEW at, NEW holder, \A w \in Procs : at[w] = "project" => w = holder
    PROVE  Cardinality({w \in Procs : at[w] = "project"})
             = IF \E w \in Procs : at[w] = "project" THEN 1 ELSE 0
<1>1. CASE \E w \in Procs : at[w] = "project"
  <2>1. PICK w \in Procs : at[w] = "project"
    BY <1>1
  <2>2. {v \in Procs : at[v] = "project"} = {w}
    BY <2>1
  <2>3. QED
    BY <1>1, <2>2, FS_Singleton
<1>2. CASE ~\E w \in Procs : at[w] = "project"
  <2>1. {v \in Procs : at[v] = "project"} = {}
    BY <1>2
  <2>2. QED
    BY <1>2, <2>1, FS_EmptySet
<1>3. QED
  BY <1>1, <1>2

-----------------------------------------------------------------------------
(* What a step that appends nothing leaves.                                 *)

LEMMA HistoryStays ==
    ASSUME IInv, UNCHANGED journal, receipts \subseteq receipts'
    PROVE  /\ LastInv' /\ LegalHistory' /\ EvidenceOnRecord' /\ ReplayedFirst'
           /\ \A e : Continues(e) => Continues(e)'
           /\ \A m : StateOf(m)' = StateOf(m)
<1>1. /\ \A m : EventsOf(m)' = EventsOf(m) /\ LastOf(m)' = LastOf(m)
      /\ \A i : Before(i)' = Before(i) /\ Previous(i)' = Previous(i)
  BY DEF EventsOf, LastOf, Before, Previous
<1>2. LastInv' /\ LegalHistory'
  BY <1>1 DEF IInv, LastInv, LegalHistory, HasLast
<1>3. EvidenceOnRecord' /\ ReplayedFirst'
  BY DEF IInv, EvidenceOnRecord, ReplayedFirst, Reached
<1>4. \A e : Continues(e) => Continues(e)'
  BY <1>1 DEF Continues
<1>5. \A m : StateOf(m)' = StateOf(m)
  BY <1>1 DEF StateOf
<1>6. QED
  BY <1>2, <1>3, <1>4, <1>5

LEMMA JobStays ==
    ASSUME IInv, UNCHANGED journal, receipts \subseteq receipts', NEW v \in Procs,
           pc'[v] = pc[v], job'[v] = job[v]
    PROVE  JobInv(v)'
BY HistoryStays DEF IInv, JobInv, Matches

\* One process moves, the journal stays.
LEMMA QuietStep ==
    ASSUME IInv, TypeOK', LeaseInv', ProjectionLag', UNCHANGED journal,
           receipts \subseteq receipts', \A p \in proposals' : Matches(p),
           NEW w \in Procs, JobInv(w)',
           \A v \in Procs \ {w} : pc'[v] = pc[v] /\ job'[v] = job[v]
    PROVE  IInv'
<1>1. \A v \in Procs : JobInv(v)'
  BY JobStays
<1>2. \A p \in proposals' : Matches(p)'
  BY DEF Matches
<1>3. QED
  BY <1>1, <1>2, HistoryStays DEF IInv

-----------------------------------------------------------------------------
(* One lemma for each operation.                                            *)

LEMMA LifecycleStart == Init => IInv
<1> SUFFICES ASSUME Init PROVE IInv
  OBVIOUS
<1>1. /\ journal = <<>> /\ Len(journal) = 0 /\ projected = 0 /\ crashes = 0
      /\ lock = None /\ receipts = {} /\ proposals = {}
      /\ \A w \in Procs : pc[w] = "idle"
  BY DEF Init
<1>2. TypeOK
  <2>1. /\ journal \in Seq(Events) /\ Len(journal) <= MaxEvents
        /\ projected \in 0..Len(journal) /\ crashes \in 0..MaxCrashes
    BY <1>1, BoundsAreNatural
  <2>2. /\ pc \in [Procs -> {"idle", "append", "project", "propose", "apply"}]
        /\ job \in [Procs -> Events \cup {NoJob}]
    BY DEF Init
  <2>3. QED
    BY <1>1, <2>1, <2>2 DEF TypeOK, Init
<1>3. LeaseInv
  BY <1>1, DirectIsNoReceipt DEF LeaseInv
<1>4. LastInv /\ LegalHistory /\ EvidenceOnRecord /\ ReplayedFirst
  BY <1>1 DEF LastInv, HasLast, EventsOf, LegalHistory, EvidenceOnRecord, ReplayedFirst
<1>5. ProjectionLag
  <2>1. Cardinality({w \in Procs : pc[w] = "project"}) = 0
    BY <1>1, FS_EmptySet
  <2>2. QED
    BY <1>1, <2>1 DEF ProjectionLag
<1>6. QED
  BY <1>1, <1>2, <1>3, <1>4, <1>5 DEF IInv, JobInv

\* A process takes the lease, to append an event that continues the history or
\* only to project it again.
LEMMA TakeStep ==
    ASSUME IInv, NEW w \in Procs, Take(w), UNCHANGED <<registry, evidence, crashes>>,
           NEW e, \/ Does(w, "project", NoJob)
                  \/ /\ Does(w, "append", e) /\ e \in Events /\ Matches(e) /\ Continues(e)
                     /\ Len(journal) < MaxEvents
    PROVE  IInv'
<1>1. /\ TypeOK /\ LeaseInv /\ lock = None /\ lock' = w
      /\ UNCHANGED <<journal, torn, projected, receipts, proposals, crashes>>
  BY DEF IInv, Take, registry, evidence
<1>2. \A v \in Procs : pc[v] \notin {"append", "project"}
  BY <1>1, DirectIsNoReceipt DEF LeaseInv
<1>3. /\ TypeOK' /\ \A v \in Procs \ {w} : pc'[v] = pc[v] /\ job'[v] = job[v]
      /\ pc'[w] \in {"append", "project"}
  <2>1. CASE Does(w, "project", NoJob)
    BY <1>1, <2>1, Did DEF TypeOK
  <2>2. CASE Does(w, "append", e) /\ e \in Events
    BY <1>1, <2>2, Did DEF TypeOK
  <2>3. QED
    BY <2>1, <2>2
<1>4. LeaseInv'
  BY <1>1, <1>2, <1>3 DEF LeaseInv
<1>5. ProjectionLag'
  <2>1. Len(journal) <= projected + crashes
    <3>1. Cardinality({v \in Procs : pc[v] = "project"}) = 0
      BY <1>2, LagIs
    <3>2. QED
      BY <3>1 DEF IInv, ProjectionLag, TypeOK
  <2>2. Cardinality({v \in Procs : pc'[v] = "project"}) \in {0, 1}
    <3>1. \A v \in Procs : pc'[v] = "project" => v = lock'
      BY <1>4 DEF LeaseInv
    <3>2. QED
      BY <3>1, LagIs
  <2>3. QED
    BY <1>1, <2>1, <2>2 DEF ProjectionLag, TypeOK
<1>6. JobInv(w)'
  <2>1. CASE Does(w, "project", NoJob)
    BY <1>1, <2>1, Did DEF JobInv
  <2>2. CASE /\ Does(w, "append", e) /\ e \in Events /\ Matches(e) /\ Continues(e)
             /\ Len(journal) < MaxEvents
    <3>1. pc'[w] = "append" /\ job'[w] = e
      BY <1>1, <2>2, Did
    <3>2. Continues(e)' /\ Matches(e)
      BY <1>1, <2>2, HistoryStays
    <3>3. Continues(job[w])' /\ Matches(job[w])'
      BY <3>1, <3>2, <1>1, <2>2 DEF Continues, Matches, EventsOf, LastOf
    <3>4. QED
      BY <1>1, <2>2, <3>1, <3>3 DEF JobInv
  <2>3. QED
    BY <2>1, <2>2
<1>7. \A p \in proposals' : Matches(p)
  BY <1>1 DEF IInv
<1>8. QED
  BY <1>1, <1>3, <1>4, <1>5, <1>6, <1>7, QuietStep

LEMMA RegisterKeeps ==
    ASSUME IInv, NEW w \in Procs, NEW m \in Models, Register(w, m)
    PROVE  IInv'
<1> DEFINE e == Event(m, Unregistered, "CANDIDATE", None)
<1>1. TypeOK /\ LastInv /\ Take(w) /\ UNCHANGED <<registry, evidence, crashes>>
  BY DEF IInv, Register
<1>2. CASE StateOf(m) = Unregistered
  <2>1. EventsOf(m) = {} /\ Does(w, "append", e) /\ Len(journal) < MaxEvents
    BY <1>1, <1>2, States DEF Register
  <2>2. /\ e \in Events /\ e.model = m /\ e.from = Unregistered
        /\ e.to = "CANDIDATE" /\ e.evidence = None
    BY EventTypes DEF MODEL_STATES
  <2>3. Matches(e) /\ Continues(e)
    BY <2>1, <2>2, DirectIsNoReceipt DEF Matches, Continues
  <2>4. QED
    BY <1>1, <2>1, <2>2, <2>3, TakeStep
<1>3. CASE StateOf(m) # Unregistered
  BY <1>1, <1>3, TakeStep DEF Register
<1>4. QED
  BY <1>2, <1>3

\* The edge starts where the journal says, whoever asked and on what grounds.
LEMMA TransitionKeeps ==
    ASSUME IInv, NEW w \in Procs, NEW m \in Models, NEW to \in MODEL_STATES,
           NEW g \in Receipts \cup {Direct, None},
           g \in Receipts => g.model = m /\ g.target = to /\ g \in receipts,
           Transition(w, m, to, g)
    PROVE  IInv'
<1> DEFINE e == Event(m, StateOf(m), to, g)
<1>1. TypeOK /\ LastInv /\ Take(w) /\ UNCHANGED <<registry, evidence, crashes>>
  BY DEF IInv, Transition
<1>2. CASE to \in Allowed(StateOf(m)) /\ Len(journal) < MaxEvents /\ Does(w, "append", e)
  <2>1. StateOf(m) \in MODEL_STATES /\ Unregistered \notin MODEL_STATES
    BY <1>2, AllowedEdges DEF MODEL_STATES, Unregistered
  <2>2. EventsOf(m) # {} /\ StateOf(m) = journal[LastOf(m)].to
    BY <1>1, <2>1, States
  <2>3. e \in Events /\ e.model = m /\ e.from = StateOf(m) /\ e.to = to /\ e.evidence = g
    BY <2>1, EventTypes
  <2>4. Matches(e) /\ Continues(e)
    BY <1>2, <2>2, <2>3 DEF Matches, Continues
  <2>5. QED
    BY <1>1, <1>2, <2>3, <2>4, TakeStep
<1>3. CASE Does(w, "project", NoJob)
  BY <1>1, <1>3, TakeStep
<1>4. QED
  BY <1>2, <1>3 DEF Transition

LEMMA DirectKeeps ==
    ASSUME IInv, NEW w \in Procs, NEW m \in Models, NEW to \in Targets,
           TransitionDirectly(w, m, to)
    PROVE  IInv'
BY TransitionKeeps, DirectIsNoReceipt DEF TransitionDirectly, Targets

LEMMA ApplyKeeps ==
    ASSUME IInv, NEW w \in Procs, ApplyTransition(w)
    PROVE  IInv'
<1> DEFINE p == job[w]
<1>1. /\ pc[w] = "apply" /\ p \in Events /\ Matches(p) /\ p.evidence \in receipts
      /\ Transition(w, p.model, p.to, p.evidence)
  BY DEF IInv, JobInv, ApplyTransition
<1>2. /\ p.model \in Models /\ p.to \in MODEL_STATES
      /\ p.evidence \in Receipts \cup {Direct, None}
  BY <1>1, EventTypes
<1>3. p.evidence \in Receipts =>
        p.evidence.model = p.model /\ p.evidence.target = p.to /\ p.evidence \in receipts
  BY <1>1 DEF Matches
<1> HIDE DEF p
<1>4. QED
  BY <1>1, <1>2, <1>3, TransitionKeeps

LEMMA RebuildKeeps ==
    ASSUME IInv, NEW w \in Procs, RebuildState(w)
    PROVE  IInv'
BY TakeStep DEF RebuildState

\* An append extends one model's history, from where that history ended.
LEMMA AppendKeeps ==
    ASSUME IInv, NEW w \in Procs, AppendEvent(w)
    PROVE  IInv'
<1> PICK e, n : e = job[w] /\ n = Len(journal) + 1
  OBVIOUS
<1>1. /\ TypeOK /\ LeaseInv /\ LastInv /\ JobInv(w) /\ ProjectionLag
      /\ LegalHistory /\ EvidenceOnRecord /\ ReplayedFirst
      /\ pc[w] = "append" /\ Does(w, "project", NoJob)
      /\ UNCHANGED <<torn, projected, lock, receipts, proposals, crashes>>
  BY DEF IInv, AppendEvent, evidence
<1>2. e \in Events /\ Matches(e) /\ Continues(e) /\ Len(journal) < MaxEvents
  BY <1>1 DEF JobInv
<1>3. /\ journal \in Seq(Events) /\ journal' = Append(journal, e)
      /\ Len(journal) \in Nat
  BY <1>1 DEF TypeOK, AppendEvent
<1>4. /\ journal' \in Seq(Events) /\ Len(journal') = n /\ journal'[n] = e
      /\ \A i \in 1..Len(journal) : journal'[i] = journal[i] /\ journal[i] \in Events
  BY <1>2, <1>3
<1>5. /\ pc'[w] = "project" /\ job'[w] = NoJob
      /\ \A v \in Procs \ {w} : pc'[v] = pc[v] /\ job'[v] = job[v]
  BY <1>1, Did
<1>6. TypeOK'
  <2>1. /\ pc' \in [Procs -> {"idle", "append", "project", "propose", "apply"}]
        /\ job' \in [Procs -> Events \cup {NoJob}]
    BY <1>1, Did
  <2>2. projected \in 0..Len(journal')  /\ Len(journal') <= MaxEvents
    BY <1>1, <1>2, <1>3, <1>4, BoundsAreNatural DEF TypeOK
  <2>3. QED
    BY <1>1, <1>4, <2>1, <2>2 DEF TypeOK
<1>7. LeaseInv'
  BY <1>1, <1>5 DEF LeaseInv
<1>8. \A v \in Procs \ {w} : pc[v] \notin {"append", "project"}
  BY <1>1 DEF LeaseInv
<1>9. \A v \in Procs : JobInv(v)'
  <2>1. ASSUME NEW v \in Procs \ {w} PROVE JobInv(v)'
    BY <1>1, <1>5, <1>8, <2>1 DEF IInv, JobInv, Matches
  <2>2. JobInv(w)'
    BY <1>5 DEF JobInv
  <2>3. QED
    BY <2>1, <2>2
<1>10. \A p \in proposals' : Matches(p)'
  BY <1>1 DEF IInv, Matches
<1>11. /\ \A i \in 1..Len(journal) : Before(i)' = Before(i) /\ Previous(i)' = Previous(i)
       /\ Before(n)' = EventsOf(e.model) /\ Previous(n)' = LastOf(e.model)
  <2>1. \A i \in 1..Len(journal) : Before(i)' = Before(i)
    BY <1>3, <1>4 DEF Before
  <2>2. Before(n)' = EventsOf(e.model)
    BY <1>3, <1>4 DEF Before, EventsOf
  <2>3. QED
    BY <2>1, <2>2 DEF Previous, LastOf
<1>12. \A m : EventsOf(m)' = IF m = e.model THEN EventsOf(m) \cup {n} ELSE EventsOf(m)
  BY <1>3, <1>4 DEF EventsOf
<1>13. e.model \in Models
  BY <1>2, EventTypes
<1>14. LastInv'
  <2>1. ASSUME NEW m \in Models PROVE HasLast(EventsOf(m))'
    <3>1. HasLast(EventsOf(m)) /\ EventsOf(m) \subseteq 1..Len(journal)
      BY <1>1 DEF LastInv, EventsOf
    <3>2. CASE m = e.model
      <4>1. EventsOf(m)' = EventsOf(m) \cup {n}
        BY <1>12, <3>2
      <4>2. \A j \in EventsOf(m)' : j <= n
        BY <1>3, <3>1, <4>1
      <4>3. QED
        BY <4>1, <4>2 DEF HasLast
    <3>3. CASE m # e.model
      BY <1>12, <3>1, <3>3 DEF HasLast
    <3>4. QED
      BY <3>2, <3>3
  <2>2. ASSUME NEW i \in 1..n PROVE HasLast(Before(i))'
    <3>1. CASE i \in 1..Len(journal)
      BY <1>1, <1>11, <3>1 DEF LastInv, HasLast
    <3>2. CASE i = n
      BY <1>1, <1>11, <1>13, <3>2 DEF LastInv, HasLast
    <3>3. QED
      BY <1>3, <3>1, <3>2
  <2>3. QED
    BY <1>4, <2>1, <2>2 DEF LastInv
<1>15. EventsOf(e.model) # {} => LastOf(e.model) \in 1..Len(journal)
  BY <1>1, <1>13, LastEvents DEF EventsOf
<1>16. LegalHistory'
  <2>1. ASSUME NEW i \in 1..Len(journal)
        PROVE  IF Before(i)' = {}
               THEN journal'[i].from = Unregistered /\ journal'[i].to = "CANDIDATE"
               ELSE /\ journal'[i].from = journal'[Previous(i)'].to
                    /\ journal'[i].to \in Allowed(journal'[i].from)
    <3>1. Before(i) # {} => Previous(i) \in 1..Len(journal)
      BY <1>1, <1>3, LastEvents DEF Before
    <3>2. QED
      BY <1>1, <1>4, <1>11, <3>1 DEF LegalHistory
  <2>2. IF Before(n)' = {}
        THEN journal'[n].from = Unregistered /\ journal'[n].to = "CANDIDATE"
        ELSE /\ journal'[n].from = journal'[Previous(n)'].to
             /\ journal'[n].to \in Allowed(journal'[n].from)
    BY <1>2, <1>4, <1>11, <1>15 DEF Continues
  <2>3. \A i \in 1..n : i \in 1..Len(journal) \/ i = n
    BY <1>3
  <2>4. QED
    BY <1>4, <2>1, <2>2, <2>3 DEF LegalHistory
<1>17. EvidenceOnRecord'
  <2>1. \A i \in 1..n : i \in 1..Len(journal) \/ i = n
    BY <1>3
  <2>2. QED
    BY <1>1, <1>2, <1>4, <2>1 DEF EvidenceOnRecord, Continues, Matches
<1>18. ReplayedFirst'
  <2> DEFINE RQ(m, k) == \E j \in 1..k : journal[j].model = m /\ journal[j].to = "REPLAY_QUALIFIED"
  <2>1. e.to \in Later => RQ(e.model, Len(journal))
    <3> SUFFICES ASSUME e.to \in Later PROVE RQ(e.model, Len(journal))
      OBVIOUS
    <3> DEFINE k == LastOf(e.model)
    <3>1. EventsOf(e.model) # {}
      BY <1>2 DEF Continues, Later
    <3>2. /\ e.to \in Allowed(journal[k].to)
      BY <1>2, <3>1 DEF Continues
    <3>3. k \in 1..Len(journal) /\ journal[k].model = e.model
      BY <1>1, <1>13, <3>1, LastEvents DEF EventsOf
    <3>4. journal[k].to = "REPLAY_QUALIFIED" \/ journal[k].to \in Later
      BY <3>2, AllowedEdges DEF Later
    <3>5. CASE journal[k].to = "REPLAY_QUALIFIED"
      BY <3>3, <3>5
    <3>6. CASE journal[k].to \in Later
      <4>1. RQ(e.model, k - 1)
        BY <1>1, <3>3, <3>6 DEF ReplayedFirst, Reached
      <4>2. \A j \in 1..(k - 1) : j \in 1..Len(journal)
        BY <1>3, <3>3
      <4>3. QED
        BY <4>1, <4>2
    <3>7. QED
      BY <3>4, <3>5, <3>6
  <2>2. ASSUME NEW i \in 1..Len(journal), journal'[i].to \in Later
        PROVE  Reached(journal[i].model, "REPLAY_QUALIFIED", i - 1)'
    <3>1. RQ(journal[i].model, i - 1)
      BY <1>1, <1>4, <2>2 DEF ReplayedFirst, Reached
    <3>2. \A j \in 1..(i - 1) : j \in 1..Len(journal)
      BY <1>3
    <3>3. QED
      BY <1>4, <3>1, <3>2 DEF Reached
  <2>3. journal'[n].to \in Later => Reached(journal[n].model, "REPLAY_QUALIFIED", n - 1)'
    <3>1. n - 1 = Len(journal)
      BY <1>3
    <3>2. QED
      BY <1>4, <2>1, <3>1 DEF Reached
  <2>4. \A i \in 1..n : i \in 1..Len(journal) \/ i = n
    BY <1>3
  <2>5. QED
    BY <1>4, <2>2, <2>3, <2>4 DEF ReplayedFirst
<1>19. ProjectionLag'
  <2>1. Cardinality({v \in Procs : pc[v] = "project"}) = 0
    BY <1>1, <1>8, LagIs
  <2>2. Cardinality({v \in Procs : pc'[v] = "project"}) = 1
    <3>1. \A v \in Procs : pc'[v] = "project" => v = w
      BY <1>5, <1>8
    <3>2. QED
      BY <1>5, <3>1, LagIs
  <2>3. QED
    BY <1>1, <1>3, <1>4, <2>1, <2>2 DEF ProjectionLag, TypeOK
<1>20. QED
  BY <1>6, <1>7, <1>9, <1>10, <1>14, <1>16, <1>17, <1>18, <1>19 DEF IInv

LEMMA ProjectKeeps ==
    ASSUME IInv, NEW w \in Procs, Project(w)
    PROVE  IInv'
<1>1. /\ TypeOK /\ LeaseInv /\ pc[w] = "project" /\ lock = w /\ lock' = None
      /\ projected' = Len(journal) /\ Does(w, "idle", NoJob)
      /\ UNCHANGED <<journal, torn, receipts, proposals, crashes>>
  BY DEF IInv, Project, Return, evidence, LeaseInv
<1>2. /\ pc'[w] = "idle" /\ job'[w] = NoJob
      /\ \A v \in Procs \ {w} : pc'[v] = pc[v] /\ job'[v] = job[v]
  BY <1>1, Did
<1>3. \A v \in Procs : pc'[v] \notin {"append", "project"}
  BY <1>1, <1>2 DEF LeaseInv
<1>4. TypeOK'
  <2>1. Len(journal) \in 0..Len(journal)
    BY <1>1 DEF TypeOK
  <2>2. QED
    BY <1>1, <2>1, Did DEF TypeOK
<1>5. LeaseInv'
  BY <1>1, <1>3, DirectIsNoReceipt DEF LeaseInv
<1>6. ProjectionLag'
  <2>1. Cardinality({v \in Procs : pc'[v] = "project"}) = 0
    BY <1>3, LagIs
  <2>2. QED
    BY <1>1, <2>1 DEF ProjectionLag, TypeOK
<1>7. JobInv(w)' /\ \A p \in proposals' : Matches(p)
  BY <1>1, <1>2 DEF IInv, JobInv
<1>8. QED
  BY <1>1, <1>2, <1>4, <1>5, <1>6, <1>7, QuietStep

\* What a process does without the lease: look, decide, persist, give up.
LEMMA OutsideStep ==
    ASSUME IInv, NEW w \in Procs, NEW s \in {"idle", "propose", "apply"}, NEW b,
           pc[w] \notin {"append", "project"}, Does(w, s, b),
           UNCHANGED <<registry, lock, receipts, crashes>>,
           \/ b \in Events /\ Matches(b)
           \/ b = NoJob /\ s = "idle",
           s = "apply" => b.evidence \in receipts,
           proposals' \subseteq Events, \A p \in proposals' : Matches(p)
    PROVE  IInv'
<1>1. /\ TypeOK /\ LeaseInv /\ ProjectionLag
      /\ UNCHANGED <<journal, torn, projected, lock, receipts, crashes>>
  BY DEF IInv, registry
<1>2. /\ pc'[w] = s /\ job'[w] = b
      /\ \A v \in Procs \ {w} : pc'[v] = pc[v] /\ job'[v] = job[v]
  BY <1>1, Did
<1>3. TypeOK'
  BY <1>1, Did DEF TypeOK
<1>4. LeaseInv'
  BY <1>1, <1>2 DEF LeaseInv
<1>5. ProjectionLag'
  <2>1. {v \in Procs : pc'[v] = "project"} = {v \in Procs : pc[v] = "project"}
    BY <1>2
  <2>2. QED
    BY <1>1, <2>1 DEF ProjectionLag
<1>6. JobInv(w)'
  BY <1>1, <1>2 DEF JobInv, Matches
<1>7. QED
  BY <1>1, <1>2, <1>3, <1>4, <1>5, <1>6, QuietStep

LEMMA ReceiptKeeps ==
    ASSUME IInv, NEW r \in Receipts, PersistReceipt(r)
    PROVE  IInv'
<1>1. /\ TypeOK /\ receipts' = receipts \cup {r}
      /\ UNCHANGED <<journal, torn, projected, lock, pc, job, proposals, crashes>>
  BY DEF IInv, PersistReceipt, registry
<1>2. TypeOK'
  BY <1>1 DEF TypeOK
<1>3. LeaseInv' /\ ProjectionLag' /\ \A p \in proposals' : Matches(p)'
  BY <1>1 DEF IInv, LeaseInv, ProjectionLag, Matches
<1>4. \A v \in Procs : JobInv(v)'
  BY <1>1, JobStays
<1>5. QED
  BY <1>1, <1>2, <1>3, <1>4, HistoryStays DEF IInv

LEMMA BuildKeeps ==
    ASSUME IInv, NEW w \in Procs, NEW r \in Receipts, BuildProposal(w, r)
    PROVE  IInv'
<1> DEFINE p == Event(r.model, StateOf(r.model), r.target, r)
<1>1. /\ TypeOK /\ LastInv /\ pc[w] = "idle" /\ Does(w, "propose", p)
      /\ UNCHANGED <<registry, lock, receipts, proposals, crashes>>
  BY DEF IInv, BuildProposal, evidence
<1>2. r.model \in Models /\ r.target \in MODEL_STATES
  BY EventTypes
<1>3. StateOf(r.model) \in MODEL_STATES \cup {Unregistered}
  BY <1>1, <1>2, States
<1>4. p \in Events /\ Matches(p)
  <2>1. p \in Events
    BY <1>2, <1>3, EventTypes
  <2>2. p.model = r.model /\ p.to = r.target /\ p.evidence = r
    BY DEF Event
  <2>3. QED
    BY <2>1, <2>2 DEF Matches
<1>5. proposals' \subseteq Events /\ \A q \in proposals' : Matches(q)
  BY <1>1 DEF IInv, TypeOK
<1> HIDE DEF p
<1>6. QED
  BY <1>1, <1>4, <1>5, OutsideStep

LEMMA PersistKeeps ==
    ASSUME IInv, NEW w \in Procs, PersistProposal(w)
    PROVE  IInv'
<1>1. /\ pc[w] = "propose" /\ Does(w, "idle", NoJob) /\ proposals' = proposals \cup {job[w]}
      /\ UNCHANGED <<registry, lock, receipts, crashes>>
  BY DEF PersistProposal, Return
<1>2. /\ proposals \subseteq Events /\ \A p \in proposals : Matches(p)
      /\ job[w] \in Events /\ Matches(job[w])
  BY <1>1 DEF IInv, TypeOK, JobInv
<1>3. proposals' \subseteq Events /\ \A p \in proposals' : Matches(p)
  BY <1>1, <1>2
<1>4. QED
  BY <1>1, <1>3, OutsideStep

LEMMA CheckKeeps ==
    ASSUME IInv, NEW w \in Procs, NEW p \in proposals, ApplyCheck(w, p)
    PROVE  IInv'
<1>1. /\ pc[w] = "idle" /\ Does(w, "apply", p) /\ p.evidence \in receipts
      /\ UNCHANGED <<registry, lock, receipts, proposals, crashes>>
  BY DEF ApplyCheck, evidence
<1>2. proposals \subseteq Events /\ \A q \in proposals : Matches(q)
  BY DEF IInv, TypeOK
<1>3. QED
  BY <1>1, <1>2, OutsideStep

LEMMA RefusedKeeps ==
    ASSUME IInv, NEW w \in Procs, ApplyRefused(w)
    PROVE  IInv'
<1>1. /\ pc[w] = "apply" /\ Does(w, "idle", NoJob)
      /\ UNCHANGED <<registry, lock, receipts, proposals, crashes>>
  BY DEF ApplyRefused, Return, evidence
<1>2. proposals' \subseteq Events /\ \A q \in proposals' : Matches(q)
  BY <1>1 DEF IInv, TypeOK
<1>3. QED
  BY <1>1, <1>2, OutsideStep

\* A death between the two writes leaves the projection one event behind.
LEMMA CrashKeeps ==
    ASSUME IInv, NEW w \in Procs, Crash(w)
    PROVE  IInv'
<1>1. /\ TypeOK /\ LeaseInv /\ ProjectionLag /\ Does(w, "idle", NoJob)
      /\ crashes < MaxCrashes /\ crashes' = crashes + 1 /\ torn' \in BOOLEAN
      /\ lock' = IF lock = w THEN None ELSE lock
      /\ UNCHANGED <<journal, projected, receipts, proposals>>
  BY DEF IInv, Crash, Return, evidence, TypeOK
<1>2. /\ pc'[w] = "idle" /\ job'[w] = NoJob
      /\ \A v \in Procs \ {w} : pc'[v] = pc[v] /\ job'[v] = job[v]
  BY <1>1, Did
<1>3. TypeOK'
  <2>1. crashes' \in 0..MaxCrashes
    BY <1>1, BoundsAreNatural DEF TypeOK
  <2>2. QED
    BY <1>1, <2>1, Did DEF TypeOK
<1>4. LeaseInv'
  BY <1>1, <1>2, DirectIsNoReceipt DEF LeaseInv
<1>5. ProjectionLag'
  <2>1. \A v \in Procs : pc[v] = "project" => v = lock
    BY <1>1 DEF LeaseInv
  <2>2. \A v \in Procs : pc'[v] = "project" => v = lock'
    BY <1>4 DEF LeaseInv
  <2>3. Cardinality({v \in Procs : pc[v] = "project"}) \in {0, 1}
    BY <2>1, LagIs
  <2>4. Cardinality({v \in Procs : pc'[v] = "project"}) \in {0, 1}
    BY <2>2, LagIs
  <2>5. QED
    BY <1>1, <2>3, <2>4 DEF ProjectionLag, TypeOK
<1>6. JobInv(w)' /\ \A p \in proposals' : Matches(p)
  BY <1>1, <1>2 DEF IInv, JobInv
<1>7. QED
  BY <1>1, <1>2, <1>3, <1>4, <1>5, <1>6, QuietStep

-----------------------------------------------------------------------------
(* The invariant, and what it says of the history.                          *)

LEMMA LifecycleStep == IInv /\ [Next]_vars => IInv'
<1> SUFFICES ASSUME IInv, [Next]_vars PROVE IInv'
  OBVIOUS
<1>1. CASE UNCHANGED vars
  <2>1. /\ TypeOK' /\ LeaseInv' /\ ProjectionLag'
        /\ UNCHANGED <<journal, receipts, proposals, pc, job>>
    BY <1>1 DEF IInv, vars, registry, evidence, TypeOK, LeaseInv, ProjectionLag
  <2>2. \A v \in Procs : JobInv(v)'
    BY <2>1, JobStays
  <2>3. QED
    BY <2>1, <2>2, HistoryStays DEF IInv, Matches
<1>2. ASSUME NEW r \in Receipts, PersistReceipt(r) PROVE IInv'
  BY <1>2, ReceiptKeeps
<1>3. ASSUME NEW w \in Procs, NEW m \in Models, Register(w, m) PROVE IInv'
  BY <1>3, RegisterKeeps
<1>4. ASSUME NEW w \in Procs, NEW m \in Models, NEW to \in Targets,
             TransitionDirectly(w, m, to)
      PROVE  IInv'
  BY <1>4, DirectKeeps
<1>5. ASSUME NEW w \in Procs, NEW r \in Receipts, BuildProposal(w, r) PROVE IInv'
  BY <1>5, BuildKeeps
<1>6. ASSUME NEW w \in Procs, NEW p \in proposals, ApplyCheck(w, p) PROVE IInv'
  BY <1>6, CheckKeeps
<1>7. ASSUME NEW w \in Procs,
             \/ RebuildState(w) \/ AppendEvent(w) \/ Project(w)
             \/ PersistProposal(w) \/ ApplyTransition(w) \/ ApplyRefused(w)
             \/ Crash(w)
      PROVE  IInv'
  BY <1>7, RebuildKeeps, AppendKeeps, ProjectKeeps, PersistKeeps, ApplyKeeps,
     RefusedKeeps, CrashKeeps
<1>8. QED
  BY <1>1, <1>2, <1>3, <1>4, <1>5, <1>6, <1>7 DEF Next

LEMMA ServiceFollowsShadow == IInv => QualifiedWasShadowed
<1> SUFFICES ASSUME IInv, NEW i \in 1..Len(journal), journal[i].to = "QUALIFIED"
             PROVE  \E j \in 1..(i - 1) :
                       /\ journal[j].model = journal[i].model /\ journal[j].to = "SHADOW"
                       /\ Reached(journal[i].model, "REPLAY_QUALIFIED", j - 1)
  BY DEF QualifiedWasShadowed
<1> DEFINE j == Previous(i)
<1>1. Before(i) # {}
  BY DEF IInv, LegalHistory
<1>2. /\ journal[i].from = journal[j].to
      /\ journal[i].to \in Allowed(journal[i].from)
  BY <1>1 DEF IInv, LegalHistory
<1>3. j \in 1..(i - 1) /\ journal[j].model = journal[i].model
  BY <1>1, LastEvents DEF IInv, Before
<1>4. journal[j].to = "SHADOW"
  BY <1>2, AllowedEdges
<1>5. j \in 1..Len(journal)
  BY <1>3 DEF IInv, TypeOK
<1>6. Reached(journal[j].model, "REPLAY_QUALIFIED", j - 1)
  BY <1>4, <1>5 DEF IInv, ReplayedFirst, Later
<1>7. QED
  BY <1>3, <1>4, <1>6

\* In every reachable state the journal is a legal history of every model: one
\* registration, then only allowed edges, each on evidence that is on record,
\* none into service without replay and shadow before it, and a projection
\* that lags by the deaths and the writer in flight alone.
THEOREM LegalHistories == Spec => [](TypeOK /\ HistoryIsLegal)
<1>1. IInv => TypeOK /\ HistoryIsLegal
  BY ServiceFollowsShadow DEF IInv, HistoryIsLegal
<1>2. QED
  BY <1>1, LifecycleStart, LifecycleStep, PTL DEF Spec

-----------------------------------------------------------------------------
(* The registry of questions.  A builder takes a snapshot and makes another,*)
(* so each lemma is about snapshots and none about a state.                 *)

Resolvers == {Resolver(q) : q \in Canonical} \cup Others \cup {Nothing}
Entries == [definition : {"canonical", "changed"},
            state : {"DEFINED", "RESOLVER_READY", "QUALIFIED", "RETIRED"},
            registered : Instants, effective : Instants,
            resolver : Resolvers, evidence : BOOLEAN]

Typed(s) == DOMAIN s.entries \subseteq Canonical /\ s.entries \in [DOMAIN s.entries -> Entries]

\* The relation of two snapshots that HistoryIsKept states of every step.
KeepsEntry(e, f) ==
    /\ f.definition = e.definition /\ f.registered = e.registered
    /\ <<e.state, f.state>> \in Onward
    /\ e.resolver = Nothing \/ f.resolver = e.resolver
Keeps(s, t) ==
    \A q \in DOMAIN s.entries :
        q \in DOMAIN t.entries /\ KeepsEntry(s.entries[q], t.entries[q])

RegistryInv ==
    /\ Typed(questions) /\ LawfulSnapshot(questions)
    /\ \A q \in everReady : /\ q \in DOMAIN questions.entries
                            /\ questions.entries[q].state \in {"RESOLVER_READY", "RETIRED"}
    /\ certificate # Nothing => LawfulSnapshot(certificate) /\ SemanticGuards(certificate)

LEMMA EntryMade ==
    ASSUME NEW a \in {"DEFINED", "RESOLVER_READY"}, NEW i \in Instants, NEW k \in Instants,
           NEW r \in Resolvers
    PROVE  Entry(a, i, k, r) \in Entries /\ Entry(a, i, k, r).state = a
BY DEF Entry, Entries

ReadyEntry(e, k, r) == [e EXCEPT !.state = "RESOLVER_READY", !.effective = k, !.resolver = r]
RetiredEntry(e, k) == [e EXCEPT !.state = "RETIRED", !.effective = k]

LEMMA MadeReady ==
    ASSUME NEW e \in Entries, NEW k \in Instants, NEW r \in Resolvers,
           NEW f, f = ReadyEntry(e, k, r)
    PROVE  /\ f \in Entries /\ f.definition = e.definition /\ f.registered = e.registered
           /\ f.state = "RESOLVER_READY" /\ f.resolver = r
BY DEF Entries, ReadyEntry

LEMMA Retired ==
    ASSUME NEW e \in Entries, NEW k \in Instants,
           NEW f, f = RetiredEntry(e, k)
    PROVE  /\ f \in Entries /\ f.definition = e.definition /\ f.registered = e.registered
           /\ f.state = "RETIRED" /\ f.resolver = e.resolver
BY DEF Entries, RetiredEntry

\* The two entries that a registry made by hand has in place of the catalogue's.
LEMMA ByHandEntries ==
    ASSUME NEW e \in Entries, NEW r \in Resolvers
    PROVE  /\ [e EXCEPT !.definition = "changed"] \in Entries
           /\ [e EXCEPT !.state = "QUALIFIED", !.resolver = r, !.evidence = TRUE] \in Entries
BY DEF Entries

LEMMA EntryStays == \A e \in Entries : KeepsEntry(e, e)
BY DEF Entries, KeepsEntry, Onward

LEMMA OverBase ==
    ASSUME NEW base, NEW new,
           Typed(base), DOMAIN new \subseteq Canonical, \A q \in DOMAIN new : new[q] \in Entries,
           NEW s, s.entries = Over(base, new)
    PROVE  /\ Typed(s) /\ DOMAIN s.entries = DOMAIN base.entries \cup DOMAIN new
           /\ \A q \in DOMAIN new : s.entries[q] = new[q]
           /\ \A q \in DOMAIN base.entries \ DOMAIN new : s.entries[q] = base.entries[q]
BY DEF Over, Typed

LEMMA PromoteSnapshot ==
    ASSUME NEW base, Typed(base), LawfulSnapshot(base), NEW version,
           NEW known \in Instants, NEW effective \in Instants, NEW mapping,
           \A q \in DOMAIN mapping : mapping[q] \in Resolvers,
           NEW s \in Promote(base, version, known, effective, mapping)
    PROVE  /\ Typed(s) /\ LawfulSnapshot(s) /\ Keeps(base, s)
           /\ DOMAIN s.entries = DOMAIN base.entries
<1> DEFINE new == [q \in DOMAIN mapping |->
                     [base.entries[q] EXCEPT !.state = "RESOLVER_READY", !.effective = effective,
                                             !.resolver = mapping[q]]]
<1>1. /\ LawfulSnapshot(s) /\ s.entries = Over(base, new)
      /\ DOMAIN mapping \subseteq DOMAIN base.entries
      /\ \A q \in DOMAIN mapping :
           \/ base.entries[q].state = "DEFINED"
           \/ base.entries[q].state = "RESOLVER_READY" /\ base.entries[q].resolver = mapping[q]
  <2>1. /\ LawfulSnapshot(s) /\ s = Snapshot(version, known, effective, Over(base, new))
        /\ DOMAIN mapping \subseteq DOMAIN base.entries
        /\ \A q \in DOMAIN mapping :
             \/ base.entries[q].state = "DEFINED"
             \/ base.entries[q].state = "RESOLVER_READY" /\ base.entries[q].resolver = mapping[q]
    BY Zenon DEF Promote, Built
  <2>2. s.entries = Over(base, new)
    BY <2>1 DEF Snapshot
  <2>3. QED
    BY <2>1, <2>2
<1>2. ASSUME NEW q \in DOMAIN mapping
      PROVE  new[q] \in Entries /\ KeepsEntry(base.entries[q], new[q])
  <2>1. base.entries[q] \in Entries /\ mapping[q] \in Resolvers /\ LawfulEntry(base.entries[q])
    BY <1>1, <1>2 DEF Typed, LawfulSnapshot
  <2>2. /\ new[q] \in Entries /\ new[q].definition = base.entries[q].definition
        /\ new[q].registered = base.entries[q].registered
        /\ new[q].state = "RESOLVER_READY" /\ new[q].resolver = mapping[q]
    <3>1. new[q] = ReadyEntry(base.entries[q], effective, mapping[q])
      BY <1>2 DEF ReadyEntry
    <3>2. PICK f : f = ReadyEntry(base.entries[q], effective, mapping[q])
      OBVIOUS
    <3>3. /\ f \in Entries /\ f.definition = base.entries[q].definition
          /\ f.registered = base.entries[q].registered
          /\ f.state = "RESOLVER_READY" /\ f.resolver = mapping[q]
      BY <2>1, <3>2, MadeReady
    <3>4. QED
      BY <3>1, <3>2, <3>3
  <2>3. QED
    BY <1>1, <1>2, <2>1, <2>2 DEF KeepsEntry, Onward, LawfulEntry
<1> HIDE DEF new
<1>3. DOMAIN new = DOMAIN mapping /\ DOMAIN mapping \subseteq Canonical
  BY <1>1 DEF new, Typed
<1>4. /\ Typed(s) /\ DOMAIN s.entries = DOMAIN base.entries
      /\ \A q \in DOMAIN mapping : s.entries[q] = new[q]
      /\ \A q \in DOMAIN base.entries \ DOMAIN mapping : s.entries[q] = base.entries[q]
  <2>1. DOMAIN new \subseteq Canonical /\ \A q \in DOMAIN new : new[q] \in Entries
    BY <1>2, <1>3
  <2>2. /\ Typed(s) /\ DOMAIN s.entries = DOMAIN base.entries \cup DOMAIN new
        /\ \A q \in DOMAIN new : s.entries[q] = new[q]
        /\ \A q \in DOMAIN base.entries \ DOMAIN new : s.entries[q] = base.entries[q]
    <3>1. s.entries = Over(base, new)
      BY <1>1
    <3>2. QED
      BY <2>1, <3>1, OverBase
  <2>3. QED
    BY <1>1, <1>3, <2>2
<1>5. Keeps(base, s)
  BY <1>2, <1>4, EntryStays DEF Keeps, Typed
<1>6. QED
  BY <1>1, <1>4, <1>5

LEMMA AddSnapshot ==
    ASSUME NEW base, Typed(base), NEW version,
           NEW known \in Instants, NEW effective \in Instants,
           NEW s \in AddSignReversal(base, version, known, effective)
    PROVE  /\ Typed(s) /\ LawfulSnapshot(s)
           /\ SignReversal \notin DOMAIN base.entries
           /\ DOMAIN base.entries \subseteq DOMAIN s.entries
           /\ \A q \in DOMAIN base.entries : s.entries[q] = base.entries[q]
<1> DEFINE new == [q \in {SignReversal} |-> Entry("RESOLVER_READY", known, effective, Resolver(q))]
<1>1. /\ LawfulSnapshot(s) /\ s.entries = Over(base, new)
      /\ SignReversal \notin DOMAIN base.entries
  BY DEF AddSignReversal, Built, Snapshot
<1>2. \A q \in {SignReversal} : new[q] \in Entries /\ q \in Canonical
  BY EntryMade DEF Resolvers, Canonical, Reversals
<1> HIDE DEF new
<1>3. DOMAIN new = {SignReversal}
  BY DEF new
<1>4. QED
  BY <1>1, <1>2, <1>3, OverBase

LEMMA SupersedeSnapshot ==
    ASSUME NEW base, Typed(base), LawfulSnapshot(base), NEW version,
           NEW known \in Instants, NEW effective \in Instants,
           NEW s \in SupersedeSignReversal(base, version, known, effective)
    PROVE  /\ Typed(s) /\ LawfulSnapshot(s) /\ Keeps(base, s)
           /\ DOMAIN base.entries \subseteq DOMAIN s.entries
           /\ \A q \in DOMAIN base.entries \ {SignReversal} : s.entries[q] = base.entries[q]
<1> DEFINE new == [q \in {SignReversal, MaterialReversal} |->
                     IF q = MaterialReversal
                     THEN Entry("RESOLVER_READY", known, effective, Resolver(q))
                     ELSE [base.entries[q] EXCEPT !.state = "RETIRED", !.effective = effective]]
<1>1. /\ LawfulSnapshot(s) /\ s.entries = Over(base, new)
      /\ SignReversal \in DOMAIN base.entries /\ MaterialReversal \notin DOMAIN base.entries
      /\ base.entries[SignReversal].state = "RESOLVER_READY"
  BY DEF SupersedeSignReversal, Built, Snapshot
<1>2. /\ SignReversal \in Canonical /\ MaterialReversal \in Canonical
      /\ SignReversal # MaterialReversal
  BY DEF Canonical, Reversals, SignReversal, MaterialReversal
<1>3. new[MaterialReversal] \in Entries
  BY <1>2, EntryMade DEF Resolvers
<1>4. new[SignReversal] \in Entries /\ KeepsEntry(base.entries[SignReversal], new[SignReversal])
  <2>1. /\ base.entries[SignReversal] \in Entries
        /\ new[SignReversal] = RetiredEntry(base.entries[SignReversal], effective)
    BY <1>1, <1>2 DEF Typed, RetiredEntry
  <2>2. PICK f : f = RetiredEntry(base.entries[SignReversal], effective)
    OBVIOUS
  <2>3. /\ f \in Entries /\ f.definition = base.entries[SignReversal].definition
        /\ f.registered = base.entries[SignReversal].registered
        /\ f.state = "RETIRED" /\ f.resolver = base.entries[SignReversal].resolver
    BY <2>1, <2>2, Retired
  <2>4. f \in Entries /\ KeepsEntry(base.entries[SignReversal], f)
    BY <1>1, <2>3 DEF KeepsEntry, Onward
  <2>5. QED
    BY <2>1, <2>2, <2>4
<1> HIDE DEF new
<1>5. DOMAIN new = {SignReversal, MaterialReversal}
  BY DEF new
<1>6. /\ Typed(s) /\ DOMAIN s.entries = DOMAIN base.entries \cup {SignReversal, MaterialReversal}
      /\ s.entries[SignReversal] = new[SignReversal]
      /\ \A q \in DOMAIN base.entries \ {SignReversal, MaterialReversal} : s.entries[q] = base.entries[q]
  <2>1. DOMAIN new \subseteq Canonical /\ \A q \in DOMAIN new : new[q] \in Entries
    BY <1>2, <1>3, <1>4, <1>5
  <2>2. QED
    BY <1>1, <1>5, <2>1, OverBase
<1>7. Keeps(base, s)
  BY <1>1, <1>4, <1>6, EntryStays DEF Keeps, Typed
<1>8. QED
  BY <1>1, <1>6, <1>7

\* The three stages in one call: version 1.1 comes and goes within it.
LEMMA QualifiedSnapshot ==
    ASSUME NEW base, Typed(base), LawfulSnapshot(base),
           NEW known \in Instants, NEW effective \in Instants,
           NEW s \in BuildQualified(base, known, effective)
    PROVE  Typed(s) /\ LawfulSnapshot(s) /\ Keeps(base, s)
<1>0. PICK ready \in Promote(base, "stage", known, effective, ResolversV1) :
        \E signed \in AddSignReversal(ready, "stage", known, effective) :
          s \in SupersedeSignReversal(signed, "qualified", known, effective)
  BY DEF BuildQualified
<1>1. PICK signed \in AddSignReversal(ready, "stage", known, effective) :
        s \in SupersedeSignReversal(signed, "qualified", known, effective)
  BY <1>0
<1>2. \A q \in DOMAIN ResolversV1 : ResolversV1[q] \in Resolvers
  BY DEF ResolversV1, Resolvers, Canonical
<1>3. /\ Typed(ready) /\ LawfulSnapshot(ready) /\ Keeps(base, ready)
      /\ DOMAIN ready.entries = DOMAIN base.entries
  BY <1>1, <1>2, PromoteSnapshot
<1>4. /\ Typed(signed) /\ LawfulSnapshot(signed)
      /\ SignReversal \notin DOMAIN ready.entries
      /\ DOMAIN ready.entries \subseteq DOMAIN signed.entries
      /\ \A q \in DOMAIN ready.entries : signed.entries[q] = ready.entries[q]
  BY <1>1, <1>3, AddSnapshot
<1>5. /\ Typed(s) /\ LawfulSnapshot(s) /\ DOMAIN signed.entries \subseteq DOMAIN s.entries
      /\ \A q \in DOMAIN signed.entries \ {SignReversal} : s.entries[q] = signed.entries[q]
  BY <1>1, <1>4, SupersedeSnapshot
<1>6. Keeps(base, s)
  BY <1>3, <1>4, <1>5 DEF Keeps
<1>7. QED
  BY <1>5, <1>6

LEMMA RegistryStart == RegistryInit => RegistryInv
<1> SUFFICES ASSUME RegistryInit PROVE RegistryInv
  OBVIOUS
<1>1. PICK known \in Instants, effective \in Instants :
        /\ questions \in {CatalogRegistry(known, effective)} \cup ByHand(CatalogRegistry(known, effective))
        /\ LawfulSnapshot(questions)
  BY DEF RegistryInit
<1> DEFINE c == CatalogRegistry(known, effective)
<1>2. /\ DOMAIN c.entries = Catalog /\ Catalog \subseteq Canonical
      /\ \A q \in Catalog : c.entries[q] \in Entries
      /\ c.entries \in [Catalog -> Entries]
  <2>1. c.entries = [q \in Catalog |-> Entry("DEFINED", known, effective, Nothing)]
    BY DEF CatalogRegistry, Snapshot
  <2>2. Entry("DEFINED", known, effective, Nothing) \in Entries
    BY EntryMade DEF Resolvers
  <2>3. QED
    BY <2>1, <2>2 DEF Catalog, Canonical, Reversals
<1>3. c = [version |-> "any", known |-> known, effective |-> effective, entries |-> c.entries]
  BY DEF CatalogRegistry, Snapshot
<1> HIDE DEF c
<1>4. Typed(questions)
  <2>1. CASE questions = c
    BY <1>2, <2>1 DEF Typed
  <2>2. ASSUME NEW q \in Catalog, NEW e \in Entries,
               questions = [c EXCEPT !.entries[q] = e]
        PROVE  Typed(questions)
    <3>1. questions.entries = [c.entries EXCEPT ![q] = e]
      BY <1>3, <2>2
    <3>2. QED
      BY <1>2, <2>2, <3>1 DEF Typed
  <2>3. ASSUME NEW q \in Catalog
        PROVE  /\ [c.entries[q] EXCEPT !.definition = "changed"] \in Entries
               /\ [c.entries[q] EXCEPT !.state = "QUALIFIED", !.resolver = Resolver(q), !.evidence = TRUE] \in Entries
    <3>1. c.entries[q] \in Entries /\ Resolver(q) \in Resolvers
      BY <1>2 DEF Resolvers
    <3>2. QED
      BY <3>1, ByHandEntries
  <2>4. CASE questions \in ByHand(c)
    <3>1. PICK q \in Catalog :
            \/ questions = [c EXCEPT !.entries[q] = [c.entries[q] EXCEPT !.definition = "changed"]]
            \/ questions = [c EXCEPT !.entries[q] =
                              [c.entries[q] EXCEPT !.state = "QUALIFIED", !.resolver = Resolver(q), !.evidence = TRUE]]
      BY <1>2, <1>3, <2>4 DEF ByHand
    <3>2. QED
      BY <2>2, <2>3, <3>1
  <2>5. QED
    BY <1>1, <2>1, <2>4 DEF c
<1>5. QED
  BY <1>1, <1>4 DEF RegistryInv, RegistryInit

\* Whatever a builder makes of the latest snapshot becomes the latest.
LEMMA EvolveKeeps ==
    ASSUME RegistryInv, NEW S, Evolve(S),
           \A s \in S : Typed(s) /\ LawfulSnapshot(s) /\ Keeps(questions, s)
    PROVE  RegistryInv' /\ Keeps(questions, questions')
<1>1. PICK s \in S : questions' = s /\ everReady' = everReady \cup Ready(s)
  BY DEF Evolve
<1>2. /\ Typed(s) /\ LawfulSnapshot(s) /\ Keeps(questions, s) /\ certificate' = certificate
  BY DEF Evolve
<1>3. \A q \in everReady' : q \in DOMAIN s.entries /\ s.entries[q].state \in {"RESOLVER_READY", "RETIRED"}
  <2>1. ASSUME NEW q \in everReady
        PROVE  q \in DOMAIN s.entries /\ s.entries[q].state \in {"RESOLVER_READY", "RETIRED"}
    BY <1>2, <2>1 DEF RegistryInv, Keeps, KeepsEntry, Onward
  <2>2. QED
    BY <1>1, <2>1 DEF Ready
<1>4. RegistryInv'
  <2>1. Typed(questions)' /\ LawfulSnapshot(questions)'
    BY <1>1, <1>2
  <2>2. (certificate # Nothing => LawfulSnapshot(certificate) /\ SemanticGuards(certificate))'
    BY <1>2 DEF RegistryInv
  <2>3. QED
    BY <1>1, <1>3, <2>1, <2>2 DEF RegistryInv
<1>5. QED
  BY <1>1, <1>2, <1>4

LEMMA RegistryStep ==
    ASSUME RegistryInv, [RegistryNext]_registryVars
    PROVE  RegistryInv' /\ (questions' = questions \/ Keeps(questions, questions'))
<1>1. Typed(questions) /\ LawfulSnapshot(questions)
  BY DEF RegistryInv
<1>2. ASSUME NEW known \in Instants, NEW effective \in Instants, NEW version, NEW mapping \in Mappings,
             Evolve(Promote(questions, version, known, effective, mapping))
      PROVE  RegistryInv' /\ Keeps(questions, questions')
  <2>1. \A q \in DOMAIN mapping : mapping[q] \in Resolvers
    BY <1>1 DEF Mappings, Typed, Resolvers
  <2>2. QED
    BY <1>1, <1>2, <2>1, PromoteSnapshot, EvolveKeeps
<1>3. ASSUME NEW known \in Instants, NEW effective \in Instants, NEW version,
             Evolve(AddSignReversal(questions, version, known, effective))
      PROVE  RegistryInv' /\ Keeps(questions, questions')
  <2>1. ASSUME NEW s \in AddSignReversal(questions, version, known, effective)
        PROVE  Typed(s) /\ LawfulSnapshot(s) /\ Keeps(questions, s)
    <3>1. /\ Typed(s) /\ LawfulSnapshot(s) /\ DOMAIN questions.entries \subseteq DOMAIN s.entries
          /\ \A q \in DOMAIN questions.entries : s.entries[q] = questions.entries[q]
      BY <1>1, <2>1, AddSnapshot
    <3>2. QED
      BY <1>1, <3>1, EntryStays DEF Keeps, Typed
  <2>2. QED
    BY <1>3, <2>1, EvolveKeeps
<1>4. ASSUME NEW known \in Instants, NEW effective \in Instants, NEW version,
             Evolve(SupersedeSignReversal(questions, version, known, effective))
      PROVE  RegistryInv' /\ Keeps(questions, questions')
  BY <1>1, <1>4, SupersedeSnapshot, EvolveKeeps
<1>5. ASSUME NEW known \in Instants, NEW effective \in Instants,
             Evolve(BuildQualified(questions, known, effective))
      PROVE  RegistryInv' /\ Keeps(questions, questions')
  BY <1>1, <1>5, QualifiedSnapshot, EvolveKeeps
<1>6. ASSUME Certify PROVE RegistryInv' /\ questions' = questions
  BY <1>1, <1>6 DEF Certify, RegistryInv
<1>7. CASE UNCHANGED registryVars
  BY <1>7 DEF registryVars, RegistryInv
<1>8. QED
  BY <1>2, <1>3, <1>4, <1>5, <1>6, <1>7 DEF RegistryNext

LEMMA CertifiedStands == RegistryInv => CertifiedWasNeverBent
<1> SUFFICES ASSUME RegistryInv, certificate # Nothing PROVE CertifiedWasNeverBent
  BY DEF CertifiedWasNeverBent
<1> DEFINE e == certificate.entries
<1>1. LawfulSnapshot(certificate) /\ SemanticGuards(certificate)
  BY DEF RegistryInv
<1>2. /\ DOMAIN e = Canonical
      /\ \A q \in Canonical : e[q].definition = "canonical" /\ LawfulEntry(e[q])
      /\ {q \in Canonical : e[q].state = "RESOLVER_READY"} = Originals \cup {MaterialReversal}
      /\ \A q \in Originals \cup {MaterialReversal} : e[q].resolver = Resolver(q)
      /\ e[Reversal].state = "DEFINED"
      /\ e[SignReversal].state = "RETIRED" /\ ~e[SignReversal].evidence
      /\ e[SignReversal].resolver = Resolver(SignReversal)
  BY <1>1 DEF SemanticGuards, LawfulSnapshot, Surface, Ready
<1>3. Ready(certificate) \cap Reversals = {MaterialReversal}
  BY <1>2 DEF Ready, Canonical, Reversals
<1>4. Reversal \notin everReady \/ questions # certificate
  BY <1>2 DEF RegistryInv
<1>5. ASSUME NEW q \in Canonical
      PROVE  e[q].resolver \in {Resolver(q), Nothing} /\ ~e[q].evidence
  <2>1. CASE q \in Originals \cup {MaterialReversal}
    BY <1>2, <2>1 DEF LawfulEntry
  <2>2. CASE q = Reversal
    BY <1>2, <2>2 DEF LawfulEntry
  <2>3. CASE q = SignReversal
    BY <1>2, <2>3
  <2>4. QED
    BY <1>5, <2>1, <2>2, <2>3 DEF Canonical, Reversals
<1>6. Verifies(questions) = (questions = certificate)
  BY <1>1 DEF Verifies
<1>7. QED
  BY <1>2, <1>3, <1>4, <1>5, <1>6 DEF CertifiedWasNeverBent

\* However the registry of questions came about, nothing bent is certified.
THEOREM CertificatesStand == RegistrySpec => []CertifiedWasNeverBent
BY RegistryStart, RegistryStep, CertifiedStands, PTL DEF RegistrySpec

\* No builder rewrites what a registry says of a question.
THEOREM HistoryKept == RegistrySpec => HistoryIsKept
<1> DEFINE Kept == \A q \in DOMAIN questions.entries :
             /\ q \in DOMAIN questions'.entries
             /\ LET e == questions.entries[q] f == questions'.entries[q] IN
                /\ f.definition = e.definition /\ f.registered = e.registered
                /\ <<e.state, f.state>> \in Onward
                /\ e.resolver = Nothing \/ f.resolver = e.resolver
<1>1. RegistryInv /\ [RegistryNext]_registryVars => [Kept]_registryVars
  <2> SUFFICES ASSUME RegistryInv, [RegistryNext]_registryVars PROVE Kept
    OBVIOUS
  <2>1. Keeps(questions, questions')
    BY RegistryStep, EntryStays DEF RegistryInv, Keeps, Typed
  <2>2. QED
    BY <2>1 DEF Keeps, KeepsEntry
<1>2. RegistryInv /\ [RegistryNext]_registryVars => RegistryInv'
  BY RegistryStep
<1>3. QED
  BY <1>1, <1>2, RegistryStart, PTL DEF RegistrySpec, HistoryIsKept

-----------------------------------------------------------------------------
(* The registry of context profiles and the assemblies that rest on it.   *)

\* Induction, as the least number a set of numbers has.
LEMMA FirstNumber ==
  ASSUME NEW S \in SUBSET Nat, S # {}
  PROVE  \E m \in S : \A k \in S : ~ (k < m)
<1>1. IsWellFoundedOn(OpToRel(<, Nat), Nat)
  BY NatLessThanWellFounded
<1>2. PICK R : R = OpToRel(<, Nat)
  OBVIOUS
<1>3. \E m \in S : \A k \in S : <<k, m>> \notin R
  BY <1>1, <1>2, WFMin
<1>4. \A k, m \in S : k < m => <<k, m>> \in R
  BY <1>2 DEF OpToRel
<1>5. QED
  BY <1>3, <1>4

LEMMA Inductive ==
  ASSUME NEW S, 0 \in S, \A n \in Nat : n \in S => n + 1 \in S
  PROVE  Nat \subseteq S
<1>1. SUFFICES ASSUME Nat \ S # {} PROVE FALSE
  OBVIOUS
<1>2. PICK m \in Nat \ S : \A k \in Nat \ S : ~ (k < m)
  BY <1>1, FirstNumber
<1>3. m # 0 /\ m - 1 \in Nat /\ m - 1 < m
  BY <1>2
<1>4. m - 1 \in S
  BY <1>2, <1>3
<1>5. (m - 1) + 1 = m
  BY <1>2
<1>6. QED
  BY <1>2, <1>3, <1>4, <1>5

\* The last of some positions is one of them.
LEMMA LastPosition ==
  ASSUME NEW n \in Nat, NEW S \in SUBSET (1..n), S # {}
  PROVE  Max(S) \in S /\ \A j \in S : j <= Max(S)
<1> DEFINE T == {k \in Nat : n - k \in S}
<1>1. PICK k \in T : \A l \in T : ~ (l < k)
  <2>1. PICK j \in S : TRUE
    OBVIOUS
  <2>2. n - j \in Nat /\ n - (n - j) = j
    BY <2>1
  <2>3. T # {} /\ T \in SUBSET Nat
    BY <2>1, <2>2
  <2>4. QED
    BY <2>3, FirstNumber
<1>2. \A j \in S : j <= n - k
  <2>1. SUFFICES ASSUME NEW j \in S, ~ (j <= n - k) PROVE FALSE
    OBVIOUS
  <2>2. n - j \in Nat /\ n - (n - j) = j /\ n - j < k
    BY <1>1, <2>1
  <2>3. QED
    BY <1>1, <2>1, <2>2
<1>3. n - k \in S
  BY <1>1
<1>4. \E x \in S : \A y \in S : x >= y
  BY <1>2, <1>3
<1>5. Max(S) \in S /\ \A y \in S : Max(S) >= y
  BY <1>4 DEF Max
<1>6. QED
  BY <1>5

-----------------------------------------------------------------------------
(* How far a context moves a weight.                                       *)

LEMMA FactorIsInt == \A x, f \in Int : ApplyFactor(x, f) \in Int
BY DEF ApplyFactor

LEMMA Clamped ==
  ASSUME NEW x \in Int, NEW low \in Int, NEW high \in Int, low <= high
  PROVE  Clamp(x, low, high) \in Int /\ low <= Clamp(x, low, high) /\ Clamp(x, low, high) <= high
<1>1. PICK m \in {low, x} : \A y \in {low, x} : m >= y
  OBVIOUS
<1>2. Max({low, x}) \in {low, x} /\ \A y \in {low, x} : Max({low, x}) >= y
  BY <1>1 DEF Max
<1>3. PICK k \in Int : k = Max({low, x}) /\ k >= low
  BY <1>2
<1>4. \E l \in {high, k} : \A y \in {high, k} : l <= y
  BY <1>3
<1>5. Min({high, k}) \in {high, k} /\ \A y \in {high, k} : Min({high, k}) <= y
  BY <1>4 DEF Min
<1>6. QED
  BY <1>3, <1>5 DEF Clamp

\* A factor applied once for each member of a set.
Applied(S, base, factor) == FoldSet(LAMBDA r, x : ApplyFactor(x, factor), base, S)
AppliedRow(g, s, base, factor) ==
  IF s = {} THEN base ELSE ApplyFactor(g[s \ {CHOOSE x \in s : TRUE}], factor)

\* The first n powers of a factor.
PowerRow(a, n, base, factor) ==
  /\ a \in [0..n -> Int] /\ a[0] = base
  /\ \A i \in 1..n : a[i] = ApplyFactor(a[i - 1], factor)

LEMMA Powers ==
  ASSUME NEW base \in Int, NEW factor \in Int
  PROVE  \A n \in Nat : \E a : PowerRow(a, n, base, factor)
<1> DEFINE S == {n \in Nat : \E a : PowerRow(a, n, base, factor)}
<1>1. 0 \in S
  <2>1. PICK a \in [0..0 -> Int] : a = [i \in 0..0 |-> base]
    OBVIOUS
  <2>2. PowerRow(a, 0, base, factor)
    BY <2>1 DEF PowerRow
  <2>3. QED
    BY <2>2
<1>2. ASSUME NEW n \in Nat, n \in S PROVE n + 1 \in S
  <2>1. PICK a : PowerRow(a, n, base, factor)
    BY <1>2
  <2>2. a \in [0..n -> Int] /\ a[0] = base /\ \A i \in 1..n : a[i] = ApplyFactor(a[i - 1], factor)
    BY <2>1 DEF PowerRow
  <2>3. PICK v \in Int : v = ApplyFactor(a[n], factor)
    <3>1. a[n] \in Int
      BY <2>2
    <3>2. QED
      BY <3>1, FactorIsInt
  <2>4. PICK b \in [0..(n + 1) -> Int] : b = [i \in 0..(n + 1) |-> IF i = n + 1 THEN v ELSE a[i]]
    <3>1. \A i \in 0..(n + 1) : i = n + 1 \/ i \in 0..n
      OBVIOUS
    <3>2. \A i \in 0..(n + 1) : (IF i = n + 1 THEN v ELSE a[i]) \in Int
      BY <2>2, <2>3, <3>1
    <3>3. QED
      BY <3>2
  <2>5. b[0] = base /\ \A i \in 1..(n + 1) : b[i] = ApplyFactor(b[i - 1], factor)
    BY <2>2, <2>3, <2>4
  <2>6. PowerRow(b, n + 1, base, factor)
    BY <2>4, <2>5 DEF PowerRow
  <2>7. QED
    BY <2>6
<1>3. Nat \subseteq S
  <2> HIDE DEF S
  <2>1. QED
    BY <1>1, <1>2, Inductive
<1>4. QED
  BY <1>3

LEMMA AppliedIsInt ==
  ASSUME NEW S, IsFiniteSet(S), NEW base \in Int, NEW factor \in Int
  PROVE  Applied(S, base, factor) \in Int
<1>1. PICK h : h = CHOOSE g : g = [s \in SUBSET S |-> AppliedRow(g, s, base, factor)]
  OBVIOUS
<1>2. Applied(S, base, factor) = h[S]
  BY <1>1 DEF Applied, FoldSet, MapThenFoldSet, AppliedRow
<1>3. PICK n \in Nat : n = Cardinality(S)
  BY FS_CardinalityType
<1>4. PICK a : PowerRow(a, n, base, factor)
  BY Powers
<1> a \in [0..n -> Int] /\ a[0] = base /\ \A i \in 1..n : a[i] = ApplyFactor(a[i - 1], factor)
  BY <1>4 DEF PowerRow
<1>5. PICK g : g = [s \in SUBSET S |-> a[Cardinality(s)]]
  OBVIOUS
<1>6. ASSUME NEW s \in SUBSET S PROVE g[s] = AppliedRow(g, s, base, factor)
  <2>1. IsFiniteSet(s) /\ Cardinality(s) \in 0..n
    BY <1>3, FS_Subset, FS_CardinalityType
  <2>2. CASE s = {}
    BY <1>4, <1>5, <2>2, FS_EmptySet DEF AppliedRow
  <2>3. CASE s # {}
    <3>1. PICK x \in s : x = CHOOSE y \in s : TRUE
      BY <2>3
    <3>2. Cardinality(s \ {x}) = Cardinality(s) - 1 /\ s \ {x} \in SUBSET S /\ IsFiniteSet(s \ {x})
      BY <2>1, FS_RemoveElement
    <3>3. Cardinality(s) \in 1..n
      <4>1. Cardinality(s \ {x}) \in Nat
        BY <3>2, FS_CardinalityType
      <4>2. QED
        BY <2>1, <3>2, <4>1
    <3>4. g[s] = ApplyFactor(g[s \ {x}], factor)
      BY <1>4, <1>5, <3>2, <3>3
    <3>5. QED
      BY <2>3, <3>1, <3>4 DEF AppliedRow
  <2>4. QED
    BY <2>2, <2>3
<1>7. h = [s \in SUBSET S |-> AppliedRow(h, s, base, factor)]
  <2>1. g = [s \in SUBSET S |-> AppliedRow(g, s, base, factor)]
    BY <1>5, <1>6
  <2>2. QED
    BY <1>1, <2>1
<1> DEFINE T == {k \in Nat : \A s \in SUBSET S : Cardinality(s) = k => h[s] \in Int}
<1>8. 0 \in T
  <2>1. ASSUME NEW s \in SUBSET S, Cardinality(s) = 0 PROVE h[s] \in Int
    <3>1. s = {}
      BY <2>1, FS_EmptySet, FS_Subset
    <3>2. h[s] = base
      BY <1>7, <3>1 DEF AppliedRow
    <3>3. QED
      BY <3>2
  <2>2. QED
    BY <2>1
<1>9. ASSUME NEW k \in Nat, k \in T PROVE k + 1 \in T
  <2>1. ASSUME NEW s \in SUBSET S, Cardinality(s) = k + 1 PROVE h[s] \in Int
    <3>1. IsFiniteSet(s) /\ s # {}
      BY <2>1, FS_EmptySet, FS_Subset
    <3>2. PICK x \in s : x = CHOOSE y \in s : TRUE
      BY <3>1
    <3>3. s \ {x} \in SUBSET S /\ Cardinality(s \ {x}) = k
      <4>1. Cardinality(s \ {x}) = Cardinality(s) - 1
        BY <3>1, FS_RemoveElement
      <4>2. (k + 1) - 1 = k
        OBVIOUS
      <4>3. QED
        BY <2>1, <4>1, <4>2
    <3>4. h[s] = ApplyFactor(h[s \ {x}], factor)
      BY <1>7, <3>1, <3>2 DEF AppliedRow
    <3>5. \A s1 \in SUBSET S : Cardinality(s1) = k => h[s1] \in Int
      BY <1>9
    <3>6. h[s \ {x}] \in Int
      BY <3>3, <3>5
    <3>7. ApplyFactor(h[s \ {x}], factor) \in Int
      BY <3>6, FactorIsInt
    <3>8. QED
      BY <3>4, <3>7
  <2>2. \A s \in SUBSET S : Cardinality(s) = k + 1 => h[s] \in Int
    BY <2>1
  <2>3. k + 1 \in Nat
    BY <1>9
  <2>4. QED
    BY <2>2, <2>3
<1>10. n \in T
  <2> HIDE DEF T
  <2>1. QED
    BY <1>8, <1>9, Inductive
<1>11. QED
  BY <1>2, <1>3, <1>10

\* The product of a first factor and four more, in the order they are applied.
Product(first, factors) ==
  CHOOSE g : g = [i \in 0..4 |-> IF i = 0 THEN first ELSE ApplyFactor(g[i - 1], factors[i])]

LEMMA ProductIsInt ==
  ASSUME NEW first \in Int, NEW factors \in [1..4 -> Int]
  PROVE  Product(first, factors)[4] \in Int
<1>1. factors[1] \in Int /\ factors[2] \in Int /\ factors[3] \in Int /\ factors[4] \in Int
  OBVIOUS
<1>2. PICK v1 \in Int : v1 = ApplyFactor(first, factors[1])
  <2>1. ApplyFactor(first, factors[1]) \in Int
    BY <1>1, FactorIsInt
  <2>2. QED
    BY <2>1
<1>3. PICK v2 \in Int : v2 = ApplyFactor(v1, factors[2])
  <2>1. ApplyFactor(v1, factors[2]) \in Int
    BY <1>1, FactorIsInt
  <2>2. QED
    BY <2>1
<1>4. PICK v3 \in Int : v3 = ApplyFactor(v2, factors[3])
  <2>1. ApplyFactor(v2, factors[3]) \in Int
    BY <1>1, FactorIsInt
  <2>2. QED
    BY <2>1
<1>5. PICK v4 \in Int : v4 = ApplyFactor(v3, factors[4])
  <2>1. ApplyFactor(v3, factors[4]) \in Int
    BY <1>1, FactorIsInt
  <2>2. QED
    BY <2>1
<1>6. PICK f : f = [i \in 0..4 |-> CASE i = 0 -> first [] i = 1 -> v1 [] i = 2 -> v2 [] i = 3 -> v3 [] i = 4 -> v4]
  OBVIOUS
<1>7. f[0] = first /\ f[1] = v1 /\ f[2] = v2 /\ f[3] = v3 /\ f[4] = v4
  BY <1>6
<1>8. \A i \in 0..4 : f[i] = IF i = 0 THEN first ELSE ApplyFactor(f[i - 1], factors[i])
  <2>1. \A i \in 0..4 : i = 0 \/ i = 1 \/ i = 2 \/ i = 3 \/ i = 4
    OBVIOUS
  <2>2. 1 - 1 = 0 /\ 2 - 1 = 1 /\ 3 - 1 = 2 /\ 4 - 1 = 3
    OBVIOUS
  <2>3. QED
    BY <1>2, <1>3, <1>4, <1>5, <1>7, <2>1, <2>2
<1>9. f = [i \in 0..4 |-> IF i = 0 THEN first ELSE ApplyFactor(f[i - 1], factors[i])]
  BY <1>6, <1>8
<1>10. PICK g : g = Product(first, factors)
  OBVIOUS
<1>11. g = [i \in 0..4 |-> IF i = 0 THEN first ELSE ApplyFactor(g[i - 1], factors[i])]
  BY <1>9, <1>10 DEF Product
<1>12. g[0] = first /\ g[1] = v1 /\ g[2] = v2 /\ g[3] = v3 /\ g[4] = v4
  <2>1. g[0] = first
    BY <1>11
  <2>2. g[1] = v1
    BY <1>2, <1>11, <2>1
  <2>3. g[2] = v2
    BY <1>3, <1>11, <2>2
  <2>4. g[3] = v3
    BY <1>4, <1>11, <2>3
  <2>5. g[4] = v4
    BY <1>5, <1>11, <2>4
  <2>6. QED
    BY <2>1, <2>2, <2>3, <2>4, <2>5
<1>13. QED
  BY <1>10, <1>12

OneFeature(f, frame) ==
  CASE frame.features[f] = "QUALIFIED" -> 1000
    [] frame.features[f] = "DEGRADED" -> 900
    [] frame.features[f] = "UNAVAILABLE" -> 750

LEMMA FeatureIsInt ==
  ASSUME NEW p \in ContextProfiles, NEW frame \in ContextFrames
  PROVE  FeatureFactor(p, frame) \in Int
<1> DEFINE V == {1000} \cup {OneFeature(f, frame) : f \in p.features}
<1>1. V \subseteq {750, 900, 1000}
  <2>1. \A f \in p.features : frame.features[f] \in {"QUALIFIED", "DEGRADED", "UNAVAILABLE"}
    BY FramesAssumption
  <2>2. \A f \in p.features :
          OneFeature(f, frame) \in {750, 900, 1000}
    BY <2>1 DEF OneFeature
  <2>3. QED
    BY <2>2
<1>2. 1000 \in V
  OBVIOUS
<1>3. FeatureFactor(p, frame) = Min(V)
  BY DEF FeatureFactor, OneFeature
<1> HIDE DEF V
<1>4. \E x \in V : \A y \in V : x <= y
  <2>1. CASE 750 \in V
    BY <1>1, <2>1
  <2>2. CASE 750 \notin V /\ 900 \in V
    BY <1>1, <2>2
  <2>3. CASE 750 \notin V /\ 900 \notin V
    BY <1>1, <1>2, <2>3
  <2>4. QED
    BY <2>1, <2>2, <2>3
<1>5. Min(V) \in V
  BY <1>4 DEF Min
<1>6. PICK x \in V : x = Min(V)
  BY <1>5
<1>7. x \in {750, 900, 1000} /\ FeatureFactor(p, frame) = x
  BY <1>1, <1>3, <1>6
<1>8. QED
  BY <1>7

LEMMA RegimeIsInt ==
  ASSUME NEW p \in ContextProfiles, NEW frame \in ContextFrames
  PROVE  RegimeFactor(p, frame) \in Int
<1>1. PICK bad : bad = frame.regimes \cap p.adverse
  OBVIOUS
<1>2. PICK good : good = (frame.regimes \cap p.preferred) \ p.adverse
  OBVIOUS
<1>3. IsFiniteSet(frame.regimes)
  BY FramesAssumption
<1>4. IsFiniteSet(bad) /\ IsFiniteSet(good)
  BY <1>1, <1>2, <1>3, FS_Subset
<1>5. PICK worse \in Int : worse = Applied(bad, 1000, 900)
  BY <1>4, AppliedIsInt
<1>6. PICK better \in Int : better = Applied(good, worse, 1050)
  BY <1>4, AppliedIsInt
<1>7. RegimeFactor(p, frame) =
        Clamp(Applied((frame.regimes \cap p.preferred) \ p.adverse,
                      Applied(frame.regimes \cap p.adverse, 1000, 900), 1050), 850, 1150)
  BY DEF RegimeFactor, Applied
<1>8. RegimeFactor(p, frame) = Clamp(better, 850, 1150)
  BY <1>1, <1>2, <1>5, <1>6, <1>7
<1>9. Clamp(better, 850, 1150) \in Int
  <2>1. 850 \in Int /\ 1150 \in Int /\ 850 <= 1150
    OBVIOUS
  <2>2. QED
    BY <2>1, Clamped
<1>10. QED
  BY <1>8, <1>9

\* Whatever a context says, a multiplier is within its bounds.
LEMMA MultiplierIsBounded ==
  ASSUME NEW p \in ContextProfiles, NEW frame \in ContextFrames, NEW profiles
  PROVE  Multiplier(p, frame, profiles) \in 750..1250
<1>1. PICK first \in Int : first = FeatureFactor(p, frame)
  BY FeatureIsInt
<1>2. PICK regime \in Int : regime = RegimeFactor(p, frame)
  BY RegimeIsInt
<1>3. PICK trust \in Int : trust = 900 + frame.reliability \div 10
  BY FramesAssumption
<1>4. PICK fresh \in Int : fresh = 950 + frame.freshness \div 20
  BY FramesAssumption
<1>5. PICK crowd \in Int : crowd = IF \A q \in profiles \ {p} : q.group # p.group THEN 1000 ELSE 950
  OBVIOUS
<1>6. PICK factors \in [1..4 -> Int] : factors = <<regime, trust, fresh, crowd>>
  <2>1. <<regime, trust, fresh, crowd>> = [i \in 1..4 |-> <<regime, trust, fresh, crowd>>[i]]
    OBVIOUS
  <2>2. \A i \in 1..4 : <<regime, trust, fresh, crowd>>[i] \in Int
    <3>1. \A i \in 1..4 : i = 1 \/ i = 2 \/ i = 3 \/ i = 4
      OBVIOUS
    <3>2. QED
      BY <3>1
  <2>3. <<regime, trust, fresh, crowd>> \in [1..4 -> Int]
    BY <2>1, <2>2
  <2>4. QED
    BY <2>3
<1>7. RawMultiplier(p, frame, profiles) = Product(first, factors)[4]
  BY <1>1, <1>2, <1>3, <1>4, <1>5, <1>6 DEF RawMultiplier, Product
<1>8. RawMultiplier(p, frame, profiles) \in Int
  BY <1>7, ProductIsInt
<1>9. PICK x \in Int : x = RawMultiplier(p, frame, profiles)
  BY <1>8
<1>10. Clamp(x, 750, 1250) \in Int /\ 750 <= Clamp(x, 750, 1250) /\ Clamp(x, 750, 1250) <= 1250
  <2>1. PICK low \in Int, high \in Int : low = 750 /\ high = 1250
    OBVIOUS
  <2>2. low <= high
    BY <2>1
  <2>3. Clamp(x, low, high) \in Int /\ low <= Clamp(x, low, high) /\ Clamp(x, low, high) <= high
    BY <2>2, Clamped
  <2>4. QED
    BY <2>1, <2>3
<1>11. Multiplier(p, frame, profiles) = Clamp(x, 750, 1250)
  BY <1>9 DEF Multiplier
<1>12. QED
  BY <1>10, <1>11

-----------------------------------------------------------------------------
(* What an event more makes of a chain.                                    *)

ProfileEventTypes ==
  [type : {"PROFILE_REGISTERED", "PROFILE_ACTIVATED"}, profile : ContextProfiles,
   at : ProfileTimes, previous : ContextProfiles \cup {Nobody}]

LEMMA EventIsSomething ==
  \A e \in ProfileEventTypes : e # Nobody /\ e.profile # Nobody /\ e.profile \in ContextProfiles /\ e.at \in Int
BY NobodyIsNothing, InstantsAreNumbers DEF ProfileEventTypes

\* The last of some events is one of them.
LEMMA LastEventIs ==
  ASSUME NEW ev \in Seq(ProfileEventTypes), NEW S \in SUBSET DOMAIN ev
  PROVE  /\ S = {} => LastEvent(ev, S) = Nobody
         /\ S # {} => \E i \in S : (\A j \in S : j <= i) /\ i = Max(S) /\ LastEvent(ev, S) = ev[i]
<1>1. Len(ev) \in Nat /\ DOMAIN ev = 1..Len(ev)
  OBVIOUS
<1>2. S # {} => Max(S) \in S /\ \A j \in S : j <= Max(S)
  BY <1>1, LastPosition
<1>3. QED
  BY <1>2 DEF LastEvent

LEMMA LastProfile ==
  ASSUME NEW ev \in Seq(ProfileEventTypes), NEW S \in SUBSET DOMAIN ev
  PROVE  /\ ProfileOf(LastEvent(ev, S)) \in ContextProfiles \cup {Nobody}
         /\ LastEvent(ev, S) \in ProfileEventTypes \cup {Nobody}
<1>1. CASE S = {}
  BY <1>1, LastEventIs DEF ProfileOf
<1>2. CASE S # {}
  <2>1. PICK i \in S : LastEvent(ev, S) = ev[i]
    BY <1>2, LastEventIs
  <2>2. ev[i] \in ProfileEventTypes
    BY <2>1
  <2>3. QED
    BY <2>1, <2>2, EventIsSomething DEF ProfileOf
<1>3. QED
  BY <1>1, <1>2

\* One chain is another and an event.
Extended(ev, e, ev2) == ev \in Seq(ProfileEventTypes) /\ e \in ProfileEventTypes /\ ev2 = Append(ev, e)

LEMMA OneMore ==
  ASSUME NEW ev, NEW e, NEW ev2, Extended(ev, e, ev2)
  PROVE  /\ ev \in Seq(ProfileEventTypes) /\ e \in ProfileEventTypes
         /\ ev2 \in Seq(ProfileEventTypes) /\ Len(ev2) = Len(ev) + 1 /\ Len(ev) \in Nat
         /\ DOMAIN ev = 1..Len(ev) /\ DOMAIN ev2 = 1..(Len(ev) + 1)
         /\ \A i \in DOMAIN ev : ev2[i] = ev[i] /\ i \in DOMAIN ev2 /\ i # Len(ev) + 1
         /\ ev2[Len(ev) + 1] = e /\ Len(ev) + 1 \in DOMAIN ev2
         /\ \A i \in DOMAIN ev2 : i \in DOMAIN ev \/ i = Len(ev) + 1
BY DEF Extended

LEMMA MoreRegistered ==
  ASSUME NEW ev, NEW e, NEW ev2, Extended(ev, e, ev2)
  PROVE  /\ e.type = "PROFILE_REGISTERED" => /\ Registrations(ev2) = Registrations(ev) \cup {Len(ev) + 1}
                                             /\ Registered(ev2) = Registered(ev) \cup {e.profile}
         /\ e.type # "PROFILE_REGISTERED" => /\ Registrations(ev2) = Registrations(ev)
                                             /\ Registered(ev2) = Registered(ev)
         /\ \A i \in Registrations(ev) : i \in DOMAIN ev /\ ev2[i] = ev[i]
<1>1. /\ \A i \in DOMAIN ev : ev2[i] = ev[i] /\ i \in DOMAIN ev2
      /\ ev2[Len(ev) + 1] = e /\ Len(ev) + 1 \in DOMAIN ev2
      /\ \A i \in DOMAIN ev2 : i \in DOMAIN ev \/ i = Len(ev) + 1
  BY OneMore
<1>2. \A i \in Registrations(ev) : i \in DOMAIN ev /\ ev2[i] = ev[i]
  BY <1>1 DEF Registrations
<1>3. e.type = "PROFILE_REGISTERED" => Registrations(ev2) = Registrations(ev) \cup {Len(ev) + 1}
  BY <1>1 DEF Registrations
<1>4. e.type # "PROFILE_REGISTERED" => Registrations(ev2) = Registrations(ev)
  BY <1>1, OneMore DEF Registrations
<1>5. e.type = "PROFILE_REGISTERED" => Registered(ev2) = Registered(ev) \cup {e.profile}
  BY <1>1, <1>2, <1>3 DEF Registered
<1>6. e.type # "PROFILE_REGISTERED" => Registered(ev2) = Registered(ev)
  BY <1>2, <1>4 DEF Registered
<1>7. QED
  BY <1>2, <1>3, <1>4, <1>5, <1>6

LEMMA MoreActivated ==
  ASSUME NEW ev, NEW e, NEW ev2, Extended(ev, e, ev2), NEW m
  PROVE  /\ e.type = "PROFILE_ACTIVATED" /\ e.profile.model = m =>
              Activations(ev2, m) = Activations(ev, m) \cup {Len(ev) + 1}
         /\ ~ (e.type = "PROFILE_ACTIVATED" /\ e.profile.model = m) => Activations(ev2, m) = Activations(ev, m)
         /\ \A i \in Activations(ev, m) : i \in DOMAIN ev /\ ev2[i] = ev[i]
<1>1. /\ \A i \in DOMAIN ev : ev2[i] = ev[i] /\ i \in DOMAIN ev2
      /\ ev2[Len(ev) + 1] = e /\ Len(ev) + 1 \in DOMAIN ev2
      /\ \A i \in DOMAIN ev2 : i \in DOMAIN ev \/ i = Len(ev) + 1
  BY OneMore
<1>2. QED
  BY <1>1 DEF Activations

\* The instant of a registration, if there is one of that profile.
LEMMA RegisteredOnce ==
  ASSUME NEW ev, NEW k \in Registrations(ev),
         \A i \in Registrations(ev) : ev[i].profile = ev[k].profile => i = k
  PROVE  RegisteredAt(ev, ev[k].profile) = ev[k].at
<1>1. PICK p : p = ev[k].profile
  OBVIOUS
<1>2. PICK j : j = CHOOSE i \in Registrations(ev) : ev[i].profile = p
  OBVIOUS
<1>3. j \in Registrations(ev) /\ ev[j].profile = p
  BY <1>1, <1>2
<1>4. j = k
  BY <1>1, <1>3
<1>5. QED
  BY <1>1, <1>2, <1>4 DEF RegisteredAt

\* The profiles of an assembly are those its instant resolves to, but for
\* activations dated before it and recorded since.
Explained(ev, f, s) ==
  /\ s \in 0..Len(ev)
  /\ \A m \in ContextModels :
       \/ ActiveAt(ev, m, PolicyCutoff(f.at)) = f.profiles[m]
       \/ \E i \in Activations(ev, m) : i > s /\ ev[i].at < f.at

LEMMA ExplainedStays ==
  ASSUME NEW ev, NEW e, NEW ev2, Extended(ev, e, ev2),
         NEW f, f.at \in Int, NEW s, Explained(ev, f, s)
  PROVE  Explained(ev2, f, s)
<1>1. s \in 0..Len(ev2) /\ s < Len(ev) + 1
  BY OneMore DEF Explained
<1>2. ASSUME NEW m \in ContextModels
      PROVE  \/ ActiveAt(ev2, m, PolicyCutoff(f.at)) = f.profiles[m]
             \/ \E i \in Activations(ev2, m) : i > s /\ ev2[i].at < f.at
  <2>0. /\ e.type = "PROFILE_ACTIVATED" /\ e.profile.model = m =>
               Activations(ev2, m) = Activations(ev, m) \cup {Len(ev) + 1}
        /\ ~ (e.type = "PROFILE_ACTIVATED" /\ e.profile.model = m) => Activations(ev2, m) = Activations(ev, m)
        /\ \A i \in Activations(ev, m) : i \in DOMAIN ev /\ ev2[i] = ev[i]
    BY MoreActivated
  <2>1. CASE \E i \in Activations(ev, m) : i > s /\ ev[i].at < f.at
    BY <2>1, <2>0
  <2>2. CASE e.type = "PROFILE_ACTIVATED" /\ e.profile.model = m /\ e.at < f.at
    <3>1. Len(ev) + 1 \in Activations(ev2, m) /\ ev2[Len(ev) + 1] = e
      BY <2>2, <2>0, OneMore
    <3>2. Len(ev) + 1 > s
      BY <1>1, OneMore
    <3>3. QED
      BY <2>2, <3>1, <3>2
  <2>3. CASE /\ ~ (e.type = "PROFILE_ACTIVATED" /\ e.profile.model = m /\ e.at < f.at)
             /\ ActiveAt(ev, m, PolicyCutoff(f.at)) = f.profiles[m]
    <3>1. PICK t \in Int : t = PolicyCutoff(f.at) /\ t = f.at - 1
      BY DEF PolicyCutoff
    <3>2. PICK W : W = {i \in Activations(ev, m) : ev[i].at <= t}
      OBVIOUS
    <3>3. {i \in Activations(ev2, m) : ev2[i].at <= t} = W
      <4>1. CASE e.type = "PROFILE_ACTIVATED" /\ e.profile.model = m
        <5>1. Activations(ev2, m) = Activations(ev, m) \cup {Len(ev) + 1}
          BY <4>1, <2>0
        <5>2. ~ (ev2[Len(ev) + 1].at <= t)
          BY <2>3, <3>1, <4>1, OneMore, EventIsSomething
        <5>3. QED
          BY <3>2, <5>1, <5>2, <2>0
      <4>2. CASE ~ (e.type = "PROFILE_ACTIVATED" /\ e.profile.model = m)
        BY <3>2, <4>2, <2>0
      <4>3. QED
        BY <4>1, <4>2
    <3>4. W \in SUBSET (1..Len(ev)) /\ Len(ev) \in Nat
      BY <3>2, <2>0, OneMore
    <3>5. LastEvent(ev2, W) = LastEvent(ev, W)
      <4>1. W # {} => Max(W) \in W
        BY <3>4, LastPosition
      <4>2. \A i \in W : ev2[i] = ev[i]
        BY <3>2, <2>0
      <4>3. QED
        BY <4>1, <4>2 DEF LastEvent
    <3>6. ActiveAt(ev2, m, t) = ActiveAt(ev, m, t)
      BY <3>2, <3>3, <3>5 DEF ActiveAt
    <3>7. QED
      BY <2>3, <3>1, <3>6
  <2>4. QED
    BY <2>1, <2>2, <2>3 DEF Explained
<1>3. QED
  BY <1>1, <1>2 DEF Explained

\* A profile is registered once.
Once(ev) == \A i, j \in Registrations(ev) : ev[i].profile = ev[j].profile => i = j
\* The artifacts of the registrations of a chain, and the one an event adds.
Exact(ev) == {ArtifactOf(p, RegisteredAt(ev, p)) : p \in Registered(ev)}
Added(e) == IF e.type = "PROFILE_REGISTERED" THEN {ArtifactOf(e.profile, e.at)} ELSE {}

LEMMA ExactGrows ==
  ASSUME NEW ev, NEW e, NEW ev2, Extended(ev, e, ev2),
         Once(ev), e.type = "PROFILE_REGISTERED" => e.profile \notin Registered(ev)
  PROVE  Exact(ev2) = Exact(ev) \cup Added(e)
<1>0. /\ e.type = "PROFILE_REGISTERED" => /\ Registrations(ev2) = Registrations(ev) \cup {Len(ev) + 1}
                                            /\ Registered(ev2) = Registered(ev) \cup {e.profile}
      /\ e.type # "PROFILE_REGISTERED" => /\ Registrations(ev2) = Registrations(ev)
                                            /\ Registered(ev2) = Registered(ev)
      /\ \A i \in Registrations(ev) : i \in DOMAIN ev /\ ev2[i] = ev[i]
  BY MoreRegistered
<1>1. \A k \in Registrations(ev) : ev[k].profile \in Registered(ev) /\ k \in DOMAIN ev /\ ev2[k] = ev[k]
  BY <1>0 DEF Registered
<1>2. \A i \in Registrations(ev2) : i \in Registrations(ev) \/ (i = Len(ev) + 1 /\ e.type = "PROFILE_REGISTERED")
  BY <1>0
<1>3. \A k \in Registrations(ev) : k \in Registrations(ev2)
  BY <1>0
<1>4. ASSUME NEW p \in Registered(ev) PROVE RegisteredAt(ev2, p) = RegisteredAt(ev, p)
  <2>1. PICK k \in Registrations(ev) : p = ev[k].profile
    BY DEF Registered
  <2>2. RegisteredAt(ev, p) = ev[k].at
    BY <2>1, RegisteredOnce DEF Once
  <2>3. \A i \in Registrations(ev2) : ev2[i].profile = ev2[k].profile => i = k
    <3>1. SUFFICES ASSUME NEW i \in Registrations(ev2), ev2[i].profile = ev2[k].profile PROVE i = k
      OBVIOUS
    <3>2. CASE i \in Registrations(ev)
      BY <1>1, <2>1, <3>1, <3>2 DEF Once
    <3>3. CASE i = Len(ev) + 1 /\ e.type = "PROFILE_REGISTERED"
      BY <1>1, <2>1, <3>1, <3>3, OneMore
    <3>4. QED
      BY <1>2, <3>2, <3>3
  <2>4. RegisteredAt(ev2, ev2[k].profile) = ev2[k].at
    BY <1>3, <2>1, <2>3, RegisteredOnce
  <2>5. QED
    BY <1>1, <2>1, <2>2, <2>4
<1>5. CASE e.type = "PROFILE_REGISTERED"
  <2>1. Len(ev) + 1 \in Registrations(ev2) /\ ev2[Len(ev) + 1] = e
    BY <1>5, <1>0, OneMore
  <2>2. \A i \in Registrations(ev2) : ev2[i].profile = ev2[Len(ev) + 1].profile => i = Len(ev) + 1
    BY <1>1, <1>2, <1>5, <2>1
  <2>3. RegisteredAt(ev2, e.profile) = e.at
    BY <2>1, <2>2, RegisteredOnce
  <2>4. Registered(ev2) = Registered(ev) \cup {e.profile}
    BY <1>5, <1>0
  <2>5. QED
    BY <1>4, <1>5, <2>3, <2>4 DEF Exact, Added
<1>6. CASE e.type # "PROFILE_REGISTERED"
  <2>1. Registered(ev2) = Registered(ev)
    BY <1>6, <1>0
  <2>2. QED
    BY <1>4, <1>6, <2>1 DEF Exact, Added
<1>7. QED
  BY <1>5, <1>6

\* What the chain asks of an event, after those before it.
Linked(past, e) ==
  /\ \A j \in DOMAIN past : past[j].profile.model = e.profile.model => past[j].at <= e.at
  /\ IF e.type = "PROFILE_REGISTERED"
     THEN \A p \in Registered(past) : ~SameVersion(p, e.profile)
     ELSE /\ e.profile \in Registered(past)
          /\ e.previous = ProfileOf(Current(past, e.profile.model))

LEMMA Chained ==
  ASSUME NEW ev
  PROVE  ChainAccepted(ev) <=> \A i \in DOMAIN ev : Linked(SubSeq(ev, 1, i - 1), ev[i])
BY DEF ChainAccepted, Linked

LEMMA Pasts ==
  ASSUME NEW ev \in Seq(ProfileEventTypes), NEW i \in DOMAIN ev
  PROVE  /\ SubSeq(ev, 1, i - 1) \in Seq(ProfileEventTypes) /\ DOMAIN SubSeq(ev, 1, i - 1) = 1..(i - 1)
         /\ \A j \in 1..(i - 1) : SubSeq(ev, 1, i - 1)[j] = ev[j]
OBVIOUS

LEMMA ChainIsOnce ==
  ASSUME NEW ev \in Seq(ProfileEventTypes), ChainAccepted(ev)
  PROVE  Once(ev)
<1>1. ASSUME NEW i \in Registrations(ev), NEW j \in Registrations(ev), i < j
      PROVE  ev[i].profile # ev[j].profile
  <2>1. PICK past : past = SubSeq(ev, 1, j - 1)
    OBVIOUS
  <2>2. Linked(past, ev[j]) /\ ev[j].type = "PROFILE_REGISTERED"
    BY <2>1, Chained DEF Registrations
  <2>3. i \in DOMAIN past /\ past[i] = ev[i]
    BY <1>1, <2>1, Pasts DEF Registrations
  <2>4. ev[i].profile \in Registered(past)
    BY <2>3 DEF Registered, Registrations
  <2>5. ~ SameVersion(ev[i].profile, ev[j].profile)
    BY <2>2, <2>4 DEF Linked
  <2>6. QED
    BY <2>5 DEF SameVersion
<1>2. \A i, j \in Registrations(ev) : i < j \/ j < i \/ i = j
  BY DEF Registrations
<1>3. QED
  BY <1>1, <1>2 DEF Once

\* An event the registry found in order, when it decided to append it.
Fits(ev, e) ==
  IF e.type = "PROFILE_REGISTERED"
  THEN \A p \in Registered(ev) : ~SameVersion(p, e.profile)
  ELSE /\ e.profile \in Registered(ev)
       /\ Current(ev, e.profile.model) # Nobody => Current(ev, e.profile.model).at <= e.at
       /\ e.previous = ProfileOf(Current(ev, e.profile.model))

\* RegistrationOutOfOrder, of any chain.
Disordered(ev) ==
  \E i, j \in DOMAIN ev :
    /\ i < j /\ ev[i].profile.model = ev[j].profile.model
    /\ ev[j].at < ev[i].at
    /\ "PROFILE_REGISTERED" \in {ev[i].type, ev[j].type}

LEMMA DisorderStays ==
  ASSUME NEW ev, NEW e, NEW ev2, Extended(ev, e, ev2),
         Disordered(ev)
  PROVE  Disordered(ev2)
BY OneMore DEF Disordered

LEMMA ChainGrows ==
  ASSUME NEW ev, NEW e, NEW ev2, Extended(ev, e, ev2),
         ChainAccepted(ev), Fits(ev, e)
  PROVE  ChainAccepted(ev2) \/ Disordered(ev2)
<1> SUFFICES ASSUME ~ Disordered(ev2) PROVE ChainAccepted(ev2)
  OBVIOUS
<1>0. /\ ev \in Seq(ProfileEventTypes) /\ e \in ProfileEventTypes
      /\ Len(ev) \in Nat /\ DOMAIN ev = 1..Len(ev)
  BY OneMore
<1>1. ASSUME NEW j \in DOMAIN ev, ev[j].profile.model = e.profile.model PROVE ev[j].at <= e.at
  <2>1. SUFFICES ASSUME ~ (ev[j].at <= e.at) PROVE FALSE
    OBVIOUS
  <2>2. ev[j] \in ProfileEventTypes
    BY <1>0
  <2>3. ev[j].at \in Int /\ e.at \in Int /\ e.at < ev[j].at
    BY <1>0, <2>1, <2>2, EventIsSomething
  <2>4. ~ ("PROFILE_REGISTERED" \in {ev[j].type, e.type})
    <3>1. j \in DOMAIN ev2 /\ Len(ev) + 1 \in DOMAIN ev2 /\ j < Len(ev) + 1 /\ ev2[j] = ev[j] /\ ev2[Len(ev) + 1] = e
      BY OneMore
    <3>2. QED
      BY <1>1, <2>3, <3>1 DEF Disordered
  <2>5. ev[j].type = "PROFILE_ACTIVATED" /\ e.type # "PROFILE_REGISTERED"
    BY <2>2, <2>4 DEF ProfileEventTypes
  <2>6. PICK S : S = Activations(ev, e.profile.model)
    OBVIOUS
  <2>7. j \in S /\ S \in SUBSET DOMAIN ev
    BY <1>1, <2>5, <2>6 DEF Activations
  <2>8. PICK k \in S : j <= k /\ Current(ev, e.profile.model) = ev[k]
    BY <2>6, <2>7, <1>0, LastEventIs DEF Current
  <2>9. ev[k] \in ProfileEventTypes /\ ev[k].profile.model = e.profile.model /\ k \in DOMAIN ev
    BY <1>0, <2>6, <2>8 DEF Activations
  <2>10. ev[k].at <= e.at /\ ev[k].at \in Int
    BY <2>5, <2>8, <2>9, EventIsSomething DEF Fits
  <2>11. CASE j = k
    BY <2>3, <2>10, <2>11
  <2>12. CASE j < k
    <3>1. Linked(SubSeq(ev, 1, k - 1), ev[k])
      BY <2>9, Chained
    <3>2. j \in DOMAIN SubSeq(ev, 1, k - 1) /\ SubSeq(ev, 1, k - 1)[j] = ev[j]
      BY <2>9, <2>12, <1>0, Pasts
    <3>3. ev[j].at <= ev[k].at
      BY <1>1, <2>9, <3>1, <3>2 DEF Linked
    <3>4. QED
      BY <2>3, <2>10, <3>3
  <2>13. j = k \/ j < k
    BY <1>0, <2>7, <2>8
  <2>14. QED
    BY <2>11, <2>12, <2>13
<1>2. Linked(ev, e)
  BY <1>1 DEF Linked, Fits
<1>3. ASSUME NEW i \in DOMAIN ev2 PROVE Linked(SubSeq(ev2, 1, i - 1), ev2[i])
  <2>1. CASE i \in DOMAIN ev
    <3>1. SubSeq(ev2, 1, i - 1) = SubSeq(ev, 1, i - 1)
      BY <1>0, <2>1 DEF Extended
    <3>2. ev2[i] = ev[i] /\ Linked(SubSeq(ev, 1, i - 1), ev[i])
      BY <2>1, OneMore, Chained
    <3>3. QED
      BY <3>1, <3>2
  <2>2. CASE i = Len(ev) + 1
    <3>1. SubSeq(ev2, 1, i - 1) = ev
      BY <1>0, <2>2 DEF Extended
    <3>2. ev2[i] = e
      BY <2>2, OneMore
    <3>3. QED
      BY <1>2, <3>1, <3>2
  <2>3. QED
    BY <2>1, <2>2, OneMore
<1>4. QED
  BY <1>3, Chained

-----------------------------------------------------------------------------
(* The inductive invariant of the profiles and of the assemblies.          *)

Overlay == [at : AssemblyTimes, profiles : [ContextModels -> ContextProfiles], weights : [ContextModels -> Int]]
CallerStates ==
  [stage : {"idle", "append", "project", "lineage", "receipt"},
   event : ProfileEventTypes \cup {Nobody}, final : Overlay \cup {Nobody}, seen : Nat]

ProfilesTypeOK ==
  /\ profileEvents \in Seq(ProfileEventTypes) /\ tornEvent \in BOOLEAN /\ shownEvents \in Nat
  /\ profileLease \in Callers \cup {Nobody} /\ caller \in [Callers -> CallerStates]
  /\ finals \subseteq Overlay /\ contextual \subseteq [final : Overlay, seen : Nat]
  /\ callerDeaths \in Nat

\* What the files hold while nobody writes, and what a chain may be.
FilesInv ==
  /\ Disordered(profileEvents) \/ ChainAccepted(profileEvents)
  /\ callerDeaths = 0 => ~tornEvent
  /\ callerDeaths = 0 /\ profileLease = Nobody =>
       shownEvents = Len(profileEvents) /\ artifacts = Exact(profileEvents)

\* What a process at a stage has found: the holder of the lease is between a
\* look at the chain and its projection, and the chain is still as it was.
CallerInv(c) ==
  /\ caller[c].stage \in {"append", "project"} <=> profileLease = c
  /\ caller[c].stage = "append" =>
       /\ caller[c].event \in ProfileEventTypes
       /\ ChainAccepted(profileEvents) /\ Fits(profileEvents, caller[c].event)
       /\ callerDeaths = 0 => artifacts = Exact(profileEvents) \cup Added(caller[c].event)
  /\ caller[c].stage = "project" => (callerDeaths = 0 => artifacts = Exact(profileEvents))
  /\ caller[c].stage \in {"lineage", "receipt"} => caller[c].final \in Overlay
  /\ caller[c].stage = "receipt" => Explained(profileEvents, caller[c].final, caller[c].seen)

\* The weights of an assembly are the base's, each by a bounded multiplier.
Weighed(final) ==
  \E M \in [ContextModels -> 750..1250] : final.weights = [m \in ContextModels |-> BaseWeight[m] * M[m]]

ProfilesInv ==
  /\ ProfilesTypeOK /\ FilesInv
  /\ \A c \in Callers : CallerInv(c)
  /\ \A receipt \in contextual : Explained(profileEvents, receipt.final, receipt.seen)
  /\ \A final \in finals : Weighed(final)

LEMMA ProfilesStart == ProfilesInit => ProfilesInv
<1> SUFFICES ASSUME ProfilesInit PROVE ProfilesInv
  OBVIOUS
<1>1. profileEvents = <<>> /\ DOMAIN profileEvents = {} /\ Len(profileEvents) = 0
  BY DEF ProfilesInit
<1>2. Resting \in CallerStates /\ Resting.stage = "idle"
  BY DEF Resting, CallerStates
<1>3. ProfilesTypeOK
  <2>1. profileEvents \in Seq(ProfileEventTypes)
    BY <1>1
  <2>2. caller \in [Callers -> CallerStates]
    BY <1>2 DEF ProfilesInit
  <2>3. finals = {} /\ contextual = {} /\ tornEvent = FALSE /\ shownEvents = 0 /\ callerDeaths = 0 /\ profileLease = Nobody
    BY DEF ProfilesInit
  <2>4. QED
    BY <2>1, <2>2, <2>3 DEF ProfilesTypeOK
<1>4. FilesInv
  <2>1. ChainAccepted(profileEvents)
    BY <1>1 DEF ChainAccepted
  <2>2. Registered(profileEvents) = {}
    BY <1>1 DEF Registered, Registrations
  <2>3. Exact(profileEvents) = {}
    BY <2>2 DEF Exact
  <2>4. QED
    BY <1>1, <2>1, <2>3 DEF ProfilesInit, FilesInv
<1>5. \A c \in Callers : CallerInv(c)
  BY <1>2, NobodyIsNothing DEF ProfilesInit, CallerInv
<1>6. contextual = {} /\ finals = {}
  BY DEF ProfilesInit
<1>7. QED
  BY <1>3, <1>4, <1>5, <1>6 DEF ProfilesInv

\* A process whose state nothing touches, while another takes, holds or
\* releases the lease.
LEMMA BystanderStays ==
  ASSUME NEW c \in Callers, CallerInv(c), caller'[c] = caller[c], profileLease # c, profileLease' # c,
         caller[c].stage = "receipt" => Explained(profileEvents', caller[c].final, caller[c].seen)
  PROVE  CallerInv(c)'
BY DEF CallerInv

LEMMA CallerStays ==
  ASSUME NEW c \in Callers, CallerInv(c), caller'[c] = caller[c], profileLease' = profileLease,
         profileEvents' = profileEvents, artifacts' = artifacts, callerDeaths' = 0 => callerDeaths = 0
  PROVE  CallerInv(c)'
BY DEF CallerInv

LEMMA BecomesIs ==
  ASSUME ProfilesTypeOK, NEW c \in Callers, NEW stage \in {"append", "project"},
         NEW event \in ProfileEventTypes \cup {Nobody}, Becomes(c, stage, event)
  PROVE  /\ caller' \in [Callers -> CallerStates]
         /\ caller'[c].stage = stage /\ caller'[c].event = event
         /\ \A d \in Callers \ {c} : caller'[d] = caller[d]
<1>1. PICK r : r = [Resting EXCEPT !.stage = stage, !.event = event]
  OBVIOUS
<1>2. r = [stage |-> stage, event |-> event, final |-> Nobody, seen |-> 0]
  BY <1>1 DEF Resting
<1>3. r \in CallerStates /\ r.stage = stage /\ r.event = event
  BY <1>2 DEF CallerStates
<1>4. caller' = [caller EXCEPT ![c] = r] /\ caller \in [Callers -> CallerStates]
  BY <1>1 DEF Becomes, ProfilesTypeOK
<1>5. QED
  BY <1>3, <1>4

LEMMA WeightsStay ==
  ASSUME ProfilesInv, finals' = finals
  PROVE  (\A final \in finals : Weighed(final))'
BY DEF ProfilesInv, Weighed

\* A step that writes no event, no receipt and no prediction.
LEMMA RecordsStay ==
  ASSUME ProfilesInv, profileEvents' = profileEvents, contextual' = contextual, finals' = finals
  PROVE  /\ (\A receipt \in contextual : Explained(profileEvents, receipt.final, receipt.seen))'
         /\ (\A final \in finals : Weighed(final))'
BY DEF ProfilesInv, Weighed

\* The first step of a call of the registry.
LEMMA TakeKeeps ==
  ASSUME ProfilesInv, NEW c \in Callers, TakeLease(c), NEW stage \in {"append", "project"},
         NEW event \in ProfileEventTypes \cup {Nobody}, Becomes(c, stage, event),
         UNCHANGED <<profileEvents, tornEvent, shownEvents, finals, contextual, callerDeaths>>,
         stage = "append" => event \in ProfileEventTypes /\ Fits(profileEvents, event),
         callerDeaths = 0 /\ stage = "append" => artifacts' = Exact(profileEvents) \cup Added(event),
         callerDeaths = 0 /\ stage = "project" => artifacts' = Exact(profileEvents)
  PROVE  ProfilesInv'
<1>1. /\ caller' \in [Callers -> CallerStates]
      /\ caller'[c].stage = stage /\ caller'[c].event = event
      /\ \A d \in Callers \ {c} : caller'[d] = caller[d]
  BY BecomesIs DEF ProfilesInv
<1>2. profileLease = Nobody /\ profileLease' = c /\ c # Nobody /\ ChainAccepted(profileEvents)
  BY NobodyIsNothing DEF TakeLease, EventsReadable
<1>3. ProfilesTypeOK'
  BY <1>1, <1>2 DEF ProfilesInv, ProfilesTypeOK
<1>4. FilesInv'
  BY <1>2 DEF ProfilesInv, FilesInv
<1>5. CallerInv(c)'
  BY <1>1, <1>2 DEF CallerInv
<1>6. ASSUME NEW d \in Callers \ {c} PROVE CallerInv(d)'
  <2>1. CallerInv(d) /\ caller'[d] = caller[d] /\ profileLease # d /\ profileLease' # d
    BY <1>1, <1>2, NobodyIsNothing DEF ProfilesInv
  <2>2. caller[d].stage = "receipt" => Explained(profileEvents', caller[d].final, caller[d].seen)
    BY <2>1 DEF CallerInv
  <2>3. QED
    BY <2>1, <2>2, BystanderStays
<1>7. \A d \in Callers : CallerInv(d)'
  BY <1>5, <1>6
<1>8. QED
  BY <1>3, <1>4, <1>7, RecordsStay DEF ProfilesInv

LEMMA RegisterProfileKeeps ==
  ASSUME ProfilesInv, NEW c \in Callers, NEW p \in ContextProfiles, NEW at \in ProfileTimes, RegisterProfile(c, p, at)
  PROVE  ProfilesInv'
<1>1. TakeLease(c) /\ UNCHANGED <<profileEvents, tornEvent, shownEvents, finals, contextual, callerDeaths>>
  BY DEF RegisterProfile
<1>2. callerDeaths = 0 => artifacts = Exact(profileEvents)
  BY <1>1 DEF TakeLease, ProfilesInv, FilesInv
<1>3. CASE Becomes(c, "project", Nobody) /\ UNCHANGED artifacts
  BY <1>1, <1>2, <1>3, TakeKeeps
<1>4. CASE /\ \A q \in Registered(profileEvents) : ~SameVersion(p, q)
           /\ artifacts' = artifacts \cup {ArtifactOf(p, at)}
           /\ Becomes(c, "append", ProfileEvent("PROFILE_REGISTERED", p, at, Nobody))
  <2>1. PICK e : e = ProfileEvent("PROFILE_REGISTERED", p, at, Nobody)
    OBVIOUS
  <2>2. e \in ProfileEventTypes /\ e.type = "PROFILE_REGISTERED" /\ e.profile = p /\ e.at = at
    BY <2>1 DEF ProfileEvent, ProfileEventTypes
  <2>3. Fits(profileEvents, e)
    BY <1>4, <2>2 DEF Fits, SameVersion
  <2>4. Added(e) = {ArtifactOf(p, at)}
    BY <2>2 DEF Added
  <2>5. callerDeaths = 0 => artifacts' = Exact(profileEvents) \cup Added(e)
    BY <1>2, <1>4, <2>4
  <2>6. Becomes(c, "append", e)
    BY <1>4, <2>1
  <2>7. QED
    BY <1>1, <2>2, <2>3, <2>5, <2>6, TakeKeeps
<1>5. QED
  BY <1>3, <1>4 DEF RegisterProfile

LEMMA ActivateProfileKeeps ==
  ASSUME ProfilesInv, NEW c \in Callers, NEW p \in ContextProfiles, NEW at \in ProfileTimes, ActivateProfile(c, p, at)
  PROVE  ProfilesInv'
<1>1. TakeLease(c) /\ UNCHANGED <<profileEvents, tornEvent, shownEvents, finals, contextual, callerDeaths>>
      /\ artifacts' = artifacts
  BY DEF ActivateProfile, profileFiles
<1>2. callerDeaths = 0 => artifacts' = Exact(profileEvents)
  BY <1>1 DEF TakeLease, ProfilesInv, FilesInv
<1>3. CASE Becomes(c, "project", Nobody)
  BY <1>1, <1>2, <1>3, TakeKeeps
<1>4. CASE Becomes(c, "append", ProfileEvent("PROFILE_ACTIVATED", p, at, ProfileOf(Current(profileEvents, p.model))))
  <2>1. PICK q : q = ProfileOf(Current(profileEvents, p.model))
    OBVIOUS
  <2>2. q \in ContextProfiles \cup {Nobody}
    <3>1. PICK S : S = Activations(profileEvents, p.model)
      OBVIOUS
    <3>2. S \in SUBSET DOMAIN profileEvents
      BY <3>1 DEF Activations
    <3>3. profileEvents \in Seq(ProfileEventTypes)
      BY DEF ProfilesInv, ProfilesTypeOK
    <3>4. ProfileOf(LastEvent(profileEvents, S)) \in ContextProfiles \cup {Nobody}
      BY <3>2, <3>3, LastProfile
    <3>5. QED
      BY <2>1, <3>1, <3>4 DEF Current
  <2>3. PICK e : e = ProfileEvent("PROFILE_ACTIVATED", p, at, q)
    OBVIOUS
  <2>4. /\ e \in ProfileEventTypes /\ e.type = "PROFILE_ACTIVATED" /\ e.profile = p
        /\ e.at = at /\ e.previous = q
    BY <2>2, <2>3 DEF ProfileEvent, ProfileEventTypes
  <2>5. /\ p \in Registered(profileEvents)
        /\ Current(profileEvents, p.model) # Nobody => Current(profileEvents, p.model).at <= at
    BY DEF ActivateProfile
  <2>6. Fits(profileEvents, e)
    BY <2>1, <2>4, <2>5 DEF Fits
  <2>7. Added(e) = {}
    BY <2>4 DEF Added
  <2>8. callerDeaths = 0 => artifacts' = Exact(profileEvents) \cup Added(e)
    BY <1>2, <2>7
  <2>9. Becomes(c, "append", e)
    BY <1>4, <2>1, <2>3
  <2>10. QED
    BY <1>1, <2>4, <2>6, <2>8, <2>9, TakeKeeps
<1>5. Becomes(c, "project", Nobody)
      \/ Becomes(c, "append", ProfileEvent("PROFILE_ACTIVATED", p, at, ProfileOf(Current(profileEvents, p.model))))
  BY DEF ActivateProfile
<1>6. QED
  BY <1>3, <1>4, <1>5

LEMMA RebuildProfilesKeeps ==
  ASSUME ProfilesInv, NEW c \in Callers, RebuildProfiles(c)
  PROVE  ProfilesInv'
<1>1. TakeLease(c) /\ UNCHANGED <<profileEvents, tornEvent, shownEvents, finals, contextual, callerDeaths>>
      /\ artifacts' = artifacts /\ Becomes(c, "project", Nobody)
  BY DEF RebuildProfiles, profileFiles
<1>2. callerDeaths = 0 => artifacts' = Exact(profileEvents)
  BY <1>1 DEF TakeLease, ProfilesInv, FilesInv
<1>3. QED
  BY <1>1, <1>2, TakeKeeps

LEMMA AppendProfileKeeps ==
  ASSUME ProfilesInv, NEW c \in Callers, AppendProfileEvent(c)
  PROVE  ProfilesInv'
<1>1. PICK ev, e, ev2 : ev = profileEvents /\ e = caller[c].event /\ ev2 = profileEvents'
  OBVIOUS
<1>2. /\ caller[c].stage = "append" /\ ev2 = Append(ev, e) /\ Becomes(c, "project", Nobody)
      /\ UNCHANGED <<tornEvent, shownEvents, artifacts, profileLease, finals, contextual, callerDeaths>>
  BY <1>1 DEF AppendProfileEvent
<1>3. ev \in Seq(ProfileEventTypes) /\ CallerInv(c)
  BY <1>1 DEF ProfilesInv, ProfilesTypeOK
<1>4. /\ e \in ProfileEventTypes /\ ChainAccepted(ev) /\ Fits(ev, e) /\ profileLease = c
      /\ callerDeaths = 0 => artifacts = Exact(ev) \cup Added(e)
  BY <1>1, <1>2, <1>3 DEF CallerInv
<1>5. Extended(ev, e, ev2)
  BY <1>2, <1>3, <1>4 DEF Extended
<1>6. Once(ev)
  BY <1>3, <1>4, ChainIsOnce
<1>7. e.type = "PROFILE_REGISTERED" => e.profile \notin Registered(ev)
  BY <1>4 DEF Fits, SameVersion
<1>8. Exact(ev2) = Exact(ev) \cup Added(e)
  BY <1>5, <1>6, <1>7, ExactGrows
<1>9. ChainAccepted(ev2) \/ Disordered(ev2)
  BY <1>4, <1>5, ChainGrows
<1>10. /\ caller' \in [Callers -> CallerStates]
       /\ caller'[c].stage = "project"
       /\ \A d \in Callers \ {c} : caller'[d] = caller[d]
  <2>1. ProfilesTypeOK
    BY DEF ProfilesInv
  <2>2. QED
    BY <1>2, <2>1, BecomesIs
<1>11. ProfilesTypeOK'
  <2>1. ev2 \in Seq(ProfileEventTypes)
    BY <1>5, OneMore
  <2>2. QED
    BY <1>1, <1>2, <1>10, <2>1 DEF ProfilesInv, ProfilesTypeOK
<1>12. FilesInv'
  BY <1>1, <1>2, <1>4, <1>9, NobodyIsNothing DEF ProfilesInv, FilesInv
<1>13. CallerInv(c)'
  BY <1>1, <1>2, <1>4, <1>8, <1>10 DEF CallerInv
<1>14. ASSUME NEW d \in Callers \ {c} PROVE CallerInv(d)'
  <2>1. CallerInv(d) /\ caller'[d] = caller[d] /\ profileLease # d /\ profileLease' # d
    BY <1>2, <1>4, <1>10 DEF ProfilesInv
  <2>2. caller[d].stage = "receipt" => Explained(ev2, caller[d].final, caller[d].seen)
    <3>1. SUFFICES ASSUME caller[d].stage = "receipt" PROVE Explained(ev2, caller[d].final, caller[d].seen)
      OBVIOUS
    <3>2. PICK f, s : f = caller[d].final /\ s = caller[d].seen
      OBVIOUS
    <3>3. f \in Overlay /\ Explained(ev, f, s)
      BY <1>1, <2>1, <3>1, <3>2 DEF CallerInv
    <3>4. f.at \in Int
      BY <3>3, InstantsAreNumbers DEF Overlay
    <3>5. QED
      BY <1>5, <3>2, <3>3, <3>4, ExplainedStays
  <2>3. QED
    BY <1>1, <2>1, <2>2, BystanderStays
<1>15. \A d \in Callers : CallerInv(d)'
  BY <1>13, <1>14
<1>16. \A receipt \in contextual : Explained(ev2, receipt.final, receipt.seen)
  <2>1. SUFFICES ASSUME NEW receipt \in contextual PROVE Explained(ev2, receipt.final, receipt.seen)
    OBVIOUS
  <2>2. receipt.final \in Overlay /\ Explained(ev, receipt.final, receipt.seen)
    BY <1>1 DEF ProfilesInv, ProfilesTypeOK
  <2>3. receipt.final.at \in Int
    BY <2>2, InstantsAreNumbers DEF Overlay
  <2>4. QED
    BY <1>5, <2>2, <2>3, ExplainedStays
<1>17. (\A final \in finals : Weighed(final))'
  <2>1. finals' = finals
    BY <1>2
  <2>2. QED
    BY <2>1, WeightsStay
<1>18. (\A receipt \in contextual : Explained(profileEvents, receipt.final, receipt.seen))'
  BY <1>1, <1>2, <1>16
<1>19. QED
  BY <1>11, <1>12, <1>15, <1>17, <1>18 DEF ProfilesInv

LEMMA ProjectProfilesKeeps ==
  ASSUME ProfilesInv, NEW c \in Callers, ProjectProfiles(c)
  PROVE  ProfilesInv'
<1>1. /\ caller[c].stage = "project" /\ shownEvents' = Len(profileEvents) /\ profileLease' = Nobody
      /\ caller' = [caller EXCEPT ![c] = Resting]
      /\ UNCHANGED <<profileEvents, tornEvent, artifacts, finals, contextual, callerDeaths>>
  BY DEF ProjectProfiles
<1>2. Resting \in CallerStates /\ Resting.stage = "idle"
  BY DEF Resting, CallerStates
<1>3. caller' \in [Callers -> CallerStates] /\ caller'[c] = Resting /\ \A d \in Callers \ {c} : caller'[d] = caller[d]
  BY <1>1, <1>2 DEF ProfilesInv, ProfilesTypeOK
<1>4. profileLease = c /\ (callerDeaths = 0 => artifacts = Exact(profileEvents))
  BY <1>1 DEF ProfilesInv, CallerInv
<1>5. ProfilesTypeOK'
  <2>1. Len(profileEvents) \in Nat
    BY DEF ProfilesInv, ProfilesTypeOK
  <2>2. QED
    BY <1>1, <1>3, <2>1 DEF ProfilesInv, ProfilesTypeOK
<1>6. FilesInv'
  BY <1>1, <1>4 DEF ProfilesInv, FilesInv
<1>7. CallerInv(c)'
  BY <1>1, <1>2, <1>3, NobodyIsNothing DEF CallerInv
<1>8. ASSUME NEW d \in Callers \ {c} PROVE CallerInv(d)'
  <2>1. CallerInv(d) /\ caller'[d] = caller[d] /\ profileLease # d /\ profileLease' # d
    BY <1>1, <1>3, <1>4, NobodyIsNothing DEF ProfilesInv
  <2>2. caller[d].stage = "receipt" => Explained(profileEvents', caller[d].final, caller[d].seen)
    BY <1>1, <2>1 DEF CallerInv
  <2>3. QED
    BY <2>1, <2>2, BystanderStays
<1>9. \A d \in Callers : CallerInv(d)'
  BY <1>7, <1>8
<1>10. profileEvents' = profileEvents /\ contextual' = contextual /\ finals' = finals
  BY <1>1
<1>11. QED
  BY <1>5, <1>6, <1>9, <1>10, RecordsStay DEF ProfilesInv

\* A step of an assembly: the registry, its files and its lease stay.
LEMMA AssemblyStep ==
  ASSUME ProfilesInv, NEW c \in Callers, NEW state \in CallerStates, caller[c].stage \notin {"append", "project"},
         caller' = [caller EXCEPT ![c] = state],
         UNCHANGED <<profileEvents, tornEvent, shownEvents, artifacts, profileLease, callerDeaths>>,
         state.stage \notin {"append", "project"},
         state.stage \in {"lineage", "receipt"} => state.final \in Overlay,
         state.stage = "receipt" => Explained(profileEvents, state.final, state.seen),
         finals' \subseteq Overlay, contextual' \subseteq [final : Overlay, seen : Nat]
  PROVE  ProfilesTypeOK' /\ FilesInv' /\ \A d \in Callers : CallerInv(d)'
<1>1. caller' \in [Callers -> CallerStates] /\ caller'[c] = state /\ \A d \in Callers \ {c} : caller'[d] = caller[d]
  BY DEF ProfilesInv, ProfilesTypeOK
<1>2. ProfilesTypeOK'
  BY <1>1 DEF ProfilesInv, ProfilesTypeOK
<1>3. FilesInv'
  BY DEF ProfilesInv, FilesInv
<1>4. CallerInv(c)'
  <2>1. profileLease # c
    BY DEF ProfilesInv, CallerInv
  <2>2. caller'[c].stage \notin {"append", "project"}
    BY <1>1
  <2>3. QED
    BY <1>1, <2>1, <2>2 DEF CallerInv
<1>5. ASSUME NEW d \in Callers \ {c} PROVE CallerInv(d)'
  <2>1. CallerInv(d) /\ caller'[d] = caller[d]
    BY <1>1 DEF ProfilesInv
  <2>2. QED
    BY <2>1, CallerStays
<1>6. QED
  BY <1>2, <1>3, <1>4, <1>5

LEMMA ContextualizeKeeps ==
  ASSUME ProfilesInv, NEW c \in Callers, NEW at \in AssemblyTimes, NEW frame \in ContextFrames,
         Contextualize(c, at, frame)
  PROVE  ProfilesInv'
<1>1. PICK profiles : profiles = Resolved(at)
  OBVIOUS
<1>2. PICK used : used = {profiles[n] : n \in ContextModels}
  OBVIOUS
<1>3. PICK M : M = [m \in ContextModels |-> Multiplier(profiles[m], frame, used)]
  OBVIOUS
<1>4. PICK weights : weights = [m \in ContextModels |-> BaseWeight[m] * Multiplier(profiles[m], frame, used)]
  OBVIOUS
<1>5. PICK final : final = [at |-> at, profiles |-> profiles, weights |-> weights]
  OBVIOUS
<1>6. /\ caller[c] = Resting /\ \A m \in ContextModels : profiles[m] # Nobody
      /\ finals' = finals \cup {final}
      /\ caller' = [caller EXCEPT ![c] = [Resting EXCEPT !.stage = "lineage", !.final = final]]
      /\ UNCHANGED <<profileEvents, tornEvent, shownEvents, artifacts, profileLease, contextual, callerDeaths>>
  BY <1>1, <1>2, <1>4, <1>5 DEF Contextualize, profileFiles
<1>7. profiles \in [ContextModels -> ContextProfiles]
  <2>1. ASSUME NEW m \in ContextModels PROVE profiles[m] \in ContextProfiles
    <3>1. PICK S : S = {i \in Activations(profileEvents, m) : profileEvents[i].at <= PolicyCutoff(at)}
      OBVIOUS
    <3>2. S \in SUBSET DOMAIN profileEvents /\ profileEvents \in Seq(ProfileEventTypes)
      BY <3>1 DEF Activations, ProfilesInv, ProfilesTypeOK
    <3>3. ProfileOf(LastEvent(profileEvents, S)) \in ContextProfiles \cup {Nobody}
      BY <3>2, LastProfile
    <3>4. profiles[m] = ProfileOf(LastEvent(profileEvents, S))
      BY <1>1, <3>1 DEF Resolved, ActiveAt
    <3>5. QED
      BY <1>6, <3>3, <3>4
  <2>2. profiles = [m \in ContextModels |-> profiles[m]]
    BY <1>1 DEF Resolved
  <2>3. QED
    BY <2>1, <2>2
<1>8. M \in [ContextModels -> 750..1250]
  <2>1. \A m \in ContextModels : Multiplier(profiles[m], frame, used) \in 750..1250
    BY <1>7, MultiplierIsBounded
  <2>2. QED
    BY <1>3, <2>1
<1>9. weights = [m \in ContextModels |-> BaseWeight[m] * M[m]]
  BY <1>3, <1>4
<1>10. weights \in [ContextModels -> Int]
  <2>1. \A m \in ContextModels : M[m] \in Int /\ BaseWeight[m] \in Int
    BY <1>8, WeightsAssumption DEF ContextModels
  <2>2. QED
    BY <1>9, <2>1
<1>11. final \in Overlay /\ Weighed(final)
  BY <1>5, <1>7, <1>8, <1>9, <1>10 DEF Overlay, Weighed
<1>12. PICK state : state = [Resting EXCEPT !.stage = "lineage", !.final = final]
  OBVIOUS
<1>13. state = [stage |-> "lineage", event |-> Nobody, final |-> final, seen |-> 0]
  BY <1>12 DEF Resting
<1>14. state \in CallerStates /\ state.stage = "lineage" /\ state.final \in Overlay
  BY <1>11, <1>13 DEF CallerStates
<1>15. caller[c].stage \notin {"append", "project"}
  BY <1>6 DEF Resting
<1>16. finals' \subseteq Overlay /\ contextual' \subseteq [final : Overlay, seen : Nat]
  BY <1>6, <1>11 DEF ProfilesInv, ProfilesTypeOK
<1>17. caller' = [caller EXCEPT ![c] = state]
  BY <1>6, <1>12
<1>18. ProfilesTypeOK' /\ FilesInv' /\ \A d \in Callers : CallerInv(d)'
  BY <1>6, <1>14, <1>15, <1>16, <1>17, AssemblyStep
<1>19. (\A receipt \in contextual : Explained(profileEvents, receipt.final, receipt.seen))'
  BY <1>6 DEF ProfilesInv
<1>20. \A f \in finals' : Weighed(f)
  BY <1>6, <1>11 DEF ProfilesInv
<1>21. (\A f \in finals : Weighed(f))'
  BY <1>20 DEF Weighed
<1>22. QED
  BY <1>18, <1>19, <1>21 DEF ProfilesInv

LEMMA CheckLineageKeeps ==
  ASSUME ProfilesInv, NEW c \in Callers, CheckLineage(c)
  PROVE  ProfilesInv'
<1>1. /\ caller[c].stage = "lineage"
      /\ UNCHANGED <<profileEvents, tornEvent, shownEvents, artifacts, profileLease, finals, contextual, callerDeaths>>
  BY DEF CheckLineage, profileFiles
<1>2. caller[c] \in CallerStates /\ caller[c].final \in Overlay
  BY <1>1 DEF ProfilesInv, ProfilesTypeOK, CallerInv
<1>3. ProfilesTypeOK' /\ FilesInv' /\ \A d \in Callers : CallerInv(d)'
  <2>1. CASE LineageHolds(caller[c].final)
    <3>1. PICK r, f : r = caller[c] /\ f = caller[c].final
      OBVIOUS
    <3>2. PICK state : state = [r EXCEPT !.stage = "receipt", !.seen = Len(profileEvents)]
      OBVIOUS
    <3>3. Len(profileEvents) \in Nat
      BY DEF ProfilesInv, ProfilesTypeOK
    <3>4. /\ state \in CallerStates /\ state.stage = "receipt" /\ state.final = f
          /\ state.seen = Len(profileEvents)
      BY <1>2, <3>1, <3>2, <3>3 DEF CallerStates
    <3>5. Explained(profileEvents, f, Len(profileEvents))
      <4>1. Resolved(f.at) = f.profiles
        BY <2>1, <3>1 DEF LineageHolds
      <4>2. \A m \in ContextModels : ActiveAt(profileEvents, m, PolicyCutoff(f.at)) = f.profiles[m]
        BY <4>1 DEF Resolved
      <4>3. QED
        BY <3>3, <4>2 DEF Explained
    <3>6. caller' = [caller EXCEPT ![c] = state]
      BY <2>1, <3>1, <3>2 DEF CheckLineage
    <3>7. caller[c].stage \notin {"append", "project"} /\ f \in Overlay
      BY <1>1, <1>2, <3>1
    <3>8. finals' \subseteq Overlay /\ contextual' \subseteq [final : Overlay, seen : Nat]
      BY <1>1 DEF ProfilesInv, ProfilesTypeOK
    <3>9. QED
      BY <1>1, <3>4, <3>5, <3>6, <3>7, <3>8, AssemblyStep
  <2>2. CASE ~ LineageHolds(caller[c].final)
    <3>1. caller' = [caller EXCEPT ![c] = Resting]
      BY <2>2 DEF CheckLineage
    <3>2. Resting \in CallerStates /\ Resting.stage = "idle"
      BY DEF Resting, CallerStates
    <3>3. finals' \subseteq Overlay /\ contextual' \subseteq [final : Overlay, seen : Nat]
      BY <1>1 DEF ProfilesInv, ProfilesTypeOK
    <3>4. QED
      BY <1>1, <3>1, <3>2, <3>3, AssemblyStep
  <2>3. QED
    BY <2>1, <2>2
<1>4. profileEvents' = profileEvents /\ contextual' = contextual /\ finals' = finals
  BY <1>1
<1>5. QED
  BY <1>3, <1>4, RecordsStay DEF ProfilesInv

LEMMA RecordReceiptKeeps ==
  ASSUME ProfilesInv, NEW c \in Callers, RecordReceipt(c)
  PROVE  ProfilesInv'
<1>1. /\ caller[c].stage = "receipt" /\ caller' = [caller EXCEPT ![c] = Resting]
      /\ UNCHANGED <<profileEvents, tornEvent, shownEvents, artifacts, profileLease, finals, callerDeaths>>
  BY DEF RecordReceipt, profileFiles
<1>2. PICK r : r = [final |-> caller[c].final, seen |-> caller[c].seen]
  OBVIOUS
<1>3. contextual' \subseteq contextual \cup {r}
  BY <1>2 DEF RecordReceipt
<1>4. r.final \in Overlay /\ r.seen \in Nat /\ Explained(profileEvents, r.final, r.seen)
  BY <1>1, <1>2 DEF ProfilesInv, ProfilesTypeOK, CallerInv, CallerStates
<1>5. r \in [final : Overlay, seen : Nat]
  BY <1>2, <1>4
<1>6. Resting \in CallerStates /\ Resting.stage = "idle"
  BY DEF Resting, CallerStates
<1>7. finals' \subseteq Overlay /\ contextual' \subseteq [final : Overlay, seen : Nat]
  BY <1>1, <1>3, <1>5 DEF ProfilesInv, ProfilesTypeOK
<1>8. ProfilesTypeOK' /\ FilesInv' /\ \A d \in Callers : CallerInv(d)'
  BY <1>1, <1>6, <1>7, AssemblyStep
<1>9. \A receipt \in contextual' : Explained(profileEvents, receipt.final, receipt.seen)
  BY <1>3, <1>4 DEF ProfilesInv
<1>10. (\A receipt \in contextual : Explained(profileEvents, receipt.final, receipt.seen))'
  BY <1>1, <1>9
<1>11. finals' = finals
  BY <1>1
<1>12. QED
  BY <1>8, <1>10, <1>11, WeightsStay DEF ProfilesInv

LEMMA CallerDiesKeeps ==
  ASSUME ProfilesInv, NEW c \in Callers, CallerDies(c)
  PROVE  ProfilesInv'
<1>1. /\ callerDeaths' = callerDeaths + 1 /\ callerDeaths \in Nat
      /\ tornEvent' \in {tornEvent, tornEvent \/ caller[c].stage = "append"}
      /\ profileLease' = IF profileLease = c THEN Nobody ELSE profileLease
      /\ caller' = [caller EXCEPT ![c] = Resting]
      /\ UNCHANGED <<profileEvents, shownEvents, artifacts, finals, contextual>>
  BY DEF CallerDies, ProfilesInv, ProfilesTypeOK
<1>2. callerDeaths' \in Nat /\ callerDeaths' # 0
  BY <1>1
<1>3. Resting \in CallerStates /\ Resting.stage = "idle"
  BY DEF Resting, CallerStates
<1>4. caller' \in [Callers -> CallerStates] /\ caller'[c] = Resting /\ \A d \in Callers \ {c} : caller'[d] = caller[d]
  BY <1>1, <1>3 DEF ProfilesInv, ProfilesTypeOK
<1>5. ProfilesTypeOK'
  <2>1. tornEvent' \in BOOLEAN
    BY <1>1 DEF ProfilesInv, ProfilesTypeOK
  <2>2. profileLease' \in Callers \cup {Nobody}
    BY <1>1 DEF ProfilesInv, ProfilesTypeOK
  <2>3. QED
    BY <1>1, <1>2, <1>4, <2>1, <2>2 DEF ProfilesInv, ProfilesTypeOK
<1>6. FilesInv'
  BY <1>1, <1>2 DEF ProfilesInv, FilesInv
<1>7. CallerInv(c)'
  BY <1>1, <1>3, <1>4, NobodyIsNothing DEF CallerInv
<1>8. ASSUME NEW d \in Callers \ {c} PROVE CallerInv(d)'
  <2>1. CallerInv(d) /\ caller'[d] = caller[d]
    BY <1>4 DEF ProfilesInv
  <2>2. CASE profileLease = c
    <3>1. profileLease # d /\ profileLease' # d
      BY <1>1, <2>2, NobodyIsNothing
    <3>2. caller[d].stage = "receipt" => Explained(profileEvents', caller[d].final, caller[d].seen)
      BY <1>1, <2>1 DEF CallerInv
    <3>3. QED
      BY <2>1, <3>1, <3>2, BystanderStays
  <2>3. CASE profileLease # c
    <3>1. profileLease' = profileLease /\ profileEvents' = profileEvents /\ artifacts' = artifacts
      BY <1>1, <2>3
    <3>2. callerDeaths' = 0 => callerDeaths = 0
      BY <1>2
    <3>3. QED
      BY <2>1, <3>1, <3>2, CallerStays
  <2>4. QED
    BY <2>2, <2>3
<1>9. \A d \in Callers : CallerInv(d)'
  BY <1>7, <1>8
<1>10. profileEvents' = profileEvents /\ contextual' = contextual /\ finals' = finals
  BY <1>1
<1>11. QED
  BY <1>5, <1>6, <1>9, <1>10, RecordsStay DEF ProfilesInv

LEMMA ProfilesStutter ==
  ASSUME ProfilesInv, UNCHANGED profileVars
  PROVE  ProfilesInv'
<1>1. /\ profileEvents' = profileEvents /\ tornEvent' = tornEvent /\ shownEvents' = shownEvents
      /\ artifacts' = artifacts /\ profileLease' = profileLease /\ caller' = caller
      /\ finals' = finals /\ contextual' = contextual /\ callerDeaths' = callerDeaths
  BY DEF profileVars, profileFiles
<1>2. ProfilesTypeOK'
  BY <1>1 DEF ProfilesInv, ProfilesTypeOK
<1>3. FilesInv'
  BY <1>1 DEF ProfilesInv, FilesInv
<1>4. \A d \in Callers : CallerInv(d)'
  BY <1>1, CallerStays DEF ProfilesInv
<1>5. QED
  BY <1>1, <1>2, <1>3, <1>4, RecordsStay DEF ProfilesInv

LEMMA ProfilesStep == ProfilesInv /\ [ProfilesNext]_profileVars => ProfilesInv'
<1> SUFFICES ASSUME ProfilesInv, [ProfilesNext]_profileVars PROVE ProfilesInv'
  OBVIOUS
<1>1. CASE UNCHANGED profileVars
  BY <1>1, ProfilesStutter
<1>2. ASSUME NEW c \in Callers, NEW p \in ContextProfiles, NEW at \in ProfileTimes,
             RegisterProfile(c, p, at) \/ ActivateProfile(c, p, at)
      PROVE  ProfilesInv'
  BY <1>2, RegisterProfileKeeps, ActivateProfileKeeps
<1>3. ASSUME NEW c \in Callers, NEW at \in AssemblyTimes, NEW frame \in ContextFrames, Contextualize(c, at, frame)
      PROVE  ProfilesInv'
  BY <1>3, ContextualizeKeeps
<1>4. ASSUME NEW c \in Callers, RebuildProfiles(c) \/ AppendProfileEvent(c) \/ ProjectProfiles(c)
      PROVE  ProfilesInv'
  BY <1>4, RebuildProfilesKeeps, AppendProfileKeeps, ProjectProfilesKeeps
<1>5. ASSUME NEW c \in Callers, CheckLineage(c) \/ RecordReceipt(c) \/ CallerDies(c)
      PROVE  ProfilesInv'
  BY <1>5, CheckLineageKeeps, RecordReceiptKeeps, CallerDiesKeeps
<1>6. QED
  BY <1>1, <1>2, <1>3, <1>4, <1>5 DEF ProfilesNext

LEMMA DisorderIs == Disordered(profileEvents) = RegistrationOutOfOrder
BY DEF Disordered, RegistrationOutOfOrder

LEMMA ValidWhenFree == ProfilesInv => CallsLeaveItValid
<1> SUFFICES ASSUME ProfilesInv, callerDeaths = 0, profileLease = Nobody, ~RegistrationOutOfOrder
             PROVE  ProfilesAccepted
  BY DEF CallsLeaveItValid
<1>1. ChainAccepted(profileEvents) /\ ~tornEvent /\ shownEvents = Len(profileEvents)
      /\ artifacts = Exact(profileEvents)
  BY DisorderIs DEF ProfilesInv, FilesInv
<1>2. QED
  BY <1>1 DEF ProfilesAccepted, EventsReadable, Exact

LEMMA ExplainedIs == ProfilesInv => ReceiptsStayExplained
<1> SUFFICES ASSUME ProfilesInv, NEW receipt \in contextual, NEW m \in ContextModels
             PROVE  Resolved(receipt.final.at)[m] = receipt.final.profiles[m] \/ Backdated(m, receipt)
  BY DEF ReceiptsStayExplained
<1>1. Explained(profileEvents, receipt.final, receipt.seen)
  BY DEF ProfilesInv
<1>2. \/ ActiveAt(profileEvents, m, PolicyCutoff(receipt.final.at)) = receipt.final.profiles[m]
      \/ \E i \in Activations(profileEvents, m) : i > receipt.seen /\ profileEvents[i].at < receipt.final.at
  BY <1>1 DEF Explained
<1>3. QED
  BY <1>2 DEF Resolved, Backdated

LEMMA Scaled ==
  \A k \in Nat : \A x, y \in Int : x <= y => k * x <= k * y
OBVIOUS

LEMMA WeighedIsBounded ==
  ASSUME NEW final, Weighed(final), NEW m \in ContextModels, NEW n \in ContextModels
  PROVE  final.weights[m] * BaseWeight[n] * 750 <= final.weights[n] * BaseWeight[m] * 1250
<1>1. PICK M \in [ContextModels -> 750..1250] : final.weights = [i \in ContextModels |-> BaseWeight[i] * M[i]]
  BY DEF Weighed
<1>2. PICK a \in Nat, b \in Nat : a = BaseWeight[m] /\ b = BaseWeight[n]
  <2>1. BaseWeight[m] \in Nat /\ BaseWeight[n] \in Nat
    BY WeightsAssumption DEF ContextModels
  <2>2. QED
    BY <2>1
<1>3. \A i \in ContextModels : M[i] \in 750..1250
  BY <1>1
<1>x. PICK x \in 750..1250 : x = M[m]
  BY <1>3
<1>y. PICK y \in 750..1250 : y = M[n]
  BY <1>3
<1>4. final.weights[m] = a * x /\ final.weights[n] = b * y
  BY <1>1, <1>2, <1>x, <1>y
<1>5. a * b \in Nat
  BY <1>2
<1>6. x * 750 <= y * 1250
  BY <1>x, <1>y
<1>7. (a * b) * (x * 750) <= (a * b) * (y * 1250)
  <2>1. x * 750 \in Int /\ y * 1250 \in Int
    BY <1>x, <1>y
  <2>2. QED
    BY <1>5, <1>6, <2>1, Scaled
<1>8. a * x * b * 750 = (a * b) * (x * 750) /\ b * y * a * 1250 = (a * b) * (y * 1250)
  BY <1>2, <1>x, <1>y
<1>9. a * x * b * 750 <= b * y * a * 1250
  BY <1>7, <1>8
<1>10. QED
  BY <1>2, <1>4, <1>9

LEMMA OverlaysAreBounded == ProfilesInv => OverlayIsBounded
<1> SUFFICES ASSUME ProfilesInv, NEW final \in finals, NEW m \in ContextModels, NEW n \in ContextModels
             PROVE  final.weights[m] * BaseWeight[n] * 750 <= final.weights[n] * BaseWeight[m] * 1250
  BY DEF OverlayIsBounded
<1>1. Weighed(final)
  BY DEF ProfilesInv
<1>2. QED
  BY <1>1, WeighedIsBounded

LEMMA ProfilesAlways == ProfilesSpec => []ProfilesInv
BY ProfilesStart, ProfilesStep, PTL DEF ProfilesSpec

\* While no process dies, register, activate and rebuild leave a registry that
\* validate_context_profile_registry accepts, unless a registration came out of
\* order.
THEOREM RegistryStaysValid == ProfilesSpec => []CallsLeaveItValid
BY ProfilesAlways, ValidWhenFree, PTL

\* A contextual receipt goes on naming the profiles its instant resolves to, and
\* no context moves the odds of two models beyond the bounds of the multiplier.
THEOREM OverlaysStand == ProfilesSpec => []OverlaysHold
<1>1. ProfilesInv => OverlaysHold
  BY ExplainedIs, OverlaysAreBounded DEF OverlaysHold
<1>2. QED
  BY <1>1, ProfilesAlways, PTL

=============================================================================
