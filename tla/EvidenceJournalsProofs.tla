----------------------- MODULE EvidenceJournalsProofs -----------------------
(***************************************************************************)
(* Proofs about EvidenceJournals for every set of processes, predictions    *)
(* and bounds.                                                              *)
(*                                                                          *)
(* The checks an append rests on are made before its lease is taken.  They  *)
(* stay true because the journals only grow: the invariant JobInv says, for *)
(* each process, that what its checks saw is still on record, and it        *)
(* survives every step of the others.  What growing could make false, that  *)
(* nothing is recorded under the key, is looked up inside the lease.        *)
(***************************************************************************)
EXTENDS EvidenceJournals, FiniteSetTheorems, TLAPS

ClaimSet == FactSet("predictions")
OutcomeSet == FactSet("outcomes")
ReceiptSet == FactSet("receipts")

FactsOf(j) == {f \in Facts :
    \/ j = "predictions" /\ f \in Base!Claims
    \/ j = "outcomes" /\ f \in Base!Outcomes
    \/ j = "receipts" /\ f \in Base!Receipts}
Entries(j) == [sequence : Nat, fact : FactsOf(j)]

LABELS == {"idle", "lines", "projections", "entries", "outcomes", "lease",
           "append", "project", "rebuild"}
Jobs == [op : {"none", "predict", "resolve", "assemble", "rebuild"},
         journal : JOURNALS \cup {None}, fact : Facts \cup {None}, count : Nat,
         view : [JOURNALS -> Nat], seen : SUBSET History, profile : Base!Profiles]

LogType ==
    /\ DOMAIN log = JOURNALS /\ log = [j \in JOURNALS |-> log[j]]
    /\ \A j \in JOURNALS : log[j] \in Seq(Entries(j))

Typed ==
    /\ projected \in [JOURNALS -> Nat]
    /\ lease \in Procs \cup {None}
    /\ pc \in [Procs -> LABELS]
    /\ job \in [Procs -> Jobs]

Leased == \A p \in Procs : lease = p <=> pc[p] \in {"append", "project"}
Behind == \A j \in JOURNALS : projected[j] <= Len(log[j])

\* A competence that was built from what is on record.
Backed(profile) ==
    /\ profile \in Base!Profiles
    /\ profile.claims \subseteq ClaimSet /\ profile.outcomes \subseteq OutcomeSet
    /\ \A o \in profile.outcomes : o.prediction \in Early

\* What a recorded fact rests on is on record.
Grounded(j, f) ==
    \/ j = "predictions" /\ f \in History \cup Components
    \/ /\ j = "predictions" /\ f \in Base!Blends
       /\ Components \subseteq ClaimSet
       /\ f.evidence \subseteq Base!Resolved(OutcomeSet) \cap Early
    \/ j = "outcomes" /\ f \in Base!Outcomes /\ f.prediction \in ClaimSet
    \/ /\ j = "receipts" /\ f \in Base!Receipts
       /\ f.blend \in ClaimSet /\ f.blend = Base!BlendFrom(f.profile)
       /\ Backed(f.profile)

\* An assembled prediction on its way to its receipt.
Assembled(p) ==
    /\ job[p].fact = Base!BlendFrom(job[p].profile)
    /\ Backed(job[p].profile)
    /\ Components \subseteq ClaimSet

JobInv(p) ==
    /\ pc[p] \in {"lines", "projections", "entries"} =>
          \/ job[p].op = "resolve" /\ job[p].journal = "outcomes"
             /\ job[p].fact \in Base!Outcomes
          \/ job[p].op = "assemble" /\ job[p].journal = "predictions"
    /\ pc[p] = "outcomes" =>
          /\ job[p].op = "assemble" /\ job[p].journal = "predictions"
          /\ job[p].seen \subseteq ClaimSet /\ Components \subseteq ClaimSet
    /\ pc[p] \in {"lines", "projections", "entries", "outcomes"}
          /\ job[p].op = "assemble" => job[p].fact = None \/ Assembled(p)
    /\ pc[p] \in {"lease", "append", "project"} =>
          /\ job[p].journal \in JOURNALS
          /\ Grounded(job[p].journal, job[p].fact)
          /\ job[p].op = "assemble" /\ job[p].journal = "predictions" => Assembled(p)
    /\ pc[p] = "append" => job[p].count = Len(log[job[p].journal]) /\ ~Recorded(p)
    /\ pc[p] \in {"project", "rebuild"} =>
          job[p].journal \in JOURNALS /\ job[p].count <= Len(log[job[p].journal])

IInv ==
    /\ LogType /\ Typed /\ Leased /\ Behind
    /\ \A p \in Procs : JobInv(p)
    /\ ChainIntact /\ OneFactPerKey

-----------------------------------------------------------------------------
(* What an append does to the facts on record.                              *)

\* Lookup by position is lookup in the set.
LEMMA FactSetIs ==
    ASSUME LogType, NEW j \in JOURNALS
    PROVE  /\ FactSet(j) \subseteq FactsOf(j)
           /\ \A f : f \in FactSet(j) <=> \E i \in 1..Len(log[j]) : log[j][i].fact = f
           /\ DOMAIN log[j] = 1..Len(log[j]) /\ Len(log[j]) \in Nat
<1>1. log[j] \in Seq(Entries(j))
  BY DEF LogType
<1>2. DOMAIN log[j] = 1..Len(log[j]) /\ Len(log[j]) \in Nat
      /\ \A i \in 1..Len(log[j]) : log[j][i] \in Entries(j)
  BY <1>1
<1> QED BY <1>2 DEF FactSet, Entries

\* An appended entry adds its fact and changes nothing else.
LEMMA AppendFacts ==
    ASSUME LogType, NEW k \in JOURNALS, NEW e \in Entries(k),
           log' = [log EXCEPT ![k] = Append(@, e)]
    PROVE  /\ LogType'
           /\ Len(log'[k]) = Len(log[k]) + 1 /\ Len(log[k]) \in Nat
           /\ log'[k][Len(log[k]) + 1] = e
           /\ \A i \in 1..Len(log[k]) : log'[k][i] = log[k][i]
           /\ \A j \in JOURNALS : j # k => log'[j] = log[j]
           /\ FactSet(k)' = FactSet(k) \cup {e.fact}
           /\ \A j \in JOURNALS : j # k => FactSet(j)' = FactSet(j)
<1>1. log'[k] = Append(log[k], e) /\ \A j \in JOURNALS : j # k => log'[j] = log[j]
  BY DEF LogType
<1>2. log[k] \in Seq(Entries(k))
  BY DEF LogType
<1>3. /\ log'[k] \in Seq(Entries(k))
      /\ Len(log'[k]) = Len(log[k]) + 1 /\ Len(log[k]) \in Nat
      /\ log'[k][Len(log[k]) + 1] = e
      /\ \A i \in 1..Len(log[k]) : log'[k][i] = log[k][i]
      /\ DOMAIN log'[k] = 1..(Len(log[k]) + 1) /\ DOMAIN log[k] = 1..Len(log[k])
  BY <1>1, <1>2
<1>4. LogType'
  <2>1. DOMAIN log' = JOURNALS /\ log' = [j \in JOURNALS |-> log'[j]]
    BY DEF LogType
  <2>2. ASSUME NEW j \in JOURNALS PROVE log'[j] \in Seq(Entries(j))
    BY <1>1, <1>3 DEF LogType
  <2> QED BY <2>1, <2>2 DEF LogType, Entries, FactsOf
<1>5. FactSet(k)' = FactSet(k) \cup {e.fact}
  <2>1. FactSet(k)' = {log'[k][i].fact : i \in DOMAIN log'[k]}
    BY DEF FactSet
  <2>2. FactSet(k) = {log[k][i].fact : i \in DOMAIN log[k]}
    BY DEF FactSet
  <2> QED BY <1>3, <2>1, <2>2
<1>6. \A j \in JOURNALS : j # k => FactSet(j)' = FactSet(j)
  BY <1>1 DEF FactSet
<1> QED BY <1>1, <1>3, <1>4, <1>5, <1>6

\* What rests on the record goes on resting on it as the journals grow.
LEMMA GroundedGrows ==
    ASSUME \A j \in JOURNALS : FactSet(j) \subseteq FactSet(j)'
    PROVE  /\ ClaimSet \subseteq ClaimSet'
           /\ \A c : Backed(c) => Backed(c)'
           /\ \A j, f : Grounded(j, f) => Grounded(j, f)'
           /\ \A p : Assembled(p) =>
                \A q : job'[q].fact = job[p].fact /\ job'[q].profile = job[p].profile
                        => Assembled(q)'
<1>1. ClaimSet \subseteq ClaimSet' /\ OutcomeSet \subseteq OutcomeSet'
  BY DEF ClaimSet, OutcomeSet, JOURNALS
<1>2. Base!Resolved(OutcomeSet) \subseteq Base!Resolved(OutcomeSet)'
  BY <1>1 DEF Base!Resolved
<1>3. ASSUME NEW f, Backed(f) PROVE Backed(f)'
  BY <1>1, <1>3 DEF Backed, Base!Profiles, Base!Outcomes, Base!STATUSES
<1>4. ASSUME NEW j, NEW f, Grounded(j, f) PROVE Grounded(j, f)'
  BY <1>1, <1>2, <1>3, <1>4 DEF Grounded, Base!Blends, Base!Outcomes, Base!STATUSES,
     Base!Receipts, Base!Profiles, Base!BlendFrom, Base!Resolved
<1>5. ASSUME NEW p, Assembled(p), NEW q, job'[q].fact = job[p].fact,
             job'[q].profile = job[p].profile
      PROVE  Assembled(q)'
  BY <1>1, <1>3, <1>5 DEF Assembled, Base!BlendFrom, Base!Resolved
<1> QED BY <1>1, <1>3, <1>4, <1>5

\* What one process relies on survives the growth of the journals by others.
LEMMA JobInvStable ==
    ASSUME NEW q \in Procs, JobInv(q), job[q].count \in Nat, LogType, LogType',
           pc'[q] = pc[q], job'[q] = job[q],
           \A j \in JOURNALS : FactSet(j) \subseteq FactSet(j)',
           \A j \in JOURNALS : Len(log[j]) <= Len(log'[j]),
           pc[q] = "append" => log' = log
    PROVE  JobInv(q)'
<1>4. ASSUME NEW j, NEW f, Grounded(j, f) PROVE Grounded(j, f)'
  BY <1>4, GroundedGrows
<1>5. ClaimSet \subseteq ClaimSet' /\ (Assembled(q) => Assembled(q)')
  BY GroundedGrows
<1>6. \A j \in JOURNALS : Len(log[j]) \in Nat /\ Len(log'[j]) \in Nat
  BY DEF LogType
<1>7. pc[q] = "append" => (~Recorded(q) => ~Recorded(q)')
  BY DEF Recorded, FactSet, Key
<1>8. Base!Outcomes = Base!Outcomes'
  BY DEF Base!Outcomes, Base!STATUSES
<1>9. pc[q] \in {"lines", "projections", "entries", "outcomes"} => JobInv(q)'
  <2> HAVE pc[q] \in {"lines", "projections", "entries", "outcomes"}
  <2> QED BY <1>5, <1>8, Zenon DEF JobInv
<1>10. pc[q] \in {"lease", "append"} => JobInv(q)'
  BY <1>4, <1>5, <1>7 DEF JobInv
<1>11. pc[q] \in {"project", "rebuild"} => JobInv(q)'
  BY <1>4, <1>5, <1>6 DEF JobInv
<1> QED BY <1>9, <1>10, <1>11 DEF JobInv

-----------------------------------------------------------------------------
(* The invariant is inductive.                                              *)

\* A step of one process that writes no line disturbs only its own part.
LEMMA LogKept ==
    ASSUME IInv, NEW p \in Procs, log' = log, Typed', Leased', Behind', JobInv(p)',
           \A q \in Procs \ {p} : pc'[q] = pc[q] /\ job'[q] = job[q]
    PROVE  IInv'
<1>1. LogType' /\ ChainIntact' /\ OneFactPerKey'
  BY DEF IInv, LogType, Entries, FactsOf, ChainIntact, OneFactPerKey, Key
<1>2. \A j \in JOURNALS : FactSet(j) \subseteq FactSet(j)' /\ Len(log[j]) \in Nat
  BY DEF FactSet, IInv, LogType
<1>3. ASSUME NEW q \in Procs \ {p} PROVE JobInv(q)'
  <2>1. job[q].count \in Nat
    BY DEF IInv, Typed, Jobs
  <2> QED BY <1>1, <1>2, <1>3, <2>1, JobInvStable DEF IInv
<1> QED BY <1>1, <1>3 DEF IInv

\* A process between calls has a job of the right type.
LEMMA IdleIsJob == Idle \in Jobs
BY DEF Idle, Jobs, NoView, NoProfile, Base!Profiles

\* Returning, refused or done, is safe for whoever leaves the lease as it was
\* or gives it up.
LEMMA ReturnKeeps ==
    ASSUME IInv, NEW p \in Procs, Return(p), UNCHANGED log,
           projected' \in [JOURNALS -> Nat], Behind',
           pc[p] \in {"append", "project"} => lease' = None,
           pc[p] \notin {"append", "project"} => lease' = lease
    PROVE  IInv'
<1>1. Typed /\ Leased
  BY DEF IInv
<1>2. pc' = [pc EXCEPT ![p] = "idle"] /\ job' = [job EXCEPT ![p] = Idle]
  BY DEF Return, GoTo
<1>3. Typed'
  BY <1>1, <1>2, IdleIsJob DEF Typed, LABELS
<1>4. Leased'
  BY <1>1, <1>2, NoneAssumption DEF Leased, Typed
<1>5. JobInv(p)'
  BY <1>1, <1>2 DEF JobInv, Typed
<1> QED BY <1>1, <1>2, <1>3, <1>4, <1>5, LogKept DEF Typed

\* Empty journals satisfy it.
LEMMA InitIInv == Init => IInv
<1> SUFFICES ASSUME Init PROVE IInv
  OBVIOUS
<1>1. \A j \in JOURNALS : log[j] = <<>>
  BY DEF Init
<1>2. LogType /\ ChainIntact /\ OneFactPerKey
  BY <1>1 DEF Init, LogType, ChainIntact, OneFactPerKey
<1>3. Typed /\ Leased
  BY NoneAssumption, IdleIsJob DEF Init, Typed, Leased, LABELS
<1>4. Behind
  BY <1>1 DEF Init, Behind
<1>5. \A p \in Procs : JobInv(p)
  BY DEF Init, JobInv
<1> QED BY <1>2, <1>3, <1>4, <1>5 DEF IInv

\* A step outside the lease that keeps out of it.
LEMMA MoveKeeps ==
    ASSUME IInv, NEW p \in Procs, NEW l \in LABELS \ {"append", "project"}, NEW b \in Jobs,
           pc[p] \notin {"append", "project"}, GoTo(p, l), job' = [job EXCEPT ![p] = b],
           UNCHANGED <<files, lease>>, JobInv(p)'
    PROVE  IInv'
<1>1. Typed /\ Leased /\ Behind /\ UNCHANGED <<log, projected>>
  BY DEF IInv, files
<1>2. Typed'
  BY <1>1 DEF Typed, GoTo
<1>3. Leased'
  BY <1>1 DEF Leased, Typed, GoTo
<1>4. Behind'
  BY <1>1 DEF Behind
<1> QED BY <1>1, <1>2, <1>3, <1>4, LogKept DEF Typed, GoTo

\* Predict, Resolve, Assemble and the reading half of rebuild_state.
LEMMA CallsKeep ==
    ASSUME IInv, NEW p \in Procs,
           \/ \E c \in History \cup Components : Predict(p, c)
           \/ \E o \in Base!Outcomes : Resolve(p, o)
           \/ Assemble(p)
           \/ \E j \in JOURNALS : RebuildReads(p, j)
    PROVE  IInv'
<1>1. Typed /\ LogType /\ Idle \in Jobs
  BY IdleIsJob DEF IInv
<1>2. ASSUME NEW c \in History \cup Components, Predict(p, c) PROVE IInv'
  <2> DEFINE b == [Idle EXCEPT !.op = "predict", !.fact = c, !.journal = "predictions"]
  <2>1. c \in Facts
    BY DEF Facts, Base!Claims
  <2>2. b \in Jobs
    BY <1>1, <2>1 DEF Jobs, JOURNALS
  <2>3. job'[p] = b /\ pc'[p] = "lease"
    BY <1>1, <1>2 DEF Predict, GoTo, Typed
  <2>4. JobInv(p)'
    BY <2>2, <2>3 DEF JobInv, Grounded, JOURNALS, Idle
  <2> QED BY <1>2, <2>2, <2>4, MoveKeeps DEF Predict, LABELS
<1>3. ASSUME NEW o \in Base!Outcomes, Resolve(p, o) PROVE IInv'
  <2> DEFINE b == [Idle EXCEPT !.op = "resolve", !.fact = o, !.journal = "outcomes"]
  <2>1. b \in Jobs
    BY <1>1 DEF Jobs, JOURNALS, Facts
  <2>2. job'[p] = b /\ pc'[p] = "lines"
    BY <1>1, <1>3 DEF Resolve, GoTo, Typed
  <2>3. Base!Outcomes' = Base!Outcomes
    BY DEF Base!Outcomes, Base!STATUSES
  <2>4. JobInv(p)'
    BY <2>1, <2>2, <2>3 DEF JobInv, Idle
  <2> QED BY <1>3, <2>1, <2>4, MoveKeeps DEF Resolve, LABELS
<1>4. ASSUME Assemble(p) PROVE IInv'
  <2> DEFINE b == [Idle EXCEPT !.op = "assemble", !.journal = "predictions"]
  <2>1. b \in Jobs
    BY <1>1 DEF Jobs, JOURNALS
  <2>2. job'[p] = b /\ pc'[p] = "lines"
    BY <1>1, <1>4 DEF Assemble, GoTo, Typed
  <2>3. JobInv(p)'
    BY <2>1, <2>2 DEF JobInv, Idle
  <2> QED BY <1>4, <2>1, <2>3, MoveKeeps DEF Assemble, LABELS
<1>5. ASSUME NEW j \in JOURNALS, RebuildReads(p, j) PROVE IInv'
  <2> DEFINE b == [Idle EXCEPT !.op = "rebuild", !.journal = j, !.count = Len(log[j])]
  <2>1. Len(log[j]) \in Nat
    BY <1>1 DEF LogType
  <2>2. b \in Jobs
    BY <1>1, <2>1 DEF Jobs
  <2>3. job'[p] = b /\ pc'[p] = "rebuild" /\ log' = log
    BY <1>1, <1>5 DEF RebuildReads, GoTo, Typed, files
  <2>4. JobInv(p)'
    BY <2>1, <2>2, <2>3 DEF JobInv, Idle
  <2> QED BY <1>5, <2>2, <2>4, MoveKeeps DEF RebuildReads, LABELS
<1> QED BY <1>2, <1>3, <1>4, <1>5

\* Refused, outside the lease.
LEMMA RefuseKeeps ==
    ASSUME IInv, NEW p \in Procs, Return(p), UNCHANGED <<files, lease>>,
           pc[p] \notin {"append", "project"}
    PROVE  IInv'
<1>1. projected' \in [JOURNALS -> Nat] /\ Behind' /\ UNCHANGED log
  BY DEF IInv, Typed, Behind, files
<1> QED BY <1>1, ReturnKeeps

\* An assembled prediction is one as long as its job is and nothing is lost.
LEMMA AssembledKept ==
    ASSUME NEW p \in Procs, log' = log, Assembled(p),
           job'[p].fact = job[p].fact, job'[p].profile = job[p].profile
    PROVE  Assembled(p)'
<1>1. \A j \in JOURNALS : FactSet(j) \subseteq FactSet(j)'
  BY DEF FactSet
<1> QED BY <1>1, GroundedGrows

\* So does what a fact rests on.
LEMMA GroundedKept ==
    ASSUME log' = log, NEW j, NEW f, Grounded(j, f)
    PROVE  Grounded(j, f)'
<1>1. \A k \in JOURNALS : FactSet(k) \subseteq FactSet(k)'
  BY DEF FactSet
<1> QED BY <1>1, GroundedGrows

\* An assembled prediction is ready for the lease.
LEMMA LeaseReady ==
    ASSUME NEW p \in Procs, log' = log, NEW c, Backed(c), Components \subseteq ClaimSet,
           Grounded("predictions", Base!BlendFrom(c)), pc'[p] = "lease",
           job'[p].journal = "predictions", job'[p].fact = Base!BlendFrom(c),
           job'[p].profile = c
    PROVE  JobInv(p)'
<1>1. ClaimSet' = ClaimSet /\ OutcomeSet' = OutcomeSet
  BY DEF ClaimSet, OutcomeSet, FactSet
<1>2. Grounded("predictions", job[p].fact)'
  BY GroundedKept
<1>3. Backed(job[p].profile)'
  BY <1>1 DEF Backed, Base!Profiles, Base!Outcomes, Base!STATUSES
<1>4. Assembled(p)'
  BY <1>1, <1>3 DEF Assembled, Base!BlendFrom, Base!Resolved
<1> QED BY <1>2, <1>4 DEF JobInv, JOURNALS

\* What a process knows of competence was read from the record.
LEMMA CompetenceBacked ==
    ASSUME IInv, NEW p \in Procs, pc[p] = "outcomes"
    PROVE  Backed(Competence(p))
<1>1. job[p].seen \subseteq ClaimSet /\ job[p].seen \subseteq History
  BY DEF IInv, JobInv, Typed, Jobs
<1>2. OutcomeSet \subseteq Base!Outcomes
  <2>1. OutcomeSet \subseteq FactsOf("outcomes")
    BY FactSetIs DEF OutcomeSet, JOURNALS, IInv
  <2> QED BY <2>1 DEF FactsOf
<1> QED BY <1>1, <1>2 DEF Competence, Backed, Base!Profiles, OutcomeSet

\* The prediction assembled from it is one, and rests on the same record.
LEMMA BlendGrounded ==
    ASSUME NEW profile, Backed(profile), Components \subseteq ClaimSet, LogType
    PROVE  /\ Base!BlendFrom(profile) \in Base!Blends \cap Facts
           /\ Grounded("predictions", Base!BlendFrom(profile))
<1>1. profile.outcomes \subseteq Base!Outcomes
  BY DEF Backed, Base!Profiles
<1>2. Base!Resolved(profile.outcomes) \subseteq History
  BY <1>1 DEF Base!Resolved, Base!Outcomes
<1>3. Base!Resolved(profile.outcomes) \subseteq Base!Resolved(OutcomeSet) \cap Early
  BY DEF Base!Resolved, Backed
<1> QED BY <1>2, <1>3 DEF Base!BlendFrom, Base!Blends, Grounded, Facts, Base!Claims

\* The checks outside the lease.
LEMMA ChecksKeep ==
    ASSUME IInv, NEW p \in Procs, Check(p)
    PROVE  IInv'
<1> USE DEF LABELS
<1>1. /\ Typed /\ LogType /\ JobInv(p) /\ job[p] \in Jobs /\ pc[p] \in LABELS
  BY DEF IInv, Typed
<1>2. CASE ReadLines(p)
  <2> DEFINE v == [j \in JOURNALS |-> Len(log[j])]
             b == [job[p] EXCEPT !.view = v]
  <2>1. v \in [JOURNALS -> Nat]
    BY <1>1 DEF LogType
  <2>2. b \in Jobs
    BY <1>1, <2>1 DEF Jobs
  <2>3. job' = [job EXCEPT ![p] = b] /\ job'[p] = b /\ pc'[p] = "projections"
        /\ UNCHANGED log
    BY <1>1, <1>2 DEF ReadLines, GoTo, Typed, files
  <2>4. /\ b.op = job[p].op /\ b.journal = job[p].journal /\ b.fact = job[p].fact
        /\ b.profile = job[p].profile
    BY <1>1 DEF Jobs
  <2>5. JobInv(p)'
    <3>1. Base!Outcomes' = Base!Outcomes
      BY DEF Base!Outcomes, Base!STATUSES
    <3>2. Assembled(p) => Assembled(p)'
      BY <2>3, <2>4, AssembledKept
    <3> QED BY <1>1, <1>2, <2>3, <2>4, <3>1, <3>2 DEF JobInv, ReadLines
  <2> QED BY <1>1, <1>2, <2>2, <2>3, <2>5, MoveKeeps DEF ReadLines
<1>3. CASE ReadProjections(p)
  <2>1. CASE Return(p)
    BY <1>3, <2>1, RefuseKeeps DEF ReadProjections
  <2>2. CASE GoTo(p, "entries") /\ job' = [job EXCEPT ![p].view = NoView]
    <3> DEFINE b == [job[p] EXCEPT !.view = NoView]
    <3>1. b \in Jobs
      BY <1>1 DEF Jobs, NoView
    <3>2. job' = [job EXCEPT ![p] = b] /\ job'[p] = b /\ pc'[p] = "entries"
          /\ UNCHANGED log
      BY <1>1, <1>3, <2>2 DEF ReadProjections, GoTo, Typed, files
    <3>3. /\ b.op = job[p].op /\ b.journal = job[p].journal /\ b.fact = job[p].fact
          /\ b.profile = job[p].profile
      BY <1>1 DEF Jobs
    <3>4. JobInv(p)'
      <4>1. Base!Outcomes' = Base!Outcomes
        BY DEF Base!Outcomes, Base!STATUSES
      <4>2. Assembled(p) => Assembled(p)'
        BY <3>2, <3>3, AssembledKept
      <4> QED BY <1>1, <1>3, <3>2, <3>3, <4>1, <4>2 DEF JobInv, ReadProjections
    <3> QED BY <1>1, <1>3, <2>2, <3>1, <3>2, <3>4, MoveKeeps DEF ReadProjections
  <2> QED BY <1>3, <2>1, <2>2 DEF ReadProjections
<1>4. CASE CheckOutcome(p)
  <2>1. CASE Return(p)
    BY <1>4, <2>1, RefuseKeeps DEF CheckOutcome
  <2>2. CASE job[p].fact.prediction \in FactSet("predictions") /\ GoTo(p, "lease")
             /\ UNCHANGED job
    <3>1. job' = [job EXCEPT ![p] = job[p]] /\ job'[p] = job[p] /\ pc'[p] = "lease"
      BY <1>1, <2>2 DEF GoTo, Typed
    <3>2. job[p].journal = "outcomes" /\ job[p].op = "resolve"
          /\ job[p].fact \in Base!Outcomes
      BY <1>1, <1>4 DEF CheckOutcome, JobInv
    <3>3. ClaimSet' = ClaimSet /\ Base!Outcomes' = Base!Outcomes
      BY <1>4 DEF CheckOutcome, files, ClaimSet, FactSet, Base!Outcomes, Base!STATUSES
    <3>4. Grounded("outcomes", job[p].fact)'
      BY <2>2, <3>2, <3>3 DEF Grounded, ClaimSet
    <3>5. JobInv(p)'
      BY <3>1, <3>2, <3>4 DEF JobInv, JOURNALS
    <3> QED BY <1>1, <1>4, <2>2, <3>1, <3>5, MoveKeeps DEF CheckOutcome
  <2> QED BY <1>4, <2>1, <2>2 DEF CheckOutcome
<1>5. CASE ReadClaims(p)
  <2> DEFINE b == [job[p] EXCEPT !.seen = FactSet("predictions") \cap History]
  <2>1. CASE Return(p)
    BY <1>5, <2>1, RefuseKeeps DEF ReadClaims
  <2>2. CASE /\ Components \subseteq FactSet("predictions")
             /\ job' = [job EXCEPT ![p] = b] /\ GoTo(p, "outcomes")
    <3>1. b \in Jobs
      BY <1>1 DEF Jobs
    <3>2. job'[p] = b /\ pc'[p] = "outcomes" /\ UNCHANGED log
      BY <1>1, <1>5, <2>2 DEF ReadClaims, GoTo, Typed, files
    <3>3. /\ b.op = "assemble" /\ b.journal = "predictions" /\ b.fact = job[p].fact
          /\ b.profile = job[p].profile /\ b.seen \subseteq ClaimSet
          /\ Components \subseteq ClaimSet /\ ClaimSet' = ClaimSet
      BY <1>1, <1>5, <2>2, <3>2 DEF Jobs, JobInv, ReadClaims, ClaimSet, FactSet
    <3>4. job[p].fact = None \/ Assembled(p)
      BY <1>1, <1>5 DEF JobInv, ReadClaims
    <3>5. Assembled(p) => Assembled(p)'
      BY <3>2, <3>3, AssembledKept
    <3>6. JobInv(p)'
      BY <3>2, <3>3, <3>4, <3>5 DEF JobInv
    <3> QED BY <1>1, <1>5, <2>2, <3>1, <3>6, MoveKeeps DEF ReadClaims
  <2> QED BY <1>5, <2>1, <2>2 DEF ReadClaims
<1>6. CASE Blend(p)
  <2> DEFINE c == Competence(p)
             b == [job[p] EXCEPT !.profile = c, !.seen = {}, !.fact = Base!BlendFrom(c)]
  <2>1. Backed(c) /\ Components \subseteq ClaimSet /\ job[p].journal = "predictions"
    BY <1>1, <1>6, CompetenceBacked DEF Blend, JobInv
  <2>2. Base!BlendFrom(c) \in Facts /\ Grounded("predictions", Base!BlendFrom(c))
    BY <1>1, <2>1, BlendGrounded
  <2>3. b \in Jobs
    BY <1>1, <2>1, <2>2 DEF Jobs, Backed
  <2>4. job' = [job EXCEPT ![p] = b] /\ job'[p] = b /\ pc'[p] = "lease" /\ UNCHANGED log
    BY <1>1, <1>6 DEF Blend, GoTo, Typed, files
  <2>5. b.journal = "predictions" /\ b.fact = Base!BlendFrom(c) /\ b.profile = c
    BY <1>1, <2>1 DEF Jobs
  <2>6. JobInv(p)'
    BY <2>1, <2>2, <2>4, <2>5, LeaseReady
  <2> QED BY <1>1, <1>6, <2>3, <2>4, <2>6, MoveKeeps DEF Blend
<1>7. CASE CheckReceipt(p)
  <2>1. CASE Return(p)
    BY <1>7, <2>1, RefuseKeeps DEF CheckReceipt
  <2>2. CASE ~Return(p)
    <3> DEFINE r == [blend |-> job[p].fact, profile |-> job[p].profile]
               b == [job[p] EXCEPT !.journal = "receipts", !.seen = {}, !.fact = r]
    <3>1. /\ job[p].fact \in ClaimSet /\ job' = [job EXCEPT ![p] = b] /\ GoTo(p, "lease")
          /\ UNCHANGED log
      BY <1>7, <2>2 DEF CheckReceipt, ClaimSet, files
    <3>2. Assembled(p)
      BY <1>1, <1>7 DEF JobInv, CheckReceipt
    <3>3. job[p].fact \in Base!Blends
      BY <1>1, <3>2, BlendGrounded DEF Assembled
    <3>4. r \in Base!Receipts /\ r \in Facts /\ Grounded("receipts", r)
      BY <3>1, <3>2, <3>3 DEF Base!Receipts, Facts, Grounded, Assembled, Backed
    <3>5. b \in Jobs
      BY <1>1, <3>4 DEF Jobs, JOURNALS
    <3>6. job'[p] = b /\ pc'[p] = "lease"
      BY <1>1, <3>1 DEF GoTo, Typed
    <3>7. b.journal = "receipts" /\ b.fact = r
      BY <1>1 DEF Jobs
    <3>8. ASSUME NEW f, Grounded("receipts", f) PROVE Grounded("receipts", f)'
      BY <3>1, <3>8, GroundedKept
    <3> HIDE DEF r
    <3>9. JobInv(p)'
      BY <3>4, <3>6, <3>7, <3>8 DEF JobInv, JOURNALS
    <3> QED BY <1>1, <1>7, <3>1, <3>5, <3>9, MoveKeeps DEF CheckReceipt
  <2> QED BY <2>1, <2>2
<1> QED BY <1>2, <1>3, <1>4, <1>5, <1>6, <1>7 DEF Check

\* After its append or its retry, a call returns or goes on with the receipt.
LEMMA ContinueKeeps ==
    ASSUME IInv, NEW p \in Procs, Continue(p), UNCHANGED log,
           projected' \in [JOURNALS -> Nat], Behind', pc[p] \in {"lease", "project"},
           pc[p] = "project" => lease' = None,
           pc[p] = "lease" => lease' = lease
    PROVE  IInv'
<1>1. Typed /\ Leased /\ JobInv(p) /\ job[p] \in Jobs
  BY DEF IInv, Typed
<1>2. CASE Return(p)
  BY <1>2, ReturnKeeps
<1>3. CASE job[p].op = "assemble" /\ job[p].journal = "predictions"
  <2> DEFINE b == [job[p] EXCEPT !.count = 0]
  <2>1. GoTo(p, "lines") /\ job' = [job EXCEPT ![p] = b]
    BY <1>3 DEF Continue
  <2>2. b \in Jobs
    BY <1>1 DEF Jobs
  <2>3. job'[p] = b /\ pc' = [pc EXCEPT ![p] = "lines"] /\ pc'[p] = "lines"
    BY <1>1, <2>1 DEF GoTo, Typed
  <2>4. /\ b.op = "assemble" /\ b.journal = "predictions" /\ b.fact = job[p].fact
        /\ b.profile = job[p].profile
    BY <1>1, <1>3 DEF Jobs
  <2>5. Assembled(p)'
    <3>1. Assembled(p)
      BY <1>1, <1>3 DEF JobInv
    <3> QED BY <2>3, <2>4, <3>1, AssembledKept
  <2>6. JobInv(p)'
    BY <2>3, <2>4, <2>5 DEF JobInv
  <2>7. Typed'
    BY <1>1, <2>1, <2>2, <2>3, NoneAssumption DEF Typed, LABELS
  <2>8. Leased'
    BY <1>1, <2>3, NoneAssumption DEF Leased, Typed
  <2> QED BY <1>1, <2>1, <2>3, <2>6, <2>7, <2>8, LogKept DEF Typed
<1> QED BY <1>2, <1>3 DEF Continue

\* Taking the lease, with the entries counted.
LEMMA TakeKeeps ==
    ASSUME IInv, NEW p \in Procs, NEW l \in {"append", "project"}, pc[p] = "lease",
           lease = None, lease' = p, GoTo(p, l), UNCHANGED files,
           job' = [job EXCEPT ![p].count = Len(log[job[p].journal])],
           l = "append" => ~Recorded(p)
    PROVE  IInv'
<1>1. Typed /\ Leased /\ LogType /\ Behind /\ JobInv(p) /\ job[p] \in Jobs
  BY DEF IInv, Typed
<1> DEFINE n == Len(log[job[p].journal])
           b == [job[p] EXCEPT !.count = n]
<1>2. job[p].journal \in JOURNALS /\ Grounded(job[p].journal, job[p].fact)
  BY <1>1 DEF JobInv
<1>3. n \in Nat
  BY <1>1, <1>2 DEF LogType
<1>4. b \in Jobs
  BY <1>1, <1>3 DEF Jobs
<1>5. /\ job' = [job EXCEPT ![p] = b] /\ job'[p] = b /\ UNCHANGED <<log, projected>>
      /\ pc' = [pc EXCEPT ![p] = l] /\ pc'[p] = l
  BY <1>1 DEF GoTo, Typed, files
<1>6. /\ b.op = job[p].op /\ b.journal = job[p].journal /\ b.fact = job[p].fact
      /\ b.profile = job[p].profile /\ b.count = n
  BY <1>1, <1>3 DEF Jobs
<1>7. Assembled(p) => Assembled(p)'
  BY <1>5, <1>6, AssembledKept
<1>8. Grounded(job[p].journal, job[p].fact) => Grounded(job[p].journal, job[p].fact)'
  <2>1. ASSUME NEW j, NEW f, Grounded(j, f) PROVE Grounded(j, f)'
    BY <1>5, <2>1, GroundedKept
  <2> QED BY <1>5, <1>6, <2>1
<1>9. l = "append" => ~Recorded(p)'
  BY <1>5, <1>6 DEF Recorded, FactSet, Key
<1>10. JobInv(p)'
  <2>1. job'[p].count = Len(log'[job'[p].journal])
    BY <1>5, <1>6
  <2>2. job'[p].count \in Nat
    BY <1>3, <1>5, <1>6
  <2> HIDE DEF b, n
  <2> QED BY <1>1, <1>2, <1>5, <1>6, <1>7, <1>8, <1>9, <2>1, <2>2 DEF JobInv
<1>11. Typed' /\ Behind'
  BY <1>1, <1>4, <1>5 DEF Typed, LABELS, Behind
<1>12. Leased'
  BY <1>1, <1>5, NoneAssumption DEF Leased, Typed
<1> QED BY <1>1, <1>5, <1>10, <1>11, <1>12, LogKept DEF Typed


\* The one step that writes a line.
LEMMA AppendKeeps ==
    ASSUME IInv, NEW p \in Procs, AppendLine(p)
    PROVE  IInv'
<1>1. /\ Typed /\ Leased /\ LogType /\ Behind /\ JobInv(p) /\ job[p] \in Jobs
      /\ ChainIntact /\ OneFactPerKey
  BY DEF IInv, Typed
<1> DEFINE b == [job[p] EXCEPT !.count = @ + 1]
<1>0. PICK k \in JOURNALS : k = job[p].journal
  BY <1>1 DEF JobInv, AppendLine
<1>2. /\ Grounded(k, job[p].fact)
      /\ job[p].count = Len(log[k]) /\ ~Recorded(p)
      /\ job[p].op = "assemble" /\ job[p].journal = "predictions" => Assembled(p)
  BY <1>0, <1>1 DEF JobInv, AppendLine
<1>3. PICK e \in Entries(k) : e = [sequence |-> job[p].count, fact |-> job[p].fact]
  <2>1. job[p].fact \in FactsOf(k)
    BY <1>2 DEF Grounded, FactsOf, Facts, Base!Claims, JOURNALS
  <2> QED BY <1>1, <2>1 DEF Entries, Jobs
<1>4. log' = [log EXCEPT ![k] = Append(@, e)]
  BY <1>0, <1>3 DEF AppendLine
<1>5. /\ LogType'
      /\ Len(log'[k]) = Len(log[k]) + 1 /\ Len(log[k]) \in Nat
      /\ log'[k][Len(log[k]) + 1] = e
      /\ \A i \in 1..Len(log[k]) : log'[k][i] = log[k][i]
      /\ \A j \in JOURNALS : j # k => log'[j] = log[j]
      /\ FactSet(k)' = FactSet(k) \cup {e.fact}
      /\ \A j \in JOURNALS : j # k => FactSet(j)' = FactSet(j)
  BY <1>1, <1>4, AppendFacts
<1>6. \A j \in JOURNALS : FactSet(j) \subseteq FactSet(j)'
  BY <1>5
<1>7. \A j \in JOURNALS : Len(log[j]) \in Nat /\ Len(log[j]) <= Len(log'[j])
  <2>1. \A j \in JOURNALS : Len(log[j]) \in Nat
    BY <1>1 DEF LogType
  <2> QED BY <1>5, <2>1
<1>8. /\ job' = [job EXCEPT ![p] = b] /\ b \in Jobs /\ pc' = [pc EXCEPT ![p] = "project"]
      /\ UNCHANGED <<projected, lease>>
  <2>1. b \in Jobs
    BY <1>1 DEF Jobs
  <2> QED BY <2>1 DEF AppendLine, GoTo
<1>9. Typed' /\ Leased'
  BY <1>1, <1>8 DEF Typed, LABELS, Leased, AppendLine
<1>10. Behind'
  BY <1>1, <1>7, <1>8, <1>5 DEF Behind, Typed, LogType
<1>11. JobInv(p)'
  <2>1. /\ job'[p] = b /\ pc'[p] = "project" /\ b.fact = job[p].fact /\ b.journal = k
        /\ b.op = job[p].op /\ b.profile = job[p].profile /\ b.count = job[p].count + 1
    BY <1>0, <1>1, <1>8 DEF Typed, Jobs
  <2>2. Grounded(k, job[p].fact) => Grounded(k, job[p].fact)'
    <3>1. ASSUME NEW j, NEW f, Grounded(j, f) PROVE Grounded(j, f)'
      BY <1>6, <3>1, GroundedGrows
    <3> QED BY <2>1, <3>1
  <2>3. Assembled(p) => Assembled(p)'
    BY <1>6, <2>1, GroundedGrows
  <2>4. job'[p].count = Len(log'[k]) /\ job'[p].count \in Nat
    BY <1>2, <1>5, <2>1
  <2> HIDE DEF b
  <2> QED BY <1>0, <1>2, <2>1, <2>2, <2>3, <2>4 DEF JobInv
<1>12. ASSUME NEW q \in Procs \ {p} PROVE JobInv(q)'
  <2>1. job'[q] = job[q] /\ pc'[q] = pc[q] /\ job[q].count \in Nat /\ JobInv(q)
    BY <1>1, <1>8 DEF IInv, Typed, Jobs
  <2>2. pc[q] # "append"
    BY <1>1 DEF Leased, AppendLine
  <2> QED BY <1>1, <1>5, <1>6, <1>7, <2>1, <2>2, JobInvStable
<1>13. ChainIntact'
  <2>1. ASSUME NEW j \in JOURNALS, NEW i \in DOMAIN log'[j]
        PROVE  log'[j][i].sequence = i - 1
    <3>1. DOMAIN log'[k] = 1..(Len(log[k]) + 1) /\ DOMAIN log[k] = 1..Len(log[k])
      BY <1>1, <1>5 DEF LogType
    <3>2. CASE j # k
      BY <1>1, <1>5, <3>2 DEF ChainIntact
    <3>3. CASE j = k /\ i \in 1..Len(log[k])
      BY <1>1, <1>5, <3>1, <3>3 DEF ChainIntact
    <3>4. CASE j = k /\ i = Len(log[k]) + 1
      BY <1>2, <1>3, <1>5, <3>4
    <3> QED BY <1>5, <3>1, <3>2, <3>3, <3>4
  <2> QED BY <2>1 DEF ChainIntact
<1>14. OneFactPerKey'
  <2>1. ASSUME NEW i \in 1..Len(log[k]) PROVE Key(k, log[k][i].fact) # Key(k, e.fact)
    BY <1>0, <1>1, <1>2, <1>3, FactSetIs DEF Recorded
  <2>2. ASSUME NEW j \in JOURNALS, NEW i \in DOMAIN log'[j], NEW m \in DOMAIN log'[j],
               Key(j, log'[j][i].fact) = Key(j, log'[j][m].fact)
        PROVE  i = m
    <3>1. CASE j # k
      BY <1>1, <1>5, <2>2, <3>1 DEF OneFactPerKey
    <3>2. CASE j = k
      <4>1. DOMAIN log'[k] = 1..(Len(log[k]) + 1) /\ DOMAIN log[k] = 1..Len(log[k])
        BY <1>1, <1>2, <1>5 DEF LogType
      <4>2. CASE i \in 1..Len(log[k]) /\ m \in 1..Len(log[k])
        BY <1>1, <1>2, <1>5, <2>2, <3>2, <4>1, <4>2 DEF OneFactPerKey
      <4>3. CASE i = Len(log[k]) + 1 \/ m = Len(log[k]) + 1
        BY <1>5, <2>1, <2>2, <3>2, <4>1, <4>3
      <4> QED BY <1>5, <3>2, <4>1, <4>2, <4>3
    <3> QED BY <3>1, <3>2
  <2> QED BY <2>2 DEF OneFactPerKey, Key
<1> QED BY <1>5, <1>9, <1>10, <1>11, <1>12, <1>13, <1>14 DEF IInv


\* The steps inside the lease, and the refusals before it.
LEMMA RecordsKeep ==
    ASSUME IInv, NEW p \in Procs, Record(p)
    PROVE  IInv'
<1>1. Typed /\ Behind /\ JobInv(p) /\ LogType
  BY DEF IInv
<1>2. CASE LeaseHeld(p) \/ Conflict(p)
  BY <1>2, RefuseKeeps DEF LeaseHeld, Conflict
<1>3. CASE PredictionRetried(p)
  <2>1. UNCHANGED <<log, projected, lease>> /\ Continue(p) /\ pc[p] = "lease"
    BY <1>3 DEF PredictionRetried, files
  <2>2. projected' \in [JOURNALS -> Nat] /\ Behind'
    BY <1>1, <2>1 DEF Typed, Behind
  <2> QED BY <2>1, <2>2, ContinueKeeps
<1>4. CASE OtherRetried(p)
  BY <1>4, TakeKeeps DEF OtherRetried
<1>5. CASE NewEntry(p)
  BY <1>5, TakeKeeps DEF NewEntry, files
<1>6. CASE AppendLine(p)
  BY <1>6, AppendKeeps
<1>7. CASE Project(p)
  <2>1. job[p].journal \in JOURNALS /\ job[p].count <= Len(log[job[p].journal])
        /\ job[p].count \in Nat
    BY <1>1, <1>7 DEF JobInv, Project, Typed, Jobs
  <2>2. projected' \in [JOURNALS -> Nat] /\ Behind'
    BY <1>1, <1>7, <2>1 DEF Typed, Behind, Project
  <2> QED BY <1>7, <2>2, ContinueKeeps DEF Project
<1> QED BY <1>2, <1>3, <1>4, <1>5, <1>6, <1>7 DEF Record

\* The writing half of rebuild_state may project fewer lines, never more.
LEMMA RebuildKeeps ==
    ASSUME IInv, NEW p \in Procs, RebuildWrites(p)
    PROVE  IInv'
<1>1. Typed /\ Behind /\ JobInv(p)
  BY DEF IInv
<1>2. job[p].journal \in JOURNALS /\ job[p].count <= Len(log[job[p].journal])
      /\ job[p].count \in Nat
  BY <1>1 DEF JobInv, RebuildWrites, Typed, Jobs
<1>3. projected' \in [JOURNALS -> Nat] /\ Behind'
  BY <1>1, <1>2 DEF Typed, Behind, RebuildWrites
<1> QED BY <1>3, ReturnKeeps DEF RebuildWrites

\* A crash leaves the journals as they are and clears the lease of the dead.
LEMMA CrashKeeps ==
    ASSUME IInv, NEW p \in Procs, Crash(p)
    PROVE  IInv'
<1>1. Typed /\ Leased /\ Behind /\ UNCHANGED <<log, projected>>
  BY DEF IInv, Crash, files
<1>2. projected' \in [JOURNALS -> Nat] /\ Behind'
  BY <1>1 DEF Typed, Behind
<1>3. IF pc[p] \in {"append", "project"} THEN lease' = None ELSE lease' = lease
  BY <1>1 DEF Leased, Crash
<1> QED BY <1>1, <1>2, <1>3, ReturnKeeps DEF Crash

\* The strengthened invariant holds in every state of the journals.
LEMMA InvariantIInv == Spec => []IInv
<1>1. IInv /\ [Next]_vars => IInv'
  <2> SUFFICES ASSUME IInv, [Next]_vars PROVE IInv'
    OBVIOUS
  <2>1. CASE UNCHANGED vars
    <3>1. UNCHANGED <<log, projected, lease, pc, job>>
      BY <2>1 DEF vars, files
    <3>2. LogType' /\ Typed' /\ Leased' /\ Behind' /\ ChainIntact' /\ OneFactPerKey'
      BY <3>1 DEF IInv, LogType, Entries, FactsOf, Typed, Jobs, Leased, Behind, ChainIntact,
         OneFactPerKey, Key, LABELS
    <3>3. ASSUME NEW q \in Procs PROVE JobInv(q)'
      <4>1. /\ \A j \in JOURNALS : FactSet(j) \subseteq FactSet(j)'
            /\ \A j \in JOURNALS : Len(log[j]) <= Len(log'[j])
            /\ job[q].count \in Nat
        BY <3>1 DEF FactSet, IInv, LogType, Typed, Jobs
      <4> QED BY <3>1, <3>2, <4>1, JobInvStable DEF IInv
    <3> QED BY <3>2, <3>3 DEF IInv
  <2>2. ASSUME Next PROVE IInv'
    BY <2>2, CallsKeep, ChecksKeep, RecordsKeep, RebuildKeeps, CrashKeeps
    DEF Next, Proceed
  <2> QED BY <2>1, <2>2
<1> QED BY InitIInv, <1>1, PTL DEF Spec

-----------------------------------------------------------------------------
(* How far a projection may fall behind.                                    *)

Writing(j) == \E p \in Procs : pc[p] = "project" /\ job[p].journal = j

\* What ProjectionLag needs: whoever is about to project has counted every
\* line, and as long as nothing was rebuilt only its line and those of the dead
\* are missing.
LagInv ==
    /\ crashes \in Nat /\ rebuilds \in Nat
    /\ \A p \in Procs : pc[p] = "project" => job[p].count = Len(log[job[p].journal])
    /\ rebuilds = 0 =>
          /\ \A p \in Procs : pc[p] # "rebuild"
          /\ \A j \in JOURNALS :
                Len(log[j]) <= projected[j] + crashes + (IF Writing(j) THEN 1 ELSE 0)

\* A step that neither writes nor begins to write a projection.
LEMMA QuietKeepsLag ==
    ASSUME IInv, LagInv, NEW p \in Procs, UNCHANGED <<log, projected, crashes, rebuilds>>,
           \A q \in Procs \ {p} : pc'[q] = pc[q] /\ job'[q] = job[q],
           pc[p] # "project", pc'[p] \notin {"project", "rebuild"}
    PROVE  LagInv'
<1>1. \A j \in JOURNALS : Writing(j)' <=> Writing(j)
  BY DEF Writing
<1>2. \A q \in Procs : pc'[q] = "project" => job'[q].count = Len(log'[job'[q].journal])
  BY DEF LagInv
<1>3. \A q \in Procs : rebuilds' = 0 => pc'[q] # "rebuild"
  BY DEF LagInv
<1>4. rebuilds' = 0 => \A j \in JOURNALS :
          Len(log'[j]) <= projected'[j] + crashes' + (IF Writing(j)' THEN 1 ELSE 0)
  BY <1>1 DEF LagInv
<1> QED BY <1>2, <1>3, <1>4 DEF LagInv

\* A step that projects every line, and writes none.
LEMMA ProjectKeepsLag ==
    ASSUME IInv, LagInv, NEW p \in Procs, Project(p)
    PROVE  LagInv'
<1>1. Typed /\ LogType /\ Leased /\ JobInv(p)
  BY DEF IInv
<1>2. /\ job[p].journal \in JOURNALS /\ job[p].count = Len(log[job[p].journal])
      /\ projected' = [projected EXCEPT ![job[p].journal] = job[p].count]
      /\ pc[p] = "project" /\ UNCHANGED <<log, crashes, rebuilds>>
  BY <1>1 DEF Project, JobInv, LagInv
<1>3. /\ pc'[p] \in {"lines", "idle"}
      /\ \A q \in Procs \ {p} : pc'[q] = pc[q] /\ job'[q] = job[q]
  BY <1>1 DEF Project, Continue, Return, GoTo, Typed
<1>4. \A q \in Procs \ {p} : pc[q] # "project"
  BY <1>1, <1>2, NoneAssumption DEF Leased
<1>5. \A j \in JOURNALS : ~Writing(j)' /\ (Writing(j) => j = job[p].journal)
  BY <1>2, <1>3, <1>4 DEF Writing
<1>6. ASSUME NEW j \in JOURNALS, rebuilds = 0
      PROVE  Len(log'[j]) <= projected'[j] + crashes'
  <2>1. Len(log[j]) \in Nat /\ projected[j] \in Nat /\ crashes \in Nat
    BY <1>1 DEF LogType, Typed, LagInv
  <2>2. CASE j = job[p].journal
    BY <1>1, <1>2, <2>1, <2>2 DEF Typed
  <2>3. CASE j # job[p].journal
    <3>1. projected'[j] = projected[j]
      BY <1>1, <1>2, <2>3 DEF Typed
    <3> QED BY <1>2, <1>5, <1>6, <2>1, <2>3, <3>1 DEF LagInv
  <2> QED BY <2>2, <2>3
<1>7. \A q \in Procs : pc'[q] # "project" /\ (rebuilds' = 0 => pc'[q] # "rebuild")
  BY <1>2, <1>3, <1>4 DEF LagInv
<1> QED BY <1>1, <1>2, <1>5, <1>6, <1>7 DEF LagInv, LogType, Typed

\* Before a line is written nobody else is about to project.
LEMMA AppendKeepsLag ==
    ASSUME IInv, LagInv, NEW p \in Procs, AppendLine(p), LogType'
    PROVE  LagInv'
<1> DEFINE k == job[p].journal
<1>1. Typed /\ LogType /\ Leased /\ JobInv(p) /\ job[p] \in Jobs
  BY DEF IInv, Typed
<1>2. /\ k \in JOURNALS /\ job[p].count = Len(log[k]) /\ pc[p] = "append"
      /\ UNCHANGED <<projected, crashes, rebuilds>>
  BY <1>1 DEF AppendLine, JobInv
<1>3. /\ \A j \in JOURNALS : Len(log'[j]) = Len(log[j]) + (IF j = k THEN 1 ELSE 0)
      /\ \A j \in JOURNALS : Len(log[j]) \in Nat
  BY <1>1, <1>2 DEF AppendLine, LogType
<1>4. /\ pc'[p] = "project" /\ job'[p].count = Len(log[k]) + 1 /\ job'[p].journal = k
      /\ \A q \in Procs \ {p} : pc'[q] = pc[q] /\ job'[q] = job[q]
  BY <1>1, <1>2 DEF AppendLine, GoTo, Typed, Jobs
<1>5. \A q \in Procs \ {p} : pc[q] # "project"
  BY <1>1, <1>2, NoneAssumption DEF Leased
<1>6. \A j \in JOURNALS : ~Writing(j) /\ (Writing(j)' <=> j = k)
  BY <1>2, <1>4, <1>5 DEF Writing
<1>7. ASSUME NEW j \in JOURNALS, rebuilds = 0
      PROVE  Len(log'[j]) <= projected'[j] + crashes' + (IF Writing(j)' THEN 1 ELSE 0)
  <2>1. projected[j] \in Nat /\ crashes \in Nat /\ Len(log[j]) <= projected[j] + crashes
    BY <1>1, <1>3, <1>6, <1>7 DEF Typed, LagInv
  <2>2. projected'[j] = projected[j] /\ crashes' = crashes /\ Len(log[j]) \in Nat
    BY <1>2, <1>3
  <2>3. CASE j = k
    <3>1. Len(log'[j]) = Len(log[j]) + 1 /\ Writing(j)'
      BY <1>3, <1>6, <2>3
    <3> QED BY <2>1, <2>2, <3>1
  <2>4. CASE j # k
    <3>1. ~Writing(j)'
      BY <1>6, <2>4
    <3>2. Len(log'[j]) = Len(log[j]) + 0
      BY <1>3, <2>4
    <3> QED BY <2>1, <2>2, <3>1, <3>2
  <2> QED BY <2>3, <2>4
<1>8. \A q \in Procs : pc'[q] = "project" => job'[q].count = Len(log'[job'[q].journal])
  BY <1>2, <1>3, <1>4, <1>5
<1>9. \A q \in Procs : rebuilds' = 0 => pc'[q] # "rebuild"
  BY <1>2, <1>4 DEF LagInv
<1> QED BY <1>2, <1>7, <1>8, <1>9 DEF LagInv

\* Whoever takes the lease to project again has counted every line.
LEMMA RetryKeepsLag ==
    ASSUME IInv, LagInv, NEW p \in Procs, OtherRetried(p)
    PROVE  LagInv'
<1>1. Typed /\ LogType /\ JobInv(p) /\ job[p] \in Jobs
  BY DEF IInv, Typed
<1>2. /\ pc[p] = "lease" /\ pc'[p] = "project"
      /\ UNCHANGED <<log, projected, crashes, rebuilds>>
      /\ job'[p].journal = job[p].journal /\ job'[p].count = Len(log[job[p].journal])
      /\ \A q \in Procs \ {p} : pc'[q] = pc[q] /\ job'[q] = job[q]
  BY <1>1 DEF OtherRetried, GoTo, Typed, Jobs, files
<1>3. \A q \in Procs : pc'[q] = "project" => job'[q].count = Len(log'[job'[q].journal])
  BY <1>2 DEF LagInv
<1>4. \A j \in JOURNALS : Writing(j) => Writing(j)'
  BY <1>2 DEF Writing
<1>5. ASSUME NEW j \in JOURNALS, rebuilds = 0
      PROVE  Len(log'[j]) <= projected'[j] + crashes' + (IF Writing(j)' THEN 1 ELSE 0)
  <2>1. projected[j] \in Nat /\ crashes \in Nat /\ Len(log[j]) \in Nat
    BY <1>1 DEF Typed, LagInv, LogType
  <2> QED BY <1>2, <1>4, <1>5, <2>1 DEF LagInv
<1>6. \A q \in Procs : rebuilds' = 0 => pc'[q] # "rebuild"
  BY <1>2 DEF LagInv
<1> QED BY <1>2, <1>3, <1>5, <1>6 DEF LagInv

\* A death may leave one line more behind, and is counted.
LEMMA CrashKeepsLag ==
    ASSUME IInv, LagInv, NEW p \in Procs, Crash(p)
    PROVE  LagInv'
<1>1. Typed /\ LogType /\ Leased
  BY DEF IInv
<1>2. /\ pc'[p] = "idle" /\ crashes' = crashes + 1
      /\ UNCHANGED <<log, projected, rebuilds>>
      /\ \A q \in Procs \ {p} : pc'[q] = pc[q] /\ job'[q] = job[q]
  BY <1>1 DEF Crash, Return, GoTo, Typed, files
<1>3. \A q \in Procs :
         /\ pc'[q] = "project" => job'[q].count = Len(log'[job'[q].journal])
         /\ rebuilds' = 0 => pc'[q] # "rebuild"
  BY <1>2 DEF LagInv
<1>4. ASSUME NEW j \in JOURNALS, rebuilds = 0
      PROVE  Len(log'[j]) <= projected'[j] + crashes' + (IF Writing(j)' THEN 1 ELSE 0)
  <2>1. projected[j] \in Nat /\ crashes \in Nat /\ Len(log[j]) \in Nat
    BY <1>1 DEF Typed, LagInv, LogType
  <2>2. Len(log[j]) <= projected[j] + crashes + 1
    BY <1>4, <2>1 DEF LagInv
  <2> QED BY <1>2, <2>1, <2>2
<1> QED BY <1>2, <1>3, <1>4 DEF LagInv

\* The bound on the lag is an invariant.
LEMMA InvariantLag == Spec => []LagInv
<1>1. Init => LagInv
  <2> SUFFICES ASSUME Init PROVE LagInv
    OBVIOUS
  <2>1. \A j \in JOURNALS : Len(log[j]) = 0 /\ projected[j] = 0
    BY DEF Init
  <2>2. \A p \in Procs : pc[p] = "idle"
    BY DEF Init
  <2> QED BY <2>1, <2>2 DEF Init, LagInv, Writing
<1>2. IInv /\ IInv' /\ LagInv /\ [Next]_vars => LagInv'
  <2> SUFFICES ASSUME IInv, IInv', LagInv, [Next]_vars PROVE LagInv'
    OBVIOUS
  <2>1. CASE UNCHANGED vars
    BY <2>1 DEF vars, files, LagInv, Writing
  <2>2. ASSUME NEW p \in Procs,
               \/ \E c \in History \cup Components : Predict(p, c)
               \/ \E o \in Base!Outcomes : Resolve(p, o)
               \/ Assemble(p)
        PROVE  LagInv'
    <3>1. /\ UNCHANGED <<log, projected, crashes, rebuilds>> /\ pc[p] = "idle"
          /\ pc'[p] \in {"lease", "lines"}
          /\ \A q \in Procs \ {p} : pc'[q] = pc[q] /\ job'[q] = job[q]
      BY <2>2 DEF IInv, Typed, Predict, Resolve, Assemble, GoTo, files
    <3> QED BY <3>1, QuietKeepsLag
  <2>3. ASSUME NEW p \in Procs, Check(p) PROVE LagInv'
    <3>1. /\ UNCHANGED <<log, projected, crashes, rebuilds>>
          /\ pc[p] \in {"lines", "projections", "entries", "outcomes"}
      BY <2>3 DEF Check, ReadLines, ReadProjections, CheckOutcome, ReadClaims, Blend,
         CheckReceipt, files
    <3>2. \E l \in LABELS \ {"project", "rebuild"} :
             pc' = [pc EXCEPT ![p] = l] /\ \E b : job' = [job EXCEPT ![p] = b]
      <4>1. CASE ReadLines(p)
        BY <4>1 DEF ReadLines, GoTo, LABELS
      <4>2. CASE ReadProjections(p)
        BY <4>2 DEF ReadProjections, Return, GoTo, LABELS
      <4>3. CASE CheckOutcome(p)
        <5>1. job = [job EXCEPT ![p] = job[p]]
          BY DEF IInv, Typed
        <5> QED BY <4>3, <5>1 DEF CheckOutcome, Return, GoTo, LABELS
      <4>4. CASE ReadClaims(p)
        BY <4>4 DEF ReadClaims, Return, GoTo, LABELS
      <4>5. CASE Blend(p)
        BY <4>5 DEF Blend, GoTo, LABELS
      <4>6. CASE CheckReceipt(p)
        BY <4>6 DEF CheckReceipt, Return, GoTo, LABELS
      <4> QED BY <2>3, <4>1, <4>2, <4>3, <4>4, <4>5, <4>6 DEF Check
    <3>3. /\ pc'[p] \notin {"project", "rebuild"}
          /\ \A q \in Procs \ {p} : pc'[q] = pc[q] /\ job'[q] = job[q]
      BY <3>2 DEF IInv, Typed
    <3> QED BY <3>1, <3>3, QuietKeepsLag
  <2>4. ASSUME NEW p \in Procs,
               LeaseHeld(p) \/ Conflict(p) \/ PredictionRetried(p) \/ NewEntry(p)
        PROVE  LagInv'
    <3>1. /\ UNCHANGED <<log, projected, crashes, rebuilds>> /\ pc[p] = "lease"
          /\ pc'[p] \in {"idle", "lines", "append"}
          /\ \A q \in Procs \ {p} : pc'[q] = pc[q] /\ job'[q] = job[q]
      BY <2>4 DEF IInv, Typed, LeaseHeld, Conflict, PredictionRetried, NewEntry, Continue,
         Return, GoTo, files
    <3> QED BY <3>1, QuietKeepsLag
  <2>5. ASSUME NEW p \in Procs, (\E j \in JOURNALS : RebuildReads(p, j)) \/ RebuildWrites(p)
        PROVE  LagInv'
    <3>1. /\ UNCHANGED <<log, crashes>> /\ rebuilds' \in Nat \ {0}
      <4>1. CASE \E j \in JOURNALS : RebuildReads(p, j)
        <5>1. UNCHANGED <<log, crashes>> /\ rebuilds' = rebuilds + 1
          BY <4>1 DEF RebuildReads, files
        <5>2. rebuilds \in Nat
          BY DEF LagInv
        <5> QED BY <5>1, <5>2
      <4>2. CASE RebuildWrites(p)
        <5>1. UNCHANGED <<log, crashes, rebuilds>> /\ pc[p] = "rebuild"
          BY <4>2 DEF RebuildWrites
        <5> QED BY <5>1 DEF LagInv
      <4> QED BY <2>5, <4>1, <4>2
    <3>2. /\ pc'[p] \in {"idle", "rebuild"}
          /\ \A q \in Procs \ {p} : pc'[q] = pc[q] /\ job'[q] = job[q]
      BY <2>5 DEF IInv, Typed, RebuildReads, RebuildWrites, Return, GoTo
    <3> QED BY <3>1, <3>2 DEF LagInv
  <2>6. LogType'
    BY DEF IInv
  <2> QED BY <2>1, <2>2, <2>3, <2>4, <2>5, <2>6, ProjectKeepsLag, AppendKeepsLag,
             RetryKeepsLag, CrashKeepsLag DEF Next, Proceed, Record
<1> QED BY InvariantIInv, <1>1, <1>2, PTL DEF Spec

\* At most one process, the holder of the lease, is about to project.
LEMMA LagBounds ==
    ASSUME IInv, LagInv
    PROVE  ProjectionLag
<1>1. Typed /\ LogType /\ Leased
  BY DEF IInv
<1>2. ASSUME NEW j \in JOURNALS, rebuilds = 0
      PROVE  Len(log[j]) - projected[j]
                <= crashes + Cardinality({p \in Procs : pc[p] = "project" /\ job[p].journal = j})
  <2> DEFINE writing == {p \in Procs : pc[p] = "project" /\ job[p].journal = j}
  <2>1. /\ projected[j] \in Nat /\ crashes \in Nat /\ Len(log[j]) \in Nat
        /\ Len(log[j]) <= projected[j] + crashes + (IF Writing(j) THEN 1 ELSE 0)
    BY <1>1, <1>2 DEF Typed, LagInv, LogType
  <2>2. CASE writing = {}
    <3>1. Cardinality(writing) = 0
      BY <2>2, FS_EmptySet
    <3>2. ~Writing(j)
      BY <2>2 DEF Writing
    <3> QED BY <2>1, <3>1, <3>2
  <2>3. CASE writing # {}
    <3>1. PICK p \in writing : TRUE
      BY <2>3
    <3>2. writing = {p}
      BY <1>1, <3>1, NoneAssumption DEF Leased
    <3>3. Cardinality(writing) = 1
      BY <3>2, FS_Singleton
    <3> QED BY <2>1, <3>3
  <2> QED BY <2>2, <2>3
<1> QED BY <1>2 DEF ProjectionLag

-----------------------------------------------------------------------------
(* The theorems.                                                            *)

\* Every journal holds facts of its kind, no projection counts a line its
\* journal does not have, and only the holder of writer_lock is between the
\* lookup and the projection of append.
THEOREM TypeCorrect == Spec => []TypeOK
<1>1. IInv => TypeOK
  <2> SUFFICES ASSUME IInv PROVE TypeOK
    OBVIOUS
  <2>1. \A j \in JOURNALS : \A i \in DOMAIN log[j] : log[j][i].fact \in Facts
    BY FactSetIs DEF IInv, FactSet, FactsOf
  <2> QED BY <2>1 DEF IInv, Leased, Behind, TypeOK
<1> QED BY InvariantIInv, <1>1, PTL

\* Every line of a journal was computed from exactly the lines before it,
\* whatever the writers, retries and crashes: the hash chain of each .jsonl
\* file is unbroken.
THEOREM ChainIntactHolds == Spec => []ChainIntact
<1>1. IInv => ChainIntact
  BY DEF IInv
<1> QED BY InvariantIInv, <1>1, PTL

\* The lookup of append keeps one entry per prediction id, per resolved
\* prediction and per certified prediction.
THEOREM OneFactPerKeyHolds == Spec => []OneFactPerKey
<1>1. IInv => OneFactPerKey
  BY DEF IInv
<1> QED BY InvariantIInv, <1>1, PTL

\* What every reader of the journals counts on: their chains are unbroken, a
\* fact is recorded once, and a projection is behind by no more lines than
\* processes died or are about to project, as long as nothing was rebuilt.
THEOREM JournalsSoundHolds == Spec => []JournalsSound
<1>1. IInv /\ LagInv => ProjectionLag
  BY LagBounds
<1> QED BY TypeCorrect, ChainIntactHolds, OneFactPerKeyHolds, InvariantIInv, InvariantLag,
           <1>1, PTL DEF JournalsSound

\* Appending a line records one fact that the growing base allows.
LEMMA AppendImplements ==
    ASSUME IInv, NEW p \in Procs, AppendLine(p)
    PROVE  Base!Next
<1>1. Typed /\ Leased /\ LogType /\ JobInv(p) /\ job[p] \in Jobs
  BY DEF IInv, Typed
<1>2. PICK k \in JOURNALS : k = job[p].journal
  BY <1>1 DEF JobInv, AppendLine
<1>3. PICK f : f = job[p].fact
  OBVIOUS
<1>4. Grounded(k, f) /\ \A g \in FactSet(k) : Key(k, g) # Key(k, f)
  BY <1>1, <1>2, <1>3 DEF JobInv, AppendLine, Recorded
<1>5. /\ FactSet(k)' = FactSet(k) \cup {f}
      /\ \A j \in JOURNALS : j # k => FactSet(j)' = FactSet(j)
  <2>1. f \in FactsOf(k)
    BY <1>4 DEF Grounded, FactsOf, Facts, Base!Claims, JOURNALS
  <2>2. PICK e \in Entries(k) : e = [sequence |-> job[p].count, fact |-> f]
    BY <1>1, <2>1 DEF Entries, Jobs
  <2>3. log' = [log EXCEPT ![k] = Append(@, e)] /\ e.fact = f
    BY <1>2, <1>3, <2>2 DEF AppendLine
  <2> QED BY <1>1, <2>3, AppendFacts
<1>6. CASE k = "predictions"
  <2>1. f \in Base!Claims /\ f \notin FactSet("predictions")
    BY <1>4, <1>6 DEF Grounded, Key, Base!Claims
  <2>2. f \in Base!Blends =>
           /\ Components \subseteq FactSet("predictions")
           /\ f.evidence \subseteq Base!Resolved(FactSet("outcomes")) \cap Early
    BY <1>4, <1>6, AssembledAssumption DEF Grounded, ClaimSet, OutcomeSet
  <2>3. Base!Claim(f)
    BY <1>5, <1>6, <2>1, <2>2 DEF Base!Claim, JOURNALS
  <2> QED BY <2>1, <2>3 DEF Base!Next
<1>7. CASE k = "outcomes"
  <2>1. f \in Base!Outcomes /\ f.prediction \in FactSet("predictions")
        /\ \A q \in FactSet("outcomes") : q.prediction # f.prediction
    BY <1>4, <1>7 DEF Grounded, Key, ClaimSet
  <2>2. Base!Resolve(f)
    BY <1>5, <1>7, <2>1 DEF Base!Resolve, JOURNALS
  <2> QED BY <2>1, <2>2 DEF Base!Next
<1>8. CASE k = "receipts"
  <2>1. /\ f \in Base!Receipts /\ f.blend \in FactSet("predictions")
        /\ f.blend = Base!BlendFrom(f.profile) /\ Backed(f.profile)
        /\ \A s \in FactSet("receipts") : s.blend # f.blend
    BY <1>4, <1>8 DEF Grounded, Key, ClaimSet
  <2>2. Base!Certify(f)
    BY <1>5, <1>8, <2>1 DEF Base!Certify, JOURNALS, Backed, ClaimSet, OutcomeSet
  <2> QED BY <2>1, <2>2 DEF Base!Next
<1> QED BY <1>6, <1>7, <1>8 DEF JOURNALS

\* The journals implement the growing base: whatever a step checked before it
\* had the lease still holds when it appends, so no outcome and no receipt
\* rests on evidence that is not on record.
THEOREM ImplementsEvidenceBase == Spec => EvidenceSpec
<1> DEFINE facts == <<FactSet("predictions"), FactSet("outcomes"), FactSet("receipts")>>
<1>1. Init => Base!Init
  BY DEF Init, Base!Init, FactSet, JOURNALS
<1>2. IInv /\ [Next]_vars => [Base!Next]_facts
  <2> SUFFICES ASSUME IInv, [Next]_vars PROVE [Base!Next]_facts
    OBVIOUS
  <2>1. CASE log' = log
    BY <2>1 DEF FactSet
  <2>2. CASE \E p \in Procs : AppendLine(p)
    BY <2>2, AppendImplements
  <2>3. log' = log \/ \E p \in Procs : AppendLine(p)
    BY DEF Next, vars, files, Predict, Resolve, Assemble, RebuildReads, Proceed, Check,
       Record, ReadLines, ReadProjections, CheckOutcome, ReadClaims, Blend, CheckReceipt,
       LeaseHeld, Conflict, PredictionRetried, OtherRetried, NewEntry, Project,
       RebuildWrites, Crash
  <2> QED BY <2>1, <2>2, <2>3
<1> QED BY InvariantIInv, <1>1, <1>2, PTL DEF Spec, EvidenceSpec, Base!Spec
=============================================================================
