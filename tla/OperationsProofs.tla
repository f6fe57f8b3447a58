-------------------------- MODULE OperationsProofs --------------------------
(***************************************************************************)
(* Proofs about Operations for every set of workers, jobs, clients and      *)
(* requests.                                                                *)
(*                                                                          *)
(* Both ways of starting an operation look before they act: a worker looks  *)
(* for a receipt before it takes the claim of a run, a client for a receipt *)
(* before its command acts.  What is done twice is bounded by counting who  *)
(* can still be between its look and its act; the claim and the lease make  *)
(* the rest exact.  The jobs half of the invariant and the operator half    *)
(* share only the market contexts, which grow.                              *)
(***************************************************************************)
EXTENDS Operations, FiniteSetTheorems, TLAPS

Places == {"idle", "claim", "execute", "receipt", "unclaim"}
Posts == [at : Places, run : RunIds \cup {None}, spec : Candidates \cup {None},
          status : {"SUCCEEDED", "FAILED", None}, known : Nat]
JobReceipts == [status : {"SUCCEEDED", "FAILED"}, spec : Candidates, completed_at : Nat]

JobTypes ==
  /\ specs \subseteq Candidates
  /\ receipt \in [RunIds -> JobReceipts \cup {None}]
  /\ exec \in [Workers -> Posts]
  /\ clock \in Nat
  /\ again \in [RunIds -> Nat]

\* A worker that took the claim of a run and has not given it back.
AtRun(w) == exec[w].at \in {"execute", "receipt", "unclaim"}

\* The claim file of a run is there while a worker is at the run, that worker is
\* the only one, and an orphaned claim is nobody's.
ClaimInv ==
  /\ orphan \subseteq claim
  /\ \A w \in Workers : AtRun(w) => exec[w].run \in claim \ orphan
  /\ \A v, w \in Workers : v # w /\ AtRun(v) /\ AtRun(w) => exec[v].run # exec[w].run
  /\ \A r \in claim \ orphan : \E w \in Workers : AtRun(w) /\ exec[w].run = r

\* What a worker that is on its way to a receipt knows of its run.
PostInv(w) ==
  LET spec == exec[w].spec IN
  /\ exec[w].at # "idle" => exec[w].run \in RunIds
  /\ exec[w].at \in {"claim", "execute", "receipt"} =>
       /\ spec \in specs /\ exec[w].run \in RunsOf(spec)
       /\ RunEntry(spec, exec[w].run).not_before <= exec[w].known
  /\ exec[w].at = "receipt" =>
       /\ exec[w].status \in {"SUCCEEDED", "FAILED"}
       /\ exec[w].status = "SUCCEEDED" /\ spec.action = "CONTEXT_MATERIALIZE"
            => spec.cutoff \in contexts

\* A receipt is for a run of its spec, not before its time, and a materialized
\* context it reports is there.
JobReceiptInv(r) ==
  receipt[r] # None =>
    /\ receipt[r].spec \in specs /\ r \in RunsOf(receipt[r].spec)
    /\ receipt[r].completed_at >= RunEntry(receipt[r].spec, r).not_before
    /\ receipt[r].status = "SUCCEEDED" /\ receipt[r].spec.action = "CONTEXT_MATERIALIZE"
         => receipt[r].spec.cutoff \in contexts

\* The workers that have looked for a receipt of a run and not yet for its claim.
Looked(r) == {w \in Workers : exec[w].at = "claim" /\ exec[w].run = r}

\* Once a run has its receipt nobody new gets past the look.
AgainInv(r) ==
  /\ receipt[r] = None => again[r] = 0
  /\ receipt[r] # None => again[r] + Cardinality(Looked(r)) < Cardinality(Workers)

JobsInv ==
  /\ JobTypes /\ ClaimInv
  /\ \A w \in Workers : PostInv(w)
  /\ \A r \in RunIds : JobReceiptInv(r) /\ AgainInv(r)

-----------------------------------------------------------------------------
(* Operators of the model.                                                  *)

\* A run of a valid candidate has an entry, and a time.
LEMMA EntryTypes ==
  ASSUME NEW spec \in Candidates, NEW r \in RunsOf(spec)
  PROVE  RunEntry(spec, r).run_id = r /\ RunEntry(spec, r).not_before \in Nat
<1> DEFINE k == CHOOSE i \in DOMAIN spec.runs : spec.runs[i].run_id = r
<1>1. k \in DOMAIN spec.runs /\ spec.runs[k].run_id = r
  <2>1. \E i \in DOMAIN spec.runs : spec.runs[i].run_id = r
    BY DEF RunsOf
  <2>2. QED
    BY <2>1
<1>2. QED
  BY <1>1, CandidatesAssumption DEF RunEntry

\* What load_job_specs accepts names one job for a run.
LEMMA JobOfRun ==
  ASSUME Loadable, NEW spec \in specs, NEW r \in RunsOf(spec)
  PROVE  JobOf(r) = spec
<1>1. JobOf(r) \in specs /\ r \in RunsOf(JobOf(r))
  BY DEF JobOf
<1>2. QED
  BY <1>1 DEF Loadable

\* One step forward within a run, or back to the caller.
LEMMA Went ==
  ASSUME JobTypes, NEW w \in Workers, NEW s \in Places, Goto(w, s)
  PROVE  /\ exec' \in [Workers -> Posts]
         /\ exec'[w].at = s /\ exec'[w].run = exec[w].run
         /\ exec'[w].spec = exec[w].spec /\ exec'[w].status = exec[w].status
         /\ exec'[w].known = exec[w].known
         /\ \A v \in Workers \ {w} : exec'[v] = exec[v]
BY DEF JobTypes, Goto, Posts

LEMMA Finished ==
  ASSUME JobTypes, NEW w \in Workers, NEW s \in {"SUCCEEDED", "FAILED"}, Finish(w, s)
  PROVE  /\ exec' \in [Workers -> Posts]
         /\ exec'[w].at = "receipt" /\ exec'[w].run = exec[w].run
         /\ exec'[w].spec = exec[w].spec /\ exec'[w].status = s
         /\ exec'[w].known = exec[w].known
         /\ \A v \in Workers \ {w} : exec'[v] = exec[v]
BY DEF JobTypes, Finish, Posts, Places

LEMMA Returned ==
  ASSUME JobTypes, NEW w \in Workers, Return(w)
  PROVE  /\ exec' \in [Workers -> Posts] /\ exec'[w].at = "idle"
         /\ \A v \in Workers \ {w} : exec'[v] = exec[v]
BY DEF JobTypes, Return, Posts, Idle, Places

\* Where no receipt is written and no worker comes to look, the count of the
\* repeats stays.
LEMMA NobodyNew ==
  ASSUME JobsInv, NEW r \in RunIds, receipt'[r] = receipt[r], again'[r] = again[r],
         Looked(r)' \subseteq Looked(r)
  PROVE  AgainInv(r)'
<1>1. IsFiniteSet(Looked(r)) /\ IsFiniteSet(Looked(r)')
  BY WorkersAssumption, FS_Subset DEF Looked
<1>2. Cardinality(Looked(r)') <= Cardinality(Looked(r))
  BY <1>1, FS_Subset
<1>3. Cardinality(Looked(r)) \in Nat /\ Cardinality(Looked(r)') \in Nat
      /\ Cardinality(Workers) \in Nat /\ again[r] \in Nat
  BY <1>1, WorkersAssumption, FS_CardinalityType DEF JobsInv, JobTypes
<1>4. AgainInv(r)
  BY DEF JobsInv
<1>5. QED
  BY <1>2, <1>3, <1>4 DEF AgainInv

-----------------------------------------------------------------------------
(* What one step leaves to the others.                                      *)

\* Specs and materialized contexts only grow.
JobsGrow == specs \subseteq specs' /\ contexts \subseteq contexts'

LEMMA PostStays ==
  ASSUME JobsGrow, NEW v \in Workers, PostInv(v), exec'[v] = exec[v]
  PROVE  PostInv(v)'
BY DEF PostInv, JobsGrow

LEMMA JobReceiptStays ==
  ASSUME JobsGrow, NEW r \in RunIds, JobReceiptInv(r), receipt'[r] = receipt[r]
  PROVE  JobReceiptInv(r)'
BY DEF JobsGrow, JobReceiptInv

LEMMA ClaimStays ==
  ASSUME ClaimInv, NEW w \in Workers, UNCHANGED <<claim, orphan>>,
         \A v \in Workers \ {w} : exec'[v] = exec[v],
         AtRun(w) <=> AtRun(w)', AtRun(w) => exec'[w].run = exec[w].run
  PROVE  ClaimInv'
<1>1. \A v \in Workers : (AtRun(v) <=> AtRun(v)') /\ (AtRun(v) => exec'[v].run = exec[v].run)
  BY DEF AtRun
<1>2. \A v \in Workers : AtRun(v)' => exec'[v].run \in claim' \ orphan'
  BY <1>1 DEF ClaimInv
<1>3. \A u, v \in Workers : u # v /\ AtRun(u)' /\ AtRun(v)' => exec'[u].run # exec'[v].run
  BY <1>1 DEF ClaimInv
<1>4. \A r \in claim' \ orphan' : \E v \in Workers : AtRun(v)' /\ exec'[v].run = r
  <2> SUFFICES ASSUME NEW r \in claim \ orphan
               PROVE  \E v \in Workers : AtRun(v)' /\ exec'[v].run = r
    OBVIOUS
  <2>1. PICK v \in Workers : AtRun(v) /\ exec[v].run = r
    BY DEF ClaimInv
  <2>2. QED
    BY <1>1, <2>1
<1>5. QED
  BY <1>2, <1>3, <1>4 DEF ClaimInv

-----------------------------------------------------------------------------
(* Jobs: one lemma for each operation.                                      *)

LEMMA JobsStart == Init => JobsInv
<1> SUFFICES ASSUME Init PROVE JobsInv
  OBVIOUS
<1>1. /\ specs = {} /\ claim = {} /\ orphan = {} /\ clock = 0
      /\ \A r \in RunIds : receipt[r] = None /\ again[r] = 0
      /\ \A w \in Workers : exec[w].at = "idle"
  BY DEF Init, JobsInit, Idle
<1>2. JobTypes
  BY <1>1 DEF Init, JobsInit, JobTypes, Posts, Places, Idle
<1>3. ClaimInv
  BY <1>1 DEF ClaimInv, AtRun
<1>4. \A w \in Workers : PostInv(w)
  BY <1>1 DEF PostInv
<1>5. \A r \in RunIds : JobReceiptInv(r) /\ AgainInv(r)
  BY <1>1 DEF JobReceiptInv, AgainInv
<1>6. QED
  BY <1>2, <1>3, <1>4, <1>5 DEF JobsInv

\* Persisting a spec, an edit and the clock change no run.
LEMMA QuietJobs ==
  ASSUME JobsInv, JobTypes', JobsGrow, UNCHANGED <<receipt, claim, exec, orphan, again>>
  PROVE  JobsInv'
<1>1. ClaimInv'
  BY DEF JobsInv, ClaimInv, AtRun
<1>2. \A w \in Workers : PostInv(w)'
  BY PostStays DEF JobsInv
<1>3. \A r \in RunIds : JobReceiptInv(r)'
  BY JobReceiptStays DEF JobsInv
<1>4. \A r \in RunIds : AgainInv(r)'
  BY DEF JobsInv, AgainInv, Looked
<1>5. QED
  BY <1>1, <1>2, <1>3, <1>4 DEF JobsInv

\* A worker that looks finds no receipt, a spec that has the run, and its time.
LEMMA LookStep ==
  ASSUME JobsInv, NEW w \in Workers, NEW r \in RunIds, Look(w, r), UNCHANGED contexts
  PROVE  JobsInv'
<1>1. UNCHANGED <<specs, prereg, receipt, claim, clock, faults, orphan, again>>
  BY DEF Look
<1>2. PICK spec \in specs : r \in RunsOf(spec) /\ JobStatus(spec, r) = "READY"
  BY DEF Look
<1>3. JobTypes /\ spec \in Candidates /\ JobOf(r) = spec
  BY <1>2, JobOfRun DEF Look, JobsInv, JobTypes
<1>4. receipt[r] = None /\ RunEntry(spec, r).not_before <= clock
  <2>1. receipt[r] = None
    <3>1. receipt[r] # None => receipt[r].status \in {"SUCCEEDED", "FAILED"}
      BY <1>3 DEF JobTypes, JobReceipts
    <3>2. QED
      BY <1>2, <3>1 DEF JobStatus
  <2>2. QED
    BY <1>2, <2>1 DEF JobStatus
<1>5. /\ exec'[w].at = "claim" /\ exec'[w].run = r /\ exec'[w].spec = spec
      /\ exec'[w].known = clock
      /\ exec' \in [Workers -> Posts]
      /\ \A v \in Workers \ {w} : exec'[v] = exec[v]
  BY <1>3 DEF Look, JobTypes, Posts, Places
<1>6. JobTypes'
  BY <1>1, <1>3, <1>5 DEF JobTypes
<1>7. JobsGrow
  BY <1>1, <1>3 DEF JobsGrow, JobTypes
<1>8. ClaimInv'
  <2>1. ~AtRun(w) /\ ~AtRun(w)'
    BY <1>5 DEF Look, AtRun
  <2>2. QED
    BY <1>1, <1>5, <2>1, ClaimStays DEF JobsInv
<1>9. ASSUME NEW v \in Workers PROVE PostInv(v)'
  <2>1. CASE v = w
    BY <1>1, <1>2, <1>4, <1>5, <2>1 DEF PostInv
  <2>2. CASE v # w
    BY <1>3, <1>5, <1>6, <1>7, <2>2, PostStays DEF JobsInv
  <2>3. QED
    BY <2>1, <2>2
<1>10. ASSUME NEW q \in RunIds PROVE JobReceiptInv(q)' /\ AgainInv(q)'
  <2>1. JobReceiptInv(q)'
    BY <1>1, <1>7, JobReceiptStays DEF JobsInv
  <2>2. CASE q = r
    BY <1>1, <1>4, <2>1, <2>2 DEF JobsInv, AgainInv
  <2>3. CASE q # r
    <3>1. Looked(q)' \subseteq Looked(q)
      BY <1>5, <2>3 DEF Looked
    <3>2. QED
      BY <1>1, <2>1, <3>1, NobodyNew
  <2>4. QED
    BY <2>2, <2>3
<1>11. QED
  BY <1>6, <1>8, <1>9, <1>10 DEF JobsInv

\* A step of a worker within or out of its run that touches no receipt, no claim
\* and no spec.
LEMMA WithinRun ==
  ASSUME JobsInv, NEW w \in Workers, JobsGrow,
         UNCHANGED <<specs, receipt, claim, clock, orphan, again>>,
         exec' \in [Workers -> Posts], \A v \in Workers \ {w} : exec'[v] = exec[v],
         exec'[w].at # "claim",
         AtRun(w) <=> AtRun(w)', AtRun(w) => exec'[w].run = exec[w].run, PostInv(w)'
  PROVE  JobsInv'
<1>1. JobTypes /\ JobTypes'
  BY DEF JobsInv, JobTypes
<1>2. ClaimInv'
  BY ClaimStays DEF JobsInv
<1>3. \A v \in Workers : PostInv(v)'
  BY <1>1, PostStays DEF JobsInv
<1>4. ASSUME NEW r \in RunIds PROVE JobReceiptInv(r)' /\ AgainInv(r)'
  <2>1. JobReceiptInv(r)'
    BY JobReceiptStays DEF JobsInv
  <2>2. Looked(r)' \subseteq Looked(r)
    BY DEF Looked
  <2>3. QED
    BY <2>1, <2>2, NobodyNew
<1>5. QED
  BY <1>1, <1>2, <1>3, <1>4 DEF JobsInv

\* The command ends and its process still has the claim: with success, what it
\* was to materialize is there.
LEMMA RunStep ==
  ASSUME JobsInv, NEW w \in Workers, RunCommand(w)
  PROVE  JobsInv'
<1>1. PICK s \in {"SUCCEEDED", "FAILED"} :
        /\ Finish(w, s)
        /\ s = "SUCCEEDED" /\ exec[w].spec.action = "CONTEXT_MATERIALIZE"
             => exec[w].spec.cutoff \in contexts'
  BY DEF RunCommand, Succeeds, Fails
<1>2. JobTypes /\ exec[w].at = "execute" /\ PostInv(w)
  BY DEF JobsInv, RunCommand
<1>3. contexts \subseteq contexts'
  BY DEF RunCommand
<1>4. UNCHANGED <<specs, receipt, claim, clock, orphan, again>>
  BY <1>1 DEF Finish
<1>5. /\ exec' \in [Workers -> Posts]
      /\ exec'[w].at = "receipt" /\ exec'[w].run = exec[w].run
      /\ exec'[w].spec = exec[w].spec /\ exec'[w].status = s /\ exec'[w].known = exec[w].known
      /\ \A v \in Workers \ {w} : exec'[v] = exec[v]
  BY <1>1, <1>2, Finished
<1>6. JobsGrow
  BY <1>2, <1>3, <1>4 DEF JobsGrow, JobTypes
<1>7. PostInv(w)'
  BY <1>1, <1>2, <1>4, <1>5 DEF PostInv
<1>8. QED
  BY <1>2, <1>4, <1>5, <1>6, <1>7, WithinRun DEF AtRun

LEMMA TimeOutStep ==
  ASSUME JobsInv, NEW w \in Workers, TimeOut(w), UNCHANGED contexts
  PROVE  JobsInv'
<1>1. JobTypes /\ PostInv(w) /\ exec[w].at = "execute" /\ Goto(w, "unclaim")
  BY DEF JobsInv, TimeOut
<1>2. /\ exec' \in [Workers -> Posts] /\ exec'[w].at = "unclaim" /\ exec'[w].run = exec[w].run
      /\ \A v \in Workers \ {w} : exec'[v] = exec[v]
  BY <1>1, Went DEF Places
<1>3. UNCHANGED <<specs, receipt, claim, clock, orphan, again>> /\ JobsGrow
  BY <1>1 DEF TimeOut, JobsGrow, JobTypes
<1>4. PostInv(w)'
  BY <1>1, <1>2 DEF PostInv
<1>5. QED
  BY <1>1, <1>2, <1>3, <1>4, WithinRun DEF AtRun

\* The claim is exclusive: whoever gets it finds nobody at the run. If a receipt
\* has come since the look, this is a repeat, and one worker fewer can make one.
LEMMA ClaimStep ==
  ASSUME JobsInv, NEW w \in Workers, Claim(w), UNCHANGED contexts
  PROVE  JobsInv'
<1> DEFINE r == exec[w].run
<1>1. JobTypes /\ PostInv(w) /\ exec[w].at = "claim" /\ r \in RunIds
  BY DEF JobsInv, Claim, PostInv
<1>2. UNCHANGED <<specs, receipt, clock, orphan>> /\ JobsGrow
  BY <1>1 DEF Claim, JobsGrow, JobTypes
<1>3. CASE Return(w) /\ UNCHANGED <<claim, again>>
  <2>1. /\ exec' \in [Workers -> Posts] /\ exec'[w].at = "idle"
        /\ \A v \in Workers \ {w} : exec'[v] = exec[v]
    BY <1>1, <1>3, Returned
  <2>2. PostInv(w)'
    BY <2>1 DEF PostInv
  <2>3. QED
    BY <1>1, <1>2, <1>3, <2>1, <2>2, WithinRun DEF AtRun
<1>4. CASE /\ r \notin claim /\ claim' = claim \cup {r} /\ Goto(w, "execute")
           /\ again' = [again EXCEPT ![r] = IF receipt[r] = None THEN @ ELSE @ + 1]
  <2>1. /\ exec' \in [Workers -> Posts] /\ exec'[w].at = "execute"
        /\ exec'[w].run = r /\ exec'[w].spec = exec[w].spec /\ exec'[w].known = exec[w].known
        /\ \A v \in Workers \ {w} : exec'[v] = exec[v]
    BY <1>1, <1>4, Went DEF Places
  <2>2. again' \in [RunIds -> Nat]
    BY <1>1, <1>4 DEF JobTypes
  <2>3. JobTypes'
    BY <1>1, <1>2, <2>1, <2>2 DEF JobTypes
  <2>4. ClaimInv'
    <3>1. orphan' \subseteq claim' /\ r \notin orphan'
      BY <1>2, <1>4 DEF JobsInv, ClaimInv
    <3>2. \A v \in Workers \ {w} : AtRun(v)' => AtRun(v) /\ exec'[v].run = exec[v].run /\ exec[v].run # r
      BY <1>4, <2>1 DEF JobsInv, ClaimInv, AtRun
    <3>3. \A v \in Workers : AtRun(v)' => exec'[v].run \in claim' \ orphan'
      BY <1>2, <1>4, <2>1, <3>1, <3>2 DEF JobsInv, ClaimInv
    <3>4. \A u, v \in Workers : u # v /\ AtRun(u)' /\ AtRun(v)' => exec'[u].run # exec'[v].run
      BY <2>1, <3>2 DEF JobsInv, ClaimInv
    <3>5. ASSUME NEW q \in claim' \ orphan'
          PROVE  \E v \in Workers : AtRun(v)' /\ exec'[v].run = q
      <4>1. CASE q = r
        BY <2>1, <4>1 DEF AtRun
      <4>2. CASE q # r
        <5>1. PICK v \in Workers : AtRun(v) /\ exec[v].run = q
          BY <1>2, <1>4, <4>2 DEF JobsInv, ClaimInv
        <5>2. exec'[v] = exec[v]
          BY <1>1, <2>1, <5>1 DEF AtRun
        <5>3. QED
          BY <5>1, <5>2 DEF AtRun
      <4>3. QED
        BY <4>1, <4>2
    <3>6. QED
      BY <3>1, <3>3, <3>4, <3>5 DEF ClaimInv
  <2>5. PostInv(w)'
    BY <1>1, <1>2, <2>1 DEF PostInv
  <2>6. \A v \in Workers : PostInv(v)'
    BY <1>1, <1>2, <2>1, <2>3, <2>5, PostStays DEF JobsInv
  <2>7. \A q \in RunIds : JobReceiptInv(q)'
    BY <1>2, JobReceiptStays DEF JobsInv
  <2>8. ASSUME NEW q \in RunIds PROVE AgainInv(q)'
    <3>1. Looked(q)' \subseteq Looked(q)
      BY <2>1 DEF Looked
    <3>2. CASE q # r \/ receipt[r] = None
      <4>1. again'[q] = again[q]
        BY <1>1, <1>4, <3>2 DEF JobTypes
      <4>2. QED
        BY <1>2, <3>1, <4>1, NobodyNew
    <3>3. CASE q = r /\ receipt[r] # None
      <4>1. again'[q] = again[q] + 1 /\ again[q] \in Nat
        BY <1>1, <1>4, <3>3 DEF JobTypes
      <4>2. Looked(q)' = Looked(q) \ {w} /\ w \in Looked(q)
        BY <1>1, <2>1, <3>3 DEF Looked
      <4>3. IsFiniteSet(Looked(q))
        BY WorkersAssumption, FS_Subset DEF Looked
      <4>4. Cardinality(Looked(q)') = Cardinality(Looked(q)) - 1
        BY <4>2, <4>3, FS_RemoveElement
      <4>5. Cardinality(Looked(q)) \in Nat /\ Cardinality(Workers) \in Nat
        BY <4>3, WorkersAssumption, FS_CardinalityType
      <4>6. again[q] + Cardinality(Looked(q)) < Cardinality(Workers)
        BY <1>1, <3>3 DEF JobsInv, AgainInv
      <4>7. again'[q] + Cardinality(Looked(q)') < Cardinality(Workers)
        BY <4>1, <4>4, <4>5, <4>6
      <4>8. QED
        BY <1>2, <3>3, <4>7 DEF AgainInv
    <3>4. QED
      BY <3>2, <3>3
  <2>9. QED
    BY <2>3, <2>4, <2>6, <2>7, <2>8 DEF JobsInv
<1>5. QED
  BY <1>3, <1>4 DEF Claim

\* The first receipt of a run leaves everybody but its writer as one that may
\* still repeat it.
LEMMA ReceiptStep ==
  ASSUME JobsInv, NEW w \in Workers, WriteReceipt(w), UNCHANGED contexts
  PROVE  JobsInv'
<1> DEFINE r == exec[w].run
           new == [status |-> exec[w].status, spec |-> exec[w].spec, completed_at |-> exec[w].known]
<1>1. /\ JobTypes /\ PostInv(w) /\ exec[w].at = "receipt" /\ r \in RunIds
      /\ Goto(w, "unclaim") /\ exec[w].spec \in Candidates
  BY DEF JobsInv, WriteReceipt, PostInv, JobTypes
<1>2. UNCHANGED <<specs, claim, clock, orphan, again>> /\ JobsGrow
  BY <1>1 DEF WriteReceipt, JobsGrow, JobTypes
<1>3. /\ exec' \in [Workers -> Posts] /\ exec'[w].at = "unclaim" /\ exec'[w].run = r
      /\ \A v \in Workers \ {w} : exec'[v] = exec[v]
  BY <1>1, Went DEF Places
<1>4. new \in JobReceipts /\ new # None
  <2>1. exec[w].status \in {"SUCCEEDED", "FAILED"} /\ exec[w].known \in Nat
    BY <1>1 DEF PostInv, JobTypes, Posts
  <2>2. new \in JobReceipts
    BY <1>1, <2>1 DEF JobReceipts
  <2>3. QED
    BY <2>2, NoneIsNoReceipt DEF JobReceipts
<1>5. receipt'[r] = new /\ \A q \in RunIds \ {r} : receipt'[q] = receipt[q]
  BY <1>1 DEF JobTypes, WriteReceipt
<1>6. receipt' \in [RunIds -> JobReceipts \cup {None}]
  BY <1>1, <1>4 DEF JobTypes, WriteReceipt
<1>7. JobTypes'
  BY <1>1, <1>2, <1>3, <1>6 DEF JobTypes
<1>8. ClaimInv'
  BY <1>1, <1>2, <1>3, ClaimStays DEF JobsInv, AtRun
<1>9. \A v \in Workers : PostInv(v)'
  <2>1. PostInv(w)'
    BY <1>1, <1>3 DEF PostInv
  <2>2. QED
    BY <1>1, <1>3, <1>2, <1>7, <2>1, PostStays DEF JobsInv
<1>10. ASSUME NEW q \in RunIds PROVE JobReceiptInv(q)'
  <2>1. CASE q = r
    <3>1. /\ receipt'[q].spec = exec[w].spec /\ receipt'[q].status = exec[w].status
          /\ receipt'[q].completed_at = exec[w].known
      BY <1>5, <2>1
    <3>2. RunEntry(exec[w].spec, r).not_before \in Nat
      BY <1>1, EntryTypes DEF PostInv
    <3>3. exec[w].known >= RunEntry(exec[w].spec, r).not_before
      BY <1>1, <3>2 DEF PostInv, JobTypes, Posts
    <3>4. QED
      BY <1>1, <1>2, <2>1, <3>1, <3>3 DEF PostInv, JobReceiptInv
  <2>2. CASE q # r
    BY <1>2, <1>5, <2>2, JobReceiptStays DEF JobsInv
  <2>3. QED
    BY <2>1, <2>2
<1>11. ASSUME NEW q \in RunIds PROVE AgainInv(q)'
  <2>1. Looked(q)' = Looked(q)
    BY <1>1, <1>3 DEF Looked
  <2>2. CASE q # r
    BY <1>2, <1>5, <2>1, <2>2, NobodyNew
  <2>3. CASE q = r /\ receipt[r] # None
    BY <1>2, <1>1, <2>1, <2>3, <1>4, <1>5 DEF JobsInv, AgainInv
  <2>4. CASE q = r /\ receipt[r] = None
    <3>1. again'[q] = 0
      BY <1>1, <1>2, <2>4 DEF JobsInv, AgainInv
    <3>2. Looked(q) \subseteq Workers \ {w}
      BY <1>1, <2>4 DEF Looked
    <3>3. /\ IsFiniteSet(Workers \ {w})
          /\ Cardinality(Workers \ {w}) = Cardinality(Workers) - 1
      BY WorkersAssumption, FS_RemoveElement
    <3>4. IsFiniteSet(Looked(q)) /\ Cardinality(Looked(q)) <= Cardinality(Workers) - 1
      BY <3>2, <3>3, FS_Subset
    <3>5. Cardinality(Looked(q)) \in Nat /\ Cardinality(Workers) \in Nat
      BY <3>4, WorkersAssumption, FS_CardinalityType
    <3>6. again'[q] + Cardinality(Looked(q)') < Cardinality(Workers)
      BY <2>1, <2>4, <3>1, <3>4, <3>5
    <3>7. QED
      BY <1>4, <1>5, <2>4, <3>6 DEF AgainInv
  <2>5. QED
    BY <2>2, <2>3, <2>4
<1>12. QED
  BY <1>7, <1>8, <1>9, <1>10, <1>11 DEF JobsInv

\* The claim is taken away by its owner, or stays as an orphan of its owner.
LEMMA LeaveStep ==
  ASSUME JobsInv, NEW w \in Workers, Unclaim(w) \/ WorkerDies(w), UNCHANGED contexts
  PROVE  JobsInv'
<1> DEFINE r == exec[w].run
<1>1. JobTypes /\ ClaimInv /\ Return(w) /\ UNCHANGED <<specs, receipt, clock, again>>
  BY DEF JobsInv, Unclaim, WorkerDies
<1>2. /\ exec' \in [Workers -> Posts] /\ exec'[w].at = "idle"
      /\ \A v \in Workers \ {w} : exec'[v] = exec[v]
  BY <1>1, Returned
<1>3. JobTypes' /\ JobsGrow /\ PostInv(w)'
  BY <1>1, <1>2 DEF JobTypes, JobsGrow, PostInv
<1>4. CASE ~AtRun(w)
  <2>1. UNCHANGED <<claim, orphan>>
    BY <1>4 DEF Unclaim, WorkerDies, AtRun, JobsInv, JobTypes, Posts, Places
  <2>2. QED
    BY <1>1, <1>2, <1>3, <1>4, <2>1, WithinRun DEF AtRun
<1>5. CASE AtRun(w)
  <2>1. claim' \ orphan' = (claim \ orphan) \ {r} /\ orphan' \subseteq claim'
    BY <1>1, <1>5 DEF Unclaim, WorkerDies, AtRun, ClaimInv
  <2>2. \A v \in Workers : AtRun(v)' => v # w /\ AtRun(v) /\ exec'[v].run = exec[v].run
    BY <1>2 DEF AtRun
  <2>3. \A v \in Workers : AtRun(v)' => exec'[v].run \in claim' \ orphan'
    BY <1>1, <1>5, <2>1, <2>2 DEF ClaimInv
  <2>4. \A u, v \in Workers : u # v /\ AtRun(u)' /\ AtRun(v)' => exec'[u].run # exec'[v].run
    BY <1>1, <2>2 DEF ClaimInv
  <2>5. ASSUME NEW q \in claim' \ orphan'
        PROVE  \E v \in Workers : AtRun(v)' /\ exec'[v].run = q
    <3>1. PICK v \in Workers : AtRun(v) /\ exec[v].run = q
      BY <1>1, <2>1 DEF ClaimInv
    <3>2. v # w
      BY <2>1, <3>1
    <3>3. QED
      BY <1>2, <3>1, <3>2 DEF AtRun
  <2>6. ClaimInv'
    BY <2>1, <2>3, <2>4, <2>5 DEF ClaimInv
  <2>7. \A v \in Workers : PostInv(v)'
    BY <1>1, <1>2, <1>3, PostStays DEF JobsInv
  <2>8. ASSUME NEW q \in RunIds PROVE JobReceiptInv(q)' /\ AgainInv(q)'
    <3>1. JobReceiptInv(q)'
      BY <1>1, <1>3, JobReceiptStays DEF JobsInv
    <3>2. Looked(q)' \subseteq Looked(q)
      BY <1>2 DEF Looked
    <3>3. QED
      BY <1>1, <3>1, <3>2, NobodyNew
  <2>9. QED
    BY <1>3, <2>6, <2>7, <2>8 DEF JobsInv
<1>6. QED
  BY <1>4, <1>5

LEMMA JobsStep ==
  ASSUME JobsInv, Jobs, UNCHANGED contexts
  PROVE  JobsInv'
<1>1. ASSUME NEW spec \in Candidates, PersistSpec(spec) PROVE JobsInv'
  <2>1. JobTypes' /\ JobsGrow
    BY <1>1 DEF JobsInv, JobTypes, JobsGrow, PersistSpec
  <2>2. QED
    BY <1>1, <2>1, QuietJobs DEF PersistSpec
<1>2. CASE EditPreregistration \/ Tick
  <2>1. JobTypes' /\ JobsGrow
    BY <1>2 DEF JobsInv, JobTypes, JobsGrow, EditPreregistration, Tick
  <2>2. QED
    BY <1>2, <2>1, QuietJobs DEF EditPreregistration, Tick
<1>3. QED
  BY <1>1, <1>2, LookStep, ClaimStep, TimeOutStep, ReceiptStep, LeaveStep DEF Jobs

-----------------------------------------------------------------------------
(* The operator half.                                                       *)

Entries == [sequence : Nat, request : Requests]
Desks == [at : {"idle", "act", "append"}, request : Requests \cup {Nothing}]

OperatorTypes ==
  /\ journal \in Seq(Entries)
  /\ console \in [Clients -> Desks]
  /\ late \in [RequestIds -> Nat]

\* One receipt per request id, for mutating requests only, and a receipt for a
\* context is written after the context.
JournalInv ==
  /\ \A i \in DOMAIN journal :
       /\ journal[i].sequence = i
       /\ Mutating(journal[i].request)
       /\ journal[i].request.command = "MATERIALIZE_CONTEXT" => journal[i].request.cutoff \in contexts
  /\ \A i, k \in DOMAIN journal : journal[i].request.id = journal[k].request.id => i = k

\* What a client that has been admitted works on; by the time it appends, its
\* command has acted.
DeskInv(c) ==
  LET request == console[c].request IN
  /\ console[c].at # "idle" => request \in Requests /\ Admitted(request)
  /\ console[c].at = "append" =>
       /\ Mutating(request)
       /\ request.command = "MATERIALIZE_CONTEXT" => request.cutoff \in contexts

\* The clients that will act on a request id.
Acting(id) == {c \in Clients : /\ console[c].at = "act" /\ console[c].request.id = id
                               /\ Mutating(console[c].request)}

\* Once an id has its receipt, the clients that can still act on it are those
\* that looked before, and the one that appended is not among them.
LateInv(id) ==
  /\ Receipts(id) = {} => late[id] = 0
  /\ Receipts(id) # {} => late[id] + Cardinality(Acting(id)) < Cardinality(Clients)

RepliesInv == \A answer \in replies : answer.id # Nothing => Receipts(answer.id) # {}

OperatorInv ==
  /\ OperatorTypes /\ JournalInv /\ RepliesInv
  /\ \A c \in Clients : DeskInv(c)
  /\ \A id \in RequestIds : LateInv(id)

-----------------------------------------------------------------------------

LEMMA MutatingIds ==
  ASSUME NEW request \in Requests, Admitted(request), Mutating(request)
  PROVE  request.id \in RequestIds
BY DEF Admitted, RequestIds

\* The journal's own validation never fails.
LEMMA JournalIsValid == JournalInv => ValidJournal
<1> SUFFICES ASSUME JournalInv, NEW i \in DOMAIN journal
             PROVE  Cardinality(Receipts(journal[i].request.id)) = 1
  BY DEF JournalInv, ValidJournal
<1>1. Receipts(journal[i].request.id) = {i}
  BY DEF JournalInv, Receipts
<1>2. QED
  BY <1>1, FS_Singleton

LEMMA Counts ==
  ASSUME NEW id
  PROVE  /\ IsFiniteSet(Acting(id)) /\ Cardinality(Acting(id)) \in Nat
         /\ Cardinality(Clients) \in Nat /\ Cardinality(Clients) # 0
BY ClientsAssumption, FS_Subset, FS_CardinalityType, FS_EmptySet DEF Acting

\* One client moves; the others stay where they are.
Moves(c, desk) == console' = [console EXCEPT ![c] = desk]

LEMMA Moved ==
  ASSUME OperatorTypes, NEW c \in Clients, NEW desk \in Desks, Moves(c, desk)
  PROVE  /\ console' \in [Clients -> Desks] /\ console'[c] = desk
         /\ \A d \in Clients \ {c} : console'[d] = console[d]
BY DEF OperatorTypes, Moves

LEMMA DeskTypes ==
  /\ Waiting \in Desks /\ Waiting.at = "idle"
  /\ \A request \in Requests : [at |-> "act", request |-> request] \in Desks
BY DEF Waiting, Desks

\* A desk that stays as it is still knows what it knew while contexts only grow.
LEMMA DeskStays ==
  ASSUME NEW c \in Clients, DeskInv(c), console'[c] = console[c], contexts \subseteq contexts'
  PROVE  DeskInv(c)'
BY DEF DeskInv

\* Where the journal stays, so do its receipts and what was answered from them.
LEMMA JournalStays ==
  ASSUME JournalInv, UNCHANGED journal, contexts \subseteq contexts'
  PROVE  JournalInv' /\ \A id : Receipts(id)' = Receipts(id)
BY DEF JournalInv, Receipts

\* The count of the late acts on an id holds where no new client came to act on
\* it while it has its receipt.
LEMMA LateStays ==
  ASSUME OperatorTypes, NEW id \in RequestIds, LateInv(id), Receipts(id)' = Receipts(id),
         late'[id] = late[id], Receipts(id) # {} => Acting(id)' \subseteq Acting(id)
  PROVE  LateInv(id)'
<1>1. CASE Receipts(id) = {}
  BY <1>1 DEF LateInv
<1>2. CASE Receipts(id) # {}
  <2>1. Cardinality(Acting(id)') <= Cardinality(Acting(id)) /\ IsFiniteSet(Acting(id)')
    BY <1>2, Counts, FS_Subset
  <2>2. Cardinality(Acting(id)') \in Nat
    BY <2>1, FS_CardinalityType
  <2>3. late[id] \in Nat
    BY DEF OperatorTypes
  <2>4. late[id] + Cardinality(Acting(id)') < Cardinality(Clients)
    BY <1>2, <2>1, <2>2, <2>3, Counts DEF LateInv
  <2>5. QED
    BY <1>2, <2>4 DEF LateInv
<1>3. QED
  BY <1>1, <1>2

LEMMA OperatorStart == Init => OperatorInv
<1> SUFFICES ASSUME Init PROVE OperatorInv
  OBVIOUS
<1>1. /\ journal = <<>> /\ replies = {} /\ \A c \in Clients : console[c].at = "idle"
      /\ \A id \in RequestIds : late[id] = 0
  BY DEF Init, OperatorInit, Waiting
<1>2. OperatorTypes
  BY <1>1 DEF Init, OperatorInit, OperatorTypes, Desks, Waiting
<1>3. JournalInv /\ RepliesInv /\ \A c \in Clients : DeskInv(c)
  BY <1>1 DEF JournalInv, RepliesInv, DeskInv
<1>4. ASSUME NEW id \in RequestIds PROVE LateInv(id)
  <2>1. Receipts(id) = {}
    BY <1>1 DEF Receipts
  <2>2. QED
    BY <1>1, <2>1, Counts DEF LateInv
<1>5. QED
  BY <1>2, <1>3, <1>4 DEF OperatorInv

\* Steps that leave the desks, the journal and the counts.
LEMMA QuietOperator ==
  ASSUME OperatorInv, UNCHANGED <<journal, console, replies, late>>,
         contexts \subseteq contexts'
  PROVE  OperatorInv'
<1>1. JournalInv' /\ \A id : Receipts(id)' = Receipts(id)
  BY JournalStays DEF OperatorInv
<1>2. \A c \in Clients : DeskInv(c)'
  BY DeskStays DEF OperatorInv
<1>3. OperatorTypes' /\ RepliesInv'
  BY <1>1 DEF OperatorInv, OperatorTypes, RepliesInv
<1>4. \A id \in RequestIds : LateInv(id)'
  BY <1>1 DEF OperatorInv, LateInv, Acting
<1>5. QED
  BY <1>1, <1>2, <1>3, <1>4 DEF OperatorInv

\* The look for the request id, made when nothing is held yet.
LEMMA ServeStep ==
  ASSUME OperatorInv, NEW c \in Clients, NEW request \in Requests, Serve(c, request)
  PROVE  OperatorInv'
<1> DEFINE desk == [at |-> "act", request |-> request]
<1>1. /\ OperatorTypes /\ console[c].at = "idle" /\ Admitted(request)
      /\ UNCHANGED <<journal, pending, contexts, late>>
  BY DEF OperatorInv, Serve
<1>2. JournalInv' /\ \A id : Receipts(id)' = Receipts(id)
  BY <1>1, JournalStays DEF OperatorInv
<1>3. RepliesInv'
  BY <1>2 DEF OperatorInv, RepliesInv, Serve, Reply
<1>4. CASE UNCHANGED console
  <2>1. OperatorTypes' /\ \A d \in Clients : DeskInv(d)'
    BY <1>1, <1>4, DeskStays DEF OperatorInv, OperatorTypes
  <2>2. \A id \in RequestIds : LateInv(id)'
    BY <1>1, <1>2, <1>4 DEF OperatorInv, LateInv, Acting
  <2>3. QED
    BY <1>2, <1>3, <2>1, <2>2 DEF OperatorInv
<1>5. CASE Moves(c, desk) /\ (Mutating(request) => Receipts(request.id) = {})
  <2>1. /\ console' \in [Clients -> Desks]
        /\ console'[c].at = "act" /\ console'[c].request = request
        /\ \A d \in Clients \ {c} : console'[d] = console[d]
    BY <1>1, <1>5, Moved, DeskTypes
  <2>2. OperatorTypes'
    BY <1>1, <2>1 DEF OperatorTypes
  <2>3. \A d \in Clients : DeskInv(d)'
    <3>1. DeskInv(c)'
      BY <1>1, <2>1 DEF DeskInv
    <3>2. QED
      BY <1>1, <2>1, <3>1, DeskStays DEF OperatorInv
  <2>4. ASSUME NEW id \in RequestIds PROVE LateInv(id)'
    <3>1. Receipts(id) # {} => Acting(id)' \subseteq Acting(id)
      BY <1>5, <2>1 DEF Acting
    <3>2. QED
      BY <1>1, <1>2, <3>1, LateStays DEF OperatorInv
  <2>5. QED
    BY <1>2, <1>3, <2>2, <2>3, <2>4 DEF OperatorInv
<1>6. QED
  BY <1>4, <1>5 DEF Serve, Moves

\* A client that stops without a receipt of its own: it raised, died, found the
\* lease held at its append, or found that its id has a receipt already.
LEMMA StopStep ==
  ASSUME OperatorInv, NEW c \in Clients, Moves(c, Waiting),
         UNCHANGED <<journal, contexts, late>>, RepliesInv'
  PROVE  OperatorInv'
<1>1. OperatorTypes
  BY DEF OperatorInv
<1>2. /\ console' \in [Clients -> Desks] /\ console'[c].at = "idle"
      /\ \A d \in Clients \ {c} : console'[d] = console[d]
  BY <1>1, Moved, DeskTypes
<1>3. JournalInv' /\ \A id : Receipts(id)' = Receipts(id)
  BY JournalStays DEF OperatorInv
<1>4. OperatorTypes'
  BY <1>1, <1>2 DEF OperatorTypes
<1>5. \A d \in Clients : DeskInv(d)'
  <2>1. DeskInv(c)'
    BY <1>2 DEF DeskInv
  <2>2. QED
    BY <1>2, <2>1, DeskStays DEF OperatorInv
<1>6. ASSUME NEW id \in RequestIds PROVE LateInv(id)'
  <2>1. Acting(id)' \subseteq Acting(id)
    BY <1>2 DEF Acting
  <2>2. QED
    BY <1>1, <1>3, <2>1, LateStays DEF OperatorInv
<1>7. QED
  BY <1>3, <1>4, <1>5, <1>6 DEF OperatorInv

\* The command of a mutating request acts: its client passes from those that can
\* act to those that are to append.
LEMMA ActStep ==
  ASSUME OperatorInv, NEW c \in Clients, console[c].at = "act",
         Mutating(console[c].request), Acts(c), UNCHANGED <<journal, replies>>,
         contexts \subseteq contexts',
         console[c].request.command = "MATERIALIZE_CONTEXT" => console[c].request.cutoff \in contexts'
  PROVE  OperatorInv'
<1> DEFINE q == console[c].request.id
<1>1. OperatorTypes /\ DeskInv(c)
  BY DEF OperatorInv
<1>2. q \in RequestIds
  BY <1>1, MutatingIds DEF DeskInv
<1>3. /\ console' \in [Clients -> Desks] /\ console'[c].at = "append"
      /\ console'[c].request = console[c].request
      /\ \A d \in Clients \ {c} : console'[d] = console[d]
  BY <1>1 DEF Acts, OperatorTypes, Desks
<1>4. /\ late' \in [RequestIds -> Nat]
      /\ late'[q] = IF Receipts(q) = {} THEN late[q] ELSE late[q] + 1
      /\ \A id \in RequestIds \ {q} : late'[id] = late[id]
  BY <1>1, <1>2 DEF Acts, OperatorTypes
<1>5. JournalInv' /\ \A id : Receipts(id)' = Receipts(id)
  BY JournalStays DEF OperatorInv
<1>6. OperatorTypes' /\ RepliesInv'
  BY <1>1, <1>3, <1>4, <1>5 DEF OperatorInv, OperatorTypes, RepliesInv
<1>7. \A d \in Clients : DeskInv(d)'
  <2>1. DeskInv(c)'
    BY <1>1, <1>3 DEF DeskInv
  <2>2. QED
    BY <1>3, <2>1, DeskStays DEF OperatorInv
<1>8. ASSUME NEW id \in RequestIds PROVE LateInv(id)'
  <2>1. CASE id # q
    <3>1. Acting(id)' \subseteq Acting(id)
      BY <1>3, <2>1 DEF Acting
    <3>2. QED
      BY <1>1, <1>4, <1>5, <2>1, <3>1, LateStays DEF OperatorInv
  <2>2. CASE id = q /\ Receipts(id) = {}
    BY <1>4, <1>5, <2>2 DEF OperatorInv, LateInv
  <2>3. CASE id = q /\ Receipts(id) # {}
    <3>1. late[id] \in Nat /\ late'[id] = late[id] + 1
      BY <1>1, <1>4, <2>3 DEF OperatorTypes
    <3>2. Acting(id)' = Acting(id) \ {c} /\ c \in Acting(id)
      BY <1>3, <2>3 DEF Acting
    <3>3. Cardinality(Acting(id)') = Cardinality(Acting(id)) - 1
      BY <3>2, Counts, FS_RemoveElement
    <3>4. late'[id] + Cardinality(Acting(id)') < Cardinality(Clients)
      BY <2>3, <3>1, <3>3, Counts DEF OperatorInv, LateInv
    <3>5. QED
      BY <1>5, <2>3, <3>4 DEF LateInv
  <2>4. QED
    BY <2>1, <2>2, <2>3
<1>9. QED
  BY <1>5, <1>6, <1>7, <1>8 DEF OperatorInv

\* A receipt appended under the lease, after the id was looked for again, is the
\* only one of its id.
LEMMA Appended ==
  ASSUME journal \in Seq(Entries), JournalInv, NEW request \in Requests, Mutating(request),
         Receipts(request.id) = {}, UNCHANGED contexts,
         request.command = "MATERIALIZE_CONTEXT" => request.cutoff \in contexts,
         journal' = Append(journal, [sequence |-> Len(journal) + 1, request |-> request])
  PROVE  /\ journal' \in Seq(Entries) /\ JournalInv'
         /\ Receipts(request.id)' # {}
         /\ \A id : id # request.id => Receipts(id)' = Receipts(id)
<1> DEFINE n == Len(journal) + 1
           new == [sequence |-> n, request |-> request]
<1>1. n \in Nat /\ new \in Entries /\ new.sequence = n /\ new.request = request
  BY DEF Entries
<1>2. journal' \in Seq(Entries)
  BY <1>1
<1>3. /\ DOMAIN journal' = DOMAIN journal \cup {n} /\ n \notin DOMAIN journal
      /\ journal'[n] = new /\ \A i \in DOMAIN journal : journal'[i] = journal[i]
  BY <1>1
<1>4. \A i \in DOMAIN journal : journal[i].request.id # request.id
  BY DEF Receipts
<1>5. JournalInv'
  <2>1. ASSUME NEW i \in DOMAIN journal'
        PROVE  /\ journal'[i].sequence = i /\ Mutating(journal'[i].request)
               /\ journal'[i].request.command = "MATERIALIZE_CONTEXT"
                    => journal'[i].request.cutoff \in contexts'
    BY <1>1, <1>3 DEF JournalInv
  <2>2. ASSUME NEW i \in DOMAIN journal', NEW k \in DOMAIN journal',
               journal'[i].request.id = journal'[k].request.id
        PROVE  i = k
    BY <1>1, <1>3, <1>4, <2>2 DEF JournalInv
  <2>3. QED
    BY <2>1, <2>2 DEF JournalInv
<1>6. Receipts(request.id)' # {}
  BY <1>1, <1>3 DEF Receipts
<1>7. ASSUME NEW id, id # request.id PROVE Receipts(id)' = Receipts(id)
  BY <1>1, <1>3, <1>7 DEF Receipts
<1>8. QED
  BY <1>2, <1>5, <1>6, <1>7

LEMMA AppendStep ==
  ASSUME OperatorInv, NEW c \in Clients, AppendReceipt(c)
  PROVE  OperatorInv'
<1> DEFINE request == console[c].request
           q == console[c].request.id
<1>1. /\ OperatorTypes /\ JournalInv /\ DeskInv(c) /\ console[c].at = "append"
      /\ Moves(c, Waiting) /\ UNCHANGED <<pending, contexts, late>>
  BY DEF OperatorInv, AppendReceipt, Moves
<1>2. request \in Requests /\ Mutating(request) /\ q \in RequestIds /\ ValidJournal
  BY <1>1, MutatingIds, JournalIsValid DEF DeskInv
<1>3. CASE Receipts(q) # {}
  BY <1>1, <1>3, StopStep DEF AppendReceipt, OperatorInv, RepliesInv, Receipts
<1>4. CASE Receipts(q) = {}
  <2>1. /\ journal' = Append(journal, [sequence |-> Len(journal) + 1, request |-> request])
        /\ replies' = replies \cup {[id |-> q, durability |-> "APPEND_ONLY_OPERATOR_JOURNAL"]}
    BY <1>2, <1>4 DEF AppendReceipt, Reply
  <2>2. /\ journal' \in Seq(Entries) /\ JournalInv'
        /\ \A id : id # q => Receipts(id)' = Receipts(id)
        /\ \A id : id = q => Receipts(id)' # {}
    BY <1>1, <1>2, <1>4, <2>1, Appended DEF OperatorTypes, DeskInv
  <2>3. /\ console' \in [Clients -> Desks] /\ console'[c].at = "idle"
        /\ \A d \in Clients \ {c} : console'[d] = console[d]
    BY <1>1, Moved, DeskTypes
  <2>4. OperatorTypes'
    BY <1>1, <2>2, <2>3 DEF OperatorTypes
  <2>5. RepliesInv'
    BY <2>1, <2>2 DEF OperatorInv, RepliesInv
  <2>6. \A d \in Clients : DeskInv(d)'
    <3>1. DeskInv(c)'
      BY <2>3 DEF DeskInv
    <3>2. QED
      BY <1>1, <2>3, <3>1, DeskStays DEF OperatorInv
  <2>7. ASSUME NEW id \in RequestIds PROVE LateInv(id)'
    <3>1. Acting(id)' \subseteq Acting(id)
      BY <2>3 DEF Acting
    <3>2. CASE id # q
      BY <1>1, <2>2, <3>1, <3>2, LateStays DEF OperatorInv
    <3>3. CASE id = q
      <4>1. late[id] = 0 /\ Receipts(id)' # {}
        BY <1>4, <2>2, <3>3 DEF OperatorInv, LateInv
      <4>2. Acting(id)' \subseteq Clients \ {c}
        BY <2>3 DEF Acting
      <4>3. /\ IsFiniteSet(Clients \ {c})
            /\ Cardinality(Clients \ {c}) = Cardinality(Clients) - 1
        BY ClientsAssumption, FS_RemoveElement
      <4>4. IsFiniteSet(Acting(id)') /\ Cardinality(Acting(id)') <= Cardinality(Clients) - 1
        BY <4>2, <4>3, FS_Subset
      <4>5. Cardinality(Acting(id)') \in Nat
        BY <4>4, FS_CardinalityType
      <4>6. late[id] + Cardinality(Acting(id)') < Cardinality(Clients)
        BY <4>1, <4>4, <4>5, Counts
      <4>7. QED
        BY <1>1, <4>1, <4>6 DEF LateInv
    <3>4. QED
      BY <3>2, <3>3
  <2>8. QED
    BY <2>2, <2>4, <2>5, <2>6, <2>7 DEF OperatorInv
<1>5. QED
  BY <1>3, <1>4

LEMMA OperatorStep ==
  ASSUME OperatorInv, Operator
  PROVE  OperatorInv'
<1>1. ASSUME NEW c \in Clients, ActValidate(c) PROVE OperatorInv'
  <2>1. RepliesInv'
    BY <1>1 DEF OperatorInv, RepliesInv, ActValidate, Reply, Receipts
  <2>2. QED
    BY <1>1, <2>1, StopStep DEF ActValidate, Moves
<1>2. ASSUME NEW c \in Clients, ActRecover(c) PROVE OperatorInv'
  <2>1. Mutating(console[c].request)
    BY <1>2 DEF ActRecover, Mutating, COMMAND_SPECS, Command
  <2>2. CASE Acts(c)
    BY <1>2, <2>1, <2>2, ActStep DEF ActRecover
  <2>3. CASE Moves(c, Waiting) /\ UNCHANGED late
    <3>1. RepliesInv'
      BY <1>2 DEF OperatorInv, RepliesInv, ActRecover, Receipts
    <3>2. QED
      BY <1>2, <2>3, <3>1, StopStep DEF ActRecover
  <2>4. QED
    BY <1>2, <2>2, <2>3 DEF ActRecover, Moves
<1>3. ASSUME NEW c \in Clients, ActMaterialize(c) PROVE OperatorInv'
  <2>1. Mutating(console[c].request)
    BY <1>3 DEF ActMaterialize, Mutating, COMMAND_SPECS, Command
  <2>2. CASE Acts(c) /\ contexts' = contexts \cup {console[c].request.cutoff}
    BY <1>3, <2>1, <2>2, ActStep DEF ActMaterialize
  <2>3. CASE Moves(c, Waiting) /\ UNCHANGED <<contexts, late>>
    <3>1. RepliesInv'
      BY <1>3 DEF OperatorInv, RepliesInv, ActMaterialize, Receipts
    <3>2. QED
      BY <1>3, <2>3, <3>1, StopStep DEF ActMaterialize
  <2>4. QED
    BY <1>3, <2>2, <2>3 DEF ActMaterialize, Moves
<1>4. ASSUME NEW c \in Clients, AppendRefused(c) \/ ClientDies(c) PROVE OperatorInv'
  <2>1. RepliesInv'
    BY <1>4 DEF OperatorInv, RepliesInv, AppendRefused, ClientDies, Receipts
  <2>2. QED
    BY <1>4, <2>1, StopStep DEF AppendRefused, ClientDies, Moves
<1>5. CASE TransactionLeftPending
  BY <1>5, QuietOperator DEF TransactionLeftPending
<1>6. QED
  BY <1>1, <1>2, <1>3, <1>4, <1>5, ServeStep, AppendStep DEF Operator

-----------------------------------------------------------------------------

LEMMA NextInv == JobsInv /\ OperatorInv /\ [Next]_vars => (JobsInv /\ OperatorInv)'
<1> SUFFICES ASSUME JobsInv, OperatorInv, [Next]_vars PROVE JobsInv' /\ OperatorInv'
  OBVIOUS
<1>1. CASE UNCHANGED vars
  <2>1. JobTypes' /\ JobsGrow
    BY <1>1 DEF vars, jobVars, operatorVars, JobsInv, JobTypes, JobsGrow
  <2>2. QED
    BY <1>1, <2>1, QuietJobs, QuietOperator DEF vars, jobVars, operatorVars
<1>2. CASE Jobs /\ UNCHANGED operatorVars
  BY <1>2, JobsStep, QuietOperator DEF operatorVars
<1>3. CASE Operator /\ UNCHANGED jobVars
  <2>1. contexts \subseteq contexts'
    BY <1>3 DEF Operator, Serve, ActValidate, ActRecover, ActMaterialize, AppendReceipt,
       AppendRefused, ClientDies, TransactionLeftPending
  <2>2. JobTypes' /\ JobsGrow
    BY <1>3, <2>1 DEF jobVars, JobsInv, JobTypes, JobsGrow
  <2>3. QED
    BY <1>3, <2>2, QuietJobs, OperatorStep DEF jobVars
<1>4. ASSUME NEW w \in Workers, RunCommand(w) PROVE JobsInv' /\ OperatorInv'
  <2>1. OperatorInv'
    BY <1>4, QuietOperator DEF RunCommand
  <2>2. QED
    BY <1>4, <2>1, RunStep
<1>5. QED
  BY <1>1, <1>2, <1>3, <1>4 DEF Next

\* A run has one executor, and a claim nobody works under was left by a death:
\* the claim file is taken exclusively before the try whose finally clause
\* removes it (execute_job_run).
THEOREM OneExecutor == Spec => []RunsHaveOneExecutor
<1>1. JobsInv => RunsHaveOneExecutor
  <2> SUFFICES ASSUME JobsInv PROVE RunsHaveOneExecutor
    OBVIOUS
  <2>1. OneExecutorPerRun
    BY DEF OneExecutorPerRun, Executing, JobsInv, ClaimInv, AtRun
  <2>2. ClaimsAreAttributed
    BY DEF ClaimsAreAttributed, JobsInv, ClaimInv, AtRun
  <2>3. QED
    BY <2>1, <2>2 DEF RunsHaveOneExecutor
<1>2. QED
  BY <1>1, JobsStart, OperatorStart, NextInv, PTL DEF Spec

\* What is done again is bounded by who looked too early, whoever dies and
\* whichever append finds the lease held: once there is a receipt, a run is
\* executed again at most once by each worker but the first, and a request acts
\* again at most once by each client but the one that appended it
\* (execute_job_run, execute_operator_command).
THEOREM BoundedRepeats == Spec => []RepeatsAreBounded
<1>1. JobsInv /\ OperatorInv => RepeatsAreBounded
  <2> SUFFICES ASSUME JobsInv, OperatorInv PROVE RepeatsAreBounded
    OBVIOUS
  <2>1. ASSUME NEW r \in RunIds PROVE again[r] < Cardinality(Workers)
    <3>1. IsFiniteSet(Looked(r)) /\ Cardinality(Looked(r)) \in Nat
      BY WorkersAssumption, FS_Subset, FS_CardinalityType DEF Looked
    <3>2. Cardinality(Workers) \in Nat /\ Cardinality(Workers) # 0 /\ again[r] \in Nat
      BY WorkersAssumption, FS_CardinalityType, FS_EmptySet DEF JobsInv, JobTypes
    <3>3. QED
      BY <3>1, <3>2 DEF JobsInv, AgainInv
  <2>2. ASSUME NEW id \in RequestIds PROVE late[id] < Cardinality(Clients)
    <3>1. LateInv(id) /\ late[id] \in Nat
      BY DEF OperatorInv, OperatorTypes
    <3>2. QED
      BY <3>1, Counts DEF LateInv
  <2>3. QED
    BY <2>1, <2>2 DEF RepeatsAreBounded
<1>2. QED
  BY <1>1, JobsStart, OperatorStart, NextInv, PTL DEF Spec

\* The operator journal is valid in every state, an answer of success has its
\* receipt, and what receipts of either kind certify is there
\* (append_operator_receipt, validate_operator_journal, execute_job_run).
THEOREM GroundedReceipts == Spec => []ReceiptsAreGrounded
<1>1. JobsInv /\ OperatorInv => ReceiptsAreGrounded
  <2> SUFFICES ASSUME JobsInv, OperatorInv PROVE ReceiptsAreGrounded
    OBVIOUS
  <2>1. ValidJournal /\ \A answer \in replies : answer.id # Nothing => Receipts(answer.id) # {}
    BY JournalIsValid DEF OperatorInv, RepliesInv
  <2>2. \A i \in DOMAIN journal :
          journal[i].request.command = "MATERIALIZE_CONTEXT" => journal[i].request.cutoff \in contexts
    BY DEF OperatorInv, JournalInv
  <2>3. QED
    BY <2>1, <2>2 DEF ReceiptsAreGrounded, JobsInv, JobReceiptInv
<1>2. QED
  BY <1>1, JobsStart, OperatorStart, NextInv, PTL DEF Spec
=============================================================================
