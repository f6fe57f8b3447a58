---------------------------- MODULE BoundedJobs ----------------------------
(***************************************************************************)
(* Bounded research jobs (jobs/contracts.py, jobs/runtime.py): specs are   *)
(* persisted once, and a run of a spec is executed by whoever claims it.   *)
(* Receipt and claim of a run are files, and each step below is one of the *)
(* file operations of execute_job_run.                                     *)
(***************************************************************************)
EXTENDS Naturals, FiniteSets, Sequences, SequencesExt

CONSTANTS
  Workers,     \* processes that execute runs
  Candidates,  \* the specs somebody may try to persist
  RunIds,      \* ids of runs
  MaxTime,     \* bound on the clock
  MaxFaults,   \* bound on deaths and timeouts
  None

ASSUME WorkersAssumption == IsFiniteSet(Workers) /\ Workers # {}
ASSUME CandidatesAssumption ==
  \A spec \in Candidates : \A i \in DOMAIN spec.runs : spec.runs[i].not_before \in Nat
ASSUME NoneIsNoReceipt ==
  None \notin [status : {"SUCCEEDED", "FAILED"}, spec : Candidates, completed_at : Nat]

VARIABLES
  specs,    \* artifacts/evidence/jobs/specs: the persisted specs
  prereg,   \* content hash of the preregistration file
  receipt,  \* runtime/background_jobs/<run>.json, None if there is none
  claim,    \* the runs that have a claim file
  exec,     \* per worker: its step, its run and known_at_ns, and what came of it
  clock,    \* the known_at_ns that callers pass
  faults,   \* deaths and timeouts so far
  orphan,   \* history: runs whose claimant died
  again     \* history: per run, executions begun although a receipt was there

jobVars == <<specs, prereg, receipt, claim, exec, clock, faults, orphan, again>>

-----------------------------------------------------------------------------
(* The contract of a spec *)

\* The allowlisted actions, and the one argument each takes.
ACTION_ARGS == [VALIDATE_KERNEL |-> {}, CONTEXT_MATERIALIZE |-> {"cutoff_at_ns"},
                EXPERT_SYNC |-> {"known_at_ns"}]

\* runs is a sequence of [run_id, not_before]; args is the set of arguments given.
ValidJobSpec(spec) ==
  /\ spec.action \in DOMAIN ACTION_ARGS
  /\ spec.args = ACTION_ARGS[spec.action]
  /\ spec.runs # <<>>
  /\ \A i, k \in DOMAIN spec.runs :
       i # k => spec.runs[i].run_id # spec.runs[k].run_id
  /\ spec.preregistration = prereg

RunsOf(spec) == {spec.runs[i].run_id : i \in DOMAIN spec.runs}

\* load_job_specs answers at all only if every spec still validates and no
\* run id occurs in two of them.
Loadable ==
  /\ \A spec \in specs : ValidJobSpec(spec)
  /\ \A a, b \in specs : a # b => RunsOf(a) \cap RunsOf(b) = {}

JobOf(r) == CHOOSE spec \in specs : r \in RunsOf(spec)
RunEntry(spec, r) ==
  spec.runs[CHOOSE i \in DOMAIN spec.runs : spec.runs[i].run_id = r]

\* job_status of one run.
JobStatus(spec, r) ==
  IF receipt[r] # None THEN receipt[r].status
  ELSE IF RunEntry(spec, r).not_before <= clock THEN "READY" ELSE "SCHEDULED"

-----------------------------------------------------------------------------
Idle == [at |-> "idle", run |-> None, spec |-> None, status |-> None, known |-> 0]

JobsInit ==
  /\ specs = {} /\ prereg = 1 /\ claim = {} /\ orphan = {}
  /\ receipt = [r \in RunIds |-> None]
  /\ exec = [w \in Workers |-> Idle]
  /\ clock = 0 /\ faults = 0
  /\ again = [r \in RunIds |-> 0]

Goto(w, step) == exec' = [exec EXCEPT ![w].at = step]
Return(w) == exec' = [exec EXCEPT ![w] = Idle]

\* persist_job_spec: validated, then stored under the writer lease unless the
\* job id is taken; a spec that is stored already is returned as it is.
PersistSpec(spec) ==
  /\ spec \in Candidates
  /\ ValidJobSpec(spec)
  /\ \A old \in specs : old.job_id # spec.job_id
  /\ specs' = specs \cup {spec}
  /\ UNCHANGED <<prereg, receipt, claim, exec, clock, faults, orphan, again>>

\* execute_job_run, called with the instant, up to the look for a receipt. A run that has one is
\* answered from it, which changes nothing.
Look(w, r) ==
  /\ exec[w].at = "idle"
  /\ Loadable
  /\ \E spec \in specs : r \in RunsOf(spec) /\ JobStatus(spec, r) = "READY"
  /\ exec' = [exec EXCEPT ![w] = [at |-> "claim", run |-> r, spec |-> JobOf(r), status |-> None,
                                  known |-> clock]]
  /\ UNCHANGED <<specs, prereg, receipt, claim, clock, faults, orphan, again>>

\* Variant: the claim is taken inside the try, so that a refused claimant
\* leaves through the finally clause.
ClaimInsideTry(w) ==
  LET r == exec[w].run IN
  /\ exec[w].at = "claim"
  /\ \/ /\ r \notin claim
        /\ claim' = claim \cup {r}
        /\ again' = [again EXCEPT ![r] = IF receipt[r] = None THEN @ ELSE @ + 1]
        /\ Goto(w, "execute")
     \/ /\ r \in claim
        /\ Goto(w, "unclaim")
        /\ UNCHANGED <<claim, again>>
  /\ UNCHANGED <<specs, prereg, receipt, clock, faults, orphan>>

\* O_CREAT | O_EXCL on the claim file: one claimant gets it, the others raise,
\* outside the try whose finally clause removes the claim.
Claim(w) ==
  LET r == exec[w].run IN
  /\ exec[w].at = "claim"
  /\ \/ /\ r \notin claim
        /\ claim' = claim \cup {r}
        /\ again' = [again EXCEPT ![r] = IF receipt[r] = None THEN @ ELSE @ + 1]
        /\ Goto(w, "execute")
     \/ /\ r \in claim
        /\ Return(w)
        /\ UNCHANGED <<claim, again>>
  /\ UNCHANGED <<specs, prereg, receipt, clock, faults, orphan>>

\* The executor returned: success and failure both make a receipt.
Finish(w, status) ==
  /\ exec[w].at = "execute"
  /\ exec' = [exec EXCEPT ![w].at = "receipt", ![w].status = status]
  /\ UNCHANGED <<specs, prereg, receipt, claim, clock, faults, orphan, again>>

\* subprocess.TimeoutExpired: no receipt, and the finally clause runs.
TimeOut(w) ==
  /\ exec[w].at = "execute" /\ faults < MaxFaults
  /\ faults' = faults + 1
  /\ Goto(w, "unclaim")
  /\ UNCHANGED <<specs, prereg, receipt, claim, clock, orphan, again>>

\* completed_at_ns is the instant the caller passed, not the one it ended at.
WriteReceipt(w) ==
  /\ exec[w].at = "receipt"
  /\ receipt' = [receipt EXCEPT ![exec[w].run] =
       [status |-> exec[w].status, spec |-> exec[w].spec, completed_at |-> exec[w].known]]
  /\ Goto(w, "unclaim")
  /\ UNCHANGED <<specs, prereg, claim, clock, faults, orphan, again>>

\* The finally clause removes the claim file if it is there.
Unclaim(w) ==
  /\ exec[w].at = "unclaim"
  /\ claim' = claim \ {exec[w].run}
  /\ Return(w)
  /\ UNCHANGED <<specs, prereg, receipt, clock, faults, orphan, again>>

WorkerDies(w) ==
  /\ exec[w].at # "idle" /\ faults < MaxFaults
  /\ faults' = faults + 1
  /\ orphan' = IF exec[w].at = "claim" THEN orphan ELSE orphan \cup ({exec[w].run} \cap claim)
  /\ Return(w)
  /\ UNCHANGED <<specs, prereg, receipt, claim, clock, again>>

\* Somebody edits the preregistration that specs were bound to.
EditPreregistration ==
  /\ prereg = 1 /\ prereg' = 2
  /\ UNCHANGED <<specs, receipt, claim, exec, clock, faults, orphan, again>>

Tick ==
  /\ clock < MaxTime /\ clock' = clock + 1
  /\ UNCHANGED <<specs, prereg, receipt, claim, exec, faults, orphan, again>>
=============================================================================
