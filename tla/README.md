# Verification of the autonomous kernel

TLA+ models of the durable core of ZLJ's `autonomous_kernel`, the TLC runs that
check them and the TLAPS proofs about them. The kernel is a set of Python
commands and long-running ticks that share one directory. There is no server
and no database: everything that must survive is a file, and everything that
must not happen twice or at once is prevented by a file. What can go wrong is
therefore an order of file operations, of several processes, some of which die.
That is what these models are made of: **one action per file operation** that
another process, or a crash, can come before or after.

The modules translate the code as it is. For two disagreements between the code
and what the repository says of it there is a run that expects a violation and a
finding in `PROJECT.json`. The others that were met are listed in section 5 only.

## 1. Inventory

### Parts that keep state of their own

| Part (under `src/autonomous_kernel/` unless noted) | State | Operations | What makes it correct | Module |
|---|---|---|---|---|
| **Writer lease** `store.py` `writer_lock` | `state/.writer.lock` | acquire with stale-lock takeover, release | one holder at a time; only proven orphans are cleared; the holder's release succeeds | `WriterLock` |
| **State store** `store.py` | `current_state.json`, `resume.json`, `backlog.json`, `transitions.jsonl`, `transactions.jsonl`, `pending_transaction.json` | `transition`, `update_task`, `recover_pending`, `validate` | commands are atomic across files and crashes; logs are written exactly once; the resume pointer follows the backlog | `StateStore` |
| **Book outbox** `book_outbox.py` | a file per receipt in `pending/`, `acknowledged/` or `quarantined/` | `enqueue`, `deliver_one`, `quarantine` | evidence is never dropped; acknowledged means recorded; every receipt settles | `BookOutbox` |
| **Model lifecycle** `models/registry.py`, `models/qualification.py` | `model_transitions.jsonl`, `model_registry.json`, receipts, proposals | `register`, `transition`, `rebuild_state`, build/persist/apply a proposal | the journal is a legal history; each evaluated transition has its evidence; the projection follows | `ModelLifecycle` |
| **Context profiles** `assembly/context_profiles.py`, `assembly/contextual*.py` | profile artifacts, an event journal and its projection, contextual receipts | `register`, `activate`, `rebuild_state`; assemble under a context | a call leaves a journal the next accepts; a receipt's profiles are those of its instant; overlays are bounded | `ContextProfiles` |
| **Question registry** `questions/` | a registry snapshot, a certificate | promote, evolve, qualify, certify, verify | a question's history only goes on; what is certified was never bent | `QuestionRegistry` |
| **Market observer** `market_observer.py`, `observer_storage.py`, `src/experiments/market_observer.py` | `observer.lock`, `state/market_observer.json`, preregistrations, audits, raw journals | one guarded tick | windows do not overlap, are never reused, end in one outcome; status, history and storage stay truthful and bounded | `MarketObserver` |
| **Market stream and observations** `microstream.py`, `market_data*.py`, `market_observation_qualification.py`, `joined_shadow_observer.py`, `qualified_shadow.py` | a raw journal per stream, bundle and manifest, observations and their index, window decisions | `ingest`, `finalize`, replay, `persist`, `rebuild_index`, qualify, join, `record` | the replay says what the stream held; an observation is backed by its bundle; a decision passes every later audit | `MicroStream`, `MarketEvidence` |
| **Evidence journals** `prediction/`, `evaluation/`, `assembly/` | hash-chained `.jsonl` and a projection each | `append`, `rebuild_state`, `validate` | chains grow only; nothing is journaled twice; outcomes and receipts rest on recorded evidence; projections catch up | `EvidenceJournals`, `LearningLoop` (question journals) |
| **Shadow operations** `shadow_lifecycle.py`, `operations.py`, `replay.py` | an operation journal with stages, receipts, capability log, checkpoint | `run`, receipts, promotion, replay | an operation has one result however often it is resumed; a receipt was authorized and agrees with its journal | `ExecutionPlane`, `ShadowExecution` |
| **Bounded jobs** `jobs/` | specs, claims, receipts | `persist_job_spec`, `execute_job_run` | one executor at a time; a claim without one only by a death | `BoundedJobs` |
| **Operator service** `operator/` | hash-chained receipts | `execute_operator_command` | once it has its receipt, a request id acts no more than its look-ups allow; receipts certify what is there | `OperatorCommands` |
| **Expert intelligence** `intelligence/`, `experts/` | event journal and projection | record claims, scores, competence, assemblies, syntheses, publications; qualify; hand off | what is handed off was known, qualified and recorded first; competence counts every score once | `ExpertRuntime`, `BenjaminGate` |
| **Learning loops** `learning/`, `experts/sync.py` | the question journals and the runtime's events | process a batch of a question, which keeps the frames and contexts it builds | every prediction is decided; a rerun teaches nothing new | `LearningLoop` |
| **Evidence stores** `observation/`, `representation/`, `context/`, `experience/`, `perception_graph/` | content-addressed files, an index each, the experience journal | persist, rebuild, materialize | everything rests on stored evidence; what a persist returned stays findable | `EvidenceStores` |
| **Root paths** `experience/root_path.py` | snapshots and an unlocked journal | build, `persist`, `commitment` | late frames change what they must and no more; what is committed is a chain | `RootPaths` |

### Parts that compute, without durable state of their own

Modelled as operators: the resolvers of `evaluation/` (`QuestionResolvers`), the
synthesis (`Synthesis`), the context builder (`MarketContexts`), the shadow
adapter and authorization (`ExecutionPlane`), order-book replay (`MicroStream`).
Not modelled: `research/`, the model baselines, `book_bridge.py` (signing), the
builders of experiences, the monitor (a read model), the command line and the
scripts of `src/experiments/`.

### How they interact

- Every command that changes state takes the **writer lease**: state store,
  model registry, evidence journals, intelligence runtime, operator journal, job
  specs. Checks made *before* taking it (qualification, outcomes, operator
  requests) rely on what they read staying true.
- The **observer** has a lease of its own and takes neither from the other.
  Its storage guard takes none.
- The **outbox** has no lease at all; it relies on atomic replacement, and on The
  Book being idempotent.
- Components meet only in files: a captured window becomes an observation, an
  observation a shadow decision, a prediction an outcome, an outcome
  competence, competence an evaluation receipt, a receipt a model transition.
- The **evidence stores**, the root-path journal and the stream journal take **no
  lease**, except the perception graph; they rely on content-addressed names.

### What is hard here

Crashes between two files of one logical update; recovery crashing in turn;
appends that are not atomic; locks inspected and removed in separate steps;
locks visible before their payload; checks made outside the lease; retries of
what was already done; projections that lag; evidence that becomes durable out
of the order of its time; clocks (cutoff, known, recorded, processed) compared
by one component and not by the next. `PROJECT.json` lists each one at its line
under `hazards`, with the properties that cover it or a note that says why none
does.

## 2. Modules and how they correspond to the code

**`ExclusiveLease`** is the abstract lease: nobody or one process. **`WriterLock`**
is `writer_lock`. `lock` is the file, identified by the token of the process
that created it; `written` says whether its payload is there (the code creates
the file and then writes, lines 238 and 255). The steps are the system calls:
`OpenExclusive`/`OpenFindsFile` (238), `WritePayload` (255), `ReadLock`
(241-244), `ProbeOwner` (245), `Reread` (246), `UnlinkStale` (248),
`VerifyOwnership` (267-269), `RemoveLock` (270). `seen` is `existing_text`.
`Crash` ends a process and `ReusePid` gives its pid to a new one. A payload that
is written after somebody unlinked the name goes nowhere, as on a file system.

**`RootStates`** holds the two tables of `store.py`. **`AtomicKernel`** is what
`transition` and `update_task` promise: one step each. **`StateStore`** is how
they do it: take the lease, validate, build a journal from the files read
(`Transition`, `UpdateTask`), write it (`Prepare`), replace the files in order
(`WriteBacklog`, `WriteCurrent`, `WriteResume`; a transition has no backlog to
write), append the transition record once, append the transaction record once
(`Complete`), unlink the journal, validate again. `Recover` enters the same
sequence from a journal found on disk. A crash releases the lease, because the
next command clears the orphaned lock; that this is exclusive is the subject of
`WriterLock`. `NextFromItems` is the choice of the next task: the best of the
ready tasks whose dependencies are completed, by priority and then id.
With `TornAppends`, a crash during an append may leave part of a line, which
the code can neither read past nor repair.

**`BookOutbox`** has a file or `None` for each receipt id in each of the three
directories. `Find` makes the three look-ups one at a time, in the code's order.
Moving a receipt is `WriteAcknowledged` or `WriteQuarantined` and then
`UnlinkPending`. The record is read again after the call (`Reread`), as in the
code, and may have gone. `book`, `BookAccepts` and `BookRefuses` are The Book,
which is outside `src/` and modelled from the interface `deliver_one` relies on:
it records an id once and answers a repetition alike. `CallFails` loses the
request or the answer. Evidence is its digests; `Corrupt` damages a stored
record so that they no longer match.

**`ModelLifecycle`** keeps the event journal, how much of it the projection
reflects, and what each process decided outside the lease (`job`). `Register`,
`Transition` and `RebuildState` take the lease and derive a model's state from
the journal; `AppendEvent` and `Project` are the two writes. `BuildProposal` and
`ApplyCheck` read the projection without the lease; `ApplyTransition` is the
call of `registry.transition` they lead to. Metrics and thresholds of a
receipt are abstracted to which target the receipt supports.

**`MarketObserver`** is one guarded tick per process: the storage guard; the
lease (`Open`, `WriteLock`, `Examine`, `MoveAside`, `CheckToken`, `Unlink`); the
run (`Load` with the recovery of an interrupted window, `Preregister`,
`Announce`, `OpenJournal`, `Capture`, `AuditValid`, `RecordSuccess`,
`RecordFailure`, `AuditRejected`); and `Compact` after the lease. Time is a
clock that cannot pass a run in progress by more than `RunTime`, the capture and
idle timeouts, which `ObserverConfig.load` requires to be shorter than the lease.
`Dies` is a killed process; `Cancel` is a `CancelledError` or
`KeyboardInterrupt`, which no handler records but which still releases the lease.

**`EvidenceBase`** is what the evidence journals promise a reader: facts that
are claimed, resolved and certified once, each resting on facts already there.
**`EvidenceJournals`** is how `PredictionJournal`, `OutcomeJournal` and
`AssemblyJournal` keep it. `log` is the three `.jsonl` files; `projected` is the
`entry_count` of the files in `state/`. An entry's `sequence` stands for its
hash chain: since a log only grows, the previous hash is determined by how many
entries the writer had read. `Predict`, `Resolve` and `Assemble` are the calls.
Their checks run without the lease, each read a step: `ReadLines` and
`ReadProjections` (the two `validate_..._journal`, lines first and projection
after), then the entries again (`CheckOutcome`, `ReadClaims`, `Blend`).
`LeaseHeld`, `Conflict`, `PredictionRetried`, `OtherRetried` and `NewEntry` are
the branches of `append` inside `writer_lock`, `AppendLine` and `Project` its two
writes. An assembly goes through the checks twice, for the assembled
prediction and, in `validate_assembly_receipt_lineage`, for its receipt
(`CheckReceipt`). `RebuildReads` and `RebuildWrites` are `rebuild_state`, which
takes no lease. The lease is one variable (see `WriterLock` for when that is
so), and a crash gives it up, as the next writer would clear it. A prediction
of the past, a component and an assembled prediction are told apart; weights
and competence are reduced to the claims and outcomes, decided before the
cutoff, that they are computed from. Validations that one call repeats before
the same read are one, and the files start out as `src/state/` has them, with no
entries. Left out: contracts and the checks of time
arguments, which refuse before anything is read; the second reading of the
registry; torn lines, which `StateStore` models for the state store.

**`BoundedJobs`** is `jobs/`: `Look` is the look for the receipt, `Claim` the
exclusive creation of the claim file, then the execution, which ends in a
receipt or a time-out, `WriteReceipt` (stamped with the time its caller knew)
and `Unclaim`. `RunEntry` and `ValidJobSpec` translate the contracts;
`EditPreregistration` is the environment. **`OperatorCommands`** is `operator/`:
`Admitted` and `Serve` are the checks and the look for the request id,
`ActRecover`, `ActMaterialize` and `ActValidate` what a command does,
`AppendReceipt` its entry in the journal, which `ValidJournal` validates.
`AppendRefused` is the raise of `writer_lock` when another command holds the
lease: the command has acted, its caller gets an error and lives, and there is
no receipt. **`Operations`** composes the two: both act on one kernel, and what
a job's action does is what the operator's would.

**`ExecutionPlane`** holds the pure part of `operations.py` and of the shadow
adapter: the capability's ladder, `Authorize`, `Execute` (how much fills, at
which price), `Accounting`. **`ShadowExecution`** is `ShadowLifecycle.run` with one
action per stage written to the journal, `ReceiptStore.persist`, and the replay
that calls it for each observation in order and saves its checkpoint. `shared`
remembers operations that two processes were at together. `unfit` are the observations
that are not VALID: the replay admits them, the operation of one raises (`Look`).
`Settled` are the assumptions an unfinished replay is promised to be run again with.

**`MicroStream`** is `replay_records`, `sequence_integrity` and the depth walks
as folds over a journal's records. **`MarketEvidence`** keeps that journal
(`Ingest`, torn by `DiesInAppend`), finalizes it in four writes (`Finalize`,
`WriteBundle`, `WriteManifest`, `PersistObservation`), rebuilds the index, and
lets joiners qualify the observation and record the window's decision. A joiner
qualifies under a policy of its own (`Policies`), which the decision names as
`freshness_policy`; every audit uses the limits that `qualification_snapshot`
and `certification_state` have in them (`AuditLimits`, thirty seconds in the
code, as in config/qualified_shadow.json). A join that is there already is
answered only if `Certified`. `Record` also raises where the lease is held.
`resumed` remembers that a stream was taken up after it had a bundle.

**`EvidenceStores`** is persist-then-index six times: a batch (`WriteData`, then
its manifest), a frame, a context, an experience (with its unlocked journal) and
a graph node (under the lease). An artifact is its store, version and time and
the artifacts it is computed `of`. `Loadable` is what `load_canonical_batch`
accepts, `Buildable` what `_load_durable_frames` lists. `crossed` are the stores
in which two persists overlapped. **`RootPaths`** is `experience/root_path.py`:
`BuildPath` translates the builder slot by slot, `LawfulPath` the contract it
constructs its result under; `LookForSnapshot`, `CreateSnapshot`, `ReadEvents`
and `AppendPath` are `persist`, `Commit` is `commitment`. **`MarketContexts`**
is `context/builder.py` as functions of the frames observed so far, without the
families CORRELATION, LEAD_LAG and LIQUIDITY; the alignment that the first two
are read from is there.

**`ContextProfiles`** has the two calls of the registry under their lease, with the
artifact, the event and the projection as three writes, and contextual assembly
as three more (`Contextualize`, `CheckLineage`, `RecordReceipt`). Weights are in
thousandths. **`QuestionRegistry`** has one action per builder; `everReady` remembers
which questions any snapshot made ready.

**`ExpertRuntime`** is the event journal of `intelligence/runtime.py` and its
projection. **`LearningLoop`** is the loops of `learning/`: `Begin` a batch, one
step for each line a run writes (`Predict`, `Resolve`, `AppendNext`) and for
each decision it takes from what it reads (`NextCutoff`, `Sync`, `Rebuild`,
`Assemble`, `Synthesize`), `Die` between any two, and `LeaseHeld` where an
append is refused and ends the run. `frames` are the instrument states a run
keeps, of a cutoff and of the horizon it resolves at; a context is built of
every frame stored by then that is not later than its cutoff (`ContextOf`), so
that the frames of one run are in the contexts of the next. `newest` is the
context an assembly and a synthesis name. `ContextChanges` is another program
that stores a frame of another instrument, and perhaps a context. `refused`
remembers a refused append, `behind` that the competence memory was waiting for
one. The three questions share the steps and differ in their cutoffs, in the
frames they keep, in which entry they take for their own (`Matches`, `Match`),
and in what a degraded or absent frame does. **`BenjaminGate`** is
`qualify_for_benjamin` and the hand-off after it; `Reasons` translates the
assessment by what it compares.

**`QuestionResolvers`** defines, for each of eleven kinds of question, the
decision as a function of the evidence that is durable at an instant; evidence
`Arrive`s in any order and `ResolveQuestion` journals the answer.
**`Synthesis`** is the reasoner's fold of the assemblies on record; they arrive
and age.

The `MC` modules only give constants values. Definitions commented `Variant:`
are plausible slips of the code, each next to the definition it would replace;
no specification uses them, and `PROJECT.json` pairs each with the property that
detects it.

## 3. Runs

| Run | Instance | Shows |
|---|---|---|
| `writer_lock_pairs` | 3 processes, two on one host, 4 acquisitions, any crashes and pid reuse | a sole holder that owns the file, no clearing of what cannot be verified, and the refinement of `ExclusiveLease`, while at most two contenders share a host |
| `writer_lock_race` (violation) | 3 processes on one host | two waiters verify the same orphan; the second unlinks the first one's new lock |
| `state_store` | 2 tasks, one depending on the other, 2 transactions, 2 crashes | agreement of the files, logs that are one history without repetition, atomicity (`AtomicSpec`), completion of recovery |
| `book_outbox` | 1 producer, 2 deliverers, 1 id, 2 pieces of evidence, 2 crashes or corruptions | `EvidenceKept`: no evidence lost, acknowledged is recorded, nothing starts over; every receipt settles |
| `model_lifecycle` | one of three sides: 1 model, 2 processes, 6 events, 2 proposals, 2 crashes; or 4 profiles of 2 models, 2 callers, 6 events, 2 contextual assemblies, 1 death; or 1 original question and the reversal, 2 instants, every order of the builders | `HistoryIsLegal` (legal edges, evidence on record, no qualification without replay and shadow, bounded lag); calls in order leave a valid profile journal; overlays explained and bounded; question histories only go on and certificates are clean |
| `context_profiles_order` (violation) | the profiles side, 5 events | a registration dated before the model's last event, accepted, after which the journal is refused |
| `market_observer` | 1 supervised process, 6 points in time, 2 crashes or cancellations | the seven parts of `ObserverStateSound` |
| `evidence_journals` | 2 processes, 1 past prediction, 2 components, 2 crashes, 1 rebuild | `JournalsSound` (chains, one entry per key, bounded lag) and the refinement of `EvidenceBase` |
| `operations` | 2 workers, or 2 clients, or one of each; 4 candidate specs of which one is invalid and one reuses a run id; 6 requests over 2 request ids; a death of a worker or an edited preregistration; any number of deaths of clients and of refused appends | one executor per run; after the receipt, repetitions bounded by those that looked before it; receipts that certify what is there |
| `shadow_execution` | 3 observations out of order and with a gap, 2 decided, 2 assumptions; two overlapping processes under a settled policy, or one that may die while capability and governor change; the undecided observation is not VALID, or one that there is a decision about | the validators accept every state; receipts are earned and agree with their journals; a replay completes unless one of its operations is barred for good |
| `market_evidence` | a stream of up to 3 of 6 messages in any order with deaths; 2 joiners under 2 policies, one of them laxer than the audit; 2 workers over five kinds of artifact; 7 frames around 4 slots and 2 writers; 12 reports of two spots and a derivative | the ten properties of the market side, see below |
| `expert_learning` | up to 3 runs of 3 questions over 3 batches, one after the other, with one death or one frame of another program and a refused append (the rest is then on the first batch); or two runs over the first batch at once in up to 3 turns; 2 clients over 16 dossiers; 8 of the 11 kinds of question with up to 3 pieces of evidence arriving in any order; up to 3 of 7 assemblies ageing over 5 instants | the seven properties of the learning side, see below |

`market_evidence` and `expert_learning`, and `model_lifecycle` above, put
components that share no file side by side: a variable `side` chooses at the
start which of them acts, so that a state is of one of them and the state spaces
add up instead of multiplying. Within a side components are composed in full
where they meet: the stream with its joiners, the learning loops with the expert
runtime they write, the stores with each other, jobs and operator over one kernel.

What the market side shows. `ReplayAgrees`: for every order and repetition of
messages the one-pass replay agrees with a declarative account of the stream
(which sequence numbers are missing, which came late, what the book holds since
its last snapshot). `BundleBacksObservation` and `BondsHold`: what was captured
is what is decided on, fresh by the limits the decision names, and a decision
whose limits are no laxer than the audit's passes the audit at every later time.
`LineageStored`: what is indexed is stored, and so is what an artifact is
computed from; nothing is claimed of the batch once two persists of it have
overlapped. `ReturnedIsIndexed`: what a persist returned is found by the next
builder, and the experience journal is a chain, for each store without the lease
as long as no two persists overlapped in it. `BuilderMeetsContract`,
`OneFrameTouchesOneSlot`, `CommitmentsAreChains`: the root-path builder never
makes a path its own contract refuses; a late frame changes at most the one slot
it falls into; a range committed to The Book is a chain although the journal may
fork. `ContextsAreEvenHanded`: an alignment uses no return twice and leaves none
that could still be matched; where the returns of both sides are more than twice
the tolerance apart it pairs the same ones whichever instrument is on the left.
Closer ones may depend on that: left at 0 and 3, right at -2 and 1, tolerance 2
gives one pair, and two the other way round. With every return reversed, none of
them zero, the regime is its opposite. `GoodEvidenceNeverLowers`: one more
qualified and priced frame never lowers the status of a context, that of its
core, cross-asset and derivatives families, or that of a relationship.
CORRELATION and LEAD_LAG are left out on purpose: one more frame can change
which returns are aligned and leave those of a side constant, and then there is
no correlation.

What the learning side shows. `EveryPredictionDecided`: whatever died, was
refused the lease, was repeated or ran in another order, a run that returned
left undecided only what its batch does not cover or an earlier entry shadows.
`CompetenceCountsOnce`: as long as nobody died and no two runs overlapped,
nothing is scored twice and at rest the memory counts every score, except after
a run that was refused the lease between a score and its memory; the next memory
counts them all. `RerunAddsNothing`: repeating the batch processed last, nothing
else having run or stored a frame since, adds no prediction, outcome, claim,
score or memory. The contexts of its later cutoffs are nevertheless built anew,
with the frames the first run kept, and if one of them becomes the newest
context the rerun may add an assembly and a synthesis that name it; otherwise it
adds no event at all. Runs after a death, a refused append or an overlap are
exempt. `HandoffsStand`: a hand-off looks at nothing that was not known, follows
its verdict, that follows its documents, and each identity has one of each.
`DecisionsStand` and `EveryQuestionDecides`: a resolver answers the same however
much evidence arrives later, as long as none of it is late, and every window
that has closed is decided. `EvidenceWeighsFairly`: the groups that count as
independent are the connected components of shared lineage; the same assemblies
synthesized later are not believed more, unless a contradiction between them
drops out of sight because one side went stale; and a further question over
evidence that is already represented does not raise independence, once two
questions have established it (from one question to two it may, from 0.0 to
0.5).

The exceptions written into these properties name what the code does not protect
against, and section 5 says what happens then: `overlapped`, `crossed`, `shared`
(two processes at once), `resumed` (a stream taken up again), `refused` and
`behind` (an append that found the lease held), `Barred` (an operation that can
never finish), `NoLaxer` (a policy laxer than the audit), `Sparse` (returns
spaced out), `steady = "moved"` (a rerun that made another context the newest),
`Late`, `Backdated`, `StaleInterval` and `RegistrationOutOfOrder`. The last is
what `context_profiles_order` shows: `RegistryStaysValid`, which exempts it,
says nothing of that hazard. Nor does `EveryQuestionDecides` of the raise of the
persistence resolver, which `StaleInterval` exempts.

**Why the bounds are enough.** Each is chosen so that the hazard it is for
happens, with one to spare. A takeover needs an owner that died and a contender,
a stolen takeover a third process: 3 processes and 4 acquisitions. A recovery
that is itself interrupted needs 2 crashes, and an interaction of a recovered
transaction with the next one 2 transactions. A lost answer, a resurrected
pending file and a double move each need 2 deliverers and one receipt; receipts
do not interact. A round trip out of DEGRADED needs 6 events. Separation, retry,
degradation (threshold 2) and history (bound 2) need 3 windows, the storage
bound (7 files, two per window) 4. An assembly needs two components; an outcome
arriving between its reads, a conflicting outcome and a rebuild across an append
each need one past prediction and a second process; a retry that is itself
interrupted needs 2 crashes. A run executed again, and a request acted on twice,
need two workers or two clients at one id. A gap, a late message, a duplicate, a
crossed book and a second snapshot each need 2 or 3 messages. A fork of a
journal needs two writers, a broken range across it three events, hence 4
builds. A profile's reinterpretation needs a second activation and an assembly
between the two. A duplicate score needs two syncs; a reused entry, two
questions of one model at one cutoff; a context that a rerun builds of more
frames, a batch with a frame kept for a horizon that a later cutoff comes after,
which the first batch has. A memory left behind needs a refused append and a run
after it. A barred replay needs an observation that is not VALID, a change of
the capability or a second set of assumptions; a decision that no audit accepts,
a policy one unit laxer. A resolver needs a baseline that is given, a forward
frame and one that contends with it; the paths of the grid kinds need three
points. An inflated independence needs three families sharing two lineages. The
clock, token, transaction, event, run and crash bounds end behaviours; all are
named constants that appear only in guards. The proofs of section 4 remove them
for the properties they state.

`CHECK_DEADLOCK FALSE` is set where behaviours end because a bounded supply is
used up: tokens of `WriterLock`, calls, events and deaths of the registries,
jobs, operations, stores, runs and dossiers. `StateStore`, `BookOutbox`,
`MarketObserver` and `EvidenceJournals`, where a stop would be a
deadlock of the code, are checked for it.

**Fairness.** `StateStore!FairSpec`: a running command goes on (weak), and
recovery is started again and again while a transaction is pending (strong,
since other commands get in between). The second is the operating procedure, not
the code: docs/KERNEL_OPERATIONS.md says to run `recover` if validation reports
a pending transaction, and only that is promised. `MCStateStore` repeats the
same conjuncts for its restricted initial states. `BookOutbox!FairSpec`: workers
go on (weak); some deliverer returns to a pending receipt, as `deliver_pending`
does; and The Book is not unreachable for ever (both strong).
`ShadowExecution!FairShadow`: every process goes on with the operation it is at
(weak), and an unfinished replay is run again with the settled assumptions, by
some process, until it is complete (strong), which is how a checkpoint that says
RUNNING is meant to be used. Of runs under other assumptions nothing is
promised: they may come in between, never or for ever, and one that begins an
operation first makes the settled replay conflict with it for good, which is the
third way for an operation to be barred. No fairness is assumed of crashes, of
other commands, or of the governor.

## 4. Proofs

Eight modules hold the theorems, for every value of the constants that satisfies
the `ASSUME`s of the module it is about: `LeaseAndShadowProofs` (the writer
lease, the shadow operations), `StoreAndObserverProofs` (the state store, the
market observer, the gate), `EvidenceJournalsProofs`, `BookProofs` (the outbox
and the root paths), `OperationsProofs`, `RegistriesProofs` (model lifecycle,
profiles, questions), `EvidenceProofs` (market evidence, stores and contexts)
and `ExpertLearningProofs` (the resolvers, the learning loops, synthesis). The
assumptions are of three kinds: numbers are numbers and bounds are natural;
markers (`None`, `Nobody`, `Absent`) are not among the values they mark the
absence of; canonical batches do not overlap (`BatchesAreDisjoint`); and what a
contract of the code refuses does not occur (`FramesAreLawful`,
`DelayIsPositive`, `LimitsAreTimes`, `ReceiptsType`, `FramesAssumption`,
`ContextsAreLawful`, `ReportsAreLawful`, `QuestionsAreKnown`). TLC evaluates
each of them in the run that instantiates its module.

**Writer lease.** Type correctness is unconditional. The rest assumes
`AtMostTwoPerHost`, which is exactly what `writer_lock_race` shows to be needed:
a contender between its second read and its unlink must be the only one that can
still clear that file. The inductive invariant has four parts: tokens of live
acquisitions are distinct (`TokenInv`); a file, on disk or in a contender's
memory, belongs to the process it names if to anybody (`Names`); a holder's
token is in the file (`HolderOwnsFile`); and what a contender has verified
stays true (`ContenderInv`: from the probe on, the owner is gone; from the second
read on, the lock is still the file it read). The last one is why exclusion
holds and is where the third contender would break it. Exclusion, ownership, the
protection of unverifiable locks and the refinement of `ExclusiveLease` follow.

**State store.** `MutualExclusion` of commands is built into the module; for
the rest the invariant reads the store through its pending journal. The *view*
is the journal's documents while a journal is pending and the files otherwise.
`ViewInv` says the view is consistent and its transitions are one history;
`PendingInv` that a pending journal is complete; `PreparedInv` what a command
has built from the files it read; `ProgressInv` how far the files have been
brought to the view. Writes of a transaction change the files and not the view,
so crashes and repeated recovery are harmless, and `Prepare` is the step at
which a command takes effect: this is the refinement of `AtomicKernel`, which
holds even with torn appends (safety survives; progress does not).

**Evidence journals.** What an append rests on is checked before its lease is
taken, and other processes append in between. `JobInv` says, for each process
and step, that what its checks saw *is on record*: an outcome's prediction,
the components and the competence of an assembled prediction (`Grounded`,
`Assembled`). Since the journals only grow, this survives every step of the
others (`JobInvStable`), which is the whole reason why checking early is safe
here. What growth could falsify, that nothing is recorded under the key, is
looked up inside the lease and kept by `Leased`: at most one process is between
the lookup and the projection. With this `IInv` is inductive, also through
`rebuild_state`, which takes no lease but writes only projections. Intact chains,
one entry per key and types are conjuncts or consequences; `AppendLine` maps to
one step of `EvidenceBase` and every other step to a stutter. The assumptions
are that past, component and assembled predictions are different predictions:
an assembled one names at least two models, the others one each. That the lease
is exclusive is built into the module, as in the state store.
`JournalsSoundHolds` adds the lag of the projections, as long as nothing was
rebuilt: a rebuild takes no lease and may put an older view back. `LagInv` says of
each journal that the lines its projection lacks are at most the crashes, and one
more while a process is between a line and its projection. An append adds a line
and such a process, a projection removes the process and the lag together, a crash
moves one to the count. The property counts the
processes that are writing: that set is finite, and not empty when there is one.

**Book outbox.** `EvidenceIsKept` assumes `[]OneProducerPerReceipt`: two
producers that both look before either writes can enqueue two pieces of evidence
under one id (section 5). One producer, as in the code, satisfies it by itself
(`OneProducerKeepsEvidence`). The three directories are read one at a time while
others move files between them, so the invariant says of each worker what its
look-ups still mean. It rests on two facts that never become false again: what
was accepted for a receipt first, and that it has been settled. `ReceiptInv`:
every file, and what The Book has, is of the evidence accepted first.
`WorkerInv`: so is the copy a deliverer carries; a producer that found nothing
in one directory knows that the receipt is new or has moved on to the ones it
has yet to read. `SettlementIsFinal` is the action property that follows.

**Root paths.** Nothing locks the root-path journal, so its lines need not form
a chain. `PathsInv` says what survives every interleaving: a line carries some
number at most its own position and names as its predecessor the line that
stands at the position before that *number* (`Line`); a persister that is about
to append remembers such a line (`Persister`); lines never move, since the
journal is only appended to (`AppendedLine`). So if the numbers of a range agree
with the positions, which is all that `commitment` compares, every line of the
range names the one before it. `CommitmentsAreChainsHolds` is this for any
frames, writers, deaths and bounds. `BuilderMeetsContractHolds` and
`OneFrameTouchesOneSlotHolds` are about the builder itself, for any grid,
lookback, lag and age. They unfold its fold over the slots: the windows of two
slots do not meet (`SlotsApart`, from `Lag` and `Age` below `Grid`), so the path
is slot by slot a function of the frames of that slot alone (`PointsAre`), and a
frame that is in no slot's window changes nothing.

**Operations.** Jobs and operator act on one kernel; the two halves of the
invariant share only the market contexts, which grow. `ClaimInv`: a claim that
no death left has exactly one worker at its run. What is done twice is bounded
by counting who can still be between its look and its act: once a run has its
receipt, its repetitions and the workers that looked before are together fewer
than the workers (`AgainInv`). A request likewise: before its receipt no act
counts as late, and once it has one, its late acts and the clients that are
still about to act on it are together fewer than the clients (`LateInv`),
because a client that begins after the receipt finds it. Before the receipt
nothing bounds the acts: an append that was refused the lease, or died, leaves
the request to be acted on again.

**Model lifecycle.** The lease is held from the look at the journal to the
projection (`LeaseInv`), so the event a process is about to append continues the
history as it is when it appends (`Continues`). What was decided outside the
lease contributes only the evidence and the target of an edge (`Matches`), never
the state it starts from. That nothing is in service without replay is inductive
once stated for every state that comes after it (`ReplayedFirst`); that shadow
comes before service then follows from the transition table, by the first place
of a history at which it would fail.

**Profiles and questions.** `ProfilesInv` follows a registration through artifact,
event and projection under the lease (`FilesInv`, `CallerInv`). An assembly reads
without the lease; what it read stays explained because an event changes what an
instant resolves to only if it is dated before it. `RegistryStaysValid` holds while
nobody died and no registration came out of order, which are the exceptions of
the property itself. `OverlaysStand` bounds the product of a context's factors,
a fold over the features, by the multiplier's bounds. `RegistryInv`, for
`CertificatesStand`, needs that the builders keep a snapshot lawful, in any order,
and that what was ever ready is ready or retired.

**Market evidence and stores.** `ReplayEvidence` is the lemma the rest cites:
what the one-pass replay has computed after each record (the last number,
whether a number was missing or came late, the newest time) is what a
declarative account of those records says (`Evident`). `QualifiedStreamIsWhole`
follows: the numbers are an interval. `MarketInv` carries it over finalization:
the observation is the replay of a beginning of the bundle, the bundle a
beginning of the lines, and all three agree until the stream is resumed. A
decision is the one this observation qualified for when it was made, under the
limits it names (`Sound`), hence `DecisionsRestOnWholeStreams` and
`OneBoundDecision`: freshness under some limits is freshness under all that are
no tighter, so a decision made under limits no laxer than the audit's passes it,
at any time, for any limits of either. `StoresInv` says, per worker and step,
what it has written and what its reads found (`Knows`), and that this still
stands unless somebody was in the same store (`Apart`, `crossed`). The identity
of an artifact determines the artifact, so replacing a file changes nothing,
except in the batch, whose identity is the stream's and whose content the
version.

**Replay.** `ReplayIsFaithful` is about data, not steps: of `MarketInv` it needs
only that the writer's records are lines. Three inductions over a stream carry
it. `Traces` follows a stream and its first occurrences side by side: what was
seen before leaves the replay as it was but for the count of repeats, what is
new is the next first occurrence. `BookTold` says of the book, after each event,
that a level holds the last word on it since the last snapshot, and
`TellsEvents` that the words of a message are a piece of the list of all words,
so that later messages only append. The numbers seen are consecutive from the
first on exactly when no gap and no disorder was noted. For the stream delivered
twice the same lemma applies to the concatenation. The features: after each
level a walk has filled the lesser of what was asked and what is there
(`WalkTakes`), and of two walks the larger pays no less per unit at each level
(`Dearer`, the products carried along as the invariant). Sorting is a bijection
from ranks (`SortedIs`), so a percentile has the share it claims at or below it,
strictly less below. Assumed of messages (`MessagesAssumption`) is what a replay
does not refuse: a side is bid or offer and no quantity is negative; and that
prices are not.

**Contexts.** `EvenHandedHolds` and `GoodEvidenceHelps` need of the history only
that what was observed is a finite set of reports (`ObservedInv`); the work is
in the operators. The order of frames gives each a place of its own (`Position`:
its rank, as for a replay), so the priced frames of an instrument are numbered
without gap and a return is the difference of two neighbours. `PairsAre` says
what an alignment is after its first k returns on the left: what it paired is
near, used once, and every return so far is paired or has only far ones left;
with the right side sparser than twice the tolerance two crossing pairs would be
too near each other. With both sides as sparse, each return is near at most one
of the other side, so the pairs are exactly the near ones, which is a symmetric
thing to be. A sum of returns is followed through an enumeration of the members,
and the sum of the negated ones mirrors it. For the second theorem, one more
frame can become the newest of its instrument, and then it is qualified and
priced, or else it leaves the newest alone; it never takes a return away. It may
break pairs of an alignment, or leave the paired returns of a side constant, so
CORRELATION and LEAD_LAG can get worse and the theorem does not cover them; a
relationship that had enough pairs has returns on both sides, hence a
confirmation, which stays (`PairsNeedReturns`). The assumptions are
`ReportsAreLawful` (an id is the hash of a frame, times and levels are numbers)
and that the threshold is an integer.

**Gate.** `GateInv` has three parts. What stands in the journal was earned: the
verdict has its documents before it, the hand-off an eligible verdict (`Backed`,
`Earned`). What a client that is underway looked up is still so (`Underway`),
since the journal only grows and a dossier does not change. And while no two
clients overlapped, what one missed is still missing (`Alone`), hence one of each.

**Market observer.** `ObserverIsSound` proves all of `ObserverStateSound` for
one supervised process and every configuration `ObserverConfig.load` accepts.
With two, the lease does not keep them apart (section 5) and the state file
loses updates, so one process is the assumption, as in the run. The invariant
has two halves. `FileSound` says of a state file that its windows are
preregistered, stand in it once and are never the active one, and that
`next_eligible` is at least the separation after every success kept: this is
what survives failures, whose retry time is later because their own start was
due. `RunOK` says what a run has read by the step it is at: the state it works
on is the one on disk, recovered and announced, because nobody else writes the
file. The bound on the failures counts one entry ahead for an active window
nobody is working on, which is why the recovery that appends without trimming
stays within `MaxHistory` plus the interruptions.

**Shadow operations.** There is no lock: each stage of an operation is one write
over whatever the file held. `Entry` says what an entry is worth at each of its
stages, with only its own fields to go by: from AUTHORIZED on an allowance was
given to a preregistered capability, from EXECUTED on the result is the
adapter's for the entry's own assumptions, a finalized one has a receipt. It
holds of the journal (`EntriesInv`) and of what a process has in memory
(`StepsInv`), whichever of the two overwrites the other, because receipts are
never taken away and the rank of the capability only rises (`EntryStands`). That
journal and receipt *agree* needs more: while no two processes met at an
operation (`MetInv`), the memory of the process that is at it is the journal
(`AloneInv`). `ProperAt` gives the state of a replay in closed form: it has
passed the first k observations, and goes on with the next (`NextIs`,
`Advances`). For this the order of a replay must give each observation a place
of its own, which `OrderIsOrder` shows by counting: a place is one more than the
number of observations before, and distinct identities make the order total.
`LogInv` says that promotions in the capability's log rise in rank, hence
differ. The assumptions are those of `TypedDecision.validate`,
`ExecutionAssumptions.validate` and `ReplayEngine.run` (quantities and steps
positive, ratios at most one, identities of observations distinct).

**Resolvers.** `ResolversInv` says that every outcome on record is what its
resolver answered on the evidence seen at some instant not later than now. Why
it still answers the same: whatever a resolver looks at it selects as the first
in a window, and evidence that becomes known after the window closed neither
falls into it nor comes before the first (`SelectionStays`). The slots of a grid
do not overlap (`SlotEnds`), so a path is slot by slot a function of what was
selected in each (`PathOf`). For the persistence of a regime the order by time
known is not enough: a context must not be known later than the instant it was
cut for, which its contract demands (`ContextsAreLawful`). `QuestionsDecide` is
the other half: past the end and its slack no resolver says that it has to wait.

**Learning loops.** The theorems are about runs that do not overlap. `LoopInv`,
for `PredictionsAreDecided`, says that then one run is underway (`OneRun`), the
journal has one prediction per question, cutoff and model (`Unique`), and of
every cutoff a run has left `Behind` each model's prediction is found, and each
is decided, will be pending when the batch ends, or is still among the run's
items. What a run had seen when it came to a cutoff may be out of date when it
uses it; that does no harm because whatever is there and was not seen, it added
itself (`Within`). A run that returned has no items left, which makes it
`Complete`; a later prediction cannot undo this, since its key is found already.
A death at any point leaves at most one more line. `LearnInv`, for
`TheMemoryCountsOnce`, says what a run owes the memory at each of its stages
(`Aims`): in `rebuild` its queue has scores nobody has counted, of different
claims (`Owed`); in `assemble` either the memory is up to date or the queue is
the one event that makes it so (`NewMemory`); otherwise it is up to date
(`Remembered`) or a refused append left it `behind`, which only the next memory
ends. That a sync queues no score twice comes from `Unique` and from the state
file being the whole journal as long as nobody died in between. The assumptions
on constants are that batches are intervals of integers that do not overlap (the
capture lease admits one window at a time), that each question has a sequence of
models, and that the absent memory is no memory and no run. The entries of a
type are taken from a journal by their ranks (`Those` of `ExpertRuntime`),
because the provers cannot unfold `SelectSeq`; `ThoseAre` and `ThoseGrow` are
what it does.

`RerunsAddNothing` is the action property `RerunAddsNothing`. A run that does
again what was done last begins with `steady` "again", and goes on as "moved"
once a context it built became the newest. Four invariants lead to it, and TLC
was given all of them before they were proved. `WayInv` says where a run is on
the way through its batch, and that every prediction is of a cutoff that some
batch examines (`Made`): since batches are disjoint in time, of one batch only.
`WholeInv` is about what a rerun of Direction may find in place of its own
entry: of Magnitude and of Liquidity a batch holds all or nothing when no run is
at it, because the run that makes the first prediction of a batch (`Fresh`)
decides all of them or dies, which is why every entry found again is settled
(`MatchSettled`). `RestInv` says what a run leaves done stage by stage
(`Holds`), and what still stands after it returned (`Rested`): after its sync
every prediction known by the end of the batch is claimed, and scored if it is
decided, but for what is still in the queue (`Synced`); after its assembly the
envelope it would build again is on record (`Assembled`), and after its
synthesis so is the synthesis, or there is a conflict (`Concluded`). What rests
this way stays so while nothing is written (`RestAlike`). `AgainInv` says of
each stage of a rerun what it finds there (`Redoes`): that everything learnt is
there it finds whichever contexts it builds, because an entry is looked for by
its cutoff and model, and resolved under the context it names or not at all;
that the assembly and the synthesis are there it finds only while the newest
context is the one they name, hence the two values of `steady`.

**Synthesis.** `SynthesisInv` says that the synthesis on record is the market
state of assemblies that are still there, at an instant not later than now; what
the steps promise of two syntheses is then a fact about `MarketState`. Sums:
however a set is added up, any member may come last (`AnyLast`), so more members
of no lesser weight make no lesser sum (`SumsCompare`). With time families only
become stale, so findings are only added, but for a contradiction between
answers of which one went stale, and no weight grows. Groups: after each pair of
families the roots are `Tied`, that is, families of one root are connected, and
the pairs so far that share have one root; every pair comes up
(`EveryPairComes`), so the roots number the components. A family on represented
evidence has the root of an old family, and what was connected before still is:
the roots after are an image of the roots before (`NoNewGroup`). The assumption
is that every family has a horizon and every arrival is of a family
(`QuestionsAreKnown`).

**Induction over data.** The library's induction theorems take an operator and
cannot be instantiated here. Where a fold or a recursive function had to be
followed through every input, the proofs use the least number of a set of
counterexamples (from the well-foundedness of `<`) and unfold `FoldLeft`,
`FoldSet` or the function once by its definition. `SelectSeq` and `SortSeq`
offer no such definition to the provers, so what is sorted in `MicroStream` is
sorted by `Rank`.

**Only model-checked.** Liveness (`RecoveryCompletes`, `EventuallySettled`,
`ReplayCompletes`), since the prover handles neither fairness nor `ENABLED`.

## 5. Not modelled, and observations

Not modelled, and why:

- I/O errors other than a crash (a full disk, a refused permission): they raise
  in the middle of an operation as a crash would, but the process goes on.
- `writer_lock` raising at once because another command holds the lease, where
  it changes nothing that a death or a wait would not. It is a step of
  `EvidenceJournals` (`LeaseHeld`), `OperatorCommands` (`AppendRefused`),
  `MarketEvidence` (`Record`) and `LearningLoop` (`LeaseHeld`). The commands of
  the state store, the model and profile registries, job specs and qualification
  take the lease before they write anything, so a refused one has done nothing.
  The perception graph, the contextual receipts and the gate's hand-off leave
  what a death at the same place leaves, and deaths are steps of their modules.
- The contents of documents: hashes, signatures, decimal prices, metrics and
  wording. Hash chains appear as sequences or predecessor lines; prices are
  small integers.
- The websocket capture itself: it succeeds or fails. Provider adapters,
  numerical representations, model baselines and proper scores.
- The perception hand-off after a capture; candle observations; the
  quote-notional walk; `execution_realism`.
- `status_summary`, the operator's snapshot and projections, the monitor and the
  evidence reports, which only read.
- The builders of experiences and of the economic graph.
- Composition of `WriterLock` with its users: the users assume an exclusive
  lease, which is what `ImplementsLease` proves of it under its assumption.

Observations met while modelling, where the code does less than a reader may
expect; the exceptions in the properties stand for the ones a property meets.

*State store and outbox.* A torn append leaves a log that recovery cannot read:
a prepared transaction then stays pending for good (`TornAppends`). Two
producers that both look before either writes can enqueue two pieces of evidence
under one receipt id.

*Registries.* A proposal applies although its model left `from_state` and came
back. `ALLOWED_TRANSITIONS` lets a model go REPLAY_QUALIFIED, DEGRADED, SHADOW,
QUALIFIED without walk-forward. A profile activation dated before an earlier
assembly changes what that assembly's instant resolves to; a registration that
died after its artifact blocks a retry at another instant, and if another
profile takes the version, leaves an orphan the kernel's validation refuses. The
generic builder can make reversal 1.0 ready beside 1.1 or 1.2 and move an
entry's effective time back; only certification catches it. Nothing in `src/`
outside the tests drives the profile registry, the registry's evolution or its
certificate.

*Observer.* A second observer started while the first one's lock has no payload
takes it for stale, and both capture, although docs/MARKET_OBSERVER.md (line 42)
says that the lease prevents overlapping windows. `market_observer` has one
process.

*Evidence journals.* After a death between an assembled prediction's line and
its state file every retry is refused until another prediction or a rebuild;
the docstring of `assemble_and_record` supposes otherwise.

*Operations.* A run that finishes between another worker's look and claim is
executed again; a claim left by a death is never cleared; two valid specs that
share a run id block every job. An operator command acts before it asks for the
lease of its receipt: as long as the append is refused, every retry of the
request id acts again.

*Shadow operations.* The replay takes any observation, `ShadowLifecycle.run`
only VALID ones: a decision about another makes every replay raise at it. A
denial is permanent once journaled, and so is the conflict of an operation begun
under other assumptions; either keeps a replay of it from completing. The
authorization is not decided again on resumption and ignores the capability's
operational status; two overlapping runs can overwrite a receipt.

*Market evidence.* Finalizing a resumed stream replaces its bundle while the
observation names the old one. A joined-shadow hand-off is tried at most once
per window. `JoinedShadowPolicy.validate` accepts freshness limits above the
audit's thirty seconds: a decision under such a policy may fail every later
audit, and the certification and every repeated join with it. A join repeated
while a bundle is being replaced raises. A death between a batch's data and its
manifest blocks that batch for good; two overlapping writers of two versions
poison the index. Validation of a representation store accepts an index that
misses a frame. The experience and root-path journals may fork, which
verification refuses for good. A late frame without a price that sorts first in
a slot empties a slot that was filled. In a context: neither age nor freshness
affects the status; core breadth may rest on derivatives alone; a zero return
counts as falling; returns closer than twice the tolerance may align crosswise,
feed lead-lag out of order, and align differently with the instruments
exchanged.

*Learning.* Direction, run again after Magnitude, may reuse Magnitude's entry
and leave its own undecided. The frames a run keeps for its horizons are in the
contexts that a rerun builds of later cutoffs. Direction, run again over a batch
of three cutoffs or more, reuses its entries but may add an assembly that names
the new context; then a synthesis of it, or, two assemblies of one instant being
a conflict, none any more. Magnitude and Liquidity resolve under the context
they have built: run again over such a batch they raise at the third cutoff,
whose context has more frames. So do these two after another program stored a
frame that is in a context they build. A run that is refused the lease between
its scores and its memory leaves the memory without them, and running it again
does not help, since it finds no new score (sync.py:137); the next run that
scores does. A competence memory known at a batch's end counts scores of a later
batch that was processed first. A death between a prediction's line and its
state file blocks resolution until another prediction. A publication dated at
instant 0 is exempt from the gate's chronology. The persistence resolver raises
on a context of the right interval that was cut from frames known before the
cutoff. An input going stale can raise the confidence by hiding a contradiction.
A second question over the evidence of the first raises independence from 0.0 to
0.5, although `test_duplicate_underlying_evidence_does_not_inflate_independence`
names the contrary; from two questions on it does not.

## 6. Plan

1. **Composition** of the writer lease with one of its users, in place of the
   assumption.
2. **Failing writes** in `MarketObserver` and bytes that do not decode in
   `BookOutbox`.
3. **The perception hand-off**, composed with the observer's tick.
4. **The economic graph and the builders of experiences**, over `EvidenceStores`.
