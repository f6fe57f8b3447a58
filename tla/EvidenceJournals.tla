-------------------------- MODULE EvidenceJournals --------------------------
(***************************************************************************)
(* The durable evidence of the kernel: the prediction journal               *)
(* (prediction/journal.py), the outcome journal (evaluation/journal.py) and *)
(* the assembly journal (assembly/journal.py), each a hash-chained .jsonl   *)
(* file with a projection in state/, and assemble_and_record                *)
(* (assembly/service.py), which reads two of them and appends to two.       *)
(*                                                                          *)
(* An append runs inside writer_lock, here a lease with one holder (see     *)
(* WriterLock for when that is so).  The checks before it, and              *)
(* rebuild_state, do not.  A process may crash between any two steps; the   *)
(* lease of the dead process is cleared by the next writer.                 *)
(*                                                                          *)
(* An entry's hash chain is its sequence number: the log only grows, so the *)
(* previous hash is determined by it.  Contracts of predictions and         *)
(* outcomes, and the checks of time arguments, are left out: they refuse    *)
(* before anything is read or written.                                      *)
(***************************************************************************)
EXTENDS Integers, Sequences, FiniteSets

CONSTANTS
    Procs,          \* processes that use the journals
    History,        \* predictions of the past, whose outcomes are competence
    Components,     \* predictions the assembly combines
    Early,          \* predictions of History decided before the cutoff
    None,           \* nobody, nothing
    MaxCrashes,     \* bound on the crashes of a behaviour
    MaxRebuilds     \* bound on the calls of rebuild_state

ASSUME BoundsAssumption == MaxCrashes \in Nat /\ MaxRebuilds \in Nat
ASSUME NoneAssumption == None \notin Procs
ASSUME PastAssumption == Early \subseteq History /\ History \cap Components = {}

VARIABLES
    log,            \* the .jsonl files
    projected,      \* entry_count of the files in state/
    lease,          \* the holder of writer_lock, or None
    pc,             \* next step of each process
    job,            \* what each process is doing
    crashes,        \* crashes so far
    rebuilds        \* calls of rebuild_state so far

files == <<log, projected>>
vars == <<files, lease, pc, job, crashes, rebuilds>>

JOURNALS == {"predictions", "outcomes", "receipts"}

FactSet(j) == {log[j][i].fact : i \in DOMAIN log[j]}

\* The facts on record, as a reader of the journals sees them.
Base == INSTANCE EvidenceBase WITH
            claims <- FactSet("predictions"),
            outcomes <- FactSet("outcomes"),
            receipts <- FactSet("receipts")

\* An assembled prediction names at least two models; one that a model made
\* names only that model.
ASSUME AssembledAssumption == Base!Blends \cap (History \cup Components) = {}

Facts == Base!Claims \cup Base!Outcomes \cup Base!Receipts

\* op: the call; fact: what it appends to journal; count: entries the process
\* has seen there; view: lines it has read in each journal; seen: claims of
\* the past it has read; profile: the competence an assembly rests on.
NoProfile == [claims |-> {}, outcomes |-> {}]
NoView == [j \in JOURNALS |-> 0]
Idle == [op |-> "none", journal |-> None, fact |-> None, count |-> 0,
         view |-> NoView, seen |-> {}, profile |-> NoProfile]

Init ==
    /\ log = [j \in JOURNALS |-> <<>>]
    /\ projected = [j \in JOURNALS |-> 0]
    /\ lease = None
    /\ pc = [p \in Procs |-> "idle"]
    /\ job = [p \in Procs |-> Idle]
    /\ crashes = 0 /\ rebuilds = 0

GoTo(p, label) == pc' = [pc EXCEPT ![p] = label]
Return(p) == GoTo(p, "idle") /\ job' = [job EXCEPT ![p] = Idle]

-----------------------------------------------------------------------------
(* The calls.                                                               *)

\* PredictionJournal.append of a model's prediction.
Predict(p, c) ==
    /\ pc[p] = "idle"
    /\ job' = [job EXCEPT ![p] = [Idle EXCEPT !.op = "predict", !.fact = c,
                                              !.journal = "predictions"]]
    /\ GoTo(p, "lease")
    /\ UNCHANGED <<files, lease, crashes, rebuilds>>

\* resolve_prediction and OutcomeJournal.append: the status depends on the
\* frames the caller supplies.
Resolve(p, o) ==
    /\ pc[p] = "idle"
    /\ job' = [job EXCEPT ![p] = [Idle EXCEPT !.op = "resolve", !.fact = o,
                                              !.journal = "outcomes"]]
    /\ GoTo(p, "lines")
    /\ UNCHANGED <<files, lease, crashes, rebuilds>>

\* assemble_and_record.
Assemble(p) ==
    /\ pc[p] = "idle"
    /\ job' = [job EXCEPT ![p] = [Idle EXCEPT !.op = "assemble",
                                              !.journal = "predictions"]]
    /\ GoTo(p, "lines")
    /\ UNCHANGED <<files, lease, crashes, rebuilds>>

-----------------------------------------------------------------------------
(* The checks outside the lease: validate_prediction_journal and            *)
(* validate_outcome_journal read the lines of a journal, then its           *)
(* projection; the caller then reads the entries again.                     *)

ReadLines(p) ==
    /\ pc[p] = "lines"
    /\ job' = [job EXCEPT ![p].view = [j \in JOURNALS |-> Len(log[j])]]
    /\ GoTo(p, "projections")
    /\ UNCHANGED <<files, lease, crashes, rebuilds>>

\* The journals whose projection the call relies on.
Sources(op) == IF op = "resolve" THEN {"predictions"} ELSE {"predictions", "outcomes"}

\* The projection must count the lines read before it.
ReadProjections(p) ==
    /\ pc[p] = "projections"
    /\ IF \A j \in Sources(job[p].op) : projected[j] = job[p].view[j]
       THEN GoTo(p, "entries") /\ job' = [job EXCEPT ![p].view = NoView]
       ELSE Return(p)
    /\ UNCHANGED <<files, lease, crashes, rebuilds>>

\* Variant: the outcome is not checked against the prediction journal.
CheckOutcomeUncited(p) ==
    /\ pc[p] = "entries" /\ job[p].op = "resolve"
    /\ GoTo(p, "lease")
    /\ UNCHANGED <<files, lease, job, crashes, rebuilds>>

\* _prediction_lineage_error: the outcome cites a journaled prediction.
CheckOutcome(p) ==
    /\ pc[p] = "entries" /\ job[p].op = "resolve"
    /\ IF job[p].fact.prediction \in FactSet("predictions")
       THEN GoTo(p, "lease") /\ UNCHANGED job
       ELSE Return(p)
    /\ UNCHANGED <<files, lease, crashes, rebuilds>>

\* _require_durable_components, and the predictions created by the cutoff.
ReadClaims(p) ==
    /\ pc[p] = "entries" /\ job[p].op = "assemble"
    /\ IF Components \subseteq FactSet("predictions")
       THEN /\ job' = [job EXCEPT ![p].seen = FactSet("predictions") \cap History]
            /\ GoTo(p, "outcomes")
       ELSE Return(p)
    /\ UNCHANGED <<files, lease, crashes, rebuilds>>

\* build_competence_profiles, which reads the outcomes after the claims: those
\* decided by the cutoff, of the claims it has.
Competence(p) ==
    [claims |-> job[p].seen,
     outcomes |-> {o \in FactSet("outcomes") : o.prediction \in Early \cap job[p].seen}]

\* assemble_prediction: the weights, and so the prediction, follow from it.
Blend(p) ==
    /\ pc[p] = "outcomes" /\ job[p].fact = None
    /\ job' = [job EXCEPT ![p].profile = Competence(p), ![p].seen = {},
                          ![p].fact = Base!BlendFrom(Competence(p))]
    /\ GoTo(p, "lease")
    /\ UNCHANGED <<files, lease, crashes, rebuilds>>

\* validate_assembly_receipt_lineage before the receipt: the assembled
\* prediction is on record and the competence can still be rebuilt.
CheckReceipt(p) ==
    /\ pc[p] = "outcomes" /\ job[p].fact # None
    /\ IF job[p].fact \in FactSet("predictions") /\ Competence(p) = job[p].profile
       THEN /\ job' = [job EXCEPT ![p].journal = "receipts", ![p].seen = {},
                          ![p].fact = [blend |-> job[p].fact,
                                       profile |-> job[p].profile]]
            /\ GoTo(p, "lease")
       ELSE Return(p)
    /\ UNCHANGED <<files, lease, crashes, rebuilds>>

-----------------------------------------------------------------------------
(* append inside the lease.                                                 *)

\* What an entry is looked up by: the id of a prediction, which is derived
\* from its content; the prediction an outcome or a receipt is about.
Key(j, f) == IF j = "predictions" THEN f
             ELSE IF j = "outcomes" THEN f.prediction ELSE f.blend

\* Variant: an entry counts as recorded only if its content is the same.
RecordedWithContent(p) == job[p].fact \in FactSet(job[p].journal)

Recorded(p) == \E f \in FactSet(job[p].journal) :
                    Key(job[p].journal, f) = Key(job[p].journal, job[p].fact)
SameContent(p) == job[p].fact \in FactSet(job[p].journal)

\* After the assembled prediction comes its receipt, unless the call was one
\* append.
Continue(p) ==
    IF job[p].op = "assemble" /\ job[p].journal = "predictions"
    THEN GoTo(p, "lines") /\ job' = [job EXCEPT ![p].count = 0]
    ELSE Return(p)

LeaseHeld(p) ==
    /\ pc[p] = "lease" /\ lease # None
    /\ Return(p)
    /\ UNCHANGED <<files, lease, crashes, rebuilds>>

\* Something else is on record under the key: an exception.
Conflict(p) ==
    /\ pc[p] = "lease" /\ lease = None
    /\ Recorded(p) /\ ~SameContent(p)
    /\ Return(p)
    /\ UNCHANGED <<files, lease, crashes, rebuilds>>

\* A retry of a recorded prediction returns the entry it finds.
PredictionRetried(p) ==
    /\ pc[p] = "lease" /\ lease = None
    /\ job[p].journal = "predictions" /\ SameContent(p)
    /\ Continue(p)
    /\ UNCHANGED <<files, lease, crashes, rebuilds>>

\* A retry of a recorded outcome or receipt writes the projection again.
OtherRetried(p) ==
    /\ pc[p] = "lease" /\ lease = None
    /\ job[p].journal # "predictions" /\ SameContent(p)
    /\ lease' = p
    /\ job' = [job EXCEPT ![p].count = Len(log[job[p].journal])]
    /\ GoTo(p, "project")
    /\ UNCHANGED <<files, crashes, rebuilds>>

NewEntry(p) ==
    /\ pc[p] = "lease" /\ lease = None
    /\ ~Recorded(p)
    /\ lease' = p
    /\ job' = [job EXCEPT ![p].count = Len(log[job[p].journal])]
    /\ GoTo(p, "append")
    /\ UNCHANGED <<files, crashes, rebuilds>>

AppendLine(p) ==
    /\ pc[p] = "append"
    /\ log' = [log EXCEPT ![job[p].journal] =
                    Append(@, [sequence |-> job[p].count, fact |-> job[p].fact])]
    /\ job' = [job EXCEPT ![p].count = @ + 1]
    /\ GoTo(p, "project")
    /\ UNCHANGED <<projected, lease, crashes, rebuilds>>

\* _write_state, and out of the with-block.
Project(p) ==
    /\ pc[p] = "project"
    /\ projected' = [projected EXCEPT ![job[p].journal] = job[p].count]
    /\ lease' = None
    /\ Continue(p)
    /\ UNCHANGED <<log, crashes, rebuilds>>

-----------------------------------------------------------------------------
(* rebuild_state takes no lease.                                            *)

RebuildReads(p, j) ==
    /\ pc[p] = "idle" /\ rebuilds < MaxRebuilds
    /\ job' = [job EXCEPT ![p] = [Idle EXCEPT !.op = "rebuild", !.journal = j,
                                              !.count = Len(log[j])]]
    /\ GoTo(p, "rebuild")
    /\ rebuilds' = rebuilds + 1
    /\ UNCHANGED <<files, lease, crashes>>

RebuildWrites(p) ==
    /\ pc[p] = "rebuild"
    /\ projected' = [projected EXCEPT ![job[p].journal] = job[p].count]
    /\ Return(p)
    /\ UNCHANGED <<log, lease, crashes, rebuilds>>

Crash(p) ==
    /\ pc[p] # "idle" /\ crashes < MaxCrashes
    /\ crashes' = crashes + 1
    /\ lease' = IF lease = p THEN None ELSE lease
    /\ Return(p)
    /\ UNCHANGED <<files, rebuilds>>

-----------------------------------------------------------------------------

Record(p) ==
    \/ LeaseHeld(p) \/ Conflict(p) \/ PredictionRetried(p) \/ OtherRetried(p)
    \/ NewEntry(p) \/ AppendLine(p) \/ Project(p)

Check(p) ==
    \/ ReadLines(p) \/ ReadProjections(p) \/ CheckOutcome(p)
    \/ ReadClaims(p) \/ Blend(p) \/ CheckReceipt(p)

Proceed(p) == Check(p) \/ Record(p) \/ RebuildWrites(p)

Next == \E p \in Procs :
    \/ \E c \in History \cup Components : Predict(p, c)
    \/ \E o \in Base!Outcomes : Resolve(p, o)
    \/ Assemble(p)
    \/ \E j \in JOURNALS : RebuildReads(p, j)
    \/ Proceed(p)
    \/ Crash(p)

Spec == Init /\ [][Next]_vars

-----------------------------------------------------------------------------
(* Properties.                                                              *)

\* Types, and the lease protects the steps from the lookup to the projection.
TypeOK ==
    /\ \A j \in JOURNALS : \A i \in DOMAIN log[j] : log[j][i].fact \in Facts
    /\ \A j \in JOURNALS : projected[j] <= Len(log[j])
    /\ \A p \in Procs : lease = p <=> pc[p] \in {"append", "project"}

\* Each entry of a journal continues the chain: the sequence an entry claims
\* was computed from the entries it follows (append reads, then writes).
ChainIntact ==
    \A j \in JOURNALS : \A i \in DOMAIN log[j] : log[j][i].sequence = i - 1

\* A prediction id, an outcome's prediction and a receipt's assembled
\* prediction are journaled once, whatever the retries.
OneFactPerKey ==
    \A j \in JOURNALS : \A i, k \in DOMAIN log[j] :
        Key(j, log[j][i].fact) = Key(j, log[j][k].fact) => i = k

\* A projection falls behind its journal only by a line whose writer has not
\* projected it yet, or crashed first: every append projects all lines before
\* it.  (rebuild_state, which takes no lease, can do worse.)
ProjectionLag ==
    rebuilds = 0 => \A j \in JOURNALS :
        LET writing == {p \in Procs : pc[p] = "project" /\ job[p].journal = j}
        IN  Len(log[j]) - projected[j] <= crashes + Cardinality(writing)

\* What every reader of the journals counts on before it reads them, through
\* retries, rebuilds and deaths: unbroken chains of one entry per fact, and
\* projections that are behind by no more than the deaths.
JournalsSound == TypeOK /\ ChainIntact /\ OneFactPerKey /\ ProjectionLag

\* The journals implement the growing base of facts.
EvidenceSpec == Base!Spec

=============================================================================
