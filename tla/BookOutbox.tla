----------------------------- MODULE BookOutbox -----------------------------
(***************************************************************************)
(* The durable outbox through which evidence reaches The Book               *)
(* (autonomous_kernel/book_outbox.py).  A receipt is a file in pending/,    *)
(* acknowledged/ or quarantined/; moving it is a write of the new file      *)
(* followed by an unlink of the old one.  Nothing is locked: producers run  *)
(* enqueue, deliverers run deliver_one (and through it quarantine), each    *)
(* file operation is a step of its own, and any of them may crash between   *)
(* two.  Evidence is abstracted to its digests, so two different signed     *)
(* envelopes for one receipt id are two different members of Evidence.      *)
(*                                                                          *)
(* The Book is external: append_idempotent records a receipt id once,       *)
(* answers a repetition as a duplicate, refuses other evidence for an id it *)
(* knows, and its answer may be lost on the way back.                       *)
(***************************************************************************)
EXTENDS Naturals, FiniteSets

CONSTANTS
    Producers,      \* processes that enqueue
    Deliverers,     \* processes that deliver
    Ids,            \* receipt ids
    Evidence,       \* digests of envelope and payload
    None,           \* no file, no evidence
    MaxCrashes      \* bound on the crashes of a behaviour

ASSUME DisjointWorkers == Producers \cap Deliverers = {}
ASSUME BoundIsNatural == MaxCrashes \in Nat

Workers == Producers \cup Deliverers

VARIABLES
    pending,        \* pending/<id>.json of each id, or None
    acknowledged,   \* acknowledged/<id>.json
    quarantined,    \* quarantined/<id>.json
    pc,             \* where each worker is in enqueue or deliver_one
    job,            \* the receipt id it works on, and a producer's evidence
    record,         \* the pending record a deliverer last read
    book,           \* The Book: the evidence it recorded under each id
    accepted,       \* history: the evidence first enqueued under each id
    crashes

store == <<pending, acknowledged, quarantined>>
vars == <<store, pc, job, record, book, accepted, crashes>>

\* A stored record: its evidence, and whether its stored bytes still match
\* the digests recorded beside them.
Records == [evidence : Evidence, intact : BOOLEAN]
NoJob == [id |-> None, evidence |-> None]

ASSUME NoneIsNoFile == None \notin Evidence /\ None \notin Records

Init ==
    /\ pending = [i \in Ids |-> None]
    /\ acknowledged = [i \in Ids |-> None]
    /\ quarantined = [i \in Ids |-> None]
    /\ pc = [w \in Workers |-> "idle"]
    /\ job = [w \in Workers |-> NoJob]
    /\ record = [w \in Workers |-> None]
    /\ book = [i \in Ids |-> None]
    /\ accepted = [i \in Ids |-> None]
    /\ crashes = 0

GoTo(w, step) == pc' = [pc EXCEPT ![w] = step]

\* Return to the caller, normally or with an exception.
Return(w) ==
    /\ GoTo(w, "idle")
    /\ job' = [job EXCEPT ![w] = NoJob]
    /\ record' = [record EXCEPT ![w] = None]

-----------------------------------------------------------------------------
(* enqueue                                                                  *)

Enqueue(w, i, e) ==
    /\ w \in Producers /\ pc[w] = "idle"
    /\ job' = [job EXCEPT ![w] = [id |-> i, evidence |-> e]]
    /\ GoTo(w, "find pending")
    /\ UNCHANGED <<store, record, book, accepted, crashes>>

\* _find: three is_file calls, in the order PENDING, ACKNOWLEDGED,
\* QUARANTINED.  A file found ends enqueue: the same evidence is returned,
\* other evidence is an OutboxConflict; neither writes.
Find(w) ==
    LET i == job[w].id IN
    /\ pc[w] \in {"find pending", "find acknowledged", "find quarantined"}
    /\ CASE pc[w] = "find pending" ->
              IF pending[i] # None THEN Return(w)
              ELSE GoTo(w, "find acknowledged") /\ UNCHANGED <<job, record>>
         [] pc[w] = "find acknowledged" ->
              IF acknowledged[i] # None THEN Return(w)
              ELSE GoTo(w, "find quarantined") /\ UNCHANGED <<job, record>>
         [] OTHER ->
              IF quarantined[i] # None THEN Return(w)
              ELSE GoTo(w, "create") /\ UNCHANGED <<job, record>>
    /\ UNCHANGED <<store, book, accepted, crashes>>

\* The record replaces whatever file has appeared since the look-ups.
Create(w) ==
    LET i == job[w].id IN
    /\ pc[w] = "create"
    /\ pending' = [pending EXCEPT ![i] = [evidence |-> job[w].evidence, intact |-> TRUE]]
    /\ accepted' = [accepted EXCEPT ![i] = IF @ = None THEN job[w].evidence ELSE @]
    /\ Return(w)
    /\ UNCHANGED <<acknowledged, quarantined, book, crashes>>

-----------------------------------------------------------------------------
(* deliver_one                                                              *)

\* The pending file is found and read; without one deliver_one returns the
\* settled record or raises KeyError.
StartDelivery(w, i) ==
    /\ w \in Deliverers /\ pc[w] = "idle"
    /\ pending[i] # None
    /\ job' = [job EXCEPT ![w] = [id |-> i, evidence |-> None]]
    /\ record' = [record EXCEPT ![w] = pending[i]]
    /\ GoTo(w, IF pending[i].intact THEN "mark" ELSE "quarantine")
    /\ UNCHANGED <<store, book, accepted, crashes>>

\* quarantine is an operation of its own, too.
StartQuarantine(w, i) ==
    /\ w \in Deliverers /\ pc[w] = "idle"
    /\ pending[i] # None
    /\ job' = [job EXCEPT ![w] = [id |-> i, evidence |-> None]]
    /\ GoTo(w, "quarantine")
    /\ UNCHANGED <<store, record, book, accepted, crashes>>

\* attempt_count and last_attempt_at are written back from the record read.
MarkAttempt(w) ==
    /\ pc[w] = "mark"
    /\ pending' = [pending EXCEPT ![job[w].id] = record[w]]
    /\ GoTo(w, "call")
    /\ UNCHANGED <<acknowledged, quarantined, job, record, book, accepted, crashes>>

Knows(i) == book[i] # None

\* The Book records new evidence, or recognises what it has.
BookAccepts(w) ==
    LET i == job[w].id IN
    /\ pc[w] = "call"
    /\ ~Knows(i) \/ book[i] = record[w].evidence
    /\ book' = [book EXCEPT ![i] = record[w].evidence]
    /\ GoTo(w, "reread accepted")
    /\ UNCHANGED <<store, job, record, accepted, crashes>>

\* PermanentBookDeliveryError, or an acceptance for another receipt.
BookRefuses(w) ==
    /\ pc[w] = "call"
    /\ book[job[w].id] # record[w].evidence
    /\ GoTo(w, "quarantine")
    /\ UNCHANGED <<store, job, record, book, accepted, crashes>>

\* Any other exception: The Book may have recorded the evidence or not.
CallFails(w) ==
    LET i == job[w].id IN
    /\ pc[w] = "call"
    /\ \/ UNCHANGED book
       \/ ~Knows(i) /\ book' = [book EXCEPT ![i] = record[w].evidence]
    /\ GoTo(w, "reread failed")
    /\ UNCHANGED <<store, job, record, accepted, crashes>>

\* The record is read again after the call; it may have gone meanwhile.
Reread(w) ==
    LET i == job[w].id IN
    /\ pc[w] \in {"reread accepted", "reread failed", "quarantine"}
    /\ IF pending[i] = None
       THEN Return(w)
       ELSE /\ record' = [record EXCEPT ![w] = pending[i]]
            /\ GoTo(w, CASE pc[w] = "reread accepted" -> "acknowledge"
                         [] pc[w] = "reread failed" -> "note error"
                         [] OTHER -> "set aside")
            /\ UNCHANGED job
    /\ UNCHANGED <<store, book, accepted, crashes>>

\* last_error is written back; the receipt stays pending.
NoteError(w) ==
    /\ pc[w] = "note error"
    /\ pending' = [pending EXCEPT ![job[w].id] = record[w]]
    /\ Return(w)
    /\ UNCHANGED <<acknowledged, quarantined, book, accepted, crashes>>

\* Variant: the pending file goes before the acknowledged one is written.
AcknowledgeUnlinkFirst(w) ==
    /\ pc[w] = "acknowledge"
    /\ pending' = [pending EXCEPT ![job[w].id] = None]
    /\ GoTo(w, "unlink")
    /\ UNCHANGED <<acknowledged, quarantined, job, record, book, accepted, crashes>>

WriteAcknowledged(w) ==
    /\ pc[w] = "acknowledge"
    /\ acknowledged' = [acknowledged EXCEPT ![job[w].id] = record[w]]
    /\ GoTo(w, "unlink")
    /\ UNCHANGED <<pending, quarantined, job, record, book, accepted, crashes>>

WriteQuarantined(w) ==
    /\ pc[w] = "set aside"
    /\ quarantined' = [quarantined EXCEPT ![job[w].id] = record[w]]
    /\ GoTo(w, "unlink")
    /\ UNCHANGED <<pending, acknowledged, job, record, book, accepted, crashes>>

\* Variant: the pending file stays behind.
UnlinkForgotten(w) ==
    /\ pc[w] = "unlink"
    /\ Return(w)
    /\ UNCHANGED <<store, book, accepted, crashes>>

\* path.unlink(): FileNotFoundError when another worker was faster.
UnlinkPending(w) ==
    /\ pc[w] = "unlink"
    /\ pending' = [pending EXCEPT ![job[w].id] = None]
    /\ Return(w)
    /\ UNCHANGED <<acknowledged, quarantined, book, accepted, crashes>>

-----------------------------------------------------------------------------
(* Failures.                                                                *)

Crash(w) ==
    /\ pc[w] # "idle" /\ crashes < MaxCrashes
    /\ crashes' = crashes + 1
    /\ Return(w)
    /\ UNCHANGED <<store, book, accepted>>

\* The stored bytes of a pending record stop matching their digests.
Corrupt(i) ==
    /\ pending[i] # None /\ crashes < MaxCrashes
    /\ crashes' = crashes + 1
    /\ pending' = [pending EXCEPT ![i].intact = FALSE]
    /\ UNCHANGED <<acknowledged, quarantined, pc, job, record, book, accepted>>

Progress(w) ==
    \/ Find(w) \/ Create(w) \/ MarkAttempt(w)
    \/ BookAccepts(w) \/ BookRefuses(w) \/ CallFails(w)
    \/ Reread(w) \/ NoteError(w) \/ WriteAcknowledged(w) \/ WriteQuarantined(w)
    \/ UnlinkPending(w)

Next ==
    \/ \E w \in Producers, i \in Ids, e \in Evidence : Enqueue(w, i, e)
    \/ \E w \in Deliverers, i \in Ids : StartDelivery(w, i) \/ StartQuarantine(w, i)
    \/ \E w \in Workers : Progress(w) \/ Crash(w)
    \/ \E i \in Ids : Corrupt(i)

Spec == Init /\ [][Next]_vars

\* Workers keep running, some deliverer keeps returning to each pending
\* receipt, and The Book is not out of reach for ever.
Fairness ==
    /\ \A w \in Workers : WF_vars(Progress(w))
    /\ \A i \in Ids : SF_vars(\E w \in Deliverers : StartDelivery(w, i))
    /\ \A i \in Ids, w \in Deliverers :
          SF_vars(job[w].id = i /\ (BookAccepts(w) \/ BookRefuses(w)))

FairSpec == Spec /\ Fairness

-----------------------------------------------------------------------------
(* What the outbox promises.                                                *)

Steps == {"idle", "find pending", "find acknowledged", "find quarantined", "create",
          "mark", "call", "reread accepted", "reread failed", "quarantine",
          "note error", "acknowledge", "set aside", "unlink"}

TypeOK ==
    /\ pending \in [Ids -> Records \cup {None}]
    /\ acknowledged \in [Ids -> Records \cup {None}]
    /\ quarantined \in [Ids -> Records \cup {None}]
    /\ pc \in [Workers -> Steps]
    /\ job \in [Workers -> [id : Ids \cup {None}, evidence : Evidence \cup {None}]]
    /\ record \in [Workers -> Records \cup {None}]
    /\ book \in [Ids -> Evidence \cup {None}]
    /\ accepted \in [Ids -> Evidence \cup {None}]
    /\ crashes \in 0..MaxCrashes

Holds(file, e) == file # None /\ file.evidence = e

\* Evidence that was enqueued is on disk from then on, in one of the three
\* directories, whoever moves it and whoever crashes: "there is no retry limit
\* that silently discards evidence".
NoEvidenceLost ==
    \A i \in Ids : accepted[i] # None =>
        \/ Holds(pending[i], accepted[i])
        \/ Holds(acknowledged[i], accepted[i])
        \/ Holds(quarantined[i], accepted[i])

\* An acknowledged record is evidence The Book has recorded under that id,
\* although the record is read again after the call.
AcknowledgedIsRecorded ==
    \A i \in Ids : acknowledged[i] # None => book[i] = acknowledged[i].evidence

\* Enqueuing an id again never starts it over: by the time a producer creates
\* the pending file no receipt of that id has existed, even while a deliverer
\* moved one during the producer's three look-ups.
NeverEnqueuedAgain ==
    \A w \in Producers : pc[w] = "create" => accepted[job[w].id] = None

\* Evidence is kept, through lost answers, competing deliverers and deaths
\* between two files: what was accepted is still somewhere, what counts as
\* delivered is on The Book's record, and what is on its way is never begun
\* again from the start.
EvidenceKept == NoEvidenceLost /\ AcknowledgedIsRecorded /\ NeverEnqueuedAgain

\* Every enqueued receipt ends acknowledged or quarantined.
EventuallySettled ==
    \A i \in Ids : accepted[i] # None ~>
        pending[i] = None /\ (acknowledged[i] # None \/ quarantined[i] # None)
=============================================================================
