----------------------------- MODULE BookProofs -----------------------------
(***************************************************************************)
(* Proofs about what goes to the Book: the outbox that delivers receipts    *)
(* (BookOutbox), for every set of workers, receipt ids, kinds of evidence   *)
(* and crashes, and the root paths that are committed to it (RootPaths),    *)
(* for any frames, writers and bounds.                                      *)
(***************************************************************************)
EXTENDS BookOutbox, RootPaths, SequenceTheorems, FiniteSetTheorems, WellFoundedInduction, TLAPS

-----------------------------------------------------------------------------
(* The outbox.  Nothing is locked, so what a worker learnt may be stale    *)
(* when it acts on it.  Evidence is kept all the same because two facts    *)
(* about a receipt never become false: what was accepted for it first, and *)
(* that it has been settled.  Both rest on one assumption,                 *)
(* OneProducerPerReceipt: two producers that enqueue the same id with      *)
(* different evidence at the same time both find no file, and the second   *)
(* replaces what the first wrote.                                          *)


\* At no time do two producers enqueue the same receipt id.
OneProducerPerReceipt ==
    \A p, q \in Producers :
        /\ pc[p] # "idle" /\ pc[q] # "idle"
        /\ job[p].id = job[q].id
        => p = q

Settled(i) == acknowledged[i] # None \/ quarantined[i] # None

\* A file of a receipt, or a copy a deliverer has read, has the evidence that
\* was accepted for the receipt.
Faithful(file, i) ==
    file # None => accepted[i] # None /\ file.evidence = accepted[i]

ReceiptInv(i) ==
    /\ Faithful(pending[i], i)
    /\ Faithful(acknowledged[i], i)
    /\ Faithful(quarantined[i], i)
    /\ accepted[i] # None => pending[i] # None \/ Settled(i)
    /\ book[i] # None => book[i] = accepted[i]
    /\ acknowledged[i] # None => book[i] = accepted[i]

Enqueuing == {"find pending", "find acknowledged", "find quarantined", "create"}
Carrying == {"mark", "call", "reread accepted", "reread failed", "note error",
             "acknowledge", "set aside", "unlink"}

\* What a worker's place in the code says of its receipt.  The three look-ups
\* are not atomic: each one that found nothing leaves the directories a receipt
\* can have moved on to.
WorkerInv(w) ==
    LET i == job[w].id IN
    /\ pc[w] # "idle" => i \in Ids
    /\ pc[w] \in Enqueuing => w \in Producers /\ job[w].evidence \in Evidence
    /\ pc[w] = "find acknowledged" => accepted[i] = None \/ Settled(i)
    /\ pc[w] = "find quarantined" => accepted[i] = None \/ quarantined[i] # None
    /\ pc[w] = "create" => accepted[i] = None
    /\ pc[w] \in Carrying => record[w] # None /\ Faithful(record[w], i)
    /\ pc[w] \in {"reread accepted", "acknowledge"} => book[i] = accepted[i]
    /\ pc[w] = "unlink" => Settled(i)

IInv ==
    /\ TypeOK
    /\ \A i \in Ids : ReceiptInv(i)
    /\ \A w \in Workers : WorkerInv(w)

-----------------------------------------------------------------------------

\* A stored record is not the absence of one, and corruption leaves the
\* evidence it names.
LEMMA RecordTypes ==
    /\ \A e \in Evidence, b \in BOOLEAN :
          /\ [evidence |-> e, intact |-> b] \in Records
          /\ [evidence |-> e, intact |-> b] # None
    /\ \A r \in Records :
          /\ r # None /\ r.evidence \in Evidence /\ r.intact \in BOOLEAN
          /\ [r EXCEPT !.intact = FALSE].evidence = r.evidence
BY NoneIsNoFile, SMT DEF Records

\* A corrupted record is still a record.
LEMMA CorruptionTypes ==
    ASSUME NEW f \in [Ids -> Records \cup {None}], NEW i \in Ids, f[i] # None
    PROVE  /\ [f EXCEPT ![i].intact = FALSE] \in [Ids -> Records \cup {None}]
           /\ [f EXCEPT ![i].intact = FALSE][i] # None
<1>1. [f EXCEPT ![i].intact = FALSE] \in [Ids -> Records \cup {None}]
  BY DEF Records
<1>2. [f EXCEPT ![i].intact = FALSE][i] # None
  BY NoneIsNoFile DEF Records
<1>3. QED
  BY <1>1, <1>2

LEMMA FunctionTypes ==
    TypeOK => /\ pending = [i \in Ids |-> pending[i]]
              /\ acknowledged = [i \in Ids |-> acknowledged[i]]
              /\ quarantined = [i \in Ids |-> quarantined[i]]
              /\ book = [i \in Ids |-> book[i]]
              /\ accepted = [i \in Ids |-> accepted[i]]
BY DEF TypeOK

LEMMA WorkersAre == Producers \subseteq Workers /\ Deliverers \subseteq Workers
BY DEF Workers

LEMMA InitIInv == Init => IInv
BY BoundIsNatural DEF Init, IInv, TypeOK, ReceiptInv, WorkerInv, Faithful, NoJob, Records,
     Enqueuing, Carrying, Steps

\* A worker that returns, or goes on in the same job, keeps its types.
LEMMA WorkerTypes ==
    ASSUME TypeOK, NEW w \in Workers
    PROVE  /\ Return(w) => /\ pc' \in [Workers -> Steps]
                           /\ job' \in [Workers -> [id : Ids \cup {None},
                                                     evidence : Evidence \cup {None}]]
                           /\ record' \in [Workers -> Records \cup {None}]
           /\ \A s \in Steps : GoTo(w, s) => pc' \in [Workers -> Steps]
<1>1. NoJob \in [id : Ids \cup {None}, evidence : Evidence \cup {None}]
  BY DEF NoJob
<1>2. ASSUME Return(w)
      PROVE  /\ pc' \in [Workers -> Steps]
             /\ job' \in [Workers -> [id : Ids \cup {None}, evidence : Evidence \cup {None}]]
             /\ record' \in [Workers -> Records \cup {None}]
  BY <1>1, <1>2 DEF TypeOK, Return, GoTo, Steps
<1>3. ASSUME NEW s \in Steps, GoTo(w, s)
      PROVE  pc' \in [Workers -> Steps]
  BY <1>3 DEF TypeOK, GoTo
<1>4. QED
  BY <1>2, <1>3

\* The typing part by itself needs neither the invariant nor the assumption,
\* except for what a worker carries.
LEMMA TypeStep ==
    ASSUME IInv, Next
    PROVE  TypeOK'
<1> USE RecordTypes, WorkersAre
<1>1. ASSUME NEW w \in Producers, NEW i \in Ids, NEW e \in Evidence, Enqueue(w, i, e)
      PROVE  TypeOK'
  BY <1>1 DEF IInv, TypeOK, Enqueue, GoTo, store, Steps
<1>2. ASSUME NEW w \in Deliverers, NEW i \in Ids, StartDelivery(w, i)
      PROVE  TypeOK'
  BY <1>2 DEF IInv, TypeOK, StartDelivery, GoTo, store, Steps
<1>3. ASSUME NEW w \in Deliverers, NEW i \in Ids, StartQuarantine(w, i)
      PROVE  TypeOK'
  BY <1>3 DEF IInv, TypeOK, StartQuarantine, GoTo, store, Steps
<1>4. ASSUME NEW w \in Workers, Find(w)
      PROVE  TypeOK'
  <2>1. UNCHANGED <<store, book, accepted, crashes>>
    BY <1>4 DEF Find
  <2>2. \/ Return(w)
        \/ GoTo(w, "find acknowledged") /\ UNCHANGED <<job, record>>
        \/ GoTo(w, "find quarantined") /\ UNCHANGED <<job, record>>
        \/ GoTo(w, "create") /\ UNCHANGED <<job, record>>
    BY <1>4 DEF Find
  <2>3. QED
    BY <2>1, <2>2, WorkerTypes DEF IInv, TypeOK, store, Steps
<1>5. ASSUME NEW w \in Workers, Create(w)
      PROVE  TypeOK'
  BY <1>5 DEF IInv, TypeOK, WorkerInv, Enqueuing, Create, Return, NoJob, GoTo, Steps
<1>6. ASSUME NEW w \in Workers, MarkAttempt(w) \/ NoteError(w)
      PROVE  TypeOK'
  <2>1. job[w].id \in Ids /\ record[w] \in Records /\ TypeOK
    BY <1>6 DEF IInv, TypeOK, WorkerInv, Carrying, MarkAttempt, NoteError
  <2>2. pending' \in [Ids -> Records \cup {None}]
    BY <1>6, <2>1 DEF TypeOK, MarkAttempt, NoteError
  <2>3. QED
    BY <1>6, <2>1, <2>2, WorkerTypes DEF TypeOK, MarkAttempt, NoteError, Steps
<1>7. ASSUME NEW w \in Workers, BookAccepts(w) \/ BookRefuses(w) \/ CallFails(w)
      PROVE  TypeOK'
  <2>1. pc[w] = "call" /\ record[w] \in Records /\ record[w].evidence \in Evidence
    BY <1>7 DEF IInv, TypeOK, WorkerInv, Carrying, BookAccepts, BookRefuses, CallFails
  <2>2. QED
    BY <1>7, <2>1 DEF IInv, TypeOK, BookAccepts, BookRefuses, CallFails, GoTo, store, Steps
<1>8. ASSUME NEW w \in Workers, Reread(w)
      PROVE  TypeOK'
  <2>1. job[w].id \in Ids /\ TypeOK
    BY <1>8 DEF IInv, WorkerInv, Reread
  <2>2. CASE Return(w)
    BY <1>8, <2>1, <2>2, WorkerTypes DEF TypeOK, Reread, store
  <2>3. CASE pending[job[w].id] # None
    <3>1. \E s \in Steps : GoTo(w, s)
      BY <1>8, <2>3 DEF Reread, Steps
    <3>2. record' \in [Workers -> Records \cup {None}]
      BY <1>8, <2>1, <2>3 DEF TypeOK, Reread
    <3>3. QED
      BY <1>8, <2>1, <2>3, <3>1, <3>2, WorkerTypes DEF TypeOK, Reread, store
  <2>4. QED
    BY <1>8, <2>2, <2>3 DEF Reread
<1>9. ASSUME NEW w \in Workers, WriteAcknowledged(w) \/ WriteQuarantined(w)
      PROVE  TypeOK'
  <2>1. job[w].id \in Ids /\ record[w] \in Records /\ TypeOK
    BY <1>9 DEF IInv, TypeOK, WorkerInv, Carrying, WriteAcknowledged, WriteQuarantined
  <2>2. /\ acknowledged' \in [Ids -> Records \cup {None}]
        /\ quarantined' \in [Ids -> Records \cup {None}]
    BY <1>9, <2>1 DEF TypeOK, WriteAcknowledged, WriteQuarantined
  <2>3. GoTo(w, "unlink") /\ UNCHANGED <<pending, job, record, book, accepted, crashes>>
    BY <1>9 DEF WriteAcknowledged, WriteQuarantined
  <2>4. pc' \in [Workers -> Steps]
    BY <2>1, <2>3 DEF TypeOK, GoTo, Steps
  <2>5. QED
    BY <2>1, <2>2, <2>3, <2>4 DEF TypeOK
<1>10. ASSUME NEW w \in Workers, UnlinkPending(w) \/ Crash(w)
       PROVE  TypeOK'
  <2>1. TypeOK /\ Return(w)
    BY <1>10 DEF IInv, UnlinkPending, Crash
  <2>2. pending' \in [Ids -> Records \cup {None}] /\ crashes' \in 0..MaxCrashes
    BY <1>10, <2>1, BoundIsNatural DEF TypeOK, UnlinkPending, Crash, store
  <2>3. UNCHANGED <<acknowledged, quarantined, book, accepted>>
    BY <1>10 DEF UnlinkPending, Crash, store
  <2>4. QED
    BY <2>1, <2>2, <2>3, WorkerTypes DEF TypeOK
<1>11. ASSUME NEW i \in Ids, Corrupt(i)
       PROVE  TypeOK'
  <2>1. pending' \in [Ids -> Records \cup {None}]
    BY <1>11, CorruptionTypes DEF IInv, TypeOK, Corrupt
  <2>2. crashes' \in 0..MaxCrashes
    BY <1>11, BoundIsNatural DEF IInv, TypeOK, Corrupt
  <2>3. QED
    BY <1>11, <2>1, <2>2 DEF IInv, TypeOK, Corrupt
<1>12. QED
  BY <1>1, <1>2, <1>3, <1>4, <1>5, <1>6, <1>7, <1>8, <1>9, <1>10, <1>11 DEF Next, Progress

-----------------------------------------------------------------------------
(* What a step of one worker leaves to the others.                          *)

\* Acceptance, settlement and The Book's record only grow in a step of w.
Grows ==
    /\ UNCHANGED accepted
    /\ \A i \in Ids :
          /\ acknowledged[i] # None => acknowledged'[i] # None
          /\ quarantined[i] # None => quarantined'[i] # None
          /\ book[i] # None => book'[i] = book[i]

OnlyMoves(w) ==
    \A q \in Workers \ {w} :
        pc'[q] = pc[q] /\ job'[q] = job[q] /\ record'[q] = record[q]

LEMMA OthersKeep ==
    ASSUME IInv, Grows, NEW w \in Workers, OnlyMoves(w)
    PROVE  \A q \in Workers \ {w} : WorkerInv(q)'
<1> SUFFICES ASSUME NEW q \in Workers \ {w} PROVE WorkerInv(q)'
  OBVIOUS
<1>1. WorkerInv(q) /\ pc'[q] = pc[q] /\ job'[q] = job[q] /\ record'[q] = record[q]
  BY DEF IInv, OnlyMoves
<1>2. CASE pc[q] = "idle"
  BY <1>1, <1>2 DEF WorkerInv, Enqueuing, Carrying
<1>3. CASE pc[q] # "idle"
  <2>1. job[q].id \in Ids
    BY <1>1, <1>3 DEF WorkerInv
  <2>2. pc[q] \in Carrying => accepted[job[q].id] # None
    BY <1>1 DEF WorkerInv, Faithful
  <2>3. Settled(job[q].id) => Settled(job[q].id)'
    BY <1>1, <2>1 DEF Settled, Grows
  <2>4. Faithful(record[q], job[q].id) => Faithful(record[q], job[q].id)'
    BY <1>1 DEF Faithful, Grows
  <2>5. pc[q] \in {"reread accepted", "acknowledge"} => book'[job[q].id] = accepted'[job[q].id]
    BY <1>1, <2>1, <2>2 DEF WorkerInv, Grows, Carrying
  <2>6. QED
    BY <1>1, <2>1, <2>3, <2>4, <2>5 DEF WorkerInv, Grows
<1>4. QED
  BY <1>2, <1>3

\* Where a step that changes no file, no record of The Book and no acceptance
\* leaves the worker in a state its place allows, the invariant stays.
LEMMA QuietStep ==
    ASSUME IInv, TypeOK', NEW w \in Workers, OnlyMoves(w),
           UNCHANGED <<store, book, accepted>>, WorkerInv(w)'
    PROVE  IInv'
<1>1. Grows
  BY DEF Grows, store
<1>2. \A i \in Ids : ReceiptInv(i)'
  BY DEF IInv, ReceiptInv, Faithful, Settled, store
<1>3. QED
  BY <1>1, <1>2, OthersKeep DEF IInv

\* Returning to the caller drops all a worker knew.
LEMMA Returned ==
    ASSUME TypeOK, NEW w \in Workers, Return(w)
    PROVE  OnlyMoves(w) /\ WorkerInv(w)'
BY DEF TypeOK, Return, GoTo, OnlyMoves, WorkerInv, Enqueuing, Carrying

\* Going on in the same job.
LEMMA Went ==
    ASSUME TypeOK, NEW w \in Workers, NEW s, GoTo(w, s), UNCHANGED job,
           record' = record \/ \E r : record' = [record EXCEPT ![w] = r]
    PROVE  OnlyMoves(w) /\ pc'[w] = s
BY DEF TypeOK, GoTo, OnlyMoves

-----------------------------------------------------------------------------
(* One lemma for each operation.                                            *)

LEMMA EnqueueStep ==
    ASSUME IInv, TypeOK', NEW w \in Producers, NEW i \in Ids, NEW e \in Evidence,
           Enqueue(w, i, e)
    PROVE  IInv'
<1> w \in Workers
  BY WorkersAre
<1>1. OnlyMoves(w)
  BY DEF IInv, TypeOK, Enqueue, GoTo, OnlyMoves
<1>2. pc'[w] = "find pending" /\ job'[w].id = i /\ job'[w].evidence = e
  BY DEF IInv, TypeOK, Enqueue, GoTo
<1>3. WorkerInv(w)'
  BY <1>2 DEF WorkerInv, Enqueuing, Carrying
<1>4. QED
  BY <1>1, <1>3, QuietStep DEF Enqueue

LEMMA StartStep ==
    ASSUME IInv, TypeOK', NEW w \in Deliverers, NEW i \in Ids,
           StartDelivery(w, i) \/ StartQuarantine(w, i)
    PROVE  IInv'
<1> w \in Workers
  BY WorkersAre
<1>1. OnlyMoves(w)
  BY DEF IInv, TypeOK, StartDelivery, StartQuarantine, GoTo, OnlyMoves
<1>2. /\ job'[w].id = i /\ accepted' = accepted
      /\ \/ pc'[w] = "quarantine"
         \/ pc'[w] = "mark" /\ record'[w] = pending[i] /\ pending[i] # None
  BY DEF IInv, TypeOK, StartDelivery, StartQuarantine, GoTo
<1>3. Faithful(pending[i], i)
  BY DEF IInv, ReceiptInv
<1>4. WorkerInv(w)'
  BY <1>2, <1>3 DEF WorkerInv, Faithful, Enqueuing, Carrying
<1>5. QED
  BY <1>1, <1>4, QuietStep DEF StartDelivery, StartQuarantine

\* A look-up that finds nothing passes on what the receipt can still be.
LEMMA FindStep ==
    ASSUME IInv, TypeOK', NEW w \in Workers, Find(w)
    PROVE  IInv'
<1> DEFINE i == job[w].id
<1>1. TypeOK /\ WorkerInv(w) /\ i \in Ids /\ w \in Producers /\ job[w].evidence \in Evidence
  BY DEF IInv, WorkerInv, Find, Enqueuing
<1>2. UNCHANGED <<store, book, accepted>>
  BY DEF Find
<1>3. CASE Return(w)
  BY <1>1, <1>2, <1>3, Returned, QuietStep
<1>4. ASSUME NEW s \in Enqueuing, GoTo(w, s), UNCHANGED <<job, record>>,
             s # "find pending",
             s = "find acknowledged" => accepted[i] = None \/ Settled(i),
             s = "find quarantined" => accepted[i] = None \/ quarantined[i] # None,
             s = "create" => accepted[i] = None
      PROVE  IInv'
  <2>1. OnlyMoves(w) /\ pc'[w] = s
    BY <1>1, <1>4, Went
  <2>2. WorkerInv(w)'
    BY <1>1, <1>2, <1>4, <2>1 DEF WorkerInv, Settled, Enqueuing, Carrying, store
  <2>3. QED
    BY <1>2, <2>1, <2>2, QuietStep
<1>5. CASE pc[w] = "find pending" /\ pending[i] = None
  <2>1. accepted[i] = None \/ Settled(i)
    BY <1>1, <1>5 DEF IInv, ReceiptInv
  <2>2. QED
    BY <1>4, <1>5, <2>1 DEF Find, Enqueuing
<1>6. CASE pc[w] = "find acknowledged" /\ acknowledged[i] = None
  <2>1. accepted[i] = None \/ quarantined[i] # None
    BY <1>1, <1>6 DEF WorkerInv, Settled
  <2>2. QED
    BY <1>4, <1>6, <2>1 DEF Find, Enqueuing
<1>7. CASE pc[w] = "find quarantined" /\ quarantined[i] = None
  <2>1. accepted[i] = None
    BY <1>1, <1>7 DEF WorkerInv
  <2>2. QED
    BY <1>4, <1>7, <2>1 DEF Find, Enqueuing
<1>8. QED
  BY <1>3, <1>5, <1>6, <1>7 DEF Find

LEMMA CrashStep ==
    ASSUME IInv, TypeOK', NEW w \in Workers, Crash(w)
    PROVE  IInv'
BY Returned, QuietStep DEF Crash, IInv

\* The record is read again, and the file it came from may be another by now:
\* what is carried on is again what was accepted.
LEMMA RereadStep ==
    ASSUME IInv, TypeOK', NEW w \in Workers, Reread(w)
    PROVE  IInv'
<1> DEFINE i == job[w].id
<1>1. TypeOK /\ WorkerInv(w) /\ i \in Ids
  BY DEF IInv, WorkerInv, Reread
<1>2. UNCHANGED <<store, book, accepted>>
  BY DEF Reread
<1>3. CASE Return(w)
  BY <1>1, <1>2, <1>3, Returned, QuietStep
<1>4. CASE pending[i] # None
  <2>1. /\ OnlyMoves(w) /\ job'[w] = job[w] /\ record'[w] = pending[i]
        /\ \/ pc[w] = "reread accepted" /\ pc'[w] = "acknowledge"
           \/ pc'[w] = "note error"
           \/ pc'[w] = "set aside"
    BY <1>1, <1>4 DEF Reread, TypeOK, GoTo, OnlyMoves
  <2>2. Faithful(pending[i], i)
    BY <1>1 DEF IInv, ReceiptInv
  <2>3. WorkerInv(w)'
    BY <1>1, <1>2, <1>4, <2>1, <2>2 DEF WorkerInv, Faithful, Enqueuing, Carrying
  <2>4. QED
    BY <1>2, <2>1, <2>3, QuietStep
<1>5. QED
  BY <1>3, <1>4 DEF Reread

LEMMA RefusalStep ==
    ASSUME IInv, TypeOK', NEW w \in Workers, BookRefuses(w)
    PROVE  IInv'
<1>1. TypeOK /\ WorkerInv(w) /\ GoTo(w, "quarantine") /\ UNCHANGED <<job, record>>
  BY DEF IInv, BookRefuses
<1>2. OnlyMoves(w) /\ pc'[w] = "quarantine"
  BY <1>1, Went
<1>3. WorkerInv(w)'
  BY <1>1, <1>2 DEF WorkerInv, Enqueuing, Carrying, BookRefuses
<1>4. QED
  BY <1>2, <1>3, QuietStep DEF BookRefuses

\* The Book records what the deliverer carries, which is what was accepted; if
\* its answer is lost the deliverer only does not know.
LEMMA BookStep ==
    ASSUME IInv, TypeOK', NEW w \in Workers, BookAccepts(w) \/ CallFails(w)
    PROVE  IInv'
<1> DEFINE i == job[w].id
<1>1. TypeOK /\ WorkerInv(w) /\ i \in Ids /\ pc[w] = "call" /\ ReceiptInv(i)
  BY DEF IInv, WorkerInv, BookAccepts, CallFails
<1>2. accepted[i] # None /\ record[w] # None /\ record[w].evidence = accepted[i]
  BY <1>1 DEF WorkerInv, Carrying, Faithful
<1>3. UNCHANGED <<store, job, record, accepted>>
  BY DEF BookAccepts, CallFails
<1>4. /\ OnlyMoves(w)
      /\ \/ pc'[w] = "reread failed"
         \/ pc'[w] = "reread accepted" /\ book'[i] = accepted[i]
  <2>1. CASE BookAccepts(w)
    <3>1. OnlyMoves(w) /\ pc'[w] = "reread accepted"
      BY <1>1, <1>3, <2>1, Went DEF BookAccepts
    <3>2. book'[i] = accepted[i]
      BY <1>1, <1>2, <2>1, FunctionTypes DEF BookAccepts
    <3>3. QED
      BY <3>1, <3>2
  <2>2. CASE CallFails(w)
    BY <1>1, <1>3, <2>2, Went DEF CallFails
  <2>3. QED
    BY <2>1, <2>2
<1>5. \A k \in Ids : book'[k] = book[k] \/ (k = i /\ book'[k] = accepted[i])
  BY <1>1, <1>2, FunctionTypes DEF BookAccepts, CallFails
<1>6. Grows
  BY <1>1, <1>2, <1>3, <1>5 DEF Grows, ReceiptInv, store
<1>7. WorkerInv(w)'
  BY <1>1, <1>2, <1>3, <1>4 DEF WorkerInv, Faithful, Enqueuing, Carrying
<1>8. \A k \in Ids : ReceiptInv(k)'
  BY <1>1, <1>3, <1>5 DEF IInv, ReceiptInv, Faithful, Settled, store
<1>9. QED
  BY <1>4, <1>6, <1>7, <1>8, OthersKeep DEF IInv

\* Writing a pending record back restores what was accepted, even where another
\* deliverer has settled the receipt meanwhile.
LEMMA WriteBackStep ==
    ASSUME IInv, TypeOK', NEW w \in Workers, MarkAttempt(w) \/ NoteError(w)
    PROVE  IInv'
<1> DEFINE i == job[w].id
<1>1. TypeOK /\ WorkerInv(w) /\ i \in Ids /\ Faithful(record[w], i) /\ record[w] # None
  BY DEF IInv, WorkerInv, MarkAttempt, NoteError, Carrying
<1>2. UNCHANGED <<acknowledged, quarantined, book, accepted>>
  BY DEF MarkAttempt, NoteError
<1>3. /\ pending'[i] = record[w]
      /\ \A k \in Ids \ {i} : pending'[k] = pending[k]
  BY <1>1 DEF TypeOK, MarkAttempt, NoteError
<1>4. OnlyMoves(w) /\ WorkerInv(w)'
  <2>1. CASE NoteError(w)
    BY <1>1, <2>1, Returned DEF NoteError
  <2>2. CASE MarkAttempt(w)
    <3>1. OnlyMoves(w) /\ pc'[w] = "call"
      BY <1>1, <2>2, Went DEF MarkAttempt
    <3>2. QED
      BY <1>1, <1>2, <2>2, <3>1 DEF MarkAttempt, WorkerInv, Faithful, Enqueuing, Carrying
  <2>3. QED
    BY <2>1, <2>2
<1>5. \A k \in Ids : ReceiptInv(k)'
  BY <1>1, <1>2, <1>3 DEF IInv, ReceiptInv, Faithful, Settled
<1>6. Grows
  BY <1>2 DEF Grows
<1>7. QED
  BY <1>4, <1>5, <1>6, OthersKeep DEF IInv

\* The new file is written before the pending one goes.
LEMMA SettleStep ==
    ASSUME IInv, TypeOK', NEW w \in Workers, WriteAcknowledged(w) \/ WriteQuarantined(w)
    PROVE  IInv'
<1> DEFINE i == job[w].id
<1>1. TypeOK /\ WorkerInv(w) /\ i \in Ids /\ Faithful(record[w], i) /\ record[w] # None
  BY DEF IInv, WorkerInv, WriteAcknowledged, WriteQuarantined, Carrying
<1>2. UNCHANGED <<pending, job, record, book, accepted>> /\ GoTo(w, "unlink")
  BY DEF WriteAcknowledged, WriteQuarantined
<1>3. /\ \A k \in Ids : \/ acknowledged'[k] = acknowledged[k]
                        \/ k = i /\ acknowledged'[k] = record[w] /\ book[i] = accepted[i]
      /\ \A k \in Ids : \/ quarantined'[k] = quarantined[k]
                        \/ k = i /\ quarantined'[k] = record[w]
      /\ Settled(i)'
  BY <1>1, FunctionTypes DEF WorkerInv, WriteAcknowledged, WriteQuarantined, Settled
<1>4. OnlyMoves(w) /\ pc'[w] = "unlink"
  BY <1>1, <1>2, Went
<1>5. WorkerInv(w)'
  BY <1>1, <1>2, <1>3, <1>4 DEF WorkerInv, Faithful, Enqueuing, Carrying
<1>6. Grows
  BY <1>1, <1>2, <1>3 DEF Grows
<1>7. \A k \in Ids : ReceiptInv(k)'
  BY <1>1, <1>2, <1>3 DEF IInv, ReceiptInv, Faithful, Settled
<1>8. QED
  BY <1>4, <1>5, <1>6, <1>7, OthersKeep DEF IInv

\* The pending file goes only where the receipt is settled.
LEMMA UnlinkStep ==
    ASSUME IInv, TypeOK', NEW w \in Workers, UnlinkPending(w)
    PROVE  IInv'
<1> DEFINE i == job[w].id
<1>1. TypeOK /\ WorkerInv(w) /\ i \in Ids /\ Settled(i)
  BY DEF IInv, WorkerInv, UnlinkPending
<1>2. /\ Return(w) /\ UNCHANGED <<acknowledged, quarantined, book, accepted>>
      /\ \A k \in Ids : pending'[k] = pending[k] \/ (k = i /\ pending'[k] = None)
  BY <1>1, FunctionTypes DEF UnlinkPending
<1>3. \A k \in Ids : ReceiptInv(k)'
  BY <1>1, <1>2 DEF IInv, ReceiptInv, Faithful, Settled
<1>4. Grows
  BY <1>2 DEF Grows
<1>5. QED
  BY <1>1, <1>2, <1>3, <1>4, Returned, OthersKeep DEF IInv

LEMMA CorruptStep ==
    ASSUME IInv, TypeOK', NEW i \in Ids, Corrupt(i)
    PROVE  IInv'
<1>1. UNCHANGED <<acknowledged, quarantined, pc, job, record, book, accepted>>
  BY DEF Corrupt
<1>2. \A k \in Ids : \/ pending'[k] = pending[k]
                     \/ /\ pending[k] # None /\ pending'[k] # None
                        /\ pending'[k].evidence = pending[k].evidence
  <2>1. pending[i] \in Records /\ pending'[i] = [pending[i] EXCEPT !.intact = FALSE]
    BY DEF IInv, TypeOK, Corrupt
  <2>2. pending'[i].evidence = pending[i].evidence
    BY <2>1, RecordTypes
  <2>3. pending'[i] # None
    BY CorruptionTypes DEF IInv, TypeOK, Corrupt
  <2>4. QED
    BY <2>1, <2>2, <2>3 DEF IInv, TypeOK, Corrupt
<1>3. \A k \in Ids : ReceiptInv(k)'
  BY <1>1, <1>2 DEF IInv, ReceiptInv, Faithful, Settled
<1>4. \A w \in Workers : WorkerInv(w)'
  BY <1>1 DEF IInv, WorkerInv, Faithful, Settled
<1>5. QED
  BY <1>3, <1>4 DEF IInv

\* A producer that gets to writing the pending file writes the first one its
\* receipt ever had: this is where two producers of one id would go wrong.
LEMMA CreateStep ==
    ASSUME IInv, TypeOK', OneProducerPerReceipt, NEW w \in Workers, Create(w)
    PROVE  IInv'
<1> DEFINE i == job[w].id
<1>1. /\ TypeOK /\ WorkerInv(w) /\ i \in Ids /\ accepted[i] = None
      /\ w \in Producers /\ job[w].evidence \in Evidence /\ job[w].evidence # None
  BY NoneIsNoFile DEF IInv, WorkerInv, Create, Enqueuing
<1>2. /\ Return(w) /\ UNCHANGED <<acknowledged, quarantined, book>>
      /\ pending'[i] # None /\ pending'[i].evidence = job[w].evidence
      /\ accepted'[i] = job[w].evidence
      /\ \A k \in Ids \ {i} : pending'[k] = pending[k] /\ accepted'[k] = accepted[k]
  BY <1>1, RecordTypes DEF TypeOK, Create
<1>3. acknowledged[i] = None /\ quarantined[i] = None /\ book[i] = None
  BY <1>1 DEF IInv, ReceiptInv, Faithful
<1>4. \A k \in Ids : ReceiptInv(k)'
  BY <1>1, <1>2, <1>3 DEF IInv, ReceiptInv, Faithful, Settled
<1>5. ASSUME NEW q \in Workers \ {w} PROVE WorkerInv(q)'
  <2>1. WorkerInv(q) /\ pc'[q] = pc[q] /\ job'[q] = job[q] /\ record'[q] = record[q]
    BY <1>1, <1>2 DEF IInv, TypeOK, Return, GoTo
  <2>2. CASE pc[q] \in Enqueuing
    <3>1. q \in Producers /\ job[q].id \in Ids /\ pc[q] # "idle" /\ pc[w] # "idle"
      BY <2>1, <2>2 DEF WorkerInv, Enqueuing, Create
    <3>2. job[q].id \in Ids \ {i}
      BY <1>1, <3>1 DEF OneProducerPerReceipt
    <3>3. accepted'[job[q].id] = accepted[job[q].id]
      BY <1>2, <3>2
    <3>4. QED
      BY <1>2, <2>1, <2>2, <3>3 DEF WorkerInv, Settled, Enqueuing, Carrying
  <2>3. CASE pc[q] \in Carrying
    <3>1. job[q].id \in Ids \ {i}
      BY <1>1, <2>1, <2>3 DEF WorkerInv, Faithful, Carrying
    <3>2. accepted'[job[q].id] = accepted[job[q].id]
      BY <1>2, <3>1
    <3>3. QED
      BY <1>2, <2>1, <2>3, <3>1, <3>2 DEF WorkerInv, Faithful, Settled, Enqueuing, Carrying
  <2>4. CASE pc[q] \notin Enqueuing \cup Carrying
    BY <2>1, <2>4 DEF WorkerInv, Enqueuing, Carrying
  <2>5. QED
    BY <2>2, <2>3, <2>4
<1>6. WorkerInv(w)'
  BY <1>1, <1>2, Returned
<1>7. QED
  BY <1>4, <1>5, <1>6 DEF IInv

-----------------------------------------------------------------------------

LEMMA NextIInv == IInv /\ OneProducerPerReceipt /\ [Next]_vars => IInv'
<1> SUFFICES ASSUME IInv, OneProducerPerReceipt, [Next]_vars PROVE IInv'
  OBVIOUS
<1>1. CASE UNCHANGED vars
  BY <1>1 DEF vars, store, IInv, TypeOK, ReceiptInv, WorkerInv, Faithful, Settled
<1>2. CASE Next
  <2> TypeOK'
    BY <1>2, TypeStep
  <2>1. ASSUME NEW w \in Producers, NEW i \in Ids, NEW e \in Evidence, Enqueue(w, i, e)
        PROVE  IInv'
    BY <2>1, EnqueueStep
  <2>2. ASSUME NEW w \in Deliverers, NEW i \in Ids,
               StartDelivery(w, i) \/ StartQuarantine(w, i)
        PROVE  IInv'
    BY <2>2, StartStep
  <2>3. ASSUME NEW w \in Workers, Progress(w)
        PROVE  IInv'
    BY <2>3, FindStep, CreateStep, WriteBackStep, BookStep, RefusalStep, RereadStep,
       SettleStep, UnlinkStep DEF Progress
  <2>4. ASSUME NEW w \in Workers, Crash(w)
        PROVE  IInv'
    BY <2>4, CrashStep
  <2>5. ASSUME NEW i \in Ids, Corrupt(i)
        PROVE  IInv'
    BY <2>5, CorruptStep
  <2>6. QED
    BY <1>2, <2>1, <2>2, <2>3, <2>4, <2>5 DEF Next
<1>3. QED
  BY <1>1, <1>2

LEMMA Kept == IInv => EvidenceKept
<1> SUFFICES ASSUME IInv PROVE EvidenceKept
  OBVIOUS
<1>1. NoEvidenceLost
  BY DEF IInv, ReceiptInv, Faithful, Settled, NoEvidenceLost, Holds
<1>2. AcknowledgedIsRecorded
  BY DEF IInv, ReceiptInv, Faithful, AcknowledgedIsRecorded
<1>3. NeverEnqueuedAgain
  BY WorkersAre DEF IInv, WorkerInv, NeverEnqueuedAgain
<1>4. QED
  BY <1>1, <1>2, <1>3 DEF EvidenceKept

\* Evidence is kept whenever no two producers enqueue one receipt id at the same
\* time: through every interleaving of look-ups, moves between the three
\* directories, calls whose answer is lost, and crashes between two of them
\* (enqueue, deliver_one and quarantine of book_outbox.py).
THEOREM EvidenceIsKept == Spec /\ []OneProducerPerReceipt => [](TypeOK /\ EvidenceKept)
<1>1. IInv => TypeOK /\ EvidenceKept
  BY Kept DEF IInv
<1>2. QED
  BY <1>1, InitIInv, NextIInv, PTL DEF Spec

\* With a single producer, as the kernel that owns the outbox is one, nothing
\* more has to be assumed.
THEOREM OneProducerKeepsEvidence ==
    ASSUME \A p, q \in Producers : p = q
    PROVE  Spec => []EvidenceKept
<1>1. OneProducerPerReceipt
  BY DEF OneProducerPerReceipt
<1>2. QED
  BY <1>1, EvidenceIsKept, PTL

\* The files of a receipt: acknowledged evidence stays acknowledged with the
\* same digests, a quarantined file stays, and what was accepted first is never
\* replaced, whatever is written over it.
Settles ==
    \A i \in Ids :
        /\ accepted[i] # None => accepted'[i] = accepted[i]
        /\ acknowledged[i] # None =>
              acknowledged'[i] # None /\ acknowledged'[i].evidence = acknowledged[i].evidence
        /\ quarantined[i] # None =>
              quarantined'[i] # None /\ quarantined'[i].evidence = quarantined[i].evidence

\* Settlement is final: delivering a receipt again, by another worker or after
\* a crash, writes the same evidence again or nothing (_move and _write).
THEOREM SettlementIsFinal == Spec /\ []OneProducerPerReceipt => [][Settles]_vars
<1>1. ASSUME IInv, IInv', [Next]_vars
      PROVE  [Settles]_vars
  <2> SUFFICES ASSUME Next, NEW i \in Ids
               PROVE  /\ accepted[i] # None => accepted'[i] = accepted[i]
                      /\ acknowledged[i] # None => acknowledged'[i] # None
                      /\ quarantined[i] # None => quarantined'[i] # None
    BY <1>1 DEF Settles, IInv, ReceiptInv, Faithful
  <2>1. ASSUME NEW w \in Workers, Progress(w)
        PROVE  /\ accepted[i] # None => accepted'[i] = accepted[i]
               /\ acknowledged[i] # None => acknowledged'[i] # None
               /\ quarantined[i] # None => quarantined'[i] # None
    <3>1. CASE WriteAcknowledged(w) \/ WriteQuarantined(w)
      <4>1. record[w] # None
        BY <1>1, <3>1 DEF IInv, WorkerInv, Carrying, WriteAcknowledged, WriteQuarantined
      <4>2. QED
        BY <1>1, <3>1, <4>1 DEF IInv, TypeOK, WriteAcknowledged, WriteQuarantined
    <3>2. CASE Create(w)
      BY <1>1, <3>2 DEF IInv, TypeOK, Create
    <3>3. QED
      BY <2>1, <3>1, <3>2 DEF Progress, Find, MarkAttempt, BookAccepts, BookRefuses, CallFails,
         Reread, NoteError, UnlinkPending, store
  <2>2. QED
    BY <2>1 DEF Next, Enqueue, StartDelivery, StartQuarantine, Crash, Corrupt, store
<1>2. QED
  BY <1>1, InitIInv, NextIInv, PTL DEF Spec

-----------------------------------------------------------------------------
(* Commitments of root paths.  Nothing locks the journal, so its lines     *)
(* need not form a chain: two can follow the same one.  What every line    *)
(* keeps is that it follows the line whose number it continues, which      *)
(* stays where it was since lines are only appended.  So the numbers alone *)
(* tell whether a range is a chain, and commitment compares just them.     *)


\* The journal is a sequence of whatever was appended to it.
Journal == \E S : events \in Seq(S)

\* What a line numbered n + 1 has to follow.
At(n) == IF n = 0 THEN Genesis ELSE events[n]

Line(i) ==
  /\ events[i].sequence \in 1..i
  /\ events[i].previous = At(events[i].sequence - 1)
  /\ events[i].path \in snapshots

Persister(w) ==
  /\ persister[w] = [at |-> persister[w].at, path |-> persister[w].path,
                     seen |-> persister[w].seen, last |-> persister[w].last]
  /\ persister[w].at \in {"journal", "append"} => persister[w].path \in snapshots
  /\ persister[w].at = "append" =>
       persister[w].seen \in 0..Len(events) /\ persister[w].last = At(persister[w].seen)

Commitment(c) ==
  \A i \in DOMAIN c.events :
    /\ i \in Nat /\ c.start \in Nat /\ c.start + i - 1 \in 1..Len(events)
    /\ events[c.start + i - 1] = c.events[i]
    /\ events[c.start + i - 1].sequence = c.start + i - 1

Lines == \A i \in 1..Len(events) : Line(i)
Seats == persister = [w \in Writers |-> persister[w]] /\ \A w \in Writers : Persister(w)
Committed == \A c \in commitments : Commitment(c)
PathsInv == Journal /\ Lines /\ Seats /\ Committed

\* A line appended stands last, and the others stay.
LEMMA AppendedLine ==
  ASSUME Journal, NEW e, events' = Append(events, e)
  PROVE  /\ Journal' /\ Len(events) \in Nat /\ Len(events') = Len(events) + 1
         /\ \A i \in 1..Len(events) : events'[i] = events[i]
         /\ events'[Len(events) + 1] = e
<1>1. PICK S : events \in Seq(S)
  BY DEF Journal
<1>2. events \in Seq(S \cup {e})
  BY <1>1, SeqMonotonic
<1>3. events' \in Seq(S \cup {e})
  BY <1>2
<1> QED BY <1>2, <1>3 DEF Journal

\* A step that leaves the journal and the commitments alone, and of the
\* persisters moves one.
LEMMA PersisterMoves ==
  ASSUME PathsInv, NEW w \in Writers, NEW next, Becomes(w, next),
         UNCHANGED <<events, commitments>>, snapshots \subseteq snapshots',
         next = [at |-> next.at, path |-> next.path, seen |-> next.seen, last |-> next.last],
         next.at \in {"journal", "append"} => next.path \in snapshots',
         next.at = "append" => next.seen \in 0..Len(events) /\ next.last = At(next.seen)
  PROVE  PathsInv'
<1>1. Journal' /\ Lines' /\ Committed'
  BY DEF PathsInv, Journal, Lines, Line, At, Committed, Commitment
<1>2. /\ persister' = [v \in Writers |-> persister'[v]] /\ persister'[w] = next
      /\ \A v \in Writers \ {w} : persister'[v] = persister[v]
  BY DEF PathsInv, Seats, Becomes
<1>3. ASSUME NEW v \in Writers PROVE Persister(v)'
  <2>1. CASE v = w
    BY <1>2, <2>1 DEF Persister, At
  <2>2. CASE v # w
    BY <1>2, <2>2 DEF PathsInv, Seats, Persister, At
  <2> QED BY <2>1, <2>2
<1> QED BY <1>1, <1>2, <1>3 DEF PathsInv, Seats

\* An append continues the line its writer read last, wherever it lands.
LEMMA AppendKeepsPaths ==
  ASSUME PathsInv, NEW w \in Writers, AppendPath(w)
  PROVE  PathsInv'
<1> DEFINE e == [sequence |-> persister[w].seen + 1, path |-> persister[w].path,
                 previous |-> persister[w].last]
<1>1. CASE cutOff
  <2>1. UNCHANGED <<events, commitments, snapshots>> /\ Becomes(w, Seated)
    BY <1>1 DEF AppendPath
  <2> QED BY <2>1, PersisterMoves DEF Seated
<1>2. CASE ~cutOff
  <2>1. /\ events' = Append(events, e) /\ UNCHANGED <<commitments, snapshots>>
        /\ persister' = [persister EXCEPT ![w] = Seated] /\ persister[w].at = "append"
    BY <1>2 DEF AppendPath, Becomes
  <2>2. /\ Journal' /\ Len(events) \in Nat /\ Len(events') = Len(events) + 1
        /\ \A i \in 1..Len(events) : events'[i] = events[i]
        /\ events'[Len(events) + 1] = e
    BY <2>1, AppendedLine DEF PathsInv
  <2>3. \A n \in 0..Len(events) : At(n)' = At(n)
    BY <2>2 DEF At
  <2>4. ASSUME NEW i \in 1..Len(events') PROVE Line(i)'
    <3>1. CASE i = Len(events) + 1
      <4>1. /\ persister[w].seen \in 0..Len(events) /\ persister[w].last = At(persister[w].seen)
            /\ persister[w].path \in snapshots
        BY <2>1 DEF PathsInv, Seats, Persister
      <4>2. events'[i].sequence = persister[w].seen + 1
            /\ events'[i].previous = persister[w].last /\ events'[i].path = persister[w].path
        BY <2>2, <3>1
      <4>3. events'[i].sequence \in 1..i /\ events'[i].sequence - 1 = persister[w].seen
        <5>1. PICK seen \in 0..Len(events) : seen = persister[w].seen
          BY <4>1
        <5>2. events'[i].sequence = seen + 1 /\ i = Len(events) + 1 /\ Len(events) \in Nat
          BY <2>2, <3>1, <4>2, <5>1
        <5>3. seen + 1 \in 1..i /\ (seen + 1) - 1 = seen
          BY <5>2
        <5> QED BY <5>1, <5>2, <5>3
      <4> QED BY <2>1, <2>3, <4>1, <4>2, <4>3 DEF Line
    <3>2. CASE i # Len(events) + 1
      <4>1. i \in 1..Len(events) /\ events'[i] = events[i] /\ Line(i)
        BY <2>2, <3>2 DEF PathsInv, Lines
      <4>2. events[i].sequence - 1 \in 0..Len(events)
        BY <2>2, <4>1 DEF Line
      <4> QED BY <2>1, <2>3, <4>1, <4>2 DEF Line
    <3> QED BY <3>1, <3>2
  <2>5. ASSUME NEW v \in Writers PROVE Persister(v)'
    <3>1. CASE v = w
      <4>1. persister'[v] = Seated
        BY <2>1, <3>1 DEF PathsInv, Seats
      <4> QED BY <4>1 DEF Persister, Seated
    <3>2. CASE v # w
      <4>1. persister'[v] = persister[v] /\ Persister(v)
        BY <2>1, <3>2 DEF PathsInv, Seats
      <4>2. persister[v].at = "append" => persister[v].seen \in 0..Len(events')
        BY <2>2, <4>1 DEF Persister
      <4> QED BY <2>1, <2>3, <4>1, <4>2 DEF Persister
    <3> QED BY <3>1, <3>2
  <2>6. persister' = [v \in Writers |-> persister'[v]]
    BY <2>1 DEF PathsInv, Seats
  <2>7. ASSUME NEW c \in commitments PROVE Commitment(c)'
    BY <2>2 DEF PathsInv, Committed, Commitment
  <2> QED BY <2>1, <2>2, <2>4, <2>5, <2>6, <2>7 DEF PathsInv, Lines, Seats, Committed
<1> QED BY <1>1, <1>2

\* What is committed are lines of the journal with the numbers they stand at.
LEMMA CommitKeepsPaths ==
  ASSUME PathsInv, Commit
  PROVE  PathsInv'
<1>1. PICK start, end :
         /\ start \in 1..Len(events) /\ end \in start..Len(events)
         /\ \A i \in start..end : events[i].sequence = i
         /\ commitments' = commitments
                \cup {[start |-> start, events |-> SubSeq(events, start, end)]}
  BY DEF Commit
<1> DEFINE c == [start |-> start, events |-> SubSeq(events, start, end)]
<1>2. UNCHANGED <<events, snapshots, persister>>
  BY DEF Commit
<1>3. PICK S : events \in Seq(S)
  BY DEF PathsInv, Journal
<1>4. Len(events) \in Nat /\ \A i \in start..end : events[i] \in S
  BY <1>1, <1>3, LenProperties, ElementOfSeq
<1>5. /\ c.events \in Seq(S) /\ Len(c.events) = end - start + 1
      /\ \A i \in 1..(end - start + 1) : c.events[i] = events[start + i - 1]
  BY <1>1, <1>4, SubSeqProperties
<1>6. DOMAIN c.events = 1..(end - start + 1) /\ c.start = start
  BY <1>5, LenProperties
<1>7. ASSUME NEW d, d = c PROVE Commitment(d)'
  <2> SUFFICES ASSUME NEW i \in 1..(end - start + 1)
               PROVE  /\ i \in Nat /\ start \in Nat /\ start + i - 1 \in 1..Len(events)
                      /\ events[start + i - 1] = c.events[i]
                      /\ events[start + i - 1].sequence = start + i - 1
    BY <1>2, <1>6, <1>7 DEF Commitment
  <2>1. start + i - 1 \in start..end
    BY <1>1, <1>4
  <2> QED BY <1>1, <1>4, <1>5, <2>1
<1>8. ASSUME NEW d \in commitments PROVE Commitment(d)'
  BY <1>2 DEF PathsInv, Committed, Commitment
<1>9. Journal' /\ Lines' /\ Seats'
  BY <1>2 DEF PathsInv, Journal, Lines, Line, At, Seats, Persister
<1>10. Committed'
  <2>1. commitments' = commitments \cup {c}
    BY <1>1
  <2> HIDE DEF c
  <2> QED BY <1>7, <1>8, <2>1 DEF Committed
<1> QED BY <1>9, <1>10 DEF PathsInv

\* The invariant is inductive.
LEMMA InvariantPaths == PathsSpec => []PathsInv
<1>1. PathsInit => PathsInv
  <2> SUFFICES ASSUME PathsInit PROVE PathsInv
    OBVIOUS
  <2>1. events \in Seq({}) /\ Len(events) = 0
    BY EmptySeq DEF PathsInit
  <2>2. Journal /\ Lines /\ Committed
    BY <2>1 DEF PathsInit, Journal, Lines, Committed
  <2>3. Seats
    BY DEF PathsInit, Seats, Persister, Seated
  <2> QED BY <2>2, <2>3 DEF PathsInv
<1>2. PathsInv /\ [PathsNext]_pathVars => PathsInv'
  <2> SUFFICES ASSUME PathsInv, [PathsNext]_pathVars PROVE PathsInv'
    OBVIOUS
  <2>1. CASE FrameArrives \/ UNCHANGED pathVars
    BY <2>1 DEF FrameArrives, pathVars, PathsInv, Journal, Lines, Line, At, Seats, Persister,
       Committed, Commitment
  <2>2. CASE Commit
    BY <2>2, CommitKeepsPaths
  <2>3. ASSUME NEW w \in Writers, Build(w) PROVE PathsInv'
    <3>1. PICK path : Becomes(w, [at |-> "look", path |-> path, seen |-> 0, last |-> Genesis])
      BY <2>3 DEF Build
    <3>2. UNCHANGED <<events, commitments, snapshots>>
      BY <2>3 DEF Build
    <3> QED BY <3>1, <3>2, PersisterMoves
  <2>4. ASSUME NEW w \in Writers,
               LookForSnapshot(w) \/ CreateSnapshot(w) \/ ReadEvents(w) \/ PersisterDies(w)
        PROVE  PathsInv'
    <3>1. Persister(w)
      BY DEF PathsInv, Seats
    <3>2. CASE LookForSnapshot(w)
      <4> DEFINE next == [persister[w] EXCEPT
                            !.at = IF persister[w].path \in snapshots THEN "journal" ELSE "create"]
      <4>1. next = [at |-> IF persister[w].path \in snapshots THEN "journal" ELSE "create",
                    path |-> persister[w].path, seen |-> persister[w].seen,
                    last |-> persister[w].last]
        BY <3>1 DEF Persister
      <4> QED BY <3>2, <4>1, PersisterMoves DEF LookForSnapshot
    <3>3. CASE CreateSnapshot(w)
      <4> DEFINE next == IF persister[w].path \in snapshots THEN Seated
                         ELSE [persister[w] EXCEPT !.at = "journal"]
      <4>1. next \in {Seated, [at |-> "journal", path |-> persister[w].path,
                               seen |-> persister[w].seen, last |-> persister[w].last]}
        BY <3>1 DEF Persister
      <4> QED BY <3>3, <4>1, PersisterMoves DEF CreateSnapshot, Seated
    <3>4. CASE ReadEvents(w)
      <4>1. Len(events) \in Nat /\ (events = <<>> <=> Len(events) = 0)
        BY EmptySeq, LenProperties DEF PathsInv, Journal
      <4>2. CASE Becomes(w, Seated)
        BY <3>4, <4>2, PersisterMoves DEF ReadEvents, Seated
      <4> DEFINE next == [at |-> "append", path |-> persister[w].path, seen |-> Len(events),
                          last |-> IF events = <<>> THEN Genesis ELSE events[Len(events)]]
      <4>3. CASE Becomes(w, next)
        <5>1. next = [at |-> "append", path |-> persister[w].path, seen |-> Len(events),
                      last |-> At(Len(events))]
          BY <4>1 DEF At
        <5>2. persister[w].path \in snapshots
          BY <3>1, <3>4 DEF Persister, ReadEvents
        <5> QED BY <3>4, <4>1, <4>3, <5>1, <5>2, PersisterMoves DEF ReadEvents
      <4> QED BY <3>4, <4>2, <4>3 DEF ReadEvents
    <3>5. CASE PersisterDies(w)
      BY <3>5, PersisterMoves DEF PersisterDies, Seated
    <3> QED BY <2>4, <3>2, <3>3, <3>4, <3>5
  <2> QED BY <2>1, <2>2, <2>3, <2>4, AppendKeepsPaths DEF PathsNext
<1> QED BY <1>1, <1>2, PTL DEF PathsSpec

\* However persists overlap, die and are retried, each event of a committed
\* range names the one before it and has its snapshot, and the journal goes on
\* saying the same.
THEOREM CommitmentsAreChainsHolds == PathsSpec => []CommitmentsAreChains
<1>1. PathsInv => CommitmentsAreChains
  <2> SUFFICES ASSUME PathsInv, NEW c \in commitments, NEW i \in DOMAIN c.events
               PROVE  /\ c.start + i - 1 \in DOMAIN events
                      /\ events[c.start + i - 1] = c.events[i]
                      /\ c.events[i].previous = Before(c, i) /\ c.events[i].path \in snapshots
    BY DEF CommitmentsAreChains
  <2> DEFINE k == c.start + i - 1
  <2>1. /\ i \in Nat /\ c.start \in Nat /\ k \in 1..Len(events) /\ events[k] = c.events[i]
        /\ events[k].sequence = k
    BY DEF PathsInv, Committed, Commitment
  <2>2. DOMAIN events = 1..Len(events) /\ Len(events) \in Nat
    BY LenProperties DEF PathsInv, Journal
  <2>3. events[k].previous = At(k - 1) /\ events[k].path \in snapshots
    BY <2>1 DEF PathsInv, Lines, Line
  <2>4. At(k - 1) = Before(c, i)
    <3>1. (k - 1 = 0 <=> c.start + i = 2) /\ k - 1 = c.start + i - 2
      BY <2>1
    <3> QED BY <3>1 DEF At, Before
  <2> QED BY <2>1, <2>2, <2>3, <2>4
<1> QED BY InvariantPaths, <1>1, PTL

-----------------------------------------------------------------------------
(* The builder of root paths.  It fills one target after the other and     *)
(* passes over frames that serve already.  Slots do not meet, since the lag *)
(* is less than the grid (SlotsApart); so what fills a slot depends on that *)
(* slot alone, and the fold comes to a set (PointsAre): of every slot its   *)
(* first frame, if that one has a price.  The contract and what one more    *)
(* frame changes follow from that.                                          *)

\* Induction, as the least number a set of numbers has.
LEMMA FirstNumber ==
  ASSUME NEW S \in SUBSET Nat, S # {}
  PROVE  \E m \in S : \A k \in S : ~ (k < m)
<1>1. IsWellFoundedOn(OpToRel(<, Nat), Nat)
  BY NatLessThanWellFounded
<1>2. PICK R : R = OpToRel(<, Nat)
  OBVIOUS
<1>3. \E m \in S : \A k \in S : <<k, m>> \notin R
  BY <1>1, <1>2, WFMin
<1>4. \A k, m \in S : k < m => <<k, m>> \in R
  BY <1>2 DEF OpToRel
<1>5. QED
  BY <1>3, <1>4

-----------------------------------------------------------------------------
(* The grid.                                                               *)

Slots == Lookback \div Grid + 1
LEMMA GridIs ==
  /\ Grid \in Nat /\ Grid >= 1 /\ Lookback \in Nat /\ Lag \in Nat /\ Lag < Grid /\ Age \in Nat /\ Slots \in Nat /\ Slots >= 1
<1>1. Grid \in Nat /\ Grid >= 1 /\ Lookback \in Nat /\ Lag \in Nat /\ Lag < Grid /\ Age \in Nat
  BY GridIsLawful
<1>2. Lookback \div Grid \in Nat
  BY <1>1
<1>3. QED
  BY <1>1, <1>2 DEF Slots

LEMMA Multiples ==
  ASSUME NEW g \in Nat, g >= 1, NEW i \in Nat, NEW j \in Nat, i < j
  PROVE  i * g \in Nat /\ j * g \in Nat /\ i * g + g <= j * g
<1>1. PICK k \in Nat : j = i + 1 + k
  <2>1. j - i - 1 \in Nat /\ j = i + 1 + (j - i - 1)
    OBVIOUS
  <2>2. QED
    BY <2>1
<1>2. j * g = i * g + g + k * g
  BY <1>1
<1>3. i * g \in Nat /\ j * g \in Nat /\ k * g \in Nat
  OBVIOUS
<1>4. QED
  BY <1>2, <1>3

\* A target of a baseline; one that is later is later by the grid.
ABase(base) == base.cutoff \in Nat /\ base.cutoff >= Lookback
Target(base, i) == WindowStart(base) + (i - 1) * Grid
LEMMA TargetsAre ==
  ASSUME NEW base, ABase(base)
  PROVE  /\ Targets(base) = [i \in 1..Slots |-> Target(base, i)] /\ WindowStart(base) \in Nat
         /\ \A i \in 1..Slots : Target(base, i) \in Nat /\ Targets(base)[i] = Target(base, i)
         /\ \A i, j \in 1..Slots : i < j => Target(base, i) + Grid <= Target(base, j)
<1>1. WindowStart(base) \in Nat
  BY GridIs DEF ABase, WindowStart
<1>2. Targets(base) = [i \in 1..Slots |-> Target(base, i)]
  BY DEF Targets, Target, Slots
<1>3. ASSUME NEW i \in 1..Slots PROVE Target(base, i) \in Nat /\ Targets(base)[i] = Target(base, i)
  <2>1. i - 1 \in Nat /\ Grid \in Nat
    BY GridIs
  <2>2. (i - 1) * Grid \in Nat
    BY <2>1
  <2>3. Target(base, i) \in Nat
    BY <1>1, <2>2 DEF Target
  <2>4. QED
    BY <1>2, <2>3
<1>4. ASSUME NEW i \in 1..Slots, NEW j \in 1..Slots, i < j PROVE Target(base, i) + Grid <= Target(base, j)
  <2>1. PICK a, b, w, g : a = i - 1 /\ b = j - 1 /\ w = WindowStart(base) /\ g = Grid
    OBVIOUS
  <2>2. a \in Nat /\ b \in Nat /\ a < b /\ g \in Nat /\ g >= 1 /\ w \in Nat
    BY <1>1, <1>4, <2>1, GridIs
  <2>3. a * g \in Nat /\ b * g \in Nat /\ a * g + g <= b * g
    BY <2>2, Multiples
  <2>4. w + a * g + g <= w + b * g
    BY <2>2, <2>3
  <2>5. Target(base, i) = w + a * g /\ Target(base, j) = w + b * g
    BY <2>1 DEF Target
  <2>6. QED
    BY <2>1, <2>4, <2>5
<1>5. QED
  BY <1>1, <1>2, <1>3, <1>4

-----------------------------------------------------------------------------
(* The fold, unfolded.                                                     *)

FoldRow(g, s, stored, base) ==
  IF s = {} THEN {} ELSE Filled(stored, base, g[s \ {Max(s)}], Targets(base)[Max(s)])
Folds(g, n, stored, base) == g = [s \in SUBSET (1..n) |-> FoldRow(g, s, stored, base)]

LEMMA MaxIs ==
  ASSUME NEW n \in Nat, NEW s \in SUBSET (1..(n + 1)), n + 1 \in s
  PROVE  Max(s) = n + 1
<1>1. \A y \in s : y \in Int /\ y <= n + 1
  OBVIOUS
<1>2. \A x \in s : (\A y \in s : y <= x) => x = n + 1
  BY <1>1
<1>3. QED
  BY <1>1, <1>2 DEF Max

LEMMA FoldExists ==
  ASSUME NEW stored, NEW base, NEW n \in Nat
  PROVE  \E g : Folds(g, n, stored, base)
<1>1. PICK bad : bad = {k \in Nat : ~ \E g : Folds(g, k, stored, base)}
  OBVIOUS
<1>2. SUFFICES ASSUME bad # {} PROVE FALSE
  BY <1>1
<1>3. PICK k \in bad : \A j \in bad : ~ (j < k)
  BY <1>1, <1>2, FirstNumber
<1>4. k # 0
  <2>1. SUFFICES ASSUME k = 0 PROVE FALSE
    OBVIOUS
  <2>2. PICK g : g = [s \in SUBSET (1..0) |-> {}]
    OBVIOUS
  <2>3. \A s \in SUBSET (1..0) : s = {}
    OBVIOUS
  <2>4. \A s \in SUBSET (1..0) : FoldRow(g, s, stored, base) = {}
    BY <2>3 DEF FoldRow
  <2>5. Folds(g, 0, stored, base)
    BY <2>2, <2>4 DEF Folds
  <2>6. QED
    BY <1>1, <2>1, <2>5
<1>5. PICK m \in Nat : k = m + 1
  <2>1. k - 1 \in Nat /\ k = (k - 1) + 1
    BY <1>1, <1>4
  <2>2. QED
    BY <2>1
<1>6. PICK g : Folds(g, m, stored, base)
  BY <1>1, <1>3, <1>5
<1>7. PICK h : h = [s \in SUBSET (1..(m + 1)) |->
                      IF m + 1 \in s THEN Filled(stored, base, g[s \ {m + 1}], Targets(base)[m + 1]) ELSE g[s]]
  OBVIOUS
<1>8. \A s \in SUBSET (1..m) : h[s] = g[s] /\ g[s] = FoldRow(g, s, stored, base)
  <2>1. TAKE s \in SUBSET (1..m)
  <2>2. s \in SUBSET (1..(m + 1)) /\ m + 1 \notin s
    OBVIOUS
  <2>3. QED
    BY <1>6, <1>7, <2>2 DEF Folds
<1>9. ASSUME NEW s \in SUBSET (1..(m + 1)) PROVE h[s] = FoldRow(h, s, stored, base)
  <2>1. CASE m + 1 \in s
    <3>1. Max(s) = m + 1
      BY <2>1, MaxIs
    <3>2. s \ {m + 1} \in SUBSET (1..m)
      OBVIOUS
    <3>3. h[s \ {m + 1}] = g[s \ {m + 1}]
      BY <1>8, <3>2
    <3>4. QED
      BY <1>7, <2>1, <3>1, <3>3 DEF FoldRow
  <2>2. CASE m + 1 \notin s
    <3>1. s \in SUBSET (1..m)
      BY <2>2
    <3>2. CASE s = {}
      BY <1>8, <3>1, <3>2 DEF FoldRow
    <3>3. CASE s # {}
      <4>1. s \ {Max(s)} \in SUBSET (1..m)
        BY <3>1
      <4>2. h[s \ {Max(s)}] = g[s \ {Max(s)}]
        BY <1>8, <4>1
      <4>3. QED
        BY <1>8, <3>1, <4>2 DEF FoldRow
    <3>4. QED
      BY <3>2, <3>3
  <2>3. QED
    BY <2>1, <2>2
<1>10. Folds(h, m + 1, stored, base)
  BY <1>7, <1>9 DEF Folds
<1>11. QED
  BY <1>1, <1>5, <1>10

LEMMA PointsFold ==
  ASSUME NEW stored, NEW base, ABase(base)
  PROVE  \E h : Folds(h, Slots, stored, base) /\ Points(stored, base) = h[1..Slots]
<1>1. DOMAIN Targets(base) = 1..Slots
  BY TargetsAre
<1>2. PICK h : h = CHOOSE g : g = [s \in SUBSET (1..Slots) |-> FoldRow(g, s, stored, base)]
  OBVIOUS
<1>3. \E g : g = [s \in SUBSET (1..Slots) |-> FoldRow(g, s, stored, base)]
  <2>1. \E g : Folds(g, Slots, stored, base)
    BY FoldExists, GridIs
  <2>2. QED
    BY <2>1 DEF Folds
<1>4. h = [s \in SUBSET (1..Slots) |-> FoldRow(h, s, stored, base)]
  BY <1>2, <1>3
<1>5. Points(stored, base) = h[1..Slots]
  BY <1>1, <1>2 DEF Points, FoldLeft, MapThenFoldSet, FoldRow
<1>6. QED
  BY <1>4, <1>5 DEF Folds

-----------------------------------------------------------------------------
(* What a path consists of: of every slot its first frame.                 *)

LEMMA FirstIs ==
  ASSUME NEW S \in SUBSET Candidates, S # {}
  PROVE  First(S) \in S
<1>0. \A f \in S : f.id \in Nat /\ f.cutoff \in Nat /\ f.known \in Nat
  BY FramesAreLawful
<1>1. PICK A : A = {f.cutoff : f \in S}
  OBVIOUS
<1>2. PICK cutoff \in A : \A x \in A : ~ (x < cutoff)
  <2>1. A \in SUBSET Nat /\ A # {}
    BY <1>0, <1>1
  <2>2. QED
    BY <2>1, FirstNumber
<1>3. PICK B : B = {f.known : f \in {g \in S : g.cutoff = cutoff}}
  OBVIOUS
<1>4. PICK known \in B : \A x \in B : ~ (x < known)
  <2>1. B \in SUBSET Nat /\ B # {}
    BY <1>0, <1>1, <1>2, <1>3
  <2>2. QED
    BY <2>1, FirstNumber
<1>5. PICK C : C = {f.id : f \in {g \in S : g.cutoff = cutoff /\ g.known = known}}
  OBVIOUS
<1>6. PICK id \in C : \A x \in C : ~ (x < id)
  <2>1. C \in SUBSET Nat /\ C # {}
    BY <1>0, <1>3, <1>4, <1>5
  <2>2. QED
    BY <2>1, FirstNumber
<1>7. PICK f \in S : f.cutoff = cutoff /\ f.known = known /\ f.id = id
  BY <1>5, <1>6
<1>8. ASSUME NEW g \in S PROVE Sooner(f, g)
  <2>0. /\ f.cutoff \in Nat /\ g.cutoff \in Nat /\ f.known \in Nat /\ g.known \in Nat
        /\ f.id \in Nat /\ g.id \in Nat
    BY <1>0
  <2>1. ~ (g.cutoff < cutoff)
    BY <1>1, <1>2
  <2>2. g.cutoff = cutoff => ~ (g.known < known)
    BY <1>3, <1>4
  <2>3. g.cutoff = cutoff /\ g.known = known => ~ (g.id < id)
    BY <1>5, <1>6
  <2>4. QED
    BY <2>0, <2>1, <2>2, <2>3, <1>7 DEF Sooner
<1>9. QED
  BY <1>8 DEF First

Slot(stored, base, t) == Eligible(stored, {}, base, t)
Fills(stored, base, t) == Slot(stored, base, t) # {} /\ First(Slot(stored, base, t)).priced
PointAt(stored, base, t) == [target |-> t, frame |-> First(Slot(stored, base, t))]
Taken(stored, base, i) ==
  {PointAt(stored, base, Target(base, j)) : j \in {l \in 1..i : Fills(stored, base, Target(base, l))}}

\* Slots do not meet, so no slot has a frame that serves an earlier one.
LEMMA SlotsApart ==
  ASSUME NEW stored \in SUBSET Candidates, NEW base, ABase(base), NEW i \in Nat, i + 1 \in 1..Slots
  PROVE  Eligible(stored, {p.frame : p \in Taken(stored, base, i)}, base, Target(base, i + 1))
           = Slot(stored, base, Target(base, i + 1))
<1>1. PICK used : used = {p.frame : p \in Taken(stored, base, i)}
  OBVIOUS
<1>2. SUFFICES ASSUME NEW f \in Slot(stored, base, Target(base, i + 1)), f \in used PROVE FALSE
  BY <1>1 DEF Slot, Eligible
<1>3. PICK p \in Taken(stored, base, i) : f = p.frame
  BY <1>1, <1>2
<1>4. PICK j \in 1..i : Fills(stored, base, Target(base, j)) /\ p = PointAt(stored, base, Target(base, j))
  BY <1>3 DEF Taken
<1>5. PICK S : S = Slot(stored, base, Target(base, j))
  OBVIOUS
<1>6. f \in S
  <2>1. S \in SUBSET Candidates /\ S # {}
    BY <1>4, <1>5 DEF Slot, Eligible, Fills
  <2>2. f = First(S)
    BY <1>3, <1>4, <1>5 DEF PointAt
  <2>3. QED
    BY <2>1, <2>2, FirstIs
<1>7. f.cutoff <= Target(base, j) + Lag
  BY <1>5, <1>6 DEF Slot, Eligible
<1>8. f.cutoff >= Target(base, i + 1) /\ f \in Candidates
  BY <1>2 DEF Slot, Eligible
<1>9. j \in 1..Slots /\ j < i + 1
  BY GridIs
<1>10. /\ Target(base, j) + Grid <= Target(base, i + 1)
       /\ Target(base, j) \in Nat /\ Target(base, i + 1) \in Nat
  BY <1>9, TargetsAre
<1>11. f.cutoff \in Nat
  BY <1>8, FramesAreLawful
<1>12. QED
  BY <1>7, <1>8, <1>10, <1>11, GridIs

LEMMA PointsAre ==
  ASSUME NEW stored \in SUBSET Candidates, NEW base, ABase(base)
  PROVE  Points(stored, base) = Taken(stored, base, Slots)
<1>1. PICK h : Folds(h, Slots, stored, base) /\ Points(stored, base) = h[1..Slots]
  BY PointsFold
<1>2. PICK bad : bad = {i \in 0..Slots : h[1..i] # Taken(stored, base, i)}
  OBVIOUS
<1>3. SUFFICES ASSUME bad # {} PROVE FALSE
  BY <1>1, <1>2, GridIs
<1>4. PICK k \in bad : \A j \in bad : ~ (j < k)
  <2>1. bad \in SUBSET Nat
    BY <1>2, GridIs
  <2>2. QED
    BY <1>3, <2>1, FirstNumber
<1>5. \A i \in 0..Slots : h[1..i] = FoldRow(h, 1..i, stored, base)
  <2>1. TAKE i \in 0..Slots
  <2>2. 1..i \in SUBSET (1..Slots)
    BY GridIs
  <2>3. QED
    BY <1>1, <2>2 DEF Folds
<1>6. k # 0
  <2>1. SUFFICES ASSUME k = 0 PROVE FALSE
    OBVIOUS
  <2>2. 1..0 = {} /\ 0 \in 0..Slots
    BY GridIs
  <2>3. h[1..0] = {}
    BY <1>5, <2>2 DEF FoldRow
  <2>4. Taken(stored, base, 0) = {}
    BY <2>2 DEF Taken
  <2>5. QED
    BY <1>2, <2>1, <2>3, <2>4
<1>7. PICK i \in Nat : k = i + 1 /\ i \in 0..Slots /\ k \in 1..Slots
  <2>1. k \in 0..Slots
    BY <1>2
  <2>2. k - 1 \in Nat /\ k = (k - 1) + 1 /\ k - 1 \in 0..Slots /\ k \in 1..Slots
    BY <1>6, <2>1, GridIs
  <2>3. QED
    BY <2>2
<1>8. h[1..i] = Taken(stored, base, i)
  BY <1>2, <1>4, <1>7
<1>9. h[1..k] = Filled(stored, base, h[1..i], Targets(base)[k])
  <2>1. (1..(i + 1)) \in SUBSET (1..(i + 1)) /\ i + 1 \in 1..(i + 1)
    OBVIOUS
  <2>2. Max(1..k) = k
    BY <1>7, <2>1, MaxIs
  <2>3. (1..k) \ {k} = 1..i /\ 1..k # {}
    BY <1>7
  <2>4. k \in 0..Slots
    BY <1>2
  <2>5. QED
    BY <1>5, <2>2, <2>3, <2>4 DEF FoldRow
<1>10. Targets(base)[k] = Target(base, k)
  BY <1>7, TargetsAre
<1>11. PICK S : S = Slot(stored, base, Target(base, k))
  OBVIOUS
<1>12. Eligible(stored, {p.frame : p \in Taken(stored, base, i)}, base, Target(base, k)) = S
  BY <1>7, <1>11, SlotsApart
<1>13. h[1..k] = IF S # {} /\ First(S).priced
                THEN Taken(stored, base, i) \cup {[target |-> Target(base, k), frame |-> First(S)]}
                ELSE Taken(stored, base, i)
  BY <1>8, <1>9, <1>10, <1>12 DEF Filled
<1>14. Taken(stored, base, k) = IF Fills(stored, base, Target(base, k))
                               THEN Taken(stored, base, i) \cup {PointAt(stored, base, Target(base, k))}
                               ELSE Taken(stored, base, i)
  <2>1. 1..k = (1..i) \cup {k}
    BY <1>7
  <2>2. CASE Fills(stored, base, Target(base, k))
    <3>1. {l \in 1..k : Fills(stored, base, Target(base, l))} = {l \in 1..i : Fills(stored, base, Target(base, l))} \cup {k}
      BY <2>1, <2>2
    <3>2. QED
      BY <2>2, <3>1 DEF Taken
  <2>3. CASE ~ Fills(stored, base, Target(base, k))
    <3>1. {l \in 1..k : Fills(stored, base, Target(base, l))} = {l \in 1..i : Fills(stored, base, Target(base, l))}
      BY <2>1, <2>3
    <3>2. QED
      BY <2>3, <3>1 DEF Taken
  <2>4. QED
    BY <2>2, <2>3
<1>15. h[1..k] = Taken(stored, base, k)
  BY <1>11, <1>13, <1>14 DEF Fills, PointAt
<1>16. QED
  BY <1>2, <1>15

-----------------------------------------------------------------------------
(* The contract.                                                           *)

LEMMA BaselineIs ==
  ASSUME NEW base \in Baselines
  PROVE  /\ ABase(base) /\ base.known \in Nat /\ base.known <= base.cutoff
         /\ base.frame \in Candidates /\ base.frame.cutoff = base.cutoff
<1>1. PICK f \in Candidates : f.cutoff >= Lookback /\ base \in {[cutoff |-> f.cutoff, known |-> k, frame |-> f] : k \in {f.known, f.cutoff}}
  BY DEF Baselines
<1>2. PICK k \in {f.known, f.cutoff} : base = [cutoff |-> f.cutoff, known |-> k, frame |-> f]
  BY <1>1
<1>3. f.cutoff \in Nat /\ f.known \in Nat /\ f.known <= f.cutoff
  BY FramesAreLawful
<1>4. base.cutoff = f.cutoff /\ base.known = k /\ base.frame = f
  BY <1>2
<1>5. k \in Nat /\ k <= f.cutoff
  BY <1>2, <1>3
<1>6. QED
  BY <1>1, <1>3, <1>4, <1>5 DEF ABase

LEMMA GreatestIs ==
  ASSUME NEW c \in Nat, NEW S \in SUBSET (0..c), S # {}
  PROVE  Greatest(S) \in S /\ \A x \in S : x <= Greatest(S)
<1>1. PICK A : A = {c - x : x \in S}
  OBVIOUS
<1>2. A \in SUBSET Nat /\ A # {}
  <2>1. \A x \in S : x \in 0..c
    OBVIOUS
  <2>2. \A x \in 0..c : c - x \in Nat
    OBVIOUS
  <2>3. QED
    BY <1>1, <2>1, <2>2
<1>3. PICK m \in A : \A a \in A : ~ (a < m)
  BY <1>2, FirstNumber
<1>4. PICK x \in S : m = c - x
  BY <1>1, <1>3
<1>5. \A y \in S : ~ (c - y < c - x)
  BY <1>1, <1>3, <1>4
<1>6. \A y \in S : y <= x
  <2>1. TAKE y \in S
  <2>2. x \in Nat /\ y \in Nat
    OBVIOUS
  <2>3. QED
    BY <1>5, <2>2
<1>7. QED
  BY <1>6 DEF Greatest

\* The slots that are filled.
Filling(stored, base) == {l \in 1..Slots : Fills(stored, base, Target(base, l))}

LEMMA PointIs ==
  ASSUME NEW stored \in SUBSET Candidates, NEW base \in Baselines, NEW p \in Taken(stored, base, Slots)
  PROVE  \E j \in Filling(stored, base) :
           /\ p.target = Target(base, j) /\ p = PointAt(stored, base, Target(base, j))
           /\ p.frame \in Slot(stored, base, p.target) /\ p.frame \in Candidates
<1>1. PICK j \in Filling(stored, base) : p = PointAt(stored, base, Target(base, j))
  BY DEF Taken, Filling
<1>2. PICK S : S = Slot(stored, base, Target(base, j)) /\ S \in SUBSET Candidates /\ S # {}
  BY <1>1 DEF Filling, Fills, Slot, Eligible
<1>3. p.target = Target(base, j) /\ p.frame = First(S)
  BY <1>1, <1>2 DEF PointAt
<1>4. First(S) \in S
  BY <1>2, FirstIs
<1>5. QED
  BY <1>1, <1>2, <1>3, <1>4

LEMMA TargetsDiffer ==
  ASSUME NEW base, ABase(base), NEW i \in 1..Slots, NEW j \in 1..Slots, Target(base, i) = Target(base, j)
  PROVE  i = j
<1>1. Target(base, i) \in Nat /\ Target(base, j) \in Nat
  BY TargetsAre
<1>2. ~ (i < j)
  BY <1>1, TargetsAre, GridIs
<1>3. ~ (j < i)
  BY <1>1, TargetsAre, GridIs
<1>4. QED
  BY <1>2, <1>3, GridIs

LEMMA PointsCount ==
  ASSUME NEW stored \in SUBSET Candidates, NEW base \in Baselines
  PROVE  /\ Cardinality(Taken(stored, base, Slots)) = Slots <=> Filling(stored, base) = 1..Slots
         /\ Taken(stored, base, Slots) = {} <=> Filling(stored, base) = {}
<1>1. PICK J : J = Filling(stored, base) /\ J \in SUBSET (1..Slots)
  BY DEF Filling
<1>2. PICK P : P = Taken(stored, base, Slots)
  OBVIOUS
<1>3. PICK f : f = [j \in J |-> PointAt(stored, base, Target(base, j))]
  OBVIOUS
<1>4. P = {f[j] : j \in J}
  BY <1>1, <1>2, <1>3 DEF Taken, Filling
<1>5. \A i, j \in J : f[i] = f[j] => i = j
  <2>1. SUFFICES ASSUME NEW i \in J, NEW j \in J, f[i] = f[j] PROVE i = j
    OBVIOUS
  <2>2. f[i].target = Target(base, i) /\ f[j].target = Target(base, j)
    BY <1>3 DEF PointAt
  <2>3. i \in 1..Slots /\ j \in 1..Slots /\ Target(base, i) = Target(base, j)
    BY <1>1, <2>1, <2>2
  <2>4. QED
    BY <2>3, TargetsDiffer, BaselineIs
<1>6. f \in Bijection(J, P)
  BY <1>3, <1>4, <1>5 DEF Bijection, Injection, Surjection, IsInjective
<1>7. IsFiniteSet(1..Slots) /\ Cardinality(1..Slots) = Slots
  BY FS_Interval, GridIs
<1>8. IsFiniteSet(J)
  BY <1>1, <1>7, FS_Subset
<1>9. Cardinality(P) = Cardinality(J)
  <2>1. ExistsBijection(J, P)
    BY <1>6 DEF ExistsBijection
  <2>2. QED
    BY <1>8, <2>1, FS_Bijection
<1>10. Cardinality(J) = Slots => J = 1..Slots
  BY <1>1, <1>7, FS_Subset
<1>11. QED
  BY <1>1, <1>2, <1>4, <1>7, <1>9, <1>10

LEMMA BuiltIsLawful ==
  ASSUME NEW stored \in SUBSET Candidates, NEW base \in Baselines
  PROVE  LawfulPath(BuildPath(stored, base))
<1>0. ABase(base) /\ base.known \in Nat /\ base.known <= base.cutoff /\ base.cutoff \in Nat
  BY BaselineIs DEF ABase
<1>1. PICK P : P = Points(stored, base) /\ P = Taken(stored, base, Slots)
  BY <1>0, PointsAre
<1>2. PICK K : K = {base.known} \cup {p.frame.known : p \in P}
  OBVIOUS
<1>3. PICK grid : grid = {Targets(base)[i] : i \in DOMAIN Targets(base)}
  OBVIOUS
<1>4. PICK taken : taken = {p.target : p \in P}
  OBVIOUS
<1>5. PICK path : /\ path = BuildPath(stored, base) /\ path.base = base /\ path.points = P /\ path.known = Greatest(K)
                  /\ path.missing = grid \ taken /\ path.status = Status(P)
  <2>1. PICK g, s, m : g = Greatest(K) /\ s = Status(P) /\ m = grid \ taken
    OBVIOUS
  <2>2. BuildPath(stored, base) = [base |-> base, points |-> P, known |-> g, missing |-> m, status |-> s]
    BY <1>1, <1>2, <1>3, <1>4, <2>1 DEF BuildPath
  <2>3. QED
    BY <2>1, <2>2
<1>6. PICK J : J = Filling(stored, base) /\ J \in SUBSET (1..Slots)
  BY DEF Filling
<1>7. grid = {Target(base, i) : i \in 1..Slots}
  BY <1>0, <1>3, TargetsAre
<1>8. taken = {Target(base, i) : i \in J}
  <2>1. P = {PointAt(stored, base, Target(base, i)) : i \in J}
    BY <1>1, <1>6 DEF Taken, Filling
  <2>2. \A i \in J : PointAt(stored, base, Target(base, i)).target = Target(base, i)
    BY DEF PointAt
  <2>3. QED
    BY <1>4, <2>1, <2>2
<1>9. taken \subseteq grid
  BY <1>6, <1>7, <1>8
<1>10. ASSUME NEW p \in P
       PROVE  /\ p.frame.cutoff \in Nat /\ p.frame.known \in Nat /\ p.target \in Nat
              /\ LawfulPoint(p, base)
  <2>1. PICK j \in J : p.target = Target(base, j) /\ p.frame \in Slot(stored, base, p.target) /\ p.frame \in Candidates
    BY <1>1, <1>6, PointIs
  <2>2. p.frame.cutoff \in Nat /\ p.frame.known \in Nat /\ p.frame.known <= p.frame.cutoff
    BY <2>1, FramesAreLawful
  <2>3. p.target \in Nat
    BY <1>0, <1>6, <2>1, TargetsAre
  <2>4. QED
    BY <2>1, <2>2, <2>3 DEF LawfulPoint, Slot, Eligible
<1>11. K \in SUBSET (0..base.cutoff) /\ K # {}
  <2>1. \A p \in P : p.frame.known \in 0..base.cutoff
    BY <1>0, <1>10 DEF LawfulPoint
  <2>2. base.known \in 0..base.cutoff
    BY <1>0
  <2>3. QED
    BY <1>2, <2>1, <2>2
<1>12. PICK g \in 0..base.cutoff : g = Greatest(K) /\ \A x \in K : x <= g
  <2>1. Greatest(K) \in K /\ \A x \in K : x <= Greatest(K)
    BY <1>0, <1>11, GreatestIs
  <2>2. Greatest(K) \in 0..base.cutoff
    BY <1>11, <2>1
  <2>3. QED
    BY <2>1, <2>2
<1>13. WindowStart(path.base) >= 0 /\ path.known <= path.base.cutoff
  <2>1. WindowStart(base) \in Nat
    BY <1>0, TargetsAre
  <2>2. path.known = g /\ g <= base.cutoff
    BY <1>0, <1>5, <1>12
  <2>3. QED
    BY <1>5, <2>1, <2>2
<1>14. \A p \in P : path.known >= p.frame.known
  <2>1. TAKE p \in P
  <2>2. p.frame.known \in K
    BY <1>2
  <2>3. p.frame.known <= g /\ p.frame.known \in Nat /\ g \in Nat
    BY <1>10, <1>12, <2>2
  <2>4. QED
    BY <1>5, <1>12, <2>3
<1>15. ASSUME NEW p \in P, NEW q \in P PROVE p = q \/ (p.target # q.target /\ p.frame # q.frame)
  <2>1. PICK i \in J : /\ p.target = Target(base, i) /\ p = PointAt(stored, base, Target(base, i))
                       /\ p.frame \in Slot(stored, base, p.target)
    BY <1>1, <1>6, PointIs
  <2>2. PICK j \in J : /\ q.target = Target(base, j) /\ q = PointAt(stored, base, Target(base, j))
                       /\ q.frame \in Slot(stored, base, q.target)
    BY <1>1, <1>6, PointIs
  <2>3. i = j => p = q
    BY <2>1, <2>2
  <2>4. i \in 1..Slots /\ j \in 1..Slots
    BY <1>6
  <2>5. i # j => p.target # q.target
    BY <1>0, <2>1, <2>2, <2>4, TargetsDiffer
  <2>6. i # j => p.frame # q.frame
    <3>1. SUFFICES ASSUME i # j, p.frame = q.frame PROVE FALSE
      OBVIOUS
    <3>2. PICK c \in Nat : c = p.frame.cutoff
      BY <1>10
    <3>3. c >= p.target /\ c <= p.target + Lag /\ c >= q.target /\ c <= q.target + Lag
      BY <2>1, <2>2, <3>1, <3>2 DEF Slot, Eligible
    <3>4. p.target \in Nat /\ q.target \in Nat
      BY <1>10
    <3>5. p.target + Grid <= q.target \/ q.target + Grid <= p.target
      <4>1. i < j \/ j < i
        BY <2>4, <3>1, GridIs
      <4>2. QED
        BY <1>0, <2>1, <2>2, <2>4, <4>1, TargetsAre
    <3>6. QED
      BY <3>2, <3>3, <3>4, <3>5, GridIs
  <2>7. QED
    BY <2>3, <2>5, <2>6
<1>16. Cardinality(P) = Slots <=> J = 1..Slots
  BY <1>1, <1>6, PointsCount
<1>17. P = {} <=> J = {}
  BY <1>1, <1>6, PointsCount
<1>18. path.missing = {} <=> J = 1..Slots
  <2>1. J = 1..Slots => path.missing = {}
    BY <1>5, <1>7, <1>8
  <2>2. ASSUME path.missing = {} PROVE J = 1..Slots
    <3>1. SUFFICES ASSUME NEW i \in 1..Slots PROVE i \in J
      BY <1>6
    <3>2. Target(base, i) \in taken
      BY <1>5, <1>7, <2>2
    <3>3. PICK j \in J : Target(base, i) = Target(base, j)
      BY <1>8, <3>2
    <3>4. i = j
      BY <1>0, <1>6, <3>3, TargetsDiffer
    <3>5. QED
      BY <3>4
  <2>3. QED
    BY <2>1, <2>2
<1>19. /\ path.status = "QUALIFIED" => path.missing = {}
       /\ path.status = "UNAVAILABLE" => path.points = {}
       /\ path.status = "DEGRADED" => path.points # {} /\ path.missing # {}
  <2>1. path.status = IF Cardinality(P) = Slots THEN "QUALIFIED" ELSE IF P # {} THEN "DEGRADED" ELSE "UNAVAILABLE"
    BY <1>5 DEF Status, Slots
  <2>2. QED
    BY <1>5, <1>16, <1>18, <2>1
<1>20. taken \cup path.missing = grid /\ taken \cap path.missing = {}
  BY <1>5, <1>9
<1>21. grid = {Targets(path.base)[i] : i \in DOMAIN Targets(path.base)} /\ taken = {p.target : p \in path.points}
  BY <1>3, <1>4, <1>5
<1>22. LawfulPath(path)
  BY <1>5, <1>10, <1>13, <1>14, <1>15, <1>19, <1>20, <1>21 DEF LawfulPath
<1>23. QED
  BY <1>5, <1>22

LEMMA FramesAreCandidates == PathsSpec => [](frames \subseteq Candidates)
<1>1. PathsInit => frames \subseteq Candidates
  BY DEF PathsInit
<1>2. frames \subseteq Candidates /\ [PathsNext]_pathVars => (frames \subseteq Candidates)'
  BY DEF PathsNext, FrameArrives, Commit, Build, LookForSnapshot, CreateSnapshot, ReadEvents, AppendPath, PersisterDies, pathVars
<1>3. QED
  BY <1>1, <1>2, PTL DEF PathsSpec

\* Whatever frames are in the store and whatever the grid, the builder makes a
\* path its own contract accepts (build_economic_root_path and the checks of
\* EconomicRootPathExperience).
THEOREM BuilderMeetsContractHolds == PathsSpec => []BuilderMeetsContract
<1>1. frames \subseteq Candidates => BuilderMeetsContract
  BY BuiltIsLawful DEF BuilderMeetsContract
<1>2. QED
  BY <1>1, FramesAreCandidates, PTL

-----------------------------------------------------------------------------
(* One more frame.                                                         *)

LEMMA FillIs ==
  ASSUME NEW stored \in SUBSET Candidates, NEW base \in Baselines, NEW j \in 1..Slots, NEW t, t = Target(base, j)
  PROVE  FillAt(BuildPath(stored, base), t)
           = IF Fills(stored, base, t) THEN {First(Slot(stored, base, t))} ELSE {}
<1>0. ABase(base)
  BY BaselineIs
<1>1. PICK P : P = Taken(stored, base, Slots)
  OBVIOUS
<1>2. BuildPath(stored, base).points = P
  BY <1>0, <1>1, PointsAre DEF BuildPath
<1>3. ASSUME NEW p \in P, p.target = t
      PROVE  Fills(stored, base, t) /\ p = PointAt(stored, base, t)
  <2>1. PICK i \in Filling(stored, base) : p.target = Target(base, i) /\ p = PointAt(stored, base, Target(base, i))
    BY <1>1, PointIs
  <2>2. Target(base, i) = t
    BY <1>3, <2>1
  <2>3. QED
    BY <2>1, <2>2 DEF Filling
<1>4. ASSUME Fills(stored, base, t) PROVE PointAt(stored, base, t) \in P
  BY <1>1, <1>4 DEF Taken
<1>5. PointAt(stored, base, t).target = t /\ PointAt(stored, base, t).frame = First(Slot(stored, base, t))
  BY DEF PointAt
<1>6. CASE Fills(stored, base, t)
  <2>1. {q \in P : q.target = t} = {PointAt(stored, base, t)}
    BY <1>3, <1>4, <1>5, <1>6
  <2>2. QED
    BY <1>2, <1>5, <1>6, <2>1 DEF FillAt
<1>7. CASE ~ Fills(stored, base, t)
  <2>1. {q \in P : q.target = t} = {}
    BY <1>3, <1>7
  <2>2. QED
    BY <1>2, <1>7, <2>1 DEF FillAt
<1>8. QED
  BY <1>6, <1>7

Slotted(path) == path.missing \cup {p.target : p \in path.points}
LEMMA SlottedIs ==
  ASSUME NEW stored \in SUBSET Candidates, NEW base \in Baselines, NEW t \in Slotted(BuildPath(stored, base))
  PROVE  \E j \in 1..Slots : t = Target(base, j)
<1>0. ABase(base)
  BY BaselineIs
<1>1. PICK grid : grid = {Targets(base)[i] : i \in DOMAIN Targets(base)} /\ grid = {Target(base, i) : i \in 1..Slots}
  BY <1>0, TargetsAre
<1>2. PICK path : path = BuildPath(stored, base)
  OBVIOUS
<1>3. path.missing \subseteq grid /\ path.points = Taken(stored, base, Slots)
  BY <1>0, <1>1, <1>2, PointsAre DEF BuildPath
<1>4. \A p \in path.points : p.target \in grid
  <2>1. TAKE p \in path.points
  <2>2. PICK i \in Filling(stored, base) : p.target = Target(base, i)
    BY <1>3, PointIs
  <2>3. QED
    BY <1>1, <2>2 DEF Filling
<1>5. t \in grid
  BY <1>2, <1>3, <1>4 DEF Slotted
<1>6. QED
  BY <1>1, <1>5

LEMMA OneMoreFrame ==
  ASSUME NEW stored \in SUBSET Candidates, NEW f \in Candidates, f \notin stored, NEW base \in Baselines,
         base.frame \in stored, NEW more, more = stored \cup {f}, NEW t \in Slotted(BuildPath(stored, base)),
         FillAt(BuildPath(stored, base), t) # FillAt(BuildPath(more, base), t)
  PROVE  f.cutoff \in t..(t + Lag) /\ t < base.cutoff
<1>1. PICK j \in 1..Slots : t = Target(base, j)
  BY SlottedIs
<1>2. more \in SUBSET Candidates
  OBVIOUS
<1>3. PICK before, after : before = Slot(stored, base, t) /\ after = Slot(more, base, t)
  OBVIOUS
<1>4. before # after
  <2>1. FillAt(BuildPath(stored, base), t) = IF before # {} /\ First(before).priced THEN {First(before)} ELSE {}
    BY <1>1, <1>3, FillIs DEF Fills
  <2>2. FillAt(BuildPath(more, base), t) = IF after # {} /\ First(after).priced THEN {First(after)} ELSE {}
    BY <1>1, <1>2, <1>3, FillIs DEF Fills
  <2>3. QED
    BY <2>1, <2>2
<1>5. f \in after
  BY <1>3, <1>4 DEF Slot, Eligible
<1>6. f.cutoff >= t /\ f.cutoff <= t + Lag /\ f.cutoff <= base.cutoff /\ (t = base.cutoff => f = base.frame)
  BY <1>3, <1>5 DEF Slot, Eligible
<1>7. t \in Nat /\ f.cutoff \in Nat /\ base.cutoff \in Nat /\ Lag \in Nat
  BY <1>1, BaselineIs, TargetsAre, FramesAreLawful, GridIs DEF ABase
<1>8. t # base.cutoff
  BY <1>6
<1>9. QED
  BY <1>6, <1>7, <1>8

\* A frame that arrives changes a path built again in the one slot it falls
\* into, and never at the cutoff (build_economic_root_path).
THEOREM OneFrameTouchesOneSlotHolds == PathsSpec => OneFrameTouchesOneSlot
<1>1. ASSUME frames \subseteq Candidates, [PathsNext]_pathVars
      PROVE  [frames' # frames =>
                \A base \in Baselines : base.frame \in frames =>
                  LET touched == TouchedSlots(base) arrived == frames' \ frames IN
                  \A t \in touched : \A f \in arrived : f.cutoff \in t..(t + Lag) /\ t < base.cutoff]_pathVars
  <2>1. SUFFICES ASSUME frames' # frames, NEW base \in Baselines, base.frame \in frames,
                        NEW t \in TouchedSlots(base), NEW f \in frames' \ frames
                 PROVE  f.cutoff \in t..(t + Lag) /\ t < base.cutoff
    OBVIOUS
  <2>2. FrameArrives
    BY <1>1, <2>1 DEF PathsNext, Commit, Build, LookForSnapshot, CreateSnapshot, ReadEvents, AppendPath, PersisterDies, pathVars
  <2>3. PICK stored, more : stored = frames /\ more = frames' /\ more = stored \cup {f}
    BY <2>1, <2>2 DEF FrameArrives
  <2>4. /\ stored \in SUBSET Candidates /\ f \in Candidates /\ f \notin stored /\ base.frame \in stored
    BY <1>1, <2>1, <2>2, <2>3 DEF FrameArrives
  <2>5. /\ t \in Slotted(BuildPath(stored, base))
        /\ FillAt(BuildPath(stored, base), t) # FillAt(BuildPath(more, base), t)
    BY <2>1, <2>3 DEF TouchedSlots, Slotted
  <2>6. QED
    BY <2>3, <2>4, <2>5, OneMoreFrame
<1>2. QED
  BY <1>1, FramesAreCandidates, PTL DEF OneFrameTouchesOneSlot, PathsSpec
=============================================================================
