----------------------------- MODULE StateStore -----------------------------
(***************************************************************************)
(* The durable operating state of autonomous_kernel/store.py: transition,   *)
(* update_task and recover_pending over current_state.json, resume.json,    *)
(* backlog.json, transitions.jsonl, transactions.jsonl and the prepared     *)
(* journal pending_transaction.json.                                        *)
(*                                                                          *)
(* One command at a time is inside writer_lock (WriterLock.tla shows when   *)
(* that holds), and it may crash between any two file operations.  A crash  *)
(* frees the lease: a later command clears the orphaned lock.  Each JSON    *)
(* file is replaced atomically (temporary file, fsync, os.replace); an      *)
(* append to a .jsonl file is one buffered write, which a crash may leave   *)
(* torn when TornAppends is TRUE.                                           *)
(***************************************************************************)
EXTENDS Naturals, Sequences, RootStates

CONSTANTS
    Tasks,          \* ids of the backlog tasks; ids order as numbers
    DependsOn,      \* depends_on of each task
    Priority,       \* priority_score of each task
    TornAppends,    \* whether a crash may tear an append
    MaxTransactions,\* bound on the transactions of a behaviour
    MaxCrashes      \* bound on the crashes of a behaviour

ASSUME TasksAssumption ==
    /\ Tasks \subseteq Nat \ {0}
    /\ DependsOn \in [Tasks -> SUBSET Tasks]
    /\ Priority \in [Tasks -> Nat]
ASSUME BoundsAssumption == MaxTransactions \in Nat /\ MaxCrashes \in Nat
ASSUME TornAssumption == TornAppends \in BOOLEAN

VARIABLES
    backlog,        \* state/backlog.json: the status of each task
    current,        \* state/current_state.json: root_state, next_task_id
    resume,         \* state/resume.json
    transitions,    \* state/transitions.jsonl
    transactions,   \* state/transactions.jsonl
    pending,        \* state/pending_transaction.json, or NoJournal
    torn,           \* journals that end in a torn line
    pc,             \* next operation of the command holding the lease
    mode,           \* which command that is
    journal,        \* the transaction it is carrying out
    issued,         \* transaction ids handed out
    crashes         \* crashes so far

files == <<backlog, current, resume, transitions, transactions, pending, torn>>
vars == <<files, pc, mode, journal, issued, crashes>>

NoTask == 0
Backlogs == [Tasks -> TASK_STATUSES]
Currents == [root_state : ROOT_STATES, next_task_id : Tasks \cup {NoTask}]
Resumes == [root_state : ROOT_STATES, next_task_id : Tasks \cup {NoTask},
            active_task_ids : SUBSET Tasks, last_transition_id : Nat]
Records == [id : Nat, previous : ROOT_STATES, new : ROOT_STATES]

\* A journal holds the full documents to write and the record to append.  A
\* transition writes current and resume; a task update writes all three.
Transfers == [id : Nat, backlog : Backlogs, current : Currents, resume : Resumes,
              appends : Seq(Records)]
NoJournal == [id |-> 0]

-----------------------------------------------------------------------------
(* Choosing the next work.                                                  *)

Completed(b) == {t \in Tasks : b[t] = "completed"}
InProgress(b) == {t \in Tasks : b[t] = "in_progress"}

Eligible(b) == {t \in Tasks : b[t] = "ready" /\ DependsOn[t] \subseteq Completed(b)}

\* The sort key (-priority_score, id).
Outranks(t, u) == Priority[t] > Priority[u] \/ (Priority[t] = Priority[u] /\ t < u)

\* _next_from_items: the first eligible task in that order, or None.
NextFromItems(b) ==
    LET best == {t \in Eligible(b) : \A u \in Eligible(b) \ {t} : Outranks(t, u)}
    IN  IF best = {} THEN NoTask ELSE CHOOSE t \in best : TRUE

-----------------------------------------------------------------------------

Init ==
    /\ backlog \in Backlogs
    /\ \E r \in ROOT_STATES :
         /\ current = [root_state |-> r, next_task_id |-> NextFromItems(backlog)]
         /\ resume = [root_state |-> r, next_task_id |-> NextFromItems(backlog),
                      active_task_ids |-> InProgress(backlog),
                      last_transition_id |-> 0]
    /\ transitions = <<>> /\ transactions = <<>>
    /\ pending = NoJournal /\ torn = {}
    /\ pc = "free" /\ mode = "none" /\ journal = NoJournal
    /\ issued = 0 /\ crashes = 0

Has(log, id) == \E i \in 1..Len(log) : log[i].id = id

\* The part of validate that the commands here can make fail.
Valid ==
    /\ pending = NoJournal
    /\ torn = {}
    /\ current.root_state \in ROOT_STATES
    /\ resume.next_task_id = current.next_task_id
    /\ resume.active_task_ids = InProgress(backlog)

\* Leave the with-block; the lease is released.
Exit == pc' = "free" /\ mode' = "none" /\ journal' = NoJournal

Acquire ==
    /\ pc = "free"
    /\ pc' = "begin"
    /\ mode' \in {"transition", "task", "recover"}
    /\ UNCHANGED <<files, journal, issued, crashes>>

\* An invalid state, a transition the table forbids, an unknown task or
\* missing evidence: an exception before anything is written.
Refuse ==
    /\ pc = "begin" /\ mode # "recover"
    /\ Exit
    /\ UNCHANGED <<files, issued, crashes>>

Transition(new) ==
    /\ pc = "begin" /\ mode = "transition" /\ Valid
    /\ new \in TRANSITIONS[current.root_state]
    /\ issued < MaxTransactions
    /\ issued' = issued + 1
    /\ journal' = [id |-> issued', backlog |-> backlog,
                   current |-> [current EXCEPT !.root_state = new],
                   resume |-> [resume EXCEPT !.root_state = new,
                                             !.last_transition_id = issued'],
                   appends |-> <<[id |-> issued',
                                  previous |-> current.root_state, new |-> new]>>]
    /\ pc' = "prepare"
    /\ UNCHANGED <<files, mode, crashes>>

\* Variant: the resume pointer is chosen before the new status is stored.
UpdateTaskStalePointer(t, status) ==
    /\ pc = "begin" /\ mode = "task" /\ Valid
    /\ issued < MaxTransactions
    /\ issued' = issued + 1
    /\ LET b == [backlog EXCEPT ![t] = status]
           n == NextFromItems(backlog)
       IN  journal' = [id |-> issued', backlog |-> b,
                       current |-> [current EXCEPT !.next_task_id = n],
                       resume |-> [resume EXCEPT !.next_task_id = n,
                                                 !.active_task_ids = InProgress(b)],
                       appends |-> <<>>]
    /\ pc' = "prepare"
    /\ UNCHANGED <<files, mode, crashes>>

UpdateTask(t, status) ==
    /\ pc = "begin" /\ mode = "task" /\ Valid
    /\ issued < MaxTransactions
    /\ issued' = issued + 1
    /\ LET b == [backlog EXCEPT ![t] = status]
           n == NextFromItems(b)
       IN  journal' = [id |-> issued', backlog |-> b,
                       current |-> [current EXCEPT !.next_task_id = n],
                       resume |-> [resume EXCEPT !.next_task_id = n,
                                                 !.active_task_ids = InProgress(b)],
                       appends |-> <<>>]
    /\ pc' = "prepare"
    /\ UNCHANGED <<files, mode, crashes>>

\* The first write of a journal; the documents are written in its order.
FirstWrite(j) == IF j.appends = <<>> THEN "backlog" ELSE "current"

\* _commit_transaction refuses to overwrite a pending journal.
Prepare ==
    /\ pc = "prepare"
    /\ IF pending = NoJournal
       THEN pending' = journal /\ pc' = FirstWrite(journal) /\ UNCHANGED <<mode, journal>>
       ELSE Exit /\ UNCHANGED pending
    /\ UNCHANGED <<backlog, current, resume, transitions, transactions, torn,
                   issued, crashes>>

\* Variants: an interrupted transaction is rolled back instead of forward;
\* one whose record is already journaled is refused as a duplicate.
RecoverByDiscarding ==
    /\ pc = "begin" /\ mode = "recover"
    /\ pending' = NoJournal
    /\ Exit
    /\ UNCHANGED <<backlog, current, resume, transitions, transactions, torn,
                   issued, crashes>>
RecoverOnce ==
    /\ pc = "begin" /\ mode = "recover"
    /\ IF pending = NoJournal \/ Has(transitions, pending.id)
       THEN Exit
       ELSE journal' = pending /\ pc' = FirstWrite(pending) /\ UNCHANGED mode
    /\ UNCHANGED <<files, issued, crashes>>

\* recover_pending: nothing to do, or load the journal and roll it forward.
Recover ==
    /\ pc = "begin" /\ mode = "recover"
    /\ IF pending = NoJournal
       THEN Exit
       ELSE journal' = pending /\ pc' = FirstWrite(pending) /\ UNCHANGED mode
    /\ UNCHANGED <<files, issued, crashes>>

WriteBacklog ==
    /\ pc = "backlog"
    /\ backlog' = journal.backlog
    /\ pc' = "current"
    /\ UNCHANGED <<current, resume, transitions, transactions, pending, torn,
                   mode, journal, issued, crashes>>

WriteCurrent ==
    /\ pc = "current"
    /\ current' = journal.current
    /\ pc' = "resume"
    /\ UNCHANGED <<backlog, resume, transitions, transactions, pending, torn,
                   mode, journal, issued, crashes>>

WriteResume ==
    /\ pc = "resume"
    /\ resume' = journal.resume
    /\ pc' = IF journal.appends = <<>> THEN "complete" ELSE "append"
    /\ UNCHANGED <<backlog, current, transitions, transactions, pending, torn,
                   mode, journal, issued, crashes>>

\* _append_jsonl_once reads the whole journal first: a torn line is a
\* ValueError; a record whose id is already there is not written again.
AppendTransition ==
    /\ pc = "append"
    /\ IF "transitions" \in torn
       THEN Exit /\ UNCHANGED transitions
       ELSE /\ transitions' = IF Has(transitions, journal.id) THEN transitions
                              ELSE Append(transitions, journal.appends[1])
            /\ pc' = "complete" /\ UNCHANGED <<mode, journal>>
    /\ UNCHANGED <<backlog, current, resume, transactions, pending, torn,
                   issued, crashes>>

\* Variant: a recovery records that it recovered, whatever is on record.
CompleteAgain ==
    /\ pc = "complete"
    /\ IF "transactions" \in torn
       THEN Exit /\ UNCHANGED transactions
       ELSE /\ transactions' =
                 Append(transactions,
                        [id |-> journal.id,
                         status |-> IF mode = "recover" THEN "recovered" ELSE "completed"])
            /\ pc' = "unlink" /\ UNCHANGED <<mode, journal>>
    /\ UNCHANGED <<backlog, current, resume, transitions, pending, torn,
                   issued, crashes>>

Complete ==
    /\ pc = "complete"
    /\ IF "transactions" \in torn
       THEN Exit /\ UNCHANGED transactions
       ELSE /\ transactions' =
                 IF Has(transactions, journal.id) THEN transactions
                 ELSE Append(transactions,
                             [id |-> journal.id,
                              status |-> IF mode = "recover" THEN "recovered"
                                         ELSE "completed"])
            /\ pc' = "unlink" /\ UNCHANGED <<mode, journal>>
    /\ UNCHANGED <<backlog, current, resume, transitions, pending, torn,
                   issued, crashes>>

UnlinkPending ==
    /\ pc = "unlink"
    /\ pending' = NoJournal
    /\ pc' = "check"
    /\ UNCHANGED <<backlog, current, resume, transitions, transactions, torn,
                   mode, journal, issued, crashes>>

\* The closing validate; whether it passes changes nothing durable.
FinalCheck ==
    /\ pc = "check"
    /\ Exit
    /\ UNCHANGED <<files, issued, crashes>>

\* The file an interrupted append leaves torn, when appends can tear and the
\* record is not there yet.
MayTear ==
    CASE pc = "append" /\ ~Has(transitions, journal.id) -> {{}, {"transitions"}}
      [] pc = "complete" /\ ~Has(transactions, journal.id) -> {{}, {"transactions"}}
      [] OTHER -> {{}}

Crash ==
    /\ pc # "free" /\ crashes < MaxCrashes
    /\ crashes' = crashes + 1
    /\ \E tear \in IF TornAppends THEN MayTear ELSE {{}} : torn' = torn \cup tear
    /\ Exit
    /\ UNCHANGED <<backlog, current, resume, transitions, transactions, pending,
                   issued>>

Command ==
    \/ Refuse
    \/ \E new \in ROOT_STATES : Transition(new)
    \/ \E t \in Tasks, status \in TASK_STATUSES : UpdateTask(t, status)
    \/ Prepare \/ Recover
    \/ WriteBacklog \/ WriteCurrent \/ WriteResume
    \/ AppendTransition \/ Complete \/ UnlinkPending \/ FinalCheck

Next == Acquire \/ Command \/ Crash

Spec == Init /\ [][Next]_vars

\* A command that holds the lease keeps running unless it crashes, and an
\* operator who finds a pending transaction runs `recover` (the action
\* docs/KERNEL_OPERATIONS.md prescribes): only that command is promised.
StartRecovery == Acquire /\ mode' = "recover" /\ pending # NoJournal

FairSpec == Spec /\ WF_vars(Command) /\ SF_vars(StartRecovery)

-----------------------------------------------------------------------------
(* What the store promises.                                                 *)

Steps == {"free", "begin", "prepare", "backlog", "current", "resume", "append",
          "complete", "unlink", "check"}

TypeOK ==
    /\ backlog \in Backlogs /\ current \in Currents /\ resume \in Resumes
    /\ transitions \in Seq(Records)
    /\ transactions \in Seq([id : Nat, status : {"completed", "recovered"}])
    /\ pending \in Transfers \cup {NoJournal}
    /\ journal \in Transfers \cup {NoJournal}
    /\ torn \subseteq {"transitions", "transactions"}
    /\ pc \in Steps
    /\ mode \in {"none", "transition", "task", "recover"}
    /\ issued \in Nat /\ crashes \in Nat

\* A history: each record follows from the one before it by an allowed
\* transition, and ids are never reused.
IsHistory(log) ==
    /\ \A i \in 1..Len(log) : log[i].new \in TRANSITIONS[log[i].previous]
    /\ \A i \in 1..(Len(log) - 1) : log[i].new = log[i + 1].previous
    /\ \A i, j \in 1..Len(log) : i < j => log[i].id < log[j].id

\* The journal of transitions is one unbroken walk of the TRANSITIONS table
\* whatever crashes and recoveries happened: no record is missing, repeated
\* or written from a half-applied state (_append_jsonl_once, validate).
TransitionChain == IsHistory(transitions)

\* The documents agree with each other and with the last journaled transition.
Agree(b, c, r, log) ==
    /\ r.root_state = c.root_state
    /\ log # <<>> => /\ c.root_state = log[Len(log)].new
                     /\ r.last_transition_id = log[Len(log)].id
    /\ c.next_task_id = NextFromItems(b)
    /\ r.next_task_id = NextFromItems(b)
    /\ r.active_task_ids = InProgress(b)

\* Whenever no transaction is pending, current state, resume checkpoint,
\* backlog and transition journal agree: a session that resumes from
\* resume.json continues the state it was left in.
SettledAgree == pending = NoJournal => Agree(backlog, current, resume, transitions)

\* Every transaction is recorded as complete at most once, and a transition
\* is in the journal only if its transaction completed or is still pending.
ExactlyOnce ==
    /\ \A i, j \in 1..Len(transactions) :
          transactions[i].id = transactions[j].id => i = j
    /\ \A i \in 1..Len(transitions) :
          Has(transactions, transitions[i].id) \/ transitions[i].id = pending.id

\* Both: the two logs can be read as one history in which nothing is repeated
\* or left out, however often an interrupted transaction is rolled forward.
LogsAreSound == TransitionChain /\ ExactlyOnce

\* A prepared transaction is eventually rolled forward and cleared
\* (recover_pending: "Idempotently roll a prepared state transaction forward
\* after interruption").
RecoveryCompletes == pending # NoJournal ~> pending = NoJournal

-----------------------------------------------------------------------------
(* The atomic kernel behind the files: a prepared journal is the truth.     *)

ViewBacklog == IF pending = NoJournal THEN backlog ELSE pending.backlog
ViewCurrent == IF pending = NoJournal THEN current ELSE pending.current
ViewResume == IF pending = NoJournal THEN resume ELSE pending.resume
ViewHistory ==
    IF pending = NoJournal THEN transitions
    ELSE IF pending.appends = <<>> \/ Has(transitions, pending.id) THEN transitions
    ELSE Append(transitions, pending.appends[1])

Kernel == INSTANCE AtomicKernel WITH
    Ids <- 1..MaxTransactions,
    NextFrom <- NextFromItems,
    root <- ViewCurrent.root_state,
    status <- ViewBacklog,
    next <- ViewResume.next_task_id,
    active <- ViewResume.active_task_ids,
    history <- ViewHistory

\* Transition and UpdateTask take effect at once and exactly once, in every
\* file, at the moment the journal is prepared.
AtomicSpec == Kernel!Spec
=============================================================================
