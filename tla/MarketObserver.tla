--------------------------- MODULE MarketObserver ---------------------------
(***************************************************************************)
(* The recurring public market observer (autonomous_kernel/                 *)
(* market_observer.py and observer_storage.py, driven by the guarded tick   *)
(* of experiments/market_observer.py).  A supervisor starts ticks again and *)
(* again, possibly more than once at a time; a filesystem lease is to keep  *)
(* capture windows apart.  A tick checks the storage bound, recovers the    *)
(* window an earlier process left active, decides whether it is due,        *)
(* preregisters a window, announces it in state/market_observer.json,       *)
(* captures, audits, records the outcome and, after releasing the lease,    *)
(* removes the raw journal of a captured window.  Each file operation is a  *)
(* step.                                                                    *)
(*                                                                          *)
(* A window is named by the time it starts at, as window_id is by its       *)
(* stamp.  The capture itself, websockets included, is one of two outcomes. *)
(***************************************************************************)
EXTENDS Integers, Sequences, FiniteSets

CONSTANTS
    Observers,      \* processes that run run_observer_once
    None,
    LeaseTimeout,   \* lease_timeout_seconds
    RunTime,        \* capture_seconds + message_idle_timeout_seconds
    Separation,     \* minimum_window_separation_seconds
    Cadence,        \* cadence_seconds
    DegradedAfter,  \* maximum_consecutive_failures_before_degraded
    MaxHistory,     \* maximum_window_history
    MaxStorage,     \* maximum_observer_storage_bytes, in files of a window
    MaxTime,        \* bound on the clock
    MaxInterruptions \* bound on the crashes and cancellations of a behaviour

\* ObserverConfig.load: numeric bounds are positive, and the lease outlives
\* what it covers.
ASSUME ConfigLoaded ==
    /\ {LeaseTimeout, RunTime, Separation, Cadence, DegradedAfter, MaxHistory, MaxStorage}
         \subseteq Nat \ {0}
    /\ LeaseTimeout > RunTime
ASSUME BoundsAreNatural == MaxTime \in Nat /\ MaxInterruptions \in Nat
ASSUME NoneIsNoTime == None \notin Int

VARIABLES
    now,        \* the clock
    lock,       \* observer.lock: its owner and acquired_at, or None
    file,       \* state/market_observer.json
    preregistered, \* windows with a frozen preregistration
    audit,      \* the outcome of each window's audit, or None
    journals,   \* windows whose raw stream journal is on disk
    step,       \* where each process is in run_observer_once
    started,    \* the time its run started at
    tries,      \* which attempt at the lease this is
    state,      \* the state it loaded and works on
    captured,   \* whether its run ended with CAPTURED
    interruptions

evidence == <<preregistered, audit, journals>>
locals == <<started, tries, state, captured>>
observerVars == <<now, lock, file, evidence, step, locals, interruptions>>

Times == 0..MaxTime
Unwritten == -1     \* acquired_at of a lock whose payload is not there yet

IdleState ==
    [status |-> "IDLE", active |-> None, last_success |-> None, next_eligible |-> None,
     consecutive_failures |-> 0, windows |-> <<>>, failures |-> <<>>,
     storage_guard |-> FALSE]

ObserverInit ==
    /\ now = 0 /\ lock = None /\ file = IdleState
    /\ preregistered = {} /\ audit = [t \in Times |-> None] /\ journals = {}
    /\ step = [o \in Observers |-> "idle"]
    /\ started = [o \in Observers |-> 0]
    /\ tries = [o \in Observers |-> 0]
    /\ state = [o \in Observers |-> IdleState]
    /\ captured = [o \in Observers |-> FALSE]
    /\ interruptions = 0

GoTo(o, at) == step' = [step EXCEPT ![o] = at]

\* The tick ends: a BUSY answer, a result, an exception or a crash.
End(o) ==
    /\ GoTo(o, "idle")
    /\ started' = [started EXCEPT ![o] = 0]
    /\ tries' = [tries EXCEPT ![o] = 0]
    /\ state' = [state EXCEPT ![o] = IdleState]
    /\ captured' = [captured EXCEPT ![o] = FALSE]

\* history[-maximum_window_history:]
Latest(history) ==
    SubSeq(history, IF Len(history) > MaxHistory THEN Len(history) - MaxHistory + 1 ELSE 1,
           Len(history))

-----------------------------------------------------------------------------
(* The storage guard, which asks for no lease.                              *)

\* What observer_storage_status adds up: a window keeps its preregistration
\* and bundle for good, and its raw journal until it is compacted.
Used == Cardinality(preregistered) + Cardinality(journals)

Begin(o) ==
    /\ step[o] = "idle" /\ Used < MaxStorage
    /\ started' = [started EXCEPT ![o] = now]
    /\ tries' = [tries EXCEPT ![o] = 1]
    /\ GoTo(o, "open")
    /\ UNCHANGED <<now, lock, file, evidence, state, captured, interruptions>>

\* persist_storage_block: the state file is read and, a step later, written
\* back as DEGRADED.
StorageBlocked(o) ==
    /\ step[o] = "idle" /\ Used >= MaxStorage
    /\ started' = [started EXCEPT ![o] = now]
    /\ state' = [state EXCEPT ![o] = file]
    /\ GoTo(o, "block")
    /\ UNCHANGED <<now, lock, file, evidence, tries, captured, interruptions>>

PersistBlock(o) ==
    /\ step[o] = "block"
    /\ file' = [state[o] EXCEPT !.status = "DEGRADED", !.storage_guard = TRUE]
    /\ End(o)
    /\ UNCHANGED <<now, lock, evidence, interruptions>>

-----------------------------------------------------------------------------
(* ObserverLease.                                                           *)

\* O_CREAT | O_EXCL; the payload follows.
Open(o) ==
    /\ step[o] = "open"
    /\ IF lock = None
       THEN lock' = [owner |-> o, acquired_at |-> Unwritten] /\ GoTo(o, "write")
       ELSE UNCHANGED lock /\ GoTo(o, "examine")
    /\ UNCHANGED <<now, file, evidence, locals, interruptions>>

\* The descriptor follows the file: if it was moved aside, so is the payload.
WriteLock(o) ==
    /\ step[o] = "write"
    /\ lock' = IF lock = [owner |-> o, acquired_at |-> Unwritten]
               THEN [lock EXCEPT !.acquired_at = started[o]] ELSE lock
    /\ GoTo(o, "load")
    /\ UNCHANGED <<now, file, evidence, locals, interruptions>>

\* A lock that is gone, unreadable or too old counts as stale.
Stale(o) ==
    \/ lock = None
    \/ lock.acquired_at = Unwritten
    \/ started[o] - lock.acquired_at > LeaseTimeout

Examine(o) ==
    /\ step[o] = "examine"
    /\ IF Stale(o) THEN GoTo(o, "move_aside") /\ UNCHANGED locals ELSE End(o)
    /\ UNCHANGED <<now, lock, file, evidence, interruptions>>

\* os.replace takes whatever lock is there by now; after the second attempt
\* ObserverBusyError.
MoveAside(o) ==
    /\ step[o] = "move_aside"
    /\ lock' = None
    /\ IF tries[o] = 1
       THEN GoTo(o, "open") /\ tries' = [tries EXCEPT ![o] = 2]
            /\ UNCHANGED <<started, state, captured>>
       ELSE End(o)
    /\ UNCHANGED <<now, file, evidence, interruptions>>

\* After the run: only a captured window is handed on.
Released(o) == IF captured[o] THEN GoTo(o, "compact") /\ UNCHANGED locals ELSE End(o)

\* release: the token is compared, then the file unlinked.
CheckToken(o) ==
    /\ step[o] = "release"
    /\ IF lock = [owner |-> o, acquired_at |-> started[o]]
       THEN GoTo(o, "unlink") /\ UNCHANGED locals
       ELSE Released(o)
    /\ UNCHANGED <<now, lock, file, evidence, interruptions>>

Unlink(o) ==
    /\ step[o] = "unlink"
    /\ lock' = None
    /\ Released(o)
    /\ UNCHANGED <<now, file, evidence, interruptions>>

-----------------------------------------------------------------------------
(* run_observer_once, between acquire and release.                          *)

\* _recover_interrupted_window.
Recovered(s) ==
    IF s.active = None THEN s
    ELSE [s EXCEPT !.failures = Append(@, s.active), !.active = None,
                   !.consecutive_failures = @ + 1, !.status = "DEGRADED"]

\* _due.
Due(s, t) ==
    IF s.next_eligible # None THEN t >= s.next_eligible
    ELSE s.last_success = None \/ t - s.last_success >= Separation

Load(o) ==
    LET s == Recovered(file) IN
    /\ step[o] = "load"
    /\ IF Due(s, started[o])
       THEN state' = [state EXCEPT ![o] = s] /\ GoTo(o, "preregister")
       ELSE /\ state' = [state EXCEPT ![o] =
                  [s EXCEPT !.status = IF @ = "DEGRADED" THEN @ ELSE "IDLE"]]
            /\ GoTo(o, "not_due")
    /\ UNCHANGED <<now, lock, file, evidence, started, tries, captured, interruptions>>

PersistNotDue(o) ==
    /\ step[o] = "not_due"
    /\ file' = state[o]
    /\ GoTo(o, "release")
    /\ UNCHANGED <<now, lock, evidence, locals, interruptions>>

\* Variant: an identity that is already preregistered is captured again.
PreregisterAgain(o) ==
    LET t == started[o] IN
    /\ step[o] = "preregister"
    /\ preregistered' = preregistered \cup {t}
    /\ state' = [state EXCEPT ![o].status = "CAPTURING", ![o].active = t]
    /\ GoTo(o, "announce")
    /\ UNCHANGED <<now, lock, file, audit, journals, started, tries, captured, interruptions>>

\* An identity that is already preregistered raises, and the run is over.
Preregister(o) ==
    LET t == started[o] IN
    /\ step[o] = "preregister"
    /\ IF t \in preregistered
       THEN GoTo(o, "release") /\ UNCHANGED <<preregistered, state>>
       ELSE /\ preregistered' = preregistered \cup {t}
            /\ state' = [state EXCEPT ![o].status = "CAPTURING", ![o].active = t]
            /\ GoTo(o, "announce")
    /\ UNCHANGED <<now, lock, file, audit, journals, started, tries, captured, interruptions>>

Announce(o) ==
    /\ step[o] = "announce"
    /\ file' = state[o]
    /\ GoTo(o, "open_journal")
    /\ UNCHANGED <<now, lock, evidence, locals, interruptions>>

\* The first message accepted creates runtime/market_stream/<id>.jsonl.
OpenJournal(o) ==
    /\ step[o] = "open_journal"
    /\ journals' = journals \cup {started[o]}
    /\ GoTo(o, "capture")
    /\ UNCHANGED <<now, lock, file, preregistered, audit, locals, interruptions>>

\* The capture succeeds, or raises: no connection, idle timeout, byte bound,
\* sequence gap, missing evidence, provider error.
Capture(o) ==
    /\ \/ step[o] = "capture" /\ GoTo(o, "audit_valid")
       \/ step[o] \in {"open_journal", "capture"} /\ GoTo(o, "record_failure")
    /\ UNCHANGED <<now, lock, file, evidence, locals, interruptions>>

AuditValid(o) ==
    /\ step[o] = "audit_valid"
    /\ audit' = [audit EXCEPT ![started[o]] = "VALID"]
    /\ GoTo(o, "record_success")
    /\ UNCHANGED <<now, lock, file, preregistered, journals, locals, interruptions>>

RecordSuccess(o) ==
    /\ step[o] = "record_success"
    /\ file' = [state[o] EXCEPT
          !.windows = Latest(Append(@, started[o])), !.failures = Latest(@),
          !.status = "IDLE", !.active = None, !.last_success = now,
          !.next_eligible = started[o] + Separation, !.consecutive_failures = 0]
    /\ captured' = [captured EXCEPT ![o] = TRUE]
    /\ GoTo(o, "release")
    /\ UNCHANGED <<now, lock, evidence, started, tries, state, interruptions>>

RecordFailure(o) ==
    LET n == state[o].consecutive_failures + 1 IN
    /\ step[o] = "record_failure"
    /\ file' = [state[o] EXCEPT
          !.failures = Latest(Append(@, started[o])), !.active = None,
          !.consecutive_failures = n,
          !.status = IF n >= DegradedAfter THEN "DEGRADED" ELSE "IDLE",
          !.next_eligible = started[o] + Cadence]
    /\ GoTo(o, "audit_rejected")
    /\ UNCHANGED <<now, lock, evidence, locals, interruptions>>

AuditRejected(o) ==
    /\ step[o] = "audit_rejected"
    /\ audit' = [audit EXCEPT ![started[o]] = "REJECTED"]
    /\ GoTo(o, "release")
    /\ UNCHANGED <<now, lock, file, preregistered, journals, locals, interruptions>>

-----------------------------------------------------------------------------
(* After the lease.                                                         *)

\* compact_successful_raw_journal: the raw journal of a window that is still
\* in the history and whose audit is valid.
Compact(o) ==
    LET t == started[o]
        redundant == t \in {file.windows[i] : i \in DOMAIN file.windows} /\ audit[t] = "VALID"
    IN
    /\ step[o] = "compact"
    /\ journals' = IF redundant THEN journals \ {t} ELSE journals
    /\ End(o)
    /\ UNCHANGED <<now, lock, file, preregistered, audit, interruptions>>

-----------------------------------------------------------------------------
(* The world.                                                               *)

\* A process dies, with its lock and its active window left behind.
Dies(o) ==
    /\ step[o] # "idle" /\ interruptions < MaxInterruptions
    /\ interruptions' = interruptions + 1
    /\ End(o)
    /\ UNCHANGED <<now, lock, file, evidence>>

\* The run is cancelled while it captures (CancelledError, KeyboardInterrupt
\* are not Exceptions): nothing is recorded, but finally releases the lease.
Cancel(o) ==
    /\ step[o] \in {"open_journal", "capture"} /\ interruptions < MaxInterruptions
    /\ interruptions' = interruptions + 1
    /\ GoTo(o, "release")
    /\ UNCHANGED <<now, lock, file, evidence, locals>>

\* Time passes, but no run outlasts its capture and idle timeouts.
Tick ==
    /\ now < MaxTime
    /\ \A o \in Observers : step[o] # "idle" => now - started[o] < RunTime
    /\ now' = now + 1
    /\ UNCHANGED <<lock, file, evidence, step, locals, interruptions>>

ObserverNext ==
    \/ \E o \in Observers :
          \/ Begin(o) \/ StorageBlocked(o) \/ PersistBlock(o)
          \/ Open(o) \/ WriteLock(o) \/ Examine(o) \/ MoveAside(o)
          \/ Load(o) \/ PersistNotDue(o) \/ Preregister(o) \/ Announce(o)
          \/ OpenJournal(o) \/ Capture(o) \/ AuditValid(o) \/ RecordSuccess(o)
          \/ RecordFailure(o) \/ AuditRejected(o)
          \/ CheckToken(o) \/ Unlink(o) \/ Compact(o) \/ Dies(o) \/ Cancel(o)
    \/ Tick

ObserverSpec == ObserverInit /\ [][ObserverNext]_observerVars

-----------------------------------------------------------------------------
(* What the observer promises.                                              *)

OptionalTimes == Times \cup {None}
StateFiles ==
    [status : {"IDLE", "CAPTURING", "DEGRADED"}, active : OptionalTimes,
     last_success : OptionalTimes,
     next_eligible : 0..(MaxTime + Separation + Cadence) \cup {None},
     consecutive_failures : Nat, windows : Seq(Times), failures : Seq(Times),
     storage_guard : BOOLEAN]

ObserverTypeOK ==
    /\ now \in Times
    /\ lock \in [owner : Observers, acquired_at : Times \cup {Unwritten}] \cup {None}
    /\ file \in StateFiles
    /\ preregistered \subseteq Times
    /\ audit \in [Times -> {"VALID", "REJECTED", None}]
    /\ journals \subseteq preregistered
    /\ step \in [Observers -> {"idle", "block", "open", "write", "examine", "move_aside",
                             "load", "not_due", "preregister", "announce", "open_journal",
                             "capture", "audit_valid", "record_success", "record_failure",
                             "audit_rejected", "release", "unlink", "compact"}]
    /\ started \in [Observers -> Times]
    /\ tries \in [Observers -> 0..2]
    /\ state \in [Observers -> StateFiles]
    /\ captured \in [Observers -> BOOLEAN]
    /\ interruptions \in 0..MaxInterruptions

Elements(history) == {history[i] : i \in DOMAIN history}
Recorded(s) == Elements(s.windows) \cup Elements(s.failures)

\* A window ends once.  Interrupted, retried or captured, it stands in the
\* history at most once, and never while it is still active.
OneOutcomePerWindow ==
    /\ Cardinality(Recorded(file)) = Len(file.windows) + Len(file.failures)
    /\ file.active \notin Recorded(file)

\* "interrupted windows are preserved as failed evidence and are never
\* silently reused": an announced window leaves the state file only into its
\* history, whoever crashes.
ActiveWindowIsRecorded ==
    [][file.active # None /\ file'.active # file.active => file.active \in Recorded(file')]_file

\* A window in the history of successes has its audit on disk, and the audit
\* says so.
SuccessIsAudited ==
    \A t \in Elements(file.windows) : audit[t] = "VALID"

\* Windows are separated: none is preregistered sooner than the minimum
\* separation after the start of a successful one, through failures, crashes
\* and recoveries.
WindowsSeparated ==
    \A t \in Elements(file.windows), p \in preregistered : p > t => p >= t + Separation

\* An observer that reports IDLE is below its failure threshold, and one that
\* reports DEGRADED has failed since its last success or met its storage bound,
\* although the status has five writers.
StatusMatchesFailures ==
    /\ file.status = "IDLE" => file.consecutive_failures < DegradedAfter
    /\ file.status = "DEGRADED" => file.consecutive_failures > 0 \/ file.storage_guard

\* The storage bound stops new windows: an observer overshoots it by no more
\* than the files of the window it had already been let in for, whatever runs
\* were interrupted before.
StorageBounded == Used < MaxStorage + 2 * Cardinality(Observers)

\* maximum_window_history bounds the state file.  Recovery appends without
\* trimming, so every run in a row that is cut short adds a failure; the next
\* recorded outcome trims them.
HistoryBounded ==
    /\ Len(file.windows) <= MaxHistory
    /\ Len(file.failures) <= MaxHistory + interruptions

\* What the supervisor relies on between ticks, wherever a run was cut short:
\* every window has one outcome and a success its audit, the schedule and the
\* status follow from the outcomes, history and storage stay bounded, and no
\* announced window is ever forgotten.
ObserverStateSound ==
    /\ [](OneOutcomePerWindow /\ SuccessIsAudited /\ WindowsSeparated)
    /\ [](StatusMatchesFailures /\ StorageBounded /\ HistoryBounded)
    /\ ActiveWindowIsRecorded
=============================================================================
