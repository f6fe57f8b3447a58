---------------------------- MODULE AtomicKernel ----------------------------
(***************************************************************************)
(* What the durable state store promises its users: every transition and    *)
(* every task update takes effect at once, in full, across all the files,   *)
(* exactly once, and the log of transitions is the history of the root      *)
(* state.  Crashes and recovery do not show.                                *)
(***************************************************************************)
EXTENDS Sequences, RootStates

CONSTANTS
    Tasks,
    Ids,            \* transition ids
    NextFrom(_)     \* the next task for given statuses

VARIABLES
    root,       \* the root agent's operating state
    status,     \* the status of every backlog task
    next,       \* the task the resume checkpoint points at
    active,     \* the tasks the checkpoint lists as in progress
    history     \* the transitions taken, oldest first

vars == <<root, status, next, active, history>>

InProgress(b) == {t \in Tasks : b[t] = "in_progress"}

Init ==
    /\ root \in ROOT_STATES
    /\ status \in [Tasks -> TASK_STATUSES]
    /\ next = NextFrom(status)
    /\ active = InProgress(status)
    /\ history = <<>>

Transition(to) ==
    /\ to \in TRANSITIONS[root]
    /\ root' = to
    /\ \E id \in Ids : history' =
           Append(history, [id |-> id, previous |-> root, new |-> to])
    /\ UNCHANGED <<status, next, active>>

UpdateTask(t, s) ==
    /\ status' = [status EXCEPT ![t] = s]
    /\ next' = NextFrom(status')
    /\ active' = InProgress(status')
    /\ UNCHANGED <<root, history>>

Next ==
    \/ \E to \in ROOT_STATES : Transition(to)
    \/ \E t \in Tasks, s \in TASK_STATUSES : UpdateTask(t, s)

Spec == Init /\ [][Next]_vars
=============================================================================
