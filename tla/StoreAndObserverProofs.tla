----------------------- MODULE StoreAndObserverProofs -----------------------
(***************************************************************************)
(* Proofs about three programs that keep what they decide in files, and     *)
(* that may die between two of them.                                        *)
(*                                                                          *)
(* StateStore, for every set of tasks, every bound and both kinds of        *)
(* append.  The inductive invariant IInv reads the store through its        *)
(* pending journal.  The files alone are inconsistent in the middle of a    *)
(* transaction; the view (the journal's documents while one is pending, the *)
(* files otherwise) never is, and each write only moves the files towards   *)
(* it, which is why rolling forward from any crash point is safe.           *)
(*                                                                          *)
(* MarketObserver, for one supervised process and every configuration it    *)
(* accepts.  ObserverInductive says of the state file that every window in  *)
(* it is preregistered, stands in it once and keeps the next one away, and  *)
(* of the run what it has read and done by the step it is at; the state it  *)
(* works on is the one on disk, since nobody else writes it.                *)
(*                                                                          *)
(* BenjaminGate, for any clients, dossiers and policy.  It checks without a *)
(* lease and appends under one, and a client may die between its verdict    *)
(* and its handoff.  A handoff is earned all the same because the journal   *)
(* only grows and a dossier does not change: what a client that is underway *)
(* looked up stays true (Underway).  That there is one verdict and one      *)
(* handoff per identity rests on clients that do not overlap, for then what *)
(* a client missed stays missing until it writes it (Alone).                *)
(***************************************************************************)
EXTENDS StateStore, MarketObserver, BenjaminGate, FiniteSetTheorems, SequenceTheorems, WellFoundedInduction, TLAPS

\* The view is consistent and its transitions form one history.
ViewInv ==
    /\ Agree(ViewBacklog, ViewCurrent, ViewResume, ViewHistory)
    /\ IsHistory(ViewHistory)
    /\ \A i \in 1..Len(ViewHistory) : ViewHistory[i].id \in 1..issued

\* A pending journal is complete, and a transition's leaves the backlog alone.
PendingInv ==
    pending # NoJournal =>
        /\ pending \in Transfers
        /\ pending.id \in 1..issued
        /\ pending.appends # <<>> =>
              /\ pending.appends = <<pending.appends[1]>>
              /\ pending.appends[1].id = pending.id
              /\ backlog = pending.backlog

\* What transition() and update_task() build from the files they read.
TransitionJournal ==
    /\ journal.backlog = backlog
    /\ journal.current = [current EXCEPT !.root_state = journal.current.root_state]
    /\ journal.current.root_state \in TRANSITIONS[current.root_state]
    /\ journal.resume =
          [resume EXCEPT !.root_state = journal.current.root_state,
                         !.last_transition_id = issued]
    /\ journal.appends = <<[id |-> issued, previous |-> current.root_state,
                            new |-> journal.current.root_state]>>

TaskJournal ==
    /\ \E t \in Tasks, s \in TASK_STATUSES : journal.backlog = [backlog EXCEPT ![t] = s]
    /\ journal.current =
          [current EXCEPT !.next_task_id = NextFromItems(journal.backlog)]
    /\ journal.resume =
          [resume EXCEPT !.next_task_id = NextFromItems(journal.backlog),
                         !.active_task_ids = InProgress(journal.backlog)]
    /\ journal.appends = <<>>

PreparedInv ==
    pc = "prepare" =>
        /\ pending = NoJournal
        /\ journal \in Transfers
        /\ journal.id = issued /\ issued \in 1..MaxTransactions
        /\ \A i \in 1..Len(transitions) : transitions[i].id < issued
        /\ TransitionJournal \/ TaskJournal

\* How far the command in flight has brought the files.
ProgressInv ==
    /\ pc \in {"backlog", "current", "resume", "append", "complete", "unlink"} =>
          pending # NoJournal /\ journal = pending
    /\ pc \in {"current", "resume", "append", "complete", "unlink"} =>
          backlog = pending.backlog
    /\ pc \in {"resume", "append", "complete", "unlink"} => current = pending.current
    /\ pc \in {"append", "complete", "unlink"} => resume = pending.resume
    /\ pc = "append" => pending.appends # <<>>
    /\ pc \in {"complete", "unlink"} =>
          pending.appends = <<>> \/ Has(transitions, pending.id)
    /\ pc = "unlink" => Has(transactions, pending.id)
    /\ pc = "check" => pending = NoJournal

IInv == TypeOK /\ ViewInv /\ PendingInv /\ PreparedInv /\ ProgressInv /\ ExactlyOnce

-----------------------------------------------------------------------------

\* _next_from_items returns a task of the backlog or None.
LEMMA NextFromItemsType ==
    ASSUME NEW b PROVE NextFromItems(b) \in Tasks \cup {NoTask}
<1> DEFINE best == {t \in Eligible(b) : \A u \in Eligible(b) \ {t} : Outranks(t, u)}
<1>1. CASE best = {}
  BY <1>1 DEF NextFromItems
<1>2. CASE best # {}
  <2>1. (CHOOSE t \in best : TRUE) \in best
    BY <1>2
  <2>2. best \subseteq Tasks
    BY DEF Eligible
  <2> QED BY <1>2, <2>1, <2>2 DEF NextFromItems
<1> QED BY <1>1, <1>2

\* Appending an allowed next record to a history gives a history.
LEMMA AppendHistory ==
    ASSUME NEW log \in Seq(Records), IsHistory(log), NEW r \in Records,
           r.new \in TRANSITIONS[r.previous],
           log # <<>> => log[Len(log)].new = r.previous,
           \A i \in 1..Len(log) : log[i].id < r.id
    PROVE  IsHistory(Append(log, r))
<1> DEFINE new == Append(log, r)
<1>1. /\ Len(new) = Len(log) + 1 /\ Len(log) \in Nat
      /\ \A i \in 1..Len(log) : new[i] = log[i]
      /\ new[Len(log) + 1] = r
  OBVIOUS
<1>2. \A i \in 1..Len(new) : new[i].new \in TRANSITIONS[new[i].previous]
  <2> TAKE i \in 1..Len(new)
  <2>1. CASE i \in 1..Len(log)
    BY <1>1, <2>1 DEF IsHistory
  <2>2. CASE i = Len(log) + 1
    BY <1>1, <2>2
  <2> QED BY <1>1, <2>1, <2>2
<1>3. \A i \in 1..(Len(new) - 1) : new[i].new = new[i + 1].previous
  <2> TAKE i \in 1..(Len(new) - 1)
  <2>1. CASE i + 1 \in 1..Len(log)
    BY <1>1, <2>1 DEF IsHistory
  <2>2. CASE i = Len(log)
    BY <1>1, <2>2
  <2> QED BY <1>1, <2>1, <2>2
<1>4. \A i, j \in 1..Len(new) : i < j => new[i].id < new[j].id
  BY <1>1 DEF IsHistory
<1> QED BY <1>2, <1>3, <1>4 DEF IsHistory

\* The initial store is consistent.
LEMMA InitIInv == Init => IInv
<1> SUFFICES ASSUME Init PROVE IInv
  OBVIOUS
<1>1. TypeOK
  BY NextFromItemsType DEF Init, TypeOK, Currents, Resumes, Steps, InProgress, NoTask, Records
<1>2. ViewInv
  BY DEF Init, ViewInv, ViewBacklog, ViewCurrent, ViewResume, ViewHistory, Agree, IsHistory
<1>3. PendingInv /\ PreparedInv /\ ProgressInv
  BY DEF Init, PendingInv, PreparedInv, ProgressInv
<1>4. ExactlyOnce
  BY DEF Init, ExactlyOnce
<1> QED BY <1>1, <1>2, <1>3, <1>4 DEF IInv

-----------------------------------------------------------------------------
(* Steps that leave the files alone: the view is the same before and after. *)

SameView ==
    /\ ViewBacklog' = ViewBacklog /\ ViewCurrent' = ViewCurrent
    /\ ViewResume' = ViewResume /\ ViewHistory' = ViewHistory

LEMMA SameFilesSameView ==
    ASSUME UNCHANGED files PROVE SameView
BY DEF SameView, files, ViewBacklog, ViewCurrent, ViewResume, ViewHistory, Has

\* A step that leaves the files and the ids alone, and is not one that starts
\* or continues a transaction, preserves the invariant.
LEMMA IdleStep ==
    ASSUME IInv, UNCHANGED <<files, issued>>,
           pc' \in {"free", "begin"},
           mode' \in {"none", "transition", "task", "recover"},
           journal' \in Transfers \cup {NoJournal},
           crashes' \in Nat
    PROVE  IInv'
<1> USE DEF IInv
<1>1. TypeOK'
  BY DEF TypeOK, files, Steps
<1>2. ViewInv'
  BY SameFilesSameView DEF SameView, ViewInv, files, Agree, IsHistory
<1>3. PendingInv'
  BY DEF PendingInv, files
<1>4. PreparedInv' /\ ProgressInv'
  BY DEF PreparedInv, ProgressInv, files
<1>5. ExactlyOnce'
  BY DEF ExactlyOnce, files, Has
<1> QED BY <1>1, <1>2, <1>3, <1>4, <1>5

LEMMA TransitionStep ==
    ASSUME IInv, NEW new \in ROOT_STATES, Transition(new) PROVE IInv'
<1> USE DEF IInv
<1> DEFINE r == [id |-> issued', previous |-> current.root_state, new |-> new]
<1>1. issued \in Nat /\ issued' = issued + 1 /\ issued' \in 1..MaxTransactions
  BY BoundsAssumption DEF Transition, TypeOK
<1>2. pending = NoJournal /\ pending' = NoJournal
  BY DEF Transition, Valid, files
<1>2a. ViewHistory = transitions /\ \A i \in 1..Len(transitions) : transitions[i].id \in Nat
  <2>1. \A i \in 1..Len(transitions) : transitions[i] \in Records
    BY DEF TypeOK
  <2>2. \A r1 \in Records : r1.id \in Nat
    BY DEF Records
  <2>3. ViewHistory = transitions
    BY <1>2 DEF ViewHistory
  <2> QED BY <2>1, <2>2, <2>3
<1>2b. \A i \in 1..Len(transitions) : transitions[i].id \in 1..issued
  BY <1>2a DEF ViewInv
<1>3. r \in Records /\ <<r>> \in Seq(Records) /\ <<r>> # <<>>
  BY <1>1 DEF TypeOK, Currents, Records
<1>4. journal' \in Transfers
  <2>1. [current EXCEPT !.root_state = new] \in Currents
    BY DEF TypeOK, Currents
  <2>2. [resume EXCEPT !.root_state = new, !.last_transition_id = issued'] \in Resumes
    <3> DEFINE k == issued'
    <3>1. k \in Nat
      BY <1>1
    <3> HIDE DEF k
    <3>2. [resume EXCEPT !.root_state = new, !.last_transition_id = k] \in Resumes
      BY <3>1 DEF TypeOK, Resumes
    <3> QED BY <3>2 DEF k
  <2> QED BY <1>1, <1>3, <2>1, <2>2 DEF Transition, TypeOK, Transfers
<1>5. TypeOK'
  BY <1>1, <1>4 DEF Transition, TypeOK, files, Steps
<1>6. ViewInv'
  <2>1. ViewBacklog' = ViewBacklog /\ ViewCurrent' = ViewCurrent
        /\ ViewResume' = ViewResume /\ ViewHistory' = ViewHistory
    BY SameFilesSameView DEF SameView, Transition
  <2>2. \A i \in 1..Len(ViewHistory) : ViewHistory[i].id \in 1..issued'
    BY <1>1, <1>2a, <1>2b
  <2> QED BY <2>1, <2>2 DEF ViewInv, Agree, IsHistory
<1>7. PendingInv'
  BY <1>2 DEF PendingInv
<1>8. PreparedInv'
  <2>1. \A i \in 1..Len(transitions) : transitions[i].id < issued'
    BY <1>1, <1>2a, <1>2b
  <2>2. TransitionJournal'
    BY <1>1 DEF Transition, TransitionJournal, files, TypeOK, Currents, Resumes
  <2> QED BY <1>1, <1>2, <1>4, <2>1, <2>2 DEF PreparedInv, Transition, files
<1>9. ProgressInv'
  BY DEF ProgressInv, Transition
<1>10. ExactlyOnce'
  BY DEF ExactlyOnce, Transition, files, Has
<1> QED BY <1>5, <1>6, <1>7, <1>8, <1>9, <1>10

LEMMA UpdateTaskStep ==
    ASSUME IInv, NEW t \in Tasks, NEW s \in TASK_STATUSES, UpdateTask(t, s)
    PROVE  IInv'
<1> USE DEF IInv
<1> DEFINE b == [backlog EXCEPT ![t] = s]
<1>1. issued \in Nat /\ issued' = issued + 1 /\ issued' \in 1..MaxTransactions
  BY BoundsAssumption DEF UpdateTask, TypeOK
<1>2. pending = NoJournal /\ pending' = NoJournal
  BY DEF UpdateTask, Valid, files
<1>2a. ViewHistory = transitions /\ \A i \in 1..Len(transitions) : transitions[i].id \in Nat
  <2>1. \A i \in 1..Len(transitions) : transitions[i] \in Records
    BY DEF TypeOK
  <2>2. \A r1 \in Records : r1.id \in Nat
    BY DEF Records
  <2>3. ViewHistory = transitions
    BY <1>2 DEF ViewHistory
  <2> QED BY <2>1, <2>2, <2>3
<1>2b. \A i \in 1..Len(transitions) : transitions[i].id \in 1..issued
  BY <1>2a DEF ViewInv
<1>3. b \in Backlogs /\ NextFromItems(b) \in Tasks \cup {NoTask}
      /\ InProgress(b) \subseteq Tasks
  BY NextFromItemsType DEF TypeOK, Backlogs, InProgress
<1>4. journal' \in Transfers
  <2> DEFINE n == NextFromItems(b)
             a == InProgress(b)
  <2>1. [current EXCEPT !.next_task_id = n] \in Currents
    <3> HIDE DEF n
    <3> QED BY <1>3 DEF n, TypeOK, Currents
  <2>2. [resume EXCEPT !.next_task_id = n, !.active_task_ids = a] \in Resumes
    <3>1. n \in Tasks \cup {NoTask} /\ a \in SUBSET Tasks
      BY <1>3
    <3> HIDE DEF n, a
    <3> QED BY <3>1 DEF TypeOK, Resumes
  <2>3. <<>> \in Seq(Records)
    OBVIOUS
  <2> QED BY <1>1, <1>3, <2>1, <2>2, <2>3 DEF UpdateTask, TypeOK, Transfers
<1>5. TypeOK'
  BY <1>1, <1>4 DEF UpdateTask, TypeOK, files, Steps
<1>6. ViewInv'
  <2>1. ViewBacklog' = ViewBacklog /\ ViewCurrent' = ViewCurrent
        /\ ViewResume' = ViewResume /\ ViewHistory' = ViewHistory
    BY SameFilesSameView DEF SameView, UpdateTask
  <2>2. \A i \in 1..Len(ViewHistory) : ViewHistory[i].id \in 1..issued'
    BY <1>1, <1>2a, <1>2b
  <2> QED BY <2>1, <2>2 DEF ViewInv, Agree, IsHistory
<1>7. PendingInv'
  BY <1>2 DEF PendingInv
<1>8. PreparedInv'
  <2>1. \A i \in 1..Len(transitions) : transitions[i].id < issued'
    BY <1>1, <1>2a, <1>2b
  <2>2. /\ journal'.backlog = b /\ backlog' = backlog /\ journal'.appends = <<>>
        /\ current' = current /\ resume' = resume
    BY DEF UpdateTask, files
  <2>3. /\ journal'.current = [current EXCEPT !.next_task_id = NextFromItems(b)]
        /\ journal'.resume = [resume EXCEPT !.next_task_id = NextFromItems(b),
                                           !.active_task_ids = InProgress(b)]
    BY DEF UpdateTask
  <2>4. TaskJournal'
    BY <2>2, <2>3 DEF TaskJournal
  <2> QED BY <1>1, <1>2, <1>4, <2>1, <2>4 DEF PreparedInv, UpdateTask, files
<1>9. ProgressInv'
  BY DEF ProgressInv, UpdateTask
<1>10. ExactlyOnce'
  BY DEF ExactlyOnce, UpdateTask, files, Has
<1> QED BY <1>5, <1>6, <1>7, <1>8, <1>9, <1>10

\* The step at which the transaction takes effect: the view changes from the
\* files to the journal's documents.
LEMMA PrepareStep ==
    ASSUME IInv, Prepare PROVE IInv'
<1> USE DEF IInv
<1>1. /\ pc = "prepare" /\ pending = NoJournal /\ pending' = journal
      /\ journal \in Transfers /\ journal.id = issued /\ issued \in 1..MaxTransactions
      /\ \A i \in 1..Len(transitions) : transitions[i].id < issued
      /\ TransitionJournal \/ TaskJournal
      /\ pc' = FirstWrite(journal) /\ mode' = mode /\ journal' = journal
      /\ UNCHANGED <<backlog, current, resume, transitions, transactions, torn,
                     issued, crashes>>
  BY DEF PreparedInv, Prepare
<1>2. issued \in Nat /\ issued # 0 /\ pending' # NoJournal
  BY <1>1, BoundsAssumption DEF NoJournal
<1>3. ~Has(transitions, journal.id)
  BY <1>1 DEF Has, TypeOK, Records
<1>4. /\ ViewBacklog = backlog /\ ViewCurrent = current
      /\ ViewResume = resume /\ ViewHistory = transitions
  BY <1>1 DEF ViewBacklog, ViewCurrent, ViewResume, ViewHistory
<1>5. /\ ViewBacklog' = journal.backlog /\ ViewCurrent' = journal.current
      /\ ViewResume' = journal.resume
      /\ ViewHistory' = IF journal.appends = <<>> THEN transitions
                        ELSE Append(transitions, journal.appends[1])
  BY <1>1, <1>2, <1>3 DEF ViewBacklog, ViewCurrent, ViewResume, ViewHistory, Has
<1>6. TypeOK'
  BY <1>1 DEF TypeOK, Steps, FirstWrite
<1>7. ViewInv'
  <2>1. CASE TransitionJournal
    <3> DEFINE r == [id |-> issued, previous |-> current.root_state,
                     new |-> journal.current.root_state]
    <3>1. r \in Records /\ r = journal.appends[1] /\ journal.appends # <<>>
      BY <1>1, <1>2, <2>1 DEF TransitionJournal, TypeOK, Transfers, Currents, Records
    <3>2. ViewHistory' = Append(transitions, r)
      BY <1>5, <3>1
    <3>3. transitions # <<>> => transitions[Len(transitions)].new = r.previous
      BY <1>4 DEF ViewInv, Agree
    <3>4. IsHistory(ViewHistory')
      BY <1>1, <1>4, <2>1, <3>1, <3>2, <3>3, AppendHistory
         DEF ViewInv, TypeOK, TransitionJournal
    <3>5. \A i \in 1..Len(ViewHistory') : ViewHistory'[i].id \in 1..issued'
      <4>1. /\ transitions \in Seq(Records) /\ r.id = issued
            /\ \A i \in 1..Len(transitions) : transitions[i].id \in 1..issued
        BY <1>4, <2>1 DEF ViewInv, TypeOK
      <4> HIDE DEF r
      <4> QED BY <1>1, <1>2, <3>1, <3>2, <4>1
    <3>6. /\ Len(ViewHistory') = Len(transitions) + 1
          /\ ViewHistory'[Len(ViewHistory')] = r
      BY <3>1, <3>2 DEF TypeOK
    <3>7. Agree(ViewBacklog, ViewCurrent, ViewResume, ViewHistory)'
      <4>1. /\ journal.current.next_task_id = current.next_task_id
            /\ journal.resume.next_task_id = resume.next_task_id
            /\ journal.resume.active_task_ids = resume.active_task_ids
            /\ journal.resume.root_state = journal.current.root_state
            /\ journal.resume.last_transition_id = issued
            /\ journal.backlog = backlog
        BY <2>1 DEF TransitionJournal, TypeOK, Currents, Resumes
      <4>2. Agree(backlog, current, resume, transitions)
        BY <1>4 DEF ViewInv
      <4> QED BY <1>5, <3>6, <4>1, <4>2 DEF Agree
    <3> QED BY <3>4, <3>5, <3>7 DEF ViewInv
  <2>2. CASE TaskJournal
    <3>1. ViewHistory' = transitions
      BY <1>5, <2>2 DEF TaskJournal
    <3>2. /\ journal.current.next_task_id = NextFromItems(journal.backlog)
          /\ journal.resume.next_task_id = NextFromItems(journal.backlog)
          /\ journal.resume.active_task_ids = InProgress(journal.backlog)
          /\ journal.resume.root_state = resume.root_state
          /\ journal.current.root_state = current.root_state
          /\ journal.resume.last_transition_id = resume.last_transition_id
      BY <2>2 DEF TaskJournal, TypeOK, Currents, Resumes
    <3>3. Agree(backlog, current, resume, transitions)
      BY <1>4 DEF ViewInv
    <3> QED BY <1>1, <1>4, <1>5, <3>1, <3>2, <3>3 DEF ViewInv, Agree, IsHistory
  <2> QED BY <1>1, <2>1, <2>2
<1>8. PendingInv'
  BY <1>1, <1>2 DEF PendingInv, TransitionJournal, TaskJournal
<1>9. PreparedInv'
  BY <1>1 DEF PreparedInv, FirstWrite
<1>10. ProgressInv'
  BY <1>1, <1>2 DEF ProgressInv, FirstWrite, TransitionJournal, TaskJournal
<1>11. ExactlyOnce'
  <2>1. \A i \in 1..Len(transitions) : transitions[i].id # pending.id
    BY <1>1, <1>4 DEF ViewInv, NoJournal
  <2> QED BY <1>1, <2>1 DEF ExactlyOnce, Has
<1> QED BY <1>6, <1>7, <1>8, <1>9, <1>10, <1>11

\* A write of one document moves the files towards the view and leaves it.
LEMMA WriteStep ==
    ASSUME IInv, WriteBacklog \/ WriteCurrent \/ WriteResume PROVE IInv'
<1> USE DEF IInv
<1>1. /\ pending # NoJournal /\ journal = pending
      /\ UNCHANGED <<transitions, transactions, pending, torn, mode, journal,
                     issued, crashes>>
  BY DEF ProgressInv, WriteBacklog, WriteCurrent, WriteResume
<1>2. /\ ViewBacklog' = ViewBacklog /\ ViewCurrent' = ViewCurrent
      /\ ViewResume' = ViewResume /\ ViewHistory' = ViewHistory
  BY <1>1 DEF ViewBacklog, ViewCurrent, ViewResume, ViewHistory, Has
<1>3. journal \in Transfers /\ pending \in Transfers
  BY <1>1 DEF TypeOK
<1>4. TypeOK'
  BY <1>1, <1>3 DEF TypeOK, Transfers, Steps, WriteBacklog, WriteCurrent, WriteResume
<1>5. ViewInv'
  BY <1>1, <1>2 DEF ViewInv, Agree, IsHistory
<1>6. PendingInv'
  BY <1>1 DEF PendingInv, WriteBacklog, WriteCurrent, WriteResume
<1>7. PreparedInv'
  BY DEF PreparedInv, WriteBacklog, WriteCurrent, WriteResume
<1>8. ProgressInv'
  BY <1>1 DEF ProgressInv, PendingInv, WriteBacklog, WriteCurrent, WriteResume
<1>9. ExactlyOnce'
  BY <1>1 DEF ExactlyOnce, Has
<1> QED BY <1>4, <1>5, <1>6, <1>7, <1>8, <1>9

\* Appending the record moves the last part of the view into the file.
LEMMA AppendStep ==
    ASSUME IInv, AppendTransition, "transitions" \notin torn PROVE IInv'
<1> USE DEF IInv
<1>1. /\ pc = "append" /\ pc' = "complete" /\ pending # NoJournal
      /\ journal = pending /\ pending.appends # <<>>
      /\ transitions' = IF Has(transitions, pending.id) THEN transitions
                        ELSE Append(transitions, pending.appends[1])
      /\ UNCHANGED <<backlog, current, resume, transactions, pending, torn, mode,
                     journal, issued, crashes>>
  BY DEF ProgressInv, AppendTransition
<1>2. /\ pending \in Transfers /\ pending.appends[1] \in Records
      /\ pending.appends[1].id = pending.id
  <2>1. pending \in Transfers /\ pending.appends = <<pending.appends[1]>>
        /\ pending.appends[1].id = pending.id
    BY <1>1 DEF PendingInv
  <2>2. pending.appends \in Seq(Records) /\ Len(pending.appends) = 1
    BY <2>1 DEF Transfers
  <2> QED BY <2>1, <2>2
<1>3. transitions' \in Seq(Records) /\ Has(transitions', pending.id)
  BY <1>1, <1>2 DEF TypeOK, Has
<1>4. /\ ViewBacklog' = ViewBacklog /\ ViewCurrent' = ViewCurrent
      /\ ViewResume' = ViewResume /\ ViewHistory' = ViewHistory
  BY <1>1, <1>3 DEF ViewBacklog, ViewCurrent, ViewResume, ViewHistory, Has
<1>5. TypeOK'
  BY <1>1, <1>3 DEF TypeOK, Steps
<1>6. ViewInv'
  BY <1>1, <1>4 DEF ViewInv, Agree, IsHistory
<1>7. PendingInv' /\ PreparedInv'
  BY <1>1 DEF PendingInv, PreparedInv
<1>8. ProgressInv'
  BY <1>1, <1>3 DEF ProgressInv, Has
<1>9. ExactlyOnce'
  <2>1. \A i \in 1..Len(transitions') :
           \/ i \in 1..Len(transitions) /\ transitions'[i] = transitions[i]
           \/ transitions'[i].id = pending.id
    BY <1>1, <1>2 DEF TypeOK
  <2> QED BY <1>1, <2>1 DEF ExactlyOnce, Has
<1> QED BY <1>5, <1>6, <1>7, <1>8, <1>9

LEMMA CompleteStep ==
    ASSUME IInv, Complete, "transactions" \notin torn PROVE IInv'
<1> USE DEF IInv
<1> DEFINE record == [id |-> journal.id,
                      status |-> IF mode = "recover" THEN "recovered" ELSE "completed"]
<1>1. /\ pc = "complete" /\ pc' = "unlink" /\ pending # NoJournal /\ journal = pending
      /\ transactions' = IF Has(transactions, pending.id) THEN transactions
                         ELSE Append(transactions, record)
  BY DEF ProgressInv, Complete
<1>2. UNCHANGED <<backlog, current, resume, transitions, pending, torn,
                  mode, journal, issued, crashes>>
  BY DEF Complete
<1>3. record \in [id : Nat, status : {"completed", "recovered"}] /\ record.id = pending.id
  BY <1>1 DEF PendingInv, Transfers
<1> HIDE DEF record
<1>4. /\ transactions \in Seq([id : Nat, status : {"completed", "recovered"}])
      /\ transactions' \in Seq([id : Nat, status : {"completed", "recovered"}])
  <2> DEFINE Completions == [id : Nat, status : {"completed", "recovered"}]
  <2>1. transactions \in Seq(Completions) /\ record \in Completions
    BY <1>3 DEF TypeOK
  <2> HIDE DEF Completions
  <2>2. transactions' \in Seq(Completions)
    BY <1>1, <2>1
  <2> QED BY <2>1, <2>2 DEF Completions
<1>5. Has(transactions', pending.id)
  BY <1>1, <1>3, <1>4 DEF Has
<1>6. TypeOK'
  BY <1>1, <1>2, <1>4 DEF TypeOK, Steps
<1>7. ViewInv'
  BY <1>2 DEF ViewInv, ViewBacklog, ViewCurrent, ViewResume, ViewHistory, Has,
              Agree, IsHistory
<1>8. PendingInv' /\ PreparedInv'
  BY <1>1, <1>2 DEF PendingInv, PreparedInv
<1>9. ProgressInv'
  BY <1>1, <1>2, <1>5 DEF ProgressInv, Has
<1>10. ExactlyOnce'
  <2>1. CASE Has(transactions, pending.id)
    BY <1>1, <1>2, <2>1 DEF ExactlyOnce, Has
  <2>2. CASE ~Has(transactions, pending.id)
    <3>1. /\ Len(transactions) \in Nat /\ Len(transactions') = Len(transactions) + 1
          /\ \A i \in 1..Len(transactions) : transactions'[i] = transactions[i]
          /\ transactions'[Len(transactions) + 1] = record
      BY <1>1, <1>3, <1>4, <2>2
    <3>2. \A i \in 1..Len(transactions) : transactions[i].id # record.id
      BY <1>3, <2>2 DEF Has
    <3>3. \A i, j \in 1..Len(transactions') :
             transactions'[i].id = transactions'[j].id => i = j
      BY <3>1, <3>2 DEF ExactlyOnce
    <3>4. \A i \in 1..Len(transitions) : Has(transactions, transitions[i].id)
                                         => Has(transactions', transitions[i].id)
      BY <3>1 DEF Has
    <3> QED BY <1>2, <3>3, <3>4 DEF ExactlyOnce
  <2> QED BY <2>1, <2>2
<1> QED BY <1>6, <1>7, <1>8, <1>9, <1>10

\* When the journal goes the files have become the view.
LEMMA UnlinkStep ==
    ASSUME IInv, UnlinkPending PROVE IInv'
<1> USE DEF IInv
<1>1. /\ pc = "unlink" /\ pc' = "check" /\ pending # NoJournal /\ pending' = NoJournal
      /\ backlog = pending.backlog /\ current = pending.current /\ resume = pending.resume
      /\ pending.appends = <<>> \/ Has(transitions, pending.id)
      /\ Has(transactions, pending.id)
      /\ UNCHANGED <<backlog, current, resume, transitions, transactions, torn,
                     mode, journal, issued, crashes>>
  BY DEF ProgressInv, UnlinkPending
<1>2. /\ ViewBacklog' = ViewBacklog /\ ViewCurrent' = ViewCurrent
      /\ ViewResume' = ViewResume /\ ViewHistory' = ViewHistory
  BY <1>1 DEF ViewBacklog, ViewCurrent, ViewResume, ViewHistory, Has
<1>3. TypeOK'
  BY <1>1 DEF TypeOK, Steps
<1>4. ViewInv'
  BY <1>1, <1>2 DEF ViewInv, Agree, IsHistory
<1>5. PendingInv' /\ PreparedInv' /\ ProgressInv'
  BY <1>1 DEF PendingInv, PreparedInv, ProgressInv
<1>6. ExactlyOnce'
  BY <1>1 DEF ExactlyOnce, Has
<1> QED BY <1>3, <1>4, <1>5, <1>6

\* Loading the pending journal puts a recovery where the interrupted command
\* could have been after its first file operation.
LEMMA RecoverStep ==
    ASSUME IInv, Recover, pending # NoJournal PROVE IInv'
<1> USE DEF IInv
<1>1. /\ pc' = FirstWrite(pending) /\ journal' = pending /\ mode' = mode
      /\ UNCHANGED <<files, issued, crashes>>
  BY DEF Recover
<1>2. TypeOK'
  BY <1>1 DEF TypeOK, files, FirstWrite, Steps
<1>3. ViewInv'
  BY <1>1, SameFilesSameView DEF SameView, ViewInv, files, Agree, IsHistory
<1>4. PendingInv'
  BY <1>1 DEF PendingInv, files
<1>5. PreparedInv'
  BY <1>1 DEF PreparedInv, FirstWrite
<1>6. ProgressInv'
  BY <1>1 DEF ProgressInv, PendingInv, files, FirstWrite
<1>7. ExactlyOnce'
  BY <1>1 DEF ExactlyOnce, files, Has
<1> QED BY <1>2, <1>3, <1>4, <1>5, <1>6, <1>7

\* A crash, between any two operations and with or without a torn append,
\* leaves a state from which the invariant still holds.
LEMMA CrashStep ==
    ASSUME IInv, Crash PROVE IInv'
<1> USE DEF IInv
<1>1. /\ pc' = "free" /\ mode' = "none" /\ journal' = NoJournal
      /\ crashes' = crashes + 1
      /\ UNCHANGED <<backlog, current, resume, transitions, transactions, pending,
                     issued>>
  BY DEF Crash, Exit
<1>2. torn' \subseteq {"transitions", "transactions"}
  <2>1. \A tear \in MayTear : tear \subseteq {"transitions", "transactions"}
    BY DEF MayTear
  <2>2. \A tear \in {{}} : tear \subseteq {"transitions", "transactions"}
    OBVIOUS
  <2>3. PICK tear \in IF TornAppends THEN MayTear ELSE {{}} : torn' = torn \cup tear
    BY DEF Crash
  <2>4. tear \subseteq {"transitions", "transactions"}
    BY <2>1, <2>2, <2>3
  <2> QED BY <2>3, <2>4 DEF TypeOK
<1>3. TypeOK'
  BY <1>1, <1>2 DEF TypeOK, Steps
<1>4. ViewInv'
  BY <1>1 DEF ViewInv, ViewBacklog, ViewCurrent, ViewResume, ViewHistory, Has,
              Agree, IsHistory
<1>5. PendingInv' /\ PreparedInv' /\ ProgressInv'
  BY <1>1 DEF PendingInv, PreparedInv, ProgressInv
<1>6. ExactlyOnce'
  BY <1>1 DEF ExactlyOnce, Has
<1> QED BY <1>3, <1>4, <1>5, <1>6

\* IInv is inductive.
LEMMA StepIInv == IInv /\ [Next]_vars => IInv'
<1> SUFFICES ASSUME IInv, [Next]_vars PROVE IInv'
  OBVIOUS
<1>0. TypeOK
  BY DEF IInv
<1>1. CASE UNCHANGED vars
  <2>1. TypeOK' /\ ExactlyOnce'
    BY <1>1 DEF vars, files, IInv, TypeOK, ExactlyOnce, Has
  <2>2. ViewInv'
    BY <1>1, SameFilesSameView DEF SameView, vars, files, IInv, ViewInv, Agree, IsHistory
  <2>3. PendingInv' /\ ProgressInv'
    BY <1>1 DEF vars, files, IInv, PendingInv, ProgressInv, Has
  <2>4. PreparedInv'
    BY <1>1 DEF vars, files, IInv, PreparedInv, TransitionJournal, TaskJournal
  <2> QED BY <2>1, <2>2, <2>3, <2>4 DEF IInv
<1>2. CASE Acquire
  BY <1>0, <1>2, IdleStep DEF Acquire, TypeOK
<1>3. CASE Refuse \/ FinalCheck
  BY <1>0, <1>3, IdleStep DEF Refuse, FinalCheck, Exit, TypeOK
<1>4. CASE Recover
  <2>1. CASE pending = NoJournal
    BY <1>0, <1>4, <2>1, IdleStep DEF Recover, Exit, TypeOK
  <2> QED BY <1>4, <2>1, RecoverStep
<1>5. ASSUME NEW new \in ROOT_STATES, Transition(new) PROVE IInv'
  BY <1>5, TransitionStep
<1>6. ASSUME NEW t \in Tasks, NEW s \in TASK_STATUSES, UpdateTask(t, s) PROVE IInv'
  BY <1>6, UpdateTaskStep
<1>7. CASE Prepare
  BY <1>7, PrepareStep
<1>8. CASE WriteBacklog \/ WriteCurrent \/ WriteResume
  BY <1>8, WriteStep
<1>9. CASE AppendTransition
  <2>1. CASE "transitions" \in torn
    BY <1>0, <1>9, <2>1, IdleStep DEF AppendTransition, Exit, TypeOK, files
  <2> QED BY <1>9, <2>1, AppendStep
<1>10. CASE Complete
  <2>1. CASE "transactions" \in torn
    BY <1>0, <1>10, <2>1, IdleStep DEF Complete, Exit, TypeOK, files
  <2> QED BY <1>10, <2>1, CompleteStep
<1>11. CASE UnlinkPending
  BY <1>11, UnlinkStep
<1>12. CASE Crash
  BY <1>12, CrashStep
<1> QED
  BY <1>1, <1>2, <1>3, <1>4, <1>5, <1>6, <1>7, <1>8, <1>9, <1>10, <1>11, <1>12
     DEF Next, Command

LEMMA InvariantIInv == Spec => []IInv
BY InitIInv, StepIInv, PTL DEF Spec

-----------------------------------------------------------------------------

\* Every variable of the store keeps its type, whatever crashes happen.
THEOREM TypeCorrect == Spec => []TypeOK
<1>1. IInv => TypeOK
  BY DEF IInv
<1> QED BY <1>1, InvariantIInv, PTL

\* transitions.jsonl is one unbroken walk of the TRANSITIONS table.
THEOREM TransitionChainHolds == Spec => []TransitionChain
<1>1. IInv => TransitionChain
  <2> SUFFICES ASSUME IInv PROVE TransitionChain
    OBVIOUS
  <2>1. IsHistory(ViewHistory) /\ transitions \in Seq(Records)
    BY DEF IInv, ViewInv, TypeOK
  <2>2. CASE ViewHistory = transitions
    BY <2>1, <2>2 DEF TransitionChain
  <2>3. CASE ViewHistory = Append(transitions, pending.appends[1])
    <3>1. /\ Len(transitions) \in Nat /\ Len(ViewHistory) = Len(transitions) + 1
          /\ \A i \in 1..Len(transitions) : ViewHistory[i] = transitions[i]
      BY <2>1, <2>3
    <3>2. \A i \in 1..(Len(transitions) - 1) :
             /\ transitions[i].new = ViewHistory[i].new
             /\ transitions[i + 1].previous = ViewHistory[i + 1].previous
             /\ i \in 1..(Len(ViewHistory) - 1)
      BY <3>1
    <3>3. \A i \in 1..(Len(transitions) - 1) :
             transitions[i].new = transitions[i + 1].previous
      BY <2>1, <3>2 DEF IsHistory
    <3>4. \A i \in 1..Len(transitions) :
             transitions[i].new \in TRANSITIONS[transitions[i].previous]
      BY <2>1, <3>1 DEF IsHistory
    <3>5. \A i, j \in 1..Len(transitions) : i < j => transitions[i].id < transitions[j].id
      BY <2>1, <3>1 DEF IsHistory
    <3> QED BY <3>3, <3>4, <3>5 DEF TransitionChain, IsHistory
  <2> QED BY <2>2, <2>3 DEF ViewHistory
<1> QED BY <1>1, InvariantIInv, PTL

\* With no transaction pending the documents and the journal agree.
THEOREM SettledAgreeHolds == Spec => []SettledAgree
<1>1. IInv => SettledAgree
  BY DEF IInv, ViewInv, SettledAgree, ViewBacklog, ViewCurrent, ViewResume, ViewHistory
<1> QED BY <1>1, InvariantIInv, PTL

\* No transaction completes twice; no journaled transition is orphaned.
THEOREM ExactlyOnceHolds == Spec => []ExactlyOnce
<1>1. IInv => ExactlyOnce
  BY DEF IInv
<1> QED BY <1>1, InvariantIInv, PTL

\* The logs are a history in which every transaction stands once.
THEOREM LogsAreSoundHolds == Spec => []LogsAreSound
<1>1. TransitionChain /\ ExactlyOnce => LogsAreSound
  BY DEF LogsAreSound
<1> QED BY <1>1, TransitionChainHolds, ExactlyOnceHolds, PTL

-----------------------------------------------------------------------------
(* The files implement the atomic kernel.                                   *)

\* The atomic kernel's tables are the store's.
LEMMA SameTables ==
    /\ Kernel!ROOT_STATES = ROOT_STATES
    /\ Kernel!TASK_STATUSES = TASK_STATUSES
    /\ Kernel!TRANSITIONS = TRANSITIONS
    /\ \A b : Kernel!InProgress(b) = InProgress(b)
<1>1. /\ Kernel!ROOT_STATES = ROOT_STATES /\ Kernel!TASK_STATUSES = TASK_STATUSES
  BY DEF ROOT_STATES, TASK_STATUSES, Kernel!ROOT_STATES, Kernel!TASK_STATUSES
<1>2. \A s : Kernel!Successors(s) = Successors(s)
  BY DEF Kernel!Successors, Successors
<1>3. Kernel!TRANSITIONS = TRANSITIONS
  BY <1>1, <1>2 DEF Kernel!TRANSITIONS, TRANSITIONS
<1> QED BY <1>1, <1>3 DEF Kernel!InProgress, InProgress

LEMMA InitKernel == Init => Kernel!Init
<1> SUFFICES ASSUME Init PROVE Kernel!Init
  OBVIOUS
<1>1. /\ ViewBacklog = backlog /\ ViewCurrent = current
      /\ ViewResume = resume /\ ViewHistory = <<>>
  BY DEF Init, ViewBacklog, ViewCurrent, ViewResume, ViewHistory
<1> QED BY <1>1, SameTables DEF Init, Kernel!Init, Backlogs

\* Only Prepare changes the view.
LEMMA StutterOrPrepare ==
    ASSUME IInv, IInv', [Next]_vars
    PROVE  SameView \/ (Prepare /\ pc = "prepare" /\ pending = NoJournal)
<1> USE DEF IInv, SameView
<1>1. CASE UNCHANGED files
  BY <1>1, SameFilesSameView
<1>2. CASE UNCHANGED <<pending, transitions>> /\ pending # NoJournal
  BY <1>2 DEF ViewBacklog, ViewCurrent, ViewResume, ViewHistory, Has
<1>3. CASE WriteBacklog \/ WriteCurrent \/ WriteResume \/ Complete
  BY <1>2, <1>3 DEF ProgressInv, WriteBacklog, WriteCurrent, WriteResume, Complete
<1>4. CASE AppendTransition
  <2>1. CASE "transitions" \in torn
    BY <1>2, <1>4, <2>1 DEF ProgressInv, AppendTransition
  <2>2. CASE "transitions" \notin torn
    <3>1. /\ pending # NoJournal /\ pending' = pending /\ journal = pending
          /\ transitions' = IF Has(transitions, pending.id) THEN transitions
                            ELSE Append(transitions, pending.appends[1])
          /\ pc' = "complete" /\ pending.appends # <<>>
      BY <1>4, <2>2 DEF ProgressInv, AppendTransition
    <3>2. Has(transitions', pending.id)
      BY <3>1 DEF ProgressInv, Has
    <3> QED BY <3>1, <3>2 DEF ViewBacklog, ViewCurrent, ViewResume, ViewHistory, Has
  <2> QED BY <2>1, <2>2
<1>5. CASE UnlinkPending
  BY <1>5 DEF ProgressInv, UnlinkPending, ViewBacklog, ViewCurrent, ViewResume,
              ViewHistory, Has
<1>6. CASE Crash
  BY <1>6 DEF Crash, ViewBacklog, ViewCurrent, ViewResume, ViewHistory, Has
<1>7. CASE Prepare
  BY <1>7 DEF PreparedInv, Prepare
<1>8. CASE UNCHANGED vars
  BY <1>1, <1>8 DEF vars
<1>9. CASE Acquire \/ Refuse \/ Recover \/ FinalCheck
  BY <1>1, <1>9 DEF Acquire, Refuse, Recover, FinalCheck
<1>10. ASSUME NEW new \in ROOT_STATES, Transition(new) PROVE SameView
  BY <1>1, <1>10 DEF Transition
<1>11. ASSUME NEW t \in Tasks, NEW s \in TASK_STATUSES, UpdateTask(t, s) PROVE SameView
  BY <1>1, <1>11 DEF UpdateTask
<1> QED
  BY <1>3, <1>4, <1>5, <1>6, <1>7, <1>8, <1>9, <1>10, <1>11 DEF Next, Command

LEMMA StepKernel == IInv /\ IInv' /\ [Next]_vars => [Kernel!Next]_(Kernel!vars)
<1> SUFFICES ASSUME IInv, IInv', [Next]_vars PROVE [Kernel!Next]_(Kernel!vars)
  OBVIOUS
<1>1. CASE SameView
  BY <1>1 DEF SameView, Kernel!vars
<1>2. CASE Prepare /\ pc = "prepare" /\ pending = NoJournal
  <2>1. /\ pending' = journal /\ journal \in Transfers /\ journal.id = issued
        /\ issued \in 1..MaxTransactions
        /\ \A i \in 1..Len(transitions) : transitions[i].id < issued
        /\ TransitionJournal \/ TaskJournal
        /\ UNCHANGED <<backlog, current, resume, transitions>>
    BY <1>2 DEF IInv, PreparedInv, Prepare
  <2>2. pending' # NoJournal /\ ~Has(transitions, journal.id)
    BY <2>1, BoundsAssumption DEF NoJournal, Has, IInv, TypeOK, Records
  <2>3. /\ ViewBacklog = backlog /\ ViewCurrent = current
        /\ ViewResume = resume /\ ViewHistory = transitions
    BY <1>2 DEF ViewBacklog, ViewCurrent, ViewResume, ViewHistory
  <2>4. /\ ViewBacklog' = journal.backlog /\ ViewCurrent' = journal.current
        /\ ViewResume' = journal.resume
        /\ ViewHistory' = IF journal.appends = <<>> THEN transitions
                          ELSE Append(transitions, journal.appends[1])
    BY <2>1, <2>2 DEF ViewBacklog, ViewCurrent, ViewResume, ViewHistory, Has
  <2>5. CASE TransitionJournal
    <3> DEFINE to == journal.current.root_state
    <3>1. /\ to \in ROOT_STATES /\ to \in TRANSITIONS[current.root_state]
          /\ journal.resume.next_task_id = resume.next_task_id
          /\ journal.resume.active_task_ids = resume.active_task_ids
          /\ journal.backlog = backlog
      BY <2>1, <2>5 DEF TransitionJournal, Transfers, Currents, IInv, TypeOK, Resumes
    <3>2. ViewHistory' = Append(transitions, [id |-> issued,
                                  previous |-> current.root_state, new |-> to])
      BY <2>4, <2>5 DEF TransitionJournal
    <3>3. Kernel!Transition(to)
      BY <2>1, <2>3, <2>4, <3>1, <3>2, SameTables DEF Kernel!Transition
    <3> QED BY <3>1, <3>3, SameTables DEF Kernel!Next
  <2>6. CASE TaskJournal
    <3>1. PICK t \in Tasks, s \in TASK_STATUSES : journal.backlog = [backlog EXCEPT ![t] = s]
      BY <2>6 DEF TaskJournal
    <3>2. /\ journal.resume.next_task_id = NextFromItems(journal.backlog)
          /\ journal.resume.active_task_ids = InProgress(journal.backlog)
          /\ journal.current.root_state = current.root_state
          /\ journal.appends = <<>>
      BY <2>6 DEF TaskJournal, IInv, TypeOK, Currents, Resumes
    <3>3. Kernel!UpdateTask(t, s)
      BY <2>3, <2>4, <3>1, <3>2, SameTables DEF Kernel!UpdateTask
    <3> QED BY <3>3, SameTables DEF Kernel!Next
  <2> QED BY <2>1, <2>5, <2>6
<1> QED BY <1>1, <1>2, StutterOrPrepare

\* The store, with its crashes, recoveries and partial writes, implements the
\* atomic kernel.
THEOREM ImplementsAtomicKernel == Spec => AtomicSpec
BY InitKernel, InvariantIInv, StepKernel, PTL DEF Spec, AtomicSpec, Kernel!Spec

-----------------------------------------------------------------------------
(* The market observer.                                                     *)

\* What a run makes of the state file: stopped by the storage bound, not due,
\* announcing the window that starts at t, and recording how it ended.
Blocked(f) == [f EXCEPT !.status = "DEGRADED", !.storage_guard = TRUE]
NotDue(f) == [Recovered(f) EXCEPT !.status = IF @ = "DEGRADED" THEN @ ELSE "IDLE"]
Announced(f, t) == [Recovered(f) EXCEPT !.status = "CAPTURING", !.active = t]
Succeeded(f, t, at) ==
    [f EXCEPT !.windows = Latest(Append(@, t)), !.failures = Latest(@),
              !.status = "IDLE", !.active = None, !.last_success = at,
              !.next_eligible = t + Separation, !.consecutive_failures = 0]
Failed(f, t) ==
    [f EXCEPT !.failures = Latest(Append(@, t)), !.active = None,
              !.consecutive_failures = f.consecutive_failures + 1,
              !.status = IF f.consecutive_failures + 1 >= DegradedAfter THEN "DEGRADED" ELSE "IDLE",
              !.next_eligible = t + Cadence]

Distinct(h) == \A i, j \in DOMAIN h : h[i] = h[j] => i = j

\* Every window of a state file is preregistered (in P) and stands in it once;
\* the successes are audited (by A), and the next window keeps its distance
\* from each of them.
Windowed(f, P) ==
    /\ Distinct(f.windows) /\ Distinct(f.failures)
    /\ Elements(f.windows) \cap Elements(f.failures) = {}
    /\ Recorded(f) \subseteq P
    /\ f.active \in (P \cup {None}) \ Recorded(f)
    /\ Len(f.windows) <= MaxHistory
Successful(f, P, A) ==
    \A t \in Elements(f.windows) :
        /\ A[t] = "VALID"
        /\ f.next_eligible # None /\ f.next_eligible >= t + Separation
        /\ \A p \in P : p > t => p >= t + Separation
StatusOK(f) ==
    /\ f.status = "IDLE" => f.consecutive_failures < DegradedAfter
    /\ f.status = "DEGRADED" => f.consecutive_failures > 0 \/ f.storage_guard
    /\ f.status = "CAPTURING" => f.active # None
FileSound(f, P, A) == f \in StateFiles /\ Windowed(f, P) /\ Successful(f, P, A) /\ StatusOK(f)

\* A window may start at t.
Apart(f, t) == \A w \in Elements(f.windows) : t >= w + Separation

Starting == {"open", "write", "examine", "move_aside", "load", "not_due", "preregister"}
Working == {"open_journal", "capture", "audit_valid", "record_success", "record_failure"}

ClockOK(o) ==
    /\ started[o] <= now
    /\ \A p \in preregistered : p <= now /\ (step[o] # "idle" => p <= started[o])
StorageOK(o) ==
    /\ Used < MaxStorage + 2
    /\ step[o] \in Starting => Used < MaxStorage
    /\ step[o] \in {"announce", "open_journal"} => Used < MaxStorage + 1
Interrupted(o) == file.active # None /\ step[o] \notin Working
FailuresOK(o) ==
    /\ Len(file.failures) <= MaxHistory + interruptions
    /\ Interrupted(o) => Len(file.failures) + 1 <= MaxHistory + interruptions

\* What a run has read and done by the step it is at.
RunOK(o) ==
    LET s == state[o] t == started[o] IN
    /\ step[o] = "block" => s = file
    /\ step[o] = "not_due" => s = NotDue(file)
    /\ step[o] = "preregister" => s = Recovered(file) /\ Due(s, t)
    /\ step[o] = "announce" =>
          /\ s = Announced(file, t) /\ Apart(file, t)
          /\ t \in preregistered \ (Recorded(file) \cup {file.active})
    /\ step[o] \in Working => s = file /\ file.active = t /\ Apart(file, t)
    /\ step[o] = "record_success" => audit[t] = "VALID"
    /\ step[o] = "audit_rejected" => t \in Elements(file.failures)

ObserverInductive(o) ==
    /\ ObserverTypeOK /\ FileSound(file, preregistered, audit)
    /\ ClockOK(o) /\ StorageOK(o) /\ FailuresOK(o) /\ RunOK(o)

-----------------------------------------------------------------------------
(* Histories.                                                               *)

\* The configuration, number by number.
LEMMA Configured ==
    /\ MaxHistory \in Nat /\ MaxHistory >= 1 /\ Separation \in Nat /\ Separation >= 1
    /\ Cadence \in Nat /\ DegradedAfter \in Nat /\ DegradedAfter >= 1 /\ MaxStorage \in Nat
    /\ MaxTime \in Nat /\ MaxInterruptions \in Nat /\ None \notin Int
  BY ConfigLoaded, BoundsAreNatural, NoneIsNoTime

\* history[-n:] keeps at most n entries, from the end, each where it was
\* relative to the others.
LEMMA LatestKeeps ==
  ASSUME NEW h \in Seq(Times), Distinct(h)
  PROVE  /\ Latest(h) \in Seq(Times) /\ Distinct(Latest(h))
         /\ Len(Latest(h)) <= MaxHistory /\ Len(Latest(h)) <= Len(h)
         /\ Elements(Latest(h)) \subseteq Elements(h)
         /\ h # <<>> => h[Len(h)] \in Elements(Latest(h))
  <1> DEFINE cut == IF Len(h) > MaxHistory THEN Len(h) - MaxHistory + 1 ELSE 1
             l == SubSeq(h, cut, Len(h))
  <1>1. /\ Len(h) \in Nat /\ cut \in Nat /\ cut >= 1 /\ cut <= Len(h) + 1
        /\ Len(h) + 1 - cut <= MaxHistory /\ (Len(h) # 0 => cut <= Len(h))
    BY Configured
  <1>2. \A i \in cut .. Len(h) : h[i] \in Times
    BY <1>1
  <1>3. l \in Seq(Times) /\ Len(l) = Len(h) + 1 - cut /\ \A i \in 1 .. Len(l) : l[i] = h[cut + i - 1]
    BY <1>1, <1>2, SubSeqProperties
  <1>4. DOMAIN l = 1 .. Len(l) /\ DOMAIN h = 1 .. Len(h)
    BY <1>3
  <1>5. Latest(h) = l
    BY DEF Latest
  <1> HIDE DEF l, cut
  <1>6. \A i \in 1 .. Len(l) : cut + i - 1 \in 1 .. Len(h) /\ l[i] = h[cut + i - 1]
    <2> TAKE i \in 1 .. Len(l)
    <2>1. Len(l) = Len(h) + 1 - cut /\ l[i] = h[cut + i - 1]
      BY <1>3
    <2>2. Len(h) \in Nat /\ cut \in Nat /\ cut >= 1
      BY <1>1
    <2> QED
      BY <2>1, <2>2
  <1>7. Distinct(l)
    <2> SUFFICES ASSUME NEW i \in 1 .. Len(l), NEW j \in 1 .. Len(l), l[i] = l[j]
                 PROVE  i = j
      BY <1>4 DEF Distinct
    <2>1. cut + i - 1 = cut + j - 1
      BY <1>4, <1>6 DEF Distinct
    <2> QED
      BY <1>1, <2>1
  <1>8. Elements(l) \subseteq Elements(h)
    BY <1>4, <1>6 DEF Elements
  <1>9. ASSUME h # <<>> PROVE h[Len(h)] \in Elements(l)
    <2>1. Len(h) # 0
      BY <1>9
    <2>2. Len(l) \in 1 .. Len(l) /\ cut + Len(l) - 1 = Len(h)
      BY <1>1, <1>3, <2>1
    <2>3. l[Len(l)] = h[Len(h)]
      BY <1>6, <2>2
    <2> QED
      BY <1>4, <2>2, <2>3 DEF Elements
  <1>10. Len(l) <= MaxHistory /\ Len(l) <= Len(h)
    BY <1>1, <1>3
  <1> QED
    BY <1>3, <1>5, <1>7, <1>8, <1>9, <1>10

LEMMA AppendKeeps ==
  ASSUME NEW h \in Seq(Times), Distinct(h), NEW t \in Times, t \notin Elements(h)
  PROVE  /\ Append(h, t) \in Seq(Times) /\ Distinct(Append(h, t))
         /\ Len(Append(h, t)) = Len(h) + 1
         /\ Elements(Append(h, t)) = Elements(h) \cup {t}
         /\ t \in Elements(Latest(Append(h, t)))
         /\ Elements(Latest(Append(h, t))) \subseteq Elements(h) \cup {t}
  <1> DEFINE g == Append(h, t)
  <1>1. /\ g \in Seq(Times) /\ Len(g) = Len(h) + 1 /\ Len(h) \in Nat
        /\ DOMAIN g = 1 .. (Len(h) + 1) /\ DOMAIN h = 1 .. Len(h)
        /\ \A i \in 1 .. Len(h) : g[i] = h[i]
        /\ g[Len(h) + 1] = t /\ g # <<>>
    OBVIOUS
  <1> HIDE DEF g
  <1>2. Distinct(g)
    BY <1>1 DEF Distinct, Elements
  <1>3. Elements(g) = Elements(h) \cup {t}
    BY <1>1 DEF Elements
  <1>4. t \in Elements(Latest(g)) /\ Elements(Latest(g)) \subseteq Elements(g)
    BY <1>1, <1>2, LatestKeeps
  <1> QED
    BY <1>1, <1>2, <1>3, <1>4 DEF g

\* Two histories without repetition and without a common window.
LEMMA EntriesCount ==
  ASSUME NEW h \in Seq(Times), Distinct(h)
  PROVE  IsFiniteSet(Elements(h)) /\ Cardinality(Elements(h)) = Len(h)
  <1> DEFINE f == [i \in 1 .. Len(h) |-> h[i]]
  <1>1. Len(h) \in Nat /\ DOMAIN h = 1 .. Len(h)
    OBVIOUS
  <1>2. f \in Bijection(1 .. Len(h), Elements(h))
    <2>1. f \in [1 .. Len(h) -> Elements(h)]
      BY <1>1 DEF Elements
    <2>2. \A a, b \in 1 .. Len(h) : f[a] = f[b] => a = b
      BY <1>1 DEF Distinct
    <2>3. \A e \in Elements(h) : \E a \in 1 .. Len(h) : f[a] = e
      BY <1>1 DEF Elements
    <2> QED
      BY <2>1, <2>2, <2>3 DEF Bijection, Injection, Surjection, IsInjective
  <1>3. ExistsBijection(1 .. Len(h), Elements(h))
    BY <1>2 DEF ExistsBijection
  <1> QED
    BY <1>1, <1>3, FS_Bijection, FS_Interval, FS_CountingElements

-----------------------------------------------------------------------------
(* What a run makes of a sound state file is sound.                         *)

\* More windows preregistered later, other audits changed.
LEMMA SoundLater ==
  ASSUME NEW P, NEW Q, NEW A, NEW B, NEW f, FileSound(f, P, A),
         P \subseteq Q, \A w \in Elements(f.windows) : B[w] = A[w],
         \A w \in Elements(f.windows), p \in Q \ P : p > w => p >= w + Separation
  PROVE  FileSound(f, Q, B)
  <1>1. Windowed(f, Q)
    BY DEF FileSound, Windowed
  <1>2. Successful(f, Q, B)
    BY DEF FileSound, Successful
  <1> QED
    BY <1>1, <1>2 DEF FileSound

LEMMA AuditedLater ==
  ASSUME NEW P, NEW A, NEW B, NEW f, FileSound(f, P, A), \A w \in Elements(f.windows) : B[w] = A[w]
  PROVE  FileSound(f, P, B)
  <1>1. \A w \in Elements(f.windows), p \in P \ P : p > w => p >= w + Separation
    OBVIOUS
  <1> QED
    BY <1>1, SoundLater

LEMMA FieldsAreTyped ==
  ASSUME NEW f \in StateFiles
  PROVE  /\ f.windows \in Seq(Times) /\ f.failures \in Seq(Times)
         /\ f.consecutive_failures \in Nat /\ f.active \in OptionalTimes
         /\ f.next_eligible \in 0 .. (MaxTime + Separation + Cadence) \cup {None}
         /\ Len(f.windows) \in Nat /\ Len(f.failures) \in Nat
  <1>1. f.windows \in Seq(Times) /\ f.failures \in Seq(Times)
    BY DEF StateFiles
  <1> QED
    BY <1>1 DEF StateFiles

\* The active window becomes a failure.
LEMMA RecoveredSound ==
  ASSUME NEW P \in SUBSET Times, NEW A, NEW f, FileSound(f, P, A)
  PROVE  /\ FileSound(Recovered(f), P, A)
         /\ Recovered(f).active = None /\ Recovered(f).status \in {"IDLE", "DEGRADED"}
         /\ Recovered(f).windows = f.windows
         /\ Recovered(f).next_eligible = f.next_eligible
         /\ Recorded(Recovered(f)) \subseteq Recorded(f) \cup {f.active}
         /\ f.active # None => f.active \in Elements(Recovered(f).failures)
         /\ Len(Recovered(f).failures) = Len(f.failures) + (IF f.active = None THEN 0 ELSE 1)
  <1>1. f \in StateFiles
    BY DEF FileSound
  <1>2. CASE f.active = None
    <2>1. Recovered(f) = f
      BY <1>2 DEF Recovered
    <2>2. f.status \in {"IDLE", "DEGRADED"}
      BY <1>1, <1>2 DEF FileSound, StatusOK, StateFiles
    <2>3. Len(f.failures) \in Nat
      BY <1>1, FieldsAreTyped
    <2> QED
      BY <1>2, <2>1, <2>2, <2>3
  <1>3. CASE f.active # None
    <2> DEFINE g == Recovered(f)
    <2>1. /\ g = [f EXCEPT !.failures = Append(f.failures, f.active), !.active = None,
                           !.consecutive_failures = f.consecutive_failures + 1, !.status = "DEGRADED"]
      BY <1>3 DEF Recovered
    <2>2. /\ f.failures \in Seq(Times) /\ Distinct(f.failures)
          /\ f.active \in Times /\ f.active \notin Elements(f.failures) /\ f.active \in P
          /\ f.active \notin Elements(f.windows)
      BY <1>1, <1>3, FieldsAreTyped DEF FileSound, Windowed, Recorded, OptionalTimes
    <2>3. /\ Append(f.failures, f.active) \in Seq(Times) /\ Distinct(Append(f.failures, f.active))
          /\ Len(Append(f.failures, f.active)) = Len(f.failures) + 1
          /\ Elements(Append(f.failures, f.active)) = Elements(f.failures) \cup {f.active}
      BY <2>2, AppendKeeps
    <2>4. /\ g.failures = Append(f.failures, f.active) /\ g.active = None
          /\ g.consecutive_failures = f.consecutive_failures + 1 /\ g.status = "DEGRADED"
          /\ g.windows = f.windows /\ g.next_eligible = f.next_eligible
      BY <1>1, <2>1 DEF StateFiles
    <2>5. g \in StateFiles
      <3> DEFINE h == Append(f.failures, f.active)
                 n == f.consecutive_failures + 1
      <3>1. h \in Seq(Times) /\ n \in Nat /\ None \in OptionalTimes
        BY <1>1, <2>3, FieldsAreTyped DEF OptionalTimes
      <3>2. g = [f EXCEPT !.failures = h, !.active = None, !.consecutive_failures = n, !.status = "DEGRADED"]
        BY <2>1
      <3> HIDE DEF h, n, g
      <3> QED
        BY <1>1, <3>1, <3>2 DEF StateFiles
    <2> HIDE DEF g
    <2>6. Windowed(g, P)
      <3>1. Times \subseteq Int
        BY Configured DEF Times
      <3>2. None \notin P
        BY <3>1, Configured
      <3> QED
        BY <2>2, <2>3, <2>4, <3>2 DEF FileSound, Windowed, Recorded
    <2>7. Successful(g, P, A)
      BY <2>4 DEF FileSound, Successful
    <2>8. StatusOK(g)
      BY <1>1, <2>4, FieldsAreTyped DEF StatusOK
    <2>9. Recorded(g) \subseteq Recorded(f) \cup {f.active}
      BY <2>3, <2>4 DEF Recorded
    <2> QED
      BY <1>3, <2>3, <2>4, <2>5, <2>6, <2>7, <2>8, <2>9 DEF FileSound, g
  <1> QED
    BY <1>2, <1>3

LEMMA BlockedSound ==
  ASSUME NEW P, NEW A, NEW f, FileSound(f, P, A)
  PROVE  /\ FileSound(Blocked(f), P, A)
         /\ Blocked(f).active = f.active /\ Blocked(f).windows = f.windows
         /\ Blocked(f).failures = f.failures
  <1> DEFINE g == Blocked(f)
  <1>1. f \in StateFiles
    BY DEF FileSound
  <1>2. /\ g.active = f.active /\ g.windows = f.windows /\ g.failures = f.failures
        /\ g.next_eligible = f.next_eligible /\ g.consecutive_failures = f.consecutive_failures
        /\ g.status = "DEGRADED" /\ g.storage_guard = TRUE /\ g \in StateFiles
    BY <1>1 DEF Blocked, StateFiles
  <1> HIDE DEF g
  <1>3. Windowed(g, P) /\ Successful(g, P, A)
    BY <1>2 DEF FileSound, Windowed, Successful, Recorded
  <1>4. StatusOK(g)
    BY <1>2 DEF StatusOK
  <1> QED
    BY <1>2, <1>3, <1>4 DEF FileSound, g

LEMMA NotDueSound ==
  ASSUME NEW P \in SUBSET Times, NEW A, NEW f, FileSound(f, P, A)
  PROVE  /\ FileSound(NotDue(f), P, A)
         /\ NotDue(f).active = None /\ NotDue(f).failures = Recovered(f).failures
  <1> DEFINE r == Recovered(f)
             g == NotDue(f)
  <1>1. FileSound(r, P, A) /\ r.active = None /\ r.status \in {"IDLE", "DEGRADED"}
    BY RecoveredSound
  <1>2. r \in StateFiles
    BY <1>1 DEF FileSound
  <1>3. g = [r EXCEPT !.status = IF r.status = "DEGRADED" THEN r.status ELSE "IDLE"]
    BY DEF NotDue
  <1> HIDE DEF r, g
  <1>4. g = [r EXCEPT !.status = r.status]
    BY <1>1, <1>3
  <1>5. g = r
    BY <1>2, <1>4 DEF StateFiles
  <1> QED
    BY <1>1, <1>5 DEF r, g

LEMMA AnnouncedSound ==
  ASSUME NEW P \in SUBSET Times, NEW A, NEW f, FileSound(f, P, A),
         NEW t \in P, t \notin Recorded(f) \cup {f.active}
  PROVE  /\ FileSound(Announced(f, t), P, A)
         /\ Announced(f, t).active = t /\ Announced(f, t).failures = Recovered(f).failures
         /\ Announced(f, t).windows = f.windows
  <1> DEFINE r == Recovered(f)
             g == Announced(f, t)
  <1>1. /\ FileSound(r, P, A) /\ t \notin Recorded(r) /\ r.windows = f.windows
    BY RecoveredSound
  <1>2. r \in StateFiles /\ t \in Times
    BY <1>1 DEF FileSound
  <1>3. /\ g.active = t /\ g.windows = r.windows /\ g.failures = r.failures
        /\ g.next_eligible = r.next_eligible /\ g.status = "CAPTURING" /\ g \in StateFiles
    BY <1>2 DEF Announced, StateFiles, OptionalTimes
  <1> HIDE DEF r, g
  <1>4. Windowed(g, P) /\ Successful(g, P, A)
    BY <1>1, <1>3 DEF FileSound, Windowed, Successful, Recorded
  <1>5. StatusOK(g)
    BY <1>2, <1>3, Configured DEF StatusOK, Times
  <1> QED
    BY <1>1, <1>3, <1>4, <1>5 DEF FileSound, r, g

LEMMA SucceededSound ==
  ASSUME NEW P \in SUBSET Times, NEW A, NEW f, FileSound(f, P, A),
         NEW t \in Times, f.active = t, A[t] = "VALID", Apart(f, t), \A p \in P : p <= t,
         NEW at \in Times
  PROVE  /\ FileSound(Succeeded(f, t, at), P, A)
         /\ Succeeded(f, t, at).active = None /\ t \in Elements(Succeeded(f, t, at).windows)
         /\ Len(Succeeded(f, t, at).failures) <= MaxHistory
  <1> DEFINE g == Succeeded(f, t, at)
             w == Latest(Append(f.windows, t))
             x == Latest(f.failures)
             e == t + Separation
  <1>1. f \in StateFiles /\ t # None /\ t \in Int /\ e \in 0 .. (MaxTime + Separation + Cadence) /\ e # None
    BY Configured DEF FileSound, Times
  <1>2. /\ f.windows \in Seq(Times) /\ Distinct(f.windows) /\ f.failures \in Seq(Times)
        /\ Distinct(f.failures) /\ t \notin Elements(f.windows) /\ t \notin Elements(f.failures) /\ t \in P
        /\ Elements(f.windows) \cap Elements(f.failures) = {} /\ Recorded(f) \subseteq P
    BY <1>1, FieldsAreTyped DEF FileSound, Windowed, Recorded
  <1>3. Append(f.windows, t) \in Seq(Times) /\ Distinct(Append(f.windows, t))
        /\ t \in Elements(w) /\ Elements(w) \subseteq Elements(f.windows) \cup {t}
    BY <1>2, AppendKeeps
  <1>4. w \in Seq(Times) /\ Distinct(w) /\ Len(w) <= MaxHistory
    BY <1>3, LatestKeeps
  <1>5. /\ x \in Seq(Times) /\ Distinct(x) /\ Len(x) <= MaxHistory
        /\ Elements(x) \subseteq Elements(f.failures)
    BY <1>2, LatestKeeps
  <1>6. g = [f EXCEPT !.windows = w, !.failures = x, !.status = "IDLE", !.active = None,
                      !.last_success = at, !.next_eligible = e, !.consecutive_failures = 0]
    BY DEF Succeeded
  <1> HIDE DEF g, w, x, e
  <1>7. /\ g \in StateFiles /\ g.windows = w /\ g.failures = x /\ g.status = "IDLE"
        /\ g.active = None /\ g.next_eligible = e /\ g.consecutive_failures = 0
    BY <1>1, <1>4, <1>5, <1>6 DEF StateFiles, OptionalTimes
  <1>8. Windowed(g, P)
    <2>1. None \notin P
      <3>1. Times \subseteq Int
        BY Configured DEF Times
      <3> QED
        BY <3>1, Configured
    <2> QED
      BY <1>2, <1>3, <1>4, <1>5, <1>7, <2>1 DEF Windowed, Recorded
  <1>9. Successful(g, P, A)
    <2> SUFFICES ASSUME NEW v \in Elements(w)
                 PROVE  /\ A[v] = "VALID" /\ e # None /\ e >= v + Separation
                        /\ \A p \in P : p > v => p >= v + Separation
      BY <1>7 DEF Successful
    <2>1. CASE v = t
      <3>1. \A p \in P : p \in Int /\ ~ p > t
        BY <1>1, Configured DEF Times
      <3> QED
        BY <1>1, <2>1, <3>1, Configured DEF e
    <2>2. CASE v \in Elements(f.windows)
      <3>1. v \in Int /\ v + Separation <= t
        <4>1. v \in Times
          BY <1>2, <2>2 DEF Elements
        <4> QED
          BY <1>1, <2>2, <4>1, Configured DEF Apart, Times
      <3>2. e >= v + Separation
        BY <1>1, <3>1, Configured DEF e
      <3>3. A[v] = "VALID" /\ \A p \in P : p > v => p >= v + Separation
        BY <2>2 DEF FileSound, Successful
      <3> QED
        BY <1>1, <3>2, <3>3
    <2> QED
      BY <1>3, <2>1, <2>2
  <1>10. StatusOK(g)
    BY <1>7, Configured DEF StatusOK
  <1> QED
    BY <1>3, <1>5, <1>7, <1>8, <1>9, <1>10 DEF FileSound, g

LEMMA FailedSound ==
  ASSUME NEW P \in SUBSET Times, NEW A, NEW f, FileSound(f, P, A),
         NEW t \in Times, f.active = t, Apart(f, t)
  PROVE  /\ FileSound(Failed(f, t), P, A)
         /\ Failed(f, t).active = None /\ t \in Elements(Failed(f, t).failures)
         /\ Len(Failed(f, t).failures) <= MaxHistory
  <1> DEFINE g == Failed(f, t)
             x == Latest(Append(f.failures, t))
             e == t + Cadence
             n == f.consecutive_failures + 1
             status == IF n >= DegradedAfter THEN "DEGRADED" ELSE "IDLE"
  <1>1. f \in StateFiles /\ t # None /\ t \in Int /\ e \in 0 .. (MaxTime + Separation + Cadence) /\ e # None
    BY Configured DEF FileSound, Times
  <1>2. /\ f.windows \in Seq(Times) /\ Distinct(f.windows) /\ f.failures \in Seq(Times)
        /\ Distinct(f.failures) /\ t \notin Elements(f.windows) /\ t \notin Elements(f.failures) /\ t \in P
        /\ Elements(f.windows) \cap Elements(f.failures) = {} /\ Recorded(f) \subseteq P
        /\ Len(f.windows) <= MaxHistory
    BY <1>1, FieldsAreTyped DEF FileSound, Windowed, Recorded
  <1>3. Append(f.failures, t) \in Seq(Times) /\ Distinct(Append(f.failures, t))
        /\ t \in Elements(x) /\ Elements(x) \subseteq Elements(f.failures) \cup {t}
    BY <1>2, AppendKeeps
  <1>4. x \in Seq(Times) /\ Distinct(x) /\ Len(x) <= MaxHistory
    BY <1>3, LatestKeeps
  <1>5. n \in Nat /\ n > 0 /\ status \in {"IDLE", "DEGRADED"} /\ (status = "IDLE" => n < DegradedAfter)
    BY <1>1, FieldsAreTyped, Configured
  <1>6. g = [f EXCEPT !.failures = x, !.active = None, !.consecutive_failures = n, !.status = status,
                      !.next_eligible = e]
    BY DEF Failed
  <1> HIDE DEF g, x, e, n, status
  <1>7. /\ g \in StateFiles /\ g.windows = f.windows /\ g.failures = x /\ g.status = status
        /\ g.active = None /\ g.next_eligible = e /\ g.consecutive_failures = n
    BY <1>1, <1>4, <1>5, <1>6 DEF StateFiles, OptionalTimes
  <1>8. Windowed(g, P)
    <2>1. None \notin P
      <3>1. Times \subseteq Int
        BY Configured DEF Times
      <3> QED
        BY <3>1, Configured
    <2> QED
      BY <1>2, <1>3, <1>4, <1>7, <2>1 DEF Windowed, Recorded
  <1>9. Successful(g, P, A)
    <2> SUFFICES ASSUME NEW v \in Elements(f.windows)
                 PROVE  /\ A[v] = "VALID" /\ e # None /\ e >= v + Separation
                        /\ \A p \in P : p > v => p >= v + Separation
      BY <1>7 DEF Successful
    <2>1. v \in Int /\ v + Separation <= t
      <3>1. v \in Times
        BY <1>2 DEF Elements
      <3> QED
        BY <1>1, <3>1, Configured DEF Apart, Times
    <2>2. e >= v + Separation
      BY <1>1, <2>1, Configured DEF e
    <2>3. A[v] = "VALID" /\ \A p \in P : p > v => p >= v + Separation
      BY DEF FileSound, Successful
    <2> QED
      BY <1>1, <2>2, <2>3
  <1>10. StatusOK(g)
    BY <1>5, <1>7, Configured DEF StatusOK
  <1> QED
    BY <1>3, <1>4, <1>7, <1>8, <1>9, <1>10 DEF FileSound, g

\* What the schedule lets start keeps its distance from every success.
LEMMA DueIsApart ==
  ASSUME NEW P \in SUBSET Times, NEW A, NEW f, FileSound(f, P, A), NEW t \in Times, Due(Recovered(f), t)
  PROVE  Apart(f, t)
  <1> SUFFICES ASSUME NEW w \in Elements(f.windows) PROVE t >= w + Separation
    BY DEF Apart
  <1>1. f \in StateFiles /\ w \in Times
    BY FieldsAreTyped DEF FileSound, Elements
  <1>2. f.next_eligible # None /\ f.next_eligible >= w + Separation
    BY DEF FileSound, Successful
  <1>3. t >= f.next_eligible
    BY <1>2, RecoveredSound DEF Due
  <1>4. f.next_eligible \in Int
    BY <1>1, <1>2, FieldsAreTyped, Configured
  <1> QED
    BY <1>1, <1>2, <1>3, <1>4, Configured DEF Times
-----------------------------------------------------------------------------
(* Steps of the one observer.                                               *)

LEMMA IdleSound == FileSound(IdleState, {}, [t \in Times |-> None])
  <1>1. IdleState \in StateFiles
    BY DEF IdleState, StateFiles, OptionalTimes
  <1>2. /\ IdleState.windows = <<>> /\ IdleState.failures = <<>> /\ IdleState.active = None
        /\ IdleState.status = "IDLE" /\ IdleState.consecutive_failures = 0
    BY DEF IdleState
  <1>3. Elements(<<>>) = {} /\ Distinct(<<>>) /\ Len(<<>>) = 0
    BY DEF Elements, Distinct
  <1> QED
    BY <1>1, <1>2, <1>3, Configured DEF FileSound, Windowed, Successful, StatusOK, Recorded

\* The storage used is a number, and a window adds a file at a time.
LEMMA UsedIsNumber ==
  ASSUME NEW P \in SUBSET Times, NEW J \in SUBSET Times
  PROVE  /\ Cardinality(P) + Cardinality(J) \in Nat
         /\ \A t \in Times : Cardinality(P \cup {t}) + Cardinality(J) <= Cardinality(P) + Cardinality(J) + 1
         /\ \A t \in Times : Cardinality(P) + Cardinality(J \cup {t}) <= Cardinality(P) + Cardinality(J) + 1
         /\ \A t \in Times : Cardinality(P) + Cardinality(J \ {t}) <= Cardinality(P) + Cardinality(J)
  <1>1. IsFiniteSet(Times)
    BY Configured, FS_Interval DEF Times
  <1>2. \A S \in SUBSET Times : IsFiniteSet(S) /\ Cardinality(S) \in Nat
    BY <1>1, FS_Subset, FS_CardinalityType
  <1>3. ASSUME NEW S \in SUBSET Times, NEW t \in Times
        PROVE  /\ Cardinality(S \cup {t}) \in Nat /\ Cardinality(S \cup {t}) <= Cardinality(S) + 1
               /\ Cardinality(S \ {t}) \in Nat /\ Cardinality(S \ {t}) <= Cardinality(S)
    <2>1. S \cup {t} \in SUBSET Times /\ S \ {t} \in SUBSET Times
      OBVIOUS
    <2>2. IsFiniteSet(S) /\ Cardinality(S) \in Nat /\ Cardinality(S \cup {t}) \in Nat /\ Cardinality(S \ {t}) \in Nat
      BY <1>2, <2>1
    <2>3. Cardinality(S \cup {t}) = IF t \in S THEN Cardinality(S) ELSE Cardinality(S) + 1
      BY <2>2, FS_AddElement
    <2>4. Cardinality(S \ {t}) = IF t \in S THEN Cardinality(S) - 1 ELSE Cardinality(S)
      BY <2>2, FS_RemoveElement
    <2> QED
      BY <2>2, <2>3, <2>4
  <1>4. Cardinality(P) \in Nat /\ Cardinality(J) \in Nat
    BY <1>2
  <1>5. Cardinality(P) + Cardinality(J) \in Nat
    BY <1>4
  <1>6. ASSUME NEW t \in Times
        PROVE  /\ Cardinality(P \cup {t}) + Cardinality(J) <= Cardinality(P) + Cardinality(J) + 1
               /\ Cardinality(P) + Cardinality(J \cup {t}) <= Cardinality(P) + Cardinality(J) + 1
               /\ Cardinality(P) + Cardinality(J \ {t}) <= Cardinality(P) + Cardinality(J)
    <2>1. /\ Cardinality(P \cup {t}) \in Nat /\ Cardinality(P \cup {t}) <= Cardinality(P) + 1
          /\ Cardinality(J \cup {t}) \in Nat /\ Cardinality(J \cup {t}) <= Cardinality(J) + 1
          /\ Cardinality(J \ {t}) \in Nat /\ Cardinality(J \ {t}) <= Cardinality(J)
      BY <1>3
    <2> QED
      BY <1>4, <2>1
  <1> QED
    BY <1>5, <1>6

LEMMA EndEnds ==
  ASSUME NEW o, Observers = {o}, ObserverTypeOK, End(o)
  PROVE  /\ step' = [step EXCEPT ![o] = "idle"] /\ started' = [started EXCEPT ![o] = 0]
         /\ step'[o] = "idle" /\ started'[o] = 0
         /\ step' \in [Observers -> {"idle", "block", "open", "write", "examine", "move_aside",
                             "load", "not_due", "preregister", "announce", "open_journal",
                             "capture", "audit_valid", "record_success", "record_failure",
                             "audit_rejected", "release", "unlink", "compact"}]
         /\ started' \in [Observers -> Times] /\ tries' \in [Observers -> 0..2]
         /\ state' \in [Observers -> StateFiles] /\ captured' \in [Observers -> BOOLEAN]
  <1>1. IdleState \in StateFiles /\ 0 \in Times
    BY IdleSound, Configured DEF FileSound, Times
  <1> QED
    BY <1>1 DEF ObserverTypeOK, End, GoTo

LEMMA QuietStep ==
  ASSUME NEW o, Observers = {o}, ObserverInductive(o), ObserverTypeOK',
         now' = now, file' = file, UNCHANGED evidence,
         interruptions' \in Nat, interruptions' >= interruptions,
         started'[o] <= now, step'[o] # "idle" => \A p \in preregistered : p <= started'[o],
         step'[o] \in Starting => Used < MaxStorage,
         step'[o] \in {"announce", "open_journal"} => Used < MaxStorage + 1,
         Interrupted(o)' => Interrupted(o) \/ interruptions' = interruptions + 1,
         RunOK(o)'
  PROVE  ObserverInductive(o)'
  <1>1. preregistered' = preregistered /\ audit' = audit /\ journals' = journals
    BY DEF evidence
  <1>2. FileSound(file', preregistered', audit')
    BY <1>1 DEF ObserverInductive
  <1>3. ClockOK(o)'
    BY <1>1 DEF ObserverInductive, ClockOK
  <1>4. StorageOK(o)'
    BY <1>1 DEF ObserverInductive, StorageOK, Used
  <1>5. Len(file.failures) \in Nat /\ interruptions \in Nat
    BY Configured, FieldsAreTyped DEF ObserverInductive, ObserverTypeOK
  <1>6. FailuresOK(o)'
    BY <1>1, <1>5, Configured DEF ObserverInductive, FailuresOK
  <1> QED
    BY <1>2, <1>3, <1>4, <1>6 DEF ObserverInductive

LEMMA InTypes ==
  ASSUME NEW o, Observers = {o}, ObserverInductive(o)
  PROVE  /\ preregistered \in SUBSET Times /\ journals \in SUBSET Times
         /\ now \in Times /\ started[o] \in Times /\ state[o] \in StateFiles /\ file \in StateFiles
         /\ interruptions \in Nat /\ Used \in Nat /\ Len(file.failures) \in Nat
         /\ started[o] \in Int /\ now \in Int /\ 0 \in Times /\ \A p \in Times : p \in Int /\ 0 <= p
         /\ started[o] # None
  <1>1. /\ preregistered \in SUBSET Times /\ journals \in SUBSET Times
        /\ now \in Times /\ started[o] \in Times /\ state[o] \in StateFiles /\ file \in StateFiles
        /\ interruptions \in Nat
    BY Configured DEF ObserverInductive, ObserverTypeOK
  <1>2. Used \in Nat
    BY <1>1, UsedIsNumber DEF Used
  <1>3. Len(file.failures) \in Nat
    BY <1>1, FieldsAreTyped
  <1>4. 0 \in Times /\ \A p \in Times : p \in Int /\ 0 <= p
    BY Configured DEF Times
  <1> QED
    BY <1>1, <1>2, <1>3, <1>4, Configured

\* Steps that leave the files alone.
LEMMA QuietActions ==
  ASSUME NEW o, Observers = {o}, ObserverInductive(o),
         \/ Begin(o) \/ StorageBlocked(o) \/ Open(o) \/ WriteLock(o) \/ Examine(o) \/ MoveAside(o)
         \/ Load(o) \/ Capture(o) \/ CheckToken(o) \/ Unlink(o) \/ Dies(o) \/ Cancel(o)
  PROVE  ObserverInductive(o)'
  <1>1. /\ preregistered \in SUBSET Times /\ journals \in SUBSET Times
        /\ now \in Times /\ started[o] \in Times /\ state[o] \in StateFiles /\ file \in StateFiles
        /\ interruptions \in Nat /\ Used \in Nat
        /\ started[o] \in Int /\ now \in Int /\ 0 \in Times /\ \A p \in Times : p \in Int /\ 0 <= p
    BY InTypes
  <1>2. ObserverTypeOK /\ FileSound(file, preregistered, audit) /\ ClockOK(o) /\ StorageOK(o) /\ FailuresOK(o) /\ RunOK(o)
    BY DEF ObserverInductive
  <1>3. now' = now /\ file' = file /\ UNCHANGED evidence
    BY DEF Begin, StorageBlocked, Open, WriteLock, Examine, MoveAside, Load, Capture, CheckToken, Unlink, Dies, Cancel
  <1>4. CASE Begin(o)
    <2>1. /\ step[o] = "idle" /\ step'[o] = "open" /\ started'[o] = now /\ interruptions' = interruptions /\ Used < MaxStorage
      BY <1>2, <1>4, <1>1 DEF Begin, GoTo, Released, ObserverTypeOK, locals, Working
    <2>2. ObserverTypeOK'
      BY <1>1, <1>2, <1>3, <1>4, Configured DEF Begin, GoTo, Released, ObserverTypeOK, locals, evidence
    <2>3. RunOK(o)'
      BY <1>2, <1>3, <2>1 DEF RunOK, Working
    <2> QED
      BY <1>1, <1>2, <1>3, <2>1, <2>2, <2>3, QuietStep DEF ClockOK, StorageOK, Starting, Interrupted, Working
  <1>5. CASE StorageBlocked(o)
    <2>1. /\ step[o] = "idle" /\ step'[o] = "block" /\ started'[o] = now /\ interruptions' = interruptions /\ state'[o] = file
      BY <1>2, <1>5, <1>1 DEF StorageBlocked, GoTo, Released, ObserverTypeOK, locals, Working
    <2>2. ObserverTypeOK'
      BY <1>1, <1>2, <1>3, <1>5, Configured DEF StorageBlocked, GoTo, Released, ObserverTypeOK, locals, evidence
    <2>3. RunOK(o)'
      BY <1>2, <1>3, <2>1 DEF RunOK, Working
    <2> QED
      BY <1>1, <1>2, <1>3, <2>1, <2>2, <2>3, QuietStep DEF ClockOK, StorageOK, Starting, Interrupted, Working
  <1>6. CASE Open(o)
    <2>1. /\ step[o] = "open" /\ step'[o] \in {"write", "examine"} /\ UNCHANGED <<started, interruptions>>
      BY <1>2, <1>6, <1>1 DEF Open, GoTo, Released, ObserverTypeOK, locals, Working
    <2>2. ObserverTypeOK'
      BY <1>1, <1>2, <1>3, <1>6, Configured DEF Open, GoTo, Released, ObserverTypeOK, locals, evidence
    <2>3. RunOK(o)'
      BY <1>2, <1>3, <2>1 DEF RunOK, Working
    <2> QED
      BY <1>1, <1>2, <1>3, <2>1, <2>2, <2>3, QuietStep DEF ClockOK, StorageOK, Starting, Interrupted, Working
  <1>7. CASE WriteLock(o)
    <2>1. /\ step[o] = "write" /\ step'[o] = "load" /\ UNCHANGED <<started, interruptions>>
      BY <1>2, <1>7, <1>1 DEF WriteLock, GoTo, Released, ObserverTypeOK, locals, Working
    <2>2. ObserverTypeOK'
      BY <1>1, <1>2, <1>3, <1>7, Configured DEF WriteLock, GoTo, Released, ObserverTypeOK, locals, evidence
    <2>3. RunOK(o)'
      BY <1>2, <1>3, <2>1 DEF RunOK, Working
    <2> QED
      BY <1>1, <1>2, <1>3, <2>1, <2>2, <2>3, QuietStep DEF ClockOK, StorageOK, Starting, Interrupted, Working
  <1>8. CASE Examine(o)
    <2>1. /\ step[o] = "examine" /\ interruptions' = interruptions
          /\ \/ step'[o] = "move_aside" /\ started' = started
             \/ step'[o] = "idle" /\ started'[o] = 0
      BY <1>2, <1>8, EndEnds, <1>1 DEF Examine, GoTo, Released, ObserverTypeOK, locals, Working
    <2>2. ObserverTypeOK'
      BY <1>1, <1>2, <1>3, <1>8, EndEnds, Configured DEF Examine, GoTo, Released, ObserverTypeOK, locals, evidence
    <2>3. RunOK(o)'
      BY <1>2, <1>3, <2>1 DEF RunOK, Working
    <2> QED
      BY <1>1, <1>2, <1>3, <2>1, <2>2, <2>3, QuietStep DEF ClockOK, StorageOK, Starting, Interrupted, Working
  <1>9. CASE MoveAside(o)
    <2>1. /\ step[o] = "move_aside" /\ interruptions' = interruptions
          /\ \/ step'[o] = "open" /\ started' = started
             \/ step'[o] = "idle" /\ started'[o] = 0
      BY <1>2, <1>9, EndEnds, <1>1 DEF MoveAside, GoTo, Released, ObserverTypeOK, locals, Working
    <2>2. ObserverTypeOK'
      BY <1>1, <1>2, <1>3, <1>9, EndEnds, Configured DEF MoveAside, GoTo, Released, ObserverTypeOK, locals, evidence
    <2>3. RunOK(o)'
      BY <1>2, <1>3, <2>1 DEF RunOK, Working
    <2> QED
      BY <1>1, <1>2, <1>3, <2>1, <2>2, <2>3, QuietStep DEF ClockOK, StorageOK, Starting, Interrupted, Working
  <1>10. CASE Load(o)
    <2>1. Recovered(file) \in StateFiles /\ NotDue(file) \in StateFiles
      BY <1>1, <1>2, RecoveredSound, NotDueSound DEF FileSound
    <2>2. /\ step[o] = "load" /\ started' = started /\ interruptions' = interruptions
          /\ \/ state'[o] = Recovered(file) /\ Due(state'[o], started[o]) /\ step'[o] = "preregister"
             \/ state'[o] = NotDue(file) /\ step'[o] = "not_due"
      BY <1>2, <1>10 DEF Load, GoTo, NotDue, ObserverTypeOK
    <2>3. ObserverTypeOK'
      BY <1>2, <1>3, <1>10, <2>1 DEF Load, GoTo, NotDue, ObserverTypeOK, evidence
    <2>4. RunOK(o)'
      BY <1>3, <2>2 DEF RunOK, Working
    <2> QED
      BY <1>1, <1>2, <1>3, <2>2, <2>3, <2>4, QuietStep DEF ClockOK, StorageOK, Starting, Interrupted, Working
  <1>11. CASE Capture(o)
    <2>1. /\ step[o] \in {"open_journal", "capture"} /\ step'[o] \in {"audit_valid", "record_failure"}
          /\ UNCHANGED <<started, state, interruptions>>
      BY <1>2, <1>11, <1>1 DEF Capture, GoTo, Released, ObserverTypeOK, locals, Working
    <2>2. ObserverTypeOK'
      BY <1>1, <1>2, <1>3, <1>11, Configured DEF Capture, GoTo, Released, ObserverTypeOK, locals, evidence
    <2>3. RunOK(o)'
      BY <1>2, <1>3, <2>1 DEF RunOK, Working, evidence
    <2> QED
      BY <1>1, <1>2, <1>3, <2>1, <2>2, <2>3, QuietStep DEF ClockOK, StorageOK, Starting, Interrupted, Working
  <1>12. CASE CheckToken(o)
    <2>1. /\ step[o] = "release" /\ interruptions' = interruptions
          /\ \/ step'[o] \in {"unlink", "compact"} /\ started' = started
             \/ step'[o] = "idle" /\ started'[o] = 0
      BY <1>2, <1>12, EndEnds, <1>1 DEF CheckToken, GoTo, Released, ObserverTypeOK, locals, Working
    <2>2. ObserverTypeOK'
      BY <1>1, <1>2, <1>3, <1>12, EndEnds, Configured DEF CheckToken, GoTo, Released, ObserverTypeOK, locals, evidence
    <2>3. RunOK(o)'
      BY <1>2, <1>3, <2>1 DEF RunOK, Working
    <2> QED
      BY <1>1, <1>2, <1>3, <2>1, <2>2, <2>3, QuietStep DEF ClockOK, StorageOK, Starting, Interrupted, Working
  <1>13. CASE Unlink(o)
    <2>1. /\ step[o] = "unlink" /\ interruptions' = interruptions
          /\ \/ step'[o] = "compact" /\ started' = started
             \/ step'[o] = "idle" /\ started'[o] = 0
      BY <1>2, <1>13, EndEnds, <1>1 DEF Unlink, GoTo, Released, ObserverTypeOK, locals, Working
    <2>2. ObserverTypeOK'
      BY <1>1, <1>2, <1>3, <1>13, EndEnds, Configured DEF Unlink, GoTo, Released, ObserverTypeOK, locals, evidence
    <2>3. RunOK(o)'
      BY <1>2, <1>3, <2>1 DEF RunOK, Working
    <2> QED
      BY <1>1, <1>2, <1>3, <2>1, <2>2, <2>3, QuietStep DEF ClockOK, StorageOK, Starting, Interrupted, Working
  <1>14. CASE Dies(o)
    <2>1. /\ step'[o] = "idle" /\ started'[o] = 0 /\ interruptions' = interruptions + 1
      BY <1>2, <1>14, EndEnds, <1>1 DEF Dies, GoTo, Released, ObserverTypeOK, locals, Working
    <2>2. ObserverTypeOK'
      BY <1>1, <1>2, <1>3, <1>14, EndEnds, Configured DEF Dies, GoTo, Released, ObserverTypeOK, locals, evidence
    <2>3. RunOK(o)'
      BY <1>2, <1>3, <2>1 DEF RunOK, Working
    <2> QED
      BY <1>1, <1>2, <1>3, <2>1, <2>2, <2>3, QuietStep DEF ClockOK, StorageOK, Starting, Interrupted, Working
  <1>15. CASE Cancel(o)
    <2>1. /\ step[o] \in Working /\ step'[o] = "release" /\ started' = started /\ interruptions' = interruptions + 1
      BY <1>2, <1>15, <1>1 DEF Cancel, GoTo, Released, ObserverTypeOK, locals, Working
    <2>2. ObserverTypeOK'
      BY <1>1, <1>2, <1>3, <1>15, Configured DEF Cancel, GoTo, Released, ObserverTypeOK, locals, evidence
    <2>3. RunOK(o)'
      BY <1>2, <1>3, <2>1 DEF RunOK, Working
    <2> QED
      BY <1>1, <1>2, <1>3, <2>1, <2>2, <2>3, QuietStep DEF ClockOK, StorageOK, Starting, Interrupted, Working
  <1> QED
    BY <1>4, <1>5, <1>6, <1>7, <1>8, <1>9, <1>10, <1>11, <1>12, <1>13, <1>14, <1>15

\* Steps that change the files.
LEMMA LoudActions ==
  ASSUME NEW o, Observers = {o}, ObserverInductive(o),
         \/ PersistBlock(o) \/ PersistNotDue(o) \/ Preregister(o) \/ Announce(o) \/ OpenJournal(o)
         \/ AuditValid(o) \/ RecordSuccess(o) \/ RecordFailure(o) \/ AuditRejected(o) \/ Compact(o) \/ Tick
  PROVE  ObserverInductive(o)'
  <1> DEFINE t == started[o]
             P == preregistered
  <1>1. /\ P \in SUBSET Times /\ journals \in SUBSET Times
        /\ now \in Times /\ t \in Times /\ state[o] \in StateFiles /\ file \in StateFiles
        /\ interruptions \in Nat /\ Used \in Nat /\ Len(file.failures) \in Nat
        /\ t \in Int /\ now \in Int /\ 0 \in Times /\ \A p \in Times : p \in Int /\ 0 <= p
        /\ t # None
    BY InTypes
  <1>2. ObserverTypeOK /\ FileSound(file, P, audit) /\ ClockOK(o) /\ StorageOK(o) /\ FailuresOK(o) /\ RunOK(o)
    BY DEF ObserverInductive
  <1>3. /\ FileSound(Recovered(file), P, audit) /\ Recovered(file).active = None
        /\ Recovered(file).windows = file.windows /\ Recovered(file).next_eligible = file.next_eligible
        /\ Len(Recovered(file).failures) = Len(file.failures) + (IF file.active = None THEN 0 ELSE 1)
        /\ Recovered(file) \in StateFiles
    BY <1>1, <1>2, RecoveredSound DEF FileSound
  <1>4. CASE PersistBlock(o)
    <2>1. /\ step[o] = "block" /\ file' = Blocked(file) /\ step'[o] = "idle" /\ started'[o] = 0
          /\ UNCHANGED <<now, preregistered, audit, journals, interruptions>>
      BY <1>2, <1>4, EndEnds DEF PersistBlock, evidence, RunOK, Blocked
    <2>2. /\ FileSound(file', P, audit) /\ file'.active = file.active /\ file'.failures = file.failures
      BY <1>2, <2>1, BlockedSound
    <2>3. ObserverTypeOK'
      BY <1>2, <1>4, <2>1, <2>2, EndEnds DEF PersistBlock, ObserverTypeOK, FileSound, evidence
    <2>4. ClockOK(o)' /\ StorageOK(o)' /\ RunOK(o)'
      BY <1>1, <1>2, <2>1 DEF ClockOK, StorageOK, RunOK, Used, Starting, Working
    <2>5. FailuresOK(o)'
      BY <1>2, <2>1, <2>2 DEF FailuresOK, Interrupted, Working
    <2> QED
      BY <2>1, <2>2, <2>3, <2>4, <2>5 DEF ObserverInductive
  <1>5. CASE PersistNotDue(o)
    <2>1. /\ step[o] = "not_due" /\ file' = NotDue(file) /\ step'[o] = "release"
          /\ UNCHANGED <<now, preregistered, audit, journals, interruptions, started>>
      BY <1>2, <1>5 DEF PersistNotDue, GoTo, evidence, locals, RunOK, ObserverTypeOK
    <2>2. /\ FileSound(file', P, audit) /\ file'.active = None
          /\ Len(file'.failures) = Len(file.failures) + (IF file.active = None THEN 0 ELSE 1)
      BY <1>1, <1>2, <1>3, <2>1, NotDueSound
    <2>3. ObserverTypeOK'
      BY <1>2, <1>5, <2>1, <2>2 DEF PersistNotDue, GoTo, locals, ObserverTypeOK, FileSound, evidence
    <2>4. ClockOK(o)' /\ StorageOK(o)' /\ RunOK(o)'
      BY <1>1, <1>2, <2>1 DEF ClockOK, StorageOK, RunOK, Used, Starting, Working
    <2>5. FailuresOK(o)'
      <3>1. ~ Interrupted(o)' /\ Len(file'.failures) <= MaxHistory + interruptions
        <4>1. CASE file.active = None
          BY <1>2, <2>1, <2>2, <4>1 DEF FailuresOK, Interrupted, Working
        <4>2. CASE file.active # None
          <5>1. Len(file.failures) + 1 <= MaxHistory + interruptions /\ Len(file'.failures) = Len(file.failures) + 1
            BY <1>2, <2>1, <2>2, <4>2 DEF FailuresOK, Interrupted, Working
          <5> QED
            BY <2>1, <2>2, <5>1 DEF Interrupted, Working
        <4> QED
          BY <4>1, <4>2
      <3> QED
        BY <2>1, <3>1 DEF FailuresOK
    <2> QED
      BY <2>1, <2>2, <2>3, <2>4, <2>5 DEF ObserverInductive
  <1>6. CASE Preregister(o)
    <2>1. /\ step[o] = "preregister" /\ state[o] = Recovered(file) /\ Due(Recovered(file), t)
          /\ UNCHANGED <<now, file, audit, journals, interruptions, started>>
      BY <1>2, <1>6 DEF Preregister, RunOK
    <2>2. CASE t \in P
      <3>1. step'[o] = "release" /\ UNCHANGED <<preregistered, state>>
        BY <1>2, <1>6, <2>2 DEF Preregister, GoTo, ObserverTypeOK
      <3>2. ObserverTypeOK'
        BY <1>2, <1>6, <2>1, <2>2, <3>1 DEF Preregister, GoTo, ObserverTypeOK
      <3>3. RunOK(o)'
        BY <1>2, <2>1, <3>1 DEF RunOK, Working
      <3> QED
        BY <1>1, <1>2, <2>1, <3>1, <3>2, <3>3, QuietStep
           DEF ClockOK, StorageOK, Starting, Interrupted, Working, evidence
    <2>3. CASE t \notin P
      <3>1. /\ step'[o] = "announce" /\ preregistered' = P \cup {t}
            /\ state'[o] = Announced(file, t)
        <4>1. /\ step'[o] = "announce" /\ preregistered' = P \cup {t}
              /\ state'[o] = [[state[o] EXCEPT !.status = "CAPTURING"] EXCEPT !.active = t]
          BY <1>2, <1>6, <2>3 DEF Preregister, GoTo, ObserverTypeOK
        <4> QED
          BY <2>1, <4>1 DEF Announced
      <3>2. /\ Apart(file, t) /\ t \notin Recorded(file) \cup {file.active}
        <4>1. Apart(file, t)
          BY <1>1, <1>2, <2>1, DueIsApart
        <4>2. t \notin Recorded(file) \cup {file.active}
          BY <1>1, <1>2, <2>3 DEF FileSound, Windowed
        <4> QED
          BY <4>1, <4>2
      <3>3. FileSound(file', preregistered', audit')
        BY <1>2, <2>1, <3>1, <3>2, SoundLater DEF Apart
      <3>4. Announced(file, t) \in StateFiles
        <4>1. FileSound(file, P \cup {t}, audit) /\ P \cup {t} \in SUBSET Times
          BY <1>1, <2>1, <3>1, <3>3
        <4> QED
          BY <3>2, <4>1, AnnouncedSound DEF FileSound
      <3>5. ObserverTypeOK'
        <4>1. state' = [state EXCEPT ![o] = state'[o]] /\ step' = [step EXCEPT ![o] = "announce"]
          BY <1>2, <1>6, <2>3 DEF Preregister, GoTo, ObserverTypeOK
        <4>2. state' \in [Observers -> StateFiles]
          BY <1>2, <3>1, <3>4, <4>1 DEF ObserverTypeOK
        <4> QED
          BY <1>1, <1>2, <1>6, <2>1, <3>1, <4>1, <4>2 DEF Preregister, ObserverTypeOK
      <3>6. ClockOK(o)'
        BY <1>1, <1>2, <2>1, <3>1 DEF ClockOK
      <3>7. StorageOK(o)'
        <4>1. Cardinality(P \cup {t}) + Cardinality(journals) <= Used + 1 /\ Used < MaxStorage
          BY <1>1, <1>2, <2>1, UsedIsNumber DEF Used, StorageOK, Starting
        <4>2. Used' = Cardinality(P \cup {t}) + Cardinality(journals) /\ Used' \in Nat
          <5>1. P \cup {t} \in SUBSET Times
            BY <1>1
          <5> QED
            BY <1>1, <2>1, <3>1, <5>1, UsedIsNumber DEF Used
        <4> QED
          BY <1>1, <3>1, <4>1, <4>2, Configured DEF StorageOK, Starting
      <3>8. FailuresOK(o)'
        BY <1>2, <2>1, <3>1 DEF FailuresOK, Interrupted, Working
      <3>9. RunOK(o)'
        BY <2>1, <3>1, <3>2 DEF RunOK, Working
      <3> QED
        BY <3>3, <3>5, <3>6, <3>7, <3>8, <3>9 DEF ObserverInductive
    <2> QED
      BY <2>2, <2>3
  <1>7. CASE Announce(o)
    <2>1. /\ step[o] = "announce" /\ file' = Announced(file, t) /\ step'[o] = "open_journal" /\ Apart(file, t)
          /\ t \in P /\ t \notin Recorded(file) \cup {file.active} /\ state[o] = Announced(file, t)
          /\ UNCHANGED <<now, preregistered, audit, journals, interruptions, started, state>>
      BY <1>2, <1>7 DEF Announce, GoTo, evidence, locals, RunOK, ObserverTypeOK
    <2>2. /\ FileSound(file', P, audit) /\ file'.active = t /\ file'.windows = file.windows
          /\ Len(file'.failures) = Len(file.failures) + (IF file.active = None THEN 0 ELSE 1)
      <3>1. /\ FileSound(Announced(file, t), P, audit) /\ Announced(file, t).active = t
            /\ Announced(file, t).failures = Recovered(file).failures
            /\ Announced(file, t).windows = file.windows
        <4>1. P \in SUBSET Times /\ FileSound(file, P, audit) /\ t \in P /\ t \notin Recorded(file) \cup {file.active}
          BY <1>1, <1>2, <2>1
        <4> HIDE DEF P, t
        <4> QED
          BY <4>1, AnnouncedSound
      <3> QED
        BY <1>3, <2>1, <3>1
    <2>3. ObserverTypeOK'
      BY <1>2, <1>7, <2>1, <2>2 DEF Announce, GoTo, locals, ObserverTypeOK, FileSound, evidence
    <2>4. ClockOK(o)' /\ StorageOK(o)'
      BY <1>1, <1>2, <2>1 DEF ClockOK, StorageOK, Used, Starting
    <2>5. RunOK(o)'
      BY <2>1, <2>2 DEF RunOK, Working, Apart
    <2>6. FailuresOK(o)'
      <3>1. ~ Interrupted(o)' /\ Len(file'.failures) <= MaxHistory + interruptions
        <4>1. CASE file.active = None
          BY <1>2, <2>1, <2>2, <4>1 DEF FailuresOK, Interrupted, Working
        <4>2. CASE file.active # None
          <5>1. Len(file.failures) + 1 <= MaxHistory + interruptions /\ Len(file'.failures) = Len(file.failures) + 1
            BY <1>2, <2>1, <2>2, <4>2 DEF FailuresOK, Interrupted, Working
          <5> QED
            BY <2>1, <2>2, <5>1 DEF Interrupted, Working
        <4> QED
          BY <4>1, <4>2
      <3> QED
        BY <2>1, <3>1 DEF FailuresOK
    <2> QED
      BY <2>1, <2>2, <2>3, <2>4, <2>5, <2>6 DEF ObserverInductive
  <1>8. CASE OpenJournal(o)
    <2>1. /\ step[o] = "open_journal" /\ step'[o] = "capture" /\ journals' = journals \cup {t} /\ file.active = t
          /\ UNCHANGED <<now, file, preregistered, audit, interruptions, started, state>>
      BY <1>2, <1>8 DEF OpenJournal, GoTo, locals, RunOK, ObserverTypeOK, Working
    <2>2. t \in P
      BY <1>1, <1>2, <2>1 DEF FileSound, Windowed
    <2>3. ObserverTypeOK'
      BY <1>2, <1>8, <2>1, <2>2 DEF OpenJournal, GoTo, locals, ObserverTypeOK
    <2>4. StorageOK(o)'
      <3>1. Cardinality(P) + Cardinality(journals \cup {t}) <= Used + 1 /\ Used < MaxStorage + 1
        BY <1>1, <1>2, <2>1, UsedIsNumber DEF Used, StorageOK
      <3>2. Used' = Cardinality(P) + Cardinality(journals \cup {t}) /\ Used' \in Nat
        <4>1. journals \cup {t} \in SUBSET Times
          BY <1>1
        <4> QED
          BY <1>1, <2>1, <4>1, UsedIsNumber DEF Used
      <3> QED
        BY <1>1, <2>1, <3>1, <3>2, Configured DEF StorageOK, Starting
    <2>5. ClockOK(o)' /\ RunOK(o)' /\ FailuresOK(o)'
      BY <1>1, <1>2, <2>1 DEF ClockOK, RunOK, FailuresOK, Interrupted, Working
    <2>6. FileSound(file', preregistered', audit')
      BY <1>2, <2>1
    <2> QED
      BY <2>3, <2>4, <2>5, <2>6 DEF ObserverInductive
  <1>9. CASE AuditValid(o)
    <2>1. /\ step[o] = "audit_valid" /\ step'[o] = "record_success" /\ audit' = [audit EXCEPT ![t] = "VALID"]
          /\ audit \in [Times -> {"VALID", "REJECTED", None}]
          /\ UNCHANGED <<now, file, preregistered, journals, interruptions, started, state>>
      BY <1>2, <1>9 DEF AuditValid, GoTo, locals, ObserverTypeOK
    <2>2. \A w \in Elements(file.windows) : audit'[w] = audit[w]
      <3> TAKE w \in Elements(file.windows)
      <3>1. w \in Times
        BY <1>1, FieldsAreTyped DEF Elements
      <3>2. audit[w] = "VALID"
        BY <1>2 DEF FileSound, Successful
      <3> QED
        BY <2>1, <3>1, <3>2
    <2>3. FileSound(file', preregistered', audit')
      <3>1. FileSound(file, P, audit')
        BY <1>2, <2>2, AuditedLater
      <3> QED
        BY <2>1, <3>1
    <2>4. ObserverTypeOK'
      BY <1>2, <1>9, <2>1 DEF AuditValid, GoTo, locals, ObserverTypeOK
    <2>5. audit'[t] = "VALID"
      BY <1>1, <2>1
    <2>6. ClockOK(o)' /\ StorageOK(o)' /\ FailuresOK(o)'
      BY <1>1, <1>2, <2>1 DEF ClockOK, StorageOK, Used, Starting, FailuresOK, Interrupted, Working
    <2>7. RunOK(o)'
      BY <1>2, <2>1, <2>5 DEF RunOK, Working
    <2> QED
      BY <2>3, <2>4, <2>6, <2>7 DEF ObserverInductive
  <1>10. CASE RecordSuccess(o)
    <2>1. /\ step[o] = "record_success" /\ step'[o] = "release" /\ file' = Succeeded(file, t, now)
          /\ file.active = t /\ Apart(file, t) /\ audit[t] = "VALID"
          /\ UNCHANGED <<now, preregistered, audit, journals, interruptions, started, state>>
      BY <1>2, <1>10 DEF RecordSuccess, GoTo, evidence, ObserverTypeOK, RunOK, Working, Succeeded
    <2>2. \A p \in P : p <= t
      BY <1>2, <2>1 DEF ClockOK
    <2>3. FileSound(file', P, audit) /\ file'.active = None /\ Len(file'.failures) <= MaxHistory
      <3>1. /\ FileSound(Succeeded(file, t, now), P, audit) /\ Succeeded(file, t, now).active = None
            /\ Len(Succeeded(file, t, now).failures) <= MaxHistory
        <4>1. /\ P \in SUBSET Times /\ FileSound(file, P, audit) /\ t \in Times /\ now \in Times
              /\ file.active = t /\ audit[t] = "VALID" /\ Apart(file, t) /\ \A p \in P : p <= t
          BY <1>1, <1>2, <2>1, <2>2
        <4> HIDE DEF P, t
        <4> QED
          BY <4>1, SucceededSound
      <3> QED
        BY <2>1, <3>1
    <2>4. ObserverTypeOK'
      BY <1>2, <1>10, <2>1, <2>3 DEF RecordSuccess, GoTo, evidence, ObserverTypeOK, FileSound
    <2>5. ClockOK(o)' /\ StorageOK(o)' /\ RunOK(o)'
      BY <1>1, <1>2, <2>1 DEF ClockOK, StorageOK, Used, Starting, RunOK, Working
    <2>6. FailuresOK(o)'
      <3>1. Len(file'.failures) \in Nat
        BY <2>3, FieldsAreTyped DEF FileSound
      <3> QED
        BY <1>1, <2>1, <2>3, <3>1, Configured DEF FailuresOK, Interrupted
    <2> QED
      BY <2>1, <2>3, <2>4, <2>5, <2>6 DEF ObserverInductive
  <1>11. CASE RecordFailure(o)
    <2>1. /\ step[o] = "record_failure" /\ step'[o] = "audit_rejected" /\ file' = Failed(file, t)
          /\ file.active = t /\ Apart(file, t)
          /\ UNCHANGED <<now, preregistered, audit, journals, interruptions, started, state>>
      BY <1>2, <1>11 DEF RecordFailure, GoTo, evidence, locals, ObserverTypeOK, RunOK, Working, Failed
    <2>2. /\ FileSound(file', P, audit) /\ file'.active = None /\ Len(file'.failures) <= MaxHistory
          /\ t \in Elements(file'.failures)
      <3>1. /\ FileSound(Failed(file, t), P, audit) /\ Failed(file, t).active = None
            /\ t \in Elements(Failed(file, t).failures) /\ Len(Failed(file, t).failures) <= MaxHistory
        <4>1. /\ P \in SUBSET Times /\ FileSound(file, P, audit) /\ t \in Times
              /\ file.active = t /\ Apart(file, t)
          BY <1>1, <1>2, <2>1
        <4> HIDE DEF P, t
        <4> QED
          BY <4>1, FailedSound
      <3> QED
        BY <2>1, <3>1
    <2>3. ObserverTypeOK'
      BY <1>2, <1>11, <2>1, <2>2 DEF RecordFailure, GoTo, evidence, locals, ObserverTypeOK, FileSound
    <2>4. ClockOK(o)' /\ StorageOK(o)' /\ RunOK(o)'
      BY <1>1, <1>2, <2>1, <2>2 DEF ClockOK, StorageOK, Used, Starting, RunOK, Working
    <2>5. FailuresOK(o)'
      <3>1. Len(file'.failures) \in Nat
        BY <2>2, FieldsAreTyped DEF FileSound
      <3> QED
        BY <1>1, <2>1, <2>2, <3>1, Configured DEF FailuresOK, Interrupted
    <2> QED
      BY <2>1, <2>2, <2>3, <2>4, <2>5 DEF ObserverInductive
  <1>12. CASE AuditRejected(o)
    <2>1. /\ step[o] = "audit_rejected" /\ step'[o] = "release" /\ audit' = [audit EXCEPT ![t] = "REJECTED"]
          /\ audit \in [Times -> {"VALID", "REJECTED", None}] /\ t \in Elements(file.failures)
          /\ UNCHANGED <<now, file, preregistered, journals, interruptions, started, state>>
      BY <1>2, <1>12 DEF AuditRejected, GoTo, locals, ObserverTypeOK, RunOK
    <2>2. \A w \in Elements(file.windows) : audit'[w] = audit[w]
      <3> TAKE w \in Elements(file.windows)
      <3>1. w \in Times
        BY <1>1, FieldsAreTyped DEF Elements
      <3>2. w # t
        BY <1>2, <2>1 DEF FileSound, Windowed
      <3> QED
        BY <2>1, <3>1, <3>2
    <2>3. FileSound(file', preregistered', audit')
      <3>1. FileSound(file, P, audit')
        BY <1>2, <2>2, AuditedLater
      <3> QED
        BY <2>1, <3>1
    <2>4. ObserverTypeOK'
      BY <1>2, <1>12, <2>1 DEF AuditRejected, GoTo, locals, ObserverTypeOK
    <2>5. ClockOK(o)' /\ StorageOK(o)' /\ FailuresOK(o)' /\ RunOK(o)'
      BY <1>1, <1>2, <2>1 DEF ClockOK, StorageOK, Used, Starting, FailuresOK, Interrupted, RunOK, Working
    <2> QED
      BY <2>3, <2>4, <2>5 DEF ObserverInductive
  <1>13. CASE Compact(o)
    <2>1. /\ step[o] = "compact" /\ step'[o] = "idle" /\ started'[o] = 0
          /\ journals' \in {journals, journals \ {t}}
          /\ UNCHANGED <<now, file, preregistered, audit, interruptions>>
      BY <1>2, <1>13, EndEnds DEF Compact
    <2>2. ObserverTypeOK'
      BY <1>2, <1>13, <2>1, EndEnds DEF Compact, ObserverTypeOK
    <2>3. Used' <= Used /\ Used' \in Nat
      <3>1. CASE journals' = journals
        BY <1>1, <2>1, <3>1 DEF Used
      <3>2. CASE journals' = journals \ {t}
        <4>1. journals \ {t} \in SUBSET Times
          BY <1>1
        <4>2. Cardinality(P) + Cardinality(journals \ {t}) <= Cardinality(P) + Cardinality(journals)
          BY <1>1, UsedIsNumber
        <4>3. Cardinality(P) + Cardinality(journals \ {t}) \in Nat
          BY <1>1, <4>1, UsedIsNumber
        <4> QED
          BY <2>1, <3>2, <4>2, <4>3 DEF Used
      <3> QED
        BY <2>1, <3>1, <3>2
    <2>4. StorageOK(o)'
      BY <1>1, <1>2, <2>1, <2>3, Configured DEF StorageOK, Starting
    <2>5. ClockOK(o)' /\ RunOK(o)' /\ FailuresOK(o)'
      BY <1>1, <1>2, <2>1 DEF ClockOK, RunOK, FailuresOK, Interrupted, Working
    <2>6. FileSound(file', preregistered', audit')
      BY <1>2, <2>1
    <2> QED
      BY <2>2, <2>4, <2>5, <2>6 DEF ObserverInductive
  <1>14. CASE Tick
    <2>1. /\ now' = now + 1 /\ now < MaxTime
          /\ UNCHANGED <<lock, file, preregistered, audit, journals, step, started, tries, state, captured, interruptions>>
      BY <1>14 DEF Tick, evidence, locals
    <2>2. ObserverTypeOK'
      BY <1>1, <1>2, <2>1, Configured DEF ObserverTypeOK, Times
    <2>3. ClockOK(o)'
      BY <1>1, <1>2, <2>1 DEF ClockOK
    <2>4. StorageOK(o)' /\ FailuresOK(o)' /\ RunOK(o)'
      BY <1>2, <2>1 DEF StorageOK, Used, FailuresOK, Interrupted, RunOK
    <2>5. FileSound(file', preregistered', audit')
      BY <1>2, <2>1
    <2> QED
      BY <2>2, <2>3, <2>4, <2>5 DEF ObserverInductive
  <1> QED
    BY <1>4, <1>5, <1>6, <1>7, <1>8, <1>9, <1>10, <1>11, <1>12, <1>13, <1>14

LEMMA ObserverStarts ==
  ASSUME NEW o, Observers = {o}, ObserverInit
  PROVE  ObserverInductive(o)
  <1>1. FileSound(IdleState, {}, [t \in Times |-> None]) /\ IdleState \in StateFiles
    BY IdleSound DEF FileSound
  <1>2. IdleState.failures = <<>> /\ IdleState.active = None /\ Len(<<>>) = 0
    BY DEF IdleState
  <1>3. ObserverTypeOK
    BY <1>1, Configured DEF ObserverInit, ObserverTypeOK, Times
  <1>4. FileSound(file, preregistered, audit)
    BY <1>1 DEF ObserverInit
  <1>5. ClockOK(o) /\ RunOK(o)
    BY Configured DEF ObserverInit, ClockOK, RunOK, Working
  <1>6. Used = 0
    BY FS_EmptySet DEF ObserverInit, Used
  <1>7. StorageOK(o)
    BY <1>6, Configured DEF ObserverInit, StorageOK, Starting
  <1>8. FailuresOK(o)
    BY <1>2, Configured DEF ObserverInit, FailuresOK, Interrupted
  <1> QED
    BY <1>3, <1>4, <1>5, <1>7, <1>8 DEF ObserverInductive

LEMMA ObserverSteps ==
  ASSUME NEW o, Observers = {o}, ObserverInductive(o), [ObserverNext]_observerVars
  PROVE  ObserverInductive(o)'
  <1>1. CASE UNCHANGED observerVars
    <2>1. UNCHANGED <<now, lock, file, preregistered, audit, journals, step, started, tries, state, captured, interruptions>>
      BY <1>1 DEF observerVars, evidence, locals
    <2>2. ObserverTypeOK' /\ FileSound(file', preregistered', audit')
      BY <2>1 DEF ObserverInductive, ObserverTypeOK
    <2> QED
      BY <2>1, <2>2 DEF ObserverInductive, ClockOK, StorageOK, Used, FailuresOK, Interrupted, RunOK
  <1>2. CASE ObserverNext
    BY <1>2, QuietActions, LoudActions DEF ObserverNext
  <1> QED
    BY <1>1, <1>2

\* What the invariant says to the supervisor.
LEMMA InductiveIsSound ==
  ASSUME NEW o, Observers = {o}, ObserverInductive(o)
  PROVE  /\ OneOutcomePerWindow /\ SuccessIsAudited /\ WindowsSeparated
         /\ StatusMatchesFailures /\ StorageBounded /\ HistoryBounded
  <1>1. FileSound(file, preregistered, audit) /\ file \in StateFiles
    BY DEF ObserverInductive, FileSound
  <1>2. OneOutcomePerWindow
    <2>1. /\ file.windows \in Seq(Times) /\ file.failures \in Seq(Times)
          /\ Len(file.windows) \in Nat /\ Len(file.failures) \in Nat
      BY <1>1, FieldsAreTyped
    <2>2. /\ IsFiniteSet(Elements(file.windows)) /\ Cardinality(Elements(file.windows)) = Len(file.windows)
          /\ IsFiniteSet(Elements(file.failures)) /\ Cardinality(Elements(file.failures)) = Len(file.failures)
      BY <1>1, <2>1, EntriesCount DEF FileSound, Windowed
    <2>3. Elements(file.windows) \cap Elements(file.failures) = {}
      BY <1>1 DEF FileSound, Windowed
    <2>4. Cardinality(Elements(file.windows) \cup Elements(file.failures))
            = Cardinality(Elements(file.windows)) + Cardinality(Elements(file.failures)) - 0
      <3> DEFINE W == Elements(file.windows)
                 F == Elements(file.failures)
      <3>1. IsFiniteSet(W) /\ IsFiniteSet(F) /\ W \cap F = {}
        BY <2>2, <2>3
      <3>2. Cardinality(W \cup F) = Cardinality(W) + Cardinality(F) - Cardinality(W \cap F)
        <4> HIDE DEF W, F
        <4> QED
          BY <3>1, FS_Union
      <3>3. Cardinality(W \cap F) = 0
        BY <3>1, FS_EmptySet
      <3> QED
        BY <3>2, <3>3
    <2>5. file.active \notin Recorded(file)
      BY <1>1 DEF FileSound, Windowed
    <2> QED
      BY <2>1, <2>2, <2>4, <2>5 DEF OneOutcomePerWindow, Recorded
  <1>3. SuccessIsAudited /\ WindowsSeparated
    BY <1>1 DEF FileSound, Successful, SuccessIsAudited, WindowsSeparated
  <1>4. StatusMatchesFailures
    BY <1>1 DEF FileSound, StatusOK, StatusMatchesFailures
  <1>5. StorageBounded
    <2>1. Cardinality(Observers) = 1
      BY FS_Singleton
    <2> QED
      BY <2>1 DEF ObserverInductive, StorageOK, StorageBounded
  <1>6. HistoryBounded
    BY <1>1 DEF ObserverInductive, FailuresOK, FileSound, Windowed, HistoryBounded
  <1> QED
    BY <1>2, <1>3, <1>4, <1>5, <1>6

\* Of the writers of the state file, each leaves the active window active or
\* puts it into the history.
LEMMA ActiveStep ==
  ASSUME NEW o, Observers = {o}, ObserverInductive(o), [ObserverNext]_observerVars,
         file.active # None, file'.active # file.active
  PROVE  file.active \in Recorded(file')
  <1> DEFINE t == started[o]
             P == preregistered
  <1>1. P \in SUBSET Times /\ now \in Times /\ t \in Times
    BY InTypes
  <1>2. FileSound(file, P, audit) /\ RunOK(o) /\ ClockOK(o) /\ ObserverTypeOK
    BY DEF ObserverInductive
  <1>3. file.active \in Elements(Recovered(file).failures)
    BY <1>1, <1>2, RecoveredSound
  <1>4. CASE PersistBlock(o)
    <2>1. file' = Blocked(file)
      BY <1>2, <1>4 DEF PersistBlock, RunOK, Blocked
    <2> QED
      BY <1>2, <2>1, BlockedSound
  <1>5. CASE PersistNotDue(o)
    <2>1. file' = NotDue(file)
      BY <1>2, <1>5 DEF PersistNotDue, RunOK
    <2>2. NotDue(file).failures = Recovered(file).failures
      BY <1>1, <1>2, NotDueSound
    <2> QED
      BY <1>3, <2>1, <2>2 DEF Recorded
  <1>6. CASE Announce(o)
    <2>1. /\ file' = Announced(file, t) /\ t \in P /\ t \notin Recorded(file) \cup {file.active}
      BY <1>2, <1>6 DEF Announce, RunOK
    <2>2. Announced(file, t).failures = Recovered(file).failures
      <3>1. P \in SUBSET Times /\ FileSound(file, P, audit) /\ t \in P /\ t \notin Recorded(file) \cup {file.active}
        BY <1>1, <1>2, <2>1
      <3>2. /\ FileSound(Announced(file, t), P, audit) /\ Announced(file, t).active = t
            /\ Announced(file, t).failures = Recovered(file).failures
            /\ Announced(file, t).windows = file.windows
        <4> HIDE DEF P, t
        <4> QED
          BY <3>1, AnnouncedSound
      <3> QED
        BY <3>2
    <2> QED
      BY <1>3, <2>1, <2>2 DEF Recorded
  <1>7. CASE RecordSuccess(o)
    <2>1. file' = Succeeded(file, t, now) /\ file.active = t /\ Apart(file, t) /\ audit[t] = "VALID" /\ step[o] = "record_success"
      BY <1>2, <1>7 DEF RecordSuccess, RunOK, Working, Succeeded
    <2>2. \A p \in P : p <= t
      BY <1>2, <2>1 DEF ClockOK
    <2>3. t \in Elements(Succeeded(file, t, now).windows)
      <3>1. /\ P \in SUBSET Times /\ FileSound(file, P, audit) /\ t \in Times /\ now \in Times
            /\ file.active = t /\ audit[t] = "VALID" /\ Apart(file, t) /\ \A p \in P : p <= t
        BY <1>1, <1>2, <2>1, <2>2
      <3> HIDE DEF P, t
      <3> QED
        BY <3>1, SucceededSound
    <2> QED
      BY <2>1, <2>3 DEF Recorded
  <1>8. CASE RecordFailure(o)
    <2>1. file' = Failed(file, t) /\ file.active = t /\ Apart(file, t)
      BY <1>2, <1>8 DEF RecordFailure, RunOK, Working, Failed
    <2>2. t \in Elements(Failed(file, t).failures)
      <3>1. /\ P \in SUBSET Times /\ FileSound(file, P, audit) /\ t \in Times
            /\ file.active = t /\ Apart(file, t)
        BY <1>1, <1>2, <2>1
      <3> HIDE DEF P, t
      <3> QED
        BY <3>1, FailedSound
    <2> QED
      BY <2>1, <2>2 DEF Recorded
  <1>9. CASE file' = file
    BY <1>9
  <1>10. \/ PersistBlock(o) \/ PersistNotDue(o) \/ Announce(o) \/ RecordSuccess(o) \/ RecordFailure(o)
         \/ file' = file
    <2>1. CASE UNCHANGED observerVars
      BY <2>1 DEF observerVars
    <2>2. CASE ObserverNext
      BY <2>2 DEF ObserverNext, Begin, StorageBlocked, Open, WriteLock, Examine, MoveAside, Load, Preregister,
         OpenJournal, Capture, AuditValid, AuditRejected, CheckToken, Unlink, Compact, Dies, Cancel, Tick
    <2> QED
      BY <2>1, <2>2
  <1> QED
    BY <1>4, <1>5, <1>6, <1>7, <1>8, <1>9, <1>10

-----------------------------------------------------------------------------

\* One supervised observer, interrupted at any file operation and started again
\* at any time, for every configuration ObserverConfig.load accepts: every
\* announced window ends in exactly one outcome and successes are audited and
\* kept apart; status, history and storage stay within what they promise
\* (run_observer_once, _recover_interrupted_window, _due).
THEOREM ObserverIsSound ==
  ASSUME NEW o, Observers = {o}
  PROVE  ObserverSpec => ObserverStateSound
  <1>1. ObserverInit => ObserverInductive(o)
    BY ObserverStarts
  <1>2. ObserverInductive(o) /\ [ObserverNext]_observerVars => ObserverInductive(o)'
    BY ObserverSteps
  <1>3. ObserverInductive(o) => /\ OneOutcomePerWindow /\ SuccessIsAudited /\ WindowsSeparated
                                /\ StatusMatchesFailures /\ StorageBounded /\ HistoryBounded
    BY InductiveIsSound
  <1>4. ObserverInductive(o) /\ [ObserverNext]_observerVars =>
          [file.active # None /\ file'.active # file.active => file.active \in Recorded(file')]_file
    BY ActiveStep
  <1> QED
    BY <1>1, <1>2, <1>3, <1>4, PTL DEF ObserverSpec, ObserverStateSound, ActiveWindowIsRecorded

-----------------------------------------------------------------------------
(* The gate.                                                               *)

\* Induction, as the least number a set of numbers has.
LEMMA FirstNumber ==
  ASSUME NEW S \in SUBSET Nat, S # {}
  PROVE  \E m \in S : \A k \in S : ~ (k < m)
<1>1. IsWellFoundedOn(OpToRel(<, Nat), Nat)
  BY NatLessThanWellFounded
<1>2. PICK R : R = OpToRel(<, Nat)
  OBVIOUS
<1>3. \E m \in S : \A k \in S : <<k, m>> \notin R
  BY <1>1, <1>2, WFMin
<1>4. \A k, m \in S : k < m => <<k, m>> \in R
  BY <1>2 DEF OpToRel
<1>5. QED
  BY <1>3, <1>4

LEMMA FirstPlace ==
  ASSUME NEW n \in Nat, NEW S \in SUBSET (1..n), S # {}
  PROVE  Min(S) \in S /\ \A j \in S : Min(S) <= j
<1>1. PICK m \in S : \A k \in S : ~ (k < m)
  BY FirstNumber
<1>2. \E x \in S : \A y \in S : x <= y
  BY <1>1
<1>3. QED
  BY <1>2 DEF Min

-----------------------------------------------------------------------------
(* A journal that grows by an event.                                       *)

IsSeq(ev) == \E S : ev \in Seq(S)
Grown(ev, e, ev2) == IsSeq(ev) /\ ev2 = Append(ev, e)

LEMMA OneEvent ==
  ASSUME NEW ev, NEW e, NEW ev2, Grown(ev, e, ev2)
  PROVE  /\ IsSeq(ev2) /\ Len(ev) \in Nat /\ Len(ev2) = Len(ev) + 1
         /\ DOMAIN ev = 1..Len(ev) /\ DOMAIN ev2 = 1..(Len(ev) + 1)
         /\ \A i \in DOMAIN ev : ev2[i] = ev[i] /\ i \in DOMAIN ev2
         /\ ev2[Len(ev) + 1] = e /\ Len(ev) + 1 \in DOMAIN ev2
         /\ \A i \in DOMAIN ev2 : i \in DOMAIN ev \/ i = Len(ev) + 1
         /\ ToSet(ev) \subseteq ToSet(ev2)
<1>1. PICK S : ev \in Seq(S)
  BY DEF Grown, IsSeq
<1>2. PICK T : T = S \cup {e}
  OBVIOUS
<1>3. ev \in Seq(T) /\ e \in T
  BY <1>1, <1>2
<1>4. ev2 = Append(ev, e)
  BY DEF Grown
<1>5. ev2 \in Seq(T)
  BY <1>3, <1>4
<1>6. /\ Len(ev) \in Nat /\ Len(ev2) = Len(ev) + 1
      /\ DOMAIN ev = 1..Len(ev) /\ DOMAIN ev2 = 1..(Len(ev) + 1)
      /\ \A i \in DOMAIN ev : ev2[i] = ev[i] /\ i \in DOMAIN ev2
      /\ ev2[Len(ev) + 1] = e /\ Len(ev) + 1 \in DOMAIN ev2
      /\ \A i \in DOMAIN ev2 : i \in DOMAIN ev \/ i = Len(ev) + 1
  BY <1>3, <1>4
<1>7. ToSet(ev) \subseteq ToSet(ev2)
  BY <1>6 DEF ToSet
<1>8. QED
  BY <1>5, <1>6, <1>7 DEF IsSeq

\* What the journal of a dossier keeps: a verdict follows the documents it was
\* reached from, a handoff the eligible verdict it cites.
Backed(ev, d) ==
  \A j \in DOMAIN ev : ev[j].type = "qualification" =>
    \A document \in ToSet(Documents(d)) : \E l \in 1 .. j - 1 : ev[l] = document
Earned(ev) ==
  \A i \in DOMAIN ev : ev[i].type = "handoff" =>
    \E j \in 1 .. i - 1 : ev[j].type = "qualification" /\ ev[j].item = ev[i].item /\ Passes(ev[j].item)
LooksBack(d, h) ==
  /\ d.journalled <= h.cutoff
  /\ \A x \in DOMAIN d.entries : d.entries[x].lastResolved <= d.competenceKnown
  /\ d.competenceKnown <= h.cutoff /\ d.published <= h.cutoff
  /\ d.published # 0 => d.competenceKnown <= d.published
  /\ d.contextKnown <= h.cutoff /\ h.cutoff <= d.contextKnown + Policy.contextAge
  /\ Cardinality(Claims(d)) >= 2 /\ Claims(d) \subseteq DOMAIN d.entries
LookedBack(ev, d) == \A i \in DOMAIN ev : ev[i].type = "handoff" => LooksBack(d, ev[i].item)
Single(ev) ==
  \A i, j \in DOMAIN ev :
    ev[i].type \in {"qualification", "handoff"} /\ ev[j].type = ev[i].type
      /\ ev[i].item.id = ev[j].item.id => i = j

LEMMA GrownKeeps ==
  ASSUME NEW ev, NEW e, NEW ev2, Grown(ev, e, ev2), NEW d, Backed(ev, d), Earned(ev), LookedBack(ev, d),
         e.type = "qualification" => \A document \in ToSet(Documents(d)) : document \in ToSet(ev),
         e.type = "handoff" =>
           /\ \E j \in DOMAIN ev : ev[j].type = "qualification" /\ ev[j].item = e.item /\ Passes(ev[j].item)
           /\ LooksBack(d, e.item)
  PROVE  Backed(ev2, d) /\ Earned(ev2) /\ LookedBack(ev2, d)
<1>0. /\ Len(ev) \in Nat /\ DOMAIN ev = 1..Len(ev) /\ DOMAIN ev2 = 1..(Len(ev) + 1)
      /\ \A i \in DOMAIN ev : ev2[i] = ev[i] /\ i \in DOMAIN ev2
      /\ ev2[Len(ev) + 1] = e
      /\ \A i \in DOMAIN ev2 : i \in DOMAIN ev \/ i = Len(ev) + 1
  BY OneEvent
<1>1. Backed(ev2, d)
  <2>1. SUFFICES ASSUME NEW j \in DOMAIN ev2, ev2[j].type = "qualification", NEW document \in ToSet(Documents(d))
                 PROVE  \E l \in 1 .. j - 1 : ev2[l] = document
    BY DEF Backed
  <2>2. CASE j \in DOMAIN ev
    <3>1. PICK l \in 1 .. j - 1 : ev[l] = document
      BY <1>0, <2>1, <2>2 DEF Backed
    <3>2. l \in DOMAIN ev
      BY <1>0, <2>2
    <3>3. QED
      BY <1>0, <3>1, <3>2
  <2>3. CASE j = Len(ev) + 1
    <3>1. document \in ToSet(ev)
      BY <1>0, <2>1, <2>3
    <3>2. PICK l \in DOMAIN ev : ev[l] = document
      BY <3>1 DEF ToSet
    <3>3. l \in 1 .. j - 1
      BY <1>0, <2>3
    <3>4. QED
      BY <1>0, <3>2, <3>3
  <2>4. QED
    BY <1>0, <2>2, <2>3
<1>2. Earned(ev2)
  <2>1. SUFFICES ASSUME NEW i \in DOMAIN ev2, ev2[i].type = "handoff"
                 PROVE  \E j \in 1 .. i - 1 : ev2[j].type = "qualification" /\ ev2[j].item = ev2[i].item /\ Passes(ev2[j].item)
    BY DEF Earned
  <2>2. CASE i \in DOMAIN ev
    <3>1. PICK j \in 1 .. i - 1 : ev[j].type = "qualification" /\ ev[j].item = ev[i].item /\ Passes(ev[j].item)
      BY <1>0, <2>1, <2>2 DEF Earned
    <3>2. j \in DOMAIN ev
      BY <1>0, <2>2
    <3>3. QED
      BY <1>0, <2>2, <3>1, <3>2
  <2>3. CASE i = Len(ev) + 1
    <3>1. PICK j \in DOMAIN ev : ev[j].type = "qualification" /\ ev[j].item = e.item /\ Passes(ev[j].item)
      BY <1>0, <2>1, <2>3
    <3>2. j \in 1 .. i - 1
      BY <1>0, <2>3
    <3>3. QED
      BY <1>0, <2>3, <3>1, <3>2
  <2>4. QED
    BY <1>0, <2>2, <2>3
<1>3. LookedBack(ev2, d)
  BY <1>0 DEF LookedBack
<1>4. QED
  BY <1>1, <1>2, <1>3

LEMMA SingleGrows ==
  ASSUME NEW ev, NEW e, NEW ev2, Grown(ev, e, ev2), Single(ev),
         e.type \in {"qualification", "handoff"} =>
           \A i \in DOMAIN ev : ~ (ev[i].type = e.type /\ ev[i].item.id = e.item.id)
  PROVE  Single(ev2)
<1>0. /\ \A i \in DOMAIN ev : ev2[i] = ev[i]
      /\ ev2[Len(ev) + 1] = e
      /\ \A i \in DOMAIN ev2 : i \in DOMAIN ev \/ i = Len(ev) + 1
  BY OneEvent
<1>1. SUFFICES ASSUME NEW i \in DOMAIN ev2, NEW j \in DOMAIN ev2, ev2[i].type \in {"qualification", "handoff"},
                      ev2[j].type = ev2[i].type, ev2[i].item.id = ev2[j].item.id
               PROVE  i = j
  BY DEF Single
<1>2. CASE i \in DOMAIN ev /\ j \in DOMAIN ev
  BY <1>0, <1>1, <1>2 DEF Single
<1>3. CASE i \in DOMAIN ev /\ j = Len(ev) + 1
  BY <1>0, <1>1, <1>3
<1>4. CASE i = Len(ev) + 1 /\ j \in DOMAIN ev
  BY <1>0, <1>1, <1>4
<1>5. QED
  BY <1>0, <1>2, <1>3, <1>4

-----------------------------------------------------------------------------
(* What an eligible verdict says.                                          *)

DocumentTypes == {"claim", "score", "competence", "assembly", "publication"}

LEMMA DocumentsAre ==
  ASSUME NEW d \in Dossiers
  PROVE  /\ \A document \in ToSet(Documents(d)) : document.type \in DocumentTypes /\ document.at = d.journalled
         /\ ToSet(Documents(d)) # {} /\ IsSeq(Documents(d))
<1>1. PICK experts, n : n = Cardinality(Claims(d)) /\ n \in Nat /\ experts \in [1..n -> Claims(d)]
                        /\ experts = SetToSeq(Claims(d))
  <2>1. IsFiniteSet(Claims(d))
    BY DossiersAreDated DEF Claims
  <2>2. Cardinality(Claims(d)) \in Nat /\ ExistsBijection(1..Cardinality(Claims(d)), Claims(d))
    BY <2>1, FS_CardinalityType
  <2>3. \E f \in [1..Cardinality(Claims(d)) -> Claims(d)] : IsInjective(f)
    BY <2>2 DEF ExistsBijection, Bijection, Injection
  <2>4. SetToSeq(Claims(d)) \in [1..Cardinality(Claims(d)) -> Claims(d)]
    BY <2>3 DEF SetToSeq
  <2>5. QED
    BY <2>2, <2>4
<1>2. PICK I : I = {[dossier |-> d.id, of |-> x] : x \in Claims(d) \cup {"all"}}
  OBVIOUS
<1>3. PICK T : T = [type : DocumentTypes, at : {d.journalled}, item : I]
  OBVIOUS
<1>4. PICK a : a = [i \in 1..n |-> Event("claim", d.journalled, [dossier |-> d.id, of |-> experts[i]])]
  OBVIOUS
<1>5. PICK b : b = [i \in 1..n |-> Event("score", d.journalled, [dossier |-> d.id, of |-> experts[i]])]
  OBVIOUS
<1>6. PICK c : c = <<Event("competence", d.journalled, [dossier |-> d.id, of |-> "all"]),
                     Event("assembly", d.journalled, [dossier |-> d.id, of |-> "all"]),
                     Event("publication", d.journalled, [dossier |-> d.id, of |-> "all"])>>
  OBVIOUS
<1>7. \A i \in 1..n : experts[i] \in Claims(d)
  BY <1>1
<1>8. \A x \in Claims(d) \cup {"all"} : [dossier |-> d.id, of |-> x] \in I
  BY <1>2
<1>9. a \in Seq(T)
  <2>1. \A i \in 1..n : Event("claim", d.journalled, [dossier |-> d.id, of |-> experts[i]]) \in T
    BY <1>3, <1>7, <1>8 DEF Event, DocumentTypes
  <2>2. a \in [1..n -> T]
    BY <1>4, <2>1
  <2>3. QED
    BY <1>1, <2>2
<1>10. b \in Seq(T)
  <2>1. \A i \in 1..n : Event("score", d.journalled, [dossier |-> d.id, of |-> experts[i]]) \in T
    BY <1>3, <1>7, <1>8 DEF Event, DocumentTypes
  <2>2. b \in [1..n -> T]
    BY <1>5, <2>1
  <2>3. QED
    BY <1>1, <2>2
<1>11. c \in Seq(T) /\ Len(c) = 3
  <2>1. \A type \in DocumentTypes : Event(type, d.journalled, [dossier |-> d.id, of |-> "all"]) \in T
    BY <1>3, <1>8 DEF Event
  <2>2. QED
    BY <1>6, <2>1 DEF DocumentTypes
<1>12. Documents(d) = a \o b \o c
  BY <1>1, <1>4, <1>5, <1>6 DEF Documents
<1>13. a \o b \in Seq(T)
  BY <1>9, <1>10
<1>14. Documents(d) \in Seq(T) /\ Len(Documents(d)) >= 3
  <2>1. PICK ab \in Seq(T) : ab = a \o b
    BY <1>13
  <2>2. Len(ab) \in Nat /\ c \in Seq(T)
    BY <1>11
  <2>3. ab \o c \in Seq(T) /\ Len(ab \o c) = Len(ab) + Len(c)
    BY <2>2
  <2>4. Documents(d) = ab \o c
    BY <1>12, <2>1
  <2>5. QED
    BY <1>11, <2>2, <2>3, <2>4
<1>15. \A i \in DOMAIN Documents(d) : Documents(d)[i] \in T
  BY <1>14
<1>16. 1 \in DOMAIN Documents(d)
  BY <1>14
<1>17. QED
  BY <1>3, <1>14, <1>15, <1>16 DEF ToSet, IsSeq

LEMMA Clocks ==
  ASSUME NEW d \in Dossiers, NEW cutoff \in Instants, ClockReasons(d, cutoff) = {}
  PROVE  /\ d.competenceKnown # 0 /\ d.competenceKnown <= cutoff /\ d.published <= cutoff
         /\ d.published # 0 => d.competenceKnown <= d.published
         /\ d.contextKnown <= cutoff /\ cutoff <= d.contextKnown + Policy.contextAge
<1>1. PICK p \in Nat, k \in Nat, x \in Nat, t \in Nat, age \in Nat, competenceAge \in Nat :
        /\ p = d.published /\ k = d.competenceKnown /\ x = d.contextKnown /\ t = cutoff
        /\ age = Policy.contextAge /\ competenceAge = Policy.competenceAge
  <2>1. d.published \in Nat /\ d.competenceKnown \in Nat /\ d.contextKnown \in Nat
    BY DossiersAreDated
  <2>2. cutoff \in Nat /\ Policy.contextAge \in Nat /\ Policy.competenceAge \in Nat
    BY CutoffsAreInstants
  <2>3. QED
    BY <2>1, <2>2
<1>2. /\ ~ (OrAbsent(p) > t \/ OrAbsent(k) > t \/ x > t \/ (OrAbsent(p) >= 0 /\ OrAbsent(k) > OrAbsent(p)))
      /\ t - x \in 0 .. age
      /\ ~ (OrAbsent(k) < 0 \/ t - OrAbsent(k) \notin 0 .. competenceAge)
  BY <1>1 DEF ClockReasons, If
<1>3. k # 0 /\ k <= t
  BY <1>2 DEF OrAbsent
<1>4. p <= t /\ (p # 0 => k <= p)
  BY <1>2, <1>3 DEF OrAbsent
<1>5. x <= t /\ t <= x + age
  BY <1>2
<1>6. QED
  BY <1>1, <1>3, <1>4, <1>5

\* A verdict that passes looks at nothing that was not known.
LEMMA EligibleLooksBack ==
  ASSUME NEW d \in Dossiers, NEW cutoff \in Instants, NEW quality, NEW verdict,
         verdict = Assess(d, cutoff, quality), Passes(verdict), d.journalled <= cutoff
  PROVE  LooksBack(d, verdict)
<1>1. verdict.cutoff = cutoff /\ Reasons(d, cutoff, quality) = {}
  BY DEF Assess, Passes
<1>2. ClockReasons(d, cutoff) = {} /\ ClaimReasons(d, cutoff) = {} /\ SupportReasons(d) = {}
  BY <1>1 DEF Reasons
<1>3. /\ d.competenceKnown # 0 /\ d.competenceKnown <= cutoff /\ d.published <= cutoff
      /\ d.published # 0 => d.competenceKnown <= d.published
      /\ d.contextKnown <= cutoff /\ cutoff <= d.contextKnown + Policy.contextAge
  BY <1>2, Clocks
<1>4. Claims(d) \subseteq DOMAIN d.entries
  <2>1. Claims(d) = Claims(d) \cap DOMAIN d.entries
    BY <1>2 DEF ClaimReasons, If
  <2>2. QED
    BY <2>1
<1>5. Cardinality(Claims(d)) >= 2
  <2>1. ~ (Cardinality(Claims(d) \cap DOMAIN d.entries) < 2 \/ d.overlap > Policy.overlap)
    BY <1>2 DEF SupportReasons, If
  <2>2. Claims(d) \cap DOMAIN d.entries = Claims(d)
    BY <1>4
  <2>3. Cardinality(Claims(d)) \in Nat
    BY FS_CardinalityType, DossiersAreDated DEF Claims
  <2>4. QED
    BY <2>1, <2>2, <2>3
<1>6. ASSUME NEW x \in DOMAIN d.entries PROVE d.entries[x].lastResolved <= d.competenceKnown
  <2>1. PICK k \in Nat, last \in Nat : k = d.competenceKnown /\ last = d.entries[x].lastResolved
    <3>1. d.competenceKnown \in Nat /\ d.entries[x].lastResolved \in Nat
      BY DossiersAreDated
    <3>2. QED
      BY <3>1
  <2>2. ~ (OrAbsent(k) >= 0 /\ OrAbsent(last) > k)
    BY <1>2, <2>1 DEF ClaimReasons, If
  <2>3. last <= k
    BY <1>3, <2>1, <2>2 DEF OrAbsent
  <2>4. QED
    BY <2>1, <2>3
<1>7. QED
  BY <1>1, <1>3, <1>4, <1>5, <1>6 DEF LooksBack

-----------------------------------------------------------------------------
(* The invariant of the gate.                                              *)

Stages == {"away", "look", "record", "handoff", "write"}
Verdicts(d) == {Assess(d, cutoff, quality) : cutoff \in Instants, quality \in Qualities}
AClient(d) == [stage : Stages, cutoff : Instants \cup {0}, verdict : Verdicts(d) \cup {Absent}]
\* A client that is underway looked the inputs up and reached its verdict from
\* them; one that goes on to the handoff found an eligible verdict recorded.
Underway(ev, d, cl) ==
  cl.stage # "away" =>
    /\ cl.cutoff \in Instants /\ d.journalled <= cl.cutoff
    /\ \E quality \in Qualities : cl.verdict = Assess(d, cl.cutoff, quality)
    /\ \A document \in ToSet(Documents(d)) : document \in ToSet(ev)
    /\ cl.stage \in {"handoff", "write"} =>
         /\ Passes(cl.verdict)
         /\ \E j \in DOMAIN ev : ev[j].type = "qualification" /\ ev[j].item = cl.verdict

\* A client that is alone finds what it writes missing until it has written it.
Missed(ev, type, id) == \A i \in DOMAIN ev : ~ (ev[i].type = type /\ ev[i].item.id = id)
Alone(ev, cls) ==
  /\ \A a, b \in Clients : cls[a].stage # "away" /\ cls[b].stage # "away" => a = b
  /\ \A a \in Clients : cls[a].stage = "record" => Missed(ev, "qualification", cls[a].verdict.id)
  /\ \A a \in Clients : cls[a].stage = "write" => Missed(ev, "handoff", cls[a].verdict.id)
  /\ Single(ev)

\* The journal, the dossier and the clients of a gate, whether or not two of
\* these ever overlapped.
Stands(ev, d, cls, overlapping) ==
  /\ IsSeq(ev) /\ d \in Dossiers /\ cls \in [Clients -> AClient(d)] /\ overlapping \in BOOLEAN
  /\ Backed(ev, d) /\ Earned(ev) /\ LookedBack(ev, d)
  /\ \A a \in Clients : Underway(ev, d, cls[a])
  /\ overlapping \/ Alone(ev, cls)
GateInv == Stands(events, dossier, client, gateOverlapped)

LEMMA Restaged ==
  ASSUME NEW d, NEW cl \in AClient(d), NEW stage \in Stages, NEW next, next = [cl EXCEPT !.stage = stage]
  PROVE  next \in AClient(d) /\ next.stage = stage /\ next.cutoff = cl.cutoff /\ next.verdict = cl.verdict
<1>1. PICK s : s \in Stages /\ s = cl.stage
  BY DEF AClient
<1>2. PICK t : t \in Instants \cup {0} /\ t = cl.cutoff
  BY DEF AClient
<1>3. PICK v : v \in Verdicts(d) \cup {Absent} /\ v = cl.verdict
  BY DEF AClient
<1>4. cl = [stage |-> s, cutoff |-> t, verdict |-> v]
  BY <1>1, <1>2, <1>3 DEF AClient
<1>5. next = [stage |-> stage, cutoff |-> t, verdict |-> v]
  BY <1>4
<1>6. QED
  BY <1>2, <1>3, <1>5 DEF AClient

LEMMA AwayIs == \A d : Away \in AClient(d) /\ Away.stage = "away"
BY DEF Away, AClient, Stages

LEMMA UnderwayGrows ==
  ASSUME NEW ev, NEW e, NEW ev2, Grown(ev, e, ev2), NEW d, NEW cl, Underway(ev, d, cl)
  PROVE  Underway(ev2, d, cl)
<1>1. /\ \A i \in DOMAIN ev : ev2[i] = ev[i] /\ i \in DOMAIN ev2
      /\ ToSet(ev) \subseteq ToSet(ev2)
  BY OneEvent
<1>2. QED
  BY <1>1 DEF Underway

LEMMA MissedGrows ==
  ASSUME NEW ev, NEW e, NEW ev2, Grown(ev, e, ev2), NEW type, NEW id, Missed(ev, type, id),
         ~ (e.type = type /\ e.item.id = id)
  PROVE  Missed(ev2, type, id)
<1>1. /\ \A i \in DOMAIN ev : ev2[i] = ev[i]
      /\ ev2[Len(ev) + 1] = e
      /\ \A i \in DOMAIN ev2 : i \in DOMAIN ev \/ i = Len(ev) + 1
  BY OneEvent
<1>2. QED
  BY <1>1 DEF Missed

\* A client moves, the journal does not.
LEMMA ClientMoves ==
  ASSUME NEW ev, NEW d, NEW cls \in [Clients -> AClient(d)], NEW c \in Clients, NEW next, NEW cls2,
         cls2 = [cls EXCEPT ![c] = next],
         \A a \in Clients : Underway(ev, d, cls[a]), next \in AClient(d), Underway(ev, d, next)
  PROVE  cls2 \in [Clients -> AClient(d)] /\ \A a \in Clients : Underway(ev, d, cls2[a])
OBVIOUS

LEMMA AloneMoves ==
  ASSUME NEW ev, NEW cls, NEW c \in Clients, NEW next, NEW cls2, NEW d, cls \in [Clients -> AClient(d)],
         cls2 = [cls EXCEPT ![c] = next], Alone(ev, cls), next.stage # "away" => cls[c].stage # "away",
         next.stage = "record" => Missed(ev, "qualification", next.verdict.id),
         next.stage = "write" => Missed(ev, "handoff", next.verdict.id)
  PROVE  Alone(ev, cls2)
<1>1. cls2[c] = next /\ \A a \in Clients : a # c => cls2[a] = cls[a]
  OBVIOUS
<1>2. \A a \in Clients : cls2[a].stage # "away" => cls[a].stage # "away"
  BY <1>1
<1>3. \A a, b \in Clients : cls2[a].stage # "away" /\ cls2[b].stage # "away" => a = b
  BY <1>2 DEF Alone
<1>4. \A a \in Clients : cls2[a].stage = "record" => Missed(ev, "qualification", cls2[a].verdict.id)
  BY <1>1 DEF Alone
<1>5. \A a \in Clients : cls2[a].stage = "write" => Missed(ev, "handoff", cls2[a].verdict.id)
  BY <1>1 DEF Alone
<1>6. QED
  BY <1>3, <1>4, <1>5 DEF Alone

\* The client that is underway alone writes what it missed and moves on.
LEMMA AloneWrites ==
  ASSUME NEW ev, NEW e, NEW ev2, Grown(ev, e, ev2), NEW d, NEW cls \in [Clients -> AClient(d)], NEW c \in Clients,
         NEW next, NEW cls2, cls2 = [cls EXCEPT ![c] = next], Alone(ev, cls), cls[c].stage # "away",
         next.stage \notin {"record", "write"},
         Missed(ev, e.type, e.item.id)
  PROVE  Alone(ev2, cls2)
<1>1. cls2[c] = next /\ \A a \in Clients : a # c => cls2[a] = cls[a]
  OBVIOUS
<1>2. \A a \in Clients : a # c => cls[a].stage = "away"
  BY DEF Alone
<1>3. \A a, b \in Clients : cls2[a].stage # "away" /\ cls2[b].stage # "away" => a = b
  BY <1>1, <1>2
<1>4. \A a \in Clients : cls2[a].stage \notin {"record", "write"}
  BY <1>1, <1>2
<1>5. Single(ev2)
  BY SingleGrows DEF Alone, Missed
<1>6. QED
  BY <1>3, <1>4, <1>5 DEF Alone

-----------------------------------------------------------------------------
(* Every step of the gate.                                                 *)

\* A client moves on and writes nothing.
LEMMA ClientStep ==
  ASSUME NEW ev, NEW d, NEW cls, NEW overlapping, NEW c \in Clients, NEW next, NEW cls2,
         Stands(ev, d, cls, overlapping), cls2 = [cls EXCEPT ![c] = next],
         next \in AClient(d), Underway(ev, d, next),
         next.stage # "away" => cls[c].stage # "away",
         next.stage = "record" => Missed(ev, "qualification", next.verdict.id),
         next.stage = "write" => Missed(ev, "handoff", next.verdict.id)
  PROVE  Stands(ev, d, cls2, overlapping)
<1>1. cls \in [Clients -> AClient(d)] /\ \A a \in Clients : Underway(ev, d, cls[a])
  BY DEF Stands
<1>2. cls2 \in [Clients -> AClient(d)] /\ \A a \in Clients : Underway(ev, d, cls2[a])
  BY <1>1, ClientMoves
<1>3. Alone(ev, cls) => Alone(ev, cls2)
  BY <1>1, AloneMoves
<1>4. QED
  BY <1>2, <1>3 DEF Stands

\* A client writes its verdict or its handoff.
LEMMA ClientWrites ==
  ASSUME NEW ev, NEW e, NEW ev2, NEW d, NEW cls, NEW overlapping, NEW c \in Clients, NEW next, NEW cls2,
         Stands(ev, d, cls, overlapping), ev2 = Append(ev, e), cls2 = [cls EXCEPT ![c] = next],
         next \in AClient(d), next.stage \notin {"record", "write"}, Underway(ev2, d, next),
         (cls[c].stage = "record" /\ e = VerdictEvent(cls[c].verdict))
           \/ (cls[c].stage = "write" /\ e = HandoffEvent(cls[c].verdict))
  PROVE  Stands(ev2, d, cls2, overlapping)
<1>1. Grown(ev, e, ev2)
  BY DEF Stands, Grown
<1>2. PICK cl : cl = cls[c] /\ Underway(ev, d, cl)
  BY DEF Stands
<1>3. /\ cl.stage # "away" /\ e.item = cl.verdict
      /\ \/ cl.stage = "record" /\ e.type = "qualification"
         \/ cl.stage = "write" /\ e.type = "handoff"
  <2>1. CASE cls[c].stage = "record" /\ e = VerdictEvent(cls[c].verdict)
    <3>1. e.item = cl.verdict /\ e.type = "qualification"
      BY <1>2, <2>1 DEF VerdictEvent, Event
    <3>2. cl.stage = "record"
      BY <1>2, <2>1
    <3>3. QED
      BY <3>1, <3>2
  <2>2. CASE cls[c].stage = "write" /\ e = HandoffEvent(cls[c].verdict)
    <3>1. e.item = cl.verdict /\ e.type = "handoff"
      BY <1>2, <2>2 DEF HandoffEvent, Event
    <3>2. cl.stage = "write"
      BY <1>2, <2>2
    <3>3. QED
      BY <3>1, <3>2
  <2>3. QED
    BY <2>1, <2>2
<1>4. PICK quality \in Qualities : cl.verdict = Assess(d, cl.cutoff, quality)
  BY <1>2, <1>3 DEF Underway
<1>5. cl.cutoff \in Instants /\ d.journalled <= cl.cutoff /\ \A document \in ToSet(Documents(d)) : document \in ToSet(ev)
  BY <1>2, <1>3 DEF Underway
<1>6. e.type = "handoff" => Passes(cl.verdict) /\ \E j \in DOMAIN ev : ev[j].type = "qualification" /\ ev[j].item = cl.verdict
  BY <1>2, <1>3 DEF Underway
<1>7. d \in Dossiers /\ cls \in [Clients -> AClient(d)]
  BY DEF Stands
<1>8. Passes(cl.verdict) => LooksBack(d, cl.verdict)
  BY <1>4, <1>5, <1>7, EligibleLooksBack
<1>9. Backed(ev, d) /\ Earned(ev) /\ LookedBack(ev, d)
  BY DEF Stands
<1>10. Backed(ev2, d) /\ Earned(ev2) /\ LookedBack(ev2, d)
  <2>1. e.type = "handoff" =>
          /\ \E j \in DOMAIN ev : ev[j].type = "qualification" /\ ev[j].item = e.item /\ Passes(ev[j].item)
          /\ LooksBack(d, e.item)
    BY <1>3, <1>6, <1>8
  <2>2. e.type = "qualification" => \A document \in ToSet(Documents(d)) : document \in ToSet(ev)
    BY <1>5
  <2>3. QED
    BY <1>1, <1>9, <2>1, <2>2, GrownKeeps
<1>11. cls2 \in [Clients -> AClient(d)]
  BY <1>7
<1>12. \A a \in Clients : Underway(ev2, d, cls2[a])
  <2>1. TAKE a \in Clients
  <2>2. CASE a = c
    BY <1>7, <2>2
  <2>3. CASE a # c
    <3>1. cls2[a] = cls[a] /\ Underway(ev, d, cls[a])
      BY <1>7, <2>3 DEF Stands
    <3>2. QED
      BY <1>1, <3>1, UnderwayGrows
  <2>4. QED
    BY <2>2, <2>3
<1>13. Alone(ev, cls) => Alone(ev2, cls2)
  <2>1. SUFFICES ASSUME Alone(ev, cls) PROVE Alone(ev2, cls2)
    OBVIOUS
  <2>2. Missed(ev, e.type, e.item.id)
    BY <1>2, <1>3, <2>1 DEF Alone
  <2>3. cls[c].stage # "away"
    BY <1>2, <1>3
  <2>4. QED
    BY <1>1, <1>7, <2>1, <2>2, <2>3, AloneWrites
<1>14. IsSeq(ev2)
  BY <1>1, OneEvent
<1>15. QED
  BY <1>7, <1>10, <1>11, <1>12, <1>13, <1>14 DEF Stands

LEMMA DocumentStep == ASSUME GateInv, RecordDocument PROVE GateInv'
<1>1. PICK ev, d : ev = events /\ d = dossier /\ IsSeq(ev) /\ d \in Dossiers
  BY DEF GateInv, Stands
<1>2. PICK missing : missing = {i \in DOMAIN Documents(d) : Documents(d)[i] \notin ToSet(events)}
  OBVIOUS
<1>3. missing # {} /\ Journal(Documents(d)[Min(missing)]) /\ UNCHANGED <<dossier, client, gateOverlapped>>
  BY <1>1, <1>2 DEF RecordDocument
<1>4. PICK e : e = Documents(d)[Min(missing)] /\ events' = Append(events, e)
  BY <1>3 DEF Journal
<1>5. e \in ToSet(Documents(d))
  <2>1. IsSeq(Documents(d))
    BY <1>1, DocumentsAre
  <2>2. PICK S : Documents(d) \in Seq(S)
    BY <2>1 DEF IsSeq
  <2>3. Len(Documents(d)) \in Nat /\ DOMAIN Documents(d) = 1..Len(Documents(d))
    BY <2>2
  <2>4. missing \in SUBSET (1..Len(Documents(d)))
    BY <1>2, <2>3
  <2>5. Min(missing) \in missing
    BY <1>3, <2>3, <2>4, FirstPlace
  <2>6. Min(missing) \in DOMAIN Documents(d)
    BY <1>2, <2>5
  <2>7. QED
    BY <1>4, <2>6 DEF ToSet
<1>6. e.type \notin {"qualification", "handoff"}
  BY <1>1, <1>5, DocumentsAre DEF DocumentTypes
<1>7. PICK ev2 : ev2 = Append(ev, e) /\ ev2 = events'
  BY <1>1, <1>4
<1>8. Grown(ev, e, ev2)
  BY <1>1, <1>7 DEF Grown
<1>9. PICK cls, overlapping : cls = client /\ overlapping = gateOverlapped /\ Stands(ev, d, cls, overlapping)
  BY <1>1 DEF GateInv
<1>10. IsSeq(ev2)
  BY <1>8, OneEvent
<1>11. Backed(ev2, d) /\ Earned(ev2) /\ LookedBack(ev2, d)
  BY <1>6, <1>8, <1>9, GrownKeeps DEF Stands
<1>12. \A a \in Clients : Underway(ev2, d, cls[a])
  BY <1>8, <1>9, UnderwayGrows DEF Stands
<1>13. Alone(ev, cls) => Alone(ev2, cls)
  <2>1. \A id : Missed(ev, "qualification", id) => Missed(ev2, "qualification", id)
    BY <1>6, <1>8, MissedGrows
  <2>2. \A id : Missed(ev, "handoff", id) => Missed(ev2, "handoff", id)
    BY <1>6, <1>8, MissedGrows
  <2>3. Single(ev) => Single(ev2)
    BY <1>6, <1>8, SingleGrows
  <2>4. QED
    BY <2>1, <2>2, <2>3 DEF Alone
<1>14. Stands(ev2, d, cls, overlapping)
  BY <1>9, <1>10, <1>11, <1>12, <1>13 DEF Stands
<1>15. dossier' = d /\ client' = cls /\ gateOverlapped' = overlapping
  BY <1>1, <1>3, <1>9
<1>16. QED
  BY <1>7, <1>14, <1>15 DEF GateInv

LEMMA QualifyStep ==
  ASSUME NEW c \in Clients, NEW cutoff \in Instants, NEW quality \in Qualities, GateInv, Qualify(c, cutoff, quality)
  PROVE  GateInv'
<1>1. PICK ev, d, cls, overlapping :
        /\ ev = events /\ d = dossier /\ cls = client /\ overlapping = gateOverlapped
        /\ Stands(ev, d, cls, overlapping)
  BY DEF GateInv
<1>2. PICK next : next = [stage |-> "look", cutoff |-> cutoff, verdict |-> Assess(d, cutoff, quality)]
  OBVIOUS
<1>3. /\ InputsRecorded(d, cutoff) /\ client' = [client EXCEPT ![c] = next]
      /\ gateOverlapped' = (gateOverlapped \/ \E o \in Clients : client[o] # Away)
      /\ UNCHANGED <<events, dossier>>
  BY <1>1, <1>2 DEF Qualify, runtimeVars
<1>4. next \in AClient(d) /\ next.stage = "look" /\ next.cutoff = cutoff /\ next.verdict = Assess(d, cutoff, quality)
  BY <1>2 DEF AClient, Stages, Verdicts
<1>5. Underway(ev, d, next)
  <2>1. \A document \in ToSet(Documents(d)) : document \in ToSet(ev) /\ document.at <= cutoff
    BY <1>1, <1>3 DEF InputsRecorded
  <2>2. d.journalled <= cutoff
    BY <1>1, <2>1, DocumentsAre DEF Stands
  <2>3. QED
    BY <1>4, <2>1, <2>2 DEF Underway
<1>6. PICK cls2 : cls2 = [cls EXCEPT ![c] = next] /\ cls2 = client'
  BY <1>1, <1>3
<1>7. cls \in [Clients -> AClient(d)] /\ \A a \in Clients : Underway(ev, d, cls[a])
  BY <1>1 DEF Stands
<1>8. cls2 \in [Clients -> AClient(d)] /\ \A a \in Clients : Underway(ev, d, cls2[a])
  BY <1>4, <1>5, <1>6, <1>7, ClientMoves
<1>9. PICK overlapping2 : overlapping2 = gateOverlapped'
  OBVIOUS
<1>10. overlapping2 \in BOOLEAN /\ (overlapping => overlapping2)
  BY <1>1, <1>3, <1>9 DEF Stands
<1>11. overlapping2 \/ Alone(ev, cls2)
  <2>1. SUFFICES ASSUME ~ overlapping2 PROVE Alone(ev, cls2)
    OBVIOUS
  <2>2. \A o \in Clients : cls[o] = Away
    BY <1>1, <1>3, <1>9, <2>1
  <2>3. \A o \in Clients : cls2[o] = IF o = c THEN next ELSE Away
    BY <1>6, <1>7, <2>2
  <2>4. Away.stage = "away"
    BY DEF Away
  <2>5. Single(ev)
    BY <1>1, <1>10, <2>1 DEF Stands, Alone
  <2>6. QED
    BY <1>4, <2>3, <2>4, <2>5 DEF Alone
<1>12. Stands(ev, d, cls2, overlapping2)
  BY <1>1, <1>8, <1>10, <1>11 DEF Stands
<1>13. events' = ev /\ dossier' = d
  BY <1>1, <1>3
<1>14. QED
  BY <1>6, <1>9, <1>12, <1>13 DEF GateInv

LEMMA LookStep == ASSUME NEW c \in Clients, GateInv, Look(c) PROVE GateInv'
<1>1. PICK ev, d, cls, overlapping :
        /\ ev = events /\ d = dossier /\ cls = client /\ overlapping = gateOverlapped
        /\ Stands(ev, d, cls, overlapping)
  BY DEF GateInv
<1>2. PICK cl \in AClient(d) : cl = cls[c] /\ Underway(ev, d, cl)
  BY <1>1 DEF Stands
<1>3. PICK existing : existing = {i \in DOMAIN ev : ev[i].type = "qualification" /\ ev[i].item.id = cl.verdict.id}
  OBVIOUS
<1>4. PICK next :
        /\ next = IF existing = {} THEN [cl EXCEPT !.stage = "record"]
                  ELSE IF ev[Min(existing)].item # cl.verdict \/ ~Passes(cl.verdict) THEN Away
                  ELSE [cl EXCEPT !.stage = "handoff"]
        /\ client' = [cls EXCEPT ![c] = next]
  BY <1>1, <1>2, <1>3 DEF Look, Become, Places
<1>5. cl.stage = "look" /\ UNCHANGED <<events, dossier, gateOverlapped>>
  BY <1>1, <1>2 DEF Look, Become, runtimeVars
<1>6. PICK cls2 : cls2 = client' /\ cls2 = [cls EXCEPT ![c] = next]
  BY <1>4
<1>7. Stands(ev, d, cls2, overlapping)
  <2>1. CASE existing = {}
    <3>1. next = [cl EXCEPT !.stage = "record"] /\ "record" \in Stages
      BY <1>4, <2>1 DEF Stages
    <3>2. next \in AClient(d) /\ next.stage = "record" /\ next.cutoff = cl.cutoff /\ next.verdict = cl.verdict
      BY <3>1, Restaged
    <3>3. Underway(ev, d, next)
      BY <1>2, <1>5, <3>2 DEF Underway
    <3>4. Missed(ev, "qualification", next.verdict.id)
      BY <1>3, <2>1, <3>2 DEF Missed
    <3>5. QED
      BY <1>1, <1>2, <1>5, <1>6, <3>2, <3>3, <3>4, ClientStep
  <2>2. CASE existing # {} /\ ev[Min(existing)].item = cl.verdict /\ Passes(cl.verdict)
    <3>1. next = [cl EXCEPT !.stage = "handoff"] /\ "handoff" \in Stages
      BY <1>4, <2>2 DEF Stages
    <3>2. next \in AClient(d) /\ next.stage = "handoff" /\ next.cutoff = cl.cutoff /\ next.verdict = cl.verdict
      BY <3>1, Restaged
    <3>3. Min(existing) \in existing
      <4>1. PICK S : ev \in Seq(S)
        BY <1>1 DEF Stands, IsSeq
      <4>2. Len(ev) \in Nat /\ DOMAIN ev = 1..Len(ev)
        BY <4>1
      <4>3. existing \in SUBSET (1..Len(ev))
        BY <1>3, <4>2
      <4>4. QED
        BY <2>2, <4>2, <4>3, FirstPlace
    <3>4. \E j \in DOMAIN ev : ev[j].type = "qualification" /\ ev[j].item = cl.verdict
      BY <1>3, <2>2, <3>3
    <3>5. Underway(ev, d, next)
      BY <1>2, <1>5, <2>2, <3>2, <3>4 DEF Underway
    <3>6. QED
      BY <1>1, <1>2, <1>5, <1>6, <3>2, <3>5, ClientStep
  <2>3. CASE existing # {} /\ ~ (ev[Min(existing)].item = cl.verdict /\ Passes(cl.verdict))
    <3>1. next = Away
      BY <1>4, <2>3
    <3>2. next \in AClient(d) /\ next.stage = "away" /\ Underway(ev, d, next)
      BY <3>1, AwayIs DEF Underway
    <3>3. QED
      BY <1>1, <1>6, <3>2, ClientStep
  <2>4. QED
    BY <2>1, <2>2, <2>3
<1>8. events' = ev /\ dossier' = d /\ gateOverlapped' = overlapping
  BY <1>1, <1>5
<1>9. QED
  BY <1>6, <1>7, <1>8 DEF GateInv

LEMMA RecordVerdictStep == ASSUME NEW c \in Clients, GateInv, RecordVerdict(c) PROVE GateInv'
<1>1. PICK ev, d, cls, overlapping :
        /\ ev = events /\ d = dossier /\ cls = client /\ overlapping = gateOverlapped
        /\ Stands(ev, d, cls, overlapping)
  BY DEF GateInv
<1>2. PICK cl \in AClient(d) : cl = cls[c] /\ Underway(ev, d, cl)
  BY <1>1 DEF Stands
<1>3. PICK next :
        /\ next = IF Passes(cl.verdict) THEN [cl EXCEPT !.stage = "handoff"] ELSE Away
        /\ client' = [cls EXCEPT ![c] = next]
  BY <1>1, <1>2 DEF RecordVerdict, Become
<1>4. cl.stage = "record" /\ UNCHANGED <<dossier, gateOverlapped>>
  BY <1>1, <1>2 DEF RecordVerdict, Become
<1>5. PICK e, ev2 : e = VerdictEvent(cl.verdict) /\ ev2 = Append(ev, e) /\ ev2 = events'
  BY <1>1, <1>2 DEF RecordVerdict, Journal
<1>6. PICK cls2 : cls2 = client' /\ cls2 = [cls EXCEPT ![c] = next]
  BY <1>3
<1>7. Grown(ev, e, ev2)
  BY <1>1, <1>5 DEF Grown, Stands
<1>8. Underway(ev2, d, cl)
  BY <1>2, <1>7, UnderwayGrows
<1>9. next \in AClient(d) /\ next.stage \notin {"record", "write"} /\ Underway(ev2, d, next)
  <2>1. CASE Passes(cl.verdict)
    <3>1. next = [cl EXCEPT !.stage = "handoff"] /\ "handoff" \in Stages
      BY <1>3, <2>1 DEF Stages
    <3>2. next \in AClient(d) /\ next.stage = "handoff" /\ next.cutoff = cl.cutoff /\ next.verdict = cl.verdict
      BY <3>1, Restaged
    <3>3. ev2[Len(ev) + 1] = e /\ Len(ev) + 1 \in DOMAIN ev2
      BY <1>7, OneEvent
    <3>4. e.type = "qualification" /\ e.item = cl.verdict
      BY <1>5 DEF VerdictEvent, Event
    <3>5. Underway(ev2, d, next)
      BY <1>4, <1>8, <2>1, <3>2, <3>3, <3>4 DEF Underway
    <3>6. QED
      BY <3>2, <3>5
  <2>2. CASE ~ Passes(cl.verdict)
    BY <1>3, <2>2, AwayIs DEF Underway
  <2>3. QED
    BY <2>1, <2>2
<1>10. Stands(ev2, d, cls2, overlapping)
  BY <1>1, <1>2, <1>4, <1>5, <1>6, <1>9, ClientWrites
<1>11. dossier' = d /\ gateOverlapped' = overlapping
  BY <1>1, <1>4
<1>12. QED
  BY <1>5, <1>6, <1>10, <1>11 DEF GateInv

LEMMA LookForHandoffStep == ASSUME NEW c \in Clients, GateInv, LookForHandoff(c) PROVE GateInv'
<1>1. PICK ev, d, cls, overlapping :
        /\ ev = events /\ d = dossier /\ cls = client /\ overlapping = gateOverlapped
        /\ Stands(ev, d, cls, overlapping)
  BY DEF GateInv
<1>2. PICK cl \in AClient(d) : cl = cls[c] /\ Underway(ev, d, cl)
  BY <1>1 DEF Stands
<1>3. PICK there : there = {i \in DOMAIN ev : ev[i].type = "handoff" /\ ev[i].item.id = cl.verdict.id}
  OBVIOUS
<1>4. there = Places("handoff", client[c].verdict.id)
  BY <1>1, <1>2, <1>3 DEF Places
<1>5. cl.stage = "handoff" /\ UNCHANGED <<events, dossier, gateOverlapped>>
  BY <1>1, <1>2 DEF LookForHandoff, Become, runtimeVars
<1>6. PICK next :
        /\ client' = [cls EXCEPT ![c] = next]
        /\ (there = {} /\ next = [cl EXCEPT !.stage = "write"]) \/ next = Away
  BY <1>1, <1>2, <1>4 DEF LookForHandoff, Become
<1>7. PICK cls2 : cls2 = client' /\ cls2 = [cls EXCEPT ![c] = next]
  BY <1>6
<1>8. Stands(ev, d, cls2, overlapping)
  <2>1. CASE there = {} /\ next = [cl EXCEPT !.stage = "write"]
    <3>1. next = [cl EXCEPT !.stage = "write"] /\ "write" \in Stages
      BY <2>1 DEF Stages
    <3>2. next \in AClient(d) /\ next.stage = "write" /\ next.cutoff = cl.cutoff /\ next.verdict = cl.verdict
      BY <3>1, Restaged
    <3>3. Underway(ev, d, next)
      BY <1>2, <1>5, <3>2 DEF Underway
    <3>4. Missed(ev, "handoff", next.verdict.id)
      BY <1>3, <2>1, <3>2 DEF Missed
    <3>5. QED
      BY <1>1, <1>2, <1>5, <1>7, <3>2, <3>3, <3>4, ClientStep
  <2>2. CASE next = Away
    <3>1. next \in AClient(d) /\ next.stage = "away" /\ Underway(ev, d, next)
      BY <2>2, AwayIs DEF Underway
    <3>2. QED
      BY <1>1, <1>7, <3>1, ClientStep
  <2>3. QED
    BY <1>6, <2>1, <2>2
<1>9. events' = ev /\ dossier' = d /\ gateOverlapped' = overlapping
  BY <1>1, <1>5
<1>10. QED
  BY <1>7, <1>8, <1>9 DEF GateInv

LEMMA HandOffStep == ASSUME NEW c \in Clients, GateInv, HandOff(c) PROVE GateInv'
<1>1. PICK ev, d, cls, overlapping :
        /\ ev = events /\ d = dossier /\ cls = client /\ overlapping = gateOverlapped
        /\ Stands(ev, d, cls, overlapping)
  BY DEF GateInv
<1>2. PICK e, ev2 : e = HandoffEvent(cls[c].verdict) /\ ev2 = Append(ev, e) /\ ev2 = events'
  BY <1>1 DEF HandOff, Journal
<1>3. PICK cls2 : cls2 = client' /\ cls2 = [cls EXCEPT ![c] = Away]
  BY <1>1 DEF HandOff, Become
<1>4. cls[c].stage = "write" /\ UNCHANGED <<dossier, gateOverlapped>>
  BY <1>1 DEF HandOff, Become
<1>5. Away \in AClient(d) /\ Away.stage \notin {"record", "write"} /\ Underway(ev2, d, Away)
  BY AwayIs DEF Underway
<1>6. Stands(ev2, d, cls2, overlapping)
  BY <1>1, <1>2, <1>3, <1>4, <1>5, ClientWrites
<1>7. dossier' = d /\ gateOverlapped' = overlapping
  BY <1>1, <1>4
<1>8. QED
  BY <1>2, <1>3, <1>6, <1>7 DEF GateInv

LEMMA ClientDiesStep == ASSUME NEW c \in Clients, GateInv, ClientDies(c) PROVE GateInv'
<1>1. PICK ev, d, cls, overlapping :
        /\ ev = events /\ d = dossier /\ cls = client /\ overlapping = gateOverlapped
        /\ Stands(ev, d, cls, overlapping)
  BY DEF GateInv
<1>2. PICK cls2 : cls2 = client' /\ cls2 = [cls EXCEPT ![c] = Away]
  BY <1>1 DEF ClientDies
<1>3. UNCHANGED <<dossier, gateOverlapped>>
  BY DEF ClientDies
<1>4. Away \in AClient(d) /\ Away.stage = "away" /\ Away.stage \notin {"record", "write"}
  BY AwayIs
<1>5. \A ev2 : Underway(ev2, d, Away)
  BY <1>4 DEF Underway
<1>6. \E ev2 : ev2 = events' /\ Stands(ev2, d, cls2, overlapping)
  <2>1. CASE UNCHANGED runtimeVars
    <3>1. events' = ev
      BY <1>1, <2>1 DEF runtimeVars
    <3>2. Stands(ev, d, cls2, overlapping)
      BY <1>1, <1>2, <1>4, <1>5, ClientStep
    <3>3. QED
      BY <3>1, <3>2
  <2>2. CASE client[c].stage = "record" /\ JournalWithoutState(VerdictEvent(client[c].verdict))
    <3>1. PICK e, ev2 : e = VerdictEvent(cls[c].verdict) /\ ev2 = Append(ev, e) /\ ev2 = events'
      BY <1>1, <2>2 DEF JournalWithoutState
    <3>2. cls[c].stage = "record"
      BY <1>1, <2>2
    <3>3. Stands(ev2, d, cls2, overlapping)
      BY <1>1, <1>2, <1>4, <1>5, <3>1, <3>2, ClientWrites
    <3>4. QED
      BY <3>1, <3>3
  <2>3. CASE client[c].stage = "write" /\ JournalWithoutState(HandoffEvent(client[c].verdict))
    <3>1. PICK e, ev2 : e = HandoffEvent(cls[c].verdict) /\ ev2 = Append(ev, e) /\ ev2 = events'
      BY <1>1, <2>3 DEF JournalWithoutState
    <3>2. cls[c].stage = "write"
      BY <1>1, <2>3
    <3>3. Stands(ev2, d, cls2, overlapping)
      BY <1>1, <1>2, <1>4, <1>5, <3>1, <3>2, ClientWrites
    <3>4. QED
      BY <3>1, <3>3
  <2>4. QED
    BY <2>1, <2>2, <2>3 DEF ClientDies
<1>7. dossier' = d /\ gateOverlapped' = overlapping
  BY <1>1, <1>3
<1>8. QED
  BY <1>2, <1>6, <1>7 DEF GateInv

LEMMA GateStarts == ASSUME GateInit PROVE GateInv
<1>1. events = <<>> /\ dossier \in Dossiers /\ client = [c \in Clients |-> Away] /\ gateOverlapped = FALSE
  BY DEF GateInit, RuntimeInit
<1>2. IsSeq(events) /\ DOMAIN events = {}
  BY <1>1 DEF IsSeq
<1>3. client \in [Clients -> AClient(dossier)] /\ \A a \in Clients : client[a].stage = "away"
  BY <1>1, AwayIs
<1>4. Backed(events, dossier) /\ Earned(events) /\ LookedBack(events, dossier) /\ Single(events)
  BY <1>2 DEF Backed, Earned, LookedBack, Single
<1>5. \A a \in Clients : Underway(events, dossier, client[a])
  BY <1>3 DEF Underway
<1>6. gateOverlapped \in BOOLEAN
  BY <1>1
<1>7. gateOverlapped \/ Alone(events, client)
  <2>1. client = [c \in Clients |-> Away]
    BY <1>1
  <2>2. QED
    BY <1>3, <1>4, <1>1 DEF Alone
<1>8. QED
  BY <1>1, <1>2, <1>3, <1>4, <1>5, <1>6, <1>7 DEF GateInv, Stands

LEMMA GateKeeps == ASSUME GateInv, [GateNext]_gateVars PROVE GateInv'
<1>1. CASE RecordDocument
  BY <1>1, DocumentStep
<1>2. CASE RebuildState /\ projected # Len(events) /\ UNCHANGED <<dossier, client, calls, gateDeaths, gateOverlapped>>
  <2>1. events' = events /\ dossier' = dossier /\ client' = client /\ gateOverlapped' = gateOverlapped
    BY <1>2 DEF RebuildState
  <2>2. QED
    BY <2>1 DEF GateInv
<1>3. ASSUME NEW c \in Clients, NEW cutoff \in Instants, NEW quality \in Qualities, Qualify(c, cutoff, quality)
      PROVE  GateInv'
  BY <1>3, QualifyStep
<1>4. ASSUME NEW c \in Clients, Look(c) PROVE GateInv'
  BY <1>4, LookStep
<1>5. ASSUME NEW c \in Clients, RecordVerdict(c) PROVE GateInv'
  BY <1>5, RecordVerdictStep
<1>6. ASSUME NEW c \in Clients, LookForHandoff(c) PROVE GateInv'
  BY <1>6, LookForHandoffStep
<1>7. ASSUME NEW c \in Clients, HandOff(c) PROVE GateInv'
  BY <1>7, HandOffStep
<1>8. ASSUME NEW c \in Clients, ClientDies(c) PROVE GateInv'
  BY <1>8, ClientDiesStep
<1>9. CASE UNCHANGED gateVars
  <2>1. events' = events /\ dossier' = dossier /\ client' = client /\ gateOverlapped' = gateOverlapped
    BY <1>9 DEF gateVars, runtimeVars
  <2>2. QED
    BY <2>1 DEF GateInv
<1>10. QED
  BY <1>1, <1>2, <1>3, <1>4, <1>5, <1>6, <1>7, <1>8, <1>9 DEF GateNext

LEMMA GateInvIsEnough == GateInv => HandoffsStand
<1>1. SUFFICES ASSUME GateInv PROVE HandoffsStand
  OBVIOUS
<1>2. Backed(events, dossier) /\ Earned(events) /\ LookedBack(events, dossier) /\ IsSeq(events)
  BY <1>1 DEF GateInv, Stands
<1>3. HandoffsLookBack
  BY <1>2 DEF HandoffsLookBack, LookedBack, LooksBack
<1>4. ASSUME NEW i \in DOMAIN events, events[i].type = "handoff"
      PROVE  \E j \in 1 .. i - 1 :
               /\ events[j].type = "qualification" /\ events[j].item = events[i].item /\ Passes(events[j].item)
               /\ \A document \in ToSet(Documents(dossier)) : \E l \in 1 .. j - 1 : events[l] = document
  <2>1. PICK j \in 1 .. i - 1 :
          events[j].type = "qualification" /\ events[j].item = events[i].item /\ Passes(events[j].item)
    BY <1>2, <1>4 DEF Earned
  <2>2. PICK S : events \in Seq(S)
    BY <1>2 DEF IsSeq
  <2>3. j \in DOMAIN events
    <3>1. Len(events) \in Nat /\ DOMAIN events = 1..Len(events)
      BY <2>2
    <3>2. QED
      BY <1>4, <3>1
  <2>4. \A document \in ToSet(Documents(dossier)) : \E l \in 1 .. j - 1 : events[l] = document
    BY <1>2, <2>1, <2>3 DEF Backed
  <2>5. QED
    BY <2>1, <2>4
<1>5. gateOverlapped \/ Single(events)
  BY <1>1 DEF GateInv, Stands, Alone
<1>6. HandoffsAreEarned
  BY <1>4, <1>5 DEF HandoffsAreEarned, Single
<1>7. QED
  BY <1>3, <1>6 DEF HandoffsStand

\* What goes out at a hand-off was known, qualified and recorded before it, and
\* unless two clients overlapped goes out once per identity, whatever died in
\* between and was retried (record_qualification, record_handoff).
THEOREM HandoffsAreSound == GateSpec => []HandoffsStand
<1>1. GateInit => GateInv
  BY GateStarts
<1>2. GateInv /\ [GateNext]_gateVars => GateInv'
  BY GateKeeps
<1>3. GateInv => HandoffsStand
  BY GateInvIsEnough
<1>4. QED
  BY <1>1, <1>2, <1>3, PTL DEF GateSpec
=============================================================================
