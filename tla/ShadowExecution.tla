--------------------------- MODULE ShadowExecution ---------------------------
(***************************************************************************)
(* The restartable shadow lifecycle (shadow_lifecycle.py), the receipt     *)
(* store it ends in (operations.py), and the replay that drives it         *)
(* (replay.py).  Each step below is one file operation; a process keeps    *)
(* the journal and the checkpoint it works on in memory, and there is no   *)
(* lock: a process that dies loses its memory and nothing else.            *)
(***************************************************************************)
EXTENDS ExecutionPlane, FiniteSets

CONSTANTS
  Processes,     \* processes that run operations or the replay
  Decisions,     \* the decisions there are, by the observation they are about
  Observations,  \* sequence of observations [id, instrument, at, close]; numbers
                 \* stand for identities and instruments, which they order
  Assumptions,   \* the execution assumptions a caller may pass
  Settled,       \* those an unfinished replay is run again with
  Interval,      \* interval_seconds of every observation
  MaxRuns,       \* bound on calls
  MaxCrashes,    \* bound on deaths
  MaxChanges,    \* bound on transitions of the capability and the governor
  Nil

VARIABLES
  journal,     \* runtime/shadow_operations/<request>.json, by observation
  receipts,    \* receipts/execution/<request>.json, by observation
  checkpoint,  \* runtime/replays/<replay>.json
  proc,        \* per process: its step and what it has in memory
  capability, governor, transitions,  \* what authorizations are decided from
  unfit,       \* the observations whose quality is not VALID
  runs, crashes,                      \* bounds
  shared       \* history: observations whose operation two processes ran at once

shadowVars == <<journal, receipts, checkpoint, proc, capability, governor, unfit, transitions,
                runs, crashes, shared>>

Ids == {Observations[i].id : i \in DOMAIN Observations}
ObservationOf(id) == CHOOSE o \in ToSet(Observations) : o.id = id
Decided == DOMAIN Decisions

\* ReplayEngine.run refuses observations of one identity, ShadowLifecycle.run a
\* decision about none.
ASSUME ObservationsAssumption ==
  /\ Observations \in Seq([id : Nat, instrument : Nat, at : Nat, close : Nat])
  /\ \A i, k \in DOMAIN Observations : i # k => Observations[i].id # Observations[k].id
  /\ Decided \subseteq Ids

\* TypedDecision.validate and ExecutionAssumptions.validate.
ASSUME DecisionsAssumption == \A id \in Decided : Decisions[id].quantity \in Nat \ {0}
ASSUME ExecutionAssumption ==
  \A a \in Assumptions :
    /\ {a.penalty_bps, a.fee_bps, a.minimum_notional, a.capacity} \subseteq Nat
    /\ {a.quantity_step, a.price_step} \subseteq Nat \ {0} /\ a.fill_ratio \in 0..100

ASSUME SettledAssumption == Settled \in Assumptions

ASSUME BoundsAssumption == MaxRuns \in Nat

\* The typed decision becomes a request; the request does not hold the price
\* observed nor the assumptions, which only the input hash covers.
Request(id) == Decisions[id]
InputHash(id, a) == <<Decisions[id], ObservationOf(id).close, a>>

Idle == [at |-> "idle", id |-> Nil, assumptions |-> Nil, stamp |-> 0,
         memory |-> Nil, replay |-> Nil]
Prepared(id, a) == [stage |-> "PREPARED", input |-> InputHash(id, a), assumptions |-> a,
                    authorization |-> Nil, result |-> Nil, accounting |-> Nil]

\* What the journal of an operation holds once it is accounted for, and the
\* receipt that is made of it.
FinishedJournals(id) ==
  {[stage |-> e[1], input |-> InputHash(id, e[2]), assumptions |-> e[2],
    authorization |-> [allowed |-> TRUE, reasons |-> {}, at |-> e[3]],
    result |-> Execute(Request(id), ObservationOf(id), e[2]),
    accounting |-> Accounting(Request(id), Execute(Request(id), ObservationOf(id), e[2]),
                              ObservationOf(id).close)] :
     e \in {"ACCOUNTED", "FINALIZED"} \X Assumptions \X (0..MaxRuns)}
ReceiptOf(id, entry) ==
  [request |-> Request(id), authorization |-> entry.authorization,
   result |-> entry.result, accounting |-> entry.accounting]

ASSUME NilAssumption ==
  /\ Nil \notin Ids
  /\ \A id \in Decided : \A entry \in FinishedJournals(id) : Nil \notin {entry, ReceiptOf(id, entry)}

-----------------------------------------------------------------------------
(* One operation *)

Others(p, id) == {q \in Processes \ {p} : proc[q].id = id}
Goes(p, step) == proc' = [proc EXCEPT ![p] = step]

\* An observation that is not VALID raises.  Then the lookup of the journal: a
\* known operation is resumed at its stage if the inputs are those it began with,
\* and refused otherwise.
Look(p, step, id, a) ==
  /\ shared' = IF Others(p, id) = {} THEN shared ELSE shared \cup {id}
  /\ CASE id \in unfit -> Goes(p, Idle)
       [] id \notin unfit /\ journal[id] = Nil ->
            Goes(p, [step EXCEPT !.at = "prepare", !.id = id, !.assumptions = a])
       [] id \notin unfit /\ journal[id] # Nil /\ journal[id].input = InputHash(id, a) ->
            Goes(p, [step EXCEPT !.at = "run", !.id = id, !.assumptions = a,
                                 !.memory = journal[id]])
       [] OTHER -> Goes(p, Idle)

\* Writes what the process has in memory over whatever the journal holds.
Store(p, memory, at) ==
  /\ journal' = [journal EXCEPT ![proc[p].id] = memory]
  /\ Goes(p, [proc[p] EXCEPT !.memory = memory, !.at = at])

Prepare(p) ==
  /\ proc[p].at = "prepare"
  /\ Store(p, Prepared(proc[p].id, proc[p].assumptions), "run")
  /\ UNCHANGED <<receipts, checkpoint, capability, governor, unfit, transitions, runs, crashes, shared>>

AtStage(p, stage) == proc[p].at = "run" /\ proc[p].memory.stage = stage

\* An authorization, allowed or denied, is decided once and kept in the journal.
AuthorizeStage(p) ==
  /\ AtStage(p, "PREPARED")
  /\ LET decided == Authorize(Request(proc[p].id), capability, governor, proc[p].stamp)
     IN Store(p, [proc[p].memory EXCEPT !.authorization = decided, !.stage = "AUTHORIZED"], "run")
  /\ UNCHANGED <<receipts, checkpoint, capability, governor, unfit, transitions, runs, crashes, shared>>

Denied(p) ==
  /\ proc[p].at = "run" /\ proc[p].memory.stage # "PREPARED"
  /\ ~ proc[p].memory.authorization.allowed
  /\ Goes(p, Idle)
  /\ UNCHANGED <<journal, receipts, checkpoint, capability, governor, unfit, transitions, runs, crashes,
                 shared>>

ExecuteStage(p) ==
  /\ AtStage(p, "AUTHORIZED") /\ proc[p].memory.authorization.allowed
  /\ LET result == Execute(Request(proc[p].id), ObservationOf(proc[p].id), proc[p].assumptions)
     IN Store(p, [proc[p].memory EXCEPT !.result = result, !.stage = "EXECUTED"], "run")
  /\ UNCHANGED <<receipts, checkpoint, capability, governor, unfit, transitions, runs, crashes, shared>>

AccountStage(p) ==
  /\ AtStage(p, "EXECUTED")
  /\ LET m == proc[p].memory
         accounting == Accounting(Request(proc[p].id), m.result, ObservationOf(proc[p].id).close)
     IN Store(p, [m EXCEPT !.accounting = accounting, !.stage = "ACCOUNTED"], "run")
  /\ UNCHANGED <<receipts, checkpoint, capability, governor, unfit, transitions, runs, crashes, shared>>

Receipt(p) == ReceiptOf(proc[p].id, proc[p].memory)

\* ReceiptStore.persist: an existing receipt of the same request is kept.
LookReceipt(p) ==
  /\ AtStage(p, "ACCOUNTED")
  /\ \/ /\ receipts[proc[p].id] = Nil
        /\ Goes(p, [proc[p] EXCEPT !.at = "receipt"])
     \/ /\ receipts[proc[p].id] # Nil /\ receipts[proc[p].id].request = Request(proc[p].id)
        /\ Goes(p, [proc[p] EXCEPT !.at = "finalize"])
  /\ UNCHANGED <<journal, receipts, checkpoint, capability, governor, unfit, transitions, runs, crashes,
                 shared>>

WriteReceipt(p) ==
  /\ proc[p].at = "receipt"
  /\ receipts' = [receipts EXCEPT ![proc[p].id] = Receipt(p)]
  /\ Goes(p, [proc[p] EXCEPT !.at = "finalize"])
  /\ UNCHANGED <<journal, checkpoint, capability, governor, unfit, transitions, runs, crashes, shared>>

Finalize(p) ==
  /\ proc[p].at = "finalize"
  /\ Store(p, [proc[p].memory EXCEPT !.stage = "FINALIZED"], "run")
  /\ UNCHANGED <<receipts, checkpoint, capability, governor, unfit, transitions, runs, crashes, shared>>

\* A finalized operation returns its receipt: to the replay, or to the caller.
Return(p) ==
  /\ AtStage(p, "FINALIZED") /\ proc[p].memory.authorization.allowed
  /\ Goes(p, IF proc[p].replay = Nil THEN Idle ELSE [proc[p] EXCEPT !.at = "record"])
  /\ UNCHANGED <<journal, receipts, checkpoint, capability, governor, unfit, transitions, runs, crashes,
                 shared>>

\* ShadowLifecycle.run, called directly.
Run(p, id, a) ==
  /\ proc[p].at = "idle" /\ runs < MaxRuns /\ runs' = runs + 1
  /\ Look(p, [Idle EXCEPT !.stamp = runs'], id, a)
  /\ UNCHANGED <<journal, receipts, checkpoint, capability, governor, unfit, transitions, crashes>>

-----------------------------------------------------------------------------
(* The replay of all observations, in the order of their source events *)

Precedes(o, q) ==
  \/ o.at < q.at
  \/ o.at = q.at /\ o.instrument < q.instrument
  \/ o.at = q.at /\ o.instrument = q.instrument /\ o.id < q.id
Place(o) == Cardinality({q \in ToSet(Observations) : Precedes(q, o)}) + 1
Ordered == [i \in DOMAIN Observations |-> CHOOSE o \in ToSet(Observations) : Place(o) = i]
OrderedIds == [i \in DOMAIN Ordered |-> Ordered[i].id]

\* Where an instrument's observations do not follow each other by one interval.
Gaps(seq) ==
  {<<seq[e[1]].id, seq[e[2]].id>> : e \in
     {e \in (1..Len(seq)) \X (1..Len(seq)) :
        LET prior == seq[e[1]]  item == seq[e[2]]
        IN /\ e[1] < e[2] /\ prior.instrument = item.instrument
           /\ \A m \in (e[1] + 1)..(e[2] - 1) : seq[m].instrument # item.instrument
           /\ item.at # prior.at + Interval}}

Running == [status |-> "RUNNING", ordered |-> OrderedIds, processed |-> <<>>, paths |-> {},
            gaps |-> Gaps(Ordered)]

\* ReplayEngine.run begins: it goes on from the checkpoint it finds.  The bound
\* on calls does not keep an unfinished replay from being run again.
Replay(p, a) ==
  /\ proc[p].at = "idle"
  /\ runs < MaxRuns \/ (checkpoint # Nil /\ checkpoint.status = "RUNNING")
  /\ runs' = IF runs < MaxRuns THEN runs + 1 ELSE runs
  /\ LET step == [Idle EXCEPT !.stamp = runs', !.assumptions = a]
     IN Goes(p, IF checkpoint = Nil THEN [step EXCEPT !.at = "create"]
                ELSE [step EXCEPT !.at = "next", !.replay = checkpoint])
  /\ UNCHANGED <<journal, receipts, checkpoint, capability, governor, unfit, transitions, crashes, shared>>

Save(p, state, at) ==
  /\ checkpoint' = state
  /\ Goes(p, [proc[p] EXCEPT !.at = at, !.replay = state, !.id = Nil, !.memory = Nil])
  /\ UNCHANGED <<journal, receipts, capability, governor, unfit, transitions, runs, crashes, shared>>

CreateCheckpoint(p) == proc[p].at = "create" /\ Save(p, Running, "next")

Unprocessed(state) == {i \in DOMAIN state.ordered : state.ordered[i] \notin ToSet(state.processed)}
NextOf(state) == state.ordered[Min(Unprocessed(state))]

\* Variant: an observation nobody decided about stops the replay.
NextObservationStrict(p) ==
  /\ proc[p].at = "next" /\ Unprocessed(proc[p].replay) # {}
  /\ LET id == NextOf(proc[p].replay)
     IN IF id \notin Decided THEN Goes(p, Idle) /\ UNCHANGED shared
        ELSE Look(p, proc[p], id, proc[p].assumptions)
  /\ UNCHANGED <<journal, receipts, checkpoint, capability, governor, unfit, transitions, runs, crashes>>

\* Variant: the observation is recorded before its operation is run.
NextObservationEager(p) ==
  /\ proc[p].at = "next" /\ Unprocessed(proc[p].replay) # {}
  /\ LET state == proc[p].replay
         id == NextOf(state)
         done == [state EXCEPT !.processed = Append(@, id),
                               !.paths = IF id \in Decided THEN @ \cup {id} ELSE @]
     IN Save(p, done, "next")

\* The next observation: passed over without a decision, run otherwise.
NextObservation(p) ==
  /\ proc[p].at = "next" /\ Unprocessed(proc[p].replay) # {}
  /\ LET state == proc[p].replay
         id == NextOf(state)
     IN IF id \notin Decided
          THEN Save(p, [state EXCEPT !.processed = Append(@, id)], "next")
          ELSE /\ Look(p, proc[p], id, proc[p].assumptions)
               /\ UNCHANGED <<journal, receipts, checkpoint, capability, governor, unfit, transitions,
                              runs, crashes>>

RecordReceipt(p) ==
  /\ proc[p].at = "record"
  /\ Save(p, [proc[p].replay EXCEPT !.processed = Append(@, proc[p].id),
                                    !.paths = @ \cup {proc[p].id}], "next")

Complete(p) ==
  /\ proc[p].at = "next" /\ Unprocessed(proc[p].replay) = {}
  /\ checkpoint' = [proc[p].replay EXCEPT !.status = "COMPLETE"]
  /\ Goes(p, Idle)
  /\ UNCHANGED <<journal, receipts, capability, governor, unfit, transitions, runs, crashes, shared>>

\* validate_shadow_runtime finds no error in the journals and the checkpoint.
ValidShadowRuntime ==
  /\ \A id \in Decided :
       (journal[id] # Nil /\ journal[id].stage = "FINALIZED") => receipts[id] # Nil
  /\ checkpoint # Nil =>
       /\ Len(checkpoint.ordered) = Cardinality(ToSet(checkpoint.ordered))
       /\ ToSet(checkpoint.processed) \subseteq ToSet(checkpoint.ordered)
       /\ checkpoint.status = "COMPLETE" => checkpoint.processed = checkpoint.ordered
       /\ \A id \in checkpoint.paths : receipts[id] # Nil

-----------------------------------------------------------------------------
(* What surrounds the processes *)

Dies(p) ==
  /\ proc[p].at # "idle" /\ crashes < MaxCrashes
  /\ crashes' = crashes + 1 /\ Goes(p, Idle)
  /\ UNCHANGED <<journal, receipts, checkpoint, capability, governor, unfit, transitions, runs, shared>>

Transition(updated, record) ==
  /\ capability' = updated /\ transitions' = Append(transitions, record)
  /\ UNCHANGED <<journal, receipts, checkpoint, proc, governor, unfit, runs, crashes, shared>>

PromoteCapability(new) ==
  /\ Len(transitions) < MaxChanges /\ MayPromote(capability, new, {"E"})
  /\ Transition(Promoted(capability, new, {"E"}),
                PromotionRecord(capability, new, {"E"}, Len(transitions)))
CapabilityNonSuccess(outcome) ==
  /\ Len(transitions) < MaxChanges
  /\ Transition([capability EXCEPT !.status = outcome],
                NonSuccessRecord(capability, outcome, {"E"}, Len(transitions)))

GovernorChanges ==
  /\ governor.limits = 0 /\ MaxChanges > 0
  /\ governor' = [governor EXCEPT !.limits = 1]
  /\ UNCHANGED <<journal, receipts, checkpoint, proc, capability, unfit, transitions, runs, crashes,
                 shared>>

ShadowInit ==
  /\ journal = [id \in Decided |-> Nil] /\ receipts = [id \in Decided |-> Nil]
  /\ checkpoint = Nil /\ proc = [p \in Processes |-> Idle]
  /\ \E state \in {"HYPOTHESIS", "PREREGISTERED"} :
       capability = [id |-> "CAP", state |-> state, status |-> "ACTIVE", evidence |-> {}]
  /\ governor = [trading |-> "disabled", limits |-> 0] /\ transitions = <<>>
  /\ unfit \in SUBSET Ids
  /\ runs = 0 /\ crashes = 0 /\ shared = {}

Continue(p) ==
  \/ Prepare(p) \/ AuthorizeStage(p) \/ Denied(p) \/ ExecuteStage(p) \/ AccountStage(p)
  \/ LookReceipt(p) \/ WriteReceipt(p) \/ Finalize(p) \/ Return(p)
  \/ CreateCheckpoint(p) \/ NextObservation(p) \/ RecordReceipt(p) \/ Complete(p)

ShadowNext ==
  \/ \E p \in Processes : \/ Continue(p) \/ Dies(p)
                          \/ \E a \in Assumptions : \/ \E id \in Decided : Run(p, id, a)
                                                    \/ Replay(p, a)
  \/ \E new \in ToSet(CAPABILITY_STATES) : PromoteCapability(new)
  \/ \E outcome \in NonSuccess : CapabilityNonSuccess(outcome)
  \/ GovernorChanges

ShadowSpec == ShadowInit /\ [][ShadowNext]_shadowVars

\* A process that is alive goes on, and an unfinished replay is run again with the
\* settled assumptions until it has completed, by whichever process.
FairShadow ==
  /\ \A p \in Processes : WF_shadowVars(Continue(p))
  /\ SF_shadowVars(\E p \in Processes : Replay(p, Settled))

-----------------------------------------------------------------------------
(* Properties *)

\* The validators answer without an error at every moment, however processes
\* overlap and die; and a replay records observations in order and only after
\* their receipts, and the log of the capability is a legal history.
RuntimeValidates ==
  /\ ValidShadowRuntime
  /\ checkpoint # Nil =>
       /\ IsPrefix(checkpoint.processed, checkpoint.ordered)
       /\ ToSet(checkpoint.processed) \cap Decided = checkpoint.paths
  /\ ValidTransitions(transitions, {"E"})

\* A receipt is earned: its observation was VALID and its authorization allowed,
\* so the capability was preregistered by then, what it executed respects the
\* request and the assumptions of the operation, and its accounting is that of its
\* fills.
ReceiptsAreEarned ==
  \A id \in Decided : receipts[id] # Nil =>
    /\ id \notin unfit
    /\ receipts[id].authorization.allowed /\ Rank(capability.state) >= Rank("PREREGISTERED")
    /\ \E a \in Assumptions : /\ id \notin shared => a = journal[id].assumptions
                            /\ Respects(Request(id), receipts[id].result, a)
    /\ receipts[id].accounting =
         Accounting(Request(id), receipts[id].result, ObservationOf(id).close)

\* As long as no two processes were at an operation at once, its receipt is what
\* its journal says: a death anywhere, a policy that changed in between and a
\* call with other assumptions all leave the two in agreement.
JournalAgrees ==
  \A id \in Decided \ shared : receipts[id] # Nil =>
    /\ journal[id].stage \in {"ACCOUNTED", "FINALIZED"}
    /\ receipts[id] = ReceiptOf(id, journal[id])

\* What a receipt certifies is so, and its journal says the same, whoever
\* resumed the operation and however the policy changed on the way.
ReceiptsAgree == ReceiptsAreEarned /\ JournalAgrees

\* What keeps a replay from completing however often it is run again with the
\* settled assumptions: a decision about an observation that is not VALID (the
\* replay admits it and its operation raises), an operation denied (the denial is
\* in its journal for good), or one begun under other assumptions (a conflict for
\* good).
Barred(id) ==
  \/ id \in unfit
  \/ /\ journal[id] # Nil
     /\ \/ journal[id].input # InputHash(id, Settled)
        \/ journal[id].authorization # Nil /\ ~ journal[id].authorization.allowed

\* A replay that was begun completes when it is run again for ever, unless one of
\* its operations is barred: deaths, other processes at the same operations and
\* runs under other assumptions in between do not keep it from it.
ReplayCompletes ==
  checkpoint # Nil ~>
    \/ checkpoint # Nil /\ checkpoint.status = "COMPLETE"
    \/ \E id \in Decided : Barred(id)
=============================================================================
