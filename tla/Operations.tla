----------------------------- MODULE Operations -----------------------------
(***************************************************************************)
(* The two ways operations are started from outside, composed: bounded     *)
(* jobs and operator commands, over one kernel.  A job's action is a       *)
(* command of the kernel in a process of its own, and shares the market    *)
(* contexts and the pending transaction with the operator's commands.      *)
(***************************************************************************)
EXTENDS BoundedJobs, OperatorCommands

Init == JobsInit /\ OperatorInit

Succeeds(w) == Finish(w, "SUCCEEDED")
Fails(w) == Finish(w, "FAILED")

\* The command a claimed run is mapped to, in its own process, and the return
\* code it ends with.
RunCommand(w) ==
  /\ exec[w].at = "execute"
  /\ \/ /\ exec[w].spec.action = "VALIDATE_KERNEL"
        /\ IF pending THEN Fails(w) ELSE Succeeds(w)
        /\ UNCHANGED contexts
     \/ /\ exec[w].spec.action = "CONTEXT_MATERIALIZE"
        /\ \/ Succeeds(w) /\ contexts' = contexts \cup {exec[w].spec.cutoff}
           \/ Fails(w) /\ UNCHANGED contexts
     \/ /\ exec[w].spec.action = "EXPERT_SYNC"
        /\ Succeeds(w) \/ Fails(w)
        /\ UNCHANGED contexts
  /\ UNCHANGED <<journal, pending, console, replies, late>>

Jobs ==
  \/ \E spec \in Candidates : PersistSpec(spec)
  \/ \E w \in Workers : \/ \E r \in RunIds : Look(w, r)
                        \/ Claim(w) \/ TimeOut(w) \/ WriteReceipt(w)
                        \/ Unclaim(w) \/ WorkerDies(w)
  \/ EditPreregistration
  \/ Tick

Operator ==
  \/ \E c \in Clients : \/ \E request \in Requests : Serve(c, request)
                        \/ ActValidate(c) \/ ActRecover(c) \/ ActMaterialize(c)
                        \/ AppendReceipt(c) \/ AppendRefused(c) \/ ClientDies(c)
  \/ TransactionLeftPending

Next ==
  \/ Jobs /\ UNCHANGED operatorVars
  \/ Operator /\ UNCHANGED jobVars
  \/ \E w \in Workers : RunCommand(w)

vars == <<jobVars, operatorVars>>
Spec == Init /\ [][Next]_vars

-----------------------------------------------------------------------------
(* Properties *)

Executing(w) == exec[w].at \in {"execute", "receipt"}

\* No run is executed by two workers at once: the claim file is created
\* exclusively, and only its creator removes it.
OneExecutorPerRun ==
  \A v, w \in Workers :
    (v # w /\ Executing(v) /\ Executing(w)) => exec[v].run # exec[w].run

\* A claim belongs to a worker that is at the run, or to one that died at it:
\* whatever else happens to a run, time-outs included, leaves it executable.
ClaimsAreAttributed ==
  \A r \in claim \ orphan :
    \E w \in Workers : exec[w].run = r /\ exec[w].at \in {"execute", "receipt", "unclaim"}

\* A run has one executor, and only a death can leave it with none for good.
RunsHaveOneExecutor == OneExecutorPerRun /\ ClaimsAreAttributed

\* What is looked for before it is taken or done can be done again, but only by
\* those that looked before the receipt came: a run with a receipt is executed
\* again at most once by each other worker, and a request with a receipt acts
\* again at most once by each other client, whoever dies and whichever append
\* finds the lease held.  Before the receipt nothing bounds the acts of a request
\* but the appends that were refused or died.
RepeatsAreBounded ==
  /\ \A r \in RunIds : again[r] < Cardinality(Workers)
  /\ \A id \in RequestIds : late[id] < Cardinality(Clients)

\* The operator journal is valid at all times; every request answered with
\* success has its receipt, and what the receipts of both kinds certify is there.
ReceiptsAreGrounded ==
  /\ ValidJournal
  /\ \A answer \in replies : answer.id # Nothing => Receipts(answer.id) # {}
  /\ \A i \in DOMAIN journal :
       journal[i].request.command = "MATERIALIZE_CONTEXT" => journal[i].request.cutoff \in contexts
  /\ \A r \in RunIds : receipt[r] # None =>
       /\ receipt[r].spec \in specs /\ r \in RunsOf(receipt[r].spec)
       /\ receipt[r].completed_at >= RunEntry(receipt[r].spec, r).not_before
       /\ (receipt[r].status = "SUCCEEDED" /\ receipt[r].spec.action = "CONTEXT_MATERIALIZE")
            => receipt[r].spec.cutoff \in contexts
=============================================================================
