---------------------------- MODULE MCStateStore ----------------------------
(***************************************************************************)
(* An instance of StateStore: two tasks, the second depending on the first  *)
(* and outranking it, both ready, in a root state with several ways out.    *)
(***************************************************************************)
EXTENDS StateStore, TLC

MCDependsOn == (1 :> {}) @@ (2 :> {1})
MCPriority == (1 :> 10) @@ (2 :> 20)

MCInit ==
    /\ Init
    /\ backlog = [t \in Tasks |-> "ready"]
    /\ current.root_state = "VALIDATE"

MCSpec == MCInit /\ [][Next]_vars
MCFairSpec == MCSpec /\ WF_vars(Command) /\ SF_vars(StartRecovery)
=============================================================================
