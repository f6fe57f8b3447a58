---------------------------- MODULE MCOperations ----------------------------
EXTENDS Operations

Job(id, action, args, cutoff, runs, hash) ==
  [job_id |-> id, action |-> action, args |-> args, cutoff |-> cutoff, runs |-> runs,
   preregistration |-> hash]
At(r, when) == [run_id |-> r, not_before |-> when]

\* Two jobs that share no run, one that reuses a run of the first and one that
\* names a run twice.
MCCandidates ==
  {Job("j1", "CONTEXT_MATERIALIZE", {"cutoff_at_ns"}, 7, <<At("r1", 1)>>, 1),
   Job("j2", "VALIDATE_KERNEL", {}, None, <<At("r3", 0)>>, 1),
   Job("j3", "EXPERT_SYNC", {"known_at_ns"}, None, <<At("r3", 0)>>, 1),
   Job("j2", "VALIDATE_KERNEL", {}, None, <<At("r3", 0), At("r3", 1)>>, 1)}

Request(command, confirm, id, cutoff) ==
  [command |-> command, confirm |-> confirm, id |-> id, cutoff |-> cutoff]
MCRequests ==
  {Request("MATERIALIZE_CONTEXT", TRUE, "q1", 7), Request("RECOVER_PENDING", TRUE, "q1", Nothing),
   Request("RECOVER_PENDING", FALSE, "q2", Nothing), Request("VALIDATE_KERNEL", FALSE, Nothing, Nothing),
   Request("MATERIALIZE_CONTEXT", TRUE, "q2", 8), Request("LIVE_EXECUTION", TRUE, "q2", Nothing)}

(* Both sides in full at once are more states than are worth visiting: either *)
(* two workers, or two clients, or one of each.                               *)
VARIABLE side
MCWorkers == [jobs |-> Workers, operator |-> {}, both |-> {CHOOSE w \in Workers : TRUE}]
MCClients == [jobs |-> {}, operator |-> Clients, both |-> {CHOOSE c \in Clients : TRUE}]

MCInit == Init /\ side \in DOMAIN MCWorkers
MCNext ==
  /\ Next
  /\ \A w \in Workers \ MCWorkers[side] : exec'[w] = Idle
  /\ \A c \in Clients \ MCClients[side] : console'[c] = Waiting
  /\ side = "operator" => specs' = specs
  /\ side # "jobs" => <<prereg, faults>>' = <<prereg, faults>> /\ (specs = {} \/ clock' = clock)
  /\ UNCHANGED side
MCSpec == MCInit /\ [][MCNext]_<<vars, side>>
=============================================================================
