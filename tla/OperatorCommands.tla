-------------------------- MODULE OperatorCommands --------------------------
(***************************************************************************)
(* The operator console's commands (operator/service.py, contracts.py,     *)
(* journal.py).  A mutating command acts on the kernel and then appends a  *)
(* receipt to a hash-chained journal; a request id that has a receipt is   *)
(* answered from it.                                                       *)
(***************************************************************************)
EXTENDS Naturals, FiniteSets, Sequences, SequencesExt

CONSTANTS
  Clients,           \* processes that execute operator requests
  Requests,          \* the requests they make
  MutationsEnabled,  \* ZLOOK_OPERATOR_MUTATIONS_ENABLED
  Nothing

ASSUME ClientsAssumption == IsFiniteSet(Clients) /\ Clients # {}

VARIABLES
  journal,   \* memory/operator_commands.jsonl: entries in order
  pending,   \* whether the kernel has a prepared transaction
  contexts,  \* the cutoffs whose market context is materialized
  console,   \* per client: its step and the request it serves
  replies,   \* history: the successful answers given
  late       \* history: per request id, acts of its command once it had a receipt

operatorVars == <<journal, pending, contexts, console, replies, late>>

-----------------------------------------------------------------------------
(* The catalog *)

Command(class, state, confirm) ==
  [control_class |-> class, state |-> state, confirmation_required |-> confirm]

COMMAND_SPECS ==
  [VALIDATE_KERNEL          |-> Command("READ_ONLY", "AVAILABLE", FALSE),
   MATERIALIZE_CONTEXT      |-> Command("MUTATING", "AVAILABLE", TRUE),
   RECOVER_PENDING          |-> Command("MUTATING", "AVAILABLE", TRUE),
   FREEZE_STATE             |-> Command("MUTATING", "UNAVAILABLE", TRUE),
   RUN_QUALIFICATION        |-> Command("MUTATING", "UNAVAILABLE", TRUE),
   ACTIVATE_CONTEXT_PROFILE |-> Command("MUTATING", "UNAVAILABLE", TRUE),
   CODE_CHANGE              |-> Command("MUTATING", "UNAVAILABLE", TRUE),
   LIVE_EXECUTION           |-> Command("CONSTITUTIONALLY_LOCKED", "LOCKED", TRUE),
   CAPITAL_AUTHORIZATION    |-> Command("CONSTITUTIONALLY_LOCKED", "LOCKED", TRUE),
   ORDER_PLACEMENT          |-> Command("CONSTITUTIONALLY_LOCKED", "LOCKED", TRUE)]

Mutating(request) == COMMAND_SPECS[request.command].control_class = "MUTATING"

\* A request has command, confirm, id and cutoff; Nothing where it omits one.
Admitted(request) ==
  /\ request.command \in DOMAIN COMMAND_SPECS
  /\ COMMAND_SPECS[request.command].state = "AVAILABLE"
  /\ COMMAND_SPECS[request.command].confirmation_required => request.confirm
  /\ Mutating(request) => MutationsEnabled /\ request.id # Nothing

-----------------------------------------------------------------------------
(* The journal *)

RequestIds == {request.id : request \in Requests} \ {Nothing}
Receipts(id) == {i \in DOMAIN journal : journal[i].request.id = id}

\* validate_operator_journal: contiguous sequence numbers, each entry hashed
\* over its predecessor, one mutating receipt per request id.
ValidJournal ==
  \A i \in DOMAIN journal :
    /\ journal[i].sequence = i
    /\ Mutating(journal[i].request)
    /\ Cardinality(Receipts(journal[i].request.id)) = 1

-----------------------------------------------------------------------------
Waiting == [at |-> "idle", request |-> Nothing]

OperatorInit ==
  /\ journal = <<>> /\ pending = FALSE /\ contexts = {} /\ replies = {}
  /\ console = [c \in Clients |-> Waiting]
  /\ late = [id \in RequestIds |-> 0]

Reply(c, answer) == replies' = replies \cup {answer}

\* Variant: the request id is looked for only when the receipt is appended.
ServeWithoutLooking(c, request) ==
  /\ console[c].at = "idle"
  /\ Admitted(request)
  /\ console' = [console EXCEPT ![c] = [at |-> "act", request |-> request]]
  /\ UNCHANGED <<journal, pending, contexts, replies, late>>

\* execute_operator_command up to its look for the request id, outside any
\* lease. A recorded id is answered with its receipt, whatever it was for.
Serve(c, request) ==
  /\ console[c].at = "idle"
  /\ Admitted(request)
  /\ IF Mutating(request) /\ Receipts(request.id) # {}
     THEN /\ ValidJournal
          /\ Reply(c, [id |-> request.id, durability |-> "REPLAYED_OPERATOR_RECEIPT"])
          /\ UNCHANGED console
     ELSE /\ Mutating(request) => ValidJournal
          /\ console' = [console EXCEPT ![c] = [at |-> "act", request |-> request]]
          /\ UNCHANGED replies
  /\ UNCHANGED <<journal, pending, contexts, late>>

Acts(c) ==
  LET id == console[c].request.id IN
  /\ late' = IF Receipts(id) = {} THEN late ELSE [late EXCEPT ![id] = @ + 1]
  /\ console' = [console EXCEPT ![c].at = "append"]

\* VALIDATE_KERNEL only reads, and raises on a pending transaction.
ActValidate(c) ==
  /\ console[c].at = "act" /\ console[c].request.command = "VALIDATE_KERNEL"
  /\ IF pending \/ ~ValidJournal THEN UNCHANGED replies
     ELSE Reply(c, [id |-> Nothing, durability |-> "READ_ONLY_QUERY_NOT_JOURNALED"])
  /\ console' = [console EXCEPT ![c] = Waiting]
  /\ UNCHANGED <<journal, pending, contexts, late>>

\* RECOVER_PENDING rolls a prepared transaction forward, or finds none; it
\* raises where another command holds the writer lease.
ActRecover(c) ==
  /\ console[c].at = "act" /\ console[c].request.command = "RECOVER_PENDING"
  /\ \/ pending' = FALSE /\ Acts(c)
     \/ console' = [console EXCEPT ![c] = Waiting] /\ UNCHANGED <<pending, late>>
  /\ UNCHANGED <<journal, contexts, replies>>

\* MATERIALIZE_CONTEXT persists the context of a cutoff, or raises: without a
\* cutoff, or with no frame knowable at it.
ActMaterialize(c) ==
  LET request == console[c].request IN
  /\ console[c].at = "act" /\ request.command = "MATERIALIZE_CONTEXT"
  /\ \/ /\ request.cutoff # Nothing
        /\ contexts' = contexts \cup {request.cutoff}
        /\ Acts(c)
     \/ /\ console' = [console EXCEPT ![c] = Waiting]
        /\ UNCHANGED <<contexts, late>>
  /\ UNCHANGED <<journal, pending, replies>>

\* Variant: the id is not looked for again under the lease.
AppendReceiptBlindly(c) ==
  LET request == console[c].request IN
  /\ console[c].at = "append"
  /\ console' = [console EXCEPT ![c] = Waiting]
  /\ journal' = Append(journal, [sequence |-> Len(journal) + 1, request |-> request])
  /\ Reply(c, [id |-> request.id, durability |-> "APPEND_ONLY_OPERATOR_JOURNAL"])
  /\ UNCHANGED <<pending, contexts, late>>

\* append_operator_receipt, under the writer lease: an id that got its receipt
\* in the meantime is an error, although the command has acted.
AppendReceipt(c) ==
  LET request == console[c].request IN
  /\ console[c].at = "append"
  /\ console' = [console EXCEPT ![c] = Waiting]
  /\ IF Receipts(request.id) = {} /\ ValidJournal
     THEN /\ journal' = Append(journal, [sequence |-> Len(journal) + 1, request |-> request])
          /\ Reply(c, [id |-> request.id, durability |-> "APPEND_ONLY_OPERATOR_JOURNAL"])
     ELSE UNCHANGED <<journal, replies>>
  /\ UNCHANGED <<pending, contexts, late>>

\* writer_lock raises at once where another command holds the lease: the
\* command has acted, its caller gets an error, and no receipt is written.
AppendRefused(c) ==
  /\ console[c].at = "append"
  /\ console' = [console EXCEPT ![c] = Waiting]
  /\ UNCHANGED <<journal, pending, contexts, replies, late>>

ClientDies(c) ==
  /\ console[c].at # "idle"
  /\ console' = [console EXCEPT ![c] = Waiting]
  /\ UNCHANGED <<journal, pending, contexts, replies, late>>

\* A kernel command stops between preparing its transaction and applying it.
TransactionLeftPending ==
  /\ ~pending /\ pending' = TRUE
  /\ UNCHANGED <<journal, contexts, console, replies, late>>
=============================================================================
