--------------------------- MODULE ExpertRuntime ---------------------------
(***************************************************************************)
(* The expert intelligence runtime: one journal of events and a state file *)
(* that projects it.  An append happens under the writer lease and is two  *)
(* writes, the line and then the projection of ALL the events; a process   *)
(* that dies in between leaves a state file that is older than its journal *)
(* until the next append.  Readers take either one, and take no lease.     *)
(*                                                                         *)
(* An event is [type, at, item]; a hash of an item is the item itself.     *)
(***************************************************************************)
EXTENDS Integers, Sequences, SequencesExt, FiniteSets
CONSTANT Absent          \* no value

VARIABLES
  events,      \* memory/expert_intelligence.jsonl
  projected    \* how many of them state/expert_intelligence.json projects
runtimeVars == <<events, projected>>

RuntimeInit == events = <<>> /\ projected = 0

Event(type, at, item) == [type |-> type, at |-> at, item |-> item]

\* The entries of a sequence at some of its places, in their order.
Rank(places, i) == Cardinality({j \in places : j <= i})
Nth(places, k) == CHOOSE i \in {j \in places : Rank(places, j) = k} : TRUE
Those(s, places) == [k \in 1 .. Cardinality(places) |-> s[Nth(places, k)]]

\* The events of a type, in the order of a journal; what a state file holds.
Items(journal, type) ==
  LET of == Those(journal, {i \in DOMAIN journal : journal[i].type = type})
  IN  [i \in DOMAIN of |-> of[i].item]

Competence(journal) ==
  IF Items(journal, "competence") = <<>> THEN Absent ELSE Last(Items(journal, "competence"))

\* state(): the projection that was written last, or one of the journal if
\* none was ever written.
StateFile == SubSeq(events, 1, IF projected = 0 THEN Len(events) ELSE projected)

Journal(event) ==
  /\ event.at >= 0
  /\ events' = Append(events, event)
  /\ projected' = Len(events')

\* A process dies after the line and before the projection.
JournalWithoutState(event) ==
  /\ event.at >= 0
  /\ events' = Append(events, event)
  /\ UNCHANGED projected

\* rebuild_state.
RebuildState == projected' = Len(events) /\ UNCHANGED events
=============================================================================
