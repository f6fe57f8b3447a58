--------------------------- MODULE EvidenceStores ---------------------------
(***************************************************************************)
(* The stores of derived evidence: canonical batches, representations,     *)
(* market contexts, market experiences and the perception graph.  A store  *)
(* is a directory of immutable artifacts and an index that is rebuilt from *)
(* a listing of it.  All but the graph are written without the lease:      *)
(* what is there is looked up, then each file is replaced atomically, then *)
(* the directory is listed, then the index is replaced.                    *)
(*                                                                         *)
(* An artifact is [store, id, content, of], "of" the artifacts it was      *)
(* built from.  A canonical batch is two files, data first; its identity   *)
(* is the stream's, its content is the version of the stream's bundle.     *)
(* The experiences have no index but a journal, chained by sequence and    *)
(* the sequence before, that nothing locks.                                *)
(***************************************************************************)
EXTENDS Integers, Sequences, SequencesExt, FiniteSets
CONSTANTS
  Nobody,
  Workers,          \* processes
  Versions,         \* versions of the one stream's bundle
  Times,            \* cutoffs a frame or a context is built for
  MaxPersists, MaxStoreDeaths      \* bounds

ASSUME NobodyIsNoWorker == Nobody \notin Workers

VARIABLES
  data,          \* the versions of the batch's data file: at most one
  stored,        \* store -> the artifacts in its directory (the batch: its manifest)
  indexed,       \* store -> the artifacts its index lists
  journal,       \* the experience journal; "cut": its last line is
  cut,
  graphLock,     \* who holds the lease, for the graph
  worker,        \* worker -> what it is doing
  returned,      \* the artifacts some persist has returned
  crossed,       \* the stores in which two persists have overlapped
  persists, storeDeaths      \* counters
storeFiles == <<data, stored, indexed, journal, cut>>
storeCounters == <<returned, crossed, persists, storeDeaths>>
storeVars == <<storeFiles, graphLock, worker, storeCounters>>

Stores == {"batch", "frame", "context", "experience", "graph"}
Resting == [at |-> "rest", artifacts |-> <<>>, listed |-> {}, last |-> 0]
Target(w) == Head(worker[w].artifacts)

StoresInit ==
  /\ data = {} /\ stored = [s \in Stores |-> {}] /\ indexed = [s \in Stores |-> {}]
  /\ journal = <<>> /\ cut = FALSE /\ graphLock = Nobody
  /\ worker = [w \in Workers |-> Resting]
  /\ returned = {} /\ crossed = {} /\ persists = 0 /\ storeDeaths = 0

-----------------------------------------------------------------------------
(* What can be built, of what is stored.                                    *)

Artifact(s, id, content, of) == [store |-> s, id |-> id, content |-> content, of |-> of]

\* load_canonical_batch: a manifest whose data is there and has its hash.
Loadable == {b \in stored["batch"] : b.content \in data}

\* select_point_in_time_history: every indexed frame known at the cutoff.
History(t) == {f \in indexed["frame"] : f.content <= t}

\* Two graph nodes: one of evidence, one that rests on it, or on nothing stored.
Evidence == Artifact("graph", <<"evidence">>, 1, {})
Relation == Artifact("graph", <<"relation">>, 1, {Evidence})

Batches == {Artifact("batch", <<"stream">>, v, {}) : v \in Versions}
Frame(b, t) == Artifact("frame", <<b.content, t>>, t, {b})
Frames == {Frame(b, t) : b \in Loadable, t \in Times}
Context(t, history) == Artifact("context", <<"at", t, {f.id : f \in history}>>, t, history)
Contexts == {Context(t, History(t)) : t \in {u \in Times : History(u) # {}}}
Experience(c) == Artifact("experience", c.id, c.content, {c})
Experiences == {Experience(c) : c \in stored["context"]}
Buildable(s) ==
  CASE s = "batch" -> {<<b>> : b \in Batches}
    [] s = "frame" -> {<<f>> : f \in Frames}
    [] s = "context" -> {<<c>> : c \in Contexts}
    [] s = "experience" -> {<<e>> : e \in Experiences}
    [] s = "graph" -> {<<Evidence, Relation>>, <<Relation>>}

-----------------------------------------------------------------------------
(* One persist.                                                             *)

Sharing(v, s) == worker[v] # Resting /\ Target(v).store = s
Become(w, next) == worker' = [worker EXCEPT ![w] = next]
Goes(w, at) == Become(w, [worker[w] EXCEPT !.at = at]) /\ UNCHANGED <<graphLock, returned>>
\* It ends; a holder of the lease releases it.
Leaves(w) == Become(w, Resting) /\ graphLock' = IF graphLock = w THEN Nobody ELSE graphLock
Raises(w) == Leaves(w) /\ UNCHANGED returned
Returns(w) == Leaves(w) /\ returned' = returned \cup {Target(w)}
Quiet == UNCHANGED <<crossed, persists, storeDeaths>>

Begin(w, s) ==
  /\ worker[w] = Resting /\ persists < MaxPersists
  /\ s = "graph" => graphLock = Nobody
  /\ \E artifacts \in Buildable(s) : Become(w, [Resting EXCEPT !.at = "look", !.artifacts = artifacts])
  /\ crossed' = crossed \cup {Target(v).store : v \in {u \in Workers : Sharing(u, s)}}
  /\ graphLock' = IF s = "graph" THEN w ELSE graphLock
  /\ persists' = persists + 1
  /\ UNCHANGED <<storeFiles, returned, storeDeaths>>

Same(a) == {b \in stored[a.store] : b.id = a.id}

\* Variant: a batch of which only the data is there gets its manifest.
LookResuming(w) ==
  LET a == Target(w) IN
  /\ worker[w].at = "look" /\ a.store = "batch"
  /\ \/ Same(a) = {} /\ data = {} /\ Goes(w, "write")
     \/ Same(a) = {} /\ data # {} /\ Goes(w, "manifest")
     \/ Same(a) = {a} /\ data = {a.content} /\ Goes(w, "list")
     \/ Same(a) # {} /\ Same(a) # {a} /\ Raises(w)
  /\ Quiet /\ UNCHANGED storeFiles

\* What is there already: a part of a batch and a conflict raise.
LookBatch(w) ==
  LET a == Target(w) IN
  /\ worker[w].at = "look" /\ a.store = "batch"
  /\ \/ Same(a) = {} /\ data = {} /\ Goes(w, "write")
     \/ Same(a) = {a} /\ data = {a.content} /\ Goes(w, "list")
     \/ <<Same(a), data>> \notin {<<{}, {}>>, <<{a}, {a.content}>>} /\ Raises(w)
  /\ Quiet /\ UNCHANGED storeFiles

\* Variant: a frame, context or experience that is there is returned at once.
LookReturning(w) ==
  LET a == Target(w) IN
  /\ worker[w].at = "look" /\ a.store \in {"frame", "context", "experience"}
  /\ IF Same(a) = {} THEN Goes(w, "write") ELSE Returns(w)
  /\ Quiet /\ UNCHANGED storeFiles
LookArtifact(w) ==
  LET a == Target(w) IN
  /\ worker[w].at = "look" /\ a.store \in {"frame", "context", "experience"}
  /\ IF a.store = "context" /\ ~(a.of \subseteq stored["frame"]) THEN Raises(w)
     ELSE Goes(w, IF Same(a) = {} THEN "write" ELSE IF a.store = "experience" THEN "read" ELSE "list")
  /\ Quiet /\ UNCHANGED storeFiles

Place(a) == stored' = [stored EXCEPT ![a.store] = (@ \ Same(a)) \cup {a}]
WriteData(w) ==
  /\ worker[w].at = "write" /\ Target(w).store = "batch"
  /\ data' = {Target(w).content} /\ Goes(w, "manifest")
  /\ Quiet /\ UNCHANGED <<stored, indexed, journal, cut>>
WriteArtifact(w) ==
  LET a == Target(w) IN
  /\ worker[w].at \in {"write", "manifest"} /\ (worker[w].at = "manifest") = (a.store = "batch")
  /\ IF a.store = "experience" /\ Same(a) # {} THEN Raises(w) /\ UNCHANGED stored
     ELSE Place(a) /\ Goes(w, IF a.store = "experience" THEN "read" ELSE "list")
  /\ Quiet /\ UNCHANGED <<data, indexed, journal, cut>>

\* persist_graph_nodes, under the lease: node after node, each resting on
\* what is there by then; a refused one raises, and the index stays as it was.
WriteNode(w) ==
  LET p == worker[w] a == Target(w) IN
  /\ p.at = "look" /\ a.store = "graph"
  /\ IF ~(a.of \subseteq stored["graph"]) THEN Raises(w) /\ UNCHANGED stored
     ELSE /\ Place(a) /\ UNCHANGED <<graphLock, returned>>
          /\ Become(w, IF Len(p.artifacts) = 1 THEN [p EXCEPT !.at = "list"]
                       ELSE [p EXCEPT !.artifacts = Tail(p.artifacts)])
  /\ Quiet /\ UNCHANGED <<data, indexed, journal, cut>>

\* rebuild_index lists and validates the directory, then replaces the index.
ListDirectory(w) ==
  LET s == Target(w).store IN
  /\ worker[w].at = "list"
  /\ IF s = "batch" /\ \E b \in stored["batch"] : b \notin Loadable THEN Raises(w)
     ELSE Become(w, [worker[w] EXCEPT !.at = "index", !.listed = stored[s]]) /\ UNCHANGED <<graphLock, returned>>
  /\ Quiet /\ UNCHANGED storeFiles
WriteIndex(w) ==
  /\ worker[w].at = "index"
  /\ indexed' = [indexed EXCEPT ![Target(w).store] = worker[w].listed]
  /\ Returns(w)
  /\ Quiet /\ UNCHANGED <<data, stored, journal, cut>>

\* The experience's event: found, or built on the last one there is.
Entry(sequence, a) == [sequence |-> sequence, previous |-> sequence - 1, experience |-> a]
ReadJournal(w) ==
  /\ worker[w].at = "read"
  /\ IF cut THEN Raises(w)
     ELSE IF \E i \in DOMAIN journal : journal[i].experience = Target(w) THEN Returns(w)
     ELSE Become(w, [worker[w] EXCEPT !.at = "append", !.last = Len(journal)]) /\ UNCHANGED <<graphLock, returned>>
  /\ Quiet /\ UNCHANGED storeFiles
AppendEvent(w) ==
  /\ worker[w].at = "append" /\ ~cut
  /\ journal' = Append(journal, Entry(worker[w].last + 1, Target(w)))
  /\ Returns(w)
  /\ Quiet /\ UNCHANGED <<data, stored, indexed, cut>>

\* A process dies: the lease it held is an orphan the next one clears.
WorkerDies(w) ==
  /\ worker[w] # Resting /\ storeDeaths < MaxStoreDeaths
  /\ \/ UNCHANGED cut
     \/ worker[w].at = "append" /\ cut' = TRUE
  /\ Raises(w) /\ storeDeaths' = storeDeaths + 1
  /\ UNCHANGED <<data, stored, indexed, journal, persists, crossed>>

StoresNext ==
  \E w \in Workers :
    \/ \E s \in Stores : Begin(w, s)
    \/ LookBatch(w) \/ LookArtifact(w) \/ WriteData(w) \/ WriteArtifact(w) \/ WriteNode(w)
    \/ ListDirectory(w) \/ WriteIndex(w) \/ ReadJournal(w) \/ AppendEvent(w) \/ WorkerDies(w)
StoresSpec == StoresInit /\ [][StoresNext]_storeVars

-----------------------------------------------------------------------------
(* Properties.                                                              *)

\* Whatever is stored or indexed rests on what is stored, whoever died or
\* raced: an index lists what is there, a manifest has its data, a frame its
\* batch, a context its frames, an experience its context, a node its parents.
\* Two writers of the one batch, of two versions, may leave a manifest with
\* the other's data, and from then on no batch can be read or indexed.
LineageStored ==
  /\ \A s \in Stores \ {"batch"} : indexed[s] \subseteq stored[s]
  /\ \A s \in Stores : \A a \in stored[s] : \A b \in a.of :
       b \in stored[b.store] \/ (b.store = "batch" /\ "batch" \in crossed)
  /\ "batch" \in crossed \/ (indexed["batch"] \subseteq stored["batch"] /\ stored["batch"] \subseteq Loadable)
  /\ \A i \in DOMAIN journal : journal[i].experience \in stored["experience"]

\* What a persist has returned is stored and stays indexed or journalled, so
\* that the next context is built from it (_load_durable_frames reads the
\* index alone), whichever persists died, raised or found their artifact
\* there.  Two persists that overlapped in a store without the lease may lose
\* an index entry, or break the chain verify expects of the journal; the
\* graph's, under the lease, may not.
ReturnedIsIndexed ==
  /\ \A a \in returned : a.store \in crossed \ {"graph"} \/
       /\ a \in stored[a.store]
       /\ IF a.store = "experience" THEN \E i \in DOMAIN journal : journal[i].experience = a ELSE a \in indexed[a.store]
  /\ "experience" \in crossed \/ \A i \in DOMAIN journal :
       /\ journal[i].sequence = i /\ journal[i].previous = i - 1
       /\ \A j \in DOMAIN journal : journal[i].experience = journal[j].experience => i = j
=============================================================================
