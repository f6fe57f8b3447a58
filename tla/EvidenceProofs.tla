--------------------------- MODULE EvidenceProofs ---------------------------
(***************************************************************************)
(* Proofs about captured evidence and what is derived of it,               *)
(* EvidenceStores, MarketEvidence and MarketContexts, for every set of     *)
(* processes, versions, times, messages and frames.                        *)
(*                                                                         *)
(* The identity of a stored artifact determines the artifact, but for the  *)
(* canonical batch, whose identity is the stream's and whose content is    *)
(* the version: replacing a file changes nothing in the other stores and   *)
(* may change what it says in that one.  What a process has looked at      *)
(* stays true there unless another persist is under way in its store.      *)
(*                                                                         *)
(* Of a context it is followed how one more frame moves the others in      *)
(* their order, and how an alignment grows pair by pair.                   *)
(*                                                                         *)
(* Of a stream it is followed what its replay has seen, and the last word  *)
(* on each level of the book; of a book, what a walk takes of each level.  *)
(***************************************************************************)
EXTENDS EvidenceStores, MarketEvidence, MarketContexts, FiniteSetTheorems, WellFoundedInduction, TLAPS

AllFrames == {Frame(b, t) : b \in Batches, t \in Times}
AllContexts == {Context(t, history) : t \in Times, history \in SUBSET AllFrames}
AllExperiences == {Experience(c) : c \in AllContexts}
AllNodes == {Evidence, Relation}

\* The artifacts of a store, and what one persist is asked to write.
Proper(s) ==
  CASE s = "batch" -> Batches
    [] s = "frame" -> AllFrames
    [] s = "context" -> AllContexts
    [] s = "experience" -> AllExperiences
    [] s = "graph" -> AllNodes
Artifacts == UNION {Proper(s) : s \in Stores}
Orders == {<<a>> : a \in Artifacts} \cup {<<Evidence, Relation>>}

Stages == {"look", "write", "manifest", "list", "index", "read", "append"}
Posts == [at : Stages, artifacts : Orders, listed : SUBSET Artifacts, last : Nat] \cup {Resting}

\* The stages a persist goes through in each store.
Fits(at, s) ==
  /\ at = "write" => s \notin {"graph"}
  /\ at = "manifest" => s = "batch"
  /\ at \in {"list", "index"} => s # "experience"
  /\ at \in {"read", "append"} => s = "experience"

StoresTypeOK ==
  /\ data \subseteq Versions
  /\ stored \in [Stores -> SUBSET Artifacts]
  /\ \A s \in Stores : stored[s] \subseteq Proper(s)
  /\ indexed \in [Stores -> SUBSET Artifacts]
  /\ journal \in Seq([sequence : Nat, previous : Int, experience : Artifacts])
  /\ cut \in BOOLEAN
  /\ worker \in [Workers -> Posts]
  /\ crossed \subseteq Stores

\* What an artifact was built from is there.
Grounded(a) ==
  \A b \in a.of : b \in stored[b.store] \/ (b.store = "batch" /\ "batch" \in crossed)

\* What a process knows of the store it works on.
Knows(p) ==
  p # Resting =>
    LET a == Head(p.artifacts) s == a.store IN
    /\ Fits(p.at, s)
    /\ s # "graph" => Grounded(a)
    /\ p.at \in {"list", "index", "read", "append"} =>
         a \in stored[s] \/ (s = "batch" /\ "batch" \in crossed)
    /\ p.at = "index" => /\ s # "batch" => p.listed \subseteq stored[s]
                         /\ s \notin crossed => p.listed = stored[s]
    /\ p.at = "write" /\ s = "batch" /\ s \notin crossed => data = {} /\ stored[s] = {}
    /\ p.at = "manifest" /\ s \notin crossed => data = {a.content} /\ stored[s] = {}
    /\ p.at = "append" /\ s \notin crossed =>
         p.last = Len(journal) /\ \A i \in DOMAIN journal : journal[i].experience # a

\* Persists that are under way together in a store have crossed there, and the
\* graph's lease is held exactly during one.
Apart ==
  /\ \A v, w \in Workers : v # w /\ worker[v] # Resting /\ worker[w] # Resting /\ Target(v).store = Target(w).store
       => Target(v).store \in crossed
  /\ \A w \in Workers : graphLock = w <=> worker[w] # Resting /\ Target(w).store = "graph"
  /\ "graph" \notin crossed

StoresInv ==
  /\ StoresTypeOK /\ Apart
  /\ \A w \in Workers : Knows(worker[w])
  /\ LineageStored /\ ReturnedIsIndexed /\ \A a \in returned : a \in Artifacts

-----------------------------------------------------------------------------
(* Artifacts and orders.                                                    *)

LEMMA Made ==
  \A s, i, c, o : /\ Artifact(s, i, c, o).store = s /\ Artifact(s, i, c, o).id = i
                 /\ Artifact(s, i, c, o).content = c /\ Artifact(s, i, c, o).of = o
BY DEF Artifact

LEMMA MadeFrames ==
  \A b, t : /\ Frame(b, t).store = "frame" /\ Frame(b, t).id = <<b.content, t>>
           /\ Frame(b, t).content = t /\ Frame(b, t).of = {b}
BY Made DEF Frame

LEMMA MadeContexts ==
  \A t, h : /\ Context(t, h).store = "context" /\ Context(t, h).id = <<"at", t, {f.id : f \in h}>>
           /\ Context(t, h).content = t /\ Context(t, h).of = h
BY Made DEF Context

LEMMA MadeExperiences ==
  \A c : /\ Experience(c).store = "experience" /\ Experience(c).id = c.id
        /\ Experience(c).content = c.content /\ Experience(c).of = {c}
BY Made DEF Experience

LEMMA Kinds ==
  /\ \A s \in Stores : \A a \in Proper(s) : a.store = s
  /\ \A a \in Artifacts : a.store \in Stores /\ a \in Proper(a.store)
<1>1. /\ Proper("batch") = Batches /\ Proper("frame") = AllFrames
      /\ Proper("context") = AllContexts /\ Proper("experience") = AllExperiences
      /\ Proper("graph") = AllNodes
  BY DEF Proper
<1>2. /\ \A a \in Batches : a.store = "batch"
      /\ \A a \in AllFrames : a.store = "frame"
      /\ \A a \in AllContexts : a.store = "context"
      /\ \A a \in AllExperiences : a.store = "experience"
      /\ \A a \in AllNodes : a.store = "graph"
  <2>1. (\A a \in Batches : a.store = "batch") /\ \A a \in AllNodes : a.store = "graph"
    BY Made DEF Batches, AllNodes, Evidence, Relation
  <2>2. (\A a \in AllFrames : a.store = "frame") /\ \A a \in AllContexts : a.store = "context"
    BY MadeFrames, MadeContexts DEF AllFrames, AllContexts
  <2>3. \A a \in AllExperiences : a.store = "experience"
    BY MadeExperiences DEF AllExperiences
  <2>4. QED
    BY <2>1, <2>2, <2>3
<1>3. \A s \in Stores : \A a \in Proper(s) : a.store = s
  BY <1>1, <1>2 DEF Stores
<1>4. QED
  BY <1>3 DEF Artifacts

\* The identity of an artifact determines it, but for the batch.
LEMMA UniqueIds ==
  ASSUME NEW a \in Artifacts, NEW b \in Artifacts, a.store = b.store, a.id = b.id,
         a.store # "batch"
  PROVE  a = b
<1>1. /\ a.store \in Stores /\ a \in Proper(a.store) /\ b \in Proper(a.store)
  BY Kinds
<1>2. ASSUME NEW f \in AllFrames, NEW g \in AllFrames, f.id = g.id PROVE f = g
  <2>1. PICK c \in Batches, t \in Times : f = Frame(c, t)
    BY DEF AllFrames
  <2>2. PICK d \in Batches, r \in Times : g = Frame(d, r)
    BY DEF AllFrames
  <2>3. <<c.content, t>> = <<d.content, r>>
    BY <1>2, <2>1, <2>2, MadeFrames
  <2>4. c.content = d.content /\ t = r
    BY <2>3
  <2>5. c = d
    BY <2>4, Made DEF Batches
  <2>6. QED
    BY <2>1, <2>2, <2>4, <2>5
<1>3. ASSUME NEW f \in AllContexts, NEW g \in AllContexts, f.id = g.id PROVE f = g
  <2>1. PICK t \in Times, H \in SUBSET AllFrames : f = Context(t, H)
    BY DEF AllContexts
  <2>2. PICK r \in Times, K \in SUBSET AllFrames : g = Context(r, K)
    BY DEF AllContexts
  <2>3. <<"at", t, {x.id : x \in H}>> = <<"at", r, {x.id : x \in K}>>
    BY <1>3, <2>1, <2>2, MadeContexts
  <2>4. t = r /\ {x.id : x \in H} = {x.id : x \in K}
    BY <2>3
  <2>5. H = K
    <3>1. ASSUME NEW x \in H PROVE x \in K
      <4>1. PICK y \in K : y.id = x.id
        BY <2>4
      <4>2. QED
        BY <4>1, <1>2
    <3>2. ASSUME NEW y \in K PROVE y \in H
      <4>1. PICK x \in H : x.id = y.id
        BY <2>4
      <4>2. QED
        BY <4>1, <1>2
    <3>3. QED
      BY <3>1, <3>2
  <2>6. QED
    BY <2>1, <2>2, <2>4, <2>5
<1>4. CASE a.store = "frame"
  BY <1>1, <1>2, <1>4 DEF Proper
<1>5. CASE a.store = "context"
  BY <1>1, <1>3, <1>5 DEF Proper
<1>6. CASE a.store = "experience"
  <2>1. PICK c \in AllContexts : a = Experience(c)
    BY <1>1, <1>6 DEF Proper, AllExperiences
  <2>2. PICK d \in AllContexts : b = Experience(d)
    BY <1>1, <1>6 DEF Proper, AllExperiences
  <2>3. c = d
    BY <2>1, <2>2, <1>3, MadeExperiences
  <2>4. QED
    BY <2>1, <2>2, <2>3
<1>7. CASE a.store = "graph"
  <2>1. Evidence.id # Relation.id
    BY Made DEF Evidence, Relation
  <2>2. QED
    BY <1>1, <1>7, <2>1 DEF Proper, AllNodes
<1>8. QED
  BY <1>1, <1>4, <1>5, <1>6, <1>7 DEF Stores

LEMMA BatchIds ==
  \A a, b \in Artifacts : a.store = "batch" /\ b.store = "batch" => a.id = b.id
<1>1. \A a \in Batches : a.id = <<"stream">>
  BY Made DEF Batches
<1>2. QED
  BY <1>1, Kinds DEF Proper

LEMMA OrderHeads ==
  /\ \A o \in Orders : Head(o) \in Artifacts
  /\ \A a \in Artifacts : Head(<<a>>) = a /\ <<a>> \in Orders
  /\ Head(<<Evidence, Relation>>) = Evidence /\ <<Evidence, Relation>> \in Orders
  /\ \A o \in Orders : Len(o) # 1 => Tail(o) = <<Relation>> /\ o = <<Evidence, Relation>>
  /\ Evidence \in Artifacts /\ Relation \in Artifacts
<1>1. Evidence \in Artifacts /\ Relation \in Artifacts
  BY DEF Artifacts, Proper, AllNodes, Stores
<1>2. \A o \in Orders : o = <<Evidence, Relation>> \/ \E a \in Artifacts : o = <<a>>
  BY DEF Orders
<1>3. /\ \A a \in Artifacts : Head(<<a>>) = a /\ Len(<<a>>) = 1
      /\ Head(<<Evidence, Relation>>) = Evidence /\ Tail(<<Evidence, Relation>>) = <<Relation>>
  OBVIOUS
<1>4. (\A a \in Artifacts : <<a>> \in Orders) /\ <<Evidence, Relation>> \in Orders
  BY DEF Orders
<1>5. QED
  BY <1>1, <1>2, <1>3, <1>4

\* The file of an artifact, replaced.
LEMMA Placed ==
  ASSUME StoresTypeOK, NEW a \in Artifacts, Place(a)
  PROVE  /\ stored' \in [Stores -> SUBSET Artifacts]
         /\ \A s \in Stores : stored'[s] \subseteq Proper(s)
         /\ \A s \in Stores \ {a.store} : stored'[s] = stored[s]
         /\ a.store # "batch" => stored'[a.store] = stored[a.store] \cup {a}
         /\ a.store = "batch" => stored'["batch"] = {a}
<1>1. /\ a.store \in Stores /\ a \in Proper(a.store)
      /\ stored'[a.store] = (stored[a.store] \ Same(a)) \cup {a}
      /\ \A s \in Stores \ {a.store} : stored'[s] = stored[s]
      /\ stored[a.store] \subseteq Artifacts /\ stored[a.store] \subseteq Proper(a.store)
      /\ DOMAIN stored' = Stores
  BY Kinds DEF StoresTypeOK, Place
<1>2. a.store # "batch" => Same(a) \subseteq {a}
  <2>1. ASSUME NEW b \in stored[a.store], b.id = a.id, a.store # "batch" PROVE b = a
    <3>1. b \in Artifacts /\ b.store = a.store
      BY <1>1, Kinds
    <3>2. QED
      BY <2>1, <3>1, UniqueIds
  <2>2. QED
    BY <2>1 DEF Same
<1>3. a.store = "batch" => Same(a) = stored[a.store]
  BY <1>1, BatchIds, Kinds DEF Same
<1>4. stored' \in [Stores -> SUBSET Artifacts] /\ \A s \in Stores : stored'[s] \subseteq Proper(s)
  <2>1. \A s \in Stores : stored'[s] \subseteq Artifacts /\ stored'[s] \subseteq Proper(s)
    BY <1>1 DEF StoresTypeOK
  <2>2. stored' = [s \in Stores |-> stored'[s]]
    BY DEF StoresTypeOK, Place
  <2>3. QED
    BY <2>1, <2>2
<1>5. QED
  BY <1>1, <1>2, <1>3, <1>4

LEMMA Parts == \A a \in Artifacts : a.of \subseteq Artifacts
<1>1. /\ Batches \subseteq Artifacts /\ AllFrames \subseteq Artifacts
      /\ AllContexts \subseteq Artifacts /\ AllNodes \subseteq Artifacts
  BY DEF Artifacts, Proper, Stores
<1>2. \A a \in Batches : a.of = {}
  BY Made DEF Batches
<1>3. \A a \in AllFrames : a.of \subseteq Batches
  BY MadeFrames DEF AllFrames
<1>4. \A a \in AllContexts : a.of \subseteq AllFrames
  BY MadeContexts DEF AllContexts
<1>5. \A a \in AllExperiences : a.of \subseteq AllContexts
  BY MadeExperiences DEF AllExperiences
<1>6. \A a \in AllNodes : a.of \subseteq AllNodes
  BY Made DEF AllNodes, Evidence, Relation
<1>7. \A a \in Artifacts : a \in Batches \cup AllFrames \cup AllContexts \cup AllExperiences \cup AllNodes
  BY DEF Artifacts, Proper, Stores
<1>8. QED
  BY <1>1, <1>2, <1>3, <1>4, <1>5, <1>6, <1>7

-----------------------------------------------------------------------------
(* What a process is doing.                                                 *)

LEMMA Working ==
  ASSUME StoresTypeOK, NEW w \in Workers
  PROVE  /\ worker[w] \in Posts
         /\ worker[w] # Resting <=> worker[w].at # "rest"
         /\ worker[w] # Resting =>
              /\ worker[w].at \in Stages /\ worker[w].artifacts \in Orders
              /\ worker[w].listed \subseteq Artifacts /\ worker[w].last \in Nat
              /\ Target(w) \in Artifacts /\ Target(w).store \in Stores
              /\ Target(w) = Head(worker[w].artifacts)
<1>1. worker[w] \in Posts
  BY DEF StoresTypeOK
<1>2. /\ worker[w] # Resting => worker[w].at \in Stages /\ worker[w].artifacts \in Orders
      /\ worker[w] # Resting => worker[w].listed \subseteq Artifacts /\ worker[w].last \in Nat
      /\ Resting.at = "rest" /\ "rest" \notin Stages
  BY <1>1 DEF Posts, Resting, Stages
<1>3. QED
  BY <1>1, <1>2, OrderHeads, Kinds DEF Target

\* The posts that the steps of a persist put a process in.
Staged(p, s) == [p EXCEPT !.at = s]
Listing(p, L) == [p EXCEPT !.at = "index", !.listed = L]
Appending(p, n) == [p EXCEPT !.at = "append", !.last = n]
Arranged(p, o) == [p EXCEPT !.artifacts = o]

LEMMA NextPosts ==
  ASSUME NEW p \in Posts, p # Resting
  PROVE  /\ \A s \in Stages :
              /\ Staged(p, s) \in Posts /\ Staged(p, s) # Resting
              /\ Staged(p, s).at = s /\ Staged(p, s).artifacts = p.artifacts
         /\ \A L \in SUBSET Artifacts :
              /\ Listing(p, L) \in Posts /\ Listing(p, L) # Resting
              /\ Listing(p, L).at = "index" /\ Listing(p, L).artifacts = p.artifacts
              /\ Listing(p, L).listed = L
         /\ \A n \in Nat :
              /\ Appending(p, n) \in Posts /\ Appending(p, n) # Resting
              /\ Appending(p, n).at = "append" /\ Appending(p, n).artifacts = p.artifacts
              /\ Appending(p, n).last = n
         /\ \A o \in Orders :
              /\ Arranged(p, o) \in Posts /\ Arranged(p, o) # Resting
              /\ Arranged(p, o).at = p.at /\ Arranged(p, o).artifacts = o
<1>1. p \in [at : Stages, artifacts : Orders, listed : SUBSET Artifacts, last : Nat]
  BY DEF Posts
<1>2. /\ Resting.at = "rest" /\ "rest" \notin Stages /\ "index" \in Stages /\ "append" \in Stages
  BY DEF Resting, Stages
<1>3. ASSUME NEW s \in Stages
      PROVE  /\ Staged(p, s) \in Posts /\ Staged(p, s) # Resting
             /\ Staged(p, s).at = s /\ Staged(p, s).artifacts = p.artifacts
  BY <1>1, <1>2 DEF Posts, Staged
<1>4. ASSUME NEW L \in SUBSET Artifacts
      PROVE  /\ Listing(p, L) \in Posts /\ Listing(p, L) # Resting
             /\ Listing(p, L).at = "index" /\ Listing(p, L).artifacts = p.artifacts
             /\ Listing(p, L).listed = L
  BY <1>1, <1>2 DEF Posts, Listing
<1>5. ASSUME NEW n \in Nat
      PROVE  /\ Appending(p, n) \in Posts /\ Appending(p, n) # Resting
             /\ Appending(p, n).at = "append" /\ Appending(p, n).artifacts = p.artifacts
             /\ Appending(p, n).last = n
  BY <1>1, <1>2 DEF Posts, Appending
<1>6. ASSUME NEW o \in Orders
      PROVE  /\ Arranged(p, o) \in Posts /\ Arranged(p, o) # Resting
             /\ Arranged(p, o).at = p.at /\ Arranged(p, o).artifacts = o
  BY <1>1, <1>2 DEF Posts, Arranged
<1>7. QED
  BY <1>3, <1>4, <1>5, <1>6

LEMMA FirstPost ==
  ASSUME NEW o \in Orders, NEW q, q = [Resting EXCEPT !.at = "look", !.artifacts = o]
  PROVE  q \in Posts /\ q # Resting /\ q.at = "look" /\ q.artifacts = o
BY DEF Posts, Resting, Stages

-----------------------------------------------------------------------------
(* What a step of one process leaves of what the others know.               *)

LEMMA GroundStays ==
  ASSUME crossed \subseteq crossed',
         \A s \in Stores : stored[s] \subseteq stored'[s] \/ (s = "batch" /\ "batch" \in crossed'),
         NEW a \in Artifacts, Grounded(a)
  PROVE  Grounded(a)'
BY Parts, Kinds DEF Grounded

LEMMA OthersKnow ==
  ASSUME StoresInv, NEW w \in Workers, NEW s \in Stores,
         \A v \in Workers \ {w} : worker'[v] = worker[v],
         \A v \in Workers \ {w} : worker[v] # Resting /\ Target(v).store = s => s \in crossed',
         crossed \subseteq crossed',
         \A t \in Stores \ {s} : stored'[t] = stored[t],
         stored[s] \subseteq stored'[s] \/ (s = "batch" /\ "batch" \in crossed'),
         s # "batch" => data' = data, s # "experience" => journal' = journal
  PROVE  \A v \in Workers \ {w} : Knows(worker[v])'
<1> SUFFICES ASSUME NEW v \in Workers \ {w} PROVE Knows(worker[v])'
  OBVIOUS
<1> PICK p : p = worker[v]
  OBVIOUS
<1>1. p = worker'[v] /\ Knows(p) /\ StoresTypeOK
  BY DEF StoresInv
<1>2. CASE p = Resting
  BY <1>1, <1>2 DEF Knows
<1>3. CASE p # Resting
  <2> PICK a, t : a = Head(p.artifacts) /\ t = a.store
    OBVIOUS
  <2>1. /\ a \in Artifacts /\ t \in Stores /\ a = Target(v)
        /\ Fits(p.at, t)
        /\ t # "graph" => Grounded(a)
    BY <1>1, <1>3, Working DEF Knows
  <2>2. t # "graph" => Grounded(a)'
    BY <2>1, GroundStays
  <2>3. CASE t # s
    <3>1. /\ stored'[t] = stored[t] /\ (t = "batch" => data' = data)
          /\ (t = "experience" => journal' = journal)
      BY <2>1, <2>3
    <3>2. /\ p.at \in {"list", "index", "read", "append"} =>
               a \in stored'[t] \/ (t = "batch" /\ "batch" \in crossed')
          /\ p.at = "index" => /\ t # "batch" => p.listed \subseteq stored'[t]
                               /\ t \notin crossed' => p.listed = stored'[t]
          /\ p.at = "write" /\ t = "batch" /\ t \notin crossed' => data' = {} /\ stored'[t] = {}
          /\ p.at = "manifest" /\ t \notin crossed' => data' = {a.content} /\ stored'[t] = {}
          /\ p.at = "append" /\ t \notin crossed' =>
               p.last = Len(journal') /\ \A i \in DOMAIN journal' : journal'[i].experience # a
      BY <1>1, <1>3, <2>1, <3>1 DEF Knows, Fits
    <3>3. QED
      BY <1>1, <2>1, <2>2, <3>2 DEF Knows
  <2>4. CASE t = s
    <3>1. s \in crossed'
      BY <1>1, <1>3, <2>1, <2>4
    <3>2. /\ p.at \in {"list", "index", "read", "append"} =>
               a \in stored'[t] \/ (t = "batch" /\ "batch" \in crossed')
          /\ p.at = "index" => (t # "batch" => p.listed \subseteq stored'[t])
      BY <1>1, <1>3, <2>1, <2>4, <3>1 DEF Knows
    <3>3. QED
      BY <1>1, <2>1, <2>2, <2>4, <3>1, <3>2 DEF Knows
  <2>5. QED
    BY <2>3, <2>4
<1>4. QED
  BY <1>2, <1>3

\* A process moves on within its store, or leaves.
LEMMA ApartStays ==
  ASSUME StoresInv, NEW w \in Workers, worker[w] # Resting, NEW q,
         worker' = [worker EXCEPT ![w] = q], crossed' = crossed,
         q # Resting => Head(q.artifacts).store = Target(w).store,
         graphLock' = IF q = Resting /\ graphLock = w THEN Nobody ELSE graphLock
  PROVE  Apart'
<1>1. /\ worker'[w] = q /\ \A v \in Workers \ {w} : worker'[v] = worker[v]
      /\ Apart
  BY DEF StoresInv, StoresTypeOK
<1>2. \A v \in Workers \ {w} : Target(v)' = Target(v)
  BY <1>1 DEF Target
<1>3. Target(w)' = Head(q.artifacts)
  BY <1>1 DEF Target
<1>4. \A u, v \in Workers : u # v /\ worker'[u] # Resting /\ worker'[v] # Resting /\ Target(u)'.store = Target(v)'.store
        => Target(u)'.store \in crossed'
  BY <1>1, <1>2, <1>3 DEF Apart
<1>5. \A v \in Workers : graphLock' = v <=> worker'[v] # Resting /\ Target(v)'.store = "graph"
  BY <1>1, <1>2, <1>3, NobodyIsNoWorker DEF Apart
<1>6. QED
  BY <1>1, <1>4, <1>5 DEF Apart

\* What ReturnedIsIndexed says of one artifact.
Found(a) ==
  a.store \in crossed \ {"graph"} \/
    /\ a \in stored[a.store]
    /\ IF a.store = "experience" THEN \E i \in DOMAIN journal : journal[i].experience = a ELSE a \in indexed[a.store]

Grows(s) ==
  /\ \A t \in Stores \ {s} : stored'[t] = stored[t]
  /\ stored[s] \subseteq stored'[s] \/ (s = "batch" /\ "batch" \in crossed)
  /\ s # "batch" => data' = data
  /\ s # "experience" => journal' = journal

FilesOK ==
  /\ data \subseteq Versions
  /\ stored \in [Stores -> SUBSET Artifacts] /\ \A s \in Stores : stored[s] \subseteq Proper(s)
  /\ indexed \in [Stores -> SUBSET Artifacts]
  /\ journal \in Seq([sequence : Nat, previous : Int, experience : Artifacts])
  /\ cut \in BOOLEAN

LEMMA MoveStep ==
  ASSUME StoresInv, NEW w \in Workers, worker[w] # Resting, NEW q \in Posts,
         worker' = [worker EXCEPT ![w] = q], crossed' = crossed,
         q # Resting => Head(q.artifacts).store = Target(w).store,
         graphLock' = IF q = Resting /\ graphLock = w THEN Nobody ELSE graphLock,
         Grows(Target(w).store), FilesOK', Knows(q)',
         LineageStored', ReturnedIsIndexed', \A a \in returned' : a \in Artifacts
  PROVE  StoresInv'
<1>1. StoresTypeOK /\ Target(w).store \in Stores
  BY Working DEF StoresInv
<1>2. /\ worker'[w] = q /\ \A v \in Workers \ {w} : worker'[v] = worker[v]
      /\ worker' \in [Workers -> Posts]
  BY <1>1 DEF StoresTypeOK
<1>3. StoresTypeOK'
  BY <1>1, <1>2 DEF StoresTypeOK, FilesOK
<1>4. \A v \in Workers \ {w} : Knows(worker[v])'
  <2>1. \A v \in Workers \ {w} : worker[v] # Resting /\ Target(v).store = Target(w).store
          => Target(w).store \in crossed'
    BY DEF StoresInv, Apart
  <2>2. QED
    BY <1>1, <1>2, <2>1, OthersKnow DEF Grows
<1>5. Knows(worker[w])'
  BY <1>2 DEF Knows
<1>6. Apart'
  BY ApartStays
<1>7. QED
  BY <1>3, <1>4, <1>5, <1>6 DEF StoresInv

\* A step that writes no file.
LEMMA QuietMove ==
  ASSUME StoresInv, NEW w \in Workers, worker[w] # Resting, NEW q \in Posts,
         worker' = [worker EXCEPT ![w] = q],
         UNCHANGED <<data, stored, indexed, journal, crossed>>, cut' \in BOOLEAN,
         q # Resting => Head(q.artifacts) = Target(w),
         graphLock' = IF q = Resting /\ graphLock = w THEN Nobody ELSE graphLock,
         Knows(q),
         \/ returned' = returned
         \/ returned' = returned \cup {Target(w)} /\ Found(Target(w))
  PROVE  StoresInv'
<1>1. /\ StoresTypeOK /\ Target(w) \in Artifacts /\ Target(w).store \in Stores
      /\ LineageStored /\ ReturnedIsIndexed /\ \A a \in returned : a \in Artifacts
  BY Working DEF StoresInv
<1>2. Grows(Target(w).store) /\ FilesOK'
  BY <1>1 DEF Grows, FilesOK, StoresTypeOK
<1>3. Knows(q)'
  BY DEF Knows, Grounded
<1>4. LineageStored'
  BY <1>1 DEF LineageStored, Loadable
<1>5. ReturnedIsIndexed' /\ \A a \in returned' : a \in Artifacts
  BY <1>1 DEF ReturnedIsIndexed, Found
<1>6. QED
  BY <1>1, <1>2, <1>3, <1>4, <1>5, MoveStep

LEMMA RaiseStep ==
  ASSUME StoresInv, NEW w \in Workers, worker[w] # Resting, Raises(w),
         UNCHANGED <<data, stored, indexed, journal, crossed>>, cut' \in BOOLEAN
  PROVE  StoresInv'
<1>1. Resting \in Posts /\ Knows(Resting)
  BY DEF Posts, Knows
<1>2. QED
  BY <1>1, QuietMove DEF Raises, Leaves, Become

LEMMA ReturnStep ==
  ASSUME StoresInv, NEW w \in Workers, worker[w] # Resting, Returns(w), Found(Target(w)),
         UNCHANGED <<data, stored, indexed, journal, crossed>>, cut' \in BOOLEAN
  PROVE  StoresInv'
<1>1. Resting \in Posts /\ Knows(Resting)
  BY DEF Posts, Knows
<1>2. QED
  BY <1>1, QuietMove DEF Returns, Leaves, Become

\* Going to another stage, for which what it knows is enough.
LEMMA GoesStep ==
  ASSUME StoresInv, NEW w \in Workers, worker[w] # Resting, NEW s \in Stages, Goes(w, s),
         NEW q, q = Staged(worker[w], s), Knows(q),
         UNCHANGED <<data, stored, indexed, journal, crossed>>, cut' \in BOOLEAN
  PROVE  StoresInv'
<1>1. /\ worker[w] \in Posts /\ q \in Posts /\ q # Resting /\ q.artifacts = worker[w].artifacts
  <2>1. worker[w] \in Posts
    BY Working DEF StoresInv
  <2>2. QED
    BY <2>1, NextPosts
<1>2. Head(q.artifacts) = Target(w)
  BY <1>1 DEF Target
<1>3. worker' = [worker EXCEPT ![w] = q] /\ UNCHANGED <<graphLock, returned>>
  BY DEF Goes, Become, Staged
<1>4. QED
  BY <1>1, <1>2, <1>3, QuietMove

-----------------------------------------------------------------------------
(* One lemma for each step of a persist.                                    *)

LEMMA StoresStart == StoresInit => StoresInv
<1> SUFFICES ASSUME StoresInit PROVE StoresInv
  OBVIOUS
<1>1. /\ data = {} /\ stored = [s \in Stores |-> {}] /\ indexed = [s \in Stores |-> {}]
      /\ journal = <<>> /\ DOMAIN journal = {} /\ cut = FALSE /\ graphLock = Nobody
      /\ \A w \in Workers : worker[w] = Resting
      /\ returned = {} /\ crossed = {}
  BY DEF StoresInit
<1>2. worker \in [Workers -> Posts]
  BY DEF StoresInit, Posts
<1>3. StoresTypeOK
  <2>1. /\ stored \in [Stores -> SUBSET Artifacts] /\ indexed \in [Stores -> SUBSET Artifacts]
        /\ \A s \in Stores : stored[s] = {}
    BY <1>1
  <2>2. journal \in Seq([sequence : Nat, previous : Int, experience : Artifacts])
    BY <1>1
  <2>3. QED
    BY <1>1, <1>2, <2>1, <2>2 DEF StoresTypeOK
<1>4. Apart
  BY <1>1, NobodyIsNoWorker DEF Apart
<1>5. LineageStored /\ ReturnedIsIndexed
  BY <1>1 DEF LineageStored, ReturnedIsIndexed, Stores
<1>6. QED
  BY <1>1, <1>3, <1>4, <1>5 DEF StoresInv, Knows

\* A persist begins with an order that can be built of what is stored.
LEMMA BeginStep ==
  ASSUME StoresInv, NEW w \in Workers, NEW s \in Stores, Begin(w, s)
  PROVE  StoresInv'
<1>1. PICK o \in Buildable(s) : Become(w, [Resting EXCEPT !.at = "look", !.artifacts = o])
  BY DEF Begin
<1>2. /\ StoresTypeOK /\ Apart /\ LineageStored /\ ReturnedIsIndexed
      /\ worker[w] = Resting /\ (s = "graph" => graphLock = Nobody)
      /\ crossed' = crossed \cup {Target(v).store : v \in {u \in Workers : Sharing(u, s)}}
      /\ graphLock' = IF s = "graph" THEN w ELSE graphLock
      /\ UNCHANGED <<data, stored, indexed, journal, cut, returned>>
  BY DEF StoresInv, Begin, storeFiles
<1>3. o \in Orders /\ Head(o).store = s /\ (s # "graph" => Grounded(Head(o)))
  <2>1. \A b \in stored["batch"] : b \in Batches /\ b.store = "batch"
    BY <1>2, Kinds DEF StoresTypeOK, Proper, Stores
  <2>2. CASE s = "batch"
    <3>1. PICK b \in Batches : o = <<b>>
      BY <1>1, <2>2 DEF Buildable
    <3>2. b \in Artifacts /\ b.store = "batch" /\ b.of = {}
      BY Made DEF Artifacts, Proper, Stores, Batches
    <3>3. QED
      BY <2>2, <3>1, <3>2, OrderHeads DEF Grounded
  <2>3. CASE s = "frame"
    <3>1. PICK b \in Loadable, t \in Times : o = <<Frame(b, t)>>
      BY <1>1, <2>3 DEF Buildable, Frames
    <3>2. b \in stored["batch"] /\ b \in Batches /\ b.store = "batch"
      BY <2>1 DEF Loadable
    <3>3. Frame(b, t) \in AllFrames
      BY <3>2 DEF AllFrames
    <3>4. Frame(b, t) \in Artifacts
      BY <3>3 DEF Artifacts, Proper, Stores
    <3>5. Frame(b, t).store = "frame" /\ Grounded(Frame(b, t))
      BY <3>2, MadeFrames DEF Grounded
    <3>6. QED
      BY <2>3, <3>1, <3>4, <3>5, OrderHeads
  <2>4. CASE s = "context"
    <3>1. PICK t \in Times : o = <<Context(t, History(t))>>
      BY <1>1, <2>4 DEF Buildable, Contexts
    <3>2. /\ History(t) \subseteq stored["frame"] /\ stored["frame"] \subseteq AllFrames
          /\ \A f \in AllFrames : f.store = "frame"
      BY <1>2, MadeFrames DEF History, LineageStored, Stores, StoresTypeOK, Proper, AllFrames
    <3>3. Context(t, History(t)) \in AllContexts
      BY <3>2 DEF AllContexts
    <3>4. Context(t, History(t)) \in Artifacts
      BY <3>3 DEF Artifacts, Proper, Stores
    <3>5. Context(t, History(t)).store = "context" /\ Grounded(Context(t, History(t)))
      BY <3>2, MadeContexts DEF Grounded
    <3>6. QED
      BY <2>4, <3>1, <3>4, <3>5, OrderHeads
  <2>5. CASE s = "experience"
    <3>1. PICK c \in stored["context"] : o = <<Experience(c)>>
      BY <1>1, <2>5 DEF Buildable, Experiences
    <3>2. c \in AllContexts /\ c.store = "context"
      BY <1>2, MadeContexts DEF StoresTypeOK, Proper, Stores, AllContexts
    <3>3. Experience(c) \in AllExperiences
      BY <3>2 DEF AllExperiences
    <3>4. Experience(c) \in Artifacts
      BY <3>3 DEF Artifacts, Proper, Stores
    <3>5. Experience(c).store = "experience" /\ Grounded(Experience(c))
      BY <3>2, MadeExperiences DEF Grounded
    <3>6. QED
      BY <2>5, <3>1, <3>4, <3>5, OrderHeads
  <2>6. CASE s = "graph"
    <3>1. o = <<Evidence, Relation>> \/ o = <<Relation>>
      BY <1>1, <2>6 DEF Buildable
    <3>2. Evidence.store = "graph" /\ Relation.store = "graph"
      BY Made DEF Evidence, Relation
    <3>3. QED
      BY <2>6, <3>1, <3>2, OrderHeads
  <2>7. QED
    BY <2>2, <2>3, <2>4, <2>5, <2>6 DEF Stores
<1>4. PICK q : q = [Resting EXCEPT !.at = "look", !.artifacts = o]
  OBVIOUS
<1>5. q \in Posts /\ q # Resting /\ q.at = "look" /\ q.artifacts = o
  BY <1>3, <1>4, FirstPost
<1>6. /\ worker' = [worker EXCEPT ![w] = q] /\ worker'[w] = q
      /\ \A v \in Workers \ {w} : worker'[v] = worker[v] /\ Target(v)' = Target(v)
      /\ worker' \in [Workers -> Posts] /\ Target(w)' = Head(o)
  BY <1>1, <1>2, <1>4, <1>5 DEF Become, StoresTypeOK, Target
<1>7. /\ crossed' \subseteq Stores /\ crossed \subseteq crossed' /\ "graph" \notin crossed'
      /\ \A v \in Workers \ {w} : worker[v] # Resting /\ Target(v).store = s => s \in crossed'
  <2>1. \A v \in Workers : Sharing(v, s) <=> worker[v] # Resting /\ Target(v).store = s
    BY DEF Sharing
  <2>2. s = "graph" => \A v \in Workers : ~Sharing(v, s)
    BY <1>2, <2>1, NobodyIsNoWorker DEF Apart
  <2>3. crossed' \subseteq crossed \cup {s}
    BY <1>2, <2>1
  <2>4. QED
    BY <1>2, <2>1, <2>2, <2>3 DEF StoresTypeOK, Apart
<1>8. StoresTypeOK'
  BY <1>2, <1>6, <1>7 DEF StoresTypeOK
<1>9. Apart'
  <2>1. \A u, v \in Workers : u # v /\ worker'[u] # Resting /\ worker'[v] # Resting /\ Target(u)'.store = Target(v)'.store
          => Target(u)'.store \in crossed'
    BY <1>2, <1>3, <1>6, <1>7 DEF Apart
  <2>2. \A v \in Workers : graphLock' = v <=> worker'[v] # Resting /\ Target(v)'.store = "graph"
    BY <1>2, <1>3, <1>5, <1>6, NobodyIsNoWorker DEF Apart
  <2>3. QED
    BY <1>7, <2>1, <2>2 DEF Apart
<1>10. \A v \in Workers \ {w} : Knows(worker[v])'
  BY <1>2, <1>6, <1>7, OthersKnow
<1>11. Knows(q)'
  <2>1. Fits("look", s)
    BY DEF Fits
  <2>2. s # "graph" => Grounded(Head(o))'
    BY <1>2, <1>3, <1>7, GroundStays, OrderHeads
  <2>3. QED
    BY <1>3, <1>5, <2>1, <2>2 DEF Knows
<1>12. LineageStored' /\ ReturnedIsIndexed'
  BY <1>2, <1>7 DEF LineageStored, ReturnedIsIndexed, Loadable
<1>13. Knows(worker[w])'
  BY <1>6, <1>11 DEF Knows
<1>14. QED
  BY <1>2, <1>8, <1>9, <1>10, <1>12, <1>13 DEF StoresInv

LEMMA AtWork ==
  ASSUME StoresInv, NEW w \in Workers, worker[w].at \in Stages,
         NEW a, a = Target(w), NEW p, p = worker[w]
  PROVE  /\ StoresTypeOK /\ LineageStored /\ ReturnedIsIndexed /\ Knows(p)
         /\ p \in Posts /\ p # Resting /\ a = Head(p.artifacts) /\ p.artifacts \in Orders
         /\ a \in Artifacts /\ a.store \in Stores /\ a \in Proper(a.store)
         /\ p.listed \subseteq Artifacts /\ p.last \in Nat
         /\ Fits(p.at, a.store) /\ (a.store # "graph" => Grounded(a))
<1>1. StoresTypeOK /\ LineageStored /\ ReturnedIsIndexed /\ Knows(p)
  BY DEF StoresInv
<1>2. p # Resting
  BY DEF Resting, Stages
<1>3. QED
  BY <1>1, <1>2, Working, Kinds DEF Knows

LEMMA LookBatchStep ==
  ASSUME StoresInv, NEW w \in Workers, LookBatch(w)
  PROVE  StoresInv'
<1> PICK a, p : a = Target(w) /\ p = worker[w]
  OBVIOUS
<1>1. /\ p.at = "look" /\ p.at \in Stages /\ a.store = "batch"
      /\ UNCHANGED <<data, stored, indexed, journal, crossed, cut>>
  BY DEF LookBatch, Quiet, storeFiles, Stages
<1>2. /\ StoresTypeOK /\ p \in Posts /\ p # Resting /\ a = Head(p.artifacts)
      /\ a \in Artifacts /\ Grounded(a) /\ cut' \in BOOLEAN
  BY <1>1, AtWork DEF StoresTypeOK
<1>3. CASE Same(a) = {} /\ data = {} /\ Goes(w, "write")
  <2>1. stored["batch"] = {}
    <3>1. \A b \in stored["batch"] : b.id = a.id
      BY <1>1, <1>2, BatchIds, Kinds DEF StoresTypeOK, Stores
    <3>2. QED
      BY <1>1, <1>3, <3>1 DEF Same
  <2>2. Staged(p, "write").at = "write" /\ Staged(p, "write").artifacts = p.artifacts /\ "write" \in Stages
    BY <1>2, NextPosts DEF Stages
  <2>3. Knows(Staged(p, "write"))
    BY <1>1, <1>2, <1>3, <2>1, <2>2 DEF Knows, Fits
  <2>4. QED
    BY <1>1, <1>2, <1>3, <2>2, <2>3, GoesStep
<1>4. CASE Same(a) = {a} /\ data = {a.content} /\ Goes(w, "list")
  <2>1. a \in stored["batch"]
    BY <1>1, <1>4 DEF Same
  <2>2. Staged(p, "list").at = "list" /\ Staged(p, "list").artifacts = p.artifacts /\ "list" \in Stages
    BY <1>2, NextPosts DEF Stages
  <2>3. Knows(Staged(p, "list"))
    BY <1>1, <1>2, <2>1, <2>2 DEF Knows, Fits
  <2>4. QED
    BY <1>1, <1>2, <1>4, <2>2, <2>3, GoesStep
<1>5. CASE Raises(w)
  BY <1>1, <1>2, <1>5, RaiseStep
<1>6. QED
  BY <1>3, <1>4, <1>5 DEF LookBatch

LEMMA LookArtifactStep ==
  ASSUME StoresInv, NEW w \in Workers, LookArtifact(w)
  PROVE  StoresInv'
<1> PICK a, p : a = Target(w) /\ p = worker[w]
  OBVIOUS
<1>1. /\ p.at = "look" /\ p.at \in Stages /\ a.store \in {"frame", "context", "experience"}
      /\ UNCHANGED <<data, stored, indexed, journal, crossed, cut>>
  BY DEF LookArtifact, Quiet, storeFiles, Stages
<1>2. /\ StoresTypeOK /\ p \in Posts /\ p # Resting /\ a = Head(p.artifacts)
      /\ a \in Artifacts /\ a.store \in Stores /\ Grounded(a) /\ cut' \in BOOLEAN
  BY <1>1, AtWork DEF StoresTypeOK
<1>3. Same(a) # {} => a \in stored[a.store]
  <2>1. ASSUME NEW b \in Same(a) PROVE b = a
    <3>1. b \in Artifacts /\ b.store = a.store /\ b.id = a.id
      BY <1>2, Kinds DEF Same, StoresTypeOK
    <3>2. QED
      BY <1>1, <1>2, <3>1, UniqueIds
  <2>2. QED
    BY <2>1 DEF Same
<1>4. CASE Raises(w)
  BY <1>1, <1>2, <1>4, RaiseStep
<1>5. ASSUME NEW s \in {"write", "read", "list"}, Goes(w, s),
             s = "write" \/ (a \in stored[a.store] /\ (s = "read" <=> a.store = "experience"))
      PROVE  StoresInv'
  <2>1. Staged(p, s).at = s /\ Staged(p, s).artifacts = p.artifacts /\ s \in Stages
    BY <1>2, NextPosts DEF Stages
  <2>2. Knows(Staged(p, s))
    BY <1>1, <1>2, <1>5, <2>1 DEF Knows, Fits
  <2>3. QED
    BY <1>1, <1>2, <1>5, <2>1, <2>2, GoesStep
<1>6. QED
  BY <1>3, <1>4, <1>5 DEF LookArtifact

LEMMA WriteDataStep ==
  ASSUME StoresInv, NEW w \in Workers, WriteData(w)
  PROVE  StoresInv'
<1> PICK a, p : a = Target(w) /\ p = worker[w]
  OBVIOUS
<1>1. /\ p.at = "write" /\ p.at \in Stages /\ a.store = "batch"
      /\ data' = {a.content} /\ Goes(w, "manifest")
      /\ UNCHANGED <<stored, indexed, journal, crossed, cut, graphLock, returned>>
  BY DEF WriteData, Quiet, Stages, Goes
<1>2. /\ StoresTypeOK /\ LineageStored /\ ReturnedIsIndexed /\ p \in Posts /\ p # Resting
      /\ a = Head(p.artifacts) /\ a \in Artifacts /\ Grounded(a) /\ a \in Batches
      /\ "batch" \notin crossed => stored["batch"] = {}
  BY <1>1, AtWork DEF Proper, Knows
<1>3. PICK q : q = Staged(p, "manifest")
  OBVIOUS
<1>4. /\ q \in Posts /\ q.at = "manifest" /\ q.artifacts = p.artifacts /\ q # Resting
      /\ worker' = [worker EXCEPT ![w] = q]
  BY <1>1, <1>2, <1>3, NextPosts DEF Stages, Goes, Become, Staged
<1>5. Grounded(a)'
  BY <1>1, <1>2 DEF Grounded
<1>6. Knows(q)'
  BY <1>1, <1>2, <1>4, <1>5 DEF Knows, Fits
<1>7. a.content \in Versions
  BY <1>2, Made DEF Batches
<1>8. Grows("batch") /\ FilesOK'
  BY <1>1, <1>2, <1>7 DEF Grows, FilesOK, StoresTypeOK
<1>9. LineageStored'
  BY <1>1, <1>2 DEF LineageStored, Loadable, Stores
<1>10. ReturnedIsIndexed' /\ \A b \in returned' : b \in Artifacts
  BY <1>1, <1>2 DEF ReturnedIsIndexed, StoresInv
<1>11. QED
  BY <1>1, <1>2, <1>4, <1>6, <1>8, <1>9, <1>10, MoveStep

\* Writing the file of an artifact whose parts are there.
LEMMA PlacedStep ==
  ASSUME StoresInv, NEW a \in Artifacts, Place(a), Grounded(a),
         a.store = "batch" => "batch" \in crossed \/ (data = {a.content} /\ stored["batch"] = {}),
         UNCHANGED <<data, indexed, journal, cut, crossed, returned>>
  PROVE  /\ Grows(a.store) /\ FilesOK' /\ a \in stored'[a.store] /\ Grounded(a)'
         /\ LineageStored' /\ ReturnedIsIndexed' /\ \A b \in returned' : b \in Artifacts
<1>1. /\ StoresTypeOK /\ LineageStored /\ ReturnedIsIndexed /\ a.store \in Stores
      /\ \A b \in returned : b \in Artifacts
  BY Kinds DEF StoresInv
<1>2. /\ stored' \in [Stores -> SUBSET Artifacts]
      /\ \A s \in Stores : stored'[s] \subseteq Proper(s)
      /\ \A s \in Stores \ {a.store} : stored'[s] = stored[s]
      /\ a.store # "batch" => stored'[a.store] = stored[a.store] \cup {a}
      /\ a.store = "batch" => stored'["batch"] = {a}
  BY <1>1, Placed
<1>3. Grows(a.store)
  BY <1>2 DEF Grows
<1>4. FilesOK'
  BY <1>1, <1>2 DEF FilesOK, StoresTypeOK
<1>5. /\ a \in stored'[a.store]
      /\ \A s \in Stores : stored[s] \subseteq stored'[s] \/ (s = "batch" /\ "batch" \in crossed')
  BY <1>1, <1>2
<1>6. \A b \in Artifacts : Grounded(b) => Grounded(b)'
  BY <1>5, GroundStays
<1>7. LineageStored'
  <2>1. \A s \in Stores \ {"batch"} : indexed'[s] \subseteq stored'[s]
    BY <1>1, <1>5 DEF LineageStored
  <2>2. \A s \in Stores : \A b \in stored'[s] : Grounded(b)'
    <3> SUFFICES ASSUME NEW s \in Stores, NEW b \in stored'[s] PROVE Grounded(b)'
      OBVIOUS
    <3>1. b \in Artifacts /\ (b = a \/ b \in stored[s])
      BY <1>1, <1>2
    <3>2. b \in stored[s] => Grounded(b)
      BY <1>1 DEF LineageStored, Grounded
    <3>3. QED
      BY <1>6, <3>1, <3>2
  <2>3. "batch" \in crossed' \/ (indexed'["batch"] \subseteq stored'["batch"] /\ stored'["batch"] \subseteq Loadable')
    <3>1. "batch" \in Stores
      BY DEF Stores
    <3>2. CASE a.store = "batch"
      BY <1>1, <1>2, <3>1, <3>2 DEF LineageStored, Loadable
    <3>3. CASE a.store # "batch"
      BY <1>1, <1>2, <3>1, <3>3 DEF LineageStored, Loadable
    <3>4. QED
      BY <3>2, <3>3
  <2>4. \A i \in DOMAIN journal' : journal'[i].experience \in stored'["experience"]
    BY <1>1, <1>5 DEF LineageStored, Stores
  <2>5. QED
    BY <2>1, <2>2, <2>3, <2>4 DEF LineageStored, Grounded
<1>8. ReturnedIsIndexed'
  <2>1. \A b \in returned : b.store \in Stores
    BY <1>1, Kinds
  <2>2. QED
    BY <1>1, <1>5, <2>1 DEF ReturnedIsIndexed
<1>9. QED
  BY <1>1, <1>3, <1>4, <1>5, <1>6, <1>7, <1>8

LEMMA WriteArtifactStep ==
  ASSUME StoresInv, NEW w \in Workers, WriteArtifact(w)
  PROVE  StoresInv'
<1> PICK a, p : a = Target(w) /\ p = worker[w]
  OBVIOUS
<1>1. /\ p.at \in {"write", "manifest"} /\ p.at \in Stages /\ (p.at = "manifest") = (a.store = "batch")
      /\ UNCHANGED <<data, indexed, journal, cut, crossed>>
  BY DEF WriteArtifact, Quiet, Stages
<1>2. /\ StoresTypeOK /\ Knows(p) /\ p \in Posts /\ p # Resting /\ a = Head(p.artifacts)
      /\ a \in Artifacts /\ a.store \in Stores /\ a.store # "graph" /\ Grounded(a)
      /\ cut' \in BOOLEAN
  <2>1. Fits(p.at, a.store) /\ cut \in BOOLEAN
    BY <1>1, AtWork DEF StoresTypeOK
  <2>2. a.store # "graph"
    BY <1>1, <2>1 DEF Fits
  <2>3. QED
    BY <1>1, <2>1, <2>2, AtWork
<1>3. CASE Raises(w) /\ UNCHANGED stored
  BY <1>1, <1>2, <1>3, RaiseStep
<1>4. ASSUME NEW s \in {"read", "list"}, s = "read" <=> a.store = "experience", Place(a), Goes(w, s)
      PROVE  StoresInv'
  <2> PICK q : q = Staged(p, s)
    OBVIOUS
  <2>1. /\ q \in Posts /\ q # Resting /\ q.at = s /\ q.artifacts = p.artifacts
    BY <1>2, NextPosts DEF Stages
  <2>2. worker' = [worker EXCEPT ![w] = q] /\ UNCHANGED <<graphLock, returned>>
    BY <1>4 DEF Goes, Become, Staged
  <2>3. a.store = "batch" => "batch" \in crossed \/ (data = {a.content} /\ stored["batch"] = {})
    BY <1>1, <1>2 DEF Knows
  <2>4. /\ Grows(a.store) /\ FilesOK' /\ a \in stored'[a.store] /\ Grounded(a)'
        /\ LineageStored' /\ ReturnedIsIndexed' /\ \A b \in returned' : b \in Artifacts
    BY <1>1, <1>2, <1>4, <2>2, <2>3, PlacedStep
  <2>5. Knows(q)'
    BY <1>2, <1>4, <2>1, <2>4 DEF Knows, Fits
  <2>6. QED
    BY <1>1, <1>2, <2>1, <2>2, <2>4, <2>5, MoveStep
<1>5. QED
  BY <1>3, <1>4 DEF WriteArtifact

LEMMA WriteNodeStep ==
  ASSUME StoresInv, NEW w \in Workers, WriteNode(w)
  PROVE  StoresInv'
<1> PICK a, p : a = Target(w) /\ p = worker[w]
  OBVIOUS
<1>1. /\ p.at = "look" /\ p.at \in Stages /\ a.store = "graph"
      /\ UNCHANGED <<data, indexed, journal, cut, crossed>>
  BY DEF WriteNode, Quiet, Stages
<1>2. /\ StoresTypeOK /\ Knows(p) /\ p \in Posts /\ p # Resting /\ a = Head(p.artifacts)
      /\ p.artifacts \in Orders /\ a \in Artifacts /\ a \in AllNodes /\ cut' \in BOOLEAN
  BY <1>1, AtWork DEF StoresTypeOK, Proper
<1>3. CASE Raises(w) /\ UNCHANGED stored
  BY <1>1, <1>2, <1>3, RaiseStep
<1>4. CASE /\ a.of \subseteq stored["graph"] /\ Place(a) /\ UNCHANGED <<graphLock, returned>>
           /\ Become(w, IF Len(p.artifacts) = 1 THEN [p EXCEPT !.at = "list"]
                        ELSE [p EXCEPT !.artifacts = Tail(p.artifacts)])
  <2>1. Grounded(a)
    <3>1. /\ Evidence.of = {} /\ Relation.of = {Evidence} /\ Evidence.store = "graph"
      BY Made DEF Evidence, Relation
    <3>2. QED
      BY <1>2, <1>4, <3>1 DEF Grounded, AllNodes
  <2>2. /\ Grows(a.store) /\ FilesOK' /\ a \in stored'[a.store]
        /\ LineageStored' /\ ReturnedIsIndexed' /\ \A b \in returned' : b \in Artifacts
    BY <1>1, <1>2, <1>4, <2>1, PlacedStep
  <2>3. PICK q : q = IF Len(p.artifacts) = 1 THEN Staged(p, "list") ELSE Arranged(p, Tail(p.artifacts))
    OBVIOUS
  <2>4. worker' = [worker EXCEPT ![w] = q]
    BY <1>4, <2>3 DEF Become, Staged, Arranged
  <2>5. CASE Len(p.artifacts) = 1
    <3>1. q \in Posts /\ q # Resting /\ q.at = "list" /\ q.artifacts = p.artifacts
      BY <1>2, <2>3, <2>5, NextPosts DEF Stages
    <3>2. Knows(q)'
      BY <1>1, <1>2, <2>2, <3>1 DEF Knows, Fits
    <3>3. QED
      BY <1>1, <1>2, <1>4, <2>2, <2>4, <3>1, <3>2, MoveStep
  <2>6. CASE Len(p.artifacts) # 1
    <3>1. Tail(p.artifacts) = <<Relation>> /\ <<Relation>> \in Orders /\ Head(<<Relation>>) = Relation
      BY <1>2, <2>6, OrderHeads
    <3>2. q \in Posts /\ q # Resting /\ q.at = "look" /\ q.artifacts = <<Relation>>
      <4>1. q = Arranged(p, <<Relation>>)
        BY <2>3, <2>6, <3>1
      <4>2. \A o \in Orders : /\ Arranged(p, o) \in Posts /\ Arranged(p, o) # Resting
                               /\ Arranged(p, o).at = p.at /\ Arranged(p, o).artifacts = o
        <5>1. p \in Posts /\ p # Resting
          BY <1>2
        <5>2. QED
          BY <5>1, NextPosts
      <4>3. QED
        BY <1>1, <3>1, <4>1, <4>2
    <3>3. Relation.store = "graph"
      BY Made DEF Relation
    <3>4. Knows(q)'
      BY <3>1, <3>2, <3>3 DEF Knows, Fits
    <3>5. QED
      BY <1>1, <1>2, <1>4, <2>2, <2>4, <3>1, <3>2, <3>3, <3>4, MoveStep
  <2>7. QED
    BY <2>5, <2>6
<1>5. QED
  BY <1>3, <1>4 DEF WriteNode

LEMMA ListDirectoryStep ==
  ASSUME StoresInv, NEW w \in Workers, ListDirectory(w)
  PROVE  StoresInv'
<1> PICK a, p : a = Target(w) /\ p = worker[w]
  OBVIOUS
<1>1. /\ p.at = "list" /\ p.at \in Stages
      /\ UNCHANGED <<data, stored, indexed, journal, cut, crossed>>
  BY DEF ListDirectory, Quiet, storeFiles, Stages
<1>2. /\ StoresTypeOK /\ Knows(p) /\ p \in Posts /\ p # Resting /\ a = Head(p.artifacts)
      /\ a \in Artifacts /\ a.store \in Stores
  BY <1>1, AtWork
<1>3. cut' \in BOOLEAN /\ stored[a.store] \in SUBSET Artifacts
  BY <1>1, <1>2 DEF StoresTypeOK
<1>4. CASE Raises(w)
  BY <1>1, <1>2, <1>3, <1>4, RaiseStep
<1>5. CASE /\ Become(w, [worker[w] EXCEPT !.at = "index", !.listed = stored[a.store]])
           /\ UNCHANGED <<graphLock, returned>>
  <2> PICK q : q = Listing(p, stored[a.store])
    OBVIOUS
  <2>1. \A L \in SUBSET Artifacts :
          /\ Listing(p, L) \in Posts /\ Listing(p, L) # Resting
          /\ Listing(p, L).at = "index" /\ Listing(p, L).artifacts = p.artifacts
          /\ Listing(p, L).listed = L
    BY <1>2, NextPosts
  <2>2. /\ q \in Posts /\ q # Resting /\ q.at = "index" /\ q.artifacts = p.artifacts
        /\ q.listed = stored[a.store]
    BY <1>3, <2>1
  <2>3. worker' = [worker EXCEPT ![w] = q]
    BY <1>5 DEF Become, Listing
  <2>4. Knows(q)
    BY <1>1, <1>2, <2>2 DEF Knows, Fits
  <2>5. QED
    BY <1>1, <1>2, <1>3, <1>5, <2>2, <2>3, <2>4, QuietMove
<1>6. QED
  BY <1>4, <1>5 DEF ListDirectory

LEMMA WriteIndexStep ==
  ASSUME StoresInv, NEW w \in Workers, WriteIndex(w)
  PROVE  StoresInv'
<1> PICK a, p, s : a = Target(w) /\ p = worker[w] /\ s = a.store
  OBVIOUS
<1>1. /\ p.at = "index" /\ p.at \in Stages /\ indexed' = [indexed EXCEPT ![s] = p.listed]
      /\ worker' = [worker EXCEPT ![w] = Resting] /\ returned' = returned \cup {a}
      /\ graphLock' = IF graphLock = w THEN Nobody ELSE graphLock
      /\ UNCHANGED <<data, stored, journal, cut, crossed>>
  BY DEF WriteIndex, Quiet, Returns, Leaves, Become, Stages
<1>2. /\ StoresTypeOK /\ LineageStored /\ ReturnedIsIndexed /\ Knows(p) /\ p # Resting
      /\ a = Head(p.artifacts) /\ a \in Artifacts /\ s \in Stores
      /\ p.listed \subseteq Artifacts /\ s # "experience"
      /\ \A b \in returned : b \in Artifacts
  <2>1. Fits(p.at, s)
    BY <1>1, AtWork
  <2>2. QED
    BY <1>1, <2>1, AtWork DEF Fits, StoresInv
<1>3. /\ a \in stored[s] \/ (s = "batch" /\ "batch" \in crossed)
      /\ s # "batch" => p.listed \subseteq stored[s]
      /\ s \notin crossed => p.listed = stored[s]
  BY <1>1, <1>2 DEF Knows
<1>4. /\ indexed'[s] = p.listed /\ \A t \in Stores \ {s} : indexed'[t] = indexed[t]
      /\ indexed' \in [Stores -> SUBSET Artifacts]
  BY <1>1, <1>2 DEF StoresTypeOK
<1>5. Grows(s) /\ FilesOK'
  BY <1>1, <1>2, <1>4 DEF Grows, FilesOK, StoresTypeOK
<1>6. LineageStored'
  <2>1. \A t \in Stores \ {"batch"} : indexed'[t] \subseteq stored'[t]
    BY <1>1, <1>2, <1>3, <1>4 DEF LineageStored
  <2>2. "batch" \in crossed' \/ (indexed'["batch"] \subseteq stored'["batch"] /\ stored'["batch"] \subseteq Loadable')
    BY <1>1, <1>2, <1>3, <1>4 DEF LineageStored, Loadable, Stores
  <2>3. QED
    BY <1>1, <1>2, <2>1, <2>2 DEF LineageStored
<1>7. ReturnedIsIndexed' /\ \A b \in returned' : b \in Artifacts
  <2>1. ASSUME NEW b \in returned'
        PROVE  /\ b \in Artifacts
               /\ b.store \in crossed' \ {"graph"} \/
                    /\ b \in stored'[b.store]
                    /\ IF b.store = "experience" THEN \E i \in DOMAIN journal' : journal'[i].experience = b
                       ELSE b \in indexed'[b.store]
    <3>1. "graph" \notin crossed /\ b \in Artifacts /\ b.store \in Stores
      BY <1>1, <1>2, Kinds DEF StoresInv, Apart
    <3>2. b = a \/ b \in returned
      BY <1>1
    <3>3. CASE b.store = s
      <4>1. CASE s \notin crossed
        <5>1. p.listed = stored[s] /\ a \in stored[s]
          BY <1>3, <4>1
        <5>2. b \in returned => b \in stored[s]
          BY <1>2, <3>3, <4>1 DEF ReturnedIsIndexed
        <5>3. QED
          BY <1>1, <1>2, <1>4, <3>1, <3>2, <3>3, <5>1, <5>2
      <4>2. QED
        BY <1>1, <3>1, <3>3, <4>1
    <3>4. CASE b.store # s
      BY <1>1, <1>2, <1>4, <3>1, <3>2, <3>4 DEF ReturnedIsIndexed
    <3>5. QED
      BY <3>1, <3>3, <3>4
  <2>2. QED
    BY <1>1, <1>2, <2>1 DEF ReturnedIsIndexed
<1>8. Resting \in Posts /\ Knows(Resting)'
  BY DEF Posts, Knows
<1>9. QED
  BY <1>1, <1>2, <1>5, <1>6, <1>7, <1>8, MoveStep

LEMMA ReadJournalStep ==
  ASSUME StoresInv, NEW w \in Workers, ReadJournal(w)
  PROVE  StoresInv'
<1> PICK a, p : a = Target(w) /\ p = worker[w]
  OBVIOUS
<1>1. /\ p.at = "read" /\ p.at \in Stages
      /\ UNCHANGED <<data, stored, indexed, journal, cut, crossed>>
  BY DEF ReadJournal, Quiet, storeFiles, Stages
<1>2. /\ StoresTypeOK /\ Knows(p) /\ p \in Posts /\ p # Resting /\ a = Head(p.artifacts)
      /\ a \in Artifacts /\ a.store \in Stores /\ Fits(p.at, a.store)
  BY <1>1, AtWork
<1>3. cut' \in BOOLEAN /\ Len(journal) \in Nat /\ a.store = "experience" /\ a \in stored["experience"]
  BY <1>1, <1>2 DEF StoresTypeOK, Fits, Knows
<1>4. CASE Raises(w)
  BY <1>1, <1>2, <1>3, <1>4, RaiseStep
<1>5. CASE (\E i \in DOMAIN journal : journal[i].experience = a) /\ Returns(w)
  <2>1. Found(a)
    BY <1>3, <1>5 DEF Found
  <2>2. QED
    BY <1>1, <1>2, <1>3, <1>5, <2>1, ReturnStep
<1>6. CASE /\ ~(\E i \in DOMAIN journal : journal[i].experience = a)
           /\ Become(w, [worker[w] EXCEPT !.at = "append", !.last = Len(journal)])
           /\ UNCHANGED <<graphLock, returned>>
  <2> PICK q : q = Appending(p, Len(journal))
    OBVIOUS
  <2>1. \A n \in Nat :
          /\ Appending(p, n) \in Posts /\ Appending(p, n) # Resting
          /\ Appending(p, n).at = "append" /\ Appending(p, n).artifacts = p.artifacts
          /\ Appending(p, n).last = n
    BY <1>2, NextPosts
  <2>2. /\ q \in Posts /\ q # Resting /\ q.at = "append" /\ q.artifacts = p.artifacts
        /\ q.last = Len(journal)
    BY <1>3, <2>1
  <2>3. worker' = [worker EXCEPT ![w] = q]
    BY <1>6 DEF Become, Appending
  <2>4. Knows(q)
    BY <1>1, <1>2, <1>3, <1>6, <2>2 DEF Knows, Fits
  <2>5. QED
    BY <1>1, <1>2, <1>3, <1>6, <2>2, <2>3, <2>4, QuietMove
<1>7. QED
  BY <1>4, <1>5, <1>6 DEF ReadJournal

LEMMA WorkerDiesStep ==
  ASSUME StoresInv, NEW w \in Workers, WorkerDies(w)
  PROVE  StoresInv'
<1>1. /\ worker[w] # Resting /\ Raises(w) /\ cut' \in BOOLEAN
      /\ UNCHANGED <<data, stored, indexed, journal, crossed>>
  BY DEF WorkerDies, StoresInv, StoresTypeOK
<1>2. QED
  BY <1>1, RaiseStep

\* The event goes at the end of the journal; built on the last one there is
\* unless another persist was under way.
LEMMA AppendEventStep ==
  ASSUME StoresInv, NEW w \in Workers, AppendEvent(w)
  PROVE  StoresInv'
<1> PICK a, p : a = Target(w) /\ p = worker[w]
  OBVIOUS
<1> PICK n : n = Len(journal)
  OBVIOUS
<1> PICK e : e = Entry(p.last + 1, a)
  OBVIOUS
<1>1. /\ p.at = "append" /\ p.at \in Stages /\ journal' = Append(journal, e)
      /\ worker' = [worker EXCEPT ![w] = Resting] /\ returned' = returned \cup {a}
      /\ graphLock' = IF graphLock = w THEN Nobody ELSE graphLock
      /\ UNCHANGED <<data, stored, indexed, cut, crossed>>
  BY DEF AppendEvent, Quiet, Returns, Leaves, Become, Stages
<1>2. /\ StoresTypeOK /\ LineageStored /\ ReturnedIsIndexed /\ Knows(p) /\ p # Resting
      /\ a = Head(p.artifacts) /\ a \in Artifacts /\ p.last \in Nat /\ Fits(p.at, a.store)
      /\ \A b \in returned : b \in Artifacts
  <2>1. \A b \in returned : b \in Artifacts
    BY DEF StoresInv
  <2>2. QED
    BY <1>1, <2>1, AtWork
<1>3. /\ a.store = "experience" /\ a \in stored["experience"]
      /\ "experience" \notin crossed => p.last = n /\ \A i \in DOMAIN journal : journal[i].experience # a
  BY <1>1, <1>2 DEF Knows, Fits
<1>4. e \in [sequence : Nat, previous : Int, experience : Artifacts]
      /\ e.sequence = p.last + 1 /\ e.previous = p.last /\ e.experience = a
  BY <1>2 DEF Entry
<1>5. /\ journal \in Seq([sequence : Nat, previous : Int, experience : Artifacts])
      /\ n \in Nat /\ DOMAIN journal = 1..n
  BY <1>2 DEF StoresTypeOK
<1>6. /\ journal' \in Seq([sequence : Nat, previous : Int, experience : Artifacts])
      /\ DOMAIN journal' = 1..(n + 1) /\ journal'[n + 1] = e
      /\ \A i \in 1..n : journal'[i] = journal[i]
  BY <1>1, <1>4, <1>5
<1>7. \A i \in DOMAIN journal' : i \in DOMAIN journal \/ i = n + 1
  BY <1>5, <1>6
<1>8. Grows("experience") /\ FilesOK'
  BY <1>1, <1>2, <1>6 DEF Grows, FilesOK, StoresTypeOK
<1>9. LineageStored'
  <2>1. \A i \in DOMAIN journal' : journal'[i].experience \in stored'["experience"]
    BY <1>1, <1>2, <1>3, <1>4, <1>5, <1>6, <1>7 DEF LineageStored
  <2>2. QED
    BY <1>1, <1>2, <2>1 DEF LineageStored, Loadable
<1>10. ReturnedIsIndexed' /\ \A b \in returned' : b \in Artifacts
  <2>1. ASSUME NEW b \in returned'
        PROVE  /\ b \in Artifacts
               /\ b.store \in crossed' \ {"graph"} \/
                    /\ b \in stored'[b.store]
                    /\ IF b.store = "experience" THEN \E i \in DOMAIN journal' : journal'[i].experience = b
                       ELSE b \in indexed'[b.store]
    <3>1. CASE b = a
      <4>1. n + 1 \in DOMAIN journal' /\ journal'[n + 1].experience = a
        BY <1>4, <1>5, <1>6
      <4>2. QED
        BY <1>1, <1>2, <1>3, <3>1, <4>1
    <3>2. CASE b \in returned
      <4>1. \A i \in DOMAIN journal : i \in DOMAIN journal' /\ journal'[i] = journal[i]
        BY <1>5, <1>6
      <4>2. QED
        BY <1>1, <1>2, <3>2, <4>1 DEF ReturnedIsIndexed
    <3>3. QED
      BY <1>1, <3>1, <3>2
  <2>2. CASE "experience" \in crossed
    BY <1>1, <2>1, <2>2 DEF ReturnedIsIndexed
  <2>3. CASE "experience" \notin crossed
    <3>1. ASSUME NEW i \in DOMAIN journal'
          PROVE  journal'[i].sequence = i /\ journal'[i].previous = i - 1
      <4>1. i \in DOMAIN journal => journal[i].sequence = i /\ journal[i].previous = i - 1
        BY <1>2, <2>3 DEF ReturnedIsIndexed
      <4>2. QED
        BY <1>3, <1>4, <1>5, <1>6, <1>7, <2>3, <4>1
    <3>2. ASSUME NEW i \in DOMAIN journal', NEW j \in DOMAIN journal',
                 journal'[i].experience = journal'[j].experience
          PROVE  i = j
      <4>1. i \in DOMAIN journal /\ j \in DOMAIN journal /\ journal[i].experience = journal[j].experience => i = j
        BY <1>2, <2>3 DEF ReturnedIsIndexed
      <4>2. \A k \in DOMAIN journal : journal'[k] = journal[k] /\ journal[k].experience # a
        BY <1>3, <1>5, <1>6, <2>3
      <4>3. journal'[n + 1].experience = a
        BY <1>4, <1>6
      <4>4. CASE i \in DOMAIN journal /\ j \in DOMAIN journal
        BY <3>2, <4>1, <4>2, <4>4
      <4>5. CASE i = n + 1 \/ j = n + 1
        BY <1>7, <3>2, <4>2, <4>3, <4>5
      <4>6. QED
        BY <1>7, <4>4, <4>5
    <3>3. QED
      BY <2>1, <3>1, <3>2 DEF ReturnedIsIndexed
  <2>4. QED
    BY <2>1, <2>2, <2>3
<1>11. Resting \in Posts /\ Knows(Resting)'
  BY DEF Posts, Knows
<1>12. QED
  BY <1>1, <1>2, <1>3, <1>8, <1>9, <1>10, <1>11, MoveStep

-----------------------------------------------------------------------------
LEMMA StoresStep == StoresInv /\ [StoresNext]_storeVars => StoresInv'
<1> SUFFICES ASSUME StoresInv, [StoresNext]_storeVars PROVE StoresInv'
  OBVIOUS
<1>1. CASE UNCHANGED storeVars
  <2>1. /\ data' = data /\ stored' = stored /\ indexed' = indexed /\ journal' = journal /\ cut' = cut
        /\ graphLock' = graphLock /\ worker' = worker /\ returned' = returned /\ crossed' = crossed
    BY <1>1 DEF storeVars, storeFiles, storeCounters
  <2>2. StoresTypeOK'
    BY <2>1 DEF StoresInv, StoresTypeOK
  <2>3. Apart'
    BY <2>1 DEF StoresInv, Apart, Target
  <2>4. \A w \in Workers : Knows(worker[w])'
    BY <2>1 DEF StoresInv, Knows, Grounded
  <2>5. LineageStored' /\ ReturnedIsIndexed' /\ \A a \in returned' : a \in Artifacts
    BY <2>1 DEF StoresInv, LineageStored, Loadable, ReturnedIsIndexed
  <2>6. QED
    BY <2>2, <2>3, <2>4, <2>5 DEF StoresInv
<1>2. CASE StoresNext
  <2>1. PICK w \in Workers :
          \/ \E s \in Stores : Begin(w, s)
          \/ LookBatch(w) \/ LookArtifact(w) \/ WriteData(w) \/ WriteArtifact(w) \/ WriteNode(w)
          \/ ListDirectory(w) \/ WriteIndex(w) \/ ReadJournal(w) \/ AppendEvent(w) \/ WorkerDies(w)
    BY <1>2 DEF StoresNext
  <2>2. CASE \E s \in Stores : Begin(w, s)
    BY <2>2, BeginStep
  <2>3. CASE LookBatch(w)
    BY <2>3, LookBatchStep
  <2>4. CASE LookArtifact(w)
    BY <2>4, LookArtifactStep
  <2>5. CASE WriteData(w)
    BY <2>5, WriteDataStep
  <2>6. CASE WriteArtifact(w)
    BY <2>6, WriteArtifactStep
  <2>7. CASE WriteNode(w)
    BY <2>7, WriteNodeStep
  <2>8. CASE ListDirectory(w)
    BY <2>8, ListDirectoryStep
  <2>9. CASE WriteIndex(w)
    BY <2>9, WriteIndexStep
  <2>10. CASE ReadJournal(w)
    BY <2>10, ReadJournalStep
  <2>11. CASE AppendEvent(w)
    BY <2>11, AppendEventStep
  <2>12. CASE WorkerDies(w)
    BY <2>12, WorkerDiesStep
  <2>13. QED
    BY <2>1, <2>2, <2>3, <2>4, <2>5, <2>6, <2>7, <2>8, <2>9, <2>10, <2>11, <2>12
<1>3. QED
  BY <1>1, <1>2

\* Whoever wrote, died or raced: what is stored or indexed rests on what is
\* stored, except on a batch that two persists wrote at once
\* (persist_canonical_batch and the persist functions of the other stores,
\* which take no lease).
THEOREM StoredLineage == StoresSpec => []LineageStored
<1>1. StoresInv => LineageStored
  BY DEF StoresInv
<1>2. QED
  BY <1>1, StoresStart, StoresStep, PTL DEF StoresSpec

\* What a persist has returned is stored, and indexed or journalled, in every
\* store in which no two persists overlapped, and always in the graph, which
\* is written under the lease.
THEOREM ReturnedStays == StoresSpec => []ReturnedIsIndexed
<1>1. StoresInv => ReturnedIsIndexed
  BY DEF StoresInv
<1>2. QED
  BY <1>1, StoresStart, StoresStep, PTL DEF StoresSpec

-----------------------------------------------------------------------------
(* What a replay finds, for every stream: induction over its records.       *)

\* Induction, as the least number a set of numbers has.
LEMMA FirstNumber ==
  ASSUME NEW S \in SUBSET Nat, S # {}
  PROVE  \E m \in S : \A k \in S : ~ (k < m)
<1>1. IsWellFoundedOn(OpToRel(<, Nat), Nat)
  BY NatLessThanWellFounded
<1>2. PICK R : R = OpToRel(<, Nat)
  OBVIOUS
<1>3. \E m \in S : \A k \in S : <<k, m>> \notin R
  BY <1>1, <1>2, WFMin
<1>4. \A k, m \in S : k < m => <<k, m>> \in R
  BY <1>2 DEF OpToRel
<1>5. QED
  BY <1>3, <1>4

LEMMA Inductive ==
  ASSUME NEW S, 0 \in S, \A n \in Nat : n \in S => n + 1 \in S
  PROVE  Nat \subseteq S
<1>1. SUFFICES ASSUME Nat \ S # {} PROVE FALSE
  OBVIOUS
<1>2. PICK m \in Nat \ S : \A k \in Nat \ S : ~ (k < m)
  BY <1>1, FirstNumber
<1>3. m # 0 /\ m - 1 \in Nat /\ m - 1 < m
  BY <1>2
<1>4. m - 1 \in S
  BY <1>2, <1>3
<1>5. (m - 1) + 1 = m
  BY <1>2
<1>6. QED
  BY <1>2, <1>3, <1>4, <1>5

LEMMA Largest ==
  \A k \in Nat : \A s \in SUBSET (1..(k + 1)) : k + 1 \in s => Max(s) = k + 1
<1> SUFFICES ASSUME NEW k \in Nat, NEW s \in SUBSET (1..(k + 1)), k + 1 \in s
             PROVE  Max(s) = k + 1
  OBVIOUS
<1>1. \A x \in s : (\A y \in s : x >= y) <=> x = k + 1
  OBVIOUS
<1>2. QED
  BY <1>1 DEF Max

ReplayRow(g, s, ms) == IF s = {} THEN Unread ELSE ReplayRecord(g[s \ {Max(s)}], ms[Max(s)])

LEMMA ReplayTable ==
  ASSUME NEW ms
  PROVE  \A n \in Nat : \E g : g = [s \in SUBSET (1..n) |-> ReplayRow(g, s, ms)]
<1> DEFINE S == {n \in Nat : \E g : g = [s \in SUBSET (1..n) |-> ReplayRow(g, s, ms)]}
<1>1. 0 \in S
  <2>1. PICK g : g = [s \in SUBSET (1..0) |-> Unread]
    OBVIOUS
  <2>2. \A s \in SUBSET (1..0) : ReplayRow(g, s, ms) = Unread
    BY DEF ReplayRow
  <2>3. g = [s \in SUBSET (1..0) |-> ReplayRow(g, s, ms)]
    BY <2>1, <2>2
  <2>4. QED
    BY <2>3
<1>2. ASSUME NEW n \in Nat, n \in S PROVE n + 1 \in S
  <2>1. PICK h : h = [s \in SUBSET (1..n) |-> ReplayRow(h, s, ms)]
    BY <1>2
  <2>2. PICK g : g = [s \in SUBSET (1..(n + 1)) |->
                        IF n + 1 \in s THEN ReplayRecord(h[s \ {n + 1}], ms[n + 1]) ELSE h[s]]
    OBVIOUS
  <2>3. \A s \in SUBSET (1..(n + 1)) : n + 1 \notin s => s \in SUBSET (1..n)
    OBVIOUS
  <2>4. \A s \in SUBSET (1..n) : s \in SUBSET (1..(n + 1)) /\ n + 1 \notin s /\ g[s] = h[s]
    BY <2>2
  <2>5. ASSUME NEW s \in SUBSET (1..(n + 1)) PROVE g[s] = ReplayRow(g, s, ms)
    <3>1. CASE n + 1 \in s
      <4>1. Max(s) = n + 1 /\ s # {}
        BY <3>1, Largest
      <4>2. s \ {n + 1} \in SUBSET (1..n)
        OBVIOUS
      <4>3. g[s \ {n + 1}] = h[s \ {n + 1}]
        BY <2>4, <4>2
      <4>4. g[s] = ReplayRecord(h[s \ {n + 1}], ms[n + 1])
        BY <2>2, <3>1
      <4>5. QED
        BY <4>1, <4>3, <4>4 DEF ReplayRow
    <3>2. CASE n + 1 \notin s
      <4>1. s \in SUBSET (1..n) /\ g[s] = h[s] /\ h[s] = ReplayRow(h, s, ms)
        BY <2>1, <2>3, <2>4, <3>2
      <4>2. g[s \ {Max(s)}] = h[s \ {Max(s)}]
        <5>1. s \ {Max(s)} \in SUBSET (1..n)
          BY <4>1
        <5>2. QED
          BY <2>4, <5>1
      <4>3. QED
        BY <4>1, <4>2 DEF ReplayRow
    <3>3. QED
      BY <3>1, <3>2
  <2>6. g = [s \in SUBSET (1..(n + 1)) |-> ReplayRow(g, s, ms)]
    BY <2>2, <2>5
  <2>7. QED
    BY <2>6
<1>3. QED
  BY <1>1, <1>2, Inductive

\* What a replay is: record after record.
LEMMA Replaying ==
  ASSUME NEW ms, NEW n \in Nat, DOMAIN ms = 1..n
  PROVE  \E f : /\ f[0] = Unread /\ ReplayRecords(ms) = f[n]
                /\ \A i \in 1..n : f[i] = ReplayRecord(f[i - 1], ms[i])
<1>1. PICK h : h = CHOOSE g : g = [s \in SUBSET DOMAIN ms |-> ReplayRow(g, s, ms)]
  OBVIOUS
<1>2. ReplayRecords(ms) = h[DOMAIN ms]
  BY <1>1 DEF ReplayRecords, FoldLeft, MapThenFoldSet, ReplayRow
<1>3. \E g : g = [s \in SUBSET DOMAIN ms |-> ReplayRow(g, s, ms)]
  <2>1. \E g : g = [s \in SUBSET (1..n) |-> ReplayRow(g, s, ms)]
    BY ReplayTable
  <2>2. QED
    BY <2>1
<1>4. h = [s \in SUBSET DOMAIN ms |-> ReplayRow(h, s, ms)]
  BY <1>1, <1>3
<1>5. PICK f : f = [i \in 0..n |-> h[1..i]]
  OBVIOUS
<1>6. ASSUME NEW i \in 1..n PROVE f[i] = ReplayRecord(f[i - 1], ms[i])
  <2>1. /\ 1..i \in SUBSET DOMAIN ms /\ (1..i) \ {i} = 1..(i - 1)
        /\ i \in 1..i /\ i - 1 \in 0..n /\ i \in 0..n
    OBVIOUS
  <2>2. Max(1..i) = i
    <3>1. i - 1 \in Nat /\ (i - 1) + 1 = i /\ 1..i \in SUBSET (1..i)
      OBVIOUS
    <3>2. QED
      BY <2>1, <3>1, Largest
  <2>3. h[1..i] = ReplayRecord(h[1..(i - 1)], ms[i])
    BY <1>4, <2>1, <2>2 DEF ReplayRow
  <2>4. QED
    BY <1>5, <2>1, <2>3
<1>7. f[0] = Unread
  <2>1. 1..0 = {} /\ {} \in SUBSET DOMAIN ms /\ 0 \in 0..n
    OBVIOUS
  <2>2. QED
    BY <1>4, <1>5, <2>1 DEF ReplayRow
<1>8. f[n] = h[DOMAIN ms]
  BY <1>5
<1>9. QED
  BY <1>2, <1>6, <1>7, <1>8

EventRow(g, s, state, es) == IF s = {} THEN state ELSE ApplyEvent(g[s \ {Max(s)}], es[Max(s)])

EventRows(n, state, es) == \E g : g = [s \in SUBSET (1..n) |-> EventRow(g, s, state, es)]
LEMMA EventTable == \A state, es : \A n \in Nat : EventRows(n, state, es)
<1> SUFFICES ASSUME NEW state, NEW es
             PROVE  \A n \in Nat : \E g : g = [s \in SUBSET (1..n) |-> EventRow(g, s, state, es)]
  BY DEF EventRows
<1> DEFINE S == {n \in Nat : \E g : g = [s \in SUBSET (1..n) |-> EventRow(g, s, state, es)]}
<1>1. 0 \in S
  <2>1. PICK g : g = [s \in SUBSET (1..0) |-> state]
    OBVIOUS
  <2>2. \A s \in SUBSET (1..0) : EventRow(g, s, state, es) = state
    BY DEF EventRow
  <2>3. g = [s \in SUBSET (1..0) |-> EventRow(g, s, state, es)]
    BY <2>1, <2>2
  <2>4. QED
    BY <2>3
<1>2. ASSUME NEW n \in Nat, n \in S PROVE n + 1 \in S
  <2>1. PICK h : h = [s \in SUBSET (1..n) |-> EventRow(h, s, state, es)]
    BY <1>2
  <2>2. PICK g : g = [s \in SUBSET (1..(n + 1)) |->
                        IF n + 1 \in s THEN ApplyEvent(h[s \ {n + 1}], es[n + 1]) ELSE h[s]]
    OBVIOUS
  <2>3. \A s \in SUBSET (1..(n + 1)) : n + 1 \notin s => s \in SUBSET (1..n)
    OBVIOUS
  <2>4. \A s \in SUBSET (1..n) : s \in SUBSET (1..(n + 1)) /\ n + 1 \notin s /\ g[s] = h[s]
    BY <2>2
  <2>5. ASSUME NEW s \in SUBSET (1..(n + 1)) PROVE g[s] = EventRow(g, s, state, es)
    <3>1. CASE n + 1 \in s
      <4>1. Max(s) = n + 1 /\ s # {}
        BY <3>1, Largest
      <4>2. s \ {n + 1} \in SUBSET (1..n)
        OBVIOUS
      <4>3. g[s \ {n + 1}] = h[s \ {n + 1}]
        BY <2>4, <4>2
      <4>4. g[s] = ApplyEvent(h[s \ {n + 1}], es[n + 1])
        BY <2>2, <3>1
      <4>5. QED
        BY <4>1, <4>3, <4>4 DEF EventRow
    <3>2. CASE n + 1 \notin s
      <4>1. s \in SUBSET (1..n) /\ g[s] = h[s] /\ h[s] = EventRow(h, s, state, es)
        BY <2>1, <2>3, <2>4, <3>2
      <4>2. g[s \ {Max(s)}] = h[s \ {Max(s)}]
        <5>1. s \ {Max(s)} \in SUBSET (1..n)
          BY <4>1
        <5>2. QED
          BY <2>4, <5>1
      <4>3. QED
        BY <4>1, <4>2 DEF EventRow
    <3>3. QED
      BY <3>1, <3>2
  <2>6. g = [s \in SUBSET (1..(n + 1)) |-> EventRow(g, s, state, es)]
    BY <2>2, <2>5
  <2>7. QED
    BY <2>6
<1>3. QED
  BY <1>1, <1>2, Inductive


Fields == DOMAIN Unread
SameEvidence(s, t) ==
  /\ DOMAIN s = Fields /\ s.identities = t.identities /\ s.last = t.last /\ s.latest = t.latest
  /\ s.gaps = t.gaps /\ s.disorder = t.disorder /\ s.duplicates = t.duplicates

LEMMA FieldsAre ==
  Fields = {"book", "identities", "last", "latest", "gaps", "disorder", "channels", "duplicates",
            "snapshots", "updates", "error"}
BY DEF Fields, Unread

LEMMA OneEvent ==
  ASSUME NEW s, NEW t, NEW e, SameEvidence(s, t)
  PROVE  SameEvidence(ApplyEvent(s, e), t)
BY FieldsAre DEF SameEvidence, ApplyEvent

\* The events of a message change the book, not the evidence about the sequence.
LEMMA EventsKeepEvidence ==
  ASSUME NEW state, DOMAIN state = Fields, NEW es, NEW n \in Nat, DOMAIN es = 1..n
  PROVE  SameEvidence(FoldLeft(ApplyEvent, state, es), state)
<1>1. PICK h : h = CHOOSE g : g = [s \in SUBSET DOMAIN es |-> EventRow(g, s, state, es)]
  OBVIOUS
<1>2. FoldLeft(ApplyEvent, state, es) = h[DOMAIN es]
  BY <1>1 DEF FoldLeft, MapThenFoldSet, EventRow
<1>3. \E g : g = [s \in SUBSET DOMAIN es |-> EventRow(g, s, state, es)]
  <2>1. EventRows(n, state, es)
    BY EventTable
  <2>2. QED
    BY <2>1 DEF EventRows
<1>4. h = [s \in SUBSET DOMAIN es |-> EventRow(h, s, state, es)]
  BY <1>1, <1>3
<1> DEFINE S == {i \in Nat : i <= n => SameEvidence(h[1..i], state)}
<1>5. 0 \in S
  <2>1. 1..0 = {} /\ {} \in SUBSET DOMAIN es
    OBVIOUS
  <2>2. h[1..0] = state
    BY <1>4, <2>1 DEF EventRow
  <2>3. QED
    BY <2>2 DEF SameEvidence
<1>6. ASSUME NEW i \in Nat, i \in S PROVE i + 1 \in S
  <2> SUFFICES ASSUME i + 1 <= n PROVE SameEvidence(h[1..(i + 1)], state)
    OBVIOUS
  <2>1. SameEvidence(h[1..i], state)
    BY <1>6
  <2>2. /\ 1..(i + 1) \in SUBSET DOMAIN es /\ (1..(i + 1)) \ {i + 1} = 1..i
        /\ i + 1 \in 1..(i + 1) /\ 1..(i + 1) \in SUBSET (1..(i + 1))
    OBVIOUS
  <2>3. Max(1..(i + 1)) = i + 1
    BY <2>2, Largest
  <2>4. h[1..(i + 1)] = ApplyEvent(h[1..i], es[i + 1])
    BY <1>4, <2>2, <2>3 DEF EventRow
  <2>5. QED
    BY <2>1, <2>4, OneEvent
<1>7. n \in S
  BY <1>5, <1>6, Inductive
<1>8. QED
  BY <1>2, <1>7

WellFormed(m) ==
  /\ m.seq \in Int /\ m.at \in Int
  /\ Len(m.events) \in Nat /\ DOMAIN m.events = 1..Len(m.events)

Marked(state, m) ==
  [state EXCEPT
     !.identities = [s \in DOMAIN @ \cup {m.seq} |-> IF s = m.seq THEN m ELSE @[s]],
     !.channels = @ \cup {LogicalChannel(m.channel)},
     !.gaps = @ \cup Gap(state, m.seq),
     !.disorder = @ \cup Disorder(state, m.seq),
     !.last = Later(state.last, m.seq),
     !.latest = Later(@, m.at)]

LEMMA Marks ==
  ASSUME NEW s, NEW m, DOMAIN s = Fields
  PROVE  /\ DOMAIN Marked(s, m) = Fields
         /\ DOMAIN Marked(s, m).identities = DOMAIN s.identities \cup {m.seq}
         /\ Marked(s, m).last = Later(s.last, m.seq) /\ Marked(s, m).latest = Later(s.latest, m.at)
         /\ Marked(s, m).gaps = s.gaps \cup Gap(s, m.seq)
         /\ Marked(s, m).disorder = s.disorder \cup Disorder(s, m.seq)
         /\ Marked(s, m).duplicates = s.duplicates /\ Marked(s, m).book = s.book
BY FieldsAre DEF Marked

\* One more record.
LEMMA OneRecord ==
  ASSUME NEW s, NEW m, DOMAIN s = Fields, WellFormed(m), NEW t, t = ReplayRecord(s, m)
  PROVE  /\ DOMAIN t = Fields
         /\ m.seq \in DOMAIN s.identities =>
              /\ t.identities = s.identities /\ t.last = s.last /\ t.latest = s.latest
              /\ t.gaps = s.gaps /\ t.disorder = s.disorder
              /\ t.duplicates = s.duplicates + 1 /\ t.book = s.book
         /\ m.seq \notin DOMAIN s.identities =>
              /\ DOMAIN t.identities = DOMAIN s.identities \cup {m.seq}
              /\ t.last = Later(s.last, m.seq) /\ t.latest = Later(s.latest, m.at)
              /\ t.gaps = s.gaps \cup Gap(s, m.seq) /\ t.disorder = s.disorder \cup Disorder(s, m.seq)
              /\ t.duplicates = s.duplicates
<1>1. CASE m.seq \in DOMAIN s.identities
  <2>1. t = [s EXCEPT !.duplicates = @ + 1, !.error = @ \/ s.identities[m.seq] # m]
    BY <1>1 DEF ReplayRecord
  <2>2. QED
    BY <1>1, <2>1, FieldsAre
<1>2. CASE m.seq \notin DOMAIN s.identities
  <2>1. t = IF LogicalChannel(m.channel) = "level2" THEN FoldLeft(ApplyEvent, Marked(s, m), m.events)
            ELSE Marked(s, m)
    BY <1>2 DEF ReplayRecord, Marked
  <2>2. DOMAIN Marked(s, m) = Fields
    BY Marks
  <2>3. SameEvidence(FoldLeft(ApplyEvent, Marked(s, m), m.events), Marked(s, m))
    BY <2>2, EventsKeepEvidence DEF WellFormed
  <2>4. SameEvidence(t, Marked(s, m))
    BY <2>1, <2>2, <2>3 DEF SameEvidence
  <2>5. QED
    BY <1>2, <2>4, Marks DEF SameEvidence
<1>3. QED
  BY <1>1, <1>2

Numbers(ms) == {ms[i].seq : i \in DOMAIN ms}

\* What the replay of the first i records has seen.
Evident(state, seen) ==
  /\ DOMAIN state = Fields /\ DOMAIN state.identities = seen
  /\ state.latest \in Int \cup {Absent}
  /\ IF seen = {} THEN state.last = Absent
     ELSE state.last \in seen /\ \A q \in seen : q <= state.last
  /\ (state.gaps = {} /\ state.disorder = {} /\ seen # {}) => \E a \in seen : seen = a..state.last

LEMMA OneRecordSeen ==
  ASSUME NEW s, NEW seen \in SUBSET Int, Evident(s, seen), NEW m, WellFormed(m)
  PROVE  Evident(ReplayRecord(s, m), seen \cup {m.seq})
<1> PICK t : t = ReplayRecord(s, m)
  OBVIOUS
<1>1. /\ DOMAIN s = Fields /\ DOMAIN s.identities = seen /\ m.seq \in Int /\ m.at \in Int
  BY DEF Evident, WellFormed
<1>2. CASE m.seq \in seen
  <2>1. /\ DOMAIN t = Fields /\ t.identities = s.identities /\ t.last = s.last /\ t.latest = s.latest
        /\ t.gaps = s.gaps /\ t.disorder = s.disorder /\ seen \cup {m.seq} = seen
    BY <1>1, <1>2, OneRecord
  <2>2. QED
    BY <1>1, <2>1 DEF Evident
<1>3. CASE m.seq \notin seen
  <2>1. /\ DOMAIN t = Fields /\ DOMAIN t.identities = seen \cup {m.seq}
        /\ t.last = Later(s.last, m.seq) /\ t.latest = Later(s.latest, m.at)
        /\ t.gaps = s.gaps \cup Gap(s, m.seq) /\ t.disorder = s.disorder \cup Disorder(s, m.seq)
    BY <1>1, <1>3, OneRecord
  <2>2. t.latest \in Int \cup {Absent}
    BY <1>1, <2>1 DEF Evident, Later
  <2>3. CASE seen = {}
    <3>1. t.last = m.seq /\ seen \cup {m.seq} = {m.seq} /\ {m.seq} = m.seq..m.seq
      BY <1>1, <2>1, <2>3 DEF Evident, Later
    <3>2. QED
      BY <1>1, <2>1, <2>2, <3>1 DEF Evident
  <2>4. CASE seen # {}
    <3>1. s.last \in seen /\ s.last \in Int /\ s.last # Absent /\ \A q \in seen : q <= s.last
      BY <2>4, AbsentIsNoTime DEF Evident
    <3>2. t.last \in seen \cup {m.seq} /\ \A q \in seen \cup {m.seq} : q <= t.last
      BY <1>1, <2>1, <3>1 DEF Later
    <3>3. ASSUME t.gaps = {}, t.disorder = {} PROVE \E a \in seen \cup {m.seq} : seen \cup {m.seq} = a..t.last
      <4>1. s.gaps = {} /\ s.disorder = {} /\ Gap(s, m.seq) = {} /\ Disorder(s, m.seq) = {}
        BY <2>1, <3>3
      <4>2. ~ (m.seq > s.last + 1) /\ ~ (m.seq < s.last)
        BY <3>1, <4>1 DEF Gap, Disorder
      <4>3. m.seq = s.last + 1
        BY <1>1, <1>3, <3>1, <4>2
      <4>4. PICK a \in seen : seen = a..s.last
        BY <2>4, <4>1 DEF Evident
      <4>5. t.last = s.last + 1
        BY <2>1, <3>1, <4>3 DEF Later
      <4>6. a \in Int /\ a <= s.last
        BY <3>1, <4>4
      <4>7. seen \cup {m.seq} = a..t.last
        BY <3>1, <4>3, <4>4, <4>5, <4>6
      <4>8. QED
        BY <4>7
    <3>4. QED
      BY <2>1, <2>2, <3>2, <3>3 DEF Evident
  <2>5. QED
    BY <2>3, <2>4
<1>4. QED
  BY <1>2, <1>3

WellFormedStream(ms) ==
  /\ Len(ms) \in Nat /\ DOMAIN ms = 1..Len(ms)
  /\ \A i \in DOMAIN ms : WellFormed(ms[i])

\* The replay of a stream, stage by stage.
Seen(ms, i) == {ms[k].seq : k \in 1..i}
Replays(f, ms) ==
  /\ f[0] = Unread /\ ReplayRecords(ms) = f[Len(ms)]
  /\ \A i \in 1..Len(ms) : f[i] = ReplayRecord(f[i - 1], ms[i])
  /\ \A i \in 0..Len(ms) : Evident(f[i], Seen(ms, i)) /\ Seen(ms, i) \in SUBSET Int

LEMMA ReplayStages ==
  ASSUME NEW ms, WellFormedStream(ms)
  PROVE  \E f : Replays(f, ms)
<1> PICK n \in Nat : n = Len(ms) /\ DOMAIN ms = 1..n /\ \A i \in 1..n : WellFormed(ms[i])
  BY DEF WellFormedStream
<1>1. PICK f : /\ f[0] = Unread /\ ReplayRecords(ms) = f[n]
               /\ \A i \in 1..n : f[i] = ReplayRecord(f[i - 1], ms[i])
  BY Replaying
<1> DEFINE S == {i \in Nat : i <= n => Evident(f[i], Seen(ms, i))}
<1>2. 0 \in S
  <2>1. Seen(ms, 0) = {}
    BY DEF Seen
  <2>2. Evident(Unread, {})
    BY DEF Evident, Unread, Fields
  <2>3. QED
    BY <1>1, <2>1, <2>2
<1>3. \A i \in 0..n : Seen(ms, i) \in SUBSET Int
  BY DEF Seen, WellFormed
<1>4. ASSUME NEW i \in Nat, i \in S PROVE i + 1 \in S
  <2> SUFFICES ASSUME i + 1 <= n PROVE Evident(f[i + 1], Seen(ms, i + 1))
    OBVIOUS
  <2>1. /\ i + 1 \in 1..n /\ (i + 1) - 1 = i /\ i <= n
        /\ 1..(i + 1) = (1..i) \cup {i + 1}
    OBVIOUS
  <2>2. f[i + 1] = ReplayRecord(f[i], ms[i + 1]) /\ WellFormed(ms[i + 1]) /\ Evident(f[i], Seen(ms, i))
    BY <1>1, <1>4, <2>1
  <2>3. Seen(ms, i + 1) = Seen(ms, i) \cup {ms[i + 1].seq}
    BY <2>1 DEF Seen
  <2>4. Seen(ms, i) \in SUBSET Int
    BY <1>3, <2>1
  <2>5. QED
    BY <2>2, <2>3, <2>4, OneRecordSeen
<1>5. Nat \subseteq S
  <2> HIDE DEF S
  <2>1. QED
    BY <1>2, <1>4, Inductive
<1>6. \A i \in 0..n : Evident(f[i], Seen(ms, i))
  BY <1>5
<1>7. QED
  BY <1>1, <1>3, <1>6 DEF Replays

LEMMA ReplayEvidence ==
  ASSUME NEW ms, WellFormedStream(ms)
  PROVE  Evident(ReplayRecords(ms), Numbers(ms))
<1>1. PICK f : Replays(f, ms)
  BY ReplayStages
<1>2. Len(ms) \in Nat /\ Seen(ms, Len(ms)) = Numbers(ms)
  BY DEF Seen, Numbers, WellFormedStream
<1>3. QED
  BY <1>1, <1>2 DEF Replays

\* A stream whose replay reports neither a gap nor disorder has every number
\* from its first one to its last (sequence_integrity).
THEOREM QualifiedStreamIsWhole ==
  ASSUME NEW ms, WellFormedStream(ms), SequenceQualified(ReplayRecords(ms))
  PROVE  \E a, b \in Int : Numbers(ms) = a..b
<1>1. Evident(ReplayRecords(ms), Numbers(ms))
  BY ReplayEvidence
<1>2. Numbers(ms) # {} /\ Numbers(ms) \subseteq Int
  BY <1>1 DEF SequenceQualified, Evident, Numbers, WellFormedStream, WellFormed
<1>3. QED
  BY <1>1, <1>2 DEF SequenceQualified, Evident

-----------------------------------------------------------------------------
(* From the journal of a stream to a decision.                              *)

Line == [message : Messages, received : Nat]
Summarized(records) == records # <<>> /\ ~ Summary(records).error
Begins(s, t) == Len(s) <= Len(t) /\ \A i \in DOMAIN s : s[i] = t[i]

EvidenceTypeOK ==
  /\ lines \in Seq(Line) /\ bundle \in Seq(Line) \cup {Absent} /\ manifest \in Seq(Line) \cup {Absent}
  /\ writer \in [at : {"idle", "bundle", "manifest", "observe", "index"}, records : Seq(Line)]
  /\ resumed \in BOOLEAN /\ now \in Nat
  /\ DOMAIN joiner = Joiners /\ \A j \in Joiners : DOMAIN joiner[j] = {"at", "decision"}

\* The bundle and the manifest hold a beginning of the journal, and all of it
\* while a finalization is under way or the journal was not taken up again.
BundleInv ==
  /\ bundle # Absent => Summarized(bundle) /\ Begins(bundle, lines) /\ (~ resumed => bundle = lines)
  /\ manifest # Absent => bundle # Absent /\ (~ resumed => manifest = bundle)
  /\ writer.at # "idle" => writer.records = lines /\ Summarized(lines)
  /\ writer.at \in {"manifest", "observe", "index"} => bundle = lines
  /\ writer.at \in {"observe", "index"} => manifest = lines

\* The observation was made of a beginning of the bundle.
ObservationInv ==
  /\ observation # Absent =>
       /\ observation.content \in Seq(Line) /\ observation.content # <<>>
       /\ observation = ObservationOf(observation.content)
       /\ bundle # Absent /\ manifest # Absent /\ Begins(observation.content, bundle)
       /\ ~ resumed => observation.content = bundle
  /\ index # {} => observation # Absent

\* A decision that was qualified when it was made, by the one observation.
Sound(d) ==
  /\ observation # Absent
  /\ d = Decision(d.observed_at, d.freshness_policy)
  /\ d.observed_at \in Nat /\ d.freshness_policy \in Policies
  /\ Qualifies(observation, d.observed_at, d.freshness_policy)
JoinInv ==
  /\ \A d \in decisions : Sound(d)
  /\ \A d, e \in decisions : d = e
  /\ \A j \in Joiners : joiner[j].at = "record" => Sound(joiner[j].decision)

MarketInv == EvidenceTypeOK /\ BundleInv /\ ObservationInv /\ JoinInv

LEMMA WriterSteps ==
  /\ <<>> \in Seq(Line)
  /\ \A a \in {"idle", "bundle", "manifest", "observe", "index"}, r \in Seq(Line) :
       [at |-> a, records |-> r] \in [at : {"idle", "bundle", "manifest", "observe", "index"}, records : Seq(Line)]
OBVIOUS

LEMMA MarketStart == EvidenceInit => MarketInv
<1> SUFFICES ASSUME EvidenceInit PROVE MarketInv
  OBVIOUS
<1>1. EvidenceTypeOK
  <2>1. writer \in [at : {"idle", "bundle", "manifest", "observe", "index"}, records : Seq(Line)]
    BY WriterSteps DEF EvidenceInit
  <2>2. DOMAIN joiner = Joiners /\ \A j \in Joiners : DOMAIN joiner[j] = {"at", "decision"}
    BY DEF EvidenceInit
  <2>3. QED
    BY <2>1, <2>2 DEF EvidenceInit, EvidenceTypeOK
<1>2. BundleInv /\ ObservationInv /\ JoinInv
  BY DEF EvidenceInit, BundleInv, ObservationInv, JoinInv
<1>3. QED
  BY <1>1, <1>2 DEF MarketInv

\* The observation and the decisions stay as they are.
LEMMA JoinStays ==
  ASSUME MarketInv, UNCHANGED <<observation, decisions, joiner>>
  PROVE  JoinInv'
BY DEF MarketInv, JoinInv, Sound, Decision

LEMMA IngestStep ==
  ASSUME MarketInv, NEW message \in Messages, Ingest(message)
  PROVE  MarketInv'
<1>1. /\ writer.at = "idle" /\ lines' = Append(lines, [message |-> message, received |-> now])
      /\ resumed' = (resumed \/ bundle # Absent)
      /\ UNCHANGED <<bundle, manifest, observation, index, writer, decisions, joiner, now>>
  BY DEF Ingest, joinVars
<1>2. EvidenceTypeOK /\ BundleInv /\ ObservationInv
  BY DEF MarketInv
<1>3. PICK l \in Line : l = [message |-> message, received |-> now]
  BY <1>2 DEF EvidenceTypeOK, Line
<1>4. lines' \in Seq(Line)
  BY <1>1, <1>2, <1>3 DEF EvidenceTypeOK
<1>5. EvidenceTypeOK'
  BY <1>1, <1>2, <1>4 DEF EvidenceTypeOK
<1>6. bundle # Absent => Begins(bundle, lines')
  <2>1. \A s \in Seq(Line) : Begins(s, lines) => Begins(s, lines')
    BY <1>1, <1>2, <1>3 DEF EvidenceTypeOK, Begins
  <2>2. QED
    BY <1>2, <2>1 DEF EvidenceTypeOK, BundleInv
<1>7. BundleInv'
  BY <1>1, <1>2, <1>6 DEF BundleInv
<1>8. ObservationInv'
  BY <1>1, <1>2 DEF ObservationInv
<1>9. JoinInv'
  BY <1>1, JoinStays
<1>10. QED
  BY <1>5, <1>7, <1>8, <1>9 DEF MarketInv

LEMMA FinalizeStep ==
  ASSUME MarketInv, Finalize \/ WriterDies \/ RebuildIndex
  PROVE  MarketInv'
<1>1. /\ EvidenceTypeOK /\ BundleInv /\ ObservationInv
      /\ UNCHANGED <<lines, bundle, manifest, observation, decisions, joiner, now, resumed>>
      /\ \/ writer' = [at |-> "idle", records |-> <<>>]
         \/ writer' = [at |-> "bundle", records |-> lines] /\ Summarized(lines)
      /\ index' = index \/ index' = IF observation = Absent THEN {} ELSE {"OBS"}
  BY DEF MarketInv, Finalize, WriterDies, RebuildIndex, Steps, joinVars, Summarized
<1>2. EvidenceTypeOK'
  <2>1. writer' \in [at : {"idle", "bundle", "manifest", "observe", "index"}, records : Seq(Line)]
    <3>1. <<>> \in Seq(Line) /\ lines \in Seq(Line)
      BY <1>1 DEF EvidenceTypeOK
    <3>2. QED
      BY <1>1, <3>1, WriterSteps
  <2>2. QED
    BY <1>1, <2>1 DEF EvidenceTypeOK
<1>3. BundleInv'
  BY <1>1 DEF BundleInv
<1>4. ObservationInv'
  BY <1>1 DEF ObservationInv
<1>5. JoinInv'
  BY <1>1, JoinStays
<1>6. QED
  BY <1>2, <1>3, <1>4, <1>5 DEF MarketInv

LEMMA WriteStep ==
  ASSUME MarketInv, WriteBundle \/ WriteManifest
  PROVE  MarketInv'
<1>1. /\ EvidenceTypeOK /\ BundleInv /\ ObservationInv
      /\ UNCHANGED <<lines, observation, index, decisions, joiner, now, resumed>>
      /\ lines \in Seq(Line) /\ lines # Absent /\ Summarized(lines)
      /\ bundle' = lines
      /\ \/ manifest' = manifest /\ writer' = [at |-> "manifest", records |-> lines]
         \/ manifest' = lines /\ writer' = [at |-> "observe", records |-> lines]
  <2>1. writer.at \in {"bundle", "manifest"}
    BY DEF WriteBundle, WriteManifest
  <2>2. writer.records = lines /\ Summarized(lines) /\ (writer.at = "manifest" => bundle = lines)
    BY <2>1 DEF MarketInv, BundleInv
  <2>3. lines \in Seq(Line) /\ lines # Absent
    BY AbsentIsNoJournal DEF MarketInv, EvidenceTypeOK, Line
  <2>4. QED
    BY <2>2, <2>3 DEF MarketInv, WriteBundle, WriteManifest, Steps, joinVars
<1>2. EvidenceTypeOK'
  <2>1. writer' \in [at : {"idle", "bundle", "manifest", "observe", "index"}, records : Seq(Line)]
    <3>1. <<>> \in Seq(Line) /\ lines \in Seq(Line)
      BY <1>1 DEF EvidenceTypeOK
    <3>2. QED
      BY <1>1, <3>1, WriterSteps
  <2>2. QED
    BY <1>1, <2>1 DEF EvidenceTypeOK
<1>3. BundleInv'
  <2>1. Begins(lines, lines)
    BY <1>1 DEF Begins
  <2>2. QED
    BY <1>1, <2>1 DEF BundleInv
<1>4. ObservationInv'
  <2>1. ASSUME observation # Absent PROVE Begins(observation.content, lines)
    <3>1. /\ observation.content \in Seq(Line) /\ bundle \in Seq(Line)
          /\ Begins(observation.content, bundle) /\ Begins(bundle, lines)
      BY <1>1, <2>1 DEF ObservationInv, BundleInv, EvidenceTypeOK
    <3>2. QED
      BY <1>1, <3>1 DEF Begins
  <2>2. QED
    BY <1>1, <2>1 DEF ObservationInv, BundleInv
<1>5. JoinInv'
  BY <1>1, JoinStays
<1>6. QED
  BY <1>2, <1>3, <1>4, <1>5 DEF MarketInv

LEMMA PersistStep ==
  ASSUME MarketInv, PersistObservation
  PROVE  MarketInv'
<1>1. /\ EvidenceTypeOK /\ BundleInv /\ ObservationInv /\ JoinInv
      /\ UNCHANGED <<lines, bundle, manifest, index, decisions, joiner, now, resumed>>
      /\ lines \in Seq(Line) /\ lines # Absent /\ Summarized(lines)
      /\ bundle = lines /\ manifest = lines
      /\ \/ observation = Absent /\ observation' = ObservationOf(lines)
            /\ writer' = [at |-> "index", records |-> lines]
         \/ observation # Absent /\ observation' = observation
            /\ writer' = [at |-> "idle", records |-> <<>>]
  <2>1. /\ writer.at = "observe"
        /\ \/ observation = Absent /\ observation' = ObservationOf(writer.records)
              /\ writer' = [at |-> "index", records |-> writer.records]
           \/ observation # Absent /\ observation' = observation
              /\ writer' = [at |-> "idle", records |-> <<>>]
    BY DEF PersistObservation, Steps
  <2>2. writer.records = lines /\ Summarized(lines) /\ bundle = lines /\ manifest = lines
    BY <2>1 DEF MarketInv, BundleInv
  <2>3. lines \in Seq(Line) /\ lines # Absent
    BY AbsentIsNoJournal DEF MarketInv, EvidenceTypeOK, Line
  <2>4. QED
    BY <2>1, <2>2, <2>3 DEF MarketInv, PersistObservation, joinVars
<1>2. EvidenceTypeOK'
  <2>1. writer' \in [at : {"idle", "bundle", "manifest", "observe", "index"}, records : Seq(Line)]
    <3>1. <<>> \in Seq(Line) /\ lines \in Seq(Line)
      BY <1>1 DEF EvidenceTypeOK
    <3>2. QED
      BY <1>1, <3>1, WriterSteps
  <2>2. QED
    BY <1>1, <2>1 DEF EvidenceTypeOK
<1>3. CASE observation # Absent
  <2>1. BundleInv' /\ ObservationInv'
    BY <1>1, <1>3 DEF BundleInv, ObservationInv
  <2>2. JoinInv'
    BY <1>1, <1>3, JoinStays
  <2>3. QED
    BY <1>2, <2>1, <2>2 DEF MarketInv
<1>4. CASE observation = Absent
  <2>1. ObservationOf(lines).content = lines /\ lines # <<>>
    BY <1>1 DEF ObservationOf, Summarized
  <2>2. BundleInv'
    BY <1>1, <1>4 DEF BundleInv
  <2>3. Begins(lines, lines)
    BY <1>1 DEF Begins
  <2>4. ObservationInv'
    BY <1>1, <1>4, <2>1, <2>3 DEF ObservationInv
  <2>5. JoinInv'
    BY <1>1, <1>4 DEF JoinInv, Sound
  <2>6. QED
    BY <1>2, <2>2, <2>4, <2>5 DEF MarketInv
<1>5. QED
  BY <1>3, <1>4

LEMMA TickStep ==
  ASSUME MarketInv, DiesInAppend \/ TimePasses
  PROVE  MarketInv'
<1>1. /\ UNCHANGED <<lines, bundle, manifest, observation, index, writer, decisions, joiner, resumed>>
      /\ now' = now \/ now' = now + 1
  BY DEF DiesInAppend, TimePasses, streamVars, joinVars
<1>2. EvidenceTypeOK'
  BY <1>1 DEF MarketInv, EvidenceTypeOK
<1>3. BundleInv' /\ ObservationInv'
  BY <1>1 DEF MarketInv, BundleInv, ObservationInv
<1>4. JoinInv'
  BY <1>1, JoinStays
<1>5. QED
  BY <1>2, <1>3, <1>4 DEF MarketInv

\* A step of a joiner.
LEMMA JoinerMoves ==
  ASSUME MarketInv, NEW j \in Joiners, NEW q, joiner' = [joiner EXCEPT ![j] = q],
         DOMAIN q = {"at", "decision"}, q.at = "record" => Sound(q.decision),
         UNCHANGED <<lines, bundle, manifest, observation, index, writer, resumed, now>>,
         decisions' = decisions \/ (decisions = {} /\ \E d : decisions' = {d} /\ Sound(d))
  PROVE  MarketInv'
<1>1. /\ joiner'[j] = q /\ \A i \in Joiners \ {j} : joiner'[i] = joiner[i]
      /\ DOMAIN joiner' = Joiners
  BY DEF MarketInv, EvidenceTypeOK
<1>2. EvidenceTypeOK'
  BY <1>1 DEF MarketInv, EvidenceTypeOK
<1>3. BundleInv' /\ ObservationInv'
  BY DEF MarketInv, BundleInv, ObservationInv
<1>4. \A d : Sound(d) => Sound(d)'
  BY DEF Sound, Decision
<1>5. JoinInv'
  BY <1>1, <1>4 DEF MarketInv, JoinInv
<1>6. QED
  BY <1>2, <1>3, <1>5 DEF MarketInv

LEMMA LookForJoinStep ==
  ASSUME MarketInv, NEW j \in Joiners, NEW limits \in Policies, LookForJoin(j, limits)
  PROVE  MarketInv'
<1>1. /\ observation # Absent /\ now \in Nat
      /\ UNCHANGED <<lines, bundle, manifest, observation, index, writer, resumed, now, decisions>>
  BY DEF LookForJoin, streamVars, MarketInv, EvidenceTypeOK
<1>2. PICK q : /\ joiner' = [joiner EXCEPT ![j] = q]
               /\ \/ /\ Qualifies(observation, now, limits)
                     /\ q = [at |-> "record", decision |-> Decision(now, limits)]
                  \/ \E at \in {"joined", "raised", "skipped"} : q = [at |-> at, decision |-> Absent]
  BY DEF LookForJoin, JoinerAt
<1>3. Decision(now, limits).observed_at = now /\ Decision(now, limits).freshness_policy = limits
  BY DEF Decision
<1>4. DOMAIN q = {"at", "decision"} /\ (q.at = "record" => Sound(q.decision))
  BY <1>1, <1>2, <1>3 DEF Sound
<1>5. QED
  BY <1>1, <1>2, <1>4, JoinerMoves

LEMMA RecordStep ==
  ASSUME MarketInv, NEW j \in Joiners, Record(j)
  PROVE  MarketInv'
<1>1. /\ joiner[j].at = "record" /\ Sound(joiner[j].decision) /\ DOMAIN joiner[j] = {"at", "decision"}
      /\ UNCHANGED <<lines, bundle, manifest, observation, index, writer, resumed, now>>
  BY DEF Record, streamVars, MarketInv, JoinInv, EvidenceTypeOK
<1>2. PICK at \in {"joined", "raised"} :
        /\ joiner' = [joiner EXCEPT ![j] = [joiner[j] EXCEPT !.at = at]]
        /\ decisions' = decisions \/ (decisions = {} /\ decisions' = {joiner[j].decision})
  BY DEF Record, JoinerAt
<1>3. PICK q : q = [joiner[j] EXCEPT !.at = at]
  OBVIOUS
<1>4. DOMAIN q = {"at", "decision"} /\ q.at = at
  BY <1>1, <1>3
<1>5. QED
  BY <1>1, <1>2, <1>3, <1>4, JoinerMoves

LEMMA JoinAgainStep ==
  ASSUME MarketInv, NEW j \in Joiners, JoinAgain(j) \/ JoinerDies(j)
  PROVE  MarketInv'
<1>1. /\ joiner' = [joiner EXCEPT ![j] = [at |-> "idle", decision |-> Absent]]
      /\ UNCHANGED <<lines, bundle, manifest, observation, index, writer, resumed, now, decisions>>
  BY DEF JoinAgain, JoinerDies, JoinerAt, streamVars
<1>2. PICK q : q = [at |-> "idle", decision |-> Absent]
  OBVIOUS
<1>3. DOMAIN q = {"at", "decision"} /\ q.at # "record"
  BY <1>2
<1>4. QED
  BY <1>1, <1>2, <1>3, JoinerMoves

LEMMA MarketStep == MarketInv /\ [EvidenceNext]_evidenceVars => MarketInv'
<1> SUFFICES ASSUME MarketInv, [EvidenceNext]_evidenceVars PROVE MarketInv'
  OBVIOUS
<1>1. CASE UNCHANGED evidenceVars
  <2>1. UNCHANGED <<lines, bundle, manifest, observation, index, writer, decisions, joiner, now, resumed>>
    BY <1>1 DEF evidenceVars
  <2>2. EvidenceTypeOK' /\ BundleInv' /\ ObservationInv'
    BY <2>1 DEF MarketInv, EvidenceTypeOK, BundleInv, ObservationInv
  <2>3. JoinInv'
    BY <2>1, JoinStays
  <2>4. QED
    BY <2>2, <2>3 DEF MarketInv
<1>2. CASE \E message \in Messages : Ingest(message)
  BY <1>2, IngestStep
<1>3. CASE Finalize \/ WriterDies \/ RebuildIndex
  BY <1>3, FinalizeStep
<1>4. CASE WriteBundle \/ WriteManifest
  BY <1>4, WriteStep
<1>5. CASE PersistObservation
  BY <1>5, PersistStep
<1>6. CASE DiesInAppend \/ TimePasses
  BY <1>6, TickStep
<1>7. CASE \E j \in Joiners, limits \in Policies : LookForJoin(j, limits)
  BY <1>7, LookForJoinStep
<1>8. CASE \E j \in Joiners : Record(j) \/ JoinAgain(j) \/ JoinerDies(j)
  BY <1>8, RecordStep, JoinAgainStep
<1>9. QED
  BY <1>1, <1>2, <1>3, <1>4, <1>5, <1>6, <1>7, <1>8 DEF EvidenceNext

\* The bundle and the manifest hold what the observation was made of, and more
\* only after the journal was taken up again (finalize, MarketDataStore.persist).
THEOREM ObservationIsBacked == EvidenceSpec => []BundleBacksObservation
<1>1. MarketInv => BundleBacksObservation
  <2> SUFFICES ASSUME MarketInv PROVE BundleBacksObservation
    OBVIOUS
  <2>1. ASSUME writer.at = "idle", ~ resumed PROVE ValidBundles
    <3>1. manifest # Absent => bundle = manifest /\ bundle # Absent /\ Summarized(bundle)
      BY <2>1 DEF MarketInv, BundleInv
    <3>2. QED
      BY <3>1 DEF ValidBundles, Summarized, MarketInv, ObservationInv
  <2>2. ASSUME observation # Absent PROVE IsPrefix(observation.content, bundle)
    <3>1. /\ observation.content \in Seq(Line) /\ bundle \in Seq(Line)
          /\ Begins(observation.content, bundle)
      BY <2>2 DEF MarketInv, ObservationInv, EvidenceTypeOK
    <3>2. \A s, t \in Seq(Line) : Begins(s, t) => SubSeq(s, 1, Len(s)) = SubSeq(t, 1, Len(s))
      BY DEF Begins
    <3>3. QED
      BY <3>1, <3>2 DEF IsPrefix, Begins
  <2>3. observation # Absent /\ ~ resumed => bundle = observation.content /\ manifest = observation.content
    BY DEF MarketInv, ObservationInv, BundleInv
  <2>4. QED
    BY <2>1, <2>2, <2>3 DEF BundleBacksObservation
<1>2. QED
  BY <1>1, MarketStart, MarketStep, PTL DEF EvidenceSpec

\* A journal holds a stream that can be replayed.
LEMMA JournalsAreReadable ==
  ASSUME NEW c \in Seq(Line), NEW ms, ms = MessagesOf(c)
  PROVE  /\ ms \in Seq(Messages) /\ WellFormedStream(ms)
         /\ \A i \in DOMAIN ms : ms[i].events \in Seq(BookEvent)
<1>1. Len(c) \in Nat /\ DOMAIN c = 1..Len(c) /\ \A i \in DOMAIN c : c[i] \in Line
  OBVIOUS
<1>2. DOMAIN ms = DOMAIN c /\ \A i \in DOMAIN c : ms[i] = c[i].message
  BY DEF MessagesOf
<1>3. \A i \in DOMAIN ms : ms[i] \in Messages
  BY <1>1, <1>2 DEF Line
<1>4. ms \in Seq(Messages)
  BY <1>1, <1>3 DEF MessagesOf
<1>5. \A i \in DOMAIN ms : ms[i].seq \in Int /\ ms[i].at \in Int /\ ms[i].events \in Seq(BookEvent)
  BY <1>3, MessagesAssumption
<1>6. \A es \in Seq(BookEvent) : Len(es) \in Nat /\ DOMAIN es = 1..Len(es)
  OBVIOUS
<1>7. \A i \in DOMAIN ms : WellFormed(ms[i])
  BY <1>5, <1>6 DEF WellFormed
<1>8. QED
  BY <1>4, <1>5, <1>7 DEF WellFormedStream

\* What an observation was made of is a stream that can be replayed.
LEMMA ContentReplays ==
  ASSUME MarketInv, observation # Absent
  PROVE  /\ WellFormedStream(MessagesOf(observation.content))
         /\ observation.summary = ReplayRecords(MessagesOf(observation.content))
         /\ observation.source = observation.summary.latest
         /\ observation.source \in Int \cup {Absent}
<1>1. observation.content \in Seq(Line) /\ observation = ObservationOf(observation.content)
  BY DEF MarketInv, ObservationInv
<1>2. PICK c, ms : c = observation.content /\ ms = MessagesOf(c)
  OBVIOUS
<1>3. WellFormedStream(ms)
  BY <1>1, <1>2, JournalsAreReadable
<1>4. /\ observation.summary = ReplayRecords(ms)
      /\ observation.source = observation.summary.latest
  BY <1>1, <1>2 DEF ObservationOf, Summary
<1>5. observation.source \in Int \cup {Absent}
  BY <1>3, <1>4, ReplayEvidence DEF Evident
<1>6. QED
  BY <1>2, <1>3, <1>4, <1>5

LEMMA GreatestOf ==
  ASSUME NEW V \in SUBSET Nat, V # {}, NEW n \in Nat, \A x \in V : x <= n
  PROVE  \E x \in V : \A y \in V : x >= y
<1>1. PICK D : D = {n - x : x \in V}
  OBVIOUS
<1>2. D \in SUBSET Nat /\ D # {}
  <2>1. \A x \in V : x \in Nat /\ n - x \in Nat
    OBVIOUS
  <2>2. \A d \in D : d \in Nat
    BY <1>1, <2>1
  <2>3. D # {}
    BY <1>1
  <2>4. QED
    BY <2>2, <2>3
<1>3. PICK d \in D : \A k \in D : ~ (k < d)
  BY <1>2, FirstNumber
<1>4. PICK x \in V : d = n - x
  BY <1>1, <1>3
<1>5. \A y \in V : x >= y
  <2> TAKE y \in V
  <2>1. n - y \in D
    BY <1>1
  <2>2. ~ (n - y < n - x)
    BY <1>3, <1>4, <2>1
  <2>3. QED
    BY <2>2
<1>6. QED
  BY <1>5

\* The numbers of a sequence have an upper bound, and a sequence that is not
\* empty has a greatest one.
LEMMA SequencesAreBounded ==
  ASSUME NEW n \in Nat, NEW r \in [1..n -> Nat]
  PROVE  \E b \in Nat : \A i \in 1..n : r[i] <= b
<1>1. PICK S : S = {k \in Nat : \E b \in Nat : \A i \in 1..n : i <= k => r[i] <= b}
  OBVIOUS
<1>2. 0 \in S
  BY <1>1
<1>3. ASSUME NEW k \in Nat, k \in S PROVE k + 1 \in S
  <2>1. PICK b \in Nat : \A i \in 1..n : i <= k => r[i] <= b
    BY <1>1, <1>3
  <2>2. CASE k + 1 \in 1..n
    <3>1. PICK c \in Nat : b <= c /\ r[k + 1] <= c
      <4>1. r[k + 1] \in Nat
        BY <2>2
      <4>2. PICK c \in Nat : c = b + r[k + 1]
        BY <4>1
      <4>3. b <= c /\ r[k + 1] <= c
        BY <4>1, <4>2
      <4>4. QED
        BY <4>3
    <3>2. ASSUME NEW i \in 1..n, i <= k + 1 PROVE r[i] <= c
      <4>1. r[i] \in Nat
        OBVIOUS
      <4>2. CASE i = k + 1
        BY <3>1, <4>2
      <4>3. CASE i <= k
        BY <2>1, <3>1, <4>1, <4>3
      <4>4. QED
        BY <3>2, <4>2, <4>3
    <3>3. QED
      BY <1>1, <3>2
  <2>3. CASE k + 1 \notin 1..n
    <3>1. \A i \in 1..n : i <= k + 1 => r[i] <= b
      BY <2>1, <2>3
    <3>2. QED
      BY <1>1, <3>1
  <2>4. QED
    BY <2>2, <2>3
<1>4. n \in S
  <2>1. Nat \subseteq S
    BY <1>2, <1>3, Inductive
  <2>2. QED
    BY <2>1
<1>5. PICK b \in Nat : \A i \in 1..n : i <= n => r[i] <= b
  BY <1>1, <1>4
<1>6. QED
  BY <1>5

\* The newest line an observation was made of was received at some time.
LEMMA ReceivedIsTime ==
  ASSUME NEW c \in Seq(Line), c # <<>>
  PROVE  ObservationOf(c).received \in Nat
<1>1. PICK n \in Nat : n = Len(c) /\ DOMAIN c = 1..n /\ n # 0
  OBVIOUS
<1>2. \A i \in 1..n : c[i].received \in Nat
  <2>1. \A i \in 1..n : c[i] \in Line
    BY <1>1
  <2>2. \A l \in Line : l.received \in Nat
    BY DEF Line
  <2>3. QED
    BY <2>1, <2>2
<1>3. PICK r : r = [i \in 1..n |-> c[i].received]
  OBVIOUS
<1>4. r \in [1..n -> Nat]
  BY <1>2, <1>3
<1>5. PICK b \in Nat : \A i \in 1..n : r[i] <= b
  BY <1>4, SequencesAreBounded
<1>6. PICK V : V = {c[i].received : i \in DOMAIN c}
  OBVIOUS
<1>7. V \in SUBSET Nat /\ V # {} /\ \A x \in V : x <= b
  BY <1>1, <1>2, <1>3, <1>5, <1>6
<1>8. \E x \in V : \A y \in V : x >= y
  BY <1>7, GreatestOf
<1>9. Max(V) \in V
  BY <1>8 DEF Max
<1>10. QED
  BY <1>6, <1>7, <1>9 DEF ObservationOf

\* What is fresh under limits no laxer than others is fresh under those.
LEMMA FreshEnough ==
  ASSUME NEW source \in Int, NEW received \in Int, NEW at \in Int,
         NEW a \in Policies \cup {AuditLimits}, NEW b \in Policies \cup {AuditLimits},
         NoLaxer(a, b), Classify(source, received, at, a, 1) = "VALID"
  PROVE  Classify(source, received, at, b, 1) = "VALID"
<1>1. a.event \in Int /\ a.transport \in Int /\ b.event \in Int /\ b.transport \in Int
  BY LimitsAreTimes
<1>2. /\ ~ (at - source > a.event) /\ ~ (received - source > a.transport)
      /\ ~ (source = Absent \/ received = Absent)
      /\ ~ (source - received > 1 \/ received > at \/ at - source < -1)
  BY DEF Classify
<1>3. ~ (at - source > b.event) /\ ~ (received - source > b.transport)
  BY <1>1, <1>2 DEF NoLaxer
<1>4. QED
  BY <1>2, <1>3 DEF Classify

\* One window has one decision, bound to the observation, neutral and made before
\* it can be acted on, of evidence that was fresh then under the limits it
\* records; it passes every later audit, whose limits are fixed, when its own are
\* no laxer (join_observer_window, record_qualified_shadow_decision,
\* qualification_snapshot).
THEOREM OneBoundDecision == EvidenceSpec => []BondsHold
<1>1. MarketInv => BondsHold
  <2> SUFFICES ASSUME MarketInv PROVE BondsHold
    OBVIOUS
  <2>1. ASSUME NEW d \in decisions
        PROVE  /\ d.evidence # <<>> /\ d.target = 0
               /\ d.evidence = observation.content /\ d.actionable_at > d.observed_at
               /\ Qualifies(observation, d.observed_at, d.freshness_policy)
               /\ d.observed_at - observation.source <= d.freshness_policy.event
               /\ NoLaxer(d.freshness_policy, AuditLimits) => Audit(d)
    <3>1. Sound(d) /\ observation # Absent
      BY DEF MarketInv, JoinInv, Sound
    <3>2. /\ d.evidence = observation.content /\ d.target = 0
          /\ d.actionable_at = d.observed_at + Delay /\ d.observed_at \in Nat
          /\ Qualifies(observation, d.observed_at, d.freshness_policy)
          /\ d.freshness_policy \in Policies
      BY <3>1 DEF Sound, Decision
    <3>3. d.evidence # <<>>
      BY <3>1, <3>2 DEF MarketInv, ObservationInv
    <3>4. Classify(observation.source, observation.received, d.observed_at, d.freshness_policy, 1) = "VALID"
      BY <3>2 DEF Qualifies
    <3>5. observation.source # Absent /\ ~ (d.observed_at - observation.source > d.freshness_policy.event)
      BY <3>4 DEF Classify
    <3>6. observation.source \in Int
      BY <3>1, <3>5, ContentReplays
    <3>7. d.observed_at - observation.source <= d.freshness_policy.event
      BY <3>2, <3>5, <3>6, LimitsAreTimes
    <3>8. d.actionable_at > d.observed_at
      BY <3>2, DelayIsPositive
    <3>9. observation.received \in Nat
      BY <3>1, ReceivedIsTime DEF MarketInv, ObservationInv
    <3>10. ASSUME NoLaxer(d.freshness_policy, AuditLimits) PROVE Audit(d)
      <4>1. Classify(observation.source, observation.received, d.observed_at, AuditLimits, 1) = "VALID"
        BY <3>2, <3>4, <3>6, <3>9, <3>10, FreshEnough
      <4>2. Qualifies(observation, d.observed_at, AuditLimits)
        BY <3>2, <4>1 DEF Qualifies
      <4>3. QED
        BY <3>1, <3>2, <4>2 DEF Audit
    <3>11. QED
      BY <3>2, <3>3, <3>7, <3>8, <3>10
  <2>2. Cardinality(decisions) <= 1
    <3>1. decisions = {} \/ \E d : decisions = {d}
      BY DEF MarketInv, JoinInv
    <3>2. Cardinality({}) = 0 /\ \A d : Cardinality({d}) = 1
      BY FS_EmptySet, FS_Singleton
    <3>3. CASE decisions = {}
      BY <3>2, <3>3
    <3>4. CASE \E d : decisions = {d}
      <4>1. PICK d : decisions = {d}
        BY <3>4
      <4>2. Cardinality(decisions) = 1
        BY <3>2, <4>1
      <4>3. QED
        BY <4>2
    <3>5. QED
      BY <3>1, <3>3, <3>4
  <2>3. QED
    BY <2>1, <2>2 DEF BondsHold, ValidShadowState
<1>2. QED
  BY <1>1, MarketStart, MarketStep, PTL DEF EvidenceSpec

\* A decision rests on a stream no message of which is missing between the
\* first number and the last (sequence_integrity, qualify_observation).
WholeStreams == \A d \in decisions : \E a, b \in Int : Numbers(MessagesOf(d.evidence)) = a..b
THEOREM DecisionsRestOnWholeStreams == EvidenceSpec => []WholeStreams
<1>1. MarketInv => WholeStreams
  <2> SUFFICES ASSUME MarketInv, NEW d \in decisions
               PROVE  \E a, b \in Int : Numbers(MessagesOf(d.evidence)) = a..b
    BY DEF WholeStreams
  <2>1. Sound(d) /\ observation # Absent
    BY DEF MarketInv, JoinInv, Sound
  <2>2. d.evidence = observation.content /\ SequenceQualified(observation.summary)
    BY <2>1 DEF Sound, Decision, Qualifies
  <2>3. QED
    BY <2>1, <2>2, ContentReplays, QualifiedStreamIsWhole
<1>2. QED
  BY <1>1, MarketStart, MarketStep, PTL DEF EvidenceSpec

-----------------------------------------------------------------------------
(* The frames of a context: their order gives each a place of its own.      *)

FramesAre(F) == F \in SUBSET Reports /\ IsFiniteSet(F)

LEMMA FrameFields ==
  ASSUME NEW f \in Reports
  PROVE  f.cutoff \in Int /\ f.known \in Int /\ f.id \in Int /\ f.level \in Int
  BY ReportsAreLawful

LEMMA EarlierIsOrder ==
  ASSUME NEW f \in Reports, NEW g \in Reports, NEW h \in Reports
  PROVE  /\ Earlier(f, f)
         /\ Earlier(f, g) \/ Earlier(g, f)
         /\ Earlier(f, g) /\ Earlier(g, f) => f = g
         /\ Earlier(f, g) /\ Earlier(g, h) => Earlier(f, h)
         /\ Earlier(f, g) => f.cutoff <= g.cutoff
<1>1. PICK a \in Int, b \in Int, c \in Int : a = f.cutoff /\ b = f.known /\ c = f.id
  BY FrameFields
<1>2. PICK i \in Int, j \in Int, k \in Int : i = g.cutoff /\ j = g.known /\ k = g.id
  BY FrameFields
<1>3. PICK x \in Int, y \in Int, z \in Int : x = h.cutoff /\ y = h.known /\ z = h.id
  BY FrameFields
<1>4. f.id = g.id => f = g
  BY ReportsAreLawful
<1>5. QED
  BY <1>1, <1>2, <1>3, <1>4 DEF Earlier

Until(F, f) == {g \in F : Earlier(g, f)}

LEMMA PlaceIs ==
  ASSUME NEW F, FramesAre(F), NEW f \in F
  PROVE  /\ IsFiniteSet(Until(F, f)) /\ f \in Until(F, f)
         /\ Position(F, f) = Cardinality(Until(F, f)) /\ Position(F, f) \in 1..Cardinality(F)
<1> F \in SUBSET Reports /\ IsFiniteSet(F)
  BY DEF FramesAre
<1>1. PICK U : U = Until(F, f)
  OBVIOUS
<1>2. f \in U /\ U \in SUBSET F
  BY <1>1, EarlierIsOrder DEF Until
<1>3. IsFiniteSet(U) /\ Cardinality(U) <= Cardinality(F)
  BY <1>2, FS_Subset
<1>4. Cardinality(U) \in Nat /\ Cardinality(F) \in Nat /\ Cardinality(U) # 0
  BY <1>2, <1>3, FS_CardinalityType, FS_EmptySet
<1>5. QED
  BY <1>1, <1>2, <1>3, <1>4 DEF Position, Until

LEMMA PlacesGrow ==
  ASSUME NEW F, FramesAre(F), NEW f \in F, NEW g \in F, f # g, Earlier(f, g)
  PROVE  Position(F, f) < Position(F, g)
<1> F \in SUBSET Reports /\ IsFiniteSet(F)
  BY DEF FramesAre
<1>1. Until(F, f) \in SUBSET Until(F, g)
  <2>1. \A h \in F : Earlier(h, f) => Earlier(h, g)
    BY EarlierIsOrder
  <2>2. QED
    BY <2>1 DEF Until
<1>2. g \in Until(F, g) /\ g \notin Until(F, f)
  BY EarlierIsOrder DEF Until
<1>3. IsFiniteSet(Until(F, g)) /\ IsFiniteSet(Until(F, f))
  BY PlaceIs
<1>4. Cardinality(Until(F, f)) <= Cardinality(Until(F, g)) /\ Cardinality(Until(F, f)) # Cardinality(Until(F, g))
  BY <1>1, <1>2, <1>3, FS_Subset
<1>5. Cardinality(Until(F, f)) \in Nat /\ Cardinality(Until(F, g)) \in Nat
  BY <1>3, FS_CardinalityType
<1>6. QED
  BY <1>4, <1>5, PlaceIs

LEMMA EachPlaceTaken ==
  ASSUME NEW F, FramesAre(F), NEW k \in 1..Cardinality(F)
  PROVE  \E f \in F : Position(F, f) = k
<1> F \in SUBSET Reports /\ IsFiniteSet(F)
  BY DEF FramesAre
<1>1. PICK n \in Nat : n = Cardinality(F)
  BY FS_CardinalityType
<1>2. PICK p : p = [f \in F |-> Position(F, f)]
  OBVIOUS
<1>3. p \in [F -> 1..n]
  BY <1>1, <1>2, PlaceIs
<1>4. \A f, g \in F : p[f] = p[g] => f = g
  <2> TAKE f \in F, g \in F
  <2>1. p[f] \in Int /\ p[g] \in Int
    BY <1>3
  <2>2. f # g => p[f] < p[g] \/ p[g] < p[f]
    BY <1>2, PlacesGrow, EarlierIsOrder
  <2>3. QED
    BY <2>1, <2>2
<1>5. p \in Injection(F, 1..n)
  BY <1>3, <1>4 DEF Injection, IsInjective
<1>6. IsFiniteSet(1..n) /\ Cardinality(1..n) = n
  BY FS_Interval
<1>7. p \in Surjection(F, 1..n)
  BY <1>1, <1>5, <1>6, FS_Injection
<1>8. QED
  BY <1>1, <1>2, <1>7 DEF Surjection

\* Ordered is F, one frame after the other.
Lists(o, F) ==
  /\ DOMAIN o = 1..Cardinality(F) /\ Cardinality(F) \in Nat
  /\ \A k \in DOMAIN o : o[k] \in F /\ Position(F, o[k]) = k
  /\ \A i, j \in DOMAIN o : i <= j => o[i].cutoff <= o[j].cutoff

LEMMA OrderedLists ==
  ASSUME NEW F, FramesAre(F)
  PROVE  Lists(Ordered(F), F)
<1> F \in SUBSET Reports /\ IsFiniteSet(F)
  BY DEF FramesAre
<1>1. Cardinality(F) \in Nat
  BY FS_CardinalityType
<1>2. PICK o : o = Ordered(F)
  OBVIOUS
<1>3. DOMAIN o = 1..Cardinality(F) /\ \A k \in 1..Cardinality(F) : o[k] = CHOOSE f \in F : Position(F, f) = k
  BY <1>2 DEF Ordered
<1>4. \A k \in DOMAIN o : o[k] \in F /\ Position(F, o[k]) = k
  BY <1>3, EachPlaceTaken
<1>5. ASSUME NEW i \in DOMAIN o, NEW j \in DOMAIN o, i <= j PROVE o[i].cutoff <= o[j].cutoff
  <2>1. o[i] \in F /\ o[j] \in F /\ Position(F, o[i]) = i /\ Position(F, o[j]) = j /\ i \in Int /\ j \in Int
    BY <1>3, <1>4
  <2>2. ~ (Position(F, o[j]) < Position(F, o[i]))
    BY <1>5, <2>1
  <2>3. Earlier(o[i], o[j])
    BY <2>1, <2>2, PlacesGrow, EarlierIsOrder
  <2>4. QED
    BY <2>1, <2>3, EarlierIsOrder
<1>6. QED
  BY <1>1, <1>2, <1>3, <1>4, <1>5 DEF Lists

\* The newest frame.
LEMMA NewestIs ==
  ASSUME NEW F, FramesAre(F), F # {}
  PROVE  Newest(F) \in F /\ \A g \in F : Earlier(g, Newest(F))
<1> F \in SUBSET Reports /\ IsFiniteSet(F)
  BY DEF FramesAre
<1>1. Cardinality(F) \in Nat /\ Cardinality(F) # 0
  BY FS_CardinalityType, FS_EmptySet
<1>2. PICK f \in F : Position(F, f) = Cardinality(F)
  BY <1>1, EachPlaceTaken
<1>3. ASSUME NEW g \in F PROVE Earlier(g, f)
  <2>1. Position(F, g) \in 1..Cardinality(F)
    BY PlaceIs
  <2>2. ~ (Position(F, f) < Position(F, g))
    BY <1>1, <1>2, <2>1
  <2>3. QED
    BY <2>2, PlacesGrow, EarlierIsOrder
<1>4. QED
  BY <1>3 DEF Newest

\* One more frame is the newest, or the newest stays.
LEMMA NewestGrows ==
  ASSUME NEW F, FramesAre(F), F # {}, NEW f \in Reports
  PROVE  /\ FramesAre(F \cup {f})
         /\ Newest(F \cup {f}) \in {f, Newest(F)}
<1>1. FramesAre(F \cup {f})
  BY FS_AddElement DEF FramesAre
<1>2. PICK G : G = F \cup {f}
  OBVIOUS
<1>3. Newest(G) \in G /\ \A g \in G : Earlier(g, Newest(G))
  BY <1>1, <1>2, NewestIs
<1>4. Newest(F) \in F /\ \A g \in F : Earlier(g, Newest(F))
  BY NewestIs
<1>5. Newest(G) \in F => Newest(G) = Newest(F)
  BY <1>2, <1>3, <1>4, EarlierIsOrder DEF FramesAre
<1>6. QED
  BY <1>1, <1>2, <1>3, <1>5

LEMMA NewestOfOne ==
  ASSUME NEW f \in Reports
  PROVE  FramesAre({f}) /\ Newest({f}) = f
<1>1. FramesAre({f})
  BY FS_Singleton DEF FramesAre
<1>2. QED
  BY <1>1, NewestIs

-----------------------------------------------------------------------------
(* Returns.                                                                 *)

Priced(F) == {f \in F : f.priced}

\* A sequence of n returns, in order of time.
ReturnsAre(r, n) ==
  /\ n \in Nat /\ DOMAIN r = 1..n
  /\ \A k \in 1..n : r[k].at \in Int /\ r[k].value \in Int
  /\ \A i, j \in 1..n : i <= j => r[i].at <= r[j].at

LEMMA PricedAre ==
  ASSUME NEW F, FramesAre(F)
  PROVE  FramesAre(Priced(F)) /\ Cardinality(Priced(F)) \in Nat
  BY FS_Subset, FS_CardinalityType DEF FramesAre, Priced

LEMMA ReturnsOfAre ==
  ASSUME NEW F, FramesAre(F)
  PROVE  \E n : /\ ReturnsAre(ReturnsOf(F), n)
                /\ Empty(ReturnsOf(F)) <=> Cardinality(Priced(F)) < 2
<1>1. PICK P : P = Priced(F)
  OBVIOUS
<1>2. FramesAre(P) /\ Cardinality(P) \in Nat
  BY <1>1, PricedAre
<1>3. PICK o : o = Ordered(P)
  OBVIOUS
<1>4. Lists(o, P)
  BY <1>2, <1>3, OrderedLists
<1>5. PICK c \in Nat : c = Cardinality(P)
  BY <1>2
<1>6. /\ DOMAIN o = 1..c
      /\ \A k \in 1..c : o[k] \in Reports
      /\ \A i, j \in 1..c : i <= j => o[i].cutoff <= o[j].cutoff
  BY <1>2, <1>4, <1>5 DEF Lists, FramesAre
<1>7. o \in Seq(Reports) /\ Len(o) = c
  <2>1. o = [k \in 1..c |-> o[k]]
    BY <1>3, <1>5 DEF Ordered
  <2>2. o \in [1..c -> Reports]
    BY <1>6, <2>1
  <2>3. QED
    BY <2>2
<1>8. PICK r : r = ReturnsOf(F)
  OBVIOUS
<1>9. r = [k \in 1..(c - 1) |-> [at |-> o[k + 1].cutoff, value |-> o[k + 1].level - o[k].level]]
  BY <1>1, <1>3, <1>7, <1>8 DEF ReturnsOf, Priced
<1>10. PICK n \in Nat : (c = 0 /\ n = 0) \/ (c > 0 /\ n = c - 1)
  OBVIOUS
<1>11. 1..(c - 1) = 1..n
  BY <1>10
<1>12. \A k \in 1..n : k \in 1..c /\ k + 1 \in 1..c
  BY <1>10
<1>13. DOMAIN r = 1..n
  BY <1>9, <1>11
<1>14. ASSUME NEW k \in 1..n PROVE r[k].at = o[k + 1].cutoff /\ r[k].at \in Int /\ r[k].value \in Int
  <2>1. o[k] \in Reports /\ o[k + 1] \in Reports
    BY <1>6, <1>12
  <2>2. PICK a \in Int, l \in Int, m \in Int : a = o[k + 1].cutoff /\ l = o[k + 1].level /\ m = o[k].level
    BY <2>1, FrameFields
  <2>3. r[k] = [at |-> a, value |-> l - m]
    BY <1>9, <1>11, <2>2
  <2>4. QED
    BY <2>2, <2>3
<1>15. ASSUME NEW i \in 1..n, NEW j \in 1..n, i <= j PROVE r[i].at <= r[j].at
  <2>1. i + 1 \in 1..c /\ j + 1 \in 1..c /\ i + 1 <= j + 1
    BY <1>12, <1>15
  <2>2. QED
    BY <1>6, <1>14, <2>1
<1>16. ReturnsAre(r, n)
  BY <1>13, <1>14, <1>15 DEF ReturnsAre
<1>17. 1..n = {} <=> c < 2
  <2>1. n >= 1 => 1 \in 1..n
    OBVIOUS
  <2>2. QED
    BY <1>10, <2>1
<1>18. QED
  BY <1>1, <1>5, <1>8, <1>13, <1>16, <1>17 DEF Empty

-----------------------------------------------------------------------------
(* The alignment, one return on the left after the other.                   *)

NearTo(pairs, i, left, right) ==
  {j \in DOMAIN right \ {pairs[n][2] : n \in DOMAIN pairs} : Distance(left[i].at, right[j].at) <= Tolerance}
Partner(near, i, left, right) == CHOOSE j \in near : \A k \in near : Closer(right, left[i].at, j, k)
PairNext(pairs, i, left, right) ==
  IF NearTo(pairs, i, left, right) = {} THEN pairs
  ELSE Append(pairs, <<i, Partner(NearTo(pairs, i, left, right), i, left, right)>>)
PairRow(g, s, left, right) == IF s = {} THEN <<>> ELSE PairNext(g[s \ {Max(s)}], Max(s), left, right)

LEMMA PairTable ==
  ASSUME NEW left, NEW right
  PROVE  \A n \in Nat : \E g : g = [s \in SUBSET (1..n) |-> PairRow(g, s, left, right)]
<1> DEFINE S == {n \in Nat : \E g : g = [s \in SUBSET (1..n) |-> PairRow(g, s, left, right)]}
<1>1. 0 \in S
  <2>1. PICK g : g = [s \in SUBSET (1..0) |-> <<>>]
    OBVIOUS
  <2>2. \A s \in SUBSET (1..0) : PairRow(g, s, left, right) = <<>>
    BY DEF PairRow
  <2>3. QED
    BY <2>1, <2>2
<1>2. ASSUME NEW n \in Nat, n \in S PROVE n + 1 \in S
  <2>1. PICK g : g = [s \in SUBSET (1..n) |-> PairRow(g, s, left, right)]
    BY <1>2
  <2>2. PICK h : h = [s \in SUBSET (1..(n + 1)) |->
                        IF n + 1 \in s THEN PairNext(g[s \ {n + 1}], n + 1, left, right) ELSE g[s]]
    OBVIOUS
  <2>3. \A s \in SUBSET (1..n) : h[s] = g[s] /\ g[s] = PairRow(g, s, left, right)
    <3>1. TAKE s \in SUBSET (1..n)
    <3>2. s \in SUBSET (1..(n + 1)) /\ n + 1 \notin s
      OBVIOUS
    <3>3. QED
      BY <2>1, <2>2, <3>2
  <2>4. ASSUME NEW s \in SUBSET (1..(n + 1)) PROVE h[s] = PairRow(h, s, left, right)
    <3>1. CASE n + 1 \in s
      <4>1. Max(s) = n + 1
        BY <3>1, Largest
      <4>2. s \ {n + 1} \in SUBSET (1..n)
        OBVIOUS
      <4>3. QED
        BY <2>2, <2>3, <3>1, <4>1, <4>2 DEF PairRow
    <3>2. CASE n + 1 \notin s
      <4>1. s \in SUBSET (1..n)
        BY <3>2
      <4>2. s \ {Max(s)} \in SUBSET (1..n)
        BY <4>1
      <4>3. h[s \ {Max(s)}] = g[s \ {Max(s)}] /\ h[s] = g[s] /\ g[s] = PairRow(g, s, left, right)
        BY <2>3, <4>1, <4>2
      <4>4. QED
        BY <4>3 DEF PairRow
    <3>3. QED
      BY <3>1, <3>2
  <2>5. h = [s \in SUBSET (1..(n + 1)) |-> PairRow(h, s, left, right)]
    BY <2>2, <2>4
  <2>6. QED
    BY <2>5
<1>3. Nat \subseteq S
  <2> HIDE DEF S
  <2>1. QED
    BY <1>1, <1>2, Inductive
<1>4. QED
  BY <1>3

\* The pairs found after each return.
PairStages(p, n, left, right) ==
  p[0] = <<>> /\ \A k \in 1..n : p[k] = PairNext(p[k - 1], k, left, right)

LEMMA AlignedStages ==
  ASSUME NEW left, NEW right, NEW n \in Nat, DOMAIN left = 1..n
  PROVE  \E p : PairStages(p, n, left, right) /\ Aligned(left, right) = p[n]
<1>1. PICK h : h = CHOOSE g : g = [s \in SUBSET (1..n) |-> PairRow(g, s, left, right)]
  OBVIOUS
<1>2. h = [s \in SUBSET (1..n) |-> PairRow(h, s, left, right)]
  BY <1>1, PairTable
<1>3. DOMAIN [i \in DOMAIN left |-> i] = 1..n
  OBVIOUS
<1>4. h = CHOOSE g : g = [s \in SUBSET (1..n) |->
            IF s = {} THEN <<>> ELSE PairNext(g[s \ {Max(s)}], Max(s), left, right)]
  BY <1>1 DEF PairRow
<1>5. Aligned(left, right) = h[1..n]
  <2>1. PICK ids : ids = [i \in DOMAIN left |-> i]
    OBVIOUS
  <2>2. \A i \in 1..n : ids[i] = i
    BY <2>1
  <2>3. DOMAIN ids = 1..n
    BY <2>1
  <2>4. PICK k : k = CHOOSE g : g = [s \in SUBSET (1..n) |->
            IF s = {} THEN <<>> ELSE PairNext(g[s \ {Max(s)}], ids[Max(s)], left, right)]
    OBVIOUS
  <2>5. Aligned(left, right) = k[1..n]
    BY <2>1, <2>3, <2>4 DEF Aligned, FoldLeftDomain, FoldLeft, MapThenFoldSet, PairNext, NearTo, Partner
  <2>6. \A s \in SUBSET (1..n) : s # {} => ids[Max(s)] = Max(s)
    <3>1. TAKE s \in SUBSET (1..n)
    <3>2. HAVE s # {}
    <3>3. Max(s) \in 1..n
      <4>1. PICK top \in s : \A y \in s : top >= y
        <5> DEFINE N == {n - y : y \in s}
        <5>0. \A y \in s : y \in Int /\ n - y \in Nat
          OBVIOUS
        <5>1. N \in SUBSET Nat /\ N # {}
          BY <3>2, <5>0
        <5>2. PICK m \in N : \A x \in N : ~ (x < m)
          BY <5>1, FirstNumber
        <5>3. PICK top \in s : m = n - top
          BY <5>2
        <5>4. \A y \in s : ~ (n - y < n - top)
          BY <5>2, <5>3
        <5>5. \A y \in s : top >= y
          <6> HIDE DEF N
          <6>1. QED
            BY <5>0, <5>4
        <5>6. QED
          BY <5>5
      <4>2. QED
        BY <4>1 DEF Max
    <3>4. QED
      BY <2>2, <3>3
  <2>7. \A g : [s \in SUBSET (1..n) |-> IF s = {} THEN <<>> ELSE PairNext(g[s \ {Max(s)}], ids[Max(s)], left, right)]
             = [s \in SUBSET (1..n) |-> IF s = {} THEN <<>> ELSE PairNext(g[s \ {Max(s)}], Max(s), left, right)]
    BY <2>6
  <2>8. k = h
    BY <1>4, <2>4, <2>7
  <2>9. QED
    BY <2>5, <2>8
<1>6. PICK p : p = [k \in 0..n |-> h[1..k]]
  OBVIOUS
<1>7. p[0] = <<>>
  <2>1. 1..0 = {} /\ {} \in SUBSET (1..n)
    OBVIOUS
  <2>2. h[{}] = PairRow(h, {}, left, right)
    BY <1>2, <2>1
  <2>3. QED
    BY <1>6, <2>1, <2>2 DEF PairRow
<1>8. ASSUME NEW k \in 1..n PROVE p[k] = PairNext(p[k - 1], k, left, right)
  <2>1. PICK m \in Nat : k = m + 1 /\ m \in 0..n /\ k \in 0..n
    <3>1. k - 1 \in Nat /\ k = (k - 1) + 1 /\ k - 1 \in 0..n /\ k \in 0..n
      OBVIOUS
    <3>2. QED
      BY <3>1
  <2>2. 1..k \in SUBSET (1..(m + 1)) /\ m + 1 \in 1..k /\ 1..k \in SUBSET (1..n) /\ 1..k # {}
    <3>1. 1..k = 1..(m + 1) /\ k \in 1..k
      BY <2>1
    <3>2. \A x \in 1..k : x \in 1..n
      OBVIOUS
    <3>3. QED
      BY <2>1, <3>1, <3>2
  <2>3. Max(1..k) = k
    BY <2>1, <2>2, Largest
  <2>4. (1..k) \ {k} = 1..(k - 1)
    OBVIOUS
  <2>5. h[1..k] = PairNext(h[1..(k - 1)], k, left, right)
    BY <1>2, <2>2, <2>3, <2>4 DEF PairRow
  <2>6. k - 1 \in 0..n /\ k \in 0..n
    OBVIOUS
  <2>7. QED
    BY <1>6, <2>5, <2>6
<1>9. p[n] = h[1..n]
  BY <1>6
<1>10. QED
  BY <1>5, <1>7, <1>8, <1>9 DEF PairStages
LEMMA DistanceIs ==
  ASSUME NEW a \in Int, NEW b \in Int
  PROVE  Distance(a, b) \in Nat /\ Distance(a, b) = Distance(b, a) /\ (b = a + Distance(a, b) \/ b = a - Distance(a, b))
  BY DEF Distance

\* Of the returns that are near one is the closest.
LEMMA PartnerIsNear ==
  ASSUME NEW left, NEW i, NEW right, NEW n, ReturnsAre(right, n), left[i].at \in Int,
         NEW near \in SUBSET (1..n), near # {}
  PROVE  Partner(near, i, left, right) \in near
<1>1. PICK at \in Int : at = left[i].at
  OBVIOUS
<1>2. \A j \in near : j \in Nat /\ right[j].at \in Int
  BY DEF ReturnsAre
<1>3. PICK D : D = {Distance(right[j].at, at) : j \in near}
  OBVIOUS
<1>4. D \in SUBSET Nat /\ D # {}
  <2>1. \A j \in near : Distance(right[j].at, at) \in Nat
    BY <1>2, DistanceIs
  <2>2. QED
    BY <1>3, <2>1
<1>5. PICK d \in D : \A x \in D : ~ (x < d)
  BY <1>4, FirstNumber
<1>6. PICK T : T = {right[j].at - at + d : j \in {x \in near : Distance(right[x].at, at) = d}}
  OBVIOUS
<1>7. T \in SUBSET Nat /\ T # {}
  <2>1. \A j \in near : Distance(right[j].at, at) = d => right[j].at - at + d \in Nat
    <3>1. TAKE j \in near
    <3>2. PICK r \in Int : r = right[j].at
      BY <1>2
    <3>3. QED
      BY <3>2 DEF Distance
  <2>2. QED
    BY <1>3, <1>5, <1>6, <2>1
<1>8. PICK t \in T : \A x \in T : ~ (x < t)
  BY <1>7, FirstNumber
<1>9. PICK J : J = {j \in near : Distance(right[j].at, at) = d /\ right[j].at - at + d = t}
  OBVIOUS
<1>10. J \in SUBSET Nat /\ J # {}
  BY <1>2, <1>6, <1>8, <1>9
<1>11. PICK j \in J : \A x \in J : ~ (x < j)
  BY <1>10, FirstNumber
<1>12. ASSUME NEW k \in near PROVE Closer(right, at, j, k)
  <2>1. j \in near /\ Distance(right[j].at, at) = d /\ right[j].at - at + d = t
    BY <1>9, <1>11
  <2>2. PICK a \in Int, b \in Int : a = right[j].at /\ b = right[k].at
    BY <1>2, <2>1
  <2>3. PICK e \in Nat : e = Distance(b, at)
    BY <2>2, DistanceIs
  <2>4. d \in Nat /\ ~ (e < d)
    BY <1>3, <1>4, <1>5, <2>2, <2>3
  <2>5. e = d => ~ (b - at + d < t)
    BY <1>6, <1>8, <2>2, <2>3
  <2>6. e = d /\ b - at + d = t => ~ (k < j)
    BY <1>9, <1>11, <2>2, <2>3
  <2>7. j \in Nat /\ k \in Nat
    BY <1>2, <2>1
  <2>8. t = a - at + d
    BY <2>1, <2>2
  <2>9. e = d /\ b = a => b - at + d = t
    BY <2>8
  <2>10. e = d => b >= a
    BY <2>4, <2>5, <2>8
  <2>11. d < e \/ e = d
    BY <2>4
  <2>12. CASE d < e
    BY <2>1, <2>2, <2>3, <2>12 DEF Closer
  <2>13. CASE e = d /\ a < b
    BY <2>1, <2>2, <2>3, <2>13 DEF Closer
  <2>14. CASE e = d /\ a = b
    <3>1. j <= k
      BY <2>6, <2>7, <2>9, <2>14
    <3>2. QED
      BY <2>1, <2>2, <2>3, <2>14, <3>1 DEF Closer
  <2>15. QED
    BY <2>10, <2>11, <2>12, <2>13, <2>14
<1>13. j \in near
  BY <1>9, <1>11
<1>14. QED
  BY <1>1, <1>12, <1>13 DEF Partner

Taken(pairs) == {pairs[n][2] : n \in DOMAIN pairs}
Served(pairs) == {pairs[n][1] : n \in DOMAIN pairs}

\* What is so of the pairs after k returns on the left.
PairsAre(pairs, k, left, right) ==
  /\ pairs \in Seq(Nat \X Nat)
  /\ \A x \in DOMAIN pairs : /\ pairs[x][1] \in 1..k /\ pairs[x][2] \in DOMAIN right
                             /\ Distance(left[pairs[x][1]].at, right[pairs[x][2]].at) <= Tolerance
  /\ \A x, y \in DOMAIN pairs : x < y => pairs[x][1] < pairs[y][1] /\ pairs[x][2] # pairs[y][2]
  /\ \A i \in 1..k : i \in Served(pairs) \/
       \A l \in DOMAIN right \ Taken(pairs) : Distance(left[i].at, right[l].at) > Tolerance

LEMMA PairsStay ==
  ASSUME NEW left, NEW right, NEW m, ReturnsAre(left, m), NEW n, ReturnsAre(right, n),
         NEW k \in 1..m, NEW pairs, PairsAre(pairs, k - 1, left, right)
  PROVE  PairsAre(PairNext(pairs, k, left, right), k, left, right)
<1>1. /\ pairs \in Seq(Nat \X Nat)
      /\ \A x \in DOMAIN pairs : /\ pairs[x][1] \in 1..(k - 1) /\ pairs[x][2] \in DOMAIN right
                                 /\ Distance(left[pairs[x][1]].at, right[pairs[x][2]].at) <= Tolerance
      /\ \A x, y \in DOMAIN pairs : x < y => pairs[x][1] < pairs[y][1] /\ pairs[x][2] # pairs[y][2]
      /\ \A i \in 1..(k - 1) : i \in Served(pairs) \/
           \A l \in DOMAIN right \ Taken(pairs) : Distance(left[i].at, right[l].at) > Tolerance
  BY DEF PairsAre
<1>2. m \in Nat /\ DOMAIN left = 1..m /\ n \in Nat /\ DOMAIN right = 1..n
  BY DEF ReturnsAre
<1>3. PICK near : near = NearTo(pairs, k, left, right)
  OBVIOUS
<1>4. near = {j \in DOMAIN right \ Taken(pairs) : Distance(left[k].at, right[j].at) <= Tolerance}
  BY <1>3 DEF NearTo, Taken
<1>5. left[k].at \in Int /\ \A j \in 1..n : right[j].at \in Int
  BY DEF ReturnsAre
<1>6. \A j \in DOMAIN right : Distance(left[k].at, right[j].at) \in Int /\ Tolerance \in Int
  <2>1. TAKE j \in DOMAIN right
  <2>2. PICK a \in Int, b \in Int : a = left[k].at /\ b = right[j].at
    BY <1>2, <1>5
  <2>3. Distance(a, b) \in Int
    BY DistanceIs
  <2>4. Tolerance \in Int
    BY ParametersAreLawful
  <2>5. QED
    BY <2>2, <2>3, <2>4
<1>7. CASE near = {}
  <2>1. PairNext(pairs, k, left, right) = pairs
    BY <1>3, <1>7 DEF PairNext
  <2>2. \A l \in DOMAIN right \ Taken(pairs) : Distance(left[k].at, right[l].at) > Tolerance
    BY <1>4, <1>6, <1>7
  <2>3. \A i \in 1..k : i \in 1..(k - 1) \/ i = k
    BY <1>2
  <2>4. \A i \in 1..(k - 1) : i \in 1..k
    BY <1>2
  <2>5. \A x \in DOMAIN pairs : /\ pairs[x][1] \in 1..k /\ pairs[x][2] \in DOMAIN right
                                /\ Distance(left[pairs[x][1]].at, right[pairs[x][2]].at) <= Tolerance
    BY <1>1, <2>4
  <2>6. \A i \in 1..k : i \in Served(pairs) \/
          \A l \in DOMAIN right \ Taken(pairs) : Distance(left[i].at, right[l].at) > Tolerance
    BY <1>1, <2>2, <2>3
  <2>7. PairsAre(pairs, k, left, right)
    BY <1>1, <2>5, <2>6 DEF PairsAre
  <2>8. QED
    BY <2>1, <2>7
<1>8. CASE near # {}
  <2>1. PICK j : j = Partner(near, k, left, right)
    OBVIOUS
  <2>2. near \in SUBSET (1..n)
    BY <1>2, <1>4
  <2>3. j \in near
    BY <1>5, <1>8, <2>1, <2>2, PartnerIsNear
  <2>4. j \in DOMAIN right /\ j \in Nat /\ j \notin Taken(pairs) /\ Distance(left[k].at, right[j].at) <= Tolerance
    BY <1>2, <1>4, <2>3
  <2>5. PICK after : after = PairNext(pairs, k, left, right)
    OBVIOUS
  <2>6. after = Append(pairs, <<k, j>>)
    BY <1>3, <1>8, <2>1, <2>5 DEF PairNext
  <2>7. k \in Nat /\ <<k, j>> \in Nat \X Nat
    BY <1>2, <2>4
  <2>8. PICK c \in Nat : c = Len(pairs) /\ DOMAIN pairs = 1..c
    BY <1>1
  <2>9. /\ after \in Seq(Nat \X Nat) /\ DOMAIN after = 1..(c + 1) /\ after[c + 1] = <<k, j>>
        /\ \A x \in 1..c : after[x] = pairs[x]
    BY <1>1, <2>6, <2>7, <2>8
  <2>10. \A x \in 1..(c + 1) : x \in 1..c \/ x = c + 1
    OBVIOUS
  <2>11. Taken(after) = Taken(pairs) \cup {j} /\ Served(after) = Served(pairs) \cup {k}
    <3>1. \A x \in 1..c : x \in 1..(c + 1)
      OBVIOUS
    <3>2. c + 1 \in 1..(c + 1)
      OBVIOUS
    <3>3. after[c + 1][1] = k /\ after[c + 1][2] = j
      BY <2>9
    <3>4. DOMAIN after = 1..(c + 1) /\ DOMAIN pairs = 1..c /\ \A x \in 1..c : after[x] = pairs[x]
      BY <2>8, <2>9
    <3>5. \A z : z \in Taken(after) <=> z \in Taken(pairs) \/ z = j
      BY <2>10, <3>1, <3>2, <3>3, <3>4 DEF Taken
    <3>6. \A z : z \in Served(after) <=> z \in Served(pairs) \/ z = k
      BY <2>10, <3>1, <3>2, <3>3, <3>4 DEF Served
    <3>7. QED
      BY <3>5, <3>6
  <2>12. \A x \in DOMAIN after : /\ after[x][1] \in 1..k /\ after[x][2] \in DOMAIN right
                                 /\ Distance(left[after[x][1]].at, right[after[x][2]].at) <= Tolerance
    <3>1. TAKE x \in DOMAIN after
    <3>2. CASE x \in 1..c
      <4>1. pairs[x][1] \in 1..k
        BY <1>1, <1>2, <2>8, <3>2
      <4>2. QED
        BY <1>1, <2>8, <2>9, <3>2, <4>1
    <3>3. CASE x = c + 1
      <4>1. after[x][1] = k /\ after[x][2] = j /\ k \in 1..k
        BY <2>9, <3>3, <1>2
      <4>2. QED
        BY <2>4, <4>1
    <3>4. QED
      BY <2>9, <2>10, <3>2, <3>3
  <2>13. \A x, y \in DOMAIN after : x < y => after[x][1] < after[y][1] /\ after[x][2] # after[y][2]
    <3>1. TAKE x \in DOMAIN after, y \in DOMAIN after
    <3>2. HAVE x < y
    <3>3. x \in 1..c
      <4>1. x \in 1..(c + 1) /\ y \in 1..(c + 1)
        BY <2>9
      <4>2. QED
        BY <3>2, <4>1
    <3>4. CASE y \in 1..c
      <4>1. after[x] = pairs[x] /\ after[y] = pairs[y]
        BY <2>9, <3>3, <3>4
      <4>2. pairs[x][1] < pairs[y][1] /\ pairs[x][2] # pairs[y][2]
        BY <1>1, <2>8, <3>2, <3>3, <3>4
      <4>3. QED
        BY <4>1, <4>2
    <3>5. CASE y = c + 1
      <4>1. after[y][1] = k /\ after[y][2] = j
        BY <2>9, <3>5
      <4>2. pairs[x][1] \in 1..(k - 1) /\ pairs[x][2] \in Taken(pairs)
        BY <1>1, <2>8, <3>3 DEF Taken
      <4>3. pairs[x][1] < k /\ pairs[x][2] # j
        BY <1>2, <2>4, <4>2
      <4>4. QED
        BY <2>9, <3>3, <4>1, <4>3
    <3>6. QED
      BY <2>9, <2>10, <3>4, <3>5
  <2>14. \A i \in 1..k : i \in Served(after) \/
           \A l \in DOMAIN right \ Taken(after) : Distance(left[i].at, right[l].at) > Tolerance
    <3>1. \A i \in 1..k : i \in 1..(k - 1) \/ i = k
      BY <1>2
    <3>2. QED
      BY <1>1, <2>11, <3>1
  <2>15. PairsAre(after, k, left, right)
    BY <2>9, <2>12, <2>13, <2>14 DEF PairsAre
  <2>16. QED
    BY <2>5, <2>15
<1>9. QED
  BY <1>7, <1>8

LEMMA AlignedAre ==
  ASSUME NEW left, NEW right, NEW m, ReturnsAre(left, m), NEW n, ReturnsAre(right, n)
  PROVE  PairsAre(Aligned(left, right), m, left, right)
<1>1. m \in Nat /\ DOMAIN left = 1..m
  BY DEF ReturnsAre
<1>2. PICK p : PairStages(p, m, left, right) /\ Aligned(left, right) = p[m]
  BY <1>1, AlignedStages
<1>3. p[0] = <<>> /\ \A k \in 1..m : p[k] = PairNext(p[k - 1], k, left, right)
  BY <1>2 DEF PairStages
<1> DEFINE S == {k \in Nat : k <= m => PairsAre(p[k], k, left, right)}
<1>4. 0 \in S
  <2>1. <<>> \in Seq(Nat \X Nat) /\ DOMAIN <<>> = {} /\ 1..0 = {}
    OBVIOUS
  <2>2. PairsAre(<<>>, 0, left, right)
    BY <2>1 DEF PairsAre
  <2>3. QED
    BY <1>3, <2>2
<1>5. ASSUME NEW k \in Nat, k \in S PROVE k + 1 \in S
  <2>1. SUFFICES ASSUME k + 1 <= m PROVE PairsAre(p[k + 1], k + 1, left, right)
    OBVIOUS
  <2>2. PICK j \in 1..m : j = k + 1 /\ j - 1 = k
    BY <1>1, <2>1
  <2>3. PairsAre(p[j - 1], j - 1, left, right)
    BY <1>1, <1>5, <2>1, <2>2
  <2>4. p[j] = PairNext(p[j - 1], j, left, right)
    BY <1>3
  <2>5. PairsAre(PairNext(p[j - 1], j, left, right), j, left, right)
    BY <2>3, PairsStay
  <2>6. QED
    BY <2>2, <2>4, <2>5
<1>6. Nat \subseteq S
  <2> HIDE DEF S
  <2>1. QED
    BY <1>4, <1>5, Inductive
<1>7. QED
  BY <1>1, <1>2, <1>6

LEMMA AlignedInOrder ==
  ASSUME NEW left, NEW right, NEW m, ReturnsAre(left, m), NEW n, ReturnsAre(right, n),
         NEW pairs, PairsAre(pairs, m, left, right),
         \A k, l \in DOMAIN right : k # l => Distance(right[k].at, right[l].at) > 2 * Tolerance
  PROVE  \A x, y \in DOMAIN pairs : x < y => pairs[x][2] < pairs[y][2]
<1>1. TAKE x \in DOMAIN pairs, y \in DOMAIN pairs
<1>2. HAVE x < y
<1>3. /\ pairs[x][1] \in 1..m /\ pairs[x][2] \in DOMAIN right
      /\ pairs[y][1] \in 1..m /\ pairs[y][2] \in DOMAIN right
      /\ Distance(left[pairs[x][1]].at, right[pairs[x][2]].at) <= Tolerance
      /\ Distance(left[pairs[y][1]].at, right[pairs[y][2]].at) <= Tolerance
      /\ pairs[x][1] < pairs[y][1] /\ pairs[x][2] # pairs[y][2]
  BY <1>2 DEF PairsAre
<1>4. /\ m \in Nat /\ n \in Nat /\ DOMAIN right = 1..n
      /\ \A i, j \in 1..m : i <= j => left[i].at <= left[j].at
      /\ \A i, j \in 1..n : i <= j => right[i].at <= right[j].at
      /\ \A i \in 1..m : left[i].at \in Int
      /\ \A i \in 1..n : right[i].at \in Int
  BY DEF ReturnsAre
<1>5. PICK a \in Int, b \in Int : a = left[pairs[x][1]].at /\ b = left[pairs[y][1]].at
  BY <1>3, <1>4
<1>6. PICK c \in Int, d \in Int : c = right[pairs[x][2]].at /\ d = right[pairs[y][2]].at
  BY <1>3, <1>4
<1>7. a <= b
  BY <1>3, <1>4, <1>5
<1>8. Distance(a, c) <= Tolerance /\ Distance(b, d) <= Tolerance /\ Distance(c, d) > 2 * Tolerance
  BY <1>3, <1>5, <1>6
<1>9. Tolerance \in Nat
  BY ParametersAreLawful
<1>10. ~ (d <= c)
  BY <1>7, <1>8, <1>9 DEF Distance
<1>11. PICK u \in 1..n, v \in 1..n : u = pairs[x][2] /\ v = pairs[y][2]
  BY <1>3, <1>4
<1>12. ~ (v <= u)
  BY <1>4, <1>6, <1>10, <1>11
<1>13. QED
  BY <1>11, <1>12

LEMMA NearNear ==
  ASSUME NEW a \in Int, NEW b \in Int, NEW c \in Int, NEW t \in Nat,
         Distance(a, b) <= t, Distance(c, b) <= t
  PROVE  ~ (Distance(a, c) > 2 * t)
<1>1. a - b <= t /\ b - a <= t /\ c - b <= t /\ b - c <= t
  BY DEF Distance
<1>2. a - c <= 2 * t /\ c - a <= 2 * t
  BY <1>1
<1>3. QED
  BY <1>2 DEF Distance

\* Where both sides are sparse, what is paired is exactly what is near: who is
\* near has at most one to be paired with.
LEMMA SparsePairs ==
  ASSUME NEW left, NEW right, NEW m, ReturnsAre(left, m), NEW n, ReturnsAre(right, n),
         NEW pairs, PairsAre(pairs, m, left, right), Sparse(left), Sparse(right),
         NEW k \in 1..m, NEW l \in 1..n
  PROVE  (\E x \in DOMAIN pairs : pairs[x] = <<k, l>>) <=> Distance(left[k].at, right[l].at) <= Tolerance
<1>1. /\ m \in Nat /\ n \in Nat /\ DOMAIN left = 1..m /\ DOMAIN right = 1..n /\ Tolerance \in Nat
      /\ \A i \in 1..m : left[i].at \in Int
      /\ \A i \in 1..n : right[i].at \in Int
  BY ParametersAreLawful DEF ReturnsAre
<1>2. \A x \in DOMAIN pairs : /\ pairs[x] = <<pairs[x][1], pairs[x][2]>>
                               /\ pairs[x][1] \in 1..m /\ pairs[x][2] \in 1..n
                               /\ Distance(left[pairs[x][1]].at, right[pairs[x][2]].at) <= Tolerance
  <2>1. pairs \in Seq(Nat \X Nat)
    BY DEF PairsAre
  <2>2. \A x \in DOMAIN pairs : pairs[x] \in Nat \X Nat
    BY <2>1
  <2>3. \A x \in DOMAIN pairs : pairs[x] = <<pairs[x][1], pairs[x][2]>>
    BY <2>2
  <2>4. QED
    BY <1>1, <2>3 DEF PairsAre
<1>3. ASSUME NEW x \in DOMAIN pairs, pairs[x] = <<k, l>>
      PROVE  Distance(left[k].at, right[l].at) <= Tolerance
  BY <1>2, <1>3
<1>4. ASSUME Distance(left[k].at, right[l].at) <= Tolerance
      PROVE  \E x \in DOMAIN pairs : pairs[x] = <<k, l>>
  <2>1. PICK a \in Int, b \in Int : a = left[k].at /\ b = right[l].at
    BY <1>1
  <2>2. k \in Served(pairs) \/ l \in Taken(pairs)
    <3>1. Distance(left[k].at, right[l].at) \in Nat
      BY <2>1, DistanceIs
    <3>2. ~ (Distance(left[k].at, right[l].at) > Tolerance)
      BY <1>1, <1>4, <3>1
    <3>3. QED
      BY <1>1, <3>2 DEF PairsAre
  <2>3. CASE k \in Served(pairs)
    <3>1. PICK x \in DOMAIN pairs : pairs[x][1] = k
      BY <2>3 DEF Served
    <3>2. PICK q \in 1..n : q = pairs[x][2] /\ Distance(left[k].at, right[q].at) <= Tolerance
      BY <1>2, <3>1
    <3>3. PICK c \in Int : c = right[q].at
      BY <1>1
    <3>4. Distance(b, a) <= Tolerance /\ Distance(c, a) <= Tolerance
      BY <1>4, <2>1, <3>2, <3>3, DistanceIs
    <3>5. ~ (Distance(b, c) > 2 * Tolerance)
      BY <1>1, <3>4, NearNear
    <3>6. q = l
      BY <1>1, <2>1, <3>3, <3>5 DEF Sparse
    <3>7. pairs[x] = <<pairs[x][1], pairs[x][2]>>
      BY <1>2
    <3>8. pairs[x] = <<k, l>>
      BY <3>1, <3>2, <3>6, <3>7, Zenon
    <3>9. QED
      BY <3>8
  <2>4. CASE l \in Taken(pairs)
    <3>1. PICK x \in DOMAIN pairs : pairs[x][2] = l
      BY <2>4 DEF Taken
    <3>2. PICK q \in 1..m : q = pairs[x][1] /\ Distance(left[q].at, right[l].at) <= Tolerance
      BY <1>2, <3>1
    <3>3. PICK c \in Int : c = left[q].at
      BY <1>1
    <3>4. Distance(a, b) <= Tolerance /\ Distance(c, b) <= Tolerance
      BY <1>4, <2>1, <3>2, <3>3
    <3>5. ~ (Distance(a, c) > 2 * Tolerance)
      BY <1>1, <3>4, NearNear
    <3>6. q = k
      BY <1>1, <2>1, <3>3, <3>5 DEF Sparse
    <3>7. pairs[x] = <<pairs[x][1], pairs[x][2]>>
      BY <1>2
    <3>8. pairs[x] = <<k, l>>
      BY <3>1, <3>2, <3>6, <3>7, Zenon
    <3>9. QED
      BY <3>8
  <2>5. QED
    BY <2>2, <2>3, <2>4
<1>5. QED
  BY <1>3, <1>4

\* Turned around, a sparse alignment pairs the same returns.
LEMMA SparseTurned ==
  ASSUME NEW left, NEW right, NEW m, ReturnsAre(left, m), NEW n, ReturnsAre(right, n),
         NEW pairs, PairsAre(pairs, m, left, right), NEW turned, PairsAre(turned, n, right, left),
         Sparse(left), Sparse(right)
  PROVE  {pairs[x] : x \in DOMAIN pairs} = {<<turned[x][2], turned[x][1]>> : x \in DOMAIN turned}
<1>1. \A a, b \in Int : Distance(a, b) = Distance(b, a)
  BY DistanceIs
<1>2. /\ m \in Nat /\ n \in Nat /\ DOMAIN left = 1..m /\ DOMAIN right = 1..n
      /\ \A i \in 1..m : left[i].at \in Int
      /\ \A i \in 1..n : right[i].at \in Int
  BY DEF ReturnsAre
<1>3. \A x \in DOMAIN pairs : \E k \in 1..m, l \in 1..n : pairs[x] = <<k, l>>
  <2>1. \A x \in DOMAIN pairs : pairs[x] \in Nat \X Nat
    BY DEF PairsAre
  <2>2. \A x \in DOMAIN pairs : pairs[x] = <<pairs[x][1], pairs[x][2]>>
    BY <2>1
  <2>3. QED
    BY <1>2, <2>2 DEF PairsAre
<1>4. \A x \in DOMAIN turned : \E k \in 1..m, l \in 1..n : turned[x] = <<l, k>>
  <2>1. \A x \in DOMAIN turned : turned[x] \in Nat \X Nat
    BY DEF PairsAre
  <2>2. \A x \in DOMAIN turned : turned[x] = <<turned[x][1], turned[x][2]>>
    BY <2>1
  <2>3. QED
    BY <1>2, <2>2 DEF PairsAre
<1>5. ASSUME NEW k \in 1..m, NEW l \in 1..n
      PROVE  (\E x \in DOMAIN pairs : pairs[x] = <<k, l>>) <=> (\E x \in DOMAIN turned : turned[x] = <<l, k>>)
  <2>1. Distance(left[k].at, right[l].at) = Distance(right[l].at, left[k].at)
    BY <1>1, <1>2
  <2>2. (\E x \in DOMAIN pairs : pairs[x] = <<k, l>>) <=> Distance(left[k].at, right[l].at) <= Tolerance
    BY SparsePairs
  <2>3. (\E x \in DOMAIN turned : turned[x] = <<l, k>>) <=> Distance(right[l].at, left[k].at) <= Tolerance
    BY SparsePairs
  <2>4. QED
    BY <2>1, <2>2, <2>3
<1>6. ASSUME NEW x \in DOMAIN pairs
      PROVE  \E y \in DOMAIN turned : pairs[x] = <<turned[y][2], turned[y][1]>>
  <2>1. PICK k \in 1..m, l \in 1..n : pairs[x] = <<k, l>>
    BY <1>3
  <2>2. PICK y \in DOMAIN turned : turned[y] = <<l, k>>
    BY <1>5, <2>1
  <2>3. QED
    BY <2>1, <2>2
<1>7. ASSUME NEW y \in DOMAIN turned
      PROVE  \E x \in DOMAIN pairs : pairs[x] = <<turned[y][2], turned[y][1]>>
  <2>1. PICK k \in 1..m, l \in 1..n : turned[y] = <<l, k>>
    BY <1>4
  <2>2. PICK x \in DOMAIN pairs : pairs[x] = <<k, l>>
    BY <1>5, <2>1
  <2>3. QED
    BY <2>1, <2>2
<1>8. QED
  BY <1>6, <1>7

\* What holds of the frames observed.
ObservedInv == FramesAre(observed)

LEMMA ObservedStart == ContextsInit => ObservedInv
  BY FS_EmptySet DEF ContextsInit, ObservedInv, FramesAre

LEMMA ObservedStep == ObservedInv /\ [Observe]_observed => ObservedInv'
  BY FS_AddElement DEF Observe, ObservedInv, FramesAre

LEMMA OfAre ==
  ASSUME NEW F, FramesAre(F), NEW i
  PROVE  FramesAre(Of(F, i))
  BY FS_Subset DEF FramesAre, Of

LEMMA AlignmentFair == ObservedInv => AlignmentIsFair
<1> SUFFICES ASSUME ObservedInv PROVE AlignmentIsFair
  OBVIOUS
<1> SUFFICES ASSUME NEW i \in Instruments, NEW j \in Instruments
             PROVE LET left == ReturnsOf(Of(observed, i)) right == ReturnsOf(Of(observed, j))
                       pairs == Aligned(left, right) turned == Aligned(right, left)
                       used == {pairs[n][2] : n \in DOMAIN pairs} IN
             /\ \A m, n \in DOMAIN pairs : m < n => pairs[m][1] < pairs[n][1] /\ pairs[m][2] # pairs[n][2]
             /\ \A k \in DOMAIN left : k \in {pairs[n][1] : n \in DOMAIN pairs} \/
                  \A l \in DOMAIN right \ used : Distance(left[k].at, right[l].at) > Tolerance
             /\ Sparse(right) => \A m, n \in DOMAIN pairs : m < n => pairs[m][2] < pairs[n][2]
             /\ Sparse(left) /\ Sparse(right) =>
                  {pairs[n] : n \in DOMAIN pairs} = {<<turned[n][2], turned[n][1]>> : n \in DOMAIN turned}
  BY DEF AlignmentIsFair
<1>1. PICK left, right : left = ReturnsOf(Of(observed, i)) /\ right = ReturnsOf(Of(observed, j))
  OBVIOUS
<1>2. PICK m : ReturnsAre(left, m)
  BY <1>1, OfAre, ReturnsOfAre DEF ObservedInv
<1>3. PICK n : ReturnsAre(right, n)
  BY <1>1, OfAre, ReturnsOfAre DEF ObservedInv
<1>4. PICK pairs : pairs = Aligned(left, right)
  OBVIOUS
<1>5. PairsAre(pairs, m, left, right)
  BY <1>2, <1>3, <1>4, AlignedAre
<1>6. DOMAIN left = 1..m
  BY <1>2 DEF ReturnsAre
<1>7. /\ \A x, y \in DOMAIN pairs : x < y => pairs[x][1] < pairs[y][1] /\ pairs[x][2] # pairs[y][2]
      /\ \A k \in DOMAIN left : k \in {pairs[x][1] : x \in DOMAIN pairs} \/
           \A l \in DOMAIN right \ {pairs[x][2] : x \in DOMAIN pairs} : Distance(left[k].at, right[l].at) > Tolerance
  BY <1>5, <1>6 DEF PairsAre, Taken, Served
<1>8. Sparse(right) => \A x, y \in DOMAIN pairs : x < y => pairs[x][2] < pairs[y][2]
  BY <1>2, <1>3, <1>5, AlignedInOrder DEF Sparse
<1>9. PICK turned : turned = Aligned(right, left)
  OBVIOUS
<1>10. PairsAre(turned, n, right, left)
  BY <1>2, <1>3, <1>9, AlignedAre
<1>11. Sparse(left) /\ Sparse(right) =>
         {pairs[x] : x \in DOMAIN pairs} = {<<turned[x][2], turned[x][1]>> : x \in DOMAIN turned}
  BY <1>2, <1>3, <1>5, <1>10, SparseTurned
<1>12. QED
  BY <1>1, <1>4, <1>7, <1>8, <1>9, <1>11
LEMMA LastIs ==
  ASSUME NEW F, FramesAre(F), ~ Empty(ReturnsOf(F))
  PROVE  Last(ReturnsOf(F)).value \in Int
<1>1. PICK n : ReturnsAre(ReturnsOf(F), n)
  BY ReturnsOfAre
<1>2. PICK r : r = ReturnsOf(F)
  OBVIOUS
<1>3. n \in Nat /\ DOMAIN r = 1..n /\ \A k \in 1..n : r[k].value \in Int
  BY <1>1, <1>2 DEF ReturnsAre
<1>4. r = [k \in 1..n |-> r[k]]
  <2>1. \E D, e : r = [k \in D |-> e[k]]
    <3>1. PICK o : o = Ordered({f \in F : f.priced})
      OBVIOUS
    <3>2. PICK e : e = [k \in 1..(Len(o) - 1) |-> [at |-> o[k + 1].cutoff, value |-> o[k + 1].level - o[k].level]]
      OBVIOUS
    <3>3. r = [k \in 1..(Len(o) - 1) |-> e[k]]
      BY <1>2, <3>1, <3>2 DEF ReturnsOf
    <3>4. QED
      BY <3>3
  <2>2. QED
    BY <1>3, <2>1
<1>5. PICK V : V = {r[k] : k \in 1..n}
  OBVIOUS
<1>6. r \in [1..n -> V]
  BY <1>4, <1>5
<1>7. r \in Seq(V) /\ Len(r) = n
  BY <1>3, <1>6
<1>8. n \in 1..n
  BY <1>2, <1>3 DEF Empty
<1>9. QED
  BY <1>2, <1>3, <1>7, <1>8 DEF Last

-----------------------------------------------------------------------------
(* The sum of the returns, however they are added up.                       *)

SumRow(g, s, v) == IF s = {} THEN 0 ELSE g[s \ {CHOOSE x \in s : TRUE}] + v[CHOOSE x \in s : TRUE]
Upto(S, n) == {s \in SUBSET S : Cardinality(s) <= n}

LEMMA SmallerSet ==
  ASSUME NEW S, IsFiniteSet(S), NEW n \in Nat, NEW s \in Upto(S, n + 1), s # {}
  PROVE  /\ (CHOOSE x \in s : TRUE) \in s
         /\ s \ {CHOOSE x \in s : TRUE} \in Upto(S, n)
         /\ IsFiniteSet(s)
<1>1. PICK x : x = CHOOSE y \in s : TRUE
  OBVIOUS
<1>2. x \in s
  BY <1>1
<1>3. s \in SUBSET S /\ IsFiniteSet(s) /\ Cardinality(s) <= n + 1
  BY FS_Subset DEF Upto
<1>4. IsFiniteSet(s \ {x}) /\ Cardinality(s \ {x}) = Cardinality(s) - 1 /\ Cardinality(s) \in Nat
  BY <1>2, <1>3, FS_RemoveElement, FS_CardinalityType
<1>5. s \ {x} \in Upto(S, n)
  BY <1>3, <1>4 DEF Upto
<1>6. QED
  BY <1>1, <1>2, <1>3, <1>5

SumsUpto(g, S, n, v) == g = [s \in Upto(S, n) |-> SumRow(g, s, v)]

LEMMA SumTable ==
  ASSUME NEW S, IsFiniteSet(S), NEW v
  PROVE  \A n \in Nat : \E g : SumsUpto(g, S, n, v)
<1> DEFINE I == {n \in Nat : \E g : g = [s \in Upto(S, n) |-> SumRow(g, s, v)]}
<1>1. 0 \in I
  <2>1. \A s \in Upto(S, 0) : s = {}
    <3>1. TAKE s \in Upto(S, 0)
    <3>2. IsFiniteSet(s) /\ Cardinality(s) <= 0
      BY FS_Subset DEF Upto
    <3>3. Cardinality(s) \in Nat
      BY <3>2, FS_CardinalityType
    <3>4. QED
      BY <3>2, <3>3, FS_EmptySet
  <2>2. PICK g : g = [s \in Upto(S, 0) |-> 0]
    OBVIOUS
  <2>3. \A s \in Upto(S, 0) : SumRow(g, s, v) = 0
    BY <2>1 DEF SumRow
  <2>4. QED
    BY <2>2, <2>3
<1>2. ASSUME NEW n \in Nat, n \in I PROVE n + 1 \in I
  <2>1. PICK g : g = [s \in Upto(S, n) |-> SumRow(g, s, v)]
    BY <1>2
  <2>2. PICK h : h = [s \in Upto(S, n + 1) |-> SumRow(g, s, v)]
    OBVIOUS
  <2>3. \A s \in Upto(S, n) : s \in Upto(S, n + 1)
    <3>1. TAKE s \in Upto(S, n)
    <3>2. IsFiniteSet(s) /\ Cardinality(s) <= n /\ s \in SUBSET S
      BY FS_Subset DEF Upto
    <3>3. Cardinality(s) \in Nat
      BY <3>2, FS_CardinalityType
    <3>4. QED
      BY <3>2, <3>3 DEF Upto
  <2>4. \A s \in Upto(S, n) : h[s] = g[s]
    BY <2>1, <2>2, <2>3
  <2>5. ASSUME NEW s \in Upto(S, n + 1) PROVE SumRow(g, s, v) = SumRow(h, s, v)
    <3>1. CASE s = {}
      BY <3>1 DEF SumRow
    <3>2. CASE s # {}
      <4>1. s \ {CHOOSE x \in s : TRUE} \in Upto(S, n)
        BY <3>2, SmallerSet
      <4>2. QED
        BY <2>4, <4>1 DEF SumRow
    <3>3. QED
      BY <3>1, <3>2
  <2>6. h = [s \in Upto(S, n + 1) |-> SumRow(h, s, v)]
    BY <2>2, <2>5
  <2>7. QED
    BY <2>6
<1>3. Nat \subseteq I
  <2> HIDE DEF I
  <2>1. QED
    BY <1>1, <1>2, Inductive
<1>4. QED
  BY <1>3 DEF SumsUpto

LEMMA UptoAll ==
  ASSUME NEW S, IsFiniteSet(S)
  PROVE  Cardinality(S) \in Nat /\ Upto(S, Cardinality(S)) = SUBSET S
<1>1. \A s \in SUBSET S : Cardinality(s) <= Cardinality(S)
  BY FS_Subset
<1>2. QED
  BY <1>1, FS_CardinalityType DEF Upto

ReturnSum(v) == FoldSet(LAMBDA i, s : s + v[i], 0, DOMAIN v)
Sums(g, S, v) == g = [s \in SUBSET S |-> SumRow(g, s, v)]

LEMMA SumUnfolds ==
  ASSUME NEW v, IsFiniteSet(DOMAIN v)
  PROVE  \E g : Sums(g, DOMAIN v, v) /\ ReturnSum(v) = g[DOMAIN v]
<1>1. PICK S : S = DOMAIN v
  OBVIOUS
<1>2. PICK h : h = CHOOSE g : g = [s \in SUBSET S |-> SumRow(g, s, v)]
  OBVIOUS
<1>3. \E g : g = [s \in SUBSET S |-> SumRow(g, s, v)]
  <2>0. PICK c \in Nat : c = Cardinality(S) /\ Upto(S, c) = SUBSET S
    BY <1>1, UptoAll
  <2>1. PICK g : g = [s \in Upto(S, c) |-> SumRow(g, s, v)]
    <3>1. IsFiniteSet(S)
      BY <1>1
    <3>2. \E g : SumsUpto(g, S, c, v)
      BY <2>0, <3>1, SumTable
    <3>3. QED
      BY <3>2 DEF SumsUpto
  <2>2. g = [s \in SUBSET S |-> SumRow(g, s, v)]
    BY <2>0, <2>1
  <2>3. QED
    BY <2>2
<1>4. h = [s \in SUBSET S |-> SumRow(h, s, v)]
  BY <1>2, <1>3
<1>5. ReturnSum(v) = h[S]
  BY <1>1, <1>2 DEF ReturnSum, FoldSet, MapThenFoldSet, SumRow
<1>6. QED
  BY <1>1, <1>4, <1>5 DEF Sums

LEMMA SumsMirror ==
  ASSUME NEW S, IsFiniteSet(S), NEW v \in [S -> Int], NEW w \in [S -> Int], \A x \in S : w[x] = -v[x],
         NEW g, Sums(g, S, v), NEW h, Sums(h, S, w)
  PROVE  g[S] \in Int /\ h[S] \in Int /\ g[S] + h[S] = 0
<1> DEFINE I == {n \in Nat : \A s \in Upto(S, n) : g[s] \in Int /\ h[s] \in Int /\ g[s] + h[s] = 0}
<1>0. /\ \A s \in SUBSET S : g[s] = SumRow(g, s, v)
      /\ \A s \in SUBSET S : h[s] = SumRow(h, s, w)
  BY DEF Sums
<1>1. 0 \in I
  <2>1. \A s \in Upto(S, 0) : s = {}
    <3>1. TAKE s \in Upto(S, 0)
    <3>2. IsFiniteSet(s) /\ Cardinality(s) <= 0
      BY FS_Subset DEF Upto
    <3>3. Cardinality(s) \in Nat
      BY <3>2, FS_CardinalityType
    <3>4. QED
      BY <3>2, <3>3, FS_EmptySet
  <2>2. g[{}] = 0 /\ h[{}] = 0
    BY <1>0 DEF SumRow
  <2>3. g[{}] \in Int /\ h[{}] \in Int /\ g[{}] + h[{}] = 0
    BY <2>2
  <2>4. QED
    BY <2>1, <2>3
<1>2. ASSUME NEW n \in Nat, n \in I PROVE n + 1 \in I
  <2>1. ASSUME NEW s \in Upto(S, n + 1) PROVE g[s] \in Int /\ h[s] \in Int /\ g[s] + h[s] = 0
    <3>0. s \in SUBSET S
      BY DEF Upto
    <3>1. CASE s = {}
      <4>1. g[s] = 0 /\ h[s] = 0
        BY <1>0, <3>0, <3>1 DEF SumRow
      <4>2. QED
        BY <4>1
    <3>2. CASE s # {}
      <4>1. PICK x : x = CHOOSE y \in s : TRUE
        OBVIOUS
      <4>2. x \in s /\ s \ {x} \in Upto(S, n)
        BY <3>2, <4>1, SmallerSet
      <4>3. g[s \ {x}] \in Int /\ h[s \ {x}] \in Int /\ g[s \ {x}] + h[s \ {x}] = 0
        BY <1>2, <4>2
      <4>4. x \in S /\ v[x] \in Int /\ w[x] = -v[x]
        BY <3>0, <4>2
      <4>5. g[s] = g[s \ {x}] + v[x] /\ h[s] = h[s \ {x}] + w[x]
        BY <1>0, <3>0, <3>2, <4>1 DEF SumRow
      <4>6. PICK p \in Int, r \in Int : p = g[s \ {x}] /\ h[s \ {x}] = r /\ p + r = 0
        BY <4>3
      <4>7. PICK q \in Int : q = v[x] /\ w[x] = -q
        BY <4>4
      <4>8. g[s] = p + q /\ h[s] = r + (-q)
        BY <4>5, <4>6, <4>7
      <4>9. p + q \in Int /\ r + (-q) \in Int /\ (p + q) + (r + (-q)) = 0
        BY <4>6
      <4>10. QED
        BY <4>8, <4>9
    <3>3. QED
      BY <3>1, <3>2
  <2>2. QED
    BY <2>1
<1>3. Nat \subseteq I
  <2> HIDE DEF I
  <2>1. QED
    BY <1>1, <1>2, Inductive
<1>4. Cardinality(S) \in I
  BY <1>3, UptoAll
<1>5. QED
  BY <1>4, UptoAll

Risers(v) == {i \in DOMAIN v : v[i] > 0}
Reading(n, sum, rising) ==
  IF n = 0 THEN "UNAVAILABLE"
  ELSE IF sum >= Threshold * n /\ 5 * rising >= 3 * n THEN "RISK_ON"
  ELSE IF sum <= -Threshold * n /\ 5 * rising <= 2 * n THEN "RISK_OFF"
  ELSE IF Distance(sum, 0) < Threshold * n THEN "NEUTRAL" ELSE "MIXED"

LEMMA DirectionReads == \A v : Direction(v) = Reading(Cardinality(DOMAIN v), ReturnSum(v), Cardinality(Risers(v)))
  BY DEF Direction, Reading, ReturnSum, Risers

LEMMA ReadingMirrors ==
  ASSUME NEW n \in Nat, NEW sum \in Int, NEW rising \in Nat
  PROVE  Reading(n, -sum, n - rising) = Opposite(Reading(n, sum, rising))
<1>1. PICK t \in Int : t = Threshold * n /\ -t = -Threshold * n
  <2>1. Threshold \in Int
    BY ParametersAreLawful
  <2>2. QED
    BY <2>1
<1>2. Distance(-sum, 0) = Distance(sum, 0)
  BY DEF Distance
<1>3. CASE n = 0
  BY <1>3 DEF Reading, Opposite
<1>4. CASE n # 0
  <2>1. (-sum >= t <=> sum <= -t) /\ (-sum <= -t <=> sum >= t)
    OBVIOUS
  <2>2. (5 * (n - rising) >= 3 * n <=> 5 * rising <= 2 * n) /\ (5 * (n - rising) <= 2 * n <=> 5 * rising >= 3 * n)
    OBVIOUS
  <2>3. ~ (5 * rising <= 2 * n /\ 5 * rising >= 3 * n)
    BY <1>4
  <2>4. QED
    BY <1>1, <1>2, <1>4, <2>1, <2>2, <2>3 DEF Reading, Opposite
<1>5. QED
  BY <1>3, <1>4

LEMMA DirectionMirrors ==
  ASSUME NEW S, IsFiniteSet(S), NEW v \in [S -> Int], \A i \in S : v[i] # 0
  PROVE  Direction([i \in DOMAIN v |-> -v[i]]) = Opposite(Direction(v))
<1>1. PICK w \in [S -> Int] : w = [i \in DOMAIN v |-> -v[i]]
  <2>1. \A i \in S : -v[i] \in Int
    OBVIOUS
  <2>2. QED
    BY <2>1
<1>2. DOMAIN v = S /\ DOMAIN w = S /\ \A i \in S : w[i] = -v[i]
  BY <1>1
<1>3. PICK g : Sums(g, S, v) /\ ReturnSum(v) = g[S]
  BY <1>2, SumUnfolds
<1>4. PICK h : Sums(h, S, w) /\ ReturnSum(w) = h[S]
  BY <1>2, SumUnfolds
<1>5. ReturnSum(v) \in Int /\ ReturnSum(w) = -ReturnSum(v)
  <2>1. g[S] \in Int /\ h[S] \in Int /\ g[S] + h[S] = 0
    BY <1>2, <1>3, <1>4, SumsMirror
  <2>2. QED
    BY <1>3, <1>4, <2>1
<1>6. Risers(w) = S \ Risers(v) /\ Risers(v) \in SUBSET S
  <2>1. \A i \in S : w[i] > 0 <=> ~ (v[i] > 0)
    <3>1. TAKE i \in S
    <3>2. PICK x \in Int : x = v[i] /\ w[i] = -x /\ x # 0
      BY <1>2
    <3>3. QED
      BY <3>2
  <2>2. QED
    BY <1>2, <2>1 DEF Risers
<1>7. /\ IsFiniteSet(Risers(v)) /\ Cardinality(Risers(v)) \in Nat /\ Cardinality(S) \in Nat
      /\ Cardinality(Risers(w)) = Cardinality(S) - Cardinality(S \cap Risers(v))
  BY <1>6, FS_Subset, FS_CardinalityType, FS_Difference
<1>8. S \cap Risers(v) = Risers(v)
  BY <1>6
<1>9. PICK n \in Nat, r \in Nat, sum \in Int :
        /\ n = Cardinality(S) /\ r = Cardinality(Risers(v)) /\ sum = ReturnSum(v)
        /\ n - r = Cardinality(Risers(w)) /\ -sum = ReturnSum(w)
  BY <1>5, <1>7, <1>8
<1>10. Direction(v) = Reading(n, sum, r) /\ Direction(w) = Reading(n, -sum, n - r)
  BY <1>2, <1>9, DirectionReads
<1>11. QED
  BY <1>1, <1>10, ReadingMirrors

LEMMA MembersAre ==
  ASSUME NEW F, FramesAre(F)
  PROVE  IsFiniteSet(Members(F)) /\ \A T \in SUBSET Members(F) : IsFiniteSet(T) /\ Cardinality(T) \in Nat
<1>1. IsFiniteSet({f.instrument : f \in F})
  <2>1. PICK M : M = {f.instrument : f \in F}
    OBVIOUS
  <2>2. [f \in F |-> f.instrument] \in Surjection(F, M)
    BY <2>1 DEF Surjection
  <2>3. IsFiniteSet(M)
    BY <2>2, FS_Surjection DEF FramesAre
  <2>4. QED
    BY <2>1, <2>3
<1>2. QED
  BY <1>1, FS_Subset, FS_CardinalityType DEF Members

LEMMA RegimeMirrors == ObservedInv => RegimesMirror
<1> SUFFICES ASSUME ObservedInv, NEW v, v = MarketReturns(observed), \A i \in DOMAIN v : v[i] # 0
             PROVE  Direction([i \in DOMAIN v |-> -v[i]]) = Opposite(Direction(v))
  BY DEF RegimesMirror
<1>1. PICK S : S = WithReturn(observed)
  OBVIOUS
<1>2. IsFiniteSet(S)
  BY <1>1, MembersAre DEF ObservedInv, WithReturn
<1>3. \A i \in S : LastReturn(observed, i) \in Int
  BY <1>1, OfAre, LastIs DEF ObservedInv, WithReturn, LastReturn
<1>4. v = [i \in S |-> LastReturn(observed, i)]
  BY <1>1 DEF MarketReturns
<1>5. v \in [S -> Int]
  BY <1>3, <1>4
<1>6. QED
  BY <1>2, <1>5, DirectionMirrors

\* The contexts are even-handed, whatever is observed and in whatever order:
\* between directions, and between instruments as far as their returns are spaced
\* out (_aligned, _regimes).
THEOREM EvenHandedHolds == ContextsSpec => []ContextsAreEvenHanded
<1>1. ObservedInv => ContextsAreEvenHanded
  BY AlignmentFair, RegimeMirrors DEF ContextsAreEvenHanded
<1>2. QED
  BY <1>1, ObservedStart, ObservedStep, PTL DEF ContextsSpec

-----------------------------------------------------------------------------
(* One more frame that qualifies and has a price.                            *)

Good(f) == f \in Reports /\ f.status = "QUALIFIED" /\ f.priced

LEMMA PricedGrow ==
  ASSUME NEW F, FramesAre(F), NEW G, FramesAre(G), F \subseteq G
  PROVE  /\ Empty(ReturnsOf(F)) <=> Cardinality(Priced(F)) < 2
         /\ Empty(ReturnsOf(G)) => Empty(ReturnsOf(F))
<1>1. Empty(ReturnsOf(F)) <=> Cardinality(Priced(F)) < 2
  BY ReturnsOfAre
<1>2. Empty(ReturnsOf(G)) <=> Cardinality(Priced(G)) < 2
  BY ReturnsOfAre
<1>3. Priced(F) \in SUBSET Priced(G)
  BY DEF Priced
<1>4. IsFiniteSet(Priced(G)) /\ Cardinality(Priced(F)) \in Nat /\ Cardinality(Priced(G)) \in Nat
  BY PricedAre DEF FramesAre
<1>5. Cardinality(Priced(F)) <= Cardinality(Priced(G))
  BY <1>3, <1>4, FS_Subset
<1>6. QED
  BY <1>1, <1>2, <1>4, <1>5

LEMMA FramesGrow ==
  ASSUME NEW F, FramesAre(F), NEW f, Good(f)
  PROVE  FramesAre(F \cup {f})
  BY FS_AddElement DEF FramesAre, Good

LEMMA OfGrows ==
  ASSUME NEW F, NEW f, NEW i
  PROVE  /\ i = f.instrument => Of(F \cup {f}, i) = Of(F, i) \cup {f}
         /\ i # f.instrument => Of(F \cup {f}, i) = Of(F, i)
         /\ i \in Members(F) => i \in Members(F \cup {f})
         /\ i \in Members(F \cup {f}) /\ i # f.instrument => i \in Members(F)
  BY DEF Of, Members

\* The latest frame of a member stays, or it is the new one.
LEMMA LatestGrows ==
  ASSUME NEW F, FramesAre(F), NEW f, Good(f), NEW i \in Members(F \cup {f})
  PROVE  \/ Latest(F \cup {f})[i] = f
         \/ i \in Members(F) /\ Latest(F \cup {f})[i] = Latest(F)[i]
<1>1. Latest(F \cup {f})[i] = Newest(Of(F \cup {f}, i))
  BY DEF Latest
<1>2. i \in Members(F) => Latest(F)[i] = Newest(Of(F, i))
  BY DEF Latest
<1>3. CASE i # f.instrument
  BY <1>1, <1>2, <1>3, OfGrows
<1>4. CASE i = f.instrument /\ i \in Members(F)
  <2>1. FramesAre(Of(F, i)) /\ Of(F, i) # {}
    <3>1. FramesAre(Of(F, i))
      BY OfAre
    <3>2. PICK e \in F : e.instrument = i
      BY <1>4 DEF Members
    <3>3. QED
      BY <3>1, <3>2 DEF Of
  <2>2. Newest(Of(F, i) \cup {f}) \in {f, Newest(Of(F, i))}
    <3>1. PICK O : O = Of(F, i)
      OBVIOUS
    <3>2. FramesAre(O) /\ O # {} /\ f \in Reports
      BY <2>1, <3>1 DEF Good
    <3>3. Newest(O \cup {f}) \in {f, Newest(O)}
      BY <3>2, NewestGrows
    <3>4. QED
      BY <3>1, <3>3
  <2>3. Of(F \cup {f}, i) = Of(F, i) \cup {f}
    BY <1>4 DEF Of
  <2>4. QED
    BY <1>1, <1>2, <1>4, <2>2, <2>3
<1>5. CASE i = f.instrument /\ i \notin Members(F)
  <2>1. Of(F, i) = {}
    BY <1>5 DEF Members, Of
  <2>2. Of(F \cup {f}, i) = {f}
    BY <1>5, <2>1, OfGrows
  <2>3. QED
    BY <1>1, <2>2, NewestOfOne DEF Good
<1>6. QED
  BY <1>3, <1>4, <1>5

LEMMA WithReturnGrows ==
  ASSUME NEW F, FramesAre(F), NEW f, Good(f)
  PROVE  /\ WithReturn(F) \subseteq WithReturn(F \cup {f})
         /\ Cardinality(WithReturn(F)) \in Nat /\ Cardinality(WithReturn(F \cup {f})) \in Nat
         /\ Cardinality(WithReturn(F)) <= Cardinality(WithReturn(F \cup {f}))
<1>1. PICK G : G = F \cup {f} /\ FramesAre(G)
  BY FramesGrow
<1>2. ASSUME NEW i \in WithReturn(F) PROVE i \in WithReturn(G)
  <2>1. i \in Members(F) /\ ~ Empty(ReturnsOf(Of(F, i)))
    BY DEF WithReturn
  <2>2. i \in Members(G)
    BY <1>1, <2>1, OfGrows
  <2>3. FramesAre(Of(F, i)) /\ FramesAre(Of(G, i)) /\ Of(F, i) \subseteq Of(G, i)
    BY <1>1, OfAre DEF Of
  <2>4. ~ Empty(ReturnsOf(Of(G, i)))
    BY <2>1, <2>3, PricedGrow
  <2>5. QED
    BY <2>2, <2>4 DEF WithReturn
<1>3. IsFiniteSet(WithReturn(G)) /\ Cardinality(WithReturn(G)) \in Nat
  BY <1>1, MembersAre DEF WithReturn
<1>4. Cardinality(WithReturn(F)) \in Nat
  BY MembersAre DEF WithReturn
<1>5. WithReturn(F) \in SUBSET WithReturn(G)
  BY <1>2
<1>6. Cardinality(WithReturn(F)) <= Cardinality(WithReturn(G))
  BY <1>3, <1>5, FS_Subset
<1>7. QED
  BY <1>1, <1>3, <1>4, <1>5, <1>6

LEMMA QualifiedGrow ==
  ASSUME NEW F, FramesAre(F), NEW f, Good(f)
  PROVE  /\ QualifiedSpots(F) \subseteq QualifiedSpots(F \cup {f})
         /\ Cardinality(QualifiedSpots(F)) \in Nat /\ Cardinality(QualifiedSpots(F \cup {f})) \in Nat
         /\ Cardinality(QualifiedSpots(F)) <= Cardinality(QualifiedSpots(F \cup {f}))
<1>1. PICK G : G = F \cup {f} /\ FramesAre(G)
  BY FramesGrow
<1>2. ASSUME NEW i \in QualifiedSpots(F) PROVE i \in QualifiedSpots(G)
  <2>1. i \in Members(F) /\ i \in Spots /\ Latest(F)[i].status = "QUALIFIED" /\ Latest(F)[i].priced
    BY DEF QualifiedSpots
  <2>2. i \in Members(G)
    BY <1>1, <2>1, OfGrows
  <2>3. Latest(G)[i] \in {f, Latest(F)[i]}
    BY <1>1, <2>2, LatestGrows
  <2>4. Latest(G)[i].status = "QUALIFIED" /\ Latest(G)[i].priced
    BY <2>1, <2>3 DEF Good
  <2>5. QED
    BY <2>1, <2>2, <2>4 DEF QualifiedSpots
<1>3. IsFiniteSet(QualifiedSpots(G)) /\ Cardinality(QualifiedSpots(G)) \in Nat
  <2>1. QualifiedSpots(G) \in SUBSET Members(G)
    BY DEF QualifiedSpots
  <2>2. QED
    BY <1>1, <2>1, MembersAre
<1>4. Cardinality(QualifiedSpots(F)) \in Nat
  <2>1. QualifiedSpots(F) \in SUBSET Members(F)
    BY DEF QualifiedSpots
  <2>2. QED
    BY <2>1, MembersAre
<1>5. QualifiedSpots(F) \in SUBSET QualifiedSpots(G)
  BY <1>2
<1>6. Cardinality(QualifiedSpots(F)) <= Cardinality(QualifiedSpots(G))
  BY <1>3, <1>5, FS_Subset
<1>7. QED
  BY <1>1, <1>3, <1>4, <1>5, <1>6

Grades == {"UNAVAILABLE", "DEGRADED", "QUALIFIED"}
LEMMA GradesCompare ==
  /\ Grade["UNAVAILABLE"] = 0 /\ Grade["DEGRADED"] = 1 /\ Grade["QUALIFIED"] = 2
  /\ \A g \in Grades : NotBelow(g, g) /\ NotBelow("UNAVAILABLE", g) /\ NotBelow(g, "QUALIFIED")
<1>1. Grade["UNAVAILABLE"] = 0 /\ Grade["DEGRADED"] = 1 /\ Grade["QUALIFIED"] = 2
  BY DEF Grade
<1>2. QED
  BY <1>1 DEF Grades, NotBelow

LEMMA CoreGrows ==
  ASSUME NEW F, FramesAre(F), NEW f, Good(f)
  PROVE  /\ CoreStatus(F) \in Grades /\ CoreStatus(F \cup {f}) \in Grades
         /\ CoreStatus(F) = "QUALIFIED" => CoreStatus(F \cup {f}) = "QUALIFIED"
         /\ CoreStatus(F) # "UNAVAILABLE" => CoreStatus(F \cup {f}) # "UNAVAILABLE"
         /\ NotBelow(CoreStatus(F), CoreStatus(F \cup {f}))
<1>1. CoreStatus(F) \in Grades /\ CoreStatus(F \cup {f}) \in Grades
  BY DEF CoreStatus, Grades
<1>2. MinCore \in Nat /\ MinCore # 0
  BY ParametersAreLawful
<1>3. Cardinality({}) = 0
  BY FS_EmptySet
<1>4. CoreStatus(F) = "QUALIFIED" => CoreStatus(F \cup {f}) = "QUALIFIED"
  <2>1. HAVE CoreStatus(F) = "QUALIFIED"
  <2>2. Cardinality(QualifiedSpots(F)) >= MinCore /\ Cardinality(WithReturn(F)) >= MinCore
    BY <2>1 DEF CoreStatus
  <2>3. Cardinality(QualifiedSpots(F \cup {f})) >= MinCore
    BY <1>2, <2>2, QualifiedGrow
  <2>4. Cardinality(WithReturn(F \cup {f})) >= MinCore
    BY <1>2, <2>2, WithReturnGrows
  <2>5. QED
    BY <2>3, <2>4 DEF CoreStatus
<1>5. CoreStatus(F) # "UNAVAILABLE" => CoreStatus(F \cup {f}) # "UNAVAILABLE"
  <2>1. HAVE CoreStatus(F) # "UNAVAILABLE"
  <2>2. QualifiedSpots(F) # {}
    BY <1>2, <1>3, <2>1 DEF CoreStatus
  <2>3. QualifiedSpots(F \cup {f}) # {}
    BY <2>2, QualifiedGrow
  <2>4. QED
    BY <2>3 DEF CoreStatus
<1>6. QED
  BY <1>1, <1>4, <1>5, GradesCompare DEF Grades, NotBelow

LEMMA ContextGrows ==
  ASSUME NEW F, FramesAre(F), NEW f, Good(f)
  PROVE  NotBelow(ContextStatus(F), ContextStatus(F \cup {f}))
<1>1. PICK G : G = F \cup {f}
  OBVIOUS
<1>2. ContextStatus(F) \in Grades /\ ContextStatus(G) \in Grades
  BY DEF ContextStatus, Grades
<1>3. CASE ContextStatus(F) = "UNAVAILABLE"
  BY <1>1, <1>2, <1>3, GradesCompare
<1>4. CASE ContextStatus(F) = "DEGRADED"
  <2>1. CoreStatus(F) # "UNAVAILABLE"
    BY <1>4 DEF ContextStatus
  <2>2. ContextStatus(G) # "UNAVAILABLE"
    BY <1>1, <2>1, CoreGrows DEF ContextStatus
  <2>3. QED
    BY <1>1, <1>2, <1>4, <2>2, GradesCompare DEF Grades
<1>5. CASE ContextStatus(F) = "QUALIFIED"
  <2>1. CoreStatus(F) = "QUALIFIED" /\ \A i \in Members(F) : Latest(F)[i].status = "QUALIFIED"
    BY <1>5 DEF ContextStatus
  <2>2. CoreStatus(G) = "QUALIFIED"
    BY <1>1, <2>1, CoreGrows
  <2>3. \A i \in Members(G) : Latest(G)[i].status = "QUALIFIED"
    BY <1>1, <2>1, LatestGrows DEF Good
  <2>4. ContextStatus(G) = "QUALIFIED"
    BY <2>2, <2>3 DEF ContextStatus
  <2>5. QED
    BY <1>1, <1>2, <1>5, <2>4, GradesCompare
<1>6. QED
  BY <1>2, <1>3, <1>4, <1>5 DEF Grades

LEMMA RelatedGrow ==
  ASSUME NEW F, FramesAre(F), NEW f, Good(f)
  PROVE  Related(F) \subseteq Related(F \cup {f})
<1>1. PICK G : G = F \cup {f}
  OBVIOUS
<1>2. \A i \in Members(F) : i \in Members(G) /\ (Latest(F)[i].priced => Latest(G)[i].priced)
  <2>1. TAKE i \in Members(F)
  <2>2. i \in Members(G)
    BY <1>1, OfGrows
  <2>3. Latest(G)[i] \in {f, Latest(F)[i]}
    BY <1>1, <2>2, LatestGrows
  <2>4. QED
    BY <2>2, <2>3 DEF Good
<1>3. QED
  BY <1>1, <1>2 DEF Related

LEMMA FamiliesGrow ==
  ASSUME NEW F, FramesAre(F), NEW f, Good(f), NEW q \in {"core", "crossAsset", "derivatives"}
  PROVE  NotBelow(FeatureQuality(F)[q], FeatureQuality(F \cup {f})[q])
<1>1. PICK G : G = F \cup {f}
  OBVIOUS
<1>2. CASE q = "core"
  <2>1. FeatureQuality(F)[q] = CoreStatus(F) /\ FeatureQuality(G)[q] = CoreStatus(G)
    BY <1>2 DEF FeatureQuality
  <2>2. QED
    BY <1>1, <2>1, CoreGrows
<1>3. CASE q = "crossAsset"
  <2>1. PICK a, b :
          /\ a = IF Cardinality(WithReturn(F)) >= MinCore THEN "QUALIFIED"
                 ELSE IF WithReturn(F) # {} THEN "DEGRADED" ELSE "UNAVAILABLE"
          /\ b = IF Cardinality(WithReturn(G)) >= MinCore THEN "QUALIFIED"
                 ELSE IF WithReturn(G) # {} THEN "DEGRADED" ELSE "UNAVAILABLE"
    OBVIOUS
  <2>2. FeatureQuality(F)[q] = a /\ FeatureQuality(G)[q] = b
    BY <1>3, <2>1 DEF FeatureQuality
  <2>3. WithReturn(F) \subseteq WithReturn(G) /\ (Cardinality(WithReturn(F)) >= MinCore => Cardinality(WithReturn(G)) >= MinCore)
    BY <1>1, WithReturnGrows, ParametersAreLawful
  <2>4. a \in Grades /\ b \in Grades
    BY <2>1 DEF Grades
  <2>5. a = "QUALIFIED" => b = "QUALIFIED"
    BY <2>1, <2>3
  <2>6. a = "DEGRADED" => b # "UNAVAILABLE"
    BY <2>1, <2>3
  <2>7. NotBelow(a, b)
    BY <2>4, <2>5, <2>6, GradesCompare DEF Grades
  <2>8. QED
    BY <1>1, <2>2, <2>7
<1>4. CASE q = "derivatives"
  <2>1. PICK a, b : /\ a = IF Related(F) # {} THEN "QUALIFIED" ELSE "UNAVAILABLE"
                    /\ b = IF Related(G) # {} THEN "QUALIFIED" ELSE "UNAVAILABLE"
    OBVIOUS
  <2>2. FeatureQuality(F)[q] = a /\ FeatureQuality(G)[q] = b
    BY <1>4, <2>1 DEF FeatureQuality
  <2>3. a = "QUALIFIED" => b = "QUALIFIED"
    BY <1>1, <2>1, RelatedGrow
  <2>4. a \in Grades /\ b \in Grades /\ a # "DEGRADED"
    BY <2>1 DEF Grades
  <2>5. NotBelow(a, b)
    BY <2>3, <2>4, GradesCompare DEF Grades
  <2>6. QED
    BY <1>1, <2>2, <2>5
<1>5. QED
  BY <1>2, <1>3, <1>4

-----------------------------------------------------------------------------
(* The relationship of a spot and a derivative.                             *)

\* A pair of returns needs a return on each side.
LEMMA PairsNeedReturns ==
  ASSUME NEW S, FramesAre(S), NEW D, FramesAre(D), Len(Aligned(ReturnsOf(S), ReturnsOf(D))) >= MinPairs
  PROVE  ~ Empty(ReturnsOf(S)) /\ ~ Empty(ReturnsOf(D))
<1>1. PICK left, right : left = ReturnsOf(S) /\ right = ReturnsOf(D)
  OBVIOUS
<1>2. PICK m : ReturnsAre(left, m)
  BY <1>1, ReturnsOfAre
<1>3. PICK n : ReturnsAre(right, n)
  BY <1>1, ReturnsOfAre
<1>4. PICK pairs : pairs = Aligned(left, right) /\ PairsAre(pairs, m, left, right)
  BY <1>2, <1>3, AlignedAre
<1>5. MinPairs \in Nat /\ MinPairs >= 3 /\ pairs \in Seq(Nat \X Nat) /\ Len(pairs) >= MinPairs
  BY <1>1, <1>4, ParametersAreLawful DEF PairsAre
<1>6. 1 \in DOMAIN pairs
  BY <1>5
<1>7. pairs[1][1] \in 1..m /\ pairs[1][2] \in DOMAIN right
  BY <1>4, <1>6 DEF PairsAre
<1>8. DOMAIN left = 1..m
  BY <1>2 DEF ReturnsAre
<1>9. QED
  BY <1>1, <1>7, <1>8 DEF Empty

\* What the three families amount to.
Supported(S, D) == BasisAvailable(S, D) \/ (~ Empty(ReturnsOf(S)) /\ ~ Empty(ReturnsOf(D)))

LEMMA RelationReads ==
  ASSUME NEW S, FramesAre(S), NEW D, FramesAre(D)
  PROVE  RelationStatus(S, D) =
           IF \E x \in S \cup D : x.status = "DEGRADED" THEN "DEGRADED"
           ELSE IF (\A x \in S \cup D : x.status = "QUALIFIED") /\ Supported(S, D) THEN "QUALIFIED"
           ELSE IF \E x \in S \cup D : x.status = "QUALIFIED" THEN "DEGRADED" ELSE "UNAVAILABLE"
<1>1. Confirmation(S, D) # "UNAVAILABLE" <=> ~ Empty(ReturnsOf(S)) /\ ~ Empty(ReturnsOf(D))
  BY DEF Confirmation
<1>2. PICK fam : fam = {BasisAvailable(S, D), Len(Aligned(ReturnsOf(S), ReturnsOf(D))) >= MinPairs,
                        Confirmation(S, D) # "UNAVAILABLE"}
  OBVIOUS
<1>3. PICK a \in BOOLEAN, b \in BOOLEAN, c \in BOOLEAN :
        /\ a = BasisAvailable(S, D) /\ b = (Len(Aligned(ReturnsOf(S), ReturnsOf(D))) >= MinPairs)
        /\ c = (Confirmation(S, D) # "UNAVAILABLE") /\ fam = {a, b, c}
  <2>1. BasisAvailable(S, D) \in BOOLEAN
    BY DEF BasisAvailable
  <2>2. (Len(Aligned(ReturnsOf(S), ReturnsOf(D))) >= MinPairs) \in BOOLEAN /\ (Confirmation(S, D) # "UNAVAILABLE") \in BOOLEAN
    OBVIOUS
  <2>3. QED
    BY <1>2, <2>1, <2>2
<1>4. TRUE \in fam <=> Supported(S, D)
  BY <1>1, <1>3, PairsNeedReturns DEF Supported
<1>5. RelationStatus(S, D) =
        IF \E x \in S \cup D : x.status = "DEGRADED" THEN "DEGRADED"
        ELSE IF (\A x \in S \cup D : x.status = "QUALIFIED") /\ TRUE \in fam THEN "QUALIFIED"
        ELSE IF \E x \in S \cup D : x.status = "QUALIFIED" THEN "DEGRADED" ELSE "UNAVAILABLE"
  BY <1>2 DEF RelationStatus
<1>6. QED
  BY <1>4, <1>5
LEMMA NewestMember ==
  ASSUME NEW S, FramesAre(S), S # {}
  PROVE  Newest(S) \in S
  BY NewestIs

\* The frames of one instrument, before and after.
Follows(T, S, f) == T = S \/ T = S \cup {f}

LEMMA NewestFollows ==
  ASSUME NEW i, NEW S, FramesAre(S), S # {}, \A x \in S : x.instrument = i,
         NEW T, FramesAre(T), \A x \in T : x.instrument = i, NEW f, Good(f), Follows(T, S, f)
  PROVE  /\ Newest(S).instrument = i /\ Newest(T).instrument = i
         /\ Newest(S).priced => Newest(T).priced
<1>1. Newest(S) \in S
  BY NewestMember
<1>2. CASE T = S
  BY <1>1, <1>2
<1>3. CASE T = S \cup {f}
  <2>1. Newest(T) \in {f, Newest(S)}
    <3>1. f \in Reports
      BY DEF Good
    <3>2. Newest(S \cup {f}) \in {f, Newest(S)}
      BY <3>1, NewestGrows
    <3>3. QED
      BY <1>3, <3>2
  <2>2. f \in T
    BY <1>3
  <2>3. QED
    BY <1>1, <2>1, <2>2 DEF Good
<1>4. QED
  BY <1>2, <1>3 DEF Follows

LEMMA RelationGrows ==
  ASSUME NEW i, NEW S, FramesAre(S), S # {}, \A x \in S : x.instrument = i,
         NEW j, NEW D, FramesAre(D), D # {}, \A x \in D : x.instrument = j,
         NEW f, Good(f),
         NEW T, FramesAre(T), \A x \in T : x.instrument = i, Follows(T, S, f),
         NEW E, FramesAre(E), \A x \in E : x.instrument = j, Follows(E, D, f)
  PROVE  NotBelow(RelationStatus(S, D), RelationStatus(T, E))
<1>1. PICK old : old = RelationStatus(S, D)
  OBVIOUS
<1>2. PICK new : new = RelationStatus(T, E)
  OBVIOUS
<1>3. old = IF \E x \in S \cup D : x.status = "DEGRADED" THEN "DEGRADED"
            ELSE IF (\A x \in S \cup D : x.status = "QUALIFIED") /\ Supported(S, D) THEN "QUALIFIED"
            ELSE IF \E x \in S \cup D : x.status = "QUALIFIED" THEN "DEGRADED" ELSE "UNAVAILABLE"
  BY <1>1, RelationReads
<1>4. new = IF \E x \in T \cup E : x.status = "DEGRADED" THEN "DEGRADED"
            ELSE IF (\A x \in T \cup E : x.status = "QUALIFIED") /\ Supported(T, E) THEN "QUALIFIED"
            ELSE IF \E x \in T \cup E : x.status = "QUALIFIED" THEN "DEGRADED" ELSE "UNAVAILABLE"
  BY <1>2, RelationReads
<1>5. Supported(S, D) => Supported(T, E)
  <2>1. CASE BasisAvailable(S, D)
    <3>1. Newest(S).instrument = i /\ Newest(T).instrument = i /\ (Newest(S).priced => Newest(T).priced)
      BY NewestFollows
    <3>2. Newest(D).instrument = j /\ Newest(E).instrument = j /\ (Newest(D).priced => Newest(E).priced)
      BY NewestFollows
    <3>3. BasisAvailable(T, E)
      BY <2>1, <3>1, <3>2 DEF BasisAvailable
    <3>4. QED
      BY <3>3 DEF Supported
  <2>2. CASE ~ Empty(ReturnsOf(S)) /\ ~ Empty(ReturnsOf(D))
    <3>1. S \subseteq T /\ D \subseteq E
      BY DEF Follows
    <3>2. ~ Empty(ReturnsOf(T))
      BY <2>2, <3>1, PricedGrow
    <3>3. ~ Empty(ReturnsOf(E))
      BY <2>2, <3>1, PricedGrow
    <3>4. QED
      BY <3>2, <3>3 DEF Supported
  <2>3. QED
    BY <2>1, <2>2 DEF Supported
<1>6. /\ \A x \in T \cup E : x \in S \cup D \/ x.status = "QUALIFIED"
      /\ \A x \in S \cup D : x \in T \cup E
  BY DEF Follows, Good
<1>7. old \in Grades /\ new \in Grades
  BY <1>3, <1>4 DEF Grades
<1>8. old = "QUALIFIED" => new = "QUALIFIED"
  <2>1. HAVE old = "QUALIFIED"
  <2>2. (\A x \in S \cup D : x.status = "QUALIFIED") /\ Supported(S, D)
    BY <1>3, <2>1
  <2>3. \A x \in T \cup E : x.status = "QUALIFIED"
    BY <1>6, <2>2
  <2>4. QED
    BY <1>4, <1>5, <2>2, <2>3
<1>9. old = "DEGRADED" => new # "UNAVAILABLE"
  <2>1. HAVE old = "DEGRADED"
  <2>2. \E x \in S \cup D : x.status \in {"DEGRADED", "QUALIFIED"}
    <3>1. S \cup D # {}
      OBVIOUS
    <3>2. QED
      BY <1>3, <2>1, <3>1
  <2>3. \E x \in T \cup E : x.status \in {"DEGRADED", "QUALIFIED"}
    BY <1>6, <2>2
  <2>4. QED
    BY <1>4, <2>3
<1>10. NotBelow(old, new)
  BY <1>7, <1>8, <1>9, GradesCompare DEF Grades
<1>11. QED
  BY <1>1, <1>2, <1>10

\* What one more good frame does not lower.
Keeps(F, G) ==
  /\ \A t \in Cutoffs :
       LET before == Selected(F, t) after == Selected(G, t)
           was == FeatureQuality(before) is == FeatureQuality(after) IN
       /\ NotBelow(ContextStatus(before), ContextStatus(after))
       /\ \A q \in {"core", "crossAsset", "derivatives"} : NotBelow(was[q], is[q])
  /\ \A s \in Spots, d \in Derivatives :
       Of(F, s) # {} /\ Of(F, d) # {} =>
         NotBelow(RelationStatus(Of(F, s), Of(F, d)), RelationStatus(Of(G, s), Of(G, d)))

LEMMA StatusesAreGrades ==
  ASSUME NEW F
  PROVE  /\ NotBelow(ContextStatus(F), ContextStatus(F))
         /\ \A q \in {"core", "crossAsset", "derivatives"} : NotBelow(FeatureQuality(F)[q], FeatureQuality(F)[q])
<1>1. ContextStatus(F) \in Grades
  BY DEF ContextStatus, Grades
<1>2. ASSUME NEW q \in {"core", "crossAsset", "derivatives"} PROVE FeatureQuality(F)[q] \in Grades
  <2>1. FeatureQuality(F)["core"] \in Grades
    BY DEF FeatureQuality, CoreStatus, Grades
  <2>2. FeatureQuality(F)["crossAsset"] \in Grades
    BY DEF FeatureQuality, Grades
  <2>3. FeatureQuality(F)["derivatives"] \in Grades
    BY DEF FeatureQuality, Grades
  <2>4. QED
    BY <2>1, <2>2, <2>3
<1>3. QED
  BY <1>1, <1>2, GradesCompare

LEMMA GoodFrameKeeps ==
  ASSUME NEW F, FramesAre(F), NEW f, Good(f)
  PROVE  Keeps(F, F \cup {f})
<1>1. PICK G : G = F \cup {f}
  OBVIOUS
<1>2. ASSUME NEW t \in Cutoffs
      PROVE  /\ NotBelow(ContextStatus(Selected(F, t)), ContextStatus(Selected(G, t)))
             /\ \A q \in {"core", "crossAsset", "derivatives"} :
                  NotBelow(FeatureQuality(Selected(F, t))[q], FeatureQuality(Selected(G, t))[q])
  <2>1. PICK B : B = Selected(F, t)
    OBVIOUS
  <2>2. FramesAre(B)
    BY <2>1, FS_Subset DEF FramesAre, Selected
  <2>3. CASE Selected(G, t) = B
    BY <2>1, <2>3, StatusesAreGrades
  <2>4. CASE Selected(G, t) = B \cup {f}
    BY <2>1, <2>2, <2>4, ContextGrows, FamiliesGrow
  <2>5. Selected(G, t) \in {B, B \cup {f}}
    BY <1>1, <2>1 DEF Selected
  <2>6. QED
    BY <2>3, <2>4, <2>5
<1>3. ASSUME NEW s \in Spots, NEW d \in Derivatives, Of(F, s) # {}, Of(F, d) # {}
      PROVE  NotBelow(RelationStatus(Of(F, s), Of(F, d)), RelationStatus(Of(G, s), Of(G, d)))
  <2>1. PICK S, D : S = Of(F, s) /\ D = Of(F, d)
    OBVIOUS
  <2>2. PICK T, E : T = Of(G, s) /\ E = Of(G, d)
    OBVIOUS
  <2>3. FramesAre(G)
    BY <1>1, FramesGrow
  <2>4. FramesAre(S) /\ FramesAre(D) /\ S # {} /\ D # {}
    BY <1>3, <2>1, OfAre
  <2>5. FramesAre(T) /\ FramesAre(E)
    BY <2>2, <2>3, OfAre
  <2>6. (\A x \in S : x.instrument = s) /\ (\A x \in T : x.instrument = s)
    BY <2>1, <2>2 DEF Of
  <2>7. (\A x \in D : x.instrument = d) /\ (\A x \in E : x.instrument = d)
    BY <2>1, <2>2 DEF Of
  <2>8. Follows(T, S, f) /\ Follows(E, D, f)
    <3>1. T = S \/ T = S \cup {f}
      BY <1>1, <2>1, <2>2 DEF Of
    <3>2. E = D \/ E = D \cup {f}
      BY <1>1, <2>1, <2>2 DEF Of
    <3>3. QED
      BY <3>1, <3>2 DEF Follows
  <2>9. NotBelow(RelationStatus(S, D), RelationStatus(T, E))
    BY <2>4, <2>5, <2>6, <2>7, <2>8, RelationGrows
  <2>10. QED
    BY <2>1, <2>2, <2>9
<1>4. Keeps(F, G)
  BY <1>2, <1>3 DEF Keeps
<1>5. QED
  BY <1>1, <1>4

LEMMA ObservingKeeps ==
  ObservedInv /\ [Observe]_observed =>
    [\A f \in observed' \ observed : f.status = "QUALIFIED" /\ f.priced => Keeps(observed, observed')]_observed
<1> SUFFICES ASSUME ObservedInv, Observe, NEW f \in observed' \ observed, f.status = "QUALIFIED", f.priced
             PROVE  Keeps(observed, observed')
  OBVIOUS
<1>1. observed' = observed \cup {f} /\ f \in Reports
  BY DEF Observe
<1>2. PICK F, G : F = observed /\ G = observed'
  OBVIOUS
<1>3. FramesAre(F) /\ Good(f) /\ G = F \cup {f}
  BY <1>1, <1>2 DEF ObservedInv, Good
<1>4. Keeps(F, G)
  BY <1>3, GoodFrameKeeps
<1>5. QED
  BY <1>2, <1>4

\* A qualified frame with a price never lowers the status of a context, of its core,
\* cross-asset and derivatives families, or of a relationship (build_market_context,
\* build_spot_derivative_relationship_state), whatever was observed before it; what
\* is read from aligned returns it may lower.
THEOREM GoodEvidenceHelps == ContextsSpec => GoodEvidenceNeverLowers
<1>1. ObservedInv /\ [Observe]_observed =>
        [\A f \in observed' \ observed : f.status = "QUALIFIED" /\ f.priced =>
           /\ \A t \in Cutoffs :
                LET before == Selected(observed, t) after == Selected(observed', t)
                    was == FeatureQuality(before) is == FeatureQuality(after) IN
                /\ NotBelow(ContextStatus(before), ContextStatus(after))
                /\ \A q \in {"core", "crossAsset", "derivatives"} : NotBelow(was[q], is[q])
           /\ \A s \in Spots, d \in Derivatives :
                Of(observed, s) # {} /\ Of(observed, d) # {} =>
                  NotBelow(RelationStatus(Of(observed, s), Of(observed, d)),
                           RelationStatus(Of(observed', s), Of(observed', d)))]_observed
  BY ObservingKeeps DEF Keeps
<1>2. QED
  BY <1>1, ObservedStart, ObservedStep, PTL DEF ContextsSpec, GoodEvidenceNeverLowers

-----------------------------------------------------------------------------
(* What sorting does.                                                       *)

Values(v, n) == n \in Nat /\ v \in [1..n -> Int]
NotAfter(v, j, i) == v[j] < v[i] \/ (v[j] = v[i] /\ j <= i)
NotAfters(v, i) == {j \in DOMAIN v : NotAfter(v, j, i)}

LEMMA RankOf ==
  ASSUME NEW v, NEW n, Values(v, n), NEW i \in 1..n
  PROVE  /\ IsFiniteSet(NotAfters(v, i)) /\ i \in NotAfters(v, i)
         /\ Rank(v, i) = Cardinality(NotAfters(v, i)) /\ Rank(v, i) \in 1..n
<1>1. PICK U : U = NotAfters(v, i)
  OBVIOUS
<1>2. i \in U /\ U \in SUBSET (1..n) /\ n \in Nat
  BY <1>1 DEF NotAfters, NotAfter, Values
<1>3. IsFiniteSet(1..n) /\ Cardinality(1..n) = n
  BY <1>2, FS_Interval
<1>4. IsFiniteSet(U) /\ Cardinality(U) <= n
  BY <1>2, <1>3, FS_Subset
<1>5. Cardinality(U) \in Nat /\ Cardinality(U) # 0
  BY <1>2, <1>4, FS_CardinalityType, FS_EmptySet
<1>6. Rank(v, i) = Cardinality(U)
  BY <1>1 DEF Rank, NotAfters, NotAfter
<1>7. QED
  BY <1>1, <1>2, <1>4, <1>5, <1>6

LEMMA RanksApart ==
  ASSUME NEW v, NEW n, Values(v, n), NEW i \in 1..n, NEW j \in 1..n, i # j, NotAfter(v, i, j)
  PROVE  Rank(v, i) < Rank(v, j)
<1>1. NotAfters(v, i) \in SUBSET NotAfters(v, j) /\ j \notin NotAfters(v, i)
  BY DEF NotAfters, NotAfter, Values
<1>2. IsFiniteSet(NotAfters(v, j)) /\ IsFiniteSet(NotAfters(v, i)) /\ j \in NotAfters(v, j)
  BY RankOf
<1>3. Cardinality(NotAfters(v, i)) <= Cardinality(NotAfters(v, j)) /\ Cardinality(NotAfters(v, i)) # Cardinality(NotAfters(v, j))
  BY <1>1, <1>2, FS_Subset
<1>4. Cardinality(NotAfters(v, i)) \in Nat /\ Cardinality(NotAfters(v, j)) \in Nat
  BY <1>2, FS_CardinalityType
<1>5. QED
  BY <1>3, <1>4, RankOf

\* Sorted takes the values of v in the order p says.
Sorts(p, v, n) ==
  /\ p \in [1..n -> 1..n] /\ \A i \in 1..n : \E k \in 1..n : p[k] = i
  /\ \A k \in 1..n : Rank(v, p[k]) = k /\ Sorted(v)[k] = v[p[k]]
  /\ \A k, l \in 1..n : k < l => v[p[k]] <= v[p[l]] /\ p[k] # p[l]
  /\ DOMAIN Sorted(v) = 1..n /\ Len(Sorted(v)) = n

LEMMA SortedIs ==
  ASSUME NEW v, NEW n, Values(v, n)
  PROVE  \E p : Sorts(p, v, n)
<1> n \in Nat /\ Len(v) = n /\ DOMAIN v = 1..n /\ \A i \in 1..n : v[i] \in Int
  BY DEF Values
<1>1. PICK q : q = [i \in 1..n |-> Rank(v, i)]
  OBVIOUS
<1>2. q \in [1..n -> 1..n]
  BY <1>1, RankOf
<1>3. \A i, j \in 1..n : i # j => q[i] # q[j]
  <2> SUFFICES ASSUME NEW i \in 1..n, NEW j \in 1..n, i # j PROVE q[i] # q[j]
    OBVIOUS
  <2>1. NotAfter(v, i, j) \/ NotAfter(v, j, i)
    BY DEF NotAfter
  <2>2. q[i] < q[j] \/ q[j] < q[i]
    BY <1>1, <2>1, RanksApart
  <2>3. q[i] \in Int /\ q[j] \in Int
    BY <1>2
  <2>4. QED
    BY <2>2, <2>3
<1>4. q \in Injection(1..n, 1..n)
  BY <1>2, <1>3 DEF Injection, IsInjective
<1>5. IsFiniteSet(1..n)
  BY FS_Interval
<1>6. q \in Surjection(1..n, 1..n)
  BY <1>4, <1>5, FS_Injection
<1>7. PICK p : p = [k \in 1..n |-> CHOOSE i \in 1..n : Rank(v, i) = k]
  OBVIOUS
<1>8. \A k \in 1..n : p[k] \in 1..n /\ Rank(v, p[k]) = k
  <2> TAKE k \in 1..n
  <2>1. \E i \in 1..n : Rank(v, i) = k
    BY <1>1, <1>6 DEF Surjection
  <2>2. QED
    BY <1>7, <2>1
<1>9. p \in [1..n -> 1..n]
  BY <1>7, <1>8
<1>10. \A i \in 1..n : \E k \in 1..n : p[k] = i
  <2> TAKE i \in 1..n
  <2>1. q[i] \in 1..n /\ p[q[i]] \in 1..n /\ q[p[q[i]]] = q[i]
    BY <1>1, <1>2, <1>8
  <2>2. p[q[i]] = i
    BY <1>3, <2>1
  <2>3. QED
    BY <2>1, <2>2
<1>11. \A k, l \in 1..n : k < l => v[p[k]] <= v[p[l]] /\ p[k] # p[l]
  <2> SUFFICES ASSUME NEW k \in 1..n, NEW l \in 1..n, k < l PROVE v[p[k]] <= v[p[l]] /\ p[k] # p[l]
    OBVIOUS
  <2>1. p[k] \in 1..n /\ p[l] \in 1..n /\ p[k] # p[l]
    BY <1>8
  <2>2. CASE NotAfter(v, p[l], p[k])
    <3>1. l < k
      BY <1>8, <2>1, <2>2, RanksApart
    <3>2. QED
      BY <3>1
  <2>3. CASE ~ NotAfter(v, p[l], p[k])
    BY <2>1, <2>3 DEF NotAfter
  <2>4. QED
    BY <2>2, <2>3
<1>12. /\ DOMAIN Sorted(v) = 1..n /\ Len(Sorted(v)) = n
       /\ \A k \in 1..n : Sorted(v)[k] = v[p[k]]
  <2>1. PICK s : s = [k \in 1..n |-> v[p[k]]]
    OBVIOUS
  <2>2. Sorted(v) = s
    BY <1>7, <2>1 DEF Sorted
  <2>3. s \in [1..n -> Int]
    BY <1>9, <2>1
  <2>4. Len(s) = n
    BY <2>3
  <2>5. QED
    BY <2>1, <2>2, <2>4
<1>13. QED
  BY <1>8, <1>9, <1>10, <1>11, <1>12 DEF Sorts

LEMMA SequenceOfSet ==
  ASSUME NEW S \in SUBSET Int, IsFiniteSet(S), NEW v, v = SetToSeq(S)
  PROVE  /\ Values(v, Cardinality(S)) /\ \A i \in DOMAIN v : v[i] \in S
         /\ \A x \in S : \E i \in DOMAIN v : v[i] = x
         /\ \A i, j \in DOMAIN v : v[i] = v[j] => i = j
<1>1. PICK n \in Nat : n = Cardinality(S)
  BY FS_CardinalityType
<1>2. ExistsBijection(1..n, S)
  BY <1>1, FS_CardinalityType
<1>3. \E f \in [1..n -> S] : IsInjective(f)
  BY <1>2 DEF ExistsBijection, Bijection, Injection, IsInjective
<1>4. v \in [1..n -> S] /\ IsInjective(v)
  BY <1>1, <1>3 DEF SetToSeq
<1>5. v \in Injection(1..n, S) /\ IsFiniteSet(1..n) /\ Cardinality(1..n) = n
  BY <1>4, FS_Interval DEF Injection
<1>6. v \in Surjection(1..n, S)
  BY <1>1, <1>5, FS_Injection
<1>7. Len(v) = n /\ DOMAIN v = 1..n
  BY <1>4
<1>8. QED
  BY <1>1, <1>4, <1>6, <1>7 DEF Values, Surjection, IsInjective

\* A set in ascending order.
Ascends(a, S, n) ==
  /\ n \in Nat /\ n = Cardinality(S) /\ DOMAIN a = 1..n /\ Len(a) = n
  /\ \A k \in 1..n : a[k] \in S
  /\ \A x \in S : \E k \in 1..n : a[k] = x
  /\ \A k, l \in 1..n : k < l => a[k] < a[l]

LEMMA AscendingIs ==
  ASSUME NEW S \in SUBSET Int, IsFiniteSet(S)
  PROVE  Ascends(Ascending(S), S, Cardinality(S))
<1>1. PICK v : v = SetToSeq(S)
  OBVIOUS
<1>2. PICK n : n = Cardinality(S)
  OBVIOUS
<1>3. /\ Values(v, n) /\ \A i \in DOMAIN v : v[i] \in S
      /\ \A x \in S : \E i \in DOMAIN v : v[i] = x
      /\ \A i, j \in DOMAIN v : v[i] = v[j] => i = j
  BY <1>1, <1>2, SequenceOfSet
<1>4. PICK p : Sorts(p, v, n)
  BY <1>3, SortedIs
<1>5. Ascending(S) = Sorted(v)
  BY <1>1 DEF Ascending
<1>6. n \in Nat /\ DOMAIN v = 1..n
  BY <1>3 DEF Values
<1>7. \A k \in 1..n : p[k] \in 1..n /\ Sorted(v)[k] = v[p[k]]
  BY <1>4 DEF Sorts
<1>8. \A x \in S : \E k \in 1..n : Sorted(v)[k] = x
  <2> TAKE x \in S
  <2>1. PICK i \in 1..n : v[i] = x
    BY <1>3, <1>6
  <2>2. PICK k \in 1..n : p[k] = i
    BY <1>4 DEF Sorts
  <2>3. QED
    BY <1>7, <2>1, <2>2
<1>9. \A k, l \in 1..n : k < l => Sorted(v)[k] < Sorted(v)[l]
  <2> SUFFICES ASSUME NEW k \in 1..n, NEW l \in 1..n, k < l PROVE Sorted(v)[k] < Sorted(v)[l]
    OBVIOUS
  <2>1. v[p[k]] <= v[p[l]] /\ p[k] # p[l]
    BY <1>4 DEF Sorts
  <2>2. v[p[k]] # v[p[l]] /\ v[p[k]] \in Int /\ v[p[l]] \in Int
    BY <1>3, <1>6, <1>7, <2>1
  <2>3. QED
    BY <1>7, <2>1, <2>2
<1>10. DOMAIN Sorted(v) = 1..n /\ Len(Sorted(v)) = n
  BY <1>4 DEF Sorts
<1>11. QED
  BY <1>2, <1>3, <1>5, <1>6, <1>7, <1>8, <1>9, <1>10 DEF Ascends

\* A percentile is a rank.
LEMMA QuantileRanks ==
  ASSUME NEW v, NEW n, Values(v, n), v # <<>>
  PROVE  QuantilesAreRanks(v)
<1> n \in Nat /\ Len(v) = n /\ DOMAIN v = 1..n /\ \A i \in 1..n : v[i] \in Int
  BY DEF Values
<1>0. n >= 1
  <2>1. SUFFICES ASSUME n = 0 PROVE FALSE
    OBVIOUS
  <2>2. v = <<>>
    BY <2>1
  <2>3. QED
    BY <2>2
<1>1. PICK p : Sorts(p, v, n)
  BY SortedIs
<1>a. SUFFICES ASSUME NEW c \in {50, 90, 99, 100}
               PROVE  /\ 100 * Cardinality({i \in DOMAIN v : v[i] <= Quantile(v, c)}) >= c * Len(v)
                      /\ 100 * Cardinality({i \in DOMAIN v : v[i] < Quantile(v, c)}) < c * Len(v)
  BY DEF QuantilesAreRanks
<1>2. PICK q : q = Quantile(v, c)
  OBVIOUS
<1>3. PICK x \in 1..n : /\ q = Sorted(v)[x]
                        /\ 100 * x >= c * n /\ 100 * (x - 1) < c * n
  <2>1. Len(Sorted(v)) = n
    BY <1>1 DEF Sorts
  <2>2. PICK x : x = (n * c + 99) \div 100
    OBVIOUS
  <2>3. x \in Int /\ 100 * x >= c * n /\ 100 * (x - 1) < c * n
    BY <2>2
  <2>4. x \in 1..n
    BY <1>0, <2>3
  <2>5. q = Sorted(v)[x]
    <3>1. ~ (x < 1)
      BY <2>4
    <3>2. QED
      BY <1>2, <2>1, <2>2, <3>1 DEF Quantile
  <2>6. QED
    BY <2>3, <2>4, <2>5
<1>4. PICK m \in 1..n : m = p[x] /\ q = v[m] /\ Rank(v, m) = x
  BY <1>1, <1>3 DEF Sorts
<1>5. IsFiniteSet(1..n)
  BY FS_Interval
<1>6. PICK A : A = {i \in 1..n : v[i] <= q}
  OBVIOUS
<1>7. PICK B : B = {i \in 1..n : v[i] < q}
  OBVIOUS
<1>8. PICK U : U = NotAfters(v, m)
  OBVIOUS
<1>9. IsFiniteSet(U) /\ Cardinality(U) = x /\ m \in U
  BY <1>4, <1>8, RankOf
<1>10. U \in SUBSET A /\ A \in SUBSET (1..n) /\ B \in SUBSET (U \ {m})
  BY <1>4, <1>6, <1>7, <1>8 DEF NotAfters, NotAfter
<1>11. IsFiniteSet(A) /\ Cardinality(A) >= x
  <2>1. IsFiniteSet(A)
    BY <1>5, <1>10, FS_Subset
  <2>2. Cardinality(U) <= Cardinality(A)
    BY <1>10, <2>1, FS_Subset
  <2>3. Cardinality(A) \in Nat
    BY <2>1, FS_CardinalityType
  <2>4. QED
    BY <1>9, <2>1, <2>2, <2>3
<1>12. Cardinality(B) <= x - 1
  <2>1. IsFiniteSet(U \ {m}) /\ Cardinality(U \ {m}) = x - 1
    BY <1>9, FS_RemoveElement
  <2>2. QED
    BY <1>10, <2>1, FS_Subset
<1>13. Cardinality(A) \in Nat /\ Cardinality(B) \in Nat
  <2>1. IsFiniteSet(B)
    BY <1>5, <1>7, FS_Subset
  <2>2. QED
    BY <1>11, <2>1, FS_CardinalityType
<1>14. 100 * Cardinality(A) >= c * n /\ 100 * Cardinality(B) < c * n
  <2>1. 100 * Cardinality(A) >= 100 * x /\ 100 * Cardinality(B) <= 100 * (x - 1)
    BY <1>11, <1>12, <1>13
  <2>2. c * n \in Int
    OBVIOUS
  <2>3. QED
    BY <1>3, <1>13, <2>1, <2>2
<1>15. QED
  BY <1>2, <1>6, <1>7, <1>14

-----------------------------------------------------------------------------
(* The first occurrences in a stream.                                       *)

FirstPlaces(ms) == {i \in DOMAIN ms : \A k \in 1..(i - 1) : ms[k].seq # ms[i].seq}

\* The first m members of a are those up to i.
CutsAt(a, c, m, i) == \A j \in 1..c : a[j] <= i <=> j <= m

LEMMA NextCut ==
  ASSUME NEW S \in SUBSET Int, NEW a, NEW c, Ascends(a, S, c), NEW m \in 0..c, NEW i \in Int, CutsAt(a, c, m, i)
  PROVE  /\ i + 1 \notin S => CutsAt(a, c, m, i + 1)
         /\ i + 1 \in S => m + 1 \in 1..c /\ a[m + 1] = i + 1 /\ CutsAt(a, c, m + 1, i + 1)
<1>a. c \in Nat /\ \A k \in 1..c : a[k] \in S
  BY DEF Ascends
<1>b. \A x \in S : x \in Int
  OBVIOUS
<1>c. \A k \in 1..c : a[k] \in Int
  BY <1>a, <1>b
<1>d. m \in Int
  BY <1>a
<1> c \in Nat /\ m \in Int /\ \A k \in 1..c : a[k] \in S /\ a[k] \in Int
  BY <1>a, <1>c, <1>d
<1>1. ASSUME i + 1 \notin S PROVE CutsAt(a, c, m, i + 1)
  <2>1. \A j \in 1..c : a[j] <= i + 1 <=> a[j] <= i
    BY <1>1
  <2>2. QED
    BY <2>1 DEF CutsAt
<1>2. ASSUME i + 1 \in S PROVE m + 1 \in 1..c /\ a[m + 1] = i + 1 /\ CutsAt(a, c, m + 1, i + 1)
  <2>1. PICK j \in 1..c : a[j] = i + 1
    BY <1>2 DEF Ascends
  <2>2. j > m
    BY <2>1 DEF CutsAt
  <2>3. m + 1 \in 1..c /\ ~ (a[m + 1] <= i)
    BY <2>2 DEF CutsAt
  <2>4. j = m + 1
    <3>1. ~ (m + 1 < j)
      BY <2>1, <2>3 DEF Ascends
    <3>2. QED
      BY <2>2, <3>1
  <2>5. ASSUME NEW l \in 1..c PROVE a[l] <= i + 1 <=> l <= m + 1
    <3>1. l < j => a[l] < a[j]
      BY DEF Ascends
    <3>2. j < l => a[j] < a[l]
      BY DEF Ascends
    <3>3. QED
      BY <2>1, <2>4, <3>1, <3>2
  <2>6. QED
    BY <2>1, <2>3, <2>4, <2>5 DEF CutsAt
<1>3. QED
  BY <1>1, <1>2

\* How many first occurrences there are up to each message.
Traces(q, ms) ==
  /\ DOMAIN Firsts(ms) = 1..Len(Firsts(ms)) /\ Len(Firsts(ms)) \in Nat
  /\ q \in [0..Len(ms) -> 0..Len(Firsts(ms))] /\ q[0] = 0 /\ q[Len(ms)] = Len(Firsts(ms))
  /\ \A j \in 1..Len(Firsts(ms)) : \E i \in 1..Len(ms) : Firsts(ms)[j] = ms[i]
  /\ \A i \in 1..Len(ms) :
       /\ ms[i].seq \in Seen(ms, i - 1) => q[i] = q[i - 1]
       /\ ms[i].seq \notin Seen(ms, i - 1) => q[i] = q[i - 1] + 1 /\ Firsts(ms)[q[i]] = ms[i]

LEMMA Following ==
  ASSUME NEW ms, Len(ms) \in Nat, DOMAIN ms = 1..Len(ms)
  PROVE  \E q : Traces(q, ms)
<1> PICK n \in Nat : n = Len(ms) /\ DOMAIN ms = 1..n
  OBVIOUS
<1>1. PICK S : S = FirstPlaces(ms)
  OBVIOUS
<1>2. S \in SUBSET Int /\ S \in SUBSET (1..n) /\ IsFiniteSet(S)
  <2>1. IsFiniteSet(1..n)
    BY FS_Interval
  <2>2. S \in SUBSET (1..n)
    BY <1>1 DEF FirstPlaces
  <2>3. IsFiniteSet(S)
    BY <2>1, <2>2, FS_Subset
  <2>4. \A x \in 1..n : x \in Int
    OBVIOUS
  <2>5. S \in SUBSET Int
    BY <2>2, <2>4
  <2>6. QED
    BY <2>2, <2>3, <2>5
<1>3. PICK a : a = Ascending(S)
  OBVIOUS
<1>4. PICK c \in Nat : c = Cardinality(S)
  BY <1>2, FS_CardinalityType
<1>5. Ascends(a, S, c)
  BY <1>2, <1>3, <1>4, AscendingIs
<1>6. PICK e : e = [j \in 1..c |-> ms[a[j]]]
  OBVIOUS
<1>7. Firsts(ms) = e /\ DOMAIN e = 1..c /\ Len(e) = c
  <2>1. DOMAIN a = 1..c
    BY <1>5 DEF Ascends
  <2>2. Firsts(ms) = e
    BY <1>1, <1>3, <1>6, <2>1 DEF Firsts, FirstPlaces
  <2>3. PICK T : T = {e[j] : j \in 1..c}
    OBVIOUS
  <2>4. e \in [1..c -> T]
    BY <1>6, <2>3
  <2>5. e \in Seq(T) /\ Len(e) = c
    BY <2>4
  <2>6. QED
    BY <1>6, <2>2, <2>5
<1> DEFINE I == {i \in Nat : i <= n => \E m \in 0..c : CutsAt(a, c, m, i)}
<1>8. 0 \in I
  <2>1. \A j \in 1..c : a[j] \in 1..n
    BY <1>2, <1>5 DEF Ascends
  <2>2. CutsAt(a, c, 0, 0)
    BY <2>1 DEF CutsAt
  <2>3. QED
    BY <2>2
<1>9. ASSUME NEW i \in Nat, i \in I PROVE i + 1 \in I
  <2> SUFFICES ASSUME i + 1 <= n PROVE \E m \in 0..c : CutsAt(a, c, m, i + 1)
    OBVIOUS
  <2>1. PICK m \in 0..c : CutsAt(a, c, m, i)
    BY <1>9
  <2>2. \/ CutsAt(a, c, m, i + 1)
        \/ m + 1 \in 1..c /\ CutsAt(a, c, m + 1, i + 1)
    BY <1>2, <1>5, <2>1, NextCut
  <2>3. QED
    BY <2>2
<1>10. Nat \subseteq I
  <2> HIDE DEF I
  <2>1. QED
    BY <1>8, <1>9, Inductive
<1>11. PICK q : q = [i \in 0..n |-> CHOOSE m \in 0..c : CutsAt(a, c, m, i)]
  OBVIOUS
<1>12. \A i \in 0..n : q[i] \in 0..c /\ CutsAt(a, c, q[i], i)
  <2> TAKE i \in 0..n
  <2>1. \E m \in 0..c : CutsAt(a, c, m, i)
    BY <1>10
  <2>2. QED
    BY <1>11, <2>1
<1>13. ASSUME NEW i \in 0..n, NEW m \in 0..c, CutsAt(a, c, m, i) PROVE q[i] = m
  <2>1. q[i] \in 0..c /\ CutsAt(a, c, q[i], i)
    BY <1>12
  <2>2. \A j \in 1..c : j <= m <=> j <= q[i]
    BY <1>13, <2>1 DEF CutsAt
  <2>3. QED
    BY <2>1, <2>2
<1>14. q[0] = 0
  <2>1. \A j \in 1..c : a[j] \in 1..n
    BY <1>2, <1>5 DEF Ascends
  <2>2. CutsAt(a, c, 0, 0)
    BY <2>1 DEF CutsAt
  <2>3. QED
    BY <1>13, <2>2
<1>15. q[n] = c
  <2>1. \A j \in 1..c : a[j] \in 1..n
    BY <1>2, <1>5 DEF Ascends
  <2>2. CutsAt(a, c, c, n)
    BY <2>1 DEF CutsAt
  <2>3. QED
    BY <1>13, <2>2
<1>16. ASSUME NEW i \in 1..n
       PROVE  /\ ms[i].seq \in Seen(ms, i - 1) => q[i] = q[i - 1]
              /\ ms[i].seq \notin Seen(ms, i - 1) => q[i] = q[i - 1] + 1 /\ e[q[i]] = ms[i]
  <2>1. i \in S <=> ms[i].seq \notin Seen(ms, i - 1)
    BY <1>1 DEF FirstPlaces, Seen
  <2>2. i - 1 \in 0..n /\ i - 1 \in Int /\ (i - 1) + 1 = i /\ i \in 0..n
    OBVIOUS
  <2>3. q[i - 1] \in 0..c /\ CutsAt(a, c, q[i - 1], i - 1)
    BY <1>12, <2>2
  <2>4. PICK m \in 0..c : m = q[i - 1]
    BY <2>3
  <2>5. /\ i \notin S => CutsAt(a, c, m, i)
        /\ i \in S => m + 1 \in 1..c /\ a[m + 1] = i /\ CutsAt(a, c, m + 1, i)
    <3>1. PICK k \in Int : k = i - 1 /\ k + 1 = i
      BY <2>2
    <3>2. CutsAt(a, c, m, k)
      BY <2>3, <2>4, <3>1
    <3>3. /\ k + 1 \notin S => CutsAt(a, c, m, k + 1)
          /\ k + 1 \in S => m + 1 \in 1..c /\ a[m + 1] = k + 1 /\ CutsAt(a, c, m + 1, k + 1)
      BY <1>2, <1>5, <3>2, NextCut
    <3>4. QED
      BY <3>1, <3>3
  <2>6. CASE i \notin S
    <3>1. q[i] = m
      BY <1>13, <2>2, <2>5, <2>6
    <3>2. QED
      BY <2>1, <2>4, <2>6, <3>1
  <2>7. CASE i \in S
    <3>1. m + 1 \in 1..c /\ a[m + 1] = i /\ CutsAt(a, c, m + 1, i)
      BY <2>5, <2>7
    <3>2. m + 1 \in 0..c
      BY <3>1
    <3>3. q[i] = m + 1
      BY <1>13, <2>2, <3>1, <3>2
    <3>4. e[m + 1] = ms[i]
      BY <1>6, <3>1
    <3>5. QED
      BY <2>1, <2>4, <2>7, <3>3, <3>4
  <2>8. QED
    BY <2>6, <2>7
<1>17. \A j \in 1..c : \E i \in 1..n : e[j] = ms[i]
  BY <1>2, <1>5, <1>6 DEF Ascends
<1>18. q \in [0..n -> 0..c]
  BY <1>11, <1>12
<1>19. Traces(q, ms)
  BY <1>7, <1>14, <1>15, <1>16, <1>17, <1>18 DEF Traces
<1>20. QED
  BY <1>19

\* What a replay has reported of the numbers of the first occurrences.
InLine(fs, m) == \A j \in 1..(m - 1) : fs[j + 1].seq = fs[j].seq + 1
Traced(s, fs, m, i) ==
  /\ s.duplicates = i - m
  /\ (s.gaps = {} /\ s.disorder = {}) <=> InLine(fs, m)
  /\ m = 0 => s.last = Absent
  /\ m > 0 => s.last # Absent /\ (InLine(fs, m) => s.last = fs[m].seq)

LEMMA TracedStep ==
  ASSUME NEW s, NEW seen \in SUBSET Int, Evident(s, seen), NEW x, WellFormed(x), NEW t, t = ReplayRecord(s, x),
         NEW fs, NEW m \in Nat, NEW i \in Nat, Traced(s, fs, m, i)
  PROVE  /\ x.seq \in seen => Traced(t, fs, m, i + 1)
         /\ x.seq \notin seen /\ fs[m + 1] = x => Traced(t, fs, m + 1, i + 1)
<1>0. DOMAIN s = Fields /\ DOMAIN s.identities = seen /\ x.seq \in Int
  BY DEF Evident, WellFormed
<1>1. ASSUME x.seq \in seen PROVE Traced(t, fs, m, i + 1)
  <2>1. /\ t.last = s.last /\ t.gaps = s.gaps /\ t.disorder = s.disorder /\ t.duplicates = s.duplicates + 1
    BY <1>0, <1>1, OneRecord
  <2>2. s.duplicates = i - m
    BY DEF Traced
  <2>3. t.duplicates = (i + 1) - m
    BY <2>1, <2>2
  <2>4. QED
    BY <2>1, <2>3 DEF Traced
<1>2. ASSUME x.seq \notin seen, fs[m + 1] = x PROVE Traced(t, fs, m + 1, i + 1)
  <2>1. /\ t.last = Later(s.last, x.seq) /\ t.duplicates = s.duplicates
        /\ t.gaps = s.gaps \cup Gap(s, x.seq) /\ t.disorder = s.disorder \cup Disorder(s, x.seq)
    BY <1>0, <1>2, OneRecord
  <2>2. t.duplicates = (i + 1) - (m + 1)
    BY <2>1 DEF Traced
  <2>3. CASE m = 0
    <3>1. s.last = Absent
      BY <2>3 DEF Traced
    <3>2. Gap(s, x.seq) = {} /\ Disorder(s, x.seq) = {} /\ t.last = x.seq
      BY <2>1, <3>1 DEF Gap, Disorder, Later
    <3>3. s.gaps = {} /\ s.disorder = {} <=> InLine(fs, 0)
      BY <2>3 DEF Traced
    <3>4. InLine(fs, 0) /\ InLine(fs, m + 1)
      BY <2>3 DEF InLine
    <3>5. t.last # Absent
      BY <1>0, <3>2, AbsentIsNoTime
    <3>6. QED
      BY <1>2, <2>1, <2>2, <2>3, <3>2, <3>3, <3>4, <3>5 DEF Traced
  <2>4. CASE m > 0
    <3>1. s.last # Absent /\ (InLine(fs, m) => s.last = fs[m].seq)
      BY <2>4 DEF Traced
    <3>2. s.last \in seen /\ s.last \in Int
      BY <3>1 DEF Evident
    <3>3. x.seq # s.last
      BY <1>2, <3>2
    <3>4. Gap(s, x.seq) = {} /\ Disorder(s, x.seq) = {} <=> x.seq = s.last + 1
      <4>1. Gap(s, x.seq) = {} <=> ~ (x.seq > s.last + 1)
        BY <3>1 DEF Gap
      <4>2. Disorder(s, x.seq) = {} <=> ~ (x.seq < s.last)
        BY <3>1 DEF Disorder
      <4>3. QED
        BY <1>0, <3>2, <3>3, <4>1, <4>2
    <3>5. t.gaps = {} /\ t.disorder = {} <=>
            s.gaps = {} /\ s.disorder = {} /\ Gap(s, x.seq) = {} /\ Disorder(s, x.seq) = {}
      BY <2>1
    <3>6. s.gaps = {} /\ s.disorder = {} <=> InLine(fs, m)
      BY DEF Traced
    <3>7. InLine(fs, m + 1) <=> InLine(fs, m) /\ fs[m + 1].seq = fs[m].seq + 1
      <4>1. 1..((m + 1) - 1) = (1..(m - 1)) \cup {m}
        BY <2>4
      <4>2. QED
        BY <4>1 DEF InLine
    <3>8. t.gaps = {} /\ t.disorder = {} <=> InLine(fs, m + 1)
      BY <1>2, <3>1, <3>4, <3>5, <3>6, <3>7
    <3>9. t.last # Absent
      BY <1>0, <2>1, <3>1, <3>2, AbsentIsNoTime DEF Later
    <3>10. InLine(fs, m + 1) => t.last = fs[m + 1].seq
      <4>1. InLine(fs, m + 1) => x.seq = s.last + 1
        BY <1>2, <3>1, <3>7
      <4>2. x.seq = s.last + 1 => Later(s.last, x.seq) = x.seq
        BY <1>0, <3>2 DEF Later
      <4>3. QED
        BY <1>2, <2>1, <4>1, <4>2
    <3>11. QED
      BY <2>2, <3>8, <3>9, <3>10 DEF Traced
  <2>5. QED
    BY <2>3, <2>4
<1>3. QED
  BY <1>1, <1>2

\* What is a duplicate is counted, and gaps or disorder are reported exactly if
\* the first occurrences did not come one after the other.
LEMMA NumbersTraced ==
  ASSUME NEW ms, WellFormedStream(ms)
  PROVE  LET summary == ReplayRecords(ms)
         IN  /\ summary.duplicates = Len(ms) - Len(Firsts(ms))
             /\ (summary.gaps = {} /\ summary.disorder = {}) <=> Consecutive(Firsts(ms))
<1> PICK n \in Nat : n = Len(ms) /\ DOMAIN ms = 1..n /\ \A i \in 1..n : WellFormed(ms[i])
  BY DEF WellFormedStream
<1>1. PICK f : Replays(f, ms)
  BY ReplayStages
<1>2. PICK q : Traces(q, ms)
  BY Following
<1>3. PICK fs : fs = Firsts(ms)
  OBVIOUS
<1> DEFINE I == {i \in Nat : i <= n => Traced(f[i], fs, q[i], i)}
<1>4. 0 \in I
  <2>1. f[0] = Unread /\ q[0] = 0
    BY <1>1, <1>2 DEF Replays, Traces
  <2>2. InLine(fs, 0)
    BY DEF InLine
  <2>3. Traced(Unread, fs, 0, 0)
    BY <2>2 DEF Traced, Unread
  <2>4. QED
    BY <2>1, <2>3
<1>5. ASSUME NEW i \in Nat, i \in I PROVE i + 1 \in I
  <2> SUFFICES ASSUME i + 1 <= n PROVE Traced(f[i + 1], fs, q[i + 1], i + 1)
    OBVIOUS
  <2>1. i + 1 \in 1..n /\ (i + 1) - 1 = i /\ i \in 0..n
    OBVIOUS
  <2>2. f[i + 1] = ReplayRecord(f[i], ms[i + 1]) /\ Evident(f[i], Seen(ms, i)) /\ Seen(ms, i) \in SUBSET Int
    BY <1>1, <2>1 DEF Replays
  <2>3. PICK m \in Nat : m = q[i]
    BY <1>2, <2>1 DEF Traces
  <2>4. Traced(f[i], fs, m, i) /\ WellFormed(ms[i + 1])
    BY <1>5, <2>1, <2>3
  <2>5. /\ ms[i + 1].seq \in Seen(ms, i) => Traced(f[i + 1], fs, m, i + 1)
        /\ ms[i + 1].seq \notin Seen(ms, i) /\ fs[m + 1] = ms[i + 1] => Traced(f[i + 1], fs, m + 1, i + 1)
    BY <2>2, <2>4, TracedStep
  <2>6. /\ ms[i + 1].seq \in Seen(ms, i) => q[i + 1] = m
        /\ ms[i + 1].seq \notin Seen(ms, i) => q[i + 1] = m + 1 /\ fs[m + 1] = ms[i + 1]
    BY <1>2, <1>3, <2>1, <2>3 DEF Traces
  <2>7. QED
    BY <2>5, <2>6
<1>6. Nat \subseteq I
  <2> HIDE DEF I
  <2>1. QED
    BY <1>4, <1>5, Inductive
<1>7. Traced(f[n], fs, Len(fs), n) /\ Len(fs) \in Nat
  BY <1>2, <1>3, <1>6 DEF Traces
<1>8. ReplayRecords(ms) = f[n]
  BY <1>1 DEF Replays
<1>9. InLine(fs, Len(fs)) <=> Consecutive(fs)
  BY DEF InLine, Consecutive
<1>10. QED
  BY <1>3, <1>7, <1>8, <1>9 DEF Traced

-----------------------------------------------------------------------------
(* The book of a replay and the last word on each level.                    *)

Level(book, side, price) == IF price \in DOMAIN book[side] THEN book[side][price] ELSE 0
Words(all, side, price) ==
  {i \in DOMAIN all.list : all.list[i][1] = all.era /\ all.list[i][2].side = side /\ all.list[i][2].price = price}
LastWord(all, side, price) ==
  IF Words(all, side, price) = {} THEN 0 ELSE all.list[Max(Words(all, side, price))][2].quantity

LEMMA BookLevelIs ==
  \A ms, side, price : BookLevel(ms, side, price) = LastWord(Updates(ms), side, price)
BY DEF BookLevel, LastWord, Words

Sides == {"bid", "offer"}
Booked(book) ==
  /\ DOMAIN book = Sides
  /\ \A side \in Sides : /\ DOMAIN book[side] \in SUBSET Nat /\ IsFiniteSet(DOMAIN book[side])
                         /\ \A p \in DOMAIN book[side] : book[side][p] \in Nat \ {0}
Accounts == [era : Nat, list : Seq(Nat \X BookUpdate)]
Tells(all, book) ==
  /\ all \in Accounts /\ \A i \in DOMAIN all.list : all.list[i][1] <= all.era
  /\ Booked(book)
  /\ \A side \in Sides, price \in Nat : LastWord(all, side, price) = Level(book, side, price)

LEMMA EmptyTells ==
  ASSUME NEW all \in Accounts, \A i \in DOMAIN all.list : all.list[i][1] < all.era
  PROVE  Tells(all, EmptyBook)
<1>1. \A side, price : Words(all, side, price) = {}
  <2>1. \A i \in DOMAIN all.list : all.list[i][1] \in Nat /\ all.era \in Nat
    BY DEF Accounts
  <2>2. QED
    BY <2>1 DEF Words
<1>2. \A side, price : LastWord(all, side, price) = 0
  BY <1>1 DEF LastWord
<1>3. \A side \in Sides : EmptyBook[side] = <<>> /\ DOMAIN EmptyBook[side] = {}
  BY DEF EmptyBook, Sides
<1>4. Booked(EmptyBook)
  <2>1. DOMAIN EmptyBook = Sides
    BY DEF EmptyBook, Sides
  <2>2. QED
    BY <1>3, <2>1, FS_EmptySet DEF Booked
<1>5. \A side \in Sides, price \in Nat : Level(EmptyBook, side, price) = 0
  BY <1>3 DEF Level
<1>6. \A i \in DOMAIN all.list : all.list[i][1] <= all.era
  BY DEF Accounts
<1>7. QED
  BY <1>2, <1>4, <1>5, <1>6 DEF Tells

\* One more update.
Noted(all, u) == [era |-> all.era, list |-> Append(all.list, <<all.era, u>>)]

LEMMA UpdateBook ==
  ASSUME NEW book, Booked(book), NEW u \in BookUpdate
  PROVE  /\ Booked(Update(book, u))
         /\ \A side \in Sides, price \in Nat :
              Level(Update(book, u), side, price) =
                IF side = u.side /\ price = u.price THEN u.quantity ELSE Level(book, side, price)
<1>0. u.side \in Sides /\ u.price \in Nat /\ u.quantity \in Nat
  BY DEF BookUpdate, Sides
<1>1. PICK l : l = Put(book[u.side], u.price, u.quantity)
  OBVIOUS
<1>2. PICK new : new = Update(book, u)
  OBVIOUS
<1>3. DOMAIN new = Sides /\ new[u.side] = l /\ \A side \in Sides : side # u.side => new[side] = book[side]
  BY <1>0, <1>1, <1>2 DEF Update, Booked
<1>4. /\ DOMAIN l = IF u.quantity = 0 THEN DOMAIN book[u.side] \ {u.price} ELSE DOMAIN book[u.side] \cup {u.price}
      /\ \A p \in DOMAIN l : l[p] = IF p = u.price THEN u.quantity ELSE book[u.side][p]
  BY <1>1 DEF Put
<1>5. DOMAIN book[u.side] \in SUBSET Nat /\ IsFiniteSet(DOMAIN book[u.side])
  BY <1>0 DEF Booked
<1>6. DOMAIN l \in SUBSET Nat /\ IsFiniteSet(DOMAIN l)
  <2>1. IsFiniteSet(DOMAIN book[u.side] \ {u.price}) /\ IsFiniteSet(DOMAIN book[u.side] \cup {u.price})
    BY <1>5, FS_RemoveElement, FS_AddElement
  <2>2. QED
    BY <1>0, <1>4, <1>5, <2>1
<1>7. \A p \in DOMAIN l : l[p] \in Nat \ {0}
  BY <1>0, <1>4 DEF Booked
<1>8. Booked(new)
  BY <1>3, <1>6, <1>7 DEF Booked
<1>9. ASSUME NEW side \in Sides, NEW price \in Nat
      PROVE  Level(new, side, price) =
               IF side = u.side /\ price = u.price THEN u.quantity ELSE Level(book, side, price)
  <2>1. CASE side = u.side
    BY <1>3, <1>4, <2>1 DEF Level
  <2>2. CASE side # u.side
    BY <1>3, <2>2 DEF Level
  <2>3. QED
    BY <2>1, <2>2
<1>10. QED
  BY <1>2, <1>8, <1>9

LEMMA UpdateWords ==
  ASSUME NEW all \in Accounts, NEW u \in BookUpdate
  PROVE  /\ Noted(all, u) \in Accounts
         /\ \A side \in Sides, price \in Nat :
              LastWord(Noted(all, u), side, price) =
                IF side = u.side /\ price = u.price THEN u.quantity ELSE LastWord(all, side, price)
<1>0. all.era \in Nat /\ all.list \in Seq(Nat \X BookUpdate)
  BY DEF Accounts
<1>1. PICK n \in Nat : n = Len(all.list) /\ DOMAIN all.list = 1..n
  BY <1>0
<1>2. PICK w : w = <<all.era, u>>
  OBVIOUS
<1>3. PICK l : l = Append(all.list, w)
  OBVIOUS
<1>4. PICK new : new = Noted(all, u)
  OBVIOUS
<1>5. new = [era |-> all.era, list |-> l]
  BY <1>2, <1>3, <1>4 DEF Noted
<1>6. new.era = all.era /\ new.list = l
  BY <1>5
<1>7. w \in Nat \X BookUpdate
  BY <1>0, <1>2
<1>8. l \in Seq(Nat \X BookUpdate) /\ DOMAIN l = 1..(n + 1) /\ l[n + 1] = w
  BY <1>0, <1>1, <1>3, <1>7
<1>9. \A i \in 1..n : l[i] = all.list[i]
  BY <1>0, <1>1, <1>3, <1>7
<1>10. new \in Accounts
  BY <1>0, <1>5, <1>8 DEF Accounts
<1>11. w[1] = all.era /\ w[2] = u
  BY <1>2
<1>12. ASSUME NEW side \in Sides, NEW price \in Nat
       PROVE  LastWord(new, side, price) =
                IF side = u.side /\ price = u.price THEN u.quantity ELSE LastWord(all, side, price)
  <2>1. PICK W : W = Words(new, side, price)
    OBVIOUS
  <2>2. PICK V : V = Words(all, side, price)
    OBVIOUS
  <2>3. V \in SUBSET (1..n)
    BY <1>1, <2>2 DEF Words
  <2>4. CASE side = u.side /\ price = u.price
    <3>1. W \in SUBSET (1..(n + 1)) /\ n + 1 \in W
      BY <1>6, <1>8, <1>11, <2>1, <2>4 DEF Words
    <3>2. Max(W) = n + 1
      BY <3>1, Largest
    <3>3. QED
      BY <1>6, <1>8, <1>11, <2>1, <2>4, <3>1, <3>2 DEF LastWord
  <2>5. CASE ~ (side = u.side /\ price = u.price)
    <3>1. \A i \in 1..(n + 1) : i \in W <=> i \in V
      <4>1. TAKE i \in 1..(n + 1)
      <4>2. CASE i = n + 1
        BY <1>6, <1>8, <1>11, <2>1, <2>3, <2>5, <4>2 DEF Words
      <4>3. CASE i # n + 1
        <5>1. i \in 1..n
          BY <4>3
        <5>2. QED
          BY <1>1, <1>6, <1>8, <1>9, <2>1, <2>2, <5>1 DEF Words
      <4>4. QED
        BY <4>2, <4>3
    <3>2. W \in SUBSET (1..(n + 1))
      BY <1>6, <1>8, <2>1 DEF Words
    <3>3. W = V
      <4>1. \A i \in 1..n : i \in 1..(n + 1)
        OBVIOUS
      <4>2. \A i : i \in W <=> i \in V
        BY <2>3, <3>1, <3>2, <4>1
      <4>3. QED
        BY <4>2
    <3>4. CASE V = {}
      BY <2>1, <2>2, <2>5, <3>3, <3>4 DEF LastWord
    <3>5. CASE V # {}
      <4>1. Max(V) \in V
        <5>1. IsFiniteSet(1..n)
          BY FS_Interval
        <5>2. V \in SUBSET Nat /\ \A x \in V : x <= n
          BY <2>3
        <5>3. \E x \in V : \A y \in V : x >= y
          BY <3>5, <5>2, GreatestOf
        <5>4. QED
          BY <5>3 DEF Max
      <4>2. l[Max(V)] = all.list[Max(V)]
        BY <1>9, <2>3, <4>1
      <4>3. QED
        BY <1>6, <2>1, <2>2, <2>5, <3>3, <3>5, <4>2 DEF LastWord
    <3>6. QED
      BY <3>4, <3>5
  <2>6. QED
    BY <2>4, <2>5
<1>13. QED
  BY <1>4, <1>10, <1>12

LEMMA UpdateTells ==
  ASSUME NEW all, NEW book, Tells(all, book), NEW u \in BookUpdate
  PROVE  Tells(Noted(all, u), Update(book, u))
<1>1. all \in Accounts /\ Booked(book)
  BY DEF Tells
<1>2. PICK new : new = Noted(all, u)
  OBVIOUS
<1>3. new \in Accounts
  BY <1>1, <1>2, UpdateWords
<1>4. \A i \in DOMAIN new.list : new.list[i][1] <= new.era
  <2>1. all.era \in Nat /\ all.list \in Seq(Nat \X BookUpdate) /\ <<all.era, u>> \in Nat \X BookUpdate
    BY <1>1 DEF Accounts
  <2>2. new.era = all.era /\ new.list = Append(all.list, <<all.era, u>>)
    BY <1>2 DEF Noted
  <2>3. TAKE i \in DOMAIN new.list
  <2>4. (i \in DOMAIN all.list /\ new.list[i] = all.list[i]) \/ new.list[i] = <<all.era, u>>
    BY <2>1, <2>2
  <2>5. QED
    BY <2>1, <2>2, <2>4 DEF Tells
<1>5. Booked(Update(book, u))
  BY <1>1, UpdateBook
<1>6. ASSUME NEW side \in Sides, NEW price \in Nat
      PROVE  LastWord(new, side, price) = Level(Update(book, u), side, price)
  <2>1. LastWord(all, side, price) = Level(book, side, price)
    BY DEF Tells
  <2>2. QED
    BY <1>1, <1>2, <2>1, UpdateBook, UpdateWords
<1>7. QED
  BY <1>2, <1>3, <1>4, <1>5, <1>6 DEF Tells

\* The events of a message, one after the other.
Applied(state, es) == FoldLeft(ApplyEvent, state, es)

LEMMA Applying ==
  ASSUME NEW state, NEW es, NEW n \in Nat, DOMAIN es = 1..n
  PROVE  \E f : /\ f[0] = state /\ Applied(state, es) = f[n]
                /\ \A i \in 1..n : f[i] = ApplyEvent(f[i - 1], es[i])
<1>1. PICK h : h = CHOOSE g : g = [s \in SUBSET DOMAIN es |-> EventRow(g, s, state, es)]
  OBVIOUS
<1>2. Applied(state, es) = h[DOMAIN es]
  BY <1>1 DEF Applied, FoldLeft, MapThenFoldSet, EventRow
<1>3. \E g : g = [s \in SUBSET DOMAIN es |-> EventRow(g, s, state, es)]
  <2>1. EventRows(n, state, es)
    BY EventTable
  <2>2. QED
    BY <2>1 DEF EventRows
<1>4. h = [s \in SUBSET DOMAIN es |-> EventRow(h, s, state, es)]
  BY <1>1, <1>3
<1>5. PICK f : f = [i \in 0..n |-> h[1..i]]
  OBVIOUS
<1>6. ASSUME NEW i \in 1..n PROVE f[i] = ApplyEvent(f[i - 1], es[i])
  <2>1. /\ 1..i \in SUBSET DOMAIN es /\ (1..i) \ {i} = 1..(i - 1)
        /\ i \in 1..i /\ i - 1 \in 0..n /\ i \in 0..n
    OBVIOUS
  <2>2. Max(1..i) = i
    <3>1. i - 1 \in Nat /\ (i - 1) + 1 = i /\ 1..i \in SUBSET (1..i)
      OBVIOUS
    <3>2. QED
      BY <2>1, <3>1, Largest
  <2>3. h[1..i] = ApplyEvent(h[1..(i - 1)], es[i])
    BY <1>4, <2>1, <2>2 DEF EventRow
  <2>4. QED
    BY <1>5, <2>1, <2>3
<1>7. f[0] = state
  <2>1. 1..0 = {} /\ {} \in SUBSET DOMAIN es /\ 0 \in 0..n
    OBVIOUS
  <2>2. QED
    BY <1>4, <1>5, <2>1 DEF EventRow
<1>8. f[n] = h[DOMAIN es]
  BY <1>5
<1>9. QED
  BY <1>2, <1>6, <1>7, <1>8

\* The updates of an event.
UpdateRow(g, s, book, es) == IF s = {} THEN book ELSE Update(g[s \ {Max(s)}], es[Max(s)])
UpdateRows(g, n, book, es) == g = [s \in SUBSET (1..n) |-> UpdateRow(g, s, book, es)]

LEMMA UpdateTable == \A book, es : \A n \in Nat : \E g : UpdateRows(g, n, book, es)
<1> SUFFICES ASSUME NEW book, NEW es
             PROVE  \A n \in Nat : \E g : g = [s \in SUBSET (1..n) |-> UpdateRow(g, s, book, es)]
  BY DEF UpdateRows
<1> DEFINE S == {n \in Nat : \E g : g = [s \in SUBSET (1..n) |-> UpdateRow(g, s, book, es)]}
<1>1. 0 \in S
  <2>1. PICK g : g = [s \in SUBSET (1..0) |-> book]
    OBVIOUS
  <2>2. \A s \in SUBSET (1..0) : UpdateRow(g, s, book, es) = book
    BY DEF UpdateRow
  <2>3. g = [s \in SUBSET (1..0) |-> UpdateRow(g, s, book, es)]
    BY <2>1, <2>2
  <2>4. QED
    BY <2>3
<1>2. ASSUME NEW n \in Nat, n \in S PROVE n + 1 \in S
  <2>1. PICK h : h = [s \in SUBSET (1..n) |-> UpdateRow(h, s, book, es)]
    BY <1>2
  <2>2. PICK g : g = [s \in SUBSET (1..(n + 1)) |->
                        IF n + 1 \in s THEN Update(h[s \ {n + 1}], es[n + 1]) ELSE h[s]]
    OBVIOUS
  <2>3. \A s \in SUBSET (1..(n + 1)) : n + 1 \notin s => s \in SUBSET (1..n)
    OBVIOUS
  <2>4. \A s \in SUBSET (1..n) : s \in SUBSET (1..(n + 1)) /\ n + 1 \notin s /\ g[s] = h[s]
    BY <2>2
  <2>5. ASSUME NEW s \in SUBSET (1..(n + 1)) PROVE g[s] = UpdateRow(g, s, book, es)
    <3>1. CASE n + 1 \in s
      <4>1. Max(s) = n + 1 /\ s # {}
        BY <3>1, Largest
      <4>2. s \ {n + 1} \in SUBSET (1..n)
        OBVIOUS
      <4>3. g[s \ {n + 1}] = h[s \ {n + 1}]
        BY <2>4, <4>2
      <4>4. g[s] = Update(h[s \ {n + 1}], es[n + 1])
        BY <2>2, <3>1
      <4>5. QED
        BY <4>1, <4>3, <4>4 DEF UpdateRow
    <3>2. CASE n + 1 \notin s
      <4>1. s \in SUBSET (1..n) /\ g[s] = h[s] /\ h[s] = UpdateRow(h, s, book, es)
        BY <2>1, <2>3, <2>4, <3>2
      <4>2. g[s \ {Max(s)}] = h[s \ {Max(s)}]
        <5>1. s \ {Max(s)} \in SUBSET (1..n)
          BY <4>1
        <5>2. QED
          BY <2>4, <5>1
      <4>3. QED
        BY <4>1, <4>2 DEF UpdateRow
    <3>3. QED
      BY <3>1, <3>2
  <2>6. g = [s \in SUBSET (1..(n + 1)) |-> UpdateRow(g, s, book, es)]
    BY <2>2, <2>5
  <2>7. QED
    BY <2>6
<1>3. QED
  BY <1>1, <1>2, Inductive

Updated(book, es) == FoldLeft(Update, book, es)

LEMMA Updating ==
  ASSUME NEW book, NEW es, NEW n \in Nat, DOMAIN es = 1..n
  PROVE  \E f : /\ f[0] = book /\ Updated(book, es) = f[n]
                /\ \A i \in 1..n : f[i] = Update(f[i - 1], es[i])
<1>1. PICK h : h = CHOOSE g : g = [s \in SUBSET DOMAIN es |-> UpdateRow(g, s, book, es)]
  OBVIOUS
<1>2. Updated(book, es) = h[DOMAIN es]
  BY <1>1 DEF Updated, FoldLeft, MapThenFoldSet, UpdateRow
<1>3. \E g : g = [s \in SUBSET DOMAIN es |-> UpdateRow(g, s, book, es)]
  <2>1. \E g : UpdateRows(g, n, book, es)
    BY UpdateTable
  <2>2. QED
    BY <2>1 DEF UpdateRows
<1>4. h = [s \in SUBSET DOMAIN es |-> UpdateRow(h, s, book, es)]
  BY <1>1, <1>3
<1>5. PICK f : f = [i \in 0..n |-> h[1..i]]
  OBVIOUS
<1>6. ASSUME NEW i \in 1..n PROVE f[i] = Update(f[i - 1], es[i])
  <2>1. /\ 1..i \in SUBSET DOMAIN es /\ (1..i) \ {i} = 1..(i - 1)
        /\ i \in 1..i /\ i - 1 \in 0..n /\ i \in 0..n
    OBVIOUS
  <2>2. Max(1..i) = i
    <3>1. i - 1 \in Nat /\ (i - 1) + 1 = i /\ 1..i \in SUBSET (1..i)
      OBVIOUS
    <3>2. QED
      BY <2>1, <3>1, Largest
  <2>3. h[1..i] = Update(h[1..(i - 1)], es[i])
    BY <1>4, <2>1, <2>2 DEF UpdateRow
  <2>4. QED
    BY <1>5, <2>1, <2>3
<1>7. f[0] = book
  <2>1. 1..0 = {} /\ {} \in SUBSET DOMAIN es /\ 0 \in 0..n
    OBVIOUS
  <2>2. QED
    BY <1>4, <1>5, <2>1 DEF UpdateRow
<1>8. f[n] = h[DOMAIN es]
  BY <1>5
<1>9. QED
  BY <1>2, <1>6, <1>7, <1>8

\* An event in the account of all updates.
Told(all, event) ==
  LET era == IF event.type = "snapshot" THEN all.era + 1 ELSE all.era
  IN  [era |-> era, list |-> all.list \o [i \in DOMAIN event.updates |-> <<era, event.updates[i]>>]]
NothingTold == [era |-> 0, list |-> <<>>]

ToldRow(g, s, es) == IF s = {} THEN NothingTold ELSE Told(g[s \ {Max(s)}], es[Max(s)])
ToldRows(g, n, es) == g = [s \in SUBSET (1..n) |-> ToldRow(g, s, es)]

LEMMA ToldTable == \A es : \A n \in Nat : \E g : ToldRows(g, n, es)
<1> SUFFICES ASSUME NEW es
             PROVE  \A n \in Nat : \E g : g = [s \in SUBSET (1..n) |-> ToldRow(g, s, es)]
  BY DEF ToldRows
<1> DEFINE S == {n \in Nat : \E g : g = [s \in SUBSET (1..n) |-> ToldRow(g, s, es)]}
<1>1. 0 \in S
  <2>1. PICK g : g = [s \in SUBSET (1..0) |-> NothingTold]
    OBVIOUS
  <2>2. \A s \in SUBSET (1..0) : ToldRow(g, s, es) = NothingTold
    BY DEF ToldRow
  <2>3. g = [s \in SUBSET (1..0) |-> ToldRow(g, s, es)]
    BY <2>1, <2>2
  <2>4. QED
    BY <2>3
<1>2. ASSUME NEW n \in Nat, n \in S PROVE n + 1 \in S
  <2>1. PICK h : h = [s \in SUBSET (1..n) |-> ToldRow(h, s, es)]
    BY <1>2
  <2>2. PICK g : g = [s \in SUBSET (1..(n + 1)) |->
                        IF n + 1 \in s THEN Told(h[s \ {n + 1}], es[n + 1]) ELSE h[s]]
    OBVIOUS
  <2>3. \A s \in SUBSET (1..(n + 1)) : n + 1 \notin s => s \in SUBSET (1..n)
    OBVIOUS
  <2>4. \A s \in SUBSET (1..n) : s \in SUBSET (1..(n + 1)) /\ n + 1 \notin s /\ g[s] = h[s]
    BY <2>2
  <2>5. ASSUME NEW s \in SUBSET (1..(n + 1)) PROVE g[s] = ToldRow(g, s, es)
    <3>1. CASE n + 1 \in s
      <4>1. Max(s) = n + 1 /\ s # {}
        BY <3>1, Largest
      <4>2. s \ {n + 1} \in SUBSET (1..n)
        OBVIOUS
      <4>3. g[s \ {n + 1}] = h[s \ {n + 1}]
        BY <2>4, <4>2
      <4>4. g[s] = Told(h[s \ {n + 1}], es[n + 1])
        BY <2>2, <3>1
      <4>5. QED
        BY <4>1, <4>3, <4>4 DEF ToldRow
    <3>2. CASE n + 1 \notin s
      <4>1. s \in SUBSET (1..n) /\ g[s] = h[s] /\ h[s] = ToldRow(h, s, es)
        BY <2>1, <2>3, <2>4, <3>2
      <4>2. g[s \ {Max(s)}] = h[s \ {Max(s)}]
        <5>1. s \ {Max(s)} \in SUBSET (1..n)
          BY <4>1
        <5>2. QED
          BY <2>4, <5>1
      <4>3. QED
        BY <4>1, <4>2 DEF ToldRow
    <3>3. QED
      BY <3>1, <3>2
  <2>6. g = [s \in SUBSET (1..(n + 1)) |-> ToldRow(g, s, es)]
    BY <2>2, <2>5
  <2>7. QED
    BY <2>6
<1>3. QED
  BY <1>1, <1>2, Inductive

EventsOf(ms) ==
  FlattenSeq([i \in DOMAIN ms |-> IF LogicalChannel(ms[i].channel) = "level2" THEN ms[i].events ELSE <<>>])

AllTold(es) == FoldLeft(Told, NothingTold, es)

LEMMA Telling ==
  ASSUME NEW es, NEW n \in Nat, DOMAIN es = 1..n
  PROVE  \E f : /\ f[0] = NothingTold /\ AllTold(es) = f[n]
                /\ \A i \in 1..n : f[i] = Told(f[i - 1], es[i])
<1>1. PICK h : h = CHOOSE g : g = [s \in SUBSET DOMAIN es |-> ToldRow(g, s, es)]
  OBVIOUS
<1>2. AllTold(es) = h[DOMAIN es]
  BY <1>1 DEF AllTold, FoldLeft, MapThenFoldSet, ToldRow
<1>3. \E g : g = [s \in SUBSET DOMAIN es |-> ToldRow(g, s, es)]
  <2>1. \E g : ToldRows(g, n, es)
    BY ToldTable
  <2>2. QED
    BY <2>1 DEF ToldRows
<1>4. h = [s \in SUBSET DOMAIN es |-> ToldRow(h, s, es)]
  BY <1>1, <1>3
<1>5. PICK f : f = [i \in 0..n |-> h[1..i]]
  OBVIOUS
<1>6. ASSUME NEW i \in 1..n PROVE f[i] = Told(f[i - 1], es[i])
  <2>1. /\ 1..i \in SUBSET DOMAIN es /\ (1..i) \ {i} = 1..(i - 1)
        /\ i \in 1..i /\ i - 1 \in 0..n /\ i \in 0..n
    OBVIOUS
  <2>2. Max(1..i) = i
    <3>1. i - 1 \in Nat /\ (i - 1) + 1 = i /\ 1..i \in SUBSET (1..i)
      OBVIOUS
    <3>2. QED
      BY <2>1, <3>1, Largest
  <2>3. h[1..i] = Told(h[1..(i - 1)], es[i])
    BY <1>4, <2>1, <2>2 DEF ToldRow
  <2>4. QED
    BY <1>5, <2>1, <2>3
<1>7. f[0] = NothingTold
  <2>1. 1..0 = {} /\ {} \in SUBSET DOMAIN es /\ 0 \in 0..n
    OBVIOUS
  <2>2. QED
    BY <1>4, <1>5, <2>1 DEF ToldRow
<1>8. f[n] = h[DOMAIN es]
  BY <1>5
<1>9. QED
  BY <1>2, <1>6, <1>7, <1>8

LEMMA UpdatesAre ==
  ASSUME NEW ms
  PROVE  Updates(ms) = AllTold(EventsOf(ms))
BY DEF AllTold, Updates, EventsOf, Told, NothingTold

\* Flattening: the parts one after the other.
Flattens(f, ss, n, E) ==
  /\ f[0] = <<>> /\ f[n] = FlattenSeq(ss)
  /\ \A i \in 1..n : f[i] = f[i - 1] \o ss[i]
  /\ \A i \in 0..n : f[i] \in Seq(E)

FlatRow(g, i, ss) == IF i = 1 THEN ss[i] ELSE g[i - 1] \o ss[i]

LEMMA FlatTable ==
  ASSUME NEW ss
  PROVE  \A n \in Nat : \E g : g = [i \in 1..n |-> FlatRow(g, i, ss)]
<1> DEFINE S == {n \in Nat : \E g : g = [i \in 1..n |-> FlatRow(g, i, ss)]}
<1>1. 0 \in S
  <2>1. PICK g : g = [i \in 1..0 |-> ss[i]]
    OBVIOUS
  <2>2. g = [i \in 1..0 |-> FlatRow(g, i, ss)]
    BY <2>1
  <2>3. QED
    BY <2>2
<1>2. ASSUME NEW n \in Nat, n \in S PROVE n + 1 \in S
  <2>1. PICK h : h = [i \in 1..n |-> FlatRow(h, i, ss)]
    BY <1>2
  <2>2. PICK g : g = [i \in 1..(n + 1) |-> FlatRow(h, i, ss)]
    OBVIOUS
  <2>3. \A i \in 1..n : g[i] = h[i]
    BY <2>1, <2>2
  <2>4. \A i \in 1..(n + 1) : i # 1 => i - 1 \in 1..n
    OBVIOUS
  <2>5. \A i \in 1..(n + 1) : FlatRow(h, i, ss) = FlatRow(g, i, ss)
    BY <2>3, <2>4 DEF FlatRow
  <2>6. g = [i \in 1..(n + 1) |-> FlatRow(g, i, ss)]
    BY <2>2, <2>5
  <2>7. QED
    BY <2>6
<1>3. QED
  BY <1>1, <1>2, Inductive

LEMMA Flattening ==
  ASSUME NEW E, NEW n \in Nat, NEW ss \in [1..n -> Seq(E)]
  PROVE  \E f : Flattens(f, ss, n, E)
<1>0. DOMAIN ss = 1..n /\ Len(ss) = n /\ \A i \in 1..n : ss[i] \in Seq(E)
  OBVIOUS
<1>1. CASE n = 0
  <2>1. ss = <<>>
    BY <1>1
  <2>2. FlattenSeq(ss) = <<>>
    BY <1>0, <1>1, <2>1 DEF FlattenSeq
  <2>3. PICK f : f = [i \in 0..0 |-> <<>>]
    OBVIOUS
  <2>4. f[0] = <<>> /\ <<>> \in Seq(E)
    BY <2>3
  <2>5. Flattens(f, ss, n, E)
    <3>1. f[0] = <<>> /\ f[n] = FlattenSeq(ss)
      BY <1>1, <2>2, <2>4
    <3>2. \A i \in 1..n : f[i] = f[i - 1] \o ss[i]
      BY <1>1
    <3>3. \A i \in 0..n : i = 0
      BY <1>1
    <3>4. \A i \in 0..n : f[i] \in Seq(E)
      BY <2>4, <3>3
    <3>5. QED
      BY <3>1, <3>2, <3>4 DEF Flattens
  <2>6. QED
    BY <2>5
<1>2. CASE n # 0
  <2>1. PICK h : h = CHOOSE g : g = [i \in 1..n |-> FlatRow(g, i, ss)]
    OBVIOUS
  <2>2. \E g : g = [i \in 1..n |-> FlatRow(g, i, ss)]
    BY FlatTable
  <2>3. h = [i \in 1..n |-> FlatRow(h, i, ss)]
    BY <2>1, <2>2
  <2>4. FlattenSeq(ss) = h[n]
    BY <1>0, <1>2, <2>1 DEF FlattenSeq, FlatRow
  <2>5. PICK f : f = [i \in 0..n |-> IF i = 0 THEN <<>> ELSE h[i]]
    OBVIOUS
  <2>6. f[0] = <<>> /\ f[n] = h[n]
    BY <1>2, <2>5
  <2>7. \A i \in 1..n : f[i] = IF i = 1 THEN ss[i] ELSE f[i - 1] \o ss[i]
    <3> TAKE i \in 1..n
    <3>1. f[i] = h[i] /\ h[i] = FlatRow(h, i, ss)
      <4>1. f[i] = h[i]
        BY <2>5
      <4>2. h[i] = FlatRow(h, i, ss)
        BY <2>3
      <4>3. QED
        BY <4>1, <4>2
    <3>2. CASE i = 1
      BY <3>1, <3>2 DEF FlatRow
    <3>3. CASE i # 1
      <4>1. i - 1 \in 0..n /\ i - 1 # 0
        BY <3>3
      <4>2. f[i - 1] = h[i - 1]
        BY <2>5, <4>1
      <4>3. QED
        BY <3>1, <3>3, <4>2 DEF FlatRow
    <3>4. QED
      BY <3>2, <3>3
  <2>8. \A i \in 1..n : f[i] = f[i - 1] \o ss[i]
    <3> TAKE i \in 1..n
    <3>1. CASE i = 1
      <4>1. f[i - 1] = <<>> /\ ss[i] \in Seq(E)
        BY <1>0, <2>6, <3>1
      <4>2. QED
        BY <2>7, <3>1, <4>1
    <3>2. CASE i # 1
      BY <2>7, <3>2
    <3>3. QED
      BY <3>1, <3>2
  <2> DEFINE I == {i \in Nat : i <= n => f[i] \in Seq(E)}
  <2>9. 0 \in I
    <3>1. <<>> \in Seq(E)
      OBVIOUS
    <3>2. f[0] \in Seq(E)
      BY <2>6, <3>1
    <3>3. QED
      BY <3>2
  <2>10. ASSUME NEW i \in Nat, i \in I PROVE i + 1 \in I
    <3> SUFFICES ASSUME i + 1 <= n PROVE f[i + 1] \in Seq(E)
      OBVIOUS
    <3>1. i + 1 \in 1..n /\ (i + 1) - 1 = i /\ f[i] \in Seq(E)
      BY <2>10
    <3>2. f[i + 1] = f[i] \o ss[i + 1] /\ ss[i + 1] \in Seq(E)
      BY <1>0, <2>8, <3>1
    <3>3. QED
      BY <3>1, <3>2
  <2>11. Nat \subseteq I
    <3> HIDE DEF I
    <3>1. QED
      BY <2>9, <2>10, Inductive
  <2>12. Flattens(f, ss, n, E)
    <3>1. \A i \in 0..n : f[i] \in Seq(E)
      BY <2>11
    <3>2. f[0] = <<>> /\ f[n] = FlattenSeq(ss)
      BY <2>4, <2>6
    <3>3. QED
      BY <2>8, <3>1, <3>2 DEF Flattens
  <2>13. QED
    BY <2>12
<1>3. QED
  BY <1>1, <1>2

\* What a part holds stays in its place.
Stays(f, m, n) ==
  /\ Len(f[m]) \in Nat /\ Len(f[m]) <= Len(f[n])
  /\ \A k \in 1..Len(f[m]) : f[n][k] = f[m][k]

LEMMA PartsStay ==
  ASSUME NEW E, NEW n \in Nat, NEW ss \in [1..n -> Seq(E)], NEW f, Flattens(f, ss, n, E),
         NEW m \in 0..n
  PROVE  Stays(f, m, n)
<1> DEFINE I == {d \in Nat : m + d <= n => Len(f[m]) <= Len(f[m + d]) /\ \A k \in 1..Len(f[m]) : f[m + d][k] = f[m][k]}
<1>0. \A i \in 0..n : f[i] \in Seq(E) /\ Len(f[i]) \in Nat
  BY DEF Flattens
<1>1. 0 \in I
  BY <1>0
<1>2. ASSUME NEW d \in Nat, d \in I PROVE d + 1 \in I
  <2> SUFFICES ASSUME m + (d + 1) <= n
               PROVE  Len(f[m]) <= Len(f[m + (d + 1)]) /\ \A k \in 1..Len(f[m]) : f[m + (d + 1)][k] = f[m][k]
    OBVIOUS
  <2>1. PICK i \in 0..n : i = m + d /\ i + 1 = m + (d + 1) /\ i + 1 \in 1..n
    OBVIOUS
  <2>2. Len(f[m]) <= Len(f[i]) /\ \A k \in 1..Len(f[m]) : f[i][k] = f[m][k]
    BY <1>2, <2>1
  <2>3. f[i + 1] = f[i] \o ss[i + 1] /\ ss[i + 1] \in Seq(E) /\ f[i] \in Seq(E)
    <3>1. f[i + 1] = f[(i + 1) - 1] \o ss[i + 1]
      BY <2>1 DEF Flattens
    <3>2. (i + 1) - 1 = i
      BY <2>1
    <3>3. ss[i + 1] \in Seq(E) /\ f[i] \in Seq(E)
      BY <1>0, <2>1
    <3>4. QED
      BY <3>1, <3>2, <3>3
  <2>4. Len(f[i]) <= Len(f[i + 1]) /\ \A k \in 1..Len(f[i]) : f[i + 1][k] = f[i][k]
    <3>1. PICK a \in Seq(E) : a = f[i]
      BY <2>3
    <3>2. PICK b \in Seq(E) : b = ss[i + 1]
      BY <2>3
    <3>3. Len(a \o b) = Len(a) + Len(b) /\ \A k \in 1..Len(a) : (a \o b)[k] = a[k]
      OBVIOUS
    <3>4. Len(a) \in Nat /\ Len(b) \in Nat
      OBVIOUS
    <3>5. f[i + 1] = a \o b
      BY <2>3, <3>1, <3>2
    <3>6. QED
      BY <3>1, <3>3, <3>4, <3>5
  <2>5. \A k \in 1..Len(f[m]) : k \in 1..Len(f[i])
    BY <1>0, <2>2
  <2>6. f[m + (d + 1)] = f[i + 1]
    BY <2>1
  <2>7. QED
    BY <1>0, <2>1, <2>2, <2>4, <2>5, <2>6
<1>3. Nat \subseteq I
  <2> HIDE DEF I
  <2>1. QED
    BY <1>1, <1>2, Inductive
<1>4. n - m \in Nat /\ m + (n - m) = n
  OBVIOUS
<1>5. PICK d \in Nat : d = n - m
  BY <1>4
<1>6. d \in I /\ m + d = n
  BY <1>3, <1>4, <1>5
<1>7. Len(f[m]) <= Len(f[m + d]) /\ \A k \in 1..Len(f[m]) : f[m + d][k] = f[m][k]
  BY <1>6
<1>8. QED
  BY <1>0, <1>6, <1>7 DEF Stays

-----------------------------------------------------------------------------
(* The features of a book.                                                  *)

LEMMA OneSum ==
  ASSUME NEW S, IsFiniteSet(S), NEW T, IsFiniteSet(T), NEW v, NEW g, Sums(g, S, v), NEW h, Sums(h, T, v)
  PROVE  \A s \in SUBSET S : s \in SUBSET T => g[s] = h[s]
<1> DEFINE I == {n \in Nat : \A s \in Upto(S, n) : s \in SUBSET T => g[s] = h[s]}
<1>1. \A s \in SUBSET S : g[s] = SumRow(g, s, v)
  BY DEF Sums
<1>2. \A s \in SUBSET T : h[s] = SumRow(h, s, v)
  BY DEF Sums
<1>3. 0 \in I
  <2>1. \A s \in Upto(S, 0) : s = {} /\ s \in SUBSET S
    <3>1. TAKE s \in Upto(S, 0)
    <3>2. IsFiniteSet(s) /\ Cardinality(s) <= 0 /\ s \in SUBSET S
      BY FS_Subset DEF Upto
    <3>3. Cardinality(s) \in Nat
      BY <3>2, FS_CardinalityType
    <3>4. QED
      BY <3>2, <3>3, FS_EmptySet
  <2>2. {} \in SUBSET S /\ {} \in SUBSET T
    OBVIOUS
  <2>3. g[{}] = 0 /\ h[{}] = 0
    BY <1>1, <1>2, <2>2 DEF SumRow
  <2>4. QED
    BY <2>1, <2>3
<1>4. ASSUME NEW n \in Nat, n \in I PROVE n + 1 \in I
  <2> SUFFICES ASSUME NEW s \in Upto(S, n + 1), s \in SUBSET T PROVE g[s] = h[s]
    OBVIOUS
  <2>1. s \in SUBSET S
    BY DEF Upto
  <2>2. CASE s = {}
    BY <1>1, <1>2, <2>1, <2>2 DEF SumRow
  <2>3. CASE s # {}
    <3>1. PICK r : r = s \ {CHOOSE x \in s : TRUE}
      OBVIOUS
    <3>2. r \in Upto(S, n) /\ r \in SUBSET T
      BY <2>3, <3>1, SmallerSet
    <3>3. g[r] = h[r]
      BY <1>4, <3>2
    <3>4. g[s] = SumRow(g, s, v) /\ h[s] = SumRow(h, s, v)
      BY <1>1, <1>2, <2>1
    <3>5. SumRow(g, s, v) = SumRow(h, s, v)
      BY <2>3, <3>1, <3>3 DEF SumRow
    <3>6. QED
      BY <3>4, <3>5
  <2>4. QED
    BY <2>2, <2>3
<1>5. Nat \subseteq I
  <2> HIDE DEF I
  <2>1. QED
    BY <1>3, <1>4, Inductive
<1>6. PICK c \in Nat : c = Cardinality(S) /\ Upto(S, c) = SUBSET S
  BY UptoAll
<1>7. QED
  BY <1>5, <1>6

LEMMA SumExists ==
  ASSUME NEW S, IsFiniteSet(S), NEW v
  PROVE  \E g : Sums(g, S, v)
<1>1. PICK c \in Nat : c = Cardinality(S) /\ Upto(S, c) = SUBSET S
  BY UptoAll
<1>2. PICK g : SumsUpto(g, S, c, v)
  BY <1>1, SumTable
<1>3. Sums(g, S, v)
  BY <1>1, <1>2 DEF Sums, SumsUpto
<1>4. QED
  BY <1>3

LEMMA SumOverIs ==
  ASSUME NEW S, IsFiniteSet(S), NEW levels
  PROVE  \E g : Sums(g, S, levels) /\ SumOver(levels, S) = g[S]
<1>1. PICK h : h = CHOOSE g : g = [s \in SUBSET S |-> SumRow(g, s, levels)]
  OBVIOUS
<1>2. \E g : g = [s \in SUBSET S |-> SumRow(g, s, levels)]
  <2>1. PICK g : Sums(g, S, levels)
    BY SumExists
  <2>2. QED
    BY <2>1 DEF Sums
<1>3. Sums(h, S, levels)
  BY <1>1, <1>2 DEF Sums
<1>4. SumOver(levels, S) = h[S]
  BY <1>1 DEF SumOver, FoldSet, MapThenFoldSet, SumRow
<1>5. QED
  BY <1>3, <1>4

LEMMA SumStep ==
  ASSUME NEW s, IsFiniteSet(s), NEW levels
  PROVE  /\ s = {} => SumOver(levels, s) = 0
         /\ s # {} => LET c == CHOOSE x \in s : TRUE
                      IN  c \in s /\ SumOver(levels, s) = SumOver(levels, s \ {c}) + levels[c]
<1>1. PICK g : Sums(g, s, levels) /\ SumOver(levels, s) = g[s]
  BY SumOverIs
<1>2. s \in SUBSET s /\ g[s] = SumRow(g, s, levels)
  BY <1>1 DEF Sums
<1>3. CASE s = {}
  BY <1>1, <1>2, <1>3 DEF SumRow
<1>4. CASE s # {}
  <2>1. PICK c : c = CHOOSE x \in s : TRUE
    OBVIOUS
  <2>2. c \in s
    BY <1>4, <2>1
  <2>3. PICK r : r = s \ {c}
    OBVIOUS
  <2>4. IsFiniteSet(r) /\ r \in SUBSET s
    BY <2>3, FS_RemoveElement
  <2>5. PICK h : Sums(h, r, levels) /\ SumOver(levels, r) = h[r]
    BY <2>4, SumOverIs
  <2>6. h[r] = g[r]
    BY <1>1, <2>4, <2>5, OneSum
  <2>7. g[s] = g[r] + levels[c]
    BY <1>2, <1>4, <2>1, <2>3 DEF SumRow
  <2>8. QED
    BY <1>1, <1>4, <2>1, <2>2, <2>3, <2>5, <2>6, <2>7
<1>5. QED
  BY <1>3, <1>4

\* A sum of quantities, of which any member may come last.
Adding(levels, s) ==
  /\ SumOver(levels, s) \in Nat
  /\ \A x \in s : SumOver(levels, s) = levels[x] + SumOver(levels, s \ {x})

LEMMA AddingAll ==
  ASSUME NEW S, IsFiniteSet(S), NEW levels, \A x \in S : levels[x] \in Nat
  PROVE  \A s \in SUBSET S : Adding(levels, s)
<1> DEFINE I == {n \in Nat : \A s \in Upto(S, n) : Adding(levels, s)}
<1>1. 0 \in I
  <2>1. \A s \in Upto(S, 0) : s = {}
    <3>1. TAKE s \in Upto(S, 0)
    <3>2. IsFiniteSet(s) /\ Cardinality(s) <= 0
      BY FS_Subset DEF Upto
    <3>3. Cardinality(s) \in Nat
      BY <3>2, FS_CardinalityType
    <3>4. QED
      BY <3>2, <3>3, FS_EmptySet
  <2>2. SumOver(levels, {}) = 0
    BY FS_EmptySet, SumStep
  <2>3. Adding(levels, {})
    BY <2>2 DEF Adding
  <2>4. QED
    BY <2>1, <2>3
<1>2. ASSUME NEW n \in Nat, n \in I PROVE n + 1 \in I
  <2> SUFFICES ASSUME NEW s \in Upto(S, n + 1) PROVE Adding(levels, s)
    OBVIOUS
  <2>1. s \in SUBSET S /\ IsFiniteSet(s)
    BY FS_Subset DEF Upto
  <2>2. CASE s = {}
    BY <2>1, <2>2, SumStep DEF Adding
  <2>3. CASE s # {}
    <3>1. PICK c : c = CHOOSE x \in s : TRUE
      OBVIOUS
    <3>2. c \in s /\ SumOver(levels, s) = SumOver(levels, s \ {c}) + levels[c]
      BY <2>1, <2>3, <3>1, SumStep
    <3>3. s \ {c} \in Upto(S, n)
      BY <2>3, <3>1, SmallerSet
    <3>4. Adding(levels, s \ {c})
      BY <1>2, <3>3
    <3>5. SumOver(levels, s \ {c}) \in Nat /\ levels[c] \in Nat
      BY <2>1, <3>2, <3>4 DEF Adding
    <3>6. ASSUME NEW x \in s PROVE SumOver(levels, s) = levels[x] + SumOver(levels, s \ {x})
      <4>1. CASE x = c
        BY <3>2, <3>5, <4>1
      <4>2. CASE x # c
        <5>1. x \in s \ {c} /\ c \in s \ {x} /\ levels[x] \in Nat
          BY <2>1, <3>2, <4>2
        <5>2. PICK r : r = (s \ {c}) \ {x} /\ r = (s \ {x}) \ {c}
          OBVIOUS
        <5>3. SumOver(levels, s \ {c}) = levels[x] + SumOver(levels, r)
          BY <3>4, <5>1, <5>2 DEF Adding
        <5>4. s \ {x} \in Upto(S, n)
          <6>1. Cardinality(s \ {x}) = Cardinality(s) - 1 /\ Cardinality(s) \in Nat /\ Cardinality(s) <= n + 1
            BY <2>1, FS_RemoveElement, FS_CardinalityType DEF Upto
          <6>2. QED
            BY <2>1, <6>1 DEF Upto
        <5>5. Adding(levels, s \ {x})
          BY <1>2, <5>4
        <5>6. SumOver(levels, s \ {x}) = levels[c] + SumOver(levels, r)
          BY <5>1, <5>2, <5>5 DEF Adding
        <5>7. r \in Upto(S, n)
          <6>1. IsFiniteSet(s \ {x}) /\ r \in SUBSET (s \ {x})
            BY <2>1, <5>2, FS_RemoveElement
          <6>2. Cardinality(r) <= Cardinality(s \ {x}) /\ IsFiniteSet(r)
            BY <6>1, FS_Subset
          <6>3. Cardinality(r) \in Nat /\ Cardinality(s \ {x}) \in Nat
            BY <6>1, <6>2, FS_CardinalityType
          <6>4. QED
            BY <2>1, <5>2, <5>4, <6>2, <6>3 DEF Upto
        <5>8. SumOver(levels, r) \in Nat
          BY <1>2, <5>7 DEF Adding
        <5>9. QED
          BY <3>2, <3>5, <5>1, <5>3, <5>6, <5>8
      <4>3. QED
        BY <4>1, <4>2
    <3>7. QED
      <4>1. SumOver(levels, s) \in Nat
        BY <3>2, <3>5
      <4>2. QED
        BY <3>6, <4>1 DEF Adding
  <2>4. QED
    BY <2>2, <2>3
<1>3. Nat \subseteq I
  <2> HIDE DEF I
  <2>1. QED
    BY <1>1, <1>2, Inductive
<1>4. PICK c \in Nat : c = Cardinality(S) /\ Upto(S, c) = SUBSET S
  BY UptoAll
<1>5. QED
  BY <1>3, <1>4

LEMMA MoreIsDeeper ==
  ASSUME NEW S, IsFiniteSet(S), NEW levels, \A x \in S : levels[x] \in Nat, NEW t \in SUBSET S
  PROVE  \A s \in SUBSET S : t \subseteq s => SumOver(levels, t) <= SumOver(levels, s)
<1> DEFINE I == {n \in Nat : \A s \in Upto(S, n) : t \subseteq s => SumOver(levels, t) <= SumOver(levels, s)}
<1>0. \A s \in SUBSET S : Adding(levels, s)
  BY AddingAll
<1>1. \A s \in SUBSET S : SumOver(levels, s) \in Nat
  BY <1>0 DEF Adding
<1>2. ASSUME NEW n \in Nat, \A k \in Nat : k < n => k \in I PROVE n \in I
  <2> SUFFICES ASSUME NEW s \in Upto(S, n), t \subseteq s PROVE SumOver(levels, t) <= SumOver(levels, s)
    OBVIOUS
  <2>1. s \in SUBSET S /\ IsFiniteSet(s) /\ Cardinality(s) <= n
    BY FS_Subset DEF Upto
  <2>2. CASE s = t
    BY <1>1, <2>1, <2>2
  <2>3. CASE s # t
    <3>1. PICK x \in s : x \notin t
      BY <2>3
    <3>2. Cardinality(s \ {x}) = Cardinality(s) - 1 /\ Cardinality(s) \in Nat /\ IsFiniteSet(s \ {x})
      BY <2>1, <3>1, FS_RemoveElement, FS_CardinalityType
    <3>3. Cardinality(s \ {x}) \in Nat
      BY <3>2, FS_CardinalityType
    <3>4. n - 1 \in Nat /\ n - 1 < n /\ s \ {x} \in Upto(S, n - 1)
      BY <2>1, <3>2, <3>3 DEF Upto
    <3>5. SumOver(levels, t) <= SumOver(levels, s \ {x})
      BY <1>2, <3>1, <3>4
    <3>6. SumOver(levels, s) = levels[x] + SumOver(levels, s \ {x}) /\ levels[x] \in Nat
      BY <1>0, <2>1, <3>1 DEF Adding
    <3>7. SumOver(levels, s) \in Nat /\ SumOver(levels, t) \in Nat /\ SumOver(levels, s \ {x}) \in Nat
      BY <1>1, <2>1
    <3>8. QED
      BY <3>5, <3>6, <3>7
  <2>4. QED
    BY <2>2, <2>3
<1>3. Nat \subseteq I
  <2> HIDE DEF I
  <2>1. SUFFICES ASSUME Nat \ I # {} PROVE FALSE
    OBVIOUS
  <2>2. PICK m \in Nat \ I : \A k \in Nat \ I : ~ (k < m)
    BY <2>1, FirstNumber
  <2>3. QED
    BY <1>2, <2>2
<1>4. PICK c \in Nat : c = Cardinality(S) /\ Upto(S, c) = SUBSET S
  BY UptoAll
<1>5. QED
  BY <1>3, <1>4

LEMMA ExtremesAre ==
  ASSUME NEW S \in SUBSET Nat, S # {}, IsFiniteSet(S)
  PROVE  /\ Max(S) \in S /\ \A x \in S : x <= Max(S)
         /\ Min(S) \in S /\ \A x \in S : Min(S) <= x
<1>1. Ascends(Ascending(S), S, Cardinality(S))
  BY AscendingIs
<1>2. PICK a, n : Ascends(a, S, n)
  BY <1>1
<1>3. n \in Nat /\ \A k \in 1..n : a[k] \in S /\ a[k] \in Nat
  BY <1>2 DEF Ascends
<1>4. 1 \in 1..n /\ n \in 1..n
  <2>1. PICK x \in S : TRUE
    OBVIOUS
  <2>2. PICK k \in 1..n : a[k] = x
    BY <1>2, <2>1 DEF Ascends
  <2>3. QED
    BY <1>3, <2>2
<1>5. ASSUME NEW x \in S PROVE a[1] <= x /\ x <= a[n]
  <2>1. PICK k \in 1..n : a[k] = x
    BY <1>2 DEF Ascends
  <2>2. (1 < k => a[1] < a[k]) /\ (k < n => a[k] < a[n])
    BY <1>2, <1>4, <2>1 DEF Ascends
  <2>3. QED
    BY <1>3, <1>4, <2>1, <2>2
<1>6. a[1] \in S /\ a[n] \in S
  BY <1>3, <1>4
<1>7. (\A y \in S : a[n] >= y) /\ (\A y \in S : a[1] <= y)
  BY <1>3, <1>5, <1>6
<1>8. Max(S) \in S /\ \A y \in S : Max(S) >= y
  <2>1. \E x \in S : \A y \in S : x >= y
    BY <1>6, <1>7
  <2>2. QED
    BY <2>1 DEF Max
<1>9. Min(S) \in S /\ \A y \in S : Min(S) <= y
  <2>1. \E x \in S : \A y \in S : x <= y
    BY <1>6, <1>7
  <2>2. QED
    BY <2>1 DEF Min
<1>10. QED
  BY <1>8, <1>9

\* A side of a book.
Side(levels) ==
  /\ DOMAIN levels \in SUBSET Nat /\ IsFiniteSet(DOMAIN levels)
  /\ \A p \in DOMAIN levels : levels[p] \in Nat

From(prices, bound) == {p \in prices : 20000 * p >= bound}
UpTo(prices, bound) == {p \in prices : 20000 * p <= bound}

LEMMA WiderIsDeeper ==
  ASSUME NEW book, Side(book.bid), Side(book.offer), TwoSided(book),
         NEW band \in {0, 500, 2000}, NEW wider \in {0, 500, 2000}, band <= wider
  PROVE  BidDepth(book, band) <= BidDepth(book, wider) /\ AskDepth(book, band) <= AskDepth(book, wider)
<1>1. Midpoint2(book) \in Nat
  <2>1. Max(DOMAIN book.bid) \in Nat /\ Min(DOMAIN book.offer) \in Nat
    BY ExtremesAre DEF Side, TwoSided
  <2>2. QED
    BY <2>1 DEF Midpoint2
<1>2. PICK m \in Nat : m = Midpoint2(book)
  BY <1>1
<1>3. PICK u \in Int, v \in Int : u = m * (10000 - band) /\ v = m * (10000 - wider)
  OBVIOUS
<1>4. PICK y \in Int, z \in Int : y = m * (10000 + band) /\ z = m * (10000 + wider)
  OBVIOUS
<1>5. v <= u /\ y <= z
  <2>1. \A a, b \in Int : a <= b => m * a <= m * b
    OBVIOUS
  <2>2. 10000 - wider <= 10000 - band /\ 10000 + band <= 10000 + wider
    OBVIOUS
  <2>3. QED
    BY <1>3, <1>4, <2>1, <2>2
<1>6. BidDepth(book, band) <= BidDepth(book, wider)
  <2>1. \A p \in DOMAIN book.bid : p \in Int
    BY DEF Side
  <2>2. From(DOMAIN book.bid, u) \subseteq From(DOMAIN book.bid, v)
    BY <1>5, <2>1 DEF From
  <2>3. From(DOMAIN book.bid, u) \in SUBSET DOMAIN book.bid /\ From(DOMAIN book.bid, v) \in SUBSET DOMAIN book.bid
    BY DEF From
  <2>4. SumOver(book.bid, From(DOMAIN book.bid, u)) <= SumOver(book.bid, From(DOMAIN book.bid, v))
    BY <2>2, <2>3, MoreIsDeeper DEF Side
  <2>5. QED
    BY <1>2, <1>3, <2>4 DEF BidDepth, From
<1>7. AskDepth(book, band) <= AskDepth(book, wider)
  <2>1. \A p \in DOMAIN book.offer : p \in Int
    BY DEF Side
  <2>2. UpTo(DOMAIN book.offer, y) \subseteq UpTo(DOMAIN book.offer, z)
    BY <1>5, <2>1 DEF UpTo
  <2>3. UpTo(DOMAIN book.offer, y) \in SUBSET DOMAIN book.offer /\ UpTo(DOMAIN book.offer, z) \in SUBSET DOMAIN book.offer
    BY DEF UpTo
  <2>4. SumOver(book.offer, UpTo(DOMAIN book.offer, y)) <= SumOver(book.offer, UpTo(DOMAIN book.offer, z))
    BY <2>2, <2>3, MoreIsDeeper DEF Side
  <2>5. QED
    BY <1>2, <1>4, <2>4 DEF AskDepth, UpTo
<1>8. QED
  BY <1>6, <1>7

\* One level of a walk.
TakenAt(levels, walk, price) == IF walk.remaining < levels[price] THEN walk.remaining ELSE levels[price]
Walked(levels, walk, price) ==
  [remaining |-> walk.remaining - TakenAt(levels, walk, price),
   notional |-> walk.notional + TakenAt(levels, walk, price) * price]
Outcome(quantity, walk) ==
  [filled |-> quantity - walk.remaining, notional |-> walk.notional, sufficient |-> walk.remaining = 0]

WalkRow(g, s, levels, quantity, es) == IF s = {} THEN [remaining |-> quantity, notional |-> 0] ELSE Walked(levels, g[s \ {Max(s)}], es[Max(s)])
WalkRows(g, n, levels, quantity, es) == g = [s \in SUBSET (1..n) |-> WalkRow(g, s, levels, quantity, es)]

LEMMA WalkTable == \A levels, quantity, es : \A n \in Nat : \E g : WalkRows(g, n, levels, quantity, es)
<1> SUFFICES ASSUME NEW levels, NEW quantity, NEW es
             PROVE  \A n \in Nat : \E g : g = [s \in SUBSET (1..n) |-> WalkRow(g, s, levels, quantity, es)]
  BY DEF WalkRows
<1> DEFINE S == {n \in Nat : \E g : g = [s \in SUBSET (1..n) |-> WalkRow(g, s, levels, quantity, es)]}
<1>1. 0 \in S
  <2>1. PICK g : g = [s \in SUBSET (1..0) |-> [remaining |-> quantity, notional |-> 0]]
    OBVIOUS
  <2>2. \A s \in SUBSET (1..0) : WalkRow(g, s, levels, quantity, es) = [remaining |-> quantity, notional |-> 0]
    BY DEF WalkRow
  <2>3. g = [s \in SUBSET (1..0) |-> WalkRow(g, s, levels, quantity, es)]
    BY <2>1, <2>2
  <2>4. QED
    BY <2>3
<1>2. ASSUME NEW n \in Nat, n \in S PROVE n + 1 \in S
  <2>1. PICK h : h = [s \in SUBSET (1..n) |-> WalkRow(h, s, levels, quantity, es)]
    BY <1>2
  <2>2. PICK g : g = [s \in SUBSET (1..(n + 1)) |->
                        IF n + 1 \in s THEN Walked(levels, h[s \ {n + 1}], es[n + 1]) ELSE h[s]]
    OBVIOUS
  <2>3. \A s \in SUBSET (1..(n + 1)) : n + 1 \notin s => s \in SUBSET (1..n)
    OBVIOUS
  <2>4. \A s \in SUBSET (1..n) : s \in SUBSET (1..(n + 1)) /\ n + 1 \notin s /\ g[s] = h[s]
    BY <2>2
  <2>5. ASSUME NEW s \in SUBSET (1..(n + 1)) PROVE g[s] = WalkRow(g, s, levels, quantity, es)
    <3>1. CASE n + 1 \in s
      <4>1. Max(s) = n + 1 /\ s # {}
        BY <3>1, Largest
      <4>2. s \ {n + 1} \in SUBSET (1..n)
        OBVIOUS
      <4>3. g[s \ {n + 1}] = h[s \ {n + 1}]
        BY <2>4, <4>2
      <4>4. g[s] = Walked(levels, h[s \ {n + 1}], es[n + 1])
        BY <2>2, <3>1
      <4>5. QED
        BY <4>1, <4>3, <4>4 DEF WalkRow
    <3>2. CASE n + 1 \notin s
      <4>1. s \in SUBSET (1..n) /\ g[s] = h[s] /\ h[s] = WalkRow(h, s, levels, quantity, es)
        BY <2>1, <2>3, <2>4, <3>2
      <4>2. g[s \ {Max(s)}] = h[s \ {Max(s)}]
        <5>1. s \ {Max(s)} \in SUBSET (1..n)
          BY <4>1
        <5>2. QED
          BY <2>4, <5>1
      <4>3. QED
        BY <4>1, <4>2 DEF WalkRow
    <3>3. QED
      BY <3>1, <3>2
  <2>6. g = [s \in SUBSET (1..(n + 1)) |-> WalkRow(g, s, levels, quantity, es)]
    BY <2>2, <2>5
  <2>7. QED
    BY <2>6
<1>3. QED
  BY <1>1, <1>2, Inductive

\* A walk over the levels, price after price.
Walks(f, levels, z, n, quantity) ==
  /\ f[0] = [remaining |-> quantity, notional |-> 0]
  /\ \A k \in 1..n : f[k] = Walked(levels, f[k - 1], z[k])
  /\ DepthWalk(levels, z, quantity) = Outcome(quantity, f[n])

LEMMA Walking ==
  ASSUME NEW levels, NEW quantity, NEW es, NEW n \in Nat, DOMAIN es = 1..n
  PROVE  \E f : Walks(f, levels, es, n, quantity)
<1>1. PICK h : h = CHOOSE g : g = [s \in SUBSET DOMAIN es |-> WalkRow(g, s, levels, quantity, es)]
  OBVIOUS
<1>2. DepthWalk(levels, es, quantity) = Outcome(quantity, h[DOMAIN es])
  BY <1>1 DEF DepthWalk, Outcome, Walked, TakenAt, FoldLeft, MapThenFoldSet, WalkRow
<1>3. \E g : g = [s \in SUBSET DOMAIN es |-> WalkRow(g, s, levels, quantity, es)]
  <2>1. \E g : WalkRows(g, n, levels, quantity, es)
    BY WalkTable
  <2>2. QED
    BY <2>1 DEF WalkRows
<1>4. h = [s \in SUBSET DOMAIN es |-> WalkRow(h, s, levels, quantity, es)]
  BY <1>1, <1>3
<1>5. PICK f : f = [i \in 0..n |-> h[1..i]]
  OBVIOUS
<1>6. ASSUME NEW i \in 1..n PROVE f[i] = Walked(levels, f[i - 1], es[i])
  <2>1. /\ 1..i \in SUBSET DOMAIN es /\ (1..i) \ {i} = 1..(i - 1)
        /\ i \in 1..i /\ i - 1 \in 0..n /\ i \in 0..n
    OBVIOUS
  <2>2. Max(1..i) = i
    <3>1. i - 1 \in Nat /\ (i - 1) + 1 = i /\ 1..i \in SUBSET (1..i)
      OBVIOUS
    <3>2. QED
      BY <2>1, <3>1, Largest
  <2>3. h[1..i] = Walked(levels, h[1..(i - 1)], es[i])
    BY <1>4, <2>1, <2>2 DEF WalkRow
  <2>4. QED
    BY <1>5, <2>1, <2>3
<1>7. f[0] = [remaining |-> quantity, notional |-> 0]
  <2>1. 1..0 = {} /\ {} \in SUBSET DOMAIN es /\ 0 \in 0..n
    OBVIOUS
  <2>2. QED
    BY <1>4, <1>5, <2>1 DEF WalkRow
<1>8. f[n] = h[DOMAIN es]
  BY <1>5
<1>9. QED
  BY <1>2, <1>6, <1>7, <1>8 DEF Walks

-----------------------------------------------------------------------------
(* Walks of a book: the larger one is the dearer per unit.                  *)

LEMMA NoLess == \A a, b, c \in Nat : a <= b => a * c <= b * c
<1> SUFFICES ASSUME NEW a \in Nat, NEW b \in Nat, NEW c \in Nat, a <= b PROVE a * c <= b * c
  OBVIOUS
<1>1. PICK u \in Nat : b = a + u
  <2>1. b - a \in Nat /\ b = a + (b - a)
    OBVIOUS
  <2>2. QED
    BY <2>1
<1>2. b * c = a * c + u * c
  BY <1>1
<1>3. u * c \in Nat /\ a * c \in Nat
  OBVIOUS
<1>4. QED
  BY <1>2, <1>3

LEMMA Crossing ==
  ASSUME NEW x \in Nat, NEW F \in Nat, NEW s \in Nat, NEW b \in Nat, NEW d \in Nat, s <= b, x <= F * d
  PROVE  (x + s * d) * (F + b) <= (x + b * d) * (F + s)
<1>1. PICK u \in Nat : b = s + u
  <2>1. b - s \in Nat /\ b = s + (b - s)
    OBVIOUS
  <2>2. QED
    BY <2>1
<1>2. PICK w \in Nat : w = F * d
  OBVIOUS
<1>3. x * u <= w * u
  BY <1>2, NoLess
<1>4. (x + s * d) * (F + b) = (x + s * d) * (F + s) + (x * u + (s * d) * u)
  BY <1>1
<1>5. (x + b * d) * (F + s) = (x + s * d) * (F + s) + ((F * d) * u + (s * d) * u)
  BY <1>1
<1>6. PICK p \in Int, o \in Int, k \in Int, g \in Int :
        p = (x + s * d) * (F + s) /\ o = (s * d) * u /\ k = x * u /\ g = w * u
  OBVIOUS
<1>7. (x + s * d) * (F + b) = p + (k + o) /\ (x + b * d) * (F + s) = p + (g + o)
  BY <1>2, <1>4, <1>5, <1>6
<1>8. QED
  BY <1>3, <1>6, <1>7

\* Who wants more pays no less per unit: after some levels, of which none was
\* dearer than e, the smaller of two walks has paid x and lacks s.
Least(a, b) == IF a < b THEN a ELSE b
Dear(q, r, s, t, x, y, e) ==
  /\ s \in Nat /\ t \in Nat /\ x \in Nat /\ y \in Nat /\ s <= q /\ t <= r
  /\ x <= (q - s) * e
  /\ \/ t - s = r - q /\ x = y
     \/ s = 0 /\ x * (r - t) <= y * q

LEMMA DearStep ==
  ASSUME NEW q \in Nat, NEW r \in Nat, q < r, NEW s, NEW t, NEW x, NEW y, NEW e \in Nat, Dear(q, r, s, t, x, y, e),
         NEW l \in Nat, NEW d \in Nat, e <= d,
         NEW a, a = Least(s, l), NEW b, b = Least(t, l)
  PROVE  Dear(q, r, s - a, t - b, x + a * d, y + b * d, d)
<1>0. s \in Nat /\ t \in Nat /\ x \in Nat /\ y \in Nat /\ s <= q /\ t <= r
  BY DEF Dear
<1>1. PICK F \in Nat : F = q - s /\ q = F + s
  BY <1>0
<1>2. x <= F * d
  <2>1. x <= F * e
    BY <1>1 DEF Dear
  <2>2. e * F <= d * F
    BY NoLess
  <2>3. F * e = e * F /\ F * d = d * F /\ F * e \in Nat /\ F * d \in Nat
    OBVIOUS
  <2>4. QED
    BY <1>0, <2>1, <2>2, <2>3
<1>3. a \in Nat /\ a <= s /\ b \in Nat /\ b <= t
  BY <1>0 DEF Least
<1>4. a * d \in Nat /\ b * d \in Nat /\ F * d \in Nat
  BY <1>3
<1>5. x + a * d <= (q - (s - a)) * d
  <2>1. q - (s - a) = F + a
    BY <1>0, <1>1, <1>3
  <2>2. (F + a) * d = F * d + a * d
    BY <1>3
  <2>3. QED
    BY <1>0, <1>2, <1>4, <2>1, <2>2
<1>6. /\ s - a \in Nat /\ t - b \in Nat /\ x + a * d \in Nat /\ y + b * d \in Nat /\ s - a <= q /\ t - b <= r
  BY <1>0, <1>3, <1>4
<1>7. CASE t - s = r - q /\ x = y
  <2>1. CASE l <= s
    <3>1. a = l /\ b = l
      BY <1>0, <1>7, <2>1 DEF Least
    <3>2. (t - b) - (s - a) = r - q /\ x + a * d = y + b * d
      BY <1>0, <1>7, <3>1
    <3>3. QED
      BY <1>5, <1>6, <3>2 DEF Dear
  <2>2. CASE s < l
    <3>1. a = s /\ s <= b
      BY <1>0, <1>7, <2>2 DEF Least
    <3>2. r - (t - b) = F + b /\ q = F + s /\ s - a = 0
      BY <1>0, <1>1, <1>3, <1>7, <3>1
    <3>3. (x + s * d) * (F + b) <= (x + b * d) * (F + s)
      BY <1>0, <1>2, <1>3, <3>1, Crossing
    <3>4. (x + a * d) * (r - (t - b)) <= (y + b * d) * q
      BY <1>7, <3>1, <3>2, <3>3
    <3>5. QED
      BY <1>5, <1>6, <3>2, <3>4 DEF Dear
  <2>3. QED
    BY <1>0, <2>1, <2>2
<1>8. CASE s = 0 /\ x * (r - t) <= y * q
  <2>1. a = 0 /\ s - a = 0 /\ F = q
    <3>1. s = 0
      BY <1>8
    <3>2. a = 0
      BY <3>1 DEF Least
    <3>3. QED
      BY <1>1, <3>1, <3>2
  <2>2. a * d = 0
    BY <2>1
  <2>3. PICK G \in Nat : G = r - t /\ r - (t - b) = G + b
    BY <1>0, <1>3
  <2>4. x * (G + b) = x * G + x * b
    BY <1>0, <1>3
  <2>5. (y + b * d) * q = y * q + (q * d) * b
    BY <1>0, <1>3
  <2>6. x * b <= (q * d) * b
    <3>1. PICK w \in Nat : w = q * d
      OBVIOUS
    <3>2. x <= w
      BY <1>2, <2>1, <3>1
    <3>3. x * b <= w * b
      BY <1>0, <1>3, <3>2, NoLess
    <3>4. QED
      BY <3>1, <3>3
  <2>7. x * G <= y * q
    BY <1>8, <2>3
  <2>8. PICK g \in Int, h \in Int, j \in Int, k \in Int : g = x * G /\ h = x * b /\ j = y * q /\ k = (q * d) * b
    BY <1>0, <1>3
  <2>9. x * (G + b) <= (y + b * d) * q
    BY <2>4, <2>5, <2>6, <2>7, <2>8
  <2>10. (x + a * d) * (r - (t - b)) <= (y + b * d) * q
    <3>1. x + a * d = x
      BY <1>0, <2>2
    <3>2. QED
      BY <2>3, <2>9, <3>1
  <2>11. QED
    BY <1>5, <1>6, <2>1, <2>10 DEF Dear
<1>9. QED
  BY <1>7, <1>8 DEF Dear

\* A walk over levels of l at e above the best price: what it lacks and has paid
\* more than at the best price.
Climbs(s, x, l, e, n, q) ==
  /\ s[0] = q /\ x[0] = 0
  /\ \A k \in 1..n : s[k] = s[k - 1] - Least(s[k - 1], l[k]) /\ x[k] = x[k - 1] + Least(s[k - 1], l[k]) * e[k]

LEMMA Dearer ==
  ASSUME NEW n \in Nat, NEW l \in [1..n -> Nat], NEW e \in [1..n -> Nat], \A j, k \in 1..n : j < k => e[j] <= e[k],
         NEW q \in Nat, NEW r \in Nat, q < r, NEW s, NEW x, Climbs(s, x, l, e, n, q), NEW t, NEW y, Climbs(t, y, l, e, n, r)
  PROVE  /\ s[n] \in Nat /\ t[n] \in Nat /\ x[n] \in Nat /\ y[n] \in Nat /\ s[n] <= q /\ t[n] <= r
         /\ x[n] * (r - t[n]) <= y[n] * (q - s[n])
<1> DEFINE E(k) == IF k = 0 THEN 0 ELSE e[k]
<1> DEFINE I == {k \in Nat : k <= n => Dear(q, r, s[k], t[k], x[k], y[k], E(k))}
<1>1. 0 \in I
  <2>1. s[0] = q /\ t[0] = r /\ x[0] = 0 /\ y[0] = 0 /\ E(0) = 0
    BY DEF Climbs
  <2>2. Dear(q, r, q, r, 0, 0, 0)
    BY DEF Dear
  <2>3. QED
    BY <2>1, <2>2
<1>2. ASSUME NEW k \in Nat, k \in I PROVE k + 1 \in I
  <2> SUFFICES ASSUME k + 1 <= n PROVE Dear(q, r, s[k + 1], t[k + 1], x[k + 1], y[k + 1], E(k + 1))
    OBVIOUS
  <2>1. k + 1 \in 1..n /\ (k + 1) - 1 = k /\ E(k + 1) = e[k + 1] /\ e[k + 1] \in Nat /\ l[k + 1] \in Nat
    OBVIOUS
  <2>2. E(k) \in Nat /\ E(k) <= e[k + 1]
    <3>1. CASE k = 0
      BY <2>1, <3>1
    <3>2. CASE k # 0
      <4>1. k \in 1..n /\ k < k + 1
        BY <3>2
      <4>2. QED
        BY <2>1, <4>1
    <3>3. QED
      BY <3>1, <3>2
  <2>3. /\ s[k + 1] = s[k] - Least(s[k], l[k + 1]) /\ x[k + 1] = x[k] + Least(s[k], l[k + 1]) * e[k + 1]
        /\ t[k + 1] = t[k] - Least(t[k], l[k + 1]) /\ y[k + 1] = y[k] + Least(t[k], l[k + 1]) * e[k + 1]
    BY <2>1 DEF Climbs
  <2>4. Dear(q, r, s[k], t[k], x[k], y[k], E(k))
    BY <1>2
  <2> HIDE DEF E
  <2>5. PICK a, b : a = Least(s[k], l[k + 1]) /\ b = Least(t[k], l[k + 1])
    OBVIOUS
  <2>6. Dear(q, r, s[k] - a, t[k] - b, x[k] + a * e[k + 1], y[k] + b * e[k + 1], e[k + 1])
    BY <2>1, <2>2, <2>4, <2>5, DearStep
  <2>7. QED
    BY <2>1, <2>3, <2>5, <2>6
<1>3. Nat \subseteq I
  <2> HIDE DEF I
  <2>1. QED
    BY <1>1, <1>2, Inductive
<1>4. Dear(q, r, s[n], t[n], x[n], y[n], E(n))
  BY <1>3
<1> HIDE DEF E
<1>5. /\ s[n] \in Nat /\ t[n] \in Nat /\ x[n] \in Nat /\ y[n] \in Nat /\ s[n] <= q /\ t[n] <= r
  BY <1>4 DEF Dear
<1>6. x[n] * (r - t[n]) <= y[n] * (q - s[n])
  <2>1. CASE t[n] - s[n] = r - q /\ x[n] = y[n]
    <3>1. r - t[n] = q - s[n] /\ x[n] * (r - t[n]) \in Int
      BY <1>5, <2>1
    <3>2. QED
      BY <2>1, <3>1
  <2>2. CASE s[n] = 0 /\ x[n] * (r - t[n]) <= y[n] * q
    <3>1. q - s[n] = q
      BY <2>2
    <3>2. QED
      BY <2>2, <3>1
  <2>3. QED
    BY <1>4, <2>1, <2>2 DEF Dear
<1>7. QED
  BY <1>5, <1>6

\* The prices of a side, each once.
Enumerates(z, S, n) ==
  /\ n \in Nat /\ DOMAIN z = 1..n /\ \A k \in 1..n : z[k] \in S
  /\ \A p \in S : \E k \in 1..n : z[k] = p
  /\ \A k, j \in 1..n : z[k] = z[j] => k = j
Upto1(z, k) == {z[j] : j \in 1..k}

LEMMA WalkOf ==
  ASSUME NEW levels, NEW z, NEW S, NEW n, Enumerates(z, S, n)
  PROVE  \A quantity : \E f : Walks(f, levels, z, n, quantity)
<1>1. n \in Nat /\ DOMAIN z = 1..n
  BY DEF Enumerates
<1>2. TAKE quantity
<1>3. PICK m \in Nat : m = n /\ DOMAIN z = 1..m
  BY <1>1
<1>4. \E f : Walks(f, levels, z, m, quantity)
  BY <1>3, Walking
<1>5. QED
  BY <1>3, <1>4

\* What a walk lacks is what the levels so far do not hold.
LEMMA WalkFills ==
  ASSUME NEW levels, Side(levels), NEW z, NEW n, Enumerates(z, DOMAIN levels, n),
         NEW q \in Nat, NEW f, Walks(f, levels, z, n, q)
  PROVE  LET all == SumOver(levels, DOMAIN levels)
         IN  all \in Nat /\ f[n].remaining = IF q <= all THEN 0 ELSE q - all
<1> DEFINE Sum(k) == SumOver(levels, Upto1(z, k))
<1> DEFINE I == {k \in Nat : k <= n => Sum(k) \in Nat /\ f[k].remaining = IF q <= Sum(k) THEN 0 ELSE q - Sum(k)}
<1>0. n \in Nat /\ DOMAIN z = 1..n /\ \A k \in 1..n : z[k] \in DOMAIN levels
  BY DEF Enumerates
<1>1. \A s \in SUBSET DOMAIN levels : Adding(levels, s)
  BY AddingAll DEF Side
<1>2. 0 \in I
  <2>1. Upto1(z, 0) = {}
    BY DEF Upto1
  <2>2. Sum(0) = 0
    BY <2>1, FS_EmptySet, SumStep
  <2>3. f[0].remaining = q
    BY DEF Walks
  <2>4. QED
    BY <2>2, <2>3
<1>3. ASSUME NEW k \in Nat, k \in I PROVE k + 1 \in I
  <2> SUFFICES ASSUME k + 1 <= n
               PROVE  Sum(k + 1) \in Nat /\ f[k + 1].remaining = IF q <= Sum(k + 1) THEN 0 ELSE q - Sum(k + 1)
    OBVIOUS
  <2>1. k + 1 \in 1..n /\ (k + 1) - 1 = k
    OBVIOUS
  <2>2. PICK p \in DOMAIN levels : p = z[k + 1]
    BY <1>0, <2>1
  <2>3. levels[p] \in Nat
    BY DEF Side
  <2>4. Upto1(z, k + 1) \ {p} = Upto1(z, k) /\ p \in Upto1(z, k + 1)
    <3>1. \A j \in 1..k : z[j] # p
      BY <2>1, <2>2 DEF Enumerates
    <3>2. 1..(k + 1) = (1..k) \cup {k + 1}
      OBVIOUS
    <3>3. QED
      BY <2>2, <3>1, <3>2 DEF Upto1
  <2>5. Upto1(z, k + 1) \in SUBSET DOMAIN levels
    BY <1>0, <2>1 DEF Upto1
  <2>6. Sum(k + 1) = levels[p] + Sum(k) /\ Sum(k + 1) \in Nat
    BY <1>1, <2>4, <2>5 DEF Adding
  <2>7. Sum(k) \in Nat /\ f[k].remaining = IF q <= Sum(k) THEN 0 ELSE q - Sum(k)
    <3>1. k <= n
      BY <1>0
    <3>2. QED
      BY <1>3, <3>1
  <2>8. f[k + 1] = Walked(levels, f[k], p)
    BY <2>1, <2>2 DEF Walks
  <2>9. f[k + 1].remaining = f[k].remaining - TakenAt(levels, f[k], p)
    BY <2>8 DEF Walked
  <2>10. TakenAt(levels, f[k], p) = IF f[k].remaining < levels[p] THEN f[k].remaining ELSE levels[p]
    BY DEF TakenAt
  <2>11. PICK g \in Nat, h \in Nat, c \in Nat : g = Sum(k) /\ h = Sum(k + 1) /\ c = levels[p]
    BY <2>3, <2>6, <2>7
  <2> HIDE DEF Sum
  <2>12. QED
    BY <2>6, <2>7, <2>9, <2>10, <2>11
<1>4. Nat \subseteq I
  <2> HIDE DEF I
  <2>1. QED
    BY <1>2, <1>3, Inductive
<1>5. Upto1(z, n) = DOMAIN levels
  <2>1. \A p : p \in Upto1(z, n) <=> \E j \in 1..n : z[j] = p
    BY DEF Upto1
  <2>2. \A p : p \in DOMAIN levels <=> \E j \in 1..n : z[j] = p
    BY <1>0 DEF Enumerates
  <2>3. QED
    BY <2>1, <2>2
<1>6. QED
  BY <1>0, <1>4, <1>5

LEMMA BuyExcess ==
  \A m, t, p, q, o, b \in Int : (m + t * p) - (q - (o - t)) * b = (m - (q - o) * b) + t * (p - b)
OBVIOUS

LEMMA SellExcess ==
  \A m, t, p, q, o, b \in Int : (q - (o - t)) * b - (m + t * p) = ((q - o) * b - m) + t * (b - p)
OBVIOUS

Lacks(f, n) == [k \in 0..n |-> f[k].remaining]
PaysMore(f, n, q, best) == [k \in 0..n |-> f[k].notional - (q - f[k].remaining) * best]
GetsLess(f, n, q, best) == [k \in 0..n |-> (q - f[k].remaining) * best - f[k].notional]

LEMMA WalksClimb ==
  ASSUME NEW levels, Side(levels), NEW z, NEW n, Enumerates(z, DOMAIN levels, n),
         NEW q \in Nat, NEW f, Walks(f, levels, z, n, q), NEW best \in Nat,
         NEW l, l = [k \in 1..n |-> levels[z[k]]]
  PROVE  /\ Climbs(Lacks(f, n), PaysMore(f, n, q, best), l, [k \in 1..n |-> z[k] - best], n, q)
         /\ Climbs(Lacks(f, n), GetsLess(f, n, q, best), l, [k \in 1..n |-> best - z[k]], n, q)
<1>0. n \in Nat /\ DOMAIN z = 1..n /\ \A k \in 1..n : z[k] \in DOMAIN levels /\ z[k] \in Nat /\ l[k] \in Nat
  BY DEF Enumerates, Side
<1>1. \A k \in 1..n : k - 1 \in 0..n /\ k \in 0..n
  BY <1>0
<1>2. ASSUME NEW k \in 1..n
      PROVE  LET t == Least(f[k - 1].remaining, l[k])
             IN  f[k].remaining = f[k - 1].remaining - t /\ f[k].notional = f[k - 1].notional + t * z[k]
  <2>1. f[k] = Walked(levels, f[k - 1], z[k])
    BY DEF Walks
  <2>2. TakenAt(levels, f[k - 1], z[k]) = Least(f[k - 1].remaining, l[k])
    BY DEF TakenAt, Least
  <2>3. QED
    BY <2>1, <2>2 DEF Walked
<1> DEFINE I == {k \in Nat : k <= n => f[k].remaining \in Int /\ f[k].notional \in Int}
<1>3. 0 \in I
  BY DEF Walks
<1>4. ASSUME NEW k \in Nat, k \in I PROVE k + 1 \in I
  <2> SUFFICES ASSUME k + 1 <= n PROVE f[k + 1].remaining \in Int /\ f[k + 1].notional \in Int
    OBVIOUS
  <2>1. k + 1 \in 1..n /\ (k + 1) - 1 = k /\ f[k].remaining \in Int /\ f[k].notional \in Int
    BY <1>0, <1>4
  <2>2. PICK t : t = Least(f[k].remaining, l[k + 1])
    OBVIOUS
  <2>3. t \in Int /\ z[k + 1] \in Int
    BY <1>0, <2>1, <2>2 DEF Least
  <2>4. f[k + 1].remaining = f[k].remaining - t /\ f[k + 1].notional = f[k].notional + t * z[k + 1]
    BY <1>2, <2>1, <2>2
  <2>5. QED
    BY <2>1, <2>3, <2>4
<1>5. \A k \in 0..n : f[k].remaining \in Int /\ f[k].notional \in Int
  <2> HIDE DEF I
  <2>1. Nat \subseteq I
    BY <1>3, <1>4, Inductive
  <2>2. QED
    BY <1>0, <2>1 DEF I
<1>6. /\ Lacks(f, n)[0] = q /\ PaysMore(f, n, q, best)[0] = 0 /\ GetsLess(f, n, q, best)[0] = 0
  BY <1>0 DEF Walks, Lacks, PaysMore, GetsLess
<1>7. ASSUME NEW k \in 1..n
      PROVE  LET t == Least(Lacks(f, n)[k - 1], l[k])
             IN  /\ Lacks(f, n)[k] = Lacks(f, n)[k - 1] - t
                 /\ PaysMore(f, n, q, best)[k] = PaysMore(f, n, q, best)[k - 1] + t * (z[k] - best)
                 /\ GetsLess(f, n, q, best)[k] = GetsLess(f, n, q, best)[k - 1] + t * (best - z[k])
  <2>1. PICK o \in Int, m \in Int : o = f[k - 1].remaining /\ m = f[k - 1].notional
    BY <1>1, <1>5
  <2>2. PICK t : t = Least(o, l[k])
    OBVIOUS
  <2>3. t \in Int /\ z[k] \in Int /\ q \in Int /\ best \in Int
    BY <1>0, <2>1, <2>2 DEF Least
  <2>4. f[k].remaining = o - t /\ f[k].notional = m + t * z[k]
    BY <1>2, <2>1, <2>2
  <2>5. Lacks(f, n)[k - 1] = o /\ Lacks(f, n)[k] = o - t
    BY <1>1, <2>1, <2>4 DEF Lacks
  <2>6. /\ PaysMore(f, n, q, best)[k - 1] = m - (q - o) * best
        /\ PaysMore(f, n, q, best)[k] = (m + t * z[k]) - (q - (o - t)) * best
    BY <1>1, <2>1, <2>4 DEF PaysMore
  <2>7. /\ GetsLess(f, n, q, best)[k - 1] = (q - o) * best - m
        /\ GetsLess(f, n, q, best)[k] = (q - (o - t)) * best - (m + t * z[k])
    BY <1>1, <2>1, <2>4 DEF GetsLess
  <2>8. (m + t * z[k]) - (q - (o - t)) * best = (m - (q - o) * best) + t * (z[k] - best)
    BY <2>3, BuyExcess
  <2>9. (q - (o - t)) * best - (m + t * z[k]) = ((q - o) * best - m) + t * (best - z[k])
    BY <2>3, SellExcess
  <2>10. QED
    BY <2>2, <2>5, <2>6, <2>7, <2>8, <2>9
<1>8. QED
  BY <1>6, <1>7 DEF Climbs

LEMMA AscendingEnumerates ==
  ASSUME NEW S \in SUBSET Nat, NEW a, NEW n, Ascends(a, S, n)
  PROVE  Enumerates(a, S, n)
<1>1. n \in Nat /\ DOMAIN a = 1..n /\ \A k \in 1..n : a[k] \in S
  BY DEF Ascends
<1>2. \A x \in S : x \in Int
  OBVIOUS
<1>3. ASSUME NEW k \in 1..n, NEW j \in 1..n, a[k] = a[j] PROVE k = j
  <2>1. a[k] \in Int /\ ~ (a[k] < a[j]) /\ ~ (a[j] < a[k])
    <3>1. PICK x \in Int : x = a[k] /\ x = a[j]
      BY <1>1, <1>2, <1>3
    <3>2. ~ (x < x)
      OBVIOUS
    <3>3. QED
      BY <3>1, <3>2
  <2>2. ~ (k < j) /\ ~ (j < k)
    BY <2>1 DEF Ascends
  <2>3. QED
    BY <2>2
<1>4. \A x \in S : \E k \in 1..n : a[k] = x
  BY DEF Ascends
<1>5. QED
  BY <1>1, <1>3, <1>4 DEF Enumerates

\* The same prices from the other end.
LEMMA ReverseIs ==
  ASSUME NEW S \in SUBSET Nat, NEW a, NEW n, Ascends(a, S, n), NEW z, z = Reverse(a)
  PROVE  /\ Enumerates(z, S, n)
         /\ \A j, k \in 1..n : j < k => z[k] < z[j]
<1>1. n \in Nat /\ Len(a) = n /\ Enumerates(a, S, n)
  BY AscendingEnumerates DEF Ascends
<1>2. z = [i \in 1..n |-> a[(n - i) + 1]]
  BY <1>1 DEF Reverse
<1>3. \A k \in 1..n : (n - k) + 1 \in 1..n /\ (n - ((n - k) + 1)) + 1 = k
  BY <1>1
<1>4. DOMAIN z = 1..n /\ \A k \in 1..n : z[k] = a[(n - k) + 1]
  BY <1>2
<1>5. \A k \in 1..n : z[k] \in S
  BY <1>1, <1>3, <1>4 DEF Enumerates
<1>6. \A x \in S : \E k \in 1..n : z[k] = x
  <2> TAKE x \in S
  <2>1. PICK k \in 1..n : a[k] = x
    BY <1>1 DEF Enumerates
  <2>2. PICK j \in 1..n : j = (n - k) + 1 /\ (n - j) + 1 = k
    BY <1>3
  <2>3. z[j] = x
    BY <1>4, <2>1, <2>2
  <2>4. QED
    BY <2>3
<1>7. ASSUME NEW k \in 1..n, NEW j \in 1..n, z[k] = z[j] PROVE k = j
  <2>1. a[(n - k) + 1] = a[(n - j) + 1]
    BY <1>4, <1>7
  <2>2. (n - k) + 1 = (n - j) + 1
    BY <1>1, <1>3, <2>1 DEF Enumerates
  <2>3. QED
    BY <1>1, <2>2
<1>8. Enumerates(z, S, n)
  BY <1>1, <1>4, <1>5, <1>6, <1>7 DEF Enumerates
<1>9. ASSUME NEW j \in 1..n, NEW k \in 1..n, j < k PROVE z[k] < z[j]
  <2>1. (n - k) + 1 < (n - j) + 1 /\ (n - k) + 1 \in 1..n /\ (n - j) + 1 \in 1..n
    BY <1>1, <1>3, <1>9
  <2>2. a[(n - k) + 1] < a[(n - j) + 1]
    BY <2>1 DEF Ascends
  <2>3. QED
    BY <1>4, <2>2
<1>10. QED
  BY <1>8, <1>9

LEMMA LeastIsMin ==
  ASSUME NEW q \in Nat, NEW all \in Nat
  PROVE  Min({q, all}) = IF q <= all THEN q ELSE all
<1>1. PICK m : m = IF q <= all THEN q ELSE all
  OBVIOUS
<1>2. m \in {q, all} /\ m <= q /\ m <= all
  BY <1>1
<1>3. \A x \in {q, all} : (\A y \in {q, all} : x <= y) <=> x = m
  BY <1>1
<1>4. Min({q, all}) = m
  BY <1>2, <1>3 DEF Min
<1>5. QED
  BY <1>1, <1>4

\* What a walk takes is what is wanted, or all there is.
LEMMA WalkTakes ==
  ASSUME NEW levels, Side(levels), NEW z, NEW n, Enumerates(z, DOMAIN levels, n), NEW q \in Nat
  PROVE  LET all == SumOver(levels, DOMAIN levels)
         IN  /\ DepthWalk(levels, z, q).sufficient <=> all >= q
             /\ DepthWalk(levels, z, q).filled = Min({q, all})
<1>1. PICK f : Walks(f, levels, z, n, q)
  BY WalkOf
<1>2. PICK all : all = SumOver(levels, DOMAIN levels)
  OBVIOUS
<1>3. all \in Nat /\ f[n].remaining = IF q <= all THEN 0 ELSE q - all
  BY <1>1, <1>2, WalkFills
<1>4. DepthWalk(levels, z, q).sufficient = (f[n].remaining = 0) /\ DepthWalk(levels, z, q).filled = q - f[n].remaining
  BY <1>1 DEF Walks, Outcome
<1>5. (f[n].remaining = 0) <=> all >= q
  BY <1>3
<1>6. q - f[n].remaining = IF q <= all THEN q ELSE all
  BY <1>3
<1>7. Min({q, all}) = IF q <= all THEN q ELSE all
  BY <1>3, LeastIsMin
<1>8. QED
  BY <1>2, <1>4, <1>5, <1>6, <1>7

\* What a larger walk costs per unit, measured by the levels' distance from the best.
LEMMA LargerWalks ==
  ASSUME NEW levels, Side(levels), NEW z, NEW n, Enumerates(z, DOMAIN levels, n), NEW best \in Nat,
         NEW q \in Nat, NEW r \in Nat, q < r,
         NEW w, w = DepthWalk(levels, z, q), NEW v, v = DepthWalk(levels, z, r)
  PROVE  /\ (\A k \in 1..n : best <= z[k]) /\ (\A j, k \in 1..n : j < k => z[j] < z[k])
              => /\ 0 <= (w.notional - w.filled * best) * v.filled
                 /\ (w.notional - w.filled * best) * v.filled <= (v.notional - v.filled * best) * w.filled
         /\ (\A k \in 1..n : z[k] <= best) /\ (\A j, k \in 1..n : j < k => z[k] < z[j])
              => (w.filled * best - w.notional) * v.filled <= (v.filled * best - v.notional) * w.filled
<1>1. n \in Nat /\ DOMAIN z = 1..n /\ \A k \in 1..n : z[k] \in DOMAIN levels /\ z[k] \in Nat
  BY DEF Enumerates, Side
<1>2. PICK f : Walks(f, levels, z, n, q)
  BY WalkOf
<1>3. PICK g : Walks(g, levels, z, n, r)
  BY WalkOf
<1>4. PICK l : l = [k \in 1..n |-> levels[z[k]]]
  OBVIOUS
<1>5. l \in [1..n -> Nat]
  BY <1>1, <1>4 DEF Side
<1>6. w.filled = q - f[n].remaining /\ w.notional = f[n].notional /\ v.filled = r - g[n].remaining /\ v.notional = g[n].notional
  BY <1>2, <1>3 DEF Walks, Outcome
<1>7. n \in 0..n
  BY <1>1
<1>8. Lacks(f, n)[n] = f[n].remaining /\ Lacks(g, n)[n] = g[n].remaining
  BY <1>7 DEF Lacks
<1>9. ASSUME \A k \in 1..n : best <= z[k], \A j, k \in 1..n : j < k => z[j] < z[k]
      PROVE  /\ 0 <= (w.notional - w.filled * best) * v.filled
             /\ (w.notional - w.filled * best) * v.filled <= (v.notional - v.filled * best) * w.filled
  <2>1. PICK e : e = [k \in 1..n |-> z[k] - best]
    OBVIOUS
  <2>2. e \in [1..n -> Nat]
    BY <1>1, <1>9, <2>1
  <2>3. \A j, k \in 1..n : j < k => e[j] <= e[k]
    BY <1>1, <1>9, <2>1
  <2>4. Climbs(Lacks(f, n), PaysMore(f, n, q, best), l, e, n, q) /\ Climbs(Lacks(g, n), PaysMore(g, n, r, best), l, e, n, r)
    BY <1>2, <1>3, <1>4, <2>1, WalksClimb
  <2>5. PICK x, y : x = PaysMore(f, n, q, best)[n] /\ y = PaysMore(g, n, r, best)[n]
    OBVIOUS
  <2>6. /\ f[n].remaining \in Nat /\ g[n].remaining \in Nat /\ x \in Nat /\ y \in Nat
        /\ f[n].remaining <= q /\ g[n].remaining <= r
        /\ x * (r - g[n].remaining) <= y * (q - f[n].remaining)
    <3>1. PICK s, t, c, d : /\ s = Lacks(f, n) /\ t = Lacks(g, n)
                            /\ c = PaysMore(f, n, q, best) /\ d = PaysMore(g, n, r, best)
      OBVIOUS
    <3>2. n \in Nat /\ Climbs(s, c, l, e, n, q) /\ Climbs(t, d, l, e, n, r)
      BY <1>1, <2>4, <3>1
    <3>3. /\ s[n] \in Nat /\ t[n] \in Nat /\ c[n] \in Nat /\ d[n] \in Nat /\ s[n] <= q /\ t[n] <= r
          /\ c[n] * (r - t[n]) <= d[n] * (q - s[n])
      BY <1>5, <2>2, <2>3, <3>2, Dearer
    <3>4. s[n] = f[n].remaining /\ t[n] = g[n].remaining /\ c[n] = x /\ d[n] = y
      BY <1>8, <2>5, <3>1
    <3>5. QED
      BY <3>3, <3>4
  <2>7. x = w.notional - w.filled * best /\ y = v.notional - v.filled * best
    BY <1>6, <1>7, <2>5 DEF PaysMore
  <2>8. v.filled \in Nat
    BY <1>6, <2>6
  <2>9. \A a, b \in Nat : 0 <= a * b
    OBVIOUS
  <2>10. 0 <= x * v.filled /\ x * v.filled <= y * w.filled
    BY <1>6, <2>6, <2>8, <2>9
  <2>11. QED
    BY <2>7, <2>10
<1>10. ASSUME \A k \in 1..n : z[k] <= best, \A j, k \in 1..n : j < k => z[k] < z[j]
       PROVE  (w.filled * best - w.notional) * v.filled <= (v.filled * best - v.notional) * w.filled
  <2>1. PICK e : e = [k \in 1..n |-> best - z[k]]
    OBVIOUS
  <2>2. e \in [1..n -> Nat]
    BY <1>1, <1>10, <2>1
  <2>3. \A j, k \in 1..n : j < k => e[j] <= e[k]
    BY <1>1, <1>10, <2>1
  <2>4. Climbs(Lacks(f, n), GetsLess(f, n, q, best), l, e, n, q) /\ Climbs(Lacks(g, n), GetsLess(g, n, r, best), l, e, n, r)
    BY <1>2, <1>3, <1>4, <2>1, WalksClimb
  <2>5. PICK x, y : x = GetsLess(f, n, q, best)[n] /\ y = GetsLess(g, n, r, best)[n]
    OBVIOUS
  <2>6. x * (r - g[n].remaining) <= y * (q - f[n].remaining)
    BY <1>1, <1>5, <1>8, <2>2, <2>3, <2>4, <2>5, Dearer
  <2>7. x = w.filled * best - w.notional /\ y = v.filled * best - v.notional
    BY <1>6, <1>7, <2>5 DEF GetsLess
  <2>8. QED
    BY <1>6, <2>6, <2>7
<1>11. QED
  BY <1>9, <1>10

\* The features of any book are sound.
LEMMA FeaturesSound ==
  ASSUME NEW book, Side(book.bid), Side(book.offer), NEW Q \in SUBSET Nat
  PROVE  FeaturesAreSound(book, Q)
<1> SUFFICES ASSUME TwoSided(book) PROVE FeaturesAreSound(book, Q)
  BY DEF FeaturesAreSound
<1>1. PICK B, O : B = DOMAIN book.bid /\ O = DOMAIN book.offer
  OBVIOUS
<1>2. B \in SUBSET Nat /\ O \in SUBSET Nat /\ IsFiniteSet(B) /\ IsFiniteSet(O) /\ B # {} /\ O # {}
  BY <1>1 DEF Side, TwoSided
<1>3. Max(B) \in Nat /\ (\A p \in B : p <= Max(B)) /\ Min(O) \in Nat /\ (\A p \in O : Min(O) <= p)
  BY <1>2, ExtremesAre
<1>4. B \in SUBSET Int /\ O \in SUBSET Int
  <2>1. \A p \in Nat : p \in Int
    OBVIOUS
  <2>2. QED
    BY <1>2, <2>1
<1>5. PICK u, n : u = Ascending(O) /\ Ascends(u, O, n)
  BY <1>2, <1>4, AscendingIs
<1>6. PICK a, m : a = Ascending(B) /\ Ascends(a, B, m)
  BY <1>2, <1>4, AscendingIs
<1>7. PICK z : z = Reverse(a)
  OBVIOUS
<1>8. Enumerates(u, O, n) /\ \A j, k \in 1..n : j < k => u[j] < u[k]
  BY <1>2, <1>5, AscendingEnumerates DEF Ascends
<1>9. Enumerates(z, B, m) /\ \A j, k \in 1..m : j < k => z[k] < z[j]
  BY <1>2, <1>6, <1>7, ReverseIs
<1>10. \A k \in 1..n : Min(O) <= u[k]
  BY <1>3, <1>8 DEF Enumerates
<1>11. \A k \in 1..m : z[k] <= Max(B)
  BY <1>3, <1>9 DEF Enumerates
<1>12. \A q : BuyWalk(book, q) = DepthWalk(book.offer, u, q) /\ SellWalk(book, q) = DepthWalk(book.bid, z, q)
  BY <1>1, <1>5, <1>6, <1>7 DEF BuyWalk, SellWalk
<1>13. ASSUME NEW q \in Q
       PROVE  /\ BuyWalk(book, q).sufficient <=> SumOver(book.offer, DOMAIN book.offer) >= q
              /\ SellWalk(book, q).filled = Min({q, SumOver(book.bid, DOMAIN book.bid)})
  <2>1. q \in Nat
    OBVIOUS
  <2>2. DepthWalk(book.offer, u, q).sufficient <=> SumOver(book.offer, DOMAIN book.offer) >= q
    BY <1>1, <1>8, <2>1, WalkTakes
  <2>3. DepthWalk(book.bid, z, q).filled = Min({q, SumOver(book.bid, DOMAIN book.bid)})
    BY <1>1, <1>9, <2>1, WalkTakes
  <2>4. QED
    BY <1>12, <2>2, <2>3
<1>14. ASSUME NEW q \in Q, NEW r \in Q, 0 < q /\ q < r
       PROVE  LET buy == [k \in {q, r} |-> BuyWalk(book, k)]
                  sell == [k \in {q, r} |-> SellWalk(book, k)]
              IN  /\ 0 <= BuySlippage(book, buy[q]) * buy[r].filled
                  /\ BuySlippage(book, buy[q]) * buy[r].filled <= BuySlippage(book, buy[r]) * buy[q].filled
                  /\ SellSlippage(book, sell[q]) * sell[r].filled <= SellSlippage(book, sell[r]) * sell[q].filled
  <2>1. q \in Nat /\ r \in Nat /\ q < r
    BY <1>14
  <2>2. PICK w, v : w = DepthWalk(book.offer, u, q) /\ v = DepthWalk(book.offer, u, r)
    OBVIOUS
  <2>3. PICK x, y : x = DepthWalk(book.bid, z, q) /\ y = DepthWalk(book.bid, z, r)
    OBVIOUS
  <2>4. /\ 0 <= (w.notional - w.filled * Min(O)) * v.filled
        /\ (w.notional - w.filled * Min(O)) * v.filled <= (v.notional - v.filled * Min(O)) * w.filled
    BY <1>1, <1>3, <1>8, <1>10, <2>1, <2>2, LargerWalks
  <2>5. (x.filled * Max(B) - x.notional) * y.filled <= (y.filled * Max(B) - y.notional) * x.filled
    BY <1>1, <1>3, <1>9, <1>11, <2>1, <2>3, LargerWalks
  <2>6. BuyWalk(book, q) = w /\ BuyWalk(book, r) = v /\ SellWalk(book, q) = x /\ SellWalk(book, r) = y
    BY <1>12, <2>2, <2>3
  <2>7. PICK buy : buy = [k \in {q, r} |-> BuyWalk(book, k)]
    OBVIOUS
  <2>8. PICK sell : sell = [k \in {q, r} |-> SellWalk(book, k)]
    OBVIOUS
  <2>9. buy[q] = w /\ buy[r] = v /\ sell[q] = x /\ sell[r] = y
    BY <2>6, <2>7, <2>8
  <2>10. /\ 0 <= BuySlippage(book, buy[q]) * buy[r].filled
         /\ BuySlippage(book, buy[q]) * buy[r].filled <= BuySlippage(book, buy[r]) * buy[q].filled
    BY <1>1, <2>4, <2>9 DEF BuySlippage
  <2>11. SellSlippage(book, sell[q]) * sell[r].filled <= SellSlippage(book, sell[r]) * sell[q].filled
    BY <1>1, <2>5, <2>9 DEF SellSlippage
  <2>12. QED
    BY <2>7, <2>8, <2>10, <2>11
<1>15. \A band, wider \in {0, 500, 2000} : band <= wider =>
         /\ BidDepth(book, band) <= BidDepth(book, wider)
         /\ AskDepth(book, band) <= AskDepth(book, wider)
  BY WiderIsDeeper
<1>16. QED
  BY <1>13, <1>14, <1>15 DEF FeaturesAreSound

-----------------------------------------------------------------------------
(* The stream as a whole.                                                   *)

LEMMA Appended ==
  ASSUME NEW E, NEW w \in Seq(E), NEW x \in E
  PROVE  /\ Append(w, x) \in Seq(E) /\ Len(Append(w, x)) = Len(w) + 1
         /\ \A i \in 1..Len(w) : Append(w, x)[i] = w[i]
         /\ Append(w, x)[Len(w) + 1] = x
OBVIOUS

LEMMA Concatenated ==
  ASSUME NEW E, NEW l \in Seq(E), NEW w \in Seq(E)
  PROVE  /\ l \o w \in Seq(E) /\ Len(l \o w) = Len(l) + Len(w)
         /\ \A i \in 1..(Len(l) + Len(w)) : (l \o w)[i] = IF i <= Len(l) THEN l[i] ELSE w[i - Len(l)]
OBVIOUS

LEMMA SameSequence ==
  ASSUME NEW E, NEW s \in Seq(E), NEW t \in Seq(E), Len(s) = Len(t), \A i \in 1..Len(s) : s[i] = t[i]
  PROVE  s = t
OBVIOUS

LEMMA AppendLater ==
  ASSUME NEW E, NEW l \in Seq(E), NEW w \in Seq(E), NEW x \in E
  PROVE  l \o Append(w, x) = Append(l \o w, x)
<1>1. PICK a \in Nat, b \in Nat : a = Len(l) /\ b = Len(w)
  OBVIOUS
<1>2. PICK u : u = Append(w, x)
  OBVIOUS
<1>3. u \in Seq(E) /\ Len(u) = b + 1 /\ (\A i \in 1..b : u[i] = w[i]) /\ u[b + 1] = x
  BY <1>1, <1>2, Appended
<1>4. PICK r : r = l \o w
  OBVIOUS
<1>5. r \in Seq(E) /\ Len(r) = a + b /\ (\A i \in 1..(a + b) : r[i] = IF i <= a THEN l[i] ELSE w[i - a])
  BY <1>1, <1>4, Concatenated
<1>6. PICK s : s = l \o u
  OBVIOUS
<1>7. s \in Seq(E) /\ Len(s) = a + (b + 1) /\ (\A i \in 1..(a + (b + 1)) : s[i] = IF i <= a THEN l[i] ELSE u[i - a])
  <2>1. /\ l \o u \in Seq(E) /\ Len(l \o u) = Len(l) + Len(u)
        /\ \A i \in 1..(Len(l) + Len(u)) : (l \o u)[i] = IF i <= Len(l) THEN l[i] ELSE u[i - Len(l)]
    BY <1>3, Concatenated
  <2>2. Len(l) + Len(u) = a + (b + 1)
    BY <1>1, <1>3
  <2>3. QED
    BY <1>1, <1>6, <2>1, <2>2
<1>8. PICK t : t = Append(r, x)
  OBVIOUS
<1>9. t \in Seq(E) /\ Len(t) = (a + b) + 1 /\ (\A i \in 1..(a + b) : t[i] = r[i]) /\ t[(a + b) + 1] = x
  BY <1>5, <1>8, Appended
<1>10. ASSUME NEW i \in 1..((a + b) + 1) PROVE s[i] = t[i]
  <2>0. i \in 1..(a + (b + 1)) /\ s[i] = IF i <= a THEN l[i] ELSE u[i - a]
    BY <1>7
  <2>1. CASE i = (a + b) + 1
    <3>1. s[i] = u[i - a] /\ i - a = b + 1
      BY <2>0, <2>1
    <3>2. QED
      BY <1>3, <1>9, <2>1, <3>1
  <2>2. CASE i # (a + b) + 1 /\ i <= a
    <3>1. i \in 1..(a + b)
      BY <2>2
    <3>2. t[i] = l[i]
      BY <1>5, <1>9, <2>2, <3>1
    <3>3. QED
      BY <2>0, <2>2, <3>2
  <2>3. CASE i # (a + b) + 1 /\ ~ (i <= a)
    <3>1. i \in 1..(a + b) /\ i - a \in 1..b
      BY <2>3
    <3>2. s[i] = u[i - a]
      BY <2>0, <2>3
    <3>3. t[i] = w[i - a]
      BY <1>5, <1>9, <2>3, <3>1
    <3>4. QED
      BY <1>3, <3>1, <3>2, <3>3
  <2>4. QED
    BY <2>1, <2>2, <2>3
<1>11. s = t
  <2>1. a + (b + 1) = (a + b) + 1
    OBVIOUS
  <2>2. QED
    BY <1>7, <1>9, <1>10, <2>1, SameSequence
<1>12. QED
  BY <1>2, <1>4, <1>6, <1>8, <1>11

\* What an account says so far of an event's updates.
Part(all, era, us, k) == [era |-> era, list |-> all.list \o [i \in 1..k |-> <<era, us[i]>>]]

LEMMA PartGrows ==
  ASSUME NEW all \in Accounts, NEW era \in Nat, NEW n \in Nat, NEW us \in [1..n -> BookUpdate], NEW k \in 0..(n - 1)
  PROVE  Part(all, era, us, k + 1) = Noted(Part(all, era, us, k), us[k + 1])
<1>1. PICK E : E = Nat \X BookUpdate
  OBVIOUS
<1>2. all.list \in Seq(E)
  BY <1>1 DEF Accounts
<1>3. PICK w : w = [i \in 1..k |-> <<era, us[i]>>]
  OBVIOUS
<1>4. PICK v : v = [i \in 1..(k + 1) |-> <<era, us[i]>>]
  OBVIOUS
<1>5. \A i \in 1..n : us[i] \in BookUpdate /\ <<era, us[i]>> \in E
  BY <1>1
<1>6. k \in Nat /\ \A i \in 1..(k + 1) : i \in 1..n
  OBVIOUS
<1>7. w \in [1..k -> E] /\ v \in [1..(k + 1) -> E]
  <2>1. \A i \in 1..k : i \in 1..(k + 1)
    BY <1>6
  <2>2. QED
    BY <1>3, <1>4, <1>5, <1>6, <2>1
<1>8. w \in Seq(E) /\ v \in Seq(E) /\ Len(w) = k /\ Len(v) = k + 1
  BY <1>6, <1>7
<1>9. PICK x : x = <<era, us[k + 1]>> /\ x \in E
  <2>1. k + 1 \in 1..n
    BY <1>6
  <2>2. QED
    BY <1>5, <2>1
<1>10. v = Append(w, x)
  <2>1. PICK t : t = Append(w, x)
    OBVIOUS
  <2>2. t \in Seq(E) /\ Len(t) = k + 1 /\ (\A i \in 1..k : t[i] = w[i]) /\ t[k + 1] = x
    BY <1>8, <1>9, <2>1, Appended
  <2>3. ASSUME NEW i \in 1..(k + 1) PROVE t[i] = v[i]
    <3>1. CASE i = k + 1
      BY <1>4, <1>9, <2>2, <3>1
    <3>2. CASE i # k + 1
      <4>1. i \in 1..k
        BY <1>6, <3>2
      <4>2. QED
        BY <1>3, <1>4, <2>2, <4>1
    <3>3. QED
      BY <3>1, <3>2
  <2>4. QED
    BY <1>8, <2>1, <2>2, <2>3, SameSequence
<1>11. all.list \o v = Append(all.list \o w, x)
  <2>1. PICK l : l = all.list
    OBVIOUS
  <2>2. l \in Seq(E) /\ w \in Seq(E) /\ x \in E
    BY <1>2, <1>8, <1>9, <2>1
  <2>3. l \o Append(w, x) = Append(l \o w, x)
    BY <2>2, AppendLater
  <2>4. QED
    BY <1>10, <2>1, <2>3
<1>12. QED
  BY <1>3, <1>4, <1>9, <1>11 DEF Part, Noted

LEMMA TellsEvent ==
  ASSUME NEW all, NEW s, DOMAIN s = Fields, Tells(all, s.book), NEW e \in BookEvent
  PROVE  Tells(Told(all, e), ApplyEvent(s, e).book)
<1>1. all \in Accounts /\ all.era \in Nat /\ all.list \in Seq(Nat \X BookUpdate)
  BY DEF Tells, Accounts
<1>2. PICK era : era = IF e.type = "snapshot" THEN all.era + 1 ELSE all.era
  OBVIOUS
<1>3. PICK base : base = IF e.type = "snapshot" THEN EmptyBook ELSE s.book
  OBVIOUS
<1>4. PICK start : start = [era |-> era, list |-> all.list]
  OBVIOUS
<1>5. era \in Nat /\ start \in Accounts /\ start.era = era /\ start.list = all.list
  BY <1>1, <1>2, <1>4 DEF Accounts
<1>6. Tells(start, base)
  <2>1. CASE e.type = "snapshot"
    <3>1. \A i \in DOMAIN start.list : start.list[i][1] < start.era
      <4> TAKE i \in DOMAIN start.list
      <4>1. all.list[i][1] <= all.era /\ all.list[i] \in Nat \X BookUpdate
        BY <1>1, <1>5 DEF Tells
      <4>2. PICK h \in Nat : h = all.list[i][1]
        BY <4>1
      <4>3. era = all.era + 1
        BY <1>2, <2>1
      <4>4. QED
        BY <1>1, <1>5, <4>1, <4>2, <4>3
    <3>2. QED
      BY <1>3, <1>5, <2>1, <3>1, EmptyTells
  <2>2. CASE e.type # "snapshot"
    <3>1. start = all
      BY <1>1, <1>2, <1>4, <2>2 DEF Accounts
    <3>2. QED
      BY <1>3, <2>2, <3>1
  <2>3. QED
    BY <2>1, <2>2
<1>7. PICK us \in Seq(BookUpdate) : us = e.updates
  BY DEF BookEvent
<1>8. PICK n \in Nat : n = Len(us) /\ DOMAIN us = 1..n /\ us \in [1..n -> BookUpdate]
  OBVIOUS
<1>9. PICK f : /\ f[0] = base /\ Updated(base, us) = f[n]
               /\ \A i \in 1..n : f[i] = Update(f[i - 1], us[i])
  BY <1>8, Updating
<1> DEFINE I == {k \in Nat : k <= n => Tells(Part(all, era, us, k), f[k])}
<1>10. 0 \in I
  <2>1. Part(all, era, us, 0) = start
    <3>1. PICK w : w = [i \in 1..0 |-> <<era, us[i]>>]
      OBVIOUS
    <3>2. w = <<>>
      BY <3>1
    <3>3. all.list \o <<>> = all.list
      BY <1>1
    <3>4. all.list \o w = all.list
      BY <3>2, <3>3
    <3>5. QED
      BY <1>4, <3>1, <3>4 DEF Part
  <2>2. QED
    BY <1>6, <1>9, <2>1
<1>11. ASSUME NEW k \in Nat, k \in I PROVE k + 1 \in I
  <2> SUFFICES ASSUME k + 1 <= n PROVE Tells(Part(all, era, us, k + 1), f[k + 1])
    OBVIOUS
  <2>1. k \in 0..(n - 1) /\ k + 1 \in 1..n /\ (k + 1) - 1 = k
    OBVIOUS
  <2>2. Tells(Part(all, era, us, k), f[k])
    BY <1>11
  <2>3. us[k + 1] \in BookUpdate
    BY <1>8, <2>1
  <2>4. Tells(Noted(Part(all, era, us, k), us[k + 1]), Update(f[k], us[k + 1]))
    BY <2>2, <2>3, UpdateTells
  <2>5. Part(all, era, us, k + 1) = Noted(Part(all, era, us, k), us[k + 1])
    BY <1>1, <1>5, <1>8, <2>1, PartGrows
  <2>6. f[k + 1] = Update(f[k], us[k + 1])
    BY <1>9, <2>1
  <2>7. QED
    BY <2>4, <2>5, <2>6
<1>12. Tells(Part(all, era, us, n), f[n])
  <2> HIDE DEF I
  <2>1. n \in I
    BY <1>10, <1>11, Inductive
  <2>2. QED
    BY <2>1 DEF I
<1>13. Told(all, e) = Part(all, era, us, n)
  BY <1>2, <1>7, <1>8 DEF Told, Part
<1>14. ApplyEvent(s, e).book = f[n]
  <2>1. ApplyEvent(s, e).book = Updated(base, us)
    BY <1>3, <1>7, FieldsAre DEF ApplyEvent, Updated
  <2>2. QED
    BY <1>9, <2>1
<1>15. QED
  BY <1>12, <1>13, <1>14

\* The events of a message, where the account has them in one piece.
Piece(g, o, es) == \A k \in 1..Len(es) : g[o + k] = Told(g[o + (k - 1)], es[k])

LEMMA TellsEvents ==
  ASSUME NEW s, DOMAIN s = Fields, NEW es \in Seq(BookEvent), NEW g, NEW o \in Nat,
         Tells(g[o], s.book), Piece(g, o, es)
  PROVE  Tells(g[o + Len(es)], Applied(s, es).book)
<1>1. PICK n \in Nat : n = Len(es) /\ DOMAIN es = 1..n
  OBVIOUS
<1>2. PICK f : /\ f[0] = s /\ Applied(s, es) = f[n]
               /\ \A i \in 1..n : f[i] = ApplyEvent(f[i - 1], es[i])
  BY <1>1, Applying
<1> DEFINE I == {k \in Nat : k <= n => DOMAIN f[k] = Fields /\ Tells(g[o + k], f[k].book)}
<1>3. 0 \in I
  <2>1. o + 0 = o
    OBVIOUS
  <2>2. QED
    BY <1>2, <2>1
<1>4. ASSUME NEW k \in Nat, k \in I PROVE k + 1 \in I
  <2> SUFFICES ASSUME k + 1 <= n PROVE DOMAIN f[k + 1] = Fields /\ Tells(g[o + (k + 1)], f[k + 1].book)
    OBVIOUS
  <2>1. k + 1 \in 1..n /\ (k + 1) - 1 = k
    OBVIOUS
  <2>2. DOMAIN f[k] = Fields /\ Tells(g[o + k], f[k].book)
    BY <1>4
  <2>3. f[k + 1] = ApplyEvent(f[k], es[k + 1]) /\ g[o + (k + 1)] = Told(g[o + k], es[k + 1])
    <3>1. g[o + (k + 1)] = Told(g[o + ((k + 1) - 1)], es[k + 1])
      BY <1>1, <2>1 DEF Piece
    <3>2. QED
      BY <1>2, <2>1, <3>1
  <2>4. es[k + 1] \in BookEvent
    BY <1>1, <2>1
  <2>5. SameEvidence(f[k], f[k])
    BY <2>2 DEF SameEvidence
  <2>6. DOMAIN f[k + 1] = Fields
    BY <2>3, <2>5, OneEvent DEF SameEvidence
  <2>7. QED
    BY <2>2, <2>3, <2>4, <2>6, TellsEvent
<1>5. n \in I
  <2> HIDE DEF I
  <2>1. QED
    BY <1>3, <1>4, Inductive
<1>6. QED
  BY <1>1, <1>2, <1>5

\* A stream a replay does not refuse.
ReadableStream(ms) == WellFormedStream(ms) /\ \A i \in DOMAIN ms : ms[i].events \in Seq(BookEvent)

LEMMA FirstsAreRead ==
  ASSUME NEW ms, ReadableStream(ms), NEW q, Traces(q, ms)
  PROVE  /\ Len(Firsts(ms)) \in Nat /\ DOMAIN Firsts(ms) = 1..Len(Firsts(ms))
         /\ \A j \in 1..Len(Firsts(ms)) : Firsts(ms)[j].events \in Seq(BookEvent)
<1>1. DOMAIN ms = 1..Len(ms)
  BY DEF ReadableStream, WellFormedStream
<1>2. \A j \in 1..Len(Firsts(ms)) : \E i \in 1..Len(ms) : Firsts(ms)[j] = ms[i]
  BY DEF Traces
<1>3. \A i \in 1..Len(ms) : ms[i].events \in Seq(BookEvent)
  BY <1>1 DEF ReadableStream
<1>4. \A j \in 1..Len(Firsts(ms)) : Firsts(ms)[j].events \in Seq(BookEvent)
  BY <1>2, <1>3
<1>5. QED
  BY <1>4 DEF Traces

\* The events of the first occurrences, message by message.
Share(m) == IF LogicalChannel(m.channel) = "level2" THEN m.events ELSE <<>>

Shared(P, fs, c) ==
  /\ P[0] = <<>> /\ P[c] = EventsOf(fs)
  /\ \A j \in 1..c : P[j] = P[j - 1] \o Share(fs[j])
  /\ \A j \in 0..c : /\ P[j] \in Seq(BookEvent) /\ Len(P[j]) \in Nat /\ Len(P[j]) <= Len(P[c])
                     /\ \A k \in 1..Len(P[j]) : P[c][k] = P[j][k]

LEMMA Shares ==
  ASSUME NEW fs, NEW c \in Nat, DOMAIN fs = 1..c, \A j \in 1..c : fs[j].events \in Seq(BookEvent)
  PROVE  \E P : Shared(P, fs, c)
<1>1. PICK ss : ss = [i \in 1..c |-> Share(fs[i])]
  OBVIOUS
<1>2. \A j \in 1..c : Share(fs[j]) \in Seq(BookEvent)
  <2>1. <<>> \in Seq(BookEvent)
    OBVIOUS
  <2>2. QED
    BY <2>1 DEF Share
<1>3. ss \in [1..c -> Seq(BookEvent)]
  BY <1>1, <1>2
<1>4. PICK P : Flattens(P, ss, c, BookEvent)
  BY <1>3, Flattening
<1>5. EventsOf(fs) = FlattenSeq(ss)
  BY <1>1 DEF EventsOf, Share
<1>6. P[0] = <<>> /\ P[c] = EventsOf(fs)
  BY <1>4, <1>5 DEF Flattens
<1>7. \A j \in 1..c : P[j] = P[j - 1] \o Share(fs[j])
  BY <1>1, <1>4 DEF Flattens
<1>8. \A j \in 0..c : /\ P[j] \in Seq(BookEvent) /\ Len(P[j]) \in Nat /\ Len(P[j]) <= Len(P[c])
                      /\ \A k \in 1..Len(P[j]) : P[c][k] = P[j][k]
  <2> TAKE j \in 0..c
  <2>1. P[j] \in Seq(BookEvent)
    BY <1>4 DEF Flattens
  <2>2. ss \in [1..c -> Seq(BookEvent)] /\ Flattens(P, ss, c, BookEvent)
    BY <1>3, <1>4
  <2>3. /\ Len(P[j]) \in Nat /\ Len(P[j]) <= Len(P[c])
        /\ \A k \in 1..Len(P[j]) : P[c][k] = P[j][k]
    <3>1. Stays(P, j, c)
      BY <2>2, PartsStay
    <3>2. QED
      BY <3>1 DEF Stays
  <2>4. QED
    BY <2>1, <2>3
<1>9. Shared(P, fs, c)
  BY <1>6, <1>7, <1>8 DEF Shared
<1>10. QED
  BY <1>9

\* The book after every record has the last word on each level.
LEMMA BookTold ==
  ASSUME NEW ms, ReadableStream(ms)
  PROVE  Tells(Updates(Firsts(ms)), ReplayRecords(ms).book)
<1>1. PICK n \in Nat : n = Len(ms) /\ DOMAIN ms = 1..n
  BY DEF ReadableStream, WellFormedStream
<1>2. \A i \in 1..n : WellFormed(ms[i]) /\ ms[i].events \in Seq(BookEvent)
  BY <1>1 DEF ReadableStream, WellFormedStream
<1>3. PICK f : Replays(f, ms)
  BY ReplayStages DEF ReadableStream
<1>4. PICK q : Traces(q, ms)
  BY <1>1, Following
<1>5. PICK fs : fs = Firsts(ms)
  OBVIOUS
<1>6. PICK c \in Nat : c = Len(fs) /\ DOMAIN fs = 1..c /\ \A j \in 1..c : fs[j].events \in Seq(BookEvent)
  BY <1>4, <1>5, FirstsAreRead
<1>a. PICK P : Shared(P, fs, c)
  BY <1>6, Shares
<1>7. /\ P[0] = <<>> /\ P[c] = EventsOf(fs)
      /\ \A j \in 1..c : P[j] = P[j - 1] \o Share(fs[j])
      /\ \A j \in 0..c : /\ P[j] \in Seq(BookEvent) /\ Len(P[j]) \in Nat /\ Len(P[j]) <= Len(P[c])
                         /\ \A k \in 1..Len(P[j]) : P[c][k] = P[j][k]
  BY <1>a DEF Shared
<1>8. PICK evs : evs = P[c]
  OBVIOUS
<1>9. PICK N \in Nat : N = Len(evs) /\ DOMAIN evs = 1..N
  BY <1>7, <1>8
<1>10. PICK g : /\ g[0] = NothingTold /\ AllTold(evs) = g[N]
                /\ \A i \in 1..N : g[i] = Told(g[i - 1], evs[i])
  BY <1>9, Telling
<1> DEFINE I == {i \in Nat : i <= n => Tells(g[Len(P[q[i]])], f[i].book)}
<1>11. 0 \in I
  <2>1. q[0] = 0 /\ f[0] = Unread /\ Len(P[0]) = 0
    BY <1>3, <1>4, <1>7 DEF Traces, Replays
  <2>2. Unread.book = EmptyBook
    BY DEF Unread
  <2>3. NothingTold \in Accounts
    <3>1. <<>> \in Seq(Nat \X BookUpdate)
      OBVIOUS
    <3>2. QED
      BY <3>1 DEF NothingTold, Accounts
  <2>4. DOMAIN NothingTold.list = {}
    BY DEF NothingTold
  <2>5. Tells(NothingTold, EmptyBook)
    BY <2>3, <2>4, EmptyTells
  <2>6. QED
    BY <1>10, <2>1, <2>2, <2>5
<1>12. ASSUME NEW i \in Nat, i \in I PROVE i + 1 \in I
  <2> SUFFICES ASSUME i + 1 <= n PROVE Tells(g[Len(P[q[i + 1]])], f[i + 1].book)
    OBVIOUS
  <2>1. i + 1 \in 1..n /\ (i + 1) - 1 = i /\ i \in 0..n
    OBVIOUS
  <2>2. PICK x : x = ms[i + 1]
    OBVIOUS
  <2>3. PICK s : s = f[i]
    OBVIOUS
  <2>4. PICK t : t = f[i + 1]
    OBVIOUS
  <2>5. t = ReplayRecord(s, x) /\ Evident(s, Seen(ms, i)) /\ WellFormed(x) /\ x.events \in Seq(BookEvent)
    BY <1>1, <1>2, <1>3, <2>1, <2>2, <2>3, <2>4 DEF Replays
  <2>6. DOMAIN s = Fields /\ DOMAIN s.identities = Seen(ms, i)
    BY <2>5 DEF Evident
  <2>7. PICK m \in 0..c : m = q[i]
    BY <1>1, <1>4, <1>5, <1>6, <2>1 DEF Traces
  <2>8. Tells(g[Len(P[m])], s.book)
    BY <1>12, <2>1, <2>3, <2>7
  <2>9. /\ x.seq \in Seen(ms, i) => q[i + 1] = m
        /\ x.seq \notin Seen(ms, i) => q[i + 1] = m + 1 /\ fs[m + 1] = x
    BY <1>1, <1>4, <1>5, <2>1, <2>2, <2>7 DEF Traces
  <2>10. CASE x.seq \in Seen(ms, i)
    <3>1. t.book = s.book
      BY <2>5, <2>6, <2>10, OneRecord
    <3>2. QED
      BY <2>4, <2>8, <2>9, <2>10, <3>1
  <2>11. CASE x.seq \notin Seen(ms, i)
    <3>1. q[i + 1] = m + 1 /\ fs[m + 1] = x
      BY <2>9, <2>11
    <3>2. m + 1 \in 1..c /\ m + 1 \in 0..c /\ (m + 1) - 1 = m
      <4>1. q[i + 1] \in 0..c
        <5>1. q \in [0..n -> 0..c] /\ i + 1 \in 0..n
          BY <1>1, <1>4, <1>5, <1>6, <2>1 DEF Traces
        <5>2. QED
          BY <5>1
      <4>2. QED
        BY <3>1, <4>1
    <3>3. P[m + 1] = P[m] \o Share(x)
      BY <1>7, <3>1, <3>2
    <3>4. PICK o \in Nat : o = Len(P[m])
      BY <1>7
    <3>5. DOMAIN Marked(s, x) = Fields /\ Marked(s, x).book = s.book
      BY <2>6, Marks
    <3>6. Tells(g[o], Marked(s, x).book)
      BY <2>8, <3>4, <3>5
    <3>7. CASE LogicalChannel(x.channel) = "level2"
      <4>1. t = Applied(Marked(s, x), x.events)
        BY <2>5, <2>6, <2>11, <3>7 DEF ReplayRecord, Marked, Applied
      <4>2. PICK es : es = x.events
        OBVIOUS
      <4>3. es \in Seq(BookEvent) /\ Share(x) = es
        BY <2>5, <3>7, <4>2 DEF Share
      <4>4. /\ Len(P[m + 1]) = o + Len(es)
            /\ \A k \in 1..Len(es) : P[m + 1][o + k] = es[k]
        <5>1. PICK l : l = P[m]
          OBVIOUS
        <5>2. l \in Seq(BookEvent) /\ o = Len(l)
          BY <1>7, <3>4, <5>1
        <5>3. /\ Len(l \o es) = o + Len(es)
              /\ \A k \in 1..(o + Len(es)) : (l \o es)[k] = IF k <= o THEN l[k] ELSE es[k - o]
          BY <4>3, <5>2, Concatenated
        <5>4. \A k \in 1..Len(es) : o + k \in 1..(o + Len(es)) /\ ~ (o + k <= o) /\ (o + k) - o = k
          BY <4>3
        <5>5. P[m + 1] = l \o es
          BY <3>3, <4>3, <5>1
        <5>6. QED
          BY <5>3, <5>4, <5>5
      <4>5. Len(es) \in Nat /\ o + Len(es) <= N
        BY <1>7, <1>8, <1>9, <3>2, <4>3, <4>4
      <4>6. ASSUME NEW k \in 1..Len(es) PROVE g[o + k] = Told(g[o + (k - 1)], es[k])
        <5>1. o + k \in 1..N /\ (o + k) - 1 = o + (k - 1) /\ o + k \in 1..(o + Len(es))
          BY <4>5
        <5>2. evs[o + k] = P[m + 1][o + k]
          BY <1>7, <1>8, <3>2, <4>4, <5>1
        <5>3. g[o + k] = Told(g[(o + k) - 1], evs[o + k])
          BY <1>10, <5>1
        <5>4. QED
          BY <4>4, <5>1, <5>2, <5>3
      <4>7. Piece(g, o, es)
        BY <4>6 DEF Piece
      <4>8. Tells(g[o + Len(es)], Applied(Marked(s, x), es).book)
        BY <3>5, <3>6, <4>3, <4>7, TellsEvents
      <4>9. QED
        BY <2>4, <3>1, <4>1, <4>2, <4>4, <4>8
    <3>8. CASE LogicalChannel(x.channel) # "level2"
      <4>1. t = Marked(s, x)
        BY <2>5, <2>6, <2>11, <3>8 DEF ReplayRecord, Marked
      <4>2. P[m + 1] = P[m]
        <5>1. Share(x) = <<>>
          BY <3>8 DEF Share
        <5>2. P[m] \in Seq(BookEvent)
          BY <1>7
        <5>3. P[m] \o <<>> = P[m]
          BY <5>2
        <5>4. QED
          BY <3>3, <5>1, <5>3
      <4>3. QED
        BY <2>4, <3>1, <3>4, <3>6, <4>1, <4>2
    <3>9. QED
      BY <3>7, <3>8
  <2>12. QED
    BY <2>10, <2>11
<1>13. Tells(g[Len(P[q[n]])], f[n].book)
  <2> HIDE DEF I
  <2>1. n \in I
    BY <1>11, <1>12, Inductive
  <2>2. QED
    BY <2>1 DEF I
<1>14. q[n] = c
  BY <1>1, <1>4, <1>5, <1>6 DEF Traces
<1>15. g[N] = Updates(fs)
  BY <1>7, <1>8, <1>10, UpdatesAre
<1>16. ReplayRecords(ms) = f[n]
  BY <1>1, <1>3 DEF Replays
<1>17. QED
  BY <1>5, <1>8, <1>9, <1>13, <1>14, <1>15, <1>16

\* What a replay says of any stream is right.
LEMMA ReplayRight ==
  ASSUME NEW ms, ReadableStream(ms), NEW prices \in SUBSET Nat
  PROVE  ReplayIsRight(ms, prices)
<1>1. Tells(Updates(Firsts(ms)), ReplayRecords(ms).book)
  BY BookTold
<1>2. ASSUME NEW side \in {"bid", "offer"}, NEW price \in prices
      PROVE  BookLevel(Firsts(ms), side, price) =
               IF price \in DOMAIN ReplayRecords(ms).book[side] THEN ReplayRecords(ms).book[side][price] ELSE 0
  <2>1. side \in Sides /\ price \in Nat
    BY DEF Sides
  <2>2. LastWord(Updates(Firsts(ms)), side, price) = Level(ReplayRecords(ms).book, side, price)
    BY <1>1, <2>1 DEF Tells
  <2>3. QED
    BY <2>2, BookLevelIs DEF Level
<1>3. WellFormedStream(ms)
  BY DEF ReadableStream
<1>4. /\ ReplayRecords(ms).duplicates = Len(ms) - Len(Firsts(ms))
      /\ (ReplayRecords(ms).gaps = {} /\ ReplayRecords(ms).disorder = {}) <=> Consecutive(Firsts(ms))
  BY <1>3, NumbersTraced
<1>5. QED
  BY <1>2, <1>4 DEF ReplayIsRight

\* Everything that is read off a stream is right.
LEMMA StreamIsRight ==
  ASSUME NEW ms, ms \in Seq(ToSet(ms)), ReadableStream(ms)
  PROVE  /\ ReplayIsRight(ms, 1..7) /\ ReplayIsRight(ms \o ms, 1..7)
         /\ FeaturesAreSound(ReplayRecords(ms).book, 0..6)
         /\ QuantilesAreRanks([i \in DOMAIN ms |-> ms[i].at])
<1>1. 1..7 \in SUBSET Nat /\ 0..6 \in SUBSET Nat
  OBVIOUS
<1>2. PICK n \in Nat : n = Len(ms) /\ DOMAIN ms = 1..n /\ \A i \in 1..n : WellFormed(ms[i]) /\ ms[i].events \in Seq(BookEvent)
  BY DEF ReadableStream, WellFormedStream
<1>3. ReadableStream(ms \o ms)
  <2>1. PICK E : E = ToSet(ms)
    OBVIOUS
  <2>2. PICK d : d = ms \o ms
    OBVIOUS
  <2>3. /\ d \in Seq(E) /\ Len(d) = n + n
        /\ \A i \in 1..(n + n) : d[i] = IF i <= n THEN ms[i] ELSE ms[i - n]
    BY <1>2, <2>1, <2>2, Concatenated
  <2>4. DOMAIN d = 1..(n + n)
    BY <2>3
  <2>5. \A i \in 1..(n + n) : \E j \in 1..n : d[i] = ms[j]
    <3> TAKE i \in 1..(n + n)
    <3>1. CASE i <= n
      <4>1. i \in 1..n
        BY <3>1
      <4>2. QED
        BY <2>3, <3>1, <4>1
    <3>2. CASE ~ (i <= n)
      <4>1. i - n \in 1..n
        BY <3>2
      <4>2. QED
        BY <2>3, <3>2, <4>1
    <3>3. QED
      BY <3>1, <3>2
  <2>6. \A i \in 1..(n + n) : WellFormed(d[i]) /\ d[i].events \in Seq(BookEvent)
    BY <1>2, <2>5
  <2>7. QED
    BY <2>2, <2>3, <2>4, <2>6 DEF ReadableStream, WellFormedStream
<1>4. ReplayIsRight(ms, 1..7) /\ ReplayIsRight(ms \o ms, 1..7)
  BY <1>1, <1>3, ReplayRight
<1>5. FeaturesAreSound(ReplayRecords(ms).book, 0..6)
  <2>1. PICK b : b = ReplayRecords(ms).book
    OBVIOUS
  <2>2. Booked(b)
    BY <2>1, BookTold DEF Tells
  <2>3. "bid" \in Sides /\ "offer" \in Sides
    BY DEF Sides
  <2>4. \A side \in Sides : Side(b[side])
    BY <2>2 DEF Booked, Side
  <2>5. Side(b.bid) /\ Side(b.offer)
    BY <2>3, <2>4
  <2>6. QED
    BY <1>1, <2>1, <2>5, FeaturesSound
<1>6. QuantilesAreRanks([i \in DOMAIN ms |-> ms[i].at])
  <2>1. PICK v : v = [i \in 1..n |-> ms[i].at]
    OBVIOUS
  <2>2. Values(v, n)
    BY <1>2, <2>1 DEF Values, WellFormed
  <2>3. CASE v = <<>>
    BY <1>2, <2>1, <2>3 DEF QuantilesAreRanks
  <2>4. CASE v # <<>>
    BY <1>2, <2>1, <2>2, <2>4, QuantileRanks
  <2>5. QED
    BY <2>3, <2>4
<1>7. QED
  BY <1>4, <1>5, <1>6

\* The streams a journal can hold replay to the last word on every level, each
\* gap and each repeat counted once, whatever is delivered twice; what is read off
\* the book is sound, and a percentile is the rank it says (replay_records,
\* orderbook_features, _quantiles): for every journal, at every bundle written.
THEOREM ReplayIsFaithful == EvidenceSpec => []ReplayAgrees
<1>1. MarketInv => ReplayAgrees
  <2> SUFFICES ASSUME MarketInv, writer.at = "bundle"
               PROVE  LET messages == MessagesOf(writer.records)
                      IN /\ ReplayIsRight(messages, 1..7) /\ ReplayIsRight(messages \o messages, 1..7)
                         /\ FeaturesAreSound(Summary(writer.records).book, 0..6)
                         /\ QuantilesAreRanks([i \in DOMAIN messages |-> messages[i].at])
    BY DEF ReplayAgrees
  <2>1. writer.records \in Seq(Line)
    BY DEF MarketInv, EvidenceTypeOK
  <2>2. PICK ms : ms = MessagesOf(writer.records)
    OBVIOUS
  <2>3. /\ ms \in Seq(Messages) /\ WellFormedStream(ms)
        /\ \A i \in DOMAIN ms : ms[i].events \in Seq(BookEvent)
    BY <2>1, <2>2, JournalsAreReadable
  <2>4. ms \in Seq(ToSet(ms)) /\ ReadableStream(ms)
    <3>1. Len(ms) \in Nat /\ DOMAIN ms = 1..Len(ms) /\ \A i \in 1..Len(ms) : ms[i] \in ToSet(ms)
      BY <2>3 DEF ToSet
    <3>2. ms = [i \in 1..Len(ms) |-> ms[i]]
      BY <2>3
    <3>3. QED
      BY <2>3, <3>1, <3>2 DEF ReadableStream
  <2>5. Summary(writer.records) = ReplayRecords(ms)
    BY <2>2 DEF Summary
  <2>6. QED
    BY <2>2, <2>4, <2>5, StreamIsRight
<1>2. QED
  BY <1>1, MarketStart, MarketStep, PTL DEF EvidenceSpec
=============================================================================
