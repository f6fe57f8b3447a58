----------------------------- MODULE RootPaths -----------------------------
(***************************************************************************)
(* The economic root path of a prediction: the trailing midpoints of its   *)
(* spot instrument, one per grid target, taken from the frames the store   *)
(* has by then, and the journal the paths are committed to the Book from.  *)
(*                                                                         *)
(* A frame is [id, cutoff, known, priced]: what it says up to "cutoff" was *)
(* known at "known", and "priced" if it carries a midpoint.  Only frames   *)
(* of the one instrument that are QUALIFIED are here: the others the       *)
(* builder passes over.  They reach the store in any order, late ones too. *)
(* A path is a content address: two with one identity are the same path.   *)
(* Nothing locks the journal, so persists of several processes interleave. *)
(***************************************************************************)
EXTENDS Integers, Sequences, SequencesExt, FiniteSets
CONSTANTS
  Genesis,                       \* the hash before the first event's
  Writers,                       \* processes that persist paths
  Candidates,                    \* the frames that may reach the store
  Lookback, Grid, Lag, Age,      \* the SHORT view's lookback, the grid, its bounds
  MaxBuilds, MaxPathDeaths, MaxCommitments      \* bounds

ASSUME GridIsLawful ==
  /\ Grid \in Nat \ {0} /\ Lookback \in Nat /\ Lookback % Grid = 0
  /\ Lag \in 0..(Grid - 1) /\ Age \in 0..(Grid - 1)

\* A frame is not of the future of its own cutoff (RepresentationFrame refuses
\* that); a number stands for its identity, which only orders it.
ASSUME FramesAreLawful ==
  \A f \in Candidates : {f.id, f.cutoff, f.known} \subseteq Nat /\ f.known <= f.cutoff

VARIABLES
  frames,        \* the frames the representation index lists
  snapshots,     \* the paths there is a snapshot of
  events,        \* the journal
  cutOff,        \* its last line was cut
  persister,   \* writer -> what it is doing
  commitments,   \* what was committed to the Book: ranges and their events
  builds, pathDeaths      \* counters
pathVars == <<frames, snapshots, events, cutOff, persister, commitments, builds, pathDeaths>>

Seated == [at |-> "rest", path |-> Genesis, seen |-> 0, last |-> Genesis]
PathsInit ==
  /\ frames = {} /\ snapshots = {} /\ events = <<>> /\ cutOff = FALSE
  /\ persister = [w \in Writers |-> Seated]
  /\ commitments = {} /\ builds = 0 /\ pathDeaths = 0

-----------------------------------------------------------------------------
(* The builder.                                                             *)

\* A baseline experience is bound to the exact spot frame of its cutoff.  One
\* that is earlier than its lookback is long the builder refuses.
Baselines ==
  UNION {{[cutoff |-> f.cutoff, known |-> k, frame |-> f] : k \in {f.known, f.cutoff}} :
           f \in {g \in Candidates : g.cutoff >= Lookback}}

WindowStart(base) == base.cutoff - Lookback
Targets(base) == [i \in 1..(Lookback \div Grid + 1) |-> WindowStart(base) + (i - 1) * Grid]

Sooner(f, g) ==
  \/ f.cutoff < g.cutoff
  \/ f.cutoff = g.cutoff /\ f.known < g.known
  \/ f.cutoff = g.cutoff /\ f.known = g.known /\ f.id <= g.id
First(S) == CHOOSE f \in S : \A g \in S : Sooner(f, g)

\* Variant: the lag bound holds for what was known alone.
EligibleByKnowledge(stored, used, base, target) ==
  {f \in stored :
     /\ f \notin used /\ f.cutoff >= target
     /\ f.known >= target - Age /\ f.known <= target + Lag
     /\ target = base.cutoff => f = base.frame}

\* The frames of a target's slot; the cutoff's takes the baseline's alone.
Eligible(stored, used, base, target) ==
  {f \in stored :
     /\ f.cutoff <= base.cutoff /\ f.known <= base.cutoff
     /\ f \notin used
     /\ f.cutoff >= target /\ f.cutoff <= target + Lag
     /\ f.known >= target - Age /\ f.known <= target + Lag
     /\ target = base.cutoff => f = base.frame}

\* The first frame of the slot fills it, or nothing does: one without a
\* midpoint leaves the target missing though a later frame has one.
Filled(stored, base, points, target) ==
  LET eligible == Eligible(stored, {p.frame : p \in points}, base, target) IN
  IF eligible # {} /\ First(eligible).priced
  THEN points \cup {[target |-> target, frame |-> First(eligible)]} ELSE points
Points(stored, base) == FoldLeft(LAMBDA points, target : Filled(stored, base, points, target), {}, Targets(base))

Status(points) ==
  IF Cardinality(points) = Lookback \div Grid + 1 THEN "QUALIFIED"
  ELSE IF points # {} THEN "DEGRADED" ELSE "UNAVAILABLE"
Greatest(S) == CHOOSE x \in S : \A y \in S : y <= x

BuildPath(stored, base) ==
  LET points == Points(stored, base) IN
  [base |-> base, points |-> points,
   known |-> Greatest({base.known} \cup {p.frame.known : p \in points}),
   missing |-> {Targets(base)[i] : i \in DOMAIN Targets(base)} \ {p.target : p \in points},
   status |-> Status(points)]

\* The contract every path is constructed and read back under, beyond what
\* BuildPath's shape gives: the points partition the grid with the missing
\* targets, no frame serves twice, none is late, stale or from the future,
\* the cutoff's is the baseline's, and the status says how much is there.
LawfulPoint(p, base) ==
  /\ p.frame.cutoff >= p.target /\ p.frame.known <= p.frame.cutoff
  /\ p.frame.cutoff <= p.target + Lag /\ p.frame.known <= p.target + Lag
  /\ p.frame.known >= p.target - Age
  /\ p.frame.cutoff <= base.cutoff /\ p.frame.known <= base.cutoff
  /\ p.target = base.cutoff => p.frame = base.frame
LawfulPath(path) ==
  LET grid == {Targets(path.base)[i] : i \in DOMAIN Targets(path.base)}
      taken == {p.target : p \in path.points} IN
  /\ WindowStart(path.base) >= 0 /\ path.known <= path.base.cutoff
  /\ taken \cup path.missing = grid /\ taken \cap path.missing = {}
  /\ \A p, q \in path.points : p = q \/ (p.target # q.target /\ p.frame # q.frame)
  /\ \A p \in path.points : LawfulPoint(p, path.base) /\ path.known >= p.frame.known
  /\ path.status = "QUALIFIED" => path.missing = {}
  /\ path.status = "UNAVAILABLE" => path.points = {}
  /\ path.status = "DEGRADED" => path.points # {} /\ path.missing # {}

-----------------------------------------------------------------------------
(* The store.                                                               *)

\* A frame is persisted and indexed, on time or late.
FrameArrives ==
  /\ \E f \in Candidates \ frames : frames' = frames \cup {f}
  /\ UNCHANGED <<snapshots, events, cutOff, persister, commitments, builds, pathDeaths>>

Becomes(w, next) == persister' = [persister EXCEPT ![w] = next]

\* build_economic_root_path: it raises unless the baseline's frame is there
\* and the path it makes meets the contract.
Build(w) ==
  /\ persister[w].at = "rest" /\ builds < MaxBuilds
  /\ \E base \in Baselines :
       LET path == BuildPath(frames, base) IN
       /\ base.frame \in frames
       /\ LawfulPath(path)
       /\ Becomes(w, [at |-> "look", path |-> path, seen |-> 0, last |-> Genesis])
  /\ builds' = builds + 1
  /\ UNCHANGED <<frames, snapshots, events, cutOff, commitments, pathDeaths>>

\* The snapshot is found, and cannot differ under one identity, or is to be
\* created; one that another writer created meanwhile makes this one raise.
LookForSnapshot(w) ==
  /\ persister[w].at = "look"
  /\ Becomes(w, [persister[w] EXCEPT !.at = IF persister[w].path \in snapshots THEN "journal" ELSE "create"])
  /\ UNCHANGED <<frames, snapshots, events, cutOff, commitments, builds, pathDeaths>>
CreateSnapshot(w) ==
  /\ persister[w].at = "create"
  /\ snapshots' = snapshots \cup {persister[w].path}
  /\ Becomes(w, IF persister[w].path \in snapshots THEN Seated ELSE [persister[w] EXCEPT !.at = "journal"])
  /\ UNCHANGED <<frames, events, cutOff, commitments, builds, pathDeaths>>

\* The journal is read: a cut line raises, the path's event ends the persist.
ReadEvents(w) ==
  /\ persister[w].at = "journal"
  /\ IF cutOff \/ \E i \in DOMAIN events : events[i].path = persister[w].path
     THEN Becomes(w, Seated)
     ELSE Becomes(w, [at |-> "append", path |-> persister[w].path, seen |-> Len(events),
                       last |-> IF events = <<>> THEN Genesis ELSE events[Len(events)]])
  /\ UNCHANGED <<frames, snapshots, events, cutOff, commitments, builds, pathDeaths>>

\* The event is appended after whatever others appended since; behind a cut
\* line it is lost with it.
AppendPath(w) ==
  /\ persister[w].at = "append"
  /\ events' = IF cutOff THEN events
               ELSE Append(events, [sequence |-> persister[w].seen + 1, path |-> persister[w].path,
                                    previous |-> persister[w].last])
  /\ Becomes(w, Seated)
  /\ UNCHANGED <<frames, snapshots, cutOff, commitments, builds, pathDeaths>>

PersisterDies(w) ==
  /\ persister[w].at # "rest" /\ pathDeaths < MaxPathDeaths
  /\ cutOff' \in IF persister[w].at = "append" THEN {cutOff, TRUE} ELSE {cutOff}
  /\ Becomes(w, Seated) /\ pathDeaths' = pathDeaths + 1
  /\ UNCHANGED <<frames, snapshots, events, commitments, builds>>

\* Variant: the range is committed as it stands.
CommitUnchecked ==
  /\ ~cutOff /\ Cardinality(commitments) < MaxCommitments
  /\ \E start \in 1..Len(events) : \E end \in start..Len(events) :
       commitments' = commitments \cup {[start |-> start, events |-> SubSeq(events, start, end)]}
  /\ UNCHANGED <<frames, snapshots, events, cutOff, persister, builds, pathDeaths>>

\* commitment: a range of the journal, if its sequence numbers are contiguous.
Commit ==
  /\ ~cutOff /\ Cardinality(commitments) < MaxCommitments
  /\ \E start \in 1..Len(events) : \E end \in start..Len(events) :
       /\ \A i \in start..end : events[i].sequence = i
       /\ commitments' = commitments \cup {[start |-> start, events |-> SubSeq(events, start, end)]}
  /\ UNCHANGED <<frames, snapshots, events, cutOff, persister, builds, pathDeaths>>

PathsNext ==
  \/ FrameArrives \/ Commit
  \/ \E w \in Writers : Build(w) \/ LookForSnapshot(w) \/ CreateSnapshot(w)
       \/ ReadEvents(w) \/ AppendPath(w) \/ PersisterDies(w)
PathsSpec == PathsInit /\ [][PathsNext]_pathVars

-----------------------------------------------------------------------------
(* Properties.                                                              *)

\* Whatever frames are in the store, the builder makes a path its own
\* contract accepts: a prediction whose cutoff frame is recoverable never
\* loses its path to a frame that came late, early, stale or unpriced.
BuilderMeetsContract ==
  \A base \in Baselines : base.frame \in frames => LawfulPath(BuildPath(frames, base))

\* A frame that reaches the store late changes a path built again in at most
\* one slot, the one it falls into; so a path built from its cutoff on is the
\* same whatever frames come after its cutoff.
FillAt(path, t) == {p.frame : p \in {q \in path.points : q.target = t}}
TouchedSlots(base) ==
  LET before == BuildPath(frames, base) after == BuildPath(frames', base) IN
  {t \in before.missing \cup {p.target : p \in before.points} : FillAt(before, t) # FillAt(after, t)}
OneFrameTouchesOneSlot ==
  [][frames' # frames =>
       \A base \in Baselines : base.frame \in frames =>
         LET touched == TouchedSlots(base) arrived == frames' \ frames IN
         \A t \in touched : \A f \in arrived : f.cutoff \in t..(t + Lag) /\ t < base.cutoff]_pathVars

\* However persists overlap, die and are retried, what is committed to the
\* Book is a chain: each event of a committed range names the one before it,
\* every path of it has its snapshot, and the journal still says the same.
\* The journal itself may fork, two events under one number; then a range
\* across the fork is refused.
Before(c, i) == IF c.start + i = 2 THEN Genesis ELSE events[c.start + i - 2]
CommitmentsAreChains ==
  \A c \in commitments : \A i \in DOMAIN c.events :
    /\ c.start + i - 1 \in DOMAIN events /\ events[c.start + i - 1] = c.events[i]
    /\ c.events[i].previous = Before(c, i)
    /\ c.events[i].path \in snapshots
=============================================================================
