--------------------------- MODULE MarketEvidence ---------------------------
(***************************************************************************)
(* From a captured stream to a shadow decision: the stream journal and its *)
(* finalization (microstream.py), the immutable observation and its index  *)
(* (market_data.py), and the hand-off that binds the observation to a      *)
(* neutral decision (joined_shadow_observer.py, qualified_shadow.py,       *)
(* market_observation_qualification.py).  Writers die between any two file *)
(* operations; the decisions are written under the writer lease, which is  *)
(* one step here, everything before it is not.                             *)
(***************************************************************************)
EXTENDS MicroStream

CONSTANTS
  Messages,    \* the messages a provider may send
  Joiners,     \* processes that hand the window over
  Policies,    \* [event, transport], the freshness limits a policy may set
  AuditLimits, \* those of every audit, whatever the policy
  Delay,       \* actionable_delay_seconds
  MaxLines,    \* bound on the lines of the journal
  MaxTime,     \* bound on the clock
  MaxDeaths    \* bound on deaths

ASSUME MessagesAssumption ==
  \A m \in Messages : m.seq \in Int /\ m.at \in Int /\ m.events \in Seq(BookEvent)
ASSUME AbsentIsNoJournal == Absent \notin Seq([message : Messages, received : Nat])
ASSUME LimitsAreTimes ==
  \A l \in Policies \cup {AuditLimits} : l.event \in Nat /\ l.transport \in Nat
ASSUME DelayIsPositive == Delay \in Nat \ {0}     \* JoinedShadowPolicy.validate

VARIABLES
  lines,        \* runtime/market_stream/<stream>.jsonl: [message, received]
  torn,         \* its last line is incomplete
  bundle,       \* the compressed journal and its manifest, by the lines they hold
  manifest,
  observation,  \* artifacts/market_data/observations/OBS-<stream>.json
  index,        \* the ids state/market_data.json lists
  writer,       \* step of the process that finalizes the stream
  decisions,    \* state/qualified_market_shadow.json
  joiner,       \* per process: its step
  now,          \* the time of day
  deaths,
  resumed       \* history: the journal grew after a bundle of it had been written

evidenceVars == <<lines, torn, bundle, manifest, observation, index, writer, decisions, joiner, now,
                  deaths, resumed>>
streamVars == <<lines, torn, bundle, manifest, observation, index, writer, resumed>>
joinVars == <<decisions, joiner>>

MessagesOf(records) == [i \in DOMAIN records |-> records[i].message]
Summary(records) == ReplayRecords(MessagesOf(records))

-----------------------------------------------------------------------------
(* The stream journal *)

Known(message) == {l \in ToSet(lines) : l.message.seq = message.seq}

\* A message with a known number is not appended again: it is a duplicate, or a
\* conflict that raises.  A torn line makes every further read of the file raise.
Ingest(message) ==
  /\ ~ torn /\ Len(lines) < MaxLines /\ writer.at = "idle"
  /\ Known(message) = {}
  /\ lines' = Append(lines, [message |-> message, received |-> now])
  /\ resumed' = (resumed \/ bundle # Absent)
  /\ UNCHANGED <<torn, bundle, manifest, observation, index, writer, joinVars, now, deaths>>

DiesInAppend ==
  /\ ~ torn /\ deaths < MaxDeaths /\ writer.at = "idle"
  /\ torn' = TRUE /\ deaths' = deaths + 1
  /\ UNCHANGED <<lines, bundle, manifest, observation, index, writer, joinVars, now, resumed>>

ObservationOf(records) ==
  LET received == Max({records[i].received : i \in DOMAIN records})
      latest   == Summary(records).latest
  IN [content |-> records, source |-> latest, received |-> received, summary |-> Summary(records),
      quality |-> Classify(latest, received, received, [event |-> 30, transport |-> 30], 1)]

Steps(at, records) == writer' = [at |-> at, records |-> records]

\* Variant: the observation is persisted before what it names is written.
FinalizeObserving ==
  /\ writer.at = "idle" /\ ~ torn /\ lines # <<>> /\ ~ Summary(lines).error
  /\ Steps("observe", lines)
  /\ UNCHANGED <<lines, torn, bundle, manifest, observation, index, joinVars, now, deaths, resumed>>

\* finalize, file by file: replays the journal, writes bundle and manifest, and
\* persists the observation the first time only.
Finalize ==
  /\ writer.at = "idle" /\ ~ torn /\ lines # <<>> /\ ~ Summary(lines).error
  /\ Steps("bundle", lines)
  /\ UNCHANGED <<lines, torn, bundle, manifest, observation, index, joinVars, now, deaths, resumed>>
WriteBundle ==
  /\ writer.at = "bundle" /\ bundle' = writer.records /\ Steps("manifest", writer.records)
  /\ UNCHANGED <<lines, torn, manifest, observation, index, joinVars, now, deaths, resumed>>
WriteManifest ==
  /\ writer.at = "manifest" /\ manifest' = writer.records /\ Steps("observe", writer.records)
  /\ UNCHANGED <<lines, torn, bundle, observation, index, joinVars, now, deaths, resumed>>

\* MarketDataStore.persist: an existing observation ends it, equal or not, and
\* the index is rebuilt only after one was written.
PersistObservation ==
  /\ writer.at = "observe"
  /\ IF observation = Absent
       THEN observation' = ObservationOf(writer.records) /\ Steps("index", writer.records)
       ELSE observation' = observation /\ Steps("idle", <<>>)
  /\ UNCHANGED <<lines, torn, bundle, manifest, index, joinVars, now, deaths, resumed>>
RebuildIndex ==
  /\ writer.at = "index" /\ Steps("idle", <<>>)
  /\ index' = IF observation = Absent THEN {} ELSE {"OBS"}
  /\ UNCHANGED <<lines, torn, bundle, manifest, observation, joinVars, now, deaths, resumed>>

\* validate_stream_bundles and validate_market_data_store find no error: what the
\* manifest names is there and replays to what it says, and what is indexed is there.
ValidBundles ==
  /\ manifest # Absent => bundle = manifest /\ ~ Summary(bundle).error
  /\ index # {} => observation # Absent

WriterDies ==
  /\ writer.at # "idle" /\ deaths < MaxDeaths
  /\ deaths' = deaths + 1 /\ Steps("idle", <<>>)
  /\ UNCHANGED <<lines, torn, bundle, manifest, observation, index, joinVars, now, resumed>>

-----------------------------------------------------------------------------
(* Qualification and the hand-off *)

\* Variant: takes the stored quality for good.
QualifiesAsStored(o, consumed, limits) == o.quality = "VALID" /\ SequenceQualified(o.summary)

\* qualify_observation at the moment it is consumed.
Qualifies(o, consumed, limits) ==
  /\ o.quality = "VALID"
  /\ Classify(o.source, o.received, consumed, limits, 1) = "VALID"
  /\ SequenceQualified(o.summary)

\* _audit_decision of a recorded decision: requalified at the time it was made,
\* under the limits of qualification_snapshot and not those it was made under.
Audit(decision) ==
  /\ observation # Absent /\ decision.evidence = observation.content
  /\ Qualifies(observation, decision.observed_at, AuditLimits)

\* validate_qualified_shadow_state: ids are unique, and every decision is bound
\* to evidence and without authority.
ValidShadowState ==
  /\ Cardinality(decisions) <= 1
  /\ \A d \in decisions : d.evidence # <<>> /\ d.target = 0

\* certification_state: the decisions, the store and the bundles are all in order.
Certified == ValidShadowState /\ ValidBundles /\ \A d \in decisions : Audit(d)

Decision(consumed, limits) ==
  [observed_at |-> consumed, actionable_at |-> consumed + Delay, target |-> 0,
   evidence |-> observation.content, freshness_policy |-> limits]

JoinerAt(j, step) == joiner' = [joiner EXCEPT ![j] = step]

\* join_observer_window under a policy: a join that exists is verified and ends
\* it; an observation that does not qualify now is skipped, nothing is recorded.
LookForJoin(j, limits) ==
  /\ joiner[j].at = "idle" /\ observation # Absent
  /\ IF decisions # {}
       THEN JoinerAt(j, [at |-> IF Certified THEN "joined" ELSE "raised", decision |-> Absent])
       ELSE IF Qualifies(observation, now, limits)
              THEN JoinerAt(j, [at |-> "record", decision |-> Decision(now, limits)])
              ELSE JoinerAt(j, [at |-> "skipped", decision |-> Absent])
  /\ UNCHANGED <<streamVars, decisions, now, deaths>>

\* record_qualified_shadow_decision under the lease: the id is the window's, so
\* a decision made at another time is a conflict, and the first one stays.  It
\* raises as well when another command holds the lease.
Record(j) ==
  /\ joiner[j].at = "record"
  /\ \/ /\ decisions = {} /\ decisions' = {joiner[j].decision}
        /\ JoinerAt(j, [joiner[j] EXCEPT !.at = "joined"])
     \/ /\ decisions # {} /\ UNCHANGED decisions
        /\ JoinerAt(j, [joiner[j] EXCEPT
                          !.at = IF joiner[j].decision \in decisions THEN "joined" ELSE "raised"])
     \/ /\ UNCHANGED decisions /\ JoinerAt(j, [joiner[j] EXCEPT !.at = "raised"])
  /\ UNCHANGED <<streamVars, now, deaths>>

\* Joins are called again: by the next tick, or by an operator.
JoinAgain(j) ==
  /\ joiner[j].at \in {"joined", "skipped", "raised"}
  /\ JoinerAt(j, [at |-> "idle", decision |-> Absent])
  /\ UNCHANGED <<streamVars, decisions, now, deaths>>
JoinerDies(j) ==
  /\ joiner[j].at = "record" /\ deaths < MaxDeaths /\ deaths' = deaths + 1
  /\ JoinerAt(j, [at |-> "idle", decision |-> Absent])
  /\ UNCHANGED <<streamVars, decisions, now>>

TimePasses == now < MaxTime /\ now' = now + 1 /\ UNCHANGED <<streamVars, joinVars, deaths>>

EvidenceInit ==
  /\ lines = <<>> /\ torn = FALSE /\ bundle = Absent /\ manifest = Absent /\ observation = Absent
  /\ index = {} /\ writer = [at |-> "idle", records |-> <<>>] /\ decisions = {}
  /\ joiner = [j \in Joiners |-> [at |-> "idle", decision |-> Absent]]
  /\ now = 0 /\ deaths = 0 /\ resumed = FALSE

EvidenceNext ==
  \/ \E message \in Messages : Ingest(message)
  \/ DiesInAppend \/ Finalize \/ WriteBundle \/ WriteManifest \/ PersistObservation
  \/ RebuildIndex \/ WriterDies
  \/ \E j \in Joiners, limits \in Policies : LookForJoin(j, limits)
  \/ \E j \in Joiners : Record(j) \/ JoinAgain(j) \/ JoinerDies(j)
  \/ TimePasses

EvidenceSpec == EvidenceInit /\ [][EvidenceNext]_evidenceVars

-----------------------------------------------------------------------------
(* Properties *)

\* Whenever a stream is finalized, the replay of its journal agrees with what
\* can be said of the stream as a whole, and so do the features and percentiles
\* read off it; with every message there twice it replays to the same.
ReplayAgrees ==
  writer.at = "bundle" =>
    LET messages == MessagesOf(writer.records)
    IN /\ ReplayIsRight(messages, 1..7) /\ ReplayIsRight(messages \o messages, 1..7)
       /\ FeaturesAreSound(Summary(writer.records).book, 0..6)
       /\ QuantilesAreRanks([i \in DOMAIN messages |-> messages[i].at])

NoLaxer(a, b) == a.event <= b.event /\ a.transport <= b.transport

\* One window has one decision, bound to the observation, prospective, neutral
\* and fresh under the limits it records, whoever raced to make it and whatever is
\* ingested, finalized or joined again; and it passes the audit at every later
\* time, provided that its limits are no laxer than those of the audit.
BondsHold ==
  /\ ValidShadowState
  /\ \A d \in decisions :
       /\ d.evidence = observation.content /\ d.actionable_at > d.observed_at
       /\ Qualifies(observation, d.observed_at, d.freshness_policy)
       /\ d.observed_at - observation.source <= d.freshness_policy.event
       /\ NoLaxer(d.freshness_policy, AuditLimits) => Audit(d)

\* The observation is what the bundle holds, unless the journal was taken up
\* again after a bundle had been written: then another finalization replaces the
\* bundle and fails on the observation, which keeps naming the first.
BundleBacksObservation ==
  /\ (writer.at = "idle" /\ ~ resumed) => ValidBundles
  /\ observation # Absent =>
       /\ ~ resumed => bundle = observation.content /\ manifest = observation.content
       /\ IsPrefix(observation.content, bundle)
=============================================================================
