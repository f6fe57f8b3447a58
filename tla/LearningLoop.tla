--------------------------- MODULE LearningLoop ----------------------------
(***************************************************************************)
(* The three learning loops.  A run of one question over one canonical     *)
(* batch journals a prediction per cutoff and model, decides the ones      *)
(* whose horizon the batch covers, turns what is known at the end of the   *)
(* batch into claims and scores of the expert runtime, rebuilds the        *)
(* competence memory, assembles the question and synthesizes the market.   *)
(* Every journal is locked for one append only: everything a run decides,  *)
(* it decides from files it read before; an append that finds the lease    *)
(* held by another command raises, and ends the run.                       *)
(*                                                                         *)
(* A run keeps every frame it builds, and a market context is built of all *)
(* the frames there are of its cutoff and before: what a run keeps to      *)
(* resolve a cutoff is in the contexts a rerun builds of later ones.       *)
(*                                                                         *)
(* Time is counted in the two seconds of the resolution lag.  A batch is   *)
(* [start, end, degraded, absent, quiet]: the cutoffs whose frame is not   *)
(* QUALIFIED or cannot be built, and the instants no frame follows within  *)
(* the lag.  A prediction is [question, model, cutoff, context]; its       *)
(* identity holds the context it was made in.  A frame is [since, at]: the *)
(* observations between the two.  A context is [cutoff, frames], by how    *)
(* many frames it was built of: frames are only added.                     *)
(***************************************************************************)
EXTENDS ExpertRuntime
CONSTANTS
  Runners,         \* processes
  Batches,         \* canonical batches, disjoint in time
  Models,          \* question -> the sequence of its models
  MaxRuns, MaxDeaths, MaxOthers        \* bounds

Questions == {"DIRECTION", "MAGNITUDE", "LIQUIDITY"}
Lookback == 5
ShortLookback == 15
Lag == 1
Horizon == [DIRECTION |-> 5, MAGNITUDE |-> 15, LIQUIDITY |-> 15]
ASSUME BatchesAreIntervals == \A b \in Batches : b.start \in Int /\ b.end \in Int
ASSUME BatchesAreDisjoint == \A b, c \in Batches : b = c \/ b.end <= c.start \/ c.end <= b.start
ASSUME AbsentIsNoRun == Absent \notin Questions \X Batches
ASSUME AbsentIsNoMemory ==
  LET score == [claim : [question : Questions, model : UNION {ToSet(Models[q]) : q \in Questions}, cutoff : Int, context : Int],
                resolved : Int]
  IN  Absent \notin [known : Int, scores : Seq(score)]
ASSUME ModelsAreSequences == \A q \in Questions : Models[q] \in Seq(ToSet(Models[q]))

VARIABLES
  predictions, predictionState,    \* question_predictions.jsonl, and what its state file counts (0: none)
  outcomes, outcomeState,          \* question_outcomes.jsonl likewise
  frames, contexts,                \* the instrument states and the market contexts that are stored
  newest,                          \* the context of the greatest cutoff, its hash decides between two
  run,                             \* runner -> what it is doing
  completed,                       \* <<question, batch>> of the runs that returned
  latest,                          \* the last of them, if nothing else happened since it began
  runs, deaths,                    \* counters
  refused, overlapped,             \* has an append ever found the lease held; have two runs ever overlapped
  behind                           \* has one that the competence memory waited for, since it was rebuilt
journals == <<predictions, predictionState, outcomes, outcomeState>>
market == <<frames, contexts, newest>>
counters == <<completed, latest, runs, deaths, refused, overlapped>>
loopVars == <<runtimeVars, journals, market, run, counters, behind>>

At(stage) ==
  [stage |-> stage, question |-> Absent, batch |-> Absent, cutoffs |-> <<>>, models |-> <<>>, seen |-> {},
   context |-> 0, items |-> <<>>, queue |-> <<>>, scored |-> FALSE, steady |-> "no"]
Idle == At("idle")

LoopInit ==
  /\ RuntimeInit
  /\ predictions = <<>> /\ predictionState = 0 /\ outcomes = <<>> /\ outcomeState = 0
  /\ frames = {} /\ contexts = {} /\ newest = Absent /\ run = [r \in Runners |-> Idle]
  /\ completed = {} /\ latest = Absent /\ runs = 0 /\ deaths = 0
  /\ refused = FALSE /\ overlapped = FALSE /\ behind = FALSE

-----------------------------------------------------------------------------
(* What a batch says.                                                       *)

\* Every horizon from the first full lookback on, while its truth is covered.
Cutoffs(q, b) ==
  LET spacing == Horizon[q]
      first == b.start + Lookback
      room == b.end - Lag - first
  IN  [i \in 1 .. (IF room < 0 THEN 0 ELSE room \div spacing) |-> first + (i - 1) * spacing]

Resolves(p) == p.cutoff + Horizon[p.question]

\* The resolver: the first frame inside the lag window, else nothing before
\* the window has closed.  The batch covers the horizon of every prediction
\* made of it, also of another question's that a rerun reuses.
Decide(b, p) ==
  IF Resolves(p) \notin b.quiet THEN [prediction |-> p, status |-> "RESOLVED", decided |-> Resolves(p)]
  ELSE IF b.end <= Resolves(p) + Lag THEN [status |-> "PENDING"]
  ELSE [prediction |-> p, status |-> "UNRESOLVABLE", decided |-> Resolves(p) + Lag + 1]

\* The frames a run keeps: of a cutoff the last ten seconds, of Magnitude's the
\* last thirty too; of a horizon all there is until the lag is over.
Frame(since, at) == [since |-> since, at |-> at]
CutoffFrames(q, b, c) ==
  IF c \in b.absent THEN {}
  ELSE {Frame(c - Lookback, c)} \cup
       IF q # "MAGNITUDE" \/ c \in b.degraded THEN {}
       ELSE {Frame(IF c - ShortLookback < b.start THEN b.start ELSE c - ShortLookback, c)}
ForwardFrame(b, p) == Frame(b.start, Resolves(p) + Lag)
OtherFrame(b) == Frame(b.start, b.start)        \* of another instrument

\* materialize_market_context takes every stored frame of its cutoff or before;
\* of the contexts of one cutoff the newest is the one of the greater hash.
ContextOf(stored, c) == [cutoff |-> c, frames |-> Cardinality({f \in stored : f.at <= c})]
Store(built) ==
  /\ contexts' = contexts \cup {built}
  /\ newest' \in IF built \in contexts THEN {newest}
                 ELSE {k \in {newest, built} : k # Absent /\ \A o \in {newest, built} : o = Absent \/ k.cutoff >= o.cutoff}

\* What the validators of the two journals accept.
PredictionsValid == predictionState \in {0, Len(predictions)}
OutcomesValid == outcomeState \in {0, Len(outcomes)} /\ (outcomes # <<>> => PredictionsValid)

OutcomeOf(p) == {o \in ToSet(outcomes) : o.prediction = p}

\* A rerun reuses the first entry of that cutoff and model; Direction does
\* not ask for the question of the entry, the other two do.
Matches(q, c, m) ==
  {i \in DOMAIN predictions :
     /\ predictions[i].cutoff = c /\ predictions[i].model = m
     /\ q # "DIRECTION" => predictions[i].question = q}
Match(q, c, m) == predictions[CHOOSE i \in Matches(q, c, m) : \A j \in Matches(q, c, m) : i <= j]

\* What a run journals next: at a raise it stops, at the end it has returned.
Step(r, next) == run' = [run EXCEPT ![r] = next]
Raise(r) == Step(r, Idle) /\ UNCHANGED counters
Return(r) ==
  /\ Step(r, Idle)
  /\ completed' = completed \cup {<<run[r].question, run[r].batch>>}
  /\ latest' = IF run[r].steady # "no" THEN <<run[r].question, run[r].batch>> ELSE Absent
  /\ UNCHANGED <<runs, deaths, refused, overlapped>>

-----------------------------------------------------------------------------
\* Whether a run is alone so far, and is the first of that batch or does again
\* what was done last; "moved" once a context it built became the newest.
Steady(q, b) ==
  IF \E r \in Runners : run[r] # Idle THEN "no" ELSE IF latest = <<q, b>> THEN "again" ELSE "first"

Begin(r, q, b) ==
  /\ run[r] = Idle /\ runs < MaxRuns /\ Cutoffs(q, b) # <<>>
  /\ run' = [s \in Runners |->
       IF s = r
       THEN [At("cutoff") EXCEPT !.question = q, !.batch = b, !.cutoffs = Cutoffs(q, b), !.steady = Steady(q, b)]
       ELSE [run[s] EXCEPT !.steady = "no"]]
  /\ runs' = runs + 1 /\ latest' = Absent
  /\ overlapped' = (overlapped \/ \E s \in Runners : run[s] # Idle)
  /\ UNCHANGED <<runtimeVars, journals, market, behind, completed, deaths, refused>>

\* The frames and the context of a cutoff, and what is already journalled for
\* it.  A frame that cannot be built ends the batch, except Magnitude's.
NextCutoff(r) ==
  LET p == run[r]
      c == Head(p.cutoffs)
      built == ContextOf(frames', c)
  IN
  /\ p.stage = "cutoff" /\ p.cutoffs # <<>> /\ p.models = <<>>
  /\ frames' = frames \cup CutoffFrames(p.question, p.batch, c)
  /\ IF c \in p.batch.absent /\ p.question # "MAGNITUDE" THEN Raise(r) /\ UNCHANGED <<contexts, newest>>
     ELSE /\ UNCHANGED counters
          /\ IF c \in p.batch.absent \cup p.batch.degraded
             THEN Step(r, [p EXCEPT !.cutoffs = Tail(p.cutoffs)]) /\ UNCHANGED <<contexts, newest>>
             ELSE /\ Store(built)
                  /\ Step(r, [p EXCEPT !.models = Models[p.question], !.context = built.frames,
                       !.seen = {<<e.cutoff, e.model>> : e \in {e \in ToSet(predictions) : e.question = p.question}},
                       !.steady = IF p.steady = "again" /\ newest' # newest THEN "moved" ELSE p.steady])
  /\ UNCHANGED <<runtimeVars, journals, behind>>

\* One model at the cutoff.  Direction resolves an entry it reuses under the
\* context the entry names, the others under the context they have built.
Recorded(p, entry, under) ==
  [p EXCEPT !.items = Append(p.items, [prediction |-> entry, under |-> under]), !.models = Tail(p.models),
            !.cutoffs = IF Len(p.models) = 1 THEN Tail(p.cutoffs) ELSE p.cutoffs]
Prediction(p) ==
  [question |-> p.question, model |-> Head(p.models), cutoff |-> Head(p.cutoffs), context |-> p.context]
Recording(r) == run[r].stage = "cutoff" /\ run[r].models # <<>>
Reuses(p) == <<Head(p.cutoffs), Head(p.models)>> \in p.seen
\* Variant: what is journalled already is not resolved again.
ReuseUnresolved(r) ==
  LET p == run[r] IN
  /\ Recording(r) /\ Reuses(p)
  /\ Step(r, [Recorded(p, Prediction(p), p.context) EXCEPT !.items = p.items])
  /\ UNCHANGED <<runtimeVars, journals, market, behind, counters>>

Reuse(r) ==
  LET p == run[r] entry == Match(p.question, Head(p.cutoffs), Head(p.models)) IN
  /\ Recording(r) /\ Reuses(p)
  /\ Step(r, Recorded(p, entry, IF p.question = "DIRECTION" THEN entry.context ELSE p.context))
  /\ UNCHANGED <<runtimeVars, journals, market, behind, counters>>

\* The journal answers for a prediction it holds with the entry it has.
AppendPrediction(p) ==
  IF p \in ToSet(predictions) THEN UNCHANGED <<predictions, predictionState>>
  ELSE predictions' = Append(predictions, p) /\ predictionState' = Len(predictions')
Predict(r) ==
  LET p == run[r] IN
  /\ Recording(r) /\ ~Reuses(p)
  /\ AppendPrediction(Prediction(p)) /\ UNCHANGED <<outcomes, outcomeState>>
  /\ Step(r, Recorded(p, Prediction(p), p.context))
  /\ UNCHANGED <<runtimeVars, market, behind, counters>>

EndOfCutoffs(r) ==
  LET p == run[r] IN
  /\ p.stage = "cutoff" /\ p.cutoffs = <<>>
  /\ IF p.items = <<>> THEN Raise(r) ELSE Step(r, [p EXCEPT !.stage = "resolve"]) /\ UNCHANGED counters
  /\ UNCHANGED <<runtimeVars, journals, market, behind>>

\* The journal takes one decision of a prediction; one it holds already only
\* has its state file written again.
AppendOutcome(decision) ==
  /\ outcomes' = IF OutcomeOf(decision.prediction) # {} THEN outcomes ELSE Append(outcomes, decision)
  /\ outcomeState' = Len(outcomes')

\* The resolver refuses an invalid journal, a baseline that is not the one of
\* the prediction's experience, and a second decision that differs.
Refused(item, decision) ==
  \/ ~PredictionsValid
  \/ item.under # item.prediction.context
  \/ decision.status # "PENDING" /\ OutcomeOf(item.prediction) \notin {{}, {decision}}

\* The first of the items; its forward frame is kept whatever comes of it.
Resolve(r) ==
  LET p == run[r]
      item == Head(p.items)
      decision == Decide(p.batch, item.prediction)
  IN
  /\ p.stage = "resolve" /\ p.items # <<>>
  /\ frames' = frames \cup {ForwardFrame(p.batch, item.prediction)}
  /\ IF Refused(item, decision) THEN Raise(r) /\ UNCHANGED <<outcomes, outcomeState>>
     ELSE /\ IF decision.status = "PENDING" THEN UNCHANGED <<outcomes, outcomeState>> ELSE AppendOutcome(decision)
          /\ Step(r, [p EXCEPT !.items = Tail(p.items)]) /\ UNCHANGED counters
  /\ UNCHANGED <<runtimeVars, predictions, predictionState, contexts, newest, behind>>

-----------------------------------------------------------------------------
(* sync_expert_learning: what was known at the end of the batch.            *)

Claim(p) == Event("claim", p.cutoff, p)
Score(o) == Event("score", o.decided, [claim |-> o.prediction, resolved |-> o.decided])

Known(p, knownAt) == p.cutoff < knownAt         \* journalled one nanosecond after its cutoff
NewClaims(knownAt, state) ==
  LET claimed == ToSet(Items(state, "claim"))
  IN  Those(predictions, {i \in DOMAIN predictions : Known(predictions[i], knownAt) /\ predictions[i] \notin claimed})
\* Variant: what was scored before is not looked for.
NewScoresAgain(knownAt, state) ==
  LET decided(p) == {o \in OutcomeOf(p) : o.status = "RESOLVED" /\ o.decided <= knownAt}
      due == Those(predictions, {i \in DOMAIN predictions : Known(predictions[i], knownAt) /\ decided(predictions[i]) # {}})
  IN  [i \in DOMAIN due |-> CHOOSE o \in decided(due[i]) : TRUE]

NewScores(knownAt, state) ==
  LET scored == {s.claim : s \in ToSet(Items(state, "score"))}
      decided(p) == {o \in OutcomeOf(p) : o.status = "RESOLVED" /\ o.decided <= knownAt}
      due == Those(predictions, {i \in DOMAIN predictions :
               Known(predictions[i], knownAt) /\ predictions[i] \notin scored /\ decided(predictions[i]) # {}})
  IN  [i \in DOMAIN due |-> CHOOSE o \in decided(due[i]) : TRUE]

Sync(r) ==
  LET p == run[r]
      claims == NewClaims(p.batch.end, StateFile)
      scores == NewScores(p.batch.end, StateFile)
  IN
  /\ p.stage = "resolve" /\ p.items = <<>>
  /\ IF ~PredictionsValid \/ ~OutcomesValid THEN Raise(r)
     ELSE /\ Step(r, [p EXCEPT !.stage = "rebuild", !.scored = (scores # <<>>),
                       !.queue = [i \in DOMAIN claims |-> Claim(claims[i])] \o [i \in DOMAIN scores |-> Score(scores[i])]])
          /\ UNCHANGED counters
  /\ UNCHANGED <<runtimeVars, journals, market, behind>>

\* Every event a run has decided on is appended by itself.
AppendNext(r) ==
  LET p == run[r] IN
  /\ p.queue # <<>>
  /\ Journal(Head(p.queue)) /\ Step(r, [p EXCEPT !.queue = Tail(p.queue)])
  /\ behind' = (behind /\ Head(p.queue).type # "competence")
  /\ UNCHANGED <<journals, market, counters>>

\* rebuild_competence takes ALL the scores of the journal, whatever their time.
Memory(knownAt, scores) == [known |-> knownAt, scores |-> scores]
\* Variant: rebuilt whenever there is a score.
RebuildAlways(r) ==
  LET p == run[r] IN
  /\ p.stage = "rebuild" /\ p.queue = <<>>
  /\ Step(r, [p EXCEPT !.stage = "assemble",
       !.queue = IF Items(StateFile, "score") # <<>>
                 THEN <<Event("competence", p.batch.end, Memory(p.batch.end, Items(events, "score")))>>
                 ELSE <<>>])
  /\ UNCHANGED <<runtimeVars, journals, market, behind, counters>>

Rebuild(r) ==
  LET p == run[r] IN
  /\ p.stage = "rebuild" /\ p.queue = <<>>
  /\ Step(r, [p EXCEPT !.stage = "assemble",
       !.queue = IF Items(StateFile, "score") # <<>> /\ (p.scored \/ Competence(StateFile) = Absent)
                 THEN <<Event("competence", p.batch.end, Memory(p.batch.end, Items(events, "score")))>>
                 ELSE <<>>])
  /\ UNCHANGED <<runtimeVars, journals, market, behind, counters>>

-----------------------------------------------------------------------------
(* assemble_and_record_<question>_question, and the market synthesis.       *)

Rows(q, knownAt) == {p \in ToSet(predictions) : p.question = q /\ Known(p, knownAt)}
RowsAt(q, knownAt, c) == {p \in Rows(q, knownAt) : p.cutoff = c}
Eligible(q, knownAt) ==
  {c \in {p.cutoff : p \in Rows(q, knownAt)} :
     IF q = "DIRECTION" THEN Cardinality(RowsAt(q, knownAt, c)) >= 2
     ELSE {p.model : p \in RowsAt(q, knownAt, c)} = ToSet(Models[q])}
SelectCutoff(q, knownAt) == CHOOSE c \in Eligible(q, knownAt) : \A d \in Eligible(q, knownAt) : c >= d

\* One claim per model; the one of the least hash, which is any of them here.
OnePerModel(rows) == {p \in rows : \A o \in rows : o.model = p.model => p.context <= o.context}
Selected(q, knownAt) ==
  LET rows == RowsAt(q, knownAt, SelectCutoff(q, knownAt))
  IN  IF q = "DIRECTION" THEN rows ELSE OnePerModel(rows)

ScoredBy(state, knownAt) ==
  LET scores == Items(state, "score") IN Those(scores, {i \in DOMAIN scores : scores[i].resolved <= knownAt})
Contributes(p, state, knownAt) ==
  /\ \E s \in ToSet(ScoredBy(state, knownAt)) : s.claim = p
  /\ \E o \in OutcomeOf(p) : o.status = "RESOLVED" /\ o.decided <= knownAt

Blocked(q, knownAt, state) ==
  \/ ~PredictionsValid \/ ~OutcomesValid
  \/ Competence(state) # Absent /\ Competence(state).known > knownAt
  \/ \E p \in Rows(q, knownAt) : p \notin ToSet(Items(state, "claim"))
  \/ Eligible(q, knownAt) = {}
  \/ \E p \in Selected(q, knownAt) : ~Contributes(p, state, knownAt)

Envelope(q, knownAt, state) ==
  LET chosen == Selected(q, knownAt)
      scored == ScoredBy(state, knownAt)
  IN
  [question |-> q, known |-> knownAt, cutoff |-> SelectCutoff(q, knownAt), claims |-> chosen,
   prior |-> Those(scored, {i \in DOMAIN scored : scored[i].claim \notin chosen}),
   persisted |-> Competence(state), context |-> newest]

\* Blocked: the run is over.  Two claims of one Direction model raise.
Assemble(r) ==
  LET p == run[r]
      envelope == Envelope(p.question, p.batch.end, StateFile)
  IN
  /\ p.stage = "assemble" /\ p.queue = <<>>
  /\ IF Blocked(p.question, p.batch.end, StateFile) THEN Return(r)
     ELSE IF \E x, y \in envelope.claims : x # y /\ x.model = y.model THEN Raise(r)
     ELSE /\ Step(r, [p EXCEPT !.stage = "synthesize",
                       !.queue = IF envelope \in ToSet(Items(StateFile, "assembly")) THEN <<>>
                                 ELSE <<Event("assembly", p.batch.end, envelope)>>])
          /\ UNCHANGED counters
  /\ UNCHANGED <<runtimeVars, journals, market, behind>>

\* The latest assembly of each question; two of the same instant conflict.
KnownAssemblies(knownAt) == {a \in ToSet(Items(events, "assembly")) : a.known <= knownAt}
LatestOf(q, knownAt) ==
  LET of == {a \in KnownAssemblies(knownAt) : a.question = q}
      since(a, b) == a.known > b.known \/ (a.known = b.known /\ a.cutoff >= b.cutoff)
  IN  {a \in of : \A b \in of : since(a, b)}
Conflict(knownAt) == \E q \in Questions : Cardinality(LatestOf(q, knownAt)) > 1
Synthesis(knownAt) ==
  [known |-> knownAt, inputs |-> UNION {LatestOf(q, knownAt) : q \in Questions}, context |-> newest]

Synthesize(r) ==
  LET p == run[r]
      synthesis == Synthesis(p.batch.end)
  IN
  /\ p.stage = "synthesize" /\ p.queue = <<>>
  /\ IF Conflict(p.batch.end) \/ synthesis \in ToSet(Items(events, "synthesis")) THEN Return(r)
     ELSE Step(r, [p EXCEPT !.stage = "return", !.queue = <<Event("synthesis", p.batch.end, synthesis)>>])
          /\ UNCHANGED counters
  /\ UNCHANGED <<runtimeVars, journals, market, behind>>
Finish(r) ==
  /\ run[r].stage = "return" /\ run[r].queue = <<>> /\ Return(r)
  /\ UNCHANGED <<runtimeVars, journals, market, behind>>

-----------------------------------------------------------------------------
\* Another program stores a frame of another instrument, and may build a
\* context of its own when the batch is over.
ContextChanges ==
  /\ Cardinality({b \in Batches : OtherFrame(b) \in frames}) < MaxOthers
  /\ \E b \in Batches :
       /\ OtherFrame(b) \notin frames /\ frames' = frames \cup {OtherFrame(b)}
       /\ Store(ContextOf(frames', b.end)) \/ UNCHANGED <<contexts, newest>>
  /\ latest' = Absent /\ run' = [r \in Runners |-> [run[r] EXCEPT !.steady = "no"]]
  /\ UNCHANGED <<runtimeVars, journals, behind, completed, runs, deaths, refused, overlapped>>

\* The writer lease is held by another command: the append raises, and what
\* the run has queued is never appended.
Appending(p) ==
  \/ p.stage = "cutoff" /\ p.models # <<>> /\ ~Reuses(p)
  \/ /\ p.stage = "resolve" /\ p.items # <<>>
     /\ LET item == Head(p.items) decision == Decide(p.batch, item.prediction)
        IN  ~Refused(item, decision) /\ decision.status # "PENDING"
  \/ p.queue # <<>>
LeaseHeld(r) ==
  LET p == run[r] IN
  /\ Appending(p)
  /\ frames' = IF p.stage = "resolve" THEN frames \cup {ForwardFrame(p.batch, Head(p.items).prediction)} ELSE frames
  /\ Step(r, Idle) /\ refused' = TRUE
  /\ behind' = (behind \/ (p.stage = "rebuild" /\ p.scored) \/ p.stage = "assemble")
  /\ UNCHANGED <<runtimeVars, journals, contexts, newest, completed, latest, runs, deaths, overlapped>>

\* A process dies: anywhere, after any of the frames it was about to keep, or
\* between a line and the state file after it.
Keeping(p) ==
  IF p.stage = "cutoff" /\ p.cutoffs # <<>> /\ p.models = <<>> THEN CutoffFrames(p.question, p.batch, Head(p.cutoffs))
  ELSE IF p.stage = "resolve" /\ p.items # <<>> THEN {ForwardFrame(p.batch, Head(p.items).prediction)}
  ELSE {}
Die(r) ==
  LET p == run[r] IN
  /\ p # Idle /\ deaths < MaxDeaths
  /\ \/ UNCHANGED <<runtimeVars, journals>> /\ \E kept \in SUBSET Keeping(p) : frames' = frames \cup kept
     \/ /\ Recording(r) /\ ~Reuses(p) /\ Prediction(p) \notin ToSet(predictions)
        /\ predictions' = Append(predictions, Prediction(p))
        /\ UNCHANGED <<runtimeVars, predictionState, outcomes, outcomeState, frames>>
     \/ /\ p.stage = "resolve" /\ p.items # <<>> /\ PredictionsValid
        /\ LET item == Head(p.items) decision == Decide(p.batch, item.prediction) IN
           /\ decision.status # "PENDING" /\ item.under = item.prediction.context /\ OutcomeOf(item.prediction) = {}
           /\ outcomes' = Append(outcomes, decision)
        /\ frames' = frames \cup Keeping(p) /\ UNCHANGED <<runtimeVars, predictions, predictionState, outcomeState>>
     \/ p.queue # <<>> /\ JournalWithoutState(Head(p.queue)) /\ UNCHANGED <<journals, frames>>
  /\ Step(r, Idle) /\ deaths' = deaths + 1 /\ latest' = Absent
  /\ UNCHANGED <<contexts, newest, behind, completed, runs, refused, overlapped>>

LoopNext ==
  \/ ContextChanges
  \/ \E r \in Runners :
       \/ \E q \in Questions, b \in Batches : Begin(r, q, b)
       \/ NextCutoff(r) \/ Reuse(r) \/ Predict(r) \/ EndOfCutoffs(r) \/ Resolve(r)
       \/ Sync(r) \/ AppendNext(r) \/ Rebuild(r) \/ Assemble(r) \/ Synthesize(r) \/ Finish(r)
       \/ LeaseHeld(r) \/ Die(r)

-----------------------------------------------------------------------------
(* Properties.                                                              *)

Examined(q, b) == {c \in ToSet(Cutoffs(q, b)) : c \notin b.absent \cup b.degraded}

Shadowed(p) ==
  \E i, j \in DOMAIN predictions :
    i < j /\ predictions[j] = p /\ predictions[i].cutoff = p.cutoff /\ predictions[i].model = p.model

\* A run that returned has decided every prediction of its question at the
\* cutoffs it examined, but those whose window closes when the batch ends
\* (resolve_*_prediction).  Direction's reuse may land on the entry another
\* question made for the same model, and leaves its own undecided then;
\* runs that overlap may both journal a prediction of one model.
EveryPredictionDecided ==
  ~overlapped =>
    \A q \in Questions, b \in Batches : <<q, b>> \in completed => \A p \in ToSet(predictions) :
      \/ p.question # q \/ p.cutoff \notin Examined(q, b)
      \/ OutcomeOf(p) # {}
      \/ Decide(b, p).status = "PENDING"
      \/ q = "DIRECTION" /\ Shadowed(p)

\* At rest every claim was scored once at most, and the competence memory
\* counts every score (sync_expert_learning and rebuild_competence), unless a
\* process died in the middle of it or two syncs overlapped.  A run whose lease
\* was refused between its first score and its memory leaves the memory behind,
\* until the next memory is journalled: that one counts them all.
CompetenceCountsOnce ==
  (\A r \in Runners : run[r] = Idle) /\ runs > 0 /\ deaths = 0 /\ ~overlapped =>
    LET scores == Items(events, "score") IN
    /\ \A i, j \in DOMAIN scores : scores[i].claim = scores[j].claim => i = j
    /\ scores # <<>> /\ ~behind => Competence(events) # Absent /\ Competence(events).scores = scores

\* Processing the batch again that was processed last, nothing else having run
\* or stored a frame since, writes no prediction and no outcome, no claim, no
\* score and no memory, though the contexts of its later cutoffs are built anew
\* with the frames the first run kept to resolve the earlier ones.  It writes no
\* assembly and no synthesis either, unless one of them became the newest.
Learnt == <<predictions, outcomes, Items(events, "claim"), Items(events, "score"), Items(events, "competence")>>
RerunAddsNothing ==
  [][\A r \in Runners : deaths = 0 /\ ~refused /\ ~overlapped =>
       /\ run[r].steady = "again" => UNCHANGED <<predictions, outcomes, events>>
       /\ run[r].steady = "moved" => UNCHANGED Learnt]_loopVars

LoopSpec == LoopInit /\ [][LoopNext]_loopVars
=============================================================================
