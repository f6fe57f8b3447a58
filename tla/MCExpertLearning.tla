-------------------------- MODULE MCExpertLearning --------------------------
EXTENDS LearningLoop, BenjaminGate, QuestionResolvers, Synthesis, TLC

\* Batch 1: Direction decides one cutoff, finds one degraded, one without a
\* forward frame; Magnitude has one cutoff of the same model and instant.
\* Batch 2 is later and ends while a window is still open.  Batch 3 has
\* no frame that qualifies, and Direction's second cannot be built.
MCBatches ==
  {[start |-> 0, end |-> 21, degraded |-> {10}, absent |-> {}, quiet |-> {10}],
   [start |-> 30, end |-> 46, degraded |-> {}, absent |-> {}, quiet |-> {45}],
   [start |-> 60, end |-> 81, degraded |-> {65}, absent |-> {70}, quiet |-> {}]}
MCModels ==
  [DIRECTION |-> <<"NULL-PRIOR", "BOOK-IMBALANCE">>, MAGNITUDE |-> <<"NULL-PRIOR", "RECENT-RANGE">>,
   LIQUIDITY |-> <<"DEPTH">>]
MCSymmetry == Permutations(Runners) \cup Permutations(Clients)

(* Three runs one after the other, over any of the batches; if a run of the  *)
(* first batch dies or is refused the lease, or another program stores a      *)
(* frame between two runs, the rest is on that batch.  Or two runs over the   *)
(* first batch at once, in at most Turns turns.                              *)
CONSTANT Turns
VARIABLES side, turn     \* who acted last, and for the how manieth time
Work(q, b) ==
  \/ b.start = 0 /\ q \in Questions
  \/ b.start = 30 /\ q = "DIRECTION"
  \/ b.start = 60 /\ q \in {"DIRECTION", "LIQUIDITY"}
Others == {b \in Batches : OtherFrame(b) \in frames}
Disturbances == deaths + Cardinality(Others) + IF refused THEN 1 ELSE 0
MCLoopNext ==
  /\ LoopNext
  /\ \A b \in Others' : b.start = 0
  /\ \A r \in Runners : run'[r] # Idle =>
       /\ Work(run'[r].question, run'[r].batch)
       /\ Disturbances' > 0 \/ side = "together" => run'[r].batch.start = 0
  /\ side = "alone" =>
       /\ ~overlapped' /\ deaths' + Cardinality(Others') <= 1
       /\ Others' # Others => \A r \in Runners : run[r].stage \in {"idle", "synthesize"}
       /\ Disturbances' # Disturbances => runs < MaxRuns /\ \A r \in Runners : run[r] # Idle => run[r].batch.start = 0
  /\ side = "together" => runs' <= 2 /\ Disturbances' = 0
  /\ turn' = IF side = "alone" THEN turn
             ELSE LET actor == CHOOSE r \in Runners : run'[r].stage # run[r].stage \/ run'[r].queue # run[r].queue
                                 \/ run'[r].items # run[r].items \/ run'[r].cutoffs # run[r].cutoffs \/ run'[r].models # run[r].models
                  IN  IF actor = turn[1] THEN turn ELSE <<actor, turn[2] + 1>>
  /\ turn'[2] <= Turns

\* Or clients of the gate over one dossier: a good one, or one with a flaw.
MCPolicy ==
  [contextAge |-> 30, competenceAge |-> 100, experts |-> 2, total |-> 20, samples |-> 5, support |-> 30,
   weight |-> 75, confidence |-> 55, disagreement |-> 35, overlap |-> 50]
MCClaim == [cutoff |-> 10, weight |-> 60, support |-> 40]
MCEntry == [lastResolved |-> 15, samples |-> 10]
MCDossier ==
  [id |-> "d", intact |-> TRUE, journalled |-> 25, published |-> 25, competenceKnown |-> 20,
   contextKnown |-> 20, contextQualified |-> TRUE, contextMatches |-> TRUE,
   confidence |-> 70, disagreement |-> 30, overlap |-> 50,
   entries |-> [x \in {"e1", "e2"} |-> MCEntry], claims |-> [x \in {"e1", "e2"} |-> MCClaim]]
MCDossiers ==
  {MCDossier,
   [MCDossier EXCEPT !.published = 0], [MCDossier EXCEPT !.published = 19], [MCDossier EXCEPT !.published = 45],
   [MCDossier EXCEPT !.journalled = 31], [MCDossier EXCEPT !.competenceKnown = 14], [MCDossier EXCEPT !.competenceKnown = 40],
   [MCDossier EXCEPT !.contextKnown = 35], [MCDossier EXCEPT !.intact = FALSE],
   [MCDossier EXCEPT !.contextMatches = FALSE, !.contextQualified = FALSE],
   [MCDossier EXCEPT !.entries["e2"].lastResolved = 21], [MCDossier EXCEPT !.entries["e2"].samples = 4],
   [MCDossier EXCEPT !.claims["e1"].cutoff = 60, !.claims["e1"].weight = 80, !.claims["e1"].support = 20],
   [MCDossier EXCEPT !.confidence = 50, !.disagreement = 50, !.overlap = 60],
   [MCDossier EXCEPT !.entries = [x \in {"e1"} |-> MCEntry]], [MCDossier EXCEPT !.claims = [x \in {"e1"} |-> MCClaim]]}

\* Or one prediction of a kind is resolved from evidence of that kind.
Numbered(S) ==
  LET order == FoldSet(LAMBDA e, s : Append(s, e), <<>>, S) IN {[order[i] EXCEPT !.id = i] : i \in DOMAIN order}
MCFrames ==
  {[id |-> 0, known |-> k, cutoff |-> k, status |-> s, price |-> p] :
     k \in 2..7, s \in {"QUALIFIED", "DEGRADED"}, p \in {9998, 10001}}
Venue(bid, ask, depth) == [measured |-> TRUE, bid |-> bid, ask |-> ask, depth |-> depth]
MCBook == [v \in {"v1", "v2"} |-> Venue(9990, 10010, 5)]
MCBooks ==
  {[id |-> 0, known |-> k, cutoff |-> k, status |-> "QUALIFIED", book |-> [v1 |-> x, v2 |-> y]] : k \in 4..6,
     x \in {Venue(9990, 10010, 5), Venue(9980, 10020, 3), [measured |-> FALSE, bid |-> 0, ask |-> 0, depth |-> 0]},
     y \in {Venue(9985, 10005, 4), Venue(10015, 10025, 4)}}
MCContexts ==
  {[id |-> 0, known |-> c - d, cutoff |-> c, status |-> "QUALIFIED", sameUniverse |-> TRUE,
    sameContract |-> x[1], direction |-> x[2]] :
     c \in 2..6, d \in {0, 1}, x \in {<<TRUE, "RISK_ON">>, <<TRUE, "RISK_OFF">>, <<FALSE, "RISK_ON">>}}
MCStates ==
  {[id |-> 0, known |-> k, cutoff |-> 4, status |-> x[1], sameRelationship |-> x[2], basis |-> x[3]] :
     k \in 4..6, x \in {<<"QUALIFIED", TRUE, -3>>, <<"QUALIFIED", TRUE, 1>>, <<"QUALIFIED", TRUE, Missing>>,
                       <<"QUALIFIED", FALSE, -3>>, <<"DEGRADED", TRUE, -3>>}}
MCCandidates ==
  [q \in Kinds |-> Numbered(
     CASE q \in {"VOLATILITY_60S", "FRAGILITY_MAE_60S"} -> {f \in MCFrames : f.status = "QUALIFIED"}
       [] q = "LIQUIDITY_DETERIORATION_30S" -> MCBooks
       [] q \in {"DIRECTION_REGIME_15M", "REGIME_PERSISTENCE_5M"} -> MCContexts
       [] q = "BASIS_CHANGE_5M" -> MCStates
       [] OTHER -> MCFrames)]

\* Or assemblies of five families arrive and are synthesized as they age.
MCHorizonOf == [f \in Families |-> IF f \in {"DIRECTION", "MAGNITUDE"} THEN 1 ELSE 2]
Arrival(f, answer, groups) == [family |-> f, ref |-> 1, answer |-> answer, groups |-> groups]
MCArrivals ==
  {Arrival("DIRECTION", 30, {"g1"}), Arrival("DIRECTION", 60, {"g1"}), Arrival("MAGNITUDE", 9, {"g2"}),
   Arrival("MAGNITUDE", 9, {"g1"}), Arrival("LIQUIDITY", 1, {"g1", "g2"}), Arrival("REGIME", 1, {}),
   Arrival("PERSISTENCE", 0, {"g2"})}

MCInit ==
  /\ LoopInit /\ GateInit /\ ResolversInit /\ SynthesisInit
  /\ turn = <<Absent, 0>> /\ side \in {"alone", "together", "gate", "resolve", "synthesis"}
  /\ side # "gate" => dossier = MCDossier
  /\ side # "resolve" => question = CHOOSE k \in Kinds : TRUE
MCNext ==
  /\ CASE side \in {"alone", "together"} -> MCLoopNext
       [] side = "gate" -> GateNext /\ UNCHANGED turn
       [] OTHER -> UNCHANGED <<runtimeVars, turn>>
  /\ side \notin {"alone", "together"} => UNCHANGED <<journals, market, behind, run, counters>>
  /\ side # "gate" => UNCHANGED <<dossier, client, calls, gateDeaths, gateOverlapped>>
  /\ IF side = "resolve" THEN ResolversNext ELSE UNCHANGED resolverVars
  /\ IF side = "synthesis" THEN SynthesisNext ELSE UNCHANGED synthesisVars
  /\ UNCHANGED side
MCSpec == MCInit /\ [][MCNext]_<<loopVars, gateVars, resolverVars, synthesisVars, side, turn>>
=============================================================================
