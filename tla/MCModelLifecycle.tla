-------------------------- MODULE MCModelLifecycle --------------------------
(***************************************************************************)
(* Instances of the three governed registries.  Side "lifecycle":           *)
(* ModelLifecycle with one model, and qualification receipts for the two    *)
(* targets a lifecycle can reach more than once and for the one it ends in; *)
(* everything else is asked of the registry directly.  Side "profiles":     *)
(* ContextProfiles with the profiles of two models, one of which is already *)
(* active.  Side "questions": QuestionRegistry, with one original question   *)
(* besides the reversal.  None of the registries reads another's files.     *)
(***************************************************************************)
EXTENDS ModelLifecycle, ContextProfiles, QuestionRegistry, TLC

CONSTANTS m1,
          Sides    \* those of this run

VARIABLE side

MCModels == {m1}
MCReceipts == [model : MCModels, target : {"SHADOW", "QUALIFIED"}]

\* A's first profile finds the volatile risk-on market adverse, its second
\* prefers a part of it, and its third contends for the second's version.
Profile(id, model, version, features, preferred, adverse, group) ==
    [id |-> id, model |-> model, version |-> version, features |-> features,
     preferred |-> preferred, adverse |-> adverse, group |-> group]
Volatile == <<"volatility", "HIGH">>
RiskOn == <<"direction", "RISK_ON">>
ActiveB == Profile(4, "B", 1, {}, {Volatile, RiskOn}, {}, "BOOK")
MCProfiles ==
    {Profile(1, "A", 1, {"LIQUIDITY"}, {}, {Volatile, RiskOn}, "BOOK"),
     Profile(2, "A", 2, {}, {RiskOn}, {}, "FLOW"), Profile(3, "A", 2, {}, {}, {}, "FLOW"), ActiveB}
MCContextFrames ==
    {[features |-> [LIQUIDITY |-> "UNAVAILABLE"], regimes |-> {Volatile, RiskOn}, reliability |-> 0, freshness |-> 1000]}
MCBaseWeight == [A |-> 1, B |-> 2]

MCProfilesInit ==
    /\ profileEvents = <<ProfileEvent("PROFILE_REGISTERED", ActiveB, 1, Nobody),
                         ProfileEvent("PROFILE_ACTIVATED", ActiveB, 1, Nobody)>>
    /\ artifacts = {[profile |-> ActiveB, at |-> 1]} /\ shownEvents = 2 /\ tornEvent = FALSE
    /\ profileLease = Nobody /\ caller = [c \in Callers |-> Resting]
    /\ finals = {} /\ contextual = {} /\ callerDeaths = 0

MCOriginals == {<<"direction", 0>>}
MCRegistryInit ==
    IF side = "questions" THEN RegistryInit
    ELSE questions = CatalogRegistry(0, 0) /\ everReady = {} /\ certificate = Nothing

MCInit == side \in Sides /\ Init /\ MCProfilesInit /\ MCRegistryInit
MCNext ==
    \/ side = "lifecycle" /\ Next /\ UNCHANGED <<profileVars, registryVars, side>>
    \/ side = "profiles" /\ ProfilesNext /\ UNCHANGED <<vars, registryVars, side>>
    \/ side = "questions" /\ RegistryNext /\ UNCHANGED <<vars, profileVars, side>>
MCSpec == MCInit /\ [][MCNext]_<<vars, profileVars, registryVars, side>>
MCSymmetry == Permutations(Callers)
=============================================================================
