-------------------------- MODULE ContextProfiles --------------------------
(***************************************************************************)
(* The registry of model context profiles (assembly/context_profiles.py)   *)
(* and the contextual assembly that rests on it (assembly/contextual*.py). *)
(* A profile says which facts of a market context concern a model; its     *)
(* registration and its activation are events of an append-only chain, at  *)
(* instants the caller names.  A contextual assembly at an instant uses    *)
(* the profiles that were active strictly before it, journals its final    *)
(* prediction, and records a receipt once its lineage holds.               *)
(*                                                                         *)
(* register and activate run under the writer lease (ExclusiveLease), and  *)
(* a process may die between their writes; the reads of an assembly do not *)
(* take it.  The evidence a call names is left out: a repetition is one    *)
(* with the same evidence.  The models, the base assembly (EvidenceJournals)*)
(* and the context exist and are valid.                                    *)
(*                                                                         *)
(* A profile is a record with id, model, version, features, preferred and  *)
(* adverse (sets of <<key, value>>) and group.  Factors are in thousandths.*)
(***************************************************************************)
EXTENDS Integers, Sequences, FiniteSets, FiniteSetsExt

CONSTANTS Callers,           \* processes
          ContextProfiles,   \* profiles that may be registered
          ContextFrames,     \* contexts: features, regimes, reliability, freshness
          BaseWeight,        \* of each model, its weight in the base assembly
          ProfileTimes,      \* instants of registrations and activations
          AssemblyTimes,     \* instants of assemblies, all positive
          Nobody,
          MaxProfileEvents, MaxContextual, MaxCallerDeaths  \* bounds

ASSUME InstantsAreNumbers == ProfileTimes \subseteq Int /\ AssemblyTimes \subseteq Int
ASSUME NobodyIsNothing ==
    /\ Nobody \notin Callers /\ Nobody \notin ContextProfiles
    /\ Nobody \notin [type : {"PROFILE_REGISTERED", "PROFILE_ACTIVATED"}, profile : ContextProfiles,
                      at : ProfileTimes, previous : ContextProfiles \cup {Nobody}]
ASSUME WeightsAssumption == \A m \in DOMAIN BaseWeight : BaseWeight[m] \in Nat
\* A feature a context does not mention counts as unavailable (_feature_factor).
ASSUME FramesAssumption ==
    \A frame \in ContextFrames :
        /\ frame.reliability \in Nat /\ frame.freshness \in Nat /\ IsFiniteSet(frame.regimes)
        /\ \A p \in ContextProfiles : \A f \in p.features :
             frame.features[f] \in {"QUALIFIED", "DEGRADED", "UNAVAILABLE"}

VARIABLES profileEvents,  \* memory/model_context_profile_events.jsonl
          tornEvent,      \* whether its last line is the beginning of an event
          shownEvents,    \* how many events state/model_context_profiles.json projects
          artifacts,      \* artifacts/model_context_profiles/: profile and registered_at_ns
          profileLease,   \* the holder of the writer lease, or Nobody
          caller,         \* what each process is doing
          finals,         \* journaled final predictions
          contextual,     \* memory/contextual_assemblies.jsonl, as a set
          callerDeaths

profileFiles == <<profileEvents, tornEvent, shownEvents, artifacts>>
profileVars == <<profileFiles, profileLease, caller, finals, contextual, callerDeaths>>

ContextModels == DOMAIN BaseWeight

ProfileEvent(type, p, at, previous) == [type |-> type, profile |-> p, at |-> at, previous |-> previous]
Resting == [stage |-> "idle", event |-> Nobody, final |-> Nobody, seen |-> 0]

ProfilesInit ==
    /\ profileEvents = <<>> /\ tornEvent = FALSE /\ shownEvents = 0 /\ artifacts = {}
    /\ profileLease = Nobody /\ caller = [c \in Callers |-> Resting]
    /\ finals = {} /\ contextual = {} /\ callerDeaths = 0

-----------------------------------------------------------------------------
(* What a chain of events says.                                            *)

Registrations(ev) == {i \in DOMAIN ev : ev[i].type = "PROFILE_REGISTERED"}
Activations(ev, m) == {i \in DOMAIN ev : ev[i].type = "PROFILE_ACTIVATED" /\ ev[i].profile.model = m}
LastEvent(ev, S) == IF S = {} THEN Nobody ELSE ev[Max(S)]
ProfileOf(event) == IF event = Nobody THEN Nobody ELSE event.profile

Registered(ev) == {ev[i].profile : i \in Registrations(ev)}
RegisteredAt(ev, p) == ev[CHOOSE i \in Registrations(ev) : ev[i].profile = p].at

\* The activation a model is under, and the profile it was under at t.
Current(ev, m) == LastEvent(ev, Activations(ev, m))
ActiveAt(ev, m, t) == ProfileOf(LastEvent(ev, {i \in Activations(ev, m) : ev[i].at <= t}))

SameVersion(p, q) == p.model = q.model /\ p.version = q.version

\* _validate_event_chain: time does not move backwards for a model, versions
\* are registered once, and an activation names its predecessor.
ChainAccepted(ev) ==
    \A i \in DOMAIN ev : LET past == SubSeq(ev, 1, i - 1)  e == ev[i] IN
        /\ \A j \in DOMAIN past : past[j].profile.model = e.profile.model => past[j].at <= e.at
        /\ IF e.type = "PROFILE_REGISTERED"
           THEN \A p \in Registered(past) : ~SameVersion(p, e.profile)
           ELSE /\ e.profile \in Registered(past)
                /\ e.previous = ProfileOf(Current(past, e.profile.model))

\* The artifact of a profile: its identity holds the instant it was registered at.
ArtifactOf(p, at) == [profile |-> p, at |-> at]

EventsReadable == ~tornEvent /\ ChainAccepted(profileEvents)

\* validate_context_profile_registry: the projection is current, and the
\* artifacts are those of the registrations.
ProfilesAccepted ==
    /\ EventsReadable
    /\ shownEvents = Len(profileEvents)
    /\ artifacts = {ArtifactOf(p, RegisteredAt(profileEvents, p)) : p \in Registered(profileEvents)}

-----------------------------------------------------------------------------
(* The registry.  The first step of a call is all up to its append.        *)

TakeLease(c) == profileLease = Nobody /\ profileLease' = c /\ EventsReadable
Becomes(c, stage, event) == caller' = [caller EXCEPT ![c] = [Resting EXCEPT !.stage = stage, !.event = event]]

\* register: a version that is registered is only projected again, if it is
\* this profile; an artifact left by a dead writer is taken over, if it was
\* written for the same instant.
RegisterProfile(c, p, at) ==
    /\ caller[c] = Resting /\ TakeLease(c)
    /\ \/ /\ p \in Registered(profileEvents)
          /\ Becomes(c, "project", Nobody)
          /\ UNCHANGED artifacts
       \/ /\ \A q \in Registered(profileEvents) : ~SameVersion(p, q)
          /\ \A a \in artifacts : a.profile = p => a.at = at
          /\ Len(profileEvents) < MaxProfileEvents
          /\ artifacts' = artifacts \cup {ArtifactOf(p, at)}
          /\ Becomes(c, "append", ProfileEvent("PROFILE_REGISTERED", p, at, Nobody))
    /\ UNCHANGED <<profileEvents, tornEvent, shownEvents, finals, contextual, callerDeaths>>

\* Variant: an activation may be dated before the one it replaces.
ActivateAtAnyTime(c, p, at) ==
    /\ caller[c] = Resting /\ TakeLease(c)
    /\ p \in Registered(profileEvents) /\ RegisteredAt(profileEvents, p) <= at
    /\ Len(profileEvents) < MaxProfileEvents
    /\ Becomes(c, "append", ProfileEvent("PROFILE_ACTIVATED", p, at, ProfileOf(Current(profileEvents, p.model))))
    /\ UNCHANGED <<profileFiles, finals, contextual, callerDeaths>>

\* activate: not before the profile's registration, nor before the activation
\* it replaces; the one in force is only projected again.
ActivateProfile(c, p, at) ==
    LET current == Current(profileEvents, p.model) IN
    /\ caller[c] = Resting /\ TakeLease(c)
    /\ p \in Registered(profileEvents) /\ RegisteredAt(profileEvents, p) <= at
    /\ current # Nobody => current.at <= at
    /\ IF ProfileOf(current) = p THEN Becomes(c, "project", Nobody)
       ELSE /\ Len(profileEvents) < MaxProfileEvents
            /\ Becomes(c, "append", ProfileEvent("PROFILE_ACTIVATED", p, at, ProfileOf(current)))
    /\ UNCHANGED <<profileFiles, finals, contextual, callerDeaths>>

RebuildProfiles(c) ==
    /\ caller[c] = Resting /\ TakeLease(c)
    /\ Becomes(c, "project", Nobody)
    /\ UNCHANGED <<profileFiles, finals, contextual, callerDeaths>>

AppendProfileEvent(c) ==
    /\ caller[c].stage = "append"
    /\ profileEvents' = Append(profileEvents, caller[c].event)
    /\ Becomes(c, "project", Nobody)
    /\ UNCHANGED <<tornEvent, shownEvents, artifacts, profileLease, finals, contextual, callerDeaths>>

ProjectProfiles(c) ==
    /\ caller[c].stage = "project"
    /\ shownEvents' = Len(profileEvents)
    /\ profileLease' = Nobody
    /\ caller' = [caller EXCEPT ![c] = Resting]
    /\ UNCHANGED <<profileEvents, tornEvent, artifacts, finals, contextual, callerDeaths>>

-----------------------------------------------------------------------------
(* How a context weighs on the models of an assembly.                      *)

ApplyFactor(x, factor) == (x * factor) \div 1000
Clamp(x, low, high) == Min({high, Max({low, x})})

FeatureFactor(p, frame) ==
    Min({1000} \cup {CASE frame.features[f] = "QUALIFIED" -> 1000
                       [] frame.features[f] = "DEGRADED" -> 900
                       [] frame.features[f] = "UNAVAILABLE" -> 750 : f \in p.features})

\* Nine tenths for each adverse regime, and a twentieth more for each preferred
\* one that is not adverse too.
RegimeFactor(p, frame) ==
    LET bad == frame.regimes \cap p.adverse  good == (frame.regimes \cap p.preferred) \ p.adverse
        worse == FoldSet(LAMBDA r, x : ApplyFactor(x, 900), 1000, bad)
    IN Clamp(FoldSet(LAMBDA r, x : ApplyFactor(x, 1050), worse, good), 850, 1150)

RawMultiplier(p, frame, profiles) ==
    LET alone == \A q \in profiles \ {p} : q.group # p.group
        factors == <<RegimeFactor(p, frame), 900 + frame.reliability \div 10,
                     950 + frame.freshness \div 20, IF alone THEN 1000 ELSE 950>>
        product[i \in 0..4] ==
            IF i = 0 THEN FeatureFactor(p, frame) ELSE ApplyFactor(product[i - 1], factors[i])
    IN product[4]

Multiplier(p, frame, profiles) == Clamp(RawMultiplier(p, frame, profiles), 750, 1250)

-----------------------------------------------------------------------------
(* contextual_assemble_and_record.                                         *)

\* Variant: a profile activated at the instant of the assembly counts.
NoLaterThan(at) == at

\* The instant profiles have to be active at.
PolicyCutoff(at) == at - 1

Resolved(at) == [m \in ContextModels |-> ActiveAt(profileEvents, m, PolicyCutoff(at))]

\* Resolve one active profile for each model and journal the final prediction.
Contextualize(c, at, frame) ==
    LET profiles == Resolved(at)
        weights == [m \in ContextModels |->
                        BaseWeight[m] * Multiplier(profiles[m], frame, {profiles[n] : n \in ContextModels})]
        final == [at |-> at, profiles |-> profiles, weights |-> weights]
    IN /\ caller[c] = Resting /\ EventsReadable
       /\ \A m \in ContextModels : profiles[m] # Nobody
       /\ Cardinality(finals \cup {final}) <= MaxContextual
       /\ finals' = finals \cup {final}
       /\ caller' = [caller EXCEPT ![c] = [Resting EXCEPT !.stage = "lineage", !.final = final]]
       /\ UNCHANGED <<profileFiles, profileLease, contextual, callerDeaths>>

\* validate_contextual_receipt_lineage.
LineageHolds(final) == ProfilesAccepted /\ Resolved(final.at) = final.profiles

\* The lineage is read without the lease.  If it does not hold, the prediction
\* stays without a receipt.  "seen" is history: how many events there were.
CheckLineage(c) ==
    /\ caller[c].stage = "lineage"
    /\ IF LineageHolds(caller[c].final)
       THEN caller' = [caller EXCEPT ![c].stage = "receipt", ![c].seen = Len(profileEvents)]
       ELSE caller' = [caller EXCEPT ![c] = Resting]
    /\ UNCHANGED <<profileFiles, profileLease, finals, contextual, callerDeaths>>

\* ContextualAssemblyJournal.append: a prediction has one receipt.
RecordReceipt(c) ==
    /\ caller[c].stage = "receipt" /\ profileLease = Nobody
    /\ IF \E receipt \in contextual : receipt.final = caller[c].final THEN UNCHANGED contextual
       ELSE contextual' = contextual \cup {[final |-> caller[c].final, seen |-> caller[c].seen]}
    /\ caller' = [caller EXCEPT ![c] = Resting]
    /\ UNCHANGED <<profileFiles, profileLease, finals, callerDeaths>>

-----------------------------------------------------------------------------
\* A process dies; an append may leave the beginning of a line.
CallerDies(c) ==
    /\ caller[c] # Resting /\ callerDeaths < MaxCallerDeaths
    /\ callerDeaths' = callerDeaths + 1
    /\ tornEvent' \in {tornEvent, tornEvent \/ caller[c].stage = "append"}
    /\ profileLease' = IF profileLease = c THEN Nobody ELSE profileLease
    /\ caller' = [caller EXCEPT ![c] = Resting]
    /\ UNCHANGED <<profileEvents, shownEvents, artifacts, finals, contextual>>

ProfilesNext ==
    \E c \in Callers :
        \/ \E p \in ContextProfiles, at \in ProfileTimes : RegisterProfile(c, p, at) \/ ActivateProfile(c, p, at)
        \/ RebuildProfiles(c) \/ AppendProfileEvent(c) \/ ProjectProfiles(c)
        \/ \E at \in AssemblyTimes, frame \in ContextFrames : Contextualize(c, at, frame)
        \/ CheckLineage(c) \/ RecordReceipt(c) \/ CallerDies(c)
ProfilesSpec == ProfilesInit /\ [][ProfilesNext]_profileVars

-----------------------------------------------------------------------------
(* Properties.                                                             *)

\* Two events of one model, one of them a registration, in the wrong order.
RegistrationOutOfOrder ==
    \E i, j \in DOMAIN profileEvents :
        /\ i < j /\ profileEvents[i].profile.model = profileEvents[j].profile.model
        /\ profileEvents[j].at < profileEvents[i].at
        /\ "PROFILE_REGISTERED" \in {profileEvents[i].type, profileEvents[j].type}

\* While no process dies, the registry that calls leave behind is one that
\* the next call and the kernel's validation accept, unless a registration
\* came between other events of its model out of order.
CallsLeaveItValid ==
    callerDeaths = 0 /\ profileLease = Nobody /\ ~RegistrationOutOfOrder => ProfilesAccepted

\* An activation of m recorded after the receipt and dated before its assembly.
Backdated(m, receipt) ==
    \E i \in Activations(profileEvents, m) : i > receipt.seen /\ profileEvents[i].at < receipt.final.at

\* The profiles a receipt names remain those that its assembly instant
\* resolves to: nothing that is recorded later, at that instant or after it,
\* reinterprets it.
ReceiptsStayExplained ==
    \A receipt \in contextual, m \in ContextModels :
        Resolved(receipt.final.at)[m] = receipt.final.profiles[m] \/ Backdated(m, receipt)

\* A context moves the odds of two models by no more than the bounds of the
\* multiplier allow, whatever it says of each of them.
OverlayIsBounded ==
    \A final \in finals, m, n \in ContextModels :
        final.weights[m] * BaseWeight[n] * 750 <= final.weights[n] * BaseWeight[m] * 1250

\* A receipt goes on saying which profiles moved the odds, and they moved them
\* within bounds.
OverlaysHold == ReceiptsStayExplained /\ OverlayIsBounded

\* What _validate_event_chain requires of the events the registry itself
\* appended, before every call.
EventsStayInOrder == ChainAccepted(profileEvents)

=============================================================================
