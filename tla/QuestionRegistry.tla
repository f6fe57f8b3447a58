-------------------------- MODULE QuestionRegistry --------------------------
(***************************************************************************)
(* The registry of market questions and how it evolves.  A snapshot is a   *)
(* value: each builder makes a new one of a base and refuses by raising.   *)
(* Its entries map a question, with its version, to what is claimed of it: *)
(*   definition   "canonical", or "changed" from the one of the catalogue  *)
(*   state        DEFINED, RESOLVER_READY, QUALIFIED or RETIRED            *)
(*   registered, effective   since when                                    *)
(*   resolver     the implementation that may decide it, or Nothing        *)
(*   evidence     whether evidence of its qualification is claimed         *)
(* The certificate freezes one snapshot, by its content.                   *)
(***************************************************************************)
EXTENDS Integers, FiniteSets
CONSTANTS
  Nothing,
  Originals,        \* the questions of the catalogue that got a resolver
  Others,           \* resolvers that are not the canonical ones
  Instants          \* times

VARIABLES
  questions,        \* the latest snapshot
  everReady,        \* the questions that were RESOLVER_READY in some snapshot so far
  certificate       \* the snapshot last certified, or Nothing
registryVars == <<questions, everReady, certificate>>

Reversal == <<"reversal", 0>>
SignReversal == <<"reversal", 1>>
MaterialReversal == <<"reversal", 2>>
Reversals == {Reversal, SignReversal, MaterialReversal}
Catalog == Originals \cup {Reversal}
Canonical == Originals \cup Reversals

\* The implementation that has an executable contract for a question.
Resolver(q) == <<"resolver of", q>>

Entry(state, registered, effective, resolver) ==
  [definition |-> "canonical", state |-> state, registered |-> registered,
   effective |-> effective, resolver |-> resolver, evidence |-> FALSE]

\* What an entry may claim in its state, and a snapshot of its entries; a
\* constructor that gets anything else raises.
LawfulEntry(e) ==
  /\ e.effective >= e.registered
  /\ e.state = "DEFINED" => e.resolver = Nothing /\ ~e.evidence
  /\ e.state = "RESOLVER_READY" => e.resolver # Nothing /\ ~e.evidence
  /\ e.state = "QUALIFIED" => e.resolver # Nothing /\ e.evidence
LawfulSnapshot(s) ==
  /\ s.effective >= s.known
  /\ s.entries # <<>>
  /\ \A q \in DOMAIN s.entries :
       /\ LawfulEntry(s.entries[q])
       /\ s.entries[q].registered <= s.known /\ s.entries[q].effective <= s.effective

Snapshot(version, known, effective, entries) ==
  [version |-> version, known |-> known, effective |-> effective, entries |-> entries]

\* The catalogue, every question DEFINED; and registries made by hand, one
\* with a definition changed under its name, one with a question qualified.
CatalogRegistry(known, effective) ==
  Snapshot("any", known, effective, [q \in Catalog |-> Entry("DEFINED", known, effective, Nothing)])
ByHand(s) ==
  UNION {{[s EXCEPT !.entries[q].definition = "changed"],
          [s EXCEPT !.entries[q] = [@ EXCEPT !.state = "QUALIFIED", !.resolver = Resolver(q), !.evidence = TRUE]]} :
         q \in DOMAIN s.entries}
Ready(s) == {q \in DOMAIN s.entries : s.entries[q].state = "RESOLVER_READY"}

RegistryInit ==
  /\ \E known, effective \in Instants :
       \E s \in {CatalogRegistry(known, effective)} \cup ByHand(CatalogRegistry(known, effective)) :
         LawfulSnapshot(s) /\ questions = s
  /\ everReady = {} /\ certificate = Nothing

-----------------------------------------------------------------------------
(* The builders: "Builds" is the snapshot made, or nothing if it raises.    *)

InOrder(base, known, effective) == known >= base.known /\ effective >= known
Built(allowed, s) == IF allowed /\ LawfulSnapshot(s) THEN {s} ELSE {}

\* The base's entries with others on top of them.
Over(base, entries) ==
  [q \in DOMAIN base.entries \cup DOMAIN entries |-> IF q \in DOMAIN entries THEN entries[q] ELSE base.entries[q]]

\* Variant: whatever is in the registry becomes ready.
PromoteAny(base, version, known, effective, mapping) ==
  Built(InOrder(base, known, effective) /\ DOMAIN mapping \subseteq DOMAIN base.entries,
        Snapshot(version, known, effective, Over(base,
          [q \in DOMAIN mapping |-> Entry("RESOLVER_READY", base.entries[q].registered, effective, mapping[q])])))

\* build_resolver_ready_registry: the questions a mapping names become ready;
\* one that is RETIRED or QUALIFIED, or ready with another resolver, refuses.
Promote(base, version, known, effective, mapping) ==
  Built(/\ InOrder(base, known, effective)
        /\ DOMAIN mapping \subseteq DOMAIN base.entries
        /\ \A q \in DOMAIN mapping :
             \/ base.entries[q].state = "DEFINED"
             \/ base.entries[q].state = "RESOLVER_READY" /\ base.entries[q].resolver = mapping[q],
        Snapshot(version, known, effective, Over(base,
          [q \in DOMAIN mapping |->
             [base.entries[q] EXCEPT !.state = "RESOLVER_READY", !.effective = effective, !.resolver = mapping[q]]])))

\* build_reversal_v1_1_registry: version 1.0 stays DEFINED, 1.1 joins it, ready.
AddSignReversal(base, version, known, effective) ==
  Built(/\ InOrder(base, known, effective)
        /\ Reversal \in DOMAIN base.entries /\ base.entries[Reversal].state = "DEFINED"
        /\ SignReversal \notin DOMAIN base.entries,
        Snapshot(version, known, effective, Over(base,
          [q \in {SignReversal} |-> Entry("RESOLVER_READY", known, effective, Resolver(q))])))

\* build_reversal_v1_2_registry: 1.1 retires with its resolver, 1.2 joins, ready.
SupersedeSignReversal(base, version, known, effective) ==
  Built(/\ InOrder(base, known, effective)
        /\ SignReversal \in DOMAIN base.entries
        /\ base.entries[SignReversal].state = "RESOLVER_READY"
        /\ base.entries[SignReversal].resolver = Resolver(SignReversal)
        /\ MaterialReversal \notin DOMAIN base.entries,
        Snapshot(version, known, effective, Over(base,
          [q \in {SignReversal, MaterialReversal} |->
             IF q = MaterialReversal THEN Entry("RESOLVER_READY", known, effective, Resolver(q))
             ELSE [base.entries[q] EXCEPT !.state = "RETIRED", !.effective = effective]])))

\* The nine originals' resolvers, and the three stages in one call; every
\* original, and the reversal, must be there.
ResolversV1 == [q \in Originals |-> Resolver(q)]
BuildQualified(base, known, effective) ==
  UNION {UNION {SupersedeSignReversal(signed, "qualified", known, effective) :
                signed \in AddSignReversal(ready, "stage", known, effective)} :
         ready \in IF Catalog \subseteq DOMAIN base.entries
                   THEN Promote(base, "stage", known, effective, ResolversV1) ELSE {}}

-----------------------------------------------------------------------------
(* The certificate.                                                         *)

\* The examination surface: what is active, and who decides it.
Surface == [q \in Originals \cup {MaterialReversal} |-> Resolver(q)]

\* Variant: what should be ready is; what else is ready is not looked at.
SemanticGuardsPresent(s) ==
  /\ s.version = "qualified" /\ DOMAIN s.entries = Canonical
  /\ \A q \in Canonical : s.entries[q].definition = "canonical"
  /\ \A q \in DOMAIN Surface : q \in Ready(s) /\ s.entries[q].resolver = Surface[q]
  /\ s.entries[SignReversal].state = "RETIRED" /\ ~s.entries[SignReversal].evidence

\* _assert_semantic_guards.
SemanticGuards(s) ==
  /\ s.version = "qualified"
  /\ DOMAIN s.entries = Canonical
  /\ \A q \in Canonical : s.entries[q].definition = "canonical"
  /\ Ready(s) = DOMAIN Surface /\ \A q \in DOMAIN Surface : s.entries[q].resolver = Surface[q]
  /\ s.entries[Reversal].state = "DEFINED"
  /\ s.entries[SignReversal].state = "RETIRED" /\ ~s.entries[SignReversal].evidence
  /\ s.entries[SignReversal].resolver = Resolver(SignReversal)

\* certify and verify: the certificate of the latest snapshot; it is good for
\* the one it was made of.
Certify == SemanticGuards(questions) /\ certificate' = questions /\ UNCHANGED <<questions, everReady>>
Verifies(s) == certificate = s /\ SemanticGuards(s)

-----------------------------------------------------------------------------
(* Any builder on the latest snapshot, by whoever holds it, and a           *)
(* certificate for it.                                                      *)

\* A caller's mapping: to the questions' own resolvers or to others.
Mappings ==
  UNION {{[q \in Q |-> IF q \in own THEN Resolver(q) ELSE other] : own \in SUBSET Q, other \in Others} :
         Q \in SUBSET DOMAIN questions.entries}
Versions == {"any", "qualified"}

Evolve(snapshots) ==
  /\ \E s \in snapshots : questions' = s /\ everReady' = everReady \cup Ready(s)
  /\ UNCHANGED certificate
RegistryNext ==
  \/ \E known, effective \in Instants, version \in Versions :
       \/ \E mapping \in Mappings : Evolve(Promote(questions, version, known, effective, mapping))
       \/ Evolve(AddSignReversal(questions, version, known, effective))
       \/ Evolve(SupersedeSignReversal(questions, version, known, effective))
  \/ \E known, effective \in Instants : Evolve(BuildQualified(questions, known, effective))
  \/ Certify
RegistrySpec == RegistryInit /\ [][RegistryNext]_registryVars

-----------------------------------------------------------------------------
(* Properties.                                                              *)

\* No sequence of builders rewrites history: a question, once in the
\* registry, keeps its definition and since when it is registered, only moves
\* on from DEFINED to ready to RETIRED, and keeps the resolver it earned; so
\* nothing that was retired is examined again, and no resolver is swapped
\* under the questions already asked.
Onward == {<<s, s>> : s \in {"DEFINED", "RESOLVER_READY", "QUALIFIED", "RETIRED"}} \cup
          {<<"DEFINED", "RESOLVER_READY">>, <<"RESOLVER_READY", "RETIRED">>}
HistoryIsKept ==
  [][\A q \in DOMAIN questions.entries :
       /\ q \in DOMAIN questions'.entries
       /\ LET e == questions.entries[q] f == questions'.entries[q] IN
          /\ f.definition = e.definition /\ f.registered = e.registered
          /\ <<e.state, f.state>> \in Onward
          /\ e.resolver = Nothing \/ f.resolver = e.resolver]_registryVars

\* The generic builder may make version 1.0 of the reversal ready beside a
\* later one, or give a question a resolver not its own.  However the
\* registry came about, none of that is certified: in a certified registry one
\* reversal is active, 1.0 never was in any snapshot on the way, every
\* definition is the catalogue's and every resolver is its question's own.
CertifiedWasNeverBent ==
  certificate # Nothing =>
    /\ Ready(certificate) \cap Reversals = {MaterialReversal}
    /\ Reversal \notin everReady \/ questions # certificate
    /\ \A q \in DOMAIN certificate.entries :
         /\ certificate.entries[q].definition = "canonical"
         /\ certificate.entries[q].resolver \in {Resolver(q), Nothing}
         /\ ~certificate.entries[q].evidence
    /\ Verifies(questions) = (questions = certificate)
=============================================================================
