-------------------------- MODULE MCMarketEvidence --------------------------
EXTENDS MarketEvidence, EvidenceStores, RootPaths, MarketContexts

U(side, price, quantity) == [side |-> side, price |-> price, quantity |-> quantity]
Level2(seq, at, type, updates) ==
  [seq |-> seq, channel |-> "l2_data", at |-> at,
   events |-> <<[type |-> type, updates |-> updates]>>]

\* A snapshot, updates that move and remove levels, one that crosses the book,
\* a second snapshot and a trade; they may come in any order, with any left out.
MCMessages ==
  {Level2(1, 0, "snapshot", <<U("bid", 3, 2), U("bid", 2, 4), U("offer", 5, 1)>>),
   Level2(2, 1, "update", <<U("bid", 3, 0), U("offer", 6, 3)>>),
   Level2(3, 1, "update", <<U("offer", 5, 2), U("bid", 4, 1)>>),
   Level2(4, 2, "update", <<U("bid", 7, 1)>>),
   Level2(5, 2, "snapshot", <<U("bid", 4, 2), U("offer", 6, 1)>>),
   [seq |-> 4, channel |-> "market_trades", at |-> 2, events |-> <<>>]}
MCSymmetry == Permutations(Joiners)
MCAuditLimits == [event |-> 1, transport |-> 1]
MCPolicies == {MCAuditLimits, [event |-> 2, transport |-> 2]}

\* Frames of the one instrument a root path is of, around the targets 0, 2, 4
\* and 6: on the target, after it, stale, without a price, two in one slot.
Path(id, cutoff, known, priced) == [id |-> id, cutoff |-> cutoff, known |-> known, priced |-> priced]
MCCandidates ==
  {Path(1, 0, 0, TRUE), Path(2, 1, 1, FALSE), Path(3, 2, 1, TRUE), Path(4, 3, 2, TRUE),
   Path(5, 4, 4, TRUE), Path(6, 4, 2, TRUE), Path(7, 6, 5, TRUE)}

\* Frames of two spots and a derivative of the first one.
Report(id, instrument, cutoff, known, status, level) ==
  [id |-> id, instrument |-> instrument, cutoff |-> cutoff, known |-> known, status |-> status,
   priced |-> level >= 0, level |-> level]
MCReports ==
  {Report(1, "btc", 0, 0, "QUALIFIED", 2), Report(2, "btc", 2, 1, "QUALIFIED", 4),
   Report(3, "btc", 3, 3, "DEGRADED", -1), Report(4, "btc", 4, 4, "QUALIFIED", 3),
   Report(5, "btc", 5, 5, "QUALIFIED", 3), Report(6, "eth", 0, 0, "QUALIFIED", 2),
   Report(7, "eth", 3, 2, "QUALIFIED", 1), Report(8, "eth", 4, 4, "UNAVAILABLE", -1),
   Report(9, "perp", 0, 0, "QUALIFIED", 2), Report(10, "perp", 1, 1, "QUALIFIED", 3),
   Report(11, "perp", 2, 2, "QUALIFIED", 2), Report(12, "perp", 4, 4, "QUALIFIED", 4)}
MCQuote == [i \in {"btc", "eth", "perp"} |-> IF i = "eth" THEN "EUR" ELSE "USD"]

(* Any stream of the messages, and nobody joins it; or a stream that comes in *)
(* order while two joiners hand it over; or the stores derived from streams;  *)
(* or every set of frames a root path may be built of; or the root paths'     *)
(* journal, over a few of them; or every set of frames a context may be of.   *)
VARIABLE side
allVars == <<evidenceVars, storeVars, pathVars, observed, side>>
MCInit ==
  /\ EvidenceInit /\ StoresInit /\ PathsInit /\ ContextsInit
  /\ side \in {"stream", "join", "stores", "frames", "paths", "contexts"}
MCNext ==
  \/ /\ side = "stream" /\ EvidenceNext
     /\ joiner' = joiner /\ now' <= 1 /\ UNCHANGED <<storeVars, pathVars, observed, side>>
  \/ /\ side = "join" /\ EvidenceNext
     /\ deaths' <= 1 /\ Len(lines') <= 2 /\ \A i \in DOMAIN lines' : lines'[i].message.seq = i
     /\ UNCHANGED <<storeVars, pathVars, observed, side>>
  \/ side = "stores" /\ StoresNext /\ UNCHANGED <<evidenceVars, pathVars, observed, side>>
  \/ side = "frames" /\ FrameArrives /\ UNCHANGED <<evidenceVars, storeVars, observed, side>>
  \/ /\ side = "paths" /\ PathsNext /\ \A f \in frames' : f.id \in {1, 3, 5}
     /\ UNCHANGED <<evidenceVars, storeVars, observed, side>>
  \/ side = "contexts" /\ Observe /\ UNCHANGED <<evidenceVars, storeVars, pathVars, side>>
MCSpec == MCInit /\ [][MCNext]_allVars
=============================================================================
