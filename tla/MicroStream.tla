---------------------------- MODULE MicroStream ----------------------------
(***************************************************************************)
(* Public order-book streams as data: the deterministic replay of a        *)
(* stream's records (microstream.py), the features read off it             *)
(* (microstructure_features.py, market_data.py) and the quality gate       *)
(* (market_data_quality.py).  Prices, quantities and times are integers;   *)
(* a message is [seq, channel, at, events] and an event of the level2      *)
(* channel [type, updates], an update [side, price, quantity].             *)
(***************************************************************************)
EXTENDS Integers, Sequences, SequencesExt, FiniteSets, FiniteSetsExt

CONSTANT Absent

ASSUME AbsentIsNoTime == Absent \notin Int

-----------------------------------------------------------------------------
(* The quality gate *)

\* classify_market_data: an unusable timestamp is worse than a stale event, a
\* stale event worse than a slow transport; only VALID permits an action.
Classify(source, received, observed, limits, skew) ==
  LET eventAge     == observed - source
      transportAge == received - source
  IN CASE source = Absent \/ received = Absent -> "UNAVAILABLE"
       [] \/ source - received > skew \/ received > observed
          \/ eventAge < -skew -> "UNAVAILABLE"
       [] eventAge > limits.event -> "STALE"
       [] transportAge > limits.transport -> "DEGRADED"
       [] OTHER -> "VALID"

-----------------------------------------------------------------------------
(* The book *)

\* What a replay does not refuse (another side or a negative quantity raises), at
\* the prices of a market, which are not negative.
BookUpdate == [side : {"bid", "offer"}, price : Nat, quantity : Nat]
BookEvent == [type : STRING, updates : Seq(BookUpdate)]

EmptyBook == [bid |-> <<>>, offer |-> <<>>]   \* per side, quantities by price
Put(levels, price, quantity) ==
  [p \in (IF quantity = 0 THEN DOMAIN levels \ {price} ELSE DOMAIN levels \cup {price}) |->
     IF p = price THEN quantity ELSE levels[p]]
Update(book, u) == [book EXCEPT ![u.side] = Put(@, u.price, u.quantity)]

TwoSided(book) == DOMAIN book.bid # {} /\ DOMAIN book.offer # {}
Crossed(book) == TwoSided(book) /\ Max(DOMAIN book.bid) >= Min(DOMAIN book.offer)

\* One level2 event: a snapshot begins a new book, an update needs one.
ApplyEvent(state, event) ==
  LET base == IF event.type = "snapshot" THEN EmptyBook ELSE state.book
      book == FoldLeft(Update, base, event.updates)
  IN [state EXCEPT
        !.book = book,
        !.snapshots = IF event.type = "snapshot" THEN @ + 1 ELSE @,
        !.updates = IF event.type = "update" THEN @ + 1 ELSE @,
        !.error = @ \/ (event.type = "update" /\ state.book = EmptyBook) \/ Crossed(book)]

\* The logical channel of a provider's channel.
LogicalChannel(channel) == IF channel = "l2_data" THEN "level2" ELSE channel

\* Variant: a gap is one message longer.
GapOfTwo(state, seq) ==
  IF state.last # Absent /\ seq > state.last + 2 THEN {<<state.last, seq>>} ELSE {}

\* What one more message adds to the evidence about the sequence: a gap where
\* it is beyond the next number, disorder where it is below the last.
Gap(state, seq) ==
  IF state.last # Absent /\ seq > state.last + 1 THEN {<<state.last, seq>>} ELSE {}
Disorder(state, seq) ==
  IF state.last # Absent /\ seq < state.last THEN {<<state.last, seq>>} ELSE {}

Later(a, b) == IF a = Absent \/ b > a THEN b ELSE a

ReplayRecord(state, message) ==
  IF message.seq \in DOMAIN state.identities
    THEN [state EXCEPT !.duplicates = @ + 1,
                       !.error = @ \/ state.identities[message.seq] # message]
    ELSE LET read == [state EXCEPT
               !.identities = [s \in DOMAIN @ \cup {message.seq} |->
                                 IF s = message.seq THEN message ELSE @[s]],
               !.channels = @ \cup {LogicalChannel(message.channel)},
               !.gaps = @ \cup Gap(state, message.seq),
               !.disorder = @ \cup Disorder(state, message.seq),
               !.last = Later(state.last, message.seq),
               !.latest = Later(@, message.at)]
         IN IF LogicalChannel(message.channel) = "level2"
              THEN FoldLeft(ApplyEvent, read, message.events) ELSE read

Unread == [book |-> EmptyBook, identities |-> <<>>, last |-> Absent, latest |-> Absent,
           gaps |-> {}, disorder |-> {}, channels |-> {}, duplicates |-> 0,
           snapshots |-> 0, updates |-> 0, error |-> FALSE]

\* replay_records; error stands for the exception it ends in.
ReplayRecords(messages) == FoldLeft(ReplayRecord, Unread, messages)

\* sequence_integrity of the summary of a replay.
SequenceQualified(summary) ==
  /\ summary.gaps = {} /\ summary.disorder = {}
  /\ summary.snapshots >= 1 /\ DOMAIN summary.identities # {}

-----------------------------------------------------------------------------
(* Order *)

\* Ascending, equal values in their order: the rank of a value is how many come no
\* later.
Rank(values, i) ==
  Cardinality({j \in DOMAIN values : values[j] < values[i] \/ (values[j] = values[i] /\ j <= i)})
Sorted(values) ==
  [k \in 1..Len(values) |-> values[CHOOSE i \in DOMAIN values : Rank(values, i) = k]]
Ascending(set) == Sorted(SetToSeq(set))

-----------------------------------------------------------------------------
(* Features of a book: depth within a band, and the cost of taking from it *)

\* The midpoint is doubled to stay an integer.
Midpoint2(book) == Max(DOMAIN book.bid) + Min(DOMAIN book.offer)
SumOver(levels, prices) == FoldSet(LAMBDA p, sum : sum + levels[p], 0, prices)
BidDepth(book, band) ==
  SumOver(book.bid, {p \in DOMAIN book.bid : 20000 * p >= Midpoint2(book) * (10000 - band)})
AskDepth(book, band) ==
  SumOver(book.offer, {p \in DOMAIN book.offer : 20000 * p <= Midpoint2(book) * (10000 + band)})

\* _depth_walk: takes from the best price on until the quantity is there, and
\* says what was filled, for how much, and whether the side could carry it all.
DepthWalk(levels, prices, quantity) ==
  LET Step(walk, price) ==
        LET taken == IF walk.remaining < levels[price] THEN walk.remaining ELSE levels[price]
        IN [remaining |-> walk.remaining - taken, notional |-> walk.notional + taken * price]
      walk == FoldLeft(Step, [remaining |-> quantity, notional |-> 0], prices)
  IN [filled |-> quantity - walk.remaining, notional |-> walk.notional,
      sufficient |-> walk.remaining = 0]
BuyWalk(book, quantity) ==
  DepthWalk(book.offer, Ascending(DOMAIN book.offer), quantity)
SellWalk(book, quantity) ==
  DepthWalk(book.bid, Reverse(Ascending(DOMAIN book.bid)), quantity)

\* What a walk lost against the best price, over the whole of what it filled;
\* a walk that could not be filled still has a slippage.
BuySlippage(book, walk) == walk.notional - walk.filled * Min(DOMAIN book.offer)
SellSlippage(book, walk) == walk.filled * Max(DOMAIN book.bid) - walk.notional

\* _quantiles: the smallest value with at least that share at or below it.
Quantile(values, percent) ==
  LET ordered == Sorted(values)
      index == (Len(ordered) * percent + 99) \div 100
  IN ordered[IF index < 1 THEN 1 ELSE index]

-----------------------------------------------------------------------------
(* What the replay should find, said of the stream as a whole *)

\* The first occurrences, in order of arrival.
Firsts(messages) ==
  LET first == Ascending({i \in DOMAIN messages : \A k \in 1..(i - 1) : messages[k].seq # messages[i].seq})
  IN [i \in DOMAIN first |-> messages[first[i]]]
Consecutive(messages) ==
  \A i \in 1..(Len(messages) - 1) : messages[i + 1].seq = messages[i].seq + 1

\* All updates of a message sequence with the number of snapshots before each.
Updates(messages) ==
  FoldLeft(LAMBDA acc, event :
             LET era == IF event.type = "snapshot" THEN acc.era + 1 ELSE acc.era
             IN [era |-> era,
                 list |-> acc.list \o [i \in DOMAIN event.updates |-> <<era, event.updates[i]>>]],
           [era |-> 0, list |-> <<>>],
           FlattenSeq([i \in DOMAIN messages |->
             IF LogicalChannel(messages[i].channel) = "level2" THEN messages[i].events ELSE <<>>]))

\* A level is there if the last word on it since the last snapshot was not zero.
BookLevel(messages, side, price) ==
  LET all   == Updates(messages)
      words == {i \in DOMAIN all.list : /\ all.list[i][1] = all.era
                                        /\ all.list[i][2].side = side
                                        /\ all.list[i][2].price = price}
  IN IF words = {} THEN 0 ELSE all.list[Max(words)][2].quantity

\* A replay that ends without error has the last word on every level, counts
\* what is a duplicate, and reports gaps or disorder exactly if the messages
\* did not come one after the other.
ReplayIsRight(messages, prices) ==
  LET summary == ReplayRecords(messages)
      firsts  == Firsts(messages)
  IN ~ summary.error =>
       /\ \A side \in {"bid", "offer"}, price \in prices :
            BookLevel(firsts, side, price) =
              IF price \in DOMAIN summary.book[side] THEN summary.book[side][price] ELSE 0
       /\ summary.duplicates = Len(messages) - Len(firsts)
       /\ (summary.gaps = {} /\ summary.disorder = {}) <=> Consecutive(firsts)

\* What can be taken from a side is what is there, taking more never costs less
\* per unit, and a wider band never holds less depth.
FeaturesAreSound(book, quantities) ==
  TwoSided(book) /\ ~ Crossed(book) =>
    /\ \A q \in quantities :
         /\ BuyWalk(book, q).sufficient <=> SumOver(book.offer, DOMAIN book.offer) >= q
         /\ SellWalk(book, q).filled = Min({q, SumOver(book.bid, DOMAIN book.bid)})
    /\ \A q, r \in quantities : (0 < q /\ q < r) =>
         LET buy == [n \in {q, r} |-> BuyWalk(book, n)]
             sell == [n \in {q, r} |-> SellWalk(book, n)]
         IN /\ 0 <= BuySlippage(book, buy[q]) * buy[r].filled
            /\ BuySlippage(book, buy[q]) * buy[r].filled <= BuySlippage(book, buy[r]) * buy[q].filled
            /\ SellSlippage(book, sell[q]) * sell[r].filled <= SellSlippage(book, sell[r]) * sell[q].filled
    /\ \A band, wider \in {0, 500, 2000} : band <= wider =>
         /\ BidDepth(book, band) <= BidDepth(book, wider)
         /\ AskDepth(book, band) <= AskDepth(book, wider)

\* A percentile is a value with at least that share of the values at or below.
QuantilesAreRanks(values) ==
  values # <<>> => \A percent \in {50, 90, 99, 100} :
    LET q == Quantile(values, percent)
    IN /\ 100 * Cardinality({i \in DOMAIN values : values[i] <= q}) >= percent * Len(values)
       /\ 100 * Cardinality({i \in DOMAIN values : values[i] < q}) < percent * Len(values)
=============================================================================
