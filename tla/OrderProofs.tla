----------------------------- MODULE OrderProofs -----------------------------
(***************************************************************************)
(* Proofs about OrderConfirmation: its types, and that the exchange does     *)
(* what was reviewed (ActionAsReviewed), for any prices, positions, accounts, *)
(* drafts and times.                                                        *)
(***************************************************************************)
EXTENDS OrderConfirmation, FiniteSetTheorems, TLAPS

-----------------------------------------------------------------------------
(* Types.                                                                   *)

IntentTypes == OrderTypes \cup {"position_tpsl", "cancel", "update_leverage"}
Assets == {l.asset : l \in Listings}
Directions == {"none", "above", "below"}
Triggers == [price : Int, direction : Directions]

AccountRecords ==
    [position : Int, leverage : Leverages, mode : Modes, orders : SUBSET OrderRecords]

Intents ==
    [type : IntentTypes, asset : Assets, side : Sides, size : Nat, price : Int, tif : Tifs,
     reduceOnly : BOOLEAN, trigger : Int, kind : Kinds, oid : Nat, leverage : Nat, mode : Modes]

Inputs ==
    [binding : Bindings, currentBinding : Bindings, epoch : Nat, currentEpoch : Nat,
     reviewedAt : Nat, expires : Nat, now : Nat, listing : Listings, reference : References,
     minimum : BOOLEAN, leverage : Nat, mode : Modes, position : Int, margin : Margins,
     orders : SUBSET Nat, version : Nat, bps : Int, trigger : Triggers, intent : Intents]

Phases == {"refreshing", "unlocking", "signing", "submitting", "done"}

Flows ==
    [pc : Phases, review : Inputs, input : Inputs,
     read : SUBSET {"catalog", "position", "leverage", "orders"}, positionLeverage : Nat]

Wires ==
    [type : {"none", "order", "modify", "cancel", "updateLeverage"},
     grouping : {"na", "positionTpsl"}, asset : Nat, buy : BOOLEAN, price : Int, size : Nat,
     reduceOnly : BOOLEAN, tif : Tifs, trigger : Int, kind : Kinds, oid : Nat,
     leverage : Nat, isCross : BOOLEAN]

Vaults == {"none"} \cup {b.target : b \in Bindings}

Requests ==
    [action : Wires, vault : Vaults, nonce : Nat, expires : Nat,
     agentOf : {b.master : b \in Bindings},
     signed : [action : Wires, nonce : Nat, vault : Vaults, expires : Nat]]

Effects == {"none", "resting", "filled", "fired", "cancelled", "rejected", "expired"}
Outcomes == {"none", "accepted", "rejected", "expired", "unresolved"}

Submissions ==
    [request : Requests, sent : BOOLEAN, effect : Effects, oid : Nat, outcome : Outcomes]

WorldTypeOK ==
    /\ listing \in Listings /\ reference \in References
    /\ accounts \in [Addresses -> AccountRecords]
    /\ tradeContext \in [binding : Bindings, epoch : Nat]
    /\ clock \in Nat /\ worldSteps \in Nat

FlowTypeOK == flow = NoFlow \/ flow \in Flows

SubmissionTypeOK == submission = NoSubmission \/ submission \in Submissions

OrderTypeOK == WorldTypeOK /\ FlowTypeOK /\ SubmissionTypeOK

-----------------------------------------------------------------------------
(* Arithmetic of prices.                                                    *)

LEMMA TickSizeType ==
    ASSUME NEW places \in 0..Decimals
    PROVE  TickSize(places) \in Nat \ {0}
<1>1. Decimals - places \in 0..Decimals
    BY OrderAssumption
<1>2. QED
    BY <1>1, OrderAssumption DEF TickSize

LEMMA WholeDigitsType ==
    ASSUME NEW price
    PROVE  WholeDigits(price) \in Nat
<1> DEFINE digits == {n \in 1..8 : price >= Unit * 10 ^ n}
<1>1. 1 \in Int /\ 8 \in Int
    OBVIOUS
<1>2. IsFiniteSet(1..8)
    BY <1>1, FS_Interval
<1>3. digits \subseteq 1..8
    OBVIOUS
<1>4. Cardinality(digits) \in Nat
    BY <1>2, <1>3, FS_Subset, FS_CardinalityType
<1>5. QED
    BY <1>4 DEF WholeDigits

(* The limit that stands for a market order is a number.                     *)
LEMMA AggressivePriceType ==
    ASSUME NEW against \in Nat, NEW side \in Sides, NEW bps \in Int,
           NEW places \in 0..Decimals
    PROVE  AggressivePrice(against, side, bps, places) \in Int
<1> DEFINE room == SignificantFigures - WholeDigits(against)
           scale == IF room < 0 THEN 0 ELSE Smaller(places, room)
           bound == against * Factor(side, bps)
           tick == TickSize(scale)
           step == BasisPoints * tick
<1>1. room \in Int
    BY WholeDigitsType, OrderAssumption
<1>2. scale \in 0..Decimals
    BY <1>1, OrderAssumption DEF Smaller
<1>3. tick \in Nat \ {0}
    BY <1>2, TickSizeType
<1>4. Factor(side, bps) \in Int
    BY OrderAssumption DEF Factor
<1>5. bound \in Int
    BY <1>4
<1>6. step \in Nat \ {0}
    BY <1>3, OrderAssumption
<1> HIDE DEF room, scale, bound, tick, step
<1>7. bound \div step \in Int /\ -((-bound) \div step) \in Int
    BY <1>5, <1>6
<1>8. (IF side = "buy" THEN bound \div step ELSE -((-bound) \div step)) * tick \in Int
    BY <1>3, <1>7
<1>9. QED
    BY <1>8 DEF AggressivePrice, room, scale, bound, tick, step

(* A price on the right side of the limit is within the slippage: the limit   *)
(* is, and a product grows with its factors.                                *)
LEMMA ProductGrows ==
    ASSUME NEW a \in Int, NEW b \in Int, NEW k \in Nat, a <= b
    PROVE  a * k <= b * k
OBVIOUS

-----------------------------------------------------------------------------
(* Intents.                                                                 *)

LEMMA BlankType ==
    ASSUME NEW type \in IntentTypes, NEW l \in Listings
    PROVE  /\ Blank(type, l) \in Intents
           /\ Blank(type, l).type = type /\ Blank(type, l).tif = "Ioc"
BY OrderAssumption
   DEF Blank, Intents, Assets, Sides, Tifs, Kinds, Modes, NoOid

(* A market or closing order is immediate or cancelled.                      *)
Immediate(i) == i.type \in {"market_order", "reduce_only_close"} => i.tif = "Ioc"

(* What a builder does to the blank intent of a type.                        *)
LEMMA TakerType ==
    ASSUME NEW b \in Intents, b.tif = "Ioc",
           NEW side \in Sides, NEW size \in Nat, NEW price \in Int
    PROVE  LET i == [b EXCEPT !.side = side, !.size = size, !.price = price]
           IN  i \in Intents /\ Immediate(i)
BY DEF Intents, Immediate

LEMMA LimitType ==
    ASSUME NEW b \in Intents, b.type = "limit_order",
           NEW side \in Sides, NEW size \in Nat, NEW price \in Int, NEW tif \in Tifs,
           NEW reduceOnly \in BOOLEAN
    PROVE  LET i == [b EXCEPT !.side = side, !.size = size, !.price = price, !.tif = tif,
                              !.reduceOnly = reduceOnly]
           IN  i \in Intents /\ Immediate(i)
BY DEF Intents, Immediate

LEMMA ProtectiveType ==
    ASSUME NEW b \in Intents, b.type = "position_tpsl",
           NEW side \in Sides, NEW size \in Nat, NEW price \in Int, NEW trigger \in Int,
           NEW kind \in Kinds, NEW oid \in Nat
    PROVE  LET i == [b EXCEPT !.side = side, !.size = size, !.trigger = trigger, !.kind = kind,
                              !.oid = oid, !.price = price]
           IN  i \in Intents /\ Immediate(i)
BY DEF Intents, Immediate

LEMMA TradeIntentType ==
    ASSUME NEW d \in Drafts, NEW l \in Listings, NEW against \in Nat,
           d.form \in {"market", "limit"}
    PROVE  LET i == TradeIntent(d, l, against) IN i \in Intents /\ Immediate(i)
<1>1. d \in DraftRecords /\ l \in ListingRecords
    BY OrderAssumption
<1>2. /\ d.side \in Sides /\ d.size \in Nat /\ d.price \in Int /\ d.bps \in Int
      /\ d.tif \in Tifs /\ l.places \in 0..Decimals
    BY <1>1 DEF DraftRecords, ListingRecords
<1>3. AggressivePrice(against, d.side, d.bps, l.places) \in Int
    BY <1>2, AggressivePriceType
<1>4. CASE d.form = "limit"
    <2>1. "limit_order" \in IntentTypes
        BY DEF IntentTypes, OrderTypes
    <2>2. (l.family = "perp" /\ d.reduceOnly) \in BOOLEAN
        OBVIOUS
    <2>3. QED
        BY <1>2, <1>4, <2>1, <2>2, BlankType, LimitType DEF TradeIntent
<1>5. CASE d.form # "limit"
    <2>1. "market_order" \in IntentTypes
        BY DEF IntentTypes, OrderTypes
    <2>2. QED
        BY <1>2, <1>3, <1>5, <2>1, BlankType, TakerType DEF TradeIntent
<1>6. QED
    BY <1>4, <1>5

LEMMA ClosingSideType == \A position : ClosingSide(position) \in Sides
BY DEF ClosingSide, Sides

LEMMA MagnitudeType == \A n \in Int : Magnitude(n) \in Nat
BY DEF Magnitude

LEMMA CloseIntentType ==
    ASSUME NEW d \in Drafts, NEW l \in Listings, NEW against \in Nat, NEW position \in Int,
           d.form \in {"close", "limit_close"}
    PROVE  LET i == CloseIntent(d, l, against, position) IN i \in Intents /\ Immediate(i)
<1>1. d \in DraftRecords /\ l \in ListingRecords
    BY OrderAssumption
<1>2. /\ d.size \in Nat /\ d.price \in Int /\ d.bps \in Int
      /\ d.tif \in Tifs /\ l.places \in 0..Decimals
    BY <1>1 DEF DraftRecords, ListingRecords
<1>3. Magnitude(position) \in Nat /\ ClosingSide(position) \in Sides
    BY ClosingSideType, MagnitudeType
<1>4. AggressivePrice(against, ClosingSide(position), d.bps, l.places) \in Int
    BY <1>2, <1>3, AggressivePriceType
<1>5. CASE d.form = "close"
    <2>1. "reduce_only_close" \in IntentTypes
        BY DEF IntentTypes, OrderTypes
    <2>2. QED
        BY <1>3, <1>4, <1>5, <2>1, BlankType, TakerType DEF CloseIntent
<1>6. CASE d.form # "close"
    <2>1. "limit_order" \in IntentTypes /\ TRUE \in BOOLEAN
        BY DEF IntentTypes, OrderTypes
    <2>2. QED
        BY <1>2, <1>3, <1>6, <2>1, BlankType, LimitType DEF CloseIntent
<1>7. QED
    BY <1>5, <1>6

LEMMA ProtectionIntentType ==
    ASSUME NEW d \in Drafts, NEW l \in Listings, NEW position \in Int
    PROVE  LET i == ProtectionIntent(d, l, position) IN i \in Intents /\ Immediate(i)
<1>1. d \in DraftRecords /\ l \in ListingRecords
    BY OrderAssumption
<1>2. /\ d.price \in Nat /\ d.kind \in Kinds /\ d.oid \in Nat /\ l.places \in 0..Decimals
      /\ MaxSlippage \in Int
    BY <1>1, OrderAssumption DEF DraftRecords, ListingRecords
<1>3. Magnitude(position) \in Nat /\ ClosingSide(position) \in Sides
    BY ClosingSideType, MagnitudeType
<1>4. AggressivePrice(d.price, ClosingSide(position), MaxSlippage, l.places) \in Int
    BY <1>2, <1>3, AggressivePriceType
<1>5. "position_tpsl" \in IntentTypes /\ d.price \in Int
    BY <1>2 DEF IntentTypes
<1>6. QED
    BY <1>2, <1>3, <1>4, <1>5, BlankType, ProtectiveType DEF ProtectionIntent

LEMMA CancelIntentType ==
    ASSUME NEW d \in Drafts, NEW l \in Listings
    PROVE  LET i == CancelIntent(d, l) IN i \in Intents /\ Immediate(i)
<1>1. d.oid \in Nat
    BY OrderAssumption DEF DraftRecords
<1> DEFINE b == Blank("cancel", l)
<1>2. b \in Intents /\ b.tif = "Ioc"
    BY BlankType DEF IntentTypes
<1> HIDE DEF b
<1>3. [b EXCEPT !.oid = d.oid] \in Intents /\ Immediate([b EXCEPT !.oid = d.oid])
    BY <1>1, <1>2 DEF Intents, Immediate
<1>4. QED
    BY <1>3 DEF CancelIntent, b

LEMMA LeverageIntentType ==
    ASSUME NEW d \in Drafts, NEW l \in Listings, NEW mode \in Modes
    PROVE  LET i == LeverageIntent(d, l, mode) IN i \in Intents /\ Immediate(i)
<1>1. d.leverage \in Nat
    BY OrderAssumption DEF DraftRecords
<1> DEFINE b == Blank("update_leverage", l)
           i == [b EXCEPT !.leverage = d.leverage, !.mode = mode]
<1>2. b \in Intents /\ b.tif = "Ioc"
    BY BlankType DEF IntentTypes
<1> HIDE DEF b
<1>3. i \in Intents /\ Immediate(i)
    BY <1>1, <1>2 DEF Intents, Immediate
<1>4. QED
    BY <1>3 DEF LeverageIntent, b

LEMMA IntentType ==
    ASSUME NEW d \in Drafts, NEW l \in Listings, NEW against \in Nat, NEW a \in AccountRecords
    PROVE  LET i == IntentOf(d, l, against, a) IN i \in Intents /\ Immediate(i)
<1>1. d \in DraftRecords /\ a.position \in Int /\ a.mode \in Modes
    BY OrderAssumption DEF AccountRecords
<1>2. CASE d.form \in {"market", "limit"}
    BY <1>2, TradeIntentType DEF IntentOf
<1>3. CASE d.form \in {"close", "limit_close"}
    BY <1>1, <1>3, CloseIntentType DEF IntentOf
<1>4. CASE d.form = "protect"
    BY <1>1, <1>4, ProtectionIntentType DEF IntentOf
<1>5. CASE d.form = "cancel"
    BY <1>5, CancelIntentType DEF IntentOf
<1>6. CASE d.form = "leverage"
    BY <1>1, <1>6, LeverageIntentType DEF IntentOf
<1>7. QED
    BY <1>1, <1>2, <1>3, <1>4, <1>5, <1>6 DEF DraftRecords

-----------------------------------------------------------------------------
(* The review.                                                              *)

LEMMA TriggerOfType == \A i \in Intents : TriggerOf(i) \in Triggers
BY DEF TriggerOf, Direction, NoTrigger, Triggers, Directions, Intents

LEMMA SlippageOfType ==
    ASSUME NEW d \in Drafts
    PROVE  SlippageOf(d) \in Int
<1>1. d.bps \in Int /\ MaxSlippage \in Int /\ NoSlippage \in Int
    BY OrderAssumption DEF DraftRecords, NoSlippage
<1>2. QED
    BY <1>1 DEF SlippageOf

LEMMA OpenOidsType == \A a \in AccountRecords : OpenOids(a) \subseteq Nat
BY DEF OpenOids, AccountRecords, OrderRecords

LEMMA AccountFields ==
    ASSUME NEW l \in Listings, NEW a \in AccountRecords
    PROVE  /\ a.position \in Int /\ LeverageOf(l, a) \in Nat /\ ModeOf(l, a) \in Modes
BY OrderAssumption DEF AccountRecords, LeverageOf, ModeOf, Modes

LEMMA TargetKnown ==
    ASSUME WorldTypeOK, NEW b \in Bindings
    PROVE  b.target \in Addresses /\ accounts[b.target] \in AccountRecords
BY DEF WorldTypeOK, Addresses

LEMMA ReviewInputType ==
    ASSUME WorldTypeOK, NEW d \in Drafts, NEW margin \in Margins
    PROVE  ReviewInput(d, margin) \in Inputs /\ Immediate(ReviewInput(d, margin).intent)
<1> DEFINE i == IntentOf(d, listing, reference, Selected)
<1>1. Selected \in AccountRecords
    BY TargetKnown DEF Selected, WorldTypeOK
<1>2. listing \in Listings /\ reference \in References /\ reference \in Nat
    BY OrderAssumption DEF WorldTypeOK
<1>3. i \in Intents /\ Immediate(i)
    BY <1>1, <1>2, IntentType
<1>4. TriggerOf(i) \in Triggers
    BY <1>3, TriggerOfType
<1>5. OrdersShown(d) \in SUBSET Nat
    BY <1>1, OpenOidsType, OrderAssumption DEF OrdersShown, DraftRecords
<1>6. /\ Selected.position \in Int /\ LeverageOf(listing, Selected) \in Nat
      /\ ModeOf(listing, Selected) \in Modes
    BY <1>1, <1>2, AccountFields
<1>7. tradeContext.binding \in Bindings /\ tradeContext.epoch \in Nat /\ clock \in Nat
    BY DEF WorldTypeOK
<1>8. clock + ReviewWindow \in Nat
    BY <1>7, OrderAssumption
<1>9. (d.form \in {"market", "limit", "leverage"}) \in BOOLEAN
    OBVIOUS
<1>10. SlippageOf(d) \in Int
    BY SlippageOfType
<1> HIDE DEF i
<1>11. QED
    BY <1>2, <1>3, <1>4, <1>5, <1>6, <1>7, <1>8, <1>9, <1>10 DEF ReviewInput, Inputs, i

-----------------------------------------------------------------------------
(* The wire.                                                                *)

Carries(i, w) ==
    /\ i.type \in OrderTypes =>
          /\ w.type = "order" /\ w.grouping = "na"
          /\ w.buy <=> i.side = "buy"
          /\ w.size = i.size /\ w.price = i.price /\ w.tif = i.tif
          /\ w.reduceOnly <=> Reducing(i)
    /\ i.type = "position_tpsl" =>
          /\ w.type \in {"order", "modify"} /\ w.grouping = "positionTpsl"
          /\ w.buy <=> i.side = "buy"
          /\ w.size = 0 /\ w.reduceOnly
    /\ i.type = "cancel" => w.type = "cancel" /\ w.grouping = "na" /\ w.oid = i.oid
    /\ i.type = "update_leverage" => w.type = "updateLeverage" /\ w.grouping = "na"

LEMMA NoWireType == NoWire \in Wires
BY DEF NoWire, Wires, Tifs, Kinds, NoOid

LEMMA AssetsAreNumbers == Assets \subseteq Nat
BY OrderAssumption DEF Assets, ListingRecords

LEMMA OrderWireType ==
    ASSUME NEW i \in Intents
    PROVE  /\ OrderWire(i) \in Wires
           /\ OrderWire(i).type = "order" /\ OrderWire(i).grouping = "na"
           /\ OrderWire(i).buy <=> i.side = "buy"
           /\ OrderWire(i).size = i.size /\ OrderWire(i).price = i.price
           /\ OrderWire(i).tif = i.tif
           /\ OrderWire(i).reduceOnly <=> Reducing(i)
<1>1. /\ i.asset \in Nat /\ i.size \in Nat /\ i.price \in Int /\ i.tif \in Tifs
    BY AssetsAreNumbers DEF Intents
<1>2. Reducing(i) \in BOOLEAN /\ (i.side = "buy") \in BOOLEAN
    BY DEF Reducing, Intents
<1>3. NoWire.grouping = "na"
    BY DEF NoWire
<1>4. QED
    BY <1>1, <1>2, <1>3, NoWireType DEF OrderWire, Wires

LEMMA ProtectionWireType ==
    ASSUME NEW i \in Intents, i.type = "position_tpsl"
    PROVE  ProtectionWire(i) \in Wires /\ Carries(i, ProtectionWire(i))
<1> DEFINE w == OrderWire(i)
<1>1. w \in Wires /\ (w.buy <=> i.side = "buy") /\ w.reduceOnly
    BY OrderWireType DEF Reducing
<1> HIDE DEF w
<1>2. i.trigger \in Int /\ i.kind \in Kinds /\ i.oid \in Nat
    BY DEF Intents
<1>3. QED
    BY <1>1, <1>2 DEF ProtectionWire, ProtectionSize, Carries, Wires, OrderTypes, w

LEMMA WireType ==
    ASSUME NEW i \in Intents
    PROVE  BuildExchangeAction(i) \in Wires /\ Carries(i, BuildExchangeAction(i))
<1>1. CASE i.type \in OrderTypes
    BY <1>1, OrderWireType DEF BuildExchangeAction, Carries, OrderTypes
<1>2. CASE i.type = "position_tpsl"
    BY <1>2, ProtectionWireType DEF BuildExchangeAction, OrderTypes
<1>3. CASE i.type = "cancel"
    <2>1. i.oid \in Nat /\ i.asset \in Nat /\ NoWire.grouping = "na"
        BY AssetsAreNumbers DEF Intents, NoWire
    <2>2. CancelWire(i) \in Wires /\ Carries(i, CancelWire(i))
        BY <1>3, <2>1, NoWireType DEF CancelWire, Carries, Wires, OrderTypes
    <2>3. QED
        BY <1>3, <2>2 DEF BuildExchangeAction, OrderTypes
<1>4. CASE i.type = "update_leverage"
    <2>1. i.leverage \in Nat /\ i.asset \in Nat /\ NoWire.grouping = "na"
        BY AssetsAreNumbers DEF Intents, NoWire
    <2>2. (i.mode = "cross") \in BOOLEAN
        OBVIOUS
    <2>3. LeverageWire(i) \in Wires /\ Carries(i, LeverageWire(i))
        BY <1>4, <2>1, <2>2, NoWireType DEF LeverageWire, Carries, Wires, OrderTypes
    <2>4. QED
        BY <1>4, <2>3 DEF BuildExchangeAction, OrderTypes
<1>5. QED
    BY <1>1, <1>2, <1>3, <1>4 DEF Intents, IntentTypes

LEMMA RequestType ==
    ASSUME NEW b \in Bindings, NEW i \in Intents, NEW n \in Nat, NEW e \in Nat
    PROVE  Request(b, i, n, e) \in Requests
<1>1. BuildExchangeAction(i) \in Wires
    BY WireType
<1>2. VaultAddress(b) \in Vaults
    BY DEF VaultAddress, Vaults
<1>3. b.master \in {c.master : c \in Bindings}
    OBVIOUS
<1>4. QED
    BY <1>1, <1>2, <1>3 DEF Request, Requests, Preimage

-----------------------------------------------------------------------------
(* The inductive invariant.                                                 *)

Before == {"idle", "refreshing", "unlocking"}
After == {"signing", "submitting", "done"}

(* What passed the refresh is valid, and is the review but for the limit of a *)
(* market or closing order.                                                 *)
Sealed(review, input) ==
    /\ Valid(input) /\ input.bps = review.bps
    /\ RefreshedIntent(review.intent, input) = input.intent

ReviewInv ==
    /\ flow.pc # "idle" => Immediate(flow.review.intent)
    /\ flow.pc \in After \cup {"unlocking"} => Sealed(flow.review, flow.input)

(* The request is built from the review; nothing happens before it is sent.   *)
RequestInv ==
    /\ flow.pc \in Before => submission = NoSubmission
    /\ flow.pc \in After =>
          /\ submission \in Submissions
          /\ \E n, e \in Nat :
                submission.request = Request(flow.review.binding, flow.input.intent, n, e)
    /\ flow.pc = "signing" => ~submission.sent
    /\ ~submission.sent => submission.effect = "none"

(* The order left resting has the side, the size and the flag of the wire.    *)
OursAs(o, w) ==
    /\ o.buy <=> w.buy
    /\ o.size = w.size
    /\ o.reduceOnly <=> w.reduceOnly

RestingInv ==
    submission.effect = "resting" =>
        /\ flow.review.intent.type \in {"limit_order", "position_tpsl"}
        /\ \A o \in accounts[flow.review.binding.target].orders :
              o.oid = submission.oid => OursAs(o, submission.request.action)

FiniteInv == \A a \in Addresses : IsFiniteSet(accounts[a].orders)

OrderInv == OrderTypeOK /\ FiniteInv /\ ReviewInv /\ RequestInv /\ RestingInv

-----------------------------------------------------------------------------
(* What a sealed request says.                                              *)

Faithful(i, against, bps, w) ==
    /\ i.type \in OrderTypes =>
          /\ w.type = "order" /\ w.grouping = "na"
          /\ w.buy <=> i.side = "buy"
          /\ w.size = i.size /\ i.size > 0 /\ w.tif = i.tif
          /\ w.reduceOnly <=> Reducing(i)
    /\ i.type = "position_tpsl" =>
          /\ w.type \in {"order", "modify"} /\ w.grouping = "positionTpsl"
          /\ w.size = 0 /\ w.reduceOnly
    /\ i.type = "cancel" => w.type = "cancel" /\ w.grouping = "na" /\ w.oid = i.oid
    /\ i.type = "update_leverage" => w.type = "updateLeverage" /\ w.grouping = "na"
    /\ i.type \in {"market_order", "reduce_only_close"} =>
          /\ w.tif = "Ioc"
          /\ WithinSlippage(i.side, w.price, against, bps)

LEMMA RefreshedFields ==
    ASSUME NEW i \in Intents, NEW in \in Inputs
    PROVE  LET j == RefreshedIntent(i, in)
           IN  /\ j \in Intents
               /\ j.type = i.type /\ j.side = i.side /\ j.size = i.size /\ j.tif = i.tif
               /\ j.oid = i.oid
               /\ Reducing(j) <=> Reducing(i)
<1> DEFINE price == AggressivePrice(in.reference, i.side, in.bps, in.listing.places)
<1>1. /\ in.reference \in Nat /\ i.side \in Sides /\ in.bps \in Int
      /\ in.listing.places \in 0..Decimals
    BY OrderAssumption DEF Inputs, Intents, ListingRecords
<1>2. price \in Int
    BY <1>1, AggressivePriceType
<1> HIDE DEF price
<1>3. CASE i.type \in {"market_order", "reduce_only_close"}
    <2> DEFINE j == [i EXCEPT !.price = price]
    <2>1. /\ j \in Intents
          /\ j.type = i.type /\ j.side = i.side /\ j.size = i.size /\ j.tif = i.tif
          /\ j.oid = i.oid /\ j.reduceOnly = i.reduceOnly
        BY <1>2 DEF Intents
    <2> HIDE DEF j
    <2>2. Reducing(j) <=> Reducing(i)
        BY <2>1 DEF Reducing
    <2>3. RefreshedIntent(i, in) = j
        BY <1>3 DEF RefreshedIntent, price, j
    <2>4. QED
        BY <2>1, <2>2, <2>3
<1>4. CASE i.type \notin {"market_order", "reduce_only_close"}
    BY <1>4 DEF RefreshedIntent
<1>5. QED
    BY <1>3, <1>4

LEMMA SealedIsFaithful ==
    ASSUME NEW review \in Inputs, NEW input \in Inputs, Sealed(review, input),
           Immediate(review.intent), NEW n \in Nat, NEW e \in Nat
    PROVE  LET request == Request(review.binding, input.intent, n, e)
           IN  Faithful(review.intent, input.reference, review.bps, request.action)
<1> DEFINE i == review.intent
           j == input.intent
           w == BuildExchangeAction(j)
<1>1. i \in Intents /\ j \in Intents
    BY DEF Inputs
<1>2. /\ j.type = i.type /\ j.side = i.side /\ j.size = i.size /\ j.tif = i.tif
      /\ j.oid = i.oid
      /\ Reducing(j) <=> Reducing(i)
    BY <1>1, RefreshedFields DEF Sealed
<1>3. Carries(j, w)
    BY <1>1, WireType
<1>4. j.type \in OrderTypes => OrderValid(input)
    BY DEF Sealed, Valid, OrderTypes
<1>5. j.type \in OrderTypes => j.size > 0
    BY <1>4 DEF OrderValid, NormalSize
<1>6. j.type \in {"market_order", "reduce_only_close"} =>
          WithinSlippage(j.side, j.price, input.reference, review.bps)
    BY <1>4 DEF OrderValid, Sealed, OrderTypes
<1>7. Immediate(i)
    OBVIOUS
<1> HIDE DEF i, j, w
<1>8. Faithful(i, input.reference, review.bps, w)
    <2>1. CASE i.type \in OrderTypes
        BY <1>2, <1>3, <1>5, <1>6, <1>7, <2>1
           DEF Faithful, Carries, OrderTypes, Immediate
    <2>2. CASE i.type \notin OrderTypes
        BY <1>2, <1>3, <2>2 DEF Faithful, Carries, OrderTypes
    <2>3. QED
        BY <2>1, <2>2
<1>9. QED
    BY <1>8 DEF Request, i, j, w

(* The request acts on the reviewed account.                                 *)
LEMMA ActsOnTarget ==
    ASSUME NEW b \in Bindings, NEW i, NEW n, NEW e,
           submission.request = Request(b, i, n, e)
    PROVE  ActsOn = b.target
<1>1. b.target # "none"
    BY OrderAssumption
<1>2. submission.request.vault = VaultAddress(b) /\ submission.request.agentOf = b.master
    BY DEF Request
<1>3. QED
    BY <1>1, <1>2 DEF ActsOn, VaultAddress

-----------------------------------------------------------------------------
(* What an effect does to the account.                                      *)

(* A fill moves the position by its size; a reducing one stays between the    *)
(* position and zero, and the size zero or the whole size closes it.          *)
LEMMA FillMoves ==
    ASSUME NEW buy \in BOOLEAN, NEW reduceOnly \in BOOLEAN, NEW size \in Nat, NEW p \in Int,
           MayFill(buy, reduceOnly, p)
    PROVE  LET q == Fill(buy, size, reduceOnly, p)
           IN  /\ q \in Int
               /\ reduceOnly => IF p > 0 THEN q \in 0..p ELSE q \in p..0
               /\ ~reduceOnly => q = IF buy THEN p + size ELSE p - size
               /\ reduceOnly /\ size = Magnitude(p) => q = 0
<1> DEFINE amount == IF reduceOnly THEN Smaller(size, Magnitude(p)) ELSE size
           q == IF buy THEN p + amount ELSE p - amount
<1>1. amount \in Nat
    BY DEF Smaller, Magnitude
<1>2. CASE ~reduceOnly
    BY <1>2 DEF Fill
<1>3. CASE reduceOnly
    <2>1. amount \in Nat /\ amount <= Magnitude(p)
        BY <1>3 DEF Smaller, Magnitude
    <2>2. size = Magnitude(p) => amount = Magnitude(p)
        BY <1>3 DEF Smaller
    <2>3. IF buy THEN p < 0 ELSE p > 0
        BY <1>3 DEF MayFill
    <2>4. Fill(buy, size, reduceOnly, p) = q
        BY DEF Fill
    <2> HIDE DEF amount
    <2>5. /\ q \in Int
          /\ IF p > 0 THEN q \in 0..p ELSE q \in p..0
          /\ amount = Magnitude(p) => q = 0
        BY <2>1, <2>3 DEF Magnitude
    <2>6. QED
        BY <1>3, <2>2, <2>4, <2>5
<1>4. QED
    BY <1>2, <1>3

LEMMA SlippageKept ==
    ASSUME NEW price \in Int, NEW against \in Nat, NEW bps \in Int, NEW side \in Sides,
           NEW w, w.price = price, w.buy \in BOOLEAN, w.buy <=> side = "buy",
           reference \in Nat,
           WithinSlippage(side, price, against, bps), Marketable(w.buy, w.price)
    PROVE  IF side = "buy" THEN reference * BasisPoints <= against * Factor("buy", bps)
                           ELSE reference * BasisPoints >= against * Factor("sell", bps)
<1>1. BasisPoints \in Nat
    BY OrderAssumption
<1>2. Factor("buy", bps) \in Int /\ Factor("sell", bps) \in Int
    BY <1>1 DEF Factor
<1>3. CASE side = "buy"
    <2>1. reference <= price
        BY <1>3 DEF Marketable
    <2>2. reference * BasisPoints <= price * BasisPoints
        BY <1>1, <2>1, ProductGrows
    <2>3. price * BasisPoints <= against * Factor("buy", bps)
        BY <1>3 DEF WithinSlippage
    <2> DEFINE x == reference * BasisPoints
               y == price * BasisPoints
               z == against * Factor("buy", bps)
    <2>4. x \in Int /\ y \in Int /\ z \in Int
        BY <1>1, <1>2
    <2>5. x <= y /\ y <= z
        BY <2>2, <2>3
    <2> HIDE DEF x, y, z
    <2>6. x <= z
        BY <2>4, <2>5
    <2>7. QED
        BY <1>3, <2>6 DEF x, z
<1>4. CASE side = "sell"
    <2>1. price <= reference
        BY <1>4 DEF Marketable
    <2>2. price * BasisPoints <= reference * BasisPoints
        BY <1>1, <2>1, ProductGrows
    <2>3. price * BasisPoints >= against * Factor("sell", bps)
        BY <1>4 DEF WithinSlippage, Factor
    <2> DEFINE x == reference * BasisPoints
               y == price * BasisPoints
               z == against * Factor("sell", bps)
    <2>4. x \in Int /\ y \in Int /\ z \in Int
        BY <1>1, <1>2
    <2>5. y <= x /\ y >= z
        BY <2>2, <2>3
    <2> HIDE DEF x, y, z
    <2>6. x >= z
        BY <2>4, <2>5
    <2>7. QED
        BY <1>4, <2>6 DEF x, z
<1>5. QED
    BY <1>3, <1>4 DEF Sides

(* The fields an effect changes, of one account.                            *)
LEMMA PositionChanges ==
    ASSUME NEW before \in [Addresses -> AccountRecords], NEW t \in Addresses, NEW q \in Int
    PROVE  LET after == [before EXCEPT ![t].position = q]
           IN  /\ after \in [Addresses -> AccountRecords]
               /\ \A a \in Addresses \ {t} : after[a] = before[a]
               /\ after[t].position = q /\ after[t].orders = before[t].orders
BY DEF AccountRecords

LEMMA OrdersChange ==
    ASSUME NEW before \in [Addresses -> AccountRecords], NEW t \in Addresses,
           NEW orders \in SUBSET OrderRecords
    PROVE  LET after == [before EXCEPT ![t].orders = orders]
           IN  /\ after \in [Addresses -> AccountRecords]
               /\ \A a \in Addresses \ {t} : after[a] = before[a]
               /\ after[t].orders = orders /\ after[t].position = before[t].position
BY DEF AccountRecords

LEMMA BothChange ==
    ASSUME NEW before \in [Addresses -> AccountRecords], NEW t \in Addresses, NEW q \in Int,
           NEW orders \in SUBSET OrderRecords
    PROVE  LET after == [before EXCEPT ![t].position = q, ![t].orders = orders]
           IN  /\ after \in [Addresses -> AccountRecords]
               /\ \A a \in Addresses \ {t} : after[a] = before[a]
               /\ after[t].position = q /\ after[t].orders = orders
BY DEF AccountRecords

(* Only the orders of the reviewed account change, for an action that is no   *)
(* cancellation.                                                            *)
LEMMA PositionStays ==
    ASSUME NEW review \in Inputs, NEW input \in Inputs, NEW before, NEW after, NEW acted,
           before[review.binding.target].position \in Int,
           after[review.binding.target].position = before[review.binding.target].position,
           \A a \in Addresses \ {review.binding.target} : after[a] = before[a],
           review.intent.type = "cancel" =>
               \A o \in before[review.binding.target].orders :
                   o.oid # review.intent.oid => o \in after[review.binding.target].orders,
           acted # "filled"
    PROVE  DoesAsReviewed(review, input, acted, before, after)
BY DEF DoesAsReviewed

(* A fill, of a side, size and flag, of the order a wire w carries.           *)
FillOf(w, buy, size, reduceOnly, t, before, after) ==
    LET p == before[t].position IN
    /\ buy \in BOOLEAN /\ reduceOnly \in BOOLEAN /\ size \in Nat /\ p \in Int
    /\ after[t].position = Fill(buy, size, reduceOnly, p) /\ MayFill(buy, reduceOnly, p)
    /\ \A a \in Addresses \ {t} : after[a] = before[a]
    /\ buy <=> w.buy
    /\ reduceOnly <=> w.reduceOnly
    /\ size = IF w.size = 0 THEN Magnitude(p) ELSE w.size

LEMMA FillIsReviewed ==
    ASSUME NEW review \in Inputs, NEW input \in Inputs, NEW before, NEW after, NEW acted,
           NEW w \in Wires, NEW buy, NEW reduceOnly, NEW size,
           FillOf(w, buy, size, reduceOnly, review.binding.target, before, after),
           Faithful(review.intent, input.reference, review.bps, w),
           review.intent.type \in OrderTypes \cup {"position_tpsl"},
           review.intent.type \in {"market_order", "reduce_only_close"} /\ acted = "filled" =>
               Marketable(w.buy, w.price),
           reference \in Nat
    PROVE  DoesAsReviewed(review, input, acted, before, after)
<1> DEFINE t == review.binding.target
           p == before[t].position
<1>0. /\ buy \in BOOLEAN /\ reduceOnly \in BOOLEAN /\ size \in Nat /\ p \in Int
      /\ after[t].position = Fill(buy, size, reduceOnly, p) /\ MayFill(buy, reduceOnly, p)
      /\ \A a \in Addresses \ {t} : after[a] = before[a]
      /\ buy <=> w.buy
      /\ reduceOnly <=> w.reduceOnly
      /\ size = IF w.size = 0 THEN Magnitude(p) ELSE w.size
    BY DEF FillOf
<1> HIDE DEF p, t
<1> DEFINE i == review.intent
           q == Fill(buy, size, reduceOnly, p)
<1>1. /\ i \in Intents /\ i.side \in Sides /\ i.size \in Nat
      /\ input.reference \in Nat /\ review.bps \in Int
    BY OrderAssumption DEF Inputs, Intents
<1>2. w.price \in Int /\ w.buy \in BOOLEAN /\ w.size \in Nat
    BY DEF Wires
<1>3. /\ q \in Int
      /\ reduceOnly => IF p > 0 THEN q \in 0..p ELSE q \in p..0
      /\ ~reduceOnly => q = IF buy THEN p + size ELSE p - size
      /\ reduceOnly /\ size = Magnitude(p) => q = 0
    BY <1>0, FillMoves
<1>4. Faithful(i, input.reference, review.bps, w)
    OBVIOUS
<1> HIDE DEF i, q
<1>5. Reducing(i) => reduceOnly
    BY <1>0, <1>4 DEF Faithful, Reducing, OrderTypes
<1>6. Reducing(i) => IF p > 0 THEN q \in 0..p ELSE q \in p..0
    BY <1>3, <1>5
<1>7. i.type = "position_tpsl" => q = 0
    BY <1>0, <1>3, <1>4 DEF Faithful
<1>8. i.type # "cancel"
    BY DEF OrderTypes, i
<1>9. ~Reducing(i) => q = IF i.side = "buy" THEN p + i.size ELSE p - i.size
    <2> SUFFICES ASSUME ~Reducing(i) PROVE q = IF i.side = "buy" THEN p + i.size ELSE p - i.size
        OBVIOUS
    <2>1. i.type \in OrderTypes
        BY DEF Reducing, i
    <2>2. /\ ~w.reduceOnly
          /\ w.buy <=> i.side = "buy"
          /\ w.size = i.size /\ i.size > 0
        BY <1>4, <2>1 DEF Faithful
    <2>3. size = i.size
        BY <1>0, <1>1, <2>2
    <2>4. QED
        BY <1>0, <1>3, <2>2, <2>3
<1>10. acted = "filled" /\ i.type \in {"market_order", "reduce_only_close"} =>
           IF i.side = "buy"
           THEN reference * BasisPoints <= input.reference * Factor("buy", review.bps)
           ELSE reference * BasisPoints >= input.reference * Factor("sell", review.bps)
    <2> SUFFICES ASSUME acted = "filled", i.type \in {"market_order", "reduce_only_close"}
                 PROVE  IF i.side = "buy"
                        THEN reference * BasisPoints <= input.reference * Factor("buy", review.bps)
                        ELSE reference * BasisPoints >= input.reference * Factor("sell", review.bps)
        OBVIOUS
    <2>1. Marketable(w.buy, w.price)
        BY DEF i
    <2>2. i.type \in OrderTypes
        BY DEF OrderTypes
    <2>3. /\ WithinSlippage(i.side, w.price, input.reference, review.bps)
          /\ w.buy <=> i.side = "buy"
        BY <1>4, <2>2 DEF Faithful
    <2>4. QED
        BY <1>1, <1>2, <2>1, <2>3, SlippageKept
<1>11. QED
    BY <1>0, <1>6, <1>7, <1>8, <1>9, <1>10 DEF DoesAsReviewed, i, p, q, t

-----------------------------------------------------------------------------
(* The exchange's steps.                                                    *)

AccountsOK == accounts \in [Addresses -> AccountRecords] /\ FiniteInv

(* The exchange acts only on a request that was sent.                        *)
LEMMA Sent ==
    ASSUME OrderInv, submission.sent \/ submission.effect # "none"
    PROVE  /\ flow \in Flows /\ flow.pc \in {"submitting", "done"}
           /\ submission \in Submissions /\ submission.sent
           /\ flow.review \in Inputs /\ flow.input \in Inputs
           /\ ActsOn = flow.review.binding.target
           /\ ActsOn \in Addresses /\ accounts \in [Addresses -> AccountRecords]
           /\ accounts[ActsOn] \in AccountRecords /\ Position \in Int
           /\ Wire \in Wires
           /\ Faithful(flow.review.intent, flow.input.reference, flow.review.bps, Wire)
           /\ reference \in Nat
<1>1. submission # NoSubmission /\ submission.sent
    BY DEF OrderInv, RequestInv, NoSubmission
<1>2. flow \in Flows
    BY <1>1 DEF OrderInv, OrderTypeOK, FlowTypeOK, RequestInv, Before, NoFlow
<1>3. flow.pc \in {"submitting", "done"}
    BY <1>1, <1>2 DEF OrderInv, RequestInv, Before, Flows, Phases
<1>4. submission \in Submissions
    BY <1>3 DEF OrderInv, RequestInv, After
<1>5. flow.review \in Inputs /\ flow.input \in Inputs
    BY <1>2 DEF Flows
<1>6. PICK n \in Nat, e \in Nat :
          submission.request = Request(flow.review.binding, flow.input.intent, n, e)
    BY <1>3 DEF OrderInv, RequestInv, After
<1>7. flow.review.binding \in Bindings
    BY <1>5 DEF Inputs
<1>8. ActsOn = flow.review.binding.target
    BY <1>6, <1>7, ActsOnTarget
<1>9. ActsOn \in Addresses /\ accounts[ActsOn] \in AccountRecords
    BY <1>7, <1>8, TargetKnown DEF OrderInv, OrderTypeOK
<1>10. Position \in Int
    BY <1>9 DEF Position, AccountRecords
<1>11. Wire \in Wires
    BY <1>4 DEF Submissions, Requests, Wire
<1>12. Sealed(flow.review, flow.input) /\ Immediate(flow.review.intent)
    BY <1>3 DEF OrderInv, ReviewInv, After
<1>13. Faithful(flow.review.intent, flow.input.reference, flow.review.bps, Wire)
    BY <1>5, <1>6, <1>12, SealedIsFaithful DEF Wire
<1>14. reference \in Nat /\ accounts \in [Addresses -> AccountRecords]
    BY OrderAssumption DEF OrderInv, OrderTypeOK, WorldTypeOK
<1>15. QED
    BY <1>1, <1>2, <1>3, <1>4, <1>5, <1>8, <1>9, <1>10, <1>11, <1>13, <1>14

LEMMA TypesOfWires ==
    ASSUME NEW i \in Intents, NEW against, NEW bps, NEW w, Faithful(i, against, bps, w)
    PROVE  /\ w.type = "order" /\ w.grouping = "na" => i.type \in OrderTypes
           /\ w.grouping = "positionTpsl" => i.type = "position_tpsl"
           /\ w.type = "cancel" => i.type = "cancel"
BY DEF Faithful, Intents, IntentTypes, OrderTypes

LEMMA FillsEffect ==
    ASSUME OrderInv, ExchangeFills
    PROVE  /\ AccountsOK'
           /\ DoesAsReviewed(flow.review, flow.input, submission'.effect, accounts, accounts')
<1> DEFINE t == flow.review.binding.target
           q == Fill(Wire.buy, Wire.size, Wire.reduceOnly, Position)
<1>1. submission.sent
    BY DEF ExchangeFills, Open
<1>2. /\ flow.review \in Inputs /\ flow.input \in Inputs
      /\ ActsOn = t /\ t \in Addresses /\ accounts \in [Addresses -> AccountRecords]
      /\ Position \in Int /\ Position = accounts[t].position /\ Wire \in Wires
      /\ Faithful(flow.review.intent, flow.input.reference, flow.review.bps, Wire)
      /\ reference \in Nat
    BY <1>1, Sent DEF Position
<1>3. /\ accounts' = [accounts EXCEPT ![t].position = q]
      /\ MayFill(Wire.buy, Wire.reduceOnly, Position) /\ Marketable(Wire.buy, Wire.price)
      /\ Wire.type = "order" /\ Wire.grouping = "na"
    BY <1>2 DEF ExchangeFills
<1>4. Wire.buy \in BOOLEAN /\ Wire.reduceOnly \in BOOLEAN /\ Wire.size \in Nat
    BY <1>2 DEF Wires
<1>5. q \in Int
    BY <1>2, <1>3, <1>4, FillMoves
<1>6. /\ accounts' \in [Addresses -> AccountRecords]
      /\ \A a \in Addresses \ {t} : accounts'[a] = accounts[a]
      /\ accounts'[t].position = q /\ accounts'[t].orders = accounts[t].orders
    BY <1>2, <1>3, <1>5, PositionChanges
<1>7. AccountsOK'
    BY <1>6 DEF AccountsOK, OrderInv, FiniteInv
<1>8. flow.review.intent \in Intents
    BY <1>2 DEF Inputs
<1>9. flow.review.intent.type \in OrderTypes
    BY <1>2, <1>3, <1>8, TypesOfWires
<1>10. Wire.size # 0
    BY <1>2, <1>8, <1>9 DEF Faithful, Intents
<1>11. accounts'[t].position = Fill(Wire.buy, Wire.size, Wire.reduceOnly, Position)
    BY <1>6
<1>12. FillOf(Wire, Wire.buy, Wire.size, Wire.reduceOnly, t, accounts, accounts')
    BY <1>2, <1>3, <1>4, <1>6, <1>10, <1>11 DEF FillOf
<1> HIDE DEF t, q
<1>13. DoesAsReviewed(flow.review, flow.input, submission'.effect, accounts, accounts')
    BY <1>2, <1>3, <1>9, <1>12, FillIsReviewed DEF t
<1>14. QED
    BY <1>7, <1>13

(* An order may always be given a number of its own.                         *)
LEMMA FreshOid ==
    ASSUME OrderInv, ActsOn \in Addresses, accounts[ActsOn] \in AccountRecords
    PROVE  NewOid \in Nat \ {NoOid} /\ NewOid \notin OpenOids(accounts[ActsOn])
<1> DEFINE orders == accounts[ActsOn].orders
           oids == OpenOids(accounts[ActsOn])
           c == Cardinality(oids)
<1>1. IsFiniteSet(orders)
    BY DEF OrderInv, FiniteInv
<1>2. oids = {o.oid : o \in orders}
    BY DEF OpenOids
<1>3. IsFiniteSet(oids)
    <2> DEFINE oid == [o \in orders |-> o.oid]
    <2>1. oid \in Surjection(orders, oids)
        BY <1>2 DEF Surjection
    <2> HIDE DEF oid, orders, oids
    <2>2. QED
        BY <1>1, <2>1, FS_Surjection
<1>4. c \in Nat
    BY <1>3, FS_CardinalityType
<1> HIDE DEF c, oids, orders
<1>5. IsFiniteSet(1..(c + 1)) /\ Cardinality(1..(c + 1)) = c + 1
    <2>1. 1 \in Int /\ c + 1 \in Int /\ ~(1 > c + 1)
        BY <1>4
    <2>2. Cardinality(1..(c + 1)) = (c + 1) - 1 + 1 /\ IsFiniteSet(1..(c + 1))
        BY <2>1, FS_Interval
    <2>3. QED
        BY <1>4, <2>2
<1>6. ~(1..(c + 1) \subseteq oids)
    <2> SUFFICES ASSUME 1..(c + 1) \subseteq oids PROVE FALSE
        OBVIOUS
    <2>1. Cardinality(1..(c + 1)) <= Cardinality(oids)
        BY <1>3, FS_Subset
    <2>2. QED
        BY <1>4, <1>5, <2>1 DEF c
<1>7. \E n \in 1..(c + 1) : n \notin oids
    BY <1>6
<1>8. NewOid \in 1..(c + 1) /\ NewOid \notin oids
    BY <1>7 DEF NewOid, c, oids
<1>9. QED
    BY <1>4, <1>8 DEF NoOid, oids

(* An order comes to rest: it is the only one of its number.                  *)
LEMMA RestsEffect ==
    ASSUME OrderInv, submission.sent, NEW kind \in Kinds \cup {"limit"}, Rests(kind),
           flow.review.intent.type \in {"limit_order", "position_tpsl"}
    PROVE  /\ AccountsOK' /\ submission' \in Submissions /\ submission'.sent
           /\ submission'.request = submission.request
           /\ RestingInv'
           /\ DoesAsReviewed(flow.review, flow.input, submission'.effect, accounts, accounts')
<1> DEFINE t == flow.review.binding.target
           own == [oid |-> NewOid, kind |-> kind, buy |-> Wire.buy, size |-> Wire.size,
                   price |-> Wire.price, reduceOnly |-> Wire.reduceOnly,
                   trigger |-> Wire.trigger]
           rest == {o \in accounts[t].orders : o.oid # Wire.oid}
<1>1. /\ flow.review \in Inputs /\ flow.input \in Inputs /\ submission \in Submissions
      /\ ActsOn = t /\ t \in Addresses /\ accounts \in [Addresses -> AccountRecords]
      /\ accounts[t] \in AccountRecords /\ Wire \in Wires
    BY Sent
<1>2. accounts' = [accounts EXCEPT ![t].orders = rest \cup {own}]
    BY <1>1 DEF Rests
<1>3. NewOid \in Nat \ {NoOid} /\ NewOid \notin OpenOids(accounts[t])
    BY <1>1, FreshOid
<1>4. own \in OrderRecords /\ own.oid = NewOid /\ OursAs(own, Wire)
    BY <1>1, <1>3 DEF OrderRecords, Wires, OursAs
<1>5. \A o \in rest : o.oid # NewOid
    BY <1>3 DEF OpenOids
<1>6. rest \subseteq accounts[t].orders /\ accounts[t].orders \subseteq OrderRecords
    BY <1>1 DEF AccountRecords
<1>7. IsFiniteSet(rest \cup {own})
    <2>1. IsFiniteSet(rest)
        BY <1>1, <1>6, FS_Subset DEF OrderInv, FiniteInv
    <2> HIDE DEF rest, own
    <2>2. QED
        BY <2>1, FS_AddElement
<1>8. /\ submission' = [submission EXCEPT !.effect = "resting", !.oid = NewOid]
      /\ flow' = flow
    BY DEF Rests
<1>9. /\ submission' \in Submissions /\ submission'.request = submission.request
      /\ submission'.effect = "resting" /\ submission'.oid = NewOid /\ submission'.sent
    BY <1>1, <1>3, <1>8 DEF Submissions, Effects
<1> DEFINE orders == rest \cup {own}
<1> HIDE DEF own, rest
<1>10. orders \in SUBSET OrderRecords
    BY <1>4, <1>6
<1> HIDE DEF orders
<1>11. accounts' = [accounts EXCEPT ![t].orders = orders]
    BY <1>2 DEF orders
<1>12. /\ accounts' \in [Addresses -> AccountRecords]
       /\ \A a \in Addresses \ {t} : accounts'[a] = accounts[a]
       /\ accounts'[t].orders = orders /\ accounts'[t].position = accounts[t].position
    <2>1. t \in Addresses /\ accounts \in [Addresses -> AccountRecords]
        BY <1>1
    <2> HIDE DEF t
    <2>2. accounts' \in [Addresses -> AccountRecords]
        BY <1>10, <1>11, <2>1, OrdersChange
    <2>3. \A a \in Addresses \ {t} : accounts'[a] = accounts[a]
        BY <1>10, <1>11, <2>1, OrdersChange
    <2>4. accounts'[t].orders = orders /\ accounts'[t].position = accounts[t].position
        BY <1>10, <1>11, <2>1, OrdersChange
    <2>5. QED
        BY <2>2, <2>3, <2>4
<1>13. AccountsOK'
    BY <1>7, <1>12 DEF AccountsOK, OrderInv, FiniteInv, orders
<1>14. \A o \in accounts'[t].orders : o.oid = submission'.oid => OursAs(o, Wire)
    BY <1>4, <1>5, <1>9, <1>12 DEF orders
<1>15. RestingInv'
    BY <1>8, <1>9, <1>14 DEF RestingInv, Wire
<1>16. accounts[t].position \in Int
    BY <1>1 DEF AccountRecords
<1>17. DoesAsReviewed(flow.review, flow.input, submission'.effect, accounts, accounts')
    BY <1>1, <1>9, <1>12, <1>16, PositionStays
<1>18. QED
    BY <1>9, <1>13, <1>15, <1>17

LEMMA ExchangeRestsEffect ==
    ASSUME OrderInv, ExchangeRests
    PROVE  /\ AccountsOK' /\ submission' \in Submissions /\ submission'.sent
           /\ submission'.request = submission.request
           /\ RestingInv'
           /\ DoesAsReviewed(flow.review, flow.input, submission'.effect, accounts, accounts')
<1>1. submission.sent /\ Rests("limit")
    BY DEF ExchangeRests, Open
<1>2. /\ flow.review \in Inputs
      /\ Faithful(flow.review.intent, flow.input.reference, flow.review.bps, Wire)
    BY <1>1, Sent
<1>3. flow.review.intent \in Intents
    BY <1>2 DEF Inputs
<1>4. flow.review.intent.type \in OrderTypes
    BY <1>2, <1>3, TypesOfWires DEF ExchangeRests
<1>5. flow.review.intent.type = "limit_order"
    BY <1>2, <1>4 DEF ExchangeRests, Faithful, OrderTypes
<1>6. QED
    BY <1>1, <1>5, RestsEffect

LEMMA ExchangeProtectsEffect ==
    ASSUME OrderInv, ExchangeProtects
    PROVE  /\ AccountsOK' /\ submission' \in Submissions /\ submission'.sent
           /\ submission'.request = submission.request
           /\ RestingInv'
           /\ DoesAsReviewed(flow.review, flow.input, submission'.effect, accounts, accounts')
<1>1. submission.sent /\ Rests(Wire.kind)
    BY DEF ExchangeProtects, Open
<1>2. /\ flow.review \in Inputs /\ Wire \in Wires
      /\ Faithful(flow.review.intent, flow.input.reference, flow.review.bps, Wire)
    BY <1>1, Sent
<1>3. flow.review.intent \in Intents /\ Wire.kind \in Kinds
    BY <1>2 DEF Inputs, Wires
<1>4. flow.review.intent.type = "position_tpsl"
    BY <1>2, <1>3, TypesOfWires DEF ExchangeProtects
<1>5. QED
    BY <1>1, <1>3, <1>4, RestsEffect

(* Any other effect leaves the request, and no order to rest.                 *)
LEMMA BecomesEffect ==
    ASSUME OrderInv, submission.sent \/ submission.effect # "none",
           NEW effect \in Effects \ {"none", "resting"}, Becomes(effect)
    PROVE  /\ submission' \in Submissions /\ submission'.request = submission.request
           /\ submission'.sent /\ submission'.effect = effect
           /\ RestingInv'
<1>1. submission \in Submissions /\ submission.sent
    BY Sent
<1>2. submission' = [submission EXCEPT !.effect = effect]
    BY DEF Becomes
<1>3. /\ submission' \in Submissions /\ submission'.request = submission.request
      /\ submission'.effect = effect /\ submission'.sent
    BY <1>1, <1>2 DEF Submissions
<1>4. QED
    BY <1>3 DEF RestingInv

LEMMA CancelsEffect ==
    ASSUME OrderInv, ExchangeCancels
    PROVE  /\ AccountsOK'
           /\ DoesAsReviewed(flow.review, flow.input, submission'.effect, accounts, accounts')
<1> DEFINE t == flow.review.binding.target
           rest == {o \in accounts[t].orders : o.oid # Wire.oid}
<1>1. submission.sent /\ Becomes("cancelled") /\ "cancelled" \in Effects \ {"none", "resting"}
    BY DEF ExchangeCancels, Open, Effects
<1>2. /\ flow.review \in Inputs /\ flow.input \in Inputs
      /\ ActsOn = t /\ t \in Addresses /\ accounts \in [Addresses -> AccountRecords]
      /\ accounts[t] \in AccountRecords
      /\ Faithful(flow.review.intent, flow.input.reference, flow.review.bps, Wire)
    BY <1>1, Sent
<1>3. accounts' = [accounts EXCEPT ![t].orders = rest] /\ Wire.type = "cancel"
    BY <1>2 DEF ExchangeCancels
<1>4. rest \subseteq accounts[t].orders /\ accounts[t].orders \subseteq OrderRecords
    BY <1>2 DEF AccountRecords
<1>5. IsFiniteSet(rest)
    BY <1>2, <1>4, FS_Subset DEF OrderInv, FiniteInv
<1>6. flow.review.intent \in Intents
    BY <1>2 DEF Inputs
<1>7. flow.review.intent.type = "cancel" /\ Wire.oid = flow.review.intent.oid
    BY <1>2, <1>3, <1>6, TypesOfWires DEF Faithful
<1>8. \A o \in accounts[t].orders : o.oid # flow.review.intent.oid => o \in rest
    BY <1>7
<1> HIDE DEF rest
<1>9. rest \in SUBSET OrderRecords
    BY <1>4
<1>10. /\ accounts' \in [Addresses -> AccountRecords]
       /\ \A a \in Addresses \ {t} : accounts'[a] = accounts[a]
       /\ accounts'[t].orders = rest /\ accounts'[t].position = accounts[t].position
    BY <1>2, <1>3, <1>9, OrdersChange
<1>11. AccountsOK'
    BY <1>5, <1>10 DEF AccountsOK, OrderInv, FiniteInv
<1>12. accounts[t].position \in Int
    BY <1>2 DEF AccountRecords
<1>13. submission'.effect = "cancelled"
    BY <1>1, BecomesEffect
<1>14. DoesAsReviewed(flow.review, flow.input, submission'.effect, accounts, accounts')
    BY <1>2, <1>8, <1>10, <1>12, <1>13, PositionStays
<1>15. QED
    BY <1>11, <1>14

LEMMA RejectsEffect ==
    ASSUME OrderInv, ExchangeRejects
    PROVE  DoesAsReviewed(flow.review, flow.input, submission'.effect, accounts, accounts')
<1> DEFINE effect == IF clock > submission.request.expires THEN "expired" ELSE "rejected"
<1>1. submission.sent /\ Becomes(effect) /\ effect \in Effects \ {"none", "resting"}
    BY DEF ExchangeRejects, Effects
<1>2. submission'.effect # "filled"
    BY <1>1, BecomesEffect
<1>3. /\ flow.review \in Inputs /\ flow.input \in Inputs
      /\ accounts[flow.review.binding.target] \in AccountRecords
    BY <1>1, Sent
<1>4. accounts[flow.review.binding.target].position \in Int
    BY <1>3 DEF AccountRecords
<1>5. accounts' = accounts
    BY DEF ExchangeRejects
<1>6. QED
    BY <1>2, <1>3, <1>4, <1>5, PositionStays

LEMMA OwnOrderFillsEffect ==
    ASSUME OrderInv, OwnOrderFills
    PROVE  /\ AccountsOK' /\ submission' \in Submissions /\ submission'.sent
           /\ submission'.request = submission.request
           /\ RestingInv'
           /\ DoesAsReviewed(flow.review, flow.input, submission'.effect, accounts, accounts')
<1> DEFINE t == flow.review.binding.target
           p == accounts[t].position
           w == submission.request.action
<1>1. submission.effect = "resting" /\ submission.effect # "none"
    BY DEF OwnOrderFills
<1>2. /\ flow.review \in Inputs /\ flow.input \in Inputs
      /\ ActsOn = t /\ t \in Addresses /\ accounts \in [Addresses -> AccountRecords]
      /\ accounts[t] \in AccountRecords /\ w \in Wires /\ reference \in Nat
      /\ Faithful(flow.review.intent, flow.input.reference, flow.review.bps, w)
    BY <1>1, Sent DEF Wire
<1>3. PICK o \in accounts[t].orders :
          /\ o.oid = submission.oid
          /\ MayFill(o.buy, o.reduceOnly, p)
          /\ accounts' = [accounts EXCEPT
                ![t].position =
                    Fill(o.buy, IF o.size = 0 THEN Magnitude(@) ELSE o.size, o.reduceOnly, @),
                ![t].orders = @ \ {o}]
          /\ Becomes(IF o.kind = "limit" THEN "filled" ELSE "fired")
    BY <1>2 DEF OwnOrderFills, Own, Position
<1> DEFINE size == IF o.size = 0 THEN Magnitude(p) ELSE o.size
           q == Fill(o.buy, size, o.reduceOnly, p)
           rest == accounts[t].orders \ {o}
           effect == IF o.kind = "limit" THEN "filled" ELSE "fired"
<1>4. /\ o \in OrderRecords /\ accounts[t].orders \subseteq OrderRecords /\ p \in Int
    BY <1>2 DEF AccountRecords
<1>5. o.buy \in BOOLEAN /\ o.reduceOnly \in BOOLEAN /\ size \in Nat
    BY <1>4 DEF OrderRecords, Magnitude
<1>6. /\ flow.review.intent.type \in {"limit_order", "position_tpsl"} /\ OursAs(o, w)
    BY <1>1, <1>3 DEF OrderInv, RestingInv
<1>7. /\ o.buy <=> w.buy
      /\ o.reduceOnly <=> w.reduceOnly
      /\ size = IF w.size = 0 THEN Magnitude(p) ELSE w.size
    BY <1>6 DEF OursAs
<1>8. accounts' = [accounts EXCEPT ![t].position = q, ![t].orders = rest]
    BY <1>2, <1>3 DEF AccountRecords
<1>9. q \in Int
    <2> HIDE DEF size, p
    <2>1. QED
        BY <1>3, <1>4, <1>5, FillMoves
<1>10. rest \in SUBSET OrderRecords
    BY <1>4
<1>11. IsFiniteSet(rest)
    BY <1>2, FS_Subset DEF OrderInv, FiniteInv
<1>12. effect \in Effects \ {"none", "resting"} /\ Becomes(effect)
    BY <1>3 DEF Effects
<1> HIDE DEF q, rest, p, t, size, effect, w
<1>13. accounts' \in [Addresses -> AccountRecords]
    BY <1>2, <1>8, <1>9, <1>10, BothChange
<1>14. \A a \in Addresses \ {t} : accounts'[a] = accounts[a]
    BY <1>2, <1>8, <1>9, <1>10, BothChange
<1>15. accounts'[t].position = q /\ accounts'[t].orders = rest
    BY <1>2, <1>8, <1>9, <1>10, BothChange
<1>16. AccountsOK'
    BY <1>11, <1>13, <1>14, <1>15 DEF AccountsOK, OrderInv, FiniteInv
<1>17. /\ submission' \in Submissions /\ submission'.request = submission.request
       /\ submission'.sent /\ submission'.effect = effect
       /\ RestingInv'
    BY <1>1, <1>12, BecomesEffect
<1>18. FillOf(w, o.buy, size, o.reduceOnly, t, accounts, accounts')
    BY <1>3, <1>4, <1>5, <1>7, <1>14, <1>15 DEF FillOf, p, q
<1>19. DoesAsReviewed(flow.review, flow.input, submission'.effect, accounts, accounts')
    BY <1>2, <1>6, <1>18, FillIsReviewed DEF t, OrderTypes
<1>20. QED
    BY <1>16, <1>17, <1>19

-----------------------------------------------------------------------------
(* The invariant is kept.                                                   *)

LEMMA InitInv == OrderInit => OrderInv
<1> SUFFICES ASSUME OrderInit PROVE OrderInv
    OBVIOUS
<1>1. listing \in Listings /\ reference \in References /\ clock \in Nat /\ worldSteps \in Nat
    BY DEF OrderInit
<1>2. tradeContext \in [binding : Bindings, epoch : Nat]
    BY DEF OrderInit
<1>3. PICK position \in Positions, leverage \in Leverages, orders \in {Orders} :
          accounts = [a \in Addresses |->
                        [position |-> position, leverage |-> leverage, mode |-> "cross",
                         orders |-> orders]]
    BY DEF OrderInit
<1>4. position \in Int /\ orders \in SUBSET OrderRecords /\ IsFiniteSet(orders)
      /\ "cross" \in Modes
    BY <1>3, OrderAssumption DEF Modes
<1>5. accounts \in [Addresses -> AccountRecords]
    BY <1>3, <1>4 DEF AccountRecords
<1>6. FiniteInv
    BY <1>3, <1>4 DEF FiniteInv
<1>7. flow = NoFlow /\ submission = NoSubmission /\ flow.pc = "idle"
      /\ ~submission.sent /\ submission.effect = "none"
    BY DEF OrderInit, NoFlow, NoSubmission
<1>8. OrderTypeOK
    BY <1>1, <1>2, <1>5, <1>7 DEF OrderTypeOK, WorldTypeOK, FlowTypeOK, SubmissionTypeOK
<1>9. ReviewInv /\ RequestInv /\ RestingInv
    BY <1>7 DEF ReviewInv, RequestInv, RestingInv, Before, After
<1>10. QED
    BY <1>6, <1>8, <1>9 DEF OrderInv

WorldSame == UNCHANGED <<listing, reference, accounts, tradeContext, clock, worldSteps>>

LEMMA WorldStays ==
    ASSUME OrderInv, WorldSame
    PROVE  WorldTypeOK' /\ FiniteInv'
BY DEF OrderInv, OrderTypeOK, WorldTypeOK, FiniteInv, WorldSame

(* Before the reservation there is nothing but the flow.                     *)
LEMMA EarlyStep ==
    ASSUME OrderInv, WorldSame, flow.pc \in Before, submission' = submission,
           flow' \in Flows, flow'.pc \in Before, Immediate(flow'.review.intent),
           flow'.pc = "unlocking" => Sealed(flow'.review, flow'.input)
    PROVE  OrderInv'
<1>1. submission' = NoSubmission
    BY DEF OrderInv, RequestInv
<1>2. ~submission'.sent /\ submission'.effect = "none"
    BY <1>1 DEF NoSubmission
<1>3. RequestInv' /\ RestingInv'
    BY <1>1, <1>2 DEF RequestInv, RestingInv, Before, After
<1>4. ReviewInv'
    BY DEF ReviewInv, Before, After
<1>5. QED
    BY <1>1, <1>3, <1>4, WorldStays DEF OrderInv, OrderTypeOK, FlowTypeOK, SubmissionTypeOK

LEMMA ReviewKeeps ==
    ASSUME OrderInv, NEW d \in Drafts, Review(d)
    PROVE  OrderInv'
<1>1. PICK margin \in Margins : flow' = Confirming(ReviewInput(d, margin))
    BY DEF Review
<1> DEFINE in == ReviewInput(d, margin)
<1>2. in \in Inputs /\ Immediate(in.intent)
    BY ReviewInputType DEF OrderInv, OrderTypeOK
<1> HIDE DEF in
<1>3. /\ flow' \in Flows /\ flow'.pc = "refreshing" /\ flow'.review = in
    BY <1>1, <1>2 DEF Confirming, Flows, Phases, in
<1>4. WorldSame /\ submission' = submission /\ flow.pc \in Before
    BY DEF Review, WorldSame, Before
<1>5. QED
    BY <1>2, <1>3, <1>4, EarlyStep DEF Before

Queries == {"catalog", "position", "leverage", "orders"}

LEMMA AnsweredKeeps ==
    ASSUME OrderInv, flow.pc = "refreshing",
           NEW what \in Queries, NEW input \in Inputs, NEW positionLeverage \in Nat,
           Answered(what, input, positionLeverage)
    PROVE  OrderInv'
<1>1. flow \in Flows
    BY DEF OrderInv, OrderTypeOK, FlowTypeOK, NoFlow
<1>2. flow' = [flow EXCEPT !.read = @ \cup {what}, !.input = input,
                           !.positionLeverage = positionLeverage]
    BY DEF Answered
<1>3. flow' \in Flows /\ flow'.pc = "refreshing" /\ flow'.review = flow.review
    BY <1>1, <1>2 DEF Flows, Queries
<1>4. Immediate(flow.review.intent)
    BY DEF OrderInv, ReviewInv
<1>5. WorldSame /\ submission' = submission /\ flow.pc \in Before
    BY DEF Answered, WorldSame, Before
<1>6. QED
    BY <1>3, <1>4, <1>5, EarlyStep DEF Before

LEMMA RefreshingFlow ==
    ASSUME OrderInv, flow.pc = "refreshing"
    PROVE  /\ flow \in Flows /\ flow.review \in Inputs /\ flow.input \in Inputs
           /\ flow.positionLeverage \in Nat
           /\ RefreshedAccount \in AccountRecords
           /\ flow.input.listing \in Listings
<1>1. flow \in Flows
    BY DEF OrderInv, OrderTypeOK, FlowTypeOK, NoFlow
<1>2. flow.review \in Inputs /\ flow.input \in Inputs /\ flow.positionLeverage \in Nat
    BY <1>1 DEF Flows
<1>3. flow.review.binding \in Bindings /\ flow.input.listing \in Listings
    BY <1>2 DEF Inputs
<1>4. RefreshedAccount \in AccountRecords
    BY <1>3, TargetKnown DEF RefreshedAccount, OrderInv, OrderTypeOK
<1>5. QED
    BY <1>1, <1>2, <1>3, <1>4

LEMMA RefreshCatalogKeeps ==
    ASSUME OrderInv, RefreshCatalog
    PROVE  OrderInv'
<1> DEFINE input == [flow.input EXCEPT !.listing = listing, !.reference = reference,
                                       !.minimum = TRUE]
<1>1. flow.pc = "refreshing" /\ Answered("catalog", input, 0)
    BY DEF RefreshCatalog
<1>2. flow.input \in Inputs
    BY <1>1, RefreshingFlow
<1>3. input \in Inputs
    BY <1>2 DEF Inputs, OrderInv, OrderTypeOK, WorldTypeOK
<1> HIDE DEF input
<1>4. QED
    BY <1>1, <1>3, AnsweredKeeps DEF Queries

LEMMA RefreshPositionKeeps ==
    ASSUME OrderInv, RefreshPosition
    PROVE  OrderInv'
<1> DEFINE input == [flow.input EXCEPT !.position = RefreshedAccount.position]
           leverage == LeverageOf(flow.input.listing, RefreshedAccount)
<1>1. flow.pc = "refreshing" /\ Answered("position", input, leverage)
    BY DEF RefreshPosition, Reading
<1>2. flow.input \in Inputs /\ RefreshedAccount.position \in Int /\ leverage \in Nat
    BY <1>1, RefreshingFlow, AccountFields
<1>3. input \in Inputs
    BY <1>2 DEF Inputs
<1> HIDE DEF input, leverage
<1>4. QED
    BY <1>1, <1>2, <1>3, AnsweredKeeps DEF Queries

LEMMA RefreshLeverageKeeps ==
    ASSUME OrderInv, RefreshLeverage
    PROVE  OrderInv'
<1>1. PICK margin \in Margins :
          Answered("leverage",
               [flow.input EXCEPT !.leverage = LeverageOf(flow.input.listing, RefreshedAccount),
                                  !.mode = ModeOf(flow.input.listing, RefreshedAccount),
                                  !.margin = margin],
               flow.positionLeverage)
    BY DEF RefreshLeverage
<1> DEFINE input == [flow.input EXCEPT
                       !.leverage = LeverageOf(flow.input.listing, RefreshedAccount),
                       !.mode = ModeOf(flow.input.listing, RefreshedAccount),
                       !.margin = margin]
<1>2. flow.pc = "refreshing"
    BY DEF RefreshLeverage, Reading
<1>3. /\ flow.input \in Inputs /\ flow.positionLeverage \in Nat
      /\ LeverageOf(flow.input.listing, RefreshedAccount) \in Nat
      /\ ModeOf(flow.input.listing, RefreshedAccount) \in Modes
    BY <1>2, RefreshingFlow, AccountFields
<1>4. input \in Inputs
    BY <1>3 DEF Inputs
<1> HIDE DEF input
<1>5. QED
    BY <1>1, <1>2, <1>3, <1>4, AnsweredKeeps DEF Queries, input

LEMMA RefreshOrdersKeeps ==
    ASSUME OrderInv, RefreshOrders
    PROVE  OrderInv'
<1> DEFINE input == [flow.input EXCEPT !.orders = {flow.review.intent.oid}]
<1>1. flow.pc = "refreshing" /\ Answered("orders", input, flow.positionLeverage)
    BY DEF RefreshOrders, Reading
<1>2. /\ flow.input \in Inputs /\ flow.review \in Inputs /\ flow.positionLeverage \in Nat
    BY <1>1, RefreshingFlow
<1>3. flow.review.intent.oid \in Nat
    BY <1>2 DEF Inputs, Intents
<1>4. input \in Inputs
    BY <1>2, <1>3 DEF Inputs
<1> HIDE DEF input
<1>5. QED
    BY <1>1, <1>2, <1>4, AnsweredKeeps DEF Queries

LEMMA FinishRefreshKeeps ==
    ASSUME OrderInv, FinishRefresh
    PROVE  OrderInv'
<1>1. flow.pc = "refreshing"
    BY DEF FinishRefresh
<1>2. flow \in Flows /\ flow.input \in Inputs /\ flow.review \in Inputs
    BY <1>1, RefreshingFlow
<1> DEFINE intent == RefreshedIntent(flow.review.intent, flow.input)
           version == IF flow.review.intent.type = "cancel"
                         \/ SameReviewedAccount(flow.review, flow.input)
                      THEN flow.review.version ELSE flow.review.version + 1
<1>3. intent \in Intents
    BY <1>2, RefreshedFields DEF Inputs
<1>4. version \in Nat
    BY <1>2 DEF Inputs
<1>5. /\ tradeContext.binding \in Bindings /\ tradeContext.epoch \in Nat /\ clock \in Nat
    BY DEF OrderInv, OrderTypeOK, WorldTypeOK
<1> HIDE DEF intent, version
<1>6. RefreshedInput =
          [flow.input EXCEPT
              !.currentBinding = tradeContext.binding, !.currentEpoch = tradeContext.epoch,
              !.now = clock, !.intent = intent, !.version = version]
    BY DEF RefreshedInput, intent, version
<1>7. RefreshedInput \in Inputs
    BY <1>2, <1>3, <1>4, <1>5, <1>6 DEF Inputs
<1>8. flow' = [flow EXCEPT !.pc = "unlocking", !.input = RefreshedInput, !.read = {},
                           !.positionLeverage = 0]
    BY DEF FinishRefresh
<1>9. /\ flow' \in Flows /\ flow'.pc = "unlocking" /\ flow'.review = flow.review
      /\ flow'.input = RefreshedInput
    BY <1>2, <1>7, <1>8 DEF Flows, Phases
<1>10. Sealed(flow.review, RefreshedInput)
    BY DEF FinishRefresh, StillReviewed, Sealed
<1>11. Sealed(flow'.review, flow'.input)
    BY <1>9, <1>10
<1>12. Immediate(flow'.review.intent)
    BY <1>1, <1>9 DEF OrderInv, ReviewInv
<1>13. WorldSame /\ submission' = submission /\ flow.pc \in Before
    BY <1>1 DEF FinishRefresh, WorldSame, Before
<1>14. QED
    BY <1>9, <1>11, <1>12, <1>13, EarlyStep DEF Before

(* From the reservation on.  The review stays; so does the request.          *)
LEMMA LateStep ==
    ASSUME OrderInv, WorldSame,
           flow' \in Flows, flow.pc \in After \cup {"unlocking"}, flow'.pc \in After,
           flow'.review = flow.review, flow'.input = flow.input,
           submission' \in Submissions,
           \E n, e \in Nat :
               submission'.request = Request(flow.review.binding, flow.input.intent, n, e),
           flow'.pc = "signing" => ~submission'.sent,
           ~submission'.sent => submission'.effect = "none",
           RestingInv'
    PROVE  OrderInv'
<1>1. ReviewInv'
    BY DEF OrderInv, ReviewInv, After
<1>2. RequestInv'
    BY DEF RequestInv, After, Before
<1>3. QED
    BY <1>1, <1>2, WorldStays DEF OrderInv, OrderTypeOK, FlowTypeOK, SubmissionTypeOK

LEMMA LateFlow ==
    ASSUME OrderInv, flow.pc \in After \cup {"unlocking"}
    PROVE  /\ flow \in Flows /\ flow.review \in Inputs /\ flow.input \in Inputs
           /\ flow.review.binding \in Bindings /\ flow.input.intent \in Intents
<1>1. flow \in Flows
    BY DEF OrderInv, OrderTypeOK, FlowTypeOK, NoFlow, After
<1>2. flow.review \in Inputs /\ flow.input \in Inputs
    BY <1>1 DEF Flows
<1>3. QED
    BY <1>1, <1>2 DEF Inputs

LEMMA UnlockKeeps ==
    ASSUME OrderInv, Unlock
    PROVE  OrderInv'
<1> DEFINE request == Request(flow.review.binding, flow.input.intent, clock,
                              clock + RequestExpiry)
<1>1. flow.pc = "unlocking"
    BY DEF Unlock
<1>2. /\ flow \in Flows /\ flow.review.binding \in Bindings /\ flow.input.intent \in Intents
    BY <1>1, LateFlow
<1>3. clock \in Nat /\ clock + RequestExpiry \in Nat
    BY OrderAssumption DEF OrderInv, OrderTypeOK, WorldTypeOK
<1>4. request \in Requests
    BY <1>2, <1>3, RequestType
<1>5. \E n, e \in Nat : request = Request(flow.review.binding, flow.input.intent, n, e)
    BY <1>3
<1> HIDE DEF request
<1>6. submission' = Reserved(request) /\ flow' = [flow EXCEPT !.pc = "signing"]
    BY DEF Unlock, request
<1>7. /\ submission' \in Submissions /\ submission'.request = request
      /\ ~submission'.sent /\ submission'.effect = "none"
    BY <1>4, <1>6 DEF Reserved, Submissions, Effects, Outcomes, NoOid
<1>8. /\ flow' \in Flows /\ flow'.pc = "signing" /\ flow'.review = flow.review
      /\ flow'.input = flow.input
    BY <1>2, <1>6 DEF Flows, Phases
<1>9. RestingInv'
    BY <1>7 DEF RestingInv
<1>10. WorldSame
    BY DEF Unlock, WorldSame
<1>11. \E n, e \in Nat :
           submission'.request = Request(flow.review.binding, flow.input.intent, n, e)
    BY <1>5, <1>7
<1>12. QED
    BY <1>1, <1>7, <1>8, <1>9, <1>10, <1>11, LateStep DEF After

LEMMA LateSubmission ==
    ASSUME OrderInv, flow.pc \in After
    PROVE  /\ submission \in Submissions
           /\ \E n, e \in Nat :
                 submission.request = Request(flow.review.binding, flow.input.intent, n, e)
           /\ ~submission.sent => submission.effect = "none"
BY DEF OrderInv, RequestInv

LEMMA SignAndSubmitKeeps ==
    ASSUME OrderInv, SignAndSubmit
    PROVE  OrderInv'
<1>1. flow.pc = "signing" /\ flow.pc \in After
    BY DEF SignAndSubmit, After
<1>2. flow \in Flows
    BY <1>1, LateFlow
<1>3. /\ submission \in Submissions
      /\ \E n, e \in Nat :
            submission.request = Request(flow.review.binding, flow.input.intent, n, e)
      /\ submission.effect = "none"
    BY <1>1, LateSubmission DEF OrderInv, RequestInv
<1>4. /\ submission' = [submission EXCEPT !.sent = TRUE]
      /\ flow' = [flow EXCEPT !.pc = "submitting"]
    BY DEF SignAndSubmit
<1>5. /\ submission' \in Submissions /\ submission'.request = submission.request
      /\ submission'.sent /\ submission'.effect = "none"
    BY <1>3, <1>4 DEF Submissions
<1>6. /\ flow' \in Flows /\ flow'.pc = "submitting" /\ flow'.review = flow.review
      /\ flow'.input = flow.input
    BY <1>2, <1>4 DEF Flows, Phases
<1>7. RestingInv'
    BY <1>5 DEF RestingInv
<1>8. WorldSame
    BY DEF SignAndSubmit, WorldSame
<1>9. \E n, e \in Nat :
          submission'.request = Request(flow.review.binding, flow.input.intent, n, e)
    BY <1>3, <1>5
<1>10. flow'.pc \in After /\ flow'.pc # "signing"
    BY <1>6 DEF After
<1>11. QED
    BY <1>1, <1>5, <1>6, <1>7, <1>8, <1>9, <1>10, LateStep

LEMMA FailBeforeSendingKeeps ==
    ASSUME OrderInv, FailBeforeSending
    PROVE  OrderInv'
<1>1. flow' = NoFlow /\ submission' = NoSubmission /\ WorldSame
    BY DEF FailBeforeSending, WorldSame
<1>2. flow'.pc = "idle" /\ ~submission'.sent /\ submission'.effect = "none"
    BY <1>1 DEF NoFlow, NoSubmission
<1>3. ReviewInv' /\ RequestInv' /\ RestingInv'
    BY <1>1, <1>2 DEF ReviewInv, RequestInv, RestingInv, Before, After
<1>4. QED
    BY <1>1, <1>3, WorldStays DEF OrderInv, OrderTypeOK, FlowTypeOK, SubmissionTypeOK

LEMMA ClassifyType == \A answer : Classify(answer) \in Outcomes
BY DEF Classify, ClassifyError, Outcomes

LEMMA ConcludesKeeps ==
    ASSUME OrderInv, flow.pc = "submitting", NEW answer, Concludes(answer)
    PROVE  OrderInv'
<1>1. flow.pc \in After
    BY DEF After
<1>2. flow \in Flows
    BY <1>1, LateFlow
<1>3. /\ submission \in Submissions
      /\ \E n, e \in Nat :
            submission.request = Request(flow.review.binding, flow.input.intent, n, e)
      /\ ~submission.sent => submission.effect = "none"
    BY <1>1, LateSubmission
<1> DEFINE outcome == Classify(answer)
<1>4. outcome \in Outcomes
    BY ClassifyType
<1> HIDE DEF outcome
<1>5. /\ submission' = [submission EXCEPT !.outcome = outcome]
      /\ flow' = [flow EXCEPT !.pc = "done"] /\ accounts' = accounts
    BY DEF Concludes, outcome
<1>6. /\ submission' \in Submissions /\ submission'.request = submission.request
      /\ submission'.effect = submission.effect /\ submission'.oid = submission.oid
      /\ submission'.sent = submission.sent
    BY <1>3, <1>4, <1>5 DEF Submissions
<1>7. /\ flow' \in Flows /\ flow'.pc = "done" /\ flow'.review = flow.review
      /\ flow'.input = flow.input
    BY <1>2, <1>5 DEF Flows, Phases
<1>8. RestingInv'
    BY <1>5, <1>6, <1>7 DEF RestingInv, OrderInv
<1>9. WorldSame
    BY DEF Concludes, WorldSame
<1>10. \E n, e \in Nat :
          submission'.request = Request(flow.review.binding, flow.input.intent, n, e)
    BY <1>3, <1>6
<1>11. ~submission'.sent => submission'.effect = "none"
    BY <1>3, <1>6
<1>12. flow'.pc \in After /\ flow'.pc # "signing"
    BY <1>7 DEF After
<1>13. QED
    BY <1>1, <1>6, <1>7, <1>8, <1>9, <1>10, <1>11, <1>12, LateStep

(* The exchange's steps leave the flow.                                      *)
LEMMA ExchangeStep ==
    ASSUME OrderInv, submission.sent \/ submission.effect # "none", AccountsOK',
           UNCHANGED <<listing, reference, tradeContext, clock, flow, worldSteps>>,
           submission' \in Submissions, submission'.request = submission.request,
           submission'.sent, RestingInv'
    PROVE  OrderInv'
<1>1. WorldTypeOK' /\ FiniteInv' /\ FlowTypeOK' /\ SubmissionTypeOK'
    BY DEF OrderInv, OrderTypeOK, WorldTypeOK, FlowTypeOK, SubmissionTypeOK, AccountsOK
<1>2. ReviewInv'
    BY DEF OrderInv, ReviewInv
<1>3. flow.pc \in {"submitting", "done"}
    BY Sent
<1>4. RequestInv'
    BY <1>3 DEF OrderInv, RequestInv, Before, After
<1>5. QED
    BY <1>1, <1>2, <1>4 DEF OrderInv, OrderTypeOK

LEMMA ExchangeKeeps ==
    ASSUME OrderInv,
           \/ ExchangeFills \/ ExchangeRests \/ ExchangeProtects \/ ExchangeCancels
           \/ ExchangeRejects \/ OwnOrderFills
    PROVE  OrderInv'
<1>1. CASE ExchangeFills
    <2>1. /\ submission.sent /\ Becomes("filled") /\ "filled" \in Effects \ {"none", "resting"}
        BY <1>1 DEF ExchangeFills, Open, Effects
    <2>2. QED
        BY <1>1, <2>1, FillsEffect, BecomesEffect, ExchangeStep DEF Becomes
<1>2. CASE ExchangeRests
    <2>1. submission.sent /\ UNCHANGED <<listing, reference, tradeContext, clock, flow, worldSteps>>
        BY <1>2 DEF ExchangeRests, Open, Rests
    <2>2. QED
        BY <1>2, <2>1, ExchangeRestsEffect, ExchangeStep
<1>3. CASE ExchangeProtects
    <2>1. submission.sent /\ UNCHANGED <<listing, reference, tradeContext, clock, flow, worldSteps>>
        BY <1>3 DEF ExchangeProtects, Open, Rests
    <2>2. QED
        BY <1>3, <2>1, ExchangeProtectsEffect, ExchangeStep
<1>4. CASE ExchangeCancels
    <2>1. /\ submission.sent /\ Becomes("cancelled")
          /\ "cancelled" \in Effects \ {"none", "resting"}
        BY <1>4 DEF ExchangeCancels, Open, Effects
    <2>2. QED
        BY <1>4, <2>1, CancelsEffect, BecomesEffect, ExchangeStep DEF Becomes
<1>5. CASE ExchangeRejects
    <2> DEFINE effect == IF clock > submission.request.expires THEN "expired" ELSE "rejected"
    <2>1. /\ submission.sent /\ Becomes(effect) /\ effect \in Effects \ {"none", "resting"}
          /\ accounts' = accounts
        BY <1>5 DEF ExchangeRejects, Effects
    <2>2. AccountsOK'
        BY <2>1 DEF AccountsOK, OrderInv, OrderTypeOK, WorldTypeOK, FiniteInv
    <2> HIDE DEF effect
    <2>3. QED
        BY <2>1, <2>2, BecomesEffect, ExchangeStep DEF Becomes
<1>6. CASE OwnOrderFills
    <2>1. /\ submission.effect # "none"
          /\ UNCHANGED <<listing, reference, tradeContext, clock, flow, worldSteps>>
        BY <1>6 DEF OwnOrderFills, Becomes
    <2>2. QED
        BY <1>6, <2>1, OwnOrderFillsEffect, ExchangeStep
<1>7. QED
    BY <1>1, <1>2, <1>3, <1>4, <1>5, <1>6

(* The rest of the world leaves flow and submission; an account may lose      *)
(* orders but gets none.                                                    *)
LEMMA WorldStep ==
    ASSUME OrderInv, WorldTypeOK', UNCHANGED <<flow, submission>>,
           \A a \in Addresses : accounts'[a].orders \subseteq accounts[a].orders
    PROVE  OrderInv'
<1>1. FiniteInv'
    BY FS_Subset DEF OrderInv, FiniteInv
<1>2. ReviewInv' /\ RequestInv' /\ FlowTypeOK' /\ SubmissionTypeOK'
    BY DEF OrderInv, OrderTypeOK, FlowTypeOK, SubmissionTypeOK, ReviewInv, RequestInv
<1>3. RestingInv'
    <2> SUFFICES ASSUME submission.effect = "resting"
                 PROVE  RestingInv'
        BY DEF RestingInv
    <2>1. flow.review.binding \in Bindings
        BY Sent DEF Inputs
    <2>2. flow.review.binding.target \in Addresses
        BY <2>1, TargetKnown DEF OrderInv, OrderTypeOK
    <2>3. QED
        BY <2>2 DEF OrderInv, RestingInv
<1>4. QED
    BY <1>1, <1>2, <1>3 DEF OrderInv, OrderTypeOK

(* One field of one account.                                                *)
LEMMA AccountChanges ==
    ASSUME accounts \in [Addresses -> AccountRecords], NEW a \in Addresses,
           \/ \E p \in Int : accounts' = [accounts EXCEPT ![a].position = p]
           \/ \E n \in Leverages : accounts' = [accounts EXCEPT ![a].leverage = n]
           \/ \E o \in accounts[a].orders :
                 accounts' = [accounts EXCEPT ![a].orders = @ \ {o}]
    PROVE  /\ accounts' \in [Addresses -> AccountRecords]
           /\ \A b \in Addresses : accounts'[b].orders \subseteq accounts[b].orders
<1>1. CASE \E p \in Int : accounts' = [accounts EXCEPT ![a].position = p]
    BY <1>1 DEF AccountRecords
<1>2. CASE \E n \in Leverages : accounts' = [accounts EXCEPT ![a].leverage = n]
    BY <1>2 DEF AccountRecords
<1>3. CASE \E o \in accounts[a].orders :
               accounts' = [accounts EXCEPT ![a].orders = @ \ {o}]
    <2>1. PICK o \in accounts[a].orders :
              accounts' = [accounts EXCEPT ![a].orders = accounts[a].orders \ {o}]
        BY <1>3
    <2> DEFINE rest == accounts[a].orders \ {o}
    <2>2. rest \in SUBSET OrderRecords /\ rest \subseteq accounts[a].orders
        BY DEF AccountRecords
    <2> HIDE DEF rest
    <2>3. accounts' = [accounts EXCEPT ![a].orders = rest]
        BY <2>1 DEF rest
    <2>4. accounts' \in [Addresses -> AccountRecords]
        BY <2>2, <2>3, OrdersChange
    <2>5. \A b \in Addresses \ {a} : accounts'[b] = accounts[b]
        BY <2>2, <2>3, OrdersChange
    <2>6. accounts'[a].orders = rest
        BY <2>2, <2>3, OrdersChange
    <2>7. QED
        BY <2>2, <2>4, <2>5, <2>6
<1>4. QED
    BY <1>1, <1>2, <1>3

LEMMA WorldKeeps ==
    ASSUME OrderInv,
           \/ PriceMoves \/ ListingChanges \/ AccountMoves \/ ContextMoves \/ ClockTicks
    PROVE  OrderInv'
<1>1. WorldTypeOK /\ clock + 1 \in Nat /\ worldSteps + 1 \in Nat
    BY DEF OrderInv, OrderTypeOK, WorldTypeOK
<1>2. CASE PriceMoves
    BY <1>1, <1>2, WorldStep DEF PriceMoves, WorldMoves, WorldTypeOK
<1>3. CASE ListingChanges
    BY <1>1, <1>3, WorldStep DEF ListingChanges, WorldMoves, WorldTypeOK
<1>4. CASE AccountMoves
    <2>1. PICK a \in Addresses :
              \/ \E p \in Positions \ {accounts[a].position} :
                    accounts' = [accounts EXCEPT ![a].position = p]
              \/ \E n \in Leverages \ {accounts[a].leverage} :
                    accounts' = [accounts EXCEPT ![a].leverage = n]
              \/ \E o \in accounts[a].orders :
                    accounts' = [accounts EXCEPT ![a].orders = @ \ {o}]
        BY <1>4 DEF AccountMoves
    <2>2. \/ \E p \in Int : accounts' = [accounts EXCEPT ![a].position = p]
          \/ \E n \in Leverages : accounts' = [accounts EXCEPT ![a].leverage = n]
          \/ \E o \in accounts[a].orders :
                accounts' = [accounts EXCEPT ![a].orders = @ \ {o}]
        BY <2>1, OrderAssumption
    <2>3. accounts \in [Addresses -> AccountRecords]
        BY <1>1 DEF WorldTypeOK
    <2>4. /\ accounts' \in [Addresses -> AccountRecords]
          /\ \A b \in Addresses : accounts'[b].orders \subseteq accounts[b].orders
        BY <2>2, <2>3, AccountChanges
    <2>5. WorldTypeOK'
        BY <1>1, <1>4, <2>4 DEF AccountMoves, WorldMoves, WorldTypeOK
    <2>6. QED
        BY <1>4, <2>4, <2>5, WorldStep DEF AccountMoves, WorldMoves
<1>5. CASE ContextMoves
    <2>1. tradeContext' \in [binding : Bindings, epoch : Nat]
        BY <1>1, <1>5 DEF ContextMoves, WorldTypeOK
    <2>2. WorldTypeOK'
        BY <1>1, <1>5, <2>1 DEF ContextMoves, WorldMoves, WorldTypeOK
    <2>3. QED
        BY <1>5, <2>2, WorldStep DEF ContextMoves, WorldMoves
<1>6. CASE ClockTicks
    BY <1>1, <1>6, WorldStep DEF ClockTicks, WorldTypeOK
<1>7. QED
    BY <1>2, <1>3, <1>4, <1>5, <1>6

LEMMA StutterKeeps ==
    ASSUME OrderInv, UNCHANGED orderVars
    PROVE  OrderInv'
BY DEF OrderInv, OrderTypeOK, WorldTypeOK, FlowTypeOK, SubmissionTypeOK, FiniteInv, ReviewInv,
       RequestInv, RestingInv, orderVars

LEMMA NextKeeps ==
    ASSUME OrderInv, [OrderNext]_orderVars
    PROVE  OrderInv'
<1>1. CASE \E d \in Drafts : Review(d)
    BY <1>1, ReviewKeeps
<1>2. CASE RefreshCatalog \/ RefreshPosition \/ RefreshLeverage \/ RefreshOrders
    BY <1>2, RefreshCatalogKeeps, RefreshPositionKeeps, RefreshLeverageKeeps, RefreshOrdersKeeps
<1>3. CASE FinishRefresh \/ Unlock \/ SignAndSubmit \/ FailBeforeSending
    BY <1>3, FinishRefreshKeeps, UnlockKeeps, SignAndSubmitKeeps, FailBeforeSendingKeeps
<1>4. CASE \/ ExchangeFills \/ ExchangeRests \/ ExchangeProtects \/ ExchangeCancels
           \/ ExchangeRejects \/ OwnOrderFills
    BY <1>4, ExchangeKeeps
<1>5. CASE ExchangeAnswers \/ SubmitUncertain
    BY <1>5, ConcludesKeeps DEF ExchangeAnswers, SubmitUncertain
<1>6. CASE PriceMoves \/ ListingChanges \/ AccountMoves \/ ContextMoves \/ ClockTicks
    BY <1>6, WorldKeeps
<1>7. CASE UNCHANGED orderVars
    BY <1>7, StutterKeeps
<1>8. QED
    BY <1>1, <1>2, <1>3, <1>4, <1>5, <1>6, <1>7 DEF OrderNext

(* Listing, accounts, flow and request keep their types.                     *)
THEOREM TypeCorrect == OrderSpec => []OrderTypeOK
<1>1. OrderInit => OrderInv
    BY InitInv
<1>2. OrderInv /\ [OrderNext]_orderVars => OrderInv'
    BY NextKeeps
<1>3. OrderInv => OrderTypeOK
    BY DEF OrderInv
<1>4. QED
    BY <1>1, <1>2, <1>3, PTL DEF OrderSpec

-----------------------------------------------------------------------------
(* What the exchange does is what was reviewed.                              *)

StepAsReviewed ==
    /\ submission'.effect # submission.effect =>
          DoesAsReviewed(flow.review, flow.input, submission'.effect, accounts, accounts')
    /\ submission'.sent /\ ~submission.sent =>
          tradeContext.binding = flow.review.binding /\ tradeContext.epoch = flow.review.epoch
    /\ submission'.outcome # submission.outcome =>
          OutcomeMatches(submission'.outcome, submission.effect)

(* A step that neither acts, sends nor answers.                              *)
LEMMA QuietStep ==
    ASSUME submission'.effect = submission.effect, submission'.sent => submission.sent,
           submission'.outcome \in {"none", submission.outcome}
    PROVE  StepAsReviewed
BY DEF StepAsReviewed, OutcomeMatches

LEMMA ActsAsReviewed ==
    ASSUME OrderInv,
           DoesAsReviewed(flow.review, flow.input, submission'.effect, accounts, accounts'),
           submission.sent \/ submission.effect # "none",
           submission'.outcome = submission.outcome
    PROVE  StepAsReviewed
<1>1. submission.sent
    BY Sent
<1>2. QED
    BY <1>1 DEF StepAsReviewed

LEMMA BecomesKeepsOutcome ==
    ASSUME OrderInv, submission.sent \/ submission.effect # "none",
           \/ \E effect : Becomes(effect)
           \/ \E kind : Rests(kind)
    PROVE  submission'.outcome = submission.outcome
<1>1. submission \in Submissions
    BY Sent
<1>2. QED
    BY <1>1 DEF Becomes, Rests, Submissions

(* What the user is told of an answer is what the exchange did.               *)
LEMMA AnswersAreTrue ==
    ASSUME submission.effect # "none", NEW answer \in Answers
    PROVE  OutcomeMatches(Classify(answer), submission.effect)
<1>1. CASE submission.effect \in {"expired", "rejected"}
    <2>1. /\ answer.type \in {"err", "cancel", "order"} /\ answer.error = submission.effect
        BY <1>1 DEF Answers
    <2>2. answer.error # "none"
        BY <1>1, <2>1
    <2>3. Classify(answer) = ClassifyError(answer.error)
        BY <2>1, <2>2 DEF Classify
    <2>4. QED
        BY <1>1, <2>1, <2>3 DEF ClassifyError, OutcomeMatches
<1>2. CASE submission.effect \notin {"expired", "rejected"}
    <2>1. answer.type \in {"order", "default", "cancel"} /\ answer.error = "none"
        BY <1>2 DEF Answers
    <2>2. Classify(answer) = "accepted"
        BY <2>1 DEF Classify
    <2>3. QED
        BY <1>2, <2>2 DEF OutcomeMatches
<1>3. QED
    BY <1>1, <1>2

LEMMA ConcludesTruly ==
    ASSUME OrderInv, ExchangeAnswers \/ SubmitUncertain
    PROVE  StepAsReviewed
<1>1. flow.pc = "submitting" /\ flow.pc \in After
    BY DEF ExchangeAnswers, SubmitUncertain, After
<1>2. submission \in Submissions
    BY <1>1, LateSubmission
<1>3. PICK answer :
          /\ Concludes(answer)
          /\ \/ answer \in Answers /\ submission.effect # "none"
             \/ answer = Unreadable
    BY DEF ExchangeAnswers, SubmitUncertain
<1>4. OutcomeMatches(Classify(answer), submission.effect)
    <2>1. CASE answer \in Answers /\ submission.effect # "none"
        BY <2>1, AnswersAreTrue
    <2>2. CASE answer = Unreadable
        BY <2>2 DEF Unreadable, Classify, OutcomeMatches
    <2>3. QED
        BY <1>3, <2>1, <2>2
<1> DEFINE outcome == Classify(answer)
<1> HIDE DEF outcome
<1>5. submission' = [submission EXCEPT !.outcome = outcome]
    BY <1>3 DEF Concludes, outcome
<1>6. /\ submission'.outcome = outcome /\ submission'.effect = submission.effect
      /\ submission'.sent = submission.sent
    BY <1>2, <1>5 DEF Submissions
<1>7. QED
    BY <1>4, <1>6 DEF StepAsReviewed, outcome

LEMMA ExchangeActsTruly ==
    ASSUME OrderInv,
           \/ ExchangeFills \/ ExchangeRests \/ ExchangeProtects \/ ExchangeCancels
           \/ ExchangeRejects \/ OwnOrderFills
    PROVE  StepAsReviewed
<1>1. DoesAsReviewed(flow.review, flow.input, submission'.effect, accounts, accounts')
    BY FillsEffect, ExchangeRestsEffect, ExchangeProtectsEffect, CancelsEffect, RejectsEffect,
       OwnOrderFillsEffect
<1>2. submission.sent \/ submission.effect # "none"
    BY DEF ExchangeFills, ExchangeRests, ExchangeProtects, ExchangeCancels, ExchangeRejects,
           OwnOrderFills, Open
<1>3. (\E effect : Becomes(effect)) \/ (\E kind : Rests(kind))
    BY DEF ExchangeFills, ExchangeRests, ExchangeProtects, ExchangeCancels, ExchangeRejects,
           OwnOrderFills
<1>4. submission'.outcome = submission.outcome
    BY <1>2, <1>3, BecomesKeepsOutcome
<1>5. QED
    BY <1>1, <1>2, <1>4, ActsAsReviewed

LEMMA NextAsReviewed ==
    ASSUME OrderInv, [OrderNext]_orderVars
    PROVE  StepAsReviewed
<1>1. CASE submission' = submission
    BY <1>1, QuietStep
<1>2. CASE Unlock
    <2>1. flow.pc \in Before
        BY <1>2 DEF Unlock, Before
    <2>2. submission = NoSubmission
        BY <2>1 DEF OrderInv, RequestInv
    <2>3. QED
        BY <1>2, <2>2, QuietStep DEF Unlock, Reserved, NoSubmission
<1>3. CASE SignAndSubmit
    <2>1. flow.pc \in After
        BY <1>3 DEF SignAndSubmit, After
    <2>2. submission \in Submissions
        BY <2>1, LateSubmission
    <2>3. /\ submission'.effect = submission.effect /\ submission'.outcome = submission.outcome
        BY <1>3, <2>2 DEF SignAndSubmit, Submissions
    <2>4. tradeContext.binding = flow.review.binding /\ tradeContext.epoch = flow.review.epoch
        BY <1>3 DEF SignAndSubmit, Current
    <2>5. QED
        BY <2>3, <2>4 DEF StepAsReviewed
<1>4. CASE FailBeforeSending
    <2>1. submission.effect = "none"
        <3>1. CASE flow.pc = "signing"
            BY <3>1 DEF OrderInv, RequestInv
        <3>2. CASE flow.pc # "signing"
            BY <1>4, <3>2 DEF FailBeforeSending, OrderInv, RequestInv, Before, NoSubmission
        <3>3. QED
            BY <3>1, <3>2
    <2>2. QED
        BY <1>4, <2>1, QuietStep DEF FailBeforeSending, NoSubmission
<1>5. CASE ExchangeAnswers \/ SubmitUncertain
    BY <1>5, ConcludesTruly
<1>6. CASE \/ ExchangeFills \/ ExchangeRests \/ ExchangeProtects \/ ExchangeCancels
           \/ ExchangeRejects \/ OwnOrderFills
    BY <1>6, ExchangeActsTruly
<1>7. QED
    BY <1>1, <1>2, <1>3, <1>4, <1>5, <1>6
       DEF OrderNext, orderVars, Review, RefreshCatalog, RefreshPosition, RefreshLeverage,
           RefreshOrders, Answered, FinishRefresh, PriceMoves, ListingChanges, AccountMoves,
           ContextMoves, ClockTicks, WorldMoves

(* Whatever moves between review and submission, the exchange does to the     *)
(* reviewed account what the review said, and to no other; the request leaves *)
(* under the reviewed selection; and the user is told what happened.          *)
THEOREM ActsOnlyAsReviewed == OrderSpec => ActionAsReviewed
<1>1. OrderInit => OrderInv
    BY InitInv
<1>2. OrderInv /\ [OrderNext]_orderVars => OrderInv'
    BY NextKeeps
<1>3. OrderInv /\ [OrderNext]_orderVars => StepAsReviewed
    BY NextAsReviewed
<1>4. OrderSpec => [][StepAsReviewed]_orderVars
    BY <1>1, <1>2, <1>3, PTL DEF OrderSpec
<1>5. QED
    BY <1>4, PTL DEF ActionAsReviewed, StepAsReviewed

=============================================================================
