-------------------------- MODULE OrderConfirmation --------------------------
(***************************************************************************)
(* What a confirmed action does.  A screen turns a draft into a typed       *)
(* intent and a validated, frozen review; the confirmation refreshes market, *)
(* account and orders in separate requests, validates again, compares with   *)
(* the review, asks for the device's authentication, reserves a nonce, builds *)
(* and encodes the wire action, signs it and submits it once; the answer is   *)
(* classified.  Prices, the account and the context move between any two of   *)
(* these steps.  The phases' durability and the journal are ActionFlow's and  *)
(* ActionJournal's; here is what travels through them.                        *)
(*                                                                         *)
(* Decimal strings are integers in units of 10^-Decimals: the code           *)
(* normalises every decimal before it compares, multiplies or writes one, so *)
(* equal strings are equal integers.  The exchange is external.              *)
(***************************************************************************)
EXTENDS Integers, FiniteSets

CONSTANTS
    Listings,            \* what the catalogue may say of the market
    References,          \* mid or mark prices
    Positions,           \* signed position sizes
    Leverages, Margins,
    Bindings,            \* [master, target]: accounts and their registered agent
    Drafts,              \* what the user may fill in
    Orders,              \* orders that may be open at first
    Decimals, PerpDecimals, SpotDecimals, SignificantFigures,
    MinimumNotional, MaxSlippage, BasisPoints, MaxLeverageWire,
    ReviewWindow, RequestExpiry,
    MaxWorldSteps, MaxClock

Sides == {"buy", "sell"}
NoOid == 0
Kinds == {"take_profit", "stop_loss"}
Tifs == {"Alo", "Ioc", "Gtc"}
Modes == {"cross", "isolated", "none"}

(* A market of the catalogue, what the user may fill in, and an open order.   *)
ListingRecords ==
    [listed : BOOLEAN, asset : Nat, family : {"perp", "spot", "outcome"}, native : BOOLEAN,
     trading : BOOLEAN, sizeDecimals : Nat, places : 0..Decimals, maxLeverage : Nat,
     onlyIsolated : BOOLEAN]

DraftRecords ==
    [form : {"market", "limit", "close", "limit_close", "protect", "cancel", "leverage"},
     side : Sides, size : Nat, price : Nat, bps : Int, tif : Tifs, reduceOnly : BOOLEAN,
     kind : Kinds, oid : Nat, leverage : Nat]

OrderRecords ==
    [oid : Nat \ {NoOid}, kind : Kinds \cup {"limit"}, buy : BOOLEAN, size : Nat, price : Int,
     reduceOnly : BOOLEAN, trigger : Int]

(* That a power of ten is positive is arithmetic the provers lack.            *)
ASSUME OrderAssumption ==
    /\ Decimals \in Nat /\ \A n \in 0..Decimals : 10 ^ n \in Nat \ {0}
    /\ SignificantFigures \in Nat
    /\ BasisPoints \in Nat \ {0} /\ MaxSlippage \in 0..BasisPoints
    /\ ReviewWindow \in Nat \ {0} /\ RequestExpiry \in Nat \ {0}
    /\ References \subseteq Nat \ {0} /\ Positions \subseteq Int /\ Leverages \subseteq Nat
    /\ Listings \subseteq ListingRecords /\ Drafts \subseteq DraftRecords
    /\ Orders \subseteq OrderRecords /\ IsFiniteSet(Orders)
    /\ \A b \in Bindings : b.target # "none"

VARIABLES
    listing, reference,  \* the market
    accounts,            \* by address: position, leverage, margin mode, open orders
    tradeContext,        \* the selected binding and the epoch of the selection
    clock,
    flow,                \* the confirmation under way
    submission,          \* the request sent, what the exchange did, what the client made of it
    worldSteps

orderVars == <<listing, reference, accounts, tradeContext, clock, flow, submission, worldSteps>>

Unit == 10 ^ Decimals
Addresses == {b.master : b \in Bindings} \cup {b.target : b \in Bindings}
NoTrigger == [price |-> 0, direction |-> "none"]
NoSlippage == -1

Magnitude(n) == IF n < 0 THEN -n ELSE n
Smaller(a, b) == IF a < b THEN a ELSE b

-----------------------------------------------------------------------------
(* Prices and sizes.                                                        *)

TickSize(places) == 10 ^ (Decimals - places)

(* The most decimal places a price of the market may have.                  *)
PricePlaces(family, sizeDecimals) ==
    (IF family = "perp" THEN PerpDecimals ELSE SpotDecimals) - sizeDecimals

NormalSize(size, l) == size > 0 /\ size % TickSize(l.sizeDecimals) = 0

(* Whole numbers may have any length; a fraction counts against the figures. *)
NormalPrice(price, l) ==
    /\ price > 0 /\ price % TickSize(l.places) = 0
    /\ \/ price % Unit = 0
       \/ \E zeros \in 0..Decimals :
             price % (10 ^ zeros) = 0 /\ price < 10 ^ (SignificantFigures + zeros)

Factor(side, bps) == IF side = "buy" THEN BasisPoints + bps ELSE BasisPoints - bps

(* The bound is the user's slippage off the reference.                      *)
WithinSlippage(side, price, against, bps) ==
    /\ bps \in 0..MaxSlippage
    /\ IF side = "buy" THEN price * BasisPoints <= against * Factor(side, bps)
                       ELSE price * BasisPoints >= against * Factor(side, bps)

(* The limit that stands for a market order: the slippage bound, rounded to   *)
(* the reference's precision on the safe side.                              *)
WholeDigits(price) == 1 + Cardinality({n \in 1..8 : price >= Unit * 10 ^ n})

AggressivePrice(against, side, bps, places) ==
    LET room == SignificantFigures - WholeDigits(against)
        scale == IF room < 0 THEN 0 ELSE Smaller(places, room)
        bound == against * Factor(side, bps)
        step == BasisPoints * TickSize(scale)
    IN  (IF side = "buy" THEN bound \div step ELSE -((-bound) \div step)) * TickSize(scale)

-----------------------------------------------------------------------------
(* Drafts become intents.                                                   *)

Blank(type, l) ==
    [type |-> type, asset |-> l.asset, side |-> "buy", size |-> 0, price |-> 0,
     tif |-> "Ioc", reduceOnly |-> FALSE, trigger |-> 0, kind |-> "take_profit",
     oid |-> NoOid, leverage |-> 0, mode |-> "cross"]

TradeIntent(d, l, against) ==
    IF d.form = "limit"
    THEN [Blank("limit_order", l) EXCEPT
             !.side = d.side, !.size = d.size, !.price = d.price, !.tif = d.tif,
             !.reduceOnly = l.family = "perp" /\ d.reduceOnly]
    ELSE [Blank("market_order", l) EXCEPT
             !.side = d.side, !.size = d.size,
             !.price = AggressivePrice(against, d.side, d.bps, l.places)]

ClosingSide(position) == IF position > 0 THEN "sell" ELSE "buy"

CloseIntent(d, l, against, position) ==
    IF d.form = "close"
    THEN [Blank("reduce_only_close", l) EXCEPT
             !.side = ClosingSide(position), !.size = Magnitude(position),
             !.price = AggressivePrice(against, ClosingSide(position), d.bps, l.places)]
    ELSE [Blank("limit_order", l) EXCEPT
             !.side = ClosingSide(position), !.size = d.size, !.price = d.price,
             !.tif = d.tif, !.reduceOnly = TRUE]

ProtectionIntent(d, l, position) ==
    [Blank("position_tpsl", l) EXCEPT
        !.side = ClosingSide(position), !.size = Magnitude(position),
        !.trigger = d.price, !.kind = d.kind, !.oid = d.oid,
        !.price = AggressivePrice(d.price, ClosingSide(position), MaxSlippage, l.places)]

CancelIntent(d, l) == [Blank("cancel", l) EXCEPT !.oid = d.oid]

LeverageIntent(d, l, mode) ==
    [Blank("update_leverage", l) EXCEPT !.leverage = d.leverage, !.mode = mode]

IntentOf(d, l, against, a) ==
    CASE d.form \in {"market", "limit"} -> TradeIntent(d, l, against)
      [] d.form \in {"close", "limit_close"} -> CloseIntent(d, l, against, a.position)
      [] d.form = "protect" -> ProtectionIntent(d, l, a.position)
      [] d.form = "cancel" -> CancelIntent(d, l)
      [] d.form = "leverage" -> LeverageIntent(d, l, a.mode)

LeverageDraftable(d, l, a) ==
    /\ l.family = "perp" /\ d.leverage # a.leverage
    /\ d.leverage \in 1..Smaller(l.maxLeverage, MaxLeverageWire)

(* What the builders ask before they make an intent.                        *)
Draftable(d, l, a) ==
    /\ d.form \in {"close", "limit_close", "protect"} =>
          /\ l.family = "perp" /\ l.native /\ l.trading /\ a.position # 0
    /\ d.form = "limit_close" => d.size <= Magnitude(a.position)
    /\ d.form = "protect" =>
          IF d.oid = NoOid THEN \A o \in a.orders : o.kind # d.kind
                           ELSE \E o \in a.orders : o.oid = d.oid /\ o.kind = d.kind
    /\ d.form = "cancel" => \E o \in a.orders : o.oid = d.oid
    /\ d.form = "leverage" => LeverageDraftable(d, l, a)

(* The side of the reference on which a protective order triggers.           *)
Direction(side, kind) ==
    IF (side = "sell") = (kind = "take_profit") THEN "above" ELSE "below"

TriggerOf(intent) ==
    IF intent.type = "position_tpsl"
    THEN [price |-> intent.trigger, direction |-> Direction(intent.side, intent.kind)]
    ELSE NoTrigger

SlippageOf(d) ==
    CASE d.form \in {"market", "close"} -> d.bps
      [] d.form = "protect" -> MaxSlippage
      [] OTHER -> NoSlippage

-----------------------------------------------------------------------------
(* Validation: `in' is a TradingActionValidationInput, the context reviewed,  *)
(* the context now, the market, the account's evidence, controls and intent.  *)

ContextValid(in) ==
    /\ in.currentBinding = in.binding /\ in.currentEpoch = in.epoch
    /\ in.reviewedAt < in.expires /\ in.now < in.expires

MarketValid(in) ==
    /\ in.listing.trading /\ in.listing.family \in {"perp", "spot"}
    /\ in.listing.asset = in.intent.asset
    /\ in.listing.places \in 0..PricePlaces(in.listing.family, in.listing.sizeDecimals)

(* A reducing order is on the closing side of a position at least its size;   *)
(* a close is exactly its size.                                             *)
ReducesOnly(in, side, size, full) ==
    /\ in.listing.family = "perp" /\ in.position # 0
    /\ side = ClosingSide(in.position)
    /\ size <= Magnitude(in.position) /\ (full => size = Magnitude(in.position))

Affordable(in, notional, reducing) ==
    \/ reducing
    \/ LET leverage == IF in.listing.family = "spot" THEN 1 ELSE in.leverage
           most == IF in.listing.family = "spot" THEN 1 ELSE in.listing.maxLeverage
       IN  /\ in.minimum => notional >= MinimumNotional * Unit * Unit
           /\ leverage \in 1..most
           /\ in.listing.onlyIsolated => in.mode = "isolated"
           /\ notional <= in.margin * leverage * Unit

OrderTypes == {"market_order", "limit_order", "reduce_only_close"}

Reducing(intent) ==
    \/ intent.type \in {"reduce_only_close", "position_tpsl"}
    \/ intent.type = "limit_order" /\ intent.reduceOnly

OrderValid(in) ==
    LET i == in.intent IN
    /\ in.trigger = NoTrigger
    /\ NormalSize(i.size, in.listing) /\ NormalPrice(i.price, in.listing)
    /\ IF i.type = "limit_order" THEN in.bps = NoSlippage
                                 ELSE WithinSlippage(i.side, i.price, in.reference, in.bps)
    /\ Reducing(i) => ReducesOnly(in, i.side, i.size, i.type = "reduce_only_close")
    /\ Affordable(in, i.size * i.price, Reducing(i))

ProtectionValid(in) ==
    LET i == in.intent IN
    /\ in.listing.family = "perp"
    /\ NormalSize(i.size, in.listing)
    /\ NormalPrice(i.trigger, in.listing) /\ NormalPrice(i.price, in.listing)
    /\ ReducesOnly(in, i.side, i.size, TRUE)
    /\ in.trigger = TriggerOf(i)
    /\ IF in.trigger.direction = "above" THEN i.trigger > in.reference
                                         ELSE i.trigger < in.reference
    /\ WithinSlippage(i.side, i.price, i.trigger, in.bps)
    /\ i.oid # NoOid => i.oid \in in.orders

CancelValid(in) ==
    in.bps = NoSlippage /\ in.trigger = NoTrigger /\ in.intent.oid \in in.orders

LeverageValid(in) ==
    /\ in.listing.family = "perp" /\ in.bps = NoSlippage /\ in.trigger = NoTrigger
    /\ in.intent.leverage \in 1..Smaller(in.listing.maxLeverage, MaxLeverageWire)
    /\ in.listing.onlyIsolated => in.intent.mode = "isolated"

Valid(in) ==
    /\ ContextValid(in) /\ MarketValid(in)
    /\ CASE in.intent.type \in OrderTypes -> OrderValid(in)
         [] in.intent.type = "position_tpsl" -> ProtectionValid(in)
         [] in.intent.type = "cancel" -> CancelValid(in)
         [] in.intent.type = "update_leverage" -> LeverageValid(in)

-----------------------------------------------------------------------------
(* The wire.                                                                *)

NoWire == [type |-> "none", grouping |-> "na", asset |-> 0, buy |-> FALSE, price |-> 0,
           size |-> 0, reduceOnly |-> FALSE, tif |-> "Ioc", trigger |-> 0,
           kind |-> "take_profit", oid |-> NoOid, leverage |-> 0, isCross |-> FALSE]

OrderWire(i) ==
    [NoWire EXCEPT !.type = "order", !.asset = i.asset, !.buy = i.side = "buy",
                   !.price = i.price, !.size = i.size,
                   !.reduceOnly = Reducing(i), !.tif = i.tif]

(* Size zero makes the trigger follow the whole position.                   *)
ProtectionSize(i) == 0

ProtectionWire(i) ==
    [OrderWire(i) EXCEPT !.type = IF i.oid = NoOid THEN "order" ELSE "modify",
                         !.grouping = "positionTpsl", !.size = ProtectionSize(i),
                         !.trigger = i.trigger, !.kind = i.kind, !.oid = i.oid]

CancelWire(i) == [NoWire EXCEPT !.type = "cancel", !.asset = i.asset, !.oid = i.oid]

LeverageWire(i) ==
    [NoWire EXCEPT !.type = "updateLeverage", !.asset = i.asset, !.leverage = i.leverage,
                   !.isCross = i.mode = "cross"]

BuildExchangeAction(i) ==
    CASE i.type \in OrderTypes -> OrderWire(i)
      [] i.type = "position_tpsl" -> ProtectionWire(i)
      [] i.type = "cancel" -> CancelWire(i)
      [] i.type = "update_leverage" -> LeverageWire(i)

(* The codec refuses any other shape.                                       *)
EncodableOrder(w) ==
    /\ w.price > 0 /\ (w.grouping = "na" <=> w.size > 0)
    /\ w.grouping = "positionTpsl" => w.reduceOnly /\ w.trigger > 0

Encodable(w) ==
    CASE w.type = "order" -> EncodableOrder(w)
      [] w.type = "modify" -> EncodableOrder(w) /\ w.oid > 0
      [] w.type = "cancel" -> w.oid >= 0
      [] w.type = "updateLeverage" -> w.leverage \in 1..MaxLeverageWire

\* Faulty variant: the request never names the vault.
VaultAddressOmitted(b) == "none"

(* A sub-account or vault is named in the request, the master is not.         *)
VaultAddress(b) == IF b.master = b.target THEN "none" ELSE b.target

(* What the signature covers.                                               *)
Preimage(action, nonce, vault, expires) ==
    [action |-> action, nonce |-> nonce, vault |-> vault, expires |-> expires]

(* The classification of an answer; any other shape or number of statuses    *)
(* than those documented is unresolved.                                     *)
ClassifyError(error) == IF error = "expired" THEN "expired" ELSE "rejected"

Classify(answer) ==
    CASE answer.type = "err" -> ClassifyError(answer.error)
      [] answer.type = "default" -> "accepted"
      [] answer.type \in {"order", "cancel"} ->
            IF answer.error = "none" THEN "accepted" ELSE ClassifyError(answer.error)
      [] OTHER -> "unresolved"

-----------------------------------------------------------------------------
(* The review.                                                              *)

LeverageOf(l, a) == IF l.family = "spot" THEN 1 ELSE a.leverage
ModeOf(l, a) == IF l.family = "spot" THEN "none" ELSE a.mode
OpenOids(a) == {o.oid : o \in a.orders}

Selected == accounts[tradeContext.binding.target]

OrdersShown(d) ==
    CASE d.form = "cancel" -> OpenOids(Selected)
      [] d.form = "protect" -> {d.oid} \ {NoOid}
      [] OTHER -> {}

(* What a screen hands to createActionReview.  The portfolio's market rules   *)
(* carry no minimum.                                                        *)
ReviewInput(d, margin) ==
    LET intent == IntentOf(d, listing, reference, Selected) IN
    [binding |-> tradeContext.binding, currentBinding |-> tradeContext.binding,
     epoch |-> tradeContext.epoch, currentEpoch |-> tradeContext.epoch,
     reviewedAt |-> clock, expires |-> clock + ReviewWindow, now |-> clock,
     listing |-> listing, reference |-> reference,
     minimum |-> d.form \in {"market", "limit", "leverage"},
     leverage |-> LeverageOf(listing, Selected), mode |-> ModeOf(listing, Selected),
     position |-> Selected.position, margin |-> margin, orders |-> OrdersShown(d),
     version |-> 0, bps |-> SlippageOf(d), trigger |-> TriggerOf(intent), intent |-> intent]

Confirming(input) == [pc |-> "refreshing", review |-> input, input |-> input, read |-> {},
                      positionLeverage |-> 0]

(* A screen builds the review and the confirmation begins.                   *)
Review(d) ==
    /\ flow.pc = "idle" /\ listing.listed
    /\ Draftable(d, listing, Selected)
    /\ \E margin \in Margins :
          /\ Valid(ReviewInput(d, margin))
          /\ flow' = Confirming(ReviewInput(d, margin))
    /\ UNCHANGED <<listing, reference, accounts, tradeContext, clock, submission, worldSteps>>

Current(review) ==
    tradeContext.epoch = review.epoch /\ tradeContext.binding = review.binding

-----------------------------------------------------------------------------
(* The refresh: the catalogue, then the account's requests side by side.      *)

(* Only spot, native and - to cancel - complete catalogues are asked for.     *)
InScope(intent, l) == l.family = "spot" \/ l.native \/ intent.type = "cancel"

Submitted(intent) == intent.type \in OrderTypes \cup {"position_tpsl", "cancel"}

Reads(input) ==
    CASE input.intent.type = "cancel" -> {"orders"}
      [] input.intent.type = "position_tpsl" /\ input.intent.oid # NoOid ->
            {"position", "leverage", "orders"}
      [] OTHER -> {"position", "leverage"}

Answered(what, input, positionLeverage) ==
    /\ flow' = [flow EXCEPT !.read = @ \cup {what}, !.input = input,
                            !.positionLeverage = positionLeverage]
    /\ UNCHANGED <<listing, reference, accounts, tradeContext, clock, submission, worldSteps>>

RefreshCatalog ==
    /\ flow.pc = "refreshing" /\ "catalog" \notin flow.read
    /\ Submitted(flow.review.intent)
    /\ listing.listed /\ InScope(flow.review.intent, listing)
    /\ Answered("catalog", [flow.input EXCEPT !.listing = listing, !.reference = reference,
                                          !.minimum = TRUE], 0)

Reading(what) ==
    /\ flow.pc = "refreshing" /\ "catalog" \in flow.read
    /\ what \in Reads(flow.input) \ flow.read

RefreshedAccount == accounts[flow.review.binding.target]

RefreshPosition ==
    /\ Reading("position")
    /\ Answered("position", [flow.input EXCEPT !.position = RefreshedAccount.position],
            LeverageOf(flow.input.listing, RefreshedAccount))

RefreshLeverage ==
    /\ Reading("leverage")
    /\ \E margin \in Margins :
          Answered("leverage",
               [flow.input EXCEPT !.leverage = LeverageOf(flow.input.listing, RefreshedAccount),
                                  !.mode = ModeOf(flow.input.listing, RefreshedAccount),
                                  !.margin = margin],
               flow.positionLeverage)

(* The order to cancel by its number; the protective order by number, side    *)
(* and kind.                                                                *)
OrderEvidence(intent, o) ==
    /\ o.oid = intent.oid
    /\ intent.type = "position_tpsl" =>
          o.kind = intent.kind /\ o.buy = (intent.side = "buy") /\ o.reduceOnly

RefreshOrders ==
    /\ Reading("orders")
    /\ \E o \in RefreshedAccount.orders : OrderEvidence(flow.review.intent, o)
    /\ Answered("orders", [flow.input EXCEPT !.orders = {flow.review.intent.oid}],
            flow.positionLeverage)

(* Margin moves by itself and is no part of the account's identity.           *)
SameReviewedAccount(review, input) ==
    /\ review.leverage = input.leverage /\ review.mode = input.mode
    /\ review.position = input.position

RefreshedIntent(intent, input) ==
    IF intent.type \in {"market_order", "reduce_only_close"}
    THEN [intent EXCEPT !.price =
             AggressivePrice(input.reference, intent.side, input.bps, input.listing.places)]
    ELSE intent

(* What refreshReviewedOrder returns.                                       *)
RefreshedInput ==
    [flow.input EXCEPT
        !.currentBinding = tradeContext.binding, !.currentEpoch = tradeContext.epoch,
        !.now = clock, !.intent = RefreshedIntent(flow.review.intent, flow.input),
        !.version = IF flow.review.intent.type = "cancel"
                       \/ SameReviewedAccount(flow.review, flow.input)
                    THEN flow.review.version ELSE flow.review.version + 1]

(* The listing stands for its fingerprint, which has all its fields.          *)
StillReviewed(review, input) ==
    /\ input.binding = input.currentBinding /\ input.epoch = review.epoch
    /\ input.listing = review.listing /\ input.version = review.version
    /\ input.bps = review.bps /\ input.trigger = review.trigger
    /\ RefreshedIntent(review.intent, input) = input.intent

FinishRefresh ==
    /\ flow.pc = "refreshing" /\ "catalog" \in flow.read /\ Reads(flow.input) \subseteq flow.read
    /\ "position" \in flow.read /\ flow.input.position # 0 =>
          flow.positionLeverage = flow.input.leverage
    /\ Current(flow.review)
    /\ Valid(RefreshedInput) /\ StillReviewed(flow.review, RefreshedInput)
    /\ flow' = [flow EXCEPT !.pc = "unlocking", !.input = RefreshedInput, !.read = {},
                            !.positionLeverage = 0]
    /\ UNCHANGED <<listing, reference, accounts, tradeContext, clock, submission, worldSteps>>

-----------------------------------------------------------------------------
(* Authentication, reservation, signature and submission.                   *)

Request(binding, intent, nonce, expires) ==
    LET action == BuildExchangeAction(intent)
        vault == VaultAddress(binding)
    IN  [action |-> action, vault |-> vault, nonce |-> nonce, expires |-> expires,
         agentOf |-> binding.master, signed |-> Preimage(action, nonce, vault, expires)]

NoFlow == [pc |-> "idle"]

NoSubmission == [sent |-> FALSE, effect |-> "none", outcome |-> "none"]

Reserved(request) ==
    [request |-> request, sent |-> FALSE, effect |-> "none", oid |-> NoOid, outcome |-> "none"]

(* The device authenticates, the nonce and its expiry are reserved and the    *)
(* action is built and encoded.                                             *)
Unlock ==
    /\ flow.pc = "unlocking" /\ Current(flow.review)
    /\ Encodable(BuildExchangeAction(flow.input.intent))
    /\ flow' = [flow EXCEPT !.pc = "signing"]
    /\ submission' = Reserved(
          Request(flow.review.binding, flow.input.intent, clock, clock + RequestExpiry))
    /\ UNCHANGED <<listing, reference, accounts, tradeContext, clock, worldSteps>>

(* The signature arrives, the marker is written and the request goes out.     *)
SignAndSubmit ==
    /\ flow.pc = "signing" /\ Current(flow.review)
    /\ flow' = [flow EXCEPT !.pc = "submitting"]
    /\ submission' = [submission EXCEPT !.sent = TRUE]
    /\ UNCHANGED <<listing, reference, accounts, tradeContext, clock, worldSteps>>

(* Anything fails before the marker: nothing was sent, the user may review    *)
(* again.                                                                   *)
FailBeforeSending ==
    /\ flow.pc \in {"refreshing", "unlocking", "signing"}
    /\ flow' = NoFlow /\ submission' = NoSubmission
    /\ UNCHANGED <<listing, reference, accounts, tradeContext, clock, worldSteps>>

-----------------------------------------------------------------------------
(* The exchange (external): it acts on the signer's master or the named       *)
(* vault, at most once, not after the expiry, and on exactly what was signed. *)

ActsOn == IF submission.request.vault = "none" THEN submission.request.agentOf
                                             ELSE submission.request.vault

Wire == submission.request.action
Position == accounts[ActsOn].position

Verified ==
    submission.request.signed = Preimage(Wire, submission.request.nonce,
                                       submission.request.vault, submission.request.expires)

Open == submission.sent /\ submission.effect = "none" /\ Verified
        /\ clock <= submission.request.expires

Becomes(effect) ==
    /\ submission' = [submission EXCEPT !.effect = effect]
    /\ UNCHANGED <<listing, reference, tradeContext, clock, flow, worldSteps>>

Marketable(buy, price) == IF buy THEN reference <= price ELSE reference >= price

(* A reduce-only order is cut to the position and refused on its other side.  *)
Fill(buy, size, reduceOnly, position) ==
    LET amount == IF reduceOnly THEN Smaller(size, Magnitude(position)) ELSE size
    IN  IF buy THEN position + amount ELSE position - amount

MayFill(buy, reduceOnly, position) ==
    reduceOnly => IF buy THEN position < 0 ELSE position > 0

ExchangeFills ==
    /\ Open /\ Wire.type = "order" /\ Wire.grouping = "na" /\ Wire.tif # "Alo"
    /\ Marketable(Wire.buy, Wire.price) /\ MayFill(Wire.buy, Wire.reduceOnly, Position)
    /\ accounts' = [accounts EXCEPT ![ActsOn].position =
                       Fill(Wire.buy, Wire.size, Wire.reduceOnly, Position)]
    /\ Becomes("filled")

NewOid == CHOOSE n \in 1..(Cardinality(OpenOids(accounts[ActsOn])) + 1) :
             n \notin OpenOids(accounts[ActsOn])

Rests(kind) ==
    /\ accounts' = [accounts EXCEPT ![ActsOn].orders =
          {o \in @ : o.oid # Wire.oid}
          \cup {[oid |-> NewOid, kind |-> kind, buy |-> Wire.buy, size |-> Wire.size,
                 price |-> Wire.price, reduceOnly |-> Wire.reduceOnly,
                 trigger |-> Wire.trigger]}]
    /\ submission' = [submission EXCEPT !.effect = "resting", !.oid = NewOid]
    /\ UNCHANGED <<listing, reference, tradeContext, clock, flow, worldSteps>>

ExchangeRests ==
    /\ Open /\ Wire.type = "order" /\ Wire.grouping = "na" /\ Wire.tif # "Ioc"
    /\ ~Marketable(Wire.buy, Wire.price) /\ MayFill(Wire.buy, Wire.reduceOnly, Position)
    /\ Rests("limit")

ExchangeProtects ==
    /\ Open /\ Wire.grouping = "positionTpsl"
    /\ MayFill(Wire.buy, TRUE, Position)
    /\ Wire.type = "modify" => Wire.oid \in OpenOids(accounts[ActsOn])
    /\ Rests(Wire.kind)

ExchangeCancels ==
    /\ Open /\ Wire.type = "cancel" /\ Wire.oid \in OpenOids(accounts[ActsOn])
    /\ accounts' = [accounts EXCEPT ![ActsOn].orders = {o \in @ : o.oid # Wire.oid}]
    /\ Becomes("cancelled")

ExchangeRejects ==
    /\ submission.sent /\ submission.effect = "none"
    /\ Becomes(IF clock > submission.request.expires THEN "expired" ELSE "rejected")
    /\ UNCHANGED accounts

Own == {o \in accounts[ActsOn].orders : o.oid = submission.oid}

(* The order it left resting is filled or triggered.                        *)
OwnOrderFills ==
    /\ submission.effect = "resting"
    /\ \E o \in Own :
          /\ IF o.kind = "limit"
             THEN Marketable(o.buy, o.price)
             ELSE IF Direction(IF o.buy THEN "buy" ELSE "sell", o.kind) = "above"
                  THEN reference >= o.trigger ELSE reference <= o.trigger
          /\ MayFill(o.buy, o.reduceOnly, Position)
          /\ accounts' = [accounts EXCEPT
                ![ActsOn].position =
                    Fill(o.buy, IF o.size = 0 THEN Magnitude(@) ELSE o.size, o.reduceOnly, @),
                ![ActsOn].orders = @ \ {o}]
          /\ Becomes(IF o.kind = "limit" THEN "filled" ELSE "fired")

(* The answer it gives.                                                     *)
Answers ==
    CASE submission.effect \in {"expired", "rejected"} ->
            [type : {"err", IF Wire.type = "cancel" THEN "cancel" ELSE "order"},
             error : {submission.effect}]
      [] submission.effect = "cancelled" -> [type : {"cancel"}, error : {"none"}]
      [] OTHER -> [type : {"order", "default"}, error : {"none"}]

(* Neither in time, nor with success, nor of a shape the client knows.        *)
Unreadable == [type |-> "unknown", error |-> "none"]

Concludes(answer) ==
    /\ flow' = [flow EXCEPT !.pc = "done"]
    /\ submission' = [submission EXCEPT !.outcome = Classify(answer)]
    /\ UNCHANGED <<listing, reference, accounts, tradeContext, clock, worldSteps>>

ExchangeAnswers ==
    /\ flow.pc = "submitting" /\ submission.effect # "none"
    /\ \E answer \in Answers : Concludes(answer)

SubmitUncertain == flow.pc = "submitting" /\ Concludes(Unreadable)

-----------------------------------------------------------------------------
(* Everything else that moves meanwhile.                                    *)

WorldMoves ==
    /\ worldSteps < MaxWorldSteps /\ worldSteps' = worldSteps + 1
    /\ UNCHANGED <<clock, flow, submission>>

PriceMoves ==
    /\ WorldMoves /\ reference' \in References \ {reference}
    /\ UNCHANGED <<listing, accounts, tradeContext>>

(* The catalogue's identity of a market fixes its asset, family and DEX.      *)
ListingChanges ==
    /\ WorldMoves
    /\ listing' \in {l \in Listings \ {listing} : l.asset = listing.asset}
    /\ UNCHANGED <<reference, accounts, tradeContext>>

AccountMoves ==
    /\ WorldMoves
    /\ \E a \in Addresses :
          \/ \E p \in Positions \ {accounts[a].position} :
                accounts' = [accounts EXCEPT ![a].position = p]
          \/ \E n \in Leverages \ {accounts[a].leverage} :
                accounts' = [accounts EXCEPT ![a].leverage = n]
          \/ \E o \in accounts[a].orders :
                accounts' = [accounts EXCEPT ![a].orders = @ \ {o}]
    /\ UNCHANGED <<listing, reference, tradeContext>>

ContextMoves ==
    /\ WorldMoves
    /\ \E b \in Bindings \ {tradeContext.binding} :
          tradeContext' = [binding |-> b, epoch |-> tradeContext.epoch + 1]
    /\ UNCHANGED <<listing, reference, accounts>>

ClockTicks ==
    /\ clock < MaxClock /\ clock' = clock + 1
    /\ UNCHANGED <<listing, reference, accounts, tradeContext, flow, submission, worldSteps>>

OrderInit ==
    /\ listing \in Listings /\ reference \in References
    /\ \E position \in Positions, leverage \in Leverages, orders \in {Orders} :
          accounts = [a \in Addresses |->
                         [position |-> position, leverage |-> leverage, mode |-> "cross",
                          orders |-> orders]]
    /\ \E b \in Bindings : tradeContext = [binding |-> b, epoch |-> 0]
    /\ clock = 0 /\ worldSteps = 0 /\ flow = NoFlow /\ submission = NoSubmission

OrderNext ==
    \/ \E d \in Drafts : Review(d)
    \/ RefreshCatalog \/ RefreshPosition \/ RefreshLeverage \/ RefreshOrders
    \/ FinishRefresh \/ Unlock \/ SignAndSubmit \/ FailBeforeSending
    \/ ExchangeFills \/ ExchangeRests \/ ExchangeProtects \/ ExchangeCancels
    \/ ExchangeRejects \/ OwnOrderFills \/ ExchangeAnswers \/ SubmitUncertain
    \/ PriceMoves \/ ListingChanges \/ AccountMoves \/ ContextMoves \/ ClockTicks

OrderSpec == OrderInit /\ [][OrderNext]_orderVars

-----------------------------------------------------------------------------
(* Whatever moves while a confirmation is under way, and whenever the exchange *)
(* acts on it: only the reviewed account changes; a market or close order     *)
(* fills within the reviewed slippage of the price it was refreshed with; an   *)
(* opening order moves the position by the reviewed size to the reviewed side; *)
(* a reducing one never grows or reverses it; a protective order closes all   *)
(* of it; a cancellation touches its order only.                            *)
DoesAsReviewed(review, evidence, acted, before, after) ==
    LET i == review.intent
        p == before[review.binding.target].position
        q == after[review.binding.target].position
    IN  /\ \A a \in Addresses \ {review.binding.target} : after[a] = before[a]
        /\ Reducing(i) => IF p > 0 THEN q \in 0..p ELSE q \in p..0
        /\ i.type = "position_tpsl" /\ q # p => q = 0
        /\ i.type = "cancel" =>
              /\ q = p
              /\ \A o \in before[review.binding.target].orders :
                    o.oid # i.oid => o \in after[review.binding.target].orders
        /\ ~Reducing(i) /\ acted = "filled" =>
              q = IF i.side = "buy" THEN p + i.size ELSE p - i.size
        /\ acted = "filled" /\ i.type \in {"market_order", "reduce_only_close"} =>
              IF i.side = "buy"
              THEN reference * BasisPoints <= evidence.reference * Factor("buy", review.bps)
              ELSE reference * BasisPoints >= evidence.reference * Factor("sell", review.bps)

(* What the user is told at once is what happened.                          *)
OutcomeMatches(outcome, effect) ==
    /\ outcome = "accepted" => effect \notin {"none", "rejected", "expired"}
    /\ outcome \in {"rejected", "expired"} => effect = outcome

ActionAsReviewed ==
    [][ /\ submission'.effect # submission.effect =>
              DoesAsReviewed(flow.review, flow.input, submission'.effect, accounts, accounts')
        /\ submission'.sent /\ ~submission.sent =>
              tradeContext.binding = flow.review.binding /\ tradeContext.epoch = flow.review.epoch
        /\ submission'.outcome # submission.outcome =>
              OutcomeMatches(submission'.outcome, submission.effect) ]_orderVars

=============================================================================
