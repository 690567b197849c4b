---------------------------- MODULE TradeScreen ----------------------------
(***************************************************************************)
(* The Trade screen (app/(tabs)/trade.tsx), its order panel and the account  *)
(* snapshot under it (features/trade), with the registry that invalidates     *)
(* drafts (core/actions).  A review of an order or of a leverage change is     *)
(* built from what the screen showed; it waits for a refresh of a stale        *)
(* account and, for an order, for random bytes, while prices, metadata, the    *)
(* account and the draft move on.  A user's edit is rendered before the next    *)
(* event is handled; everything else is rendered some time later.              *)
(* The market is a perpetual of the first DEX.                                *)
(***************************************************************************)
EXTENDS Integers

CONSTANTS
    Traders,           \* contexts the user switches between
    Pairs,             \* markets
    Calls,             \* handler calls that may overlap
    Leverages,
    NoMarket, NoData, NoDraft,
    AccountWindow,     \* ACCOUNT_FRESHNESS_WINDOW_MS
    MaxHappenings,     \* bound: changes of and around the screen, of whatever kind
    MaxCalls           \* bound: handler calls

ASSUME TicketAssumption ==
    {AccountWindow, MaxHappenings, MaxCalls} \subseteq Nat /\ 0 \notin Leverages

VARIABLES
    ticketClock,
    trader,            \* external: leverage and version of each account on the exchange
    tradeContext,      \* the supervisor's account and epoch
    route,             \* the market asked for
    listings,          \* the catalog: what a market's trading rules and price are
    usable,            \* network, connectivity, signer and lifecycle allow a review
    defaultsFor,       \* the account whose preferences are loaded
    accountFetch,      \* the account query of the market shown,
    accountData,       \* and what is cached per market of this account
    ticketDraft,       \* draftState.draft, rendered or not
    ticket,            \* the last render: [view, draft, loaded]
    scopeRef,          \* reviewScopeRef.current
    operation,         \* the token operationFence holds current, 0 for none
    panel,             \* the calls the mounted order panel waits for
    happened, called,  \* bounds: changes and handler calls so far
    calls

supplyVars == <<trader, listings, usable, defaultsFor>>
queryVars == <<accountFetch, accountData>>
tradeVars == <<ticketClock, supplyVars, tradeContext, route, queryVars, ticketDraft, ticket,
               scopeRef, operation, panel, happened, called, calls>>

NoCall == [pc |-> "idle"]
NotFetching == [pc |-> "idle"]

Happens == happened < MaxHappenings /\ happened' = happened + 1

-----------------------------------------------------------------------------
(* What is shown.                                                           *)

(* resolveMarketSelection: the market asked for while it is listed, else       *)
(* another that is.                                                          *)
SelectedMarket ==
    IF listings[route].listed THEN route
    ELSE IF \E m \in Pairs : listings[m].listed THEN CHOOSE m \in Pairs : listings[m].listed
    ELSE NoMarket

DefaultsLoaded == defaultsFor = tradeContext.account

(* Everything a review is built from; tradeReviewScopeKey is one-to-one in it.  *)
TicketView ==
    LET m == SelectedMarket
    IN [account |-> tradeContext.account, market |-> m, usable |-> usable,
        rules |-> IF m = NoMarket THEN 0 ELSE listings[m].rules,
        price |-> IF m = NoMarket THEN 0 ELSE listings[m].price,
        snapshot |-> IF m = NoMarket THEN NoData ELSE accountData[m]]

(* evaluateTradeGate, told apart as far as canStartTradeReview does.           *)
Gate(view) ==
    IF view.market = NoMarket \/ ~view.usable \/ view.snapshot = NoData THEN "disabled"
    ELSE IF ticketClock - view.snapshot.observedAt > AccountWindow THEN "stale_account"
    ELSE "ready"

LeverageOf(snapshot) == IF snapshot = NoData THEN 0 ELSE snapshot.leverage

(* The order in the panel: without a size, or at a market or a limit price.      *)
Terms == {"empty", "market", "limit"}

createTradeDraft(view) ==
    [account |-> view.account, market |-> view.market, rules |-> view.rules, side |-> "buy",
     terms |-> "empty", leverage |-> LeverageOf(view.snapshot)]

(* validateDraftContext.                                                     *)
DraftValid(draft, view) ==
    <<draft.account, draft.market, draft.rules>> = <<view.account, view.market, view.rules>>

(* What the effect makes of a draft: none without market or preferences, a new  *)
(* one when it is bound to something else, and always the account's leverage.    *)
reconcileTradeDraft(draft, view, loaded) ==
    IF view.market = NoMarket \/ ~loaded THEN NoDraft
    ELSE IF draft = NoDraft THEN createTradeDraft(view)
    ELSE IF DraftValid(draft, view) THEN [draft EXCEPT !.leverage = LeverageOf(view.snapshot)]
    ELSE createTradeDraft(view)

(* draftReconciliationKey: the effect runs when it changes.                    *)
ReconciliationKey(view, loaded) ==
    IF view.market = NoMarket THEN <<loaded>>
    ELSE <<view.account, view.market, view.rules, LeverageOf(view.snapshot), loaded>>

ReviewScopeKey(view, draft) == [view |-> view, draft |-> draft, leverage |-> 0]
LeverageScopeKey(view, leverage) == [view |-> view, draft |-> NoDraft, leverage |-> leverage]

(* The order panel is mounted anew for a draft with another binding.           *)
PanelKey(draft) ==
    IF draft = NoDraft THEN <<>> ELSE <<draft.account, draft.market, draft.rules>>

TradeInit ==
    /\ ticketClock = 0
    /\ \E open \in BOOLEAN :
         trader = [a \in Traders |-> [version |-> 0, leverage |-> CHOOSE l \in Leverages : TRUE,
                                      open |-> open]]
    /\ \E a \in Traders : tradeContext = [account |-> a, epoch |-> 0]
    /\ route \in Pairs
    /\ listings = [m \in Pairs |-> [listed |-> TRUE, rules |-> 1, price |-> 1]]
    /\ usable = TRUE /\ defaultsFor = tradeContext.account
    /\ accountFetch = NotFetching /\ accountData = [m \in Pairs |-> NoData]
    /\ ticketDraft = createTradeDraft(TicketView)
    /\ ticket = [view |-> TicketView, draft |-> NoDraft, loaded |-> TRUE]
    /\ scopeRef = ReviewScopeKey(TicketView, NoDraft)
    /\ operation = 0 /\ panel = {}
    /\ happened = 0 /\ called = 0
    /\ calls = [c \in Calls |-> NoCall]

(* A render of `draft` with its effects.  The query of a market no longer shown  *)
(* is cancelled.                                                             *)
RenderWith(draft) ==
    LET key == ReconciliationKey(TicketView, DefaultsLoaded)
    IN /\ ticket' = [view |-> TicketView, draft |-> draft, loaded |-> DefaultsLoaded]
       /\ scopeRef' = ReviewScopeKey(TicketView, draft)
       /\ ticketDraft' = IF key = ReconciliationKey(ticket.view, ticket.loaded) THEN draft
                         ELSE reconcileTradeDraft(draft, TicketView, DefaultsLoaded)
       /\ panel' = IF PanelKey(draft) = PanelKey(ticket.draft) THEN panel ELSE {}
       /\ accountFetch' = IF TicketView.market = ticket.view.market THEN accountFetch ELSE NotFetching

RenderTicket ==
    /\ \/ TicketView # ticket.view \/ ticketDraft # ticket.draft \/ DefaultsLoaded # ticket.loaded
    /\ RenderWith(ticketDraft)
    /\ UNCHANGED <<ticketClock, supplyVars, tradeContext, route, accountData, operation, happened,
                   called, calls>>

-----------------------------------------------------------------------------
(* What changes around the screen.                                           *)

(* Prices, trading rules and the listing itself change.                       *)
ListingChanges(m) ==
    /\ Happens
    /\ \/ listings' = [listings EXCEPT ![m].rules = @ + 1]
       \/ listings' = [listings EXCEPT ![m].price = @ + 1]
       \/ listings' = [listings EXCEPT ![m].listed = ~@, ![m].rules = @ + 1]
    /\ UNCHANGED <<ticketClock, trader, usable, defaultsFor, tradeContext, route, queryVars,
                   ticketDraft, ticket, scopeRef, operation, panel, called, calls>>

(* A lost connection, an expired signer, a capability switched off.            *)
SetUsable ==
    /\ Happens /\ usable' = ~usable
    /\ UNCHANGED <<ticketClock, trader, listings, defaultsFor, tradeContext, route, queryVars,
                   ticketDraft, ticket, scopeRef, operation, panel, called, calls>>

(* The selected account trades elsewhere or changes its leverage.              *)
AccountChanges ==
    /\ Happens
    /\ \E leverage \in Leverages :
         trader' = [trader EXCEPT ![tradeContext.account].version = @ + 1,
                                  ![tradeContext.account].leverage = leverage]
    /\ UNCHANGED <<ticketClock, listings, usable, defaultsFor, tradeContext, route, queryVars,
                   ticketDraft, ticket, scopeRef, operation, panel, called, calls>>

(* The draft the registry holds: the one rendered, until a commit removes it.    *)
Registered == ticket.draft # NoDraft /\ ticket.draft.account = tradeContext.account

(* The supervisor commits another context: it removes the private queries, and  *)
(* the registry invalidates the draft it holds.  The preferences of the new      *)
(* scope are read.                                                           *)
CommitContext(a) ==
    /\ a # tradeContext.account /\ Happens
    /\ tradeContext' = [account |-> a, epoch |-> tradeContext.epoch + 1]
    /\ accountFetch' = NotFetching /\ accountData' = [m \in Pairs |-> NoData]
    /\ \/ Registered /\ operation' = 0 /\ ticketDraft' = NoDraft
       \/ ~Registered /\ UNCHANGED <<operation, ticketDraft>>
    /\ UNCHANGED <<ticketClock, trader, listings, usable, defaultsFor, route, ticket, scopeRef, panel,
                   called, calls>>

DefaultsArrive ==
    /\ defaultsFor # ticket.view.account /\ defaultsFor' = ticket.view.account
    /\ UNCHANGED <<ticketClock, trader, listings, usable, tradeContext, route, queryVars, ticketDraft,
                   ticket, scopeRef, operation, panel, happened, called, calls>>

-----------------------------------------------------------------------------
(* The account snapshot, of two requests in parallel.                         *)

QueryEnabled == ticket.view.market # NoMarket /\ ticket.view.account = tradeContext.account

(* A mount, an account event, the interval or a pull.                         *)
FetchAccount ==
    /\ QueryEnabled /\ accountFetch = NotFetching
    /\ \/ accountData[ticket.view.market] = NoData /\ UNCHANGED happened
       \/ accountData[ticket.view.market] # NoData /\ Happens
    /\ accountFetch' = [pc |-> "asked"]
    /\ UNCHANGED <<ticketClock, supplyVars, tradeContext, route, accountData, ticketDraft, ticket,
                   scopeRef, operation, panel, called, calls>>

(* One of the two has been answered.                                          *)
FirstAnswer ==
    /\ accountFetch.pc = "asked"
    /\ accountFetch' = [pc |-> "half", state |-> trader[tradeContext.account]]
    /\ UNCHANGED <<ticketClock, supplyVars, tradeContext, route, accountData, ticketDraft, ticket,
                   scopeRef, operation, panel, happened, called, calls>>

(* tradePerpAccountSnapshot: none when an open position contradicts the leverage. *)
AccountSnapshot(state, asset) ==
    IF state.open /\ state.leverage # asset.leverage THEN NoData
    ELSE [account |-> tradeContext.account, market |-> ticket.view.market, version |-> state.version,
          leverage |-> asset.leverage, observedAt |-> ticketClock]

SecondAnswer ==
    /\ accountFetch.pc = "half"
    /\ accountFetch' = NotFetching
    /\ accountData' = [accountData EXCEPT ![ticket.view.market] =
                         AccountSnapshot(accountFetch.state, trader[tradeContext.account])]
    /\ UNCHANGED <<ticketClock, supplyVars, tradeContext, route, ticketDraft, ticket, scopeRef,
                   operation, panel, happened, called, calls>>

AccountFetchFails ==
    /\ accountFetch # NotFetching /\ accountFetch' = NotFetching
    /\ UNCHANGED <<ticketClock, supplyVars, tradeContext, route, accountData, ticketDraft, ticket,
                   scopeRef, operation, panel, happened, called, calls>>

-----------------------------------------------------------------------------
(* What the user does.                                                       *)

PanelShown == ticket.view.market # NoMarket /\ ticket.draft # NoDraft

SwitchMarket(m) ==
    /\ m # ticket.view.market /\ Happens
    /\ route' = m /\ operation' = 0
    /\ UNCHANGED <<ticketClock, supplyVars, tradeContext, queryVars, ticketDraft, ticket, scopeRef,
                   panel, called, calls>>

(* A field of the panel or a preset: the draft shown with another value.        *)
EditDraft ==
    /\ PanelShown
    /\ \/ ticket.draft.terms = "empty" /\ UNCHANGED happened
       \/ ticket.draft.terms # "empty" /\ Happens
    /\ \E terms \in Terms \ {ticket.draft.terms} : RenderWith([ticket.draft EXCEPT !.terms = terms])
    /\ UNCHANGED <<ticketClock, supplyVars, tradeContext, route, accountData, operation, called, calls>>

(* A price of the order book is tapped.                                       *)
SelectOrderBookPrice ==
    /\ ticket.view.market # NoMarket /\ Happens
    /\ operation' = 0
    /\ RenderWith(IF ticketDraft = NoDraft \/ ticketDraft.terms = "empty" THEN ticketDraft
                  ELSE [ticketDraft EXCEPT !.terms = "limit"])
    /\ UNCHANGED <<ticketClock, supplyVars, tradeContext, route, accountData, called, calls>>

-----------------------------------------------------------------------------
(* The two handlers.                                                         *)

(* The buttons are enabled, a stale account being no obstacle, and the panel     *)
(* waits for no call of the kind.                                             *)
MayStart(kind) ==
    /\ PanelShown /\ Gate(ticket.view) \in {"ready", "stale_account"} /\ called < MaxCalls
    /\ \A c \in panel : calls[c].kind # kind

(* What a call captures when it starts.                                       *)
Captured(kind, draft, leverage) ==
    [pc |-> "pressed", kind |-> kind, draft |-> draft, leverage |-> leverage, view |-> ticket.view,
     epoch |-> tradeContext.epoch, token |-> called + 1, market |-> ticket.view.market,
     selected |-> tradeContext.account]        \* for the property alone

(* openReview once the account is current: the draft shown must still be the    *)
(* one asked for; it becomes the draft, and the operation begins.               *)
BeginReview(c, call) ==
    /\ ticket.draft # NoDraft
    /\ [ticket.draft EXCEPT !.side = call.draft.side] = call.draft
    /\ ticketDraft' = call.draft
    /\ scopeRef' = ReviewScopeKey(call.view, call.draft)
    /\ operation' = call.token
    /\ calls' = [calls EXCEPT ![c] = [call EXCEPT !.pc = "random"]]

(* buildTradeLeverageReview, with nothing awaited before the review is handed   *)
(* over.                                                                     *)
HandLeverage(c, call) ==
    /\ Gate(call.view) = "ready" /\ call.leverage # call.view.snapshot.leverage
    /\ scopeRef' = LeverageScopeKey(call.view, call.leverage)
    /\ operation' = call.token
    /\ calls' = [calls EXCEPT ![c] = [call EXCEPT !.pc = "handed"]]
    /\ UNCHANGED ticketDraft

Prepare(c, call) ==
    \/ call.kind = "order" /\ BeginReview(c, call)
    \/ call.kind = "leverage" /\ HandLeverage(c, call)

(* With a stale account the handler first asks for it, or waits for the fetch    *)
(* under way.                                                                *)
StartReview(c, call) ==
    \/ /\ Gate(call.view) = "ready" /\ Prepare(c, call)
       /\ UNCHANGED accountFetch
    \/ /\ Gate(call.view) = "stale_account"
       /\ calls' = [calls EXCEPT ![c] = [call EXCEPT !.pc = "refetch"]]
       /\ accountFetch' = IF QueryEnabled /\ accountFetch = NotFetching THEN [pc |-> "asked"]
                          ELSE accountFetch
       /\ UNCHANGED <<ticketDraft, scopeRef, operation>>

(* Buy or Sell, with a size.                                                 *)
ReviewOrder(c) ==
    /\ calls[c] = NoCall /\ MayStart("order") /\ ticket.draft.terms # "empty"
    /\ \E side \in {"buy", "sell"} :
         StartReview(c, Captured("order", [ticket.draft EXCEPT !.side = side], 0))
    /\ called' = called + 1 /\ panel' = panel \cup {c}
    /\ UNCHANGED <<ticketClock, supplyVars, tradeContext, route, accountData, ticket, happened>>

(* The leverage slider's button.                                             *)
ReviewLeverage(c) ==
    /\ calls[c] = NoCall /\ MayStart("leverage")
    /\ \E leverage \in Leverages \ {ticket.view.snapshot.leverage} :
         StartReview(c, Captured("leverage", ticket.draft, leverage))
    /\ called' = called + 1 /\ panel' = panel \cup {c}
    /\ UNCHANGED <<ticketClock, supplyVars, tradeContext, route, accountData, ticket, happened>>

(* Faulty variant: the market is not compared after the refresh.               *)
RefreshAppliesAnywhere(call) == call.epoch = tradeContext.epoch /\ ticket.view.market # NoMarket

(* The context is the captured one and the market shown is still the same.      *)
RefreshApplies(call) == call.epoch = tradeContext.epoch /\ ticket.view.market = call.market

(* The fetch has ended.  The handler goes on from the latest render, with the    *)
(* data the query holds now.                                                  *)
AfterRefresh(c) ==
    LET view == [ticket.view EXCEPT !.snapshot = accountData[ticket.view.market]]
    IN /\ calls[c].pc = "refetch" /\ accountFetch = NotFetching
       /\ RefreshApplies(calls[c])
       /\ Gate(view) = "ready"
       /\ Prepare(c, [calls[c] EXCEPT !.view = view])
       /\ UNCHANGED <<ticketClock, supplyVars, tradeContext, route, queryVars, ticket, panel, happened,
                      called>>

(* Faulty variant: a later edit of the draft goes unnoticed.                   *)
OperationHoldsForToken(call) == call.token = operation

(* operationFence.canCommit.                                                  *)
OperationHolds(call) ==
    call.token = operation /\ scopeRef = ReviewScopeKey(call.view, call.draft)

ContextHolds(call) == call.epoch = tradeContext.epoch

(* buildTradeReview: the gate once more, the draft's binding, its size and its    *)
(* leverage.                                                                 *)
ReviewBuilt(call) ==
    /\ Gate(call.view) = "ready" /\ DraftValid(call.draft, call.view)
    /\ call.draft.terms # "empty" /\ call.draft.leverage = call.view.snapshot.leverage

HandOrder(c) ==
    /\ calls[c].pc = "random"
    /\ OperationHolds(calls[c]) /\ ContextHolds(calls[c]) /\ ReviewBuilt(calls[c])
    /\ calls' = [calls EXCEPT ![c].pc = "handed"]
    /\ UNCHANGED <<ticketClock, supplyVars, tradeContext, route, queryVars, ticketDraft, ticket,
                   scopeRef, operation, panel, happened, called>>

(* A handler throws: what it waited for failed or something changed.            *)
ReviewStops(c) ==
    /\ calls[c].pc = "refetch" => accountFetch = NotFetching
    /\ calls[c].pc \in {"refetch", "random"}
    /\ calls' = [calls EXCEPT ![c] = NoCall] /\ panel' = panel \ {c}
    /\ UNCHANGED <<ticketClock, supplyVars, tradeContext, route, queryVars, ticketDraft, ticket,
                   scopeRef, operation, happened, called>>

(* reviewAndSubmit settles; an accepted leverage change asks for the account.    *)
ReviewSettles(c) ==
    /\ calls[c].pc = "handed"
    /\ calls' = [calls EXCEPT ![c] = NoCall] /\ panel' = panel \ {c}
    /\ \/ UNCHANGED accountFetch
       \/ /\ calls[c].kind = "leverage" /\ QueryEnabled /\ accountFetch = NotFetching
          /\ accountFetch' = [pc |-> "asked"]
    /\ UNCHANGED <<ticketClock, supplyVars, tradeContext, route, accountData, ticketDraft, ticket,
                   scopeRef, operation, happened, called>>

TicketTick ==
    /\ Happens /\ ticketClock' = ticketClock + 1
    /\ UNCHANGED <<supplyVars, tradeContext, route, queryVars, ticketDraft, ticket, scopeRef,
                   operation, panel, called, calls>>

(* Bound: the run ends once the last call has handed over its review or stopped.  *)
Watched == called < MaxCalls \/ \E c \in Calls : calls[c].pc \in {"refetch", "random"}

TradeNext ==
    \/ \E c \in Calls : ReviewSettles(c)
    \/ /\ Watched
       /\ \/ RenderTicket \/ SetUsable \/ DefaultsArrive \/ TicketTick
          \/ \E m \in Pairs : ListingChanges(m) \/ SwitchMarket(m)
          \/ AccountChanges \/ \E a \in Traders : CommitContext(a)
          \/ FetchAccount \/ FirstAnswer \/ SecondAnswer \/ AccountFetchFails
          \/ EditDraft \/ SelectOrderBookPrice
          \/ \E c \in Calls : \/ ReviewOrder(c) \/ ReviewLeverage(c) \/ AfterRefresh(c)
                             \/ HandOrder(c) \/ ReviewStops(c)

TradeSpec == TradeInit /\ [][TradeNext]_tradeVars

-----------------------------------------------------------------------------

(* A review of the account and market on the screen, from a snapshot of theirs   *)
(* within the window and no older than the one shown; of an order, with the draft *)
(* on the screen, or about to be, at the leverage of the snapshot.               *)
ReviewsTheScreen(call) ==
    LET view == call.view
    IN /\ call.selected = tradeContext.account
       /\ call.market = view.market
       /\ <<view.account, view.market>> = <<ticket.view.account, ticket.view.market>>
       /\ <<view.snapshot.account, view.snapshot.market>> = <<view.account, view.market>>
       /\ ticketClock - view.snapshot.observedAt <= AccountWindow
       /\ ticket.view.snapshot # NoData =>
            view.snapshot.observedAt >= ticket.view.snapshot.observedAt
       /\ call.kind = "order" =>
            /\ call.draft \in {ticketDraft, ticket.draft} /\ DraftValid(call.draft, ticket.view)
            /\ call.draft.leverage = view.snapshot.leverage

(* A review is handed over only while the context is the one it was pressed     *)
(* under, for the market it was pressed for and the account and market on the     *)
(* screen, from an account snapshot of theirs that is no older than the one shown *)
(* and within the window; and an order with the draft on the screen, or about to  *)
(* be, bound to that account, market and rules, at the leverage of the snapshot.   *)
TradeReviewIsCurrent ==
    [][\A c \in Calls : calls[c].pc # "handed" /\ calls'[c].pc = "handed" =>
         ReviewsTheScreen(calls'[c])]_tradeVars

=============================================================================
