----------------------------- MODULE MCServices -----------------------------
(***************************************************************************)
(* The parts of the service, and the client of the exchange that the app    *)
(* shares with it, in one instance for TLC: they share no state with one    *)
(* another, and an initial state chooses the part that runs.                *)
(***************************************************************************)
EXTENDS NotificationAuthority, StreamPool, WebSocketSession, MarketCatalog,
        OrderConfirmation, TLC

CONSTANTS m1, v1, t2

VARIABLE part

Parts == {"authority", "pool", "session", "catalog", "orders"}

(* Every operation with a proof the account signed, a rebind from the token an
   installation may register first to another one, and one that is not signed. *)
MCProofs ==
    {[object |-> o, signed |-> TRUE] : o \in {o \in Objects : o.kind = "rebind" => o.token = t2}}
      \cup {[object |-> o, signed |-> FALSE] : o \in [kind : {"link"}, link : LinkIds]}

MCSubscriptions == {[type |-> "userEvents", subject |-> "u1"],
                    [type |-> "userEvents", subject |-> "u2"],
                    [type |-> "candle", subject |-> "c1"]}

\* Prices and sizes have one decimal place: 80 is 8.0, a position of 20 is 2.
Perp == [listed |-> TRUE, asset |-> 1, family |-> "perp", native |-> TRUE, trading |-> TRUE,
         sizeDecimals |-> 0, places |-> 1, maxLeverage |-> 2, onlyIsolated |-> FALSE]

\* A native perpetual market, as its leverage is lowered or trading stops, a
\* builder's market and a spot market.
MCListings == {Perp, [Perp EXCEPT !.maxLeverage = 1], [Perp EXCEPT !.trading = FALSE],
               [Perp EXCEPT !.native = FALSE, !.asset = 2],
               [Perp EXCEPT !.family = "spot", !.asset = 3]}

MCPositions == {-20, 0, 20}

\* A master's own account and one of its vaults.
MCBindings == {[master |-> m1, target |-> m1], [master |-> m1, target |-> v1]}

Draft == [form |-> "market", side |-> "buy", size |-> 20, price |-> 80, bps |-> 100,
          tif |-> "Gtc", reduceOnly |-> FALSE, kind |-> "take_profit", oid |-> 0, leverage |-> 1]

MCDrafts ==
    {Draft,
     [Draft EXCEPT !.form = "limit", !.reduceOnly = TRUE, !.side = "sell"],
     [Draft EXCEPT !.form = "limit", !.tif = "Alo"],
     [Draft EXCEPT !.form = "close"],
     [Draft EXCEPT !.form = "limit_close"],
     [Draft EXCEPT !.form = "protect"],
     [Draft EXCEPT !.form = "protect", !.oid = 7],
     [Draft EXCEPT !.form = "protect", !.kind = "stop_loss", !.price = 70],
     [Draft EXCEPT !.form = "cancel", !.oid = 7],
     [Draft EXCEPT !.form = "leverage"]}

MCOrders ==
    {[oid |-> 7, kind |-> "take_profit", buy |-> FALSE, size |-> 0, price |-> 70,
      reduceOnly |-> TRUE, trigger |-> 80]}

ServicesInit ==
    /\ part \in Parts
    /\ AuthorityInit /\ PoolInit /\ SessionInit /\ CatalogInit /\ OrderInit
    /\ part # "catalog" => store = "postgres"
    /\ reference = 80 /\ \A a \in Addresses : accounts[a].leverage = 2
    /\ listing.trading /\ listing.maxLeverage = 2 /\ tradeContext.binding.target = v1
    /\ part # "orders" => /\ listing = Perp
                          /\ \A a \in Addresses : accounts[a].position = 0

ServicesNext ==
    /\ part' = part
    /\ \/ /\ part = "authority" /\ AuthorityNext
          /\ UNCHANGED <<poolVars, sessionVars, catalogVars, orderVars>>
       \/ /\ part = "pool" /\ PoolNext
          /\ UNCHANGED <<authorityVars, sessionVars, catalogVars, orderVars>>
       \/ /\ part = "session" /\ SessionNext
          /\ UNCHANGED <<authorityVars, poolVars, catalogVars, orderVars>>
       \/ /\ part = "catalog" /\ CatalogNext
          /\ UNCHANGED <<authorityVars, poolVars, sessionVars, orderVars>>
       \/ /\ part = "orders" /\ OrderNext
          /\ UNCHANGED <<authorityVars, poolVars, sessionVars, catalogVars>>

servicesVars == <<part, authorityVars, poolVars, sessionVars, catalogVars, orderVars>>

ServicesSpec == ServicesInit /\ [][ServicesNext]_servicesVars

Symmetry == Permutations(Slots) \cup Permutations(Challenges) \cup Permutations(Creds)

=============================================================================
