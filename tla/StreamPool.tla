----------------------------- MODULE StreamPool -----------------------------
(***************************************************************************)
(* The shared connections of the monitor source                            *)
(* (apps/api/src/monitor/hyperliquid-source.ts and capacity.ts): market    *)
(* streams of one network share a shard, account streams have a connection *)
(* of their own, and every connection is counted against the capacity.     *)
(*                                                                         *)
(* A caller that finds no shard waits for the opening under way or starts  *)
(* one; its signal may abort at any time. When the connection opens, the   *)
(* callers go on in microtasks: first the promise handlers of #marketShard *)
(* (Obtain), then the rest of openMarket (Subscribe). Other code may run   *)
(* and abort a signal between those, but nothing from the network may: the *)
(* actions of the network wait until no caller is in a microtask.          *)
(*                                                                         *)
(* Shards are numbered as they are opened.                                 *)
(***************************************************************************)
EXTENDS Naturals, FiniteSets

CONSTANTS MarketCallers, AccountCallers, \* calls of openMarket and openAccount
          WebsocketConnections,          \* connections at one time
          ConnectionsPerMinute           \* bound: connections ever opened

ASSUME PoolAssumption ==
    /\ MarketCallers \cap AccountCallers = {}
    /\ IsFiniteSet(MarketCallers \cup AccountCallers)

VARIABLES
    caller,        \* [phase, shard, aborted] by caller
    marketShard,   \* #marketShards: the shard new callers join, 0 if none
    marketOpening, \* #marketOpenings: the opening new callers join, 0 if none
    shards,        \* by number: [state, references, abandoned]
    connections    \* #connections

poolVars == <<caller, marketShard, marketOpening, shards, connections>>

Callers == MarketCallers \cup AccountCallers
Gone == [phase |-> "idle", shard |-> 0, aborted |-> FALSE]

PoolInit ==
    /\ caller = [c \in Callers |-> Gone]
    /\ marketShard = 0 /\ marketOpening = 0
    /\ shards = [k \in {} |-> Gone]
    /\ connections = 0

Attempts == Cardinality(DOMAIN shards)
Waiters(k) == {c \in Callers : caller[c].shard = k /\ caller[c].phase \in {"waiting", "resolved"}}
MarketOwned(k) == \A c \in AccountCallers : caller[c].shard # k
InMicrotask == \E c \in Callers : caller[c].phase \in {"resolved", "obtained"}

(* #reserveConnection, with the limit of the governor and of the minute.    *)
CanReserveConnection ==
    connections < WebsocketConnections /\ Attempts < ConnectionsPerMinute

Opening == [state |-> "opening", references |-> 0, abandoned |-> FALSE]
WithShard(k, s) == [j \in DOMAIN shards \cup {k} |-> IF j = k THEN s ELSE shards[j]]

-----------------------------------------------------------------------------
(* #closeUnusedMarketShard: only the shard new callers would join, and only while
   nobody uses it and nobody waits for an opening.                           *)
Unused(k, waiting) ==
    shards[k].references = 0 /\ marketShard = k /\ waiting = {}

(* The shard, and what its end leaves.                                      *)
Close(k, shard) ==
    /\ shards' = [shards EXCEPT ![k] = [shard EXCEPT !.state = "closed"]]
    /\ connections' = connections - IF shards[k].state = "closed" THEN 0 ELSE 1

CloseUnusedMarketShard(k, waiting) ==
    IF Unused(k, waiting)
    THEN marketShard' = 0 /\ Close(k, shards[k])
    ELSE UNCHANGED <<marketShard, shards, connections>>

(* A stream ends: the last reference closes the shard and forgets whichever shard
   new callers would have joined.                                            *)
Dereference(k, references) ==
    IF references = 0
    THEN marketShard' = 0 /\ Close(k, [shards[k] EXCEPT !.references = 0])
    ELSE /\ shards' = [shards EXCEPT ![k].references = references]
         /\ UNCHANGED <<marketShard, connections>>

-----------------------------------------------------------------------------
(* waitForShared: an opening that has its answer and is not forgotten yet, because
   others still have to take theirs, answers a new caller in the next microtask. *)
Joins(shard) == IF shard.state = "opening" THEN "waiting" ELSE "resolved"

(* openMarket and #marketShard: join the shard, the opening, or start one.  *)
OpenMarket(c) ==
    /\ caller[c] = Gone
    /\ \/ /\ marketShard # 0
          /\ caller' = [caller EXCEPT ![c] = [@ EXCEPT !.phase = "obtained", !.shard = marketShard]]
          /\ UNCHANGED <<marketOpening, shards, connections>>
       \/ /\ marketShard = 0 /\ marketOpening # 0
          /\ caller' = [caller EXCEPT ![c] =
                           [@ EXCEPT !.phase = Joins(shards[marketOpening]),
                                     !.shard = marketOpening]]
          /\ UNCHANGED <<marketOpening, shards, connections>>
       \/ /\ marketShard = 0 /\ marketOpening = 0 /\ CanReserveConnection
          /\ caller' = [caller EXCEPT ![c] = [@ EXCEPT !.phase = "waiting", !.shard = Attempts + 1]]
          /\ marketOpening' = Attempts + 1
          /\ shards' = WithShard(Attempts + 1, Opening)
          /\ connections' = connections + 1
    /\ UNCHANGED marketShard

\* Faulty variant: an opening that was given up is not remembered.
AbandonedForgotten(k) == FALSE

Abandoned(k) == shards[k].abandoned

(* The connection opens: an abandoned opening closes it again, otherwise the
   shard is the one to join and its waiters go on.                           *)
MarketShardOpened(k) ==
    /\ ~InMicrotask
    /\ shards[k].state = "opening"
    /\ MarketOwned(k)
    /\ IF Abandoned(k)
       THEN /\ Close(k, shards[k])
            /\ UNCHANGED <<caller, marketShard>>
       ELSE /\ marketShard' = k
            /\ shards' = [shards EXCEPT ![k].state = "open"]
            /\ caller' = [c \in Callers |->
                            IF c \in Waiters(k) THEN [caller[c] EXCEPT !.phase = "resolved"]
                            ELSE caller[c]]
            /\ UNCHANGED connections
    /\ UNCHANGED marketOpening

(* The connection fails: every waiter is rejected.                          *)
MarketShardFails(k) ==
    /\ ~InMicrotask
    /\ shards[k].state = "opening"
    /\ MarketOwned(k)
    /\ Close(k, [shards[k] EXCEPT !.abandoned = TRUE])
    /\ caller' = [c \in Callers |-> IF c \in Waiters(k) THEN Gone ELSE caller[c]]
    /\ marketOpening' = IF marketOpening = k THEN 0 ELSE marketOpening
    /\ UNCHANGED marketShard

(* The handlers of #marketShard after waitForShared: the caller has the shard,
   unless its signal was aborted; the last waiter to leave without it abandons
   the opening.                                                              *)
Leave(c, obtained) ==
    LET k == caller[c].shard
        left == Waiters(k) \ {c}
        abandoned == shards[k].abandoned \/ (~obtained /\ left = {})
    IN /\ caller' = [caller EXCEPT ![c] =
                       IF obtained THEN [@ EXCEPT !.phase = "obtained"] ELSE Gone]
       /\ marketOpening' = IF left = {} /\ marketOpening = k THEN 0 ELSE marketOpening
       /\ IF left = {} /\ abandoned /\ shards[k].state = "open"
          THEN CloseUnusedMarketShard(k, {})
          ELSE /\ shards' = [shards EXCEPT ![k].abandoned = abandoned]
               /\ UNCHANGED <<marketShard, connections>>

Obtain(c) ==
    /\ caller[c].phase = "resolved"
    /\ Leave(c, ~caller[c].aborted)

(* The rest of openMarket: the signal and the subscription capacity are checked,
   the reference is counted, and the session may turn out to be closed.       *)
Subscribe(c) ==
    LET k == caller[c].shard
    IN /\ caller[c].phase = "obtained"
       /\ \/ /\ caller' = [caller EXCEPT ![c] = Gone]  \* aborted, or no capacity left
             /\ CloseUnusedMarketShard(k, Waiters(marketOpening))
          \/ /\ ~caller[c].aborted /\ shards[k].state = "open"
             /\ caller' = [caller EXCEPT ![c].phase = "active"]
             /\ shards' = [shards EXCEPT ![k].references = @ + 1]
             /\ UNCHANGED <<marketShard, connections>>
          \/ /\ ~caller[c].aborted /\ shards[k].state = "closed"
             /\ caller' = [caller EXCEPT ![c] = Gone]
             /\ Dereference(k, shards[k].references)
       /\ UNCHANGED marketOpening

(* The signal is aborted: while waiting, between two microtasks, or as the close
   of an open stream.                                                         *)
AbortMarket(c) ==
    /\ c \in MarketCallers /\ ~caller[c].aborted
    /\ \/ caller[c].phase = "waiting" /\ Leave(c, FALSE)
       \/ /\ caller[c].phase \in {"resolved", "obtained"}
          /\ caller' = [caller EXCEPT ![c].aborted = TRUE]
          /\ UNCHANGED <<marketShard, marketOpening, shards, connections>>
       \/ /\ caller[c].phase = "active"
          /\ caller' = [caller EXCEPT ![c] = Gone]
          /\ Dereference(caller[c].shard, shards[caller[c].shard].references - 1)
          /\ UNCHANGED marketOpening

(* The session of a shard fails: the gap reaches every stream of the shard, and
   each of them is closed by its owner.                                       *)
SessionFails(k) ==
    /\ ~InMicrotask /\ MarketOwned(k)
    /\ shards[k].state = "open"
    /\ caller' = [c \in Callers |-> IF caller[c].shard = k THEN Gone ELSE caller[c]]
    /\ IF shards[k].references > 0
       THEN Dereference(k, 0)
       ELSE /\ Close(k, shards[k])
            /\ UNCHANGED marketShard
    /\ UNCHANGED marketOpening

-----------------------------------------------------------------------------
(* openAccount: a connection of its own. The signal is not looked at again once
   the connection is open: the owner closes the stream it is handed.          *)
OpenAccount(c) ==
    /\ caller[c] = Gone /\ CanReserveConnection
    /\ caller' = [caller EXCEPT ![c] = [@ EXCEPT !.phase = "waiting", !.shard = Attempts + 1]]
    /\ shards' = WithShard(Attempts + 1, Opening)
    /\ connections' = connections + 1
    /\ UNCHANGED <<marketShard, marketOpening>>

(* The connection opens and the five channels are subscribed, or the connection,
   a subscription or its capacity fails.                                      *)
AccountOpened(c, subscribed) ==
    LET k == caller[c].shard
    IN /\ ~InMicrotask /\ caller[c].phase = "waiting"
       /\ IF subscribed
          THEN /\ shards' = [shards EXCEPT ![k] = [@ EXCEPT !.state = "open", !.references = 1]]
               /\ caller' = [caller EXCEPT ![c].phase = "active"]
               /\ UNCHANGED connections
          ELSE /\ Close(k, shards[k])
               /\ caller' = [caller EXCEPT ![c] = Gone]
       /\ UNCHANGED <<marketShard, marketOpening>>

(* The stream is closed by its owner: it is no longer wanted, its session failed
   and reported a gap, or the signal was aborted while it opened.             *)
CloseAccount(c) ==
    LET k == caller[c].shard
    IN /\ caller[c].phase = "active"
       /\ caller' = [caller EXCEPT ![c] = Gone]
       /\ Close(k, [shards[k] EXCEPT !.references = 0])
       /\ UNCHANGED <<marketShard, marketOpening>>

PoolNext ==
    \/ \E c \in MarketCallers : OpenMarket(c) \/ Obtain(c) \/ Subscribe(c) \/ AbortMarket(c)
    \/ \E k \in DOMAIN shards : MarketShardOpened(k) \/ MarketShardFails(k)
    \/ \E k \in DOMAIN shards : SessionFails(k)
    \/ \E c \in AccountCallers :
         \/ OpenAccount(c) \/ CloseAccount(c)
         \/ \E subscribed \in BOOLEAN : AccountOpened(c, subscribed)

PoolSpec == PoolInit /\ [][PoolNext]_poolVars

-----------------------------------------------------------------------------
(* However callers join, abort and fail, a connection that is counted is on its
   way for someone, has been abandoned before it opened, or carries a stream: no
   open session is left that nobody will close, and a caller that gives up its
   own request never closes the session under another's stream.              *)
SessionsServeStreams ==
    /\ \A k \in DOMAIN shards :
          shards[k].state = "open" =>
             \E c \in Callers : caller[c].shard = k
    /\ connections = Cardinality({k \in DOMAIN shards : shards[k].state # "closed"})
    /\ \A c \in Callers : caller[c].phase = "active" => shards[caller[c].shard].state = "open"

=============================================================================
