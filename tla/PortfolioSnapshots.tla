------------------------- MODULE PortfolioSnapshots -------------------------
(***************************************************************************)
(* The service's reader of portfolio snapshots                             *)
(* (portfolio/portfolio-snapshot-reader.ts) behind its two routes           *)
(* (server.ts).  A read is answered from a short-lived cache or loaded from  *)
(* the exchange in stages: the published catalog, the DEXes the account was  *)
(* active on, those DEXes in batches, and the spot balances.  A stage that   *)
(* fails leaves a gap in the answer rather than failing it.  A read is cut    *)
(* at its awaits; its caller may leave at any moment, and a deadline aborts   *)
(* what still waits.                                                         *)
(***************************************************************************)
EXTENDS Integers, FiniteSets, Sequences

CONSTANTS
    Readers,           \* concurrent callers of the routes
    Users,             \* accounts; with the network, the key of the cache
    Dexes,             \* builder DEXes
    NativeDex,         \* the DEX whose name is empty, always read
    Unpublished,       \* no catalog was published yet
    MaxReads,          \* bound: reads in a behaviour
    MaxPortfolioTime,  \* bound: clock
    Deadline,          \* of a read
    LiveCache,         \* time an answer stays in the cache
    HistoryCache,
    MaxCacheEntries,
    MaxInflight,
    MaxAnswerDexes,          \* largest limit a reader can be built with
    DexBatchSize,
    MaxSourceGaps

ASSUME PortfolioAssumption ==
    /\ {MaxReads, MaxPortfolioTime, Deadline, LiveCache, HistoryCache} \subseteq Nat
    /\ {MaxCacheEntries, MaxInflight, MaxAnswerDexes, DexBatchSize} \subseteq Nat \ {0}
    /\ MaxSourceGaps \in Nat /\ MaxSourceGaps > 1
    /\ NativeDex \notin Dexes /\ IsFiniteSet(Dexes)

VARIABLES
    portfolioClock,    \* now()
    traded,            \* external: the DEXes each source of activity mentions
    maxDexes,          \* the reader's limit of DEXes in an answer
    catalogued,        \* external: the DEXes of the published catalog
    cache,             \* per phase, entries in the order they were inserted
    loads,
    asked,             \* reads so far
    reads              \* per caller, how far its read is, or its answer

portfolioVars == <<portfolioClock, traded, maxDexes, catalogued, cache, loads, asked, reads>>

ActivitySources == {"orders", "fills", "funding"}
Phases == {"live", "history"}

(* What an answer holds or discloses as missing.                            *)
StateOf(d)     == <<"state", d>>
OrdersOf(d)    == <<"orders", d>>
DiscoveryOf(s) == <<"discovery", s>>
SpotBalances           == <<"spot", NativeDex>>
Coverage       == <<"coverage", NativeDex>>
Additional     == <<"additional", NativeDex>>
HistoryItems   == {<<"fills", NativeDex>>, <<"funding", NativeDex>>, <<"periods", NativeDex>>}

NoReader == [pc |-> "idle"]

(* Funding follows a fill, and a fill an order.                             *)
PortfolioInit ==
    /\ portfolioClock = 0
    /\ traded \in [ActivitySources -> SUBSET Dexes]
    /\ traded["funding"] \subseteq traded["fills"] /\ traded["fills"] \subseteq traded["orders"]
    /\ maxDexes \in 1..MaxAnswerDexes
    /\ catalogued \in (SUBSET Dexes) \cup {Unpublished}
    /\ cache = [ph \in Phases |-> << >>]
    /\ loads = 0 /\ asked = 0
    /\ reads = [r \in Readers |-> NoReader]

Loading(r) == reads[r].pc \in {"catalog", "discovery", "batch", "spot", "history"}

(* The caller left or the deadline passed: requests still waiting reject, and *)
(* new ones reject at once.  The catalog is read without the signal.          *)
Signalled(r) == reads[r].left \/ portfolioClock >= reads[r].since + Deadline

(* The gaps kept of a stage's, which come in any order, while there is room.  *)
GapsKept(gaps, new) ==
    LET room == MaxSourceGaps - 1 - Cardinality(gaps)
    IN {kept \in SUBSET (new \ gaps) : Cardinality(kept) = IF room > 0 THEN room ELSE 0}

(* Faulty variant: a new gap is dropped once the list is full.               *)
AddSourceGapsSilently(gaps, new) ==
    IF Cardinality(gaps \cup new) < MaxSourceGaps THEN {gaps \cup new}
    ELSE {gaps \cup kept : kept \in GapsKept(gaps, new)}

(* boundedGapRecorder: once the list is nearly full, one entry stands for    *)
(* every further gap.                                                        *)
AddSourceGaps(gaps, new) ==
    IF Cardinality(gaps \cup new) < MaxSourceGaps THEN {gaps \cup new}
    ELSE {gaps \cup kept \cup {Additional} : kept \in GapsKept(gaps, new)}

CacheTtl(ph) == IF ph = "live" THEN LiveCache ELSE HistoryCache

CachedFor(ph, u) ==
    {cache[ph][i] : i \in {j \in DOMAIN cache[ph] : cache[ph][j].user = u}}

(* Map.delete: the entry of a user leaves its place.                         *)
WithoutEntry(entries, u) ==
    LET at == {i \in DOMAIN entries : entries[i].user = u}
        removed == CHOOSE i \in at : TRUE
    IN IF at = {} THEN entries
       ELSE [i \in 1..(Len(entries) - 1) |->
               entries[IF i < removed THEN i ELSE i + 1]]

(* The entry moves to the end, and the oldest ones leave.                    *)
Remembered(ph, u, value) ==
    LET entry == [user |-> u, expiresAt |-> portfolioClock + CacheTtl(ph), value |-> value]
        kept == Append(WithoutEntry(cache[ph], u), entry)
        over == Len(kept) - MaxCacheEntries
    IN [cache EXCEPT ![ph] = IF over > 0 THEN SubSeq(kept, over + 1, Len(kept)) ELSE kept]

(* The route's answer.  The limit on its size is not modelled.               *)
Answered(value) == [pc |-> "answered", value |-> value, at |-> portfolioClock]

(* The entry is still fresh.                                                *)
FreshEntries(ph, u) == {e \in CachedFor(ph, u) : e.expiresAt > portfolioClock}

FromCache(r, u, ph) ==
    /\ \E e \in FreshEntries(ph, u) : reads' = [reads EXCEPT ![r] = Answered(e.value)]
    /\ UNCHANGED <<cache, loads>>

Refuse(r, u, ph) ==
    /\ FreshEntries(ph, u) = {} /\ loads >= MaxInflight
    /\ reads' = [reads EXCEPT ![r] = NoReader]
    /\ UNCHANGED <<cache, loads>>

Load(r, u, ph) ==
    /\ FreshEntries(ph, u) = {} /\ loads < MaxInflight
    /\ loads' = loads + 1
    /\ reads' = [reads EXCEPT ![r] =
         [pc |-> IF ph = "live" THEN "catalog" ELSE "history",
          user |-> u, phase |-> ph, since |-> portfolioClock, left |-> FALSE,
          cut |-> FALSE, todo |-> {}, got |-> {}, gaps |-> {},
          from |-> portfolioClock]]
    /\ UNCHANGED cache

(* A request reaches a route.                                               *)
Read(r, u, ph) ==
    /\ ~Loading(r)
    /\ asked < MaxReads /\ asked' = asked + 1
    /\ FromCache(r, u, ph) \/ Refuse(r, u, ph) \/ Load(r, u, ph)
    /\ UNCHANGED <<portfolioClock, traded, maxDexes, catalogued>>

(* What a complete answer would hold: for the live phase the account and the  *)
(* orders of the native DEX and of every catalogued DEX the account was active *)
(* on, and the spot balances.                                                 *)
Needed(ph) ==
    IF ph = "history" THEN HistoryItems
    ELSE LET dexes == {NativeDex} \cup (catalogued \cap UNION {traded[s] : s \in ActivitySources})
         IN {SpotBalances} \cup {StateOf(d) : d \in dexes} \cup {OrdersOf(d) : d \in dexes}

(* The gaps that account for a missing item: its own, the list's last entry, or *)
(* for a DEX the discovery's and the response window's.                       *)
Explains(gap, item) ==
    \/ gap \in {item, Additional}
    \/ item[1] \in {"state", "orders"}
         /\ (gap[1] = "discovery" \/ gap \in {Coverage, StateOf(item[2])})

(* The envelope, kept as what the properties need of it: when its data were    *)
(* first read, and what it lacks without disclosing it.                        *)
Envelope(r, got, gaps) ==
    [phase |-> reads[r].phase, from |-> reads[r].from,
     undisclosed |-> {item \in Needed(reads[r].phase) \ got :
                        ~\E gap \in gaps : Explains(gap, item)}]

(* A load that throws returns its place and the route answers an error.      *)
LoadFails(r) ==
    /\ reads' = [reads EXCEPT ![r] = NoReader]
    /\ loads' = loads - 1
    /\ UNCHANGED cache

(* A load that ends: the envelope passes its own parser, or a malformed       *)
(* answer of the exchange makes the whole load throw.                        *)
LoadEnds(r, got, gaps) ==
    \/ LET value == Envelope(r, got, gaps)
       IN /\ cache' = Remembered(reads[r].phase, reads[r].user, value)
          /\ reads' = [reads EXCEPT ![r] = Answered(value)]
          /\ loads' = loads - 1
    \/ LoadFails(r)

ReadCatalog(r) ==
    /\ reads[r].pc = "catalog"
    /\ \/ /\ catalogued = Unpublished
          /\ LoadFails(r)
       \/ /\ catalogued # Unpublished
          /\ reads' = [reads EXCEPT ![r].pc = "discovery", ![r].cut = Signalled(r)]
          /\ UNCHANGED <<cache, loads>>
    /\ UNCHANGED <<asked, portfolioClock, traded, maxDexes, catalogued>>

(* What one source of activity answers: the DEXes it mentions, fewer when     *)
(* its list reached its bounded window, or nothing; and the gap it leaves.    *)
CollectActivityCoins(s, cut) ==
    (IF cut THEN {} ELSE {[dexes |-> traded[s], gap |-> {}]})
      \cup (IF cut THEN {} ELSE [dexes : SUBSET traded[s], gap : {{DiscoveryOf(s)}}])
      \cup {[dexes |-> {}, gap |-> {DiscoveryOf(s)}]}

DiscoverActiveDexes(r) ==
    /\ reads[r].pc = "discovery"
    /\ \E o \in CollectActivityCoins("orders", reads[r].cut),
          f \in CollectActivityCoins("fills", reads[r].cut),
          u \in CollectActivityCoins("funding", reads[r].cut) :
         LET active == (o.dexes \cup f.dexes \cup u.dexes) \cap catalogued
             all == {NativeDex} \cup active
             fits == Cardinality(all) <= maxDexes
         IN \E chosen \in {c \in SUBSET all : /\ NativeDex \in c
                                              /\ Cardinality(c) = IF fits THEN Cardinality(all)
                                                                  ELSE maxDexes},
               gaps \in AddSourceGaps({}, o.gap \cup f.gap \cup u.gap
                                            \cup IF fits THEN {} ELSE {Coverage}) :
              reads' = [reads EXCEPT ![r].pc = "batch", ![r].cut = Signalled(r),
                                     ![r].todo = chosen, ![r].gaps = gaps,
                                     ![r].from = portfolioClock]
    /\ UNCHANGED <<asked, portfolioClock, traded, maxDexes, catalogued, cache, loads>>

(* One batch: an account that cannot be read leaves its DEX out, orders that  *)
(* cannot be read are shown as none.  Catalog order is not modelled, except   *)
(* that the native DEX comes first.                                          *)
ReadBatch(r) ==
    /\ reads[r].pc = "batch"
    /\ \E batch \in {b \in SUBSET reads[r].todo :
                       /\ Cardinality(b) <= DexBatchSize
                       /\ Cardinality(b) = DexBatchSize \/ b = reads[r].todo
                       /\ NativeDex \in reads[r].todo => NativeDex \in b} :
       \E states \in (IF reads[r].cut THEN {{}} ELSE SUBSET batch) :
       \E orders \in (IF reads[r].cut THEN {{}} ELSE SUBSET states) :
       \E gaps \in AddSourceGaps(reads[r].gaps,
                     {StateOf(d) : d \in batch \ states}
                       \cup {OrdersOf(d) : d \in states \ orders}) :
         reads' = [reads EXCEPT ![r].pc = IF batch = reads[r].todo THEN "spot" ELSE "batch",
                                ![r].cut = Signalled(r),
                                ![r].todo = @ \ batch, ![r].gaps = gaps,
                                ![r].got = @ \cup {StateOf(d) : d \in states}
                                             \cup {OrdersOf(d) : d \in orders}]
    /\ UNCHANGED <<asked, portfolioClock, traded, maxDexes, catalogued, cache, loads>>

(* The spot balances; a malformed answer is a gap too.                      *)
ReadSpot(r) ==
    /\ reads[r].pc = "spot"
    /\ \/ ~reads[r].cut /\ LoadEnds(r, reads[r].got \cup {SpotBalances}, reads[r].gaps)
       \/ \E gaps \in AddSourceGaps(reads[r].gaps, {SpotBalances}) :
             LoadEnds(r, reads[r].got, gaps)
    /\ UNCHANGED <<asked, portfolioClock, traded, maxDexes, catalogued>>

(* The history is one stage of three requests, its gaps in a list of three.   *)
ReadHistory(r) ==
    /\ reads[r].pc = "history"
    /\ \E got \in SUBSET HistoryItems : LoadEnds(r, got, HistoryItems \ got)
    /\ UNCHANGED <<asked, portfolioClock, traded, maxDexes, catalogued>>

(* The caller closes its connection.                                        *)
CallerLeaves(r) ==
    /\ Loading(r) /\ ~reads[r].left
    /\ reads' = [reads EXCEPT ![r].left = TRUE]
    /\ UNCHANGED <<asked, portfolioClock, traded, maxDexes, catalogued, cache, loads>>

(* Time does not pass while an aborted request is being rejected.            *)
PortfolioTick ==
    /\ portfolioClock < MaxPortfolioTime
    /\ \A r \in Readers : Loading(r) /\ reads[r].pc # "catalog" => ~Signalled(r)
    /\ portfolioClock' = portfolioClock + 1
    /\ UNCHANGED <<asked, traded, maxDexes, catalogued, cache, loads, reads>>

PortfolioNext ==
    \/ \E r \in Readers, u \in Users, ph \in Phases : Read(r, u, ph)
    \/ \E r \in Readers : ReadCatalog(r) \/ DiscoverActiveDexes(r) \/ ReadBatch(r)
                            \/ ReadSpot(r) \/ ReadHistory(r) \/ CallerLeaves(r)
    \/ PortfolioTick

PortfolioSpec == PortfolioInit /\ [][PortfolioNext]_portfolioVars

-----------------------------------------------------------------------------

(* An answer is honest: what the account has and the answer lacks is accounted *)
(* for by a gap it discloses, and nothing in it was read longer ago than the    *)
(* deadline of a read and the life of a cache entry together, whoever's load it *)
(* was, aborted or not.                                                        *)
AnswersHonest ==
    \A r \in Readers : reads[r].pc = "answered" =>
       /\ reads[r].value.undisclosed = {}
       /\ reads[r].at - reads[r].value.from <= Deadline + CacheTtl(reads[r].value.phase)

=============================================================================
