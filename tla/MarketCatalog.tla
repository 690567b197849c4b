---------------------------- MODULE MarketCatalog ----------------------------
(***************************************************************************)
(* The market catalogue service: processes that share one database claim   *)
(* the synchronisation of a network, fetch a part of the catalogue from    *)
(* Hyperliquid and write it into the generation being built, which is      *)
(* published when its last page is in (apps/api/src/catalog/               *)
(* market-catalog-sync.ts).                                                *)
(*                                                                         *)
(* There are two stores, with the same interface and different writing.    *)
(* The Postgres store (catalog/market-catalog-store.ts) copies the         *)
(* published generation when it starts a new one, and writes in            *)
(* transactions that lock the state row. The D1 store                      *)
(* (cloudflare/d1-market-catalog-store.ts) starts empty, copies the        *)
(* sources it could not fetch one by one, reads the state before it writes *)
(* and makes every statement conditional on the lease. The variable store  *)
(* says which of the two a behaviour runs.                                 *)
(*                                                                         *)
(* The records of a source are modelled by the generation in which they    *)
(* were fetched, 0 when it has none.                                       *)
(***************************************************************************)
EXTENDS Integers, FiniteSets, FiniteSetsExt

CONSTANTS Processes,
          Nobody,             \* the owner of a free lease
          MaxDexes,           \* bound: builder dexes listed upstream
          PageSize,           \* BUILDER_PAGE_SIZE
          MaxPageFailures,    \* MAX_PAGE_FAILURES
          MaxGenerations,     \* bound: generations started
          MaxClaims           \* bound: leases given

ASSUME CatalogAssumption ==
    /\ Nobody \notin Processes
    /\ {MaxDexes, MaxGenerations, MaxClaims} \subseteq Nat
    /\ {PageSize, MaxPageFailures} \subseteq Nat \ {0}

(* The sources: the native perpetuals have index 0, builder dexes 1, 2, ...
   The enumeration of the dexes has only an error row.                        *)
Native == 0
Spot == -1
PerpDexs == -2
Core == {Native, Spot}
Sources == Core \cup (1 .. MaxDexes)

VARIABLES
    store,        \* "postgres" or "d1"
    sync,         \* the row of market_catalog_sync_state, without its lease
    lease,        \* its lease: [owner, number, expired]
    rows,         \* by generation: records, errors and (D1) resolved sources
    process,      \* what each process is doing
    fetched       \* the sources stored while building, and the last total listed

catalogVars == <<store, sync, lease, rows, process, fetched>>

NoRows == [records |-> [s \in Sources |-> 0], errors |-> {}, resolved |-> {}]
Unbuilt(published) == [published |-> published, building |-> 0, coreReady |-> FALSE,
                       offset |-> 0, failures |-> 0]
Asleep == [phase |-> "idle"]
FreeLease == [owner |-> Nobody, number |-> 0, expired |-> FALSE]
NothingFetched == [sources |-> {}, total |-> 0]

CatalogInit ==
    /\ store \in {"postgres", "d1"}
    /\ sync = Unbuilt(0)
    /\ lease = FreeLease
    /\ rows = [g \in 1 .. MaxGenerations |-> NoRows]
    /\ process = [w \in Processes |-> Asleep]
    /\ fetched = NothingFetched

-----------------------------------------------------------------------------
(* Claiming.                                                                *)

(* A Postgres transaction that has locked the row keeps others waiting.     *)
RowLocked == store = "postgres" /\ \E w \in Processes : process[w].phase = "checked"

(* What the process keeps of the row it claimed.                            *)
LeaseFromRow(row, number) ==
    [phase |-> "fetching", number |-> number, building |-> row.building,
     published |-> row.published, coreReady |-> row.coreReady, offset |-> row.offset]

(* The Postgres store fills the new generation with the published one.      *)
CopiedFromPublished(row) ==
    IF row.published = 0 THEN NoRows ELSE rows[row.published]

Started(row) == [Unbuilt(row.published) EXCEPT !.building = row.published + 1]

ClaimDueSync(w) ==
    LET number == lease.number + 1
        begins == sync.building = 0
    IN /\ process[w] = Asleep /\ ~RowLocked
       /\ lease.owner = Nobody \/ lease.expired
       /\ number <= MaxClaims /\ sync.published < MaxGenerations
       /\ lease' = [owner |-> w, number |-> number, expired |-> FALSE]
       /\ IF begins /\ store = "d1"
          THEN /\ process' = [process EXCEPT ![w] =
                                [phase |-> "claimed", number |-> number,
                                 published |-> sync.published]]
               /\ UNCHANGED <<sync, rows, fetched>>
          ELSE LET row == IF begins THEN Started(sync) ELSE sync
               IN /\ sync' = row
                  /\ process' = [process EXCEPT ![w] = LeaseFromRow(row, number)]
                  /\ rows' = IF begins
                             THEN [rows EXCEPT ![row.building] = CopiedFromPublished(sync)]
                             ELSE rows
                  /\ fetched' = IF begins THEN NothingFetched ELSE fetched
       /\ UNCHANGED store

(* D1: the batch that empties and starts the generation, if the lease is still
   this one and nothing was started since.                                    *)
StartGeneration(w) ==
    LET claim == process[w]
    IN /\ claim.phase = "claimed"
       /\ IF /\ lease.owner = w /\ lease.number = claim.number
             /\ sync.published = claim.published /\ sync.building = 0
          THEN /\ sync' = Started(sync)
               /\ rows' = [rows EXCEPT ![sync.published + 1] = NoRows]
               /\ fetched' = NothingFetched
               /\ process' = [process EXCEPT ![w] = LeaseFromRow(Started(sync), claim.number)]
          ELSE /\ process' = [process EXCEPT ![w] = Asleep]
               /\ UNCHANGED <<sync, rows, fetched>>
       /\ UNCHANGED <<store, lease>>

-----------------------------------------------------------------------------
(* Fetching (discoverMarketCatalog). A source that fails is reported beside the
   others; when the dexes cannot be listed the page is empty and its total 0.   *)

CorePages == {[total |-> 0, dexes |-> {}, listed |-> TRUE, errors |-> e] :
                e \in SUBSET {Spot}}

BuilderPages(offset) ==
    {[total |-> 0, dexes |-> {}, listed |-> FALSE, errors |-> {PerpDexs}]} \cup
    UNION {LET dexes == {d \in 1 .. total : d > offset /\ d <= offset + PageSize}
           IN {[total |-> total, dexes |-> dexes, listed |-> TRUE, errors |-> e] :
                 e \in SUBSET dexes} : total \in 0 .. MaxDexes}

(* #core refuses a catalogue without native perpetuals, so its pages have them. *)
Fetch(w) ==
    /\ process[w].phase = "fetching"
    /\ \E page \in IF process[w].coreReady THEN BuilderPages(process[w].offset)
                   ELSE CorePages :
         process' = [process EXCEPT ![w] =
                       [phase |-> "fetched", lease |-> process[w], page |-> page]]
    /\ UNCHANGED <<store, sync, lease, rows, fetched>>

-----------------------------------------------------------------------------
(* Writing.                                                                 *)

(* The condition of every write: the lease is still the one that was claimed and
   the generation is still the one being built.                               *)
LeaseHeld(w, held) ==
    lease.owner = w /\ lease.number = held.number /\ sync.building = held.building

(* lockLease (Postgres) and #claimedState (D1).                              *)
LockLease(w) ==
    /\ process[w].phase = "fetched" /\ ~RowLocked
    /\ process' = [process EXCEPT ![w].phase =
                     IF LeaseHeld(w, process[w].lease) /\ ~lease.expired
                     THEN "checked" ELSE "failed"]
    /\ UNCHANGED <<store, sync, lease, rows, fetched>>

(* replaceSourceRecords: the old rows and the error go.                     *)
ReplaceSourceRecords(gen, g, sources) ==
    [gen EXCEPT !.records = [s \in Sources |-> IF s \in sources THEN g ELSE @[s]],
                !.errors = @ \ sources]

(* synchronizeSourceStatements: the same, and the source is resolved.       *)
SynchronizeSource(gen, g, sources) ==
    [ReplaceSourceRecords(gen, g, sources) EXCEPT !.resolved = @ \cup sources]

(* retainSourceStatements: an unresolved source is copied once from the
   published generation; a resolved one keeps what it has.                    *)
RetainSource(gen, published, sources) ==
    [gen EXCEPT !.records = [s \in Sources |->
                   IF s \in sources \ gen.resolved /\ published # 0
                   THEN rows[published].records[s] ELSE @[s]],
                !.resolved = @ \cup sources]

UpsertSourceErrors(gen, errors) == [gen EXCEPT !.errors = @ \cup errors]

(* retainMissingBuilderStatements: what the published generation had resolved and
   this one has not, with its errors.                                         *)
RetainMissingBuilders(gen, published) ==
    IF published = 0 THEN gen
    ELSE LET missing == {s \in rows[published].resolved : s > 0} \ gen.resolved
         IN [RetainSource(gen, published, missing) EXCEPT
               !.errors = @ \cup (rows[published].errors \cap missing)]

\* Faulty variant: a source that failed is left out.
StoredWithoutRetaining(gen, held, page) ==
    LET g == held.building
        ok == (IF held.coreReady THEN page.dexes ELSE Core) \ page.errors
    IN UpsertSourceErrors(IF store = "postgres" THEN ReplaceSourceRecords(gen, g, ok)
                          ELSE SynchronizeSource(gen, g, ok), page.errors)

(* The sources of a page: replaced, or kept with their error.                *)
Stored(gen, held, page) ==
    LET g == held.building
        ok == (IF held.coreReady THEN page.dexes ELSE Core) \ page.errors
        kept == page.errors \ {PerpDexs}
        cleared == IF held.coreReady /\ page.listed
                   THEN [gen EXCEPT !.errors = @ \ {PerpDexs}] ELSE gen
    IN UpsertSourceErrors(
         IF store = "postgres" THEN ReplaceSourceRecords(cleared, g, ok)
         ELSE RetainSource(SynchronizeSource(cleared, g, ok), held.published, kept),
         page.errors)

(* retainedBuilderTotal: the highest dex with rows or an error.             *)
RetainedBuilderTotal(gen) ==
    Max({0} \cup {s \in 1 .. MaxDexes : gen.records[s] # 0 \/ s \in gen.errors})

(* publishGeneration (Postgres) drops the dexes above the total;
   publishStatements (D1) publishes what was resolved.                        *)
Publishable(gen, held, page) ==
    IF store = "d1"
    THEN IF page.listed THEN gen ELSE RetainMissingBuilders(gen, held.published)
    ELSE LET total == IF ~page.listed /\ held.published # 0
                      THEN RetainedBuilderTotal(gen) ELSE page.total
         IN [gen EXCEPT !.records = [s \in Sources |-> IF s > total THEN 0 ELSE @[s]],
                        !.errors = {s \in @ : s <= total}]

(* publishGeneration and publishStatements keep this generation and the one
   before.                                                                    *)
PublishGeneration(held, gen) ==
    /\ sync' = Unbuilt(held.building)
    /\ rows' = [g \in DOMAIN rows |->
                  IF g = held.building THEN gen
                  ELSE IF g < held.building - 1 THEN NoRows ELSE rows[g]]

UpdateClaimedState(held, gen, ready, offset, failures) ==
    /\ sync' = [sync EXCEPT !.coreReady = ready, !.offset = offset, !.failures = failures]
    /\ rows' = [rows EXCEPT ![held.building] = gen]

(* A page may be left with errors after MaxPageFailures attempts.            *)
Advances(page) == page.errors = {} \/ sync.failures + 1 >= MaxPageFailures

CompleteCore(held, page) ==
    LET gen == Stored(rows[held.building], held, page)
    IN UpdateClaimedState(held, gen, Advances(page), held.offset,
                          IF Advances(page) THEN 0 ELSE sync.failures + 1)

CompleteBuilderPage(held, page) ==
    LET gen == Stored(rows[held.building], held, page)
        next == Min({page.total, held.offset + Cardinality(page.dexes)})
    IN IF ~Advances(page)
       THEN UpdateClaimedState(held, gen, TRUE, held.offset, sync.failures + 1)
       ELSE IF next < page.total
       THEN UpdateClaimedState(held, gen, TRUE, next, 0)
       ELSE PublishGeneration(held, Publishable(gen, held, page))

(* The transaction, or the batch of conditional statements: without the lease it
   writes nothing and the process records a failure.                          *)
Complete(w) ==
    LET held == process[w].lease
        page == process[w].page
    IN /\ process[w].phase = "checked"
       /\ IF LeaseHeld(w, held)
          THEN /\ \/ held.coreReady /\ CompleteBuilderPage(held, page)
                  \/ ~held.coreReady /\ CompleteCore(held, page)
               /\ lease' = [lease EXCEPT !.owner = Nobody, !.expired = FALSE]
               /\ process' = [process EXCEPT ![w] = Asleep]
               /\ fetched' = [sources |-> fetched.sources \cup
                                ((IF held.coreReady THEN page.dexes ELSE Core) \ page.errors),
                              total |-> IF held.coreReady /\ page.listed THEN page.total
                                        ELSE fetched.total]
          ELSE /\ process' = [process EXCEPT ![w].phase = "failed"]
               /\ UNCHANGED <<sync, lease, rows, fetched>>
       /\ UNCHANGED store

(* The fetch or the transaction throws.                                     *)
Throws(w) ==
    /\ \/ process[w].phase = "fetching"
       \/ process[w].phase = "checked" /\ store = "postgres"
    /\ process' = [process EXCEPT ![w] =
         [phase |-> "failed", lease |-> IF @.phase = "fetching" THEN @ ELSE @.lease]]
    /\ UNCHANGED <<store, sync, lease, rows, fetched>>

(* recordFailure gives the lease back if it is still held.                  *)
RecordFailure(w) ==
    /\ process[w].phase = "failed"
    /\ lease' = IF LeaseHeld(w, process[w].lease)
                THEN [lease EXCEPT !.owner = Nobody, !.expired = FALSE] ELSE lease
    /\ process' = [process EXCEPT ![w] = Asleep]
    /\ UNCHANGED <<store, sync, rows, fetched>>

(* The process dies; its lease runs out later.                              *)
ProcessDies(w) ==
    /\ process[w] # Asleep
    /\ process' = [process EXCEPT ![w] = Asleep]
    /\ UNCHANGED <<store, sync, lease, rows, fetched>>

LeaseExpires ==
    /\ lease.owner # Nobody /\ ~lease.expired
    /\ lease' = [lease EXCEPT !.expired = TRUE]
    /\ UNCHANGED <<store, sync, rows, process, fetched>>

CatalogNext ==
    \/ \E w \in Processes :
         \/ ClaimDueSync(w) \/ StartGeneration(w) \/ Fetch(w) \/ LockLease(w)
         \/ Complete(w) \/ Throws(w) \/ RecordFailure(w) \/ ProcessDies(w)
    \/ LeaseExpires

CatalogSpec == CatalogInit /\ [][CatalogNext]_catalogVars

-----------------------------------------------------------------------------
(* readPublished: what a client is given for the published generation.      *)
ReadPublished == [records |-> rows[sync.published].records,
                  errors |-> rows[sync.published].errors]

(* Through lost leases, failed sources, pages and attempts, and whichever store
   holds it: what clients were given under a generation number (their cache key)
   never changes, the building of a generation never falls behind what was already
   stored, and a newly published generation has for every listed source the records
   fetched while it was built, or else those of the generation before it together
   with an error the client is shown. The first generation has nothing to fall back
   on.                                                                        *)
CatalogOnlyAdvances ==
    [][/\ sync'.published >= sync.published
       /\ sync'.published = sync.published /\ sync.published # 0
            => ReadPublished' = ReadPublished
       /\ sync'.building = sync.building
            => /\ sync.coreReady => sync'.coreReady
               /\ sync'.offset >= sync.offset
       /\ sync'.published # sync.published /\ sync.published # 0 =>
            LET before == rows[sync.published].records
                now == rows'[sync'.published]
            IN \A s \in Core \cup (1 .. fetched'.total) :
                 IF s \in fetched'.sources THEN now.records[s] = sync'.published
                 ELSE /\ now.records[s] = before[s]
                      /\ s \in now.errors \/ PerpDexs \in now.errors]_catalogVars

=============================================================================
