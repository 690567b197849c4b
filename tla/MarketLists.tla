---------------------------- MODULE MarketLists ----------------------------
(***************************************************************************)
(* The market lists of the app (features/markets, core/storage) over the    *)
(* catalog generations the service publishes (MarketCatalog): summaries are  *)
(* read page by page with a cursor that names its generation, re-read as a   *)
(* whole by a timer, a pull or a refused page, and the first page is kept on  *)
(* the device; the full catalog is revalidated by the tag of its generation.  *)
(* Answers may come from an HTTP cache, as their headers allow, so an answer   *)
(* is of any generation published so far.  React Query, which runs the         *)
(* requests and replaces the pages of a list in one step, is external.         *)
(***************************************************************************)
EXTENDS Integers, Sequences, FiniteSets

CONSTANTS
    Listings,           \* markets, as numbers: the order of their labels
    Volumes,            \* what the list is sorted by; 0 is no value
    PageSize,           \* MARKET_SUMMARY_PAGE_SIZE
    NoPage,             \* null
    MaxGenerations, MaxListFaults, MaxRestarts   \* bounds

ASSUME ListAssumption ==
    /\ Listings \subseteq Nat \ {0} /\ IsFiniteSet(Listings) /\ Volumes \subseteq Nat
    /\ {MaxGenerations, MaxListFaults, MaxRestarts} \subseteq Nat /\ PageSize \in Nat \ {0}

NotReading == -1

VARIABLES
    publications,       \* the catalogs published: their offered markets' volumes
    restrictToIds,      \* the list is of the user's favourites or recent markets
    pages,              \* the pages of the list
    pageStatus,         \* the list's query: "pending", "success" or "error"
    listFetch,          \* what it is fetching
    devicePage,         \* the first page kept on the device
    catalogCache,       \* the backend client's catalog with its tag
    catalogRead,        \* its read under way: the tag it sent
    listFaults, restarts

listVars == <<publications, restrictToIds, pages, pageStatus, listFetch, devicePage,
              catalogCache, catalogRead, listFaults, restarts>>

-----------------------------------------------------------------------------
(* The service.                                                             *)

(* compareSummaries: by volume, the ones without a value last, then by label.  *)
SummaryBefore(catalog, a, b) ==
    \/ catalog[a] > catalog[b]
    \/ catalog[a] = catalog[b] /\ a < b

(* Markets in that order: each is where as many come before it.               *)
Ordered(markets, volume) ==
    [place \in 1..Cardinality(markets) |->
        CHOOSE x \in markets :
            Cardinality({y \in markets : SummaryBefore(volume, y, x)}) = place - 1]

(* The summaries that match a query, in order.  ids = <<>> matches all.       *)
Summaries(catalog, ids) ==
    Ordered({x \in DOMAIN catalog : ids = <<>> \/ \E n \in 1..Len(ids) : ids[n] = x}, catalog)

(* The cursor into a generation; without one (generation 0) it is the first page. *)
Cursor(g, offset) == [generation |-> g, offset |-> offset]
NoCursor == Cursor(0, 0)

(* Faulty variant: the cursor's generation is not compared.                   *)
CursorFitsAny(cursor, g) == TRUE

(* parseMarketSummaryCursor: a cursor is good for its own generation only.     *)
CursorFits(cursor, g) == cursor.generation \in {0, g}

Slice(s, offset, n) == SubSeq(s, offset + 1, IF offset + n < Len(s) THEN offset + n ELSE Len(s))

(* createMarketSummaryPage, for a cursor that fits.                           *)
SummaryPage(catalog, g, ids, cursor) ==
    LET summaries == Summaries(catalog, ids)
        items == Slice(summaries, cursor.offset, PageSize)
        nextOffset == cursor.offset + Len(items)
    IN [generation |-> g, items |-> items, total |-> Len(summaries),
        nextCursor |-> IF nextOffset < Len(summaries) THEN Cursor(g, nextOffset) ELSE NoCursor]

(* marketSummaryResponse: nothing is served of an empty catalog, or for another   *)
(* generation's cursor.                                                       *)
SummaryServed(g, cursor) == publications[g] # <<>> /\ CursorFits(cursor, g)

(* marketCatalogResponse: the answer's tag is its generation; the one the client  *)
(* has is not sent again.                                                     *)
CatalogServed(g) == publications[g] # <<>>
CatalogUnchanged(tag, g) == tag = g

(* parseMarketSummaryPage: what the app checks of a page it got.                 *)
PageParses(page) ==
    /\ Len(page.items) <= page.total
    /\ CursorFits(page.nextCursor, page.generation)

(* A generation is published: any markets, with any volumes.                  *)
Publish ==
    /\ Len(publications) < MaxGenerations
    /\ \E offered \in SUBSET Listings : \E catalog \in [offered -> Volumes] :
         publications' = Append(publications, catalog)
    /\ UNCHANGED <<restrictToIds, pages, pageStatus, listFetch, devicePage, catalogCache,
                   catalogRead, listFaults, restarts>>

-----------------------------------------------------------------------------
(* The list.                                                                *)

(* The user's favourites, in an order that is not the service's.              *)
FavoriteIds == Ordered(Listings, [x \in Listings |-> x])

NoListFetch == [kind |-> "idle"]
FirstParam == [cursor |-> NoCursor, idOffset |-> 0]

(* getNextPageParam: of a restricted list the next ids, else the cursor; none   *)
(* at the end.                                                               *)
HasNextPage(got) ==
    IF restrictToIds THEN Len(got) * PageSize < Len(FavoriteIds)
    ELSE got[Len(got)].nextCursor # NoCursor

NextParam(got) ==
    IF restrictToIds THEN [cursor |-> NoCursor, idOffset |-> Len(got) * PageSize]
    ELSE [cursor |-> got[Len(got)].nextCursor, idOffset |-> 0]

(* The ids a page asks for.                                                  *)
PageIds(param) ==
    IF restrictToIds THEN Slice(FavoriteIds, param.idOffset, PageSize)
    ELSE <<>>

ListInit ==
    /\ publications = <<>>
    /\ restrictToIds \in BOOLEAN
    /\ pages = <<>> /\ pageStatus = "pending"
    /\ listFetch = NoListFetch
    /\ devicePage = NoPage
    /\ catalogCache = NoPage /\ catalogRead = NotReading
    /\ listFaults = 0 /\ restarts = 0

FetchAll == [kind |-> "all", got |-> <<>>, want |-> IF pages = <<>> THEN 1 ELSE Len(pages),
             param |-> FirstParam]

(* A mount, the interval or a pull reads every page again, from the first.     *)
RefetchList ==
    /\ listFetch.kind # "all"
    /\ listFetch' = FetchAll
    /\ UNCHANGED <<publications, restrictToIds, pages, pageStatus, devicePage, catalogCache,
                   catalogRead, listFaults, restarts>>

(* The end of the list is near; a refetch under way is given up.              *)
LoadNextPage ==
    /\ pages # <<>> /\ HasNextPage(pages) /\ listFetch.kind # "more"
    /\ listFetch' = [kind |-> "more", got |-> pages, want |-> Len(pages) + 1,
                     param |-> NextParam(pages)]
    /\ UNCHANGED <<publications, restrictToIds, pages, pageStatus, devicePage, catalogCache,
                   catalogRead, listFaults, restarts>>

(* A page arrives.  The list is replaced when the last page wanted is there.   *)
PageArrives ==
    /\ listFetch.kind # "idle"
    /\ \E g \in 1..Len(publications) :
         LET param == listFetch.param
             page == SummaryPage(publications[g], g, PageIds(param), param.cursor)
             got == Append(listFetch.got, page)
         IN /\ SummaryServed(g, param.cursor) /\ PageParses(page)
            /\ \/ /\ Len(got) < listFetch.want /\ HasNextPage(got)
                  /\ listFetch' = [listFetch EXCEPT !.got = got, !.param = NextParam(got)]
                  /\ UNCHANGED <<pages, pageStatus>>
               \/ /\ Len(got) = listFetch.want \/ ~HasNextPage(got)
                  /\ pages' = got /\ pageStatus' = "success"
                  /\ listFetch' = NoListFetch
    /\ UNCHANGED <<publications, restrictToIds, devicePage, catalogCache, catalogRead,
                   listFaults, restarts>>

(* 409: the cursor's generation is gone.  The pages so far stay; after a next   *)
(* page the whole list is read again.                                        *)
GenerationChanged ==
    /\ listFetch.kind # "idle"
    /\ ~CursorFits(listFetch.param.cursor, Len(publications))
    /\ pageStatus' = "error"
    /\ listFetch' = IF listFetch.kind = "more" THEN FetchAll ELSE NoListFetch
    /\ UNCHANGED <<publications, restrictToIds, pages, devicePage, catalogCache, catalogRead,
                   listFaults, restarts>>

(* The request failed to the end: offline, a timeout, a 503, a bad answer.     *)
ListFails ==
    /\ listFetch.kind # "idle"
    /\ listFaults < MaxListFaults /\ listFaults' = listFaults + 1
    /\ pageStatus' = "error" /\ listFetch' = NoListFetch
    /\ UNCHANGED <<publications, restrictToIds, pages, devicePage, catalogCache, catalogRead,
                   restarts>>

-----------------------------------------------------------------------------
(* The device.                                                              *)

(* Only the first page of the default list is kept, and only of a query without *)
(* an error: a failed refetch removes it.  The write is throttled, so it may be  *)
(* overtaken by any number of changes.                                        *)
PersistFirstPage ==
    /\ ~restrictToIds
    /\ devicePage' = IF pageStatus = "success" THEN Head(pages) ELSE NoPage
    /\ UNCHANGED <<publications, restrictToIds, pages, pageStatus, listFetch, catalogCache,
                   catalogRead, listFaults, restarts>>

(* The app starts again with what the device kept, unless it is too old.       *)
RestartApp ==
    /\ restarts < MaxRestarts /\ restarts' = restarts + 1
    /\ listFetch' = NoListFetch /\ catalogCache' = NoPage /\ catalogRead' = NotReading
    /\ \/ /\ devicePage # NoPage /\ ~restrictToIds
          /\ pages' = <<devicePage>> /\ pageStatus' = "success"
       \/ pages' = <<>> /\ pageStatus' = "pending"
    /\ UNCHANGED <<publications, restrictToIds, devicePage, listFaults>>

-----------------------------------------------------------------------------
(* The full catalog.  catalogRead is the generation that the request's          *)
(* if-none-match names, 0 without one.                                        *)

ReadCatalog ==
    /\ catalogRead = NotReading
    /\ catalogRead' = IF catalogCache = NoPage THEN 0 ELSE catalogCache.generation
    /\ UNCHANGED <<publications, restrictToIds, pages, pageStatus, listFetch, devicePage,
                   catalogCache, listFaults, restarts>>

(* 304 for the generation the client has, else the catalog with its tag.       *)
CatalogArrives ==
    /\ catalogRead # NotReading
    /\ \E g \in 1..Len(publications) :
         /\ CatalogServed(g)
         /\ catalogCache' = IF CatalogUnchanged(catalogRead, g) THEN catalogCache
                            ELSE [generation |-> g, markets |-> publications[g]]
    /\ catalogRead' = NotReading
    /\ UNCHANGED <<publications, restrictToIds, pages, pageStatus, listFetch, devicePage,
                   listFaults, restarts>>

CatalogFails ==
    /\ catalogRead # NotReading /\ catalogRead' = NotReading
    /\ UNCHANGED <<publications, restrictToIds, pages, pageStatus, listFetch, devicePage,
                   catalogCache, listFaults, restarts>>

PagesNext ==
    \/ Publish \/ RefetchList \/ LoadNextPage \/ PageArrives \/ GenerationChanged \/ ListFails
    \/ PersistFirstPage \/ RestartApp

CatalogNext == Publish \/ RestartApp \/ ReadCatalog \/ CatalogArrives \/ CatalogFails

ListSpec == ListInit /\ [][PagesNext \/ CatalogNext]_listVars

-----------------------------------------------------------------------------

(* The markets of the list, and whether it is said to have any: by the first page, *)
(* or for a restricted list by each page of its own ids, whose totals are added.    *)
ShownMarkets == UNION {{pages[i].items[n] : n \in 1..Len(pages[i].items)} : i \in 1..Len(pages)}
SomeInTotal ==
    IF restrictToIds THEN \E i \in 1..Len(pages) : pages[i].total > 0
    ELSE pages # <<>> /\ Head(pages).total > 0

(* deriveContent: what the screen shows; a query is paused when it waits for the   *)
(* network.                                                                   *)
Content(online) ==
    IF pages = <<>> /\ ~online /\ listFetch.kind # "idle" THEN "unavailable"
    ELSE IF pages = <<>> /\ pageStatus = "pending" THEN "loading"
    ELSE IF pages # <<>> /\ SomeInTotal THEN "ready"
    ELSE IF pageStatus = "error" THEN "unavailable" ELSE "empty"

(* However refetches, next pages, refusals, caches and restarts interleave, the  *)
(* pages of the default list are the first so many of one published generation, in  *)
(* its order, and say correctly whether there are more; a restricted list, whose     *)
(* pages may be of several generations, shows no market twice.  Failed or not, online *)
(* or not, the screen is ready exactly when there is a market to show; and a catalog    *)
(* that was not sent again is the one its tag names.                                     *)
ListIsOneGeneration ==
    /\ ~restrictToIds /\ pages # <<>> =>
         LET whole == Summaries(publications[Head(pages).generation], <<>>)
         IN /\ \A i \in 1..Len(pages) :
                 /\ pages[i].generation = Head(pages).generation
                 /\ pages[i].items = Slice(whole, (i - 1) * PageSize, PageSize)
            /\ (pages[Len(pages)].nextCursor = NoCursor)
                  = (Len(pages) * PageSize >= Len(whole))
    /\ restrictToIds =>
         \A i, j \in 1..Len(pages) :
         \A m \in 1..Len(pages[i].items), n \in 1..Len(pages[j].items) :
            pages[i].items[m] = pages[j].items[n] => i = j /\ m = n
    /\ catalogCache # NoPage => catalogCache.markets = publications[catalogCache.generation]
    /\ \A online \in BOOLEAN : (Content(online) = "ready") = (ShownMarkets # {})

(* A failed refetch does not cost the next start its list.  Refuted, and not among *)
(* the runs: the save that follows the failure writes a cache without the query.    *)
DevicePageKept ==
    [][devicePage # NoPage => devicePage' # NoPage]_listVars

=============================================================================
