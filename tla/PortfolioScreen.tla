-------------------------- MODULE PortfolioScreen --------------------------
(***************************************************************************)
(* The Portfolio screen (app/(tabs)/portfolio.tsx) and the data under it    *)
(* (features/portfolio): snapshots of the account fetched from the service,  *)
(* re-fetched on account events and on a timer; the rows made of them; the   *)
(* editor of a close or of a protective order; and the three handlers that    *)
(* build the review of an action from what is shown.  A handler works on what *)
(* the screen showed when the button was pressed, and two of them wait for    *)
(* random bytes in between.  React renders and runs its effects in one step    *)
(* that comes some time after what it renders.                               *)
(***************************************************************************)
EXTENDS Integers, FiniteSets

CONSTANTS
    Holders,           \* accounts the user switches between
    Presses,           \* handler calls that may overlap
    NoSnapshot, NoEditor,
    OrderIds,          \* protective orders; a larger number is a later order
    MaxSize,           \* bound: size of a position
    MaxPresses,        \* bound: presses
    MaxScreenChanges,  \* bound: changes around the screen: of accounts, selection, session, clock
    Window,            \* age at which a snapshot no longer supports a review
    StaleTime          \* age at which the query calls its data stale

ASSUME ScreenAssumption ==
    /\ {MaxSize, MaxPresses, MaxScreenChanges} \subseteq Nat
    /\ {Window, StaleTime} \subseteq Nat
    /\ OrderIds \subseteq Nat \ {0}

VARIABLES
    screenClock,
    venue,             \* external: an account's position and protective orders
    selection,         \* the supervisor's account and epoch
    fetching,          \* the selected account's query: how far its fetch is, and the answer,
    live,              \* its data and when they arrived,
    invalidated,       \* and whether they were invalidated
    coalesced,         \* an invalidation is scheduled
    signable,          \* signer, session, metadata and runtime allow a review
    shown,             \* what the last render showed
    portfolioEditor,
    fence,             \* the operation closeOperationFence holds current, 0 for none
    cancelInFlight,    \* the two refs that keep actions apart
    closeInFlight,     \* 0, or the operation being prepared
    rows,              \* the mounted rows: which review they wait for
    pressed, moved,    \* bounds: presses so far, and changes around the screen
    presses            \* handler calls; `selected` is what the press found selected

dataVars == <<venue, fetching, live, invalidated, coalesced>>
handlerVars == <<fence, cancelInFlight, closeInFlight, rows, pressed, presses>>
screenVars == <<screenClock, moved, dataVars, selection, signable, shown, portfolioEditor, handlerVars>>

ScreenChanges == moved < MaxScreenChanges /\ moved' = moved + 1

NoPress == [pc |-> "idle"]
NoFetch == [pc |-> "idle"]
Asked == [pc |-> "asked"]
Answered(snapshot) == [pc |-> "answered", snapshot |-> snapshot]

ScreenInit ==
    /\ screenClock = 0
    /\ venue = [a \in Holders |-> [version |-> 0, size |-> 1, orders |-> OrderIds]]
    /\ \E a \in Holders : /\ selection = [account |-> a, epoch |-> 0]
                          /\ shown = [account |-> a, snapshot |-> NoSnapshot, enabled |-> FALSE,
                                      signable |-> TRUE]
    /\ fetching = NoFetch /\ live = NoSnapshot /\ invalidated = FALSE
    /\ coalesced = FALSE
    /\ signable = TRUE
    /\ portfolioEditor = NoEditor
    /\ fence = 0 /\ cancelInFlight = FALSE /\ closeInFlight = 0 /\ pressed = 0 /\ moved = 0
    /\ rows = [mounted |-> 0, close |-> FALSE, cancel |-> FALSE]
    /\ presses = [p \in Presses |-> NoPress]

-----------------------------------------------------------------------------
(* Data.                                                                    *)

(* Of several protective orders the latest is shown; 0 when there is none.    *)
ProtectiveOrder(orders) ==
    IF orders = {} THEN 0 ELSE CHOOSE o \in orders : \A p \in orders : p <= o

(* The snapshot of an account with its normalised position row.  Size 0 is no   *)
(* row at all; the market is listed and active.                                *)
Normalized(a) ==
    [account |-> a, version |-> venue[a].version, observedAt |-> screenClock,
     size |-> venue[a].size, oid |-> ProtectiveOrder(venue[a].orders),
     orders |-> venue[a].orders, closeEnabled |-> venue[a].size > 0]

(* The account changes on the exchange; an event of the shown account may reach *)
(* the screen, where it schedules an invalidation unless one is scheduled.     *)
VenueChanges(a) ==
    /\ ScreenChanges
    /\ \E size \in 0..MaxSize, orders \in SUBSET OrderIds :
         /\ <<size, orders>> # <<venue[a].size, venue[a].orders>>
         /\ venue' = [venue EXCEPT ![a] = [version |-> @.version + 1, size |-> size,
                                           orders |-> orders]]
    /\ coalesced' \in {coalesced, coalesced \/ a = shown.account}
    /\ UNCHANGED <<screenClock, selection, fetching, live, invalidated, signable,
                   shown, portfolioEditor, handlerVars>>

(* The coalesced invalidation runs; a fetch under way absorbs it.  The query of  *)
(* an account that is no longer selected is gone.                             *)
InvalidateLive ==
    /\ coalesced /\ coalesced' = FALSE
    /\ \/ /\ shown.account = selection.account
          /\ invalidated' = (live # NoSnapshot)
          /\ fetching' = IF fetching = NoFetch THEN Asked ELSE fetching
       \/ /\ shown.account # selection.account
          /\ UNCHANGED <<invalidated, fetching>>
    /\ UNCHANGED <<screenClock, moved, venue, selection, live, signable, shown, portfolioEditor,
                   handlerVars>>

(* A mount, the reconcile interval or a pull asks for the shown account.      *)
Refetch ==
    /\ shown.account = selection.account /\ fetching = NoFetch
    /\ fetching' = Asked
    /\ UNCHANGED <<screenClock, moved, venue, selection, live, invalidated, coalesced, signable,
                   shown, portfolioEditor, handlerVars>>

(* The service answers.  That it may answer from its cache (PortfolioSnapshots)  *)
(* is part of the time between this step and the arrival.                      *)
ServiceAnswers ==
    /\ fetching = Asked
    /\ fetching' = Answered(Normalized(selection.account))
    /\ UNCHANGED <<screenClock, moved, venue, selection, live, invalidated, coalesced, signable,
                   shown, portfolioEditor, handlerVars>>

(* The answer arrives, and what was invalidated before it counts as fresh.    *)
FetchSucceeds ==
    /\ fetching.pc = "answered"
    /\ live' = [snapshot |-> fetching.snapshot, arrivedAt |-> screenClock]
    /\ invalidated' = FALSE /\ fetching' = NoFetch
    /\ UNCHANGED <<screenClock, moved, venue, selection, coalesced, signable, shown,
                   portfolioEditor, handlerVars>>

FetchFails ==
    /\ fetching # NoFetch /\ fetching' = NoFetch
    /\ UNCHANGED <<screenClock, moved, venue, selection, live, invalidated, coalesced, signable,
                   shown, portfolioEditor, handlerVars>>

(* The supervisor commits another account: private queries of the others are   *)
(* cancelled and removed.                                                    *)
SwitchAccount(a) ==
    /\ a # selection.account /\ ScreenChanges
    /\ selection' = [account |-> a, epoch |-> selection.epoch + 1]
    /\ fetching' = NoFetch /\ live' = NoSnapshot /\ invalidated' = FALSE
    /\ UNCHANGED <<screenClock, venue, coalesced, signable, shown, portfolioEditor,
                   handlerVars>>

(* The session locks, or metadata or runtime go away.                       *)
SetSignable ==
    /\ ScreenChanges /\ signable' = ~signable
    /\ UNCHANGED <<screenClock, dataVars, selection, shown, portfolioEditor, handlerVars>>

-----------------------------------------------------------------------------
(* Rendering.                                                               *)

(* assertActionCurrent, and the same condition when rendering and reviewing.   *)
SnapshotCurrent(snapshot) == screenClock - snapshot.observedAt <= Window

(* portfolioEvidenceAllowsReview: refreshing data count even when stale.       *)
EvidenceAllowsReview ==
    \/ fetching # NoFetch
    \/ ~invalidated /\ screenClock - live.arrivedAt < StaleTime

Screen ==
    IF live = NoSnapshot
    THEN [account |-> selection.account, snapshot |-> NoSnapshot, enabled |-> FALSE,
          signable |-> signable]
    ELSE [account |-> selection.account, snapshot |-> live.snapshot, signable |-> signable,
          enabled |-> signable /\ SnapshotCurrent(live.snapshot) /\ EvidenceAllowsReview]

(* reviewScope: everything a review depends on.                              *)
ReviewScope(screen) == <<screen.account, screen.snapshot, screen.signable>>

(* Faulty variant: only a vanished position closes the editor.                *)
EditorSurvivesAnywhere(screen) ==
    portfolioEditor # NoEditor /\ screen.snapshot # NoSnapshot => screen.snapshot.size > 0

(* The editor's account is still the one shown, and its position still there.  *)
EditorSurvives(screen) ==
    /\ screen.account = shown.account
    /\ portfolioEditor # NoEditor /\ screen.snapshot # NoSnapshot => screen.snapshot.size > 0

(* A render with its effects: another scope invalidates the operation being    *)
(* prepared, another account cancels the scheduled invalidation, and without    *)
(* data the rows are unmounted.                                              *)
Render ==
    /\ Screen # shown
    /\ shown' = Screen
    /\ fence' = IF ReviewScope(Screen) # ReviewScope(shown) \/ ~EditorSurvives(Screen)
                THEN 0 ELSE fence
    /\ portfolioEditor' = IF EditorSurvives(Screen) THEN portfolioEditor ELSE NoEditor
    /\ coalesced' = (coalesced /\ Screen.account = shown.account)
    /\ rows' = IF Screen.snapshot = NoSnapshot /\ shown.snapshot # NoSnapshot
               THEN [mounted |-> rows.mounted + 1, close |-> FALSE, cancel |-> FALSE] ELSE rows
    /\ UNCHANGED <<screenClock, moved, venue, selection, fetching, live, invalidated,
                   signable, cancelInFlight, closeInFlight, pressed, presses>>

-----------------------------------------------------------------------------
(* The editor.  Any change of it invalidates the operation being prepared.    *)

SetEditor(next) ==
    /\ portfolioEditor' = next
    /\ fence' = IF closeInFlight # 0 THEN 0 ELSE fence

(* createCloseDraft and createPositionTpslDraft, from the row shown.  A draft    *)
(* names its position, not the account (kept here for the property alone).  One   *)
(* of a protective order has no size: the order is of the whole position.         *)
Draft(kind) == [kind |-> kind, account |-> shown.account, oid |-> shown.snapshot.oid,
                size |-> IF kind = "tpsl" THEN 0 ELSE shown.snapshot.size]

RowOffersActions == shown.enabled /\ shown.snapshot.closeEnabled

OpenEditor ==
    /\ RowOffersActions
    /\ \E kind \in {"limit_close", "tpsl"} : SetEditor(Draft(kind))
    /\ UNCHANGED <<screenClock, moved, dataVars, selection, signable, shown, cancelInFlight,
                   closeInFlight, rows, pressed, presses>>

EditSize ==
    /\ portfolioEditor # NoEditor
    /\ portfolioEditor.kind = "limit_close"
    /\ \E size \in 1..MaxSize : SetEditor([portfolioEditor EXCEPT !.size = size])
    /\ UNCHANGED <<screenClock, moved, dataVars, selection, signable, shown, cancelInFlight,
                   closeInFlight, rows, pressed, presses>>

(* The back button closes the editor without touching the fence.             *)
CloseEditor ==
    /\ portfolioEditor # NoEditor
    /\ portfolioEditor' = NoEditor
    /\ fence' \in {fence, IF closeInFlight # 0 THEN 0 ELSE fence}
    /\ UNCHANGED <<screenClock, moved, dataVars, selection, signable, shown, cancelInFlight,
                   closeInFlight, rows, pressed, presses>>

-----------------------------------------------------------------------------
(* Handlers.  One that stops before its operation began changes nothing,      *)
(* except reviewCancel.                                                      *)

(* An attempt that may go on: nothing else is prepared, the data are current.  *)
MayPrepare ==
    shown.enabled /\ ~cancelInFlight /\ closeInFlight = 0 /\ SnapshotCurrent(shown.snapshot)

(* A close is of the whole position or of a part of it, a market close of the   *)
(* whole.                                                                    *)
CloseIntentBuilds(draft, snapshot) ==
    draft.size <= snapshot.size /\ (draft.kind = "market_close" => draft.size = snapshot.size)

(* A protective order replaces the one the draft was opened for.               *)
PositionTpslIntentBuilds(draft, snapshot) == draft.oid = snapshot.oid

(* assertPortfolioReviewOwner: the snapshot is current and of the account.     *)
ReviewOwned(account, snapshot) == SnapshotCurrent(snapshot) /\ snapshot.account = account

ReviewBuilds(call) ==
    /\ ReviewOwned(call.account, call.snapshot) /\ call.snapshot.closeEnabled
    /\ \/ call.draft.kind = "tpsl" /\ PositionTpslIntentBuilds(call.draft, call.snapshot)
       \/ call.draft.kind # "tpsl" /\ CloseIntentBuilds(call.draft, call.snapshot)

(* reviewClose and reviewPositionTpsl up to the random bytes.  The button of a  *)
(* market close closes the editor and takes a draft of its own.               *)
ReviewPosition(p) ==
    /\ presses[p].pc = "idle" /\ pressed < MaxPresses /\ pressed' = pressed + 1
    /\ RowOffersActions /\ MayPrepare /\ ~rows.close
    /\ rows' = [rows EXCEPT !.close = TRUE]
    /\ \E draft \in {Draft("market_close"), portfolioEditor} \ {NoEditor} :
         /\ presses' = [presses EXCEPT ![p] =
              [pc |-> "random", draft |-> draft, snapshot |-> shown.snapshot,
               scope |-> ReviewScope(shown), epoch |-> selection.epoch,
               account |-> shown.account, selected |-> selection.account,
               token |-> pressed + 1, rows |-> rows.mounted]]
         /\ portfolioEditor' = IF draft.kind = "market_close" THEN NoEditor ELSE portfolioEditor
    /\ fence' = pressed + 1 /\ closeInFlight' = pressed + 1
    /\ UNCHANGED <<screenClock, moved, dataVars, selection, signable, shown, cancelInFlight>>

(* Faulty variant: nothing is compared after the wait.                        *)
StillCurrentAlways(call) == TRUE

(* What the handler captured is still so: the fence, the scope of the latest   *)
(* render, and the supervisor's epoch.                                        *)
StillCurrent(call) ==
    call.token = fence /\ call.scope = ReviewScope(shown) /\ call.epoch = selection.epoch

Released(call) == IF closeInFlight = call.token THEN 0 ELSE closeInFlight

(* The rows that called the handler, if still mounted, wait no longer.        *)
RowsFree(call) ==
    IF rows.mounted # call.rows THEN rows
    ELSE IF call.draft.kind = "cancel" THEN [rows EXCEPT !.cancel = FALSE]
         ELSE [rows EXCEPT !.close = FALSE]

(* The bytes are there: the review is built from what was captured and handed   *)
(* to the action runtime.                                                     *)
HandReview(p) ==
    LET call == presses[p]
    IN /\ call.pc = "random"
       /\ StillCurrent(call)
       /\ ReviewBuilds(call)
       /\ presses' = [presses EXCEPT ![p].pc = "handed"]
       /\ portfolioEditor' = NoEditor
       /\ UNCHANGED <<screenClock, moved, dataVars, selection, signable, shown, fence,
                      cancelInFlight, closeInFlight, rows, pressed>>

(* The handler stops: the bytes failed, something changed, or the review does   *)
(* not build.                                                                *)
PreparationStops(p) ==
    /\ presses[p].pc = "random"
    /\ presses' = [presses EXCEPT ![p] = NoPress]
    /\ closeInFlight' = Released(presses[p]) /\ rows' = RowsFree(presses[p])
    /\ UNCHANGED <<screenClock, moved, dataVars, selection, signable, shown, portfolioEditor, fence,
                   cancelInFlight, pressed>>

(* reviewCancel of an order that is shown, which waits for nothing before the   *)
(* review is handed over.                                                     *)
ReviewCancel(p) ==
    /\ presses[p].pc = "idle" /\ pressed < MaxPresses /\ pressed' = pressed + 1
    /\ MayPrepare /\ ReviewOwned(shown.account, shown.snapshot) /\ ~rows.cancel
    /\ rows' = [rows EXCEPT !.cancel = TRUE]
    /\ \E o \in shown.snapshot.orders :
         presses' = [presses EXCEPT ![p] =
           [pc |-> "handed", snapshot |-> shown.snapshot, account |-> shown.account,
            selected |-> selection.account, token |-> 0, rows |-> rows.mounted,
            draft |-> [kind |-> "cancel", account |-> shown.account, size |-> 0, oid |-> o]]]
    /\ cancelInFlight' = TRUE
    /\ UNCHANGED <<screenClock, moved, dataVars, selection, signable, shown, portfolioEditor, fence,
                   closeInFlight>>

(* A refused reviewCancel clears the flag, which may be another call's.        *)
CancelRefused ==
    /\ shown.enabled /\ shown.snapshot.orders # {}
    /\ cancelInFlight /\ ~rows.cancel
    /\ cancelInFlight' = FALSE
    /\ UNCHANGED <<screenClock, moved, dataVars, selection, signable, shown, portfolioEditor, fence,
                   closeInFlight, rows, pressed, presses>>

(* reviewAndSubmit settles.                                                   *)
ReviewEnds(p) ==
    /\ presses[p].pc = "handed"
    /\ presses' = [presses EXCEPT ![p] = NoPress]
    /\ cancelInFlight' = (cancelInFlight /\ presses[p].draft.kind # "cancel")
    /\ closeInFlight' = Released(presses[p]) /\ rows' = RowsFree(presses[p])
    /\ UNCHANGED <<screenClock, moved, dataVars, selection, signable, shown, portfolioEditor, fence,
                   pressed>>

ScreenTick ==
    /\ ScreenChanges /\ screenClock' = screenClock + 1
    /\ UNCHANGED <<dataVars, selection, signable, shown, portfolioEditor, handlerVars>>

ScreenNext ==
    \/ \E a \in Holders : VenueChanges(a) \/ SwitchAccount(a)
    \/ ServiceAnswers \/ FetchSucceeds \/ FetchFails
    \/ InvalidateLive \/ Refetch \/ SetSignable \/ Render
    \/ OpenEditor \/ EditSize \/ CloseEditor \/ CancelRefused \/ ScreenTick
    \/ \E p \in Presses : ReviewPosition(p) \/ HandReview(p) \/ PreparationStops(p)
                            \/ ReviewCancel(p) \/ ReviewEnds(p)

ScreenSpec == ScreenInit /\ [][ScreenNext]_screenVars

-----------------------------------------------------------------------------

(* A review of the account the user sees, from the snapshot on the screen, within *)
(* the window, with a draft that was opened for that account: a close of no more    *)
(* than the position shown, of all of it at the market; a protective order in place *)
(* of the one shown.                                                           *)
ReviewsThePosition(call) ==
    /\ call.selected = selection.account /\ call.account = shown.account
    /\ call.draft.account = call.account /\ call.snapshot.account = call.account
    /\ call.snapshot = shown.snapshot
    /\ screenClock - call.snapshot.observedAt <= Window
    /\ call.draft.kind = "limit_close" => call.draft.size <= shown.snapshot.size
    /\ call.draft.kind = "market_close" => call.draft.size = shown.snapshot.size
    /\ call.draft.kind = "tpsl" => call.draft.oid = shown.snapshot.oid

(* However long the preparation took, a review is handed over only while the     *)
(* selection is what it was at the press, of what the screen shows by then.  (A     *)
(* press between a commit of the supervisor and its render still works on the      *)
(* account shown: the orchestrator compares the context again.)                   *)
ReviewIsCurrent ==
    [][\A p \in Presses : presses[p].pc # "handed" /\ presses'[p].pc = "handed" =>
         ReviewsThePosition(presses'[p])]_screenVars

(* One action is prepared at a time.  Not so in the code: a refused cancellation  *)
(* clears the flag of the one under way.                                      *)
OneReviewAtATime ==
    \A p, q \in Presses : presses[p].pc # "idle" /\ presses[q].pc # "idle" => p = q

=============================================================================
