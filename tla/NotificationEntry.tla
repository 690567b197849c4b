-------------------------- MODULE NotificationEntry --------------------------
(***************************************************************************)
(* Opening an alert from a notification (features/notifications/intent.ts, *)
(* pending-intent.ts, local-state.ts, app/notification.tsx and the claims  *)
(* of provider.tsx). A screen claims the alert, fetches it, asks before it *)
(* switches to another account, refreshes, and records the alert as        *)
(* handled. Several screens may be open for one alert, a screen may be     *)
(* closed at any wait, the process may be killed. A notification that      *)
(* arrives in the background leaves one id behind for the next start.      *)
(***************************************************************************)
EXTENDS Integers, Sequences, FiniteSets

CONSTANTS Alerts,           \* each is about an account of its own
          Screens,          \* runs of the entry screen's effect
          MaxHandled,       \* MAX_HANDLED_ALERTS
          MaxOpens,         \* bound: screens opened
          MaxEntryFaults    \* bound: failed calls and writes, kills

ASSUME EntryAssumption == MaxHandled \in Nat

VARIABLES
    screens,     \* per screen: [phase, alert, aborted]
    inFlight,    \* inFlightAlertIds
    history,     \* handledAlertIds, oldest first
    pending,     \* the id a background task stored, or none
    savedTargets,\* alerts whose account is in the directory
    context,     \* the alert whose account is active, or none
    opens, entryFaults

entryVars == <<screens, inFlight, history, pending, savedTargets, context, opens, entryFaults>>

None == "none"
Closed == [phase |-> "closed", alert |-> None, aborted |-> FALSE]

EntryInit ==
    /\ screens = [s \in Screens |-> Closed]
    /\ inFlight = {} /\ history = <<>> /\ pending = None
    /\ savedTargets = Alerts /\ context = None
    /\ opens = 0 /\ entryFaults = 0

Results == {"ready", "duplicate", "declined", "target_unavailable",
            "context_change_failed", "refresh_failed"}

EntryFault == entryFaults < MaxEntryFaults /\ entryFaults' = entryFaults + 1

Shows(s, phase) == screens' = [screens EXCEPT ![s].phase = phase]

(* The finally of open: the claim is given back with whatever it shows.      *)
Ends(s, result) ==
    /\ Shows(s, result)
    /\ inFlight' = inFlight \ {screens[s].alert}

\* Faulty variant: an alert another screen is working on is claimed again.
ClaimedByNobody(alert) == TRUE

(* claimAlert looks at the claims before it waits for the history.           *)
Unclaimed(alert) == alert \notin inFlight

Entering(s, alert) ==
    /\ screens[s].phase = "closed" /\ opens < MaxOpens
    /\ opens' = opens + 1
    /\ screens' = [screens EXCEPT ![s] =
          [phase |-> IF Unclaimed(alert) THEN "claiming" ELSE "duplicate",
           alert |-> alert, aborted |-> FALSE]]
    /\ inFlight' = inFlight \cup {alert}

(* The response listener, a link, or a push of the route by a second tap.    *)
Open(s, alert) ==
    /\ Entering(s, alert)
    /\ UNCHANGED <<history, pending, savedTargets, context, entryFaults>>

(* The background task: the last id stored is the one that is kept.          *)
StorePending(alert) ==
    /\ pending' = alert /\ pending # alert
    /\ UNCHANGED <<screens, inFlight, history, savedTargets, context, opens, entryFaults>>

(* At the start, when no response opened the app: consume.                   *)
ConsumePending(s) ==
    /\ pending # None /\ \A other \in Screens : screens[other] = Closed
    /\ Entering(s, pending)
    /\ pending' = None
    /\ UNCHANGED <<history, savedTargets, context, entryFaults>>

Handled(alert) == \E n \in DOMAIN history : history[n] = alert

Claim(s) ==
    /\ screens[s].phase = "claiming"
    /\ IF Handled(screens[s].alert) THEN Ends(s, "duplicate")
       ELSE Shows(s, "fetching") /\ UNCHANGED inFlight
    /\ UNCHANGED <<history, pending, savedTargets, context, opens, entryFaults>>

(* The local state cannot be read: the claim is given back.                  *)
ClaimUnread(s) ==
    /\ screens[s].phase = "claiming" /\ EntryFault
    /\ Ends(s, "duplicate")
    /\ UNCHANGED <<history, pending, savedTargets, context, opens>>

(* fetchAlert answered an active alert; its target is looked up, and the user
   is asked before the context changes.                                       *)
Fetch(s) ==
    /\ screens[s].phase = "fetching"
    /\ CASE screens[s].aborted -> Ends(s, "refresh_failed")
         [] screens[s].alert \notin savedTargets -> Ends(s, "target_unavailable")
         [] screens[s].alert = context -> Shows(s, "refreshing") /\ UNCHANGED inFlight
         [] OTHER -> Shows(s, "confirming") /\ UNCHANGED inFlight
    /\ UNCHANGED <<history, pending, savedTargets, context, opens, entryFaults>>

(* The alert was removed or is not authorised, or the call failed.           *)
FetchRefused(s) ==
    /\ screens[s].phase = "fetching" /\ EntryFault
    /\ Ends(s, "target_unavailable")
    /\ UNCHANGED <<history, pending, savedTargets, context, opens>>

(* A closed screen declines.                                                 *)
Confirm(s, accepted) ==
    /\ screens[s].phase = "confirming"
    /\ IF accepted /\ ~screens[s].aborted
       THEN Shows(s, "activating") /\ UNCHANGED inFlight
       ELSE Ends(s, "declined")
    /\ UNCHANGED <<history, pending, savedTargets, context, opens, entryFaults>>

(* activate: the context is switched, then the saved account selected, which
   may have been removed meanwhile.                                           *)
Activate(s) ==
    /\ screens[s].phase = "activating"
    /\ context' = screens[s].alert
    /\ IF screens[s].alert \in savedTargets THEN Shows(s, "refreshing") /\ UNCHANGED inFlight
       ELSE Ends(s, "context_change_failed")
    /\ UNCHANGED <<history, pending, savedTargets, opens, entryFaults>>

ActivateRefused(s) ==
    /\ screens[s].phase = "activating" /\ EntryFault
    /\ Ends(s, "context_change_failed")
    /\ UNCHANGED <<history, pending, savedTargets, context, opens>>

Refreshed(s) ==
    /\ screens[s].phase = "refreshing"
    /\ IF screens[s].aborted THEN Ends(s, "refresh_failed")
       ELSE Shows(s, "committing") /\ UNCHANGED inFlight
    /\ UNCHANGED <<history, pending, savedTargets, context, opens, entryFaults>>

(* refreshAuthoritativeNotificationTarget throws, or the history cannot be
   written.                                                                   *)
RefreshRefused(s) ==
    /\ screens[s].phase \in {"refreshing", "committing"} /\ EntryFault
    /\ Ends(s, "refresh_failed")
    /\ UNCHANGED <<history, pending, savedTargets, context, opens>>

(* markAlertHandled: the last MaxHandled are kept.                           *)
Marked(alert) ==
    IF Handled(alert) THEN history
    ELSE LET all == Append(history, alert)
         IN SubSeq(all, IF Len(all) > MaxHandled THEN Len(all) - MaxHandled + 1 ELSE 1, Len(all))

CommitAlert(s) ==
    /\ screens[s].phase = "committing"
    /\ history' = Marked(screens[s].alert)
    /\ Ends(s, "ready")
    /\ UNCHANGED <<pending, savedTargets, context, opens, entryFaults>>

(* The screen is left: its work is aborted and goes on to the next wait.      *)
Leave(s) ==
    /\ screens[s].phase # "closed" /\ ~screens[s].aborted
    /\ screens' = [screens EXCEPT ![s] = IF @.phase \in Results THEN Closed
                                         ELSE [@ EXCEPT !.aborted = TRUE]]
    /\ UNCHANGED <<inFlight, history, pending, savedTargets, context, opens, entryFaults>>

(* What an aborted screen ended with is shown to nobody.                     *)
Discarded(s) ==
    /\ screens[s].phase \in Results /\ screens[s].aborted
    /\ screens' = [screens EXCEPT ![s] = Closed]
    /\ UNCHANGED <<inFlight, history, pending, savedTargets, context, opens, entryFaults>>

RemoveTarget(alert) ==
    /\ alert \in savedTargets
    /\ savedTargets' = savedTargets \ {alert}
    /\ UNCHANGED <<screens, inFlight, history, pending, context, opens, entryFaults>>

KillEntry ==
    /\ EntryFault
    /\ screens' = [s \in Screens |-> Closed] /\ inFlight' = {} /\ context' = None
    /\ UNCHANGED <<history, pending, savedTargets, opens>>

EntryNext ==
    \/ \E s \in Screens :
          \/ ConsumePending(s) \/ Claim(s) \/ ClaimUnread(s) \/ Fetch(s) \/ FetchRefused(s)
          \/ Activate(s) \/ ActivateRefused(s) \/ Refreshed(s) \/ RefreshRefused(s)
          \/ CommitAlert(s)
          \/ Leave(s) \/ Discarded(s)
          \/ \E alert \in Alerts : Open(s, alert)
          \/ \E accepted \in BOOLEAN : Confirm(s, accepted)
    \/ \E alert \in Alerts : StorePending(alert) \/ RemoveTarget(alert)
    \/ KillEntry

EntrySpec == EntryInit /\ [][EntryNext]_entryVars

-----------------------------------------------------------------------------
(* Opens of one alert, however they overlap, are closed, fail and are retried,
   end in at most one that is carried through: a screen becomes ready only for
   an alert the history does not have yet. The claim is given back by every way
   an open can end, so that a later one can succeed.                          *)
AlertOpenedOnce ==
    [][\A s \in Screens :
         /\ screens[s].phase # "ready" /\ screens'[s].phase = "ready"
              => ~Handled(screens[s].alert)
         /\ screens[s].phase = "closed" /\ screens'[s].phase = "duplicate"
              => Handled(screens'[s].alert)
                   \/ \E other \in Screens \ {s} :
                         screens[other].phase \notin Results \cup {"closed"}
                           /\ screens[other].alert = screens'[s].alert]_entryVars

=============================================================================
