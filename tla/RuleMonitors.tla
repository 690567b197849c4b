---------------------------- MODULE RuleMonitors ----------------------------
(***************************************************************************)
(* From a stored rule to an alert: the rule worker                         *)
(* (apps/api/src/rules/rule-worker.ts), the evaluator (rules/evaluator.ts) *)
(* and the shared monitor registry (monitor/registry.ts), over the rules   *)
(* and the alerts of the store (db/notification-store.ts).                 *)
(*                                                                         *)
(* All rules watch one target. The target has a value that moves and fills *)
(* that happen, whoever looks. The registry keeps one entry for the target *)
(* while some rule listens; reconciling an entry acquires or renews its    *)
(* lease, loads a snapshot, publishes it as the baseline and opens the     *)
(* stream, each step after an await, so the entry may lose its lease, its  *)
(* stream or its last listener, or be replaced, in between. An             *)
(* AbortController is a number; the reconciliation that made it keeps its  *)
(* `aborted'. Every update goes through the rule's own bounded chain.      *)
(***************************************************************************)
EXTENDS Naturals, Sequences, FiniteSets

CONSTANTS RuleSet,             \* rule ids
          Versions,            \* what a rule may ask: [event, threshold]
          Values,              \* values of the watched metric
          Absent,              \* no row, no value, no entry
          MaxPendingUpdates,   \* DEFAULT_MAX_PENDING_RULE_UPDATES
          MaxEdits,            \* bound: changes of the stored rules, and deltas
          MaxControllers       \* bound: entries, and controllers, still referred to at a time

EntryRow == [id : Nat, listeners : SUBSET RuleSet, lease : BOOLEAN, accepted : BOOLEAN,
             baseline : Values \cup {Absent}, controller : Nat]

ASSUME RuleMonitorsAssumption ==
    /\ MaxControllers \in Nat
    /\ Absent \notin EntryRow
    /\ Values \subseteq Nat
    /\ Versions \subseteq [event : {"price_above", "price_below", "funding_above",
                                    "funding_below", "margin_risk",
                                    "liquidation_risk", "fill"},
                           threshold : Values]

VARIABLES
    stored,     \* the active rules of the store: Absent or a version
    value,      \* the true value of the metric now
    edits,      \* changes of the stored rules and deltas so far
    listed,     \* the rules read by the reconciliation that is under way
    watch,      \* the worker's state of each rule: Absent or a record
    chains,     \* states that were dropped while a delta waits in their chain
    entry,      \* the registry's entry of the target, or Absent
    reconciling,\* reconciliations of an entry that are waiting for an answer
    live,       \* controllers whose stream is open at the source
    alerts,     \* event keys claimed in the store
    since       \* values the metric had while the stored version was active

monitorVars == <<stored, value, edits, listed, watch, chains, entry,
                 reconciling, live, alerts, since>>
worldVars == <<stored, value, edits, since>>

MonitorInit ==
    /\ stored = [r \in RuleSet |-> Absent]
    /\ value \in Values
    /\ edits = 0
    /\ listed = Absent
    /\ watch = [r \in RuleSet |-> Absent]
    /\ chains = {}
    /\ entry = Absent
    /\ reconciling = {}
    /\ live = {}
    /\ alerts = {}
    /\ since = [r \in RuleSet |-> {}]

-----------------------------------------------------------------------------
(* Rules and evaluation.                                                    *)

RuleDirection(event) ==
    CASE event \in {"price_above", "funding_above", "margin_risk"} -> "above"
      [] event \in {"price_below", "funding_below", "liquidation_risk"} -> "below"
      [] OTHER -> "none"

(* evaluateNotificationRule for a metric: nothing without a previous value,
   otherwise the threshold must lie between the two values.                  *)
Crosses(version, previous, current) ==
    /\ previous # Absent
    /\ CASE RuleDirection(version.event) = "above" ->
              previous < version.threshold /\ current >= version.threshold
         [] RuleDirection(version.event) = "below" ->
              previous > version.threshold /\ current <= version.threshold
         [] OTHER -> FALSE

(* metricFromBaseline, metricFromDelta and executionEvents: what an update says
   to a rule of this kind.                                                    *)
MetricFromBaseline(version, update) ==
    IF version.event = "fill" THEN Absent ELSE update.value

MetricFromDelta(version, update) ==
    IF version.event = "fill" \/ update.channel = "userFills" THEN Absent
    ELSE update.value

ExecutionEvents(version, update) ==
    version.event = "fill" /\ update.channel = "userFills"

(* normalizeRuleUpdate: the metric the rule remembers after the update.     *)
NextMetric(version, metric, update) ==
    LET new == IF update.kind = "baseline" THEN MetricFromBaseline(version, update)
               ELSE MetricFromDelta(version, update)
    IN IF new = Absent THEN metric ELSE new

Matches(version, metric, update) ==
    /\ update.kind = "delta"
    /\ \/ ExecutionEvents(version, update)
       \/ /\ MetricFromDelta(version, update) # Absent
          /\ Crosses(version, metric, MetricFromDelta(version, update))

(* createAlertForRuleMatch: the rule must still be stored as it was evaluated,
   and an event key is claimed once. The key is the rule, its identity and the
   source of the delta (its time stamp is left out: claims that differ in nothing
   else are one element).                                                     *)
ClaimAlert(r, version, update) ==
    alerts' = IF stored[r] = version
              THEN alerts \cup {[rule |-> r, version |-> version,
                                 channel |-> update.channel, seen |-> since[r]]}
              ELSE alerts

-----------------------------------------------------------------------------
(* The world: rules are put and deleted, the metric moves.                  *)

EditRule(r, version) ==
    /\ edits < MaxEdits /\ stored[r] # version
    /\ stored' = [stored EXCEPT ![r] = version]
    /\ edits' = edits + 1
    /\ since' = [since EXCEPT ![r] = IF version = Absent THEN {} ELSE {value}]
    /\ UNCHANGED <<value, listed, watch, chains, entry, reconciling, live, alerts>>

MoveValue(v) ==
    /\ v # value
    /\ value' = v
    /\ since' = [r \in RuleSet |-> IF stored[r] = Absent THEN {} ELSE since[r] \cup {v}]
    /\ UNCHANGED <<stored, edits, listed, watch, chains, entry, reconciling,
                   live, alerts>>

-----------------------------------------------------------------------------
(* The registry.                                                            *)

(* #enqueueUpdate: a full chain degrades the rule, once; its listener is taken
   away by #degradeState.                                                     *)
Enqueued(w, update) ==
    IF w = Absent \/ w.degraded THEN w
    ELSE IF Len(w.queue) >= MaxPendingUpdates
         THEN [w EXCEPT !.degraded = TRUE]
         ELSE [w EXCEPT !.queue = Append(@, update)]

(* #publish gives the update to every listener.                             *)
Published(update) ==
    [r \in RuleSet |-> IF r \in entry.listeners THEN Enqueued(watch[r], update)
                       ELSE watch[r]]

(* #stopStream: the baseline is forgotten, the controller aborted, the stream
   closed.                                                                    *)
StreamStopped(e) == [e EXCEPT !.accepted = FALSE, !.baseline = Absent, !.controller = 0]

(* The reconciliations once the entry e is stopped: its controller is aborted, one
   that is made later is not.                                                 *)
Aborting(e) == {[c EXCEPT !.aborted = @ \/ (c.id = e.id /\ c.controller # 0)] :
                   c \in reconciling}

(* The entry a reconciliation works on is no longer the registered one.       *)
Removed(c) == entry = Absent \/ entry.id # c.id

(* An object identity is a number that nothing still refers to.               *)
UnusedIds == (1..MaxControllers) \ ({c.id : c \in reconciling}
                \cup (IF entry = Absent THEN {} ELSE {entry.id}))

UnusedControllers == (1..MaxControllers) \ ({c.controller : c \in reconciling} \cup live
                        \cup (IF entry = Absent THEN {} ELSE {entry.controller}))

NewController == CHOOSE n \in UnusedControllers : TRUE

NewEntry == [id |-> CHOOSE n \in UnusedIds : TRUE, listeners |-> {}, lease |-> FALSE,
             accepted |-> FALSE, baseline |-> Absent, controller |-> 0]

(* The function returned by subscribe: the last listener takes the entry, its
   stream and its lease with it.                                              *)
Unsubscribed(e, gone) ==
    IF e = Absent THEN Absent
    ELSE IF e.listeners \subseteq gone THEN Absent
    ELSE [e EXCEPT !.listeners = @ \ gone]

LiveAfter(e) == IF e = Absent THEN {} ELSE live \cap {e.controller}

(* The reconciliations once the entry is e.                                    *)
FramesAfter(e) == IF e = Absent /\ entry # Absent THEN Aborting(entry) ELSE reconciling

Reconciling(e, stage, controller) ==
    [id |-> e.id, stage |-> stage, controller |-> controller, aborted |-> FALSE]

(* A new controller; the snapshot is requested.                               *)
LoadSnapshot(e) == [e EXCEPT !.accepted = FALSE, !.controller = NewController]

(* #reconcileEntryOnce up to its first await: without the lease it is acquired,
   when it is due it is renewed; otherwise a stream that is not open is started.
   An entry that is being reconciled is left to that reconciliation.          *)
ReconcileEntry ==
    /\ entry # Absent
    /\ \A c \in reconciling : c.id # entry.id
    /\ \/ /\ reconciling' = reconciling \cup
               {Reconciling(entry, IF entry.lease THEN "renewing" ELSE "acquiring", 0)}
          /\ UNCHANGED entry
       \/ /\ entry.lease /\ entry.controller \notin live /\ UnusedControllers # {}
          /\ reconciling' = reconciling \cup {Reconciling(entry, "loading", NewController)}
          /\ entry' = LoadSnapshot(entry)
    /\ UNCHANGED <<worldVars, listed, watch, chains, live, alerts>>

(* The lease is acquired or renewed. A renewal does not bring back the lease that
   ran out meanwhile. An entry that was removed meanwhile goes on too: nobody sees
   what is done to it.                                                        *)
LeaseGranted(c) ==
    /\ c.stage \in {"acquiring", "renewing"}
    /\ LET others == reconciling \ {c}
           granted == [entry EXCEPT !.lease = @ \/ c.stage = "acquiring"]
       IN IF ~Removed(c) /\ entry.controller \in live
          THEN /\ entry' = granted /\ reconciling' = others
          ELSE /\ UnusedControllers # {}
               /\ reconciling' = others \cup {Reconciling(c, "loading", NewController)}
               /\ entry' = IF Removed(c) THEN entry ELSE LoadSnapshot(granted)
    /\ UNCHANGED <<worldVars, listed, watch, chains, live, alerts>>

(* Egress is refused, another owner holds the lease or the store fails: nothing
   happens. A renewal that is refused costs the lease and the stream.         *)
LeaseDenied(c) ==
    /\ c.stage \in {"acquiring", "renewing"}
    /\ reconciling' = reconciling \ {c}
    /\ \/ UNCHANGED <<entry, live>>
       \/ /\ c.stage = "renewing" /\ ~Removed(c)
          /\ entry' = [StreamStopped(entry) EXCEPT !.lease = FALSE]
          /\ live' = live \ {entry.controller}
    /\ UNCHANGED <<worldVars, listed, watch, chains, alerts>>

\* Faulty variant: a lease that ended while it was renewed is not noticed.
StillWantedUnleased(c) == ~c.aborted /\ ~Removed(c)

StillWanted(c) == ~c.aborted /\ ~Removed(c) /\ entry.lease

(* The snapshot arrives: it is dropped unless its controller, the entry and the
   lease are still there; otherwise it is the baseline of every listener.     *)
SnapshotLoaded(c) ==
    /\ c.stage = "loading"
    /\ IF StillWanted(c)
       THEN /\ reconciling' = (reconciling \ {c}) \cup {[c EXCEPT !.stage = "opening"]}
            /\ entry' = [entry EXCEPT !.accepted = TRUE, !.baseline = value]
            /\ watch' = Published([kind |-> "baseline", value |-> value])
       ELSE /\ reconciling' = reconciling \ {c}
            /\ UNCHANGED <<entry, watch>>
    /\ UNCHANGED <<worldVars, listed, chains, live, alerts>>

(* The snapshot or the stream fails, or egress is refused before the stream: the
   entry is stopped. Egress refused before the snapshot leaves it as it is.   *)
ReconcileFails(c) ==
    /\ c.stage \in {"loading", "opening"}
    /\ reconciling' = reconciling \ {c}
    /\ \/ entry' = IF Removed(c) THEN entry ELSE StreamStopped(entry)
       \/ c.stage = "loading" /\ UNCHANGED entry
    /\ UNCHANGED <<worldVars, listed, watch, chains, live, alerts>>

(* The stream is open: it is closed at once when the controller was aborted
   while it opened.                                                           *)
StreamOpened(c) ==
    /\ c.stage = "opening"
    /\ reconciling' = reconciling \ {c}
    /\ live' = IF c.aborted THEN live ELSE live \cup {c.controller}
    /\ UNCHANGED <<worldVars, listed, watch, chains, entry, alerts>>

(* The lease runs out (#armLeaseExpiry), whatever the entry is doing, or a stream
   that opens or is open reports a gap: the stream stops; a gap leaves the lease. *)
StreamLost(gap) ==
    /\ entry # Absent
    /\ IF gap THEN entry.accepted ELSE entry.lease \/ entry.controller # 0
    /\ entry' = [StreamStopped(entry) EXCEPT !.lease = gap /\ @]
    /\ live' = live \ {entry.controller}
    /\ reconciling' = Aborting(entry)
    /\ UNCHANGED <<worldVars, listed, watch, chains, alerts>>

(* A delta of a stream that opens or is open: the current value, or a fill.   *)
Delta(channel) ==
    /\ entry # Absent /\ entry.accepted
    /\ edits < MaxEdits
    /\ edits' = edits + 1
    /\ watch' = Published([kind |-> "delta", channel |-> channel, value |-> value])
    /\ UNCHANGED <<stored, value, since, listed, chains, entry, reconciling, live, alerts>>

-----------------------------------------------------------------------------
(* The rule worker.                                                         *)

(* #handleUpdate on the head of a chain.                                    *)
HandleUpdate(r) ==
    /\ watch[r] # Absent /\ watch[r].queue # <<>>
    /\ LET w == watch[r]
           update == Head(w.queue)
       IN /\ watch' = [watch EXCEPT ![r].queue = Tail(@),
                         ![r].metric = NextMetric(w.version, w.metric, update)]
          /\ IF Matches(w.version, w.metric, update)
             THEN ClaimAlert(r, w.version, update) \/ UNCHANGED alerts \* not persisted
             ELSE UNCHANGED alerts
    /\ UNCHANGED <<worldVars, listed, chains, entry, reconciling, live>>

(* The chain of a state the worker has dropped goes on to its end.          *)
HandleDropped(w) ==
    /\ LET update == Head(w.queue)
           rest == [w EXCEPT !.queue = Tail(@),
                             !.metric = NextMetric(w.version, w.metric, update)]
       IN /\ chains' = (chains \ {w}) \cup (IF rest.queue = <<>> THEN {} ELSE {rest})
          /\ IF Matches(w.version, w.metric, update) THEN ClaimAlert(w.rule, w.version, update)
             ELSE UNCHANGED alerts
    /\ UNCHANGED <<worldVars, listed, watch, entry, reconciling, live>>

(* #degradeState: the listener is removed; the state is detached once that is done. *)
Detach(r) ==
    /\ watch[r] # Absent /\ watch[r].degraded /\ ~watch[r].detached
    /\ watch' = [watch EXCEPT ![r].detached = TRUE]
    /\ entry' = Unsubscribed(entry, {r})
    /\ live' = LiveAfter(entry')
    /\ reconciling' = FramesAfter(entry')
    /\ UNCHANGED <<worldVars, listed, chains, alerts>>

(* listActiveRules: the pages are read before anything is changed.          *)
ListActiveRules ==
    /\ listed = Absent
    /\ listed' = stored
    /\ UNCHANGED <<worldVars, watch, chains, entry, reconciling, live, alerts>>

(* A listed rule is subscribed when the worker has no state of that version, or
   a degraded one that has come to rest.                                      *)
Subscribes(r) ==
    /\ listed[r] # Absent
    /\ \/ watch[r] = Absent
       \/ watch[r].version # listed[r]
       \/ watch[r].degraded /\ watch[r].detached /\ watch[r].queue = <<>>

FreshState(r, e) ==
    [rule |-> r, version |-> listed[r], metric |-> Absent,
     queue |-> IF e.accepted THEN <<[kind |-> "baseline", value |-> e.baseline]>> ELSE <<>>,
     degraded |-> FALSE, detached |-> FALSE]

(* The chains of these rules' states that outlive them. The marks of a dropped
   state have no reader, and neither has a baseline that no delta follows.    *)
LeftOver(rules) ==
    {[watch[r] EXCEPT !.degraded = FALSE, !.detached = FALSE] :
        r \in {q \in rules : /\ watch[q] # Absent
                             /\ \E k \in DOMAIN watch[q].queue :
                                   watch[q].queue[k].kind = "delta"}}

(* reconcileRules: states of rules that are gone are dropped, changed and new
   rules are subscribed. A rule that joins a running entry is given the baseline
   the entry keeps.                                                           *)
ReconcileRules ==
    /\ listed # Absent
    /\ LET fresh == {r \in RuleSet : Subscribes(r)}
           gone == {r \in RuleSet : watch[r] # Absent /\ listed[r] = Absent}
           left == Unsubscribed(entry, gone)
           base == IF left = Absent THEN (IF fresh = {} THEN Absent ELSE NewEntry) ELSE left
       IN /\ left = Absent /\ fresh # {} => UnusedIds # {}
          /\ entry' = IF base = Absent THEN Absent
                      ELSE [base EXCEPT !.listeners = @ \cup fresh]
          /\ watch' = [r \in RuleSet |->
                         IF r \in fresh THEN FreshState(r, base)
                         ELSE IF r \in gone THEN Absent ELSE watch[r]]
          /\ chains' = chains \cup LeftOver(fresh \cup gone)
          /\ live' = LiveAfter(left)
          /\ reconciling' = FramesAfter(left)
    /\ listed' = Absent
    /\ UNCHANGED <<worldVars, alerts>>

(* close: every state and the entry are given up.                           *)
CloseWorker ==
    /\ listed = Absent /\ entry # Absent
    /\ chains' = chains \cup LeftOver(RuleSet)
    /\ watch' = [r \in RuleSet |-> Absent]
    /\ entry' = Absent /\ live' = {}
    /\ reconciling' = Aborting(entry)
    /\ UNCHANGED <<worldVars, listed, alerts>>

MonitorNext ==
    \/ \E r \in RuleSet : (\E v \in Versions \cup {Absent} : EditRule(r, v))
                            \/ HandleUpdate(r) \/ Detach(r)
    \/ \E v \in Values : MoveValue(v)
    \/ ReconcileEntry
    \/ \E c \in reconciling : \/ LeaseGranted(c) \/ LeaseDenied(c)
                              \/ SnapshotLoaded(c) \/ ReconcileFails(c) \/ StreamOpened(c)
    \/ \E gap \in BOOLEAN : StreamLost(gap)
    \/ \E channel \in {"activeAssetCtx", "userFills"} : Delta(channel)
    \/ \E w \in chains : HandleDropped(w)
    \/ ListActiveRules \/ ReconcileRules \/ CloseWorker

MonitorSpec == MonitorInit /\ [][MonitorNext]_monitorVars

-----------------------------------------------------------------------------
(* However an entry is removed, loses its lease or reports a gap while its
   snapshot or its stream is on the way, no stream stays open that the registry
   would not close, and none is open without the lease.                      *)
NoStrayStream ==
    \A c \in live : entry # Absent /\ entry.controller = c /\ entry.lease

(* A metric alert reports a crossing: while the rule was stored, the metric was on
   the near side of the threshold.                                           *)
AlertIsCrossing ==
    \A a \in alerts : a.channel = "activeAssetCtx" =>
       \E v \in a.seen :
          IF RuleDirection(a.version.event) = "above" THEN v < a.version.threshold
          ELSE v > a.version.threshold

=============================================================================
