---------------------------- MODULE ServiceProofs ----------------------------
(***************************************************************************)
(* Theorems about the parts of the service, each of its own specification: *)
(* the registry never leaves a stream open that it would not close         *)
(* (RuleMonitors), every connection of the source is counted and serves    *)
(* someone (StreamPool), a connection's subscriptions come to what is      *)
(* listened to (WebSocketSession), the store changes only for a request    *)
(* whose installation proved the change (NotificationAuthority), a         *)
(* portfolio answer discloses what it lacks and is no older than promised  *)
(* (PortfolioSnapshots), and the catalogue only advances (MarketCatalog).  *)
(* They hold for any number of rules, callers, connections, listeners,     *)
(* installations, accounts, proofs, readers, sources, processes and        *)
(* requests under way.                                                     *)
(***************************************************************************)
EXTENDS RuleMonitors, StreamPool, NotificationAuthority, PortfolioSnapshots,
        MarketCatalog, WebSocketSession, FiniteSetTheorems, WellFoundedInduction, TLAPS

-----------------------------------------------------------------------------
(* The registry and its streams.                                            *)

RunRow == [id : Nat, controller : Nat,
           stage : {"acquiring", "renewing", "loading", "opening"},
           aborted : BOOLEAN]

RegistryTypeOK ==
    /\ value \in Values
    /\ entry = Absent \/ entry \in EntryRow
    /\ reconciling \subseteq RunRow

\* A stream is open only for the attempt the entry holds, and under its lease.
EntryHolds(c) ==
    entry # Absent /\ entry.controller = c /\ entry.lease /\ c # 0

\* While the registered entry's snapshot or stream is on the way no stream is
\* open, and the entry holds that attempt unless it was aborted. A stream that
\* may still be kept is one the entry holds under its lease.
RunInv(c) ==
    /\ c.stage \in {"loading", "opening"} =>
          /\ c.controller # 0
          /\ ~Removed(c) => live = {}
    /\ c.stage = "loading" /\ ~c.aborted /\ ~Removed(c) =>
          entry.controller = c.controller
    /\ c.stage = "opening" /\ ~c.aborted =>
          ~Removed(c) /\ EntryHolds(c.controller)

RegistryInv ==
    /\ RegistryTypeOK
    /\ \A c \in live : EntryHolds(c)
    /\ \A c \in reconciling : RunInv(c)
    /\ \A c, d \in reconciling : c.id = d.id => c = d

LEMMA RegistryInit == MonitorInit => RegistryInv
BY DEF MonitorInit, RegistryInv, RegistryTypeOK

\* What the steps of the registry make of an entry.
LEMMA EntryLease ==
    ASSUME NEW e \in EntryRow, NEW l \in BOOLEAN
    PROVE  LET f == [e EXCEPT !.lease = l]
           IN  f \in EntryRow /\ f.id = e.id /\ f.controller = e.controller
               /\ f.lease = l
BY DEF EntryRow

Attempting(f, e, n) == f = [e EXCEPT !.accepted = FALSE, !.controller = n]

LEMMA EntryAttempt ==
    ASSUME NEW e \in EntryRow, NEW n \in Nat, NEW f, Attempting(f, e, n)
    PROVE  f \in EntryRow /\ f.id = e.id /\ f.controller = n /\ f.lease = e.lease
BY DEF EntryRow, Attempting

Accepting(f, e, v) == f = [e EXCEPT !.accepted = TRUE, !.baseline = v]

LEMMA EntryBaseline ==
    ASSUME NEW e \in EntryRow, NEW v \in Values, NEW f, Accepting(f, e, v)
    PROVE  f \in EntryRow /\ f.id = e.id /\ f.controller = e.controller
           /\ f.lease = e.lease
BY DEF EntryRow, Accepting

LEMMA EntryStopped ==
    ASSUME NEW e \in EntryRow
    PROVE  StreamStopped(e) \in EntryRow /\ StreamStopped(e).id = e.id
BY DEF EntryRow, StreamStopped

LEMMA EntryListeners ==
    ASSUME NEW e \in EntryRow, NEW s \in SUBSET RuleSet
    PROVE  LET f == [e EXCEPT !.listeners = s]
           IN  f \in EntryRow /\ f.id = e.id /\ f.controller = e.controller
               /\ f.lease = e.lease
BY DEF EntryRow

LEMMA FreshController ==
    ASSUME UnusedControllers # {}
    PROVE  NewController \in Nat /\ NewController # 0
<1>1. NewController \in UnusedControllers
  BY DEF NewController
<1>2. UnusedControllers \subseteq 1..MaxControllers /\ MaxControllers \in Nat
  BY RuleMonitorsAssumption DEF UnusedControllers
<1>. QED
  BY <1>1, <1>2

LEMMA FreshEntry ==
    ASSUME UnusedIds # {}
    PROVE  /\ NewEntry \in EntryRow
           /\ \A c \in reconciling : c.id # NewEntry.id
<1>. DEFINE n == CHOOSE k \in UnusedIds : TRUE
<1>1. n \in UnusedIds
  OBVIOUS
<1>2. n \in Nat /\ \A c \in reconciling : c.id # n
  <2>1. n \in 1..MaxControllers /\ MaxControllers \in Nat
    BY <1>1, RuleMonitorsAssumption DEF UnusedIds
  <2>2. \A c \in reconciling : c.id # n
    BY <1>1 DEF UnusedIds
  <2>. QED
    BY <2>1, <2>2
<1>. HIDE DEF n
<1>3. NewEntry = [id |-> n, listeners |-> {}, lease |-> FALSE, accepted |-> FALSE,
                  baseline |-> Absent, controller |-> 0]
  BY DEF NewEntry, n
<1>. QED
  BY <1>2, <1>3 DEF EntryRow

\* Stopping the entry changes nothing of its reconciliation but the mark.
LEMMA AbortingRuns ==
    ASSUME RegistryInv, entry # Absent
    PROVE  /\ \A d \in Aborting(entry) : \E c \in reconciling :
                 /\ d \in RunRow /\ d.id = c.id /\ d.stage = c.stage
                 /\ d.controller = c.controller
                 /\ d.aborted = (c.aborted \/ (c.id = entry.id /\ c.controller # 0))
           /\ \A c, d \in Aborting(entry) : c.id = d.id => c = d
<1>. DEFINE Mark(c) == [c EXCEPT !.aborted = @ \/ (c.id = entry.id /\ c.controller # 0)]
<1>1. Aborting(entry) = {Mark(c) : c \in reconciling}
  BY DEF Aborting
<1>2. ASSUME NEW c \in reconciling
      PROVE  /\ Mark(c) \in RunRow /\ Mark(c).id = c.id /\ Mark(c).stage = c.stage
             /\ Mark(c).controller = c.controller
             /\ Mark(c).aborted = (c.aborted \/ (c.id = entry.id /\ c.controller # 0))
  <2>1. c \in RunRow
    BY DEF RegistryInv, RegistryTypeOK
  <2>. QED
    BY <2>1 DEF RunRow
<1>. HIDE DEF Mark
<1>3. \A d \in Aborting(entry) : \E c \in reconciling : d = Mark(c)
  BY <1>1
<1>4. ASSUME NEW c \in Aborting(entry), NEW d \in Aborting(entry), c.id = d.id
      PROVE  c = d
  <2>1. PICK p \in reconciling : c = Mark(p)
    BY <1>3
  <2>2. PICK q \in reconciling : d = Mark(q)
    BY <1>3
  <2>3. p.id = q.id
    BY <1>2, <1>4, <2>1, <2>2
  <2>. QED
    BY <2>1, <2>2, <2>3 DEF RegistryInv
<1>. QED
  BY <1>2, <1>3, <1>4

\* The listeners that stay keep the entry, or none is left and it is gone.
LEMMA UnsubscribedEntry ==
    ASSUME NEW e, e = Absent \/ e \in EntryRow, NEW gone
    PROVE  LET f == Unsubscribed(e, gone)
           IN  f = Absent \/ (/\ e # Absent /\ f \in EntryRow /\ f.id = e.id
                              /\ f.controller = e.controller
                              /\ f.lease = e.lease)
<1>1. CASE e = Absent \/ e.listeners \subseteq gone
  BY <1>1 DEF Unsubscribed
<1>2. CASE e \in EntryRow /\ e # Absent /\ ~(e.listeners \subseteq gone)
  <2>. DEFINE s == e.listeners \ gone
  <2>1. s \in SUBSET RuleSet
    BY <1>2 DEF EntryRow
  <2>2. Unsubscribed(e, gone) = [e EXCEPT !.listeners = s]
    BY <1>2 DEF Unsubscribed
  <2>. HIDE DEF s
  <2>. QED
    BY <1>2, <2>1, <2>2, EntryListeners
<1>. QED
  BY <1>1, <1>2

\* The entry is edited by its listeners: its attempt goes on.
LEMMA EntryStays ==
    ASSUME RegistryInv, entry # Absent, entry' \in EntryRow, entry' # Absent,
           entry'.id = entry.id, entry'.controller = entry.controller,
           entry'.lease = entry.lease,
           UNCHANGED <<value, live, reconciling>>
    PROVE  RegistryInv'
<1>1. RegistryTypeOK'
  BY DEF RegistryInv, RegistryTypeOK
<1>2. \A c \in reconciling : RunInv(c)'
  BY DEF RegistryInv, RunInv, EntryHolds, Removed
<1>3. \A c \in live : EntryHolds(c)'
  BY DEF RegistryInv, EntryHolds
<1>. QED
  BY <1>1, <1>2, <1>3 DEF RegistryInv

\* The entry is stopped, or gone and perhaps replaced: nothing is open, and
\* what is on the way is aborted.
LEMMA EntryStops ==
    ASSUME RegistryInv, value' \in Values, live' = {},
           reconciling' = IF entry = Absent THEN reconciling ELSE Aborting(entry),
           \/ entry' = Absent
           \/ entry' \in EntryRow /\ \A c \in reconciling : c.id # entry'.id
           \/ entry' \in EntryRow /\ entry # Absent /\ entry'.id = entry.id
    PROVE  RegistryInv'
<1>1. CASE entry = Absent
  <2>1. \A c \in reconciling : ~(c.stage = "opening" /\ ~c.aborted)
    BY <1>1 DEF RegistryInv, RunInv, EntryHolds
  <2>2. \A c \in reconciling' : RunInv(c)'
    BY <1>1, <2>1 DEF RegistryInv, RunInv, Removed
  <2>. QED
    BY <1>1, <2>2 DEF RegistryInv, RegistryTypeOK
<1>2. CASE entry # Absent
  <2>1. ASSUME NEW d \in reconciling' PROVE d \in RunRow /\ RunInv(d)'
    <3>1. PICK c \in reconciling :
             /\ d \in RunRow /\ d.id = c.id /\ d.stage = c.stage
             /\ d.controller = c.controller
             /\ d.aborted = (c.aborted \/ (c.id = entry.id /\ c.controller # 0))
      BY <1>2, AbortingRuns
    <3>2. RunInv(c)
      BY DEF RegistryInv
    <3>3. d.stage \in {"loading", "opening"} => d.controller # 0
      BY <3>1, <3>2 DEF RunInv
    <3>4. ~(d.stage = "opening" /\ ~d.aborted)
      BY <3>1, <3>2 DEF RunInv, Removed, EntryHolds
    <3>5. d.stage = "loading" /\ ~d.aborted => Removed(d)'
      BY <3>1, <3>3, <1>2 DEF Removed
    <3>. QED
      BY <3>1, <3>3, <3>4, <3>5 DEF RunInv
  <2>2. \A c, d \in reconciling' : c.id = d.id => c = d
    BY <1>2, AbortingRuns
  <2>. QED
    BY <2>1, <2>2 DEF RegistryInv, RegistryTypeOK
<1>. QED
  BY <1>1, <1>2

\* A reconciliation that moves on or ends leaves the others as they are.
LEMMA OtherRuns ==
    ASSUME RegistryInv, NEW c \in reconciling, ~Removed(c),
           entry' \in EntryRow, entry' # Absent, entry'.id = entry.id,
           live' = {} \/ live' = live \/ live' \subseteq {c.controller}
    PROVE  \A d \in reconciling \ {c} : d.id # c.id /\ RunInv(d)'
<1>. SUFFICES ASSUME NEW d \in reconciling \ {c} PROVE d.id # c.id /\ RunInv(d)'
  OBVIOUS
<1>1. d.id # c.id /\ RunInv(d)
  BY DEF RegistryInv
<1>2. Removed(d) /\ Removed(d)'
  BY <1>1 DEF Removed
<1>. QED
  BY <1>1, <1>2 DEF RunInv

LEMMA ReconcileEntryKeeps == RegistryInv /\ ReconcileEntry => RegistryInv'
<1>. SUFFICES ASSUME RegistryInv, ReconcileEntry PROVE RegistryInv'
  OBVIOUS
<1>1. /\ entry \in EntryRow /\ entry # Absent /\ value' \in Values /\ live' = live
      /\ \A c \in reconciling : c.id # entry.id /\ Removed(c)
  BY DEF ReconcileEntry, worldVars, RegistryInv, RegistryTypeOK, Removed
<1>2. CASE /\ reconciling' = reconciling \cup
                 {Reconciling(entry, IF entry.lease THEN "renewing" ELSE "acquiring", 0)}
           /\ UNCHANGED entry
  <2>. DEFINE d == Reconciling(entry, IF entry.lease THEN "renewing" ELSE "acquiring", 0)
  <2>1. /\ d \in RunRow /\ d.id = entry.id
        /\ d.stage \notin {"loading", "opening"}
    BY <1>1 DEF Reconciling, RunRow, EntryRow
  <2>2. reconciling' = reconciling \cup {d}
    BY <1>2
  <2>. HIDE DEF d
  <2>3. \A c \in reconciling' : RunInv(c)'
    BY <1>1, <1>2, <2>1, <2>2 DEF RegistryInv, RunInv, EntryHolds, Removed
  <2>4. \A c, e \in reconciling' : c.id = e.id => c = e
    BY <1>1, <2>1, <2>2 DEF RegistryInv
  <2>. QED
    BY <1>1, <1>2, <2>1, <2>2, <2>3, <2>4 DEF RegistryInv, RegistryTypeOK, EntryHolds
<1>3. CASE /\ entry.lease /\ entry.controller \notin live /\ UnusedControllers # {}
           /\ reconciling' = reconciling \cup
                 {Reconciling(entry, "loading", NewController)}
           /\ entry' = LoadSnapshot(entry)
  <2>. DEFINE d == Reconciling(entry, "loading", NewController)
  <2>1. live = {}
    BY <1>1, <1>3 DEF RegistryInv, EntryHolds
  <2>2. NewController \in Nat /\ NewController # 0
    BY <1>3, FreshController
  <2>3. /\ entry' \in EntryRow /\ entry'.id = entry.id
        /\ entry'.controller = NewController
    <3>1. Attempting(entry', entry, NewController)
      BY <1>3 DEF LoadSnapshot, Attempting
    <3>. QED
      BY ONLY <1>1, <2>2, <3>1, EntryAttempt
  <2>4. /\ d \in RunRow /\ d.id = entry.id /\ d.stage = "loading"
        /\ d.controller = NewController
    BY <1>1, <2>2 DEF Reconciling, RunRow, EntryRow
  <2>5. reconciling' = reconciling \cup {d}
    BY <1>3
  <2>. HIDE DEF d
  <2>6. \A c \in reconciling : RunInv(c)'
    BY <1>1, <2>1, <2>3 DEF RegistryInv, RunInv, EntryHolds, Removed
  <2>7. ASSUME NEW x, x = d PROVE RunInv(x)'
    BY <1>1, <2>1, <2>2, <2>3, <2>4, <2>7 DEF RunInv
  <2>8. \A c, e \in reconciling' : c.id = e.id => c = e
    BY <1>1, <2>4, <2>5 DEF RegistryInv
  <2>9. RegistryTypeOK'
    BY <1>1, <2>3, <2>4, <2>5 DEF RegistryInv, RegistryTypeOK
  <2>. QED
    BY <1>1, <2>1, <2>5, <2>6, <2>7, <2>8, <2>9 DEF RegistryInv
<1>. QED
  BY <1>2, <1>3 DEF ReconcileEntry

LEMMA LeaseGrantedKeeps ==
    ASSUME RegistryInv, NEW c \in reconciling, LeaseGranted(c)
    PROVE  RegistryInv'
<1>. DEFINE granted == [entry EXCEPT !.lease = @ \/ c.stage = "acquiring"]
            others == reconciling \ {c}
            d == Reconciling(c, "loading", NewController)
<1>1. value' \in Values /\ live' = live /\ c \in RunRow
  BY DEF LeaseGranted, worldVars, RegistryInv, RegistryTypeOK
<1>2. CASE /\ ~Removed(c) /\ entry.controller \in live
           /\ entry' = granted /\ reconciling' = others
  <2>1. entry \in EntryRow /\ entry # Absent /\ entry.lease
    BY <1>2 DEF Removed, RegistryInv, RegistryTypeOK, EntryHolds
  <2>2. granted = [entry EXCEPT !.lease = TRUE]
    BY <2>1
  <2>. HIDE DEF granted
  <2>3. /\ entry' \in EntryRow /\ entry'.id = entry.id
        /\ entry'.controller = entry.controller /\ entry'.lease
    BY <1>2, <2>1, <2>2, EntryLease
  <2>5. entry' # Absent
    BY <2>3, RuleMonitorsAssumption
  <2>6. \A e \in others : RunInv(e)'
    BY <1>1, <1>2, <2>3, <2>5, OtherRuns
  <2>. QED
    BY <1>1, <1>2, <2>3, <2>5, <2>6 DEF RegistryInv, RegistryTypeOK, EntryHolds
<1>3. CASE /\ ~(~Removed(c) /\ entry.controller \in live)
           /\ UnusedControllers # {}
           /\ reconciling' = others \cup {d}
           /\ entry' = IF Removed(c) THEN entry ELSE LoadSnapshot(granted)
  <2>1. NewController \in Nat /\ NewController # 0
    BY <1>3, FreshController
  <2>2. /\ d \in RunRow /\ d.id = c.id /\ d.stage = "loading"
        /\ d.controller = NewController
    BY <1>1, <2>1 DEF Reconciling, RunRow
  <2>. HIDE DEF d
  <2>3. \A e, f \in reconciling' : e.id = f.id => e = f
    BY <1>3, <2>2 DEF RegistryInv
  <2>4. CASE Removed(c)
    <3>1. entry' = entry
      BY <1>3, <2>4
    <3>2. \A e \in others : RunInv(e)'
      BY <1>1, <3>1 DEF RegistryInv, RunInv, EntryHolds, Removed
    <3>3. ASSUME NEW x, x = d PROVE RunInv(x)'
      BY <2>1, <2>2, <2>4, <3>1, <3>3 DEF RunInv, Removed
    <3>. QED
      BY <1>1, <1>3, <2>2, <2>3, <3>1, <3>2, <3>3
         DEF RegistryInv, RegistryTypeOK, EntryHolds
  <2>5. CASE ~Removed(c)
    <3>1. entry \in EntryRow /\ entry # Absent /\ live = {} /\ c.id = entry.id
      BY <1>3, <2>5 DEF Removed, RegistryInv, RegistryTypeOK, EntryHolds
    <3>. DEFINE l == entry.lease \/ c.stage = "acquiring"
    <3>2. l \in BOOLEAN /\ granted = [entry EXCEPT !.lease = l]
      BY <3>1 DEF EntryRow
    <3>. HIDE DEF l, granted
    <3>3. granted \in EntryRow /\ granted.id = entry.id
      BY <3>1, <3>2, EntryLease
    <3>4. /\ entry' \in EntryRow /\ entry'.id = entry.id
          /\ entry'.controller = NewController
      <4>1. Attempting(entry', granted, NewController)
        BY <1>3, <2>5 DEF LoadSnapshot, Attempting
      <4>. QED
        BY ONLY <2>1, <3>3, <4>1, EntryAttempt
    <3>5. \A e \in others : RunInv(e)'
      <4>1. ASSUME NEW e \in others PROVE RunInv(e) /\ e.id # entry.id
        BY <3>1 DEF RegistryInv
      <4>. QED
        BY <1>1, <3>1, <3>4, <4>1 DEF RunInv, Removed
    <3>6. ASSUME NEW x, x = d PROVE RunInv(x)'
      BY <1>1, <2>1, <2>2, <3>1, <3>4, <3>6 DEF RunInv
    <3>. QED
      BY <1>1, <1>3, <2>2, <2>3, <3>1, <3>4, <3>5, <3>6
         DEF RegistryInv, RegistryTypeOK
  <2>. QED
    BY <2>4, <2>5
<1>. QED
  BY <1>2, <1>3 DEF LeaseGranted

\* A reconciliation ends, and the entry with its streams stays as it is.
LEMMA RunEnds ==
    ASSUME RegistryInv, NEW c \in reconciling, reconciling' = reconciling \ {c},
           UNCHANGED <<value, entry, live>>
    PROVE  RegistryInv'
BY DEF RegistryInv, RegistryTypeOK, RunInv, EntryHolds, Removed

\* A reconciliation ends and stops the entry it works on.
LEMMA RunStops ==
    ASSUME RegistryInv, NEW c \in reconciling, reconciling' = reconciling \ {c},
           ~Removed(c), value' \in Values, entry' \in EntryRow,
           entry'.id = entry.id, live' = {}
    PROVE  RegistryInv'
<1>1. \A d \in reconciling' : RunInv(d)'
  <2>1. ASSUME NEW d \in reconciling' PROVE RunInv(d) /\ d.id # entry.id
    BY DEF RegistryInv, Removed
  <2>. QED
    BY <2>1 DEF RunInv, Removed
<1>. QED
  BY <1>1 DEF RegistryInv, RegistryTypeOK

LEMMA LeaseDeniedKeeps ==
    ASSUME RegistryInv, NEW c \in reconciling, LeaseDenied(c)
    PROVE  RegistryInv'
<1>1. value' = value /\ value \in Values /\ reconciling' = reconciling \ {c}
  BY DEF LeaseDenied, worldVars, RegistryInv, RegistryTypeOK
<1>2. CASE UNCHANGED <<entry, live>>
  BY <1>1, <1>2, RunEnds
<1>3. CASE /\ ~Removed(c) /\ entry' = [StreamStopped(entry) EXCEPT !.lease = FALSE]
           /\ live' = live \ {entry.controller}
  <2>1. entry \in EntryRow /\ live' = {}
    BY <1>3 DEF Removed, RegistryInv, RegistryTypeOK, EntryHolds
  <2>2. entry' \in EntryRow /\ entry'.id = entry.id
    BY <1>3, <2>1, EntryStopped, EntryLease
  <2>. QED
    BY <1>1, <1>3, <2>1, <2>2, RunStops
<1>. QED
  BY <1>2, <1>3 DEF LeaseDenied

LEMMA SnapshotLoadedKeeps ==
    ASSUME RegistryInv, NEW c \in reconciling, SnapshotLoaded(c)
    PROVE  RegistryInv'
<1>1. value' = value /\ live' = live
  BY DEF SnapshotLoaded, worldVars
<1>2. CASE ~StillWanted(c)
  BY <1>1, <1>2, RunEnds DEF SnapshotLoaded
<1>3. CASE StillWanted(c)
  <2>. DEFINE d == [c EXCEPT !.stage = "opening"]
  <2>1. /\ entry \in EntryRow /\ entry # Absent /\ entry.id = c.id /\ entry.lease
        /\ c \in RunRow /\ c.stage = "loading" /\ ~c.aborted /\ ~Removed(c)
        /\ value \in Values
    BY <1>3 DEF StillWanted, SnapshotLoaded, Removed, RegistryInv, RegistryTypeOK
  <2>2. entry.controller = c.controller /\ c.controller # 0 /\ live = {}
    BY <2>1 DEF RegistryInv, RunInv
  <2>3. /\ d \in RunRow /\ d.controller = c.controller /\ d.id = c.id
        /\ d.stage = "opening"
    BY <2>1 DEF RunRow
  <2>4. /\ reconciling' = (reconciling \ {c}) \cup {d}
        /\ entry' = [entry EXCEPT !.accepted = TRUE, !.baseline = value]
    BY <1>3 DEF SnapshotLoaded
  <2>5. /\ entry' \in EntryRow /\ entry'.id = entry.id
        /\ entry'.controller = c.controller /\ entry'.lease
    <3>1. Accepting(entry', entry, value)
      BY <2>4 DEF Accepting
    <3>. QED
      BY ONLY <2>1, <2>2, <3>1, EntryBaseline
  <2>6. entry' # Absent
    BY <2>1, <2>4, <2>5, RuleMonitorsAssumption
  <2>. HIDE DEF d
  <2>7. \A e \in reconciling \ {c} : e.id # c.id /\ RunInv(e)'
    BY <1>1, <2>1, <2>5, <2>6, OtherRuns
  <2>8. ASSUME NEW x, x = d PROVE RunInv(x)'
    BY <1>1, <2>1, <2>2, <2>3, <2>5, <2>6, <2>8 DEF RunInv, Removed, EntryHolds
  <2>9. \A e, f \in reconciling' : e.id = f.id => e = f
    BY <2>3, <2>4, <2>7 DEF RegistryInv
  <2>. QED
    BY <1>1, <2>1, <2>2, <2>3, <2>4, <2>5, <2>7, <2>8, <2>9
       DEF RegistryInv, RegistryTypeOK
<1>. QED
  BY <1>2, <1>3

LEMMA ReconcileFailsKeeps ==
    ASSUME RegistryInv, NEW c \in reconciling, ReconcileFails(c)
    PROVE  RegistryInv'
<1>1. /\ value' = value /\ live' = live /\ reconciling' = reconciling \ {c}
      /\ value \in Values
  BY DEF ReconcileFails, worldVars, RegistryInv, RegistryTypeOK
<1>2. CASE entry' = entry
  BY <1>1, <1>2, RunEnds
<1>3. CASE ~Removed(c) /\ entry' = StreamStopped(entry)
  <2>1. entry \in EntryRow /\ live = {}
    BY <1>3 DEF ReconcileFails, Removed, RegistryInv, RegistryTypeOK, RunInv
  <2>2. entry' \in EntryRow /\ entry'.id = entry.id
    BY <1>3, <2>1, EntryStopped
  <2>. QED
    BY <1>1, <1>3, <2>1, <2>2, RunStops
<1>. QED
  BY <1>2, <1>3 DEF ReconcileFails

LEMMA StreamOpenedKeeps ==
    ASSUME RegistryInv, NEW c \in reconciling, StreamOpened(c)
    PROVE  RegistryInv'
<1>1. UNCHANGED <<value, entry>> /\ reconciling' = reconciling \ {c}
  BY DEF StreamOpened, worldVars
<1>2. CASE c.aborted
  BY <1>1, <1>2, RunEnds DEF StreamOpened
<1>3. CASE ~c.aborted
  <2>1. ~Removed(c) /\ EntryHolds(c.controller) /\ live = {}
    BY <1>3 DEF StreamOpened, RegistryInv, RunInv
  <2>2. live' = {c.controller}
    BY <1>3, <2>1 DEF StreamOpened
  <2>3. entry \in EntryRow /\ entry # Absent
    BY <2>1 DEF Removed, RegistryInv, RegistryTypeOK
  <2>4. \A d \in reconciling' : RunInv(d)'
    BY <1>1, <2>1, <2>2, <2>3, OtherRuns
  <2>5. \A d \in live' : EntryHolds(d)'
    BY <1>1, <2>1, <2>2 DEF EntryHolds
  <2>. QED
    BY <1>1, <2>4, <2>5 DEF RegistryInv, RegistryTypeOK
<1>. QED
  BY <1>2, <1>3

LEMMA StreamLostKeeps ==
    ASSUME RegistryInv, NEW gap \in BOOLEAN, StreamLost(gap)
    PROVE  RegistryInv'
<1>1. /\ entry \in EntryRow /\ entry # Absent /\ value' \in Values
      /\ reconciling' = Aborting(entry)
  BY DEF StreamLost, worldVars, RegistryInv, RegistryTypeOK
<1>2. live' = {}
  BY DEF StreamLost, RegistryInv, EntryHolds
<1>3. entry' = [StreamStopped(entry) EXCEPT !.lease = gap /\ entry.lease]
  BY <1>1 DEF StreamLost, StreamStopped, EntryRow
<1>4. entry' \in EntryRow /\ entry'.id = entry.id
  <2>. DEFINE l == gap /\ entry.lease
  <2>1. l \in BOOLEAN
    BY <1>1 DEF EntryRow
  <2>2. entry' = [StreamStopped(entry) EXCEPT !.lease = l]
    BY <1>3
  <2>. HIDE DEF l
  <2>. QED
    BY <1>1, <2>1, <2>2, EntryStopped, EntryLease
<1>. QED
  BY <1>1, <1>2, <1>4, EntryStops

LEMMA ReconcileRulesKeeps == RegistryInv /\ ReconcileRules => RegistryInv'
<1>. SUFFICES ASSUME RegistryInv, ReconcileRules PROVE RegistryInv'
  OBVIOUS
<1>. DEFINE fresh == {r \in RuleSet : Subscribes(r)}
            gone == {r \in RuleSet : watch[r] # Absent /\ listed[r] = Absent}
            left == Unsubscribed(entry, gone)
            base == IF left = Absent
                    THEN (IF fresh = {} THEN Absent ELSE NewEntry) ELSE left
<1>1. /\ left = Absent /\ fresh # {} => UnusedIds # {}
      /\ entry' = IF base = Absent THEN Absent
                  ELSE [base EXCEPT !.listeners = base.listeners \cup fresh]
      /\ live' = LiveAfter(left) /\ reconciling' = FramesAfter(left)
      /\ value' = value
  BY DEF ReconcileRules, worldVars
<1>2. (entry = Absent \/ entry \in EntryRow) /\ value \in Values
  BY DEF RegistryInv, RegistryTypeOK
<1>3. left = Absent \/ (/\ entry # Absent /\ left \in EntryRow /\ left.id = entry.id
                        /\ left.controller = entry.controller
                        /\ left.lease = entry.lease)
  BY <1>2, UnsubscribedEntry
<1>4. fresh \subseteq RuleSet
  OBVIOUS
<1>. HIDE DEF left, fresh
<1>5. ASSUME NEW e \in EntryRow, base = e, e # Absent
      PROVE  /\ entry' \in EntryRow /\ entry'.id = e.id
             /\ entry'.controller = e.controller /\ entry'.lease = e.lease
  <2>1. e.listeners \cup fresh \in SUBSET RuleSet
    BY <1>4 DEF EntryRow
  <2>2. entry' = [e EXCEPT !.listeners = e.listeners \cup fresh]
    BY <1>1, <1>5
  <2>. QED
    BY <2>1, <2>2, EntryListeners
<1>6. CASE left # Absent
  <2>1. base = left /\ left \in EntryRow /\ entry # Absent
    BY <1>3, <1>6
  <2>2. /\ entry' \in EntryRow /\ entry'.id = entry.id
        /\ entry'.controller = entry.controller /\ entry'.lease = entry.lease
    BY <1>3, <1>5, <1>6, <2>1
  <2>3. live' = live /\ reconciling' = reconciling
    BY <1>1, <1>3, <1>6 DEF LiveAfter, FramesAfter, RegistryInv, EntryHolds
  <2>. QED
    BY <1>1, <2>1, <2>2, <2>3, EntryStays, RuleMonitorsAssumption
<1>7. CASE left = Absent
  <2>1. live' = {}
    BY <1>1, <1>7 DEF LiveAfter
  <2>2. reconciling' = IF entry = Absent THEN reconciling ELSE Aborting(entry)
    BY <1>1, <1>7 DEF FramesAfter
  <2>3. CASE fresh = {}
    <3>1. entry' = Absent
      BY <1>1, <1>7, <2>3
    <3>. QED
      BY <1>1, <1>2, <2>1, <2>2, <3>1, EntryStops
  <2>4. CASE fresh # {}
    <3>1. NewEntry \in EntryRow /\ \A c \in reconciling : c.id # NewEntry.id
      BY <1>1, <1>7, <2>4, FreshEntry
    <3>2. base = NewEntry /\ NewEntry # Absent
      BY <1>7, <2>4, <3>1, RuleMonitorsAssumption
    <3>3. entry' \in EntryRow /\ \A c \in reconciling : c.id # entry'.id
      BY <1>5, <3>1, <3>2
    <3>. QED
      BY <1>1, <1>2, <2>1, <2>2, <3>3, EntryStops
  <2>. QED
    BY <2>3, <2>4
<1>. QED
  BY <1>6, <1>7

LEMMA DetachKeeps ==
    ASSUME RegistryInv, NEW r \in RuleSet, Detach(r)
    PROVE  RegistryInv'
<1>1. /\ entry' = Unsubscribed(entry, {r}) /\ live' = LiveAfter(entry')
      /\ reconciling' = FramesAfter(entry') /\ value' = value /\ value \in Values
  BY DEF Detach, worldVars, RegistryInv, RegistryTypeOK
<1>2. \/ entry' = Absent
      \/ /\ entry # Absent /\ entry' \in EntryRow /\ entry'.id = entry.id
         /\ entry'.controller = entry.controller
         /\ entry'.lease = entry.lease
  BY <1>1, UnsubscribedEntry DEF RegistryInv, RegistryTypeOK
<1>3. CASE entry' = Absent
  <2>1. live' = {}
    BY <1>1, <1>3 DEF LiveAfter
  <2>2. reconciling' = IF entry = Absent THEN reconciling ELSE Aborting(entry)
    BY <1>1, <1>3 DEF FramesAfter
  <2>. QED
    BY <1>1, <1>3, <2>1, <2>2, EntryStops
<1>4. CASE entry' # Absent
  <2>1. live' = live /\ reconciling' = reconciling
    BY <1>1, <1>2, <1>4 DEF LiveAfter, FramesAfter, RegistryInv, EntryHolds
  <2>. QED
    BY <1>1, <1>2, <1>4, <2>1, EntryStays
<1>. QED
  BY <1>3, <1>4

LEMMA CloseWorkerKeeps == RegistryInv /\ CloseWorker => RegistryInv'
BY EntryStops DEF CloseWorker, worldVars, RegistryInv, RegistryTypeOK

\* No stream is left open that the registry would not close, and none is open
\* without the lease, however the steps of attempts, leases, gaps and listeners
\* fall: an entry may go or be replaced, and a lease end, while a lease, a
\* snapshot or a stream is awaited (monitor/registry.ts).
THEOREM StreamsAreHeld == MonitorSpec => []NoStrayStream
<1>1. RegistryInv /\ [MonitorNext]_monitorVars => RegistryInv'
  <2>. SUFFICES ASSUME RegistryInv, [MonitorNext]_monitorVars PROVE RegistryInv'
    OBVIOUS
  <2>. USE DEF worldVars
  <2>1. CASE UNCHANGED <<entry, live, reconciling>> /\ value' \in Values
    BY <2>1 DEF RegistryInv, RegistryTypeOK, EntryHolds, RunInv, Removed
  <2>2. ASSUME NEW r \in RuleSet, NEW v \in Versions \cup {Absent}, EditRule(r, v)
        PROVE RegistryInv'
    BY <2>1, <2>2 DEF EditRule, RegistryInv, RegistryTypeOK
  <2>3. ASSUME NEW r \in RuleSet, HandleUpdate(r) PROVE RegistryInv'
    BY <2>1, <2>3 DEF HandleUpdate, RegistryInv, RegistryTypeOK
  <2>4. ASSUME NEW v \in Values, MoveValue(v) PROVE RegistryInv'
    BY <2>1, <2>4 DEF MoveValue
  <2>5. ASSUME NEW channel, Delta(channel) PROVE RegistryInv'
    BY <2>1, <2>5 DEF Delta, RegistryInv, RegistryTypeOK
  <2>6. ASSUME NEW w \in chains, HandleDropped(w) PROVE RegistryInv'
    BY <2>1, <2>6 DEF HandleDropped, RegistryInv, RegistryTypeOK
  <2>7. CASE ListActiveRules
    BY <2>1, <2>7 DEF ListActiveRules, RegistryInv, RegistryTypeOK
  <2>8. CASE UNCHANGED monitorVars
    BY <2>1, <2>8 DEF monitorVars, RegistryInv, RegistryTypeOK
  <2>. QED
    BY <2>2, <2>3, <2>4, <2>5, <2>6, <2>7, <2>8, ReconcileEntryKeeps,
       LeaseGrantedKeeps, LeaseDeniedKeeps, SnapshotLoadedKeeps,
       ReconcileFailsKeeps, StreamOpenedKeeps, StreamLostKeeps,
       ReconcileRulesKeeps, DetachKeeps, CloseWorkerKeeps DEF MonitorNext
<1>2. RegistryInv => NoStrayStream
  BY DEF RegistryInv, EntryHolds, NoStrayStream
<1>. QED
  BY <1>1, <1>2, RegistryInit, PTL DEF MonitorSpec
-----------------------------------------------------------------------------
(* The connections the streams share.                                       *)

CallerRow == [phase : {"idle", "waiting", "resolved", "obtained", "active"},
              shard : Nat, aborted : BOOLEAN]

ShardRow == [state : {"opening", "open", "closed"}, references : Nat,
             abandoned : BOOLEAN]

Active(k) == {c \in Callers : caller[c].shard = k /\ caller[c].phase = "active"}
Held == {k \in 1..Attempts : shards[k].state # "closed"}

PoolTypeOK ==
    /\ caller \in [Callers -> CallerRow]
    /\ Attempts \in Nat /\ shards \in [1..Attempts -> ShardRow]
    /\ marketShard \in 0..Attempts /\ marketOpening \in 0..Attempts

\* The counts of the source are the connections and the streams there are.
ConnectionsCounted == connections = Cardinality(Held)
ReferencesCounted(k) == shards[k].references = Cardinality(Active(k))

\* Where a caller is, its shard has come as far.
Placed(c) ==
    /\ caller[c].phase = "idle" => caller[c] = Gone
    /\ caller[c].phase # "idle" => caller[c].shard \in 1..Attempts
    /\ caller[c].phase = "active" => shards[caller[c].shard].state = "open"
    /\ caller[c].phase = "waiting" => shards[caller[c].shard].state = "opening"
    /\ caller[c].phase \in {"resolved", "obtained"}
          => shards[caller[c].shard].state # "opening"

\* A market caller that has not got its shard keeps the opening in the map, and
\* between its microtasks no other shard is there to join.
Expects(c) ==
    /\ caller[c].phase \in {"waiting", "resolved"}
          => /\ marketOpening = caller[c].shard
             /\ ~shards[caller[c].shard].abandoned
    /\ caller[c].phase \in {"resolved", "obtained"}
          => marketShard \in {0, caller[c].shard}

\* The connection of an account is its own.
Owns(c) ==
    /\ caller[c].phase \in {"idle", "waiting", "active"}
    /\ \A d \in Callers \ {c} :
          caller[c].shard # 0 => caller[d].shard # caller[c].shard

\* An open shard is the one to join or an account's, and someone is on it; an
\* opening shard is the one to wait for, an account's or abandoned.
Served(k) ==
    /\ shards[k].state = "open" /\ MarketOwned(k) => marketShard = k
    /\ shards[k].state = "open" => \E c \in Callers : caller[c].shard = k
    /\ shards[k].state = "opening" /\ ~shards[k].abandoned /\ MarketOwned(k)
          => marketOpening = k

\* What new callers join is there, and they never have a choice.
Joinable ==
    /\ marketShard # 0 => /\ shards[marketShard].state = "open"
                          /\ MarketOwned(marketShard)
    /\ marketOpening # 0 => /\ Waiters(marketOpening) # {}
                            /\ MarketOwned(marketOpening)
    /\ marketOpening # 0 /\ shards[marketOpening].state = "opening"
          => marketShard = 0

Shape ==
    /\ \A c \in Callers : Placed(c)
    /\ \A c \in MarketCallers : Expects(c)
    /\ \A c \in AccountCallers : Owns(c)
    /\ \A k \in 1..Attempts : Served(k)
    /\ Joinable

PoolInv ==
    /\ PoolTypeOK /\ Shape /\ ConnectionsCounted
    /\ \A k \in 1..Attempts : ReferencesCounted(k)

LEMMA CallersApart ==
    /\ \A c \in Callers : c \in MarketCallers \/ c \in AccountCallers
    /\ \A c \in MarketCallers : c \in Callers /\ c \notin AccountCallers
    /\ \A c \in AccountCallers : c \in Callers /\ c \notin MarketCallers
BY PoolAssumption DEF Callers

LEMMA ActiveFinite ==
    /\ IsFiniteSet(Callers)
    /\ \A k : IsFiniteSet(Active(k)) /\ Cardinality(Active(k)) \in Nat
<1>1. IsFiniteSet(Callers)
  BY PoolAssumption DEF Callers
<1>2. ASSUME NEW k
      PROVE  IsFiniteSet(Active(k)) /\ Cardinality(Active(k)) \in Nat
  <2>1. Active(k) \in SUBSET Callers
    BY DEF Active
  <2>2. IsFiniteSet(Active(k))
    BY <1>1, <2>1, FS_Subset
  <2>. QED
    BY <2>2, FS_CardinalityType
<1>. QED
  BY <1>1, <1>2

\* A shard without references is one without streams.
LEMMA NoReferences ==
    ASSUME PoolInv, NEW k \in 1..Attempts
    PROVE  /\ shards[k].references \in Nat
           /\ shards[k].references = 0
                 <=> \A c \in Callers : ~(/\ caller[c].shard = k
                                          /\ caller[c].phase = "active")
<1>1. shards[k].references \in Nat
  BY DEF PoolInv, PoolTypeOK, ShardRow
<1>2. shards[k].references = Cardinality(Active(k))
  BY DEF PoolInv, ReferencesCounted
<1>3. Cardinality(Active(k)) = 0 <=> Active(k) = {}
  BY ActiveFinite, FS_EmptySet
<1>. QED
  BY <1>1, <1>2, <1>3 DEF Active

LEMMA HeldFinite == PoolTypeOK => IsFiniteSet(Held)
<1>. SUFFICES ASSUME PoolTypeOK PROVE IsFiniteSet(Held)
  OBVIOUS
<1>1. IsFiniteSet(1..Attempts)
  BY FS_Interval DEF PoolTypeOK
<1>2. Held \in SUBSET (1..Attempts)
  BY DEF Held
<1>. QED
  BY <1>1, <1>2, FS_Subset

LEMMA ShardEdits ==
    ASSUME NEW s \in ShardRow
    PROVE  /\ \A x \in {"open", "closed"} :
                 LET r == [s EXCEPT !.state = x]
                 IN  /\ r \in ShardRow /\ r.state = x
                     /\ r.references = s.references
                     /\ r.abandoned = s.abandoned
           /\ \A n \in Nat :
                 LET r == [s EXCEPT !.references = n]
                 IN  /\ r \in ShardRow /\ r.state = s.state
                     /\ r.references = n /\ r.abandoned = s.abandoned
           /\ \A b \in BOOLEAN :
                 LET r == [s EXCEPT !.abandoned = b]
                 IN  /\ r \in ShardRow /\ r.state = s.state
                     /\ r.references = s.references /\ r.abandoned = b
BY DEF ShardRow

LEMMA CallerEdits ==
    /\ Gone \in CallerRow /\ Gone.phase = "idle" /\ Gone.shard = 0
    /\ \A r \in CallerRow, b \in BOOLEAN :
          LET s == [r EXCEPT !.aborted = b]
          IN  s \in CallerRow /\ s.phase = r.phase /\ s.shard = r.shard
    /\ \A r \in CallerRow, p \in {"waiting", "resolved", "obtained", "active"} :
          LET s == [r EXCEPT !.phase = p]
          IN  s \in CallerRow /\ s.phase = p /\ s.shard = r.shard
BY DEF CallerRow, Gone

Moved(r, p, n) == [r EXCEPT !.phase = p, !.shard = n]

LEMMA CallerMoved ==
    ASSUME NEW r \in CallerRow, NEW n \in Nat,
           NEW p \in {"waiting", "resolved", "obtained", "active"}
    PROVE  /\ Moved(r, p, n) \in CallerRow
           /\ Moved(r, p, n).phase = p /\ Moved(r, p, n).shard = n
BY DEF CallerRow, Moved

LEMMA CallerShards ==
    ASSUME PoolInv
    PROVE  Attempts \in Nat /\ \A d \in Callers : caller[d].shard \in 0..Attempts
<1>1. Attempts \in Nat
  BY DEF PoolInv, PoolTypeOK
<1>2. ASSUME NEW d \in Callers PROVE caller[d].shard \in 0..Attempts
  <2>1. Placed(d)
    BY DEF PoolInv, Shape
  <2>2. CASE caller[d].phase = "idle"
    BY <1>1, <2>1, <2>2 DEF Placed, Gone
  <2>3. CASE caller[d].phase # "idle"
    BY <1>1, <2>1, <2>3 DEF Placed
  <2>. QED
    BY <2>2, <2>3
<1>. QED
  BY <1>1, <1>2

-----------------------------------------------------------------------------
(* What a step does to one shard or one caller.                             *)

ShardSet(k, r) ==
    /\ Attempts' = Attempts /\ shards' \in [1..Attempts -> ShardRow]
    /\ shards'[k] = r
    /\ \A j \in 1..Attempts : j # k => shards'[j] = shards[j]

CallerSet(c, r) ==
    /\ caller' \in [Callers -> CallerRow]
    /\ caller'[c] = r
    /\ \A d \in Callers : d # c => caller'[d] = caller[d]

LEMMA ShardIsSet ==
    ASSUME PoolTypeOK, NEW k \in 1..Attempts, NEW r \in ShardRow,
           shards' = [shards EXCEPT ![k] = r]
    PROVE  ShardSet(k, r)
<1>1. DOMAIN shards' = DOMAIN shards
  OBVIOUS
<1>2. Attempts' = Attempts
  BY <1>1 DEF Attempts
<1>. QED
  BY <1>2 DEF ShardSet, PoolTypeOK

LEMMA CallerIsSet ==
    ASSUME PoolTypeOK, NEW c \in Callers, NEW r \in CallerRow,
           caller' = [caller EXCEPT ![c] = r]
    PROVE  CallerSet(c, r)
BY DEF CallerSet, PoolTypeOK

\* Nothing opens or closes: the connections stay counted.
LEMMA SameConnections ==
    ASSUME PoolInv, Attempts' = Attempts, connections' = connections,
           \A j \in 1..Attempts :
              shards'[j].state = "closed" <=> shards[j].state = "closed"
    PROVE  ConnectionsCounted'
<1>1. Held' = Held
  BY DEF Held
<1>. QED
  BY <1>1 DEF PoolInv, ConnectionsCounted

LEMMA CloseEffect ==
    ASSUME PoolInv, NEW k \in 1..Attempts, NEW s \in ShardRow, Close(k, s)
    PROVE  /\ ShardSet(k, [s EXCEPT !.state = "closed"])
           /\ shards'[k].state = "closed"
           /\ shards'[k].references = s.references
           /\ shards'[k].abandoned = s.abandoned
           /\ ConnectionsCounted'
<1>. DEFINE r == [s EXCEPT !.state = "closed"]
<1>1. /\ r \in ShardRow /\ r.state = "closed" /\ r.references = s.references
      /\ r.abandoned = s.abandoned
  BY ShardEdits
<1>2. shards' = [shards EXCEPT ![k] = r]
  BY DEF Close
<1>3. connections' = connections - IF shards[k].state = "closed" THEN 0 ELSE 1
  BY DEF Close
<1>. HIDE DEF r
<1>4. ShardSet(k, r)
  BY <1>1, <1>2, ShardIsSet DEF PoolInv
<1>5. Held' = Held \ {k}
  BY <1>1, <1>4 DEF Held, ShardSet
<1>6. k \in Held <=> shards[k].state # "closed"
  BY DEF Held
<1>7. IsFiniteSet(Held)
  BY HeldFinite DEF PoolInv
<1>8. Cardinality(Held \ {k})
         = IF k \in Held THEN Cardinality(Held) - 1 ELSE Cardinality(Held)
  BY <1>7, FS_RemoveElement
<1>9. Cardinality(Held) \in Nat /\ connections = Cardinality(Held)
  BY <1>7, FS_CardinalityType DEF PoolInv, ConnectionsCounted
<1>10. ConnectionsCounted'
  BY <1>3, <1>5, <1>6, <1>8, <1>9 DEF ConnectionsCounted
<1>. QED
  BY <1>1, <1>4, <1>10 DEF ShardSet, r

\* A new connection is counted, and no caller can be on it yet.
LEMMA OpenEffect ==
    ASSUME PoolInv, shards' = WithShard(Attempts + 1, Opening),
           connections' = connections + 1
    PROVE  /\ Attempts' = Attempts + 1
           /\ shards' \in [1..Attempts' -> ShardRow]
           /\ shards'[Attempts'].state = "opening"
           /\ shards'[Attempts'].references = 0
           /\ ~shards'[Attempts'].abandoned
           /\ \A j \in 1..Attempts : shards'[j] = shards[j]
           /\ ConnectionsCounted'
<1>. DEFINE n == Attempts + 1
<1>1. Attempts \in Nat /\ DOMAIN shards = 1..Attempts
  BY DEF PoolInv, PoolTypeOK
<1>2. DOMAIN shards' = 1..n
  BY <1>1 DEF WithShard
<1>3. Attempts' = n
  BY <1>1, <1>2, FS_Interval DEF Attempts
<1>4. Opening \in ShardRow /\ Opening.state = "opening"
      /\ Opening.references = 0 /\ ~Opening.abandoned
  BY DEF Opening, ShardRow
<1>5. shards'[n] = Opening /\ \A j \in 1..Attempts : shards'[j] = shards[j]
  BY <1>1 DEF WithShard
<1>6. shards' \in [1..n -> ShardRow]
  <2>1. shards' = [j \in 1..n |-> IF j = n THEN Opening ELSE shards[j]]
    BY <1>1 DEF WithShard
  <2>. QED
    BY <1>1, <1>4, <2>1 DEF PoolInv, PoolTypeOK
<1>7. Held' = Held \cup {n} /\ n \notin Held
  BY <1>1, <1>3, <1>4, <1>5 DEF Held
<1>8. IsFiniteSet(Held)
  BY HeldFinite DEF PoolInv
<1>9. Cardinality(Held') = Cardinality(Held) + 1
  BY <1>7, <1>8, FS_AddElement
<1>10. ConnectionsCounted'
  BY <1>9 DEF PoolInv, ConnectionsCounted
<1>. QED
  BY <1>1, <1>3, <1>4, <1>5, <1>6, <1>10

\* The streams of a shard are the same callers after the step.
LEMMA SameActive ==
    ASSUME NEW k,
           \A c \in Callers :
              (caller'[c].shard = k /\ caller'[c].phase = "active")
                 <=> (caller[c].shard = k /\ caller[c].phase = "active")
    PROVE  Active(k)' = Active(k)
BY DEF Active

LEMMA PoolInitial == PoolInit => PoolInv
<1>. SUFFICES ASSUME PoolInit PROVE PoolInv
  OBVIOUS
<1>1. DOMAIN shards = {} /\ Attempts = 0 /\ 1..0 = {}
  BY FS_EmptySet DEF PoolInit, Attempts
<1>2. PoolTypeOK
  <2>1. caller \in [Callers -> CallerRow]
    BY CallerEdits DEF PoolInit
  <2>2. shards \in [{} -> ShardRow]
    BY DEF PoolInit
  <2>3. shards \in [1..Attempts -> ShardRow]
    BY <1>1, <2>2
  <2>. QED
    BY <1>1, <2>1, <2>3 DEF PoolInit, PoolTypeOK
<1>3. ConnectionsCounted
  BY <1>1, FS_EmptySet DEF PoolInit, ConnectionsCounted, Held
<1>4. Shape
  BY <1>1, CallerEdits, CallersApart
     DEF PoolInit, Shape, Placed, Expects, Owns, Served, Joinable
<1>. QED
  BY <1>1, <1>2, <1>3, <1>4 DEF PoolInv

-----------------------------------------------------------------------------
(* The steps of the source keep the invariant.                              *)

\* A step that moves one caller, and no stream, and no shard.
LEMMA MovesOne ==
    ASSUME PoolInv, NEW c \in Callers, NEW r \in CallerRow, CallerSet(c, r),
           r.phase # "active", caller[c].phase # "active",
           Attempts' = Attempts,
           \A j \in 1..Attempts : shards'[j].references = shards[j].references
    PROVE  \A k \in 1..Attempts : ReferencesCounted(k)'
<1>. SUFFICES ASSUME NEW k \in 1..Attempts PROVE ReferencesCounted(k)'
  OBVIOUS
<1>1. Active(k)' = Active(k)
  <2>1. \A d \in Callers :
           (caller'[d].shard = k /\ caller'[d].phase = "active")
              <=> (caller[d].shard = k /\ caller[d].phase = "active")
    BY DEF CallerSet
  <2>. QED
    BY <2>1, SameActive
<1>. QED
  BY <1>1 DEF PoolInv, ReferencesCounted

\* A new shard has no streams.
LEMMA NewShard ==
    ASSUME PoolInv, NEW c \in Callers, NEW r \in CallerRow, CallerSet(c, r),
           r.phase = "waiting", r.shard = Attempts + 1, caller[c].phase = "idle",
           shards'[Attempts + 1].references = 0,
           \A j \in 1..Attempts : shards'[j] = shards[j]
    PROVE  \A k \in 1..(Attempts + 1) : ReferencesCounted(k)'
<1>1. Attempts \in Nat
  BY DEF PoolInv, PoolTypeOK
<1>2. \A d \in Callers : caller[d].shard \in 0..Attempts
  BY CallerShards
<1>3. ASSUME NEW k \in 1..Attempts PROVE ReferencesCounted(k)'
  <2>1. \A d \in Callers :
           (caller'[d].shard = k /\ caller'[d].phase = "active")
              <=> (caller[d].shard = k /\ caller[d].phase = "active")
    BY <1>1 DEF CallerSet
  <2>2. Active(k)' = Active(k)
    BY <2>1, SameActive
  <2>. QED
    BY <1>3, <2>2 DEF PoolInv, ReferencesCounted
<1>4. ASSUME NEW k, k = Attempts + 1 PROVE ReferencesCounted(k)'
  <2>1. \A d \in Callers : ~(caller'[d].shard = k /\ caller'[d].phase = "active")
    BY <1>1, <1>2, <1>4 DEF CallerSet
  <2>2. Active(k)' = {}
    BY <2>1 DEF Active
  <2>3. Cardinality({}) = 0
    BY FS_EmptySet
  <2>. QED
    BY <1>4, <2>2, <2>3 DEF ReferencesCounted
<1>. QED
  BY <1>1, <1>3, <1>4

LEMMA OpenMarketKeeps ==
    ASSUME PoolInv, NEW c \in MarketCallers, OpenMarket(c)
    PROVE  PoolInv'
<1>1. /\ c \in Callers /\ caller[c] = Gone /\ marketShard' = marketShard
      /\ caller[c].phase = "idle" /\ caller[c].shard = 0
      /\ caller[c] \in CallerRow /\ Attempts \in Nat
      /\ marketShard \in 0..Attempts /\ marketOpening \in 0..Attempts
  BY CallersApart, CallerEdits DEF OpenMarket, PoolInv, PoolTypeOK
<1>2. CASE marketShard # 0
  <2>. DEFINE r == Moved(caller[c], "obtained", marketShard)
  <2>1. /\ caller' = [caller EXCEPT ![c] = r]
        /\ UNCHANGED <<marketOpening, shards, connections>>
    BY <1>2 DEF OpenMarket, Moved
  <2>2. r \in CallerRow /\ r.phase = "obtained" /\ r.shard = marketShard
    <3>1. caller[c] \in CallerRow /\ marketShard \in Nat
      BY <1>1
    <3>. QED
      BY <3>1, CallerMoved
  <2>. HIDE DEF r
  <2>3. CallerSet(c, r) /\ Attempts' = Attempts
    BY <1>1, <2>1, <2>2, CallerIsSet DEF PoolInv, Attempts
  <2>4. PoolTypeOK' /\ ConnectionsCounted'
    BY <1>1, <2>1, <2>3 DEF PoolInv, PoolTypeOK, ConnectionsCounted, Held,
                            CallerSet
  <2>5. \A k \in 1..Attempts : ReferencesCounted(k)'
    BY <1>1, <2>1, <2>2, <2>3, MovesOne
  <2>6. Shape'
    BY <1>1, <1>2, <2>1, <2>2, <2>3, CallersApart
       DEF PoolInv, Shape, Placed, Expects, Owns, Served, Joinable, Waiters,
           MarketOwned, CallerSet
  <2>. QED
    BY <2>3, <2>4, <2>5, <2>6 DEF PoolInv
<1>3. CASE marketShard = 0 /\ marketOpening # 0
  <2>. DEFINE p == Joins(shards[marketOpening])
              r == Moved(caller[c], p, marketOpening)
  <2>1. /\ caller' = [caller EXCEPT ![c] = r]
        /\ UNCHANGED <<marketOpening, shards, connections>>
    BY <1>3 DEF OpenMarket, Moved
  <2>2. p = IF shards[marketOpening].state = "opening" THEN "waiting"
            ELSE "resolved"
    BY DEF Joins
  <2>. HIDE DEF p
  <2>3. r \in CallerRow /\ r.phase = p /\ r.shard = marketOpening
    <3>1. caller[c] \in CallerRow /\ marketOpening \in Nat
      BY <1>1
    <3>. QED
      BY <2>2, <3>1, CallerMoved
  <2>. HIDE DEF r
  <2>4. CallerSet(c, r) /\ Attempts' = Attempts
    BY <1>1, <2>1, <2>3, CallerIsSet DEF PoolInv, Attempts
  <2>5. PoolTypeOK' /\ ConnectionsCounted'
    BY <1>1, <2>1, <2>4 DEF PoolInv, PoolTypeOK, ConnectionsCounted, Held,
                            CallerSet
  <2>6. \A k \in 1..Attempts : ReferencesCounted(k)'
    BY <1>1, <2>1, <2>2, <2>3, <2>4, MovesOne
  <2>7. Shape'
    BY <1>1, <1>3, <2>1, <2>2, <2>3, <2>4, CallersApart
       DEF PoolInv, Shape, Placed, Expects, Owns, Served, Joinable, Waiters,
           MarketOwned, CallerSet
  <2>. QED
    BY <2>4, <2>5, <2>6, <2>7 DEF PoolInv
<1>4. CASE marketShard = 0 /\ marketOpening = 0
  <2>. DEFINE n == Attempts + 1
              r == Moved(caller[c], "waiting", n)
  <2>1. /\ caller' = [caller EXCEPT ![c] = r] /\ marketOpening' = n
        /\ shards' = WithShard(Attempts + 1, Opening)
        /\ connections' = connections + 1
    BY <1>4 DEF OpenMarket, Moved
  <2>2. r \in CallerRow /\ r.phase = "waiting" /\ r.shard = n
    <3>1. caller[c] \in CallerRow /\ n \in Nat
      BY <1>1
    <3>. QED
      BY <3>1, CallerMoved
  <2>3. /\ Attempts' = n /\ shards' \in [1..n -> ShardRow]
        /\ shards'[n].state = "opening" /\ shards'[n].references = 0
        /\ ~shards'[n].abandoned /\ ConnectionsCounted'
        /\ \A j \in 1..Attempts : shards'[j] = shards[j]
    BY <2>1, OpenEffect
  <2>. HIDE DEF r
  <2>4. CallerSet(c, r)
    BY <1>1, <2>1, <2>2, CallerIsSet DEF PoolInv
  <2>5. PoolTypeOK'
    BY <1>1, <1>4, <2>1, <2>3, <2>4 DEF PoolTypeOK, CallerSet
  <2>6. \A k \in 1..n : ReferencesCounted(k)'
    BY <1>1, <2>2, <2>3, <2>4, NewShard
  <2>7. \A d \in Callers : caller[d].shard \in 0..Attempts
    BY CallerShards
  <2>8. Shape'
    BY <1>1, <1>4, <2>1, <2>2, <2>3, <2>4, <2>7, CallersApart
       DEF PoolInv, Shape, Placed, Expects, Owns, Served, Joinable, Waiters,
           MarketOwned, CallerSet
  <2>. QED
    BY <2>3, <2>5, <2>6, <2>8 DEF PoolInv
<1>. QED
  BY <1>2, <1>3, <1>4

\* Streams are gone from a shard whose references are dropped.
LEMMA ReferencesKept ==
    ASSUME PoolInv, NEW k \in 1..Attempts,
           shards'[k].references = shards[k].references,
           \A c \in Callers :
              (caller'[c].shard = k /\ caller'[c].phase = "active")
                 <=> (caller[c].shard = k /\ caller[c].phase = "active")
    PROVE  ReferencesCounted(k)'
<1>1. Active(k)' = Active(k)
  BY SameActive
<1>. QED
  BY <1>1 DEF PoolInv, ReferencesCounted

LEMMA ReferencesDropped ==
    ASSUME NEW k, shards'[k].references = 0,
           \A c \in Callers :
              ~(caller'[c].shard = k /\ caller'[c].phase = "active")
    PROVE  ReferencesCounted(k)'
<1>1. Active(k)' = {}
  BY DEF Active
<1>2. Cardinality({}) = 0
  BY FS_EmptySet
<1>. QED
  BY <1>1, <1>2 DEF ReferencesCounted

LEMMA ResolvedCaller ==
    ASSUME NEW r \in CallerRow
    PROVE  LET s == [r EXCEPT !.phase = "resolved"]
           IN  s \in CallerRow /\ s.phase = "resolved" /\ s.shard = r.shard
BY DEF CallerRow

\* A caller is on a shard exactly while its call is under way.
LEMMA PoolPhases ==
    ASSUME PoolInv, NEW c \in Callers
    PROVE  /\ caller[c].phase \in {"idle", "waiting", "resolved", "obtained", "active"}
           /\ caller[c].phase = "idle" => caller[c].shard = 0
           /\ caller[c].phase # "idle" => caller[c].shard \in 1..Attempts
           /\ caller[c].shard \in 1..Attempts => caller[c].phase # "idle"
<1>1. Placed(c) /\ caller[c] \in CallerRow /\ Attempts \in Nat
  BY DEF PoolInv, PoolTypeOK, Shape
<1>2. caller[c].phase = "idle" => caller[c].shard = 0
  BY <1>1 DEF Placed, Gone
<1>. QED
  BY <1>1, <1>2 DEF Placed, CallerRow

LEMMA MarketShardOpenedKeeps ==
    ASSUME PoolInv, NEW k \in DOMAIN shards, MarketShardOpened(k)
    PROVE  PoolInv'
<1>1. /\ k \in 1..Attempts /\ shards[k] \in ShardRow
      /\ shards[k].state = "opening" /\ MarketOwned(k)
      /\ marketOpening' = marketOpening
      /\ \A c \in Callers : caller[c].phase \notin {"resolved", "obtained"}
      /\ \A c \in Callers : caller[c] \in CallerRow
  BY DEF PoolInv, PoolTypeOK, MarketShardOpened, InMicrotask
<1>2. CASE shards[k].abandoned
  <2>1. Close(k, shards[k]) /\ UNCHANGED <<caller, marketShard>>
    BY <1>2 DEF MarketShardOpened, Abandoned
  <2>2. /\ ShardSet(k, [shards[k] EXCEPT !.state = "closed"])
        /\ shards'[k].state = "closed"
        /\ shards'[k].references = shards[k].references
        /\ ConnectionsCounted'
    BY <1>1, <2>1, CloseEffect
  <2>3. PoolTypeOK'
    BY <1>1, <2>1, <2>2 DEF PoolInv, PoolTypeOK, ShardSet
  <2>4. \A c \in Callers : caller[c].shard # k
    <3>. SUFFICES ASSUME NEW c \in Callers, caller[c].shard = k PROVE FALSE
      OBVIOUS
    <3>1. c \in MarketCallers
      BY <1>1, CallersApart DEF MarketOwned
    <3>2. caller[c].phase \in {"waiting", "active"}
      BY <1>1, PoolPhases
    <3>. QED
      BY <1>1, <1>2, <3>1, <3>2 DEF PoolInv, Shape, Placed, Expects
  <2>5. Shape'
    <3>1. \A c \in Callers : Placed(c)'
      BY <2>1, <2>2, <2>4, PoolPhases DEF PoolInv, Shape, Placed, ShardSet
    <3>2. \A c \in MarketCallers : Expects(c)'
      BY <1>1, <2>1, <2>2, <2>4, PoolPhases, CallersApart
         DEF PoolInv, Shape, Expects, ShardSet
    <3>3. \A c \in AccountCallers : Owns(c)'
      BY <2>1 DEF PoolInv, Shape, Owns
    <3>4. \A j \in 1..Attempts : Served(j)'
      <4>. SUFFICES ASSUME NEW j \in 1..Attempts, j # k PROVE Served(j)'
        BY <2>2 DEF Served
      <4>1. shards'[j] = shards[j] /\ Served(j)
        BY <2>2 DEF ShardSet, PoolInv, Shape
      <4>. QED
        BY <1>1, <2>1, <4>1 DEF Served, MarketOwned
    <3>5. Joinable'
      BY <1>1, <2>1, <2>2, <2>4
         DEF PoolInv, PoolTypeOK, Shape, Joinable, Waiters, MarketOwned, ShardSet
    <3>. QED
      BY <2>2, <3>1, <3>2, <3>3, <3>4, <3>5 DEF Shape, ShardSet
  <2>6. ASSUME NEW j \in 1..Attempts PROVE ReferencesCounted(j)'
    <3>1. shards'[j].references = shards[j].references
      BY <2>2 DEF ShardSet
    <3>. QED
      BY <2>1, <3>1, ReferencesKept
  <2>. QED
    BY <2>2, <2>3, <2>5, <2>6 DEF PoolInv, ShardSet
<1>3. CASE ~shards[k].abandoned
  <2>1. /\ marketShard' = k /\ shards' = [shards EXCEPT ![k].state = "open"]
        /\ caller' = [c \in Callers |->
                        IF c \in Waiters(k)
                        THEN [caller[c] EXCEPT !.phase = "resolved"]
                        ELSE caller[c]]
        /\ connections' = connections
    BY <1>3 DEF MarketShardOpened, Abandoned
  <2>. DEFINE r == [shards[k] EXCEPT !.state = "open"]
  <2>2. /\ r \in ShardRow /\ r.state = "open"
        /\ r.references = shards[k].references /\ r.abandoned = shards[k].abandoned
    BY <1>1 DEF ShardRow
  <2>3. shards' = [shards EXCEPT ![k] = r]
    BY <2>1
  <2>. HIDE DEF r
  <2>4. ShardSet(k, r)
    BY <1>1, <2>2, <2>3, ShardIsSet DEF PoolInv
  <2>5. /\ marketOpening = k /\ marketShard = 0 /\ k # 0
        /\ \E c \in Callers : caller[c].shard = k
    BY <1>1, <1>3 DEF PoolInv, PoolTypeOK, Shape, Served, Joinable, Waiters
  <2>6. \A c \in Callers :
           c \in Waiters(k) <=> (caller[c].shard = k /\ caller[c].phase = "waiting")
    BY <1>1 DEF Waiters
  <2>7. \A c \in Callers :
           IF caller[c].shard = k /\ caller[c].phase = "waiting"
           THEN /\ caller'[c] \in CallerRow /\ caller'[c].phase = "resolved"
                /\ caller'[c].shard = k
           ELSE caller'[c] = caller[c]
    BY <1>1, <2>1, <2>6, ResolvedCaller
  <2>8. caller' \in [Callers -> CallerRow]
    <3>1. \A c \in Callers : caller'[c] \in CallerRow
      BY <1>1, <2>7
    <3>. QED
      BY <2>1, <3>1
  <2>9. PoolTypeOK'
    BY <1>1, <2>1, <2>4, <2>8 DEF PoolInv, PoolTypeOK, ShardSet
  <2>10. ConnectionsCounted'
    BY <1>1, <2>1, <2>2, <2>4, SameConnections DEF ShardSet
  <2>11. ASSUME NEW j \in 1..Attempts PROVE ReferencesCounted(j)'
    <3>1. shards'[j].references = shards[j].references
      BY <2>2, <2>4 DEF ShardSet
    <3>. QED
      BY <2>7, <3>1, ReferencesKept
  <2>12. \A c \in Callers : Placed(c)'
    BY <1>1, <2>2, <2>4, <2>7 DEF PoolInv, Shape, Placed, ShardSet
  <2>13. \A c \in MarketCallers : Expects(c)'
    <3>. SUFFICES ASSUME NEW c \in MarketCallers PROVE Expects(c)'
      OBVIOUS
    <3>1. Expects(c) /\ Placed(c) /\ c \in Callers
      BY CallersApart DEF PoolInv, Shape
    <3>2. CASE caller[c].shard = k /\ caller[c].phase = "waiting"
      BY <1>3, <1>1, <2>1, <2>2, <2>4, <2>5, <2>7, <3>1, <3>2
         DEF Expects, ShardSet
    <3>3. CASE ~(caller[c].shard = k /\ caller[c].phase = "waiting")
      <4>1. caller'[c] = caller[c]
        BY <2>7, <3>1, <3>3
      <4>2. caller[c].phase \notin {"waiting", "resolved", "obtained"}
        BY <1>1, <2>5, <3>1, <3>3 DEF Expects
      <4>. QED
        BY <4>1, <4>2 DEF Expects
    <3>. QED
      BY <3>2, <3>3
  <2>14. \A c \in AccountCallers : Owns(c)'
    BY <1>1, <2>7, CallersApart DEF PoolInv, Shape, Owns, MarketOwned
  <2>15. \A j \in 1..Attempts : Served(j)'
    <3>. SUFFICES ASSUME NEW j \in 1..Attempts PROVE Served(j)'
      OBVIOUS
    <3>1. /\ MarketOwned(j)' = MarketOwned(j)
          /\ \A c \in Callers : caller'[c].shard = caller[c].shard
      BY <2>7, CallersApart DEF MarketOwned
    <3>2. Served(j)
      BY DEF PoolInv, Shape
    <3>3. CASE j = k
      BY <2>1, <2>2, <2>4, <2>5, <3>1, <3>3 DEF Served, ShardSet
    <3>4. CASE j # k
      BY <1>1, <2>4, <2>5, <3>1, <3>2, <3>4 DEF Served, ShardSet
    <3>. QED
      BY <3>3, <3>4
  <2>16. Joinable'
    BY <1>1, <2>1, <2>2, <2>4, <2>5, <2>7, CallersApart
       DEF PoolInv, PoolTypeOK, Shape, Joinable, Waiters, MarketOwned, ShardSet
  <2>. QED
    BY <2>4, <2>9, <2>10, <2>11, <2>12, <2>13, <2>14, <2>15, <2>16
       DEF PoolInv, Shape, ShardSet
<1>. QED
  BY <1>2, <1>3

LEMMA MarketShardFailsKeeps ==
    ASSUME PoolInv, NEW k \in DOMAIN shards, MarketShardFails(k)
    PROVE  PoolInv'
<1>. DEFINE s == [shards[k] EXCEPT !.abandoned = TRUE]
<1>1. /\ k \in 1..Attempts /\ shards[k] \in ShardRow
      /\ shards[k].state = "opening" /\ MarketOwned(k)
      /\ UNCHANGED marketShard /\ Close(k, s)
      /\ marketOpening' = IF marketOpening = k THEN 0 ELSE marketOpening
      /\ caller' = [c \in Callers |-> IF c \in Waiters(k) THEN Gone ELSE caller[c]]
      /\ \A c \in Callers : caller[c].phase \notin {"resolved", "obtained"}
      /\ \A c \in Callers : caller[c] \in CallerRow
  BY DEF PoolInv, PoolTypeOK, MarketShardFails, InMicrotask
<1>2. s \in ShardRow /\ s.references = shards[k].references
  BY <1>1 DEF ShardRow
<1>. HIDE DEF s
<1>3. /\ ShardSet(k, [s EXCEPT !.state = "closed"])
      /\ shards'[k].state = "closed"
      /\ shards'[k].references = shards[k].references
      /\ ConnectionsCounted'
  BY <1>1, <1>2, CloseEffect
<1>4. \A c \in Callers :
         /\ caller'[c] = IF caller[c].shard = k THEN Gone ELSE caller[c]
         /\ caller[c].shard = k => caller[c].phase = "waiting"
  BY <1>1 DEF Waiters, PoolInv, PoolTypeOK, Shape, Placed, Gone, CallerRow
<1>5. caller' \in [Callers -> CallerRow]
  <2>1. \A c \in Callers : caller'[c] \in CallerRow
    BY <1>1, <1>4, CallerEdits
  <2>. QED
    BY <1>1, <2>1
<1>6. PoolTypeOK'
  BY <1>1, <1>3, <1>5 DEF PoolInv, PoolTypeOK, ShardSet
<1>7. Gone.phase = "idle" /\ Gone.shard = 0
  BY CallerEdits
<1>8. ASSUME NEW j \in 1..Attempts PROVE ReferencesCounted(j)'
  <2>1. shards'[j].references = shards[j].references
    BY <1>3 DEF ShardSet
  <2>. QED
    BY <1>4, <1>7, <2>1, ReferencesKept
<1>9. Shape'
  <2>1. \A c \in Callers : Placed(c)'
    BY <1>3, <1>4, <1>7, PoolPhases DEF PoolInv, Shape, Placed, ShardSet
  <2>2. \A c \in MarketCallers : Expects(c)'
    BY <1>1, <1>3, <1>4, <1>7, PoolPhases, CallersApart
       DEF PoolInv, Shape, Expects, ShardSet
  <2>3. \A c \in AccountCallers : Owns(c)'
    BY <1>1, <1>4, <1>7, CallersApart DEF PoolInv, Shape, Owns, MarketOwned
  <2>4. \A j \in 1..Attempts : Served(j)'
    <3>. SUFFICES ASSUME NEW j \in 1..Attempts, j # k PROVE Served(j)'
      BY <1>3 DEF Served
    <3>1. MarketOwned(j)' = MarketOwned(j)
      BY <1>1, <1>4, <1>7, CallersApart DEF MarketOwned
    <3>2. shards'[j] = shards[j] /\ Served(j) /\ j # 0
      BY <1>3 DEF ShardSet, PoolInv, Shape
    <3>3. (\E c \in Callers : caller[c].shard = j)
             => \E c \in Callers : caller'[c].shard = j
      BY <1>4
    <3>. QED
      BY <1>1, <3>1, <3>2, <3>3 DEF Served
  <2>5. Joinable'
    BY <1>1, <1>3, <1>4, <1>7, CallersApart
       DEF PoolInv, PoolTypeOK, Shape, Joinable, Waiters, MarketOwned, ShardSet
  <2>. QED
    BY <1>3, <2>1, <2>2, <2>3, <2>4, <2>5 DEF Shape, ShardSet
<1>. QED
  BY <1>3, <1>6, <1>8, <1>9 DEF PoolInv, ShardSet

\* A market caller leaves the opening it waited for (#marketShard after
\* waitForShared), with its shard or without.
LEMMA LeaveKeeps ==
    ASSUME PoolInv, NEW c \in MarketCallers, NEW obtained \in BOOLEAN,
           caller[c].phase \in {"waiting", "resolved"},
           caller[c].phase = "waiting" => ~obtained, Leave(c, obtained)
    PROVE  PoolInv'
<1>. DEFINE k == caller[c].shard
            left == Waiters(k) \ {c}
            abandoned == shards[k].abandoned \/ (~obtained /\ left = {})
            r == IF obtained THEN [caller[c] EXCEPT !.phase = "obtained"] ELSE Gone
            closes == left = {} /\ abandoned /\ shards[k].state = "open"
<1>1. /\ c \in Callers /\ caller[c] \in CallerRow /\ Placed(c) /\ Expects(c)
      /\ c \notin AccountCallers
  BY CallersApart DEF PoolInv, PoolTypeOK, Shape
<1>2. /\ k \in 1..Attempts /\ k # 0 /\ shards[k] \in ShardRow /\ marketOpening = k
      /\ ~shards[k].abandoned /\ abandoned \in BOOLEAN
      /\ caller[c].phase = "waiting" => shards[k].state = "opening"
      /\ caller[c].phase = "resolved" => shards[k].state # "opening"
  BY <1>1 DEF Placed, Expects, PoolInv, PoolTypeOK, ShardRow
<1>3. /\ caller' = [caller EXCEPT ![c] = r]
      /\ marketOpening' = IF left = {} THEN 0 ELSE k
      /\ IF closes THEN CloseUnusedMarketShard(k, {})
         ELSE /\ shards' = [shards EXCEPT ![k].abandoned = abandoned]
              /\ UNCHANGED <<marketShard, connections>>
  BY <1>2 DEF Leave
<1>4. /\ r \in CallerRow
      /\ IF obtained THEN r.phase = "obtained" /\ r.shard = k
         ELSE r = Gone /\ r.phase = "idle" /\ r.shard = 0
  BY <1>1, CallerEdits DEF CallerRow
<1>5. MarketOwned(k)
  BY <1>1, <1>2, CallersApart DEF MarketOwned, PoolInv, Shape, Owns
<1>6. \A d \in Callers :
         d \in left <=> /\ d # c /\ caller[d].shard = k
                        /\ caller[d].phase \in {"waiting", "resolved"}
  BY DEF Waiters
<1>. HIDE DEF r, left
<1>7. CallerSet(c, r)
  BY <1>1, <1>3, <1>4, CallerIsSet DEF PoolInv
<1>9. \A j \in 1..Attempts :
         MarketOwned(j) => \A d \in AccountCallers : caller'[d].shard # j
  BY <1>1, <1>7, CallersApart DEF CallerSet, MarketOwned
<1>10. left # {} => \E d \in Callers :
          caller'[d].shard = k /\ caller'[d].phase \in {"waiting", "resolved"}
  <2>. SUFFICES ASSUME left # {}
       PROVE  \E d \in Callers : /\ caller'[d].shard = k
                                  /\ caller'[d].phase \in {"waiting", "resolved"}
    OBVIOUS
  <2>1. PICK d \in left : TRUE
    OBVIOUS
  <2>2. d \in Callers
    BY <2>1 DEF left, Waiters
  <2>. QED
    BY <1>6, <1>7, <2>1, <2>2 DEF CallerSet
<1>11. ~obtained /\ left = {} =>
          \A d \in Callers : caller[d].shard = k => \/ d = c
                             \/ caller[d].phase \in {"obtained", "active"}
  BY <1>2, <1>6, PoolPhases
\* What the shard becomes.
<1>12. /\ Attempts' = Attempts /\ PoolTypeOK' /\ ConnectionsCounted'
       /\ \A j \in 1..Attempts : shards'[j].references = shards[j].references
       /\ \A j \in 1..Attempts : j # k => shards'[j] = shards[j]
       /\ \/ /\ shards'[k].state = "closed" /\ marketShard' = 0
             /\ ~obtained /\ left = {} /\ shards[k].state = "open"
             /\ shards[k].references = 0
          \/ /\ shards'[k].state = shards[k].state /\ marketShard' = marketShard
             /\ ~closes => (shards'[k].abandoned <=> abandoned)
             /\ closes => /\ shards[k].references # 0 /\ left = {}
                          /\ shards[k].state = "open"
  <2>1. CASE closes /\ Unused(k, {})
    <3>1. Close(k, shards[k]) /\ marketShard' = 0
      BY <1>3, <2>1 DEF CloseUnusedMarketShard
    <3>2. /\ ShardSet(k, [shards[k] EXCEPT !.state = "closed"])
          /\ shards'[k].state = "closed"
          /\ shards'[k].references = shards[k].references
          /\ ConnectionsCounted'
      BY <1>2, <3>1, CloseEffect
    <3>3. PoolTypeOK'
      BY <1>2, <1>3, <1>7, <3>1, <3>2 DEF PoolInv, PoolTypeOK, ShardSet, CallerSet
    <3>. QED
      BY <1>2, <2>1, <3>1, <3>2, <3>3 DEF ShardSet, Unused
  <2>2. CASE closes /\ ~Unused(k, {})
    <3>1. UNCHANGED <<shards, marketShard, connections>>
      BY <1>3, <2>2 DEF CloseUnusedMarketShard
    <3>2. shards[k].references # 0
      BY <1>2, <1>5, <2>2 DEF Unused, PoolInv, Shape, Served
    <3>3. Attempts' = Attempts
      BY <3>1 DEF Attempts
    <3>4. PoolTypeOK'
      BY <1>2, <1>3, <1>7, <3>1, <3>3 DEF PoolInv, PoolTypeOK, CallerSet
    <3>5. ConnectionsCounted'
      BY <3>1, <3>3, SameConnections
    <3>. QED
      BY <2>2, <3>1, <3>2, <3>3, <3>4, <3>5
  <2>3. CASE ~closes
    <3>. DEFINE s == [shards[k] EXCEPT !.abandoned = abandoned]
    <3>1. shards' = [shards EXCEPT ![k] = s] /\ UNCHANGED <<marketShard, connections>>
      BY <1>3, <2>3
    <3>2. /\ s \in ShardRow /\ s.state = shards[k].state
          /\ s.references = shards[k].references /\ (s.abandoned <=> abandoned)
      BY <1>2 DEF ShardRow
    <3>. HIDE DEF s, abandoned
    <3>3. ShardSet(k, s)
      BY <1>2, <3>1, <3>2, ShardIsSet DEF PoolInv
    <3>4. PoolTypeOK'
      BY <1>2, <1>3, <1>7, <3>1, <3>3 DEF PoolInv, PoolTypeOK, ShardSet, CallerSet
    <3>5. ConnectionsCounted'
      BY <3>1, <3>2, <3>3, SameConnections DEF ShardSet
    <3>. QED
      BY <2>3, <3>1, <3>2, <3>3, <3>4, <3>5 DEF ShardSet
  <2>. QED
    BY <2>1, <2>2, <2>3
<1>13. \A j \in 1..Attempts : ReferencesCounted(j)'
  BY <1>1, <1>4, <1>7, <1>12, MovesOne
<1>14. \A d \in Callers : Placed(d)'
  <2>. SUFFICES ASSUME NEW d \in Callers PROVE Placed(d)'
    OBVIOUS
  <2>1. CASE d = c
    BY <1>2, <1>4, <1>7, <1>12, <2>1 DEF CallerSet, Placed
  <2>2. CASE d # c
    <3>1. caller'[d] = caller[d] /\ Placed(d)
      BY <1>7, <2>2 DEF CallerSet, PoolInv, Shape
    <3>2. caller[d].phase = "active" /\ caller[d].shard = k
             => shards[k].references # 0
      BY <1>2, NoReferences
    <3>3. caller[d].phase = "waiting" /\ caller[d].shard = k
             => shards[k].state = "opening"
      BY <3>1 DEF Placed
    <3>. QED
      BY <1>2, <1>12, <3>1, <3>2, <3>3 DEF Placed
  <2>. QED
    BY <2>1, <2>2
<1>15. \A d \in MarketCallers : Expects(d)'
  <2>. SUFFICES ASSUME NEW d \in MarketCallers PROVE Expects(d)'
    OBVIOUS
  <2>1. d \in Callers /\ Expects(d) /\ Placed(d)
    BY CallersApart DEF PoolInv, Shape
  <2>2. CASE d = c
    BY <1>1, <1>2, <1>4, <1>7, <1>12, <2>1, <2>2 DEF CallerSet, Expects
  <2>3. CASE d # c
    <3>1. caller'[d] = caller[d]
      BY <1>7, <2>1, <2>3 DEF CallerSet
    <3>2. caller[d].phase \in {"waiting", "resolved"} => d \in left
      BY <1>2, <1>6, <2>1, <2>3 DEF Expects
    <3>. QED
      BY <1>2, <1>3, <1>12, <2>1, <3>1, <3>2 DEF Expects
  <2>. QED
    BY <2>2, <2>3
<1>16. \A d \in AccountCallers : Owns(d)'
  <2>. SUFFICES ASSUME NEW d \in AccountCallers PROVE Owns(d)'
    OBVIOUS
  <2>1. Owns(d) /\ caller'[d] = caller[d] /\ d \in Callers
    BY <1>1, <1>7, CallersApart DEF PoolInv, Shape, CallerSet
  <2>2. \A e \in Callers : caller'[e].shard \in {0, caller[e].shard}
    BY <1>4, <1>7 DEF CallerSet
  <2>. QED
    BY <2>1, <2>2 DEF Owns
<1>17. \A j \in 1..Attempts : Served(j)'
  <2>. SUFFICES ASSUME NEW j \in 1..Attempts PROVE Served(j)'
    OBVIOUS
  <2>1. Served(j) /\ MarketOwned(j)' = MarketOwned(j)
    BY <1>1, <1>7, CallersApart DEF CallerSet, MarketOwned, PoolInv, Shape
  <2>2. \A d \in Callers : d # c => caller'[d] = caller[d]
    BY <1>7 DEF CallerSet
  <2>3. CASE j # k
    BY <1>2, <1>3, <1>5, <1>12, <2>1, <2>2, <2>3 DEF Served, PoolInv, Shape
  <2>4. CASE j = k
    <3>1. shards'[k].state = "open" => \E d \in Callers : caller'[d].shard = k
      <4>1. CASE obtained
        BY <1>1, <1>4, <1>7, <4>1 DEF CallerSet
      <4>2. CASE left # {}
        BY <1>6, <2>2, <4>2 DEF Waiters, left
      <4>3. CASE ~obtained /\ left = {}
        <5>. SUFFICES ASSUME shards'[k].state = "open"
             PROVE  \E d \in Callers : caller'[d].shard = k
          OBVIOUS
        <5>1. shards[k].references # 0
          BY <1>12, <4>3
        <5>2. PICK d \in Callers : caller[d].shard = k /\ caller[d].phase = "active"
          BY <1>2, <5>1, NoReferences
        <5>. QED
          BY <2>2, <5>2
      <4>. QED
        BY <4>1, <4>2, <4>3
    <3>2. shards'[k].state = "open" => marketShard' = k
      BY <1>5, <1>12, <2>1, <2>4 DEF Served
    <3>3. shards'[k].state = "opening" /\ ~shards'[k].abandoned
             => marketOpening' = k
      BY <1>1, <1>2, <1>3, <1>12
    <3>. QED
      BY <2>4, <3>1, <3>2, <3>3 DEF Served
  <2>. QED
    BY <2>3, <2>4
<1>18. Joinable'
  <2>1. ASSUME marketShard' # 0
        PROVE  /\ shards'[marketShard'].state = "open"
               /\ \A d \in AccountCallers : caller'[d].shard # marketShard'
    <3>1. marketShard' = marketShard /\ marketShard \in 1..Attempts
      BY <1>12, <2>1 DEF PoolInv, PoolTypeOK
    <3>2. shards[marketShard].state = "open" /\ MarketOwned(marketShard)
      BY <2>1, <3>1 DEF PoolInv, Shape, Joinable
    <3>. QED
      BY <1>9, <1>12, <2>1, <3>1, <3>2
  <2>2. ASSUME marketOpening' # 0
        PROVE  /\ \E d \in Callers :
                     /\ caller'[d].shard = marketOpening'
                     /\ caller'[d].phase \in {"waiting", "resolved"}
               /\ \A d \in AccountCallers : caller'[d].shard # marketOpening'
               /\ shards'[marketOpening'].state = "opening" => marketShard' = 0
    <3>1. marketOpening' = k /\ left # {}
      BY <1>3, <2>2
    <3>2. shards[k].state = "opening" => marketShard = 0
      BY <1>2 DEF PoolInv, Shape, Joinable
    <3>. QED
      BY <1>2, <1>5, <1>9, <1>10, <1>12, <3>1, <3>2
  <2>. QED
    BY <2>1, <2>2 DEF Joinable, Waiters, MarketOwned
<1>. QED
  BY <1>12, <1>13, <1>14, <1>15, <1>16, <1>17, <1>18 DEF PoolInv, Shape

\* A market caller that had its shard gives it up: the shard is closed and
\* forgotten when nobody is left on it, or stays for the others.
LEMMA GivesUpKeeps ==
    ASSUME PoolInv, NEW c \in MarketCallers, NEW k, k = caller[c].shard,
           caller[c].phase \in {"obtained", "active"}, CallerSet(c, Gone),
           marketOpening' = marketOpening, Attempts' = Attempts,
           shards' \in [1..Attempts -> ShardRow], ConnectionsCounted',
           \A j \in 1..Attempts : j # k => shards'[j] = shards[j],
           shards'[k].abandoned = shards[k].abandoned,
           \/ /\ shards'[k].state = "closed" /\ marketShard' = 0
              /\ shards'[k].references = 0
              /\ \A d \in Callers \ {c} :
                    ~(caller[d].shard = k /\ caller[d].phase = "active")
           \/ /\ shards'[k].state = shards[k].state /\ marketShard' = marketShard
              /\ ReferencesCounted(k)'
              /\ shards[k].state = "open" =>
                    \E d \in Callers \ {c} : caller[d].shard = k
    PROVE  PoolInv'
<1>1. /\ c \in Callers /\ c \notin AccountCallers /\ Placed(c) /\ Expects(c)
      /\ Gone \in CallerRow /\ Gone.phase = "idle" /\ Gone.shard = 0
  BY CallersApart, CallerEdits DEF PoolInv, Shape
<1>2. k \in 1..Attempts /\ k # 0 /\ shards[k].state # "opening"
  BY <1>1 DEF Placed, PoolInv, PoolTypeOK
<1>3. MarketOwned(k)
  BY <1>1, <1>2, CallersApart DEF MarketOwned, PoolInv, Shape, Owns
<1>4. marketShard \in {0, k}
  BY <1>1, <1>2, <1>3 DEF Placed, Expects, PoolInv, Shape, Served
<1>5. \A d \in Callers : IF d = c THEN caller'[d] = Gone ELSE caller'[d] = caller[d]
  BY DEF CallerSet
<1>6. \A j \in 1..Attempts : MarketOwned(j)' = MarketOwned(j)
  BY <1>1, <1>5, CallersApart DEF MarketOwned
<1>7. PoolTypeOK'
  BY <1>2 DEF CallerSet, PoolInv, PoolTypeOK
<1>8. ASSUME NEW j \in 1..Attempts PROVE ReferencesCounted(j)'
  <2>1. CASE j # k
    <3>1. shards'[j].references = shards[j].references
      BY <2>1
    <3>. QED
      BY <1>1, <1>5, <2>1, <3>1, ReferencesKept
  <2>2. CASE j = k /\ ~ReferencesCounted(k)'
    <3>1. shards'[k].references = 0
      BY <2>2
    <3>2. \A d \in Callers : ~(caller'[d].shard = k /\ caller'[d].phase = "active")
      BY <1>1, <1>5, <2>2
    <3>. QED
      BY <2>2, <3>1, <3>2, ReferencesDropped
  <2>. QED
    BY <2>1, <2>2
<1>9. \A d \in Callers : Placed(d)'
  BY <1>1, <1>2, <1>5 DEF Placed, PoolInv, Shape
<1>10. \A d \in MarketCallers : Expects(d)'
  <2>. SUFFICES ASSUME NEW d \in MarketCallers PROVE Expects(d)'
    OBVIOUS
  <2>1. d \in Callers /\ Expects(d) /\ Placed(d)
    BY CallersApart DEF PoolInv, Shape
  <2>2. caller[d].phase \in {"waiting", "resolved"} =>
           caller[d].shard \in 1..Attempts
    BY <2>1 DEF Placed
  <2>3. CASE d = c
    BY <1>1, <1>5, <2>1, <2>3 DEF Expects
  <2>4. CASE d # c /\ shards'[k].state = "closed" /\ marketShard' = 0
    <3>1. caller'[d] = caller[d]
      BY <1>5, <2>1, <2>4
    <3>2. CASE caller[d].phase \in {"waiting", "resolved"} /\ caller[d].shard = k
      <4>1. ~shards[k].abandoned
        BY <2>1, <3>2 DEF Expects
      <4>. QED
        BY <2>1, <2>4, <3>1, <3>2, <4>1 DEF Expects
    <3>. QED
      BY <2>1, <2>2, <2>4, <3>1, <3>2 DEF Expects
  <2>5. CASE d # c /\ marketShard' = marketShard
    BY <1>5, <2>1, <2>2, <2>5 DEF Expects
  <2>. QED
    BY <2>3, <2>4, <2>5
<1>11. \A d \in AccountCallers : Owns(d)'
  BY <1>1, <1>5, CallersApart DEF PoolInv, Shape, Owns
<1>12. \A j \in 1..Attempts : Served(j)'
  <2>. SUFFICES ASSUME NEW j \in 1..Attempts PROVE Served(j)'
    OBVIOUS
  <2>1. Served(j) /\ MarketOwned(j)' = MarketOwned(j)
    BY <1>6 DEF PoolInv, Shape
  <2>2. CASE j # k
    BY <1>2, <1>4, <1>5, <2>1, <2>2 DEF Served, PoolInv, PoolTypeOK
  <2>3. CASE j = k
    BY <1>2, <1>5, <2>1, <2>3 DEF Served
  <2>. QED
    BY <2>2, <2>3
<1>13. Joinable'
  <2>1. marketShard' # 0 => /\ marketShard' = marketShard
                            /\ shards'[marketShard].state = shards[marketShard].state
    BY <1>4
  <2>2. \A d \in AccountCallers : caller'[d] = caller[d]
    BY <1>1, <1>5, CallersApart
  <2>3. \A d \in Callers : caller[d].phase \in {"waiting", "resolved"}
                              => caller'[d] = caller[d]
    BY <1>5
  <2>4. marketOpening # 0 => /\ marketOpening \in 1..Attempts
                             /\ shards'[marketOpening].state = "opening"
                                   => shards[marketOpening].state = "opening"
    BY <1>2 DEF PoolInv, PoolTypeOK
  <2>5. marketShard' \in {0, marketShard}
    OBVIOUS
  <2>. QED
    BY <2>1, <2>2, <2>3, <2>4, <2>5
       DEF PoolInv, Shape, Joinable, Waiters, MarketOwned
<1>. QED
  BY <1>7, <1>8, <1>9, <1>10, <1>11, <1>12, <1>13 DEF PoolInv, Shape

\* A stream that ends takes its reference with it.
LEMMA ReferenceRemoved ==
    ASSUME PoolInv, NEW c \in Callers, NEW k \in 1..Attempts,
           caller[c].shard = k, caller[c].phase = "active", CallerSet(c, Gone)
    PROVE  /\ shards[k].references - 1 \in Nat
           /\ Cardinality(Active(k)') = shards[k].references - 1
           /\ Active(k)' = Active(k) \ {c}
<1>1. Active(k)' = Active(k) \ {c}
  BY CallerEdits DEF Active, CallerSet
<1>2. c \in Active(k)
  BY DEF Active
<1>3. IsFiniteSet(Active(k)) /\ Cardinality(Active(k)) \in Nat
  BY ActiveFinite
<1>4. Cardinality(Active(k)) # 0
  BY <1>2, <1>3, FS_EmptySet
<1>5. Cardinality(Active(k) \ {c}) = Cardinality(Active(k)) - 1
  BY <1>2, <1>3, FS_RemoveElement
<1>. QED
  BY <1>1, <1>3, <1>4, <1>5 DEF PoolInv, ReferencesCounted

\* The shard of the last stream is closed, or it loses a reference.
LEMMA DereferenceKeeps ==
    ASSUME PoolInv, NEW c \in MarketCallers, NEW k, k = caller[c].shard,
           NEW n \in Nat, Dereference(k, n), CallerSet(c, Gone),
           marketOpening' = marketOpening,
           \/ /\ caller[c].phase = "obtained" /\ shards[k].state = "closed"
              /\ n = shards[k].references
           \/ caller[c].phase = "active" /\ n = shards[k].references - 1
    PROVE  PoolInv'
<1>1. c \in Callers /\ Placed(c)
  BY CallersApart DEF PoolInv, Shape
<1>2. k \in 1..Attempts /\ shards[k] \in ShardRow
  BY <1>1 DEF Placed, PoolInv, PoolTypeOK
<1>3. n = 0 => \A d \in Callers \ {c} :
                  ~(caller[d].shard = k /\ caller[d].phase = "active")
  <2>1. CASE caller[c].phase = "obtained"
    BY <1>2, <2>1, NoReferences
  <2>2. CASE caller[c].phase = "active" /\ n = shards[k].references - 1 /\ n = 0
    <3>1. Active(k)' = Active(k) \ {c} /\ Cardinality(Active(k)') = 0
      BY <1>1, <1>2, <2>2, ReferenceRemoved
    <3>2. IsFiniteSet(Active(k) \ {c})
      BY ActiveFinite, FS_RemoveElement
    <3>3. Active(k) \ {c} = {}
      BY <3>1, <3>2, FS_EmptySet
    <3>. QED
      BY <3>3 DEF Active
  <2>. QED
    BY <2>1, <2>2
<1>4. CASE n = 0
  <2>. DEFINE s == [shards[k] EXCEPT !.references = 0]
  <2>1. marketShard' = 0 /\ Close(k, s)
    BY <1>4 DEF Dereference
  <2>2. /\ s \in ShardRow /\ s.references = 0
        /\ s.abandoned = shards[k].abandoned
    BY <1>2 DEF ShardRow
  <2>. HIDE DEF s
  <2>3. /\ ShardSet(k, [s EXCEPT !.state = "closed"])
        /\ shards'[k].state = "closed" /\ shards'[k].references = 0
        /\ shards'[k].abandoned = shards[k].abandoned /\ ConnectionsCounted'
    BY <1>2, <2>1, <2>2, CloseEffect
  <2>4. /\ Attempts' = Attempts /\ shards' \in [1..Attempts -> ShardRow]
        /\ \A j \in 1..Attempts : j # k => shards'[j] = shards[j]
        /\ caller[c].phase \in {"obtained", "active"}
    BY <2>3 DEF ShardSet
  <2>. QED
    BY <1>3, <1>4, <2>1, <2>3, <2>4, GivesUpKeeps
<1>5. CASE n # 0
  <2>. DEFINE s == [shards[k] EXCEPT !.references = n]
  <2>1. /\ shards' = [shards EXCEPT ![k] = s]
        /\ UNCHANGED <<marketShard, connections>>
    BY <1>5 DEF Dereference
  <2>2. /\ s \in ShardRow /\ s.references = n /\ s.state = shards[k].state
        /\ s.abandoned = shards[k].abandoned
    BY <1>2 DEF ShardRow
  <2>. HIDE DEF s
  <2>3. ShardSet(k, s)
    BY <1>2, <2>1, <2>2, ShardIsSet DEF PoolInv
  <2>4. ConnectionsCounted'
    BY <2>1, <2>2, <2>3, SameConnections DEF ShardSet
  <2>5. caller[c].phase = "active"
    <3>1. CASE caller[c].phase = "obtained"
      BY <1>1, <1>2, <1>5, <3>1, NoReferences DEF PoolInv, Shape, Placed
    <3>. QED
      BY <3>1
  <2>6. ReferencesCounted(k)'
    <3>1. Cardinality(Active(k)') = n
      BY <1>1, <1>2, <2>5, ReferenceRemoved
    <3>. QED
      BY <2>2, <2>3, <3>1 DEF ReferencesCounted, ShardSet
  <2>7. \E d \in Callers \ {c} : caller[d].shard = k
    <3>1. Active(k)' = Active(k) \ {c} /\ Cardinality(Active(k)') = n
      BY <1>1, <1>2, <2>5, ReferenceRemoved
    <3>2. Active(k) \ {c} # {}
      BY <1>5, <3>1, FS_EmptySet
    <3>. QED
      BY <3>2 DEF Active
  <2>. QED
    BY <1>2, <2>1, <2>2, <2>3, <2>4, <2>5, <2>6, <2>7, GivesUpKeeps DEF ShardSet
<1>. QED
  BY <1>4, <1>5

LEMMA SubscribeKeeps ==
    ASSUME PoolInv, NEW c \in MarketCallers, Subscribe(c),
           NEW k, k = caller[c].shard
    PROVE  PoolInv'
<1>1. /\ c \in Callers /\ caller[c] \in CallerRow /\ Placed(c) /\ Expects(c)
      /\ c \notin AccountCallers /\ caller[c].phase = "obtained"
      /\ marketOpening' = marketOpening
  BY CallersApart DEF Subscribe, PoolInv, PoolTypeOK, Shape
<1>2. k \in 1..Attempts /\ shards[k] \in ShardRow
  BY <1>1 DEF Placed, PoolInv, PoolTypeOK
<1>3. MarketOwned(k)
  BY <1>1, <1>2, CallersApart DEF MarketOwned, PoolInv, Shape, Owns
<1>4. CASE /\ caller' = [caller EXCEPT ![c] = Gone]
           /\ CloseUnusedMarketShard(k, Waiters(marketOpening))
  <2>1. CallerSet(c, Gone)
    BY <1>1, <1>4, CallerEdits, CallerIsSet DEF PoolInv
  <2>2. CASE Unused(k, Waiters(marketOpening))
    <3>1. Close(k, shards[k]) /\ marketShard' = 0 /\ shards[k].references = 0
      BY <1>4, <2>2 DEF CloseUnusedMarketShard, Unused
    <3>2. /\ ShardSet(k, [shards[k] EXCEPT !.state = "closed"])
          /\ shards'[k].state = "closed" /\ shards'[k].references = 0
          /\ shards'[k].abandoned = shards[k].abandoned /\ ConnectionsCounted'
      BY <1>2, <3>1, CloseEffect
    <3>3. \A d \in Callers : ~(caller[d].shard = k /\ caller[d].phase = "active")
      BY <1>2, <3>1, NoReferences
    <3>4. /\ Attempts' = Attempts /\ shards' \in [1..Attempts -> ShardRow]
          /\ \A j \in 1..Attempts : j # k => shards'[j] = shards[j]
      BY <3>2 DEF ShardSet
    <3>. QED
      BY <1>1, <2>1, <3>1, <3>2, <3>3, <3>4, GivesUpKeeps
  <2>3. CASE ~Unused(k, Waiters(marketOpening))
    <3>1. UNCHANGED <<marketShard, shards, connections>>
      BY <1>4, <2>3 DEF CloseUnusedMarketShard
    <3>2. Attempts' = Attempts
      BY <3>1 DEF Attempts
    <3>3. ConnectionsCounted'
      BY <3>1, <3>2, SameConnections
    <3>4. \A j \in 1..Attempts : ReferencesCounted(j)'
      BY <1>1, <2>1, <3>1, <3>2, CallerEdits, MovesOne
    <3>5. shards[k].state = "open" => \E d \in Callers \ {c} : caller[d].shard = k
      <4>. SUFFICES ASSUME shards[k].state = "open"
           PROVE  \E d \in Callers \ {c} : caller[d].shard = k
        OBVIOUS
      <4>1. marketShard = k /\ k # 0
        BY <1>2, <1>3 DEF PoolInv, PoolTypeOK, Shape, Served
      <4>2. CASE shards[k].references # 0
        BY <1>1, <1>2, <4>2, NoReferences
      <4>3. CASE Waiters(marketOpening) # {}
        <5>1. PICK d \in Callers : /\ caller[d].shard = marketOpening
                                   /\ caller[d].phase \in {"waiting", "resolved"}
          BY <4>3 DEF Waiters
        <5>2. Placed(d) /\ d # c /\ marketOpening # 0
          BY <1>1, <5>1, PoolPhases DEF PoolInv, PoolTypeOK, Shape, Placed
        <5>3. shards[marketOpening].state # "opening"
          BY <4>1, <5>2 DEF PoolInv, Shape, Joinable
        <5>4. caller[d].phase = "resolved"
          BY <5>1, <5>2, <5>3 DEF Placed
        <5>5. Expects(d)
          BY <5>4, CallersApart DEF PoolInv, Shape, Owns
        <5>. QED
          BY <4>1, <5>1, <5>2, <5>4, <5>5 DEF Expects
      <4>. QED
        BY <2>3, <4>1, <4>2, <4>3 DEF Unused
    <3>6. shards' \in [1..Attempts -> ShardRow]
      BY <3>1 DEF PoolInv, PoolTypeOK
    <3>7. ReferencesCounted(k)'
      BY <1>2, <3>4
    <3>. QED
      BY <1>1, <2>1, <3>1, <3>2, <3>3, <3>5, <3>6, <3>7, GivesUpKeeps
  <2>. QED
    BY <2>2, <2>3
<1>5. CASE /\ shards[k].state = "closed"
           /\ caller' = [caller EXCEPT ![c] = Gone]
           /\ Dereference(k, shards[k].references)
  <2>1. CallerSet(c, Gone)
    BY <1>1, <1>5, CallerEdits, CallerIsSet DEF PoolInv
  <2>2. shards[k].references \in Nat
    BY <1>2 DEF ShardRow
  <2>. QED
    BY <1>1, <1>5, <2>1, <2>2, DereferenceKeeps
<1>6. CASE /\ shards[k].state = "open"
           /\ caller' = [caller EXCEPT ![c].phase = "active"]
           /\ shards' = [shards EXCEPT ![k].references = @ + 1]
           /\ UNCHANGED <<marketShard, connections>>
  <2>. DEFINE n == shards[k].references + 1
              s == [shards[k] EXCEPT !.references = n]
              r == [caller[c] EXCEPT !.phase = "active"]
  <2>1. /\ s \in ShardRow /\ s.references = n /\ s.state = shards[k].state
        /\ s.abandoned = shards[k].abandoned
    BY <1>2 DEF ShardRow
  <2>2. r \in CallerRow /\ r.phase = "active" /\ r.shard = k
    BY <1>1 DEF CallerRow
  <2>3. shards' = [shards EXCEPT ![k] = s] /\ caller' = [caller EXCEPT ![c] = r]
    BY <1>6
  <2>. HIDE DEF s, r
  <2>4. ShardSet(k, s) /\ CallerSet(c, r)
    BY <1>1, <1>2, <2>1, <2>2, <2>3, ShardIsSet, CallerIsSet DEF PoolInv
  <2>5. ConnectionsCounted'
    BY <1>6, <2>1, <2>4, SameConnections DEF ShardSet
  <2>6. PoolTypeOK'
    BY <1>1, <1>6, <2>4 DEF PoolInv, PoolTypeOK, ShardSet, CallerSet
  <2>7. \A d \in Callers : IF d = c THEN caller'[d] = r ELSE caller'[d] = caller[d]
    BY <2>4 DEF CallerSet
  <2>8. ASSUME NEW j \in 1..Attempts PROVE ReferencesCounted(j)'
    <3>1. CASE j # k
      <4>1. shards'[j].references = shards[j].references
        BY <2>4, <3>1 DEF ShardSet
      <4>. QED
        BY <1>1, <2>2, <2>7, <3>1, <4>1, ReferencesKept
    <3>2. CASE j = k
      <4>1. Active(j)' = Active(j) \cup {c} /\ c \notin Active(j)
        BY <1>1, <2>2, <2>7, <3>2 DEF Active
      <4>2. Cardinality(Active(j)') = Cardinality(Active(j)) + 1
        BY <4>1, ActiveFinite, FS_AddElement
      <4>. QED
        BY <2>1, <2>4, <3>2, <4>2 DEF ReferencesCounted, ShardSet, PoolInv
    <3>. QED
      BY <3>1, <3>2
  <2>9. /\ \A d \in Callers : caller'[d].shard = caller[d].shard
        /\ \A j \in 1..Attempts : /\ shards'[j].state = shards[j].state
                                   /\ shards'[j].abandoned = shards[j].abandoned
    BY <2>1, <2>2, <2>4, <2>7 DEF ShardSet
  <2>10. \A d \in Callers : Placed(d)'
    BY <1>2, <1>6, <2>2, <2>4, <2>7, <2>9 DEF Placed, PoolInv, Shape, ShardSet
  <2>11. \A d \in MarketCallers : Expects(d)'
    <3>. SUFFICES ASSUME NEW d \in MarketCallers PROVE Expects(d)'
      OBVIOUS
    <3>1. d \in Callers /\ Expects(d) /\ Placed(d)
      BY CallersApart DEF PoolInv, Shape
    <3>. QED
      BY <1>1, <1>6, <2>2, <2>7, <2>9, <3>1 DEF Expects, Placed
  <2>12. \A d \in AccountCallers : Owns(d)'
    BY <1>1, <2>7, <2>9, CallersApart DEF Owns, PoolInv, Shape
  <2>13. \A j \in 1..Attempts : Served(j)'
    BY <1>1, <1>6, <2>9, CallersApart DEF Served, MarketOwned, PoolInv, Shape
  <2>14. Joinable'
    <3>1. /\ marketShard' = marketShard /\ marketOpening' = marketOpening
          /\ marketShard \in 0..Attempts /\ marketOpening \in 0..Attempts
          /\ Attempts \in Nat
      BY <1>1, <1>6 DEF PoolInv, PoolTypeOK
    <3>2. \A d \in Callers : caller[d].phase \in {"waiting", "resolved"}
                                => caller'[d] = caller[d]
      BY <1>1, <2>7
    <3>. QED
      BY <2>9, <3>1, <3>2, CallersApart
         DEF Joinable, Waiters, MarketOwned, PoolInv, Shape
  <2>. QED
    BY <2>4, <2>5, <2>6, <2>8, <2>10, <2>11, <2>12, <2>13, <2>14
       DEF PoolInv, Shape, ShardSet
<1>. QED
  BY <1>4, <1>5, <1>6 DEF Subscribe

LEMMA AbortMarketKeeps ==
    ASSUME PoolInv, NEW c, AbortMarket(c), NEW k, k = caller[c].shard
    PROVE  PoolInv'
<1>1. /\ c \in MarketCallers /\ c \in Callers /\ caller[c] \in CallerRow
      /\ Placed(c)
  BY CallersApart DEF AbortMarket, PoolInv, PoolTypeOK, Shape
<1>2. CASE caller[c].phase = "waiting" /\ Leave(c, FALSE)
  BY <1>1, <1>2, LeaveKeeps
<1>3. CASE /\ caller[c].phase \in {"resolved", "obtained"}
           /\ caller' = [caller EXCEPT ![c].aborted = TRUE]
           /\ UNCHANGED <<marketShard, marketOpening, shards, connections>>
  <2>. DEFINE r == [caller[c] EXCEPT !.aborted = TRUE]
  <2>1. r \in CallerRow /\ r.phase = caller[c].phase /\ r.shard = caller[c].shard
    BY <1>1 DEF CallerRow
  <2>2. caller' = [caller EXCEPT ![c] = r]
    BY <1>3
  <2>. HIDE DEF r
  <2>3. CallerSet(c, r) /\ Attempts' = Attempts
    BY <1>1, <1>3, <2>1, <2>2, CallerIsSet DEF PoolInv, Attempts
  <2>4. \A d \in Callers : /\ caller'[d].phase = caller[d].phase
                           /\ caller'[d].shard = caller[d].shard
                           /\ caller[d].phase = "idle" => caller'[d] = caller[d]
    BY <1>3, <2>1, <2>3 DEF CallerSet
  <2>5. PoolTypeOK' /\ ConnectionsCounted'
    BY <1>3, <2>3, SameConnections DEF PoolInv, PoolTypeOK, CallerSet
  <2>6. \A j \in 1..Attempts : ReferencesCounted(j)'
    BY <1>1, <1>3, <2>1, <2>3, MovesOne
  <2>7. Shape'
    BY <1>3, <2>3, <2>4, CallersApart
       DEF PoolInv, Shape, Placed, Expects, Owns, Served, Joinable, Waiters,
           MarketOwned
  <2>. QED
    BY <2>3, <2>5, <2>6, <2>7 DEF PoolInv
<1>4. CASE /\ caller[c].phase = "active"
           /\ caller' = [caller EXCEPT ![c] = Gone]
           /\ Dereference(k, shards[k].references - 1)
           /\ UNCHANGED marketOpening
  <2>1. CallerSet(c, Gone)
    BY <1>1, <1>4, CallerEdits, CallerIsSet DEF PoolInv
  <2>2. k \in 1..Attempts
    BY <1>1, <1>4 DEF Placed
  <2>3. shards[k].references - 1 \in Nat
    BY <1>1, <1>4, <2>1, <2>2, ReferenceRemoved
  <2>. QED
    BY <1>1, <1>4, <2>1, <2>3, DereferenceKeeps
<1>. QED
  BY <1>2, <1>3, <1>4 DEF AbortMarket

LEMMA SessionFailsKeeps ==
    ASSUME PoolInv, NEW k \in DOMAIN shards, SessionFails(k)
    PROVE  PoolInv'
<1>. DEFINE s == [shards[k] EXCEPT !.references = 0]
<1>1. /\ k \in 1..Attempts /\ k # 0 /\ shards[k] \in ShardRow
      /\ shards[k].state = "open" /\ MarketOwned(k)
      /\ UNCHANGED marketOpening
      /\ caller' = [c \in Callers |-> IF caller[c].shard = k THEN Gone ELSE caller[c]]
      /\ \A c \in Callers : caller[c].phase \notin {"resolved", "obtained"}
      /\ \A c \in Callers : caller[c] \in CallerRow
  BY DEF PoolInv, PoolTypeOK, SessionFails, InMicrotask
<1>2. \A c \in Callers : caller[c].shard = k => caller[c].phase = "active"
  BY <1>1, PoolPhases DEF PoolInv, Shape, Placed
<1>3. shards[k].references > 0
  <2>1. PICK c \in Callers : caller[c].shard = k
    BY <1>1 DEF PoolInv, Shape, Served
  <2>. QED
    BY <1>1, <1>2, <2>1, NoReferences
<1>4. marketShard' = 0 /\ Close(k, s)
  BY <1>3 DEF SessionFails, Dereference
<1>5. s \in ShardRow /\ s.references = 0
  BY <1>1 DEF ShardRow
<1>. HIDE DEF s
<1>6. /\ ShardSet(k, [s EXCEPT !.state = "closed"])
      /\ shards'[k].state = "closed" /\ shards'[k].references = 0
      /\ ConnectionsCounted'
  BY <1>1, <1>4, <1>5, CloseEffect
<1>7. \A c \in Callers :
         caller'[c] = IF caller[c].shard = k THEN Gone ELSE caller[c]
  BY <1>1
<1>8. Gone.phase = "idle" /\ Gone.shard = 0
  BY CallerEdits
<1>9. PoolTypeOK'
  <2>1. \A c \in Callers : caller'[c] \in CallerRow
    BY <1>1, <1>7, CallerEdits
  <2>2. caller' \in [Callers -> CallerRow]
    BY <1>1, <2>1
  <2>. QED
    BY <1>1, <1>4, <1>6, <2>2 DEF PoolInv, PoolTypeOK, ShardSet
<1>10. ASSUME NEW j \in 1..Attempts PROVE ReferencesCounted(j)'
  <2>1. CASE j = k
    BY <1>1, <1>6, <1>7, <1>8, <2>1, ReferencesDropped
  <2>2. CASE j # k
    <3>1. shards'[j].references = shards[j].references
      BY <1>6, <2>2 DEF ShardSet
    <3>. QED
      BY <1>7, <1>8, <2>2, <3>1, ReferencesKept
  <2>. QED
    BY <2>1, <2>2
<1>11. marketShard = k
  BY <1>1 DEF PoolInv, Shape, Served
<1>12. \A c \in Callers : Placed(c)'
  BY <1>6, <1>7, <1>8, PoolPhases DEF PoolInv, Shape, Placed, ShardSet
<1>13. \A c \in MarketCallers : Expects(c)'
  BY <1>1, <1>6, <1>7, <1>8, PoolPhases, CallersApart
     DEF PoolInv, Shape, Expects, ShardSet
<1>14. \A c \in AccountCallers : Owns(c)'
  BY <1>1, <1>7, <1>8, CallersApart DEF PoolInv, Shape, Owns, MarketOwned
<1>15. \A j \in 1..Attempts : Served(j)'
  <2>. SUFFICES ASSUME NEW j \in 1..Attempts, j # k PROVE Served(j)'
    BY <1>6 DEF Served
  <2>1. MarketOwned(j)' = MarketOwned(j)
    BY <1>1, <1>7, <1>8, CallersApart DEF MarketOwned
  <2>2. shards'[j] = shards[j] /\ Served(j) /\ j # 0
    BY <1>6 DEF ShardSet, PoolInv, Shape
  <2>3. (\E c \in Callers : caller[c].shard = j)
           => \E c \in Callers : caller'[c].shard = j
    BY <1>7
  <2>. QED
    BY <1>1, <1>11, <2>1, <2>2, <2>3 DEF Served
<1>16. Joinable'
  <2>1. marketOpening # 0 => marketOpening # k
    BY <1>1, <1>2 DEF PoolInv, Shape, Joinable, Waiters
  <2>. QED
    BY <1>1, <1>4, <1>6, <1>7, <1>8, <2>1, CallersApart
       DEF PoolInv, PoolTypeOK, Shape, Joinable, Waiters, MarketOwned, ShardSet
<1>. QED
  BY <1>6, <1>9, <1>10, <1>12, <1>13, <1>14, <1>15, <1>16
     DEF PoolInv, Shape, ShardSet

LEMMA OpenAccountKeeps ==
    ASSUME PoolInv, NEW c \in AccountCallers, OpenAccount(c)
    PROVE  PoolInv'
<1>. DEFINE n == Attempts + 1
            r == Moved(caller[c], "waiting", n)
<1>1. /\ c \in Callers /\ c \notin MarketCallers /\ Attempts \in Nat
      /\ caller[c] = Gone /\ caller[c].phase = "idle" /\ caller[c].shard = 0
      /\ caller[c] \in CallerRow
      /\ UNCHANGED <<marketShard, marketOpening>>
      /\ caller' = [caller EXCEPT ![c] = r]
      /\ shards' = WithShard(Attempts + 1, Opening)
      /\ connections' = connections + 1
  BY CallersApart, CallerEdits DEF OpenAccount, PoolInv, PoolTypeOK, Moved
<1>2. r \in CallerRow /\ r.phase = "waiting" /\ r.shard = n
  <2>1. caller[c] \in CallerRow /\ n \in Nat
    BY <1>1
  <2>. QED
    BY <2>1, CallerMoved
<1>3. /\ Attempts' = n /\ shards' \in [1..n -> ShardRow]
      /\ shards'[n].state = "opening" /\ shards'[n].references = 0
      /\ ~shards'[n].abandoned /\ ConnectionsCounted'
      /\ \A j \in 1..Attempts : shards'[j] = shards[j]
  BY <1>1, OpenEffect
<1>. HIDE DEF r
<1>4. CallerSet(c, r)
  BY <1>1, <1>2, CallerIsSet DEF PoolInv
<1>5. PoolTypeOK'
  BY <1>1, <1>3, <1>4 DEF PoolInv, PoolTypeOK, CallerSet
<1>6. \A k \in 1..n : ReferencesCounted(k)'
  BY <1>1, <1>2, <1>3, <1>4, NewShard
<1>7. \A d \in Callers : /\ caller[d].shard \in 0..Attempts
                         /\ d # c => caller'[d] = caller[d]
  BY <1>4, CallerShards DEF CallerSet
<1>8. caller'[c].phase = "waiting" /\ caller'[c].shard = n
  BY <1>2, <1>4 DEF CallerSet
<1>9. \A d \in Callers : Placed(d)'
  BY <1>1, <1>3, <1>7, <1>8 DEF PoolInv, Shape, Placed
<1>10. \A d \in MarketCallers : Expects(d)'
  <2>. SUFFICES ASSUME NEW d \in MarketCallers PROVE Expects(d)'
    OBVIOUS
  <2>1. d \in Callers /\ d # c /\ Expects(d) /\ Placed(d)
    BY <1>1, CallersApart DEF PoolInv, Shape
  <2>. QED
    BY <1>1, <1>3, <1>7, <2>1 DEF Expects, Placed
<1>11. \A d \in AccountCallers : Owns(d)'
  <2>. SUFFICES ASSUME NEW d \in AccountCallers PROVE Owns(d)'
    OBVIOUS
  <2>1. d \in Callers /\ Owns(d)
    BY CallersApart DEF PoolInv, Shape
  <2>2. n \notin 0..Attempts
    BY <1>1
  <2>. QED
    BY <1>7, <1>8, <2>1, <2>2 DEF Owns
<1>12. \A j \in 1..n : Served(j)'
  <2>. SUFFICES ASSUME NEW j \in 1..n PROVE Served(j)'
    OBVIOUS
  <2>1. CASE j = n
    BY <1>3, <1>8, <2>1 DEF Served, MarketOwned
  <2>2. CASE j # n
    <3>1. j \in 1..Attempts /\ j # 0
      BY <1>1, <2>2
    <3>2. \A d \in Callers : caller'[d].shard = j <=> caller[d].shard = j
      BY <1>1, <1>7, <1>8, <2>2, <3>1
    <3>3. Served(j) /\ MarketOwned(j)' = MarketOwned(j)
      BY <3>1, <3>2, CallersApart DEF MarketOwned, PoolInv, Shape
    <3>. QED
      BY <1>1, <1>3, <3>1, <3>2, <3>3 DEF Served
  <2>. QED
    BY <2>1, <2>2
<1>13. Joinable'
  <2>1. marketShard \in 0..Attempts /\ marketOpening \in 0..Attempts
    BY DEF PoolInv, PoolTypeOK
  <2>2. n \notin 0..Attempts
    BY <1>1
  <2>3. \A d \in Callers : caller[d].phase \in {"waiting", "resolved"}
                              => caller'[d] = caller[d]
    BY <1>1, <1>7
  <2>4. \A j \in 1..Attempts, d \in AccountCallers :
           caller[d].shard # j => caller'[d].shard # j
    BY <1>1, <1>7, <1>8, <2>2, CallersApart
  <2>. QED
    BY <1>1, <1>3, <2>1, <2>3, <2>4
       DEF PoolInv, Shape, Joinable, Waiters, MarketOwned
<1>. QED
  BY <1>3, <1>5, <1>6, <1>9, <1>10, <1>11, <1>12, <1>13 DEF PoolInv, Shape

\* What an account caller's shard becomes is nobody else's business.
LEMMA OwnShardKeeps ==
    ASSUME PoolInv, NEW c \in AccountCallers, NEW k \in 1..Attempts,
           k = caller[c].shard, NEW r \in CallerRow, CallerSet(c, r),
           UNCHANGED <<marketShard, marketOpening>>, Attempts' = Attempts,
           shards' \in [1..Attempts -> ShardRow], ConnectionsCounted',
           \A j \in 1..Attempts : j # k => shards'[j] = shards[j],
           ReferencesCounted(k)',
           \/ r = Gone /\ shards'[k].state = "closed"
           \/ r.phase = "active" /\ r.shard = k /\ shards'[k].state = "open"
    PROVE  PoolInv'
<1>1. /\ c \in Callers /\ c \notin MarketCallers /\ k # 0 /\ Owns(c)
      /\ Gone.phase = "idle" /\ Gone.shard = 0 /\ caller[c].shard = k
  BY CallersApart, CallerEdits DEF PoolInv, PoolTypeOK, Shape
<1>2. \A d \in Callers : IF d = c THEN caller'[d] = r ELSE caller'[d] = caller[d]
  BY DEF CallerSet
<1>3. \A d \in Callers : d # c => caller[d].shard # k
  BY <1>1 DEF Owns
<1>4. marketShard # k /\ marketOpening # k
  BY <1>1 DEF PoolInv, Shape, Joinable, MarketOwned
<1>5. PoolTypeOK'
  BY DEF CallerSet, PoolInv, PoolTypeOK
<1>6. r.shard \in {0, k} /\ (r.shard = k => shards'[k].state = "open")
  BY <1>1
<1>7. ASSUME NEW j \in 1..Attempts PROVE ReferencesCounted(j)'
  <2>1. CASE j # k
    <3>1. shards'[j].references = shards[j].references
      BY <2>1
    <3>. QED
      BY <1>1, <1>2, <1>6, <2>1, <3>1, ReferencesKept
  <2>. QED
    BY <2>1
<1>8. \A d \in Callers : Placed(d)'
  <2>. SUFFICES ASSUME NEW d \in Callers PROVE Placed(d)'
    OBVIOUS
  <2>1. CASE d = c
    BY <1>1, <1>2, <2>1 DEF Placed
  <2>2. CASE d # c
    BY <1>2, <1>3, <2>2 DEF Placed, PoolInv, Shape
  <2>. QED
    BY <2>1, <2>2
<1>9. \A d \in MarketCallers : Expects(d)'
  <2>. SUFFICES ASSUME NEW d \in MarketCallers PROVE Expects(d)'
    OBVIOUS
  <2>1. /\ d \in Callers /\ d # c /\ Expects(d) /\ Placed(d)
        /\ caller'[d] = caller[d] /\ caller[d].shard # k
    BY <1>1, <1>2, <1>3, CallersApart DEF PoolInv, Shape
  <2>. QED
    BY <2>1 DEF Expects, Placed
<1>10. \A d \in AccountCallers : Owns(d)'
  <2>. SUFFICES ASSUME NEW d \in AccountCallers PROVE Owns(d)'
    OBVIOUS
  <2>1. Owns(d) /\ d \in Callers
    BY CallersApart DEF PoolInv, Shape
  <2>2. \A e \in Callers : caller'[e].shard \in {0, caller[e].shard}
    BY <1>1, <1>2, <1>6
  <2>3. caller'[d].phase \in {"idle", "waiting", "active"}
    BY <1>1, <1>2, <2>1 DEF Owns
  <2>. QED
    BY <2>1, <2>2, <2>3 DEF Owns
<1>11. \A j \in 1..Attempts : Served(j)'
  <2>. SUFFICES ASSUME NEW j \in 1..Attempts PROVE Served(j)'
    OBVIOUS
  <2>1. CASE j = k
    BY <1>1, <1>2, <2>1 DEF Served, MarketOwned
  <2>2. CASE j # k
    <3>1. \A d \in Callers : caller'[d].shard = j <=> caller[d].shard = j
      <4>1. j # 0
        BY DEF PoolInv, PoolTypeOK
      <4>. QED
        BY <1>1, <1>2, <1>6, <2>2, <4>1
    <3>2. Served(j) /\ MarketOwned(j)' = MarketOwned(j)
      BY <3>1, CallersApart DEF MarketOwned, PoolInv, Shape
    <3>. QED
      BY <2>2, <3>1, <3>2 DEF Served
  <2>. QED
    BY <2>1, <2>2
<1>12. Joinable'
  <2>1. marketShard \in 0..Attempts /\ marketOpening \in 0..Attempts
    BY DEF PoolInv, PoolTypeOK
  <2>2. marketOpening # 0 => Waiters(marketOpening)' # {}
    <3>. SUFFICES ASSUME marketOpening # 0 PROVE Waiters(marketOpening)' # {}
      OBVIOUS
    <3>1. PICK d \in Callers : /\ caller[d].shard = marketOpening
                               /\ caller[d].phase \in {"waiting", "resolved"}
      BY DEF PoolInv, Shape, Joinable, Waiters
    <3>2. caller'[d] = caller[d]
      BY <1>1, <1>2, <1>4, <3>1
    <3>. QED
      BY <3>1, <3>2 DEF Waiters
  <2>3. \A j \in 1..Attempts : MarketOwned(j) =>
           \A d \in AccountCallers : caller'[d].shard # j
    <3>1. \A j \in 1..Attempts : j # 0
      BY DEF PoolInv, PoolTypeOK
    <3>. QED
      BY <1>1, <1>2, <1>6, <3>1, CallersApart DEF MarketOwned
  <2>. QED
    BY <1>4, <2>1, <2>2, <2>3 DEF PoolInv, Shape, Joinable, MarketOwned
<1>. QED
  BY <1>5, <1>7, <1>8, <1>9, <1>10, <1>11, <1>12 DEF PoolInv, Shape

LEMMA AccountOpenedKeeps ==
    ASSUME PoolInv, NEW c \in AccountCallers, NEW subscribed \in BOOLEAN,
           NEW k, k = caller[c].shard, AccountOpened(c, subscribed)
    PROVE  PoolInv'
<1>1. /\ c \in Callers /\ caller[c] \in CallerRow /\ Placed(c) /\ Owns(c)
      /\ caller[c].phase = "waiting" /\ UNCHANGED <<marketShard, marketOpening>>
  BY CallersApart DEF AccountOpened, PoolInv, PoolTypeOK, Shape
<1>2. /\ k \in 1..Attempts /\ k # 0 /\ shards[k] \in ShardRow
      /\ shards[k].state = "opening"
  BY <1>1 DEF Placed, PoolInv, PoolTypeOK
<1>3. \A d \in Callers : d # c => caller[d].shard # k
  BY <1>1, <1>2 DEF Owns
<1>4. CASE subscribed
  <2>. DEFINE r == [caller[c] EXCEPT !.phase = "active"]
              s == [shards[k] EXCEPT !.state = "open", !.references = 1]
  <2>1. /\ caller' = [caller EXCEPT ![c] = r]
        /\ shards' = [shards EXCEPT ![k] = s] /\ connections' = connections
    BY <1>4 DEF AccountOpened
  <2>2. r \in CallerRow /\ r.phase = "active" /\ r.shard = k
    BY <1>1 DEF CallerRow
  <2>3. s \in ShardRow /\ s.state = "open" /\ s.references = 1
    BY <1>2 DEF ShardRow
  <2>. HIDE DEF r, s
  <2>4. CallerSet(c, r) /\ ShardSet(k, s)
    BY <1>1, <1>2, <2>1, <2>2, <2>3, ShardIsSet, CallerIsSet DEF PoolInv
  <2>5. ConnectionsCounted'
    BY <1>2, <2>1, <2>3, <2>4, SameConnections DEF ShardSet
  <2>6. ReferencesCounted(k)'
    <3>1. Active(k)' = {} \cup {c}
      BY <1>1, <1>3, <2>2, <2>4 DEF Active, CallerSet
    <3>2. Cardinality({} \cup {c}) = 1
      <4>1. IsFiniteSet({}) /\ Cardinality({}) = 0 /\ c \notin {}
        BY FS_EmptySet
      <4>2. Cardinality({} \cup {c}) = IF c \in {} THEN Cardinality({})
                                       ELSE Cardinality({}) + 1
        BY <4>1, FS_AddElement
      <4>. QED
        BY <4>1, <4>2
    <3>3. shards'[k].references = 1
      BY <2>3, <2>4 DEF ShardSet
    <3>. QED
      BY <3>1, <3>2, <3>3 DEF ReferencesCounted
  <2>7. /\ Attempts' = Attempts /\ shards' \in [1..Attempts -> ShardRow]
        /\ \A j \in 1..Attempts : j # k => shards'[j] = shards[j]
        /\ shards'[k].state = "open"
    BY <2>3, <2>4 DEF ShardSet
  <2>. QED
    BY <1>1, <1>2, <2>2, <2>4, <2>5, <2>6, <2>7, OwnShardKeeps
<1>5. CASE ~subscribed
  <2>1. caller' = [caller EXCEPT ![c] = Gone] /\ Close(k, shards[k])
    BY <1>5 DEF AccountOpened
  <2>2. CallerSet(c, Gone) /\ Gone \in CallerRow
    BY <1>1, <2>1, CallerEdits, CallerIsSet DEF PoolInv
  <2>3. /\ ShardSet(k, [shards[k] EXCEPT !.state = "closed"])
        /\ shards'[k].state = "closed"
        /\ shards'[k].references = shards[k].references /\ ConnectionsCounted'
    BY <1>2, <2>1, CloseEffect
  <2>4. ReferencesCounted(k)'
    <3>1. \A d \in Callers : ~(caller'[d].shard = k /\ caller'[d].phase = "active")
      BY <1>2, <1>3, <2>2, CallerEdits DEF CallerSet
    <3>2. \A d \in Callers : ~(caller[d].shard = k /\ caller[d].phase = "active")
      BY <1>1, <1>3
    <3>. QED
      BY <1>2, <2>3, <3>1, <3>2, ReferencesKept
  <2>5. /\ Attempts' = Attempts /\ shards' \in [1..Attempts -> ShardRow]
        /\ \A j \in 1..Attempts : j # k => shards'[j] = shards[j]
    BY <2>3 DEF ShardSet
  <2>. QED
    BY <1>1, <1>2, <2>2, <2>3, <2>4, <2>5, OwnShardKeeps
<1>. QED
  BY <1>4, <1>5

LEMMA CloseAccountKeeps ==
    ASSUME PoolInv, NEW c \in AccountCallers, NEW k, k = caller[c].shard,
           CloseAccount(c)
    PROVE  PoolInv'
<1>. DEFINE s == [shards[k] EXCEPT !.references = 0]
<1>1. /\ c \in Callers /\ Placed(c) /\ Owns(c)
      /\ caller[c].phase = "active" /\ UNCHANGED <<marketShard, marketOpening>>
      /\ caller' = [caller EXCEPT ![c] = Gone] /\ Close(k, s)
  BY CallersApart DEF CloseAccount, PoolInv, Shape
<1>2. k \in 1..Attempts /\ k # 0 /\ shards[k] \in ShardRow
  BY <1>1 DEF Placed, PoolInv, PoolTypeOK
<1>3. \A d \in Callers : d # c => caller[d].shard # k
  BY <1>1, <1>2 DEF Owns
<1>4. s \in ShardRow /\ s.references = 0
  BY <1>2 DEF ShardRow
<1>. HIDE DEF s
<1>5. CallerSet(c, Gone) /\ Gone \in CallerRow
  BY <1>1, CallerEdits, CallerIsSet DEF PoolInv
<1>6. /\ ShardSet(k, [s EXCEPT !.state = "closed"])
      /\ shards'[k].state = "closed" /\ shards'[k].references = 0
      /\ ConnectionsCounted'
  BY <1>1, <1>2, <1>4, CloseEffect
<1>7. ReferencesCounted(k)'
  <2>1. \A d \in Callers : ~(caller'[d].shard = k /\ caller'[d].phase = "active")
    BY <1>2, <1>3, <1>5, CallerEdits DEF CallerSet
  <2>. QED
    BY <1>6, <2>1, ReferencesDropped
<1>8. /\ Attempts' = Attempts /\ shards' \in [1..Attempts -> ShardRow]
      /\ \A j \in 1..Attempts : j # k => shards'[j] = shards[j]
  BY <1>6 DEF ShardSet
<1>. QED
  BY <1>1, <1>2, <1>5, <1>6, <1>7, <1>8, OwnShardKeeps

\* However callers join, abort and fail, a counted connection is on its way for
\* someone, was abandoned before it opened, or carries a stream, and no caller's
\* end closes the session under another's stream (hyperliquid-source.ts).
THEOREM SessionsAreServed == PoolSpec => []SessionsServeStreams
<1>1. PoolInv /\ [PoolNext]_poolVars => PoolInv'
  <2>. SUFFICES ASSUME PoolInv, [PoolNext]_poolVars PROVE PoolInv'
    OBVIOUS
  <2>1. ASSUME NEW c \in MarketCallers, Obtain(c) PROVE PoolInv'
    BY <2>1, LeaveKeeps DEF Obtain
  <2>2. ASSUME NEW c \in MarketCallers, Subscribe(c) PROVE PoolInv'
    <3>1. \E k : k = caller[c].shard
      OBVIOUS
    <3>. QED
      BY <2>2, <3>1, SubscribeKeeps
  <2>3. ASSUME NEW c \in MarketCallers, AbortMarket(c) PROVE PoolInv'
    <3>1. \E k : k = caller[c].shard
      OBVIOUS
    <3>. QED
      BY <2>3, <3>1, AbortMarketKeeps
  <2>4. ASSUME NEW c \in AccountCallers, CloseAccount(c) PROVE PoolInv'
    <3>1. \E k : k = caller[c].shard
      OBVIOUS
    <3>. QED
      BY <2>4, <3>1, CloseAccountKeeps
  <2>5. ASSUME NEW c \in AccountCallers, NEW subscribed \in BOOLEAN,
               AccountOpened(c, subscribed)
        PROVE  PoolInv'
    <3>1. \E k : k = caller[c].shard
      OBVIOUS
    <3>. QED
      BY <2>5, <3>1, AccountOpenedKeeps
  <2>6. CASE UNCHANGED poolVars
    BY <2>6 DEF poolVars, PoolInv, PoolTypeOK, ConnectionsCounted, Held,
                ReferencesCounted, Active, Attempts, Shape, Placed, Expects,
                Owns, Served, Joinable, Waiters, MarketOwned
  <2>. QED
    BY <2>1, <2>2, <2>3, <2>4, <2>5, <2>6, OpenMarketKeeps,
       MarketShardOpenedKeeps, MarketShardFailsKeeps, SessionFailsKeeps,
       OpenAccountKeeps DEF PoolNext
<1>2. PoolInv => SessionsServeStreams
  <2>. SUFFICES ASSUME PoolInv PROVE SessionsServeStreams
    OBVIOUS
  <2>1. DOMAIN shards = 1..Attempts
    BY DEF PoolInv, PoolTypeOK
  <2>. QED
    BY <2>1 DEF PoolInv, Shape, Placed, Served, ConnectionsCounted, Held,
                SessionsServeStreams
<1>. QED
  BY <1>1, <1>2, PoolInitial, PTL DEF PoolSpec

-----------------------------------------------------------------------------
(* The rows and the requests *)

\* The stages of a request that has not ended, and the requests.
UnderWay == Running \ Ended
Requests == [stage : UnderWay, inst : Insts, cred : Creds, challenge : Challenges,
             object : Objects, signed : BOOLEAN, ip : Ips]
EndedRequests == [stage : Ended, ip : Ips]
RequestRows == Requests \cup EndedRequests \cup {Idle}

\* The tables and the requests under way have their types.
RowsTyped ==
    /\ installation \in [Insts -> Installations \cup {Nothing}]
    /\ link \in [LinkIds -> Links \cup {Nothing}]
    /\ rule \in [RuleIds -> RuleRows \cup {Nothing}]
    /\ challenge \in [Challenges -> ChallengeRows \cup {Nothing}]
    /\ request \in [Slots -> RequestRows]

\* An account rule belongs to a link of its own installation.
RulesBacked ==
    \A r \in RuleIds :
        rule[r] # Nothing /\ rule[r].scope = "account" =>
            /\ rule[r].link \in LinkIds
            /\ link[rule[r].link] # Nothing
            /\ link[rule[r].link].inst = rule[r].inst

\* An empty database satisfies both.
LEMMA AuthorityInvInit == AuthorityInit => RowsTyped /\ RulesBacked
BY DEF AuthorityInit, RowsTyped, RequestRows, RulesBacked

\* What a proof binds is determined by its kind and its parts.
LEMMA ObjectParts ==
    ASSUME NEW o \in Objects
    PROVE  /\ o.kind \in ProofKinds
           /\ o.link \in LinkIds
           /\ o.kind = "link" => o = [kind |-> "link", link |-> o.link]
           /\ o.kind = "accountRule" =>
                 /\ o.rule \in RuleIds
                 /\ o = [kind |-> "accountRule", link |-> o.link, rule |-> o.rule]
           /\ o.kind = "rebind" =>
                 /\ o.token \in Tokens
                 /\ o = [kind |-> "rebind", link |-> o.link, token |-> o.token]
BY DEF Objects, ProofKinds

\* A request that is under way has all its fields.
LEMMA RequestParts ==
    ASSUME RowsTyped, NEW s \in Slots, request[s].stage \in UnderWay
    PROVE  request[s] \in Requests
BY DEF RowsTyped, RequestRows, EndedRequests, UnderWay, Running, Idle

\* One that moves on is a request again, under way or ended.
LEMMA AdvanceTyped ==
    ASSUME RowsTyped, NEW s \in Slots, NEW stage \in Running,
           request[s].stage \in UnderWay, Advance(s, stage)
    PROVE  request' \in [Slots -> RequestRows]
<1>1. request[s] \in Requests
  BY RequestParts
<1>2. ASSUME NEW new \in RequestRows, request' = [request EXCEPT ![s] = new]
      PROVE  request' \in [Slots -> RequestRows]
  BY <1>2 DEF RowsTyped
<1>3. CASE stage \in Ended
  <2>1. [stage |-> stage, ip |-> request[s].ip] \in RequestRows
    BY <1>1, <1>3 DEF Requests, EndedRequests, RequestRows
  <2>2. request' = [request EXCEPT ![s] = [stage |-> stage, ip |-> request[s].ip]]
    BY <1>3 DEF Advance
  <2>. QED BY <1>2, <2>1, <2>2
<1>4. CASE stage \notin Ended
  <2>1. [request[s] EXCEPT !.stage = stage] \in RequestRows
    BY <1>1, <1>4 DEF Requests, UnderWay, RequestRows
  <2>2. request' = [request EXCEPT ![s] = [request[s] EXCEPT !.stage = stage]]
    BY <1>4 DEF Advance
  <2>. QED BY <1>2, <2>1, <2>2
<1>. QED BY <1>3, <1>4

-----------------------------------------------------------------------------
(* One transaction of a request with a proof *)

\* The transaction that succeeds, for a request q.
Succeeds(s) ==
    LET q == request[s]
    IN /\ q.stage = "verified"
       /\ ChallengeBinds(q) /\ LinkBinds(q) /\ ProofHolds(q, challenge[q.challenge])
       /\ \/ q.object.kind = "link" /\ VerifyAccountLinkProof(q)
          \/ q.object.kind = "accountRule" /\ PutAccountRule(q)
          \/ q.object.kind = "rebind" /\ RebindPushTokenByProof(q)
       /\ Consume(q.challenge)
       /\ Advance(s, "applied")

\* The transaction that does not leaves the tables alone.
Declines(s) ==
    /\ request[s].stage = "verified"
    /\ \E stage \in {"dropped", "refused"} : Advance(s, stage)
    /\ UNCHANGED <<installation, link, rule, challenge>>

LEMMA TransactCases ==
    ASSUME NEW s \in Slots, Transact(s)
    PROVE  Succeeds(s) \/ Declines(s)
BY DEF Transact, Succeeds, Declines

\* A transaction that succeeds spends a challenge of exactly its operation.
LEMMA SuccessSpends ==
    ASSUME RowsTyped, NEW s \in Slots, Succeeds(s)
    PROVE  /\ request[s] \in Requests
           /\ challenge[request[s].challenge] \in ChallengeRows
           /\ challenge' \in [Challenges -> ChallengeRows \cup {Nothing}]
           /\ Spends(request[s].inst, request[s].object)
<1>. DEFINE q == request[s]
            c == q.challenge
<1>1. q \in Requests
  BY RequestParts DEF Succeeds, UnderWay, Running, Ended
<1>2. c \in Challenges /\ challenge[c] \in ChallengeRows
  BY <1>1 DEF Succeeds, ChallengeBinds, RowsTyped, Requests
<1>3. PICK spent \in ChallengeRows :
          spent = [Unbound(challenge[c]) EXCEPT !.state = "consumed"]
  BY <1>2 DEF ChallengeRows, Unbound
<1>4. challenge' = [challenge EXCEPT ![c] = spent]
  BY <1>3 DEF Succeeds, Consume
<1>5. spent.state = "consumed" /\ challenge'[c] = spent
  BY <1>2, <1>3, <1>4 DEF RowsTyped, ChallengeRows, Unbound
<1>6. Spends(q.inst, q.object)
  BY <1>2, <1>5 DEF Spends, Succeeds, ChallengeBinds, LockAuthenticated, ProofHolds
<1>7. challenge' \in [Challenges -> ChallengeRows \cup {Nothing}]
  BY <1>2, <1>3, <1>4 DEF RowsTyped
<1>. QED BY <1>1, <1>2, <1>6, <1>7

\* The link an account rule or a rebind names is one of its installation.
LEMMA NamedLink ==
    ASSUME RowsTyped, NEW s \in Slots, Succeeds(s),
           request[s].object.kind # "link"
    PROVE  /\ request[s].object.link \in LinkIds
           /\ link[request[s].object.link] # Nothing
           /\ link[request[s].object.link].inst = request[s].inst
<1>1. request[s].object \in Objects
  BY SuccessSpends DEF Requests
<1>. QED BY <1>1, ObjectParts DEF Succeeds, LinkBinds

-----------------------------------------------------------------------------
(* What a step may change *)

\* A link that appears spent a proof of it.
LinkProved(l) ==
    link[l] = Nothing /\ link'[l] # Nothing
      => Spends(link'[l].inst, [kind |-> "link", link |-> l])

\* So did an account rule that appears or changes.
RuleProved(r) ==
    rule'[r] # rule[r] /\ rule'[r] # Nothing /\ rule'[r].scope = "account"
      => Spends(rule'[r].inst,
                [kind |-> "accountRule", link |-> rule'[r].link, rule |-> r])

\* So did the token of an installation that has links.
TokenProved(i) ==
    installation[i] # Nothing /\ LinksOf(i) # {}
      /\ installation'[i].token # installation[i].token
      => \E l \in LinkIds :
           Spends(i, [kind |-> "rebind", link |-> l, token |-> installation'[i].token])

StepProved ==
    /\ \A l \in LinkIds : LinkProved(l)
    /\ \A r \in RuleIds : RuleProved(r)
    /\ \A i \in Insts : TokenProved(i)

StepSound == RowsTyped' /\ RulesBacked' /\ StepProved

\* A step that leaves installations, links and rules alone proves nothing and
\* needs to prove nothing.
LEMMA TablesKept ==
    ASSUME RowsTyped, RulesBacked, UNCHANGED <<installation, link, rule>>,
           challenge' \in [Challenges -> ChallengeRows \cup {Nothing}],
           request' \in [Slots -> RequestRows]
    PROVE  StepSound
<1>1. RowsTyped' /\ RulesBacked'
  BY DEF RowsTyped, RulesBacked
<1>2. StepProved
  BY DEF StepProved, LinkProved, RuleProved, TokenProved
<1>. QED BY <1>1, <1>2 DEF StepSound

\* The new row of a link, of an account rule or of a token.
LEMMA LinkWritten ==
    ASSUME RowsTyped, RulesBacked, NEW s \in Slots, Succeeds(s),
           request[s].object.kind = "link", VerifyAccountLinkProof(request[s]),
           request' \in [Slots -> RequestRows]
    PROVE  StepSound
<1>. DEFINE q == request[s]
            l == q.object.link
            new == [inst |-> q.inst, account |-> challenge[q.challenge].account,
                    state |-> "active"]
<1>1. /\ q \in Requests /\ challenge[q.challenge] \in ChallengeRows
      /\ challenge' \in [Challenges -> ChallengeRows \cup {Nothing}]
      /\ Spends(q.inst, q.object)
  BY SuccessSpends
<1>2. l \in LinkIds /\ q.object = [kind |-> "link", link |-> l]
  BY <1>1, ObjectParts DEF Requests
<1>3. link[l] = Nothing /\ link' = [link EXCEPT ![l] = new]
      /\ UNCHANGED <<installation, rule>>
  BY <1>1 DEF VerifyAccountLinkProof, LinkConflict
<1>4. new \in Links
  BY <1>1 DEF Links, Requests, ChallengeRows
<1>5. RowsTyped'
  BY <1>1, <1>3, <1>4 DEF RowsTyped
<1>6. \A k \in LinkIds : k # l => link'[k] = link[k]
  BY <1>3 DEF RowsTyped
<1>7. RulesBacked'
  BY <1>3, <1>6 DEF RulesBacked
<1>8. link'[l].inst = q.inst
  BY <1>2, <1>3 DEF RowsTyped
<1>9. StepProved
  <2>1. ASSUME NEW k \in LinkIds PROVE LinkProved(k)
    <3>1. CASE k = l
      BY <1>1, <1>2, <1>8, <3>1 DEF LinkProved
    <3>2. CASE k # l
      BY <1>6, <3>2 DEF LinkProved
    <3>. QED BY <3>1, <3>2
  <2>. QED BY <1>3, <2>1 DEF StepProved, RuleProved, TokenProved
<1>. QED BY <1>5, <1>7, <1>9 DEF StepSound

LEMMA RuleWritten ==
    ASSUME RowsTyped, RulesBacked, NEW s \in Slots, Succeeds(s),
           request[s].object.kind = "accountRule", PutAccountRule(request[s]),
           request' \in [Slots -> RequestRows]
    PROVE  StepSound
<1>. DEFINE q == request[s]
            r == q.object.rule
            new == [inst |-> q.inst, scope |-> "account", link |-> q.object.link]
<1>1. /\ q \in Requests
      /\ challenge' \in [Challenges -> ChallengeRows \cup {Nothing}]
      /\ Spends(q.inst, q.object)
  BY SuccessSpends
<1>2. /\ r \in RuleIds
      /\ q.object = [kind |-> "accountRule", link |-> q.object.link, rule |-> r]
  BY <1>1, ObjectParts DEF Requests
<1>3. /\ q.object.link \in LinkIds /\ link[q.object.link] # Nothing
      /\ link[q.object.link].inst = q.inst
  BY NamedLink
<1>4. rule' = [rule EXCEPT ![r] = new] /\ UNCHANGED <<installation, link>>
  BY DEF PutAccountRule
<1>5. new \in RuleRows
  BY <1>1, <1>3 DEF RuleRows, Requests
<1>6. RowsTyped'
  BY <1>1, <1>4, <1>5 DEF RowsTyped
<1>7. \A k \in RuleIds : k # r => rule'[k] = rule[k]
  BY <1>4 DEF RowsTyped
<1>8. rule'[r] = new
  BY <1>2, <1>4 DEF RowsTyped
<1>9. RulesBacked'
  <2>1. ASSUME NEW k \in RuleIds, rule'[k] # Nothing,
               rule'[k].scope = "account"
        PROVE  /\ rule'[k].link \in LinkIds
               /\ link'[rule'[k].link] # Nothing
               /\ link'[rule'[k].link].inst = rule'[k].inst
    <3>1. CASE k = r
      BY <1>3, <1>4, <1>8, <3>1
    <3>2. CASE k # r
      BY <1>4, <1>7, <2>1, <3>2 DEF RulesBacked
    <3>. QED BY <3>1, <3>2
  <2>. QED BY <2>1 DEF RulesBacked
<1>10. StepProved
  <2>1. ASSUME NEW k \in RuleIds PROVE RuleProved(k)
    <3>1. CASE k = r
      BY <1>1, <1>2, <1>8, <3>1 DEF RuleProved
    <3>2. CASE k # r
      BY <1>7, <3>2 DEF RuleProved
    <3>. QED BY <3>1, <3>2
  <2>. QED BY <1>4, <2>1 DEF StepProved, LinkProved, TokenProved
<1>. QED BY <1>6, <1>9, <1>10 DEF StepSound

LEMMA TokenWritten ==
    ASSUME RowsTyped, RulesBacked, NEW s \in Slots, Succeeds(s),
           request[s].object.kind = "rebind", RebindPushTokenByProof(request[s]),
           request' \in [Slots -> RequestRows]
    PROVE  StepSound
<1>. DEFINE q == request[s]
            i == q.inst
            t == q.object.token
<1>1. /\ q \in Requests
      /\ challenge' \in [Challenges -> ChallengeRows \cup {Nothing}]
      /\ Spends(q.inst, q.object)
  BY SuccessSpends
<1>2. /\ t \in Tokens /\ q.object.link \in LinkIds
      /\ q.object = [kind |-> "rebind", link |-> q.object.link, token |-> t]
  BY <1>1, ObjectParts DEF Requests
<1>3. installation' = [installation EXCEPT ![i].token = t]
      /\ UNCHANGED <<link, rule>>
  BY DEF RebindPushTokenByProof
<1>4. i \in Insts /\ installation[i] \in Installations
  BY <1>1 DEF Succeeds, ChallengeBinds, LockAuthenticated, RowsTyped, Requests
<1>5. [installation[i] EXCEPT !.token = t] \in Installations
  BY <1>2, <1>4 DEF Installations
<1>6. RowsTyped'
  BY <1>1, <1>3, <1>5 DEF RowsTyped
<1>7. RulesBacked'
  BY <1>3 DEF RulesBacked
<1>8. \A j \in Insts : j # i => installation'[j] = installation[j]
  BY <1>3 DEF RowsTyped
<1>9. installation'[i].token = t
  BY <1>3, <1>4 DEF RowsTyped, Installations
<1>10. StepProved
  <2>1. ASSUME NEW j \in Insts PROVE TokenProved(j)
    <3>1. CASE j = i
      BY <1>1, <1>2, <1>9, <3>1 DEF TokenProved
    <3>2. CASE j # i
      BY <1>8, <3>2 DEF TokenProved
    <3>. QED BY <3>1, <3>2
  <2>. QED BY <1>3, <2>1 DEF StepProved, LinkProved, RuleProved
<1>. QED BY <1>6, <1>7, <1>10 DEF StepSound

\* Every step of the service is sound.
LEMMA AuthorityStep ==
    ASSUME RowsTyped, RulesBacked, AuthorityNext
    PROVE  StepSound
<1>1. ASSUME NEW i \in Insts, NEW cred \in Creds, NEW t \in Tokens,
             NEW p \in Ips, RegisterInstallation(i, cred, t, p)
      PROVE  StepSound
  <2>1. [cred |-> cred, token |-> t] \in Installations
    BY DEF Installations
  <2>2. RowsTyped' /\ RulesBacked'
    BY <1>1, <2>1 DEF RegisterInstallation, RowsTyped, RulesBacked
  <2>3. \A j \in Insts : installation[j] # Nothing
                            => installation'[j] = installation[j]
    BY <1>1 DEF RegisterInstallation, RowsTyped
  <2>. QED
    BY <1>1, <2>2, <2>3 DEF RegisterInstallation, StepSound, StepProved,
       LinkProved, RuleProved, TokenProved
<1>2. ASSUME NEW i \in Insts, NEW cred \in Creds, NEW new \in Creds,
             NEW p \in Ips, RotateInstallationCredential(i, cred, new, p)
      PROVE  StepSound
  <2>1. installation[i] \in Installations
    BY <1>2 DEF RotateInstallationCredential, LockAuthenticated, RowsTyped
  <2>2. /\ [installation[i] EXCEPT !.cred = new] \in Installations
        /\ [installation[i] EXCEPT !.cred = new].token = installation[i].token
    BY <2>1 DEF Installations
  <2>3. RowsTyped' /\ RulesBacked'
    BY <1>2, <2>2 DEF RotateInstallationCredential, RowsTyped, RulesBacked
  <2>4. \A j \in Insts : installation'[j].token = installation[j].token
    BY <1>2, <2>2 DEF RotateInstallationCredential, RowsTyped
  <2>. QED
    BY <1>2, <2>3, <2>4 DEF RotateInstallationCredential, StepSound,
       StepProved, LinkProved, RuleProved, TokenProved
<1>3. ASSUME NEW c \in Challenges, NEW i \in Insts, NEW cred \in Creds,
             NEW a \in Accounts, NEW proof \in Proofs, NEW p \in Ips,
             IssueChallenge(c, i, cred, a, proof.object, p)
      PROVE  StepSound
  <2>1. ChallengeRecord(i, cred, a, proof.object) \in ChallengeRows
    BY ProofsAssumption DEF ChallengeRecord, ChallengeRows
  <2>. QED BY <1>3, <2>1, TablesKept DEF IssueChallenge, RowsTyped
<1>4. ASSUME NEW r \in RuleIds, NEW i \in Insts, NEW cred \in Creds,
             NEW p \in Ips, PutPriceRule(r, i, cred, p)
      PROVE  StepSound
  <2>. DEFINE new == [inst |-> i, scope |-> "price", link |-> Nothing]
  <2>1. new \in RuleRows
    BY DEF RuleRows
  <2>2. /\ rule' = [rule EXCEPT ![r] = new]
        /\ UNCHANGED <<installation, link, challenge, request>>
    BY <1>4 DEF PutPriceRule
  <2>3. RowsTyped'
    BY <2>1, <2>2 DEF RowsTyped
  <2>4. \A k \in RuleIds : rule'[k] = rule[k] \/ rule'[k].scope # "account"
    BY <2>2 DEF RowsTyped
  <2>. QED
    BY <2>2, <2>3, <2>4 DEF StepSound, RulesBacked, StepProved, LinkProved,
       RuleProved, TokenProved
<1>5. ASSUME NEW r \in RuleIds, NEW i \in Insts, NEW cred \in Creds,
             NEW p \in Ips, RemovePriceRule(r, i, cred, p)
      PROVE  StepSound
  <2>1. /\ rule' = [rule EXCEPT ![r] = Nothing]
        /\ UNCHANGED <<installation, link, challenge, request>>
    BY <1>5 DEF RemovePriceRule
  <2>2. \A k \in RuleIds : rule'[k] = rule[k] \/ rule'[k] = Nothing
    BY <2>1 DEF RowsTyped
  <2>. QED
    BY <2>1, <2>2 DEF StepSound, RowsTyped, RulesBacked, StepProved,
       LinkProved, RuleProved, TokenProved
<1>6. ASSUME NEW i \in Insts, NEW cred \in Creds, NEW t \in Tokens,
             NEW p \in Ips, RebindPriceOnlyPushToken(i, cred, t, p)
      PROVE  StepSound
  <2>1. /\ installation' = [installation EXCEPT ![i].token = t]
        /\ UNCHANGED <<link, rule, challenge, request>>
        /\ LinksOf(i) = {}
    BY <1>6 DEF RebindPriceOnlyPushToken, HasAccountAuthority
  <2>2. installation[i] \in Installations
    BY <1>6 DEF RebindPriceOnlyPushToken, LockAuthenticated, RowsTyped
  <2>3. [installation[i] EXCEPT !.token = t] \in Installations
    BY <2>2 DEF Installations
  <2>4. RowsTyped' /\ RulesBacked'
    BY <2>1, <2>3 DEF RowsTyped, RulesBacked
  <2>5. \A j \in Insts : j # i => installation'[j] = installation[j]
    BY <2>1 DEF RowsTyped
  <2>. QED
    BY <2>1, <2>4, <2>5 DEF StepSound, StepProved, LinkProved, RuleProved,
       TokenProved
<1>7. ASSUME NEW s \in Slots, NEW i \in Insts, NEW cred \in Creds,
             NEW c \in Challenges, NEW proof \in Proofs, NEW p \in Ips,
             StartAttempt(s, i, cred, c, proof.object, proof.signed, p)
      PROVE  StepSound
  <2>1. [stage |-> "admitted", inst |-> i, cred |-> cred, challenge |-> c,
         object |-> proof.object, signed |-> proof.signed, ip |-> p]
           \in Requests
    BY ProofsAssumption DEF Requests, UnderWay, Running, Ended
  <2>2. request' \in [Slots -> RequestRows]
    BY <1>7, <2>1 DEF StartAttempt, RowsTyped, RequestRows
  <2>. QED BY <1>7, <2>2, TablesKept DEF StartAttempt, RowsTyped
<1>8. ASSUME NEW s \in Slots, Prevalidate(s) \/ VerifyAccountRelationship(s)
      PROVE  StepSound
  <2>1. /\ request[s].stage \in UnderWay
        /\ \E stage \in Running : Advance(s, stage)
        /\ UNCHANGED <<installation, link, rule, challenge>>
    BY <1>8 DEF Prevalidate, VerifyAccountRelationship, UnderWay, Running, Ended
  <2>. QED BY <2>1, AdvanceTyped, TablesKept DEF RowsTyped
<1>9. ASSUME NEW s \in Slots, Transact(s) PROVE StepSound
  <2>1. request' \in [Slots -> RequestRows]
    <3>1. /\ request[s].stage \in UnderWay
          /\ \E stage \in Running : Advance(s, stage)
      BY <1>9, TransactCases DEF Succeeds, Declines, UnderWay, Running, Ended
    <3>. QED BY <3>1, AdvanceTyped
  <2>2. CASE Declines(s)
    BY <2>1, <2>2, TablesKept DEF Declines, RowsTyped
  <2>3. CASE Succeeds(s)
    BY <2>1, <2>3, LinkWritten, RuleWritten, TokenWritten DEF Succeeds
  <2>. QED BY <1>9, <2>2, <2>3, TransactCases
<1>10. ASSUME NEW s \in Slots, CloseAttempt(s) \/ AbandonAttempt(s)
       PROVE  StepSound
  BY <1>10, TablesKept DEF CloseAttempt, AbandonAttempt, RowsTyped, RequestRows
<1>11. ASSUME NEW c \in Challenges, ExpireChallenge(c) PROVE StepSound
  <2>1. challenge[c] \in ChallengeRows
    BY <1>11 DEF ExpireChallenge, RowsTyped
  <2>2. PICK late \in ChallengeRows :
            late = [Unbound(challenge[c]) EXCEPT !.expired = TRUE]
    BY <2>1 DEF ChallengeRows, Unbound
  <2>. QED BY <1>11, <2>2, TablesKept DEF ExpireChallenge, RowsTyped
<1>12. CASE MinutePasses \/ HourPasses
  BY <1>12, TablesKept DEF MinutePasses, HourPasses, RowsTyped
<1>13. ASSUME NEW l \in LinkIds, DrainLink(l) PROVE StepSound
  <2>1. link[l] \in Links /\ link' = [link EXCEPT ![l].state = "draining"]
        /\ UNCHANGED <<installation, rule, challenge, request>>
    BY <1>13 DEF DrainLink, RowsTyped
  <2>2. /\ [link[l] EXCEPT !.state = "draining"] \in Links
        /\ [link[l] EXCEPT !.state = "draining"].inst = link[l].inst
    BY <2>1 DEF Links
  <2>3. RowsTyped'
    BY <2>1, <2>2 DEF RowsTyped
  <2>4. \A k \in LinkIds : link[k] # Nothing =>
           link'[k] # Nothing /\ link'[k].inst = link[k].inst
    BY <2>1, <2>2, NothingAssumption DEF RowsTyped
  <2>5. \A k \in LinkIds : link[k] = Nothing => link'[k] = Nothing
    BY <2>1, NothingAssumption DEF RowsTyped
  <2>. QED
    BY <2>1, <2>3, <2>4, <2>5 DEF StepSound, RulesBacked, StepProved,
       LinkProved, RuleProved, TokenProved
<1>14. ASSUME NEW l \in LinkIds, DropLink(l) PROVE StepSound
  <2>1. /\ link' = [link EXCEPT ![l] = Nothing]
        /\ rule' = [r \in RuleIds |->
                      IF rule[r] # Nothing /\ rule[r].link = l
                      THEN Nothing ELSE rule[r]]
        /\ UNCHANGED <<installation, challenge, request>>
    BY <1>14 DEF DropLink
  <2>2. RowsTyped'
    BY <2>1 DEF RowsTyped
  <2>3. /\ \A k \in LinkIds : link'[k] = IF k = l THEN Nothing ELSE link[k]
        /\ \A r \in RuleIds :
              \/ rule'[r] = Nothing
              \/ rule'[r] = rule[r] /\ (rule[r] # Nothing => rule[r].link # l)
    BY <2>1 DEF RowsTyped
  <2>4. RulesBacked'
    BY <2>3 DEF RulesBacked
  <2>. QED
    BY <2>1, <2>2, <2>3, <2>4 DEF StepSound, StepProved, LinkProved,
       RuleProved, TokenProved
<1>. QED
  BY <1>1, <1>2, <1>3, <1>4, <1>5, <1>6, <1>7, <1>8, <1>9, <1>10, <1>11,
     <1>12, <1>13, <1>14, AuthorityNext DEF AuthorityNext

\* Between its steps anything may happen to a request; its transaction still
\* writes a link or an account rule, or replaces the token of an installation
\* with links, only by spending a proof of exactly that operation, and every
\* account rule has a link of its own installation.
THEOREM ChangesAreProved == AuthoritySpec => ProofBeforeChange
<1>1. RowsTyped /\ RulesBacked /\ [AuthorityNext]_authorityVars
        => RowsTyped' /\ RulesBacked'
  <2>1. CASE AuthorityNext
    BY <2>1, AuthorityStep DEF StepSound
  <2>2. CASE UNCHANGED authorityVars
    BY <2>2 DEF authorityVars, RowsTyped, RulesBacked
  <2>. QED BY <2>1, <2>2
<1>2. AuthoritySpec => [](RowsTyped /\ RulesBacked)
  BY <1>1, AuthorityInvInit, PTL DEF AuthoritySpec
<1>3. RowsTyped /\ RulesBacked /\ [AuthorityNext]_authorityVars
        => [ChangesProved]_authorityVars
  <2>1. CASE AuthorityNext
    BY <2>1, AuthorityStep
       DEF StepSound, StepProved, LinkProved, RuleProved, TokenProved,
           RulesBacked, ChangesProved
  <2>. QED BY <2>1
<1>. QED
  BY <1>2, <1>3, PTL DEF AuthoritySpec, ProofBeforeChange

-----------------------------------------------------------------------------
(* Reads of a portfolio.                                                    *)

AnyDex == Dexes \cup {NativeDex}
Items == {"state", "orders", "discovery", "spot", "coverage", "additional", "fills", "funding",
          "periods"} \X (AnyDex \cup ActivitySources)

Envelopes == [phase : Phases, from : Nat, undisclosed : SUBSET Items]
CacheEntries == [user : Users, expiresAt : Nat, value : Envelopes]
AnswerRows == [pc : {"answered"}, value : Envelopes, at : Nat]
LoadRows == [pc : {"catalog", "discovery", "batch", "spot", "history"}, user : Users,
             phase : Phases, since : Nat, left : BOOLEAN, cut : BOOLEAN, todo : SUBSET AnyDex,
             got : SUBSET Items, gaps : SUBSET Items, from : Nat]

SnapshotTyped ==
    /\ portfolioClock \in Nat
    /\ traded \in [ActivitySources -> SUBSET Dexes]
    /\ catalogued \in (SUBSET Dexes) \cup {Unpublished}
    /\ maxDexes \in Nat
    /\ reads \in [Readers -> {NoReader} \cup LoadRows \cup AnswerRows]

\* A cached envelope hides nothing, and was not old when it was put there.
HonestEntries(ph) ==
    {e \in CacheEntries : /\ e.value.phase = ph /\ e.value.undisclosed = {}
                          /\ e.expiresAt <= e.value.from + Deadline + CacheTtl(ph)}

CacheHonest ==
    /\ cache \in [Phases -> Seq(CacheEntries)]
    /\ \A ph \in Phases : cache[ph] \in Seq(HonestEntries(ph))

Accounted(item, got, gaps) == item \in got \/ \E gap \in gaps : Explains(gap, item)

\* What a load lacks is accounted for, or still to come in one of its stages; and
\* it began to read its data within the deadline.
LoadFits(x) ==
    /\ x.since <= x.from /\ x.from <= portfolioClock
    /\ x.pc = "history" <=> x.phase = "history"
    /\ x.pc \in {"batch", "spot", "history"} => portfolioClock <= x.from + Deadline
    /\ x.pc \in {"discovery", "batch", "spot"} => catalogued # Unpublished
    /\ x.pc = "batch" =>
          \A item \in Needed("live") :
              \/ Accounted(item, x.got, x.gaps) \/ item = SpotBalances
              \/ \E d \in x.todo : item \in {StateOf(d), OrdersOf(d)}
    /\ x.pc = "spot" =>
          \A item \in Needed("live") : Accounted(item, x.got, x.gaps) \/ item = SpotBalances

AnswerFits(x) ==
    /\ x.value.undisclosed = {}
    /\ x.at <= x.value.from + Deadline + CacheTtl(x.value.phase)

ReadsFit ==
    \A r \in Readers : /\ reads[r] \in LoadRows => LoadFits(reads[r])
                       /\ reads[r] \in AnswerRows => AnswerFits(reads[r])

SnapshotInv == SnapshotTyped /\ CacheHonest /\ ReadsFit

-----------------------------------------------------------------------------
(* The list of gaps, and the cache.                                         *)

\* However gaps are recorded, each is in the list or the list says there are more.
LEMMA GapsRecorded ==
    ASSUME NEW gaps \in SUBSET Items, NEW new \in SUBSET Items,
           NEW next \in AddSourceGaps(gaps, new)
    PROVE  /\ next \subseteq gaps \cup new \cup {Additional}
           /\ gaps \subseteq next
           /\ \A g \in new : g \in next \/ Additional \in next
BY DEF AddSourceGaps, GapsKept

\* A cached answer lives for a number of ticks.
LEMMA TtlTyped ==
    ASSUME NEW ph \in Phases
    PROVE  CacheTtl(ph) \in Nat
BY PortfolioAssumption DEF CacheTtl

\* Additional and the items of sources are items.
LEMMA ItemsTyped ==
    /\ Additional \in Items /\ Coverage \in Items /\ SpotBalances \in Items
    /\ \A s \in ActivitySources : DiscoveryOf(s) \in Items
    /\ \A d \in AnyDex : StateOf(d) \in Items /\ OrdersOf(d) \in Items
    /\ HistoryItems \subseteq Items
BY DEF Items, AnyDex, Additional, Coverage, SpotBalances, DiscoveryOf, StateOf, OrdersOf, HistoryItems

\* What an answer of a phase needs is made of items.
LEMMA NeededTyped ==
    ASSUME SnapshotTyped, NEW ph \in Phases,
           ph = "live" => catalogued # Unpublished
    PROVE  Needed(ph) \subseteq Items
<1>1. CASE ph = "history"
  BY <1>1, ItemsTyped DEF Needed
<1>2. CASE ph = "live"
  <2>1. catalogued \subseteq Dexes
    BY <1>2 DEF SnapshotTyped
  <2> DEFINE dexes == {NativeDex} \cup (catalogued \cap UNION {traded[s] : s \in ActivitySources})
  <2>2. dexes \subseteq AnyDex
    BY <2>1 DEF AnyDex
  <2>3. Needed(ph) = {SpotBalances} \cup {StateOf(d) : d \in dexes} \cup {OrdersOf(d) : d \in dexes}
    BY <1>2 DEF Needed
  <2> HIDE DEF dexes
  <2> QED
    BY <2>2, <2>3, ItemsTyped
<1> QED
  BY <1>1, <1>2 DEF Phases

\* Removing an entry leaves entries of the same kind.
LEMMA EntryRemoved ==
    ASSUME NEW S, NEW entries \in Seq(S), NEW u
    PROVE  WithoutEntry(entries, u) \in Seq(S)
<1> DEFINE at == {i \in DOMAIN entries : entries[i].user = u}
           removed == CHOOSE i \in at : TRUE
<1>1. CASE at = {}
  BY <1>1 DEF WithoutEntry
<1>2. CASE at # {}
  <2>1. removed \in at
    BY <1>2
  <2>2. removed \in 1..Len(entries) /\ Len(entries) \in Nat
    BY <2>1
  <2> HIDE DEF removed, at
  <2>3. WithoutEntry(entries, u) = [i \in 1..(Len(entries) - 1) |->
                                      entries[IF i < removed THEN i ELSE i + 1]]
    BY <1>2 DEF WithoutEntry, removed, at
  <2>4. ASSUME NEW i \in 1..(Len(entries) - 1)
        PROVE  entries[IF i < removed THEN i ELSE i + 1] \in S
    <3>1. (IF i < removed THEN i ELSE i + 1) \in 1..Len(entries)
      BY <2>2
    <3> QED
      BY <3>1
  <2> QED
    BY <2>2, <2>3, <2>4
<1> QED
  BY <1>1, <1>2

\* An honest envelope is remembered among honest ones.
LEMMA RememberedHonest ==
    ASSUME CacheHonest, SnapshotTyped, NEW ph \in Phases, NEW u \in Users,
           NEW envelope \in Envelopes, envelope.phase = ph, envelope.undisclosed = {},
           portfolioClock <= envelope.from + Deadline,
           cache' = Remembered(ph, u, envelope)
    PROVE  CacheHonest'
<1> DEFINE added == [user |-> u, expiresAt |-> portfolioClock + CacheTtl(ph), value |-> envelope]
           kept == Append(WithoutEntry(cache[ph], u), added)
           over == Len(kept) - MaxCacheEntries
           next == IF over > 0 THEN SubSeq(kept, over + 1, Len(kept)) ELSE kept
<1>1. added \in HonestEntries(ph)
  BY TtlTyped, PortfolioAssumption DEF HonestEntries, CacheEntries, Envelopes, SnapshotTyped
<1>2. \A S : cache[ph] \in Seq(S) /\ added \in S => next \in Seq(S)
  <2> SUFFICES ASSUME NEW S, cache[ph] \in Seq(S), added \in S PROVE next \in Seq(S)
    OBVIOUS
  <2>1. kept \in Seq(S)
    BY EntryRemoved
  <2>2. MaxCacheEntries \in Nat
    BY PortfolioAssumption
  <2> HIDE DEF kept
  <2> QED
    BY <2>1, <2>2
<1>3. next \in Seq(CacheEntries) /\ next \in Seq(HonestEntries(ph))
  <2>1. cache[ph] \in Seq(HonestEntries(ph)) /\ cache[ph] \in Seq(CacheEntries)
    BY DEF CacheHonest
  <2>2. added \in CacheEntries
    BY <1>1 DEF HonestEntries
  <2> HIDE DEF added, next
  <2> QED
    BY <1>1, <1>2, <2>1, <2>2
<1>4. cache' = [cache EXCEPT ![ph] = next]
  BY DEF Remembered
<1> HIDE DEF next
<1>5. cache' \in [Phases -> Seq(CacheEntries)]
  BY <1>3, <1>4 DEF CacheHonest
<1>6. \A p \in Phases : cache'[p] \in Seq(HonestEntries(p))
  BY <1>3, <1>4 DEF CacheHonest
<1>7. \A p \in Phases : HonestEntries(p)' = HonestEntries(p)
  BY DEF HonestEntries
<1> QED
  BY <1>5, <1>6, <1>7 DEF CacheHonest
-----------------------------------------------------------------------------
(* The steps of the reader.                                                 *)

\* A reader goes on: its read fits, and the others are untouched.
LEMMA ReaderMoves ==
    ASSUME SnapshotInv, NEW r \in Readers, NEW next \in {NoReader} \cup LoadRows \cup AnswerRows,
           reads' = [reads EXCEPT ![r] = next],
           UNCHANGED <<portfolioClock, traded, maxDexes, catalogued>>,
           CacheHonest',
           next \in LoadRows => LoadFits(next), next \in AnswerRows => AnswerFits(next)
    PROVE  SnapshotInv'
<1>1. reads \in [Readers -> {NoReader} \cup LoadRows \cup AnswerRows]
  BY DEF SnapshotInv, SnapshotTyped
<1>2. SnapshotTyped'
  BY <1>1 DEF SnapshotInv, SnapshotTyped
<1>3. \A x : LoadFits(x)' <=> LoadFits(x)
  BY DEF LoadFits, Needed
<1>4. ReadsFit'
  <2>1. ASSUME NEW q \in Readers
        PROVE  /\ reads'[q] \in LoadRows => LoadFits(reads'[q])
               /\ reads'[q] \in AnswerRows => AnswerFits(reads'[q])
    BY <1>1 DEF SnapshotInv, ReadsFit
  <2>2. \A x : AnswerFits(x)' <=> AnswerFits(x)
    BY DEF AnswerFits
  <2> QED
    BY <1>3, <2>1, <2>2 DEF ReadsFit, LoadFits, AnswerFits
<1> QED
  BY <1>2, <1>4 DEF SnapshotInv

\* A cache that did not change is as honest as before.
LEMMA CacheKept ==
    ASSUME CacheHonest, UNCHANGED cache
    PROVE  CacheHonest'
BY DEF CacheHonest, HonestEntries

\* A load ends with an answer that accounts for all it lacks, or throws.
LEMMA LoadEndsFits ==
    ASSUME SnapshotInv, NEW r \in Readers, reads[r] \in LoadRows,
           reads[r].pc \in {"spot", "history"},
           NEW got \in SUBSET Items, NEW gaps \in SUBSET Items,
           \A item \in Needed(reads[r].phase) : Accounted(item, got, gaps),
           LoadEnds(r, got, gaps),
           UNCHANGED <<portfolioClock, traded, maxDexes, catalogued>>
    PROVE  SnapshotInv'
<1> DEFINE envelope == Envelope(r, got, gaps)
<1>1. /\ LoadFits(reads[r]) /\ reads[r].phase \in Phases /\ reads[r].user \in Users
      /\ reads[r].from \in Nat /\ portfolioClock \in Nat
  BY DEF SnapshotInv, ReadsFit, SnapshotTyped, LoadRows
<1>2. portfolioClock <= reads[r].from + Deadline
  BY <1>1 DEF LoadFits
<1>3. CASE LoadFails(r)
  <2>1. reads' = [reads EXCEPT ![r] = NoReader] /\ UNCHANGED cache
    BY <1>3 DEF LoadFails
  <2>2. CacheHonest'
    BY <2>1, CacheKept DEF SnapshotInv
  <2>3. NoReader \notin LoadRows /\ NoReader \notin AnswerRows
    BY DEF NoReader, LoadRows, AnswerRows
  <2> QED
    BY <2>1, <2>2, <2>3, ReaderMoves
<1>4. CASE /\ cache' = Remembered(reads[r].phase, reads[r].user, envelope)
           /\ reads' = [reads EXCEPT ![r] = Answered(envelope)]
           /\ loads' = loads - 1
  <2>1. /\ envelope.phase = reads[r].phase /\ envelope.from = reads[r].from
        /\ envelope.undisclosed = {} /\ envelope \in Envelopes
    BY <1>1 DEF Envelope, Accounted, Envelopes
  <2> HIDE DEF envelope
  <2>2. CacheHonest'
    BY <1>1, <1>2, <1>4, <2>1, RememberedHonest DEF SnapshotInv
  <2>3. /\ Answered(envelope) \in AnswerRows /\ Answered(envelope) \notin LoadRows
        /\ Answered(envelope).value = envelope /\ Answered(envelope).at = portfolioClock
    BY <1>1, <2>1 DEF Answered, AnswerRows, LoadRows
  <2>4. AnswerFits(Answered(envelope))
    BY <1>1, <1>2, <2>1, <2>3, TtlTyped, PortfolioAssumption DEF AnswerFits
  <2> QED
    BY <1>4, <2>2, <2>3, <2>4, ReaderMoves
<1> QED
  BY <1>3, <1>4 DEF LoadEnds

\* A request is answered from the cache, refused, or becomes a load.
LEMMA ReadFits ==
    ASSUME SnapshotInv, NEW r \in Readers, NEW u \in Users, NEW ph \in Phases, Read(r, u, ph)
    PROVE  SnapshotInv'
<1>1. UNCHANGED <<portfolioClock, traded, maxDexes, catalogued>> /\ portfolioClock \in Nat
  BY DEF Read, SnapshotInv, SnapshotTyped
<1>2. CASE FromCache(r, u, ph)
  <2>1. PICK e \in FreshEntries(ph, u) : reads' = [reads EXCEPT ![r] = Answered(e.value)]
    BY <1>2 DEF FromCache
  <2>2. e \in HonestEntries(ph) /\ e.expiresAt > portfolioClock
    BY DEF FreshEntries, CachedFor, SnapshotInv, CacheHonest
  <2>3. /\ Answered(e.value) \in AnswerRows /\ Answered(e.value) \notin LoadRows
        /\ Answered(e.value).value = e.value /\ Answered(e.value).at = portfolioClock
    BY <1>1, <2>2 DEF Answered, AnswerRows, LoadRows, HonestEntries, CacheEntries
  <2>4. AnswerFits(Answered(e.value))
    <3>1. /\ e.value.phase = ph /\ e.value.undisclosed = {} /\ e.expiresAt \in Nat
          /\ e.value.from \in Nat /\ e.expiresAt <= e.value.from + Deadline + CacheTtl(ph)
      BY <2>2 DEF HonestEntries, CacheEntries, Envelopes
    <3> QED
      BY <1>1, <2>2, <2>3, <3>1, TtlTyped, PortfolioAssumption DEF AnswerFits
  <2>5. CacheHonest'
    BY <1>2, CacheKept DEF FromCache, SnapshotInv
  <2> QED
    BY <1>1, <2>1, <2>3, <2>4, <2>5, ReaderMoves
<1>3. CASE Refuse(r, u, ph)
  <2>1. reads' = [reads EXCEPT ![r] = NoReader] /\ CacheHonest'
    BY <1>3, CacheKept DEF Refuse, SnapshotInv
  <2>2. NoReader \notin LoadRows /\ NoReader \notin AnswerRows
    BY DEF NoReader, LoadRows, AnswerRows
  <2> QED
    BY <1>1, <2>1, <2>2, ReaderMoves
<1>4. CASE Load(r, u, ph)
  <2> DEFINE load == [pc |-> IF ph = "live" THEN "catalog" ELSE "history",
                      user |-> u, phase |-> ph, since |-> portfolioClock, left |-> FALSE,
                      cut |-> FALSE, todo |-> {}, got |-> {}, gaps |-> {},
                      from |-> portfolioClock]
  <2>1. reads' = [reads EXCEPT ![r] = load] /\ CacheHonest'
    BY <1>4, CacheKept DEF Load, SnapshotInv
  <2>2. /\ load \in LoadRows /\ load \notin AnswerRows
        /\ load.since = portfolioClock /\ load.from = portfolioClock
        /\ load.phase = ph /\ load.pc = IF ph = "live" THEN "catalog" ELSE "history"
    BY <1>1 DEF LoadRows, AnswerRows
  <2> HIDE DEF load
  <2>3. LoadFits(load)
    BY <1>1, <2>2, PortfolioAssumption DEF LoadFits, Phases
  <2> QED
    BY <1>1, <2>1, <2>2, <2>3, ReaderMoves
<1> QED
  BY <1>2, <1>3, <1>4 DEF Read

\* The catalog is read: a later stage needs one that was published.
LEMMA ReadCatalogFits ==
    ASSUME SnapshotInv, NEW r \in Readers, ReadCatalog(r)
    PROVE  SnapshotInv'
<1>1. /\ UNCHANGED <<portfolioClock, traded, maxDexes, catalogued>>
      /\ reads[r].pc = "catalog" /\ UNCHANGED cache
  BY DEF ReadCatalog, LoadFails
<1>2. CacheHonest'
  BY <1>1, CacheKept DEF SnapshotInv
<1>3. reads[r] \in LoadRows /\ LoadFits(reads[r])
  BY <1>1 DEF SnapshotInv, ReadsFit, SnapshotTyped, NoReader, AnswerRows
<1>4. CASE LoadFails(r)
  <2>1. reads' = [reads EXCEPT ![r] = NoReader]
    BY <1>4 DEF LoadFails
  <2>2. NoReader \notin LoadRows /\ NoReader \notin AnswerRows
    BY DEF NoReader, LoadRows, AnswerRows
  <2> QED
    BY <1>1, <1>2, <2>1, <2>2, ReaderMoves
<1>5. CASE catalogued # Unpublished /\
           reads' = [reads EXCEPT ![r].pc = "discovery", ![r].cut = Signalled(r)]
  <2> DEFINE next == [reads[r] EXCEPT !.pc = "discovery", !.cut = Signalled(r)]
  <2>1. Signalled(r) \in BOOLEAN
    BY <1>3 DEF Signalled, LoadRows
  <2>2. /\ next \in LoadRows /\ next \notin AnswerRows /\ next.pc = "discovery"
        /\ next.since = reads[r].since /\ next.from = reads[r].from
        /\ next.phase = reads[r].phase
    BY <1>3, <2>1 DEF LoadRows, AnswerRows
  <2>3. reads' = [reads EXCEPT ![r] = next]
    BY <1>5 DEF SnapshotInv, SnapshotTyped
  <2> HIDE DEF next
  <2>4. LoadFits(next)
    BY <1>1, <1>3, <1>5, <2>2 DEF LoadFits
  <2> QED
    BY <1>1, <1>2, <2>2, <2>3, <2>4, ReaderMoves
<1> QED
  BY <1>4, <1>5 DEF ReadCatalog

\* What a source of activity leaves out, it reports.
LEMMA ActivityCollected ==
    ASSUME SnapshotTyped, NEW s \in ActivitySources, NEW cut,
           NEW a \in CollectActivityCoins(s, cut)
    PROVE  /\ a.dexes \subseteq traded[s] /\ a.gap \subseteq {DiscoveryOf(s)}
           /\ a.dexes = traded[s] \/ DiscoveryOf(s) \in a.gap
<1>1. \/ a = [dexes |-> traded[s], gap |-> {}]
      \/ a \in [dexes : SUBSET traded[s], gap : {{DiscoveryOf(s)}}]
      \/ a = [dexes |-> {}, gap |-> {DiscoveryOf(s)}]
  BY DEF CollectActivityCoins
<1> QED
  BY <1>1

\* Of a DEX that is not read, the discovery or the response window says so.
LEMMA DiscoverFits ==
    ASSUME SnapshotInv, NEW r \in Readers, DiscoverActiveDexes(r)
    PROVE  SnapshotInv'
<1>1. /\ UNCHANGED <<portfolioClock, traded, maxDexes, catalogued, cache>>
      /\ reads[r].pc = "discovery"
  BY DEF DiscoverActiveDexes
<1>2. CacheHonest'
  BY <1>1, CacheKept DEF SnapshotInv
<1>3. reads[r] \in LoadRows /\ LoadFits(reads[r]) /\ SnapshotTyped
  BY <1>1 DEF SnapshotInv, ReadsFit, SnapshotTyped, NoReader, AnswerRows
<1>4. catalogued \subseteq Dexes
  BY <1>1, <1>3 DEF LoadFits, SnapshotTyped
<1>5. PICK o \in CollectActivityCoins("orders", reads[r].cut),
           f \in CollectActivityCoins("fills", reads[r].cut),
           u \in CollectActivityCoins("funding", reads[r].cut) :
        LET active == (o.dexes \cup f.dexes \cup u.dexes) \cap catalogued
            all == {NativeDex} \cup active
            fits == Cardinality(all) <= maxDexes
        IN \E chosen \in {c \in SUBSET all : /\ NativeDex \in c
                                             /\ Cardinality(c) = IF fits THEN Cardinality(all)
                                                                 ELSE maxDexes},
              gaps \in AddSourceGaps({}, o.gap \cup f.gap \cup u.gap
                                           \cup IF fits THEN {} ELSE {Coverage}) :
             reads' = [reads EXCEPT ![r].pc = "batch", ![r].cut = Signalled(r),
                                    ![r].todo = chosen, ![r].gaps = gaps,
                                    ![r].from = portfolioClock]
  BY DEF DiscoverActiveDexes
<1> DEFINE active == (o.dexes \cup f.dexes \cup u.dexes) \cap catalogued
           all == {NativeDex} \cup active
           fits == Cardinality(all) <= maxDexes
           new == o.gap \cup f.gap \cup u.gap \cup IF fits THEN {} ELSE {Coverage}
<1>6. PICK chosen \in SUBSET all, gaps \in AddSourceGaps({}, new) :
        /\ fits => Cardinality(chosen) = Cardinality(all)
        /\ reads' = [reads EXCEPT ![r].pc = "batch", ![r].cut = Signalled(r),
                                  ![r].todo = chosen, ![r].gaps = gaps,
                                  ![r].from = portfolioClock]
  BY <1>5
<1>7. /\ o.dexes \subseteq traded["orders"] /\ o.gap \subseteq {DiscoveryOf("orders")}
      /\ f.dexes \subseteq traded["fills"] /\ f.gap \subseteq {DiscoveryOf("fills")}
      /\ u.dexes \subseteq traded["funding"] /\ u.gap \subseteq {DiscoveryOf("funding")}
      /\ o.dexes = traded["orders"] \/ DiscoveryOf("orders") \in o.gap
      /\ f.dexes = traded["fills"] \/ DiscoveryOf("fills") \in f.gap
      /\ u.dexes = traded["funding"] \/ DiscoveryOf("funding") \in u.gap
  <2>1. "orders" \in ActivitySources /\ "fills" \in ActivitySources /\ "funding" \in ActivitySources
    BY DEF ActivitySources
  <2> QED
    BY <1>3, <2>1, ActivityCollected
<1>8. all \subseteq AnyDex /\ new \subseteq Items
  <2>1. all \subseteq AnyDex
    BY <1>4 DEF AnyDex
  <2>2. new \subseteq Items
    BY <1>7, ItemsTyped DEF ActivitySources
  <2> QED
    BY <2>1, <2>2
<1>9. \/ Coverage \in new
      \/ chosen = all
  <2>1. IsFiniteSet(all)
    <3>1. IsFiniteSet(Dexes)
      BY PortfolioAssumption
    <3>2. active \in SUBSET Dexes
      BY <1>4
    <3>3. IsFiniteSet(active)
      BY <3>1, <3>2, FS_Subset
    <3> QED
      BY <3>3, FS_AddElement
  <2>2. CASE fits
    BY <1>6, <2>1, <2>2, FS_Subset
  <2>3. CASE ~fits
    BY <2>3
  <2> QED
    BY <2>2, <2>3
<1>10. \/ \E s \in ActivitySources : DiscoveryOf(s) \in new
       \/ active = catalogued \cap UNION {traded[s] : s \in ActivitySources}
  BY <1>7 DEF ActivitySources
<1> HIDE DEF new, fits, all, active
<1>11. gaps \in SUBSET Items /\ \A g \in new : g \in gaps \/ Additional \in gaps
  <2>1. {} \in SUBSET Items
    OBVIOUS
  <2> QED
    BY <1>8, <2>1, GapsRecorded, ItemsTyped
<1> DEFINE next == [reads[r] EXCEPT !.pc = "batch", !.cut = Signalled(r), !.todo = chosen,
                                    !.gaps = gaps, !.from = portfolioClock]
<1>12. reads' = [reads EXCEPT ![r] = next]
  BY <1>3, <1>6 DEF SnapshotTyped
<1>13. /\ next \in LoadRows /\ next \notin AnswerRows /\ next.pc = "batch"
       /\ next.since = reads[r].since /\ next.from = portfolioClock /\ next.todo = chosen
       /\ next.gaps = gaps /\ next.got = reads[r].got /\ next.phase = reads[r].phase
  <2>1. Signalled(r) \in BOOLEAN
    BY <1>3 DEF Signalled, LoadRows
  <2>2. portfolioClock \in Nat /\ chosen \in SUBSET AnyDex
    BY <1>3, <1>6, <1>8 DEF SnapshotTyped
  <2> QED
    BY <1>3, <1>11, <2>1, <2>2 DEF LoadRows, AnswerRows
<1> HIDE DEF next
<1>14. ASSUME NEW item \in Needed("live")
       PROVE  \/ Accounted(item, next.got, gaps) \/ item = SpotBalances
              \/ \E d \in chosen : item \in {StateOf(d), OrdersOf(d)}
  <2> DEFINE dexes == {NativeDex} \cup (catalogued \cap UNION {traded[s] : s \in ActivitySources})
  <2>1. \/ item = SpotBalances
        \/ \E d \in dexes : item \in {StateOf(d), OrdersOf(d)}
    BY DEF Needed
  <2>2. \/ dexes = chosen
        \/ \E g \in gaps : g = Additional \/ g = Coverage \/ \E s \in ActivitySources : g = DiscoveryOf(s)
    BY <1>9, <1>10, <1>11 DEF all
  <2>3. ASSUME NEW d \in dexes, item \in {StateOf(d), OrdersOf(d)}, NEW g \in gaps,
               g = Additional \/ g = Coverage \/ \E s \in ActivitySources : g = DiscoveryOf(s)
        PROVE  Explains(g, item)
    BY <2>3 DEF Explains, StateOf, OrdersOf, DiscoveryOf
  <2> HIDE DEF dexes
  <2> QED
    BY <2>1, <2>2, <2>3 DEF Accounted
<1>15. LoadFits(next)
  <2>1. /\ reads[r].since <= reads[r].from /\ reads[r].from <= portfolioClock
        /\ reads[r].phase # "history" /\ catalogued # Unpublished
        /\ reads[r].since \in Nat /\ reads[r].from \in Nat /\ portfolioClock \in Nat
    BY <1>1, <1>3 DEF LoadFits, LoadRows, SnapshotTyped
  <2>2. Deadline \in Nat
    BY PortfolioAssumption
  <2> QED
    BY <1>13, <1>14, <2>1, <2>2 DEF LoadFits
<1> QED
  BY <1>1, <1>2, <1>12, <1>13, <1>15, ReaderMoves

\* A batch: what could not be read is in the list of gaps.
LEMMA ReadBatchFits ==
    ASSUME SnapshotInv, NEW r \in Readers, ReadBatch(r)
    PROVE  SnapshotInv'
<1>1. /\ UNCHANGED <<portfolioClock, traded, maxDexes, catalogued, cache>>
      /\ reads[r].pc = "batch"
  BY DEF ReadBatch
<1>2. CacheHonest'
  BY <1>1, CacheKept DEF SnapshotInv
<1>3. reads[r] \in LoadRows /\ LoadFits(reads[r]) /\ SnapshotTyped
  BY <1>1 DEF SnapshotInv, ReadsFit, SnapshotTyped, NoReader, AnswerRows
<1>4. PICK batch, states, orders :
      /\ batch \subseteq reads[r].todo /\ states \subseteq batch /\ orders \subseteq states
      /\ \E gaps \in AddSourceGaps(reads[r].gaps,
                       {StateOf(d) : d \in batch \ states} \cup {OrdersOf(d) : d \in states \ orders}) :
            reads' = [reads EXCEPT ![r].pc = IF batch = reads[r].todo THEN "spot" ELSE "batch",
                                   ![r].cut = Signalled(r),
                                   ![r].todo = @ \ batch, ![r].gaps = gaps,
                                   ![r].got = @ \cup {StateOf(d) : d \in states}
                                                \cup {OrdersOf(d) : d \in orders}]
  <2>1. \A batch \in SUBSET reads[r].todo :
           /\ \A states \in (IF reads[r].cut THEN {{}} ELSE SUBSET batch) : states \in SUBSET batch
           /\ \A states : \A orders \in (IF reads[r].cut THEN {{}} ELSE SUBSET states) :
                 orders \in SUBSET states
    OBVIOUS
  <2> QED
    BY <2>1 DEF ReadBatch
<1> DEFINE new == {StateOf(d) : d \in batch \ states} \cup {OrdersOf(d) : d \in states \ orders}
           read == {StateOf(d) : d \in states} \cup {OrdersOf(d) : d \in orders}
<1>5. PICK gaps \in AddSourceGaps(reads[r].gaps, new) :
         reads' = [reads EXCEPT ![r].pc = IF batch = reads[r].todo THEN "spot" ELSE "batch",
                                ![r].cut = Signalled(r),
                                ![r].todo = @ \ batch, ![r].gaps = gaps,
                                ![r].got = @ \cup {StateOf(d) : d \in states}
                                             \cup {OrdersOf(d) : d \in orders}]
  BY <1>4
<1>6. /\ new \in SUBSET Items /\ read \in SUBSET Items
      /\ \A d \in batch : \/ StateOf(d) \in read /\ OrdersOf(d) \in read
                          \/ StateOf(d) \in read /\ OrdersOf(d) \in new
                          \/ StateOf(d) \in new
  <2>1. batch \subseteq AnyDex /\ states \subseteq batch /\ orders \subseteq states
    BY <1>3, <1>4 DEF LoadRows
  <2>2. new \in SUBSET Items /\ read \in SUBSET Items
    BY <2>1, ItemsTyped
  <2> QED
    BY <2>1, <2>2
<1>7. /\ reads[r].gaps \in SUBSET Items /\ reads[r].got \in SUBSET Items
      /\ reads[r].todo \in SUBSET AnyDex
  BY <1>3 DEF LoadRows
<1> DEFINE pc == IF batch = reads[r].todo THEN "spot" ELSE "batch"
           next == [reads[r] EXCEPT !.pc = pc, !.cut = Signalled(r), !.todo = reads[r].todo \ batch,
                                    !.gaps = gaps, !.got = reads[r].got \cup read]
<1>8. reads' = [reads EXCEPT ![r] = next]
  <2>1. reads[r].got \cup {StateOf(d) : d \in states} \cup {OrdersOf(d) : d \in orders}
           = reads[r].got \cup read
    OBVIOUS
  <2> QED
    BY <1>3, <1>5, <2>1 DEF SnapshotTyped
<1> HIDE DEF new, read
<1>9. /\ gaps \in SUBSET Items /\ reads[r].gaps \subseteq gaps
      /\ \A g \in new : g \in gaps \/ Additional \in gaps
  BY <1>6, <1>7, GapsRecorded, ItemsTyped
<1>10. /\ next \in LoadRows /\ next \notin AnswerRows /\ next.pc = pc
       /\ next.since = reads[r].since /\ next.from = reads[r].from
       /\ next.todo = reads[r].todo \ batch /\ next.gaps = gaps
       /\ next.got = reads[r].got \cup read /\ next.phase = reads[r].phase
  <2>1. Signalled(r) \in BOOLEAN
    BY <1>3 DEF Signalled, LoadRows
  <2>2. pc \in {"spot", "batch"} /\ reads[r].got \cup read \in SUBSET Items
        /\ reads[r].todo \ batch \in SUBSET AnyDex
    BY <1>6, <1>7
  <2> HIDE DEF pc
  <2> QED
    BY <1>3, <1>9, <2>1, <2>2 DEF LoadRows, AnswerRows
<1> HIDE DEF next
<1>11. ASSUME NEW item \in Needed("live")
       PROVE  \/ Accounted(item, reads[r].got \cup read, gaps) \/ item = SpotBalances
              \/ \E d \in reads[r].todo \ batch : item \in {StateOf(d), OrdersOf(d)}
  <2>1. \/ Accounted(item, reads[r].got, reads[r].gaps) \/ item = SpotBalances
        \/ \E d \in reads[r].todo : item \in {StateOf(d), OrdersOf(d)}
    BY <1>1, <1>3 DEF LoadFits
  <2>2. CASE Accounted(item, reads[r].got, reads[r].gaps)
    BY <1>9, <2>2 DEF Accounted
  <2>3. ASSUME NEW d \in batch, item \in {StateOf(d), OrdersOf(d)}
        PROVE  Accounted(item, reads[r].got \cup read, gaps)
    <3>1. /\ Explains(StateOf(d), StateOf(d)) /\ Explains(StateOf(d), OrdersOf(d))
          /\ Explains(OrdersOf(d), OrdersOf(d))
          /\ Explains(Additional, item)
      BY DEF Explains, StateOf, OrdersOf
    <3>2. \/ item \in read
          \/ item = OrdersOf(d) /\ OrdersOf(d) \in new
          \/ StateOf(d) \in new
      BY <1>6, <2>3
    <3>3. CASE item \in read
      BY <3>3 DEF Accounted
    <3>4. CASE item = OrdersOf(d) /\ OrdersOf(d) \in new
      BY <1>9, <3>1, <3>4 DEF Accounted
    <3>5. CASE StateOf(d) \in new
      BY <1>9, <2>3, <3>1, <3>5 DEF Accounted
    <3> QED
      BY <3>2, <3>3, <3>4, <3>5
  <2> QED
    BY <2>1, <2>2, <2>3
<1>12. LoadFits(next)
  <2>1. /\ reads[r].since <= reads[r].from /\ reads[r].from <= portfolioClock
        /\ reads[r].phase # "history" /\ catalogued # Unpublished
        /\ portfolioClock <= reads[r].from + Deadline
    BY <1>1, <1>3 DEF LoadFits
  <2>2. next.pc = "spot" => next.todo = {}
    BY <1>10
  <2>3. next.pc \in {"spot", "batch"}
    BY <1>10
  <2>4. \A item \in Needed("live") :
           \/ Accounted(item, next.got, next.gaps) \/ item = SpotBalances
           \/ \E d \in next.todo : item \in {StateOf(d), OrdersOf(d)}
    BY <1>10, <1>11
  <2>5. next.pc = "spot" => \A item \in Needed("live") :
                               Accounted(item, next.got, next.gaps) \/ item = SpotBalances
    BY <2>2, <2>4
  <2> QED
    BY <1>10, <2>1, <2>3, <2>4, <2>5 DEF LoadFits
<1> QED
  BY <1>1, <1>2, <1>8, <1>10, <1>12, ReaderMoves

\* The spot balances are read, or their gap is recorded.
LEMMA ReadSpotFits ==
    ASSUME SnapshotInv, NEW r \in Readers, ReadSpot(r)
    PROVE  SnapshotInv'
<1>1. /\ UNCHANGED <<portfolioClock, traded, maxDexes, catalogued>>
      /\ reads[r].pc = "spot"
  BY DEF ReadSpot
<1>2. reads[r] \in LoadRows /\ LoadFits(reads[r])
  BY <1>1 DEF SnapshotInv, ReadsFit, SnapshotTyped, NoReader, AnswerRows
<1>3. /\ \A item \in Needed("live") : Accounted(item, reads[r].got, reads[r].gaps) \/ item = SpotBalances
      /\ reads[r].phase = "live"
      /\ reads[r].gaps \in SUBSET Items /\ reads[r].got \in SUBSET Items
  BY <1>1, <1>2 DEF LoadFits, LoadRows, Phases
<1>4. CASE LoadEnds(r, reads[r].got \cup {SpotBalances}, reads[r].gaps)
  <2>1. reads[r].got \cup {SpotBalances} \in SUBSET Items
    BY <1>3, ItemsTyped
  <2>2. \A item \in Needed("live") : Accounted(item, reads[r].got \cup {SpotBalances}, reads[r].gaps)
    BY <1>3 DEF Accounted
  <2> QED
    BY <1>1, <1>2, <1>3, <1>4, <2>1, <2>2, LoadEndsFits
<1>5. ASSUME NEW gaps \in AddSourceGaps(reads[r].gaps, {SpotBalances}),
             LoadEnds(r, reads[r].got, gaps)
      PROVE  SnapshotInv'
  <2>1. gaps \in SUBSET Items /\ reads[r].gaps \subseteq gaps
        /\ (SpotBalances \in gaps \/ Additional \in gaps)
    <3>1. {SpotBalances} \in SUBSET Items
      BY ItemsTyped
    <3>2. PICK given \in SUBSET Items : given = reads[r].gaps
      BY <1>3
    <3>3. /\ gaps \subseteq given \cup {SpotBalances} \cup {Additional} /\ given \subseteq gaps
          /\ \A g \in {SpotBalances} : g \in gaps \/ Additional \in gaps
      <4>1. gaps \in AddSourceGaps(given, {SpotBalances})
        BY <3>2
      <4> QED
        BY <3>1, <4>1, GapsRecorded
    <3> QED
      BY <3>2, <3>3, ItemsTyped
  <2>2. \A item \in Needed("live") : Accounted(item, reads[r].got, gaps)
    BY <1>3, <2>1 DEF Accounted, Explains
  <2> QED
    BY <1>1, <1>2, <1>3, <1>5, <2>1, <2>2, LoadEndsFits
<1> QED
  BY <1>4, <1>5 DEF ReadSpot

\* Each request of the history is answered or is a gap.
LEMMA ReadHistoryFits ==
    ASSUME SnapshotInv, NEW r \in Readers, ReadHistory(r)
    PROVE  SnapshotInv'
<1>1. /\ UNCHANGED <<portfolioClock, traded, maxDexes, catalogued>>
      /\ reads[r].pc = "history"
  BY DEF ReadHistory
<1>2. reads[r] \in LoadRows /\ LoadFits(reads[r])
  BY <1>1 DEF SnapshotInv, ReadsFit, SnapshotTyped, NoReader, AnswerRows
<1>3. PICK got \in SUBSET HistoryItems : LoadEnds(r, got, HistoryItems \ got)
  BY DEF ReadHistory
<1>4. got \in SUBSET Items /\ HistoryItems \ got \in SUBSET Items
  BY ItemsTyped
<1>5. reads[r].phase = "history"
  BY <1>1, <1>2 DEF LoadFits
<1>6. \A item \in Needed("history") : Accounted(item, got, HistoryItems \ got)
  BY DEF Needed, Accounted, Explains
<1> QED
  BY <1>1, <1>2, <1>3, <1>4, <1>5, <1>6, LoadEndsFits

\* A caller leaves its load behind.
LEMMA CallerLeavesFits ==
    ASSUME SnapshotInv, NEW r \in Readers, CallerLeaves(r)
    PROVE  SnapshotInv'
<1>1. /\ UNCHANGED <<portfolioClock, traded, maxDexes, catalogued, cache>>
      /\ Loading(r) /\ reads' = [reads EXCEPT ![r].left = TRUE]
  BY DEF CallerLeaves
<1>2. CacheHonest'
  BY <1>1, CacheKept DEF SnapshotInv
<1>3. reads[r] \in LoadRows /\ LoadFits(reads[r])
  BY <1>1 DEF SnapshotInv, ReadsFit, SnapshotTyped, NoReader, AnswerRows, Loading
<1> DEFINE next == [reads[r] EXCEPT !.left = TRUE]
<1>4. reads' = [reads EXCEPT ![r] = next]
  BY <1>1 DEF SnapshotInv, SnapshotTyped
<1>5. /\ next \in LoadRows /\ next \notin AnswerRows /\ next.pc = reads[r].pc
      /\ next.since = reads[r].since /\ next.from = reads[r].from /\ next.todo = reads[r].todo
      /\ next.gaps = reads[r].gaps /\ next.got = reads[r].got /\ next.phase = reads[r].phase
  BY <1>3 DEF LoadRows, AnswerRows
<1> HIDE DEF next
<1>6. LoadFits(next)
  BY <1>3, <1>5 DEF LoadFits
<1> QED
  BY <1>1, <1>2, <1>4, <1>5, <1>6, ReaderMoves

\* Time passes only before the deadline of every load under way.
LEMMA PortfolioTickFits ==
    ASSUME SnapshotInv, PortfolioTick
    PROVE  SnapshotInv'
<1>1. /\ portfolioClock' = portfolioClock + 1
      /\ \A r \in Readers : Loading(r) /\ reads[r].pc # "catalog" => ~Signalled(r)
      /\ UNCHANGED <<traded, maxDexes, catalogued, cache, reads>>
  BY DEF PortfolioTick
<1>2. SnapshotTyped' /\ portfolioClock \in Nat
  BY <1>1 DEF SnapshotInv, SnapshotTyped
<1>3. CacheHonest'
  BY <1>1, CacheKept DEF SnapshotInv
<1>4. ASSUME NEW r \in Readers, reads[r] \in LoadRows
      PROVE  LoadFits(reads[r])'
  <2>1. LoadFits(reads[r]) /\ reads[r].pc \in {"catalog", "discovery", "batch", "spot", "history"}
        /\ reads[r].since \in Nat /\ reads[r].from \in Nat /\ Deadline \in Nat
    BY <1>4, PortfolioAssumption DEF SnapshotInv, ReadsFit, LoadRows
  <2>2. reads[r].pc # "catalog" => portfolioClock < reads[r].since + Deadline
    BY <1>1, <1>2, <2>1 DEF Loading, Signalled
  <2>3. \A ph : Needed(ph)' = Needed(ph)
    BY <1>1 DEF Needed
  <2>4. /\ reads[r].from <= portfolioClock'
        /\ reads[r].pc \in {"batch", "spot", "history"} => portfolioClock' <= reads[r].from + Deadline
    BY <1>1, <1>2, <2>1, <2>2 DEF LoadFits
  <2> QED
    BY <1>1, <2>1, <2>3, <2>4 DEF LoadFits
<1>5. ReadsFit'
  BY <1>1, <1>4 DEF SnapshotInv, ReadsFit, AnswerFits
<1> QED
  BY <1>2, <1>3, <1>5 DEF SnapshotInv

\* Nobody has asked yet.
LEMMA SnapshotInit ==
    PortfolioInit => SnapshotInv
<1> SUFFICES ASSUME PortfolioInit PROVE SnapshotInv
  OBVIOUS
<1>1. SnapshotTyped
  BY PortfolioAssumption DEF PortfolioInit, SnapshotTyped
<1>2. CacheHonest
  BY DEF PortfolioInit, CacheHonest
<1>3. ReadsFit
  BY DEF PortfolioInit, ReadsFit, NoReader, LoadRows, AnswerRows
<1> QED
  BY <1>1, <1>2, <1>3 DEF SnapshotInv

\* Every step keeps the invariant.
LEMMA SnapshotStep ==
    SnapshotInv /\ [PortfolioNext]_portfolioVars => SnapshotInv'
<1> SUFFICES ASSUME SnapshotInv, [PortfolioNext]_portfolioVars
             PROVE  SnapshotInv'
  OBVIOUS
<1>1. CASE UNCHANGED portfolioVars
  <2>1. UNCHANGED <<portfolioClock, traded, maxDexes, catalogued, cache, reads>>
    BY <1>1 DEF portfolioVars
  <2>2. SnapshotTyped' /\ CacheHonest'
    BY <2>1, CacheKept DEF SnapshotInv, SnapshotTyped
  <2>3. \A x : (LoadFits(x)' <=> LoadFits(x)) /\ (AnswerFits(x)' <=> AnswerFits(x))
    BY <2>1 DEF LoadFits, AnswerFits, Needed
  <2> QED
    BY <2>1, <2>2, <2>3 DEF SnapshotInv, ReadsFit
<1>2. ASSUME NEW r \in Readers, NEW u \in Users, NEW ph \in Phases, Read(r, u, ph)
      PROVE  SnapshotInv'
  BY <1>2, ReadFits
<1>3. ASSUME NEW r \in Readers,
             \/ ReadCatalog(r) \/ DiscoverActiveDexes(r) \/ ReadBatch(r)
             \/ ReadSpot(r) \/ ReadHistory(r) \/ CallerLeaves(r)
      PROVE  SnapshotInv'
  BY <1>3, ReadCatalogFits, DiscoverFits, ReadBatchFits, ReadSpotFits, ReadHistoryFits,
     CallerLeavesFits
<1>4. CASE PortfolioTick
  BY <1>4, PortfolioTickFits
<1> QED
  BY <1>1, <1>2, <1>3, <1>4 DEF PortfolioNext

\* PortfolioSnapshotReader: whatever sources fail, whoever leaves and whenever a
\* deadline passes, a portfolio answer discloses all it lacks, and its data are no
\* older than a deadline and the life of a cache entry.
THEOREM AnswersAreHonest ==
    PortfolioSpec => []AnswersHonest
<1>1. SnapshotInv => AnswersHonest
  <2> SUFFICES ASSUME SnapshotInv, NEW r \in Readers, reads[r].pc = "answered"
               PROVE  /\ reads[r].value.undisclosed = {}
                      /\ reads[r].at - reads[r].value.from
                            <= Deadline + CacheTtl(reads[r].value.phase)
    BY DEF AnswersHonest
  <2>1. reads[r] \in AnswerRows /\ AnswerFits(reads[r])
    BY DEF SnapshotInv, SnapshotTyped, ReadsFit, NoReader, LoadRows
  <2>2. /\ reads[r].at \in Nat /\ reads[r].value.from \in Nat /\ Deadline \in Nat
        /\ CacheTtl(reads[r].value.phase) \in Nat
    BY <2>1, TtlTyped, PortfolioAssumption DEF AnswerRows, Envelopes
  <2> QED
    BY <2>1, <2>2 DEF AnswerFits
<1> QED
  BY <1>1, SnapshotInit, SnapshotStep, PTL DEF PortfolioSpec

-----------------------------------------------------------------------------
(* Numbers.                                                                 *)

\* The numbers are well ordered, as a relation.
LEMMA NatOrder ==
    \E R : IsWellFoundedOn(R, Nat) /\ \A m, n \in Nat : <<m, n>> \in R <=> m < n
<1>1. IsWellFoundedOn(OpToRel(<, Nat), Nat)
  BY NatLessThanWellFounded, Zenon
<1>2. \A m, n \in Nat : <<m, n>> \in OpToRel(<, Nat) <=> m < n
  BY Zenon DEF OpToRel
<1> QED
  BY <1>1, <1>2, Zenon

\* A set of numbers that is not empty has a least one.
LEMMA LeastNumber ==
    ASSUME NEW T, T \subseteq Nat, T # {}
    PROVE  \E n \in T : \A m \in T : n <= m
<1>1. PICK R : IsWellFoundedOn(R, Nat) /\ \A m, n \in Nat : <<m, n>> \in R <=> m < n
  BY NatOrder, Zenon
<1>2. \E x \in T : \A y \in T : ~(<<y, x>> \in R)
  <2>1. IsWellFoundedOn(R, Nat)
    BY <1>1
  <2> QED
    BY <2>1, WFMin, Zenon
<1>3. PICK n \in T : \A m \in T : ~(<<m, n>> \in R)
  BY <1>2
<1>4. ASSUME NEW m \in T
      PROVE  ~(m < n)
  <2>1. m \in Nat /\ n \in Nat
    OBVIOUS
  <2>2. <<m, n>> \in R <=> m < n
    BY <1>1, <2>1, Zenon
  <2> QED
    BY <1>3, <2>2, Zenon
<1>5. n \in Nat /\ \A m \in T : m \in Nat
  OBVIOUS
<1> QED
  BY <1>4, <1>5

\* A bounded set of numbers that is not empty has a greatest one.
LEMMA GreatestNumber ==
    ASSUME NEW n \in Nat, NEW S, S \subseteq 0..n, S # {}
    PROVE  Max(S) \in S /\ \A m \in S : m <= Max(S)
<1> DEFINE T == {n - m : m \in S}
<1>0. \A m \in S : m \in Int /\ 0 <= m /\ m <= n /\ n - m \in Nat
  OBVIOUS
<1>1. T \subseteq Nat /\ T # {}
  BY <1>0
<1>2. PICK t \in T : \A u \in T : t <= u
  <2> HIDE DEF T
  <2> QED
    BY <1>1, LeastNumber
<1>3. PICK g \in S : t = n - g
  OBVIOUS
<1>4. \A m \in S : m <= g
  <2> SUFFICES ASSUME NEW m \in S PROVE m <= g
    OBVIOUS
  <2>1. n - m \in T /\ m \in Int /\ g \in Int
    BY <1>0
  <2> HIDE DEF T
  <2> QED
    BY <1>2, <1>3, <2>1
<1>5. \E x \in S : \A y \in S : x >= y
  BY <1>4
<1>6. Max(S) \in S /\ \A y \in S : Max(S) >= y
  BY <1>5 DEF Max
<1> QED
  BY <1>6

\* The smaller of two numbers.
LEMMA LesserOfTwo ==
    ASSUME NEW a \in Int, NEW b \in Int
    PROVE  Min({a, b}) = IF a <= b THEN a ELSE b
<1>1. \E x \in {a, b} : \A y \in {a, b} : x <= y
  OBVIOUS
<1>2. Min({a, b}) \in {a, b} /\ \A y \in {a, b} : Min({a, b}) <= y
  BY <1>1 DEF Min
<1> QED
  BY <1>2

-----------------------------------------------------------------------------
(* The generation being built.                                              *)

SyncRows == [published : 0..MaxGenerations, building : 0..MaxGenerations, coreReady : BOOLEAN,
             offset : 0..MaxDexes, failures : Nat]
Generations == [records : [Sources -> Nat], errors : SUBSET (Sources \cup {PerpDexs}),
                resolved : SUBSET Sources]
ClaimRows == [phase : {"claimed"}, number : Nat, published : Nat]
HeldRows == [phase : {"fetching"}, number : Nat, building : 0..MaxGenerations,
             published : 0..MaxGenerations, coreReady : BOOLEAN, offset : 0..MaxDexes]
PageRows == [total : 0..MaxDexes, dexes : SUBSET (1..MaxDexes), listed : BOOLEAN,
             errors : SUBSET (Sources \cup {PerpDexs})]
StoreRows == [phase : {"fetched", "checked", "failed"}, lease : HeldRows, page : PageRows]
FailureRows == [phase : {"failed"}, lease : HeldRows]

CatalogTyped ==
    /\ store \in {"postgres", "d1"}
    /\ sync \in SyncRows
    /\ lease \in [owner : Processes \cup {Nobody}, number : Nat, expired : BOOLEAN]
    /\ rows \in [1..MaxGenerations -> Generations]
    /\ process \in [Processes -> {Asleep} \cup ClaimRows \cup HeldRows \cup StoreRows \cup FailureRows]
    /\ fetched \in [sources : SUBSET Sources, total : 0..MaxDexes]

\* What is built follows what is published.
BuildingFollows ==
    /\ sync.building # 0 => sync.building = sync.published + 1
    /\ sync.building = 0 => ~sync.coreReady /\ sync.offset = 0

\* D1 starts a generation empty: a source has no records before it is resolved.
UnresolvedEmpty(gen) ==
    store = "d1" => \A s \in Sources \ gen.resolved : gen.records[s] = 0

\* The sources a page is about.
SourcesOf(held, page) == IF held.coreReady THEN page.dexes ELSE Core

PageFits(held, page) ==
    page \in IF held.coreReady THEN BuilderPages(held.offset) ELSE CorePages

\* A process that still holds its lease knows the row as it is.
HeldFits(w, held) ==
    /\ held.number <= lease.number
    /\ held.building # 0
    /\ lease.owner = w /\ lease.number = held.number =>
          /\ held.building = sync.building /\ held.published = sync.published
          /\ held.coreReady = sync.coreReady /\ held.offset = sync.offset

ProcessFits(w) ==
    /\ process[w] \in ClaimRows => /\ process[w].number <= lease.number
                                   /\ process[w].published < MaxGenerations /\ store = "d1"
    /\ process[w] \in HeldRows => HeldFits(w, process[w])
    /\ process[w] \in StoreRows \cup FailureRows => HeldFits(w, process[w].lease)
    /\ process[w] \in StoreRows => PageFits(process[w].lease, process[w].page)

\* A generation g over an older one: the sources that are settled have the records
\* fetched for g, or else the older ones; and of those passed over without records
\* the error is kept.
GenerationFits(gen, old, g, sources, settled, passed) ==
    /\ sources \subseteq settled /\ passed \subseteq settled
    /\ \A s \in sources : gen.records[s] = g
    /\ \A s \in settled \ sources : gen.records[s] = old.records[s]
    /\ passed \ sources \subseteq gen.errors

\* Postgres copies every source at the start.
Settled(gen) == IF store = "postgres" THEN Sources ELSE gen.resolved

Passed == (IF sync.coreReady THEN Core ELSE {}) \cup 1..sync.offset

BuildingFits ==
    sync.building # 0 /\ sync.published # 0 =>
        GenerationFits(rows[sync.building], rows[sync.published], sync.building,
                       fetched.sources, Settled(rows[sync.building]), Passed)

CatalogInv ==
    /\ CatalogTyped /\ BuildingFollows /\ BuildingFits
    /\ \A g \in 1..MaxGenerations : UnresolvedEmpty(rows[g])
    /\ \A w \in Processes : ProcessFits(w)

\* What a step may do to the published generation and to the one being built.
StepAdvances ==
    /\ sync'.published >= sync.published
    /\ sync'.published = sync.published /\ sync.published # 0 => ReadPublished' = ReadPublished
    /\ sync'.building = sync.building => /\ sync.coreReady => sync'.coreReady
                                         /\ sync'.offset >= sync.offset
    /\ sync'.published # sync.published /\ sync.published # 0 =>
         LET before == rows[sync.published].records
             now == rows'[sync'.published]
         IN \A s \in Core \cup (1 .. fetched'.total) :
              IF s \in fetched'.sources THEN now.records[s] = sync'.published
              ELSE /\ now.records[s] = before[s]
                   /\ s \in now.errors \/ PerpDexs \in now.errors

-----------------------------------------------------------------------------
(* A page and its sources.                                                  *)

\* The sources as numbers, and the constants.
LEMMA SourceNumbers ==
    /\ MaxDexes \in Nat /\ MaxGenerations \in Nat /\ Nobody \notin Processes
    /\ Sources = {0, -1} \cup 1..MaxDexes /\ Core = {0, -1}
    /\ \A s \in Sources : s \in Int /\ s >= -1
    /\ PerpDexs = -2 /\ PerpDexs \notin Sources
BY CatalogAssumption DEF Sources, Core, Native, Spot, PerpDexs

\* What a page of the catalogue has.
LEMMA PageParts ==
    ASSUME NEW held \in HeldRows, NEW page, PageFits(held, page)
    PROVE  /\ page \in PageRows
           /\ page.errors \ {PerpDexs} \subseteq SourcesOf(held, page)
           /\ SourcesOf(held, page) \subseteq Sources
           /\ ~held.coreReady => page.listed
           /\ held.coreReady /\ page.listed =>
                 page.dexes = {d \in 1..page.total : d > held.offset /\ d <= held.offset + PageSize}
           /\ held.coreReady /\ ~page.listed => page.dexes = {} /\ PerpDexs \in page.errors
                                               /\ page.total = 0
<1>1. CASE ~held.coreReady
  <2>1. PICK e \in SUBSET {Spot} : page = [total |-> 0, dexes |-> {}, listed |-> TRUE, errors |-> e]
    BY <1>1 DEF PageFits, CorePages
  <2>2. e \subseteq Core /\ Core \subseteq Sources /\ 0 \in 0..MaxDexes
    BY SourceNumbers DEF Core, Sources
  <2> QED
    BY <1>1, <2>1, <2>2 DEF PageRows, SourcesOf
<1>2. CASE held.coreReady
  <2>1. \/ page = [total |-> 0, dexes |-> {}, listed |-> FALSE, errors |-> {PerpDexs}]
        \/ \E total \in 0..MaxDexes :
              LET dexes == {d \in 1..total : d > held.offset /\ d <= held.offset + PageSize}
              IN page \in {[total |-> total, dexes |-> dexes, listed |-> TRUE, errors |-> e] :
                             e \in SUBSET dexes}
    BY <1>2 DEF PageFits, BuilderPages
  <2>2. CASE page = [total |-> 0, dexes |-> {}, listed |-> FALSE, errors |-> {PerpDexs}]
    BY <1>2, <2>2, SourceNumbers DEF PageRows, SourcesOf
  <2>3. ASSUME NEW total \in 0..MaxDexes,
               LET dexes == {d \in 1..total : d > held.offset /\ d <= held.offset + PageSize}
               IN page \in {[total |-> total, dexes |-> dexes, listed |-> TRUE, errors |-> e] :
                              e \in SUBSET dexes}
        PROVE  /\ page \in PageRows
               /\ page.errors \subseteq page.dexes /\ page.dexes \subseteq Sources
               /\ page.listed
               /\ page.dexes = {d \in 1..page.total : d > held.offset /\ d <= held.offset + PageSize}
    <3> DEFINE dexes == {d \in 1..total : d > held.offset /\ d <= held.offset + PageSize}
    <3>1. PICK e \in SUBSET dexes :
             page = [total |-> total, dexes |-> dexes, listed |-> TRUE, errors |-> e]
      BY <2>3
    <3>2. dexes \subseteq 1..MaxDexes /\ dexes \subseteq Sources
      BY SourceNumbers
    <3>3. page.dexes = dexes /\ page.total = total /\ page.errors = e /\ page.listed
      BY <3>1
    <3>4. page \in PageRows
      <4> HIDE DEF dexes
      <4> QED
        BY <3>1, <3>2 DEF PageRows
    <3> QED
      BY <3>2, <3>3, <3>4
  <2> QED
    BY <1>2, <2>1, <2>2, <2>3 DEF SourcesOf
<1> QED
  BY <1>1, <1>2

\* What is stored of a page: what was fetched replaces the old records, what failed
\* keeps them (D1: takes them over once) and its error.
LEMMA PageStored ==
    ASSUME NEW gen \in Generations, NEW held \in HeldRows, NEW page, PageFits(held, page),
           CatalogTyped, held.building # 0, UnresolvedEmpty(gen),
           NEW done, done = SourcesOf(held, page), NEW next, next = Stored(gen, held, page)
    PROVE  /\ next \in Generations
           /\ \A s \in done \ page.errors : next.records[s] = held.building
           /\ gen.errors \ (done \cup {PerpDexs}) \subseteq next.errors
           /\ page.errors \subseteq next.errors
           /\ store = "postgres" =>
                 \A s \in Sources : s \notin done \ page.errors => next.records[s] = gen.records[s]
           /\ store = "d1" =>
                 /\ next.resolved = gen.resolved \cup done
                 /\ \A s \in gen.resolved : s \notin done \ page.errors => next.records[s] = gen.records[s]
                 /\ \A s \in (done \cap page.errors) \ gen.resolved :
                       held.published # 0 => next.records[s] = rows[held.published].records[s]
           /\ UnresolvedEmpty(next)
<1> DEFINE ok == done \ page.errors
           kept == page.errors \ {PerpDexs}
           cleared == IF held.coreReady /\ page.listed
                      THEN [gen EXCEPT !.errors = @ \ {PerpDexs}] ELSE gen
           replaced == ReplaceSourceRecords(cleared, held.building, ok)
           synchronized == SynchronizeSource(cleared, held.building, ok)
           retained == RetainSource(synchronized, held.published, kept)
<1>1. /\ page \in PageRows /\ kept \subseteq done /\ done \subseteq Sources /\ ok \subseteq Sources
      /\ ok \cup kept = done /\ ok \cap kept = {}
  BY PageParts, SourceNumbers
<1>2. /\ cleared \in Generations /\ cleared.records = gen.records /\ cleared.resolved = gen.resolved
      /\ gen.errors \ {PerpDexs} \subseteq cleared.errors
  BY DEF Generations
<1>3. next = UpsertSourceErrors(IF store = "postgres" THEN replaced ELSE retained, page.errors)
  BY DEF Stored, SourcesOf
<1>4. held.building \in Nat /\ page.errors \subseteq Sources \cup {PerpDexs}
  BY <1>1, SourceNumbers DEF HeldRows, PageRows
<1> HIDE DEF cleared
<1>5. /\ replaced \in Generations
      /\ replaced.resolved = cleared.resolved
      /\ replaced.errors = cleared.errors \ ok
      /\ \A s \in Sources : replaced.records[s] = IF s \in ok THEN held.building ELSE cleared.records[s]
  <2> HIDE DEF ok
  <2> QED
    BY <1>1, <1>2, <1>4 DEF ReplaceSourceRecords, Generations
<1> HIDE DEF replaced
<1>6. /\ synchronized \in Generations
      /\ synchronized.resolved = cleared.resolved \cup ok
      /\ synchronized.errors = replaced.errors /\ synchronized.records = replaced.records
  <2>1. synchronized = [replaced EXCEPT !.resolved = @ \cup ok]
    BY DEF SynchronizeSource, replaced
  <2> HIDE DEF ok, synchronized
  <2> QED
    BY <1>1, <1>5, <2>1 DEF Generations
<1> HIDE DEF synchronized
<1>7. /\ retained \in Generations
      /\ retained.resolved = synchronized.resolved \cup kept
      /\ retained.errors = synchronized.errors
      /\ \A s \in Sources : retained.records[s] =
            IF s \in kept \ synchronized.resolved /\ held.published # 0
            THEN rows[held.published].records[s] ELSE synchronized.records[s]
  <2>1. held.published \in 0..MaxGenerations /\ MaxGenerations \in Nat
    BY SourceNumbers DEF HeldRows
  <2>2. ASSUME NEW s \in Sources
        PROVE  (IF s \in kept \ synchronized.resolved /\ held.published # 0
                THEN rows[held.published].records[s] ELSE synchronized.records[s]) \in Nat
    <3>1. CASE held.published # 0
      BY <1>6, <2>1, <3>1 DEF CatalogTyped, Generations
    <3>2. CASE held.published = 0
      BY <1>6, <3>2 DEF Generations
    <3> QED
      BY <3>1, <3>2
  <2>3. kept \subseteq Sources
    BY <1>1
  <2> HIDE DEF kept
  <2> QED
    BY <1>6, <2>2, <2>3 DEF RetainSource, Generations
<1> HIDE DEF retained
<1>8. /\ next \in Generations
      /\ next.records = (IF store = "postgres" THEN replaced ELSE retained).records
      /\ next.resolved = (IF store = "postgres" THEN replaced ELSE retained).resolved
      /\ next.errors = (IF store = "postgres" THEN replaced ELSE retained).errors \cup page.errors
  <2> DEFINE base == IF store = "postgres" THEN replaced ELSE retained
  <2>1. base \in Generations
    BY <1>5, <1>7
  <2> HIDE DEF base
  <2>2. next = [base EXCEPT !.errors = @ \cup page.errors]
    BY <1>3 DEF UpsertSourceErrors, base
  <2>3. next \in Generations /\ next.records = base.records /\ next.resolved = base.resolved
        /\ next.errors = base.errors \cup page.errors
    BY <1>4, <2>1, <2>2 DEF Generations
  <2> QED
    BY <2>3 DEF base
<1>9. /\ \A s \in done \ page.errors : next.records[s] = held.building
      /\ gen.errors \ (done \cup {PerpDexs}) \subseteq next.errors
      /\ page.errors \subseteq next.errors
  <2>1. \A s \in ok : s \in Sources /\ s \notin kept
    BY <1>1
  <2>2. \A s \in ok : replaced.records[s] = held.building /\ retained.records[s] = held.building
    BY <1>5, <1>6, <1>7, <2>1
  <2>3. replaced.errors = cleared.errors \ ok /\ retained.errors = cleared.errors \ ok
    BY <1>5, <1>6, <1>7
  <2> QED
    BY <1>1, <1>2, <1>8, <2>2, <2>3
<1>10. ASSUME store = "postgres", NEW s \in Sources, s \notin ok
       PROVE  next.records[s] = gen.records[s]
  BY <1>2, <1>5, <1>8, <1>10
<1>11. ASSUME store = "d1"
       PROVE  /\ next.resolved = gen.resolved \cup done
              /\ \A s \in gen.resolved : s \notin ok => next.records[s] = gen.records[s]
              /\ \A s \in (done \cap page.errors) \ gen.resolved :
                    held.published # 0 => next.records[s] = rows[held.published].records[s]
              /\ \A s \in Sources \ next.resolved : next.records[s] = gen.records[s]
  <2>1. next.records = retained.records /\ next.resolved = retained.resolved
    BY <1>8, <1>11
  <2>2. next.resolved = gen.resolved \cup done
    BY <1>1, <1>2, <1>6, <1>7, <2>1
  <2>3. gen.resolved \subseteq Sources
    BY DEF Generations
  <2>4. ASSUME NEW s \in gen.resolved, s \notin ok
        PROVE  next.records[s] = gen.records[s]
    BY <1>2, <1>5, <1>6, <1>7, <2>1, <2>3, <2>4
  <2>5. ASSUME NEW s \in (done \cap page.errors) \ gen.resolved, held.published # 0
        PROVE  next.records[s] = rows[held.published].records[s]
    <3>1. s \in Sources /\ s \in kept /\ s \notin ok
      BY <1>1, SourceNumbers
    <3> QED
      BY <1>2, <1>6, <1>7, <2>1, <2>5, <3>1
  <2>6. ASSUME NEW s \in Sources \ next.resolved
        PROVE  next.records[s] = gen.records[s]
    <3>1. s \notin kept /\ s \notin ok
      BY <1>1, <2>2
    <3> QED
      BY <1>2, <1>5, <1>6, <1>7, <2>1, <3>1
  <2> QED
    BY <2>2, <2>4, <2>5, <2>6
<1>12. UnresolvedEmpty(next)
  <2> SUFFICES ASSUME store = "d1", NEW s \in Sources \ next.resolved PROVE next.records[s] = 0
    BY DEF UnresolvedEmpty
  <2>1. next.records[s] = gen.records[s] /\ s \in Sources \ gen.resolved
    BY <1>11
  <2> QED
    BY <2>1 DEF UnresolvedEmpty
<1> QED
  BY <1>8, <1>9, <1>10, <1>11, <1>12

\* A generation that fits does so with the page stored and its sources passed.
LEMMA GenerationGrows ==
    ASSUME NEW gen \in Generations, NEW held \in HeldRows, NEW page, PageFits(held, page),
           CatalogTyped, held.building # 0, held.published # 0, UnresolvedEmpty(gen),
           NEW sources \in SUBSET Sources, NEW passed,
           GenerationFits(gen, rows[held.published], held.building, sources, Settled(gen), passed),
           NEW done, done = SourcesOf(held, page), NEW next, next = Stored(gen, held, page)
    PROVE  GenerationFits(next, rows[held.published], held.building,
                          sources \cup (done \ page.errors), Settled(next), passed \cup done)
<1> DEFINE ok == done \ page.errors
           old == rows[held.published]
<1>1. /\ next \in Generations
      /\ \A s \in ok : next.records[s] = held.building
      /\ gen.errors \ (done \cup {PerpDexs}) \subseteq next.errors
      /\ page.errors \subseteq next.errors
      /\ store = "postgres" => \A s \in Sources : s \notin ok => next.records[s] = gen.records[s]
      /\ store = "d1" =>
            /\ next.resolved = gen.resolved \cup done
            /\ \A s \in gen.resolved : s \notin ok => next.records[s] = gen.records[s]
            /\ \A s \in (done \cap page.errors) \ gen.resolved : next.records[s] = old.records[s]
  BY PageStored
<1>2. done \subseteq Sources /\ PerpDexs \notin Sources /\ gen.resolved \subseteq Sources
  BY PageParts, SourceNumbers DEF Generations
<1>3. /\ sources \subseteq Settled(gen) /\ passed \subseteq Settled(gen)
      /\ \A s \in sources : gen.records[s] = held.building
      /\ \A s \in Settled(gen) \ sources : gen.records[s] = old.records[s]
      /\ passed \ sources \subseteq gen.errors
      /\ Settled(gen) \subseteq Sources
  BY <1>2 DEF GenerationFits, Settled
<1>4. /\ Settled(gen) \cup done \subseteq Settled(next)
      /\ \A s \in Settled(next) \ ok : \/ s \in Settled(gen) /\ next.records[s] = gen.records[s]
                                       \/ next.records[s] = old.records[s] /\ s \notin Settled(gen)
  <2>1. CASE store = "postgres"
    BY <1>1, <1>2, <2>1 DEF Settled
  <2>2. CASE store = "d1"
    BY <1>1, <1>2, <2>2 DEF Settled
  <2> QED
    BY <2>1, <2>2 DEF CatalogTyped
<1>5. \A s \in sources \cup ok : next.records[s] = held.building
  BY <1>1, <1>3, <1>4
<1>6. \A s \in Settled(next) \ (sources \cup ok) : next.records[s] = old.records[s]
  BY <1>3, <1>4
<1>7. (passed \cup done) \ (sources \cup ok) \subseteq next.errors
  <2> SUFFICES ASSUME NEW s \in passed \cup done, s \notin sources, s \notin ok
               PROVE  s \in next.errors
    OBVIOUS
  <2>1. CASE s \in done
    BY <1>1, <2>1
  <2>2. CASE s \in passed \ done
    BY <1>1, <1>2, <1>3, <2>2
  <2> QED
    BY <2>1, <2>2
<1> QED
  BY <1>3, <1>4, <1>5, <1>6, <1>7 DEF GenerationFits

\* Less need be passed.
LEMMA GenerationNarrows ==
    ASSUME NEW gen, NEW old, NEW g, NEW sources, NEW settled, NEW passed, NEW fewer,
           GenerationFits(gen, old, g, sources, settled, passed), fewer \subseteq passed
    PROVE  GenerationFits(gen, old, g, sources, settled, fewer)
BY DEF GenerationFits

\* A published generation g over an older one: for each source up to the total the
\* records fetched for g, or else the older ones and an error.
Follows(next, old, g, sources, total) ==
    \A s \in Core \cup 1..total :
       IF s \in sources THEN next.records[s] = g
       ELSE /\ next.records[s] = old.records[s]
            /\ s \in next.errors \/ PerpDexs \in next.errors

\* The page, the last one, with what was passed: the core and, when the dexes could
\* be listed, every listed one.
LastPage(page, gen, passed, total) ==
    /\ Core \subseteq passed
    /\ page.listed => total = page.total /\ 1..total \subseteq passed
    /\ ~page.listed => PerpDexs \in gen.errors

\* What is published of a generation that fits, whichever way it is cut or filled,
\* follows the older one.
LEMMA PublishableFits ==
    ASSUME NEW gen \in Generations, NEW held \in HeldRows, NEW page \in PageRows,
           CatalogTyped, held.building # 0, held.published # 0,
           UnresolvedEmpty(gen), UnresolvedEmpty(rows[held.published]),
           NEW sources \in SUBSET Sources, NEW passed, NEW total \in 0..MaxDexes,
           GenerationFits(gen, rows[held.published], held.building, sources, Settled(gen), passed),
           LastPage(page, gen, passed, total),
           NEW next, next = Publishable(gen, held, page)
    PROVE  Follows(next, rows[held.published], held.building, sources, total)
<1> DEFINE old == rows[held.published]
<1>0. /\ Core \subseteq passed
      /\ page.listed => total = page.total /\ 1..total \subseteq passed
      /\ ~page.listed => PerpDexs \in gen.errors
  BY DEF LastPage
<1> SUFFICES \A s \in Core \cup 1..total :
                IF s \in sources THEN next.records[s] = held.building
                ELSE /\ next.records[s] = old.records[s]
                     /\ s \in next.errors \/ PerpDexs \in next.errors
  BY DEF Follows
<1>1. /\ sources \subseteq Settled(gen) /\ passed \subseteq Settled(gen)
      /\ \A s \in sources : gen.records[s] = held.building
      /\ \A s \in Settled(gen) \ sources : gen.records[s] = old.records[s]
      /\ passed \ sources \subseteq gen.errors
  BY DEF GenerationFits
<1>2. Core \cup 1..total \subseteq Sources /\ \A s \in Core \cup 1..total : s \in Int /\ s <= total
  BY SourceNumbers
<1>3. old \in Generations
  <2>1. held.published \in 1..MaxGenerations
    BY SourceNumbers DEF HeldRows
  <2> QED
    BY <2>1 DEF CatalogTyped
<1>4. CASE store = "postgres"
  <2> DEFINE bound == IF ~page.listed /\ held.published # 0 THEN RetainedBuilderTotal(gen) ELSE page.total
  <2>1. /\ next.records = [s \in Sources |-> IF s > bound THEN 0 ELSE gen.records[s]]
        /\ next.errors = {s \in gen.errors : s <= bound}
    <3>1. next = [gen EXCEPT !.records = [s \in Sources |-> IF s > bound THEN 0 ELSE @[s]],
                             !.errors = {s \in @ : s <= bound}]
      BY <1>4 DEF Publishable
    <3> HIDE DEF bound
    <3> QED
      BY <3>1 DEF Generations
  <2>2. CASE page.listed
    <3>1. bound = total
      BY <1>0, <2>2
    <3> HIDE DEF bound
    <3> QED
      BY <1>0, <1>1, <1>2, <1>4, <2>1, <2>2, <3>1 DEF Settled
  <2>3. CASE ~page.listed
    <3> DEFINE S == {0} \cup {s \in 1..MaxDexes : gen.records[s] # 0 \/ s \in gen.errors}
    <3>1. bound = Max(S)
      BY <2>3 DEF RetainedBuilderTotal
    <3>2. Max(S) \in S /\ \A s \in S : s <= Max(S)
      <4>1. MaxDexes \in Nat /\ S \subseteq 0..MaxDexes /\ S # {}
        BY SourceNumbers
      <4> HIDE DEF S
      <4> QED
        BY <4>1, GreatestNumber
    <3>3. bound \in 0..MaxDexes /\ \A s \in 1..MaxDexes : s > bound => gen.records[s] = 0
      <4>1. \A s \in 1..MaxDexes : gen.records[s] # 0 => s \in S
        OBVIOUS
      <4>2. Max(S) \in 0..MaxDexes
        BY <3>2, SourceNumbers
      <4> HIDE DEF S, bound
      <4> QED
        BY <3>1, <3>2, <4>1, <4>2
    <3> HIDE DEF S, bound
    <3>4. \A s \in Sources : next.records[s] = gen.records[s]
      <4> SUFFICES ASSUME NEW s \in Sources, s > bound PROVE gen.records[s] = 0
        BY <2>1
      <4>1. s \in 1..MaxDexes
        BY <3>3, SourceNumbers
      <4> QED
        BY <3>3, <4>1
    <3>5. PerpDexs \in next.errors
      <4>1. PerpDexs <= bound
        BY <3>3, SourceNumbers
      <4> QED
        BY <1>0, <2>1, <2>3, <4>1
    <3> QED
      BY <1>0, <1>1, <1>2, <1>4, <3>4, <3>5 DEF Settled
  <2> QED
    BY <2>2, <2>3
<1>5. CASE store = "d1"
  <2>1. CASE page.listed
    <3>1. next = gen
      BY <1>5, <2>1 DEF Publishable
    <3> QED
      BY <1>0, <1>1, <1>5, <2>1, <3>1
  <2>2. CASE ~page.listed
    <3> DEFINE missing == {s \in old.resolved : s > 0} \ gen.resolved
               kept == RetainSource(gen, held.published, missing)
    <3>1. next = [kept EXCEPT !.errors = @ \cup (old.errors \cap missing)]
      BY <1>5, <2>2 DEF Publishable, RetainMissingBuilders
    <3>2. missing \subseteq Sources
      BY <1>3 DEF Generations
    <3>3. /\ kept.errors = gen.errors
          /\ \A s \in Sources : kept.records[s] =
                IF s \in missing \ gen.resolved THEN old.records[s] ELSE gen.records[s]
      <4> HIDE DEF missing
      <4> QED
        BY DEF RetainSource, Generations
    <3>4. next.records = kept.records /\ PerpDexs \in next.errors
      <4>1. kept \in [records : {kept.records}, errors : {kept.errors}, resolved : {kept.resolved}]
        <5> HIDE DEF missing
        <5> QED
          BY DEF RetainSource, Generations
      <4> HIDE DEF kept
      <4> QED
        BY <1>0, <2>2, <3>1, <3>3, <4>1
    <3>5. ASSUME NEW s \in Core \cup 1..total, s \notin sources
          PROVE  next.records[s] = old.records[s]
      <4>1. s \in Sources
        BY <1>2
      <4>2. CASE s \in gen.resolved
        BY <1>1, <1>5, <3>3, <3>4, <3>5, <4>1, <4>2 DEF Settled
      <4>3. CASE s \in missing
        BY <3>3, <3>4, <4>1, <4>3
      <4>4. CASE s \notin gen.resolved /\ s \notin old.resolved
        <5>1. gen.records[s] = 0 /\ old.records[s] = 0
          BY <1>5, <4>1, <4>4 DEF UnresolvedEmpty
        <5> QED
          BY <3>3, <3>4, <4>1, <4>4, <5>1
      <4>5. s \in Core => s \in gen.resolved
        BY <1>0, <1>1, <1>5 DEF Settled
      <4>6. s \notin Core => s > 0
        BY SourceNumbers
      <4> QED
        BY <4>2, <4>3, <4>4, <4>5, <4>6
    <3>6. ASSUME NEW s \in sources
          PROVE  next.records[s] = held.building
      <4>1. s \in gen.resolved /\ s \in Sources /\ s \notin missing
        BY <1>1, <1>5 DEF Settled
      <4> QED
        BY <1>1, <3>3, <3>4, <4>1
    <3> QED
      BY <3>4, <3>5, <3>6
  <2> QED
    BY <2>1, <2>2
<1> QED
  BY <1>4, <1>5 DEF CatalogTyped

\* What is published is a generation, of the same store.
LEMMA PublishableTyped ==
    ASSUME NEW gen \in Generations, NEW held \in HeldRows, NEW page \in PageRows,
           CatalogTyped, UnresolvedEmpty(gen), NEW next, next = Publishable(gen, held, page)
    PROVE  next \in Generations /\ UnresolvedEmpty(next)
<1>1. CASE store = "postgres"
  <2> DEFINE bound == IF ~page.listed /\ held.published # 0 THEN RetainedBuilderTotal(gen) ELSE page.total
  <2>1. next = [gen EXCEPT !.records = [s \in Sources |-> IF s > bound THEN 0 ELSE @[s]],
                           !.errors = {s \in @ : s <= bound}]
    BY <1>1 DEF Publishable
  <2> HIDE DEF bound
  <2>2. [s \in Sources |-> IF s > bound THEN 0 ELSE gen.records[s]] \in [Sources -> Nat]
    BY DEF Generations
  <2>3. {s \in gen.errors : s <= bound} \subseteq Sources \cup {PerpDexs}
    BY DEF Generations
  <2>4. next \in Generations
    BY <2>1, <2>2, <2>3 DEF Generations
  <2> QED
    BY <1>1, <2>4 DEF UnresolvedEmpty
<1>2. CASE store = "d1" /\ (page.listed \/ held.published = 0)
  BY <1>2 DEF Publishable, RetainMissingBuilders
<1>3. CASE store = "d1" /\ ~page.listed /\ held.published # 0
  <2> DEFINE old == rows[held.published]
             missing == {s \in old.resolved : s > 0} \ gen.resolved
             kept == RetainSource(gen, held.published, missing)
  <2>1. next = [kept EXCEPT !.errors = @ \cup (old.errors \cap missing)]
    BY <1>3 DEF Publishable, RetainMissingBuilders
  <2>2. old \in Generations
    <3>1. held.published \in 1..MaxGenerations
      BY <1>3, SourceNumbers DEF HeldRows
    <3> QED
      BY <3>1 DEF CatalogTyped
  <2>3. missing \subseteq Sources /\ old.errors \cap missing \subseteq Sources
    BY <2>2 DEF Generations
  <2>4. /\ kept \in Generations /\ kept.resolved = gen.resolved \cup missing
        /\ \A s \in Sources : kept.records[s] =
              IF s \in missing \ gen.resolved THEN old.records[s] ELSE gen.records[s]
    <3> HIDE DEF missing
    <3> QED
      BY <1>3, <2>2, <2>3 DEF RetainSource, Generations
  <2>5. /\ next \in Generations /\ next.records = kept.records /\ next.resolved = kept.resolved
    <3> HIDE DEF kept, missing, old
    <3> QED
      BY <2>1, <2>3, <2>4 DEF Generations
  <2> HIDE DEF kept, missing
  <2> QED
    BY <2>4, <2>5 DEF UnresolvedEmpty
<1> QED
  BY <1>1, <1>2, <1>3 DEF CatalogTyped

-----------------------------------------------------------------------------
(* The steps of the processes.                                              *)

\* One process moves; the lease is its own, free, or as it was.
LEMMA ProcessMoves ==
    ASSUME CatalogInv, NEW w \in Processes,
           NEW next \in {Asleep} \cup ClaimRows \cup HeldRows \cup StoreRows \cup FailureRows,
           process' = [process EXCEPT ![w] = next],
           lease' \in [owner : Processes \cup {Nobody}, number : Nat, expired : BOOLEAN],
           lease'.number >= lease.number,
           \A v \in Processes \ {w} : lease'.owner = v =>
              lease.owner = v /\ lease'.number = lease.number /\ sync' = sync,
           store' = store,
           next \in ClaimRows => /\ next.number <= lease'.number /\ store = "d1"
                                /\ next.published < MaxGenerations,
           next \in HeldRows => HeldFits(w, next)',
           next \in StoreRows \cup FailureRows => HeldFits(w, next.lease)',
           next \in StoreRows => PageFits(next.lease, next.page)
    PROVE  /\ process' \in [Processes -> {Asleep} \cup ClaimRows \cup HeldRows \cup StoreRows \cup FailureRows]
           /\ \A v \in Processes : ProcessFits(v)'
<1>1. /\ process \in [Processes -> {Asleep} \cup ClaimRows \cup HeldRows \cup StoreRows \cup FailureRows]
      /\ lease \in [owner : Processes \cup {Nobody}, number : Nat, expired : BOOLEAN]
      /\ sync \in SyncRows
  BY DEF CatalogInv, CatalogTyped
<1>2. process'[w] = next /\ \A v \in Processes \ {w} : process'[v] = process[v]
  BY <1>1
<1>3. \A held, page : PageFits(held, page)' <=> PageFits(held, page)
  BY DEF PageFits
<1>4. ProcessFits(w)'
  BY <1>2, <1>3 DEF ProcessFits, HeldFits, PageFits
<1>5. ASSUME NEW v \in Processes \ {w}
      PROVE  ProcessFits(v)'
  <2>1. ProcessFits(v)
    BY DEF CatalogInv
  <2>2. ASSUME NEW held \in HeldRows, HeldFits(v, held)
        PROVE  /\ held.number <= lease'.number /\ held.building # 0
               /\ lease'.owner = v /\ lease'.number = held.number =>
                    /\ held.building = sync'.building /\ held.published = sync'.published
                    /\ held.coreReady = sync'.coreReady /\ held.offset = sync'.offset
    BY <1>1, <2>2 DEF HeldFits, HeldRows
  <2>3. process'[v] \in StoreRows \cup FailureRows => process'[v].lease \in HeldRows
    BY DEF StoreRows, FailureRows
  <2>4. process'[v] \in ClaimRows => process'[v].number <= lease'.number
    BY <1>1, <1>2, <2>1 DEF ProcessFits, ClaimRows
  <2> QED
    BY <1>2, <2>1, <2>2, <2>3, <2>4 DEF ProcessFits, HeldFits, PageFits
<1> QED
  BY <1>1, <1>4, <1>5

\* A step that leaves the catalogue alone.
LEMMA CatalogKept ==
    ASSUME CatalogInv, UNCHANGED <<store, sync, rows, fetched>>,
           lease' \in [owner : Processes \cup {Nobody}, number : Nat, expired : BOOLEAN],
           process' \in [Processes -> {Asleep} \cup ClaimRows \cup HeldRows \cup StoreRows \cup FailureRows],
           \A v \in Processes : ProcessFits(v)'
    PROVE  CatalogInv' /\ StepAdvances
<1>1. CatalogTyped' /\ BuildingFollows'
  BY DEF CatalogInv, CatalogTyped, BuildingFollows
<1>2. BuildingFits'
  BY DEF CatalogInv, BuildingFits, GenerationFits, Settled, Passed
<1>3. \A g \in 1..MaxGenerations : UnresolvedEmpty(rows[g])'
  BY DEF CatalogInv, UnresolvedEmpty
<1>4. StepAdvances
  <2>1. sync.published \in Int /\ sync.offset \in Int
    BY SourceNumbers DEF CatalogInv, CatalogTyped, SyncRows
  <2> QED
    BY <2>1 DEF StepAdvances, ReadPublished
<1> QED
  BY <1>1, <1>2, <1>3, <1>4 DEF CatalogInv

\* Types of the row and the lease, and the numbers in them.
LEMMA CatalogNumbers ==
    ASSUME CatalogInv
    PROVE  /\ sync \in SyncRows /\ sync.published \in 0..MaxGenerations
           /\ sync.building \in 0..MaxGenerations /\ sync.offset \in 0..MaxDexes
           /\ sync.coreReady \in BOOLEAN
           /\ lease \in [owner : Processes \cup {Nobody}, number : Nat, expired : BOOLEAN]
           /\ lease.number \in Nat
           /\ MaxGenerations \in Nat /\ MaxDexes \in Nat
BY SourceNumbers DEF CatalogInv, CatalogTyped, SyncRows

\* A generation is started: nothing of it is fetched, and its sources are those of
\* the published one (Postgres) or none (D1).
LEMMA GenerationStarts ==
    ASSUME CatalogInv, sync.building = 0, sync.published < MaxGenerations,
           sync' = Started(sync), fetched' = NothingFetched, store' = store,
           rows' = [rows EXCEPT ![sync.published + 1] =
                      IF store = "postgres" THEN CopiedFromPublished(sync) ELSE NoRows]
    PROVE  /\ sync' \in SyncRows /\ sync'.building = sync.published + 1
           /\ sync'.published = sync.published /\ ~sync'.coreReady /\ sync'.offset = 0
           /\ rows' \in [1..MaxGenerations -> Generations]
           /\ fetched' \in [sources : SUBSET Sources, total : 0..MaxDexes]
           /\ BuildingFollows' /\ BuildingFits'
           /\ \A g \in 1..MaxGenerations : UnresolvedEmpty(rows[g])'
           /\ StepAdvances
<1> DEFINE g == sync.published + 1
           gen == IF store = "postgres" THEN CopiedFromPublished(sync) ELSE NoRows
<1>1. /\ sync'.building = g /\ sync'.published = sync.published /\ sync'.coreReady = FALSE
      /\ sync'.offset = 0 /\ sync' \in SyncRows /\ g \in 1..MaxGenerations
      /\ sync.published \in Nat
  <2>1. /\ sync.published \in 0..MaxGenerations /\ sync.published \in Nat
        /\ g \in 0..MaxGenerations /\ g \in 1..MaxGenerations /\ 0 \in 0..MaxDexes
    BY CatalogNumbers
  <2> HIDE DEF g
  <2>2. sync' = [published |-> sync.published, building |-> g, coreReady |-> FALSE,
                 offset |-> 0, failures |-> 0]
    BY DEF Started, Unbuilt, g
  <2>3. sync' \in SyncRows
    BY <2>1, <2>2 DEF SyncRows
  <2> QED
    BY <2>1, <2>2, <2>3
<1>2. NoRows \in Generations /\ NoRows.resolved = {} /\ \A s \in Sources : NoRows.records[s] = 0
  BY DEF NoRows, Generations
<1>3. gen \in Generations
  <2>1. sync.published # 0 => rows[sync.published] \in Generations
    BY <1>1, CatalogNumbers DEF CatalogInv, CatalogTyped
  <2> QED
    BY <1>2, <2>1 DEF CopiedFromPublished
<1>4. store = "postgres" /\ sync.published # 0 => gen = rows[sync.published]
  BY DEF CopiedFromPublished
<1>5. store = "d1" => gen = NoRows
  BY DEF CatalogInv, CatalogTyped
<1> HIDE DEF gen
<1>6. /\ rows' \in [1..MaxGenerations -> Generations] /\ rows'[g] = gen
      /\ \A h \in 1..MaxGenerations : h # g => rows'[h] = rows[h]
  <2>1. rows' = [rows EXCEPT ![g] = gen]
    BY DEF gen
  <2> QED
    BY <1>1, <1>3, <2>1 DEF CatalogInv, CatalogTyped
<1>7. fetched' \in [sources : SUBSET Sources, total : 0..MaxDexes] /\ fetched'.sources = {}
  BY CatalogNumbers DEF NothingFetched
<1>8. BuildingFollows'
  BY <1>1 DEF BuildingFollows
<1>9. ASSUME sync.published # 0
      PROVE  GenerationFits(gen, rows[sync.published], g, {}, Settled(gen), {})
  <2>1. CASE store = "postgres"
    BY <1>4, <1>9, <2>1 DEF GenerationFits
  <2>2. CASE store = "d1"
    BY <1>2, <1>5, <2>2 DEF GenerationFits, Settled
  <2> QED
    BY <2>1, <2>2 DEF CatalogInv, CatalogTyped
<1>10. BuildingFits'
  <2> SUFFICES ASSUME sync.published # 0
               PROVE  GenerationFits(rows'[sync'.building], rows'[sync'.published], sync'.building,
                                     fetched'.sources, Settled(rows[sync.building])', Passed')
    BY <1>1 DEF BuildingFits, GenerationFits
  <2>1. Passed' = {}
    BY <1>1 DEF Passed
  <2>2. Settled(rows[sync.building])' = Settled(gen)
    BY <1>1, <1>6 DEF Settled
  <2>3. rows'[sync'.published] = rows[sync.published]
    BY <1>1, <1>6, CatalogNumbers
  <2> QED
    BY <1>1, <1>6, <1>7, <1>9, <2>1, <2>2, <2>3
<1>11. \A h \in 1..MaxGenerations : UnresolvedEmpty(rows[h])'
  BY <1>2, <1>5, <1>6 DEF UnresolvedEmpty, CatalogInv
<1>12. StepAdvances
  <2>1. sync.published # 0 => rows'[sync'.published] = rows[sync.published]
    BY <1>1, <1>6, CatalogNumbers
  <2>2. ReadPublished' = [records |-> rows'[sync'.published].records,
                          errors |-> rows'[sync'.published].errors]
    BY DEF ReadPublished
  <2> QED
    BY <1>1, <2>1, <2>2 DEF StepAdvances, ReadPublished
<1> QED
  BY <1>1, <1>6, <1>7, <1>8, <1>10, <1>11, <1>12

\* What a process keeps of the row it claimed.
LEMMA LeaseTaken ==
    ASSUME NEW row \in SyncRows, NEW number \in Nat, NEW held, held = LeaseFromRow(row, number)
    PROVE  /\ held \in HeldRows
           /\ held.number = number /\ held.building = row.building
           /\ held.published = row.published /\ held.coreReady = row.coreReady
           /\ held.offset = row.offset
BY DEF LeaseFromRow, HeldRows, SyncRows

\* A process of one kind is of no other.
LEMMA ProcessKinds ==
    /\ \A x \in ClaimRows : x \notin HeldRows \cup StoreRows \cup FailureRows \cup {Asleep}
    /\ \A x \in HeldRows : x \notin ClaimRows \cup StoreRows \cup FailureRows \cup {Asleep}
    /\ \A x \in StoreRows \cup FailureRows : x \notin ClaimRows \cup HeldRows \cup {Asleep}
    /\ Asleep \notin ClaimRows \cup HeldRows \cup StoreRows \cup FailureRows
BY DEF ClaimRows, HeldRows, StoreRows, FailureRows, Asleep

\* A process claims the synchronisation.
LEMMA ClaimKeeps ==
    ASSUME CatalogInv, NEW w \in Processes, ClaimDueSync(w)
    PROVE  CatalogInv' /\ StepAdvances
<1>0. PICK number : number = lease.number + 1
  OBVIOUS
<1>1. /\ lease' = [owner |-> w, number |-> number, expired |-> FALSE]
      /\ sync.published < MaxGenerations /\ store' = store
  BY <1>0 DEF ClaimDueSync
<1>2. number \in Nat /\ number >= lease.number
  BY <1>0, CatalogNumbers
<1>3. /\ lease' \in [owner : Processes \cup {Nobody}, number : Nat, expired : BOOLEAN]
      /\ lease'.owner = w /\ lease'.number = number
  BY <1>1, <1>2
<1>4. /\ lease'.number >= lease.number
      /\ \A v \in Processes \ {w} : lease'.owner # v
  BY <1>2, <1>3
<1>5. CASE sync.building = 0 /\ store = "d1"
  <2>1. PICK claim : claim = [phase |-> "claimed", number |-> number, published |-> sync.published]
    OBVIOUS
  <2>2. process' = [process EXCEPT ![w] = claim] /\ UNCHANGED <<store, sync, rows, fetched>>
    BY <1>0, <1>5, <2>1 DEF ClaimDueSync
  <2>3. claim \in ClaimRows /\ claim.number = number /\ claim.published = sync.published
    <3>1. sync.published \in Nat
      BY CatalogNumbers
    <3> QED
      BY <1>2, <2>1, <3>1 DEF ClaimRows
  <2>4. /\ claim \in {Asleep} \cup ClaimRows \cup HeldRows \cup StoreRows \cup FailureRows
        /\ claim \notin HeldRows \cup StoreRows \cup FailureRows
    BY <2>3, ProcessKinds
  <2>5. claim.number <= lease'.number /\ claim.published < MaxGenerations
    BY <1>1, <1>2, <1>3, <2>3
  <2>6. /\ process' \in [Processes -> {Asleep} \cup ClaimRows \cup HeldRows \cup StoreRows \cup FailureRows]
        /\ \A v \in Processes : ProcessFits(v)'
    BY <1>1, <1>3, <1>4, <1>5, <2>2, <2>4, <2>5, ProcessMoves
  <2> QED
    BY <1>3, <2>2, <2>6, CatalogKept
<1>6. CASE ~(sync.building = 0 /\ store = "d1")
  <2>1. PICK row : row = IF sync.building = 0 THEN Started(sync) ELSE sync
    OBVIOUS
  <2>2. PICK held : held = LeaseFromRow(row, number)
    OBVIOUS
  <2>3. /\ sync' = row /\ process' = [process EXCEPT ![w] = held]
        /\ rows' = IF sync.building = 0
                   THEN [rows EXCEPT ![row.building] = CopiedFromPublished(sync)] ELSE rows
        /\ fetched' = IF sync.building = 0 THEN NothingFetched ELSE fetched
    BY <1>0, <1>6, <2>1, <2>2 DEF ClaimDueSync
  <2>4. ASSUME sync' \in SyncRows, sync'.building # 0
        PROVE  /\ process' \in [Processes -> {Asleep} \cup ClaimRows \cup HeldRows \cup StoreRows \cup FailureRows]
               /\ \A v \in Processes : ProcessFits(v)'
    <3>1. /\ held \in HeldRows /\ held.number = number /\ held.building = sync'.building
          /\ held.published = sync'.published /\ held.coreReady = sync'.coreReady
          /\ held.offset = sync'.offset
      BY <1>2, <2>2, <2>3, <2>4, LeaseTaken
    <3>2. HeldFits(w, held)'
      BY <1>2, <1>3, <2>4, <3>1 DEF HeldFits
    <3>3. /\ held \in {Asleep} \cup ClaimRows \cup HeldRows \cup StoreRows \cup FailureRows
          /\ held \notin ClaimRows \cup StoreRows \cup FailureRows
      BY <3>1, ProcessKinds
    <3> QED
      BY <1>1, <1>3, <1>4, <2>3, <3>2, <3>3, ProcessMoves
  <2>5. CASE sync.building = 0
    <3>1. store = "postgres"
      BY <1>6, <2>5 DEF CatalogInv, CatalogTyped
    <3>2. sync' = Started(sync) /\ fetched' = NothingFetched
      BY <2>1, <2>3, <2>5
    <3>3. Started(sync).building = sync.published + 1
      BY DEF Started, Unbuilt
    <3>4. rows' = [rows EXCEPT ![sync.published + 1] =
                     IF store = "postgres" THEN CopiedFromPublished(sync) ELSE NoRows]
      BY <2>1, <2>3, <2>5, <3>1, <3>3
    <3>5. /\ sync' \in SyncRows /\ sync'.building = sync.published + 1
          /\ rows' \in [1..MaxGenerations -> Generations]
          /\ fetched' \in [sources : SUBSET Sources, total : 0..MaxDexes]
          /\ BuildingFollows' /\ BuildingFits'
          /\ \A g \in 1..MaxGenerations : UnresolvedEmpty(rows[g])'
          /\ StepAdvances
      BY <1>1, <2>5, <3>2, <3>4, GenerationStarts
    <3>6. sync'.building # 0
      BY <3>5, CatalogNumbers
    <3> QED
      BY <1>1, <1>3, <2>4, <3>5, <3>6 DEF CatalogInv, CatalogTyped
  <2>6. CASE sync.building # 0
    <3>1. UNCHANGED <<store, sync, rows, fetched>>
      BY <1>1, <2>1, <2>3, <2>6
    <3> QED
      BY <1>3, <2>4, <2>6, <3>1, CatalogKept, CatalogNumbers
  <2> QED
    BY <2>5, <2>6
<1> QED
  BY <1>5, <1>6

\* What each kind of process has, of a process that fits.
LEMMA ProcessParts ==
    ASSUME CatalogInv, NEW w \in Processes
    PROVE  /\ process[w] \in {Asleep} \cup ClaimRows \cup HeldRows \cup StoreRows \cup FailureRows
           /\ process[w].phase = "claimed" =>
                 /\ process[w] \in ClaimRows /\ process[w].number <= lease.number
                 /\ process[w].published < MaxGenerations /\ store = "d1"
           /\ process[w].phase = "fetching" => process[w] \in HeldRows /\ HeldFits(w, process[w])
           /\ process[w].phase \in {"fetched", "checked"} =>
                 /\ process[w] \in StoreRows /\ HeldFits(w, process[w].lease)
                 /\ PageFits(process[w].lease, process[w].page)
           /\ process[w].phase = "failed" =>
                 process[w] \in StoreRows \cup FailureRows /\ HeldFits(w, process[w].lease)
<1>1. process[w] \in {Asleep} \cup ClaimRows \cup HeldRows \cup StoreRows \cup FailureRows
  BY DEF CatalogInv, CatalogTyped
<1>2. ProcessFits(w)
  BY DEF CatalogInv
<1>3. /\ process[w].phase = "claimed" => process[w] \in ClaimRows
      /\ process[w].phase = "fetching" => process[w] \in HeldRows
      /\ process[w].phase \in {"fetched", "checked"} => process[w] \in StoreRows
      /\ process[w].phase = "failed" => process[w] \in StoreRows \cup FailureRows
  BY <1>1 DEF Asleep, ClaimRows, HeldRows, StoreRows, FailureRows
<1> QED
  BY <1>1, <1>2, <1>3 DEF ProcessFits

\* A step of one process that leaves the catalogue and its lease alone.
LEMMA ProcessKeeps ==
    ASSUME CatalogInv, NEW w \in Processes, UNCHANGED <<store, sync, lease, rows, fetched>>,
           NEW next, process' = [process EXCEPT ![w] = next],
           \/ next = Asleep
           \/ next \in HeldRows /\ HeldFits(w, next)
           \/ next \in StoreRows /\ HeldFits(w, next.lease) /\ PageFits(next.lease, next.page)
           \/ next \in FailureRows /\ HeldFits(w, next.lease)
    PROVE  CatalogInv' /\ StepAdvances
<1>1. /\ lease' \in [owner : Processes \cup {Nobody}, number : Nat, expired : BOOLEAN]
      /\ lease'.number >= lease.number
      /\ \A v \in Processes \ {w} : lease'.owner = v =>
            lease.owner = v /\ lease'.number = lease.number /\ sync' = sync
  BY CatalogNumbers
<1>2. \A held : HeldFits(w, held)' <=> HeldFits(w, held)
  BY DEF HeldFits
<1>3. /\ next \in {Asleep} \cup ClaimRows \cup HeldRows \cup StoreRows \cup FailureRows
      /\ next \notin ClaimRows
      /\ next \in HeldRows => HeldFits(w, next)
      /\ next \in StoreRows \cup FailureRows => HeldFits(w, next.lease)
      /\ next \in StoreRows => PageFits(next.lease, next.page)
  <2>1. \A x \in FailureRows : x \notin StoreRows
    BY DEF StoreRows, FailureRows
  <2> QED
    BY <2>1, ProcessKinds
<1>4. /\ next \in HeldRows => HeldFits(w, next)'
      /\ next \in StoreRows \cup FailureRows => HeldFits(w, next.lease)'
  BY <1>3 DEF HeldFits
<1>5. /\ process' \in [Processes -> {Asleep} \cup ClaimRows \cup HeldRows \cup StoreRows \cup FailureRows]
      /\ \A v \in Processes : ProcessFits(v)'
  BY <1>1, <1>3, <1>4, ProcessMoves
<1> QED
  BY <1>1, <1>5, CatalogKept

\* D1 starts the generation that was claimed.
LEMMA StartGenerationKeeps ==
    ASSUME CatalogInv, NEW w \in Processes, StartGeneration(w)
    PROVE  CatalogInv' /\ StepAdvances
<1>1. PICK claim : claim = process[w]
  OBVIOUS
<1>2. /\ claim.phase = "claimed" /\ claim \in ClaimRows /\ claim.number <= lease.number
      /\ claim.published < MaxGenerations /\ claim.number \in Nat /\ store = "d1"
  BY <1>1, ProcessParts DEF StartGeneration, ClaimRows
<1>3. UNCHANGED <<store, lease>>
  BY DEF StartGeneration
<1>4. CASE /\ lease.owner = w /\ lease.number = claim.number
           /\ sync.published = claim.published /\ sync.building = 0
  <2>1. PICK held : held = LeaseFromRow(sync', claim.number)
    OBVIOUS
  <2>2. /\ sync' = Started(sync) /\ fetched' = NothingFetched
        /\ rows' = [rows EXCEPT ![sync.published + 1] = NoRows]
        /\ process' = [process EXCEPT ![w] = held]
    BY <1>1, <1>4, <2>1 DEF StartGeneration
  <2>3. CASE store = "d1"
    <3>1. rows' = [rows EXCEPT ![sync.published + 1] =
                     IF store = "postgres" THEN CopiedFromPublished(sync) ELSE NoRows]
      BY <2>2, <2>3
    <3>2. /\ sync' \in SyncRows /\ sync'.building = sync.published + 1
          /\ rows' \in [1..MaxGenerations -> Generations]
          /\ fetched' \in [sources : SUBSET Sources, total : 0..MaxDexes]
          /\ BuildingFollows' /\ BuildingFits'
          /\ \A g \in 1..MaxGenerations : UnresolvedEmpty(rows[g])'
          /\ StepAdvances
      BY <1>2, <1>3, <1>4, <2>2, <3>1, GenerationStarts
    <3>3. /\ held \in HeldRows /\ held.number = claim.number /\ held.building = sync'.building
          /\ held.published = sync'.published /\ held.coreReady = sync'.coreReady
          /\ held.offset = sync'.offset
      BY <1>2, <2>1, <3>2, LeaseTaken
    <3>4. sync'.building # 0
      BY <3>2, CatalogNumbers
    <3>5. HeldFits(w, held)'
      BY <1>2, <1>3, <1>4, <3>3, <3>4 DEF HeldFits
    <3>6. /\ held \in {Asleep} \cup ClaimRows \cup HeldRows \cup StoreRows \cup FailureRows
          /\ held \notin ClaimRows \cup StoreRows \cup FailureRows
      BY <3>3, ProcessKinds
    <3>7. /\ lease' \in [owner : Processes \cup {Nobody}, number : Nat, expired : BOOLEAN]
          /\ lease'.number >= lease.number /\ \A v \in Processes \ {w} : lease'.owner # v
      BY <1>3, <1>4, CatalogNumbers
    <3>8. /\ process' \in [Processes -> {Asleep} \cup ClaimRows \cup HeldRows \cup StoreRows \cup FailureRows]
          /\ \A v \in Processes : ProcessFits(v)'
      BY <1>3, <2>2, <3>5, <3>6, <3>7, ProcessMoves
    <3> QED
      BY <1>3, <2>3, <3>2, <3>7, <3>8 DEF CatalogInv, CatalogTyped
  <2> QED
    BY <1>2, <2>3
<1>5. CASE ~(/\ lease.owner = w /\ lease.number = claim.number
             /\ sync.published = claim.published /\ sync.building = 0)
  BY <1>1, <1>3, <1>5, ProcessKeeps DEF StartGeneration
<1> QED
  BY <1>4, <1>5

\* A process fetches a page.
LEMMA FetchKeeps ==
    ASSUME CatalogInv, NEW w \in Processes, Fetch(w)
    PROVE  CatalogInv' /\ StepAdvances
<1>1. PICK held : held = process[w]
  OBVIOUS
<1>2. held \in HeldRows /\ HeldFits(w, held)
  BY <1>1, ProcessParts DEF Fetch
<1>3. PICK page \in IF held.coreReady THEN BuilderPages(held.offset) ELSE CorePages :
         process' = [process EXCEPT ![w] = [phase |-> "fetched", lease |-> held, page |-> page]]
  BY <1>1 DEF Fetch
<1>4. PageFits(held, page) /\ page \in PageRows
  BY <1>2, <1>3, PageParts DEF PageFits
<1>5. PICK next : next = [phase |-> "fetched", lease |-> held, page |-> page]
  OBVIOUS
<1>6. next \in StoreRows /\ next.lease = held /\ next.page = page
  BY <1>2, <1>4, <1>5 DEF StoreRows
<1> QED
  BY <1>2, <1>3, <1>4, <1>5, <1>6, ProcessKeeps DEF Fetch

\* A process checks its lease.
LEMMA LockLeaseKeeps ==
    ASSUME CatalogInv, NEW w \in Processes, LockLease(w)
    PROVE  CatalogInv' /\ StepAdvances
<1>1. PICK old : old = process[w]
  OBVIOUS
<1>2. old \in StoreRows /\ HeldFits(w, old.lease) /\ PageFits(old.lease, old.page)
  BY <1>1, ProcessParts DEF LockLease
<1>3. PICK phase \in {"checked", "failed"} : process' = [process EXCEPT ![w].phase = phase]
  BY DEF LockLease
<1>4. PICK next : next = [old EXCEPT !.phase = phase]
  OBVIOUS
<1>5. next \in StoreRows /\ next.lease = old.lease /\ next.page = old.page
  BY <1>2, <1>4 DEF StoreRows
<1>6. process' = [process EXCEPT ![w] = next]
  BY <1>1, <1>3, <1>4
<1> QED
  BY <1>2, <1>5, <1>6, ProcessKeeps DEF LockLease

\* The fetch or the transaction throws.
LEMMA ThrowsKeeps ==
    ASSUME CatalogInv, NEW w \in Processes, Throws(w)
    PROVE  CatalogInv' /\ StepAdvances
<1>1. PICK held : held = IF process[w].phase = "fetching" THEN process[w] ELSE process[w].lease
  OBVIOUS
<1>2. held \in HeldRows /\ HeldFits(w, held)
  BY <1>1, ProcessParts DEF Throws, StoreRows
<1>3. PICK next : next = [phase |-> "failed", lease |-> held]
  OBVIOUS
<1>4. next \in FailureRows /\ next.lease = held
  BY <1>2, <1>3 DEF FailureRows
<1>5. process' = [process EXCEPT ![w] = next]
  BY <1>1, <1>3 DEF Throws
<1> QED
  BY <1>2, <1>4, <1>5, ProcessKeeps DEF Throws

\* A process that failed gives its lease back.
LEMMA RecordFailureKeeps ==
    ASSUME CatalogInv, NEW w \in Processes, RecordFailure(w)
    PROVE  CatalogInv' /\ StepAdvances
<1>1. /\ process' = [process EXCEPT ![w] = Asleep] /\ UNCHANGED <<store, sync, rows, fetched>>
      /\ \/ lease' = lease
         \/ lease' = [lease EXCEPT !.owner = Nobody, !.expired = FALSE]
  BY DEF RecordFailure
<1>2. /\ lease' \in [owner : Processes \cup {Nobody}, number : Nat, expired : BOOLEAN]
      /\ lease'.number = lease.number /\ lease'.number >= lease.number
      /\ lease'.owner = lease.owner \/ lease'.owner = Nobody
  <2>1. lease \in [owner : Processes \cup {Nobody}, number : Nat, expired : BOOLEAN]
    BY CatalogNumbers
  <2>2. CASE lease' = lease
    BY <2>1, <2>2, CatalogNumbers
  <2>3. CASE lease' = [lease EXCEPT !.owner = Nobody, !.expired = FALSE]
    <3>1. lease' = [owner |-> Nobody, number |-> lease.number, expired |-> FALSE]
      BY <2>1, <2>3
    <3> QED
      BY <3>1, CatalogNumbers
  <2> QED
    BY <1>1, <2>2, <2>3
<1>3. \A v \in Processes \ {w} : lease'.owner = v =>
         lease.owner = v /\ lease'.number = lease.number /\ sync' = sync
  BY <1>1, <1>2, SourceNumbers
<1>4. /\ process' \in [Processes -> {Asleep} \cup ClaimRows \cup HeldRows \cup StoreRows \cup FailureRows]
      /\ \A v \in Processes : ProcessFits(v)'
  BY <1>1, <1>2, <1>3, ProcessMoves, ProcessKinds
<1> QED
  BY <1>1, <1>2, <1>4, CatalogKept

\* A process dies.
LEMMA ProcessDiesKeeps ==
    ASSUME CatalogInv, NEW w \in Processes, ProcessDies(w)
    PROVE  CatalogInv' /\ StepAdvances
BY ProcessKeeps DEF ProcessDies

\* A lease runs out.
LEMMA LeaseExpiresKeeps ==
    ASSUME CatalogInv, LeaseExpires
    PROVE  CatalogInv' /\ StepAdvances
<1>1. /\ UNCHANGED <<store, sync, rows, process, fetched>>
      /\ lease' = [lease EXCEPT !.expired = TRUE]
  BY DEF LeaseExpires
<1>2. /\ lease' \in [owner : Processes \cup {Nobody}, number : Nat, expired : BOOLEAN]
      /\ lease'.number = lease.number /\ lease'.owner = lease.owner
  BY <1>1, CatalogNumbers
<1>3. process' \in [Processes -> {Asleep} \cup ClaimRows \cup HeldRows \cup StoreRows \cup FailureRows]
  BY <1>1 DEF CatalogInv, CatalogTyped
<1>4. \A v \in Processes : ProcessFits(v)'
  BY <1>1, <1>2 DEF CatalogInv, ProcessFits, HeldFits, PageFits
<1> QED
  BY <1>1, <1>2, <1>3, <1>4, CatalogKept

-----------------------------------------------------------------------------
(* A page is written.                                                       *)

\* An empty generation is a generation of either store.
LEMMA NoRowsFit ==
    NoRows \in Generations /\ UnresolvedEmpty(NoRows)
BY DEF NoRows, Generations, UnresolvedEmpty

\* How far a page of builder dexes reaches: up to where the next one starts, or to
\* the end of the list.
LEMMA PageReaches ==
    ASSUME NEW held \in HeldRows, NEW page, PageFits(held, page), held.coreReady,
           NEW next, next = Min({page.total, held.offset + Cardinality(page.dexes)})
    PROVE  /\ next \in 0..MaxDexes
           /\ next < page.total => /\ next >= held.offset
                                   /\ 1..next \subseteq 1..held.offset \cup page.dexes
           /\ page.listed /\ ~(next < page.total) =>
                 1..page.total \subseteq 1..held.offset \cup page.dexes
<1>1. PICK total, offset : total = page.total /\ offset = held.offset
  OBVIOUS
<1>2. total \in 0..MaxDexes /\ offset \in 0..MaxDexes /\ MaxDexes \in Nat /\ PageSize \in Nat \ {0}
  BY <1>1, PageParts, CatalogAssumption DEF PageRows, HeldRows
<1>3. CASE ~page.listed
  <2>1. page.dexes = {} /\ total = 0
    BY <1>1, <1>3, PageParts
  <2>2. Cardinality(page.dexes) = 0
    BY <2>1, FS_EmptySet
  <2>3. next = 0
    BY <1>1, <1>2, <2>1, <2>2, LesserOfTwo
  <2> QED
    BY <1>1, <1>2, <1>3, <2>1, <2>3
<1>4. CASE page.listed /\ offset >= total
  <2>1. page.dexes = {d \in 1..total : d > offset /\ d <= offset + PageSize}
    BY <1>1, <1>4, PageParts
  <2>2. page.dexes = {}
    BY <1>2, <1>4, <2>1
  <2>3. Cardinality(page.dexes) = 0
    BY <2>2, FS_EmptySet
  <2>4. next = total
    BY <1>1, <1>2, <1>4, <2>3, LesserOfTwo
  <2> QED
    BY <1>1, <1>2, <1>4, <2>4
<1>5. CASE page.listed /\ offset < total
  <2>1. page.dexes = {d \in 1..total : d > offset /\ d <= offset + PageSize}
    BY <1>1, <1>5, PageParts
  <2>2. PICK last : last = IF total <= offset + PageSize THEN total ELSE offset + PageSize
    OBVIOUS
  <2>3. last \in Nat /\ last <= total /\ last > offset
    BY <1>2, <1>5, <2>2
  <2>4. page.dexes = (offset + 1)..last
    BY <1>2, <2>1, <2>2, <2>3
  <2>5. Cardinality(page.dexes) = last - offset
    <3>1. offset + 1 \in Int /\ last \in Int /\ ~(offset + 1 > last)
      BY <1>2, <2>3
    <3>2. Cardinality((offset + 1)..last) = last - (offset + 1) + 1
      BY <3>1, FS_Interval
    <3> QED
      BY <1>2, <2>3, <2>4, <3>2
  <2>6. next = last
    <3>1. offset + Cardinality(page.dexes) = last
      BY <1>2, <2>3, <2>5
    <3>2. total \in Int /\ last \in Int
      BY <1>2, <2>3
    <3>3. next = Min({total, last})
      BY <1>1, <3>1
    <3> QED
      BY <2>3, <3>2, <3>3, LesserOfTwo
  <2>7. 1..last \subseteq 1..offset \cup page.dexes
    BY <1>2, <2>3, <2>4
  <2>8. next \in 0..MaxDexes /\ next >= offset
    BY <1>2, <2>3, <2>6
  <2>9. ~(next < total) => next = total
    BY <1>2, <2>3, <2>6
  <2> QED
    BY <1>1, <2>6, <2>7, <2>8, <2>9
<1> QED
  BY <1>2, <1>3, <1>4, <1>5

\* The generation as it is written, over the published one.
WrittenFits(next, passed) ==
    sync.published # 0 =>
        GenerationFits(next, rows[sync.published], sync.building, fetched'.sources,
                       Settled(next), passed)

\* How far the row says the generation is.
Reached(ready, offset) == (IF ready THEN Core ELSE {}) \cup 1..offset

\* The generation being built is written, and the row says how far it is.
LEMMA ClaimedUpdated ==
    ASSUME CatalogInv, NEW held \in HeldRows, held.building = sync.building, sync.building # 0,
           NEW next \in Generations, UnresolvedEmpty(next),
           NEW ready \in BOOLEAN, NEW offset \in 0..MaxDexes, NEW failures \in Nat,
           UpdateClaimedState(held, next, ready, offset, failures), store' = store,
           sync.coreReady => ready, offset >= sync.offset,
           fetched' \in [sources : SUBSET Sources, total : 0..MaxDexes], NEW passed,
           WrittenFits(next, passed), Reached(ready, offset) \subseteq passed
    PROVE  /\ sync' \in SyncRows /\ rows' \in [1..MaxGenerations -> Generations]
           /\ BuildingFollows' /\ BuildingFits'
           /\ \A g \in 1..MaxGenerations : UnresolvedEmpty(rows[g])'
           /\ StepAdvances
<1>1. /\ sync' \in SyncRows /\ sync'.published = sync.published /\ sync'.building = sync.building
      /\ sync'.coreReady = ready /\ sync'.offset = offset
  BY CatalogNumbers DEF UpdateClaimedState, SyncRows
<1>2. sync.building = sync.published + 1 /\ sync.building \in 1..MaxGenerations
      /\ sync.published \in Nat /\ sync.published # sync.building
  BY CatalogNumbers DEF CatalogInv, BuildingFollows
<1>3. /\ rows' \in [1..MaxGenerations -> Generations] /\ rows'[sync.building] = next
      /\ \A g \in 1..MaxGenerations : g # sync.building => rows'[g] = rows[g]
  BY <1>2 DEF UpdateClaimedState, CatalogInv, CatalogTyped
<1>4. sync.published # 0 => rows'[sync.published] = rows[sync.published]
  BY <1>2, <1>3, CatalogNumbers
<1>5. BuildingFollows'
  BY <1>1, <1>2 DEF BuildingFollows
<1>6. BuildingFits'
  <2> SUFFICES ASSUME sync.published # 0
               PROVE  GenerationFits(next, rows[sync.published], sync.building, fetched'.sources,
                                     Settled(next), Passed')
    BY <1>1, <1>3, <1>4 DEF BuildingFits, GenerationFits, Settled
  <2>1. Passed' \subseteq passed
    BY <1>1 DEF Passed, Reached
  <2> QED
    BY <2>1, GenerationNarrows DEF WrittenFits
<1>7. \A g \in 1..MaxGenerations : UnresolvedEmpty(rows[g])'
  BY <1>3 DEF UnresolvedEmpty, CatalogInv
<1>8. StepAdvances
  BY <1>1, <1>2, <1>4 DEF StepAdvances, ReadPublished
<1> QED
  BY <1>1, <1>3, <1>5, <1>6, <1>7, <1>8

\* The generation that was built is published.
LEMMA GenerationPublished ==
    ASSUME CatalogInv, NEW held \in HeldRows, held.building = sync.building, sync.building # 0,
           NEW next \in Generations, UnresolvedEmpty(next),
           PublishGeneration(held, next), store' = store,
           sync.published # 0 =>
              Follows(next, rows[sync.published], sync.building, fetched'.sources, fetched'.total)
    PROVE  /\ sync' \in SyncRows /\ rows' \in [1..MaxGenerations -> Generations]
           /\ BuildingFollows' /\ BuildingFits'
           /\ \A g \in 1..MaxGenerations : UnresolvedEmpty(rows[g])'
           /\ StepAdvances
<1>1. /\ sync.building = sync.published + 1 /\ sync.building \in 1..MaxGenerations
      /\ sync.published \in Nat /\ sync.building > sync.published
  BY CatalogNumbers DEF CatalogInv, BuildingFollows
<1>2. /\ sync' = [published |-> sync.building, building |-> 0, coreReady |-> FALSE,
                  offset |-> 0, failures |-> 0]
  BY DEF PublishGeneration, Unbuilt
<1>3. /\ sync'.published = sync.building /\ sync'.building = 0 /\ ~sync'.coreReady
      /\ sync'.offset = 0
  BY <1>2
<1>4. sync' \in SyncRows
  <2>1. sync.building \in 0..MaxGenerations /\ 0 \in 0..MaxGenerations /\ 0 \in 0..MaxDexes
    BY CatalogNumbers
  <2> QED
    BY <1>2, <2>1 DEF SyncRows
<1>5. rows \in [1..MaxGenerations -> Generations]
  BY DEF CatalogInv, CatalogTyped
<1>6. /\ rows' \in [1..MaxGenerations -> Generations] /\ rows'[sync.building] = next
      /\ \A g \in 1..MaxGenerations : rows'[g] \in {next, NoRows, rows[g]}
  BY <1>1, <1>5, NoRowsFit DEF PublishGeneration
<1>7. BuildingFollows' /\ BuildingFits'
  BY <1>3 DEF BuildingFollows, BuildingFits
<1>8. \A g \in 1..MaxGenerations : UnresolvedEmpty(rows[g])'
  <2> SUFFICES ASSUME NEW g \in 1..MaxGenerations PROVE UnresolvedEmpty(rows[g])'
    OBVIOUS
  <2>1. \A gen : UnresolvedEmpty(gen) => (store' = "d1" =>
           \A s \in Sources \ gen.resolved : gen.records[s] = 0)
    BY DEF UnresolvedEmpty
  <2>2. UnresolvedEmpty(rows[g])
    BY DEF CatalogInv
  <2> QED
    BY <1>6, <2>1, <2>2, NoRowsFit DEF UnresolvedEmpty
<1>9. StepAdvances
  BY <1>1, <1>3, <1>6 DEF StepAdvances, Follows
<1> QED
  BY <1>4, <1>6, <1>7, <1>8, <1>9

\* A process that holds the lease writes its page.
LEMMA PageWritten ==
    ASSUME CatalogInv, NEW w \in Processes, Complete(w), NEW held, held = process[w].lease,
           LeaseHeld(w, held)
    PROVE  /\ sync' \in SyncRows /\ rows' \in [1..MaxGenerations -> Generations]
           /\ fetched' \in [sources : SUBSET Sources, total : 0..MaxDexes]
           /\ BuildingFollows' /\ BuildingFits'
           /\ \A g \in 1..MaxGenerations : UnresolvedEmpty(rows[g])'
           /\ StepAdvances
<1>1. PICK page : page = process[w].page
  OBVIOUS
<1>2. /\ held \in HeldRows /\ HeldFits(w, held) /\ PageFits(held, page) /\ page \in PageRows
  BY <1>1, ProcessParts, PageParts DEF Complete, StoreRows
<1>3. /\ held.building # 0 /\ held.building = sync.building /\ held.published = sync.published
      /\ held.coreReady = sync.coreReady /\ held.offset = sync.offset
  BY <1>2 DEF HeldFits, LeaseHeld
<1>4. /\ \/ held.coreReady /\ CompleteBuilderPage(held, page)
         \/ ~held.coreReady /\ CompleteCore(held, page)
      /\ fetched' = [sources |-> fetched.sources \cup
                       ((IF held.coreReady THEN page.dexes ELSE Core) \ page.errors),
                     total |-> IF held.coreReady /\ page.listed THEN page.total
                               ELSE fetched.total]
      /\ store' = store
  BY <1>1 DEF Complete
<1>5. PICK gen, done, next :
         /\ gen = rows[held.building] /\ done = SourcesOf(held, page)
         /\ next = Stored(gen, held, page)
  OBVIOUS
<1>6. gen \in Generations /\ UnresolvedEmpty(gen)
  <2>1. held.building \in 1..MaxGenerations
    BY <1>3, CatalogNumbers
  <2> QED
    BY <1>5, <2>1 DEF CatalogInv, CatalogTyped
<1>7. next \in Generations /\ UnresolvedEmpty(next) /\ page.errors \subseteq next.errors
  BY <1>2, <1>3, <1>5, <1>6, PageStored DEF CatalogInv
<1>8. done \subseteq Sources /\ fetched \in [sources : SUBSET Sources, total : 0..MaxDexes]
  BY <1>2, <1>5, PageParts DEF CatalogInv, CatalogTyped
<1>9. PICK sources, total : /\ sources = fetched.sources \cup (done \ page.errors)
                            /\ total = IF held.coreReady /\ page.listed THEN page.total
                                       ELSE fetched.total
  OBVIOUS
<1>10. /\ fetched' = [sources |-> sources, total |-> total]
       /\ sources \in SUBSET Sources /\ total \in 0..MaxDexes
  BY <1>2, <1>4, <1>5, <1>8, <1>9 DEF SourcesOf, PageRows
<1>11. /\ fetched' \in [sources : SUBSET Sources, total : 0..MaxDexes]
       /\ fetched'.sources = sources /\ fetched'.total = total
  BY <1>10
<1>12. PICK passed : passed = Passed \cup done
  OBVIOUS
<1>13. ASSUME sync.published # 0
       PROVE  GenerationFits(next, rows[sync.published], sync.building, sources,
                             Settled(next), passed)
  <2>1. GenerationFits(gen, rows[held.published], held.building, fetched.sources,
                       Settled(gen), Passed)
    BY <1>3, <1>5, <1>13 DEF CatalogInv, BuildingFits
  <2>2. fetched.sources \in SUBSET Sources
    BY <1>8
  <2>3. GenerationFits(next, rows[held.published], held.building,
                       fetched.sources \cup (done \ page.errors), Settled(next), Passed \cup done)
    BY <1>2, <1>3, <1>5, <1>6, <1>13, <2>1, <2>2, GenerationGrows DEF CatalogInv
  <2> QED
    BY <1>3, <1>9, <1>12, <2>3
<1>14. /\ held.building = sync.building /\ sync.building # 0 /\ store' = store
       /\ fetched' \in [sources : SUBSET Sources, total : 0..MaxDexes]
       /\ WrittenFits(next, passed)
  BY <1>3, <1>4, <1>11, <1>13 DEF WrittenFits
<1>15. ASSUME NEW ready \in BOOLEAN, NEW offset \in 0..MaxDexes, NEW failures \in Nat,
              UpdateClaimedState(held, next, ready, offset, failures),
              sync.coreReady => ready, offset >= sync.offset,
              Reached(ready, offset) \subseteq passed
       PROVE  /\ sync' \in SyncRows /\ rows' \in [1..MaxGenerations -> Generations]
              /\ BuildingFollows' /\ BuildingFits'
              /\ \A g \in 1..MaxGenerations : UnresolvedEmpty(rows[g])'
              /\ StepAdvances
  BY <1>2, <1>7, <1>15, <1>14, ClaimedUpdated
<1>16. /\ sync.failures \in Nat /\ sync.failures + 1 \in Nat /\ sync.offset \in 0..MaxDexes
       /\ sync.offset >= sync.offset /\ sync.coreReady \in BOOLEAN /\ 0 \in Nat
  BY CatalogNumbers DEF SyncRows
<1>17. ASSUME ~held.coreReady, CompleteCore(held, page)
       PROVE  /\ sync' \in SyncRows /\ rows' \in [1..MaxGenerations -> Generations]
              /\ BuildingFollows' /\ BuildingFits'
              /\ \A g \in 1..MaxGenerations : UnresolvedEmpty(rows[g])'
              /\ StepAdvances
  <2>1. PICK ready \in BOOLEAN, failures \in Nat :
           UpdateClaimedState(held, next, ready, sync.offset, failures)
    BY <1>3, <1>5, <1>16, <1>17 DEF CompleteCore, Advances
  <2>2. Reached(ready, sync.offset) \subseteq passed
    BY <1>5, <1>12, <1>17 DEF SourcesOf, Passed, Reached
  <2> QED
    BY <1>3, <1>15, <1>16, <1>17, <2>1, <2>2
<1>18. ASSUME held.coreReady, CompleteBuilderPage(held, page)
       PROVE  /\ sync' \in SyncRows /\ rows' \in [1..MaxGenerations -> Generations]
              /\ BuildingFollows' /\ BuildingFits'
              /\ \A g \in 1..MaxGenerations : UnresolvedEmpty(rows[g])'
              /\ StepAdvances
  <2>1. PICK reached : reached = Min({page.total, held.offset + Cardinality(page.dexes)})
    OBVIOUS
  <2>2. /\ reached \in 0..MaxDexes
        /\ reached < page.total => /\ reached >= held.offset
                                   /\ 1..reached \subseteq 1..held.offset \cup page.dexes
        /\ page.listed /\ ~(reached < page.total) =>
              1..page.total \subseteq 1..held.offset \cup page.dexes
    BY <1>2, <1>18, <2>1, PageReaches
  <2>3. passed = Core \cup 1..held.offset \cup page.dexes /\ done = page.dexes
    BY <1>3, <1>5, <1>12, <1>18 DEF SourcesOf, Passed
  <2>4. CASE ~Advances(page)
    <3>1. UpdateClaimedState(held, next, TRUE, sync.offset, sync.failures + 1)
      BY <1>3, <1>5, <1>18, <2>4 DEF CompleteBuilderPage
    <3>2. Reached(TRUE, sync.offset) \subseteq passed
      BY <1>3, <2>3 DEF Reached
    <3> QED
      BY <1>15, <1>16, <3>1, <3>2
  <2>5. CASE Advances(page) /\ reached < page.total
    <3>1. UpdateClaimedState(held, next, TRUE, reached, 0)
      BY <1>5, <1>18, <2>1, <2>5 DEF CompleteBuilderPage
    <3>2. reached >= sync.offset /\ Reached(TRUE, reached) \subseteq passed
      BY <1>3, <2>2, <2>3, <2>5 DEF Reached
    <3> QED
      BY <1>15, <1>16, <2>2, <3>1, <3>2
  <2>6. CASE Advances(page) /\ ~(reached < page.total)
    <3>1. PICK published : published = Publishable(next, held, page)
      OBVIOUS
    <3>2. PublishGeneration(held, published)
      BY <1>5, <1>18, <2>1, <2>6, <3>1 DEF CompleteBuilderPage
    <3>3. published \in Generations /\ UnresolvedEmpty(published)
      BY <1>2, <1>7, <3>1, PublishableTyped DEF CatalogInv
    <3>4. ASSUME sync.published # 0
          PROVE  Follows(published, rows[sync.published], sync.building, fetched'.sources, fetched'.total)
      <4>1. UnresolvedEmpty(rows[held.published])
        <5>1. held.published \in 1..MaxGenerations
          BY <1>3, <3>4, CatalogNumbers
        <5> QED
          BY <5>1 DEF CatalogInv
      <4>2. GenerationFits(next, rows[held.published], held.building, sources, Settled(next), passed)
        BY <1>3, <1>13, <3>4
      <4>3. LastPage(page, next, passed, total)
        <5>1. Core \subseteq passed
          BY <2>3
        <5>2. page.listed => total = page.total /\ 1..total \subseteq passed
          BY <1>9, <1>18, <2>2, <2>3, <2>6
        <5>3. ~page.listed => PerpDexs \in next.errors
          BY <1>2, <1>7, <1>18, PageParts
        <5> QED
          BY <5>1, <5>2, <5>3 DEF LastPage
      <4>4. held.published # 0 /\ held.building # 0 /\ CatalogTyped
        BY <1>3, <3>4 DEF CatalogInv
      <4>5. Follows(published, rows[held.published], held.building, sources, total)
        BY <1>2, <1>7, <1>10, <3>1, <4>1, <4>2, <4>3, <4>4, PublishableFits
      <4> QED
        BY <1>3, <1>11, <4>5
    <3> QED
      BY <1>2, <1>3, <1>4, <3>2, <3>3, <3>4, GenerationPublished
  <2> QED
    BY <2>4, <2>5, <2>6
<1> QED
  BY <1>4, <1>11, <1>17, <1>18

\* A process completes its claim.
LEMMA CompleteKeeps ==
    ASSUME CatalogInv, NEW w \in Processes, Complete(w)
    PROVE  CatalogInv' /\ StepAdvances
<1>1. PICK old : old = process[w]
  OBVIOUS
<1>2. old \in StoreRows /\ HeldFits(w, old.lease) /\ PageFits(old.lease, old.page)
  BY <1>1, ProcessParts DEF Complete
<1>3. CASE LeaseHeld(w, old.lease)
  <2>1. /\ sync' \in SyncRows /\ rows' \in [1..MaxGenerations -> Generations]
        /\ fetched' \in [sources : SUBSET Sources, total : 0..MaxDexes]
        /\ BuildingFollows' /\ BuildingFits'
        /\ \A g \in 1..MaxGenerations : UnresolvedEmpty(rows[g])'
        /\ StepAdvances
    BY <1>1, <1>3, PageWritten
  <2>2. /\ lease' = [lease EXCEPT !.owner = Nobody, !.expired = FALSE]
        /\ process' = [process EXCEPT ![w] = Asleep] /\ store' = store
    BY <1>1, <1>3 DEF Complete
  <2>3. lease' = [owner |-> Nobody, number |-> lease.number, expired |-> FALSE]
    BY <2>2, CatalogNumbers
  <2>4. /\ lease' \in [owner : Processes \cup {Nobody}, number : Nat, expired : BOOLEAN]
        /\ lease'.number >= lease.number /\ \A v \in Processes \ {w} : lease'.owner # v
    BY <2>3, CatalogNumbers, SourceNumbers
  <2>5. /\ process' \in [Processes -> {Asleep} \cup ClaimRows \cup HeldRows \cup StoreRows \cup FailureRows]
        /\ \A v \in Processes : ProcessFits(v)'
    BY <2>2, <2>4, ProcessMoves, ProcessKinds
  <2> QED
    BY <2>1, <2>2, <2>4, <2>5 DEF CatalogInv, CatalogTyped
<1>4. CASE ~LeaseHeld(w, old.lease)
  <2>1. PICK next : next = [old EXCEPT !.phase = "failed"]
    OBVIOUS
  <2>2. /\ process' = [process EXCEPT ![w] = next]
        /\ UNCHANGED <<store, sync, lease, rows, fetched>>
    BY <1>1, <1>4, <2>1 DEF Complete
  <2>3. next \in StoreRows /\ next.lease = old.lease /\ next.page = old.page
    BY <1>2, <2>1 DEF StoreRows
  <2> QED
    BY <1>2, <2>2, <2>3, ProcessKeeps
<1> QED
  BY <1>3, <1>4

-----------------------------------------------------------------------------
(* The catalogue only advances.                                             *)

\* Nothing is published at first.
LEMMA CatalogStarts ==
    CatalogInit => CatalogInv
<1> SUFFICES ASSUME CatalogInit PROVE CatalogInv
  OBVIOUS
<1>1. sync = Unbuilt(0) /\ sync.building = 0 /\ ~sync.coreReady /\ sync.offset = 0
  BY DEF CatalogInit, Unbuilt
<1>2. sync \in SyncRows
  BY <1>1, SourceNumbers DEF Unbuilt, SyncRows
<1>3. /\ lease \in [owner : Processes \cup {Nobody}, number : Nat, expired : BOOLEAN]
      /\ rows \in [1..MaxGenerations -> Generations]
      /\ \A g \in 1..MaxGenerations : UnresolvedEmpty(rows[g])
  BY NoRowsFit DEF CatalogInit, FreeLease
<1>4. process \in [Processes -> {Asleep} \cup ClaimRows \cup HeldRows \cup StoreRows \cup FailureRows]
  BY DEF CatalogInit
<1>5. \A w \in Processes : ProcessFits(w)
  BY ProcessKinds DEF CatalogInit, ProcessFits
<1>6. fetched \in [sources : SUBSET Sources, total : 0..MaxDexes]
  BY SourceNumbers DEF CatalogInit, NothingFetched
<1>7. BuildingFollows /\ BuildingFits
  BY <1>1 DEF BuildingFollows, BuildingFits
<1> QED
  BY <1>2, <1>3, <1>4, <1>5, <1>6, <1>7 DEF CatalogInv, CatalogTyped, CatalogInit

\* Every step keeps the invariant and advances.
LEMMA CatalogStep ==
    CatalogInv /\ [CatalogNext]_catalogVars => CatalogInv' /\ [StepAdvances]_catalogVars
<1> SUFFICES ASSUME CatalogInv, [CatalogNext]_catalogVars
             PROVE  CatalogInv' /\ [StepAdvances]_catalogVars
  OBVIOUS
<1>1. ASSUME NEW w \in Processes, ClaimDueSync(w)
      PROVE  CatalogInv' /\ StepAdvances
  BY <1>1, ClaimKeeps
<1>2. ASSUME NEW w \in Processes, StartGeneration(w)
      PROVE  CatalogInv' /\ StepAdvances
  BY <1>2, StartGenerationKeeps
<1>3. ASSUME NEW w \in Processes, Fetch(w) \/ LockLease(w)
      PROVE  CatalogInv' /\ StepAdvances
  BY <1>3, FetchKeeps, LockLeaseKeeps
<1>4. ASSUME NEW w \in Processes, Complete(w)
      PROVE  CatalogInv' /\ StepAdvances
  BY <1>4, CompleteKeeps
<1>5. ASSUME NEW w \in Processes, Throws(w) \/ RecordFailure(w) \/ ProcessDies(w)
      PROVE  CatalogInv' /\ StepAdvances
  BY <1>5, ThrowsKeeps, RecordFailureKeeps, ProcessDiesKeeps
<1>6. ASSUME LeaseExpires
      PROVE  CatalogInv' /\ StepAdvances
  BY <1>6, LeaseExpiresKeeps
<1>7. ASSUME UNCHANGED catalogVars
      PROVE  CatalogInv' /\ [StepAdvances]_catalogVars
  <2>1. UNCHANGED <<store, sync, lease, rows, process, fetched>>
    BY <1>7 DEF catalogVars
  <2>2. \A v \in Processes : ProcessFits(v)'
    BY <2>1 DEF CatalogInv, ProcessFits, HeldFits, PageFits
  <2>3. /\ lease' \in [owner : Processes \cup {Nobody}, number : Nat, expired : BOOLEAN]
        /\ process' \in [Processes -> {Asleep} \cup ClaimRows \cup HeldRows \cup StoreRows \cup FailureRows]
    BY <2>1 DEF CatalogInv, CatalogTyped
  <2>4. CatalogInv'
    BY <2>1, <2>2, <2>3, CatalogKept
  <2> QED
    BY <1>7, <2>4
<1> QED
  BY <1>1, <1>2, <1>3, <1>4, <1>5, <1>6, <1>7 DEF CatalogNext

\* What clients were given under a generation number never changes, a generation being
\* built never falls behind, and a published one has for every listed source what was
\* fetched while it was built or else what the one before it had, with an error
\* (readPublished and complete of both stores).
THEOREM CatalogAdvances ==
    CatalogSpec => CatalogOnlyAdvances
<1>1. CatalogInit => CatalogInv
  BY CatalogStarts
<1>2. CatalogInv /\ [CatalogNext]_catalogVars => CatalogInv' /\ [StepAdvances]_catalogVars
  BY CatalogStep
<1>3. CatalogSpec => [][StepAdvances]_catalogVars
  BY <1>1, <1>2, PTL DEF CatalogSpec
<1>4. [StepAdvances]_catalogVars =>
         [/\ sync'.published >= sync.published
          /\ sync'.published = sync.published /\ sync.published # 0
               => ReadPublished' = ReadPublished
          /\ sync'.building = sync.building
               => /\ sync.coreReady => sync'.coreReady
                  /\ sync'.offset >= sync.offset
          /\ sync'.published # sync.published /\ sync.published # 0 =>
               LET before == rows[sync.published].records
                   now == rows'[sync'.published]
               IN \A s \in Core \cup (1 .. fetched'.total) :
                    IF s \in fetched'.sources THEN now.records[s] = sync'.published
                    ELSE /\ now.records[s] = before[s]
                         /\ s \in now.errors \/ PerpDexs \in now.errors]_catalogVars
  BY Zenon DEF StepAdvances
<1> QED
  BY <1>3, <1>4, PTL DEF CatalogOnlyAdvances

-----------------------------------------------------------------------------
(* A session and its server.                                                *)

Operations == [method : {"subscribe", "unsubscribe"}, subscription : Subscriptions]
Deliveries == [channel : {"ack", "data"}, subscription : Subscriptions]

\* Where the messages of some kind stand on a wire.
Places(wire, kinds) == {i \in 1 .. Len(wire) : wire[i] \in kinds}

Asked(s) == Places(toServer, {m \in Operations : m.subscription = s})
Acked(s) == Places(toClient, {[channel |-> "ack", subscription |-> s]})

SessionTyped ==
    /\ listeners \in [Subscriptions -> SUBSET Listeners]
    /\ pending \in [Subscriptions -> Nat]
    /\ inflight \in Nat /\ ended \in BOOLEAN
    /\ toServer \in Seq(Operations) /\ toClient \in Seq(Deliveries)
    /\ served \subseteq Subscriptions

\* Every operation reserved is one that waits for its acknowledgement.
Reserved == IsFiniteSet(Outstanding) /\ inflight = Cardinality(Outstanding)

\* The operations that wait are those on their way and the acknowledgements on theirs.
Waited ==
    \A s \in Subscriptions : pending[s] = Cardinality(Asked(s)) + Cardinality(Acked(s))

\* What the last operation under way makes of a subscription, or else what the server
\* has, is what the listeners want.
WillServe ==
    \A s \in Subscriptions :
       /\ Asked(s) = {} => (s \in served <=> listeners[s] # {})
       /\ \A i \in Asked(s) : (\A j \in Asked(s) : j <= i) =>
             (toServer[i].method = "subscribe" <=> listeners[s] # {})

\* Nobody listens to a session that has ended.
NobodyHeard == ended => \A s \in Subscriptions : listeners[s] = {}

SessionInv == SessionTyped /\ Reserved /\ NobodyHeard /\ (~ended => Waited /\ WillServe)

\* Places on a wire are finitely many.
LEMMA PlacesFinite ==
    ASSUME NEW S, NEW wire \in Seq(S), NEW kinds
    PROVE  /\ IsFiniteSet(Places(wire, kinds)) /\ Cardinality(Places(wire, kinds)) \in Nat
           /\ Places(wire, kinds) \subseteq 1 .. Len(wire)
<1>1. IsFiniteSet(1 .. Len(wire))
  BY FS_Interval
<1>2. Places(wire, kinds) \subseteq 1 .. Len(wire)
  BY DEF Places
<1>. QED BY <1>1, <1>2, FS_Subset, FS_CardinalityType

\* A message that is sent stands at the end.
LEMMA PlacesAppend ==
    ASSUME NEW S, NEW wire \in Seq(S), NEW m \in S, NEW kinds
    PROVE  LET sent == Append(wire, m)
               added == IF m \in kinds THEN {Len(wire) + 1} ELSE {}
           IN  /\ Places(sent, kinds) = Places(wire, kinds) \cup added
               /\ Cardinality(Places(sent, kinds))
                    = Cardinality(Places(wire, kinds)) + (IF m \in kinds THEN 1 ELSE 0)
<1>. DEFINE sent == Append(wire, m)
            added == IF m \in kinds THEN {Len(wire) + 1} ELSE {}
<1>1. Len(sent) = Len(wire) + 1 /\ Len(wire) \in Nat
  OBVIOUS
<1>2. \A i \in 1 .. Len(wire) : sent[i] = wire[i]
  OBVIOUS
<1>3. sent[Len(wire) + 1] = m
  OBVIOUS
<1>4. Places(sent, kinds) = Places(wire, kinds) \cup added
  <2>. HIDE DEF sent
  <2>1. \A i : i \in 1 .. Len(sent) <=> i \in 1 .. Len(wire) \/ i = Len(wire) + 1
    BY <1>1
  <2>. QED BY <1>1, <1>2, <1>3, <2>1 DEF Places
<1>5. Len(wire) + 1 \notin Places(wire, kinds)
  BY <1>1 DEF Places
<1>6. CASE m \in kinds
  <2>1. Places(sent, kinds) = Places(wire, kinds) \cup {Len(wire) + 1}
    BY <1>4, <1>6
  <2>. QED BY <1>4, <1>5, <1>6, <2>1, PlacesFinite, FS_AddElement
<1>7. CASE m \notin kinds
  BY <1>4, <1>7, PlacesFinite
<1>. QED BY <1>6, <1>7

\* When the first message is taken the others stand one place nearer.
LEMMA PlacesTail ==
    ASSUME NEW S, NEW wire \in Seq(S), wire # <<>>, NEW kinds
    PROVE  /\ \A i : i \in Places(Tail(wire), kinds) <=> i \in Nat \ {0} /\ i + 1 \in Places(wire, kinds)
           /\ \A i \in 1 .. Len(wire) - 1 : Tail(wire)[i] = wire[i + 1]
           /\ Cardinality(Places(wire, kinds))
                = Cardinality(Places(Tail(wire), kinds)) + (IF Head(wire) \in kinds THEN 1 ELSE 0)
<1>. DEFINE left == Places(Tail(wire), kinds)
            rest == Places(wire, kinds) \ {1}
            move == [i \in left |-> i + 1]
<1>1. /\ Tail(wire) \in Seq(S) /\ Len(wire) \in Nat \ {0} /\ Len(Tail(wire)) = Len(wire) - 1
      /\ \A i \in 1 .. Len(wire) - 1 : Tail(wire)[i] = wire[i + 1]
  OBVIOUS
<1>2. \A i : i \in left <=> i \in Nat \ {0} /\ i + 1 \in Places(wire, kinds)
  BY <1>1 DEF Places
<1>3. left \subseteq Nat \ {0} /\ rest \subseteq Nat /\ \A n \in rest : n - 1 \in left /\ n - 1 + 1 = n
  <2>1. rest \subseteq 2 .. Len(wire)
    BY <1>1 DEF Places
  <2>2. \A n \in rest : n - 1 \in Nat \ {0} /\ n - 1 + 1 = n
    BY <1>1, <2>1
  <2>. QED BY <1>1, <1>2, <2>1, <2>2
<1>4. move \in [left -> rest]
  BY <1>2, <1>3
<1>5. move \in Bijection(left, rest)
  <2>. HIDE DEF left, rest
  <2>1. \A i, j \in left : move[i] = move[j] => i = j
    BY <1>3
  <2>2. \A n \in rest : \E i \in left : move[i] = n
    BY <1>3
  <2>. QED BY <1>4, <2>1, <2>2 DEF Bijection, Injection, Surjection, IsInjective
<1>6. IsFiniteSet(left) /\ Cardinality(left) \in Nat
  BY <1>1, PlacesFinite
<1>7. IsFiniteSet(rest) /\ Cardinality(rest) = Cardinality(left)
  <2>1. ExistsBijection(left, rest)
    BY <1>5 DEF ExistsBijection
  <2>. HIDE DEF left, rest
  <2>. QED BY <1>6, <2>1, FS_Bijection
<1>8. IsFiniteSet(Places(wire, kinds)) /\ Cardinality(Places(wire, kinds)) \in Nat
  BY PlacesFinite
<1>9. 1 \in Places(wire, kinds) <=> Head(wire) \in kinds
  BY <1>1 DEF Places
<1>10. Cardinality(rest) = Cardinality(Places(wire, kinds)) - (IF Head(wire) \in kinds THEN 1 ELSE 0)
  <2>. DEFINE all == Places(wire, kinds)
  <2>1. rest = all \ {1} /\ IsFiniteSet(all)
    BY <1>8
  <2>. HIDE DEF all, rest
  <2>2. Cardinality(rest) = IF 1 \in all THEN Cardinality(all) - 1 ELSE Cardinality(all)
    BY <2>1, FS_RemoveElement
  <2>. QED BY <1>8, <1>9, <2>2 DEF all
<1>. QED BY <1>1, <1>2, <1>6, <1>7, <1>8, <1>10

\* The session starts with nothing under way.
LEMMA SessionInvInit == SessionInit => SessionInv
<1>. SUFFICES ASSUME SessionInit PROVE SessionInv
  OBVIOUS
<1>. USE DEF SessionInit
<1>1. SessionTyped
  <2>1. toServer \in Seq(Operations) /\ toClient \in Seq(Deliveries)
    OBVIOUS
  <2>2. listeners \in [Subscriptions -> SUBSET Listeners] /\ pending \in [Subscriptions -> Nat]
    OBVIOUS
  <2>3. inflight \in Nat /\ ended \in BOOLEAN /\ served \subseteq Subscriptions
    OBVIOUS
  <2>. QED BY <2>1, <2>2, <2>3 DEF SessionTyped
<1>2. Outstanding = {}
  BY DEF Outstanding
<1>3. Reserved
  BY <1>2, FS_EmptySet DEF Reserved
<1>4. \A s : Asked(s) = {} /\ Acked(s) = {}
  BY DEF Asked, Acked, Places
<1>5. Waited
  <2>1. ASSUME NEW s \in Subscriptions
        PROVE  pending[s] = Cardinality(Asked(s)) + Cardinality(Acked(s))
    <3>1. Asked(s) = {} /\ Acked(s) = {} /\ pending[s] = 0
      BY <1>4
    <3>2. Cardinality(Asked(s)) = 0 /\ Cardinality(Acked(s)) = 0
      BY <3>1, FS_EmptySet
    <3>. QED BY <3>1, <3>2
  <2>. QED BY <2>1 DEF Waited
<1>6. WillServe
  BY <1>4 DEF WillServe
<1>7. NobodyHeard
  BY DEF NobodyHeard
<1>. QED BY <1>1, <1>3, <1>5, <1>6, <1>7 DEF SessionInv

\* When the session ends nothing is reserved any more.
LEMMA ClosedKeeps ==
    ASSUME SessionInv, CloseInternal, toClient' \in Seq(Deliveries)
    PROVE  SessionInv'
<1>. USE DEF SessionInv, CloseInternal
<1>1. Outstanding' = {}
  BY DEF Outstanding
<1>2. inflight' = 0
  BY DEF Reserved, SessionTyped
<1>3. Reserved'
  BY <1>1, <1>2, FS_EmptySet DEF Reserved
<1>4. SessionTyped'
  BY <1>2 DEF SessionTyped
<1>5. NobodyHeard'
  BY DEF NobodyHeard
<1>. QED BY <1>3, <1>4, <1>5

\* One more operation waits.
LEMMA OneMoreReserved ==
    ASSUME SessionTyped, Reserved, NEW s \in Subscriptions,
           pending' = [pending EXCEPT ![s] = @ + 1], inflight' = inflight + 1
    PROVE  Reserved' /\ pending' \in [Subscriptions -> Nat] /\ inflight' \in Nat
<1>1. pending[s] \in Nat /\ inflight \in Nat /\ pending \in [Subscriptions -> Nat]
  BY DEF SessionTyped
<1>2. Outstanding' = Outstanding \cup {<<s, pending[s] + 1>>}
  <2>1. 1 .. pending[s] + 1 = (1 .. pending[s]) \cup {pending[s] + 1}
    BY <1>1
  <2>2. \A r \in Subscriptions : r # s => pending'[r] = pending[r]
    BY <1>1
  <2>3. pending'[s] = pending[s] + 1
    BY <1>1
  <2>4. \A r \in Subscriptions :
           {r} \X (1 .. pending'[r])
             = {r} \X (1 .. pending[r]) \cup (IF r = s THEN {<<s, pending[s] + 1>>} ELSE {})
    BY <2>1, <2>2, <2>3
  <2>. QED BY <2>4 DEF Outstanding
<1>3. <<s, pending[s] + 1>> \notin Outstanding
  BY <1>1 DEF Outstanding
<1>4. /\ IsFiniteSet(Outstanding')
      /\ Cardinality(Outstanding') = Cardinality(Outstanding) + 1
  BY <1>2, <1>3, FS_AddElement DEF Reserved
<1>5. pending' \in [Subscriptions -> Nat]
  BY <1>1
<1>. QED BY <1>1, <1>4, <1>5 DEF Reserved

\* One operation less waits.
LEMMA OneLessReserved ==
    ASSUME SessionTyped, Reserved, NEW s \in Subscriptions, pending[s] > 0,
           pending' = [pending EXCEPT ![s] = @ - 1], inflight' = inflight - 1
    PROVE  Reserved' /\ pending' \in [Subscriptions -> Nat] /\ inflight' \in Nat
<1>1. pending[s] \in Nat /\ inflight \in Nat /\ pending \in [Subscriptions -> Nat]
  BY DEF SessionTyped
<1>2. Outstanding' = Outstanding \ {<<s, pending[s]>>}
  <2>1. 1 .. pending[s] - 1 = (1 .. pending[s]) \ {pending[s]}
    BY <1>1
  <2>2. \A r \in Subscriptions : r # s => pending'[r] = pending[r]
    BY <1>1
  <2>3. pending'[s] = pending[s] - 1
    BY <1>1
  <2>4. \A r \in Subscriptions :
           {r} \X (1 .. pending'[r])
             = {r} \X (1 .. pending[r]) \ (IF r = s THEN {<<s, pending[s]>>} ELSE {})
    BY <2>1, <2>2, <2>3
  <2>. QED BY <2>4 DEF Outstanding
<1>3. <<s, pending[s]>> \in Outstanding
  <2>1. pending[s] \in 1 .. pending[s]
    BY <1>1
  <2>. QED BY <2>1 DEF Outstanding
<1>4. inflight # 0
  BY <1>3, FS_EmptySet DEF Reserved
<1>5. /\ IsFiniteSet(Outstanding')
      /\ Cardinality(Outstanding') = Cardinality(Outstanding) - 1
  BY <1>2, <1>3, FS_RemoveElement DEF Reserved
<1>6. pending' \in [Subscriptions -> Nat]
  BY <1>1
<1>. QED BY <1>1, <1>4, <1>5, <1>6 DEF Reserved

\* An operation is tracked and sent; the listeners agree with it.
LEMMA TrackKeeps ==
    ASSUME SessionInv, ~ended, NEW s \in Subscriptions, NEW method \in {"subscribe", "unsubscribe"},
           Track(s, method), UNCHANGED <<ended, toClient, served>>,
           listeners' \in [Subscriptions -> SUBSET Listeners],
           method = "subscribe" <=> listeners'[s] # {},
           \A r \in Subscriptions \ {s} : listeners'[r] = listeners[r]
    PROVE  SessionInv'
<1>. USE DEF SessionInv
<1>. DEFINE m == [method |-> method, subscription |-> s]
<1>1. /\ m \in Operations /\ toServer \in Seq(Operations) /\ toServer' = Append(toServer, m)
      /\ pending' = [pending EXCEPT ![s] = @ + 1] /\ inflight' = inflight + 1
      /\ pending \in [Subscriptions -> Nat]
  BY DEF Track, Operations, SessionTyped
<1>2. Reserved' /\ pending' \in [Subscriptions -> Nat] /\ inflight' \in Nat
  BY <1>1, OneMoreReserved
<1>3. /\ toServer' \in Seq(Operations) /\ Len(toServer') = Len(toServer) + 1 /\ Len(toServer) \in Nat
      /\ \A i \in 1 .. Len(toServer) : toServer'[i] = toServer[i]
      /\ toServer'[Len(toServer) + 1] = m
  BY <1>1
<1>4. SessionTyped'
  BY <1>2, <1>3 DEF SessionTyped
<1>. HIDE DEF m
<1>5. \A r \in Subscriptions : m \in {o \in Operations : o.subscription = r} <=> r = s
  BY <1>1 DEF m
<1>6. \A r \in Subscriptions :
         /\ Asked(r)' = Asked(r) \cup (IF r = s THEN {Len(toServer) + 1} ELSE {})
         /\ Cardinality(Asked(r)') = Cardinality(Asked(r)) + (IF r = s THEN 1 ELSE 0)
         /\ Acked(r)' = Acked(r)
         /\ Asked(r) \subseteq 1 .. Len(toServer)
  BY <1>1, <1>5, PlacesAppend, PlacesFinite DEF Asked, Acked
<1>7. \A r \in Subscriptions : Cardinality(Asked(r)) \in Nat /\ Cardinality(Acked(r)) \in Nat
  BY PlacesFinite DEF Asked, Acked, SessionTyped
<1>8. Waited'
  <2>1. \A r \in Subscriptions : pending'[r] = pending[r] + (IF r = s THEN 1 ELSE 0)
    BY <1>1
  <2>2. ASSUME NEW r \in Subscriptions
        PROVE  pending'[r] = Cardinality(Asked(r)') + Cardinality(Acked(r)')
    <3>1. pending[r] = Cardinality(Asked(r)) + Cardinality(Acked(r))
      BY DEF Waited
    <3>2. CASE r = s
      BY <1>6, <1>7, <2>1, <3>1, <3>2
    <3>3. CASE r # s
      BY <1>6, <1>7, <2>1, <3>1, <3>3
    <3>. QED BY <3>2, <3>3
  <2>. QED BY <2>2 DEF Waited
<1>9. WillServe'
  <2>1. ASSUME NEW r \in Subscriptions \ {s}
        PROVE  /\ Asked(r)' = {} => (r \in served <=> listeners'[r] # {})
               /\ \A i \in Asked(r)' : (\A j \in Asked(r)' : j <= i) =>
                     (toServer'[i].method = "subscribe" <=> listeners'[r] # {})
    BY <1>3, <1>6 DEF WillServe
  <2>2. Asked(s)' # {}
    BY <1>6
  <2>3. ASSUME NEW i \in Asked(s)', \A j \in Asked(s)' : j <= i
        PROVE  toServer'[i].method = "subscribe" <=> listeners'[s] # {}
    <3>1. i = Len(toServer) + 1
      BY <1>3, <1>6, <2>3
    <3>. QED BY <1>3, <3>1 DEF m
  <2>. QED BY <2>1, <2>2, <2>3 DEF WillServe
<1>10. NobodyHeard'
  BY DEF NobodyHeard
<1>. QED BY <1>2, <1>4, <1>8, <1>9, <1>10

\* The server takes an operation, and acknowledges it.
LEMMA ServerKeeps == SessionInv /\ ServerActs => SessionInv'
<1>. SUFFICES ASSUME SessionInv, ServerActs PROVE SessionInv'
  OBVIOUS
<1>. USE DEF SessionInv
<1>1. PICK m : m = Head(toServer)
  OBVIOUS
<1>. DEFINE ack == [channel |-> "ack", subscription |-> m.subscription]
<1>2. /\ toServer # <<>> /\ toServer \in Seq(Operations) /\ toClient \in Seq(Deliveries)
      /\ m \in Operations /\ m.subscription \in Subscriptions /\ ack \in Deliveries
      /\ toServer' = Tail(toServer) /\ toClient' = Append(toClient, ack)
      /\ served' = IF m.method = "subscribe" THEN served \cup {m.subscription}
                   ELSE served \ {m.subscription}
      /\ UNCHANGED <<listeners, pending, exclusive, inflight, ended>>
  <2>1. toServer # <<>> /\ toServer \in Seq(Operations) /\ toClient \in Seq(Deliveries)
    BY DEF ServerActs, SessionTyped
  <2>2. m \in Operations
    BY <1>1, <2>1
  <2>. QED BY <1>1, <2>1, <2>2 DEF ServerActs, Operations, Deliveries
<1>3. PICK q \in Subscriptions : q = m.subscription
  BY <1>2
<1>4. SessionTyped'
  <2>1. toServer' \in Seq(Operations) /\ toClient' \in Seq(Deliveries)
    BY <1>2
  <2>2. served' \subseteq Subscriptions
    BY <1>2 DEF SessionTyped
  <2>. QED BY <1>2, <2>1, <2>2 DEF SessionTyped
<1>5. Reserved'
  BY <1>2 DEF Reserved, Outstanding
<1>6. SUFFICES ASSUME ~ended PROVE Waited' /\ WillServe'
  <2>1. NobodyHeard'
    BY <1>2 DEF NobodyHeard
  <2>. QED BY <1>2, <1>4, <1>5, <2>1
<1>7. \A r \in Subscriptions :
         /\ m \in {o \in Operations : o.subscription = r} <=> r = q
         /\ ack \in {[channel |-> "ack", subscription |-> r]} <=> r = q
  BY <1>2, <1>3
<1>. HIDE DEF ack
<1>8. \A r \in Subscriptions :
         /\ \A i : i \in Asked(r)' <=> i \in Nat \ {0} /\ i + 1 \in Asked(r)
         /\ Cardinality(Asked(r)) = Cardinality(Asked(r)') + (IF r = q THEN 1 ELSE 0)
  BY <1>1, <1>2, <1>7, PlacesTail DEF Asked
<1>9. \A r \in Subscriptions :
         Cardinality(Acked(r)') = Cardinality(Acked(r)) + (IF r = q THEN 1 ELSE 0)
  BY <1>2, <1>7, PlacesAppend DEF Acked
<1>10. \A r \in Subscriptions :
          /\ Cardinality(Asked(r)) \in Nat /\ Cardinality(Acked(r)) \in Nat
          /\ Cardinality(Asked(r)') \in Nat /\ Cardinality(Acked(r)') \in Nat
          /\ Asked(r) \subseteq 1 .. Len(toServer) /\ Asked(r)' \subseteq 1 .. Len(toServer')
  BY <1>2, <1>4, PlacesFinite DEF Asked, Acked, SessionTyped
<1>11. Waited'
  <2>1. ASSUME NEW r \in Subscriptions
        PROVE  pending'[r] = Cardinality(Asked(r)') + Cardinality(Acked(r)')
    <3>1. pending[r] = Cardinality(Asked(r)) + Cardinality(Acked(r)) /\ pending' = pending
      BY <1>2, <1>6 DEF Waited
    <3>2. CASE r = q
      BY <1>8, <1>9, <1>10, <3>1, <3>2
    <3>3. CASE r # q
      BY <1>8, <1>9, <1>10, <3>1, <3>3
    <3>. QED BY <3>2, <3>3
  <2>. QED BY <2>1 DEF Waited
<1>12. /\ \A i \in 1 .. Len(toServer) - 1 : toServer'[i] = toServer[i + 1]
       /\ Len(toServer) \in Nat \ {0} /\ Len(toServer') = Len(toServer) - 1 /\ toServer[1] = m
  BY <1>1, <1>2
<1>13. ASSUME NEW r \in Subscriptions, NEW i \in Asked(r)', \A j \in Asked(r)' : j <= i
       PROVE  toServer'[i].method = "subscribe" <=> listeners'[r] # {}
  <2>1. i \in 1 .. Len(toServer) - 1 /\ i + 1 \in Asked(r)
    BY <1>8, <1>10, <1>12
  <2>2. \A j \in Asked(r) : j <= i + 1
    <3>1. ASSUME NEW j \in Asked(r), ~(j <= i + 1)
          PROVE  FALSE
      <4>1. j \in Int /\ j - 1 \in Nat \ {0} /\ (j - 1) + 1 = j
        BY <1>10, <2>1, <3>1
      <4>2. j - 1 \in Asked(r)'
        BY <1>8, <4>1
      <4>. QED BY <1>13, <2>1, <3>1, <4>1, <4>2
    <3>. QED BY <3>1
  <2>3. toServer[i + 1].method = "subscribe" <=> listeners[r] # {}
    BY <1>6, <2>1, <2>2 DEF WillServe
  <2>. QED BY <1>2, <1>12, <2>1, <2>3
<1>14. ASSUME NEW r \in Subscriptions, Asked(r)' = {}
       PROVE  r \in served' <=> listeners'[r] # {}
  <2>1. \A j \in Asked(r) : j = 1
    <3>1. ASSUME NEW j \in Asked(r), j # 1
          PROVE  FALSE
      <4>1. j \in Int /\ j - 1 \in Nat \ {0} /\ (j - 1) + 1 = j
        BY <1>10, <1>12, <3>1
      <4>. QED BY <1>8, <1>14, <4>1
    <3>. QED BY <3>1
  <2>2. 1 \in Asked(r) <=> r = q
    BY <1>7, <1>12 DEF Asked, Places
  <2>3. CASE r = q
    <3>1. 1 \in Asked(q) /\ \A j \in Asked(q) : j <= 1
      BY <2>1, <2>2, <2>3
    <3>2. m.method = "subscribe" <=> listeners[q] # {}
      BY <1>6, <1>12, <3>1 DEF WillServe
    <3>. QED BY <1>2, <1>3, <2>3, <3>2
  <2>4. CASE r # q
    <3>1. Asked(r) = {}
      BY <2>1, <2>2, <2>4
    <3>2. r \in served <=> listeners[r] # {}
      BY <1>6, <3>1 DEF WillServe
    <3>. QED BY <1>2, <1>3, <2>4, <3>2
  <2>. QED BY <2>3, <2>4
<1>15. WillServe'
  BY <1>13, <1>14 DEF WillServe
<1>. QED BY <1>11, <1>15

\* A message that is no operation and no acknowledgement changes nothing that is counted.
LEMMA DataKeeps ==
    ASSUME SessionInv, toClient' \in Seq(Deliveries),
           UNCHANGED <<listeners, pending, exclusive, inflight, ended, toServer, served>>,
           ~ended => \A s \in Subscriptions : Cardinality(Acked(s)') = Cardinality(Acked(s))
    PROVE  SessionInv'
<1>. USE DEF SessionInv
<1>1. SessionTyped'
  BY DEF SessionTyped
<1>2. Reserved'
  BY DEF Reserved, Outstanding
<1>3. \A s : Asked(s)' = Asked(s)
  BY DEF Asked, Places
<1>4. ~ended => Waited'
  BY <1>3 DEF Waited
<1>5. ~ended => WillServe'
  BY <1>3 DEF WillServe
<1>6. NobodyHeard'
  BY DEF NobodyHeard
<1>. QED BY <1>1, <1>2, <1>4, <1>5, <1>6

\* The server sends what it has subscribed.
LEMMA SendsKeeps ==
    ASSUME SessionInv, NEW s \in Subscriptions, ServerSends(s)
    PROVE  SessionInv'
<1>. DEFINE m == [channel |-> "data", subscription |-> s]
<1>1. /\ m \in Deliveries /\ toClient \in Seq(Deliveries) /\ toClient' = Append(toClient, m)
      /\ UNCHANGED <<listeners, pending, exclusive, inflight, ended, toServer, served>>
  BY DEF ServerSends, Deliveries, SessionInv, SessionTyped
<1>2. \A r \in Subscriptions : m \notin {[channel |-> "ack", subscription |-> r]}
  <2>1. \A r : m # [channel |-> "ack", subscription |-> r]
    <3>1. m.channel = "data" /\ \A r : [channel |-> "ack", subscription |-> r].channel = "ack"
      OBVIOUS
    <3>. QED BY <3>1
  <2>. QED BY <2>1
<1>. HIDE DEF m
<1>3. \A r \in Subscriptions : Cardinality(Acked(r)') = Cardinality(Acked(r)) + 0
  BY <1>1, <1>2, PlacesAppend DEF Acked
<1>4. \A r \in Subscriptions : Cardinality(Acked(r)) \in Nat
  BY <1>1, PlacesFinite DEF Acked
<1>5. toClient' \in Seq(Deliveries)
  BY <1>1
<1>. QED BY <1>1, <1>3, <1>4, <1>5, DataKeeps

\* Listeners of a subscription that keeps some change nothing else.
LEMMA ListenersKeep ==
    ASSUME SessionInv, NEW s \in Subscriptions, NEW heard \in SUBSET Listeners,
           listeners[s] # {}, heard # {}, listeners' = [listeners EXCEPT ![s] = heard],
           UNCHANGED <<pending, exclusive, inflight, ended, toServer, toClient, served>>
    PROVE  SessionInv'
<1>. USE DEF SessionInv
<1>1. /\ listeners' \in [Subscriptions -> SUBSET Listeners]
      /\ \A r \in Subscriptions : listeners'[r] # {} <=> listeners[r] # {}
  BY DEF SessionTyped
<1>2. SessionTyped'
  BY <1>1 DEF SessionTyped
<1>3. Reserved'
  BY DEF Reserved, Outstanding
<1>4. \A r : Asked(r)' = Asked(r) /\ Acked(r)' = Acked(r)
  BY DEF Asked, Acked, Places
<1>5. ~ended => Waited'
  BY <1>4 DEF Waited
<1>6. ~ended => WillServe'
  BY <1>1, <1>4 DEF WillServe
<1>7. NobodyHeard'
  BY DEF NobodyHeard
<1>. QED BY <1>2, <1>3, <1>5, <1>6, <1>7

\* A listener joins or leaves a subscription that others listen to, or opens or ends it.
LEMMA SubscribingKeeps ==
    ASSUME SessionInv, NEW s \in Subscriptions, NEW cb \in Listeners, SubscribeListener(s, cb)
    PROVE  SessionInv'
<1>. USE DEF SessionInv
<1>1. ~ended /\ listeners \in [Subscriptions -> SUBSET Listeners]
  BY DEF SubscribeListener, SessionTyped
<1>2. CASE /\ listeners[s] # {}
           /\ listeners' = [listeners EXCEPT ![s] = @ \cup {cb}]
           /\ UNCHANGED <<pending, exclusive, inflight, ended, toServer, toClient, served>>
  <2>1. listeners[s] \cup {cb} \in SUBSET Listeners /\ listeners[s] \cup {cb} # {}
    BY <1>1
  <2>. QED BY <1>1, <1>2, <2>1, ListenersKeep
<1>3. CASE /\ listeners' = [listeners EXCEPT ![s] = {cb}]
           /\ Track(s, "subscribe") /\ UNCHANGED <<ended, toClient, served>>
  <2>1. /\ listeners' \in [Subscriptions -> SUBSET Listeners] /\ listeners'[s] # {}
        /\ \A r \in Subscriptions \ {s} : listeners'[r] = listeners[r]
    BY <1>1, <1>3
  <2>. QED BY <1>1, <1>3, <2>1, TrackKeeps
<1>4. CASE CloseSession
  BY <1>4, ClosedKeeps DEF CloseSession, SessionTyped
<1>. QED BY <1>2, <1>3, <1>4 DEF SubscribeListener

\* A listener leaves: others stay, or the server is told, or the session ends.
LEMMA UnsubscribingKeeps ==
    ASSUME SessionInv, NEW s \in Subscriptions, NEW cb \in Listeners, UnsubscribeListener(s, cb)
    PROVE  SessionInv'
<1>. USE DEF SessionInv
<1>1. listeners \in [Subscriptions -> SUBSET Listeners] /\ listeners[s] # {}
  BY DEF UnsubscribeListener, SessionTyped
<1>2. CASE /\ listeners[s] # {cb}
           /\ listeners' = [listeners EXCEPT ![s] = @ \ {cb}]
           /\ UNCHANGED <<pending, exclusive, inflight, ended, toServer, toClient, served>>
  <2>1. listeners[s] \ {cb} # {}
    BY <1>1, <1>2
  <2>. QED BY <1>1, <1>2, <2>1, ListenersKeep
<1>3. CASE /\ listeners' = [listeners EXCEPT ![s] = {}]
           /\ UnsubscribeServer(s) /\ UNCHANGED <<ended, toClient, served>>
  <2>1. /\ listeners' \in [Subscriptions -> SUBSET Listeners] /\ listeners'[s] = {}
        /\ \A r \in Subscriptions \ {s} : listeners'[r] = listeners[r]
    BY <1>1, <1>3
  <2>2. Track(s, "unsubscribe")
    BY <1>3 DEF UnsubscribeServer
  <2>3. ~ended
    BY <1>1 DEF NobodyHeard
  <2>. QED BY <1>3, <2>1, <2>2, <2>3, TrackKeeps
<1>4. CASE CloseSession
  BY <1>4, ClosedKeeps DEF CloseSession, SessionTyped
<1>. QED BY <1>2, <1>3, <1>4 DEF UnsubscribeListener

\* A message arrives: an acknowledgement, data for a listener, or data for none.
LEMMA ReceiveKeeps == SessionInv /\ ReceiveMessage => SessionInv'
<1>. SUFFICES ASSUME SessionInv, ReceiveMessage PROVE SessionInv'
  OBVIOUS
<1>. USE DEF SessionInv
<1>1. PICK m : m = Head(toClient)
  OBVIOUS
<1>2. /\ ~ended /\ toClient # <<>> /\ toClient \in Seq(Deliveries) /\ toClient' = Tail(toClient)
      /\ m \in Deliveries /\ m.subscription \in Subscriptions
      /\ toClient' \in Seq(Deliveries)
  <2>1. ~ended /\ toClient # <<>> /\ toClient \in Seq(Deliveries) /\ toClient' = Tail(toClient)
    BY DEF ReceiveMessage, SessionTyped
  <2>2. m \in Deliveries /\ toClient' \in Seq(Deliveries)
    BY <1>1, <2>1
  <2>. QED BY <2>1, <2>2 DEF Deliveries
<1>3. PICK q \in Subscriptions : q = m.subscription
  BY <1>2
<1>4. \A r \in Subscriptions :
         m \in {[channel |-> "ack", subscription |-> r]} <=> m.channel = "ack" /\ r = q
  BY <1>2, <1>3 DEF Deliveries
<1>5. \A r \in Subscriptions :
         Cardinality(Acked(r)) = Cardinality(Acked(r)') + (IF m.channel = "ack" /\ r = q THEN 1 ELSE 0)
  <2>1. \A r \in Subscriptions :
           Cardinality(Acked(r)) = Cardinality(Acked(r)')
             + (IF m \in {[channel |-> "ack", subscription |-> r]} THEN 1 ELSE 0)
    BY <1>1, <1>2, PlacesTail DEF Acked
  <2>. QED BY <1>4, <2>1
<1>6. \A r \in Subscriptions :
         Cardinality(Acked(r)) \in Nat /\ Cardinality(Acked(r)') \in Nat /\ Cardinality(Asked(r)) \in Nat
  BY <1>2, PlacesFinite DEF Asked, Acked, SessionTyped
<1>7. CASE /\ m.channel = "ack" /\ pending[q] > 0
           /\ pending' = [pending EXCEPT ![q] = @ - 1]
           /\ inflight' = inflight - 1
           /\ UNCHANGED <<listeners, exclusive, ended, toServer, served>>
  <2>1. Reserved' /\ pending' \in [Subscriptions -> Nat] /\ inflight' \in Nat
    BY <1>7, OneLessReserved
  <2>2. SessionTyped'
    BY <1>2, <1>7, <2>1 DEF SessionTyped
  <2>3. \A s : Asked(s)' = Asked(s)
    BY <1>7 DEF Asked, Places
  <2>4. WillServe'
    BY <1>2, <1>7, <2>3 DEF WillServe
  <2>5. Waited'
    <3>1. ASSUME NEW r \in Subscriptions
          PROVE  pending'[r] = Cardinality(Asked(r)') + Cardinality(Acked(r)')
      <4>1. /\ pending[r] = Cardinality(Asked(r)) + Cardinality(Acked(r))
            /\ pending'[r] = IF r = q THEN pending[r] - 1 ELSE pending[r]
        BY <1>2, <1>7 DEF Waited, SessionTyped
      <4>2. CASE r = q
        BY <1>5, <1>6, <1>7, <2>3, <4>1, <4>2
      <4>3. CASE r # q
        BY <1>5, <1>6, <1>7, <2>3, <4>1, <4>3
      <4>. QED BY <4>2, <4>3
    <3>. QED BY <3>1 DEF Waited
  <2>6. NobodyHeard'
    BY <1>2, <1>7 DEF NobodyHeard
  <2>. QED BY <2>1, <2>2, <2>4, <2>5, <2>6
<1>8. CASE /\ m.channel = "data"
           /\ UNCHANGED <<listeners, pending, exclusive, inflight, ended, toServer, served>>
  <2>1. \A r \in Subscriptions : Cardinality(Acked(r)') = Cardinality(Acked(r))
    BY <1>5, <1>6, <1>8
  <2>. QED BY <1>2, <1>8, <2>1, DataKeeps
<1>9. CASE CloseInternal
  BY <1>2, <1>9, ClosedKeeps
<1>10. ReceiveMessage =>
          \/ /\ m.channel = "ack" /\ pending[q] > 0
             /\ pending' = [pending EXCEPT ![q] = @ - 1]
             /\ inflight' = inflight - 1
             /\ UNCHANGED <<listeners, exclusive, ended, toServer, served>>
          \/ /\ m.channel = "data"
             /\ UNCHANGED <<listeners, pending, exclusive, inflight, ended, toServer, served>>
          \/ CloseInternal
  BY <1>1, <1>3 DEF ReceiveMessage
<1>. QED BY <1>7, <1>8, <1>9, <1>10

\* Every step keeps the session's books.
LEMMA SessionStep == SessionInv /\ [SessionNext]_sessionVars => SessionInv'
<1>. SUFFICES ASSUME SessionInv, [SessionNext]_sessionVars PROVE SessionInv'
  OBVIOUS
<1>1. CASE UNCHANGED sessionVars
  BY <1>1 DEF sessionVars, SessionInv, SessionTyped, Reserved, Outstanding, Waited, WillServe,
              NobodyHeard, Asked, Acked, Places
<1>2. ASSUME NEW s \in Subscriptions, NEW cb \in Listeners,
             SubscribeListener(s, cb) \/ UnsubscribeListener(s, cb)
      PROVE  SessionInv'
  BY <1>2, SubscribingKeeps, UnsubscribingKeeps
<1>3. CASE CloseSession
  BY <1>3, ClosedKeeps DEF CloseSession, SessionInv, SessionTyped
<1>4. ASSUME NEW s \in Subscriptions, ServerSends(s) \/ AcknowledgementLate(s)
      PROVE  SessionInv'
  BY <1>3, <1>4, SendsKeeps DEF AcknowledgementLate
<1>. QED BY <1>1, <1>2, <1>3, <1>4, ServerKeeps, ReceiveKeeps DEF SessionNext, SessionBreaks

\* However listeners join and leave, messages are under way and the session ends: the
\* operations reserved with the governor are those unacknowledged, and once the wire is
\* quiet the server sends exactly what someone listens to (SubscriptionsSettle).
THEOREM SubscriptionsAreSettled == SessionSpec => []SubscriptionsSettle
<1>1. SessionInv => SubscriptionsSettle
  <2>. SUFFICES ASSUME SessionInv PROVE SubscriptionsSettle
    OBVIOUS
  <2>. USE DEF SessionInv
  <2>1. inflight = Cardinality(Outstanding)
    BY DEF Reserved
  <2>2. ASSUME ~ended, toServer = <<>>, toClient = <<>>
        PROVE  served = Heard /\ inflight = 0
    <3>1. \A s : Asked(s) = {} /\ Acked(s) = {}
      BY <2>2 DEF Asked, Acked, Places
    <3>2. \A s \in Subscriptions : s \in served <=> listeners[s] # {}
      BY <2>2, <3>1 DEF WillServe
    <3>3. served = Heard
      BY <3>2 DEF Heard, SessionTyped
    <3>4. ASSUME NEW s \in Subscriptions
          PROVE  pending[s] = 0
      <4>1. Cardinality(Asked(s)) = 0 /\ Cardinality(Acked(s)) = 0
        BY <3>1, FS_EmptySet
      <4>. QED BY <2>2, <4>1 DEF Waited
    <3>5. Outstanding = {}
      BY <3>4 DEF Outstanding
    <3>. QED BY <2>1, <3>3, <3>5, FS_EmptySet
  <2>. QED BY <2>1, <2>2 DEF SubscriptionsSettle
<1>. QED BY <1>1, SessionInvInit, SessionStep, PTL DEF SessionSpec

=============================================================================
