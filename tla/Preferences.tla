---------------------------- MODULE Preferences ----------------------------
(***************************************************************************)
(* What the user sets on the device: favourite and recent markets, kept per  *)
(* network (features/markets); defaults for trading, kept per account, and    *)
(* the appearance, kept once (features/settings).  A provider loads the value   *)
(* of the scope shown, drops loads of a scope it has left, and writes changes   *)
(* back.  The device's storage is external: it reads and writes whole values,   *)
(* each call failing or not.  A scope is a network for the markets and an       *)
(* account for the defaults; a market or a setting is a pair that names the      *)
(* scope it was chosen in.                                                     *)
(***************************************************************************)
EXTENDS Integers, Sequences, SequencesExt, FiniteSets

CONSTANTS
    Scopes,
    Accountless,                \* the scopes (networks) without an account
    Choosable,                    \* what can be chosen in each scope
    Themes,                     \* with "system", which is the default
    MaxRecents,                 \* MAX_RECENT_MARKETS
    MaxScopeSwitches, MaxCommits, MaxPreferenceFaults    \* bounds

ASSUME PreferenceAssumption ==
    /\ Accountless \subseteq Scopes /\ "system" \in Themes /\ MaxRecents \in Nat \ {0}
    /\ {MaxScopeSwitches, MaxCommits, MaxPreferenceFaults} \subseteq Nat

VARIABLES
    scope,                      \* the network or account shown
    storedMarkets,              \* the device: market preferences by network
    marketsView,                \* the provider's state
    currentPreferences,         \* and its latest value
    marketLoad,                 \* the load under way for the scope shown
    lateLoads,                  \* loads of scopes left since
    writeQueue,                 \* writes not made yet, in order
    storedDefaults,             \* the device: the changed defaults by account
    defaultsView, defaultsLoad, lateDefaults,
    defaultsWrite,              \* writes under way: at most one
    storedTheme, themeView, themeLoad,
    themeWrites,                \* the appearances to write, in order
    scopeSwitches, commits, preferenceFaults

marketPrefVars == <<storedMarkets, marketsView, currentPreferences, marketLoad, lateLoads,
                    writeQueue>>
defaultsVars == <<storedDefaults, defaultsView, defaultsLoad, lateDefaults, defaultsWrite>>
themeVars == <<storedTheme, themeView, themeLoad, themeWrites>>
preferenceVars == <<scope, marketPrefVars, defaultsVars, themeVars, scopeSwitches, commits,
                    preferenceFaults>>

EmptyPreferences == [favorites |-> {}, recents |-> <<>>]

(* A load of a scope: the device has not read it yet.                          *)
Issued(s) == {[scope |-> s, pc |-> "issued"]}

View(s, status, value) == [scope |-> s, status |-> status, value |-> value]

(* The defaults of a scope that is shown: there are none without an account.    *)
DefaultsShown(s) == View(s, IF s \in Accountless THEN "unavailable" ELSE "loading", {})
DefaultsIssued(s) == IF s \in Accountless THEN {} ELSE Issued(s)

PreferenceInit ==
    /\ scope \in Scopes
    /\ storedMarkets = [s \in Scopes |-> EmptyPreferences]
    /\ marketsView = View(scope, "loading", EmptyPreferences)
    /\ currentPreferences = EmptyPreferences
    /\ marketLoad = Issued(scope) /\ lateLoads = {} /\ writeQueue = <<>>
    /\ storedDefaults = [s \in Scopes |-> {}]
    /\ defaultsView = DefaultsShown(scope)
    /\ defaultsLoad = DefaultsIssued(scope) /\ lateDefaults = {} /\ defaultsWrite = {}
    /\ storedTheme = "system" /\ themeView = [status |-> "loading", theme |-> "system"]
    /\ themeLoad = {[pc |-> "issued"]} /\ themeWrites = <<>>
    /\ scopeSwitches = 0 /\ commits = 0 /\ preferenceFaults = 0

StorageFails == preferenceFaults < MaxPreferenceFaults /\ preferenceFaults' = preferenceFaults + 1
StorageWorks == preferenceFaults' = preferenceFaults
Committing == commits < MaxCommits /\ commits' = commits + 1

(* The user moves to another scope: both providers render, forget what they had  *)
(* and load; the loads under way are not theirs any more.                       *)
SwitchScope ==
    /\ scopeSwitches < MaxScopeSwitches /\ scopeSwitches' = scopeSwitches + 1
    /\ \E s \in Scopes \ {scope} :
         /\ scope' = s
         /\ currentPreferences' = EmptyPreferences
         /\ marketsView' = View(s, "loading", EmptyPreferences)
         /\ lateLoads' = lateLoads \cup marketLoad /\ marketLoad' = Issued(s)
         /\ defaultsView' = DefaultsShown(s)
         /\ lateDefaults' = lateDefaults \cup defaultsLoad
         /\ defaultsLoad' = DefaultsIssued(s)
    /\ UNCHANGED <<storedMarkets, writeQueue, storedDefaults, defaultsWrite, themeVars, commits,
                   preferenceFaults>>

-----------------------------------------------------------------------------
(* Favourite and recent markets.                                            *)

toggleFavorite(preferences, m) ==
    [preferences EXCEPT !.favorites = IF m \in @ THEN @ \ {m} ELSE @ \cup {m}]

(* The market moves to the front of the recent ones, among which it is once at    *)
(* most; the last one is dropped at the limit.                                   *)
recordRecentMarket(preferences, m) ==
    LET recents == preferences.recents
        at == {i \in DOMAIN recents : recents[i] = m}
        left == IF at = {} THEN Len(recents) + 1 ELSE CHOOSE i \in at : TRUE
        length == IF at = {} THEN Len(recents) + 1 ELSE Len(recents)
    IN [preferences EXCEPT !.recents =
          [i \in 1 .. (IF length < MaxRecents THEN length ELSE MaxRecents) |->
             IF i = 1 THEN m ELSE IF i <= left THEN recents[i - 1] ELSE recents[i]]]

(* Faulty variant: a load of a network left since still counts.                 *)
MarketLoadCurrentAny == marketLoad \cup lateLoads

(* The loads whose generation is the current one.                              *)
MarketLoadCurrent == marketLoad

(* The device reads the value, any time before it answers.                      *)
ReadMarkets ==
    /\ \E l \in {x \in marketLoad \cup lateLoads : x.pc = "issued"} :
         LET read == [scope |-> l.scope, pc |-> "read", value |-> storedMarkets[l.scope]]
         IN /\ marketLoad' = IF l \in marketLoad THEN {read} ELSE marketLoad
            /\ lateLoads' = IF l \in lateLoads THEN (lateLoads \ {l}) \cup {read} ELSE lateLoads
    /\ UNCHANGED <<scope, storedMarkets, marketsView, currentPreferences, writeQueue,
                   defaultsVars, themeVars, scopeSwitches, commits, preferenceFaults>>

(* reload goes on after its read; a late load ends without effect.              *)
LoadMarkets ==
    /\ \E l \in {x \in marketLoad \cup lateLoads : x.pc = "read"} :
         /\ IF l \in MarketLoadCurrent
            THEN /\ currentPreferences' = l.value
                 /\ marketsView' = View(scope, "ready", l.value)
            ELSE UNCHANGED <<currentPreferences, marketsView>>
         /\ marketLoad' = marketLoad \ {l} /\ lateLoads' = lateLoads \ {l}
    /\ UNCHANGED <<scope, storedMarkets, writeQueue, defaultsVars, themeVars, scopeSwitches,
                   commits, preferenceFaults>>

(* The read fails, or the value cannot be parsed.                               *)
LoadMarketsFails ==
    /\ StorageFails
    /\ marketLoad # {} /\ marketLoad' = {}
    /\ currentPreferences' = EmptyPreferences
    /\ marketsView' = View(scope, "error", EmptyPreferences)
    /\ UNCHANGED <<scope, storedMarkets, lateLoads, writeQueue, defaultsVars, themeVars,
                   scopeSwitches, commits>>

(* commit: memory and screen change at once, the write is queued.                *)
CommitMarkets(preferences) ==
    /\ preferences # currentPreferences
    /\ currentPreferences' = preferences
    /\ marketsView' = View(scope, "ready", preferences)
    /\ writeQueue' = Append(writeQueue, [scope |-> scope, value |-> preferences])
    /\ UNCHANGED <<scope, storedMarkets, marketLoad, lateLoads, defaultsVars, themeVars,
                   scopeSwitches, preferenceFaults>>

(* The rows of the list are disabled while the preferences load.                 *)
ToggleFavorite ==
    /\ Committing
    /\ marketsView.status # "loading"
    /\ \E c \in Choosable : CommitMarkets(toggleFavorite(currentPreferences, <<scope, c>>))

(* A market is opened from a row, from the switcher, which is there while the     *)
(* preferences load, or by Trade itself, for the market it shows.                 *)
SelectMarket ==
    /\ Committing
    /\ \E c \in Choosable : CommitMarkets(recordRecentMarket(currentPreferences, <<scope, c>>))

WriteMarkets ==
    /\ writeQueue # <<>>
    /\ LET write == Head(writeQueue)
       IN \/ /\ StorageWorks
             /\ storedMarkets' = [storedMarkets EXCEPT ![write.scope] = write.value]
             /\ UNCHANGED marketsView
          \/ /\ StorageFails
             /\ marketsView' = IF marketsView.scope = write.scope
                               THEN [marketsView EXCEPT !.status = "error"] ELSE marketsView
             /\ UNCHANGED storedMarkets
    /\ writeQueue' = Tail(writeQueue)
    /\ UNCHANGED <<scope, currentPreferences, marketLoad, lateLoads, defaultsVars, themeVars,
                   scopeSwitches, commits>>

MarketPreferenceNext ==
    \/ SwitchScope \/ ReadMarkets \/ LoadMarkets \/ LoadMarketsFails
    \/ ToggleFavorite \/ SelectMarket \/ WriteMarkets

-----------------------------------------------------------------------------
(* Trading defaults.  A value is the set of the settings changed from theirs.  *)

ReadDefaults ==
    /\ \E l \in {x \in defaultsLoad \cup lateDefaults : x.pc = "issued"} :
         LET read == [scope |-> l.scope, pc |-> "read", value |-> storedDefaults[l.scope]]
         IN /\ defaultsLoad' = IF l \in defaultsLoad THEN {read} ELSE defaultsLoad
            /\ lateDefaults' = IF l \in lateDefaults
                               THEN (lateDefaults \ {l}) \cup {read} ELSE lateDefaults
    /\ UNCHANGED <<scope, marketPrefVars, storedDefaults, defaultsView, defaultsWrite,
                   themeVars, scopeSwitches, commits, preferenceFaults>>

(* A value that cannot be parsed is the defaults, and ready.                     *)
LoadDefaults ==
    /\ \E l \in {x \in defaultsLoad \cup lateDefaults : x.pc = "read"} :
         /\ IF l \in defaultsLoad
            THEN \E parsed \in {l.value} \cup (IF preferenceFaults < MaxPreferenceFaults
                                               THEN {{}} ELSE {}) :
                   /\ preferenceFaults' = preferenceFaults + IF parsed = l.value THEN 0 ELSE 1
                   /\ defaultsView' = View(scope, "ready", parsed)
            ELSE UNCHANGED <<defaultsView, preferenceFaults>>
         /\ defaultsLoad' = defaultsLoad \ {l} /\ lateDefaults' = lateDefaults \ {l}
    /\ UNCHANGED <<scope, marketPrefVars, storedDefaults, defaultsWrite, themeVars,
                   scopeSwitches, commits>>

LoadDefaultsFails ==
    /\ StorageFails
    /\ defaultsLoad # {} /\ defaultsLoad' = {}
    /\ defaultsView' = View(scope, "error", {})
    /\ UNCHANGED <<scope, marketPrefVars, storedDefaults, lateDefaults, defaultsWrite,
                   themeVars, scopeSwitches, commits>>

(* persist: one write at a time, of whatever scope; else the change is refused.   *)
(* The generation is that of the scope shown.                                    *)
Persist(next) ==
    /\ defaultsView.status \in {"ready", "error"}
    /\ defaultsWrite = {}
    /\ defaultsWrite' = {[scope |-> scope, value |-> next, generation |-> scopeSwitches]}
    /\ UNCHANGED <<scope, marketPrefVars, storedDefaults, defaultsView, defaultsLoad,
                   lateDefaults, themeVars, scopeSwitches, preferenceFaults>>

UpdateDefault ==
    /\ Committing
    /\ \E c \in Choosable :
         LET shown == defaultsView.value
         IN \/ Persist(shown \cup {<<scope, c>>})
            \/ Persist(shown \ {<<scope, c>>})

ResetDefaults == Committing /\ Persist({})

(* Faulty variant: a write shows its value whatever scope is shown by then.       *)
WriteIsCurrentAlways(write) == TRUE

WriteIsCurrent(write) == write.generation = scopeSwitches

DefaultsWritten ==
    /\ \E write \in defaultsWrite :
         \/ /\ StorageWorks
            /\ storedDefaults' = [storedDefaults EXCEPT ![write.scope] = write.value]
            /\ defaultsView' = IF WriteIsCurrent(write)
                               THEN View(scope, "ready", write.value) ELSE defaultsView
         \/ /\ StorageFails
            /\ defaultsView' = IF WriteIsCurrent(write)
                               THEN [defaultsView EXCEPT !.status = "error"] ELSE defaultsView
            /\ UNCHANGED storedDefaults
    /\ defaultsWrite' = {}
    /\ UNCHANGED <<scope, marketPrefVars, defaultsLoad, lateDefaults, themeVars, scopeSwitches,
                   commits>>

DefaultsNext ==
    \/ SwitchScope \/ ReadDefaults \/ LoadDefaults \/ LoadDefaultsFails
    \/ UpdateDefault \/ ResetDefaults \/ DefaultsWritten

-----------------------------------------------------------------------------
(* Appearance.                                                              *)

LoadTheme ==
    /\ \/ /\ {l \in themeLoad : l.pc = "issued"} # {}
          /\ themeLoad' = {[pc |-> "read", theme |-> storedTheme]}
          /\ StorageWorks /\ UNCHANGED themeView
       \/ /\ \E l \in themeLoad : l.pc = "read" /\ themeView' = [status |-> "ready", theme |-> l.theme]
          /\ StorageWorks /\ themeLoad' = {}
       \/ /\ StorageFails /\ themeLoad # {}
          /\ themeView' = [status |-> "error", theme |-> "system"]
          /\ themeLoad' = {}
    /\ UNCHANGED <<scope, marketPrefVars, defaultsVars, storedTheme, themeWrites, scopeSwitches,
                   commits>>

(* Faulty variant: a load under way still counts after a choice.                 *)
ThemeLoadAfterChoiceKept == themeLoad

(* The choice takes the generation of a load under way.                          *)
ThemeLoadAfterChoice == {}

SetTheme ==
    /\ Committing
    /\ \E t \in Themes : themeWrites' = Append(themeWrites, t)
    /\ themeLoad' = ThemeLoadAfterChoice
    /\ UNCHANGED <<scope, marketPrefVars, defaultsVars, storedTheme, themeView, scopeSwitches,
                   preferenceFaults>>

(* Only the write of the latest choice changes what is shown.                     *)
ThemeWritten ==
    /\ themeWrites # <<>>
    /\ \/ /\ StorageWorks
          /\ storedTheme' = Head(themeWrites)
          /\ themeView' = IF Len(themeWrites) = 1
                          THEN [status |-> "ready", theme |-> Head(themeWrites)] ELSE themeView
       \/ /\ StorageFails
          /\ themeView' = IF Len(themeWrites) = 1
                          THEN [themeView EXCEPT !.status = "error"] ELSE themeView
          /\ UNCHANGED storedTheme
    /\ themeWrites' = Tail(themeWrites)
    /\ UNCHANGED <<scope, marketPrefVars, defaultsVars, themeLoad, scopeSwitches, commits>>

ThemeNext == LoadTheme \/ SetTheme \/ ThemeWritten

PreferenceNext == MarketPreferenceNext \/ DefaultsNext \/ ThemeNext
PreferenceSpec == PreferenceInit /\ [][PreferenceNext]_preferenceVars

-----------------------------------------------------------------------------

(* What was chosen in a scope.                                               *)
Own(s) == {s} \X Choosable
MarketsOf(preferences) == preferences.favorites \cup ToSet(preferences.recents)

(* However switches, loads, changes and writes interleave, what a scope shows,   *)
(* keeps or is about to write was chosen in it: favourites, recent markets and    *)
(* defaults of another network or account never reach it.  And the appearance      *)
(* shown as saved is the one on the device.                                       *)
PreferencesStayApart ==
    /\ marketsView.scope = scope /\ MarketsOf(marketsView.value) \subseteq Own(scope)
    /\ defaultsView.scope = scope /\ defaultsView.value \subseteq Own(scope)
    /\ \A s \in Scopes : MarketsOf(storedMarkets[s]) \subseteq Own(s)
                         /\ storedDefaults[s] \subseteq Own(s)
    /\ \A i \in 1..Len(writeQueue) :
         MarketsOf(writeQueue[i].value) \subseteq Own(writeQueue[i].scope)
    /\ themeView.status = "ready" /\ themeWrites = <<>> => themeView.theme = storedTheme

(* A write that records a market that was opened leaves the favourites as they are. *)
(* Refuted, and not among the runs: after a failed load, or from the switcher while    *)
(* the load is under way, the next market opened writes empty favourites with it; and    *)
(* a network left and shown again is read before the writes that are queued for it.      *)
FavoritesKept ==
    [][\A s \in Scopes : storedMarkets'[s].recents # storedMarkets[s].recents =>
         storedMarkets'[s].favorites = storedMarkets[s].favorites]_preferenceVars

=============================================================================
