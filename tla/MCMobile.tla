------------------------------ MODULE MCMobile ------------------------------
(***************************************************************************)
(* The parts of the app that share no state with one another, in one       *)
(* instance for TLC: an initial state chooses the part that runs.           *)
(***************************************************************************)
EXTENDS StreamManager, AccountSetup, AccountDirectory, AccountLifecycle,
        NotificationClient, NotificationEntry, PortfolioScreen, MarketLists, Preferences,
        TradeScreen

VARIABLE part

Parts == {"streams", "setup", "directory", "lifecycle", "client", "entry", "portfolio",
          "lists", "catalog", "favorites", "defaults", "theme", "trade"}

MobileInit ==
    /\ part \in Parts
    /\ StreamInit /\ SetupInit /\ DirectoryInit /\ LifecycleInit /\ ClientInit /\ EntryInit
    /\ ScreenInit /\ ListInit /\ PreferenceInit /\ TradeInit
    /\ part # "streams" => kind = [k \in StreamKeys |-> "log"]
    /\ part # "setup" => ~hasty
    /\ part # "client" => calm
    /\ part # "lists" => ~restrictToIds
    /\ selection.account = CHOOSE a \in Holders : TRUE          \* the accounts are alike,
    /\ scope = CHOOSE s \in Scopes \ Accountless : TRUE         \* and so are the scopes,
    /\ tradeContext.account = CHOOSE a \in Traders : TRUE            \* contexts
    /\ route = CHOOSE m \in Pairs : TRUE                        \* and markets
    /\ trader[tradeContext.account].open

alertVars == <<clientVars, entryVars>>
walletVars == <<setupVars, directoryVars, lifecycleVars>>
shownVars == <<streamVars, screenVars, listVars, preferenceVars, tradeVars>>

MobileNext ==
    /\ part' = part
    /\ \/ /\ part = "streams" /\ StreamNext
          /\ UNCHANGED <<walletVars, alertVars, screenVars, listVars, preferenceVars, tradeVars>>
       \/ /\ part = "setup" /\ SetupNext
          /\ UNCHANGED <<directoryVars, lifecycleVars, alertVars, shownVars>>
       \/ /\ part = "directory" /\ DirectoryNext
          /\ UNCHANGED <<setupVars, lifecycleVars, alertVars, shownVars>>
       \/ /\ part = "lifecycle" /\ LifecycleNext
          /\ UNCHANGED <<setupVars, directoryVars, alertVars, shownVars>>
       \/ /\ part = "client" /\ ClientNext
          /\ UNCHANGED <<walletVars, entryVars, shownVars>>
       \/ /\ part = "entry" /\ EntryNext
          /\ UNCHANGED <<walletVars, clientVars, shownVars>>
       \/ /\ part = "portfolio" /\ ScreenNext
          /\ UNCHANGED <<walletVars, alertVars, streamVars, listVars, preferenceVars, tradeVars>>
       \/ /\ \/ part = "lists" /\ PagesNext
             \/ part = "catalog" /\ CatalogNext
          /\ UNCHANGED <<walletVars, alertVars, streamVars, screenVars, preferenceVars, tradeVars>>
       \/ /\ \/ part = "favorites" /\ MarketPreferenceNext
             \/ part = "defaults" /\ DefaultsNext
             \/ part = "theme" /\ ThemeNext
          /\ UNCHANGED <<walletVars, alertVars, streamVars, screenVars, listVars, tradeVars>>
       \/ /\ part = "trade" /\ TradeNext
          /\ UNCHANGED <<walletVars, alertVars, streamVars, screenVars, listVars, preferenceVars>>

mobileVars == <<part, walletVars, alertVars, shownVars>>

MobileSpec == MobileInit /\ [][MobileNext]_mobileVars

=============================================================================
