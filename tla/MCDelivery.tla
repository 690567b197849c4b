----------------------------- MODULE MCDelivery -----------------------------
(***************************************************************************)
(* The workers of the service, in one run of small instances: two          *)
(* processes, which only differ in name, deliver a row to an installation; *)
(* deletions run beside a backup and its restore (which no worker takes    *)
(* part in); a monitor keeps the stream of a target; readers ask for       *)
(* portfolio snapshots. They share no state here, and the initial state    *)
(* chooses the one that runs.                                              *)
(***************************************************************************)
EXTENDS Revocation, RuleMonitors, PortfolioSnapshots, TLC

VARIABLE scenario

Symmetry == Permutations(Workers)

MCHome == [l \in Links |-> CHOOSE i \in Installations : TRUE]

MCVersions == {[event |-> "price_above", threshold |-> 1],
               [event |-> "fill", threshold |-> 0]}

MCInit ==
    /\ Init /\ MonitorInit /\ PortfolioInit
    /\ scenario \in {"delivery", "restore", "monitors", "portfolio"}
    /\ scenario # "monitors" => value = 0
    /\ scenario # "portfolio" => /\ traded = [s \in ActivitySources |-> {}]
                                 /\ maxDexes = 1 /\ catalogued = Unpublished

otherVars == <<scenario, monitorVars, portfolioVars>>

Deliver ==
    /\ scenario = "delivery"
    /\ DeliveryNext
    /\ UNCHANGED <<revocationVars, otherVars>>
    /\ \A r \in Rows : outbox'[r].scope \in Installations
    /\ \A i \in Installations : inst'[i].version = 1

Delete ==
    /\ scenario = "restore"
    /\ DeletionNext
    /\ UNCHANGED <<outbox, worker, lease, otherVars>>

BackUp ==
    /\ scenario = "restore"
    /\ TakeBackup
    /\ UNCHANGED otherVars

PutBack ==
    /\ scenario = "restore"
    /\ Restore
    /\ UNCHANGED <<outbox, worker, lease, otherVars>>

Replay ==
    /\ scenario = "restore"
    /\ ReplayRead \/ ReplayApply
    /\ UNCHANGED <<outbox, worker, lease, otherVars>>

Monitor ==
    /\ scenario = "monitors"
    /\ MonitorNext
    /\ UNCHANGED <<vars, scenario, portfolioVars>>

ReadPortfolio ==
    /\ scenario = "portfolio"
    /\ PortfolioNext
    /\ UNCHANGED <<vars, scenario, monitorVars>>

MCVars == <<vars, otherVars>>

\* A monitor and the readers come to rest at their bounds; the store never does.
Rest == scenario \in {"monitors", "portfolio"} /\ UNCHANGED MCVars

MCNext ==
    Deliver \/ Delete \/ BackUp \/ PutBack \/ Replay \/ Monitor \/ ReadPortfolio \/ Rest

MCSpec == MCInit /\ [][MCNext]_MCVars

=============================================================================
