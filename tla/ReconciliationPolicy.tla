------------------------ MODULE ReconciliationPolicy ------------------------
(***************************************************************************)
(* decideReconciliation: what authoritative evidence says about an action  *)
(* whose response was lost.  Pure operators on a journal record and one    *)
(* piece of evidence.                                                      *)
(*                                                                         *)
(* record:   type, expiresAfter, and what the review saw: a position to    *)
(*           close (hadPosition), the account state version (reviewedAt),  *)
(*           the cancel target (targetObserved).                           *)
(* evidence: order is the orderStatus answer for the record's own          *)
(*           identity; openOrder and fill say whether those lists hold the *)
(*           identity; position and leverage what the account queries      *)
(*           showed.                                                       *)
(***************************************************************************)
EXTENDS Integers

Terminal(state) == [kind |-> "terminal", state |-> state]

Unresolved == [kind |-> "unresolved", state |-> "unresolved"]

AtOrAfterExpiry(record, evidence) ==
    evidence.serverTime > record.expiresAfter

\* The order of the record's identity was seen, in any state but rejected.
Observed(evidence) ==
    evidence.order \in {"open", "filled", "canceled", "triggered"}

HasAcceptance(evidence) ==
    Observed(evidence) \/ evidence.openOrder \/ evidence.fill

HasRejection(evidence) ==
    evidence.order = "rejected" \/ evidence.definitiveRejection

\* Faulty variants: any order that is found was accepted; one that was
\* cancelled later was not.
DecideCreateFound(record, evidence) ==
    IF evidence.order # "unknown" THEN Terminal("accepted")
    ELSE IF AtOrAfterExpiry(record, evidence)
         THEN Terminal("expired") ELSE Unresolved
DecideCreate(record, evidence) ==
    CASE HasAcceptance(evidence) /\ HasRejection(evidence) ->
            Terminal("reconciled_ambiguous")
      [] HasRejection(evidence) /\ ~HasAcceptance(evidence) ->
            Terminal("rejected")
      [] HasAcceptance(evidence) /\ ~HasRejection(evidence) ->
            Terminal("accepted")
      [] OTHER -> IF AtOrAfterExpiry(record, evidence)
                  THEN Terminal("expired") ELSE Unresolved

DecideCancel(record, evidence) ==
    CASE evidence.definitiveRejection -> Terminal("rejected")
      [] /\ ~evidence.definitiveRejection
         /\ evidence.order \in {"canceled", "filled", "triggered"} ->
            Terminal("accepted")
      [] OTHER ->
            IF evidence.openOrder
            THEN IF AtOrAfterExpiry(record, evidence)
                 THEN Terminal("expired") ELSE Unresolved
            ELSE IF record.targetObserved /\ evidence.order = "unknown"
                 THEN Terminal("accepted")
                 ELSE IF AtOrAfterExpiry(record, evidence)
                      THEN Terminal("reconciled_ambiguous") ELSE Unresolved

\* A position that is gone although the close order is not known: somebody
\* closed it.
DecideClose(record, evidence) ==
    LET byOrder == DecideCreate(record, evidence)
    IN  IF /\ byOrder.state \notin {"accepted", "rejected"}
           /\ evidence.position = "zero"
           /\ record.hadPosition
        THEN Terminal("reconciled_ambiguous")
        ELSE byOrder

DecideLeverage(record, evidence) ==
    CASE evidence.definitiveRejection -> Terminal("rejected")
      [] ~evidence.definitiveRejection /\ evidence.leverage = "requested" ->
            IF evidence.attributed THEN Terminal("accepted")
                                   ELSE Terminal("reconciled_ambiguous")
      [] OTHER ->
            IF /\ AtOrAfterExpiry(record, evidence)
               /\ evidence.stateVersion > record.reviewedAt
            THEN Terminal("expired") ELSE Unresolved

DecideReconciliation(record, evidence) ==
    IF ~evidence.complete \/ evidence.order = "malformed"
    THEN Unresolved
    ELSE CASE record.type = "create"   -> DecideCreate(record, evidence)
           [] record.type = "close"    -> DecideClose(record, evidence)
           [] record.type = "cancel"   -> DecideCancel(record, evidence)
           [] record.type = "leverage" -> DecideLeverage(record, evidence)

=============================================================================
