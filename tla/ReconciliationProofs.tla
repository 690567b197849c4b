------------------------ MODULE ReconciliationProofs ------------------------
(***************************************************************************)
(* Proofs about Reconciliation: what the journal records of an action      *)
(* whose response was lost is the truth, for any number of actions, ports  *)
(* and owners, and any expiry, lease and retry times.                      *)
(*                                                                         *)
(* The evidence a port carries was true when the exchange evaluated the    *)
(* query, and is used later.  The invariant says what of it stays true: an *)
(* executed order stays executed, a refused one refused, and a cancel's    *)
(* target that was not open never is again.  Nothing rewrites a verdict,   *)
(* for a settled row has no lease and a port writes under its lease only.  *)
(* From the same invariant, each step does to an action at most what       *)
(* ActionLife promises (PortsKeepActionLife).                              *)
(***************************************************************************)
EXTENDS Reconciliation, TLAPS

-----------------------------------------------------------------------------
(* Rows and the retry delay *)

Verdicts == {"accepted", "rejected", "expired", "reconciled_ambiguous"}

LEMMA Times ==
    /\ ActionExpiry \in Nat /\ LeaseDuration \in Nat /\ LeaseRetry \in Nat
    /\ MaxForegroundAttempts \in Nat \ {0} /\ MaxTime \in Nat
BY ReconciliationAssumption

\* A row's lease, state and counters are written field by field.
LEMMA FieldsTyped ==
    ASSUME NEW row \in J!RowType
    PROVE  /\ \A o \in Owners \cup {"none"}, t \in Nat \cup {-1} :
                [row EXCEPT !.leaseOwner = o, !.leaseExpiresAt = t] \in J!RowType
           /\ \A s \in J!JournalStates, r \in J!ResultClasses :
                [row EXCEPT !.state = s, !.result = r] \in J!RowType
           /\ \A n \in Nat, t \in Nat :
                [row EXCEPT !.attempts = n, !.nextAt = t] \in J!RowType
           /\ \A s \in J!JournalStates, t \in Nat :
                [row EXCEPT !.state = s, !.submissionStartedAt = t]
                  \in J!RowType
<1>1. \A o \in Owners \cup {"none"}, t \in Nat \cup {-1} :
        [row EXCEPT !.leaseOwner = o, !.leaseExpiresAt = t] \in J!RowType
  BY DEF J!RowType, J!Null
<1>2. \A s \in J!JournalStates, r \in J!ResultClasses :
        [row EXCEPT !.state = s, !.result = r] \in J!RowType
  BY DEF J!RowType
<1>3. \A n \in Nat, t \in Nat :
        [row EXCEPT !.attempts = n, !.nextAt = t] \in J!RowType
  BY DEF J!RowType
<1>4. \A s \in J!JournalStates, t \in Nat :
        [row EXCEPT !.state = s, !.submissionStartedAt = t] \in J!RowType
  BY DEF J!RowType
<1>. QED
  BY <1>1, <1>2, <1>3, <1>4

\* claimReconciliationLease leaves all of the row but its lease alone.
LEMMA LeasedRow ==
    ASSUME NEW row \in J!RowType, NEW o \in Owners, wall \in Nat
    PROVE  /\ J!Leased(row, o) \in J!RowType
           /\ J!Leased(row, o).state = row.state
           /\ J!Leased(row, o).expiresAfter = row.expiresAfter
<1>1. wall + LeaseDuration \in Nat
  BY Times
<1>2. J!Leased(row, o) \in J!RowType
  BY <1>1, FieldsTyped DEF J!Leased
<1>3. /\ J!Leased(row, o).state = row.state
      /\ J!Leased(row, o).expiresAfter = row.expiresAfter
  BY DEF J!Leased
<1>. QED
  BY <1>2, <1>3

\* transitionAction and the first half of scheduleReconciliation.
LEMMA TransitionedRow ==
    ASSUME NEW row \in J!RowType, NEW s \in Verdicts \cup {"unresolved"}
    PROVE  /\ J!Transitioned(row, s) \in J!RowType
           /\ J!Transitioned(row, s).state = s
           /\ J!Transitioned(row, s).leaseOwner = "none"
           /\ J!Transitioned(row, s).expiresAfter = row.expiresAfter
           /\ J!Transitioned(row, s).attempts = row.attempts
<1>1. s \in J!JournalStates /\ J!ResultForState(s) \in J!ResultClasses
  BY DEF Verdicts, J!JournalStates, J!ReconcilableStates, J!TerminalStates,
         J!ResultForState, J!ResultClasses
<1>2. /\ J!Unleased(row) \in J!RowType
      /\ J!Unleased(row).leaseOwner = "none"
      /\ J!Unleased(row).expiresAfter = row.expiresAfter
      /\ J!Unleased(row).attempts = row.attempts
  <2>1. J!Unleased(row) \in J!RowType
    BY FieldsTyped DEF J!Unleased, J!Null
  <2>. QED
    BY <2>1 DEF J!Unleased, J!RowType
<1>3. ASSUME NEW u \in J!RowType
      PROVE  LET w == [u EXCEPT !.state = s, !.result = J!ResultForState(s)]
             IN  /\ w \in J!RowType
                 /\ w.state = s
                 /\ w.leaseOwner = u.leaseOwner
                 /\ w.expiresAfter = u.expiresAfter
                 /\ w.attempts = u.attempts
  <2>1. [u EXCEPT !.state = s, !.result = J!ResultForState(s)] \in J!RowType
    BY <1>1, FieldsTyped
  <2>. QED
    BY <2>1 DEF J!RowType
<1>. QED
  BY <1>2, <1>3 DEF J!Transitioned

\* scheduleReconciliation
LEMMA RescheduledRow ==
    ASSUME NEW row \in J!RowType, NEW t \in Nat
    PROVE  /\ J!Rescheduled(row, t) \in J!RowType
           /\ J!Rescheduled(row, t).state = "unresolved"
           /\ J!Rescheduled(row, t).leaseOwner = "none"
           /\ J!Rescheduled(row, t).expiresAfter = row.expiresAfter
<1>1. ASSUME NEW u \in J!RowType
      PROVE  LET w == [u EXCEPT !.attempts = @ + 1, !.nextAt = t]
             IN  /\ w \in J!RowType
                 /\ w.state = u.state
                 /\ w.leaseOwner = u.leaseOwner
                 /\ w.expiresAfter = u.expiresAfter
  <2>1. u.attempts + 1 \in Nat
    BY DEF J!RowType
  <2>2. [u EXCEPT !.attempts = @ + 1, !.nextAt = t] \in J!RowType
    BY <2>1, FieldsTyped
  <2>. QED
    BY <2>2 DEF J!RowType
<1>. DEFINE free == J!Transitioned(row, "unresolved")
<1>2. /\ free \in J!RowType /\ free.state = "unresolved"
      /\ free.leaseOwner = "none" /\ free.expiresAfter = row.expiresAfter
  BY TransitionedRow
<1>3. J!Rescheduled(row, t) = [free EXCEPT !.attempts = @ + 1, !.nextAt = t]
  BY DEF J!Rescheduled
<1>. HIDE DEF free
<1>. QED
  BY <1>1, <1>2, <1>3

\* The row a lost response leaves behind.
LEMMA UnresolvedRow ==
    ASSUME NEW j \in JournalIds, wall = 0
    PROVE  LET row == J!Transitioned(J!SubmissionStarted(J!PreparedRow(j, j)),
                                     "unresolved")
           IN  row \in J!RowType /\ row.state = "unresolved"
<1>1. J!AllocatedExpiry \in Nat
  BY Times DEF J!AllocatedExpiry
<1>2. J!PreparedRow(j, j) \in J!RowType
  <2>1. J!NoRow \in J!RowType
    BY DEF J!NoRow, J!RowType, J!Null, J!JournalStates, J!ResultClasses
  <2>2. ASSUME NEW row \in J!RowType, NEW e \in Nat
        PROVE  [row EXCEPT !.state = "prepared", !.agent = j,
                           !.account = "account", !.intent = j, !.nonce = 0,
                           !.expiresAfter = e, !.preparedAt = 0,
                           !.nextAt = 0] \in J!RowType
    BY DEF J!RowType, J!JournalStates
  <2>3. J!AllocatedNonce([status |-> "active", account |-> "account",
                          lastNonce |-> -1, lastWall |-> 0]) = 0
    BY DEF J!AllocatedNonce, J!Max2
  <2>. QED
    BY <1>1, <2>1, <2>2, <2>3 DEF J!PreparedRow
<1>3. J!SubmissionStarted(J!PreparedRow(j, j)) \in J!RowType
  <2>1. "submission_started" \in J!JournalStates
    BY DEF J!JournalStates, J!ReconcilableStates
  <2>. QED
    BY <1>2, <2>1, FieldsTyped DEF J!SubmissionStarted
<1>. QED
  BY <1>3, TransitionedRow

\* recoverAfterRestart leaves the rows of lost responses and verdicts alone.
LEMMA RecoveredRow ==
    ASSUME NEW row, row.state \in Verdicts \cup {"unresolved"}
    PROVE  J!Recovered(row) = row
BY DEF J!Recovered, Verdicts

\* nextAttempt is a time from now on.
LEMMA NextAttemptTyped ==
    ASSUME NEW row \in J!RowType, wall \in Nat
    PROVE  NextAttempt(row) \in Nat
<1>1. row.attempts \in Nat /\ row.expiresAfter \in Nat
  BY DEF J!RowType
<1>2. Min2(row.attempts, 5) \in {0, 1, 2, 3, 4, 5}
  BY <1>1 DEF Min2
<1>3. /\ 2^0 \in Nat /\ 2^1 \in Nat /\ 2^2 \in Nat
      /\ 2^3 \in Nat /\ 2^4 \in Nat /\ 2^5 \in Nat
  OBVIOUS
<1>4. 2^Min2(row.attempts, 5) \in Nat
  BY <1>2, <1>3
<1>5. Backoff(row.attempts) \in Nat
  BY <1>4 DEF Backoff, Min2
<1>. QED
  BY <1>1, <1>5 DEF NextAttempt, Min2

-----------------------------------------------------------------------------
(* The policy *)

\* What one answer can say of an action of type t.
Answers ==
    [complete: {TRUE}, order: OrderStates, openOrder: BOOLEAN, fill: {FALSE},
     definitiveRejection: {FALSE}, position: PositionStates,
     leverage: LeverageStates, attributed: {FALSE}, serverTime: Int,
     stateVersion: Int]

\* The evidence each verdict rests on.
Supports(t, evidence, state) ==
    /\ state = "accepted" =>
          \/ /\ t \in {"create", "close"}
             /\ evidence.order \in {"open", "filled", "canceled"}
          \/ t = "cancel" /\ evidence.order # "open"
    /\ state = "rejected" =>
          t \in {"create", "close"} /\ evidence.order = "rejected"

\* decideReconciliation settles an action on evidence only, and calls nothing
\* expired before the expiry.
LEMMA PolicySupported ==
    ASSUME NEW record, NEW evidence \in Answers,
           record.type \in {"create", "close", "cancel", "leverage"},
           evidence.openOrder = (evidence.order = "open"),
           DecideReconciliation(record, evidence).kind = "terminal"
    PROVE  /\ DecideReconciliation(record, evidence).state \in Verdicts
           /\ Supports(record.type, evidence,
                       DecideReconciliation(record, evidence).state)
           /\ DecideReconciliation(record, evidence).state = "expired" =>
                 AtOrAfterExpiry(record, evidence)
<1>. DEFINE decision == DecideReconciliation(record, evidence)
            Good(d) == d.kind = "terminal" =>
                          /\ d.state \in Verdicts
                          /\ Supports(record.type, evidence, d.state)
                          /\ d.state = "expired" =>
                                AtOrAfterExpiry(record, evidence)
<1>0. /\ evidence.complete = TRUE /\ evidence.fill = FALSE
      /\ evidence.definitiveRejection = FALSE
      /\ evidence.attributed = FALSE
      /\ evidence.order \in OrderStates
  BY DEF Answers
<1>1. ASSUME record.type \in {"create", "close"}
      PROVE  /\ Good(DecideCreate(record, evidence))
             /\ DecideCreate(record, evidence).state \in
                  Verdicts \cup {"unresolved"}
  BY <1>0, <1>1
     DEF DecideCreate, HasAcceptance, HasRejection, Observed, Terminal,
         Unresolved, Supports, Verdicts, OrderStates
<1>2. ASSUME record.type = "close" PROVE Good(DecideClose(record, evidence))
  BY <1>1, <1>2 DEF DecideClose, Terminal, Supports, Verdicts
<1>3. ASSUME record.type = "cancel" PROVE Good(DecideCancel(record, evidence))
  BY <1>0, <1>3
     DEF DecideCancel, Terminal, Unresolved, Supports, Verdicts, OrderStates
<1>4. ASSUME record.type = "leverage"
      PROVE  Good(DecideLeverage(record, evidence))
  BY <1>0, <1>4
     DEF DecideLeverage, Terminal, Unresolved, Supports, Verdicts
<1>5. Good(decision)
  BY <1>0, <1>1, <1>2, <1>3, <1>4
     DEF DecideReconciliation, OrderStates, Unresolved
<1>. QED
  BY <1>5

-----------------------------------------------------------------------------
(* The invariant *)

\* What the exchange shows of an order agrees with what it did.
Consistent(t, shown, done) ==
    t \in {"create", "close"} =>
        /\ shown.order \in {"open", "filled", "canceled"} => done = "done"
        /\ shown.order = "rejected" => done = "refused"

\* What the order query told a port was true and still bears a verdict.
Believed(port, t, shown, done) ==
    /\ t \in {"create", "close"} =>
          /\ port.order \in {"open", "filled", "canceled"} => done = "done"
          /\ port.order = "rejected" => done = "refused"
    /\ t # "close" => port.stage = "order"
    /\ t = "cancel" /\ port.pc # "asking" /\ port.order # "open" =>
          shown.order # "open"

\* A port that is under way has its action, its owner and attempts left, and
\* no evidence of an earlier attempt.
Placed(port) ==
    /\ port.pc \in {"waiting", "retrying"} \cup Asking =>
          port.row \in JournalIds /\ port.owner \in Owners
    /\ port.pc \in {"waiting"} \cup Asking =>
          port.attempt < MaxForegroundAttempts
    /\ port.pc = "waiting" => port.order = "unknown" /\ port.stage = "order"

\* The journal holds lost responses and verdicts; a verdict has no lease.
RowKept(row) ==
    /\ row.state \in Verdicts \cup {"unresolved"}
    /\ row.state # "unresolved" => row.leaseOwner = "none"

\* What VerdictIsTrue says of one action.
Truthful(row, t, shown, done, time) ==
    /\ row.state = "accepted" => IF t = "cancel" THEN shown.order # "open"
                                                ELSE done = "done"
    /\ row.state = "rejected" => done = "refused"
    /\ row.state = "expired" => time > row.expiresAfter

ActionsInv ==
    \A j \in JournalIds :
        /\ RowKept(journal[j])
        /\ Consistent(type[j], exchange[j], executed[j])
        /\ Truthful(journal[j], type[j], exchange[j], executed[j], wall)

PortInv(p) ==
    /\ Placed(ports[p])
    /\ ports[p].pc \in Asking =>
          LET j == ports[p].row
          IN  Believed(ports[p], type[j], exchange[j], executed[j])

IInv == TypeOK /\ ActionsInv /\ \A p \in Ports : PortInv(p)

\* The invariant holds as the responses are lost.
LEMMA InvInit == Init => IInv
<1>. SUFFICES ASSUME Init PROVE IInv
  OBVIOUS
<1>1. \A j \in JournalIds : /\ journal[j] \in J!RowType
                            /\ journal[j].state = "unresolved"
  BY UnresolvedRow DEF Init
<1>2. journal \in [JournalIds -> J!RowType]
  BY <1>1 DEF Init
<1>3. ExchangeTypeOK
  BY DEF Init, ExchangeTypeOK, BeforeArrival, OrderStates, PositionStates,
         LeverageStates
<1>4. PortTypeOK
  BY Times DEF Init, PortTypeOK, PortFrame, NoPort, OrderStates,
         PositionStates, LeverageStates
<1>5. TypeOK
  BY <1>2, <1>3, <1>4, Times DEF TypeOK, Init
<1>6. ActionsInv
  <2>1. \A j \in JournalIds : type[j] \in {"create", "close"} =>
                              exchange[j].order = "unknown"
    BY DEF Init, BeforeArrival
  <2>. QED
    BY <1>1, <2>1 DEF ActionsInv, RowKept, Consistent, Truthful
<1>7. \A p \in Ports : PortInv(p)
  BY DEF Init, PortInv, Placed, NoPort, Asking
<1>. QED
  BY <1>5, <1>6, <1>7 DEF IInv

-----------------------------------------------------------------------------
(* The exchange's steps *)

\* What may become of an action at the exchange.
Lasting(t, shown, done, shownNext, doneNext) ==
    /\ done # "pending" => doneNext = done
    /\ t = "cancel" /\ shown.order # "open" => shownNext.order # "open"

\* Evidence and verdicts outlast every step of the exchange.
LEMMA LastingKeeps ==
    ASSUME NEW port, NEW row, NEW t, NEW shown, NEW done, NEW shownNext,
           NEW doneNext, NEW time, Lasting(t, shown, done, shownNext, doneNext)
    PROVE  /\ Believed(port, t, shown, done)
                => Believed(port, t, shownNext, doneNext)
           /\ Truthful(row, t, shown, done, time)
                => Truthful(row, t, shownNext, doneNext, time)
BY DEF Lasting, Believed, Truthful

\* An order is executed or refused once, and a target that is not open stays so.
LEMMA ExchangeLasting ==
    ASSUME IInv, ExchangeStep
    PROVE  /\ ExchangeTypeOK'
           /\ \A i \in JournalIds :
                /\ Consistent(type[i], exchange'[i], executed'[i])
                /\ Lasting(type[i], exchange[i], executed[i],
                           exchange'[i], executed'[i])
<1>. PICK j \in JournalIds :
        ExchangeExecutes(j) \/ ExchangeRefuses(j) \/ OthersAct(j)
  BY DEF ExchangeStep
<1>0. /\ ExchangeTypeOK
      /\ type[j] \in {"create", "close", "cancel", "leverage"}
      /\ \A i \in JournalIds : Consistent(type[i], exchange[i], executed[i])
  BY ReconciliationAssumption DEF IInv, TypeOK, ActionsInv
<1>1. ASSUME \/ exchange' = exchange
             \/ \E e : /\ exchange' = [exchange EXCEPT ![j] = e]
                       /\ e \in [order: OrderStates,
                                 position: PositionStates,
                                 leverage: LeverageStates]
                       /\ Consistent(type[j], e, executed'[j])
                       /\ type[j] = "cancel" /\ exchange[j].order # "open"
                             => e.order # "open",
             \/ executed' = executed
             \/ /\ executed[j] = "pending"
                /\ \E d \in {"done", "refused"} :
                      executed' = [executed EXCEPT ![j] = d]
      PROVE  /\ ExchangeTypeOK'
             /\ \A i \in JournalIds :
                  /\ Consistent(type[i], exchange'[i], executed'[i])
                  /\ Lasting(type[i], exchange[i], executed[i],
                             exchange'[i], executed'[i])
  BY <1>0, <1>1 DEF ExchangeTypeOK, Consistent, Lasting
<1>2. CASE ExchangeExecutes(j)
  <2>1. PICK e \in Effects(j) : exchange' = [exchange EXCEPT ![j] = e]
    BY <1>2 DEF ExchangeExecutes
  <2>2. /\ executed[j] = "pending"
        /\ executed' = [executed EXCEPT ![j] = "done"]
        /\ executed'[j] = "done"
    BY <1>0, <1>2 DEF ExchangeExecutes, ExchangeTypeOK
  <2>3. /\ e \in [order: OrderStates, position: PositionStates,
                  leverage: LeverageStates]
        /\ type[j] \in {"create", "close"} => e.order \in {"open", "filled"}
        /\ type[j] = "cancel" => e.order = "canceled"
    BY <1>0 DEF Effects, Filled, ExchangeTypeOK, OrderStates, PositionStates,
                LeverageStates
  <2>4. Consistent(type[j], e, executed'[j])
    BY <2>2, <2>3 DEF Consistent
  <2>. QED
    BY <1>1, <2>1, <2>2, <2>3, <2>4
<1>3. CASE ExchangeRefuses(j)
  BY <1>0, <1>1, <1>3
     DEF ExchangeRefuses, ExchangeTypeOK, Consistent, OrderStates
<1>4. CASE OthersAct(j)
  <2>1. executed' = executed
    BY <1>4 DEF OthersAct
  <2>2. PICK e : /\ exchange' = [exchange EXCEPT ![j] = e]
                 /\ \/ /\ exchange[j].order = "open"
                       /\ e \in {Filled(j),
                                [exchange[j] EXCEPT !.order = "canceled"]}
                    \/ /\ type[j] = "cancel"
                       /\ e = [exchange[j] EXCEPT !.order = "unknown"]
                    \/ e = [exchange[j] EXCEPT !.position = "zero"]
                    \/ e \in {[exchange[j] EXCEPT !.leverage = v] :
                                v \in LeverageStates}
    BY <1>4 DEF OthersAct, LeverageStates
  <2>3. e \in [order: OrderStates, position: PositionStates,
              leverage: LeverageStates]
    <3>1. Filled(j) \in [order: OrderStates, position: PositionStates,
                        leverage: LeverageStates]
      BY <1>0 DEF Filled, ExchangeTypeOK, OrderStates, PositionStates
    <3>. QED
      BY <1>0, <2>2, <3>1 DEF ExchangeTypeOK, OrderStates, PositionStates
  <2>4. /\ Consistent(type[j], e, executed[j])
        /\ type[j] = "cancel" /\ exchange[j].order # "open"
             => e.order # "open"
    BY <1>0, <2>2 DEF Filled, ExchangeTypeOK, Consistent
  <2>. QED
    BY <1>1, <2>1, <2>2, <2>3, <2>4
<1>. QED
  BY <1>2, <1>3, <1>4

\* The exchange's steps keep the invariant.
LEMMA ExchangeKeeps == IInv /\ ExchangeStep => IInv'
<1>. SUFFICES ASSUME IInv, ExchangeStep PROVE IInv'
  OBVIOUS
<1>1. UNCHANGED <<wall, journal, type, lag, ports, owner, due>>
  BY DEF ExchangeStep, ExchangeExecutes, ExchangeRefuses, OthersAct
<1>2. TypeOK'
  BY <1>1, ExchangeLasting DEF IInv, TypeOK, PortTypeOK
<1>3. ActionsInv'
  BY <1>1, ExchangeLasting, LastingKeeps DEF IInv, ActionsInv
<1>4. ASSUME NEW p \in Ports PROVE PortInv(p)'
  <2>1. ports[p].pc \in Asking => ports[p].row \in JournalIds
    BY DEF IInv, PortInv, Placed
  <2>. QED
    BY <1>1, <2>1, ExchangeLasting, LastingKeeps DEF IInv, PortInv
<1>. QED
  BY <1>2, <1>3, <1>4 DEF IInv

-----------------------------------------------------------------------------
(* The ports' steps *)

\* A step that gives one port a sound frame and one row a sound content.
LEMMA PortKeeps ==
    ASSUME IInv, NEW p \in Ports, NEW f \in PortFrame, NEW j \in JournalIds,
           NEW row \in J!RowType,
           UNCHANGED <<wall, type, exchange, executed, lag, owner>>,
           due' \subseteq JournalIds,
           ports' = [ports EXCEPT ![p] = f],
           Placed(f), f.date <= wall,
           f.pc \in Asking =>
              Believed(f, type[f.row], exchange[f.row], executed[f.row]),
           \/ journal' = journal
           \/ journal' = [journal EXCEPT ![j] = row],
           RowKept(row),
           Truthful(row, type[j], exchange[j], executed[j], wall)
    PROVE  IInv'
<1>1. TypeOK'
  BY DEF IInv, TypeOK, PortTypeOK, ExchangeTypeOK
<1>2. ActionsInv'
  BY DEF IInv, TypeOK, ActionsInv
<1>3. \A q \in Ports : PortInv(q)'
  BY DEF IInv, TypeOK, PortTypeOK, PortInv
<1>. QED
  BY <1>1, <1>2, <1>3 DEF IInv

LEMMA IdleFrame ==
    /\ NoPort \in PortFrame
    /\ NoPort.date = 0 /\ NoPort.order = "unknown" /\ NoPort.stage = "order"
BY Times DEF NoPort, PortFrame, OrderStates, PositionStates, LeverageStates

\* A frame that waits carries no evidence.
WaitsAs(w, port, pc) ==
    /\ w \in PortFrame /\ w.pc = pc /\ w.row = port.row
    /\ w.owner = port.owner /\ w.attempt = port.attempt
    /\ w.date = 0 /\ w.order = "unknown" /\ w.stage = "order"

LEMMA WaitsFrame ==
    ASSUME NEW port \in PortFrame, NEW pc \in {"waiting", "retrying"}
    PROVE  \A t \in Nat : WaitsAs(Waits(port, pc, t), port, pc)
<1>. SUFFICES ASSUME NEW t \in Nat
     PROVE  WaitsAs(Waits(port, pc, t), port, pc)
  OBVIOUS
<1>1. Waits(port, pc, t) \in PortFrame
  BY IdleFrame DEF Waits, PortFrame
<1>. QED
  BY <1>1, IdleFrame DEF Waits, WaitsAs, PortFrame

\* A frame that has returned is no one's.
LEMMA ReturnedFrame ==
    Returned \in PortFrame /\ Returned.pc = "done" /\ Returned.date = 0
<1>1. Returned \in PortFrame
  BY IdleFrame DEF Returned, PortFrame
<1>. QED
  BY <1>1, IdleFrame DEF Returned, PortFrame

\* The head of the loop and a lost lease lead to sound frames.
LEMMA LoopHeadFrame ==
    ASSUME NEW port \in PortFrame, NEW row, row.nextAt \in Nat, wall \in Nat,
           port.row \in JournalIds, port.owner \in Owners
    PROVE  LET f == LoopHead(port, row)
           IN  /\ f \in PortFrame /\ Placed(f) /\ f.date = 0
               /\ f.pc \notin Asking
<1>0. \A t \in Nat : WaitsAs(Waits(port, "waiting", t), port, "waiting")
  BY WaitsFrame
<1>1. Max2(wall, row.nextAt) \in Nat
  BY DEF Max2
<1>2. CASE LoopHead(port, row) = Returned
  BY <1>2, ReturnedFrame DEF Placed, Asking
<1>3. CASE /\ LoopHead(port, row)
                = Waits(port, "waiting", Max2(wall, row.nextAt))
           /\ ~(port.attempt >= MaxForegroundAttempts)
  <2>1. port.attempt < MaxForegroundAttempts
    BY <1>3, Times DEF PortFrame
  <2>. DEFINE t == Max2(wall, row.nextAt)
  <2>2. t \in Nat
    BY <1>1
  <2>. HIDE DEF t
  <2>. DEFINE w == Waits(port, "waiting", t)
  <2>3. WaitsAs(w, port, "waiting")
    BY <1>0, <2>2
  <2>4. LoopHead(port, row) = w
    BY <1>3 DEF t
  <2>. HIDE DEF w
  <2>5. /\ w \in PortFrame /\ Placed(w) /\ w.date = 0
        /\ w.pc \notin Asking
    BY <2>1, <2>3 DEF WaitsAs, Placed, Asking
  <2>. QED
    BY <2>4, <2>5
<1>. QED
  BY <1>2, <1>3 DEF LoopHead

LEMMA LeaseLostFrame ==
    ASSUME NEW port \in PortFrame, wall \in Nat, port.row \in JournalIds,
           port.owner \in Owners, port.attempt < MaxForegroundAttempts
    PROVE  LET f == LeaseLost(port)
           IN  /\ f \in PortFrame /\ Placed(f) /\ f.date = 0
               /\ f.pc \notin Asking
<1>. DEFINE next == [port EXCEPT !.attempt = @ + 1]
            t == wall + LeaseRetry
<1>1. /\ next \in PortFrame /\ next.row = port.row
      /\ next.owner = port.owner
  BY Times DEF PortFrame
<1>2. t \in Nat
  BY Times
<1>3. LeaseLost(port) = Waits(next, "retrying", t)
  BY DEF LeaseLost
<1>. HIDE DEF next, t
<1>. DEFINE w == Waits(next, "retrying", t)
<1>4. /\ w \in PortFrame /\ w.pc = "retrying" /\ w.row = port.row
      /\ w.owner = port.owner /\ w.date = 0
  <2>1. \A n \in Nat :
           WaitsAs(Waits(next, "retrying", n), next, "retrying")
    BY <1>1, WaitsFrame
  <2>. QED
    BY <1>1, <1>2, <2>1 DEF WaitsAs
<1>. HIDE DEF w
<1>5. Placed(w) /\ w.pc \notin Asking
  BY <1>4 DEF Placed, Asking
<1>. QED
  BY <1>3, <1>4, <1>5 DEF w

\* What the invariant says of a port under way and of its row.
LEMMA Underway ==
    ASSUME IInv, NEW p \in Ports,
           ports[p].pc \in {"waiting", "retrying"} \cup Asking
    PROVE  /\ ports[p] \in PortFrame /\ ports[p].row \in JournalIds
           /\ ports[p].owner \in Owners /\ ports[p].date <= wall
           /\ ports[p].pc \in {"waiting"} \cup Asking =>
                 ports[p].attempt < MaxForegroundAttempts
           /\ wall \in Nat /\ lag \in 0..wall
           /\ journal[ports[p].row] \in J!RowType
           /\ RowKept(journal[ports[p].row])
           /\ Truthful(journal[ports[p].row], type[ports[p].row],
                       exchange[ports[p].row], executed[ports[p].row], wall)
BY Times DEF IInv, TypeOK, PortTypeOK, ActionsInv, PortInv, Placed

\* Renewing the lease, then writing a decision the evidence supports.
LEMMA SettleKeeps ==
    ASSUME IInv, NEW p \in Ports, NEW decision, ports[p].pc \in Asking,
           Settle(p, decision),
           UNCHANGED <<wall, type, exchange, executed, lag, owner, due>>,
           decision.kind = "terminal" =>
              /\ decision.state \in Verdicts
              /\ \A row : row.state = decision.state
                          /\ row.expiresAfter
                                = journal[ports[p].row].expiresAfter =>
                    Truthful(row, type[ports[p].row], exchange[ports[p].row],
                             executed[ports[p].row], wall)
    PROVE  IInv'
<1>. DEFINE port == ports[p]
            j == port.row
            row == journal[j]
            later == J!Rescheduled(row, NextAttempt(row))
            next == [port EXCEPT !.attempt = @ + 1]
<1>1. /\ port \in PortFrame /\ j \in JournalIds /\ port.owner \in Owners
      /\ port.attempt < MaxForegroundAttempts
      /\ wall \in Nat /\ row \in J!RowType /\ RowKept(row)
      /\ Truthful(row, type[j], exchange[j], executed[j], wall)
      /\ due \subseteq JournalIds
  BY Underway DEF IInv, TypeOK
<1>2. CASE /\ ports' = [ports EXCEPT ![p] = LeaseLost(port)]
           /\ UNCHANGED journal
  <2>. DEFINE f == LeaseLost(port)
  <2>1. /\ f \in PortFrame /\ Placed(f) /\ f.date <= wall
        /\ f.pc \notin Asking
    BY <1>1, LeaseLostFrame
  <2>2. ports' = [ports EXCEPT ![p] = f]
    BY <1>2
  <2>. HIDE DEF f, row, j, port
  <2>. QED
    BY <1>1, <1>2, <2>1, <2>2, PortKeeps
<1>3. CASE /\ LeaseHeld(j, port.owner)
           /\ decision.kind = "terminal"
           /\ ports' = [ports EXCEPT ![p] = Returned]
           /\ journal' = [journal EXCEPT ![j] =
                            J!Transitioned(@, decision.state)]
  <2>1. LET r == J!Transitioned(row, decision.state)
        IN  /\ r \in J!RowType /\ RowKept(r)
            /\ Truthful(r, type[j], exchange[j], executed[j], wall)
    BY <1>1, <1>3, TransitionedRow DEF RowKept
  <2>2. Placed(Returned) /\ Returned.pc \notin Asking /\ Returned.date <= wall
    BY <1>1, ReturnedFrame DEF Placed, Asking
  <2>. QED
    BY <1>1, <1>3, <2>1, <2>2, ReturnedFrame, PortKeeps
<1>4. CASE /\ ports' = [ports EXCEPT ![p] = LoopHead(next, later)]
           /\ journal' = [journal EXCEPT ![j] = later]
  <2>1. NextAttempt(row) \in Nat
    BY <1>1, NextAttemptTyped
  <2>2. /\ later \in J!RowType /\ later.state = "unresolved"
        /\ RowKept(later)
        /\ Truthful(later, type[j], exchange[j], executed[j], wall)
    BY <1>1, <2>1, RescheduledRow DEF RowKept, Truthful
  <2>3. later.nextAt \in Nat
    BY <2>2 DEF J!RowType
  <2>4. /\ next \in PortFrame /\ next.row = j
        /\ next.owner = port.owner
    BY <1>1, Times DEF PortFrame
  <2>. DEFINE f == LoopHead(next, later)
  <2>. HIDE DEF later, next, row, j, port
  <2>5. /\ f \in PortFrame /\ Placed(f) /\ f.date <= wall
        /\ f.pc \notin Asking
    BY <1>1, <2>3, <2>4, LoopHeadFrame
  <2>6. ports' = [ports EXCEPT ![p] = f]
    BY <1>4 DEF later, next, row, j, port
  <2>7. journal' = [journal EXCEPT ![j] = later]
    BY <1>4 DEF later, row, j, port
  <2>. HIDE DEF f
  <2>. QED
    BY <1>1, <2>2, <2>5, <2>6, <2>7, PortKeeps
<1>. QED
  BY <1>2, <1>3, <1>4 DEF Settle

\* A body that arrives: the next question, or the policy's decision.
LEMMA BodyKeeps ==
    ASSUME IInv, NEW p \in Ports, BodyArrives(p)
    PROVE  IInv'
<1>. DEFINE port == ports[p]
            j == port.row
            decision == DecideReconciliation(Record(j), Evidence(port))
<1>0. port.pc = "reading" /\ port.pc \in Asking
  BY DEF BodyArrives, Asking
<1>1. /\ port \in PortFrame /\ j \in JournalIds
      /\ port.attempt < MaxForegroundAttempts /\ port.owner \in Owners
      /\ port.date <= wall
      /\ wall \in Nat /\ lag \in 0..wall /\ journal[j] \in J!RowType
      /\ RowKept(journal[j])
      /\ Truthful(journal[j], type[j], exchange[j], executed[j], wall)
      /\ due \subseteq JournalIds
      /\ type[j] \in {"create", "close", "cancel", "leverage"}
      /\ Believed(port, type[j], exchange[j], executed[j])
  BY <1>0, Underway, ReconciliationAssumption DEF IInv, TypeOK, PortInv
<1>2. CASE AsksPosition(port)
  <2>. DEFINE f == [port EXCEPT !.pc = "asking", !.stage = "state"]
  <2>1. /\ f \in PortFrame /\ f.row = j /\ f.owner = port.owner
        /\ f.attempt = port.attempt /\ f.date = port.date
        /\ f.order = port.order /\ f.pc = "asking"
    BY <1>1 DEF PortFrame, Asking
  <2>2. type[j] = "close"
    BY <1>2 DEF AsksPosition
  <2>3. Placed(f) /\ Believed(f, type[j], exchange[j], executed[j])
    BY <1>1, <2>1, <2>2 DEF Placed, Believed
  <2>4. ports' = [ports EXCEPT ![p] = f] /\ UNCHANGED journal
    BY <1>2 DEF BodyArrives
  <2>. HIDE DEF f
  <2>. QED
    BY <1>1, <2>1, <2>3, <2>4, PortKeeps DEF BodyArrives
<1>3. CASE ~AsksPosition(port)
  <2>1. /\ Evidence(port) \in Answers
        /\ Evidence(port).openOrder = (Evidence(port).order = "open")
        /\ Evidence(port).order = port.order
        /\ Record(j).type = type[j]
    <3>1. CurrentServerTime \in Int
      BY <1>1 DEF CurrentServerTime
    <3>. QED
      BY <1>1, <3>1 DEF Evidence, Answers, PortFrame, Record
  <2>2. decision.kind = "terminal" =>
            /\ decision.state \in Verdicts
            /\ Supports(type[j], Evidence(port), decision.state)
            /\ decision.state = "expired" =>
                  AtOrAfterExpiry(Record(j), Evidence(port))
    BY <1>1, <2>1, PolicySupported
  <2>3. AtOrAfterExpiry(Record(j), Evidence(port)) =>
            wall > journal[j].expiresAfter
    <3>1. journal[j].expiresAfter \in Nat
      BY <1>1 DEF J!RowType
    <3>. QED
      BY <1>1, <3>1 DEF AtOrAfterExpiry, Record, Evidence, CurrentServerTime
  <2>4. ASSUME decision.kind = "terminal", NEW row,
               row.state = decision.state,
               row.expiresAfter = journal[j].expiresAfter
        PROVE  Truthful(row, type[j], exchange[j], executed[j], wall)
    BY <1>0, <1>1, <2>1, <2>2, <2>3, <2>4 DEF Supports, Believed, Truthful
  <2>5. Settle(p, decision)
    BY <1>3 DEF BodyArrives
  <2>. HIDE DEF decision
  <2>. QED
    BY <1>0, <2>2, <2>4, <2>5, SettleKeeps DEF BodyArrives
<1>. QED
  BY <1>2, <1>3

\* A failed query settles nothing; the port waits.
LEMMA FailureKeeps ==
    ASSUME IInv, NEW p \in Ports, QueryFails(p)
    PROVE  IInv'
BY SettleKeeps DEF QueryFails, Unresolved

\* Starting a port, claiming a lease, going around.
LEMMA StartKeeps ==
    ASSUME IInv, NEW p \in Ports, StartPort(p)
    PROVE  IInv'
<1>. PICK j \in due, startup \in BOOLEAN :
        /\ due' = due \ {j}
        /\ ports' = [ports EXCEPT ![p] =
                       LoopHead([NoPort EXCEPT !.row = j, !.owner = owner,
                                               !.startup = startup],
                                journal[j])]
  BY DEF StartPort
<1>. DEFINE called == [NoPort EXCEPT !.row = j, !.owner = owner,
                                     !.startup = startup]
            f == LoopHead(called, journal[j])
<1>1. /\ j \in JournalIds /\ wall \in Nat /\ owner \in Owners
      /\ due' \subseteq JournalIds
      /\ journal[j] \in J!RowType /\ RowKept(journal[j])
      /\ Truthful(journal[j], type[j], exchange[j], executed[j], wall)
  BY Times DEF IInv, TypeOK, ActionsInv
<1>2. journal[j].nextAt \in Nat
  BY <1>1 DEF J!RowType
<1>3. called \in PortFrame /\ called.row = j /\ called.owner = owner
  BY <1>1, IdleFrame DEF PortFrame
<1>4. ports' = [ports EXCEPT ![p] = f]
  OBVIOUS
<1>. HIDE DEF called
<1>5. /\ f \in PortFrame /\ Placed(f) /\ f.date <= wall
      /\ f.pc \notin Asking
  BY <1>1, <1>2, <1>3, LoopHeadFrame
<1>. HIDE DEF f
<1>. QED
  BY <1>1, <1>4, <1>5, PortKeeps DEF StartPort

LEMMA AttemptKeeps ==
    ASSUME IInv, NEW p \in Ports, Attempt(p)
    PROVE  IInv'
<1>. DEFINE port == ports[p]
            j == port.row
<1>0. port.pc = "waiting"
  BY DEF Attempt
<1>1. /\ port \in PortFrame /\ j \in JournalIds /\ port.owner \in Owners
      /\ port.attempt < MaxForegroundAttempts /\ port.date <= wall
      /\ wall \in Nat /\ journal[j] \in J!RowType /\ RowKept(journal[j])
      /\ Truthful(journal[j], type[j], exchange[j], executed[j], wall)
      /\ due \subseteq JournalIds
  BY <1>0, Underway DEF IInv, TypeOK
<1>2. CASE ports' = [ports EXCEPT ![p] = Returned] /\ UNCHANGED journal
  <2>1. Placed(Returned) /\ Returned.pc \notin Asking /\ Returned.date <= wall
    BY <1>1, ReturnedFrame DEF Placed, Asking
  <2>. QED
    BY <1>1, <1>2, <2>1, ReturnedFrame, PortKeeps DEF Attempt
<1>3. CASE /\ journal[j].state \in J!ReconcilableStates
           /\ ports' = [ports EXCEPT ![p].pc = "asking", ![p].wakeAt = 0]
           /\ journal' = [journal EXCEPT ![j] = J!Leased(@, port.owner)]
  <2>. DEFINE f == [port EXCEPT !.pc = "asking", !.wakeAt = 0]
              row == J!Leased(journal[j], port.owner)
  <2>1. /\ row \in J!RowType /\ row.state = journal[j].state
        /\ row.expiresAfter = journal[j].expiresAfter
    BY <1>1, LeasedRow
  <2>2. journal[j].state = "unresolved"
    BY <1>1, <1>3 DEF RowKept, J!ReconcilableStates, Verdicts
  <2>3. f \in PortFrame
    BY <1>1 DEF PortFrame, Asking
  <2>4. /\ f.pc = "asking" /\ f.row = j /\ f.owner = port.owner
        /\ f.attempt = port.attempt /\ f.date = port.date
        /\ f.order = port.order /\ f.stage = port.stage
    BY <1>1 DEF PortFrame
  <2>5. ports' = [ports EXCEPT ![p] = f]
    BY <1>3 DEF IInv, TypeOK, PortTypeOK, PortFrame
  <2>6. RowKept(row) /\ Truthful(row, type[j], exchange[j], executed[j], wall)
    BY <2>1, <2>2 DEF RowKept, Truthful
  <2>7. journal' = [journal EXCEPT ![j] = row]
    BY <1>3
  <2>8. port.order = "unknown" /\ port.stage = "order"
    BY <1>0 DEF IInv, PortInv, Placed
  <2>9. Placed(f) /\ Believed(f, type[j], exchange[j], executed[j])
    BY <1>1, <2>4, <2>8 DEF Placed, Believed
  <2>. HIDE DEF f, row, j, port
  <2>. QED
    BY <1>1, <2>1, <2>3, <2>4, <2>5, <2>6, <2>7, <2>9, PortKeeps DEF Attempt
<1>4. CASE ports' = [ports EXCEPT ![p] = LeaseLost(port)] /\ UNCHANGED journal
  <2>. DEFINE f == LeaseLost(port)
  <2>1. /\ f \in PortFrame /\ Placed(f) /\ f.date <= wall
        /\ f.pc \notin Asking
    BY <1>1, LeaseLostFrame
  <2>2. ports' = [ports EXCEPT ![p] = f]
    BY <1>4
  <2>. HIDE DEF f, j, port
  <2>. QED
    BY <1>1, <1>4, <2>1, <2>2, PortKeeps DEF Attempt
<1>. QED
  BY <1>2, <1>3, <1>4 DEF Attempt

LEMMA RetryKeeps ==
    ASSUME IInv, NEW p \in Ports, Retry(p)
    PROVE  IInv'
<1>. DEFINE port == ports[p]
            j == port.row
            f == LoopHead(port, journal[j])
<1>0. port.pc = "retrying"
  BY DEF Retry
<1>1. /\ port \in PortFrame /\ j \in JournalIds /\ port.owner \in Owners
      /\ wall \in Nat /\ journal[j] \in J!RowType /\ RowKept(journal[j])
      /\ Truthful(journal[j], type[j], exchange[j], executed[j], wall)
      /\ due \subseteq JournalIds
  BY <1>0, Underway DEF IInv, TypeOK
<1>2. journal[j].nextAt \in Nat
  BY <1>1 DEF J!RowType
<1>3. ports' = [ports EXCEPT ![p] = f]
  BY DEF Retry
<1>4. /\ f \in PortFrame /\ Placed(f) /\ f.date <= wall
      /\ f.pc \notin Asking
  BY <1>1, <1>2, LoopHeadFrame
<1>. HIDE DEF f, j, port
<1>. QED
  BY <1>1, <1>3, <1>4, PortKeeps DEF Retry

\* The answer is the truth of its moment.
LEMMA EvaluateKeeps ==
    ASSUME IInv, NEW p \in Ports, Evaluate(p)
    PROVE  IInv'
<1>. DEFINE port == ports[p]
            j == port.row
            shown == exchange[j]
<1>0. port.pc = "asking" /\ port.pc \in Asking
  BY DEF Evaluate, Asking
<1>1. /\ port \in PortFrame /\ j \in JournalIds /\ port.owner \in Owners
      /\ port.attempt < MaxForegroundAttempts
      /\ wall \in Nat /\ journal[j] \in J!RowType /\ RowKept(journal[j])
      /\ Truthful(journal[j], type[j], exchange[j], executed[j], wall)
      /\ due \subseteq JournalIds
      /\ Believed(port, type[j], exchange[j], executed[j])
      /\ Consistent(type[j], exchange[j], executed[j])
      /\ shown.order \in OrderStates /\ shown.position \in PositionStates
      /\ shown.leverage \in LeverageStates
  BY <1>0, Underway
     DEF IInv, TypeOK, PortInv, ActionsInv, ExchangeTypeOK
<1>2. CASE port.stage = "order"
  <2>. DEFINE f == [port EXCEPT !.pc = "answering", !.date = wall,
                                !.order = shown.order,
                                !.leverage = shown.leverage,
                                !.position = "none"]
  <2>1. f \in PortFrame
    BY <1>1 DEF PortFrame, Asking, PositionStates
  <2>2. /\ f.pc = "answering" /\ f.row = j /\ f.owner = port.owner
        /\ f.attempt = port.attempt /\ f.date = wall
        /\ f.order = shown.order /\ f.stage = port.stage
    BY <1>1 DEF PortFrame
  <2>3. Placed(f) /\ Believed(f, type[j], exchange[j], executed[j])
    BY <1>1, <1>2, <2>2 DEF Placed, Believed, Consistent
  <2>4. ports' = [ports EXCEPT ![p] = f] /\ f.date <= wall
    BY <1>1, <1>2, <2>2 DEF Evaluate
  <2>. HIDE DEF f, j, port, shown
  <2>. QED
    BY <1>1, <2>1, <2>2, <2>3, <2>4, PortKeeps DEF Evaluate
<1>3. CASE port.stage # "order"
  <2>. DEFINE f == [port EXCEPT !.pc = "answering", !.date = wall,
                                !.position = shown.position]
  <2>1. f \in PortFrame
    BY <1>1 DEF PortFrame, Asking
  <2>2. /\ f.pc = "answering" /\ f.row = j /\ f.owner = port.owner
        /\ f.attempt = port.attempt /\ f.date = wall
        /\ f.order = port.order /\ f.stage = port.stage
    BY <1>1 DEF PortFrame
  <2>3. Placed(f) /\ Believed(f, type[j], exchange[j], executed[j])
    BY <1>1, <1>3, <2>2 DEF Placed, Believed
  <2>4. ports' = [ports EXCEPT ![p] = f] /\ f.date <= wall
    BY <1>1, <1>3, <2>2 DEF Evaluate
  <2>. HIDE DEF f, j, port, shown
  <2>. QED
    BY <1>1, <2>1, <2>2, <2>3, <2>4, PortKeeps DEF Evaluate
<1>. QED
  BY <1>2, <1>3

\* The sample is never ahead: a Date header is not later than its arrival.
LEMMA HeadersKeep ==
    ASSUME IInv, NEW p \in Ports, HeadersArrive(p)
    PROVE  IInv'
<1>. DEFINE port == ports[p]
            j == port.row
            f == [port EXCEPT !.pc = "reading", !.date = 0]
<1>0. port.pc = "answering" /\ port.pc \in Asking
  BY DEF HeadersArrive, Asking
<1>1. /\ port \in PortFrame /\ j \in JournalIds /\ port.owner \in Owners
      /\ port.attempt < MaxForegroundAttempts /\ port.date <= wall
      /\ wall \in Nat
      /\ Believed(port, type[j], exchange[j], executed[j])
  BY <1>0, Underway DEF IInv, PortInv
<1>2. f \in PortFrame
  BY <1>1 DEF PortFrame, Asking
<1>3. /\ f.pc = "reading" /\ f.row = j /\ f.owner = port.owner
      /\ f.attempt = port.attempt /\ f.date = 0
      /\ f.order = port.order /\ f.stage = port.stage
  BY <1>1 DEF PortFrame
<1>4. Placed(f) /\ Believed(f, type[j], exchange[j], executed[j])
  BY <1>0, <1>1, <1>3 DEF Placed, Believed
<1>5. ports' = [ports EXCEPT ![p] = f]
  BY DEF HeadersArrive, IInv, TypeOK, PortTypeOK, PortFrame
<1>6. lag' \in 0..wall
  BY <1>1 DEF HeadersArrive, PortFrame
<1>7. UNCHANGED <<wall, journal, type, exchange, executed, owner, due>>
  BY DEF HeadersArrive
<1>. HIDE DEF f, j, port
<1>8. TypeOK'
  BY <1>1, <1>2, <1>3, <1>5, <1>6, <1>7
     DEF IInv, TypeOK, PortTypeOK, ExchangeTypeOK
<1>9. ActionsInv'
  BY <1>7 DEF IInv, ActionsInv
<1>10. \A q \in Ports : PortInv(q)'
  BY <1>3, <1>4, <1>5, <1>7 DEF IInv, TypeOK, PortTypeOK, PortInv
<1>. QED
  BY <1>8, <1>9, <1>10 DEF IInv

-----------------------------------------------------------------------------
(* The process *)

\* Mounting a runtime rewrites no row; a crash empties the frames.
LEMMA RestartKeeps ==
    ASSUME IInv, NEW o \in Owners, NEW crash \in BOOLEAN, Restart(o, crash)
    PROVE  IInv'
<1>1. /\ UNCHANGED <<wall, type, exchange, executed>>
      /\ owner' = o /\ due' \subseteq JournalIds
  BY DEF Restart, Reconcilable
<1>2. journal' = journal
  <2>1. \A j \in JournalIds : J!Recovered(journal[j]) = journal[j]
    BY RecoveredRow DEF IInv, ActionsInv, RowKept
  <2>2. journal = [j \in JournalIds |-> journal[j]]
    BY DEF IInv, TypeOK
  <2>. QED
    BY <2>1, <2>2 DEF Restart
<1>3. wall \in Nat
  BY Times DEF IInv, TypeOK
<1>4. /\ ports' = [p \in Ports |-> NoPort] /\ lag' = 0
      \/ UNCHANGED <<ports, lag>>
  BY DEF Restart
<1>5. NoPort.pc = "idle"
  BY DEF NoPort
<1>6. TypeOK'
  BY <1>1, <1>2, <1>3, <1>4, IdleFrame
     DEF IInv, TypeOK, PortTypeOK, ExchangeTypeOK
<1>7. ActionsInv'
  BY <1>1, <1>2 DEF IInv, ActionsInv
<1>8. \A p \in Ports : PortInv(p)'
  <2>1. CASE ports' = [p \in Ports |-> NoPort]
    BY <1>5, <2>1 DEF PortInv, Placed, Asking
  <2>2. CASE UNCHANGED ports
    BY <1>1, <2>2 DEF IInv, PortInv
  <2>. QED
    BY <1>4, <2>1, <2>2
<1>. QED
  BY <1>6, <1>7, <1>8 DEF IInv

\* Time only adds to what has expired.
LEMMA TickKeeps == IInv /\ Tick => IInv'
<1>. SUFFICES ASSUME IInv, Tick PROVE IInv'
  OBVIOUS
<1>1. /\ wall' = wall + 1 /\ wall' \in 0..MaxTime /\ wall \in Nat
      /\ UNCHANGED <<journal, type, exchange, executed, lag, ports, owner,
                     due>>
  BY Times DEF Tick, IInv, TypeOK
<1>2. TypeOK'
  <2>1. \A p \in Ports : ports[p].date \in Nat /\ ports[p].date <= wall
    BY DEF IInv, TypeOK, PortTypeOK, PortFrame
  <2>2. lag' \in 0..wall'
    BY <1>1 DEF IInv, TypeOK
  <2>. QED
    BY <1>1, <2>1, <2>2 DEF IInv, TypeOK, PortTypeOK, ExchangeTypeOK
<1>3. ActionsInv'
  <2>1. \A j \in JournalIds : journal[j].expiresAfter \in Nat
    BY DEF IInv, TypeOK, J!RowType
  <2>. QED
    BY <1>1, <2>1 DEF IInv, ActionsInv, Truthful
<1>4. \A p \in Ports : PortInv(p)'
  BY <1>1 DEF IInv, PortInv
<1>. QED
  BY <1>2, <1>3, <1>4 DEF IInv

LEMMA InvNext == IInv /\ [Next]_vars => IInv'
<1>. SUFFICES ASSUME IInv, [Next]_vars PROVE IInv'
  OBVIOUS
<1>1. CASE ExchangeStep
  BY <1>1, ExchangeKeeps
<1>2. ASSUME NEW p \in Ports, StartPort(p) PROVE IInv'
  BY <1>2, StartKeeps
<1>3. ASSUME NEW p \in Ports, PortStep(p) PROVE IInv'
  BY <1>3, AttemptKeeps, RetryKeeps, EvaluateKeeps, HeadersKeep, BodyKeeps
     DEF PortStep
<1>4. ASSUME NEW p \in Ports, QueryFails(p) PROVE IInv'
  BY <1>4, FailureKeeps
<1>5. ASSUME NEW o \in Owners, NEW crash \in BOOLEAN, Restart(o, crash)
      PROVE  IInv'
  BY <1>5, RestartKeeps
<1>6. CASE Tick
  BY <1>6, TickKeeps
<1>7. CASE UNCHANGED vars
  BY <1>7
     DEF vars, IInv, TypeOK, PortTypeOK, ExchangeTypeOK, ActionsInv, PortInv
<1>. QED
  BY <1>1, <1>2, <1>3, <1>4, <1>5, <1>6, <1>7 DEF Next

-----------------------------------------------------------------------------
(* Theorems *)

\* The state of the reconciler, the exchange and the journal keeps its types,
\* for any sets of actions, ports and owners, and any times.
THEOREM TypeCorrect == Spec => []TypeOK
<1>1. IInv => TypeOK
  BY DEF IInv
<1>. QED
  BY <1>1, InvInit, InvNext, PTL DEF Spec

\* What reconcileAction writes is the truth, whatever answers were late,
\* failed or overtaken, whichever port or restarted runtime wrote it, and
\* whatever other clients did meanwhile.
THEOREM VerdictsAreTrue == Spec => []VerdictIsTrue
<1>1. IInv => VerdictIsTrue
  BY DEF IInv, ActionsInv, Truthful, VerdictIsTrue
<1>. QED
  BY <1>1, InvInit, InvNext, PTL DEF Spec

-----------------------------------------------------------------------------
(* The ports keep what ActionLife promises *)

\* What the rows of lost responses and of verdicts say of their actions.
LEMMA LifeOfKept ==
    ASSUME NEW row, row.state \in Verdicts \cup {"unresolved"}
    PROVE  J!LifeOf(row) = IF row.state = "unresolved" THEN "submitted" ELSE row.state
BY DEF J!LifeOf, J!ReconcilableStates, Verdicts

\* The rewriting of rows leaves what was asked for.
LEMMA RequestsKept ==
    ASSUME NEW row \in J!RowType
    PROVE  /\ \A o : J!RequestOf(J!Leased(row, o)) = J!RequestOf(row)
           /\ \A s : J!RequestOf(J!Transitioned(row, s)) = J!RequestOf(row)
           /\ \A t : J!RequestOf(J!Rescheduled(row, t)) = J!RequestOf(row)
BY DEF J!RequestOf, J!Leased, J!Rescheduled, J!Transitioned, J!Unleased, J!RowType

\* A row that waits goes on waiting or is settled; a settled one is what it was.
LEMMA OneSettles ==
    ASSUME IInv, NEW j \in JournalIds, NEW row,
           row.state \in Verdicts \cup {"unresolved"},
           row.state = journal[j].state \/ journal[j].state = "unresolved",
           J!RequestOf(row) = J!RequestOf(journal[j]),
           journal' = [journal EXCEPT ![j] = row]
    PROVE  [Contract!Next]_(Contract!lifeVars)
<1>1. /\ journal \in [JournalIds -> J!RowType]
      /\ journal[j].state \in Verdicts \cup {"unresolved"}
  BY DEF IInv, TypeOK, ActionsInv, RowKept
<1>2. \A i \in JournalIds : journal'[i] = IF i = j THEN row ELSE journal[i]
  BY <1>1
<1>3. [i \in JournalIds |-> J!RequestOf(journal'[i])]
         = [i \in JournalIds |-> J!RequestOf(journal[i])]
  BY <1>2
<1>4. CASE row.state = journal[j].state
  <2>1. J!LifeOf(row) = J!LifeOf(journal[j])
    BY <1>1, <1>4, LifeOfKept
  <2>2. [i \in JournalIds |-> J!LifeOf(journal'[i])]
           = [i \in JournalIds |-> J!LifeOf(journal[i])]
    BY <1>2, <2>1
  <2>. QED
    BY <1>3, <2>2 DEF Contract!lifeVars
<1>5. CASE row.state # "unresolved" /\ journal[j].state = "unresolved"
  <2>1. /\ J!LifeOf(journal[j]) = "submitted" /\ J!LifeOf(row) = row.state
        /\ row.state \in Contract!Outcome
    BY <1>1, <1>5, LifeOfKept DEF Verdicts, Contract!Outcome
  <2>2. \A i \in JournalIds :
           J!LifeOf(journal'[i]) = IF i = j THEN row.state ELSE J!LifeOf(journal[i])
    BY <1>2, <2>1
  <2>3. [i \in JournalIds |-> J!LifeOf(journal'[i])]
           = [[i \in JournalIds |-> J!LifeOf(journal[i])] EXCEPT ![j] = row.state]
    BY <2>2
  <2>4. Contract!Settle(j)
    BY <1>3, <2>1, <2>3 DEF Contract!Settle
  <2>. QED
    BY <2>4 DEF Contract!Next
<1>. QED
  BY <1>4, <1>5

\* A step that rewrites no row is none of the contract's.
LEMMA RowsAlone ==
    ASSUME journal' = journal
    PROVE  [Contract!Next]_(Contract!lifeVars)
BY DEF Contract!lifeVars

\* The policy settles with a verdict.
LEMMA PolicyVerdict ==
    ASSUME IInv, NEW p \in Ports, ports[p].pc = "reading",
           DecideReconciliation(Record(ports[p].row), Evidence(ports[p])).kind = "terminal"
    PROVE  DecideReconciliation(Record(ports[p].row), Evidence(ports[p])).state \in Verdicts
<1>. DEFINE port == ports[p]
<1>1. port.pc \in Asking
  BY DEF Asking
<1>2. /\ port \in PortFrame /\ port.row \in JournalIds
      /\ wall \in Nat /\ lag \in 0..wall
      /\ type[port.row] \in {"create", "close", "cancel", "leverage"}
  BY <1>1, Underway, ReconciliationAssumption DEF IInv, TypeOK
<1>3. /\ Evidence(port) \in Answers
      /\ Evidence(port).openOrder = (Evidence(port).order = "open")
      /\ Record(port.row).type = type[port.row]
  <2>1. CurrentServerTime \in Int
    BY <1>2 DEF CurrentServerTime
  <2>. QED
    BY <1>2, <2>1 DEF Evidence, Answers, PortFrame, Record
<1>. HIDE DEF port
<1>. QED
  BY <1>2, <1>3, PolicySupported DEF port

\* A port settles or reschedules only the row it has the lease of, and no settled
\* row has one.
LEMMA SettlesOne ==
    ASSUME IInv, NEW p \in Ports, NEW decision, ports[p].pc \in Asking,
           Settle(p, decision),
           decision.kind = "terminal" => decision.state \in Verdicts
    PROVE  [Contract!Next]_(Contract!lifeVars)
<1>. DEFINE port == ports[p]
            j == port.row
            later == J!Rescheduled(journal[j], NextAttempt(journal[j]))
            settled == J!Transitioned(journal[j], decision.state)
<1>1. /\ j \in JournalIds /\ port.owner \in Owners /\ wall \in Nat
      /\ journal[j] \in J!RowType /\ RowKept(journal[j])
  BY Underway
<1>2. LeaseHeld(j, port.owner) => journal[j].state = "unresolved"
  <2>1. port.owner # "none"
    BY <1>1, ReconciliationAssumption
  <2>. QED
    BY <1>1, <2>1 DEF LeaseHeld, RowKept
<1>3. CASE UNCHANGED journal
  BY <1>3, RowsAlone
<1>4. CASE /\ LeaseHeld(j, port.owner) /\ decision.kind = "terminal"
           /\ journal' = [journal EXCEPT ![j] = settled]
  <2>1. settled.state = decision.state
    BY <1>1, <1>4, TransitionedRow
  <2>2. J!RequestOf(settled) = J!RequestOf(journal[j])
    BY <1>1, RequestsKept
  <2>3. /\ settled.state \in Verdicts \cup {"unresolved"}
        /\ journal[j].state = "unresolved"
    BY <1>2, <1>4, <2>1
  <2>. HIDE DEF settled, j
  <2>. QED
    BY <1>1, <1>4, <2>2, <2>3, OneSettles
<1>5. CASE /\ LeaseHeld(j, port.owner)
           /\ journal' = [journal EXCEPT ![j] = later]
  <2>1. NextAttempt(journal[j]) \in Nat
    BY <1>1, NextAttemptTyped
  <2>2. later.state = "unresolved" /\ journal[j].state = "unresolved"
    BY <1>1, <1>2, <1>5, <2>1, RescheduledRow
  <2>3. J!RequestOf(later) = J!RequestOf(journal[j])
    BY <1>1, RequestsKept
  <2>. HIDE DEF later, j
  <2>. QED
    BY <1>1, <1>5, <2>2, <2>3, OneSettles
<1>. QED
  BY <1>3, <1>4, <1>5 DEF Settle

\* Every step of the ports, the exchange and the process is one of the contract, or
\* none.
LEMMA LifeNext ==
    ASSUME IInv, [Next]_vars
    PROVE  [Contract!Next]_(Contract!lifeVars)
<1>1. ASSUME NEW p \in Ports, Attempt(p)
      PROVE  [Contract!Next]_(Contract!lifeVars)
  <2>. DEFINE port == ports[p]
              j == port.row
              row == J!Leased(journal[j], port.owner)
  <2>1. port.pc = "waiting"
    BY <1>1 DEF Attempt
  <2>2. /\ j \in JournalIds /\ port.owner \in Owners /\ wall \in Nat
        /\ journal[j] \in J!RowType /\ RowKept(journal[j])
    BY <2>1, Underway
  <2>3. CASE journal' = journal
    BY <2>3, RowsAlone
  <2>4. CASE journal' = [journal EXCEPT ![j] = row]
    <3>1. row.state = journal[j].state
      BY <2>2, LeasedRow
    <3>2. J!RequestOf(row) = J!RequestOf(journal[j])
      BY <2>2, RequestsKept
    <3>3. row.state \in Verdicts \cup {"unresolved"}
      BY <2>2, <3>1 DEF RowKept
    <3>. HIDE DEF row, j
    <3>. QED
      BY <2>2, <2>4, <3>1, <3>2, <3>3, OneSettles
  <2>. QED
    BY <1>1, <2>3, <2>4 DEF Attempt
<1>2. ASSUME NEW p \in Ports, BodyArrives(p)
      PROVE  [Contract!Next]_(Contract!lifeVars)
  <2>. DEFINE decision == DecideReconciliation(Record(ports[p].row), Evidence(ports[p]))
  <2>1. ports[p].pc = "reading" /\ ports[p].pc \in Asking
    BY <1>2 DEF BodyArrives, Asking
  <2>2. CASE journal' = journal
    BY <2>2, RowsAlone
  <2>3. CASE Settle(p, decision)
    <3>1. decision.kind = "terminal" => decision.state \in Verdicts
      BY <2>1, PolicyVerdict
    <3>. HIDE DEF decision
    <3>. QED
      BY <2>1, <2>3, <3>1, SettlesOne
  <2>. QED
    BY <1>2, <2>2, <2>3 DEF BodyArrives
<1>3. ASSUME NEW p \in Ports, QueryFails(p)
      PROVE  [Contract!Next]_(Contract!lifeVars)
  <2>1. Unresolved.kind # "terminal"
    BY DEF Unresolved
  <2>. QED
    BY <1>3, <2>1, SettlesOne DEF QueryFails
<1>4. ASSUME NEW o \in Owners, NEW crash \in BOOLEAN, Restart(o, crash)
      PROVE  [Contract!Next]_(Contract!lifeVars)
  <2>1. \A j \in JournalIds : J!Recovered(journal[j]) = journal[j]
    BY RecoveredRow DEF IInv, ActionsInv, RowKept
  <2>2. journal = [j \in JournalIds |-> journal[j]]
    BY DEF IInv, TypeOK
  <2>3. journal' = journal
    BY <1>4, <2>1, <2>2 DEF Restart
  <2>. QED
    BY <2>3, RowsAlone
<1>5. CASE \/ ExchangeStep \/ Tick \/ UNCHANGED vars
           \/ \E p \in Ports : StartPort(p) \/ Retry(p) \/ Evaluate(p) \/ HeadersArrive(p)
  <2>1. journal' = journal
    BY <1>5 DEF ExchangeStep, ExchangeExecutes, ExchangeRefuses, OthersAct, Tick, vars,
       StartPort, Retry, Evaluate, HeadersArrive
  <2>. QED
    BY <2>1, RowsAlone
<1>. QED
  BY <1>1, <1>2, <1>3, <1>4, <1>5 DEF Next, PortStep

\* Whatever order ports, remounts, failing queries and lost leases come in, an
\* action that waits for its outcome is settled at most once, and what it asked for
\* never changes.
THEOREM PortsSettleOnce == Spec => PortsKeepActionLife
<1>1. IInv /\ [Next]_vars => [Contract!Next]_(Contract!lifeVars)
  BY LifeNext
<1>. QED
  BY <1>1, InvInit, InvNext, PTL DEF Spec, PortsKeepActionLife

=============================================================================
