------------------------ MODULE ActionJournalProofs ------------------------
(***************************************************************************)
(* Proofs about ActionJournal, for any number of signers, rows, owners and *)
(* repository instances and any values of the timing constants; last, that *)
(* the journal implements ActionLife, step by step.                        *)
(***************************************************************************)
EXTENDS ActionJournal, TLAPS

-----------------------------------------------------------------------------
(* Rows and scopes keep their types *)

\* The empty row and scope are values of the schema.
LEMMA EmptyTyped == NoRow \in RowType /\ NoScope \in ScopeType
BY DEF NoRow, NoScope, RowType, ScopeType, Null, JournalStates, ResultClasses

\* assertJournalResultClass has a class for every journal state.
LEMMA ResultTyped == \A s \in JournalStates : ResultForState(s) \in ResultClasses
BY DEF ResultForState, JournalStates, ResultClasses, ReconcilableStates,
       TerminalStates

\* The allocator returns naturals above the scope's last nonce.
LEMMA NonceAllocated ==
    ASSUME wall \in Nat, NEW s \in ScopeType
    PROVE  /\ AllocatedNonce(s) \in Nat
           /\ AllocatedNonce(s) > s.lastNonce
           /\ AllocatedNonce(s) >= wall
           /\ AllocatedExpiry \in Nat
           /\ AllocatedExpiry - AllocatedNonce(s) <= ActionExpiry
BY TimingAssumption
   DEF AllocatedNonce, AllocatedExpiry, Max2, ScopeType, Null

\* reservePreparedAction inserts a row of the schema.
LEMMA PreparedTyped ==
    ASSUME TypeOK, NEW a \in Agents, NEW intent \in Intents
    PROVE  PreparedRow(a, intent) \in RowType
<1>1. /\ scopes[a] \in ScopeType /\ wall \in Nat
  BY DEF TypeOK
<1>2. AllocatedNonce(scopes[a]) \in Nat /\ AllocatedExpiry \in Nat
  BY <1>1, NonceAllocated
<1>3. scopes[a].account \in Accounts \cup {"none"}
  BY <1>1 DEF ScopeType
<1>. QED
  BY <1>1, <1>2, <1>3 DEF PreparedRow, NoRow, RowType, JournalStates, Null,
     ResultClasses

\* Counting an attempt keeps the schema.
LEMMA AttemptTyped ==
    ASSUME NEW u \in RowType, NEW t \in Nat
    PROVE  [u EXCEPT !.attempts = @ + 1, !.nextAt = t] \in RowType
<1>1. u.attempts + 1 \in Nat
  BY DEF RowType
<1>2. [u EXCEPT !.attempts = u.attempts + 1] \in RowType
  BY <1>1 DEF RowType
<1>3. ASSUME NEW v \in RowType PROVE [v EXCEPT !.nextAt = t] \in RowType
  BY DEF RowType
<1>. QED BY <1>2, <1>3

\* Every operation rewrites a row of the schema into a row of the schema.
LEMMA RewrittenTyped ==
    ASSUME wall \in Nat, NEW row \in RowType
    PROVE  /\ Recovered(row) \in RowType
           /\ SubmissionStarted(row) \in RowType
           /\ Unleased(row) \in RowType
           /\ \A s \in JournalStates : Transitioned(row, s) \in RowType
           /\ \A owner \in Owners : Leased(row, owner) \in RowType
           /\ \A t \in Nat : Rescheduled(row, t) \in RowType
<1>1. Recovered(row) \in RowType
  BY DEF Recovered, RowType, JournalStates, ReconcilableStates,
     TerminalStates, ResultClasses
<1>2. SubmissionStarted(row) \in RowType
  BY DEF SubmissionStarted, RowType, JournalStates, ReconcilableStates
<1>3. Unleased(row) \in RowType
  BY DEF Unleased, RowType, Null
<1>4. \A s \in JournalStates : Transitioned(row, s) \in RowType
  BY <1>3, ResultTyped DEF Transitioned, RowType, JournalStates
<1>5. ASSUME NEW owner \in Owners PROVE Leased(row, owner) \in RowType
  <2>1. wall + LeaseDuration \in Nat
    BY TimingAssumption
  <2>. QED BY <2>1 DEF Leased, RowType
<1>6. ASSUME NEW t \in Nat PROVE Rescheduled(row, t) \in RowType
  <2>1. Transitioned(row, "unresolved") \in RowType
    BY <1>4 DEF JournalStates, ReconcilableStates
  <2>. QED BY <2>1, AttemptTyped DEF Rescheduled
<1>. QED BY <1>1, <1>2, <1>3, <1>4, <1>5, <1>6

\* Every state a caller names is a journal state.
LEMMA CallerStatesTyped == CallerStates \subseteq JournalStates
BY OutcomesAssumption
   DEF CallerStates, JournalStates, ReconcilableStates, TerminalStates

-----------------------------------------------------------------------------
(* Type correctness *)

\* The empty database is well typed.
LEMMA TypeInit == Init => TypeOK
BY EmptyTyped, TimingAssumption DEF Init, TypeOK

\* Every repository call, crash and clock change keeps the types.
LEMMA TypeNext == TypeOK /\ [Next]_vars => TypeOK'
<1>. SUFFICES ASSUME TypeOK, [Next]_vars PROVE TypeOK'
  OBVIOUS
<1>. USE DEF TypeOK
<1>1. ASSUME NEW a \in Agents, NEW account \in Accounts,
             RegisterActiveSignerScope(a, account)
      PROVE  TypeOK'
  BY <1>1 DEF RegisterActiveSignerScope, memory, NoScope, ScopeType, Null
<1>2. ASSUME NEW a \in Agents, MarkSignerRetiring(a) PROVE TypeOK'
  BY <1>2 DEF MarkSignerRetiring, memory, ScopeType
<1>3. ASSUME NEW a \in Agents, NEW reason \in RetirementReasons,
             RetireSignerScope(a, reason)
      PROVE  TypeOK'
  <2>1. [agent |-> a, lastNonce |-> TombstoneNonce(scopes[a]),
         reason |-> reason] \in TombstoneType
    BY DEF TombstoneType, TombstoneNonce, Max2, ScopeType, Null
  <2>2. tombstones' \in Seq(TombstoneType)
    BY <2>1, <1>3 DEF RetireSignerScope
  <2>. QED
    BY <2>2, <1>3 DEF RetireSignerScope, memory, ScopeType
<1>4. ASSUME NEW r \in Repositories, NEW j \in JournalIds, NEW a \in Agents,
             NEW account \in Accounts, NEW intent \in Intents,
             NEW clock \in ClockReadings,
             ReservePreparedAction(r, j, a, account, intent, clock)
      PROVE  TypeOK'
  <2>1. PreparedRow(a, intent) \in RowType
    BY PreparedTyped
  <2>2. AllocatedNonce(scopes[a]) \in Nat
    BY NonceAllocated
  <2>3. NonceIssued(scopes[a]) \in ScopeType
    BY <2>2 DEF NonceIssued, ScopeType
  <2>. QED
    BY <1>4, <2>1, <2>3 DEF ReservePreparedAction
<1>5. ASSUME NEW r \in Repositories, NEW j \in JournalIds,
             MarkSubmissionStarted(r, j)
      PROVE  TypeOK'
  BY <1>5, RewrittenTyped DEF MarkSubmissionStarted
<1>6. ASSUME NEW r \in Repositories, NEW j \in JournalIds,
             ForgetExpiredReservation(r, j)
      PROVE  TypeOK'
  BY <1>6 DEF ForgetExpiredReservation
<1>7. ASSUME NEW r \in Repositories, NEW j \in JournalIds,
             NEW next \in CallerStates, TransitionAction(r, j, next)
      PROVE  TypeOK'
  BY <1>7, RewrittenTyped, CallerStatesTyped DEF TransitionAction
<1>8. ASSUME NEW j \in JournalIds, ConsumePermit(j) PROVE TypeOK'
  BY <1>8 DEF ConsumePermit
<1>9. ASSUME NEW j \in JournalIds, NEW owner \in Owners,
             ClaimReconciliationLease(j, owner)
      PROVE  TypeOK'
  BY <1>9, RewrittenTyped DEF ClaimReconciliationLease, memory
<1>10. ASSUME NEW j \in JournalIds, NEW owner \in Owners,
              RenewReconciliationLease(j, owner)
       PROVE  TypeOK'
  BY <1>10, RewrittenTyped DEF RenewReconciliationLease, memory
<1>11. ASSUME NEW j \in JournalIds, NEW owner \in Owners,
              ReleaseReconciliationLease(j, owner)
       PROVE  TypeOK'
  BY <1>11, RewrittenTyped DEF ReleaseReconciliationLease, memory
<1>12. ASSUME NEW j \in JournalIds, NEW owner \in Owners,
              NEW nextAt \in wall..(wall + MaxBackoff),
              ScheduleReconciliation(j, owner, nextAt)
       PROVE  TypeOK'
  <2>1. nextAt \in Nat
    BY TimingAssumption
  <2>. QED BY <1>12, <2>1, RewrittenTyped DEF ScheduleReconciliation, memory
<1>13. ASSUME NEW r \in Repositories, OpenRepository(r) PROVE TypeOK'
  BY <1>13 DEF OpenRepository
<1>14. ASSUME NEW r \in Repositories, RecoverAfterRestart(r) PROVE TypeOK'
  BY <1>14, RewrittenTyped DEF RecoverAfterRestart
<1>15. ASSUME Crash PROVE TypeOK'
  BY <1>15 DEF Crash
<1>16. ASSUME NEW t \in 0..MaxTime, SetWallClock(t) PROVE TypeOK'
  BY <1>16, TimingAssumption DEF SetWallClock, memory
<1>17. ASSUME UNCHANGED vars PROVE TypeOK'
  BY <1>17 DEF vars
<1>. QED
  BY <1>1, <1>2, <1>3, <1>4, <1>5, <1>6, <1>7, <1>8, <1>9, <1>10, <1>11,
     <1>12, <1>13, <1>14, <1>15, <1>16, <1>17
     DEF Next, SignerStep, ReservationStep, SubmissionStep, LeaseStep,
         ProcessStep, ClaimNextReconciliation

\* Type correctness of the repository, for every value of the constants.
THEOREM TypeCorrect == Spec => []TypeOK
BY TypeInit, TypeNext, PTL DEF Spec

-----------------------------------------------------------------------------
(* What one step does to one row *)

\* An absent row holds no lease, so no lease operation can create it.
AbsentUnleased ==
    \A j \in JournalIds :
        journal[j].state = "absent" => journal[j].leaseOwner = "none"

RowsInv == StoredRowsValid /\ AbsentUnleased

Reserved(j) ==
    /\ journal[j].state = "absent"
    /\ \E a \in Agents, intent \in Intents :
          /\ AllocatedExpiry > AllocatedNonce(scopes[a])
          /\ journal'[j] = PreparedRow(a, intent)

Started(j) ==
    /\ MayMarkSubmissionStarted(j)
    /\ journal'[j] = SubmissionStarted(journal[j])

Moved(j) ==
    \E next \in CallerStates :
        /\ journal[j].state # "absent"
        /\ next \in AllowedTransitions[journal[j].state]
        /\ journal'[j] = Transitioned(journal[j], next)

Claimed(j) ==
    \E owner \in Owners :
        /\ \/ journal[j].state \in ReconcilableStates
           \/ journal[j].leaseOwner = owner
        /\ journal'[j] = Leased(journal[j], owner)

LetGo(j) ==
    /\ journal[j].leaseOwner \in Owners
    /\ \/ journal'[j] = Unleased(journal[j])
       \/ \E t \in Nat : journal'[j] = Rescheduled(journal[j], t)

RowStep(j) ==
    \/ journal'[j] = journal[j]
    \/ Reserved(j)
    \/ Started(j)
    \/ Moved(j)
    \/ Claimed(j)
    \/ LetGo(j)
    \/ journal'[j] = Recovered(journal[j])

\* Every step does one of the listed things to each row.
LEMMA StepOfRow ==
    ASSUME TypeOK, [Next]_vars, NEW j \in JournalIds
    PROVE  RowStep(j)
<1>. USE DEF TypeOK
<1>1. ASSUME NEW r \in Repositories, NEW i \in JournalIds, NEW a \in Agents,
             NEW account \in Accounts, NEW intent \in Intents,
             NEW clock \in ClockReadings,
             ReservePreparedAction(r, i, a, account, intent, clock)
      PROVE  RowStep(j)
  BY <1>1 DEF ReservePreparedAction, RowStep, Reserved
<1>2. ASSUME NEW r \in Repositories, NEW i \in JournalIds,
             MarkSubmissionStarted(r, i)
      PROVE  RowStep(j)
  BY <1>2 DEF MarkSubmissionStarted, RowStep, Started
<1>3. ASSUME NEW r \in Repositories, NEW i \in JournalIds,
             NEW next \in CallerStates, TransitionAction(r, i, next)
      PROVE  RowStep(j)
  BY <1>3 DEF TransitionAction, RowStep, Moved
<1>4. ASSUME NEW i \in JournalIds, NEW owner \in Owners,
             \/ ClaimReconciliationLease(i, owner)
             \/ RenewReconciliationLease(i, owner)
      PROVE  RowStep(j)
  BY <1>4 DEF ClaimReconciliationLease, RenewReconciliationLease, RowStep,
     Claimed
<1>5. ASSUME NEW i \in JournalIds, NEW owner \in Owners,
             ReleaseReconciliationLease(i, owner)
      PROVE  RowStep(j)
  BY <1>5 DEF ReleaseReconciliationLease, RowStep, LetGo
<1>6. ASSUME NEW i \in JournalIds, NEW owner \in Owners,
             NEW nextAt \in wall..(wall + MaxBackoff),
             ScheduleReconciliation(i, owner, nextAt)
      PROVE  RowStep(j)
  <2>1. nextAt \in Nat
    BY TimingAssumption
  <2>. QED
    BY <1>6, <2>1 DEF ScheduleReconciliation, RowStep, LetGo
<1>7. ASSUME NEW r \in Repositories, RecoverAfterRestart(r)
      PROVE  RowStep(j)
  BY <1>7 DEF RecoverAfterRestart, RowStep
<1>8. ASSUME \/ \E r \in Repositories : OpenRepository(r)
             \/ Crash
             \/ \E t \in 0..MaxTime : SetWallClock(t)
             \/ SignerStep
             \/ \E i \in JournalIds : ConsumePermit(i)
             \/ \E r \in Repositories, i \in JournalIds :
                   ForgetExpiredReservation(r, i)
             \/ UNCHANGED vars
      PROVE  RowStep(j)
  BY <1>8 DEF OpenRepository, Crash, SetWallClock, SignerStep,
     RegisterActiveSignerScope, MarkSignerRetiring, RetireSignerScope,
     ConsumePermit, ForgetExpiredReservation, vars, RowStep
<1>. QED
  BY <1>1, <1>2, <1>3, <1>4, <1>5, <1>6, <1>7, <1>8
     DEF Next, ReservationStep, SubmissionStep, LeaseStep, ProcessStep,
         ClaimNextReconciliation

-----------------------------------------------------------------------------
(* Stored rows stay valid *)

\* The rewriting operators keep a row that assertStoredRecord accepts valid,
\* under the conditions of the operation that uses them.
LEMMA RewrittenValid ==
    ASSUME TypeOK, RowsInv, NEW j \in JournalIds, RowStep(j)
    PROVE  IF journal'[j].state = "absent"
           THEN journal'[j].leaseOwner = "none"
           ELSE ValidRow(journal'[j])
<1>. DEFINE row == journal[j]
            Goal == IF journal'[j].state = "absent"
                    THEN journal'[j].leaseOwner = "none"
                    ELSE ValidRow(journal'[j])
<1>0. /\ row \in RowType
      /\ wall \in Nat
      /\ row.state = "absent" => row.leaseOwner = "none"
      /\ row.state # "absent" => ValidRow(row)
  BY DEF TypeOK, RowsInv, StoredRowsValid, AbsentUnleased, Rows
<1>. USE DEF RowType, Null, JournalStates, ReconcilableStates, TerminalStates
<1>1. CASE journal'[j] = journal[j]
  BY <1>0, <1>1
<1>2. CASE Reserved(j)
  <2>. PICK a \in Agents, intent \in Intents :
            /\ AllocatedExpiry > AllocatedNonce(scopes[a])
            /\ journal'[j] = PreparedRow(a, intent)
    BY <1>2 DEF Reserved
  <2>1. scopes[a] \in ScopeType
    BY DEF TypeOK
  <2>2. /\ AllocatedNonce(scopes[a]) \in Nat
        /\ AllocatedExpiry \in Nat
        /\ AllocatedExpiry - AllocatedNonce(scopes[a]) <= ActionExpiry
    BY <1>0, <2>1, NonceAllocated
  <2>. QED
    BY <2>2 DEF PreparedRow, NoRow, ValidRow, ResultForState
<1>3. CASE Started(j)
  BY <1>0, <1>3 DEF Started, MayMarkSubmissionStarted, SubmissionStarted,
     ValidRow, ResultForState
<1>4. CASE Moved(j)
  <2>. PICK next \in CallerStates :
            /\ row.state # "absent"
            /\ next \in AllowedTransitions[row.state]
            /\ journal'[j] = Transitioned(row, next)
    BY <1>4 DEF Moved
  <2>1. next \in JournalStates
    BY CallerStatesTyped
  <2>2. next # "submission_started"
    BY OutcomesAssumption DEF CallerStates
  <2>3. \/ row.state = "prepared" /\ next = "abandoned_before_submission"
        \/ row.state \in ReconcilableStates
           /\ next \notin {"prepared", "abandoned_before_submission"}
    BY <1>0, <2>1, <2>2 DEF AllowedTransitions
  <2>. QED
    BY <1>0, <2>1, <2>3 DEF Transitioned, Unleased, ValidRow
<1>5. CASE Claimed(j)
  <2>. PICK owner \in Owners :
            /\ \/ row.state \in ReconcilableStates
               \/ row.leaseOwner = owner
            /\ journal'[j] = Leased(row, owner)
    BY <1>5 DEF Claimed
  <2>1. row.state \in ReconcilableStates
    BY <1>0, OwnersAssumption DEF ValidRow
  <2>2. wall + LeaseDuration \in Nat
    BY <1>0, TimingAssumption
  <2>. QED
    BY <1>0, <2>1, <2>2, OwnersAssumption DEF Leased, ValidRow
<1>6. CASE LetGo(j)
  <2>1. row.state \in ReconcilableStates
    BY <1>0, <1>6, OwnersAssumption DEF ValidRow, LetGo
  <2>2. CASE journal'[j] = Unleased(row)
    BY <1>0, <2>1, <2>2 DEF Unleased, ValidRow
  <2>3. CASE \E t \in Nat : journal'[j] = Rescheduled(row, t)
    BY <1>0, <2>1, <2>3 DEF Rescheduled, Transitioned, Unleased, ValidRow,
       ResultForState
  <2>. QED BY <1>6, <2>2, <2>3 DEF LetGo
<1>7. CASE journal'[j] = Recovered(row)
  BY <1>0, <1>7 DEF Recovered, ValidRow, ResultForState
<1>. QED
  BY <1>1, <1>2, <1>3, <1>4, <1>5, <1>6, <1>7 DEF RowStep

\* The empty journal holds no invalid row.
LEMMA RowsInvInit == Init => RowsInv
BY DEF Init, RowsInv, StoredRowsValid, AbsentUnleased, Rows, NoRow

\* Every step keeps each row acceptable to assertStoredRecord.
LEMMA RowsInvNext == TypeOK /\ RowsInv /\ [Next]_vars => RowsInv'
<1>. SUFFICES ASSUME TypeOK, RowsInv, [Next]_vars PROVE RowsInv'
  OBVIOUS
<1>1. \A j \in JournalIds : IF journal'[j].state = "absent"
                            THEN journal'[j].leaseOwner = "none"
                            ELSE ValidRow(journal'[j])
  BY StepOfRow, RewrittenValid
<1>. QED
  BY <1>1 DEF RowsInv, StoredRowsValid, AbsentUnleased, Rows, ValidRow,
     ResultForState

\* No sequence of repository calls, clock changes and crashes stores a row
\* that assertStoredRecord would refuse when it is read back.
THEOREM RowsStayValid == Spec => []StoredRowsValid
<1>1. Spec => [](TypeOK /\ RowsInv)
  BY TypeInit, TypeNext, RowsInvInit, RowsInvNext, PTL DEF Spec
<1>. QED
  BY <1>1, PTL DEF RowsInv

-----------------------------------------------------------------------------
(* Terminal rows are frozen, and rows keep their identity *)

\* A terminal row has no lease, so no step can rewrite it.
LEMMA TerminalRowKept ==
    ASSUME TypeOK, RowsInv, NEW j \in JournalIds, RowStep(j), Terminal(j)
    PROVE  journal'[j] = journal[j]
<1>1. /\ journal[j].state \in TerminalStates
      /\ ValidRow(journal[j])
  BY DEF Terminal, RowsInv, StoredRowsValid, Rows, TerminalStates
<1>2. journal[j].leaseOwner = "none"
  BY <1>1 DEF ValidRow, TerminalStates, ReconcilableStates
<1>3. ~Reserved(j) /\ ~Started(j)
  BY <1>1 DEF Reserved, Started, MayMarkSubmissionStarted, TerminalStates
<1>4. ~Moved(j)
  BY <1>1 DEF Moved, AllowedTransitions, TerminalStates, JournalStates
<1>5. ~Claimed(j) /\ ~LetGo(j)
  BY <1>1, <1>2, OwnersAssumption DEF Claimed, LetGo, TerminalStates,
     ReconcilableStates
<1>6. Recovered(journal[j]) = journal[j]
  BY <1>1 DEF Recovered, TerminalStates
<1>. QED
  BY <1>3, <1>4, <1>5, <1>6 DEF RowStep

\* A row that reached a terminal state is never written again by a late
\* response, a stale reconciler or the recovery.
THEOREM TerminalFrozen == Spec => TerminalRowsFrozen
<1>1. Spec => [](TypeOK /\ RowsInv)
  BY TypeInit, TypeNext, RowsInvInit, RowsInvNext, PTL DEF Spec
<1>2. TypeOK /\ RowsInv /\ [Next]_vars =>
        [\A j \in JournalIds : Terminal(j) => journal'[j] = journal[j]]_vars
  BY StepOfRow, TerminalRowKept
<1>. QED
  BY <1>1, <1>2, PTL DEF Spec, TerminalRowsFrozen

\* Apart from the reservation that inserts it, no step changes whether a row
\* exists, whose it is, what it asks for, or its nonce.
SameIdentity(j) ==
    /\ (journal'[j].state = "absent") <=> (journal[j].state = "absent")
    /\ journal'[j].agent = journal[j].agent
    /\ journal'[j].account = journal[j].account
    /\ journal'[j].intent = journal[j].intent
    /\ journal'[j].nonce = journal[j].nonce

\* No step changes whose row it is: signer, account, intent, nonce.
LEMMA IdentityKept ==
    ASSUME TypeOK, RowsInv, NEW j \in JournalIds, RowStep(j), ~Reserved(j)
    PROVE  SameIdentity(j)
<1>1. /\ journal[j] \in RowType
      /\ journal[j].state = "absent" => journal[j].leaseOwner = "none"
  BY DEF TypeOK, RowsInv, AbsentUnleased
<1>. USE <1>1 DEF RowType, SameIdentity
<1>2. CASE Started(j)
  BY <1>2 DEF Started, MayMarkSubmissionStarted, SubmissionStarted
<1>3. CASE Moved(j)
  BY <1>3, CallerStatesTyped DEF Moved, Transitioned, Unleased,
     JournalStates, ReconcilableStates, TerminalStates
<1>4. CASE Claimed(j)
  BY <1>4 DEF Claimed, Leased
<1>5. CASE LetGo(j)
  BY <1>5, OwnersAssumption DEF LetGo, Unleased, Rescheduled, Transitioned
<1>6. CASE journal'[j] = Recovered(journal[j])
  BY <1>6 DEF Recovered
<1>. QED
  BY <1>2, <1>3, <1>4, <1>5, <1>6 DEF RowStep

\* A step either is a reservation or inserts no row.
LEMMA OnlyReservationInserts ==
    ASSUME TypeOK, RowsInv, [Next]_vars, ~ReservationStep
    PROVE  \A j \in JournalIds : SameIdentity(j)
<1>1. SUFFICES ASSUME NEW j \in JournalIds PROVE SameIdentity(j)
  OBVIOUS
<1>2. CASE Reserved(j)
  <2>1. journal[j].state = "absent" /\ journal'[j].state = "prepared"
    BY <1>2 DEF Reserved, PreparedRow, NoRow
  <2>2. ASSUME NEW r \in Repositories, NEW i \in JournalIds,
               MarkSubmissionStarted(r, i)
        PROVE  FALSE
    BY <2>1, <2>2 DEF MarkSubmissionStarted, MayMarkSubmissionStarted,
       SubmissionStarted, TypeOK, RowType
  <2>3. ASSUME NEW r \in Repositories, NEW i \in JournalIds,
               NEW next \in CallerStates, TransitionAction(r, i, next)
        PROVE  FALSE
    BY <2>1, <2>3, OutcomesAssumption
       DEF TransitionAction, TypeOK
  <2>4. ASSUME NEW i \in JournalIds, NEW owner \in Owners,
               \/ ClaimReconciliationLease(i, owner)
               \/ RenewReconciliationLease(i, owner)
               \/ ReleaseReconciliationLease(i, owner)
               \/ \E nextAt \in wall..(wall + MaxBackoff) :
                     ScheduleReconciliation(i, owner, nextAt)
        PROVE  FALSE
    <3>1. journal[j].leaseOwner # owner
      BY <2>1, OwnersAssumption DEF RowsInv, AbsentUnleased
    <3>. QED
      BY <2>1, <2>4, <3>1
         DEF ClaimReconciliationLease, RenewReconciliationLease,
             ReleaseReconciliationLease, ScheduleReconciliation,
             ReconcilableStates, TypeOK
  <2>5. ASSUME NEW r \in Repositories, RecoverAfterRestart(r)
        PROVE  FALSE
    BY <2>1, <2>5 DEF RecoverAfterRestart, Recovered
  <2>6. ASSUME journal' = journal
        PROVE  FALSE
    BY <2>1, <2>6
  <2>. QED
    BY <2>2, <2>3, <2>4, <2>5, <2>6
       DEF Next, SignerStep, RegisterActiveSignerScope, MarkSignerRetiring,
           RetireSignerScope, SubmissionStep, ForgetExpiredReservation,
           ConsumePermit, LeaseStep, ClaimNextReconciliation, ProcessStep,
           OpenRepository, Crash, SetWallClock, vars
<1>3. CASE ~Reserved(j)
  BY <1>3, StepOfRow, IdentityKept
<1>. QED BY <1>2, <1>3

-----------------------------------------------------------------------------
(* Nonces *)

\* Every row's nonce was issued by its signer's scope.
NoncesIssued ==
    \A j \in Rows :
        /\ journal[j].agent \in Agents
        /\ scopes[journal[j].agent].status # "absent"
        /\ journal[j].nonce <= scopes[journal[j].agent].lastNonce

\* A tombstone repeats the last nonce of a scope that is retired for good.
TombstonesMatchScopes ==
    \A k \in DOMAIN tombstones :
        /\ scopes[tombstones[k].agent].status = "retired"
        /\ scopes[tombstones[k].agent].lastNonce <= tombstones[k].lastNonce

NonceInv == NoncesIssued /\ NoncesUnique /\ TombstonesMatchScopes

\* Outside reservations a registered scope keeps its nonce and stays
\* registered, and a retired one stays retired.
ScopeKept(a) ==
    scopes[a].status # "absent" =>
        /\ scopes'[a].status # "absent"
        /\ scopes'[a].lastNonce = scopes[a].lastNonce
        /\ scopes[a].status = "retired" => scopes'[a].status = "retired"

\* Outside a reservation, no step moves a scope's last nonce, and a retired
\* signer stays retired.
LEMMA StepOfScopes ==
    ASSUME TypeOK, [Next]_vars, ~ReservationStep
    PROVE  \A a \in Agents : ScopeKept(a)
<1>. USE DEF TypeOK, ScopeType, ScopeKept
<1>1. ASSUME SignerStep PROVE \A a \in Agents : ScopeKept(a)
  <2>1. ASSUME NEW b \in Agents, NEW account \in Accounts,
               RegisterActiveSignerScope(b, account)
        PROVE  \A a \in Agents : ScopeKept(a)
    BY <2>1 DEF RegisterActiveSignerScope
  <2>2. ASSUME NEW b \in Agents, MarkSignerRetiring(b)
        PROVE  \A a \in Agents : ScopeKept(a)
    BY <2>2 DEF MarkSignerRetiring
  <2>3. ASSUME NEW b \in Agents, NEW reason \in RetirementReasons,
               RetireSignerScope(b, reason)
        PROVE  \A a \in Agents : ScopeKept(a)
    BY <2>3 DEF RetireSignerScope
  <2>. QED BY <1>1, <2>1, <2>2, <2>3 DEF SignerStep
<1>2. ASSUME scopes' = scopes PROVE \A a \in Agents : ScopeKept(a)
  BY <1>2
<1>. QED
  BY <1>1, <1>2
     DEF Next, SubmissionStep, MarkSubmissionStarted, TransitionAction,
         ForgetExpiredReservation, ConsumePermit, LeaseStep,
         ClaimNextReconciliation, ClaimReconciliationLease,
         RenewReconciliationLease, ReleaseReconciliationLease,
         ScheduleReconciliation, ProcessStep, OpenRepository,
         RecoverAfterRestart, Crash, SetWallClock, vars

\* An appended chain holds the old tombstones and the new one.
LEMMA TombstoneAppended ==
    ASSUME TypeOK, NEW t, NEW k \in DOMAIN Append(tombstones, t)
    PROVE  \/ /\ k \in DOMAIN tombstones
              /\ Append(tombstones, t)[k] = tombstones[k]
           \/ Append(tombstones, t)[k] = t
<1>1. tombstones \in Seq(TombstoneType)
  BY DEF TypeOK
<1>. QED BY <1>1

\* Every tombstone is a value of the schema.
LEMMA TombstoneTyped ==
    ASSUME TypeOK, NEW k \in DOMAIN tombstones
    PROVE  /\ tombstones[k].agent \in Agents
           /\ tombstones[k].lastNonce \in Nat
<1>1. tombstones[k] \in TombstoneType
  BY DEF TypeOK
<1>. QED BY <1>1 DEF TombstoneType

\* Every issued nonce is a natural, and so is the scope's once it issued one.
LEMMA NonceTyped ==
    ASSUME TypeOK
    PROVE  /\ \A j \in JournalIds : journal[j].nonce \in Nat
           /\ \A a \in Agents : scopes[a].lastNonce \in Int
<1>1. ASSUME NEW j \in JournalIds PROVE journal[j].nonce \in Nat
  BY DEF TypeOK, RowType
<1>2. ASSUME NEW a \in Agents PROVE scopes[a].lastNonce \in Int
  BY DEF TypeOK, ScopeType, Null
<1>. QED BY <1>1, <1>2

\* What a reservation does to the scope and the row it names.
LEMMA ReservationEffect ==
    ASSUME TypeOK, NEW r \in Repositories, NEW j \in JournalIds,
           NEW a \in Agents, NEW account \in Accounts, NEW intent \in Intents,
           NEW clock \in ClockReadings,
           ReservePreparedAction(r, j, a, account, intent, clock)
    PROVE  /\ journal[j].state = "absent" /\ journal'[j].state = "prepared"
           /\ scopes[a].status = "active"
           /\ journal'[j].agent = a /\ journal'[j].account = account
           /\ journal'[j].intent = intent
           /\ journal'[j].nonce = scopes'[a].lastNonce
           /\ scopes'[a].status = "active"
           /\ scopes'[a].lastNonce \in Nat
           /\ scopes'[a].lastNonce > scopes[a].lastNonce
           /\ \A i \in JournalIds \ {j} : journal'[i] = journal[i]
           /\ \A b \in Agents \ {a} : scopes'[b] = scopes[b]
           /\ tombstones' = tombstones
<1>1. scopes[a] \in ScopeType /\ wall \in Nat
  BY DEF TypeOK
<1>2. AllocatedNonce(scopes[a]) \in Nat
      /\ AllocatedNonce(scopes[a]) > scopes[a].lastNonce
  BY <1>1, NonceAllocated
<1>3. journal'[j] = PreparedRow(a, intent) /\ scopes'[a] = NonceIssued(scopes[a])
  BY DEF ReservePreparedAction, TypeOK
<1>4. scopes[a].status = "active" /\ scopes[a].account = account
  BY DEF ReservePreparedAction, MayIssueNonce
<1>5. /\ \A i \in JournalIds \ {j} : journal'[i] = journal[i]
      /\ \A b \in Agents \ {a} : scopes'[b] = scopes[b]
      /\ journal[j].state = "absent"
      /\ tombstones' = tombstones
  BY DEF ReservePreparedAction, TypeOK
<1>. QED
  BY <1>1, <1>2, <1>3, <1>4, <1>5 DEF PreparedRow, NonceIssued, NoRow, ScopeType

\* The empty database satisfies the nonce invariant.
LEMMA NonceInvInit == Init => NonceInv
BY DEF Init, NonceInv, NoncesIssued, NoncesUnique, TombstonesMatchScopes,
   Rows, NoRow

\* Every step keeps the nonce invariant; only a reservation and a retirement
\* touch what it speaks of.
LEMMA NonceInvNext ==
    TypeOK /\ TypeOK' /\ RowsInv /\ NonceInv /\ [Next]_vars => NonceInv'
<1>. SUFFICES ASSUME TypeOK, TypeOK', RowsInv, NonceInv, [Next]_vars
              PROVE  NonceInv'
  OBVIOUS
<1>0. \A j \in JournalIds : /\ journal[j].nonce \in Nat
                            /\ journal'[j].nonce \in Nat
  BY DEF TypeOK, RowType
<1>1. CASE ReservationStep
  <2>. PICK r \in Repositories, j \in JournalIds, a \in Agents,
            account \in Accounts, intent \in Intents,
            clock \in ClockReadings :
              ReservePreparedAction(r, j, a, account, intent, clock)
    BY <1>1 DEF ReservationStep
  <2>1. /\ journal[j].state = "absent"
        /\ scopes[a].status = "active"
        /\ journal'[j].agent = a
        /\ journal'[j].nonce = scopes'[a].lastNonce
        /\ scopes'[a].status = "active"
        /\ scopes'[a].lastNonce > scopes[a].lastNonce
        /\ \A i \in JournalIds \ {j} : journal'[i] = journal[i]
        /\ \A b \in Agents \ {a} : scopes'[b] = scopes[b]
        /\ tombstones' = tombstones
    BY ReservationEffect
  <2>2. \A i \in Rows' : i # j => i \in Rows /\ journal'[i] = journal[i]
    BY <2>1 DEF Rows
  <2>3. /\ scopes[a].lastNonce \in Int /\ scopes'[a].lastNonce \in Int
    BY DEF TypeOK, ScopeType, Null
  <2>4. \A i \in Rows : journal[i].agent = a =>
            journal[i].nonce < journal'[j].nonce
    BY <1>0, <2>1, <2>3 DEF NonceInv, NoncesIssued, Rows
  <2>5. NoncesIssued'
    <3>. SUFFICES ASSUME NEW i \in Rows'
                  PROVE  /\ journal'[i].agent \in Agents
                         /\ scopes'[journal'[i].agent].status # "absent"
                         /\ journal'[i].nonce
                              <= scopes'[journal'[i].agent].lastNonce
      BY DEF NoncesIssued
    <3>1. CASE i = j
      BY <2>1, <2>3, <3>1
    <3>2. CASE i # j
      <4>1. /\ i \in Rows /\ i \in JournalIds /\ journal'[i] = journal[i]
            /\ journal[i].agent \in Agents
            /\ scopes[journal[i].agent].status # "absent"
            /\ journal[i].nonce <= scopes[journal[i].agent].lastNonce
        BY <2>2, <3>2 DEF NonceInv, NoncesIssued, Rows
      <4>2. CASE journal[i].agent = a
        BY <1>0, <2>1, <2>3, <2>4, <4>1, <4>2
      <4>3. CASE journal[i].agent # a
        BY <2>1, <4>1, <4>3
      <4>. QED BY <4>2, <4>3
    <3>. QED BY <3>1, <3>2
  <2>6. NoncesUnique'
    BY <1>0, <2>1, <2>2, <2>4 DEF NonceInv, NoncesUnique, Rows
  <2>7. TombstonesMatchScopes'
    <3>. SUFFICES ASSUME NEW k \in DOMAIN tombstones
                  PROVE  /\ scopes'[tombstones[k].agent].status = "retired"
                         /\ scopes'[tombstones[k].agent].lastNonce
                              <= tombstones[k].lastNonce
      BY <2>1 DEF TombstonesMatchScopes
    <3>1. tombstones[k].agent \in Agents
      BY TombstoneTyped
    <3>2. tombstones[k].agent # a
      BY <2>1 DEF NonceInv, TombstonesMatchScopes
    <3>. QED
      BY <2>1, <3>1, <3>2 DEF NonceInv, TombstonesMatchScopes
  <2>. QED BY <2>5, <2>6, <2>7 DEF NonceInv
<1>2. CASE ~ReservationStep
  <2>1. \A j \in JournalIds : SameIdentity(j)
    BY <1>2, OnlyReservationInserts
  <2>2. \A a \in Agents : ScopeKept(a)
    BY <1>2, StepOfScopes
  <2>3. Rows' = Rows
    BY <2>1 DEF Rows, SameIdentity
  <2>4. NoncesIssued'
    BY <2>1, <2>2, <2>3 DEF NonceInv, NoncesIssued, SameIdentity, ScopeKept,
       Rows
  <2>5. NoncesUnique'
    BY <2>1, <2>3 DEF NonceInv, NoncesUnique, SameIdentity, Rows
  <2>6. TombstonesMatchScopes'
    <3>1. CASE tombstones' = tombstones
      BY <2>2, <3>1, TombstoneTyped
         DEF NonceInv, TombstonesMatchScopes, ScopeKept
    <3>2. CASE \E a \in Agents, reason \in RetirementReasons :
                  RetireSignerScope(a, reason)
      <4>. PICK a \in Agents, reason \in RetirementReasons :
                RetireSignerScope(a, reason)
        BY <3>2
      <4>. DEFINE t == [agent |-> a,
                        lastNonce |-> TombstoneNonce(scopes[a]),
                        reason |-> reason]
      <4>1. /\ tombstones' = Append(tombstones, t)
            /\ scopes'[a].status = "retired"
            /\ scopes'[a].lastNonce = scopes[a].lastNonce
        BY DEF RetireSignerScope, TypeOK, ScopeType
      <4>2. scopes[a].lastNonce <= TombstoneNonce(scopes[a])
        BY NonceTyped DEF TombstoneNonce, Max2
      <4>3. ASSUME NEW k \in DOMAIN tombstones'
            PROVE  \/ k \in DOMAIN tombstones /\ tombstones'[k] = tombstones[k]
                   \/ tombstones'[k] = t
        BY <4>1, TombstoneAppended
      <4>4. \A k \in DOMAIN tombstones : tombstones[k].agent \in Agents
        BY TombstoneTyped
      <4>5. ASSUME NEW k \in DOMAIN tombstones'
            PROVE  /\ scopes'[tombstones'[k].agent].status = "retired"
                   /\ scopes'[tombstones'[k].agent].lastNonce
                        <= tombstones'[k].lastNonce
        <5>1. CASE tombstones'[k] = t
          BY <4>1, <4>2, <5>1
        <5>2. CASE k \in DOMAIN tombstones /\ tombstones'[k] = tombstones[k]
          BY <2>2, <4>4, <5>2 DEF NonceInv, TombstonesMatchScopes, ScopeKept
        <5>. QED BY <4>3, <5>1, <5>2
      <4>. QED BY <4>5 DEF TombstonesMatchScopes
    <3>. QED
      BY <1>2, <3>1, <3>2
         DEF Next, SignerStep, RegisterActiveSignerScope, MarkSignerRetiring,
             SubmissionStep, MarkSubmissionStarted, TransitionAction,
             ForgetExpiredReservation, ConsumePermit, LeaseStep,
             ClaimNextReconciliation, ClaimReconciliationLease,
             RenewReconciliationLease, ReleaseReconciliationLease,
             ScheduleReconciliation, ProcessStep, OpenRepository,
             RecoverAfterRestart, Crash, SetWallClock, vars
  <2>. QED BY <2>4, <2>5, <2>6 DEF NonceInv
<1>. QED BY <1>1, <1>2

\* The invariant all nonce results rest on.
LEMMA NonceInvariant == Spec => [](TypeOK /\ RowsInv /\ NonceInv)
<1>1. TypeOK /\ RowsInv /\ NonceInv /\ [Next]_vars
        => (TypeOK /\ RowsInv /\ NonceInv)'
  BY TypeNext, RowsInvNext, NonceInvNext
<1>. QED
  BY TypeInit, RowsInvInit, NonceInvInit, <1>1, PTL DEF Spec

\* Two rows of one signer never share a nonce: not after a restart, a clock
\* set backwards, or several reservations in one millisecond.
THEOREM NoncesNeverReused == Spec => []NoncesUnique
BY NonceInvariant, PTL DEF NonceInv

\* A tombstoned signer stays retired, and its tombstone bounds every nonce it
\* ever used.
THEOREM TombstonesFinal == Spec => []TombstonesCoverNonces
<1>1. TypeOK /\ NonceInv => TombstonesCoverNonces
  <2>. SUFFICES ASSUME TypeOK, NonceInv, NEW k \in DOMAIN tombstones,
                       NEW j \in Rows, journal[j].agent = tombstones[k].agent
                PROVE  journal[j].nonce <= tombstones[k].lastNonce
    BY DEF TombstonesCoverNonces, NonceInv, TombstonesMatchScopes
  <2>1. /\ journal[j].nonce \in Nat
        /\ scopes[journal[j].agent].lastNonce \in Int
        /\ tombstones[k].lastNonce \in Nat
    BY NonceTyped, TombstoneTyped DEF NonceInv, NoncesIssued, Rows
  <2>. QED
    BY <2>1 DEF NonceInv, NoncesIssued, TombstonesMatchScopes
<1>. QED
  BY <1>1, NonceInvariant, PTL

\* Each reservation uses a nonce above all earlier ones of its signer, and a
\* signer with a tombstone never reserves again.
THEOREM NoncesGrow == Spec => NoncesIncrease
<1>. DEFINE Grow == \A j \in JournalIds :
          (journal[j].state = "absent" /\ journal'[j].state # "absent") =>
              /\ ~Tombstoned(journal'[j].agent)
              /\ \A i \in Rows : journal[i].agent = journal'[j].agent
                    => journal[i].nonce < journal'[j].nonce
<1>1. TypeOK /\ RowsInv /\ NonceInv /\ [Next]_vars => [Grow]_vars
  <2>. SUFFICES ASSUME TypeOK, RowsInv, NonceInv, [Next]_vars,
                       NEW j \in JournalIds,
                       journal[j].state = "absent",
                       journal'[j].state # "absent"
                PROVE  /\ ~Tombstoned(journal'[j].agent)
                       /\ \A i \in Rows : journal[i].agent = journal'[j].agent
                             => journal[i].nonce < journal'[j].nonce
    OBVIOUS
  <2>1. ReservationStep
    BY OnlyReservationInserts DEF SameIdentity
  <2>2. PICK r \in Repositories, i \in JournalIds, a \in Agents,
             account \in Accounts, intent \in Intents,
             clock \in ClockReadings :
               ReservePreparedAction(r, i, a, account, intent, clock)
    BY <2>1 DEF ReservationStep
  <2>3. /\ i = j
        /\ journal'[j].agent = a
        /\ scopes[a].status = "active"
        /\ journal'[j].nonce > scopes[a].lastNonce
        /\ journal'[j].nonce \in Nat
    BY <2>2, ReservationEffect
  <2>4. ~Tombstoned(a)
    BY <2>3 DEF Tombstoned, NonceInv, TombstonesMatchScopes
  <2>5. \A l \in Rows : /\ journal[l].nonce \in Nat
                        /\ scopes[a].lastNonce \in Int
    BY NonceTyped DEF Rows
  <2>. QED
    BY <2>3, <2>4, <2>5 DEF NonceInv, NoncesIssued
<1>. QED
  BY <1>1, NonceInvariant, PTL DEF Spec, NoncesIncrease

-----------------------------------------------------------------------------
(* Pending rows *)

\* A row that is pending after a step other than its reservation was pending
\* before it.
LEMMA PendingBefore ==
    ASSUME TypeOK, RowsInv, [Next]_vars, NEW j \in JournalIds,
           journal[j].state # "absent", ~Terminal(j)'
    PROVE  ~Terminal(j)
BY StepOfRow, TerminalRowKept DEF Terminal

\* The empty journal has no pending row.
LEMMA PendingInit ==
    Init => OnePendingEquivalent /\ OrdinaryRetirementQuiescent
BY DEF Init, OnePendingEquivalent, OrdinaryRetirementQuiescent, Rows, NoRow

\* Every step keeps equivalent pending rows apart.
LEMMA EquivalentNext ==
    TypeOK /\ RowsInv /\ OnePendingEquivalent /\ [Next]_vars
        => OnePendingEquivalent'
<1>. SUFFICES ASSUME TypeOK, RowsInv, OnePendingEquivalent, [Next]_vars
              PROVE  OnePendingEquivalent'
  OBVIOUS
<1>1. CASE ReservationStep
  <2>. PICK r \in Repositories, l \in JournalIds, a \in Agents,
            account \in Accounts, intent \in Intents,
            clock \in ClockReadings :
              ReservePreparedAction(r, l, a, account, intent, clock)
    BY <1>1 DEF ReservationStep
  <2>1. /\ journal[l].state = "absent"
        /\ journal'[l].account = account
        /\ journal'[l].intent = intent
        /\ \A i \in JournalIds \ {l} : journal'[i] = journal[i]
    BY ReservationEffect
  <2>2. \A i \in Rows : ~Terminal(i) /\ journal[i].account = account
                            => journal[i].intent # intent
    BY DEF ReservePreparedAction, EquivalentActionPending
  <2>. SUFFICES ASSUME NEW i \in Rows', NEW j \in Rows', i # j,
                       ~Terminal(i)', ~Terminal(j)',
                       journal'[i].account = journal'[j].account
                PROVE  journal'[i].intent # journal'[j].intent
    BY DEF OnePendingEquivalent
  <2>3. \A m \in Rows' : m # l =>
            /\ m \in Rows /\ journal'[m] = journal[m]
            /\ ~Terminal(m)' => ~Terminal(m)
    BY <2>1 DEF Rows, Terminal
  <2>4. CASE i = l
    BY <2>1, <2>2, <2>3, <2>4
  <2>5. CASE j = l
    BY <2>1, <2>2, <2>3, <2>5
  <2>6. CASE i # l /\ j # l
    BY <2>3, <2>6 DEF OnePendingEquivalent
  <2>. QED BY <2>4, <2>5, <2>6
<1>2. CASE ~ReservationStep
  <2>1. \A j \in JournalIds : SameIdentity(j)
    BY <1>2, OnlyReservationInserts
  <2>2. Rows' = Rows
    BY <2>1 DEF Rows, SameIdentity
  <2>3. \A j \in Rows : ~Terminal(j)' => ~Terminal(j)
    BY PendingBefore DEF Rows
  <2>. QED
    BY <2>1, <2>2, <2>3 DEF OnePendingEquivalent, SameIdentity, Rows
<1>. QED BY <1>1, <1>2

\* Equivalent intents are never pending twice.
THEOREM EquivalentBlocked == Spec => []OnePendingEquivalent
<1>1. Spec => [](TypeOK /\ RowsInv)
  BY TypeInit, TypeNext, RowsInvInit, RowsInvNext, PTL DEF Spec
<1>. QED
  BY <1>1, PendingInit, EquivalentNext, PTL DEF Spec

\* Every step keeps ordinarily retired signers without pending rows.
LEMMA QuiescentNext ==
    TypeOK /\ RowsInv /\ NonceInv /\ OrdinaryRetirementQuiescent
        /\ [Next]_vars => OrdinaryRetirementQuiescent'
<1>. SUFFICES ASSUME TypeOK, RowsInv, NonceInv, OrdinaryRetirementQuiescent,
                     [Next]_vars
              PROVE  OrdinaryRetirementQuiescent'
  OBVIOUS
<1>1. CASE ReservationStep
  <2>. PICK r \in Repositories, l \in JournalIds, a \in Agents,
            account \in Accounts, intent \in Intents,
            clock \in ClockReadings :
              ReservePreparedAction(r, l, a, account, intent, clock)
    BY <1>1 DEF ReservationStep
  <2>1. /\ journal'[l].agent = a
        /\ scopes[a].status = "active"
        /\ \A i \in JournalIds \ {l} : journal'[i] = journal[i]
        /\ tombstones' = tombstones
    BY ReservationEffect
  <2>2. \A k \in DOMAIN tombstones : tombstones[k].agent # a
    BY <2>1 DEF NonceInv, TombstonesMatchScopes
  <2>3. \A m \in Rows' : m # l =>
            /\ m \in Rows /\ journal'[m] = journal[m]
            /\ Terminal(m) => Terminal(m)'
    BY <2>1 DEF Rows, Terminal
  <2>. QED
    BY <2>1, <2>2, <2>3 DEF OrdinaryRetirementQuiescent
<1>2. CASE ~ReservationStep
  <2>1. \A j \in JournalIds : SameIdentity(j)
    BY <1>2, OnlyReservationInserts
  <2>2. Rows' = Rows
    BY <2>1 DEF Rows, SameIdentity
  <2>3. \A j \in Rows : Terminal(j) => Terminal(j)'
    BY PendingBefore DEF Rows
  <2>4. \A j \in Rows : journal'[j].agent = journal[j].agent
    BY <2>1 DEF SameIdentity, Rows
  <2>5. CASE tombstones' = tombstones
    BY <2>2, <2>3, <2>4, <2>5 DEF OrdinaryRetirementQuiescent
  <2>6. CASE \E a \in Agents, reason \in RetirementReasons :
                RetireSignerScope(a, reason)
    <3>. PICK a \in Agents, reason \in RetirementReasons :
              RetireSignerScope(a, reason)
      BY <2>6
    <3>. DEFINE t == [agent |-> a, lastNonce |-> TombstoneNonce(scopes[a]),
                      reason |-> reason]
    <3>1. /\ tombstones' = Append(tombstones, t)
          /\ reason = "ordinary" =>
                \A j \in Rows : journal[j].agent = a => Terminal(j)
      BY DEF RetireSignerScope, ActionsPending
    <3>. SUFFICES ASSUME NEW k \in DOMAIN tombstones',
                         tombstones'[k].reason = "ordinary",
                         NEW j \in Rows', journal'[j].agent = tombstones'[k].agent
                  PROVE  Terminal(j)'
      BY DEF OrdinaryRetirementQuiescent
    <3>2. \/ k \in DOMAIN tombstones /\ tombstones'[k] = tombstones[k]
          \/ tombstones'[k] = t
      BY <3>1, TombstoneAppended
    <3>3. CASE tombstones'[k] = t
      BY <2>2, <2>3, <2>4, <3>1, <3>3
    <3>4. CASE k \in DOMAIN tombstones /\ tombstones'[k] = tombstones[k]
      BY <2>2, <2>3, <2>4, <3>4 DEF OrdinaryRetirementQuiescent
    <3>. QED BY <3>2, <3>3, <3>4
  <2>. QED
    BY <1>2, <2>5, <2>6
       DEF Next, SignerStep, RegisterActiveSignerScope, MarkSignerRetiring,
           SubmissionStep, MarkSubmissionStarted, TransitionAction,
           ForgetExpiredReservation, ConsumePermit, LeaseStep,
           ClaimNextReconciliation, ClaimReconciliationLease,
           RenewReconciliationLease, ReleaseReconciliationLease,
           ScheduleReconciliation, ProcessStep, OpenRepository,
           RecoverAfterRestart, Crash, SetWallClock, vars
<1>. QED BY <1>1, <1>2

\* Once an ordinary retirement is recorded, nothing of that signer is or
\* becomes pending.
THEOREM RetirementQuiescent == Spec => []OrdinaryRetirementQuiescent
BY NonceInvariant, PendingInit, QuiescentNext, PTL DEF Spec

-----------------------------------------------------------------------------
(* Transport writes *)

\* A row without a submission marker was never written and has no permit;
\* what the process may submit, it reserved itself.
Unsubmitted(j) ==
    journal[j].state \in {"absent", "prepared", "abandoned_before_submission"}

WriteInv ==
    /\ \A j \in JournalIds :
          /\ writes[j] \in {0, 1}
          /\ Unsubmitted(j) => writes[j] = 0 /\ j \notin permits
          /\ j \in permits => writes[j] = 0 /\ j \in lifetime
    /\ \A r \in Repositories : prepared[r] \subseteq lifetime

\* The submission marker is never undone, and only markSubmissionStarted
\* sets it.
LEMMA MarkerKept ==
    ASSUME TypeOK, RowsInv, NEW j \in JournalIds, RowStep(j), Unsubmitted(j)'
    PROVE  Unsubmitted(j)
<1>1. /\ journal[j] \in RowType
      /\ journal[j].state # "absent" => ValidRow(journal[j])
      /\ journal[j].state = "absent" => journal[j].leaseOwner = "none"
  BY DEF TypeOK, RowsInv, StoredRowsValid, AbsentUnleased, Rows
<1>. USE <1>1 DEF Unsubmitted, RowType, JournalStates, ReconcilableStates,
                  TerminalStates
<1>2. CASE journal'[j] = journal[j]
  BY <1>2
<1>3. CASE Reserved(j)
  BY <1>3 DEF Reserved
<1>4. CASE Started(j)
  BY <1>4 DEF Started, MayMarkSubmissionStarted
<1>5. CASE Moved(j)
  <2>. PICK next \in CallerStates :
            /\ journal[j].state # "absent"
            /\ next \in AllowedTransitions[journal[j].state]
            /\ journal'[j] = Transitioned(journal[j], next)
    BY <1>5 DEF Moved
  <2>1. journal'[j].state = next
    BY DEF Transitioned, Unleased
  <2>. QED
    BY <2>1, OutcomesAssumption DEF AllowedTransitions, CallerStates
<1>6. CASE Claimed(j)
  BY <1>6, OwnersAssumption DEF Claimed, Leased
<1>7. CASE LetGo(j)
  BY <1>7, OwnersAssumption DEF LetGo, Unleased, Rescheduled, Transitioned,
     ValidRow
<1>8. CASE journal'[j] = Recovered(journal[j])
  BY <1>8 DEF Recovered
<1>. QED
  BY <1>2, <1>3, <1>4, <1>5, <1>6, <1>7, <1>8 DEF RowStep

\* Nothing is written before the first step.
LEMMA WriteInvInit == Init => WriteInv
BY DEF Init, WriteInv

\* Every step keeps the write-once invariant.
LEMMA WriteInvNext ==
    TypeOK /\ RowsInv /\ WriteInv /\ [Next]_vars => WriteInv'
<1>. SUFFICES ASSUME TypeOK, RowsInv, WriteInv, [Next]_vars PROVE WriteInv'
  OBVIOUS
<1>0. \A j \in JournalIds : Unsubmitted(j)' => Unsubmitted(j)
  BY StepOfRow, MarkerKept
<1>1. ASSUME NEW r \in Repositories, NEW j \in JournalIds, NEW a \in Agents,
             NEW account \in Accounts, NEW intent \in Intents,
             NEW clock \in ClockReadings,
             ReservePreparedAction(r, j, a, account, intent, clock)
      PROVE  WriteInv'
  BY <1>0, <1>1 DEF ReservePreparedAction, WriteInv, TypeOK
<1>2. ASSUME NEW r \in Repositories, NEW j \in JournalIds,
             MarkSubmissionStarted(r, j)
      PROVE  WriteInv'
  <2>1. Unsubmitted(j) /\ j \in lifetime
    BY <1>2 DEF MarkSubmissionStarted, MayMarkSubmissionStarted, Unsubmitted,
       WriteInv
  <2>2. ~Unsubmitted(j)'
    BY <1>2 DEF MarkSubmissionStarted, SubmissionStarted, Unsubmitted, TypeOK,
       RowType
  <2>. QED
    BY <1>0, <1>2, <2>1, <2>2 DEF MarkSubmissionStarted, WriteInv, TypeOK
<1>3. ASSUME NEW j \in JournalIds, ConsumePermit(j) PROVE WriteInv'
  <2>1. Unsubmitted(j)' <=> Unsubmitted(j)
    BY <1>3 DEF ConsumePermit, Unsubmitted
  <2>. QED
    BY <1>0, <1>3, <2>1 DEF ConsumePermit, WriteInv, TypeOK
<1>4. ASSUME Crash PROVE WriteInv'
  BY <1>0, <1>4 DEF Crash, WriteInv, TypeOK
<1>5. ASSUME writes' = writes, permits' = permits, lifetime' = lifetime,
             \A r \in Repositories : prepared'[r] \subseteq prepared[r]
      PROVE  WriteInv'
  BY <1>0, <1>5 DEF WriteInv
<1>6. ASSUME NEW r \in Repositories, NEW j \in JournalIds,
             \/ ForgetExpiredReservation(r, j)
             \/ \E next \in CallerStates : TransitionAction(r, j, next)
      PROVE  WriteInv'
  BY <1>5, <1>6 DEF ForgetExpiredReservation, TransitionAction, TypeOK
<1>7. ASSUME NEW r \in Repositories, RecoverAfterRestart(r) PROVE WriteInv'
  BY <1>5, <1>7 DEF RecoverAfterRestart, TypeOK
<1>8. ASSUME \/ SignerStep \/ LeaseStep
             \/ \E r \in Repositories : OpenRepository(r)
             \/ \E t \in 0..MaxTime : SetWallClock(t)
             \/ UNCHANGED vars
      PROVE  WriteInv'
  <2>1. /\ writes' = writes /\ permits' = permits /\ lifetime' = lifetime
        /\ prepared' = prepared
    BY <1>8 DEF SignerStep, RegisterActiveSignerScope, MarkSignerRetiring,
       RetireSignerScope, LeaseStep, ClaimNextReconciliation,
       ClaimReconciliationLease, RenewReconciliationLease,
       ReleaseReconciliationLease, ScheduleReconciliation, OpenRepository,
       SetWallClock, memory, vars
  <2>. QED BY <1>5, <2>1
<1>. QED
  BY <1>1, <1>2, <1>3, <1>4, <1>6, <1>7, <1>8
     DEF Next, ReservationStep, SubmissionStep, ProcessStep

\* The write-once rule, for every interleaving of repository calls, restarts
\* and clock changes.
THEOREM WrittenOnce == Spec => []WriteOnce
<1>1. TypeOK /\ RowsInv /\ WriteInv => WriteOnce
  <2>. SUFFICES ASSUME TypeOK, RowsInv, WriteInv, NEW j \in JournalIds
                PROVE  /\ writes[j] <= 1
                       /\ (writes[j] = 1 \/ j \in permits) =>
                            /\ ~Unsubmitted(j)
                            /\ journal[j].submissionStartedAt # Null
                       /\ j \in permits => writes[j] = 0 /\ j \in lifetime
    BY DEF WriteOnce, Unsubmitted
  <2>1. ~Unsubmitted(j) => ValidRow(journal[j])
    BY DEF RowsInv, StoredRowsValid, Rows, Unsubmitted
  <2>2. ~Unsubmitted(j) => journal[j].submissionStartedAt # Null
    BY <2>1 DEF ValidRow, Unsubmitted
  <2>. QED
    BY <2>2 DEF WriteInv
<1>2. TypeOK /\ RowsInv /\ WriteInv /\ [Next]_vars
        => (TypeOK /\ RowsInv /\ WriteInv)'
  BY TypeNext, RowsInvNext, WriteInvNext
<1>. QED
  BY TypeInit, RowsInvInit, WriteInvInit, <1>1, <1>2, PTL DEF Spec

-----------------------------------------------------------------------------
(* The journal implements ActionLife *)

\* The step leaves what the row says of its action.
LifeKept(j) ==
    /\ LifeOf(journal'[j]) = LifeOf(journal[j])
    /\ RequestOf(journal'[j]) = RequestOf(journal[j])

\* Rows of one state, and rows that wait for an outcome, stand for the same.
LEMMA LifeOfStates ==
    ASSUME NEW row, NEW row2,
           \/ row.state = row2.state
           \/ row.state \in ReconcilableStates /\ row2.state \in ReconcilableStates
    PROVE  LifeOf(row) = LifeOf(row2)
BY DEF LifeOf, ReconcilableStates

\* A row whose identity is kept asks for what it asked for.
LEMMA RequestKept ==
    ASSUME NEW j \in JournalIds, SameIdentity(j)
    PROVE  RequestOf(journal'[j]) = RequestOf(journal[j])
BY DEF SameIdentity, RequestOf

\* A step that leaves every action and no request stutters.
LEMMA LifeStutters ==
    ASSUME \A j \in JournalIds : LifeKept(j), writes' = writes
    PROVE  UNCHANGED Contract!lifeVars
BY DEF LifeKept, Contract!lifeVars

\* The leases are nothing to an action: only rows that wait for an outcome have them.
LEMMA LeasesKeepLife ==
    ASSUME TypeOK, RowsInv, LeaseStep
    PROVE  UNCHANGED Contract!lifeVars
<1>1. writes' = writes /\ ~ReservationStep /\ [Next]_vars
  <2>1. writes' = writes
    BY DEF LeaseStep, ClaimNextReconciliation, ClaimReconciliationLease,
       RenewReconciliationLease, ReleaseReconciliationLease, ScheduleReconciliation, memory
  <2>2. scopes' = scopes
    BY DEF LeaseStep, ClaimNextReconciliation, ClaimReconciliationLease,
       RenewReconciliationLease, ReleaseReconciliationLease, ScheduleReconciliation, memory
  <2>3. ~ReservationStep
    <3>1. SUFFICES ASSUME ReservationStep PROVE FALSE
      OBVIOUS
    <3>2. PICK r \in Repositories, i \in JournalIds, a \in Agents, account \in Accounts,
               intent \in Intents, clock \in ClockReadings :
                 ReservePreparedAction(r, i, a, account, intent, clock)
      BY <3>1 DEF ReservationStep
    <3>3. scopes'[a].lastNonce > scopes[a].lastNonce /\ scopes[a].lastNonce \in Int
      BY <3>2, ReservationEffect, NonceTyped
    <3> QED
      BY <3>3, <2>2
  <2> QED
    BY <2>1, <2>3 DEF Next
<1>2. ASSUME NEW j \in JournalIds PROVE LifeKept(j)
  <2>1. RequestOf(journal'[j]) = RequestOf(journal[j])
    BY <1>1, OnlyReservationInserts, RequestKept
  <2>2. /\ journal[j] \in RowType /\ journal \in [JournalIds -> RowType]
        /\ journal[j].state = "absent" => journal[j].leaseOwner = "none"
        /\ journal[j].state # "absent" => ValidRow(journal[j])
    BY DEF TypeOK, RowsInv, StoredRowsValid, AbsentUnleased, Rows
  <2>3. journal[j].leaseOwner \in Owners => journal[j].state \in ReconcilableStates
    BY <2>2, OwnersAssumption DEF ValidRow
  <2>4. \/ journal'[j].state = journal[j].state
        \/ /\ journal[j].state \in ReconcilableStates
           /\ journal'[j].state = "unresolved"
    <3>1. ASSUME NEW i \in JournalIds, NEW owner \in Owners,
                 \/ ClaimReconciliationLease(i, owner)
                 \/ RenewReconciliationLease(i, owner)
          PROVE  journal'[j].state = journal[j].state
      <4>1. journal' = [journal EXCEPT ![i] = Leased(journal[i], owner)]
        BY <3>1 DEF ClaimReconciliationLease, RenewReconciliationLease
      <4>2. Leased(journal[i], owner).state = journal[i].state
        BY <2>2 DEF Leased, RowType
      <4> QED
        BY <4>1, <4>2, <2>2
    <3>2. ASSUME NEW i \in JournalIds, NEW owner \in Owners,
                 ReleaseReconciliationLease(i, owner)
          PROVE  journal'[j].state = journal[j].state
      BY <2>2, <3>2 DEF ReleaseReconciliationLease, Unleased, RowType
    <3>3. ASSUME NEW i \in JournalIds, NEW owner \in Owners, NEW nextAt,
                 ScheduleReconciliation(i, owner, nextAt)
          PROVE  \/ journal'[j].state = journal[j].state
                 \/ /\ journal[j].state \in ReconcilableStates
                    /\ journal'[j].state = "unresolved"
      <4>1. /\ journal' = [journal EXCEPT ![i] = Rescheduled(journal[i], nextAt)]
            /\ journal[i].leaseOwner = owner
        BY <3>3 DEF ScheduleReconciliation
      <4>2. Rescheduled(journal[i], nextAt).state = "unresolved"
        BY <2>2 DEF Rescheduled, Transitioned, Unleased, RowType
      <4> QED
        BY <4>1, <4>2, <2>2, <2>3
    <3> QED
      BY <3>1, <3>2, <3>3 DEF LeaseStep, ClaimNextReconciliation
  <2>5. LifeOf(journal'[j]) = LifeOf(journal[j])
    BY <2>4, LifeOfStates DEF ReconcilableStates
  <2> QED
    BY <2>1, <2>5 DEF LifeKept
<1> QED
  BY <1>1, <1>2, LifeStutters

\* A reservation reserves.
LEMMA ReservationReserves ==
    ASSUME TypeOK, RowsInv, NonceInv, NEW r \in Repositories, NEW j \in JournalIds,
           NEW a \in Agents, NEW account \in Accounts, NEW intent \in Intents,
           NEW clock \in ClockReadings,
           ReservePreparedAction(r, j, a, account, intent, clock)
    PROVE  Contract!Reserve(j)
<1>1. /\ journal[j].state = "absent" /\ journal'[j].state = "prepared"
      /\ scopes[a].status = "active"
      /\ journal'[j].agent = a /\ journal'[j].account = account
      /\ journal'[j].intent = intent
      /\ journal'[j].nonce = scopes'[a].lastNonce
      /\ scopes'[a].lastNonce \in Nat
      /\ scopes'[a].lastNonce > scopes[a].lastNonce
      /\ \A i \in JournalIds \ {j} : journal'[i] = journal[i]
  BY ReservationEffect
<1>2. LifeOf(journal[j]) = "none" /\ LifeOf(journal'[j]) = "reserved"
  BY <1>1 DEF LifeOf, ReconcilableStates
<1>3. writes' = writes
  BY DEF ReservePreparedAction
<1>4. RequestOf(journal'[j]) = [signer |-> a, account |-> account, intent |-> intent,
                                nonce |-> scopes'[a].lastNonce]
  BY <1>1 DEF RequestOf
<1>5. ASSUME NEW b \in JournalIds, LifeOf(journal[b]) # "none", journal[b].agent = a
      PROVE  journal[b].nonce < scopes'[a].lastNonce
  <2>1. b \in Rows
    BY <1>5 DEF Rows, LifeOf, ReconcilableStates
  <2>2. journal[b].nonce <= scopes[a].lastNonce
    BY <2>1, <1>5 DEF NonceInv, NoncesIssued
  <2>3. journal[b].nonce \in Nat /\ scopes[a].lastNonce \in Int
    BY NonceTyped
  <2> QED
    BY <1>1, <2>2, <2>3
<1>6. ASSUME NEW b \in JournalIds, LifeOf(journal[b]) \in {"reserved", "submitted"}
      PROVE  journal[b].account # account \/ journal[b].intent # intent
  <2>1. b \in Rows /\ ~Terminal(b)
    BY <1>6 DEF Rows, LifeOf, Terminal, TerminalStates, ReconcilableStates
  <2>2. ~EquivalentActionPending(account, intent)
    BY DEF ReservePreparedAction
  <2> QED
    BY <2>1, <2>2 DEF EquivalentActionPending
<1>7. /\ [i \in JournalIds |-> LifeOf(journal'[i])]
            = [[i \in JournalIds |-> LifeOf(journal[i])] EXCEPT ![j] = "reserved"]
      /\ [i \in JournalIds |-> RequestOf(journal'[i])]
            = [[i \in JournalIds |-> RequestOf(journal[i])]
                  EXCEPT ![j] = RequestOf(journal'[j])]
  BY <1>1, <1>2
<1>8. Contract!NonceIsNew(j)
  BY <1>4, <1>5 DEF Contract!NonceIsNew, RequestOf
<1>9. Contract!NoneEquivalent(j)
  BY <1>4, <1>6 DEF Contract!NoneEquivalent, Contract!Open, RequestOf
<1> QED
  BY <1>2, <1>3, <1>7, <1>8, <1>9 DEF Contract!Reserve

\* Setting the marker submits.
LEMMA MarkerSubmits ==
    ASSUME TypeOK, NEW r \in Repositories, NEW j \in JournalIds,
           MarkSubmissionStarted(r, j)
    PROVE  Contract!Submit(j)
<1>1. /\ journal[j].state = "prepared" /\ writes' = writes
      /\ journal' = [journal EXCEPT ![j] = SubmissionStarted(journal[j])]
  BY DEF MarkSubmissionStarted, MayMarkSubmissionStarted
<1>2. journal[j] \in RowType /\ journal \in [JournalIds -> RowType]
  BY DEF TypeOK
<1>3. /\ LifeOf(journal[j]) = "reserved" /\ LifeOf(SubmissionStarted(journal[j])) = "submitted"
      /\ RequestOf(SubmissionStarted(journal[j])) = RequestOf(journal[j])
  BY <1>1, <1>2 DEF LifeOf, RequestOf, SubmissionStarted, RowType, ReconcilableStates
<1> QED
  BY <1>1, <1>2, <1>3 DEF Contract!Submit

\* A transition settles the action, or gives it up, or leaves it waiting.
LEMMA TransitionSettles ==
    ASSUME TypeOK, NEW r \in Repositories, NEW j \in JournalIds,
           NEW next \in CallerStates, TransitionAction(r, j, next)
    PROVE  \/ Contract!Settle(j) \/ Contract!GiveUp
           \/ UNCHANGED Contract!lifeVars
<1>1. /\ next \in AllowedTransitions[journal[j].state] /\ writes' = writes
      /\ journal' = [journal EXCEPT ![j] = Transitioned(journal[j], next)]
      /\ journal[j].state # "absent"
  BY DEF TransitionAction
<1>2. journal[j] \in RowType /\ journal \in [JournalIds -> RowType]
  BY DEF TypeOK
<1>3. /\ Transitioned(journal[j], next).state = next
      /\ RequestOf(Transitioned(journal[j], next)) = RequestOf(journal[j])
  BY <1>2 DEF RequestOf, Transitioned, Unleased, RowType
<1>4. [i \in JournalIds |-> RequestOf(journal'[i])] = [i \in JournalIds |-> RequestOf(journal[i])]
  BY <1>1, <1>2, <1>3
<1>5. /\ journal[j].state \in {"prepared"} \cup ReconcilableStates
      /\ journal[j].state = "prepared" => next = "abandoned_before_submission"
      /\ journal[j].state \in ReconcilableStates =>
            next \in Contract!Outcome \cup {"unresolved"}
  BY <1>1, <1>2, OutcomesAssumption
     DEF AllowedTransitions, JournalStates, RowType, ReconcilableStates, TerminalStates,
         CallerStates, Contract!Outcome
<1>6. CASE next \in Contract!Outcome
  <2>1. /\ LifeOf(journal[j]) = "submitted"
        /\ LifeOf(Transitioned(journal[j], next)) = next
    BY <1>3, <1>5, <1>6 DEF LifeOf, ReconcilableStates, Contract!Outcome
  <2>2. [i \in JournalIds |-> LifeOf(journal'[i])]
           = [[i \in JournalIds |-> LifeOf(journal[i])] EXCEPT ![j] = next]
    BY <1>1, <1>2, <2>1
  <2> QED
    BY <1>1, <1>4, <1>6, <2>1, <2>2 DEF Contract!Settle
<1>7. CASE journal[j].state \in ReconcilableStates /\ next = "unresolved"
  <2>1. LifeOf(Transitioned(journal[j], next)) = LifeOf(journal[j])
    BY <1>3, <1>7 DEF LifeOf, ReconcilableStates
  <2>2. [i \in JournalIds |-> LifeOf(journal'[i])] = [i \in JournalIds |-> LifeOf(journal[i])]
    BY <1>1, <1>2, <2>1
  <2> QED
    BY <1>1, <1>4, <2>2 DEF Contract!lifeVars
<1>8. CASE journal[j].state = "prepared" /\ next = "abandoned_before_submission"
  <2>1. /\ LifeOf(journal[j]) = "reserved"
        /\ LifeOf(Transitioned(journal[j], next)) = "abandoned"
    BY <1>3, <1>8 DEF LifeOf, ReconcilableStates
  <2>2. [i \in JournalIds |-> LifeOf(journal'[i])]
           = [i \in JournalIds |-> IF i \in {j} THEN "abandoned" ELSE LifeOf(journal[i])]
    BY <1>1, <1>2, <2>1
  <2>3. {j} \in SUBSET {i \in JournalIds : LifeOf(journal[i]) = "reserved"}
    BY <2>1
  <2> QED
    BY <1>1, <1>4, <2>2, <2>3 DEF Contract!GiveUp
<1> QED
  BY <1>5, <1>6, <1>7, <1>8

\* A permit sends.
LEMMA PermitSends ==
    ASSUME TypeOK, WriteInv, NEW j \in JournalIds, ConsumePermit(j)
    PROVE  Contract!Send(j)
<1>1. /\ j \in permits /\ journal' = journal
      /\ writes' = [writes EXCEPT ![j] = writes[j] + 1]
  BY DEF ConsumePermit
<1>2. writes[j] = 0 /\ ~Unsubmitted(j)
  BY <1>1 DEF WriteInv
<1>3. LifeOf(journal[j]) \in Contract!Outcome \cup {"submitted"}
  BY <1>2 DEF LifeOf, Unsubmitted, Contract!Outcome, TypeOK, RowType, JournalStates,
     ReconcilableStates, TerminalStates
<1>4. writes' = [writes EXCEPT ![j] = 1]
  BY <1>1, <1>2
<1> QED
  BY <1>1, <1>2, <1>3, <1>4 DEF Contract!Send, Contract!Goes

\* A restart gives up what was not submitted, and leaves the rest waiting.
LEMMA RestartGivesUp ==
    ASSUME TypeOK, NEW r \in Repositories, RecoverAfterRestart(r)
    PROVE  Contract!GiveUp
<1>1. writes' = writes /\ journal' = [j \in JournalIds |-> Recovered(journal[j])]
  BY DEF RecoverAfterRestart
<1>2. \A j \in JournalIds : journal[j] \in RowType
  BY DEF TypeOK
<1> DEFINE some == {j \in JournalIds : LifeOf(journal[j]) = "reserved"}
<1>3. \A j \in JournalIds :
         /\ RequestOf(Recovered(journal[j])) = RequestOf(journal[j])
         /\ LifeOf(Recovered(journal[j]))
               = IF j \in some THEN "abandoned" ELSE LifeOf(journal[j])
  <2>1. ASSUME NEW j \in JournalIds
        PROVE  /\ RequestOf(Recovered(journal[j])) = RequestOf(journal[j])
               /\ LifeOf(Recovered(journal[j]))
                     = IF LifeOf(journal[j]) = "reserved" THEN "abandoned"
                                                          ELSE LifeOf(journal[j])
    BY <1>2 DEF Recovered, RequestOf, LifeOf, RowType, JournalStates, ReconcilableStates,
       TerminalStates
  <2> QED
    BY <2>1
<1>4. some \in SUBSET {j \in JournalIds : LifeOf(journal[j]) = "reserved"}
  OBVIOUS
<1>5. /\ [j \in JournalIds |-> RequestOf(journal'[j])] = [j \in JournalIds |-> RequestOf(journal[j])]
      /\ [j \in JournalIds |-> LifeOf(journal'[j])]
            = [j \in JournalIds |-> IF j \in some THEN "abandoned" ELSE LifeOf(journal[j])]
  BY <1>1, <1>3
<1> HIDE DEF some
<1> QED
  BY <1>1, <1>4, <1>5 DEF Contract!GiveUp

\* Every step of the repositories is one of the contract, or none.
LEMMA LifeNext ==
    ASSUME TypeOK, RowsInv, NonceInv, WriteInv, [Next]_vars
    PROVE  [Contract!Next]_(Contract!lifeVars)
<1>1. CASE ReservationStep
  BY <1>1, ReservationReserves DEF ReservationStep, Contract!Next
<1>2. CASE SubmissionStep
  <2>1. ASSUME NEW j \in JournalIds, NEW r \in Repositories, MarkSubmissionStarted(r, j)
        PROVE  Contract!Next
    BY <2>1, MarkerSubmits DEF Contract!Next
  <2>2. ASSUME NEW j \in JournalIds, NEW r \in Repositories, ForgetExpiredReservation(r, j)
        PROVE  UNCHANGED Contract!lifeVars
    BY <2>2 DEF ForgetExpiredReservation, Contract!lifeVars
  <2>3. ASSUME NEW j \in JournalIds, NEW r \in Repositories, NEW next \in CallerStates,
               TransitionAction(r, j, next)
        PROVE  [Contract!Next]_(Contract!lifeVars)
    BY <2>3, TransitionSettles DEF Contract!Next
  <2>4. ASSUME NEW j \in JournalIds, ConsumePermit(j)
        PROVE  Contract!Next
    BY <2>4, PermitSends DEF Contract!Next
  <2> QED
    BY <1>2, <2>1, <2>2, <2>3, <2>4 DEF SubmissionStep
<1>3. CASE LeaseStep
  BY <1>3, LeasesKeepLife
<1>4. CASE \E r \in Repositories : RecoverAfterRestart(r)
  BY <1>4, RestartGivesUp DEF Contract!Next
<1>5. CASE \/ SignerStep \/ Crash \/ UNCHANGED vars
           \/ \E r \in Repositories : OpenRepository(r)
           \/ \E t \in 0..MaxTime : SetWallClock(t)
  <2>1. journal' = journal /\ writes' = writes
    BY <1>5 DEF SignerStep, RegisterActiveSignerScope, MarkSignerRetiring,
       RetireSignerScope, Crash, OpenRepository, SetWallClock, memory, vars
  <2> QED
    BY <2>1 DEF Contract!lifeVars
<1> QED
  BY <1>1, <1>2, <1>3, <1>4, <1>5 DEF Next, ProcessStep

\* Nothing is reserved or sent in the empty database.
LEMMA LifeInit == Init => Contract!Init
BY DEF Init, Contract!Init, LifeOf, NoRow, ReconcilableStates

\* The journal implements ActionLife: however repositories, restarts, leases and
\* retirements interleave, each action is reserved, submitted, sent and settled as
\* promised, or given up.
THEOREM JournalKeepsPromises == Spec => ImplementsActionLife
<1>1. TypeOK /\ RowsInv /\ WriteInv /\ [Next]_vars => (TypeOK /\ RowsInv /\ WriteInv)'
  BY TypeNext, RowsInvNext, WriteInvNext
<1>2. Spec => [](TypeOK /\ RowsInv /\ WriteInv)
  BY TypeInit, RowsInvInit, WriteInvInit, <1>1, PTL DEF Spec
<1>3. TypeOK /\ RowsInv /\ NonceInv /\ WriteInv /\ [Next]_vars
         => [Contract!Next]_(Contract!lifeVars)
  BY LifeNext
<1> QED
  BY <1>2, <1>3, LifeInit, NonceInvariant, PTL DEF Spec, ImplementsActionLife, Contract!Spec

=============================================================================
