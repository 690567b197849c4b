--------------------------- MODULE ActionJournal ---------------------------
(***************************************************************************)
(* The durable core of a Hyper Trader action: the SQLite tables            *)
(* signer_scopes, retired_signer_tombstones and action_journal behind      *)
(* SqliteNonceAndJournalRepository, and what each repository instance      *)
(* keeps in memory (preparedInThisProcess, the transport permits it has    *)
(* handed out).                                                            *)
(*                                                                         *)
(* Every method of the repository is one action: its body runs inside one  *)
(* BEGIN IMMEDIATE transaction on a synchronous connection, so nothing     *)
(* interleaves with it.  A method that throws rolls back and leaves the    *)
(* state alone; only its successful outcome is an action, except where the *)
(* failing call still changes memory (ForgetExpiredReservation).           *)
(*                                                                         *)
(* A signer binding is abstracted to the agent address and the account     *)
(* (network, master, target and generation) it is bound to.  Times are     *)
(* small naturals; `wall' is the device clock, which may be set backwards. *)
(***************************************************************************)
EXTENDS Integers, FiniteSets, Sequences

CONSTANTS
    JournalIds,        \* identifiers a journal row can have
    Agents,            \* API-wallet (agent) addresses
    Accounts,          \* contexts a signer can be bound to
    Intents,           \* equivalence fingerprints of reviewed actions
    Owners,            \* reconciliation lease owners
    Repositories,      \* repository instances a process can create
    ActionExpiry,      \* ACTION_EXPIRY_MS
    MaxClockRollback,  \* MAX_CLOCK_ROLLBACK_MS
    MaxSampleAge,      \* MAX_SERVER_SAMPLE_AGE_MS
    MaxServerSkew,     \* MAX_SERVER_SKEW_MS
    LeaseDuration,     \* default lease duration
    MaxBackoff,        \* longest delay a caller schedules a retry after
    Outcomes,          \* bound: terminal outcomes callers report
    MaxTime,           \* bound: last value of the device clock
    MaxAttempts        \* bound: reconciliation attempts per row

ASSUME TimingAssumption ==
    /\ ActionExpiry \in Nat \ {0}
    /\ LeaseDuration \in Nat \ {0}
    /\ MaxClockRollback \in Nat /\ MaxSampleAge \in Nat
    /\ MaxServerSkew \in Nat /\ MaxBackoff \in Nat
    /\ MaxTime \in Nat /\ MaxAttempts \in Nat

ASSUME OutcomesAssumption ==
    Outcomes \subseteq {"accepted", "rejected", "expired",
                        "reconciled_ambiguous"}

\* A null lease owner is not an owner.
ASSUME OwnersAssumption == "none" \notin Owners

VARIABLES
    wall,        \* the device clock, Date.now()
    scopes,      \* signer_scopes: agent -> row
    tombstones,  \* retired_signer_tombstones, in sequence order
    journal,     \* action_journal: journal id -> row
    open,        \* repository instances of the running process
    prepared,    \* preparedInThisProcess of each repository instance
    permits,     \* rows whose TransportWritePermit is still available
    writes,      \* history: transport writes made for each row
    lifetime     \* history: rows reserved since the process started

vars == <<wall, scopes, tombstones, journal, open, prepared, permits,
          writes, lifetime>>

memory == <<open, prepared, permits, writes, lifetime>>

-----------------------------------------------------------------------------
(* Rows *)

Null == -1

TerminalStates == {"accepted", "rejected", "expired",
                   "abandoned_before_submission", "reconciled_ambiguous"}

ReconcilableStates == {"submission_started", "unresolved"}

JournalStates == {"prepared"} \cup ReconcilableStates \cup TerminalStates

\* ALLOWED_TRANSITIONS
AllowedTransitions ==
    [s \in JournalStates |->
        CASE s = "prepared" ->
                 {"submission_started", "abandoned_before_submission"}
          [] s = "submission_started" ->
                 {"accepted", "rejected", "expired", "unresolved",
                  "reconciled_ambiguous"}
          [] s = "unresolved" ->
                 {"accepted", "rejected", "expired", "reconciled_ambiguous"}
          [] OTHER -> {}]

\* RESULT_FOR_STATE: the result class assertJournalResultClass demands.
ResultForState(s) ==
    CASE s \in {"prepared", "submission_started",
                "abandoned_before_submission"} -> "none"
      [] s = "reconciled_ambiguous" -> "ambiguous"
      [] OTHER -> s

ResultClasses == {"none", "accepted", "rejected", "expired", "unresolved",
                  "ambiguous"}

NoRow == [state |-> "absent", agent |-> "none", account |-> "none",
          intent |-> "none", nonce |-> 0, expiresAfter |-> 0,
          preparedAt |-> 0, submissionStartedAt |-> Null, result |-> "none",
          leaseOwner |-> "none", leaseExpiresAt |-> Null,
          attempts |-> 0, nextAt |-> 0]

NoScope == [status |-> "absent", account |-> "none",
            lastNonce |-> Null, lastWall |-> Null]

RowType ==
    [state: JournalStates \cup {"absent"},
     agent: Agents \cup {"none"},
     account: Accounts \cup {"none"},
     intent: Intents \cup {"none"},
     nonce: Nat, expiresAfter: Nat, preparedAt: Nat,
     submissionStartedAt: Nat \cup {Null},
     result: ResultClasses,
     leaseOwner: Owners \cup {"none"},
     leaseExpiresAt: Nat \cup {Null},
     attempts: Nat, nextAt: Nat]

ScopeType ==
    [status: {"absent", "active", "retiring", "retired"},
     account: Accounts \cup {"none"},
     lastNonce: Nat \cup {Null}, lastWall: Nat \cup {Null}]

\* The five reasons fall into two classes: ordinary (rotated, expired) and
\* emergency (revoked, credential_lost, external_revocation_unconfirmed).
RetirementReasons == {"ordinary", "emergency"}

TombstoneType ==
    [agent: Agents, lastNonce: Nat, reason: RetirementReasons]

Rows == {j \in JournalIds : journal[j].state # "absent"}

Terminal(j) == journal[j].state \in TerminalStates

Tombstoned(a) == \E k \in DOMAIN tombstones : tombstones[k].agent = a

-----------------------------------------------------------------------------
(* allocateNonce *)

Max2(a, b) == IF a >= b THEN a ELSE b

\* assertClockGate: the server sample is fresh, the device clock is within
\* MaxServerSkew of the advanced sample, and has not moved back too far from
\* the wall time this scope observed last.
ClockGate(s, clock) ==
    LET advanced == clock.serverTime + clock.age
    IN  /\ clock.age <= MaxSampleAge
        /\ wall - advanced <= MaxServerSkew
        /\ advanced - wall <= MaxServerSkew
        /\ s.lastWall # Null => s.lastWall - wall <= MaxClockRollback

\* Faulty variant: the clock is trusted alone.
AllocatedNonceFromClock(s) == wall

AllocatedNonce(s) == Max2(wall, s.lastNonce + 1)

AllocatedExpiry == wall + ActionExpiry

\* Faulty variant: any registered scope may issue.
MayIssueNonceUnlessAbsent(s, account) ==
    s.status # "absent" /\ s.account = account

\* The scope checks of reservePreparedAction: the exact binding, and active.
MayIssueNonce(s, account) == s.status = "active" /\ s.account = account

\* What a clock reading can be: how long ago the server answered, and what
\* it answered.
ClockReadings == [age: 0..(MaxSampleAge + 1), serverTime: 0..MaxTime]

-----------------------------------------------------------------------------
(* Signer scopes *)

\* registerActiveSignerScope: a tombstoned agent never becomes active again.
\* Registering an agent that is already active with the same binding returns
\* without a change; any other existing scope is refused.
RegisterActiveSignerScope(a, account) ==
    /\ ~Tombstoned(a)
    /\ scopes[a].status = "absent"
    /\ scopes' = [scopes EXCEPT ![a] =
                    [NoScope EXCEPT !.status = "active", !.account = account]]
    /\ UNCHANGED <<wall, tombstones, journal, memory>>

\* markSignerRetiring
MarkSignerRetiring(a) ==
    /\ scopes[a].status = "active"
    /\ scopes' = [scopes EXCEPT ![a].status = "retiring"]
    /\ UNCHANGED <<wall, tombstones, journal, memory>>

\* Faulty variant: rows that were not submitted yet are not counted.
ActionsPendingSubmitted(a) ==
    \E j \in Rows : /\ journal[j].agent = a
                    /\ journal[j].state \in ReconcilableStates

\* The count of rows that block an ordinary retirement is not zero.
ActionsPending(a) == \E j \in Rows : journal[j].agent = a /\ ~Terminal(j)

\* The tombstone's last_issued_nonce: 0 for a signer that issued none.
TombstoneNonce(s) == Max2(s.lastNonce, 0)

\* retireSignerScope: the tombstone repeats the scope's last nonce and
\* extends the chain; an ordinary retirement waits until the signer has no
\* pending row.
RetireSignerScope(a, reason) ==
    /\ scopes[a].status = "retiring"
    /\ reason = "ordinary" => ~ActionsPending(a)
    /\ tombstones' = Append(tombstones,
                        [agent |-> a,
                         lastNonce |-> TombstoneNonce(scopes[a]),
                         reason |-> reason])
    /\ scopes' = [scopes EXCEPT ![a].status = "retired"]
    /\ UNCHANGED <<wall, journal, memory>>

-----------------------------------------------------------------------------
(* The journal *)

\* The partial unique index action_journal_active_fingerprint_unique.
EquivalentActionPending(account, intent) ==
    \E j \in Rows : /\ journal[j].account = account
                    /\ journal[j].intent = intent
                    /\ ~Terminal(j)

\* The scope and the row reservePreparedAction writes.
NonceIssued(s) ==
    [s EXCEPT !.lastNonce = AllocatedNonce(s), !.lastWall = wall]

PreparedRow(a, intent) ==
    [NoRow EXCEPT !.state = "prepared", !.agent = a,
                  !.account = scopes[a].account, !.intent = intent,
                  !.nonce = AllocatedNonce(scopes[a]),
                  !.expiresAfter = AllocatedExpiry,
                  !.preparedAt = wall, !.nextAt = wall]

\* reservePreparedAction: one transaction advances the scope's nonce and
\* inserts the prepared row; afterwards the repository that made it registers
\* the row as prepared in this process and drops its expired registrations.
ReservePreparedAction(r, j, a, account, intent, clock) ==
    /\ r \in open
    /\ journal[j].state = "absent"
    /\ MayIssueNonce(scopes[a], account)
    /\ ClockGate(scopes[a], clock)
    /\ AllocatedExpiry > AllocatedNonce(scopes[a])
    /\ ~EquivalentActionPending(account, intent)
    /\ scopes' = [scopes EXCEPT ![a] = NonceIssued(@)]
    /\ journal' = [journal EXCEPT ![j] = PreparedRow(a, intent)]
    /\ prepared' = [prepared EXCEPT ![r] =
                      {i \in @ : journal[i].expiresAfter > wall} \cup {j}]
    /\ lifetime' = lifetime \cup {j}
    /\ UNCHANGED <<wall, tombstones, open, permits, writes>>

\* Faulty variant: the row is not read back after the update.
MayMarkSubmissionUnread(j) ==
    /\ journal[j].state = "prepared"
    /\ journal[j].submissionStartedAt = Null
    /\ wall < journal[j].expiresAfter

\* mayMarkSubmissionStarted, and assertStoredRecord on the row read back: a
\* marker older than the reservation rolls the transaction back.
MayMarkSubmissionStarted(j) ==
    /\ journal[j].state = "prepared"
    /\ journal[j].submissionStartedAt = Null
    /\ wall < journal[j].expiresAfter
    /\ wall >= journal[j].preparedAt

\* The row markSubmissionStarted writes.
SubmissionStarted(row) ==
    [row EXCEPT !.state = "submission_started", !.submissionStartedAt = wall]

\* markSubmissionStarted: only the repository that reserved the row in this
\* process may set the marker; it hands out a single-use permit.
MarkSubmissionStarted(r, j) ==
    /\ r \in open
    /\ j \in prepared[r]
    /\ MayMarkSubmissionStarted(j)
    /\ journal' = [journal EXCEPT ![j] = SubmissionStarted(@)]
    /\ prepared' = [prepared EXCEPT ![r] = @ \ {j}]
    /\ permits' = permits \cup {j}
    /\ UNCHANGED <<wall, scopes, tombstones, open, writes, lifetime>>

\* markSubmissionStarted after the expiry: the call throws, but the process
\* has already forgotten the reservation.
ForgetExpiredReservation(r, j) ==
    /\ r \in open
    /\ j \in prepared[r]
    /\ wall >= journal[j].expiresAfter
    /\ prepared' = [prepared EXCEPT ![r] = @ \ {j}]
    /\ UNCHANGED <<wall, scopes, tombstones, journal, open, permits, writes,
                   lifetime>>

\* TransportWritePermit.consume: the one request to /exchange.
ConsumePermit(j) ==
    /\ j \in permits
    /\ permits' = permits \ {j}
    /\ writes' = [writes EXCEPT ![j] = @ + 1]
    /\ UNCHANGED <<wall, scopes, tombstones, journal, open, prepared,
                   lifetime>>

Unleased(row) == [row EXCEPT !.leaseOwner = "none", !.leaseExpiresAt = Null]

\* Faulty variant: the lease survives the transition.
TransitionedLeased(row, next) ==
    [row EXCEPT !.state = next, !.result = ResultForState(next)]

\* The row transitionAction writes.
Transitioned(row, next) ==
    [Unleased(row) EXCEPT !.state = next, !.result = ResultForState(next)]

\* transitionAction: an allowed transition clears the lease.  A transition to
\* submission_started carries no marker, so the row read back is refused.
TransitionAction(r, j, next) ==
    /\ r \in open
    /\ journal[j].state # "absent"
    /\ next \in AllowedTransitions[journal[j].state]
    /\ next # "submission_started"
    /\ journal' = [journal EXCEPT ![j] = Transitioned(@, next)]
    /\ prepared' = [prepared EXCEPT ![r] = @ \ {j}]
    /\ UNCHANGED <<wall, scopes, tombstones, open, permits, writes, lifetime>>

-----------------------------------------------------------------------------
(* Reconciliation leases *)

LeaseFree(j) == \/ journal[j].leaseOwner = "none"
                \/ journal[j].leaseExpiresAt <= wall

\* The rows the lease operations write.
Leased(row, owner) ==
    [row EXCEPT !.leaseOwner = owner, !.leaseExpiresAt = wall + LeaseDuration]

Rescheduled(row, nextAt) ==
    [Transitioned(row, "unresolved") EXCEPT !.attempts = @ + 1,
                                            !.nextAt = nextAt]

\* claimReconciliationLease
ClaimReconciliationLease(j, owner) ==
    /\ open # {}
    /\ journal[j].state \in ReconcilableStates
    /\ LeaseFree(j)
    /\ journal' = [journal EXCEPT ![j] = Leased(@, owner)]
    /\ UNCHANGED <<wall, scopes, tombstones, memory>>

\* The row claimNextReconciliation selects: due, unleased, and first by
\* next_reconciliation_at and then prepared_at.  The journal id that breaks
\* the remaining ties is random.
Due(j) == /\ journal[j].state \in ReconcilableStates
          /\ journal[j].nextAt <= wall
          /\ LeaseFree(j)

NextReconciliation(j) ==
    /\ Due(j)
    /\ \A i \in JournalIds : Due(i) =>
          \/ journal[j].nextAt < journal[i].nextAt
          \/ /\ journal[j].nextAt = journal[i].nextAt
             /\ journal[j].preparedAt <= journal[i].preparedAt

\* claimNextReconciliation
ClaimNextReconciliation(j, owner) ==
    /\ NextReconciliation(j)
    /\ ClaimReconciliationLease(j, owner)

\* renewReconciliationLease: the caller's lease is still the row's and live.
RenewReconciliationLease(j, owner) ==
    /\ open # {}
    /\ journal[j].leaseOwner = owner
    /\ journal[j].leaseExpiresAt > wall
    /\ journal' = [journal EXCEPT ![j] = Leased(@, owner)]
    /\ UNCHANGED <<wall, scopes, tombstones, memory>>

\* releaseReconciliationLease
ReleaseReconciliationLease(j, owner) ==
    /\ open # {}
    /\ journal[j].leaseOwner = owner
    /\ journal' = [journal EXCEPT ![j] = Unleased(@)]
    /\ UNCHANGED <<wall, scopes, tombstones, memory>>

\* scheduleReconciliation: the statement writes `unresolved' whatever the
\* state is; only the lease check protects a terminal row.
ScheduleReconciliation(j, owner, nextAt) ==
    /\ open # {}
    /\ nextAt >= wall
    /\ journal[j].leaseOwner = owner
    /\ journal[j].leaseExpiresAt > wall
    /\ journal[j].attempts < MaxAttempts
    /\ journal' = [journal EXCEPT ![j] = Rescheduled(@, nextAt)]
    /\ UNCHANGED <<wall, scopes, tombstones, memory>>

-----------------------------------------------------------------------------
(* Process lifetime and clock *)

\* Faulty variant: recovery abandons every row that has no answer yet.
RecoveredAbandoningAll(row) ==
    IF row.state \in {"prepared", "submission_started"}
    THEN [row EXCEPT !.state = "abandoned_before_submission"]
    ELSE row

\* restartRecoveryDecision and the row update recoverAfterRestart makes; a
\* lease taken by an earlier process stays on the row.
Recovered(row) ==
    CASE row.state = "prepared" ->
            [row EXCEPT !.state = "abandoned_before_submission"]
      [] row.state = "submission_started" ->
            [row EXCEPT !.state = "unresolved", !.result = "unresolved"]
      [] OTHER -> row

\* createActionRepository: a mounted runtime creates a repository instance.
OpenRepository(r) ==
    /\ r \notin open
    /\ open' = open \cup {r}
    /\ UNCHANGED <<wall, scopes, tombstones, journal, prepared, permits,
                   writes, lifetime>>

\* recoverAfterRestart: called once per mount, also while flows of an earlier
\* mount of the same process are still running on their own repository.
RecoverAfterRestart(r) ==
    /\ r \in open
    /\ prepared' = [prepared EXCEPT ![r] = {}]
    /\ journal' = [j \in JournalIds |-> Recovered(journal[j])]
    /\ UNCHANGED <<wall, scopes, tombstones, open, permits, writes, lifetime>>

\* The process dies: memory is lost, the database stays.
Crash ==
    /\ open # {}
    /\ open' = {}
    /\ prepared' = [r \in Repositories |-> {}]
    /\ permits' = {}
    /\ lifetime' = {}
    /\ UNCHANGED <<wall, scopes, tombstones, journal, writes>>

\* The device clock advances, or is set to any other time.
SetWallClock(t) ==
    /\ wall' = t
    /\ UNCHANGED <<scopes, tombstones, journal, memory>>

-----------------------------------------------------------------------------
Init ==
    /\ wall \in 0..MaxTime
    /\ scopes = [a \in Agents |-> NoScope]
    /\ tombstones = <<>>
    /\ journal = [j \in JournalIds |-> NoRow]
    /\ open = {}
    /\ prepared = [r \in Repositories |-> {}]
    /\ permits = {}
    /\ writes = [j \in JournalIds |-> 0]
    /\ lifetime = {}

\* The states callers move a row to.
CallerStates == Outcomes \cup {"unresolved", "abandoned_before_submission"}

SignerStep ==
    \E a \in Agents :
        \/ \E account \in Accounts : RegisterActiveSignerScope(a, account)
        \/ MarkSignerRetiring(a)
        \/ \E reason \in RetirementReasons : RetireSignerScope(a, reason)

ReservationStep ==
    \E r \in Repositories, j \in JournalIds, a \in Agents,
       account \in Accounts, intent \in Intents, clock \in ClockReadings :
        ReservePreparedAction(r, j, a, account, intent, clock)

SubmissionStep ==
    \E j \in JournalIds :
        \/ \E r \in Repositories : \/ MarkSubmissionStarted(r, j)
                                   \/ ForgetExpiredReservation(r, j)
                                   \/ \E next \in CallerStates :
                                        TransitionAction(r, j, next)
        \/ ConsumePermit(j)

LeaseStep ==
    \E j \in JournalIds, owner \in Owners :
        \/ ClaimReconciliationLease(j, owner)
        \/ ClaimNextReconciliation(j, owner)
        \/ RenewReconciliationLease(j, owner)
        \/ ReleaseReconciliationLease(j, owner)
        \/ \E nextAt \in wall..(wall + MaxBackoff) :
              ScheduleReconciliation(j, owner, nextAt)

ProcessStep ==
    \/ \E r \in Repositories : OpenRepository(r) \/ RecoverAfterRestart(r)
    \/ Crash
    \/ \E t \in 0..MaxTime : SetWallClock(t)

Next == SignerStep \/ ReservationStep \/ SubmissionStep \/ LeaseStep
        \/ ProcessStep

Spec == Init /\ [][Next]_vars

-----------------------------------------------------------------------------
(* Correctness *)

\* Type invariant: every table and every in-memory map of the repository
\* holds values of its schema.
TypeOK ==
    /\ wall \in Nat
    /\ scopes \in [Agents -> ScopeType]
    /\ tombstones \in Seq(TombstoneType)
    /\ journal \in [JournalIds -> RowType]
    /\ open \subseteq Repositories
    /\ prepared \in [Repositories -> SUBSET JournalIds]
    /\ permits \subseteq JournalIds
    /\ writes \in [JournalIds -> Nat]
    /\ lifetime \subseteq JournalIds

\* assertStoredRecord accepts every row: no sequence of repository calls
\* writes a row that getAction, the recovery or the reconciler would throw
\* on when it reads it back.
ValidRow(row) ==
    /\ row.expiresAfter > row.nonce
    /\ row.expiresAfter - row.nonce <= ActionExpiry
    /\ row.result = ResultForState(row.state)
    /\ row.submissionStartedAt = Null
          <=> row.state \in {"prepared", "abandoned_before_submission"}
    /\ row.submissionStartedAt # Null =>
          /\ row.submissionStartedAt >= row.preparedAt
          /\ row.submissionStartedAt < row.expiresAfter
    /\ (row.leaseOwner = "none") <=> (row.leaseExpiresAt = Null)
    /\ row.leaseOwner # "none" => row.state \in ReconcilableStates

StoredRowsValid == \A j \in Rows : ValidRow(journal[j])

\* The allocator alone keeps nonces apart: two rows of one signer never have
\* the same nonce, whatever the clock does and however often the process
\* restarts, so UNIQUE(network, agent_address, nonce) never has to fire.
NoncesUnique ==
    \A i, j \in Rows :
        (i # j /\ journal[i].agent = journal[j].agent)
            => journal[i].nonce # journal[j].nonce

\* A tombstone covers everything its signer ever signed for: the signer stays
\* retired, and no row of it has a nonce above the one the tombstone records.
TombstonesCoverNonces ==
    \A k \in DOMAIN tombstones :
        /\ scopes[tombstones[k].agent].status = "retired"
        /\ \A j \in Rows : journal[j].agent = tombstones[k].agent
              => journal[j].nonce <= tombstones[k].lastNonce

\* Ordinary retirement (rotated, expired) leaves nothing pending behind, then
\* or later: the check is made once, and `retiring' has already stopped new
\* reservations.
OrdinaryRetirementQuiescent ==
    \A k \in DOMAIN tombstones :
        tombstones[k].reason = "ordinary" =>
            \A j \in Rows :
                journal[j].agent = tombstones[k].agent => Terminal(j)

\* The write-once rule of the action lifecycle: a row is written to transport
\* at most once, only after its submission marker is durable, and a permit
\* that is still available belongs to a row that was not written yet and was
\* reserved in this process.
WriteOnce ==
    \A j \in JournalIds :
        /\ writes[j] <= 1
        /\ (writes[j] = 1 \/ j \in permits) =>
              /\ journal[j].state \notin
                    {"absent", "prepared", "abandoned_before_submission"}
              /\ journal[j].submissionStartedAt # Null
        /\ j \in permits => writes[j] = 0 /\ j \in lifetime

\* Equivalent intents of one account are never pending twice, so an action
\* whose outcome is open cannot be submitted again under another journal id.
OnePendingEquivalent ==
    \A i, j \in Rows :
        (/\ i # j /\ ~Terminal(i) /\ ~Terminal(j)
         /\ journal[i].account = journal[j].account)
            => journal[i].intent # journal[j].intent

\* A row that reached a terminal state is never touched again: neither a late
\* exchange response, nor a reconciler that lost its lease, nor recovery
\* changes it.
TerminalRowsFrozen ==
    [][\A j \in JournalIds : Terminal(j) => journal'[j] = journal[j]]_vars

\* Each reservation's nonce is above every nonce its signer used before, and
\* a signer with a tombstone reserves nothing.
NoncesIncrease ==
    [][\A j \in JournalIds :
          (journal[j].state = "absent" /\ journal'[j].state # "absent") =>
              /\ ~Tombstoned(journal'[j].agent)
              /\ \A i \in Rows : journal[i].agent = journal'[j].agent
                    => journal[i].nonce < journal'[j].nonce]_vars

\* A wall-clock rollback larger than MaxClockRollback, measured against any
\* wall time the installation has recorded, blocks preparation.
RollbackBlocksPreparation ==
    [][\A j \in JournalIds :
          (journal[j].state = "absent" /\ journal'[j].state = "prepared") =>
              \A a \in Agents :
                  scopes[a].lastWall - wall <= MaxClockRollback]_vars

-----------------------------------------------------------------------------
(* Refinement *)

\* What a row says of its action.
LifeOf(row) ==
    CASE row.state = "absent" -> "none"
      [] row.state = "prepared" -> "reserved"
      [] row.state \in ReconcilableStates -> "submitted"
      [] row.state = "abandoned_before_submission" -> "abandoned"
      [] OTHER -> row.state

RequestOf(row) == [signer |-> row.agent, account |-> row.account, intent |-> row.intent,
                   nonce |-> row.nonce]

\* The actions of the contract are the rows.
Contract == INSTANCE ActionLife WITH
    Actions <- JournalIds,
    life <- [j \in JournalIds |-> LifeOf(journal[j])],
    request <- [j \in JournalIds |-> RequestOf(journal[j])],
    sent <- writes

\* The journal implements ActionLife: through crashes, remounts, leases and
\* retirements, repositories that work side by side keep what is promised of each
\* action.
ImplementsActionLife == Contract!Spec

=============================================================================
