--------------------------- MODULE Reconciliation ---------------------------
(***************************************************************************)
(* Reconciliation of actions whose response was lost: the port that        *)
(* retries in the foreground, the reconciler that works under a lease, the *)
(* evidence source with its shared server clock, and the exchange it asks. *)
(*                                                                         *)
(* One time, `wall', in seconds, serves as the device's wall and monotonic *)
(* clock and as the exchange's clock; ActionJournal covers a wall clock    *)
(* that jumps.  A query is evaluated by the exchange, then its headers     *)
(* arrive (and set the server-time sample every request shares), then its  *)
(* body is read: time passes and other requests move between these.  The   *)
(* sample is carried forward by the monotonic clock, so all that matters   *)
(* of it is how far it is behind, `lag'.                                   *)
(*                                                                         *)
(* The journal rows are written with the operators of ActionJournal; a     *)
(* port renews its lease and writes the outcome in one synchronous block.  *)
(***************************************************************************)
EXTENDS Integers, ReconciliationPolicy

CONSTANTS
    JournalIds,            \* unresolved actions
    Types,                 \* their types: create, close, cancel, leverage
    Ports,                 \* runs of the reconciliation port
    Owners,                \* lease owners: one per mounted runtime
    ActionExpiry,          \* ACTION_EXPIRY_MS
    LeaseDuration,         \* default lease duration
    LeaseRetry,            \* LEASE_RETRY_MS
    MaxForegroundAttempts, \* DEFAULT_MAX_FOREGROUND_ATTEMPTS
    MaxTime,               \* bound: last time
    MaxFailures,           \* bound: queries that fail
    MaxRestarts            \* bound: crashes and remounts

ASSUME ReconciliationAssumption ==
    /\ Types \subseteq {"create", "close", "cancel", "leverage"}
    /\ "none" \notin Ports \cup Owners \cup JournalIds
    /\ {ActionExpiry, LeaseDuration, LeaseRetry, MaxForegroundAttempts}
          \subseteq Nat \ {0}
    /\ {MaxTime, MaxFailures, MaxRestarts} \subseteq Nat

VARIABLES
    wall,      \* the time
    journal,   \* action_journal
    type,      \* the type of each action
    exchange,  \* what the exchange holds for each action
    executed,  \* history: "pending", or what the exchange did with the action
    lag,       \* how far the shared server-time sample is behind
    ports,     \* frames of the port runs
    owner,     \* the lease owner of the mounted runtime
    due,       \* actions the mounted runtime has still to start a port for
    failures,  \* queries that failed so far
    restarts   \* crashes and remounts so far

vars == <<wall, journal, type, exchange, executed, lag, ports, owner, due,
          failures, restarts>>

J == INSTANCE ActionJournal WITH
        Agents <- JournalIds, Accounts <- {"account"}, Intents <- JournalIds,
        Repositories <- {"repository"}, MaxClockRollback <- 0,
        MaxSampleAge <- 0, MaxServerSkew <- 0, MaxBackoff <- MaxTime,
        Outcomes <- {"accepted", "rejected", "expired",
                     "reconciled_ambiguous"},
        MaxAttempts <- MaxForegroundAttempts,
        scopes <- [a \in JournalIds |->
                     [status |-> "active", account |-> "account",
                      lastNonce |-> -1, lastWall |-> 0]],
        tombstones <- <<>>, open <- {"repository"},
        prepared <- [r \in {"repository"} |-> {}], permits <- {},
        writes <- [j \in JournalIds |-> 1], lifetime <- JournalIds

Max2(a, b) == IF a >= b THEN a ELSE b
Min2(a, b) == IF a <= b THEN a ELSE b

-----------------------------------------------------------------------------
(* The exchange *)

\* What the exchange shows of an action before it arrives: the target of a
\* cancel is an open order, a close has a position, the leverage differs.
BeforeArrival(t) ==
    [order    |-> IF t = "cancel" THEN "open" ELSE "unknown",
     position |-> IF t = "close" THEN "nonzero" ELSE "none",
     leverage |-> IF t = "leverage" THEN "other" ELSE "none"]

OrderStates == {"unknown", "open", "filled", "canceled", "rejected"}
PositionStates == {"none", "nonzero", "zero"}
LeverageStates == {"none", "other", "requested"}

ExchangeTypeOK ==
    /\ exchange \in [JournalIds -> [order: OrderStates,
                                    position: PositionStates,
                                    leverage: LeverageStates]]
    /\ executed \in [JournalIds -> {"pending", "done", "refused"}]

\* The order of j fills; a close that fills ends the position.
Filled(j) ==
    [exchange[j] EXCEPT !.order = "filled",
                        !.position = IF type[j] = "close" THEN "zero" ELSE @]

\* What carrying the action out can lead to.
Effects(j) ==
    CASE type[j] \in {"create", "close"} ->
            {[exchange[j] EXCEPT !.order = "open"], Filled(j)}
      [] type[j] = "cancel" ->
            IF exchange[j].order = "open"
            THEN {[exchange[j] EXCEPT !.order = "canceled"]} ELSE {}
      [] type[j] = "leverage" ->
            {[exchange[j] EXCEPT !.leverage = "requested"]}

\* The request arrives, however late, and is carried out unless it expired.
ExchangeExecutes(j) ==
    /\ executed[j] = "pending"
    /\ wall <= journal[j].expiresAfter
    /\ exchange' \in {[exchange EXCEPT ![j] = e] : e \in Effects(j)}
    /\ executed' = [executed EXCEPT ![j] = "done"]
    /\ UNCHANGED <<wall, journal, type, lag, ports, owner, due, failures,
                   restarts>>

\* The request is refused, with or without a rejected order on record.
ExchangeRefuses(j) ==
    /\ executed[j] = "pending"
    /\ executed' = [executed EXCEPT ![j] = "refused"]
    /\ exchange' \in {exchange} \cup
          (IF type[j] \in {"create", "close"}
           THEN {[exchange EXCEPT ![j].order = "rejected"]} ELSE {})
    /\ UNCHANGED <<wall, journal, type, lag, ports, owner, due, failures,
                   restarts>>

\* Matching, other clients, and the exchange forgetting a finished order.
OthersAct(j) ==
    /\ \/ /\ exchange[j].order = "open"
          /\ exchange' \in {[exchange EXCEPT ![j] = Filled(j)],
                            [exchange EXCEPT ![j].order = "canceled"]}
       \/ /\ type[j] = "cancel" /\ exchange[j].order \in {"filled", "canceled"}
          /\ exchange' = [exchange EXCEPT ![j].order = "unknown"]
       \/ /\ exchange[j].position = "nonzero"
          /\ exchange' = [exchange EXCEPT ![j].position = "zero"]
       \/ /\ exchange[j].leverage \in {"other", "requested"}
          /\ exchange' = [exchange EXCEPT ![j].leverage =
                            IF @ = "other" THEN "requested" ELSE "other"]
    /\ UNCHANGED <<wall, journal, type, executed, lag, ports, owner, due,
                   failures, restarts>>

-----------------------------------------------------------------------------
(* The reconciler's frame *)

NoPort == [pc |-> "idle", row |-> "none", owner |-> "none", startup |-> FALSE,
           attempt |-> 0, wakeAt |-> 0, stage |-> "order", date |-> 0,
           order |-> "unknown", position |-> "none", leverage |-> "none"]

Asking == {"asking", "answering", "reading"}

PortFrame ==
    [pc: {"idle", "waiting", "retrying", "done"} \cup Asking,
     row: JournalIds \cup {"none"}, owner: Owners \cup {"none"},
     startup: BOOLEAN, attempt: 0..MaxForegroundAttempts, wakeAt: Nat,
     stage: {"order", "state"}, date: Nat,
     order: OrderStates, position: PositionStates, leverage: LeverageStates]

PortTypeOK ==
    /\ ports \in [Ports -> PortFrame]
    /\ \A p \in Ports : ports[p].date <= wall

\* The port returns; its frame is gone.
Returned == [NoPort EXCEPT !.pc = "done"]

\* A frame that waits holds only what the port was called with and its
\* attempt number.
Waits(port, pc, wakeAt) ==
    [NoPort EXCEPT !.pc = pc, !.row = port.row, !.owner = port.owner,
                   !.startup = port.startup, !.attempt = port.attempt,
                   !.wakeAt = wakeAt]

\* shouldContinue is false: the effect that started the port was cleaned up.
Abandoned(port) == port.startup /\ port.owner # owner

\* Faulty variant: one attempt too few.
LoopHeadOnceLess(port, row) ==
    IF \/ port.attempt + 1 >= MaxForegroundAttempts
       \/ row.state \notin J!ReconcilableStates
    THEN Returned
    ELSE Waits(port, "waiting", Max2(wall, row.nextAt))

\* The head of the port's loop, for the row as it then is.
LoopHead(port, row) ==
    IF \/ port.attempt >= MaxForegroundAttempts
       \/ Abandoned(port)
       \/ row.state \notin J!ReconcilableStates
    THEN Returned
    ELSE Waits(port, "waiting", Max2(wall, row.nextAt))

\* lease_lost: the port waits a moment and goes around.
LeaseLost(port) ==
    Waits([port EXCEPT !.attempt = @ + 1], "retrying", wall + LeaseRetry)

\* The runtime hands an action to a port: the confirmation whose response was
\* lost (it may have been made under the first runtime), or the startup of a
\* mounted runtime.
StartPort(p) ==
    /\ ports[p].pc = "idle"
    /\ \E j \in due, startup \in BOOLEAN :
          /\ restarts > 0 => startup
          /\ due' = due \ {j}
          /\ ports' = [ports EXCEPT ![p] =
                         LoopHead([NoPort EXCEPT !.row = j, !.owner = owner,
                                                 !.startup = startup],
                                  journal[j])]
    /\ UNCHANGED <<wall, journal, type, exchange, executed, lag, owner,
                   failures, restarts>>

\* reconcile: claim the lease and ask, unless the row is settled or leased.
Attempt(p) ==
    LET port == ports[p]
        j == port.row
    IN  /\ port.pc = "waiting" /\ wall >= port.wakeAt
        /\ IF Abandoned(port) \/ journal[j].state \notin J!ReconcilableStates
           THEN /\ ports' = [ports EXCEPT ![p] = Returned]
                /\ UNCHANGED journal
           ELSE IF J!LeaseFree(j)
           THEN /\ ports' = [ports EXCEPT ![p].pc = "asking",
                                          ![p].wakeAt = 0]
                /\ journal' = [journal EXCEPT ![j] = J!Leased(@, port.owner)]
           ELSE /\ ports' = [ports EXCEPT ![p] = LeaseLost(port)]
                /\ UNCHANGED journal
        /\ UNCHANGED <<wall, type, exchange, executed, lag, owner, due,
                       failures, restarts>>

Retry(p) ==
    /\ ports[p].pc = "retrying" /\ wall >= ports[p].wakeAt
    /\ ports' = [ports EXCEPT ![p] = LoopHead(@, journal[@.row])]
    /\ UNCHANGED <<wall, journal, type, exchange, executed, lag, owner,
                   due, failures, restarts>>

\* The exchange evaluates the query; its Date header is the time of that.
Evaluate(p) ==
    LET port == ports[p]
        shown == exchange[port.row]
    IN  /\ port.pc = "asking"
        /\ ports' = [ports EXCEPT ![p] =
              IF port.stage = "order"
              THEN [port EXCEPT !.pc = "answering", !.date = wall,
                                !.order = shown.order,
                                !.leverage = shown.leverage,
                                !.position = "none"]
              ELSE [port EXCEPT !.pc = "answering", !.date = wall,
                                !.position = shown.position]]
        /\ UNCHANGED <<wall, journal, type, exchange, executed, lag, owner,
                       due, failures, restarts>>

\* createAuthoritativeServerClock: each response replaces the sample.
HeadersArrive(p) ==
    /\ ports[p].pc = "answering"
    /\ lag' = wall - ports[p].date
    /\ ports' = [ports EXCEPT ![p].pc = "reading", ![p].date = 0]
    /\ UNCHANGED <<wall, journal, type, exchange, executed, owner, due,
                   failures, restarts>>

\* currentServerTime: the sample carried forward by the monotonic clock.
CurrentServerTime == wall - lag

\* What the policy sees of the row and of the port's answers.
Record(j) ==
    [type |-> type[j], expiresAfter |-> journal[j].expiresAfter,
     hadPosition |-> TRUE, targetObserved |-> TRUE, reviewedAt |-> 0]

Evidence(port) ==
    [complete |-> TRUE, order |-> port.order,
     openOrder |-> port.order = "open", fill |-> FALSE,
     definitiveRejection |-> FALSE, position |-> port.position,
     leverage |-> port.leverage, attributed |-> FALSE,
     serverTime |-> CurrentServerTime, stateVersion |-> CurrentServerTime]

\* nextAttempt: exponential up to the probe one second after the expiry, one
\* second from then on.
Backoff(attempts) == Min2(30, 2 ^ Min2(attempts, 5))

NextAttempt(row) ==
    LET probe == row.expiresAfter + 1
    IN  IF wall < probe THEN Min2(wall + Backoff(row.attempts), probe)
                        ELSE wall + Min2(Backoff(row.attempts), 1)

\* renewReconciliationLease succeeds.
LeaseHeld(j, o) ==
    journal[j].leaseOwner = o /\ journal[j].leaseExpiresAt > wall

\* The lease is renewed; the decision is written or the next attempt put
\* off.  A port that lost its lease writes nothing.
Settle(p, decision) ==
    LET port == ports[p]
        j == port.row
        later == J!Rescheduled(journal[j], NextAttempt(journal[j]))
    IN  IF ~LeaseHeld(j, port.owner)
        THEN /\ ports' = [ports EXCEPT ![p] = LeaseLost(port)]
             /\ UNCHANGED journal
        ELSE IF decision.kind = "terminal"
        THEN /\ ports' = [ports EXCEPT ![p] = Returned]
             /\ journal' = [journal EXCEPT ![j] =
                              J!Transitioned(@, decision.state)]
        ELSE /\ ports' = [ports EXCEPT ![p] =
                   LoopHead([port EXCEPT !.attempt = @ + 1], later)]
             /\ journal' = [journal EXCEPT ![j] = later]

\* A close whose order is unknown after the expiry also asks for the position.
AsksPosition(port) ==
    /\ type[port.row] = "close" /\ port.stage = "order"
    /\ port.order = "unknown"
    /\ CurrentServerTime > journal[port.row].expiresAfter

BodyArrives(p) ==
    LET port == ports[p]
    IN  /\ port.pc = "reading"
        /\ IF AsksPosition(port)
           THEN /\ ports' = [ports EXCEPT ![p].pc = "asking",
                                          ![p].stage = "state"]
                /\ UNCHANGED journal
           ELSE Settle(p, DecideReconciliation(Record(port.row),
                                               Evidence(port)))
        /\ UNCHANGED <<wall, type, exchange, executed, lag, owner, due,
                       failures, restarts>>

\* The query times out, fails, or its body is not understood.
QueryFails(p) ==
    /\ ports[p].pc \in Asking
    /\ failures < MaxFailures
    /\ failures' = failures + 1
    /\ Settle(p, Unresolved)
    /\ UNCHANGED <<wall, type, exchange, executed, lag, owner, due,
                   restarts>>

-----------------------------------------------------------------------------
(* The process *)

Reconcilable == {j \in JournalIds : journal[j].state \in J!ReconcilableStates}

\* A runtime mounts under an owner of its own and takes up every row that
\* waits; recoverAfterRestart leaves unresolved rows and leases alone.  After
\* a crash the ports and the sample are gone; after a remount in the same
\* process the confirmations' ports run on and the startup's ports stop where
\* they next look.
Restart(o, crash) ==
    /\ restarts < MaxRestarts
    /\ restarts' = restarts + 1
    /\ owner # o /\ owner' = o
    /\ \A p \in Ports : ports[p].owner # o
    /\ due' = Reconcilable
    /\ journal' = [j \in JournalIds |-> J!Recovered(journal[j])]
    /\ IF crash
       THEN /\ ports' = [p \in Ports |-> NoPort]
            /\ lag' = 0
       ELSE UNCHANGED <<ports, lag>>
    /\ UNCHANGED <<wall, type, exchange, executed, failures>>

Tick ==
    /\ wall < MaxTime
    /\ wall' = wall + 1
    /\ UNCHANGED <<journal, type, exchange, executed, lag, ports, owner,
                   due, failures, restarts>>

-----------------------------------------------------------------------------
Init ==
    /\ wall = 0
    /\ type \in [JournalIds -> Types]
    /\ journal = [j \in JournalIds |->
          J!Transitioned(J!SubmissionStarted(J!PreparedRow(j, j)),
                         "unresolved")]
    /\ exchange = [j \in JournalIds |-> BeforeArrival(type[j])]
    /\ executed = [j \in JournalIds |-> "pending"]
    /\ lag = 0
    /\ ports = [p \in Ports |-> NoPort]
    /\ owner \in Owners
    /\ due = JournalIds
    /\ failures = 0
    /\ restarts = 0

ExchangeStep ==
    \E j \in JournalIds :
        ExchangeExecutes(j) \/ ExchangeRefuses(j) \/ OthersAct(j)

PortStep(p) ==
    \/ Attempt(p)
    \/ Retry(p)
    \/ Evaluate(p)
    \/ HeadersArrive(p)
    \/ BodyArrives(p)

Next ==
    \/ ExchangeStep
    \/ \E p \in Ports : StartPort(p) \/ PortStep(p) \/ QueryFails(p)
    \/ \E o \in Owners, crash \in BOOLEAN : Restart(o, crash)
    \/ Tick

Spec == Init /\ [][Next]_vars

\* The app stays in the foreground: timers fire when they are due, requests
\* are answered or fail within a second, a mounted runtime starts its ports
\* at once.
TimelyTick ==
    /\ \A p \in Ports :
          /\ ports[p].pc \in {"waiting", "retrying"} => wall < ports[p].wakeAt
          /\ ports[p].pc \notin Asking
    /\ due = {}
    /\ Tick

TimelyNext ==
    \/ ExchangeStep
    \/ \E p \in Ports : StartPort(p) \/ PortStep(p) \/ QueryFails(p)
    \/ \E o \in Owners, crash \in BOOLEAN : Restart(o, crash)
    \/ TimelyTick

TimelySpec ==
    /\ Init /\ [][TimelyNext]_vars
    /\ \A p \in Ports : WF_vars(StartPort(p)) /\ WF_vars(PortStep(p))
    /\ WF_vars(TimelyTick)

-----------------------------------------------------------------------------
(* Correctness *)

\* Type invariant.
TypeOK ==
    /\ wall \in 0..MaxTime
    /\ journal \in [JournalIds -> J!RowType]
    /\ type \in [JournalIds -> Types]
    /\ ExchangeTypeOK
    /\ PortTypeOK
    /\ owner \in Owners
    /\ due \subseteq JournalIds
    /\ lag \in 0..wall

\* A verdict is the truth: an order the journal calls accepted was carried out,
\* the target of an accepted cancel is no longer open, and what it calls
\* rejected the exchange did not carry out, then or later, although the request
\* may still be travelling. And `expired' is never recorded while the action
\* can still be carried out: the server time the reconciler works with does not
\* run ahead of the exchange, whichever response set the sample last.
VerdictIsTrue ==
    \A j \in JournalIds :
        /\ journal[j].state = "accepted" =>
              IF type[j] = "cancel" THEN exchange[j].order # "open"
                                    ELSE executed[j] = "done"
        /\ journal[j].state = "rejected" => executed[j] = "refused"
        /\ journal[j].state = "expired" => wall > journal[j].expiresAfter

\* `expired' is true: an order that expired was never carried out.
ExpiredNeverExecuted ==
    \A j \in JournalIds :
        journal[j].state = "expired" => executed[j] # "done"

\* Every unresolved action is settled in the end, unless more than one query
\* failed: the port's attempts last until one of them falls after the expiry.
EventuallySettled ==
    \A j \in JournalIds :
        <>(journal[j].state \in J!TerminalStates \/ failures > 1)

\* A runtime that mounts takes up every unresolved action: one of its ports
\* asks the exchange about it, unless it is settled before.
StartupResumes ==
    \A j \in JournalIds :
        (restarts > 0 /\ j \in due) ~>
            \/ journal[j].state \in J!TerminalStates
            \/ \E p \in Ports : /\ ports[p].row = j /\ ports[p].pc \in Asking
                               /\ ports[p].owner = owner

-----------------------------------------------------------------------------
(* Refinement *)

\* The actions of the contract are the rows, whose requests went out.
Contract == INSTANCE ActionLife WITH
    Actions <- JournalIds,
    life <- [j \in JournalIds |-> J!LifeOf(journal[j])],
    request <- [j \in JournalIds |-> J!RequestOf(journal[j])],
    sent <- [j \in JournalIds |-> 1]

\* However ports, remounts and lost leases interleave, an action is settled once and
\* for good: what a step does to it is a step of ActionLife. (Its journey began
\* before, so the initial states are not those of ActionLife.)
PortsKeepActionLife == [][Contract!Next]_(Contract!lifeVars)

=============================================================================
