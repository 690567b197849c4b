--------------------------- MODULE SignerSession ---------------------------
(***************************************************************************)
(* The in-memory signing session: createSignerSessionManager, the activity *)
(* gate it asks about the foreground, and the lifecycle and context events *)
(* that lock it.  Each step of an unlock or of a signature between two     *)
(* awaits is one action; everything else may happen at an await.           *)
(*                                                                         *)
(* `visibility' stands for the app state the two AppState listeners (the   *)
(* gate's and the lifecycle controller's) see in one native event;         *)
(* "inactive" also stands for an Android window that lost its focus.  The  *)
(* five minutes of a session are the flag `overdue'.                       *)
(***************************************************************************)
EXTENDS ContextSupervisor

CONSTANTS
    Attempts,         \* calls of unlock
    Signs,            \* calls of signTypedData
    MaxSessionEpoch   \* bound: session epochs at which locks from outside come

ASSUME SessionAssumption == /\ "none" \notin Contexts \cup Attempts
                            /\ MaxSessionEpoch \in Nat

VARIABLES
    visibility,    \* "active", "inactive" or "background"
    sessionEpoch,  \* the manager's epoch
    session,       \* the published snapshot
    signer,        \* binding of the signer held in memory, or "none"
    timer,         \* session epoch the armed expiry timer belongs to, or -1
    inFlight,      \* the unlock call that later equal calls share, or "none"
    attempts,      \* frames of the unlock calls
    signs          \* frames of the signTypedData calls

sessionVars == <<visibility, sessionEpoch, session, signer, timer, inFlight,
                 attempts, signs>>

vars == <<contextVars, sessionVars>>

-----------------------------------------------------------------------------
Locked == [status |-> "locked", epoch |-> 0, binding |-> "none",
           contextEpoch |-> 0, overdue |-> FALSE]

\* secret: decrypted key bytes are alive in the frame.  revoked: history, the
\* session was locked since the call began.
NoAttempt == [pc |-> "idle", epoch |-> 0, binding |-> "none",
              contextEpoch |-> 0, secret |-> FALSE, revoked |-> FALSE]

\* interrupted: history, since the signature began the session was locked,
\* the app left the foreground or the context moved.
NoSign == [pc |-> "idle", epoch |-> 0, binding |-> "none",
           contextEpoch |-> 0, interrupted |-> FALSE]

\* Where an unlock call waits: for the device-authentication check, for the
\* foreground (before and after the read), for the vault, for the signer.
AttemptWaits == {"authenticating", "settling_auth", "reading",
                 "settling_read", "building"}

AttemptType ==
    [pc: {"idle", "unlocked", "joined", "failed"} \cup AttemptWaits,
     epoch: Nat, binding: Contexts \cup {"none"}, contextEpoch: Nat,
     secret: BOOLEAN, revoked: BOOLEAN]

SignType ==
    [pc: {"idle", "signing", "signed", "failed"},
     epoch: Nat, binding: Contexts \cup {"none"}, contextEpoch: Nat,
     interrupted: BOOLEAN]

SessionType ==
    [status: {"locked", "unlocking", "unlocked"}, epoch: Nat,
     binding: Contexts \cup {"none"}, contextEpoch: Nat, overdue: BOOLEAN]

Active == visibility = "active"

\* isActionReviewContextCurrent, the isContextCurrent callers pass in.
IsContextCurrent(frame) ==
    frame.contextEpoch = epoch /\ frame.binding = rendered

-----------------------------------------------------------------------------
(* Locking *)

Revoked(frames) ==
    [u \in Attempts |-> [frames[u] EXCEPT !.revoked =
                            @ \/ frames[u].pc \in AttemptWaits \cup {"unlocked"}]]

Interrupted(frames) ==
    [k \in Signs |-> [frames[k] EXCEPT !.interrupted =
                            @ \/ frames[k].pc = "signing"]]

LockedEpoch == sessionEpoch + 1

SignerAfterLock == "none"

\* lock: a new epoch, no signer, no timer, no call to share.
LockSession ==
    /\ sessionEpoch' = LockedEpoch
    /\ signer' = SignerAfterLock
    /\ timer' = -1
    /\ inFlight' = "none"
    /\ session' = [Locked EXCEPT !.epoch = LockedEpoch]

SessionKept ==
    UNCHANGED <<sessionEpoch, session, signer, timer, inFlight>>

\* A lock from outside: manual, memory warning, unmount, compromised device.
Lock ==
    /\ sessionEpoch < MaxSessionEpoch
    /\ LockSession
    /\ attempts' = Revoked(attempts)
    /\ signs' = Interrupted(signs)
    /\ UNCHANGED <<contextVars, visibility>>

\* shouldLockSignerSessionForLifecycle: the native authentication sheet takes
\* the focus away while the session is unlocking.
LocksForLifecycle(v) == ~(session.status = "unlocking" /\ v = "inactive")

\* An AppState event.  The gate and the controller both ignore a repeated
\* state; leaving the foreground locks.
AppStateChange(v) ==
    /\ v # visibility
    /\ v # "active" => sessionEpoch < MaxSessionEpoch
    /\ visibility' = v
    /\ IF v # "active" /\ LocksForLifecycle(v)
       THEN LockSession /\ attempts' = Revoked(attempts)
       ELSE SessionKept /\ attempts' = attempts
    /\ signs' = IF v = "active" THEN signs ELSE Interrupted(signs)
    /\ UNCHANGED contextVars

\* The session's five minutes are over; its timer fires now or later.
DurationElapses ==
    /\ session.status = "unlocked" /\ ~session.overdue
    /\ session' = [session EXCEPT !.overdue = TRUE]
    /\ UNCHANGED <<contextVars, visibility, sessionEpoch, signer, timer,
                   inFlight, attempts, signs>>

TimerFires ==
    /\ timer # -1
    /\ session.overdue
    /\ LockSession
    /\ attempts' = Revoked(attempts)
    /\ signs' = Interrupted(signs)
    /\ UNCHANGED <<contextVars, visibility>>

\* A committed context switch locks the session.
CommitSwitchAndLock(switch) ==
    /\ CommitSwitch(switch)
    /\ LockSession
    /\ attempts' = Revoked(attempts)
    /\ signs' = Interrupted(signs)
    /\ UNCHANGED visibility

\* The other context steps touch the session only through isContextCurrent.
ContextMoves ==
    /\ \/ \E next \in Contexts : SwitchContext(next)
       \/ \E switch \in switches : DropSwitch(switch) \/ FailSwitch(switch)
       \/ Render
    /\ signs' = IF epoch' # epoch \/ rendered' # rendered
                THEN Interrupted(signs) ELSE signs
    /\ UNCHANGED <<visibility, sessionEpoch, session, signer, timer, inFlight,
                   attempts>>

-----------------------------------------------------------------------------
(* unlock *)

\* sameUnlockRequest
SharesInFlight(binding, contextEpoch) ==
    /\ inFlight # "none"
    /\ session.status = "unlocking"
    /\ session.binding = binding /\ session.contextEpoch = contextEpoch

\* The session is already unlocked for this exact request and still good.
AlreadyUnlocked(binding, contextEpoch) ==
    /\ session.status = "unlocked"
    /\ session.binding = binding /\ session.contextEpoch = contextEpoch
    /\ contextEpoch = epoch /\ binding = rendered
    /\ Active /\ ~session.overdue

\* unlock of a call that joins another one or finds the session unlocked.
JoinUnlock(u, binding, contextEpoch) ==
    /\ attempts[u].pc = "idle"
    /\ SharesInFlight(binding, contextEpoch)
          \/ AlreadyUnlocked(binding, contextEpoch)
    /\ attempts' = [attempts EXCEPT ![u] =
                      [NoAttempt EXCEPT !.pc = "joined", !.binding = binding,
                                        !.contextEpoch = contextEpoch]]
    /\ UNCHANGED <<contextVars, visibility, sessionEpoch, session, signer,
                   timer, inFlight, signs>>

\* unlock that starts over: it locks whatever there was and publishes
\* `unlocking' under the new epoch.
BeginUnlock(u, binding, contextEpoch) ==
    /\ attempts[u].pc = "idle"
    /\ ~SharesInFlight(binding, contextEpoch)
    /\ ~AlreadyUnlocked(binding, contextEpoch)
    /\ sessionEpoch' = LockedEpoch
    /\ signer' = SignerAfterLock
    /\ timer' = -1
    /\ inFlight' = u
    /\ session' = [status |-> "unlocking", epoch |-> LockedEpoch,
                   binding |-> binding, contextEpoch |-> contextEpoch,
                   overdue |-> FALSE]
    /\ attempts' = [Revoked(attempts) EXCEPT ![u] =
                      [NoAttempt EXCEPT !.pc = "authenticating",
                                        !.epoch = LockedEpoch,
                                        !.binding = binding,
                                        !.contextEpoch = contextEpoch]]
    /\ signs' = Interrupted(signs)
    /\ UNCHANGED <<contextVars, visibility>>

\* Faulty variant: the foreground check is missing.
UnlockCurrentAnywhere(u) ==
    attempts[u].epoch = sessionEpoch /\ IsContextCurrent(attempts[u])

\* assertUnlockCurrent
UnlockCurrent(u) ==
    /\ attempts[u].epoch = sessionEpoch
    /\ IsContextCurrent(attempts[u])
    /\ Active

\* The finally clause of the call u.
InFlightAfter(u) == IF inFlight = u THEN "none" ELSE inFlight

\* The catch and finally clauses: the secret is disposed, and a call that is
\* still the session's own locks it.
FailAttempt(u) ==
    LET ended == [attempts EXCEPT ![u].pc = "failed", ![u].secret = FALSE]
    IN  IF attempts[u].epoch = sessionEpoch
        THEN LockSession /\ attempts' = Revoked(ended)
                         /\ signs' = Interrupted(signs)
        ELSE /\ attempts' = ended
             /\ inFlight' = InFlightAfter(u)
             /\ UNCHANGED <<sessionEpoch, session, signer, timer, signs>>

\* An unlock call moves on to its next await.
AttemptMoves(u, pc, secret) ==
    /\ attempts' = [attempts EXCEPT ![u].pc = pc, ![u].secret = secret]
    /\ SessionKept /\ UNCHANGED signs

\* assertAvailable resolved, or the wait for the foreground ended; when the
\* call is current the vault is read.
ReadVault(u) ==
    IF UnlockCurrent(u) THEN AttemptMoves(u, "reading", FALSE)
                        ELSE FailAttempt(u)

DeviceAuthAvailable(u) ==
    /\ attempts[u].pc = "authenticating"
    /\ IF Active THEN ReadVault(u)
                 ELSE AttemptMoves(u, "settling_auth", FALSE)
    /\ UNCHANGED <<contextVars, visibility>>

\* The vault returned the secret; the signer is built when the call is still
\* current in the foreground.
BuildSigner(u) ==
    IF UnlockCurrent(u) THEN AttemptMoves(u, "building", TRUE)
                        ELSE FailAttempt(u)

SecretRead(u) ==
    /\ attempts[u].pc = "reading"
    /\ IF Active THEN BuildSigner(u)
                 ELSE AttemptMoves(u, "settling_read", TRUE)
    /\ UNCHANGED <<contextVars, visibility>>

\* settleActiveFocus ends: the app is active again, was sent to the
\* background, or 1.5 s have passed.
FocusSettled(u) ==
    /\ attempts[u].pc \in {"settling_auth", "settling_read"}
    /\ IF attempts[u].pc = "settling_auth" THEN ReadVault(u)
                                           ELSE BuildSigner(u)
    /\ UNCHANGED <<contextVars, visibility>>

\* Faulty variant: the timer is not kept.
ArmedTimerForgotten(u) == -1

ArmedTimer(u) == attempts[u].epoch

\* The signer is built: the session is published and its timer armed.
SignerBuilt(u) ==
    /\ attempts[u].pc = "building"
    /\ IF UnlockCurrent(u)
       THEN /\ signer' = attempts[u].binding
            /\ session' = [status |-> "unlocked", epoch |-> attempts[u].epoch,
                           binding |-> attempts[u].binding,
                           contextEpoch |-> attempts[u].contextEpoch,
                           overdue |-> FALSE]
            /\ timer' = ArmedTimer(u)
            /\ inFlight' = InFlightAfter(u)
            /\ attempts' = [attempts EXCEPT ![u].pc = "unlocked",
                                            ![u].secret = FALSE]
            /\ UNCHANGED <<sessionEpoch, signs>>
       ELSE FailAttempt(u)
    /\ UNCHANGED <<contextVars, visibility>>

\* Device authentication, the vault or the signer factory fails.
UnlockFails(u) ==
    /\ attempts[u].pc \in {"authenticating", "reading", "building"}
    /\ FailAttempt(u)
    /\ UNCHANGED <<contextVars, visibility>>

-----------------------------------------------------------------------------
(* signTypedData *)

SignRefused(k) == signs' = [signs EXCEPT ![k].pc = "failed"]

SignRequest(binding, contextEpoch) ==
    [pc |-> "signing", epoch |-> sessionEpoch, binding |-> binding,
     contextEpoch |-> contextEpoch, interrupted |-> FALSE]

\* The checks before the signature; a failed one may lock the session.
BeginSign(k, binding, contextEpoch) ==
    LET request == SignRequest(binding, contextEpoch)
        mayTry == session.status = "unlocked" /\ signer # "none"
        locks == mayTry /\ \/ session.overdue
                           \/ /\ session.binding = binding
                              /\ \/ session.contextEpoch # contextEpoch
                                 \/ ~IsContextCurrent(request)
                                 \/ ~Active
        signing == mayTry /\ ~locks /\ session.binding = binding
    IN  /\ signs[k].pc = "idle"
        /\ IF locks
           THEN /\ LockSession /\ attempts' = Revoked(attempts)
                /\ signs' = [Interrupted(signs) EXCEPT ![k].pc = "failed"]
           ELSE /\ SessionKept /\ UNCHANGED attempts
                /\ IF signing THEN signs' = [signs EXCEPT ![k] = request]
                              ELSE SignRefused(k)
        /\ UNCHANGED <<contextVars, visibility>>

\* Faulty variant: the session epoch is not compared.
SignResultCurrentAnyEpoch(k) == IsContextCurrent(signs[k]) /\ Active

SignResultCurrent(k) ==
    signs[k].epoch = sessionEpoch /\ IsContextCurrent(signs[k]) /\ Active

\* The signature arrives: it is returned when nothing changed; otherwise the
\* session is locked, whichever session that is by now.
EndSign(k) ==
    /\ signs[k].pc = "signing"
    /\ IF SignResultCurrent(k)
       THEN /\ SessionKept /\ UNCHANGED attempts
            /\ signs' = [signs EXCEPT ![k].pc = "signed"]
       ELSE /\ LockSession /\ attempts' = Revoked(attempts)
            /\ signs' = [Interrupted(signs) EXCEPT ![k].pc = "failed"]
    /\ UNCHANGED <<contextVars, visibility>>

\* The signer rejects, for example because it was destroyed meanwhile.
SignFails(k) ==
    /\ signs[k].pc = "signing"
    /\ SignRefused(k)
    /\ SessionKept
    /\ UNCHANGED <<contextVars, visibility, attempts>>

-----------------------------------------------------------------------------
Init ==
    /\ ContextInit
    /\ visibility = "active"
    /\ sessionEpoch = 0
    /\ session = Locked
    /\ signer = "none"
    /\ timer = -1
    /\ inFlight = "none"
    /\ attempts = [u \in Attempts |-> NoAttempt]
    /\ signs = [k \in Signs |-> NoSign]

UnlockStep(u) ==
    \/ DeviceAuthAvailable(u)
    \/ SecretRead(u)
    \/ FocusSettled(u)
    \/ SignerBuilt(u)
    \/ UnlockFails(u)

CallStep ==
    \E binding \in Contexts, captured \in 0..epoch :
        \/ \E u \in Attempts : \/ JoinUnlock(u, binding, captured)
                               \/ BeginUnlock(u, binding, captured)
        \/ \E k \in Signs : BeginSign(k, binding, captured)

EnvironmentStep ==
    \/ Lock
    \/ \E v \in {"active", "inactive", "background"} : AppStateChange(v)
    \/ DurationElapses
    \/ TimerFires
    \/ ContextMoves
    \/ \E switch \in switches : CommitSwitchAndLock(switch)

Next ==
    \/ CallStep
    \/ \E u \in Attempts : UnlockStep(u)
    \/ \E k \in Signs : EndSign(k) \/ SignFails(k)
    \/ EnvironmentStep

\* The native calls of an unlock end, with a result or an error; the clock
\* runs and the JavaScript timer fires.
Fairness ==
    /\ \A u \in Attempts : WF_vars(UnlockStep(u))
    /\ WF_vars(DurationElapses)
    /\ WF_vars(TimerFires)

Spec == Init /\ [][Next]_vars /\ Fairness

-----------------------------------------------------------------------------
(* Correctness *)

\* Type invariant.
TypeOK ==
    /\ ContextTypeOK
    /\ visibility \in {"active", "inactive", "background"}
    /\ sessionEpoch \in Nat
    /\ session \in SessionType
    /\ signer \in Contexts \cup {"none"}
    /\ timer \in Nat \cup {-1}
    /\ inFlight \in Attempts \cup {"none"}
    /\ attempts \in [Attempts -> AttemptType]
    /\ signs \in [Signs -> SignType]

\* The key is in memory exactly while the session is unlocked, for exactly
\* the binding the snapshot shows, and with the timer armed that ends it: no
\* lock, failure or overlapping unlock leaves a signer behind. The session is
\* unlocked only in the foreground, although losing the focus does not lock it
\* while it is unlocking, and a late result never recreates a stopped one: an
\* unlock call during which the session was locked, by anyone, does not end up
\* owning it.
SignerHeldOnlyUnlocked ==
    /\ session.status = "unlocked" <=> signer # "none"
    /\ session.status = "unlocked" =>
          signer = session.binding /\ timer = session.epoch /\ Active
    /\ session.status # "unlocked" => timer = -1
    /\ \A u \in Attempts :
          attempts[u].revoked =>
              ~(session.status # "locked" /\ session.epoch = attempts[u].epoch)

\* A signature is returned only if, for the whole time it took, the session
\* stayed unlocked, the app in the foreground and the context in place.
SignaturesUninterrupted ==
    \A k \in Signs : signs[k].pc = "signed" => ~signs[k].interrupted

\* Every unlocked session ends: the five minutes are not renewed by use.
SessionsEnd == session.status = "unlocked" ~> session.status # "unlocked"

=============================================================================
