---------------------------- MODULE SessionProofs ----------------------------
(***************************************************************************)
(* Theorems about what the app keeps up while it is in use. The signer's   *)
(* session (SignerSession and the ContextSupervisor it extends): a signer  *)
(* is held only while it is unlocked, a signature is returned only if the  *)
(* session lasted as long as it took, and the context that was selected    *)
(* last is the one that stays. The connection of the live streams          *)
(* (StreamManager): a stream that is caught up has missed nothing it was   *)
(* sent, and no step takes back what is shown. The market lists            *)
(* (MarketLists): a list is of one generation, in its order, and shows no  *)
(* market twice. They hold for any contexts, any number of overlapping     *)
(* unlocks and signatures, any streams, buffers, markets and generations,  *)
(* and any bounds.                                                         *)
(***************************************************************************)
EXTENDS SignerSession, StreamManager, MarketLists, FiniteSetTheorems, SequenceTheorems,
        WellFoundedInduction, TLAPS

-----------------------------------------------------------------------------
(* Frames and snapshots keep their types *)

\* The initial frames and the locked snapshot are well typed.
LEMMA FramesTyped ==
    /\ NoAttempt \in AttemptType
    /\ NoSign \in SignType
    /\ \A n \in Nat : [Locked EXCEPT !.epoch = n] \in SessionType
BY DEF NoAttempt, AttemptType, AttemptWaits, NoSign, SignType, Locked,
       SessionType

\* Marking the calls that a lock revokes or interrupts keeps their types.
LEMMA MarkedTyped ==
    /\ \A frames \in [Attempts -> AttemptType] :
          Revoked(frames) \in [Attempts -> AttemptType]
    /\ \A frames \in [Signs -> SignType] :
          Interrupted(frames) \in [Signs -> SignType]
<1>1. ASSUME NEW frames \in [Attempts -> AttemptType]
      PROVE  Revoked(frames) \in [Attempts -> AttemptType]
  BY DEF Revoked, AttemptType
<1>2. ASSUME NEW frames \in [Signs -> SignType]
      PROVE  Interrupted(frames) \in [Signs -> SignType]
  BY DEF Interrupted, SignType
<1>. QED BY <1>1, <1>2

\* A lock publishes a locked snapshot under the next epoch.
LEMMA LockTyped ==
    ASSUME sessionEpoch \in Nat, LockSession
    PROVE  /\ sessionEpoch' \in Nat
           /\ session' \in SessionType
           /\ signer' \in Contexts \cup {"none"}
           /\ timer' \in Nat \cup {-1}
           /\ inFlight' \in Attempts \cup {"none"}
BY FramesTyped DEF LockSession, LockedEpoch, SignerAfterLock

\* The end of an unlock call in its catch and finally clauses.
LEMMA FailTyped ==
    ASSUME TypeOK, NEW u \in Attempts, FailAttempt(u)
    PROVE  /\ sessionEpoch' \in Nat
           /\ session' \in SessionType
           /\ signer' \in Contexts \cup {"none"}
           /\ timer' \in Nat \cup {-1}
           /\ inFlight' \in Attempts \cup {"none"}
           /\ attempts' \in [Attempts -> AttemptType]
           /\ signs' \in [Signs -> SignType]
<1>. DEFINE ended == [attempts EXCEPT ![u].pc = "failed", ![u].secret = FALSE]
<1>1. ended \in [Attempts -> AttemptType]
  BY DEF TypeOK, AttemptType
<1>2. CASE attempts[u].epoch = sessionEpoch
  BY <1>1, <1>2, LockTyped, MarkedTyped DEF FailAttempt, TypeOK
<1>3. CASE attempts[u].epoch # sessionEpoch
  BY <1>1, <1>3 DEF FailAttempt, TypeOK, InFlightAfter
<1>. QED BY <1>2, <1>3

\* An unlock call that moves on to its next await.
LEMMA MoveTyped ==
    ASSUME TypeOK, NEW u \in Attempts, NEW pc \in AttemptWaits,
           NEW secret \in BOOLEAN, AttemptMoves(u, pc, secret)
    PROVE  /\ sessionEpoch' \in Nat
           /\ session' \in SessionType
           /\ signer' \in Contexts \cup {"none"}
           /\ timer' \in Nat \cup {-1}
           /\ inFlight' \in Attempts \cup {"none"}
           /\ attempts' \in [Attempts -> AttemptType]
           /\ signs' \in [Signs -> SignType]
<1>1. attempts' \in [Attempts -> AttemptType]
  BY DEF TypeOK, AttemptMoves, AttemptType
<1>. QED BY <1>1 DEF TypeOK, AttemptMoves, SessionKept

-----------------------------------------------------------------------------
(* Type correctness *)

\* The launched app is well typed.
LEMMA TypeInit == Init => TypeOK
BY FramesTyped
   DEF Init, ContextInit, TypeOK, ContextTypeOK, Switches, Locked,
       SessionType

\* The supervisor's own steps keep its types.
LEMMA ContextTyped ==
    ASSUME ContextTypeOK,
           \/ \E next \in Contexts : SwitchContext(next)
           \/ \E switch \in switches : \/ DropSwitch(switch)
                                       \/ FailSwitch(switch)
                                       \/ CommitSwitch(switch)
           \/ Render
    PROVE  ContextTypeOK'
BY DEF ContextTypeOK, Switches, SwitchContext, DropSwitch, FailSwitch,
       CommitSwitch, Render

\* Every call, native result and app event keeps the types.
LEMMA TypeNext == TypeOK /\ [Next]_vars => TypeOK'
<1>. SUFFICES ASSUME TypeOK, [Next]_vars PROVE TypeOK'
  OBVIOUS
<1>0. UNCHANGED contextVars => ContextTypeOK'
  BY DEF TypeOK, ContextTypeOK, contextVars
<1>1. ASSUME NEW u \in Attempts, NEW binding \in Contexts,
             NEW captured \in 0..epoch, JoinUnlock(u, binding, captured)
      PROVE  TypeOK'
  <2>1. captured \in Nat
    BY DEF TypeOK, ContextTypeOK
  <2>. QED
    BY <1>0, <1>1, <2>1, FramesTyped
       DEF JoinUnlock, TypeOK, AttemptType, NoAttempt, AttemptWaits
<1>2. ASSUME NEW u \in Attempts, NEW binding \in Contexts,
             NEW captured \in 0..epoch, BeginUnlock(u, binding, captured)
      PROVE  TypeOK'
  <2>1. captured \in Nat /\ LockedEpoch \in Nat
    BY DEF TypeOK, ContextTypeOK, LockedEpoch
  <2>2. [NoAttempt EXCEPT !.pc = "authenticating", !.epoch = LockedEpoch,
            !.binding = binding, !.contextEpoch = captured] \in AttemptType
    BY <2>1 DEF NoAttempt, AttemptType, AttemptWaits
  <2>3. attempts' \in [Attempts -> AttemptType]
    BY <1>2, <2>2, MarkedTyped DEF BeginUnlock, TypeOK
  <2>4. session' \in SessionType
    BY <1>2, <2>1 DEF BeginUnlock, SessionType
  <2>. QED
    BY <1>0, <1>2, <2>1, <2>3, <2>4, MarkedTyped
       DEF BeginUnlock, TypeOK, SignerAfterLock
<1>3. ASSUME NEW k \in Signs, NEW binding \in Contexts,
             NEW captured \in 0..epoch, BeginSign(k, binding, captured)
      PROVE  TypeOK'
  <2>1. SignRequest(binding, captured) \in SignType
    BY DEF TypeOK, ContextTypeOK, SignRequest, SignType
  <2>2. \A frames \in [Signs -> SignType] :
            [frames EXCEPT ![k].pc = "failed"] \in [Signs -> SignType]
    BY DEF SignType
  <2>3. [signs EXCEPT ![k] = SignRequest(binding, captured)]
            \in [Signs -> SignType]
    BY <2>1 DEF TypeOK
  <2>4. Interrupted(signs) \in [Signs -> SignType]
    BY MarkedTyped DEF TypeOK
  <2>5. CASE LockSession /\ attempts' = Revoked(attempts)
    BY <1>0, <1>3, <2>2, <2>3, <2>4, <2>5, LockTyped, MarkedTyped
       DEF BeginSign, TypeOK, SignRefused
  <2>6. CASE SessionKept /\ UNCHANGED attempts
    BY <1>0, <1>3, <2>2, <2>3, <2>4, <2>6
       DEF BeginSign, TypeOK, SessionKept, SignRefused
  <2>. QED BY <1>3, <2>5, <2>6 DEF BeginSign
<1>4. ASSUME NEW u \in Attempts, UnlockStep(u) PROVE TypeOK'
  <2>1. UNCHANGED <<contextVars, visibility>>
    BY <1>4 DEF UnlockStep, DeviceAuthAvailable, SecretRead, FocusSettled,
               SignerBuilt, UnlockFails
  <2>2. CASE FailAttempt(u)
    BY <1>0, <2>1, <2>2, FailTyped DEF TypeOK
  <2>3. CASE \E pc \in AttemptWaits, secret \in BOOLEAN :
                AttemptMoves(u, pc, secret)
    BY <1>0, <2>1, <2>3, MoveTyped DEF TypeOK
  <2>4. CASE SignerBuilt(u)
    <3>1. CASE UnlockCurrent(u)
      <4>1. attempts' \in [Attempts -> AttemptType]
        BY <2>4, <3>1 DEF SignerBuilt, TypeOK, AttemptType
      <4>. DEFINE call == attempts[u]
      <4>4. /\ call.epoch \in Nat
            /\ call.binding \in Contexts \cup {"none"}
            /\ call.contextEpoch \in Nat
        BY DEF TypeOK, AttemptType
      <4>5. session' = [status |-> "unlocked", epoch |-> call.epoch,
                        binding |-> call.binding,
                        contextEpoch |-> call.contextEpoch,
                        overdue |-> FALSE] /\ timer' = call.epoch
        BY <2>4, <3>1 DEF SignerBuilt, ArmedTimer
      <4>2. session' \in SessionType /\ timer' \in Nat
        <5>. HIDE DEF call
        <5>. QED BY <4>4, <4>5 DEF SessionType
      <4>3. signer' \in Contexts \cup {"none"}
        BY <2>4, <3>1 DEF SignerBuilt, TypeOK, AttemptType
      <4>. QED
        BY <1>0, <2>1, <2>4, <3>1, <4>1, <4>2, <4>3
           DEF SignerBuilt, TypeOK, InFlightAfter
    <3>. QED BY <2>2, <2>4, <3>1 DEF SignerBuilt
  <2>. QED
    BY <1>4, <2>2, <2>3, <2>4
       DEF UnlockStep, DeviceAuthAvailable, SecretRead, FocusSettled,
           UnlockFails, ReadVault, BuildSigner, AttemptWaits
<1>5. ASSUME NEW k \in Signs, EndSign(k) \/ SignFails(k) PROVE TypeOK'
  <2>1. \A frames \in [Signs -> SignType], pc \in {"signed", "failed"} :
            [frames EXCEPT ![k].pc = pc] \in [Signs -> SignType]
    BY DEF SignType
  <2>2. signs' \in [Signs -> SignType]
    <3>1. signs \in [Signs -> SignType]
      BY DEF TypeOK
    <3>2. Interrupted(signs) \in [Signs -> SignType]
      BY <3>1, MarkedTyped
    <3>3. PICK pc \in {"signed", "failed"} :
              \/ signs' = [signs EXCEPT ![k].pc = pc]
              \/ signs' = [Interrupted(signs) EXCEPT ![k].pc = pc]
      BY <1>5 DEF EndSign, SignFails, SignRefused
    <3>4. CASE signs' = [signs EXCEPT ![k].pc = pc]
      BY <2>1, <3>1, <3>4
    <3>5. CASE signs' = [Interrupted(signs) EXCEPT ![k].pc = pc]
      BY <2>1, <3>2, <3>5
    <3>. QED BY <3>3, <3>4, <3>5
  <2>3. CASE LockSession /\ attempts' = Revoked(attempts)
    BY <1>0, <1>5, <2>2, <2>3, LockTyped, MarkedTyped
       DEF EndSign, SignFails, TypeOK
  <2>4. CASE SessionKept /\ UNCHANGED attempts
    BY <1>0, <1>5, <2>2, <2>4 DEF EndSign, SignFails, TypeOK, SessionKept
  <2>. QED BY <1>5, <2>3, <2>4 DEF EndSign, SignFails
<1>6. CASE Lock
  BY <1>0, <1>6, LockTyped, MarkedTyped DEF Lock, TypeOK
<1>7. ASSUME NEW v \in {"active", "inactive", "background"},
             AppStateChange(v)
      PROVE  TypeOK'
  <2>1. CASE LockSession /\ attempts' = Revoked(attempts)
    BY <1>0, <1>7, <2>1, LockTyped, MarkedTyped DEF AppStateChange, TypeOK
  <2>2. CASE SessionKept /\ attempts' = attempts
    BY <1>0, <1>7, <2>2, MarkedTyped DEF AppStateChange, TypeOK, SessionKept
  <2>. QED BY <1>7, <2>1, <2>2 DEF AppStateChange
<1>8. CASE DurationElapses
  BY <1>0, <1>8 DEF DurationElapses, TypeOK, SessionType
<1>9. CASE TimerFires
  BY <1>0, <1>9, LockTyped, MarkedTyped DEF TimerFires, TypeOK
<1>10. CASE ContextMoves
  BY <1>10, ContextTyped, MarkedTyped DEF ContextMoves, TypeOK
<1>11. ASSUME NEW switch \in switches, CommitSwitchAndLock(switch)
       PROVE  TypeOK'
  BY <1>11, ContextTyped, LockTyped, MarkedTyped
     DEF CommitSwitchAndLock, TypeOK
<1>12. CASE UNCHANGED vars
  BY <1>0, <1>12 DEF vars, sessionVars, TypeOK
<1>. QED
  BY <1>1, <1>2, <1>3, <1>4, <1>5, <1>6, <1>7, <1>8, <1>9, <1>10, <1>11,
     <1>12 DEF Next, CallStep, EnvironmentStep

\* The model of the session is type correct.
THEOREM TypeCorrect == Spec => []TypeOK
BY TypeInit, TypeNext, PTL DEF Spec

-----------------------------------------------------------------------------
(* The signer and the session it belongs to *)

\* An unlock call belongs to the session epoch it began, and a lock during the
\* call leaves that epoch behind.
CallInv(u) ==
    /\ attempts[u].epoch <= sessionEpoch
    /\ attempts[u].revoked => attempts[u].epoch < sessionEpoch
    /\ attempts[u].pc \in AttemptWaits => attempts[u].binding \in Contexts

\* The snapshot shows the current epoch, and it is unlocked exactly while its
\* signer is held.
HeldInv ==
    /\ session.epoch = sessionEpoch
    /\ session.status = "unlocked" <=> signer # "none"
    /\ session.status = "unlocked" =>
          signer = session.binding /\ timer = session.epoch /\ Active
    /\ session.status # "unlocked" => timer = -1

SessionInv == HeldInv /\ \A u \in Attempts : CallInv(u)

\* The strengthened invariant says what SignerHeldOnlyUnlocked promises.
LEMMA SessionInvImplies == TypeOK /\ SessionInv => SignerHeldOnlyUnlocked
BY DEF SessionInv, HeldInv, CallInv, SignerHeldOnlyUnlocked, TypeOK,
       AttemptType, SessionType

\* A fresh app satisfies it.
LEMMA SessionInvInit == Init => SessionInv
BY DEF Init, SessionInv, HeldInv, CallInv, NoAttempt, Locked, AttemptWaits

\* A lock keeps it, whatever calls it ends.
LEMMA LockKeepsSession ==
    ASSUME TypeOK, SessionInv, LockSession,
           NEW frames \in [Attempts -> AttemptType],
           \A u \in Attempts :
               /\ frames[u].epoch = attempts[u].epoch
               /\ frames[u].binding = attempts[u].binding
               /\ frames[u].pc \in AttemptWaits =>
                     attempts[u].pc \in AttemptWaits,
           attempts' = Revoked(frames)
    PROVE  SessionInv'
<1>1. HeldInv'
  BY DEF LockSession, LockedEpoch, SignerAfterLock, Locked, HeldInv
<1>2. ASSUME NEW u \in Attempts PROVE CallInv(u)'
  <2>1. /\ attempts'[u].epoch = attempts[u].epoch
        /\ attempts'[u].binding = attempts[u].binding
        /\ attempts'[u].pc = frames[u].pc
    BY DEF Revoked, AttemptType
  <2>2. /\ attempts[u].epoch \in Nat /\ sessionEpoch \in Nat
        /\ attempts[u].epoch <= sessionEpoch
        /\ sessionEpoch' = sessionEpoch + 1
    BY DEF TypeOK, AttemptType, SessionInv, CallInv, LockSession, LockedEpoch
  <2>. QED
    BY <2>1, <2>2 DEF CallInv, SessionInv
<1>. QED BY <1>1, <1>2 DEF SessionInv

\* A call that fails locks its own session and leaves any other alone.
LEMMA FailKeepsSession ==
    ASSUME TypeOK, SessionInv, NEW u \in Attempts, FailAttempt(u),
           UNCHANGED visibility
    PROVE  SessionInv'
<1>. DEFINE ended == [attempts EXCEPT ![u].pc = "failed", ![u].secret = FALSE]
<1>1. ended \in [Attempts -> AttemptType]
  BY DEF TypeOK, AttemptType
<1>2. ASSUME NEW v \in Attempts
      PROVE  /\ ended[v].epoch = attempts[v].epoch
             /\ ended[v].binding = attempts[v].binding
             /\ ended[v].revoked = attempts[v].revoked
             /\ ended[v].pc \in AttemptWaits => attempts[v].pc \in AttemptWaits
  BY DEF TypeOK, AttemptType, AttemptWaits
<1>3. CASE attempts[u].epoch = sessionEpoch
  <2>1. LockSession /\ attempts' = Revoked(ended)
    BY <1>3 DEF FailAttempt
  <2>. HIDE DEF ended
  <2>. QED BY <1>1, <1>2, <2>1, LockKeepsSession
<1>4. CASE attempts[u].epoch # sessionEpoch
  <2>1. /\ attempts' = ended
        /\ UNCHANGED <<sessionEpoch, session, signer, timer, visibility>>
    BY <1>4 DEF FailAttempt
  <2>. HIDE DEF ended
  <2>. QED BY <1>2, <2>1 DEF SessionInv, HeldInv, CallInv, Active
<1>. QED BY <1>3, <1>4

\* A lock without the end of a call.
LEMMA PlainLockKeepsSession ==
    ASSUME TypeOK, SessionInv, LockSession, attempts' = Revoked(attempts)
    PROVE  SessionInv'
BY LockKeepsSession DEF TypeOK

\* A step that leaves the session, its calls and the foreground alone.
LEMMA KeptSession ==
    ASSUME SessionInv, SessionKept, UNCHANGED <<attempts, visibility>>
    PROVE  SessionInv'
BY DEF SessionInv, HeldInv, CallInv, SessionKept, Active

\* Every step keeps the signer with the session it belongs to.
LEMMA SessionInvNext == TypeOK /\ SessionInv /\ [Next]_vars => SessionInv'
<1>. SUFFICES ASSUME TypeOK, SessionInv, [Next]_vars PROVE SessionInv'
  OBVIOUS
<1>1. ASSUME NEW u \in Attempts, NEW binding \in Contexts,
             NEW captured \in 0..epoch, JoinUnlock(u, binding, captured)
      PROVE  SessionInv'
  <2>1. HeldInv'
    BY <1>1 DEF JoinUnlock, SessionInv, HeldInv, Active
  <2>2. ASSUME NEW v \in Attempts PROVE CallInv(v)'
    BY <1>1 DEF JoinUnlock, SessionInv, CallInv, TypeOK, AttemptType,
               NoAttempt, AttemptWaits
  <2>. QED BY <2>1, <2>2 DEF SessionInv
<1>2. ASSUME NEW u \in Attempts, NEW binding \in Contexts,
             NEW captured \in 0..epoch, BeginUnlock(u, binding, captured)
      PROVE  SessionInv'
  <2>1. HeldInv'
    BY <1>2 DEF BeginUnlock, HeldInv, LockedEpoch, SignerAfterLock
  <2>2. ASSUME NEW v \in Attempts PROVE CallInv(v)'
    <3>1. sessionEpoch' = sessionEpoch + 1 /\ sessionEpoch \in Nat
      BY <1>2 DEF BeginUnlock, LockedEpoch, TypeOK
    <3>2. CASE v = u
      <4>1. attempts'[u] = [NoAttempt EXCEPT !.pc = "authenticating",
                              !.epoch = LockedEpoch, !.binding = binding,
                              !.contextEpoch = captured]
        BY <1>2 DEF BeginUnlock, Revoked
      <4>. QED BY <3>1, <3>2, <4>1 DEF CallInv, NoAttempt, LockedEpoch
    <3>3. CASE v # u
      <4>1. /\ attempts'[v].epoch = attempts[v].epoch
            /\ attempts'[v].binding = attempts[v].binding
            /\ attempts'[v].pc = attempts[v].pc
        BY <1>2, <3>3 DEF BeginUnlock, Revoked, TypeOK, AttemptType
      <4>2. attempts[v].epoch \in Nat
        BY DEF TypeOK, AttemptType
      <4>. QED BY <3>1, <4>1, <4>2 DEF CallInv, SessionInv
    <3>. QED BY <3>2, <3>3
  <2>. QED BY <2>1, <2>2 DEF SessionInv
<1>3. ASSUME NEW k \in Signs, NEW binding \in Contexts,
             NEW captured \in 0..epoch, BeginSign(k, binding, captured)
      PROVE  SessionInv'
  BY <1>3, PlainLockKeepsSession, KeptSession DEF BeginSign
<1>4. ASSUME NEW u \in Attempts, UnlockStep(u) PROVE SessionInv'
  <2>1. UNCHANGED visibility
    BY <1>4 DEF UnlockStep, DeviceAuthAvailable, SecretRead, FocusSettled,
               SignerBuilt, UnlockFails
  <2>2. CASE FailAttempt(u)
    BY <2>1, <2>2, FailKeepsSession
  <2>3. ASSUME NEW pc \in AttemptWaits, NEW secret \in BOOLEAN,
               attempts[u].pc \in AttemptWaits, AttemptMoves(u, pc, secret)
        PROVE  SessionInv'
    <3>1. HeldInv'
      BY <2>1, <2>3 DEF AttemptMoves, SessionKept, SessionInv, HeldInv, Active
    <3>2. ASSUME NEW v \in Attempts PROVE CallInv(v)'
      BY <2>3 DEF AttemptMoves, SessionKept, SessionInv, CallInv, TypeOK,
                 AttemptType
    <3>. QED BY <3>1, <3>2 DEF SessionInv
  <2>4. CASE SignerBuilt(u) /\ UnlockCurrent(u)
    <3>1. /\ attempts[u].binding \in Contexts
          /\ attempts[u].epoch = sessionEpoch
          /\ Active
      BY <2>4 DEF SignerBuilt, UnlockCurrent, SessionInv, CallInv,
                 AttemptWaits
    <3>2. HeldInv'
      BY <2>1, <2>4, <3>1, SessionAssumption
         DEF SignerBuilt, HeldInv, ArmedTimer, Active
    <3>3. ASSUME NEW v \in Attempts PROVE CallInv(v)'
      BY <2>4 DEF SignerBuilt, SessionInv, CallInv, TypeOK, AttemptType,
                 AttemptWaits
    <3>. QED BY <3>2, <3>3 DEF SessionInv
  <2>. QED
    BY <1>4, <2>2, <2>3, <2>4
       DEF UnlockStep, DeviceAuthAvailable, SecretRead, FocusSettled,
           SignerBuilt, UnlockFails, ReadVault, BuildSigner, AttemptWaits
<1>5. ASSUME NEW k \in Signs, EndSign(k) \/ SignFails(k) PROVE SessionInv'
  BY <1>5, PlainLockKeepsSession, KeptSession DEF EndSign, SignFails
<1>6. CASE Lock
  BY <1>6, PlainLockKeepsSession DEF Lock
<1>7. ASSUME NEW v \in {"active", "inactive", "background"},
             AppStateChange(v)
      PROVE  SessionInv'
  <2>1. CASE LockSession /\ attempts' = Revoked(attempts)
    BY <2>1, PlainLockKeepsSession
  <2>2. CASE SessionKept /\ attempts' = attempts /\ (v = "active" \/
                session.status = "unlocking")
    BY <1>7, <2>2 DEF AppStateChange, SessionInv, HeldInv, CallInv,
                     SessionKept, Active
  <2>. QED BY <1>7, <2>1, <2>2 DEF AppStateChange, LocksForLifecycle
<1>8. CASE DurationElapses
  BY <1>8 DEF DurationElapses, SessionInv, HeldInv, CallInv, Active, TypeOK,
             SessionType
<1>9. CASE TimerFires
  BY <1>9, PlainLockKeepsSession DEF TimerFires
<1>10. CASE ContextMoves
  BY <1>10 DEF ContextMoves, SessionInv, HeldInv, CallInv, Active
<1>11. ASSUME NEW switch \in switches, CommitSwitchAndLock(switch)
       PROVE  SessionInv'
  BY <1>11, PlainLockKeepsSession DEF CommitSwitchAndLock
<1>12. CASE UNCHANGED vars
  BY <1>12 DEF vars, sessionVars, SessionInv, HeldInv, CallInv, Active
<1>. QED
  BY <1>1, <1>2, <1>3, <1>4, <1>5, <1>6, <1>7, <1>8, <1>9, <1>10, <1>11,
     <1>12 DEF Next, CallStep, EnvironmentStep

\* The key is in memory exactly while the session is unlocked, for the binding
\* it shows and with its timer armed, and no call that a lock revoked owns a
\* session: whatever locks, failures and overlapping unlocks there are.
THEOREM SignerHeld == Spec => []SignerHeldOnlyUnlocked
<1>1. Spec => [](TypeOK /\ SessionInv)
  BY TypeInit, TypeNext, SessionInvInit, SessionInvNext, PTL DEF Spec
<1>. QED
  BY <1>1, SessionInvImplies, PTL

-----------------------------------------------------------------------------
(* Signatures *)

\* While nothing interrupts a signature, its result would be returned. Once it
\* is interrupted, the session epoch has moved, or the context epoch has, or
\* the rendered context is no longer the signature's and will not be again
\* without a switch.
SignInv(k) ==
    /\ signs[k].pc = "signing" =>
          /\ signs[k].epoch <= sessionEpoch
          /\ signs[k].contextEpoch <= epoch
          /\ signs[k].epoch = sessionEpoch => session.status = "unlocked"
          /\ ~signs[k].interrupted => SignResultCurrent(k)
          /\ signs[k].interrupted =>
                \/ signs[k].epoch < sessionEpoch
                \/ signs[k].contextEpoch < epoch
                \/ signs[k].binding # rendered /\ signs[k].binding # current
    /\ signs[k].pc = "signed" => ~signs[k].interrupted

SignsInv == \A k \in Signs : SignInv(k)

\* The invariant of the signatures holds of those not begun.
LEMMA SignsInvInit == Init => SignsInv
BY DEF Init, SignsInv, SignInv, NoSign

\* What a mark changes of a signature.
LEMMA InterruptedFrame ==
    ASSUME TypeOK, NEW k \in Signs
    PROVE  /\ Interrupted(signs)[k].pc = signs[k].pc
           /\ Interrupted(signs)[k].epoch = signs[k].epoch
           /\ Interrupted(signs)[k].contextEpoch = signs[k].contextEpoch
           /\ Interrupted(signs)[k].binding = signs[k].binding
           /\ signs[k].pc = "signing" => Interrupted(signs)[k].interrupted
           /\ signs[k].pc # "signing" =>
                 Interrupted(signs)[k].interrupted = signs[k].interrupted
BY DEF Interrupted, TypeOK, SignType

\* A lock leaves every signature in flight behind the session epoch.
LEMMA LockInterrupts ==
    ASSUME TypeOK, SignsInv, NEW k \in Signs, LockSession, epoch' = epoch,
           signs'[k] = Interrupted(signs)[k] \/ signs'[k].pc = "failed"
    PROVE  SignInv(k)'
<1>1. sessionEpoch \in Nat /\ sessionEpoch' = sessionEpoch + 1
  BY DEF LockSession, LockedEpoch, TypeOK
<1>2. signs[k].epoch \in Nat
  BY DEF TypeOK, SignType
<1>3. CASE signs'[k].pc = "failed"
  BY <1>3 DEF SignInv
<1>4. CASE signs'[k] = Interrupted(signs)[k]
  BY <1>1, <1>2, <1>4, InterruptedFrame DEF SignsInv, SignInv
<1>. QED BY <1>3, <1>4

\* The end of an unlock call interrupts the signatures only if it locks.
LEMMA FailKeepsSigns ==
    ASSUME TypeOK, SignsInv, NEW u \in Attempts, FailAttempt(u),
           UNCHANGED <<contextVars, visibility>>
    PROVE  SignsInv'
<1>1. CASE attempts[u].epoch = sessionEpoch
  BY <1>1, LockInterrupts DEF FailAttempt, SignsInv, contextVars
<1>2. CASE attempts[u].epoch # sessionEpoch
  BY <1>2 DEF FailAttempt, SignsInv, SignInv, SignResultCurrent,
             IsContextCurrent, Active, contextVars
<1>. QED BY <1>1, <1>2

\* A step that leaves the session, the context and the foreground alone.
LEMMA KeptSigns ==
    ASSUME SignsInv, SessionKept, UNCHANGED <<contextVars, visibility>>,
           NEW k \in Signs, signs'[k] = signs[k]
    PROVE  SignInv(k)'
BY DEF SignsInv, SignInv, SessionKept, contextVars, SignResultCurrent,
       IsContextCurrent, Active

\* Every step keeps the invariant of the signatures.
LEMMA SignsInvNext ==
    TypeOK /\ SessionInv /\ SignsInv /\ [Next]_vars => SignsInv'
<1>. SUFFICES ASSUME TypeOK, SessionInv, SignsInv, [Next]_vars
              PROVE  SignsInv'
  OBVIOUS
<1>1. ASSUME NEW u \in Attempts, NEW binding \in Contexts,
             NEW captured \in 0..epoch, JoinUnlock(u, binding, captured)
      PROVE  SignsInv'
  BY <1>1, KeptSigns DEF JoinUnlock, SignsInv, SessionKept
<1>2. ASSUME NEW u \in Attempts, NEW binding \in Contexts,
             NEW captured \in 0..epoch, BeginUnlock(u, binding, captured)
      PROVE  SignsInv'
  <2>1. /\ sessionEpoch \in Nat /\ sessionEpoch' = sessionEpoch + 1
        /\ signs' = Interrupted(signs) /\ epoch' = epoch
    BY <1>2 DEF BeginUnlock, LockedEpoch, TypeOK, contextVars
  <2>2. ASSUME NEW k \in Signs PROVE SignInv(k)'
    <3>1. signs[k].epoch \in Nat
      BY DEF TypeOK, SignType
    <3>. QED BY <2>1, <3>1, InterruptedFrame DEF SignsInv, SignInv
  <2>. QED BY <2>2 DEF SignsInv
<1>3. ASSUME NEW k \in Signs, NEW binding \in Contexts,
             NEW captured \in 0..epoch, BeginSign(k, binding, captured)
      PROVE  SignsInv'
  <2>. SUFFICES ASSUME NEW i \in Signs PROVE SignInv(i)'
    BY DEF SignsInv
  <2>0. /\ signs \in [Signs -> SignType]
        /\ Interrupted(signs) \in [Signs -> SignType]
    BY MarkedTyped DEF TypeOK
  <2>1. CASE LockSession /\
             signs' = [Interrupted(signs) EXCEPT ![k].pc = "failed"]
    <3>1. signs'[i] = Interrupted(signs)[i] \/ signs'[i].pc = "failed"
      BY <2>0, <2>1 DEF SignType
    <3>. QED BY <1>3, <2>1, <3>1, LockInterrupts DEF BeginSign, contextVars
  <2>2. CASE SessionKept /\ SignRefused(k)
    <3>1. CASE i = k
      BY <2>0, <2>2, <3>1 DEF SignRefused, SignInv, SignType
    <3>2. CASE i # k
      BY <1>3, <2>0, <2>2, <3>2, KeptSigns DEF SignRefused, BeginSign
    <3>. QED BY <3>1, <3>2
  <2>3. CASE /\ SessionKept
             /\ signs' = [signs EXCEPT ![k] = SignRequest(binding, captured)]
             /\ session.status = "unlocked"
             /\ IsContextCurrent(SignRequest(binding, captured))
             /\ Active
    <3>1. CASE i = k
      <4>1. signs'[k] = SignRequest(binding, captured)
        BY <2>0, <2>3
      <4>2. sessionEpoch \in Nat /\ captured \in Nat /\ epoch \in Nat
        BY DEF TypeOK, ContextTypeOK
      <4>. QED
        BY <1>3, <2>3, <3>1, <4>1, <4>2
           DEF BeginSign, SignInv, SignRequest, SessionKept, Active,
               SignResultCurrent, IsContextCurrent, contextVars
    <3>2. CASE i # k
      BY <1>3, <2>0, <2>3, <3>2, KeptSigns DEF BeginSign
    <3>. QED BY <3>1, <3>2
  <2>. QED BY <1>3, <2>1, <2>2, <2>3 DEF BeginSign
<1>4. ASSUME NEW u \in Attempts, UnlockStep(u) PROVE SignsInv'
  <2>1. UNCHANGED <<contextVars, visibility>>
    BY <1>4 DEF UnlockStep, DeviceAuthAvailable, SecretRead, FocusSettled,
               SignerBuilt, UnlockFails
  <2>2. CASE FailAttempt(u)
    BY <2>1, <2>2, FailKeepsSigns
  <2>3. CASE SessionKept /\ UNCHANGED signs
    BY <2>1, <2>3, KeptSigns DEF SignsInv
  <2>4. CASE SignerBuilt(u) /\ UnlockCurrent(u)
    BY <2>1, <2>4 DEF SignerBuilt, SignsInv, SignInv, SignResultCurrent,
                      IsContextCurrent, Active, contextVars
  <2>. QED
    BY <1>4, <2>2, <2>3, <2>4
       DEF UnlockStep, DeviceAuthAvailable, SecretRead, FocusSettled,
           SignerBuilt, UnlockFails, ReadVault, BuildSigner, AttemptMoves
<1>5. ASSUME NEW k \in Signs, EndSign(k) PROVE SignsInv'
  <2>. SUFFICES ASSUME NEW i \in Signs PROVE SignInv(i)'
    BY DEF SignsInv
  <2>0. /\ signs \in [Signs -> SignType]
        /\ Interrupted(signs) \in [Signs -> SignType]
    BY MarkedTyped DEF TypeOK
  <2>1. CASE SignResultCurrent(k)
    <3>1. CASE i = k
      <4>1. /\ signs[k].epoch \in Nat /\ signs[k].contextEpoch \in Nat
            /\ sessionEpoch \in Nat /\ epoch \in Nat
        BY DEF TypeOK, ContextTypeOK, SignType
      <4>2. ~signs[k].interrupted
        BY <1>5, <2>1, <4>1
           DEF EndSign, SignsInv, SignInv, SignResultCurrent,
               IsContextCurrent
      <4>. QED
        BY <1>5, <2>0, <2>1, <3>1, <4>2 DEF EndSign, SignInv, SignType
    <3>2. CASE i # k
      BY <1>5, <2>0, <2>1, <3>2, KeptSigns DEF EndSign
    <3>. QED BY <3>1, <3>2
  <2>2. CASE ~SignResultCurrent(k)
    <3>1. signs'[i] = Interrupted(signs)[i] \/ signs'[i].pc = "failed"
      BY <1>5, <2>0, <2>2 DEF EndSign, SignType
    <3>. QED BY <1>5, <2>2, <3>1, LockInterrupts DEF EndSign, contextVars
  <2>. QED BY <2>1, <2>2
<1>6. ASSUME NEW k \in Signs, SignFails(k) PROVE SignsInv'
  <2>. SUFFICES ASSUME NEW i \in Signs PROVE SignInv(i)'
    BY DEF SignsInv
  <2>1. CASE i = k
    BY <1>6, <2>1 DEF SignFails, SignRefused, SignInv, TypeOK, SignType
  <2>2. CASE i # k
    BY <1>6, <2>2, KeptSigns DEF SignFails, SignRefused, TypeOK
  <2>. QED BY <2>1, <2>2
<1>7. CASE Lock
  BY <1>7, LockInterrupts DEF Lock, SignsInv, contextVars
<1>8. ASSUME NEW v \in {"active", "inactive", "background"},
             AppStateChange(v)
      PROVE  SignsInv'
  <2>. SUFFICES ASSUME NEW k \in Signs PROVE SignInv(k)'
    BY DEF SignsInv
  <2>1. CASE LockSession /\ v # "active"
    BY <1>8, <2>1, LockInterrupts DEF AppStateChange, contextVars
  <2>2. CASE SessionKept /\ v = "active"
    BY <1>8, <2>2 DEF AppStateChange, SessionKept, SignsInv, SignInv,
       contextVars, SignResultCurrent, IsContextCurrent, Active
  <2>3. CASE SessionKept /\ v # "active" /\ session.status = "unlocking"
    <3>1. signs'[k] = Interrupted(signs)[k]
      BY <1>8, <2>3 DEF AppStateChange
    <3>2. signs[k].pc = "signing" => signs[k].epoch < sessionEpoch
      BY <2>3 DEF SignsInv, SignInv, TypeOK, SignType
    <3>. QED
      BY <1>8, <2>3, <3>1, <3>2, InterruptedFrame
         DEF AppStateChange, SessionKept, SignsInv, SignInv, contextVars
  <2>. QED BY <1>8, <2>1, <2>2, <2>3 DEF AppStateChange, LocksForLifecycle
<1>9. CASE DurationElapses
  BY <1>9 DEF DurationElapses, SignsInv, SignInv, contextVars, TypeOK,
     SessionType, SignResultCurrent, IsContextCurrent, Active
<1>10. CASE TimerFires
  BY <1>10, LockInterrupts DEF TimerFires, SignsInv, contextVars
<1>11. CASE ContextMoves
  <2>. SUFFICES ASSUME NEW k \in Signs PROVE SignInv(k)'
    BY DEF SignsInv
  <2>0. epoch \in Nat /\ signs[k].contextEpoch \in Nat
        /\ UNCHANGED <<visibility, sessionEpoch, session>>
    BY <1>11 DEF ContextMoves, TypeOK, ContextTypeOK, SignType
  <2>1. ASSUME NEW next \in Contexts, SwitchContext(next) PROVE SignInv(k)'
    <3>1. epoch' = epoch + 1 /\ signs' = Interrupted(signs)
      BY <1>11, <2>0, <2>1 DEF ContextMoves, SwitchContext
    <3>. QED BY <2>0, <3>1, InterruptedFrame DEF SignsInv, SignInv
  <2>2. ASSUME NEW switch \in switches,
               DropSwitch(switch) \/ FailSwitch(switch)
        PROVE  SignInv(k)'
    <3>1. UNCHANGED <<epoch, rendered, current>> /\ signs' = signs
      BY <1>11, <2>2 DEF ContextMoves, DropSwitch, FailSwitch
    <3>. QED
      BY <2>0, <3>1 DEF SignsInv, SignInv, SignResultCurrent,
                        IsContextCurrent, Active
  <2>3. CASE Render
    <3>1. /\ signs' = Interrupted(signs) /\ rendered # current
          /\ rendered' = current /\ UNCHANGED <<epoch, current>>
      BY <1>11, <2>3 DEF ContextMoves, Render
    <3>. QED
      BY <2>0, <3>1, InterruptedFrame
         DEF SignsInv, SignInv, SignResultCurrent, IsContextCurrent
  <2>. QED BY <1>11, <2>1, <2>2, <2>3 DEF ContextMoves
<1>12. ASSUME NEW switch \in switches, CommitSwitchAndLock(switch)
       PROVE  SignsInv'
  BY <1>12, LockInterrupts DEF CommitSwitchAndLock, CommitSwitch, SignsInv
<1>13. CASE UNCHANGED vars
  BY <1>13, KeptSigns DEF vars, sessionVars, SignsInv, SessionKept
<1>. QED
  BY <1>1, <1>2, <1>3, <1>4, <1>5, <1>6, <1>7, <1>8, <1>9, <1>10, <1>11,
     <1>12, <1>13 DEF Next, CallStep, EnvironmentStep

\* A signature that is returned was made in one unlocked session, with the app
\* in the foreground and the context in place from its first check to its last.
THEOREM SignaturesWhole == Spec => []SignaturesUninterrupted
<1>1. Spec => [](TypeOK /\ SessionInv /\ SignsInv)
  BY TypeInit, TypeNext, SessionInvInit, SessionInvNext, SignsInvInit,
     SignsInvNext, PTL DEF Spec
<1>2. SignsInv => SignaturesUninterrupted
  BY DEF SignsInv, SignInv, SignaturesUninterrupted
<1>. QED
  BY <1>1, <1>2, PTL

-----------------------------------------------------------------------------
(* Context switches *)

\* At most one switch carries the current epoch; it is the selection, and
\* without it the committed context is.
SelectionInv ==
    /\ \A s \in switches : s.epoch <= epoch
    /\ \A s \in switches : s.epoch = epoch => s.next = selected
    /\ (\A s \in switches : s.epoch # epoch) => current = selected

\* Nothing is being switched at first.
LEMMA SelectionInit == Init => SelectionInv
BY DEF Init, ContextInit, SelectionInv

\* Two switches of one epoch to the same context are one.
LEMMA SwitchesEqual ==
    ASSUME NEW s \in Switches, NEW t \in Switches, s.epoch = t.epoch,
           s.next = t.next
    PROVE  s = t
BY DEF Switches

\* Starting, committing, dropping and failing a switch keep the selection.
LEMMA SelectionNext == TypeOK /\ SelectionInv /\ [Next]_vars => SelectionInv'
<1>. SUFFICES ASSUME TypeOK, SelectionInv, [Next]_vars PROVE SelectionInv'
  OBVIOUS
<1>0. epoch \in Nat /\ \A s \in switches : s \in Switches /\ s.epoch \in Nat
  BY DEF TypeOK, ContextTypeOK, Switches
<1>1. UNCHANGED contextVars => SelectionInv'
  BY DEF SelectionInv, contextVars
<1>2. ASSUME NEW next \in Contexts, SwitchContext(next) PROVE SelectionInv'
  <2>1. ASSUME NEW s \in switches'
        PROVE  /\ s.epoch <= epoch'
               /\ s.epoch = epoch' => s.next = selected'
    <3>1. CASE s \in switches
      BY <1>0, <1>2, <3>1 DEF SwitchContext, SelectionInv
    <3>2. CASE s = [epoch |-> epoch + 1, next |-> next]
      BY <1>0, <1>2, <3>2 DEF SwitchContext
    <3>. QED BY <1>2, <3>1, <3>2 DEF SwitchContext
  <2>2. \E s \in switches' : s.epoch = epoch'
    <3>1. /\ [epoch |-> epoch + 1, next |-> next] \in switches'
          /\ epoch' = epoch + 1
      BY <1>2 DEF SwitchContext
    <3>. QED BY <3>1
  <2>. QED BY <2>1, <2>2 DEF SelectionInv
<1>3. ASSUME NEW switch \in switches, CommitSwitch(switch)
      PROVE  SelectionInv'
  BY <1>3 DEF CommitSwitch, MayCommitSwitch, SelectionInv
<1>4. ASSUME NEW switch \in switches, DropSwitch(switch)
      PROVE  SelectionInv'
  BY <1>4 DEF DropSwitch, MayCommitSwitch, SelectionInv
<1>5. ASSUME NEW switch \in switches, FailSwitch(switch)
      PROVE  SelectionInv'
  <2>1. CASE switch.epoch = epoch
    <3>1. ASSUME NEW s \in switches', s.epoch = epoch PROVE FALSE
      <4>1. s \in switches /\ s # switch
        BY <1>5, <3>1 DEF FailSwitch
      <4>2. s.next = switch.next
        BY <2>1, <3>1, <4>1 DEF SelectionInv
      <4>. QED BY <1>0, <2>1, <3>1, <4>1, <4>2, SwitchesEqual
    <3>. QED BY <1>5, <2>1, <3>1 DEF FailSwitch, SelectionInv
  <2>2. CASE switch.epoch # epoch
    BY <1>5, <2>2 DEF FailSwitch, SelectionInv
  <2>. QED BY <2>1, <2>2
<1>6. Render => SelectionInv'
  BY DEF Render, SelectionInv
<1>7. UNCHANGED contextVars
      \/ (\E next \in Contexts : SwitchContext(next))
      \/ (\E switch \in switches : \/ DropSwitch(switch)
                                    \/ FailSwitch(switch)
                                    \/ CommitSwitch(switch))
      \/ Render
  BY DEF Next, CallStep, EnvironmentStep, UnlockStep, JoinUnlock, BeginUnlock,
         BeginSign, DeviceAuthAvailable, SecretRead, FocusSettled,
         SignerBuilt, UnlockFails, EndSign, SignFails, Lock, AppStateChange,
         DurationElapses, TimerFires, ContextMoves, CommitSwitchAndLock, vars
<1>. QED BY <1>1, <1>2, <1>3, <1>4, <1>5, <1>6, <1>7

\* However the cancellations of overlapping switches end, the context that
\* stays is the one selected last, or the old one if that switch failed.
THEOREM LatestSelection == Spec => []LatestSelectionWins
<1>1. Spec => []SelectionInv
  BY TypeInit, TypeNext, SelectionInit, SelectionNext, PTL DEF Spec
<1>2. SelectionInv => LatestSelectionWins
  BY DEF SelectionInv, LatestSelectionWins
<1>. QED
  BY <1>1, <1>2, PTL

-----------------------------------------------------------------------------
(* Live streams.                                                            *)

StateRow == [last : Int, seen : SUBSET Nat, buffer : Seq(Nat), overflowed : BOOLEAN,
             ready : BOOLEAN, request : Int, attempts : Nat, based : BOOLEAN,
             served : BOOLEAN, sent : SUBSET Nat, wire : Seq(Nat)]

AtMost(q, v) == \A i \in 1 .. Len(q) : q[i] <= v
Rising(q) == \A i, j \in 1 .. Len(q) : i < j => q[i] < q[j]
Among(m, q) == \E i \in 1 .. Len(q) : q[i] = m

\* What the app shows of a stream: without a gap if numbered, and nothing not sent yet.
ViewFits(kd, v, w) ==
    /\ w \in SUBSET Nat
    /\ kd = "sequenced" => \E m \in 0 .. v : w = 1 .. m
    /\ kd = "log" => w \subseteq 1 .. v

StateTyped(s, v) ==
    /\ s \in StateRow
    /\ AtMost(s.buffer, v) /\ AtMost(s.wire, v) /\ s.request <= v /\ s.request >= -1
    /\ s.ready <=> s.request = -1
    /\ s.ready => s.buffer = <<>>
    /\ ~s.served => s.wire = <<>>
    /\ \A m \in s.sent : m <= v

\* A numbered stream: what is shown is what was counted, or older than the baseline.
SequenceFits(s, v, w) ==
    /\ s.ready => s.last >= 0 /\ s.last <= v /\ w = 1 .. s.last
    /\ ~s.ready => w \subseteq 1 .. s.request

\* A log: a message sent is shown, or on its way, or will be in the baseline.
LogFits(s, v, w) ==
    /\ \A i \in 1 .. Len(s.buffer) : s.buffer[i] >= 1
    /\ \A i \in 1 .. Len(s.wire) : s.wire[i] >= 1
    /\ s.ready => s.seen \subseteq w
    /\ ~s.ready => w \subseteq 1 .. s.request
    /\ \A m \in s.sent : m >= 1
    /\ \A m \in s.sent :
          \/ m \in w \/ Among(m, s.wire)
          \/ ~s.ready /\ (m <= s.request \/ s.overflowed \/ Among(m, s.buffer))

\* Whole states: they come in the order they were made, and the last one is
\* shown, or on its way, or will be in the baseline.
BookFits(s, v, w) ==
    /\ Rising(s.buffer) /\ Rising(s.wire)
    /\ \A i \in 1 .. Len(s.buffer), j \in 1 .. Len(s.wire) : s.buffer[i] < s.wire[j]
    /\ s.ready => \A m \in s.seen : m <= v /\ \A j \in 1 .. Len(s.wire) : m < s.wire[j]
    /\ ~s.served => s.buffer = <<>> /\ s.seen = {}
    /\ s.wire # <<>> => s.wire[Len(s.wire)] = v
    /\ s.served /\ s.wire = <<>> /\ s.ready => w = {v}
    /\ s.served /\ s.wire = <<>> /\ ~s.ready /\ s.buffer = <<>> => s.request = v
    /\ s.served /\ s.wire = <<>> /\ s.buffer # <<>> => s.buffer[Len(s.buffer)] = v

StateFits(kd, s, v, w) ==
    /\ StateTyped(s, v)
    /\ kd = "sequenced" => SequenceFits(s, v, w)
    /\ kd = "log" => LogFits(s, v, w)
    /\ kd = "book" => BookFits(s, v, w)

RunRecord(r) ==
    /\ r = [phase |-> r.phase, states |-> r.states]
    /\ r.states = [k \in DOMAIN r.states |-> r.states[k]]

\* What was done by each generation up to n; those to come are untouched.
AllFit(all, n) ==
    /\ DOMAIN all = 1 .. MaxStreamGenerations /\ all = [g \in DOMAIN all |-> all[g]]
    /\ \A g \in DOMAIN all : RunRecord(all[g]) /\ (g > n => all[g] = NoRun)

\* The run is that of the current generation.
RunsFit ==
    /\ generation \in Nat /\ currentRun \in {0, generation} /\ currentRun <= MaxStreamGenerations
    /\ currentRun # 0 => Eligible(environment, subscribed)
    /\ declared \subseteq StreamKeys /\ subscribed \subseteq StreamKeys
    /\ AllFit(runs, generation)

ServersFit ==
    /\ kind \in [StreamKeys -> Kinds] /\ version \in [StreamKeys -> Nat]
    /\ view \in [StreamKeys -> SUBSET Nat]
    /\ \A k \in StreamKeys : ViewFits(kind[k], version[k], view[k])

CurrentFits ==
    currentRun # 0 =>
       /\ runs[currentRun].phase \in {"connecting", "open"}
       /\ runs[currentRun].phase = "connecting" => DOMAIN runs[currentRun].states = {}
       /\ DOMAIN runs[currentRun].states \subseteq StreamKeys
       /\ \A k \in DOMAIN runs[currentRun].states :
             StateFits(kind[k], runs[currentRun].states[k], version[k], view[k])

StreamInv == RunsFit /\ ServersFit /\ CurrentFits

\* A record of a stream has its fields.
LEMMA StateParts ==
    ASSUME NEW s \in StateRow
    PROVE  /\ s.last \in Int /\ s.seen \in SUBSET Nat /\ s.buffer \in Seq(Nat)
           /\ s.request \in Int /\ s.attempts \in Nat /\ s.sent \in SUBSET Nat
           /\ s.wire \in Seq(Nat)
           /\ s.overflowed \in BOOLEAN /\ s.ready \in BOOLEAN /\ s.based \in BOOLEAN
           /\ s.served \in BOOLEAN
           /\ s = [last |-> s.last, seen |-> s.seen, buffer |-> s.buffer,
                   overflowed |-> s.overflowed, ready |-> s.ready, request |-> s.request,
                   attempts |-> s.attempts, based |-> s.based, served |-> s.served,
                   sent |-> s.sent, wire |-> s.wire]
BY DEF StateRow

\* A message joins a wire or a buffer at its end.
LEMMA Appended ==
    ASSUME NEW q \in Seq(Nat), NEW n \in Nat
    PROVE  /\ Append(q, n) \in Seq(Nat) /\ Len(Append(q, n)) = Len(q) + 1 /\ Len(q) \in Nat
           /\ Append(q, n)[Len(q) + 1] = n /\ Append(q, n) # <<>>
           /\ \A i \in 1 .. Len(q) : Append(q, n)[i] = q[i]
           /\ \A v : AtMost(q, v) /\ n <= v => AtMost(Append(q, n), v)
           /\ \A m : Among(m, Append(q, n)) <=> m = n \/ Among(m, q)
           /\ Rising(q) /\ (\A i \in 1 .. Len(q) : q[i] < n) => Rising(Append(q, n))
<1>1. /\ Append(q, n) \in Seq(Nat) /\ Len(Append(q, n)) = Len(q) + 1 /\ Len(q) \in Nat
      /\ Append(q, n)[Len(q) + 1] = n
      /\ \A i \in 1 .. Len(q) : Append(q, n)[i] = q[i] /\ q[i] \in Nat
  OBVIOUS
<1>. DEFINE r == Append(q, n)
<1>. HIDE DEF r
<1>2. /\ r \in Seq(Nat) /\ Len(r) = Len(q) + 1 /\ Len(q) \in Nat /\ r[Len(q) + 1] = n
      /\ \A i \in 1 .. Len(q) : r[i] = q[i] /\ q[i] \in Nat
  BY <1>1 DEF r
<1>3. r # <<>>
  BY <1>2
<1>4. \A i \in 1 .. Len(r) : i \in 1 .. Len(q) \/ i = Len(q) + 1
  BY <1>2
<1>5. \A v : AtMost(q, v) /\ n <= v => AtMost(r, v)
  BY <1>2, <1>4 DEF AtMost
<1>6. \A m : Among(m, r) <=> m = n \/ Among(m, q)
  <2>1. Len(q) + 1 \in 1 .. Len(r) /\ \A i \in 1 .. Len(q) : i \in 1 .. Len(r)
    BY <1>2
  <2>. QED BY <1>2, <1>4, <2>1 DEF Among
<1>7. Rising(q) /\ (\A i \in 1 .. Len(q) : q[i] < n) => Rising(r)
  <2>. SUFFICES ASSUME Rising(q), \A i \in 1 .. Len(q) : q[i] < n,
                       NEW i \in 1 .. Len(r), NEW j \in 1 .. Len(r), i < j
                PROVE  r[i] < r[j]
    BY DEF Rising
  <2>1. i \in 1 .. Len(q)
    BY <1>2, <1>4
  <2>. QED BY <1>2, <1>4, <2>1 DEF Rising
<1>. QED BY <1>2, <1>3, <1>5, <1>6, <1>7 DEF r

\* The first message leaves.
LEMMA Shifted ==
    ASSUME NEW q \in Seq(Nat), q # <<>>
    PROVE  /\ Tail(q) \in Seq(Nat) /\ Len(Tail(q)) = Len(q) - 1 /\ Len(q) \in Nat \ {0}
           /\ \A i \in 1 .. Len(Tail(q)) : Tail(q)[i] = q[i + 1] /\ i + 1 \in 2 .. Len(q)
           /\ Head(q) = q[1] /\ Head(q) \in Nat
           /\ \A v : AtMost(q, v) => AtMost(Tail(q), v) /\ Head(q) <= v
           /\ \A m : Among(m, q) <=> m = Head(q) \/ Among(m, Tail(q))
           /\ Rising(q) => Rising(Tail(q)) /\ \A i \in 1 .. Len(Tail(q)) : Head(q) < Tail(q)[i]
           /\ Tail(q) = <<>> => Head(q) = q[Len(q)]
           /\ Tail(q) # <<>> => Tail(q)[Len(Tail(q))] = q[Len(q)]
<1>. DEFINE r == Tail(q)
<1>1. /\ r \in Seq(Nat) /\ Len(r) = Len(q) - 1 /\ Len(q) \in Nat \ {0}
      /\ \A i \in 1 .. Len(r) : r[i] = q[i + 1] /\ i + 1 \in 2 .. Len(q)
      /\ Head(q) = q[1] /\ q[1] \in Nat
  OBVIOUS
<1>. HIDE DEF r
<1>2. r = <<>> => Len(r) = 0
  OBVIOUS
<1>3. r # <<>> => Len(r) \in 1 .. Len(r)
  BY <1>1
<1>. DEFINE h == Head(q)
<1>8. h = q[1] /\ 1 \in 1 .. Len(q) /\ \A i \in 1 .. Len(q) : q[i] \in Nat
  BY <1>1
<1>. HIDE DEF h
<1>4. \A v : AtMost(q, v) => AtMost(r, v) /\ h <= v
  <2>. SUFFICES ASSUME NEW v, AtMost(q, v) PROVE AtMost(r, v) /\ h <= v
    OBVIOUS
  <2>1. h <= v
    BY <1>8 DEF AtMost
  <2>2. \A i \in 1 .. Len(r) : r[i] = q[i + 1] /\ i + 1 \in 1 .. Len(q)
    BY <1>1
  <2>. QED BY <2>1, <2>2 DEF AtMost
<1>5. \A m : Among(m, q) <=> m = h \/ Among(m, r)
  <2>. TAKE m
  <2>1. ASSUME Among(m, q) PROVE m = h \/ Among(m, r)
    <3>1. PICK i \in 1 .. Len(q) : q[i] = m
      BY <2>1 DEF Among
    <3>2. CASE i = 1
      BY <1>8, <3>1, <3>2
    <3>3. CASE i # 1
      <4>1. i - 1 \in 1 .. Len(r) /\ r[i - 1] = q[(i - 1) + 1] /\ (i - 1) + 1 = i
        BY <1>1, <3>1, <3>3
      <4>. QED BY <3>1, <4>1 DEF Among
    <3>. QED BY <3>2, <3>3
  <2>2. m = h => Among(m, q)
    BY <1>8 DEF Among
  <2>3. ASSUME Among(m, r) PROVE Among(m, q)
    <3>1. PICK i \in 1 .. Len(r) : r[i] = m
      BY <2>3 DEF Among
    <3>2. i + 1 \in 1 .. Len(q) /\ q[i + 1] = m
      BY <1>1, <3>1
    <3>. QED BY <3>2 DEF Among
  <2>. QED BY <2>1, <2>2, <2>3
<1>6. Rising(q) => Rising(r) /\ \A i \in 1 .. Len(r) : h < r[i]
  <2>. SUFFICES ASSUME Rising(q) PROVE Rising(r) /\ \A i \in 1 .. Len(r) : h < r[i]
    OBVIOUS
  <2>1. ASSUME NEW i \in 1 .. Len(r), NEW j \in 1 .. Len(r), i < j PROVE r[i] < r[j]
    <3>1. /\ i + 1 \in 1 .. Len(q) /\ j + 1 \in 1 .. Len(q) /\ i + 1 < j + 1
          /\ r[i] = q[i + 1] /\ r[j] = q[j + 1]
      BY <1>1, <2>1
    <3>. QED BY <3>1 DEF Rising
  <2>2. ASSUME NEW i \in 1 .. Len(r) PROVE h < r[i]
    <3>1. i + 1 \in 1 .. Len(q) /\ 1 < i + 1 /\ r[i] = q[i + 1]
      BY <1>1, <2>2
    <3>. QED BY <1>8, <3>1 DEF Rising
  <2>. QED BY <2>1, <2>2 DEF Rising
<1>7. (r = <<>> => Head(q) = q[Len(q)]) /\ (r # <<>> => r[Len(r)] = q[Len(q)])
  BY <1>1, <1>2, <1>3
<1>. QED BY <1>1, <1>4, <1>5, <1>6, <1>7 DEF r, h

\* Nothing is in an empty sequence.
LEMMA Nothing == /\ <<>> \in Seq(Nat) /\ Len(<<>>) = 0 /\ Rising(<<>>)
                 /\ (\A m : ~Among(m, <<>>)) /\ \A v : AtMost(<<>>, v)
BY DEF Among, AtMost, Rising

\* The server takes up a subscription: the state it has is on the wire, if whole.
LEMMA FitsServed ==
    ASSUME NEW kd, NEW v \in Nat, NEW w, NEW s, StateFits(kd, s, v, w), ~s.served,
           NEW wire, wire = IF kd \in {"book", "context"} THEN <<v>> ELSE <<>>
    PROVE  StateFits(kd, [s EXCEPT !.served = TRUE, !.wire = wire], v, w)
<1>. DEFINE t == [s EXCEPT !.served = TRUE, !.wire = wire]
<1>1. s \in StateRow
  BY DEF StateFits, StateTyped
<1>2. wire \in Seq(Nat) /\ AtMost(wire, v) /\ Rising(wire)
      /\ (kd \notin {"book", "context"} => wire = <<>>)
      /\ (kd = "book" => Len(wire) = 1 /\ wire[1] = v)
  BY DEF AtMost, Rising
<1>3. /\ t \in StateRow /\ t.last = s.last /\ t.seen = s.seen /\ t.buffer = s.buffer
      /\ (t.overflowed <=> s.overflowed) /\ (t.ready <=> s.ready) /\ t.request = s.request
      /\ t.sent = s.sent /\ t.wire = wire /\ t.served
  BY <1>1, <1>2 DEF StateRow
<1>. HIDE DEF t
<1>4. StateTyped(t, v)
  BY <1>2, <1>3 DEF StateFits, StateTyped
<1>5. kd = "sequenced" => SequenceFits(t, v, w)
  BY <1>3 DEF StateFits, SequenceFits
<1>6. ASSUME kd = "log" PROVE LogFits(t, v, w)
  <2>1. LogFits(s, v, w) /\ wire = <<>> /\ s.wire = <<>>
    BY <1>2, <1>6 DEF StateFits, StateTyped
  <2>. QED BY <1>3, <2>1 DEF LogFits
<1>7. ASSUME kd = "book" PROVE BookFits(t, v, w)
  <2>1. s.buffer = <<>> /\ s.seen = {} /\ Rising(s.buffer)
    BY <1>7 DEF StateFits, BookFits
  <2>2. wire # <<>> /\ wire[Len(wire)] = v
    BY <1>2, <1>7
  <2>. QED BY <1>2, <1>3, <2>1, <2>2, Nothing DEF BookFits
<1>. QED BY <1>4, <1>5, <1>6, <1>7 DEF StateFits, t

\* The server makes an event that is not sent on this stream.
LEMMA FitsMore ==
    ASSUME NEW kd, NEW v \in Nat, NEW w, NEW s, StateFits(kd, s, v, w),
           s.served => kd = "sequenced"
    PROVE  StateFits(kd, s, v + 1, w)
<1>1. s \in StateRow
  BY DEF StateFits, StateTyped
<1>2. \A q \in Seq(Nat) : AtMost(q, v) => AtMost(q, v + 1)
  BY DEF AtMost
<1>3. StateTyped(s, v + 1)
  BY <1>1, <1>2, StateParts DEF StateFits, StateTyped
<1>4. kd = "sequenced" => SequenceFits(s, v + 1, w)
  BY <1>1, StateParts DEF StateFits, SequenceFits
<1>5. kd = "log" => LogFits(s, v + 1, w)
  BY DEF StateFits, LogFits
<1>6. ASSUME kd = "book" PROVE BookFits(s, v + 1, w)
  BY <1>6 DEF StateFits, StateTyped, BookFits
<1>. QED BY <1>3, <1>4, <1>5, <1>6 DEF StateFits

\* An event is sent on a stream that is served.
LEMMA FitsSent ==
    ASSUME NEW kd, NEW v \in Nat, NEW w, NEW s, StateFits(kd, s, v, w), s.served
    PROVE  StateFits(kd, [s EXCEPT !.wire = Append(@, v + 1), !.sent = @ \cup {v + 1}], v + 1, w)
<1>. DEFINE t == [s EXCEPT !.wire = Append(@, v + 1), !.sent = @ \cup {v + 1}]
<1>1. s \in StateRow
  BY DEF StateFits, StateTyped
<1>2. PICK wire : wire = Append(s.wire, v + 1)
  OBVIOUS
<1>3. s.wire \in Seq(Nat) /\ wire \in Seq(Nat)
  BY <1>1, <1>2, StateParts, Appended
<1>4. /\ t \in StateRow /\ t.last = s.last /\ t.seen = s.seen /\ t.buffer = s.buffer
      /\ (t.overflowed <=> s.overflowed) /\ (t.ready <=> s.ready) /\ t.request = s.request
      /\ t.sent = s.sent \cup {v + 1} /\ t.wire = wire /\ t.served
  <2>1. PICK sent : sent = s.sent \cup {v + 1}
    OBVIOUS
  <2>2. sent \in SUBSET Nat
    BY <1>1, <2>1, StateParts
  <2>3. t = [s EXCEPT !.wire = wire, !.sent = sent]
    BY <1>2, <2>1
  <2>. HIDE DEF t
  <2>4. /\ t \in StateRow /\ t.last = s.last /\ t.seen = s.seen /\ t.buffer = s.buffer
        /\ (t.overflowed <=> s.overflowed) /\ (t.ready <=> s.ready) /\ t.request = s.request
        /\ t.sent = sent /\ t.wire = wire /\ (t.served <=> s.served)
    BY <1>1, <1>3, <2>2, <2>3 DEF StateRow
  <2>. QED BY <2>1, <2>4
<1>. HIDE DEF t
<1>5. \A q \in Seq(Nat) : AtMost(q, v) => AtMost(q, v + 1) /\ \A i \in 1 .. Len(q) : q[i] < v + 1
  BY DEF AtMost
<1>6. /\ Len(wire) = Len(s.wire) + 1 /\ Len(s.wire) \in Nat /\ wire[Len(s.wire) + 1] = v + 1
      /\ wire # <<>>
      /\ \A i \in 1 .. Len(s.wire) : wire[i] = s.wire[i] /\ s.wire[i] \in Nat
      /\ \A m : Among(m, wire) <=> m = v + 1 \/ Among(m, s.wire)
      /\ (Rising(s.wire) /\ \A i \in 1 .. Len(s.wire) : s.wire[i] < v + 1) => Rising(wire)
      /\ AtMost(s.wire, v + 1) => AtMost(wire, v + 1)
      /\ \A i \in 1 .. Len(wire) : i \in 1 .. Len(s.wire) \/ i = Len(s.wire) + 1
  <2>1. v + 1 \in Nat /\ v + 1 <= v + 1
    OBVIOUS
  <2>2. /\ Len(wire) = Len(s.wire) + 1 /\ Len(s.wire) \in Nat /\ wire[Len(s.wire) + 1] = v + 1
        /\ \A i \in 1 .. Len(s.wire) : wire[i] = s.wire[i]
    BY <1>2, <1>3, <2>1
  <2>6. wire # <<>>
    BY <1>2, <1>3, <2>1, Appended
  <2>5. \A m : Among(m, wire) <=> m = v + 1 \/ Among(m, s.wire)
    BY <1>2, <1>3, <2>1, Appended
  <2>3. (Rising(s.wire) /\ \A i \in 1 .. Len(s.wire) : s.wire[i] < v + 1) => Rising(wire)
    BY <1>2, <1>3, <2>1, Appended
  <2>4. AtMost(s.wire, v + 1) => AtMost(wire, v + 1)
    BY <1>2, <1>3, <2>1, Appended
  <2>7. \A i \in 1 .. Len(s.wire) : s.wire[i] \in Nat
    BY <1>3
  <2>8. \A i \in 1 .. Len(wire) : i \in 1 .. Len(s.wire) \/ i = Len(s.wire) + 1
    BY <2>2
  <2>. QED BY <2>2, <2>3, <2>4, <2>5, <2>6, <2>7, <2>8, Zenon
<1>7. StateTyped(t, v + 1)
  <2>1. AtMost(wire, v + 1) /\ AtMost(s.buffer, v + 1) /\ s.request <= v + 1
    BY <1>1, <1>3, <1>5, <1>6, StateParts DEF StateFits, StateTyped
  <2>2. \A m \in s.sent \cup {v + 1} : m <= v + 1
    BY <1>1, StateParts DEF StateFits, StateTyped
  <2>. QED BY <1>4, <2>1, <2>2 DEF StateFits, StateTyped
<1>8. kd = "sequenced" => SequenceFits(t, v + 1, w)
  BY <1>1, <1>4, StateParts DEF StateFits, SequenceFits
<1>9. ASSUME kd = "log" PROVE LogFits(t, v + 1, w)
  <2>1. LogFits(s, v, w)
    BY <1>9 DEF StateFits
  <2>2. \A i \in 1 .. Len(wire) : wire[i] >= 1
    BY <1>6, <2>1 DEF LogFits
  <2>. QED BY <1>4, <1>6, <2>1, <2>2 DEF LogFits
<1>10. ASSUME kd = "book" PROVE BookFits(t, v + 1, w)
  <2>1. BookFits(s, v, w) /\ AtMost(s.wire, v) /\ AtMost(s.buffer, v)
    BY <1>10 DEF StateFits, StateTyped
  <2>2. Rising(wire) /\ wire[Len(wire)] = v + 1
    BY <1>3, <1>5, <1>6, <2>1 DEF BookFits
  <2>3. \A i \in 1 .. Len(s.buffer) : s.buffer[i] < v + 1
    BY <1>1, <1>5, <2>1, StateParts
  <2>4. \A i \in 1 .. Len(s.buffer), j \in 1 .. Len(wire) : s.buffer[i] < wire[j]
    BY <1>6, <2>1, <2>3 DEF BookFits
  <2>5. s.ready => \A m \in s.seen : m <= v /\ m <= v + 1 /\ \A j \in 1 .. Len(wire) : m < wire[j]
    <3>. SUFFICES ASSUME s.ready, NEW m \in s.seen
                  PROVE  m <= v /\ m <= v + 1 /\ \A j \in 1 .. Len(wire) : m < wire[j]
      OBVIOUS
    <3>1. m \in Nat
      BY <1>1, StateParts
    <3>2. m <= v /\ \A j \in 1 .. Len(s.wire) : m < s.wire[j]
      BY <2>1 DEF BookFits
    <3>3. m < v + 1
      BY <3>1, <3>2
    <3>. QED BY <1>6, <3>1, <3>2, <3>3
  <2>. QED BY <1>4, <1>6, <2>1, <2>2, <2>4, <2>5 DEF BookFits
<1>. QED BY <1>7, <1>8, <1>9, <1>10 DEF StateFits, t

\* A message joins the buffer; a full buffer loses its first one, and says so.
LEMMA Buffered ==
    ASSUME NEW t \in StateRow, NEW n \in Nat,
           NEW r, r = BufferMessage(t, n)
    PROVE  /\ r \in StateRow /\ r.last = t.last /\ r.seen = t.seen /\ r.request = t.request
           /\ (r.ready <=> t.ready) /\ (r.served <=> t.served) /\ r.sent = t.sent
           /\ r.wire = t.wire
           /\ r.buffer # <<>> /\ r.buffer[Len(r.buffer)] = n
           /\ \A m : Among(m, r.buffer) => m = n \/ Among(m, t.buffer)
           /\ \A m : m = n \/ Among(m, t.buffer) => r.overflowed \/ Among(m, r.buffer)
           /\ t.overflowed => r.overflowed
           /\ Rising(t.buffer) /\ (\A i \in 1 .. Len(t.buffer) : t.buffer[i] < n) => Rising(r.buffer)
<1>0. t.buffer \in Seq(Nat) /\ t.overflowed \in BOOLEAN
  BY StateParts
<1>1. CASE Len(t.buffer) >= MaxBuffered
  <2>0. t.buffer # <<>> /\ Len(t.buffer) \in Nat
    <3>1. Len(t.buffer) > 0
      BY <1>0, <1>1, StreamAssumption
    <3>. QED BY <1>0, <3>1
  <2>1. PICK rest : rest = Tail(t.buffer)
    OBVIOUS
  <2>2. PICK buffer : buffer = Append(rest, n)
    OBVIOUS
  <2>3. rest \in Seq(Nat) /\ \A m : Among(m, t.buffer) <=> m = Head(t.buffer) \/ Among(m, rest)
    BY <1>0, <2>0, <2>1, Shifted
  <2>4. Rising(t.buffer) => Rising(rest)
    BY <1>0, <2>0, <2>1, Shifted
  <2>5. \A i \in 1 .. Len(rest) : rest[i] = t.buffer[i + 1] /\ i + 1 \in 1 .. Len(t.buffer)
    BY <1>0, <2>0, <2>1
  <2>6. buffer \in Seq(Nat) /\ buffer # <<>> /\ \A m : Among(m, buffer) <=> m = n \/ Among(m, rest)
    BY <2>2, <2>3, Appended
  <2>7. buffer[Len(buffer)] = n
    BY <2>2, <2>3
  <2>8. Rising(t.buffer) /\ (\A i \in 1 .. Len(t.buffer) : t.buffer[i] < n) => Rising(buffer)
    BY <2>2, <2>3, <2>4, <2>5, Appended
  <2>9. r = [t EXCEPT !.buffer = buffer, !.overflowed = TRUE]
    BY <1>1, <2>1, <2>2 DEF BufferMessage
  <2>10. /\ r \in StateRow /\ r.last = t.last /\ r.seen = t.seen /\ r.request = t.request
         /\ (r.ready <=> t.ready) /\ (r.served <=> t.served) /\ r.sent = t.sent
         /\ r.wire = t.wire /\ r.buffer = buffer /\ r.overflowed
    BY <2>6, <2>9 DEF StateRow
  <2>. QED BY <2>3, <2>6, <2>7, <2>8, <2>10
<1>2. CASE ~(Len(t.buffer) >= MaxBuffered)
  <2>1. PICK buffer : buffer = Append(t.buffer, n)
    OBVIOUS
  <2>2. buffer \in Seq(Nat) /\ buffer # <<>> /\ \A m : Among(m, buffer) <=> m = n \/ Among(m, t.buffer)
    BY <1>0, <2>1, Appended
  <2>3. buffer[Len(buffer)] = n
    BY <1>0, <2>1
  <2>4. Rising(t.buffer) /\ (\A i \in 1 .. Len(t.buffer) : t.buffer[i] < n) => Rising(buffer)
    BY <1>0, <2>1, Appended
  <2>5. r = [t EXCEPT !.buffer = buffer]
    BY <1>2, <2>1 DEF BufferMessage
  <2>6. /\ r \in StateRow /\ r.last = t.last /\ r.seen = t.seen /\ r.request = t.request
        /\ (r.ready <=> t.ready) /\ (r.served <=> t.served) /\ r.sent = t.sent
        /\ r.wire = t.wire /\ r.buffer = buffer /\ (r.overflowed <=> t.overflowed)
    BY <2>2, <2>5 DEF StateRow
  <2>. QED BY <2>2, <2>3, <2>4, <2>6
<1>. QED BY <1>1, <1>2

\* A message is taken from the wire.
Took(s, t) == t = [s EXCEPT !.wire = Tail(@)]

\* Nothing else changes in the record of the stream.
LEMMA Taken ==
    ASSUME NEW s \in StateRow, s.wire # <<>>, NEW t, Took(s, t)
    PROVE  /\ t \in StateRow /\ t.last = s.last /\ t.seen = s.seen /\ t.request = s.request
           /\ (t.ready <=> s.ready) /\ (t.served <=> s.served) /\ t.sent = s.sent
           /\ t.buffer = s.buffer /\ (t.overflowed <=> s.overflowed) /\ t.wire = Tail(s.wire)
<1>1. PICK wire : wire = Tail(s.wire)
  OBVIOUS
<1>2. wire \in Seq(Nat)
  BY <1>1, StateParts
<1>3. t = [s EXCEPT !.wire = wire]
  BY <1>1 DEF Took
<1>4. /\ t \in StateRow /\ t.last = s.last /\ t.seen = s.seen /\ t.request = s.request
      /\ (t.ready <=> s.ready) /\ (t.served <=> s.served) /\ t.sent = s.sent
      /\ t.buffer = s.buffer /\ (t.overflowed <=> s.overflowed) /\ t.wire = wire
  BY <1>2, <1>3 DEF StateRow
<1>. QED BY <1>1, <1>4

\* A message that comes while the baseline is loaded waits.
LEMMA FitsBuffered ==
    ASSUME NEW kd, NEW v \in Nat, NEW w, NEW s, StateFits(kd, s, v, w), s.wire # <<>>, ~s.ready
    PROVE  StateFits(kd, BufferMessage([s EXCEPT !.wire = Tail(@)], Head(s.wire)), v, w)
<1>1. s \in StateRow /\ s.wire \in Seq(Nat)
  BY StateParts DEF StateFits, StateTyped
<1>2. PICK n \in Nat : n = Head(s.wire)
  BY <1>1, Shifted
<1>3. PICK rest : rest = Tail(s.wire)
  OBVIOUS
<1>4. PICK t : Took(s, t)
  BY DEF Took
<1>5. PICK r : r = BufferMessage(t, n)
  OBVIOUS
<1>16. /\ t \in StateRow /\ t.last = s.last /\ t.seen = s.seen /\ t.request = s.request
       /\ ~t.ready /\ (t.served <=> s.served) /\ t.sent = s.sent
       /\ t.buffer = s.buffer /\ (t.overflowed <=> s.overflowed) /\ t.wire = rest
  BY <1>1, <1>3, <1>4, Taken
<1>6. /\ r \in StateRow /\ r.last = s.last /\ r.seen = s.seen /\ r.request = s.request
      /\ ~r.ready /\ (r.served <=> s.served) /\ r.sent = s.sent
      /\ r.wire = rest /\ r.buffer # <<>> /\ r.buffer[Len(r.buffer)] = n
  BY <1>5, <1>16, Buffered
<1>17. t.buffer = s.buffer /\ (t.overflowed <=> s.overflowed) /\ t \in StateRow
  BY <1>16
<1>18. /\ \A m : Among(m, r.buffer) => m = n \/ Among(m, t.buffer)
       /\ \A m : m = n \/ Among(m, t.buffer) => r.overflowed \/ Among(m, r.buffer)
       /\ t.overflowed => r.overflowed
  BY <1>5, <1>17, Buffered
<1>19. Rising(t.buffer) /\ (\A i \in 1 .. Len(t.buffer) : t.buffer[i] < n) => Rising(r.buffer)
  BY <1>5, <1>17, Buffered
<1>7. /\ \A m : Among(m, r.buffer) => m = n \/ Among(m, s.buffer)
      /\ \A m : m = n \/ Among(m, s.buffer) => r.overflowed \/ Among(m, r.buffer)
      /\ s.overflowed => r.overflowed
      /\ Rising(s.buffer) /\ (\A i \in 1 .. Len(s.buffer) : s.buffer[i] < n) => Rising(r.buffer)
  BY <1>17, <1>18, <1>19
<1>8. \A i \in 1 .. Len(r.buffer) : r.buffer[i] = n \/ \E j \in 1 .. Len(s.buffer) : s.buffer[j] = r.buffer[i]
  BY <1>7 DEF Among
<1>9. /\ AtMost(s.wire, v) => AtMost(rest, v) /\ n <= v
      /\ \A m : Among(m, s.wire) <=> m = n \/ Among(m, rest)
      /\ Rising(s.wire) => Rising(rest) /\ \A i \in 1 .. Len(rest) : n < rest[i]
      /\ rest = <<>> => n = s.wire[Len(s.wire)]
      /\ rest # <<>> => rest[Len(rest)] = s.wire[Len(s.wire)]
  BY <1>1, <1>2, <1>3, Shifted
<1>10. n = s.wire[1] /\ 1 \in 1 .. Len(s.wire)
       /\ \A i \in 1 .. Len(rest) : i + 1 \in 1 .. Len(s.wire) /\ rest[i] = s.wire[i + 1]
  BY <1>1, <1>2, <1>3
<1>11. StateTyped(r, v)
  BY <1>6, <1>8, <1>9 DEF StateFits, StateTyped, AtMost
<1>12. kd = "sequenced" => SequenceFits(r, v, w)
  BY <1>6 DEF StateFits, SequenceFits
<1>13. ASSUME kd = "log" PROVE LogFits(r, v, w)
  <2>1. LogFits(s, v, w)
    BY <1>13 DEF StateFits
  <2>2. \A i \in 1 .. Len(r.buffer) : r.buffer[i] >= 1
    BY <1>8, <1>10, <2>1 DEF LogFits
  <2>3. \A i \in 1 .. Len(rest) : rest[i] >= 1
    BY <1>10, <2>1 DEF LogFits
  <2>4. \A m \in s.sent : \/ m \in w \/ Among(m, rest)
                          \/ m <= s.request \/ r.overflowed \/ Among(m, r.buffer)
    BY <1>7, <1>9, <2>1 DEF LogFits
  <2>. QED BY <1>6, <2>1, <2>2, <2>3, <2>4 DEF LogFits
<1>14. ASSUME kd = "book" PROVE BookFits(r, v, w)
  <2>1. BookFits(s, v, w)
    BY <1>14 DEF StateFits
  <2>2. \A i \in 1 .. Len(s.buffer) : s.buffer[i] < n
    BY <1>10, <2>1 DEF BookFits
  <2>3. \A i \in 1 .. Len(r.buffer), j \in 1 .. Len(rest) : r.buffer[i] < rest[j]
    BY <1>8, <1>9, <1>10, <2>1 DEF BookFits
  <2>4. s.served
    BY DEF StateFits, StateTyped
  <2>. QED BY <1>6, <1>7, <1>9, <2>1, <2>2, <2>3, <2>4 DEF BookFits
<1>15. StateFits(kd, r, v, w)
  BY <1>11, <1>12, <1>13, <1>14 DEF StateFits
<1>. QED BY <1>2, <1>4, <1>5, <1>15 DEF Took

\* A baseline is asked for: it will show the server as it is now, or later.
LEMMA Requested ==
    ASSUME NEW k, NEW t \in StateRow, NEW a \in Nat, version[k] \in Nat,
           NEW r, r = Requesting(k, t, a)
    PROVE  /\ r \in StateRow /\ r.last = t.last /\ r.seen = t.seen /\ r.request = version[k]
           /\ ~r.ready /\ (r.served <=> t.served) /\ r.sent = t.sent
           /\ r.wire = t.wire /\ r.buffer = t.buffer /\ (r.overflowed <=> t.overflowed)
<1>1. PICK now \in Nat : now = version[k]
  OBVIOUS
<1>2. r = [t EXCEPT !.ready = FALSE, !.request = now, !.attempts = a]
  BY <1>1 DEF Requesting
<1>3. now \in Int
  OBVIOUS
<1>4. /\ r \in StateRow /\ r.last = t.last /\ r.seen = t.seen /\ r.request = now
      /\ ~r.ready /\ (r.served <=> t.served) /\ r.sent = t.sent
      /\ r.wire = t.wire /\ r.buffer = t.buffer /\ (r.overflowed <=> t.overflowed)
  BY <1>2, <1>3 DEF StateRow
<1>. QED BY <1>1, <1>4

\* A message was sent after those before it, and leaves the others on the wire.
LEMMA FirstMessage ==
    ASSUME NEW kd, NEW v \in Nat, NEW w, NEW s, StateFits(kd, s, v, w), s.wire # <<>>
    PROVE  /\ Head(s.wire) \in Nat /\ Head(s.wire) <= v /\ s.served
           /\ Tail(s.wire) \in Seq(Nat) /\ AtMost(Tail(s.wire), v)
           /\ \A m : Among(m, s.wire) <=> m = Head(s.wire) \/ Among(m, Tail(s.wire))
           /\ kd = "log" => Head(s.wire) >= 1 /\ \A i \in 1 .. Len(Tail(s.wire)) : Tail(s.wire)[i] >= 1
           /\ kd = "book" =>
                /\ Rising(Tail(s.wire))
                /\ \A i \in 1 .. Len(Tail(s.wire)) : Head(s.wire) < Tail(s.wire)[i]
                /\ Tail(s.wire) = <<>> => Head(s.wire) = v
                /\ Tail(s.wire) # <<>> => Tail(s.wire)[Len(Tail(s.wire))] = v
                /\ s.ready => Head(s.wire) \notin s.seen
<1>1. s \in StateRow /\ s.wire \in Seq(Nat) /\ AtMost(s.wire, v) /\ s.served
  BY StateParts DEF StateFits, StateTyped
<1>2. PICK n : n = Head(s.wire)
  OBVIOUS
<1>3. PICK rest : rest = Tail(s.wire)
  OBVIOUS
<1>4. /\ rest \in Seq(Nat) /\ n \in Nat /\ AtMost(rest, v) /\ n <= v
      /\ \A m : Among(m, s.wire) <=> m = n \/ Among(m, rest)
      /\ Rising(s.wire) => Rising(rest) /\ \A i \in 1 .. Len(rest) : n < rest[i]
      /\ rest = <<>> => n = s.wire[Len(s.wire)]
      /\ rest # <<>> => rest[Len(rest)] = s.wire[Len(s.wire)]
  BY <1>1, <1>2, <1>3, Shifted
<1>5. n = s.wire[1] /\ 1 \in 1 .. Len(s.wire)
      /\ \A i \in 1 .. Len(rest) : i + 1 \in 1 .. Len(s.wire) /\ rest[i] = s.wire[i + 1]
  BY <1>1, <1>2, <1>3
<1>6. kd = "log" => n >= 1 /\ \A i \in 1 .. Len(rest) : rest[i] >= 1
  BY <1>5 DEF StateFits, LogFits
<1>7. ASSUME kd = "book"
      PROVE  /\ Rising(rest) /\ \A i \in 1 .. Len(rest) : n < rest[i]
             /\ rest = <<>> => n = v
             /\ rest # <<>> => rest[Len(rest)] = v
             /\ s.ready => n \notin s.seen
  <2>1. Rising(s.wire) /\ s.wire[Len(s.wire)] = v
    BY <1>7 DEF StateFits, BookFits
  <2>2. s.ready => \A m \in s.seen : m < n
    BY <1>5, <1>7 DEF StateFits, BookFits
  <2>. QED BY <1>4, <2>1, <2>2
<1>. QED BY <1>1, <1>2, <1>3, <1>4, <1>6, <1>7

\* A message that was seen, or counted, is not needed any more.
LEMMA FitsIgnored ==
    ASSUME NEW k, NEW v \in Nat, NEW w, NEW s, StateFits(kind[k], s, v, w), s.wire # <<>>, s.ready,
           NEW t, Took(s, t), Verdict(k, t, Head(s.wire)) = "ignored"
    PROVE  StateFits(kind[k], t, v, w)
<1>1. s \in StateRow
  BY DEF StateFits, StateTyped
<1>2. PICK n : n = Head(s.wire)
  OBVIOUS
<1>3. PICK rest : rest = Tail(s.wire)
  OBVIOUS
<1>4. /\ t \in StateRow /\ t.last = s.last /\ t.seen = s.seen /\ t.request = s.request
      /\ t.ready /\ (t.served <=> s.served) /\ t.sent = s.sent
      /\ t.buffer = s.buffer /\ (t.overflowed <=> s.overflowed) /\ t.wire = rest
  BY <1>1, <1>3, Taken
<1>5. /\ n \in Nat /\ n <= v /\ s.served /\ rest \in Seq(Nat) /\ AtMost(rest, v)
      /\ \A m : Among(m, s.wire) <=> m = n \/ Among(m, rest)
      /\ kind[k] = "log" => n >= 1 /\ \A i \in 1 .. Len(rest) : rest[i] >= 1
      /\ kind[k] = "book" /\ s.ready => n \notin s.seen
  BY <1>2, <1>3, FirstMessage
<1>6. StateTyped(t, v)
  BY <1>4, <1>5 DEF StateFits, StateTyped
<1>7. kind[k] = "sequenced" => SequenceFits(t, v, w)
  BY <1>4 DEF StateFits, SequenceFits
<1>8. ASSUME kind[k] = "log" PROVE LogFits(t, v, w)
  <2>1. n \in s.seen
    BY <1>2, <1>4, <1>8 DEF Verdict, StableId
  <2>2. n \in w /\ LogFits(s, v, w)
    BY <1>8, <2>1 DEF StateFits, LogFits
  <2>. QED BY <1>4, <1>5, <1>8, <2>2 DEF LogFits
<1>9. kind[k] # "book"
  BY <1>2, <1>4, <1>5 DEF Verdict, StableId
<1>. QED BY <1>6, <1>7, <1>8, <1>9 DEF StateFits

\* What a message that counts changes in the record of its stream.
Counts(k, t, n, r) ==
    /\ r \in StateRow /\ r.last = (IF kind[k] = "sequenced" THEN n ELSE t.last)
    /\ r.seen = t.seen \cup {StableId(k, n)} /\ r.request = t.request
    /\ (r.ready <=> t.ready) /\ (r.served <=> t.served) /\ r.sent = t.sent
    /\ r.wire = t.wire /\ r.buffer = t.buffer /\ (r.overflowed <=> t.overflowed)

\* It is counted and remembered.
LEMMA Counted ==
    ASSUME NEW k, NEW t \in StateRow, NEW n \in Nat
    PROVE  Counts(k, t, n, AfterDelta(k, t, n))
<1>0. PICK r : r = AfterDelta(k, t, n)
  OBVIOUS
<1>1. PICK last : last = IF kind[k] = "sequenced" THEN n ELSE t.last
  OBVIOUS
<1>2. PICK seen : seen = t.seen \cup {StableId(k, n)}
  OBVIOUS
<1>3. last \in Int
  BY <1>1, StateParts
<1>4. StableId(k, n) \in Nat
  BY DEF StableId, ValueOf
<1>5. seen \in SUBSET Nat
  BY <1>2, <1>4, StateParts
<1>6. r = [t EXCEPT !.last = last, !.seen = seen]
  BY <1>0, <1>1, <1>2 DEF AfterDelta
<1>7. /\ r \in StateRow /\ r.last = last /\ r.seen = seen /\ r.request = t.request
      /\ (r.ready <=> t.ready) /\ (r.served <=> t.served) /\ r.sent = t.sent
      /\ r.wire = t.wire /\ r.buffer = t.buffer /\ (r.overflowed <=> t.overflowed)
  BY <1>3, <1>5, <1>6 DEF StateRow
<1>. QED BY <1>0, <1>1, <1>2, <1>7 DEF Counts

\* A message that counts is shown.
LEMMA FitsApplied ==
    ASSUME NEW k, NEW v \in Nat, NEW w, ViewFits(kind[k], v, w),
           NEW s, StateFits(kind[k], s, v, w), s.wire # <<>>, s.ready,
           NEW t, Took(s, t), Verdict(k, t, Head(s.wire)) = "applied",
           NEW r, r = AfterDelta(k, t, Head(s.wire)), NEW x, x = Applied(k, w, Head(s.wire))
    PROVE  /\ StateFits(kind[k], r, v, x) /\ ViewFits(kind[k], v, x)
           /\ kind[k] \in {"log", "sequenced"} => w \subseteq x
<1>1. s \in StateRow /\ s.last \in Int /\ s.seen \in SUBSET Nat /\ w \in SUBSET Nat
  BY StateParts DEF StateFits, StateTyped, ViewFits
<1>2. PICK n : n = Head(s.wire)
  OBVIOUS
<1>3. PICK rest : rest = Tail(s.wire)
  OBVIOUS
<1>4. /\ t \in StateRow /\ t.last = s.last /\ t.seen = s.seen /\ t.request = s.request
      /\ t.ready /\ (t.served <=> s.served) /\ t.sent = s.sent
      /\ t.buffer = s.buffer /\ (t.overflowed <=> s.overflowed) /\ t.wire = rest
  BY <1>1, <1>3, Taken
<1>5. /\ n \in Nat /\ n <= v /\ s.served /\ rest \in Seq(Nat) /\ AtMost(rest, v)
      /\ \A m : Among(m, s.wire) <=> m = n \/ Among(m, rest)
  BY <1>2, <1>3, FirstMessage
<1>6. /\ r \in StateRow /\ r.last = (IF kind[k] = "sequenced" THEN n ELSE s.last)
      /\ r.seen = s.seen \cup {StableId(k, n)} /\ r.request = s.request
      /\ r.ready /\ r.served /\ r.sent = s.sent /\ r.wire = rest
      /\ r.buffer = s.buffer
  <2>1. /\ r \in StateRow /\ r.last = (IF kind[k] = "sequenced" THEN n ELSE t.last)
        /\ r.seen = t.seen \cup {StableId(k, n)} /\ r.request = t.request
        /\ (r.ready <=> t.ready) /\ (r.served <=> t.served) /\ r.sent = t.sent
        /\ r.wire = t.wire /\ r.buffer = t.buffer
    <3>1. r = AfterDelta(k, t, n) /\ t \in StateRow /\ n \in Nat
      BY <1>2, <1>4, <1>5
    <3>2. Counts(k, t, n, r)
      BY <3>1, Counted
    <3>. QED BY <3>2 DEF Counts
  <2>. QED BY <1>4, <1>5, <2>1
<1>7. StateTyped(r, v)
  BY <1>5, <1>6 DEF StateFits, StateTyped
<1>8. x \in SUBSET Nat
  BY <1>1, <1>2, <1>5 DEF Applied
<1>9. ASSUME kind[k] = "sequenced"
      PROVE  SequenceFits(r, v, x) /\ ViewFits(kind[k], v, x) /\ w \subseteq x
  <2>1. s.last >= 0 /\ s.last <= v /\ w = 1 .. s.last
    BY <1>9 DEF StateFits, SequenceFits
  <2>2. n = s.last + 1
    BY <1>1, <1>2, <1>4, <1>9, <2>1 DEF Verdict
  <2>3. x = w \cup {n}
    BY <1>2, <1>9 DEF Applied
  <2>4. x = 1 .. n
    <3>1. PICK last \in Nat : last = s.last
      BY <1>1, <2>1
    <3>2. n = last + 1 /\ x = (1 .. last) \cup {last + 1}
      BY <2>1, <2>2, <2>3, <3>1
    <3>3. (1 .. last) \cup {last + 1} = 1 .. last + 1
      OBVIOUS
    <3>. QED BY <3>2, <3>3
  <2>. QED BY <1>5, <1>6, <1>8, <1>9, <2>3, <2>4 DEF SequenceFits, ViewFits
<1>10. ASSUME kind[k] = "log"
       PROVE  LogFits(r, v, x) /\ ViewFits(kind[k], v, x) /\ w \subseteq x
  <2>1. n >= 1 /\ \A i \in 1 .. Len(rest) : rest[i] >= 1
    BY <1>2, <1>3, <1>10, FirstMessage
  <2>2. x = w \cup {n} /\ StableId(k, n) = n
    BY <1>2, <1>10 DEF Applied, StableId
  <2>3. LogFits(s, v, w)
    BY <1>10 DEF StateFits
  <2>4. LogFits(r, v, x)
    BY <1>5, <1>6, <2>1, <2>2, <2>3 DEF LogFits
  <2>. QED BY <1>5, <1>8, <1>10, <2>1, <2>2, <2>4 DEF ViewFits
<1>11. ASSUME kind[k] = "book"
       PROVE  BookFits(r, v, x) /\ ViewFits(kind[k], v, x)
  <2>1. /\ Rising(rest) /\ \A i \in 1 .. Len(rest) : n < rest[i]
        /\ rest = <<>> => n = v
        /\ rest # <<>> => rest[Len(rest)] = v
    <3>1. kind[k] = "book" =>
            /\ Rising(Tail(s.wire))
            /\ \A i \in 1 .. Len(Tail(s.wire)) : Head(s.wire) < Tail(s.wire)[i]
            /\ Tail(s.wire) = <<>> => Head(s.wire) = v
            /\ Tail(s.wire) # <<>> => Tail(s.wire)[Len(Tail(s.wire))] = v
            /\ s.ready => Head(s.wire) \notin s.seen
      BY FirstMessage
    <3>. QED BY <1>2, <1>3, <1>11, <3>1
  <2>2. x = {n} /\ StableId(k, n) = n
    BY <1>2, <1>11 DEF Applied, StableId
  <2>3. s.buffer = <<>> /\ BookFits(s, v, w)
    BY <1>11 DEF StateFits, StateTyped
  <2>4. \A m \in s.seen : m <= v /\ \A i \in 1 .. Len(rest) : m < rest[i]
    <3>1. \A i \in 1 .. Len(rest) : i + 1 \in 1 .. Len(s.wire) /\ rest[i] = s.wire[i + 1]
      BY <1>1, <1>3, StateParts
    <3>. QED BY <2>3, <3>1 DEF BookFits
  <2>5. \A i \in 1 .. Len(s.buffer) : FALSE
    BY <2>3
  <2>6. r.seen = s.seen \cup {n} /\ r.buffer = <<>> /\ r.wire = rest /\ r.ready /\ r.served
    BY <1>6, <2>2, <2>3
  <2>7. \A m \in r.seen : m <= v /\ \A j \in 1 .. Len(r.wire) : m < r.wire[j]
    BY <1>5, <2>1, <2>4, <2>6
  <2>8. r.wire = <<>> => x = {v}
    BY <2>1, <2>2, <2>6
  <2>9. BookFits(r, v, x)
    BY <2>1, <2>6, <2>7, <2>8, Nothing DEF BookFits
  <2>. QED BY <1>8, <1>11, <2>9 DEF ViewFits
<1>. QED BY <1>7, <1>8, <1>9, <1>10, <1>11 DEF StateFits, ViewFits

\* What a stream needs to wait for a baseline: what is still on the wire, in order.
Waiting(kd, b, v) ==
    /\ b \in StateRow /\ AtMost(b.buffer, v) /\ AtMost(b.wire, v)
    /\ \A m \in b.sent : m <= v
    /\ ~b.served => b.wire = <<>>
    /\ kd = "log" => /\ \A i \in 1 .. Len(b.buffer) : b.buffer[i] >= 1
                     /\ \A i \in 1 .. Len(b.wire) : b.wire[i] >= 1
                     /\ \A m \in b.sent : m >= 1
    /\ kd = "book" => /\ b.buffer = <<>> /\ Rising(b.wire)
                      /\ b.wire # <<>> => b.wire[Len(b.wire)] = v
                      /\ ~b.served => b.seen = {}

\* It waits for one that shows the server as it is now, or later.
LEMMA FitsRequested ==
    ASSUME NEW k, version[k] \in Nat, NEW w, ViewFits(kind[k], version[k], w),
           NEW b, Waiting(kind[k], b, version[k]), NEW a \in Nat
    PROVE  StateFits(kind[k], Requesting(k, b, a), version[k], w)
<1>1. PICK v \in Nat : v = version[k]
  OBVIOUS
<1>2. PICK r : r = Requesting(k, b, a)
  OBVIOUS
<1>3. Waiting(kind[k], b, v) /\ ViewFits(kind[k], v, w)
  BY <1>1
<1>4. b \in StateRow
  BY <1>3 DEF Waiting
<1>5. /\ r \in StateRow /\ r.last = b.last /\ r.seen = b.seen /\ r.request = v
      /\ ~r.ready /\ (r.served <=> b.served) /\ r.sent = b.sent
      /\ r.wire = b.wire /\ r.buffer = b.buffer /\ (r.overflowed <=> b.overflowed)
  BY ONLY <1>1, <1>2, <1>4, Requested, SMTT(40)
<1>6. r.request \in Nat /\ r.request # -1
  BY <1>5
<1>7. StateTyped(r, v)
  BY <1>3, <1>5, <1>6 DEF StateTyped, Waiting
<1>8. kind[k] = "sequenced" => SequenceFits(r, v, w)
  BY <1>3, <1>5 DEF SequenceFits, ViewFits
<1>9. kind[k] = "log" => LogFits(r, v, w)
  BY <1>3, <1>5 DEF LogFits, ViewFits, Waiting
<1>10. kind[k] = "book" => BookFits(r, v, w)
  BY <1>3, <1>5, Nothing DEF BookFits, Waiting
<1>11. StateFits(kind[k], r, v, w)
  BY <1>7, <1>8, <1>9, <1>10 DEF StateFits
<1>. QED BY <1>1, <1>2, <1>11

\* A message that leaves a gap waits for a new baseline.
LEMMA FitsGap ==
    ASSUME NEW k, version[k] \in Nat, NEW w, ViewFits(kind[k], version[k], w),
           NEW s, StateFits(kind[k], s, version[k], w), s.wire # <<>>, s.ready,
           NEW t, Took(s, t), Verdict(k, t, Head(s.wire)) = "gap"
    PROVE  StateFits(kind[k], Requesting(k, BufferMessage(t, Head(s.wire)), 1), version[k], w)
<1>1. s \in StateRow
  BY DEF StateFits, StateTyped
<1>2. PICK n : n = Head(s.wire)
  OBVIOUS
<1>3. PICK rest : rest = Tail(s.wire)
  OBVIOUS
<1>4. /\ t \in StateRow /\ (t.served <=> s.served) /\ t.sent = s.sent
      /\ t.buffer = s.buffer /\ t.wire = rest
  BY <1>1, <1>3, Taken
<1>5. n \in Nat /\ n <= version[k] /\ s.served /\ rest \in Seq(Nat) /\ AtMost(rest, version[k])
  BY <1>2, <1>3, FirstMessage
<1>6. PICK b : b = BufferMessage(t, n)
  OBVIOUS
<1>7. /\ b \in StateRow /\ b.sent = t.sent /\ b.wire = t.wire /\ (b.served <=> t.served)
      /\ \A m : Among(m, b.buffer) => m = n \/ Among(m, t.buffer)
  <2>1. t \in StateRow
    BY <1>4
  <2>2. b \in StateRow /\ b.sent = t.sent /\ b.wire = t.wire /\ (b.served <=> t.served)
    BY <1>5, <1>6, <2>1, Buffered
  <2>3. \A m : Among(m, b.buffer) => m = n \/ Among(m, t.buffer)
    BY <1>5, <1>6, <2>1, Buffered
  <2>. QED BY <2>2, <2>3
<1>8. AtMost(b.buffer, version[k])
  <2>1. t.buffer = <<>>
    BY <1>4 DEF StateFits, StateTyped
  <2>2. \A i \in 1 .. Len(b.buffer) : Among(b.buffer[i], b.buffer)
    BY DEF Among
  <2>. QED BY <1>5, <1>7, <2>1, <2>2, Nothing DEF AtMost
<1>9. kind[k] = "sequenced"
  BY DEF Verdict
<1>10. \A m \in b.sent : m <= version[k]
  BY <1>4, <1>7 DEF StateFits, StateTyped
<1>11. Waiting(kind[k], b, version[k])
  BY <1>4, <1>5, <1>7, <1>8, <1>9, <1>10 DEF Waiting
<1>. QED BY <1>2, <1>6, <1>11, FitsRequested

\* The numbers are well ordered, as a relation.
LEMMA NatOrder ==
    \E R : IsWellFoundedOn(R, Nat) /\ \A m, n \in Nat : <<m, n>> \in R <=> m < n
<1>1. IsWellFoundedOn(OpToRel(<, Nat), Nat)
  BY NatLessThanWellFounded, Zenon
<1>2. \A m, n \in Nat : <<m, n>> \in OpToRel(<, Nat) <=> m < n
  BY Zenon DEF OpToRel
<1> QED
  BY <1>1, <1>2, Zenon

\* A set of numbers that is not empty has a least one.
LEMMA LeastNumber ==
    ASSUME NEW T, T \subseteq Nat, T # {}
    PROVE  \E n \in T : \A m \in T : n <= m
<1>1. PICK R : IsWellFoundedOn(R, Nat) /\ \A m, n \in Nat : <<m, n>> \in R <=> m < n
  BY NatOrder, Zenon
<1>2. \E x \in T : \A y \in T : ~(<<y, x>> \in R)
  <2>1. IsWellFoundedOn(R, Nat)
    BY <1>1
  <2> QED
    BY <2>1, WFMin, Zenon
<1>3. PICK n \in T : \A m \in T : ~(<<m, n>> \in R)
  BY <1>2
<1>4. ASSUME NEW m \in T
      PROVE  ~(m < n)
  <2>1. m \in Nat /\ n \in Nat
    OBVIOUS
  <2>2. <<m, n>> \in R <=> m < n
    BY <1>1, <2>1, Zenon
  <2> QED
    BY <1>3, <2>2, Zenon
<1>5. n \in Nat /\ \A m \in T : m \in Nat
  OBVIOUS
<1> QED
  BY <1>4, <1>5

\* A verdict is one of three.
LEMMA Verdicts == ASSUME NEW k, NEW t, NEW n PROVE Verdict(k, t, n) \in {"ignored", "applied", "gap"}
BY DEF Verdict

\* Replaying a buffer takes one step for each of its messages.
LEMMA ReplayRuns ==
    ASSUME NEW k, NEW b, NEW shown, b.buffer \in Seq(Nat)
    PROVE  \E after :
             /\ after[0] = [state |-> [b EXCEPT !.buffer = <<>>], shown |-> shown, gap |-> FALSE]
             /\ \A i \in 1 .. Len(b.buffer) : after[i] = ReplayStep(k, after[i - 1], b.buffer[i])
             /\ Replay(k, b, shown) = after[Len(b.buffer)]
<1>. DEFINE buffer == b.buffer
            start == [state |-> [b EXCEPT !.buffer = <<>>], shown |-> shown, gap |-> FALSE]
            Runs(f, n) == f = [i \in 0 .. n |-> IF i = 0 THEN start
                                                ELSE ReplayStep(k, f[i - 1], buffer[i])]
            T == {n \in 0 .. Len(buffer) : ~ \E f : Runs(f, n)}
<1>1. Len(buffer) \in Nat
  OBVIOUS
<1>2. Replay(k, b, shown) = (CHOOSE f : Runs(f, Len(buffer)))[Len(buffer)]
  BY DEF Replay
<1>. HIDE DEF buffer, start
<1>3. T = {}
  <2>. SUFFICES ASSUME T # {} PROVE FALSE
    OBVIOUS
  <2>1. T \subseteq Nat
    BY <1>1
  <2>2. PICK n \in T : \A m \in T : n <= m
    BY <2>1, LeastNumber
  <2>3. n \in 0 .. Len(buffer) /\ ~ \E f : Runs(f, n)
    OBVIOUS
  <2>4. CASE n = 0
    <3>1. Runs([i \in 0 .. 0 |-> start], 0)
      OBVIOUS
    <3>. QED BY <2>3, <2>4, <3>1
  <2>5. CASE n # 0
    <3>1. n - 1 \in 0 .. Len(buffer) /\ n - 1 \notin T
      <4>1. n - 1 \in 0 .. Len(buffer) /\ ~(n <= n - 1)
        BY <1>1, <2>3, <2>5
      <4>2. \A m \in T : n <= m
        BY <2>2
      <4>. HIDE DEF T
      <4>. QED BY <4>1, <4>2
    <3>2. PICK f : Runs(f, n - 1)
      BY <3>1
    <3>. DEFINE g == [i \in 0 .. n |-> IF i = n THEN ReplayStep(k, f[n - 1], buffer[n]) ELSE f[i]]
    <3>3. n \in Nat /\ \A i \in 0 .. n : i # n => i \in 0 .. n - 1
      BY <1>1, <2>3
    <3>4. \A i \in 0 .. n : g[i] = IF i = 0 THEN start ELSE ReplayStep(k, g[i - 1], buffer[i])
      <4>. SUFFICES ASSUME NEW i \in 0 .. n
                    PROVE  g[i] = IF i = 0 THEN start ELSE ReplayStep(k, g[i - 1], buffer[i])
        OBVIOUS
      <4>1. i # 0 => i - 1 \in 0 .. n /\ i - 1 # n /\ g[i - 1] = f[i - 1]
        BY <3>3
      <4>2. CASE i = n
        BY <2>5, <4>1, <4>2
      <4>3. CASE i # n
        <5>1. i \in 0 .. n - 1
          BY <3>3, <4>3
        <5>2. g[i] = f[i]
          BY <4>3
        <5>3. f[i] = IF i = 0 THEN start ELSE ReplayStep(k, f[i - 1], buffer[i])
          BY <3>2, <5>1
        <5>. QED BY <4>1, <5>2, <5>3
      <4>. QED BY <4>2, <4>3
    <3>5. g = [i \in 0 .. n |-> g[i]]
      OBVIOUS
    <3>6. Runs(g, n)
      BY <3>4, <3>5
    <3>. QED BY <2>3, <3>6
  <2>. QED BY <2>4, <2>5
<1>4. \E f : Runs(f, Len(buffer))
  <2>1. Len(buffer) \in 0 .. Len(buffer)
    BY <1>1
  <2>. QED BY <1>3, <2>1
<1>5. PICK after : Runs(after, Len(buffer)) /\ Replay(k, b, shown) = after[Len(buffer)]
  <2>1. Runs(CHOOSE f : Runs(f, Len(buffer)), Len(buffer))
    BY <1>4
  <2>. QED BY <1>2, <2>1
<1>6. after[0] = start
  BY <1>1, <1>5
<1>7. \A i \in 1 .. Len(buffer) : after[i] = ReplayStep(k, after[i - 1], buffer[i])
  <2>1. \A i \in 1 .. Len(buffer) : i \in 0 .. Len(buffer) /\ i # 0
    BY <1>1
  <2>. QED BY <1>5, <2>1
<1>. QED BY <1>5, <1>6, <1>7 DEF buffer, start

\* What replaying the first messages of a buffer has made of a baseline: a numbered
\* stream is shown as far as it is counted; of a log all of them are shown; of whole
\* states the last one. Only a numbered stream keeps messages, beyond a gap.
Replaying(kd, b, base, v, acc, i) ==
    /\ acc = [state |-> acc.state, shown |-> acc.shown, gap |-> acc.gap]
    /\ acc.gap \in BOOLEAN /\ acc.shown \in SUBSET Nat
    /\ acc.state \in StateRow /\ acc.state.request = b.request /\ (acc.state.ready <=> b.ready)
    /\ (acc.state.served <=> b.served) /\ acc.state.sent = b.sent /\ acc.state.wire = b.wire
    /\ (acc.state.overflowed <=> b.overflowed)
    /\ \A m : Among(m, acc.state.buffer) => Among(m, b.buffer)
    /\ ~acc.gap => acc.state.buffer = <<>>
    /\ kd # "sequenced" => ~acc.gap
    /\ kd = "sequenced" =>
         /\ acc.state.last >= b.last /\ acc.state.last <= v /\ acc.shown = 1 .. acc.state.last
    /\ kd = "log" =>
         /\ acc.state.seen \subseteq acc.shown /\ base \subseteq acc.shown
         /\ \A j \in 1 .. i : b.buffer[j] \in acc.shown
         /\ \A m \in acc.shown : m \in base \/ Among(m, b.buffer)
    /\ kd = "book" =>
         /\ \A m \in acc.state.seen : \E j \in 1 .. i : b.buffer[j] = m
         /\ acc.shown = IF i = 0 THEN base ELSE {b.buffer[i]}

\* What a baseline and its buffer are like when the buffer is replayed.
Replayable(kd, b, base, v) ==
    /\ b \in StateRow /\ v \in Nat /\ base \in SUBSET Nat /\ b.last >= 0 /\ b.last <= v
    /\ b.seen = {} /\ AtMost(b.buffer, v)
    /\ kd = "sequenced" => base = 1 .. b.last
    /\ kd = "book" => Rising(b.buffer)

\* One message is replayed.
LEMMA ReplayStepKeeps ==
    ASSUME NEW k, NEW b, NEW base, NEW v, Replayable(kind[k], b, base, v), NEW acc,
           NEW i \in 1 .. Len(b.buffer), Replaying(kind[k], b, base, v, acc, i - 1)
    PROVE  Replaying(kind[k], b, base, v, ReplayStep(k, acc, b.buffer[i]), i)
<1>1. b.buffer \in Seq(Nat) /\ v \in Nat /\ b.last \in Int /\ b.last >= 0 /\ i \in Nat \ {0}
  BY StateParts DEF Replayable
<1>2. PICK n \in Nat : n = b.buffer[i]
  BY <1>1
<1>3. n <= v /\ Among(n, b.buffer)
  BY <1>2 DEF Replayable, AtMost, Among
<1>4. PICK state, shown, gap : acc = [state |-> state, shown |-> shown, gap |-> gap]
  BY DEF Replaying
<1>5. /\ gap \in BOOLEAN /\ shown \in SUBSET Nat
      /\ state \in StateRow /\ state.request = b.request /\ (state.ready <=> b.ready)
      /\ (state.served <=> b.served) /\ state.sent = b.sent /\ state.wire = b.wire
      /\ (state.overflowed <=> b.overflowed)
      /\ \A m : Among(m, state.buffer) => Among(m, b.buffer)
      /\ ~gap => state.buffer = <<>>
      /\ kind[k] # "sequenced" => ~gap
  BY <1>4 DEF Replaying
<1>6. kind[k] = "sequenced" => state.last >= b.last /\ state.last <= v /\ shown = 1 .. state.last
  BY <1>4 DEF Replaying
<1>7. kind[k] = "log" =>
        /\ state.seen \subseteq shown /\ base \subseteq shown
        /\ \A j \in 1 .. i - 1 : b.buffer[j] \in shown
        /\ \A m \in shown : m \in base \/ Among(m, b.buffer)
  BY <1>4 DEF Replaying
<1>8. kind[k] = "book" =>
        /\ \A m \in state.seen : \E j \in 1 .. i - 1 : b.buffer[j] = m
        /\ shown = IF i - 1 = 0 THEN base ELSE {b.buffer[i - 1]}
  BY <1>4 DEF Replaying
<1>9. acc.state = state
  BY <1>4
<1>10. PICK verdict : verdict = Verdict(k, state, n)
  OBVIOUS
<1>11. \A j \in 1 .. i : j \in 1 .. i - 1 \/ j = i
  BY <1>1
<1>12. CASE verdict = "applied"
  <2>1. PICK r : r = AfterDelta(k, state, n)
    OBVIOUS
  <2>2. PICK x : x = Applied(k, shown, n)
    OBVIOUS
  <2>3. ReplayStep(k, acc, n) = [state |-> r, shown |-> x, gap |-> gap]
    BY <1>4, <1>10, <1>12, <2>1, <2>2 DEF ReplayStep
  <2>4. /\ r \in StateRow /\ r.last = (IF kind[k] = "sequenced" THEN n ELSE state.last)
        /\ r.seen = state.seen \cup {StableId(k, n)} /\ r.request = state.request
        /\ (r.ready <=> state.ready) /\ (r.served <=> state.served) /\ r.sent = state.sent
        /\ r.wire = state.wire /\ r.buffer = state.buffer /\ (r.overflowed <=> state.overflowed)
    <3>1. state \in StateRow /\ n \in Nat
      BY <1>5
    <3>2. Counts(k, state, n, r)
      BY <2>1, <3>1, Counted
    <3>. QED BY <3>2 DEF Counts
  <2>5. x \in SUBSET Nat /\ x = IF kind[k] \in {"book", "context"} THEN {n} ELSE shown \cup {n}
    BY <1>5, <2>2 DEF Applied
  <2>6. ASSUME kind[k] = "sequenced"
        PROVE  r.last >= b.last /\ r.last <= v /\ x = 1 .. r.last
    <3>1. PICK last \in Nat : last = state.last
      BY <1>1, <1>5, <1>6, <2>6, StateParts
    <3>2. n = last + 1
      BY <1>10, <1>12, <2>6, <3>1 DEF Verdict
    <3>3. (1 .. last) \cup {last + 1} = 1 .. last + 1
      OBVIOUS
    <3>4. x = 1 .. n /\ r.last = n
      BY <1>6, <2>4, <2>5, <2>6, <3>1, <3>2, <3>3
    <3>. QED BY <1>1, <1>3, <1>6, <2>6, <3>1, <3>2, <3>4
  <2>7. ASSUME kind[k] = "log"
        PROVE  /\ r.seen \subseteq x /\ base \subseteq x
               /\ \A j \in 1 .. i : b.buffer[j] \in x
               /\ \A m \in x : m \in base \/ Among(m, b.buffer)
    <3>1. StableId(k, n) = n /\ x = shown \cup {n}
      BY <2>5, <2>7 DEF StableId
    <3>. QED BY <1>2, <1>3, <1>7, <1>11, <2>4, <2>7, <3>1
  <2>8. ASSUME kind[k] = "book"
        PROVE  (\A m \in r.seen : \E j \in 1 .. i : b.buffer[j] = m) /\ x = {b.buffer[i]}
    <3>1. StableId(k, n) = n /\ x = {n}
      BY <2>5, <2>8 DEF StableId
    <3>2. i \in 1 .. i /\ \A j \in 1 .. i - 1 : j \in 1 .. i
      BY <1>1
    <3>3. \A m \in state.seen : \E j \in 1 .. i : b.buffer[j] = m
      BY <1>8, <2>8, <3>2
    <3>. QED BY <1>2, <2>4, <3>1, <3>2, <3>3
  <2>9. PICK next : next = [state |-> r, shown |-> x, gap |-> gap]
    OBVIOUS
  <2>10. next.state = r /\ next.shown = x /\ (next.gap <=> gap) /\ next.gap \in BOOLEAN
         /\ next = [state |-> next.state, shown |-> next.shown, gap |-> next.gap]
    BY <1>5, <2>9
  <2>11. Replaying(kind[k], b, base, v, next, i)
    BY <1>1, <1>5, <2>4, <2>5, <2>6, <2>7, <2>8, <2>10 DEF Replaying
  <2>. QED BY <1>2, <2>3, <2>9, <2>11
<1>13. CASE verdict = "gap"
  <2>1. kind[k] = "sequenced"
    BY <1>10, <1>13 DEF Verdict
  <2>2. state.buffer \in Seq(Nat)
    BY <1>5, StateParts
  <2>3. PICK buffer : buffer = Append(state.buffer, n)
    OBVIOUS
  <2>4. buffer \in Seq(Nat) /\ \A m : Among(m, buffer) <=> m = n \/ Among(m, state.buffer)
    BY <1>2, <2>2, <2>3, Appended
  <2>5. PICK r : r = [state EXCEPT !.buffer = buffer]
    OBVIOUS
  <2>6. ReplayStep(k, acc, n) = [state |-> r, shown |-> shown, gap |-> TRUE]
    BY <1>4, <1>10, <1>13, <2>3, <2>5 DEF ReplayStep
  <2>7. /\ r \in StateRow /\ r.last = state.last /\ r.request = state.request
        /\ (r.ready <=> state.ready) /\ (r.served <=> state.served) /\ r.sent = state.sent
        /\ r.wire = state.wire /\ r.buffer = buffer /\ (r.overflowed <=> state.overflowed)
    <3>1. state \in StateRow /\ buffer \in Seq(Nat)
      BY <1>5, <2>4
    <3>. QED BY <2>5, <3>1 DEF StateRow
  <2>8. PICK next : next = [state |-> r, shown |-> shown, gap |-> TRUE]
    OBVIOUS
  <2>9. next.state = r /\ next.shown = shown /\ next.gap /\ next.gap \in BOOLEAN
        /\ next = [state |-> next.state, shown |-> next.shown, gap |-> next.gap]
    BY <2>8
  <2>10. \A m : Among(m, buffer) => Among(m, b.buffer)
    BY <1>3, <1>5, <2>4
  <2>11. Replaying(kind[k], b, base, v, next, i)
    BY <1>5, <1>6, <2>1, <2>7, <2>9, <2>10 DEF Replaying
  <2>. QED BY <1>2, <2>6, <2>8, <2>11
<1>14. CASE verdict = "ignored"
  <2>1. ReplayStep(k, acc, n) = acc
    BY <1>9, <1>10, <1>14 DEF ReplayStep
  <2>2. ASSUME kind[k] = "log" PROVE \A j \in 1 .. i : b.buffer[j] \in shown
    <3>1. n \in state.seen
      BY <1>10, <1>14, <2>2 DEF Verdict, StableId
    <3>. QED BY <1>2, <1>7, <1>11, <2>2, <3>1
  <2>3. ASSUME kind[k] = "book" PROVE FALSE
    <3>1. n \in state.seen
      BY <1>10, <1>14, <2>3 DEF Verdict, StableId
    <3>2. PICK j \in 1 .. i - 1 : b.buffer[j] = n
      BY <1>8, <2>3, <3>1
    <3>3. j \in 1 .. Len(b.buffer) /\ j < i
      BY <1>1
    <3>4. b.buffer[j] < b.buffer[i]
      BY <2>3, <3>3 DEF Replayable, Rising
    <3>. QED BY <1>2, <3>2, <3>4
  <2>4. Replaying(kind[k], b, base, v, acc, i)
    BY <1>4, <1>5, <1>6, <1>7, <1>9, <2>2, <2>3 DEF Replaying
  <2>. QED BY <1>2, <2>1, <2>4
<1>. QED BY <1>10, <1>12, <1>13, <1>14, Verdicts

\* The whole buffer is replayed.
LEMMA Replayed ==
    ASSUME NEW k, NEW b, NEW base, NEW v, Replayable(kind[k], b, base, v), b.ready
    PROVE  Replaying(kind[k], b, base, v, Replay(k, b, base), Len(b.buffer))
<1>1. b \in StateRow /\ b.buffer \in Seq(Nat) /\ Len(b.buffer) \in Nat /\ b.last \in Int
      /\ b.last >= 0 /\ b.last <= v
  BY StateParts DEF Replayable
<1>2. PICK after :
        /\ after[0] = [state |-> [b EXCEPT !.buffer = <<>>], shown |-> base, gap |-> FALSE]
        /\ \A i \in 1 .. Len(b.buffer) : after[i] = ReplayStep(k, after[i - 1], b.buffer[i])
        /\ Replay(k, b, base) = after[Len(b.buffer)]
  BY <1>1, ReplayRuns
<1>3. Replaying(kind[k], b, base, v, after[0], 0)
  <2>1. PICK r : r = [b EXCEPT !.buffer = <<>>]
    OBVIOUS
  <2>2. /\ r \in StateRow /\ r.last = b.last /\ r.seen = b.seen /\ r.request = b.request
        /\ (r.ready <=> b.ready) /\ (r.served <=> b.served) /\ r.sent = b.sent
        /\ r.wire = b.wire /\ r.buffer = <<>> /\ (r.overflowed <=> b.overflowed)
    <3>1. PICK buffer : buffer = <<>> /\ buffer \in Seq(Nat)
      BY Nothing
    <3>2. r = [b EXCEPT !.buffer = buffer]
      BY <2>1, <3>1
    <3>3. /\ r \in StateRow /\ r.last = b.last /\ r.seen = b.seen /\ r.request = b.request
          /\ (r.ready <=> b.ready) /\ (r.served <=> b.served) /\ r.sent = b.sent
          /\ r.wire = b.wire /\ r.buffer = buffer /\ (r.overflowed <=> b.overflowed)
      BY <1>1, <3>1, <3>2 DEF StateRow
    <3>. QED BY <3>1, <3>3
  <2>3. PICK acc : acc = [state |-> r, shown |-> base, gap |-> FALSE]
    OBVIOUS
  <2>4. acc.state = r /\ acc.shown = base /\ ~acc.gap /\ acc.gap \in BOOLEAN
        /\ acc = [state |-> acc.state, shown |-> acc.shown, gap |-> acc.gap]
    BY <2>3
  <2>5. base \in SUBSET Nat /\ b.seen = {} /\ (kind[k] = "sequenced" => base = 1 .. b.last)
    BY DEF Replayable
  <2>6. \A j \in 1 .. 0 : FALSE
    OBVIOUS
  <2>7. Replaying(kind[k], b, base, v, acc, 0)
    BY <1>1, <2>2, <2>4, <2>5, <2>6, Nothing DEF Replaying
  <2>. QED BY <1>2, <2>1, <2>3, <2>7
<1>. DEFINE Good(i) == Replaying(kind[k], b, base, v, after[i], i)
            T == {i \in 0 .. Len(b.buffer) : ~Good(i)}
<1>4. \A i \in 1 .. Len(b.buffer) : Good(i - 1) => Good(i)
  BY <1>2, ReplayStepKeeps
<1>5. Good(0)
  BY <1>3
<1>. HIDE DEF Good
<1>6. T = {}
  <2>. SUFFICES ASSUME T # {} PROVE FALSE
    OBVIOUS
  <2>1. T \subseteq Nat
    BY <1>1
  <2>2. PICK n \in T : \A m \in T : n <= m
    BY <2>1, LeastNumber
  <2>3. n \in 0 .. Len(b.buffer) /\ ~Good(n)
    OBVIOUS
  <2>4. n \in 1 .. Len(b.buffer) /\ n - 1 \in 0 .. Len(b.buffer) /\ ~(n <= n - 1)
    BY <1>1, <1>5, <2>3
  <2>5. Good(n - 1)
    <3>1. n - 1 \notin T
      <4>1. \A m \in T : n <= m
        BY <2>2
      <4>. HIDE DEF T
      <4>. QED BY <2>4, <4>1
    <3>. QED BY <2>4, <3>1
  <2>. QED BY <1>4, <2>3, <2>4, <2>5
<1>7. Good(Len(b.buffer))
  <2>1. Len(b.buffer) \in 0 .. Len(b.buffer)
    BY <1>1
  <2>. QED BY <1>6, <2>1
<1>. QED BY <1>2, <1>7 DEF Good

\* The record a baseline is applied to.
Based(s, n, t) ==
    /\ t \in StateRow /\ t.last = n /\ t.seen = {} /\ t.request = -1
    /\ (t.served <=> s.served) /\ t.sent = s.sent /\ t.wire = s.wire

Rebased(s, n, based) == based = [s EXCEPT !.last = n, !.seen = {}, !.request = -1]

\* It remembers no message, and waits for no other baseline.
LEMMA BaselineTaken ==
    ASSUME NEW s \in StateRow, NEW n \in Nat,
           NEW based, Rebased(s, n, based)
    PROVE  /\ Based(s, n, based) /\ Based(s, n, [based EXCEPT !.ready = TRUE])
           /\ Based(s, n, [based EXCEPT !.buffer = <<>>, !.overflowed = FALSE])
           /\ [based EXCEPT !.ready = TRUE].buffer = s.buffer
           /\ [based EXCEPT !.ready = TRUE].ready
           /\ [based EXCEPT !.buffer = <<>>, !.overflowed = FALSE].buffer = <<>>
<1>0. PICK none : none = {}
  OBVIOUS
<1>1. none = {} /\ none \in SUBSET Nat
  BY <1>0
<1>2. PICK empty : empty = <<>> /\ empty \in Seq(Nat)
  BY Nothing
<1>3. based = [s EXCEPT !.last = n, !.seen = none, !.request = -1] /\ n \in Int
  BY <1>1 DEF Rebased
<1>4. /\ based \in StateRow /\ based.last = n /\ based.seen = none /\ based.request = -1
      /\ (based.served <=> s.served) /\ based.sent = s.sent /\ based.wire = s.wire
      /\ based.buffer = s.buffer
  <2>1. none \in SUBSET Nat /\ n \in Int /\ -1 \in Int
    BY <1>1
  <2>. QED BY <1>3, <2>1 DEF StateRow
<1>5. PICK t : t = [based EXCEPT !.ready = TRUE]
  OBVIOUS
<1>6. /\ t \in StateRow /\ t.last = based.last /\ t.seen = based.seen /\ t.request = based.request
      /\ (t.served <=> based.served) /\ t.sent = based.sent /\ t.wire = based.wire
      /\ t.buffer = based.buffer /\ t.ready
  <2>1. based \in StateRow
    BY <1>4
  <2>. QED BY <1>5, <2>1 DEF StateRow
<1>7. PICK u : u = [based EXCEPT !.buffer = empty, !.overflowed = FALSE]
  OBVIOUS
<1>8. /\ u \in StateRow /\ u.last = based.last /\ u.seen = based.seen /\ u.request = based.request
      /\ (u.served <=> based.served) /\ u.sent = based.sent /\ u.wire = based.wire
      /\ u.buffer = empty
  <2>1. based \in StateRow
    BY <1>4
  <2>. QED BY <1>2, <1>7, <2>1 DEF StateRow
<1>9. Based(s, n, based) /\ Based(s, n, t) /\ Based(s, n, u)
  BY <1>1, <1>4, <1>6, <1>8 DEF Based
<1>. QED BY <1>2, <1>4, <1>5, <1>6, <1>7, <1>8, <1>9

\* What a baseline shows.
LEMMA BaselineShown ==
    ASSUME NEW k, NEW v \in Nat, NEW n \in Nat, n <= v, ViewFits(kind[k], v, view[k])
    PROVE  /\ ViewFits(kind[k], v, AppliedBaseline(k, n))
           /\ kind[k] \in {"sequenced", "log"} => AppliedBaseline(k, n) = 1 .. n
           /\ kind[k] = "book" => AppliedBaseline(k, n) = {n}
<1>1. PICK x : x = AppliedBaseline(k, n)
  OBVIOUS
<1>2. CASE kind[k] = "context"
  BY <1>1, <1>2 DEF AppliedBaseline, ViewFits
<1>3. CASE kind[k] = "book"
  BY <1>1, <1>3 DEF AppliedBaseline, ViewFits
<1>4. CASE kind[k] \notin {"book", "context"}
  <2>1. x = 1 .. n
    BY <1>1, <1>4 DEF AppliedBaseline
  <2>2. 1 .. n \in SUBSET Nat /\ 1 .. n \subseteq 1 .. v /\ n \in 0 .. v
    OBVIOUS
  <2>3. ViewFits(kind[k], v, x)
    BY <2>1, <2>2 DEF ViewFits
  <2>. QED BY <1>1, <1>4, <2>1, <2>3
<1>. QED BY <1>2, <1>3, <1>4

\* A baseline that takes the place of an overflowed buffer is followed by another one.
LEMMA FitsOverflow ==
    ASSUME NEW k, version[k] \in Nat, NEW s, NEW x, ViewFits(kind[k], version[k], x),
           NEW w, StateFits(kind[k], s, version[k], w), NEW n, NEW t, Based(s, n, t), t.buffer = <<>>,
           NEW a \in Nat
    PROVE  StateFits(kind[k], Requesting(k, t, a), version[k], x)
<1>1. /\ t \in StateRow /\ (t.served <=> s.served) /\ t.sent = s.sent /\ t.wire = s.wire
      /\ t.seen = {}
  BY DEF Based
<1>2. AtMost(s.wire, version[k]) /\ (\A m \in s.sent : m <= version[k]) /\ (~s.served => s.wire = <<>>)
  BY DEF StateFits, StateTyped
<1>3. kind[k] = "log" => (\A i \in 1 .. Len(s.wire) : s.wire[i] >= 1) /\ \A m \in s.sent : m >= 1
  BY DEF StateFits, LogFits
<1>4. kind[k] = "book" => Rising(s.wire) /\ (s.wire # <<>> => s.wire[Len(s.wire)] = version[k])
  BY DEF StateFits, BookFits
<1>5. \A i \in 1 .. Len(t.buffer) : FALSE
  OBVIOUS
<1>6. Waiting(kind[k], t, version[k])
  BY <1>1, <1>2, <1>3, <1>4, <1>5, Nothing DEF Waiting
<1>. QED BY <1>6, FitsRequested

\* The buffer can be replayed over a baseline.
LEMMA BufferReplayable ==
    ASSUME NEW k, NEW v \in Nat, NEW n \in Nat, n <= v, ViewFits(kind[k], v, view[k]),
           NEW w, NEW s, StateFits(kind[k], s, v, w), NEW t, Based(s, n, t), t.buffer = s.buffer,
           NEW x, x = AppliedBaseline(k, n)
    PROVE  Replayable(kind[k], t, x, v)
<1>1. t \in StateRow /\ t.last = n /\ t.seen = {}
  BY DEF Based
<1>2. x \in SUBSET Nat /\ (kind[k] = "sequenced" => x = 1 .. n)
  <2>1. v \in Nat /\ n \in Nat /\ n <= v /\ ViewFits(kind[k], v, view[k])
    OBVIOUS
  <2>2. /\ ViewFits(kind[k], v, AppliedBaseline(k, n))
        /\ kind[k] \in {"sequenced", "log"} => AppliedBaseline(k, n) = 1 .. n
    BY <2>1, BaselineShown
  <2>3. x = AppliedBaseline(k, n)
    OBVIOUS
  <2>4. ViewFits(kind[k], v, x) /\ (kind[k] = "sequenced" => x = 1 .. n)
    BY <2>2, <2>3
  <2>. QED BY <2>4 DEF ViewFits
<1>3. AtMost(t.buffer, v) /\ (kind[k] = "book" => Rising(t.buffer))
  BY DEF StateFits, StateTyped, BookFits
<1>. QED BY <1>1, <1>2, <1>3 DEF Replayable

\* What is shown after the replay fits the stream, and is no less than the baseline.
LEMMA ReplayShown ==
    ASSUME NEW kd, NEW b, NEW base, NEW v, Replayable(kd, b, base, v), ViewFits(kd, v, base),
           NEW acc, Replaying(kd, b, base, v, acc, Len(b.buffer)),
           kd = "log" => \A i \in 1 .. Len(b.buffer) : b.buffer[i] >= 1
    PROVE  /\ ViewFits(kd, v, acc.shown)
           /\ kd \in {"log", "sequenced"} => base \subseteq acc.shown
<1>1. b \in StateRow /\ v \in Nat /\ b.last \in Int /\ b.last >= 0 /\ b.last <= v
      /\ b.buffer \in Seq(Nat) /\ AtMost(b.buffer, v)
  BY StateParts DEF Replayable
<1>2. acc.state \in StateRow /\ acc.shown \in SUBSET Nat
  BY DEF Replaying
<1>3. ASSUME kd = "sequenced" PROVE ViewFits(kd, v, acc.shown) /\ base \subseteq acc.shown
  <2>1. PICK last \in Int : last = acc.state.last
    BY <1>2, StateParts
  <2>2. PICK first \in Int : first = b.last
    BY <1>1
  <2>3. last >= first /\ last <= v /\ acc.shown = 1 .. last /\ base = 1 .. first /\ first >= 0
    BY <1>1, <1>3, <2>1, <2>2 DEF Replaying, Replayable
  <2>4. 1 .. first \subseteq 1 .. last /\ last \in 0 .. v
    BY <1>1, <2>3
  <2>. QED BY <1>2, <1>3, <2>3, <2>4 DEF ViewFits
<1>4. ASSUME kd = "log" PROVE ViewFits(kd, v, acc.shown) /\ base \subseteq acc.shown
  <2>1. base \subseteq acc.shown /\ \A m \in acc.shown : m \in base \/ Among(m, b.buffer)
    BY <1>4 DEF Replaying
  <2>2. base \subseteq 1 .. v
    BY <1>4 DEF ViewFits
  <2>3. \A m : Among(m, b.buffer) => m \in 1 .. v
    BY <1>1, <1>4 DEF Among, AtMost
  <2>. QED BY <1>2, <1>4, <2>1, <2>2, <2>3 DEF ViewFits
<1>. QED BY <1>2, <1>3, <1>4 DEF ViewFits

\* A buffer that leaves a gap is followed by another baseline.
LEMMA FitsStillGap ==
    ASSUME NEW k, version[k] \in Nat, NEW w, NEW s, StateFits(kind[k], s, version[k], w),
           NEW n, NEW t, Based(s, n, t), t.buffer = s.buffer,
           NEW x, NEW acc, Replaying(kind[k], t, x, version[k], acc, Len(t.buffer)), acc.gap,
           ViewFits(kind[k], version[k], acc.shown), NEW a \in Nat
    PROVE  StateFits(kind[k], Requesting(k, acc.state, a), version[k], acc.shown)
<1>1. kind[k] = "sequenced"
  BY DEF Replaying
<1>2. /\ (t.served <=> s.served) /\ t.sent = s.sent /\ t.wire = s.wire
  BY DEF Based
<1>3. /\ acc.state \in StateRow /\ (acc.state.served <=> t.served) /\ acc.state.sent = t.sent
      /\ acc.state.wire = t.wire /\ \A m : Among(m, acc.state.buffer) => Among(m, t.buffer)
  BY DEF Replaying
<1>4. AtMost(s.wire, version[k]) /\ AtMost(s.buffer, version[k])
      /\ (\A m \in s.sent : m <= version[k]) /\ (~s.served => s.wire = <<>>)
  BY DEF StateFits, StateTyped
<1>5. AtMost(acc.state.buffer, version[k])
  <2>. SUFFICES ASSUME NEW i \in 1 .. Len(acc.state.buffer)
                PROVE  acc.state.buffer[i] <= version[k]
    BY DEF AtMost
  <2>1. Among(acc.state.buffer[i], acc.state.buffer)
    BY DEF Among
  <2>2. Among(acc.state.buffer[i], s.buffer)
    BY <1>3, <2>1
  <2>3. PICK j \in 1 .. Len(s.buffer) : s.buffer[j] = acc.state.buffer[i]
    BY <2>2 DEF Among
  <2>4. s.buffer[j] <= version[k]
    BY <1>4 DEF AtMost
  <2>. QED BY <2>3, <2>4
<1>6. Waiting(kind[k], acc.state, version[k])
  BY <1>1, <1>2, <1>3, <1>4, <1>5 DEF Waiting
<1>. QED BY <1>6, FitsRequested

\* A baseline and its buffer make the stream live.
LEMMA FitsLive ==
    ASSUME NEW kd, NEW v \in Nat, NEW w, NEW s, StateFits(kd, s, v, w), ~s.ready, ~s.overflowed,
           NEW n \in Nat, n <= v, kd # "context" => s.request <= n,
           NEW t, Based(s, n, t), t.buffer = s.buffer, t.ready,
           NEW x, ViewFits(kd, v, x), kd \in {"sequenced", "log"} => x = 1 .. n,
           kd = "book" => x = {n},
           NEW acc, Replaying(kd, t, x, v, acc, Len(t.buffer)), ~acc.gap,
           NEW u, u \in StateRow, u.last = acc.state.last, u.seen = acc.state.seen,
           u.buffer = acc.state.buffer, u.ready <=> acc.state.ready, u.request = acc.state.request,
           u.served <=> acc.state.served, u.sent = acc.state.sent, u.wire = acc.state.wire
    PROVE  StateFits(kd, u, v, acc.shown)
<1>1. /\ t.last = n /\ t.request = -1 /\ (t.served <=> s.served) /\ t.sent = s.sent
      /\ t.wire = s.wire
  BY DEF Based
<1>2. /\ u.request = -1 /\ u.ready /\ (u.served <=> s.served) /\ u.sent = s.sent
      /\ u.wire = s.wire /\ u.buffer = <<>>
  BY <1>1 DEF Replaying
<1>3. s \in StateRow /\ s.buffer \in Seq(Nat) /\ s.wire \in Seq(Nat) /\ Len(s.buffer) \in Nat
      /\ s.sent \in SUBSET Nat /\ s.request \in Int
  BY StateParts DEF StateFits, StateTyped
<1>4. /\ AtMost(s.buffer, v) /\ AtMost(s.wire, v) /\ (\A m \in s.sent : m <= v)
      /\ (~s.served => s.wire = <<>>)
  BY DEF StateFits, StateTyped
<1>5. StateTyped(u, v)
  BY <1>2, <1>4, Nothing DEF StateTyped
<1>6. ASSUME kd = "sequenced" PROVE SequenceFits(u, v, acc.shown)
  <2>1. acc.state.last >= n /\ acc.state.last <= v /\ acc.shown = 1 .. acc.state.last
    BY <1>1, <1>6 DEF Replaying
  <2>2. acc.state.last \in Int
    BY StateParts DEF Replaying
  <2>. QED BY <1>2, <2>1, <2>2 DEF SequenceFits
<1>7. ASSUME kd = "log" PROVE LogFits(u, v, acc.shown)
  <2>1. LogFits(s, v, w)
    BY <1>7 DEF StateFits
  <2>2. /\ acc.state.seen \subseteq acc.shown /\ 1 .. n \subseteq acc.shown
        /\ \A m : Among(m, s.buffer) => m \in acc.shown
    BY <1>7 DEF Replaying, Among
  <2>3. \A m \in s.sent : m \in acc.shown \/ Among(m, s.wire)
    <3>. SUFFICES ASSUME NEW m \in s.sent PROVE m \in acc.shown \/ Among(m, s.wire)
      OBVIOUS
    <3>1. m \in Nat /\ m >= 1
      BY <1>3, <2>1 DEF LogFits
    <3>2. m \in w => m \in 1 .. s.request
      BY <2>1 DEF LogFits
    <3>3. s.request <= n
      BY <1>7
    <3>4. m \in 1 .. s.request \/ m <= s.request => m \in 1 .. n
      BY <1>3, <3>1, <3>3
    <3>. QED BY <2>1, <2>2, <3>2, <3>4 DEF LogFits
  <2>4. \A i \in 1 .. Len(u.buffer) : u.buffer[i] >= 1
    BY <1>2
  <2>. QED BY <1>2, <2>1, <2>2, <2>3, <2>4 DEF LogFits
<1>8. ASSUME kd = "book" PROVE BookFits(u, v, acc.shown)
  <2>1. BookFits(s, v, w)
    BY <1>8 DEF StateFits
  <2>2. /\ \A m \in u.seen : \E j \in 1 .. Len(s.buffer) : s.buffer[j] = m
        /\ acc.shown = IF Len(s.buffer) = 0 THEN {n} ELSE {s.buffer[Len(s.buffer)]}
    BY <1>8 DEF Replaying
  <2>3. \A m \in u.seen : m <= v /\ \A j \in 1 .. Len(s.wire) : m < s.wire[j]
    BY <1>4, <2>1, <2>2 DEF BookFits, AtMost
  <2>4. ~s.served => u.seen = {}
    BY <2>1, <2>2, Nothing DEF BookFits
  <2>5. ASSUME s.served, s.wire = <<>> PROVE acc.shown = {v}
    <3>1. CASE s.buffer = <<>>
      <4>1. s.request = v
        BY <2>1, <2>5, <3>1 DEF BookFits
      <4>2. n = v
        BY <1>8, <4>1
      <4>. QED BY <2>2, <3>1, <4>2, Nothing
    <3>2. CASE s.buffer # <<>>
      <4>1. s.buffer[Len(s.buffer)] = v
        BY <2>1, <2>5, <3>2 DEF BookFits
      <4>2. Len(s.buffer) # 0
        BY <1>3, <3>2
      <4>. QED BY <2>2, <4>1, <4>2
    <3>. QED BY <3>1, <3>2
  <2>6. \A i \in 1 .. Len(u.buffer) : FALSE
    BY <1>2
  <2>. QED BY <1>2, <2>1, <2>3, <2>4, <2>5, <2>6, Nothing DEF BookFits
<1>. QED BY <1>5, <1>6, <1>7, <1>8 DEF StateFits

\* One generation's record is replaced.
Replaces(all, g, r, next) == next = [all EXCEPT ![g] = r]

LEMMA OneRun ==
    ASSUME NEW all, NEW n, AllFit(all, n), NEW g \in DOMAIN all, NEW r, RunRecord(r),
           NEW m, g > m => r = NoRun, \A h \in DOMAIN all : h > m => h > n,
           NEW next, Replaces(all, g, r, next)
    PROVE  /\ AllFit(next, m) /\ DOMAIN next = DOMAIN all /\ next[g] = r
           /\ \A h \in DOMAIN all : h # g => next[h] = all[h]
<1>1. /\ DOMAIN next = DOMAIN all /\ next[g] = r /\ next = [h \in DOMAIN next |-> next[h]]
      /\ \A h \in DOMAIN all : h # g => next[h] = all[h]
  BY DEF Replaces, AllFit
<1>2. DOMAIN all = 1 .. MaxStreamGenerations
      /\ \A h \in DOMAIN all : RunRecord(all[h]) /\ (h > n => all[h] = NoRun)
  BY DEF AllFit
<1>3. ASSUME NEW h \in DOMAIN next PROVE RunRecord(next[h]) /\ (h > m => next[h] = NoRun)
  BY <1>1, <1>2
<1>. QED BY <1>1, <1>2, <1>3 DEF AllFit

\* The record of one stream is replaced in that of a generation.
Changes(all, g, k, x, next) == next = [all EXCEPT ![g].states[k] = x]

LEMMA OneState ==
    ASSUME NEW all, NEW n, AllFit(all, n), NEW g \in DOMAIN all,
           NEW k \in DOMAIN all[g].states, NEW x, NEW next, Changes(all, g, k, x, next)
    PROVE  /\ AllFit(next, n) /\ DOMAIN next = DOMAIN all
           /\ \A h \in DOMAIN all : h # g => next[h] = all[h]
           /\ next[g].phase = all[g].phase /\ DOMAIN next[g].states = DOMAIN all[g].states
           /\ next[g].states[k] = x
           /\ \A j \in DOMAIN all[g].states : j # k => next[g].states[j] = all[g].states[j]
<1>1. RunRecord(all[g]) /\ (g > n => all[g] = NoRun)
  BY DEF AllFit
<1>2. PICK states : states = [all[g].states EXCEPT ![k] = x]
  OBVIOUS
<1>3. /\ DOMAIN states = DOMAIN all[g].states /\ states[k] = x
      /\ states = [j \in DOMAIN states |-> states[j]]
      /\ \A j \in DOMAIN all[g].states : j # k => states[j] = all[g].states[j]
  BY <1>1, <1>2 DEF RunRecord
<1>4. PICK r : r = [phase |-> all[g].phase, states |-> states]
  OBVIOUS
<1>5. r.phase = all[g].phase /\ r.states = states /\ RunRecord(r)
  BY <1>3, <1>4 DEF RunRecord
<1>6. Replaces(all, g, r, next)
  <2>1. [all[g] EXCEPT !.states[k] = x] = r
    BY <1>1, <1>2, <1>4 DEF RunRecord
  <2>2. next = [all EXCEPT ![g] = [all[g] EXCEPT !.states[k] = x]]
    BY DEF Changes
  <2>. QED BY <2>1, <2>2 DEF Replaces
<1>7. ~(g > n)
  <2>1. DOMAIN NoRun.states = {}
    BY DEF NoRun
  <2>. QED BY <1>1, <2>1
<1>8. /\ AllFit(next, n) /\ DOMAIN next = DOMAIN all /\ next[g] = r
      /\ \A h \in DOMAIN all : h # g => next[h] = all[h]
  BY <1>5, <1>6, <1>7, OneRun
<1>. QED BY <1>3, <1>5, <1>8

\* A run that is given up keeps its place.
LEMMA TornFits ==
    ASSUME NEW all, NEW n \in Nat, AllFit(all, n), currentRun \in {0, n},
           currentRun <= MaxStreamGenerations, NEW next, next = TornDown(all)
    PROVE  AllFit(next, n)
<1>1. CASE currentRun = 0
  BY <1>1 DEF TornDown
<1>2. CASE currentRun # 0
  <2>1. currentRun \in DOMAIN all /\ ~(currentRun > n)
    BY <1>2, StreamAssumption DEF AllFit
  <2>2. PICK phase : phase = IF all[currentRun].phase = "connecting" THEN "abandoned" ELSE "ended"
    OBVIOUS
  <2>3. PICK states : states =
           [k \in {j \in DOMAIN all[currentRun].states : all[currentRun].states[j].request # -1} |->
              [NoBaseline EXCEPT !.request = all[currentRun].states[k].request]]
    OBVIOUS
  <2>4. states = [k \in DOMAIN states |-> states[k]]
    BY <2>3
  <2>5. PICK r : r = [phase |-> phase, states |-> states]
    OBVIOUS
  <2>6. RunRecord(r)
    BY <2>4, <2>5 DEF RunRecord
  <2>7. Replaces(all, currentRun, r, next)
    BY <1>2, <2>2, <2>3, <2>5 DEF TornDown, Replaces
  <2>. QED BY <2>1, <2>6, <2>7, OneRun
<1>. QED BY <1>1, <1>2

\* A new generation starts with nothing but a connection to be opened.
LEMMA Started ==
    ASSUME RunsFit, StartGeneration(generation + 1)
    PROVE  /\ generation' \in Nat /\ currentRun' = generation' /\ currentRun' <= MaxStreamGenerations
           /\ AllFit(runs', generation')
           /\ runs'[currentRun'].phase = "connecting" /\ DOMAIN runs'[currentRun'].states = {}
<1>1. /\ generation \in Nat /\ AllFit(runs, generation)
      /\ currentRun \in {0, generation} /\ currentRun <= MaxStreamGenerations
  BY DEF RunsFit
<1>2. PICK g : g = generation + 1
  OBVIOUS
<1>3. g \in Nat /\ g > generation /\ g <= MaxStreamGenerations /\ g >= 1
      /\ generation' = g /\ currentRun' = g
  BY <1>1, <1>2 DEF StartGeneration
<1>4. PICK torn : torn = TornDown(runs)
  OBVIOUS
<1>5. AllFit(torn, generation)
  BY <1>1, <1>4, TornFits
<1>6. g \in DOMAIN torn /\ torn[g] = NoRun
  BY <1>3, <1>5 DEF AllFit
<1>7. PICK r : r = [phase |-> "connecting", states |-> <<>>]
  OBVIOUS
<1>8. r.phase = "connecting" /\ r.states = <<>> /\ DOMAIN r.states = {} /\ RunRecord(r)
  BY <1>7 DEF RunRecord
<1>9. Replaces(torn, g, r, runs')
  <2>1. [torn[g] EXCEPT !.phase = "connecting"] = r
    BY <1>6, <1>7 DEF NoRun
  <2>2. runs' = [torn EXCEPT ![g].phase = "connecting"]
    BY <1>2, <1>4 DEF StartGeneration
  <2>3. runs' = [torn EXCEPT ![g] = [torn[g] EXCEPT !.phase = "connecting"]]
    BY <2>2
  <2>. QED BY <2>1, <2>3 DEF Replaces
<1>10. ~(g > g) /\ \A h \in DOMAIN torn : h > g => h > generation
  BY <1>1, <1>3, <1>5 DEF AllFit
<1>11. AllFit(runs', g) /\ runs'[g] = r
  BY <1>5, <1>6, <1>8, <1>9, <1>10, OneRun
<1>. QED BY <1>3, <1>8, <1>11

\* A generation that has ended is followed by one that has no run yet.
LEMMA Advanced ==
    ASSUME RunsFit, NEW all, AllFit(all, generation),
           generation' = generation + 1, currentRun' = 0, runs' = TornDown(all)
    PROVE  /\ generation' \in Nat /\ currentRun' = 0 /\ currentRun' <= MaxStreamGenerations
           /\ AllFit(runs', generation')
<1>1. /\ generation \in Nat /\ currentRun \in {0, generation}
      /\ currentRun <= MaxStreamGenerations
  BY DEF RunsFit
<1>2. AllFit(runs', generation)
  BY <1>1, TornFits
<1>3. \A h \in DOMAIN runs' : h > generation + 1 => h > generation
  BY <1>1, <1>2 DEF AllFit
<1>4. AllFit(runs', generation + 1)
  BY <1>2, <1>3 DEF AllFit
<1>. QED BY <1>1, <1>4, StreamAssumption

\* Neither the start nor the end of a generation touches what is shown.
LEMMA InvAnew ==
    ASSUME ServersFit, UNCHANGED <<kind, version, view>>,
           declared' \subseteq StreamKeys, subscribed' \subseteq StreamKeys,
           generation' \in Nat, AllFit(runs', generation'), currentRun' <= MaxStreamGenerations,
           \/ currentRun' = 0
           \/ /\ currentRun' = generation' /\ Eligible(environment', subscribed')
              /\ runs'[currentRun'].phase = "connecting" /\ DOMAIN runs'[currentRun'].states = {}
    PROVE  StreamInv' /\ ViewGrows
<1>1. RunsFit'
  BY DEF RunsFit, AllFit, RunRecord, NoRun, Eligible
<1>2. ServersFit'
  BY DEF ServersFit, ViewFits
<1>3. CurrentFits'
  BY DEF CurrentFits
<1>4. ViewGrows
  BY DEF ViewGrows
<1>. QED BY <1>1, <1>2, <1>3, <1>4 DEF StreamInv

\* Nothing of the connections changes.
LEMMA InvStays ==
    ASSUME StreamInv, UNCHANGED <<kind, version, view, generation, runs, currentRun>>,
           declared' \subseteq StreamKeys, subscribed' \subseteq StreamKeys,
           currentRun # 0 => Eligible(environment', subscribed')
    PROVE  StreamInv' /\ ViewGrows
<1>1. RunsFit'
  BY DEF StreamInv, RunsFit, AllFit, RunRecord, NoRun, Eligible
<1>2. ServersFit'
  BY DEF StreamInv, ServersFit, ViewFits
<1>3. CurrentFits'
  <2>1. kind' = kind /\ version' = version /\ view' = view /\ runs' = runs /\ currentRun' = currentRun
    OBVIOUS
  <2>2. CurrentFits
    BY DEF StreamInv
  <2>. QED BY <2>1, <2>2 DEF CurrentFits
<1>4. ViewGrows
  BY DEF ViewGrows
<1>. QED BY <1>1, <1>2, <1>3, <1>4 DEF StreamInv

LEMMA DeclareStep ==
    ASSUME StreamInv, NEW k \in StreamKeys, Declare(k)
    PROVE  StreamInv' /\ ViewGrows
<1>1. declared \subseteq StreamKeys /\ subscribed \subseteq StreamKeys
      /\ (currentRun # 0 => Eligible(environment, subscribed))
  BY DEF StreamInv, RunsFit
<1>2. /\ UNCHANGED <<kind, version, view, generation, runs, currentRun, subscribed, environment>>
      /\ declared' \subseteq StreamKeys
  BY <1>1 DEF Declare
<1>3. currentRun # 0 => Eligible(environment', subscribed')
  BY <1>1, <1>2
<1>. QED BY <1>1, <1>2, <1>3, InvStays

LEMMA Restarted ==
    ASSUME StreamInv, RestartIfEligible(environment', subscribed'),
           UNCHANGED <<kind, version, view>>,
           declared' \subseteq StreamKeys, subscribed' \subseteq StreamKeys
    PROVE  StreamInv' /\ ViewGrows
<1>1. RunsFit /\ ServersFit
  BY DEF StreamInv
<1>2. CASE Eligible(environment', subscribed')
  <2>1. StartGeneration(generation + 1)
    BY <1>2 DEF RestartIfEligible
  <2>. QED BY <1>1, <1>2, <2>1, Started, InvAnew
<1>3. CASE ~Eligible(environment', subscribed')
  <2>1. generation' = generation + 1 /\ currentRun' = 0 /\ runs' = TornDown(runs)
    BY <1>3 DEF RestartIfEligible, AdvanceGeneration
  <2>2. AllFit(runs, generation)
    BY <1>1 DEF RunsFit
  <2>3. /\ generation' \in Nat /\ currentRun' = 0 /\ currentRun' <= MaxStreamGenerations
        /\ AllFit(runs', generation')
    BY <1>1, <2>1, <2>2, Advanced
  <2>. QED BY <1>1, <2>3, InvAnew
<1>. QED BY <1>2, <1>3

LEMMA SynchronizeStep ==
    ASSUME StreamInv, Synchronize
    PROVE  StreamInv' /\ ViewGrows
<1>1. declared \subseteq StreamKeys
  BY DEF StreamInv, RunsFit
<1>2. /\ declared' = declared /\ subscribed' = declared /\ environment' = environment
      /\ UNCHANGED <<kind, version, view>>
  BY DEF Synchronize
<1>3. CASE Eligible(environment, declared) \/ currentRun # 0
  <2>1. RestartIfEligible(environment, declared)
    BY <1>3 DEF Synchronize
  <2>2. RestartIfEligible(environment', subscribed')
    BY <1>2, <2>1
  <2>3. declared' \subseteq StreamKeys /\ subscribed' \subseteq StreamKeys
    BY <1>1, <1>2
  <2>. QED BY <1>2, <2>2, <2>3, Restarted
<1>4. CASE ~(Eligible(environment, declared) \/ currentRun # 0)
  <2>1. UNCHANGED <<generation, runs, currentRun>>
    BY <1>4 DEF Synchronize
  <2>. QED BY <1>1, <1>2, <1>4, <2>1, InvStays
<1>. QED BY <1>3, <1>4

LEMMA SetEnvironmentStep ==
    ASSUME StreamInv, NEW env, SetEnvironment(env)
    PROVE  StreamInv' /\ ViewGrows
<1>1. declared \subseteq StreamKeys /\ subscribed \subseteq StreamKeys
  BY DEF StreamInv, RunsFit
<1>2. /\ environment' = env /\ UNCHANGED <<kind, declared, subscribed, version, view>>
      /\ RestartIfEligible(env, subscribed)
  BY DEF SetEnvironment
<1>3. RestartIfEligible(environment', subscribed')
  BY <1>2
<1>. QED BY <1>1, <1>2, <1>3, Restarted

LEMMA TimerStep ==
    ASSUME StreamInv, ReconnectTimer
    PROVE  StreamInv' /\ ViewGrows
<1>1. /\ RunsFit /\ ServersFit /\ declared \subseteq StreamKeys /\ subscribed \subseteq StreamKeys
      /\ (currentRun # 0 => Eligible(environment, subscribed))
  BY DEF StreamInv, RunsFit
<1>2. UNCHANGED <<kind, declared, subscribed, environment, version, view>>
  BY DEF ReconnectTimer
<1>3. CASE reconnect.timer = generation /\ Eligible(environment, subscribed)
  <2>1. StartGeneration(generation + 1)
    BY <1>3 DEF ReconnectTimer
  <2>2. Eligible(environment', subscribed')
    BY <1>2, <1>3
  <2>. QED BY <1>1, <1>2, <2>1, <2>2, Started, InvAnew
<1>4. CASE ~(reconnect.timer = generation /\ Eligible(environment, subscribed))
  <2>1. UNCHANGED <<generation, currentRun, runs>>
    BY <1>4 DEF ReconnectTimer
  <2>2. currentRun # 0 => Eligible(environment', subscribed')
    BY <1>1, <1>2
  <2>. QED BY <1>1, <1>2, <2>1, <2>2, InvStays
<1>. QED BY <1>3, <1>4

\* The run fails; what it has done by then does not matter.
LEMMA RunFails ==
    ASSUME StreamInv, NEW all, AllFit(all, generation), FailRun(all),
           UNCHANGED <<kind, declared, subscribed, version, view>>
    PROVE  StreamInv' /\ ViewGrows
<1>1. RunsFit /\ ServersFit /\ declared \subseteq StreamKeys /\ subscribed \subseteq StreamKeys
  BY DEF StreamInv, RunsFit
<1>2. generation' = generation + 1 /\ currentRun' = 0 /\ runs' = TornDown(all)
  BY DEF FailRun
<1>3. /\ generation' \in Nat /\ currentRun' = 0 /\ currentRun' <= MaxStreamGenerations
      /\ AllFit(runs', generation')
  BY <1>1, <1>2, Advanced
<1>. QED BY <1>1, <1>3, InvAnew

LEMMA DisconnectedStep ==
    ASSUME StreamInv, NEW g, Disconnected(g)
    PROVE  StreamInv' /\ ViewGrows
<1>1. AllFit(runs, generation)
  BY DEF StreamInv, RunsFit
<1>2. FailRun(runs) /\ UNCHANGED <<kind, declared, subscribed, version, view>>
  BY DEF Disconnected
<1>. QED BY <1>1, <1>2, RunFails

LEMMA BaselineFailsStep ==
    ASSUME StreamInv, NEW g \in DOMAIN runs, NEW k, BaselineFails(g, k)
    PROVE  StreamInv' /\ ViewGrows
<1>1. AllFit(runs, generation)
  BY DEF StreamInv, RunsFit
<1>2. PICK all : all = [runs EXCEPT ![g].states[k].request = -1]
  OBVIOUS
<1>3. PICK x : x = [runs[g].states[k] EXCEPT !.request = -1]
  OBVIOUS
<1>4. Changes(runs, g, k, x, all)
  BY <1>2, <1>3 DEF Changes
<1>5. k \in DOMAIN runs[g].states /\ FailRun(all)
      /\ UNCHANGED <<kind, declared, subscribed, version, view>>
  BY <1>2 DEF BaselineFails
<1>6. AllFit(all, generation)
  BY <1>1, <1>4, <1>5, OneState
<1>. QED BY <1>5, <1>6, RunFails

\* What the app shows of one stream is replaced.
Shows(k, y) == view' = [view EXCEPT ![k] = y]

\* One stream of the current generation changes, with what is shown of it.
LEMMA StreamChanged ==
    ASSUME StreamInv, NEW g \in DOMAIN runs, currentRun = g, NEW k \in DOMAIN runs[g].states,
           NEW x, NEW y, Changes(runs, g, k, x, runs'), Shows(k, y),
           StateFits(kind[k], x, version[k], y), ViewFits(kind[k], version[k], y),
           kind[k] \in {"log", "sequenced"} => view[k] \subseteq y,
           UNCHANGED <<kind, version, generation, currentRun, declared, subscribed, environment>>
    PROVE  StreamInv' /\ ViewGrows
<1>1. RunsFit /\ ServersFit /\ CurrentFits /\ AllFit(runs, generation) /\ currentRun # 0
  <2>1. RunsFit /\ ServersFit /\ CurrentFits
    BY DEF StreamInv
  <2>2. DOMAIN runs = 1 .. MaxStreamGenerations
    BY <2>1 DEF RunsFit, AllFit
  <2>. QED BY <2>1, <2>2, StreamAssumption DEF RunsFit
<1>2. PICK next : next = runs'
  OBVIOUS
<1>3. Changes(runs, g, k, x, next)
  BY <1>2
<1>4. /\ AllFit(next, generation) /\ DOMAIN next = DOMAIN runs
      /\ next[g].phase = runs[g].phase /\ DOMAIN next[g].states = DOMAIN runs[g].states
      /\ next[g].states[k] = x
      /\ \A j \in DOMAIN runs[g].states : j # k => next[g].states[j] = runs[g].states[j]
  BY <1>1, <1>3, OneState
<1>5. /\ runs[g].phase \in {"connecting", "open"}
      /\ runs[g].phase = "connecting" => DOMAIN runs[g].states = {}
      /\ DOMAIN runs[g].states \subseteq StreamKeys
      /\ \A j \in DOMAIN runs[g].states : StateFits(kind[j], runs[g].states[j], version[j], view[j])
  BY <1>1 DEF CurrentFits
<1>6. /\ view \in [StreamKeys -> SUBSET Nat] /\ k \in StreamKeys /\ y \in SUBSET Nat
  BY <1>1, <1>5 DEF ServersFit, ViewFits
<1>7. /\ view' \in [StreamKeys -> SUBSET Nat] /\ view'[k] = y
      /\ \A j \in StreamKeys : j # k => view'[j] = view[j]
  BY <1>6 DEF Shows
<1>8. RunsFit'
  <2>1. AllFit(next, generation)'
    BY <1>2, <1>4 DEF AllFit, RunRecord, NoRun
  <2>2. AllFit(runs', generation')
    BY <1>2, <1>4
  <2>. QED BY <1>1, <2>2 DEF RunsFit, Eligible, AllFit, RunRecord, NoRun
<1>9. ServersFit'
  <2>1. kind' = kind /\ version' = version
    OBVIOUS
  <2>2. \A j \in StreamKeys : ViewFits(kind[j], version[j], view'[j])
    BY <1>1, <1>7 DEF ServersFit
  <2>. QED BY <1>1, <1>7, <2>1, <2>2 DEF ServersFit
<1>10. CurrentFits'
  <2>1. \A j \in DOMAIN next[g].states : StateFits(kind[j], next[g].states[j], version[j], view'[j])
    BY <1>4, <1>5, <1>7
  <2>2. runs' = next /\ currentRun' = g /\ kind' = kind /\ version' = version
    BY <1>2
  <2>. QED BY <1>4, <1>5, <2>1, <2>2 DEF CurrentFits
<1>11. ViewGrows
  BY <1>7 DEF ViewGrows
<1>. QED BY <1>8, <1>9, <1>10, <1>11 DEF StreamInv

\* What an older generation does changes nothing that is shown.
LEMMA OlderRun ==
    ASSUME StreamInv, NEW g \in DOMAIN runs, currentRun # g, NEW next, runs' = next,
           AllFit(next, generation), \A h \in DOMAIN runs : h # g => next[h] = runs[h],
           UNCHANGED <<kind, version, generation, currentRun, declared, subscribed, environment, view>>
    PROVE  StreamInv' /\ ViewGrows
<1>1. RunsFit /\ ServersFit /\ CurrentFits
  BY DEF StreamInv
<1>2. RunsFit'
  <2>1. AllFit(runs', generation')
    OBVIOUS
  <2>. QED BY <1>1, <2>1 DEF RunsFit, Eligible, AllFit, RunRecord, NoRun
<1>3. ServersFit'
  BY <1>1 DEF ServersFit
<1>4. CurrentFits'
  <2>1. ASSUME currentRun # 0 PROVE next[currentRun] = runs[currentRun]
    <3>1. generation \in Nat /\ currentRun \in DOMAIN runs
      BY <1>1, <2>1 DEF RunsFit, AllFit
    <3>. QED BY <3>1
  <2>2. kind' = kind /\ version' = version /\ view' = view /\ currentRun' = currentRun
    OBVIOUS
  <2>. QED BY <1>1, <2>1, <2>2 DEF CurrentFits
<1>5. ViewGrows
  BY DEF ViewGrows
<1>. QED BY <1>2, <1>3, <1>4, <1>5 DEF StreamInv

\* The generation that is wanted is the current one.
LEMMA Wanted ==
    ASSUME StreamInv, NEW g \in DOMAIN runs
    PROVE  IsCurrent(g) <=> currentRun = g
<1>1. DOMAIN runs = 1 .. MaxStreamGenerations
  BY DEF StreamInv, RunsFit, AllFit
<1>2. g # 0
  BY <1>1, StreamAssumption
<1>3. currentRun # 0 => Eligible(environment, subscribed)
  BY DEF StreamInv, RunsFit
<1>. QED BY <1>2, <1>3 DEF IsCurrent

\* A stream whose first baseline was asked for just now.
LEMMA FitsFresh ==
    ASSUME NEW kd, NEW v \in Nat, NEW w, ViewFits(kd, v, w)
    PROVE  StateFits(kd, [NoBaseline EXCEPT !.request = v, !.attempts = 1], v, w)
<1>0. \A i \in 1 .. Len(<<>>) : FALSE
  BY Nothing
<1>1. PICK empty : empty = <<>> /\ empty \in Seq(Nat) /\ Len(empty) = 0 /\ Rising(empty)
                   /\ \A i \in 1 .. Len(empty) : FALSE
  BY <1>0, Nothing
<1>2. PICK none : none = {}
  OBVIOUS
<1>3. none \in SUBSET Nat /\ \A m \in none : FALSE
  BY <1>2
<1>4. PICK s : s = [NoBaseline EXCEPT !.request = v, !.attempts = 1]
  OBVIOUS
<1>5. s = [last |-> -1, seen |-> none, buffer |-> empty, overflowed |-> FALSE,
           ready |-> FALSE, request |-> v, attempts |-> 1, based |-> FALSE,
           served |-> FALSE, sent |-> none, wire |-> empty]
  BY <1>1, <1>2, <1>4 DEF NoBaseline
<1>6. /\ s \in StateRow /\ s.buffer = empty /\ s.wire = empty /\ s.sent = none /\ s.seen = none
      /\ s.request = v /\ ~s.ready /\ ~s.served
  <2>1. v \in Int /\ 1 \in Nat /\ -1 \in Int
    OBVIOUS
  <2>. QED BY <1>1, <1>3, <1>5, <2>1 DEF StateRow
<1>7. StateTyped(s, v)
  <2>1. AtMost(empty, v)
    BY <1>1 DEF AtMost
  <2>2. v <= v /\ v >= -1 /\ v # -1
    OBVIOUS
  <2>. QED BY <1>1, <1>3, <1>6, <2>1, <2>2 DEF StateTyped
<1>8. kd = "sequenced" => SequenceFits(s, v, w)
  BY <1>6 DEF SequenceFits, ViewFits
<1>9. kd = "log" => LogFits(s, v, w)
  BY <1>1, <1>3, <1>6 DEF LogFits, ViewFits
<1>10. kd = "book" => BookFits(s, v, w)
  BY <1>1, <1>2, <1>6 DEF BookFits
<1>. QED BY <1>4, <1>7, <1>8, <1>9, <1>10 DEF StateFits

LEMMA ConnectedStep ==
    ASSUME StreamInv, NEW g \in DOMAIN runs, Connected(g)
    PROVE  StreamInv' /\ ViewGrows
<1>1. RunsFit /\ ServersFit /\ CurrentFits /\ AllFit(runs, generation)
  BY DEF StreamInv, RunsFit
<1>2. /\ runs[g].phase \in {"connecting", "abandoned"}
      /\ UNCHANGED <<kind, declared, subscribed, environment, generation, currentRun, version, view>>
  BY DEF Connected
<1>3. RunRecord(runs[g]) /\ ~(g > generation)
  <2>1. RunRecord(runs[g]) /\ (g > generation => runs[g] = NoRun)
    BY <1>1 DEF AllFit
  <2>. QED BY <1>2, <2>1 DEF NoRun
<1>4. CASE currentRun = g
  <2>1. PICK states : states = [k \in subscribed |->
                          [NoBaseline EXCEPT !.request = version[k], !.attempts = 1]]
    OBVIOUS
  <2>2. PICK r : r = [phase |-> "open", states |-> states]
    OBVIOUS
  <2>3. r.phase = "open" /\ r.states = states /\ DOMAIN states = subscribed
        /\ states = [k \in DOMAIN states |-> states[k]]
    BY <2>1, <2>2
  <2>4. RunRecord(r)
    BY <2>2, <2>3 DEF RunRecord
  <2>5. Replaces(runs, g, r, runs')
    BY <1>4, <2>1, <2>2, Wanted DEF Connected, Replaces
  <2>6. AllFit(runs', generation) /\ runs'[g] = r
    BY <1>1, <1>3, <2>4, <2>5, OneRun
  <2>7. \A k \in StreamKeys : version[k] \in Nat /\ ViewFits(kind[k], version[k], view[k])
    BY <1>1 DEF ServersFit
  <2>8. subscribed \subseteq StreamKeys
    BY <1>1 DEF RunsFit
  <2>9. \A k \in subscribed : StateFits(kind[k], states[k], version[k], view[k])
    <3>. SUFFICES ASSUME NEW k \in subscribed
                  PROVE  StateFits(kind[k], states[k], version[k], view[k])
      OBVIOUS
    <3>1. states[k] = [NoBaseline EXCEPT !.request = version[k], !.attempts = 1]
      BY <2>1
    <3>2. version[k] \in Nat /\ ViewFits(kind[k], version[k], view[k])
      BY <2>7, <2>8
    <3>3. StateFits(kind[k], [NoBaseline EXCEPT !.request = version[k], !.attempts = 1],
                    version[k], view[k])
      BY <3>2, FitsFresh
    <3>. QED BY <3>1, <3>3
  <2>10. RunsFit'
    <3>1. AllFit(runs', generation')
      BY <1>2, <2>6
    <3>. QED BY <1>1, <1>2, <3>1 DEF RunsFit, Eligible, AllFit, RunRecord, NoRun
  <2>11. ServersFit'
    BY <1>1, <1>2 DEF ServersFit
  <2>12. CurrentFits'
    <3>1. PICK next : next = runs'
      OBVIOUS
    <3>2. \A k \in DOMAIN next[g].states : StateFits(kind[k], next[g].states[k], version[k], view[k])
      BY <2>3, <2>6, <2>9, <3>1
    <3>3. kind' = kind /\ version' = version /\ view' = view /\ currentRun' = g /\ runs' = next
      BY <1>2, <1>4, <3>1
    <3>. QED BY <2>3, <2>6, <2>8, <3>2, <3>3 DEF CurrentFits
  <2>. QED BY <1>2, <2>10, <2>11, <2>12 DEF StreamInv, ViewGrows
<1>5. CASE currentRun # g
  <2>1. PICK r : r = [phase |-> "ended", states |-> runs[g].states]
    OBVIOUS
  <2>2. RunRecord(r)
    BY <1>3, <2>1 DEF RunRecord
  <2>3. Replaces(runs, g, r, runs')
    <3>1. [runs[g] EXCEPT !.phase = "ended"] = r
      BY <1>3, <2>1 DEF RunRecord
    <3>2. runs' = [runs EXCEPT ![g].phase = "ended"]
      BY <1>5, Wanted DEF Connected
    <3>3. runs' = [runs EXCEPT ![g] = [runs[g] EXCEPT !.phase = "ended"]]
      BY <3>2
    <3>. QED BY <3>1, <3>3 DEF Replaces
  <2>4. AllFit(runs', generation) /\ \A h \in DOMAIN runs : h # g => runs'[h] = runs[h]
    BY <1>1, <1>3, <2>2, <2>3, OneRun
  <2>. QED BY <1>2, <1>5, <2>4, OlderRun
<1>. QED BY <1>4, <1>5

\* What is known of a stream of the current generation.
LEMMA CurrentState ==
    ASSUME StreamInv, NEW g \in DOMAIN runs, currentRun = g, NEW k \in DOMAIN runs[g].states
    PROVE  /\ k \in StreamKeys /\ version[k] \in Nat /\ view[k] \in SUBSET Nat
           /\ ViewFits(kind[k], version[k], view[k])
           /\ StateFits(kind[k], runs[g].states[k], version[k], view[k])
           /\ runs[g].states[k] \in StateRow
           /\ runs[g].phase = "open"
<1>1. DOMAIN runs = 1 .. MaxStreamGenerations
  BY DEF StreamInv, RunsFit, AllFit
<1>2. currentRun # 0
  BY <1>1, StreamAssumption
<1>3. /\ runs[g].phase = "open" /\ k \in StreamKeys
      /\ StateFits(kind[k], runs[g].states[k], version[k], view[k])
  BY <1>2 DEF StreamInv, CurrentFits
<1>4. version[k] \in Nat /\ view[k] \in SUBSET Nat /\ ViewFits(kind[k], version[k], view[k])
  BY <1>3 DEF StreamInv, ServersFit
<1>. QED BY <1>3, <1>4 DEF StateFits, StateTyped

\* A stream of an older generation changes.
LEMMA OlderState ==
    ASSUME StreamInv, NEW g \in DOMAIN runs, currentRun # g, NEW k \in DOMAIN runs[g].states,
           NEW x, Changes(runs, g, k, x, runs'),
           UNCHANGED <<kind, version, generation, currentRun, declared, subscribed, environment, view>>
    PROVE  StreamInv' /\ ViewGrows
<1>1. AllFit(runs, generation)
  BY DEF StreamInv, RunsFit
<1>2. PICK next : next = runs'
  OBVIOUS
<1>3. AllFit(next, generation) /\ \A h \in DOMAIN runs : h # g => next[h] = runs[h]
  BY <1>1, <1>2, OneState
<1>. QED BY <1>2, <1>3, OlderRun

\* What is shown stays.
LEMMA ShowsStill ==
    ASSUME StreamInv, NEW k \in StreamKeys, view' = view
    PROVE  Shows(k, view[k])
<1>1. view \in [StreamKeys -> SUBSET Nat]
  BY DEF StreamInv, ServersFit
<1>2. view = [view EXCEPT ![k] = view[k]]
  BY <1>1
<1>. QED BY <1>2 DEF Shows

LEMMA ServerSubscribesStep ==
    ASSUME StreamInv, NEW g \in DOMAIN runs, NEW k \in DOMAIN runs[g].states, ServerSubscribes(g, k)
    PROVE  StreamInv' /\ ViewGrows
<1>1. PICK wire : wire = IF kind[k] \in {"book", "context"} THEN <<version[k]>> ELSE <<>>
  OBVIOUS
<1>2. PICK s : s = runs[g].states[k]
  OBVIOUS
<1>3. PICK x : x = [s EXCEPT !.served = TRUE, !.wire = wire]
  OBVIOUS
<1>4. ~s.served
      /\ UNCHANGED <<kind, version, generation, currentRun, declared, subscribed, environment, view>>
  BY <1>2 DEF ServerSubscribes
<1>5. Changes(runs, g, k, x, runs')
  <2>1. runs' = [runs EXCEPT ![g].states[k].served = TRUE, ![g].states[k].wire = wire]
    BY <1>1 DEF ServerSubscribes
  <2>2. runs' = [runs EXCEPT ![g].states[k] = [runs[g].states[k] EXCEPT !.served = TRUE, !.wire = wire]]
    BY <2>1
  <2>. QED BY <1>2, <1>3, <2>2 DEF Changes
<1>6. CASE currentRun = g
  <2>1. /\ k \in StreamKeys /\ version[k] \in Nat /\ ViewFits(kind[k], version[k], view[k])
        /\ StateFits(kind[k], s, version[k], view[k])
    BY <1>2, <1>6, CurrentState
  <2>2. StateFits(kind[k], x, version[k], view[k])
    <3>1. StateFits(kind[k], [s EXCEPT !.served = TRUE, !.wire = wire], version[k], view[k])
      BY <1>1, <1>4, <2>1, FitsServed
    <3>. QED BY <1>3, <3>1
  <2>3. Shows(k, view[k])
    BY <1>4, <2>1, ShowsStill
  <2>. QED BY <1>4, <1>5, <1>6, <2>1, <2>2, <2>3, StreamChanged
<1>7. CASE currentRun # g
  BY <1>4, <1>5, <1>7, OlderState
<1>. QED BY <1>6, <1>7

\* A stream whose server has made another event fits what is shown.
LEMMA ViewFitsMore ==
    ASSUME NEW kd, NEW v \in Nat, NEW w, ViewFits(kd, v, w)
    PROVE  ViewFits(kd, v + 1, w)
<1>1. 0 .. v \subseteq 0 .. v + 1 /\ 1 .. v \subseteq 1 .. v + 1
  OBVIOUS
<1>. QED BY <1>1 DEF ViewFits

\* A message is sent on the connection of a generation.
Sent(r, k, n, next) ==
    next = [r EXCEPT !.states[k].wire = Append(@, n), !.states[k].sent = @ \cup {n}]

Gets(s, n, x) == x = [s EXCEPT !.wire = Append(@, n), !.sent = @ \cup {n}]

LEMMA SentRecord ==
    ASSUME NEW r, RunRecord(r), NEW k \in DOMAIN r.states, NEW n, NEW next, Sent(r, k, n, next)
    PROVE  /\ RunRecord(next) /\ next.phase = r.phase /\ DOMAIN next.states = DOMAIN r.states
           /\ Gets(r.states[k], n, next.states[k])
           /\ \A j \in DOMAIN r.states : j # k => next.states[j] = r.states[j]
<1>1. PICK states : states = [r.states EXCEPT ![k] =
                                [r.states[k] EXCEPT !.wire = Append(@, n), !.sent = @ \cup {n}]]
  OBVIOUS
<1>2. /\ DOMAIN states = DOMAIN r.states /\ states = [j \in DOMAIN states |-> states[j]]
      /\ states[k] = [r.states[k] EXCEPT !.wire = Append(@, n), !.sent = @ \cup {n}]
      /\ \A j \in DOMAIN r.states : j # k => states[j] = r.states[j]
  BY <1>1 DEF RunRecord
<1>3. next = [phase |-> r.phase, states |-> states]
  BY <1>1 DEF RunRecord, Sent
<1>4. next.phase = r.phase /\ next.states = states
  BY <1>3
<1>5. RunRecord(next)
  BY <1>2, <1>3, <1>4 DEF RunRecord
<1>6. Gets(r.states[k], n, states[k])
  BY <1>2 DEF Gets
<1>. QED BY <1>2, <1>4, <1>5, <1>6

LEMMA ServerEventStep ==
    ASSUME StreamInv, NEW k \in StreamKeys, NEW missed \in BOOLEAN, ServerEvent(k, missed)
    PROVE  StreamInv' /\ ViewGrows
<1>1. RunsFit /\ ServersFit /\ CurrentFits /\ AllFit(runs, generation)
  BY DEF StreamInv, RunsFit
<1>2. PICK n : n = version[k] + 1
  OBVIOUS
<1>3. version[k] \in Nat /\ n \in Nat /\ version \in [StreamKeys -> Nat]
  BY <1>1, <1>2 DEF ServersFit
<1>4. /\ missed => kind[k] = "sequenced"
      /\ version' = [version EXCEPT ![k] = n]
      /\ UNCHANGED <<kind, declared, subscribed, environment, generation, currentRun, view>>
  BY <1>2 DEF ServerEvent
<1>5. /\ version' \in [StreamKeys -> Nat] /\ version'[k] = n
      /\ \A j \in StreamKeys : j # k => version'[j] = version[j]
  BY <1>3, <1>4
<1>6. PICK next : next = runs'
  OBVIOUS
<1>. DEFINE Sends(g) == /\ runs[g].phase = "open" /\ k \in DOMAIN runs[g].states
                        /\ runs[g].states[k].served /\ ~missed
<1>7. next = [g \in DOMAIN runs |->
                IF Sends(g)
                THEN [runs[g] EXCEPT !.states[k].wire = Append(@, n), !.states[k].sent = @ \cup {n}]
                ELSE runs[g]]
  BY <1>2, <1>6 DEF ServerEvent
<1>8. DOMAIN next = DOMAIN runs /\ next = [g \in DOMAIN next |-> next[g]]
  BY <1>7
<1>9. \A g \in DOMAIN runs : RunRecord(runs[g]) /\ (g > generation => runs[g] = NoRun)
  BY <1>1 DEF AllFit
<1>10. ASSUME NEW g \in DOMAIN runs, ~Sends(g) PROVE next[g] = runs[g]
  BY <1>7, <1>10
<1>11. ASSUME NEW g \in DOMAIN runs, Sends(g)
       PROVE  /\ RunRecord(next[g]) /\ next[g].phase = runs[g].phase
              /\ DOMAIN next[g].states = DOMAIN runs[g].states
              /\ Gets(runs[g].states[k], n, next[g].states[k])
              /\ \A j \in DOMAIN runs[g].states : j # k => next[g].states[j] = runs[g].states[j]
  <2>1. Sent(runs[g], k, n, next[g])
    BY <1>7, <1>11 DEF Sent
  <2>2. RunRecord(runs[g]) /\ k \in DOMAIN runs[g].states
    BY <1>9, <1>11
  <2>. HIDE DEF Sends
  <2>3. PICK r, made : r = runs[g] /\ made = next[g]
    OBVIOUS
  <2>4. RunRecord(r) /\ k \in DOMAIN r.states /\ Sent(r, k, n, made)
    BY <2>1, <2>2, <2>3
  <2>5. /\ RunRecord(made) /\ made.phase = r.phase /\ DOMAIN made.states = DOMAIN r.states
        /\ Gets(r.states[k], n, made.states[k])
        /\ \A j \in DOMAIN r.states : j # k => made.states[j] = r.states[j]
    BY <2>4, SentRecord
  <2>. QED BY <2>3, <2>5
<1>12. AllFit(next, generation)
  <2>1. ASSUME NEW g \in DOMAIN runs PROVE RunRecord(next[g]) /\ (g > generation => next[g] = NoRun)
    <3>1. CASE Sends(g)
      <4>1. DOMAIN NoRun.states = {}
        BY DEF NoRun
      <4>2. ~(g > generation)
        BY <1>9, <3>1, <4>1
      <4>. QED BY <1>11, <3>1, <4>2
    <3>2. CASE ~Sends(g)
      BY <1>9, <1>10, <3>2
    <3>. QED BY <3>1, <3>2
  <2>2. DOMAIN next = 1 .. MaxStreamGenerations
    BY <1>1, <1>8 DEF AllFit
  <2>. QED BY <1>8, <2>1, <2>2 DEF AllFit
<1>13. RunsFit'
  <2>1. AllFit(runs', generation')
    BY <1>4, <1>6, <1>12
  <2>. QED BY <1>1, <1>4, <2>1 DEF RunsFit, Eligible, AllFit, RunRecord, NoRun
<1>14. ServersFit'
  <2>1. \A j \in StreamKeys : ViewFits(kind[j], version'[j], view[j])
    <3>. SUFFICES ASSUME NEW j \in StreamKeys PROVE ViewFits(kind[j], version'[j], view[j])
      OBVIOUS
    <3>1. ViewFits(kind[j], version[j], view[j])
      BY <1>1 DEF ServersFit
    <3>2. ViewFits(kind[k], version[k], view[k])
      BY <1>1 DEF ServersFit
    <3>3. ViewFits(kind[k], n, view[k])
      BY <1>2, <1>3, <3>2, ViewFitsMore
    <3>. QED BY <1>5, <3>1, <3>3
  <2>. QED BY <1>1, <1>4, <1>5, <2>1 DEF ServersFit
<1>15. CurrentFits'
  <2>1. CASE currentRun = 0
    BY <1>4, <2>1 DEF CurrentFits
  <2>2. CASE currentRun # 0
    <3>1. PICK g : g = currentRun
      OBVIOUS
    <3>2. g \in DOMAIN runs
      BY <1>1, <2>2, <3>1, StreamAssumption DEF RunsFit, AllFit
    <3>3. /\ next[g].phase = runs[g].phase /\ DOMAIN next[g].states = DOMAIN runs[g].states
      BY <1>10, <1>11, <3>2
    <3>4. /\ runs[g].phase \in {"connecting", "open"}
          /\ runs[g].phase = "connecting" => DOMAIN runs[g].states = {}
          /\ DOMAIN runs[g].states \subseteq StreamKeys
      BY <1>1, <2>2, <3>1 DEF CurrentFits
    <3>5. ASSUME NEW j \in DOMAIN runs[g].states
          PROVE  StateFits(kind[j], next[g].states[j], version'[j], view[j])
      <4>1. PICK s : s = runs[g].states[j]
        OBVIOUS
      <4>2. j \in StreamKeys /\ StateFits(kind[j], s, version[j], view[j]) /\ runs[g].phase = "open"
        BY <3>1, <3>2, <4>1, CurrentState
      <4>3. CASE j # k
        <5>1. next[g].states[j] = s /\ version'[j] = version[j]
          BY <1>5, <1>10, <1>11, <3>2, <4>1, <4>2, <4>3
        <5>. QED BY <4>2, <5>1
      <4>4. CASE j = k /\ Sends(g)
        <5>1. s.served /\ version'[j] = n /\ version[k] \in Nat
              /\ Gets(s, n, next[g].states[j])
          BY <1>3, <1>5, <1>11, <3>2, <4>1, <4>4
        <5>2. StateFits(kind[k], s, version[k], view[k])
          BY <4>2, <4>4
        <5>. HIDE DEF Sends
        <5>3. StateFits(kind[k], [s EXCEPT !.wire = Append(@, version[k] + 1),
                                           !.sent = @ \cup {version[k] + 1}],
                        version[k] + 1, view[k])
          BY <5>1, <5>2, FitsSent
        <5>. QED BY <1>2, <4>4, <5>1, <5>3 DEF Gets
      <4>5. CASE j = k /\ ~Sends(g)
        <5>1. next[g].states[j] = s /\ version'[j] = n /\ version[k] \in Nat
          BY <1>3, <1>5, <1>10, <3>2, <4>1, <4>5
        <5>2. s.served => kind[k] = "sequenced"
          BY <1>4, <4>1, <4>2, <4>5
        <5>3. StateFits(kind[k], s, version[k] + 1, view[k])
          BY <4>2, <4>5, <5>1, <5>2, FitsMore
        <5>. QED BY <1>2, <4>5, <5>1, <5>3
      <4>. QED BY <4>3, <4>4, <4>5
    <3>6. PICK version_ : version_ = version'
      OBVIOUS
    <3>7. \A j \in DOMAIN next[g].states : StateFits(kind[j], next[g].states[j], version_[j], view[j])
      BY <3>3, <3>5, <3>6
    <3>8. kind' = kind /\ version' = version_ /\ view' = view /\ currentRun' = g /\ runs' = next
      BY <1>4, <1>6, <3>1, <3>6
    <3>. QED BY <3>3, <3>4, <3>7, <3>8 DEF CurrentFits
  <2>. QED BY <2>1, <2>2
<1>. QED BY <1>4, <1>13, <1>14, <1>15 DEF StreamInv, ViewGrows

LEMMA HandleMessageStep ==
    ASSUME StreamInv, NEW g \in DOMAIN runs, NEW k \in DOMAIN runs[g].states, HandleMessage(g, k)
    PROVE  StreamInv' /\ ViewGrows
<1>1. /\ currentRun = g
      /\ UNCHANGED <<kind, version, generation, currentRun, declared, subscribed, environment>>
  BY Wanted DEF HandleMessage
<1>2. PICK s : s = runs[g].states[k]
  OBVIOUS
<1>3. /\ k \in StreamKeys /\ version[k] \in Nat /\ ViewFits(kind[k], version[k], view[k])
      /\ StateFits(kind[k], s, version[k], view[k]) /\ s \in StateRow
  BY <1>1, <1>2, CurrentState
<1>4. s.wire # <<>>
  BY <1>2 DEF HandleMessage
<1>5. PICK n : n = Head(s.wire)
  OBVIOUS
<1>6. PICK t : t = [s EXCEPT !.wire = Tail(@)]
  OBVIOUS
<1>7. Took(s, t)
  BY <1>6 DEF Took
<1>8. t.ready <=> s.ready
  BY <1>3, <1>4, <1>7, Taken
<1>9. PICK verdict : verdict = IF t.ready THEN Verdict(k, t, n) ELSE "buffered"
  OBVIOUS
<1>10. PICK x : x = CASE verdict = "buffered" -> BufferMessage(t, n)
                      [] verdict = "gap" -> Requesting(k, BufferMessage(t, n), 1)
                      [] verdict = "ignored" -> t
                      [] verdict = "applied" -> AfterDelta(k, t, n)
  OBVIOUS
<1>11. /\ Changes(runs, g, k, x, runs')
       /\ view' = IF verdict = "applied" THEN [view EXCEPT ![k] = Applied(k, @, n)] ELSE view
  BY <1>2, <1>5, <1>6, <1>9, <1>10 DEF HandleMessage, Changes
<1>12. PICK y : y = IF verdict = "applied" THEN Applied(k, view[k], n) ELSE view[k]
  OBVIOUS
<1>13. Shows(k, y)
  <2>1. CASE verdict = "applied"
    BY <1>11, <1>12, <2>1 DEF Shows
  <2>2. CASE verdict # "applied"
    BY <1>3, <1>11, <1>12, <2>2, ShowsStill
  <2>. QED BY <2>1, <2>2
<1>14. /\ StateFits(kind[k], x, version[k], y) /\ ViewFits(kind[k], version[k], y)
       /\ kind[k] \in {"log", "sequenced"} => view[k] \subseteq y
  <2>1. CASE ~s.ready
    <3>1. verdict = "buffered"
      BY <1>8, <1>9, <2>1
    <3>2. x = BufferMessage(t, n) /\ y = view[k]
      BY <1>10, <1>12, <3>1
    <3>3. StateFits(kind[k], BufferMessage([s EXCEPT !.wire = Tail(@)], Head(s.wire)),
                    version[k], view[k])
      BY <1>3, <1>4, <2>1, FitsBuffered
    <3>. QED BY <1>3, <1>5, <1>6, <3>2, <3>3
  <2>2. CASE s.ready
    <3>1. verdict = Verdict(k, t, n) /\ verdict \in {"ignored", "applied", "gap"}
      BY <1>8, <1>9, <2>2, Verdicts
    <3>2. CASE verdict = "ignored"
      <4>1. x = t /\ y = view[k]
        BY <1>10, <1>12, <3>2
      <4>2. StateFits(kind[k], t, version[k], view[k])
        BY <1>3, <1>4, <1>5, <1>7, <2>2, <3>1, <3>2, FitsIgnored
      <4>. QED BY <1>3, <4>1, <4>2
    <3>3. CASE verdict = "applied"
      <4>1. PICK r : r = AfterDelta(k, t, Head(s.wire))
        OBVIOUS
      <4>2. PICK w : w = Applied(k, view[k], Head(s.wire))
        OBVIOUS
      <4>3. x = r /\ y = w /\ Verdict(k, t, Head(s.wire)) = "applied"
        BY <1>5, <1>10, <1>12, <3>1, <3>3, <4>1, <4>2
      <4>4. /\ StateFits(kind[k], r, version[k], w) /\ ViewFits(kind[k], version[k], w)
            /\ kind[k] \in {"log", "sequenced"} => view[k] \subseteq w
        BY <1>3, <1>4, <1>7, <2>2, <4>1, <4>2, <4>3, FitsApplied
      <4>. QED BY <4>3, <4>4
    <3>4. CASE verdict = "gap"
      <4>1. x = Requesting(k, BufferMessage(t, Head(s.wire)), 1) /\ y = view[k]
            /\ Verdict(k, t, Head(s.wire)) = "gap"
        BY <1>5, <1>10, <1>12, <3>1, <3>4
      <4>2. StateFits(kind[k], Requesting(k, BufferMessage(t, Head(s.wire)), 1), version[k], view[k])
        BY <1>3, <1>4, <1>7, <2>2, <4>1, FitsGap
      <4>. QED BY <1>3, <4>1, <4>2
    <3>. QED BY <3>1, <3>2, <3>3, <3>4
  <2>. QED BY <2>1, <2>2
<1>15. Changes(runs, g, k, x, runs')
  BY <1>11
<1>. QED BY <1>1, <1>13, <1>14, <1>15, StreamChanged

\* What is shown of one stream is replaced by no less.
LEMMA ViewReplaced ==
    ASSUME ServersFit, NEW k \in StreamKeys, NEW y, Shows(k, y), ViewFits(kind[k], version[k], y),
           kind[k] \in {"log", "sequenced"} => view[k] \subseteq y, UNCHANGED <<kind, version>>
    PROVE  ServersFit' /\ ViewGrows
<1>1. view \in [StreamKeys -> SUBSET Nat] /\ y \in SUBSET Nat
  BY DEF ServersFit, ViewFits
<1>2. /\ view' \in [StreamKeys -> SUBSET Nat] /\ view'[k] = y
      /\ \A j \in StreamKeys : j # k => view'[j] = view[j]
  BY <1>1 DEF Shows
<1>3. \A j \in StreamKeys : ViewFits(kind[j], version[j], view'[j])
  BY <1>2 DEF ServersFit
<1>4. kind' = kind /\ version' = version
  OBVIOUS
<1>5. ServersFit'
  BY <1>2, <1>3, <1>4 DEF ServersFit
<1>6. ViewGrows
  BY <1>2 DEF ViewGrows
<1>. QED BY <1>5, <1>6

\* A baseline shows no less than what was shown when it was asked for.
LEMMA BaselineGrows ==
    ASSUME NEW kd, NEW v, NEW w, NEW s, StateFits(kd, s, v, w), s.request # -1,
           kd \in {"log", "sequenced"}, NEW n \in Nat, s.request <= n
    PROVE  w \subseteq 1 .. n
<1>1. s \in StateRow /\ ~s.ready
  BY DEF StateFits, StateTyped
<1>2. s.request \in Int /\ w \subseteq 1 .. s.request
  BY <1>1, StateParts DEF StateFits, SequenceFits, LogFits
<1>3. 1 .. s.request \subseteq 1 .. n
  BY <1>2
<1>. QED BY <1>2, <1>3

LEMMA BaselineLoadedStep ==
    ASSUME StreamInv, NEW g \in DOMAIN runs, NEW k \in DOMAIN runs[g].states, NEW n,
           BaselineLoaded(g, k, n)
    PROVE  StreamInv' /\ ViewGrows
<1>1. UNCHANGED <<kind, version, declared, subscribed, environment>>
  BY DEF BaselineLoaded
<1>2. BaselineWanted(g) <=> currentRun = g
  BY Wanted DEF BaselineWanted
<1>3. PICK s : s = runs[g].states[k]
  OBVIOUS
<1>4. CASE currentRun # g
  <2>1. /\ runs' = [runs EXCEPT ![g].states[k] = NoBaseline]
        /\ UNCHANGED <<generation, currentRun, view>>
    BY <1>2, <1>4 DEF BaselineLoaded
  <2>2. Changes(runs, g, k, NoBaseline, runs')
    BY <2>1 DEF Changes
  <2>. QED BY <1>1, <1>4, <2>1, <2>2, OlderState
<1>5. CASE currentRun = g
  <2>1. /\ k \in StreamKeys /\ version[k] \in Nat /\ ViewFits(kind[k], version[k], view[k])
        /\ StateFits(kind[k], s, version[k], view[k]) /\ s \in StateRow
    BY <1>3, <1>5, CurrentState
  <2>2. s.request # -1 /\ n \in (IF kind[k] = "context" THEN 0 ELSE s.request) .. version[k]
    BY <1>3 DEF BaselineLoaded
  <2>3. s.request \in Int /\ s.request >= 0 /\ ~s.ready /\ s.attempts \in Nat
    BY <2>1, <2>2, StateParts DEF StateFits, StateTyped
  <2>4. n \in Nat /\ n <= version[k] /\ (kind[k] # "context" => s.request <= n)
    BY <2>1, <2>2, <2>3
  <2>5. PICK based : based = [s EXCEPT !.last = n, !.seen = {}, !.request = -1]
    OBVIOUS
  <2>6. Rebased(s, n, based)
    BY <2>5 DEF Rebased
  <2>7. PICK t : t = [based EXCEPT !.ready = TRUE]
    OBVIOUS
  <2>8. PICK u : u = [based EXCEPT !.buffer = <<>>, !.overflowed = FALSE]
    OBVIOUS
  <2>9. /\ Based(s, n, t) /\ t.buffer = s.buffer /\ t.ready
        /\ Based(s, n, u) /\ u.buffer = <<>>
    <3>1. /\ Based(s, n, [based EXCEPT !.ready = TRUE])
          /\ Based(s, n, [based EXCEPT !.buffer = <<>>, !.overflowed = FALSE])
          /\ [based EXCEPT !.ready = TRUE].buffer = s.buffer
          /\ [based EXCEPT !.ready = TRUE].ready
          /\ [based EXCEPT !.buffer = <<>>, !.overflowed = FALSE].buffer = <<>>
      BY <2>1, <2>4, <2>6, BaselineTaken
    <3>. QED BY <2>7, <2>8, <3>1
  <2>10. PICK base : base = AppliedBaseline(k, n)
    OBVIOUS
  <2>11. /\ ViewFits(kind[k], version[k], base)
         /\ kind[k] \in {"sequenced", "log"} => base = 1 .. n
         /\ kind[k] = "book" => base = {n}
    <3>1. /\ ViewFits(kind[k], version[k], AppliedBaseline(k, n))
          /\ kind[k] \in {"sequenced", "log"} => AppliedBaseline(k, n) = 1 .. n
          /\ kind[k] = "book" => AppliedBaseline(k, n) = {n}
      BY <2>1, <2>4, BaselineShown
    <3>. QED BY <2>10, <3>1
  <2>12. kind[k] \in {"log", "sequenced"} => view[k] \subseteq base
    <3>1. kind[k] \in {"log", "sequenced"} => kind[k] # "context"
      OBVIOUS
    <3>. QED BY <2>1, <2>2, <2>4, <2>11, <3>1, BaselineGrows
  <2>13. Replayable(kind[k], t, base, version[k])
    BY <2>1, <2>4, <2>9, <2>10, BufferReplayable
  <2>14. PICK acc : acc = Replay(k, t, base)
    OBVIOUS
  <2>15. Replaying(kind[k], t, base, version[k], acc, Len(t.buffer))
    BY <2>9, <2>13, <2>14, Replayed
  <2>16. /\ ViewFits(kind[k], version[k], acc.shown)
         /\ kind[k] \in {"log", "sequenced"} => base \subseteq acc.shown
    <3>1. kind[k] = "log" => \A i \in 1 .. Len(t.buffer) : t.buffer[i] >= 1
      BY <2>1, <2>9 DEF StateFits, LogFits
    <3>. QED BY <2>11, <2>13, <2>15, <3>1, ReplayShown
  <2>17. kind[k] \in {"log", "sequenced"} => view[k] \subseteq acc.shown
    BY <2>12, <2>16
  <2>18. acc.state \in StateRow /\ acc.gap \in BOOLEAN
    BY <2>15 DEF Replaying
  <2>19. CASE s.overflowed
    <3>1. PICK x : x = Requesting(k, u, s.attempts + 1)
      OBVIOUS
    <3>2. /\ runs' = [runs EXCEPT ![g].states[k] = x] /\ view' = [view EXCEPT ![k] = base]
          /\ UNCHANGED <<generation, currentRun>>
      BY <1>2, <1>3, <1>5, <2>5, <2>8, <2>10, <2>19, <3>1 DEF BaselineLoaded
    <3>3. Changes(runs, g, k, x, runs') /\ Shows(k, base)
      BY <3>2 DEF Changes, Shows
    <3>4. s.attempts + 1 \in Nat
      BY <2>3
    <3>5. StateFits(kind[k], Requesting(k, u, s.attempts + 1), version[k], base)
      BY <2>1, <2>9, <2>11, <3>4, FitsOverflow
    <3>6. StateFits(kind[k], x, version[k], base)
      BY <3>1, <3>5
    <3>7. UNCHANGED <<generation, currentRun>>
      BY <3>2
    <3>. QED BY <1>1, <1>5, <2>11, <2>12, <3>3, <3>6, <3>7, StreamChanged
  <2>20. CASE ~s.overflowed /\ acc.gap
    <3>1. view' = [view EXCEPT ![k] = acc.shown]
      BY <1>2, <1>3, <1>5, <2>5, <2>7, <2>10, <2>14, <2>20 DEF BaselineLoaded
    <3>2. Shows(k, acc.shown)
      BY <3>1 DEF Shows
    <3>3. CASE s.attempts >= MaxResyncAttempts
      <4>1. PICK all : all = [runs EXCEPT ![g].states[k] = acc.state]
        OBVIOUS
      <4>2. Changes(runs, g, k, acc.state, all)
        BY <4>1 DEF Changes
      <4>3. FailRun(all)
        BY <1>2, <1>3, <1>5, <2>5, <2>7, <2>10, <2>14, <2>20, <3>3, <4>1 DEF BaselineLoaded
      <4>4. RunsFit /\ ServersFit /\ AllFit(runs, generation)
        BY DEF StreamInv, RunsFit
      <4>5. AllFit(all, generation)
        BY <4>2, <4>4, OneState
      <4>6. generation' = generation + 1 /\ currentRun' = 0 /\ runs' = TornDown(all)
        BY <4>3 DEF FailRun
      <4>7. /\ generation' \in Nat /\ currentRun' = 0 /\ currentRun' <= MaxStreamGenerations
            /\ AllFit(runs', generation')
        BY <4>4, <4>5, <4>6, Advanced
      <4>8. ServersFit' /\ ViewGrows
        BY <1>1, <2>1, <2>16, <2>17, <3>2, <4>4, ViewReplaced
      <4>9. RunsFit'
        BY <1>1, <4>4, <4>7 DEF RunsFit, AllFit, RunRecord, NoRun, Eligible
      <4>10. CurrentFits'
        BY <4>7 DEF CurrentFits
      <4>. QED BY <4>8, <4>9, <4>10 DEF StreamInv
    <3>4. CASE ~(s.attempts >= MaxResyncAttempts)
      <4>1. PICK x : x = Requesting(k, acc.state, s.attempts + 1)
        OBVIOUS
      <4>2. /\ runs' = [runs EXCEPT ![g].states[k] = x] /\ UNCHANGED <<generation, currentRun>>
        BY <1>2, <1>3, <1>5, <2>5, <2>7, <2>10, <2>14, <2>20, <3>4, <4>1 DEF BaselineLoaded
      <4>3. Changes(runs, g, k, x, runs')
        BY <4>2 DEF Changes
      <4>4. s.attempts + 1 \in Nat
        BY <2>3
      <4>5. StateFits(kind[k], Requesting(k, acc.state, s.attempts + 1), version[k], acc.shown)
        BY <2>1, <2>9, <2>15, <2>16, <2>20, <4>4, FitsStillGap
      <4>6. StateFits(kind[k], x, version[k], acc.shown)
        BY <4>1, <4>5
      <4>7. UNCHANGED <<generation, currentRun>>
        BY <4>2
      <4>. QED BY <1>1, <1>5, <2>16, <2>17, <3>2, <4>3, <4>6, <4>7, StreamChanged
    <3>. QED BY <3>3, <3>4
  <2>21. CASE ~s.overflowed /\ ~acc.gap
    <3>1. PICK x : x = [acc.state EXCEPT !.based = TRUE]
      OBVIOUS
    <3>2. /\ runs' = [runs EXCEPT ![g].states[k] = x] /\ view' = [view EXCEPT ![k] = acc.shown]
          /\ UNCHANGED <<generation, currentRun>>
      BY <1>2, <1>3, <1>5, <2>5, <2>7, <2>10, <2>14, <2>21, <3>1 DEF BaselineLoaded
    <3>3. Changes(runs, g, k, x, runs') /\ Shows(k, acc.shown)
      BY <3>2 DEF Changes, Shows
    <3>4. /\ x \in StateRow /\ x.last = acc.state.last /\ x.seen = acc.state.seen
          /\ x.buffer = acc.state.buffer /\ (x.ready <=> acc.state.ready)
          /\ x.request = acc.state.request /\ (x.served <=> acc.state.served)
          /\ x.sent = acc.state.sent /\ x.wire = acc.state.wire
      BY <2>18, <3>1 DEF StateRow
    <3>5. StateFits(kind[k], x, version[k], acc.shown)
      BY <2>1, <2>3, <2>4, <2>9, <2>11, <2>15, <2>21, <3>4, FitsLive
    <3>6. UNCHANGED <<generation, currentRun>>
      BY <3>2
    <3>. QED BY <1>1, <1>5, <2>16, <2>17, <3>3, <3>5, <3>6, StreamChanged
  <2>22. s.overflowed \in BOOLEAN
    BY <2>1, StateParts
  <2>. QED BY <2>18, <2>19, <2>20, <2>21, <2>22
<1>. QED BY <1>4, <1>5

LEMMA InitStreamInv == StreamInit => StreamInv
<1>. SUFFICES ASSUME StreamInit PROVE StreamInv
  OBVIOUS
<1>1. /\ kind \in [StreamKeys -> Kinds] /\ declared = {} /\ subscribed = {}
      /\ generation = 0 /\ currentRun = 0 /\ runs = [g \in 1 .. MaxStreamGenerations |-> NoRun]
      /\ version = [k \in StreamKeys |-> 0] /\ view = [k \in StreamKeys |-> {}]
  BY DEF StreamInit
<1>2. RunRecord(NoRun)
  BY DEF RunRecord, NoRun
<1>3. AllFit(runs, generation)
  BY <1>1, <1>2 DEF AllFit
<1>4. RunsFit
  BY <1>1, <1>3, StreamAssumption DEF RunsFit
<1>5. ViewFits("sequenced", 0, {}) /\ \A kd : ViewFits(kd, 0, {})
  <2>1. 1 .. 0 = {} /\ 0 \in 0 .. 0
    OBVIOUS
  <2>. QED BY <2>1 DEF ViewFits
<1>6. ServersFit
  <2>1. \A k \in StreamKeys : version[k] = 0 /\ view[k] = {}
    BY <1>1
  <2>2. version \in [StreamKeys -> Nat] /\ view \in [StreamKeys -> SUBSET Nat]
    BY <1>1
  <2>. QED BY <1>1, <1>5, <2>1, <2>2 DEF ServersFit
<1>7. CurrentFits
  BY <1>1 DEF CurrentFits
<1>. QED BY <1>4, <1>6, <1>7 DEF StreamInv

LEMMA StreamStep == StreamInv /\ [StreamNext]_streamVars => StreamInv' /\ ViewGrows
<1>. SUFFICES ASSUME StreamInv, [StreamNext]_streamVars PROVE StreamInv' /\ ViewGrows
  OBVIOUS
<1>1. CASE \E k \in StreamKeys : Declare(k) \/ \E missed \in BOOLEAN : ServerEvent(k, missed)
  BY <1>1, DeclareStep, ServerEventStep
<1>2. CASE Synchronize
  BY <1>2, SynchronizeStep
<1>3. CASE \E env \in Environments : SetEnvironment(env)
  BY <1>3, SetEnvironmentStep
<1>4. CASE ReconnectTimer
  BY <1>4, TimerStep
<1>5. CASE \E g \in DOMAIN runs : Connected(g) \/ Disconnected(g)
  BY <1>5, ConnectedStep, DisconnectedStep
<1>6. CASE \E g \in DOMAIN runs : \E k \in DOMAIN runs[g].states :
             ServerSubscribes(g, k) \/ HandleMessage(g, k) \/ BaselineFails(g, k)
  BY <1>6, ServerSubscribesStep, HandleMessageStep, BaselineFailsStep
<1>7. CASE \E g \in DOMAIN runs : \E k \in DOMAIN runs[g].states :
             \E n \in 0 .. MaxEvents : BaselineLoaded(g, k, n)
  BY <1>7, BaselineLoadedStep
<1>8. CASE UNCHANGED streamVars
  <2>1. /\ UNCHANGED <<kind, version, view, generation, runs, currentRun>>
        /\ declared' = declared /\ subscribed' = subscribed /\ environment' = environment
    BY <1>8 DEF streamVars
  <2>2. /\ declared \subseteq StreamKeys /\ subscribed \subseteq StreamKeys
        /\ (currentRun # 0 => Eligible(environment, subscribed))
    BY DEF StreamInv, RunsFit
  <2>. QED BY <2>1, <2>2, InvStays
<1>. QED BY <1>1, <1>2, <1>3, <1>4, <1>5, <1>6, <1>7, <1>8 DEF StreamNext

\* A live stream that is caught up has lost nothing it was sent.
LEMMA CaughtUpFits == StreamInv => NothingMissed
<1>. SUFFICES ASSUME StreamInv, NEW k \in StreamKeys, CaughtUp(k)
              PROVE  CASE kind[k] = "sequenced" -> view[k] = 1 .. Cardinality(view[k])
                       [] kind[k] = "log" -> runs[currentRun].states[k].sent \subseteq view[k]
                       [] kind[k] = "book" -> view[k] = {version[k]}
                       [] OTHER -> TRUE
  BY DEF NothingMissed
<1>1. PICK s : s = runs[currentRun].states[k]
  OBVIOUS
<1>2. currentRun # 0 /\ k \in DOMAIN runs[currentRun].states
      /\ s.ready /\ s.served /\ s.wire = <<>>
  BY <1>1 DEF CaughtUp
<1>3. StateFits(kind[k], s, version[k], view[k])
  BY <1>1, <1>2 DEF StreamInv, CurrentFits
<1>4. CASE kind[k] = "sequenced"
  <2>1. s \in StateRow /\ s.last >= 0 /\ view[k] = 1 .. s.last
    BY <1>2, <1>3, <1>4 DEF StateFits, StateTyped, SequenceFits
  <2>2. PICK last \in Int : last = s.last
    BY <2>1, StateParts
  <2>3. Cardinality(1 .. last) = last
    <3>1. Cardinality(1 .. last) = IF 1 > last THEN 0 ELSE last - 1 + 1
      BY FS_Interval
    <3>. QED BY <2>1, <2>2, <3>1
  <2>. QED BY <1>4, <2>1, <2>2, <2>3
<1>5. CASE kind[k] = "log"
  <2>1. LogFits(s, version[k], view[k])
    BY <1>3, <1>5 DEF StateFits
  <2>2. \A m : ~Among(m, s.wire)
    BY <1>2, Nothing DEF Among
  <2>. QED BY <1>1, <1>2, <1>5, <2>1, <2>2 DEF LogFits
<1>6. CASE kind[k] = "book"
  BY <1>2, <1>3, <1>6 DEF StateFits, BookFits
<1>. QED BY <1>4, <1>5, <1>6

\* However messages, baselines, overflows and gaps interleave, and whatever older
\* generations still do: a live stream of the app that is caught up shows no gap,
\* every message it was sent, and the latest whole state (manager.ts).
THEOREM StreamsMissNothing == StreamSpec => []NothingMissed
<1>1. StreamInv /\ [StreamNext]_streamVars => StreamInv'
  BY StreamStep
<1>2. StreamSpec => []StreamInv
  BY <1>1, InitStreamInv, PTL DEF StreamSpec
<1>. QED BY <1>2, CaughtUpFits, PTL

\* No step takes back what a log or a numbered stream shows: neither a baseline
\* that was asked for before later messages, nor an older generation (manager.ts).
THEOREM StreamViewsGrow == StreamSpec => ViewOnlyGrows
<1>1. StreamInv /\ [StreamNext]_streamVars => StreamInv' /\ ViewGrows
  BY StreamStep
<1>2. StreamInv /\ [StreamNext]_streamVars => StreamInv'
  BY <1>1
<1>3. StreamInv /\ [StreamNext]_streamVars => [ViewGrows]_streamVars
  BY <1>1
<1>4. StreamSpec => []StreamInv
  BY <1>2, InitStreamInv, PTL DEF StreamSpec
<1>. QED BY <1>3, <1>4, PTL DEF StreamSpec, ViewOnlyGrows

-----------------------------------------------------------------------------
(* Market lists *)

\* How many of a set of markets come before one of them.
Place(markets, volume, x) == Cardinality({y \in markets : SummaryBefore(volume, y, x)})

\* Markets with a volume each.
Volumed(markets, volume) ==
    markets \subseteq Int /\ IsFiniteSet(markets) /\ \A x \in markets : volume[x] \in Int

\* The service's order is a strict and total one.
LEMMA SummaryOrder ==
    ASSUME NEW markets, NEW volume, Volumed(markets, volume)
    PROVE  /\ \A a \in markets : ~SummaryBefore(volume, a, a)
           /\ \A a, b \in markets :
                 a # b => SummaryBefore(volume, a, b) \/ SummaryBefore(volume, b, a)
           /\ \A a, b, c \in markets :
                 SummaryBefore(volume, a, b) /\ SummaryBefore(volume, b, c)
                    => SummaryBefore(volume, a, c)
<1>1. ASSUME NEW a \in markets
      PROVE  a \in Int /\ volume[a] \in Int
  BY DEF Volumed
<1>2. ASSUME NEW a \in markets PROVE ~SummaryBefore(volume, a, a)
  <2>. a \in Int /\ volume[a] \in Int
    BY <1>1
  <2>. QED BY DEF SummaryBefore
<1>3. ASSUME NEW a \in markets, NEW b \in markets, a # b
      PROVE  SummaryBefore(volume, a, b) \/ SummaryBefore(volume, b, a)
  <2>. a \in Int /\ volume[a] \in Int /\ b \in Int /\ volume[b] \in Int
    BY <1>1
  <2>. QED BY <1>3 DEF SummaryBefore
<1>4. ASSUME NEW a \in markets, NEW b \in markets, NEW c \in markets,
             SummaryBefore(volume, a, b), SummaryBefore(volume, b, c)
      PROVE  SummaryBefore(volume, a, c)
  <2>. /\ a \in Int /\ volume[a] \in Int /\ b \in Int /\ volume[b] \in Int
       /\ c \in Int /\ volume[c] \in Int
    BY <1>1
  <2>. QED BY <1>4 DEF SummaryBefore
<1>. QED BY <1>2, <1>3, <1>4

\* In a finite set of markets every market has a place of its own, and every
\* place is taken.
LEMMA Places ==
    ASSUME NEW markets, NEW volume, Volumed(markets, volume)
    PROVE  /\ Cardinality(markets) \in Nat
           /\ \A x \in markets : Place(markets, volume, x) \in 0 .. Cardinality(markets) - 1
           /\ \A x, z \in markets : SummaryBefore(volume, x, z) =>
                 Place(markets, volume, x) < Place(markets, volume, z)
           /\ \A x, z \in markets : Place(markets, volume, x) = Place(markets, volume, z) => x = z
           /\ \A n \in 0 .. Cardinality(markets) - 1 :
                 \E x \in markets : Place(markets, volume, x) = n
<1>. DEFINE Earlier(x) == {y \in markets : SummaryBefore(volume, y, x)}
<1>0. IsFiniteSet(markets) /\ Cardinality(markets) \in Nat
  BY FS_CardinalityType DEF Volumed
<1>1. ASSUME NEW x \in markets
      PROVE  /\ IsFiniteSet(Earlier(x))
             /\ Place(markets, volume, x) \in 0 .. Cardinality(markets) - 1
             /\ Place(markets, volume, x) \in Int
  <2>1. Earlier(x) \subseteq markets /\ x \notin Earlier(x)
    BY SummaryOrder
  <2>2. Earlier(x) # markets
    BY <2>1
  <2>3. /\ IsFiniteSet(Earlier(x))
        /\ Cardinality(Earlier(x)) <= Cardinality(markets)
        /\ Cardinality(Earlier(x)) # Cardinality(markets)
    BY ONLY <1>0, <2>1, <2>2, FS_Subset
  <2>4. Cardinality(Earlier(x)) \in Nat
    BY <2>3, FS_CardinalityType
  <2>5. Place(markets, volume, x) = Cardinality(Earlier(x))
    BY DEF Place
  <2>. HIDE DEF Earlier
  <2>. QED BY ONLY <1>0, <2>3, <2>4, <2>5
<1>2. ASSUME NEW x \in markets, NEW z \in markets, SummaryBefore(volume, x, z)
      PROVE  Place(markets, volume, x) < Place(markets, volume, z)
  <2>1. Earlier(x) \subseteq Earlier(z)
    BY <1>2, SummaryOrder
  <2>2. x \in Earlier(z) /\ x \notin Earlier(x)
    BY <1>2, SummaryOrder
  <2>3. IsFiniteSet(Earlier(z)) /\ Earlier(x) # Earlier(z)
    BY <1>1, <2>2
  <2>4. /\ Cardinality(Earlier(x)) <= Cardinality(Earlier(z))
        /\ Cardinality(Earlier(x)) # Cardinality(Earlier(z))
    BY ONLY <2>1, <2>3, FS_Subset
  <2>5. /\ Place(markets, volume, x) = Cardinality(Earlier(x))
        /\ Place(markets, volume, z) = Cardinality(Earlier(z))
    BY DEF Place
  <2>6. Place(markets, volume, x) \in Int /\ Place(markets, volume, z) \in Int
    BY <1>1
  <2>. HIDE DEF Earlier
  <2>. QED BY ONLY <2>4, <2>5, <2>6
<1>3. ASSUME NEW x \in markets, NEW z \in markets,
             Place(markets, volume, x) = Place(markets, volume, z)
      PROVE  x = z
  <2>1. Place(markets, volume, x) \in Int
    BY <1>1
  <2>2. ~SummaryBefore(volume, x, z) /\ ~SummaryBefore(volume, z, x)
    BY <1>2, <1>3, <2>1
  <2>. QED BY <2>2, SummaryOrder
<1>4. PICK place : place = [x \in markets |-> Place(markets, volume, x)]
  OBVIOUS
<1>5. place \in Injection(markets, 0 .. Cardinality(markets) - 1)
  BY <1>1, <1>3, <1>4 DEF Injection, IsInjective
<1>6. /\ IsFiniteSet(0 .. Cardinality(markets) - 1)
      /\ Cardinality(0 .. Cardinality(markets) - 1) = Cardinality(markets)
  BY <1>0, FS_Interval
<1>7. place \in Surjection(markets, 0 .. Cardinality(markets) - 1)
  BY <1>5, <1>6, FS_Injection
<1>8. \A n \in 0 .. Cardinality(markets) - 1 : \E x \in markets : Place(markets, volume, x) = n
  BY <1>4, <1>7 DEF Surjection
<1>. QED BY <1>0, <1>1, <1>2, <1>3, <1>8

\* Putting markets in order: all of them, each once, by descending volume.
LEMMA OrderedSorts ==
    ASSUME NEW markets, NEW volume, Volumed(markets, volume)
    PROVE  /\ Ordered(markets, volume) \in Seq(markets)
           /\ Len(Ordered(markets, volume)) = Cardinality(markets)
           /\ \A i, j \in 1 .. Cardinality(markets) : i < j =>
                 SummaryBefore(volume, Ordered(markets, volume)[i], Ordered(markets, volume)[j])
           /\ \A i, j \in 1 .. Cardinality(markets) :
                 Ordered(markets, volume)[i] = Ordered(markets, volume)[j] => i = j
           /\ \A x \in markets :
                 \E i \in 1 .. Cardinality(markets) : Ordered(markets, volume)[i] = x
<1>1. PICK s : s = Ordered(markets, volume)
  OBVIOUS
<1>2. s = [place \in 1..Cardinality(markets) |->
              CHOOSE x \in markets : Place(markets, volume, x) = place - 1]
  BY <1>1 DEF Ordered, Place
<1>0. Cardinality(markets) \in Nat
  BY Places
<1>3. ASSUME NEW i \in 1..Cardinality(markets)
      PROVE  s[i] \in markets /\ Place(markets, volume, s[i]) = i - 1
  <2>1. i - 1 \in 0 .. Cardinality(markets) - 1
    BY <1>0
  <2>2. \E x \in markets : Place(markets, volume, x) = i - 1
    BY <2>1, Places
  <2>3. s[i] = CHOOSE x \in markets : Place(markets, volume, x) = i - 1
    BY <1>2
  <2>. QED BY <2>2, <2>3
<1>4. s \in Seq(markets) /\ Len(s) = Cardinality(markets)
  BY <1>0, <1>2, <1>3
<1>5. ASSUME NEW i \in 1..Cardinality(markets), NEW j \in 1..Cardinality(markets), i < j
      PROVE  SummaryBefore(volume, s[i], s[j])
  <2>1. s[i] \in markets /\ s[j] \in markets
    BY <1>3
  <2>2. Place(markets, volume, s[i]) = i - 1 /\ Place(markets, volume, s[j]) = j - 1
    BY <1>3
  <2>3. s[i] # s[j] /\ ~SummaryBefore(volume, s[j], s[i])
    BY <1>0, <1>5, <2>1, <2>2, Places
  <2>. QED BY <2>1, <2>3, SummaryOrder
<1>6. ASSUME NEW i \in 1..Cardinality(markets), NEW j \in 1..Cardinality(markets), s[i] = s[j]
      PROVE  i = j
  <2>1. i - 1 = j - 1
    BY <1>3, <1>6
  <2>. QED BY <1>0, <2>1
<1>7. ASSUME NEW x \in markets
      PROVE  \E i \in 1..Cardinality(markets) : s[i] = x
  <2>1. Place(markets, volume, x) \in 0 .. Cardinality(markets) - 1
    BY Places
  <2>2. PICK i \in 1..Cardinality(markets) : Place(markets, volume, x) = i - 1
    BY <1>0, <2>1, Place(markets, volume, x) + 1 \in 1..Cardinality(markets)
  <2>3. s[i] \in markets /\ Place(markets, volume, s[i]) = Place(markets, volume, x)
    BY <1>3, <2>2
  <2>. QED BY <2>3, Places
<1>. QED BY <1>1, <1>4, <1>5, <1>6, <1>7

\* A slice of a list of markets: what lies behind the offset, no more than asked for.
LEMMA Slices ==
    ASSUME NEW s \in Seq(Listings), NEW offset \in Nat, NEW n \in Nat
    PROVE  /\ Slice(s, offset, n) \in Seq(Listings)
           /\ Len(Slice(s, offset, n)) = IF offset + n < Len(s) THEN n
                                         ELSE IF offset < Len(s) THEN Len(s) - offset ELSE 0
           /\ \A i \in 1..Len(Slice(s, offset, n)) :
                 offset + i \in 1..Len(s) /\ Slice(s, offset, n)[i] = s[offset + i]
<1>1. PICK last : last = IF offset + n < Len(s) THEN offset + n ELSE Len(s)
  OBVIOUS
<1>2. Slice(s, offset, n) = SubSeq(s, offset + 1, last)
  BY <1>1 DEF Slice
<1>3. Len(s) \in Nat /\ last \in Int /\ offset + 1 \in Int /\ last <= Len(s)
  BY <1>1
<1>4. \A i \in offset + 1 .. last : s[i] \in Listings
  BY <1>3
<1>5. PICK t : t = SubSeq(s, offset + 1, last)
  OBVIOUS
<1>6. /\ t \in Seq(Listings)
      /\ Len(t) = IF offset + 1 <= last THEN last - (offset + 1) + 1 ELSE 0
      /\ \A i \in 1 .. last - (offset + 1) + 1 : t[i] = s[offset + 1 + i - 1]
  BY ONLY <1>3, <1>4, <1>5, SubSeqProperties
<1>7. Len(t) = IF offset + n < Len(s) THEN n ELSE IF offset < Len(s) THEN Len(s) - offset ELSE 0
  BY <1>1, <1>3, <1>6
<1>8. ASSUME NEW i \in 1..Len(t)
      PROVE  offset + i \in 1..Len(s) /\ t[i] = s[offset + i]
  <2>1. i \in 1 .. last - (offset + 1) + 1
    BY <1>3, <1>6
  <2>2. t[i] = s[offset + 1 + i - 1]
    BY <1>6, <2>1
  <2>3. offset + 1 + i - 1 = offset + i /\ offset + i \in 1..Len(s)
    BY <1>3, <2>1
  <2>. QED BY <2>2, <2>3
<1>. QED BY <1>2, <1>5, <1>6, <1>7, <1>8

\* The catalogs that can be published, and what a page is made of.
Catalogs == UNION {[offered -> Volumes] : offered \in SUBSET Listings}
Cursors == [generation : Nat, offset : Nat]
SummaryPages == [generation : Nat, items : Seq(Listings), total : Nat, nextCursor : Cursors]

\* The cursor of a page of the default list, and the ids of one of a restricted list.
CursorTo(g, i) == IF i = 1 THEN NoCursor ELSE Cursor(g, (i - 1) * PageSize)
IdsOf(i) == Slice(FavoriteIds, (i - 1) * PageSize, PageSize)

\* Pages of the default list: of one generation, each where the last one ended, and
\* none after the end.
OneReading(read) ==
    \E g \in 1..Len(publications) : \A i \in 1..Len(read) :
       /\ read[i] = SummaryPage(publications[g], g, <<>>, CursorTo(g, i))
       /\ i > 1 => (i - 1) * PageSize < Cardinality(DOMAIN publications[g])

\* Pages of a restricted list: each of its own ids, of whatever generation.
ReadByIds(read) ==
    \A i \in 1..Len(read) :
       /\ i > 1 => (i - 1) * PageSize < Len(FavoriteIds)
       /\ \E g \in 1..Len(publications) :
             read[i] = SummaryPage(publications[g], g, IdsOf(i), NoCursor)

PagesFit(read) ==
    /\ read \in Seq(SummaryPages)
    /\ restrictToIds => ReadByIds(read)
    /\ ~restrictToIds => read = <<>> \/ OneReading(read)

\* A fetch goes on where what it has so far ends.
Fetches == [kind : {"all", "more"}, got : Seq(SummaryPages), want : Nat,
            param : [cursor : Cursors, idOffset : Nat]]
FetchFits ==
    listFetch.kind # "idle" =>
       /\ listFetch \in Fetches
       /\ PagesFit(listFetch.got)
       /\ listFetch.got = <<>> => listFetch.param = FirstParam
       /\ listFetch.got # <<>> =>
             HasNextPage(listFetch.got) /\ listFetch.param = NextParam(listFetch.got)

ListTyped ==
    /\ publications \in Seq(Catalogs)
    /\ restrictToIds \in BOOLEAN
    /\ pageStatus = "success" => pages # <<>>

DeviceFits == devicePage # NoPage => ~restrictToIds /\ PagesFit(<<devicePage>>)

CatalogFits ==
    catalogCache # NoPage =>
       /\ catalogCache.generation \in 1..Len(publications)
       /\ catalogCache.markets = publications[catalogCache.generation]

ListInv == ListTyped /\ PagesFit(pages) /\ FetchFits /\ DeviceFits /\ CatalogFits

\* A page size and a number of pages multiply as they should.
LEMMA PageOffsets ==
    ASSUME NEW i \in Nat, NEW j \in Nat
    PROVE  /\ PageSize \in Nat /\ PageSize > 0
           /\ i * PageSize \in Nat
           /\ (i + 1) * PageSize = i * PageSize + PageSize
           /\ i < j => i * PageSize + PageSize <= j * PageSize
<1>1. PageSize \in Nat /\ PageSize > 0
  BY ListAssumption
<1>2. \A k \in Nat : k * PageSize \in Nat
  BY <1>1
<1>3. \A k \in Nat : (k + 1) * PageSize = k * PageSize + PageSize
  BY <1>1
<1>4. ASSUME i < j PROVE i * PageSize + PageSize <= j * PageSize
  <2>1. PICK d \in Nat : j = (i + 1) + d
    BY <1>4, j - (i + 1) \in Nat, j = (i + 1) + (j - (i + 1))
  <2>2. j * PageSize = (i + 1) * PageSize + d * PageSize
    BY <1>1, <2>1
  <2>. QED BY <1>2, <1>3, <2>2
<1>. QED BY <1>1, <1>2, <1>3, <1>4

\* What a published catalog is.
LEMMA Published ==
    ASSUME NEW catalog \in Catalogs
    PROVE  /\ DOMAIN catalog \subseteq Listings
           /\ \A markets : markets \subseteq DOMAIN catalog => Volumed(markets, catalog)
<1>1. PICK offered \in SUBSET Listings : catalog \in [offered -> Volumes]
  BY DEF Catalogs
<1>2. DOMAIN catalog = offered
  BY <1>1
<1>3. ASSUME NEW markets, markets \subseteq DOMAIN catalog
      PROVE  Volumed(markets, catalog)
  <2>1. markets \subseteq Listings
    BY <1>2, <1>3
  <2>2. IsFiniteSet(Listings) /\ Listings \subseteq Int /\ Volumes \subseteq Int
    BY ListAssumption
  <2>3. IsFiniteSet(markets) /\ markets \subseteq Int
    BY ONLY <2>1, <2>2, FS_Subset
  <2>4. \A x \in markets : x \in offered
    BY <1>2, <1>3
  <2>5. \A x \in markets : catalog[x] \in Int
    BY ONLY <1>1, <2>2, <2>4
  <2>. QED BY <2>3, <2>5 DEF Volumed
<1>. QED BY <1>2, <1>3

\* The summaries of a catalog: each market that matches, once.
LEMMA SummariesAre ==
    ASSUME NEW catalog \in Catalogs, NEW ids
    PROVE  /\ Summaries(catalog, ids) \in Seq(Listings)
           /\ ids = <<>> => Len(Summaries(catalog, ids)) = Cardinality(DOMAIN catalog)
           /\ \A i, j \in 1..Len(Summaries(catalog, ids)) :
                 Summaries(catalog, ids)[i] = Summaries(catalog, ids)[j] => i = j
           /\ ids # <<>> => \A i \in 1..Len(Summaries(catalog, ids)) :
                 \E n \in 1..Len(ids) : ids[n] = Summaries(catalog, ids)[i]
<1>1. PICK matching :
         matching = {x \in DOMAIN catalog : ids = <<>> \/ \E n \in 1..Len(ids) : ids[n] = x}
  OBVIOUS
<1>2. Summaries(catalog, ids) = Ordered(matching, catalog)
  BY <1>1 DEF Summaries
<1>3. matching \subseteq DOMAIN catalog
  BY <1>1
<1>4. matching \subseteq Listings /\ Volumed(matching, catalog)
  BY <1>3, Published
<1>5. PICK s : s = Ordered(matching, catalog)
  OBVIOUS
<1>6. /\ s \in Seq(matching) /\ Len(s) = Cardinality(matching)
      /\ \A i, j \in 1..Len(s) : s[i] = s[j] => i = j
  BY ONLY <1>4, <1>5, OrderedSorts
<1>7. s \in Seq(Listings) /\ \A i \in 1..Len(s) : s[i] \in matching
  BY <1>4, <1>6
<1>8. ids = <<>> => matching = DOMAIN catalog
  BY <1>1
<1>9. ids # <<>> => \A i \in 1..Len(s) : \E n \in 1..Len(ids) : ids[n] = s[i]
  BY <1>1, <1>7
<1>. QED BY <1>2, <1>5, <1>6, <1>7, <1>8, <1>9

\* The favourites: each once.
LEMMA FavoritesAre ==
    /\ FavoriteIds \in Seq(Listings)
    /\ Len(FavoriteIds) = Cardinality(Listings)
    /\ \A i, j \in 1..Len(FavoriteIds) : FavoriteIds[i] = FavoriteIds[j] => i = j
<1>1. Volumed(Listings, [x \in Listings |-> x])
  BY ListAssumption DEF Volumed
<1>. QED BY <1>1, OrderedSorts DEF FavoriteIds

\* What a page holds.
LEMMA PageHolds ==
    ASSUME NEW catalog \in Catalogs, NEW g \in Nat, NEW ids, NEW cursor \in Cursors
    PROVE  LET page == SummaryPage(catalog, g, ids, cursor)
               all == Summaries(catalog, ids)
           IN /\ page \in SummaryPages
              /\ page.generation = g
              /\ page.items = Slice(all, cursor.offset, PageSize)
              /\ page.total = Len(all)
              /\ page.nextCursor = IF cursor.offset + Len(page.items) < Len(all)
                                   THEN Cursor(g, cursor.offset + Len(page.items)) ELSE NoCursor
<1>1. PICK all : all = Summaries(catalog, ids)
  OBVIOUS
<1>2. PICK items : items = Slice(all, cursor.offset, PageSize)
  OBVIOUS
<1>3. PICK cursorNext : cursorNext = IF cursor.offset + Len(items) < Len(all)
                         THEN Cursor(g, cursor.offset + Len(items)) ELSE NoCursor
  OBVIOUS
<1>4. SummaryPage(catalog, g, ids, cursor) =
         [generation |-> g, items |-> items, total |-> Len(all), nextCursor |-> cursorNext]
  BY <1>1, <1>2, <1>3 DEF SummaryPage
<1>5. all \in Seq(Listings)
  BY <1>1, SummariesAre
<1>6. cursor.offset \in Nat /\ PageSize \in Nat
  BY ListAssumption DEF Cursors
<1>7. items \in Seq(Listings)
  BY <1>2, <1>5, <1>6, Slices
<1>8. Len(items) \in Nat /\ Len(all) \in Nat /\ g \in Nat
  BY <1>5, <1>7
<1>9. cursorNext \in Cursors
  BY <1>3, <1>6, <1>8 DEF Cursors, Cursor, NoCursor
<1>10. SummaryPage(catalog, g, ids, cursor) \in SummaryPages
  BY <1>4, <1>7, <1>8, <1>9 DEF SummaryPages
<1>. QED BY <1>1, <1>2, <1>3, <1>4, <1>10

\* A page of the default list that starts within the catalog: the slice that is due,
\* and a cursor to the next one exactly when there is more.
LEMMA DefaultPage ==
    ASSUME NEW catalog \in Catalogs, NEW g \in Nat, g > 0, NEW i \in Nat, i > 0,
           i > 1 => (i - 1) * PageSize < Cardinality(DOMAIN catalog)
    PROVE  LET page == SummaryPage(catalog, g, <<>>, CursorTo(g, i))
               all == Summaries(catalog, <<>>)
           IN /\ page \in SummaryPages /\ page.generation = g /\ page.total = Len(all)
              /\ Len(all) = Cardinality(DOMAIN catalog) /\ Len(all) \in Nat
              /\ page.items = Slice(all, (i - 1) * PageSize, PageSize)
              /\ Len(page.items) = 0 <=> Len(all) = 0
              /\ page.nextCursor = IF i * PageSize < Len(all) THEN CursorTo(g, i + 1) ELSE NoCursor
              /\ i * PageSize < Len(all) => page.nextCursor # NoCursor
<1>1. PICK all : all = Summaries(catalog, <<>>)
  OBVIOUS
<1>2. catalog \in Catalogs
  OBVIOUS
<1>3. all \in Seq(Listings) /\ Len(all) = Cardinality(DOMAIN catalog) /\ Len(all) \in Nat
  BY <1>1, <1>2, SummariesAre
<1>4. PICK offset : offset = (i - 1) * PageSize
  OBVIOUS
<1>5. /\ PageSize \in Nat /\ PageSize > 0 /\ offset \in Nat /\ i * PageSize = offset + PageSize
      /\ i = 1 => offset = 0
  <2>1. i - 1 \in Nat /\ (i - 1) + 1 = i
    OBVIOUS
  <2>2. /\ PageSize \in Nat /\ PageSize > 0 /\ (i - 1) * PageSize \in Nat
        /\ ((i - 1) + 1) * PageSize = (i - 1) * PageSize + PageSize
    BY <2>1, PageOffsets
  <2>3. i = 1 => (i - 1) * PageSize = 0
    BY <2>2
  <2>. QED BY <1>4, <2>1, <2>2, <2>3
<1>6. g \in Nat /\ g > 0
  OBVIOUS
<1>7. CursorTo(g, i) \in Cursors /\ CursorTo(g, i).offset = offset
  BY <1>4, <1>5, <1>6 DEF CursorTo, NoCursor, Cursor, Cursors
<1>8. PICK page : page = SummaryPage(catalog, g, <<>>, CursorTo(g, i))
  OBVIOUS
<1>9. /\ page \in SummaryPages /\ page.generation = g /\ page.total = Len(all)
      /\ page.items = Slice(all, offset, PageSize)
      /\ page.nextCursor = IF offset + Len(page.items) < Len(all)
                           THEN Cursor(g, offset + Len(page.items)) ELSE NoCursor
  BY ONLY <1>1, <1>2, <1>6, <1>7, <1>8, PageHolds
<1>10. Len(page.items) = IF offset + PageSize < Len(all) THEN PageSize
                         ELSE IF offset < Len(all) THEN Len(all) - offset ELSE 0
  <2>1. Len(Slice(all, offset, PageSize)) = IF offset + PageSize < Len(all) THEN PageSize
                         ELSE IF offset < Len(all) THEN Len(all) - offset ELSE 0
    BY ONLY <1>3, <1>5, Slices
  <2>. QED BY <1>9, <2>1
<1>11. i > 1 => offset < Len(all)
  BY <1>3, <1>4
<1>12. Len(page.items) = 0 <=> Len(all) = 0
  BY <1>3, <1>5, <1>10, <1>11
<1>13. offset + Len(page.items) < Len(all) <=> offset + PageSize < Len(all)
  BY <1>3, <1>5, <1>10, <1>11
<1>14. CASE offset + PageSize < Len(all)
  <2>1. Len(page.items) = PageSize
    BY <1>10, <1>14
  <2>2. page.nextCursor = Cursor(g, i * PageSize)
    BY <1>5, <1>9, <1>13, <1>14, <2>1
  <2>3. CursorTo(g, i + 1) = Cursor(g, i * PageSize)
    BY i + 1 # 1, (i + 1) - 1 = i DEF CursorTo
  <2>4. Cursor(g, i * PageSize) # NoCursor
    BY <1>6 DEF Cursor, NoCursor
  <2>. QED BY <1>1, <1>3, <1>4, <1>5, <1>8, <1>9, <1>12, <1>14, <2>2, <2>3, <2>4
<1>15. CASE ~(offset + PageSize < Len(all))
  <2>1. page.nextCursor = NoCursor
    BY <1>9, <1>13, <1>15
  <2>. QED BY <1>1, <1>3, <1>4, <1>5, <1>8, <1>9, <1>12, <1>15, <2>1
<1>. QED BY <1>14, <1>15

\* A page of a restricted list in its place: it holds markets of its own ids, each
\* once, and some exactly when its total says so.
OfItsIds(page, i) ==
    /\ page.total > 0 <=> Len(page.items) # 0
    /\ \A m, n \in 1..Len(page.items) : page.items[m] = page.items[n] => m = n
    /\ \A m \in 1..Len(page.items) : \E n \in 1..PageSize :
          /\ (i - 1) * PageSize + n \in 1..Len(FavoriteIds)
          /\ page.items[m] = FavoriteIds[(i - 1) * PageSize + n]

\* What a page of a restricted list holds is that.
LEMMA RestrictedPage ==
    ASSUME NEW catalog \in Catalogs, NEW g \in Nat, g > 0, NEW i \in Nat, i > 0,
           i > 1 => (i - 1) * PageSize < Len(FavoriteIds)
    PROVE  LET page == SummaryPage(catalog, g, IdsOf(i), NoCursor)
           IN page \in SummaryPages /\ OfItsIds(page, i)
<1>1. PICK ids : ids = IdsOf(i)
  OBVIOUS
<1>2. PICK all : all = Summaries(catalog, ids)
  OBVIOUS
<1>3. catalog \in Catalogs
  OBVIOUS
<1>4. /\ all \in Seq(Listings)
      /\ \A m, n \in 1..Len(all) : all[m] = all[n] => m = n
      /\ ids # <<>> => \A m \in 1..Len(all) : \E n \in 1..Len(ids) : ids[n] = all[m]
      /\ ids = <<>> => Len(all) = Cardinality(DOMAIN catalog)
  BY ONLY <1>2, <1>3, SummariesAre
<1>5. PICK offset : offset = (i - 1) * PageSize
  OBVIOUS
<1>6. PageSize \in Nat /\ PageSize > 0 /\ offset \in Nat /\ (i = 1 => offset = 0)
  <2>1. i - 1 \in Nat
    OBVIOUS
  <2>2. PageSize \in Nat /\ PageSize > 0 /\ (i - 1) * PageSize \in Nat
    BY <2>1, PageOffsets
  <2>. QED BY <1>5, <2>2
<1>7. /\ Len(ids) = IF offset + PageSize < Len(FavoriteIds) THEN PageSize
                    ELSE IF offset < Len(FavoriteIds) THEN Len(FavoriteIds) - offset ELSE 0
      /\ \A n \in 1..Len(ids) :
            offset + n \in 1..Len(FavoriteIds) /\ ids[n] = FavoriteIds[offset + n]
      /\ ids \in Seq(Listings)
  <2>1. ids = Slice(FavoriteIds, offset, PageSize)
    BY <1>1, <1>5 DEF IdsOf
  <2>2. FavoriteIds \in Seq(Listings)
    BY FavoritesAre
  <2>3. PICK favorites : favorites = FavoriteIds
    OBVIOUS
  <2>4. /\ favorites \in Seq(Listings) /\ offset \in Nat /\ PageSize \in Nat
        /\ ids = Slice(favorites, offset, PageSize)
    BY <1>6, <2>1, <2>2, <2>3
  <2>5. /\ Slice(favorites, offset, PageSize) \in Seq(Listings)
        /\ Len(Slice(favorites, offset, PageSize)) =
              IF offset + PageSize < Len(favorites) THEN PageSize
              ELSE IF offset < Len(favorites) THEN Len(favorites) - offset ELSE 0
        /\ \A n \in 1..Len(Slice(favorites, offset, PageSize)) :
              /\ offset + n \in 1..Len(favorites)
              /\ Slice(favorites, offset, PageSize)[n] = favorites[offset + n]
    BY ONLY <2>4, Slices
  <2>. QED BY ONLY <2>3, <2>4, <2>5
<1>8. Len(FavoriteIds) = Cardinality(Listings) /\ Len(FavoriteIds) \in Nat
  BY FavoritesAre
<1>9. Len(ids) <= PageSize
  BY <1>6, <1>7, <1>8
<1>10. ids = <<>> => Len(all) = 0
  <2>1. SUFFICES ASSUME ids = <<>> PROVE Len(all) = 0
    OBVIOUS
  <2>2. Len(ids) = 0
    BY <2>1
  <2>3. Len(FavoriteIds) = 0
    BY <1>5, <1>6, <1>7, <1>8, <2>2
  <2>4. Listings = {}
    BY <1>8, <2>3, FS_EmptySet, ListAssumption
  <2>5. DOMAIN catalog = {}
    BY <1>3, <2>4, Published
  <2>. QED BY <1>4, <2>1, <2>5, FS_EmptySet
<1>11. PICK page : page = SummaryPage(catalog, g, ids, NoCursor)
  OBVIOUS
<1>12. NoCursor \in Cursors /\ NoCursor.offset = 0
  BY DEF NoCursor, Cursor, Cursors
<1>13. page \in SummaryPages /\ page.items = Slice(all, 0, PageSize) /\ page.total = Len(all)
  BY <1>2, <1>3, <1>11, <1>12, PageHolds
<1>14. /\ Len(page.items) = IF 0 + PageSize < Len(all) THEN PageSize
                            ELSE IF 0 < Len(all) THEN Len(all) - 0 ELSE 0
       /\ \A m \in 1..Len(page.items) : 0 + m \in 1..Len(all) /\ page.items[m] = all[0 + m]
  <2>1. 0 \in Nat /\ PageSize \in Nat /\ all \in Seq(Listings)
    BY <1>4, <1>6
  <2>2. /\ Len(Slice(all, 0, PageSize)) = IF 0 + PageSize < Len(all) THEN PageSize
                                          ELSE IF 0 < Len(all) THEN Len(all) - 0 ELSE 0
        /\ \A m \in 1..Len(Slice(all, 0, PageSize)) :
              0 + m \in 1..Len(all) /\ Slice(all, 0, PageSize)[m] = all[0 + m]
    BY ONLY <2>1, Slices
  <2>3. page.items = Slice(all, 0, PageSize)
    BY <1>13
  <2>. QED BY ONLY <2>2, <2>3
<1>15. Len(all) \in Nat
  BY <1>4
<1>16. \A m \in 1..Len(page.items) : m \in 1..Len(all) /\ page.items[m] = all[m]
  <2>1. ASSUME NEW m \in 1..Len(page.items)
        PROVE  m \in 1..Len(all) /\ page.items[m] = all[m]
    BY <1>14, 0 + m = m
  <2>. QED BY <2>1
<1>17. page.total > 0 <=> Len(page.items) # 0
  BY <1>6, <1>13, <1>14, <1>15
<1>18. \A m, n \in 1..Len(page.items) : page.items[m] = page.items[n] => m = n
  BY <1>4, <1>16
<1>19. ASSUME NEW m \in 1..Len(page.items)
       PROVE  \E n \in 1..PageSize : /\ offset + n \in 1..Len(FavoriteIds)
                                     /\ page.items[m] = FavoriteIds[offset + n]
  <2>1. m \in 1..Len(all) /\ page.items[m] = all[m]
    BY <1>16
  <2>2. ids # <<>>
    BY <1>10, <2>1
  <2>3. PICK n \in 1..Len(ids) : ids[n] = all[m]
    BY <1>4, <2>1, <2>2
  <2>4. n \in 1..PageSize
    BY <1>6, <1>7, <1>9, <2>3
  <2>. QED BY <1>7, <2>1, <2>3, <2>4
<1>20. OfItsIds(page, i)
  BY <1>5, <1>17, <1>18, <1>19 DEF OfItsIds
<1>. QED BY <1>1, <1>11, <1>13, <1>20

\* Pages that fit are what the property says of the default list.
LEMMA DefaultShown ==
    ASSUME ListInv, ~restrictToIds, pages # <<>>
    PROVE  /\ LET whole == Summaries(publications[Head(pages).generation], <<>>)
              IN /\ \A i \in 1..Len(pages) :
                      /\ pages[i].generation = Head(pages).generation
                      /\ pages[i].items = Slice(whole, (i - 1) * PageSize, PageSize)
                 /\ (pages[Len(pages)].nextCursor = NoCursor)
                       = (Len(pages) * PageSize >= Len(whole))
           /\ SomeInTotal = (ShownMarkets # {})
<1>1. publications \in Seq(Catalogs) /\ pages \in Seq(SummaryPages) /\ OneReading(pages)
  BY DEF ListInv, ListTyped, PagesFit
<1>2. PICK g \in 1..Len(publications) : \A i \in 1..Len(pages) :
         /\ pages[i] = SummaryPage(publications[g], g, <<>>, CursorTo(g, i))
         /\ i > 1 => (i - 1) * PageSize < Cardinality(DOMAIN publications[g])
  BY <1>1 DEF OneReading
<1>3. PICK whole : whole = Summaries(publications[g], <<>>)
  OBVIOUS
<1>4. Len(pages) \in Nat /\ Len(pages) > 0 /\ Head(pages) = pages[1]
  BY <1>1
<1>5. ASSUME NEW i \in 1..Len(pages)
      PROVE  /\ pages[i] \in SummaryPages /\ pages[i].generation = g
             /\ pages[i].total = Len(whole) /\ Len(whole) \in Nat
             /\ pages[i].items = Slice(whole, (i - 1) * PageSize, PageSize)
             /\ Len(pages[i].items) = 0 <=> Len(whole) = 0
             /\ (pages[i].nextCursor = NoCursor) = ~(i * PageSize < Len(whole))
  <2>1. /\ i \in Nat /\ i > 0
        /\ i > 1 => (i - 1) * PageSize < Cardinality(DOMAIN publications[g])
        /\ pages[i] = SummaryPage(publications[g], g, <<>>, CursorTo(g, i))
    BY <1>2, <1>4
  <2>2. publications[g] \in Catalogs /\ g \in Nat /\ g > 0
    BY <1>1
  <2>. QED BY ONLY <1>3, <2>1, <2>2, DefaultPage
<1>6. 1 \in 1..Len(pages) /\ Len(pages) \in 1..Len(pages)
  BY <1>4
<1>7. Head(pages).generation = g /\ Head(pages).total = Len(whole) /\ Len(whole) \in Nat
  BY <1>4, <1>5, <1>6
<1>8. (pages[Len(pages)].nextCursor = NoCursor) = (Len(pages) * PageSize >= Len(whole))
  <2>1. (pages[Len(pages)].nextCursor = NoCursor) = ~(Len(pages) * PageSize < Len(whole))
    BY <1>5, <1>6
  <2>2. Len(pages) * PageSize \in Nat
    BY <1>4, PageOffsets
  <2>. QED BY <1>7, <2>1, <2>2
<1>9. SomeInTotal <=> Len(whole) > 0
  BY <1>7 DEF SomeInTotal
<1>10. ASSUME Len(whole) > 0 PROVE ShownMarkets # {}
  <2>1. Len(pages[1].items) # 0 /\ pages[1] \in SummaryPages
    BY <1>5, <1>6, <1>10
  <2>2. 1 \in 1..Len(pages[1].items)
    BY <2>1 DEF SummaryPages
  <2>3. pages[1].items[1] \in ShownMarkets
    BY <1>6, <2>2 DEF ShownMarkets
  <2>. QED BY <2>3
<1>11. ASSUME ShownMarkets # {} PROVE Len(whole) > 0
  <2>1. PICK i \in 1..Len(pages) : {pages[i].items[n] : n \in 1..Len(pages[i].items)} # {}
    BY <1>11 DEF ShownMarkets
  <2>2. PICK n \in 1..Len(pages[i].items) : TRUE
    BY <2>1
  <2>3. Len(pages[i].items) # 0
    BY <2>2
  <2>. QED BY <1>5, <1>7, <2>3
<1>12. SomeInTotal \in BOOLEAN
  BY <1>7 DEF SomeInTotal
<1>13. SomeInTotal = (ShownMarkets # {})
  BY <1>9, <1>10, <1>11, <1>12
<1>14. \A i \in 1..Len(pages) : /\ pages[i].generation = Head(pages).generation
                                /\ pages[i].items = Slice(whole, (i - 1) * PageSize, PageSize)
  BY <1>5, <1>7
<1>. QED BY <1>3, <1>7, <1>8, <1>13, <1>14

\* Pages that fit are what the property says of a restricted list.
LEMMA RestrictedShown ==
    ASSUME ListInv, restrictToIds
    PROVE  /\ \A i, j \in 1..Len(pages) :
              \A m \in 1..Len(pages[i].items), n \in 1..Len(pages[j].items) :
                 pages[i].items[m] = pages[j].items[n] => i = j /\ m = n
           /\ SomeInTotal = (ShownMarkets # {})
<1>1. publications \in Seq(Catalogs) /\ pages \in Seq(SummaryPages) /\ ReadByIds(pages)
  BY DEF ListInv, ListTyped, PagesFit
<1>2. Len(pages) \in Nat
  BY <1>1
<1>3. ASSUME NEW i \in 1..Len(pages)
      PROVE  /\ i \in Nat /\ i > 0
             /\ pages[i].total > 0 <=> Len(pages[i].items) # 0
             /\ Len(pages[i].items) \in Nat
             /\ \A m, n \in 1..Len(pages[i].items) :
                   pages[i].items[m] = pages[i].items[n] => m = n
             /\ \A m \in 1..Len(pages[i].items) : \E n \in 1..PageSize :
                   /\ (i - 1) * PageSize + n \in 1..Len(FavoriteIds)
                   /\ pages[i].items[m] = FavoriteIds[(i - 1) * PageSize + n]
  <2>1. /\ i \in Nat /\ i > 0
        /\ i > 1 => (i - 1) * PageSize < Len(FavoriteIds)
    BY <1>1, <1>2 DEF ReadByIds
  <2>2. PICK g \in 1..Len(publications) :
           pages[i] = SummaryPage(publications[g], g, IdsOf(i), NoCursor)
    BY <1>1 DEF ReadByIds
  <2>3. Len(pages[i].items) \in Nat
    BY <1>1 DEF SummaryPages
  <2>4. publications[g] \in Catalogs /\ g \in Nat /\ g > 0
    BY <1>1
  <2>5. PICK page : page = SummaryPage(publications[g], g, IdsOf(i), NoCursor)
    OBVIOUS
  <2>6. OfItsIds(page, i)
    BY ONLY <2>1, <2>4, <2>5, RestrictedPage
  <2>7. OfItsIds(pages[i], i)
    BY <2>2, <2>5, <2>6
  <2>. QED BY ONLY <2>1, <2>3, <2>7 DEF OfItsIds
<1>4. ASSUME NEW i \in 1..Len(pages), NEW j \in 1..Len(pages),
             NEW m \in 1..Len(pages[i].items), NEW n \in 1..Len(pages[j].items),
             pages[i].items[m] = pages[j].items[n]
      PROVE  ~(i < j)
  <2>1. PICK p \in 1..PageSize : /\ (i - 1) * PageSize + p \in 1..Len(FavoriteIds)
                                 /\ pages[i].items[m] = FavoriteIds[(i - 1) * PageSize + p]
    BY <1>3
  <2>2. PICK q \in 1..PageSize : /\ (j - 1) * PageSize + q \in 1..Len(FavoriteIds)
                                 /\ pages[j].items[n] = FavoriteIds[(j - 1) * PageSize + q]
    BY <1>3
  <2>3. (i - 1) * PageSize + p = (j - 1) * PageSize + q
    BY <1>4, <2>1, <2>2, FavoritesAre
  <2>4. SUFFICES ASSUME i < j PROVE FALSE
    OBVIOUS
  <2>5. PICK a, b : a = i - 1 /\ b = j - 1
    OBVIOUS
  <2>6. a \in Nat /\ b \in Nat /\ a < b
    BY <1>3, <2>4, <2>5
  <2>7. a * PageSize \in Nat /\ PageSize \in Nat /\ a * PageSize + PageSize <= b * PageSize
    BY ONLY <2>6, PageOffsets
  <2>8. b * PageSize \in Nat
    BY ONLY <2>6, PageOffsets
  <2>9. a * PageSize + p = b * PageSize + q
    BY <2>3, <2>5
  <2>10. p \in Nat /\ p <= PageSize /\ q \in Nat /\ q > 0
    BY <2>7
  <2>. QED BY ONLY <2>7, <2>8, <2>9, <2>10
<1>5. ASSUME NEW i \in 1..Len(pages), NEW j \in 1..Len(pages),
             NEW m \in 1..Len(pages[i].items), NEW n \in 1..Len(pages[j].items),
             pages[i].items[m] = pages[j].items[n]
      PROVE  i = j /\ m = n
  <2>1. ~(i < j) /\ ~(j < i)
    BY <1>4, <1>5
  <2>2. i = j
    BY <1>3, <2>1
  <2>. QED BY <1>3, <1>5, <2>2
<1>6. SomeInTotal <=> \E i \in 1..Len(pages) : Len(pages[i].items) # 0
  BY <1>3 DEF SomeInTotal
<1>7. ASSUME NEW i \in 1..Len(pages), Len(pages[i].items) # 0
      PROVE  ShownMarkets # {}
  <2>1. 1 \in 1..Len(pages[i].items)
    BY <1>3, <1>7
  <2>2. pages[i].items[1] \in ShownMarkets
    BY <2>1 DEF ShownMarkets
  <2>. QED BY <2>2
<1>8. ASSUME ShownMarkets # {}
      PROVE  \E i \in 1..Len(pages) : Len(pages[i].items) # 0
  <2>1. PICK i \in 1..Len(pages) : {pages[i].items[n] : n \in 1..Len(pages[i].items)} # {}
    BY <1>8 DEF ShownMarkets
  <2>2. PICK n \in 1..Len(pages[i].items) : TRUE
    BY <2>1
  <2>. QED BY <2>2
<1>9. SomeInTotal \in BOOLEAN
  BY DEF SomeInTotal
<1>10. SomeInTotal = (ShownMarkets # {})
  BY <1>6, <1>7, <1>8, <1>9
<1>. QED BY <1>5, <1>10

\* The invariant makes the property.
LEMMA ListShown ==
    ASSUME ListInv PROVE ListIsOneGeneration
<1>1. restrictToIds \in BOOLEAN /\ pages \in Seq(SummaryPages)
  BY DEF ListInv, ListTyped, PagesFit
<1>2. pages = <<>> => ShownMarkets = {}
  BY DEF ShownMarkets
<1>3. pages # <<>> => SomeInTotal = (ShownMarkets # {})
  BY <1>1, DefaultShown, RestrictedShown
<1>4. ASSUME NEW online \in BOOLEAN
      PROVE  (Content(online) = "ready") = (ShownMarkets # {})
  BY <1>2, <1>3 DEF Content
<1>5. catalogCache # NoPage => catalogCache.markets = publications[catalogCache.generation]
  BY DEF ListInv, CatalogFits
<1>6. restrictToIds =>
         \A i, j \in 1..Len(pages) :
         \A m \in 1..Len(pages[i].items), n \in 1..Len(pages[j].items) :
            pages[i].items[m] = pages[j].items[n] => i = j /\ m = n
  BY RestrictedShown
<1>. QED BY <1>1, <1>4, <1>5, <1>6, DefaultShown DEF ListIsOneGeneration

\* What fits goes on fitting when a generation is published.
LEMMA StillFits ==
    ASSUME ListTyped, Publish \/ publications' = publications, restrictToIds' = restrictToIds
    PROVE  /\ publications' \in Seq(Catalogs)
           /\ \A g \in 1..Len(publications) :
                 g \in 1..Len(publications') /\ publications'[g] = publications[g]
           /\ \A read : ReadByIds(read) => ReadByIds(read)'
           /\ \A read : OneReading(read) => OneReading(read)'
<1>1. publications \in Seq(Catalogs)
  BY DEF ListTyped
<1>2. publications' = publications
         \/ \E catalog \in Catalogs : publications' = Append(publications, catalog)
  BY DEF Publish, Catalogs
<1>3. publications' \in Seq(Catalogs)
  BY <1>1, <1>2
<1>4. ASSUME NEW g \in 1..Len(publications)
      PROVE  g \in 1..Len(publications') /\ publications'[g] = publications[g]
  BY <1>1, <1>2
<1>5. ASSUME NEW read, ReadByIds(read) PROVE ReadByIds(read)'
  BY <1>4, <1>5 DEF ReadByIds
<1>6. ASSUME NEW read, OneReading(read) PROVE OneReading(read)'
  BY <1>4, <1>6 DEF OneReading
<1>. QED BY <1>3, <1>4, <1>5, <1>6

\* Pages that fit a state are pages of it, wherever it has them.
LEMMA FitsThere ==
    ASSUME NEW read, PagesFit(read)'
    PROVE  /\ pages' = read => PagesFit(pages)'
           /\ listFetch'.got = read => PagesFit(listFetch.got)'
           /\ <<devicePage'>> = read => PagesFit(<<devicePage>>)'
<1>1. ASSUME pages' = read PROVE PagesFit(pages)'
  BY <1>1 DEF PagesFit, ReadByIds, OneReading
<1>2. ASSUME listFetch'.got = read PROVE PagesFit(listFetch.got)'
  BY <1>2 DEF PagesFit, ReadByIds, OneReading
<1>3. ASSUME <<devicePage'>> = read PROVE PagesFit(<<devicePage>>)'
  BY <1>3 DEF PagesFit, ReadByIds, OneReading
<1>. QED BY <1>1, <1>2, <1>3

\* What has been read, and what the device keeps, goes on fitting when nothing is read.
LEMMA Kept ==
    ASSUME ListInv, Publish \/ publications' = publications, restrictToIds' = restrictToIds
    PROVE  /\ publications' \in Seq(Catalogs)
           /\ \A read : PagesFit(read) => PagesFit(read)'
           /\ pages' = pages => PagesFit(pages)'
           /\ listFetch' = listFetch => FetchFits'
           /\ devicePage' = devicePage => DeviceFits'
           /\ catalogCache' = catalogCache => CatalogFits'
<1>1. ListTyped
  BY DEF ListInv
<1>2. ASSUME NEW read, PagesFit(read) PROVE PagesFit(read)'
  BY <1>1, <1>2, StillFits DEF PagesFit
<1>3. ASSUME pages' = pages PROVE PagesFit(pages)'
  <2>1. PICK read : read = pages
    OBVIOUS
  <2>2. PagesFit(read) /\ PagesFit(read)'
    BY <1>2, <2>1 DEF ListInv
  <2>. QED BY <1>3, <2>1, <2>2, FitsThere
<1>4. ASSUME listFetch' = listFetch PROVE FetchFits'
  <2>1. PICK read : read = listFetch.got
    OBVIOUS
  <2>2. SUFFICES ASSUME listFetch.kind # "idle"
                 PROVE  FetchFits'
    BY <1>4 DEF FetchFits
  <2>3. FetchFits
    BY DEF ListInv
  <2>4. PagesFit(read) /\ PagesFit(read)'
    BY <1>2, <2>1, <2>2, <2>3 DEF FetchFits
  <2>5. PagesFit(listFetch.got)'
    BY <1>4, <2>1, <2>4, FitsThere
  <2>. QED BY <1>4, <2>2, <2>3, <2>5 DEF FetchFits, HasNextPage, NextParam
<1>5. ASSUME devicePage' = devicePage PROVE DeviceFits'
  <2>1. PICK read : read = <<devicePage>>
    OBVIOUS
  <2>2. SUFFICES ASSUME devicePage # NoPage
                 PROVE  DeviceFits'
    BY <1>5 DEF DeviceFits
  <2>3. ~restrictToIds /\ PagesFit(read) /\ PagesFit(read)'
    BY <1>2, <2>1, <2>2 DEF ListInv, DeviceFits
  <2>4. PagesFit(<<devicePage>>)'
    BY <1>5, <2>1, <2>3, FitsThere
  <2>. QED BY <2>3, <2>4 DEF DeviceFits
<1>6. ASSUME catalogCache' = catalogCache PROVE CatalogFits'
  BY <1>1, <1>6, StillFits DEF ListInv, CatalogFits
<1>. QED BY <1>1, <1>2, <1>3, <1>4, <1>5, <1>6, StillFits

\* One more page: the one that is due after those that fit.
LEMMA OneMore ==
    ASSUME ListTyped, NEW got, PagesFit(got), NEW param, NEW g \in 1..Len(publications),
           got = <<>> => param = FirstParam,
           got # <<>> => HasNextPage(got) /\ param = NextParam(got),
           CursorFits(param.cursor, g)
    PROVE  PagesFit(Append(got, SummaryPage(publications[g], g, PageIds(param), param.cursor)))
<1>1. publications \in Seq(Catalogs) /\ got \in Seq(SummaryPages) /\ restrictToIds \in BOOLEAN
  BY DEF ListTyped, PagesFit
<1>0. \A h \in 1..Len(publications) : publications[h] \in Catalogs /\ h \in Nat /\ h > 0
  BY <1>1
<1>2. PICK page : page = SummaryPage(publications[g], g, PageIds(param), param.cursor)
  OBVIOUS
<1>3. PICK n : n = Len(got) + 1
  OBVIOUS
<1>4. /\ n \in Nat /\ n > 0 /\ n - 1 = Len(got) /\ Len(got) \in Nat
      /\ n = 1 <=> got = <<>>
  BY <1>1, <1>3
<1>5. CASE restrictToIds
  <2>1. n > 1 => (n - 1) * PageSize < Len(FavoriteIds)
    BY <1>4, <1>5 DEF HasNextPage
  <2>2. param = [cursor |-> NoCursor, idOffset |-> (n - 1) * PageSize]
    <3>1. CASE got = <<>>
      <4>1. 0 * PageSize = 0
        BY PageOffsets
      <4>. QED BY <1>4, <3>1, <4>1 DEF FirstParam
    <3>2. CASE got # <<>>
      BY <1>4, <1>5, <3>2 DEF NextParam
    <3>. QED BY <3>1, <3>2
  <2>3. PageIds(param) = IdsOf(n)
    BY <1>5, <2>2 DEF PageIds, IdsOf
  <2>4. page = SummaryPage(publications[g], g, IdsOf(n), NoCursor)
    BY <1>2, <2>2, <2>3
  <2>5. page \in SummaryPages
    BY ONLY <1>0, <1>4, <2>1, <2>4, RestrictedPage
  <2>6. /\ Append(got, page) \in Seq(SummaryPages) /\ Len(Append(got, page)) = n
        /\ \A i \in 1..Len(got) : Append(got, page)[i] = got[i]
        /\ Append(got, page)[n] = page
    BY ONLY <1>1, <1>3, <2>5, AppendProperties
  <2>7. ReadByIds(got)
    BY <1>5 DEF PagesFit
  <2>8. ReadByIds(Append(got, page))
    <3>1. ASSUME NEW i \in 1..n
          PROVE  /\ i > 1 => (i - 1) * PageSize < Len(FavoriteIds)
                 /\ \E h \in 1..Len(publications) :
                       Append(got, page)[i] = SummaryPage(publications[h], h, IdsOf(i), NoCursor)
      <4>1. CASE i = n
        BY <2>1, <2>4, <2>6, <4>1
      <4>2. CASE i # n
        <5>1. i \in 1..Len(got)
          BY <1>4, <4>2
        <5>. QED BY <2>6, <2>7, <5>1 DEF ReadByIds
      <4>. QED BY <4>1, <4>2
    <3>. QED BY <2>6, <3>1 DEF ReadByIds
  <2>. QED BY <1>2, <1>5, <2>6, <2>8 DEF PagesFit
<1>6. CASE ~restrictToIds
  <2>1. PageIds(param) = <<>>
    BY <1>6 DEF PageIds
  <2>2. /\ param.cursor = CursorTo(g, n)
        /\ n > 1 => (n - 1) * PageSize < Cardinality(DOMAIN publications[g])
        /\ \A i \in 1..Len(got) :
              /\ got[i] = SummaryPage(publications[g], g, <<>>, CursorTo(g, i))
              /\ i > 1 => (i - 1) * PageSize < Cardinality(DOMAIN publications[g])
    <3>1. CASE got = <<>>
      <4>1. param.cursor = NoCursor /\ n = 1 /\ Len(got) = 0
        BY <1>4, <3>1 DEF FirstParam
      <4>. QED BY <4>1 DEF CursorTo
    <3>2. CASE got # <<>>
      <4>1. PICK h \in 1..Len(publications) : \A i \in 1..Len(got) :
               /\ got[i] = SummaryPage(publications[h], h, <<>>, CursorTo(h, i))
               /\ i > 1 => (i - 1) * PageSize < Cardinality(DOMAIN publications[h])
        BY <1>6, <3>2 DEF PagesFit, OneReading
      <4>2. got[Len(got)].nextCursor # NoCursor /\ param.cursor = got[Len(got)].nextCursor
        BY <1>6, <3>2 DEF HasNextPage, NextParam
      <4>3. PICK last : last = Len(got)
        OBVIOUS
      <4>4. /\ last \in Nat /\ last > 0 /\ last + 1 = n /\ last \in 1..Len(got)
            /\ last > 1 => (last - 1) * PageSize < Cardinality(DOMAIN publications[h])
            /\ got[last] = SummaryPage(publications[h], h, <<>>, CursorTo(h, last))
        BY <1>1, <1>3, <3>2, <4>1, <4>3
      <4>5. PICK all : all = Summaries(publications[h], <<>>)
        OBVIOUS
      <4>6. /\ Len(all) = Cardinality(DOMAIN publications[h])
            /\ got[last].nextCursor =
                  IF last * PageSize < Len(all) THEN CursorTo(h, last + 1) ELSE NoCursor
        BY ONLY <1>0, <4>4, <4>5, DefaultPage
      <4>7. last * PageSize < Len(all) /\ param.cursor = CursorTo(h, n)
        BY <4>2, <4>3, <4>4, <4>6
      <4>8. n # 1 /\ n - 1 = last
        BY <4>4
      <4>9. param.cursor = Cursor(h, last * PageSize)
        BY <4>7, <4>8 DEF CursorTo
      <4>10. h = g
        BY <4>9 DEF CursorFits, Cursor
      <4>. QED BY <4>1, <4>6, <4>7, <4>8, <4>10
    <3>. QED BY <3>1, <3>2
  <2>3. page = SummaryPage(publications[g], g, <<>>, CursorTo(g, n))
    BY <1>2, <2>1, <2>2
  <2>4. page \in SummaryPages
    BY ONLY <1>0, <1>4, <2>2, <2>3, DefaultPage
  <2>5. /\ Append(got, page) \in Seq(SummaryPages) /\ Len(Append(got, page)) = n
        /\ \A i \in 1..Len(got) : Append(got, page)[i] = got[i]
        /\ Append(got, page)[n] = page
    BY ONLY <1>1, <1>3, <2>4, AppendProperties
  <2>6. OneReading(Append(got, page))
    <3>1. ASSUME NEW i \in 1..n
          PROVE  /\ Append(got, page)[i] = SummaryPage(publications[g], g, <<>>, CursorTo(g, i))
                 /\ i > 1 => (i - 1) * PageSize < Cardinality(DOMAIN publications[g])
      <4>1. CASE i = n
        BY <2>2, <2>3, <2>5, <4>1
      <4>2. CASE i # n
        <5>1. i \in 1..Len(got)
          BY <1>4, <4>2
        <5>. QED BY <2>2, <2>5, <5>1
      <4>. QED BY <4>1, <4>2
    <3>. QED BY <2>5, <3>1 DEF OneReading
  <2>. QED BY <1>2, <1>6, <2>5, <2>6 DEF PagesFit
<1>. QED BY <1>1, <1>5, <1>6

\* The invariant holds at the start.
LEMMA ListStart ==
    ASSUME ListInit PROVE ListInv
<1>. USE DEF ListInit
<1>1. publications \in Seq(Catalogs) /\ pages \in Seq(SummaryPages)
  OBVIOUS
<1>2. PagesFit(pages)
  <2>1. ReadByIds(<<>>)
    BY DEF ReadByIds
  <2>. QED BY <1>1, <2>1 DEF PagesFit
<1>3. ListTyped
  BY <1>1 DEF ListTyped
<1>. QED BY <1>2, <1>3 DEF ListInv, FetchFits, DeviceFits, CatalogFits, NoListFetch

\* A list that is read from the first page on.
LEMMA FromTheFirst ==
    ASSUME pages \in Seq(SummaryPages)
    PROVE  /\ FetchAll \in Fetches /\ FetchAll.kind # "idle"
           /\ FetchAll.got = <<>> /\ FetchAll.param = FirstParam
           /\ PagesFit(<<>>)
<1>1. (IF pages = <<>> THEN 1 ELSE Len(pages)) \in Nat
  OBVIOUS
<1>2. FirstParam \in [cursor : Cursors, idOffset : Nat]
  BY DEF FirstParam, NoCursor, Cursor, Cursors
<1>3. PagesFit(<<>>)
  <2>1. <<>> \in Seq(SummaryPages)
    OBVIOUS
  <2>2. ReadByIds(<<>>)
    BY DEF ReadByIds
  <2>. QED BY <2>1, <2>2 DEF PagesFit
<1>4. <<>> \in Seq(SummaryPages)
  OBVIOUS
<1>. QED BY <1>1, <1>2, <1>3, <1>4 DEF FetchAll, Fetches

\* A fetch that begins or goes on fits.
LEMMA FetchGoesOn ==
    ASSUME NEW fetch \in Fetches, listFetch' = fetch, PagesFit(fetch.got)',
           fetch.got = <<>> => fetch.param = FirstParam,
           fetch.got # <<>> => HasNextPage(fetch.got) /\ fetch.param = NextParam(fetch.got),
           restrictToIds' = restrictToIds
    PROVE  FetchFits'
<1>1. PagesFit(listFetch.got)'
  <2>1. PICK read : read = fetch.got
    OBVIOUS
  <2>2. PagesFit(read)' /\ listFetch'.got = read
    BY <2>1
  <2>. QED BY <2>2, FitsThere
<1>. QED BY <1>1 DEF FetchFits, HasNextPage, NextParam

\* Reading the whole list again.
LEMMA RefetchStep ==
    ASSUME ListInv, RefetchList PROVE ListInv'
<1>. USE DEF RefetchList
<1>1. /\ ListTyped' /\ PagesFit(pages)' /\ DeviceFits' /\ CatalogFits'
      /\ \A read : PagesFit(read) => PagesFit(read)'
  BY Kept DEF ListInv, ListTyped
<1>2. pages \in Seq(SummaryPages)
  BY DEF ListInv, PagesFit
<1>3. PICK fetch : fetch = FetchAll
  OBVIOUS
<1>4. PagesFit(fetch.got)'
  BY <1>1, <1>2, <1>3, FromTheFirst
<1>5. FetchFits'
  BY <1>2, <1>3, <1>4, FromTheFirst, FetchGoesOn
<1>. QED BY <1>1, <1>5 DEF ListInv

\* Reading on from the pages there are.
LEMMA LoadNextStep ==
    ASSUME ListInv, LoadNextPage PROVE ListInv'
<1>1. /\ ListTyped' /\ PagesFit(pages)' /\ DeviceFits' /\ CatalogFits'
      /\ \A read : PagesFit(read) => PagesFit(read)'
  BY Kept DEF ListInv, ListTyped, LoadNextPage
<1>2. pages \in Seq(SummaryPages) /\ pages # <<>> /\ HasNextPage(pages) /\ PagesFit(pages)
  BY DEF ListInv, PagesFit, LoadNextPage
<1>3. PICK fetch : fetch = [kind |-> "more", got |-> pages, want |-> Len(pages) + 1,
                            param |-> NextParam(pages)]
  OBVIOUS
<1>4. fetch \in Fetches
  <2>1. pages[Len(pages)].nextCursor \in Cursors
    <3>1. pages[Len(pages)] \in SummaryPages
      BY <1>2
    <3>. QED BY <3>1 DEF SummaryPages
  <2>2. Len(pages) \in Nat /\ Len(pages) + 1 \in Nat
    BY <1>2
  <2>3. Len(pages) * PageSize \in Nat
    BY <2>2, PageOffsets
  <2>4. NextParam(pages) \in [cursor : Cursors, idOffset : Nat]
    BY <2>1, <2>3 DEF NextParam, NoCursor, Cursor, Cursors
  <2>. QED BY <1>2, <1>3, <2>2, <2>4 DEF Fetches
<1>5. PagesFit(fetch.got)'
  <2>1. PICK read : read = pages
    OBVIOUS
  <2>2. PagesFit(read)' /\ fetch.got = read
    BY <1>1, <1>2, <1>3, <2>1
  <2>. QED BY <2>2
<1>6. listFetch' = fetch /\ restrictToIds' = restrictToIds
  BY <1>3 DEF LoadNextPage
<1>7. fetch.got = pages /\ fetch.param = NextParam(pages)
  BY <1>3
<1>8. FetchFits'
  BY <1>2, <1>4, <1>5, <1>6, <1>7, FetchGoesOn
<1>. QED BY <1>1, <1>8 DEF ListInv

\* A page arrives: it is the one that is due.
LEMMA PageStep ==
    ASSUME ListInv, PageArrives PROVE ListInv'
<1>1. /\ publications' = publications /\ restrictToIds' = restrictToIds
      /\ devicePage' = devicePage /\ catalogCache' = catalogCache
  BY DEF PageArrives
<1>2. /\ DeviceFits' /\ CatalogFits' /\ publications' \in Seq(Catalogs)
      /\ \A read : PagesFit(read) => PagesFit(read)'
      /\ pages' = pages => PagesFit(pages)'
  BY <1>1, Kept
<1>3. /\ listFetch.kind # "idle" /\ listFetch \in Fetches /\ PagesFit(listFetch.got)
      /\ listFetch.got = <<>> => listFetch.param = FirstParam
      /\ listFetch.got # <<>> =>
            HasNextPage(listFetch.got) /\ listFetch.param = NextParam(listFetch.got)
  BY DEF PageArrives, ListInv, FetchFits
<1>4. PICK param, before : param = listFetch.param /\ before = listFetch.got
  OBVIOUS
<1>5. PICK g \in 1..Len(publications) :
         LET page == SummaryPage(publications[g], g, PageIds(param), param.cursor)
             got == Append(before, page)
         IN /\ SummaryServed(g, param.cursor)
            /\ \/ /\ Len(got) < listFetch.want /\ HasNextPage(got)
                  /\ listFetch' = [listFetch EXCEPT !.got = got, !.param = NextParam(got)]
                  /\ UNCHANGED <<pages, pageStatus>>
               \/ /\ pages' = got /\ pageStatus' = "success"
                  /\ listFetch' = NoListFetch
  BY <1>4 DEF PageArrives
<1>6. PICK got : got = Append(before, SummaryPage(publications[g], g, PageIds(param), param.cursor))
  OBVIOUS
<1>7. PagesFit(got) /\ PagesFit(got)'
  <2>1. ListTyped /\ CursorFits(param.cursor, g)
    BY <1>5 DEF ListInv, SummaryServed
  <2>2. PagesFit(got)
    BY <1>3, <1>4, <1>6, <2>1, OneMore
  <2>. QED BY <1>2, <2>2
<1>8. got \in Seq(SummaryPages) /\ got # <<>>
  <2>1. got \in Seq(SummaryPages)
    BY <1>7 DEF PagesFit
  <2>2. before \in Seq(SummaryPages)
    BY <1>3, <1>4 DEF PagesFit
  <2>. QED BY <1>6, <2>1, <2>2
<1>9. CASE /\ HasNextPage(got)
           /\ listFetch' = [listFetch EXCEPT !.got = got, !.param = NextParam(got)]
           /\ UNCHANGED <<pages, pageStatus>>
  <2>1. PICK fetch : fetch = [listFetch EXCEPT !.got = got, !.param = NextParam(got)]
    OBVIOUS
  <2>2. fetch \in Fetches /\ fetch.got = got /\ fetch.param = NextParam(got)
    <3>1. got[Len(got)] \in SummaryPages /\ Len(got) \in Nat
      BY <1>8
    <3>2. got[Len(got)].nextCursor \in Cursors
      BY <3>1 DEF SummaryPages
    <3>3. Len(got) * PageSize \in Nat
      BY <3>1, PageOffsets
    <3>4. NextParam(got) \in [cursor : Cursors, idOffset : Nat]
      BY <3>2, <3>3 DEF NextParam, NoCursor, Cursor, Cursors
    <3>. QED BY <1>3, <1>8, <2>1, <3>4 DEF Fetches
  <2>3. FetchFits'
    BY <1>1, <1>7, <1>8, <1>9, <2>1, <2>2, FetchGoesOn
  <2>4. ListTyped'
    BY <1>1, <1>2, <1>9 DEF ListInv, ListTyped
  <2>. QED BY <1>2, <1>9, <2>3, <2>4 DEF ListInv
<1>10. CASE pages' = got /\ pageStatus' = "success" /\ listFetch' = NoListFetch
  <2>1. PagesFit(pages)'
    BY <1>7, <1>10, FitsThere
  <2>2. FetchFits'
    BY <1>10 DEF FetchFits, NoListFetch
  <2>3. ListTyped'
    BY <1>1, <1>2, <1>8, <1>10 DEF ListInv, ListTyped
  <2>. QED BY <1>2, <2>1, <2>2, <2>3 DEF ListInv
<1>. QED BY <1>5, <1>6, <1>9, <1>10

\* A cursor is refused, or a request fails: what was read stays as it is.
LEMMA ListFaultSteps ==
    ASSUME ListInv, GenerationChanged \/ ListFails PROVE ListInv'
<1>1. /\ publications' = publications /\ restrictToIds' = restrictToIds /\ pages' = pages
      /\ devicePage' = devicePage /\ catalogCache' = catalogCache /\ pageStatus' = "error"
      /\ listFetch' = FetchAll \/ listFetch' = NoListFetch
  BY DEF GenerationChanged, ListFails
<1>2. /\ DeviceFits' /\ CatalogFits' /\ publications' \in Seq(Catalogs) /\ PagesFit(pages)'
      /\ \A read : PagesFit(read) => PagesFit(read)'
  BY <1>1, Kept
<1>3. ListTyped'
  BY <1>1, <1>2 DEF ListInv, ListTyped
<1>4. FetchFits'
  <2>1. CASE listFetch' = NoListFetch
    BY <2>1 DEF FetchFits, NoListFetch
  <2>2. CASE listFetch' = FetchAll
    <3>1. pages \in Seq(SummaryPages)
      BY DEF ListInv, PagesFit
    <3>2. PICK fetch : fetch = FetchAll
      OBVIOUS
    <3>3. PagesFit(fetch.got)'
      BY <1>2, <3>1, <3>2, FromTheFirst
    <3>. QED BY <1>1, <2>2, <3>1, <3>2, <3>3, FromTheFirst, FetchGoesOn
  <2>. QED BY <1>1, <2>1, <2>2
<1>. QED BY <1>2, <1>3, <1>4 DEF ListInv

\* The first page of a list is a list of its own.
LEMMA FirstPageFits ==
    ASSUME ListInv, ~restrictToIds, pages # <<>>
    PROVE  PagesFit(<<Head(pages)>>)
<1>1. publications \in Seq(Catalogs) /\ pages \in Seq(SummaryPages) /\ OneReading(pages)
  BY DEF ListInv, ListTyped, PagesFit
<1>2. 1 \in 1..Len(pages) /\ Head(pages) = pages[1] /\ pages[1] \in SummaryPages
  BY <1>1
<1>3. OneReading(<<pages[1]>>)
  BY <1>1, <1>2 DEF OneReading
<1>. QED BY <1>2, <1>3 DEF PagesFit

\* The first page is saved.
LEMMA PersistStep ==
    ASSUME ListInv, PersistFirstPage PROVE ListInv'
<1>1. /\ publications' = publications /\ restrictToIds' = restrictToIds /\ pages' = pages
      /\ listFetch' = listFetch /\ catalogCache' = catalogCache /\ pageStatus' = pageStatus
      /\ ~restrictToIds
      /\ devicePage' = IF pageStatus = "success" THEN Head(pages) ELSE NoPage
  BY DEF PersistFirstPage
<1>2. /\ FetchFits' /\ CatalogFits' /\ publications' \in Seq(Catalogs) /\ PagesFit(pages)'
      /\ \A read : PagesFit(read) => PagesFit(read)'
  BY <1>1, Kept
<1>3. ListTyped'
  BY <1>1, <1>2 DEF ListInv, ListTyped
<1>4. DeviceFits'
  <2>1. CASE pageStatus = "success"
    <3>1. PICK read : read = <<Head(pages)>>
      OBVIOUS
    <3>2. PagesFit(read)'
      BY <1>1, <1>2, <2>1, <3>1, FirstPageFits DEF ListInv, ListTyped
    <3>3. <<devicePage'>> = read
      BY <1>1, <2>1, <3>1
    <3>4. PagesFit(<<devicePage>>)'
      BY <3>2, <3>3, FitsThere
    <3>. QED BY <1>1, <3>4 DEF DeviceFits
  <2>2. CASE pageStatus # "success"
    BY <1>1, <2>2 DEF DeviceFits
  <2>. QED BY <2>1, <2>2
<1>. QED BY <1>2, <1>3, <1>4 DEF ListInv

\* The app starts again, with the saved page or with nothing.
LEMMA RestartStep ==
    ASSUME ListInv, RestartApp PROVE ListInv'
<1>1. /\ publications' = publications /\ restrictToIds' = restrictToIds
      /\ listFetch' = NoListFetch /\ catalogCache' = NoPage /\ devicePage' = devicePage
      /\ \/ /\ devicePage # NoPage
            /\ pages' = <<devicePage>> /\ pageStatus' = "success"
         \/ pages' = <<>> /\ pageStatus' = "pending"
  BY DEF RestartApp
<1>2. /\ DeviceFits' /\ publications' \in Seq(Catalogs)
      /\ \A read : PagesFit(read) => PagesFit(read)'
  BY <1>1, Kept
<1>3. ListTyped'
  <2>1. <<devicePage>> # <<>>
    OBVIOUS
  <2>2. pageStatus' = "success" => pages' # <<>>
    BY <1>1, <2>1
  <2>. QED BY <1>1, <1>2, <2>2 DEF ListInv, ListTyped
<1>4. PICK read : read = pages'
  OBVIOUS
<1>5. PagesFit(read)
  <2>1. CASE pages' = <<devicePage>> /\ devicePage # NoPage
    BY <1>4, <2>1 DEF ListInv, DeviceFits
  <2>2. CASE pages' = <<>>
    BY <1>4, <2>2, FromTheFirst DEF ListInv, PagesFit
  <2>. QED BY <1>1, <2>1, <2>2
<1>6. PagesFit(pages)'
  BY <1>2, <1>4, <1>5, FitsThere
<1>7. FetchFits' /\ CatalogFits'
  BY <1>1 DEF FetchFits, CatalogFits, NoListFetch
<1>. QED BY <1>2, <1>3, <1>6, <1>7 DEF ListInv

\* The full catalog is read: what is kept is what its tag names.
LEMMA CatalogSteps ==
    ASSUME ListInv, ReadCatalog \/ CatalogArrives \/ CatalogFails PROVE ListInv'
<1>1. /\ publications' = publications /\ restrictToIds' = restrictToIds /\ pages' = pages
      /\ devicePage' = devicePage /\ pageStatus' = pageStatus /\ listFetch' = listFetch
  BY DEF ReadCatalog, CatalogArrives, CatalogFails
<1>2. /\ DeviceFits' /\ FetchFits' /\ publications' \in Seq(Catalogs) /\ PagesFit(pages)'
      /\ catalogCache' = catalogCache => CatalogFits'
  BY <1>1, Kept
<1>3. ListTyped'
  BY <1>1, <1>2 DEF ListInv, ListTyped
<1>4. CatalogFits'
  <2>1. CASE catalogCache' = catalogCache
    BY <1>2, <2>1
  <2>2. CASE catalogCache' # catalogCache
    <3>1. PICK g \in 1..Len(publications) :
             catalogCache' = [generation |-> g, markets |-> publications[g]]
      BY <2>2 DEF ReadCatalog, CatalogArrives, CatalogFails
    <3>. QED BY <1>1, <3>1 DEF CatalogFits
  <2>. QED BY <2>1, <2>2
<1>. QED BY <1>2, <1>3, <1>4 DEF ListInv

\* A generation is published, or nothing happens.
LEMMA PublishStep ==
    ASSUME ListInv, Publish \/ UNCHANGED listVars PROVE ListInv'
<1>1. /\ restrictToIds' = restrictToIds /\ pages' = pages /\ catalogCache' = catalogCache
      /\ devicePage' = devicePage /\ pageStatus' = pageStatus /\ listFetch' = listFetch
      /\ Publish \/ publications' = publications
  BY DEF Publish, listVars
<1>2. /\ DeviceFits' /\ FetchFits' /\ publications' \in Seq(Catalogs) /\ PagesFit(pages)'
      /\ CatalogFits'
  BY <1>1, Kept
<1>3. ListTyped'
  BY <1>1, <1>2 DEF ListInv, ListTyped
<1>. QED BY <1>2, <1>3 DEF ListInv

\* However refetches, next pages, refusals, caches and restarts interleave, a list
\* of markets is of one generation, or of the user's own ids, and shows no market
\* twice; for any markets, volumes, page size and bounds.
THEOREM ListsAreOneGeneration == ListSpec => []ListIsOneGeneration
<1>1. ListInit => ListInv
  BY ListStart
<1>2. ListInv /\ [PagesNext \/ CatalogNext]_listVars => ListInv'
  BY RefetchStep, LoadNextStep, PageStep, ListFaultSteps, PersistStep, RestartStep, CatalogSteps,
     PublishStep DEF PagesNext, CatalogNext
<1>3. ListInv => ListIsOneGeneration
  BY ListShown
<1>. QED BY <1>1, <1>2, <1>3, PTL DEF ListSpec

=============================================================================
