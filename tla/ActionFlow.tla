----------------------------- MODULE ActionFlow -----------------------------
(***************************************************************************)
(* From the tap on Confirm to the result on the sheet: the orchestrator's  *)
(* confirm pipeline, the reducer of the flow it shows, the runtime         *)
(* provider that starts, dismisses and retries reviews, and the mounting   *)
(* of runtimes, over the journal (ActionJournal) and the trading context   *)
(* (ContextSupervisor).                                                    *)
(*                                                                         *)
(* An action of a confirmation is the code between two of its awaits.  The *)
(* session, the exchange client and the reconciliation port are here what  *)
(* they promise: a session call resolves only while the context is         *)
(* current, submit resolves with an outcome or throws before it sends, the *)
(* port ends with the row's outcome or with null (see SignerSession and    *)
(* Reconciliation).  The journal id of a confirmation is the confirmation. *)
(***************************************************************************)
EXTENDS ContextSupervisor

CONSTANTS
    Confirmations,     \* calls of confirm
    Orchestrators,     \* orchestrators the runtime provider is given in turn
    Runtimes,          \* mounts of the runtime, each with a repository
    ViewOnly,          \* contexts without a signer
    Intents,           \* equivalence fingerprints of reviewed actions
    ActionExpiry,      \* ACTION_EXPIRY_MS
    MaxTime,           \* bound: last time
    MaxFaults          \* bound: journal transitions the database refuses

ASSUME FlowAssumption ==
    /\ "none" \notin Confirmations \cup Orchestrators \cup Runtimes
    /\ ViewOnly \subseteq Contexts
    /\ ActionExpiry \in Nat \ {0} /\ MaxTime \in Nat /\ MaxFaults \in Nat

VARIABLES
    wall, scopes, journal, open, prepared, writes,   \* see ActionJournal
    flows,         \* the flow state of each orchestrator
    frames,        \* the running and ended confirmations
    mounted,       \* the orchestrator the runtime provider has
    lastFlow,      \* flowRef: the flow it saw last, for when it has none
    runtime,       \* the mounted runtime
    review,        \* the review the sheet shows
    pending,       \* reviewedSubmissionPending of each mounted provider
    startup,       \* rows the mounted runtime reconciles from its startup
    faults         \* refused transitions so far

J == INSTANCE ActionJournal WITH
        JournalIds <- Confirmations, Agents <- Contexts,
        Accounts <- Contexts, Repositories <- Runtimes,
        Owners <- Runtimes, MaxClockRollback <- 0, MaxSampleAge <- 0,
        MaxServerSkew <- 0, LeaseDuration <- 1, MaxBackoff <- 0,
        Outcomes <- {"accepted", "rejected", "expired",
                     "reconciled_ambiguous"},
        MaxAttempts <- 0, tombstones <- <<>>, permits <- {},
        lifetime <- Confirmations \cup {}

journalVars == <<wall, scopes, journal, open, prepared, writes>>
uiVars == <<mounted, lastFlow, runtime, startup>>
vars == <<journalVars, contextVars, flows, frames, review, pending, uiVars,
          faults>>

-----------------------------------------------------------------------------
(* reduceActionFlow *)

InitialFlow == [phase |-> "review", generation |-> 0, journalId |-> "none"]

\* Faulty variant: the sheet can be left once the request is on its way.
CriticalPhasesUnsent == {"unlocking", "refreshing", "reserving", "signing",
                         "submission_start"}

CriticalPhases == {"unlocking", "refreshing", "reserving", "signing",
                   "submission_start", "submitting"}

TerminalPhases == {"accepted", "rejected", "expired", "ambiguous"}

ConfirmablePhases == {"review", "failed_before_submission"}

NextPhase == [refreshing |-> "unlocking", unlocking |-> "reserving",
              reserving |-> "signing", signing |-> "submission_start",
              submission_start |-> "submitting"]

IsCurrent(flow, generation) == flow.generation = generation

Confirm(flow) ==
    IF flow.phase \in ConfirmablePhases
    THEN [phase |-> "refreshing", generation |-> flow.generation + 1,
          journalId |-> "none"]
    ELSE flow

Advance(flow, generation, phase, j) ==
    IF /\ IsCurrent(flow, generation)
       /\ flow.phase \in DOMAIN NextPhase /\ NextPhase[flow.phase] = phase
    THEN [flow EXCEPT !.phase = phase,
                      !.journalId = IF j = "none" THEN @ ELSE j]
    ELSE flow

ShowUnresolved(flow, generation, j) ==
    IF IsCurrent(flow, generation) /\ flow.phase = "submitting"
    THEN [flow EXCEPT !.phase = "reconciling", !.journalId = j]
    ELSE flow

ShowTerminal(flow, generation, j, phase) ==
    IF /\ IsCurrent(flow, generation)
       /\ flow.phase \in {"submitting", "reconciling"}
    THEN [flow EXCEPT !.phase = phase, !.journalId = j]
    ELSE flow

FailBeforeSubmission(flow, generation, j) ==
    IF /\ IsCurrent(flow, generation)
       /\ flow.phase \in DOMAIN NextPhase
    THEN [flow EXCEPT !.phase = "failed_before_submission",
                      !.journalId = IF j = "none" THEN @ ELSE j]
    ELSE flow

Reset(flow) == [InitialFlow EXCEPT !.generation = flow.generation + 1]

-----------------------------------------------------------------------------
(* Confirmations *)

Reviews == [epoch: 0..MaxEpoch, binding: Contexts, intent: Intents]

NoReview == [epoch |-> 0, binding |-> "none", intent |-> "none"]

NoFrame == [pc |-> "idle", orchestrator |-> "none", runtime |-> "none",
            generation |-> 0, review |-> NoReview, reviewed |-> FALSE,
            authenticated |-> FALSE, row |-> "none"]

\* isActionReviewContextCurrent
ContextCurrent(r) == r.epoch = epoch /\ r.binding = rendered

FlowOf(f) == flows[frames[f].orchestrator]

\* The step of confirmation f leaves flow on display and goes on as frame.
Goes(f, frame, flow) ==
    /\ flows' = [flows EXCEPT ![frame.orchestrator] = flow]
    /\ frames' = [frames EXCEPT ![f] = frame]

\* The finally block of reviewAndSubmit.
PendingAfter(frame) ==
    IF frame.reviewed THEN [pending EXCEPT ![frame.runtime] = FALSE]
                      ELSE pending

\* confirm returns; reviewAndSubmit drops a review that was not shown.
Returns(f, frame, flow, shown) ==
    /\ Goes(f, [frame EXCEPT !.pc = "done"], flow)
    /\ pending' = PendingAfter(frame)
    /\ review' = IF /\ frame.reviewed /\ ~frame.authenticated
                    /\ frame.runtime = runtime
                 THEN NoReview ELSE shown

\* Faulty variant: a submitted row is given up like a prepared one.
RowAfterFailureForgotten(row) ==
    IF row.state \in J!ReconcilableStates \cup {"prepared"}
    THEN J!Transitioned(row, "abandoned_before_submission")
    ELSE row

\* The rows reconcileFailure leaves: the transition it makes, or the row as
\* it was if the database refuses the transition.
RowAfterFailure(row) ==
    CASE row.state = "submission_started" -> J!Transitioned(row, "unresolved")
      [] row.state = "prepared" ->
            J!Transitioned(row, "abandoned_before_submission")
      [] OTHER -> row

\* The outcomes a port writes, and the phases they are shown as.
PortOutcomes == {"accepted", "rejected", "expired", "reconciled_ambiguous"}

PhaseOfState(state) ==
    IF state = "reconciled_ambiguous" THEN "ambiguous" ELSE state

\* Faulty variants: the row is not looked at; the answer is believed although
\* the row is settled.
FlowAfterFailureBlind(flow, generation, j, row) ==
    FailBeforeSubmission(flow, generation, j)

FlowAfterFailureAnswered(flow, generation, j, row) ==
    IF row.state \in J!ReconcilableStates
    THEN ShowUnresolved(flow, generation, j)
    ELSE ShowTerminal(FailBeforeSubmission(flow, generation, j), generation,
                      j, "accepted")

\* What reconcileFailure shows: what the durable row says.
FlowAfterFailure(flow, generation, j, row) ==
    LET submitted == IF flow.phase = "submission_start"
                     THEN Advance(flow, generation, "submitting", j)
                     ELSE flow
    IN  CASE row.state \in J!ReconcilableStates ->
                ShowUnresolved(submitted, generation, j)
          [] row.state \in PortOutcomes ->
                ShowTerminal(submitted, generation, j,
                             PhaseOfState(row.state))
          [] row.state \in {"prepared", "abandoned_before_submission"} ->
                FailBeforeSubmission(flow, generation, j)
          [] row.state = "absent" ->
                FailBeforeSubmission(flow, generation, "none")

\* The catch block of confirm: reconcileFailure, then the port if the flow is
\* reconciling.
Fails(f, frame, flow, shown) ==
    \E refused \in BOOLEAN :
        LET row  == IF refused THEN journal[f] ELSE RowAfterFailure(journal[f])
            next == FlowAfterFailure(flow, frame.generation, f, row)
        IN  /\ refused => /\ faults < MaxFaults
                          /\ RowAfterFailure(journal[f]) # journal[f]
            /\ faults' = IF refused THEN faults + 1 ELSE faults
            /\ journal' = [journal EXCEPT ![f] = row]
            /\ prepared' =
                  IF row.state # journal[f].state
                  THEN [prepared EXCEPT ![frame.runtime] = @ \ {f}]
                  ELSE prepared
            /\ IF next.phase = "reconciling" /\ next.journalId # "none"
               THEN /\ Goes(f, [frame EXCEPT !.pc = "reconciling",
                                             !.row = next.journalId], next)
                    /\ review' = shown
                    /\ UNCHANGED pending
               ELSE Returns(f, frame, next, shown)
            /\ UNCHANGED <<wall, scopes, open, writes, contextVars, uiVars>>

\* confirm up to its first await, on the flow the provider left it.
Begins(f, r, reviewed, flow, shown) ==
    LET confirmed == Confirm(flow)
        frame == [NoFrame EXCEPT !.orchestrator = mounted,
                                 !.runtime = runtime,
                                 !.generation = confirmed.generation,
                                 !.review = r, !.reviewed = reviewed]
    IN  /\ IF ContextCurrent(r)
           THEN /\ Goes(f, [frame EXCEPT !.pc = "refreshing"], confirmed)
                /\ review' = shown
                /\ pending' = IF reviewed
                              THEN [pending EXCEPT ![runtime] = TRUE]
                              ELSE pending
           ELSE Returns(f, frame,
                        FailBeforeSubmission(confirmed, frame.generation,
                                             "none"), shown)
        /\ UNCHANGED <<journalVars, contextVars, uiVars, faults>>

\* reviewAndSubmit with a review captured now or before a switch.
ReviewAndSubmit(f, r) ==
    /\ frames[f].pc = "idle"
    /\ mounted # "none"
    /\ ~pending[runtime]
    /\ flows[mounted].phase \in ConfirmablePhases \cup {"rejected"}
    /\ r.epoch <= epoch /\ r.binding = rendered
    /\ Begins(f, r, TRUE, Reset(flows[mounted]), NoReview)

\* Confirm on the sheet, for the review it shows.
ConfirmOnSheet(f) ==
    /\ frames[f].pc = "idle"
    /\ mounted # "none" /\ review # NoReview
    /\ flows[mounted].phase \in ConfirmablePhases
    /\ Begins(f, review, FALSE, flows[mounted], review)

\* The refresh resolves with what was reviewed.
Refreshed(f) ==
    LET frame == frames[f]
    IN  /\ frame.pc = "refreshing" /\ ContextCurrent(frame.review)
        /\ Goes(f, [frame EXCEPT !.pc = "unlocking"],
                Advance(FlowOf(f), frame.generation, "unlocking", "none"))
        /\ UNCHANGED <<journalVars, contextVars, review, pending, uiVars,
                       faults>>

\* The refresh rejects or no longer agrees with the review, the unlock or
\* the signature fails, or the context is not current afterwards.
FailsWaiting(f) ==
    /\ frames[f].pc \in {"refreshing", "unlocking", "signing"}
    /\ Fails(f, frames[f], FlowOf(f), review)

\* onAuthenticated shows the review, if its provider is still mounted.
Authenticated(frame) == [frame EXCEPT !.authenticated = TRUE]

ReviewShown(frame) ==
    IF frame.reviewed /\ frame.runtime = runtime THEN frame.review ELSE review

\* The session is unlocked: the row is reserved and the signature asked for.
Unlocked(f) ==
    LET frame == frames[f]
        reserving == Advance(FlowOf(f), frame.generation, "reserving", "none")
    IN  /\ frame.pc = "unlocking" /\ ContextCurrent(frame.review)
        /\ \/ /\ J!ReservePreparedAction(
                    frame.runtime, f, frame.review.binding,
                    frame.review.binding, frame.review.intent,
                    [age |-> 0, serverTime |-> wall])
              /\ Goes(f, [Authenticated(frame) EXCEPT !.pc = "signing"],
                      Advance(reserving, frame.generation, "signing", f))
              /\ review' = ReviewShown(frame)
              /\ UNCHANGED <<contextVars, pending, uiVars, faults>>
           \/ Fails(f, Authenticated(frame), reserving, ReviewShown(frame))

\* The signature is there: the marker is made durable and the request sent.
Signed(f) ==
    LET frame == frames[f]
        starting == Advance(FlowOf(f), frame.generation, "submission_start", f)
        mayMark == f \in prepared[frame.runtime] /\ J!MayMarkSubmissionStarted(f)
    IN  /\ frame.pc = "signing" /\ ContextCurrent(frame.review)
        /\ \/ /\ mayMark
              /\ journal' = [journal EXCEPT ![f] = J!SubmissionStarted(@)]
              /\ prepared' = [prepared EXCEPT ![frame.runtime] = @ \ {f}]
              /\ writes' = [writes EXCEPT ![f] = @ + 1]
              /\ Goes(f, [frame EXCEPT !.pc = "submitting"],
                      Advance(starting, frame.generation, "submitting", f))
              /\ UNCHANGED <<wall, scopes, open, contextVars, review, pending,
                             uiVars, faults>>
           \/ ~mayMark /\ Fails(f, frame, starting, review)

\* submit resolves: accepted, rejected, expired, or without an answer.  The
\* row may have been recovered or settled by another runtime meanwhile: then
\* the transition is refused.
Responds(f, kind) ==
    LET frame == frames[f]
    IN  /\ frame.pc = "submitting"
        /\ \/ /\ J!TransitionAction(frame.runtime, f, kind)
              /\ IF kind = "unresolved"
                 THEN /\ Goes(f, [frame EXCEPT !.pc = "reconciling",
                                               !.row = f],
                              ShowUnresolved(FlowOf(f), frame.generation, f))
                      /\ UNCHANGED <<review, pending>>
                 ELSE Returns(f, frame,
                              ShowTerminal(FlowOf(f), frame.generation, f,
                                           kind), review)
              /\ UNCHANGED <<contextVars, uiVars, faults>>
           \/ /\ kind \notin J!AllowedTransitions[journal[f].state]
              /\ Fails(f, frame, FlowOf(f), review)

\* submit throws while it checks the signed request.
SubmitThrows(f) ==
    /\ frames[f].pc = "submitting"
    /\ Fails(f, frames[f], FlowOf(f), review)

\* reconcileUnresolved: the port settles the row, finds it settled, or gives
\* up and leaves the flow as it is.
PortEnds(f) ==
    LET frame == frames[f]
        j == frame.row
        shows(state) == ShowTerminal(FlowOf(f), frame.generation, j,
                                     PhaseOfState(state))
    IN  /\ frame.pc = "reconciling"
        /\ \/ \E state \in PortOutcomes :
                 /\ journal[j].state \in J!ReconcilableStates
                 /\ J!TransitionAction(frame.runtime, j, state)
                 /\ Returns(f, frame, shows(state), review)
           \/ /\ journal[j].state \in PortOutcomes
              /\ Returns(f, frame, shows(journal[j].state), review)
              /\ UNCHANGED journalVars
           \/ /\ Returns(f, frame, FlowOf(f), review)
              /\ UNCHANGED journalVars
        /\ UNCHANGED <<contextVars, uiVars, faults>>

-----------------------------------------------------------------------------
(* The runtime and its provider *)

\* runtime.readFlow
DisplayedFlow == IF mounted = "none" THEN lastFlow ELSE flows[mounted]

\* dismiss and clear: Back, or the sheet closing itself after acceptance.
Dismiss ==
    /\ review # NoReview
    /\ DisplayedFlow.phase \notin CriticalPhases
    /\ review' = NoReview
    /\ IF mounted = "none"
       THEN lastFlow' = InitialFlow /\ UNCHANGED flows
       ELSE /\ flows' = [flows EXCEPT ![mounted] = Reset(@)]
            /\ UNCHANGED lastFlow
    /\ UNCHANGED <<journalVars, contextVars, frames, pending, mounted,
                   runtime, startup, faults>>

\* The scope of the rendered context is registered and an orchestrator made.
MountOrchestrator(o) ==
    /\ runtime # "none" /\ mounted = "none"
    /\ rendered \notin ViewOnly
    /\ flows[o] = InitialFlow
    /\ \A f \in Confirmations : frames[f].orchestrator # o
    /\ mounted' = o
    /\ UNCHANGED <<journalVars, contextVars, flows, frames, review, pending,
                   lastFlow, runtime, startup, faults>>

\* A context is rendered: the orchestrator of the old one is let go, and the
\* provider keeps the flow it saw last.
RenderContext ==
    /\ Render
    /\ mounted' = "none"
    /\ lastFlow' = DisplayedFlow
    /\ UNCHANGED <<journalVars, flows, frames, review, pending, runtime,
                   startup, faults>>

ContextStep ==
    \/ /\ \/ \E next \in Contexts : SwitchContext(next)
          \/ \E switch \in switches : \/ CommitSwitch(switch)
                                      \/ DropSwitch(switch)
                                      \/ FailSwitch(switch)
       /\ UNCHANGED <<journalVars, flows, frames, review, pending, uiVars,
                      faults>>
    \/ RenderContext

\* A runtime mounts, in a new process or in this one while confirmations of
\* the previous mount go on: it opens a repository, recovers the journal and
\* starts a port for every row that waits.
MountRuntime(r) ==
    /\ r \notin open
    /\ runtime' = r
    /\ open' = open \cup {r}
    /\ journal' = [f \in Confirmations |-> J!Recovered(journal[f])]
    /\ startup' = {f \in Confirmations :
                     J!Recovered(journal[f]).state \in J!ReconcilableStates}
    /\ mounted' = "none" /\ lastFlow' = InitialFlow /\ review' = NoReview
    /\ UNCHANGED <<wall, scopes, prepared, writes, contextVars, flows, frames,
                   pending, faults>>

\* A startup port settles its row.
StartupSettles(j, state) ==
    /\ j \in startup
    /\ journal[j].state \in J!ReconcilableStates
    /\ J!TransitionAction(runtime, j, state)
    /\ UNCHANGED <<contextVars, flows, frames, review, pending, uiVars,
                   faults>>

\* The process dies: the journal stays, and the selected context.
CrashProcess ==
    /\ open # {}
    /\ open' = {} /\ prepared' = [r \in Runtimes |-> {}]
    /\ frames' = [f \in Confirmations |->
                    IF frames[f].pc = "idle" THEN NoFrame
                    ELSE [NoFrame EXCEPT !.pc = "done"]]
    /\ flows' = [o \in Orchestrators |-> InitialFlow]
    /\ pending' = [r \in Runtimes |-> FALSE]
    /\ mounted' = "none" /\ lastFlow' = InitialFlow /\ review' = NoReview
    /\ runtime' = "none" /\ startup' = {}
    /\ UNCHANGED <<wall, scopes, journal, writes, contextVars, faults>>

Tick ==
    /\ wall < MaxTime
    /\ J!SetWallClock(wall + 1)
    /\ UNCHANGED <<contextVars, flows, frames, review, pending, uiVars,
                   faults>>

-----------------------------------------------------------------------------
Init ==
    /\ ContextInit
    /\ wall = 0
    /\ scopes = [c \in Contexts |->
                   [J!NoScope EXCEPT !.status = "active", !.account = c]]
    /\ journal = [f \in Confirmations |-> J!NoRow]
    /\ open = {}
    /\ prepared = [r \in Runtimes |-> {}]
    /\ writes = [f \in Confirmations |-> 0]
    /\ flows = [o \in Orchestrators |-> InitialFlow]
    /\ frames = [f \in Confirmations |-> NoFrame]
    /\ mounted = "none" /\ runtime = "none" /\ review = NoReview
    /\ lastFlow = InitialFlow
    /\ pending = [r \in Runtimes |-> FALSE]
    /\ startup = {}
    /\ faults = 0

\* A confirmation goes on when what it waits for ends.
Continue(f) ==
    \/ Refreshed(f)
    \/ FailsWaiting(f)
    \/ Unlocked(f)
    \/ Signed(f)
    \/ \E kind \in {"accepted", "rejected", "expired", "unresolved"} :
          Responds(f, kind)
    \/ SubmitThrows(f)
    \/ PortEnds(f)

UserStep ==
    \/ \E f \in Confirmations :
          \/ \E r \in Reviews : ReviewAndSubmit(f, r)
          \/ ConfirmOnSheet(f)
    \/ Dismiss

RuntimeStep ==
    \/ \E o \in Orchestrators : MountOrchestrator(o)
    \/ \E r \in Runtimes : MountRuntime(r)
    \/ \E j \in Confirmations, state \in PortOutcomes : StartupSettles(j, state)
    \/ CrashProcess

Next ==
    \/ \E f \in Confirmations : Continue(f)
    \/ UserStep
    \/ ContextStep
    \/ RuntimeStep
    \/ Tick

Spec == Init /\ [][Next]_vars

\* Requests time out, prompts are answered and ports end; React renders and
\* mounts; the user need not do anything.
FairSpec ==
    /\ Spec
    /\ \A f \in Confirmations : WF_vars(Continue(f))
    /\ WF_vars(RenderContext)
    /\ WF_vars(\E o \in Orchestrators : MountOrchestrator(o))

-----------------------------------------------------------------------------
(* Correctness *)

\* Type invariant.
TypeOK ==
    /\ ContextTypeOK
    /\ wall \in 0..MaxTime
    /\ journal \in [Confirmations -> J!RowType]
    /\ scopes \in [Contexts -> J!ScopeType]
    /\ writes \in [Confirmations -> 0..1]
    /\ \A o \in Orchestrators :
          /\ flows[o].phase \in DOMAIN NextPhase \cup ConfirmablePhases
                                \cup TerminalPhases
                                \cup {"submitting", "reconciling"}
          /\ flows[o].generation \in Nat
          /\ flows[o].journalId \in Confirmations \cup {"none"}
    /\ \A f \in Confirmations :
          frames[f].pc \in {"idle", "refreshing", "unlocking", "signing",
                            "submitting", "reconciling", "done"}
    /\ review \in Reviews \cup {NoReview}
    /\ pending \in [Runtimes -> BOOLEAN]
    /\ mounted \in Orchestrators \cup {"none"}

\* A confirmation that can still send, or has sent and waits, is the one its
\* orchestrator displays, in the phase it is in: it cannot be dismissed, and
\* no other confirmation of that orchestrator runs beside it.
InFlightIsShown ==
    \A f \in Confirmations :
        frames[f].pc \in {"refreshing", "unlocking", "signing", "submitting"}
            => /\ FlowOf(f).generation = frames[f].generation
               /\ FlowOf(f).phase = frames[f].pc

\* The flow displayed for a confirmation.
Displays(f, phases) ==
    /\ frames[f].orchestrator # "none"
    /\ FlowOf(f).generation = frames[f].generation
    /\ FlowOf(f).phase \in phases

\* What is shown is true of the very action that was confirmed. "Failed before
\* submission" is only shown when no request was made and none will be (the user
\* may order again); a final outcome is the durable one, although the response,
\* the port and the ports of another runtime write it in any order, and late
\* ones belong to dismissed flows. And unless the database refused it, a
\* reservation whose confirmation ended is given up, so it does not block an
\* equivalent action.
OutcomeIsDurable ==
    \A f \in Confirmations :
        /\ Displays(f, {"failed_before_submission"}) =>
              /\ writes[f] = 0
              /\ journal[f].state \in {"absent", "prepared",
                                       "abandoned_before_submission"}
              /\ frames[f].pc = "done"
        /\ Displays(f, TerminalPhases) =>
              /\ FlowOf(f).journalId = f
              /\ PhaseOfState(journal[f].state) = FlowOf(f).phase
        /\ Displays(f, {"reconciling"}) =>
              FlowOf(f).journalId = f /\ writes[f] = 1
        /\ faults = 0 /\ open # {} /\ journal[f].state = "prepared" =>
              frames[f].pc = "signing"

\* A sheet that holds the user is let go in the end, also when its context is
\* left for one without a signer, where the provider listens to nothing, and
\* entered again: only an app that stays in such a context for good may keep
\* the sheet.
SheetCanBeLeft ==
    (review # NoReview /\ DisplayedFlow.phase \in CriticalPhases) ~>
        \/ review = NoReview
        \/ DisplayedFlow.phase \notin CriticalPhases
        \/ [](rendered \in ViewOnly)

-----------------------------------------------------------------------------
(* Refinement *)

\* The actions of the contract are the rows.
Contract == INSTANCE ActionLife WITH
    Actions <- Confirmations,
    life <- [f \in Confirmations |-> J!LifeOf(journal[f])],
    request <- [f \in Confirmations |-> J!RequestOf(journal[f])],
    sent <- writes

\* The confirmations implement ActionLife: what the user, remounts, context
\* switches, refused transitions and late answers do to an action is what is promised
\* of it.
ImplementsActionLife == Contract!Spec

=============================================================================
