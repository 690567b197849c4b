-------------------------- MODULE ActionFlowProofs --------------------------
(***************************************************************************)
(* Proofs about ActionFlow: its types, that a confirmation that can still  *)
(* send is the one displayed (InFlightIsShown), and that what is displayed *)
(* is true of the durable row (OutcomeIsDurable), for any number of        *)
(* confirmations, orchestrators, runtimes, contexts and refused            *)
(* transitions.  And that the confirmations implement ActionLife           *)
(* (ImplementsActionLife), step by step.                                   *)
(*                                                                         *)
(* The invariant relates each confirmation to three things: the generation *)
(* of its orchestrator's flow, which no other confirmation shares; the     *)
(* phase displayed while the generations agree; and its row, which knows   *)
(* whether the request was written.                                        *)
(***************************************************************************)
EXTENDS ActionFlow, TLAPS

-----------------------------------------------------------------------------
(* Types. *)

Waiting == {"refreshing", "unlocking", "signing"}
InFlight == Waiting \cup {"submitting"}
Steps == InFlight \cup {"idle", "reconciling", "done"}

FlowPhases == DOMAIN NextPhase \cup ConfirmablePhases \cup TerminalPhases
                \cup {"submitting", "reconciling"}

FlowRecords == [phase : FlowPhases, generation : Nat,
                journalId : Confirmations \cup {"none"}]

FrameRecords == [pc : Steps, orchestrator : Orchestrators \cup {"none"},
                 runtime : Runtimes \cup {"none"}, generation : Nat,
                 review : Reviews \cup {NoReview}, reviewed : BOOLEAN,
                 authenticated : BOOLEAN, row : Confirmations \cup {"none"}]

JournalTyped ==
    /\ wall \in 0..MaxTime
    /\ scopes \in [Contexts -> J!ScopeType]
    /\ journal \in [Confirmations -> J!RowType]
    /\ open \subseteq Runtimes
    /\ prepared \in [Runtimes -> SUBSET Confirmations]
    /\ writes \in [Confirmations -> 0..1]
    /\ faults \in Nat

\* An orchestrator is mounted in a runtime, and the mounted runtime is open.
ScreenTyped ==
    /\ flows \in [Orchestrators -> FlowRecords]
    /\ frames \in [Confirmations -> FrameRecords]
    /\ lastFlow \in FlowRecords
    /\ mounted \in Orchestrators \cup {"none"}
    /\ runtime \in Runtimes \cup {"none"}
    /\ review \in Reviews \cup {NoReview}
    /\ pending \in [Runtimes -> BOOLEAN]
    /\ startup \subseteq Confirmations
    /\ runtime # "none" => runtime \in open
    /\ mounted # "none" => runtime # "none"

ContextTyped == ContextTypeOK /\ epoch \in 0..MaxEpoch

FlowTyped == JournalTyped /\ ScreenTyped /\ ContextTyped

-----------------------------------------------------------------------------
(* A confirmation, its flow and its row. *)

\* What a row says of the request: not written, or written and not given up.
UnsentStates == {"absent", "prepared", "abandoned_before_submission"}
SentStates == J!ReconcilableStates \cup PortOutcomes

\* How far the row is, by the step of the confirmation; clean says that no
\* transition was refused and the process runs.
RowFits(pc, row, written, clean) ==
    /\ written = 0 => row.state \in UnsentStates
    /\ written = 1 => row.state \in SentStates
    /\ pc \in {"idle", "refreshing", "unlocking"} => row.state = "absent"
    /\ pc = "signing" => row.state \in UnsentStates \ {"absent"}
    /\ pc \in {"submitting", "reconciling"} => written = 1
    /\ clean /\ row.state = "prepared" => pc = "signing"

\* A frame belongs to an orchestrator whose flow is of its generation or of a
\* later one; a flow in review has no confirmation yet.
FrameFits(f, frame, flow) ==
    /\ frame.pc = "idle" => frame = NoFrame
    /\ frame.pc \in InFlight \cup {"reconciling"} => frame.orchestrator # "none"
    /\ frame.pc = "reconciling" => frame.row = f
    /\ frame.orchestrator # "none" =>
          /\ frame.pc # "idle"
          /\ frame.runtime # "none"
          /\ frame.generation <= flow.generation
          /\ flow.phase = "review" => frame.generation < flow.generation
          /\ frame.pc \in InFlight => /\ flow.generation = frame.generation
                                      /\ flow.phase = frame.pc

\* What a flow shows of the confirmation of its generation.
DisplayFits(f, frame, flow, row, written) ==
    frame.orchestrator # "none" /\ flow.generation = frame.generation =>
        /\ frame.pc \in InFlight => flow.phase = frame.pc
        /\ frame.pc = "reconciling" => flow.phase = "reconciling"
        /\ flow.phase = "failed_before_submission" => written = 0
        /\ flow.phase \in TerminalPhases =>
              /\ flow.journalId = f
              /\ PhaseOfState(row.state) = flow.phase
        /\ flow.phase = "reconciling" => flow.journalId = f /\ written = 1

Fits(f, frame, flow, row, written, clean) ==
    /\ RowFits(frame.pc, row, written, clean)
    /\ FrameFits(f, frame, flow)
    /\ DisplayFits(f, frame, flow, row, written)

Clean == faults = 0 /\ open # {}

AllFit == \A f \in Confirmations :
              Fits(f, frames[f], FlowOf(f), journal[f], writes[f], Clean)

\* No two confirmations have the same generation of one orchestrator.
FramesApart ==
    \A f, g \in Confirmations :
        /\ f # g /\ frames[f].orchestrator # "none"
        /\ frames[g].orchestrator = frames[f].orchestrator
        => frames[g].generation # frames[f].generation

FlowInv == FlowTyped /\ AllFit /\ FramesApart

-----------------------------------------------------------------------------
(* Rows. *)

\* What the journal makes of a row, when the flow rewrites it.
LEMMA RowsRewritten ==
    ASSUME NEW row \in J!RowType, wall \in 0..MaxTime
    PROVE  /\ \A s \in J!JournalStates : /\ J!Transitioned(row, s) \in J!RowType
                                         /\ J!Transitioned(row, s).state = s
           /\ J!SubmissionStarted(row) \in J!RowType
           /\ J!SubmissionStarted(row).state = "submission_started"
           /\ J!Recovered(row) \in J!RowType
<1>1. \A s \in J!JournalStates : J!ResultForState(s) \in J!ResultClasses
  BY DEF J!JournalStates, J!ReconcilableStates, J!TerminalStates, J!ResultForState, J!ResultClasses
<1>2. ASSUME NEW s \in J!JournalStates
      PROVE  /\ J!Transitioned(row, s) \in J!RowType
             /\ J!Transitioned(row, s).state = s
  BY <1>1 DEF J!Transitioned, J!Unleased, J!RowType, J!Null
<1>3. wall \in Nat
  BY FlowAssumption
<1>4. J!SubmissionStarted(row) \in J!RowType /\ J!SubmissionStarted(row).state = "submission_started"
  BY <1>3 DEF J!SubmissionStarted, J!RowType, J!Null, J!JournalStates, J!ReconcilableStates
<1>5. J!Recovered(row) \in J!RowType
  BY DEF J!Recovered, J!RowType, J!JournalStates, J!ReconcilableStates, J!TerminalStates,
         J!ResultClasses
<1> QED
  BY <1>2, <1>4, <1>5

\* Recovery gives up what was not sent and keeps waiting for what was.
LEMMA RowRecovered ==
    ASSUME NEW row \in J!RowType
    PROVE  /\ row.state = "prepared" => J!Recovered(row).state = "abandoned_before_submission"
           /\ row.state = "submission_started" => J!Recovered(row).state = "unresolved"
           /\ row.state \notin {"prepared", "submission_started"} => J!Recovered(row) = row
BY DEF J!Recovered, J!RowType

\* What a failing confirmation makes of its row.
LEMMA RowFailed ==
    ASSUME NEW row \in J!RowType, wall \in 0..MaxTime
    PROVE  /\ RowAfterFailure(row) \in J!RowType
           /\ row.state = "prepared" =>
                 RowAfterFailure(row).state = "abandoned_before_submission"
           /\ row.state = "submission_started" => RowAfterFailure(row).state = "unresolved"
           /\ row.state \notin {"prepared", "submission_started"} => RowAfterFailure(row) = row
<1>1. {"unresolved", "abandoned_before_submission"} \subseteq J!JournalStates
  BY DEF J!JournalStates, J!ReconcilableStates, J!TerminalStates
<1> QED
  BY <1>1, RowsRewritten DEF RowAfterFailure

\* A transition the journal allows goes to a state of rows, and an outcome stays.
LEMMA Allowed ==
    ASSUME NEW s \in J!JournalStates, NEW next \in J!AllowedTransitions[s]
    PROVE  /\ next \in J!JournalStates
           /\ s \in SentStates => s \in J!ReconcilableStates /\ next \in SentStates
BY DEF J!AllowedTransitions, J!JournalStates, J!ReconcilableStates, J!TerminalStates, SentStates,
       PortOutcomes

-----------------------------------------------------------------------------
(* The reducer. *)

\* A phase advances only from the one before it, in its own generation.
LEMMA FlowAdvanced ==
    ASSUME NEW flow \in FlowRecords, NEW generation, NEW j \in Confirmations \cup {"none"},
           NEW phase \in DOMAIN NextPhase \cup {"submitting"}
    PROVE  /\ Advance(flow, generation, phase, j) \in FlowRecords
           /\ Advance(flow, generation, phase, j).generation = flow.generation
           /\ /\ flow.generation = generation /\ flow.phase \in DOMAIN NextPhase
              /\ NextPhase[flow.phase] = phase
              => Advance(flow, generation, phase, j).phase = phase
BY DEF Advance, FlowRecords, FlowPhases, IsCurrent

\* Reconciling and outcomes are shown of a request that was sent.
LEMMA FlowShown ==
    ASSUME NEW flow \in FlowRecords, NEW generation, NEW j \in Confirmations,
           NEW phase \in TerminalPhases
    PROVE  /\ ShowUnresolved(flow, generation, j) \in FlowRecords
           /\ ShowUnresolved(flow, generation, j).generation = flow.generation
           /\ flow.generation = generation /\ flow.phase = "submitting" =>
                 /\ ShowUnresolved(flow, generation, j).phase = "reconciling"
                 /\ ShowUnresolved(flow, generation, j).journalId = j
           /\ ShowTerminal(flow, generation, j, phase) \in FlowRecords
           /\ ShowTerminal(flow, generation, j, phase).generation = flow.generation
           /\ flow.generation = generation /\ flow.phase \in {"submitting", "reconciling"} =>
                 /\ ShowTerminal(flow, generation, j, phase).phase = phase
                 /\ ShowTerminal(flow, generation, j, phase).journalId = j
           /\ flow.generation # generation => ShowTerminal(flow, generation, j, phase) = flow
BY DEF ShowUnresolved, ShowTerminal, FlowRecords, FlowPhases, IsCurrent

\* A failure is shown of a request that is being prepared.
LEMMA FlowFailed ==
    ASSUME NEW flow \in FlowRecords, NEW generation, NEW j \in Confirmations \cup {"none"}
    PROVE  /\ FailBeforeSubmission(flow, generation, j) \in FlowRecords
           /\ FailBeforeSubmission(flow, generation, j).generation = flow.generation
           /\ flow.generation = generation /\ flow.phase \in DOMAIN NextPhase =>
                 FailBeforeSubmission(flow, generation, j).phase = "failed_before_submission"
BY DEF FailBeforeSubmission, FlowRecords, FlowPhases, ConfirmablePhases, IsCurrent

\* A confirmation and a dismissal start a new generation.
LEMMA FlowRestarted ==
    ASSUME NEW flow \in FlowRecords
    PROVE  /\ Reset(flow) \in FlowRecords
           /\ Reset(flow).generation = flow.generation + 1 /\ Reset(flow).phase = "review"
           /\ flow.phase \in ConfirmablePhases =>
                 /\ Confirm(flow) \in FlowRecords
                 /\ Confirm(flow).generation = flow.generation + 1
                 /\ Confirm(flow).phase = "refreshing"
BY DEF Reset, Confirm, InitialFlow, FlowRecords, FlowPhases, ConfirmablePhases, NextPhase

-----------------------------------------------------------------------------
(* What one step does to every confirmation. *)

\* A confirmation without an orchestrator fits any flow it does not have.
LEMMA UnseenFits ==
    ASSUME NEW f \in Confirmations, NEW frame \in FrameRecords, NEW flow, NEW flow2,
           NEW row, NEW written, NEW clean \in BOOLEAN, NEW clean2 \in BOOLEAN,
           frame.orchestrator = "none", clean2 => clean,
           Fits(f, frame, flow, row, written, clean)
    PROVE  Fits(f, frame, flow2, row, written, clean2)
BY DEF Fits, RowFits, FrameFits, DisplayFits

\* A confirmation of an earlier generation fits whatever its flow goes on to show.
LEMMA OvertakenFits ==
    ASSUME NEW f \in Confirmations, NEW frame \in FrameRecords,
           NEW flow \in FlowRecords, NEW flow2 \in FlowRecords,
           NEW row, NEW written, NEW clean \in BOOLEAN, NEW clean2 \in BOOLEAN,
           clean2 => clean, frame.pc \notin InFlight \/ frame.orchestrator = "none",
           frame.generation < flow2.generation,
           Fits(f, frame, flow, row, written, clean)
    PROVE  Fits(f, frame, flow2, row, written, clean2)
<1>1. RowFits(frame.pc, row, written, clean2)
  BY DEF Fits, RowFits
<1>2. FrameFits(f, frame, flow2)
  BY DEF Fits, FrameFits, FlowRecords, FrameRecords
<1>3. DisplayFits(f, frame, flow2, row, written)
  BY DEF DisplayFits, FlowRecords, FrameRecords
<1> QED
  BY <1>1, <1>2, <1>3 DEF Fits

\* A process that is open and lost no transition fits no worse when it is not.
LEMMA CleanFits ==
    ASSUME NEW f \in Confirmations, NEW frame, NEW flow, NEW row, NEW written,
           NEW clean \in BOOLEAN, NEW clean2 \in BOOLEAN, clean2 => clean,
           Fits(f, frame, flow, row, written, clean)
    PROVE  Fits(f, frame, flow, row, written, clean2)
BY DEF Fits, RowFits

\* A confirmation goes on: it moves its own frame and, while it is the displayed
\* one, its flow. The others are of other generations or other orchestrators.
LEMMA Continues ==
    ASSUME FlowInv, NEW f \in Confirmations, NEW frame \in FrameRecords,
           NEW flow \in FlowRecords, Goes(f, frame, flow),
           frames[f].orchestrator # "none",
           frame.orchestrator = frames[f].orchestrator,
           frame.generation = frames[f].generation,
           flow.generation = FlowOf(f).generation,
           frames[f].generation = FlowOf(f).generation \/ flow = FlowOf(f),
           \A g \in Confirmations \ {f} : journal'[g] = journal[g] /\ writes'[g] = writes[g],
           Clean' => Clean,
           Fits(f, frame, flow, journal'[f], writes'[f], Clean')
    PROVE  /\ flows' \in [Orchestrators -> FlowRecords]
           /\ frames' \in [Confirmations -> FrameRecords]
           /\ AllFit' /\ FramesApart'
<1> DEFINE o == frame.orchestrator
<1>1. /\ frames \in [Confirmations -> FrameRecords]
      /\ flows \in [Orchestrators -> FlowRecords]
      /\ o \in Orchestrators
  BY DEF FlowInv, FlowTyped, ScreenTyped, FrameRecords
<1>2. /\ flows' \in [Orchestrators -> FlowRecords] /\ flows'[o] = flow
      /\ \A p \in Orchestrators : p # o => flows'[p] = flows[p]
  BY <1>1 DEF Goes
<1>3. /\ frames' \in [Confirmations -> FrameRecords] /\ frames'[f] = frame
      /\ \A g \in Confirmations \ {f} : frames'[g] = frames[g]
  BY <1>1 DEF Goes
<1>4. FramesApart'
  BY <1>3 DEF FlowInv, FramesApart
<1>5. ASSUME NEW g \in Confirmations
      PROVE  Fits(g, frames[g], FlowOf(g), journal[g], writes[g], Clean)
  BY DEF FlowInv, AllFit
<1>6. Clean \in BOOLEAN /\ Clean' \in BOOLEAN
  BY DEF Clean
<1>7. ASSUME NEW g \in Confirmations
      PROVE  Fits(g, frames'[g], flows'[frames'[g].orchestrator], journal'[g], writes'[g], Clean')
  <2>1. CASE g = f
    BY <2>1, <1>2, <1>3
  <2>2. CASE g # f /\ frames[g].orchestrator # o
    <3>1. /\ frames'[g] = frames[g] /\ frames[g] \in FrameRecords
          /\ journal'[g] = journal[g] /\ writes'[g] = writes[g]
      BY <2>2, <1>1, <1>3
    <3>2. CASE frames[g].orchestrator = "none"
      BY <3>1, <3>2, <1>5, <1>6, UnseenFits
    <3>3. CASE frames[g].orchestrator \in Orchestrators
      <4>1. flows'[frames[g].orchestrator] = FlowOf(g)
        BY <2>2, <3>3, <1>2 DEF FlowOf
      <4> QED
        BY <4>1, <3>1, <1>5, <1>6, CleanFits
    <3> QED
      BY <3>1, <3>2, <3>3 DEF FrameRecords
  <2>3. CASE g # f /\ frames[g].orchestrator = o
    <3>1. /\ frames'[g] = frames[g] /\ flows'[frames[g].orchestrator] = flow
          /\ journal'[g] = journal[g] /\ writes'[g] = writes[g]
          /\ FlowOf(g) = FlowOf(f)
      BY <2>3, <1>2, <1>3 DEF FlowOf
    <3>2. CASE flow = FlowOf(f)
      BY <3>1, <3>2, <1>5, <1>6, CleanFits
    <3>3. CASE frames[f].generation = FlowOf(f).generation
      <4>1. frames[g].generation # flow.generation
        BY <3>3, <2>3 DEF FlowInv, FramesApart
      <4>2. FrameFits(g, frames[g], FlowOf(g))
        BY <1>5 DEF Fits
      <4>3. /\ frames[g].orchestrator # "none"
            /\ frames[g].generation <= flow.generation
            /\ frames[g].pc \in InFlight => frames[g].generation = flow.generation
        BY <4>2, <3>1, <2>3 DEF FrameFits
      <4>4. frames[g] \in FrameRecords /\ FlowOf(g) \in FlowRecords
        BY <1>1, <2>3 DEF FlowOf
      <4>5. frames[g].generation \in Nat /\ flow.generation \in Nat
        BY <4>4 DEF FrameRecords, FlowRecords
      <4>6. frames[g].generation < flow.generation /\ frames[g].pc \notin InFlight
        BY <4>1, <4>3, <4>5
      <4> QED
        BY <4>4, <4>6, <3>1, <1>5, <1>6, OvertakenFits
    <3> QED
      BY <3>2, <3>3
  <2> QED
    BY <2>1, <2>2, <2>3
<1>8. AllFit'
  BY <1>7 DEF AllFit, FlowOf
<1> QED
  BY <1>2, <1>3, <1>4, <1>8

\* A new generation begins, in a flow no confirmation is under way in: with a
\* confirmation of its own, or with none when it is dismissed.
LEMMA Overtaken ==
    ASSUME FlowInv, NEW o \in Orchestrators, NEW flow \in FlowRecords,
           flow.generation > flows[o].generation,
           flows[o].phase \notin InFlight,
           NEW g \in Confirmations, frames[g].orchestrator = o
    PROVE  /\ Fits(g, frames[g], flow, journal[g], writes[g], Clean)
           /\ frames[g].generation < flow.generation
<1>1. /\ frames[g] \in FrameRecords
      /\ flows[o] \in FlowRecords /\ o # "none"
      /\ FlowOf(g) = flows[o]
  BY FlowAssumption DEF FlowInv, FlowTyped, ScreenTyped, FlowOf
<1>2. Fits(g, frames[g], flows[o], journal[g], writes[g], Clean)
  BY <1>1 DEF FlowInv, AllFit
<1>3. frames[g].generation <= flows[o].generation /\ frames[g].pc \notin InFlight
  BY <1>1, <1>2 DEF Fits, FrameFits
<1>4. frames[g].generation < flow.generation
  BY <1>1, <1>3 DEF FrameRecords, FlowRecords
<1>5. Clean \in BOOLEAN
  BY DEF Clean
<1> QED
  BY <1>1, <1>2, <1>3, <1>4, <1>5, OvertakenFits

\* A confirmation starts a generation: what its orchestrator showed is overtaken.
LEMMA Starts ==
    ASSUME FlowInv, NEW f \in Confirmations, NEW frame \in FrameRecords,
           NEW flow \in FlowRecords, Goes(f, frame, flow),
           frames[f].pc = "idle", frame.orchestrator \in Orchestrators,
           frame.generation = flow.generation,
           flow.generation > flows[frame.orchestrator].generation,
           flows[frame.orchestrator].phase \notin InFlight,
           UNCHANGED <<journal, writes, open, faults>>,
           Fits(f, frame, flow, journal[f], writes[f], Clean)
    PROVE  /\ flows' \in [Orchestrators -> FlowRecords]
           /\ frames' \in [Confirmations -> FrameRecords]
           /\ AllFit' /\ FramesApart'
<1> DEFINE o == frame.orchestrator
<1>1. /\ frames \in [Confirmations -> FrameRecords]
      /\ flows \in [Orchestrators -> FlowRecords]
  BY DEF FlowInv, FlowTyped, ScreenTyped
<1>2. /\ flows' \in [Orchestrators -> FlowRecords] /\ flows'[o] = flow
      /\ \A p \in Orchestrators : p # o => flows'[p] = flows[p]
  BY <1>1 DEF Goes
<1>3. /\ frames' \in [Confirmations -> FrameRecords] /\ frames'[f] = frame
      /\ \A g \in Confirmations \ {f} : frames'[g] = frames[g]
  BY <1>1 DEF Goes
<1>4. Clean' = Clean
  BY DEF Clean
<1>5. ASSUME NEW g \in Confirmations \ {f}
      PROVE  /\ Fits(g, frames'[g], flows'[frames'[g].orchestrator], journal'[g], writes'[g], Clean')
             /\ frames[g].orchestrator = o => frames[g].generation < flow.generation
  <2>1. CASE frames[g].orchestrator # o
    <3>1. /\ Fits(g, frames[g], FlowOf(g), journal[g], writes[g], Clean)
          /\ frames[g] \in FrameRecords /\ Clean \in BOOLEAN
      BY <1>1 DEF FlowInv, AllFit, Clean
    <3>2. CASE frames[g].orchestrator = "none"
      BY <2>1, <3>1, <3>2, <1>3, <1>4, UnseenFits
    <3>3. CASE frames[g].orchestrator \in Orchestrators
      <4>1. flows'[frames[g].orchestrator] = FlowOf(g)
        BY <2>1, <3>3, <1>2 DEF FlowOf
      <4> QED
        BY <4>1, <2>1, <3>1, <1>3, <1>4
    <3> QED
      BY <3>1, <3>2, <3>3 DEF FrameRecords
  <2>2. CASE frames[g].orchestrator = o
    <3>1. /\ Fits(g, frames[g], flow, journal[g], writes[g], Clean)
          /\ frames[g].generation < flow.generation
      BY <2>2, Overtaken
    <3> QED
      BY <2>2, <3>1, <1>2, <1>3, <1>4
  <2> QED
    BY <2>1, <2>2
<1>6. Fits(f, frames'[f], flows'[frames'[f].orchestrator], journal'[f], writes'[f], Clean')
  BY <1>2, <1>3, <1>4
<1>7. AllFit'
  BY <1>5, <1>6 DEF AllFit, FlowOf
<1>8. FramesApart'
  <2>1. SUFFICES ASSUME NEW a \in Confirmations, NEW b \in Confirmations, a # b,
                        frames'[a].orchestrator # "none",
                        frames'[b].orchestrator = frames'[a].orchestrator
                 PROVE  frames'[b].generation # frames'[a].generation
    BY DEF FramesApart
  <2>2. frame.generation \in Nat /\ \A g \in Confirmations : frames[g].generation \in Nat
    BY <1>1 DEF FrameRecords
  <2>3. CASE a = f
    BY <2>1, <2>2, <2>3, <1>3, <1>5
  <2>4. CASE b = f
    BY <2>1, <2>2, <2>4, <1>3, <1>5
  <2>5. CASE a # f /\ b # f
    BY <2>1, <2>5, <1>3 DEF FlowInv, FramesApart
  <2> QED
    BY <2>3, <2>4, <2>5
<1> QED
  BY <1>2, <1>3, <1>7, <1>8

-----------------------------------------------------------------------------
(* Failures. *)

\* Outcomes are shown as terminal phases, and are states of rows.
LEMMA OutcomePhases ==
    /\ \A s \in PortOutcomes : PhaseOfState(s) \in TerminalPhases
    /\ PortOutcomes \subseteq J!JournalStates
    /\ \A s \in {"accepted", "rejected", "expired"} : PhaseOfState(s) = s /\ s \in PortOutcomes
BY DEF PortOutcomes, PhaseOfState, TerminalPhases, J!JournalStates, J!TerminalStates

\* A failure is shown as such if nothing was sent, and otherwise as what the row says.
LEMMA FailureShown ==
    ASSUME NEW flow \in FlowRecords, NEW f \in Confirmations, NEW row \in J!RowType,
           NEW next, next = FlowAfterFailure(flow, flow.generation, f, row)
    PROVE  /\ row.state \in UnsentStates /\ flow.phase \in DOMAIN NextPhase =>
                 /\ next \in FlowRecords /\ next.generation = flow.generation
                 /\ next.phase = "failed_before_submission"
           /\ row.state \in J!ReconcilableStates /\ flow.phase = "submitting" =>
                 /\ next \in FlowRecords /\ next.generation = flow.generation
                 /\ next.phase = "reconciling" /\ next.journalId = f
           /\ row.state \in PortOutcomes /\ flow.phase = "submitting" =>
                 /\ next \in FlowRecords /\ next.generation = flow.generation
                 /\ next.phase = PhaseOfState(row.state) /\ next.journalId = f
<1>1. CASE row.state \in UnsentStates /\ flow.phase \in DOMAIN NextPhase
  <2>1. \/ next = FailBeforeSubmission(flow, flow.generation, f)
        \/ next = FailBeforeSubmission(flow, flow.generation, "none")
    BY <1>1 DEF FlowAfterFailure, UnsentStates, J!ReconcilableStates, PortOutcomes
  <2> QED
    BY <1>1, <2>1, FlowFailed DEF UnsentStates, J!ReconcilableStates, PortOutcomes
<1>2. CASE row.state \in J!ReconcilableStates /\ flow.phase = "submitting"
  <2>1. next = ShowUnresolved(flow, flow.generation, f)
    BY <1>2 DEF FlowAfterFailure, J!ReconcilableStates, PortOutcomes
  <2>2. "accepted" \in TerminalPhases
    BY DEF TerminalPhases
  <2> QED
    BY <1>2, <2>1, <2>2, FlowShown DEF NextPhase, UnsentStates, J!ReconcilableStates, PortOutcomes
<1>3. CASE row.state \in PortOutcomes /\ flow.phase = "submitting"
  <2>1. next = ShowTerminal(flow, flow.generation, f, PhaseOfState(row.state))
    BY <1>3 DEF FlowAfterFailure, J!ReconcilableStates, PortOutcomes
  <2>2. PhaseOfState(row.state) \in TerminalPhases
    BY <1>3, OutcomePhases
  <2> QED
    BY <1>3, <2>1, <2>2, FlowShown DEF NextPhase, UnsentStates, J!ReconcilableStates, PortOutcomes
<1> QED
  BY <1>1, <1>2, <1>3

\* A confirmation that ends fits what it shows, and so does one that hands over
\* to the port.
LEMMA EndFits ==
    ASSUME NEW f \in Confirmations, NEW frame \in FrameRecords, NEW flow \in FlowRecords,
           NEW row \in J!RowType, NEW written \in 0..1, NEW clean \in BOOLEAN,
           frame.orchestrator # "none", frame.runtime # "none",
           frame.pc \in {"done", "reconciling"},
           frame.generation <= flow.generation,
           flow.generation = frame.generation =>
              \/ flow.phase = "failed_before_submission" /\ written = 0 /\ frame.pc = "done"
              \/ flow.phase = "reconciling" /\ flow.journalId = f /\ written = 1
              \/ /\ flow.phase \in TerminalPhases /\ flow.journalId = f
                 /\ PhaseOfState(row.state) = flow.phase /\ frame.pc = "done",
           written = 0 => row.state \in UnsentStates,
           written = 1 => row.state \in SentStates,
           clean => row.state # "prepared",
           frame.pc = "reconciling" => frame.row = f /\ written = 1
    PROVE  Fits(f, frame, flow, row, written, clean)
<1>1. frame.generation \in Nat /\ flow.generation \in Nat
  BY DEF FrameRecords, FlowRecords
<1>2. RowFits(frame.pc, row, written, clean)
  BY DEF RowFits
<1>3. FrameFits(f, frame, flow)
  BY <1>1 DEF FrameFits, InFlight, Waiting, TerminalPhases
<1>4. DisplayFits(f, frame, flow, row, written)
  BY DEF DisplayFits, InFlight, Waiting, TerminalPhases
<1> QED
  BY <1>2, <1>3, <1>4 DEF Fits

\* What is known of a confirmation that runs.
LEMMA Running ==
    ASSUME FlowInv, NEW f \in Confirmations
    PROVE  /\ frames[f] \in FrameRecords /\ journal[f] \in J!RowType /\ writes[f] \in 0..1
           /\ Fits(f, frames[f], FlowOf(f), journal[f], writes[f], Clean)
           /\ frames[f].orchestrator # "none" => FlowOf(f) \in FlowRecords
           /\ frames[f].pc \in InFlight \cup {"reconciling"} =>
                 frames[f].orchestrator # "none" /\ frames[f].runtime # "none"
           /\ frames[f].pc \in InFlight =>
                 FlowOf(f).generation = frames[f].generation /\ FlowOf(f).phase = frames[f].pc
           /\ frames[f].pc \in Waiting => writes[f] = 0 /\ journal[f].state \in UnsentStates
           /\ frames[f].pc \in {"submitting", "reconciling"} =>
                 writes[f] = 1 /\ journal[f].state \in SentStates
<1>1. /\ frames[f] \in FrameRecords /\ journal[f] \in J!RowType /\ writes[f] \in 0..1
      /\ frames[f].orchestrator # "none" => FlowOf(f) \in FlowRecords
  BY DEF FlowInv, FlowTyped, ScreenTyped, JournalTyped, FlowOf, FrameRecords
<1>2. Fits(f, frames[f], FlowOf(f), journal[f], writes[f], Clean)
  BY DEF FlowInv, AllFit
<1>3. /\ RowFits(frames[f].pc, journal[f], writes[f], Clean)
      /\ FrameFits(f, frames[f], FlowOf(f))
  BY <1>2 DEF Fits
<1>4. /\ frames[f].pc \in InFlight \cup {"reconciling"} =>
            frames[f].orchestrator # "none" /\ frames[f].runtime # "none"
      /\ frames[f].pc \in InFlight =>
            FlowOf(f).generation = frames[f].generation /\ FlowOf(f).phase = frames[f].pc
  BY <1>3 DEF FrameFits
<1>5. frames[f].pc \in Waiting => writes[f] = 0 /\ journal[f].state \in UnsentStates
  BY <1>1, <1>3 DEF RowFits, Waiting, UnsentStates, SentStates, J!ReconcilableStates, PortOutcomes
<1>6. frames[f].pc \in {"submitting", "reconciling"} =>
         writes[f] = 1 /\ journal[f].state \in SentStates
  BY <1>3 DEF RowFits
<1> QED
  BY <1>1, <1>2, <1>4, <1>5, <1>6

\* Fails keeps the invariant, with a request that was not made or with one that was.
LEMMA FailsFits ==
    ASSUME FlowInv, NEW f \in Confirmations, NEW frame \in FrameRecords,
           NEW flow \in FlowRecords, NEW shown \in Reviews \cup {NoReview},
           frames[f].pc \in InFlight, frame.pc \in InFlight,
           frame.orchestrator = frames[f].orchestrator, frame.runtime = frames[f].runtime,
           frame.generation = frames[f].generation, flow.generation = frame.generation,
           \/ frames[f].pc \in Waiting /\ flow.phase \in DOMAIN NextPhase
           \/ frames[f].pc = "submitting" /\ flow.phase = "submitting",
           Fails(f, frame, flow, shown)
    PROVE  FlowInv'
<1>1. /\ journal[f] \in J!RowType /\ writes[f] \in 0..1
      /\ frames[f].orchestrator # "none" /\ frames[f].runtime # "none"
      /\ FlowOf(f).generation = frames[f].generation
      /\ frames[f].pc \in Waiting => writes[f] = 0 /\ journal[f].state \in UnsentStates
      /\ frames[f].pc = "submitting" => writes[f] = 1 /\ journal[f].state \in SentStates
  BY Running
<1>2. PICK refused \in BOOLEAN :
        LET row  == IF refused THEN journal[f] ELSE RowAfterFailure(journal[f])
            next == FlowAfterFailure(flow, frame.generation, f, row)
        IN  /\ refused => /\ faults < MaxFaults
                          /\ RowAfterFailure(journal[f]) # journal[f]
            /\ faults' = IF refused THEN faults + 1 ELSE faults
            /\ journal' = [journal EXCEPT ![f] = row]
            /\ prepared' =
                  IF row.state # journal[f].state
                  THEN [prepared EXCEPT ![frame.runtime] = @ \ {f}]
                  ELSE prepared
            /\ IF next.phase = "reconciling" /\ next.journalId # "none"
               THEN /\ Goes(f, [frame EXCEPT !.pc = "reconciling",
                                             !.row = next.journalId], next)
                    /\ review' = shown
                    /\ UNCHANGED pending
               ELSE Returns(f, frame, next, shown)
            /\ UNCHANGED <<wall, scopes, open, writes, contextVars, uiVars>>
  BY DEF Fails
<1> DEFINE row == IF refused THEN journal[f] ELSE RowAfterFailure(journal[f])
           next == FlowAfterFailure(flow, frame.generation, f, row)
           handed == [frame EXCEPT !.pc = "reconciling", !.row = next.journalId]
           ended == [frame EXCEPT !.pc = "done"]
<1>3. wall \in 0..MaxTime /\ faults \in Nat
  BY DEF FlowInv, FlowTyped, JournalTyped
<1>4. /\ row \in J!RowType
      /\ writes[f] = 0 => row.state \in UnsentStates
      /\ writes[f] = 1 => row.state \in SentStates
      /\ ~refused => row.state # "prepared"
  BY <1>1, <1>3, RowFailed DEF UnsentStates, SentStates, J!ReconcilableStates, PortOutcomes
<1>5. /\ next \in FlowRecords /\ next.generation = flow.generation
      /\ \/ next.phase = "failed_before_submission" /\ writes[f] = 0
         \/ next.phase = "reconciling" /\ next.journalId = f /\ writes[f] = 1
         \/ /\ next.phase \in TerminalPhases /\ next.journalId = f
            /\ PhaseOfState(row.state) = next.phase
  <2>1. CASE frames[f].pc \in Waiting /\ flow.phase \in DOMAIN NextPhase
    BY <2>1, <1>1, <1>4, FailureShown
  <2>2. CASE frames[f].pc = "submitting" /\ flow.phase = "submitting"
    <3>1. row.state \in J!ReconcilableStates \/ row.state \in PortOutcomes
      BY <2>2, <1>1, <1>4 DEF SentStates
    <3> QED
      BY <2>2, <3>1, <1>1, <1>4, FailureShown, OutcomePhases
  <2> QED
    BY <2>1, <2>2
<1>6. /\ faults' \in Nat /\ Clean' \in BOOLEAN
      /\ Clean' => Clean /\ row.state # "prepared"
      /\ journal'[f] = row /\ journal' \in [Confirmations -> J!RowType]
      /\ writes' = writes
      /\ \A g \in Confirmations \ {f} : journal'[g] = journal[g]
  <2>1. journal \in [Confirmations -> J!RowType]
    BY DEF FlowInv, FlowTyped, JournalTyped
  <2>2. faults' \in Nat /\ open' = open /\ (faults' = 0 => faults = 0 /\ ~refused)
    BY <1>2, <1>3
  <2>3. Clean' \in BOOLEAN /\ (Clean' => Clean /\ ~refused)
    BY <2>2 DEF Clean
  <2>4. journal' = [journal EXCEPT ![f] = row]
    BY <1>2
  <2> HIDE DEF row
  <2>5. journal'[f] = row /\ journal' \in [Confirmations -> J!RowType]
        /\ \A g \in Confirmations \ {f} : journal'[g] = journal[g]
    BY <2>1, <2>4, <1>4
  <2>6. writes' = writes
    BY <1>2
  <2> QED
    BY <2>2, <2>3, <2>5, <2>6, <1>4
<1>7. PICK frame2 \in FrameRecords :
         /\ Goes(f, frame2, next)
         /\ frame2.orchestrator = frame.orchestrator /\ frame2.generation = frame.generation
         /\ frame2.runtime = frame.runtime
         /\ \/ frame2.pc = "done" /\ ~(next.phase = "reconciling" /\ next.journalId # "none")
            \/ frame2.pc = "reconciling" /\ frame2.row = next.journalId /\ next.phase = "reconciling"
  <2>1. CASE next.phase = "reconciling" /\ next.journalId # "none"
    <3>1. Goes(f, handed, next)
      BY <2>1, <1>2
    <3> HIDE DEF next
    <3>2. /\ handed \in FrameRecords /\ handed.orchestrator = frame.orchestrator
          /\ handed.generation = frame.generation /\ handed.runtime = frame.runtime
          /\ handed.pc = "reconciling" /\ handed.row = next.journalId
      BY <1>5 DEF FrameRecords, FlowRecords, Steps, InFlight
    <3> QED
      BY <2>1, <3>1, <3>2
  <2>2. CASE ~(next.phase = "reconciling" /\ next.journalId # "none")
    <3>1. Goes(f, ended, next)
      BY <2>2, <1>2 DEF Returns
    <3>2. /\ ended \in FrameRecords /\ ended.orchestrator = frame.orchestrator
          /\ ended.generation = frame.generation /\ ended.runtime = frame.runtime
          /\ ended.pc = "done"
      BY DEF FrameRecords, Steps, InFlight
    <3> QED
      BY <2>2, <3>1, <3>2
  <2> QED
    BY <2>1, <2>2
<1>8. review' \in Reviews \cup {NoReview} /\ pending' \in [Runtimes -> BOOLEAN]
  <2>1. pending \in [Runtimes -> BOOLEAN]
    BY DEF FlowInv, FlowTyped, ScreenTyped
  <2>2. \/ review' = shown /\ pending' = pending
        \/ Returns(f, frame, next, shown)
    BY <1>2
  <2> QED
    BY <2>1, <2>2 DEF Returns, PendingAfter
<1>9. /\ UNCHANGED <<wall, scopes, open, writes, contextVars, uiVars>>
      /\ prepared' \in [Runtimes -> SUBSET Confirmations]
  BY <1>2 DEF FlowInv, FlowTyped, JournalTyped
<1> HIDE DEF row, next
<1>10. Fits(f, frame2, next, journal'[f], writes'[f], Clean')
  <2>1. writes[f] = 0 \/ writes[f] = 1
    BY <1>1
  <2>2. frame2.generation <= next.generation
    BY <1>5, <1>7 DEF FlowRecords
  <2>3. f # "none"
    BY FlowAssumption
  <2> QED
    BY <1>1, <1>4, <1>5, <1>6, <1>7, <2>1, <2>2, <2>3, EndFits DEF TerminalPhases
<1>11. /\ flows' \in [Orchestrators -> FlowRecords]
       /\ frames' \in [Confirmations -> FrameRecords]
       /\ AllFit' /\ FramesApart'
  BY <1>1, <1>5, <1>6, <1>7, <1>10, Continues
<1>12. JournalTyped' /\ ScreenTyped' /\ ContextTyped'
  BY <1>6, <1>8, <1>9, <1>11
  DEF FlowInv, FlowTyped, JournalTyped, ScreenTyped, ContextTyped, ContextTypeOK, contextVars, uiVars
<1> QED
  BY <1>11, <1>12 DEF FlowInv, FlowTyped

-----------------------------------------------------------------------------
(* The steps of a confirmation. *)

\* A transition of the journal rewrites one row.
LEMMA TransitionTyped ==
    ASSUME FlowTyped, NEW r, NEW f \in Confirmations, NEW next, J!TransitionAction(r, f, next)
    PROVE  /\ journal' \in [Confirmations -> J!RowType]
           /\ journal'[f].state = next
           /\ \A g \in Confirmations \ {f} : journal'[g] = journal[g]
           /\ prepared' \in [Runtimes -> SUBSET Confirmations]
           /\ UNCHANGED <<wall, scopes, open, writes>>
           /\ journal[f].state \in SentStates =>
                 journal[f].state \in J!ReconcilableStates /\ next \in SentStates
<1>1. /\ journal \in [Confirmations -> J!RowType] /\ wall \in 0..MaxTime
      /\ prepared \in [Runtimes -> SUBSET Confirmations]
  BY DEF FlowTyped, JournalTyped
<1>2. /\ journal[f] \in J!RowType
      /\ journal[f].state \in J!JournalStates
      /\ next \in J!AllowedTransitions[journal[f].state]
      /\ journal' = [journal EXCEPT ![f] = J!Transitioned(@, next)]
      /\ prepared' = [prepared EXCEPT ![r] = @ \ {f}]
      /\ UNCHANGED <<wall, scopes, open, writes>>
  BY <1>1 DEF J!TransitionAction, J!RowType
<1>3. /\ next \in J!JournalStates
      /\ journal[f].state \in SentStates =>
            journal[f].state \in J!ReconcilableStates /\ next \in SentStates
  BY <1>2, Allowed
<1>4. J!Transitioned(journal[f], next) \in J!RowType /\ J!Transitioned(journal[f], next).state = next
  BY <1>1, <1>2, <1>3, RowsRewritten
<1>5. /\ journal' \in [Confirmations -> J!RowType] /\ journal'[f].state = next
      /\ \A g \in Confirmations \ {f} : journal'[g] = journal[g]
  BY <1>1, <1>2, <1>4
<1>6. prepared' \in [Runtimes -> SUBSET Confirmations]
  BY <1>1, <1>2
<1> QED
  BY <1>2, <1>3, <1>5, <1>6

\* confirm returns with what its flow may show.
LEMMA ReturnsFits ==
    ASSUME FlowInv, NEW f \in Confirmations, NEW next \in FlowRecords,
           frames[f].pc \in {"submitting", "reconciling"},
           Returns(f, frames[f], next, review),
           next.generation = FlowOf(f).generation,
           frames[f].generation = FlowOf(f).generation \/ next = FlowOf(f),
           next.generation = frames[f].generation =>
              \/ next.phase = "reconciling" /\ next.journalId = f
              \/ /\ next.phase \in TerminalPhases /\ next.journalId = f
                 /\ PhaseOfState(journal'[f].state) = next.phase,
           journal' \in [Confirmations -> J!RowType], journal'[f].state \in SentStates,
           prepared' \in [Runtimes -> SUBSET Confirmations],
           \A g \in Confirmations \ {f} : journal'[g] = journal[g],
           UNCHANGED <<wall, scopes, open, writes, contextVars, uiVars, faults>>
    PROVE  FlowInv'
<1> DEFINE ended == [frames[f] EXCEPT !.pc = "done"]
<1>1. /\ frames[f] \in FrameRecords /\ writes[f] = 1
      /\ frames[f].orchestrator # "none" /\ frames[f].runtime # "none"
      /\ Fits(f, frames[f], FlowOf(f), journal[f], writes[f], Clean)
  BY Running DEF InFlight
<1>2. Goes(f, ended, next)
  BY DEF Returns
<1>3. /\ ended \in FrameRecords /\ ended.orchestrator = frames[f].orchestrator
      /\ ended.generation = frames[f].generation /\ ended.runtime = frames[f].runtime
      /\ ended.pc = "done"
  BY <1>1 DEF FrameRecords, Steps, InFlight
<1> HIDE DEF ended
<1>4. Clean' = Clean /\ Clean' \in BOOLEAN
  BY DEF Clean
<1>5. journal'[f].state # "prepared" /\ writes'[f] = 1
  BY <1>1 DEF SentStates, J!ReconcilableStates, PortOutcomes
<1>6. ended.generation <= next.generation
  BY <1>1, <1>3 DEF Fits, FrameFits
<1>7. Fits(f, ended, next, journal'[f], writes'[f], Clean')
  BY <1>1, <1>3, <1>4, <1>5, <1>6, EndFits
<1>8. /\ flows' \in [Orchestrators -> FlowRecords]
      /\ frames' \in [Confirmations -> FrameRecords]
      /\ AllFit' /\ FramesApart'
  BY <1>1, <1>2, <1>3, <1>4, <1>7, Continues
<1>9. review' \in Reviews \cup {NoReview} /\ pending' \in [Runtimes -> BOOLEAN]
  BY DEF FlowInv, FlowTyped, ScreenTyped, Returns, PendingAfter
<1>10. JournalTyped' /\ ScreenTyped' /\ ContextTyped'
  BY <1>8, <1>9
  DEF FlowInv, FlowTyped, JournalTyped, ScreenTyped, ContextTyped, ContextTypeOK, contextVars, uiVars
<1> QED
  BY <1>8, <1>10 DEF FlowInv, FlowTyped

\* The refresh succeeds.
LEMMA RefreshedFits ==
    ASSUME FlowInv, NEW f \in Confirmations, Refreshed(f)
    PROVE  FlowInv'
<1> DEFINE frame == [frames[f] EXCEPT !.pc = "unlocking"]
           flow == Advance(FlowOf(f), frames[f].generation, "unlocking", "none")
<1>1. /\ frames[f].pc = "refreshing" /\ Goes(f, frame, flow)
      /\ UNCHANGED <<journalVars, contextVars, review, pending, uiVars, faults>>
  BY DEF Refreshed
<1>2. /\ frames[f] \in FrameRecords /\ FlowOf(f) \in FlowRecords
      /\ frames[f].orchestrator # "none" /\ frames[f].runtime # "none"
      /\ FlowOf(f).generation = frames[f].generation /\ FlowOf(f).phase = "refreshing"
      /\ Fits(f, frames[f], FlowOf(f), journal[f], writes[f], Clean)
  BY <1>1, Running DEF InFlight, Waiting
<1>3. /\ flow \in FlowRecords /\ flow.generation = frames[f].generation
      /\ flow.phase = "unlocking"
  BY <1>2, FlowAdvanced DEF NextPhase
<1>4. /\ frame \in FrameRecords /\ frame.orchestrator = frames[f].orchestrator
      /\ frame.generation = frames[f].generation /\ frame.runtime = frames[f].runtime
      /\ frame.pc = "unlocking"
  BY <1>2 DEF FrameRecords, Steps, InFlight, Waiting
<1> HIDE DEF frame, flow
<1>5. Clean' = Clean /\ journal' = journal /\ writes' = writes
  BY <1>1 DEF Clean, journalVars
<1>6. Fits(f, frame, flow, journal'[f], writes'[f], Clean')
  <2>1. RowFits(frame.pc, journal[f], writes[f], Clean)
    BY <1>1, <1>2, <1>4 DEF Fits, RowFits
  <2>2. FrameFits(f, frame, flow)
    BY <1>2, <1>3, <1>4 DEF FrameFits, FrameRecords
  <2>3. DisplayFits(f, frame, flow, journal[f], writes[f])
    BY <1>3, <1>4 DEF DisplayFits, TerminalPhases
  <2> QED
    BY <2>1, <2>2, <2>3, <1>5 DEF Fits
<1>7. /\ flows' \in [Orchestrators -> FlowRecords]
      /\ frames' \in [Confirmations -> FrameRecords]
      /\ AllFit' /\ FramesApart'
  BY <1>1, <1>2, <1>3, <1>4, <1>5, <1>6, Continues
<1>8. JournalTyped' /\ ScreenTyped' /\ ContextTyped'
  BY <1>1, <1>7
  DEF FlowInv, FlowTyped, JournalTyped, ScreenTyped, ContextTyped, ContextTypeOK, contextVars, uiVars,
      journalVars
<1> QED
  BY <1>7, <1>8 DEF FlowInv, FlowTyped

\* A confirmation fails before its row is marked, or after.
LEMMA FailsWaitingFits ==
    ASSUME FlowInv, NEW f \in Confirmations, FailsWaiting(f)
    PROVE  FlowInv'
<1>1. frames[f].pc \in Waiting /\ Fails(f, frames[f], FlowOf(f), review)
  BY DEF FailsWaiting, Waiting
<1>2. /\ frames[f] \in FrameRecords /\ FlowOf(f) \in FlowRecords
      /\ FlowOf(f).generation = frames[f].generation /\ FlowOf(f).phase = frames[f].pc
  BY <1>1, Running DEF InFlight
<1>3. review \in Reviews \cup {NoReview}
  BY DEF FlowInv, FlowTyped, ScreenTyped
<1>4. FlowOf(f).phase \in DOMAIN NextPhase /\ frames[f].pc \in InFlight
  BY <1>1, <1>2 DEF NextPhase, Waiting, InFlight
<1> QED
  BY <1>1, <1>2, <1>3, <1>4, FailsFits

\* submit throws: the row was marked, so the flow goes on reconciling.
LEMMA SubmitThrowsFits ==
    ASSUME FlowInv, NEW f \in Confirmations, frames[f].pc = "submitting",
           Fails(f, frames[f], FlowOf(f), review)
    PROVE  FlowInv'
<1>1. /\ frames[f] \in FrameRecords /\ FlowOf(f) \in FlowRecords
      /\ FlowOf(f).generation = frames[f].generation /\ FlowOf(f).phase = "submitting"
      /\ frames[f].pc \in InFlight
  BY Running DEF InFlight
<1>2. review \in Reviews \cup {NoReview}
  BY DEF FlowInv, FlowTyped, ScreenTyped
<1> QED
  BY <1>1, <1>2, FailsFits

\* A reservation writes a prepared row of the scope and advances its nonce.
LEMMA ReservedTyped ==
    ASSUME FlowTyped, NEW r, NEW f \in Confirmations, NEW a \in Contexts, NEW clock,
           NEW intent \in Intents \cup {"none"},
           J!ReservePreparedAction(r, f, a, a, intent, clock)
    PROVE  /\ journal' \in [Confirmations -> J!RowType] /\ journal'[f].state = "prepared"
           /\ \A g \in Confirmations \ {f} : journal'[g] = journal[g]
           /\ scopes' \in [Contexts -> J!ScopeType]
           /\ prepared' \in [Runtimes -> SUBSET Confirmations]
           /\ UNCHANGED <<wall, open, writes>>
<1>1. /\ journal \in [Confirmations -> J!RowType] /\ wall \in Nat
      /\ scopes \in [Contexts -> J!ScopeType]
      /\ prepared \in [Runtimes -> SUBSET Confirmations]
  BY FlowAssumption DEF FlowTyped, JournalTyped
<1>2. /\ journal' = [journal EXCEPT ![f] = J!PreparedRow(a, intent)]
      /\ scopes' = [scopes EXCEPT ![a] = J!NonceIssued(@)]
      /\ prepared' = [prepared EXCEPT ![r] = {i \in @ : journal[i].expiresAfter > wall} \cup {f}]
      /\ UNCHANGED <<wall, open, writes>>
  BY DEF J!ReservePreparedAction
<1>3. /\ scopes[a] \in J!ScopeType
      /\ J!AllocatedNonce(scopes[a]) \in Nat /\ J!AllocatedExpiry \in Nat
      /\ scopes[a].account \in Contexts \cup {"none"}
  BY <1>1, FlowAssumption DEF J!ScopeType, J!AllocatedNonce, J!Max2, J!Null, J!AllocatedExpiry
<1>4. J!NonceIssued(scopes[a]) \in J!ScopeType
  BY <1>1, <1>3 DEF J!NonceIssued, J!ScopeType
<1>5. J!PreparedRow(a, intent) \in J!RowType /\ J!PreparedRow(a, intent).state = "prepared"
  BY <1>1, <1>3 DEF J!PreparedRow, J!NoRow, J!RowType, J!JournalStates, J!Null, J!ResultClasses
<1>6. /\ journal' \in [Confirmations -> J!RowType] /\ journal'[f].state = "prepared"
      /\ \A g \in Confirmations \ {f} : journal'[g] = journal[g]
  BY <1>1, <1>2, <1>5
<1>7. scopes' \in [Contexts -> J!ScopeType]
  BY <1>1, <1>2, <1>4
<1>8. prepared' \in [Runtimes -> SUBSET Confirmations]
  BY <1>1, <1>2
<1> QED
  BY <1>2, <1>6, <1>7, <1>8

\* The session is unlocked.
LEMMA UnlockedFits ==
    ASSUME FlowInv, NEW f \in Confirmations, Unlocked(f)
    PROVE  FlowInv'
<1> DEFINE frame == [Authenticated(frames[f]) EXCEPT !.pc = "signing"]
           reserving == Advance(FlowOf(f), frames[f].generation, "reserving", "none")
           flow == Advance(reserving, frames[f].generation, "signing", f)
<1>1. frames[f].pc = "unlocking" /\ ContextCurrent(frames[f].review)
  BY DEF Unlocked
<1>2. /\ frames[f] \in FrameRecords /\ FlowOf(f) \in FlowRecords
      /\ frames[f].orchestrator # "none" /\ frames[f].runtime # "none"
      /\ FlowOf(f).generation = frames[f].generation /\ FlowOf(f).phase = "unlocking"
      /\ writes[f] = 0
  BY <1>1, Running DEF InFlight, Waiting
<1>3. /\ reserving \in FlowRecords /\ reserving.generation = frames[f].generation
      /\ reserving.phase = "reserving"
  BY <1>2, FlowAdvanced DEF NextPhase
<1>4. /\ flow \in FlowRecords /\ flow.generation = frames[f].generation
      /\ flow.phase = "signing"
  BY <1>3, FlowAdvanced DEF NextPhase
<1>5. /\ Authenticated(frames[f]) \in FrameRecords
      /\ Authenticated(frames[f]).orchestrator = frames[f].orchestrator
      /\ Authenticated(frames[f]).generation = frames[f].generation
      /\ Authenticated(frames[f]).runtime = frames[f].runtime
      /\ Authenticated(frames[f]).pc = "unlocking"
  BY <1>1, <1>2 DEF Authenticated, FrameRecords
<1>6. /\ frame \in FrameRecords /\ frame.orchestrator = frames[f].orchestrator
      /\ frame.generation = frames[f].generation /\ frame.runtime = frames[f].runtime
      /\ frame.pc = "signing"
  BY <1>5 DEF FrameRecords, Steps, InFlight, Waiting
<1>7. ReviewShown(frames[f]) \in Reviews \cup {NoReview}
  BY <1>2 DEF ReviewShown, FlowInv, FlowTyped, ScreenTyped, FrameRecords
<1>8. CASE Fails(f, Authenticated(frames[f]), reserving, ReviewShown(frames[f]))
  <2>1. reserving.phase \in DOMAIN NextPhase
    BY <1>3 DEF NextPhase
  <2> HIDE DEF reserving
  <2> QED
    BY <1>1, <1>3, <1>5, <1>7, <1>8, <2>1, FailsFits DEF InFlight, Waiting
<1>9. CASE /\ J!ReservePreparedAction(
                 frames[f].runtime, f, frames[f].review.binding,
                 frames[f].review.binding, frames[f].review.intent,
                 [age |-> 0, serverTime |-> wall])
           /\ Goes(f, frame, flow)
           /\ review' = ReviewShown(frames[f])
           /\ UNCHANGED <<contextVars, pending, uiVars, faults>>
  <2>1. /\ frames[f].review.binding \in Contexts
        /\ frames[f].review.intent \in Intents \cup {"none"}
    BY <1>1, <1>2
    DEF ContextCurrent, FlowInv, FlowTyped, ContextTyped, ContextTypeOK, FrameRecords, Reviews, NoReview
  <2>2. /\ journal' \in [Confirmations -> J!RowType] /\ journal'[f].state = "prepared"
        /\ \A g \in Confirmations \ {f} : journal'[g] = journal[g]
        /\ scopes' \in [Contexts -> J!ScopeType]
        /\ prepared' \in [Runtimes -> SUBSET Confirmations]
        /\ UNCHANGED <<wall, open, writes>>
    <3>1. FlowTyped
      BY DEF FlowInv
    <3> QED
      BY <1>9, <2>1, <3>1, ReservedTyped
  <2> HIDE DEF frame, flow
  <2>3. Clean' = Clean
    BY <1>9, <2>2 DEF Clean
  <2>4. Fits(f, frame, flow, journal'[f], writes'[f], Clean')
    <3>1. RowFits(frame.pc, journal'[f], writes'[f], Clean')
      BY <1>2, <1>6, <2>2 DEF RowFits, UnsentStates
    <3>2. FrameFits(f, frame, flow)
      BY <1>2, <1>4, <1>6 DEF FrameFits, FrameRecords
    <3>3. DisplayFits(f, frame, flow, journal'[f], writes'[f])
      BY <1>4, <1>6 DEF DisplayFits, TerminalPhases
    <3> QED
      BY <3>1, <3>2, <3>3 DEF Fits
  <2>5. /\ flows' \in [Orchestrators -> FlowRecords]
        /\ frames' \in [Confirmations -> FrameRecords]
        /\ AllFit' /\ FramesApart'
    BY <1>2, <1>4, <1>6, <1>9, <2>2, <2>3, <2>4, Continues
  <2>6. JournalTyped' /\ ScreenTyped' /\ ContextTyped'
    BY <1>7, <1>9, <2>2, <2>5
    DEF FlowInv, FlowTyped, JournalTyped, ScreenTyped, ContextTyped, ContextTypeOK, contextVars, uiVars
  <2> QED
    BY <2>5, <2>6 DEF FlowInv, FlowTyped
<1> QED
  BY <1>8, <1>9 DEF Unlocked

\* The request is marked and sent.
LEMMA SignedFits ==
    ASSUME FlowInv, NEW f \in Confirmations, Signed(f)
    PROVE  FlowInv'
<1> DEFINE frame == [frames[f] EXCEPT !.pc = "submitting"]
           starting == Advance(FlowOf(f), frames[f].generation, "submission_start", f)
           flow == Advance(starting, frames[f].generation, "submitting", f)
<1>1. frames[f].pc = "signing"
  BY DEF Signed
<1>2. /\ frames[f] \in FrameRecords /\ FlowOf(f) \in FlowRecords
      /\ journal[f] \in J!RowType /\ writes[f] = 0
      /\ frames[f].orchestrator # "none" /\ frames[f].runtime # "none"
      /\ FlowOf(f).generation = frames[f].generation /\ FlowOf(f).phase = "signing"
  BY <1>1, Running DEF InFlight, Waiting
<1>3. /\ starting \in FlowRecords /\ starting.generation = frames[f].generation
      /\ starting.phase = "submission_start"
  BY <1>2, FlowAdvanced DEF NextPhase
<1>4. /\ flow \in FlowRecords /\ flow.generation = frames[f].generation
      /\ flow.phase = "submitting"
  BY <1>3, FlowAdvanced DEF NextPhase
<1>5. /\ frame \in FrameRecords /\ frame.orchestrator = frames[f].orchestrator
      /\ frame.generation = frames[f].generation /\ frame.runtime = frames[f].runtime
      /\ frame.pc = "submitting"
  BY <1>2 DEF FrameRecords, Steps, InFlight
<1>6. CASE Fails(f, frames[f], starting, review)
  <2>1. starting.phase \in DOMAIN NextPhase /\ review \in Reviews \cup {NoReview}
    BY <1>3 DEF NextPhase, FlowInv, FlowTyped, ScreenTyped
  <2> HIDE DEF starting
  <2> QED
    BY <1>1, <1>2, <1>3, <1>6, <2>1, FailsFits DEF InFlight, Waiting
<1>7. CASE /\ journal' = [journal EXCEPT ![f] = J!SubmissionStarted(@)]
           /\ prepared' = [prepared EXCEPT ![frames[f].runtime] = @ \ {f}]
           /\ writes' = [writes EXCEPT ![f] = @ + 1]
           /\ Goes(f, frame, flow)
           /\ UNCHANGED <<wall, scopes, open, contextVars, review, pending, uiVars, faults>>
  <2>1. /\ journal \in [Confirmations -> J!RowType] /\ wall \in 0..MaxTime
        /\ writes \in [Confirmations -> 0..1]
        /\ prepared \in [Runtimes -> SUBSET Confirmations]
    BY DEF FlowInv, FlowTyped, JournalTyped
  <2>2. /\ J!SubmissionStarted(journal[f]) \in J!RowType
        /\ J!SubmissionStarted(journal[f]).state = "submission_started"
    BY <1>2, <2>1, RowsRewritten
  <2>3. /\ journal' \in [Confirmations -> J!RowType] /\ journal'[f].state = "submission_started"
        /\ writes' \in [Confirmations -> 0..1] /\ writes'[f] = 1
        /\ \A g \in Confirmations \ {f} : journal'[g] = journal[g] /\ writes'[g] = writes[g]
    BY <1>2, <1>7, <2>1, <2>2
  <2>4. prepared' \in [Runtimes -> SUBSET Confirmations]
    BY <1>7, <2>1
  <2> HIDE DEF frame, flow
  <2>5. Clean' = Clean
    BY <1>7 DEF Clean
  <2>6. Fits(f, frame, flow, journal'[f], writes'[f], Clean')
    <3>1. RowFits(frame.pc, journal'[f], writes'[f], Clean')
      BY <1>5, <2>3 DEF RowFits, SentStates, J!ReconcilableStates
    <3>2. FrameFits(f, frame, flow)
      BY <1>2, <1>4, <1>5 DEF FrameFits, FrameRecords
    <3>3. DisplayFits(f, frame, flow, journal'[f], writes'[f])
      BY <1>4, <1>5 DEF DisplayFits, TerminalPhases
    <3> QED
      BY <3>1, <3>2, <3>3 DEF Fits
  <2>7. /\ flows' \in [Orchestrators -> FlowRecords]
        /\ frames' \in [Confirmations -> FrameRecords]
        /\ AllFit' /\ FramesApart'
    BY <1>2, <1>4, <1>5, <1>7, <2>3, <2>5, <2>6, Continues
  <2>8. JournalTyped' /\ ScreenTyped' /\ ContextTyped'
    BY <1>7, <2>3, <2>4, <2>7
    DEF FlowInv, FlowTyped, JournalTyped, ScreenTyped, ContextTyped, ContextTypeOK, contextVars, uiVars
  <2> QED
    BY <2>7, <2>8 DEF FlowInv, FlowTyped
<1> QED
  BY <1>6, <1>7 DEF Signed

\* submit resolves.
LEMMA RespondsFits ==
    ASSUME FlowInv, NEW f \in Confirmations,
           NEW kind \in {"accepted", "rejected", "expired", "unresolved"}, Responds(f, kind)
    PROVE  FlowInv'
<1> DEFINE frame == [frames[f] EXCEPT !.pc = "reconciling", !.row = f]
           flow == ShowUnresolved(FlowOf(f), frames[f].generation, f)
           shown == ShowTerminal(FlowOf(f), frames[f].generation, f, kind)
<1>1. frames[f].pc = "submitting"
  BY DEF Responds
<1>2. /\ frames[f] \in FrameRecords /\ FlowOf(f) \in FlowRecords
      /\ frames[f].orchestrator # "none" /\ frames[f].runtime # "none"
      /\ FlowOf(f).generation = frames[f].generation /\ FlowOf(f).phase = "submitting"
      /\ writes[f] = 1 /\ journal[f].state \in SentStates
  BY <1>1, Running DEF InFlight
<1>3. CASE Fails(f, frames[f], FlowOf(f), review)
  BY <1>1, <1>3, SubmitThrowsFits
<1>4. CASE /\ J!TransitionAction(frames[f].runtime, f, kind)
           /\ UNCHANGED <<contextVars, uiVars, faults>>
           /\ kind = "unresolved" => /\ Goes(f, frame, flow)
                                     /\ UNCHANGED <<review, pending>>
           /\ kind # "unresolved" => Returns(f, frames[f], shown, review)
  <2>1. /\ journal' \in [Confirmations -> J!RowType] /\ journal'[f].state = kind
        /\ \A g \in Confirmations \ {f} : journal'[g] = journal[g]
        /\ prepared' \in [Runtimes -> SUBSET Confirmations]
        /\ UNCHANGED <<wall, scopes, open, writes>>
        /\ kind \in SentStates
    <3>1. FlowTyped
      BY DEF FlowInv
    <3> QED
      BY <1>2, <1>4, <3>1, TransitionTyped
  <2>2. CASE kind = "unresolved"
    <3>1. /\ flow \in FlowRecords /\ flow.generation = frames[f].generation
          /\ flow.phase = "reconciling" /\ flow.journalId = f
      BY <1>2, FlowShown DEF TerminalPhases
    <3>2. /\ frame \in FrameRecords /\ frame.orchestrator = frames[f].orchestrator
          /\ frame.generation = frames[f].generation /\ frame.runtime = frames[f].runtime
          /\ frame.pc = "reconciling" /\ frame.row = f
      BY <1>2 DEF FrameRecords, Steps, InFlight
    <3> HIDE DEF frame, flow
    <3>3. Clean' = Clean /\ Clean' \in BOOLEAN /\ writes'[f] = 1 /\ journal'[f].state # "prepared"
      BY <1>2, <1>4, <2>1, <2>2 DEF Clean
    <3>4. frame.generation <= flow.generation
      BY <3>1, <3>2 DEF FlowRecords
    <3>5. Fits(f, frame, flow, journal'[f], writes'[f], Clean')
      BY <1>2, <2>1, <3>1, <3>2, <3>3, <3>4, EndFits
    <3>6. /\ flows' \in [Orchestrators -> FlowRecords]
          /\ frames' \in [Confirmations -> FrameRecords]
          /\ AllFit' /\ FramesApart'
      BY <1>2, <1>4, <2>1, <2>2, <3>1, <3>2, <3>3, <3>5, Continues
    <3>7. JournalTyped' /\ ScreenTyped' /\ ContextTyped'
      BY <1>4, <2>1, <2>2, <3>6
      DEF FlowInv, FlowTyped, JournalTyped, ScreenTyped, ContextTyped, ContextTypeOK, contextVars,
          uiVars
    <3> QED
      BY <3>6, <3>7 DEF FlowInv, FlowTyped
  <2>3. CASE kind # "unresolved"
    <3>1. kind \in TerminalPhases /\ PhaseOfState(kind) = kind
      BY <2>3 DEF TerminalPhases, PhaseOfState
    <3>2. /\ shown \in FlowRecords /\ shown.generation = FlowOf(f).generation
          /\ shown.phase = kind /\ shown.journalId = f
      BY <1>2, <3>1, FlowShown
    <3> HIDE DEF shown
    <3> QED
      BY <1>1, <1>2, <1>4, <2>1, <2>3, <3>1, <3>2, ReturnsFits
  <2> QED
    BY <2>2, <2>3
<1> QED
  BY <1>3, <1>4 DEF Responds

\* An outcome is shown in the generation it belongs to, and only there.
LEMMA OutcomeShown ==
    ASSUME NEW flow \in FlowRecords, NEW generation, NEW f \in Confirmations,
           NEW state \in PortOutcomes, NEW next,
           next = ShowTerminal(flow, generation, f, PhaseOfState(state)),
           flow.generation = generation => flow.phase = "reconciling"
    PROVE  /\ next \in FlowRecords /\ next.generation = flow.generation
           /\ flow.generation = generation =>
                 next.phase = PhaseOfState(state) /\ next.journalId = f
           /\ flow.generation # generation => next = flow
<1>1. PhaseOfState(state) \in TerminalPhases
  BY OutcomePhases
<1> QED
  BY <1>1 DEF ShowTerminal, FlowRecords, FlowPhases, IsCurrent

\* The port ends.
LEMMA PortEndsFits ==
    ASSUME FlowInv, NEW f \in Confirmations, PortEnds(f)
    PROVE  FlowInv'
<1> DEFINE shows(state) == ShowTerminal(FlowOf(f), frames[f].generation, f, PhaseOfState(state))
<1>1. frames[f].pc = "reconciling"
  BY DEF PortEnds
<1>2. /\ frames[f] \in FrameRecords /\ FlowOf(f) \in FlowRecords
      /\ frames[f].orchestrator # "none"
      /\ writes[f] = 1 /\ journal[f].state \in SentStates
      /\ Fits(f, frames[f], FlowOf(f), journal[f], writes[f], Clean)
  BY <1>1, Running
<1>3. /\ frames[f].row = f
      /\ FlowOf(f).generation = frames[f].generation =>
            FlowOf(f).phase = "reconciling" /\ FlowOf(f).journalId = f
  BY <1>1, <1>2 DEF Fits, FrameFits, DisplayFits
<1>4. ASSUME NEW state \in PortOutcomes
      PROVE  /\ shows(state) \in FlowRecords
             /\ shows(state).generation = FlowOf(f).generation
             /\ FlowOf(f).generation = frames[f].generation =>
                   shows(state).phase = PhaseOfState(state) /\ shows(state).journalId = f
             /\ FlowOf(f).generation # frames[f].generation => shows(state) = FlowOf(f)
             /\ PhaseOfState(state) \in TerminalPhases
  <2>1. PhaseOfState(state) \in TerminalPhases
    BY OutcomePhases
  <2> QED
    BY <1>2, <1>3, <2>1, OutcomeShown
<1>5. /\ prepared \in [Runtimes -> SUBSET Confirmations]
      /\ journal \in [Confirmations -> J!RowType]
      /\ UNCHANGED <<contextVars, uiVars, faults>>
  BY DEF FlowInv, FlowTyped, JournalTyped, PortEnds
<1>6. ASSUME NEW state \in PortOutcomes, J!TransitionAction(frames[f].runtime, f, state),
             Returns(f, frames[f], shows(state), review)
      PROVE  FlowInv'
  <2>1. /\ journal' \in [Confirmations -> J!RowType] /\ journal'[f].state = state
        /\ \A g \in Confirmations \ {f} : journal'[g] = journal[g]
        /\ prepared' \in [Runtimes -> SUBSET Confirmations]
        /\ UNCHANGED <<wall, scopes, open, writes>>
        /\ state \in SentStates
    <3>1. FlowTyped
      BY DEF FlowInv
    <3> QED
      BY <1>2, <1>6, <3>1, TransitionTyped
  <2> HIDE DEF shows
  <2> QED
    BY <1>1, <1>2, <1>4, <1>5, <1>6, <2>1, ReturnsFits
<1>7. ASSUME journal[f].state \in PortOutcomes, UNCHANGED journalVars,
             Returns(f, frames[f], shows(journal[f].state), review)
      PROVE  FlowInv'
  <2>1. UNCHANGED <<wall, scopes, journal, open, prepared, writes>>
    BY <1>7 DEF journalVars
  <2> HIDE DEF shows
  <2> QED
    BY <1>1, <1>2, <1>4, <1>5, <1>7, <2>1, ReturnsFits
<1>8. ASSUME UNCHANGED journalVars, Returns(f, frames[f], FlowOf(f), review)
      PROVE  FlowInv'
  <2>1. UNCHANGED <<wall, scopes, journal, open, prepared, writes>>
    BY <1>8 DEF journalVars
  <2> QED
    BY <1>1, <1>2, <1>3, <1>5, <1>8, <2>1, ReturnsFits
<1> QED
  BY <1>3, <1>6, <1>7, <1>8 DEF PortEnds

\* A confirmation begins, in a flow that is confirmable.
LEMMA BeginsFits ==
    ASSUME FlowInv, NEW f \in Confirmations, NEW r \in Reviews, NEW reviewed \in BOOLEAN,
           NEW flow \in FlowRecords, NEW shown \in Reviews \cup {NoReview},
           frames[f].pc = "idle", mounted # "none",
           flow.phase \in ConfirmablePhases,
           flow.generation >= flows[mounted].generation,
           flows[mounted].phase \in ConfirmablePhases \cup {"rejected"},
           Begins(f, r, reviewed, flow, shown)
    PROVE  FlowInv'
<1> DEFINE confirmed == Confirm(flow)
           frame == [NoFrame EXCEPT !.orchestrator = mounted, !.runtime = runtime,
                                    !.generation = confirmed.generation,
                                    !.review = r, !.reviewed = reviewed]
           begun == [frame EXCEPT !.pc = "refreshing"]
           ended == [frame EXCEPT !.pc = "done"]
           failed == FailBeforeSubmission(confirmed, confirmed.generation, "none")
<1>1. /\ mounted \in Orchestrators /\ runtime \in Runtimes /\ flows[mounted] \in FlowRecords
      /\ mounted # "none" /\ runtime # "none"
      /\ frames[f] \in FrameRecords /\ journal[f] \in J!RowType /\ writes[f] \in 0..1
  BY DEF FlowInv, FlowTyped, ScreenTyped, JournalTyped
<1>2. /\ confirmed \in FlowRecords /\ confirmed.generation = flow.generation + 1
      /\ confirmed.phase = "refreshing"
  BY FlowRestarted
<1>3. /\ failed \in FlowRecords /\ failed.generation = confirmed.generation
      /\ failed.phase = "failed_before_submission"
  <2>1. confirmed.phase \in DOMAIN NextPhase
    BY <1>2 DEF NextPhase
  <2> HIDE DEF confirmed
  <2> QED
    BY <1>2, <2>1, FlowFailed
<1>4. confirmed.generation \in Nat /\ confirmed.generation > flows[mounted].generation
  BY <1>1, <1>2 DEF FlowRecords
<1>5. NoFrame \in FrameRecords
  BY DEF NoFrame, FrameRecords, Steps, NoReview
<1> HIDE DEF confirmed
<1>6. /\ frame \in FrameRecords /\ frame.orchestrator = mounted /\ frame.runtime = runtime
      /\ frame.generation = confirmed.generation
  BY <1>1, <1>4, <1>5 DEF FrameRecords, NoFrame
<1>7. /\ begun \in FrameRecords /\ begun.orchestrator = mounted /\ begun.runtime = runtime
      /\ begun.generation = confirmed.generation /\ begun.pc = "refreshing"
      /\ ended \in FrameRecords /\ ended.orchestrator = mounted /\ ended.runtime = runtime
      /\ ended.generation = confirmed.generation /\ ended.pc = "done"
  <2> HIDE DEF frame
  <2> QED
    BY <1>6 DEF FrameRecords, Steps, InFlight, Waiting
<1>8. journal[f].state = "absent" /\ writes[f] = 0
  <2>1. RowFits("idle", journal[f], writes[f], Clean)
    BY DEF FlowInv, AllFit, Fits
  <2> QED
    BY <1>1, <2>1 DEF RowFits, SentStates, J!ReconcilableStates, PortOutcomes
<1>9. /\ \/ Goes(f, begun, confirmed) /\ review' = shown
            /\ pending' = IF reviewed THEN [pending EXCEPT ![runtime] = TRUE] ELSE pending
         \/ Returns(f, frame, failed, shown)
      /\ UNCHANGED <<journalVars, contextVars, uiVars, faults>>
  <2>1. frame.generation = confirmed.generation
    BY <1>6
  <2> QED
    BY <2>1 DEF Begins, confirmed
<1> HIDE DEF frame
<1>10. UNCHANGED <<journal, writes, open, faults>> /\ Clean \in BOOLEAN
  BY <1>9 DEF journalVars, Clean
<1>11. flows[mounted].phase \notin InFlight
  BY DEF ConfirmablePhases, InFlight, Waiting
<1>12. /\ flows' \in [Orchestrators -> FlowRecords]
       /\ frames' \in [Confirmations -> FrameRecords]
       /\ AllFit' /\ FramesApart'
  <2>1. CASE Goes(f, begun, confirmed)
    <3>1. RowFits(begun.pc, journal[f], writes[f], Clean)
      BY <1>7, <1>8 DEF RowFits, UnsentStates
    <3>2. FrameFits(f, begun, confirmed)
      BY <1>1, <1>2, <1>4, <1>7 DEF FrameFits
    <3>3. DisplayFits(f, begun, confirmed, journal[f], writes[f])
      BY <1>2, <1>7 DEF DisplayFits, TerminalPhases
    <3>4. Fits(f, begun, confirmed, journal[f], writes[f], Clean)
      BY <3>1, <3>2, <3>3 DEF Fits
    <3> HIDE DEF begun
    <3> QED
      BY <1>1, <1>2, <1>4, <1>7, <1>10, <1>11, <2>1, <3>4, Starts
  <2>2. CASE Goes(f, ended, failed)
    <3> HIDE DEF ended, failed
    <3>1. ended.generation <= failed.generation
      BY <1>3, <1>4, <1>7
    <3>2. Fits(f, ended, failed, journal[f], writes[f], Clean)
      BY <1>1, <1>3, <1>7, <1>8, <1>10, <3>1, EndFits DEF UnsentStates
    <3> QED
      BY <1>1, <1>3, <1>4, <1>7, <1>10, <1>11, <2>2, <3>2, Starts
  <2> QED
    BY <1>9, <2>1, <2>2 DEF Returns
<1>13. review' \in Reviews \cup {NoReview} /\ pending' \in [Runtimes -> BOOLEAN]
  BY <1>9 DEF FlowInv, FlowTyped, ScreenTyped, Returns, PendingAfter
<1>14. JournalTyped' /\ ScreenTyped' /\ ContextTyped'
  BY <1>9, <1>12, <1>13
  DEF FlowInv, FlowTyped, JournalTyped, ScreenTyped, ContextTyped, ContextTypeOK, contextVars,
      uiVars, journalVars
<1> QED
  BY <1>12, <1>14 DEF FlowInv, FlowTyped

-----------------------------------------------------------------------------
(* The user, the runtime and the process. *)

\* A reviewed action is confirmed: the flow it takes over is left behind.
LEMMA ReviewAndSubmitFits ==
    ASSUME FlowInv, NEW f \in Confirmations, NEW r \in Reviews, ReviewAndSubmit(f, r)
    PROVE  FlowInv'
<1>1. /\ frames[f].pc = "idle" /\ mounted # "none"
      /\ flows[mounted].phase \in ConfirmablePhases \cup {"rejected"}
      /\ Begins(f, r, TRUE, Reset(flows[mounted]), NoReview)
  BY DEF ReviewAndSubmit
<1>2. flows[mounted] \in FlowRecords
  BY <1>1 DEF FlowInv, FlowTyped, ScreenTyped
<1>3. /\ Reset(flows[mounted]) \in FlowRecords
      /\ Reset(flows[mounted]).phase \in ConfirmablePhases
      /\ Reset(flows[mounted]).generation >= flows[mounted].generation
  BY <1>2, FlowRestarted DEF ConfirmablePhases, FlowRecords
<1> QED
  BY <1>1, <1>3, BeginsFits

\* The review on the sheet is confirmed, again after a failure.
LEMMA ConfirmOnSheetFits ==
    ASSUME FlowInv, NEW f \in Confirmations, ConfirmOnSheet(f)
    PROVE  FlowInv'
<1>1. /\ frames[f].pc = "idle" /\ mounted # "none" /\ review # NoReview
      /\ flows[mounted].phase \in ConfirmablePhases
      /\ Begins(f, review, FALSE, flows[mounted], review)
  BY DEF ConfirmOnSheet
<1>2. /\ flows[mounted] \in FlowRecords /\ review \in Reviews
  BY <1>1 DEF FlowInv, FlowTyped, ScreenTyped
<1>3. flows[mounted].generation >= flows[mounted].generation
  BY <1>2 DEF FlowRecords
<1> QED
  BY <1>1, <1>2, <1>3, BeginsFits

\* A flow that is not critical is left behind.
LEMMA DismissFits ==
    ASSUME FlowInv, Dismiss
    PROVE  FlowInv'
<1>1. /\ DisplayedFlow.phase \notin CriticalPhases /\ review' = NoReview
      /\ UNCHANGED <<journalVars, contextVars, frames, pending, mounted, runtime, startup, faults>>
  BY DEF Dismiss
<1>2. /\ flows \in [Orchestrators -> FlowRecords]
      /\ frames \in [Confirmations -> FrameRecords]
      /\ mounted \in Orchestrators \cup {"none"} /\ lastFlow \in FlowRecords
  BY DEF FlowInv, FlowTyped, ScreenTyped
<1>3. Clean' = Clean /\ journal' = journal /\ writes' = writes /\ frames' = frames
  BY <1>1 DEF Clean, journalVars
<1>4. /\ flows' \in [Orchestrators -> FlowRecords] /\ lastFlow' \in FlowRecords
      /\ AllFit'
  <2>1. CASE mounted = "none"
    <3>1. UNCHANGED flows /\ lastFlow' = InitialFlow
      BY <2>1 DEF Dismiss
    <3>2. AllFit'
      BY <1>3, <3>1 DEF FlowInv, AllFit, FlowOf
    <3> QED
      BY <1>2, <3>1, <3>2 DEF InitialFlow, FlowRecords, FlowPhases, ConfirmablePhases
  <2>2. CASE mounted \in Orchestrators
    <3>1. /\ flows' = [flows EXCEPT ![mounted] = Reset(@)] /\ UNCHANGED lastFlow
          /\ flows[mounted].phase \notin InFlight
      BY <1>1, <2>2, FlowAssumption DEF Dismiss, DisplayedFlow, CriticalPhases, InFlight, Waiting
    <3>2. /\ Reset(flows[mounted]) \in FlowRecords
          /\ Reset(flows[mounted]).generation > flows[mounted].generation
      BY <1>2, <2>2, FlowRestarted DEF FlowRecords
    <3>3. /\ flows' \in [Orchestrators -> FlowRecords]
          /\ flows'[mounted] = Reset(flows[mounted])
          /\ \A o \in Orchestrators : o # mounted => flows'[o] = flows[o]
      BY <1>2, <2>2, <3>1, <3>2
    <3>4. ASSUME NEW g \in Confirmations
          PROVE  Fits(g, frames[g], flows'[frames[g].orchestrator], journal[g], writes[g], Clean)
      <4>1. Fits(g, frames[g], FlowOf(g), journal[g], writes[g], Clean) /\ Clean \in BOOLEAN
        BY DEF FlowInv, AllFit, Clean
      <4>2. CASE frames[g].orchestrator = mounted
        BY <2>2, <3>1, <3>2, <3>3, <4>2, Overtaken
      <4>3. CASE frames[g].orchestrator = "none"
        BY <1>2, <4>1, <4>3, UnseenFits
      <4>4. CASE frames[g].orchestrator \in Orchestrators \ {mounted}
        BY <3>3, <4>1, <4>4 DEF FlowOf
      <4> QED
        BY <1>2, <4>2, <4>3, <4>4 DEF FrameRecords
    <3>5. AllFit'
      BY <1>3, <3>4 DEF AllFit, FlowOf
    <3> QED
      BY <1>2, <3>1, <3>3, <3>5
  <2> QED
    BY <1>2, <2>1, <2>2
<1>5. FramesApart'
  BY <1>3 DEF FlowInv, FramesApart
<1>6. JournalTyped' /\ ScreenTyped' /\ ContextTyped'
  BY <1>1, <1>4
  DEF FlowInv, FlowTyped, JournalTyped, ScreenTyped, ContextTyped, ContextTypeOK, contextVars, journalVars
<1> QED
  BY <1>4, <1>5, <1>6 DEF FlowInv, FlowTyped

\* A step that leaves the flows, the confirmations and the rows alone.
LEMMA OtherFits ==
    ASSUME FlowInv, UNCHANGED <<flows, frames, journal, writes>>, Clean' => Clean, FlowTyped'
    PROVE  FlowInv'
<1>1. FramesApart'
  BY DEF FlowInv, FramesApart
<1>2. ASSUME NEW g \in Confirmations
      PROVE  Fits(g, frames'[g], flows'[frames'[g].orchestrator], journal'[g], writes'[g], Clean')
  <2>1. Fits(g, frames[g], flows[frames[g].orchestrator], journal[g], writes[g], Clean)
    BY DEF FlowInv, AllFit, FlowOf
  <2>2. Clean \in BOOLEAN /\ Clean' \in BOOLEAN
    BY DEF Clean
  <2> QED
    BY <2>1, <2>2, CleanFits
<1> QED
  BY <1>1, <1>2 DEF FlowInv, AllFit, FlowOf

\* An orchestrator is mounted.
LEMMA MountOrchestratorFits ==
    ASSUME FlowInv, NEW o \in Orchestrators, MountOrchestrator(o)
    PROVE  FlowInv'
<1>1. /\ mounted' = o /\ runtime # "none"
      /\ UNCHANGED <<journalVars, contextVars, flows, frames, review, pending, lastFlow, runtime,
                     startup, faults>>
  BY DEF MountOrchestrator
<1>2. FlowTyped'
  BY <1>1
  DEF FlowInv, FlowTyped, JournalTyped, ScreenTyped, ContextTyped, ContextTypeOK, contextVars, journalVars
<1>3. UNCHANGED <<flows, frames, journal, writes>> /\ Clean' = Clean
  BY <1>1 DEF journalVars, Clean
<1> QED
  BY <1>2, <1>3, OtherFits

\* Contexts are switched and rendered.
LEMMA ContextStepFits ==
    ASSUME FlowInv, ContextStep
    PROVE  FlowInv'
<1>1. ContextTyped
  BY DEF FlowInv, FlowTyped
<1>2. CASE RenderContext
  <2>1. /\ Render /\ mounted' = "none" /\ lastFlow' = DisplayedFlow
        /\ UNCHANGED <<journalVars, flows, frames, review, pending, runtime, startup, faults>>
    BY <1>2 DEF RenderContext
  <2>2. ContextTyped'
    BY <1>1, <2>1 DEF ContextTyped, ContextTypeOK, Render
  <2>3. DisplayedFlow \in FlowRecords
    BY DEF DisplayedFlow, FlowInv, FlowTyped, ScreenTyped
  <2>4. JournalTyped' /\ ScreenTyped'
    BY <2>1, <2>3 DEF FlowInv, FlowTyped, JournalTyped, ScreenTyped, journalVars
  <2>5. UNCHANGED <<flows, frames, journal, writes>> /\ Clean' = Clean
    BY <2>1 DEF journalVars, Clean
  <2> QED
    BY <2>2, <2>4, <2>5, OtherFits DEF FlowTyped
<1>3. CASE /\ \/ \E next \in Contexts : SwitchContext(next)
              \/ \E switch \in switches : \/ CommitSwitch(switch)
                                          \/ DropSwitch(switch)
                                          \/ FailSwitch(switch)
           /\ UNCHANGED <<journalVars, flows, frames, review, pending, uiVars, faults>>
  <2>1. MaxEpoch \in Nat
    BY ContextAssumption
  <2>2. ASSUME NEW next \in Contexts, SwitchContext(next)
        PROVE  ContextTyped'
    BY <1>1, <2>1, <2>2 DEF ContextTyped, ContextTypeOK, SwitchContext, Switches
  <2>3. ASSUME NEW switch \in switches,
               CommitSwitch(switch) \/ DropSwitch(switch) \/ FailSwitch(switch)
        PROVE  ContextTyped'
    BY <1>1, <2>3
    DEF ContextTyped, ContextTypeOK, CommitSwitch, DropSwitch, FailSwitch, Switches
  <2>4. ContextTyped'
    BY <1>3, <2>2, <2>3
  <2>5. JournalTyped' /\ ScreenTyped'
    BY <1>3 DEF FlowInv, FlowTyped, JournalTyped, ScreenTyped, journalVars, uiVars
  <2>6. UNCHANGED <<flows, frames, journal, writes>> /\ Clean' = Clean
    BY <1>3 DEF journalVars, Clean
  <2> QED
    BY <2>4, <2>5, <2>6, OtherFits DEF FlowTyped
<1> QED
  BY <1>2, <1>3 DEF ContextStep

\* Time passes.
LEMMA TickFits ==
    ASSUME FlowInv, Tick
    PROVE  FlowInv'
<1>1. /\ wall < MaxTime /\ wall' = wall + 1
      /\ UNCHANGED <<scopes, journal, open, prepared, writes>>
      /\ UNCHANGED <<contextVars, flows, frames, review, pending, uiVars, faults>>
  BY DEF Tick, J!SetWallClock, J!memory
<1>2. FlowTyped'
  BY <1>1, FlowAssumption
  DEF FlowInv, FlowTyped, JournalTyped, ScreenTyped, ContextTyped, ContextTypeOK, contextVars, uiVars
<1>3. UNCHANGED <<flows, frames, journal, writes>> /\ Clean' = Clean
  BY <1>1 DEF Clean
<1> QED
  BY <1>2, <1>3, OtherFits

\* A recovered row says no less of the request, and is never left prepared.
LEMMA RecoveredFits ==
    ASSUME NEW f \in Confirmations, NEW frame \in FrameRecords, NEW flow \in FlowRecords,
           NEW row \in J!RowType, NEW written, NEW clean, NEW clean2,
           Fits(f, frame, flow, row, written, clean)
    PROVE  Fits(f, frame, flow, J!Recovered(row), written, clean2)
<1> DEFINE next == J!Recovered(row)
<1>1. /\ row.state = "prepared" => next.state = "abandoned_before_submission"
      /\ row.state = "submission_started" => next.state = "unresolved"
      /\ row.state \notin {"prepared", "submission_started"} => next = row
  BY RowRecovered
<1> HIDE DEF next
<1>2. RowFits(frame.pc, next, written, clean2)
  BY <1>1 DEF Fits, RowFits, UnsentStates, SentStates, J!ReconcilableStates, PortOutcomes
<1>3. FrameFits(f, frame, flow)
  BY DEF Fits
<1>4. DisplayFits(f, frame, flow, next, written)
  BY <1>1 DEF Fits, DisplayFits, PhaseOfState, TerminalPhases
<1>5. Fits(f, frame, flow, next, written, clean2)
  BY <1>2, <1>3, <1>4 DEF Fits
<1> QED
  BY <1>5 DEF next

\* A runtime mounts and recovers the journal, whoever goes on.
LEMMA MountRuntimeFits ==
    ASSUME FlowInv, NEW r \in Runtimes, MountRuntime(r)
    PROVE  FlowInv'
<1>1. /\ runtime' = r /\ open' = open \cup {r}
      /\ journal' = [f \in Confirmations |-> J!Recovered(journal[f])]
      /\ startup' = {f \in Confirmations : J!Recovered(journal[f]).state \in J!ReconcilableStates}
      /\ mounted' = "none" /\ lastFlow' = InitialFlow /\ review' = NoReview
      /\ UNCHANGED <<wall, scopes, prepared, writes, contextVars, flows, frames, pending, faults>>
  BY DEF MountRuntime
<1>2. /\ journal \in [Confirmations -> J!RowType] /\ wall \in 0..MaxTime
      /\ flows \in [Orchestrators -> FlowRecords]
      /\ frames \in [Confirmations -> FrameRecords]
  BY DEF FlowInv, FlowTyped, JournalTyped, ScreenTyped
<1>3. journal' \in [Confirmations -> J!RowType]
  BY <1>1, <1>2, RowsRewritten
<1>4. JournalTyped'
  BY <1>1, <1>3 DEF FlowInv, FlowTyped, JournalTyped
<1>5. ScreenTyped'
  BY <1>1 DEF FlowInv, FlowTyped, ScreenTyped, InitialFlow, FlowRecords, FlowPhases, ConfirmablePhases
<1>6. ContextTyped'
  BY <1>1 DEF FlowInv, FlowTyped, ContextTyped, ContextTypeOK, contextVars
<1>7. FramesApart'
  BY <1>1 DEF FlowInv, FramesApart
<1>8. ASSUME NEW g \in Confirmations
      PROVE  Fits(g, frames[g], flows[frames[g].orchestrator], J!Recovered(journal[g]), writes[g],
                  Clean')
  <2>1. Fits(g, frames[g], flows[frames[g].orchestrator], journal[g], writes[g], Clean)
    BY DEF FlowInv, AllFit, FlowOf
  <2>2. journal[g] \in J!RowType /\ frames[g] \in FrameRecords
    BY <1>2
  <2>3. CASE frames[g].orchestrator \in Orchestrators
    BY <1>2, <2>1, <2>2, <2>3, RecoveredFits
  <2>4. CASE frames[g].orchestrator = "none"
    <3>1. InitialFlow \in FlowRecords
      BY DEF InitialFlow, FlowRecords, FlowPhases, ConfirmablePhases
    <3>2. Fits(g, frames[g], InitialFlow, journal[g], writes[g], FALSE)
      BY <2>1, <2>2, <2>4, UnseenFits DEF Clean
    <3>3. Fits(g, frames[g], InitialFlow, J!Recovered(journal[g]), writes[g], Clean')
      BY <2>2, <3>1, <3>2, RecoveredFits
    <3> QED
      BY <2>4, <3>3 DEF Fits, FrameFits, DisplayFits
  <2> QED
    BY <2>2, <2>3, <2>4 DEF FrameRecords
<1>9. ASSUME NEW g \in Confirmations
      PROVE  Fits(g, frames[g], FlowOf(g), journal[g], writes[g], Clean)'
  <2>1. journal'[g] = J!Recovered(journal[g])
    BY <1>1
  <2>2. writes' = writes /\ frames' = frames /\ flows' = flows
    BY <1>1
  <2> QED
    BY <1>8, <2>1, <2>2 DEF FlowOf
<1>10. AllFit'
  BY <1>9 DEF AllFit
<1> QED
  BY <1>4, <1>5, <1>6, <1>7, <1>10 DEF FlowInv, FlowTyped

\* A port writes the outcome of a row that waits for one, which no flow shows yet.
LEMMA StartupSettlesFits ==
    ASSUME FlowInv, NEW j \in Confirmations, NEW state \in PortOutcomes, StartupSettles(j, state)
    PROVE  FlowInv'
<1>1. /\ journal[j].state \in J!ReconcilableStates
      /\ J!TransitionAction(runtime, j, state)
      /\ UNCHANGED <<contextVars, flows, frames, review, pending, uiVars, faults>>
  BY DEF StartupSettles
<1>2. /\ journal' \in [Confirmations -> J!RowType] /\ journal'[j].state = state
      /\ \A g \in Confirmations \ {j} : journal'[g] = journal[g]
      /\ prepared' \in [Runtimes -> SUBSET Confirmations]
      /\ UNCHANGED <<wall, scopes, open, writes>>
  <2>1. FlowTyped
    BY DEF FlowInv
  <2> QED
    BY <1>1, <2>1, TransitionTyped
<1>3. FlowTyped'
  BY <1>1, <1>2
  DEF FlowInv, FlowTyped, JournalTyped, ScreenTyped, ContextTyped, ContextTypeOK, contextVars, uiVars
<1>4. FramesApart'
  BY <1>1 DEF FlowInv, FramesApart
<1>5. ASSUME NEW g \in Confirmations
      PROVE  Fits(g, frames[g], FlowOf(g), journal[g], writes[g], Clean)
  BY DEF FlowInv, AllFit
<1>6. Fits(j, frames[j], FlowOf(j), journal'[j], writes[j], Clean)
  <2> DEFINE row == journal'[j]
             old == journal[j]
  <2>1. row.state \in PortOutcomes /\ old.state \in J!ReconcilableStates /\ writes[j] \in 0..1
    BY <1>1, <1>2 DEF FlowInv, FlowTyped, JournalTyped
  <2>2. Fits(j, frames[j], FlowOf(j), old, writes[j], Clean)
    BY <1>5
  <2> HIDE DEF row, old
  <2>3. RowFits(frames[j].pc, row, writes[j], Clean)
    BY <2>1, <2>2
    DEF Fits, RowFits, UnsentStates, SentStates, PortOutcomes, J!ReconcilableStates
  <2>4. DisplayFits(j, frames[j], FlowOf(j), row, writes[j])
    BY <2>1, <2>2 DEF Fits, DisplayFits, PhaseOfState, TerminalPhases, J!ReconcilableStates
  <2>5. Fits(j, frames[j], FlowOf(j), row, writes[j], Clean)
    BY <2>2, <2>3, <2>4 DEF Fits
  <2> QED
    BY <2>5 DEF row
<1>7. ASSUME NEW g \in Confirmations
      PROVE  Fits(g, frames[g], FlowOf(g), journal[g], writes[g], Clean)'
  <2>1. UNCHANGED <<frames, flows, writes>> /\ Clean' = Clean
    BY <1>1, <1>2 DEF Clean
  <2>2. CASE g = j
    BY <1>6, <2>1, <2>2 DEF FlowOf
  <2>3. CASE g # j
    BY <1>2, <1>5, <2>1, <2>3 DEF FlowOf
  <2> QED
    BY <2>2, <2>3
<1>8. AllFit'
  BY <1>7 DEF AllFit
<1> QED
  BY <1>3, <1>4, <1>8 DEF FlowInv

\* The process dies: rows remain, confirmations and flows do not.
LEMMA CrashProcessFits ==
    ASSUME FlowInv, CrashProcess
    PROVE  FlowInv'
<1>1. /\ open' = {} /\ prepared' = [r \in Runtimes |-> {}]
      /\ frames' = [f \in Confirmations |-> IF frames[f].pc = "idle" THEN NoFrame
                                            ELSE [NoFrame EXCEPT !.pc = "done"]]
      /\ flows' = [o \in Orchestrators |-> InitialFlow]
      /\ pending' = [r \in Runtimes |-> FALSE]
      /\ mounted' = "none" /\ lastFlow' = InitialFlow /\ review' = NoReview
      /\ runtime' = "none" /\ startup' = {}
      /\ UNCHANGED <<wall, scopes, journal, writes, contextVars, faults>>
  BY DEF CrashProcess
<1>2. /\ NoFrame \in FrameRecords /\ [NoFrame EXCEPT !.pc = "done"] \in FrameRecords
      /\ NoFrame.orchestrator = "none" /\ NoFrame.pc = "idle"
      /\ [NoFrame EXCEPT !.pc = "done"].orchestrator = "none"
      /\ [NoFrame EXCEPT !.pc = "done"].pc = "done"
  BY DEF NoFrame, FrameRecords, Steps, NoReview
<1>3. frames' \in [Confirmations -> FrameRecords]
  BY <1>1, <1>2
<1>4. InitialFlow \in FlowRecords
  BY DEF InitialFlow, FlowRecords, FlowPhases, ConfirmablePhases
<1>5. JournalTyped'
  BY <1>1 DEF FlowInv, FlowTyped, JournalTyped
<1>6. ScreenTyped'
  BY <1>1, <1>3, <1>4 DEF ScreenTyped
<1>7. ContextTyped'
  BY <1>1 DEF FlowInv, FlowTyped, ContextTyped, ContextTypeOK, contextVars
<1>8. ASSUME NEW g \in Confirmations
      PROVE  frames'[g].orchestrator = "none"
  BY <1>1, <1>2
<1>9. FramesApart'
  BY <1>8 DEF FramesApart
<1>10. ASSUME NEW g \in Confirmations
       PROVE  Fits(g, frames[g], FlowOf(g), journal[g], writes[g], Clean)'
  <2>1. RowFits(frames[g].pc, journal[g], writes[g], Clean)
    BY DEF FlowInv, AllFit, Fits
  <2>2. ~Clean'
    BY <1>1 DEF Clean
  <2>3. \/ frames[g].pc = "idle" /\ frames'[g] = NoFrame
        \/ frames'[g] = [NoFrame EXCEPT !.pc = "done"]
    BY <1>1
  <2>4. RowFits(frames'[g].pc, journal[g], writes[g], Clean')
    BY <1>2, <2>1, <2>2, <2>3 DEF RowFits
  <2>5. FrameFits(g, frames'[g], flows'[frames'[g].orchestrator])
    BY <1>2, <2>3 DEF FrameFits, InFlight, Waiting
  <2>6. DisplayFits(g, frames'[g], flows'[frames'[g].orchestrator], journal[g], writes[g])
    BY <1>8 DEF DisplayFits
  <2> QED
    BY <1>1, <2>4, <2>5, <2>6 DEF Fits, FlowOf
<1>11. AllFit'
  BY <1>10 DEF AllFit
<1> QED
  BY <1>5, <1>6, <1>7, <1>9, <1>11 DEF FlowInv, FlowTyped

-----------------------------------------------------------------------------
(* The specification. *)

\* No action is confirmed yet: the invariant holds at the start.
LEMMA FlowInvInit ==
    Init => FlowInv
<1> SUFFICES ASSUME Init PROVE FlowInv
  OBVIOUS
<1>1. InitialFlow \in FlowRecords /\ NoFrame \in FrameRecords
  BY DEF InitialFlow, FlowRecords, FlowPhases, ConfirmablePhases, NoFrame, FrameRecords, Steps, NoReview
<1>2. /\ wall = 0 /\ open = {} /\ faults = 0
      /\ journal = [f \in Confirmations |-> J!NoRow]
      /\ prepared = [r \in Runtimes |-> {}]
      /\ writes = [f \in Confirmations |-> 0]
      /\ flows = [o \in Orchestrators |-> InitialFlow]
      /\ frames = [f \in Confirmations |-> NoFrame]
      /\ mounted = "none" /\ runtime = "none" /\ review = NoReview /\ lastFlow = InitialFlow
      /\ pending = [r \in Runtimes |-> FALSE] /\ startup = {}
  BY DEF Init
<1>3. J!NoRow \in J!RowType /\ J!NoRow.state = "absent"
  BY DEF J!NoRow, J!RowType, J!JournalStates, J!ResultClasses, J!Null
<1>4. scopes \in [Contexts -> J!ScopeType]
  <2>1. scopes = [c \in Contexts |-> [J!NoScope EXCEPT !.status = "active", !.account = c]]
    BY DEF Init
  <2>2. ASSUME NEW c \in Contexts
        PROVE  [J!NoScope EXCEPT !.status = "active", !.account = c] \in J!ScopeType
    BY DEF J!NoScope, J!ScopeType, J!Null
  <2> QED
    BY <2>1, <2>2
<1>5. JournalTyped
  <2>1. 0 \in 0..MaxTime
    BY FlowAssumption
  <2> QED
    BY <1>2, <1>3, <1>4, <2>1 DEF JournalTyped
<1>6. ScreenTyped
  BY <1>1, <1>2 DEF ScreenTyped
<1>7. ContextTyped
  <2>1. MaxEpoch \in Nat
    BY ContextAssumption
  <2>2. current \in Contexts /\ epoch = 0 /\ switches = {} /\ rendered = current /\ selected = current
    BY DEF Init, ContextInit
  <2> QED
    BY <2>1, <2>2 DEF ContextTyped, ContextTypeOK
<1>8. ASSUME NEW f \in Confirmations
      PROVE  Fits(f, frames[f], FlowOf(f), journal[f], writes[f], Clean)
  <2>1. /\ frames[f] = NoFrame /\ journal[f].state = "absent" /\ writes[f] = 0
        /\ NoFrame.pc = "idle" /\ NoFrame.orchestrator = "none"
    BY <1>2, <1>3 DEF NoFrame
  <2> QED
    BY <2>1 DEF Fits, RowFits, FrameFits, DisplayFits, UnsentStates, InFlight, Waiting
<1>9. AllFit
  BY <1>8 DEF AllFit
<1>10. FramesApart
  BY <1>2 DEF FramesApart, NoFrame
<1> QED
  BY <1>5, <1>6, <1>7, <1>9, <1>10 DEF FlowInv, FlowTyped

\* Every step keeps it.
LEMMA FlowInvStep ==
    FlowInv /\ [Next]_vars => FlowInv'
<1> SUFFICES ASSUME FlowInv, [Next]_vars
             PROVE  FlowInv'
  OBVIOUS
<1>1. ASSUME NEW f \in Confirmations, Continue(f)
      PROVE  FlowInv'
  <2>1. CASE Refreshed(f) \/ FailsWaiting(f)
    BY <2>1, RefreshedFits, FailsWaitingFits
  <2>2. CASE Unlocked(f) \/ Signed(f)
    BY <2>2, UnlockedFits, SignedFits
  <2>3. CASE \E kind \in {"accepted", "rejected", "expired", "unresolved"} : Responds(f, kind)
    BY <2>3, RespondsFits
  <2>4. CASE SubmitThrows(f)
    BY <2>4, SubmitThrowsFits DEF SubmitThrows
  <2>5. CASE PortEnds(f)
    BY <2>5, PortEndsFits
  <2> QED
    BY <1>1, <2>1, <2>2, <2>3, <2>4, <2>5 DEF Continue
<1>2. CASE UserStep
  BY <1>2, ReviewAndSubmitFits, ConfirmOnSheetFits, DismissFits DEF UserStep
<1>3. CASE ContextStep
  BY <1>3, ContextStepFits
<1>4. CASE RuntimeStep
  BY <1>4, MountOrchestratorFits, MountRuntimeFits, StartupSettlesFits, CrashProcessFits
  DEF RuntimeStep
<1>5. CASE Tick
  BY <1>5, TickFits
<1>6. CASE UNCHANGED vars
  <2>1. UNCHANGED <<flows, frames, journal, writes>> /\ Clean' = Clean
    BY <1>6 DEF vars, journalVars, Clean
  <2>2. FlowTyped'
    BY <1>6
    DEF FlowInv, FlowTyped, JournalTyped, ScreenTyped, ContextTyped, ContextTypeOK, contextVars,
        uiVars, vars, journalVars
  <2> QED
    BY <2>1, <2>2, OtherFits
<1> QED
  BY <1>1, <1>2, <1>3, <1>4, <1>5, <1>6 DEF Next

\* The invariant holds of every reachable state.
LEMMA FlowInvAlways ==
    Spec => []FlowInv
BY FlowInvInit, FlowInvStep, PTL DEF Spec

\* Every variable of the flow, its screen and its journal keeps its type.
THEOREM TypeCorrect ==
    Spec => []TypeOK
<1>1. ASSUME FlowInv
      PROVE  TypeOK
  <2>1. FlowTyped
    BY <1>1 DEF FlowInv
  <2>2. /\ ContextTypeOK /\ wall \in 0..MaxTime /\ journal \in [Confirmations -> J!RowType]
        /\ scopes \in [Contexts -> J!ScopeType] /\ writes \in [Confirmations -> 0..1]
        /\ review \in Reviews \cup {NoReview} /\ pending \in [Runtimes -> BOOLEAN]
        /\ mounted \in Orchestrators \cup {"none"}
    BY <2>1 DEF FlowTyped, JournalTyped, ScreenTyped, ContextTyped
  <2>3. ASSUME NEW o \in Orchestrators
        PROVE  /\ flows[o].phase \in FlowPhases /\ flows[o].generation \in Nat
               /\ flows[o].journalId \in Confirmations \cup {"none"}
    BY <2>1 DEF FlowTyped, ScreenTyped, FlowRecords
  <2>4. ASSUME NEW f \in Confirmations
        PROVE  frames[f].pc \in Steps
    BY <2>1 DEF FlowTyped, ScreenTyped, FrameRecords
  <2> QED
    BY <2>2, <2>3, <2>4 DEF TypeOK, FlowPhases, Steps, InFlight, Waiting
<1> QED
  BY <1>1, FlowInvAlways, PTL

\* confirm and the runtime provider: an action that can still be sent, or that was
\* sent and waits for its answer, is the one on display, in its own phase. Neither
\* a dismissal, nor a second confirmation, nor a remount or a crash hides it.
THEOREM InFlightShown ==
    Spec => []InFlightIsShown
<1>1. ASSUME FlowInv
      PROVE  InFlightIsShown
  <2>1. ASSUME NEW f \in Confirmations,
               frames[f].pc \in {"refreshing", "unlocking", "signing", "submitting"}
        PROVE  FlowOf(f).generation = frames[f].generation /\ FlowOf(f).phase = frames[f].pc
    <3>1. FrameFits(f, frames[f], FlowOf(f))
      BY <1>1 DEF FlowInv, AllFit, Fits
    <3> QED
      BY <2>1, <3>1 DEF FrameFits, InFlight, Waiting
  <2> QED
    BY <2>1 DEF InFlightIsShown
<1> QED
  BY <1>1, FlowInvAlways, PTL

\* reconcileFailure and reconcileUnresolved: what the sheet says of an action is
\* what its durable row says, "failed before submission" means that no request was
\* made, and without a refused transition no reservation outlives its confirmation.
THEOREM OutcomesDurable ==
    Spec => []OutcomeIsDurable
<1>1. ASSUME FlowInv, NEW f \in Confirmations
      PROVE  /\ Displays(f, {"failed_before_submission"}) =>
                   /\ writes[f] = 0
                   /\ journal[f].state \in {"absent", "prepared", "abandoned_before_submission"}
                   /\ frames[f].pc = "done"
             /\ Displays(f, TerminalPhases) =>
                   /\ FlowOf(f).journalId = f
                   /\ PhaseOfState(journal[f].state) = FlowOf(f).phase
             /\ Displays(f, {"reconciling"}) => FlowOf(f).journalId = f /\ writes[f] = 1
             /\ faults = 0 /\ open # {} /\ journal[f].state = "prepared" =>
                   frames[f].pc = "signing"
  <2>1. /\ RowFits(frames[f].pc, journal[f], writes[f], Clean)
        /\ FrameFits(f, frames[f], FlowOf(f))
        /\ DisplayFits(f, frames[f], FlowOf(f), journal[f], writes[f])
    BY <1>1 DEF FlowInv, AllFit, Fits
  <2>2. frames[f].pc \in Steps
    BY <1>1 DEF FlowInv, FlowTyped, ScreenTyped, FrameRecords
  <2>3. ASSUME Displays(f, {"failed_before_submission"})
        PROVE  /\ writes[f] = 0
               /\ journal[f].state \in {"absent", "prepared", "abandoned_before_submission"}
               /\ frames[f].pc = "done"
    BY <2>1, <2>2, <2>3
    DEF Displays, DisplayFits, FrameFits, RowFits, UnsentStates, Steps, InFlight, Waiting
  <2>4. Displays(f, TerminalPhases) =>
           FlowOf(f).journalId = f /\ PhaseOfState(journal[f].state) = FlowOf(f).phase
    BY <2>1 DEF Displays, DisplayFits
  <2>5. Displays(f, {"reconciling"}) => FlowOf(f).journalId = f /\ writes[f] = 1
    BY <2>1 DEF Displays, DisplayFits
  <2>6. faults = 0 /\ open # {} /\ journal[f].state = "prepared" => frames[f].pc = "signing"
    BY <2>1 DEF RowFits, Clean
  <2> QED
    BY <2>3, <2>4, <2>5, <2>6
<1>2. FlowInv => OutcomeIsDurable
  BY <1>1 DEF OutcomeIsDurable
<1> QED
  BY <1>2, FlowInvAlways, PTL

-----------------------------------------------------------------------------
(* The confirmations implement ActionLife. *)

\* No row has a nonce its signer's scope has not issued.
NoncesCovered ==
    \A f \in Confirmations : journal[f].state # "absent" =>
        /\ journal[f].agent \in Contexts
        /\ journal[f].nonce <= scopes[journal[f].agent].lastNonce

LifeInv == FlowInv /\ NoncesCovered

\* Whose action the row is, what it asks for and whether it is there.
SameAction(row, old) ==
    /\ row.state = "absent" <=> old.state = "absent"
    /\ row.agent = old.agent /\ row.account = old.account
    /\ row.intent = old.intent /\ row.nonce = old.nonce

\* What a step that reserves nothing may make of a row.
RowGoesOn(row, old) ==
    /\ SameAction(row, old)
    /\ \/ row.state = old.state
       \/ /\ old.state \in J!ReconcilableStates
          /\ row.state \in J!ReconcilableStates \cup PortOutcomes
       \/ old.state = "prepared" /\ row.state = "abandoned_before_submission"

\* The rewriting of rows leaves whose they are.
LEMMA RewritingKeeps ==
    ASSUME NEW row \in J!RowType
    PROVE  /\ row.state # "absent" =>
                 /\ \A s \in J!JournalStates : SameAction(J!Transitioned(row, s), row)
                 /\ SameAction(J!SubmissionStarted(row), row)
           /\ RowGoesOn(J!Recovered(row), row)
           /\ RowGoesOn(RowAfterFailure(row), row)
<1> DEFINE Identity(new) == /\ new.agent = row.agent /\ new.account = row.account
                            /\ new.intent = row.intent /\ new.nonce = row.nonce
<1>1. ASSUME NEW s \in J!JournalStates
      PROVE  J!Transitioned(row, s).state = s /\ Identity(J!Transitioned(row, s))
  BY DEF J!Transitioned, J!Unleased, J!RowType
<1>2. /\ J!SubmissionStarted(row).state = "submission_started"
      /\ Identity(J!SubmissionStarted(row))
  BY DEF J!SubmissionStarted, J!RowType
<1>3. "absent" \notin J!JournalStates
      /\ {"unresolved", "abandoned_before_submission", "submission_started"}
            \subseteq J!JournalStates
  BY DEF J!JournalStates, J!ReconcilableStates, J!TerminalStates
<1>4. RowGoesOn(J!Recovered(row), row)
  BY DEF J!Recovered, J!RowType, RowGoesOn, SameAction, J!ReconcilableStates
<1>5. RowGoesOn(RowAfterFailure(row), row)
  <2>1. CASE row.state = "submission_started"
    BY <2>1, <1>1, <1>3 DEF RowAfterFailure, RowGoesOn, SameAction, J!ReconcilableStates
  <2>2. CASE row.state = "prepared"
    BY <2>2, <1>1, <1>3 DEF RowAfterFailure, RowGoesOn, SameAction
  <2>3. CASE row.state \notin {"submission_started", "prepared"}
    BY <2>3 DEF RowAfterFailure, RowGoesOn, SameAction
  <2> QED
    BY <2>1, <2>2, <2>3
<1> QED
  BY <1>1, <1>2, <1>3, <1>4, <1>5 DEF SameAction

\* What a row says of its action, by its state.
LEMMA LifeByState ==
    ASSUME NEW row
    PROVE  /\ J!LifeOf(row) = "none" <=> row.state \in {"absent", "none"}
           /\ row.state = "prepared" => J!LifeOf(row) = "reserved"
           /\ row.state \in J!ReconcilableStates => J!LifeOf(row) = "submitted"
           /\ row.state = "abandoned_before_submission" => J!LifeOf(row) = "abandoned"
           /\ row.state \in PortOutcomes => J!LifeOf(row) = row.state
BY DEF J!LifeOf, J!ReconcilableStates, PortOutcomes

\* Rows of one action ask for the same.
LEMMA SameRequest ==
    ASSUME NEW row, NEW old, SameAction(row, old)
    PROVE  J!RequestOf(row) = J!RequestOf(old)
BY DEF SameAction, J!RequestOf

\* A row that goes on stays, settles or is given up.
LEMMA LifeGoesOn ==
    ASSUME NEW row, NEW old, RowGoesOn(row, old)
    PROVE  /\ J!RequestOf(row) = J!RequestOf(old)
           /\ \/ J!LifeOf(row) = J!LifeOf(old)
              \/ J!LifeOf(old) = "submitted" /\ J!LifeOf(row) \in Contract!Outcome
              \/ J!LifeOf(old) = "reserved" /\ J!LifeOf(row) = "abandoned"
<1>1. J!RequestOf(row) = J!RequestOf(old)
  BY SameRequest DEF RowGoesOn
<1>2. ASSUME row.state = old.state
      PROVE  J!LifeOf(row) = J!LifeOf(old)
  BY <1>2 DEF J!LifeOf
<1>3. ASSUME old.state \in J!ReconcilableStates,
             row.state \in J!ReconcilableStates \cup PortOutcomes
      PROVE  /\ J!LifeOf(old) = "submitted"
             /\ J!LifeOf(row) \in Contract!Outcome \cup {"submitted"}
  BY <1>3, LifeByState DEF PortOutcomes, Contract!Outcome
<1>4. ASSUME old.state = "prepared", row.state = "abandoned_before_submission"
      PROVE  J!LifeOf(old) = "reserved" /\ J!LifeOf(row) = "abandoned"
  BY <1>4, LifeByState
<1> QED
  BY <1>1, <1>2, <1>3, <1>4 DEF RowGoesOn

\* A step in which rows go on and nothing is reserved issues no nonce.
LEMMA NoncesStayCovered ==
    ASSUME NoncesCovered, scopes' = scopes,
           \A f \in Confirmations : SameAction(journal'[f], journal[f])
    PROVE  NoncesCovered'
BY DEF NoncesCovered, SameAction

\* One row goes on: the action settles, is given up, or is where it was.
LEMMA OneGoesOn ==
    ASSUME FlowTyped, NEW f \in Confirmations, NEW row, RowGoesOn(row, journal[f]),
           journal' = [journal EXCEPT ![f] = row], UNCHANGED <<scopes, writes>>
    PROVE  /\ NoncesCovered => NoncesCovered'
           /\ Contract!Settle(f) \/ Contract!GiveUp \/ UNCHANGED Contract!lifeVars
<1>1. journal \in [Confirmations -> J!RowType]
  BY DEF FlowTyped, JournalTyped
<1>2. journal'[f] = row /\ \A g \in Confirmations \ {f} : journal'[g] = journal[g]
  BY <1>1
<1>3. /\ J!RequestOf(row) = J!RequestOf(journal[f])
      /\ \/ J!LifeOf(row) = J!LifeOf(journal[f])
         \/ J!LifeOf(journal[f]) = "submitted" /\ J!LifeOf(row) \in Contract!Outcome
         \/ J!LifeOf(journal[f]) = "reserved" /\ J!LifeOf(row) = "abandoned"
  BY LifeGoesOn
<1>4. [g \in Confirmations |-> J!RequestOf(journal'[g])]
         = [g \in Confirmations |-> J!RequestOf(journal[g])]
  BY <1>2, <1>3
<1>5. NoncesCovered => NoncesCovered'
  <2>1. \A g \in Confirmations : SameAction(journal'[g], journal[g])
    BY <1>2 DEF RowGoesOn, SameAction
  <2> QED
    BY <2>1, NoncesStayCovered
<1>6. CASE J!LifeOf(row) = J!LifeOf(journal[f])
  <2>1. [g \in Confirmations |-> J!LifeOf(journal'[g])]
           = [g \in Confirmations |-> J!LifeOf(journal[g])]
    BY <1>2, <1>6
  <2> QED
    BY <1>4, <1>5, <2>1 DEF Contract!lifeVars
<1>7. CASE J!LifeOf(journal[f]) = "submitted" /\ J!LifeOf(row) \in Contract!Outcome
  <2>1. [g \in Confirmations |-> J!LifeOf(journal'[g])]
           = [[g \in Confirmations |-> J!LifeOf(journal[g])] EXCEPT ![f] = J!LifeOf(row)]
    <3>1. \A g \in Confirmations :
             J!LifeOf(journal'[g]) = IF g = f THEN J!LifeOf(row) ELSE J!LifeOf(journal[g])
      BY <1>2
    <3> QED
      BY <3>1
  <2> QED
    BY <1>4, <1>5, <1>7, <2>1 DEF Contract!Settle
<1>8. CASE J!LifeOf(journal[f]) = "reserved" /\ J!LifeOf(row) = "abandoned"
  <2>1. [g \in Confirmations |-> J!LifeOf(journal'[g])]
           = [g \in Confirmations |-> IF g \in {f} THEN "abandoned" ELSE J!LifeOf(journal[g])]
    BY <1>2, <1>8
  <2>2. {f} \in SUBSET {g \in Confirmations : J!LifeOf(journal[g]) = "reserved"}
    BY <1>8
  <2> QED
    BY <1>4, <1>5, <2>1, <2>2 DEF Contract!GiveUp
<1> QED
  BY <1>3, <1>5, <1>6, <1>7, <1>8

\* What a step is to the contract, with what the proof needs of the next state.
LifeStep ==
    /\ NoncesCovered'
    /\ [Contract!Next]_(Contract!lifeVars)

\* A step that touches neither rows nor requests is none of the contract's.
LEMMA ElsewhereStep ==
    ASSUME LifeInv, UNCHANGED <<scopes, journal, writes>>
    PROVE  LifeStep
<1>1. NoncesCovered'
  BY DEF LifeInv, NoncesCovered
<1>2. UNCHANGED Contract!lifeVars
  BY DEF Contract!lifeVars
<1> QED
  BY <1>1, <1>2 DEF LifeStep

\* A failing confirmation gives its reservation up, or leaves the action waiting.
LEMMA FailsStep ==
    ASSUME LifeInv, NEW f \in Confirmations, NEW frame, NEW flow, NEW shown,
           Fails(f, frame, flow, shown)
    PROVE  LifeStep
<1>1. PICK row : /\ row \in {journal[f], RowAfterFailure(journal[f])}
                 /\ journal' = [journal EXCEPT ![f] = row]
                 /\ UNCHANGED <<scopes, writes>>
  BY DEF Fails
<1>2. journal[f] \in J!RowType /\ FlowTyped
  BY DEF LifeInv, FlowInv, FlowTyped, JournalTyped
<1>3. RowGoesOn(row, journal[f])
  <2>1. RowGoesOn(journal[f], journal[f])
    BY DEF RowGoesOn, SameAction
  <2> QED
    BY <2>1, <1>1, <1>2, RewritingKeeps
<1> QED
  BY <1>1, <1>2, <1>3, OneGoesOn DEF LifeInv, LifeStep, Contract!Next

\* A transition to an outcome settles the action; one to `unresolved' leaves it.
LEMMA TransitionStep ==
    ASSUME LifeInv, NEW r, NEW f \in Confirmations,
           NEW next \in PortOutcomes \cup {"unresolved"}, J!TransitionAction(r, f, next)
    PROVE  LifeStep
<1>1. /\ journal[f].state # "absent" /\ next \in J!AllowedTransitions[journal[f].state]
      /\ journal' = [journal EXCEPT ![f] = J!Transitioned(journal[f], next)]
      /\ UNCHANGED <<scopes, writes>>
  BY DEF J!TransitionAction
<1>2. journal[f] \in J!RowType /\ FlowTyped
  BY DEF LifeInv, FlowInv, FlowTyped, JournalTyped
<1>3. /\ journal[f].state \in J!ReconcilableStates
      /\ next \in J!JournalStates
  BY <1>1, <1>2
  DEF J!AllowedTransitions, J!RowType, J!JournalStates, J!ReconcilableStates, J!TerminalStates,
      PortOutcomes
<1>4. /\ SameAction(J!Transitioned(journal[f], next), journal[f])
      /\ J!Transitioned(journal[f], next).state = next
  BY <1>1, <1>2, <1>3, RewritingKeeps DEF J!Transitioned, J!Unleased, J!RowType
<1>5. RowGoesOn(J!Transitioned(journal[f], next), journal[f])
  BY <1>3, <1>4 DEF RowGoesOn, J!ReconcilableStates
<1> QED
  BY <1>1, <1>2, <1>5, OneGoesOn DEF LifeInv, LifeStep, Contract!Next

\* The reservation of an unlocked confirmation reserves.
LEMMA ReservationStep ==
    ASSUME LifeInv, NEW f \in Confirmations, NEW r, NEW a, NEW intent, NEW clock,
           J!ReservePreparedAction(r, f, a, a, intent, clock), a \in Contexts
    PROVE  LifeStep
<1> DEFINE row == J!PreparedRow(a, intent)
           scope == scopes[a]
<1>1. /\ journal[f].state = "absent" /\ scope.account = a
      /\ ~J!EquivalentActionPending(a, intent)
      /\ scopes' = [scopes EXCEPT ![a] = J!NonceIssued(scope)]
      /\ journal' = [journal EXCEPT ![f] = row]
      /\ writes' = writes
  BY DEF J!ReservePreparedAction, J!MayIssueNonce
<1>2. /\ journal \in [Confirmations -> J!RowType]
      /\ scopes \in [Contexts -> J!ScopeType] /\ scope \in J!ScopeType
      /\ wall \in Nat /\ NoncesCovered
  BY FlowAssumption DEF LifeInv, FlowInv, FlowTyped, JournalTyped
<1>3. /\ J!AllocatedNonce(scope) \in Nat
      /\ scope.lastNonce \in Int /\ scope.lastNonce < J!AllocatedNonce(scope)
  BY <1>2 DEF J!AllocatedNonce, J!Max2, J!ScopeType, J!Null
<1>4. /\ row.state = "prepared" /\ row.agent = a /\ row.account = a
      /\ row.intent = intent /\ row.nonce = J!AllocatedNonce(scope)
  BY <1>1 DEF J!PreparedRow, J!NoRow
<1>5. J!NonceIssued(scope).lastNonce = J!AllocatedNonce(scope)
  BY <1>2 DEF J!NonceIssued, J!ScopeType
<1> HIDE DEF row
<1>6. /\ journal'[f] = row /\ \A g \in Confirmations \ {f} : journal'[g] = journal[g]
      /\ scopes'[a].lastNonce = J!AllocatedNonce(scope)
      /\ \A c \in Contexts \ {a} : scopes'[c] = scopes[c]
  BY <1>1, <1>2, <1>5
<1>7. \A g \in Confirmations : journal[g].nonce \in Nat
  BY <1>2 DEF J!RowType
<1>8. ASSUME NEW g \in Confirmations, journal[g].state # "absent", journal[g].agent = a
      PROVE  journal[g].nonce < J!AllocatedNonce(scope)
  <2>1. journal[g].nonce <= scope.lastNonce
    BY <1>2, <1>8 DEF NoncesCovered
  <2> QED
    BY <2>1, <1>3, <1>7
<1>9. NoncesCovered'
  <2>1. ASSUME NEW g \in Confirmations, journal'[g].state # "absent"
        PROVE  /\ journal'[g].agent \in Contexts
               /\ journal'[g].nonce <= scopes'[journal'[g].agent].lastNonce
    <3>1. CASE g = f
      BY <3>1, <1>3, <1>4, <1>6
    <3>2. CASE g # f /\ journal[g].agent = a
      BY <3>2, <2>1, <1>3, <1>6, <1>7, <1>8
    <3>3. CASE g # f /\ journal[g].agent # a
      BY <3>3, <2>1, <1>2, <1>6 DEF NoncesCovered
    <3> QED
      BY <3>1, <3>2, <3>3
  <2> QED
    BY <2>1 DEF NoncesCovered
<1>10. /\ J!LifeOf(journal[f]) = "none" /\ J!LifeOf(row) = "reserved"
       /\ J!RequestOf(row) = [signer |-> a, account |-> a, intent |-> intent,
                              nonce |-> J!AllocatedNonce(scope)]
  BY <1>1, <1>4, LifeByState DEF J!RequestOf
<1>11. /\ [g \in Confirmations |-> J!LifeOf(journal'[g])]
             = [[g \in Confirmations |-> J!LifeOf(journal[g])] EXCEPT ![f] = "reserved"]
       /\ [g \in Confirmations |-> J!RequestOf(journal'[g])]
             = [[g \in Confirmations |-> J!RequestOf(journal[g])]
                   EXCEPT ![f] = J!RequestOf(journal'[f])]
  BY <1>6, <1>10
<1>12. Contract!NonceIsNew(f)
  <2>1. ASSUME NEW g \in Confirmations, J!LifeOf(journal[g]) # "none", journal[g].agent = a
        PROVE  journal[g].nonce < J!AllocatedNonce(scope)
    BY <2>1, <1>8, LifeByState
  <2> QED
    BY <2>1, <1>6, <1>10 DEF Contract!NonceIsNew, J!RequestOf
<1>13. Contract!NoneEquivalent(f)
  <2>1. ASSUME NEW g \in Confirmations, J!LifeOf(journal[g]) \in {"reserved", "submitted"}
        PROVE  journal[g].account # a \/ journal[g].intent # intent
    <3>1. journal[g].state \in J!ReconcilableStates \cup {"prepared"}
      BY <2>1, <1>2
      DEF J!LifeOf, J!RowType, J!JournalStates, J!ReconcilableStates, J!TerminalStates
    <3>2. g \in J!Rows /\ ~J!Terminal(g)
      BY <3>1 DEF J!Rows, J!Terminal, J!ReconcilableStates, J!TerminalStates
    <3> QED
      BY <3>2, <1>1 DEF J!EquivalentActionPending
  <2> QED
    BY <2>1, <1>6, <1>10 DEF Contract!NoneEquivalent, Contract!Open, J!RequestOf
<1>14. Contract!Reserve(f)
  BY <1>1, <1>10, <1>11, <1>12, <1>13 DEF Contract!Reserve
<1> QED
  BY <1>9, <1>14 DEF LifeStep, Contract!Next

\* A signed confirmation submits and sends at once.
LEMMA SignedStep ==
    ASSUME LifeInv, NEW f \in Confirmations, Signed(f)
    PROVE  LifeStep
<1>1. CASE \E frame, flow : Fails(f, frame, flow, review)
  BY <1>1, FailsStep
<1>2. CASE /\ J!MayMarkSubmissionStarted(f)
           /\ journal' = [journal EXCEPT ![f] = J!SubmissionStarted(journal[f])]
           /\ writes' = [writes EXCEPT ![f] = writes[f] + 1]
           /\ scopes' = scopes
  <2>1. /\ journal \in [Confirmations -> J!RowType] /\ writes \in [Confirmations -> 0..1]
        /\ RowFits(frames[f].pc, journal[f], writes[f], Clean) /\ NoncesCovered
    BY DEF LifeInv, FlowInv, FlowTyped, JournalTyped, AllFit, Fits
  <2>2. journal[f].state = "prepared"
    BY <1>2 DEF J!MayMarkSubmissionStarted
  <2>3. writes[f] = 0
    BY <2>1, <2>2 DEF RowFits, SentStates, PortOutcomes, J!ReconcilableStates
  <2>4. /\ SameAction(J!SubmissionStarted(journal[f]), journal[f])
        /\ J!SubmissionStarted(journal[f]).state = "submission_started"
    BY <2>1, <2>2, RewritingKeeps DEF J!SubmissionStarted, J!RowType
  <2>5. /\ J!LifeOf(journal[f]) = "reserved"
        /\ J!LifeOf(J!SubmissionStarted(journal[f])) = "submitted"
        /\ J!RequestOf(J!SubmissionStarted(journal[f])) = J!RequestOf(journal[f])
    BY <2>2, <2>4, LifeByState, SameRequest DEF J!ReconcilableStates
  <2>6. /\ journal'[f] = J!SubmissionStarted(journal[f])
        /\ \A g \in Confirmations \ {f} : journal'[g] = journal[g]
    BY <1>2, <2>1
  <2>7. /\ [g \in Confirmations |-> J!LifeOf(journal'[g])]
              = [[g \in Confirmations |-> J!LifeOf(journal[g])] EXCEPT ![f] = "submitted"]
        /\ [g \in Confirmations |-> J!RequestOf(journal'[g])]
              = [g \in Confirmations |-> J!RequestOf(journal[g])]
    BY <2>5, <2>6
  <2>8. writes' = [writes EXCEPT ![f] = 1]
    BY <1>2, <2>3
  <2>9. Contract!Submit(f)
    BY <2>3, <2>5, <2>7, <2>8 DEF Contract!Submit, Contract!Goes
  <2>10. NoncesCovered'
    <3>1. \A g \in Confirmations : SameAction(journal'[g], journal[g])
      BY <2>4, <2>6 DEF SameAction
    <3> QED
      BY <3>1, <1>2, <2>1, NoncesStayCovered
  <2> QED
    BY <2>9, <2>10 DEF LifeStep, Contract!Next
<1> QED
  BY <1>1, <1>2 DEF Signed

\* A mounted runtime gives up what was not submitted, and nothing else.
LEMMA MountStep ==
    ASSUME LifeInv, NEW r \in Runtimes, MountRuntime(r)
    PROVE  LifeStep
<1>1. /\ journal' = [f \in Confirmations |-> J!Recovered(journal[f])]
      /\ UNCHANGED <<scopes, writes>>
  BY DEF MountRuntime
<1>2. /\ \A f \in Confirmations : journal[f] \in J!RowType
      /\ NoncesCovered
  BY DEF LifeInv, FlowInv, FlowTyped, JournalTyped
<1> DEFINE some == {f \in Confirmations : J!LifeOf(journal[f]) = "reserved"}
<1>3. ASSUME NEW f \in Confirmations
      PROVE  /\ SameAction(J!Recovered(journal[f]), journal[f])
             /\ J!RequestOf(J!Recovered(journal[f])) = J!RequestOf(journal[f])
             /\ J!LifeOf(J!Recovered(journal[f]))
                   = IF f \in some THEN "abandoned" ELSE J!LifeOf(journal[f])
  <2>1. RowGoesOn(J!Recovered(journal[f]), journal[f])
    BY <1>2, RewritingKeeps
  <2>2. /\ journal[f].state = "prepared" =>
              J!Recovered(journal[f]).state = "abandoned_before_submission"
        /\ journal[f].state = "submission_started" =>
              J!Recovered(journal[f]).state = "unresolved"
        /\ journal[f].state \notin {"prepared", "submission_started"} =>
              J!Recovered(journal[f]) = journal[f]
    BY <1>2, RowRecovered
  <2>3. J!LifeOf(journal[f]) = "reserved" <=> journal[f].state = "prepared"
    BY <1>2
    DEF J!LifeOf, J!RowType, J!JournalStates, J!ReconcilableStates, J!TerminalStates
  <2>4. J!LifeOf(J!Recovered(journal[f]))
           = IF J!LifeOf(journal[f]) = "reserved" THEN "abandoned" ELSE J!LifeOf(journal[f])
    BY <2>2, <2>3, LifeByState DEF J!ReconcilableStates
  <2> QED
    BY <2>1, <2>4, SameRequest DEF RowGoesOn
<1>4. some \in SUBSET {f \in Confirmations : J!LifeOf(journal[f]) = "reserved"}
  OBVIOUS
<1> HIDE DEF some
<1>5. /\ [f \in Confirmations |-> J!RequestOf(journal'[f])]
            = [f \in Confirmations |-> J!RequestOf(journal[f])]
      /\ [f \in Confirmations |-> J!LifeOf(journal'[f])]
            = [f \in Confirmations |-> IF f \in some THEN "abandoned"
                                       ELSE J!LifeOf(journal[f])]
  BY <1>1, <1>3
<1>6. Contract!GiveUp
  BY <1>1, <1>4, <1>5 DEF Contract!GiveUp
<1>7. NoncesCovered'
  BY <1>1, <1>2, <1>3, NoncesStayCovered
<1> QED
  BY <1>6, <1>7 DEF LifeStep, Contract!Next

\* Every step of the confirmations is one of the contract, or none.
LEMMA LifeNext ==
    ASSUME LifeInv, [Next]_vars
    PROVE  LifeStep
<1>1. ASSUME NEW f \in Confirmations, Continue(f)
      PROVE  LifeStep
  <2>1. CASE Refreshed(f)
    BY <2>1, ElsewhereStep DEF Refreshed, journalVars
  <2>2. CASE FailsWaiting(f) \/ SubmitThrows(f)
    BY <2>2, FailsStep DEF FailsWaiting, SubmitThrows
  <2>3. CASE Unlocked(f)
    <3>1. frames[f].pc = "unlocking" /\ ContextCurrent(frames[f].review)
      BY <2>3 DEF Unlocked
    <3>2. frames[f].review.binding \in Contexts
      BY <3>1 DEF ContextCurrent, LifeInv, FlowInv, FlowTyped, ContextTyped, ContextTypeOK
    <3>3. CASE \E frame, flow, shown : Fails(f, frame, flow, shown)
      BY <3>3, FailsStep
    <3>4. CASE J!ReservePreparedAction(
                  frames[f].runtime, f, frames[f].review.binding, frames[f].review.binding,
                  frames[f].review.intent, [age |-> 0, serverTime |-> wall])
      BY <3>2, <3>4, ReservationStep
    <3> QED
      BY <2>3, <3>3, <3>4 DEF Unlocked
  <2>4. CASE Signed(f)
    BY <2>4, SignedStep
  <2>5. ASSUME NEW kind \in {"accepted", "rejected", "expired", "unresolved"},
               Responds(f, kind)
        PROVE  LifeStep
    <3>1. kind \in PortOutcomes \cup {"unresolved"}
      BY DEF PortOutcomes
    <3> QED
      BY <2>5, <3>1, TransitionStep, FailsStep DEF Responds
  <2>6. CASE PortEnds(f)
    <3>1. frames[f].pc = "reconciling" /\ FrameFits(f, frames[f], FlowOf(f))
      BY <2>6 DEF PortEnds, LifeInv, FlowInv, AllFit, Fits
    <3>2. frames[f].row = f
      BY <3>1 DEF FrameFits
    <3>3. CASE UNCHANGED journalVars
      BY <3>3, ElsewhereStep DEF journalVars
    <3>4. CASE \E state \in PortOutcomes : J!TransitionAction(frames[f].runtime, f, state)
      BY <3>4, TransitionStep
    <3> QED
      BY <2>6, <3>2, <3>3, <3>4 DEF PortEnds
  <2> QED
    BY <1>1, <2>1, <2>2, <2>3, <2>4, <2>5, <2>6 DEF Continue
<1>2. CASE UserStep
  <2>1. UNCHANGED <<scopes, journal, writes>>
    BY <1>2 DEF UserStep, ReviewAndSubmit, ConfirmOnSheet, Begins, Dismiss, journalVars
  <2> QED
    BY <2>1, ElsewhereStep
<1>3. CASE ContextStep
  <2>1. UNCHANGED <<scopes, journal, writes>>
    BY <1>3 DEF ContextStep, RenderContext, journalVars
  <2> QED
    BY <2>1, ElsewhereStep
<1>4. CASE RuntimeStep
  <2>1. ASSUME NEW o \in Orchestrators, MountOrchestrator(o)
        PROVE  LifeStep
    BY <2>1, ElsewhereStep DEF MountOrchestrator, journalVars
  <2>2. ASSUME NEW r \in Runtimes, MountRuntime(r)
        PROVE  LifeStep
    BY <2>2, MountStep
  <2>3. ASSUME NEW j \in Confirmations, NEW state \in PortOutcomes, StartupSettles(j, state)
        PROVE  LifeStep
    BY <2>3, TransitionStep DEF StartupSettles
  <2>4. CASE CrashProcess
    BY <2>4, ElsewhereStep DEF CrashProcess
  <2> QED
    BY <1>4, <2>1, <2>2, <2>3, <2>4 DEF RuntimeStep
<1>5. CASE Tick
  BY <1>5, ElsewhereStep DEF Tick, J!SetWallClock, J!memory
<1>6. CASE UNCHANGED vars
  BY <1>6, ElsewhereStep DEF vars, journalVars
<1> QED
  BY <1>1, <1>2, <1>3, <1>4, <1>5, <1>6 DEF Next

\* Nothing is reserved or sent before the first confirmation.
LEMMA LifeInit ==
    Init => NoncesCovered /\ Contract!Init
<1>1. J!NoRow.state = "absent"
  BY DEF J!NoRow
<1>2. J!LifeOf(J!NoRow) = "none"
  BY <1>1, LifeByState
<1> QED
  BY <1>1, <1>2 DEF Init, NoncesCovered, Contract!Init

\* The confirmations implement ActionLife: remounts, context switches, refused
\* transitions, late answers and the ports of other runtimes do to an action only
\* what is promised of it.
THEOREM FlowKeepsPromises ==
    Spec => ImplementsActionLife
<1>1. LifeInv /\ [Next]_vars => LifeInv'
  BY LifeNext, FlowInvStep DEF LifeInv, LifeStep
<1>2. Spec => []LifeInv
  <2>1. Init => LifeInv
    BY FlowInvInit, LifeInit DEF LifeInv
  <2> QED
    BY <2>1, <1>1, PTL DEF Spec
<1>3. LifeInv /\ [Next]_vars => [Contract!Next]_(Contract!lifeVars)
  BY LifeNext DEF LifeStep
<1> QED
  BY <1>2, <1>3, LifeInit, PTL DEF Spec, ImplementsActionLife, Contract!Spec

=============================================================================
