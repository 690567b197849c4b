---------------------------- MODULE StreamManager ----------------------------
(***************************************************************************)
(* The app's live data while it is in the foreground: the declarations of  *)
(* the screens (apps/mobile/src/core/streams/runtime.ts), the manager that *)
(* keeps one connection for all of them (manager.ts), the socket           *)
(* (native-websocket.ts) and the decoders (account-events.ts and the       *)
(* stream modules of features/trade).                                      *)
(*                                                                         *)
(* Every change of the declarations, of the environment and every failure  *)
(* starts a new generation with a new connection; what an older generation *)
(* still has under way (a connection being opened, a baseline being        *)
(* loaded) finishes later and must not be noticed. Each stream loads a     *)
(* baseline over HTTP and buffers messages meanwhile. The view is what the *)
(* manager has applied; the refetches of the query cache that holds it are *)
(* not part of this module.                                                *)
(*                                                                         *)
(* A stream is a sequence of events numbered 1, 2, ... by the server.      *)
(* Kinds: "sequenced", numbered messages that extend the view; "log",      *)
(* messages merged into the view (trades, candles, invalidations); "book", *)
(* messages that are the whole state with its time; "context", messages    *)
(* that are the whole state and nothing else (activeAssetCtx): such an     *)
(* event is identified by its value alone, and values return.              *)
(***************************************************************************)
EXTENDS Integers, Sequences, FiniteSets

CONSTANTS StreamKeys,
          Kinds,                 \* the kinds of streams looked at
          MaxBuffered,           \* maxBufferedMessages
          MaxResyncAttempts, MaxReconnectAttempts,
          MaxStreamGenerations,  \* bound: generations
          MaxEvents              \* bound: events of a stream

ASSUME StreamAssumption == MaxBuffered \in Nat \ {0} /\ MaxStreamGenerations \in Nat

VARIABLES
    kind,           \* the kind of each stream
    declared,       \* keys with a listener
    scheduled,      \* the microtask that hands the declarations over is queued
    subscribed,     \* the manager's subscriptions
    environment,    \* [foreground, online, closed]
    generation,     \* the manager's generation
    runs,           \* what each generation has done
    currentRun,     \* the generation of the run, or 0
    reconnect,      \* [timer, attempts]; the timer is a generation or 0
    version,        \* events the server has made, by key
    view            \* events the app shows, by key

streamVars == <<kind, declared, scheduled, subscribed, environment, generation, runs,
                currentRun, reconnect, version, view>>

(* The value of event n of a context stream: it changes, and comes back.    *)
ValueOf(n) == n % 2
StableId(k, n) == IF kind[k] = "context" THEN ValueOf(n) ELSE n

NoRun == [phase |-> "none", states |-> <<>>]
NoBaseline == [last |-> -1, seen |-> {}, buffer |-> <<>>, overflowed |-> FALSE,
               ready |-> FALSE, request |-> -1, attempts |-> 0, based |-> FALSE,
               served |-> FALSE, sent |-> {}, wire |-> <<>>]

StreamInit ==
    /\ kind \in [StreamKeys -> Kinds]
    /\ declared = {} /\ subscribed = {} /\ scheduled = FALSE
    /\ environment = [foreground |-> FALSE, online |-> FALSE, closed |-> FALSE]
    /\ generation = 0
    /\ runs = [g \in 1 .. MaxStreamGenerations |-> NoRun]
    /\ currentRun = 0
    /\ reconnect = [timer |-> 0, attempts |-> 0]
    /\ version = [k \in StreamKeys |-> 0]
    /\ view = [k \in StreamKeys |-> {}]

-----------------------------------------------------------------------------
(* Generations.                                                             *)

Eligible(env, subs) == ~env.closed /\ env.foreground /\ env.online /\ subs # {}

IsCurrent(g) == currentRun = g /\ Eligible(environment, subscribed)

(* teardownRun: aborted and closed, its states are cleared; the connection it was
   opening and the baselines it asked for are still on their way.             *)
TornDown(all) ==
    IF currentRun = 0 THEN all
    ELSE [all EXCEPT ![currentRun] =
            [phase |-> IF @.phase = "connecting" THEN "abandoned" ELSE "ended",
             states |-> [k \in {j \in DOMAIN @.states : @.states[j].request # -1} |->
                           [NoBaseline EXCEPT !.request = all[currentRun].states[k].request]]]]

(* advanceGeneration, without and with the start of the next run.           *)
AdvanceGeneration ==
    /\ generation < MaxStreamGenerations
    /\ generation' = generation + 1
    /\ currentRun' = 0
    /\ runs' = TornDown(runs)

StartGeneration(g) ==
    /\ g <= MaxStreamGenerations
    /\ generation' = g
    /\ currentRun' = g
    /\ runs' = [TornDown(runs) EXCEPT ![g].phase = "connecting"]

RestartIfEligible(env, subs) ==
    /\ IF Eligible(env, subs) THEN StartGeneration(generation + 1)
       ELSE AdvanceGeneration
    /\ reconnect' = [reconnect EXCEPT !.timer = 0]

(* scheduleReconnect: not beyond the limit.                                 *)
ScheduleReconnect(g) ==
    reconnect' = IF reconnect.attempts >= MaxReconnectAttempts
                 THEN [reconnect EXCEPT !.timer = 0]
                 ELSE [timer |-> g, attempts |-> reconnect.attempts + 1]

(* failRun of the current run: the next generation waits for the timer.      *)
FailRun(all) ==
    /\ generation < MaxStreamGenerations
    /\ generation' = generation + 1
    /\ currentRun' = 0
    /\ runs' = TornDown(all)
    /\ ScheduleReconnect(generation + 1)

ReconnectTimer ==
    /\ reconnect.timer # 0
    /\ IF reconnect.timer = generation /\ Eligible(environment, subscribed)
       THEN StartGeneration(generation + 1)
       ELSE UNCHANGED <<generation, currentRun, runs>>
    /\ reconnect' = [reconnect EXCEPT !.timer = 0]
    /\ UNCHANGED <<kind, declared, scheduled, subscribed, environment, version, view>>

-----------------------------------------------------------------------------
(* The screens and the environment.                                         *)

(* declare, and the function it returns.                                    *)
Declare(k) ==
    /\ declared' = IF k \in declared THEN declared \ {k} ELSE declared \cup {k}
    /\ scheduled' = TRUE
    /\ UNCHANGED <<kind, subscribed, environment, generation, runs, currentRun,
                   reconnect, version, view>>

(* synchronize: setSubscriptions with all declarations of the moment.       *)
Synchronize ==
    /\ scheduled
    /\ scheduled' = FALSE
    /\ subscribed' = declared
    /\ IF Eligible(environment, declared) \/ currentRun # 0
       THEN RestartIfEligible(environment, declared)
       ELSE UNCHANGED <<generation, runs, currentRun, reconnect>>
    /\ UNCHANGED <<kind, declared, environment, version, view>>

SetEnvironment(env) ==
    /\ env # environment /\ ~scheduled
    /\ environment' = env
    /\ RestartIfEligible(env, subscribed)
    /\ UNCHANGED <<kind, declared, scheduled, subscribed, version, view>>

-----------------------------------------------------------------------------
(* The connection.                                                          *)

(* startGeneration after the connection has opened: the streams are subscribed
   and every baseline is asked for. A connection that comes too late is closed. *)
Connected(g) ==
    /\ runs[g].phase \in {"connecting", "abandoned"}
    /\ runs' = IF IsCurrent(g)
               THEN [runs EXCEPT ![g] =
                      [phase |-> "open",
                       states |-> [k \in subscribed |->
                          [NoBaseline EXCEPT !.request = version[k], !.attempts = 1]]]]
               ELSE [runs EXCEPT ![g].phase = "ended"]
    /\ UNCHANGED <<kind, declared, scheduled, subscribed, environment, generation, currentRun,
                   reconnect, version, view>>

(* The connection cannot be opened, breaks, cannot decode a message, or does not
   answer a ping.                                                             *)
Disconnected(g) ==
    /\ IsCurrent(g) /\ runs[g].phase \in {"connecting", "open"}
    /\ FailRun(runs)
    /\ UNCHANGED <<kind, declared, scheduled, subscribed, environment, version, view>>

(* The server takes up a subscription and at once sends the state it has. A first
   message that is flagged as a snapshot is ignored by the app.               *)
ServerSubscribes(g, k) ==
    /\ runs[g].phase = "open" /\ k \in DOMAIN runs[g].states
    /\ ~runs[g].states[k].served
    /\ runs' = [runs EXCEPT ![g].states[k].served = TRUE,
                  ![g].states[k].wire =
                     IF kind[k] \in {"book", "context"} THEN <<version[k]>> ELSE <<>>]
    /\ UNCHANGED <<kind, declared, scheduled, subscribed, environment, generation, currentRun,
                   reconnect, version, view>>

(* An event is sent on the open connection. Only a sequenced stream can miss one. *)
ServerEvent(k, missed) ==
    /\ version[k] < MaxEvents
    /\ missed => kind[k] = "sequenced"
    /\ LET n == version[k] + 1
       IN /\ version' = [version EXCEPT ![k] = n]
          /\ runs' = [g \in DOMAIN runs |->
                        IF /\ runs[g].phase = "open" /\ k \in DOMAIN runs[g].states
                           /\ runs[g].states[k].served /\ ~missed
                        THEN [runs[g] EXCEPT !.states[k].wire = Append(@, n),
                                             !.states[k].sent = @ \cup {n}]
                        ELSE runs[g]]
    /\ UNCHANGED <<kind, declared, scheduled, subscribed, environment, generation, currentRun,
                   reconnect, view>>

-----------------------------------------------------------------------------
(* Messages and baselines.                                                  *)

Applied(k, shown, n) == IF kind[k] \in {"book", "context"} THEN {n} ELSE shown \cup {n}

(* applyBaseline replaces what is shown; a context, whose baseline is the entry of
   the catalogue, is only seeded with it.                                     *)
AppliedBaseline(k, n) ==
    CASE kind[k] = "context" -> IF view[k] = {} THEN {n} ELSE view[k]
      [] kind[k] = "book" -> {n}
      [] OTHER -> 1 .. n

\* Faulty variant: a full buffer forgets its oldest message and does not tell.
BufferMessageSilently(state, n) ==
    IF Len(state.buffer) >= MaxBuffered
    THEN [state EXCEPT !.buffer = Append(Tail(@), n)]
    ELSE [state EXCEPT !.buffer = Append(@, n)]

BufferMessage(state, n) ==
    IF Len(state.buffer) >= MaxBuffered
    THEN [state EXCEPT !.buffer = Append(Tail(@), n), !.overflowed = TRUE]
    ELSE [state EXCEPT !.buffer = Append(@, n)]

(* What processReadyMessage makes of a message: a repeated one and, when numbers
   are there, an older one are ignored; a jump is a gap.                      *)
Verdict(k, state, n) ==
    IF StableId(k, n) \in state.seen THEN "ignored"
    ELSE IF kind[k] # "sequenced" \/ state.last = -1 THEN "applied"
    ELSE IF n <= state.last THEN "ignored"
    ELSE IF n = state.last + 1 THEN "applied" ELSE "gap"

AfterDelta(k, state, n) ==
    [state EXCEPT !.last = IF kind[k] = "sequenced" THEN n ELSE @,
                  !.seen = @ \cup {StableId(k, n)}]

(* rebaseline: the state waits for a new baseline.                          *)
Requesting(k, state, attempts) ==
    [state EXCEPT !.ready = FALSE, !.request = version[k], !.attempts = attempts]

(* handleMessage: the next message of the current connection.                  *)
HandleMessage(g, k) ==
    /\ IsCurrent(g) /\ runs[g].phase = "open" /\ k \in DOMAIN runs[g].states
    /\ runs[g].states[k].wire # <<>>
    /\ LET n == Head(runs[g].states[k].wire)
           state == [runs[g].states[k] EXCEPT !.wire = Tail(@)]
           verdict == IF state.ready THEN Verdict(k, state, n) ELSE "buffered"
       IN /\ runs' = [runs EXCEPT ![g].states[k] =
                 CASE verdict = "buffered" -> BufferMessage(state, n)
                   [] verdict = "gap" -> Requesting(k, BufferMessage(state, n), 1)
                   [] verdict = "ignored" -> state
                   [] verdict = "applied" -> AfterDelta(k, state, n)]
          /\ view' = IF verdict = "applied"
                     THEN [view EXCEPT ![k] = Applied(k, @, n)] ELSE view
    /\ UNCHANGED <<kind, declared, scheduled, subscribed, environment, generation, currentRun,
                   reconnect, version>>

(* Replaying the buffer over a baseline: messages that leave a gap are kept. *)
ReplayStep(k, acc, n) ==
    LET verdict == Verdict(k, acc.state, n)
    IN CASE verdict = "applied" ->
              [acc EXCEPT !.state = AfterDelta(k, @, n), !.shown = Applied(k, @, n)]
         [] verdict = "gap" ->
              [acc EXCEPT !.gap = TRUE, !.state.buffer = Append(@, n)]
         [] OTHER -> acc

Replay(k, state, shown) ==
    LET after[i \in 0 .. Len(state.buffer)] ==
          IF i = 0
          THEN [state |-> [state EXCEPT !.buffer = <<>>], shown |-> shown, gap |-> FALSE]
          ELSE ReplayStep(k, after[i - 1], state.buffer[i])
    IN after[Len(state.buffer)]

\* Faulty variant: the generation is not looked at after the wait.
BaselineWantedAlways(g) == TRUE

BaselineWanted(g) == IsCurrent(g)

(* The baseline arrives: it shows the server at some moment since it was asked
   for. When the buffer overflowed or still has a gap, another one is loaded; the
   second gap in a row fails the run. The reconnect count restarts when every
   stream of the generation has had its first baseline.                       *)
BaselineLoaded(g, k, n) ==
    /\ runs[g].phase # "none" /\ k \in DOMAIN runs[g].states
    /\ LET old == runs[g].states[k]
           based == [old EXCEPT !.last = n, !.seen = {}, !.request = -1]
           replay == Replay(k, [based EXCEPT !.ready = TRUE], AppliedBaseline(k, n))
           first == \A j \in DOMAIN runs[g].states \ {k} : runs[g].states[j].based
       IN /\ old.request # -1 /\ n \in (IF kind[k] = "context" THEN 0 ELSE old.request) .. version[k]
          /\ CASE ~BaselineWanted(g) ->
                    /\ runs' = [runs EXCEPT ![g].states[k] = NoBaseline]
                    /\ UNCHANGED <<generation, currentRun, reconnect, view>>
               [] BaselineWanted(g) /\ old.overflowed ->
                    /\ runs' = [runs EXCEPT ![g].states[k] =
                          Requesting(k, [based EXCEPT !.buffer = <<>>, !.overflowed = FALSE],
                                     old.attempts + 1)]
                    /\ view' = [view EXCEPT ![k] = AppliedBaseline(k, n)]
                    /\ UNCHANGED <<generation, currentRun, reconnect>>
               [] BaselineWanted(g) /\ ~old.overflowed /\ replay.gap ->
                    /\ view' = [view EXCEPT ![k] = replay.shown]
                    /\ IF old.attempts >= MaxResyncAttempts
                       THEN FailRun([runs EXCEPT ![g].states[k] = replay.state])
                       ELSE /\ runs' = [runs EXCEPT ![g].states[k] =
                                  Requesting(k, replay.state, old.attempts + 1)]
                            /\ UNCHANGED <<generation, currentRun, reconnect>>
               [] OTHER ->
                    /\ view' = [view EXCEPT ![k] = replay.shown]
                    /\ runs' = [runs EXCEPT ![g].states[k] =
                                  [replay.state EXCEPT !.based = TRUE]]
                    /\ reconnect' = IF first /\ ~old.based
                                    THEN [reconnect EXCEPT !.attempts = 0] ELSE reconnect
                    /\ UNCHANGED <<generation, currentRun>>
    /\ UNCHANGED <<kind, declared, scheduled, subscribed, environment, version>>

(* A baseline cannot be loaded.                                             *)
BaselineFails(g, k) ==
    /\ IsCurrent(g) /\ k \in DOMAIN runs[g].states /\ runs[g].states[k].request # -1
    /\ FailRun([runs EXCEPT ![g].states[k].request = -1])
    /\ UNCHANGED <<kind, declared, scheduled, subscribed, environment, version, view>>

Environments == [foreground : BOOLEAN, online : BOOLEAN, closed : {FALSE}]
                  \cup {[environment EXCEPT !.closed = TRUE]}

StreamNext ==
    \/ \E k \in StreamKeys : Declare(k) \/ \E missed \in BOOLEAN : ServerEvent(k, missed)
    \/ Synchronize
    \/ ~environment.closed /\ \E env \in Environments : SetEnvironment(env)
    \/ ReconnectTimer
    \/ \E g \in DOMAIN runs :
         \/ Connected(g) \/ Disconnected(g)
         \/ \E k \in DOMAIN runs[g].states :
              \/ ServerSubscribes(g, k) \/ HandleMessage(g, k) \/ BaselineFails(g, k)
              \/ \E n \in 0 .. MaxEvents : BaselineLoaded(g, k, n)

StreamSpec == StreamInit /\ [][StreamNext]_streamVars

-----------------------------------------------------------------------------
(* The stream is live and every message sent on its connection was handled. *)
CaughtUp(k) ==
    /\ currentRun # 0 /\ IsCurrent(currentRun) /\ k \in DOMAIN runs[currentRun].states
    /\ runs[currentRun].states[k].ready /\ runs[currentRun].states[k].served
    /\ runs[currentRun].states[k].wire = <<>>

(* However messages, baselines, overflows and gaps interleave: a live stream that
   is caught up has not lost a message it was sent, shows no gap, and shows the
   latest state where a message is the whole state.                           *)
NothingMissed ==
    \A k \in StreamKeys : CaughtUp(k) =>
       CASE kind[k] = "sequenced" -> view[k] = 1 .. Cardinality(view[k])
         [] kind[k] = "log" -> runs[currentRun].states[k].sent \subseteq view[k]
         [] kind[k] = "book" -> view[k] = {version[k]}
         [] OTHER -> TRUE

(* What an older generation still had under way never takes back what is shown:
   a log or a numbered stream only grows, in every generation.                *)
ViewGrows ==
    \A k \in StreamKeys : kind[k] \in {"log", "sequenced"} => view[k] \subseteq view'[k]

ViewOnlyGrows == [][ViewGrows]_streamVars

(* A live context stream that is caught up shows the value the server has.  *)
ContextIsCurrent ==
    \A k \in StreamKeys : kind[k] = "context" /\ CaughtUp(k) =>
       {ValueOf(n) : n \in view[k]} = {ValueOf(version[k])}

=============================================================================
