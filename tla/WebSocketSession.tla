-------------------------- MODULE WebSocketSession --------------------------
(***************************************************************************)
(* One public WebSocket session                                            *)
(* (packages/hyperliquid/src/transport/websocket.ts), used by the monitor  *)
(* source of the service and by the streams of the app: listeners that     *)
(* share a subscription, operations waiting for their acknowledgement with *)
(* a reserved budget, and a server at the other end of an ordered wire.    *)
(*                                                                         *)
(* A subscription is [type, subject]: the subject is the coin or the user. *)
(* Any inconsistency (an acknowledgement nobody waits for, a message that  *)
(* matches no listener, a timeout, a failed send) ends the session.        *)
(***************************************************************************)
EXTENDS Naturals, Sequences, FiniteSets

CONSTANTS Subscriptions,      \* the subscriptions callers use: [type, subject]
          Listeners,          \* callbacks
          MaxSubscriptions, InflightOperations,
          MaxWire             \* bound: messages under way in each direction

VARIABLES listeners,  \* callbacks by subscription
          pending,    \* operations waiting for an acknowledgement, by subscription
          exclusive,  \* the user of each channel that carries one user only
          inflight,   \* operations reserved with the governor
          ended,      \* the session is closed
          toServer, toClient,  \* the wire, in order
          served      \* what the server has subscribed

sessionVars == <<listeners, pending, exclusive, inflight, ended, toServer, toClient, served>>

ExclusiveTypes == {"userEvents", "orderUpdates"}

SessionInit ==
    /\ listeners = [s \in Subscriptions |-> {}]
    /\ pending = [s \in Subscriptions |-> 0]
    /\ exclusive = [t \in ExclusiveTypes |-> "nobody"]
    /\ inflight = 0 /\ ended = FALSE
    /\ toServer = <<>> /\ toClient = <<>> /\ served = {}

(* matchesSubscription: the two user channels carry no user.               *)
MatchesSubscription(s, message) ==
    /\ message.type = s.type
    /\ s.type \in ExclusiveTypes \/ message.subject = s.subject

Heard == {s \in Subscriptions : listeners[s] # {}}

(* The operations that wait for their acknowledgement.                     *)
Outstanding == UNION {{s} \X (1 .. pending[s]) : s \in Subscriptions}

(* closeInternal: everything local is dropped and every reserved operation is
   given back. fail reports a gap first; what the owners undo in that callback
   is dropped here too.                                                      *)
CloseInternal ==
    /\ ended' = TRUE
    /\ listeners' = [s \in Subscriptions |-> {}]
    /\ pending' = [s \in Subscriptions |-> 0]
    /\ exclusive' = [t \in ExclusiveTypes |-> "nobody"]
    /\ inflight' = inflight - Cardinality(Outstanding)
    /\ UNCHANGED <<toServer, served>>

CloseSession ==
    /\ ~ended /\ CloseInternal /\ UNCHANGED toClient

(* The connection is lost, the heartbeat cannot be sent, or an acknowledgement is
   ten seconds late (its own release happens before the others).             *)
SessionBreaks == CloseSession
AcknowledgementLate(s) == pending[s] > 0 /\ CloseSession

-----------------------------------------------------------------------------
(* trackSubscriptionOperation and the send that follows it.                 *)
CanTrack == inflight < InflightOperations /\ Len(toServer) < MaxWire

Track(s, method) ==
    /\ pending' = [pending EXCEPT ![s] = @ + 1]
    /\ inflight' = inflight + 1
    /\ toServer' = Append(toServer, [method |-> method, subscription |-> s])

ExclusiveFree(s) ==
    s.type \in ExclusiveTypes => exclusive[s.type] \in {"nobody", s.subject}

(* The first listener subscribes at the server; when the operation cannot be
   tracked or sent, the session ends.                                        *)
SubscribeListener(s, cb) ==
    /\ ~ended /\ cb \notin listeners[s]
    /\ \/ /\ listeners[s] # {}
          /\ listeners' = [listeners EXCEPT ![s] = @ \cup {cb}]
          /\ UNCHANGED <<pending, exclusive, inflight, ended, toServer, toClient, served>>
       \/ /\ listeners[s] = {}
          /\ Cardinality(Heard) < MaxSubscriptions /\ ExclusiveFree(s)
          /\ CanTrack
          /\ listeners' = [listeners EXCEPT ![s] = {cb}]
          /\ exclusive' = [t \in ExclusiveTypes |->
                             IF t = s.type THEN s.subject ELSE exclusive[t]]
          /\ Track(s, "subscribe")
          /\ UNCHANGED <<ended, toClient, served>>
       \/ /\ listeners[s] = {}
          /\ Cardinality(Heard) < MaxSubscriptions /\ ExclusiveFree(s)
          /\ inflight >= InflightOperations
          /\ CloseSession

\* Faulty variant: the server is left sending.
UnsubscribeSilently(s) ==
    UNCHANGED <<pending, inflight, toServer>>

(* The last listener unsubscribes at the server.                            *)
UnsubscribeServer(s) == Track(s, "unsubscribe")

UnsubscribeListener(s, cb) ==
    /\ cb \in listeners[s]
    /\ \/ /\ listeners[s] # {cb}
          /\ listeners' = [listeners EXCEPT ![s] = @ \ {cb}]
          /\ UNCHANGED <<pending, exclusive, inflight, ended, toServer, toClient, served>>
       \/ /\ listeners[s] = {cb} /\ CanTrack
          /\ listeners' = [listeners EXCEPT ![s] = {}]
          /\ exclusive' = [t \in ExclusiveTypes |->
                             IF t = s.type THEN "nobody" ELSE exclusive[t]]
          /\ UnsubscribeServer(s)
          /\ UNCHANGED <<ended, toClient, served>>
       \/ /\ listeners[s] = {cb} /\ inflight >= InflightOperations
          /\ CloseSession

-----------------------------------------------------------------------------
(* The server, modelled by how the session uses it.                         *)

ServerActs ==
    /\ toServer # <<>> /\ Len(toClient) < MaxWire
    /\ LET m == Head(toServer)
       IN /\ served' = IF m.method = "subscribe" THEN served \cup {m.subscription}
                       ELSE served \ {m.subscription}
          /\ toClient' = Append(toClient, [channel |-> "ack", subscription |-> m.subscription])
    /\ toServer' = Tail(toServer)
    /\ UNCHANGED <<listeners, pending, exclusive, inflight, ended>>

ServerSends(s) ==
    /\ s \in served /\ Len(toClient) < MaxWire
    /\ toClient' = Append(toClient, [channel |-> "data", subscription |-> s])
    /\ UNCHANGED <<listeners, pending, exclusive, inflight, ended, toServer, served>>

(* The message listener. An acknowledgement nobody waits for would also end the
   session; a server that acknowledges each operation once sends none.       *)
ReceiveMessage ==
    /\ ~ended /\ toClient # <<>>
    /\ toClient' = Tail(toClient)
    /\ LET m == Head(toClient)
           s == m.subscription
       IN \/ /\ m.channel = "ack" /\ pending[s] > 0
             /\ pending' = [pending EXCEPT ![s] = @ - 1]
             /\ inflight' = inflight - 1
             /\ UNCHANGED <<listeners, exclusive, ended, toServer, served>>
          \/ /\ m.channel = "data"
             /\ \E h \in Heard : MatchesSubscription(h, s)
             /\ UNCHANGED <<listeners, pending, exclusive, inflight, ended, toServer, served>>
          \/ /\ m.channel = "data"
             /\ \A h \in Heard : ~MatchesSubscription(h, s)
             /\ CloseInternal

SessionNext ==
    \/ \E s \in Subscriptions, cb \in Listeners :
         SubscribeListener(s, cb) \/ UnsubscribeListener(s, cb)
    \/ \E s \in Subscriptions : ServerSends(s) \/ AcknowledgementLate(s)
    \/ ServerActs \/ ReceiveMessage \/ SessionBreaks

SessionSpec == SessionInit /\ [][SessionNext]_sessionVars

-----------------------------------------------------------------------------
(* However listeners join and leave, whatever is under way and however the session
   ends: once the wire is quiet, the server sends exactly what someone listens to,
   and the operations held with the governor are those still unacknowledged (none
   after the end).                                                            *)
SubscriptionsSettle ==
    /\ inflight = Cardinality(Outstanding)
    /\ ~ended /\ toServer = <<>> /\ toClient = <<>> => served = Heard /\ inflight = 0

=============================================================================
