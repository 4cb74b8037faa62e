----------------------------- MODULE LogBroker ------------------------------
(***************************************************************************)
(* The logs of haloyd as clients see them (internal/logging/logstream.go,  *)
(* api/stream.go, handlers_deploy.go, handlers_server_logs.go): Publish    *)
(* puts an entry into the buffers and the channels of whoever is           *)
(* subscribed, a new subscriber is sent the buffer by a goroutine of its   *)
(* own while live entries arrive on the same channel, and a subscriber     *)
(* that does not keep up is closed.                                        *)
(*                                                                         *)
(* Every handler of a deployment's logs gets the one channel of that       *)
(* deployment, and closes it when it returns.  Sending on a closed channel *)
(* panics, which ends haloyd.  LogBroker.Close is never called.            *)
(***************************************************************************)
EXTENDS Integers, Sequences, FiniteSets

CONSTANTS
    Deployments,
    General,        (* Handlers of the server's logs.                      *)
    Streams,        (* Streams[d]: the handlers of the logs of d.          *)
    Capacity,       (* Of a channel, 100.                                  *)
    MaxBuffer,      (* Entries that are kept for new subscribers, 100.     *)
    MaxEntries,     (* Bound: entries that are published.                  *)
    None

ASSUME CapacityAssumption == Capacity \in Nat \ {0} /\ MaxBuffer \in Nat \ {0}

DeploymentHandlers == UNION {Streams[d] : d \in Deployments}
Handlers == General \cup DeploymentHandlers

(* A handler serves one request: for the server's logs or for those of one *)
(* deployment.                                                             *)
ASSUME HandlersAssumption ==
    /\ \A d \in Deployments : Streams[d] \cap General = {}
    /\ \A d, e \in Deployments : d /= e => Streams[d] \cap Streams[e] = {}
    /\ None \notin Handlers \cup Deployments

DeploymentOf(h) == IF h \in General THEN None ELSE CHOOSE d \in Deployments : h \in Streams[d]

VARIABLES
    published,          (* Entries published so far.                       *)
    final,              (* The deployments that are complete or failed.    *)
    buffer,             (* LogBroker.buffer                                *)
    deploymentBuffer,   (* LogBroker.deploymentBuffer                      *)
    streams,            (* LogBroker.streams: the channels of General.     *)
    deploymentStreams,  (* LogBroker.deploymentStreams: a channel or None. *)
    chan,               (* Channels, by the handler that made them.        *)
    replay,             (* What the goroutine of a channel is to send.     *)
    handler,            (* handler[h]: a request for logs.                 *)
    crashed,            (* haloyd has panicked.                            *)
    owed                (* History: the entries that are to reach the      *)
                        (* subscriber of a registered channel.             *)

brokerVars == <<buffer, deploymentBuffer, streams, deploymentStreams>>
logVars == <<published, final, brokerVars, chan, replay, handler, crashed, owed>>

Entry(n, d, last) == [number |-> n, deployment |-> d, last |-> last]
NoChannel == [open |-> FALSE, queue |-> <<>>]

Entries(s) == {s[i] : i \in DOMAIN s}

(***************************************************************************)
(* The broker                                                              *)
(***************************************************************************)

(* The channels an entry of d goes to.                                     *)
Subscribed(d) ==
    streams \cup (IF d = None THEN {} ELSE {deploymentStreams[d]} \ {None})

Keep(s, e) ==
    LET all == Append(s, e)
    IN IF Len(all) > MaxBuffer THEN SubSeq(all, Len(all) - MaxBuffer + 1, Len(all)) ELSE all

Full(c) == Len(chan[c].queue) >= Capacity

(* Mutant: what a full channel has no room for is dropped.                 *)
DeliverOrDrop(c, e) ==
    [chan[c] EXCEPT !.queue = IF Full(c) THEN @ ELSE Append(@, e)]

(* A subscriber that is too slow is closed.                                *)
Deliver(c, e) ==
    IF Full(c) THEN [chan[c] EXCEPT !.open = FALSE] ELSE [chan[c] EXCEPT !.queue = Append(@, e)]

(* StreamHandler.Handle and Publish                                        *)
Publish(d, last) ==
    LET e == Entry(published + 1, d, last)
        to == Subscribed(d)
        delivered == [c \in Handlers |-> IF c \in to THEN Deliver(c, e) ELSE chan[c]]
        slow == {c \in to : ~delivered[c].open}
        current == IF d = None THEN None ELSE deploymentStreams[d]
    IN /\ ~crashed /\ published < MaxEntries
       /\ published' = published + 1
       /\ final' = IF last THEN final \cup {d} ELSE final
       /\ chan' = delivered
       /\ owed' = [c \in Handlers |-> IF c \in slow THEN {}
                                     ELSE IF c \in to THEN owed[c] \cup {e} ELSE owed[c]]
       /\ buffer' = Keep(buffer, e)
       /\ streams' = streams \ slow
       /\ deploymentBuffer' =
              IF d = None THEN deploymentBuffer
              ELSE [deploymentBuffer EXCEPT ![d] = IF current \in slow THEN <<>> ELSE Keep(@, e)]
       /\ deploymentStreams' =
              IF current \in slow THEN [deploymentStreams EXCEPT ![d] = None]
              ELSE deploymentStreams
       /\ UNCHANGED <<replay, handler, crashed>>

(* A goroutine publishes for its deployment until it is over; the server   *)
(* itself logs in between.                                                 *)
PublishEntry ==
    \/ Publish(None, FALSE)
    \/ \E d \in Deployments \ final : \E last \in BOOLEAN : Publish(d, last)

Stream(c) == [stage |-> "streaming", channel |-> c]

(* A channel for h, and the goroutine that sends it the buffer.            *)
Open(h, buffered) ==
    /\ chan' = [chan EXCEPT ![h] = [open |-> TRUE, queue |-> <<>>]]
    /\ replay' = [replay EXCEPT ![h] = buffered]
    /\ owed' = [owed EXCEPT ![h] = Entries(buffered)]

SubscribeGeneral(h) ==
    /\ ~crashed /\ h \in General /\ handler[h].stage = "idle"
    /\ Open(h, buffer)
    /\ streams' = streams \cup {h}
    /\ handler' = [handler EXCEPT ![h] = Stream(h)]
    /\ UNCHANGED <<published, final, buffer, deploymentBuffer, deploymentStreams, crashed>>

(* A second handler of a deployment shares the channel of the first.       *)
SubscribeDeployment(h) ==
    LET d == DeploymentOf(h)
        existing == deploymentStreams[d]
    IN /\ ~crashed /\ h \in DeploymentHandlers /\ handler[h].stage = "idle"
       /\ IF existing /= None
          THEN /\ handler' = [handler EXCEPT ![h] = Stream(existing)]
               /\ UNCHANGED <<chan, replay, owed, deploymentStreams>>
          ELSE /\ Open(h, deploymentBuffer[d])
               /\ deploymentStreams' = [deploymentStreams EXCEPT ![d] = h]
               /\ handler' = [handler EXCEPT ![h] = Stream(h)]
       /\ UNCHANGED <<published, final, buffer, deploymentBuffer, streams, crashed>>

Registered(c) == c \in streams \/ \E d \in Deployments : deploymentStreams[d] = c

(* The goroutine of a channel: it sends, gives up on a subscriber that     *)
(* takes nothing for two seconds, or finds the channel closed.             *)
Replay(c) ==
    /\ ~crashed /\ replay[c] /= <<>>
    /\ IF chan[c].open
       THEN /\ ~Full(c)
            /\ chan' = [chan EXCEPT ![c].queue = Append(@, Head(replay[c]))]
            /\ replay' = [replay EXCEPT ![c] = Tail(@)]
            /\ UNCHANGED crashed
       ELSE crashed' = TRUE /\ UNCHANGED <<chan, replay>>
    /\ UNCHANGED <<published, final, brokerVars, handler, owed>>

GiveUp(c) ==
    /\ ~crashed /\ replay[c] /= <<>> /\ chan[c].open /\ Full(c)
    /\ replay' = [replay EXCEPT ![c] = <<>>]
    /\ chan' = [chan EXCEPT ![c].open = ~Registered(c)]
    /\ streams' = streams \ {c}
    /\ deploymentBuffer' =
           [d \in Deployments |-> IF deploymentStreams[d] = c THEN <<>> ELSE deploymentBuffer[d]]
    /\ deploymentStreams' =
           [d \in Deployments |-> IF deploymentStreams[d] = c THEN None ELSE deploymentStreams[d]]
    /\ owed' = [owed EXCEPT ![c] = {}]
    /\ UNCHANGED <<published, final, buffer, handler, crashed>>

(***************************************************************************)
(* The handlers                                                            *)
(***************************************************************************)

Return(h) == [handler EXCEPT ![h] = [@ EXCEPT !.stage = "cleanup"]]

(* streamSSELogs: an entry is written; the last one of a deployment ends   *)
(* the stream, and so does a closed channel.                               *)
Receive(h) ==
    LET c == handler[h].channel
        q == chan[c].queue
    IN /\ ~crashed /\ handler[h].stage = "streaming"
       /\ \/ /\ q /= <<>>
             /\ chan' = [chan EXCEPT ![c].queue = Tail(@)]
             /\ owed' = [owed EXCEPT ![c] = @ \ {Head(q)}]
             /\ handler' = IF h \in DeploymentHandlers /\ Head(q).last THEN Return(h) ELSE handler
          \/ /\ q = <<>> /\ ~chan[c].open
             /\ handler' = Return(h)
             /\ UNCHANGED <<chan, owed>>
       /\ UNCHANGED <<published, final, brokerVars, replay, crashed>>

(* The client goes, or what is written does not reach it.                  *)
Disconnect(h) ==
    /\ ~crashed /\ handler[h].stage = "streaming"
    /\ handler' = Return(h)
    /\ UNCHANGED <<published, final, brokerVars, chan, replay, crashed, owed>>

(* Mutant: the entry is removed and its channel stays open.                *)
LeaveOpen(c) == chan[c]

Shut(c) == [chan[c] EXCEPT !.open = FALSE]

UnsubscribeGeneral(h) ==
    /\ ~crashed /\ h \in General /\ handler[h].stage = "cleanup"
    /\ handler' = [handler EXCEPT ![h].stage = "done"]
    /\ streams' = streams \ {h}
    /\ chan' = IF h \in streams THEN [chan EXCEPT ![h] = Shut(h)] ELSE chan
    /\ owed' = [owed EXCEPT ![h] = {}]
    /\ UNCHANGED <<published, final, buffer, deploymentBuffer, deploymentStreams,
                   replay, crashed>>

(* By deployment: whichever channel is registered is closed.               *)
UnsubscribeDeployment(h) ==
    LET d == DeploymentOf(h)
        c == deploymentStreams[d]
    IN /\ ~crashed /\ h \in DeploymentHandlers /\ handler[h].stage = "cleanup"
       /\ handler' = [handler EXCEPT ![h].stage = "done"]
       /\ chan' = IF c = None THEN chan ELSE [chan EXCEPT ![c] = Shut(c)]
       /\ deploymentStreams' = [deploymentStreams EXCEPT ![d] = None]
       /\ deploymentBuffer' = [deploymentBuffer EXCEPT ![d] = <<>>]
       /\ owed' = [k \in Handlers |-> IF k = c THEN {} ELSE owed[k]]
       /\ UNCHANGED <<published, final, buffer, streams, replay, crashed>>

(***************************************************************************)
(* The specification                                                       *)
(***************************************************************************)

LogInit ==
    /\ published = 0 /\ final = {}
    /\ buffer = <<>> /\ deploymentBuffer = [d \in Deployments |-> <<>>]
    /\ streams = {} /\ deploymentStreams = [d \in Deployments |-> None]
    /\ chan = [h \in Handlers |-> NoChannel] /\ replay = [h \in Handlers |-> <<>>]
    /\ handler = [h \in Handlers |-> [stage |-> "idle", channel |-> None]]
    /\ crashed = FALSE
    /\ owed = [h \in Handlers |-> {}]

LogNext ==
    \/ PublishEntry
    \/ \E h \in General : SubscribeGeneral(h)
    \/ \E h \in DeploymentHandlers : SubscribeDeployment(h)
    \/ \E c \in Handlers : Replay(c)
    \/ \E c \in Handlers : GiveUp(c)
    \/ \E h \in Handlers : Receive(h)
    \/ \E h \in Handlers : Disconnect(h)
    \/ \E h \in General : UnsubscribeGeneral(h)
    \/ \E h \in DeploymentHandlers : UnsubscribeDeployment(h)

(* What a handler does of its own: it takes what its channel has, and      *)
(* returns.  The goroutine of a channel sends or gives up.                 *)
Serve(h) == Receive(h) \/ UnsubscribeGeneral(h) \/ UnsubscribeDeployment(h)

LogFairness ==
    \A h \in Handlers : WF_logVars(Serve(h)) /\ WF_logVars(Replay(h) \/ GiveUp(h))

LogSpec == LogInit /\ [][LogNext]_logVars
FairLogSpec == LogSpec /\ LogFairness

(***************************************************************************)
(* Correctness                                                             *)
(***************************************************************************)

(* As long as a subscriber is registered, its stream has no gap: every     *)
(* entry that was buffered when it subscribed, and every one published     *)
(* since, was received, is in the channel, or is with the goroutine that   *)
(* replays the buffer, whatever the channel's capacity.  (Publish,         *)
(* SubscribeGeneral, SubscribeDeployment.)                                 *)
NoEntryLost ==
    \A c \in Handlers :
        Registered(c) => owed[c] = Entries(chan[c].queue) \cup Entries(replay[c])

(* The stream of h is to carry the entry that ends it, or is closed.       *)
Promised(h) ==
    LET c == handler[h].channel
    IN /\ handler[h].stage = "streaming"
       /\ \/ ~chan[c].open
          \/ \E e \in owed[c] : e.last /\ e.deployment = DeploymentOf(h)

(* A stream ends, and no client hangs on a channel nobody publishes to: in *)
(* the end whoever still streams is subscribed, on an open channel, and is *)
(* not to receive the entry that completes or fails the deployment -- also *)
(* when another handler of the same deployment took that entry from the    *)
(* channel they share, and when the client was too slow for it.            *)
(* (streamSSELogs, UnsubscribeDeployment, Publish.)                        *)
StreamsEnd ==
    <>[](crashed \/ \A h \in Handlers :
            handler[h].stage = "streaming" => Registered(handler[h].channel) /\ ~Promised(h))

(* Closing the channel of a subscriber ends that stream and nothing else   *)
(* ("Channel full, close slow subscriber"): haloyd keeps running.  It does *)
(* not: the goroutine that replays the buffer sends on the channel without *)
(* the lock, and a send on a closed channel panics.                        *)
NeverPanics == ~crashed
=============================================================================
