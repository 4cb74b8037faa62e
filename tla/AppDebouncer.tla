----------------------------- MODULE AppDebouncer ----------------------------
(***************************************************************************)
(* The debouncer between Docker's container events and deployment updates  *)
(* (internal/haloyd/app_debouncer.go) and the part of haloyd's main loop   *)
(* that feeds it and drains it (internal/haloyd/haloyd.go, Run).           *)
(*                                                                         *)
(* The main loop is the only caller of captureEvent and the only receiver  *)
(* of the unbuffered output channel.  Every capture stops the app's timer  *)
(* and arms a new one; a timer that has already fired cannot be stopped,   *)
(* its goroutine is on its way to the mutex.                               *)
(*                                                                         *)
(* Time is relative: Tick counts every armed timer and every deadline      *)
(* down, and waits for a timer that is due.                                *)
(***************************************************************************)
EXTENDS Integers, Sequences

CONSTANTS
    Apps,
    Deployments,  (* Deployment IDs; they are ordered by time.             *)
    Timers,       (* Slots for timers and the goroutines they start.       *)
    Delay,        (* eventDebounceDelay, in ticks.                         *)
    MaxWait,      (* eventDebounceMaxWait, in ticks.                       *)
    MaxBatch,     (* Bound: events captured for one app at a time.         *)
    None

ASSUME DeploymentsAssumption == Deployments \subseteq Nat \ {0}
ASSUME TimesAssumption == Delay \in Nat /\ MaxWait \in Nat /\ MaxBatch \in Nat
ASSUME NoneAssumption == None \notin Timers /\ None \notin Nat

VARIABLES
    main,      (* The main loop: in its select, in captureEvent for an     *)
               (* event it has received, or returned.                      *)
    mu,        (* The goroutine holding appDebouncer.mu, or None.          *)
    captured,  (* capturedEvents[a]                                        *)
    deadline,  (* deadlines[a], as the ticks that remain; None: no entry.  *)
    current,   (* timers[a]; None: no entry.                               *)
    timer,     (* timer[t]: a timer, then its signalDone goroutine.        *)
    done,      (* appDebouncer.done is closed.                             *)
    delivered, (* The debounced event the main loop received last.         *)
    age        (* History: ticks since the oldest event in captured[a].    *)

vars == <<main, mu, captured, deadline, current, timer, done, delivered, age>>

Events == [dep : Deployments, start : BOOLEAN]
Debounced == [app : Apps, dep : Deployments, start : BOOLEAN]

Unused == [state |-> "unused"]
Armed(a, n) == [state |-> "armed", app |-> a, left |-> n]
Fired(a) == [state |-> "fired", app |-> a]

Selecting == [state |-> "select"]
Returned == [state |-> "returned"]

TypeOK ==
    /\ main \in {Selecting, Returned}
                \cup [state : {"capture"}, app : Apps, event : Events]
    /\ mu \in Timers \cup {None}
    /\ captured \in [Apps -> Seq(Events)]
    /\ deadline \in [Apps -> (0 .. MaxWait) \cup {None}]
    /\ current \in [Apps -> Timers \cup {None}]
    /\ timer \in [Timers -> {Unused}
                    \cup [state : {"armed"}, app : Apps, left : Nat]
                    \cup [state : {"fired"}, app : Apps]
                    \cup [state : {"locked", "send"}, event : Debounced]]
    /\ done \in BOOLEAN
    /\ delivered \in Debounced \cup {None}
    /\ age \in [Apps -> 0 .. MaxWait + 1]

Init ==
    /\ main = Selecting
    /\ mu = None
    /\ captured = [a \in Apps |-> <<>>]
    /\ deadline = [a \in Apps |-> None]
    /\ current = [a \in Apps |-> None]
    /\ timer = [t \in Timers |-> Unused]
    /\ done = FALSE
    /\ delivered = None
    /\ age = [a \in Apps |-> 0]

Min(m, n) == IF m < n THEN m ELSE n

------------------------------------------------------------------------------
(* The main loop                                                           *)

(* It receives a container event from eventsChan.                          *)
TakeEvent(a, e) ==
    /\ main = Selecting
    /\ Len(captured[a]) < MaxBatch
    /\ \E t \in Timers : timer[t] = Unused
    /\ main' = [state |-> "capture", app |-> a, event |-> e]
    /\ UNCHANGED <<mu, captured, deadline, current, timer, done, delivered, age>>

(* timer.Stop: an armed timer is gone, a fired one is not affected.        *)
Stopped(t) == IF timer[t].state = "armed" THEN Unused ELSE timer[t]

(* Mutant: every event waits for the whole delay again.                    *)
CaptureEventUncapped(t) ==
    /\ main.state = "capture"
    /\ mu = None
    /\ timer[t] = Unused
    /\ LET a == main.app
       IN  /\ captured' = [captured EXCEPT ![a] = Append(@, main.event)]
           /\ current' = [current EXCEPT ![a] = t]
           /\ timer' = [u \in Timers |->
                          IF u = t THEN Armed(a, Delay)
                          ELSE IF u = current[a] THEN Stopped(u)
                          ELSE timer[u]]
    /\ main' = Selecting
    /\ UNCHANGED <<mu, deadline, done, delivered, age>>

(* captureEvent: the event joins the app's batch, the first event of a     *)
(* batch sets its deadline, and the app's timer is replaced by one that    *)
(* waits for the delay, or for the deadline if that is nearer.             *)
CaptureEvent(t) ==
    /\ main.state = "capture"
    /\ mu = None
    /\ timer[t] = Unused
    /\ LET a == main.app
           left == IF deadline[a] = None THEN MaxWait ELSE deadline[a]
       IN  /\ captured' = [captured EXCEPT ![a] = Append(@, main.event)]
           /\ deadline' = [deadline EXCEPT ![a] = left]
           /\ current' = [current EXCEPT ![a] = t]
           /\ timer' = [u \in Timers |->
                          IF u = t THEN Armed(a, Min(Delay, left))
                          ELSE IF u = current[a] THEN Stopped(u)
                          ELSE timer[u]]
    /\ main' = Selecting
    /\ UNCHANGED <<mu, done, delivered, age>>

(* It receives a debounced event and starts an update for it.              *)
Deliver(t) ==
    /\ main = Selecting
    /\ timer[t].state = "send"
    /\ delivered' = timer[t].event
    /\ timer' = [timer EXCEPT ![t] = Unused]
    /\ UNCHANGED <<main, mu, captured, deadline, current, done, age>>

(* Mutant: done is not closed.                                             *)
ReturnOpen ==
    /\ main = Selecting
    /\ main' = Returned
    /\ UNCHANGED <<mu, captured, deadline, current, timer, done, delivered, age>>

(* It returns on a signal, and its deferred stop closes done...            *)
Return ==
    /\ main = Selecting
    /\ main' = Returned
    /\ done' = TRUE
    /\ UNCHANGED <<mu, captured, deadline, current, timer, delivered, age>>

(* ... then, under the mutex, stops the timers it knows and clears the     *)
(* maps.                                                                   *)
Stop ==
    /\ main = Returned
    /\ mu = None
    /\ \E a \in Apps : captured[a] # <<>> \/ current[a] # None
    /\ timer' = [t \in Timers |-> IF \E a \in Apps : current[a] = t
                                  THEN Stopped(t) ELSE timer[t]]
    /\ captured' = [a \in Apps |-> <<>>]
    /\ deadline' = [a \in Apps |-> None]
    /\ current' = [a \in Apps |-> None]
    /\ age' = [a \in Apps |-> 0]
    /\ UNCHANGED <<main, mu, done, delivered>>

------------------------------------------------------------------------------
(* Timers                                                                  *)

Fire(t) ==
    /\ timer[t].state = "armed"
    /\ timer[t].left = 0
    /\ timer' = [timer EXCEPT ![t] = Fired(timer[t].app)]
    /\ UNCHANGED <<main, mu, captured, deadline, current, done, delivered, age>>

(* Mutant: only the newest event says whether there was a start.           *)
ReduceNewestOnly(a) ==
    LET batch == {captured[a][i] : i \in DOMAIN captured[a]}
        newest == CHOOSE e \in batch : \A f \in batch : f.dep <= e.dep
    IN  [app |-> a, dep |-> newest.dep, start |-> newest.start]

(* The event a batch is reduced to: the newest deployment's, and whether   *)
(* any of the batch was a start.                                           *)
Reduce(a) ==
    LET batch == {captured[a][i] : i \in DOMAIN captured[a]}
        newest == CHOOSE e \in batch : \A f \in batch : f.dep <= e.dep
    IN  [app |-> a, dep |-> newest.dep, start |-> \E e \in batch : e.start]

(* signalDone finds nothing captured.                                      *)
FindNothing(t) ==
    /\ timer[t].state = "fired"
    /\ mu = None
    /\ captured[timer[t].app] = <<>>
    /\ timer' = [timer EXCEPT ![t] = Unused]
    /\ UNCHANGED <<main, mu, captured, deadline, current, done, delivered, age>>

(* signalDone takes the batch.  It deletes the app's timer entry even when *)
(* that entry is by now a newer timer's.                                   *)
Collect(t) ==
    /\ timer[t].state = "fired"
    /\ mu = None
    /\ LET a == timer[t].app
       IN  /\ captured[a] # <<>>
           /\ timer' = [timer EXCEPT ![t] = [state |-> "locked", event |-> Reduce(a)]]
           /\ captured' = [captured EXCEPT ![a] = <<>>]
           /\ deadline' = [deadline EXCEPT ![a] = None]
           /\ current' = [current EXCEPT ![a] = None]
           /\ age' = [age EXCEPT ![a] = 0]
    /\ mu' = t
    /\ UNCHANGED <<main, done, delivered>>

(* It unlocks before it sends.                                             *)
Unlock(t) ==
    /\ timer[t].state = "locked"
    /\ mu' = None
    /\ timer' = [timer EXCEPT ![t].state = "send"]
    /\ UNCHANGED <<main, captured, deadline, current, done, delivered, age>>

(* A send nobody will receive ends when done is closed.                    *)
GiveUp(t) ==
    /\ timer[t].state = "send"
    /\ done
    /\ timer' = [timer EXCEPT ![t] = Unused]
    /\ UNCHANGED <<main, mu, captured, deadline, current, done, delivered, age>>

(* time.Until, not below zero.                                             *)
CountDown(n) == IF n = None \/ n = 0 THEN n ELSE n - 1

Tick ==
    /\ \A t \in Timers : timer[t].state = "armed" => timer[t].left > 0
    /\ \/ \E t \in Timers : timer[t].state = "armed"
       \/ \E a \in Apps : captured[a] # <<>>
    /\ timer' = [t \in Timers |-> IF timer[t].state = "armed"
                                  THEN [timer[t] EXCEPT !.left = @ - 1] ELSE timer[t]]
    /\ deadline' = [a \in Apps |-> CountDown(deadline[a])]
    /\ age' = [a \in Apps |-> IF captured[a] = <<>> THEN 0 ELSE Min(age[a] + 1, MaxWait + 1)]
    /\ UNCHANGED <<main, mu, captured, current, done, delivered>>

------------------------------------------------------------------------------
SignalDone(t) == FindNothing(t) \/ Collect(t) \/ Unlock(t) \/ GiveUp(t)

Next ==
    \/ \E a \in Apps, e \in Events : TakeEvent(a, e)
    \/ \E t \in Timers : CaptureEvent(t) \/ Deliver(t) \/ Fire(t) \/ SignalDone(t)
    \/ Return
    \/ Stop
    \/ Tick

Spec == Init /\ [][Next]_vars

(* Time passes and goroutines run.  A ready channel is served now and then *)
(* even if the other cases of the select are ready too: Go picks a case at *)
(* random.  The mutex is held only between steps that are always enabled.  *)
Fairness ==
    /\ WF_vars(Tick)
    /\ SF_vars(\E t \in Timers : CaptureEvent(t))
    /\ \A t \in Timers : WF_vars(Fire(t)) /\ WF_vars(Unlock(t)) /\ WF_vars(GiveUp(t))
    /\ \A t \in Timers : SF_vars(FindNothing(t) \/ Collect(t)) /\ SF_vars(Deliver(t))
    /\ SF_vars(Stop)

FairSpec == Spec /\ Fairness

------------------------------------------------------------------------------
(* Properties                                                              *)

(* Somebody is on the way to collect the app's batch: a signalDone that is *)
(* waiting for the mutex.                                                  *)
BeingCollected(a) == \E t \in Timers : timer[t] = Fired(a)

(* A batch is collected at most MaxWait ticks after its first event, no    *)
(* matter how events keep arriving, and no captured event is ever left     *)
(* without a timer: not when a timer fires while it is being replaced, and *)
(* not when signalDone deletes a newer timer's entry (app_debouncer.go:    *)
(* "cap the total wait at maxWait from the first captured event").         *)
CollectedInTime ==
    \A a \in Apps : captured[a] # <<>> /\ main # Returned /\ ~BeingCollected(a) =>
        \E t \in Timers : /\ timer[t].state = "armed"
                          /\ timer[t].app = a
                          /\ age[a] + timer[t].left <= MaxWait

(* A captured start is announced: the main loop receives a debounced event *)
(* that is marked as a start and is at least as new, unless it has         *)
(* returned.  A later stop or die of the same deployment does not hide it. *)
Announced(a, d) ==
    /\ delivered # None
    /\ delivered.app = a /\ delivered.start /\ delivered.dep >= d
StartAnnounced ==
    \A a \in Apps, d \in Deployments :
        (main.state = "capture" /\ main.app = a /\ main.event = [dep |-> d, start |-> TRUE])
            ~> (Announced(a, d) \/ main = Returned)

(* After shutdown no timer and no signalDone goroutine is left waiting     *)
(* (app_debouncer.go, stop and the done case of signalDone).               *)
NothingLeftBehind == main = Returned ~> \A t \in Timers : timer[t] = Unused
==============================================================================
