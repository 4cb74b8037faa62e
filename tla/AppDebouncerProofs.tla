-------------------------- MODULE AppDebouncerProofs -------------------------
(***************************************************************************)
(* What the debouncer promises for any number of apps, deployments and     *)
(* timers and any delays.                                                  *)
(***************************************************************************)
EXTENDS AppDebouncer, FiniteSetTheorems, TLAPS

(* A set of finitely many deployments has a newest one.  A set without one *)
(* would have a smallest subset without one, and that subset loses an      *)
(* element without becoming empty or getting a newest one.                 *)
LEMMA NewestExists ==
    ASSUME NEW S \in SUBSET Nat, IsFiniteSet(S), S # {}
    PROVE  \E m \in S : \A n \in S : n <= m
<1> DEFINE HasNewest(T) == \E m \in T : \A n \in T : n <= m
           Without == {T \in FiniteSubsetsOf(S) : T # {} /\ ~HasNewest(T)}
<1>1. S \in FiniteSubsetsOf(S)
    BY DEF FiniteSubsetsOf
<1>2. SUFFICES Without = {}
    BY <1>1, <1>2
<1>3. SUFFICES ASSUME Without # {} PROVE FALSE
    OBVIOUS
<1>4. PICK T \in Without : \A U \in Without : <<U, T>> \notin StrictSubsetOrdering(S)
    <2>1. IsWellFoundedOn(StrictSubsetOrdering(S), FiniteSubsetsOf(S))
        BY FS_StrictSubsetOrderingWellFounded
    <2>2. Without \subseteq FiniteSubsetsOf(S)
        OBVIOUS
    <2> HIDE DEF Without
    <2> QED BY <1>3, <2>1, <2>2, WFMin, Zenon
<1>5. T \in SUBSET S /\ IsFiniteSet(T) /\ T # {} /\ ~HasNewest(T)
    BY <1>4 DEF FiniteSubsetsOf
<1>6. PICK x \in T : TRUE
    BY <1>5
<1> DEFINE U == T \ {x}
<1>7. U \in FiniteSubsetsOf(S)
    BY <1>5, FS_Subset DEF FiniteSubsetsOf
<1>8. <<U, T>> \in StrictSubsetOrdering(S)
    BY <1>5, <1>6 DEF StrictSubsetOrdering
<1>9. U \notin Without
    BY <1>4, <1>8
<1>10. CASE U = {}
    <2>1. T = {x} /\ x <= x
        BY <1>5, <1>6, <1>10
    <2> QED BY <1>5, <2>1
<1>11. CASE U # {}
    <2>1. PICK m \in U : \A n \in U : n <= m
        BY <1>7, <1>9, <1>11
    <2>2. m \in Nat /\ x \in Nat /\ (\A n \in T : n \in U \/ n = x)
        BY <1>5, <1>6, <2>1
    <2>3. CASE x <= m
        BY <1>5, <2>1, <2>2, <2>3
    <2>4. CASE m <= x
        <3>1. \A n \in T : n <= x
            BY <1>5, <2>1, <2>2, <2>4
        <3> QED BY <1>5, <1>6, <3>1
    <2> QED BY <2>2, <2>3, <2>4
<1> QED BY <1>10, <1>11

(* A batch has an event that no other event's deployment is newer than.    *)
LEMMA BatchHasNewest ==
    ASSUME NEW s \in Seq(Events), s # <<>>
    PROVE  /\ \A i \in DOMAIN s : s[i] \in Events
           /\ \E i \in DOMAIN s : \A j \in DOMAIN s : s[j].dep <= s[i].dep
<1> DEFINE deps == {s[i].dep : i \in 1 .. Len(s)}
           dep == [i \in 1 .. Len(s) |-> s[i].dep]
<1>1. DOMAIN s = 1 .. Len(s) /\ Len(s) \in Nat \ {0}
    OBVIOUS
<1>2. \A i \in 1 .. Len(s) : s[i] \in Events
    OBVIOUS
<1>3. \A i \in 1 .. Len(s) : s[i].dep \in Nat
    BY <1>2, DeploymentsAssumption DEF Events
<1>4. deps \in SUBSET Nat /\ deps # {}
    <2>1. deps \in SUBSET Nat
        BY <1>3
    <2>2. s[1].dep \in deps
        BY <1>1
    <2> QED BY <2>1, <2>2
<1>5. IsFiniteSet(deps)
    <2>1. dep \in Surjection(1 .. Len(s), deps)
        BY <1>1 DEF Surjection
    <2>2. IsFiniteSet(1 .. Len(s))
        BY <1>1, FS_Interval
    <2> HIDE DEF dep, deps
    <2> QED BY <2>1, <2>2, FS_Surjection
<1>6. PICK m \in deps : \A n \in deps : n <= m
    <2> HIDE DEF deps
    <2> QED BY <1>4, <1>5, NewestExists
<1>7. PICK i \in 1 .. Len(s) : m = s[i].dep
    BY <1>6
<1>8. \A j \in 1 .. Len(s) : s[j].dep <= s[i].dep
    BY <1>6, <1>7
<1> QED BY <1>1, <1>2, <1>7, <1>8

(* A batch is reduced to an event of one of its deployments.               *)
LEMMA ReduceType ==
    ASSUME captured \in [Apps -> Seq(Events)], NEW a \in Apps, captured[a] # <<>>
    PROVE  Reduce(a) \in Debounced
<1> DEFINE batch == {captured[a][i] : i \in DOMAIN captured[a]}
           newest == CHOOSE e \in batch : \A f \in batch : f.dep <= e.dep
<1>1. captured[a] \in Seq(Events)
    OBVIOUS
<1>2. /\ \A i \in DOMAIN captured[a] : captured[a][i] \in Events
      /\ \E i \in DOMAIN captured[a] :
             \A j \in DOMAIN captured[a] : captured[a][j].dep <= captured[a][i].dep
    BY <1>1, BatchHasNewest
<1>3. \E e \in batch : \A f \in batch : f.dep <= e.dep
    BY <1>2
<1>4. newest \in Events
    <2>1. batch \subseteq Events
        BY <1>2
    <2> HIDE DEF batch
    <2> QED BY <1>3, <2>1
<1>5. Reduce(a) = [app |-> a, dep |-> newest.dep, start |-> \E e \in batch : e.start]
    BY DEF Reduce
<1>6. (\E e \in batch : e.start) \in BOOLEAN
    OBVIOUS
<1> HIDE DEF newest, batch
<1> QED BY <1>4, <1>5, <1>6 DEF Debounced, Events
------------------------------------------------------------------------------
(* The inductive invariant.  The deadline of a batch is what CollectedInTime *)
(* needs to know when an event replaces the timer that would have collected  *)
(* the batch in time; an expired deadline is no argument, but then the batch *)
(* is being collected, or its timer keeps the clock from going on.           *)
DeadlineOfBatch ==
    \A a \in Apps : IF captured[a] = <<>> THEN deadline[a] = None /\ age[a] = 0
                   ELSE deadline[a] \in 0 .. MaxWait

DeadlineInTime ==
    \A a \in Apps : captured[a] # <<>> /\ main # Returned /\ ~BeingCollected(a) =>
        age[a] + deadline[a] <= MaxWait

(* The timer an event would stop is the app's own, and there is a batch.   *)
CurrentIsOwn ==
    \A a \in Apps : current[a] # None =>
        /\ captured[a] # <<>>
        /\ timer[current[a]].state \in {"armed", "fired"} /\ timer[current[a]].app = a

IInv == TypeOK /\ DeadlineOfBatch /\ CurrentIsOwn /\ DeadlineInTime /\ CollectedInTime

(* The states of a timer and of the main loop, told apart.                 *)
LEMMA TimerStates ==
    ASSUME TypeOK, NEW t \in Timers
    PROVE  /\ timer[t].state = "armed" =>
                  /\ timer[t] = [state |-> "armed", app |-> timer[t].app, left |-> timer[t].left]
                  /\ timer[t].app \in Apps /\ timer[t].left \in Nat
           /\ timer[t].state = "fired" =>
                  timer[t].app \in Apps /\ timer[t] = Fired(timer[t].app)
           /\ timer[t].state \in {"locked", "send"} => 
                  /\ timer[t].event \in Debounced
                  /\ timer[t] = [state |-> timer[t].state, event |-> timer[t].event]
BY DEF TypeOK, Unused, Fired

LEMMA MainStates ==
    ASSUME TypeOK
    PROVE  /\ main = Selecting => main # Returned
           /\ main.state = "capture" =>
                  main # Returned /\ main.app \in Apps /\ main.event \in Events
<1>1. Selecting.state = "select" /\ Returned.state = "returned"
    BY DEF Selecting, Returned
<1> QED BY <1>1 DEF TypeOK

LEMMA InitIInv == Init => IInv
<1> SUFFICES ASSUME Init PROVE IInv
    OBVIOUS
<1>1. TypeOK
    <2>1. captured \in [Apps -> Seq(Events)]
        BY DEF Init
    <2>2. 0 \in 0 .. MaxWait + 1
        BY TimesAssumption
    <2> QED BY <2>1, <2>2 DEF Init, TypeOK
<1>2. \A a \in Apps : captured[a] = <<>> /\ deadline[a] = None /\ age[a] = 0 /\ current[a] = None
    BY DEF Init
<1> QED BY <1>1, <1>2 DEF IInv, DeadlineOfBatch, CurrentIsOwn, DeadlineInTime, CollectedInTime

(* The main loop.                                                          *)
LEMMA MainIInv ==
    ASSUME IInv, Return \/ Stop \/ \E a \in Apps, e \in Events : TakeEvent(a, e)
    PROVE  IInv'
<1>1. CASE Return
    BY <1>1 DEF Return, IInv, TypeOK, DeadlineOfBatch, CurrentIsOwn, DeadlineInTime,
                   CollectedInTime
<1>2. ASSUME NEW a \in Apps, NEW e \in Events, TakeEvent(a, e) PROVE IInv'
    <2>1. TypeOK'
        BY <1>2 DEF TakeEvent, IInv, TypeOK
    <2>2. main # Returned
        BY <1>2, MainStates DEF TakeEvent, IInv
    <2> QED BY <1>2, <2>1, <2>2 DEF TakeEvent, IInv, DeadlineOfBatch, CurrentIsOwn,
                                    DeadlineInTime, CollectedInTime, BeingCollected
<1>3. CASE Stop
    <2>1. TypeOK'
        <3>1. timer' \in [Timers -> {Unused}
                             \cup [state : {"armed"}, app : Apps, left : Nat]
                             \cup [state : {"fired"}, app : Apps]
                             \cup [state : {"locked", "send"}, event : Debounced]]
            BY <1>3 DEF Stop, Stopped, IInv, TypeOK
        <3>2. captured' \in [Apps -> Seq(Events)]
            BY <1>3 DEF Stop
        <3> QED BY <1>3, <3>1, <3>2, TimesAssumption DEF Stop, IInv, TypeOK
    <2> QED BY <1>3, <2>1 DEF Stop, IInv, DeadlineOfBatch, CurrentIsOwn, DeadlineInTime,
                              CollectedInTime
<1> QED BY <1>1, <1>2, <1>3

(* An event is captured: its app's batch has the new timer, other apps     *)
(* keep theirs, and a timer that has fired keeps its way to the mutex.     *)
LEMMA CaptureIInv ==
    ASSUME IInv, NEW t \in Timers, CaptureEvent(t)
    PROVE  IInv'
<1> DEFINE a == main.app
           left == IF deadline[a] = None THEN MaxWait ELSE deadline[a]
<1>1. main # Returned /\ a \in Apps /\ main.event \in Events /\ timer[t] = Unused
    BY MainStates DEF CaptureEvent, IInv
<1>2. /\ left \in 0 .. MaxWait
      /\ Min(Delay, left) \in Nat /\ Min(Delay, left) <= left
    BY <1>1, TimesAssumption DEF IInv, TypeOK, Min
<1>3. /\ timer'[t] = Armed(a, Min(Delay, left))
      /\ \A u \in Timers \ {t} : timer'[u] = IF u = current[a] THEN Stopped(u) ELSE timer[u]
    BY DEF CaptureEvent, IInv, TypeOK
<1>4. /\ captured' = [captured EXCEPT ![a] = Append(@, main.event)]
      /\ deadline' = [deadline EXCEPT ![a] = left]
      /\ main' = Selecting /\ age' = age /\ Selecting # Returned
    BY DEF CaptureEvent, Selecting, Returned
<1>5. captured'[a] \in Seq(Events) /\ captured'[a] # <<>>
    <2>1. captured[a] \in Seq(Events) /\ captured'[a] = Append(captured[a], main.event)
        BY <1>1, <1>4 DEF IInv, TypeOK
    <2> HIDE DEF a
    <2> QED BY <1>1, <2>1
<1>6. TypeOK'
    <2>1. timer' \in [Timers -> {Unused}
                         \cup [state : {"armed"}, app : Apps, left : Nat]
                         \cup [state : {"fired"}, app : Apps]
                         \cup [state : {"locked", "send"}, event : Debounced]]
        BY <1>1, <1>2 DEF CaptureEvent, Stopped, Armed, IInv, TypeOK
    <2>2. captured' \in [Apps -> Seq(Events)]
        BY <1>1, <1>4, <1>5 DEF IInv, TypeOK
    <2>3. current' \in [Apps -> Timers \cup {None}]
        BY <1>1 DEF CaptureEvent, IInv, TypeOK
    <2>4. deadline' \in [Apps -> (0 .. MaxWait) \cup {None}]
        BY <1>2, <1>4 DEF IInv, TypeOK
    <2> QED BY <1>4, <2>1, <2>2, <2>3, <2>4 DEF CaptureEvent, IInv, TypeOK
<1>7. DeadlineOfBatch'
    BY <1>1, <1>2, <1>4, <1>5 DEF IInv, TypeOK, DeadlineOfBatch
<1>8. \A b \in Apps : BeingCollected(b) => BeingCollected(b)'
    <2> SUFFICES ASSUME NEW b \in Apps, NEW u \in Timers, timer[u] = Fired(b)
                 PROVE  timer'[u] = Fired(b)
        BY DEF BeingCollected
    <2>1. u # t /\ Stopped(u) = timer[u]
        BY <1>1 DEF Fired, Unused, Stopped
    <2> QED BY <1>3, <2>1
<1>9. DeadlineInTime'
    <2> SUFFICES ASSUME NEW b \in Apps, captured'[b] # <<>>, ~BeingCollected(b)
                 PROVE  age[b] + deadline'[b] <= MaxWait
        BY <1>4, <1>8 DEF DeadlineInTime
    <2>1. CASE b # a
        BY <1>1, <1>4, <2>1 DEF IInv, DeadlineInTime, TypeOK
    <2>2. CASE b = a /\ captured[a] = <<>>
        BY <1>1, <1>2, <1>4, <2>2, TimesAssumption DEF IInv, DeadlineOfBatch, TypeOK
    <2>3. CASE b = a /\ captured[a] # <<>>
        <3>1. deadline'[a] = deadline[a]
            BY <1>1, <1>4, <2>3, NoneAssumption DEF IInv, DeadlineOfBatch, TypeOK
        <3> QED BY <1>1, <2>3, <3>1 DEF IInv, DeadlineInTime
    <2> QED BY <2>1, <2>2, <2>3
<1>10. CollectedInTime'
    <2> SUFFICES ASSUME NEW b \in Apps, captured'[b] # <<>>, ~BeingCollected(b)'
                 PROVE  \E u \in Timers : /\ timer'[u].state = "armed"
                                          /\ timer'[u].app = b
                                          /\ age[b] + timer'[u].left <= MaxWait
        BY <1>4 DEF CollectedInTime
    <2>1. CASE b # a
        <3>1. captured[b] # <<>> /\ ~BeingCollected(b)
            BY <1>1, <1>4, <1>8, <2>1 DEF IInv, TypeOK
        <3>2. PICK u \in Timers : /\ timer[u].state = "armed" /\ timer[u].app = b
                                  /\ age[b] + timer[u].left <= MaxWait
            BY <1>1, <3>1 DEF IInv, CollectedInTime
        <3>3. u # t
            BY <1>1, <3>2 DEF Unused
        <3>4. u # current[a]
            BY <1>1, <2>1, <3>2, NoneAssumption DEF IInv, CurrentIsOwn
        <3>5. timer'[u] = timer[u] /\ age'[b] = age[b]
            BY <1>3, <1>4, <3>3, <3>4
        <3> QED BY <3>2, <3>5
    <2>2. CASE b = a
        <3>1. deadline'[a] = left
            BY <1>1, <1>4 DEF IInv, TypeOK
        <3>4. age[a] + deadline'[a] <= MaxWait
            BY <1>1, <1>4, <1>9, <2>2 DEF DeadlineInTime
        <3>2. age[a] \in Nat
            BY <1>1, TimesAssumption DEF IInv, TypeOK
        <3>5. timer'[t].state = "armed" /\ timer'[t].app = a /\ timer'[t].left = Min(Delay, left)
            BY <1>3 DEF Armed
        <3>6. age[a] + Min(Delay, left) <= MaxWait
            BY <1>2, <3>1, <3>2, <3>4, TimesAssumption
        <3> HIDE DEF left
        <3> QED BY <2>2, <3>5, <3>6
    <2> QED BY <2>1, <2>2
<1>11. CurrentIsOwn'
    <2> SUFFICES ASSUME NEW b \in Apps, current'[b] # None
                 PROVE  /\ captured'[b] # <<>>
                        /\ timer'[current'[b]].state \in {"armed", "fired"}
                        /\ timer'[current'[b]].app = b
        BY DEF CurrentIsOwn
    <2>1. CASE b = a
        BY <1>1, <1>3, <1>5, <2>1 DEF CaptureEvent, Armed, IInv, TypeOK
    <2>2. CASE b # a
        <3>1. current'[b] = current[b] /\ current[b] \in Timers
            BY <1>1, <2>2 DEF CaptureEvent, IInv, TypeOK
        <3>2. /\ captured[b] # <<>>
              /\ timer[current[b]].state \in {"armed", "fired"} /\ timer[current[b]].app = b
            BY <3>1 DEF IInv, CurrentIsOwn
        <3>3. current[b] # t /\ current[b] # current[a]
            BY <1>1, <2>2, <3>1, <3>2, NoneAssumption DEF IInv, CurrentIsOwn, Unused
        <3>4. timer'[current[b]] = timer[current[b]] /\ captured'[b] = captured[b]
            BY <1>1, <1>3, <1>4, <2>2, <3>1, <3>3 DEF IInv, TypeOK
        <3> QED BY <3>1, <3>2, <3>4
    <2> QED BY <2>1, <2>2
<1> QED BY <1>6, <1>7, <1>9, <1>10, <1>11 DEF IInv

(* A timer fires: its batch is being collected now.                        *)
LEMMA FireIInv ==
    ASSUME IInv, NEW t \in Timers, Fire(t)
    PROVE  IInv'
<1>1. PICK a \in Apps : /\ timer[t].state = "armed" /\ timer[t].app = a
                        /\ timer' = [timer EXCEPT ![t] = Fired(a)]
    BY TimerStates DEF Fire, IInv
<1>2. TypeOK'
    BY <1>1 DEF Fire, Fired, IInv, TypeOK
<1>3. \A b \in Apps : BeingCollected(b) => BeingCollected(b)'
    BY <1>1 DEF BeingCollected, Fire, Fired
<1>4. BeingCollected(a)'
    <2>1. timer'[t] = Fired(a)
        BY <1>1 DEF IInv, TypeOK
    <2> QED BY <2>1 DEF BeingCollected
<1>5. \A b \in Apps, u \in Timers :
          b # a /\ timer[u].state = "armed" /\ timer[u].app = b => timer'[u] = timer[u]
    BY <1>1
<1>6. DeadlineInTime'
    BY <1>3 DEF IInv, DeadlineInTime, Fire
<1>7. CollectedInTime'
    BY <1>3, <1>4, <1>5 DEF IInv, CollectedInTime, Fire
<1>8. CurrentIsOwn'
    BY <1>1 DEF IInv, TypeOK, CurrentIsOwn, Fire, Fired
<1> QED BY <1>2, <1>6, <1>7, <1>8 DEF IInv, DeadlineOfBatch, Fire

(* What the goroutine of a timer does once it has the mutex changes no     *)
(* batch but the one it takes, and no timer but its own.                   *)
LEMMA SignalIInv ==
    ASSUME IInv, NEW t \in Timers, SignalDone(t) \/ Deliver(t)
    PROVE  IInv'
<1>1. ASSUME UNCHANGED <<captured, deadline, current, age>>,
             timer[t].state \in {"fired", "locked", "send"},
             \A a \in Apps : timer[t] = Fired(a) => captured[a] = <<>>,
             \A u \in Timers \ {t} : timer'[u] = timer[u],
             main' = main, TypeOK'
      PROVE  IInv'
    <2>1. \A a \in Apps : captured[a] # <<>> /\ BeingCollected(a) => BeingCollected(a)'
        BY <1>1 DEF BeingCollected
    <2>2. \A u \in Timers : timer[u].state = "armed" => timer'[u] = timer[u]
        BY <1>1
    <2>3. CurrentIsOwn'
        <3> SUFFICES ASSUME NEW a \in Apps, current[a] # None
                     PROVE  timer'[current[a]] = timer[current[a]]
            BY <1>1 DEF IInv, CurrentIsOwn
        <3>1. current[a] \in Timers /\ captured[a] # <<>> /\ timer[current[a]].app = a
              /\ timer[current[a]].state \in {"armed", "fired"}
            BY DEF IInv, TypeOK, CurrentIsOwn
        <3>2. current[a] # t
            BY <1>1, <3>1, TimerStates DEF IInv
        <3> QED BY <1>1, <3>1, <3>2
    <2> QED BY <1>1, <2>1, <2>2, <2>3 DEF IInv, DeadlineOfBatch, DeadlineInTime, CollectedInTime
<1>2. CASE FindNothing(t)
    <2>1. TypeOK'
        BY <1>2 DEF FindNothing, IInv, TypeOK
    <2>2. \A a \in Apps : timer[t] = Fired(a) => captured[a] = <<>>
        BY <1>2 DEF FindNothing, Fired
    <2> QED BY <1>1, <1>2, <2>1, <2>2 DEF FindNothing, IInv, TypeOK
<1>3. CASE Unlock(t)
    <2>1. TypeOK'
        <3>1. PICK e \in Debounced : timer[t] = [state |-> "locked", event |-> e]
            BY <1>3, TimerStates DEF Unlock, IInv
        <3>2. timer' = [timer EXCEPT ![t] = [timer[t] EXCEPT !.state = "send"]]
            BY <1>3 DEF Unlock
        <3>3. [timer[t] EXCEPT !.state = "send"] = [state |-> "send", event |-> e]
            BY <3>1
        <3> QED BY <1>3, <3>2, <3>3 DEF Unlock, IInv, TypeOK
    <2>2. \A a \in Apps : timer[t] # Fired(a)
        BY <1>3 DEF Unlock, Fired
    <2> QED BY <1>1, <1>3, <2>1, <2>2 DEF Unlock, IInv, TypeOK
<1>4. CASE GiveUp(t)
    <2>1. TypeOK'
        BY <1>4 DEF GiveUp, IInv, TypeOK
    <2>2. \A a \in Apps : timer[t] # Fired(a)
        BY <1>4 DEF GiveUp, Fired
    <2> QED BY <1>1, <1>4, <2>1, <2>2 DEF GiveUp, IInv, TypeOK
<1>5. CASE Deliver(t)
    <2>1. TypeOK'
        BY <1>5, TimerStates DEF Deliver, IInv, TypeOK
    <2>2. \A a \in Apps : timer[t] # Fired(a)
        BY <1>5 DEF Deliver, Fired
    <2> QED BY <1>1, <1>5, <2>1, <2>2 DEF Deliver, IInv, TypeOK
<1>6. CASE Collect(t)
    <2> DEFINE a == timer[t].app
    <2>1. a \in Apps /\ timer[t] = Fired(a) /\ captured[a] # <<>>
        BY <1>6, TimerStates DEF Collect, IInv
    <2>2. Reduce(a) \in Debounced
        BY <2>1, ReduceType DEF IInv, TypeOK
    <2>3. /\ timer' = [timer EXCEPT ![t] = [state |-> "locked", event |-> Reduce(a)]]
          /\ captured' = [captured EXCEPT ![a] = <<>>]
          /\ deadline' = [deadline EXCEPT ![a] = None]
          /\ current' = [current EXCEPT ![a] = None]
          /\ age' = [age EXCEPT ![a] = 0]
          /\ main' = main /\ mu' = t /\ done' = done /\ delivered' = delivered
        BY <1>6 DEF Collect
    <2>4. TypeOK'
        <3>1. timer' \in [Timers -> {Unused}
                             \cup [state : {"armed"}, app : Apps, left : Nat]
                             \cup [state : {"fired"}, app : Apps]
                             \cup [state : {"locked", "send"}, event : Debounced]]
            BY <2>2, <2>3 DEF IInv, TypeOK
        <3>2. captured' \in [Apps -> Seq(Events)]
            BY <2>1, <2>3 DEF IInv, TypeOK
        <3> QED BY <2>1, <2>3, <3>1, <3>2, TimesAssumption DEF IInv, TypeOK
    <2>5. /\ captured'[a] = <<>> /\ deadline'[a] = None /\ age'[a] = 0 /\ current'[a] = None
          /\ \A b \in Apps \ {a} :
                /\ captured'[b] = captured[b] /\ deadline'[b] = deadline[b]
                /\ age'[b] = age[b] /\ current'[b] = current[b]
          /\ \A u \in Timers \ {t} : timer'[u] = timer[u]
        BY <2>1, <2>3 DEF IInv, TypeOK
    <2>6. \A b \in Apps \ {a} : BeingCollected(b) => BeingCollected(b)'
        <3> SUFFICES ASSUME NEW b \in Apps \ {a}, NEW u \in Timers, timer[u] = Fired(b)
                     PROVE  timer'[u] = Fired(b)
            BY DEF BeingCollected
        <3>1. u # t
            BY <2>1 DEF Fired
        <3> QED BY <2>5, <3>1
    <2>7. CurrentIsOwn'
        <3> SUFFICES ASSUME NEW b \in Apps, current'[b] # None
                     PROVE  /\ captured'[b] # <<>>
                            /\ timer'[current'[b]].state \in {"armed", "fired"}
                            /\ timer'[current'[b]].app = b
            BY DEF CurrentIsOwn
        <3>1. b # a /\ current'[b] = current[b] /\ current[b] \in Timers
            BY <2>5 DEF IInv, TypeOK
        <3>2. /\ captured[b] # <<>>
              /\ timer[current[b]].state \in {"armed", "fired"} /\ timer[current[b]].app = b
            BY <3>1 DEF IInv, CurrentIsOwn
        <3>3. current[b] # t
            BY <2>1, <3>1, <3>2
        <3> QED BY <2>5, <3>1, <3>2, <3>3
    <2>8. \A u \in Timers : timer[u].state = "armed" => timer'[u] = timer[u]
        BY <1>6, <2>5 DEF Collect
    <2>9. DeadlineOfBatch'
        BY <2>5 DEF IInv, DeadlineOfBatch
    <2>10. DeadlineInTime'
        BY <2>3, <2>5, <2>6 DEF IInv, DeadlineInTime
    <2>11. CollectedInTime'
        BY <2>3, <2>5, <2>6, <2>8 DEF IInv, CollectedInTime
    <2> QED BY <2>4, <2>7, <2>9, <2>10, <2>11 DEF IInv
<1> QED BY <1>2, <1>3, <1>4, <1>5, <1>6 DEF SignalDone

(* Time passes, unless a timer is due.                                     *)
LEMMA TickIInv ==
    ASSUME IInv, Tick
    PROVE  IInv'
<1>1. /\ \A a \in Apps : /\ deadline'[a] = CountDown(deadline[a])
                         /\ age'[a] = IF captured[a] = <<>> THEN 0
                                      ELSE Min(age[a] + 1, MaxWait + 1)
      /\ UNCHANGED <<main, mu, captured, current, done, delivered>>
    BY DEF Tick
<1>9. \A t \in Timers : timer[t].state = "armed" =>
         /\ timer[t].left \in Nat \ {0}
         /\ timer'[t] \in [state : {"armed"}, app : Apps, left : Nat]
         /\ timer'[t].state = "armed" /\ timer'[t].app = timer[t].app
         /\ timer'[t].left = timer[t].left - 1
    <2> SUFFICES ASSUME NEW t \in Timers, timer[t].state = "armed"
                 PROVE  /\ timer[t].left \in Nat \ {0}
                        /\ timer'[t] \in [state : {"armed"}, app : Apps, left : Nat]
                        /\ timer'[t].state = "armed" /\ timer'[t].app = timer[t].app
                        /\ timer'[t].left = timer[t].left - 1
        OBVIOUS
    <2>1. PICK a \in Apps, n \in Nat : timer[t] = [state |-> "armed", app |-> a, left |-> n]
        BY TimerStates DEF IInv
    <2>2. timer[t].left > 0 /\ timer'[t] = [timer[t] EXCEPT !.left = @ - 1]
        BY DEF Tick
    <2>3. n > 0 /\ timer'[t] = [state |-> "armed", app |-> a, left |-> n - 1]
        BY <2>1, <2>2
    <2>4. n - 1 \in Nat
        BY <2>3
    <2> QED BY <2>1, <2>3, <2>4
<1>10. \A t \in Timers : timer[t].state # "armed" => timer'[t] = timer[t]
    BY DEF Tick
<1>2. TypeOK'
    <2>1. timer' \in [Timers -> {Unused}
                         \cup [state : {"armed"}, app : Apps, left : Nat]
                         \cup [state : {"fired"}, app : Apps]
                         \cup [state : {"locked", "send"}, event : Debounced]]
        <3>1. \A t \in Timers : timer[t].state = "armed" =>
                  timer'[t] \in [state : {"armed"}, app : Apps, left : Nat]
            BY <1>9
        <3>2. timer' = [t \in Timers |-> timer'[t]]
            BY DEF Tick
        <3> QED BY <1>10, <3>1, <3>2 DEF IInv, TypeOK
    <2>2. deadline' \in [Apps -> (0 .. MaxWait) \cup {None}]
        BY NoneAssumption, TimesAssumption DEF Tick, CountDown, IInv, TypeOK
    <2>3. age' \in [Apps -> 0 .. MaxWait + 1]
        BY TimesAssumption DEF Tick, Min, IInv, TypeOK
    <2> QED BY <1>1, <2>1, <2>2, <2>3 DEF IInv, TypeOK
<1>3. \A a \in Apps : BeingCollected(a) => BeingCollected(a)'
    <2> SUFFICES ASSUME NEW a \in Apps, NEW t \in Timers, timer[t] = Fired(a)
                 PROVE  timer'[t] = Fired(a)
        BY DEF BeingCollected
    <2>1. timer[t].state # "armed"
        BY DEF Fired
    <2> QED BY <1>10, <2>1
<1>4. DeadlineOfBatch'
    BY <1>1, TimesAssumption, NoneAssumption DEF IInv, DeadlineOfBatch, CountDown
<1>5. CurrentIsOwn'
    <2> SUFFICES ASSUME NEW a \in Apps, current[a] # None
                 PROVE  /\ timer'[current[a]].state \in {"armed", "fired"}
                        /\ timer'[current[a]].app = a
        BY <1>1 DEF IInv, CurrentIsOwn
    <2>1. /\ current[a] \in Timers /\ timer[current[a]].app = a
          /\ timer[current[a]].state \in {"armed", "fired"}
        BY DEF IInv, TypeOK, CurrentIsOwn
    <2> QED BY <1>9, <1>10, <2>1
<1>6. ASSUME NEW a \in Apps, captured[a] # <<>>, main # Returned, ~BeingCollected(a)
      PROVE  /\ age'[a] + deadline'[a] <= MaxWait
             /\ \E t \in Timers : /\ timer'[t].state = "armed" /\ timer'[t].app = a
                                  /\ age'[a] + timer'[t].left <= MaxWait
    <2>1. PICK t \in Timers : /\ timer[t].state = "armed" /\ timer[t].app = a
                              /\ age[a] + timer[t].left <= MaxWait
        BY <1>6 DEF IInv, CollectedInTime
    <2>2. timer[t].left \in Nat \ {0} /\ age[a] \in Nat
        BY <1>9, <2>1, TimesAssumption DEF IInv, TypeOK
    <2>3. age[a] + 1 <= MaxWait /\ age'[a] = age[a] + 1
        BY <1>1, <1>6, <2>1, <2>2, TimesAssumption DEF Min
    <2>4. timer'[t].state = "armed" /\ timer'[t].app = a /\ timer'[t].left = timer[t].left - 1
        BY <1>9, <2>1
    <2>5. deadline[a] \in Nat /\ age[a] + deadline[a] <= MaxWait
        BY <1>6, TimesAssumption DEF IInv, DeadlineOfBatch, DeadlineInTime
    <2>6. deadline'[a] = IF deadline[a] = 0 THEN 0 ELSE deadline[a] - 1
        BY <1>1, <2>5, NoneAssumption DEF CountDown
    <2>7. age'[a] + deadline'[a] <= MaxWait
        BY <2>2, <2>3, <2>5, <2>6, TimesAssumption
    <2>8. age'[a] + timer'[t].left <= MaxWait
        BY <2>1, <2>2, <2>3, <2>4, TimesAssumption
    <2> QED BY <2>4, <2>7, <2>8
<1>7. DeadlineInTime'
    BY <1>1, <1>3, <1>6 DEF DeadlineInTime
<1>8. CollectedInTime'
    BY <1>1, <1>3, <1>6 DEF CollectedInTime
<1> QED BY <1>2, <1>4, <1>5, <1>7, <1>8 DEF IInv

LEMMA StepIInv == IInv /\ [Next]_vars => IInv'
<1> SUFFICES ASSUME IInv, [Next]_vars PROVE IInv'
    OBVIOUS
<1>1. CASE UNCHANGED vars
    BY <1>1 DEF vars, IInv, TypeOK, DeadlineOfBatch, CurrentIsOwn, DeadlineInTime,
                CollectedInTime, BeingCollected
<1>2. CASE Next
    BY <1>2, MainIInv, CaptureIInv, FireIInv, SignalIInv, TickIInv DEF Next
<1> QED BY <1>1, <1>2

------------------------------------------------------------------------------
(* The types of AppDebouncer's variables: what is captured are events, and *)
(* what the main loop receives is an event of a deployment that was        *)
(* captured (app_debouncer.go).                                            *)
THEOREM TypeCorrect == Spec => []TypeOK
<1>1. IInv => TypeOK
    BY DEF IInv
<1> QED BY <1>1, InitIInv, StepIInv, PTL DEF Spec

(* However events keep arriving, timers fire while they are replaced and   *)
(* goroutines wait for the mutex, a batch has a timer that collects it in  *)
(* time or a goroutine that is about to (captureEvent, signalDone).        *)
THEOREM NoneForgotten == Spec => []CollectedInTime
<1>1. IInv => CollectedInTime
    BY DEF IInv
<1> QED BY <1>1, InitIInv, StepIInv, PTL DEF Spec
==============================================================================
