------------------------- MODULE CertificatesProofs -------------------------
(***************************************************************************)
(* What Certificates says of haloyd's certificate files and the proxy's    *)
(* cache, for any domains, tables, timers and number of incidents: types,  *)
(* that a replaced certificate is served only while a reload is on its     *)
(* way, and that no step takes the file of a wanted domain.                *)
(***************************************************************************)
EXTENDS Certificates, TLAPS

(* A goroutine that checks holds checkMutex, and one that has an order has *)
(* an entry; challenges are published by whoever has an order.             *)
Checks ==
    /\ \A g \in Goroutines : job[g].state \in {"check", "validate", "order"} => checking = g
    /\ \A g \in Goroutines : job[g].state \in {"validate", "order"} => job[g].entry \in Entries
    /\ challenges # {} => \E g \in Goroutines : job[g].state = "order"

(* A job that is overwritten or dropped has renewed nothing: that of a     *)
(* timer has not checked yet, and the updater's is over when its update is.*)
JobsEnd ==
    /\ \A g \in Goroutines :
          job[g].renewed => job[g].state \in {"check", "validate", "order", "signal"}
    /\ upd.state # "sync" => job[Updater] = NoJob

(* What the cleanup may remove is not wanted: the table changes only when  *)
(* no update runs.                                                         *)
CleanupSpares ==
    /\ upd.todo \cap Canonicals(wanted) = {}
    /\ upd.file # None => upd.file \notin Canonicals(wanted)

(* A reload is on its way for d.                                           *)
Pending(d) ==
    \/ signals > 0 \/ main = "reload"
    \/ main = "reloading" /\ loaded # None /\ loaded[d] = disk[d]
    \/ \E g \in Goroutines : job[g].renewed

(* StaleHasReload, and the same of what a reload in progress has read: it  *)
(* is what the cache will be.                                              *)
Behind(d) ==
    /\ disk[d] # None
    /\ \/ cache[d] # None /\ cache[d] # disk[d]
       \/ loaded # None /\ loaded[d] # None /\ loaded[d] # disk[d]

BehindHasReload == \A d \in Domains \ missed : Behind(d) => Pending(d)

IInv == TypeOK /\ Checks /\ JobsEnd /\ CleanupSpares /\ BehindHasReload

------------------------------------------------------------------------------
LEMMA Distinct ==
    /\ None \notin Goroutines /\ Updater \in Goroutines /\ Slots \subseteq Goroutines
    /\ None \notin Certs /\ None \notin Domains
BY NoneAssumption DEF Goroutines

(* What is put into a goroutine's job has a type.                          *)
LEMMA JobTypes ==
    /\ NoJob \in Jobs /\ NoJob.state = "unused" /\ ~NoJob.renewed
    /\ \A state \in {"armed", "wait"} : \A todo \in SUBSET Entries :
          /\ Job(state, todo) \in Jobs
          /\ Job(state, todo).state = state /\ ~Job(state, todo).renewed
BY DEF Jobs, NoJob, Job

(* One job is replaced: what has to be known of the new one.               *)
LEMMA SetJob ==
    ASSUME IInv, NEW g \in Goroutines, NEW j \in Jobs, Set(g, j), upd' = upd,
           g = Updater => upd.state = "sync",
           checking' \in {checking, g, None}, checking' # checking => checking \in {g, None},
           j.state \in {"check", "validate", "order"} => checking' = g,
           j.state \in {"validate", "order"} => j.entry \in Entries,
           j.renewed => j.state \in {"check", "validate", "order", "signal"},
           IF j.state = "order" THEN challenges' \subseteq Domains
           ELSE IF job[g].state = "order" THEN challenges' = {}
           ELSE challenges' = challenges
    PROVE  /\ job' \in [Goroutines -> Jobs]
           /\ checking' \in Goroutines \cup {None}
           /\ challenges' \subseteq Domains /\ (checking' = None => challenges' = {})
           /\ Checks' /\ JobsEnd'
<1>1. job' \in [Goroutines -> Jobs]
    BY DEF Set, IInv, TypeOK
<1>2. job'[g] = j /\ \A h \in Goroutines \ {g} : job'[h] = job[h]
    BY DEF Set, IInv, TypeOK
<1>3. checking' \in Goroutines \cup {None} /\ challenges' \subseteq Domains
    BY DEF IInv, TypeOK
<1>4. \A h \in Goroutines : job'[h].state \in {"check", "validate", "order"} => checking' = h
    BY <1>2, Distinct DEF IInv, Checks
<1>5. \A h \in Goroutines : job'[h].state \in {"validate", "order"} => job'[h].entry \in Entries
    BY <1>2 DEF IInv, Checks
<1>6. challenges' # {} => \E h \in Goroutines : job'[h].state = "order"
    <2> SUFFICES ASSUME challenges' # {}, j.state # "order"
                 PROVE  \E h \in Goroutines : job'[h].state = "order"
        BY <1>2
    <2>1. challenges' = challenges /\ job[g].state # "order"
        OBVIOUS
    <2>2. PICK h \in Goroutines : job[h].state = "order"
        BY <2>1 DEF IInv, Checks
    <2> QED BY <1>2, <2>1, <2>2
<1>7. checking' = None => challenges' = {}
    BY <1>4, <1>6, Distinct
<1>8. JobsEnd'
    BY <1>2, Distinct DEF IInv, JobsEnd
<1> QED BY <1>1, <1>3, <1>4, <1>5, <1>6, <1>7, <1>8 DEF Checks

(* A job goes on and keeps what it has renewed, or had renewed nothing; no *)
(* other job, no file and nothing of the proxy changes.                    *)
LEMMA JobGoesOn ==
    ASSUME IInv, NEW g \in Goroutines, NEW j \in Jobs, Set(g, j),
           job[g].renewed => j.renewed,
           UNCHANGED <<main, signals, proxyVars, disk, missed>>
    PROVE  BehindHasReload'
<1>1. \A h \in Goroutines : job[h].renewed => job'[h].renewed
    BY DEF Set, IInv, TypeOK
<1> QED BY <1>1 DEF IInv, BehindHasReload, Behind, Pending, proxyVars

LEMMA InitIInv == Init => IInv
<1> SUFFICES ASSUME Init PROVE IInv
    OBVIOUS
<1>1. TypeOK
    BY JobTypes, BudgetAssumption DEF Init, TypeOK, Idle, NoFetch, Updates
<1>2. Checks /\ JobsEnd
    BY JobTypes, Distinct DEF Init, Checks, JobsEnd
<1>3. CleanupSpares /\ BehindHasReload
    BY DEF Init, CleanupSpares, BehindHasReload, Behind, Idle
<1> QED BY <1>1, <1>2, <1>3 DEF IInv

------------------------------------------------------------------------------
(* Updates.                                                                *)

LEMMA TableEntries == \A table \in Tables : table \in SUBSET Entries
BY TablesAssumption

(* A debounced refresh takes a free slot; the timer it stops has not fired.*)
LEMMA Debounced ==
    ASSUME IInv, NEW es \in SUBSET Entries, Debounce(es), UNCHANGED <<checking, challenges>>,
           upd.state # "sync"
    PROVE  /\ job' \in [Goroutines -> Jobs] /\ timer' \in Slots
           /\ \A g \in Goroutines : job[g].renewed => job'[g].renewed
           /\ Checks'
           /\ \A g \in Goroutines : job'[g].renewed => job[g].renewed /\ job'[g] = job[g]
           /\ job'[Updater] = NoJob
<1>1. timer' \in Free /\ Free \subseteq Slots /\ job[timer'] = NoJob
    BY DEF Debounce, Free
<1>2. job' = [g \in Goroutines |->
                 IF g = timer' THEN Job("armed", es)
                 ELSE IF g = timer /\ job[g].state = "armed" THEN NoJob
                 ELSE job[g]]
    BY DEF Debounce
<1>3. Job("armed", es) \in Jobs /\ Job("armed", es).state = "armed" /\ ~Job("armed", es).renewed
    BY JobTypes
<1>4. job' \in [Goroutines -> Jobs]
    BY <1>2, <1>3, JobTypes DEF IInv, TypeOK
<1>5. \A g \in Goroutines : job[g].renewed => g # timer' /\ job[g].state # "armed"
    BY <1>1, JobTypes DEF IInv, JobsEnd
<1>6. \A g \in Goroutines : job[g].renewed => job'[g].renewed
    BY <1>2, <1>5
<1>7. \A g \in Goroutines : job'[g].renewed => job[g].renewed /\ job'[g] = job[g]
    BY <1>2, <1>3, JobTypes
<1>8. \A g \in Goroutines :
          /\ job'[g].state \in {"check", "validate", "order"} => job'[g] = job[g]
          /\ job[g].state = "order" => job'[g] = job[g]
    BY <1>1, <1>2, <1>3, JobTypes
<1>9. Checks'
    BY <1>8 DEF IInv, Checks
<1>10. job'[Updater] = NoJob
    BY <1>1, <1>2, NoneAssumption DEF IInv, JobsEnd, Goroutines
<1> QED BY <1>1, <1>4, <1>6, <1>7, <1>9, <1>10

(* Nothing but jobs, timers, the table and the update changed, and no      *)
(* renewal is forgotten.                                                   *)
LEMMA Kept ==
    ASSUME IInv, \A g \in Goroutines : job[g].renewed => job'[g].renewed,
           main = "reload" => main' = "reload", main = "reloading" => main' = "reloading",
           UNCHANGED <<signals, proxyVars, disk, missed>>
    PROVE  BehindHasReload'
BY DEF IInv, BehindHasReload, Behind, Pending, proxyVars

LEMMA SyncIInv ==
    ASSUME IInv, NEW table \in SUBSET Entries, NEW es \in SUBSET table, NewTable(table),
           RefreshSync(es), main' = main, left' \in 0 .. Budget,
           UNCHANGED <<checking, challenges, signals, proxyVars, disk, missed>>
    PROVE  IInv'
<1>1. upd.state = "idle" /\ job[Updater] = NoJob /\ Updater \in Goroutines
    BY Distinct DEF NewTable, Idle, IInv, JobsEnd
<1>2. upd' = [state |-> "sync", todo |-> {}, file |-> None]
    BY DEF RefreshSync, Idle
<1> DEFINE j == Job("wait", es)
<1>3. j \in Jobs /\ j.state = "wait" /\ ~j.renewed
    BY JobTypes
<1>4. job' = [job EXCEPT ![Updater] = j]
    BY DEF RefreshSync, Set
<1> HIDE DEF j
<1>5. job' \in [Goroutines -> Jobs] /\ job'[Updater] = j
          /\ \A g \in Goroutines \ {Updater} : job'[g] = job[g]
    BY <1>1, <1>3, <1>4 DEF IInv, TypeOK
<1>6. TypeOK'
    BY <1>2, <1>5 DEF IInv, TypeOK, RefreshSync, NewTable, proxyVars, Updates
<1>7. Checks' /\ JobsEnd'
    BY <1>1, <1>2, <1>3, <1>5, JobTypes DEF IInv, Checks, JobsEnd
<1>8. CleanupSpares'
    BY <1>2 DEF CleanupSpares
<1>9. BehindHasReload'
    BY <1>1, <1>5, JobTypes, Kept
<1> QED BY <1>6, <1>7, <1>8, <1>9 DEF IInv

LEMMA DebounceIInv ==
    ASSUME IInv, NEW table \in SUBSET Entries, NewTable(table), Debounce(table),
           upd' = upd \/ Cleanup(table), main' = main, left' \in 0 .. Budget,
           UNCHANGED <<checking, challenges, signals, proxyVars, disk, missed>>
    PROVE  IInv'
<1>1. upd = [state |-> "idle", todo |-> {}, file |-> None] /\ upd.state # "sync"
    BY DEF NewTable, Idle
<1>2. /\ job' \in [Goroutines -> Jobs] /\ timer' \in Slots
      /\ \A g \in Goroutines : job[g].renewed => job'[g].renewed
      /\ Checks'
      /\ \A g \in Goroutines : job'[g].renewed => job[g].renewed /\ job'[g] = job[g]
      /\ job'[Updater] = NoJob
    BY <1>1, Debounced
<1>3. /\ upd' \in Updates /\ upd'.file = None
      /\ upd'.todo \cap Canonicals(table) = {}
    <2>1. CASE upd' = upd
        BY <1>1, <2>1 DEF Updates
    <2>2. CASE Cleanup(table)
        <3> DEFINE todo == {d \in Domains : disk[d] # None} \ Canonicals(table)
        <3>1. upd' = [state |-> "cleanup", todo |-> todo, file |-> None]
            BY <2>2 DEF Cleanup, Idle
        <3>2. todo \in SUBSET Domains /\ todo \cap Canonicals(table) = {}
            OBVIOUS
        <3> HIDE DEF todo
        <3> QED BY <3>1, <3>2 DEF Updates
    <2> QED BY <2>1, <2>2
<1>4. TypeOK'
    BY <1>2, <1>3 DEF IInv, TypeOK, NewTable, proxyVars
<1>5. JobsEnd'
    BY <1>2 DEF IInv, JobsEnd
<1>6. CleanupSpares'
    BY <1>3 DEF CleanupSpares, NewTable
<1>7. BehindHasReload'
    BY <1>2, Kept
<1> QED BY <1>2, <1>4, <1>5, <1>6, <1>7 DEF IInv

LEMMA IncidentLeft == ASSUME IInv, Incident PROVE left' \in 0 .. Budget
BY BudgetAssumption DEF Incident, IInv, TypeOK

LEMMA UpdateIInv ==
    ASSUME IInv,
           \/ \E table \in Tables : InitialUpdate(table)
           \/ \E table \in Tables : \E e \in table : AppUpdate(table, {e})
           \/ MaintenanceUpdate
           \/ \E table \in Tables : ResyncUpdate(table)
    PROVE  IInv'
<1>1. left \in 0 .. Budget
    BY DEF IInv, TypeOK
<1>2. ASSUME NEW table \in Tables, InitialUpdate(table) PROVE IInv'
    BY <1>1, <1>2, SyncIInv, TableEntries DEF InitialUpdate, proxyVars
<1>3. ASSUME NEW table \in Tables, NEW e \in table, AppUpdate(table, {e}) PROVE IInv'
    <2>1. /\ left' \in 0 .. Budget /\ main' = main
          /\ UNCHANGED <<checking, challenges, signals, proxyVars, disk, missed>>
        BY <1>3, IncidentLeft DEF AppUpdate, proxyVars
    <2>2. CASE table # wanted
        BY <1>3, <2>1, <2>2, SyncIInv, TableEntries DEF AppUpdate
    <2>3. CASE table = wanted
        BY <1>3, <2>1, <2>3, DebounceIInv, TableEntries DEF AppUpdate
    <2> QED BY <2>2, <2>3
<1>4. ASSUME MaintenanceUpdate PROVE IInv'
    BY <1>1, <1>4, DebounceIInv DEF MaintenanceUpdate, PeriodicUpdate, Refreshes, proxyVars,
                                    IInv, TypeOK
<1>5. ASSUME NEW table \in Tables, ResyncUpdate(table) PROVE IInv'
    BY <1>5, IncidentLeft, DebounceIInv, TableEntries DEF ResyncUpdate, PeriodicUpdate, Refreshes, proxyVars
<1> QED BY <1>2, <1>3, <1>4, <1>5

LEMMA EndSyncIInv == ASSUME IInv, EndSync PROVE IInv'
<1>1. TypeOK' /\ Checks' /\ JobsEnd' /\ CleanupSpares'
    BY DEF EndSync, IInv, TypeOK, Checks, JobsEnd, CleanupSpares, Idle, Updates, proxyVars
<1>2. BehindHasReload'
    BY Kept DEF EndSync, proxyVars
<1> QED BY <1>1, <1>2 DEF IInv

LEMMA CleanupIInv ==
    ASSUME IInv, RemoveFile \/ EndCleanup \/ \E d \in Domains : ReadForCleanup(d)
    PROVE  IInv'
<1>1. CASE RemoveFile
    <2>1. /\ upd.file \in Domains /\ upd' \in Updates /\ upd'.todo = upd.todo
          /\ upd'.file = None /\ upd'.state = upd.state
        BY <1>1 DEF RemoveFile, IInv, TypeOK, Updates
    <2>2. disk' \in [Domains -> Certs \cup {None}]
        BY <1>1, <2>1 DEF RemoveFile, IInv, TypeOK
    <2>3. TypeOK' /\ Checks' /\ JobsEnd' /\ CleanupSpares'
        BY <1>1, <2>1, <2>2 DEF RemoveFile, IInv, TypeOK, Checks, JobsEnd, CleanupSpares, proxyVars
    <2>4. \A d \in Domains : disk'[d] # None => disk'[d] = disk[d]
        BY <1>1, <2>1 DEF RemoveFile, IInv, TypeOK
    <2>5. BehindHasReload'
        BY <1>1, <2>4 DEF RemoveFile, IInv, BehindHasReload, Behind, Pending, proxyVars
    <2> QED BY <2>3, <2>5 DEF IInv
<1>2. CASE EndCleanup
    <2>1. TypeOK' /\ Checks' /\ JobsEnd' /\ CleanupSpares'
        BY <1>2 DEF EndCleanup, IInv, TypeOK, Checks, JobsEnd, CleanupSpares, Idle, Updates,
                    proxyVars
    <2>2. BehindHasReload'
        BY <1>2, Kept DEF EndCleanup
    <2> QED BY <2>1, <2>2 DEF IInv
<1>3. ASSUME NEW d \in Domains, ReadForCleanup(d) PROVE IInv'
    <2>1. /\ upd' \in Updates /\ upd'.state = upd.state /\ upd'.todo \subseteq upd.todo
          /\ upd'.file \in {d, None}
        BY <1>3 DEF ReadForCleanup, IInv, TypeOK, Updates
    <2>2. d \in upd.todo
        BY <1>3 DEF ReadForCleanup
    <2>3. UNCHANGED <<main, wanted, job, timer, checking, challenges, signals, proxyVars,
                      disk, missed, left>>
        BY <1>3 DEF ReadForCleanup
    <2>4. TypeOK'
        BY <2>1, <2>3 DEF IInv, TypeOK, proxyVars
    <2>5. Checks' /\ JobsEnd'
        BY <2>1, <2>3 DEF IInv, Checks, JobsEnd
    <2>6. CleanupSpares'
        BY <2>1, <2>2, <2>3 DEF IInv, CleanupSpares
    <2>7. BehindHasReload'
        BY <2>3, Kept
    <2> QED BY <2>4, <2>5, <2>6, <2>7 DEF IInv
<1> QED BY <1>1, <1>2, <1>3

------------------------------------------------------------------------------
(* Refreshes.                                                              *)

LEMMA TimerIInv ==
    ASSUME IInv, \E s \in Slots : TimerFires(s) \/ RunRefresh(s)
    PROVE  IInv'
<1>1. PICK s \in Slots : TimerFires(s) \/ RunRefresh(s)
    OBVIOUS
<1>2. s \in Goroutines /\ s # Updater /\ job[s] \in Jobs
    BY NoneAssumption DEF Goroutines, IInv, TypeOK
<1>3. PICK state \in {"fired", "wait"} : Set(s, [job[s] EXCEPT !.state = state])
    BY <1>1 DEF TimerFires, RunRefresh
<1> DEFINE j == [job[s] EXCEPT !.state = state]
<1>4. j \in Jobs /\ j.state = state /\ j.renewed = job[s].renewed /\ job[s].state \in {"armed", "fired"}
    BY <1>1, <1>2 DEF Jobs, TimerFires, RunRefresh
<1>5. ~job[s].renewed
    BY <1>2, <1>4 DEF IInv, JobsEnd
<1>6. /\ UNCHANGED <<main, wanted, upd, checking, challenges, signals, proxyVars, disk, missed, left>>
      /\ timer' \in Slots \cup {None} /\ Set(s, j)
    BY <1>1, <1>3 DEF TimerFires, RunRefresh, IInv, TypeOK
<1> HIDE DEF j
<1>7. /\ job' \in [Goroutines -> Jobs]
      /\ checking' \in Goroutines \cup {None}
      /\ challenges' \subseteq Domains /\ (checking' = None => challenges' = {})
      /\ Checks' /\ JobsEnd'
    BY <1>2, <1>4, <1>5, <1>6, SetJob
<1>8. BehindHasReload'
    BY <1>2, <1>4, <1>6, JobGoesOn
<1>9. TypeOK' /\ CleanupSpares'
    BY <1>6, <1>7 DEF IInv, TypeOK, CleanupSpares, proxyVars
<1> QED BY <1>7, <1>8, <1>9 DEF IInv

(* A check, from the mutex to the signal, in which nothing is obtained: a  *)
(* job that has renewed something keeps that.                              *)
LEMMA GoOnIInv ==
    ASSUME IInv, NEW g \in Goroutines, NEW j \in Jobs, Set(g, j),
           job[g].state \in {"wait", "check", "validate", "order"},
           job[g].renewed => j.renewed,
           checking' \in {checking, g, None}, checking' # checking => checking \in {g, None},
           j.state \in {"check", "validate", "order"} => checking' = g,
           j.state \in {"validate", "order"} => j.entry \in Entries,
           j.renewed => j.state \in {"check", "validate", "order", "signal"},
           IF j.state = "order" THEN challenges' \subseteq Domains
           ELSE IF job[g].state = "order" THEN challenges' = {}
           ELSE challenges' = challenges,
           left' \in 0 .. Budget,
           UNCHANGED <<main, wanted, upd, timer, signals, proxyVars, disk, missed>>
    PROVE  IInv'
<1>1. g = Updater => upd.state = "sync"
    BY JobTypes DEF IInv, JobsEnd
<1>2. /\ job' \in [Goroutines -> Jobs]
      /\ checking' \in Goroutines \cup {None}
      /\ challenges' \subseteq Domains /\ (checking' = None => challenges' = {})
      /\ Checks' /\ JobsEnd'
    BY <1>1, SetJob
<1>3. BehindHasReload'
    BY JobGoesOn
<1>4. TypeOK' /\ CleanupSpares'
    BY <1>2 DEF IInv, TypeOK, CleanupSpares, proxyVars
<1> QED BY <1>2, <1>3, <1>4 DEF IInv

LEMMA CheckIInv ==
    ASSUME IInv, NEW g \in Goroutines,
           \/ LockCheck(g) \/ FailValidation(g) \/ Order(g) \/ FailToObtain(g) \/ EndCheck(g)
           \/ \E e \in job[g].todo : CheckDomain(g, e)
    PROVE  IInv'
<1>1. job[g] \in Jobs /\ left \in 0 .. Budget
    BY DEF IInv, TypeOK
<1>2. job[g].state \in {"check", "validate", "order"} => checking = g
    BY DEF IInv, Checks
<1>3. job[g].renewed => job[g].state \in {"check", "validate", "order", "signal"}
    BY DEF IInv, JobsEnd
<1>4. CASE LockCheck(g)
    <2> DEFINE j == IF job[g].todo = {} THEN NoJob ELSE [job[g] EXCEPT !.state = "check"]
    <2>1. /\ j \in Jobs /\ ~j.renewed /\ j.state \in {"unused", "check"}
          /\ Set(g, j) /\ (j.state = "check" => checking' = g)
        BY <1>1, <1>3, <1>4, JobTypes DEF LockCheck, Jobs
    <2> HIDE DEF j
    <2> QED BY <1>1, <1>3, <1>4, <2>1, GoOnIInv DEF LockCheck
<1>5. CASE FailValidation(g) \/ FailToObtain(g)
    <2> DEFINE j == Failed(job[g])
    <2>1. j \in Jobs /\ j.renewed = job[g].renewed /\ j.state = "check"
        BY <1>1 DEF Failed, Jobs
    <2> HIDE DEF j
    <2>2. left' \in 0 .. Budget
        BY <1>5, IncidentLeft DEF FailValidation, FailToObtain
    <2>3. Set(g, j) /\ job[g].state \in {"validate", "order"}
        BY <1>5 DEF FailValidation, FailToObtain, j
    <2> QED BY <1>2, <1>5, <2>1, <2>2, <2>3, GoOnIInv DEF FailValidation, FailToObtain
<1>6. CASE Order(g)
    <2> DEFINE j == [job[g] EXCEPT !.state = "order"]
    <2>1. j \in Jobs /\ j.renewed = job[g].renewed /\ j.state = "order" /\ j.entry = job[g].entry
        BY <1>1 DEF Jobs
    <2>2. Set(g, j) /\ job[g].state = "validate"
        BY <1>6 DEF Order
    <2> HIDE DEF j
    <2>3. job[g].entry \in Entries
        BY <2>2 DEF IInv, Checks
    <2>4. challenges' \subseteq Domains
        BY <1>6, <2>3 DEF Order, Names, Entries
    <2> QED BY <1>1, <1>2, <1>6, <2>1, <2>2, <2>3, <2>4, GoOnIInv DEF Order
<1>7. CASE EndCheck(g)
    <2> DEFINE j == IF Signals(g) THEN [job[g] EXCEPT !.state = "signal"] ELSE NoJob
    <2>1. /\ j \in Jobs /\ j.renewed = job[g].renewed /\ j.state \in {"signal", "unused"}
          /\ (j.renewed => j.state = "signal")
        BY <1>1, JobTypes DEF Jobs, Signals
    <2>2. Set(g, j) /\ job[g].state = "check"
        BY <1>7 DEF EndCheck
    <2> HIDE DEF j
    <2> QED BY <1>1, <1>2, <1>7, <2>1, <2>2, GoOnIInv DEF EndCheck
<1>8. ASSUME NEW e \in job[g].todo, CheckDomain(g, e) PROVE IInv'
    <2> DEFINE rest == {f \in job[g].todo : f.canonical # e.canonical}
               j == IF NeedsCertificate(e)
                    THEN [job[g] EXCEPT !.state = "validate", !.todo = rest, !.entry = e]
                    ELSE [job[g] EXCEPT !.todo = rest]
    <2>1. Set(g, j) /\ job[g].state = "check"
        BY <1>8 DEF CheckDomain
    <2>2. e \in Entries /\ rest \in SUBSET Entries
        BY <1>1 DEF Jobs
    <2>3. /\ j \in Jobs /\ j.renewed = job[g].renewed /\ j.state \in {"check", "validate"}
          /\ (j.state = "validate" => j.entry \in Entries)
        <3> HIDE DEF rest
        <3> QED BY <1>1, <2>1, <2>2 DEF Jobs
    <2> HIDE DEF j, rest
    <2> QED BY <1>1, <1>2, <1>8, <2>1, <2>3, GoOnIInv DEF CheckDomain
<1> QED BY <1>4, <1>5, <1>6, <1>7, <1>8

(* A certificate is written by whoever will signal.                        *)
LEMMA ObtainIInv ==
    ASSUME IInv, NEW g \in Goroutines, Obtain(g)
    PROVE  IInv'
<1> DEFINE j == [job[g] EXCEPT !.state = "check", !.renewed = TRUE, !.entry = None]
           d == job[g].entry.canonical
           cert == [names |-> Names(job[g].entry), life |-> "valid"]
<1>1. job[g] \in Jobs /\ job[g].state = "order" /\ checking = g /\ job[g].entry \in Entries
    BY DEF Obtain, IInv, TypeOK, Checks
<1>2. j \in Jobs /\ j.renewed /\ j.state = "check" /\ Set(g, j)
    BY <1>1 DEF Jobs, Obtain
<1>3. d \in Domains /\ cert \in Certs /\ disk' = [disk EXCEPT ![d] = cert]
    BY <1>1 DEF Obtain, Entries, Certs, Names
<1> HIDE DEF j, d, cert
<1>4. g = Updater => upd.state = "sync"
    BY <1>1, JobTypes DEF IInv, JobsEnd
<1>5. /\ job' \in [Goroutines -> Jobs]
      /\ checking' \in Goroutines \cup {None}
      /\ challenges' \subseteq Domains /\ (checking' = None => challenges' = {})
      /\ Checks' /\ JobsEnd'
    BY <1>1, <1>2, <1>4, SetJob DEF Obtain
<1>6. TypeOK' /\ CleanupSpares'
    BY <1>3, <1>5 DEF Obtain, IInv, TypeOK, CleanupSpares, proxyVars
<1>7. job'[g].renewed
    BY <1>2 DEF Set, IInv, TypeOK
<1>8. BehindHasReload'
    BY <1>7 DEF BehindHasReload, Pending
<1> QED BY <1>5, <1>6, <1>8 DEF IInv

LEMMA SignalIInv ==
    ASSUME IInv, NEW g \in Goroutines, Signal(g)
    PROVE  IInv'
<1>1. NoJob \in Jobs /\ NoJob.state = "unused" /\ ~NoJob.renewed
    BY JobTypes
<1>2. g = Updater => upd.state = "sync"
    BY <1>1 DEF Signal, IInv, JobsEnd
<1>3. /\ job' \in [Goroutines -> Jobs]
      /\ checking' \in Goroutines \cup {None}
      /\ challenges' \subseteq Domains /\ (checking' = None => challenges' = {})
      /\ Checks' /\ JobsEnd'
    BY <1>1, <1>2, SetJob DEF Signal
<1>4. signals' \in Nat /\ signals' > 0
    BY DEF Signal, IInv, TypeOK
<1>5. TypeOK' /\ CleanupSpares'
    BY <1>3, <1>4 DEF Signal, IInv, TypeOK, CleanupSpares, proxyVars
<1>6. BehindHasReload'
    BY <1>4 DEF BehindHasReload, Pending
<1> QED BY <1>3, <1>5, <1>6 DEF IInv

------------------------------------------------------------------------------
(* The main loop and the proxy.                                            *)

LEMMA ReloadIInv ==
    ASSUME IInv, ReceiveSignal \/ ReadCertificates \/ SwapCertificates \/ LoseReload
    PROVE  IInv'
<1>1. left' \in 0 .. Budget
    BY IncidentLeft DEF ReceiveSignal, ReadCertificates, SwapCertificates, LoseReload, IInv, TypeOK
<1>2. UNCHANGED <<wanted, upd, job, timer, checking, challenges, disk>>
    BY DEF ReceiveSignal, ReadCertificates, SwapCertificates, LoseReload
<1>3. Checks' /\ JobsEnd' /\ CleanupSpares'
    BY <1>2 DEF IInv, Checks, JobsEnd, CleanupSpares
<1>4. TypeOK'
    <2>1. main' \in {"boot", "loop", "reload", "reloading"} /\ signals' \in Nat
        BY DEF ReceiveSignal, ReadCertificates, SwapCertificates, LoseReload, IInv, TypeOK, proxyVars
    <2>2. /\ cache' \in [Domains -> Certs \cup {None}]
          /\ loaded' \in [Domains -> Certs \cup {None}] \cup {None}
          /\ fetched' = fetched /\ missed' \subseteq Domains
        BY DEF ReceiveSignal, ReadCertificates, SwapCertificates, LoseReload, IInv, TypeOK,
               proxyVars, Unread
    <2> QED BY <1>1, <1>2, <2>1, <2>2 DEF IInv, TypeOK
<1>5. ASSUME ReceiveSignal PROVE BehindHasReload'
    BY <1>5 DEF ReceiveSignal, BehindHasReload, Pending
<1>6. ASSUME ReadCertificates PROVE BehindHasReload'
    BY <1>6, NoneAssumption DEF ReadCertificates, IInv, TypeOK, BehindHasReload, Behind, Pending
<1>7. ASSUME SwapCertificates PROVE BehindHasReload'
    <2> SUFFICES ASSUME NEW d \in Domains, d \notin missed', Behind(d)' PROVE Pending(d)'
        BY DEF BehindHasReload
    <2>1. loaded # None /\ loaded[d] # None /\ disk[d] # None /\ loaded[d] # disk[d]
        BY <1>7 DEF SwapCertificates, Behind
    <2>2. d \notin missed
        BY <1>7, <2>1 DEF SwapCertificates
    <2> QED BY <1>7, <2>1, <2>2 DEF SwapCertificates, IInv, BehindHasReload, Behind, Pending
<1>8. ASSUME LoseReload PROVE BehindHasReload'
    BY <1>8 DEF LoseReload, IInv, BehindHasReload, Behind, Unread, proxyVars
<1>9. BehindHasReload'
    BY <1>5, <1>6, <1>7, <1>8
<1> QED BY <1>3, <1>4, <1>9 DEF IInv

LEMMA FetchIInv ==
    ASSUME IInv, StoreCertificate \/ \E h \in Domains, e \in UNION Tables : FetchCertificate(h, e)
    PROVE  IInv'
<1>1. CASE StoreCertificate
    <2>1. fetched \in [domain : Domains, cert : Certs]
        BY <1>1 DEF StoreCertificate, IInv, TypeOK
    <2>2. /\ UNCHANGED <<haloydVars, loaded, disk, left>> /\ fetched' = NoFetch
          /\ cache' = [cache EXCEPT ![fetched.domain] = fetched.cert]
          /\ missed' = missed \cup {d \in {fetched.domain} : fetched.cert # disk[d]}
        BY <1>1 DEF StoreCertificate
    <2>3. TypeOK'
        BY <2>1, <2>2 DEF IInv, TypeOK, haloydVars
    <2>4. Checks' /\ JobsEnd' /\ CleanupSpares'
        BY <2>2 DEF IInv, Checks, JobsEnd, CleanupSpares, haloydVars
    <2>5. BehindHasReload'
        BY <2>1, <2>2 DEF IInv, TypeOK, BehindHasReload, Behind, Pending, haloydVars
    <2> QED BY <2>3, <2>4, <2>5 DEF IInv
<1>2. ASSUME NEW h \in Domains, NEW e \in UNION Tables, FetchCertificate(h, e) PROVE IInv'
    <2>1. e.canonical \in Domains
        BY TablesAssumption DEF Entries
    <2>2. fetched' \in [domain : Domains, cert : Certs]
        BY <1>2, <2>1 DEF FetchCertificate, IInv, TypeOK
    <2>3. left' \in 0 .. Budget /\ UNCHANGED <<haloydVars, cache, loaded, disk, missed>>
        BY <1>2, IncidentLeft DEF FetchCertificate
    <2>4. TypeOK'
        BY <2>2, <2>3 DEF IInv, TypeOK, haloydVars
    <2>5. Checks' /\ JobsEnd' /\ CleanupSpares' /\ BehindHasReload'
        BY <2>3 DEF IInv, Checks, JobsEnd, CleanupSpares, BehindHasReload, Behind, Pending,
                    haloydVars
    <2> QED BY <2>4, <2>5 DEF IInv
<1> QED BY <1>1, <1>2

LEMMA RestartIInv ==
    ASSUME IInv, RestartProxy \/ RestartHaloyd
    PROVE  IInv'
<1>1. CASE RestartProxy
    <2>1. left' \in 0 .. Budget
        BY <1>1, IncidentLeft DEF RestartProxy
    <2>2. TypeOK'
        BY <1>1, <2>1 DEF RestartProxy, IInv, TypeOK
    <2>3. Checks' /\ JobsEnd' /\ CleanupSpares' /\ BehindHasReload'
        BY <1>1 DEF RestartProxy, IInv, Checks, JobsEnd, CleanupSpares, BehindHasReload, Behind
    <2> QED BY <2>2, <2>3 DEF IInv
<1>2. CASE RestartHaloyd
    <2>1. left' \in 0 .. Budget
        BY <1>2, IncidentLeft DEF RestartHaloyd
    <2>2. TypeOK'
        BY <1>2, <2>1, JobTypes DEF RestartHaloyd, IInv, TypeOK, Idle, Updates, Unread
    <2>3. Checks' /\ JobsEnd' /\ CleanupSpares'
        BY <1>2, JobTypes, Distinct DEF RestartHaloyd, IInv, Checks, JobsEnd, CleanupSpares, Idle
    <2>4. BehindHasReload'
        BY <1>2 DEF RestartHaloyd, BehindHasReload, Behind, Unread
    <2> QED BY <2>2, <2>3, <2>4 DEF IInv
<1> QED BY <1>1, <1>2

LEMMA OlderTypes ==
    ASSUME NEW c \in Certs \cup {None}, NEW life \in {"due", "expired"}
    PROVE  Older(c, life) \in Certs \cup {None} /\ (Older(c, life) = None <=> c = None)
<1>1. c # None => [c EXCEPT !.life = life] \in Certs
    BY DEF Certs
<1> QED BY <1>1, NoneAssumption DEF Older

(* Copies that are equal stay equal.                                       *)
LEMMA AgeIInv ==
    ASSUME IInv, NEW d \in Domains, NEW life \in {"due", "expired"}, Age(d, life)
    PROVE  IInv'
<1> DEFINE old(c) == Older(c, life)
<1>1. left' \in 0 .. Budget /\ UNCHANGED <<haloydVars, missed>>
    BY IncidentLeft DEF Age
<1>2. /\ disk' = [disk EXCEPT ![d] = old(disk[d])]
      /\ cache' = [cache EXCEPT ![d] = old(cache[d])]
      /\ loaded' = IF loaded = None THEN None ELSE [loaded EXCEPT ![d] = old(loaded[d])]
      /\ fetched' = IF fetched.domain = d THEN [fetched EXCEPT !.cert = old(fetched.cert)]
                    ELSE fetched
    BY DEF Age
<1>3. \A c \in Certs \cup {None} : old(c) \in Certs \cup {None} /\ (old(c) = None <=> c = None)
    BY OlderTypes
<1> HIDE DEF old
<1>4. fetched' = NoFetch \/ fetched' \in [domain : Domains, cert : Certs]
    <2>1. CASE fetched = NoFetch
        BY <1>2, <2>1, NoneAssumption DEF NoFetch
    <2>2. CASE fetched \in [domain : Domains, cert : Certs]
        BY <1>2, <1>3, <2>2, NoneAssumption
    <2> QED BY <2>1, <2>2 DEF IInv, TypeOK
<1>5. TypeOK'
    BY <1>1, <1>2, <1>3, <1>4 DEF IInv, TypeOK, haloydVars
<1>6. Checks' /\ JobsEnd' /\ CleanupSpares'
    BY <1>1 DEF IInv, Checks, JobsEnd, CleanupSpares, haloydVars
<1>7. BehindHasReload'
    <2> SUFFICES ASSUME NEW b \in Domains, b \notin missed, Behind(b)' PROVE Pending(b)'
        BY <1>1 DEF BehindHasReload
    <2>1. Behind(b)
        BY <1>2, <1>3 DEF IInv, TypeOK, Behind
    <2>2. Pending(b)
        BY <2>1 DEF IInv, BehindHasReload
    <2>3. loaded # None /\ loaded[b] = disk[b] => loaded' # None /\ loaded'[b] = disk'[b]
        <3>1. loaded # None => loaded' \in [Domains -> Certs \cup {None}]
            BY <1>2, <1>3 DEF IInv, TypeOK
        <3>2. loaded # None /\ loaded[b] = disk[b] => loaded'[b] = disk'[b]
            BY <1>2 DEF IInv, TypeOK
        <3> QED BY <3>1, <3>2, NoneAssumption
    <2> QED BY <1>1, <2>2, <2>3 DEF Pending, haloydVars
<1> QED BY <1>5, <1>6, <1>7 DEF IInv

LEMMA NextIInv == IInv /\ [Next]_vars => IInv'
<1> SUFFICES ASSUME IInv, [Next]_vars PROVE IInv'
    OBVIOUS
<1>1. CASE UNCHANGED vars
    BY <1>1 DEF vars, haloydVars, proxyVars, IInv, TypeOK, Checks, JobsEnd, CleanupSpares,
                BehindHasReload, Behind, Pending
<1>2. CASE Next
    BY <1>2, UpdateIInv, EndSyncIInv, CleanupIInv, TimerIInv, CheckIInv, ObtainIInv, SignalIInv,
       ReloadIInv, FetchIInv, RestartIInv, AgeIInv DEF Next
<1> QED BY <1>1, <1>2

------------------------------------------------------------------------------
LEMMA Invariance == Spec => []IInv
BY InitIInv, NextIInv, PTL DEF Spec

(* Types of haloyd's certificate state and the proxy's cache, and that     *)
(* challenges are published only while checkMutex is held.                 *)
THEOREM TypeCorrect == Spec => []TypeOK
<1>1. IInv => TypeOK
    BY DEF IInv
<1> QED BY <1>1, Invariance, PTL

(* A replaced certificate is served only while a reload is on its way, or  *)
(* after a reload was lost.  (RefreshSync, refreshAction, the main loop's  *)
(* select and ReloadCertificates.)                                         *)
THEOREM StaleIsReloaded == Spec => []StaleHasReload
<1>1. IInv => StaleHasReload
    BY DEF IInv, BehindHasReload, Behind, Pending, StaleHasReload, Stale
<1> QED BY <1>1, Invariance, PTL

(* The files of wanted domains stay: a failed renewal writes nothing, and  *)
(* a cleanup's list outlasts no change of the table, since Updater.mu is   *)
(* held from the one to the other.                                         *)
THEOREM WantedStay == Spec => WantedFilesStay
<1>1. ASSUME IInv, [Next]_vars, NEW d \in Canonicals(wanted), disk[d] # None, disk'[d] = None
      PROVE  FALSE
    <2>1. CASE \E g \in Goroutines : Obtain(g)
        <3>1. PICK g \in Goroutines : Obtain(g)
            BY <2>1
        <3> DEFINE cert == [names |-> Names(job[g].entry), life |-> "valid"]
        <3>2. job[g].entry \in Entries
            BY <1>1, <3>1 DEF Obtain, IInv, Checks
        <3>3. cert \in Certs /\ disk' = [disk EXCEPT ![job[g].entry.canonical] = cert]
            BY <3>1, <3>2 DEF Obtain, Certs, Names, Entries
        <3> HIDE DEF cert
        <3> QED BY <1>1, <3>3, NoneAssumption DEF IInv, TypeOK
    <2>2. CASE RemoveFile
        BY <1>1, <2>2 DEF RemoveFile, IInv, TypeOK, CleanupSpares
    <2>3. CASE \E b \in Domains, life \in {"due", "expired"} : Age(b, life)
        <3>1. PICK b \in Domains, life \in {"due", "expired"} : Age(b, life)
            BY <2>3
        <3> QED BY <1>1, <3>1, OlderTypes DEF Age, IInv, TypeOK
    <2>4. CASE disk' = disk
        BY <1>1, <2>4
    <2>5. \/ disk' = disk \/ RemoveFile \/ \E g \in Goroutines : Obtain(g)
          \/ \E b \in Domains, life \in {"due", "expired"} : Age(b, life)
        BY <1>1 DEF Next, vars, haloydVars, InitialUpdate, AppUpdate, MaintenanceUpdate, ResyncUpdate,
                    PeriodicUpdate, EndSync, ReadForCleanup, EndCleanup, TimerFires, RunRefresh,
                    LockCheck, CheckDomain, FailValidation, Order, FailToObtain, EndCheck, Signal,
                    ReceiveSignal, ReadCertificates, SwapCertificates, LoseReload,
                    FetchCertificate, StoreCertificate, RestartProxy, RestartHaloyd
    <2> QED BY <2>1, <2>2, <2>3, <2>4, <2>5
<1>2. IInv /\ [Next]_vars => [\A d \in Canonicals(wanted) : disk[d] # None => disk'[d] # None]_vars
    BY <1>1
<1> QED BY <1>2, Invariance, PTL DEF Spec, WantedFilesStay
=============================================================================
