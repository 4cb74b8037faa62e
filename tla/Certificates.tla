---------------------------- MODULE Certificates ----------------------------
(***************************************************************************)
(* TLS certificates from the deployment table to the proxy's cache:        *)
(* CertificatesManager (internal/haloyd/certificates.go), the calls to it  *)
(* in Updater.Update and the main loop (updater.go, haloyd.go), its        *)
(* Debouncer (internal/helpers/debouncer.go), and haloy-proxy's            *)
(* CertManager (internal/proxy/certs.go), which runs in another process.   *)
(*                                                                         *)
(* Updater.mu admits one update at a time.  A refresh runs either inside   *)
(* the update (RefreshSync) or later, on the goroutine of a debounced      *)
(* timer, with the list of domains of the update that asked for it.        *)
(* checkMutex admits one check at a time; the cleanup does not take it.    *)
(*                                                                         *)
(* A certificate is its names and how near its end is.  ACME is external:  *)
(* obtaining succeeds or fails.  The directory survives haloyd.            *)
(***************************************************************************)
EXTENDS Integers, FiniteSets

CONSTANTS
    Domains,
    Tables,   (* The sets of domain entries the deployments may ask for.   *)
    Slots,    (* Timers of the debouncer and the goroutines they start.    *)
    Updater,  (* The goroutine in Updater.Update.                          *)
    Budget,   (* Bound: how many incidents happen, of any kind.  An        *)
              (* incident is an update that an event or a resync starts, a *)
              (* certificate's ageing, a failed attempt to obtain one, a   *)
              (* lost reload, a handshake that loads a file, or a restart  *)
              (* of haloyd or of the proxy.                                *)
    None

Entries == [canonical : Domains, aliases : SUBSET Domains]

ASSUME TablesAssumption == Tables \subseteq SUBSET Entries /\ Tables /= {}
ASSUME BudgetAssumption == Budget \in Nat

VARIABLES
    main,       (* The main goroutine: the initial update, its select, a   *)
                (* reload to request, or one the proxy has begun.          *)
    wanted,     (* The deployments' domains, as the last update found them.*)
    upd,        (* What the update in progress is doing.                   *)
    job,        (* job[g]: a refresh, from its timer to its signal.        *)
    timer,      (* Debouncer.timers["certificate_refresh"], or None.       *)
    checking,   (* The goroutine holding checkMutex, or None.              *)
    challenges, (* ChallengeServer.challenges, as the domains they prove.  *)
    signals,    (* Signals queued in updateSignal.                         *)
    disk,       (* disk[d]: the certificate in <d>.pem, or None.           *)
    cache,      (* CertManager.certs                                       *)
    loaded,     (* loadAllCertificates: what a reload has read; or None.   *)
    fetched,    (* loadAndCacheCertificate: what a handshake has read.     *)
    missed,     (* History: domains whose reload the proxy never got.      *)
    left        (* What is left of Budget.                                 *)

haloydVars == <<main, wanted, upd, job, timer, checking, challenges, signals>>
proxyVars == <<cache, loaded, fetched>>
vars == <<haloydVars, proxyVars, disk, missed, left>>

Goroutines == Slots \cup {Updater}
Certs == [names : SUBSET Domains, life : {"valid", "due", "expired"}]

ASSUME NoneAssumption ==
    /\ None \notin Slots \cup Domains \cup Certs /\ None \notin [Domains -> Certs \cup {None}]
    /\ Updater \notin Slots \cup {None}

NoFetch == [domain |-> None, cert |-> None]

NoJob == [state |-> "unused", todo |-> {}, renewed |-> FALSE, failed |-> FALSE, entry |-> None]
Job(state, todo) == [NoJob EXCEPT !.state = state, !.todo = todo]
Idle == [state |-> "idle", todo |-> {}, file |-> None]

Jobs ==
    [state : {"unused", "armed", "fired", "wait", "check", "validate", "order", "signal"},
     todo : SUBSET Entries, renewed : BOOLEAN, failed : BOOLEAN, entry : Entries \cup {None}]
Updates == [state : {"idle", "sync", "cleanup"}, todo : SUBSET Domains, file : Domains \cup {None}]

TypeOK ==
    /\ main \in {"boot", "loop", "reload", "reloading"}
    /\ wanted \subseteq Entries
    /\ upd \in Updates
    /\ job \in [Goroutines -> Jobs]
    /\ timer \in Slots \cup {None} /\ checking \in Goroutines \cup {None}
    /\ challenges \subseteq Domains /\ (checking = None => challenges = {})
    /\ signals \in Nat
    /\ disk \in [Domains -> Certs \cup {None}] /\ cache \in [Domains -> Certs \cup {None}]
    /\ loaded \in [Domains -> Certs \cup {None}] \cup {None}
    /\ fetched = NoFetch \/ fetched \in [domain : Domains, cert : Certs]
    /\ missed \subseteq Domains
    /\ left \in 0 .. Budget

Names(e) == {e.canonical} \cup e.aliases
Canonicals(es) == {e.canonical : e \in es}
Incident == left > 0 /\ left' = left - 1
Set(g, j) == job' = [job EXCEPT ![g] = j]

(***************************************************************************)
(* Updater.Update                                                          *)
(***************************************************************************)

(* hasConfigurationChanged, needsRenewalDueToExpiry                        *)
NeedsCertificate(e) ==
    \/ disk[e.canonical] = None
    \/ disk[e.canonical].names /= Names(e)
    \/ disk[e.canonical].life /= "valid"

(* The table is pushed to the proxy, which ProxySync is about.             *)
NewTable(table) == upd = Idle /\ wanted' = table

(* A refresh inside the update: it waits for checkMutex at once.           *)
RefreshSync(es) ==
    /\ Set(Updater, Job("wait", es))
    /\ upd' = [Idle EXCEPT !.state = "sync"]
    /\ UNCHANGED timer

(* Debouncer.Debounce, on a slot nobody uses: a timer that has fired       *)
(* already cannot be stopped.                                              *)
Free == {s \in Slots : job[s] = NoJob}

Debounce(es) ==
    /\ Free /= {}
    /\ timer' = CHOOSE s \in Free : TRUE
    /\ job' = [g \in Goroutines |->
                  IF g = timer' THEN Job("armed", es)
                  ELSE IF g = timer /\ job[g].state = "armed" THEN NoJob
                  ELSE job[g]]

(* CleanupExpiredCertificates: the files in the directory that belong to   *)
(* no domain of the list; the others are left alone.                       *)
Cleanup(table) ==
    upd' = [Idle EXCEPT !.state = "cleanup",
                        !.todo = {d \in Domains : disk[d] /= None} \ Canonicals(table)]

InitialUpdate(table) ==
    /\ main = "boot" /\ job[Updater] = NoJob
    /\ NewTable(table)
    /\ RefreshSync(table)
    /\ UNCHANGED <<main, checking, challenges, signals, disk, cache, loaded, fetched, missed, left>>

(* A debounced container event of an app with the entries es: they are     *)
(* refreshed in the update, unless the table is what it was.               *)
AppUpdate(table, es) ==
    /\ main /= "boot" /\ Incident
    /\ NewTable(table)
    /\ IF table /= wanted THEN RefreshSync(es) ELSE Debounce(table) /\ UNCHANGED upd
    /\ UNCHANGED <<main, checking, challenges, signals, disk, cache, loaded, fetched, missed>>

(* Mutant: nothing to do for unchanged tables.                             *)
RefreshesChanges(table) == table /= wanted

(* Certificate maintenance runs for unchanged tables as well.              *)
Refreshes(table) == TRUE

PeriodicUpdate(table) ==
    /\ main /= "boot"
    /\ NewTable(table)
    /\ IF Refreshes(table) THEN Debounce(table) ELSE UNCHANGED <<job, timer>>
    /\ Cleanup(table)
    /\ UNCHANGED <<main, checking, challenges, signals, disk, cache, loaded, fetched, missed>>

(* The ticker's interval is far longer than anything else takes.           *)
AtRest ==
    /\ main = "loop" /\ upd = Idle /\ signals = 0
    /\ \A g \in Goroutines : job[g] = NoJob

MaintenanceUpdate == AtRest /\ PeriodicUpdate(wanted) /\ UNCHANGED left

(* The Docker event stream was lost and is back: at any time.              *)
ResyncUpdate(table) == Incident /\ PeriodicUpdate(table)

(* RefreshSync has returned, and with it Update.                           *)
EndSync ==
    /\ upd.state = "sync" /\ job[Updater] = NoJob
    /\ upd' = Idle
    /\ main' = IF main = "boot" THEN "loop" ELSE main
    /\ UNCHANGED <<wanted, job, timer, checking, challenges, signals, proxyVars, disk, missed, left>>

(* One file of the cleanup: it is read, and removed in a step of its own.  *)
ReadForCleanup(d) ==
    /\ upd.state = "cleanup" /\ upd.file = None /\ d \in upd.todo
    /\ upd' = [upd EXCEPT
                  !.todo = @ \ {d},
                  !.file = IF disk[d] /= None /\ disk[d].life = "expired" THEN d ELSE None]
    /\ UNCHANGED <<main, wanted, job, timer, checking, challenges, signals, proxyVars, disk, missed, left>>

RemoveFile ==
    /\ upd.file /= None
    /\ disk' = [disk EXCEPT ![upd.file] = None]
    /\ upd' = [upd EXCEPT !.file = None]
    /\ UNCHANGED <<main, wanted, job, timer, checking, challenges, signals, proxyVars, missed, left>>

EndCleanup ==
    /\ upd.state = "cleanup" /\ upd.todo = {} /\ upd.file = None
    /\ upd' = Idle
    /\ UNCHANGED <<main, wanted, job, timer, checking, challenges, signals, proxyVars, disk, missed, left>>

(***************************************************************************)
(* The debounced refresh and checkRenewals                                 *)
(***************************************************************************)

TimerFires(s) ==
    /\ job[s].state = "armed"
    /\ Set(s, [job[s] EXCEPT !.state = "fired"])
    /\ UNCHANGED <<main, wanted, upd, timer, checking, challenges, signals, proxyVars, disk, missed, left>>

(* The fired timer's goroutine deletes the entry, whichever timer it names.*)
RunRefresh(s) ==
    /\ job[s].state = "fired"
    /\ timer' = None
    /\ Set(s, [job[s] EXCEPT !.state = "wait"])
    /\ UNCHANGED <<main, wanted, upd, checking, challenges, signals, proxyVars, disk, missed, left>>

LockCheck(g) ==
    /\ job[g].state = "wait" /\ checking = None
    /\ IF job[g].todo = {}
       THEN Set(g, NoJob) /\ UNCHANGED checking
       ELSE Set(g, [job[g] EXCEPT !.state = "check"]) /\ checking' = g
    /\ UNCHANGED <<main, wanted, upd, timer, challenges, signals, proxyVars, disk, missed, left>>

(* One entry per canonical domain.                                         *)
CheckDomain(g, e) ==
    /\ job[g].state = "check" /\ e \in job[g].todo
    /\ LET rest == {f \in job[g].todo : f.canonical /= e.canonical}
       IN Set(g, IF NeedsCertificate(e)
                 THEN [job[g] EXCEPT !.state = "validate", !.todo = rest, !.entry = e]
                 ELSE [job[g] EXCEPT !.todo = rest])
    /\ UNCHANGED <<main, wanted, upd, timer, checking, challenges, signals, proxyVars, disk, missed, left>>

(* The error is kept and the check goes on with the other domains.         *)
Failed(j) == [j EXCEPT !.state = "check", !.failed = TRUE, !.entry = None]

(* A name does not resolve.  Other findings are only logged.               *)
FailValidation(g) ==
    /\ job[g].state = "validate" /\ Incident
    /\ Set(g, Failed(job[g]))
    /\ UNCHANGED <<main, wanted, upd, timer, checking, challenges, signals, proxyVars, disk, missed>>

(* An order for all names; the challenges of those not authorized yet are  *)
(* published until ObtainCertificate returns.                              *)
Order(g) ==
    /\ job[g].state = "validate"
    /\ \E names \in {{}, Names(job[g].entry)} : challenges' = names
    /\ Set(g, [job[g] EXCEPT !.state = "order"])
    /\ UNCHANGED <<main, wanted, upd, timer, checking, signals, proxyVars, disk, missed, left>>

(* saveCertificate: the file is replaced by a rename.                      *)
Obtain(g) ==
    /\ job[g].state = "order"
    /\ disk' = [disk EXCEPT ![job[g].entry.canonical] =
                   [names |-> Names(job[g].entry), life |-> "valid"]]
    /\ challenges' = {}
    /\ Set(g, [job[g] EXCEPT !.state = "check", !.renewed = TRUE, !.entry = None])
    /\ UNCHANGED <<main, wanted, upd, timer, checking, signals, proxyVars, missed, left>>

(* Mutant: the old certificate is removed before a new one is requested.   *)
FailAfterRemoving(g) ==
    /\ job[g].state = "order" /\ Incident
    /\ disk' = [disk EXCEPT ![job[g].entry.canonical] = None]
    /\ challenges' = {}
    /\ Set(g, Failed(job[g]))
    /\ UNCHANGED <<main, wanted, upd, timer, checking, signals, proxyVars, missed>>

(* The account, the order, a challenge, or writing the file fails.         *)
FailToObtain(g) ==
    /\ job[g].state = "order" /\ Incident
    /\ challenges' = {}
    /\ Set(g, Failed(job[g]))
    /\ UNCHANGED <<main, wanted, upd, timer, checking, signals, proxyVars, disk, missed>>

(* Mutant: no signal after a partial failure.                              *)
SignalsIfAllWell(g) == job[g].renewed /\ ~job[g].failed

(* A partial failure is signalled as well.                                 *)
Signals(g) == job[g].renewed

EndCheck(g) ==
    /\ job[g].state = "check" /\ job[g].todo = {}
    /\ checking' = None
    /\ Set(g, IF Signals(g) THEN [job[g] EXCEPT !.state = "signal"] ELSE NoJob)
    /\ UNCHANGED <<main, wanted, upd, timer, challenges, signals, proxyVars, disk, missed, left>>

(* make(chan string, 5)                                                    *)
SignalRoom == 5

(* Mutant: a channel without a buffer.                                     *)
SignalMainLoop(g) ==
    /\ job[g].state = "signal" /\ main = "loop"
    /\ main' = "reload"
    /\ Set(g, NoJob)
    /\ UNCHANGED <<wanted, upd, timer, checking, challenges, signals, proxyVars, disk, missed, left>>

Signal(g) ==
    /\ job[g].state = "signal" /\ signals < SignalRoom
    /\ signals' = signals + 1
    /\ Set(g, NoJob)
    /\ UNCHANGED <<main, wanted, upd, timer, checking, challenges, proxyVars, disk, missed, left>>

(***************************************************************************)
(* The main loop and the proxy                                             *)
(***************************************************************************)

Stale == {d \in Domains : cache[d] /= None /\ disk[d] /= None /\ cache[d] /= disk[d]}

(* Domains whose file the proxy has not read, or not in a reload under way.*)
Unread ==
    {d \in Domains : \/ cache[d] /= disk[d]
                     \/ loaded /= None /\ loaded[d] /= disk[d]}

ReceiveSignal ==
    /\ main = "loop" /\ signals > 0
    /\ main' = "reload" /\ signals' = signals - 1
    /\ UNCHANGED <<wanted, upd, job, timer, checking, challenges, proxyVars, disk, missed, left>>

(* handleCertsReload: all files are read, then the map is replaced.  The   *)
(* handler finishes even when haloyd is gone.                              *)
ReadCertificates ==
    /\ main = "reload" /\ loaded = None
    /\ main' = "reloading"
    /\ loaded' = disk
    /\ UNCHANGED <<wanted, upd, job, timer, checking, challenges, signals, cache, fetched, disk, missed, left>>

SwapCertificates ==
    /\ loaded /= None
    /\ cache' = loaded /\ loaded' = None
    /\ missed' = {d \in missed : loaded[d] /= disk[d]}
    /\ main' = IF main = "reloading" THEN "loop" ELSE main
    /\ UNCHANGED <<wanted, upd, job, timer, checking, challenges, signals, fetched, disk, left>>

(* The request fails: it is logged, and not repeated.                      *)
LoseReload ==
    /\ main = "reload" /\ Incident
    /\ missed' = missed \cup Unread
    /\ main' = "loop"
    /\ UNCHANGED <<wanted, upd, job, timer, checking, challenges, signals, proxyVars, disk>>

(* GetCertificate for a host h of a route e that is not in the cache: its  *)
(* own file is read, or else that of its canonical domain.                 *)
FetchCertificate(h, e) ==
    /\ fetched = NoFetch /\ h \in Names(e) /\ cache[h] = None /\ Incident
    /\ LET d == IF disk[h] /= None THEN h ELSE e.canonical
       IN /\ cache[d] = None /\ disk[d] /= None
          /\ fetched' = [domain |-> d, cert |-> disk[d]]
    /\ UNCHANGED <<haloydVars, cache, loaded, disk, missed>>

StoreCertificate ==
    /\ fetched /= NoFetch
    /\ cache' = [cache EXCEPT ![fetched.domain] = fetched.cert]
    /\ missed' = missed \cup {d \in {fetched.domain} : fetched.cert /= disk[d]}
    /\ fetched' = NoFetch
    /\ UNCHANGED <<haloydVars, loaded, disk, left>>

RestartProxy ==
    /\ Incident
    /\ cache' = disk /\ loaded' = None /\ fetched' = NoFetch /\ missed' = {}
    /\ main' = IF main = "reloading" THEN "loop" ELSE main
    /\ UNCHANGED <<wanted, upd, job, timer, checking, challenges, signals, disk>>

(* haloyd stops or dies, and starts again.                                 *)
RestartHaloyd ==
    /\ Incident
    /\ main' = "boot" /\ upd' = Idle /\ timer' = None /\ checking' = None
    /\ challenges' = {} /\ signals' = 0
    /\ job' = [g \in Goroutines |-> NoJob]
    /\ missed' = missed \cup Unread
    /\ UNCHANGED <<wanted, cache, loaded, fetched, disk>>

(* Time passes over a domain's certificates, every copy alike.             *)
Older(c, life) ==
    IF c = None \/ c.life = "expired" THEN c ELSE [c EXCEPT !.life = life]

Age(d, life) ==
    /\ disk[d] /= None /\ disk[d].life /= "expired" /\ Incident
    /\ disk' = [disk EXCEPT ![d] = Older(@, life)]
    /\ cache' = [cache EXCEPT ![d] = Older(@, life)]
    /\ loaded' = IF loaded = None THEN None ELSE [loaded EXCEPT ![d] = Older(@, life)]
    /\ fetched' = IF fetched.domain = d THEN [fetched EXCEPT !.cert = Older(@, life)] ELSE fetched
    /\ UNCHANGED <<haloydVars, missed>>

(***************************************************************************)
(* The specification                                                       *)
(***************************************************************************)

Init ==
    /\ main = "boot" /\ wanted = {} /\ upd = Idle
    /\ job = [g \in Goroutines |-> NoJob]
    /\ timer = None /\ checking = None /\ challenges = {} /\ signals = 0
    /\ disk = [d \in Domains |-> None] /\ cache = disk
    /\ loaded = None /\ fetched = NoFetch
    /\ missed = {} /\ left = Budget

Next ==
    \/ \E table \in Tables : InitialUpdate(table)
    \/ \E table \in Tables : \E e \in table : AppUpdate(table, {e})
    \/ MaintenanceUpdate
    \/ \E table \in Tables : ResyncUpdate(table)
    \/ EndSync
    \/ \E d \in Domains : ReadForCleanup(d)
    \/ RemoveFile
    \/ EndCleanup
    \/ \E s \in Slots : TimerFires(s)
    \/ \E s \in Slots : RunRefresh(s)
    \/ \E g \in Goroutines : LockCheck(g)
    \/ \E g \in Goroutines : \E e \in job[g].todo : CheckDomain(g, e)
    \/ \E g \in Goroutines : FailValidation(g)
    \/ \E g \in Goroutines : Order(g)
    \/ \E g \in Goroutines : Obtain(g)
    \/ \E g \in Goroutines : FailToObtain(g)
    \/ \E g \in Goroutines : EndCheck(g)
    \/ \E g \in Goroutines : Signal(g)
    \/ ReceiveSignal
    \/ ReadCertificates
    \/ SwapCertificates
    \/ LoseReload
    \/ \E h \in Domains, e \in UNION Tables : FetchCertificate(h, e)
    \/ StoreCertificate
    \/ RestartProxy
    \/ RestartHaloyd
    \/ \E d \in Domains, life \in {"due", "expired"} : Age(d, life)

Spec == Init /\ [][Next]_vars

(* Goroutines run, mutexes are handed over (Go's mutexes do not starve a   *)
(* waiter), the CA answers, and maintenance comes round.  Nothing is fair  *)
(* about failures, restarts, handshakes and deployments.                   *)
RefreshStep(g) ==
    \/ g \in Slots /\ (TimerFires(g) \/ RunRefresh(g))
    \/ LockCheck(g)
    \/ \E e \in job[g].todo : CheckDomain(g, e)
    \/ Order(g) \/ Obtain(g) \/ EndCheck(g) \/ Signal(g)

UpdateStep ==
    \/ \E table \in Tables : InitialUpdate(table)
    \/ EndSync \/ RemoveFile \/ EndCleanup
    \/ \E d \in Domains : ReadForCleanup(d)

FairSpec ==
    /\ Spec
    /\ \A g \in Goroutines : SF_vars(RefreshStep(g))
    /\ WF_vars(UpdateStep) /\ WF_vars(MaintenanceUpdate)
    /\ WF_vars(ReceiveSignal \/ ReadCertificates \/ SwapCertificates)

(***************************************************************************)
(* Properties                                                              *)
(***************************************************************************)

(* The proxy serves a replaced certificate only while somebody is about to *)
(* make it reload: a refresh that will signal, a queued signal, the main   *)
(* loop's request.  What the history names is the exception: a reload that *)
(* failed or died with haloyd, and a handshake that put back what it had   *)
(* read earlier.  (RefreshSync and Refresh signal after partial failures.) *)
StaleHasReload ==
    \A d \in Stale \ missed :
        \/ signals > 0 \/ main = "reload"
        \/ main = "reloading" /\ loaded[d] = disk[d]
        \/ \E g \in Goroutines : job[g].renewed

(* No step takes the certificate file of a domain the deployments want:    *)
(* not a failed renewal, not the cleanup, which runs beside debounced      *)
(* refreshes and with the list of its own update.                          *)
WantedFilesStay ==
    [][\A d \in Canonicals(wanted) : disk[d] /= None => disk'[d] /= None]_vars

(* An update always returns and releases Updater.mu, the initial one too,  *)
(* which sends its signal before the loop that receives it has started.    *)
UpdatesReturn == upd /= Idle ~> upd = Idle

(* Once deployments stop changing every wanted domain gets a certificate   *)
(* for exactly its names that is not due, in spite of failed attempts and  *)
(* of superseded refreshes that overtake newer ones.                       *)
CertificatesConverge == <>[](\A e \in wanted : ~NeedsCertificate(e))

=============================================================================
