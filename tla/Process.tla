------------------------------ MODULE Process ------------------------------
(***************************************************************************)
(* The process of a service: how it starts, serves and stops. The five     *)
(* services share the shape - read the configuration, open the pool, start *)
(* background workers, wait for the keys of the user service, run two      *)
(* listeners - and differ in the order, and in what a signal, a listener   *)
(* that stops and an error do. A profile says how.                         *)
(*                                                                         *)
(* pool.Close waits until every connection is back and refuses the next    *)
(* ones. A worker is busy while it works with a connection or the Kafka    *)
(* client; it returns once its context has ended. The main goroutine runs  *)
(* its deferred calls last to first.                                       *)
(***************************************************************************)
EXTENDS Integers, FiniteSets

CONSTANTS Requests,    \* requests that may arrive: a number and the listener
          Sagas,       \* what the order service recovers: creations, assignments, cancellations
          MaxAttempts  \* bound on attempts to fetch the keys

VARIABLES
  svc,       \* the profile of this process: one of Services
  pc,        \* where its main goroutine is
  pending,   \* sagas that an earlier process left unresolved
  creditURL, \* whether Credit is configured
  signalled, \* the context of the process has ended
  stopping,  \* the context of the workers has ended
  attempts,  \* attempts to fetch the keys
  pool, publisher,
  worker,    \* the state of every background worker
  counted,   \* the workers the wait group counts
  listener,  \* the state of both listeners
  drained,   \* listeners that Shutdown has dealt with
  late,      \* the deadline of the shutdown has passed
  request,   \* the state of every request
  code       \* exit code

vars == <<svc, pc, pending, creditURL, signalled, stopping, attempts, pool, publisher,
          worker, counted, listener, drained, late, request, code>>
bootVars == <<svc, pending, creditURL, attempts>>
workVars == <<worker, counted>>
serveVars == <<listener, drained, late, request>>
endVars == <<pool, publisher, code>>

Public == 1
Internal == 2
Listeners == {Public, Internal}
Through(r) == r[2]
Workers == Sagas \cup {"relay", "consumer", "cleanup", "bot"}

-----------------------------------------------------------------------------
(* The services. "fails" is what the end of a listener does: "return" at    *)
(* once, "shutdown" of both, "stop" of the whole process or "close".        *)

Profile(name, workers, publishes, recovers, fails) ==
  [name |-> name, workers |-> workers, publishes |-> publishes, recovers |-> recovers, fails |-> fails]

\* The relay stands for the timers, the receipts and the cleaners as well.
OrderService == Profile("order", {"relay"}, TRUE, TRUE, "return")
CreditService == Profile("credit", {"consumer"}, FALSE, FALSE, "shutdown")
UserService == Profile("user", {"relay"}, TRUE, FALSE, "shutdown")
\* The bot starts the consumer when it is ready.
CommunicationService == Profile("communication", {"cleanup", "bot"}, FALSE, FALSE, "stop")
SupplierService == Profile("supplier", {}, FALSE, FALSE, "close")

Services == {OrderService, CreditService, UserService, CommunicationService, SupplierService}

\* The base context of their requests is the one a signal ends.
CancelsRequests(s) == s.name \in {"order", "credit"}
\* A fatal error exits at once, deferred calls or not; a panic runs them.
FatalExits(s) == s.name \in {"user", "communication"}
\* Nothing handles a signal.
DiesOfSignal(s) == s.name = "supplier"
\* User makes its keys itself.
FetchesKeys(s) == s.name # "user"
\* A signal ends the start-up as well.
EndsStartup(s) == s.name # "user"
\* The keys come before the workers, not after them.
KeysFirst(s) == s.name \in {"communication", "supplier"}

-----------------------------------------------------------------------------
(* Starting *)

Exit(c) == pc' = "exited" /\ code' = c
\* An error while starting: it returns through the deferred calls, or exits.
Abort ==
  IF FatalExits(svc) THEN Exit(1) /\ UNCHANGED <<stopping, pool, publisher>>
  ELSE pc' = "joining" /\ stopping' = TRUE /\ code' = 1 /\ UNCHANGED <<pool, publisher>>

ProcessInit ==
  /\ svc \in Services
  /\ pending \in (IF svc.recovers THEN SUBSET Sagas ELSE {{}})
  /\ creditURL = TRUE
  /\ pc = "config" /\ signalled = FALSE /\ stopping = FALSE /\ attempts = 0
  /\ pool = "none" /\ publisher = "none"
  /\ worker = [w \in Workers |-> "off"] /\ counted = {}
  /\ listener = [l \in Listeners |-> "off"] /\ drained = {} /\ late = FALSE
  /\ request = [r \in Requests |-> "none"]
  /\ code = 0

\* The one setting that decides anything below is the URL of Credit, which the
\* order service may go without.
LoadConfig ==
  /\ pc = "config"
  /\ \/ /\ pc' = "start" /\ creditURL' \in (IF svc.recovers THEN BOOLEAN ELSE {TRUE})
        /\ UNCHANGED <<code, stopping, pool, publisher>>
     \/ Abort /\ UNCHANGED creditURL
  /\ UNCHANGED <<svc, pending, attempts, signalled, workVars, serveVars>>

\* The pool, the ping and the migrations, within the start-up context.
Connect ==
  /\ pc = "start"
  /\ \/ /\ ~(signalled /\ EndsStartup(svc))
        /\ pool' = "open" /\ pc' = "prepare" /\ UNCHANGED <<code, stopping, publisher>>
     \/ Abort
  /\ UNCHANGED <<bootVars, signalled, workVars, serveVars>>

\* Mutant: only what creation left is looked for.
RecoverableCreations == "creations" \notin pending \/ creditURL
\* Unresolved sagas need their recovery: without Credit the process gives up.
Recoverable == pending = {} \/ creditURL
Recovery == IF svc.recovers /\ creditURL THEN Sagas ELSE {}

\* What is built before the workers start; the publisher comes last.
Prepare ==
  /\ pc = "prepare"
  /\ \/ /\ Recoverable
        /\ pc' = IF KeysFirst(svc) THEN "keys" ELSE "workers"
        /\ publisher' = IF svc.publishes THEN "open" ELSE "none"
        /\ UNCHANGED <<code, stopping, pool>>
     \/ Abort
  /\ UNCHANGED <<bootVars, signalled, workVars, serveVars>>

StartWorkers ==
  /\ pc = "workers"
  /\ LET started == svc.workers \cup Recovery
     IN /\ worker' = [w \in Workers |-> IF w \in started THEN "idle" ELSE "off"]
        /\ counted' = started
  /\ pc' = IF FetchesKeys(svc) /\ ~KeysFirst(svc) THEN "keys" ELSE "serve"
  /\ UNCHANGED <<bootVars, signalled, stopping, serveVars, endVars>>

\* newAuthenticator: attempts until one succeeds, the time is up or the context
\* ends.
FetchKeys ==
  /\ pc = "keys"
  /\ \/ /\ ~signalled /\ pc' = IF KeysFirst(svc) THEN "workers" ELSE "serve"
        /\ UNCHANGED <<code, stopping, pool, publisher, attempts>>
     \/ /\ ~signalled /\ attempts < MaxAttempts /\ attempts' = attempts + 1
        /\ UNCHANGED <<pc, code, stopping, pool, publisher>>
     \/ Abort /\ UNCHANGED attempts
  /\ UNCHANGED <<svc, pending, creditURL, signalled, workVars, serveVars>>

Listen ==
  /\ pc = "serve"
  /\ listener' = [l \in Listeners |-> "open"]
  /\ pc' = "serving"
  /\ UNCHANGED <<bootVars, signalled, stopping, workVars, drained, late, request, endVars>>

-----------------------------------------------------------------------------
(* Running *)

Alive == pc # "exited"

\* The contexts of the workers end with that of the process.
Signal ==
  /\ Alive /\ ~signalled
  /\ signalled' = TRUE /\ stopping' = TRUE
  /\ IF DiesOfSignal(svc) THEN Exit(2) ELSE UNCHANGED <<pc, code>>
  /\ UNCHANGED <<bootVars, pool, publisher, workVars, serveVars>>

WorkerBegins(w) ==
  /\ Alive /\ worker[w] = "idle" /\ ~stopping
  /\ worker' = [worker EXCEPT ![w] = "busy"]
  /\ UNCHANGED <<pc, bootVars, signalled, stopping, counted, serveVars, endVars>>
WorkerEnds(w) ==
  /\ Alive /\ worker[w] = "busy"
  /\ worker' = [worker EXCEPT ![w] = "idle"]
  /\ UNCHANGED <<pc, bootVars, signalled, stopping, counted, serveVars, endVars>>
WorkerReturns(w) ==
  /\ Alive /\ worker[w] = "idle" /\ stopping
  /\ worker' = [worker EXCEPT ![w] = "done"]
  /\ UNCHANGED <<pc, bootVars, signalled, stopping, counted, serveVars, endVars>>

\* ready: the bot was confirmed, although the context may have ended since; the
\* consumer is counted while the bot still is.
Counts(w) == counted \cup {w}
BotReady ==
  /\ Alive /\ worker["bot"] = "busy" /\ worker["consumer"] = "off" /\ "bot" \in svc.workers
  /\ worker' = [worker EXCEPT !["consumer"] = "idle"]
  /\ counted' = Counts("consumer")
  /\ UNCHANGED <<pc, bootVars, signalled, stopping, serveVars, endVars>>

ListenerStops(l) ==
  /\ Alive /\ listener[l] = "open"
  /\ listener' = [listener EXCEPT ![l] = "failed"]
  /\ IF svc.fails = "stop" THEN signalled' = TRUE /\ stopping' = TRUE
     ELSE UNCHANGED <<signalled, stopping>>
  /\ UNCHANGED <<pc, bootVars, workVars, drained, late, request, endVars>>

\* A request comes through its listener while that is open; a query holds a connection, and a
\* closed pool refuses it.
Accept(r) ==
  /\ Alive /\ request[r] = "none" /\ listener[Through(r)] = "open"
  /\ request' = [request EXCEPT ![r] = "running"]
  /\ UNCHANGED <<pc, bootVars, signalled, stopping, workVars, listener, drained, late, endVars>>
Query(r) ==
  /\ Alive /\ request[r] = "running"
  /\ request' = [request EXCEPT ![r] = IF pool = "open" THEN "querying" ELSE "refused"]
  /\ UNCHANGED <<pc, bootVars, signalled, stopping, workVars, listener, drained, late, endVars>>
Answer(r) ==
  /\ Alive /\ request[r] = "querying"
  /\ request' = [request EXCEPT ![r] = "answered"]
  /\ UNCHANGED <<pc, bootVars, signalled, stopping, workVars, listener, drained, late, endVars>>
\* Close of a server cuts its connections; communication never calls it.
Severed(l) ==
  \/ svc.fails = "close" /\ listener[l] = "closed"
  \/ svc.fails \in {"return", "shutdown"} /\ l \in drained
Cancel(r) ==
  /\ Alive /\ request[r] \in {"running", "querying"}
  /\ (CancelsRequests(svc) /\ signalled) \/ Severed(Through(r))
  /\ request' = [request EXCEPT ![r] = "cancelled"]
  /\ UNCHANGED <<pc, bootVars, signalled, stopping, workVars, listener, drained, late, endVars>>

-----------------------------------------------------------------------------
(* Stopping *)

InFlight(l) == {r \in Requests : Through(r) = l /\ request[r] \in {"running", "querying"}}
Failed == \E l \in Listeners : listener[l] = "failed"

\* serve of the order service: the first listener that stops ends it, and the
\* other one is left open.
ServeReturns ==
  /\ pc = "serving" /\ svc.fails = "return" /\ Failed
  /\ pc' = "joining" /\ stopping' = TRUE /\ code' = 1
  /\ UNCHANGED <<bootVars, signalled, workVars, serveVars, pool, publisher>>
\* serve of the supplier service: both are closed, and the panic runs on.
ServeCloses ==
  /\ pc = "serving" /\ svc.fails = "close" /\ Failed
  /\ listener' = [l \in Listeners |-> "closed"]
  /\ pc' = "joining" /\ stopping' = TRUE /\ code' = 1
  /\ UNCHANGED <<bootVars, signalled, workVars, drained, late, request, pool, publisher>>
\* serve of the credit and user services, and of the others after a signal.
BeginShutdown ==
  /\ pc = "serving" /\ (signalled \/ (svc.fails = "shutdown" /\ Failed))
  /\ pc' = "draining"
  /\ UNCHANGED <<bootVars, signalled, stopping, workVars, serveVars, endVars>>

\* Shutdown, one listener after the other, with one deadline for both: it
\* closes the listener and waits for the requests.
CloseListener(l) ==
  /\ pc = "draining" /\ listener[l] # "closed" /\ (l = Public \/ Public \in drained)
  /\ listener' = [listener EXCEPT ![l] = "closed"]
  /\ code' = IF listener[l] = "failed" /\ svc.fails # "stop" THEN 1 ELSE code
  /\ UNCHANGED <<pc, bootVars, signalled, stopping, workVars, drained, late, request, pool, publisher>>
DeadlinePasses ==
  /\ pc = "draining" /\ ~late
  /\ \E l \in Listeners \ drained : listener[l] = "closed" /\ InFlight(l) # {}
  /\ late' = TRUE
  /\ UNCHANGED <<pc, bootVars, signalled, stopping, workVars, listener, drained, request, endVars>>
Drained(l) ==
  /\ pc = "draining" /\ listener[l] = "closed" /\ l \notin drained
  /\ InFlight(l) = {} \/ late
  /\ drained' = drained \cup {l}
  /\ code' = IF InFlight(l) # {} /\ svc.fails # "stop" THEN 1 ELSE code
  /\ UNCHANGED <<pc, bootVars, signalled, stopping, workVars, listener, late, request, pool, publisher>>
\* Then the workers are told to stop; User exits at once if anything failed.
Stops ==
  /\ pc = "draining" /\ drained = Listeners
  /\ IF FatalExits(svc) /\ code = 1 THEN Exit(1) /\ UNCHANGED stopping
     ELSE pc' = "joining" /\ stopping' = TRUE /\ UNCHANGED code
  /\ UNCHANGED <<bootVars, signalled, workVars, serveVars, pool, publisher>>

\* The deferred calls: the workers, the publisher, the pool.
Join ==
  /\ pc = "joining" /\ \A w \in counted : worker[w] = "done"
  /\ pc' = "publisher"
  /\ UNCHANGED <<bootVars, signalled, stopping, workVars, serveVars, endVars>>
ClosePublisher ==
  /\ pc = "publisher"
  /\ publisher' = IF publisher = "open" THEN "closed" ELSE publisher
  /\ pc' = "pool"
  /\ UNCHANGED <<bootVars, signalled, stopping, workVars, serveVars, pool, code>>
BeginPoolClose ==
  /\ pc = "pool" /\ pool = "open"
  /\ pool' = "closing"
  /\ UNCHANGED <<pc, bootVars, signalled, stopping, workVars, serveVars, publisher, code>>
Connections == {w \in Workers : worker[w] = "busy"} \cup {r \in Requests : request[r] = "querying"}
End ==
  /\ pc = "pool" /\ (pool = "none" \/ (pool = "closing" /\ Connections = {}))
  /\ pool' = IF pool = "none" THEN pool ELSE "closed"
  /\ pc' = "exited"
  /\ UNCHANGED <<bootVars, signalled, stopping, workVars, serveVars, publisher, code>>

-----------------------------------------------------------------------------
(* The specification *)

Main ==
  \/ LoadConfig \/ Connect \/ Prepare \/ StartWorkers \/ FetchKeys \/ Listen
  \/ ServeReturns \/ ServeCloses \/ BeginShutdown \/ (\E l \in Listeners : CloseListener(l) \/ Drained(l)) \/ Stops
  \/ Join \/ ClosePublisher \/ BeginPoolClose \/ End
Work(w) == WorkerEnds(w) \/ WorkerReturns(w)
Handle(r) == Query(r) \/ Answer(r)

ProcessNext ==
  \/ Main \/ Signal \/ BotReady \/ DeadlinePasses
  \/ \E w \in Workers : WorkerBegins(w) \/ Work(w)
  \/ \E l \in Listeners : ListenerStops(l)
  \/ \E r \in Requests : Accept(r) \/ Handle(r) \/ Cancel(r)

\* The goroutines are scheduled, and neither a query nor the work of a worker
\* lasts for ever.
ProcessFairness ==
  /\ WF_vars(Main)
  /\ WF_vars(\E w \in Workers : Work(w))
  /\ \A r \in Requests : WF_vars(Handle(r))

ProcessSpec == ProcessInit /\ [][ProcessNext]_vars /\ ProcessFairness

-----------------------------------------------------------------------------
(* Properties *)

\* The pool and the publisher outlive the workers that use them, also the
\* consumer that the bot starts while the process stops: when they are closed,
\* every worker has returned.
ClosedAfterWorkers ==
  publisher = "closed" \/ pool \in {"closing", "closed"} => \A w \in Workers : worker[w] \in {"off", "done"}

\* A request that came through finds the pool open, unless it outlasted the
\* deadline of the shutdown, or a listener of the order or the supplier service
\* stopped, which ends them with an error.
RequestsServed ==
  (\E r \in Requests : request[r] = "refused") => late \/ (code # 0 /\ svc.fails \in {"return", "close"})

\* A process that ended without an error after it served has nothing under way.
SuccessIsClean ==
  pc = "exited" /\ code = 0 => Connections = {} /\ \A w \in counted : worker[w] = "done"

\* "Outstanding financial intent must remain recoverable" (cmd/server): a process
\* that serves runs the recovery of every saga an earlier one left unresolved.
PendingIsRecovered ==
  pc = "serving" /\ ~stopping => \A k \in pending : worker[k] \in {"idle", "busy"}

\* A process that is starting, or that serves and has been told to stop or has
\* lost a listener, gets there: it serves undisturbed, or has ended.
Underway == pc # "exited" /\ (pc # "serving" \/ signalled \/ Failed)
ProcessSettles == Underway ~> ~Underway
=============================================================================
