----------------------------- MODULE TimerScan -----------------------------
(***************************************************************************)
(* The scanner the expiry timer and the delivery timer of the order        *)
(* service share: it discovers overdue orders page by page, attempts each  *)
(* on one of a few workers, and paces the orders that keep failing.        *)
(*                                                                         *)
(* What an attempt does to an order is OrderLifecycle's Expire and         *)
(* Timeout. Here it only matters whether it closes the order, finds        *)
(* nothing to do (a delivery a pending proof protects stays overdue), or   *)
(* fails. Time passes in seconds, kept as what is left of every wait.      *)
(***************************************************************************)
EXTENDS Integers, Sequences, FiniteSets, SequencesExt

CONSTANTS Orders,    \* by id: positive numbers, the order of the pages
          Broken,    \* orders whose attempt always fails
          Protected, \* orders an attempt leaves as they are
          BatchSize, \* lifecycleTimerBatchSize
          Workers,   \* attempts at a time
          MaxDelay,  \* the longest backoff, in seconds
          MaxFaults  \* bound on transient failures, departures and crashes

VARIABLES
  status,  \* of every order: early, due, or closed
  retries, \* the failures this process remembers
  after,   \* the cursor: the page begins behind this id
  scan,    \* the scan under way
  sleep,   \* seconds until Run scans again
  delay,   \* what Run would sleep after another failed discovery
  faults   \* faults so far

vars == <<status, retries, after, scan, sleep, delay, faults>>

MinOf(a, b) == IF a < b THEN a ELSE b
MaxOf(a, b) == IF a > b THEN a ELSE b

Retry(wait, backoff, seen) == [wait |-> wait, delay |-> backoff, seen |-> seen]
NoRetries == [o \in {} |-> Retry(0, 0, FALSE)]

\* ids is the page, next how far its orders were handed out, busy the orders
\* on a worker, ok and failed the results.
Scan(pc, ids, next, busy, ok, failed) ==
  [pc |-> pc, ids |-> ids, next |-> next, busy |-> busy, ok |-> ok, failed |-> failed]
Idle(pc) == Scan(pc, <<>>, 1, {}, {}, {})

TimerScanInit ==
  /\ status \in [Orders -> {"early", "due"}]
  /\ retries = NoRetries
  /\ after = 0
  /\ scan = Idle("asleep")
  /\ sleep = 0
  /\ delay = 1
  /\ faults = 0

Fault == faults < MaxFaults /\ faults' = faults + 1

-----------------------------------------------------------------------------
(* Discovery.                                                              *)

\* The first page of overdue orders behind the cursor.
Due == {o \in Orders : status[o] = "due" /\ o > after}
DuePage ==
  SetToSortSeq({o \in Due : Cardinality({p \in Due : p < o}) < BatchSize}, <)

Discover ==
  /\ scan.pc = "asleep" /\ sleep = 0
  /\ scan' = Scan("scanning", DuePage, 1, {}, {}, {})
  /\ UNCHANGED <<status, retries, after, sleep, delay, faults>>

\* A failed discovery backs off the whole scan; the cursor stays.
DiscoverFails ==
  /\ scan.pc = "asleep" /\ sleep = 0
  /\ Fault
  /\ sleep' = delay /\ delay' = MinOf(MaxDelay, 2 * delay)
  /\ UNCHANGED <<status, retries, after, scan>>

-----------------------------------------------------------------------------
(* The attempts on one page.                                               *)

Candidate == scan.ids[scan.next]
Undispatched == scan.pc = "scanning" /\ scan.next <= Len(scan.ids)
MarkSeen == [o \in DOMAIN retries |->
              IF o = Candidate THEN [retries[o] EXCEPT !.seen = TRUE] ELSE retries[o]]
Paced == Candidate \in DOMAIN retries /\ retries[Candidate].wait > 0

\* A worker takes the next order; one whose backoff runs is passed over.
Dispatch ==
  /\ Undispatched
  /\ retries' = MarkSeen
  /\ \/ Paced /\ scan' = [scan EXCEPT !.next = @ + 1]
     \/ /\ ~Paced /\ Cardinality(scan.busy) < Workers
        /\ scan' = [scan EXCEPT !.next = @ + 1, !.busy = @ \cup {Candidate}]
  /\ UNCHANGED <<status, after, sleep, delay, faults>>

\* The attempt rechecks the order under its lock.
Refused(o) == status[o] = "due" /\ o \in Broken
Closes(o) == status[o] = "due" /\ o \notin Protected
Attempt(o) ==
  /\ o \in scan.busy /\ ~Refused(o)
  /\ status' = IF Closes(o) THEN [status EXCEPT ![o] = "closed"] ELSE status
  /\ scan' = [scan EXCEPT !.busy = @ \ {o}, !.ok = @ \cup {o}]
  /\ UNCHANGED <<retries, after, sleep, delay, faults>>

AttemptFails(o) ==
  /\ o \in scan.busy
  /\ IF Refused(o) THEN UNCHANGED faults ELSE Fault
  /\ scan' = [scan EXCEPT !.busy = @ \ {o}, !.failed = @ \cup {o}]
  /\ UNCHANGED <<status, retries, after, sleep, delay>>

-----------------------------------------------------------------------------
(* The end of the page.                                                    *)

\* A failure doubles the backoff, up to a bound.
Backoff(o) ==
  IF o \in DOMAIN retries THEN MinOf(MaxDelay, MaxOf(1, 2 * retries[o].delay)) ELSE 1
Recorded ==
  [o \in (DOMAIN retries \ scan.ok) \cup scan.failed |->
     IF o \in scan.failed THEN Retry(Backoff(o), Backoff(o), TRUE) ELSE retries[o]]

\* Mutant: only the orders attempted on this page count as met.
MutForget(r) == [o \in DOMAIN r \cap scan.failed |-> [r[o] EXCEPT !.seen = FALSE]]
\* The last page of a sweep drops the failures the sweep did not meet.
Forget(r) == [o \in {p \in DOMAIN r : r[p].seen} |-> [r[o] EXCEPT !.seen = FALSE]]

FullPage == Len(scan.ids) = BatchSize
Collect ==
  /\ scan.pc = "scanning" /\ ~Undispatched /\ scan.busy = {}
  /\ IF FullPage
       THEN after' = Last(scan.ids) /\ retries' = Recorded
       ELSE after' = 0 /\ retries' = Forget(Recorded)
  /\ scan' = Idle("asleep")
  /\ sleep' = 1 /\ delay' = MinOf(MaxDelay, 2)
  /\ UNCHANGED <<status, faults>>

-----------------------------------------------------------------------------
(* Shutdown, and what happens around the scanner.                          *)

\* The context ends: no order is handed out any more, and the workers are
\* waited for before Run returns. Their results are dropped.
Cancelled ==
  /\ scan.pc \in {"asleep", "scanning"}
  /\ Fault
  /\ scan' = [scan EXCEPT !.pc = "stopping"]
  /\ UNCHANGED <<status, retries, after, sleep, delay>>

Stop ==
  /\ scan.pc = "stopping" /\ scan.busy = {}
  /\ scan' = Idle("stopped")
  /\ UNCHANGED <<status, retries, after, sleep, delay, faults>>

\* A new process starts from the persisted overdue orders alone.
Start ==
  /\ scan.pc = "stopped"
  /\ retries' = NoRetries /\ after' = 0
  /\ scan' = Idle("asleep") /\ sleep' = 0 /\ delay' = 1
  /\ UNCHANGED <<status, faults>>

Crash ==
  /\ scan.pc # "stopped"
  /\ Fault
  /\ scan' = Idle("stopped")
  /\ UNCHANGED <<status, retries, after, sleep, delay>>

BecomeDue(o) ==
  /\ status[o] = "early"
  /\ status' = [status EXCEPT ![o] = "due"]
  /\ UNCHANGED <<retries, after, scan, sleep, delay, faults>>

\* Another instance, a cancellation or an assignment: an overdue order that
\* leaves its status does not come back to it.
CloseElsewhere(o) ==
  /\ status[o] \in {"early", "due"}
  /\ Fault
  /\ status' = [status EXCEPT ![o] = "closed"]
  /\ UNCHANGED <<retries, after, scan, sleep, delay>>

Waiting == sleep > 0 \/ \E o \in DOMAIN retries : retries[o].wait > 0
Tick ==
  /\ Waiting
  /\ sleep' = MaxOf(0, sleep - 1)
  /\ retries' = [o \in DOMAIN retries |-> [retries[o] EXCEPT !.wait = MaxOf(0, @ - 1)]]
  /\ UNCHANGED <<status, after, scan, delay, faults>>

TimerScanNext ==
  \/ Discover \/ DiscoverFails \/ Dispatch \/ Collect
  \/ Cancelled \/ Stop \/ Start \/ Crash \/ Tick
  \/ \E o \in Orders :
       Attempt(o) \/ AttemptFails(o) \/ BecomeDue(o) \/ CloseElsewhere(o)

\* A running process goes on, a stopped one is started again, and time passes.
RunStep == Discover \/ Dispatch \/ Collect \/ Stop \/ Start
AttemptEnds == \E o \in Orders : Attempt(o) \/ (Refused(o) /\ AttemptFails(o))
TimerScanFairness == WF_vars(RunStep) /\ WF_vars(AttemptEnds) /\ WF_vars(Tick)

TimerScanSpec == TimerScanInit /\ [][TimerScanNext]_vars /\ TimerScanFairness

-----------------------------------------------------------------------------
(* Properties.                                                             *)

\* The shape of the scanner: a page and its workers, and a backoff per order.
TimerScanTypeOK ==
  /\ status \in [Orders -> {"early", "due", "closed"}]
  /\ DOMAIN retries \subseteq Orders
  /\ \A o \in DOMAIN retries : retries[o] \in
       [wait: 0..MaxDelay, delay: 1..MaxDelay, seen: BOOLEAN]
  /\ after \in Orders \cup {0}
  /\ scan.pc \in {"asleep", "scanning", "stopping", "stopped"}
  /\ Range(scan.ids) \subseteq Orders /\ Len(scan.ids) <= BatchSize
  /\ scan.next \in 1..(BatchSize + 1)
  /\ scan.busy \subseteq Orders /\ scan.ok \subseteq Orders /\ scan.failed \subseteq Orders
  /\ sleep \in 0..MaxDelay /\ delay \in 1..MaxDelay
  /\ faults \in 0..MaxFaults

\* No backoff is lost while it is needed: within a process, an order that is
\* still overdue and has not been attempted with success is never forgotten by
\* the sweep, however the pages fall, so that its delay only grows.
PacingKept ==
  [][scan.pc # "stopped" =>
       \A o \in DOMAIN retries :
         status[o] = "due" /\ o \notin scan.ok =>
           /\ o \in DOMAIN retries'
           /\ retries'[o].delay >= retries[o].delay]_vars
=============================================================================
