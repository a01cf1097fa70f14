---------------------------- MODULE BatchRunner ----------------------------
(***************************************************************************)
(* The batch runner of VeriGym (experiments/runner.py): a controller that  *)
(* executes the items of a frozen plan, one ordinary child run per item,   *)
(* and can be killed at any instant and resumed from the files it left.    *)
(*                                                                         *)
(* The parent keeps its bookkeeping twice.  `mem` is the _ParentArtifacts  *)
(* object of the controller process; `disk` is the experiment directory.   *)
(* Every method of _ParentArtifacts changes `mem` under a lock and then    *)
(* replaces one file after another; each replacement is atomic, and the    *)
(* process can die between any two of them.  A thread that holds the lock  *)
(* is lock.holder and lock.dumps lists the files it still has to replace.  *)
(*                                                                         *)
(* A run directory under runs/ is a record of `children`; it outlives the  *)
(* process, as does `launches`, the number of model processes that really  *)
(* were started for an item.                                               *)
(*                                                                         *)
(* events.jsonl is reduced to what recovery reads from it: the number of   *)
(* plan_item_scheduled events, the running and the highest number of       *)
(* started-but-not-terminal items, and which attempts have a terminal      *)
(* event.  An event of any other type therefore leaves `mem` as it is and  *)
(* is a step here only where the rewritten file can be noticed: while an   *)
(* artifact_manifest.json still binds the old content.                     *)
(***************************************************************************)
EXTENDS Integers, FiniteSets, Sequences, FiniteSetsExt

CONSTANTS
  N,                   \* number of plan items; plan_index is 1 .. N here
  ModelBearing,        \* the items _model_bearing_reason answers for
  Reserved,            \* _maximum_model_api_calls of each item
  MaxProcesses,        \* execution.max_model_processes, or NoLimit
  MaxApiCalls,         \* execution.max_model_api_calls, or NoLimit
  MaxWorkers,          \* execution.max_workers
  Strict,              \* resume_model_process_policy is "never_rerun_after_authorization"
  ContinueOnInfra,     \* execution.continue_on_infrastructure_error
  MaxTotalInfra,       \* circuit breaker limits, or NoLimit
  MaxSameShared,
  SharedCategories,    \* _SHARED_INFRASTRUCTURE_CATEGORIES a child can fail with
  CheckpointInterval,  \* execution.summary_checkpoint_interval, or NoLimit
  ContractFailures,    \* bound: the ways in which resolving a contract may fail
  MaxSessions,         \* bound: how often a controller process is started
  MaxTampers           \* bound: how often a finished child is damaged from outside

Item == 1 .. N
NoLimit == -1
Main == 0              \* the controller's main thread; a worker is named by its item
Nobody == -1
Fault == {"none", "local"} \cup SharedCategories
Failure == {"infrastructure", "internal", "config"}   \* how an attempt may raise

(* What the configuration schema and _validate_execution_plan enforce.     *)
ASSUME ConfigAssumption ==
  /\ N \in Nat \ {0} /\ MaxWorkers \in Nat \ {0}
  /\ ModelBearing \subseteq Item
  /\ Reserved \in [Item -> Nat]
  /\ MaxProcesses \in Nat \cup {NoLimit}
  /\ MaxApiCalls \in Nat \cup {NoLimit}
  /\ MaxTotalInfra \in (Nat \ {0}) \cup {NoLimit}
  /\ MaxSameShared \in (Nat \ {0}) \cup {NoLimit}
  /\ CheckpointInterval \in (Nat \ {0}) \cup {NoLimit}
  /\ Strict \in BOOLEAN /\ ContinueOnInfra \in BOOLEAN
  /\ "none" \notin SharedCategories /\ "local" \notin SharedCategories
  /\ ContractFailures \subseteq Failure
  /\ Strict => MaxProcesses = Cardinality(ModelBearing)
  /\ (MaxTotalInfra # NoLimit \/ MaxSameShared # NoLimit) => MaxWorkers = 1
  /\ MaxSessions \in Nat /\ MaxTampers \in Nat

VARIABLES
  mem,       \* _ParentArtifacts of the live controller process
  disk,      \* the parent files of the experiment root
  lock,      \* the artifacts lock: its holder and the files it must still replace
  main,      \* the controller's main thread: its place and its local variables
  run,       \* one _run_item call per item of this execution
  children,  \* the directories under runs/
  launches,  \* model processes ever started for an item
  sealed,    \* artifact_manifest.json: "absent", "fresh" or "stale"
  root,      \* the experiment root: "absent", "partial" or "ready"
  sessions, tampers    \* the counters of the bounds

vars == <<mem, disk, lock, main, run, children, launches, sealed, root, sessions, tampers>>
-----------------------------------------------------------------------------
(* Records of run_index.jsonl and the counters of state.json               *)

Count(b) == IF b THEN 1 ELSE 0

RunIndexRecord(i, a, c, v, f) ==
  [item |-> i, attempt |-> a, child |-> c, validity |-> v, fault |-> f]

Infra(r) == r.fault # "none"
Corrupt(r) == r.validity \in {"partial", "corrupt", "incompatible"}
AttemptsOf(i, index) == {r.attempt : r \in {q \in index : q.item = i}}
LatestRecords(index) ==
  {r \in index : \A q \in index : q.item = r.item => q.attempt <= r.attempt}
LatestOf(i, index) == {r \in LatestRecords(index) : r.item = i}

(* sum(record.maximum_model_api_calls ...), counted call by call.          *)
ReservedCalls(ledger) == Cardinality(UNION {{a} \X (1 .. Reserved[a.item]) : a \in ledger})

\* Mutant: an attempt that ends in a rejected record stays active.
TerminalStateLeaky(s, r) ==
  [s EXCEPT !.active = IF @ > 0 /\ r.validity = "valid" THEN @ - 1 ELSE @,
            !.terminal = @ + 1, !.valid = @ + Count(r.validity = "valid"),
            !.infra = @ + Count(Infra(r)), !.corrupt = @ + Count(Corrupt(r))]

TerminalState(s, r) ==
  [s EXCEPT !.active    = IF @ > 0 THEN @ - 1 ELSE 0,
            !.terminal  = @ + 1,
            !.valid     = @ + Count(r.validity = "valid"),
            !.infra     = @ + Count(Infra(r)),
            !.corrupt   = @ + Count(Corrupt(r))]

\* Mutant: the replaced record keeps counting as valid.
ReplacedStateAddsOnly(s, old, new) ==
  [s EXCEPT !.valid   = @ + Count(new.validity = "valid"),
            !.infra   = @ - Count(Infra(old)) + Count(Infra(new)),
            !.corrupt = @ - Count(Corrupt(old)) + Count(Corrupt(new))]

ReplacedState(s, old, new) ==
  [s EXCEPT !.valid   = @ - Count(old.validity = "valid") + Count(new.validity = "valid"),
            !.infra   = @ - Count(Infra(old)) + Count(Infra(new)),
            !.corrupt = @ - Count(Corrupt(old)) + Count(Corrupt(new))]

StartedState(s) ==
  [s EXCEPT !.active   = @ + 1,
            !.observed = IF @ > s.active + 1 THEN @ ELSE s.active + 1]

StartedEvents(e) ==
  [e EXCEPT !.active   = @ + 1,
            !.observed = IF @ > e.active + 1 THEN @ ELSE e.active + 1]

TerminalEvents(e, r) ==
  [e EXCEPT !.active    = IF @ > 0 THEN @ - 1 ELSE 0,
            !.terminals = @ \cup {<<r.item, r.attempt>>}]

NewState == [status |-> "planned", scheduled |-> 0, terminal |-> 0, valid |-> 0, infra |-> 0,
             corrupt |-> 0, active |-> 0, observed |-> 0, authorized |-> 0]

(* The files _initialize leaves; also what `mem` is while nothing runs.    *)
NewParent == [manifest |-> "planned", state |-> NewState,
              events |-> [scheduled |-> 0, active |-> 0, observed |-> 0, terminals |-> {}],
              index |-> {}, ledger |-> {}, checkpoints |-> <<>>]

(* _recovered_state, then the counts resume takes from the ledger.         *)
RecoveredState(d) ==
  [status     |-> "running",
   scheduled  |-> d.events.scheduled,
   terminal   |-> Cardinality(d.index),
   valid      |-> Cardinality({r \in d.index : r.validity = "valid"}),
   infra      |-> Cardinality({r \in d.index : Infra(r)}),
   corrupt    |-> Cardinality({r \in d.index : Corrupt(r)}),
   active     |-> 0,
   observed   |-> IF d.state.observed > d.events.observed THEN d.state.observed
                                                          ELSE d.events.observed,
   authorized |-> Cardinality(d.ledger)]

(* The load-time checks of resume on the run index and on the ledger.      *)
Loadable(d) ==
  /\ \A q, r \in d.index : q.item = r.item /\ q.attempt = r.attempt => q = r
  /\ \A a, b \in d.ledger : a.item = b.item => a = b
  /\ MaxProcesses # NoLimit => Cardinality(d.ledger) <= MaxProcesses
  /\ MaxApiCalls # NoLimit => ReservedCalls(d.ledger) <= MaxApiCalls
  /\ \A a \in d.ledger : a.item \in ModelBearing

(* _circuit_breaker_reason is not None: the latest records, in plan order, *)
(* hold too many faults, or end in too many of one shared category.        *)
\* Mutant: the limit may be exceeded by one.
BreakerOpensLate(index) ==
  MaxTotalInfra # NoLimit /\ Cardinality({r \in LatestRecords(index) : Infra(r)}) > MaxTotalInfra

BreakerOpen(index) ==
  LET latest == LatestRecords(index)
      Trailing(c) == {r \in latest : \A q \in latest : q.item >= r.item => q.fault = c}
  IN  \/ /\ MaxTotalInfra # NoLimit
         /\ Cardinality({r \in latest : Infra(r)}) >= MaxTotalInfra
      \/ /\ MaxSameShared # NoLimit
         /\ \E c \in SharedCategories : Cardinality(Trailing(c)) >= MaxSameShared
-----------------------------------------------------------------------------
(* Threads and the artifacts lock                                          *)

NoRun == [pc |-> "none", serial |-> 0, exc |-> "none", internal |-> FALSE,
          rec |-> RunIndexRecord(0, 0, 0, "missing", "none")]

IdleMain == [pc |-> "idle", completed |-> {}, pending |-> {}, attempts |-> [i \in Item |-> 0],
             batch |-> {}, stop |-> FALSE, internals |-> 0, exc |-> "none", cursor |-> 1,
             focus |-> RunIndexRecord(0, 0, 0, "missing", "none")]

Free == [holder |-> Nobody, dumps |-> <<>>]

At(pc) == main.pc = pc /\ lock.holder # Main
RunAt(i, pc) == run[i].pc = pc /\ lock.holder # i

(* A locked method: `t` takes the lock, memory changes, files follow.      *)
Locked(t, parent, files) ==
  /\ lock = Free
  /\ mem' = parent
  /\ lock' = [holder |-> t, dumps |-> files]

Event(t, events) == Locked(t, [mem EXCEPT !.events = events], <<"events", "state">>)

Touched == IF sealed = "fresh" THEN "stale" ELSE sealed

(* One atomic_dump of the method that holds the lock.                      *)
Dump ==
  /\ lock.dumps # <<>>
  /\ disk' = [disk EXCEPT ![Head(lock.dumps)] = mem[Head(lock.dumps)]]
  /\ lock' = IF Tail(lock.dumps) = <<>> THEN Free ELSE [lock EXCEPT !.dumps = Tail(@)]
  /\ sealed' = Touched
  /\ UNCHANGED <<mem, main, run, children, launches, root, sessions, tampers>>

Init ==
  /\ mem = NewParent /\ disk = NewParent /\ lock = Free
  /\ main = IdleMain /\ run = [i \in Item |-> NoRun]
  /\ children = {} /\ launches = [i \in Item |-> 0]
  /\ sealed = "absent" /\ root = "absent"
  /\ sessions = 0 /\ tampers = 0
-----------------------------------------------------------------------------
(* Starting a controller process: run, prepare and resume                  *)

Bookkeeping == <<children, launches, tampers>>

(* run / prepare: _prepare_new_root accepts a missing or empty directory.  *)
Run ==
  /\ At("idle") /\ root = "absent" /\ sessions < MaxSessions
  /\ root' = "partial" /\ sessions' = sessions + 1
  /\ main' = [main EXCEPT !.pc = "initialize"]
  /\ UNCHANGED <<mem, disk, lock, run, sealed, Bookkeeping>>

(* _initialize.  Its files appear one by one; a root that misses some of   *)
(* them is "partial", and neither run nor resume accepts it again.         *)
Initialize ==
  /\ At("initialize")
  /\ root' = "ready" /\ mem' = NewParent /\ disk' = NewParent
  /\ main' = [main EXCEPT !.pc = "initialized"]
  /\ UNCHANGED <<lock, run, sealed, sessions, Bookkeeping>>

Execute ==
  /\ At("initialized")
  /\ main' = [main EXCEPT !.pc = "unseal"]
  /\ UNCHANGED <<mem, disk, lock, run, sealed, root, sessions, Bookkeeping>>

(* The process ends: everything it held in memory is gone.                 *)
Gone ==
  /\ mem' = NewParent /\ lock' = Free /\ main' = IdleMain
  /\ run' = [i \in Item |-> NoRun]
  /\ UNCHANGED <<disk, sealed, root, sessions, Bookkeeping>>

Prepare == At("initialized") /\ Gone

(* resume: the artifact index must match, the files must load, and the     *)
(* counters are recomputed from the events, the index and the ledger.      *)
Resume ==
  /\ At("idle") /\ root = "ready" /\ sessions < MaxSessions
  /\ sealed # "stale" /\ Loadable(disk)
  /\ sessions' = sessions + 1
  /\ mem' = [disk EXCEPT !.state = RecoveredState(disk)]
  /\ main' = [main EXCEPT !.pc = "reconcile"]
  /\ UNCHANGED <<disk, lock, run, sealed, root, Bookkeeping>>
-----------------------------------------------------------------------------
(* Resume: _reconcile_unindexed_children                                   *)

(* replay_run(verify=False) accepts the directory and it is the item's.    *)
Replays(c) == c.state \in {"valid", "unvetted"}
(* Its run_manifest.json can be loaded and names a plan item.              *)
Bound(c) == c.state # "opened"

\* Mutant: resume does not look for directories the index missed.
UnindexedIgnored(index) == {}

Unindexed(index) ==
  {c \in children : Bound(c) /\ ~ \E r \in index : r.item = c.item /\ r.child = c.serial}

(* Directories are visited in name order: a name starts with its time.     *)
FirstUnindexed(c) ==
  /\ c \in Unindexed(mem.index)
  /\ \A d \in Unindexed(mem.index) :
       c.item < d.item \/ (c.item = d.item /\ c.serial <= d.serial)

OrphanAttempt(c) ==
  LET used == AttemptsOf(c.item, mem.index)
  IN  IF c.attempt \notin used THEN c.attempt ELSE Max(used) + 1

OrphanRecord(c) ==
  RunIndexRecord(c.item, OrphanAttempt(c), c.serial,
                 IF Replays(c) THEN "valid" ELSE "partial",
                 IF Replays(c) THEN c.fault ELSE "none")

(* terminal, first half: the record enters the index.                      *)
IndexedParent(r) ==
  [mem EXCEPT !.index = @ \cup {r}, !.state = TerminalState(@, r)]

ReconcileChild(c) ==
  /\ At("reconcile") /\ FirstUnindexed(c)
  /\ Locked(Main, IndexedParent(OrphanRecord(c)), <<"index", "state">>)
  /\ main' = [main EXCEPT !.pc = "reconciled", !.focus = OrphanRecord(c)]
  /\ UNCHANGED <<disk, run, sealed, root, sessions, Bookkeeping>>

(* terminal, second half: the plan_item_terminal event.                    *)
ReconcileEvent ==
  /\ At("reconciled")
  /\ Event(Main, TerminalEvents(mem.events, main.focus))
  /\ main' = [main EXCEPT !.pc = "reconcile", !.focus = IdleMain.focus]
  /\ UNCHANGED <<disk, run, sealed, root, sessions, Bookkeeping>>

ReconcileDone ==
  /\ At("reconcile") /\ Unindexed(mem.index) = {}
  /\ main' = [main EXCEPT !.pc = "validate"]
  /\ UNCHANGED <<mem, disk, lock, run, sealed, root, sessions, Bookkeeping>>
-----------------------------------------------------------------------------
(* Resume: _validate_resume_children, first the plan items in order ...    *)

ChildOf(r) == {c \in children : c.item = r.item /\ c.serial = r.child}
Reusable(r) == r.validity = "valid" /\ \E c \in ChildOf(r) : Replays(c)

Visit(i) == At("validate") /\ main.cursor = i
Visited == [main EXCEPT !.cursor = @ + 1]

ReuseChild(i) ==
  /\ Visit(i)
  /\ \E r \in LatestOf(i, mem.index) : Reusable(r)
  /\ Event(Main, mem.events)
  /\ main' = [Visited EXCEPT !.completed = @ \cup {i}]
  /\ UNCHANGED <<disk, run, sealed, root, sessions, Bookkeeping>>

(* replace_record: a valid record whose child no longer validates.         *)
\* Mutant: the attempt is dropped from the index instead of reclassified.
ReplacedParentForgets(old, new) ==
  [mem EXCEPT !.index = @ \ {old}, !.state = ReplacedState(@, old, new)]

ReplacedParent(old, new) ==
  [mem EXCEPT !.index = (@ \ {old}) \cup {new}, !.state = ReplacedState(@, old, new)]

DowngradeChild(i) ==
  /\ Visit(i)
  /\ \E r \in LatestOf(i, mem.index) :
       /\ r.validity = "valid" /\ ~ Reusable(r)
       /\ Locked(Main,
                 ReplacedParent(r, [r EXCEPT !.validity = "corrupt", !.fault = "none"]),
                 <<"index", "state">>)
  /\ main' = Visited
  /\ UNCHANGED <<disk, run, sealed, root, sessions, Bookkeeping>>

SkipItem(i) ==
  /\ Visit(i)
  /\ \A r \in LatestOf(i, mem.index) : r.validity # "valid"
  /\ main' = Visited
  /\ UNCHANGED <<mem, disk, lock, run, sealed, root, sessions, Bookkeeping>>

ValidateDone ==
  /\ Visit(N + 1)
  /\ main' = [main EXCEPT !.pc = IF Strict THEN "settle" ELSE "unseal", !.cursor = 1]
  /\ UNCHANGED <<mem, disk, lock, run, sealed, root, sessions, Bookkeeping>>

(* ... then, under the strict policy, every authorization whose item has   *)
(* no reusable child: the item counts as an infrastructure failure and as  *)
(* completed.  The order of the ledger makes no difference.                *)
\* Mutant: only authorizations without any record are settled.
UnsettledWithoutRecord ==
  {a \in mem.ledger : a.item \notin main.completed /\ LatestOf(a.item, mem.index) = {}}

Unsettled == {a \in mem.ledger : a.item \notin main.completed}

SettleMissing(a) ==
  /\ At("settle") /\ a \in Unsettled
  /\ LatestOf(a.item, mem.index) = {}
  /\ LET r == RunIndexRecord(a.item, a.attempt, 0, "missing", "local")
     IN  /\ Locked(Main, IndexedParent(r), <<"index", "state">>)
         /\ main' = [main EXCEPT !.pc = "settled", !.focus = r,
                                 !.completed = @ \cup {a.item}]
  /\ UNCHANGED <<disk, run, sealed, root, sessions, Bookkeeping>>

SettleEvent ==
  /\ At("settled")
  /\ Event(Main, TerminalEvents(mem.events, main.focus))
  /\ main' = [main EXCEPT !.pc = "settle", !.focus = IdleMain.focus]
  /\ UNCHANGED <<disk, run, sealed, root, sessions, Bookkeeping>>

SettlePreserved(a) ==
  /\ At("settle") /\ a \in Unsettled
  /\ \E r \in LatestOf(a.item, mem.index) :
       /\ r.validity # "valid"
       /\ Locked(Main, ReplacedParent(r, [r EXCEPT !.fault = "local"]), <<"index", "state">>)
  /\ main' = [main EXCEPT !.completed = @ \cup {a.item}]
  /\ UNCHANGED <<disk, run, sealed, root, sessions, Bookkeeping>>

SettleDone ==
  /\ At("settle") /\ Unsettled = {}
  /\ main' = [main EXCEPT !.pc = "unseal"]
  /\ UNCHANGED <<mem, disk, lock, run, sealed, root, sessions, Bookkeeping>>
-----------------------------------------------------------------------------
(* _execute: the main thread                                               *)

SetStatus(status) ==
  Locked(Main,
         [mem EXCEPT !.manifest = status, !.state.status = status, !.state.active = 0],
         <<"manifest", "state">>)

RemoveArtifactManifest ==
  /\ At("unseal")
  /\ sealed' = "absent"
  /\ main' = [main EXCEPT !.pc = "activate"]
  /\ UNCHANGED <<mem, disk, lock, run, root, sessions, Bookkeeping>>

SetRunning ==
  /\ At("activate")
  /\ SetStatus("running")
  /\ main' = [main EXCEPT !.pc = "plan"]
  /\ UNCHANGED <<disk, run, sealed, root, sessions, Bookkeeping>>

(* The items still to run: none when a breaker is open, or when the run is *)
(* fail-fast and an accepted child already was an infrastructure failure.  *)
\* Mutant: a resumed fail-fast run forgets that it was stopped.
PendingForgetsFailFast == IF BreakerOpen(mem.index) THEN {} ELSE Item \ main.completed

Pending ==
  IF \/ BreakerOpen(mem.index)
     \/ /\ ~ ContinueOnInfra
        /\ \E r \in LatestRecords(mem.index) : Infra(r) /\ r.validity = "valid"
  THEN {} ELSE Item \ main.completed

\* Mutant: a rejected attempt is overwritten.
NextAttemptReused(i) == Max(AttemptsOf(i, mem.index) \cup {1})
\* Mutant: attempts are numbered by what was scheduled.
NextAttemptByScheduled(i) == mem.state.scheduled + 1

NextAttempt(i) == Max(AttemptsOf(i, mem.index) \cup {0}) + 1

(* The first MaxWorkers items of a set, in plan order.                     *)
Window(S) == {i \in S : Cardinality({j \in S : j <= i}) <= MaxWorkers}

Submit(S) == run' = [i \in Item |-> IF i \in S THEN [NoRun EXCEPT !.pc = "queued"] ELSE run[i]]

PlanWork ==
  /\ At("plan")
  /\ main' = [main EXCEPT !.pc = "wait",
                          !.pending = Pending \ Window(Pending),
                          !.attempts = [i \in Item |-> IF i \in Pending THEN NextAttempt(i) ELSE 0]]
  /\ Submit(Window(Pending))
  /\ UNCHANGED <<mem, disk, lock, sealed, root, sessions, Bookkeeping>>

Futures == {i \in Item : run[i].pc # "none"}
Finished == {i \in Futures : RunAt(i, "done")}

(* wait(futures, return_when=FIRST_COMPLETED)                              *)
Wait ==
  /\ At("wait") /\ Finished # {}
  /\ main' = [main EXCEPT !.pc = "collect", !.batch = Finished]
  /\ UNCHANGED <<mem, disk, lock, run, sealed, root, sessions, Bookkeeping>>

WaitDone ==
  /\ At("wait") /\ Futures = {}
  /\ main' = [main EXCEPT !.pc = "finish"]
  /\ UNCHANGED <<mem, disk, lock, run, sealed, root, sessions, Bookkeeping>>

(* A result is taken in plan order.  The sequential loop writes a summary  *)
(* checkpoint at its interval and consults the circuit breaker; the pool   *)
(* does neither.                                                           *)
Stops(i) ==
  \/ run[i].internal
  \/ Infra(run[i].rec) /\ ~ ContinueOnInfra
  \/ MaxWorkers = 1 /\ BreakerOpen(mem.index)

CheckpointDue ==
  /\ MaxWorkers = 1 /\ CheckpointInterval # NoLimit
  /\ mem.state.terminal % CheckpointInterval = 0

\* Mutant: a finished future is never taken out of the wait set.
CollectKeepsFuture(i) ==
  /\ At("collect") /\ i \in main.batch /\ \A j \in main.batch : i <= j
  /\ run[i].exc = "none"
  /\ main' = [main EXCEPT !.pc = "refill", !.batch = @ \ {i}, !.stop = @ \/ Stops(i)]
  /\ UNCHANGED <<mem, disk, lock, run, sealed, root, sessions, Bookkeeping>>

Collect(i) ==
  /\ At("collect") /\ i \in main.batch /\ \A j \in main.batch : i <= j
  /\ run[i].exc = "none"
  /\ main' = [main EXCEPT !.pc = IF CheckpointDue THEN "checkpoint" ELSE "refill",
                          !.batch = @ \ {i},
                          !.stop = @ \/ Stops(i),
                          !.internals = @ + Count(run[i].internal)]
  /\ run' = [run EXCEPT ![i] = NoRun]
  /\ UNCHANGED <<mem, disk, lock, sealed, root, sessions, Bookkeeping>>

(* checkpoint: the line is appended outside the lock.                      *)
WriteCheckpoint(next) ==
  /\ lock = Free
  /\ disk' = [disk EXCEPT !.checkpoints = Append(@, mem.state.terminal)]
  /\ mem' = [mem EXCEPT !.checkpoints = Append(@, mem.state.terminal)]
  /\ sealed' = Touched
  /\ main' = [main EXCEPT !.pc = next]
  /\ UNCHANGED <<lock, run, root, sessions, Bookkeeping>>

IntervalCheckpoint == At("checkpoint") /\ WriteCheckpoint("refill")

(* One new item per collected result while nothing stops the batch.        *)
Refill ==
  /\ At("refill")
  /\ ~ main.stop
  /\ LET next == {i \in main.pending : \A j \in main.pending : i <= j}
     IN  /\ Submit(next)
         /\ main' = [main EXCEPT !.pc = IF main.batch = {} THEN "wait" ELSE "collect",
                                 !.pending = @ \ next]
  /\ UNCHANGED <<mem, disk, lock, sealed, root, sessions, Bookkeeping>>

(* future.cancel() succeeds while no thread has taken the item.            *)
Cancelled == [i \in Item |-> IF run[i].pc = "queued" THEN NoRun ELSE run[i]]

StopScheduling ==
  /\ At("refill")
  /\ main.stop
  /\ IF main.batch = {}
     THEN /\ main' = [main EXCEPT !.pc = "wait"]
          /\ run' = Cancelled
     ELSE /\ main' = [main EXCEPT !.pc = "collect"]
          /\ UNCHANGED run
  /\ UNCHANGED <<mem, disk, lock, sealed, root, sessions, Bookkeeping>>

(* future.result() raises: cancel, let the executor wait, then handle it.  *)
CollectException(i) ==
  /\ At("collect") /\ i \in main.batch /\ \A j \in main.batch : i <= j
  /\ run[i].exc # "none"
  /\ main' = [main EXCEPT !.pc = "drain", !.exc = run[i].exc, !.batch = {}]
  /\ run' = [Cancelled EXCEPT ![i] = NoRun]
  /\ UNCHANGED <<mem, disk, lock, sealed, root, sessions, Bookkeeping>>

(* Ctrl-C reaches the main thread while it waits for the pool.             *)
Interrupt ==
  /\ At("wait") /\ MaxWorkers > 1 /\ Futures # {}
  /\ main' = [main EXCEPT !.pc = "drain", !.exc = "interrupt"]
  /\ run' = Cancelled
  /\ UNCHANGED <<mem, disk, lock, sealed, root, sessions, Bookkeeping>>

HandleException ==
  /\ At("drain") /\ \A i \in Futures : RunAt(i, "done")
  /\ SetStatus(IF main.exc = "interrupt" THEN "interrupted" ELSE "failed_configuration")
  /\ main' = [main EXCEPT !.pc = IF main.exc = "interrupt" THEN "interrupted" ELSE "exit"]
  /\ UNCHANGED <<disk, run, sealed, root, sessions, Bookkeeping>>

InterruptedEvent ==
  /\ At("interrupted")
  /\ Event(Main, [mem.events EXCEPT !.active = 0])
  /\ main' = [main EXCEPT !.pc = "exit"]
  /\ UNCHANGED <<disk, run, sealed, root, sessions, Bookkeeping>>

LastCheckpoint(points) == {points[k] : k \in {j \in DOMAIN points : j = Len(points)}}

\* Mutant: any earlier checkpoint will do.
FinalCheckpointOnlyOnce == CheckpointInterval # NoLimit /\ mem.checkpoints = <<>>

FinalCheckpointDue ==
  CheckpointInterval # NoLimit /\ LastCheckpoint(mem.checkpoints) # {mem.state.terminal}

FinalCheckpoint == At("finish") /\ FinalCheckpointDue /\ WriteCheckpoint("verdict")

SkipFinalCheckpoint ==
  /\ At("finish") /\ ~ FinalCheckpointDue
  /\ main' = [main EXCEPT !.pc = "verdict"]
  /\ UNCHANGED <<mem, disk, lock, run, sealed, root, sessions, Bookkeeping>>

\* Mutant: only accepted children count as infrastructure failures.
FinalStatusOfValid ==
  IF main.internals > 0 THEN "failed_internal"
  ELSE IF \E r \in LatestRecords(mem.index) : Infra(r) /\ r.validity = "valid"
       THEN "completed_with_infrastructure_errors" ELSE "completed"

FinalStatus ==
  IF main.internals > 0 THEN "failed_internal"
  ELSE IF \E r \in LatestRecords(mem.index) : Infra(r)
       THEN "completed_with_infrastructure_errors"
       ELSE "completed"

Verdict ==
  /\ At("verdict")
  /\ SetStatus(FinalStatus)
  /\ main' = [main EXCEPT !.pc = "report"]
  /\ UNCHANGED <<disk, run, sealed, root, sessions, Bookkeeping>>

ReportsGenerated ==
  /\ At("report")
  /\ main' = [main EXCEPT !.pc = "seal"]
  /\ UNCHANGED <<mem, disk, lock, run, sealed, root, sessions, Bookkeeping>>

ReportsFailed ==
  /\ At("report")
  /\ SetStatus("failed_internal")
  /\ main' = [main EXCEPT !.pc = "exit"]
  /\ UNCHANGED <<disk, run, sealed, root, sessions, Bookkeeping>>

WriteArtifactManifest ==
  /\ At("seal") /\ lock = Free
  /\ sealed' = "fresh"
  /\ main' = [main EXCEPT !.pc = "exit"]
  /\ UNCHANGED <<mem, disk, lock, run, root, sessions, Bookkeeping>>

Exit == At("exit") /\ Gone
-----------------------------------------------------------------------------
(* _run_item: one worker thread per item                                   *)

ToPc(i, pc) == run' = [run EXCEPT ![i].pc = pc]
Worker == <<disk, main, sealed, root, sessions, Bookkeeping>>

(* scheduled(): the counter first, the event in a second critical section. *)
Scheduled(i) ==
  /\ RunAt(i, "queued")
  /\ Locked(i, [mem EXCEPT !.state.scheduled = @ + 1], <<"state">>)
  /\ ToPc(i, "scheduled")
  /\ UNCHANGED Worker

ScheduledEvent(i) ==
  /\ RunAt(i, "scheduled")
  /\ Event(i, [mem.events EXCEPT !.scheduled = @ + 1])
  /\ ToPc(i, "start")
  /\ UNCHANGED Worker

Started(i) ==
  /\ RunAt(i, "start")
  /\ Locked(i, [mem EXCEPT !.state = StartedState(@)], <<"state">>)
  /\ ToPc(i, "started")
  /\ UNCHANGED Worker

StartedEvent(i) ==
  /\ RunAt(i, "started")
  /\ Event(i, StartedEvents(mem.events))
  /\ ToPc(i, "authorize")
  /\ UNCHANGED Worker

(* The record an attempt ends with, and what _run_item hands to its caller.*)
Conclude(i, serial, validity, fault, exc, internal) ==
  run' = [run EXCEPT ![i] =
            [pc |-> "terminal", serial |-> serial, exc |-> exc, internal |-> internal,
             rec |-> RunIndexRecord(i, main.attempts[i], serial, validity, fault)]]

Aside == <<mem, disk, lock, main, sealed, root, sessions, tampers>>

(* The handlers of _run_item: a runtime or dependency failure counts as    *)
(* infrastructure, a configuration error ends the experiment, the rest is  *)
(* an internal error.                                                      *)
ConcludeFailed(i, serial, failure) ==
  Conclude(i, serial,
           IF serial = 0 THEN "missing"
           ELSE IF failure = "config" THEN "incompatible" ELSE "partial",
           IF failure = "infrastructure" THEN "local" ELSE "none",
           IF failure = "config" THEN "config" ELSE "none",
           failure = "internal")

(* _resolve_child_execution_contract finds that a frozen binding drifted,  *)
(* or what it calls (task loading, profile and prompt resolution) raises.  *)
ContractFails(i) ==
  /\ RunAt(i, "authorize")
  /\ \E failure \in ContractFailures : ConcludeFailed(i, 0, failure)
  /\ UNCHANGED <<Aside, children, launches>>

NoAuthorizationNeeded(i) ==
  /\ RunAt(i, "authorize") /\ i \notin ModelBearing
  /\ ToPc(i, "launch")
  /\ UNCHANGED <<Aside, children, launches>>

(* authorize_model_process: the checks and the fsynced append are one      *)
(* critical section.                                                       *)
Consumed(i) == \E a \in mem.ledger : a.item = i

\* Mutant: the new authorization itself is not counted.
BudgetsAllowOneMore(i) ==
  /\ MaxProcesses # NoLimit => Cardinality(mem.ledger) < MaxProcesses
  /\ MaxApiCalls # NoLimit => ReservedCalls(mem.ledger) <= MaxApiCalls

BudgetsAllow(i) ==
  /\ MaxProcesses # NoLimit => Cardinality(mem.ledger) < MaxProcesses
  /\ MaxApiCalls # NoLimit => ReservedCalls(mem.ledger) + Reserved[i] <= MaxApiCalls

\* Mutant: an authorization may be consumed again.
MayAuthorizeAgain(i) == BudgetsAllow(i)

MayAuthorize(i) == ~ Consumed(i) /\ BudgetsAllow(i)

\* Mutant: the authorization is kept in memory only.
AuthorizeUnlogged(i) ==
  /\ RunAt(i, "authorize") /\ i \in ModelBearing
  /\ MayAuthorize(i)
  /\ LET a == [item |-> i, attempt |-> main.attempts[i]]
     IN  Locked(i, [mem EXCEPT !.ledger = @ \cup {a}, !.state.authorized = @ + 1], <<"state">>)
  /\ ToPc(i, "launch")
  /\ UNCHANGED <<disk, main, sealed, root, sessions, Bookkeeping>>

Authorize(i) ==
  /\ RunAt(i, "authorize") /\ i \in ModelBearing
  /\ MayAuthorize(i)
  /\ LET a == [item |-> i, attempt |-> main.attempts[i]]
     IN  /\ disk' = [disk EXCEPT !.ledger = @ \cup {a}]
         /\ Locked(i, [mem EXCEPT !.ledger = @ \cup {a}, !.state.authorized = @ + 1],
                   <<"state">>)
  /\ ToPc(i, "launch")
  /\ UNCHANGED <<main, sealed, root, sessions, Bookkeeping>>

AuthorizationRefused(i) ==
  /\ RunAt(i, "authorize") /\ i \in ModelBearing /\ lock = Free
  /\ ~ MayAuthorize(i)
  /\ Conclude(i, 0, "missing", "none", "config", FALSE)
  /\ UNCHANGED <<Aside, children, launches>>

(* The child executor: an ordinary run with a directory of its own.        *)
NextSerial(i) == Cardinality({c \in children : c.item = i}) + 1

LaunchChild(i) ==
  /\ RunAt(i, "launch")
  /\ children' = children \cup {[item |-> i, attempt |-> main.attempts[i],
                                 serial |-> NextSerial(i), state |-> "opened", fault |-> "none"]}
  /\ launches' = IF i \in ModelBearing THEN [launches EXCEPT ![i] = @ + 1] ELSE launches
  /\ run' = [run EXCEPT ![i].pc = "running", ![i].serial = NextSerial(i)]
  /\ UNCHANGED Aside

(* The run directory is finished in stages: manifest and scorecard, then   *)
(* the artifact manifest that makes it acceptable to replay.               *)
Child(i) == CHOOSE c \in children : c.item = i /\ c.serial = run[i].serial
ChildBecomes(i, state, fault) ==
  children' = (children \ {Child(i)}) \cup {[Child(i) EXCEPT !.state = state, !.fault = fault]}

ChildPersistsManifest(i) ==
  /\ RunAt(i, "running") /\ Child(i).state = "opened"
  /\ ChildBecomes(i, "bound", "none")
  /\ UNCHANGED <<Aside, run, launches>>

(* "unvetted": acceptable to replay, but its model-process evidence is not *)
(* what _validate_model_process_result demands; "mismatched": it does not  *)
(* match the plan item.                                                    *)
ChildReturns(i) ==
  /\ RunAt(i, "running") /\ Child(i).state = "bound"
  /\ \E state \in {"valid", "mismatched"} \cup (IF i \in ModelBearing THEN {"unvetted"} ELSE {}),
        fault \in Fault : ChildBecomes(i, state, fault)
  /\ ToPc(i, "returned")
  /\ UNCHANGED <<Aside, launches>>

(* The executor raises, before or after it created the directory.          *)
ChildRaises(i) ==
  /\ RunAt(i, "launch") \/ RunAt(i, "running")
  /\ \E failure \in Failure : ConcludeFailed(i, run[i].serial, failure)
  /\ UNCHANGED <<Aside, children, launches>>

(* Ctrl-C in the sequential loop: _run_item re-raises and records nothing. *)
ChildInterrupted(i) ==
  /\ RunAt(i, "launch") \/ RunAt(i, "running")
  /\ MaxWorkers = 1
  /\ run' = [run EXCEPT ![i].pc = "done", ![i].exc = "interrupt"]
  /\ UNCHANGED <<Aside, children, launches>>

Accepted(c) == c.state = "valid" \/ (c.state = "unvetted" /\ ~ Strict)

AcceptResult(i) ==
  /\ RunAt(i, "returned")
  /\ IF Accepted(Child(i))
     THEN Conclude(i, run[i].serial, "valid", Child(i).fault, "none", FALSE)
     ELSE Conclude(i, run[i].serial, "incompatible", "none", "config", FALSE)
  /\ UNCHANGED <<Aside, children, launches>>

\* Mutant: the end of an attempt is reported before it is recorded.
TerminalReportedFirst(i) ==
  /\ RunAt(i, "terminal")
  /\ Event(i, TerminalEvents(mem.events, run[i].rec))
  /\ ToPc(i, "recorded")
  /\ UNCHANGED Worker

Terminal(i) ==
  /\ RunAt(i, "terminal")
  /\ Locked(i, IndexedParent(run[i].rec), <<"index", "state">>)
  /\ ToPc(i, "recorded")
  /\ UNCHANGED Worker

TerminalEvent(i) ==
  /\ RunAt(i, "recorded")
  /\ Event(i, TerminalEvents(mem.events, run[i].rec))
  /\ ToPc(i, "done")
  /\ UNCHANGED Worker
-----------------------------------------------------------------------------
(* What happens to the process and to its files from outside               *)

(* SIGKILL, power loss, an unhandled exit: memory is lost at any instant.  *)
Crash == main.pc # "idle" /\ Gone

(* A finished run directory is damaged between two sessions.               *)
DamageChild(c) ==
  /\ main.pc = "idle" /\ tampers < MaxTampers /\ Replays(c)
  /\ tampers' = tampers + 1
  /\ children' = (children \ {c}) \cup {[c EXCEPT !.state = "damaged"]}
  /\ sealed' = sealed
  /\ UNCHANGED <<mem, disk, lock, main, run, launches, root, sessions>>
-----------------------------------------------------------------------------
Resuming ==
  \/ \E c \in children : ReconcileChild(c)
  \/ ReconcileEvent \/ ReconcileDone
  \/ \E i \in Item : ReuseChild(i) \/ DowngradeChild(i) \/ SkipItem(i)
  \/ ValidateDone
  \/ \E a \in mem.ledger : SettleMissing(a) \/ SettlePreserved(a)
  \/ SettleEvent \/ SettleDone

Executing ==
  \/ RemoveArtifactManifest \/ SetRunning \/ PlanWork
  \/ Wait \/ WaitDone
  \/ \E i \in Item : Collect(i) \/ CollectException(i)
  \/ IntervalCheckpoint \/ Refill \/ StopScheduling
  \/ HandleException \/ InterruptedEvent
  \/ FinalCheckpoint \/ SkipFinalCheckpoint \/ Verdict
  \/ ReportsGenerated \/ ReportsFailed \/ WriteArtifactManifest \/ Exit

RunItem(i) ==
  \/ Scheduled(i) \/ ScheduledEvent(i) \/ Started(i) \/ StartedEvent(i)
  \/ ContractFails(i) \/ NoAuthorizationNeeded(i) \/ Authorize(i) \/ AuthorizationRefused(i)
  \/ LaunchChild(i) \/ ChildPersistsManifest(i) \/ ChildReturns(i) \/ ChildRaises(i)
  \/ ChildInterrupted(i) \/ AcceptResult(i) \/ Terminal(i) \/ TerminalEvent(i)

(* The steps of the controller process and of its children.                *)
ControllerStep ==
  \/ Initialize \/ Execute \/ Prepare
  \/ Dump \/ Resuming \/ Executing
  \/ \E i \in Item : RunItem(i)

Next ==
  \/ Run \/ Resume
  \/ ControllerStep
  \/ Interrupt \/ Crash
  \/ \E c \in children : DamageChild(c)

Spec == Init /\ [][Next]_vars
FairSpec == Spec /\ WF_vars(ControllerStep)
-----------------------------------------------------------------------------
(* Types                                                                   *)

Validity == {"valid", "partial", "corrupt", "incompatible", "missing"}
Status == {"planned", "running", "interrupted", "failed_configuration", "failed_internal",
           "completed", "completed_with_infrastructure_errors"}
IndexRecord == [item : Nat, attempt : Nat, child : Nat, validity : Validity, fault : Fault]
State == [status : Status, scheduled : Nat, terminal : Nat, valid : Int, infra : Int,
          corrupt : Int, active : Nat, observed : Nat, authorized : Nat]
Events == [scheduled : Nat, active : Nat, observed : Nat, terminals : SUBSET (Nat \X Nat)]
Authorization == [item : Item, attempt : Nat]
Parent == [manifest : Status, state : State, events : Events, index : SUBSET IndexRecord,
           ledger : SUBSET Authorization, checkpoints : Seq(Nat)]
ChildRun == [item : Item, attempt : Nat, serial : Nat, fault : Fault,
             state : {"opened", "bound", "valid", "unvetted", "mismatched", "damaged"}]
MainPc == {"idle", "initialize", "initialized", "reconcile", "reconciled", "validate", "settle",
           "settled", "unseal", "activate", "plan", "wait", "collect", "checkpoint", "refill",
           "drain", "interrupted", "finish", "verdict", "report", "seal", "exit"}
RunPc == {"none", "queued", "scheduled", "start", "started", "authorize", "launch", "running",
          "returned", "terminal", "recorded", "done"}
Exc == {"none", "config", "interrupt"}
DumpedFile == {"events", "state", "index", "manifest"}

(* The types of the variables; only four of the parent's files are ever    *)
(* replaced by a locked method, the ledger and the checkpoints are         *)
(* append-only.                                                            *)
TypeOK ==
  /\ mem \in Parent /\ disk \in Parent
  /\ lock \in [holder : Item \cup {Main, Nobody}, dumps : Seq(DumpedFile)]
  /\ main \in [pc : MainPc, completed : SUBSET Item, pending : SUBSET Item,
               attempts : [Item -> Nat], batch : SUBSET Item, stop : BOOLEAN,
               internals : Nat, exc : Exc, cursor : Nat, focus : IndexRecord]
  /\ run \in [Item -> [pc : RunPc, serial : Nat, exc : Exc, internal : BOOLEAN,
                       rec : IndexRecord]]
  /\ children \subseteq ChildRun
  /\ launches \in [Item -> Nat]
  /\ sealed \in {"absent", "fresh", "stale"}
  /\ root \in {"absent", "partial", "ready"}
  /\ sessions \in Nat /\ tampers \in Nat
-----------------------------------------------------------------------------
(* Safety                                                                  *)

AuthorizedItems == {a.item : a \in disk.ledger}
Live == main.pc \notin {"idle", "initialize"}
Keys(index) == {<<r.item, r.attempt>> : r \in index}

(* A model process is started at most once per plan item, over all         *)
(* sessions, and only once its authorization is on disk                    *)
(* (authorize_model_process before child_executor in _run_item).           *)
LaunchesAreAuthorizedOnce ==
  \A i \in ModelBearing :
    /\ launches[i] <= 1
    /\ launches[i] = 1 => i \in AuthorizedItems

(* Why, as an inductive invariant: the ledger file is only ever appended   *)
(* to, never replaced from memory; the live controller's copy is the file; *)
(* an item about to be launched holds an authorization no launch has used; *)
(* no worker outlives its process; and a campaign begins with nothing.     *)
LedgerInv ==
  /\ Live => mem.ledger = disk.ledger
  /\ \A a, b \in disk.ledger : a.item = b.item => a = b
  /\ \A i \in ModelBearing :
       /\ run[i].pc = "launch" => i \in AuthorizedItems /\ launches[i] = 0
       /\ launches[i] <= 1
       /\ launches[i] = 1 => i \in AuthorizedItems
  /\ ~ Live => \A i \in Item : run[i].pc = "none"
  /\ root # "ready" => /\ ~ Live /\ disk.ledger = {}
                       /\ \A i \in ModelBearing : launches[i] = 0
  /\ main.pc = "initialize" => root = "partial"

(* The campaign-wide budgets hold for what is on disk, whichever workers   *)
(* asked at once and however often the campaign was resumed.               *)
BudgetsHold ==
  /\ MaxProcesses # NoLimit => Cardinality(disk.ledger) <= MaxProcesses
  /\ MaxApiCalls # NoLimit => ReservedCalls(disk.ledger) <= MaxApiCalls

(* Whatever instant the process dies at, the files it leaves pass resume's *)
(* own checks of the run index and of the ledger (_recovered_state,        *)
(* _validate_process_ledger).                                              *)
FilesStayLoadable == root = "ready" => Loadable(disk)

(* The counters that scheduled, terminal, replace_record and               *)
(* authorize_model_process keep incrementally are at all times what        *)
(* recovery would count afresh.                                            *)
CountersMatchIndex ==
  Live =>
    LET counted == RecoveredState(mem)
    IN  \A c \in {"terminal", "valid", "infra", "corrupt", "authorized"} :
          mem.state[c] = counted[c]

(* While the pool works, active_count is the number of items between       *)
(* started() and terminal().                                               *)
ActiveCountIsExact ==
  main.pc \in {"wait", "collect", "refill", "checkpoint"} =>
    mem.state.active =
      Cardinality({i \in Item : run[i].pc \in {"started", "authorize", "launch", "running",
                                               "returned", "terminal"}
                                \/ run[i].exc = "interrupt"})

(* A plan_item_terminal event on disk has its record on disk: terminal()   *)
(* writes the index before it reports the end of an attempt.               *)
TerminalEventsAreIndexed == disk.events.terminals \subseteq Keys(disk.index)

(* Attempts of an item are numbered 1, 2, ... without gaps, recovered      *)
(* orphan directories included (_orphan_attempt, the attempts of _execute).*)
AttemptsAreGapFree ==
  \A i \in Item : AttemptsOf(i, disk.index) = 1 .. Cardinality(AttemptsOf(i, disk.index))

(* Accepted work is never done twice: an item has at most one run          *)
(* directory that replays, whether the index knew of it or it was left     *)
(* behind by a crash.                                                      *)
NoWorkIsRepeated ==
  \A i \in Item : Cardinality({c \in children : c.item = i /\ Replays(c)}) <= 1

(* What a sealed experiment says of itself is true: files agree on the     *)
(* status, the counters are those of the index, nothing is active, every   *)
(* authorization has an outcome (the strict policy sees to that, the       *)
(* legacy policy leaves one open when a crash and a fail-fast stop meet),  *)
(* "completed" means a valid fault-free result for every plan item, and an *)
(* item may be missing only where the run was told to stop.                *)
SealedExperimentIsComplete ==
  sealed = "fresh" =>
    /\ disk.state.status = disk.manifest /\ disk.state.active = 0
    /\ \A c \in {"terminal", "valid", "infra", "corrupt", "authorized"} :
         disk.state[c] = RecoveredState(disk)[c]
    /\ Strict => AuthorizedItems \subseteq {r.item : r \in disk.index}
    /\ disk.manifest = "completed" =>
         \A i \in Item : \E r \in LatestOf(i, disk.index) : r.validity = "valid" /\ ~ Infra(r)
    /\ disk.manifest = "completed_with_infrastructure_errors" =>
         \/ \E r \in LatestRecords(disk.index) : Infra(r) /\ ~ ContinueOnInfra
         \/ BreakerOpen(disk.index)
         \/ \A i \in Item : LatestOf(i, disk.index) # {}

(* Under the strict policy resume settles every authorized item before it  *)
(* schedules anything, so a worker never finds its item consumed.          *)
AuthorizationIsNeverConsumed ==
  Strict => \A i \in ModelBearing : RunAt(i, "authorize") => ~ Consumed(i)

(* Checkpoints count terminal records that really are on disk, never go    *)
(* back over a crash and a resume, and the last one of a sealed experiment *)
(* is current.                                                             *)
CheckpointsTrackTheIndex ==
  LET points == disk.checkpoints
  IN  /\ \A k \in DOMAIN points : points[k] <= Cardinality(disk.index)
      /\ \A k \in 1 .. Len(points) - 1 : points[k] <= points[k + 1]
      /\ sealed = "fresh" /\ CheckpointInterval # NoLimit =>
           LastCheckpoint(points) = {disk.state.terminal}

(* The sequential breaker bounds the infrastructure failures of a campaign *)
(* over all its sessions, as long as nobody damages finished children.     *)
BreakerBoundsFaults ==
  MaxTotalInfra # NoLimit /\ tampers = 0 =>
    Cardinality({r \in LatestRecords(disk.index) : Infra(r)}) <= MaxTotalInfra

(* A fail-fast campaign accepts at most one faulty child per worker, also  *)
(* when it is resumed.                                                     *)
FailFastBoundsFaults ==
  ~ ContinueOnInfra =>
    Cardinality({r \in LatestRecords(disk.index) : Infra(r) /\ r.validity = "valid"})
      <= MaxWorkers
-----------------------------------------------------------------------------
(* Action properties and liveness                                          *)

(* The run index only grows: a recorded attempt keeps its directory, and   *)
(* an attempt that was rejected never becomes a valid one.                 *)
IndexHistoryIsKept ==
  [][root = "ready" =>
       \A r \in disk.index :
         \E q \in disk'.index :
           /\ q.item = r.item /\ q.attempt = r.attempt /\ q.child = r.child
           /\ q.validity = "valid" => r.validity = "valid"]_disk

(* The authorizations on disk and the processes ever started implement the *)
(* abstract ledger: the promise of ModelProcessLedger, over any number of  *)
(* crashes and resumes.                                                    *)
Ledger == INSTANCE ModelProcessLedger
            WITH Bearing <- ModelBearing, Budget <- MaxProcesses, Unlimited <- NoLimit,
                 consumed <- AuthorizedItems,
                 started <- {i \in ModelBearing : launches[i] > 0}
ImplementsLedger == Ledger!Spec

(* Every session of the controller comes to an end: no collected future is *)
(* lost, no worker waits for a lock nobody releases.                       *)
SessionsEnd == (main.pc # "idle") ~> (main.pc = "idle")
-----------------------------------------------------------------------------
(* What documents and tests say, and the code does not keep                *)

(* integrity.py: the artifact index is removed "before mutating a resumed  *)
(* parent", so an experiment that was resumed can always be resumed again. *)
ArtifactIndexIsNeverStale == main.pc = "idle" => sealed # "stale"

(* A record is valid only if the strict check of the model process of its  *)
(* child (_validate_model_process_result) accepted it.                     *)
ValidMeansVetted ==
  Strict => \A r \in disk.index : r.validity = "valid" =>
              \A c \in ChildOf(r) : c.state # "unvetted"
=============================================================================
