----------------------- MODULE BatchRunnerIndexProofs -----------------------
(***************************************************************************)
(* The run index of a campaign, in memory and on disk, under every plan,   *)
(* policy, number of workers and sequence of crashes.                      *)
(*                                                                         *)
(* None of the properties proved here is inductive.  They hold because a   *)
(* thread that has changed the index owns the lock until the index file is *)
(* replaced, so the file is either the index in memory or the one before   *)
(* the last record (FilesInv); because whoever works on an item is the     *)
(* only one that may record it and numbers its attempt next (WorkInv); and *)
(* because the pool has no worker before the plan is made and none the     *)
(* main thread takes back too early (Threads).                             *)
(***************************************************************************)
EXTENDS BatchRunnerProofs

(* The main thread before the pool exists.                                 *)
Early == {"idle", "initialize", "initialized", "reconcile", "reconciled", "validate", "settle",
          "settled", "unseal", "activate", "plan"}
(* A worker that has an attempt in hand and has not recorded it.           *)
Unrecorded == {"queued", "scheduled", "start", "started", "authorize", "launch", "running",
               "returned", "terminal"}
(* Where a worker is while it owns the lock.                               *)
Writing == {"scheduled", "start", "started", "authorize", "launch", "recorded", "done"}

IndexFirst == <<"index", "state">>
OtherFiles == {<<"state">>, <<"events", "state">>, <<"manifest", "state">>}

LockInv ==
  /\ lock = Free \/ (lock.holder # Nobody /\ lock.dumps \in OtherFiles \cup {IndexFirst})
  /\ ~ Live => lock = Free
  /\ \A i \in Item : lock.holder = i => run[i].pc \in Writing

PoolInv ==
  /\ main.pc \in Early => main.pending = {} /\ \A i \in Item : run[i].pc = "none"
  /\ \A i \in main.batch : run[i].pc = "done" /\ lock.holder # i
  /\ \A i \in main.pending : run[i].pc = "none"

Threads == LockInv /\ PoolInv
-----------------------------------------------------------------------------
(* Threads                                                                 *)

LEMMA DumpOrder ==
  /\ \A d \in OtherFiles \cup {IndexFirst} :
       /\ d # <<>> /\ Tail(d) \in {<<>>, <<"state">>}
       /\ Head(d) = "index" <=> d = IndexFirst
  /\ Tail(<<"state">>) = <<>> /\ Tail(IndexFirst) = <<"state">>
  /\ <<"state">> # IndexFirst /\ <<>> # IndexFirst /\ IndexFirst \notin OtherFiles
  /\ Free.holder = Nobody /\ Free.dumps = <<>>
BY DEF OtherFiles, IndexFirst, Free

(* A worker takes the lock, or leaves it alone; nobody else moves.         *)
LEMMA WorkerThreads ==
  ASSUME TypeInv, LedgerInv, Threads, NEW i \in Item,
         run[i].pc \notin {"none", "done"}, lock.holder # i,
         main' = main, \A j \in Item \ {i} : run'[j] = run[j],
         \/ lock' = lock
         \/ /\ lock = Free /\ lock'.holder = i /\ lock'.dumps \in OtherFiles \cup {IndexFirst}
            /\ run'[i].pc \in Writing
  PROVE  Threads'
<1>1. Live /\ Live'
  BY WorkersLive DEF Live
<1>2. main.batch \subseteq Item /\ main.pending \subseteq Item
  BY DEF TypeInv, MainOK
<1>3. i \notin main.batch /\ i \notin main.pending /\ main.pc \notin Early
  BY DEF Threads, PoolInv
<1>4. i # Nobody
  BY ConfigAssumption DEF Item, Nobody
<1>5. PoolInv'
  BY <1>2, <1>3 DEF Threads, PoolInv
<1>6. LockInv'
  BY <1>1, <1>4 DEF Threads, LockInv
<1>7. QED
  BY <1>5, <1>6 DEF Threads

(* The main thread takes the lock, or leaves it alone.                     *)
LEMMA MainThreads ==
  ASSUME TypeInv, Threads, run' = run, main'.batch = main.batch, main'.pending = main.pending,
         main'.pc \in Early => main.pc \in Early, Live',
         \/ lock' = lock
         \/ /\ lock = Free /\ lock'.holder = Main
            /\ lock'.dumps \in OtherFiles \cup {IndexFirst}
  PROVE  Threads'
<1>1. main.batch \subseteq Item /\ Main \notin Item /\ Main # Nobody
  BY ConfigAssumption DEF TypeInv, MainOK, Main, Item, Nobody
<1>2. PoolInv'
  BY <1>1 DEF Threads, PoolInv
<1>3. LockInv'
  BY <1>1 DEF Threads, LockInv
<1>4. QED
  BY <1>2, <1>3 DEF Threads

LEMMA GoneThreads ==
  ASSUME Gone
  PROVE  Threads'
<1>1. /\ main' = IdleMain /\ lock' = Free /\ run' = [i \in Item |-> NoRun]
  BY DEF Gone
<1>2. \A i \in Item : run'[i].pc = "none"
  BY <1>1 DEF NoRun
<1>3. main'.batch = {} /\ main'.pending = {} /\ ~ Live'
  BY <1>1 DEF IdleMain, Live
<1>4. \A i \in Item : Free.holder # i
  BY ConfigAssumption DEF Free, Item, Nobody
<1>5. QED
  BY <1>1, <1>2, <1>3, <1>4 DEF Threads, LockInv, PoolInv

LEMMA DumpThreads ==
  ASSUME TypeInv, Threads, Dump
  PROVE  /\ Threads' /\ (lock' = Free \/ lock'.dumps = <<"state">>)
         /\ lock.dumps # <<>> /\ Live
<1>1. lock # Free /\ lock.dumps # <<>> /\ Live
  BY DumpOrder DEF Dump, Threads, LockInv
<1>2. lock.holder # Nobody /\ lock.dumps \in OtherFiles \cup {IndexFirst}
  BY <1>1 DEF Threads, LockInv
<1>3. UNCHANGED <<main, run>>
  BY DEF Dump
<1>4. \/ lock' = Free
      \/ lock'.dumps = <<"state">> /\ lock'.holder = lock.holder
  <2>1. CASE Tail(lock.dumps) = <<>>
    BY <2>1 DEF Dump
  <2>2. CASE Tail(lock.dumps) # <<>>
    <3>1. lock' = [lock EXCEPT !.dumps = Tail(lock.dumps)] /\ Tail(lock.dumps) = <<"state">>
      BY <1>2, <2>2, DumpOrder DEF Dump
    <3>2. QED
      BY <3>1 DEF TypeInv, LockOK
  <2>3. QED
    BY <2>1, <2>2
<1>5. \A i \in Item : lock'.holder = i => lock.holder = i
  BY <1>4, ConfigAssumption DEF Free, Item, Nobody
<1>6. main.batch \subseteq Item
  BY DEF TypeInv, MainOK
<1>7. PoolInv'
  BY <1>3, <1>5, <1>6 DEF Threads, PoolInv
<1>8. LockInv'
  BY <1>1, <1>2, <1>3, <1>4, <1>5 DEF Threads, LockInv, OtherFiles, Live
<1>9. QED
  BY <1>1, <1>4, <1>7, <1>8 DEF Threads

(* What submitting and cancelling make of a worker.                        *)
LEMMA Resubmitted ==
  ASSUME TypeInv
  PROVE  /\ \A S : \A j \in Item : Submit(S) =>
              /\ j \in S => run'[j] = [NoRun EXCEPT !.pc = "queued"]
              /\ j \notin S => run'[j] = run[j]
         /\ \A j \in Item : IF run[j].pc = "queued" THEN Cancelled[j] = NoRun
                                                    ELSE Cancelled[j] = run[j]
         /\ \A i, j \in Item :
              /\ [run EXCEPT ![i] = NoRun][j] = IF i = j THEN NoRun ELSE run[j]
              /\ [Cancelled EXCEPT ![i] = NoRun][j] = IF i = j THEN NoRun ELSE Cancelled[j]
         /\ NoRun.pc = "none" /\ [NoRun EXCEPT !.pc = "queued"].pc = "queued"
         /\ NoRun.exc = "none" /\ [NoRun EXCEPT !.pc = "queued"].exc = "none"
<1>1. run \in [Item -> ItemRun] /\ Cancelled \in [Item -> ItemRun]
  BY SubmitType DEF TypeInv
<1>2. \A S : \A j \in Item : Submit(S) =>
        /\ j \in S => run'[j] = [NoRun EXCEPT !.pc = "queued"]
        /\ j \notin S => run'[j] = run[j]
  BY DEF Submit
<1>3. \A j \in Item : IF run[j].pc = "queued" THEN Cancelled[j] = NoRun ELSE Cancelled[j] = run[j]
  BY DEF Cancelled
<1>4. \A i, j \in Item :
        /\ [run EXCEPT ![i] = NoRun][j] = IF i = j THEN NoRun ELSE run[j]
        /\ [Cancelled EXCEPT ![i] = NoRun][j] = IF i = j THEN NoRun ELSE Cancelled[j]
  BY <1>1
<1>5. /\ NoRun.pc = "none" /\ [NoRun EXCEPT !.pc = "queued"].pc = "queued"
      /\ NoRun.exc = "none" /\ [NoRun EXCEPT !.pc = "queued"].exc = "none"
  BY DEF NoRun
<1>6. QED
  BY <1>2, <1>3, <1>4, <1>5

LEMMA PlanThreads ==
  ASSUME TypeInv, Threads, PlanWork
  PROVE  Threads'
<1>1. main.pc = "plan" /\ main'.pc = "wait" /\ main'.batch = main.batch /\ lock' = lock
  BY DEF PlanWork, At, TypeInv, MainOK
<1>2. \A i \in Item : run[i].pc = "none"
  BY <1>1 DEF Threads, PoolInv, Early
<1>3. main.batch \subseteq Item /\ main.batch = {}
  BY <1>2 DEF TypeInv, MainOK, Threads, PoolInv
<1>4. \A i \in Item : lock.holder # i
  BY <1>2 DEF Threads, LockInv, Writing
<1>5. main'.pending = Pending \ Window(Pending) /\ Submit(Window(Pending))
  BY DEF PlanWork, TypeInv, MainOK
<1>6. main'.pending \subseteq Item
  BY <1>5 DEF Pending
<1>7. \A i \in main'.pending : run'[i].pc = "none"
  BY <1>2, <1>5, <1>6 DEF Submit
<1>8. PoolInv'
  BY <1>1, <1>3, <1>7 DEF PoolInv, Early
<1>9. LockInv'
  BY <1>1, <1>4 DEF Threads, LockInv, Live
<1>10. QED
  BY <1>8, <1>9 DEF Threads

LEMMA CollectThreads ==
  ASSUME TypeInv, Threads, Wait \/ \E i \in Item : Collect(i) \/ CollectException(i)
  PROVE  Threads'
<1>1. main.batch \subseteq Item /\ main.pending \subseteq Item
  BY DEF TypeInv, MainOK
<1>2. CASE Wait
  <2>1. /\ main.pc = "wait" /\ main'.pc = "collect" /\ main'.pending = main.pending
        /\ main'.batch = Finished /\ run' = run /\ lock' = lock
    BY <1>2 DEF Wait, At, TypeInv, MainOK
  <2>2. QED
    BY <2>1 DEF Threads, LockInv, PoolInv, Early, Live, Finished, Futures, RunAt
<1>3. ASSUME NEW i \in Item, Collect(i)
      PROVE  Threads'
  <2>1. /\ main.pc = "collect" /\ main'.pc \in {"checkpoint", "refill"}
        /\ main'.pending = main.pending /\ main'.batch = main.batch \ {i} /\ i \in main.batch
        /\ lock' = lock /\ run' = [run EXCEPT ![i] = NoRun]
    BY <1>3 DEF Collect, At, TypeInv, MainOK
  <2>2. \A j \in Item : run'[j] = IF i = j THEN NoRun ELSE run[j]
    BY <2>1, Resubmitted
  <2>3. lock.holder # i /\ NoRun.pc = "none"
    BY <2>1, Resubmitted DEF Threads, PoolInv
  <2>4. PoolInv'
    BY <1>1, <2>1, <2>2, <2>3 DEF Threads, PoolInv, Early
  <2>5. LockInv'
    BY <2>1, <2>2, <2>3 DEF Threads, LockInv, Live
  <2>6. QED
    BY <2>4, <2>5 DEF Threads
<1>4. ASSUME NEW i \in Item, CollectException(i)
      PROVE  Threads'
  <2>1. /\ main.pc = "collect" /\ main'.pc = "drain" /\ i \in main.batch
        /\ main'.pending = main.pending /\ main'.batch = {}
        /\ lock' = lock /\ run' = [Cancelled EXCEPT ![i] = NoRun]
    BY <1>4 DEF CollectException, At, TypeInv, MainOK
  <2>2. \A j \in Item : run'[j] = NoRun \/ (run'[j] = run[j] /\ j # i)
    BY <2>1, Resubmitted
  <2>3. \A j \in Item : run'[j] = NoRun => j = i \/ run[j].pc = "queued" \/ run'[j] = run[j]
    BY <2>1, Resubmitted
  <2>4. lock.holder # i /\ NoRun.pc = "none"
    BY <2>1, Resubmitted DEF Threads, PoolInv
  <2>5. PoolInv'
    BY <1>1, <2>1, <2>2, <2>4 DEF Threads, PoolInv, Early
  <2>6. LockInv'
    BY <2>1, <2>2, <2>3, <2>4 DEF Threads, LockInv, Live, Writing
  <2>7. QED
    BY <2>5, <2>6 DEF Threads
<1>5. QED
  BY <1>2, <1>3, <1>4

LEMMA RefillThreads ==
  ASSUME TypeInv, Threads, Refill \/ StopScheduling \/ Interrupt
  PROVE  Threads'
<1>1. main.batch \subseteq Item /\ main.pending \subseteq Item
  BY DEF TypeInv, MainOK
<1>2. CASE Refill
  <2> DEFINE next == {i \in main.pending : \A j \in main.pending : i <= j}
  <2>1. /\ main.pc = "refill" /\ main'.pc \in {"wait", "collect"} /\ main'.batch = main.batch
        /\ main'.pending = main.pending \ next /\ Submit(next) /\ lock' = lock
    BY <1>2 DEF Refill, At, TypeInv, MainOK
  <2>2. next \subseteq main.pending
    OBVIOUS
  <2> HIDE DEF next
  <2>3. \A j \in Item : /\ j \in next => run[j].pc = "none" /\ run'[j].pc = "queued"
                        /\ j \notin next => run'[j] = run[j]
    <3>1. \A j \in Item : /\ j \in next => run'[j].pc = "queued"
                          /\ j \notin next => run'[j] = run[j]
      BY <2>1, Resubmitted
    <3>2. \A j \in main.pending : run[j].pc = "none"
      BY <1>1 DEF Threads, PoolInv
    <3>3. QED
      BY <2>2, <3>1, <3>2
  <2>4. PoolInv'
    BY <1>1, <2>1, <2>2, <2>3 DEF Threads, PoolInv, Early
  <2>5. LockInv'
    BY <2>1, <2>3 DEF Threads, LockInv, Live, Writing
  <2>6. QED
    BY <2>4, <2>5 DEF Threads
<1>3. CASE StopScheduling \/ Interrupt
  <2>1. /\ main.pc \notin Early /\ main'.pc \notin Early
        /\ main'.batch = main.batch /\ main'.pending = main.pending /\ lock' = lock
        /\ run' = run \/ run' = Cancelled
    BY <1>3 DEF StopScheduling, Interrupt, At, TypeInv, MainOK, Early
  <2>2. \A j \in Item : run'[j] = run[j] \/ (run[j].pc = "queued" /\ run'[j].pc = "none")
    BY <2>1, Resubmitted
  <2>3. PoolInv'
    BY <1>1, <2>1, <2>2 DEF Threads, PoolInv
  <2>4. LockInv'
    BY <2>1, <2>2 DEF Threads, LockInv, Live, Writing, Early
  <2>5. QED
    BY <2>3, <2>4 DEF Threads
<1>4. QED
  BY <1>2, <1>3

LEMMA LockTaken ==
  /\ \A t, p, d : Locked(t, p, d) => lock = Free /\ lock'.holder = t /\ lock'.dumps = d
  /\ \A t, e : Event(t, e) =>
       lock = Free /\ lock'.holder = t /\ lock'.dumps = <<"events", "state">>
  /\ \A st : SetStatus(st) =>
       lock = Free /\ lock'.holder = Main /\ lock'.dumps = <<"manifest", "state">>
<1>1. \A t, p, d : Locked(t, p, d) => lock = Free /\ lock'.holder = t /\ lock'.dumps = d
  BY DEF Locked
<1>2. QED
  BY <1>1 DEF Event, SetStatus

LEMMA ResumingThreads ==
  ASSUME TypeInv, Threads, Resuming
  PROVE  Threads'
<1>1. main \in [pc : MainPc, completed : SUBSET Item, pending : SUBSET Item,
                attempts : [Item -> Nat], batch : SUBSET Item, stop : BOOLEAN,
                internals : Nat, exc : Exc, cursor : Nat, focus : IndexRecord]
  BY DEF TypeInv, MainOK
<1> DEFINE Apart == /\ run' = run /\ main'.batch = main.batch /\ main'.pending = main.pending
                    /\ main.pc \in Early /\ Live'
<1>2. Apart
  <2>1. ASSUME NEW c \in children, ReconcileChild(c)
        PROVE  Apart
    BY <1>1, <2>1 DEF ReconcileChild, At, Early, Live
  <2>2. CASE ReconcileEvent \/ ReconcileDone \/ ValidateDone \/ SettleEvent \/ SettleDone
    BY <1>1, <2>2 DEF ReconcileEvent, ReconcileDone, ValidateDone, SettleEvent, SettleDone,
                      Visit, At, Early, Live
  <2>3. ASSUME NEW i \in Item, ReuseChild(i) \/ DowngradeChild(i) \/ SkipItem(i)
        PROVE  Apart
    <3>1. main.pc = "validate" /\ run' = run
      BY <2>3 DEF ReuseChild, DowngradeChild, SkipItem, Visit, At
    <3>2. main' = Visited \/ main' = [Visited EXCEPT !.completed = @ \cup {i}]
      BY <2>3 DEF ReuseChild, DowngradeChild, SkipItem
    <3>3. main'.pc = main.pc /\ main'.batch = main.batch /\ main'.pending = main.pending
      BY <1>1, <3>2 DEF Visited
    <3>4. QED
      BY <3>1, <3>3 DEF Early, Live
  <2>4. ASSUME NEW a \in mem.ledger, SettleMissing(a) \/ SettlePreserved(a)
        PROVE  Apart
    BY <1>1, <2>4 DEF SettleMissing, SettlePreserved, At, Early, Live
  <2> HIDE DEF Apart
  <2>5. QED
    BY <2>1, <2>2, <2>3, <2>4 DEF Resuming
<1>3. \/ lock' = lock
      \/ /\ lock = Free /\ lock'.holder = Main
         /\ lock'.dumps \in OtherFiles \cup {IndexFirst}
  BY LockTaken
     DEF Resuming, ReconcileChild, ReconcileEvent, ReconcileDone, ReuseChild, DowngradeChild,
         SkipItem, ValidateDone, SettleMissing, SettlePreserved, SettleEvent, SettleDone,
         OtherFiles, IndexFirst
<1>4. QED
  BY <1>2, <1>3, MainThreads

LEMMA ExecutingThreads ==
  ASSUME TypeInv, Threads, Executing \/ Interrupt
  PROVE  Threads'
<1>1. main \in [pc : MainPc, completed : SUBSET Item, pending : SUBSET Item,
                attempts : [Item -> Nat], batch : SUBSET Item, stop : BOOLEAN,
                internals : Nat, exc : Exc, cursor : Nat, focus : IndexRecord]
  BY DEF TypeInv, MainOK
<1>2. ASSUME RemoveArtifactManifest \/ SetRunning \/ WaitDone \/ IntervalCheckpoint
             \/ HandleException \/ InterruptedEvent \/ FinalCheckpoint \/ SkipFinalCheckpoint
             \/ Verdict \/ ReportsGenerated \/ ReportsFailed \/ WriteArtifactManifest
      PROVE  Threads'
  <2>1. /\ run' = run /\ main'.batch = main.batch /\ main'.pending = main.pending
        /\ main'.pc \in Early => main.pc \in Early /\ Live'
        /\ Live'
    BY <1>1, <1>2
       DEF RemoveArtifactManifest, SetRunning, WaitDone, IntervalCheckpoint, HandleException,
           InterruptedEvent, FinalCheckpoint, SkipFinalCheckpoint, Verdict, ReportsGenerated,
           ReportsFailed, WriteArtifactManifest, WriteCheckpoint, At, Early, Live
  <2>2. \/ lock' = lock
        \/ /\ lock = Free /\ lock'.holder = Main
           /\ lock'.dumps \in OtherFiles \cup {IndexFirst}
    BY <1>2, LockTaken
       DEF RemoveArtifactManifest, SetRunning, WaitDone, IntervalCheckpoint, HandleException,
           InterruptedEvent, FinalCheckpoint, SkipFinalCheckpoint, Verdict, ReportsGenerated,
           ReportsFailed, WriteArtifactManifest, WriteCheckpoint, OtherFiles
  <2>3. QED
    BY <2>1, <2>2, MainThreads
<1>3. CASE Exit
  BY <1>3, GoneThreads DEF Exit
<1>4. QED
  BY <1>2, <1>3, PlanThreads, CollectThreads, RefillThreads DEF Executing

(* Every step of a worker is one of its own state alone.                   *)
LEMMA WorkerSteps ==
  ASSUME TypeInv, NEW i \in Item, RunItem(i)
  PROVE  /\ main' = main /\ root' = root /\ sealed' = sealed
         /\ \A j \in Item \ {i} : run'[j] = run[j]
         /\ run[i].pc \notin {"none", "done"} /\ lock.holder # i
         /\ \/ lock' = lock
            \/ /\ lock = Free /\ lock'.holder = i /\ run'[i].pc \in Writing
               /\ lock'.dumps = IF run[i].pc = "terminal" THEN IndexFirst ELSE lock'.dumps
               /\ run[i].pc # "terminal" => lock'.dumps \in OtherFiles
<1>1. run \in [Item -> ItemRun]
  BY DEF TypeInv
<1>2. ASSUME NEW pc, ToPc(i, pc)
      PROVE  run'[i].pc = pc /\ \A j \in Item \ {i} : run'[j] = run[j]
  BY <1>2, ToPcSteps
<1>3. CASE Scheduled(i) \/ ScheduledEvent(i) \/ Started(i) \/ StartedEvent(i)
           \/ Terminal(i) \/ TerminalEvent(i)
  BY <1>2, <1>3, LockTaken
     DEF Scheduled, ScheduledEvent, Started, StartedEvent, Terminal, TerminalEvent, Worker, RunAt,
         Writing, IndexFirst, OtherFiles
<1>4. CASE Authorize(i)
  BY <1>2, <1>4, LockTaken DEF Authorize, RunAt, Writing, OtherFiles
<1>5. CASE NoAuthorizationNeeded(i) \/ ChildReturns(i)
  BY <1>2, <1>5 DEF NoAuthorizationNeeded, ChildReturns, Aside, RunAt
<1>6. CASE ContractFails(i) \/ AuthorizationRefused(i) \/ ChildRaises(i) \/ AcceptResult(i)
  <2>1. PICK r : run' = [run EXCEPT ![i] = r]
    BY <1>6
       DEF ContractFails, AuthorizationRefused, ChildRaises, AcceptResult, ConcludeFailed, Conclude
  <2>2. \A j \in Item \ {i} : run'[j] = run[j]
    BY <1>1, <2>1
  <2>3. QED
    BY <1>6, <2>2
       DEF ContractFails, AuthorizationRefused, ChildRaises, AcceptResult, Aside, RunAt
<1>7. CASE LaunchChild(i) \/ ChildPersistsManifest(i) \/ ChildInterrupted(i)
  BY <1>1, <1>7 DEF LaunchChild, ChildPersistsManifest, ChildInterrupted, Aside, RunAt
<1>8. QED
  BY <1>3, <1>4, <1>5, <1>6, <1>7 DEF RunItem

LEMMA ThreadsInit == Init => Threads
BY ConfigAssumption
   DEF Init, Threads, LockInv, PoolInv, IdleMain, NoRun, Live, Free, Item, Nobody

LEMMA ThreadsNext ==
  ASSUME TypeInv, LedgerInv, Threads, [Next]_vars
  PROVE  Threads'
<1>1. CASE Run \/ Resume \/ Initialize \/ Execute
  <2>1. ~ Live => lock = Free /\ \A i \in Item : lock.holder # i
    BY ConfigAssumption DEF Threads, LockInv, Free, Item, Nobody
  <2>2. /\ run' = run /\ lock' = lock /\ main.pc \in Early
        /\ main'.batch = main.batch /\ main'.pending = main.pending
        /\ ~ Live' => ~ Live
    BY <1>1 DEF Run, Resume, Initialize, Execute, At, TypeInv, MainOK, Early, Live
  <2>3. main.batch \subseteq Item
    BY DEF TypeInv, MainOK
  <2>4. QED
    BY <2>1, <2>2, <2>3 DEF Threads, LockInv, PoolInv
<1>2. CASE Prepare \/ Crash
  BY <1>2, GoneThreads DEF Prepare, Crash
<1>3. CASE Dump
  BY <1>3, DumpThreads
<1>4. CASE Resuming
  BY <1>4, ResumingThreads
<1>5. CASE Executing \/ Interrupt
  BY <1>5, ExecutingThreads
<1>6. ASSUME NEW i \in Item, RunItem(i)
      PROVE  Threads'
  BY <1>6, WorkerSteps, WorkerThreads
<1>7. CASE \E c \in children : DamageChild(c)
  BY <1>7 DEF DamageChild, Threads, LockInv, PoolInv, Live
<1>8. CASE UNCHANGED vars
  BY <1>8 DEF vars, Threads, LockInv, PoolInv, Live
<1>9. QED
  BY <1>1, <1>2, <1>3, <1>4, <1>5, <1>6, <1>7, <1>8 DEF Next, ControllerStep
-----------------------------------------------------------------------------
(* Indexes: attempts of an item are numbered without a gap or a duplicate  *)

KeyOf(r) == <<r.item, r.attempt>>

Distinct(ix) == \A q, r \in ix : q.item = r.item /\ q.attempt = r.attempt => q = r
Dense(ix) == \A i \in Item : \E n \in Nat : AttemptsOf(i, ix) = 1 .. n
Numbered(ix) == Distinct(ix) /\ Dense(ix) /\ \A r \in ix : r.item \in Item

(* An attempt of the old index is still there, with its directory, and no  *)
(* better than it was.                                                     *)
History(old, new) ==
  \A r \in old :
    \E q \in new : /\ q.item = r.item /\ q.attempt = r.attempt /\ q.child = r.child
                   /\ q.validity = "valid" => r.validity = "valid"

(* An attempt that comes after recorded ones, or is one of them.           *)
Follows(i, a, ix) == a = 1 \/ a - 1 \in AttemptsOf(i, ix)

LEMMA IndexTyped ==
  ASSUME NEW ix \in SUBSET IndexRecord
  PROVE  /\ \A r \in ix : /\ r.item \in Nat /\ r.attempt \in Nat /\ r.child \in Nat
                          /\ r.validity \in Validity /\ r.fault \in Fault
         /\ \A i : AttemptsOf(i, ix) \subseteq Nat
         /\ \A r \in ix : r.attempt \in AttemptsOf(r.item, ix) /\ KeyOf(r) \in Keys(ix)
BY DEF IndexRecord, AttemptsOf, KeyOf, Keys

LEMMA KeyInjective ==
  \A q, r : KeyOf(q) = KeyOf(r) <=> q.item = r.item /\ q.attempt = r.attempt
BY DEF KeyOf

LEMMA NothingNumbered == Numbered({}) /\ Keys({}) = {} /\ \A i : AttemptsOf(i, {}) = {}
<1>1. \A i : AttemptsOf(i, {}) = 1 .. 0
  BY DEF AttemptsOf
<1>2. QED
  BY <1>1 DEF Numbered, Distinct, Dense, Keys, AttemptsOf

LEMMA SameHistory == \A ix : History(ix, ix)
BY DEF History

LEMMA HistoryKeys ==
  ASSUME NEW ix, NEW jx, History(ix, jx)
  PROVE  /\ Keys(ix) \subseteq Keys(jx)
         /\ \A i : AttemptsOf(i, ix) \subseteq AttemptsOf(i, jx)
         /\ \A i, a : Follows(i, a, ix) => Follows(i, a, jx)
<1>1. Keys(ix) \subseteq Keys(jx)
  BY DEF History, Keys
<1>2. \A i : AttemptsOf(i, ix) \subseteq AttemptsOf(i, jx)
  BY DEF History, AttemptsOf
<1>3. QED
  BY <1>1, <1>2 DEF Follows

(* The next attempt of an item is recorded.                                *)
LEMMA RecordAdded ==
  ASSUME NEW ix \in SUBSET IndexRecord, Numbered(ix),
         NEW r \in IndexRecord, r.item \in Item, r.attempt >= 1,
         AttemptsOf(r.item, ix) = 1 .. (r.attempt - 1)
  PROVE  /\ r \notin ix /\ Numbered(ix \cup {r}) /\ History(ix, ix \cup {r})
         /\ KeyOf(r) \in Keys(ix \cup {r})
         /\ AttemptsOf(r.item, ix \cup {r}) = 1 .. r.attempt
         /\ \A i : i # r.item => AttemptsOf(i, ix \cup {r}) = AttemptsOf(i, ix)
<1>1. r.attempt \in Nat
  BY DEF IndexRecord
<1>2. \A q \in ix : q.item = r.item => q.attempt \in 1 .. (r.attempt - 1)
  BY DEF AttemptsOf
<1>3. \A q \in ix : ~ (q.item = r.item /\ q.attempt = r.attempt)
  BY <1>1, <1>2
<1>4. AttemptsOf(r.item, ix \cup {r}) = AttemptsOf(r.item, ix) \cup {r.attempt}
  BY DEF AttemptsOf
<1>5. AttemptsOf(r.item, ix \cup {r}) = 1 .. r.attempt
  <2>1. \A k \in Nat : k >= 1 => 1 .. k = (1 .. (k - 1)) \cup {k}
    OBVIOUS
  <2>2. QED
    BY <1>1, <1>4, <2>1
<1>6. \A i : i # r.item => AttemptsOf(i, ix \cup {r}) = AttemptsOf(i, ix)
  BY DEF AttemptsOf
<1>7. Dense(ix \cup {r})
  BY <1>1, <1>5, <1>6 DEF Numbered, Dense
<1>8. Distinct(ix \cup {r})
  BY <1>3 DEF Numbered, Distinct
<1>9. History(ix, ix \cup {r}) /\ KeyOf(r) \in Keys(ix \cup {r})
  BY DEF History, Keys, KeyOf
<1>10. QED
  BY <1>3, <1>5, <1>6, <1>7, <1>8, <1>9 DEF Numbered

(* A record is reclassified; it never becomes valid.                       *)
LEMMA RecordReplaced ==
  ASSUME NEW ix \in SUBSET IndexRecord, Numbered(ix), NEW q \in ix, NEW r \in IndexRecord,
         r.item = q.item, r.attempt = q.attempt, r.child = q.child,
         r.validity = "valid" => q.validity = "valid"
  PROVE  LET jx == (ix \ {q}) \cup {r}
         IN  /\ Numbered(jx) /\ History(ix, jx) /\ Keys(jx) = Keys(ix)
             /\ \A i : AttemptsOf(i, jx) = AttemptsOf(i, ix)
             /\ r \notin ix \ {q}
<1> DEFINE jx == (ix \ {q}) \cup {r}
<1>1. \A p \in ix \ {q} : ~ (p.item = r.item /\ p.attempt = r.attempt)
  BY DEF Numbered, Distinct
<1>2. \A i : AttemptsOf(i, jx) = AttemptsOf(i, ix)
  <2>1. ASSUME NEW i, NEW a
        PROVE  (\E p \in jx : p.item = i /\ a = p.attempt)
                 <=> (\E p \in ix : p.item = i /\ a = p.attempt)
    OBVIOUS
  <2> HIDE DEF jx
  <2>2. QED
    BY <2>1 DEF AttemptsOf
<1>3. Keys(jx) = Keys(ix)
  <2>1. ASSUME NEW k
        PROVE  (\E p \in jx : k = <<p.item, p.attempt>>) <=> (\E p \in ix : k = <<p.item, p.attempt>>)
    OBVIOUS
  <2> HIDE DEF jx
  <2>2. QED
    BY <2>1 DEF Keys
<1>4. History(ix, jx)
  BY DEF History
<1>5. Distinct(jx)
  BY <1>1 DEF Numbered, Distinct
<1>6. Dense(jx) /\ \A p \in jx : p.item \in Item
  <2>1. \A p \in jx : p.item \in Item
    BY DEF Numbered
  <2> HIDE DEF jx
  <2>2. QED
    BY <1>2, <2>1 DEF Numbered, Dense
<1>7. QED
  BY <1>1, <1>2, <1>3, <1>4, <1>5, <1>6 DEF Numbered

(* The latest record of an item is the one with its highest number.        *)
LEMMA LatestIsHighest ==
  ASSUME NEW ix \in SUBSET IndexRecord, NEW i, NEW n \in Nat, AttemptsOf(i, ix) = 1 .. n
  PROVE  /\ \A r \in ix : r.item = i => (r \in LatestOf(i, ix) <=> r.attempt = n)
         /\ \A r \in LatestOf(i, ix) : r \in ix /\ r.item = i /\ r.attempt = n
         /\ LatestOf(i, ix) = {} => n = 0
<1>1. \A r \in ix : r.item = i => r.attempt \in 1 .. n
  BY DEF AttemptsOf
<1>2. n # 0 => \E r \in ix : r.item = i /\ r.attempt = n
  <2>1. n # 0 => n \in AttemptsOf(i, ix)
    OBVIOUS
  <2>2. QED
    BY <2>1 DEF AttemptsOf
<1>3. \A r \in LatestOf(i, ix) : r \in ix /\ r.item = i /\ \A q \in ix : q.item = i => q.attempt <= r.attempt
  BY DEF LatestOf, LatestRecords
<1>4. \A r \in LatestOf(i, ix) : r.attempt = n
  BY <1>1, <1>2, <1>3
<1>5. \A r \in ix : r.item = i /\ r.attempt = n => r \in LatestOf(i, ix)
  BY <1>1 DEF LatestOf, LatestRecords
<1>6. QED
  BY <1>2, <1>3, <1>4, <1>5

LEMMA MaxOfRange ==
  ASSUME NEW n \in Nat
  PROVE  Max((1 .. n) \cup {0}) = n /\ (n > 0 => Max(1 .. n) = n)
<1> DEFINE S == (1 .. n) \cup {0}
           T == 1 .. n
<1>1. S \in SUBSET Nat /\ S # {} /\ Bounded(S) /\ n \in S /\ \A x \in S : x <= n
  BY DEF Bounded
<1>2. T \in SUBSET Nat /\ Bounded(T) /\ (n > 0 => n \in T) /\ \A x \in T : x <= n
  BY DEF Bounded
<1> HIDE DEF S, T
<1>3. Max(S) = n
  <2>1. Max(S) \in S /\ \A y \in S : Max(S) >= y
    BY <1>1, MaxOfBounded
  <2>2. Max(S) \in Nat /\ Max(S) <= n /\ Max(S) >= n
    BY <1>1, <2>1
  <2>3. QED
    BY <2>2
<1>4. ASSUME n > 0
      PROVE  Max(T) = n
  <2>1. Max(T) \in T /\ \A y \in T : Max(T) >= y
    BY <1>2, <1>4, MaxOfBounded
  <2>2. Max(T) \in Nat /\ Max(T) <= n /\ Max(T) >= n
    BY <1>2, <1>4, <2>1
  <2>3. QED
    BY <2>2
<1>5. QED
  BY <1>3, <1>4 DEF S, T
-----------------------------------------------------------------------------
(* Which steps leave the index alone                                       *)

(* Both copies of the index and of the reported ends stay; the lock is not *)
(* taken to write the index.                                               *)
Unfiled ==
  /\ mem'.index = mem.index /\ disk'.index = disk.index
  /\ mem'.events.terminals = mem.events.terminals
  /\ disk'.events.terminals = disk.events.terminals
  /\ lock'.dumps = IndexFirst <=> lock.dumps = IndexFirst

(* The counters that are those of the index and of the ledger stay.        *)
Uncounted ==
  /\ mem'.state.terminal = mem.state.terminal /\ mem'.state.valid = mem.state.valid
  /\ mem'.state.infra = mem.state.infra /\ mem'.state.corrupt = mem.state.corrupt
  /\ mem'.state.authorized = mem.state.authorized /\ mem'.ledger = mem.ledger

Plain == Unfiled /\ Uncounted

LEMMA PlainUpdates ==
  ASSUME TypeInv
  PROVE  /\ UNCHANGED <<mem, disk, lock>> => Plain
         /\ \A t, e : Event(t, e) /\ disk' = disk /\ e.terminals = mem.events.terminals => Plain
         /\ \A st : SetStatus(st) /\ disk' = disk => Plain
         /\ \A pc : WriteCheckpoint(pc) => Plain
<1>1. /\ mem \in Parent /\ disk \in Parent /\ mem.state \in State /\ mem.events \in Events
      /\ disk.events \in Events
  BY DEF TypeInv, ParentOK, Parent
<1>2. UNCHANGED <<mem, disk, lock>> => Plain
  BY DEF Plain, Unfiled, Uncounted
<1>3. ASSUME NEW t, NEW e, Event(t, e), disk' = disk, e.terminals = mem.events.terminals
      PROVE  Plain
  <2>1. mem' = [mem EXCEPT !.events = e] /\ lock'.dumps = <<"events", "state">>
    BY <1>3, LockTaken DEF Event, Locked
  <2>2. lock'.dumps # IndexFirst /\ lock.dumps # IndexFirst
    BY <1>3, <2>1, LockTaken, DumpOrder DEF OtherFiles
  <2>3. QED
    BY <1>1, <1>3, <2>1, <2>2 DEF Plain, Unfiled, Uncounted, Parent
<1>4. ASSUME NEW st, SetStatus(st), disk' = disk
      PROVE  Plain
  <2>1. /\ mem' = [mem EXCEPT !.manifest = st, !.state.status = st, !.state.active = 0]
        /\ lock'.dumps = <<"manifest", "state">>
    BY <1>4, LockTaken DEF SetStatus, Locked
  <2>2. lock'.dumps # IndexFirst /\ lock.dumps # IndexFirst
    BY <1>4, <2>1, LockTaken, DumpOrder DEF OtherFiles
  <2>3. QED
    BY <1>1, <1>4, <2>1, <2>2 DEF Plain, Unfiled, Uncounted, Parent, State
<1>5. ASSUME NEW pc, WriteCheckpoint(pc)
      PROVE  Plain
  BY <1>1, <1>5 DEF WriteCheckpoint, Plain, Unfiled, Uncounted, Parent
<1>6. QED
  BY <1>2, <1>3, <1>4, <1>5

LEMMA PlainExecuting ==
  ASSUME TypeInv, (Executing /\ ~ Exit) \/ Interrupt
  PROVE  Plain /\ children' = children /\ disk'.ledger = disk.ledger /\ root' = root
<1>1. /\ UNCHANGED <<children, root, launches>> /\ disk'.ledger = disk.ledger
      /\ \/ UNCHANGED <<mem, disk, lock>>
         \/ (\E st : SetStatus(st)) /\ disk' = disk
         \/ InterruptedEvent /\ disk' = disk
         \/ \E pc : WriteCheckpoint(pc)
  BY LedgerUntouched
     DEF Executing, Interrupt, RemoveArtifactManifest, SetRunning, PlanWork, Wait, WaitDone, Collect,
         CollectException, IntervalCheckpoint, Refill, StopScheduling, HandleException,
         InterruptedEvent, FinalCheckpoint, SkipFinalCheckpoint, Verdict, ReportsGenerated,
         ReportsFailed, WriteArtifactManifest, WriteCheckpoint, Bookkeeping
<1>2. InterruptedEvent /\ disk' = disk => Plain
  <2>1. [mem.events EXCEPT !.active = 0].terminals = mem.events.terminals
    BY DEF TypeInv, ParentOK, Parent, Events
  <2>2. QED
    BY <2>1, PlainUpdates DEF InterruptedEvent
<1>3. QED
  BY <1>1, <1>2, PlainUpdates

LEMMA CountersKept ==
  ASSUME NEW s \in State
  PROVE  /\ LET z == [s EXCEPT !.scheduled = @ + 1]
            IN  /\ z.terminal = s.terminal /\ z.valid = s.valid /\ z.infra = s.infra
                /\ z.corrupt = s.corrupt /\ z.authorized = s.authorized
         /\ LET z == StartedState(s)
            IN  /\ z.terminal = s.terminal /\ z.valid = s.valid /\ z.infra = s.infra
                /\ z.corrupt = s.corrupt /\ z.authorized = s.authorized
<1> DEFINE o == IF s.observed > s.active + 1 THEN s.observed ELSE s.active + 1
<1>1. StartedState(s) = [s EXCEPT !.active = s.active + 1, !.observed = o]
  BY DEF StartedState, State
<1> HIDE DEF o
<1>2. QED
  BY <1>1 DEF State

(* A worker touches the index when it ends an attempt, the reported ends   *)
(* after that, and the ledger when it is authorized.                       *)
LEMMA PlainWorker ==
  ASSUME TypeInv, NEW i \in Item, RunItem(i), ~ Terminal(i), ~ TerminalEvent(i)
  PROVE  /\ Unfiled /\ (Authorize(i) \/ Plain)
         /\ Authorize(i) \/ disk' = disk
<1>1. /\ mem \in Parent /\ disk \in Parent /\ mem.state \in State /\ mem.events \in Events
  BY DEF TypeInv, ParentOK, Parent
<1>2. CASE ScheduledEvent(i) \/ StartedEvent(i)
  <2>1. /\ [mem.events EXCEPT !.scheduled = @ + 1].terminals = mem.events.terminals
        /\ StartedEvents(mem.events).terminals = mem.events.terminals
    BY <1>1 DEF StartedEvents, Events
  <2>2. QED
    BY <1>2, <2>1, PlainUpdates DEF ScheduledEvent, StartedEvent, Worker, Plain
<1>3. ASSUME Scheduled(i) \/ Started(i)
      PROVE  Plain /\ disk' = disk
  <2> DEFINE s == IF Scheduled(i) THEN [mem.state EXCEPT !.scheduled = @ + 1]
                                  ELSE StartedState(mem.state)
  <2>1. mem' = [mem EXCEPT !.state = s] /\ lock'.dumps = <<"state">> /\ disk' = disk
    BY <1>1, <1>3, LockTaken DEF Scheduled, Started, Locked, Worker, Parent
  <2>2. lock'.dumps # IndexFirst /\ lock.dumps # IndexFirst
    BY <1>3, <2>1, LockTaken, DumpOrder DEF Scheduled, Started
  <2>3. /\ s.terminal = mem.state.terminal /\ s.valid = mem.state.valid
        /\ s.infra = mem.state.infra /\ s.corrupt = mem.state.corrupt
        /\ s.authorized = mem.state.authorized
    BY <1>1, CountersKept
  <2> HIDE DEF s
  <2>4. QED
    BY <1>1, <2>1, <2>2, <2>3 DEF Plain, Unfiled, Uncounted, Parent
<1>4. ASSUME Authorize(i)
      PROVE  Unfiled
  <2> DEFINE a == [item |-> i, attempt |-> main.attempts[i]]
  <2>1. /\ disk' = [disk EXCEPT !.ledger = @ \cup {a}] /\ lock'.dumps = <<"state">>
        /\ mem' = [mem EXCEPT !.ledger = @ \cup {a}, !.state.authorized = @ + 1]
    BY <1>4, LockTaken DEF Authorize, Locked
  <2> HIDE DEF a
  <2>2. lock'.dumps # IndexFirst /\ lock.dumps # IndexFirst
    BY <1>4, <2>1, LockTaken, DumpOrder DEF Authorize
  <2>3. QED
    BY <1>1, <2>1, <2>2 DEF Unfiled, Parent
<1>5. CASE \/ ContractFails(i) \/ NoAuthorizationNeeded(i) \/ AuthorizationRefused(i)
           \/ LaunchChild(i) \/ ChildPersistsManifest(i) \/ ChildReturns(i) \/ ChildRaises(i)
           \/ ChildInterrupted(i) \/ AcceptResult(i)
  <2>1. UNCHANGED <<mem, disk, lock>>
    BY <1>5
       DEF ContractFails, NoAuthorizationNeeded, AuthorizationRefused, LaunchChild,
           ChildPersistsManifest, ChildReturns, ChildRaises, ChildInterrupted, AcceptResult, Aside
  <2>2. QED
    BY <2>1, PlainUpdates DEF Plain
<1>6. QED
  BY <1>2, <1>3, <1>4, <1>5 DEF RunItem, Plain
-----------------------------------------------------------------------------
(* The invariants                                                          *)

(* The index in memory and the file: the file is the one in memory, or the *)
(* one before the last change, whose author still owns the lock.           *)
FilesInv ==
  /\ Numbered(mem.index) /\ Numbered(disk.index)
  /\ Live => /\ History(disk.index, mem.index)
             /\ lock.dumps # IndexFirst => disk.index = mem.index
  /\ root # "ready" => disk = NewParent /\ children = {}

(* An attempt that was given out and is not recorded.                      *)
Open(i) == run[i].pc \in Unrecorded \/ i \in main.pending

OpenNext(ix) ==
  \A i \in Item : Open(i) => /\ main.attempts[i] >= 1
                             /\ AttemptsOf(i, ix) = 1 .. (main.attempts[i] - 1)

OpenInv ==
  /\ OpenNext(mem.index) /\ OpenNext(disk.index)
  /\ \A i \in Item : run[i].pc = "terminal" => KeyOf(run[i].rec) = <<i, main.attempts[i]>>

(* Whoever is about to report the end of an attempt has recorded it.       *)
RecordedInv ==
  /\ \A i \in Item : run[i].pc = "recorded" => KeyOf(run[i].rec) \in Keys(mem.index)
  /\ main.pc \in {"reconciled", "settled"} => KeyOf(main.focus) \in Keys(mem.index)

ReportedInv ==
  /\ mem.events.terminals \subseteq Keys(mem.index)
  /\ disk.events.terminals \subseteq Keys(disk.index)

(* A run directory and an authorization belong to the first attempt of     *)
(* their item or come after a recorded one.                                *)
FollowInv ==
  /\ \A c \in children : Follows(c.item, c.attempt, disk.index)
  /\ \A a \in disk.ledger : Follows(a.item, a.attempt, disk.index)

WorkInv == OpenInv /\ RecordedInv /\ ReportedInv /\ FollowInv

(* What a step of a live controller does to the attempts in hand.          *)
OpenKept(i) ==
  Open(i)' =>
    /\ Open(i) /\ main'.attempts[i] = main.attempts[i]
    /\ AttemptsOf(i, mem'.index) = AttemptsOf(i, mem.index)
    /\ AttemptsOf(i, disk'.index) \in {AttemptsOf(i, mem.index), AttemptsOf(i, disk.index)}

EndsKept(i) ==
  /\ run'[i].pc = "terminal" =>
       \/ KeyOf(run'[i].rec) = <<i, main'.attempts[i]>>
       \/ run[i].pc = "terminal" /\ run'[i].rec = run[i].rec /\ main'.attempts[i] = main.attempts[i]
  /\ run'[i].pc = "recorded" =>
       \/ KeyOf(run'[i].rec) \in Keys(mem'.index)
       \/ run[i].pc = "recorded" /\ run'[i].rec = run[i].rec

FocusKept ==
  main'.pc \in {"reconciled", "settled"} =>
    \/ KeyOf(main'.focus) \in Keys(mem'.index)
    \/ main.pc = main'.pc /\ main'.focus = main.focus

FollowersKept ==
  /\ \A c \in children' : Follows(c.item, c.attempt, disk.index)
  /\ \A a \in disk'.ledger : Follows(a.item, a.attempt, disk.index)

LEMMA WorkKept ==
  ASSUME WorkInv, History(mem.index, mem'.index), History(disk.index, disk'.index),
         \A i \in Item : OpenKept(i) /\ EndsKept(i), FocusKept, FollowersKept,
         mem'.events.terminals \subseteq mem.events.terminals \cup Keys(mem'.index),
         disk'.events.terminals \subseteq disk.events.terminals \cup Keys(disk'.index)
  PROVE  WorkInv'
<1>1. Keys(mem.index) \subseteq Keys(mem'.index) /\ Keys(disk.index) \subseteq Keys(disk'.index)
  BY HistoryKeys
<1>2. \A i, a : Follows(i, a, disk.index) => Follows(i, a, disk'.index)
  BY HistoryKeys
<1>3. OpenInv'
  BY DEF WorkInv, OpenInv, OpenNext, OpenKept, EndsKept
<1>4. RecordedInv'
  BY <1>1 DEF WorkInv, RecordedInv, EndsKept, FocusKept
<1>5. ReportedInv'
  BY <1>1 DEF WorkInv, ReportedInv
<1>6. FollowInv'
  BY <1>2 DEF FollowersKept, FollowInv
<1>7. QED
  BY <1>3, <1>4, <1>5, <1>6 DEF WorkInv

(* A step that leaves the index alone.                                     *)
LEMMA UnfiledStep ==
  ASSUME TypeInv, LedgerInv, FilesInv, WorkInv, Unfiled, Live, root' = root,
         \A i \in Item : Open(i)' => Open(i) /\ main'.attempts[i] = main.attempts[i],
         \A i \in Item : EndsKept(i), FocusKept, FollowersKept
  PROVE  FilesInv' /\ WorkInv'
<1>1. History(mem.index, mem'.index) /\ History(disk.index, disk'.index)
  BY SameHistory DEF Unfiled
<1>2. root' = "ready"
  BY DEF LedgerInv
<1>3. FilesInv'
  BY <1>2 DEF Unfiled, FilesInv
<1>4. \A i \in Item : OpenKept(i)
  BY DEF OpenKept, Unfiled
<1>5. WorkInv'
  BY <1>1, <1>4, WorkKept DEF Unfiled
<1>6. QED
  BY <1>3, <1>5

(* A record enters the index.                                              *)
LEMMA AddedStep ==
  ASSUME TypeInv, LedgerInv, FilesInv, WorkInv, Live, root' = root, NEW r \in IndexRecord,
         NEW t, Locked(t, IndexedParent(r), IndexFirst), disk' = disk, children' = children,
         r.item \in Item, r.attempt >= 1, AttemptsOf(r.item, mem.index) = 1 .. (r.attempt - 1),
         \A i \in Item : Open(i)' => Open(i) /\ main'.attempts[i] = main.attempts[i] /\ i # r.item,
         \A i \in Item : run'[i] = run[i] \/ (i = r.item /\ run'[i].pc = "recorded"
                                                         /\ run'[i].rec = r),
         main'.attempts = main.attempts,
         main'.pc \in {"reconciled", "settled"} => main'.focus = r
  PROVE  /\ FilesInv' /\ WorkInv' /\ mem'.index = mem.index \cup {r} /\ r \notin mem.index
<1>1. lock = Free /\ mem' = IndexedParent(r) /\ lock'.dumps = IndexFirst
  BY LockTaken DEF Locked
<1>2. disk.index = mem.index
  BY <1>1, DumpOrder DEF FilesInv
<1>3. mem.index \in SUBSET IndexRecord /\ mem.events \in Events
  BY DEF TypeInv, ParentOK, Parent
<1>4. mem'.index = mem.index \cup {r} /\ mem'.events = mem.events
  BY <1>1 DEF IndexedParent, TypeInv, ParentOK, Parent
<1>5. /\ r \notin mem.index /\ Numbered(mem'.index) /\ History(mem.index, mem'.index)
      /\ KeyOf(r) \in Keys(mem'.index)
      /\ \A i : i # r.item => AttemptsOf(i, mem'.index) = AttemptsOf(i, mem.index)
  <2>1. Numbered(mem.index)
    BY DEF FilesInv
  <2>2. /\ r \notin mem.index /\ Numbered(mem.index \cup {r})
        /\ History(mem.index, mem.index \cup {r}) /\ KeyOf(r) \in Keys(mem.index \cup {r})
        /\ \A i : i # r.item => AttemptsOf(i, mem.index \cup {r}) = AttemptsOf(i, mem.index)
    BY <1>3, <2>1, RecordAdded
  <2>3. QED
    BY <1>4, <2>2
<1>6. FilesInv'
  BY <1>1, <1>2, <1>5 DEF FilesInv, LedgerInv
<1>7. \A i \in Item : OpenKept(i) /\ EndsKept(i)
  BY <1>2, <1>5 DEF OpenKept, EndsKept
<1>8. FocusKept /\ FollowersKept
  BY <1>5 DEF FocusKept, FollowersKept, WorkInv, FollowInv
<1>9. WorkInv'
  BY <1>4, <1>5, <1>7, <1>8, SameHistory, WorkKept
<1>10. QED
  BY <1>4, <1>5, <1>6, <1>9

(* A record is reclassified, which happens while no worker exists.         *)
LEMMA ReplacedStep ==
  ASSUME TypeInv, LedgerInv, Threads, FilesInv, WorkInv, Live, root' = root,
         main.pc \in Early, main'.pc \in Early \ {"reconciled", "settled"},
         run' = run, main'.pending = main.pending,
         NEW q \in mem.index, NEW r \in IndexRecord,
         Locked(Main, ReplacedParent(q, r), IndexFirst), disk' = disk, children' = children,
         r.item = q.item, r.attempt = q.attempt, r.child = q.child,
         r.validity = "valid" => q.validity = "valid"
  PROVE  /\ FilesInv' /\ WorkInv' /\ mem'.index = (mem.index \ {q}) \cup {r}
         /\ r \notin mem.index \ {q}
<1>1. lock = Free /\ mem' = ReplacedParent(q, r) /\ lock'.dumps = IndexFirst
  BY LockTaken DEF Locked
<1>2. disk.index = mem.index
  BY <1>1, DumpOrder DEF FilesInv
<1>3. mem.index \in SUBSET IndexRecord /\ mem.events \in Events
  BY DEF TypeInv, ParentOK, Parent
<1>4. mem'.index = (mem.index \ {q}) \cup {r} /\ mem'.events = mem.events
  BY <1>1 DEF ReplacedParent, TypeInv, ParentOK, Parent
<1>5. Numbered(mem'.index) /\ History(mem.index, mem'.index) /\ r \notin mem.index \ {q}
  BY <1>3, <1>4, RecordReplaced DEF FilesInv
<1>6. FilesInv'
  BY <1>1, <1>2, <1>5 DEF FilesInv, LedgerInv
<1>7. \A i \in Item : run'[i].pc = "none" /\ ~ Open(i)'
  BY DEF Threads, PoolInv, Open, Unrecorded
<1>8. (\A i \in Item : OpenKept(i) /\ EndsKept(i)) /\ FocusKept /\ FollowersKept
  BY <1>7 DEF OpenKept, EndsKept, FocusKept, FollowersKept, WorkInv, FollowInv
<1>9. WorkInv'
  BY <1>4, <1>5, <1>8, SameHistory, WorkKept
<1>10. QED
  BY <1>4, <1>5, <1>6, <1>9

(* The end of a recorded attempt is reported.                              *)
LEMMA ReportedStep ==
  ASSUME TypeInv, LedgerInv, FilesInv, WorkInv, Live, root' = root, disk' = disk,
         children' = children, NEW t, NEW r, Event(t, TerminalEvents(mem.events, r)),
         KeyOf(r) \in Keys(mem.index),
         \A i \in Item : Open(i)' => Open(i) /\ main'.attempts[i] = main.attempts[i],
         \A i \in Item : EndsKept(i), FocusKept
  PROVE  FilesInv' /\ WorkInv' /\ mem'.index = mem.index
<1>1. /\ lock = Free /\ mem' = [mem EXCEPT !.events = TerminalEvents(mem.events, r)]
      /\ lock'.dumps = <<"events", "state">>
  BY LockTaken DEF Event, Locked
<1>2. mem \in Parent /\ mem.events \in Events
  BY DEF TypeInv, ParentOK, Parent
<1>3. TerminalEvents(mem.events, r).terminals = mem.events.terminals \cup {KeyOf(r)}
  BY <1>2 DEF TerminalEvents, Events, KeyOf
<1>4. mem'.index = mem.index /\ mem'.events.terminals = mem.events.terminals \cup {KeyOf(r)}
  BY <1>1, <1>2, <1>3 DEF Parent
<1>5. lock.dumps # IndexFirst /\ lock'.dumps # IndexFirst
  BY <1>1, DumpOrder DEF OtherFiles
<1>6. FilesInv'
  BY <1>4, <1>5 DEF FilesInv, LedgerInv
<1>7. \A i \in Item : OpenKept(i)
  BY <1>4 DEF OpenKept
<1>8. FollowersKept
  BY DEF FollowersKept, WorkInv, FollowInv
<1>9. WorkInv'
  BY <1>4, <1>7, <1>8, SameHistory, WorkKept
<1>10. QED
  BY <1>4, <1>6, <1>9

LEMMA DumpStep ==
  ASSUME TypeInv, LedgerInv, Threads, FilesInv, WorkInv, Dump
  PROVE  FilesInv' /\ WorkInv' /\ History(disk.index, disk'.index) /\ root = "ready"
<1> DEFINE f == Head(lock.dumps)
<1>1. /\ Live /\ Live' /\ lock'.dumps # IndexFirst /\ root = "ready"
      /\ lock.dumps \in OtherFiles \cup {IndexFirst}
      /\ UNCHANGED <<mem, main, run, children, root>>
  <2>1. Live /\ (lock' = Free \/ lock'.dumps = <<"state">>) /\ lock # Free
    BY DumpThreads, DumpOrder
  <2>2. QED
    BY <2>1, DumpOrder DEF Dump, Live, Threads, LockInv, LedgerInv
<1>2. f \in DumpedFile /\ disk' = [disk EXCEPT ![f] = mem[f]] /\ (f = "index" <=> lock.dumps = IndexFirst)
  BY <1>1, DumpOrder, HeadTailProperties DEF Dump, TypeInv, LockOK
<1> HIDE DEF f
<1>3. mem \in Parent /\ disk \in Parent
  BY DEF TypeInv, ParentOK
<1>4. /\ disk'.index = mem.index /\ disk'.ledger = disk.ledger
      /\ disk'.events \in {disk.events, mem.events}
  <2>1. f = "index" => disk'.index = mem.index
    BY <1>2, <1>3 DEF Parent
  <2>2. f # "index" => disk'.index = disk.index /\ disk.index = mem.index
    BY <1>1, <1>2, <1>3 DEF Parent, FilesInv
  <2>3. disk'.ledger = disk.ledger /\ disk'.events \in {disk.events, mem.events}
    BY <1>2, <1>3 DEF Parent, DumpedFile
  <2>4. QED
    BY <2>1, <2>2, <2>3
<1>5. History(disk.index, disk'.index)
  BY <1>1, <1>4 DEF FilesInv
<1>6. FilesInv'
  BY <1>1, <1>4, SameHistory DEF FilesInv
<1>7. \A i \in Item : OpenKept(i) /\ EndsKept(i)
  BY <1>1, <1>4 DEF OpenKept, EndsKept, Open
<1>8. FocusKept /\ FollowersKept
  BY <1>1, <1>4 DEF FocusKept, FollowersKept, WorkInv, FollowInv
<1>9. disk'.events.terminals \subseteq disk.events.terminals \cup Keys(disk'.index)
  BY <1>4 DEF WorkInv, ReportedInv
<1>10. WorkInv'
  BY <1>1, <1>5, <1>7, <1>8, <1>9, SameHistory, WorkKept
<1>11. QED
  BY <1>1, <1>5, <1>6, <1>10
-----------------------------------------------------------------------------
(* The steps                                                               *)

(* A step that changes the memory of a live controller does one of these.  *)
Still == mem'.index = mem.index /\ Uncounted
Added == \E r \in IndexRecord : r \notin mem.index /\ mem' = IndexedParent(r)
Replaced ==
  \E q \in mem.index : \E r \in IndexRecord :
    r \notin mem.index \ {q} /\ mem' = ReplacedParent(q, r)

LEMMA RecordFields ==
  /\ \A i, a, c, v, f : LET r == RunIndexRecord(i, a, c, v, f)
                        IN  /\ r.item = i /\ r.attempt = a /\ r.child = c
                            /\ r.validity = v /\ r.fault = f
  /\ \A i \in Nat, a \in Nat, c \in Nat, v \in Validity, f \in Fault :
       RunIndexRecord(i, a, c, v, f) \in IndexRecord
BY DEF RunIndexRecord, IndexRecord

(* The number a recovered directory gets is the next one of its item.      *)
LEMMA OrphanIsNext ==
  ASSUME TypeInv, FilesInv, WorkInv, Live, lock.dumps # IndexFirst, NEW c \in children
  PROVE  LET r == OrphanRecord(c)
         IN  /\ r \in IndexRecord /\ r.item = c.item /\ r.item \in Item /\ r.attempt >= 1
             /\ r.child = c.serial /\ r.validity = (IF Replays(c) THEN "valid" ELSE "partial")
             /\ AttemptsOf(r.item, mem.index) = 1 .. (r.attempt - 1)
<1>1. c.item \in Item /\ c.attempt \in Nat /\ Follows(c.item, c.attempt, mem.index)
  BY DEF TypeInv, ChildrenOK, ChildRun, WorkInv, FollowInv, FilesInv
<1>2. PICK n \in Nat : AttemptsOf(c.item, mem.index) = 1 .. n
  BY <1>1 DEF FilesInv, Numbered, Dense
<1>3. OrphanAttempt(c) = n + 1
  <2>1. CASE c.attempt \in 1 .. n
    <3>1. n \in Nat /\ n > 0
      BY <1>2, <2>1
    <3>2. Max(1 .. n) = n
      BY <3>1, MaxOfRange
    <3>3. QED
      BY <1>2, <2>1, <3>2 DEF OrphanAttempt
  <2>2. CASE c.attempt \notin 1 .. n
    <3>1. c.attempt = 1 \/ c.attempt - 1 \in 1 .. n
      BY <1>1, <1>2 DEF Follows
    <3>2. c.attempt = n + 1
      BY <1>1, <1>2, <2>2, <3>1
    <3>3. QED
      BY <1>2, <2>2, <3>2 DEF OrphanAttempt
  <2>3. QED
    BY <2>1, <2>2
<1>4. 1 .. n = 1 .. ((n + 1) - 1) /\ n + 1 >= 1
  BY <1>2
<1>5. QED
  BY <1>1, <1>2, <1>3, <1>4, OrphanType, RecordFields DEF OrphanRecord

LEMMA ReconcilingIndex ==
  ASSUME TypeInv, LedgerInv, Threads, FilesInv, WorkInv,
         (\E c \in children : ReconcileChild(c)) \/ ReconcileEvent \/ ReconcileDone
  PROVE  FilesInv' /\ WorkInv' /\ (Still \/ Added)
<1>1. /\ Live /\ run' = run /\ disk' = disk /\ children' = children /\ root' = root
      /\ main.pc \in Early /\ main.pending = {} /\ \A i \in Item : run[i].pc = "none"
  BY DEF ReconcileChild, ReconcileEvent, ReconcileDone, At, Bookkeeping, Early, Live, Threads, PoolInv
<1>2. main'.pending = {} /\ main'.attempts = main.attempts /\ \A i \in Item : ~ Open(i)'
  BY <1>1 DEF ReconcileChild, ReconcileEvent, ReconcileDone, TypeInv, MainOK, Open, Unrecorded
<1>3. \A i \in Item : EndsKept(i)
  BY <1>1 DEF EndsKept
<1>4. FollowersKept
  BY <1>1 DEF FollowersKept, WorkInv, FollowInv
<1>5. ASSUME NEW c \in children, ReconcileChild(c)
      PROVE  FilesInv' /\ WorkInv' /\ Added
  <2> DEFINE r == OrphanRecord(c)
  <2>1. Locked(Main, IndexedParent(r), IndexFirst) /\ main'.focus = r
    BY <1>5 DEF ReconcileChild, IndexFirst, TypeInv, MainOK
  <2>2. lock.dumps # IndexFirst /\ mem' = IndexedParent(r)
    BY <2>1, LockTaken, DumpOrder DEF Locked
  <2>3. /\ r \in IndexRecord /\ r.item \in Item /\ r.attempt >= 1
        /\ AttemptsOf(r.item, mem.index) = 1 .. (r.attempt - 1)
    BY <1>1, <2>2, OrphanIsNext
  <2> HIDE DEF r
  <2>4. FilesInv' /\ WorkInv' /\ r \notin mem.index
    BY <1>1, <1>2, <2>1, <2>3, AddedStep
  <2>5. QED
    BY <2>2, <2>3, <2>4 DEF Added
<1>6. CASE ReconcileEvent
  <2>1. /\ Event(Main, TerminalEvents(mem.events, main.focus)) /\ main'.pc = "reconcile"
        /\ main.pc = "reconciled"
    BY <1>6 DEF ReconcileEvent, At, TypeInv, MainOK
  <2>2. KeyOf(main.focus) \in Keys(mem.index)
    BY <2>1 DEF WorkInv, RecordedInv
  <2>3. FocusKept
    BY <2>1 DEF FocusKept
  <2>4. FilesInv' /\ WorkInv'
    BY <1>1, <1>2, <1>3, <2>1, <2>2, <2>3, ReportedStep
  <2>5. Still
    BY <2>1 DEF Event, Locked, Still, Uncounted, TypeInv, ParentOK, Parent
  <2>6. QED
    BY <2>4, <2>5
<1>7. CASE ReconcileDone
  <2>1. main'.pc = "validate" /\ UNCHANGED <<mem, disk, lock>>
    BY <1>7 DEF ReconcileDone, TypeInv, MainOK
  <2>2. FocusKept /\ Plain
    BY <2>1, PlainUpdates DEF FocusKept
  <2>3. QED
    BY <1>1, <1>2, <1>3, <1>4, <2>2, UnfiledStep DEF Plain, Unfiled, Still
<1>8. QED
  BY <1>5, <1>6, <1>7

LEMMA ValidatingIndex ==
  ASSUME TypeInv, LedgerInv, Threads, FilesInv, WorkInv,
         (\E i \in Item : ReuseChild(i) \/ DowngradeChild(i) \/ SkipItem(i)) \/ ValidateDone
  PROVE  FilesInv' /\ WorkInv' /\ (Still \/ Replaced)
<1>1. /\ Live /\ run' = run /\ disk' = disk /\ children' = children /\ root' = root
      /\ main.pc = "validate" /\ main.pc \in Early
      /\ main.pending = {} /\ \A i \in Item : run[i].pc = "none"
  BY DEF ReuseChild, DowngradeChild, SkipItem, ValidateDone, Visit, At, Bookkeeping, Early, Live,
         Threads, PoolInv
<1>2. /\ main'.pending = {} /\ main'.attempts = main.attempts
      /\ main'.pc \in {"validate", "settle", "unseal"} /\ \A i \in Item : ~ Open(i)'
  <2>1. \/ main' = Visited \/ (\E i \in Item : main' = [Visited EXCEPT !.completed = @ \cup {i}])
        \/ ValidateDone
    BY DEF ReuseChild, DowngradeChild, SkipItem
  <2>2. /\ main'.pending = {} /\ main'.attempts = main.attempts
        /\ main'.pc \in {"validate", "settle", "unseal"}
    BY <1>1, <2>1 DEF Visited, ValidateDone, TypeInv, MainOK
  <2>3. QED
    BY <1>1, <2>2 DEF Open, Unrecorded
<1>3. (\A i \in Item : EndsKept(i)) /\ FocusKept /\ FollowersKept
  BY <1>1, <1>2 DEF EndsKept, FocusKept, FollowersKept, WorkInv, FollowInv
<1>4. ASSUME NEW i \in Item, DowngradeChild(i)
      PROVE  FilesInv' /\ WorkInv' /\ Replaced
  <2>1. PICK q \in LatestOf(i, mem.index) :
          /\ q.validity = "valid"
          /\ Locked(Main, ReplacedParent(q, [q EXCEPT !.validity = "corrupt", !.fault = "none"]),
                    IndexFirst)
    BY <1>4 DEF DowngradeChild, IndexFirst
  <2> DEFINE r == [q EXCEPT !.validity = "corrupt", !.fault = "none"]
  <2>2. q \in mem.index /\ q \in IndexRecord
    BY DEF LatestOf, LatestRecords, TypeInv, ParentOK, Parent
  <2>3. /\ r \in IndexRecord /\ r.item = q.item /\ r.attempt = q.attempt /\ r.child = q.child
        /\ r.validity # "valid"
    BY <2>2 DEF IndexRecord, Validity, Fault
  <2>4. Locked(Main, ReplacedParent(q, r), IndexFirst) /\ mem' = ReplacedParent(q, r)
    BY <2>1 DEF Locked
  <2> HIDE DEF r
  <2>5. FilesInv' /\ WorkInv' /\ r \notin mem.index \ {q}
    <3>1. main'.pc \in Early \ {"reconciled", "settled"}
      BY <1>2 DEF Early
    <3>2. QED
      BY <1>1, <1>2, <2>2, <2>3, <2>4, <3>1, ReplacedStep
  <2>6. QED
    BY <2>2, <2>3, <2>4, <2>5 DEF Replaced
<1>5. ASSUME (\E i \in Item : ReuseChild(i) \/ SkipItem(i)) \/ ValidateDone
      PROVE  FilesInv' /\ WorkInv' /\ Still
  <2>1. UNCHANGED <<mem, disk, lock>> \/ Event(Main, mem.events)
    BY <1>5 DEF ReuseChild, SkipItem, ValidateDone
  <2>2. Plain
    BY <1>1, <2>1, PlainUpdates
  <2>3. QED
    BY <1>1, <1>2, <1>3, <2>2, UnfiledStep DEF Plain, Unfiled, Still
<1>6. QED
  BY <1>4, <1>5

LEMMA SettlingIndex ==
  ASSUME TypeInv, LedgerInv, Threads, FilesInv, WorkInv,
         (\E a \in mem.ledger : SettleMissing(a) \/ SettlePreserved(a)) \/ SettleEvent \/ SettleDone
  PROVE  FilesInv' /\ WorkInv' /\ (Still \/ Added \/ Replaced)
<1>1. /\ Live /\ run' = run /\ disk' = disk /\ children' = children /\ root' = root
      /\ main.pc \in Early /\ main.pending = {} /\ \A i \in Item : run[i].pc = "none"
  BY DEF SettleMissing, SettlePreserved, SettleEvent, SettleDone, At, Bookkeeping, Early, Live,
         Threads, PoolInv
<1>2. main'.pending = {} /\ main'.attempts = main.attempts /\ \A i \in Item : ~ Open(i)'
  BY <1>1 DEF SettleMissing, SettlePreserved, SettleEvent, SettleDone, TypeInv, MainOK, Open,
              Unrecorded
<1>3. \A i \in Item : EndsKept(i)
  BY <1>1 DEF EndsKept
<1>4. FollowersKept
  BY <1>1 DEF FollowersKept, WorkInv, FollowInv
<1>5. ASSUME NEW a \in mem.ledger, SettleMissing(a)
      PROVE  FilesInv' /\ WorkInv' /\ Added
  <2> DEFINE r == RunIndexRecord(a.item, a.attempt, 0, "missing", "local")
  <2>1. /\ Locked(Main, IndexedParent(r), IndexFirst) /\ main'.focus = r
        /\ LatestOf(a.item, mem.index) = {}
    BY <1>5 DEF SettleMissing, IndexFirst, TypeInv, MainOK
  <2>2. lock.dumps # IndexFirst /\ mem' = IndexedParent(r)
    BY <2>1, LockTaken, DumpOrder DEF Locked
  <2>3. a \in Authorization /\ a \in disk.ledger /\ disk.index = mem.index
    BY <1>1, <2>2 DEF TypeInv, ParentOK, Parent, LedgerInv, FilesInv
  <2>4. a.item \in Item /\ a.item \in Nat /\ a.attempt \in Nat
    BY <2>3 DEF Authorization, Item
  <2>5. /\ r \in IndexRecord /\ r.item = a.item /\ r.attempt = a.attempt
    BY <2>4, RecordFields DEF Validity, Fault
  <2>6. AttemptsOf(a.item, mem.index) = 1 .. 0
    <3>1. PICK n \in Nat : AttemptsOf(a.item, mem.index) = 1 .. n
      BY <2>4 DEF FilesInv, Numbered, Dense
    <3>2. n = 0
      BY <2>1, <3>1, LatestIsHighest DEF TypeInv, ParentOK, Parent
    <3>3. QED
      BY <3>1, <3>2
  <2>7. a.attempt = 1
    BY <2>3, <2>6 DEF WorkInv, FollowInv, Follows
  <2> HIDE DEF r
  <2>8. r.item \in Item /\ r.attempt >= 1 /\ AttemptsOf(r.item, mem.index) = 1 .. (r.attempt - 1)
    BY <2>4, <2>5, <2>6, <2>7
  <2>9. FilesInv' /\ WorkInv' /\ r \notin mem.index
    BY <1>1, <1>2, <2>1, <2>5, <2>8, AddedStep
  <2>10. QED
    BY <2>2, <2>5, <2>9 DEF Added
<1>6. ASSUME NEW a \in mem.ledger, SettlePreserved(a)
      PROVE  FilesInv' /\ WorkInv' /\ Replaced
  <2>1. PICK q \in LatestOf(a.item, mem.index) :
          /\ q.validity # "valid"
          /\ Locked(Main, ReplacedParent(q, [q EXCEPT !.fault = "local"]), IndexFirst)
    BY <1>6 DEF SettlePreserved, IndexFirst
  <2> DEFINE r == [q EXCEPT !.fault = "local"]
  <2>2. q \in mem.index /\ q \in IndexRecord
    BY DEF LatestOf, LatestRecords, TypeInv, ParentOK, Parent
  <2>3. /\ r \in IndexRecord /\ r.item = q.item /\ r.attempt = q.attempt /\ r.child = q.child
        /\ r.validity # "valid"
    BY <2>1, <2>2 DEF IndexRecord, Fault
  <2>4. Locked(Main, ReplacedParent(q, r), IndexFirst) /\ mem' = ReplacedParent(q, r)
    BY <2>1 DEF Locked
  <2> HIDE DEF r
  <2>5. main'.pc \in Early \ {"reconciled", "settled"}
    BY <1>6 DEF SettlePreserved, At, TypeInv, MainOK, Early
  <2>6. FilesInv' /\ WorkInv' /\ r \notin mem.index \ {q}
    BY <1>1, <1>2, <2>2, <2>3, <2>4, <2>5, ReplacedStep
  <2>7. QED
    BY <2>2, <2>3, <2>4, <2>6 DEF Replaced
<1>7. CASE SettleEvent
  <2>1. /\ Event(Main, TerminalEvents(mem.events, main.focus)) /\ main'.pc = "settle"
        /\ main.pc = "settled"
    BY <1>7 DEF SettleEvent, At, TypeInv, MainOK
  <2>2. KeyOf(main.focus) \in Keys(mem.index)
    BY <2>1 DEF WorkInv, RecordedInv
  <2>3. FocusKept
    BY <2>1 DEF FocusKept
  <2>4. FilesInv' /\ WorkInv'
    BY <1>1, <1>2, <1>3, <2>1, <2>2, <2>3, ReportedStep
  <2>5. Still
    BY <2>1 DEF Event, Locked, Still, Uncounted, TypeInv, ParentOK, Parent
  <2>6. QED
    BY <2>4, <2>5
<1>8. CASE SettleDone
  <2>1. main'.pc = "unseal" /\ UNCHANGED <<mem, disk, lock>>
    BY <1>8 DEF SettleDone, TypeInv, MainOK
  <2>2. FocusKept /\ Plain
    BY <2>1, PlainUpdates DEF FocusKept
  <2>3. QED
    BY <1>1, <1>2, <1>3, <1>4, <2>2, UnfiledStep DEF Plain, Unfiled, Still
<1>9. QED
  BY <1>5, <1>6, <1>7, <1>8

(* Every pending item gets the number after its last recorded attempt.     *)
LEMMA PlanIndex ==
  ASSUME TypeInv, LedgerInv, Threads, FilesInv, WorkInv, PlanWork
  PROVE  FilesInv' /\ WorkInv' /\ Still
<1>1. /\ Live /\ UNCHANGED <<mem, disk, lock, children, root>> /\ main.pc = "plan"
      /\ \A i \in Item : run[i].pc = "none"
  BY DEF PlanWork, At, Live, Bookkeeping, Threads, PoolInv, Early
<1>2. lock = Free
  BY <1>1 DEF PlanWork, At, Threads, LockInv, TypeInv, LockOK, Writing
<1>3. disk.index = mem.index
  BY <1>1, <1>2, DumpOrder DEF FilesInv
<1>4. /\ main'.pc = "wait" /\ main'.pending = Pending \ Window(Pending)
      /\ main'.attempts = [i \in Item |-> IF i \in Pending THEN NextAttempt(i) ELSE 0]
      /\ Submit(Window(Pending))
  BY DEF PlanWork, TypeInv, MainOK
<1>5. \A i \in Item : /\ run'[i].pc \in {"none", "queued"}
                      /\ run'[i].pc = "queued" => i \in Pending
  <2> DEFINE W == Window(Pending)
  <2>1. Submit(W) /\ \A i \in W : i \in Pending
    BY <1>4 DEF Window
  <2> HIDE DEF W
  <2>2. \A i \in Item : IF i \in W THEN run'[i].pc = "queued" ELSE run'[i] = run[i]
    BY <2>1, Resubmitted
  <2>3. QED
    BY <1>1, <2>1, <2>2
<1>6. \A i \in Item : Open(i)' => i \in Pending
  BY <1>4, <1>5 DEF Open, Unrecorded
<1>7. ASSUME NEW i \in Item, Open(i)'
      PROVE  main'.attempts[i] >= 1 /\ AttemptsOf(i, mem.index) = 1 .. (main'.attempts[i] - 1)
  <2>1. PICK n \in Nat : AttemptsOf(i, mem.index) = 1 .. n
    BY DEF FilesInv, Numbered, Dense
  <2>2. main'.attempts[i] = n + 1
    BY <1>4, <1>6, <1>7, <2>1, MaxOfRange DEF NextAttempt
  <2>3. (n + 1) - 1 = n /\ n + 1 >= 1
    BY <2>1
  <2>4. QED
    BY <2>1, <2>2, <2>3
<1>8. OpenInv'
  BY <1>1, <1>3, <1>5, <1>7 DEF OpenInv, OpenNext
<1>9. RecordedInv' /\ ReportedInv' /\ FollowInv'
  BY <1>1, <1>4, <1>5 DEF WorkInv, RecordedInv, ReportedInv, FollowInv
<1>10. FilesInv'
  BY <1>1 DEF FilesInv, LedgerInv
<1>11. Still
  BY <1>1 DEF Still, Uncounted
<1>12. QED
  BY <1>8, <1>9, <1>10, <1>11 DEF WorkInv

LEMMA ExecutingIndex ==
  ASSUME TypeInv, LedgerInv, Threads, FilesInv, WorkInv, (Executing /\ ~ Exit) \/ Interrupt
  PROVE  FilesInv' /\ WorkInv' /\ Still
<1>1. CASE PlanWork
  BY <1>1, PlanIndex
<1>2. ASSUME ~ PlanWork
      PROVE  FilesInv' /\ WorkInv' /\ Still
  <2> DEFINE Workers == \A i \in Item : /\ Open(i)' => Open(i)
                                        /\ run'[i].pc \in {"terminal", "recorded"} => run'[i] = run[i]
  <2>1. main \in [pc : MainPc, completed : SUBSET Item, pending : SUBSET Item,
                  attempts : [Item -> Nat], batch : SUBSET Item, stop : BOOLEAN,
                  internals : Nat, exc : Exc, cursor : Nat, focus : IndexRecord]
    BY DEF TypeInv, MainOK
  <2>2. /\ Plain /\ children' = children /\ disk'.ledger = disk.ledger /\ root' = root
    BY PlainExecuting
  <2>3. ASSUME RemoveArtifactManifest \/ SetRunning \/ Wait \/ WaitDone \/ IntervalCheckpoint
               \/ HandleException \/ InterruptedEvent \/ FinalCheckpoint \/ SkipFinalCheckpoint
               \/ Verdict \/ ReportsGenerated \/ ReportsFailed \/ WriteArtifactManifest
        PROVE  /\ Workers /\ Live /\ main'.attempts = main.attempts
               /\ main'.pc \notin {"reconciled", "settled"}
    <3>1. /\ run' = run /\ main'.pending = main.pending /\ Live
          /\ main'.attempts = main.attempts /\ main'.pc \notin {"reconciled", "settled"}
      BY <2>1, <2>3
         DEF RemoveArtifactManifest, SetRunning, Wait, WaitDone, IntervalCheckpoint,
             HandleException, InterruptedEvent, FinalCheckpoint, SkipFinalCheckpoint, Verdict,
             ReportsGenerated, ReportsFailed, WriteArtifactManifest, WriteCheckpoint, At, Live
    <3>2. QED
      BY <3>1 DEF Open
  <2>4. ASSUME (\E i \in Item : Collect(i) \/ CollectException(i)) \/ StopScheduling \/ Interrupt
        PROVE  /\ Workers /\ Live /\ main'.attempts = main.attempts
               /\ main'.pc \notin {"reconciled", "settled"}
    <3>1. /\ main'.pending = main.pending /\ Live
          /\ main'.attempts = main.attempts /\ main'.pc \notin {"reconciled", "settled"}
          /\ \/ run' = run \/ run' = Cancelled
             \/ \E i \in Item : run' = [run EXCEPT ![i] = NoRun] \/ run' = [Cancelled EXCEPT ![i] = NoRun]
      <4>1. CASE \E i \in Item : Collect(i)
        <5>1. PICK i \in Item : Collect(i)
          BY <4>1
        <5>2. main'.pc \in {"checkpoint", "refill"} /\ run' = [run EXCEPT ![i] = NoRun]
          BY <2>1, <5>1 DEF Collect
        <5>3. /\ main.pc = "collect" /\ main'.pending = main.pending
              /\ main'.attempts = main.attempts
          BY <2>1, <5>1 DEF Collect, At
        <5>4. QED
          BY <5>2, <5>3 DEF Live
      <4>2. CASE \E i \in Item : CollectException(i)
        BY <2>1, <4>2 DEF CollectException, At, Live
      <4>3. CASE StopScheduling \/ Interrupt
        BY <2>1, <4>3 DEF StopScheduling, Interrupt, At, Live
      <4>4. QED
        BY <2>4, <4>1, <4>2, <4>3
    <3>2. \A j \in Item : Cancelled[j] = NoRun \/ Cancelled[j] = run[j]
      BY Resubmitted
    <3>3. ASSUME NEW j \in Item
          PROVE  run'[j] = NoRun \/ run'[j] = run[j]
      <4>1. CASE run' = run \/ run' = Cancelled
        BY <3>2, <4>1
      <4>2. ASSUME NEW i \in Item,
                   run' = [run EXCEPT ![i] = NoRun] \/ run' = [Cancelled EXCEPT ![i] = NoRun]
            PROVE  run'[j] = NoRun \/ run'[j] = run[j]
        <5>1. run \in [Item -> ItemRun] /\ Cancelled \in [Item -> ItemRun]
          BY SubmitType DEF TypeInv
        <5>2. run'[j] = NoRun \/ run'[j] = run[j] \/ run'[j] = Cancelled[j]
          BY <4>2, <5>1
        <5>3. QED
          BY <3>2, <5>2
      <4>3. QED
        BY <3>1, <4>1, <4>2
    <3>4. NoRun.pc = "none"
      BY Resubmitted
    <3>5. QED
      BY <3>1, <3>3, <3>4 DEF Open, Unrecorded
  <2>5. ASSUME Refill
        PROVE  /\ Workers /\ Live /\ main'.attempts = main.attempts
               /\ main'.pc \notin {"reconciled", "settled"}
    <3> DEFINE next == {i \in main.pending : \A j \in main.pending : i <= j}
    <3>1. /\ main'.pending = main.pending \ next /\ Submit(next) /\ Live
          /\ main'.attempts = main.attempts /\ main'.pc \notin {"reconciled", "settled"}
      BY <2>1, <2>5 DEF Refill, At, Live
    <3>2. next \subseteq main.pending
      OBVIOUS
    <3> HIDE DEF next
    <3>3. \A j \in Item : (j \in next /\ run'[j].pc = "queued") \/ run'[j] = run[j]
      BY <3>1, Resubmitted
    <3>4. QED
      BY <3>1, <3>2, <3>3 DEF Open, Unrecorded
  <2> HIDE DEF Workers
  <2>6. /\ Workers /\ Live /\ main'.attempts = main.attempts
        /\ main'.pc \notin {"reconciled", "settled"}
    BY <1>2, <2>3, <2>4, <2>5 DEF Executing
  <2>7. (\A i \in Item : EndsKept(i)) /\ FocusKept /\ FollowersKept
    BY <2>2, <2>6 DEF Workers, EndsKept, FocusKept, FollowersKept, WorkInv, FollowInv
  <2>8. \A i \in Item : Open(i)' => Open(i) /\ main'.attempts[i] = main.attempts[i]
    BY <2>6 DEF Workers
  <2>9. QED
    BY <2>2, <2>6, <2>7, <2>8, UnfiledStep DEF Plain, Unfiled, Still
<1>3. QED
  BY <1>1, <1>2
-----------------------------------------------------------------------------
(* A worker's steps                                                        *)

(* What becomes of the run directories under a worker.                     *)
LEMMA WorkerChildren ==
  ASSUME TypeInv, NEW i \in Item, RunItem(i)
  PROVE  \A c \in children' :
           (\E d \in children : d.item = c.item /\ d.attempt = c.attempt)
             \/ (run[i].pc = "launch" /\ c.item = i /\ c.attempt = main.attempts[i])
<1>1. CASE LaunchChild(i)
  BY <1>1 DEF LaunchChild, RunAt
<1>2. CASE ChildPersistsManifest(i) \/ ChildReturns(i)
  <2>1. Child(i) \in children
    BY <1>2, ChildType DEF ChildPersistsManifest, ChildReturns, RunAt
  <2>2. PICK s, f : children' = (children \ {Child(i)}) \cup {[Child(i) EXCEPT !.state = s, !.fault = f]}
    BY <1>2 DEF ChildPersistsManifest, ChildReturns, ChildBecomes
  <2> DEFINE d == [Child(i) EXCEPT !.state = s, !.fault = f]
  <2>3. d.item = Child(i).item /\ d.attempt = Child(i).attempt
    BY <2>1 DEF TypeInv, ChildrenOK, ChildRun
  <2> HIDE DEF d
  <2>4. children' \subseteq children \cup {d}
    BY <2>2 DEF d
  <2>5. QED
    BY <2>1, <2>3, <2>4
<1>3. CASE ~ LaunchChild(i) /\ ~ ChildPersistsManifest(i) /\ ~ ChildReturns(i)
  <2>1. children' = children
    BY <1>3
       DEF RunItem, Scheduled, ScheduledEvent, Started, StartedEvent, ContractFails,
           NoAuthorizationNeeded, Authorize, AuthorizationRefused, ChildRaises, ChildInterrupted,
           AcceptResult, Terminal, TerminalEvent, Worker, Aside, Bookkeeping
  <2>2. QED
    BY <2>1
<1>4. QED
  BY <1>1, <1>2, <1>3

(* What an attempt of a worker ends with.                                  *)
LEMMA WorkerEnds ==
  ASSUME TypeInv, NEW i \in Item, RunItem(i)
  PROVE  /\ run'[i].pc \in Unrecorded => run[i].pc \in Unrecorded
         /\ run'[i].pc = "terminal" => KeyOf(run'[i].rec) = <<i, main.attempts[i]>>
         /\ run'[i].pc = "recorded" => Terminal(i) /\ run'[i].rec = run[i].rec
<1>1. run \in [Item -> ItemRun]
  BY DEF TypeInv
<1>2. ASSUME NEW pc, ToPc(i, pc)
      PROVE  run'[i].pc = pc /\ run'[i].rec = run[i].rec
  BY <1>1, <1>2 DEF ToPc, ItemRun
<1>3. CASE Scheduled(i) \/ ScheduledEvent(i) \/ Started(i) \/ StartedEvent(i)
           \/ Terminal(i) \/ TerminalEvent(i) \/ Authorize(i) \/ NoAuthorizationNeeded(i)
           \/ ChildReturns(i)
  BY <1>2, <1>3
     DEF Scheduled, ScheduledEvent, Started, StartedEvent, Terminal, TerminalEvent, Authorize,
         NoAuthorizationNeeded, ChildReturns, RunAt, Unrecorded
<1>4. CASE ContractFails(i) \/ AuthorizationRefused(i) \/ ChildRaises(i) \/ AcceptResult(i)
  <2>1. /\ run[i].pc \in Unrecorded
        /\ \E serial, validity, fault, exc, internal :
             Conclude(i, serial, validity, fault, exc, internal)
    BY <1>4
       DEF ContractFails, AuthorizationRefused, ChildRaises, AcceptResult, ConcludeFailed, RunAt,
           Unrecorded
  <2>2. PICK serial, validity, fault, exc, internal :
          Conclude(i, serial, validity, fault, exc, internal)
    BY <2>1
  <2> DEFINE r == [pc |-> "terminal", serial |-> serial, exc |-> exc, internal |-> internal,
                   rec |-> RunIndexRecord(i, main.attempts[i], serial, validity, fault)]
  <2>3. run'[i] = r
    BY <1>1, <2>2 DEF Conclude
  <2>4. r.pc = "terminal" /\ KeyOf(r.rec) = <<i, main.attempts[i]>>
    BY RecordFields DEF KeyOf
  <2>5. QED
    BY <2>1, <2>3, <2>4
<1>5. CASE LaunchChild(i) \/ ChildPersistsManifest(i) \/ ChildInterrupted(i)
  <2>1. run[i].pc \in {"launch", "running"} /\ run'[i].pc \in {"running", "done"}
    BY <1>1, <1>5 DEF LaunchChild, ChildPersistsManifest, ChildInterrupted, RunAt, Aside, ItemRun
  <2>2. QED
    BY <2>1 DEF Unrecorded
<1>6. QED
  BY <1>3, <1>4, <1>5 DEF RunItem

LEMMA OpenFollows ==
  ASSUME WorkInv, TypeInv, NEW i \in Item, Open(i)
  PROVE  Follows(i, main.attempts[i], disk.index)
<1>1. /\ main.attempts[i] \in Nat /\ main.attempts[i] >= 1
      /\ AttemptsOf(i, disk.index) = 1 .. (main.attempts[i] - 1)
  BY DEF WorkInv, OpenInv, OpenNext, TypeInv, MainOK
<1>2. main.attempts[i] = 1 \/ main.attempts[i] - 1 \in 1 .. (main.attempts[i] - 1)
  BY <1>1
<1>3. QED
  BY <1>1, <1>2 DEF Follows

LEMMA WorkerFollowers ==
  ASSUME TypeInv, WorkInv, NEW i \in Item, RunItem(i)
  PROVE  FollowersKept
<1>1. run[i].pc \in {"launch", "authorize"} => Follows(i, main.attempts[i], disk.index)
  BY OpenFollows DEF Open, Unrecorded
<1>2. \A c \in children' : Follows(c.item, c.attempt, disk.index)
  BY <1>1, WorkerChildren DEF WorkInv, FollowInv
<1>3. CASE Authorize(i)
  <2> DEFINE a == [item |-> i, attempt |-> main.attempts[i]]
  <2>1. disk' = [disk EXCEPT !.ledger = @ \cup {a}] /\ run[i].pc = "authorize"
    BY <1>3 DEF Authorize, RunAt
  <2>2. a.item = i /\ a.attempt = main.attempts[i]
    OBVIOUS
  <2> HIDE DEF a
  <2>3. disk'.ledger = disk.ledger \cup {a}
    BY <2>1 DEF TypeInv, ParentOK, Parent
  <2>4. \A b \in disk'.ledger : Follows(b.item, b.attempt, disk.index)
    BY <1>1, <2>1, <2>2, <2>3 DEF WorkInv, FollowInv
  <2>5. QED
    BY <1>2, <2>4 DEF FollowersKept
<1>4. CASE ~ Authorize(i)
  <2>1. disk' = disk
    BY <1>4
       DEF RunItem, Scheduled, ScheduledEvent, Started, StartedEvent, ContractFails,
           NoAuthorizationNeeded, AuthorizationRefused, LaunchChild, ChildPersistsManifest,
           ChildReturns, ChildRaises, ChildInterrupted, AcceptResult, Terminal, TerminalEvent,
           Worker, Aside
  <2>2. QED
    BY <1>2, <2>1 DEF FollowersKept, WorkInv, FollowInv
<1>5. QED
  BY <1>3, <1>4

LEMMA WorkerIndex ==
  ASSUME TypeInv, LedgerInv, Threads, FilesInv, WorkInv, NEW i \in Item, RunItem(i)
  PROVE  FilesInv' /\ WorkInv' /\ (Still \/ Added \/ Authorize(i))
<1>1. /\ Live /\ main' = main /\ root' = root /\ main.pc \notin {"reconciled", "settled"}
      /\ i \notin main.pending /\ \A j \in Item \ {i} : run'[j] = run[j]
  <2>1. run[i].pc # "none" /\ main' = main /\ root' = root /\ \A j \in Item \ {i} : run'[j] = run[j]
    BY WorkerSteps
  <2>2. QED
    BY <2>1, WorkersLive DEF Threads, PoolInv, Early
<1>2. \A j \in Item : Open(j)' => Open(j) /\ main'.attempts[j] = main.attempts[j]
  BY <1>1, WorkerEnds DEF Open
<1>3. FocusKept /\ FollowersKept
  BY <1>1, WorkerFollowers DEF FocusKept
<1>4. CASE Terminal(i)
  <2> DEFINE r == run[i].rec
  <2>1. /\ Locked(i, IndexedParent(r), IndexFirst) /\ disk' = disk /\ children' = children
        /\ run[i].pc = "terminal" /\ run'[i].pc = "recorded" /\ run'[i].rec = r
    <3>1. run'[i].pc = "recorded"
      BY <1>4, ToPcSteps DEF Terminal
    <3>2. QED
      BY <1>4, <3>1, WorkerEnds DEF Terminal, IndexFirst, RunAt, Worker, Bookkeeping
  <2>2. r \in IndexRecord /\ mem' = IndexedParent(r)
    BY <2>1 DEF TypeInv, ItemRun, Locked
  <2> HIDE DEF r
  <2>3. r.item = i /\ r.attempt = main.attempts[i] /\ Open(i)
    BY <2>1 DEF r, WorkInv, OpenInv, KeyOf, Open, Unrecorded
  <2>4. r.attempt >= 1 /\ AttemptsOf(r.item, mem.index) = 1 .. (r.attempt - 1)
    BY <2>3 DEF WorkInv, OpenInv, OpenNext
  <2>5. \A j \in Item : Open(j)' => Open(j) /\ main'.attempts[j] = main.attempts[j] /\ j # r.item
    BY <1>1, <1>2, <2>1, <2>3 DEF Open, Unrecorded
  <2>6. FilesInv' /\ WorkInv' /\ r \notin mem.index
    BY <1>1, <2>1, <2>2, <2>3, <2>4, <2>5, AddedStep
  <2>7. QED
    BY <2>2, <2>6 DEF Added
<1>5. CASE TerminalEvent(i)
  <2> DEFINE r == run[i].rec
  <2>1. /\ Event(i, TerminalEvents(mem.events, r)) /\ disk' = disk /\ children' = children
        /\ run[i].pc = "recorded" /\ run'[i].pc = "done"
    BY <1>5, ToPcSteps DEF TerminalEvent, RunAt, Worker, Bookkeeping
  <2>2. KeyOf(r) \in Keys(mem.index)
    BY <2>1 DEF WorkInv, RecordedInv
  <2>3. \A j \in Item : EndsKept(j)
    BY <1>1, <2>1 DEF EndsKept
  <2> HIDE DEF r
  <2>4. FilesInv' /\ WorkInv'
    BY <1>1, <1>2, <1>3, <2>1, <2>2, <2>3, ReportedStep
  <2>5. Still
    BY <2>1 DEF Event, Locked, Still, Uncounted, TypeInv, ParentOK, Parent
  <2>6. QED
    BY <2>4, <2>5
<1>6. CASE ~ Terminal(i) /\ ~ TerminalEvent(i)
  <2>1. Unfiled /\ (Authorize(i) \/ Plain)
    BY <1>6, PlainWorker
  <2>2. \A j \in Item : EndsKept(j)
    BY <1>1, <1>6, WorkerEnds DEF EndsKept
  <2>3. FilesInv' /\ WorkInv'
    BY <1>1, <1>2, <1>3, <2>1, <2>2, UnfiledStep
  <2>4. QED
    BY <2>1, <2>3 DEF Plain, Unfiled, Still
<1>7. QED
  BY <1>4, <1>5, <1>6
-----------------------------------------------------------------------------
(* A controller process comes and goes                                     *)

LEMMA NobodyWorks ==
  ASSUME \A i \in Item : run[i].pc = "none", main.pending = {}
  PROVE  OpenInv
BY DEF OpenInv, OpenNext, Open, Unrecorded

LEMMA NewParentIndex ==
  /\ NewParent.index = {} /\ NewParent.events.terminals = {} /\ NewParent.ledger = {}
  /\ Numbered(NewParent.index)
BY NothingNumbered DEF NewParent

LEMMA GoneIndex ==
  ASSUME FilesInv, WorkInv, Gone
  PROVE  FilesInv' /\ WorkInv' /\ ~ Live'
<1>1. /\ mem' = NewParent /\ main' = IdleMain /\ run' = [i \in Item |-> NoRun]
      /\ UNCHANGED <<disk, root, children>>
  BY DEF Gone, Bookkeeping
<1>2. /\ \A i \in Item : run'[i].pc = "none"
      /\ main'.pending = {} /\ main'.pc = "idle"
  BY <1>1 DEF NoRun, IdleMain
<1>3. ~ Live'
  BY <1>2 DEF Live
<1>4. FilesInv'
  BY <1>1, <1>3, NewParentIndex DEF FilesInv
<1>5. OpenInv'
  BY <1>2, NobodyWorks DEF OpenInv, OpenNext, Open, Unrecorded
<1>6. RecordedInv' /\ ReportedInv' /\ FollowInv'
  BY <1>1, <1>2, NewParentIndex DEF WorkInv, RecordedInv, ReportedInv, FollowInv
<1>7. QED
  BY <1>3, <1>4, <1>5, <1>6 DEF WorkInv

LEMMA StartingIndex ==
  ASSUME TypeInv, LedgerInv, Threads, FilesInv, WorkInv, Run \/ Resume \/ Initialize \/ Execute
  PROVE  FilesInv' /\ WorkInv'
<1>1. /\ run' = run /\ lock' = lock /\ children' = children
      /\ main'.pending = {} /\ main'.pc \notin {"reconciled", "settled"}
      /\ \A i \in Item : run[i].pc = "none"
  BY DEF Run, Resume, Initialize, Execute, At, Bookkeeping, TypeInv, MainOK, Threads, PoolInv, Early
<1>2. OpenInv'
  BY <1>1 DEF OpenInv, OpenNext, Open, Unrecorded
<1>3. CASE Run
  <2>1. UNCHANGED <<mem, disk>> /\ root = "absent" /\ ~ Live'
    BY <1>3 DEF Run, At, TypeInv, MainOK, Live
  <2>2. QED
    BY <1>1, <1>2, <2>1 DEF FilesInv, WorkInv, RecordedInv, ReportedInv, FollowInv
<1>4. CASE Resume
  <2>1. disk' = disk /\ mem'.index = disk.index /\ mem'.events = disk.events /\ root' = root
    BY <1>4 DEF Resume, TypeInv, ParentOK, Parent
  <2>2. QED
    BY <1>1, <1>2, <2>1, SameHistory DEF FilesInv, WorkInv, RecordedInv, ReportedInv, FollowInv
<1>5. CASE Initialize
  <2>1. mem' = NewParent /\ disk' = NewParent /\ root' = "ready" /\ root # "ready"
    BY <1>5 DEF Initialize, At, LedgerInv
  <2>2. children' = {}
    BY <1>1, <2>1 DEF FilesInv
  <2>3. QED
    BY <1>1, <1>2, <2>1, <2>2, NewParentIndex, SameHistory
       DEF FilesInv, WorkInv, RecordedInv, ReportedInv, FollowInv
<1>6. CASE Execute
  <2>1. UNCHANGED <<mem, disk, lock, root>> /\ Live
    BY <1>6 DEF Execute, At, Live
  <2>2. QED
    BY <1>1, <1>2, <2>1 DEF FilesInv, WorkInv, RecordedInv, ReportedInv, FollowInv
<1>7. QED
  BY <1>3, <1>4, <1>5, <1>6

LEMMA DamageIndex ==
  ASSUME TypeInv, LedgerInv, Threads, FilesInv, WorkInv, NEW c \in children, DamageChild(c)
  PROVE  FilesInv' /\ WorkInv'
<1> DEFINE d == [c EXCEPT !.state = "damaged"]
<1>1. d.item = c.item /\ d.attempt = c.attempt
  BY DEF TypeInv, ChildrenOK, ChildRun
<1>2. children' = (children \ {c}) \cup {d} /\ UNCHANGED <<mem, disk, lock, main, run, root>>
  BY DEF DamageChild
<1> HIDE DEF d
<1>3. FollowInv'
  BY <1>1, <1>2 DEF WorkInv, FollowInv
<1>4. FilesInv'
  BY <1>2 DEF FilesInv, Live
<1>5. OpenInv' /\ RecordedInv' /\ ReportedInv'
  BY <1>2 DEF WorkInv, OpenInv, OpenNext, Open, RecordedInv, ReportedInv
<1>6. QED
  BY <1>3, <1>4, <1>5 DEF WorkInv
-----------------------------------------------------------------------------
(* The invariant of the index                                              *)

IndexInv == Threads /\ FilesInv /\ WorkInv

LEMMA IndexInit == Init => IndexInv
<1>1. SUFFICES ASSUME Init PROVE FilesInv /\ WorkInv
  BY ThreadsInit DEF IndexInv
<1>2. /\ \A i \in Item : run[i].pc = "none"
      /\ main.pending = {} /\ main.pc = "idle"
  BY <1>1 DEF Init, NoRun, IdleMain
<1>3. OpenInv
  BY <1>2, NobodyWorks
<1>4. RecordedInv /\ ReportedInv /\ FollowInv /\ FilesInv
  BY <1>1, <1>2, NewParentIndex DEF Init, RecordedInv, ReportedInv, FollowInv, FilesInv, Live
<1>5. QED
  BY <1>3, <1>4 DEF WorkInv

LEMMA IndexNext ==
  ASSUME TypeInv, LedgerInv, IndexInv, [Next]_vars
  PROVE  IndexInv'
<1>1. Threads'
  BY ThreadsNext DEF IndexInv
<1>2. SUFFICES FilesInv' /\ WorkInv'
  BY <1>1 DEF IndexInv
<1>3. Threads /\ FilesInv /\ WorkInv
  BY DEF IndexInv
<1>4. CASE Run \/ Resume \/ Initialize \/ Execute
  BY <1>3, <1>4, StartingIndex
<1>5. CASE Prepare \/ Crash \/ Exit
  BY <1>3, <1>5, GoneIndex DEF Prepare, Crash, Exit
<1>6. CASE Dump
  BY <1>3, <1>6, DumpStep
<1>7. CASE Resuming
  BY <1>3, <1>7, ReconcilingIndex, ValidatingIndex, SettlingIndex DEF Resuming
<1>8. CASE (Executing /\ ~ Exit) \/ Interrupt
  BY <1>3, <1>8, ExecutingIndex
<1>9. ASSUME NEW i \in Item, RunItem(i)
      PROVE  FilesInv' /\ WorkInv'
  BY <1>3, <1>9, WorkerIndex
<1>10. ASSUME NEW c \in children, DamageChild(c)
       PROVE  FilesInv' /\ WorkInv'
  BY <1>3, <1>10, DamageIndex
<1>11. CASE UNCHANGED vars
  BY <1>3, <1>11
     DEF vars, FilesInv, WorkInv, OpenInv, OpenNext, Open, RecordedInv, ReportedInv, FollowInv, Live
<1>12. QED
  BY <1>4, <1>5, <1>6, <1>7, <1>8, <1>9, <1>10, <1>11 DEF Next, ControllerStep

(* The run index on disk is the controller's or one record behind it, and  *)
(* whoever works on an item holds the next number of that item.            *)
THEOREM IndexInvariance == Spec => []IndexInv
<1>1. TypeInv /\ LedgerInv /\ IndexInv /\ [Next]_vars => IndexInv'
  BY IndexNext
<1>2. QED
  BY <1>1, IndexInit, TypeInvariance, LedgerInvariance, PTL DEF Spec

(* A reported end of an attempt always has its record on disk, wherever    *)
(* the process dies: terminal() writes the index before the event.         *)
THEOREM ReportedEndsAreRecorded == Spec => []TerminalEventsAreIndexed
<1>1. IndexInv => TerminalEventsAreIndexed
  BY DEF IndexInv, WorkInv, ReportedInv, TerminalEventsAreIndexed
<1>2. QED
  BY <1>1, IndexInvariance, PTL

LEMMA RangeCardinality ==
  ASSUME NEW n \in Nat
  PROVE  Cardinality(1 .. n) = n
<1>1. 1 .. n = {} \/ (n >= 1 /\ Cardinality(1 .. n) = n - 1 + 1)
  BY FS_Interval
<1>2. QED
  BY <1>1, FS_EmptySet

(* Attempts of an item are numbered without gaps over any number of        *)
(* crashes and resumes, recovered orphan directories included.             *)
THEOREM AttemptsStayGapFree == Spec => []AttemptsAreGapFree
<1>1. IndexInv => AttemptsAreGapFree
  <2>1. SUFFICES ASSUME IndexInv, NEW i \in Item
                 PROVE  AttemptsOf(i, disk.index) = 1 .. Cardinality(AttemptsOf(i, disk.index))
    BY DEF AttemptsAreGapFree
  <2>2. Dense(disk.index)
    BY <2>1 DEF IndexInv, FilesInv, Numbered
  <2>3. PICK n \in Nat : AttemptsOf(i, disk.index) = 1 .. n
    BY <2>2 DEF Dense
  <2>4. QED
    BY <2>3, RangeCardinality
<1>2. QED
  BY <1>1, IndexInvariance, PTL

LEMMA DiskIndexSteps ==
  ASSUME TypeInv, LedgerInv, IndexInv, [Next]_vars
  PROVE  disk'.index = disk.index \/ Initialize \/ Dump
<1>1. CASE Run \/ Resume \/ Execute \/ Prepare \/ Crash \/ Exit
  BY <1>1 DEF Run, Resume, Execute, Prepare, Crash, Exit, Gone
<1>2. CASE Resuming
  BY <1>2 DEF Resuming, ReconcileChild, ReconcileEvent, ReconcileDone, ReuseChild, DowngradeChild,
              SkipItem, ValidateDone, SettleMissing, SettlePreserved, SettleEvent, SettleDone
<1>3. CASE (Executing /\ ~ Exit) \/ Interrupt
  BY <1>3, PlainExecuting DEF Plain, Unfiled
<1>4. ASSUME NEW i \in Item, RunItem(i)
      PROVE  disk'.index = disk.index
  <2>1. CASE Terminal(i) \/ TerminalEvent(i)
    BY <2>1 DEF Terminal, TerminalEvent, Worker
  <2>2. CASE ~ Terminal(i) /\ ~ TerminalEvent(i)
    BY <1>4, <2>2, PlainWorker DEF Unfiled
  <2>3. QED
    BY <2>1, <2>2
<1>5. CASE (\E c \in children : DamageChild(c)) \/ UNCHANGED vars
  BY <1>5 DEF DamageChild, vars
<1>6. QED
  BY <1>1, <1>2, <1>3, <1>4, <1>5 DEF Next, ControllerStep

(* The run index on disk only grows: a recorded attempt keeps its number   *)
(* and its directory, and a rejected one never becomes valid, through      *)
(* every replacement of the file, crash and resume.                        *)
THEOREM IndexHistory == Spec => IndexHistoryIsKept
<1>1. TypeInv /\ LedgerInv /\ IndexInv /\ [Next]_vars
        => (root = "ready" => History(disk.index, disk'.index))
  <2>1. SUFFICES ASSUME TypeInv, LedgerInv, IndexInv, [Next]_vars, root = "ready"
                 PROVE  History(disk.index, disk'.index)
    OBVIOUS
  <2>2. CASE disk'.index = disk.index
    BY <2>2, SameHistory
  <2>3. CASE Initialize
    BY <2>1, <2>3 DEF Initialize, At, LedgerInv
  <2>4. CASE Dump
    BY <2>1, <2>4, DumpStep DEF IndexInv
  <2>5. QED
    BY <2>1, <2>2, <2>3, <2>4, DiskIndexSteps
<1>2. (root = "ready" => History(disk.index, disk'.index))
        => [root = "ready" =>
              \A r \in disk.index :
                \E q \in disk'.index :
                  /\ q.item = r.item /\ q.attempt = r.attempt /\ q.child = r.child
                  /\ q.validity = "valid" => r.validity = "valid"]_disk
  BY DEF History
<1>3. QED
  BY <1>1, <1>2, TypeInvariance, LedgerInvariance, IndexInvariance, PTL DEF Spec, IndexHistoryIsKept
-----------------------------------------------------------------------------
(* The counters of state.json                                              *)

ValidIn(ix) == {r \in ix : r.validity = "valid"}
InfraIn(ix) == {r \in ix : Infra(r)}
CorruptIn(ix) == {r \in ix : Corrupt(r)}

Counted(s, ix, ledger) ==
  /\ s.terminal = Cardinality(ix) /\ s.valid = Cardinality(ValidIn(ix))
  /\ s.infra = Cardinality(InfraIn(ix)) /\ s.corrupt = Cardinality(CorruptIn(ix))
  /\ s.authorized = Cardinality(ledger)

CountersInv == Live => Counted(mem.state, mem.index, mem.ledger)

LEMMA CountedOneMore ==
  ASSUME NEW S, IsFiniteSet(S), NEW x, x \notin S, NEW b \in BOOLEAN,
         NEW T, T = IF b THEN S \cup {x} ELSE S
  PROVE  Cardinality(T) = Cardinality(S) + Count(b) /\ Cardinality(S) \in Nat
<1>1. Cardinality(S) \in Nat
  BY FS_CardinalityType
<1>2. b => Cardinality(T) = Cardinality(S) + 1
  BY FS_AddElement
<1>3. QED
  BY <1>1, <1>2 DEF Count

(* How the three counts of an index change with one more record.           *)
LEMMA CountsOfAdded ==
  ASSUME NEW ix, IsFiniteSet(ix), NEW r, r \notin ix
  PROVE  LET jx == ix \cup {r}
         IN  /\ Cardinality(jx) = Cardinality(ix) + 1
             /\ Cardinality(ValidIn(jx)) = Cardinality(ValidIn(ix)) + Count(r.validity = "valid")
             /\ Cardinality(InfraIn(jx)) = Cardinality(InfraIn(ix)) + Count(Infra(r))
             /\ Cardinality(CorruptIn(jx)) = Cardinality(CorruptIn(ix)) + Count(Corrupt(r))
             /\ Cardinality(ix) \in Nat /\ Cardinality(ValidIn(ix)) \in Nat
             /\ Cardinality(InfraIn(ix)) \in Nat /\ Cardinality(CorruptIn(ix)) \in Nat
<1> DEFINE jx == ix \cup {r}
           b == r.validity = "valid"
<1>1. IsFiniteSet(ValidIn(ix)) /\ IsFiniteSet(InfraIn(ix)) /\ IsFiniteSet(CorruptIn(ix))
  BY FS_Subset DEF ValidIn, InfraIn, CorruptIn
<1>2. r \notin ValidIn(ix) /\ r \notin InfraIn(ix) /\ r \notin CorruptIn(ix)
  BY DEF ValidIn, InfraIn, CorruptIn
<1>3. /\ ValidIn(jx) = IF b THEN ValidIn(ix) \cup {r} ELSE ValidIn(ix)
      /\ InfraIn(jx) = IF Infra(r) THEN InfraIn(ix) \cup {r} ELSE InfraIn(ix)
      /\ CorruptIn(jx) = IF Corrupt(r) THEN CorruptIn(ix) \cup {r} ELSE CorruptIn(ix)
  BY DEF ValidIn, InfraIn, CorruptIn
<1>4. b \in BOOLEAN /\ Infra(r) \in BOOLEAN /\ Corrupt(r) \in BOOLEAN
  BY DEF Infra, Corrupt
<1>5. Cardinality(jx) = Cardinality(ix) + 1 /\ Cardinality(ix) \in Nat
  BY FS_AddElement, FS_CardinalityType
<1> HIDE DEF jx, b
<1>6. /\ Cardinality(ValidIn(jx)) = Cardinality(ValidIn(ix)) + Count(b)
      /\ Cardinality(ValidIn(ix)) \in Nat
  <2>1. /\ IsFiniteSet(ValidIn(ix)) /\ r \notin ValidIn(ix) /\ b \in BOOLEAN
        /\ ValidIn(jx) = IF b THEN ValidIn(ix) \cup {r} ELSE ValidIn(ix)
    BY <1>1, <1>2, <1>3, <1>4
  <2>2. QED
    BY <2>1, CountedOneMore
<1>7. /\ Cardinality(InfraIn(jx)) = Cardinality(InfraIn(ix)) + Count(Infra(r))
      /\ Cardinality(InfraIn(ix)) \in Nat
  <2>1. /\ IsFiniteSet(InfraIn(ix)) /\ r \notin InfraIn(ix) /\ Infra(r) \in BOOLEAN
        /\ InfraIn(jx) = IF Infra(r) THEN InfraIn(ix) \cup {r} ELSE InfraIn(ix)
    BY <1>1, <1>2, <1>3, <1>4
  <2>2. QED
    BY <2>1, CountedOneMore
<1>8. /\ Cardinality(CorruptIn(jx)) = Cardinality(CorruptIn(ix)) + Count(Corrupt(r))
      /\ Cardinality(CorruptIn(ix)) \in Nat
  <2>1. /\ IsFiniteSet(CorruptIn(ix)) /\ r \notin CorruptIn(ix) /\ Corrupt(r) \in BOOLEAN
        /\ CorruptIn(jx) = IF Corrupt(r) THEN CorruptIn(ix) \cup {r} ELSE CorruptIn(ix)
    BY <1>1, <1>2, <1>3, <1>4
  <2>2. QED
    BY <2>1, CountedOneMore
<1>9. QED
  BY <1>5, <1>6, <1>7, <1>8 DEF jx, b

LEMMA TerminalCounters ==
  ASSUME NEW s \in State, NEW r
  PROVE  LET z == TerminalState(s, r)
         IN  /\ z.terminal = s.terminal + 1
             /\ z.valid = s.valid + Count(r.validity = "valid")
             /\ z.infra = s.infra + Count(Infra(r)) /\ z.corrupt = s.corrupt + Count(Corrupt(r))
             /\ z.authorized = s.authorized
<1> DEFINE v == s.valid + Count(r.validity = "valid")
           f == s.infra + Count(Infra(r))
           c == s.corrupt + Count(Corrupt(r))
           a == IF s.active > 0 THEN s.active - 1 ELSE 0
<1>1. TerminalState(s, r) = [s EXCEPT !.active = a, !.terminal = s.terminal + 1, !.valid = v,
                                      !.infra = f, !.corrupt = c]
  BY DEF TerminalState, State
<1> HIDE DEF v, f, c, a
<1>2. QED
  BY <1>1 DEF State, v, f, c

LEMMA ReplacedCounters ==
  ASSUME NEW s \in State, NEW q, NEW r
  PROVE  LET z == ReplacedState(s, q, r)
         IN  /\ z.terminal = s.terminal
             /\ z.valid = s.valid - Count(q.validity = "valid") + Count(r.validity = "valid")
             /\ z.infra = s.infra - Count(Infra(q)) + Count(Infra(r))
             /\ z.corrupt = s.corrupt - Count(Corrupt(q)) + Count(Corrupt(r))
             /\ z.authorized = s.authorized
<1> DEFINE v == s.valid - Count(q.validity = "valid") + Count(r.validity = "valid")
           f == s.infra - Count(Infra(q)) + Count(Infra(r))
           c == s.corrupt - Count(Corrupt(q)) + Count(Corrupt(r))
<1>1. ReplacedState(s, q, r) = [s EXCEPT !.valid = v, !.infra = f, !.corrupt = c]
  BY DEF ReplacedState, State
<1> HIDE DEF v, f, c
<1>2. QED
  BY <1>1 DEF State, v, f, c

LEMMA AddedCounted ==
  ASSUME TypeInv, Counted(mem.state, mem.index, mem.ledger), Added
  PROVE  Counted(mem'.state, mem'.index, mem'.ledger)
<1>1. PICK r \in IndexRecord : r \notin mem.index /\ mem' = IndexedParent(r)
  BY DEF Added
<1>2. mem \in Parent /\ mem.state \in State /\ IsFiniteSet(mem.index)
  BY DEF TypeInv, ParentOK, Parent
<1>3. /\ mem'.index = mem.index \cup {r} /\ mem'.state = TerminalState(mem.state, r)
      /\ mem'.ledger = mem.ledger
  BY <1>1, <1>2 DEF IndexedParent, Parent
<1>4. /\ Cardinality(mem'.index) = Cardinality(mem.index) + 1
      /\ Cardinality(ValidIn(mem'.index)) = Cardinality(ValidIn(mem.index)) + Count(r.validity = "valid")
      /\ Cardinality(InfraIn(mem'.index)) = Cardinality(InfraIn(mem.index)) + Count(Infra(r))
      /\ Cardinality(CorruptIn(mem'.index)) = Cardinality(CorruptIn(mem.index)) + Count(Corrupt(r))
  BY <1>1, <1>2, <1>3, CountsOfAdded
<1>5. /\ mem'.state.terminal = mem.state.terminal + 1
      /\ mem'.state.authorized = mem.state.authorized
      /\ mem'.state.valid = mem.state.valid + Count(r.validity = "valid")
      /\ mem'.state.infra = mem.state.infra + Count(Infra(r))
      /\ mem'.state.corrupt = mem.state.corrupt + Count(Corrupt(r))
  BY <1>2, <1>3, TerminalCounters
<1>6. QED
  BY <1>3, <1>4, <1>5 DEF Counted

LEMMA ReplacedCounted ==
  ASSUME TypeInv, Counted(mem.state, mem.index, mem.ledger), Replaced
  PROVE  Counted(mem'.state, mem'.index, mem'.ledger)
<1>1. PICK q \in mem.index : \E r \in IndexRecord :
        r \notin mem.index \ {q} /\ mem' = ReplacedParent(q, r)
  BY DEF Replaced
<1>2. PICK r \in IndexRecord : r \notin mem.index \ {q} /\ mem' = ReplacedParent(q, r)
  BY <1>1
<1>3. mem \in Parent /\ mem.state \in State /\ IsFiniteSet(mem.index)
  BY DEF TypeInv, ParentOK, Parent
<1> DEFINE ix == mem.index \ {q}
<1>4. /\ mem'.index = ix \cup {r} /\ mem'.state = ReplacedState(mem.state, q, r)
      /\ mem'.ledger = mem.ledger /\ mem.index = ix \cup {q}
  BY <1>2, <1>3 DEF ReplacedParent, Parent
<1>5. IsFiniteSet(ix) /\ q \notin ix /\ r \notin ix
  BY <1>2, <1>3, FS_RemoveElement
<1> HIDE DEF ix
<1>6. /\ Cardinality(mem.index) = Cardinality(ix) + 1
      /\ Cardinality(ValidIn(mem.index)) = Cardinality(ValidIn(ix)) + Count(q.validity = "valid")
      /\ Cardinality(InfraIn(mem.index)) = Cardinality(InfraIn(ix)) + Count(Infra(q))
      /\ Cardinality(CorruptIn(mem.index)) = Cardinality(CorruptIn(ix)) + Count(Corrupt(q))
      /\ Cardinality(ix) \in Nat /\ Cardinality(ValidIn(ix)) \in Nat
      /\ Cardinality(InfraIn(ix)) \in Nat /\ Cardinality(CorruptIn(ix)) \in Nat
  <2> DEFINE old == ix \cup {q}
  <2>1. /\ Cardinality(old) = Cardinality(ix) + 1
        /\ Cardinality(ValidIn(old)) = Cardinality(ValidIn(ix)) + Count(q.validity = "valid")
        /\ Cardinality(InfraIn(old)) = Cardinality(InfraIn(ix)) + Count(Infra(q))
        /\ Cardinality(CorruptIn(old)) = Cardinality(CorruptIn(ix)) + Count(Corrupt(q))
        /\ Cardinality(ix) \in Nat /\ Cardinality(ValidIn(ix)) \in Nat
        /\ Cardinality(InfraIn(ix)) \in Nat /\ Cardinality(CorruptIn(ix)) \in Nat
    BY <1>5, CountsOfAdded
  <2>2. mem.index = old
    BY <1>4
  <2> HIDE DEF old
  <2>3. QED
    BY <2>1, <2>2
<1>7. /\ Cardinality(mem'.index) = Cardinality(ix) + 1
      /\ Cardinality(ValidIn(mem'.index)) = Cardinality(ValidIn(ix)) + Count(r.validity = "valid")
      /\ Cardinality(InfraIn(mem'.index)) = Cardinality(InfraIn(ix)) + Count(Infra(r))
      /\ Cardinality(CorruptIn(mem'.index)) = Cardinality(CorruptIn(ix)) + Count(Corrupt(r))
  BY <1>4, <1>5, CountsOfAdded
<1>8. /\ Count(q.validity = "valid") \in Int /\ Count(r.validity = "valid") \in Int
      /\ Count(Infra(q)) \in Int /\ Count(Infra(r)) \in Int
      /\ Count(Corrupt(q)) \in Int /\ Count(Corrupt(r)) \in Int
  BY DEF Count
<1>9. /\ mem'.state.terminal = mem.state.terminal /\ mem'.state.authorized = mem.state.authorized
      /\ mem'.state.valid = mem.state.valid - Count(q.validity = "valid") + Count(r.validity = "valid")
      /\ mem'.state.infra = mem.state.infra - Count(Infra(q)) + Count(Infra(r))
      /\ mem'.state.corrupt = mem.state.corrupt - Count(Corrupt(q)) + Count(Corrupt(r))
  BY <1>3, <1>4, ReplacedCounters
<1>10. /\ mem'.state.valid = Cardinality(ValidIn(mem'.index))
       /\ mem'.state.infra = Cardinality(InfraIn(mem'.index))
       /\ mem'.state.corrupt = Cardinality(CorruptIn(mem'.index))
  BY <1>6, <1>7, <1>8, <1>9 DEF Counted
<1>11. QED
  BY <1>4, <1>6, <1>7, <1>9, <1>10 DEF Counted

LEMMA AuthorizeCounted ==
  ASSUME TypeInv, Counted(mem.state, mem.index, mem.ledger), NEW i \in Item, Authorize(i)
  PROVE  Counted(mem'.state, mem'.index, mem'.ledger)
<1> DEFINE a == [item |-> i, attempt |-> main.attempts[i]]
<1>1. /\ mem' = [mem EXCEPT !.ledger = @ \cup {a}, !.state.authorized = @ + 1] /\ ~ Consumed(i)
  BY DEF Authorize, Locked, MayAuthorize
<1>2. mem \in Parent /\ mem.state \in State /\ IsFiniteSet(mem.ledger) /\ a.item = i
  BY DEF TypeInv, ParentOK, Parent
<1> HIDE DEF a
<1>3. a \notin mem.ledger
  BY <1>1, <1>2 DEF Consumed
<1>4. /\ mem'.ledger = mem.ledger \cup {a} /\ mem'.index = mem.index
      /\ mem'.state = [mem.state EXCEPT !.authorized = mem.state.authorized + 1]
  BY <1>1, <1>2 DEF Parent, State
<1>5. Cardinality(mem'.ledger) = Cardinality(mem.ledger) + 1
  BY <1>2, <1>3, <1>4, FS_AddElement
<1>6. QED
  BY <1>2, <1>4, <1>5 DEF Counted, State

LEMMA StillCounted ==
  ASSUME Counted(mem.state, mem.index, mem.ledger), Still
  PROVE  Counted(mem'.state, mem'.index, mem'.ledger)
BY DEF Still, Uncounted, Counted

LEMMA CountersNext ==
  ASSUME TypeInv, LedgerInv, IndexInv, CountersInv, [Next]_vars
  PROVE  CountersInv'
<1>1. Threads /\ FilesInv /\ WorkInv
  BY DEF IndexInv
<1>2. ASSUME Live, Still \/ Added \/ Replaced
      PROVE  CountersInv'
  <2>1. Counted(mem.state, mem.index, mem.ledger)
    BY <1>2 DEF CountersInv
  <2>2. Counted(mem'.state, mem'.index, mem'.ledger)
    BY <1>2, <2>1, AddedCounted, ReplacedCounted, StillCounted
  <2>3. QED
    BY <2>2 DEF CountersInv
<1>3. CASE Run
  BY <1>3 DEF Run, At, TypeInv, MainOK, CountersInv, Live
<1>4. CASE Resume
  <2>1. /\ mem'.state = RecoveredState(disk) /\ mem'.index = disk.index /\ mem'.ledger = disk.ledger
    BY <1>4 DEF Resume, TypeInv, ParentOK, Parent
  <2>2. Counted(RecoveredState(disk), disk.index, disk.ledger)
    BY DEF Counted, RecoveredState, ValidIn, InfraIn, CorruptIn
  <2>3. QED
    BY <2>1, <2>2 DEF CountersInv
<1>5. CASE Initialize
  <2>1. /\ ValidIn({}) = {} /\ InfraIn({}) = {} /\ CorruptIn({}) = {}
    BY DEF ValidIn, InfraIn, CorruptIn
  <2>2. Counted(NewParent.state, NewParent.index, NewParent.ledger)
    BY <2>1, FS_EmptySet DEF Counted, NewParent, NewState
  <2>3. QED
    BY <1>5, <2>2 DEF CountersInv, Initialize
<1>6. CASE Prepare \/ Crash \/ Exit
  BY <1>1, <1>6, GoneIndex DEF Prepare, Crash, Exit, CountersInv
<1>7. CASE Dump \/ Execute \/ \E c \in children : DamageChild(c)
  BY <1>1, <1>7, DumpThreads DEF Dump, Execute, DamageChild, CountersInv, Live, At
<1>8. CASE Resuming
  <2>1. Live
    BY <1>8 DEF Resuming, ReconcileChild, ReconcileEvent, ReconcileDone, ReuseChild, DowngradeChild,
                SkipItem, ValidateDone, SettleMissing, SettlePreserved, SettleEvent, SettleDone,
                Visit, At, Live
  <2>2. QED
    BY <1>1, <1>2, <1>8, <2>1, ReconcilingIndex, ValidatingIndex, SettlingIndex DEF Resuming
<1>9. CASE (Executing /\ ~ Exit) \/ Interrupt
  <2>1. Live
    BY <1>9 DEF Executing, Interrupt, RemoveArtifactManifest, SetRunning, PlanWork, Wait, WaitDone,
                Collect, CollectException, IntervalCheckpoint, Refill, StopScheduling,
                HandleException, InterruptedEvent, FinalCheckpoint, SkipFinalCheckpoint, Verdict,
                ReportsGenerated, ReportsFailed, WriteArtifactManifest, At, Live
  <2>2. Still
    BY <1>1, <1>9, ExecutingIndex
  <2>3. QED
    BY <1>2, <2>1, <2>2
<1>10. ASSUME NEW i \in Item, RunItem(i)
       PROVE  CountersInv'
  <2>1. Live
    BY <1>10, WorkerSteps, WorkersLive
  <2>2. Still \/ Added \/ Authorize(i)
    BY <1>1, <1>10, WorkerIndex
  <2>3. ASSUME Authorize(i)
        PROVE  CountersInv'
    <3>1. Counted(mem.state, mem.index, mem.ledger)
      BY <2>1 DEF CountersInv
    <3>2. Counted(mem'.state, mem'.index, mem'.ledger)
      BY <2>3, <3>1, AuthorizeCounted
    <3>3. QED
      BY <3>2 DEF CountersInv
  <2>4. QED
    BY <1>2, <2>1, <2>2, <2>3
<1>11. CASE UNCHANGED vars
  BY <1>11 DEF vars, CountersInv, Live
<1>12. QED
  BY <1>3, <1>4, <1>5, <1>6, <1>7, <1>8, <1>9, <1>10, <1>11 DEF Next, ControllerStep

THEOREM CountersInvariance == Spec => []CountersInv
<1>1. Init => CountersInv
  BY DEF Init, IdleMain, CountersInv, Live
<1>2. TypeInv /\ LedgerInv /\ IndexInv /\ CountersInv /\ [Next]_vars => CountersInv'
  BY CountersNext
<1>3. QED
  BY <1>1, <1>2, TypeInvariance, LedgerInvariance, IndexInvariance, PTL DEF Spec

(* The counters kept incrementally by terminal, replace_record and         *)
(* authorize_model_process are what recovery would count afresh from the   *)
(* index and the ledger.                                                   *)
THEOREM CountersAreRecounted == Spec => []CountersMatchIndex
<1>1. CountersInv => CountersMatchIndex
  <2>1. ASSUME Counted(mem.state, mem.index, mem.ledger)
        PROVE  \A c \in {"terminal", "valid", "infra", "corrupt", "authorized"} :
                 mem.state[c] = RecoveredState(mem)[c]
    BY <2>1 DEF Counted, RecoveredState, ValidIn, InfraIn, CorruptIn
  <2>2. QED
    BY <2>1 DEF CountersInv, CountersMatchIndex
<1>2. QED
  BY <1>1, CountersInvariance, PTL
-----------------------------------------------------------------------------
(* Budgets                                                                 *)

(* The calls reserved by one authorization.                                *)
CallsOf(a) == {a} \X (1 .. Reserved[a.item])

LEMMA CallsReserved ==
  ASSUME NEW a \in Authorization
  PROVE  IsFiniteSet(CallsOf(a)) /\ Cardinality(CallsOf(a)) = Reserved[a.item]
<1>1. Reserved[a.item] \in Nat
  BY ConfigAssumption DEF Authorization
<1>2. IsFiniteSet(1 .. Reserved[a.item]) /\ Cardinality(1 .. Reserved[a.item]) = Reserved[a.item]
  <2> DEFINE n == Reserved[a.item]
  <2>1. n \in Nat /\ n \in Int /\ 1 \in Int
    BY <1>1
  <2> HIDE DEF n
  <2>2. IsFiniteSet(1 .. n) /\ Cardinality(1 .. n) = n
    BY <2>1, FS_Interval, RangeCardinality
  <2>3. QED
    BY <2>2 DEF n
<1>3. IsFiniteSet({a}) /\ Cardinality({a}) = 1
  BY FS_Singleton
<1>4. /\ IsFiniteSet(CallsOf(a))
      /\ Cardinality(CallsOf(a)) = Cardinality({a}) * Cardinality(1 .. Reserved[a.item])
  BY <1>2, <1>3, FS_Product DEF CallsOf
<1>5. QED
  BY <1>1, <1>2, <1>3, <1>4

(* One more authorization reserves at most its own calls.                  *)
LEMMA CallsAdded ==
  ASSUME NEW L \in SUBSET Authorization, IsFiniteSet(L), NEW a \in Authorization
  PROVE  /\ ReservedCalls(L) \in Nat
         /\ ReservedCalls(L \cup {a}) <= ReservedCalls(L) + Reserved[a.item]
<1> DEFINE Family == {CallsOf(b) : b \in L}
           All == UNION Family
           More == UNION {CallsOf(b) : b \in L \cup {a}}
<1>1. IsFiniteSet(Family)
  <2> DEFINE f == [b \in L |-> CallsOf(b)]
  <2>1. f \in Surjection(L, Family)
    BY DEF Surjection
  <2>2. QED
    BY <2>1, FS_Surjection
<1>2. IsFiniteSet(All)
  <2>1. \A T \in Family : IsFiniteSet(T)
    BY CallsReserved
  <2> HIDE DEF Family
  <2>2. QED
    BY <1>1, <2>1, FS_UNION
<1>3. More = All \cup CallsOf(a)
  OBVIOUS
<1>4. ReservedCalls(L) = Cardinality(All) /\ ReservedCalls(L \cup {a}) = Cardinality(More)
  BY DEF ReservedCalls, CallsOf
<1> HIDE DEF Family, All, More
<1>5. IsFiniteSet(CallsOf(a)) /\ Cardinality(CallsOf(a)) = Reserved[a.item]
  BY CallsReserved
<1>6. /\ Cardinality(More) = Cardinality(All) + Cardinality(CallsOf(a)) - Cardinality(All \cap CallsOf(a))
      /\ Cardinality(All) \in Nat /\ Cardinality(CallsOf(a)) \in Nat
      /\ Cardinality(All \cap CallsOf(a)) \in Nat
  BY <1>2, <1>3, <1>5, FS_Union, FS_Intersection, FS_CardinalityType
<1>7. QED
  BY <1>4, <1>5, <1>6

BudgetInv == BudgetsHold /\ \A a \in disk.ledger : a.item \in ModelBearing

LEMMA BudgetNext ==
  ASSUME TypeInv, LedgerInv, BudgetInv, [Next]_vars
  PROVE  BudgetInv'
<1>1. CASE disk'.ledger = disk.ledger
  BY <1>1 DEF BudgetInv, BudgetsHold
<1>2. ASSUME NEW i \in Item, Authorize(i)
      PROVE  BudgetInv'
  <2> DEFINE a == [item |-> i, attempt |-> main.attempts[i]]
  <2>1. /\ disk' = [disk EXCEPT !.ledger = @ \cup {a}] /\ i \in ModelBearing
        /\ run[i].pc = "authorize" /\ BudgetsAllow(i)
    BY <1>2 DEF Authorize, RunAt, MayAuthorize
  <2>2. a \in Authorization /\ a.item = i
    BY DEF TypeInv, MainOK, Authorization
  <2> HIDE DEF a
  <2>3. disk'.ledger = disk.ledger \cup {a} /\ disk.ledger \in SUBSET Authorization
        /\ IsFiniteSet(disk.ledger)
    BY <2>1 DEF TypeInv, ParentOK, Parent
  <2>4. mem.ledger = disk.ledger
    BY <2>1, WorkersLive DEF LedgerInv
  <2>5. MaxProcesses # NoLimit => Cardinality(disk'.ledger) <= MaxProcesses
    <3>1. Cardinality(disk'.ledger) <= Cardinality(disk.ledger) + 1 /\ Cardinality(disk.ledger) \in Nat
      <4>1. /\ Cardinality(disk.ledger) \in Nat
            /\ Cardinality(disk'.ledger) = IF a \in disk.ledger THEN Cardinality(disk.ledger)
                                                                ELSE Cardinality(disk.ledger) + 1
        BY <2>3, FS_AddElement, FS_CardinalityType
      <4>2. QED
        BY <4>1
    <3>2. MaxProcesses # NoLimit => Cardinality(disk.ledger) < MaxProcesses /\ MaxProcesses \in Nat
      BY <2>1, <2>4, ConfigAssumption DEF BudgetsAllow
    <3>3. Cardinality(disk'.ledger) \in Nat
      BY <2>3, FS_AddElement, FS_CardinalityType
    <3>4. QED
      BY <3>1, <3>2, <3>3
  <2>6. MaxApiCalls # NoLimit => ReservedCalls(disk'.ledger) <= MaxApiCalls
    <3>1. /\ ReservedCalls(disk.ledger) \in Nat
          /\ ReservedCalls(disk.ledger \cup {a}) <= ReservedCalls(disk.ledger) + Reserved[i]
      BY <2>2, <2>3, CallsAdded
    <3>2. MaxApiCalls # NoLimit => /\ ReservedCalls(disk.ledger) + Reserved[i] <= MaxApiCalls
                                   /\ MaxApiCalls \in Nat
      BY <2>1, <2>4, ConfigAssumption DEF BudgetsAllow
    <3>3. Reserved[i] \in Nat /\ ReservedCalls(disk.ledger \cup {a}) \in Nat
      <4>1. IsFiniteSet(disk.ledger \cup {a}) /\ disk.ledger \cup {a} \in SUBSET Authorization
        BY <2>2, <2>3, FS_AddElement
      <4>2. QED
        BY <2>2, <4>1, CallsAdded, ConfigAssumption
    <3>4. QED
      BY <2>3, <3>1, <3>2, <3>3
  <2>7. \A b \in disk'.ledger : b.item \in ModelBearing
    BY <2>1, <2>2, <2>3 DEF BudgetInv
  <2>8. QED
    BY <2>5, <2>6, <2>7 DEF BudgetInv, BudgetsHold
<1>3. QED
  BY <1>1, <1>2, StepCases, LaunchStep DEF Quiet

LEMMA BudgetInit == Init => BudgetInv
<1>1. ReservedCalls({}) = 0 /\ Cardinality({}) = 0
  <2>1. UNION {{a} \X (1 .. Reserved[a.item]) : a \in {}} = {}
    OBVIOUS
  <2>2. QED
    BY <2>1, FS_EmptySet DEF ReservedCalls
<1>2. /\ MaxProcesses # NoLimit => 0 <= MaxProcesses
      /\ MaxApiCalls # NoLimit => 0 <= MaxApiCalls
  BY ConfigAssumption
<1>3. QED
  BY <1>1, <1>2, NewParentIndex DEF Init, BudgetInv, BudgetsHold

THEOREM BudgetInvariance == Spec => []BudgetInv
<1>1. TypeInv /\ LedgerInv /\ BudgetInv /\ [Next]_vars => BudgetInv'
  BY BudgetNext
<1>2. QED
  BY <1>1, BudgetInit, TypeInvariance, LedgerInvariance, PTL DEF Spec

(* The budgets of processes and of reserved API calls hold for what is on  *)
(* disk, whichever workers asked at once and however often the campaign    *)
(* was resumed: the check and the append of authorize_model_process are    *)
(* one critical section over the ledger of all sessions.                   *)
THEOREM BudgetsAlwaysHold == Spec => []BudgetsHold
<1>1. BudgetInv => BudgetsHold
  BY DEF BudgetInv
<1>2. QED
  BY <1>1, BudgetInvariance, PTL

(* The files a controller leaves, killed at any instant, pass resume's own *)
(* checks: no attempt is recorded twice, no item is authorized twice, the  *)
(* budgets hold and only model-bearing items are authorized.               *)
THEOREM CampaignsStayLoadable == Spec => []FilesStayLoadable
<1>1. LedgerInv /\ IndexInv /\ BudgetInv => FilesStayLoadable
  BY DEF LedgerInv, IndexInv, FilesInv, Numbered, Distinct, BudgetInv, BudgetsHold,
         FilesStayLoadable, Loadable
<1>2. QED
  BY <1>1, LedgerInvariance, IndexInvariance, BudgetInvariance, PTL
=============================================================================
