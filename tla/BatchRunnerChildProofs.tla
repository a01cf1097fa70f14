----------------------- MODULE BatchRunnerChildProofs -----------------------
(***************************************************************************)
(* What the controller may rely on about its items: how many are active    *)
(* while the pool works; that an item with a run directory that replays is *)
(* never run again; and that, under the strict policy, no worker finds its *)
(* item consumed.                                                          *)
(*                                                                         *)
(* The last two are one argument.  A run directory that could be accepted  *)
(* is the last one of its item and is in hand, or known to the index, or   *)
(* yet to be reconciled, or belongs to an item whose authorization the     *)
(* strict policy has spent (ChildInv); and when a resume comes to its plan *)
(* every item with such a directory, and every spent one, is in completed  *)
(* (ResumeInv).                                                            *)
(***************************************************************************)
EXTENDS BatchRunnerIndexProofs
-----------------------------------------------------------------------------
(* Items at work                                                           *)

PoolPc == {"plan", "wait", "collect", "refill", "checkpoint"}
AtWork(r) == \/ r.pc \in {"started", "authorize", "launch", "running", "returned", "terminal"}
             \/ r.exc = "interrupt"
Working == {i \in Item : AtWork(run[i])}

(* An exception leaves a worker at its end; only an interrupt leaves the   *)
(* attempt without a record.                                               *)
Raised(r) == /\ r.exc # "none" => r.pc \in {"terminal", "recorded", "done"}
             /\ r.exc = "interrupt" => r.pc = "done"

ActiveInv ==
  /\ main.pc \in PoolPc => mem.state.active = Cardinality(Working)
  /\ \A i \in Item : Raised(run[i])

LEMMA ItemsFinite == IsFiniteSet(Item) /\ \A S \in SUBSET Item : IsFiniteSet(S)
<1>1. IsFiniteSet(Item)
  BY ConfigAssumption, FS_Interval DEF Item
<1>2. QED
  BY <1>1, FS_Subset

(* One worker moves.                                                       *)
LEMMA WorkingChanges ==
  ASSUME NEW i \in Item, \A j \in Item \ {i} : run'[j] = run[j]
  PROVE  /\ Cardinality(Working) \in Nat
         /\ (AtWork(run'[i]) <=> AtWork(run[i])) => Working' = Working
         /\ AtWork(run'[i]) /\ ~ AtWork(run[i]) => Cardinality(Working') = Cardinality(Working) + 1
         /\ ~ AtWork(run'[i]) /\ AtWork(run[i]) =>
              Cardinality(Working') = Cardinality(Working) - 1 /\ Cardinality(Working) > 0
<1>1. IsFiniteSet(Working) /\ IsFiniteSet(Working')
  BY ItemsFinite DEF Working
<1>2. \A j \in Item \ {i} : j \in Working' <=> j \in Working
  BY DEF Working
<1>3. Cardinality(Working) \in Nat /\ Cardinality(Working') \in Nat
  BY <1>1, FS_CardinalityType
<1>4. ASSUME AtWork(run'[i]) <=> AtWork(run[i])
      PROVE  Working' = Working
  BY <1>2, <1>4 DEF Working
<1>5. ASSUME AtWork(run'[i]), ~ AtWork(run[i])
      PROVE  Cardinality(Working') = Cardinality(Working) + 1
  <2>1. Working' = Working \cup {i} /\ i \notin Working
    BY <1>2, <1>5 DEF Working
  <2>2. QED
    BY <1>1, <2>1, FS_AddElement
<1>6. ASSUME ~ AtWork(run'[i]), AtWork(run[i])
      PROVE  Cardinality(Working') = Cardinality(Working) - 1 /\ Cardinality(Working) > 0
  <2>1. Working = Working' \cup {i} /\ i \notin Working'
    BY <1>2, <1>6 DEF Working
  <2>2. Cardinality(Working) = Cardinality(Working') + 1
    BY <1>1, <2>1, FS_AddElement
  <2>3. QED
    BY <1>3, <2>2
<1>7. QED
  BY <1>3, <1>4, <1>5, <1>6

LEMMA ToPcFields ==
  ASSUME TypeInv, NEW i \in Item, NEW pc, ToPc(i, pc)
  PROVE  /\ run'[i].pc = pc /\ run'[i].exc = run[i].exc /\ run'[i].rec = run[i].rec
         /\ run'[i].serial = run[i].serial /\ run'[i].internal = run[i].internal
BY DEF TypeInv, ItemRun, ToPc

LEMMA ConcludeFields ==
  ASSUME TypeInv, NEW i \in Item, NEW s, NEW v, NEW f, NEW e, NEW b, Conclude(i, s, v, f, e, b)
  PROVE  /\ run'[i].pc = "terminal" /\ run'[i].exc = e /\ run'[i].serial = s
         /\ run'[i].internal = b /\ run'[i].rec = RunIndexRecord(i, main.attempts[i], s, v, f)
BY DEF TypeInv, Conclude

LEMMA ActiveUpdates ==
  ASSUME TypeInv
  PROVE  /\ \A t, e : Event(t, e) => mem'.state = mem.state
         /\ \A pc : WriteCheckpoint(pc) => mem'.state = mem.state
         /\ \A st : SetStatus(st) => mem'.state.active = 0
         /\ \A r : IndexedParent(r).state.active = IF mem.state.active > 0
                                                   THEN mem.state.active - 1 ELSE 0
         /\ StartedState(mem.state).active = mem.state.active + 1
<1>1. mem \in Parent /\ mem.state \in State
  BY DEF TypeInv, ParentOK, Parent
<1>2. \A st : SetStatus(st) => mem'.state.active = 0
  <2>1. ASSUME NEW st, SetStatus(st)
        PROVE  mem'.state = [[mem.state EXCEPT !.status = st] EXCEPT !.active = 0]
    BY <1>1, <2>1 DEF SetStatus, Locked, Parent
  <2>2. \A st : [[mem.state EXCEPT !.status = st] EXCEPT !.active = 0].active = 0
    BY <1>1 DEF State
  <2>3. QED
    BY <2>1, <2>2
<1>3. \A r : IndexedParent(r).state.active = IF mem.state.active > 0 THEN mem.state.active - 1 ELSE 0
  BY <1>1 DEF IndexedParent, TerminalState, Parent, State
<1>4. StartedState(mem.state).active = mem.state.active + 1
  BY <1>1 DEF StartedState, State
<1>5. QED
  BY <1>1, <1>2, <1>3, <1>4 DEF Event, WriteCheckpoint, Locked, Parent

(* A worker becomes active with the counter, and stops being active with   *)
(* it; in between, its attempt goes on or ends by an interrupt.            *)
LEMMA WorkerActivity ==
  ASSUME TypeInv, ActiveInv, NEW i \in Item, RunItem(i)
  PROVE  /\ Raised(run'[i])
         /\ \/ /\ AtWork(run'[i]) <=> AtWork(run[i])
               /\ mem'.state.active = mem.state.active
            \/ /\ AtWork(run'[i]) /\ ~ AtWork(run[i])
               /\ mem'.state.active = mem.state.active + 1
            \/ /\ ~ AtWork(run'[i]) /\ AtWork(run[i])
               /\ mem'.state.active = IF mem.state.active > 0 THEN mem.state.active - 1 ELSE 0
<1> DEFINE Same == /\ AtWork(run'[i]) <=> AtWork(run[i])
                   /\ mem'.state.active = mem.state.active
<1>1. Raised(run[i])
  BY DEF ActiveInv
<1>2. CASE Scheduled(i) \/ ScheduledEvent(i) \/ StartedEvent(i) \/ TerminalEvent(i)
           \/ NoAuthorizationNeeded(i) \/ Authorize(i) \/ ChildReturns(i)
  <2>1. mem'.state.active = mem.state.active
    <3>1. CASE Scheduled(i)
      BY <3>1 DEF Scheduled, Locked, TypeInv, ParentOK, Parent, State
    <3>2. CASE Authorize(i)
      BY <3>2 DEF Authorize, Locked, TypeInv, ParentOK, Parent, State
    <3>3. QED
      BY <1>2, <3>1, <3>2, ActiveUpdates
         DEF ScheduledEvent, StartedEvent, TerminalEvent, NoAuthorizationNeeded, ChildReturns, Aside
  <2>2. /\ run'[i].exc = run[i].exc
        /\ \/ run[i].pc = "queued" /\ run'[i].pc = "scheduled"
           \/ run[i].pc = "scheduled" /\ run'[i].pc = "start"
           \/ run[i].pc = "started" /\ run'[i].pc = "authorize"
           \/ run[i].pc = "authorize" /\ run'[i].pc = "launch"
           \/ run[i].pc = "running" /\ run'[i].pc = "returned"
           \/ run[i].pc = "recorded" /\ run'[i].pc = "done"
    BY <1>2, ToPcFields
       DEF Scheduled, ScheduledEvent, StartedEvent, TerminalEvent, NoAuthorizationNeeded, Authorize,
           ChildReturns, RunAt
  <2>3. QED
    BY <1>1, <2>1, <2>2 DEF AtWork, Raised
<1>3. CASE Started(i)
  <2>1. /\ run[i].pc = "start" /\ run'[i].pc = "started" /\ run'[i].exc = run[i].exc
        /\ mem'.state = StartedState(mem.state)
    BY <1>3, ToPcFields DEF Started, RunAt, Locked, TypeInv, ParentOK, Parent
  <2>2. QED
    BY <1>1, <2>1, ActiveUpdates DEF AtWork, Raised
<1>4. CASE Terminal(i)
  <2>1. /\ run[i].pc = "terminal" /\ run'[i].pc = "recorded" /\ run'[i].exc = run[i].exc
        /\ mem' = IndexedParent(run[i].rec)
    BY <1>4, ToPcFields DEF Terminal, RunAt, Locked
  <2>2. QED
    BY <1>1, <2>1, ActiveUpdates DEF AtWork, Raised
<1>5. CASE ContractFails(i) \/ AuthorizationRefused(i) \/ ChildRaises(i) \/ AcceptResult(i)
  <2>1. /\ run[i].pc \in {"authorize", "launch", "running", "returned"} /\ mem' = mem
        /\ run'[i].pc = "terminal" /\ run'[i].exc \in {"none", "config"}
    <3> DEFINE Concluded(e) == \E s, v, f, b : Conclude(i, s, v, f, e, b)
    <3>1. \A e : Concluded(e) => run'[i].pc = "terminal" /\ run'[i].exc = e
      BY ConcludeFields
    <3>2. CASE AuthorizationRefused(i)
      <4>1. Concluded("config")
        BY <3>2 DEF AuthorizationRefused
      <4> HIDE DEF Concluded
      <4>2. QED
        BY <3>1, <3>2, <4>1 DEF AuthorizationRefused, RunAt, Aside
    <3>3. CASE ContractFails(i) \/ ChildRaises(i)
      <4>1. Concluded("config") \/ Concluded("none")
        BY <3>3 DEF ContractFails, ChildRaises, ConcludeFailed
      <4> HIDE DEF Concluded
      <4>2. QED
        BY <3>1, <3>3, <4>1 DEF ContractFails, ChildRaises, RunAt, Aside
    <3>4. CASE AcceptResult(i)
      <4>1. Concluded("config") \/ Concluded("none")
        BY <3>4 DEF AcceptResult
      <4> HIDE DEF Concluded
      <4>2. QED
        BY <3>1, <3>4, <4>1 DEF AcceptResult, RunAt, Aside
    <3>5. QED
      BY <1>5, <3>2, <3>3, <3>4
  <2>2. QED
    BY <1>1, <2>1 DEF AtWork, Raised
<1>6. CASE LaunchChild(i) \/ ChildPersistsManifest(i) \/ ChildInterrupted(i)
  <2>1. /\ mem' = mem /\ run[i].pc \in {"launch", "running"}
        /\ \/ run'[i].pc \in {"running"} /\ run'[i].exc = run[i].exc
           \/ run'[i].pc = "done" /\ run'[i].exc = "interrupt"
    BY <1>6 DEF LaunchChild, ChildPersistsManifest, ChildInterrupted, RunAt, Aside, TypeInv, ItemRun
  <2>2. QED
    BY <1>1, <2>1 DEF AtWork, Raised
<1>7. QED
  BY <1>2, <1>3, <1>4, <1>5, <1>6 DEF RunItem

LEMMA WorkerActive ==
  ASSUME TypeInv, ActiveInv, NEW i \in Item, RunItem(i)
  PROVE  ActiveInv'
<1>1. main' = main /\ \A j \in Item \ {i} : run'[j] = run[j]
  BY WorkerSteps
<1>2. mem.state.active \in Nat
  BY DEF TypeInv, ParentOK, Parent, State
<1>3. main.pc \in PoolPc => mem'.state.active = Cardinality(Working')
  BY <1>1, <1>2, WorkerActivity, WorkingChanges DEF ActiveInv
<1>4. \A j \in Item : Raised(run'[j])
  BY <1>1, WorkerActivity DEF ActiveInv
<1>5. QED
  BY <1>1, <1>3, <1>4 DEF ActiveInv

(* What the main thread does to the workers while the pool works.          *)
LEMMA PoolActive ==
  ASSUME TypeInv, Threads, ActiveInv, (Executing /\ ~ Exit) \/ Interrupt, main'.pc \in PoolPc
  PROVE  \/ main.pc \in PoolPc /\ mem'.state.active = mem.state.active
         \/ SetRunning
BY ActiveUpdates
   DEF Executing, Interrupt, RemoveArtifactManifest, SetRunning, PlanWork, Wait, WaitDone, Collect,
       CollectException, IntervalCheckpoint, Refill, StopScheduling, HandleException,
       InterruptedEvent, FinalCheckpoint, SkipFinalCheckpoint, Verdict, ReportsGenerated,
       ReportsFailed, WriteArtifactManifest, WriteCheckpoint, At, PoolPc, TypeInv, MainOK

LEMMA SubmitActive ==
  ASSUME TypeInv, Threads, ActiveInv, (Executing /\ ~ Exit) \/ Interrupt
  PROVE  \A j \in Item : /\ Raised(run'[j])
                         /\ main'.pc \in PoolPc => (AtWork(run'[j]) <=> AtWork(run[j]))
<1>1. \A j \in Item : Raised(run[j])
  BY DEF ActiveInv
<1>2. /\ ~ AtWork(NoRun) /\ ~ AtWork([NoRun EXCEPT !.pc = "queued"])
      /\ Raised(NoRun) /\ Raised([NoRun EXCEPT !.pc = "queued"])
  BY DEF AtWork, Raised, NoRun
<1>3. \A j \in Item : run[j].pc \in {"none", "queued"} => ~ AtWork(run[j])
  BY <1>1 DEF AtWork, Raised
<1>4. main.batch \subseteq Item /\ main.pending \subseteq Item
  BY DEF TypeInv, MainOK
<1>5. CASE PlanWork
  <2>1. \A j \in Item : run[j].pc = "none"
    BY <1>5 DEF PlanWork, At, Threads, PoolInv, Early
  <2>2. Submit(Window(Pending))
    BY <1>5 DEF PlanWork
  <2>3. \A j \in Item : run'[j] = [NoRun EXCEPT !.pc = "queued"] \/ run'[j] = run[j]
    BY <2>2, Resubmitted
  <2>4. QED
    BY <1>1, <1>2, <1>3, <2>1, <2>3
<1>6. CASE Refill
  <2> DEFINE next == {i \in main.pending : \A j \in main.pending : i <= j}
  <2>1. Submit(next)
    BY <1>6 DEF Refill
  <2>2. \A j \in next : run[j].pc = "none"
    BY DEF Threads, PoolInv
  <2> HIDE DEF next
  <2>3. \A j \in Item : \/ run'[j] = [NoRun EXCEPT !.pc = "queued"] /\ run[j].pc = "none"
                        \/ run'[j] = run[j]
    BY <2>1, <2>2, Resubmitted
  <2>4. QED
    BY <1>1, <1>2, <1>3, <2>3
<1>7. CASE run' = Cancelled
  <2>1. \A j \in Item : run'[j] = run[j] \/ (run[j].pc = "queued" /\ run'[j] = NoRun)
    BY <1>7, Resubmitted
  <2>2. QED
    BY <1>1, <1>2, <1>3, <2>1
<1>8. ASSUME NEW i \in Item, Collect(i)
      PROVE  \A j \in Item : Raised(run'[j]) /\ (AtWork(run'[j]) <=> AtWork(run[j]))
  <2>1. i \in main.batch /\ run[i].exc = "none" /\ run' = [run EXCEPT ![i] = NoRun]
    BY <1>8 DEF Collect
  <2>2. run[i].pc = "done"
    BY <2>1 DEF Threads, PoolInv
  <2>3. ~ AtWork(run[i])
    BY <2>1, <2>2 DEF AtWork
  <2>4. \A j \in Item : run'[j] = IF i = j THEN NoRun ELSE run[j]
    BY <2>1, Resubmitted
  <2>5. QED
    BY <1>1, <1>2, <2>3, <2>4
<1>9. ASSUME NEW i \in Item, CollectException(i)
      PROVE  main'.pc \notin PoolPc /\ \A j \in Item : Raised(run'[j])
  <2>1. run' = [Cancelled EXCEPT ![i] = NoRun] /\ main'.pc = "drain"
    BY <1>9 DEF CollectException, TypeInv, MainOK
  <2>2. \A j \in Item : run'[j] = NoRun \/ run'[j] = run[j]
    BY <2>1, Resubmitted
  <2>3. QED
    BY <1>1, <1>2, <2>1, <2>2 DEF PoolPc
<1>10. \/ run' = run \/ PlanWork \/ Refill \/ run' = Cancelled
       \/ \E i \in Item : Collect(i) \/ CollectException(i)
  BY DEF Executing, Interrupt, RemoveArtifactManifest, SetRunning, Wait, WaitDone,
         IntervalCheckpoint, StopScheduling, HandleException, InterruptedEvent, FinalCheckpoint,
         SkipFinalCheckpoint, Verdict, ReportsGenerated, ReportsFailed, WriteArtifactManifest,
         WriteCheckpoint
<1>11. QED
  BY <1>1, <1>5, <1>6, <1>7, <1>8, <1>9, <1>10

LEMMA ExecutingActive ==
  ASSUME TypeInv, Threads, ActiveInv, (Executing /\ ~ Exit) \/ Interrupt
  PROVE  ActiveInv'
<1>1. \A j \in Item : Raised(run'[j])
  BY SubmitActive
<1>2. ASSUME main'.pc \in PoolPc
      PROVE  mem'.state.active = Cardinality(Working')
  <2>1. Working' = Working
    BY <1>2, SubmitActive DEF Working
  <2>2. CASE main.pc \in PoolPc /\ mem'.state.active = mem.state.active
    BY <2>1, <2>2 DEF ActiveInv
  <2>3. CASE SetRunning
    <3>1. main.pc = "activate" /\ mem'.state.active = 0
      BY <2>3, ActiveUpdates DEF SetRunning, At
    <3>2. \A j \in Item : run[j].pc = "none" /\ Raised(run[j])
      BY <3>1 DEF Threads, PoolInv, Early, ActiveInv
    <3>3. Working = {}
      BY <3>2 DEF Working, AtWork, Raised
    <3>4. QED
      BY <2>1, <3>1, <3>3, FS_EmptySet
  <2>4. QED
    BY <1>2, <2>2, <2>3, PoolActive
<1>3. QED
  BY <1>1, <1>2 DEF ActiveInv

(* A step that starts or ends the work of no item.                         *)
LEMMA OutsideActive ==
  ASSUME ActiveInv, run' = run \/ run' = [i \in Item |-> NoRun],
         main'.pc \in PoolPc => /\ main.pc \in PoolPc /\ run' = run
                                /\ mem'.state.active = mem.state.active
  PROVE  ActiveInv'
<1>1. \A i \in Item : Raised(run'[i])
  BY DEF ActiveInv, Raised, NoRun
<1>2. run' = run => Working' = Working
  BY DEF Working
<1>3. QED
  BY <1>1, <1>2 DEF ActiveInv

LEMMA ActiveNext ==
  ASSUME TypeInv, LedgerInv, IndexInv, ActiveInv, [Next]_vars
  PROVE  ActiveInv'
<1>1. Threads
  BY DEF IndexInv
<1>2. CASE UNCHANGED vars
  BY <1>2, OutsideActive DEF vars
<1>3. CASE Run \/ Resume \/ Initialize \/ Execute
  <2>1. run' = run /\ main'.pc \notin PoolPc
    BY <1>3 DEF Run, Resume, Initialize, Execute, PoolPc, TypeInv, MainOK
  <2>2. QED
    BY <2>1, OutsideActive
<1>4. CASE Prepare \/ Crash \/ Exit
  <2>1. main' = IdleMain /\ run' = [i \in Item |-> NoRun]
    BY <1>4 DEF Prepare, Crash, Exit, Gone
  <2>2. main'.pc \notin PoolPc
    BY <2>1 DEF IdleMain, PoolPc
  <2>3. QED
    BY <2>1, <2>2, OutsideActive
<1>5. CASE Dump \/ \E c \in children : DamageChild(c)
  <2>1. run' = run /\ main' = main /\ mem' = mem
    BY <1>5 DEF Dump, DamageChild
  <2>2. QED
    BY <2>1, OutsideActive
<1>6. CASE Resuming
  <2>1. run' = run
    BY <1>6 DEF Resuming, ReconcileChild, ReconcileEvent, ReconcileDone, ReuseChild, DowngradeChild,
                SkipItem, ValidateDone, SettleMissing, SettlePreserved, SettleEvent, SettleDone
  <2>2. main'.pc \in {"reconcile", "reconciled", "validate", "settle", "settled", "unseal"}
    BY <1>6 DEF Resuming, ReconcileChild, ReconcileEvent, ReconcileDone, ReuseChild, DowngradeChild,
                SkipItem, ValidateDone, SettleMissing, SettlePreserved, SettleEvent, SettleDone,
                Visit, Visited, At, TypeInv, MainOK
  <2>3. QED
    BY <2>1, <2>2, OutsideActive DEF PoolPc
<1>7. CASE (Executing /\ ~ Exit) \/ Interrupt
  BY <1>1, <1>7, ExecutingActive
<1>8. ASSUME NEW i \in Item, RunItem(i)
      PROVE  ActiveInv'
  BY <1>8, WorkerActive
<1>9. QED
  BY <1>2, <1>3, <1>4, <1>5, <1>6, <1>7, <1>8 DEF Next, ControllerStep

LEMMA ActiveInit == Init => ActiveInv
<1>1. \A i \in Item : Init => run[i] = NoRun
  BY DEF Init
<1>2. Init => main.pc = "idle"
  BY DEF Init, IdleMain
<1>3. QED
  BY <1>1, <1>2 DEF ActiveInv, PoolPc, Raised, NoRun

(* The counter of active items, while the pool works, with how an attempt  *)
(* can end by an exception.                                                *)
THEOREM ActiveInvariance == Spec => []ActiveInv
<1>1. TypeInv /\ LedgerInv /\ IndexInv /\ ActiveInv /\ [Next]_vars => ActiveInv'
  BY ActiveNext
<1>2. QED
  BY <1>1, ActiveInit, TypeInvariance, LedgerInvariance, IndexInvariance, PTL DEF Spec

(* active_count of state.json is the number of items between started() and *)
(* terminal(), at every point of the pool's loop, for any number of        *)
(* workers: an item whose child was interrupted stays counted.             *)
THEOREM ActiveItemsAreCounted == Spec => []ActiveCountIsExact
<1>1. ActiveInv => ActiveCountIsExact
  BY DEF ActiveInv, ActiveCountIsExact, PoolPc, Working, AtWork
<1>2. QED
  BY <1>1, ActiveInvariance, PTL
-----------------------------------------------------------------------------
(* Run directories: their order, and what index and workers say of them    *)

SerialsOf(i) == {c.serial : c \in {d \in children : d.item = i}}
BeforeChild == {"queued", "scheduled", "start", "started", "authorize", "launch"}

(* The directories of an item are created one after the other, and every   *)
(* record speaks of one that exists, or of none.                           *)
Refs(ix) == \A r \in ix : r.child = 0 \/ r.child \in SerialsOf(r.item)
Ordered ==
  /\ \A c, d \in children : c.item = d.item /\ c.serial = d.serial => c = d
  /\ \A i \in Item : \E n \in Nat : SerialsOf(i) = 1 .. n
WorkerRefs ==
  \A i \in Item :
    /\ run[i].pc \in BeforeChild => run[i].serial = 0
    /\ run[i].pc = "terminal" => run[i].rec.child = 0 \/ run[i].rec.child \in SerialsOf(i)

SerialInv == Ordered /\ Refs(mem.index) /\ Refs(disk.index) /\ WorkerRefs

LEMMA SerialsTyped ==
  ASSUME TypeInv
  PROVE  /\ \A i : SerialsOf(i) \subseteq Nat
         /\ \A c \in children : c.serial \in SerialsOf(c.item) /\ c.item \in Item /\ c.serial \in Nat
BY DEF TypeInv, ChildrenOK, ChildRun, SerialsOf

LEMMA NextSerialIs ==
  ASSUME TypeInv, Ordered, NEW i \in Item, NEW n \in Nat, SerialsOf(i) = 1 .. n
  PROVE  NextSerial(i) = n + 1
<1> DEFINE C == {c \in children : c.item = i}
           f == [c \in C |-> c.serial]
<1>1. IsFiniteSet(C)
  BY FS_Subset DEF TypeInv, ChildrenOK
<1>2. f \in Bijection(C, SerialsOf(i))
  <2>1. f \in [C -> SerialsOf(i)]
    BY DEF SerialsOf
  <2>2. \A c, d \in C : f[c] = f[d] => c = d
    BY DEF Ordered
  <2>3. \A s \in SerialsOf(i) : \E c \in C : f[c] = s
    BY DEF SerialsOf
  <2>4. DOMAIN f = C
    BY <2>1
  <2> HIDE DEF f, C
  <2>5. QED
    BY <2>1, <2>2, <2>3, <2>4 DEF Bijection, Injection, Surjection, IsInjective
<1>3. ExistsBijection(C, SerialsOf(i))
  BY <1>2 DEF ExistsBijection
<1>4. Cardinality(SerialsOf(i)) = Cardinality(C)
  BY <1>1, <1>3, FS_Bijection
<1>5. Cardinality(SerialsOf(i)) = n
  BY RangeCardinality
<1>6. QED
  BY <1>4, <1>5 DEF NextSerial

(* A directory gets another state, or a new one is made.                   *)
LEMMA SerialsKept ==
  ASSUME TypeInv, Ordered, NEW c \in children, NEW d, d.item = c.item, d.serial = c.serial,
         children' = (children \ {c}) \cup {d}
  PROVE  Ordered' /\ \A i : SerialsOf(i)' = SerialsOf(i)
<1>1. ASSUME NEW i
      PROVE  SerialsOf(i)' = SerialsOf(i)
  <2>1. \A e \in children' : \E g \in children : g.item = e.item /\ g.serial = e.serial
    OBVIOUS
  <2>2. \A e \in children : \E g \in children' : g.item = e.item /\ g.serial = e.serial
    OBVIOUS
  <2>3. SerialsOf(i)' \subseteq SerialsOf(i)
    BY <2>1 DEF SerialsOf
  <2>4. SerialsOf(i) \subseteq SerialsOf(i)'
    BY <2>2 DEF SerialsOf
  <2>5. QED
    BY <2>3, <2>4
<1>2. \A e, g \in children' : e.item = g.item /\ e.serial = g.serial => e = g
  BY DEF Ordered
<1>3. QED
  BY <1>1, <1>2 DEF Ordered

LEMMA SerialAdded ==
  ASSUME TypeInv, Ordered, NEW d, d.item \in Item, d.serial = NextSerial(d.item),
         children' = children \cup {d}
  PROVE  /\ Ordered' /\ d \notin children /\ d.serial \in Nat /\ d.serial # 0
         /\ \A c \in children : c.item = d.item => c.serial < d.serial
         /\ \A i : SerialsOf(i) \subseteq SerialsOf(i)'
         /\ d.serial \in SerialsOf(d.item)' /\ d.serial \notin SerialsOf(d.item)
<1>1. PICK n \in Nat : SerialsOf(d.item) = 1 .. n
  BY DEF Ordered
<1>2. d.serial = n + 1
  BY <1>1, NextSerialIs
<1>3. \A c \in children : c.item = d.item => c.serial < d.serial
  <2>1. \A c \in children : c.item = d.item => c.serial \in 1 .. n
    BY <1>1, SerialsTyped
  <2>2. QED
    BY <1>2, <2>1
<1>4. d \notin children /\ d.serial \in Nat /\ d.serial # 0 /\ d.serial \notin SerialsOf(d.item)
  BY <1>1, <1>2, <1>3
<1>5. SerialsOf(d.item)' = 1 .. d.serial
  <2>1. SerialsOf(d.item)' = SerialsOf(d.item) \cup {d.serial}
    BY DEF SerialsOf
  <2>2. QED
    BY <1>1, <1>2, <2>1
<1>6. \A i : i # d.item => SerialsOf(i)' = SerialsOf(i)
  <2>1. ASSUME NEW i, i # d.item, NEW s
        PROVE  s \in SerialsOf(i)' <=> s \in SerialsOf(i)
    BY <2>1 DEF SerialsOf
  <2>2. QED
    BY <2>1
<1>7. \A c, e \in children' : c.item = e.item /\ c.serial = e.serial => c = e
  <2>1. \A c \in children : c.item = d.item => c.serial # d.serial
    BY <1>3, <1>4, SerialsTyped
  <2>2. QED
    BY <2>1 DEF Ordered
<1>8. \A i \in Item : \E m \in Nat : SerialsOf(i)' = 1 .. m
  BY <1>4, <1>5, <1>6 DEF Ordered
<1>9. d.serial \in SerialsOf(d.item)' /\ \A i : SerialsOf(i) \subseteq SerialsOf(i)'
  BY DEF SerialsOf
<1>10. QED
  BY <1>3, <1>4, <1>7, <1>8, <1>9 DEF Ordered

(* An item that is not launched yet, and one that is not authorized yet.   *)
InTurn(i) == run[i].pc \in BeforeChild \/ i \in main.pending
BeforeLedger == BeforeChild \ {"launch"}
Unauthorized(i) == run[i].pc \in BeforeLedger \/ i \in main.pending

(* The main thread only takes workers away, or gives out items.            *)
LEMMA ExecutingRuns ==
  ASSUME TypeInv, Threads, (Executing /\ ~ Exit) \/ Interrupt
  PROVE  \A j \in Item :
           /\ run'[j] \in {run[j], NoRun, [NoRun EXCEPT !.pc = "queued"]}
           /\ InTurn(j)' => InTurn(j) \/ (PlanWork /\ j \in Pending)
           /\ Unauthorized(j)' => Unauthorized(j) \/ (PlanWork /\ j \in Pending)
<1>1. main.pending \subseteq Item
  BY DEF TypeInv, MainOK
<1>2. /\ NoRun.pc = "none" /\ "none" \notin BeforeChild /\ "queued" \in BeforeChild
      /\ [NoRun EXCEPT !.pc = "queued"].pc = "queued"
  BY Resubmitted DEF BeforeChild
<1>3. ASSUME NEW S, Submit(S), NEW j \in Item
      PROVE  IF j \in S THEN run'[j] = [NoRun EXCEPT !.pc = "queued"] ELSE run'[j] = run[j]
  BY <1>3, Resubmitted
<1>4. CASE PlanWork
  <2> DEFINE W == Window(Pending)
  <2>1. Submit(W) /\ main'.pending = Pending \ W
    BY <1>4 DEF PlanWork, TypeInv, MainOK
  <2>2. \A j \in W : j \in Pending
    BY DEF Window
  <2> HIDE DEF W
  <2>3. QED
    BY <1>2, <1>3, <1>4, <2>1, <2>2 DEF InTurn, Unauthorized, BeforeLedger
<1>5. CASE Refill
  <2> DEFINE next == {i \in main.pending : \A j \in main.pending : i <= j}
  <2>1. Submit(next) /\ main'.pending = main.pending \ next
    BY <1>5 DEF Refill, TypeInv, MainOK
  <2>2. \A j \in next : j \in main.pending
    OBVIOUS
  <2> HIDE DEF next
  <2>3. QED
    BY <1>2, <1>3, <2>1, <2>2 DEF InTurn, Unauthorized, BeforeLedger
<1>6. ASSUME ~ PlanWork, ~ Refill
      PROVE  /\ main'.pending = main.pending
             /\ \/ run' = run \/ run' = Cancelled
                \/ \E i \in Item : \/ run' = [run EXCEPT ![i] = NoRun]
                                   \/ run' = [Cancelled EXCEPT ![i] = NoRun]
  BY <1>6
     DEF Executing, Interrupt, RemoveArtifactManifest, SetRunning, Wait, WaitDone, Collect,
         CollectException, IntervalCheckpoint, StopScheduling, HandleException, InterruptedEvent,
         FinalCheckpoint, SkipFinalCheckpoint, Verdict, ReportsGenerated, ReportsFailed,
         WriteArtifactManifest, WriteCheckpoint, TypeInv, MainOK
<1>7. ASSUME ~ PlanWork, ~ Refill, NEW j \in Item
      PROVE  run'[j] \in {run[j], NoRun}
  <2>1. Cancelled[j] \in {run[j], NoRun}
    BY Resubmitted
  <2>2. CASE run' = run \/ run' = Cancelled
    BY <2>1, <2>2
  <2>3. ASSUME NEW i \in Item,
               run' = [run EXCEPT ![i] = NoRun] \/ run' = [Cancelled EXCEPT ![i] = NoRun]
        PROVE  run'[j] \in {run[j], NoRun}
    <3>1. run \in [Item -> ItemRun] /\ Cancelled \in [Item -> ItemRun]
      BY SubmitType DEF TypeInv
    <3>2. run'[j] = NoRun \/ run'[j] = run[j] \/ run'[j] = Cancelled[j]
      BY <2>3, <3>1
    <3>3. QED
      BY <2>1, <3>2
  <2>4. QED
    BY <1>6, <1>7, <2>2, <2>3
<1>8. QED
  BY <1>2, <1>4, <1>5, <1>6, <1>7 DEF InTurn, Unauthorized, BeforeLedger

(* A worker's serial is that of its child, from the launch to the record.  *)
LEMMA WorkerSerials ==
  ASSUME TypeInv, SerialInv, NEW i \in Item, RunItem(i)
  PROVE  /\ run'[i].pc \in BeforeChild => run'[i].serial = 0
         /\ run'[i].pc = "terminal" =>
              run'[i].rec.child = 0 \/ run'[i].rec.child \in SerialsOf(i)
         /\ run'[i].pc = "terminal" => run[i].pc # "terminal" /\ children' = children
<1>1. run[i].pc \in BeforeChild => run[i].serial = 0
  BY DEF SerialInv, WorkerRefs
<1>2. run[i].pc \in {"running", "returned"} => run[i].serial \in SerialsOf(i)
  BY DEF TypeInv, Backed, SerialsOf
<1>3. CASE Scheduled(i) \/ ScheduledEvent(i) \/ Started(i) \/ StartedEvent(i)
           \/ Terminal(i) \/ TerminalEvent(i) \/ Authorize(i) \/ NoAuthorizationNeeded(i)
           \/ ChildReturns(i)
  <2>1. /\ run'[i].serial = run[i].serial
        /\ \/ run[i].pc \in BeforeChild /\ run'[i].pc \in BeforeChild
           \/ run'[i].pc \in {"recorded", "done", "returned"}
    BY <1>3, ToPcFields
       DEF Scheduled, ScheduledEvent, Started, StartedEvent, Terminal, TerminalEvent, Authorize,
           NoAuthorizationNeeded, ChildReturns, RunAt, BeforeChild
  <2>2. QED
    BY <1>1, <2>1 DEF BeforeChild
<1>4. CASE ContractFails(i) \/ AuthorizationRefused(i) \/ ChildRaises(i) \/ AcceptResult(i)
  <2>1. /\ run[i].pc \in {"authorize", "launch", "running", "returned"} /\ children' = children
        /\ \E v, f, e, b : \/ Conclude(i, 0, v, f, e, b)
                           \/ Conclude(i, run[i].serial, v, f, e, b)
    BY <1>4
       DEF ContractFails, AuthorizationRefused, ChildRaises, AcceptResult, ConcludeFailed, RunAt
  <2>2. PICK s, v, f, e, b : s \in {0, run[i].serial} /\ Conclude(i, s, v, f, e, b)
    BY <2>1
  <2>3. run'[i].pc = "terminal" /\ run'[i].rec = RunIndexRecord(i, main.attempts[i], s, v, f)
    BY <2>2, ConcludeFields
  <2>4. run'[i].rec.child = s
    BY <2>3, RecordFields
  <2>5. QED
    BY <1>1, <1>2, <2>1, <2>2, <2>3, <2>4 DEF BeforeChild
<1>5. CASE LaunchChild(i) \/ ChildPersistsManifest(i) \/ ChildInterrupted(i)
  <2>1. run'[i].pc \in {"running", "done"}
    BY <1>5 DEF LaunchChild, ChildPersistsManifest, ChildInterrupted, RunAt, Aside, TypeInv, ItemRun
  <2>2. QED
    BY <2>1 DEF BeforeChild
<1>6. QED
  BY <1>3, <1>4, <1>5 DEF RunItem

LEMMA SerialStep ==
  ASSUME SerialInv, Ordered', \A i : SerialsOf(i) \subseteq SerialsOf(i)',
         \A r \in mem'.index :
           r \in mem.index \cup disk.index \/ r.child = 0 \/ r.child \in SerialsOf(r.item),
         disk'.index \subseteq mem.index \cup disk.index,
         \A i \in Item :
           \/ run'[i] = run[i]
           \/ /\ run'[i].pc \in BeforeChild => run'[i].serial = 0
              /\ run'[i].pc = "terminal" =>
                   run'[i].rec.child = 0 \/ run'[i].rec.child \in SerialsOf(i)
  PROVE  SerialInv'
<1>1. \A r \in mem.index \cup disk.index : r.child = 0 \/ r.child \in SerialsOf(r.item)
  BY DEF SerialInv, Refs
<1>2. \A r \in mem'.index \cup disk'.index : r.child = 0 \/ r.child \in SerialsOf(r.item)
  BY <1>1
<1>3. Refs(mem.index)' /\ Refs(disk.index)'
  BY <1>2 DEF Refs
<1>4. WorkerRefs'
  BY DEF SerialInv, WorkerRefs
<1>5. QED
  BY <1>3, <1>4 DEF SerialInv

(* The same run directories.                                               *)
LEMMA SameSerials ==
  ASSUME Ordered, children' = children
  PROVE  Ordered' /\ \A i : SerialsOf(i)' = SerialsOf(i)
BY DEF Ordered, SerialsOf

(* What resume does to the index, record by record.                        *)
LEMMA ResumingIndex ==
  ASSUME TypeInv, Resuming
  PROVE  /\ UNCHANGED <<disk, run, children, root>>
         /\ \/ mem'.index = mem.index
            \/ \E c \in children : ReconcileChild(c) /\ mem' = IndexedParent(OrphanRecord(c))
            \/ \E i \in Item, q \in mem.index :
                 /\ DowngradeChild(i) /\ q \in LatestOf(i, mem.index)
                 /\ q.validity = "valid" /\ ~ Reusable(q)
                 /\ mem' = ReplacedParent(q, [q EXCEPT !.validity = "corrupt", !.fault = "none"])
            \/ \E a \in mem.ledger :
                 /\ SettleMissing(a)
                 /\ mem' = IndexedParent(RunIndexRecord(a.item, a.attempt, 0, "missing", "local"))
            \/ \E a \in mem.ledger, q \in mem.index :
                 /\ SettlePreserved(a) /\ q \in LatestOf(a.item, mem.index) /\ q.validity # "valid"
                 /\ mem' = ReplacedParent(q, [q EXCEPT !.fault = "local"])
<1>1. mem \in Parent
  BY DEF TypeInv, ParentOK
<1>2. UNCHANGED <<disk, run, children, root>>
  BY DEF Resuming, ReconcileChild, ReconcileEvent, ReconcileDone, ReuseChild, DowngradeChild, SkipItem,
         ValidateDone, SettleMissing, SettlePreserved, SettleEvent, SettleDone, Bookkeeping
<1>3. ASSUME ReconcileEvent \/ ReconcileDone \/ (\E i \in Item : ReuseChild(i) \/ SkipItem(i))
             \/ ValidateDone \/ SettleEvent \/ SettleDone
      PROVE  mem'.index = mem.index
  <2>1. mem' = mem \/ \E e : Event(Main, e)
    BY <1>3 DEF ReconcileEvent, ReconcileDone, ReuseChild, SkipItem, ValidateDone, SettleEvent,
                SettleDone
  <2>2. QED
    BY <1>1, <2>1 DEF Event, Locked, Parent
<1>4. \A c \in children : ReconcileChild(c) => mem' = IndexedParent(OrphanRecord(c))
  BY DEF ReconcileChild, Locked
<1>5. ASSUME NEW i \in Item, DowngradeChild(i)
      PROVE  \E q \in mem.index :
               /\ q \in LatestOf(i, mem.index) /\ q.validity = "valid" /\ ~ Reusable(q)
               /\ mem' = ReplacedParent(q, [q EXCEPT !.validity = "corrupt", !.fault = "none"])
  BY <1>5 DEF DowngradeChild, Locked, LatestOf, LatestRecords
<1>6. \A a \in mem.ledger : SettleMissing(a) =>
        mem' = IndexedParent(RunIndexRecord(a.item, a.attempt, 0, "missing", "local"))
  BY DEF SettleMissing, Locked
<1>7. ASSUME NEW a \in mem.ledger, SettlePreserved(a)
      PROVE  \E q \in mem.index :
               /\ q \in LatestOf(a.item, mem.index) /\ q.validity # "valid"
               /\ mem' = ReplacedParent(q, [q EXCEPT !.fault = "local"])
  BY <1>7 DEF SettlePreserved, Locked, LatestOf, LatestRecords
<1>8. QED
  BY <1>2, <1>3, <1>4, <1>5, <1>6, <1>7 DEF Resuming

LEMMA IndexFields ==
  ASSUME TypeInv
  PROVE  /\ \A r : IndexedParent(r).index = mem.index \cup {r}
         /\ \A q, r : ReplacedParent(q, r).index = (mem.index \ {q}) \cup {r}
         /\ \A q \in mem.index :
              LET c == [q EXCEPT !.validity = "corrupt", !.fault = "none"]
                  l == [q EXCEPT !.fault = "local"]
              IN  /\ c.item = q.item /\ c.attempt = q.attempt /\ c.child = q.child
                  /\ l.item = q.item /\ l.attempt = q.attempt /\ l.child = q.child
                  /\ c.validity = "corrupt" /\ l.validity = q.validity
                  /\ c \in IndexRecord /\ l \in IndexRecord
<1>1. mem \in Parent
  BY DEF TypeInv, ParentOK
<1>2. \A q \in mem.index : q \in IndexRecord
  BY <1>1 DEF Parent
<1>3. ASSUME NEW q \in IndexRecord
      PROVE  /\ [q EXCEPT !.validity = "corrupt", !.fault = "none"] \in IndexRecord
             /\ [q EXCEPT !.fault = "local"] \in IndexRecord
             /\ [q EXCEPT !.validity = "corrupt", !.fault = "none"].validity = "corrupt"
             /\ [q EXCEPT !.fault = "local"].validity = q.validity
             /\ \A x \in {[q EXCEPT !.validity = "corrupt", !.fault = "none"],
                          [q EXCEPT !.fault = "local"]} :
                  x.item = q.item /\ x.attempt = q.attempt /\ x.child = q.child
  BY DEF IndexRecord, Validity, Fault
<1>4. QED
  BY <1>1, <1>2, <1>3 DEF IndexedParent, ReplacedParent, Parent

LEMMA GainedIndex ==
  ASSUME TypeInv, NEW r PROVE IndexedParent(r).index = mem.index \cup {r}
<1>1. mem \in Parent
  BY DEF TypeInv, ParentOK
<1>2. QED
  BY <1>1 DEF IndexedParent, Parent

LEMMA ReplacedIndex ==
  ASSUME TypeInv, NEW q, NEW r
  PROVE  ReplacedParent(q, r).index = (mem.index \ {q}) \cup {r}
<1>1. mem \in Parent
  BY DEF TypeInv, ParentOK
<1>2. QED
  BY <1>1 DEF ReplacedParent, Parent

LEMMA RevisedRecords ==
  ASSUME TypeInv, NEW q \in mem.index
  PROVE  /\ [q EXCEPT !.validity = "corrupt", !.fault = "none"].validity = "corrupt"
         /\ [q EXCEPT !.fault = "local"].validity = q.validity
<1>1. q \in IndexRecord
  BY DEF TypeInv, ParentOK, Parent
<1>2. QED
  BY <1>1 DEF IndexRecord

(* What a worker does to the run directories: nothing, a new one, or the   *)
(* next state of its own.                                                  *)
LEMMA WorkerDirectories ==
  ASSUME TypeInv, NEW i \in Item, RunItem(i)
  PROVE  \/ children' = children /\ ~ LaunchChild(i) /\ ~ ChildPersistsManifest(i) /\ ~ ChildReturns(i)
         \/ LaunchChild(i) /\ \E d \in ChildRun :
              /\ d.item = i /\ d.serial = NextSerial(i) /\ d.state = "opened"
              /\ children' = children \cup {d}
              /\ run'[i].pc = "running" /\ run'[i].serial = d.serial
         \/ (ChildPersistsManifest(i) \/ ChildReturns(i)) /\ \E c \in children : \E d \in ChildRun :
              /\ c.item = i /\ c.serial = run[i].serial /\ d.item = i /\ d.serial = c.serial
              /\ children' = (children \ {c}) \cup {d}
              /\ run[i].pc = "running" /\ run'[i].serial = run[i].serial
              /\ \/ d.state = "bound" /\ run'[i].pc = "running"
                 \/ d.state \in {"valid", "mismatched", "unvetted"} /\ run'[i].pc = "returned"
              /\ d.state = "unvetted" => i \in ModelBearing
<1>1. CASE LaunchChild(i)
  <2> DEFINE d == [item |-> i, attempt |-> main.attempts[i], serial |-> NextSerial(i),
                   state |-> "opened", fault |-> "none"]
  <2>1. IsFiniteSet({c \in children : c.item = i})
    BY FS_Subset DEF TypeInv, ChildrenOK
  <2>2. NextSerial(i) \in Nat
    BY <2>1, FS_CardinalityType DEF NextSerial
  <2>3. d \in ChildRun /\ d.item = i /\ d.serial = NextSerial(i) /\ d.state = "opened"
    BY <2>2 DEF ChildRun, TypeInv, MainOK, Fault
  <2>4. children' = children \cup {d} /\ run'[i].pc = "running" /\ run'[i].serial = d.serial
    BY <1>1 DEF LaunchChild, TypeInv, ItemRun
  <2> HIDE DEF d
  <2>5. QED
    BY <1>1, <2>3, <2>4
<1>2. CASE ChildPersistsManifest(i) \/ ChildReturns(i)
  <2> DEFINE c == Child(i)
  <2>1. run[i].pc = "running" /\ c \in children /\ c.item = i /\ c.serial = run[i].serial
    BY <1>2, ChildType DEF ChildPersistsManifest, ChildReturns, RunAt
  <2>2. c \in ChildRun
    BY <2>1 DEF TypeInv, ChildrenOK
  <2>3. \E s, f : /\ f \in Fault
                  /\ \/ s = "bound" /\ run' = run
                     \/ /\ s \in {"valid", "mismatched", "unvetted"} /\ ToPc(i, "returned")
                        /\ s = "unvetted" => i \in ModelBearing
                  /\ children' = (children \ {c}) \cup {[c EXCEPT !.state = s, !.fault = f]}
    BY <1>2 DEF ChildPersistsManifest, ChildReturns, ChildBecomes, Fault
  <2>4. PICK s, f : /\ f \in Fault
                    /\ \/ s = "bound" /\ run' = run
                       \/ /\ s \in {"valid", "mismatched", "unvetted"} /\ ToPc(i, "returned")
                          /\ s = "unvetted" => i \in ModelBearing
                    /\ children' = (children \ {c}) \cup {[c EXCEPT !.state = s, !.fault = f]}
    BY <2>3
  <2> DEFINE d == [c EXCEPT !.state = s, !.fault = f]
  <2> HIDE DEF c
  <2>5. d \in ChildRun /\ d.item = c.item /\ d.serial = c.serial /\ d.state = s
    BY <2>2, <2>4 DEF ChildRun, Fault
  <2>6. children' = (children \ {c}) \cup {d}
    BY <2>4
  <2>7. \/ d.state = "bound" /\ run'[i] = run[i]
        \/ /\ d.state \in {"valid", "mismatched", "unvetted"} /\ run'[i].pc = "returned"
           /\ run'[i].serial = run[i].serial
    BY <2>4, <2>5, ToPcFields
  <2>8. d.state = "unvetted" => i \in ModelBearing
    BY <2>4, <2>5
  <2> HIDE DEF d
  <2>9. QED
    BY <1>2, <2>1, <2>5, <2>6, <2>7, <2>8
<1>3. CASE ~ LaunchChild(i) /\ ~ ChildPersistsManifest(i) /\ ~ ChildReturns(i)
  <2>1. children' = children
    BY <1>3
       DEF RunItem, Scheduled, ScheduledEvent, Started, StartedEvent, ContractFails,
           NoAuthorizationNeeded, Authorize, AuthorizationRefused, ChildRaises, ChildInterrupted,
           AcceptResult, Terminal, TerminalEvent, Worker, Aside, Bookkeeping
  <2>2. QED
    BY <1>3, <2>1
<1>4. QED
  BY <1>1, <1>2, <1>3

LEMMA WorkerOrdered ==
  ASSUME TypeInv, Ordered, NEW i \in Item, RunItem(i)
  PROVE  Ordered' /\ \A j : SerialsOf(j) \subseteq SerialsOf(j)'
<1>1. CASE children' = children
  BY <1>1, SameSerials
<1>2. ASSUME NEW d \in ChildRun, d.item = i, d.serial = NextSerial(i), children' = children \cup {d}
      PROVE  Ordered' /\ \A j : SerialsOf(j) \subseteq SerialsOf(j)'
  BY <1>2, SerialAdded
<1>3. ASSUME NEW c \in children, NEW d \in ChildRun, d.item = c.item, d.serial = c.serial,
             children' = (children \ {c}) \cup {d}
      PROVE  Ordered' /\ \A j : SerialsOf(j) \subseteq SerialsOf(j)'
  BY <1>3, SerialsKept
<1>4. QED
  BY <1>1, <1>2, <1>3, WorkerDirectories

(* What a worker does to the two copies of the index.                      *)
LEMMA WorkerRecords ==
  ASSUME TypeInv, NEW i \in Item, RunItem(i)
  PROVE  /\ disk'.index = disk.index
         /\ \/ ~ Terminal(i) /\ mem'.index = mem.index
            \/ Terminal(i) /\ mem'.index = mem.index \cup {run[i].rec}
<1>1. CASE Terminal(i)
  BY <1>1, IndexFields DEF Terminal, Locked, Worker
<1>2. CASE TerminalEvent(i)
  <2>1. mem'.index = mem.index /\ disk' = disk
    BY <1>2 DEF TerminalEvent, Event, Locked, Worker, TypeInv, ParentOK, Parent
  <2>2. Terminal(i) => FALSE
    BY <1>2 DEF Terminal, TerminalEvent, RunAt
  <2>3. QED
    BY <2>1, <2>2
<1>3. CASE ~ Terminal(i) /\ ~ TerminalEvent(i)
  BY <1>3, PlainWorker DEF Unfiled
<1>4. QED
  BY <1>1, <1>2, <1>3

LEMMA WorkerSerial ==
  ASSUME TypeInv, LedgerInv, IndexInv, SerialInv, NEW i \in Item, RunItem(i)
  PROVE  SerialInv'
<1>1. Ordered' /\ \A j : SerialsOf(j) \subseteq SerialsOf(j)'
  BY WorkerOrdered DEF SerialInv
<1>2. disk'.index \subseteq mem.index \cup disk.index
  BY WorkerRecords
<1>3. ASSUME Terminal(i)
      PROVE  run[i].rec.child = 0 \/ run[i].rec.child \in SerialsOf(run[i].rec.item)
  <2>1. run[i].pc = "terminal"
    BY <1>3 DEF Terminal, RunAt
  <2>2. run[i].rec.item = i
    BY <2>1, KeyInjective DEF IndexInv, WorkInv, OpenInv, KeyOf
  <2>3. QED
    BY <2>1, <2>2 DEF SerialInv, WorkerRefs
<1>4. \A r \in mem'.index :
        r \in mem.index \cup disk.index \/ r.child = 0 \/ r.child \in SerialsOf(r.item)
  BY <1>3, WorkerRecords
<1>5. \A j \in Item :
        \/ run'[j] = run[j]
        \/ /\ run'[j].pc \in BeforeChild => run'[j].serial = 0
           /\ run'[j].pc = "terminal" =>
                run'[j].rec.child = 0 \/ run'[j].rec.child \in SerialsOf(j)
  BY WorkerSerials, WorkerSteps
<1>6. QED
  BY <1>1, <1>2, <1>4, <1>5, SerialStep

LEMMA ResumingSerial ==
  ASSUME TypeInv, SerialInv, Resuming
  PROVE  SerialInv'
<1>1. UNCHANGED <<disk, run, children>>
  BY ResumingIndex
<1>2. Ordered' /\ \A i : SerialsOf(i)' = SerialsOf(i)
  BY <1>1, SameSerials DEF SerialInv
<1>3. \A q \in mem.index : q.child = 0 \/ q.child \in SerialsOf(q.item)
  BY DEF SerialInv, Refs
<1>4. ASSUME NEW c \in children, mem' = IndexedParent(OrphanRecord(c))
      PROVE  \A r \in mem'.index :
               r \in mem.index \cup disk.index \/ r.child = 0 \/ r.child \in SerialsOf(r.item)
  <2>1. OrphanRecord(c).item = c.item /\ OrphanRecord(c).child = c.serial
    BY RecordFields DEF OrphanRecord
  <2>2. c.serial \in SerialsOf(c.item)
    BY SerialsTyped
  <2> DEFINE o == OrphanRecord(c)
  <2>3. mem'.index = mem.index \cup {o}
    BY <1>4, IndexFields
  <2> HIDE DEF o
  <2>4. QED
    BY <2>1, <2>2, <2>3 DEF o
<1>5. ASSUME NEW q \in mem.index, NEW r, r.item = q.item, r.child = q.child,
             mem' = ReplacedParent(q, r)
      PROVE  \A x \in mem'.index :
               x \in mem.index \cup disk.index \/ x.child = 0 \/ x.child \in SerialsOf(x.item)
  <2>1. mem'.index = (mem.index \ {q}) \cup {r}
    BY <1>5, IndexFields
  <2>2. QED
    BY <1>3, <1>5, <2>1
<1>6. ASSUME NEW a, mem' = IndexedParent(RunIndexRecord(a.item, a.attempt, 0, "missing", "local"))
      PROVE  \A r \in mem'.index :
               r \in mem.index \cup disk.index \/ r.child = 0 \/ r.child \in SerialsOf(r.item)
  <2> DEFINE o == RunIndexRecord(a.item, a.attempt, 0, "missing", "local")
  <2>1. o.child = 0
    BY RecordFields
  <2>2. mem'.index = mem.index \cup {o}
    BY <1>6, IndexFields
  <2> HIDE DEF o
  <2>3. QED
    BY <2>1, <2>2
<1>7. \A r \in mem'.index :
        r \in mem.index \cup disk.index \/ r.child = 0 \/ r.child \in SerialsOf(r.item)
  BY <1>4, <1>5, <1>6, IndexFields, ResumingIndex
<1>8. QED
  BY <1>1, <1>2, <1>7, SerialStep

LEMMA SerialNext ==
  ASSUME TypeInv, LedgerInv, IndexInv, SerialInv, [Next]_vars
  PROVE  SerialInv'
<1> DEFINE Known == \A r \in mem'.index : r \in mem.index \cup disk.index
<1>2. ASSUME children' = children, Known, disk'.index \subseteq mem.index \cup disk.index,
             \A i \in Item : run'[i] \in {run[i], NoRun, [NoRun EXCEPT !.pc = "queued"]}
      PROVE  SerialInv'
  <2>1. Ordered' /\ \A i : SerialsOf(i) \subseteq SerialsOf(i)'
    BY <1>2, SameSerials DEF SerialInv
  <2>2. /\ NoRun.pc = "none" /\ [NoRun EXCEPT !.pc = "queued"].pc = "queued"
        /\ [NoRun EXCEPT !.pc = "queued"].serial = 0
    BY DEF NoRun
  <2>3. \A i \in Item :
          \/ run'[i] = run[i]
          \/ /\ run'[i].pc \in BeforeChild => run'[i].serial = 0
             /\ run'[i].pc # "terminal"
    BY <1>2, <2>2 DEF BeforeChild
  <2>4. QED
    BY <1>2, <2>1, <2>3, SerialStep
<1>3. CASE UNCHANGED vars
  BY <1>2, <1>3 DEF vars
<1>4. CASE Run \/ Resume \/ Initialize \/ Execute
  <2>1. children' = children /\ run' = run
    BY <1>4 DEF Run, Resume, Initialize, Execute, Bookkeeping
  <2>2. /\ mem'.index \in {mem.index, disk.index, {}}
        /\ disk'.index \in {disk.index, {}}
    BY <1>4, NewParentIndex DEF Run, Resume, Initialize, Execute, TypeInv, ParentOK, Parent
  <2>3. QED
    BY <1>2, <2>1, <2>2
<1>5. CASE Prepare \/ Crash \/ Exit
  <2>1. /\ children' = children /\ disk' = disk /\ mem' = NewParent
        /\ run' = [i \in Item |-> NoRun]
    BY <1>5 DEF Prepare, Crash, Exit, Gone, Bookkeeping
  <2>2. mem'.index = {}
    BY <2>1, NewParentIndex
  <2>3. QED
    BY <1>2, <2>1, <2>2
<1>6. CASE Dump
  <2>1. children' = children /\ mem' = mem /\ run' = run
    BY <1>6 DEF Dump
  <2>2. disk'.index \in {disk.index, mem.index}
    BY <1>6 DEF Dump, TypeInv, ParentOK, Parent
  <2>3. QED
    BY <1>2, <2>1, <2>2
<1>7. CASE Resuming
  BY <1>7, ResumingSerial
<1>8. CASE (Executing /\ ~ Exit) \/ Interrupt
  <2>1. /\ children' = children /\ mem'.index = mem.index /\ disk'.index = disk.index
    BY <1>8, PlainExecuting DEF Plain, Unfiled
  <2>2. QED
    BY <1>2, <1>8, <2>1, ExecutingRuns DEF IndexInv
<1>9. ASSUME NEW i \in Item, RunItem(i)
      PROVE  SerialInv'
  BY <1>9, WorkerSerial
<1>10. ASSUME NEW c \in children, DamageChild(c)
       PROVE  SerialInv'
  <2> DEFINE d == [c EXCEPT !.state = "damaged"]
  <2>1. d.item = c.item /\ d.serial = c.serial
    BY DEF TypeInv, ChildrenOK, ChildRun
  <2>2. children' = (children \ {c}) \cup {d} /\ UNCHANGED <<mem, disk, run>>
    BY <1>10 DEF DamageChild
  <2> HIDE DEF d
  <2>3. Ordered' /\ \A i : SerialsOf(i) \subseteq SerialsOf(i)'
    BY <2>1, <2>2, SerialsKept DEF SerialInv
  <2>4. QED
    BY <2>2, <2>3, SerialStep
<1>11. QED
  BY <1>3, <1>4, <1>5, <1>6, <1>7, <1>8, <1>9, <1>10 DEF Next, ControllerStep

LEMMA SerialInit == Init => SerialInv
<1>1. SUFFICES ASSUME Init PROVE SerialInv
  OBVIOUS
<1>2. /\ children = {} /\ mem.index = {} /\ disk.index = {}
      /\ \A i \in Item : run[i].pc = "none"
  BY <1>1, NewParentIndex DEF Init, NoRun
<1>3. \A i \in Item : SerialsOf(i) = 1 .. 0
  BY <1>2 DEF SerialsOf
<1>4. QED
  BY <1>2, <1>3 DEF SerialInv, Ordered, Refs, WorkerRefs, BeforeChild

(* The run directories of an item are numbered by their creation, and no   *)
(* record of index or worker speaks of one that does not exist.            *)
THEOREM SerialInvariance == Spec => []SerialInv
<1>1. TypeInv /\ LedgerInv /\ IndexInv /\ SerialInv /\ [Next]_vars => SerialInv'
  BY SerialNext
<1>2. QED
  BY <1>1, SerialInit, TypeInvariance, LedgerInvariance, IndexInvariance, PTL DEF Spec
-----------------------------------------------------------------------------
(* Run directories that could be accepted                                  *)

Last(c) == \A d \in children : d.item = c.item => d.serial <= c.serial
(* The strict policy will not pay for the item again.                      *)
Spent(i) == Strict /\ i \in AuthorizedItems
Kept(c, ix) == \E r \in LatestOf(c.item, ix) : r.child = c.serial /\ r.validity = "valid"
Accounted(ix) ==
  \A c \in children : Replays(c) => c \in Unindexed(ix) \/ Kept(c, ix) \/ Spent(c.item)
(* Nothing that resume could still accept, or has to look at.              *)
Stale(c) == ~ Replays(c) /\ c \notin Unindexed(disk.index)
Untouched(i) == \A c \in children : c.item = i => Stale(c)
(* A worker with a child: the child is the newest directory of the item    *)
(* and in no record, and the older ones are stale.                         *)
Attended(i) ==
  \A c \in children : c.item = i =>
    IF c.serial = run[i].serial
    THEN /\ Last(c) /\ \A r \in mem.index : r.item = i => r.child # c.serial
         /\ run[i].pc = "running" => c.state \in {"opened", "bound"}
    ELSE Stale(c)
(* A worker with a record: the record accepts what could be accepted.      *)
Answered(i) ==
  \A c \in children : c.item = i /\ Replays(c) =>
    Spent(i) \/ (run[i].rec.child = c.serial /\ run[i].rec.validity = "valid")

LastInv == \A c \in children : Replays(c) \/ c \in Unindexed(disk.index) => Last(c)
AccountInv == Accounted(disk.index) /\ (Live => Accounted(mem.index))
TurnInv == \A i \in Item : InTurn(i) => Untouched(i)
AttendInv ==
  \A i \in Item : run[i].pc \in {"running", "returned"} =>
    Attended(i) /\ (i \in ModelBearing => i \in AuthorizedItems)
AnswerInv == \A i \in Item : run[i].pc = "terminal" => Answered(i)
VettedInv ==
  \A c \in children : c.state = "unvetted" => c.item \in ModelBearing /\ c.item \in AuthorizedItems

ChildInv == LastInv /\ AccountInv /\ TurnInv /\ AttendInv /\ AnswerInv /\ VettedInv

(* The latest record of an item after one more, or a reclassified one.     *)
LEMMA LatestAdded ==
  ASSUME NEW ix \in SUBSET IndexRecord, NEW r \in IndexRecord,
         \A q \in ix : q.item = r.item => q.attempt < r.attempt
  PROVE  /\ LatestOf(r.item, ix \cup {r}) = {r}
         /\ \A i : i # r.item => LatestOf(i, ix \cup {r}) = LatestOf(i, ix)
<1>1. r.attempt \in Nat /\ \A q \in ix : q.attempt \in Nat
  BY IndexTyped DEF IndexRecord
<1>2. LatestOf(r.item, ix \cup {r}) = {r}
  BY <1>1 DEF LatestOf, LatestRecords
<1>3. ASSUME NEW i, i # r.item
      PROVE  LatestOf(i, ix \cup {r}) = LatestOf(i, ix)
  <2>1. \A q \in ix \cup {r} : q.item = i => q \in ix
    BY <1>3
  <2>2. \A q : q \in LatestOf(i, ix \cup {r}) <=> q \in LatestOf(i, ix)
    BY <2>1 DEF LatestOf, LatestRecords
  <2>3. QED
    BY <2>2
<1>4. QED
  BY <1>2, <1>3

LEMMA LatestReplaced ==
  ASSUME NEW ix \in SUBSET IndexRecord, Distinct(ix), NEW q \in ix, q \in LatestOf(q.item, ix),
         NEW r \in IndexRecord, r.item = q.item, r.attempt = q.attempt
  PROVE  /\ LatestOf(q.item, (ix \ {q}) \cup {r}) = {r} /\ LatestOf(q.item, ix) = {q}
         /\ \A i : i # q.item => LatestOf(i, (ix \ {q}) \cup {r}) = LatestOf(i, ix)
<1> DEFINE jx == (ix \ {q}) \cup {r}
<1>1. r.attempt \in Nat /\ \A x \in ix : x.attempt \in Nat
  BY IndexTyped DEF IndexRecord
<1>2. \A x \in ix : x.item = q.item => x.attempt <= q.attempt
  BY DEF LatestOf, LatestRecords
<1>3. \A x \in ix \ {q} : x.item = q.item => x.attempt < q.attempt
  BY <1>1, <1>2 DEF Distinct
<1>4. LatestOf(q.item, ix) = {q}
  BY <1>1, <1>2, <1>3 DEF LatestOf, LatestRecords
<1>5. LatestOf(q.item, jx) = {r}
  BY <1>1, <1>3 DEF LatestOf, LatestRecords
<1>6. ASSUME NEW i, i # q.item
      PROVE  LatestOf(i, jx) = LatestOf(i, ix)
  <2>1. \A x : x \in jx /\ x.item = i <=> x \in ix /\ x.item = i
    BY <1>6
  <2> HIDE DEF jx
  <2>2. \A x : x \in LatestOf(i, jx) <=> x \in LatestOf(i, ix)
    BY <2>1 DEF LatestOf, LatestRecords
  <2>3. QED
    BY <2>2
<1>7. QED
  BY <1>4, <1>5, <1>6

(* The directories stay and the index on disk has moved forward.           *)
LEMMA StaleKept ==
  ASSUME children' = children, History(disk.index, disk'.index)
  PROVE  /\ \A c : c \in Unindexed(disk.index)' => c \in Unindexed(disk.index)
         /\ \A c : Stale(c) => Stale(c)'
         /\ \A c : Last(c)' <=> Last(c)
         /\ \A i : Untouched(i) => Untouched(i)'
<1>1. ASSUME NEW c, c \in Unindexed(disk.index)'
      PROVE  c \in Unindexed(disk.index)
  BY <1>1 DEF Unindexed, History
<1>2. ASSUME NEW c, Stale(c)
      PROVE  Stale(c)'
  BY <1>1, <1>2 DEF Stale, Replays
<1>3. \A c : Last(c)' <=> Last(c)
  BY DEF Last
<1>4. \A i : Untouched(i) => Untouched(i)'
  BY <1>2 DEF Untouched
<1>5. QED
  BY <1>1, <1>2, <1>3, <1>4

LEMMA UnindexedOnDisk ==
  ASSUME FilesInv, Live
  PROVE  \A c \in Unindexed(mem.index) : c \in Unindexed(disk.index)
BY DEF FilesInv, History, Unindexed
-----------------------------------------------------------------------------
(* What resume has established when it comes to its plan                   *)

(* No run directory of the item could be accepted any more.                *)
Idle(i) == \A c \in children : c.item = i => ~ Replays(c)
Done(i) == i \in main.completed \/ Idle(i) \/ Spent(i)

Beginning ==
  /\ main.pc \in {"idle", "initialize", "initialized", "reconcile", "reconciled"} => main.cursor = 1
  /\ main.pc = "initialized" => children = {} /\ disk.ledger = {}
(* Every run directory is in the index.                                    *)
Reconciled ==
  main.pc \in {"validate", "settle", "settled", "unseal", "activate", "plan"} =>
    Unindexed(mem.index) = {}
(* What could be accepted is, what could not be is settled as a failure.   *)
Validated ==
  /\ main.pc = "validate" => \A i \in Item : i < main.cursor => Done(i)
  /\ main.pc \in {"settle", "settled"} => Strict
  /\ main.pc \in {"settle", "settled", "unseal", "activate", "plan"} => \A i \in Item : Done(i)
Settled ==
  main.pc \in {"unseal", "activate", "plan"} => \A i \in Item : Spent(i) => i \in main.completed
(* An item that is still to be authorized has not been.                    *)
UnspentInv == \A i \in Item : Unauthorized(i) => ~ Spent(i)

ResumeInv == Beginning /\ Reconciled /\ Validated /\ Settled /\ UnspentInv
-----------------------------------------------------------------------------
(* Accounts after a change of the index, and after a step                  *)

LEMMA LedgerGrows ==
  ASSUME TypeInv, LedgerInv, [Next]_vars
  PROVE  AuthorizedItems \subseteq AuthorizedItems' /\ \A i : Spent(i) => Spent(i)'
<1>1. disk.ledger \subseteq disk'.ledger
  <2>1. ASSUME NEW i \in Item, Authorize(i) \/ LaunchChild(i)
        PROVE  disk.ledger \subseteq disk'.ledger
    BY <2>1 DEF Authorize, LaunchChild, Aside, TypeInv, ParentOK, Parent
  <2>2. QED
    BY <2>1, StepCases DEF Quiet
<1>2. AuthorizedItems \subseteq AuthorizedItems'
  BY <1>1 DEF AuthorizedItems
<1>3. QED
  BY <1>2 DEF Spent

LEMMA AccountedAdded ==
  ASSUME NEW ix \in SUBSET IndexRecord, NEW r \in IndexRecord, Accounted(ix),
         \A q \in ix : q.item = r.item => q.attempt < r.attempt,
         \A c \in children : c.item = r.item /\ Replays(c) =>
           (r.child = c.serial /\ r.validity = "valid") \/ Spent(c.item)
  PROVE  Accounted(ix \cup {r}) /\ Unindexed(ix \cup {r}) \subseteq Unindexed(ix)
<1>1. /\ LatestOf(r.item, ix \cup {r}) = {r}
      /\ \A i : i # r.item => LatestOf(i, ix \cup {r}) = LatestOf(i, ix)
  BY LatestAdded
<1>2. \A c \in Unindexed(ix) : c.item # r.item => c \in Unindexed(ix \cup {r})
  BY DEF Unindexed
<1>3. ASSUME NEW c \in children, Replays(c)
      PROVE  c \in Unindexed(ix \cup {r}) \/ Kept(c, ix \cup {r}) \/ Spent(c.item)
  <2>1. CASE c.item = r.item
    BY <1>1, <1>3, <2>1 DEF Kept
  <2>2. CASE c.item # r.item
    BY <1>1, <1>2, <1>3, <2>2 DEF Kept, Accounted
  <2>3. QED
    BY <2>1, <2>2
<1>4. Unindexed(ix \cup {r}) \subseteq Unindexed(ix)
  BY DEF Unindexed
<1>5. QED
  BY <1>3, <1>4 DEF Accounted

LEMMA AccountedReplaced ==
  ASSUME NEW ix \in SUBSET IndexRecord, Distinct(ix), NEW q \in ix, q \in LatestOf(q.item, ix),
         NEW r \in IndexRecord, r.item = q.item, r.attempt = q.attempt, r.child = q.child,
         Accounted(ix),
         \A c \in children : c.item = q.item /\ Replays(c) => c \in Unindexed(ix) \/ Spent(c.item)
  PROVE  Accounted((ix \ {q}) \cup {r}) /\ Unindexed((ix \ {q}) \cup {r}) = Unindexed(ix)
<1>0. ASSUME NEW i, i # q.item
      PROVE  LatestOf(i, (ix \ {q}) \cup {r}) = LatestOf(i, ix)
  <2>1. \A j : j # q.item => LatestOf(j, (ix \ {q}) \cup {r}) = LatestOf(j, ix)
    BY LatestReplaced, Z3
  <2>2. QED
    BY <1>0, <2>1
<1> DEFINE jx == (ix \ {q}) \cup {r}
<1>1. \A i : i # q.item => LatestOf(i, jx) = LatestOf(i, ix)
  BY <1>0
<1>2. Unindexed(jx) = Unindexed(ix)
  <2>1. \A i, s : (\E x \in jx : x.item = i /\ x.child = s) <=> (\E x \in ix : x.item = i /\ x.child = s)
    OBVIOUS
  <2> HIDE DEF jx
  <2>2. QED
    BY <2>1 DEF Unindexed
<1> HIDE DEF jx
<1>3. Accounted(jx)
  BY <1>1, <1>2 DEF Accounted, Kept
<1>4. QED
  BY <1>2, <1>3 DEF jx

(* The directories stay; what the index says of them is known.             *)
LEMMA AccountedKept ==
  ASSUME children' = children, \A i : Spent(i) => Spent(i)'
  PROVE  /\ Accounted(mem'.index) => Accounted(mem.index)'
         /\ Accounted(disk'.index) => Accounted(disk.index)'
<1>1. ASSUME Accounted(mem'.index)
      PROVE  Accounted(mem.index)'
  BY <1>1 DEF Accounted, Unindexed, Kept
<1>2. ASSUME Accounted(disk'.index)
      PROVE  Accounted(disk.index)'
  BY <1>2 DEF Accounted, Unindexed, Kept
<1>3. QED
  BY <1>1, <1>2

(* A step that leaves the directories alone.                               *)
LEMMA ChildKept ==
  ASSUME ChildInv, children' = children, History(disk.index, disk'.index),
         AuthorizedItems \subseteq AuthorizedItems', \A i : Spent(i) => Spent(i)',
         Accounted(disk'.index), Live' => Accounted(mem'.index),
         \A i \in Item : InTurn(i)' => InTurn(i) \/ Untouched(i),
         \A i \in Item : run'[i].pc \in {"running", "returned"} =>
           /\ run'[i].pc = run[i].pc /\ run'[i].serial = run[i].serial
           /\ \A r \in mem'.index : r.item = i => \E q \in mem.index : q.item = i /\ q.child = r.child,
         \A i \in Item : run'[i].pc = "terminal" =>
           \/ run[i].pc = "terminal" /\ run'[i].rec = run[i].rec
           \/ \A c \in children : c.item = i /\ Replays(c) =>
                Spent(i) \/ (run'[i].rec.child = c.serial /\ run'[i].rec.validity = "valid")
  PROVE  ChildInv'
<1>1. /\ \A c : c \in Unindexed(disk.index)' => c \in Unindexed(disk.index)
      /\ \A c : Stale(c) => Stale(c)'
      /\ \A c : Last(c)' <=> Last(c)
      /\ \A i : Untouched(i) => Untouched(i)'
  BY StaleKept
<1>2. LastInv'
  BY <1>1 DEF ChildInv, LastInv
<1>3. AccountInv'
  BY AccountedKept DEF AccountInv
<1>4. TurnInv'
  BY <1>1 DEF ChildInv, TurnInv
<1>5. AttendInv'
  <2>1. ASSUME NEW i \in Item, run'[i].pc \in {"running", "returned"}
        PROVE  Attended(i)' /\ (i \in ModelBearing => i \in AuthorizedItems')
    <3>1. Attended(i) /\ (i \in ModelBearing => i \in AuthorizedItems)
      BY <2>1 DEF ChildInv, AttendInv
    <3>2. \A r \in mem'.index : r.item = i => \E q \in mem.index : q.item = i /\ q.child = r.child
      BY <2>1
    <3>3. run'[i].pc = run[i].pc /\ run'[i].serial = run[i].serial
      BY <2>1
    <3>4. Attended(i)'
      BY <1>1, <3>1, <3>2, <3>3 DEF Attended
    <3>5. QED
      BY <3>1, <3>4
  <2>2. QED
    BY <2>1 DEF AttendInv
<1>6. AnswerInv'
  <2>1. ASSUME NEW i \in Item, run'[i].pc = "terminal"
        PROVE  Answered(i)'
    <3>1. \A c \in children : c.item = i /\ Replays(c) =>
            Spent(i) \/ (run'[i].rec.child = c.serial /\ run'[i].rec.validity = "valid")
      BY <2>1 DEF ChildInv, AnswerInv, Answered
    <3>2. QED
      BY <3>1 DEF Answered
  <2>2. QED
    BY <2>1 DEF AnswerInv
<1>7. VettedInv'
  BY DEF ChildInv, VettedInv
<1>8. QED
  BY <1>2, <1>3, <1>4, <1>5, <1>6, <1>7 DEF ChildInv
-----------------------------------------------------------------------------
(* The directories change                                                  *)

(* A new directory: the older ones of the item are stale, and as long as   *)
(* its manifest does not exist nobody sees the new one.                    *)
LEMMA LaunchKeeps ==
  ASSUME TypeInv, LedgerInv, Threads, SerialInv, ChildInv, NEW i \in Item, LaunchChild(i)
  PROVE  ChildInv'
<1>1. PICK d \in ChildRun :
        /\ d.item = i /\ d.serial = NextSerial(i) /\ d.state = "opened"
        /\ children' = children \cup {d} /\ run'[i].pc = "running" /\ run'[i].serial = d.serial
  <2>1. RunItem(i) /\ ~ ChildPersistsManifest(i) /\ ~ ChildReturns(i)
    BY DEF RunItem, LaunchChild, ChildPersistsManifest, ChildReturns, RunAt
  <2>2. QED
    BY <2>1, WorkerDirectories
<1>2. /\ mem' = mem /\ disk' = disk /\ main' = main /\ run[i].pc = "launch"
      /\ \A j \in Item \ {i} : run'[j] = run[j]
  BY WorkerSteps DEF LaunchChild, Aside, RunItem, RunAt
<1>3. /\ \A c \in children : c.item = i => c.serial < d.serial
      /\ d \notin children /\ d.serial \in Nat /\ d.serial # 0 /\ d.serial \notin SerialsOf(i)
  BY <1>1, SerialAdded DEF SerialInv
<1>4. ~ Replays(d) /\ ~ Bound(d)
  BY <1>1 DEF Replays, Bound
<1>5. /\ \A c : c \in Unindexed(disk.index)' <=> c \in Unindexed(disk.index)
      /\ \A c : c \in Unindexed(mem.index)' <=> c \in Unindexed(mem.index)
  BY <1>1, <1>2, <1>4 DEF Unindexed, Bound
<1>6. \A c : Stale(c) => Stale(c)'
  BY <1>5 DEF Stale, Replays
<1>7. Stale(d)'
  <2>1. d \notin Unindexed(disk.index)'
    BY <1>3, <1>5 DEF Unindexed
  <2>2. QED
    BY <1>4, <2>1 DEF Stale, Replays
<1>8. \A c \in children : c.item # i => (Last(c) => Last(c)')
  BY <1>1 DEF Last
<1>9. \A c \in children : c.item = i => Stale(c)
  BY <1>2 DEF ChildInv, TurnInv, InTurn, BeforeChild, Untouched
<1>10. AuthorizedItems' = AuthorizedItems /\ \A j : Spent(j)' <=> Spent(j)
  BY <1>2 DEF AuthorizedItems, Spent
<1>11. LastInv'
  <2>1. ASSUME NEW c \in children', Replays(c) \/ c \in Unindexed(disk.index)'
        PROVE  Last(c)'
    <3>1. c \in children
      BY <1>1, <1>4, <1>5, <2>1 DEF Unindexed
    <3>2. c.item # i
      BY <1>5, <1>9, <2>1, <3>1 DEF Stale
    <3>3. Last(c)
      BY <1>5, <2>1, <3>1 DEF ChildInv, LastInv
    <3>4. QED
      BY <1>8, <3>1, <3>2, <3>3
  <2>2. \A c : Replays(c)' <=> Replays(c)
    BY DEF Replays
  <2>3. QED
    BY <2>1, <2>2 DEF LastInv
<1>12. AccountInv'
  <2>1. ASSUME NEW c \in children', Replays(c)
        PROVE  /\ c \in Unindexed(disk.index)' \/ Kept(c, disk.index) \/ Spent(c.item)'
               /\ Live => c \in Unindexed(mem.index)' \/ Kept(c, mem.index) \/ Spent(c.item)'
    <3>1. c \in children
      BY <1>1, <1>4, <2>1
    <3>2. QED
      BY <1>5, <1>10, <2>1, <3>1 DEF ChildInv, AccountInv, Accounted
  <2>2. Live' = Live
    BY <1>2 DEF Live
  <2>3. Accounted(disk.index)'
    BY <1>2, <2>1 DEF Accounted, Replays, Kept
  <2>4. Live' => Accounted(mem.index)'
    BY <1>2, <2>1, <2>2 DEF Accounted, Replays, Kept
  <2>5. QED
    BY <2>3, <2>4 DEF AccountInv
<1>13. TurnInv'
  <2>1. ASSUME NEW j \in Item, InTurn(j)'
        PROVE  Untouched(j)'
    <3>1. j # i
      BY <1>1, <1>2, <2>1 DEF InTurn, BeforeChild, Threads, PoolInv
    <3>2. Untouched(j)
      BY <1>2, <2>1, <3>1 DEF InTurn, ChildInv, TurnInv
    <3>3. QED
      BY <1>1, <1>6, <3>1, <3>2 DEF Untouched
  <2>2. QED
    BY <2>1 DEF TurnInv
<1>14. AttendInv'
  <2>1. Attended(i)'
    <3>1. Last(d)'
      BY <1>1, <1>3, SerialsTyped DEF Last
    <3>2. \A r \in mem.index : r.item = i => r.child # d.serial
      BY <1>3 DEF SerialInv, Refs
    <3>3. ASSUME NEW c \in children', c.item = i
          PROVE  IF c.serial = run'[i].serial
                 THEN /\ Last(c)' /\ \A r \in mem'.index : r.item = i => r.child # c.serial
                      /\ run'[i].pc = "running" => c.state \in {"opened", "bound"}
                 ELSE Stale(c)'
      <4>1. CASE c = d
        BY <1>1, <1>2, <3>1, <3>2, <4>1
      <4>2. CASE c # d
        <5>1. c \in children /\ c.serial < d.serial /\ Stale(c)'
          BY <1>1, <1>3, <1>6, <1>9, <3>3, <4>2
        <5>2. c.serial # d.serial
          BY <1>3, <5>1, SerialsTyped
        <5>3. QED
          BY <1>1, <5>1, <5>2
      <4>3. QED
        BY <4>1, <4>2
    <3>4. QED
      BY <3>3 DEF Attended
  <2>2. i \in ModelBearing => i \in AuthorizedItems'
    BY <1>2, <1>10 DEF LedgerInv
  <2>3. ASSUME NEW j \in Item \ {i}, run'[j].pc \in {"running", "returned"}
        PROVE  Attended(j)' /\ (j \in ModelBearing => j \in AuthorizedItems')
    <3>1. Attended(j) /\ (j \in ModelBearing => j \in AuthorizedItems) /\ run'[j] = run[j]
      BY <1>2, <2>3 DEF ChildInv, AttendInv
    <3>2. \A c \in children' : c.item = j => c \in children /\ c.item # i
      BY <1>1
    <3>3. Attended(j)'
      BY <1>2, <1>6, <1>8, <3>1, <3>2 DEF Attended
    <3>4. QED
      BY <1>10, <3>1, <3>3
  <2>4. QED
    BY <2>1, <2>2, <2>3 DEF AttendInv
<1>15. AnswerInv'
  <2>1. ASSUME NEW j \in Item, run'[j].pc = "terminal"
        PROVE  Answered(j)'
    <3>1. j # i /\ run'[j] = run[j] /\ Answered(j)
      BY <1>1, <1>2, <2>1 DEF ChildInv, AnswerInv
    <3>2. \A c \in children' : c.item = j => c \in children
      BY <1>1, <3>1
    <3>3. QED
      BY <1>10, <3>1, <3>2 DEF Answered, Replays
  <2>2. QED
    BY <2>1 DEF AnswerInv
<1>16. VettedInv'
  BY <1>1, <1>10 DEF ChildInv, VettedInv
<1>17. QED
  BY <1>11, <1>12, <1>13, <1>14, <1>15, <1>16 DEF ChildInv

(* A directory gets another state.                                         *)
LEMMA DirectoryChanged ==
  ASSUME TypeInv, Ordered, NEW c \in children, NEW d, d.item = c.item, d.serial = c.serial,
         children' = (children \ {c}) \cup {d}, mem' = mem, disk' = disk
  PROVE  /\ \A e \in children' : e # d => e \in children /\ e # c
         /\ \A e \in children' : e.item = d.item /\ e.serial = d.serial => e = d
         /\ \A e : e # d /\ e # c => (e \in Unindexed(disk.index)' <=> e \in Unindexed(disk.index))
         /\ \A e : e # d /\ e # c => (e \in Unindexed(mem.index)' <=> e \in Unindexed(mem.index))
         /\ \A e : e # d /\ Stale(e) => Stale(e)'
         /\ \A e : Last(e)' <=> Last(e)
         /\ Last(d)' <=> Last(c)
         /\ AuthorizedItems' = AuthorizedItems /\ \A j : Spent(j)' <=> Spent(j)
<1>1. \A e \in children' : e # d => e \in children /\ e # c
  OBVIOUS
<1>2. \A e \in children' : e.item = d.item /\ e.serial = d.serial => e = d
  BY <1>1 DEF Ordered
<1>3. \A e : e # d => (e \in children' <=> e \in children /\ e # c)
  OBVIOUS
<1>4. /\ \A e : e # d /\ e # c => (e \in Unindexed(disk.index)' <=> e \in Unindexed(disk.index))
      /\ \A e : e # d /\ e # c => (e \in Unindexed(mem.index)' <=> e \in Unindexed(mem.index))
      /\ \A e : e # d /\ e \in Unindexed(disk.index)' => e \in Unindexed(disk.index)
  BY <1>3 DEF Unindexed, Bound
<1>5. \A e : e # d /\ Stale(e) => Stale(e)'
  BY <1>4 DEF Stale, Replays
<1>6. \A e : Last(e)' <=> Last(e)
  <2>1. \A x \in children : \E y \in children' : y.item = x.item /\ y.serial = x.serial
    OBVIOUS
  <2>2. \A y \in children' : \E x \in children : y.item = x.item /\ y.serial = x.serial
    OBVIOUS
  <2>3. QED
    BY <2>1, <2>2 DEF Last
<1>7. Last(d)' <=> Last(c)
  <2>1. Last(d) <=> Last(c)
    BY DEF Last
  <2>2. QED
    BY <1>6, <2>1
<1>8. AuthorizedItems' = AuthorizedItems /\ \A j : Spent(j)' <=> Spent(j)
  BY DEF AuthorizedItems, Spent
<1>9. QED
  BY <1>1, <1>2, <1>4, <1>5, <1>6, <1>7, <1>8

(* A child writes its manifest, or returns: the worker attends it.         *)
LEMMA ChildKeeps ==
  ASSUME TypeInv, Threads, FilesInv, LedgerInv, SerialInv, ChildInv, NEW i \in Item,
         ChildPersistsManifest(i) \/ ChildReturns(i)
  PROVE  ChildInv'
<1>1. PICK c \in children : \E d \in ChildRun :
        /\ c.item = i /\ c.serial = run[i].serial /\ d.item = i /\ d.serial = c.serial
        /\ children' = (children \ {c}) \cup {d}
        /\ run[i].pc = "running" /\ run'[i].serial = run[i].serial
        /\ \/ d.state = "bound" /\ run'[i].pc = "running"
           \/ d.state \in {"valid", "mismatched", "unvetted"} /\ run'[i].pc = "returned"
        /\ d.state = "unvetted" => i \in ModelBearing
  <2>1. RunItem(i) /\ ~ LaunchChild(i)
    BY DEF RunItem, LaunchChild, ChildPersistsManifest, ChildReturns, RunAt
  <2>2. QED
    BY <2>1, WorkerDirectories
<1>2. PICK d \in ChildRun :
        /\ c.item = i /\ c.serial = run[i].serial /\ d.item = i /\ d.serial = c.serial
        /\ children' = (children \ {c}) \cup {d}
        /\ run[i].pc = "running" /\ run'[i].serial = run[i].serial
        /\ \/ d.state = "bound" /\ run'[i].pc = "running"
           \/ d.state \in {"valid", "mismatched", "unvetted"} /\ run'[i].pc = "returned"
        /\ d.state = "unvetted" => i \in ModelBearing
  BY <1>1
<1>3. /\ mem' = mem /\ disk' = disk /\ main' = main
      /\ \A j \in Item \ {i} : run'[j] = run[j]
  BY WorkerSteps DEF ChildPersistsManifest, ChildReturns, Aside, RunItem
<1>4. /\ \A e \in children' : e # d => e \in children /\ e # c
      /\ \A e \in children' : e.item = d.item /\ e.serial = d.serial => e = d
      /\ \A e : e # d /\ e # c => (e \in Unindexed(disk.index)' <=> e \in Unindexed(disk.index))
      /\ \A e : e # d /\ e # c => (e \in Unindexed(mem.index)' <=> e \in Unindexed(mem.index))
      /\ \A e : e # d /\ Stale(e) => Stale(e)'
      /\ \A e : Last(e)' <=> Last(e)
      /\ Last(d)' <=> Last(c)
      /\ AuthorizedItems' = AuthorizedItems /\ \A j : Spent(j)' <=> Spent(j)
  BY <1>2, <1>3, DirectoryChanged DEF SerialInv
<1>5. Attended(i) /\ (i \in ModelBearing => i \in AuthorizedItems)
  BY <1>2 DEF ChildInv, AttendInv
<1>6. Last(c) /\ Last(d)' /\ \A r \in mem.index : r.item = i => r.child # c.serial
  BY <1>2, <1>4, <1>5 DEF Attended
<1>7. d \in Unindexed(disk.index)' /\ d \in Unindexed(mem.index)'
  <2>1. Live
    BY <1>2, WorkersLive
  <2>2. \A r \in disk.index : r.item = i => r.child # c.serial
    BY <1>6, <2>1 DEF FilesInv, History
  <2>3. Bound(d) /\ d \in children'
    BY <1>2 DEF Bound
  <2>4. QED
    BY <1>2, <1>3, <1>6, <2>2, <2>3 DEF Unindexed, Bound
<1>8. LastInv'
  <2>1. ASSUME NEW e \in children', Replays(e) \/ e \in Unindexed(disk.index)'
        PROVE  Last(e)'
    <3>1. CASE e = d
      BY <1>6, <3>1
    <3>2. CASE e # d
      BY <1>4, <2>1, <3>2 DEF ChildInv, LastInv
    <3>3. QED
      BY <3>1, <3>2
  <2>2. QED
    BY <2>1 DEF LastInv, Replays
<1>9. AccountInv'
  <2>1. ASSUME NEW e \in children', Replays(e)
        PROVE  /\ e \in Unindexed(disk.index)' \/ Kept(e, disk.index) \/ Spent(e.item)'
               /\ Live => e \in Unindexed(mem.index)' \/ Kept(e, mem.index) \/ Spent(e.item)'
    <3>1. CASE e = d
      BY <1>7, <3>1
    <3>2. CASE e # d
      BY <1>4, <2>1, <3>2 DEF ChildInv, AccountInv, Accounted
    <3>3. QED
      BY <3>1, <3>2
  <2>2. Live' = Live
    BY <1>3 DEF Live
  <2>3. Accounted(disk.index)'
    BY <1>3, <2>1 DEF Accounted, Replays, Kept
  <2>4. Live' => Accounted(mem.index)'
    BY <1>3, <2>1, <2>2 DEF Accounted, Replays, Kept
  <2>5. QED
    BY <2>3, <2>4 DEF AccountInv
<1>10. TurnInv'
  <2>1. ASSUME NEW j \in Item, InTurn(j)'
        PROVE  Untouched(j)'
    <3>1. j # i
      BY <1>2, <1>3, <2>1 DEF InTurn, BeforeChild, Threads, PoolInv
    <3>2. Untouched(j)
      BY <1>3, <2>1, <3>1 DEF InTurn, ChildInv, TurnInv
    <3>3. QED
      BY <1>2, <1>4, <3>1, <3>2 DEF Untouched
  <2>2. QED
    BY <2>1 DEF TurnInv
<1>11. AttendInv'
  <2>1. Attended(i)'
    <3>1. ASSUME NEW e \in children', e.item = i
          PROVE  IF e.serial = run'[i].serial
                 THEN /\ Last(e)' /\ \A r \in mem'.index : r.item = i => r.child # e.serial
                      /\ run'[i].pc = "running" => e.state \in {"opened", "bound"}
                 ELSE Stale(e)'
      <4>1. CASE e.serial = run'[i].serial
        <5>1. e = d
          BY <1>2, <1>4, <3>1, <4>1
        <5>2. QED
          BY <1>2, <1>3, <1>6, <4>1, <5>1
      <4>2. CASE e.serial # run'[i].serial
        <5>1. e # d /\ e \in children /\ e.serial # run[i].serial
          BY <1>2, <1>4, <4>2
        <5>2. Stale(e)
          BY <1>5, <3>1, <5>1 DEF Attended
        <5>3. QED
          BY <1>4, <4>2, <5>1, <5>2
      <4>3. QED
        BY <4>1, <4>2
    <3>2. QED
      BY <3>1 DEF Attended
  <2>2. ASSUME NEW j \in Item \ {i}, run'[j].pc \in {"running", "returned"}
        PROVE  Attended(j)' /\ (j \in ModelBearing => j \in AuthorizedItems')
    <3>1. Attended(j) /\ (j \in ModelBearing => j \in AuthorizedItems) /\ run'[j] = run[j]
      BY <1>3, <2>2 DEF ChildInv, AttendInv
    <3>2. \A e \in children' : e.item = j => e \in children /\ e # d
      BY <1>2, <1>4
    <3>3. Attended(j)'
      BY <1>3, <1>4, <3>1, <3>2 DEF Attended
    <3>4. QED
      BY <1>4, <3>1, <3>3
  <2>3. QED
    BY <1>4, <1>5, <2>1, <2>2 DEF AttendInv
<1>12. AnswerInv'
  <2>1. ASSUME NEW j \in Item, run'[j].pc = "terminal"
        PROVE  Answered(j)'
    <3>1. j # i /\ run'[j] = run[j] /\ Answered(j)
      BY <1>2, <1>3, <2>1 DEF ChildInv, AnswerInv
    <3>2. \A e \in children' : e.item = j => e \in children
      BY <1>2, <1>4, <3>1
    <3>3. QED
      BY <1>4, <3>1, <3>2 DEF Answered, Replays
  <2>2. QED
    BY <2>1 DEF AnswerInv
<1>13. VettedInv'
  <2>1. ASSUME NEW e \in children', e.state = "unvetted"
        PROVE  e.item \in ModelBearing /\ e.item \in AuthorizedItems
    <3>1. CASE e = d
      BY <1>2, <1>5, <2>1, <3>1
    <3>2. CASE e # d
      BY <1>4, <2>1, <3>2 DEF ChildInv, VettedInv
    <3>3. QED
      BY <3>1, <3>2
  <2>2. QED
    BY <1>4, <2>1 DEF VettedInv
<1>14. QED
  BY <1>8, <1>9, <1>10, <1>11, <1>12, <1>13 DEF ChildInv

(* A finished directory is damaged while no controller lives.              *)
LEMMA DamageKeeps ==
  ASSUME TypeInv, Threads, LedgerInv, SerialInv, ChildInv, NEW c \in children, DamageChild(c)
  PROVE  ChildInv'
<1> DEFINE d == [c EXCEPT !.state = "damaged"]
<1>1. d.item = c.item /\ d.serial = c.serial /\ d.state = "damaged"
  BY DEF TypeInv, ChildrenOK, ChildRun
<1>2. /\ children' = (children \ {c}) \cup {d} /\ UNCHANGED <<mem, disk, run, main>>
      /\ main.pc = "idle" /\ Replays(c)
  BY DEF DamageChild
<1> HIDE DEF d
<1>3. /\ \A e \in children' : e # d => e \in children /\ e # c
      /\ \A e : e # d /\ e # c => (e \in Unindexed(disk.index)' <=> e \in Unindexed(disk.index))
      /\ \A e : Last(e)' <=> Last(e)
      /\ Last(d)' <=> Last(c)
      /\ AuthorizedItems' = AuthorizedItems /\ \A j : Spent(j)' <=> Spent(j)
  BY <1>1, <1>2, DirectoryChanged DEF SerialInv
<1>4. ~ Replays(d) /\ Last(c)
  BY <1>1, <1>2 DEF Replays, ChildInv, LastInv
<1>5. ~ Live' /\ main'.pending = {} /\ \A i \in Item : run'[i].pc = "none"
  BY <1>2 DEF Live, Threads, PoolInv, Early
<1>6. TurnInv' /\ AttendInv' /\ AnswerInv'
  BY <1>5 DEF TurnInv, InTurn, BeforeChild, AttendInv, AnswerInv
<1>7. LastInv'
  <2>1. ASSUME NEW e \in children', Replays(e) \/ e \in Unindexed(disk.index)'
        PROVE  Last(e)'
    <3>1. CASE e = d
      BY <1>3, <1>4, <3>1
    <3>2. CASE e # d
      BY <1>3, <2>1, <3>2 DEF ChildInv, LastInv
    <3>3. QED
      BY <3>1, <3>2
  <2>2. QED
    BY <2>1 DEF LastInv, Replays
<1>8. AccountInv'
  <2>1. ASSUME NEW e \in children', Replays(e)
        PROVE  e \in Unindexed(disk.index)' \/ Kept(e, disk.index) \/ Spent(e.item)'
    BY <1>3, <1>4, <2>1 DEF ChildInv, AccountInv, Accounted
  <2>2. Accounted(disk.index)'
    BY <1>2, <2>1 DEF Accounted, Replays, Kept
  <2>3. QED
    BY <1>5, <2>2 DEF AccountInv
<1>9. VettedInv'
  BY <1>1, <1>3 DEF ChildInv, VettedInv
<1>10. QED
  BY <1>6, <1>7, <1>8, <1>9 DEF ChildInv
-----------------------------------------------------------------------------
(* The other steps of a worker                                             *)

LEMMA WorkerMoves ==
  ASSUME TypeInv, NEW i \in Item, RunItem(i),
         ~ LaunchChild(i), ~ ChildPersistsManifest(i), ~ ChildReturns(i)
  PROVE  /\ run'[i].pc \in BeforeChild => run[i].pc \in BeforeLedger
         /\ run'[i].pc \notin {"running", "returned"}
         /\ run'[i].pc = "terminal" =>
              ContractFails(i) \/ AuthorizationRefused(i) \/ ChildRaises(i) \/ AcceptResult(i)
         /\ Authorize(i) => run'[i].pc = "launch"
<1> DEFINE Moves ==
             /\ run'[i].pc \in BeforeChild => run[i].pc \in BeforeLedger
             /\ run'[i].pc \notin {"running", "returned"}
             /\ run'[i].pc = "terminal" =>
                  ContractFails(i) \/ AuthorizationRefused(i) \/ ChildRaises(i) \/ AcceptResult(i)
<1>1. ASSUME \/ Scheduled(i) \/ ScheduledEvent(i) \/ Started(i) \/ StartedEvent(i)
             \/ NoAuthorizationNeeded(i) \/ Authorize(i) \/ Terminal(i) \/ TerminalEvent(i)
      PROVE  Moves
  BY <1>1, ToPcFields
     DEF Scheduled, ScheduledEvent, Started, StartedEvent, NoAuthorizationNeeded, Authorize,
         Terminal, TerminalEvent, RunAt, BeforeChild, BeforeLedger
<1>2. ASSUME ContractFails(i) \/ AuthorizationRefused(i) \/ ChildRaises(i) \/ AcceptResult(i)
      PROVE  Moves
  <2>1. /\ run[i].pc \in {"authorize", "launch", "running", "returned"}
        /\ \E s, v, f, e, b : Conclude(i, s, v, f, e, b)
    BY <1>2
       DEF ContractFails, AuthorizationRefused, ChildRaises, AcceptResult, ConcludeFailed, RunAt
  <2>2. run'[i].pc = "terminal"
    BY <2>1, ConcludeFields
  <2>3. QED
    BY <1>2, <2>1, <2>2 DEF BeforeChild
<1>3. ASSUME ChildInterrupted(i)
      PROVE  Moves
  <2>1. run'[i].pc = "done" /\ run[i].pc \in {"launch", "running"}
    BY <1>3 DEF ChildInterrupted, RunAt, TypeInv, ItemRun
  <2>2. QED
    BY <2>1 DEF BeforeChild
<1>4. Authorize(i) => run'[i].pc = "launch"
  BY ToPcFields DEF Authorize
<1>5. Moves
  BY <1>1, <1>2, <1>3 DEF RunItem
<1>6. QED
  BY <1>4, <1>5

(* The record an attempt ends with accepts what could be accepted, or the  *)
(* strict policy rejects the child and has spent the item.                 *)
LEMMA AnswerGiven ==
  ASSUME TypeInv, SerialInv, ChildInv, NEW i \in Item,
         ContractFails(i) \/ AuthorizationRefused(i) \/ ChildRaises(i) \/ AcceptResult(i)
  PROVE  \A c \in children : c.item = i /\ Replays(c) =>
           Spent(i) \/ (run'[i].rec.child = c.serial /\ run'[i].rec.validity = "valid")
<1>1. CASE run[i].pc \in BeforeChild
  BY <1>1 DEF ChildInv, TurnInv, InTurn, Untouched, Stale
<1>2. CASE ChildRaises(i) /\ run[i].pc = "running"
  <2>1. Attended(i)
    BY <1>2 DEF ChildInv, AttendInv
  <2>2. QED
    BY <1>2, <2>1 DEF Attended, Stale, Replays
<1>3. CASE AcceptResult(i)
  <2>1. run[i].pc = "returned" /\ Attended(i)
    BY <1>3 DEF AcceptResult, RunAt, ChildInv, AttendInv
  <2>2. Child(i) \in children /\ Child(i).item = i /\ Child(i).serial = run[i].serial
    BY <2>1, ChildType
  <2>3. \A c \in children : c.item = i /\ Replays(c) => c = Child(i)
    BY <2>1, <2>2 DEF Attended, Stale, SerialInv, Ordered
  <2>4. CASE Accepted(Child(i))
    <3>1. \E f : Conclude(i, run[i].serial, "valid", f, "none", FALSE)
      BY <1>3, <2>4 DEF AcceptResult
    <3>2. PICK f : Conclude(i, run[i].serial, "valid", f, "none", FALSE)
      BY <3>1
    <3>3. run'[i].rec = RunIndexRecord(i, main.attempts[i], run[i].serial, "valid", f)
      BY <3>2 DEF Conclude, TypeInv
    <3>4. run'[i].rec.child = run[i].serial /\ run'[i].rec.validity = "valid"
      BY <3>3 DEF RunIndexRecord
    <3>5. QED
      BY <2>2, <2>3, <3>4
  <2>5. CASE ~ Accepted(Child(i))
    <3>1. Replays(Child(i)) => Child(i).state = "unvetted" /\ Strict
      BY <2>5 DEF Accepted, Replays
    <3>2. Replays(Child(i)) => Spent(i)
      BY <2>2, <3>1 DEF Spent, ChildInv, VettedInv
    <3>3. QED
      BY <2>3, <3>2
  <2>6. QED
    BY <2>4, <2>5
<1>4. run[i].pc \in BeforeChild \/ (ChildRaises(i) /\ run[i].pc = "running") \/ AcceptResult(i)
  BY DEF ContractFails, AuthorizationRefused, ChildRaises, RunAt, BeforeChild
<1>5. QED
  BY <1>1, <1>2, <1>3, <1>4

LEMMA WorkerKeeps ==
  ASSUME TypeInv, LedgerInv, IndexInv, SerialInv, ChildInv, NEW i \in Item, RunItem(i)
  PROVE  ChildInv'
<1>1. CASE LaunchChild(i)
  BY <1>1, LaunchKeeps DEF IndexInv
<1>2. CASE ChildPersistsManifest(i) \/ ChildReturns(i)
  BY <1>2, ChildKeeps DEF IndexInv
<1>3. CASE ~ LaunchChild(i) /\ ~ ChildPersistsManifest(i) /\ ~ ChildReturns(i)
  <2>1. children' = children
    BY <1>3, WorkerDirectories
  <2>2. AuthorizedItems \subseteq AuthorizedItems' /\ \A j : Spent(j) => Spent(j)'
    BY LedgerGrows DEF Next, ControllerStep
  <2>3. /\ main' = main /\ (\A j \in Item \ {i} : run'[j] = run[j])
        /\ run[i].pc \notin {"none", "done"}
    BY WorkerSteps
  <2>4. /\ run'[i].pc \in BeforeChild => run[i].pc \in BeforeChild
        /\ run'[i].pc \notin {"running", "returned"}
        /\ run'[i].pc = "terminal" =>
             ContractFails(i) \/ AuthorizationRefused(i) \/ ChildRaises(i) \/ AcceptResult(i)
    BY <1>3, WorkerMoves DEF BeforeLedger
  <2>5. /\ disk'.index = disk.index
        /\ \/ ~ Terminal(i) /\ mem'.index = mem.index
           \/ Terminal(i) /\ mem'.index = mem.index \cup {run[i].rec}
    BY WorkerRecords
  <2>6. Live /\ Accounted(mem.index) /\ Accounted(disk'.index)
    BY <2>3, <2>5, WorkersLive DEF ChildInv, AccountInv
  <2>7. Accounted(mem'.index)
    <3>1. ASSUME Terminal(i)
          PROVE  Accounted(mem.index \cup {run[i].rec})
      <4> DEFINE r == run[i].rec
      <4>1. run[i].pc = "terminal"
        BY <3>1 DEF Terminal, RunAt
      <4>2. r.item = i /\ r.attempt = main.attempts[i]
        BY <4>1, KeyInjective DEF IndexInv, WorkInv, OpenInv, KeyOf
      <4>3. r \in IndexRecord /\ mem.index \in SUBSET IndexRecord
        BY DEF TypeInv, ItemRun, ParentOK, Parent
      <4>4. main.attempts[i] \in Nat /\ AttemptsOf(i, mem.index) = 1 .. (main.attempts[i] - 1)
        BY <4>1 DEF TypeInv, MainOK, IndexInv, WorkInv, OpenInv, OpenNext, Open, Unrecorded
      <4>5. \A q \in mem.index : q.item = r.item => q.attempt < r.attempt
        <5>1. \A q \in mem.index : q.item = i => q.attempt \in 1 .. (main.attempts[i] - 1)
          BY <4>4 DEF AttemptsOf
        <5>2. QED
          BY <4>2, <4>4, <5>1
      <4>6. \A c \in children : c.item = r.item /\ Replays(c) =>
              (r.child = c.serial /\ r.validity = "valid") \/ Spent(c.item)
        BY <4>1, <4>2 DEF ChildInv, AnswerInv, Answered
      <4> HIDE DEF r
      <4>7. Accounted(mem.index \cup {r})
        BY <2>6, <4>3, <4>5, <4>6, AccountedAdded
      <4>8. QED
        BY <4>7 DEF r
    <3>2. QED
      BY <2>5, <2>6, <3>1
  <2>8. \A j \in Item : InTurn(j)' => InTurn(j)
    BY <2>3, <2>4 DEF InTurn
  <2>9. ASSUME NEW j \in Item, run'[j].pc \in {"running", "returned"}
        PROVE  /\ run'[j].pc = run[j].pc /\ run'[j].serial = run[j].serial
               /\ \A r \in mem'.index : r.item = j => \E q \in mem.index : q.item = j /\ q.child = r.child
    <3>1. j # i /\ run'[j] = run[j]
      BY <2>3, <2>4, <2>9
    <3>2. Terminal(i) => run[i].rec.item = i
      BY KeyInjective DEF Terminal, RunAt, IndexInv, WorkInv, OpenInv, KeyOf
    <3>3. QED
      BY <2>5, <3>1, <3>2
  <2>10. ASSUME NEW j \in Item, run'[j].pc = "terminal"
         PROVE  \/ run[j].pc = "terminal" /\ run'[j].rec = run[j].rec
                \/ \A c \in children : c.item = j /\ Replays(c) =>
                     Spent(j) \/ (run'[j].rec.child = c.serial /\ run'[j].rec.validity = "valid")
    <3>1. CASE j = i
      BY <2>4, <2>10, <3>1, AnswerGiven
    <3>2. CASE j # i
      BY <2>3, <2>10, <3>2
    <3>3. QED
      BY <3>1, <3>2
  <2>11. History(disk.index, disk'.index)
    BY <2>5, SameHistory
  <2>12. QED
    BY <2>1, <2>2, <2>6, <2>7, <2>8, <2>9, <2>10, <2>11, ChildKept
<1>4. QED
  BY <1>1, <1>2, <1>3
-----------------------------------------------------------------------------
(* The steps of the controller                                             *)

LEMMA StartingKeeps ==
  ASSUME TypeInv, LedgerInv, IndexInv, ChildInv, Run \/ Resume \/ Initialize \/ Execute
  PROVE  ChildInv'
<1>1. /\ run' = run /\ children' = children /\ main'.pending = {}
      /\ \A i \in Item : run[i].pc = "none"
  BY DEF Run, Resume, Initialize, Execute, At, Bookkeeping, TypeInv, MainOK, IndexInv, Threads,
         PoolInv, Early
<1>2. TurnInv' /\ AttendInv' /\ AnswerInv'
  BY <1>1 DEF TurnInv, InTurn, BeforeChild, AttendInv, AnswerInv
<1>3. CASE Initialize
  <2>1. children' = {}
    BY <1>1, <1>3 DEF Initialize, At, LedgerInv, IndexInv, FilesInv
  <2>2. QED
    BY <1>2, <2>1 DEF ChildInv, LastInv, AccountInv, Accounted, VettedInv
<1>4. CASE Run \/ Resume \/ Execute
  <2>1. disk' = disk /\ (Live' => mem'.index \in {mem.index, disk.index} /\ (Live \/ mem'.index = disk.index))
    BY <1>4 DEF Run, Resume, Execute, At, TypeInv, MainOK, ParentOK, Parent, Live
  <2>2. Accounted(disk'.index) /\ (Live' => Accounted(mem'.index))
    BY <2>1 DEF ChildInv, AccountInv
  <2>3. /\ AuthorizedItems \subseteq AuthorizedItems' /\ (\A i : Spent(i) => Spent(i)')
        /\ History(disk.index, disk'.index)
    BY <2>1, SameHistory DEF AuthorizedItems, Spent
  <2>4. \A i \in Item : ~ InTurn(i)'
    BY <1>1 DEF InTurn, BeforeChild
  <2>5. QED
    BY <1>1, <2>2, <2>3, <2>4, ChildKept
<1>5. QED
  BY <1>3, <1>4

LEMMA GoneKeeps ==
  ASSUME ChildInv, Gone
  PROVE  ChildInv'
<1>1. /\ main' = IdleMain /\ run' = [i \in Item |-> NoRun]
      /\ UNCHANGED <<disk, children>>
  BY DEF Gone, Bookkeeping
<1>2. (\A i \in Item : run'[i].pc = "none") /\ main'.pending = {} /\ ~ Live'
  BY <1>1 DEF NoRun, IdleMain, Live
<1>3. /\ AuthorizedItems \subseteq AuthorizedItems' /\ (\A i : Spent(i) => Spent(i)')
      /\ History(disk.index, disk'.index) /\ Accounted(disk'.index)
  BY <1>1, SameHistory DEF AuthorizedItems, Spent, ChildInv, AccountInv
<1>4. \A i \in Item : ~ InTurn(i)'
  BY <1>2 DEF InTurn, BeforeChild
<1>5. QED
  BY <1>1, <1>2, <1>3, <1>4, ChildKept

LEMMA DumpKeeps ==
  ASSUME TypeInv, LedgerInv, IndexInv, ChildInv, Dump
  PROVE  ChildInv'
<1>1. History(disk.index, disk'.index) /\ Live
  BY DumpStep, DumpThreads DEF IndexInv
<1>2. UNCHANGED <<mem, main, run, children>>
  BY DEF Dump
<1>3. disk'.index \in {disk.index, mem.index}
  BY DEF Dump, TypeInv, ParentOK, Parent
<1>4. AuthorizedItems \subseteq AuthorizedItems' /\ \A i : Spent(i) => Spent(i)'
  BY LedgerGrows DEF Next, ControllerStep
<1>5. Accounted(disk'.index) /\ Accounted(mem'.index)
  BY <1>1, <1>2, <1>3 DEF ChildInv, AccountInv
<1>6. \A i \in Item : InTurn(i)' => InTurn(i)
  BY <1>2 DEF InTurn
<1>7. QED
  BY <1>1, <1>2, <1>4, <1>5, <1>6, ChildKept

(* Resume accounts for every directory before it counts on the index.      *)
LEMMA ResumingAccounts ==
  ASSUME TypeInv, LedgerInv, IndexInv, SerialInv, ChildInv, ResumeInv, Resuming
  PROVE  Accounted(mem'.index) /\ Unindexed(mem'.index) \subseteq Unindexed(mem.index)
<1> DEFINE Goal == Accounted(mem'.index) /\ Unindexed(mem'.index) \subseteq Unindexed(mem.index)
<1>1. Live /\ mem.ledger = disk.ledger
  BY DEF Resuming, ReconcileChild, ReconcileEvent, ReconcileDone, ReuseChild, DowngradeChild, SkipItem,
         ValidateDone, SettleMissing, SettlePreserved, SettleEvent, SettleDone, Visit, At, Live,
         LedgerInv
<1>2. Accounted(mem.index) /\ mem.index \in SUBSET IndexRecord /\ Distinct(mem.index)
  BY <1>1 DEF ChildInv, AccountInv, TypeInv, ParentOK, Parent, IndexInv, FilesInv, Numbered
<1>3. ASSUME NEW c \in children, ReconcileChild(c), mem' = IndexedParent(OrphanRecord(c))
      PROVE  Goal
  <2> DEFINE r == OrphanRecord(c)
  <2>1. lock = Free /\ c \in Unindexed(mem.index)
    BY <1>3 DEF ReconcileChild, Locked, FirstUnindexed
  <2>2. /\ r \in IndexRecord /\ r.item = c.item /\ r.attempt >= 1
        /\ r.child = c.serial /\ r.validity = (IF Replays(c) THEN "valid" ELSE "partial")
        /\ AttemptsOf(r.item, mem.index) = 1 .. (r.attempt - 1)
    BY <1>1, <2>1, OrphanIsNext, DumpOrder DEF IndexInv
  <2>3. mem'.index = mem.index \cup {r}
    BY <1>3, IndexFields
  <2> HIDE DEF r
  <2>4. \A q \in mem.index : q.item = r.item => q.attempt < r.attempt
    <3>1. \A q \in mem.index : q.item = r.item => q.attempt \in 1 .. (r.attempt - 1)
      BY <2>2 DEF AttemptsOf
    <3>2. r.attempt \in Nat
      BY <2>2 DEF IndexRecord
    <3>3. QED
      BY <3>1, <3>2
  <2>5. Last(c)
    BY <1>1, <2>1, UnindexedOnDisk DEF IndexInv, ChildInv, LastInv
  <2>6. ASSUME NEW e \in children, e.item = r.item, Replays(e)
        PROVE  r.child = e.serial /\ r.validity = "valid"
    <3>1. Last(e)
      BY <2>6 DEF ChildInv, LastInv
    <3>2. e.serial = c.serial
      BY <2>2, <2>5, <2>6, <3>1, SerialsTyped DEF Last
    <3>3. e = c
      BY <2>2, <2>6, <3>2 DEF SerialInv, Ordered
    <3>4. QED
      BY <2>2, <2>6, <3>3
  <2>7. /\ Accounted(mem.index \cup {r})
        /\ Unindexed(mem.index \cup {r}) \subseteq Unindexed(mem.index)
    BY <1>2, <2>2, <2>4, <2>6, AccountedAdded
  <2>8. QED
    BY <2>3, <2>7
<1>4. ASSUME NEW q \in mem.index, q \in LatestOf(q.item, mem.index),
             NEW r, r \in IndexRecord, r.item = q.item, r.attempt = q.attempt, r.child = q.child,
             mem' = ReplacedParent(q, r),
             (q.validity = "valid" /\ ~ Reusable(q)) \/ Spent(q.item)
      PROVE  Goal
  <2>1. mem'.index = (mem.index \ {q}) \cup {r}
    BY <1>4, IndexFields
  <2>2. ASSUME NEW c \in children, c.item = q.item, Replays(c)
        PROVE  c \in Unindexed(mem.index) \/ Spent(c.item)
    <3>1. LatestOf(q.item, mem.index) = {q}
      BY <1>2, <1>4, LatestReplaced
    <3>2. CASE Kept(c, mem.index)
      <4>1. q.child = c.serial
        BY <2>2, <3>1, <3>2 DEF Kept
      <4>2. c \in ChildOf(q)
        BY <2>2, <4>1 DEF ChildOf
      <4>3. q.validity = "valid" => Reusable(q)
        BY <2>2, <4>2 DEF Reusable
      <4>4. QED
        BY <1>4, <2>2, <4>3
    <3>3. QED
      BY <1>2, <2>2, <3>2 DEF Accounted
  <2>3. QED
    BY <1>2, <1>4, <2>1, <2>2, AccountedReplaced
<1>5. ASSUME NEW i \in Item, NEW q \in mem.index, q \in LatestOf(i, mem.index),
             q.validity = "valid", ~ Reusable(q),
             mem' = ReplacedParent(q, [q EXCEPT !.validity = "corrupt", !.fault = "none"])
      PROVE  Goal
  <2> DEFINE r == [q EXCEPT !.validity = "corrupt", !.fault = "none"]
  <2>1. r \in IndexRecord /\ r.item = q.item /\ r.attempt = q.attempt /\ r.child = q.child
    BY IndexFields
  <2>2. q \in LatestOf(q.item, mem.index) /\ mem' = ReplacedParent(q, r)
    BY <1>5 DEF LatestOf
  <2> HIDE DEF r, Goal
  <2>3. QED
    BY <1>4, <1>5, <2>1, <2>2
<1>6. ASSUME NEW a \in mem.ledger, main.pc = "settle"
      PROVE  Spent(a.item) /\ a.item \in Item /\ a.attempt \in Nat
  BY <1>1, <1>6 DEF ResumeInv, Validated, Spent, AuthorizedItems, TypeInv, ParentOK, Parent,
                    Authorization
<1>7. ASSUME NEW a \in mem.ledger, NEW q \in mem.index, SettlePreserved(a),
             q \in LatestOf(a.item, mem.index),
             mem' = ReplacedParent(q, [q EXCEPT !.fault = "local"])
      PROVE  Goal
  <2> DEFINE r == [q EXCEPT !.fault = "local"]
  <2>1. r \in IndexRecord /\ r.item = q.item /\ r.attempt = q.attempt /\ r.child = q.child
    BY IndexFields
  <2>2. q.item = a.item /\ q \in LatestOf(q.item, mem.index) /\ mem' = ReplacedParent(q, r)
    BY <1>7 DEF LatestOf
  <2>3. Spent(q.item)
    BY <1>6, <1>7, <2>2 DEF SettlePreserved, At
  <2> HIDE DEF r, Goal
  <2>4. QED
    BY <1>4, <2>1, <2>2, <2>3
<1>8. ASSUME NEW a \in mem.ledger, SettleMissing(a),
             mem' = IndexedParent(RunIndexRecord(a.item, a.attempt, 0, "missing", "local"))
      PROVE  Goal
  <2> DEFINE r == RunIndexRecord(a.item, a.attempt, 0, "missing", "local")
  <2>1. Spent(a.item) /\ a.item \in Item /\ a.item \in Nat /\ a.attempt \in Nat
    BY <1>6, <1>8 DEF SettleMissing, At, Item
  <2>2. r \in IndexRecord /\ r.item = a.item /\ mem'.index = mem.index \cup {r}
    <3>1. r \in IndexRecord /\ r.item = a.item
      BY <2>1 DEF RunIndexRecord, IndexRecord, Validity, Fault
    <3>2. mem'.index = mem.index \cup {r}
      BY <1>8, IndexFields
    <3>3. QED
      BY <3>1, <3>2
  <2> HIDE DEF r
  <2>3. \A x \in mem.index : x.item # a.item
    <3>1. PICK n \in Nat : AttemptsOf(a.item, mem.index) = 1 .. n
      BY <2>1 DEF IndexInv, FilesInv, Numbered, Dense
    <3>2. LatestOf(a.item, mem.index) = {}
      BY <1>8 DEF SettleMissing
    <3>3. n = 0
      BY <1>2, <3>1, <3>2, LatestIsHighest
    <3>4. AttemptsOf(a.item, mem.index) = {}
      BY <3>1, <3>3
    <3>5. QED
      BY <3>4 DEF AttemptsOf
  <2>4. QED
    BY <1>2, <2>1, <2>2, <2>3, AccountedAdded
<1>9. mem'.index = mem.index => Goal
  BY <1>2
<1>10. QED
  <2> HIDE DEF Goal
  <2>1. Goal
    BY <1>3, <1>5, <1>7, <1>8, <1>9, ResumingIndex
  <2>2. QED
    BY <2>1 DEF Goal

LEMMA ResumingKeeps ==
  ASSUME TypeInv, LedgerInv, IndexInv, SerialInv, ChildInv, ResumeInv, Resuming
  PROVE  ChildInv'
<1>1. UNCHANGED <<disk, run, children>>
  BY ResumingIndex
<1>2. Accounted(mem'.index) /\ Accounted(disk'.index)
  BY <1>1, ResumingAccounts DEF ChildInv, AccountInv
<1>3. (\A i \in Item : run[i].pc = "none") /\ main.pending = {}
  BY DEF Resuming, ReconcileChild, ReconcileEvent, ReconcileDone, ReuseChild, DowngradeChild, SkipItem,
         ValidateDone, SettleMissing, SettlePreserved, SettleEvent, SettleDone, Visit, At, Early,
         IndexInv, Threads, PoolInv
<1>4. main'.pending = main.pending
  BY DEF Resuming, ReconcileChild, ReconcileEvent, ReconcileDone, ReuseChild, DowngradeChild, SkipItem,
         ValidateDone, SettleMissing, SettlePreserved, SettleEvent, SettleDone, Visited, TypeInv, MainOK
<1>5. \A i \in Item : ~ InTurn(i)'
  BY <1>1, <1>3, <1>4 DEF InTurn, BeforeChild
<1>6. /\ AuthorizedItems \subseteq AuthorizedItems' /\ (\A i : Spent(i) => Spent(i)')
      /\ History(disk.index, disk'.index)
  BY <1>1, SameHistory DEF AuthorizedItems, Spent
<1>7. QED
  BY <1>1, <1>2, <1>3, <1>5, <1>6, ChildKept

(* When the plan is made, an item still to run has no directory that could *)
(* be accepted, and every directory is in the index on disk.               *)
LEMMA PlannedUntouched ==
  ASSUME TypeInv, IndexInv, ResumeInv, PlanWork, NEW j \in Item, j \in Pending
  PROVE  Untouched(j) /\ ~ Spent(j)
<1>1. main.pc = "plan" /\ Live /\ \A i \in Item : run[i].pc = "none"
  BY DEF PlanWork, At, Live, IndexInv, Threads, PoolInv, Early
<1>2. lock = Free
  BY <1>1 DEF PlanWork, At, IndexInv, Threads, LockInv, TypeInv, LockOK, Writing
<1>3. disk.index = mem.index
  BY <1>1, <1>2, DumpOrder DEF IndexInv, FilesInv
<1>4. j \notin main.completed
  BY DEF Pending
<1>5. ~ Spent(j) /\ Idle(j)
  BY <1>1, <1>4 DEF ResumeInv, Settled, Validated, Done
<1>6. Unindexed(disk.index) = {}
  BY <1>1, <1>3 DEF ResumeInv, Reconciled
<1>7. QED
  BY <1>5, <1>6 DEF Untouched, Stale, Idle

LEMMA ExecutingKeeps ==
  ASSUME TypeInv, LedgerInv, IndexInv, ChildInv, ResumeInv, (Executing /\ ~ Exit) \/ Interrupt
  PROVE  ChildInv'
<1>1. /\ mem'.index = mem.index /\ disk'.index = disk.index /\ children' = children
      /\ disk'.ledger = disk.ledger
  BY PlainExecuting DEF Plain, Unfiled
<1>2. \A j \in Item :
        /\ run'[j] \in {run[j], NoRun, [NoRun EXCEPT !.pc = "queued"]}
        /\ InTurn(j)' => InTurn(j) \/ (PlanWork /\ j \in Pending)
  BY ExecutingRuns DEF IndexInv
<1>3. \A j \in Item : InTurn(j)' => InTurn(j) \/ Untouched(j)
  BY <1>2, PlannedUntouched
<1>4. NoRun.pc = "none" /\ [NoRun EXCEPT !.pc = "queued"].pc = "queued"
  BY Resubmitted
<1>5. \A j \in Item : run'[j].pc \in {"running", "returned", "terminal"} => run'[j] = run[j]
  BY <1>2, <1>4
<1>6. Live
  BY DEF Executing, Interrupt, RemoveArtifactManifest, SetRunning, PlanWork, Wait, WaitDone, Collect,
         CollectException, IntervalCheckpoint, Refill, StopScheduling, HandleException,
         InterruptedEvent, FinalCheckpoint, SkipFinalCheckpoint, Verdict, ReportsGenerated,
         ReportsFailed, WriteArtifactManifest, At, Live, Exit
<1>7. Accounted(disk'.index) /\ Accounted(mem'.index)
  BY <1>1, <1>6 DEF ChildInv, AccountInv
<1>8. /\ AuthorizedItems \subseteq AuthorizedItems' /\ (\A i : Spent(i) => Spent(i)')
      /\ History(disk.index, disk'.index)
  BY <1>1, SameHistory DEF AuthorizedItems, Spent
<1>9. QED
  BY <1>1, <1>3, <1>5, <1>7, <1>8, ChildKept
-----------------------------------------------------------------------------
(* What resume establishes, step by step                                   *)

(* An item without a reusable latest record has nothing to accept.         *)
LEMMA NothingToAccept ==
  ASSUME TypeInv, FilesInv, ChildInv, ResumeInv, main.pc = "validate", NEW i \in Item,
         \/ \A r \in LatestOf(i, mem.index) : r.validity # "valid"
         \/ \E q \in LatestOf(i, mem.index) : ~ Reusable(q)
  PROVE  Idle(i) \/ Spent(i)
<1>1. Accounted(mem.index) /\ Unindexed(mem.index) = {}
  BY DEF ChildInv, AccountInv, Live, ResumeInv, Reconciled
<1>2. ASSUME NEW c \in children, c.item = i, Replays(c), Kept(c, mem.index)
      PROVE  FALSE
  <2>1. PICK r \in LatestOf(i, mem.index) : r.child = c.serial /\ r.validity = "valid"
    BY <1>2 DEF Kept
  <2>2. PICK q \in LatestOf(i, mem.index) : ~ Reusable(q)
    BY <2>1
  <2>3. /\ q \in mem.index /\ q.item = i /\ r.item = i /\ mem.index \in SUBSET IndexRecord
        /\ q \in IndexRecord /\ Distinct(mem.index)
    BY DEF LatestOf, LatestRecords, TypeInv, ParentOK, Parent, FilesInv, Numbered
  <2>4. LatestOf(q.item, mem.index) = {q}
    BY <2>2, <2>3, LatestReplaced
  <2>5. r = q
    BY <2>1, <2>3, <2>4
  <2>6. c \in ChildOf(r)
    BY <1>2, <2>1, <2>3 DEF ChildOf
  <2>7. QED
    BY <1>2, <2>1, <2>2, <2>5, <2>6 DEF Reusable
<1>3. QED
  BY <1>1, <1>2 DEF Accounted, Idle

(* A step of resume.                                                       *)
LEMMA ResumeStep ==
  ASSUME ResumeInv, UNCHANGED <<children, disk, run>>, main'.pending = main.pending,
         Unindexed(mem'.index) \subseteq Unindexed(mem.index),
         main.completed \subseteq main'.completed
  PROVE  /\ UnspentInv' /\ Unindexed(mem.index)' \subseteq Unindexed(mem.index)
         /\ \A i : /\ Idle(i)' <=> Idle(i)
                   /\ Spent(i)' <=> Spent(i)
                   /\ Done(i) => Done(i)'
<1>1. \A i : /\ Idle(i)' <=> Idle(i)
             /\ Spent(i)' <=> Spent(i)
  BY DEF Idle, Replays, Spent, AuthorizedItems
<1>2. \A i : Done(i) => Done(i)'
  BY <1>1 DEF Done
<1>3. UnspentInv'
  BY <1>1 DEF ResumeInv, UnspentInv, Unauthorized
<1>4. Unindexed(mem.index)' \subseteq Unindexed(mem.index)
  BY DEF Unindexed
<1>5. QED
  BY <1>1, <1>2, <1>3, <1>4

LEMMA ResumingResume ==
  ASSUME TypeInv, LedgerInv, IndexInv, SerialInv, ChildInv, ResumeInv, Resuming
  PROVE  ResumeInv'
<1>1. UNCHANGED <<children, disk, run>>
  BY ResumingIndex
<1>2. main'.pending = main.pending /\ main.completed \subseteq main'.completed
  <2>1. MainOK(main)
    BY DEF TypeInv
  <2>2. CASE \/ \E c \in children : ReconcileChild(c)
             \/ ReconcileEvent \/ ReconcileDone \/ ValidateDone
    BY <2>1, <2>2 DEF ReconcileChild, ReconcileEvent, ReconcileDone, ValidateDone, MainOK
  <2>3. CASE \E i \in Item : ReuseChild(i) \/ DowngradeChild(i) \/ SkipItem(i)
    BY <2>1, <2>3 DEF ReuseChild, DowngradeChild, SkipItem, Visited, MainOK
  <2>4. CASE \/ \E a \in mem.ledger : SettleMissing(a) \/ SettlePreserved(a)
             \/ SettleEvent \/ SettleDone
    BY <2>1, <2>4 DEF SettleMissing, SettlePreserved, SettleEvent, SettleDone, MainOK
  <2>5. QED
    BY <2>2, <2>3, <2>4 DEF Resuming
<1>3. Unindexed(mem'.index) \subseteq Unindexed(mem.index)
  BY ResumingAccounts
<1>4. /\ UnspentInv' /\ Unindexed(mem.index)' \subseteq Unindexed(mem.index)
      /\ \A i : /\ Idle(i)' <=> Idle(i)
                /\ Spent(i)' <=> Spent(i)
                /\ Done(i) => Done(i)'
  BY <1>1, <1>2, <1>3, ResumeStep
<1>5. main.cursor \in Nat
  BY DEF TypeInv, MainOK
<1>6. ASSUME \/ (\E c \in children : ReconcileChild(c)) \/ ReconcileEvent \/ ReconcileDone
      PROVE  ResumeInv'
  <2>1. /\ main.pc \in {"reconcile", "reconciled"} /\ main'.cursor = main.cursor
        /\ main'.pc \in {"reconcile", "reconciled", "validate"}
        /\ main'.pc = "validate" => Unindexed(mem.index) = {}
    BY <1>6 DEF ReconcileChild, ReconcileEvent, ReconcileDone, At, TypeInv, MainOK
  <2>2. main.cursor = 1 /\ \A i \in Item : ~ (i < 1)
    BY <2>1 DEF ResumeInv, Beginning, Item
  <2>3. Beginning' /\ Reconciled' /\ Validated' /\ Settled'
    BY <1>4, <2>1, <2>2 DEF Beginning, Reconciled, Validated, Settled
  <2>4. QED
    BY <1>4, <2>3 DEF ResumeInv
<1>7. ASSUME NEW i \in Item, ReuseChild(i) \/ DowngradeChild(i) \/ SkipItem(i)
      PROVE  ResumeInv'
  <2>1. /\ main.pc = "validate" /\ main'.pc = "validate" /\ main.cursor = i /\ main'.cursor = i + 1
    BY <1>7 DEF ReuseChild, DowngradeChild, SkipItem, Visit, Visited, At, TypeInv, MainOK
  <2>2. Done(i)'
    <3>1. CASE ReuseChild(i)
      <4>1. i \in main'.completed
        BY <3>1 DEF ReuseChild, Visited, TypeInv, MainOK
      <4>2. QED
        BY <4>1 DEF Done
    <3>2. CASE DowngradeChild(i) \/ SkipItem(i)
      <4>1. \/ \A r \in LatestOf(i, mem.index) : r.validity # "valid"
            \/ \E q \in LatestOf(i, mem.index) : ~ Reusable(q)
        BY <3>2 DEF DowngradeChild, SkipItem
      <4>2. Idle(i) \/ Spent(i)
        BY <2>1, <4>1, NothingToAccept DEF IndexInv
      <4>3. QED
        BY <1>4, <4>2 DEF Done
    <3>3. QED
      BY <1>7, <3>1, <3>2
  <2>3. \A j \in Item : j < i + 1 => Done(j)'
    <3>1. \A j \in Item : j < i => Done(j)
      BY <2>1 DEF ResumeInv, Validated
    <3>2. \A j \in Item : j < i + 1 => j < i \/ j = i
      BY DEF Item
    <3>3. QED
      BY <1>4, <2>2, <3>1, <3>2
  <2>4. Reconciled'
    BY <1>4, <2>1 DEF ResumeInv, Reconciled
  <2>5. Beginning' /\ Validated' /\ Settled'
    BY <2>1, <2>3 DEF Beginning, Validated, Settled
  <2>6. QED
    BY <1>4, <2>4, <2>5 DEF ResumeInv
<1>8. ASSUME ValidateDone
      PROVE  ResumeInv'
  <2>1. /\ main.pc = "validate" /\ main.cursor = N + 1
        /\ main'.pc = IF Strict THEN "settle" ELSE "unseal"
    BY <1>8 DEF ValidateDone, Visit, At, TypeInv, MainOK
  <2>2. \A i \in Item : Done(i)
    <3>1. \A i \in Item : i < N + 1
      BY ConfigAssumption DEF Item
    <3>2. QED
      BY <2>1, <3>1 DEF ResumeInv, Validated
  <2>3. ~ Strict => \A i : ~ Spent(i)'
    BY DEF Spent
  <2>4. Reconciled'
    BY <1>4, <2>1 DEF ResumeInv, Reconciled
  <2>5. Validated'
    BY <1>4, <2>1, <2>2 DEF Validated
  <2>6. Beginning' /\ Settled'
    BY <2>1, <2>3 DEF Beginning, Settled
  <2>7. QED
    BY <1>4, <2>4, <2>5, <2>6 DEF ResumeInv
<1>9. ASSUME (\E a \in mem.ledger : SettleMissing(a) \/ SettlePreserved(a)) \/ SettleEvent \/ SettleDone
      PROVE  ResumeInv'
  <2>1. /\ main.pc \in {"settle", "settled"} /\ main'.pc \in {"settle", "settled", "unseal"}
        /\ main'.pc = "unseal" => SettleDone /\ main' = [main EXCEPT !.pc = "unseal"]
    BY <1>9 DEF SettleMissing, SettlePreserved, SettleEvent, SettleDone, At, TypeInv, MainOK
  <2>2. Reconciled'
    BY <1>4, <2>1 DEF ResumeInv, Reconciled
  <2>3. Validated'
    BY <1>4, <2>1 DEF ResumeInv, Validated
  <2>4. ASSUME NEW i \in Item, main'.pc = "unseal", Spent(i)
        PROVE  i \in main'.completed
    <3>1. mem.ledger = disk.ledger
      BY <2>1 DEF LedgerInv, Live
    <3>2. Unsettled = {} /\ main'.completed = main.completed
      BY <2>1, <2>4 DEF SettleDone, TypeInv, MainOK
    <3>3. QED
      BY <2>4, <3>1, <3>2 DEF Spent, AuthorizedItems, Unsettled
  <2>5. Beginning' /\ Settled'
    BY <1>4, <2>1, <2>4 DEF Beginning, Settled
  <2>6. QED
    BY <1>4, <2>2, <2>3, <2>5 DEF ResumeInv
<1>10. QED
  BY <1>6, <1>7, <1>8, <1>9 DEF Resuming

LEMMA StartingResume ==
  ASSUME TypeInv, LedgerInv, IndexInv, ResumeInv, Run \/ Resume \/ Initialize \/ Execute
  PROVE  ResumeInv'
<1>1. /\ run' = run /\ children' = children /\ main'.pending = {} /\ main'.cursor = main.cursor
      /\ \A i \in Item : run[i].pc = "none"
      /\ main.pc \in {"idle", "initialize", "initialized"}
  BY DEF Run, Resume, Initialize, Execute, At, Bookkeeping, TypeInv, MainOK, IndexInv, Threads,
         PoolInv, Early
<1>2. UnspentInv' /\ main'.cursor = 1
  BY <1>1 DEF UnspentInv, Unauthorized, BeforeLedger, BeforeChild, ResumeInv, Beginning
<1>3. CASE Run \/ Resume
  <2>1. main'.pc \in {"initialize", "reconcile"}
    BY <1>3 DEF Run, Resume, TypeInv, MainOK
  <2>2. QED
    BY <1>2, <2>1 DEF ResumeInv, Beginning, Reconciled, Validated, Settled
<1>4. CASE Initialize
  <2>1. main'.pc = "initialized" /\ children' = {} /\ disk'.ledger = {}
    BY <1>1, <1>4, NewParentIndex DEF Initialize, At, LedgerInv, IndexInv, FilesInv, TypeInv, MainOK
  <2>2. QED
    BY <1>2, <2>1 DEF ResumeInv, Beginning, Reconciled, Validated, Settled
<1>5. CASE Execute
  <2>1. main'.pc = "unseal" /\ children' = {} /\ disk'.ledger = {}
    BY <1>1, <1>5 DEF Execute, At, TypeInv, MainOK, ResumeInv, Beginning
  <2>2. \A i : Idle(i)' /\ ~ Spent(i)'
    BY <2>1 DEF Idle, Spent, AuthorizedItems
  <2>3. Unindexed(mem.index)' = {}
    BY <2>1 DEF Unindexed
  <2>4. QED
    BY <1>2, <2>1, <2>2, <2>3 DEF ResumeInv, Beginning, Reconciled, Validated, Settled, Done
<1>6. QED
  BY <1>3, <1>4, <1>5

LEMMA GoneResume ==
  ASSUME Gone
  PROVE  ResumeInv'
<1>1. main' = IdleMain /\ run' = [i \in Item |-> NoRun]
  BY DEF Gone
<1>2. /\ \A i \in Item : run'[i].pc = "none"
      /\ main'.pending = {} /\ main'.pc = "idle" /\ main'.cursor = 1
  BY <1>1 DEF NoRun, IdleMain
<1>3. QED
  BY <1>2 DEF ResumeInv, Beginning, Reconciled, Validated, Settled, UnspentInv, Unauthorized,
              BeforeLedger, BeforeChild

(* The main thread before and after the plan, and a worker.                *)
LEMMA ExecutingResume ==
  ASSUME TypeInv, LedgerInv, IndexInv, ResumeInv, (Executing /\ ~ Exit) \/ Interrupt
  PROVE  ResumeInv'
<1>1. /\ mem'.index = mem.index /\ children' = children /\ disk'.ledger = disk.ledger
  BY PlainExecuting DEF Plain, Unfiled
<1>2. \A i : /\ Idle(i)' <=> Idle(i)
             /\ Spent(i)' <=> Spent(i)
  BY <1>1 DEF Idle, Replays, Spent, AuthorizedItems
<1>3. UnspentInv'
  <2>1. \A j \in Item : Unauthorized(j)' => Unauthorized(j) \/ ~ Spent(j)
    BY ExecutingRuns, PlannedUntouched DEF IndexInv
  <2>2. QED
    BY <1>2, <2>1 DEF UnspentInv, ResumeInv
<1>4. Unindexed(mem.index)' = Unindexed(mem.index)
  BY <1>1 DEF Unindexed
<1>5. CASE RemoveArtifactManifest \/ SetRunning
  <2>1. /\ main.pc \in {"unseal", "activate"} /\ main'.pc \in {"activate", "plan"}
        /\ main'.completed = main.completed
    BY <1>5 DEF RemoveArtifactManifest, SetRunning, At, TypeInv, MainOK
  <2>2. QED
    BY <1>2, <1>3, <1>4, <2>1
       DEF ResumeInv, Beginning, Reconciled, Validated, Settled, Done
<1>6. CASE ~ RemoveArtifactManifest /\ ~ SetRunning
  <2>1. main'.pc \in {"wait", "collect", "checkpoint", "refill", "drain", "interrupted", "finish",
                      "verdict", "report", "seal", "exit"}
    BY <1>6
       DEF Executing, Interrupt, PlanWork, Wait, WaitDone, Collect, CollectException,
           IntervalCheckpoint, Refill, StopScheduling, HandleException, InterruptedEvent,
           FinalCheckpoint, SkipFinalCheckpoint, Verdict, ReportsGenerated, ReportsFailed,
           WriteArtifactManifest, WriteCheckpoint, TypeInv, MainOK
  <2>2. QED
    BY <1>3, <2>1 DEF ResumeInv, Beginning, Reconciled, Validated, Settled
<1>7. QED
  BY <1>5, <1>6

LEMMA WorkerResume ==
  ASSUME TypeInv, LedgerInv, IndexInv, ResumeInv, NEW i \in Item, RunItem(i)
  PROVE  ResumeInv'
<1>1. /\ main' = main /\ (\A j \in Item \ {i} : run'[j] = run[j]) /\ run[i].pc \notin {"none", "done"}
  BY WorkerSteps
<1>2. main.pc \notin Early /\ (i \in main.pending => FALSE)
  BY <1>1 DEF IndexInv, Threads, PoolInv
<1>3. Unauthorized(i)' => Unauthorized(i) /\ ~ Authorize(i)
  <2>1. CASE LaunchChild(i) \/ ChildPersistsManifest(i) \/ ChildReturns(i)
    <3>1. run'[i].pc \in {"running", "returned"}
      BY <2>1, ToPcFields
         DEF LaunchChild, ChildPersistsManifest, ChildReturns, RunAt, TypeInv, ItemRun
    <3>2. QED
      BY <1>1, <1>2, <3>1 DEF Unauthorized, BeforeLedger, BeforeChild
  <2>2. CASE ~ LaunchChild(i) /\ ~ ChildPersistsManifest(i) /\ ~ ChildReturns(i)
    BY <1>1, <1>2, <2>2, WorkerMoves DEF Unauthorized, BeforeLedger
  <2>3. QED
    BY <2>1, <2>2
<1>4. \A j \in Item : Unauthorized(j)' => Unauthorized(j) /\ (Spent(j)' => Spent(j))
  <2>1. ASSUME NEW j \in Item, Unauthorized(j)'
        PROVE  Unauthorized(j)
    BY <1>1, <1>3, <2>1 DEF Unauthorized
  <2>2. CASE ~ Authorize(i)
    <3>1. disk' = disk
      <4>1. CASE Terminal(i) \/ TerminalEvent(i)
        BY <4>1 DEF Terminal, TerminalEvent, Worker
      <4>2. CASE ~ Terminal(i) /\ ~ TerminalEvent(i)
        BY <2>2, <4>2, PlainWorker
      <4>3. QED
        BY <4>1, <4>2
    <3>2. QED
      BY <2>1, <3>1 DEF Spent, AuthorizedItems
  <2>3. CASE Authorize(i)
    <3>1. \E a : a.item = i /\ disk'.ledger = disk.ledger \cup {a}
      <4> DEFINE a == [item |-> i, attempt |-> main.attempts[i]]
      <4>1. a.item = i /\ disk' = [disk EXCEPT !.ledger = @ \cup {a}]
        BY <2>3 DEF Authorize
      <4> HIDE DEF a
      <4>2. disk'.ledger = disk.ledger \cup {a}
        BY <4>1 DEF TypeInv, ParentOK, Parent
      <4>3. QED
        BY <4>1, <4>2
    <3>2. \A j \in Item : j # i => (Spent(j)' => Spent(j))
      BY <3>1 DEF Spent, AuthorizedItems
    <3>3. QED
      BY <1>3, <2>1, <2>3, <3>2
  <2>4. QED
    BY <2>2, <2>3
<1>5. UnspentInv'
  BY <1>4 DEF UnspentInv, ResumeInv
<1>6. QED
  BY <1>1, <1>2, <1>5 DEF ResumeInv, Beginning, Reconciled, Validated, Settled, Early
-----------------------------------------------------------------------------
(* The theorems                                                            *)

LEMMA ChildInit == Init => ChildInv /\ ResumeInv
<1>1. SUFFICES ASSUME Init PROVE ChildInv /\ ResumeInv
  OBVIOUS
<1>2. /\ children = {} /\ main.pc = "idle" /\ main.pending = {} /\ main.cursor = 1
      /\ \A i \in Item : run[i].pc = "none"
  BY <1>1 DEF Init, NoRun, IdleMain
<1>3. ChildInv
  BY <1>2 DEF ChildInv, LastInv, AccountInv, Accounted, TurnInv, InTurn, BeforeChild, AttendInv,
              AnswerInv, VettedInv
<1>4. ResumeInv
  BY <1>2 DEF ResumeInv, Beginning, Reconciled, Validated, Settled, UnspentInv, Unauthorized,
              BeforeLedger, BeforeChild
<1>5. QED
  BY <1>3, <1>4

LEMMA ChildNext ==
  ASSUME TypeInv, LedgerInv, IndexInv, SerialInv, ChildInv, ResumeInv, [Next]_vars
  PROVE  ChildInv' /\ ResumeInv'
<1>1. CASE Run \/ Resume \/ Initialize \/ Execute
  BY <1>1, StartingKeeps, StartingResume
<1>2. CASE Prepare \/ Crash \/ Exit
  BY <1>2, GoneKeeps, GoneResume DEF Prepare, Crash, Exit
<1>3. CASE Dump
  <2>1. UNCHANGED <<mem, main, run, children>> /\ disk'.ledger = disk.ledger
    BY <1>3, DumpQuiet DEF Dump, Quiet
  <2>2. ResumeInv'
    BY <2>1 DEF ResumeInv, Beginning, Reconciled, Validated, Settled, UnspentInv, Unauthorized, Done,
                Idle, Replays, Spent, AuthorizedItems, Unindexed
  <2>3. QED
    BY <1>3, <2>2, DumpKeeps
<1>4. CASE Resuming
  BY <1>4, ResumingKeeps, ResumingResume
<1>5. CASE (Executing /\ ~ Exit) \/ Interrupt
  BY <1>5, ExecutingKeeps, ExecutingResume
<1>6. ASSUME NEW i \in Item, RunItem(i)
      PROVE  ChildInv' /\ ResumeInv'
  BY <1>6, WorkerKeeps, WorkerResume
<1>7. ASSUME NEW c \in children, DamageChild(c)
      PROVE  ChildInv' /\ ResumeInv'
  <2>1. ChildInv'
    BY <1>7, DamageKeeps DEF IndexInv
  <2>2. main.pc = "idle" /\ UNCHANGED <<main, run, disk>>
    BY <1>7 DEF DamageChild
  <2>3. ResumeInv'
    BY <2>2 DEF ResumeInv, Beginning, Reconciled, Validated, Settled, UnspentInv, Unauthorized,
                Spent, AuthorizedItems
  <2>4. QED
    BY <2>1, <2>3
<1>8. CASE UNCHANGED vars
  <2>1. UNCHANGED <<mem, disk, main, run, children>>
    BY <1>8 DEF vars
  <2>2. ChildInv'
    BY <2>1 DEF ChildInv, LastInv, AccountInv, Accounted, TurnInv, InTurn, AttendInv, AnswerInv,
                VettedInv, Last, Spent, Kept, Stale, Untouched, Attended, Answered, Replays,
                Unindexed, AuthorizedItems, Live
  <2>3. ResumeInv'
    BY <2>1 DEF ResumeInv, Beginning, Reconciled, Validated, Settled, UnspentInv, Unauthorized, Done,
                Idle, Replays, Spent, AuthorizedItems, Unindexed
  <2>4. QED
    BY <2>2, <2>3
<1>9. QED
  BY <1>1, <1>2, <1>3, <1>4, <1>5, <1>6, <1>7, <1>8 DEF Next, ControllerStep

(* Whatever could be accepted is in hand, indexed, yet to be reconciled or *)
(* spent, and a resume that comes to its plan has dealt with all of it.    *)
THEOREM ChildInvariance == Spec => [](ChildInv /\ ResumeInv)
<1>1. TypeInv /\ LedgerInv /\ IndexInv /\ SerialInv /\ (ChildInv /\ ResumeInv) /\ [Next]_vars
        => (ChildInv /\ ResumeInv)'
  BY ChildNext
<1>2. QED
  BY <1>1, ChildInit, TypeInvariance, LedgerInvariance, IndexInvariance, SerialInvariance, PTL
     DEF Spec

(* Accepted work is never done twice: over any number of crashes, resumes  *)
(* and damaged directories an item has at most one run directory that      *)
(* replays.                                                                *)
THEOREM WorkIsNotRepeated == Spec => []NoWorkIsRepeated
<1>1. ASSUME TypeInv, SerialInv, ChildInv
      PROVE  NoWorkIsRepeated
  <2>1. ASSUME NEW i \in Item
        PROVE  Cardinality({c \in children : c.item = i /\ Replays(c)}) <= 1
    <3> DEFINE S == {c \in children : c.item = i /\ Replays(c)}
    <3>1. ASSUME NEW c \in S, NEW d \in S
          PROVE  c = d
      <4>1. Last(c) /\ Last(d)
        BY <1>1 DEF ChildInv, LastInv
      <4>2. c.serial = d.serial
        BY <1>1, <4>1, SerialsTyped DEF Last
      <4>3. QED
        BY <1>1, <4>2 DEF SerialInv, Ordered
    <3> HIDE DEF S
    <3>2. CASE S = {}
      BY <3>2, FS_EmptySet DEF S
    <3>3. ASSUME NEW c \in S
          PROVE  Cardinality(S) <= 1
      <4>1. S = {c}
        BY <3>1
      <4>2. QED
        BY <4>1, FS_Singleton
    <3>4. QED
      BY <3>2, <3>3 DEF S
  <2>2. QED
    BY <2>1 DEF NoWorkIsRepeated
<1>2. QED
  BY <1>1, TypeInvariance, SerialInvariance, ChildInvariance, PTL

(* Under the strict policy no worker finds its item consumed: resume has   *)
(* settled every authorization of an earlier session before it schedules.  *)
THEOREM AuthorizationsAreSettled == Spec => []AuthorizationIsNeverConsumed
<1>1. ASSUME LedgerInv, ResumeInv
      PROVE  AuthorizationIsNeverConsumed
  <2>1. ASSUME Strict, NEW i \in ModelBearing, RunAt(i, "authorize")
        PROVE  ~ Consumed(i)
    <3>1. i \in Item
      BY ConfigAssumption
    <3>2. ~ Spent(i)
      BY <1>1, <2>1, <3>1 DEF RunAt, ResumeInv, UnspentInv, Unauthorized, BeforeLedger, BeforeChild
    <3>3. mem.ledger = disk.ledger
      BY <1>1, <2>1, <3>1, WorkersLive DEF RunAt, LedgerInv
    <3>4. QED
      BY <2>1, <3>2, <3>3 DEF Spent, AuthorizedItems, Consumed
  <2>2. QED
    BY <2>1 DEF AuthorizationIsNeverConsumed
<1>2. QED
  BY <1>1, LedgerInvariance, ChildInvariance, PTL
=============================================================================
