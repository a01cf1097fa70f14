---------------------- MODULE BatchRunnerOutcomeProofs ----------------------
(***************************************************************************)
(* What a campaign leaves behind says of itself, for every plan, policy    *)
(* and number of sessions: checkpoints that never overstate the run index, *)
(* and a sealed status that is true.                                       *)
(*                                                                         *)
(* The argument follows the parent's two copies to the end of a session:   *)
(* while the lock is free, the files of the directory are those in memory  *)
(* (AgreeInv); from the removal of artifact_manifest.json to its           *)
(* replacement nothing is sealed, and once it is written again no thread   *)
(* is left that could change a file (SealInv).  What is sealed is          *)
(* therefore what the controller held in memory when it wrote the          *)
(* manifest.  That this accounts for the whole plan is carried from the    *)
(* validation of a resume (CompletedInv) through the pool, where each item *)
(* is pending, in the hands of a worker or recorded, unless scheduling was *)
(* halted for a reason that stays visible (CrewInv, EndInv, CoverInv,      *)
(* LedgerCoverInv), to the verdict (TruthInv).                             *)
(*                                                                         *)
(* How far faults spread is bounded on what they could become: the faults  *)
(* of an index, the directories a resume would accept as one, and under    *)
(* the strict policy the authorizations it would settle as one.  Those     *)
(* that are not yet recorded are in the hands of a worker (LagInv,         *)
(* OrphanInv), and collecting the result stops the submission of others    *)
(* (FailFastInv, BreakerInv); a valid record keeps its directory as long   *)
(* as nobody damages one (KeptInv).                                        *)
(*                                                                         *)
(* Last, what can be said without fairness of how a session ends: each of  *)
(* its steps leaves less to do (Remainder), and there is always a thread   *)
(* whose next step waits for nothing (Ready, ExpectInv).                   *)
(***************************************************************************)
EXTENDS BatchRunnerChildProofs

-----------------------------------------------------------------------------
(* Memory and files                                                        *)

(* The main thread's places after set_status("running").                   *)
Late == {"plan", "wait", "collect", "checkpoint", "refill", "drain", "interrupted", "finish",
         "verdict", "report", "seal", "exit"}

AgreeInv ==
  /\ Live => disk.checkpoints = mem.checkpoints
  /\ main.pc \in Late =>
       /\ lock = Free => disk.state = mem.state
       /\ lock.dumps # <<"manifest", "state">> => disk.manifest = mem.manifest
       /\ mem.state.status = mem.manifest

(* A locked method other than set_status.                                  *)
Modest ==
  /\ lock = Free
  /\ lock'.dumps \in {IndexFirst, <<"state">>, <<"events", "state">>}
  /\ mem'.manifest = mem.manifest /\ mem'.checkpoints = mem.checkpoints
  /\ mem'.state.status = mem.state.status
  /\ disk'.manifest = disk.manifest /\ disk'.checkpoints = disk.checkpoints

LEMMA ModestUpdates ==
  ASSUME TypeInv
  PROVE  /\ \A t, e : Event(t, e) /\ disk' = disk => Modest
         /\ \A t, r : Locked(t, IndexedParent(r), IndexFirst) /\ disk' = disk => Modest
<1>1. mem \in Parent /\ mem.state \in State
  BY DEF TypeInv, ParentOK, Parent
<1>2. ASSUME NEW t, NEW e, Event(t, e), disk' = disk
      PROVE  Modest
  BY <1>1, <1>2 DEF Event, Locked, Modest, Parent
<1>3. ASSUME NEW t, NEW r, Locked(t, IndexedParent(r), IndexFirst), disk' = disk
      PROVE  Modest
  <2>1. TerminalState(mem.state, r).status = mem.state.status
    BY <1>1 DEF TerminalState, State
  <2>2. /\ IndexedParent(r).state = TerminalState(mem.state, r)
        /\ IndexedParent(r).manifest = mem.manifest
        /\ IndexedParent(r).checkpoints = mem.checkpoints
    BY <1>1 DEF IndexedParent, Parent
  <2>3. QED
    BY <1>3, <2>1, <2>2 DEF Locked, Modest
<1>4. QED
  BY <1>2, <1>3

(* A worker never changes a status or a checkpoint.                        *)
LEMMA WorkerModest ==
  ASSUME TypeInv, NEW i \in Item, RunItem(i)
  PROVE  UNCHANGED <<mem, disk, lock>> \/ Modest
<1>1. /\ mem \in Parent /\ disk \in Parent /\ mem.state \in State
  BY DEF TypeInv, ParentOK, Parent
<1>2. CASE ScheduledEvent(i) \/ StartedEvent(i) \/ TerminalEvent(i)
  BY <1>2, ModestUpdates DEF ScheduledEvent, StartedEvent, TerminalEvent, Worker
<1>3. CASE Terminal(i)
  BY <1>3, ModestUpdates DEF Terminal, Worker, IndexFirst
<1>4. CASE Scheduled(i)
  <2> DEFINE p == [mem EXCEPT !.state.scheduled = @ + 1]
  <2>1. /\ p.manifest = mem.manifest /\ p.checkpoints = mem.checkpoints
        /\ p.state.status = mem.state.status
    BY <1>1 DEF Parent, State
  <2>2. Locked(i, p, <<"state">>) /\ disk' = disk
    BY <1>4 DEF Scheduled, Worker
  <2>3. QED
    BY <2>1, <2>2 DEF Locked, Modest
<1>5. CASE Started(i)
  <2> DEFINE p == [mem EXCEPT !.state = StartedState(@)]
  <2>1. StartedState(mem.state).status = mem.state.status
    BY <1>1 DEF StartedState, State
  <2>2. /\ p.manifest = mem.manifest /\ p.checkpoints = mem.checkpoints
        /\ p.state = StartedState(mem.state)
    BY <1>1 DEF Parent
  <2>3. Locked(i, p, <<"state">>) /\ disk' = disk
    BY <1>5 DEF Started, Worker
  <2>4. QED
    BY <2>1, <2>2, <2>3 DEF Locked, Modest
<1>6. CASE Authorize(i)
  <2> DEFINE a == [item |-> i, attempt |-> main.attempts[i]]
             p == [mem EXCEPT !.ledger = @ \cup {a}, !.state.authorized = @ + 1]
             d == [disk EXCEPT !.ledger = @ \cup {a}]
  <2>1. /\ p.manifest = mem.manifest /\ p.checkpoints = mem.checkpoints
        /\ p.state.status = mem.state.status
        /\ d.manifest = disk.manifest /\ d.checkpoints = disk.checkpoints
    BY <1>1 DEF Parent, State
  <2>2. Locked(i, p, <<"state">>) /\ disk' = d
    BY <1>6 DEF Authorize
  <2>3. QED
    BY <2>1, <2>2 DEF Locked, Modest
<1>7. CASE \/ ContractFails(i) \/ NoAuthorizationNeeded(i) \/ AuthorizationRefused(i)
           \/ LaunchChild(i) \/ ChildPersistsManifest(i) \/ ChildReturns(i) \/ ChildRaises(i)
           \/ ChildInterrupted(i) \/ AcceptResult(i)
  BY <1>7 DEF ContractFails, NoAuthorizationNeeded, AuthorizationRefused, LaunchChild,
              ChildPersistsManifest, ChildReturns, ChildRaises, ChildInterrupted, AcceptResult, Aside
<1>8. QED
  BY <1>2, <1>3, <1>4, <1>5, <1>6, <1>7 DEF RunItem

(* The main thread of _execute, step by step.                              *)
MainMoves(from, to) == main.pc = from /\ main'.pc \in to

LEMMA ExecutingMoves ==
  ASSUME TypeInv
  PROVE  /\ RemoveArtifactManifest => MainMoves("unseal", {"activate"})
         /\ SetRunning => MainMoves("activate", {"plan"})
         /\ PlanWork => MainMoves("plan", {"wait"})
         /\ Wait => MainMoves("wait", {"collect"})
         /\ WaitDone => MainMoves("wait", {"finish"})
         /\ Interrupt => MainMoves("wait", {"drain"})
         /\ \A i \in Item : Collect(i) => MainMoves("collect", {"checkpoint", "refill"})
         /\ \A i \in Item : CollectException(i) => MainMoves("collect", {"drain"})
         /\ IntervalCheckpoint => MainMoves("checkpoint", {"refill"})
         /\ Refill => MainMoves("refill", {"wait", "collect"})
         /\ StopScheduling => MainMoves("refill", {"wait", "collect"})
         /\ HandleException => MainMoves("drain", {"interrupted", "exit"})
         /\ InterruptedEvent => MainMoves("interrupted", {"exit"})
         /\ FinalCheckpoint => MainMoves("finish", {"verdict"})
         /\ SkipFinalCheckpoint => MainMoves("finish", {"verdict"})
         /\ Verdict => MainMoves("verdict", {"report"})
         /\ ReportsGenerated => MainMoves("report", {"seal"})
         /\ ReportsFailed => MainMoves("report", {"exit"})
         /\ WriteArtifactManifest => MainMoves("seal", {"exit"})
<1>1. MainOK(main)
  BY DEF TypeInv
<1>2. /\ RemoveArtifactManifest => MainMoves("unseal", {"activate"})
      /\ SetRunning => MainMoves("activate", {"plan"})
      /\ Wait => MainMoves("wait", {"collect"})
      /\ WaitDone => MainMoves("wait", {"finish"})
      /\ Interrupt => MainMoves("wait", {"drain"})
  BY <1>1 DEF RemoveArtifactManifest, SetRunning, Wait, WaitDone, Interrupt, At, MainMoves, MainOK
<1>3. PlanWork => MainMoves("plan", {"wait"})
  BY <1>1 DEF PlanWork, At, MainMoves, MainOK
<1>4. \A i \in Item : Collect(i) => MainMoves("collect", {"checkpoint", "refill"})
  BY <1>1 DEF Collect, At, MainMoves, MainOK
<1>5. \A i \in Item : CollectException(i) => MainMoves("collect", {"drain"})
  BY <1>1 DEF CollectException, At, MainMoves, MainOK
<1>6. /\ IntervalCheckpoint => MainMoves("checkpoint", {"refill"})
      /\ FinalCheckpoint => MainMoves("finish", {"verdict"})
      /\ SkipFinalCheckpoint => MainMoves("finish", {"verdict"})
  BY <1>1 DEF IntervalCheckpoint, FinalCheckpoint, SkipFinalCheckpoint, WriteCheckpoint, At,
              MainMoves, MainOK
<1>7. Refill => MainMoves("refill", {"wait", "collect"})
  BY <1>1 DEF Refill, At, MainMoves, MainOK
<1>8. StopScheduling => MainMoves("refill", {"wait", "collect"})
  BY <1>1 DEF StopScheduling, At, MainMoves, MainOK
<1>9. /\ HandleException => MainMoves("drain", {"interrupted", "exit"})
      /\ InterruptedEvent => MainMoves("interrupted", {"exit"})
      /\ Verdict => MainMoves("verdict", {"report"})
      /\ ReportsGenerated => MainMoves("report", {"seal"})
      /\ ReportsFailed => MainMoves("report", {"exit"})
      /\ WriteArtifactManifest => MainMoves("seal", {"exit"})
  BY <1>1 DEF HandleException, InterruptedEvent, Verdict, ReportsGenerated, ReportsFailed,
              WriteArtifactManifest, At, MainMoves, MainOK
<1>10. QED
  BY <1>2, <1>3, <1>4, <1>5, <1>6, <1>7, <1>8, <1>9

LEMMA ExecutingParent ==
  ASSUME TypeInv, (Executing /\ ~ Exit) \/ Interrupt
  PROVE  /\ Live /\ Live' /\ (main'.pc \in Late => main.pc \in Late \/ SetRunning)
         /\ \/ UNCHANGED <<mem, disk, lock>>
            \/ Modest
            \/ disk' = disk /\ \E st \in Status : SetStatus(st)
            \/ WriteCheckpoint("refill") /\ main.pc = "checkpoint"
            \/ WriteCheckpoint("verdict") /\ main.pc = "finish"
<1>1. Live /\ Live' /\ (main'.pc \in Late => main.pc \in Late \/ SetRunning)
  BY ExecutingMoves DEF Executing, MainMoves, Live, Late
<1>2. \/ UNCHANGED <<mem, disk, lock>>
      \/ IntervalCheckpoint \/ FinalCheckpoint \/ InterruptedEvent
      \/ SetRunning \/ HandleException \/ Verdict \/ ReportsFailed
  BY DEF Executing, Interrupt, RemoveArtifactManifest, PlanWork, Wait, WaitDone, Collect,
         CollectException, Refill, StopScheduling, SkipFinalCheckpoint, ReportsGenerated,
         WriteArtifactManifest
<1>3. IntervalCheckpoint => WriteCheckpoint("refill") /\ main.pc = "checkpoint"
  BY DEF IntervalCheckpoint, At
<1>4. FinalCheckpoint => WriteCheckpoint("verdict") /\ main.pc = "finish"
  BY DEF FinalCheckpoint, At
<1>5. InterruptedEvent => Modest
  BY ModestUpdates DEF InterruptedEvent
<1>6. SetRunning \/ HandleException \/ Verdict \/ ReportsFailed
        => disk' = disk /\ \E st \in Status : SetStatus(st)
  BY DEF SetRunning, HandleException, Verdict, ReportsFailed, FinalStatus, Status
<1>7. QED
  BY <1>1, <1>2, <1>3, <1>4, <1>5, <1>6

(* The main thread of resume.                                              *)
ResumePc == {"reconcile", "reconciled", "validate", "settle", "settled"}

LEMMA ResumingMoves ==
  ASSUME TypeInv, Resuming
  PROVE  \E pc \in ResumePc : MainMoves(pc, ResumePc \cup {"unseal"})
<1>1. MainOK(main)
  BY DEF TypeInv
<1>2. \A c : ReconcileChild(c) => MainMoves("reconcile", {"reconciled"})
  BY <1>1 DEF ReconcileChild, At, MainMoves, MainOK
<1>3. /\ ReconcileEvent => MainMoves("reconciled", {"reconcile"})
      /\ ReconcileDone => MainMoves("reconcile", {"validate"})
      /\ SettleEvent => MainMoves("settled", {"settle"})
      /\ SettleDone => MainMoves("settle", {"unseal"})
  BY <1>1 DEF ReconcileEvent, ReconcileDone, SettleEvent, SettleDone, At, MainMoves, MainOK
<1>4. \A i : ReuseChild(i) \/ DowngradeChild(i) \/ SkipItem(i) => MainMoves("validate", {"validate"})
  BY <1>1, MainPcStep DEF ReuseChild, DowngradeChild, SkipItem, Visit, At, MainMoves
<1>5. ValidateDone => MainMoves("validate", {"settle", "unseal"})
  BY <1>1 DEF ValidateDone, Visit, At, MainMoves, MainOK
<1>6. \A a : SettleMissing(a) => MainMoves("settle", {"settled"})
  BY <1>1 DEF SettleMissing, At, MainMoves, MainOK
<1>7. \A a : SettlePreserved(a) => MainMoves("settle", {"settle"})
  BY <1>1 DEF SettlePreserved, At, MainMoves, MainOK
<1>8. QED
  BY <1>2, <1>3, <1>4, <1>5, <1>6, <1>7 DEF Resuming, MainMoves, ResumePc

LEMMA ResumingParent ==
  ASSUME TypeInv, Resuming
  PROVE  /\ UNCHANGED <<disk, sealed, root, run>>
         /\ mem'.checkpoints = mem.checkpoints
<1>1. mem \in Parent
  BY DEF TypeInv, ParentOK
<1>2. /\ \A r : IndexedParent(r).checkpoints = mem.checkpoints
      /\ \A q, r : ReplacedParent(q, r).checkpoints = mem.checkpoints
      /\ \A t, e : Event(t, e) => mem'.checkpoints = mem.checkpoints
  BY <1>1 DEF IndexedParent, ReplacedParent, Event, Locked, Parent
<1>3. /\ \A t, r, d : Locked(t, IndexedParent(r), d) => mem'.checkpoints = mem.checkpoints
      /\ \A t, q, r, d : Locked(t, ReplacedParent(q, r), d) => mem'.checkpoints = mem.checkpoints
  BY <1>2 DEF Locked
<1>4. CASE (\E c \in children : ReconcileChild(c)) \/ ReconcileEvent \/ ReconcileDone
  BY <1>2, <1>3, <1>4 DEF ReconcileChild, ReconcileEvent, ReconcileDone
<1>5. CASE (\E i \in Item : ReuseChild(i) \/ DowngradeChild(i) \/ SkipItem(i)) \/ ValidateDone
  BY <1>2, <1>3, <1>5 DEF ReuseChild, DowngradeChild, SkipItem, ValidateDone
<1>6. CASE (\E a \in mem.ledger : SettleMissing(a) \/ SettlePreserved(a)) \/ SettleEvent \/ SettleDone
  BY <1>2, <1>3, <1>6 DEF SettleMissing, SettlePreserved, SettleEvent, SettleDone
<1>7. QED
  BY <1>4, <1>5, <1>6 DEF Resuming

LEMMA AgreeKept ==
  ASSUME AgreeInv, Live' => Live, main'.pc \in Late => main.pc \in Late,
         UNCHANGED <<mem, disk, lock>> \/ Modest
  PROVE  AgreeInv'
<1>1. CASE UNCHANGED <<mem, disk, lock>>
  BY <1>1 DEF AgreeInv, Live
<1>2. CASE Modest
  <2>1. lock' # Free /\ lock.dumps # <<"manifest", "state">>
    BY <1>2 DEF Modest, Free, IndexFirst
  <2>2. QED
    BY <1>2, <2>1 DEF AgreeInv, Modest, Live
<1>3. QED
  BY <1>1, <1>2

LEMMA AgreeDump ==
  ASSUME TypeInv, Threads, AgreeInv, Dump
  PROVE  AgreeInv'
<1>1. /\ disk \in Parent /\ lock.dumps \in OtherFiles \cup {IndexFirst}
      /\ lock \in [holder : Item \cup {Main, Nobody}, dumps : Seq(DumpedFile)]
  BY DEF TypeInv, ParentOK, LockOK, Dump, Threads, LockInv, Free
<1>2. /\ Head(<<"state">>) = "state" /\ Tail(<<"state">>) = <<>>
      /\ Head(IndexFirst) = "index" /\ Tail(IndexFirst) = <<"state">>
      /\ Head(<<"events", "state">>) = "events" /\ Tail(<<"events", "state">>) = <<"state">>
      /\ Head(<<"manifest", "state">>) = "manifest" /\ Tail(<<"manifest", "state">>) = <<"state">>
  BY DEF IndexFirst
<1>3. /\ <<"state">> # <<>> /\ <<"state">> # <<"manifest", "state">> /\ Free.dumps = <<>>
      /\ <<>> # <<"manifest", "state">> /\ <<"events", "state">> # <<"manifest", "state">>
      /\ IndexFirst # <<"manifest", "state">>
  BY DEF Free, IndexFirst
<1>4. UNCHANGED <<main, mem>>
  BY DEF Dump
<1>5. CASE lock.dumps = <<"state">>
  <2>1. lock' = Free
    BY <1>2, <1>5 DEF Dump
  <2>2. disk' = [disk EXCEPT !["state"] = mem["state"]]
    BY <1>2, <1>5 DEF Dump
  <2>3. disk'.state = mem.state /\ disk'.manifest = disk.manifest /\ disk'.checkpoints = disk.checkpoints
    BY <1>1, <2>2 DEF Parent
  <2>4. QED
    BY <1>3, <1>4, <1>5, <2>1, <2>3 DEF AgreeInv, Live
<1>6. ASSUME Tail(lock.dumps) = <<"state">>
      PROVE  lock'.dumps = <<"state">> /\ lock' # Free
  <2>1. lock' = [lock EXCEPT !.dumps = <<"state">>]
    BY <1>3, <1>6 DEF Dump
  <2>2. QED
    BY <1>1, <1>3, <2>1
<1>7. CASE lock.dumps = <<"manifest", "state">>
  <2>1. disk' = [disk EXCEPT !["manifest"] = mem["manifest"]]
    BY <1>2, <1>7 DEF Dump
  <2>2. disk'.manifest = mem.manifest /\ disk'.checkpoints = disk.checkpoints
    BY <1>1, <2>1 DEF Parent
  <2>3. QED
    BY <1>2, <1>4, <1>6, <1>7, <2>2 DEF AgreeInv, Live
<1>8. CASE lock.dumps \in {IndexFirst, <<"events", "state">>}
  <2>1. Head(lock.dumps) \in {"index", "events"} /\ Tail(lock.dumps) = <<"state">>
    BY <1>2, <1>8
  <2>2. disk' = [disk EXCEPT ![Head(lock.dumps)] = mem[Head(lock.dumps)]]
    BY DEF Dump
  <2>3. disk'.manifest = disk.manifest /\ disk'.checkpoints = disk.checkpoints
    BY <1>1, <2>1, <2>2 DEF Parent
  <2>4. QED
    BY <1>3, <1>4, <1>6, <1>8, <2>1, <2>3 DEF AgreeInv, Live
<1>9. QED
  BY <1>1, <1>5, <1>7, <1>8 DEF OtherFiles

LEMMA AgreeExecuting ==
  ASSUME TypeInv, AgreeInv, (Executing /\ ~ Exit) \/ Interrupt
  PROVE  AgreeInv'
<1>1. mem \in Parent /\ disk \in Parent /\ mem.state \in State
  BY DEF TypeInv, ParentOK, Parent
<1>2. ASSUME NEW st \in Status, SetStatus(st), disk' = disk
      PROVE  AgreeInv'
  <2> DEFINE p == [mem EXCEPT !.manifest = st, !.state.status = st, !.state.active = 0]
  <2>1. p.manifest = st /\ p.state.status = st /\ p.checkpoints = mem.checkpoints
    BY <1>1 DEF Parent, State
  <2>2. mem' = p /\ lock'.dumps = <<"manifest", "state">>
    BY <1>2 DEF SetStatus, Locked
  <2>3. lock' # Free
    BY <2>2 DEF Free
  <2>4. Live
    BY ExecutingParent
  <2>5. QED
    BY <1>2, <2>1, <2>2, <2>3, <2>4 DEF AgreeInv
<1>3. ASSUME NEW pc, WriteCheckpoint(pc), ~ SetRunning
      PROVE  AgreeInv'
  <2>1. /\ mem'.checkpoints = Append(mem.checkpoints, mem.state.terminal)
        /\ disk'.checkpoints = Append(disk.checkpoints, mem.state.terminal)
        /\ mem'.state = mem.state /\ mem'.manifest = mem.manifest
        /\ disk'.state = disk.state /\ disk'.manifest = disk.manifest /\ lock' = lock
    BY <1>1, <1>3 DEF WriteCheckpoint, Parent
  <2>2. QED
    BY <1>3, <2>1, ExecutingParent DEF AgreeInv
<1>4. WriteCheckpoint("refill") \/ WriteCheckpoint("verdict") => ~ SetRunning
  BY DEF WriteCheckpoint, SetRunning, SetStatus, Locked, Free
<1>5. CASE UNCHANGED <<mem, disk, lock>> \/ Modest
  <2>1. ~ SetRunning
    <3>1. SetRunning => lock = Free /\ lock'.dumps = <<"manifest", "state">>
      BY DEF SetRunning, SetStatus, Locked
    <3>2. /\ <<"manifest", "state">> # IndexFirst /\ <<"manifest", "state">> # <<"state">>
          /\ <<"manifest", "state">> # <<"events", "state">> /\ <<"manifest", "state">> # <<>>
      BY DEF IndexFirst
    <3>3. Free.dumps = <<>>
      BY DEF Free
    <3>4. QED
      BY <1>5, <3>1, <3>2, <3>3 DEF Modest
  <2>2. QED
    BY <1>5, <2>1, ExecutingParent, AgreeKept
<1>6. QED
  BY <1>2, <1>3, <1>4, <1>5, ExecutingParent

LEMMA AgreeNext ==
  ASSUME TypeInv, LedgerInv, IndexInv, AgreeInv, [Next]_vars
  PROVE  AgreeInv'
<1>1. mem \in Parent /\ disk \in Parent /\ Threads
  BY DEF TypeInv, ParentOK, IndexInv
<1>2. CASE Run \/ Prepare \/ Crash \/ Exit
  BY <1>2 DEF Run, Prepare, Crash, Exit, Gone, IdleMain, AgreeInv, Live, Late, At, TypeInv, MainOK
<1>3. CASE Resume
  <2>1. mem'.checkpoints = disk'.checkpoints /\ main'.pc = "reconcile"
    BY <1>1, <1>3 DEF Resume, Parent, TypeInv, MainOK
  <2>2. QED
    BY <2>1 DEF AgreeInv, Late
<1>4. CASE Initialize
  BY <1>4 DEF Initialize, AgreeInv, Late, TypeInv, MainOK
<1>5. CASE Execute \/ (\E c \in children : DamageChild(c)) \/ UNCHANGED vars
  BY <1>5 DEF Execute, DamageChild, vars, AgreeInv, Live, Late, At, TypeInv, MainOK
<1>6. CASE Dump
  BY <1>1, <1>6, AgreeDump
<1>7. CASE Resuming
  <2>1. Live /\ main'.pc \notin Late /\ mem'.checkpoints = mem.checkpoints /\ disk' = disk
    BY <1>7, ResumingParent, ResumingMoves DEF Late, Live, MainMoves, ResumePc
  <2>2. QED
    BY <2>1 DEF AgreeInv
<1>8. CASE (Executing /\ ~ Exit) \/ Interrupt
  BY <1>8, AgreeExecuting
<1>9. ASSUME NEW i \in Item, RunItem(i)
      PROVE  AgreeInv'
  BY <1>9, WorkerModest, WorkerSteps, AgreeKept DEF Live
<1>10. QED
  BY <1>2, <1>3, <1>4, <1>5, <1>6, <1>7, <1>8, <1>9 DEF Next, ControllerStep

-----------------------------------------------------------------------------
(* The seal                                                                *)

Unsealed == {"initialize", "initialized", "activate", "plan", "wait", "collect", "checkpoint",
             "refill", "drain", "interrupted", "finish", "verdict", "report", "seal"}
Over == {"finish", "verdict", "report", "seal"}

(* While the controller works there is no artifact manifest; where it      *)
(* writes one, and after that, no worker is left and nobody holds the lock.*)
SealInv ==
  /\ (root # "ready" \/ main.pc \in Unsealed) => sealed = "absent"
  /\ main.pc \in Over => Futures = {}
  /\ (sealed # "absent" /\ main.pc = "exit") => (lock = Free /\ Futures = {})

LEMMA WorkersAreFutures ==
  ASSUME TypeInv, Threads, SealInv, NEW i \in Item, RunItem(i)
  PROVE  sealed = "absent" /\ main.pc \notin Over
<1>1. i \in Futures
  BY WorkerSteps DEF Futures
<1>2. main.pc \notin Early /\ main.pc \notin Over
  BY <1>1 DEF Threads, PoolInv, Futures, SealInv
<1>3. main.pc \in Unsealed \/ main.pc = "exit"
  BY <1>2 DEF TypeInv, MainOK, MainPc, Early, Over, Unsealed
<1>4. QED
  BY <1>1, <1>2, <1>3 DEF SealInv

(* A fresh manifest is the one just written, or nothing has changed.       *)
LEMMA FreshSteps ==
  ASSUME TypeInv, LedgerInv, Threads, SealInv, [Next]_vars, sealed' = "fresh"
  PROVE  WriteArtifactManifest \/ (sealed = "fresh" /\ disk' = disk)
<1>1. Touched # "fresh"
  BY DEF Touched
<1>2. CASE Run \/ Resume \/ Execute \/ Prepare \/ Crash \/ Exit
  BY <1>2 DEF Run, Resume, Execute, Prepare, Crash, Exit, Gone
<1>3. CASE Initialize
  BY <1>3 DEF Initialize, At, LedgerInv, SealInv
<1>4. CASE Dump
  BY <1>1, <1>4 DEF Dump
<1>5. CASE Resuming
  BY <1>5, ResumingParent
<1>6. CASE (Executing /\ ~ Exit) \/ Interrupt
  BY <1>1, <1>6
     DEF Executing, Interrupt, RemoveArtifactManifest, SetRunning, PlanWork, Wait, WaitDone, Collect,
         CollectException, IntervalCheckpoint, Refill, StopScheduling, HandleException,
         InterruptedEvent, FinalCheckpoint, SkipFinalCheckpoint, Verdict, ReportsGenerated,
         ReportsFailed, WriteCheckpoint
<1>7. ASSUME NEW i \in Item, RunItem(i)
      PROVE  FALSE
  BY <1>7, WorkersAreFutures, WorkerSteps
<1>8. CASE (\E c \in children : DamageChild(c)) \/ UNCHANGED vars
  BY <1>8 DEF DamageChild, vars
<1>9. QED
  BY <1>2, <1>3, <1>4, <1>5, <1>6, <1>7, <1>8 DEF Next, ControllerStep

LEMMA SealExecuting ==
  ASSUME TypeInv, LedgerInv, Threads, SealInv, (Executing /\ ~ Exit) \/ Interrupt
  PROVE  SealInv'
<1>1. root = "ready" /\ root' = root
  BY PlainExecuting, ExecutingParent DEF LedgerInv
<1>2. CASE RemoveArtifactManifest
  BY <1>1, <1>2, ExecutingMoves DEF RemoveArtifactManifest, SealInv, MainMoves, Over
<1>3. CASE WriteArtifactManifest
  <2>1. sealed' = "fresh" /\ lock' = Free /\ run' = run /\ Futures = {} /\ main'.pc = "exit"
    BY <1>3, ExecutingMoves DEF WriteArtifactManifest, SealInv, MainMoves, Over
  <2>2. Futures' = {}
    BY <2>1 DEF Futures
  <2>3. QED
    BY <1>1, <2>1, <2>2 DEF SealInv, Over, Unsealed
<1>4. CASE ~ RemoveArtifactManifest /\ ~ WriteArtifactManifest
  <2>1. main.pc \in Unsealed
    BY <1>4, ExecutingMoves DEF Executing, MainMoves, Unsealed
  <2>2. sealed = "absent" /\ sealed' = "absent"
    BY <1>4, <2>1
       DEF Executing, Interrupt, SetRunning, PlanWork, Wait, WaitDone, Collect, Touched,
           CollectException, IntervalCheckpoint, Refill, StopScheduling, HandleException,
           InterruptedEvent, FinalCheckpoint, SkipFinalCheckpoint, Verdict, ReportsGenerated,
           ReportsFailed, WriteCheckpoint, SealInv
  <2>3. main'.pc \in Over => run' = run /\ Futures = {}
    BY <1>4, ExecutingMoves
       DEF Executing, MainMoves, Over, WaitDone, FinalCheckpoint, SkipFinalCheckpoint, Verdict,
           ReportsGenerated, WriteCheckpoint, SealInv
  <2>4. QED
    BY <1>1, <2>2, <2>3 DEF SealInv, Futures
<1>5. QED
  BY <1>2, <1>3, <1>4

LEMMA SealNext ==
  ASSUME TypeInv, LedgerInv, IndexInv, SealInv, [Next]_vars
  PROVE  SealInv'
<1>1. Threads /\ MainOK(main)
  BY DEF TypeInv, IndexInv
<1>2. CASE Run
  BY <1>1, <1>2 DEF Run, At, SealInv, MainOK, Over
<1>3. CASE Resume
  BY <1>1, <1>3 DEF Resume, At, SealInv, MainOK, Unsealed, Over
<1>4. CASE Initialize \/ Execute
  BY <1>1, <1>4 DEF Initialize, Execute, At, SealInv, LedgerInv, MainOK, Unsealed, Over
<1>5. CASE Prepare \/ Crash \/ Exit
  BY <1>5 DEF Prepare, Crash, Exit, Gone, IdleMain, SealInv, Unsealed, Over
<1>6. CASE Dump
  <2>1. lock # Free /\ sealed' \in {sealed, "stale"} /\ (sealed = "absent" => sealed' = "absent")
    BY <1>6 DEF Dump, Touched, Free
  <2>2. QED
    BY <1>6, <2>1 DEF Dump, SealInv, Futures
<1>7. CASE Resuming
  BY <1>7, ResumingParent, ResumingMoves DEF SealInv, MainMoves, ResumePc, Unsealed, Over
<1>8. CASE (Executing /\ ~ Exit) \/ Interrupt
  BY <1>1, <1>8, SealExecuting
<1>9. ASSUME NEW i \in Item, RunItem(i)
      PROVE  SealInv'
  BY <1>1, <1>9, WorkersAreFutures, WorkerSteps DEF SealInv
<1>10. CASE (\E c \in children : DamageChild(c)) \/ UNCHANGED vars
  BY <1>10 DEF DamageChild, vars, SealInv, Futures
<1>11. QED
  BY <1>2, <1>3, <1>4, <1>5, <1>6, <1>7, <1>8, <1>9, <1>10 DEF Next, ControllerStep

-----------------------------------------------------------------------------
(* Checkpoints                                                             *)

(* From the final checkpoint to the seal, the last one is current.         *)
FinalPointInv ==
  (main.pc \in {"verdict", "report", "seal"} /\ CheckpointInterval # NoLimit) =>
    LastCheckpoint(mem.checkpoints) = {mem.state.terminal}
PointsInv == CheckpointsTrackTheIndex /\ FinalPointInv

(* A history is at least as long as what it continues.                     *)
LEMMA HistoryGrows ==
  ASSUME NEW ix, NEW jx, IsFiniteSet(ix), IsFiniteSet(jx), Distinct(ix), Distinct(jx),
         History(ix, jx)
  PROVE  Cardinality(ix) <= Cardinality(jx) /\ Cardinality(ix) \in Nat /\ Cardinality(jx) \in Nat
<1> DEFINE heir(r) == CHOOSE q \in jx : q.item = r.item /\ q.attempt = r.attempt
           f == [r \in ix |-> heir(r)]
<1>1. \A r \in ix : heir(r) \in jx /\ heir(r).item = r.item /\ heir(r).attempt = r.attempt
  BY DEF History
<1> HIDE DEF heir
<1>2. f \in [ix -> jx] /\ \A q, r \in ix : f[q] = f[r] => q = r
  BY <1>1 DEF Distinct
<1>3. f \in Injection(ix, jx)
  BY <1>2 DEF Injection, IsInjective
<1>4. QED
  BY <1>3, FS_Injection, FS_CardinalityType DEF ExistsInjection

LEMMA LastOfAppended ==
  ASSUME NEW s \in Seq(Nat), NEW n \in Nat
  PROVE  LastCheckpoint(Append(s, n)) = {n}
<1> DEFINE t == Append(s, n)
<1>1. Len(t) = Len(s) + 1 /\ t[Len(t)] = n /\ DOMAIN t = 1 .. Len(t) /\ Len(t) \in Nat
  OBVIOUS
<1> HIDE DEF t
<1>2. {j \in DOMAIN t : j = Len(t)} = {Len(t)}
  BY <1>1, AppendProperties DEF t
<1>3. QED
  BY <1>1, <1>2 DEF LastCheckpoint, t

(* What happens to the checkpoints on disk.                                *)
LEMMA CheckpointSteps ==
  ASSUME TypeInv, LedgerInv, IndexInv, [Next]_vars
  PROVE  \/ disk'.checkpoints = disk.checkpoints
         \/ (Executing /\ ~ Exit) /\ \E pc : WriteCheckpoint(pc)
<1>1. disk \in Parent /\ Threads /\ FilesInv
  BY DEF TypeInv, ParentOK, IndexInv
<1>2. CASE Run \/ Resume \/ Execute \/ Prepare \/ Crash \/ Exit
  BY <1>2 DEF Run, Resume, Execute, Prepare, Crash, Exit, Gone
<1>3. CASE Initialize
  BY <1>1, <1>3 DEF Initialize, At, LedgerInv, FilesInv
<1>4. CASE Dump
  <2>1. lock.dumps \in OtherFiles \cup {IndexFirst}
    BY <1>1, <1>4 DEF Dump, Threads, LockInv, Free
  <2>2. Head(lock.dumps) \in {"state", "events", "manifest", "index"}
    BY <2>1 DEF OtherFiles, IndexFirst
  <2>3. disk' = [disk EXCEPT ![Head(lock.dumps)] = mem[Head(lock.dumps)]]
    BY <1>4 DEF Dump
  <2>4. QED
    BY <1>1, <2>2, <2>3 DEF Parent
<1>5. CASE Resuming
  BY <1>5, ResumingParent
<1>6. CASE (Executing /\ ~ Exit) \/ Interrupt
  <2>1. Modest => disk'.checkpoints = disk.checkpoints
    BY DEF Modest
  <2>2. Interrupt => disk' = disk
    BY DEF Interrupt
  <2>3. QED
    BY <1>6, <2>1, <2>2, ExecutingParent
<1>7. ASSUME NEW i \in Item, RunItem(i)
      PROVE  disk'.checkpoints = disk.checkpoints
  BY <1>7, WorkerModest DEF Modest
<1>8. CASE (\E c \in children : DamageChild(c)) \/ UNCHANGED vars
  BY <1>8 DEF DamageChild, vars
<1>9. QED
  BY <1>2, <1>3, <1>4, <1>5, <1>6, <1>7, <1>8 DEF Next, ControllerStep

LEMMA DiskHistory ==
  ASSUME TypeInv, LedgerInv, IndexInv, [Next]_vars
  PROVE  /\ History(disk.index, disk'.index)
         /\ Cardinality(disk.index) <= Cardinality(disk'.index)
         /\ Cardinality(disk.index) \in Nat /\ Cardinality(disk'.index) \in Nat
<1>1. TypeInv' /\ IndexInv'
  BY TypeInvNext, IndexNext
<1>2. History(disk.index, disk'.index)
  <2>1. CASE disk'.index = disk.index
    BY <2>1, SameHistory
  <2>2. CASE Initialize
    BY <2>2 DEF Initialize, At, LedgerInv, IndexInv, FilesInv, NewParent, History
  <2>3. CASE Dump
    BY <2>3, DumpStep DEF IndexInv
  <2>4. QED
    BY <2>1, <2>2, <2>3, DiskIndexSteps
<1>3. /\ IsFiniteSet(disk.index) /\ IsFiniteSet(disk'.index)
      /\ Distinct(disk.index) /\ Distinct(disk'.index)
  BY <1>1 DEF TypeInv, ParentOK, IndexInv, FilesInv, Numbered
<1>4. QED
  BY <1>2, <1>3, HistoryGrows

(* A checkpoint is written while nobody holds the lock: it counts the run  *)
(* index on disk.                                                          *)
LEMMA CheckpointCounts ==
  ASSUME TypeInv, IndexInv, CountersInv, (Executing /\ ~ Exit) \/ Interrupt, NEW pc,
         WriteCheckpoint(pc)
  PROVE  /\ disk'.checkpoints = Append(disk.checkpoints, Cardinality(disk.index))
         /\ mem'.checkpoints = Append(mem.checkpoints, mem.state.terminal)
         /\ mem'.state = mem.state /\ disk'.index = disk.index /\ sealed' # "fresh"
<1>1. mem \in Parent /\ disk \in Parent /\ Live
  BY ExecutingParent DEF TypeInv, ParentOK
<1>2. lock.dumps # IndexFirst
  BY DumpOrder DEF WriteCheckpoint
<1>3. mem.state.terminal = Cardinality(disk.index)
  BY <1>1, <1>2 DEF IndexInv, FilesInv, CountersInv, Counted
<1>4. QED
  BY <1>1, <1>3 DEF WriteCheckpoint, Parent, Touched

LEMMA PointsOnDisk ==
  ASSUME TypeInv, LedgerInv, IndexInv, CountersInv, AgreeInv, SealInv, PointsInv, [Next]_vars
  PROVE  CheckpointsTrackTheIndex'
<1>1. disk \in Parent /\ disk.checkpoints \in Seq(Nat)
  BY DEF TypeInv, ParentOK, Parent
<1>2. /\ \A k \in DOMAIN disk.checkpoints : disk.checkpoints[k] <= Cardinality(disk.index)
      /\ \A k \in 1 .. Len(disk.checkpoints) - 1 : disk.checkpoints[k] <= disk.checkpoints[k + 1]
      /\ (sealed = "fresh" /\ CheckpointInterval # NoLimit) =>
           LastCheckpoint(disk.checkpoints) = {disk.state.terminal}
  BY DEF PointsInv, CheckpointsTrackTheIndex
<1>3. /\ Cardinality(disk.index) <= Cardinality(disk'.index)
      /\ Cardinality(disk.index) \in Nat /\ Cardinality(disk'.index) \in Nat
  BY DiskHistory
<1>4. CASE disk'.checkpoints = disk.checkpoints
  <2>1. \A k \in DOMAIN disk.checkpoints : disk.checkpoints[k] <= Cardinality(disk'.index)
    BY <1>1, <1>2, <1>3
  <2>2. ASSUME sealed' = "fresh", CheckpointInterval # NoLimit
        PROVE  LastCheckpoint(disk'.checkpoints) = {disk'.state.terminal}
    <3>1. CASE WriteArtifactManifest
      <4>1. main.pc = "seal" /\ lock = Free /\ disk' = disk
        BY <3>1 DEF WriteArtifactManifest, At
      <4>2. disk.state = mem.state /\ disk.checkpoints = mem.checkpoints
        BY <4>1 DEF AgreeInv, Live, Late
      <4>3. QED
        BY <2>2, <4>1, <4>2 DEF PointsInv, FinalPointInv
    <3>2. CASE sealed = "fresh" /\ disk' = disk
      BY <1>2, <2>2, <3>2
    <3>3. QED
      BY <2>2, <3>1, <3>2, FreshSteps DEF IndexInv
  <2>3. QED
    BY <1>2, <1>4, <2>1, <2>2 DEF CheckpointsTrackTheIndex
<1>5. ASSUME NEW pc, Executing /\ ~ Exit, WriteCheckpoint(pc)
      PROVE  CheckpointsTrackTheIndex'
  <2> DEFINE s == disk.checkpoints
             n == Cardinality(disk.index)
             t == Append(s, n)
  <2>1. disk'.checkpoints = t /\ disk'.index = disk.index /\ sealed' # "fresh"
    BY <1>5, CheckpointCounts
  <2>2. n \in Nat /\ s \in Seq(Nat)
    BY <1>1, <1>3
  <2>3. /\ \A k \in 1 .. Len(s) : s[k] <= n /\ s[k] \in Nat
        /\ \A k \in 1 .. Len(s) - 1 : s[k] <= s[k + 1]
    BY <1>1, <1>2
  <2> HIDE DEF s, n
  <2>4. /\ DOMAIN t = 1 .. Len(s) + 1 /\ Len(t) = Len(s) + 1 /\ t[Len(s) + 1] = n /\ Len(s) \in Nat
        /\ \A k \in 1 .. Len(s) : t[k] = s[k]
    BY <2>2
  <2> HIDE DEF t
  <2>5. \A k \in DOMAIN t : t[k] <= n
    <3>1. TAKE k \in DOMAIN t
    <3>2. k \in 1 .. Len(s) \/ k = Len(s) + 1
      BY <2>4
    <3>3. CASE k \in 1 .. Len(s)
      BY <2>3, <2>4, <3>3
    <3>4. CASE k = Len(s) + 1
      <4>1. t[k] = n
        BY <2>4, <3>4
      <4>2. QED
        BY <2>2, <4>1
    <3>5. QED
      BY <3>2, <3>3, <3>4
  <2>6. \A k \in 1 .. Len(t) - 1 : t[k] <= t[k + 1]
    <3>1. SUFFICES ASSUME NEW k \in 1 .. Len(s)
                   PROVE  t[k] <= t[k + 1]
      BY <2>4
    <3>2. CASE k = Len(s)
      BY <2>3, <2>4, <3>2
    <3>3. CASE k # Len(s)
      <4>1. k \in 1 .. Len(s) - 1 /\ k + 1 \in 1 .. Len(s)
        BY <2>4, <3>3
      <4>2. QED
        BY <2>3, <2>4, <4>1
    <3>4. QED
      BY <3>2, <3>3
  <2>7. QED
    BY <2>1, <2>5, <2>6 DEF CheckpointsTrackTheIndex, n
<1>6. QED
  BY <1>4, <1>5, CheckpointSteps

LEMMA PointsNext ==
  ASSUME TypeInv, LedgerInv, IndexInv, CountersInv, AgreeInv, SealInv, PointsInv, [Next]_vars
  PROVE  PointsInv'
<1> SUFFICES FinalPointInv'
  BY PointsOnDisk DEF PointsInv
<1>1. FinalPointInv
  BY DEF PointsInv
<1>2. mem \in Parent /\ mem.state \in State /\ mem.checkpoints \in Seq(Nat)
      /\ mem.state.terminal \in Nat /\ MainOK(main) /\ Threads
  BY StateFields DEF TypeInv, ParentOK, Parent, IndexInv
<1>3. CASE Run \/ Resume \/ Initialize \/ Execute \/ Prepare \/ Crash \/ Exit
  BY <1>2, <1>3 DEF Run, Resume, Initialize, Execute, Prepare, Crash, Exit, Gone, IdleMain, MainOK,
                    FinalPointInv
<1>4. CASE Dump \/ (\E c \in children : DamageChild(c)) \/ UNCHANGED vars
  BY <1>1, <1>4 DEF Dump, DamageChild, vars, FinalPointInv
<1>5. CASE Resuming
  BY <1>5, ResumingMoves DEF MainMoves, ResumePc, FinalPointInv
<1>6. CASE (Executing /\ ~ Exit) \/ Interrupt
  <2>1. CASE FinalCheckpoint
    <3>1. mem'.checkpoints = Append(mem.checkpoints, mem.state.terminal) /\ mem'.state = mem.state
      BY <1>6, <2>1, CheckpointCounts DEF FinalCheckpoint
    <3>2. QED
      BY <1>2, <3>1, LastOfAppended DEF FinalPointInv
  <2>2. CASE SkipFinalCheckpoint
    BY <2>2 DEF SkipFinalCheckpoint, FinalCheckpointDue, FinalPointInv
  <2>3. CASE Verdict
    <3>1. /\ main.pc \in {"verdict", "report", "seal"}
          /\ mem' = [mem EXCEPT !.manifest = FinalStatus, !.state.status = FinalStatus,
                                !.state.active = 0]
      BY <2>3 DEF Verdict, At, SetStatus, Locked
    <3>2. mem'.checkpoints = mem.checkpoints /\ mem'.state.terminal = mem.state.terminal
      BY <1>2, <3>1 DEF Parent, State
    <3>3. QED
      BY <1>1, <3>1, <3>2 DEF FinalPointInv
  <2>4. CASE ReportsGenerated
    BY <1>1, <2>4 DEF ReportsGenerated, At, FinalPointInv
  <2>5. CASE ~ (FinalCheckpoint \/ SkipFinalCheckpoint \/ Verdict \/ ReportsGenerated)
    <3>1. main'.pc \notin {"verdict", "report", "seal"}
      BY <1>6, <2>5, ExecutingMoves DEF Executing, MainMoves
    <3>2. QED
      BY <3>1 DEF FinalPointInv
  <2>6. QED
    BY <2>1, <2>2, <2>3, <2>4, <2>5
<1>7. ASSUME NEW i \in Item, RunItem(i)
      PROVE  FinalPointInv'
  BY <1>2, <1>7, WorkersAreFutures, WorkerSteps DEF Over, FinalPointInv
<1>8. QED
  BY <1>3, <1>4, <1>5, <1>6, <1>7 DEF Next, ControllerStep

(* Memory and files agree, nothing works on a sealed experiment, and its   *)
(* checkpoints follow the index, in every reachable state.                 *)
THEOREM PointsInvariance == Spec => [](AgreeInv /\ SealInv /\ PointsInv)
<1>1. Init => AgreeInv /\ SealInv /\ PointsInv
  <2>1. SUFFICES ASSUME Init
                 PROVE  AgreeInv /\ SealInv /\ PointsInv
    OBVIOUS
  <2>2. /\ main.pc = "idle" /\ sealed = "absent" /\ disk.checkpoints = <<>>
        /\ mem.checkpoints = <<>>
    BY <2>1 DEF Init, IdleMain, NewParent
  <2>3. AgreeInv /\ SealInv
    BY <2>2 DEF AgreeInv, SealInv, Live, Late, Over
  <2>4. PointsInv
    BY <2>2 DEF PointsInv, FinalPointInv, CheckpointsTrackTheIndex
  <2>5. QED
    BY <2>3, <2>4
<1>2. TypeInv /\ LedgerInv /\ IndexInv /\ CountersInv /\ (AgreeInv /\ SealInv /\ PointsInv) /\ [Next]_vars
        => (AgreeInv /\ SealInv /\ PointsInv)'
  BY AgreeNext, SealNext, PointsNext
<1>3. QED
  BY <1>1, <1>2, TypeInvariance, LedgerInvariance, IndexInvariance, CountersInvariance, PTL DEF Spec

(* Checkpoints count records that really are on disk, never go back over a *)
(* crash and a resume, and the last one of a sealed experiment is current  *)
(* (checkpoint, the final checkpoint of _execute).                         *)
THEOREM CheckpointsAreTrue == Spec => []CheckpointsTrackTheIndex
<1>1. PointsInv => CheckpointsTrackTheIndex
  BY DEF PointsInv
<1>2. QED
  BY <1>1, PointsInvariance, PTL

-----------------------------------------------------------------------------
(* The crew: at most MaxWorkers items are worked on at a time              *)

CrewInv ==
  /\ Cardinality(Futures) <= MaxWorkers
  /\ main.pc \in {"checkpoint", "refill"} => Cardinality(Futures) + 1 <= MaxWorkers
  /\ main.pc \in Early => ~ main.stop /\ main.internals = 0
  /\ main.pc = "wait" => main.pending = {} \/ main.stop \/ Futures # {}
  /\ main.pc \in Over => main.pending = {} \/ main.stop

LEMMA LeastItem ==
  ASSUME NEW S \in SUBSET Nat, S # {}
  PROVE  \E m \in S : \A y \in S : m <= y
<1>1. PICK m \in S : \A k \in S : ~ (<<k, m>> \in OpToRel(<, Nat))
  BY WFMin, NatLessThanWellFounded
<1>2. \A k \in S : ~ (k < m)
  BY <1>1 DEF OpToRel
<1>3. QED
  BY <1>2

(* The window is what max_workers admits, and it is not empty in vain.     *)
LEMMA WindowBounded ==
  ASSUME NEW S \in SUBSET Item
  PROVE  /\ Window(S) \subseteq S /\ Cardinality(Window(S)) <= MaxWorkers
         /\ S # {} => Window(S) # {}
<1>1. MaxWorkers \in Nat /\ MaxWorkers >= 1 /\ N \in Nat
  BY ConfigAssumption
<1>2. Window(S) \subseteq S /\ S \subseteq Nat
  BY DEF Window, Item
<1>3. Cardinality(Window(S)) <= MaxWorkers
  <2>1. CASE Window(S) = {}
    BY <1>1, <2>1, FS_EmptySet
  <2>2. CASE Window(S) # {}
    <3>1. Bounded(Window(S))
      <4>1. \A x \in Window(S) : x <= N
        <5>1. \A x \in Item : x <= N
          BY <1>1 DEF Item
        <5>2. QED
          BY <1>2, <5>1
      <4>2. QED
        BY <1>1, <4>1 DEF Bounded
    <3>2. PICK m \in Window(S) : \A y \in Window(S) : m >= y
      BY <1>2, <2>2, <3>1, MaxOfBounded
    <3>3. /\ Window(S) \subseteq {j \in S : j <= m}
          /\ {j \in S : j <= m} \in SUBSET Item
          /\ Cardinality({j \in S : j <= m}) <= MaxWorkers
      BY <1>2, <3>2 DEF Window
    <3>4. /\ Cardinality(Window(S)) <= Cardinality({j \in S : j <= m})
          /\ Cardinality(Window(S)) \in Nat /\ Cardinality({j \in S : j <= m}) \in Nat
      BY <3>3, ItemsFinite, FS_Subset, FS_CardinalityType
    <3>5. QED
      BY <1>1, <3>3, <3>4
  <2>3. QED
    BY <2>1, <2>2
<1>4. ASSUME S # {}
      PROVE  Window(S) # {}
  <2>1. PICK m \in S : \A y \in S : m <= y
    BY <1>2, <1>4, LeastItem
  <2>2. {j \in S : j <= m} = {m}
    <3>1. \A j \in S : j <= m => j = m
      BY <1>2, <2>1
    <3>2. m \in S /\ m <= m
      BY <1>2, <2>1
    <3>3. QED
      BY <3>1, <3>2
  <2>3. Cardinality({j \in S : j <= m}) = 1
    BY <2>2, FS_Singleton
  <2>4. m \in Window(S)
    BY <1>1, <2>3 DEF Window
  <2>5. QED
    BY <2>4
<1>5. QED
  BY <1>2, <1>3, <1>4

LEMMA WorkerStays ==
  ASSUME TypeInv, NEW i \in Item, RunItem(i)
  PROVE  run'[i].pc # "none" /\ Futures' = Futures
<1>1. \A pc : ToPc(i, pc) => run'[i].pc = pc
  BY ToPcFields
<1>2. \A s, v, f, e, b : Conclude(i, s, v, f, e, b) => run'[i].pc = "terminal"
  BY ConcludeFields
<1>3. run \in [Item -> ItemRun]
  BY DEF TypeInv
<1>4. LaunchChild(i) => run'[i].pc = "running"
  BY <1>3 DEF LaunchChild, ItemRun
<1>5. ChildInterrupted(i) => run'[i].pc = "done"
  BY <1>3 DEF ChildInterrupted, ItemRun
<1>6. (\/ Scheduled(i) \/ ScheduledEvent(i) \/ Started(i) \/ StartedEvent(i)
       \/ NoAuthorizationNeeded(i) \/ Authorize(i) \/ ChildPersistsManifest(i) \/ ChildReturns(i)
       \/ Terminal(i) \/ TerminalEvent(i))
        => run'[i].pc # "none"
  BY <1>1 DEF Scheduled, ScheduledEvent, Started, StartedEvent, NoAuthorizationNeeded, Authorize,
              ChildPersistsManifest, ChildReturns, Terminal, TerminalEvent, RunAt
<1>7. ContractFails(i) \/ AuthorizationRefused(i) \/ ChildRaises(i) \/ AcceptResult(i)
        => run'[i].pc # "none"
  BY <1>2 DEF ContractFails, AuthorizationRefused, ChildRaises, AcceptResult, ConcludeFailed
<1>8. run'[i].pc # "none"
  BY <1>4, <1>5, <1>6, <1>7 DEF RunItem
<1>9. QED
  BY <1>8, WorkerSteps DEF Futures

(* What _execute does to its local variables.                              *)
LEMMA MainLocals ==
  ASSUME TypeInv, (Executing /\ ~ Exit) \/ Interrupt
  PROVE  /\ PlanWork \/ Refill \/ main'.pending = main.pending
         /\ (\E i \in Item : Collect(i)) \/ (main'.stop = main.stop /\ main'.internals = main.internals)
         /\ main'.completed = main.completed
<1>1. MainOK(main)
  BY DEF TypeInv
<1>2. CASE RemoveArtifactManifest \/ SetRunning \/ Wait \/ WaitDone \/ Interrupt
  BY <1>1, <1>2 DEF RemoveArtifactManifest, SetRunning, Wait, WaitDone, Interrupt, MainOK
<1>3. CASE PlanWork
  BY <1>1, <1>3 DEF PlanWork, MainOK
<1>4. ASSUME NEW i \in Item, Collect(i)
      PROVE  main'.pending = main.pending /\ main'.completed = main.completed
  BY <1>1, <1>4 DEF Collect, MainOK
<1>5. CASE \E i \in Item : CollectException(i)
  BY <1>1, <1>5 DEF CollectException, MainOK
<1>6. CASE IntervalCheckpoint \/ FinalCheckpoint \/ SkipFinalCheckpoint
  BY <1>1, <1>6 DEF IntervalCheckpoint, FinalCheckpoint, SkipFinalCheckpoint, WriteCheckpoint, MainOK
<1>7. CASE Refill
  BY <1>1, <1>7 DEF Refill, MainOK
<1>8. CASE StopScheduling
  BY <1>1, <1>8 DEF StopScheduling, MainOK
<1>9. CASE HandleException \/ InterruptedEvent \/ Verdict \/ ReportsGenerated \/ ReportsFailed
           \/ WriteArtifactManifest
  BY <1>1, <1>9 DEF HandleException, InterruptedEvent, Verdict, ReportsGenerated, ReportsFailed,
                    WriteArtifactManifest, MainOK
<1>10. QED
  BY <1>2, <1>3, <1>4, <1>5, <1>6, <1>7, <1>8, <1>9 DEF Executing

(* A step of the pool only takes items off the crew, or refills it.        *)
LEMMA FuturesSteps ==
  ASSUME TypeInv, Threads, (Executing /\ ~ Exit) \/ Interrupt
  PROVE  /\ IsFiniteSet(Futures) /\ IsFiniteSet(Futures')
         /\ PlanWork => Futures = {} /\ Futures' = Window(Pending)
         /\ \A i \in Item : Collect(i) => i \in Futures /\ Futures' = Futures \ {i}
         /\ Refill => Futures' = Futures \cup {i \in main.pending : \A j \in main.pending : i <= j}
         /\ ~ PlanWork /\ ~ Refill => Futures' \subseteq Futures
<1>1. MainOK(main) /\ NoRun.pc = "none" /\ [NoRun EXCEPT !.pc = "queued"].pc = "queued"
  BY DEF TypeInv, NoRun
<1>2. PlanWork => Futures = {} /\ Futures' = Window(Pending)
  <2>1. SUFFICES ASSUME PlanWork
                 PROVE  Futures = {} /\ Futures' = Window(Pending)
    OBVIOUS
  <2>2. Futures = {}
    BY <2>1 DEF PlanWork, At, Threads, PoolInv, Early, Futures
  <2>3. Submit(Window(Pending))
    BY <2>1 DEF PlanWork
  <2>4. Pending \subseteq Item
    BY DEF Pending
  <2>5. Window(Pending) \subseteq Item
    BY <2>4 DEF Window
  <2>6. \A j \in Item : run'[j].pc # "none" <=> j \in Window(Pending)
    <3> DEFINE W == Window(Pending)
    <3>1. Submit(W)
      BY <2>3
    <3> HIDE DEF W
    <3>2. \A j \in Item : /\ j \in W => run'[j].pc = "queued"
                          /\ j \notin W => run'[j] = run[j]
      BY <1>1, <3>1, Resubmitted
    <3>3. \A j \in Item : run[j].pc = "none"
      BY <2>2 DEF Futures
    <3>4. \A j \in Item : run'[j].pc # "none" <=> j \in W
      BY <3>2, <3>3
    <3>5. QED
      BY <3>4 DEF W
  <2>7. QED
    BY <2>2, <2>5, <2>6 DEF Futures
<1>3. ASSUME NEW i \in Item, Collect(i)
      PROVE  i \in Futures /\ Futures' = Futures \ {i}
  <2>1. i \in main.batch /\ run' = [run EXCEPT ![i] = NoRun]
    BY <1>3 DEF Collect
  <2>2. run[i].pc = "done"
    BY <2>1 DEF Threads, PoolInv
  <2>3. \A j \in Item : run'[j] = IF i = j THEN NoRun ELSE run[j]
    BY <2>1, Resubmitted
  <2>4. QED
    BY <1>1, <2>2, <2>3 DEF Futures
<1>4. Refill => Futures' = Futures \cup {i \in main.pending : \A j \in main.pending : i <= j}
  <2> DEFINE next == {i \in main.pending : \A j \in main.pending : i <= j}
  <2>1. SUFFICES ASSUME Refill
                 PROVE  Futures' = Futures \cup next
    OBVIOUS
  <2>2. Submit(next) /\ next \subseteq Item
    BY <1>1, <2>1 DEF Refill, MainOK
  <2> HIDE DEF next
  <2>3. \A j \in Item : /\ j \in next => run'[j].pc = "queued"
                        /\ j \notin next => run'[j] = run[j]
    BY <1>1, <2>2, Resubmitted
  <2>4. QED
    BY <2>2, <2>3 DEF Futures
<1>5. ASSUME ~ PlanWork, ~ Refill
      PROVE  Futures' \subseteq Futures
  <2>1. \/ run' = run \/ run' = Cancelled
        \/ \E i \in Item : run' = [run EXCEPT ![i] = NoRun] \/ run' = [Cancelled EXCEPT ![i] = NoRun]
    BY <1>5
       DEF Executing, Interrupt, RemoveArtifactManifest, SetRunning, Wait, WaitDone, Collect,
           CollectException, IntervalCheckpoint, StopScheduling, HandleException,
           InterruptedEvent, FinalCheckpoint, SkipFinalCheckpoint, Verdict, ReportsGenerated,
           ReportsFailed, WriteArtifactManifest, WriteCheckpoint
  <2>2. \A j \in Item : Cancelled[j] = run[j] \/ Cancelled[j] = NoRun
    BY Resubmitted
  <2>3. \A j \in Item : run'[j] = run[j] \/ run'[j] = NoRun
    <3>1. ASSUME NEW i \in Item, NEW j \in Item,
                 run' = [run EXCEPT ![i] = NoRun] \/ run' = [Cancelled EXCEPT ![i] = NoRun]
          PROVE  run'[j] = run[j] \/ run'[j] = NoRun
      <4>1. [run EXCEPT ![i] = NoRun][j] = IF i = j THEN NoRun ELSE run[j]
        BY Resubmitted
      <4>2. [Cancelled EXCEPT ![i] = NoRun][j] = IF i = j THEN NoRun ELSE Cancelled[j]
        BY Resubmitted
      <4>3. QED
        BY <2>2, <3>1, <4>1, <4>2
    <3>2. QED
      BY <2>1, <2>2, <3>1
  <2>4. QED
    BY <1>1, <2>3 DEF Futures
<1>6. IsFiniteSet(Futures) /\ IsFiniteSet(Futures')
  BY ItemsFinite DEF Futures
<1>7. QED
  BY <1>2, <1>3, <1>4, <1>5, <1>6

LEMMA CrewExecuting ==
  ASSUME TypeInv, Threads, SealInv, CrewInv, (Executing /\ ~ Exit) \/ Interrupt
  PROVE  CrewInv'
<1>1. /\ MainOK(main) /\ MaxWorkers \in Nat /\ MaxWorkers >= 1
      /\ IsFiniteSet(Futures) /\ IsFiniteSet(Futures')
      /\ Cardinality(Futures) \in Nat /\ Cardinality(Futures') \in Nat
      /\ Cardinality(Futures) <= MaxWorkers
  BY ConfigAssumption, FuturesSteps, FS_CardinalityType DEF TypeInv, CrewInv
<1>2. CASE PlanWork
  <2>1. main.pc = "plan" /\ main'.pc = "wait"
    BY <1>2, ExecutingMoves DEF MainMoves
  <2>2. Pending \in SUBSET Item /\ main'.pending = Pending \ Window(Pending)
    BY <1>1, <1>2 DEF PlanWork, Pending, MainOK
  <2>3. Cardinality(Futures') <= MaxWorkers /\ (Pending # {} => Futures' # {})
    BY <1>2, <2>2, FuturesSteps, WindowBounded
  <2>4. QED
    BY <2>1, <2>2, <2>3 DEF CrewInv, Early, Over
<1>3. ASSUME NEW i \in Item, Collect(i)
      PROVE  CrewInv'
  <2>1. i \in Futures /\ Futures' = Futures \ {i}
    BY <1>3, FuturesSteps
  <2>2. Cardinality(Futures') + 1 <= MaxWorkers
    BY <1>1, <2>1, FS_RemoveElement
  <2>3. main'.pc \in {"checkpoint", "refill"}
    BY <1>3, ExecutingMoves DEF MainMoves
  <2>4. QED
    BY <1>1, <2>2, <2>3 DEF CrewInv, Early, Over
<1>4. CASE Refill
  <2> DEFINE next == {i \in main.pending : \A j \in main.pending : i <= j}
  <2>1. /\ main.pc = "refill" /\ ~ main.stop
        /\ main'.pending = main.pending \ next /\ Futures' = Futures \cup next
        /\ main.pending \in SUBSET Nat /\ main'.pc \in {"wait", "collect"}
    BY <1>1, <1>4, FuturesSteps, ExecutingMoves DEF Refill, At, MainOK, MainMoves, Item
  <2>2. CASE main.pending = {}
    <3>1. Futures' = Futures /\ main'.pending = {}
      BY <2>1, <2>2
    <3>2. QED
      BY <1>1, <2>1, <3>1 DEF CrewInv, Early, Over
  <2>3. CASE main.pending # {}
    <3>1. PICK m \in main.pending : \A y \in main.pending : m <= y
      BY <2>1, <2>3, LeastItem
    <3>2. next = {m}
      <4>1. \A i \in next : i = m
        BY <2>1, <3>1
      <4>2. m \in next
        BY <3>1
      <4>3. QED
        BY <4>1, <4>2
    <3>3. Cardinality(Futures') <= Cardinality(Futures) + 1
      BY <1>1, <2>1, <3>2, FS_AddElement
    <3>4. m \in Futures' /\ Cardinality(Futures) + 1 <= MaxWorkers
      BY <2>1, <3>2 DEF CrewInv
    <3>5. QED
      BY <1>1, <2>1, <3>3, <3>4 DEF CrewInv, Early, Over
  <2>4. QED
    BY <2>2, <2>3
<1>5. CASE ~ PlanWork /\ ~ Refill /\ ~ \E i \in Item : Collect(i)
  <2>1. Futures' \subseteq Futures
    BY <1>5, FuturesSteps
  <2>2. Cardinality(Futures') <= Cardinality(Futures)
    BY <1>1, <2>1, FS_Subset
  <2>3. /\ main'.pending = main.pending /\ main'.stop = main.stop
        /\ main'.internals = main.internals
    BY <1>5, MainLocals
  <2>4. main'.pc \in {"checkpoint", "refill"} => main.pc \in {"checkpoint", "refill"}
    BY <1>5, ExecutingMoves DEF Executing, MainMoves
  <2>5. main'.pc \in Early => main.pc \in Early
    BY <1>5, ExecutingMoves DEF Executing, MainMoves, Early
  <2>6. main'.pc = "wait" => main.stop
    BY <1>5, ExecutingMoves DEF Executing, MainMoves, StopScheduling
  <2>7. main'.pc \in Over => main.pending = {} \/ main.stop
    <3>1. main'.pc \in Over => main.pc \in Over \/ WaitDone
      BY <1>5, ExecutingMoves DEF Executing, MainMoves, Over
    <3>2. WaitDone => main.pc = "wait" /\ Futures = {}
      BY DEF WaitDone, At
    <3>3. QED
      BY <3>1, <3>2 DEF CrewInv
  <2>8. QED
    BY <1>1, <2>2, <2>3, <2>4, <2>5, <2>6, <2>7 DEF CrewInv
<1>6. QED
  BY <1>2, <1>3, <1>4, <1>5

(* Resume does not schedule anything.                                      *)
LEMMA ResumingLocals ==
  ASSUME TypeInv, Resuming
  PROVE  /\ main'.pending = main.pending /\ main'.stop = main.stop
         /\ main'.internals = main.internals
<1> DEFINE Same == /\ main'.pending = main.pending /\ main'.stop = main.stop
                   /\ main'.internals = main.internals
<1>1. MainOK(main)
  BY DEF TypeInv
<1>2. CASE (\E c \in children : ReconcileChild(c)) \/ ReconcileEvent \/ ReconcileDone
  BY <1>1, <1>2 DEF ReconcileChild, ReconcileEvent, ReconcileDone, MainOK
<1>3. ASSUME NEW i \in Item, ReuseChild(i) \/ DowngradeChild(i) \/ SkipItem(i)
      PROVE  Same
  BY <1>1, <1>3 DEF ReuseChild, DowngradeChild, SkipItem, Visited, MainOK
<1>4. CASE ValidateDone
  BY <1>1, <1>4 DEF ValidateDone, MainOK
<1>5. ASSUME NEW a \in mem.ledger, SettleMissing(a) \/ SettlePreserved(a)
      PROVE  Same
  BY <1>1, <1>5 DEF SettleMissing, SettlePreserved, MainOK
<1>6. CASE SettleEvent \/ SettleDone
  BY <1>1, <1>6 DEF SettleEvent, SettleDone, MainOK
<1>7. QED
  BY <1>2, <1>3, <1>4, <1>5, <1>6 DEF Resuming

LEMMA CrewNext ==
  ASSUME TypeInv, LedgerInv, IndexInv, SealInv, CrewInv, [Next]_vars
  PROVE  CrewInv'
<1>1. Threads /\ MainOK(main) /\ MaxWorkers \in Nat
  BY ConfigAssumption DEF TypeInv, IndexInv
<1>2. CASE Prepare \/ Crash \/ Exit
  <2>1. main' = IdleMain /\ run' = [i \in Item |-> NoRun]
    BY <1>2 DEF Prepare, Crash, Exit, Gone
  <2>2. Futures' = {}
    BY <2>1 DEF Futures, NoRun
  <2>3. QED
    BY <1>1, <2>1, <2>2, FS_EmptySet DEF CrewInv, IdleMain, Early, Over
<1>3. ASSUME run' = run, main'.pending = main.pending, main'.stop = main.stop,
             main'.internals = main.internals,
             main'.pc = main.pc \/ (main.pc \in Early /\ main'.pc \in Early)
      PROVE  CrewInv'
  <2>1. Futures' = Futures
    BY <1>3 DEF Futures
  <2>2. QED
    BY <1>3, <2>1 DEF CrewInv, Early, Over
<1>4. CASE Run \/ Resume \/ Initialize \/ Execute
  BY <1>1, <1>3, <1>4 DEF Run, Resume, Initialize, Execute, At, MainOK, Early
<1>5. CASE Dump \/ (\E c \in children : DamageChild(c)) \/ UNCHANGED vars
  BY <1>3, <1>5 DEF Dump, DamageChild, vars
<1>6. CASE Resuming
  <2>1. main'.pending = main.pending /\ main'.stop = main.stop /\ main'.internals = main.internals
    BY <1>6, ResumingLocals
  <2>2. QED
    BY <1>3, <1>6, <2>1, ResumingParent, ResumingMoves DEF MainMoves, ResumePc, Early
<1>7. CASE (Executing /\ ~ Exit) \/ Interrupt
  BY <1>1, <1>7, CrewExecuting
<1>8. ASSUME NEW i \in Item, RunItem(i)
      PROVE  CrewInv'
  BY <1>8, WorkerStays, WorkerSteps DEF CrewInv
<1>9. QED
  BY <1>2, <1>4, <1>5, <1>6, <1>7, <1>8 DEF Next, ControllerStep

-----------------------------------------------------------------------------
(* How an attempt ends, and what resume makes of it                        *)

(* An attempt that raised nothing was accepted, failed in the              *)
(* infrastructure or failed internally; its record is the latest of its    *)
(* item until the result is collected.                                     *)
Ended(r) ==
  /\ r.exc = "none" => r.rec.validity = "valid" \/ Infra(r.rec) \/ r.internal
  /\ r.exc # "interrupt" => r.rec.child = r.serial

EndInv ==
  \A i \in Item :
    /\ run[i].pc \in {"terminal", "recorded", "done"} => Ended(run[i])
    /\ (run[i].pc \in {"recorded", "done"} /\ run[i].exc # "interrupt") =>
         run[i].rec \in LatestOf(i, mem.index)

LEMMA TerminalLatest ==
  ASSUME TypeInv, WorkInv, NEW i \in Item, Terminal(i)
  PROVE  /\ run[i].rec.item = i /\ LatestOf(i, mem'.index) = {run[i].rec}
         /\ \A j \in Item : j # i => LatestOf(j, mem'.index) = LatestOf(j, mem.index)
<1>1. run[i].pc = "terminal" /\ run[i].rec \in IndexRecord /\ mem.index \in SUBSET IndexRecord
      /\ main.attempts[i] \in Nat
  BY DEF Terminal, RunAt, TypeInv, ItemRun, ParentOK, Parent, MainOK
<1>2. mem'.index = mem.index \cup {run[i].rec}
  BY IndexFields DEF Terminal, Locked
<1>3. /\ run[i].rec.item = i /\ run[i].rec.attempt = main.attempts[i]
      /\ AttemptsOf(i, mem.index) = 1 .. (main.attempts[i] - 1)
  BY <1>1 DEF WorkInv, OpenInv, OpenNext, Open, Unrecorded, KeyOf
<1>4. \A q \in mem.index : q.item = i => q.attempt < main.attempts[i]
  <2>1. SUFFICES ASSUME NEW q \in mem.index, q.item = i
                 PROVE  q.attempt < main.attempts[i]
    OBVIOUS
  <2>2. q.attempt \in AttemptsOf(i, mem.index) /\ q.attempt \in Nat
    BY <1>1, <2>1, IndexTyped
  <2>3. QED
    BY <1>1, <1>3, <2>2
<1>5. \A q \in mem.index : q.item = run[i].rec.item => q.attempt < run[i].rec.attempt
  BY <1>3, <1>4
<1>6. /\ LatestOf(run[i].rec.item, mem.index \cup {run[i].rec}) = {run[i].rec}
      /\ \A j : j # run[i].rec.item =>
           LatestOf(j, mem.index \cup {run[i].rec}) = LatestOf(j, mem.index)
  <2> DEFINE r == run[i].rec
             ix == mem.index
  <2>1. /\ ix \in SUBSET IndexRecord /\ r \in IndexRecord
        /\ \A q \in ix : q.item = r.item => q.attempt < r.attempt
    BY <1>1, <1>5
  <2> HIDE DEF r, ix
  <2>2. LatestOf(r.item, ix \cup {r}) = {r}
    BY <2>1, LatestAdded
  <2>3. \A j : j # r.item => LatestOf(j, ix \cup {r}) = LatestOf(j, ix)
    BY <2>1, LatestAdded
  <2>4. QED
    BY <2>2, <2>3 DEF r, ix
<1>7. QED
  BY <1>2, <1>3, <1>6

LEMMA WorkerEnding ==
  ASSUME TypeInv, NEW i \in Item, RunItem(i)
  PROVE  /\ run'[i].pc = "terminal" => Ended(run'[i])
         /\ run'[i].pc \in {"recorded", "done"} =>
              \/ run'[i].exc = "interrupt" /\ ChildInterrupted(i)
              \/ /\ Terminal(i) \/ TerminalEvent(i)
                 /\ run'[i].rec = run[i].rec /\ run'[i].exc = run[i].exc
                 /\ run'[i].serial = run[i].serial /\ run'[i].internal = run[i].internal
<1>1. run \in [Item -> ItemRun]
  BY DEF TypeInv
<1>2. CASE LaunchChild(i)
  <2>1. run'[i].pc = "running"
    BY <1>1, <1>2 DEF LaunchChild, ItemRun
  <2>2. QED
    BY <2>1
<1>3. CASE ChildInterrupted(i)
  <2>1. run'[i].pc = "done" /\ run'[i].exc = "interrupt"
    BY <1>1, <1>3 DEF ChildInterrupted, ItemRun
  <2>2. QED
    BY <1>3, <2>1
<1>4. CASE Terminal(i) \/ TerminalEvent(i)
  <2>1. ToPc(i, "recorded") \/ ToPc(i, "done")
    BY <1>4 DEF Terminal, TerminalEvent
  <2>2. QED
    BY <1>4, <2>1, ToPcFields
<1>5. CASE \/ Scheduled(i) \/ ScheduledEvent(i) \/ Started(i) \/ StartedEvent(i)
           \/ NoAuthorizationNeeded(i) \/ Authorize(i) \/ ChildReturns(i)
  <2>1. \E pc \in {"scheduled", "start", "started", "authorize", "launch", "returned"} : ToPc(i, pc)
    BY <1>5 DEF Scheduled, ScheduledEvent, Started, StartedEvent, NoAuthorizationNeeded, Authorize,
                ChildReturns
  <2>2. QED
    BY <2>1, ToPcFields
<1>6. CASE ChildPersistsManifest(i)
  BY <1>6 DEF ChildPersistsManifest, RunAt
<1>7. CASE AuthorizationRefused(i)
  <2>1. Conclude(i, 0, "missing", "none", "config", FALSE)
    BY <1>7 DEF AuthorizationRefused
  <2>2. /\ run'[i].pc = "terminal" /\ run'[i].exc = "config" /\ run'[i].serial = 0
        /\ run'[i].rec = RunIndexRecord(i, main.attempts[i], 0, "missing", "none")
    BY <1>1, <2>1 DEF Conclude
  <2>3. run'[i].rec.child = 0
    BY <2>2 DEF RunIndexRecord
  <2>4. QED
    BY <2>2, <2>3 DEF Ended
<1>8. CASE AcceptResult(i)
  <2>1. \/ Conclude(i, run[i].serial, "valid", Child(i).fault, "none", FALSE)
        \/ Conclude(i, run[i].serial, "incompatible", "none", "config", FALSE)
    BY <1>8 DEF AcceptResult
  <2>2. CASE Conclude(i, run[i].serial, "valid", Child(i).fault, "none", FALSE)
    <3>1. /\ run'[i].pc = "terminal" /\ run'[i].serial = run[i].serial
          /\ run'[i].rec = RunIndexRecord(i, main.attempts[i], run[i].serial, "valid", Child(i).fault)
      BY <1>1, <2>2 DEF Conclude
    <3>2. run'[i].rec.child = run[i].serial /\ run'[i].rec.validity = "valid"
      BY <3>1 DEF RunIndexRecord
    <3>3. QED
      BY <3>1, <3>2 DEF Ended
  <2>3. CASE Conclude(i, run[i].serial, "incompatible", "none", "config", FALSE)
    <3>1. /\ run'[i].pc = "terminal" /\ run'[i].serial = run[i].serial /\ run'[i].exc = "config"
          /\ run'[i].rec = RunIndexRecord(i, main.attempts[i], run[i].serial, "incompatible", "none")
      BY <1>1, <2>3 DEF Conclude
    <3>2. run'[i].rec.child = run[i].serial
      BY <3>1 DEF RunIndexRecord
    <3>3. QED
      BY <3>1, <3>2 DEF Ended
  <2>4. QED
    BY <2>1, <2>2, <2>3
<1>9. CASE ContractFails(i) \/ ChildRaises(i)
  <2>1. PICK failure \in Failure, serial \in {0, run[i].serial} : ConcludeFailed(i, serial, failure)
    BY <1>9, ConfigAssumption DEF ContractFails, ChildRaises
  <2>2. /\ run'[i].pc = "terminal" /\ run'[i].exc = (IF failure = "config" THEN "config" ELSE "none")
        /\ run'[i].serial = serial /\ run'[i].internal = (failure = "internal")
        /\ run'[i].rec.child = serial
        /\ run'[i].rec.fault = (IF failure = "infrastructure" THEN "local" ELSE "none")
    BY <2>1, ConcludeFields, RecordFields DEF ConcludeFailed
  <2>3. QED
    BY <2>1, <2>2 DEF Ended, Infra, Failure
<1>10. QED
  BY <1>2, <1>3, <1>4, <1>5, <1>6, <1>7, <1>8, <1>9 DEF RunItem

LEMMA EndNext ==
  ASSUME TypeInv, LedgerInv, IndexInv, EndInv, [Next]_vars
  PROVE  EndInv'
<1>1. Threads /\ FilesInv /\ WorkInv /\ Threads' /\ MainOK(main)
  BY IndexNext DEF IndexInv, TypeInv
<1>2. ASSUME \A i \in Item : run'[i].pc = "none"
      PROVE  EndInv'
  BY <1>2 DEF EndInv
<1>3. ASSUME mem'.index = mem.index,
             \A j \in Item : run'[j] = run[j] \/ run'[j].pc \in {"none", "queued"}
      PROVE  EndInv'
  BY <1>3 DEF EndInv
<1>4. CASE Run \/ Resume \/ Initialize \/ Execute
  <2>1. main.pc \in Early /\ run' = run
    BY <1>4 DEF Run, Resume, Initialize, Execute, At, Early
  <2>2. QED
    BY <1>1, <1>2, <2>1 DEF Threads, PoolInv
<1>5. CASE Prepare \/ Crash \/ Exit
  <2>1. run' = [i \in Item |-> NoRun] /\ NoRun.pc = "none"
    BY <1>5 DEF Prepare, Crash, Exit, Gone, NoRun
  <2>2. QED
    BY <1>2, <2>1
<1>6. CASE Dump \/ (\E c \in children : DamageChild(c)) \/ UNCHANGED vars
  BY <1>3, <1>6 DEF Dump, DamageChild, vars
<1>7. CASE Resuming
  <2>1. main.pc \in Early /\ run' = run
    BY <1>7, ResumingMoves, ResumingParent DEF MainMoves, ResumePc, Early
  <2>2. QED
    BY <1>1, <1>2, <2>1 DEF Threads, PoolInv
<1>8. CASE (Executing /\ ~ Exit) \/ Interrupt
  <2>1. mem'.index = mem.index
    BY <1>8, PlainExecuting DEF Plain, Unfiled
  <2>2. \A j \in Item : run'[j] = run[j] \/ run'[j].pc \in {"none", "queued"}
    BY <1>1, <1>8, ExecutingRuns, Resubmitted
  <2>3. QED
    BY <1>3, <2>1, <2>2
<1>9. ASSUME NEW i \in Item, RunItem(i)
      PROVE  EndInv'
  <2>1. \A j \in Item : j # i => run'[j] = run[j]
    BY <1>9, WorkerSteps
  <2>2. CASE Terminal(i)
    <3>1. run'[i].pc = "recorded" /\ run[i].pc = "terminal"
      BY <2>2, ToPcFields DEF Terminal, RunAt
    <3>2. /\ run'[i].rec = run[i].rec /\ run'[i].exc = run[i].exc
          /\ run'[i].serial = run[i].serial /\ run'[i].internal = run[i].internal
      BY <2>2, ToPcFields DEF Terminal
    <3>3. Ended(run'[i]) /\ run'[i].rec \in LatestOf(i, mem'.index)
      BY <1>1, <2>2, <3>1, <3>2, TerminalLatest DEF EndInv, Ended
    <3>4. \A j \in Item : j # i => LatestOf(j, mem'.index) = LatestOf(j, mem.index)
      BY <1>1, <2>2, TerminalLatest
    <3>5. QED
      BY <2>1, <3>1, <3>3, <3>4 DEF EndInv
  <2>3. CASE ~ Terminal(i)
    <3>1. mem'.index = mem.index
      BY <1>9, <2>3, WorkerRecords
    <3>2. run'[i].pc = "terminal" => Ended(run'[i])
      BY <1>9, WorkerEnding
    <3>3. ASSUME run'[i].pc \in {"recorded", "done"}
          PROVE  Ended(run'[i]) /\ (run'[i].exc # "interrupt" => run'[i].rec \in LatestOf(i, mem.index))
      <4>1. CASE run'[i].exc = "interrupt"
        BY <4>1 DEF Ended
      <4>2. CASE /\ TerminalEvent(i)
                 /\ run'[i].rec = run[i].rec /\ run'[i].exc = run[i].exc
                 /\ run'[i].serial = run[i].serial /\ run'[i].internal = run[i].internal
        BY <4>2 DEF TerminalEvent, RunAt, EndInv, Ended
      <4>3. QED
        BY <1>9, <2>3, <3>3, <4>1, <4>2, WorkerEnding
    <3>4. QED
      BY <2>1, <3>1, <3>2, <3>3 DEF EndInv
  <2>4. QED
    BY <2>2, <2>3
<1>10. QED
  BY <1>4, <1>5, <1>6, <1>7, <1>8, <1>9 DEF Next, ControllerStep

(* The record resume enters for an item becomes its latest one; the latest *)
(* records of the other items stay.                                        *)
OnlyLatest(r) ==
  /\ LatestOf(r.item, mem'.index) = {r}
  /\ \A j : j # r.item => LatestOf(j, mem'.index) = LatestOf(j, mem.index)

LEMMA LatestOfAdded ==
  ASSUME TypeInv, NEW r \in IndexRecord, mem'.index = mem.index \cup {r},
         AttemptsOf(r.item, mem.index) = 1 .. (r.attempt - 1)
  PROVE  OnlyLatest(r)
<1> DEFINE ix == mem.index
<1>1. ix \in SUBSET IndexRecord /\ r.attempt \in Nat
  BY DEF TypeInv, ParentOK, Parent, IndexRecord
<1>2. AttemptsOf(r.item, ix) = 1 .. (r.attempt - 1) /\ mem'.index = ix \cup {r}
  OBVIOUS
<1> HIDE DEF ix
<1>3. \A q \in ix : q.item = r.item => q.attempt < r.attempt
  <2>1. SUFFICES ASSUME NEW q \in ix, q.item = r.item
                 PROVE  q.attempt < r.attempt
    OBVIOUS
  <2>2. q.attempt \in 1 .. (r.attempt - 1)
    BY <1>2, <2>1 DEF AttemptsOf
  <2>3. QED
    BY <1>1, <2>2
<1>4. /\ LatestOf(r.item, ix \cup {r}) = {r}
      /\ \A i : i # r.item => LatestOf(i, ix \cup {r}) = LatestOf(i, ix)
  <2>1. LatestOf(r.item, ix \cup {r}) = {r}
    BY <1>1, <1>3, LatestAdded
  <2>2. \A i : i # r.item => LatestOf(i, ix \cup {r}) = LatestOf(i, ix)
    BY <1>1, <1>3, LatestAdded
  <2>3. QED
    BY <2>1, <2>2
<1>5. QED
  BY <1>2, <1>4 DEF OnlyLatest, ix

LEMMA LatestOfReplaced ==
  ASSUME TypeInv, FilesInv, NEW q \in mem.index, q \in LatestOf(q.item, mem.index),
         NEW r \in IndexRecord, r.item = q.item, r.attempt = q.attempt,
         mem'.index = (mem.index \ {q}) \cup {r}
  PROVE  OnlyLatest(r)
<1> DEFINE ix == mem.index
<1>1. ix \in SUBSET IndexRecord /\ Distinct(ix) /\ q \in ix /\ q \in LatestOf(q.item, ix)
  BY DEF TypeInv, ParentOK, Parent, FilesInv, Numbered
<1>2. mem'.index = (ix \ {q}) \cup {r}
  OBVIOUS
<1> HIDE DEF ix
<1>3. /\ LatestOf(q.item, (ix \ {q}) \cup {r}) = {r}
      /\ \A i : i # q.item => LatestOf(i, (ix \ {q}) \cup {r}) = LatestOf(i, ix)
  BY <1>1, LatestReplaced, Z3
<1>4. QED
  BY <1>2, <1>3 DEF OnlyLatest, ix

(* What resume makes of the latest records.                                *)
Reconciles(r) == \E c \in children : ReconcileChild(c) /\ r = OrphanRecord(c)
Downgrades(r) ==
  \E i \in Item : DowngradeChild(i) /\ r.item = i /\ r.validity = "corrupt" /\ ~ Infra(r)
Settles(r) ==
  /\ Infra(r) /\ r.validity # "valid"
  /\ \E a \in mem.ledger : (SettleMissing(a) \/ SettlePreserved(a)) /\ r.item = a.item

Observes ==
  \/ ReconcileEvent \/ ReconcileDone \/ ValidateDone \/ SettleEvent \/ SettleDone
  \/ \E i \in Item : ReuseChild(i) \/ SkipItem(i)

LEMMA ResumingLatest ==
  ASSUME TypeInv, LedgerInv, IndexInv, Resuming
  PROVE  \/ mem'.index = mem.index /\ Observes
         \/ \E r \in IndexRecord : OnlyLatest(r) /\ (Reconciles(r) \/ Downgrades(r) \/ Settles(r))
<1> DEFINE Goal == \E r \in IndexRecord :
                     OnlyLatest(r) /\ (Reconciles(r) \/ Downgrades(r) \/ Settles(r))
<1>1. FilesInv /\ WorkInv
  BY DEF IndexInv
<1>0. /\ \A r : IndexedParent(r).index = mem.index \cup {r}
      /\ \A q, r : ReplacedParent(q, r).index = (mem.index \ {q}) \cup {r}
  BY DEF TypeInv, ParentOK, Parent, IndexedParent, ReplacedParent
<1>1a. \A q \in mem.index : q \in IndexRecord
  BY DEF TypeInv, ParentOK, Parent
<1>2. ASSUME NEW c \in children, ReconcileChild(c), mem' = IndexedParent(OrphanRecord(c))
      PROVE  Goal
  <2>1. Live /\ lock.dumps # IndexFirst
    BY <1>2, DumpOrder DEF ReconcileChild, At, Live, Locked
  <2>2. /\ OrphanRecord(c) \in IndexRecord
        /\ AttemptsOf(OrphanRecord(c).item, mem.index) = 1 .. (OrphanRecord(c).attempt - 1)
    BY <1>1, <2>1, OrphanIsNext
  <2>3. mem'.index = mem.index \cup {OrphanRecord(c)}
    BY <1>0, <1>2
  <2>4. OnlyLatest(OrphanRecord(c))
    BY <2>2, <2>3, LatestOfAdded
  <2>5. QED
    BY <1>2, <2>2, <2>4 DEF Reconciles
<1>3. ASSUME NEW i \in Item, NEW q \in mem.index, DowngradeChild(i), q \in LatestOf(i, mem.index),
             mem' = ReplacedParent(q, [q EXCEPT !.validity = "corrupt", !.fault = "none"])
      PROVE  Goal
  <2> DEFINE r == [q EXCEPT !.validity = "corrupt", !.fault = "none"]
  <2>1. /\ r \in IndexRecord /\ r.item = q.item /\ r.attempt = q.attempt /\ r.validity = "corrupt"
        /\ r.fault = "none"
    BY <1>1a DEF IndexRecord, Validity, Fault
  <2>4. q.item = i /\ q \in LatestOf(q.item, mem.index)
    BY <1>3 DEF LatestOf
  <2>5. mem'.index = (mem.index \ {q}) \cup {r}
    BY <1>0, <1>3
  <2> HIDE DEF r
  <2>6. OnlyLatest(r)
    BY <1>1, <2>1, <2>4, <2>5, LatestOfReplaced
  <2>7. Downgrades(r)
    BY <1>3, <2>1, <2>4 DEF Downgrades, Infra
  <2>8. QED
    BY <2>1, <2>6, <2>7
<1>4. ASSUME NEW a \in mem.ledger, SettleMissing(a),
             mem' = IndexedParent(RunIndexRecord(a.item, a.attempt, 0, "missing", "local"))
      PROVE  Goal
  <2> DEFINE r == RunIndexRecord(a.item, a.attempt, 0, "missing", "local")
  <2>1. /\ Live /\ lock.dumps # IndexFirst /\ LatestOf(a.item, mem.index) = {}
    BY <1>4, DumpOrder DEF SettleMissing, At, Live, Locked
  <2>2. a \in Authorization /\ a \in disk.ledger
    BY <2>1 DEF TypeInv, ParentOK, Parent, LedgerInv
  <2>3. a.item \in Item /\ a.attempt \in Nat /\ a.item \in Nat
    BY <2>2 DEF Authorization, Item
  <2>4. PICK n \in Nat : AttemptsOf(a.item, mem.index) = 1 .. n
    BY <1>1, <2>3 DEF FilesInv, Numbered, Dense
  <2>5. n = 0
    BY <2>1, <2>4, LatestIsHighest DEF TypeInv, ParentOK, Parent
  <2>6. a.attempt = 1
    <3>1. Follows(a.item, a.attempt, mem.index)
      BY <1>1, <2>1, <2>2 DEF WorkInv, FollowInv, FilesInv
    <3>2. QED
      BY <2>4, <2>5, <3>1 DEF Follows
  <2>7. /\ r.item = a.item /\ r.attempt = 1 /\ r.validity = "missing" /\ r.fault = "local"
        /\ r \in IndexRecord
    BY <2>3, <2>6, RecordFields DEF Validity, Fault
  <2>8. mem'.index = mem.index \cup {r}
    BY <1>0, <1>4
  <2> HIDE DEF r
  <2>9. AttemptsOf(r.item, mem.index) = 1 .. (r.attempt - 1)
    BY <2>4, <2>5, <2>7
  <2>10. OnlyLatest(r)
    BY <2>7, <2>8, <2>9, LatestOfAdded
  <2>11. QED
    BY <1>4, <2>7, <2>10 DEF Settles, Infra
<1>5. ASSUME NEW a \in mem.ledger, NEW q \in mem.index, SettlePreserved(a),
             q \in LatestOf(a.item, mem.index), q.validity # "valid",
             mem' = ReplacedParent(q, [q EXCEPT !.fault = "local"])
      PROVE  Goal
  <2> DEFINE r == [q EXCEPT !.fault = "local"]
  <2>1. /\ r \in IndexRecord /\ r.item = q.item /\ r.attempt = q.attempt /\ r.validity = q.validity
        /\ r.fault = "local"
    BY <1>1a DEF IndexRecord, Validity, Fault
  <2>4. q.item = a.item /\ q \in LatestOf(q.item, mem.index)
    BY <1>5 DEF LatestOf
  <2>5. mem'.index = (mem.index \ {q}) \cup {r}
    BY <1>0, <1>5
  <2> HIDE DEF r
  <2>6. OnlyLatest(r)
    BY <1>1, <2>1, <2>4, <2>5, LatestOfReplaced
  <2>7. Settles(r)
    BY <1>5, <2>1, <2>4 DEF Settles, Infra
  <2>8. QED
    BY <2>1, <2>6, <2>7
<1> HIDE DEF Goal
<1>6. ASSUME \E c \in children : ReconcileChild(c)
      PROVE  Goal
  <2>1. \A c \in children : ReconcileChild(c) => mem' = IndexedParent(OrphanRecord(c))
    BY DEF ReconcileChild, Locked
  <2>2. QED
    BY <1>2, <1>6, <2>1
<1>7. ASSUME \E i \in Item : DowngradeChild(i)
      PROVE  Goal
  <2>1. PICK i \in Item : DowngradeChild(i)
    BY <1>7
  <2>2. PICK q \in LatestOf(i, mem.index) :
          mem' = ReplacedParent(q, [q EXCEPT !.validity = "corrupt", !.fault = "none"])
    BY <2>1, Zenon DEF DowngradeChild, Locked
  <2>3. q \in mem.index
    BY <2>2 DEF LatestOf, LatestRecords
  <2>4. QED
    BY <1>3, <2>1, <2>2, <2>3, Zenon
<1>8. ASSUME \E a \in mem.ledger : SettleMissing(a)
      PROVE  Goal
  <2>1. \A a : SettleMissing(a) =>
               mem' = IndexedParent(RunIndexRecord(a.item, a.attempt, 0, "missing", "local"))
    BY DEF SettleMissing, Locked
  <2>2. QED
    BY <1>4, <1>8, <2>1
<1>9. ASSUME \E a \in mem.ledger : SettlePreserved(a)
      PROVE  Goal
  <2>1. PICK a \in mem.ledger : SettlePreserved(a)
    BY <1>9
  <2>2. PICK q \in LatestOf(a.item, mem.index) :
          q.validity # "valid" /\ mem' = ReplacedParent(q, [q EXCEPT !.fault = "local"])
    BY <2>1 DEF SettlePreserved, Locked
  <2>3. q \in mem.index
    BY <2>2 DEF LatestOf, LatestRecords
  <2>4. QED
    BY <1>5, <2>1, <2>2, <2>3
<1>10. CASE Observes
  <2>1. \A t, e : Event(t, e) => mem'.index = mem.index
    BY DEF Event, Locked, TypeInv, ParentOK, Parent
  <2>2. mem'.index = mem.index
    BY <1>10, <2>1 DEF Observes, ReconcileEvent, ReconcileDone, ValidateDone, SettleEvent, SettleDone,
                       ReuseChild, SkipItem
  <2>3. QED
    BY <1>10, <2>2
<1>11. QED
  BY <1>6, <1>7, <1>8, <1>9, <1>10 DEF Resuming, Observes, Goal

-----------------------------------------------------------------------------
(* What counts as completed has an outcome                                 *)

Good(i) == \E r \in LatestOf(i, mem.index) : r.validity = "valid" \/ Infra(r)
CompletedInv ==
  /\ main.pc \in {"idle", "initialize", "initialized", "reconcile", "reconciled"} =>
       main.completed = {}
  /\ main.pc = "validate" => \A i \in main.completed : i < main.cursor
  /\ main.pc \in Early => \A i \in main.completed : Good(i)

LEMMA GoodKept ==
  ASSUME mem'.index = mem.index
  PROVE  \A i : Good(i)' <=> Good(i)
<1>1. QED
  BY DEF Good, LatestOf, LatestRecords

LEMMA GoodOthers ==
  ASSUME NEW r, OnlyLatest(r)
  PROVE  /\ \A j : j # r.item => (Good(j)' <=> Good(j))
         /\ (r.validity = "valid" \/ Infra(r)) => Good(r.item)'
<1>1. \A j : LatestOf(j, mem.index)' = LatestOf(j, mem'.index)
  BY DEF LatestOf, LatestRecords
<1>2. QED
  BY <1>1 DEF OnlyLatest, Good, Infra

LEMMA ResumingCompleted ==
  ASSUME TypeInv, Resuming
  PROVE  /\ \A i \in Item : ReuseChild(i) =>
              /\ main.pc = "validate" /\ main'.pc = "validate"
              /\ main'.completed = main.completed \cup {i}
              /\ main.cursor = i /\ main'.cursor = i + 1
              /\ \E r \in LatestOf(i, mem.index) : r.validity = "valid"
         /\ \A i \in Item : DowngradeChild(i) \/ SkipItem(i) =>
              /\ main.pc = "validate" /\ main'.pc = "validate"
              /\ main'.completed = main.completed /\ main.cursor = i /\ main'.cursor = i + 1
         /\ \A a \in mem.ledger : SettleMissing(a) \/ SettlePreserved(a) =>
              /\ main.pc = "settle" /\ main'.pc \in {"settle", "settled"}
              /\ main'.completed = main.completed \cup {a.item}
         /\ (\E c \in children : ReconcileChild(c)) \/ ReconcileEvent \/ ReconcileDone =>
              /\ main.pc \in {"reconcile", "reconciled"} /\ main'.completed = main.completed
              /\ main'.pc \in {"reconcile", "reconciled", "validate"}
         /\ ValidateDone \/ SettleEvent \/ SettleDone =>
              /\ main.pc \in {"validate", "settle", "settled"}
              /\ main'.pc \in {"settle", "unseal"} /\ main'.completed = main.completed
<1>1. MainOK(main)
  BY DEF TypeInv
<1>2. ASSUME NEW i \in Item, ReuseChild(i)
      PROVE  /\ main.pc = "validate" /\ main'.pc = "validate"
             /\ main'.completed = main.completed \cup {i}
             /\ main.cursor = i /\ main'.cursor = i + 1
             /\ \E r \in LatestOf(i, mem.index) : r.validity = "valid"
  BY <1>1, <1>2 DEF ReuseChild, Visit, Visited, At, MainOK, Reusable
<1>3. ASSUME NEW i \in Item, DowngradeChild(i) \/ SkipItem(i)
      PROVE  /\ main.pc = "validate" /\ main'.pc = "validate"
             /\ main'.completed = main.completed /\ main.cursor = i /\ main'.cursor = i + 1
  <2>1. main.pc = "validate" /\ main.cursor = i /\ main' = Visited
    BY <1>3, Zenon DEF DowngradeChild, SkipItem, Visit, At
  <2>2. QED
    BY <1>1, <2>1 DEF Visited, MainOK
<1>4. ASSUME NEW a \in mem.ledger, SettleMissing(a) \/ SettlePreserved(a)
      PROVE  /\ main.pc = "settle" /\ main'.pc \in {"settle", "settled"}
             /\ main'.completed = main.completed \cup {a.item}
  BY <1>1, <1>4 DEF SettleMissing, SettlePreserved, At, MainOK
<1>5. (\E c \in children : ReconcileChild(c)) \/ ReconcileEvent \/ ReconcileDone =>
              /\ main.pc \in {"reconcile", "reconciled"} /\ main'.completed = main.completed
              /\ main'.pc \in {"reconcile", "reconciled", "validate"}
  <2>1. \A c : ReconcileChild(c) =>
                /\ main.pc = "reconcile" /\ main'.completed = main.completed
                /\ main'.pc = "reconciled"
    BY <1>1 DEF ReconcileChild, At, MainOK
  <2>2. ReconcileEvent \/ ReconcileDone =>
              /\ main.pc \in {"reconcile", "reconciled"} /\ main'.completed = main.completed
              /\ main'.pc \in {"reconcile", "reconciled", "validate"}
    BY <1>1 DEF ReconcileEvent, ReconcileDone, At, MainOK
  <2>3. QED
    BY <2>1, <2>2
<1>6. ValidateDone \/ SettleEvent \/ SettleDone =>
              /\ main.pc \in {"validate", "settle", "settled"}
              /\ main'.pc \in {"settle", "unseal"} /\ main'.completed = main.completed
  BY <1>1 DEF ValidateDone, SettleEvent, SettleDone, Visit, At, MainOK
<1>7. QED
  BY <1>2, <1>3, <1>4, <1>5, <1>6

LEMMA CompletedResuming ==
  ASSUME TypeInv, LedgerInv, IndexInv, CompletedInv, Resuming
  PROVE  CompletedInv'
<1>1. main.completed \subseteq Item /\ main.cursor \in Nat
  BY DEF TypeInv, MainOK
<1>2. main.pc \in Early /\ \A j \in main.completed : Good(j)
  BY ResumingMoves DEF MainMoves, ResumePc, Early, CompletedInv
<1>3. ASSUME mem'.index = mem.index, Observes
      PROVE  CompletedInv'
  <2>1. \A j : Good(j)' <=> Good(j)
    BY <1>3, GoodKept
  <2>2. CASE ReconcileEvent \/ ReconcileDone
    BY <2>2, ResumingCompleted DEF CompletedInv
  <2>3. CASE ValidateDone \/ SettleEvent \/ SettleDone
    BY <1>2, <2>1, <2>3, ResumingCompleted DEF CompletedInv
  <2>4. ASSUME NEW i \in Item, ReuseChild(i)
        PROVE  CompletedInv'
    <3>1. /\ main.pc = "validate" /\ main'.pc = "validate" /\ main'.completed = main.completed \cup {i}
          /\ main.cursor = i /\ main'.cursor = i + 1
          /\ \E r \in LatestOf(i, mem.index) : r.validity = "valid"
      BY <2>4, ResumingCompleted
    <3>2. Good(i)
      BY <3>1 DEF Good
    <3>3. \A j \in main.completed : j < i + 1
      BY <1>1, <3>1 DEF CompletedInv, Item
    <3>4. i < i + 1
      BY DEF Item
    <3>5. QED
      BY <1>2, <2>1, <3>1, <3>2, <3>3, <3>4 DEF CompletedInv
  <2>5. ASSUME NEW i \in Item, SkipItem(i)
        PROVE  CompletedInv'
    <3>1. /\ main.pc = "validate" /\ main'.pc = "validate" /\ main'.completed = main.completed
          /\ main.cursor = i /\ main'.cursor = i + 1
      BY <2>5, ResumingCompleted
    <3>2. \A j \in main.completed : j < i + 1
      BY <1>1, <3>1 DEF CompletedInv, Item
    <3>3. QED
      BY <1>2, <2>1, <3>1, <3>2 DEF CompletedInv
  <2>6. QED
    BY <1>3, <2>2, <2>3, <2>4, <2>5 DEF Observes
<1>4. ASSUME NEW r \in IndexRecord, OnlyLatest(r)
      PROVE  /\ Reconciles(r) => CompletedInv'
             /\ Downgrades(r) => CompletedInv'
             /\ Settles(r) => CompletedInv'
  <2>1. /\ \A j : j # r.item => (Good(j)' <=> Good(j))
        /\ Infra(r) => Good(r.item)'
    BY <1>4, GoodOthers
  <2>2. Reconciles(r) => CompletedInv'
    BY ResumingCompleted DEF Reconciles, CompletedInv
  <2>3. Downgrades(r) => CompletedInv'
    <3>1. SUFFICES ASSUME NEW i \in Item, DowngradeChild(i), r.item = i
                   PROVE  CompletedInv'
      BY DEF Downgrades
    <3>2. /\ main.pc = "validate" /\ main'.pc = "validate" /\ main'.completed = main.completed
          /\ main.cursor = i /\ main'.cursor = i + 1
      BY <3>1, ResumingCompleted
    <3>3. \A j \in main.completed : j < i + 1 /\ j # i
      BY <1>1, <3>2 DEF CompletedInv, Item
    <3>4. QED
      BY <1>2, <2>1, <3>1, <3>2, <3>3 DEF CompletedInv
  <2>4. Settles(r) => CompletedInv'
    <3>1. SUFFICES ASSUME NEW a \in mem.ledger, SettleMissing(a) \/ SettlePreserved(a), Infra(r),
                          r.item = a.item
                   PROVE  CompletedInv'
      BY DEF Settles
    <3>2. main'.pc \in {"settle", "settled"} /\ main'.completed = main.completed \cup {a.item}
      BY <3>1, ResumingCompleted
    <3>3. \A j \in main'.completed : Good(j)'
      BY <1>2, <2>1, <3>1, <3>2
    <3>4. QED
      BY <3>2, <3>3 DEF CompletedInv
  <2>5. QED
    BY <2>2, <2>3, <2>4
<1>5. QED
  BY <1>3, <1>4, ResumingLatest

LEMMA CompletedNext ==
  ASSUME TypeInv, LedgerInv, IndexInv, CompletedInv, [Next]_vars
  PROVE  CompletedInv'
<1>1. MainOK(main) /\ Threads
  BY DEF TypeInv, IndexInv
<1>2. CASE Prepare \/ Crash \/ Exit
  <2>1. main'.completed = {}
    BY <1>2 DEF Prepare, Crash, Exit, Gone, IdleMain
  <2>2. QED
    BY <2>1 DEF CompletedInv
<1>3. CASE Run \/ Resume \/ Initialize \/ Execute
  <2>1. main.completed = {} /\ main'.completed = main.completed
    BY <1>1, <1>3 DEF Run, Resume, Initialize, Execute, At, MainOK, CompletedInv
  <2>2. QED
    BY <2>1 DEF CompletedInv
<1>4. CASE Dump \/ (\E c \in children : DamageChild(c)) \/ UNCHANGED vars
  <2>1. main' = main /\ mem' = mem
    BY <1>4 DEF Dump, DamageChild, vars
  <2>2. QED
    BY <2>1, GoodKept DEF CompletedInv
<1>5. CASE Resuming
  BY <1>5, CompletedResuming
<1>6. CASE (Executing /\ ~ Exit) \/ Interrupt
  <2>1. /\ mem'.index = mem.index /\ main'.completed = main.completed
    BY <1>6, PlainExecuting, MainLocals DEF Plain, Unfiled
  <2>2. main'.pc \in Early => main'.pc \in {"activate", "plan"} /\ main.pc \in Early
    BY <1>6, ExecutingMoves DEF Executing, MainMoves, Early
  <2>3. QED
    BY <2>1, <2>2, GoodKept DEF CompletedInv, Early
<1>7. ASSUME NEW i \in Item, RunItem(i)
      PROVE  CompletedInv'
  <2>1. run[i].pc # "none" /\ main' = main
    BY <1>7, WorkerSteps
  <2>2. main.pc \notin Early
    BY <1>1, <2>1 DEF Threads, PoolInv
  <2>3. QED
    BY <2>1, <2>2 DEF CompletedInv, Early
<1>8. QED
  BY <1>2, <1>3, <1>4, <1>5, <1>6, <1>7 DEF Next, ControllerStep

-----------------------------------------------------------------------------
(* Nothing is left out but what the run was told to leave out              *)

Pool == {"wait", "collect", "checkpoint", "refill"}

(* The reasons _execute has for scheduling no further item.                *)
HaltedByFault ==
  /\ ~ ContinueOnInfra
  /\ \E i \in Item : /\ i \notin main.pending /\ run[i].pc = "none"
                     /\ \E r \in LatestOf(i, mem.index) : Infra(r)
HaltedByBreaker ==
  BreakerOpen(mem.index) /\ Futures = {} /\ (main.stop \/ main.pending = {})
Halted == main.internals > 0 \/ HaltedByFault \/ HaltedByBreaker

CoverInv ==
  main.pc \in Pool \cup {"finish", "verdict"} =>
    /\ main.stop => Halted
    /\ Halted \/ \A i \in Item : i \in main.pending \/ run[i].pc # "none" \/ Good(i)

LEMMA HaltedStays ==
  ASSUME TypeInv, Halted, main'.pending \subseteq main.pending, main.stop => main'.stop,
         main'.internals >= main.internals, main'.internals \in Nat,
         \A i \in Item : run[i].pc = "none" /\ i \notin main.pending =>
           run'[i].pc = "none" /\ LatestOf(i, mem'.index) = LatestOf(i, mem.index),
         Futures = {} /\ (main.stop \/ main.pending = {}) =>
           Futures' = {} /\ mem'.index = mem.index
  PROVE  Halted'
<1>1. main.internals \in Nat
  BY DEF TypeInv, MainOK
<1>2. /\ \A j : LatestOf(j, mem.index)' = LatestOf(j, mem'.index)
      /\ BreakerOpen(mem.index)' <=> BreakerOpen(mem'.index)
  BY DEF LatestOf, LatestRecords, BreakerOpen
<1>3. CASE main.internals > 0
  BY <1>1, <1>3 DEF Halted
<1>4. CASE HaltedByFault
  <2>1. PICK i \in Item : /\ i \notin main.pending /\ run[i].pc = "none"
                          /\ \E r \in LatestOf(i, mem.index) : Infra(r)
    BY <1>4 DEF HaltedByFault
  <2>2. /\ i \notin main'.pending /\ run'[i].pc = "none"
        /\ \E r \in LatestOf(i, mem'.index) : Infra(r)
    BY <2>1
  <2>3. HaltedByFault'
    BY <1>2, <1>4, <2>2 DEF HaltedByFault, Infra
  <2>4. QED
    BY <2>3 DEF Halted
<1>5. CASE HaltedByBreaker
  <2>1. Futures' = {} /\ mem'.index = mem.index /\ (main'.stop \/ main'.pending = {})
    BY <1>5 DEF HaltedByBreaker
  <2>2. HaltedByBreaker'
    BY <1>2, <1>5, <2>1 DEF HaltedByBreaker
  <2>3. QED
    BY <2>2 DEF Halted
<1>6. QED
  BY <1>3, <1>4, <1>5 DEF Halted

LEMMA CoverKept ==
  ASSUME TypeInv, CoverInv, main.pc \in Pool \cup {"finish", "verdict"},
         UNCHANGED run, mem'.index = mem.index, main'.pending = main.pending,
         main'.stop = main.stop, main'.internals = main.internals
  PROVE  CoverInv'
<1>1. main'.internals \in Nat /\ main'.internals >= main.internals
  BY DEF TypeInv, MainOK
<1>2. Futures' = Futures
  BY DEF Futures
<1>3. Halted => Halted'
  BY <1>1, <1>2, HaltedStays
<1>4. QED
  BY <1>3, GoodKept DEF CoverInv

LEMMA CoverPlan ==
  ASSUME TypeInv, IndexInv, CrewInv, CompletedInv, PlanWork
  PROVE  CoverInv'
<1>1. /\ MainOK(main) /\ main.pc = "plan" /\ mem' = mem
  BY DEF TypeInv, PlanWork, At
<1>2. ~ main.stop /\ main'.stop = main.stop
  BY <1>1 DEF PlanWork, MainOK, CrewInv, Early
<1>3. /\ main'.pending = Pending \ Window(Pending) /\ Pending \subseteq Item
      /\ Futures' = Window(Pending) /\ Window(Pending) \subseteq Pending
  <2>1. Executing /\ ~ Exit /\ Threads
    BY <1>1 DEF Executing, Exit, At, IndexInv
  <2>2. Futures' = Window(Pending)
    BY <2>1, FuturesSteps
  <2>3. main'.pending = Pending \ Window(Pending)
    BY <1>1 DEF PlanWork, MainOK
  <2>4. QED
    BY <2>2, <2>3 DEF Pending, Window
<1>4. CASE BreakerOpen(mem.index)
  <2>1. Futures' = {} /\ main'.pending = {}
    BY <1>3, <1>4 DEF Pending
  <2>2. BreakerOpen(mem.index)'
    BY <1>1, <1>4
  <2>3. Halted'
    BY <2>1, <2>2 DEF Halted, HaltedByBreaker
  <2>4. QED
    BY <2>3 DEF CoverInv
<1>5. CASE /\ ~ ContinueOnInfra /\ \E r \in LatestRecords(mem.index) : Infra(r) /\ r.validity = "valid"
  <2>1. Futures' = {} /\ main'.pending = {}
    BY <1>3, <1>5 DEF Pending
  <2>2. PICK r \in LatestRecords(mem.index) : Infra(r)
    BY <1>5
  <2>3. r.item \in Item /\ r \in LatestOf(r.item, mem.index)
    BY <2>2 DEF LatestOf, LatestRecords, IndexInv, FilesInv, Numbered
  <2>4. run'[r.item].pc = "none"
    BY <2>1, <2>3 DEF Futures
  <2>5. HaltedByFault'
    <3>1. \E q \in LatestOf(r.item, mem.index)' : Infra(q)
      BY <1>1, <2>2, <2>3 DEF LatestOf, LatestRecords
    <3>2. QED
      BY <1>5, <2>1, <2>3, <2>4, <3>1 DEF HaltedByFault, Infra
  <2>6. QED
    BY <2>5 DEF CoverInv, Halted
<1>6. CASE Pending = Item \ main.completed
  <2>1. SUFFICES ASSUME NEW i \in Item
                 PROVE  i \in main'.pending \/ run'[i].pc # "none" \/ Good(i)'
    BY <1>2 DEF CoverInv
  <2>2. CASE i \in main.completed
    BY <1>1, <2>2, GoodKept DEF CompletedInv, Early
  <2>3. CASE i \in Window(Pending)
    BY <1>3, <2>3 DEF Futures
  <2>4. QED
    BY <1>3, <1>6, <2>2, <2>3
<1>7. QED
  BY <1>4, <1>5, <1>6 DEF Pending

LEMMA CoverCollect ==
  ASSUME TypeInv, IndexInv, CrewInv, EndInv, CoverInv, NEW i \in Item, Collect(i)
  PROVE  CoverInv'
<1>1. /\ MainOK(main) /\ main.pc = "collect" /\ mem' = mem /\ Threads
      /\ i \in main.batch /\ run[i].exc = "none"
  BY DEF TypeInv, Collect, At, IndexInv
<1>2. /\ main'.pending = main.pending /\ main'.stop = (main.stop \/ Stops(i))
      /\ main'.internals = main.internals + Count(run[i].internal)
  BY <1>1 DEF Collect, MainOK
<1>3. /\ run[i].internal \in BOOLEAN /\ main.internals \in Nat
      /\ Count(TRUE) = 1 /\ Count(FALSE) = 0
  BY <1>1 DEF TypeInv, ItemRun, MainOK, Count
<1>4. /\ main'.internals \in Nat /\ main'.internals >= main.internals
      /\ run[i].internal => main'.internals > 0
  <2> DEFINE more == Count(run[i].internal)
  <2>1. \/ run[i].internal /\ more = 1
        \/ ~ run[i].internal /\ more = 0
    BY <1>3, Zenon
  <2>2. main'.internals = main.internals + more /\ main.internals \in Nat
    BY <1>2, <1>3, Zenon
  <2> HIDE DEF more
  <2>3. QED
    BY <2>1, <2>2
<1>s. (Executing /\ ~ Exit) \/ Interrupt
  BY <1>1 DEF Executing, Exit, At
<1>5. i \in Futures /\ Futures' = Futures \ {i}
  BY <1>1, <1>s, FuturesSteps
<1>6. \A j \in Item : run'[j] = IF i = j THEN NoRun ELSE run[j]
  BY Resubmitted DEF Collect
<1>7. run[i].pc = "done" /\ i \notin main.pending /\ NoRun.pc = "none"
  BY <1>1 DEF Threads, PoolInv, NoRun
<1>8. Ended(run[i]) /\ run[i].rec \in LatestOf(i, mem.index)
  BY <1>1, <1>7 DEF EndInv
<1>9. Halted => Halted'
  <2>1. \A j \in Item : run[j].pc = "none" /\ j \notin main.pending =>
           run'[j].pc = "none" /\ LatestOf(j, mem'.index) = LatestOf(j, mem.index)
    BY <1>1, <1>6, <1>7
  <2>2. QED
    BY <1>1, <1>2, <1>4, <1>5, <2>1, HaltedStays
<1>10. Infra(run[i].rec) /\ ~ ContinueOnInfra => Halted'
  <2>1. SUFFICES ASSUME Infra(run[i].rec), ~ ContinueOnInfra
                 PROVE  HaltedByFault'
    BY DEF Halted
  <2>2. i \notin main'.pending /\ run'[i].pc = "none"
    BY <1>2, <1>6, <1>7
  <2>3. \E r \in LatestOf(i, mem.index)' : Infra(r)
    BY <1>1, <1>8, <2>1 DEF LatestOf, LatestRecords
  <2>4. QED
    BY <2>1, <2>2, <2>3 DEF HaltedByFault, Infra
<1>11. main'.stop /\ MaxWorkers = 1 /\ BreakerOpen(mem.index) => Halted'
  <2>1. SUFFICES ASSUME main'.stop, MaxWorkers = 1, BreakerOpen(mem.index)
                 PROVE  HaltedByBreaker'
    BY DEF Halted
  <2>2. Futures' = {}
    <3>1. IsFiniteSet(Futures) /\ Cardinality(Futures) <= 1
      BY <1>1, <1>s, <2>1, FuturesSteps DEF CrewInv
    <3>2. Cardinality(Futures \ {i}) = Cardinality(Futures) - 1 /\ IsFiniteSet(Futures \ {i})
      BY <1>5, <3>1, FS_RemoveElement
    <3>3. Cardinality(Futures \ {i}) = 0
      BY <3>1, <3>2, FS_CardinalityType
    <3>4. QED
      BY <1>5, <3>2, <3>3, FS_EmptySet
  <2>3. BreakerOpen(mem.index)'
    BY <1>1, <2>1
  <2>4. QED
    BY <2>1, <2>2, <2>3 DEF HaltedByBreaker
<1>12. run[i].internal => Halted'
  BY <1>4 DEF Halted
<1>13. main'.stop => Halted'
  BY <1>1, <1>2, <1>9, <1>10, <1>11, <1>12 DEF CoverInv, Pool, Stops
<1>14. Halted' \/ \A j \in Item : j \in main'.pending \/ run'[j].pc # "none" \/ Good(j)'
  <2>1. SUFFICES ASSUME ~ Halted', NEW j \in Item
                 PROVE  j \in main'.pending \/ run'[j].pc # "none" \/ Good(j)'
    OBVIOUS
  <2>2. Good(j)' <=> Good(j)
    BY <1>1, GoodKept
  <2>3. CASE j = i
    BY <1>1, <1>8, <1>12, <2>1, <2>2, <2>3 DEF Ended, Good
  <2>4. CASE j # i
    BY <1>1, <1>2, <1>6, <1>9, <2>1, <2>2, <2>4 DEF CoverInv, Pool
  <2>5. QED
    BY <2>3, <2>4
<1>15. QED
  BY <1>13, <1>14 DEF CoverInv

LEMMA CoverRefill ==
  ASSUME TypeInv, Threads, CoverInv, Refill
  PROVE  CoverInv'
<1> DEFINE next == {i \in main.pending : \A j \in main.pending : i <= j}
<1>1. /\ MainOK(main) /\ main.pc = "refill" /\ mem' = mem /\ ~ main.stop
      /\ main'.pending = main.pending \ next /\ main'.stop = main.stop
      /\ main'.internals = main.internals /\ main.internals \in Nat
  BY DEF TypeInv, Refill, At, MainOK
<1>2. Futures' = Futures \cup next /\ next \subseteq main.pending
  BY FuturesSteps DEF Executing, Refill, Exit, At
<1> HIDE DEF next
<1>3. \A j \in Item : run[j].pc = "none" /\ j \notin main.pending => run'[j].pc = "none"
  BY <1>2 DEF Futures
<1>4. \A j \in Item : run[j].pc # "none" \/ j \in next => run'[j].pc # "none"
  BY <1>2 DEF Futures
<1>5. Halted => Halted'
  BY <1>1, <1>2, <1>3, HaltedStays
<1>6. \A j : Good(j)' <=> Good(j)
  BY <1>1, GoodKept
<1>7. QED
  BY <1>1, <1>4, <1>5, <1>6 DEF CoverInv, Pool

LEMMA CoverStop ==
  ASSUME TypeInv, Threads, CoverInv, StopScheduling
  PROVE  CoverInv'
<1>1. /\ MainOK(main) /\ main.pc = "refill" /\ mem' = mem /\ main.stop
      /\ main'.pending = main.pending /\ main'.stop = main.stop
      /\ main'.internals = main.internals /\ main.internals \in Nat
  BY DEF TypeInv, StopScheduling, At, MainOK
<1>2. Futures' \subseteq Futures
  BY FuturesSteps DEF Executing, StopScheduling, Exit, At, Refill, PlanWork
<1>3. \A j \in Item : run[j].pc = "none" => run'[j].pc = "none"
  BY <1>2 DEF Futures
<1>4. Halted'
  BY <1>1, <1>2, <1>3, HaltedStays DEF CoverInv, Pool
<1>5. QED
  BY <1>4 DEF CoverInv

LEMMA CoverWorker ==
  ASSUME TypeInv, IndexInv, CoverInv, NEW i \in Item, RunItem(i)
  PROVE  CoverInv'
<1>1. /\ run[i].pc # "none" /\ run'[i].pc # "none" /\ main' = main /\ Futures' = Futures
      /\ \A j \in Item \ {i} : run'[j] = run[j]
  BY WorkerSteps, WorkerStays
<1>2. \A j \in Item : j # i => LatestOf(j, mem'.index) = LatestOf(j, mem.index)
  BY TerminalLatest, WorkerRecords DEF IndexInv
<1>3. i \in Futures /\ main.internals \in Nat
  BY <1>1 DEF Futures, TypeInv, MainOK
<1>4. Halted => Halted'
  BY <1>1, <1>2, <1>3, HaltedStays
<1>5. \A j \in Item : j # i => (Good(j)' <=> Good(j))
  <2>1. \A j : LatestOf(j, mem.index)' = LatestOf(j, mem'.index)
    BY DEF LatestOf, LatestRecords
  <2>2. QED
    BY <1>2, <2>1 DEF Good, Infra
<1>6. QED
  BY <1>1, <1>4, <1>5 DEF CoverInv

LEMMA CoverNext ==
  ASSUME TypeInv, LedgerInv, IndexInv, CrewInv, EndInv, CompletedInv, CoverInv, [Next]_vars
  PROVE  CoverInv'
<1>1. Threads /\ MainOK(main)
  BY DEF TypeInv, IndexInv
<1>2. CASE Run \/ Resume \/ Initialize \/ Execute \/ Prepare \/ Crash \/ Exit
  BY <1>1, <1>2 DEF Run, Resume, Initialize, Execute, Prepare, Crash, Exit, Gone, IdleMain, MainOK,
                    CoverInv, Pool
<1>3. CASE Dump \/ (\E c \in children : DamageChild(c)) \/ UNCHANGED vars
  <2>1. UNCHANGED <<main, run, mem>>
    BY <1>3 DEF Dump, DamageChild, vars
  <2>2. CASE main.pc \in Pool \cup {"finish", "verdict"}
    BY <2>1, <2>2, CoverKept
  <2>3. CASE main.pc \notin Pool \cup {"finish", "verdict"}
    BY <2>1, <2>3 DEF CoverInv
  <2>4. QED
    BY <2>2, <2>3
<1>4. CASE Resuming
  BY <1>4, ResumingMoves DEF MainMoves, ResumePc, CoverInv, Pool
<1>5. CASE (Executing /\ ~ Exit) \/ Interrupt
  <2>1. CASE PlanWork
    BY <2>1, CoverPlan
  <2>2. CASE \E i \in Item : Collect(i)
    BY <2>2, CoverCollect
  <2>3. CASE Refill \/ StopScheduling
    BY <1>1, <2>3, CoverRefill, CoverStop
  <2>4. CASE Wait \/ WaitDone \/ IntervalCheckpoint \/ FinalCheckpoint \/ SkipFinalCheckpoint
    <3>1. UNCHANGED run
      BY <2>4 DEF Wait, WaitDone, IntervalCheckpoint, FinalCheckpoint, SkipFinalCheckpoint,
                  WriteCheckpoint
    <3>2. main.pc \in Pool \cup {"finish", "verdict"}
      BY <2>4, ExecutingMoves DEF MainMoves, Pool
    <3>3. mem'.index = mem.index
      BY <1>5, PlainExecuting DEF Plain, Unfiled
    <3>4. /\ main'.pending = main.pending /\ main'.stop = main.stop
          /\ main'.internals = main.internals
      BY <1>1, <2>4 DEF Wait, WaitDone, IntervalCheckpoint, FinalCheckpoint, SkipFinalCheckpoint,
                  WriteCheckpoint, MainOK
    <3>5. QED
      BY <3>1, <3>2, <3>3, <3>4, CoverKept
  <2>5. CASE ~ (\/ PlanWork \/ (\E i \in Item : Collect(i)) \/ Refill \/ StopScheduling
                \/ Wait \/ WaitDone \/ IntervalCheckpoint \/ FinalCheckpoint \/ SkipFinalCheckpoint)
    <3>1. main'.pc \notin Pool \cup {"finish", "verdict"}
      BY <1>5, <2>5, ExecutingMoves DEF Executing, MainMoves, Pool
    <3>2. QED
      BY <3>1 DEF CoverInv
  <2>6. QED
    BY <2>1, <2>2, <2>3, <2>4, <2>5
<1>6. ASSUME NEW i \in Item, RunItem(i)
      PROVE  CoverInv'
  BY <1>6, CoverWorker
<1>7. QED
  BY <1>2, <1>3, <1>4, <1>5, <1>6 DEF Next, ControllerStep

-----------------------------------------------------------------------------
(* Every authorization has an outcome                                      *)

(* Under the strict policy an authorized item has a record, or a worker is *)
(* about to write one, or a Ctrl-C ends the session.                       *)
Owed == {"launch", "running", "returned", "terminal"}
Answering(r) == r.pc \in Owed \/ (r.pc = "done" /\ r.exc = "interrupt")
LedgerCoverInv ==
  (Strict /\ main.pc \in Pool \cup Over) =>
    \A i \in AuthorizedItems : LatestOf(i, mem.index) # {} \/ Answering(run[i])

LEMMA LedgerCoverKept ==
  ASSUME LedgerCoverInv, main.pc \in Pool \cup Over, disk'.ledger = disk.ledger,
         mem'.index = mem.index,
         \A j \in AuthorizedItems : run'[j] = run[j] \/ ~ Answering(run[j])
                                      \/ LatestOf(j, mem.index) # {}
  PROVE  LedgerCoverInv'
<1>1. /\ AuthorizedItems' = AuthorizedItems
      /\ \A j : LatestOf(j, mem.index)' = LatestOf(j, mem'.index)
  BY DEF AuthorizedItems, LatestOf, LatestRecords
<1>2. SUFFICES ASSUME Strict, NEW j \in AuthorizedItems
               PROVE  LatestOf(j, mem'.index) # {} \/ Answering(run'[j])
  BY <1>1 DEF LedgerCoverInv, Answering
<1>3. LatestOf(j, mem.index) # {} \/ Answering(run[j])
  BY <1>2 DEF LedgerCoverInv
<1>4. QED
  BY <1>2, <1>3

LEMMA LedgerCoverExecuting ==
  ASSUME TypeInv, LedgerInv, IndexInv, ResumeInv, CompletedInv, EndInv, LedgerCoverInv,
         (Executing /\ ~ Exit) \/ Interrupt
  PROVE  LedgerCoverInv'
<1>1. MainOK(main) /\ Threads /\ disk'.ledger = disk.ledger /\ mem'.index = mem.index
  BY PlainExecuting DEF TypeInv, IndexInv, Plain, Unfiled
<1>2. AuthorizedItems \subseteq Item
  BY DEF AuthorizedItems, TypeInv, ParentOK, Parent, Authorization
<1>3. /\ AuthorizedItems' = AuthorizedItems
      /\ \A j : LatestOf(j, mem.index)' = LatestOf(j, mem'.index)
  BY <1>1 DEF AuthorizedItems, LatestOf, LatestRecords
<1>4. CASE PlanWork
  <2>1. main.pc = "plan"
    BY <1>4 DEF PlanWork, At
  <2>2. Strict => \A i \in AuthorizedItems : LatestOf(i, mem.index) # {}
    BY <1>2, <2>1 DEF ResumeInv, Settled, Spent, CompletedInv, Early, Good
  <2>3. QED
    BY <1>1, <1>3, <2>2 DEF LedgerCoverInv
<1>5. ASSUME NEW i \in Item, Collect(i)
      PROVE  LedgerCoverInv'
  <2>1. /\ main.pc = "collect" /\ i \in main.batch /\ run[i].exc = "none"
        /\ run' = [run EXCEPT ![i] = NoRun]
    BY <1>5 DEF Collect, At
  <2>2. run[i].rec \in LatestOf(i, mem.index)
    BY <1>1, <2>1 DEF Threads, PoolInv, EndInv
  <2>3. \A j \in Item : run'[j] = IF i = j THEN NoRun ELSE run[j]
    BY <2>1, Resubmitted
  <2>4. QED
    BY <1>1, <1>2, <2>1, <2>2, <2>3, LedgerCoverKept DEF Pool
<1>6. CASE Refill
  <2> DEFINE next == {i \in main.pending : \A j \in main.pending : i <= j}
  <2>1. main.pc = "refill" /\ Submit(next) /\ next \subseteq main.pending
    BY <1>6 DEF Refill, At
  <2>2. \A j \in next : ~ Answering(run[j])
    BY <1>1, <2>1 DEF Threads, PoolInv, Answering, Owed
  <2> HIDE DEF next
  <2>3. \A j \in Item : j \notin next => run'[j] = run[j]
    BY <2>1, Resubmitted
  <2>4. QED
    BY <1>1, <1>2, <2>1, <2>2, <2>3, LedgerCoverKept DEF Pool
<1>7. CASE StopScheduling
  <2>1. main.pc = "refill" /\ (run' = Cancelled \/ run' = run)
    BY <1>7 DEF StopScheduling, At
  <2>2. \A j \in Item : run'[j] = run[j] \/ run[j].pc = "queued"
    BY <2>1, Resubmitted
  <2>3. \A j \in Item : run'[j] = run[j] \/ ~ Answering(run[j])
    BY <2>2 DEF Answering, Owed
  <2>4. QED
    BY <1>1, <1>2, <2>1, <2>3, LedgerCoverKept DEF Pool
<1>8. CASE \/ Wait \/ WaitDone \/ IntervalCheckpoint \/ FinalCheckpoint \/ SkipFinalCheckpoint
           \/ Verdict \/ ReportsGenerated
  <2>1. run' = run
    BY <1>8 DEF Wait, WaitDone, IntervalCheckpoint, FinalCheckpoint, SkipFinalCheckpoint,
                WriteCheckpoint, Verdict, ReportsGenerated
  <2>2. main.pc \in Pool \cup Over
    BY <1>8, ExecutingMoves DEF MainMoves, Pool, Over
  <2>3. QED
    BY <1>1, <2>1, <2>2, LedgerCoverKept
<1>9. CASE ~ (\/ PlanWork \/ (\E i \in Item : Collect(i)) \/ Refill \/ StopScheduling
              \/ Wait \/ WaitDone \/ IntervalCheckpoint \/ FinalCheckpoint \/ SkipFinalCheckpoint
              \/ Verdict \/ ReportsGenerated)
  <2>1. main'.pc \notin Pool \cup Over
    BY <1>9, ExecutingMoves DEF Executing, MainMoves, Pool, Over
  <2>2. QED
    BY <2>1 DEF LedgerCoverInv
<1>10. QED
  BY <1>4, <1>5, <1>6, <1>7, <1>8, <1>9

LEMMA WorkerAnswers ==
  ASSUME TypeInv, NEW i \in Item, RunItem(i)
  PROVE  /\ Answering(run[i]) => Answering(run'[i]) \/ Terminal(i)
         /\ Authorize(i) => Answering(run'[i])
<1>1. run \in [Item -> ItemRun] /\ run[i].pc # "done"
  BY WorkerSteps DEF TypeInv
<1>2. CASE LaunchChild(i)
  <2>1. run'[i].pc = "running"
    BY <1>1, <1>2 DEF LaunchChild, ItemRun
  <2>2. QED
    BY <1>2, <2>1 DEF Answering, Owed, LaunchChild, RunAt, Authorize
<1>3. CASE ChildInterrupted(i)
  <2>1. run'[i].pc = "done" /\ run'[i].exc = "interrupt"
    BY <1>1, <1>3 DEF ChildInterrupted, ItemRun
  <2>2. QED
    BY <2>1 DEF Answering
<1>4. CASE Authorize(i) \/ NoAuthorizationNeeded(i) \/ ChildReturns(i)
  <2>1. ToPc(i, "launch") \/ ToPc(i, "returned")
    BY <1>4 DEF Authorize, NoAuthorizationNeeded, ChildReturns
  <2>2. QED
    BY <2>1, ToPcFields DEF Answering, Owed
<1>5. CASE ChildPersistsManifest(i)
  BY <1>5 DEF ChildPersistsManifest, Authorize, RunAt
<1>6. CASE ContractFails(i) \/ AuthorizationRefused(i) \/ ChildRaises(i) \/ AcceptResult(i)
  <2>1. \E s, v, f, e, b : Conclude(i, s, v, f, e, b)
    BY <1>6 DEF ContractFails, AuthorizationRefused, ChildRaises, AcceptResult, ConcludeFailed
  <2>2. QED
    BY <2>1, ConcludeFields DEF Answering, Owed
<1>7. CASE Scheduled(i) \/ ScheduledEvent(i) \/ Started(i) \/ StartedEvent(i) \/ TerminalEvent(i)
  <2>1. run[i].pc \in {"queued", "scheduled", "start", "started", "recorded"}
    BY <1>7 DEF Scheduled, ScheduledEvent, Started, StartedEvent, TerminalEvent, RunAt
  <2>2. QED
    BY <2>1 DEF Answering, Owed, Authorize, RunAt
<1>8. CASE Terminal(i)
  BY <1>8 DEF Terminal, Authorize, RunAt
<1>9. QED
  BY <1>2, <1>3, <1>4, <1>5, <1>6, <1>7, <1>8 DEF RunItem

LEMMA LedgerCoverWorker ==
  ASSUME TypeInv, LedgerInv, IndexInv, LedgerCoverInv, NEW i \in Item, RunItem(i)
  PROVE  LedgerCoverInv'
<1>1. main' = main /\ \A j \in Item \ {i} : run'[j] = run[j]
  BY WorkerSteps
<1>2. AuthorizedItems \subseteq Item /\ AuthorizedItems' \subseteq Item
  <2>1. TypeInv'
    BY TypeInvNext DEF Next, ControllerStep
  <2>2. QED
    BY <2>1 DEF AuthorizedItems, TypeInv, ParentOK, Parent, Authorization
<1>3. \A j : LatestOf(j, mem.index)' = LatestOf(j, mem'.index)
  BY DEF LatestOf, LatestRecords
<1>4. \A j \in Item : LatestOf(j, mem.index) # {} => LatestOf(j, mem'.index) # {}
  BY TerminalLatest, WorkerRecords DEF IndexInv
<1>5. Terminal(i) => LatestOf(i, mem'.index) # {}
  BY TerminalLatest DEF IndexInv
<1>6. AuthorizedItems' = AuthorizedItems \/ (Authorize(i) /\ AuthorizedItems' = AuthorizedItems \cup {i})
  <2>1. CASE Authorize(i)
    BY <2>1, AuthorizeStep
  <2>2. CASE ~ Authorize(i)
    <3>1. disk' = disk
      BY <2>2, PlainWorker DEF Terminal, TerminalEvent, Worker
    <3>2. QED
      BY <3>1 DEF AuthorizedItems
  <2>3. QED
    BY <2>1, <2>2
<1>7. SUFFICES ASSUME Strict, main.pc \in Pool \cup Over, NEW j \in AuthorizedItems'
               PROVE  LatestOf(j, mem'.index) # {} \/ Answering(run'[j])
  BY <1>1, <1>3 DEF LedgerCoverInv, Answering
<1>8. CASE j \in AuthorizedItems
  <2>1. LatestOf(j, mem.index) # {} \/ Answering(run[j])
    BY <1>7, <1>8 DEF LedgerCoverInv
  <2>2. QED
    BY <1>1, <1>2, <1>4, <1>5, <1>8, <2>1, WorkerAnswers
<1>9. CASE j \notin AuthorizedItems
  BY <1>6, <1>9, WorkerAnswers
<1>10. QED
  BY <1>8, <1>9

LEMMA LedgerCoverNext ==
  ASSUME TypeInv, LedgerInv, IndexInv, ResumeInv, CompletedInv, EndInv, LedgerCoverInv, [Next]_vars
  PROVE  LedgerCoverInv'
<1>1. MainOK(main)
  BY DEF TypeInv
<1>2. CASE Run \/ Resume \/ Initialize \/ Execute \/ Prepare \/ Crash \/ Exit
  BY <1>1, <1>2 DEF Run, Resume, Initialize, Execute, Prepare, Crash, Exit, Gone, IdleMain, MainOK,
                    LedgerCoverInv, Pool, Over
<1>3. CASE Dump \/ (\E c \in children : DamageChild(c)) \/ UNCHANGED vars
  <2>1. UNCHANGED <<main, run, mem>> /\ disk'.ledger = disk.ledger
    BY <1>3, DumpQuiet DEF Dump, DamageChild, vars, Quiet
  <2>2. CASE main.pc \in Pool \cup Over
    BY <2>1, <2>2, LedgerCoverKept
  <2>3. CASE main.pc \notin Pool \cup Over
    BY <2>1, <2>3 DEF LedgerCoverInv
  <2>4. QED
    BY <2>2, <2>3
<1>4. CASE Resuming
  BY <1>4, ResumingMoves DEF MainMoves, ResumePc, LedgerCoverInv, Pool, Over
<1>5. CASE (Executing /\ ~ Exit) \/ Interrupt
  BY <1>5, LedgerCoverExecuting
<1>6. ASSUME NEW i \in Item, RunItem(i)
      PROVE  LedgerCoverInv'
  BY <1>6, LedgerCoverWorker
<1>7. QED
  BY <1>2, <1>3, <1>4, <1>5, <1>6 DEF Next, ControllerStep

-----------------------------------------------------------------------------
(* What the verdict says                                                   *)

AllAccepted(ix) ==
  \A i \in Item : \E r \in LatestOf(i, ix) : r.validity = "valid" /\ ~ Infra(r)
ExcusedGaps(ix) ==
  \/ \E r \in LatestRecords(ix) : Infra(r) /\ ~ ContinueOnInfra
  \/ BreakerOpen(ix)
  \/ \A i \in Item : LatestOf(i, ix) # {}

TruthInv ==
  main.pc \in {"report", "seal"} =>
    /\ mem.state.active = 0
    /\ mem.manifest = "completed" => AllAccepted(mem.index)
    /\ mem.manifest = "completed_with_infrastructure_errors" => ExcusedGaps(mem.index)

(* A set whose size reaches a positive limit has an element.               *)
LEMMA ReachedIsInhabited ==
  ASSUME NEW S, NEW n \in Nat \ {0}, Cardinality(S) >= n
  PROVE  \E x \in S : TRUE
<1>1. Cardinality({}) = 0
  BY FS_EmptySet
<1>2. ASSUME S = {} PROVE FALSE
  BY <1>1, <1>2
<1>3. QED
  BY <1>2

(* A breaker opens on a fault.                                             *)
LEMMA BreakerNeedsFault ==
  ASSUME NEW ix \in SUBSET IndexRecord, BreakerOpen(ix)
  PROVE  \E r \in LatestRecords(ix) : Infra(r)
<1> DEFINE latest == LatestRecords(ix)
           Trailing(c) == {r \in latest : \A q \in latest : q.item >= r.item => q.fault = c}
<1>1. latest \subseteq ix /\ \A r \in latest : r.item \in Nat
  BY DEF LatestRecords, IndexRecord
<1>2. \/ /\ MaxTotalInfra # NoLimit
         /\ Cardinality({r \in latest : Infra(r)}) >= MaxTotalInfra
      \/ /\ MaxSameShared # NoLimit
         /\ \E c \in SharedCategories : Cardinality(Trailing(c)) >= MaxSameShared
  BY DEF BreakerOpen
<1>3. Cardinality({}) = 0 /\ "none" \notin SharedCategories
  BY FS_EmptySet, ConfigAssumption
<1>4. CASE MaxTotalInfra # NoLimit /\ Cardinality({r \in latest : Infra(r)}) >= MaxTotalInfra
  <2>1. MaxTotalInfra \in Nat \ {0}
    BY <1>4, ConfigAssumption
  <2>2. \E x \in {r \in latest : Infra(r)} : TRUE
    BY <1>4, <2>1, ReachedIsInhabited, Zenon
  <2>3. QED
    BY <2>2
<1>5. ASSUME NEW c \in SharedCategories, MaxSameShared # NoLimit,
             Cardinality(Trailing(c)) >= MaxSameShared
      PROVE  \E r \in latest : Infra(r)
  <2>1. MaxSameShared \in Nat \ {0}
    BY <1>5, ConfigAssumption
  <2>2. \E x \in Trailing(c) : TRUE
    BY <1>5, <2>1, ReachedIsInhabited, Zenon
  <2>3. PICK r \in latest : \A q \in latest : q.item >= r.item => q.fault = c
    BY <2>2
  <2>4. r.fault = c
    BY <1>1, <2>3
  <2>5. QED
    BY <1>3, <1>5, <2>4 DEF Infra
<1>6. QED
  BY <1>2, <1>4, <1>5

LEMMA TruthVerdict ==
  ASSUME TypeInv, IndexInv, SealInv, CrewInv, CoverInv, Verdict
  PROVE  TruthInv'
<1>1. /\ main.pc = "verdict" /\ SetStatus(FinalStatus) /\ Threads /\ MainOK(main)
      /\ mem \in Parent /\ mem.state \in State /\ mem.index \in SUBSET IndexRecord
  BY DEF Verdict, At, IndexInv, TypeInv, ParentOK, Parent
<1>2. /\ mem'.manifest = FinalStatus /\ mem'.index = mem.index /\ mem'.state.active = 0
  BY <1>1 DEF SetStatus, Locked, Parent, State
<1>3. /\ Futures = {} /\ (main.pending = {} \/ main.stop) /\ main.internals \in Nat
      /\ main.stop => Halted
      /\ Halted \/ \A i \in Item : i \in main.pending \/ run[i].pc # "none" \/ Good(i)
  BY <1>1 DEF SealInv, CrewInv, Over, MainOK, CoverInv
<1>4. (\A i \in Item : Good(i)) \/ Halted
  BY <1>3 DEF Futures
<1>5. HaltedByFault => \E r \in LatestRecords(mem.index) : Infra(r) /\ ~ ContinueOnInfra
  BY DEF HaltedByFault, LatestOf
<1>6. ASSUME FinalStatus = "completed"
      PROVE  AllAccepted(mem.index)
  <2>1. main.internals = 0 /\ \A r \in LatestRecords(mem.index) : ~ Infra(r)
    BY <1>3, <1>6 DEF FinalStatus
  <2>2. ~ Halted
    BY <1>1, <1>5, <2>1, BreakerNeedsFault DEF Halted, HaltedByBreaker
  <2>3. QED
    BY <1>4, <2>1, <2>2 DEF Good, AllAccepted, LatestOf
<1>7. ASSUME FinalStatus = "completed_with_infrastructure_errors"
      PROVE  ExcusedGaps(mem.index)
  <2>1. main.internals = 0
    BY <1>3, <1>7 DEF FinalStatus
  <2>2. CASE Halted
    BY <1>5, <2>1, <2>2 DEF Halted, HaltedByBreaker, ExcusedGaps
  <2>3. CASE \A i \in Item : Good(i)
    BY <2>3 DEF Good, ExcusedGaps
  <2>4. QED
    BY <1>4, <2>2, <2>3
<1>8. /\ AllAccepted(mem.index)' <=> AllAccepted(mem'.index)
      /\ ExcusedGaps(mem.index)' <=> ExcusedGaps(mem'.index)
  BY DEF AllAccepted, ExcusedGaps
<1>9. QED
  BY <1>2, <1>6, <1>7, <1>8 DEF TruthInv

LEMMA TruthNext ==
  ASSUME TypeInv, LedgerInv, IndexInv, SealInv, CrewInv, CoverInv, TruthInv, [Next]_vars
  PROVE  TruthInv'
<1>1. MainOK(main) /\ Threads
  BY DEF TypeInv, IndexInv
<1>2. CASE Run \/ Resume \/ Initialize \/ Execute \/ Prepare \/ Crash \/ Exit
  BY <1>1, <1>2 DEF Run, Resume, Initialize, Execute, Prepare, Crash, Exit, Gone, IdleMain, MainOK,
                    TruthInv
<1>3. CASE Dump \/ (\E c \in children : DamageChild(c)) \/ UNCHANGED vars
  BY <1>3 DEF Dump, DamageChild, vars, TruthInv
<1>4. CASE Resuming
  BY <1>4, ResumingMoves DEF MainMoves, ResumePc, TruthInv
<1>5. CASE (Executing /\ ~ Exit) \/ Interrupt
  <2>1. CASE Verdict
    BY <2>1, TruthVerdict
  <2>2. CASE ReportsGenerated
    BY <2>2 DEF ReportsGenerated, At, TruthInv
  <2>3. CASE ~ Verdict /\ ~ ReportsGenerated
    BY <1>5, <2>3, ExecutingMoves DEF Executing, MainMoves, TruthInv
  <2>4. QED
    BY <2>1, <2>2, <2>3
<1>6. ASSUME NEW i \in Item, RunItem(i)
      PROVE  TruthInv'
  BY <1>1, <1>6, WorkersAreFutures, WorkerSteps DEF Over, TruthInv
<1>7. QED
  BY <1>2, <1>3, <1>4, <1>5, <1>6 DEF Next, ControllerStep

(* The seal is put on what the controller held in memory.                  *)
LEMMA SealedTruth ==
  ASSUME TypeInv, LedgerInv, IndexInv, CountersInv, AgreeInv, SealInv, LedgerCoverInv, TruthInv,
         WriteArtifactManifest
  PROVE  SealedExperimentIsComplete'
<1>1. main.pc = "seal" /\ lock = Free /\ disk' = disk
  BY DEF WriteArtifactManifest, At
<1>2. /\ disk.state = mem.state /\ disk.manifest = mem.manifest /\ mem.state.status = mem.manifest
  <2>1. lock.dumps # <<"manifest", "state">>
    BY <1>1 DEF Free
  <2>2. QED
    BY <1>1, <2>1 DEF AgreeInv, Late
<1>3. disk.index = mem.index /\ disk.ledger = mem.ledger
  BY <1>1, DumpOrder DEF IndexInv, FilesInv, Live, LedgerInv
<1>4. \A c \in {"terminal", "valid", "infra", "corrupt", "authorized"} :
        disk.state[c] = RecoveredState(disk)[c]
  <2>1. Counted(disk.state, disk.index, disk.ledger)
    BY <1>1, <1>2, <1>3 DEF CountersInv, Live
  <2>2. QED
    BY <2>1 DEF Counted, RecoveredState, ValidIn, InfraIn, CorruptIn
<1>5. Strict => AuthorizedItems \subseteq {r.item : r \in disk.index}
  <2>1. SUFFICES ASSUME Strict, NEW i \in AuthorizedItems
                 PROVE  \E r \in disk.index : r.item = i
    OBVIOUS
  <2>2. i \in Item
    BY DEF AuthorizedItems, TypeInv, ParentOK, Parent, Authorization
  <2>3. run[i].pc = "none"
    BY <1>1, <2>2 DEF SealInv, Over, Futures
  <2>4. LatestOf(i, mem.index) # {}
    BY <1>1, <2>1, <2>3 DEF LedgerCoverInv, Over, Answering, Owed
  <2>5. QED
    BY <1>3, <2>4 DEF LatestOf, LatestRecords
<1>6. /\ disk.state.active = 0
      /\ disk.manifest = "completed" => AllAccepted(disk.index)
      /\ disk.manifest = "completed_with_infrastructure_errors" => ExcusedGaps(disk.index)
  BY <1>1, <1>2, <1>3 DEF TruthInv
<1>7. UNCHANGED <<AuthorizedItems, RecoveredState(disk)>>
  BY <1>1 DEF AuthorizedItems, RecoveredState, ReservedCalls
<1>8. QED
  BY <1>1, <1>2, <1>4, <1>5, <1>6, <1>7
     DEF SealedExperimentIsComplete, AllAccepted, ExcusedGaps, Infra

OutcomeInv ==
  /\ CrewInv /\ EndInv /\ CompletedInv /\ CoverInv /\ LedgerCoverInv /\ TruthInv
  /\ SealedExperimentIsComplete

LEMMA OutcomeNext ==
  ASSUME TypeInv, LedgerInv, IndexInv, CountersInv, ResumeInv, AgreeInv, SealInv, OutcomeInv,
         [Next]_vars
  PROVE  OutcomeInv'
<1>1. /\ CrewInv /\ EndInv /\ CompletedInv /\ CoverInv /\ LedgerCoverInv /\ TruthInv
      /\ SealedExperimentIsComplete /\ Threads
  BY DEF OutcomeInv, IndexInv
<1>2. CrewInv' /\ EndInv' /\ CompletedInv' /\ CoverInv' /\ LedgerCoverInv' /\ TruthInv'
  BY <1>1, CrewNext, EndNext, CompletedNext, CoverNext, LedgerCoverNext, TruthNext
<1>3. SealedExperimentIsComplete'
  <2>1. CASE sealed' = "fresh"
    <3>1. CASE WriteArtifactManifest
      BY <1>1, <3>1, SealedTruth
    <3>2. CASE sealed = "fresh" /\ disk' = disk
      BY <1>1, <3>2 DEF SealedExperimentIsComplete, AuthorizedItems
    <3>3. QED
      BY <1>1, <2>1, <3>1, <3>2, FreshSteps
  <2>2. CASE sealed' # "fresh"
    BY <2>2 DEF SealedExperimentIsComplete
  <2>3. QED
    BY <2>1, <2>2
<1>4. QED
  BY <1>2, <1>3 DEF OutcomeInv

(* At every point the controller accounts for each plan item and each      *)
(* authorization: an outcome, work in progress, or a reason to stop.       *)
THEOREM OutcomeInvariance == Spec => []OutcomeInv
<1>1. Init => OutcomeInv
  <2>1. SUFFICES ASSUME Init
                 PROVE  OutcomeInv
    OBVIOUS
  <2>2. /\ main = IdleMain /\ run = [i \in Item |-> NoRun] /\ sealed = "absent"
        /\ NoRun.pc = "none" /\ main.pc = "idle" /\ main.completed = {}
        /\ ~ main.stop /\ main.internals = 0
    BY <2>1 DEF Init, IdleMain, NoRun
  <2>3. Futures = {}
    BY <2>2 DEF Futures
  <2>4. MaxWorkers \in Nat /\ Cardinality({}) = 0
    BY FS_EmptySet, ConfigAssumption
  <2>5. CrewInv
    BY <2>2, <2>3, <2>4 DEF CrewInv, Over
  <2>6. EndInv /\ CompletedInv
    BY <2>2 DEF EndInv, CompletedInv
  <2>7. CoverInv /\ LedgerCoverInv /\ TruthInv
    BY <2>2 DEF CoverInv, LedgerCoverInv, TruthInv, Pool, Over
  <2>8. SealedExperimentIsComplete
    BY <2>2 DEF SealedExperimentIsComplete
  <2>9. QED
    BY <2>5, <2>6, <2>7, <2>8 DEF OutcomeInv
<1>2. TypeInv /\ LedgerInv /\ IndexInv /\ CountersInv /\ ResumeInv /\ (AgreeInv /\ SealInv)
        /\ OutcomeInv /\ [Next]_vars
        => OutcomeInv'
  BY OutcomeNext
<1>3. QED
  BY <1>1, <1>2, TypeInvariance, LedgerInvariance, IndexInvariance, CountersInvariance,
     ChildInvariance, PointsInvariance, PTL DEF Spec

(* What a sealed experiment says of itself is true: its files agree, its   *)
(* counters are those of the index, every strict authorization has an      *)
(* outcome, "completed" means an accepted result for each item, and a gap  *)
(* has the reason the status names (_execute, FinalStatus).                *)
THEOREM SealedExperimentsAreComplete == Spec => []SealedExperimentIsComplete
<1>1. OutcomeInv => SealedExperimentIsComplete
  BY DEF OutcomeInv
<1>2. QED
  BY <1>1, OutcomeInvariance, PTL

-----------------------------------------------------------------------------
(* What a crash would leave to the next session                            *)

(* A directory that a resume would accept, and that the index misses.      *)
Orphaned(i, ix) == \E c \in Unindexed(ix) : c.item = i /\ Replays(c)

(* While the pool works the index on disk lacks at most the record of the  *)
(* worker that owns the lock, and an orphan in the making has a worker.    *)
LagInv ==
  (main.pc \notin Early /\ lock.dumps = IndexFirst) =>
    \E i \in Item : /\ lock.holder = i /\ run[i].pc = "recorded"
                    /\ run[i].rec.item = i
                    /\ mem.index = disk.index \cup {run[i].rec}
OrphanInv ==
  main.pc \notin Early =>
    \A c \in Unindexed(mem.index) : Replays(c) =>
      /\ run[c.item].pc \in {"returned", "terminal"}
      /\ c.serial = run[c.item].serial

(* The main thread takes no item away from a worker in the middle of it.   *)
LEMMA BusyStays ==
  ASSUME TypeInv, Threads, (Executing /\ ~ Exit) \/ Interrupt, NEW j \in Item,
         run[j].pc \notin {"none", "queued", "done"}
  PROVE  run'[j] = run[j]
<1>1. j \notin main.batch /\ j \notin main.pending /\ main.pc \notin Early
  BY DEF Threads, PoolInv
<1>2. Cancelled[j] = run[j]
  BY Resubmitted
<1>3. CASE PlanWork
  BY <1>1, <1>3 DEF PlanWork, At, Early
<1>4. CASE Refill
  <2> DEFINE next == {i \in main.pending : \A k \in main.pending : i <= k}
  <2>1. Submit(next) /\ j \notin next
    BY <1>1, <1>4 DEF Refill
  <2> HIDE DEF next
  <2>2. QED
    BY <2>1, Resubmitted
<1>5. ASSUME NEW i \in Item, Collect(i) \/ CollectException(i)
      PROVE  run'[j] = run[j]
  <2>1. i # j
    BY <1>1, <1>5 DEF Collect, CollectException
  <2>2. run' = [run EXCEPT ![i] = NoRun] \/ run' = [Cancelled EXCEPT ![i] = NoRun]
    BY <1>5 DEF Collect, CollectException
  <2>3. QED
    BY <1>2, <2>1, <2>2, Resubmitted
<1>6. CASE StopScheduling \/ Interrupt
  BY <1>2, <1>6 DEF StopScheduling, Interrupt
<1>7. CASE \/ RemoveArtifactManifest \/ SetRunning \/ Wait \/ WaitDone \/ IntervalCheckpoint
           \/ HandleException \/ InterruptedEvent \/ FinalCheckpoint \/ SkipFinalCheckpoint
           \/ Verdict \/ ReportsGenerated \/ ReportsFailed \/ WriteArtifactManifest
  BY <1>7 DEF RemoveArtifactManifest, SetRunning, Wait, WaitDone, IntervalCheckpoint,
     HandleException, InterruptedEvent, FinalCheckpoint, SkipFinalCheckpoint, Verdict,
     ReportsGenerated, ReportsFailed, WriteArtifactManifest, WriteCheckpoint
<1>8. QED
  BY <1>3, <1>4, <1>5, <1>6, <1>7 DEF Executing

LEMMA LagNext ==
  ASSUME TypeInv, LedgerInv, IndexInv, LagInv, [Next]_vars
  PROVE  LagInv'
<1>1. Threads /\ FilesInv /\ MainOK(main) /\ WorkInv
  BY DEF TypeInv, IndexInv
<1>2. CASE Run \/ Resume \/ Initialize \/ Execute \/ Prepare \/ Crash \/ Exit
  BY <1>1, <1>2 DEF Run, Resume, Initialize, Execute, Prepare, Crash, Exit, Gone, IdleMain, MainOK,
                    LagInv, Early
<1>3. CASE (\E c \in children : DamageChild(c)) \/ UNCHANGED vars
  BY <1>3 DEF DamageChild, vars, LagInv
<1>4. CASE Dump
  <2>1. lock' = Free \/ lock'.dumps = <<"state">>
    BY <1>1, <1>4, DumpThreads
  <2>2. QED
    BY <2>1, DumpOrder DEF LagInv
<1>5. CASE Resuming
  BY <1>5, ResumingMoves DEF MainMoves, ResumePc, LagInv, Early
<1>6. CASE (Executing /\ ~ Exit) \/ Interrupt
  <2>1. SUFFICES ASSUME main'.pc \notin Early, lock'.dumps = IndexFirst
                 PROVE  LagInv'
    BY DEF LagInv
  <2>2. mem'.index = mem.index /\ disk'.index = disk.index /\ lock.dumps = IndexFirst
    BY <1>6, <2>1, PlainExecuting DEF Plain, Unfiled
  <2>3. lock' = lock
    BY <1>6, <2>2, ExecutingParent, DumpOrder DEF Modest, SetStatus, Locked, WriteCheckpoint, Free
  <2>4. main.pc \notin Early
    <3>1. lock.holder # Main /\ lock # Free
      BY <1>6, <2>2, DumpOrder DEF Executing, Exit, Interrupt, At, RemoveArtifactManifest, SetRunning,
         PlanWork, Wait, WaitDone, Collect, CollectException, IntervalCheckpoint, Refill,
         StopScheduling, HandleException, InterruptedEvent, FinalCheckpoint, SkipFinalCheckpoint,
         Verdict, ReportsGenerated, ReportsFailed, WriteArtifactManifest
    <3>2. lock.holder \in Item
      BY <1>1, <3>1 DEF TypeInv, LockOK, Threads, LockInv
    <3>3. QED
      BY <1>1, <3>2 DEF Threads, LockInv, PoolInv, Writing
  <2>5. PICK i \in Item : /\ lock.holder = i /\ run[i].pc = "recorded" /\ run[i].rec.item = i
                          /\ mem.index = disk.index \cup {run[i].rec}
    BY <2>2, <2>4 DEF LagInv
  <2>6. run'[i] = run[i]
    BY <1>1, <1>6, <2>5, BusyStays
  <2>7. QED
    BY <2>2, <2>3, <2>5, <2>6 DEF LagInv
<1>7. ASSUME NEW i \in Item, RunItem(i)
      PROVE  LagInv'
  <2>1. SUFFICES ASSUME main'.pc \notin Early, lock'.dumps = IndexFirst
                 PROVE  LagInv'
    BY DEF LagInv
  <2>2. main' = main /\ disk'.index = disk.index
    BY <1>7, WorkerSteps, WorkerRecords
  <2>3. CASE Terminal(i)
    <3>1. /\ run'[i].pc = "recorded" /\ run'[i].rec = run[i].rec /\ run[i].pc = "terminal"
          /\ lock = Free /\ lock'.holder = i
      BY <2>3, ToPcFields DEF Terminal, RunAt, Locked
    <3>2. run[i].rec.item = i
      BY <1>1, <2>3, TerminalLatest
    <3>3. mem'.index = mem.index \cup {run[i].rec} /\ disk.index = mem.index
      BY <1>1, <1>7, <2>3, <3>1, WorkerRecords, WorkersLive, DumpOrder DEF FilesInv
    <3>4. QED
      BY <2>2, <3>1, <3>2, <3>3 DEF LagInv
  <2>4. CASE ~ Terminal(i)
    <3>1. mem'.index = mem.index
      BY <1>7, <2>4, WorkerRecords
    <3>2. lock' = lock /\ lock.holder # i /\ \A j \in Item \ {i} : run'[j] = run[j]
      <4>1. lock.dumps = IndexFirst
        BY <1>7, <2>1, <2>4, PlainWorker, LockTaken, DumpOrder
           DEF Unfiled, TerminalEvent, OtherFiles
      <4>2. QED
        BY <1>7, <4>1, WorkerSteps, DumpOrder
    <3>3. QED
      BY <2>1, <2>2, <3>1, <3>2 DEF LagInv
  <2>5. QED
    BY <2>3, <2>4
<1>8. QED
  BY <1>2, <1>3, <1>4, <1>5, <1>6, <1>7 DEF Next, ControllerStep

(* A worker changes nothing of the other items.                            *)
LEMMA WorkerOthers ==
  ASSUME TypeInv, LedgerInv, IndexInv, NEW i \in Item, RunItem(i)
  PROVE  /\ \A c : c.item # i => /\ c \in children' <=> c \in children
                                 /\ c \in Unindexed(mem.index)' <=> c \in Unindexed(mem.index)
                                 /\ c \in Unindexed(disk.index)' <=> c \in Unindexed(disk.index)
         /\ \A j : j # i => /\ LatestOf(j, mem.index)' = LatestOf(j, mem.index)
                            /\ LatestOf(j, disk.index)' = LatestOf(j, disk.index)
                            /\ Orphaned(j, mem.index)' <=> Orphaned(j, mem.index)
                            /\ Orphaned(j, disk.index)' <=> Orphaned(j, disk.index)
<1>1. \A c : c.item # i => (c \in children' <=> c \in children)
  <2>1. CASE children' = children
    BY <2>1
  <2>2. ASSUME NEW d \in ChildRun, d.item = i, children' = children \cup {d}
        PROVE  \A c : c.item # i => (c \in children' <=> c \in children)
    BY <2>2
  <2>3. ASSUME NEW b \in children, NEW d \in ChildRun, b.item = i, d.item = i,
               children' = (children \ {b}) \cup {d}
        PROVE  \A c : c.item # i => (c \in children' <=> c \in children)
    BY <2>3
  <2>4. QED
    BY <2>1, <2>2, <2>3, WorkerDirectories
<1>2. /\ disk'.index = disk.index
      /\ \A r : r.item # i => (r \in mem'.index <=> r \in mem.index)
  <2>1. Terminal(i) => run[i].rec.item = i
    BY TerminalLatest DEF IndexInv
  <2>2. QED
    BY <2>1, WorkerRecords
<1>3. \A c : c.item # i => /\ c \in Unindexed(mem.index)' <=> c \in Unindexed(mem.index)
                           /\ c \in Unindexed(disk.index)' <=> c \in Unindexed(disk.index)
  BY <1>1, <1>2 DEF Unindexed, Bound
<1>4. \A j : j # i => /\ LatestOf(j, mem.index)' = LatestOf(j, mem.index)
                      /\ LatestOf(j, disk.index)' = LatestOf(j, disk.index)
  BY <1>2 DEF LatestOf, LatestRecords
<1>5. \A j : j # i => /\ Orphaned(j, mem.index)' <=> Orphaned(j, mem.index)
                      /\ Orphaned(j, disk.index)' <=> Orphaned(j, disk.index)
  BY <1>3 DEF Orphaned, Replays
<1>6. QED
  BY <1>1, <1>3, <1>4, <1>5

LEMMA OrphanNext ==
  ASSUME TypeInv, LedgerInv, IndexInv, ActiveInv, ResumeInv, EndInv, OrphanInv, [Next]_vars
  PROVE  OrphanInv'
<1>1. Threads /\ FilesInv /\ MainOK(main) /\ WorkInv
  BY DEF TypeInv, IndexInv
<1>2. CASE Run \/ Resume \/ Initialize \/ Execute \/ Prepare \/ Crash \/ Exit
  BY <1>1, <1>2 DEF Run, Resume, Initialize, Execute, Prepare, Crash, Exit, Gone, IdleMain, MainOK,
                    OrphanInv, Early
<1>3. CASE Dump \/ UNCHANGED vars
  BY <1>3 DEF Dump, vars, OrphanInv, Unindexed, Bound, Replays
<1>4. ASSUME NEW c \in children, DamageChild(c)
      PROVE  OrphanInv'
  BY <1>4 DEF DamageChild, OrphanInv, Early
<1>5. CASE Resuming
  BY <1>5, ResumingMoves DEF MainMoves, ResumePc, OrphanInv, Early
<1>6. CASE (Executing /\ ~ Exit) \/ Interrupt
  <2>1. mem'.index = mem.index /\ children' = children
    BY <1>6, PlainExecuting DEF Plain, Unfiled
  <2>2. SUFFICES ASSUME main'.pc \notin Early, NEW c \in children, c \in Unindexed(mem.index),
                        Replays(c)
                 PROVE  run'[c.item].pc \in {"returned", "terminal"} /\ c.serial = run'[c.item].serial
    BY <2>1 DEF OrphanInv, Unindexed, Bound, Replays
  <2>3. main.pc \notin Early
    <3>1. main.pc # "plan"
      BY <2>2 DEF ResumeInv, Reconciled
    <3>2. QED
      BY <1>6, <2>2, <3>1, ExecutingMoves DEF Executing, MainMoves, Early
  <2>4. run[c.item].pc \in {"returned", "terminal"} /\ c.serial = run[c.item].serial
    BY <2>2, <2>3 DEF OrphanInv
  <2>5. c.item \in Item
    BY DEF TypeInv, ChildrenOK, ChildRun
  <2>6. QED
    BY <1>1, <1>6, <2>4, <2>5, BusyStays
<1>7. ASSUME NEW i \in Item, RunItem(i)
      PROVE  OrphanInv'
  <2>1. SUFFICES ASSUME main'.pc \notin Early, NEW c \in Unindexed(mem.index)', Replays(c)
                 PROVE  run'[c.item].pc \in {"returned", "terminal"} /\ c.serial = run'[c.item].serial
    BY DEF OrphanInv, Replays
  <2>2. main' = main /\ \A j \in Item \ {i} : run'[j] = run[j]
    BY <1>7, WorkerSteps
  <2>3. c \in children' /\ c.item \in Item
    BY <1>7, TypeInvNext DEF TypeInv, ChildrenOK, ChildRun, Unindexed, Next, ControllerStep
  <2>4. CASE c.item # i
    <3>1. c \in Unindexed(mem.index)
      BY <1>7, <2>4, WorkerOthers
    <3>2. QED
      BY <2>1, <2>2, <2>3, <2>4, <3>1 DEF OrphanInv
  <2>5. CASE c.item = i
    <3>1. CASE LaunchChild(i) \/ ChildPersistsManifest(i) \/ ChildReturns(i)
      <4>1. run[i].pc \notin {"returned", "terminal"}
        BY <3>1 DEF LaunchChild, ChildPersistsManifest, ChildReturns, RunAt
      <4>2. mem' = mem
        BY <3>1 DEF LaunchChild, ChildPersistsManifest, ChildReturns, Aside
      <4>3. c \notin children
        BY <2>1, <2>2, <2>5, <4>1, <4>2 DEF OrphanInv, Unindexed
      <4>4. run'[i].pc = "returned" /\ run'[i].serial = c.serial
        BY <1>7, <2>1, <2>3, <3>1, <4>3, WorkerDirectories DEF Replays
      <4>5. QED
        BY <2>5, <4>4
    <3>2. CASE ~ LaunchChild(i) /\ ~ ChildPersistsManifest(i) /\ ~ ChildReturns(i)
      <4>1. children' = children /\ mem.index \subseteq mem'.index
        BY <1>7, <3>2, WorkerDirectories, WorkerRecords
      <4>2. c \in Unindexed(mem.index)
        BY <2>1, <4>1 DEF Unindexed
      <4>3. run[i].pc \in {"returned", "terminal"} /\ c.serial = run[i].serial
        BY <2>1, <2>2, <2>5, <4>2 DEF OrphanInv
      <4>4. AcceptResult(i) \/ Terminal(i)
        BY <1>7, <3>2, <4>3 DEF RunItem, Scheduled, ScheduledEvent, Started, StartedEvent,
           ContractFails, NoAuthorizationNeeded, Authorize, AuthorizationRefused, ChildRaises,
           ChildInterrupted, TerminalEvent, RunAt
      <4>5. CASE AcceptResult(i)
        <5>1. PICK v, f, e : Conclude(i, run[i].serial, v, f, e, FALSE)
          BY <4>5 DEF AcceptResult
        <5>2. run'[i].pc = "terminal" /\ run'[i].serial = run[i].serial
          BY <5>1, ConcludeFields
        <5>3. QED
          BY <2>5, <4>3, <5>2
      <4>6. CASE Terminal(i)
        <5>1. run[i].pc = "terminal" /\ run[i].rec.item = i
          BY <1>1, <4>6, TerminalLatest DEF Terminal, RunAt
        <5>2. run[i].rec.child = run[i].serial
          BY <5>1 DEF ActiveInv, Raised, EndInv, Ended
        <5>3. run[i].rec \in mem'.index
          BY <1>7, <4>6, WorkerRecords
        <5>4. QED
          BY <2>1, <2>5, <4>3, <5>1, <5>2, <5>3 DEF Unindexed
      <4>7. QED
        BY <4>4, <4>5, <4>6
    <3>3. QED
      BY <3>1, <3>2
  <2>6. QED
    BY <2>4, <2>5
<1>8. QED
  BY <1>2, <1>3, <1>4, <1>5, <1>6, <1>7 DEF Next, ControllerStep

-----------------------------------------------------------------------------
(* How far faults can spread before a fail-fast campaign stops             *)

(* The items with an accepted fault in an index, or with one that a resume *)
(* could find there.                                                       *)
Faulty(i, ix) == \E r \in LatestOf(i, ix) : r.validity = "valid" /\ Infra(r)
Hit(ix) == {i \in Item : Faulty(i, ix) \/ Orphaned(i, ix)}
Reach == Hit(disk.index) \cup (IF Live THEN Hit(mem.index) \cup Futures ELSE {})

(* Whatever may have gone wrong is in the hands of a worker until its      *)
(* result is collected, and then no other item is submitted.               *)
FailFastInv ==
  ~ ContinueOnInfra =>
    /\ Cardinality(Reach) <= MaxWorkers
    /\ main.pc \in Pool =>
         \/ main.stop
         \/ Hit(mem.index) \subseteq Futures
         \/ Futures = {} /\ main.pending = {}

LEMMA FewerItems ==
  ASSUME NEW S \in SUBSET Item, NEW T \in SUBSET S, NEW n \in Nat, Cardinality(S) <= n
  PROVE  Cardinality(T) <= n
<1>1. IsFiniteSet(S) /\ IsFiniteSet(T)
  BY ItemsFinite
<1>2. Cardinality(T) <= Cardinality(S) /\ Cardinality(T) \in Nat /\ Cardinality(S) \in Nat
  BY <1>1, FS_Subset, FS_CardinalityType
<1>3. QED
  BY <1>2

(* A step that spreads nothing.                                            *)
LEMMA ReachShrinks ==
  ASSUME FailFastInv, ~ ContinueOnInfra, Reach' \subseteq Reach,
         main'.pc \in Pool => \/ main'.stop
                              \/ Hit(mem.index)' \subseteq Futures'
                              \/ Futures' = {} /\ main'.pending = {}
  PROVE  FailFastInv'
<1>1. Reach \subseteq Item /\ MaxWorkers \in Nat /\ Cardinality(Reach) <= MaxWorkers
  BY ConfigAssumption DEF Reach, Hit, Futures, FailFastInv
<1>2. Cardinality(Reach') <= MaxWorkers
  BY <1>1, FewerItems
<1>3. QED
  BY <1>2 DEF FailFastInv

(* On disk an index and directories offer what they do in memory, except   *)
(* for one item in the hands of a worker.                                  *)
LEMMA DiskLags ==
  ASSUME TypeInv, IndexInv, LagInv, Live,
         main.pc \notin Early \/ lock.dumps # IndexFirst
  PROVE  \/ disk.index = mem.index
         \/ /\ lock # Free
            /\ \E i \in Futures : \A j \in Item \ {i} :
                 /\ LatestOf(j, disk.index) = LatestOf(j, mem.index)
                 /\ Orphaned(j, disk.index) <=> Orphaned(j, mem.index)
<1>1. CASE lock.dumps # IndexFirst
  BY <1>1 DEF IndexInv, FilesInv
<1>2. CASE lock.dumps = IndexFirst
  <2>1. PICK i \in Item : /\ lock.holder = i /\ run[i].pc = "recorded"
                          /\ run[i].rec.item = i
                          /\ mem.index = disk.index \cup {run[i].rec}
    BY <1>2 DEF LagInv
  <2>2. \A r : r.item # i => (r \in mem.index <=> r \in disk.index)
    BY <2>1
  <2>3. \A j : j # i => LatestOf(j, disk.index) = LatestOf(j, mem.index)
    BY <2>2 DEF LatestOf, LatestRecords
  <2>4. \A c : c.item # i => (c \in Unindexed(disk.index) <=> c \in Unindexed(mem.index))
    BY <2>2 DEF Unindexed
  <2>5. \A j : j # i => (Orphaned(j, disk.index) <=> Orphaned(j, mem.index))
    BY <2>4 DEF Orphaned
  <2>6. i \in Futures /\ lock # Free
    BY <1>2, <2>1, DumpOrder DEF Futures
  <2>7. QED
    BY <2>3, <2>5, <2>6
<1>3. QED
  BY <1>1, <1>2

(* What a resume makes of the index exposes no other item.                 *)
LEMMA ResumingOrphans ==
  ASSUME TypeInv, LedgerInv, IndexInv, SerialInv, ChildInv, ResumeInv, Resuming
  PROVE  /\ UNCHANGED <<children, disk, run>>
         /\ \A j : /\ Orphaned(j, mem.index)' => Orphaned(j, mem.index)
                  /\ LatestOf(j, mem.index)' = LatestOf(j, mem'.index)
<1>1. /\ UNCHANGED <<children, disk, run>>
      /\ Unindexed(mem'.index) \subseteq Unindexed(mem.index)
  BY ResumingAccounts, ResumingIndex
<1>2. Unindexed(mem.index)' = Unindexed(mem'.index)
  BY <1>1 DEF Unindexed, Bound
<1>3. \A j : Orphaned(j, mem.index)' => Orphaned(j, mem.index)
  BY <1>1, <1>2 DEF Orphaned, Replays
<1>4. \A j : LatestOf(j, mem.index)' = LatestOf(j, mem'.index)
  BY DEF LatestOf, LatestRecords
<1>5. QED
  BY <1>1, <1>3, <1>4

LEMMA ResumingHits ==
  ASSUME TypeInv, LedgerInv, IndexInv, SerialInv, ChildInv, ResumeInv, Resuming
  PROVE  Hit(mem.index)' \subseteq Hit(mem.index) /\ Hit(disk.index)' = Hit(disk.index)
<1>1. UNCHANGED <<children, disk>>
  BY ResumingOrphans
<1>2. \A j : Orphaned(j, mem.index)' => Orphaned(j, mem.index)
  BY ResumingOrphans
<1>3. \A j : LatestOf(j, mem.index)' = LatestOf(j, mem'.index)
  BY ResumingOrphans
<1>4. ASSUME NEW j \in Item, Faulty(j, mem.index)'
      PROVE  Faulty(j, mem.index) \/ Orphaned(j, mem.index)
  <2>1. PICK q \in LatestOf(j, mem'.index) : q.validity = "valid" /\ Infra(q)
    BY <1>3, <1>4 DEF Faulty, Infra
  <2>2. CASE mem'.index = mem.index
    BY <2>1, <2>2 DEF Faulty
  <2>3. ASSUME NEW r \in IndexRecord, OnlyLatest(r), Reconciles(r) \/ Downgrades(r) \/ Settles(r)
        PROVE  Faulty(j, mem.index) \/ Orphaned(j, mem.index)
    <3>1. CASE j # r.item
      BY <2>1, <2>3, <3>1 DEF OnlyLatest, Faulty
    <3>2. CASE j = r.item
      <4>1. q = r
        BY <2>1, <2>3, <3>2 DEF OnlyLatest
      <4>2. PICK c \in children : ReconcileChild(c) /\ r = OrphanRecord(c)
        BY <2>1, <2>3, <4>1 DEF Reconciles, Downgrades, Settles
      <4>3. c \in Unindexed(mem.index) /\ r.item = c.item /\ (~ Replays(c) => r.validity = "partial")
        BY <4>2, RecordFields DEF ReconcileChild, FirstUnindexed, OrphanRecord
      <4>4. QED
        BY <2>1, <3>2, <4>1, <4>3 DEF Orphaned
    <3>3. QED
      BY <3>1, <3>2
  <2>4. QED
    BY <2>2, <2>3, ResumingLatest
<1>5. Hit(disk.index)' = Hit(disk.index)
  BY <1>1 DEF Hit, Faulty, Orphaned, LatestOf, LatestRecords, Infra, Unindexed, Bound, Replays
<1>6. QED
  BY <1>2, <1>4, <1>5 DEF Hit

(* An item has one latest record.                                          *)
LEMMA OneLatest ==
  ASSUME TypeInv, FilesInv, NEW i
  PROVE  /\ \A q, r \in LatestOf(i, mem.index) : q = r
         /\ \A q, r \in LatestOf(i, disk.index) : q = r
<1>1. mem.index \subseteq IndexRecord /\ disk.index \subseteq IndexRecord
  BY DEF TypeInv, ParentOK, Parent
<1>2. Distinct(mem.index) /\ Distinct(disk.index)
  BY DEF FilesInv, Numbered
<1>3. ASSUME NEW ix \in SUBSET IndexRecord, Distinct(ix), NEW q \in LatestOf(i, ix),
             NEW r \in LatestOf(i, ix)
      PROVE  q = r
  <2>1. /\ q \in ix /\ r \in ix /\ q.item = r.item /\ q.attempt <= r.attempt
        /\ r.attempt <= q.attempt /\ q.attempt \in Nat /\ r.attempt \in Nat
    BY DEF LatestOf, LatestRecords, IndexRecord
  <2>2. QED
    BY <1>3, <2>1 DEF Distinct
<1>4. QED
  BY <1>1, <1>2, <1>3

LEMMA FailFastExecuting ==
  ASSUME TypeInv, LedgerInv, IndexInv, ResumeInv, SealInv, CrewInv, EndInv, LagInv, OrphanInv,
         FailFastInv, ~ ContinueOnInfra, (Executing /\ ~ Exit) \/ Interrupt
  PROVE  FailFastInv'
<1>1. Threads /\ FilesInv /\ MainOK(main) /\ Live /\ Live'
  BY ExecutingParent DEF TypeInv, IndexInv
<1>2. mem'.index = mem.index /\ disk'.index = disk.index /\ children' = children
  BY PlainExecuting DEF Plain, Unfiled
<1>3. Hit(mem.index)' = Hit(mem.index) /\ Hit(disk.index)' = Hit(disk.index)
  BY <1>2 DEF Hit, Faulty, Orphaned, LatestOf, LatestRecords, Infra, Unindexed, Bound, Replays
<1>4. /\ Reach = Hit(disk.index) \cup Hit(mem.index) \cup Futures
      /\ Reach' = Hit(disk.index) \cup Hit(mem.index) \cup Futures'
  BY <1>1, <1>3 DEF Reach
<1>5. ASSUME Reach' \subseteq Futures', Hit(mem.index) \subseteq Futures'
      PROVE  FailFastInv'
  <2>1. Cardinality(Futures') <= MaxWorkers
    BY <1>1, CrewExecuting DEF CrewInv
  <2>2. Reach' = Futures'
    BY <1>4, <1>5
  <2>3. QED
    BY <1>3, <1>5, <2>1, <2>2 DEF FailFastInv
<1>6. CASE PlanWork
  <2>1. Futures = {} /\ Futures' = Window(Pending) /\ main.pc = "plan"
    BY <1>1, <1>6, FuturesSteps DEF PlanWork, At
  <2>2. lock.dumps # IndexFirst
    <3>1. lock = Free
      BY <1>1, <1>6, <2>1 DEF PlanWork, At, Threads, LockInv, PoolInv, Early, Writing, TypeInv,
                              LockOK
    <3>2. QED
      BY <3>1, DumpOrder
  <2>3. disk.index = mem.index /\ Unindexed(mem.index) = {}
    BY <1>1, <2>1, <2>2 DEF FilesInv, ResumeInv, Reconciled
  <2>4. CASE \E j \in Item : Faulty(j, mem.index)
    <3>1. Pending = {}
      BY <2>4 DEF Pending, Faulty, LatestOf
    <3>2. Futures' = {} /\ main'.pending = {}
      <4>1. main'.pending = Pending \ Window(Pending)
        BY <1>1, <1>6 DEF PlanWork, MainOK
      <4>2. QED
        BY <2>1, <3>1, <4>1 DEF Window
    <3>3. QED
      BY <1>4, <3>2, ReachShrinks
  <2>5. CASE ~ \E j \in Item : Faulty(j, mem.index)
    <3>1. Hit(mem.index) = {} /\ Hit(disk.index) = {}
      BY <2>3, <2>5 DEF Hit, Orphaned
    <3>2. QED
      BY <1>4, <1>5, <3>1
  <2>6. QED
    BY <2>4, <2>5
<1>7. CASE Refill
  <2>1. main.pc = "refill" /\ ~ main.stop
    BY <1>7 DEF Refill, At
  <2>2. Futures' = Futures \cup {i \in main.pending : \A j \in main.pending : i <= j}
    BY <1>1, <1>7, FuturesSteps
  <2>3. CASE Futures = {} /\ main.pending = {}
    <3>1. Futures' = {} /\ main'.pending = {}
      BY <1>1, <1>7, <2>2, <2>3 DEF Refill, MainOK
    <3>2. QED
      BY <1>4, <3>1, ReachShrinks
  <2>4. CASE Hit(mem.index) \subseteq Futures
    <3>1. Hit(disk.index) \subseteq Futures
      BY <1>1, <2>1, <2>4, DiskLags DEF Early, Hit, Faulty
    <3>2. Reach' \subseteq Futures' /\ Hit(mem.index) \subseteq Futures'
      BY <1>4, <2>2, <2>4, <3>1
    <3>3. QED
      BY <1>5, <3>2
  <2>5. QED
    BY <2>1, <2>3, <2>4 DEF FailFastInv, Pool
<1>8. CASE ~ PlanWork /\ ~ Refill
  <2>1. Futures' \subseteq Futures /\ main'.pending = main.pending
    BY <1>1, <1>8, FuturesSteps, MainLocals
  <2>2. Reach' \subseteq Reach
    BY <1>4, <2>1
  <2>3. ASSUME main'.pc \in Pool
        PROVE  \/ main'.stop
               \/ Hit(mem.index) \subseteq Futures'
               \/ Futures' = {} /\ main'.pending = {}
    <3>1. CASE \E i \in Item : Collect(i)
      <4>1. PICK i \in Item : Collect(i)
        BY <3>1
      <4>2. /\ main.pc = "collect" /\ i \in main.batch /\ run[i].exc = "none"
            /\ main'.stop = (main.stop \/ Stops(i))
        BY <1>1, <4>1 DEF Collect, At, MainOK
      <4>3. i \in Futures /\ Futures' = Futures \ {i}
        BY <1>1, <4>1, FuturesSteps
      <4>4. CASE main.stop
        BY <4>2, <4>4
      <4>5. CASE Hit(mem.index) \subseteq Futures
        <5>1. run[i].pc = "done" /\ main.pc \notin Early
          BY <1>1, <4>2 DEF Threads, PoolInv, Early
        <5>2. ~ Orphaned(i, mem.index)
          BY <5>1 DEF OrphanInv, Orphaned
        <5>3. ASSUME Faulty(i, mem.index)
              PROVE  Stops(i)
          <6>1. PICK r \in LatestOf(i, mem.index) : r.validity = "valid" /\ Infra(r)
            BY <5>3 DEF Faulty
          <6>2. run[i].rec \in LatestOf(i, mem.index)
            BY <4>2, <5>1 DEF EndInv
          <6>3. r = run[i].rec
            BY <1>1, <6>1, <6>2, OneLatest
          <6>4. QED
            BY <6>1, <6>3 DEF Stops
        <5>4. QED
          BY <4>2, <4>3, <4>5, <5>2, <5>3 DEF Hit
      <4>6. QED
        BY <4>2, <4>3, <4>4, <4>5 DEF FailFastInv, Pool
    <3>2. CASE Wait \/ IntervalCheckpoint
      <4>1. run' = run /\ main'.stop = main.stop /\ main.pc \in Pool
        <5>1. CASE Wait
          BY <1>1, <5>1 DEF Wait, At, MainOK, Pool
        <5>2. CASE IntervalCheckpoint
          BY <1>1, <5>2 DEF IntervalCheckpoint, WriteCheckpoint, At, MainOK, Pool
        <5>3. QED
          BY <3>2, <5>1, <5>2
      <4>2. Futures' = Futures
        BY <4>1 DEF Futures
      <4>3. QED
        BY <2>1, <4>1, <4>2 DEF FailFastInv
    <3>3. CASE StopScheduling
      BY <1>1, <3>3 DEF StopScheduling, MainOK
    <3>4. QED
      BY <1>8, <2>3, <3>1, <3>2, <3>3, ExecutingMoves DEF Executing, MainMoves, Pool
  <2>4. QED
    BY <1>3, <2>2, <2>3, ReachShrinks
<1>9. QED
  BY <1>6, <1>7, <1>8

LEMMA FailFastNext ==
  ASSUME TypeInv, LedgerInv, IndexInv, SerialInv, ChildInv, ResumeInv, SealInv, CrewInv, EndInv,
         LagInv, OrphanInv, FailFastInv, [Next]_vars
  PROVE  FailFastInv'
<1>1. Threads /\ FilesInv /\ MainOK(main)
  BY DEF TypeInv, IndexInv
<1>2. SUFFICES ASSUME ~ ContinueOnInfra
               PROVE  FailFastInv'
  BY DEF FailFastInv
<1>3. ASSUME children' = children, disk'.index = disk.index
      PROVE  Hit(disk.index)' = Hit(disk.index)
  BY <1>3 DEF Hit, Faulty, Orphaned, LatestOf, LatestRecords, Infra, Unindexed, Bound, Replays
<1>4. CASE Run \/ Prepare \/ Crash \/ Exit
  <2>1. ~ Live' /\ main'.pc \notin Pool /\ disk' = disk /\ children' = children
    BY <1>1, <1>4 DEF Run, Prepare, Crash, Exit, Gone, Bookkeeping, IdleMain, Live, Pool, MainOK
  <2>2. QED
    BY <1>2, <1>3, <2>1, ReachShrinks DEF Reach
<1>5. CASE Resume
  <2>1. /\ mem'.index = disk.index /\ disk' = disk /\ children' = children /\ run' = run
        /\ ~ Live /\ main'.pc \notin Pool
    BY <1>1, <1>5 DEF Resume, Bookkeeping, TypeInv, ParentOK, Parent, At, Live, Pool, MainOK
  <2>2. Futures' = {}
    BY <2>1 DEF LedgerInv, Futures
  <2>3. Hit(mem.index)' = Hit(disk.index)
    BY <2>1 DEF Hit, Faulty, Orphaned, LatestOf, LatestRecords, Infra, Unindexed, Bound, Replays
  <2>4. QED
    BY <1>2, <1>3, <2>1, <2>2, <2>3, ReachShrinks DEF Reach
<1>6. CASE Initialize
  <2>1. mem'.index = {} /\ disk'.index = {} /\ children' = {} /\ main'.pc \notin Pool /\ run' = run
    BY <1>1, <1>6, NewParentIndex
       DEF Initialize, Bookkeeping, At, LedgerInv, FilesInv, Pool, MainOK
  <2>2. Futures' = {}
    BY <1>6, <2>1 DEF Initialize, At, LedgerInv, Live, Futures
  <2>3. Hit(mem.index)' = {} /\ Hit(disk.index)' = {}
    BY <2>1 DEF Hit, Faulty, Orphaned, LatestOf, LatestRecords, Unindexed
  <2>4. QED
    BY <1>2, <2>1, <2>2, <2>3, ReachShrinks DEF Reach
<1>7. CASE Execute \/ UNCHANGED vars
  <2>1. /\ UNCHANGED <<mem, disk, children, run>> /\ Live' = Live
        /\ main'.pc \in Pool => main' = main
    BY <1>1, <1>7 DEF Execute, vars, Bookkeeping, At, Live, Pool, MainOK
  <2>2. UNCHANGED <<Hit(mem.index), Hit(disk.index), Futures>>
    BY <2>1 DEF Futures, Hit, Faulty, Orphaned, LatestOf, LatestRecords, Infra, Unindexed, Bound,
                Replays
  <2>3. QED
    BY <1>2, <2>1, <2>2, ReachShrinks DEF Reach, FailFastInv
<1>8. ASSUME NEW c \in children, DamageChild(c)
      PROVE  FailFastInv'
  <2>1. /\ main' = main /\ main.pc = "idle" /\ disk' = disk
        /\ \A d \in children' : Replays(d) => d \in children
    <3>1. [c EXCEPT !.state = "damaged"].state = "damaged"
      BY DEF TypeInv, ChildrenOK, ChildRun
    <3>2. QED
      BY <1>8, <3>1 DEF DamageChild, Replays
  <2>2. Hit(disk.index)' \subseteq Hit(disk.index)
    BY <2>1 DEF Hit, Faulty, Orphaned, LatestOf, LatestRecords, Infra, Unindexed, Bound, Replays
  <2>3. QED
    BY <1>2, <2>1, <2>2, ReachShrinks DEF Reach, Live, Pool
<1>9. CASE Dump
  <2>1. UNCHANGED <<mem, main, run, children>> /\ Live
    BY <1>1, <1>9, DumpThreads DEF Dump, Bookkeeping
  <2>2. disk'.index \in {disk.index, mem.index}
    BY <1>1, <1>9 DEF Dump, TypeInv, ParentOK, Parent
  <2>3. UNCHANGED <<Hit(mem.index), Futures>>
    BY <2>1 DEF Futures, Hit, Faulty, Orphaned, LatestOf, LatestRecords, Infra, Unindexed, Bound,
                Replays
  <2>4. Hit(disk.index)' \in {Hit(disk.index), Hit(mem.index)}
    BY <2>1, <2>2 DEF Hit, Faulty, Orphaned, LatestOf, LatestRecords, Infra, Unindexed, Bound,
                Replays
  <2>5. QED
    BY <1>2, <2>1, <2>3, <2>4, ReachShrinks DEF Reach, FailFastInv, Live
<1>10. CASE Resuming
  <2>1. /\ Hit(mem.index)' \subseteq Hit(mem.index) /\ Hit(disk.index)' = Hit(disk.index)
        /\ run' = run /\ main'.pc \notin Pool /\ Live
    BY <1>10, ResumingHits, ResumingMoves, ResumingIndex DEF MainMoves, ResumePc, Pool, Live
  <2>2. Futures' = Futures
    BY <2>1 DEF Futures
  <2>3. QED
    BY <1>2, <2>1, <2>2, ReachShrinks DEF Reach
<1>11. CASE (Executing /\ ~ Exit) \/ Interrupt
  BY <1>2, <1>11, FailFastExecuting
<1>12. ASSUME NEW i \in Item, RunItem(i)
      PROVE  FailFastInv'
  <2>1. main' = main /\ Futures' = Futures /\ i \in Futures /\ Live
    BY <1>12, WorkerSteps, WorkerStays, WorkersLive DEF Futures
  <2>2. /\ \A j : j # i => /\ LatestOf(j, mem.index)' = LatestOf(j, mem.index)
                           /\ LatestOf(j, disk.index)' = LatestOf(j, disk.index)
                           /\ Orphaned(j, mem.index)' <=> Orphaned(j, mem.index)
                           /\ Orphaned(j, disk.index)' <=> Orphaned(j, disk.index)
    BY <1>12, WorkerOthers
  <2>3. /\ Hit(mem.index)' \subseteq Hit(mem.index) \cup {i}
        /\ Hit(disk.index)' \subseteq Hit(disk.index) \cup {i}
    BY <2>2 DEF Hit, Faulty, Infra
  <2>4. QED
    BY <1>2, <2>1, <2>3, ReachShrinks DEF Reach, FailFastInv, Live
<1>13. QED
  BY <1>4, <1>5, <1>6, <1>7, <1>8, <1>9, <1>10, <1>11, <1>12 DEF Next, ControllerStep

-----------------------------------------------------------------------------
(* How far faults can spread before the breaker opens                      *)

LEMMA OnePerItem ==
  ASSUME NEW ix \in SUBSET IndexRecord, Numbered(ix), NEW S \in SUBSET LatestRecords(ix)
  PROVE  Cardinality(S) = Cardinality({r.item : r \in S}) /\ {r.item : r \in S} \subseteq Item
<1> DEFINE T == {r.item : r \in S}
           f == [r \in S |-> r.item]
<1>1. \A r \in S : r \in ix /\ r.item \in Item /\ r.attempt \in Nat
  BY DEF LatestRecords, IndexRecord, Numbered
<1>2. T \subseteq Item /\ IsFiniteSet(T)
  BY <1>1, ItemsFinite
<1>3. \A q, r \in S : q.item = r.item => q = r
  <2>1. SUFFICES ASSUME NEW q \in S, NEW r \in S, q.item = r.item
                 PROVE  q = r
    OBVIOUS
  <2>2. q.attempt <= r.attempt /\ r.attempt <= q.attempt
    BY <1>1, <2>1 DEF LatestRecords
  <2>3. QED
    BY <1>1, <2>1, <2>2 DEF Numbered, Distinct
<1>4. f \in Injection(S, T) /\ f \in Surjection(S, T)
  BY <1>3 DEF Injection, IsInjective, Surjection
<1>5. QED
  BY <1>2, <1>4, FS_Injection, FS_CardinalityType

(* Every valid record has a directory that a resume accepts, as long as    *)
(* nobody damages one.                                                     *)
Backing(r) == \E c \in children : c.item = r.item /\ c.serial = r.child /\ Replays(c)
KeptInv ==
  tampers = 0 =>
    /\ \A r \in mem.index \cup disk.index : r.validity = "valid" => Backing(r)
    /\ \A i \in Item : run[i].pc = "terminal" /\ run[i].rec.validity = "valid" =>
         Backing(run[i].rec)

LEMMA ResumingTampers ==
  ASSUME Resuming PROVE tampers' = tampers
BY DEF Resuming, ReconcileChild, ReconcileEvent, ReconcileDone, ReuseChild, DowngradeChild,
   SkipItem, ValidateDone, SettleMissing, SettlePreserved, SettleEvent, SettleDone, Bookkeeping

LEMMA TampersCount ==
  ASSUME TypeInv, [Next]_vars
  PROVE  \/ tampers' = tampers
         \/ tampers' # 0 /\ \E c \in children : DamageChild(c)
<1>1. ASSUME NEW i \in Item, RunItem(i)
      PROVE  tampers' = tampers
  BY <1>1 DEF RunItem, Scheduled, ScheduledEvent, Started, StartedEvent, ContractFails,
     NoAuthorizationNeeded, Authorize, AuthorizationRefused, LaunchChild, ChildPersistsManifest,
     ChildReturns, ChildRaises, ChildInterrupted, AcceptResult, Terminal, TerminalEvent, Worker,
     Bookkeeping, Aside
<1>2. CASE Resuming
  BY <1>2, ResumingTampers
<1>3. CASE (Executing /\ ~ Exit) \/ Interrupt
  BY <1>3 DEF Executing, Interrupt, RemoveArtifactManifest, SetRunning, PlanWork, Wait, WaitDone,
     Collect, CollectException, IntervalCheckpoint, Refill, StopScheduling, HandleException,
     InterruptedEvent, FinalCheckpoint, SkipFinalCheckpoint, Verdict, ReportsGenerated,
     ReportsFailed, WriteArtifactManifest, WriteCheckpoint, Bookkeeping
<1>4. CASE \/ Run \/ Resume \/ Initialize \/ Execute \/ Prepare \/ Crash \/ Exit \/ Dump
           \/ UNCHANGED vars
  BY <1>4 DEF Run, Resume, Initialize, Execute, Prepare, Crash, Exit, Gone, Dump, vars, Bookkeeping
<1>5. ASSUME NEW c \in children, DamageChild(c)
      PROVE  tampers' # 0
  BY <1>5 DEF DamageChild, TypeInv, OutsideOK
<1>6. QED
  BY <1>1, <1>2, <1>3, <1>4, <1>5 DEF Next, ControllerStep

LEMMA KeptStep ==
  ASSUME KeptInv, tampers' = tampers, \A c \in children : Replays(c) => c \in children',
         \A r \in mem'.index \cup disk'.index : r.validity = "valid" =>
           \/ r \in mem.index \cup disk.index
           \/ Backing(r)
           \/ \E i \in Item : run[i].pc = "terminal" /\ r = run[i].rec,
         \A i \in Item : run'[i].pc = "terminal" /\ run'[i].rec.validity = "valid" =>
           \/ run[i].pc = "terminal" /\ run'[i].rec = run[i].rec
           \/ Backing(run'[i].rec)
  PROVE  KeptInv'
<1>1. \A r : Backing(r) => Backing(r)'
  BY DEF Backing, Replays
<1>2. QED
  BY <1>1 DEF KeptInv, Backing, Replays

LEMMA ConcludedAs ==
  ASSUME TypeInv, NEW i \in Item, NEW s, NEW v, NEW f, NEW e, NEW b, Conclude(i, s, v, f, e, b)
  PROVE  run'[i].rec.item = i /\ run'[i].rec.child = s /\ run'[i].rec.validity = v
<1>1. run'[i].rec = RunIndexRecord(i, main.attempts[i], s, v, f)
  BY ConcludeFields
<1>2. QED
  BY <1>1 DEF RunIndexRecord

LEMMA KeptWorker ==
  ASSUME TypeInv, LedgerInv, IndexInv, SerialInv, ChildInv, KeptInv, NEW i \in Item, RunItem(i)
  PROVE  KeptInv'
<1>1. tampers' = tampers /\ \A j \in Item \ {i} : run'[j] = run[j]
  <2>1. Live /\ Next
    BY WorkersLive, WorkerSteps DEF Next, ControllerStep
  <2>2. QED
    BY <2>1, TampersCount, WorkerSteps DEF DamageChild, Live
<1>2. ASSUME NEW c \in children, Replays(c)
      PROVE  c \in children'
  <2>1. CASE children' = children
    BY <2>1
  <2>2. ASSUME NEW d \in ChildRun, children' = children \cup {d}
        PROVE  c \in children'
    BY <2>2
  <2>3. ASSUME NEW b \in children, NEW d \in ChildRun, b.item = i, b.serial = run[i].serial,
               run[i].pc = "running", children' = (children \ {b}) \cup {d}
        PROVE  c \in children'
    <3>1. Attended(i)
      BY <2>3 DEF ChildInv, AttendInv
    <3>2. ~ Replays(b)
      BY <2>3, <3>1 DEF Attended, Replays
    <3>3. QED
      BY <1>2, <2>3, <3>2
  <2>4. QED
    BY <2>1, <2>2, <2>3, WorkerDirectories
<1>3. \A r \in mem'.index \cup disk'.index :
        \/ r \in mem.index \cup disk.index
        \/ run[i].pc = "terminal" /\ r = run[i].rec
  BY WorkerRecords DEF Terminal, RunAt
<1>4. ASSUME run'[i].pc = "terminal", run'[i].rec.validity = "valid"
      PROVE  Backing(run'[i].rec)
  <2>1. \/ ContractFails(i) \/ AuthorizationRefused(i) \/ ChildRaises(i) \/ AcceptResult(i)
    <3>1. ~ LaunchChild(i) /\ ~ ChildPersistsManifest(i) /\ ~ ChildReturns(i)
      BY <1>4, WorkerDirectories, WorkerSerials, ToPcFields
         DEF LaunchChild, ChildPersistsManifest, ChildReturns, RunAt
    <3>2. QED
      BY <1>4, <3>1, WorkerMoves
  <2>2. CASE AuthorizationRefused(i)
    <3>1. Conclude(i, 0, "missing", "none", "config", FALSE)
      BY <2>2 DEF AuthorizationRefused
    <3>2. run'[i].rec.validity = "missing"
      BY <3>1, ConcludedAs, Zenon
    <3>3. QED
      BY <1>4, <3>2
  <2>3. CASE ContractFails(i) \/ ChildRaises(i)
    <3>1. PICK s \in {0, run[i].serial}, failure \in Failure : ConcludeFailed(i, s, failure)
      BY <2>3, ConfigAssumption DEF ContractFails, ChildRaises
    <3>2. run'[i].rec.validity # "valid"
      BY <3>1, ConcludedAs DEF ConcludeFailed
    <3>3. QED
      BY <1>4, <3>2
  <2>4. CASE AcceptResult(i)
    <3>1. /\ run[i].pc = "returned"
          /\ Child(i) \in children /\ Child(i).item = i /\ Child(i).serial = run[i].serial
      BY <2>4, ChildType DEF AcceptResult, RunAt
    <3>2. CASE Accepted(Child(i))
      <4>1. PICK f : Conclude(i, run[i].serial, "valid", f, "none", FALSE)
        BY <2>4, <3>2 DEF AcceptResult
      <4>2. run'[i].rec.item = i /\ run'[i].rec.child = run[i].serial
        BY <4>1, ConcludedAs
      <4>3. Replays(Child(i))
        BY <3>2 DEF Accepted, Replays
      <4>4. QED
        BY <3>1, <4>2, <4>3 DEF Backing
    <3>3. CASE ~ Accepted(Child(i))
      <4>1. Conclude(i, run[i].serial, "incompatible", "none", "config", FALSE)
        BY <2>4, <3>3 DEF AcceptResult
      <4>2. run'[i].rec.validity = "incompatible"
        BY <4>1, ConcludedAs, Zenon
      <4>3. QED
        BY <1>4, <4>2
    <3>4. QED
      BY <3>2, <3>3
  <2>5. QED
    BY <2>1, <2>2, <2>3, <2>4
<1>5. QED
  BY <1>1, <1>2, <1>3, <1>4, KeptStep

LEMMA KeptNext ==
  ASSUME TypeInv, LedgerInv, IndexInv, SerialInv, ChildInv, KeptInv, [Next]_vars
  PROVE  KeptInv'
<1>1. Threads /\ MainOK(main) /\ mem \in Parent /\ disk \in Parent
  BY DEF TypeInv, IndexInv, ParentOK
<1>2. CASE Run \/ Execute \/ UNCHANGED vars
  BY <1>2, KeptStep DEF Run, Execute, vars, Bookkeeping
<1>3. CASE Resume
  <2>1. mem'.index = disk.index /\ UNCHANGED <<disk, children, run, tampers>>
    BY <1>1, <1>3 DEF Resume, Bookkeeping, Parent
  <2>2. QED
    BY <2>1, KeptStep
<1>4. CASE Initialize
  <2>1. mem'.index = {} /\ disk'.index = {} /\ UNCHANGED <<children, run, tampers>>
    BY <1>4, NewParentIndex DEF Initialize, Bookkeeping
  <2>2. QED
    BY <2>1, KeptStep
<1>5. CASE Prepare \/ Crash \/ Exit
  <2>1. /\ mem'.index = {} /\ UNCHANGED <<disk, children, tampers>>
        /\ run' = [i \in Item |-> NoRun] /\ NoRun.pc = "none"
    BY <1>5, NewParentIndex DEF Prepare, Crash, Exit, Gone, Bookkeeping, NoRun
  <2>2. QED
    BY <2>1, KeptStep
<1>6. ASSUME NEW c \in children, DamageChild(c)
      PROVE  KeptInv'
  <2>1. tampers' # 0
    BY <1>6 DEF DamageChild, TypeInv, OutsideOK
  <2>2. QED
    BY <2>1 DEF KeptInv
<1>7. CASE Dump
  <2>1. UNCHANGED <<mem, run, children, tampers>> /\ disk'.index \in {disk.index, mem.index}
    BY <1>1, <1>7 DEF Dump, Bookkeeping, Parent
  <2>2. QED
    BY <2>1, KeptStep
<1>8. CASE Resuming
  <2>1. UNCHANGED <<disk, run, children, tampers>>
    <3>1. UNCHANGED <<disk, run, children>>
      BY <1>8, ResumingIndex
    <3>2. QED
      BY <1>8, <3>1, ResumingTampers
  <2>2. \A r \in mem'.index : r.validity = "valid" => r \in mem.index \/ Backing(r)
    <3>1. CASE mem'.index = mem.index
      BY <3>1
    <3>2. ASSUME NEW c \in children, ReconcileChild(c), mem' = IndexedParent(OrphanRecord(c))
          PROVE  \A r \in mem'.index : r.validity = "valid" => r \in mem.index \/ Backing(r)
      <4>1. mem'.index = mem.index \cup {OrphanRecord(c)}
        BY <3>2, GainedIndex
      <4>2. /\ OrphanRecord(c).item = c.item /\ OrphanRecord(c).child = c.serial
            /\ OrphanRecord(c).validity = "valid" => Replays(c)
        BY RecordFields DEF OrphanRecord
      <4>3. QED
        BY <4>1, <4>2 DEF Backing
    <3>3. ASSUME NEW q \in mem.index,
                 mem' = ReplacedParent(q, [q EXCEPT !.validity = "corrupt", !.fault = "none"])
          PROVE  \A r \in mem'.index : r.validity = "valid" => r \in mem.index
      <4> DEFINE n == [q EXCEPT !.validity = "corrupt", !.fault = "none"]
      <4>1. n.validity = "corrupt"
        BY RevisedRecords
      <4>2. mem' = ReplacedParent(q, n)
        BY <3>3
      <4> HIDE DEF n
      <4>3. ReplacedParent(q, n).index = (mem.index \ {q}) \cup {n}
        BY ReplacedIndex
      <4>4. QED
        BY <4>1, <4>2, <4>3
    <3>4. ASSUME NEW a, mem' = IndexedParent(RunIndexRecord(a.item, a.attempt, 0, "missing", "local"))
          PROVE  \A r \in mem'.index : r.validity = "valid" => r \in mem.index
      <4> DEFINE n == RunIndexRecord(a.item, a.attempt, 0, "missing", "local")
      <4>1. mem'.index = mem.index \cup {n}
        BY <3>4, GainedIndex
      <4>2. n.validity = "missing"
        BY DEF RunIndexRecord
      <4> HIDE DEF n
      <4>3. QED
        BY <4>1, <4>2
    <3>5. ASSUME NEW q \in mem.index, q.validity # "valid",
                 mem' = ReplacedParent(q, [q EXCEPT !.fault = "local"])
          PROVE  \A r \in mem'.index : r.validity = "valid" => r \in mem.index
      <4> DEFINE n == [q EXCEPT !.fault = "local"]
      <4>1. n.validity = q.validity
        BY RevisedRecords
      <4>2. mem' = ReplacedParent(q, n)
        BY <3>5
      <4> HIDE DEF n
      <4>3. ReplacedParent(q, n).index = (mem.index \ {q}) \cup {n}
        BY ReplacedIndex
      <4>4. mem'.index = (mem.index \ {q}) \cup {n}
        BY <4>2, <4>3
      <4>5. QED
        BY <3>5, <4>1, <4>4
    <3> DEFINE Goal == \A r \in mem'.index : r.validity = "valid" => r \in mem.index \/ Backing(r)
               Lowered(q) == mem' = ReplacedParent(q, [q EXCEPT !.validity = "corrupt", !.fault = "none"])
               Lost(a) == mem' = IndexedParent(RunIndexRecord(a.item, a.attempt, 0, "missing", "local"))
               Blamed(q) == mem' = ReplacedParent(q, [q EXCEPT !.fault = "local"])
    <3>6. /\ \A q \in mem.index : Lowered(q) => Goal
          /\ \A a : Lost(a) => Goal
          /\ \A q \in mem.index : q.validity # "valid" /\ Blamed(q) => Goal
      BY <3>3, <3>4, <3>5, Zenon
    <3>7. \/ mem'.index = mem.index
          \/ \E c \in children : ReconcileChild(c) /\ mem' = IndexedParent(OrphanRecord(c))
          \/ \E q \in mem.index : Lowered(q)
          \/ \E a \in mem.ledger : Lost(a)
          \/ \E q \in mem.index : q.validity # "valid" /\ Blamed(q)
      BY <1>8, ResumingIndex, Zenon
    <3> HIDE DEF Lowered, Lost, Blamed
    <3>8. QED
      BY <3>1, <3>2, <3>6, <3>7, Zenon
  <2>3. QED
    BY <2>1, <2>2, KeptStep
<1>9. CASE (Executing /\ ~ Exit) \/ Interrupt
  <2>1. mem'.index = mem.index /\ disk'.index = disk.index /\ children' = children
    BY <1>9, PlainExecuting DEF Plain, Unfiled
  <2>2. tampers' = tampers
    BY <1>9, ExecutingParent, TampersCount DEF Live, DamageChild
  <2>3. \A j \in Item : run'[j].pc = "terminal" => run'[j] = run[j]
    BY <1>1, <1>9, ExecutingRuns, Resubmitted
  <2>4. QED
    BY <2>1, <2>2, <2>3, KeptStep
<1>10. ASSUME NEW i \in Item, RunItem(i)
      PROVE  KeptInv'
  BY <1>10, KeptWorker
<1>11. QED
  BY <1>2, <1>3, <1>4, <1>5, <1>6, <1>7, <1>8, <1>9, <1>10 DEF Next, ControllerStep
(* The items whose outcome counts against the breaker, in an index; those  *)
(* that the settlement of a resume would add; and both.                    *)
Infras(ix) == {i \in Item : \E r \in LatestOf(i, ix) : Infra(r)}
Unpaid(i, ix) == Spent(i) /\ \A r \in LatestOf(i, ix) : r.validity # "valid"
Exposed(ix) == Infras(ix) \cup {i \in Item : Orphaned(i, ix) \/ Unpaid(i, ix)}
Exposure == Exposed(disk.index) \cup (IF Live THEN Exposed(mem.index) \cup Futures ELSE {})

(* What no worker has in hand has been counted, and the next item is only  *)
(* submitted when there is room for one more fault.                        *)
BreakerInv ==
  (MaxTotalInfra # NoLimit /\ tampers = 0) =>
    /\ Cardinality(Exposure) <= MaxTotalInfra
    /\ main.pc \in Pool => main.stop \/ Exposed(mem.index) \ Futures \subseteq Infras(mem.index)
    /\ main.pc \in {"checkpoint", "refill"} => main.stop \/ ~ BreakerOpen(mem.index)

(* The exposure reads the directories, the ledger and an index.            *)
LEMMA ExposedSame ==
  ASSUME children' = children, AuthorizedItems' = AuthorizedItems, NEW ix
  PROVE  /\ mem'.index = ix => /\ Exposed(mem.index)' = Exposed(ix)
                               /\ Infras(mem.index)' = Infras(ix)
                               /\ BreakerOpen(mem.index)' <=> BreakerOpen(ix)
         /\ disk'.index = ix => Exposed(disk.index)' = Exposed(ix)
<1>1. \A i : Spent(i)' <=> Spent(i)
  BY DEF Spent
<1>2. ASSUME mem'.index = ix
      PROVE  /\ Exposed(mem.index)' = Exposed(ix) /\ Infras(mem.index)' = Infras(ix)
             /\ BreakerOpen(mem.index)' <=> BreakerOpen(ix)
  <2>1. \A i : LatestOf(i, mem.index)' = LatestOf(i, ix) /\ Unindexed(mem.index)' = Unindexed(ix)
    BY <1>2 DEF LatestOf, LatestRecords, Unindexed, Bound
  <2>2. \A i : /\ Orphaned(i, mem.index)' <=> Orphaned(i, ix)
               /\ Unpaid(i, mem.index)' <=> Unpaid(i, ix)
    BY <1>1, <2>1 DEF Orphaned, Replays, Unpaid
  <2>3. Infras(mem.index)' = Infras(ix)
    BY <2>1 DEF Infras, Infra
  <2>4. BreakerOpen(mem.index)' <=> BreakerOpen(ix)
    BY <1>2 DEF BreakerOpen, LatestRecords, Infra
  <2>5. QED
    BY <2>2, <2>3, <2>4 DEF Exposed
<1>3. ASSUME disk'.index = ix
      PROVE  Exposed(disk.index)' = Exposed(ix)
  <2>1. \A i : LatestOf(i, disk.index)' = LatestOf(i, ix) /\ Unindexed(disk.index)' = Unindexed(ix)
    BY <1>3 DEF LatestOf, LatestRecords, Unindexed, Bound
  <2>2. \A i : /\ Orphaned(i, disk.index)' <=> Orphaned(i, ix)
               /\ Unpaid(i, disk.index)' <=> Unpaid(i, ix)
    BY <1>1, <2>1 DEF Orphaned, Replays, Unpaid
  <2>3. Infras(disk.index)' = Infras(ix)
    BY <2>1 DEF Infras, Infra
  <2>4. QED
    BY <2>2, <2>3 DEF Exposed
<1>4. QED
  BY <1>2, <1>3

(* A step that exposes no other item.                                      *)
LEMMA ExposureShrinks ==
  ASSUME BreakerInv, MaxTotalInfra # NoLimit, tampers = 0, Exposure' \subseteq Exposure,
         main'.pc \in Pool =>
           main'.stop \/ Exposed(mem.index)' \ Futures' \subseteq Infras(mem.index)',
         main'.pc \in {"checkpoint", "refill"} => main'.stop \/ ~ BreakerOpen(mem.index)'
  PROVE  BreakerInv'
<1>1. Exposure \subseteq Item /\ MaxTotalInfra \in Nat /\ Cardinality(Exposure) <= MaxTotalInfra
  BY ConfigAssumption DEF Exposure, Exposed, Infras, Futures, BreakerInv
<1>2. Cardinality(Exposure') <= MaxTotalInfra
  BY <1>1, FewerItems
<1>3. QED
  BY <1>2 DEF BreakerInv

LEMMA RoomForOne ==
  ASSUME NEW S \in SUBSET Item, NEW F \in SUBSET Item, NEW n \in Nat,
         Cardinality(S) + 1 <= n, Cardinality(F) <= 1
  PROVE  Cardinality(S \cup F) <= n
<1>1. IsFiniteSet(S) /\ IsFiniteSet(F) /\ IsFiniteSet(S \cap F) /\ S \cap F \in SUBSET Item
  BY ItemsFinite
<1>2. Cardinality(S \cup F) = Cardinality(S) + Cardinality(F) - Cardinality(S \cap F)
  BY <1>1, FS_Union
<1>3. Cardinality(S) \in Nat /\ Cardinality(F) \in Nat /\ Cardinality(S \cap F) \in Nat
  BY <1>1, FS_CardinalityType
<1>4. QED
  BY <1>2, <1>3

LEMMA InfrasCount ==
  ASSUME NEW ix \in SUBSET IndexRecord, Numbered(ix)
  PROVE  Cardinality({r \in LatestRecords(ix) : Infra(r)}) = Cardinality(Infras(ix))
<1> DEFINE S == {r \in LatestRecords(ix) : Infra(r)}
<1>1. Cardinality(S) = Cardinality({r.item : r \in S}) /\ {r.item : r \in S} \subseteq Item
  BY OnePerItem
<1>2. {r.item : r \in S} = Infras(ix)
  BY <1>1 DEF Infras, LatestOf
<1>3. QED
  BY <1>1, <1>2

LEMMA BreakerLimit ==
  ASSUME TypeInv, FilesInv, MaxTotalInfra # NoLimit, ~ BreakerOpen(mem.index)
  PROVE  /\ Infras(mem.index) \subseteq Item /\ MaxTotalInfra \in Nat
         /\ Cardinality(Infras(mem.index)) + 1 <= MaxTotalInfra
<1>1. mem.index \in SUBSET IndexRecord /\ Numbered(mem.index)
  BY DEF TypeInv, ParentOK, Parent, FilesInv
<1>2. ~ Cardinality({r \in LatestRecords(mem.index) : Infra(r)}) >= MaxTotalInfra
  BY DEF BreakerOpen
<1>3. Infras(mem.index) \subseteq Item /\ MaxTotalInfra \in Nat
  BY ConfigAssumption DEF Infras
<1>4. Cardinality(Infras(mem.index)) \in Nat
  BY <1>3, ItemsFinite, FS_CardinalityType
<1>5. QED
  BY <1>1, <1>2, <1>3, <1>4, InfrasCount
(* What a resume makes of the index exposes no other item: it settles what *)
(* was unpaid and accepts what a crash left behind.                        *)
LEMMA ResumingExposure ==
  ASSUME TypeInv, LedgerInv, IndexInv, SerialInv, ChildInv, ResumeInv, KeptInv, tampers = 0, Resuming
  PROVE  /\ Exposed(mem.index)' \subseteq Exposed(mem.index)
         /\ Exposed(disk.index)' = Exposed(disk.index)
<1>1. UNCHANGED <<children, disk, run>> /\ AuthorizedItems' = AuthorizedItems /\ FilesInv
  BY ResumingOrphans DEF AuthorizedItems, IndexInv
<1>2. \A j : /\ Orphaned(j, mem.index)' => Orphaned(j, mem.index)
             /\ LatestOf(j, mem.index)' = LatestOf(j, mem'.index)
             /\ Spent(j)' <=> Spent(j)
  BY <1>1, ResumingOrphans DEF Spent
<1>3. ASSUME NEW j \in Item, \A q \in LatestOf(j, mem.index) : q.validity # "valid", Spent(j)
      PROVE  j \in Exposed(mem.index)
  BY <1>3 DEF Exposed, Unpaid
<1>4. ASSUME NEW r \in IndexRecord, OnlyLatest(r), Reconciles(r) \/ Downgrades(r) \/ Settles(r),
             r.item \in Item, Infra(r) \/ (Spent(r.item) /\ r.validity # "valid")
      PROVE  r.item \in Exposed(mem.index)
  <2>1. CASE Reconciles(r)
    <3>1. PICK c \in children : ReconcileChild(c) /\ r = OrphanRecord(c)
      BY <2>1 DEF Reconciles
    <3>2. /\ c \in Unindexed(mem.index) /\ r.item = c.item /\ main.pc = "reconcile"
          /\ Replays(c) \/ (r.validity = "partial" /\ r.fault = "none")
      BY <3>1, RecordFields DEF ReconcileChild, FirstUnindexed, OrphanRecord, At
    <3>3. CASE Replays(c)
      BY <1>4, <3>2, <3>3 DEF Exposed, Orphaned
    <3>4. CASE ~ Replays(c)
      <4>1. Spent(r.item)
        BY <1>4, <3>2, <3>4 DEF Infra
      <4>2. Last(c)
        BY <1>1, <3>2, UnindexedOnDisk DEF Live, ChildInv, LastInv
      <4>3. ASSUME NEW q \in LatestOf(r.item, mem.index), q.validity = "valid"
            PROVE  FALSE
        <5>1. q \in mem.index /\ q.item = c.item
          BY <3>2 DEF LatestOf, LatestRecords
        <5>2. PICK d \in children : d.item = c.item /\ Replays(d)
          BY <4>3, <5>1 DEF KeptInv, Backing
        <5>3. Last(d)
          BY <5>2 DEF ChildInv, LastInv
        <5>4. c.serial \in Nat /\ d.serial \in Nat
          BY SerialsTyped
        <5>5. c.serial = d.serial
          BY <4>2, <5>2, <5>3, <5>4 DEF Last
        <5>6. QED
          BY <3>4, <5>2, <5>5 DEF SerialInv, Ordered
      <4>4. QED
        BY <1>3, <1>4, <4>1, <4>3
    <3>5. QED
      BY <3>3, <3>4
  <2>2. CASE Downgrades(r)
    <3>1. PICK i \in Item : DowngradeChild(i)
      BY <2>2 DEF Downgrades
    <3>2. PICK q \in LatestOf(i, mem.index) : q.validity = "valid" /\ ~ Reusable(q)
      BY <3>1 DEF DowngradeChild
    <3>3. Backing(q)
      BY <3>2 DEF KeptInv, LatestOf, LatestRecords
    <3>4. QED
      BY <3>2, <3>3 DEF Backing, Reusable, ChildOf
  <2>3. CASE Settles(r)
    <3>1. PICK a \in mem.ledger : (SettleMissing(a) \/ SettlePreserved(a)) /\ r.item = a.item
      BY <2>3 DEF Settles
    <3>2. main.pc = "settle"
      BY <3>1 DEF SettleMissing, SettlePreserved, At
    <3>3. Spent(r.item)
      BY <3>1, <3>2 DEF Spent, AuthorizedItems, ResumeInv, Validated, LedgerInv, Live
    <3>4. \A q \in LatestOf(r.item, mem.index) : q.validity # "valid"
      BY <1>1, <3>1, OneLatest DEF SettleMissing, SettlePreserved
    <3>5. QED
      BY <1>3, <1>4, <3>3, <3>4
  <2>4. QED
    BY <1>4, <2>1, <2>2, <2>3
<1>5. ASSUME NEW j \in Exposed(mem.index)'
      PROVE  j \in Exposed(mem.index)
  <2>1. /\ j \in Item
        /\ \/ Orphaned(j, mem.index)
           \/ \E q \in LatestOf(j, mem'.index) : Infra(q)
           \/ Spent(j) /\ \A q \in LatestOf(j, mem'.index) : q.validity # "valid"
    BY <1>2 DEF Exposed, Infras, Unpaid, Infra
  <2>2. CASE mem'.index = mem.index
    BY <2>1, <2>2 DEF Exposed, Infras, Unpaid
  <2>3. ASSUME NEW r \in IndexRecord, OnlyLatest(r), Reconciles(r) \/ Downgrades(r) \/ Settles(r)
        PROVE  j \in Exposed(mem.index)
    <3>1. CASE j # r.item
      <4>1. LatestOf(j, mem'.index) = LatestOf(j, mem.index)
        BY <2>3, <3>1 DEF OnlyLatest
      <4>2. QED
        BY <2>1, <4>1 DEF Exposed, Infras, Unpaid
    <3>2. CASE j = r.item
      <4>1. LatestOf(j, mem'.index) = {r}
        BY <2>3, <3>2 DEF OnlyLatest
      <4>2. Orphaned(j, mem.index) \/ Infra(r) \/ (Spent(j) /\ r.validity # "valid")
        BY <2>1, <4>1
      <4>3. CASE Orphaned(j, mem.index)
        BY <2>1, <4>3 DEF Exposed
      <4>4. QED
        BY <1>4, <2>1, <2>3, <3>2, <4>2, <4>3
    <3>3. QED
      BY <3>1, <3>2
  <2>4. QED
    BY <2>2, <2>3, ResumingLatest
<1>6. Exposed(disk.index)' = Exposed(disk.index)
  BY <1>1, ExposedSame
<1>7. QED
  BY <1>5, <1>6

(* With one worker nothing runs while the main thread looks at a result.   *)
LEMMA CrewAlone ==
  ASSUME CrewInv, MaxTotalInfra # NoLimit, main.pc \in {"checkpoint", "refill"}
  PROVE  Futures = {}
<1>1. Cardinality(Futures) + 1 <= 1
  BY ConfigAssumption DEF CrewInv
<1>2. IsFiniteSet(Futures)
  BY ItemsFinite DEF Futures
<1>3. Cardinality(Futures) = 0
  BY <1>1, <1>2, FS_CardinalityType
<1>4. QED
  BY <1>2, <1>3, FS_EmptySet

LEMMA BreakerExecuting ==
  ASSUME TypeInv, LedgerInv, IndexInv, ResumeInv, SealInv, CrewInv, EndInv, CompletedInv, LagInv,
         OrphanInv, BreakerInv, MaxTotalInfra # NoLimit, tampers = 0,
         (Executing /\ ~ Exit) \/ Interrupt
  PROVE  BreakerInv'
<1>1. Threads /\ FilesInv /\ MainOK(main) /\ Live /\ Live' /\ MaxWorkers = 1
  BY ExecutingParent, ConfigAssumption DEF TypeInv, IndexInv
<1>2. /\ mem'.index = mem.index /\ disk'.index = disk.index /\ children' = children
      /\ AuthorizedItems' = AuthorizedItems
  BY PlainExecuting DEF Plain, Unfiled, AuthorizedItems
<1>3. /\ Exposed(mem.index)' = Exposed(mem.index) /\ Exposed(disk.index)' = Exposed(disk.index)
      /\ Infras(mem.index)' = Infras(mem.index)
      /\ BreakerOpen(mem.index)' <=> BreakerOpen(mem.index)
  BY <1>2, ExposedSame
<1>4. /\ Exposure = Exposed(disk.index) \cup Exposed(mem.index) \cup Futures
      /\ Exposure' = Exposed(disk.index) \cup Exposed(mem.index) \cup Futures'
  BY <1>1, <1>3 DEF Exposure
<1>5. ASSUME disk.index = mem.index, Exposed(mem.index) \subseteq Infras(mem.index),
             ~ BreakerOpen(mem.index), main'.pc \notin {"checkpoint", "refill"}
      PROVE  BreakerInv'
  <2>1. Cardinality(Futures') <= 1 /\ Futures' \subseteq Item
    BY <1>1, CrewExecuting DEF CrewInv, Futures
  <2>2. /\ Infras(mem.index) \subseteq Item /\ MaxTotalInfra \in Nat
        /\ Cardinality(Infras(mem.index)) + 1 <= MaxTotalInfra
    BY <1>1, <1>5, BreakerLimit
  <2>3. Cardinality(Infras(mem.index) \cup Futures') <= MaxTotalInfra
    BY <2>1, <2>2, RoomForOne
  <2>4. Exposure' = Infras(mem.index) \cup Futures'
    BY <1>4, <1>5 DEF Exposed
  <2>5. QED
    BY <1>3, <1>5, <2>3, <2>4 DEF BreakerInv
<1>6. CASE PlanWork
  <2>1. Futures = {} /\ Futures' = Window(Pending) /\ main.pc = "plan" /\ main'.pc = "wait"
    BY <1>1, <1>6, FuturesSteps DEF PlanWork, At, MainOK
  <2>2. lock.dumps # IndexFirst
    <3>1. lock = Free
      BY <1>1, <1>6, <2>1 DEF PlanWork, At, Threads, LockInv, PoolInv, Early, Writing, TypeInv,
                              LockOK
    <3>2. QED
      BY <3>1, DumpOrder
  <2>3. disk.index = mem.index /\ Unindexed(mem.index) = {}
    BY <1>1, <2>1, <2>2 DEF FilesInv, ResumeInv, Reconciled
  <2>4. Exposed(mem.index) \subseteq Infras(mem.index)
    <3>1. SUFFICES ASSUME NEW j \in Item, Unpaid(j, mem.index)
                   PROVE  j \in Infras(mem.index)
      BY <2>3 DEF Exposed, Orphaned
    <3>2. Good(j)
      BY <2>1, <3>1 DEF Unpaid, ResumeInv, Settled, CompletedInv, Early
    <3>3. QED
      BY <3>1, <3>2 DEF Good, Unpaid, Infras
  <2>5. CASE BreakerOpen(mem.index)
    <3>1. Pending = {}
      BY <2>5 DEF Pending
    <3>2. Futures' = {}
      BY <2>1, <3>1 DEF Window
    <3>3. QED
      BY <1>3, <1>4, <2>1, <2>4, <3>2, ExposureShrinks
  <2>6. CASE ~ BreakerOpen(mem.index)
    BY <1>5, <2>1, <2>3, <2>4, <2>6
  <2>7. QED
    BY <2>5, <2>6
<1>7. CASE Refill
  <2>1. main.pc = "refill" /\ ~ main.stop /\ main'.pc \in {"wait", "collect"}
    BY <1>1, <1>7 DEF Refill, At, MainOK
  <2>2. Futures = {}
    BY <2>1, CrewAlone
  <2>3. disk.index = mem.index
    BY <1>1, <2>1, <2>2, DiskLags DEF Early
  <2>4. Exposed(mem.index) \subseteq Infras(mem.index) /\ ~ BreakerOpen(mem.index)
    BY <2>1, <2>2 DEF BreakerInv, Pool
  <2>5. QED
    BY <1>5, <2>1, <2>3, <2>4
<1>8. CASE ~ PlanWork /\ ~ Refill
  <2>1. Futures' \subseteq Futures
    BY <1>1, <1>8, FuturesSteps
  <2>2. Exposure' \subseteq Exposure
    BY <1>4, <2>1
  <2>3. ASSUME main'.pc \in Pool
        PROVE  /\ main'.stop \/ Exposed(mem.index) \ Futures' \subseteq Infras(mem.index)
               /\ main'.pc \in {"checkpoint", "refill"} => main'.stop \/ ~ BreakerOpen(mem.index)
    <3>1. CASE \E i \in Item : Collect(i)
      <4>1. PICK i \in Item : Collect(i)
        BY <3>1
      <4>2. /\ main.pc = "collect" /\ i \in main.batch /\ run[i].exc = "none"
            /\ main'.stop = (main.stop \/ Stops(i))
        BY <1>1, <4>1 DEF Collect, At, MainOK
      <4>3. i \in Futures /\ Futures' = Futures \ {i}
        BY <1>1, <4>1, FuturesSteps
      <4>4. BreakerOpen(mem.index) => main'.stop
        BY <1>1, <4>2 DEF Stops
      <4>5. CASE main.stop
        BY <4>2, <4>5
      <4>6. CASE Exposed(mem.index) \ Futures \subseteq Infras(mem.index)
        <5>1. run[i].pc = "done" /\ main.pc \notin Early
          BY <1>1, <4>2 DEF Threads, PoolInv, Early
        <5>2. ~ Orphaned(i, mem.index)
          BY <5>1 DEF OrphanInv, Orphaned
        <5>3. run[i].rec \in LatestOf(i, mem.index) /\ Ended(run[i])
          BY <4>2, <5>1 DEF EndInv
        <5>4. ASSUME Unpaid(i, mem.index)
              PROVE  i \in Infras(mem.index) \/ Stops(i)
          BY <4>2, <5>3, <5>4 DEF Unpaid, Ended, Infras, Stops
        <5>5. i \in Exposed(mem.index) => i \in Infras(mem.index) \/ Stops(i)
          BY <5>2, <5>4 DEF Exposed
        <5>6. QED
          BY <4>2, <4>3, <4>4, <4>6, <5>5
      <4>7. QED
        BY <4>2, <4>4, <4>5, <4>6 DEF BreakerInv, Pool
    <3>2. CASE Wait \/ IntervalCheckpoint
      <4>1. /\ run' = run /\ main'.stop = main.stop /\ main.pc \in Pool
            /\ main'.pc \in {"checkpoint", "refill"} => main.pc \in {"checkpoint", "refill"}
        <5>1. CASE Wait
          BY <1>1, <5>1 DEF Wait, At, MainOK, Pool
        <5>2. CASE IntervalCheckpoint
          BY <1>1, <5>2 DEF IntervalCheckpoint, WriteCheckpoint, At, MainOK, Pool
        <5>3. QED
          BY <3>2, <5>1, <5>2
      <4>2. Futures' = Futures
        BY <4>1 DEF Futures
      <4>3. QED
        BY <4>1, <4>2 DEF BreakerInv
    <3>3. CASE StopScheduling
      BY <1>1, <3>3 DEF StopScheduling, MainOK
    <3>4. QED
      BY <1>8, <2>3, <3>1, <3>2, <3>3, ExecutingMoves DEF Executing, MainMoves, Pool
  <2>4. QED
    BY <1>3, <2>2, <2>3, ExposureShrinks DEF Pool
<1>9. QED
  BY <1>6, <1>7, <1>8
LEMMA BreakerWorker ==
  ASSUME TypeInv, LedgerInv, IndexInv, CrewInv, BreakerInv, MaxTotalInfra # NoLimit,
         tampers = 0, NEW i \in Item, RunItem(i)
  PROVE  BreakerInv'
<1>1. main' = main /\ Futures' = Futures /\ i \in Futures /\ Live
  BY WorkerSteps, WorkerStays, WorkersLive DEF Futures
<1>2. \A j : j # i => /\ LatestOf(j, mem.index)' = LatestOf(j, mem.index)
                      /\ LatestOf(j, disk.index)' = LatestOf(j, disk.index)
                      /\ Orphaned(j, mem.index)' <=> Orphaned(j, mem.index)
                      /\ Orphaned(j, disk.index)' <=> Orphaned(j, disk.index)
  BY WorkerOthers
<1>3. AuthorizedItems' \subseteq AuthorizedItems \cup {i} /\ AuthorizedItems \subseteq AuthorizedItems'
  <2>1. CASE Authorize(i)
    BY <2>1, AuthorizeStep
  <2>2. CASE ~ Authorize(i)
    <3>1. disk' = disk
      <4>1. CASE Terminal(i) \/ TerminalEvent(i)
        BY <4>1 DEF Terminal, TerminalEvent, Worker
      <4>2. QED
        BY <2>2, <4>1, PlainWorker
    <3>2. QED
      BY <3>1 DEF AuthorizedItems
  <2>3. QED
    BY <2>1, <2>2
<1>4. \A j : j # i => (Spent(j)' <=> Spent(j))
  BY <1>3 DEF Spent
<1>5. \A j : j # i => /\ j \in Exposed(mem.index)' <=> j \in Exposed(mem.index)
                      /\ j \in Exposed(disk.index)' <=> j \in Exposed(disk.index)
                      /\ j \in Infras(mem.index)' <=> j \in Infras(mem.index)
  BY <1>2, <1>4 DEF Exposed, Infras, Infra, Unpaid
<1>6. Exposure' \subseteq Exposure
  BY <1>1, <1>5 DEF Exposure, Live
<1>7. main.pc \notin {"checkpoint", "refill"}
  BY <1>1, CrewAlone
<1>8. QED
  BY <1>1, <1>5, <1>6, <1>7, ExposureShrinks DEF BreakerInv

LEMMA BreakerNext ==
  ASSUME TypeInv, LedgerInv, IndexInv, SerialInv, ChildInv, ResumeInv, SealInv, CrewInv, EndInv,
         CompletedInv, LagInv, OrphanInv, KeptInv, BreakerInv, [Next]_vars
  PROVE  BreakerInv'
<1>1. Threads /\ FilesInv /\ MainOK(main)
  BY DEF TypeInv, IndexInv
<1>2. CASE MaxTotalInfra = NoLimit \/ tampers' # 0
  BY <1>2 DEF BreakerInv
<1>3. CASE \E c \in children : DamageChild(c)
  BY <1>2, <1>3 DEF DamageChild, TypeInv, OutsideOK
<1>4. SUFFICES ASSUME MaxTotalInfra # NoLimit, tampers' = 0, ~ \E c \in children : DamageChild(c)
               PROVE  BreakerInv'
  BY <1>2, <1>3
<1>5. tampers = 0
  BY <1>4, TampersCount
<1>6. CASE Run \/ Prepare \/ Crash \/ Exit
  <2>1. ~ Live' /\ main'.pc \notin Pool /\ disk' = disk /\ children' = children
    BY <1>1, <1>6 DEF Run, Prepare, Crash, Exit, Gone, Bookkeeping, IdleMain, Live, Pool, MainOK
  <2>2. Exposed(disk.index)' = Exposed(disk.index)
    BY <2>1, ExposedSame DEF AuthorizedItems
  <2>3. QED
    BY <1>4, <1>5, <2>1, <2>2, ExposureShrinks DEF Exposure, Pool
<1>7. CASE Resume
  <2>1. /\ mem'.index = disk.index /\ disk' = disk /\ children' = children /\ run' = run
        /\ ~ Live /\ main'.pc \notin Pool
    BY <1>1, <1>7 DEF Resume, Bookkeeping, TypeInv, ParentOK, Parent, At, Live, Pool, MainOK
  <2>2. Futures' = {}
    BY <2>1 DEF LedgerInv, Futures
  <2>3. Exposed(mem.index)' = Exposed(disk.index) /\ Exposed(disk.index)' = Exposed(disk.index)
    BY <2>1, ExposedSame DEF AuthorizedItems
  <2>4. QED
    BY <1>4, <1>5, <2>1, <2>2, <2>3, ExposureShrinks DEF Exposure, Pool
<1>8. CASE Initialize
  <2>1. mem'.index = {} /\ disk'.index = {} /\ children' = {} /\ main'.pc \notin Pool /\ run' = run
    BY <1>1, <1>8, NewParentIndex
       DEF Initialize, Bookkeeping, At, LedgerInv, FilesInv, Pool, MainOK
  <2>2. Futures' = {} /\ AuthorizedItems' = {}
    BY <1>8, <2>1 DEF Initialize, At, LedgerInv, Live, Futures, AuthorizedItems, NewParent
  <2>3. Exposed(mem.index)' = {} /\ Exposed(disk.index)' = {}
    BY <2>1, <2>2 DEF Exposed, Infras, Unpaid, Spent, Orphaned, LatestOf, LatestRecords, Unindexed
  <2>4. QED
    BY <1>4, <1>5, <2>1, <2>2, <2>3, ExposureShrinks DEF Exposure, Pool
<1>9. CASE Execute \/ UNCHANGED vars
  <2>1. /\ UNCHANGED <<mem, disk, children, run>> /\ Live' = Live
        /\ main'.pc \in Pool => main' = main
    BY <1>1, <1>9 DEF Execute, vars, Bookkeeping, At, Live, Pool, MainOK
  <2>2. /\ Exposed(mem.index)' = Exposed(mem.index) /\ Exposed(disk.index)' = Exposed(disk.index)
        /\ Infras(mem.index)' = Infras(mem.index) /\ Futures' = Futures
        /\ BreakerOpen(mem.index)' <=> BreakerOpen(mem.index)
    BY <2>1, ExposedSame DEF AuthorizedItems, Futures
  <2>3. QED
    BY <1>4, <1>5, <2>1, <2>2, ExposureShrinks DEF Exposure, Pool, BreakerInv
<1>10. CASE Dump
  <2>1. mem' = mem /\ main' = main /\ run' = run /\ children' = children /\ Live /\ Live'
    BY <1>1, <1>10, DumpThreads DEF Dump, Bookkeeping, Live
  <2>2. (disk'.index = disk.index \/ disk'.index = mem.index) /\ disk'.ledger = disk.ledger
    BY <1>1, <1>10, DumpQuiet DEF Dump, TypeInv, ParentOK, Parent, Quiet
  <2>3. /\ Exposed(mem.index)' = Exposed(mem.index) /\ Infras(mem.index)' = Infras(mem.index)
        /\ Exposed(disk.index)' = Exposed(disk.index) \/ Exposed(disk.index)' = Exposed(mem.index)
        /\ BreakerOpen(mem.index)' <=> BreakerOpen(mem.index)
        /\ Futures' = Futures
    BY <2>1, <2>2, ExposedSame DEF AuthorizedItems, Futures
  <2>4. Exposure' \subseteq Exposure
    BY <2>1, <2>3 DEF Exposure
  <2>5. /\ main.pc \in Pool =>
             main.stop \/ Exposed(mem.index) \ Futures \subseteq Infras(mem.index)
        /\ main.pc \in {"checkpoint", "refill"} => main.stop \/ ~ BreakerOpen(mem.index)
    BY <1>4, <1>5 DEF BreakerInv
  <2>6. QED
    BY <1>4, <1>5, <2>1, <2>3, <2>4, <2>5, ExposureShrinks
<1>11. CASE Resuming
  <2>1. /\ Exposed(mem.index)' \subseteq Exposed(mem.index)
        /\ Exposed(disk.index)' = Exposed(disk.index)
        /\ run' = run /\ main'.pc \notin Pool /\ Live
    BY <1>5, <1>11, ResumingExposure, ResumingMoves, ResumingIndex DEF MainMoves, ResumePc, Pool, Live
  <2>2. Futures' = Futures
    BY <2>1 DEF Futures
  <2>3. QED
    BY <1>4, <1>5, <2>1, <2>2, ExposureShrinks DEF Exposure, Pool
<1>12. CASE (Executing /\ ~ Exit) \/ Interrupt
  BY <1>4, <1>5, <1>12, BreakerExecuting
<1>13. ASSUME NEW i \in Item, RunItem(i)
       PROVE  BreakerInv'
  BY <1>4, <1>5, <1>13, BreakerWorker
<1>14. QED
  BY <1>4, <1>6, <1>7, <1>8, <1>9, <1>10, <1>11, <1>12, <1>13 DEF Next, ControllerStep

-----------------------------------------------------------------------------
(* The theorems                                                            *)

SpreadInv == LagInv /\ OrphanInv /\ FailFastInv /\ KeptInv /\ BreakerInv

LEMMA SpreadNext ==
  ASSUME TypeInv, LedgerInv, IndexInv, ActiveInv, SerialInv, ChildInv, ResumeInv, SealInv,
         OutcomeInv, SpreadInv, [Next]_vars
  PROVE  SpreadInv'
<1>1. /\ CrewInv /\ EndInv /\ CompletedInv
      /\ LagInv /\ OrphanInv /\ FailFastInv /\ KeptInv /\ BreakerInv
  BY DEF OutcomeInv, SpreadInv
<1>2. LagInv' /\ OrphanInv' /\ KeptInv'
  BY <1>1, LagNext, OrphanNext, KeptNext
<1>3. FailFastInv' /\ BreakerInv'
  BY <1>1, FailFastNext, BreakerNext
<1>4. QED
  BY <1>2, <1>3 DEF SpreadInv

(* Whatever a crash, a resume or the next result could turn into a fault   *)
(* stays within the limits of the fail-fast mode and of the breaker.       *)
THEOREM SpreadInvariance == Spec => []SpreadInv
<1>1. Init => SpreadInv
  <2>1. SUFFICES ASSUME Init
                 PROVE  SpreadInv
    OBVIOUS
  <2>2. /\ main.pc = "idle" /\ run = [i \in Item |-> NoRun] /\ NoRun.pc = "none"
        /\ mem.index = {} /\ disk.index = {} /\ disk.ledger = {} /\ children = {}
    BY <2>1 DEF Init, IdleMain, NoRun, NewParent
  <2>3. ~ Live /\ main.pc \notin Pool /\ main.pc \in Early
    BY <2>2 DEF Live, Pool, Early
  <2>4. Hit(disk.index) = {} /\ Exposed(disk.index) = {}
    BY <2>2 DEF Hit, Faulty, Orphaned, Exposed, Infras, Unpaid, Spent, AuthorizedItems, LatestOf,
                LatestRecords, Unindexed
  <2>5. Cardinality({}) = 0 /\ MaxWorkers \in Nat /\ MaxTotalInfra \in Nat \cup {NoLimit}
    BY FS_EmptySet, ConfigAssumption
  <2>6. Reach = {} /\ Exposure = {}
    BY <2>3, <2>4 DEF Reach, Exposure
  <2>7. FailFastInv /\ BreakerInv
    BY <2>3, <2>5, <2>6 DEF FailFastInv, BreakerInv, Pool
  <2>8. LagInv /\ OrphanInv /\ KeptInv
    BY <2>2, <2>3 DEF LagInv, OrphanInv, KeptInv
  <2>9. QED
    BY <2>7, <2>8 DEF SpreadInv
<1>2. TypeInv /\ LedgerInv /\ IndexInv /\ ActiveInv /\ SerialInv /\ (ChildInv /\ ResumeInv)
        /\ (AgreeInv /\ SealInv) /\ OutcomeInv /\ SpreadInv /\ [Next]_vars
        => SpreadInv'
  BY SpreadNext
<1>3. QED
  BY <1>1, <1>2, TypeInvariance, LedgerInvariance, IndexInvariance, ActiveInvariance,
     SerialInvariance, ChildInvariance, PointsInvariance, OutcomeInvariance, PTL DEF Spec

(* A fail-fast campaign accepts at most one faulty child per worker, over  *)
(* all its sessions (_execute stops submitting, and a resumed one finds    *)
(* the fault in the index before it submits anything).                     *)
THEOREM FaultsStopFailFast == Spec => []FailFastBoundsFaults
<1>1. TypeInv /\ IndexInv /\ SpreadInv => FailFastBoundsFaults
  <2>1. SUFFICES ASSUME TypeInv, IndexInv, SpreadInv, ~ ContinueOnInfra
                 PROVE  FailFastBoundsFaults
    BY DEF FailFastBoundsFaults
  <2> DEFINE S == {r \in LatestRecords(disk.index) : Infra(r) /\ r.validity = "valid"}
             T == {r.item : r \in S}
  <2>2. disk.index \in SUBSET IndexRecord /\ Numbered(disk.index)
    BY <2>1 DEF TypeInv, ParentOK, Parent, IndexInv, FilesInv
  <2>3. Cardinality(S) = Cardinality(T) /\ T \subseteq Item
    BY <2>2, OnePerItem
  <2>4. T \subseteq Reach /\ Reach \subseteq Item
    BY <2>3 DEF Reach, Hit, Faulty, LatestOf, Futures
  <2>5. Cardinality(Reach) <= MaxWorkers /\ MaxWorkers \in Nat
    BY <2>1, ConfigAssumption DEF SpreadInv, FailFastInv
  <2>6. Cardinality(T) <= MaxWorkers
    BY <2>4, <2>5, FewerItems
  <2>7. QED
    BY <2>3, <2>6 DEF FailFastBoundsFaults
<1>2. QED
  BY <1>1, TypeInvariance, IndexInvariance, SpreadInvariance, PTL

(* The breaker bounds the infrastructure failures of a campaign over all   *)
(* its sessions, as long as nobody damages a finished child                *)
(* (_circuit_breaker_reason, read after each result and before the first). *)
THEOREM FaultsOpenTheBreaker == Spec => []BreakerBoundsFaults
<1>1. TypeInv /\ IndexInv /\ SpreadInv => BreakerBoundsFaults
  <2>1. SUFFICES ASSUME TypeInv, IndexInv, SpreadInv, MaxTotalInfra # NoLimit, tampers = 0
                 PROVE  Cardinality({r \in LatestRecords(disk.index) : Infra(r)}) <= MaxTotalInfra
    BY DEF BreakerBoundsFaults
  <2>2. disk.index \in SUBSET IndexRecord /\ Numbered(disk.index)
    BY <2>1 DEF TypeInv, ParentOK, Parent, IndexInv, FilesInv
  <2>3. Infras(disk.index) \subseteq Exposure /\ Exposure \subseteq Item
    BY DEF Exposure, Exposed, Infras, Futures
  <2>4. Cardinality(Exposure) <= MaxTotalInfra /\ MaxTotalInfra \in Nat
    BY <2>1, ConfigAssumption DEF SpreadInv, BreakerInv
  <2>5. Cardinality(Infras(disk.index)) <= MaxTotalInfra
    BY <2>3, <2>4, FewerItems
  <2>6. QED
    BY <2>2, <2>5, InfrasCount
<1>2. QED
  BY <1>1, TypeInvariance, IndexInvariance, SpreadInvariance, PTL

-----------------------------------------------------------------------------
(* A session comes to an end: what is left of it shrinks with every step   *)

(* The main thread's way through a session; the pool's loop is one stage.  *)
Stage(pc) ==
  CASE pc = "initialize" -> 16
    [] pc = "initialized" -> 15
    [] pc \in {"reconcile", "reconciled"} -> 14
    [] pc = "validate" -> 13
    [] pc \in {"settle", "settled"} -> 12
    [] pc = "unseal" -> 11
    [] pc = "activate" -> 10
    [] pc = "plan" -> 9
    [] pc \in Pool -> 8
    [] pc = "drain" -> 7
    [] pc = "interrupted" -> 6
    [] pc = "finish" -> 5
    [] pc = "verdict" -> 4
    [] pc = "report" -> 3
    [] pc = "seal" -> 2
    [] pc = "exit" -> 1
    [] OTHER -> 0

(* Its place within a stage that it goes through more than once.           *)
Rank(pc) ==
  CASE pc = "checkpoint" -> 3
    [] pc = "refill" -> 2
    [] pc \in {"wait", "reconciled", "settled"} -> 1
    [] OTHER -> 0

(* The way of a plan item through the pool: what it has ahead of it.       *)
Place(pc) ==
  CASE pc = "queued" -> 12
    [] pc = "scheduled" -> 11
    [] pc = "start" -> 10
    [] pc = "started" -> 9
    [] pc = "authorize" -> 8
    [] pc = "launch" -> 7
    [] pc = "running" -> 5
    [] pc = "returned" -> 4
    [] pc = "terminal" -> 3
    [] pc = "recorded" -> 2
    [] pc = "done" -> 1
    [] OTHER -> 0

Opened(i) == \E c \in children : c.item = i /\ c.serial = run[i].serial /\ c.state = "opened"

Ahead(i) ==
  IF i \in main.pending THEN 13
  ELSE IF run[i].pc = "running" /\ Opened(i) THEN 6
  ELSE Place(run[i].pc)

Turns == {t \in Item \X (1 .. 13) : t[2] <= Ahead(t[1])}

(* What the stage still has to deal with: unindexed directories, items to  *)
(* validate, authorizations to settle, or turns of the workers.            *)
Left ==
  IF main.pc \in {"reconcile", "reconciled"} THEN Unindexed(mem.index)
  ELSE IF main.pc = "validate" THEN main.cursor .. N
  ELSE IF main.pc \in {"settle", "settled"} THEN Unsettled
  ELSE Turns

(* What is left of a session, in the lexicographic order of its parts.     *)
Remainder == <<Stage(main.pc), Cardinality(Left), Rank(main.pc), Len(lock.dumps)>>

Below(a, b) ==
  \/ a[1] < b[1]
  \/ a[1] = b[1] /\ \/ a[2] < b[2]
                    \/ a[2] = b[2] /\ (a[3] < b[3] \/ (a[3] = b[3] /\ a[4] < b[4]))

LEMMA AheadType == \A i : Ahead(i) \in 0 .. 13 /\ Ahead(i)' \in 0 .. 13
<1>1. \A pc : Place(pc) \in 0 .. 12
  BY DEF Place
<1>2. QED
  BY <1>1 DEF Ahead

LEMMA RemainderType ==
  ASSUME TypeInv
  PROVE  /\ Stage(main.pc) \in Nat /\ Rank(main.pc) \in Nat /\ Len(lock.dumps) \in Nat
         /\ IsFiniteSet(Left) /\ Cardinality(Left) \in Nat
<1>1. Stage(main.pc) \in Nat
  BY DEF Stage
<1>2. Rank(main.pc) \in Nat
  BY DEF Rank
<1>3. Len(lock.dumps) \in Nat
  BY DEF TypeInv, LockOK
<1>4. IsFiniteSet(Unindexed(mem.index))
  BY FS_Subset DEF TypeInv, ChildrenOK, Unindexed
<1>5. IsFiniteSet(main.cursor .. N)
  BY ConfigAssumption, FS_Interval DEF TypeInv, MainOK
<1>6. IsFiniteSet(Unsettled)
  BY FS_Subset DEF TypeInv, ParentOK, Unsettled
<1>7. IsFiniteSet(Turns)
  <2>1. IsFiniteSet(1 .. 13)
    <3>1. \A n \in Nat : IsFiniteSet(1 .. n)
      BY FS_Interval
    <3>2. QED
      BY <3>1
  <2>2. IsFiniteSet(Item \X (1 .. 13))
    BY <2>1, ItemsFinite, FS_Product
  <2>3. QED
    BY <2>2, FS_Subset DEF Turns
<1>8. IsFiniteSet(Left)
  BY <1>4, <1>5, <1>6, <1>7 DEF Left
<1>9. QED
  BY <1>1, <1>2, <1>3, <1>8, FS_CardinalityType

(* The four ways of getting nearer to the end.                             *)
LEMMA Nearer ==
  ASSUME TypeInv,
         \/ Stage(main'.pc) < Stage(main.pc)
         \/ /\ Stage(main'.pc) = Stage(main.pc)
            /\ Left' \subseteq Left
            /\ \/ Left' # Left
               \/ Rank(main'.pc) < Rank(main.pc)
               \/ Rank(main'.pc) = Rank(main.pc) /\ Len(lock'.dumps) < Len(lock.dumps)
  PROVE  Below(Remainder', Remainder)
<1>1. /\ Remainder[1] = Stage(main.pc) /\ Remainder'[1] = Stage(main'.pc)
      /\ Remainder[2] = Cardinality(Left) /\ Remainder'[2] = Cardinality(Left')
      /\ Remainder[3] = Rank(main.pc) /\ Remainder'[3] = Rank(main'.pc)
      /\ Remainder[4] = Len(lock.dumps) /\ Remainder'[4] = Len(lock'.dumps)
  BY DEF Remainder
<1>2. ASSUME Left' \subseteq Left, Left' # Left
      PROVE  Cardinality(Left') < Cardinality(Left)
  <2>1. Cardinality(Left') <= Cardinality(Left) /\ Cardinality(Left') # Cardinality(Left)
    BY <1>2, RemainderType, FS_Subset
  <2>2. Cardinality(Left') \in Nat /\ Cardinality(Left) \in Nat
    BY <1>2, RemainderType, FS_Subset, FS_CardinalityType
  <2>3. QED
    BY <2>1, <2>2
<1>3. CASE Left' = Left
  BY <1>1, <1>3 DEF Below
<1>4. CASE Left' # Left
  BY <1>1, <1>2, <1>4 DEF Below
<1>5. QED
  BY <1>3, <1>4

(* The turns shrink when no item has more ahead of it, one of them less.   *)
LEMMA TurnsShrink ==
  ASSUME \A j \in Item : Ahead(j)' <= Ahead(j)
  PROVE  /\ Turns' \subseteq Turns
         /\ (\E j \in Item : Ahead(j)' < Ahead(j)) => Turns' # Turns
<1>1. \A j \in Item : Ahead(j) \in 0 .. 13 /\ Ahead(j)' \in 0 .. 13
  BY AheadType
<1>2. Turns' = {t \in Item \X (1 .. 13) : t[2] <= Ahead(t[1])'}
  BY DEF Turns
<1>3. Turns' \subseteq Turns
  <2>1. ASSUME NEW j \in Item, NEW n \in 1 .. 13, n <= Ahead(j)'
        PROVE  n <= Ahead(j)
    BY <1>1, <2>1
  <2>2. QED
    BY <1>2, <2>1 DEF Turns
<1>4. ASSUME NEW j \in Item, Ahead(j)' < Ahead(j)
      PROVE  Turns' # Turns
  <2>1. Ahead(j) \in 1 .. 13 /\ ~ (Ahead(j) <= Ahead(j)')
    BY <1>1, <1>4
  <2>2. <<j, Ahead(j)>> \in Turns /\ <<j, Ahead(j)>> \notin Turns'
    BY <1>2, <2>1 DEF Turns
  <2>3. QED
    BY <2>2
<1>5. QED
  BY <1>3, <1>4

(* Where no child is opened anew, an item's way is that of its worker.     *)
LEMMA AheadKept ==
  ASSUME NEW j, run'[j] = run[j], j \in main'.pending <=> j \in main.pending,
         Opened(j)' <=> Opened(j)
  PROVE  Ahead(j)' = Ahead(j)
BY DEF Ahead

(* A worker's step is a turn of its item, and of no other.                 *)
LEMMA WorkerTurn ==
  ASSUME TypeInv, NEW i \in Item, RunItem(i), i \notin main.pending, Ordered
  PROVE  Ahead(i)' < Ahead(i)
<1>1. i \notin main'.pending
  BY WorkerSteps
<1>2. /\ Ahead(i)' = IF run'[i].pc = "running" /\ Opened(i)' THEN 6 ELSE Place(run'[i].pc)
      /\ Ahead(i) = IF run[i].pc = "running" /\ Opened(i) THEN 6 ELSE Place(run[i].pc)
  BY <1>1 DEF Ahead
<1>3. CASE \/ Scheduled(i) \/ ScheduledEvent(i) \/ Started(i) \/ StartedEvent(i)
           \/ NoAuthorizationNeeded(i) \/ Authorize(i)
  <2>1. \/ run[i].pc = "queued" /\ ToPc(i, "scheduled")
        \/ run[i].pc = "scheduled" /\ ToPc(i, "start")
        \/ run[i].pc = "start" /\ ToPc(i, "started")
        \/ run[i].pc = "started" /\ ToPc(i, "authorize")
        \/ run[i].pc = "authorize" /\ ToPc(i, "launch")
    BY <1>3 DEF Scheduled, ScheduledEvent, Started, StartedEvent, NoAuthorizationNeeded, Authorize,
                RunAt
  <2>2. \A pc : ToPc(i, pc) => run'[i].pc = pc
    BY ToPcFields
  <2>3. QED
    BY <1>2, <2>1, <2>2 DEF Place
<1>4. CASE ContractFails(i) \/ AuthorizationRefused(i) \/ ChildRaises(i) \/ AcceptResult(i)
  <2>1. /\ run[i].pc \in {"authorize", "launch", "running", "returned"}
        /\ \E s, v, f, e, b : Conclude(i, s, v, f, e, b)
    BY <1>4
       DEF ContractFails, AuthorizationRefused, ChildRaises, AcceptResult, ConcludeFailed, RunAt
  <2>2. run'[i].pc = "terminal"
    BY <2>1, ConcludeFields
  <2>3. QED
    BY <1>2, <2>1, <2>2 DEF Place
<1>5. CASE LaunchChild(i)
  <2>1. run[i].pc = "launch" /\ run'[i].pc = "running"
    BY <1>5 DEF LaunchChild, RunAt, TypeInv, ItemRun
  <2>2. QED
    BY <1>2, <2>1 DEF Place
<1>6. CASE ChildPersistsManifest(i)
  <2> DEFINE c == Child(i)
             d == [c EXCEPT !.state = "bound", !.fault = "none"]
  <2>1. /\ run[i].pc = "running" /\ c.state = "opened" /\ run' = run
        /\ children' = (children \ {c}) \cup {d}
    BY <1>6 DEF ChildPersistsManifest, ChildBecomes, RunAt
  <2>2. c \in children /\ c.item = i /\ c.serial = run[i].serial
    BY <2>1, ChildType
  <2>3. d.state = "bound"
    BY <2>2 DEF TypeInv, ChildrenOK, ChildRun
  <2> HIDE DEF c, d
  <2>4. Opened(i)
    BY <2>1, <2>2 DEF Opened
  <2>5. \A e \in children : e.item = i /\ e.serial = run[i].serial => e = c
    BY <2>2 DEF Ordered
  <2>6. ~ Opened(i)'
    BY <2>1, <2>3, <2>5 DEF Opened
  <2>7. QED
    BY <1>2, <2>1, <2>4, <2>6 DEF Place
<1>7. CASE ChildReturns(i)
  <2>1. run[i].pc = "running" /\ ToPc(i, "returned")
    BY <1>7 DEF ChildReturns, RunAt
  <2>2. run'[i].pc = "returned"
    BY <2>1, ToPcFields
  <2>3. QED
    BY <1>2, <2>1, <2>2 DEF Place
<1>8. CASE ChildInterrupted(i)
  <2>1. run[i].pc \in {"launch", "running"} /\ run'[i].pc = "done"
    BY <1>8 DEF ChildInterrupted, RunAt, TypeInv, ItemRun
  <2>2. QED
    BY <1>2, <2>1, <2>1 DEF Place
<1>9. CASE Terminal(i) \/ TerminalEvent(i)
  <2>1. \/ run[i].pc = "terminal" /\ ToPc(i, "recorded")
        \/ run[i].pc = "recorded" /\ ToPc(i, "done")
    BY <1>9 DEF Terminal, TerminalEvent, RunAt
  <2>2. \A pc : ToPc(i, pc) => run'[i].pc = pc
    BY ToPcFields
  <2>3. QED
    BY <1>2, <2>1, <2>2 DEF Place
<1>10. QED
  BY <1>3, <1>4, <1>5, <1>6, <1>7, <1>8, <1>9 DEF RunItem

LEMMA OthersTurns ==
  ASSUME TypeInv, NEW i \in Item, RunItem(i), NEW j \in Item, j # i
  PROVE  Ahead(j)' = Ahead(j)
<1>1. run'[j] = run[j] /\ main' = main
  BY WorkerSteps
<1>2. \A c : c.item = j => (c \in children' <=> c \in children)
  <2>1. CASE LaunchChild(i)
    <3> DEFINE d == [item |-> i, attempt |-> main.attempts[i], serial |-> NextSerial(i),
                     state |-> "opened", fault |-> "none"]
    <3>1. children' = children \cup {d} /\ d.item = i
      BY <2>1 DEF LaunchChild
    <3> HIDE DEF d
    <3>2. QED
      BY <3>1
  <2>2. CASE ChildPersistsManifest(i) \/ ChildReturns(i)
    <3>1. PICK s, f : ChildBecomes(i, s, f)
      BY <2>2 DEF ChildPersistsManifest, ChildReturns
    <3> DEFINE c == Child(i)
               d == [c EXCEPT !.state = s, !.fault = f]
    <3>2. c \in children /\ c.item = i
      BY <2>2, ChildType DEF ChildPersistsManifest, ChildReturns, RunAt
    <3>3. d.item = i
      BY <3>2 DEF TypeInv, ChildrenOK, ChildRun
    <3>4. children' = (children \ {c}) \cup {d}
      BY <3>1 DEF ChildBecomes
    <3> HIDE DEF c, d
    <3>5. QED
      BY <3>2, <3>3, <3>4
  <2>3. CASE ~ LaunchChild(i) /\ ~ ChildPersistsManifest(i) /\ ~ ChildReturns(i)
    <3>1. children' = children
      BY <2>3
         DEF RunItem, Scheduled, ScheduledEvent, Started, StartedEvent, ContractFails,
             NoAuthorizationNeeded, Authorize, AuthorizationRefused, ChildRaises, ChildInterrupted,
             AcceptResult, Terminal, TerminalEvent, Worker, Aside, Bookkeeping
    <3>2. QED
      BY <3>1
  <2>4. QED
    BY <2>1, <2>2, <2>3
<1>3. Opened(j)' <=> Opened(j)
  BY <1>1, <1>2 DEF Opened
<1>4. QED
  BY <1>1, <1>3, AheadKept

LEMMA WorkerNearer ==
  ASSUME TypeInv, Threads, Ordered, NEW i \in Item, RunItem(i)
  PROVE  Below(Remainder', Remainder)
<1>1. main' = main /\ run[i].pc # "none"
  BY WorkerSteps
<1>2. main.pc \notin Early /\ i \notin main.pending
  BY <1>1 DEF Threads, PoolInv
<1>3. Ahead(i)' < Ahead(i) /\ \A j \in Item : j # i => Ahead(j)' = Ahead(j)
  BY <1>2, WorkerTurn, OthersTurns
<1>4. \A j \in Item : Ahead(j)' <= Ahead(j)
  BY <1>3, AheadType
<1>5. Turns' \subseteq Turns /\ Turns' # Turns
  BY <1>3, <1>4, TurnsShrink
<1>6. Left' = Turns' /\ Left = Turns
  BY <1>1, <1>2 DEF Left, Early
<1>7. QED
  BY <1>1, <1>5, <1>6, Nearer

(* The main thread within the pool's loop.                                 *)
LEMMA PoolTurns ==
  ASSUME TypeInv, Threads
  PROVE  /\ \A i \in Item : Collect(i) => Turns' \subseteq Turns /\ Turns' # Turns
         /\ Refill \/ StopScheduling \/ Wait \/ IntervalCheckpoint => Turns' \subseteq Turns
<1>1. \A j \in Item : Ahead(j) \in 0 .. 13 /\ Ahead(j)' \in 0 .. 13
  BY AheadType
<1>2. /\ Place("none") = 0 /\ Place("queued") = 12 /\ Place("done") = 1
      /\ NoRun.pc = "none" /\ [NoRun EXCEPT !.pc = "queued"].pc = "queued"
  BY Resubmitted DEF Place
<1>3. \A j \in Item : run'[j] = NoRun /\ main'.pending = main.pending => Ahead(j)' <= Ahead(j)
  BY <1>1, <1>2 DEF Ahead
<1>4. \A j \in Item : /\ run'[j] = run[j] /\ main'.pending = main.pending /\ children' = children
                      => Ahead(j)' <= Ahead(j)
  <2>1. ASSUME NEW j \in Item, run'[j] = run[j], main'.pending = main.pending, children' = children
        PROVE  Ahead(j)' = Ahead(j)
    <3>1. Opened(j)' <=> Opened(j)
      BY <2>1 DEF Opened
    <3>2. QED
      BY <2>1, <3>1, AheadKept
  <2>2. QED
    BY <1>1, <2>1
<1>5. ASSUME NEW i \in Item, Collect(i)
      PROVE  Turns' \subseteq Turns /\ Turns' # Turns
  <2>1. /\ i \in main.batch /\ run' = [run EXCEPT ![i] = NoRun] /\ children' = children
        /\ main'.pending = main.pending
    BY <1>5 DEF Collect, Bookkeeping, TypeInv, MainOK
  <2>2. run[i].pc = "done" /\ i \notin main.pending
    BY <2>1 DEF Threads, PoolInv
  <2>3. \A j \in Item : run'[j] = IF i = j THEN NoRun ELSE run[j]
    BY <2>1, Resubmitted
  <2>4. \A j \in Item : Ahead(j)' <= Ahead(j)
    BY <1>3, <1>4, <2>1, <2>3
  <2>5. Ahead(i) = 1 /\ Ahead(i)' = 0
    BY <1>2, <2>1, <2>2, <2>3 DEF Ahead
  <2>6. Ahead(i)' < Ahead(i)
    BY <2>5
  <2>7. QED
    BY <2>4, <2>6, TurnsShrink
<1>6. ASSUME Refill
      PROVE  Turns' \subseteq Turns
  <2> DEFINE next == {i \in main.pending : \A j \in main.pending : i <= j}
  <2>1. /\ Submit(next) /\ next \subseteq main.pending /\ main'.pending = main.pending \ next
        /\ children' = children
    BY <1>6 DEF Refill, Bookkeeping, TypeInv, MainOK
  <2> HIDE DEF next
  <2>2. \A j \in Item : /\ j \in next => run'[j] = [NoRun EXCEPT !.pc = "queued"]
                        /\ j \notin next => run'[j] = run[j]
    BY <2>1, Resubmitted
  <2>3. ASSUME NEW j \in Item, j \in next
        PROVE  Ahead(j)' <= Ahead(j)
    <3>1. run'[j].pc = "queued" /\ j \in main.pending /\ j \notin main'.pending
      BY <1>2, <2>1, <2>2, <2>3
    <3>2. Ahead(j) = 13 /\ Ahead(j)' = 12
      BY <1>2, <3>1 DEF Ahead
    <3>3. QED
      BY <3>2
  <2>4. ASSUME NEW j \in Item, j \notin next
        PROVE  Ahead(j)' <= Ahead(j)
    <3>1. run'[j] = run[j] /\ (j \in main'.pending <=> j \in main.pending)
      BY <2>1, <2>2, <2>4
    <3>2. Opened(j)' <=> Opened(j)
      BY <2>1, <3>1 DEF Opened
    <3>3. Ahead(j)' = Ahead(j)
      BY <3>1, <3>2, AheadKept
    <3>4. QED
      BY <1>1, <3>3
  <2>5. QED
    BY <2>3, <2>4, TurnsShrink
<1>7. ASSUME StopScheduling \/ Wait \/ IntervalCheckpoint
      PROVE  Turns' \subseteq Turns
  <2>1. /\ run' = run \/ run' = Cancelled
        /\ children' = children /\ main'.pending = main.pending
    BY <1>7 DEF StopScheduling, Wait, IntervalCheckpoint, WriteCheckpoint, Bookkeeping, TypeInv, MainOK
  <2>2. \A j \in Item : run'[j] = run[j] \/ run'[j] = NoRun
    BY <2>1, Resubmitted
  <2>3. \A j \in Item : Ahead(j)' <= Ahead(j)
    BY <1>3, <1>4, <2>1, <2>2
  <2>4. QED
    BY <2>3, TurnsShrink
<1>8. QED
  BY <1>5, <1>6, <1>7

LEMMA ExecutingNearer ==
  ASSUME TypeInv, Threads, (Executing /\ ~ Exit) \/ Interrupt
  PROVE  Below(Remainder', Remainder)
<1>1. \A from, to : MainMoves(from, to) => main.pc = from /\ main'.pc \in to
  BY DEF MainMoves
<1>2. CASE \/ RemoveArtifactManifest \/ SetRunning \/ PlanWork \/ WaitDone \/ Interrupt
           \/ (\E i \in Item : CollectException(i)) \/ HandleException \/ InterruptedEvent
           \/ FinalCheckpoint \/ SkipFinalCheckpoint \/ Verdict \/ ReportsGenerated
           \/ ReportsFailed \/ WriteArtifactManifest
  <2>1. \/ main.pc = "unseal" /\ main'.pc = "activate"
        \/ main.pc = "activate" /\ main'.pc = "plan"
        \/ main.pc = "plan" /\ main'.pc = "wait"
        \/ main.pc = "wait" /\ main'.pc \in {"finish", "drain"}
        \/ main.pc = "collect" /\ main'.pc = "drain"
        \/ main.pc = "drain" /\ main'.pc \in {"interrupted", "exit"}
        \/ main.pc = "interrupted" /\ main'.pc = "exit"
        \/ main.pc = "finish" /\ main'.pc = "verdict"
        \/ main.pc = "verdict" /\ main'.pc = "report"
        \/ main.pc = "report" /\ main'.pc \in {"seal", "exit"}
        \/ main.pc = "seal" /\ main'.pc = "exit"
    BY <1>2, ExecutingMoves DEF MainMoves
  <2>2. Stage(main'.pc) < Stage(main.pc)
    BY <2>1 DEF Stage, Pool
  <2>3. QED
    BY <2>2, Nearer
<1>3. CASE \/ (\E i \in Item : Collect(i)) \/ Refill \/ StopScheduling \/ Wait \/ IntervalCheckpoint
  <2>1. \/ (\E i \in Item : Collect(i)) /\ main.pc = "collect" /\ main'.pc \in {"checkpoint", "refill"}
        \/ main.pc = "checkpoint" /\ main'.pc = "refill"
        \/ main.pc = "refill" /\ main'.pc \in {"wait", "collect"}
        \/ main.pc = "wait" /\ main'.pc = "collect"
    BY <1>3, ExecutingMoves DEF MainMoves
  <2>2. /\ main.pc \in Pool /\ main'.pc \in Pool
        /\ (\E i \in Item : Collect(i)) \/ Rank(main'.pc) < Rank(main.pc)
    BY <2>1 DEF Pool, Rank
  <2>3. Stage(main'.pc) = Stage(main.pc) /\ Left' = Turns' /\ Left = Turns
    BY <2>2 DEF Stage, Left, Pool
  <2>4. Left' \subseteq Left /\ ((\E i \in Item : Collect(i)) => Left' # Left)
    BY <1>3, <2>3, PoolTurns
  <2>5. QED
    BY <2>2, <2>3, <2>4, Nearer
<1>4. QED
  BY <1>2, <1>3 DEF Executing

(* Replacing a file is what a lock is held for.                            *)
LEMMA DumpNearer ==
  ASSUME TypeInv, Dump
  PROVE  Below(Remainder', Remainder)
<1>1. UNCHANGED <<mem, main, run, children>>
  BY DEF Dump
<1>2. Len(lock'.dumps) < Len(lock.dumps)
  <2>1. /\ lock.dumps \in Seq(DumpedFile) /\ lock.dumps # <<>>
        /\ lock' = IF Tail(lock.dumps) = <<>> THEN Free ELSE [lock EXCEPT !.dumps = Tail(@)]
    BY DEF Dump, TypeInv, LockOK
  <2>2. lock'.dumps = Tail(lock.dumps)
    BY <2>1 DEF TypeInv, LockOK, Free
  <2>3. Len(Tail(lock.dumps)) = Len(lock.dumps) - 1 /\ Len(lock.dumps) \in Nat
    BY <2>1
  <2>4. QED
    BY <2>2, <2>3
<1>3. Left' = Left
  <2>1. Turns' = Turns
    BY <1>1 DEF Turns, Ahead, Opened
  <2>2. QED
    BY <1>1, <2>1 DEF Left, Unindexed, Unsettled
<1>4. QED
  BY <1>1, <1>2, <1>3, Nearer

(* Resume deals with a directory, an item or an authorization at a time.   *)
LEMMA ResumingNearer ==
  ASSUME TypeInv, Resuming
  PROVE  Below(Remainder', Remainder)
<1>1. MainOK(main) /\ children' = children
  BY ResumingIndex DEF TypeInv
<1>2. ASSUME NEW c \in children, ReconcileChild(c)
      PROVE  Below(Remainder', Remainder)
  <2>1. /\ main.pc = "reconcile" /\ main'.pc = "reconciled" /\ c \in Unindexed(mem.index)
        /\ mem'.index = mem.index \cup {OrphanRecord(c)}
    BY <1>1, <1>2, IndexFields DEF ReconcileChild, At, MainOK, FirstUnindexed, Locked
  <2>2. OrphanRecord(c).item = c.item /\ OrphanRecord(c).child = c.serial
    BY DEF OrphanRecord, RunIndexRecord
  <2>3. Left = Unindexed(mem.index) /\ Left' = Unindexed(mem.index)'
    BY <2>1 DEF Left
  <2>4. Left' \subseteq Left
    BY <1>1, <2>1, <2>3 DEF Unindexed
  <2>5. c \in Left /\ c \notin Left'
    BY <1>1, <2>1, <2>2, <2>3 DEF Unindexed
  <2>6. Stage(main'.pc) = Stage(main.pc)
    BY <2>1 DEF Stage, Pool
  <2>7. QED
    BY <2>4, <2>5, <2>6, Nearer
<1>3. CASE ReconcileEvent \/ SettleEvent
  <2>1. /\ \/ main.pc = "reconciled" /\ main'.pc = "reconcile"
           \/ main.pc = "settled" /\ main'.pc = "settle"
        /\ main'.completed = main.completed
    BY <1>1, <1>3 DEF ReconcileEvent, SettleEvent, At, MainOK
  <2>2. mem'.index = mem.index /\ mem'.ledger = mem.ledger
    <3>1. \E e : mem' = [mem EXCEPT !.events = e]
      BY <1>3 DEF ReconcileEvent, SettleEvent, Event, Locked
    <3>2. mem \in Parent
      BY DEF TypeInv, ParentOK
    <3>3. QED
      BY <3>1, <3>2 DEF Parent
  <2>3. Stage(main'.pc) = Stage(main.pc) /\ Rank(main'.pc) < Rank(main.pc)
    BY <2>1 DEF Stage, Pool, Rank
  <2>4. Left' = Left
    BY <1>1, <2>1, <2>2 DEF Left, Unindexed, Unsettled
  <2>5. QED
    BY <2>3, <2>4, Nearer
<1>4. CASE ReconcileDone \/ ValidateDone \/ SettleDone
  <2>1. \/ main.pc = "reconcile" /\ main'.pc = "validate"
        \/ main.pc = "validate" /\ main'.pc \in {"settle", "unseal"}
        \/ main.pc = "settle" /\ main'.pc = "unseal"
    BY <1>1, <1>4 DEF ReconcileDone, ValidateDone, SettleDone, Visit, At, MainOK
  <2>2. Stage(main'.pc) < Stage(main.pc)
    BY <2>1 DEF Stage, Pool
  <2>3. QED
    BY <2>2, Nearer
<1>5. ASSUME NEW i \in Item, ReuseChild(i) \/ DowngradeChild(i) \/ SkipItem(i)
      PROVE  Below(Remainder', Remainder)
  <2>1. /\ main.pc = "validate" /\ main'.pc = "validate" /\ main.cursor = i /\ main'.cursor = i + 1
    BY <1>5, ResumingCompleted
  <2>2. i \in Nat /\ N \in Nat /\ i <= N
    BY ConfigAssumption DEF Item
  <2>3. Left = i .. N /\ Left' = (i + 1) .. N
    BY <2>1 DEF Left
  <2>4. Left' \subseteq Left /\ i \in Left /\ i \notin Left'
    BY <2>2, <2>3
  <2>5. QED
    BY <2>1, <2>4, Nearer
<1>6. ASSUME NEW a \in mem.ledger, SettleMissing(a) \/ SettlePreserved(a)
      PROVE  Below(Remainder', Remainder)
  <2>1. /\ main.pc = "settle" /\ main'.pc \in {"settle", "settled"}
        /\ main'.completed = main.completed \cup {a.item}
    BY <1>6, ResumingCompleted
  <2>2. mem'.ledger = mem.ledger
    <3>1. mem \in Parent
      BY DEF TypeInv, ParentOK
    <3>2. /\ \A r : IndexedParent(r).ledger = mem.ledger
          /\ \A q, r : ReplacedParent(q, r).ledger = mem.ledger
      BY <3>1 DEF IndexedParent, ReplacedParent, Parent
    <3>3. \/ \E r : mem' = IndexedParent(r)
          \/ \E q, r : mem' = ReplacedParent(q, r)
      BY <1>6 DEF SettleMissing, SettlePreserved, Locked
    <3>4. QED
      BY <3>2, <3>3
  <2>3. a \in Unsettled
    BY <1>6 DEF SettleMissing, SettlePreserved
  <2>4. Left = Unsettled /\ Left' = Unsettled'
    BY <2>1 DEF Left
  <2>5. Left' \subseteq Left /\ a \in Left /\ a \notin Left'
    BY <2>1, <2>2, <2>3, <2>4 DEF Unsettled
  <2>6. Stage(main'.pc) = Stage(main.pc)
    BY <2>1 DEF Stage, Pool
  <2>7. QED
    BY <2>5, <2>6, Nearer
<1>7. QED
  BY <1>2, <1>3, <1>4, <1>5, <1>6 DEF Resuming

LEMMA SessionNearer ==
  ASSUME TypeInv, LedgerInv, IndexInv, SerialInv, Next, main.pc # "idle", main'.pc # "idle"
  PROVE  Below(Remainder', Remainder)
<1>1. Threads /\ Ordered /\ MainOK(main)
  BY DEF IndexInv, SerialInv, TypeInv
<1>2. CASE Run \/ Resume \/ \E c \in children : DamageChild(c)
  BY <1>2 DEF Run, Resume, DamageChild, At
<1>3. CASE Prepare \/ Crash \/ Exit
  BY <1>3 DEF Prepare, Crash, Exit, Gone, IdleMain
<1>4. CASE Initialize \/ Execute
  <2>1. \/ main.pc = "initialize" /\ main'.pc = "initialized"
        \/ main.pc = "initialized" /\ main'.pc = "unseal"
    BY <1>1, <1>4 DEF Initialize, Execute, At, MainOK
  <2>2. Stage(main'.pc) < Stage(main.pc)
    BY <2>1 DEF Stage, Pool
  <2>3. QED
    BY <2>2, Nearer
<1>5. CASE Dump
  BY <1>5, DumpNearer
<1>6. CASE Resuming
  BY <1>6, ResumingNearer
<1>7. CASE (Executing /\ ~ Exit) \/ Interrupt
  BY <1>1, <1>7, ExecutingNearer
<1>8. ASSUME NEW i \in Item, RunItem(i)
      PROVE  Below(Remainder', Remainder)
  BY <1>1, <1>8, WorkerNearer
<1>9. QED
  BY <1>2, <1>3, <1>4, <1>5, <1>6, <1>7, <1>8 DEF Next, ControllerStep

(* The part of SessionsEnd that holds of every step: whatever the thread   *)
(* that moves and whatever the child or the user does, a step that leaves  *)
(* the controller alive leaves it less to do in the well-founded           *)
(* lexicographic order of its four counters.  _execute's loop of waiting,  *)
(* collecting and refilling, resume's loops over directories, items and    *)
(* authorizations, and the retaking of the artifacts lock cannot go on for *)
(* ever.                                                                   *)
THEOREM SessionsGetNearer ==
  Spec => /\ [](Remainder \in Nat \X Nat \X Nat \X Nat)
          /\ [][main.pc # "idle" /\ main'.pc # "idle" => Below(Remainder', Remainder)]_vars
<1>1. TypeInv => Remainder \in Nat \X Nat \X Nat \X Nat
  BY RemainderType DEF Remainder
<1>2. TypeInv /\ LedgerInv /\ IndexInv /\ SerialInv /\ [Next]_vars
      => [main.pc # "idle" /\ main'.pc # "idle" => Below(Remainder', Remainder)]_vars
  BY SessionNearer
<1>3. QED
  BY <1>1, <1>2, TypeInvariance, LedgerInvariance, IndexInvariance, SerialInvariance, PTL DEF Spec
-----------------------------------------------------------------------------
(* ... and there is always a thread that can take the next step            *)

(* The places the main thread leaves under no condition but a free lock.   *)
Unconditional ==
  {"initialize", "initialized", "reconciled", "settled", "unseal", "activate", "plan",
   "checkpoint", "refill", "interrupted", "finish", "verdict", "report", "seal", "exit"}

(* The newest record of the item, if it has one, is not a valid one.       *)
Rejected(i) == \A r \in LatestOf(i, mem.index) : r.validity # "valid"

(* The conditions of the others, as their actions state them.              *)
MainReady ==
  \/ main.pc \in Unconditional
  \/ main.pc = "reconcile" /\ (Unindexed(mem.index) = {} \/ \E c \in children : FirstUnindexed(c))
  \/ main.pc = "validate" /\ main.cursor \in 1 .. N + 1
  \/ main.pc = "settle" /\ (Unsettled = {} \/ \E a \in Unsettled : Rejected(a.item))
  \/ main.pc = "wait" /\ (Finished # {} \/ Futures = {})
  \/ main.pc = "collect" /\ \E i \in main.batch : \A j \in main.batch : i <= j
  \/ main.pc = "drain" /\ \A i \in Futures : run[i].pc = "done"

(* A worker never waits for anything but the lock.                         *)
WorkerReady(i) == run[i].pc \notin {"none", "done"}

Ready ==
  \/ lock.dumps # <<>>
  \/ lock = Free /\ (MainReady \/ \E i \in Item : WorkerReady(i))

(* What a step of resume or of the pool's loop counts on.                  *)
ExpectInv ==
  /\ main.pc = "validate" =>
       /\ main.cursor \in 1 .. N + 1
       /\ \A i \in Item : i < main.cursor => i \in main.completed \/ Rejected(i)
  /\ main.pc \in {"settle", "settled"} => \A i \in Item : i \in main.completed \/ Rejected(i)
  /\ main.pc = "collect" => main.batch # {}

LEMMA RejectedKept ==
  ASSUME mem'.index = mem.index
  PROVE  \A i : Rejected(i)' <=> Rejected(i)
BY DEF Rejected, LatestOf, LatestRecords

LEMMA RejectedOthers ==
  ASSUME NEW r, OnlyLatest(r)
  PROVE  /\ \A j : j # r.item => (Rejected(j)' <=> Rejected(j))
         /\ r.validity # "valid" => Rejected(r.item)'
<1>1. \A j : LatestOf(j, mem.index)' = LatestOf(j, mem'.index)
  BY DEF LatestOf, LatestRecords
<1>2. QED
  BY <1>1 DEF OnlyLatest, Rejected

(* The cursor passes an item that is completed or has no valid record.     *)
LEMMA VisitedItem ==
  ASSUME TypeInv, ExpectInv, NEW i \in Item,
         main.pc = "validate", main'.pc = "validate", main.cursor = i, main'.cursor = i + 1,
         main.completed \subseteq main'.completed, i \in main'.completed \/ Rejected(i)',
         \A j \in Item : j # i => (Rejected(j) => Rejected(j)')
  PROVE  ExpectInv'
<1>1. i \in 1 .. N /\ N \in Nat
  BY ConfigAssumption DEF Item
<1>2. \A j \in Item : j \in Nat /\ (j < i + 1 => j = i \/ j < i)
  BY <1>1 DEF Item
<1>3. main'.cursor \in 1 .. N + 1
  BY <1>1
<1>4. ASSUME NEW j \in Item, j < main'.cursor
      PROVE  j \in main'.completed \/ Rejected(j)'
  <2>1. CASE j = i
    BY <2>1
  <2>2. CASE j # i
    <3>1. j < i
      BY <1>2, <1>4, <2>2
    <3>2. j \in main.completed \/ Rejected(j)
      BY <3>1 DEF ExpectInv
    <3>3. QED
      BY <2>2, <3>2
  <2>3. QED
    BY <2>1, <2>2
<1>5. QED
  BY <1>3, <1>4 DEF ExpectInv

LEMMA ExpectResuming ==
  ASSUME TypeInv, LedgerInv, IndexInv, ResumeInv, ExpectInv, Resuming
  PROVE  ExpectInv'
<1>1. MainOK(main) /\ N \in Nat
  BY ConfigAssumption DEF TypeInv
<1>2. ASSUME (\E c \in children : ReconcileChild(c)) \/ ReconcileEvent \/ ReconcileDone
      PROVE  ExpectInv'
  <2>1. /\ main.pc \in {"reconcile", "reconciled"} /\ main'.cursor = main.cursor
        /\ main'.pc \in {"reconcile", "reconciled", "validate"}
    BY <1>1, <1>2 DEF ReconcileChild, ReconcileEvent, ReconcileDone, At, MainOK
  <2>2. main'.cursor = 1 /\ \A i \in Item : ~ (i < 1)
    BY <2>1 DEF ResumeInv, Beginning, Item
  <2>3. main'.cursor \in 1 .. N + 1
    BY <1>1, <2>2
  <2>4. QED
    BY <2>1, <2>2, <2>3 DEF ExpectInv
<1>3. ASSUME mem'.index = mem.index, Observes
      PROVE  ExpectInv'
  <2>1. \A j : Rejected(j)' <=> Rejected(j)
    BY <1>3, RejectedKept
  <2>2. CASE ReconcileEvent \/ ReconcileDone
    BY <1>2, <2>2
  <2>3. CASE ValidateDone
    <3>1. /\ main.pc = "validate" /\ main.cursor = N + 1 /\ main'.pc \in {"settle", "unseal"}
          /\ main'.completed = main.completed
      BY <1>1, <2>3 DEF ValidateDone, Visit, At, MainOK
    <3>2. \A i \in Item : i < N + 1
      BY <1>1 DEF Item
    <3>3. \A i \in Item : i \in main'.completed \/ Rejected(i)'
      BY <2>1, <3>1, <3>2 DEF ExpectInv
    <3>4. QED
      BY <3>1, <3>3 DEF ExpectInv
  <2>4. CASE SettleEvent \/ SettleDone
    <3>1. /\ main.pc \in {"settle", "settled"} /\ main'.pc \in {"settle", "unseal"}
          /\ main'.completed = main.completed
      BY <1>1, <2>4 DEF SettleEvent, SettleDone, At, MainOK
    <3>2. \A i \in Item : i \in main'.completed \/ Rejected(i)'
      BY <2>1, <3>1 DEF ExpectInv
    <3>3. QED
      BY <3>1, <3>2 DEF ExpectInv
  <2>5. ASSUME NEW i \in Item, ReuseChild(i)
        PROVE  ExpectInv'
    <3>1. /\ main.pc = "validate" /\ main'.pc = "validate"
          /\ main'.completed = main.completed \cup {i} /\ main.cursor = i /\ main'.cursor = i + 1
      BY <2>5, ResumingCompleted
    <3>2. QED
      BY <2>1, <3>1, VisitedItem
  <2>6. ASSUME NEW i \in Item, SkipItem(i)
        PROVE  ExpectInv'
    <3>1. /\ main.pc = "validate" /\ main'.pc = "validate" /\ main'.completed = main.completed
          /\ main.cursor = i /\ main'.cursor = i + 1
      BY <2>6, ResumingCompleted
    <3>2. Rejected(i)
      BY <2>6 DEF SkipItem, Rejected
    <3>3. QED
      BY <2>1, <3>1, <3>2, VisitedItem
  <2>7. QED
    BY <1>3, <2>2, <2>3, <2>4, <2>5, <2>6 DEF Observes
<1>4. ASSUME NEW r \in IndexRecord, OnlyLatest(r)
      PROVE  /\ Downgrades(r) => ExpectInv'
             /\ Settles(r) => ExpectInv'
  <2>1. /\ \A j : j # r.item => (Rejected(j)' <=> Rejected(j))
        /\ r.validity # "valid" => Rejected(r.item)'
    BY <1>4, RejectedOthers
  <2>2. ASSUME NEW i \in Item, DowngradeChild(i), r.item = i, r.validity = "corrupt"
        PROVE  ExpectInv'
    <3>1. /\ main.pc = "validate" /\ main'.pc = "validate" /\ main'.completed = main.completed
          /\ main.cursor = i /\ main'.cursor = i + 1
      BY <2>2, ResumingCompleted
    <3>2. Rejected(i)' /\ \A j \in Item : j # i => (Rejected(j) => Rejected(j)')
      BY <2>1, <2>2
    <3>3. QED
      BY <3>1, <3>2, VisitedItem
  <2>3. ASSUME NEW a \in mem.ledger, SettleMissing(a) \/ SettlePreserved(a), r.item = a.item
        PROVE  ExpectInv'
    <3>1. /\ main.pc = "settle" /\ main'.pc \in {"settle", "settled"}
          /\ main'.completed = main.completed \cup {a.item}
      BY <2>3, ResumingCompleted
    <3>2. \A j \in Item : j \in main.completed \/ Rejected(j)
      BY <3>1 DEF ExpectInv
    <3>3. \A j \in Item : j \in main'.completed \/ Rejected(j)'
      BY <2>1, <2>3, <3>1, <3>2
    <3>4. QED
      BY <3>1, <3>3 DEF ExpectInv
  <2>4. QED
    BY <2>2, <2>3 DEF Downgrades, Settles
<1>5. \A r : Reconciles(r) => ExpectInv'
  BY <1>2 DEF Reconciles
<1>6. QED
  BY <1>3, <1>4, <1>5, ResumingLatest

LEMMA ExpectNext ==
  ASSUME TypeInv, LedgerInv, IndexInv, ResumeInv, ExpectInv, [Next]_vars
  PROVE  ExpectInv'
<1>1. MainOK(main) /\ Threads
  BY DEF TypeInv, IndexInv
<1>2. CASE Prepare \/ Crash \/ Exit \/ Run \/ Resume \/ Initialize \/ Execute
  <2>1. main'.pc \in {"idle", "initialize", "reconcile", "initialized", "unseal"}
    BY <1>1, <1>2 DEF Prepare, Crash, Exit, Gone, IdleMain, Run, Resume, Initialize, Execute, MainOK
  <2>2. QED
    BY <2>1 DEF ExpectInv
<1>3. CASE Dump \/ (\E c \in children : DamageChild(c)) \/ UNCHANGED vars
  <2>1. main' = main /\ mem' = mem
    BY <1>3 DEF Dump, DamageChild, vars
  <2>2. QED
    BY <2>1, RejectedKept DEF ExpectInv
<1>4. CASE Resuming
  BY <1>4, ExpectResuming
<1>5. CASE (Executing /\ ~ Exit) \/ Interrupt
  <2>1. main'.pc \notin {"validate", "settle", "settled"}
    BY <1>5, ExecutingMoves DEF Executing, MainMoves
  <2>2. main'.pc = "collect" => Wait \/ Refill \/ StopScheduling
    BY <1>5, ExecutingMoves DEF Executing, MainMoves
  <2>3. main'.pc = "collect" => main'.batch # {}
    BY <1>1, <2>2 DEF Wait, Refill, StopScheduling, MainOK
  <2>4. QED
    BY <2>1, <2>3 DEF ExpectInv
<1>6. ASSUME NEW i \in Item, RunItem(i)
      PROVE  ExpectInv'
  <2>1. run[i].pc # "none" /\ main' = main
    BY <1>6, WorkerSteps
  <2>2. main.pc \notin Early
    BY <1>1, <2>1 DEF Threads, PoolInv
  <2>3. QED
    BY <2>1, <2>2 DEF ExpectInv, Early
<1>7. QED
  BY <1>2, <1>3, <1>4, <1>5, <1>6 DEF Next, ControllerStep

(* The directory that resume reconciles first is there.                    *)
LEMMA SomeFirstUnindexed ==
  ASSUME TypeInv, Unindexed(mem.index) # {}
  PROVE  \E c \in children : FirstUnindexed(c)
<1> DEFINE U == Unindexed(mem.index)
           items == {c.item : c \in U}
<1>1. U \subseteq children /\ \A c \in U : c.item \in Nat /\ c.serial \in Nat
  BY SerialsTyped DEF Unindexed, Item
<1>2. items \subseteq Nat /\ items # {}
  BY <1>1
<1>3. PICK i \in items : \A j \in items : i <= j
  BY <1>2, LeastItem
<1> DEFINE serials == {c.serial : c \in {d \in U : d.item = i}}
<1>4. serials \subseteq Nat /\ serials # {}
  BY <1>1, <1>3
<1>5. PICK s \in serials : \A t \in serials : s <= t
  BY <1>4, LeastItem
<1>6. PICK c \in U : c.item = i /\ c.serial = s
  BY <1>5
<1>7. \A d \in U : c.item < d.item \/ (c.item = d.item /\ c.serial <= d.serial)
  <2>1. SUFFICES ASSUME NEW d \in U
                 PROVE  c.item < d.item \/ (c.item = d.item /\ c.serial <= d.serial)
    OBVIOUS
  <2>2. d.item \in items /\ i <= d.item /\ i \in Nat /\ d.item \in Nat
    BY <1>1, <1>2, <1>3
  <2>3. CASE d.item = i
    <3>1. d.serial \in serials
      BY <2>3
    <3>2. QED
      BY <1>5, <1>6, <2>3, <3>1
  <2>4. CASE d.item # i
    BY <1>6, <2>2, <2>4
  <2>5. QED
    BY <2>3, <2>4
<1>8. QED
  BY <1>1, <1>6, <1>7 DEF FirstUnindexed

LEMMA AlwaysReady ==
  ASSUME TypeInv, Threads, ExpectInv, main.pc # "idle"
  PROVE  Ready
<1>1. MainOK(main) /\ \A i \in Item : i # Nobody
  BY ConfigAssumption DEF TypeInv, Item, Nobody
<1>2. CASE lock # Free
  <2>1. lock.dumps # <<>>
    BY <1>2, DumpOrder DEF Threads, LockInv
  <2>2. QED
    BY <2>1 DEF Ready
<1>3. CASE lock = Free
  <2>1. SUFFICES ASSUME \A i \in Item : run[i].pc \in {"none", "done"}
                 PROVE  MainReady
    BY <1>3 DEF Ready, WorkerReady
  <2>2. \A i \in Futures : i \in Item /\ run[i].pc = "done"
    BY <2>1 DEF Futures
  <2>3. CASE main.pc \in Unconditional
    BY <2>3 DEF MainReady
  <2>4. CASE main.pc = "reconcile"
    BY <2>4, SomeFirstUnindexed DEF MainReady
  <2>5. CASE main.pc = "validate"
    BY <2>5 DEF MainReady, ExpectInv
  <2>6. CASE main.pc = "settle"
    <3>1. \A a \in Unsettled : a.item \in Item /\ a.item \notin main.completed
      BY DEF Unsettled, TypeInv, ParentOK, Parent, Authorization
    <3>2. \A a \in Unsettled : Rejected(a.item)
      BY <2>6, <3>1 DEF ExpectInv
    <3>3. QED
      BY <2>6, <3>2 DEF MainReady
  <2>7. CASE main.pc = "wait"
    <3>1. Free.holder = Nobody
      BY DumpOrder
    <3>2. \A i \in Futures : RunAt(i, "done")
      BY <1>1, <1>3, <2>2, <3>1 DEF RunAt
    <3>3. Finished = Futures
      BY <3>2 DEF Finished
    <3>4. QED
      BY <2>7, <3>3 DEF MainReady
  <2>8. CASE main.pc = "collect"
    <3>1. main.batch \in SUBSET Nat /\ main.batch # {}
      BY <1>1, <2>8 DEF MainOK, ExpectInv, Item
    <3>2. \E i \in main.batch : \A j \in main.batch : i <= j
      BY <3>1, LeastItem
    <3>3. QED
      BY <2>8, <3>2 DEF MainReady
  <2>9. CASE main.pc = "drain"
    BY <2>2, <2>9 DEF MainReady
  <2>10. QED
    BY <1>1, <2>3, <2>4, <2>5, <2>6, <2>7, <2>8, <2>9 DEF MainOK, MainPc, Unconditional
<1>4. QED
  BY <1>2, <1>3

(* Nobody waits for somebody who waits for him: as long as the controller  *)
(* lives, some thread's next step waits for nothing.  A held lock has a    *)
(* file to replace, _execute never waits for futures that are all taken    *)
(* from it, and resume finds its next directory, item or authorization     *)
(* in one of the cases it has code for.                                    *)
THEOREM SomebodyIsReady == Spec => [](main.pc # "idle" => Ready)
<1>1. Init => ExpectInv
  BY DEF Init, IdleMain, ExpectInv
<1>2. TypeInv /\ LedgerInv /\ IndexInv /\ (ChildInv /\ ResumeInv) /\ ExpectInv /\ [Next]_vars
      => ExpectInv'
  BY ExpectNext
<1>3. TypeInv /\ IndexInv /\ ExpectInv => (main.pc # "idle" => Ready)
  BY AlwaysReady DEF IndexInv
<1>4. QED
  BY <1>1, <1>2, <1>3, TypeInvariance, LedgerInvariance, IndexInvariance, ChildInvariance, PTL
     DEF Spec

=============================================================================
