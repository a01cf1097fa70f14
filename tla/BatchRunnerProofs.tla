------------------------- MODULE BatchRunnerProofs -------------------------
(***************************************************************************)
(* The types of BatchRunner, for every plan, every policy and every number *)
(* of sessions, and the promise of ModelProcessLedger: model processes are *)
(* started at most once per plan item and only after their authorization   *)
(* is on disk.                                                             *)
(*                                                                         *)
(* TypeOK is not inductive.  The counters of state.json are cardinalities  *)
(* and attempt numbers are maxima, which are numbers only for finite       *)
(* indexes with bounded attempts; and a worker that reports on its child   *)
(* reads a run directory that must exist.  TypeInv adds the three facts,   *)
(* one predicate per variable, so that a step only has to argue about the  *)
(* variables it changes.                                                   *)
(***************************************************************************)
EXTENDS BatchRunner, FiniteSetTheorems, SequenceTheorems, WellFoundedInduction, TLAPS

Bounded(S) == \E b \in Nat : \A x \in S : x <= b
AttemptsBounded(ix) == \E b \in Nat : \A r \in ix : r.attempt <= b

ParentOK(p) ==
  /\ p \in Parent
  /\ IsFiniteSet(p.index) /\ IsFiniteSet(p.ledger)
  /\ AttemptsBounded(p.index)

LockOK(l) == l \in [holder : Item \cup {Main, Nobody}, dumps : Seq(DumpedFile)]

MainOK(m) ==
  m \in [pc : MainPc, completed : SUBSET Item, pending : SUBSET Item,
         attempts : [Item -> Nat], batch : SUBSET Item, stop : BOOLEAN,
         internals : Nat, exc : Exc, cursor : Nat, focus : IndexRecord]

ItemRun == [pc : RunPc, serial : Nat, exc : Exc, internal : BOOLEAN, rec : IndexRecord]

ChildrenOK(cs) == cs \subseteq ChildRun /\ IsFiniteSet(cs)

(* A worker whose child runs or has returned finds its run directory.      *)
Backed(r, cs) ==
  \A i \in Item : r[i].pc \in {"running", "returned"} =>
                    \E c \in cs : c.item = i /\ c.serial = r[i].serial

OutsideOK(l, se, ro, s, t) ==
  /\ l \in [Item -> Nat]
  /\ se \in {"absent", "fresh", "stale"} /\ ro \in {"absent", "partial", "ready"}
  /\ s \in Nat /\ t \in Nat

TypeInv ==
  /\ ParentOK(mem) /\ ParentOK(disk)
  /\ LockOK(lock) /\ MainOK(main) /\ run \in [Item -> ItemRun]
  /\ ChildrenOK(children) /\ Backed(run, children)
  /\ OutsideOK(launches, sealed, root, sessions, tampers)
-----------------------------------------------------------------------------
(* Numbers: a bounded non-empty set of naturals has a maximum              *)

LEMMA MaxOfBounded ==
  ASSUME NEW S \in SUBSET Nat, S # {}, Bounded(S)
  PROVE  Max(S) \in S /\ \A y \in S : Max(S) >= y
<1> DEFINE T == {b \in Nat : \A x \in S : x <= b}
<1>1. T \subseteq Nat /\ T # {}
  BY DEF Bounded
<1>2. PICK m \in T : \A k \in T : ~ (<<k, m>> \in OpToRel(<, Nat))
  <2> HIDE DEF T
  <2>1. QED BY <1>1, WFMin, NatLessThanWellFounded
<1>3. \A k \in T : ~ (k < m)
  BY <1>1, <1>2 DEF OpToRel
<1>4. m \in S
  <2>1. SUFFICES ASSUME m \notin S PROVE FALSE
    OBVIOUS
  <2>2. m \in Nat /\ \A x \in S : x \in Nat /\ x < m
    BY <2>1
  <2>3. m # 0
    <3>1. PICK x \in S : TRUE
      OBVIOUS
    <3>2. QED BY <2>2, <3>1
  <2>4. m - 1 \in Nat /\ m - 1 < m /\ \A x \in S : x <= m - 1
    BY <2>2, <2>3
  <2>5. QED BY <2>4, <1>3
<1>5. \E x \in S : \A y \in S : x >= y
  BY <1>4
<1>6. QED
  BY <1>5 DEF Max

-----------------------------------------------------------------------------
(* Records and counters                                                    *)

LEMMA StateFields ==
  ASSUME NEW s \in State
  PROVE  /\ s.scheduled \in Nat /\ s.terminal \in Nat /\ s.active \in Nat
         /\ s.observed \in Nat /\ s.authorized \in Nat
         /\ s.valid \in Int /\ s.infra \in Int /\ s.corrupt \in Int
BY DEF State

LEMMA TerminalStateType ==
  ASSUME NEW s \in State, NEW r \in IndexRecord
  PROVE  TerminalState(s, r) \in State
<1> DEFINE v == Count(r.validity = "valid")
           f == Count(Infra(r))
           c == Count(Corrupt(r))
           a == IF s.active > 0 THEN s.active - 1 ELSE 0
<1>2. v \in Nat /\ f \in Nat /\ c \in Nat
  BY DEF Count
<1>3. /\ a \in Nat /\ s.terminal + 1 \in Nat
      /\ s.valid + v \in Int /\ s.infra + f \in Int /\ s.corrupt + c \in Int
  BY <1>2, StateFields
<1>4. TerminalState(s, r) =
        [s EXCEPT !.active = a, !.terminal = s.terminal + 1, !.valid = s.valid + v,
                  !.infra = s.infra + f, !.corrupt = s.corrupt + c]
  BY DEF TerminalState, State
<1> HIDE DEF v, f, c, a
<1>5. QED
  BY <1>3, <1>4 DEF State

LEMMA ReplacedStateType ==
  ASSUME NEW s \in State, NEW r \in IndexRecord, NEW q \in IndexRecord
  PROVE  ReplacedState(s, r, q) \in State
<1> DEFINE v == s.valid - Count(r.validity = "valid") + Count(q.validity = "valid")
           f == s.infra - Count(Infra(r)) + Count(Infra(q))
           c == s.corrupt - Count(Corrupt(r)) + Count(Corrupt(q))
<1>2. v \in Int /\ f \in Int /\ c \in Int
  BY StateFields DEF Count
<1>3. ReplacedState(s, r, q) = [s EXCEPT !.valid = v, !.infra = f, !.corrupt = c]
  BY DEF ReplacedState, State
<1> HIDE DEF v, f, c
<1>4. QED
  BY <1>2, <1>3 DEF State

LEMMA StartedStateType ==
  ASSUME NEW s \in State
  PROVE  StartedState(s) \in State
<1> DEFINE o == IF s.observed > s.active + 1 THEN s.observed ELSE s.active + 1
<1>1. o \in Nat /\ s.active + 1 \in Nat
  BY StateFields
<1>2. StartedState(s) = [s EXCEPT !.active = s.active + 1, !.observed = o]
  BY DEF StartedState, State
<1> HIDE DEF o
<1>3. QED
  BY <1>1, <1>2 DEF State

LEMMA EventsType ==
  ASSUME NEW e \in Events
  PROVE  /\ StartedEvents(e) \in Events
         /\ \A r \in IndexRecord : TerminalEvents(e, r) \in Events
         /\ [e EXCEPT !.active = 0] \in Events
         /\ [e EXCEPT !.scheduled = @ + 1] \in Events
<1> DEFINE o == IF e.observed > e.active + 1 THEN e.observed ELSE e.active + 1
           a == IF e.active > 0 THEN e.active - 1 ELSE 0
<1>1. o \in Nat /\ a \in Nat /\ e.active + 1 \in Nat /\ e.scheduled + 1 \in Nat
  BY DEF Events
<1>2. StartedEvents(e) = [e EXCEPT !.active = e.active + 1, !.observed = o]
  BY DEF StartedEvents, Events
<1>3. ASSUME NEW r \in IndexRecord
      PROVE  TerminalEvents(e, r) \in Events
  <2>1. <<r.item, r.attempt>> \in Nat \X Nat
    BY DEF IndexRecord
  <2>2. e.terminals \cup {<<r.item, r.attempt>>} \in SUBSET (Nat \X Nat)
    BY <2>1 DEF Events
  <2>3. TerminalEvents(e, r) =
          [e EXCEPT !.active = a, !.terminals = e.terminals \cup {<<r.item, r.attempt>>}]
    BY DEF TerminalEvents, Events
  <2> HIDE DEF a
  <2>4. QED
    BY <1>1, <2>2, <2>3 DEF Events
<1>4. [e EXCEPT !.active = 0] \in Events /\ [e EXCEPT !.scheduled = @ + 1] \in Events
  BY <1>1 DEF Events
<1> HIDE DEF o
<1>5. QED
  BY <1>1, <1>2, <1>3, <1>4 DEF Events

LEMMA RecoveredStateType ==
  ASSUME NEW p, ParentOK(p)
  PROVE  RecoveredState(p) \in State
<1>1. /\ IsFiniteSet({r \in p.index : r.validity = "valid"})
      /\ IsFiniteSet({r \in p.index : Infra(r)})
      /\ IsFiniteSet({r \in p.index : Corrupt(r)})
  BY FS_Subset DEF ParentOK
<1>2. /\ Cardinality(p.index) \in Nat /\ Cardinality(p.ledger) \in Nat
      /\ Cardinality({r \in p.index : r.validity = "valid"}) \in Nat
      /\ Cardinality({r \in p.index : Infra(r)}) \in Nat
      /\ Cardinality({r \in p.index : Corrupt(r)}) \in Nat
  BY <1>1, FS_CardinalityType DEF ParentOK
<1>3. p.events \in Events /\ p.state \in State
  BY DEF ParentOK, Parent
<1>4. QED
  BY <1>2, <1>3 DEF RecoveredState, State, Status, Events

(* Index and ledger grow by one record, and a record can be replaced.      *)
LEMMA ParentFiles ==
  ASSUME NEW p, ParentOK(p)
  PROVE  /\ \A s \in State : ParentOK([p EXCEPT !.state = s])
         /\ \A e \in Events : ParentOK([p EXCEPT !.events = e])
         /\ \A n \in Nat : ParentOK([p EXCEPT !.checkpoints = Append(@, n)])
         /\ \A st \in Status, s \in State :
              ParentOK([p EXCEPT !.manifest = st, !.state = s])
BY AppendProperties DEF ParentOK, Parent

LEMMA ParentIndex ==
  ASSUME NEW p, ParentOK(p), NEW ix \in SUBSET IndexRecord, IsFiniteSet(ix),
         AttemptsBounded(ix), NEW s \in State
  PROVE  ParentOK([p EXCEPT !.index = ix, !.state = s])
BY DEF ParentOK, Parent

LEMMA IndexGrows ==
  ASSUME NEW ix \in SUBSET IndexRecord, IsFiniteSet(ix), AttemptsBounded(ix),
         NEW r \in IndexRecord
  PROVE  /\ ix \cup {r} \in SUBSET IndexRecord /\ IsFiniteSet(ix \cup {r})
         /\ AttemptsBounded(ix \cup {r})
<1>1. PICK b \in Nat : \A q \in ix : q.attempt <= b
  BY DEF AttemptsBounded
<1>2. r.attempt \in Nat /\ \A q \in ix : q.attempt \in Nat
  BY DEF IndexRecord
<1>3. b + r.attempt \in Nat /\ \A q \in ix \cup {r} : q.attempt <= b + r.attempt
  BY <1>1, <1>2
<1>4. AttemptsBounded(ix \cup {r})
  BY <1>3 DEF AttemptsBounded
<1>5. QED
  BY <1>4, FS_AddElement

LEMMA IndexShrinks ==
  ASSUME NEW ix \in SUBSET IndexRecord, IsFiniteSet(ix), AttemptsBounded(ix),
         NEW jx \in SUBSET ix
  PROVE  /\ jx \in SUBSET IndexRecord /\ IsFiniteSet(jx)
         /\ AttemptsBounded(jx)
BY FS_Subset DEF AttemptsBounded

LEMMA NewParentType == ParentOK(NewParent)
BY FS_EmptySet, EmptySeq DEF ParentOK, Parent, NewParent, NewState, State, Events, Status, AttemptsBounded

LEMMA IdleTypes ==
  /\ LockOK(Free) /\ MainOK(IdleMain)
  /\ [i \in Item |-> NoRun] \in [Item -> ItemRun]
  /\ \A cs : Backed([i \in Item |-> NoRun], cs)
<1>1. RunIndexRecord(0, 0, 0, "missing", "none") \in IndexRecord
  BY DEF RunIndexRecord, IndexRecord, Validity, Fault
<1>2. LockOK(Free)
  BY EmptySeq DEF LockOK, Free
<1>3. MainOK(IdleMain)
  BY <1>1 DEF MainOK, IdleMain, MainPc, Exc
<1>4. NoRun \in ItemRun
  BY <1>1 DEF NoRun, ItemRun, RunPc, Exc
<1>5. QED
  BY <1>2, <1>3, <1>4 DEF Backed, NoRun

(* A locked method leaves the typed parent it computes.                    *)
LEMMA LockedType ==
  ASSUME NEW t \in Item \cup {Main}, NEW p, ParentOK(p), NEW files \in Seq(DumpedFile),
         Locked(t, p, files)
  PROVE  ParentOK(mem') /\ LockOK(lock')
BY DEF Locked, LockOK

LEMMA Files ==
  /\ <<"index", "state">> \in Seq(DumpedFile)
  /\ <<"events", "state">> \in Seq(DumpedFile)
  /\ <<"manifest", "state">> \in Seq(DumpedFile)
  /\ <<"state">> \in Seq(DumpedFile)
BY DEF DumpedFile

LEMMA EventType ==
  ASSUME TypeInv, NEW t \in Item \cup {Main}, NEW e \in Events, Event(t, e)
  PROVE  ParentOK(mem') /\ LockOK(lock')
<1>1. ParentOK([mem EXCEPT !.events = e])
  BY ParentFiles DEF TypeInv
<1>2. QED
  BY <1>1, LockedType, Files DEF Event

LEMMA SetStatusType ==
  ASSUME TypeInv, NEW st \in Status, SetStatus(st)
  PROVE  ParentOK(mem') /\ LockOK(lock')
<1> DEFINE s == [mem.state EXCEPT !.status = st, !.active = 0]
<1>1. s \in State
  BY DEF TypeInv, ParentOK, Parent, State
<1>2. ParentOK([mem EXCEPT !.manifest = st, !.state = s])
  BY <1>1, ParentFiles DEF TypeInv
<1>3. [mem EXCEPT !.manifest = st, !.state.status = st, !.state.active = 0]
        = [mem EXCEPT !.manifest = st, !.state = s]
  BY DEF TypeInv, ParentOK, Parent
<1>4. Locked(Main, [mem EXCEPT !.manifest = st, !.state = s], <<"manifest", "state">>)
  BY <1>3 DEF SetStatus
<1> HIDE DEF s
<1>5. QED
  BY <1>2, <1>4, LockedType, Files
-----------------------------------------------------------------------------
(* Steps that start and end a controller process                           *)

LEMMA GoneType ==
  ASSUME TypeInv, Gone
  PROVE  TypeInv'
BY NewParentType, IdleTypes DEF Gone, TypeInv, Bookkeeping, OutsideOK

LEMMA StartingType ==
  ASSUME TypeInv, Run \/ Resume \/ Initialize \/ Execute
  PROVE  TypeInv'
<1>1. CASE Run
  BY <1>1 DEF Run, TypeInv, MainOK, MainPc, OutsideOK, Bookkeeping
<1>2. CASE Resume
  <2>1. ParentOK(mem')
    BY <1>2, RecoveredStateType, ParentFiles DEF Resume, TypeInv
  <2>2. QED
    BY <1>2, <2>1 DEF Resume, TypeInv, MainOK, MainPc, OutsideOK, Bookkeeping
<1>3. CASE Initialize
  BY <1>3, NewParentType DEF Initialize, TypeInv, MainOK, MainPc, OutsideOK, Bookkeeping
<1>4. CASE Execute
  BY <1>4 DEF Execute, TypeInv, MainOK, MainPc, OutsideOK, Bookkeeping
<1>5. QED
  BY <1>1, <1>2, <1>3, <1>4

LEMMA DumpType ==
  ASSUME TypeInv, Dump
  PROVE  TypeInv'
<1> DEFINE f == Head(lock.dumps)
<1>1. lock.dumps \in Seq(DumpedFile) /\ lock.dumps # <<>>
  BY DEF Dump, TypeInv, LockOK
<1>2. f \in DumpedFile /\ Tail(lock.dumps) \in Seq(DumpedFile)
  BY <1>1, HeadTailProperties
<1>3. disk' = [disk EXCEPT ![f] = mem[f]]
  BY DEF Dump
<1> HIDE DEF f
<1>4. ParentOK(disk')
  <2>1. CASE f = "events"
    BY <2>1, <1>3 DEF TypeInv, ParentOK, Parent
  <2>2. CASE f = "state"
    BY <2>2, <1>3 DEF TypeInv, ParentOK, Parent
  <2>3. CASE f = "index"
    BY <2>3, <1>3 DEF TypeInv, ParentOK, Parent
  <2>4. CASE f = "manifest"
    BY <2>4, <1>3 DEF TypeInv, ParentOK, Parent
  <2>5. QED
    BY <1>2, <2>1, <2>2, <2>3, <2>4 DEF DumpedFile
<1>5. LockOK(lock')
  <2>1. CASE Tail(lock.dumps) = <<>>
    BY <2>1, IdleTypes DEF Dump
  <2>2. CASE Tail(lock.dumps) # <<>>
    BY <2>2, <1>2 DEF Dump, TypeInv, LockOK
  <2>3. QED
    BY <2>1, <2>2
<1>6. QED
  BY <1>4, <1>5 DEF Dump, TypeInv, OutsideOK, Touched

(* A run directory changes its state, never its item or its serial.        *)
LEMMA ChildReplaced ==
  ASSUME NEW cs, ChildrenOK(cs), NEW c \in cs, NEW d \in ChildRun,
         d.item = c.item, d.serial = c.serial
  PROVE  /\ ChildrenOK((cs \ {c}) \cup {d})
         /\ \A r : Backed(r, cs) => Backed(r, (cs \ {c}) \cup {d})
<1>1. IsFiniteSet(cs \ {c})
  BY FS_RemoveElement DEF ChildrenOK
<1>2. IsFiniteSet((cs \ {c}) \cup {d})
  BY <1>1, FS_AddElement
<1>3. ASSUME NEW r, Backed(r, cs)
      PROVE  Backed(r, (cs \ {c}) \cup {d})
  BY <1>3 DEF Backed
<1>4. QED
  BY <1>2, <1>3 DEF ChildrenOK

LEMMA DamageType ==
  ASSUME TypeInv, NEW c \in children, DamageChild(c)
  PROVE  TypeInv'
<1> DEFINE d == [c EXCEPT !.state = "damaged"]
<1>1. d \in ChildRun /\ d.item = c.item /\ d.serial = c.serial
  BY DEF TypeInv, ChildrenOK, ChildRun
<1>2. children' = (children \ {c}) \cup {d}
  BY DEF DamageChild
<1> HIDE DEF d
<1>3. ChildrenOK(children') /\ Backed(run, children')
  BY <1>1, <1>2, ChildReplaced DEF TypeInv
<1>4. QED
  BY <1>3 DEF DamageChild, TypeInv, OutsideOK
-----------------------------------------------------------------------------
(* Resume: reconcile, validate, settle                                     *)

(* What the main thread's steps leave alone is still typed.                *)
LEMMA ParentStepType ==
  ASSUME TypeInv, ParentOK(mem'), LockOK(lock'), MainOK(main'),
         UNCHANGED <<disk, run, sealed, root, sessions, Bookkeeping>>
  PROVE  TypeInv'
BY DEF TypeInv, Bookkeeping, OutsideOK

LEMMA MainStepType ==
  ASSUME TypeInv, MainOK(main'),
         UNCHANGED <<mem, disk, lock, run, sealed, root, sessions, Bookkeeping>>
  PROVE  TypeInv'
BY DEF TypeInv, Bookkeeping, OutsideOK

LEMMA IndexedType ==
  ASSUME TypeInv, NEW t \in Item \cup {Main}, NEW r \in IndexRecord,
         Locked(t, IndexedParent(r), <<"index", "state">>)
  PROVE  ParentOK(mem') /\ LockOK(lock')
<1> DEFINE ix == mem.index \cup {r}
           s == TerminalState(mem.state, r)
<1>1. ParentOK(mem) /\ mem.index \in SUBSET IndexRecord /\ mem.state \in State
  BY DEF TypeInv, ParentOK, Parent
<1>2. ix \in SUBSET IndexRecord /\ IsFiniteSet(ix) /\ AttemptsBounded(ix)
  BY <1>1, IndexGrows DEF ParentOK
<1>3. s \in State
  BY <1>1, TerminalStateType
<1>4. IndexedParent(r) = [mem EXCEPT !.index = ix, !.state = s]
  BY <1>1 DEF IndexedParent, ParentOK, Parent
<1> HIDE DEF ix, s
<1>5. ParentOK(IndexedParent(r))
  <2>1. ParentOK([mem EXCEPT !.index = ix, !.state = s])
    BY <1>1, <1>2, <1>3, ParentIndex
  <2>2. QED
    BY <2>1, <1>4
<1>6. QED
  BY <1>5, LockedType, Files

LEMMA ReplacedType ==
  ASSUME TypeInv, NEW q \in mem.index, NEW r \in IndexRecord,
         Locked(Main, ReplacedParent(q, r), <<"index", "state">>)
  PROVE  ParentOK(mem') /\ LockOK(lock')
<1> DEFINE jx == mem.index \ {q}
           ix == jx \cup {r}
           s == ReplacedState(mem.state, q, r)
<1>1. ParentOK(mem) /\ mem.index \in SUBSET IndexRecord /\ mem.state \in State
  BY DEF TypeInv, ParentOK, Parent
<1>2. jx \in SUBSET IndexRecord /\ IsFiniteSet(jx) /\ AttemptsBounded(jx)
  BY <1>1, IndexShrinks DEF ParentOK
<1>3. ix \in SUBSET IndexRecord /\ IsFiniteSet(ix) /\ AttemptsBounded(ix)
  <2> HIDE DEF jx
  <2>1. QED BY <1>2, IndexGrows
<1>4. s \in State
  BY <1>1, ReplacedStateType
<1>5. ReplacedParent(q, r) = [mem EXCEPT !.index = ix, !.state = s]
  BY <1>1 DEF ReplacedParent, ParentOK, Parent
<1> HIDE DEF ix, s
<1>6. ParentOK(ReplacedParent(q, r))
  <2>1. ParentOK([mem EXCEPT !.index = ix, !.state = s])
    BY <1>1, <1>3, <1>4, ParentIndex
  <2>2. QED
    BY <2>1, <1>5
<1>7. QED
  BY <1>6, LockedType, Files

LEMMA OrphanType ==
  ASSUME TypeInv, NEW c \in children
  PROVE  OrphanRecord(c) \in IndexRecord
<1> DEFINE used == AttemptsOf(c.item, mem.index)
<1>1. c \in ChildRun
  BY DEF TypeInv, ChildrenOK
<1>2. used \in SUBSET Nat /\ Bounded(used)
  BY DEF AttemptsOf, TypeInv, ParentOK, Parent, IndexRecord, Bounded, AttemptsBounded
<1>3. OrphanAttempt(c) \in Nat
  <2>1. CASE c.attempt \notin used
    BY <2>1, <1>1 DEF OrphanAttempt, ChildRun
  <2>2. CASE c.attempt \in used
    <3>1. Max(used) \in Nat
      <4> HIDE DEF used
      <4>1. QED BY <2>2, <1>2, MaxOfBounded
    <3>2. QED
      BY <2>2, <3>1 DEF OrphanAttempt
  <2>3. QED
    BY <2>1, <2>2
<1>4. QED
  BY <1>1, <1>3 DEF OrphanRecord, RunIndexRecord, IndexRecord, ChildRun, Validity, Fault, Item

LEMMA ReconcilingType ==
  ASSUME TypeInv, (\E c \in children : ReconcileChild(c)) \/ ReconcileEvent \/ ReconcileDone
  PROVE  TypeInv'
<1>1. ASSUME NEW c \in children, ReconcileChild(c)
      PROVE  TypeInv'
  <2>1. OrphanRecord(c) \in IndexRecord
    BY OrphanType
  <2>2. ParentOK(mem') /\ LockOK(lock')
    BY <1>1, <2>1, IndexedType DEF ReconcileChild
  <2>3. MainOK(main')
    BY <1>1, <2>1 DEF ReconcileChild, TypeInv, MainOK, MainPc
  <2>4. QED
    BY <1>1, <2>2, <2>3, ParentStepType DEF ReconcileChild
<1>2. CASE ReconcileEvent
  <2>1. TerminalEvents(mem.events, main.focus) \in Events
    BY EventsType DEF TypeInv, ParentOK, Parent, MainOK
  <2>2. ParentOK(mem') /\ LockOK(lock')
    BY <1>2, <2>1, EventType DEF ReconcileEvent
  <2>3. MainOK(main')
    BY <1>2, IdleTypes DEF ReconcileEvent, TypeInv, MainOK, MainPc
  <2>4. QED
    BY <1>2, <2>2, <2>3, ParentStepType DEF ReconcileEvent
<1>3. CASE ReconcileDone
  <2>1. MainOK(main')
    BY <1>3 DEF ReconcileDone, TypeInv, MainOK, MainPc
  <2>2. QED
    BY <1>3, <2>1, MainStepType DEF ReconcileDone
<1>4. QED
  BY <1>1, <1>2, <1>3

LEMMA VisitedType ==
  ASSUME TypeInv
  PROVE  /\ MainOK(Visited)
         /\ \A i \in Item : MainOK([Visited EXCEPT !.completed = @ \cup {i}])
<1>1. main.cursor + 1 \in Nat
  BY DEF TypeInv, MainOK
<1>2. MainOK(Visited)
  BY <1>1 DEF TypeInv, MainOK, Visited
<1>3. QED
  BY <1>2 DEF MainOK

LEMMA ValidatingType ==
  ASSUME TypeInv, (\E i \in Item : ReuseChild(i) \/ DowngradeChild(i) \/ SkipItem(i)) \/ ValidateDone
  PROVE  TypeInv'
<1>1. ASSUME NEW i \in Item, ReuseChild(i)
      PROVE  TypeInv'
  <2>1. ParentOK(mem') /\ LockOK(lock')
    BY <1>1, EventType DEF ReuseChild, TypeInv, ParentOK, Parent
  <2>2. MainOK(main')
    BY <1>1, VisitedType DEF ReuseChild
  <2>3. QED
    BY <1>1, <2>1, <2>2, ParentStepType DEF ReuseChild
<1>2. ASSUME NEW i \in Item, DowngradeChild(i)
      PROVE  TypeInv'
  <2>1. PICK r \in LatestOf(i, mem.index) :
          Locked(Main, ReplacedParent(r, [r EXCEPT !.validity = "corrupt", !.fault = "none"]),
                 <<"index", "state">>)
    BY <1>2 DEF DowngradeChild
  <2>2. r \in mem.index /\ r \in IndexRecord
    BY DEF LatestOf, LatestRecords, TypeInv, ParentOK, Parent
  <2>3. [r EXCEPT !.validity = "corrupt", !.fault = "none"] \in IndexRecord
    BY <2>2 DEF IndexRecord, Validity, Fault
  <2>4. ParentOK(mem') /\ LockOK(lock')
    BY <2>1, <2>2, <2>3, ReplacedType
  <2>5. MainOK(main')
    BY <1>2, VisitedType DEF DowngradeChild
  <2>6. QED
    BY <1>2, <2>4, <2>5, ParentStepType DEF DowngradeChild
<1>3. ASSUME NEW i \in Item, SkipItem(i)
      PROVE  TypeInv'
  <2>1. MainOK(main')
    BY <1>3, VisitedType DEF SkipItem
  <2>2. QED
    BY <1>3, <2>1, MainStepType DEF SkipItem
<1>4. CASE ValidateDone
  <2>1. MainOK(main')
    BY <1>4 DEF ValidateDone, TypeInv, MainOK, MainPc
  <2>2. QED
    BY <1>4, <2>1, MainStepType DEF ValidateDone
<1>5. QED
  BY <1>1, <1>2, <1>3, <1>4

LEMMA SettlingType ==
  ASSUME TypeInv,
         (\E a \in mem.ledger : SettleMissing(a) \/ SettlePreserved(a)) \/ SettleEvent \/ SettleDone
  PROVE  TypeInv'
<1>1. ASSUME NEW a \in mem.ledger, SettleMissing(a)
      PROVE  TypeInv'
  <2> DEFINE r == RunIndexRecord(a.item, a.attempt, 0, "missing", "local")
  <2>1. a \in Authorization
    BY DEF TypeInv, ParentOK, Parent
  <2>2. r \in IndexRecord
    BY <2>1 DEF RunIndexRecord, IndexRecord, Authorization, Validity, Fault, Item
  <2>3. /\ Locked(Main, IndexedParent(r), <<"index", "state">>)
        /\ main' = [main EXCEPT !.pc = "settled", !.focus = r, !.completed = @ \cup {a.item}]
    BY <1>1 DEF SettleMissing
  <2> HIDE DEF r
  <2>4. ParentOK(mem') /\ LockOK(lock')
    BY <2>2, <2>3, IndexedType
  <2>5. MainOK(main')
    BY <2>1, <2>2, <2>3 DEF TypeInv, MainOK, MainPc, Authorization
  <2>6. QED
    BY <1>1, <2>4, <2>5, ParentStepType DEF SettleMissing
<1>2. ASSUME NEW a \in mem.ledger, SettlePreserved(a)
      PROVE  TypeInv'
  <2>1. PICK r \in LatestOf(a.item, mem.index) :
          Locked(Main, ReplacedParent(r, [r EXCEPT !.fault = "local"]), <<"index", "state">>)
    BY <1>2 DEF SettlePreserved
  <2>2. r \in mem.index /\ r \in IndexRecord /\ a.item \in Item
    BY DEF LatestOf, LatestRecords, TypeInv, ParentOK, Parent, Authorization
  <2>3. [r EXCEPT !.fault = "local"] \in IndexRecord
    BY <2>2 DEF IndexRecord, Fault
  <2>4. ParentOK(mem') /\ LockOK(lock')
    BY <2>1, <2>2, <2>3, ReplacedType
  <2>5. MainOK(main')
    BY <1>2, <2>2 DEF SettlePreserved, TypeInv, MainOK
  <2>6. QED
    BY <1>2, <2>4, <2>5, ParentStepType DEF SettlePreserved
<1>3. CASE SettleEvent
  <2>1. TerminalEvents(mem.events, main.focus) \in Events
    BY EventsType DEF TypeInv, ParentOK, Parent, MainOK
  <2>2. ParentOK(mem') /\ LockOK(lock')
    BY <1>3, <2>1, EventType DEF SettleEvent
  <2>3. MainOK(main')
    BY <1>3, IdleTypes DEF SettleEvent, TypeInv, MainOK, MainPc
  <2>4. QED
    BY <1>3, <2>2, <2>3, ParentStepType DEF SettleEvent
<1>4. CASE SettleDone
  <2>1. MainOK(main')
    BY <1>4 DEF SettleDone, TypeInv, MainOK, MainPc
  <2>2. QED
    BY <1>4, <2>1, MainStepType DEF SettleDone
<1>5. QED
  BY <1>1, <1>2, <1>3, <1>4
-----------------------------------------------------------------------------
(* _execute: the main thread                                               *)

LEMMA RunStepType ==
  ASSUME TypeInv, MainOK(main'), run' \in [Item -> ItemRun], Backed(run', children),
         UNCHANGED <<mem, disk, lock, sealed, root, sessions, Bookkeeping>>
  PROVE  TypeInv'
BY DEF TypeInv, Bookkeeping, OutsideOK

(* Items are submitted, cancelled or taken back; none starts to run.       *)
LEMMA SubmitType ==
  ASSUME TypeInv
  PROVE  /\ \A S : Submit(S) => run' \in [Item -> ItemRun] /\ Backed(run', children)
         /\ Cancelled \in [Item -> ItemRun] /\ Backed(Cancelled, children)
         /\ \A i \in Item : /\ [run EXCEPT ![i] = NoRun] \in [Item -> ItemRun]
                            /\ Backed([run EXCEPT ![i] = NoRun], children)
                            /\ [Cancelled EXCEPT ![i] = NoRun] \in [Item -> ItemRun]
                            /\ Backed([Cancelled EXCEPT ![i] = NoRun], children)
<1>1. /\ run \in [Item -> ItemRun] /\ Backed(run, children)
      /\ NoRun \in ItemRun /\ NoRun.pc = "none"
  <2>1. NoRun \in ItemRun
    BY DEF NoRun, ItemRun, RunPc, Exc, RunIndexRecord, IndexRecord, Validity, Fault
  <2>2. QED
    BY <2>1 DEF TypeInv, NoRun
<1>2. [NoRun EXCEPT !.pc = "queued"] \in ItemRun /\ [NoRun EXCEPT !.pc = "queued"].pc = "queued"
  BY <1>1 DEF ItemRun, RunPc
<1>3. ASSUME NEW S, Submit(S)
      PROVE  run' \in [Item -> ItemRun] /\ Backed(run', children)
  BY <1>1, <1>2, <1>3 DEF Submit, Backed
<1>4. Cancelled \in [Item -> ItemRun] /\ Backed(Cancelled, children)
  BY <1>1 DEF Cancelled, Backed
<1>5. ASSUME NEW r \in [Item -> ItemRun], Backed(r, children), NEW i \in Item
      PROVE  [r EXCEPT ![i] = NoRun] \in [Item -> ItemRun] /\ Backed([r EXCEPT ![i] = NoRun], children)
  BY <1>1, <1>5 DEF Backed
<1>6. QED
  BY <1>1, <1>3, <1>4, <1>5

LEMMA NextAttemptType ==
  ASSUME TypeInv, NEW i \in Item
  PROVE  NextAttempt(i) \in Nat
<1> DEFINE S == AttemptsOf(i, mem.index) \cup {0}
<1>1. PICK b \in Nat : \A r \in mem.index : r.attempt <= b
  BY DEF TypeInv, ParentOK, AttemptsBounded
<1>2. S \in SUBSET Nat /\ S # {}
  BY DEF AttemptsOf, TypeInv, ParentOK, Parent, IndexRecord
<1>3. Bounded(S)
  BY <1>1 DEF AttemptsOf, Bounded
<1>4. Max(S) \in Nat
  <2> HIDE DEF S
  <2>1. QED BY <1>2, <1>3, MaxOfBounded
<1>5. QED
  BY <1>4 DEF NextAttempt

LEMMA PlanningType ==
  ASSUME TypeInv, RemoveArtifactManifest \/ SetRunning \/ PlanWork
  PROVE  TypeInv'
<1>1. CASE RemoveArtifactManifest
  BY <1>1 DEF RemoveArtifactManifest, TypeInv, MainOK, MainPc, OutsideOK, Bookkeeping
<1>2. CASE SetRunning
  <2>1. ParentOK(mem') /\ LockOK(lock')
    BY <1>2, SetStatusType DEF SetRunning, Status
  <2>2. MainOK(main')
    BY <1>2 DEF SetRunning, TypeInv, MainOK, MainPc
  <2>3. QED
    BY <1>2, <2>1, <2>2, ParentStepType DEF SetRunning
<1>3. CASE PlanWork
  <2>1. Pending \in SUBSET Item
    BY DEF Pending
  <2>2. \A i \in Item : NextAttempt(i) \in Nat
    BY NextAttemptType
  <2>3. [i \in Item |-> IF i \in Pending THEN NextAttempt(i) ELSE 0] \in [Item -> Nat]
    BY <2>2
  <2>4. MainOK(main')
    BY <1>3, <2>1, <2>3 DEF PlanWork, TypeInv, MainOK, MainPc
  <2>5. run' \in [Item -> ItemRun] /\ Backed(run', children)
    BY <1>3, SubmitType DEF PlanWork
  <2>6. QED
    BY <1>3, <2>4, <2>5, RunStepType DEF PlanWork
<1>4. QED
  BY <1>1, <1>2, <1>3

LEMMA WaitingType ==
  ASSUME TypeInv, Wait \/ WaitDone \/ Interrupt
  PROVE  TypeInv'
<1>1. CASE Wait
  <2>1. MainOK(main')
    BY <1>1 DEF Wait, Finished, Futures, TypeInv, MainOK, MainPc
  <2>2. QED
    BY <1>1, <2>1, MainStepType DEF Wait
<1>2. CASE WaitDone
  <2>1. MainOK(main')
    BY <1>2 DEF WaitDone, TypeInv, MainOK, MainPc
  <2>2. QED
    BY <1>2, <2>1, MainStepType DEF WaitDone
<1>3. CASE Interrupt
  <2>1. MainOK(main')
    BY <1>3 DEF Interrupt, TypeInv, MainOK, MainPc, Exc
  <2>2. QED
    BY <1>3, <2>1, SubmitType, RunStepType DEF Interrupt
<1>4. QED
  BY <1>1, <1>2, <1>3

LEMMA CollectingType ==
  ASSUME TypeInv,
         (\E i \in Item : Collect(i) \/ CollectException(i)) \/ Refill \/ StopScheduling
  PROVE  TypeInv'
<1>1. ASSUME NEW i \in Item, Collect(i)
      PROVE  TypeInv'
  <2>1. run[i].internal \in BOOLEAN /\ main.internals \in Nat /\ main.stop \in BOOLEAN
    BY DEF TypeInv, MainOK, ItemRun
  <2>2. main.internals + Count(run[i].internal) \in Nat
    BY <2>1 DEF Count
  <2>3. (main.stop \/ Stops(i)) \in BOOLEAN
    BY <2>1
  <2>4. MainOK(main')
    BY <1>1, <2>2, <2>3 DEF Collect, TypeInv, MainOK, MainPc
  <2>5. QED
    BY <1>1, <2>4, SubmitType, RunStepType DEF Collect
<1>2. ASSUME NEW i \in Item, CollectException(i)
      PROVE  TypeInv'
  <2>1. run[i].exc \in Exc
    BY DEF TypeInv, ItemRun
  <2>2. MainOK(main')
    BY <1>2, <2>1 DEF CollectException, TypeInv, MainOK, MainPc
  <2>3. QED
    BY <1>2, <2>2, SubmitType, RunStepType DEF CollectException
<1>3. CASE Refill
  <2>1. MainOK(main')
    BY <1>3 DEF Refill, TypeInv, MainOK, MainPc
  <2>2. run' \in [Item -> ItemRun] /\ Backed(run', children)
    BY <1>3, SubmitType DEF Refill
  <2>3. QED
    BY <1>3, <2>1, <2>2, RunStepType DEF Refill
<1>4. CASE StopScheduling
  <2>1. MainOK(main')
    BY <1>4 DEF StopScheduling, TypeInv, MainOK, MainPc
  <2>2. run' \in [Item -> ItemRun] /\ Backed(run', children)
    BY <1>4, SubmitType DEF StopScheduling, TypeInv
  <2>3. QED
    BY <1>4, <2>1, <2>2, RunStepType DEF StopScheduling
<1>5. QED
  BY <1>1, <1>2, <1>3, <1>4

LEMMA CheckpointType ==
  ASSUME TypeInv, NEW pc \in MainPc, WriteCheckpoint(pc)
  PROVE  TypeInv'
<1>1. mem.state.terminal \in Nat
  BY DEF TypeInv, ParentOK, Parent, State
<1>2. ParentOK(mem') /\ ParentOK(disk')
  BY <1>1, ParentFiles DEF WriteCheckpoint, TypeInv
<1>3. MainOK(main')
  BY DEF WriteCheckpoint, TypeInv, MainOK
<1>4. QED
  BY <1>2, <1>3 DEF WriteCheckpoint, TypeInv, OutsideOK, Touched, Bookkeeping

LEMMA ConcludingType ==
  ASSUME TypeInv,
         \/ HandleException \/ InterruptedEvent \/ IntervalCheckpoint
         \/ FinalCheckpoint \/ SkipFinalCheckpoint \/ Verdict
         \/ ReportsGenerated \/ ReportsFailed \/ WriteArtifactManifest
  PROVE  TypeInv'
<1>1. CASE HandleException
  <2>1. ParentOK(mem') /\ LockOK(lock')
    <3>1. (IF main.exc = "interrupt" THEN "interrupted" ELSE "failed_configuration") \in Status
      BY DEF Status
    <3>2. QED
      BY <1>1, <3>1, SetStatusType DEF HandleException
  <2>2. MainOK(main')
    BY <1>1 DEF HandleException, TypeInv, MainOK, MainPc
  <2>3. QED
    BY <1>1, <2>1, <2>2, ParentStepType DEF HandleException
<1>2. CASE InterruptedEvent
  <2>1. ParentOK(mem') /\ LockOK(lock')
    BY <1>2, EventsType, EventType DEF InterruptedEvent, TypeInv, ParentOK, Parent
  <2>2. MainOK(main')
    BY <1>2 DEF InterruptedEvent, TypeInv, MainOK, MainPc
  <2>3. QED
    BY <1>2, <2>1, <2>2, ParentStepType DEF InterruptedEvent
<1>3. CASE IntervalCheckpoint
  BY <1>3, CheckpointType DEF IntervalCheckpoint, MainPc
<1>4. CASE FinalCheckpoint
  BY <1>4, CheckpointType DEF FinalCheckpoint, MainPc
<1>5. CASE SkipFinalCheckpoint
  <2>1. MainOK(main')
    BY <1>5 DEF SkipFinalCheckpoint, TypeInv, MainOK, MainPc
  <2>2. QED
    BY <1>5, <2>1, MainStepType DEF SkipFinalCheckpoint
<1>6. CASE Verdict
  <2>1. FinalStatus \in Status
    BY DEF FinalStatus, Status
  <2>2. ParentOK(mem') /\ LockOK(lock')
    BY <1>6, <2>1, SetStatusType DEF Verdict
  <2>3. MainOK(main')
    BY <1>6 DEF Verdict, TypeInv, MainOK, MainPc
  <2>4. QED
    BY <1>6, <2>2, <2>3, ParentStepType DEF Verdict
<1>7. CASE ReportsGenerated
  <2>1. MainOK(main')
    BY <1>7 DEF ReportsGenerated, TypeInv, MainOK, MainPc
  <2>2. QED
    BY <1>7, <2>1, MainStepType DEF ReportsGenerated
<1>8. CASE ReportsFailed
  <2>1. ParentOK(mem') /\ LockOK(lock')
    BY <1>8, SetStatusType DEF ReportsFailed, Status
  <2>2. MainOK(main')
    BY <1>8 DEF ReportsFailed, TypeInv, MainOK, MainPc
  <2>3. QED
    BY <1>8, <2>1, <2>2, ParentStepType DEF ReportsFailed
<1>9. CASE WriteArtifactManifest
  BY <1>9 DEF WriteArtifactManifest, TypeInv, MainOK, MainPc, OutsideOK, Bookkeeping
<1>10. QED
  BY <1>1, <1>2, <1>3, <1>4, <1>5, <1>6, <1>7, <1>8, <1>9
-----------------------------------------------------------------------------
(* _run_item: a worker thread                                              *)

LEMMA ToPcType ==
  ASSUME TypeInv, NEW i \in Item, NEW pc \in RunPc, ToPc(i, pc),
         pc \in {"running", "returned"} => run[i].pc \in {"running", "returned"}
  PROVE  run' \in [Item -> ItemRun] /\ Backed(run', children)
<1>1. run' \in [Item -> ItemRun]
  BY DEF TypeInv, ToPc, ItemRun
<1>2. \A j \in Item : run'[j].serial = run[j].serial
                      /\ (run'[j].pc = run[j].pc \/ (j = i /\ run'[j].pc = pc))
  BY DEF TypeInv, ToPc, ItemRun
<1>3. QED
  BY <1>1, <1>2 DEF TypeInv, Backed

LEMMA ConcludeType ==
  ASSUME TypeInv, NEW i \in Item, NEW serial \in Nat, NEW validity \in Validity,
         NEW fault \in Fault, NEW exc \in Exc, NEW internal \in BOOLEAN,
         Conclude(i, serial, validity, fault, exc, internal), UNCHANGED <<Aside, children, launches>>
  PROVE  TypeInv'
<1> DEFINE r == [pc |-> "terminal", serial |-> serial, exc |-> exc, internal |-> internal,
                 rec |-> RunIndexRecord(i, main.attempts[i], serial, validity, fault)]
<1>1. RunIndexRecord(i, main.attempts[i], serial, validity, fault) \in IndexRecord
  <2>1. i \in Nat
    BY DEF Item
  <2>2. main.attempts[i] \in Nat
    BY DEF TypeInv, MainOK
  <2>3. QED
    BY <2>1, <2>2 DEF RunIndexRecord, IndexRecord
<1>2. r \in ItemRun /\ r.pc = "terminal"
  BY <1>1 DEF ItemRun, RunPc
<1>3. run' = [run EXCEPT ![i] = r]
  BY DEF Conclude
<1> HIDE DEF r
<1>4. run' \in [Item -> ItemRun] /\ Backed(run', children)
  BY <1>2, <1>3 DEF TypeInv, Backed
<1>5. QED
  BY <1>4, RunStepType DEF Aside, Bookkeeping, TypeInv

LEMMA WorkerStepType ==
  ASSUME TypeInv, ParentOK(mem'), LockOK(lock'), run' \in [Item -> ItemRun],
         Backed(run', children), UNCHANGED Worker
  PROVE  TypeInv'
BY DEF TypeInv, Worker, Bookkeeping, OutsideOK

LEMMA QueueingType ==
  ASSUME TypeInv, NEW i \in Item,
         Scheduled(i) \/ ScheduledEvent(i) \/ Started(i) \/ StartedEvent(i)
  PROVE  TypeInv'
<1>1. mem.state \in State /\ mem.events \in Events
  BY DEF TypeInv, ParentOK, Parent
<1>2. CASE Scheduled(i)
  <2> DEFINE s == [mem.state EXCEPT !.scheduled = mem.state.scheduled + 1]
  <2>1. mem.state.scheduled + 1 \in Nat
    BY <1>1 DEF State
  <2>2. s \in State
    BY <1>1, <2>1 DEF State
  <2>3. [mem EXCEPT !.state.scheduled = @ + 1] = [mem EXCEPT !.state = s]
    BY DEF TypeInv, ParentOK, Parent, State
  <2> HIDE DEF s
  <2>4. ParentOK([mem EXCEPT !.state = s])
    BY <2>2, ParentFiles DEF TypeInv
  <2>5. Locked(i, [mem EXCEPT !.state = s], <<"state">>)
    BY <1>2, <2>3 DEF Scheduled
  <2>6. ParentOK(mem') /\ LockOK(lock')
    BY <2>4, <2>5, LockedType, Files
  <2>7. run' \in [Item -> ItemRun] /\ Backed(run', children)
    BY <1>2, ToPcType DEF Scheduled, RunPc
  <2>8. QED
    BY <1>2, <2>6, <2>7, WorkerStepType DEF Scheduled
<1>3. CASE ScheduledEvent(i)
  <2>1. [mem.events EXCEPT !.scheduled = @ + 1] \in Events
    BY <1>1, EventsType
  <2>2. ParentOK(mem') /\ LockOK(lock')
    BY <1>3, <2>1, EventType DEF ScheduledEvent
  <2>3. run' \in [Item -> ItemRun] /\ Backed(run', children)
    BY <1>3, ToPcType DEF ScheduledEvent, RunPc
  <2>4. QED
    BY <1>3, <2>2, <2>3, WorkerStepType DEF ScheduledEvent
<1>4. CASE Started(i)
  <2> DEFINE s == StartedState(mem.state)
  <2>1. s \in State
    BY <1>1, StartedStateType
  <2>2. [mem EXCEPT !.state = StartedState(@)] = [mem EXCEPT !.state = s]
    BY DEF TypeInv, ParentOK, Parent
  <2> HIDE DEF s
  <2>3. ParentOK([mem EXCEPT !.state = s])
    BY <2>1, ParentFiles DEF TypeInv
  <2>4. Locked(i, [mem EXCEPT !.state = s], <<"state">>)
    BY <1>4, <2>2 DEF Started
  <2>5. ParentOK(mem') /\ LockOK(lock')
    BY <2>3, <2>4, LockedType, Files
  <2>6. run' \in [Item -> ItemRun] /\ Backed(run', children)
    BY <1>4, ToPcType DEF Started, RunPc
  <2>7. QED
    BY <1>4, <2>5, <2>6, WorkerStepType DEF Started
<1>5. CASE StartedEvent(i)
  <2>1. StartedEvents(mem.events) \in Events
    BY <1>1, EventsType
  <2>2. ParentOK(mem') /\ LockOK(lock')
    BY <1>5, <2>1, EventType DEF StartedEvent
  <2>3. run' \in [Item -> ItemRun] /\ Backed(run', children)
    BY <1>5, ToPcType DEF StartedEvent, RunPc
  <2>4. QED
    BY <1>5, <2>2, <2>3, WorkerStepType DEF StartedEvent
<1>6. QED
  BY <1>2, <1>3, <1>4, <1>5

LEMMA ConcludeFailedType ==
  ASSUME TypeInv, NEW i \in Item, NEW serial \in Nat, NEW failure \in Failure,
         ConcludeFailed(i, serial, failure), UNCHANGED <<Aside, children, launches>>
  PROVE  TypeInv'
<1>1. /\ (IF serial = 0 THEN "missing"
          ELSE IF failure = "config" THEN "incompatible" ELSE "partial") \in Validity
      /\ (IF failure = "infrastructure" THEN "local" ELSE "none") \in Fault
      /\ (IF failure = "config" THEN "config" ELSE "none") \in Exc
      /\ (failure = "internal") \in BOOLEAN
  BY DEF Validity, Fault, Exc
<1>2. QED
  BY <1>1, ConcludeType DEF ConcludeFailed

LEMMA AuthorizingType ==
  ASSUME TypeInv, NEW i \in Item,
         ContractFails(i) \/ NoAuthorizationNeeded(i) \/ Authorize(i) \/ AuthorizationRefused(i)
  PROVE  TypeInv'
<1>1. CASE ContractFails(i)
  BY <1>1, ConfigAssumption, ConcludeFailedType DEF ContractFails
<1>2. CASE NoAuthorizationNeeded(i)
  <2>1. run' \in [Item -> ItemRun] /\ Backed(run', children)
    BY <1>2, ToPcType DEF NoAuthorizationNeeded, RunPc
  <2>2. QED
    BY <1>2, <2>1, RunStepType DEF NoAuthorizationNeeded, Aside, Bookkeeping, TypeInv
<1>3. CASE Authorize(i)
  <2> DEFINE a == [item |-> i, attempt |-> main.attempts[i]]
             s == [mem.state EXCEPT !.authorized = mem.state.authorized + 1]
  <2>1. a \in Authorization
    BY DEF TypeInv, MainOK, Authorization
  <2>2. mem.state.authorized + 1 \in Nat /\ mem.state \in State
    <3>1. mem.state \in State
      BY DEF TypeInv, ParentOK, Parent
    <3>2. mem.state.authorized \in Nat
      BY <3>1 DEF State
    <3>3. QED
      BY <3>1, <3>2
  <2>3. s \in State
    BY <2>2 DEF State
  <2>4. /\ disk' = [disk EXCEPT !.ledger = @ \cup {a}]
        /\ Locked(i, [mem EXCEPT !.ledger = @ \cup {a}, !.state.authorized = @ + 1], <<"state">>)
    BY <1>3 DEF Authorize
  <2>5. [mem EXCEPT !.ledger = @ \cup {a}, !.state.authorized = @ + 1]
          = [mem EXCEPT !.ledger = @ \cup {a}, !.state = s]
    BY DEF TypeInv, ParentOK, Parent, State
  <2> HIDE DEF a, s
  <2>6. IsFiniteSet(mem.ledger \cup {a}) /\ IsFiniteSet(disk.ledger \cup {a})
    BY FS_AddElement DEF TypeInv, ParentOK
  <2>7. ParentOK([mem EXCEPT !.ledger = @ \cup {a}, !.state = s]) /\ ParentOK(disk')
    BY <2>1, <2>3, <2>4, <2>6 DEF TypeInv, ParentOK, Parent
  <2>8. ParentOK(mem') /\ LockOK(lock')
    BY <2>4, <2>5, <2>7, LockedType, Files
  <2>9. run' \in [Item -> ItemRun] /\ Backed(run', children)
    BY <1>3, ToPcType DEF Authorize, RunPc
  <2>10. QED
    BY <1>3, <2>7, <2>8, <2>9 DEF Authorize, TypeInv, Bookkeeping, OutsideOK
<1>4. CASE AuthorizationRefused(i)
  BY <1>4, ConcludeType DEF AuthorizationRefused, Validity, Fault, Exc
<1>5. QED
  BY <1>1, <1>2, <1>3, <1>4

LEMMA ChildType ==
  ASSUME TypeInv, NEW i \in Item, run[i].pc \in {"running", "returned"}
  PROVE  Child(i) \in children /\ Child(i).item = i /\ Child(i).serial = run[i].serial
BY DEF TypeInv, Backed, Child

LEMMA RunningChildType ==
  ASSUME TypeInv, NEW i \in Item,
         LaunchChild(i) \/ ChildPersistsManifest(i) \/ ChildReturns(i)
  PROVE  TypeInv'
<1>1. CASE LaunchChild(i)
  <2> DEFINE n == NextSerial(i)
             c == [item |-> i, attempt |-> main.attempts[i], serial |-> n,
                   state |-> "opened", fault |-> "none"]
  <2>1. n \in Nat
    <3>1. IsFiniteSet({d \in children : d.item = i})
      BY FS_Subset DEF TypeInv, ChildrenOK
    <3>2. QED
      BY <3>1, FS_CardinalityType DEF NextSerial
  <2>2. /\ children' = children \cup {c}
        /\ run' = [run EXCEPT ![i].pc = "running", ![i].serial = n]
        /\ launches' = IF i \in ModelBearing THEN [launches EXCEPT ![i] = @ + 1] ELSE launches
    BY <1>1 DEF LaunchChild
  <2>3. c \in ChildRun /\ c.item = i /\ c.serial = n
    BY <2>1 DEF ChildRun, Fault, TypeInv, MainOK
  <2> HIDE DEF n, c
  <2>4. ChildrenOK(children')
    BY <2>2, <2>3, FS_AddElement DEF TypeInv, ChildrenOK
  <2>5. run' \in [Item -> ItemRun]
    <3> DEFINE r == [run[i] EXCEPT !.pc = "running", !.serial = n]
    <3>1. run[i] \in ItemRun
      BY DEF TypeInv
    <3>2. r \in ItemRun
      BY <2>1, <3>1 DEF ItemRun, RunPc
    <3>3. run' = [run EXCEPT ![i] = r]
      BY <2>2 DEF TypeInv
    <3> HIDE DEF r
    <3>4. QED
      BY <3>2, <3>3 DEF TypeInv
  <2>6. Backed(run', children')
    <3>1. \A j \in Item \ {i} : run'[j] = run[j]
      BY <2>2 DEF TypeInv
    <3>2. run'[i].serial = n /\ c \in children'
      BY <2>2 DEF TypeInv, ItemRun
    <3>3. QED
      BY <2>2, <2>3, <3>1, <3>2 DEF TypeInv, Backed
  <2>7. launches' \in [Item -> Nat]
    BY <2>2 DEF TypeInv, OutsideOK
  <2>8. QED
    BY <1>1, <2>4, <2>5, <2>6, <2>7 DEF LaunchChild, Aside, TypeInv, OutsideOK
<1>2. CASE ChildPersistsManifest(i)
  <2> DEFINE c == Child(i)
             d == [c EXCEPT !.state = "bound", !.fault = "none"]
  <2>1. c \in children
    BY <1>2, ChildType DEF ChildPersistsManifest, RunAt
  <2>2. d \in ChildRun /\ d.item = c.item /\ d.serial = c.serial
    BY <2>1 DEF TypeInv, ChildrenOK, ChildRun, Fault
  <2>3. children' = (children \ {c}) \cup {d}
    BY <1>2 DEF ChildPersistsManifest, ChildBecomes
  <2> HIDE DEF c, d
  <2>4. ChildrenOK(children') /\ Backed(run, children')
    BY <2>1, <2>2, <2>3, ChildReplaced DEF TypeInv
  <2>5. QED
    BY <1>2, <2>4 DEF ChildPersistsManifest, Aside, TypeInv, OutsideOK
<1>3. CASE ChildReturns(i)
  <2>1. PICK state \in {"valid", "mismatched", "unvetted"}, fault \in Fault :
          ChildBecomes(i, state, fault)
    BY <1>3 DEF ChildReturns
  <2> DEFINE c == Child(i)
             d == [c EXCEPT !.state = state, !.fault = fault]
  <2>2. c \in children /\ run[i].pc = "running"
    BY <1>3, ChildType DEF ChildReturns, RunAt
  <2>3. d \in ChildRun /\ d.item = c.item /\ d.serial = c.serial
    BY <2>2 DEF TypeInv, ChildrenOK, ChildRun
  <2>4. children' = (children \ {c}) \cup {d}
    BY <2>1 DEF ChildBecomes
  <2> HIDE DEF c, d
  <2>5. run' \in [Item -> ItemRun] /\ Backed(run', children)
    BY <1>3, <2>2, ToPcType DEF ChildReturns, RunPc
  <2>6. ChildrenOK(children') /\ Backed(run', children')
    BY <2>2, <2>3, <2>4, <2>5, ChildReplaced DEF TypeInv
  <2>7. QED
    BY <1>3, <2>5, <2>6 DEF ChildReturns, Aside, TypeInv, OutsideOK
<1>4. QED
  BY <1>1, <1>2, <1>3

LEMMA EndingType ==
  ASSUME TypeInv, NEW i \in Item,
         ChildRaises(i) \/ ChildInterrupted(i) \/ AcceptResult(i) \/ Terminal(i) \/ TerminalEvent(i)
  PROVE  TypeInv'
<1>1. run[i].serial \in Nat /\ run[i].rec \in IndexRecord
  BY DEF TypeInv, ItemRun
<1>2. CASE ChildRaises(i)
  BY <1>1, <1>2, ConcludeFailedType DEF ChildRaises
<1>3. CASE ChildInterrupted(i)
  <2>1. run' = [run EXCEPT ![i].pc = "done", ![i].exc = "interrupt"]
    BY <1>3 DEF ChildInterrupted
  <2>2. run' \in [Item -> ItemRun]
    <3>1. run[i] \in ItemRun /\ run \in [Item -> ItemRun]
      BY DEF TypeInv
    <3>2. [run[i] EXCEPT !.pc = "done", !.exc = "interrupt"] \in ItemRun
      BY <3>1 DEF ItemRun, RunPc, Exc
    <3>3. run' = [run EXCEPT ![i] = [run[i] EXCEPT !.pc = "done", !.exc = "interrupt"]]
      BY <2>1, <3>1
    <3>4. QED
      BY <3>1, <3>2, <3>3
  <2>3. /\ \A j \in Item \ {i} : run'[j] = run[j]
        /\ run'[i].pc = "done"
    BY <2>1 DEF TypeInv, ItemRun
  <2>4. Backed(run', children)
    BY <2>3 DEF TypeInv, Backed
  <2>5. QED
    BY <1>3, <2>2, <2>4, RunStepType DEF ChildInterrupted, Aside, Bookkeeping, TypeInv
<1>4. CASE AcceptResult(i)
  <2>1. Child(i) \in ChildRun
    BY <1>4, ChildType DEF AcceptResult, RunAt, TypeInv, ChildrenOK
  <2>2. Child(i).fault \in Fault
    BY <2>1 DEF ChildRun
  <2>3. UNCHANGED <<Aside, children, launches>>
    BY <1>4 DEF AcceptResult
  <2>4. CASE Accepted(Child(i))
    <3>1. Conclude(i, run[i].serial, "valid", Child(i).fault, "none", FALSE)
      BY <1>4, <2>4 DEF AcceptResult
    <3>2. QED
      BY <1>1, <2>2, <2>3, <3>1, ConcludeType DEF Validity, Exc
  <2>5. CASE ~ Accepted(Child(i))
    <3>1. Conclude(i, run[i].serial, "incompatible", "none", "config", FALSE)
      BY <1>4, <2>5 DEF AcceptResult
    <3>2. QED
      BY <1>1, <2>3, <3>1, ConcludeType DEF Validity, Fault, Exc
  <2>6. QED
    BY <2>4, <2>5
<1>5. CASE Terminal(i)
  <2>1. ParentOK(mem') /\ LockOK(lock')
    BY <1>1, <1>5, IndexedType DEF Terminal
  <2>2. run' \in [Item -> ItemRun] /\ Backed(run', children)
    BY <1>5, ToPcType DEF Terminal, RunPc
  <2>3. QED
    BY <1>5, <2>1, <2>2, WorkerStepType DEF Terminal
<1>6. CASE TerminalEvent(i)
  <2>1. TerminalEvents(mem.events, run[i].rec) \in Events
    BY <1>1, EventsType DEF TypeInv, ParentOK, Parent
  <2>2. ParentOK(mem') /\ LockOK(lock')
    BY <1>6, <2>1, EventType DEF TerminalEvent
  <2>3. run' \in [Item -> ItemRun] /\ Backed(run', children)
    BY <1>6, ToPcType DEF TerminalEvent, RunPc
  <2>4. QED
    BY <1>6, <2>2, <2>3, WorkerStepType DEF TerminalEvent
<1>7. QED
  BY <1>2, <1>3, <1>4, <1>5, <1>6
-----------------------------------------------------------------------------
(* The theorem                                                             *)

LEMMA TypeInvInit == Init => TypeInv
<1>1. [i \in Item |-> 0] \in [Item -> Nat]
  OBVIOUS
<1>2. ChildrenOK({})
  BY FS_EmptySet DEF ChildrenOK
<1>3. QED
  BY <1>1, <1>2, NewParentType, IdleTypes DEF Init, TypeInv, OutsideOK

LEMMA TypeInvNext ==
  ASSUME TypeInv, [Next]_vars
  PROVE  TypeInv'
<1>1. CASE Run \/ Resume \/ Initialize \/ Execute
  BY <1>1, StartingType
<1>2. CASE Prepare \/ Exit \/ Crash
  BY <1>2, GoneType DEF Prepare, Exit, Crash
<1>3. CASE Dump
  BY <1>3, DumpType
<1>4. CASE Resuming
  BY <1>4, ReconcilingType, ValidatingType, SettlingType DEF Resuming
<1>5. CASE Executing \/ Interrupt
  BY <1>5, PlanningType, WaitingType, CollectingType, ConcludingType, GoneType
     DEF Executing, Exit
<1>6. ASSUME NEW i \in Item, RunItem(i)
      PROVE  TypeInv'
  BY <1>6, QueueingType, AuthorizingType, RunningChildType, EndingType DEF RunItem
<1>7. ASSUME NEW c \in children, DamageChild(c)
      PROVE  TypeInv'
  BY <1>7, DamageType
<1>8. CASE UNCHANGED vars
  BY <1>8 DEF vars, TypeInv
<1>9. QED
  BY <1>1, <1>2, <1>3, <1>4, <1>5, <1>6, <1>7, <1>8 DEF Next, ControllerStep

LEMMA TypeInvOK == TypeInv => TypeOK
BY DEF TypeInv, TypeOK, ParentOK, LockOK, MainOK, ItemRun, ChildrenOK, OutsideOK

THEOREM TypeInvariance == Spec => []TypeInv
<1>1. QED
  BY TypeInvInit, TypeInvNext, PTL DEF Spec

(* Every variable keeps its type through every step, crash and resume:     *)
(* counters never go below zero, no attempt is numbered by an undefined    *)
(* maximum, and a worker always finds the run directory of its child.      *)
THEOREM TypeCorrectness == Spec => []TypeOK
<1>1. QED
  BY TypeInvariance, TypeInvOK, PTL
-----------------------------------------------------------------------------
(* The ledger                                                              *)
(*                                                                         *)
(* LaunchesAreAuthorizedOnce is not inductive: a launch is safe because    *)
(* the worker holds an authorization that no launch has used, and that is  *)
(* so because the file and the controller's copy of it agree while a       *)
(* controller lives.  LedgerInv says both.  Every step is either the       *)
(* authorization of an item, the launch of a child, or quiet: it leaves    *)
(* the ledger file and the launches alone and brings no worker to the      *)
(* point of launching.                                                     *)

(* What a step that is neither an authorization nor a launch of a model    *)
(* process keeps.                                                          *)
Quiet ==
  /\ disk'.ledger = disk.ledger /\ launches' = launches
  /\ LedgerInv'

(* A step of a live controller, or one that does not move its main thread, *)
(* is quiet if it leaves both copies of the ledger alone.                  *)
LEMMA QuietStep ==
  ASSUME TypeInv, LedgerInv,
         mem'.ledger = mem.ledger, disk'.ledger = disk.ledger,
         launches' = launches, root' = root,
         main'.pc = main.pc \/ (Live /\ Live'),
         \A i \in Item : run'[i].pc = run[i].pc \/ (run'[i].pc # "launch" /\ Live)
  PROVE  Quiet
<1>1. Live' = Live /\ AuthorizedItems' = AuthorizedItems
  BY DEF Live, AuthorizedItems
<1>2. ModelBearing \subseteq Item
  BY ConfigAssumption
<1>3. main'.pc = "initialize" => root' = "partial"
  BY DEF LedgerInv, Live
<1>4. QED
  BY <1>1, <1>2, <1>3 DEF Quiet, LedgerInv

(* Changes of the parent that do not touch the ledger.                     *)
LEMMA LedgerUntouched ==
  ASSUME TypeInv
  PROVE  /\ \A r : IndexedParent(r).ledger = mem.ledger
         /\ \A q, r : ReplacedParent(q, r).ledger = mem.ledger
         /\ \A t, e : Event(t, e) => mem'.ledger = mem.ledger
         /\ \A st : SetStatus(st) => mem'.ledger = mem.ledger
         /\ \A pc : WriteCheckpoint(pc) => /\ mem'.ledger = mem.ledger
                                           /\ disk'.ledger = disk.ledger
BY DEF TypeInv, ParentOK, Parent, IndexedParent, ReplacedParent, Event, SetStatus,
       WriteCheckpoint, Locked

LEMMA MainPcStep ==
  ASSUME TypeInv
  PROVE  /\ Visited.pc = main.pc
         /\ \A i : [Visited EXCEPT !.completed = @ \cup {i}].pc = main.pc
BY DEF TypeInv, MainOK, Visited
-----------------------------------------------------------------------------
(* The controller process comes and goes                                   *)

LEMMA GoneQuiet ==
  ASSUME TypeInv, LedgerInv, Gone
  PROVE  Quiet
<1>1. /\ ~ Live' /\ \A i \in Item : run'[i].pc = "none"
      /\ main'.pc = "idle"
  BY DEF Gone, Live, IdleMain, NoRun
<1>2. disk' = disk /\ launches' = launches /\ root' = root
  BY DEF Gone, Bookkeeping
<1>3. AuthorizedItems' = AuthorizedItems
  BY <1>2 DEF AuthorizedItems
<1>4. ModelBearing \subseteq Item
  BY ConfigAssumption
<1>5. QED
  BY <1>1, <1>2, <1>3, <1>4 DEF Quiet, LedgerInv

LEMMA StartingQuiet ==
  ASSUME TypeInv, LedgerInv, Run \/ Resume \/ Initialize \/ Execute
  PROVE  Quiet
<1>1. ModelBearing \subseteq Item
  BY ConfigAssumption
<1>2. CASE Run
  <2>1. ~ Live /\ ~ Live' /\ root = "absent" /\ root' = "partial" /\ main'.pc = "initialize"
    BY <1>2 DEF Run, At, Live, TypeInv, MainOK
  <2>2. UNCHANGED <<mem, disk, run, launches>> /\ AuthorizedItems' = AuthorizedItems
    BY <1>2 DEF Run, Bookkeeping, AuthorizedItems
  <2>3. QED
    BY <1>1, <2>1, <2>2 DEF Quiet, LedgerInv
<1>3. CASE Resume
  <2>1. ~ Live /\ Live' /\ root = "ready" /\ root' = root /\ main'.pc = "reconcile"
    BY <1>3 DEF Resume, At, Live, TypeInv, MainOK
  <2>2. mem'.ledger = disk.ledger
    BY <1>3 DEF Resume, TypeInv, ParentOK, Parent
  <2>3. UNCHANGED <<disk, run, launches>> /\ AuthorizedItems' = AuthorizedItems
    BY <1>3 DEF Resume, Bookkeeping, AuthorizedItems
  <2>4. QED
    BY <1>1, <2>1, <2>2, <2>3 DEF Quiet, LedgerInv
<1>4. CASE Initialize
  <2>1. /\ ~ Live /\ Live' /\ root = "partial" /\ root' = "ready"
        /\ main'.pc = "initialized" /\ disk.ledger = {}
    BY <1>4 DEF Initialize, At, Live, TypeInv, MainOK, LedgerInv
  <2>2. mem'.ledger = {} /\ disk'.ledger = {}
    BY <1>4 DEF Initialize, NewParent
  <2>3. UNCHANGED <<run, launches>> /\ AuthorizedItems' = AuthorizedItems
    BY <1>4, <2>1, <2>2 DEF Initialize, Bookkeeping, AuthorizedItems
  <2>4. QED
    BY <1>1, <2>1, <2>2, <2>3 DEF Quiet, LedgerInv
<1>5. CASE Execute
  BY <1>5, QuietStep DEF Execute, At, Live, TypeInv, MainOK, Bookkeeping
<1>6. QED
  BY <1>2, <1>3, <1>4, <1>5

LEMMA DumpQuiet ==
  ASSUME TypeInv, LedgerInv, Dump
  PROVE  Quiet
<1> DEFINE f == Head(lock.dumps)
<1>1. f \in DumpedFile /\ disk' = [disk EXCEPT ![f] = mem[f]]
  BY HeadTailProperties DEF Dump, TypeInv, LockOK
<1> HIDE DEF f
<1>2. f # "ledger"
  BY <1>1 DEF DumpedFile
<1>3. disk'.ledger = disk.ledger
  BY <1>1, <1>2 DEF TypeInv, ParentOK, Parent
<1>4. QED
  BY <1>3, QuietStep DEF Dump
-----------------------------------------------------------------------------
(* The main thread                                                         *)

LEMMA ResumingQuiet ==
  ASSUME TypeInv, LedgerInv, Resuming
  PROVE  Quiet
<1>1. main \in [pc : MainPc, completed : SUBSET Item, pending : SUBSET Item,
                attempts : [Item -> Nat], batch : SUBSET Item, stop : BOOLEAN,
                internals : Nat, exc : Exc, cursor : Nat, focus : IndexRecord]
  BY DEF TypeInv, MainOK
<1>2. ASSUME UNCHANGED <<disk, run, sealed, root, sessions, Bookkeeping>>,
             mem'.ledger = mem.ledger,
             main'.pc = main.pc \/ (Live /\ Live')
      PROVE  Quiet
  BY <1>2, QuietStep DEF Bookkeeping
<1>3. ASSUME NEW c \in children, ReconcileChild(c)
      PROVE  Quiet
  <2>1. mem'.ledger = mem.ledger
    BY <1>3, LedgerUntouched DEF ReconcileChild, Locked
  <2>2. QED
    BY <1>1, <1>2, <1>3, <2>1 DEF ReconcileChild, At, Live
<1>4. CASE ReconcileEvent
  BY <1>1, <1>2, <1>4, LedgerUntouched DEF ReconcileEvent, At, Live
<1>5. CASE ReconcileDone
  BY <1>1, <1>2, <1>5 DEF ReconcileDone, At, Live
<1>6. ASSUME NEW i \in Item, ReuseChild(i)
      PROVE  Quiet
  BY <1>2, <1>6, LedgerUntouched, MainPcStep DEF ReuseChild
<1>7. ASSUME NEW i \in Item, DowngradeChild(i)
      PROVE  Quiet
  <2>1. mem'.ledger = mem.ledger
    BY <1>7, LedgerUntouched DEF DowngradeChild, Locked
  <2>2. QED
    BY <1>2, <1>7, <2>1, MainPcStep DEF DowngradeChild
<1>8. ASSUME NEW i \in Item, SkipItem(i)
      PROVE  Quiet
  BY <1>2, <1>8, MainPcStep DEF SkipItem
<1>9. CASE ValidateDone
  BY <1>1, <1>2, <1>9 DEF ValidateDone, Visit, At, Live
<1>10. ASSUME NEW a \in mem.ledger, SettleMissing(a)
       PROVE  Quiet
  <2>1. mem'.ledger = mem.ledger
    BY <1>10, LedgerUntouched DEF SettleMissing, Locked
  <2>2. QED
    BY <1>1, <1>2, <1>10, <2>1 DEF SettleMissing, At, Live
<1>11. ASSUME NEW a \in mem.ledger, SettlePreserved(a)
       PROVE  Quiet
  <2>1. mem'.ledger = mem.ledger
    BY <1>11, LedgerUntouched DEF SettlePreserved, Locked
  <2>2. QED
    BY <1>1, <1>2, <1>11, <2>1 DEF SettlePreserved, At, Live
<1>12. CASE SettleEvent
  BY <1>1, <1>2, <1>12, LedgerUntouched DEF SettleEvent, At, Live
<1>13. CASE SettleDone
  BY <1>1, <1>2, <1>13 DEF SettleDone, At, Live
<1>14. QED
  BY <1>3, <1>4, <1>5, <1>6, <1>7, <1>8, <1>9, <1>10, <1>11, <1>12, <1>13 DEF Resuming

(* Submitting and cancelling bring no worker to the point of launching.    *)
LEMMA SubmitQuiet ==
  ASSUME TypeInv
  PROVE  /\ \A S : Submit(S) => \A j \in Item : run'[j].pc = run[j].pc \/ run'[j].pc # "launch"
         /\ \A j \in Item : Cancelled[j].pc = run[j].pc \/ Cancelled[j].pc # "launch"
         /\ \A i, j \in Item :
              /\ [run EXCEPT ![i] = NoRun][j].pc = run[j].pc
                   \/ [run EXCEPT ![i] = NoRun][j].pc # "launch"
              /\ [Cancelled EXCEPT ![i] = NoRun][j].pc = run[j].pc
                   \/ [Cancelled EXCEPT ![i] = NoRun][j].pc # "launch"
<1>1. NoRun.pc # "launch" /\ [NoRun EXCEPT !.pc = "queued"].pc # "launch"
  BY DEF NoRun
<1>2. \A j \in Item : Cancelled[j].pc = run[j].pc \/ Cancelled[j].pc # "launch"
  BY <1>1 DEF Cancelled
<1>3. \A S : Submit(S) => \A j \in Item : run'[j].pc = run[j].pc \/ run'[j].pc # "launch"
  BY <1>1 DEF Submit
<1>4. run \in [Item -> ItemRun] /\ Cancelled \in [Item -> ItemRun]
  BY SubmitType DEF TypeInv
<1>5. \A i, j \in Item :
        /\ [run EXCEPT ![i] = NoRun][j] = IF i = j THEN NoRun ELSE run[j]
        /\ [Cancelled EXCEPT ![i] = NoRun][j] = IF i = j THEN NoRun ELSE Cancelled[j]
  BY <1>4
<1>6. QED
  BY <1>1, <1>2, <1>3, <1>5

LEMMA ExecutingQuiet ==
  ASSUME TypeInv, LedgerInv, Executing \/ Interrupt
  PROVE  Quiet
<1>1. main \in [pc : MainPc, completed : SUBSET Item, pending : SUBSET Item,
                attempts : [Item -> Nat], batch : SUBSET Item, stop : BOOLEAN,
                internals : Nat, exc : Exc, cursor : Nat, focus : IndexRecord]
  BY DEF TypeInv, MainOK
<1>2. ASSUME disk'.ledger = disk.ledger, mem'.ledger = mem.ledger, launches' = launches,
             root' = root, Live, Live',
             \A j \in Item : run'[j].pc = run[j].pc \/ run'[j].pc # "launch"
      PROVE  Quiet
  BY <1>2, QuietStep
<1>3. CASE RemoveArtifactManifest
  BY <1>1, <1>2, <1>3 DEF RemoveArtifactManifest, At, Live, Bookkeeping
<1>4. CASE SetRunning
  BY <1>1, <1>2, <1>4, LedgerUntouched DEF SetRunning, At, Live, Bookkeeping
<1>5. CASE PlanWork
  BY <1>1, <1>2, <1>5, SubmitQuiet DEF PlanWork, At, Live, Bookkeeping
<1>6. CASE Wait \/ WaitDone
  BY <1>1, <1>2, <1>6 DEF Wait, WaitDone, At, Live, Bookkeeping
<1>7. ASSUME NEW i \in Item, Collect(i)
      PROVE  Quiet
  BY <1>1, <1>2, <1>7, SubmitQuiet DEF Collect, At, Live, Bookkeeping
<1>8. ASSUME NEW i \in Item, CollectException(i)
      PROVE  Quiet
  BY <1>1, <1>2, <1>8, SubmitQuiet DEF CollectException, At, Live, Bookkeeping
<1>9. CASE IntervalCheckpoint \/ FinalCheckpoint
  <2>1. WriteCheckpoint("refill") \/ WriteCheckpoint("verdict")
    BY <1>9 DEF IntervalCheckpoint, FinalCheckpoint
  <2>2. mem'.ledger = mem.ledger /\ disk'.ledger = disk.ledger
    BY <2>1, LedgerUntouched
  <2>3. Live /\ Live' /\ UNCHANGED <<run, launches, root>>
    BY <1>1, <1>9 DEF IntervalCheckpoint, FinalCheckpoint, WriteCheckpoint, At, Live, Bookkeeping
  <2>4. QED
    BY <1>2, <2>2, <2>3
<1>10. CASE Refill
  BY <1>1, <1>2, <1>10, SubmitQuiet DEF Refill, At, Live, Bookkeeping
<1>11. CASE StopScheduling
  BY <1>1, <1>2, <1>11, SubmitQuiet DEF StopScheduling, At, Live, Bookkeeping
<1>12. CASE HandleException \/ Verdict \/ ReportsFailed
  <2>1. mem'.ledger = mem.ledger
    BY <1>12, LedgerUntouched DEF HandleException, Verdict, ReportsFailed
  <2>2. QED
    BY <1>1, <1>2, <1>12, <2>1 DEF HandleException, Verdict, ReportsFailed, At, Live, Bookkeeping
<1>13. CASE InterruptedEvent
  BY <1>1, <1>2, <1>13, LedgerUntouched DEF InterruptedEvent, At, Live, Bookkeeping
<1>14. CASE SkipFinalCheckpoint \/ ReportsGenerated \/ WriteArtifactManifest
  BY <1>1, <1>2, <1>14
     DEF SkipFinalCheckpoint, ReportsGenerated, WriteArtifactManifest, At, Live, Bookkeeping
<1>15. CASE Exit
  BY <1>15, GoneQuiet DEF Exit
<1>16. CASE Interrupt
  BY <1>1, <1>2, <1>16, SubmitQuiet DEF Interrupt, At, Live, Bookkeeping
<1>17. QED
  BY <1>3, <1>4, <1>5, <1>6, <1>7, <1>8, <1>9, <1>10, <1>11, <1>12, <1>13, <1>14, <1>15,
     <1>16 DEF Executing
-----------------------------------------------------------------------------
(* The workers                                                             *)

(* A worker has something to do only while its controller lives.           *)
LEMMA WorkersLive ==
  ASSUME LedgerInv, NEW i \in Item, run[i].pc # "none"
  PROVE  Live
BY DEF LedgerInv

LEMMA ToPcSteps ==
  ASSUME TypeInv, NEW i \in Item, NEW pc, ToPc(i, pc)
  PROVE  /\ run'[i].pc = pc
         /\ \A j \in Item \ {i} : run'[j] = run[j]
BY DEF TypeInv, ToPc, ItemRun

LEMMA WorkerQuiet ==
  ASSUME TypeInv, LedgerInv, NEW i \in Item,
         \/ Scheduled(i) \/ ScheduledEvent(i) \/ Started(i) \/ StartedEvent(i)
         \/ ContractFails(i) \/ AuthorizationRefused(i)
         \/ ChildPersistsManifest(i) \/ ChildReturns(i) \/ ChildRaises(i)
         \/ ChildInterrupted(i) \/ AcceptResult(i) \/ Terminal(i) \/ TerminalEvent(i)
  PROVE  Quiet
<1>1. Live
  BY WorkersLive
     DEF Scheduled, ScheduledEvent, Started, StartedEvent, ContractFails, AuthorizationRefused,
         ChildPersistsManifest, ChildReturns, ChildRaises, ChildInterrupted, AcceptResult,
         Terminal, TerminalEvent, RunAt
<1>2. ASSUME UNCHANGED <<disk, main, root, launches>>, mem'.ledger = mem.ledger,
             run'[i].pc # "launch", \A j \in Item \ {i} : run'[j] = run[j]
      PROVE  Quiet
  BY <1>1, <1>2, QuietStep
<1>3. CASE Scheduled(i) \/ Started(i)
  <2>1. mem'.ledger = mem.ledger
    BY <1>3 DEF Scheduled, Started, Locked, TypeInv, ParentOK, Parent
  <2>2. QED
    BY <1>2, <1>3, <2>1, ToPcSteps DEF Scheduled, Started, Worker, Bookkeeping
<1>4. CASE ScheduledEvent(i) \/ StartedEvent(i) \/ TerminalEvent(i)
  <2>1. mem'.ledger = mem.ledger
    BY <1>4, LedgerUntouched DEF ScheduledEvent, StartedEvent, TerminalEvent
  <2>2. QED
    BY <1>2, <1>4, <2>1, ToPcSteps
       DEF ScheduledEvent, StartedEvent, TerminalEvent, Worker, Bookkeeping
<1>5. CASE Terminal(i)
  <2>1. mem'.ledger = mem.ledger
    BY <1>5, LedgerUntouched DEF Terminal, Locked
  <2>2. QED
    BY <1>2, <1>5, <2>1, ToPcSteps DEF Terminal, Worker, Bookkeeping
<1>6. CASE ContractFails(i) \/ AuthorizationRefused(i) \/ ChildRaises(i) \/ AcceptResult(i)
  <2>1. PICK r : r.pc = "terminal" /\ run' = [run EXCEPT ![i] = r]
    BY <1>6
       DEF ContractFails, AuthorizationRefused, ChildRaises, AcceptResult, ConcludeFailed, Conclude
  <2>2. run'[i].pc = "terminal" /\ \A j \in Item \ {i} : run'[j] = run[j]
    BY <2>1 DEF TypeInv
  <2>3. UNCHANGED <<disk, main, root, launches, mem>>
    BY <1>6 DEF ContractFails, AuthorizationRefused, ChildRaises, AcceptResult, Aside
  <2>4. QED
    BY <1>2, <2>2, <2>3
<1>7. CASE ChildPersistsManifest(i)
  <2>1. UNCHANGED <<disk, main, root, launches, mem, run>> /\ run[i].pc = "running"
    BY <1>7 DEF ChildPersistsManifest, Aside, RunAt
  <2>2. QED
    BY <1>2, <2>1
<1>8. CASE ChildReturns(i)
  BY <1>2, <1>8, ToPcSteps DEF ChildReturns, Aside
<1>9. CASE ChildInterrupted(i)
  <2>1. run' = [run EXCEPT ![i].pc = "done", ![i].exc = "interrupt"]
    BY <1>9 DEF ChildInterrupted
  <2>2. run'[i].pc = "done" /\ \A j \in Item \ {i} : run'[j] = run[j]
    BY <2>1 DEF TypeInv, ItemRun
  <2>3. QED
    BY <1>2, <1>9, <2>2 DEF ChildInterrupted, Aside
<1>10. QED
  BY <1>3, <1>4, <1>5, <1>6, <1>7, <1>8, <1>9

(* An item that needs no model process comes to its launch without one.    *)
LEMMA UnboundQuiet ==
  ASSUME TypeInv, LedgerInv, NEW i \in Item, NoAuthorizationNeeded(i)
  PROVE  Quiet
<1>1. Live /\ ModelBearing \subseteq Item
  BY WorkersLive, ConfigAssumption DEF NoAuthorizationNeeded, RunAt
<1>2. UNCHANGED <<disk, main, root, launches, mem>> /\ i \notin ModelBearing
  BY DEF NoAuthorizationNeeded, Aside
<1>3. \A j \in Item \ {i} : run'[j] = run[j]
  BY ToPcSteps DEF NoAuthorizationNeeded
<1>4. Live' /\ AuthorizedItems' = AuthorizedItems
  BY <1>1, <1>2 DEF Live, AuthorizedItems
<1>5. QED
  BY <1>1, <1>2, <1>3, <1>4 DEF Quiet, LedgerInv

LEMMA AuthorizeStep ==
  ASSUME TypeInv, LedgerInv, NEW i \in Item, Authorize(i)
  PROVE  /\ LedgerInv'
         /\ i \in ModelBearing /\ i \notin AuthorizedItems
         /\ AuthorizedItems' = AuthorizedItems \cup {i}
         /\ launches' = launches
<1> DEFINE a == [item |-> i, attempt |-> main.attempts[i]]
<1>1. Live /\ ModelBearing \subseteq Item
  BY WorkersLive, ConfigAssumption DEF Authorize, RunAt
<1>2. /\ disk' = [disk EXCEPT !.ledger = @ \cup {a}]
      /\ mem' = [mem EXCEPT !.ledger = @ \cup {a}, !.state.authorized = @ + 1]
      /\ UNCHANGED <<main, root, launches>> /\ i \in ModelBearing /\ ~ Consumed(i)
  BY DEF Authorize, Locked, Bookkeeping, MayAuthorize
<1>3. a.item = i
  OBVIOUS
<1> HIDE DEF a
<1>4. disk'.ledger = disk.ledger \cup {a} /\ mem'.ledger = mem.ledger \cup {a}
  BY <1>2 DEF TypeInv, ParentOK, Parent
<1>5. mem.ledger = disk.ledger /\ mem'.ledger = disk'.ledger /\ Live'
  BY <1>1, <1>2, <1>4 DEF LedgerInv, Live
<1>6. i \notin AuthorizedItems /\ AuthorizedItems' = AuthorizedItems \cup {i}
  BY <1>2, <1>3, <1>4, <1>5 DEF AuthorizedItems, Consumed
<1>7. \A b, c \in disk'.ledger : b.item = c.item => b = c
  BY <1>3, <1>4, <1>6 DEF AuthorizedItems, LedgerInv
<1>8. run'[i].pc = "launch" /\ \A j \in Item \ {i} : run'[j] = run[j]
  BY ToPcSteps DEF Authorize
<1>9. launches[i] = 0
  <2>1. launches[i] \in Nat /\ launches[i] <= 1 /\ launches[i] # 1
    BY <1>2, <1>6 DEF LedgerInv, TypeInv, OutsideOK
  <2>2. QED
    BY <2>1
<1>10. root = "ready" /\ main'.pc # "initialize"
  BY <1>1, <1>2 DEF LedgerInv, Live
<1>11. QED
  BY <1>1, <1>2, <1>5, <1>6, <1>7, <1>8, <1>9, <1>10 DEF LedgerInv

LEMMA LaunchStep ==
  ASSUME TypeInv, LedgerInv, NEW i \in Item, LaunchChild(i)
  PROVE  /\ LedgerInv' /\ disk' = disk
         /\ \/ launches' = launches
            \/ /\ i \in ModelBearing /\ i \in AuthorizedItems
               /\ launches[i] = 0 /\ launches' = [launches EXCEPT ![i] = 1]
<1>1. Live /\ ModelBearing \subseteq Item /\ run[i].pc = "launch"
  BY WorkersLive, ConfigAssumption DEF LaunchChild, RunAt
<1>2. UNCHANGED <<disk, main, root, mem>>
  BY DEF LaunchChild, Aside
<1>3. AuthorizedItems' = AuthorizedItems /\ Live' /\ root = "ready"
  BY <1>1, <1>2 DEF AuthorizedItems, Live, LedgerInv
<1>4. run'[i].pc = "running" /\ \A j \in Item \ {i} : run'[j] = run[j]
  BY DEF LaunchChild, TypeInv, ItemRun
<1>5. CASE i \notin ModelBearing
  <2>1. launches' = launches
    BY <1>5 DEF LaunchChild
  <2>2. QED
    BY <1>1, <1>2, <1>3, <1>4, <1>5, <2>1 DEF LedgerInv, Live
<1>6. CASE i \in ModelBearing
  <2>1. i \in AuthorizedItems /\ launches[i] = 0
    BY <1>1, <1>6 DEF LedgerInv
  <2>2. launches' = [launches EXCEPT ![i] = 1] /\ launches \in [Item -> Nat]
    BY <1>6, <2>1 DEF LaunchChild, TypeInv, OutsideOK
  <2>3. launches'[i] = 1 /\ \A j \in Item \ {i} : launches'[j] = launches[j]
    BY <2>2
  <2>4. LedgerInv'
    BY <1>1, <1>2, <1>3, <1>4, <1>6, <2>1, <2>3 DEF LedgerInv, Live
  <2>5. QED
    BY <1>2, <1>6, <2>1, <2>2, <2>4
<1>7. QED
  BY <1>5, <1>6
-----------------------------------------------------------------------------
(* The theorems                                                            *)

LEMMA StepCases ==
  ASSUME TypeInv, LedgerInv, [Next]_vars
  PROVE  Quiet \/ \E i \in Item : Authorize(i) \/ LaunchChild(i)
<1>1. CASE Run \/ Resume \/ Initialize \/ Execute
  BY <1>1, StartingQuiet
<1>2. CASE Prepare \/ Crash
  BY <1>2, GoneQuiet DEF Prepare, Crash
<1>3. CASE Dump
  BY <1>3, DumpQuiet
<1>4. CASE Resuming
  BY <1>4, ResumingQuiet
<1>5. CASE Executing \/ Interrupt
  BY <1>5, ExecutingQuiet
<1>6. ASSUME NEW i \in Item, RunItem(i)
      PROVE  Quiet \/ Authorize(i) \/ LaunchChild(i)
  BY <1>6, WorkerQuiet, UnboundQuiet DEF RunItem
<1>7. ASSUME NEW c \in children, DamageChild(c)
      PROVE  Quiet
  BY <1>7, QuietStep DEF DamageChild
<1>8. CASE UNCHANGED vars
  BY <1>8, QuietStep DEF vars
<1>9. QED
  BY <1>1, <1>2, <1>3, <1>4, <1>5, <1>6, <1>7, <1>8 DEF Next, ControllerStep

LEMMA LedgerInvInit == Init => LedgerInv
BY ConfigAssumption
   DEF Init, LedgerInv, NewParent, IdleMain, NoRun, Live, AuthorizedItems

LEMMA LedgerInvNext ==
  ASSUME TypeInv, LedgerInv, [Next]_vars
  PROVE  LedgerInv'
BY StepCases, AuthorizeStep, LaunchStep DEF Quiet

(* The controller's copy of the ledger is the file, no two authorizations  *)
(* are for one item, and whoever is about to launch holds an unused one.   *)
THEOREM LedgerInvariance == Spec => []LedgerInv
<1>1. Init => LedgerInv
  BY LedgerInvInit
<1>2. TypeInv /\ LedgerInv /\ [Next]_vars => LedgerInv'
  BY LedgerInvNext
<1>3. QED
  BY <1>1, <1>2, TypeInvariance, PTL DEF Spec

(* No plan item ever costs two model processes, and none is started before *)
(* its authorization is on disk: the promise of authorize_model_process    *)
(* for any number of items, workers, crashes and resumes.                  *)
THEOREM AuthorizedLaunches == Spec => []LaunchesAreAuthorizedOnce
<1>1. LedgerInv => LaunchesAreAuthorizedOnce
  BY DEF LedgerInv, LaunchesAreAuthorizedOnce
<1>2. QED
  BY <1>1, LedgerInvariance, PTL

LEMMA LedgerInit == Init => Ledger!Init
BY ConfigAssumption DEF Init, NewParent, AuthorizedItems, Ledger!Init

(* There are no more authorized items than authorizations.                 *)
LEMMA AuthorizedCardinality ==
  ASSUME NEW ledger, IsFiniteSet(ledger)
  PROVE  Cardinality({a.item : a \in ledger}) <= Cardinality(ledger)
<1> DEFINE T == {a.item : a \in ledger}
           f == [a \in ledger |-> a.item]
<1>1. f \in Surjection(ledger, T)
  BY DEF Surjection
<1>2. QED
  BY <1>1, FS_Surjection

(* The cardinality ModelProcessLedger speaks of is the one used here.      *)
LEMMA SameCardinality == \A S : Ledger!Cardinality(S) = Cardinality(S)
BY DEF Cardinality, Ledger!Cardinality

LEMMA LedgerNext ==
  ASSUME TypeInv, LedgerInv, [Next]_vars
  PROVE  [Ledger!Next]_<<AuthorizedItems, {i \in ModelBearing : launches[i] > 0}>>
<1> DEFINE started == {i \in ModelBearing : launches[i] > 0}
<1>1. CASE Quiet
  BY <1>1 DEF Quiet, AuthorizedItems
<1>2. ASSUME NEW i \in Item, Authorize(i)
      PROVE  Ledger!Authorize(i) /\ i \in ModelBearing
  <2>1. /\ i \in ModelBearing /\ i \notin AuthorizedItems /\ launches' = launches
        /\ AuthorizedItems' = AuthorizedItems \cup {i}
    BY <1>2, AuthorizeStep
  <2>2. ASSUME MaxProcesses # NoLimit
        PROVE  Cardinality(AuthorizedItems) < MaxProcesses
    <3>1. Live /\ mem.ledger = disk.ledger
      BY <1>2, WorkersLive DEF LedgerInv, Authorize, RunAt
    <3>2. Cardinality(disk.ledger) < MaxProcesses
      BY <1>2, <2>2, <3>1 DEF Authorize, MayAuthorize, BudgetsAllow
    <3>3. /\ IsFiniteSet(disk.ledger) /\ IsFiniteSet(AuthorizedItems)
          /\ MaxProcesses \in Nat
      <4>1. IsFiniteSet(disk.ledger)
        BY DEF TypeInv, ParentOK
      <4>2. AuthorizedItems \subseteq Item
        BY DEF AuthorizedItems, TypeInv, ParentOK, Parent, Authorization
      <4>3. IsFiniteSet(Item)
        BY ConfigAssumption, FS_Interval DEF Item
      <4>4. QED
        BY <2>2, <4>1, <4>2, <4>3, FS_Subset, ConfigAssumption
    <3>4. Cardinality(AuthorizedItems) <= Cardinality(disk.ledger)
      BY <3>3, AuthorizedCardinality DEF AuthorizedItems
    <3>5. QED
      BY <3>2, <3>3, <3>4, FS_CardinalityType
  <2>3. UNCHANGED started
    BY <2>1
  <2>4. QED
    BY <2>1, <2>2, <2>3, SameCardinality DEF Ledger!Authorize
<1>3. ASSUME NEW i \in Item, LaunchChild(i)
      PROVE  [Ledger!Next]_<<AuthorizedItems, started>>
  <2>1. AuthorizedItems' = AuthorizedItems
    BY <1>3, LaunchStep DEF AuthorizedItems
  <2>2. CASE launches' = launches
    BY <2>1, <2>2
  <2>3. CASE /\ i \in ModelBearing /\ i \in AuthorizedItems
             /\ launches[i] = 0 /\ launches' = [launches EXCEPT ![i] = 1]
    <3>1. launches \in [Item -> Nat] /\ ModelBearing \subseteq Item
      BY ConfigAssumption DEF TypeInv, OutsideOK
    <3>2. launches'[i] = 1 /\ \A j \in ModelBearing \ {i} : launches'[j] = launches[j]
      BY <2>3, <3>1
    <3>3. i \notin started /\ started' = started \cup {i}
      BY <2>3, <3>2
    <3>4. Ledger!Launch(i)
      BY <2>1, <2>3, <3>3 DEF Ledger!Launch
    <3>5. QED
      BY <2>3, <3>4 DEF Ledger!Next
  <2>4. QED
    BY <1>3, <2>2, <2>3, LaunchStep
<1>4. QED
  BY <1>1, <1>2, <1>3, StepCases DEF Ledger!Next

(* The batch runner implements the abstract ledger: authorizations are     *)
(* consumed once and for all and within max_model_processes, and each buys *)
(* at most one process.                                                    *)
THEOREM LedgerRefinement == Spec => ImplementsLedger
<1>1. Init => Ledger!Init
  BY LedgerInit
<1>2. TypeInv /\ LedgerInv /\ [Next]_vars
        => [Ledger!Next]_<<AuthorizedItems, {i \in ModelBearing : launches[i] > 0}>>
  BY LedgerNext
<1>3. QED
  BY <1>1, <1>2, TypeInvariance, LedgerInvariance, PTL DEF Spec, ImplementsLedger, Ledger!Spec
=============================================================================
