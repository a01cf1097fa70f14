-------------------------- MODULE SampleSetProofs --------------------------
(***************************************************************************)
(* For every number of samples, every set of verifier graphs, and whatever *)
(* is killed, raises or is damaged: a resolved sample is verified from the *)
(* ground up, a report has values only for a whole set of samples in one   *)
(* configuration, each value counts the draws with a resolved sample, and  *)
(* no report contradicts an earlier one.                                   *)
(***************************************************************************)
EXTENDS SampleSet, FiniteSetTheorems, TLAPS

-----------------------------------------------------------------------------
(* Foundations.  That the recursive definition has a solution is shown by  *)
(* one: the smallest set that holds the node and, with each node run by    *)
(* the default condition, its dependencies.                                *)

Downwards(S) ==
  \A n \in S : graph[n].kind = "passed" => graph[n].deps \subseteq S

Smallest(n) ==
  {m \in DOMAIN graph :
     \A S \in SUBSET DOMAIN graph : n \in S /\ Downwards(S) => m \in S}

Below(n, f) ==
  {n} \cup (IF graph[n].kind = "passed"
              THEN UNION {f[d] : d \in graph[n].deps} ELSE {})

LEMMA SmallestIsClosed ==
  ASSUME \A m \in DOMAIN graph : graph[m].deps \subseteq DOMAIN graph,
         NEW n \in DOMAIN graph
  PROVE  /\ Smallest(n) \subseteq DOMAIN graph /\ n \in Smallest(n)
         /\ Downwards(Smallest(n))
         /\ \A S \in SUBSET DOMAIN graph : n \in S /\ Downwards(S) => Smallest(n) \subseteq S
<1>1. /\ Smallest(n) \subseteq DOMAIN graph /\ n \in Smallest(n)
      /\ \A S \in SUBSET DOMAIN graph : n \in S /\ Downwards(S) => Smallest(n) \subseteq S
  BY DEF Smallest
<1>2. ASSUME NEW m \in Smallest(n), graph[m].kind = "passed", NEW d \in graph[m].deps
      PROVE  d \in Smallest(n)
  <2>1. d \in DOMAIN graph /\ m \in DOMAIN graph
    BY <1>1, <1>2
  <2>2. \A S \in SUBSET DOMAIN graph : n \in S /\ Downwards(S) => d \in S
    BY <1>1, <1>2 DEF Downwards
  <2>3. QED BY <2>1, <2>2 DEF Smallest
<1>3. QED BY <1>1, <1>2 DEF Downwards

LEMMA SmallestIsBelow ==
  ASSUME \A m \in DOMAIN graph : graph[m].deps \subseteq DOMAIN graph,
         NEW n \in DOMAIN graph
  PROVE  Smallest(n) = Below(n, [m \in DOMAIN graph |-> Smallest(m)])
<1> DEFINE f == [m \in DOMAIN graph |-> Smallest(m)]
           U == Below(n, f)
<1>1. \A m \in DOMAIN graph : f[m] = Smallest(m)
  OBVIOUS
<1> HIDE DEF f
<1>2. U \subseteq Smallest(n)
  <2>1. n \in Smallest(n) /\ Downwards(Smallest(n)) /\ Smallest(n) \subseteq DOMAIN graph
    BY SmallestIsClosed
  <2>2. ASSUME graph[n].kind = "passed", NEW d \in graph[n].deps
        PROVE  f[d] \subseteq Smallest(n)
    <3>1. d \in DOMAIN graph /\ d \in Smallest(n)
      BY <2>1, <2>2 DEF Downwards
    <3>2. QED BY <1>1, <2>1, <3>1, SmallestIsClosed
  <2>3. QED BY <2>1, <2>2 DEF Below
<1>3. Smallest(n) \subseteq U
  <2>1. U \subseteq DOMAIN graph
    BY <1>2, SmallestIsClosed
  <2>2. n \in U
    BY DEF Below
  <2>3. ASSUME NEW m \in U, graph[m].kind = "passed" PROVE graph[m].deps \subseteq U
    <3>1. CASE m = n
      <4>1. ASSUME NEW d \in graph[n].deps PROVE d \in f[d]
        BY <1>1, <4>1, SmallestIsClosed
      <4>2. QED BY <2>3, <3>1, <4>1 DEF Below
    <3>2. CASE m # n
      <4>1. PICK d \in graph[n].deps : graph[n].kind = "passed" /\ m \in f[d]
        BY <3>2 DEF Below
      <4>2. d \in DOMAIN graph /\ f[d] = Smallest(d)
        BY <1>1, <4>1
      <4>3. graph[m].deps \subseteq f[d]
        BY <2>3, <4>1, <4>2, SmallestIsClosed DEF Downwards
      <4>4. QED BY <4>1, <4>3 DEF Below
    <3>3. QED BY <3>1, <3>2
  <2>4. Downwards(U)
    BY <2>3 DEF Downwards
  <2>5. QED BY <2>1, <2>2, <2>4, SmallestIsClosed
<1>4. QED BY <1>2, <1>3 DEF f

\* What its definition says of Foundation, for every graph.
LEMMA FoundationIsBelow ==
  ASSUME \A m \in DOMAIN graph : graph[m].deps \subseteq DOMAIN graph,
         NEW n \in DOMAIN graph
  PROVE  Foundation[n] = Below(n, Foundation)
<1> DEFINE Solves(f) == f = [m \in DOMAIN graph |-> Below(m, f)]
           g == [m \in DOMAIN graph |-> Smallest(m)]
<1>1. Solves(g)
  <2>1. [m \in DOMAIN graph |-> Smallest(m)] = [m \in DOMAIN graph |-> Below(m, g)]
    BY SmallestIsBelow
  <2>2. QED BY <2>1
<1>2. Foundation = CHOOSE f : Solves(f)
  BY DEF Foundation, Below
<1> HIDE DEF g, Solves
<1>3. Solves(Foundation)
  BY <1>1, <1>2, Zenon
<1>4. Foundation = [m \in DOMAIN graph |-> Below(m, Foundation)]
  BY <1>3 DEF Solves
<1>5. QED BY <1>4

LEMMA FoundationStays == ASSUME graph' = graph PROVE Foundation' = Foundation
  BY DEF Foundation

-----------------------------------------------------------------------------
(* The executor: a node that passed rests on nodes that passed.            *)

Grounded ==
  \A n \in Executed \cap DOMAIN graph : results[n] = "passed" =>
    \A m \in Foundation[n] : m \in Executed /\ results[m] = "passed"

LEMMA GraphsAreDeclared ==
  ASSUME graph \in Graphs
  PROVE  /\ DOMAIN graph \subseteq Nodes /\ Integrity \notin DOMAIN graph
         /\ \A n \in DOMAIN graph : graph[n].deps \subseteq DOMAIN graph
  BY DagAssumption DEF WellDeclared

\* A result is added, and if it is a pass then all the node rests on passed.
LEMMA ResultKeepsGround ==
  ASSUME graph \in Graphs, Grounded, graph' = graph,
         NEW n, NEW status, n \notin Executed, Result(n, status),
         n \in DOMAIN graph /\ status = "passed" =>
           graph[n].deps \subseteq Executed /\ ShouldRun(n, results)
  PROVE  Grounded' /\ Executed' = Executed \cup {n}
<1>1. Executed' = Executed \cup {n} /\ results'[n] = status
  BY DEF Result, Executed
<1>2. \A m \in Executed : results'[m] = results[m]
  BY DEF Result, Executed
<1>3. Foundation' = Foundation
  BY FoundationStays
<1>4. ASSUME NEW k \in Executed \cap DOMAIN graph, results'[k] = "passed",
             NEW m \in Foundation[k]
      PROVE  m \in Executed /\ results'[m] = "passed"
  BY <1>2, <1>4 DEF Grounded
<1>5. ASSUME n \in DOMAIN graph, status = "passed", NEW m \in Foundation[n]
      PROVE  m \in Executed' /\ results'[m] = "passed"
  <2>1. m \in Below(n, Foundation)
    BY <1>5, GraphsAreDeclared, FoundationIsBelow
  <2>2. CASE m = n
    BY <1>1, <1>5, <2>2
  <2>3. CASE m # n
    <3>1. PICK d \in graph[n].deps : graph[n].kind = "passed" /\ m \in Foundation[d]
      BY <2>1, <2>3 DEF Below
    <3>2. d \in Executed \cap DOMAIN graph /\ results[d] = "passed"
      BY <1>5, <3>1, GraphsAreDeclared DEF ShouldRun
    <3>3. m \in Executed /\ results[m] = "passed"
      BY <3>1, <3>2 DEF Grounded
    <3>4. QED BY <1>1, <1>2, <3>3
  <2>4. QED BY <2>2, <2>3
<1>6. ASSUME NEW k \in Executed' \cap DOMAIN graph, results'[k] = "passed",
             NEW m \in Foundation[k]
      PROVE  m \in Executed' /\ results'[m] = "passed"
  <2>1. CASE k = n
    BY <1>1, <1>5, <1>6, <2>1
  <2>2. CASE k # n
    BY <1>1, <1>4, <1>6, <2>2
  <2>3. QED BY <2>1, <2>2
<1>7. QED BY <1>1, <1>3, <1>6 DEF Grounded

LEMMA ExecutorKeepsGround ==
  ASSUME graph \in Graphs, Grounded, ExecuteNode PROVE Grounded' /\ graph' = graph
<1>1. PICK n \in DOMAIN graph : Skip(n) \/ NoExecutable(n) \/ RunTool(n)
  BY DEF ExecuteNode
<1>2. CASE Skip(n)
  BY <1>2, ResultKeepsGround DEF Skip, Reached
<1>3. CASE NoExecutable(n)
  BY <1>3, ResultKeepsGround DEF NoExecutable, Reached
<1>4. CASE RunTool(n)
  <2>1. PICK status \in {"passed", "failed", "error"} : Result(n, status)
    BY <1>4 DEF RunTool
  <2>2. n \notin Executed /\ graph[n].deps \subseteq Executed /\ ShouldRun(n, results)
        /\ graph' = graph
    BY <1>4 DEF RunTool, Reached
  <2>3. QED BY <2>1, <2>2, ResultKeepsGround
<1>5. QED BY <1>1, <1>2, <1>3, <1>4

LEMMA IntegrityKeepsGround ==
  ASSUME graph \in Graphs, Grounded, CheckIntegrity
  PROVE  Grounded' /\ graph' = graph /\ DOMAIN graph \subseteq Executed'
<1>1. DOMAIN graph \subseteq Executed /\ Integrity \notin Executed /\ graph' = graph
  BY DEF CheckIntegrity, DagDone
<1>2. CASE results' = results
  BY <1>1, <1>2, FoundationStays DEF Grounded, Executed
<1>3. CASE Result(Integrity, "error")
  BY <1>1, <1>3, ResultKeepsGround
<1>4. QED BY <1>2, <1>3 DEF CheckIntegrity

LEMMA SkippingKeepsGround ==
  ASSUME SkipVerification
  PROVE  Grounded' /\ graph' = graph /\ DOMAIN graph \subseteq Executed'
<1>1. graph' = graph /\ results' = [n \in DOMAIN graph |-> "skipped"]
  BY DEF SkipVerification
<1>2. Executed' = DOMAIN graph /\ \A n \in DOMAIN graph : results'[n] # "passed"
  BY <1>1 DEF Executed
<1>3. QED BY <1>1, <1>2 DEF Grounded

LEMMA NothingIsGrounded ==
  ASSUME results' = NoResults PROVE Grounded'
  BY DEF NoResults, Grounded, Executed

LEMMA StillGrounded ==
  ASSUME Grounded, UNCHANGED dagVars PROVE Grounded'
  BY FoundationStays DEF dagVars, Grounded, Executed

-----------------------------------------------------------------------------
(* The records: types, and what they are of.                               *)

Places == {"next", "verify", "record", "report", "rest", "rewrite"}
InLoop == {"next", "verify", "record"}
Hashes == Fingerprints \cup {NoHash}
Refs == [index : Samples, outcome : Outcomes, fingerprint : Fingerprints]
Runs == [outcome : Outcomes \cup {NotYet}, fingerprint : Hashes, clean : BOOLEAN,
         founded : BOOLEAN]
Manifests == [children : SUBSET Refs, errors : Nat, hash : Hashes \cup {"torn"}]

SampleTypes ==
  /\ pc \in Places /\ index \in 0..N /\ graph \in Graphs /\ ending \in ChatEndings
  /\ children \in SUBSET Refs /\ errors \in Nat /\ manifest \in Manifests
  /\ runs \in [Samples -> Runs]

\* A ref, in memory or in a file, is that of a sample that has been recorded.
Ref(s) ==
  [index |-> s, outcome |-> runs[s].outcome, fingerprint |-> runs[s].fingerprint]

Faithful(refs) ==
  \A r \in refs : \E s \in Samples : r = Ref(s) /\ runs[s].outcome \in Outcomes

\* Of the sample in hand and those after it nothing has been recorded; one in
\* hand is recorded when its graph is done.
Ahead ==
  /\ pc \in {"verify", "record"} => index < N
  /\ pc = "record" => DOMAIN graph \subseteq Executed
  /\ pc \in InLoop => \A s \in Samples : s >= index => runs[s].outcome = NotYet

Resolved == {s \in Samples : runs[s].outcome = "resolved"}

Whole ==
  /\ \A s \in Samples : runs[s].outcome \in Verdicts
  /\ Cardinality({runs[s].fingerprint : s \in Samples}) = 1

\* A value in the report is that of a set that is whole, and no sample is
\* recorded any more.
Reported ==
  \A k \in RequestedK : Valid(k) =>
    /\ pc \notin InLoop /\ Whole /\ k <= N
    /\ report.entries[k] = PassAtK(N, Cardinality(Resolved), k)

SampleInv ==
  /\ SampleTypes /\ Grounded /\ Ahead /\ Faithful(children) /\ Faithful(manifest.children)
  /\ ResolvedMeansVerified /\ Reported

-----------------------------------------------------------------------------
(* A set of refs as large as the set of samples is that of all samples.    *)

LEMMA SamplesAreFinite ==
  N \in Nat \ {0} /\ IsFiniteSet(Samples) /\ Cardinality(Samples) = N
<1>1. N \in Nat \ {0} /\ 0 \in Int /\ N - 1 \in Int
  BY SampleAssumption
<1>2. IsFiniteSet(0..(N-1)) /\ Cardinality(0..(N-1)) = N
  BY <1>1, FS_Interval
<1>3. QED BY <1>1, <1>2 DEF Samples

\* The refs of the samples of a set, counted.
LEMMA RefsAreCounted ==
  ASSUME NEW S \in SUBSET Samples
  PROVE  LET all == {Ref(s) : s \in S}
         IN  IsFiniteSet(all) /\ Cardinality(all) = Cardinality(S)
<1> DEFINE all == {Ref(s) : s \in S}
           f == [s \in S |-> Ref(s)]
<1>1. IsFiniteSet(S)
  BY SamplesAreFinite, FS_Subset
<1>2. \A s, t \in S : Ref(s) = Ref(t) => s = t
  BY DEF Ref
<1>3. f \in Bijection(S, all)
  BY <1>2 DEF Bijection, Injection, Surjection, IsInjective
<1>4. ExistsBijection(S, all)
  BY <1>3 DEF ExistsBijection
<1>5. QED BY <1>1, <1>4, FS_Bijection

LEMMA FaithfulIsFinite ==
  ASSUME NEW refs, Faithful(refs) PROVE IsFiniteSet(refs)
<1>1. refs \in SUBSET {Ref(s) : s \in Samples}
  BY DEF Faithful
<1>2. IsFiniteSet({Ref(s) : s \in Samples})
  BY RefsAreCounted
<1>3. QED BY <1>1, <1>2, FS_Subset

LEMMA AllAreThere ==
  ASSUME NEW refs, Faithful(refs), Cardinality(refs) = N
  PROVE  /\ refs = {Ref(s) : s \in Samples}
         /\ \A s \in Samples : runs[s].outcome \in Outcomes
<1> DEFINE all == {Ref(s) : s \in Samples}
<1>1. IsFiniteSet(all) /\ Cardinality(all) = N
  BY RefsAreCounted, SamplesAreFinite
<1>2. refs \in SUBSET all
  BY DEF Faithful
<1>3. refs = all
  BY <1>1, <1>2, FS_Subset
<1>4. ASSUME NEW s \in Samples PROVE runs[s].outcome \in Outcomes
  <2>1. PICK t \in Samples : Ref(s) = Ref(t) /\ runs[t].outcome \in Outcomes
    BY <1>3 DEF Faithful
  <2>2. QED BY <2>1 DEF Ref
<1>5. QED BY <1>3, <1>4

LEMMA CountsAreOfSamples ==
  ASSUME NEW outcomes
  PROVE  LET all == {Ref(s) : s \in Samples}
             some == {s \in Samples : runs[s].outcome \in outcomes}
         IN  Count(all, outcomes) = Cardinality(some)
<1> DEFINE all == {Ref(s) : s \in Samples}
           some == {s \in Samples : runs[s].outcome \in outcomes}
<1>1. {r \in all : r.outcome \in outcomes} = {Ref(s) : s \in some}
  BY DEF Ref
<1>2. Cardinality({Ref(s) : s \in some}) = Cardinality(some)
  BY RefsAreCounted
<1>3. QED BY <1>1, <1>2 DEF Count

\* A report of faithful refs has values only for a whole set.
LEMMA ReportIsOfWhole ==
  ASSUME runs \in [Samples -> Runs], NEW m, Faithful(m.children),
         NEW k \in RequestedK, Report(m).entries[k] # <<>>
  PROVE  k <= N /\ Whole /\ Report(m).entries[k] = PassAtK(N, Cardinality(Resolved), k)
<1> DEFINE c == Count(m.children, {"resolved"})
           all == {Ref(s) : s \in Samples}
           found == {r.fingerprint : r \in m.children}
<1>1. /\ InvalidReason(m) = "none" /\ k <= N
      /\ Report(m).entries[k] = PassAtK(N, c, k)
  BY DEF Report
<1>2. /\ ~(Cardinality(found) > 1) /\ Cardinality(m.children) = N
      /\ ~(Count(m.children, {"infrastructure_error"}) > 0)
      /\ ~(Count(m.children, {"cancelled_truncated"}) > 0)
  BY <1>1 DEF InvalidReason
<1>3. m.children = all /\ \A s \in Samples : runs[s].outcome \in Outcomes
  BY <1>2, AllAreThere
<1>4. c = Cardinality(Resolved)
  <2>1. Count(all, {"resolved"})
          = Cardinality({s \in Samples : runs[s].outcome \in {"resolved"}})
    BY CountsAreOfSamples
  <2>2. {s \in Samples : runs[s].outcome \in {"resolved"}} = Resolved
    BY DEF Resolved
  <2>3. QED BY <1>3, <2>1, <2>2
<1>5. ASSUME NEW o, ~(Count(all, {o}) > 0), NEW s \in Samples PROVE runs[s].outcome # o
  <2> DEFINE some == {t \in Samples : runs[t].outcome \in {o}}
  <2>1. Count(all, {o}) = Cardinality(some)
    BY CountsAreOfSamples
  <2>2. IsFiniteSet(some)
    BY SamplesAreFinite, FS_Subset
  <2>3. Cardinality(some) \in Nat
    BY <2>2, FS_CardinalityType
  <2>4. Cardinality(some) = 0
    BY <1>5, <2>1, <2>3
  <2>5. some = {}
    BY <2>2, <2>4, FS_EmptySet
  <2>6. QED BY <2>5
<1>6. \A s \in Samples : runs[s].outcome \in Verdicts
  BY <1>2, <1>3, <1>5 DEF Outcomes
<1>7. found = {runs[s].fingerprint : s \in Samples}
  <2>1. \A s \in Samples : Ref(s) \in m.children /\ Ref(s).fingerprint = runs[s].fingerprint
    BY <1>3 DEF Ref
  <2>2. \A r \in m.children : \E s \in Samples : r.fingerprint = runs[s].fingerprint
    BY <1>3 DEF Ref
  <2>3. QED BY <2>1, <2>2
<1>8. Cardinality({runs[s].fingerprint : s \in Samples}) = 1
  <2> DEFINE prints == {runs[s].fingerprint : s \in Samples}
             f == [s \in Samples |-> runs[s].fingerprint]
  <2>1. f \in Surjection(Samples, prints)
    BY DEF Surjection
  <2>2. IsFiniteSet(prints)
    BY <2>1, SamplesAreFinite, FS_Surjection
  <2>3. 0 \in Samples
    BY SamplesAreFinite DEF Samples
  <2>4. prints # {}
    BY <2>3
  <2>5. Cardinality(prints) \in Nat /\ Cardinality(prints) # 0
    BY <2>2, <2>4, FS_CardinalityType, FS_EmptySet
  <2>6. ~(Cardinality(prints) > 1)
    BY <1>2, <1>7
  <2>7. QED BY <2>5, <2>6
<1>9. QED BY <1>1, <1>4, <1>6, <1>8 DEF Whole

-----------------------------------------------------------------------------
(* What a step must show, by what it touches.                              *)

LEMMA RefsStay ==
  ASSUME NEW refs, Faithful(refs), runs' = runs PROVE Faithful(refs)'
  BY DEF Faithful, Ref

\* While nothing is recorded what is in the report and of the runs holds on.
LEMMA RunsStay ==
  ASSUME ResolvedMeansVerified, Reported, runs' = runs, report' = report,
         pc \in InLoop \/ pc' \notin InLoop
  PROVE  ResolvedMeansVerified' /\ Reported'
<1>1. ResolvedMeansVerified'
  BY DEF ResolvedMeansVerified
<1>2. Whole' <=> Whole
  BY DEF Whole
<1>3. Resolved' = Resolved
  BY DEF Resolved
<1>4. Reported'
  BY <1>2, <1>3 DEF Reported, Valid
<1>5. QED BY <1>1, <1>4

\* The steps that leave the records alone.
LEMMA QuietKeepsSamples ==
  ASSUME SampleInv, UNCHANGED <<children, manifest, report, runs>>, errors' \in Nat,
         graph' = graph,
         pc' \in Places, index' \in 0..N, ending' \in ChatEndings,
         Grounded', Ahead', pc \in InLoop \/ pc' \notin InLoop
  PROVE  SampleInv'
<1>1. SampleTypes'
  BY DEF SampleInv, SampleTypes
<1>2. Faithful(children)' /\ Faithful(manifest.children)'
  BY RefsStay DEF SampleInv, Faithful, Ref
<1>3. ResolvedMeansVerified' /\ Reported'
  BY RunsStay DEF SampleInv
<1>4. QED BY <1>1, <1>2, <1>3 DEF SampleInv

LEMMA VerificationKeeps ==
  ASSUME SampleInv, EpisodeEnds \/ NotVerified \/ VerifyNode \/ VerificationEnds
  PROVE  SampleInv'
<1> USE DEF InLoop, Places
<1>1. /\ pc \in Places /\ index \in 0..N /\ graph \in Graphs /\ ending \in ChatEndings
      /\ errors \in Nat /\ Grounded /\ Ahead
  BY DEF SampleInv, SampleTypes
<1>2. CASE EpisodeEnds
  <2>1. /\ pc = "next" /\ index < N /\ pc' = "verify" /\ ending' \in ChatEndings
        /\ UNCHANGED <<index, children, errors, manifest, report, runs, dagVars>>
    BY <1>2 DEF EpisodeEnds
  <2>2. Grounded' /\ graph' = graph
    BY <1>1, <2>1, StillGrounded DEF dagVars
  <2>3. Ahead'
    BY <1>1, <2>1 DEF Ahead
  <2>4. QED BY <1>1, <2>1, <2>2, <2>3, QuietKeepsSamples
<1>3. CASE NotVerified \/ VerificationEnds
  <2>1. /\ pc = "verify" /\ pc' = "record" /\ (SkipVerification \/ CheckIntegrity)
        /\ UNCHANGED <<index, ending, children, errors, manifest, report, runs>>
    BY <1>3 DEF NotVerified, VerificationEnds
  <2>2. Grounded' /\ graph' = graph /\ DOMAIN graph \subseteq Executed'
    BY <1>1, <2>1, SkippingKeepsGround, IntegrityKeepsGround
  <2>3. Ahead'
    BY <1>1, <2>1, <2>2 DEF Ahead
  <2>4. QED BY <1>1, <2>1, <2>2, <2>3, QuietKeepsSamples
<1>4. CASE VerifyNode
  <2>1. /\ pc = "verify" /\ ExecuteNode
        /\ UNCHANGED <<pc, index, ending, children, errors, manifest, report, runs>>
    BY <1>4 DEF VerifyNode, own
  <2>2. Grounded' /\ graph' = graph
    BY <1>1, <2>1, ExecutorKeepsGround
  <2>3. Ahead'
    BY <1>1, <2>1 DEF Ahead
  <2>4. QED BY <1>1, <2>1, <2>2, <2>3, QuietKeepsSamples
<1>5. QED BY <1>2, <1>3, <1>4

LEMMA SubmittedIsAnEnding == Submitted \in ChatEndings
  BY DEF Submitted, ChatEndings

\* The outcomes of a scorecard; one that is resolved has passed every node it
\* requires.
LEMMA CardTypes ==
  /\ Outcome(Card) \in Outcomes
  /\ Outcome(Card) = "resolved" => \A n \in Required : results[n] = "passed"
<1>1. Outcome(Card) \in Outcomes
  BY DEF Outcome, Outcomes, Verdicts
<1>2. Outcome(Card) = "resolved" => Card.resolved
  BY DEF Outcome
<1>3. Card.resolved => \A n \in Required : results[n] = "passed"
  BY DEF Card, Scorecard
<1>4. QED BY <1>1, <1>2, <1>3

\* A sample is recorded: its ref is new, and what it rests on has passed.
LEMMA RecordKeepsSamples ==
  ASSUME SampleInv, RecordSample PROVE SampleInv'
<1> USE DEF InLoop
<1>1. /\ pc = "record" /\ pc' = "next" /\ index' = index + 1
      /\ UNCHANGED <<errors, report, graph>>
      /\ results' = NoResults /\ ending' = Submitted
      /\ manifest' = [manifest EXCEPT !.children = children', !.errors = errors]
  BY DEF RecordSample
<1>2. /\ index \in 0..N /\ index < N /\ N \in Nat /\ index \in Samples
      /\ runs[index].outcome = NotYet /\ DOMAIN graph \subseteq Executed
      /\ runs \in [Samples -> Runs] /\ graph \in Graphs
      /\ children \in SUBSET Refs /\ errors \in Nat /\ manifest \in Manifests
  BY <1>1, SamplesAreFinite DEF SampleInv, SampleTypes, Ahead, Samples
<1>3. PICK run \in Runs :
        /\ runs' = [runs EXCEPT ![index] = run]
        /\ run.outcome = Outcome(Card) /\ run.fingerprint \in Fingerprints
        /\ (\A n \in UNION {Foundation[q] : q \in Required} : results[n] = "passed")
              => run.founded
        /\ children' = children \cup {[index |-> index, outcome |-> run.outcome,
                                       fingerprint |-> run.fingerprint]}
  <2> DEFINE whole == ~HasInfrastructureError(results, Executed)
             sound == \A n \in UNION {Foundation[q] : q \in Required} :
                        results[n] = "passed"
             outcome == Outcome(Card)
             run(f) == [outcome |-> outcome, fingerprint |-> f, clean |-> whole,
                        founded |-> sound]
  <2>1. PICK fingerprint \in Fingerprints :
          /\ children' = children \cup {[index |-> index, outcome |-> outcome,
                                         fingerprint |-> fingerprint]}
          /\ runs' = [runs EXCEPT ![index] = run(fingerprint)]
    BY Zenon DEF RecordSample
  <2>2. whole \in BOOLEAN /\ sound \in BOOLEAN /\ outcome \in Outcomes
    BY CardTypes
  <2>3. outcome = Outcome(Card) /\ (sound <=> \A n \in UNION {Foundation[q] : q \in Required} :
                                     results[n] = "passed")
    OBVIOUS
  <2> HIDE DEF whole, sound, outcome
  <2>4. /\ run(fingerprint) \in Runs /\ run(fingerprint).outcome = outcome
        /\ run(fingerprint).fingerprint = fingerprint
        /\ run(fingerprint).founded = sound
    BY <2>2 DEF Runs, Hashes
  <2> HIDE DEF run
  <2>5. QED BY <2>1, <2>3, <2>4
<1>4. /\ runs' \in [Samples -> Runs] /\ runs'[index] = run
      /\ \A s \in Samples : s # index => runs'[s] = runs[s]
  BY <1>2, <1>3
<1>5. run.outcome \in Outcomes
  BY <1>3, CardTypes
<1>6. ASSUME NEW refs, Faithful(refs) PROVE \A r \in refs : \E s \in Samples :
        r = Ref(s)' /\ runs'[s].outcome \in Outcomes
  <2>1. ASSUME NEW r \in refs
        PROVE  \E s \in Samples : r = Ref(s)' /\ runs'[s].outcome \in Outcomes
    <3>1. PICK s \in Samples : r = Ref(s) /\ runs[s].outcome \in Outcomes
      BY <1>6 DEF Faithful
    <3>2. s # index
      BY <1>2, <3>1 DEF NotYet, Outcomes, Verdicts
    <3>3. QED BY <1>4, <3>1, <3>2 DEF Ref
  <2>2. QED BY <2>1
<1>7. Faithful(children)'
  <2>1. \A r \in children : \E s \in Samples : r = Ref(s)' /\ runs'[s].outcome \in Outcomes
    BY <1>6 DEF SampleInv
  <2>2. \A s \in Samples : s = index =>
          /\ Ref(s)' = [index |-> index, outcome |-> run.outcome,
                        fingerprint |-> run.fingerprint]
          /\ runs'[s].outcome \in Outcomes
    BY <1>4, <1>5 DEF Ref
  <2>3. \A r \in children' : \E s \in Samples : r = Ref(s)' /\ runs'[s].outcome \in Outcomes
    BY <1>2, <1>3, <2>1, <2>2
  <2>4. QED BY <2>3 DEF Faithful
<1>8. children' \in SUBSET Refs
  BY <1>2, <1>3, <1>5 DEF Refs
<1>9. manifest' \in Manifests /\ manifest'.children = children'
  BY <1>1, <1>2, <1>8 DEF Manifests, SampleInv
<1>10. Faithful(manifest.children)'
  BY <1>7, <1>9 DEF Faithful
<1>11. Ahead'
  <2>1. \A s \in Samples : s >= index' => runs'[s].outcome = NotYet
    BY <1>1, <1>2, <1>4 DEF SampleInv, Ahead, Samples
  <2>2. QED BY <1>1, <2>1 DEF Ahead
<1>12. ResolvedMeansVerified'
  <2>1. ASSUME run.outcome = "resolved" PROVE run.founded
    <3>1. \A q \in Required : q \in DOMAIN graph /\ results[q] = "passed"
      BY <1>2, <1>3, <2>1, CardTypes, SampleAssumption DEF Required
    <3>2. \A q \in Required : \A m \in Foundation[q] : results[m] = "passed"
      BY <1>2, <3>1 DEF SampleInv, Grounded
    <3>3. QED BY <1>3, <3>2
  <2>2. QED BY <1>4, <2>1 DEF SampleInv, ResolvedMeansVerified
<1>13. Reported'
  BY <1>1 DEF SampleInv, Reported, Valid
<1>14. Grounded'
  BY <1>1, NothingIsGrounded
<1>15. SampleTypes'
  <2>1. index' \in 0..N /\ pc' \in Places /\ ending' \in ChatEndings
    BY <1>1, <1>2, SubmittedIsAnEnding DEF Places
  <2>2. QED BY <1>1, <1>2, <1>4, <1>8, <1>9, <2>1 DEF SampleTypes
<1>16. QED BY <1>7, <1>10, <1>11, <1>12, <1>13, <1>14, <1>15 DEF SampleInv

\* A child raised: the loop goes on without it.
LEMMA RaisingKeeps ==
  ASSUME SampleInv, SampleRaises PROVE SampleInv'
<1> USE DEF InLoop, Places
<1>1. /\ pc \in InLoop /\ index < N /\ pc' = "next" /\ index' = index + 1
      /\ errors' = errors + 1 /\ results' = NoResults /\ ending' = Submitted
      /\ UNCHANGED <<children, manifest, report, runs, graph>>
  BY DEF SampleRaises, SampleInv, Ahead
<1>2. index \in 0..N /\ errors \in Nat /\ N \in Nat
  BY SamplesAreFinite DEF SampleInv, SampleTypes
<1>3. index' \in 0..N /\ errors' \in Nat
  BY <1>1, <1>2
<1>4. Ahead'
  BY <1>1, <1>2 DEF SampleInv, Ahead, Samples
<1>5. QED
  BY <1>1, <1>3, <1>4, SubmittedIsAnEnding, NothingIsGrounded, QuietKeepsSamples

-----------------------------------------------------------------------------
(* After the loop.                                                         *)

LEMMA LaterKeeps ==
  ASSUME SampleInv, UNCHANGED <<runs, graph>>, pc' \in Places \ InLoop, index' \in 0..N,
         ending' \in ChatEndings, Grounded', errors' \in Nat,
         children' \in SUBSET Refs, Faithful(children'),
         manifest' \in Manifests, Faithful(manifest'.children),
         \A k \in RequestedK : report'.entries[k] # <<>> =>
           k <= N /\ Whole /\ report'.entries[k] = PassAtK(N, Cardinality(Resolved), k)
  PROVE  SampleInv'
<1>1. SampleTypes' /\ Ahead'
  BY DEF SampleInv, SampleTypes, Ahead, InLoop
<1>2. Faithful(children)' /\ Faithful(manifest.children)'
  BY DEF Faithful, Ref
<1>3. ResolvedMeansVerified'
  BY DEF SampleInv, ResolvedMeansVerified
<1>4. (Whole' <=> Whole) /\ Resolved' = Resolved
  BY DEF Whole, Resolved
<1>5. Reported'
  BY <1>4 DEF Reported, Valid
<1>6. QED BY <1>1, <1>2, <1>3, <1>5 DEF SampleInv

LEMMA InvNow ==
  ASSUME SampleInv
  PROVE  /\ pc \in Places /\ index \in 0..N /\ ending \in ChatEndings /\ errors \in Nat
         /\ children \in SUBSET Refs /\ Faithful(children)
         /\ manifest \in Manifests /\ manifest.children \in SUBSET Refs
         /\ Faithful(manifest.children) /\ Grounded /\ N \in 0..N
         /\ runs \in [Samples -> Runs]
         /\ \A k \in RequestedK : report.entries[k] # <<>> =>
              k <= N /\ Whole /\ report.entries[k] = PassAtK(N, Cardinality(Resolved), k)
  BY SamplesAreFinite DEF SampleInv, SampleTypes, Manifests, Reported, Valid

LEMMA NoReportHasNoValue ==
  \A k \in RequestedK : NoReport.entries[k] = <<>>
  BY DEF NoReport

LEMMA ManifestKeeps ==
  ASSUME SampleInv, WriteManifest PROVE SampleInv'
<1>1. /\ pc' = "report"
      /\ manifest' = [children |-> children, errors |-> errors,
                      hash |-> IF Cardinality(Found) = 1
                                 THEN CHOOSE f \in Found : TRUE ELSE NoHash]
      /\ UNCHANGED <<index, ending, children, errors, report, runs, dagVars>>
  BY DEF WriteManifest
<1>2. ASSUME Cardinality(Found) = 1 PROVE (CHOOSE f \in Found : TRUE) \in Fingerprints
  <2>1. Found # {}
    BY <1>2, FS_EmptySet
  <2>2. (CHOOSE f \in Found : TRUE) \in Found
    BY <2>1, Zenon
  <2>3. Found \subseteq Fingerprints
    BY InvNow DEF Found, Refs
  <2>4. QED BY <2>2, <2>3
<1> DEFINE hash == IF Cardinality(Found) = 1
                     THEN CHOOSE f \in Found : TRUE ELSE NoHash
<1>3. hash \in Hashes
  BY <1>2 DEF Hashes
<1>4. manifest' = [children |-> children, errors |-> errors, hash |-> hash]
  BY <1>1
<1> HIDE DEF hash
<1>5. manifest' \in Manifests /\ manifest'.children = children
  BY <1>3, <1>4, InvNow DEF Manifests
<1>6. Grounded' /\ graph' = graph
  BY <1>1, InvNow, StillGrounded DEF dagVars
<1>7. pc' \in Places \ InLoop
  BY <1>1 DEF Places, InLoop
<1>8. QED BY <1>1, <1>5, <1>6, <1>7, InvNow, LaterKeeps

LEMMA ReportingKeeps ==
  ASSUME SampleInv, WriteReport PROVE SampleInv'
<1>1. /\ pc' = "rest" /\ report' = Report(manifest) /\ children' = {} /\ errors' = 0
      /\ UNCHANGED <<index, ending, manifest, runs, dagVars>>
  BY DEF WriteReport
<1>2. Grounded' /\ graph' = graph
  BY <1>1, InvNow, StillGrounded DEF dagVars
<1>3. \A k \in RequestedK : report'.entries[k] # <<>> =>
        k <= N /\ Whole /\ report'.entries[k] = PassAtK(N, Cardinality(Resolved), k)
  BY <1>1, InvNow, ReportIsOfWhole
<1>4. pc' \in Places \ InLoop /\ Faithful({})
  BY <1>1 DEF Places, InLoop, Faithful
<1>5. QED BY <1>1, <1>2, <1>3, <1>4, InvNow, LaterKeeps

LEMMA KillKeepsSamples ==
  ASSUME SampleInv, Kill PROVE SampleInv'
<1>1. /\ pc' = "rest" /\ index' = N /\ children' = {} /\ errors' = 0
      /\ results' = NoResults /\ ending' = Submitted /\ UNCHANGED <<runs, graph>>
      /\ manifest' \in {manifest, Torn} /\ report' \in {report, NoReport}
  BY DEF Kill
<1>2. Torn \in Manifests /\ Torn.children = {}
  BY DEF Torn, Manifests
<1>3. Faithful({})
  BY DEF Faithful
<1>4. manifest' \in Manifests /\ Faithful(manifest'.children)
  BY <1>1, <1>2, <1>3, InvNow
<1>5. \A k \in RequestedK : report'.entries[k] # <<>> =>
        k <= N /\ Whole /\ report'.entries[k] = PassAtK(N, Cardinality(Resolved), k)
  BY <1>1, InvNow, NoReportHasNoValue
<1>6. pc' \in Places \ InLoop
  BY <1>1 DEF Places, InLoop
<1>7. QED
  BY <1>1, <1>3, <1>4, <1>5, <1>6, InvNow, SubmittedIsAnEnding, NothingIsGrounded,
     LaterKeeps

LEMMA RestKeeps ==
  ASSUME SampleInv, Damage \/ Regenerate \/ RewriteManifest PROVE SampleInv'
<1>1. CASE Damage
  <2>1. /\ pc = "rest"
        /\ UNCHANGED <<pc, index, ending, children, errors, manifest, report, runs, dagVars>>
    BY <1>1 DEF Damage
  <2>2. Grounded' /\ graph' = graph /\ pc' \in Places \ InLoop
    BY <2>1, InvNow, StillGrounded DEF dagVars, Places, InLoop
  <2>3. QED BY <2>1, <2>2, InvNow, LaterKeeps
<1>2. CASE Regenerate
  <2>1. /\ pc' = "rewrite" /\ children' = Replayable(manifest.children)
        /\ errors' = manifest.errors + Cardinality(manifest.children \ children')
        /\ UNCHANGED <<index, ending, manifest, report, runs, dagVars>>
    BY <1>2 DEF Regenerate
  <2>2. children' \subseteq manifest.children
    BY <2>1 DEF Replayable
  <2>3. children' \in SUBSET Refs /\ Faithful(children')
    BY <2>2, InvNow DEF Faithful
  <2>4. errors' \in Nat
    <3>1. IsFiniteSet(manifest.children)
      BY InvNow, FaithfulIsFinite
    <3>2. IsFiniteSet(manifest.children \ children')
      BY <3>1, FS_Difference
    <3>3. Cardinality(manifest.children \ children') \in Nat
      BY <3>2, FS_CardinalityType
    <3>4. QED BY <2>1, <3>3, InvNow DEF Manifests
  <2>5. Grounded' /\ graph' = graph /\ pc' \in Places \ InLoop
    BY <2>1, InvNow, StillGrounded DEF dagVars, Places, InLoop
  <2>6. QED BY <2>1, <2>3, <2>4, <2>5, InvNow, LaterKeeps
<1>3. CASE RewriteManifest
  <2>1. /\ pc' = "report"
        /\ manifest' = [manifest EXCEPT !.children = children, !.errors = errors]
        /\ UNCHANGED <<index, ending, children, errors, report, runs, dagVars>>
    BY <1>3 DEF RewriteManifest
  <2>2. manifest' \in Manifests /\ manifest'.children = children
    BY <2>1, InvNow DEF Manifests
  <2>3. Grounded' /\ graph' = graph /\ pc' \in Places \ InLoop
    BY <2>1, InvNow, StillGrounded DEF dagVars, Places, InLoop
  <2>4. QED BY <2>1, <2>2, <2>3, InvNow, LaterKeeps
<1>4. QED BY <1>1, <1>2, <1>3

-----------------------------------------------------------------------------
LEMMA SampleKept ==
  ASSUME SampleInv, [Next]_vars PROVE SampleInv'
<1>1. CASE EpisodeEnds \/ NotVerified \/ VerifyNode \/ VerificationEnds
  BY <1>1, VerificationKeeps
<1>2. CASE RecordSample \/ SampleRaises
  BY <1>2, RecordKeepsSamples, RaisingKeeps
<1>3. CASE WriteManifest \/ WriteReport
  BY <1>3, ManifestKeeps, ReportingKeeps
<1>4. CASE Kill
  BY <1>4, KillKeepsSamples
<1>5. CASE Damage \/ Regenerate \/ RewriteManifest
  BY <1>5, RestKeeps
<1>6. CASE UNCHANGED vars
  <2>1. /\ UNCHANGED <<pc, index, ending, children, errors, manifest, report, runs>>
        /\ UNCHANGED dagVars
    BY <1>6 DEF vars, own
  <2>2. Grounded' /\ graph' = graph
    BY <2>1, InvNow, StillGrounded DEF dagVars
  <2>3. Ahead'
    BY <2>1, <2>2 DEF SampleInv, Ahead, dagVars, Executed
  <2>4. QED BY <2>1, <2>2, <2>3, InvNow, QuietKeepsSamples
<1>7. QED BY <1>1, <1>2, <1>3, <1>4, <1>5, <1>6 DEF Next

LEMMA SampleInit == ASSUME Init PROVE SampleInv
<1>1. /\ pc = "next" /\ index = 0 /\ ending = Submitted /\ children = {} /\ errors = 0
      /\ manifest = NewManifest /\ report = NoReport /\ graph \in Graphs
      /\ runs = [s \in Samples |-> NotRun] /\ results = NoResults
  BY DEF Init, DagInit
<1>2. SampleTypes
  <2>1. NotRun \in Runs /\ NewManifest \in Manifests
    BY DEF NotRun, Runs, Hashes, NewManifest, Manifests
  <2>2. QED
    BY <1>1, <2>1, SamplesAreFinite, SubmittedIsAnEnding DEF SampleTypes, Places
<1>3. \A s \in Samples : runs[s].outcome = NotYet
  BY <1>1 DEF NotRun
<1>4. Ahead /\ ResolvedMeansVerified
  BY <1>1, <1>3, SamplesAreFinite DEF Ahead, ResolvedMeansVerified, NotYet
<1>5. Faithful(children) /\ Faithful(manifest.children)
  BY <1>1 DEF NewManifest, Faithful
<1>6. Reported
  BY <1>1, NoReportHasNoValue DEF Reported, Valid
<1>7. Grounded
  BY <1>1 DEF Grounded, NoResults, Executed
<1>8. QED BY <1>2, <1>4, <1>5, <1>6, <1>7 DEF SampleInv

-----------------------------------------------------------------------------
(* Draws.  The estimator divides factorials; what it stands for is the     *)
(* number of subsets of a size, counted by Pascal's rule.                  *)

\* Least counterexamples take the place of induction.
LEMMA LeastNumber ==
  ASSUME NEW S \in SUBSET Nat, S # {}
  PROVE  \E m \in S : \A y \in S : m <= y
<1>1. PICK m \in S : \A y \in S : ~ (<<y, m>> \in OpToRel(<, Nat))
  BY WFMin, NatLessThanWellFounded
<1>2. \A y \in S : ~ (y < m)
  BY <1>1 DEF OpToRel
<1>3. QED BY <1>2

\* The factorials up to n.  The recursive definition has a solution because
\* there is a table of every length and all tables agree.
IsTable(f, n) ==
  /\ f \in [0..n -> Nat \ {0}]
  /\ \A i \in 0..n : f[i] = IF i = 0 THEN 1 ELSE i * f[i-1]

LEMMA TablesAgree ==
  ASSUME NEW m \in Nat, NEW n \in Nat, m <= n, NEW f, NEW g, IsTable(f, m), IsTable(g, n)
  PROVE  \A i \in 0..m : f[i] = g[i]
<1> DEFINE S == {i \in 0..m : f[i] # g[i]}
<1> SUFFICES ASSUME S # {} PROVE FALSE
  OBVIOUS
<1>0. S \in SUBSET Nat
  OBVIOUS
<1>1. PICK i \in S : \A j \in S : i <= j
  BY <1>0, LeastNumber
<1>2. i \in 0..m /\ i \in 0..n /\ f[i] # g[i]
  OBVIOUS
<1>3. i # 0
  BY <1>2 DEF IsTable
<1>4. i - 1 \in 0..m /\ i - 1 < i
  BY <1>2, <1>3
<1>5. f[i-1] = g[i-1]
  BY <1>1, <1>4
<1>6. f[i] = i * f[i-1] /\ g[i] = i * g[i-1]
  BY <1>2, <1>3 DEF IsTable
<1>7. QED BY <1>2, <1>5, <1>6

LEMMA ProductIsPositive ==
  ASSUME NEW a \in Nat \ {0}, NEW b \in Nat \ {0} PROVE a * b \in Nat \ {0}
  OBVIOUS

LEMMA TablesExist ==
  ASSUME NEW n \in Nat PROVE \E f : IsTable(f, n)
<1> DEFINE S == {i \in Nat : ~ \E f : IsTable(f, i)}
<1> SUFFICES ASSUME S # {} PROVE FALSE
  OBVIOUS
<1>1. PICK m \in S : \A j \in S : m <= j
  BY LeastNumber
<1>2. IsTable([i \in 0..0 |-> 1], 0)
  BY DEF IsTable
<1>3. m \in Nat /\ m # 0
  BY <1>2
<1>4. PICK f : IsTable(f, m-1)
  BY <1>1, <1>3
<1> DEFINE g == [i \in 0..m |-> IF i = m THEN m * f[m-1] ELSE f[i]]
<1>5. \A i \in 0..m : i # m => i \in 0..(m-1)
  BY <1>3
<1>6. f[m-1] \in Nat \ {0}
  BY <1>3, <1>4 DEF IsTable
<1>7. m * f[m-1] \in Nat \ {0}
  BY <1>3, <1>6, ProductIsPositive
<1>8. g \in [0..m -> Nat \ {0}]
  BY <1>4, <1>5, <1>7 DEF IsTable
<1>9. ASSUME NEW i \in 0..m PROVE g[i] = IF i = 0 THEN 1 ELSE i * g[i-1]
  <2>1. CASE i = m
    <3>1. m - 1 \in 0..m /\ m - 1 # m
      BY <1>3
    <3>2. g[m] = m * f[m-1] /\ g[m-1] = f[m-1]
      BY <3>1, <2>1
    <3>3. QED BY <1>3, <2>1, <3>2
  <2>2. CASE i # m
    <3>1. i \in 0..(m-1) /\ g[i] = f[i]
      BY <1>5, <2>2
    <3>2. i # 0 => i - 1 \in 0..m /\ i - 1 # m
      BY <3>1, <1>3
    <3>3. i # 0 => g[i-1] = f[i-1]
      BY <3>2
    <3>4. f[i] = IF i = 0 THEN 1 ELSE i * f[i-1]
      BY <1>4, <3>1 DEF IsTable
    <3>5. QED BY <3>1, <3>3, <3>4
  <2>3. QED BY <2>1, <2>2
<1>10. IsTable(g, m)
  BY <1>8, <1>9 DEF IsTable
<1>11. QED BY <1>1, <1>10

\* The defining equation of factorial, and that it is positive.
LEMMA FactorialSteps ==
  /\ factorial[0] = 1
  /\ \A n \in Nat : factorial[n] \in Nat \ {0}
  /\ \A n \in Nat \ {0} : factorial[n] = n * factorial[n-1]
<1> DEFINE T(n) == CHOOSE f : IsTable(f, n)
           g == [n \in Nat |-> T(n)[n]]
           Solves(h) == h = [n \in Nat |-> IF n = 0 THEN 1 ELSE n * h[n-1]]
<1>1. \A n \in Nat : IsTable(T(n), n)
  BY TablesExist, Zenon
<1> HIDE DEF T
<1>2. \A n \in Nat : g[n] = T(n)[n]
  OBVIOUS
<1>3. \A n \in Nat \ {0} : T(n)[n-1] = T(n-1)[n-1]
  <2>1. ASSUME NEW n \in Nat \ {0} PROVE T(n)[n-1] = T(n-1)[n-1]
    <3>1. n - 1 \in Nat /\ n - 1 <= n /\ n - 1 \in 0..(n-1)
      OBVIOUS
    <3>2. IsTable(T(n-1), n-1) /\ IsTable(T(n), n)
      BY <1>1, <3>1
    <3>3. QED BY <3>1, <3>2, TablesAgree
  <2>2. QED BY <2>1
<1>4. \A n \in Nat : g[n] = IF n = 0 THEN 1 ELSE n * g[n-1]
  <2>1. ASSUME NEW n \in Nat PROVE g[n] = IF n = 0 THEN 1 ELSE n * g[n-1]
    <3>1. IsTable(T(n), n) /\ n \in 0..n
      BY <1>1
    <3>2. T(n)[n] = IF n = 0 THEN 1 ELSE n * T(n)[n-1]
      BY <3>1 DEF IsTable
    <3>3. n # 0 => n - 1 \in Nat
      OBVIOUS
    <3>4. n # 0 => g[n-1] = T(n)[n-1]
      BY <1>2, <1>3, <3>3
    <3>5. QED BY <1>2, <3>2, <3>4
  <2>2. QED BY <2>1
<1>5. g = [n \in Nat |-> IF n = 0 THEN 1 ELSE n * g[n-1]]
  <2>1. g = [n \in Nat |-> g[n]]
    OBVIOUS
  <2> HIDE DEF g
  <2>2. QED BY <1>4, <2>1
<1>6. Solves(g)
  BY <1>5
<1> HIDE DEF g
<1>7. factorial = CHOOSE h : Solves(h)
  BY DEF factorial
<1>8. Solves(factorial)
  BY <1>6, <1>7, Zenon
<1>9. \A n \in Nat : factorial[n] = IF n = 0 THEN 1 ELSE n * factorial[n-1]
  BY <1>8
<1>10. \A n \in Nat : factorial[n] \in Nat \ {0}
  <2> DEFINE S == {n \in Nat : factorial[n] \notin Nat \ {0}}
  <2> SUFFICES ASSUME S # {} PROVE FALSE
    OBVIOUS
  <2>1. PICK m \in S : \A j \in S : m <= j
    BY LeastNumber
  <2>2. m \in Nat \ {0}
    BY <1>9
  <2>3. m - 1 \in Nat /\ m - 1 < m
    BY <2>2
  <2>4. factorial[m-1] \in Nat \ {0}
    BY <2>1, <2>3
  <2>5. QED BY <1>9, <2>2, <2>4, ProductIsPositive
<1>11. QED BY <1>9, <1>10

LEMMA DrawsAreFinite ==
  ASSUME NEW S, IsFiniteSet(S), NEW k
  PROVE  IsFiniteSet(kSubset(k, S)) /\ Cardinality(kSubset(k, S)) \in Nat
<1>1. IsFiniteSet(SUBSET S) /\ kSubset(k, S) \in SUBSET SUBSET S
  BY FS_SUBSET DEF kSubset
<1>2. IsFiniteSet(kSubset(k, S))
  BY <1>1, FS_Subset
<1>3. QED BY <1>2, FS_CardinalityType

\* The draws from a set that gains an element: those without it, and those
\* that are one of the smaller draws and the element.
LEMMA DrawsSplit ==
  ASSUME NEW S, IsFiniteSet(S), NEW x, x \notin S, NEW k \in Nat
  PROVE  Cardinality(kSubset(k+1, S \cup {x}))
           = Cardinality(kSubset(k+1, S)) + Cardinality(kSubset(k, S))
<1> DEFINE A == kSubset(k+1, S)
           B == kSubset(k, S)
           f == [t \in B |-> t \cup {x}]
           C == {t \cup {x} : t \in B}
<1>1. IsFiniteSet(A) /\ IsFiniteSet(B) /\ Cardinality(A) \in Nat /\ Cardinality(B) \in Nat
  BY DrawsAreFinite
<1>2. \A t \in A \cup B : t \in SUBSET S /\ IsFiniteSet(t) /\ x \notin t
  BY FS_Subset DEF kSubset
<1>3. f \in Bijection(B, C)
  <2>1. \A t, u \in B : f[t] = f[u] => t = u
    <3>1. \A t \in B : x \notin t
      BY <1>2
    <3>2. \A t \in B : f[t] = t \cup {x}
      OBVIOUS
    <3> HIDE DEF f, B
    <3>3. \A t \in B : t = f[t] \ {x}
      BY <3>1, <3>2
    <3>4. QED BY <3>3
  <2>2. f \in [B -> C] /\ \A c \in C : \E t \in B : f[t] = c
    OBVIOUS
  <2>3. QED BY <2>1, <2>2 DEF Bijection, Injection, Surjection, IsInjective
<1>4. IsFiniteSet(C) /\ Cardinality(C) = Cardinality(B)
  BY <1>1, <1>3, FS_Bijection DEF ExistsBijection
<1>5. A \cap C = {}
  BY <1>2
<1>6. kSubset(k+1, S \cup {x}) = A \cup C
  <2>1. ASSUME NEW t \in A PROVE t \in kSubset(k+1, S \cup {x})
    BY DEF kSubset
  <2>2. ASSUME NEW t \in B PROVE t \cup {x} \in kSubset(k+1, S \cup {x})
    <3>1. IsFiniteSet(t) /\ x \notin t /\ Cardinality(t) = k /\ t \in SUBSET S
      BY <1>2 DEF kSubset
    <3>2. Cardinality(t \cup {x}) = k + 1
      BY <3>1, FS_AddElement
    <3>3. QED BY <3>1, <3>2 DEF kSubset
  <2>3. ASSUME NEW t \in kSubset(k+1, S \cup {x}), x \notin t PROVE t \in A
    BY <2>3 DEF kSubset
  <2>4. ASSUME NEW t \in kSubset(k+1, S \cup {x}), x \in t
        PROVE  t \in C
    <3>1. t \in SUBSET (S \cup {x}) /\ Cardinality(t) = k + 1
      BY DEF kSubset
    <3>2. IsFiniteSet(S \cup {x})
      BY FS_AddElement
    <3>3. IsFiniteSet(t)
      BY <3>1, <3>2, FS_Subset
    <3>4. Cardinality(t \ {x}) = k
      BY <2>4, <3>1, <3>3, FS_RemoveElement
    <3>5. t \ {x} \in B
      BY <3>1, <3>4 DEF kSubset
    <3>6. t = (t \ {x}) \cup {x}
      BY <2>4
    <3>7. QED BY <3>5, <3>6
  <2> HIDE DEF A
  <2>5. QED BY <2>1, <2>2, <2>3, <2>4
<1>7. Cardinality(A \cup C) = Cardinality(A) + Cardinality(C) - Cardinality(A \cap C)
  BY <1>1, <1>4, FS_Union
<1> HIDE DEF A, B, C
<1>8. Cardinality(A \cap C) = 0
  BY <1>5, FS_EmptySet
<1>9. Cardinality(A) + Cardinality(C) - 0 = Cardinality(A) + Cardinality(B)
  BY <1>1, <1>4
<1>10. Cardinality(kSubset(k+1, S \cup {x})) = Cardinality(A) + Cardinality(B)
  BY <1>6, <1>7, <1>8, <1>9
<1>11. QED BY <1>10 DEF A, B

\* None, all or more than all of the elements are drawn.
LEMMA DrawsAtLimits ==
  ASSUME NEW S, IsFiniteSet(S)
  PROVE  /\ Cardinality(kSubset(0, S)) = 1
         /\ Cardinality(kSubset(Cardinality(S), S)) = 1
         /\ \A k \in Nat : k > Cardinality(S) => kSubset(k, S) = {}
<1>1. \A t \in SUBSET S : IsFiniteSet(t) /\ Cardinality(t) \in Nat
                            /\ Cardinality(t) <= Cardinality(S)
                            /\ (Cardinality(S) = Cardinality(t) => S = t)
  BY FS_Subset, FS_CardinalityType
<1>2. kSubset(0, S) = {{}}
  BY <1>1, FS_EmptySet DEF kSubset
<1>3. kSubset(Cardinality(S), S) = {S}
  BY <1>1 DEF kSubset
<1>4. Cardinality(S) \in Nat
  BY FS_CardinalityType
<1>5. \A k \in Nat : k > Cardinality(S) => kSubset(k, S) = {}
  BY <1>1, <1>4 DEF kSubset
<1>6. QED BY <1>2, <1>3, <1>5, FS_Singleton

\* The arithmetic of Pascal's rule, without fractions.
LEMMA Pascal ==
  ASSUME NEW a \in Nat, NEW b \in Nat, NEW p \in Nat, NEW q \in Nat, NEW r \in Nat,
         NEW k \in Nat, NEW j \in Nat,
         a * ((k * p) * q) = r, b * (p * (j * q)) = r
  PROVE  (a + b) * ((k * p) * (j * q)) = (j + k) * r
<1>1. a * ((k * p) * (j * q)) = j * (a * ((k * p) * q))
  BY SMT
<1>2. b * ((k * p) * (j * q)) = k * (b * (p * (j * q)))
  BY SMT
<1> DEFINE d == (k * p) * (j * q)
<1>3. d \in Nat
  OBVIOUS
<1>4. a * d = j * r /\ b * d = k * r
  BY <1>1, <1>2
<1> HIDE DEF d
<1>5. (a + b) * d = a * d + b * d
  BY <1>3
<1>6. (j + k) * r = j * r + k * r
  OBVIOUS
<1>7. (a + b) * d = (j + k) * r
  BY <1>4, <1>5, <1>6
<1>8. QED BY <1>7 DEF d

\* The number of draws of k elements is the binomial coefficient.
Counted(S, k) ==
  Cardinality(kSubset(k, S)) * (factorial[k] * factorial[Cardinality(S) - k])
    = factorial[Cardinality(S)]

LEMMA DrawsAreCounted ==
  ASSUME NEW S, IsFiniteSet(S), NEW k \in 0..Cardinality(S)
  PROVE  Counted(S, k)
<1> DEFINE Bad(n) == \E T : /\ IsFiniteSet(T) /\ Cardinality(T) = n
                            /\ \E i \in 0..n : ~Counted(T, i)
           Bads == {n \in Nat : Bad(n)}
<1>1. Cardinality(S) \in Nat
  BY FS_CardinalityType
<1>2. SUFFICES ASSUME Bads # {} PROVE FALSE
  BY <1>1
<1>3. PICK n \in Bads : \A m \in Bads : n <= m
  BY <1>2, LeastNumber
<1>4. PICK T : /\ IsFiniteSet(T) /\ Cardinality(T) = n
               /\ \E i \in 0..n : ~Counted(T, i)
  OBVIOUS
<1>5. PICK i \in 0..n : ~Counted(T, i)
  BY <1>4
<1>6. /\ n \in Nat /\ factorial[n] \in Nat \ {0} /\ factorial[0] = 1
      /\ n - 0 = n /\ n - n = 0
  BY FactorialSteps
<1>7. i # 0 /\ i # n
  <2>1. Counted(T, 0)
    BY <1>4, <1>6, DrawsAtLimits DEF Counted
  <2>2. Counted(T, n)
    BY <1>4, <1>6, DrawsAtLimits DEF Counted
  <2>3. QED BY <1>5, <2>1, <2>2
<1>8. T # {}
  BY <1>4, <1>5, <1>7, FS_EmptySet
<1>9. PICK x \in T : TRUE
  BY <1>8
<1> DEFINE R == T \ {x}
<1>10. IsFiniteSet(R) /\ Cardinality(R) = n - 1
  BY <1>4, <1>9, FS_RemoveElement
<1>11. /\ n - 1 \in Nat /\ n - 1 < n /\ i - 1 \in Nat /\ i - 1 \in 0..(n-1)
       /\ i \in 0..(n-1) /\ n - i \in Nat \ {0} /\ i \in Nat \ {0} /\ n \in Nat \ {0}
       /\ (n-1) - i = (n-i) - 1 /\ (n-1) - (i-1) = n - i /\ (n-i) + i = n
       /\ (i-1) + 1 = i /\ n - i - 1 \in Nat
  BY <1>5, <1>6, <1>7
<1>12. ~Bad(n-1)
  BY <1>3, <1>11
<1>13. Counted(R, i) /\ Counted(R, i-1)
  BY <1>10, <1>11, <1>12
<1> DEFINE a == Cardinality(kSubset(i, R))
           b == Cardinality(kSubset(i-1, R))
           p == factorial[i-1]
           q == factorial[(n-i) - 1]
           r == factorial[n-1]
<1>14. a \in Nat /\ b \in Nat /\ p \in Nat /\ q \in Nat /\ r \in Nat
  BY <1>10, <1>11, DrawsAreFinite, FactorialSteps
<1>15. /\ factorial[i] = i * p /\ factorial[n-i] = (n-i) * q /\ factorial[n] = n * r
  BY <1>11, FactorialSteps
<1>16. a * ((i * p) * q) = r /\ b * (p * ((n-i) * q)) = r
  BY <1>10, <1>11, <1>13, <1>15 DEF Counted
<1>17. Cardinality(kSubset(i, T)) = a + b
  <2>1. T = R \cup {x} /\ x \notin R
    BY <1>9
  <2>2. Cardinality(kSubset((i-1)+1, R \cup {x}))
          = Cardinality(kSubset((i-1)+1, R)) + Cardinality(kSubset(i-1, R))
    BY <1>10, <1>11, <2>1, DrawsSplit
  <2>3. QED BY <1>11, <2>1, <2>2
<1> HIDE DEF a, b, p, q, r
<1>18. (a + b) * ((i * p) * ((n-i) * q)) = ((n-i) + i) * r
  BY <1>11, <1>14, <1>16, Pascal
<1>19. Counted(T, i)
  BY <1>4, <1>11, <1>15, <1>17, <1>18 DEF Counted
<1>20. QED BY <1>5, <1>19

LEMMA Quotient ==
  ASSUME NEW c \in Nat, NEW d \in Nat \ {0} PROVE (c * d) \div d = c
  BY SMT

\* choose, which divides, is the number of draws.
LEMMA ChooseCountsDraws ==
  ASSUME NEW S, IsFiniteSet(S), NEW k \in 0..Cardinality(S)
  PROVE  choose(Cardinality(S), k) = Cardinality(kSubset(k, S))
<1> DEFINE n == Cardinality(S)
           c == Cardinality(kSubset(k, S))
           d == factorial[k] * factorial[n - k]
<1>1. n \in Nat /\ k \in Nat /\ n - k \in Nat
  BY FS_CardinalityType
<1>2. c \in Nat /\ d \in Nat \ {0}
  BY <1>1, DrawsAreFinite, FactorialSteps, ProductIsPositive
<1>3. factorial[n] = c * d
  BY DrawsAreCounted DEF Counted
<1>4. choose(n, k) = factorial[n] \div d
  BY DEF choose
<1> HIDE DEF n, c, d
<1>5. choose(n, k) = c
  BY <1>2, <1>3, <1>4, Quotient
<1>6. QED BY <1>5 DEF n, c

\* What a value says: of the draws of k samples those with a resolved one are
\* all but the draws from the samples that are not.
LEMMA LuckyDraws ==
  ASSUME NEW k \in Nat \ {0}, k <= N
  PROVE  LET draws == kSubset(k, Samples)
             lucky == {d \in draws : d \cap Resolved # {}}
             value == PassAtK(N, Cardinality(Resolved), k)
         IN  value[1] * Cardinality(draws) = value[2] * Cardinality(lucky)
<1> DEFINE draws == kSubset(k, Samples)
           lucky == {d \in draws : d \cap Resolved # {}}
           rest == Samples \ Resolved
           unlucky == kSubset(k, rest)
           c == Cardinality(Resolved)
           failures == IF k > N - c THEN 0 ELSE choose(N - c, k)
<1>1. /\ IsFiniteSet(Samples) /\ Cardinality(Samples) = N /\ N \in Nat
      /\ Resolved \in SUBSET Samples
  BY SamplesAreFinite DEF Resolved
<1>2. IsFiniteSet(Resolved) /\ c \in Nat /\ c <= N
  BY <1>1, FS_Subset, FS_CardinalityType
<1>3. IsFiniteSet(rest) /\ Cardinality(rest) = N - c
  <2>1. Samples \cap Resolved = Resolved
    BY <1>1
  <2>2. QED BY <1>1, <2>1, FS_Difference
<1>4. /\ IsFiniteSet(draws) /\ Cardinality(draws) \in Nat
      /\ Cardinality(unlucky) \in Nat
  BY <1>1, <1>3, DrawsAreFinite
<1>5. choose(N, k) = Cardinality(draws)
  <2>1. k \in 0..Cardinality(Samples)
    BY <1>1
  <2>2. QED BY <1>1, <2>1, ChooseCountsDraws
<1>6. failures = Cardinality(unlucky)
  <2>1. CASE k > N - c
    <3>1. unlucky = {}
      BY <1>3, <2>1, DrawsAtLimits
    <3>2. QED BY <2>1, <3>1, FS_EmptySet
  <2>2. CASE ~(k > N - c)
    <3>1. k \in 0..Cardinality(rest)
      BY <1>1, <1>2, <1>3, <2>2
    <3>2. choose(Cardinality(rest), k) = Cardinality(unlucky)
      BY <1>3, <3>1, ChooseCountsDraws
    <3>3. QED BY <1>3, <2>2, <3>2
  <2>3. QED BY <2>1, <2>2
<1>7. Cardinality(lucky) = Cardinality(draws) - Cardinality(unlucky)
  <2>1. draws \cap unlucky = unlucky /\ draws \ unlucky = lucky
    BY <1>1 DEF kSubset
  <2> HIDE DEF draws, lucky, unlucky
  <2>2. Cardinality(draws \ unlucky) = Cardinality(draws) - Cardinality(draws \cap unlucky)
    BY <1>4, FS_Difference
  <2>3. QED BY <2>1, <2>2
<1>8. PassAtK(N, c, k) = <<choose(N, k) - failures, choose(N, k)>>
  BY DEF PassAtK
<1> DEFINE all == Cardinality(draws)
           some == Cardinality(lucky)
<1>9. PassAtK(N, c, k) = <<some, all>> /\ some \in Int /\ all \in Int
  BY <1>4, <1>5, <1>6, <1>7, <1>8
<1> HIDE DEF all, some
<1>10. some * all = all * some
  BY <1>9
<1>11. QED BY <1>9, <1>10 DEF all, some

-----------------------------------------------------------------------------
\* Whatever raises, is killed or damaged: the refs in memory and in the manifest
\* are those of recorded samples, a node that passed rests on nodes that passed,
\* and a value in the report is that of all samples.
\* (run_sample_set, regenerate_sample_report, VerifierExecutor.execute)
THEOREM SampleInvariance == Spec => []SampleInv
<1>1. SampleInv /\ [Next]_vars => SampleInv'
  BY SampleKept
<1>2. QED BY <1>1, SampleInit, PTL DEF Spec

\* A resolved sample is verified from the ground up, in every verifier graph a
\* task can be frozen with.  (VerifierExecutor.execute, build_scorecard)
THEOREM ResolvedIsVerified == Spec => []ResolvedMeansVerified
<1>1. SampleInv => ResolvedMeansVerified
  BY DEF SampleInv
<1>2. QED BY <1>1, SampleInvariance, PTL

\* A report has values only when every planned sample has a verdict, all in
\* one configuration.  (build_pass_at_k_report)
THEOREM ValuesNeedAWholeSet == Spec => []ValuesAreOfWholeSets
<1>1. SampleInv => ValuesAreOfWholeSets
  BY DEF SampleInv, Reported, Whole, ValuesAreOfWholeSets
<1>2. QED BY <1>1, SampleInvariance, PTL

\* A value is the fraction of the draws of k samples that hold a resolved one,
\* for every number of samples and every k.  (compute_pass_at_k)
THEOREM ValuesCountDraws == Spec => []PassAtKIsExact
<1>1. ASSUME SampleInv PROVE PassAtKIsExact
  <2>1. ASSUME NEW k \in RequestedK, Valid(k)
        PROVE  LET draws == kSubset(k, Samples)
                   lucky == {d \in draws : d \cap Resolved # {}}
               IN  report.entries[k][1] * Cardinality(draws)
                     = report.entries[k][2] * Cardinality(lucky)
    <3>1. k \in Nat \ {0} /\ k <= N
      BY <1>1, <2>1, SampleAssumption DEF SampleInv, Reported
    <3>2. report.entries[k] = PassAtK(N, Cardinality(Resolved), k)
      BY <1>1, <2>1 DEF SampleInv, Reported
    <3>3. QED BY <3>1, <3>2, LuckyDraws
  <2>2. QED BY <2>1 DEF PassAtKIsExact, Resolved
<1>2. QED BY <1>1, SampleInvariance, PTL

\* No report contradicts an earlier one.  (regenerate_sample_report)
THEOREM ReportsNeverContradict == Spec => ReportsAgree
<1>1. ASSUME SampleInv, SampleInv', [Next]_vars
      PROVE  [\A k \in RequestedK : Valid(k) /\ Valid(k)' =>
                report'.entries[k] = report.entries[k]]_vars
  <2>1. ASSUME NEW k \in RequestedK, Valid(k), Valid(k)'
        PROVE  report'.entries[k] = report.entries[k]
    <3>1. pc # "record"
      BY <1>1, <2>1 DEF SampleInv, Reported, InLoop
    <3>2. runs' = runs
      BY <1>1, <3>1 DEF Next, EpisodeEnds, NotVerified, VerifyNode, VerificationEnds,
        RecordSample, SampleRaises, WriteManifest, WriteReport, Kill, Damage, Regenerate,
        RewriteManifest, own, vars
    <3>3. Resolved' = Resolved
      BY <3>2 DEF Resolved
    <3>4. /\ report.entries[k] = PassAtK(N, Cardinality(Resolved), k)
          /\ report'.entries[k] = PassAtK(N, Cardinality(Resolved), k)
      BY <1>1, <2>1, <3>3 DEF SampleInv, Reported
    <3>5. QED BY <3>4
  <2>2. QED BY <2>1
<1>2. QED BY <1>1, SampleInvariance, PTL DEF Spec, ReportsAgree
=============================================================================
