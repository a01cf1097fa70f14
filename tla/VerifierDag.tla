---------------------------- MODULE VerifierDag ----------------------------
(***************************************************************************)
(* VerifierExecutor.execute: the nodes of a validated verifier graph run   *)
(* one at a time in some topological order; a node runs, is skipped, or    *)
(* ends in error for want of the executable it was promised.               *)
(* (core/verifier_dag.py, and the integrity check behind it in             *)
(* core/orchestrator.py)                                                   *)
(***************************************************************************)
EXTENDS Scoring

CONSTANTS
  Nodes,      \* ids of verifier nodes
  Graphs      \* the graphs tasks are frozen with

\* A graph is a function from its nodes to what decides whether each runs:
\* depends_on, run_if with its node, and request.executable_from.
NoNode == "no_node"
NodeSpecs == [deps : SUBSET Nodes, kind : {"passed", "always", "failed"},
              on : Nodes \cup {NoNode}, from : Nodes \cup {NoNode}]

\* VerifierGraph validates depends_on.  That the node of a condition and the
\* node of an executable are among the dependencies it does not validate; the
\* repository's graphs have it so.
WellDeclared(g) ==
  \A n \in DOMAIN g :
    /\ g[n] \in NodeSpecs
    /\ g[n].deps \subseteq DOMAIN g \ {n}
    /\ g[n].deps # {} /\ g[n].kind = "failed" => g[n].on \in g[n].deps
    /\ g[n].from # NoNode => g[n].from \in g[n].deps

\* The node the executor appends when a hidden input changed.
Integrity == "runtime_hidden_integrity"

ASSUME DagAssumption ==
  /\ NoNode \notin Nodes /\ Integrity \notin Nodes
  /\ \A g \in Graphs : DOMAIN g \subseteq Nodes /\ WellDeclared(g)

VARIABLES
  graph,      \* VerifierGraph of the task
  results,    \* results: of the nodes executed so far
  artifacts   \* nodes whose tool_result names an executable

dagVars == <<graph, results, artifacts>>

NoResults == [n \in {} |-> "passed"]
Executed == DOMAIN results
DagDone == DOMAIN graph \subseteq Executed

DagInit == graph \in Graphs /\ results = NoResults /\ artifacts = {}

-----------------------------------------------------------------------------
\* Mutant: an error of the dependency counts as its failure.
ShouldRunAfterAnyDefeat(n, known) ==
  \/ graph[n].deps = {}
  \/ graph[n].kind = "always"
  \/ graph[n].kind = "failed" /\ known[graph[n].on] \in {"failed", "error"}
  \/ graph[n].kind = "passed" /\ \A d \in graph[n].deps : known[d] # "failed"

\* _should_run, over the results of n's dependencies
ShouldRun(n, known) ==
  \/ graph[n].deps = {}
  \/ graph[n].kind = "always"
  \/ graph[n].kind = "failed" /\ known[graph[n].on] = "failed"
  \/ graph[n].kind = "passed" /\ \A d \in graph[n].deps : known[d] = "passed"

\* The executor reaches n in the topological order.
Reached(n) == n \notin Executed /\ graph[n].deps \subseteq Executed

Result(n, status) ==
  results' = [m \in Executed \cup {n} |-> IF m = n THEN status ELSE results[m]]

Skip(n) ==
  /\ Reached(n) /\ ~ShouldRun(n, results)
  /\ Result(n, "skipped")
  /\ UNCHANGED <<graph, artifacts>>

Supplied(n) == graph[n].from = NoNode \/ graph[n].from \in artifacts

NoExecutable(n) ==
  /\ Reached(n) /\ ShouldRun(n, results) /\ ~Supplied(n)
  /\ Result(n, "error")
  /\ UNCHANGED <<graph, artifacts>>

\* The plug-in passes, fails, or errs: its category is one of infrastructure,
\* it is missing, or it raises.  It supplies an executable or does not.
RunTool(n) ==
  /\ Reached(n) /\ ShouldRun(n, results) /\ Supplied(n)
  /\ \E status \in {"passed", "failed", "error"} : Result(n, status)
  /\ \/ UNCHANGED artifacts
     \/ /\ \E m \in DOMAIN graph : graph[m].from = n
        /\ artifacts' = artifacts \cup {n}
  /\ UNCHANGED graph

ExecuteNode == \E n \in DOMAIN graph : Skip(n) \/ NoExecutable(n) \/ RunTool(n)

\* integrity_ok, after the last node: a changed hidden input is an error
CheckIntegrity ==
  /\ DagDone /\ Integrity \notin Executed
  /\ results' = results \/ Result(Integrity, "error")
  /\ UNCHANGED <<graph, artifacts>>

\* Hidden verification of a task that requires a final submission is skipped
\* when there was none: final_submission_missing
SkipVerification ==
  /\ Executed = {}
  /\ results' = [n \in DOMAIN graph |-> "skipped"]
  /\ UNCHANGED <<graph, artifacts>>

-----------------------------------------------------------------------------
\* Nodes whose results the result of n rests on, by the default condition.
Foundation[n \in DOMAIN graph] ==
  {n} \cup (IF graph[n].kind = "passed"
              THEN UNION {Foundation[d] : d \in graph[n].deps} ELSE {})
=============================================================================
