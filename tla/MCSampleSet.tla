---------------------------- MODULE MCSampleSet ----------------------------
EXTENDS SampleSet, TLC

MCNodes == {"compile", "run", "audit"}

Node(deps, kind, on, from) == [deps |-> deps, kind |-> kind, on |-> on, from |-> from]
Root == Node({}, "passed", NoNode, NoNode)
Running(deps) == Node(deps, "passed", NoNode, "compile")

\* The graph of the open-source suites, and that of the licensed simulator.
Open == [n \in {"compile", "run"} |->
  IF n = "compile" THEN Root ELSE Running({"compile"})]
Licensed == [n \in {"run"} |-> Root]

\* Graphs the schema admits: a node the score does not require before the run,
\* and conditions on a dependency that failed or in any case.
Audited == [n \in MCNodes |->
  IF n = "run" THEN Running({"compile", "audit"}) ELSE Root]
Diagnosed(kind) == [n \in MCNodes |->
  IF n = "compile" THEN Root
  ELSE IF n = "run" THEN Running({"compile"})
  ELSE Node({"compile"}, kind, IF kind = "failed" THEN "compile" ELSE NoNode, NoNode)]

MCGraphs == {Open, Licensed, Audited, Diagnosed("failed"), Diagnosed("always")}
MCRequired == [g \in MCGraphs |-> DOMAIN g \cap {IF g = Open THEN "compile" ELSE "run", "run"}]

OpenOnly == {Open}
OpenRequired == [g \in OpenOnly |-> {"compile", "run"}]
LicensedOnly == {Licensed}
NoneStrict == {}
Ks == {1, 2, 4}
Symmetry == Permutations(Fingerprints)
=============================================================================
