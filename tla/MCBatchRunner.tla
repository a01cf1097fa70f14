--------------------------- MODULE MCBatchRunner ---------------------------
(* Values for the constants of small instances of BatchRunner.             *)
EXTENDS BatchRunner

NoItems == {}
FirstItem == {1}
FirstTwoItems == {1, 2}
OneCallEach == [i \in Item |-> 1]
OneAndTwoCalls == [i \in Item |-> i]
NoCalls == [i \in Item |-> 0]
NoCategory == {}
Transport == {"transport"}
TransportAndRateLimit == {"transport", "rate_limit"}
ConfigurationError == {"config"}
=============================================================================
