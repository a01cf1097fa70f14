---------------------- MODULE MCRepositoryToolBroker ----------------------
(* RepositoryToolBroker at a small size: two patches, so that evidence can go *)
(* stale and be renewed, and just enough calls to do so and finish.           *)
EXTENDS RepositoryToolBroker
=============================================================================
