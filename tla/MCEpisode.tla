----------------------------- MODULE MCEpisode -----------------------------
EXTENDS Episode

AllHarnesses == {"react", "single_turn", "external"}

\* Every limit is the first to be reached in some budget; one allows no call.
SmallBudgets ==
  {[turns |-> 1, tools |-> 0, calls |-> 0, tokens |-> 0],
   [turns |-> 3, tools |-> 1, calls |-> NoLimit, tokens |-> 3],
   [turns |-> 2, tools |-> 2, calls |-> NoLimit, tokens |-> NoLimit],
   [turns |-> 3, tools |-> 3, calls |-> 2, tokens |-> 4]}
=============================================================================
