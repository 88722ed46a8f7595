---------------------------- MODULE MCSubscriptions ----------------------------
EXTENDS Subscriptions, TLC

MCTypeLists ==
  {<<<<"D", "T">>>>, <<<<"*", "T">>>>, <<<<"D", "*">>>>, <<<<"*", "*">>>>,
   <<<<"D", "T">>, <<"*", "T">>>>, <<<<"E", "T">>, <<"D", "*">>>>}
MCRequests == {{}, {<<"D", "T">>}, {<<"*", "*">>}}

Symmetry == Permutations(Callers)
================================================================================
