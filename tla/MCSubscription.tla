--------------------------- MODULE MCSubscription ---------------------------
EXTENDS Subscription, TLC

Symmetry == Permutations(Procs) \cup Permutations(Subs) \cup Permutations(Plans)
=============================================================================
