------------------------------ MODULE Selection ------------------------------
(***************************************************************************)
(* What _select_rgb_inputs and _prepare_rgb_psbt_wasm have in common: both *)
(* go through candidates in ascending order until they have enough.        *)
(***************************************************************************)
EXTENDS Integers, FiniteSets, FiniteSetsExt

Total(allocs) == MapThenSumSet(LAMBDA k : k.amount, allocs)

(* The first elements of S, by ascending order, whose values reach need.   *)
Reaching(S, order, value, need) ==
    LET sum(C) == MapThenSumSet(LAMBDA x : value[x], C)
    IN  {C \in SUBSET S : /\ sum(C) >= need
                          /\ \E last \in C :
                                /\ \A x \in C : order[x] <= order[last]
                                /\ \A x \in S \ C : order[last] <= order[x]
                                /\ sum(C \ {last}) < need}
=============================================================================
