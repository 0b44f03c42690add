------------------------- MODULE MCInflatableAsset -------------------------
(* Instances of InflatableAsset for TLC. *)
EXTENDS InflatableAsset

CONSTANTS d, c, p, i, s, r, o, issue

TheDeposit == {d}
TheCreate  == {c}
ThePayment == {p}
TheInflation == {i}
TheSend    == {s}
TheReceive == {r}
TheOther   == {o}
Nobody     == {}
AllColored == {i, s, r}
NotSkipped == {FALSE}
Outputs == [t \in {d, c, p, i, s, r} |->
               CASE t = d -> {0} [] t = c -> {0, 1, 2, 3} [] t = i -> {1, 2} [] t = r -> {1}
                 [] OTHER -> {}]
SomeLists == {[reject |-> {i, o}, allow |-> {}], [reject |-> {issue}, allow |-> {r}]}
NoLists    == {[reject |-> {}, allow |-> {}]}
=============================================================================
