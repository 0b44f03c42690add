--------------------------- MODULE MCWalletLedger ---------------------------
(* Instances of WalletLedger for TLC.  The blinded receive is of another   *)
(* asset than the one that is issued, received by witness and sent.        *)
EXTENDS WalletLedger, TLC

CONSTANTS u1, u2, issue, blind, witness, s1, s2

OneUtxo  == {u1}
TwoUtxos == {u1, u2}
OneIssue == {issue}
OneBlind == {blind}
OneWitness == {witness}
OneSend  == {s1}
TwoSends == {s1, s2}
None     == {}
ByKind   == [t \in Transfers |-> IF t \in Blind THEN "bought" ELSE "issued"]
SendSymmetry == Permutations(Sends)
OneAsset == [t \in Transfers |-> "issued"]
=============================================================================
