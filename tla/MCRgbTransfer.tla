--------------------------- MODULE MCRgbTransfer ---------------------------
(* Instances of RgbTransfer for TLC. *)
EXTENDS RgbTransfer, TLC

CONSTANTS r1, r2

One == {r1}
Two == {r1, r2}

AnyCall   == BOOLEAN
AssetLess == {TRUE}
AgreedOnly == {FALSE}
AnyDonation == BOOLEAN
RecipientSymmetry == Permutations(Recipients)
=============================================================================
