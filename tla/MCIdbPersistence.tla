-------------------------- MODULE MCIdbPersistence --------------------------
(* Instances of IdbPersistence for TLC. *)
EXTENDS IdbPersistence

CONSTANTS issue, refresh, receive

ThreeOps == {issue, refresh, receive}
Triggering == {issue, receive}
Mutable == {refresh}
=============================================================================
