--------------------------- MODULE WriteBackStore ---------------------------
(***************************************************************************)
(* What the persistence of a wallet promises.  States of the wallet are    *)
(* handed over in order and become durable later, some of them never, but  *)
(* never one older than what is durable already; a restart goes back to    *)
(* exactly the durable state.  The wallet can be backed up, restored from  *)
(* its backup, and moved to a device that holds nothing.  A state is the   *)
(* set of operations it contains.  IdbPersistence implements this.         *)
(***************************************************************************)
EXTENDS Naturals

CONSTANT Ops

VARIABLES mem,      \* the operations in the wallet's memory
          pending,  \* what may still become durable: a state and its place in the order
          durable,  \* the operations a restart would find
          backup    \* the operations in the last backup

vars == <<mem, pending, durable, backup>>

Init == mem = {} /\ pending = {} /\ durable = {} /\ backup = {}

(* The wallet's state is handed over as the latest of all, or is not.      *)
HandOver ==
    \/ UNCHANGED pending
    \/ \E latest \in pending' :
          /\ latest.state = mem' /\ pending' = pending \cup {latest}
          /\ \A earlier \in pending : earlier.at < latest.at

Perform == \E op \in Ops \ mem :
               mem' = mem \cup {op} /\ HandOver /\ UNCHANGED <<durable, backup>>

Write == HandOver /\ UNCHANGED <<mem, durable, backup>>

(* What was handed over before it can no longer become durable.            *)
Commit == \E save \in pending :
              /\ durable' = save.state
              /\ pending' = {later \in pending : later.at > save.at}
              /\ UNCHANGED <<mem, backup>>

Lose == pending' \subseteq pending /\ UNCHANGED <<mem, durable, backup>>

Restart == mem' = durable /\ pending' = {} /\ UNCHANGED <<durable, backup>>

BackUp == backup' = mem /\ UNCHANGED <<mem, pending, durable>>

Restore == mem' = backup /\ HandOver /\ UNCHANGED <<durable, backup>>

ChangeDevice == mem' = {} /\ pending' = {} /\ durable' = {} /\ UNCHANGED backup

Next == Perform \/ Write \/ Commit \/ Lose \/ Restart \/ BackUp \/ Restore \/ ChangeDevice

Spec == Init /\ [][Next]_vars
=============================================================================
