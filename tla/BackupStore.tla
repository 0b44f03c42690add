---------------------------- MODULE BackupStore ----------------------------
(***************************************************************************)
(* What cloud backup with optimistic locking promises: the store holds one *)
(* whole backup, and an upload replaces exactly the one that was there     *)
(* when it looked, however many devices upload at once.  VssBackup         *)
(* implements this specification with four objects read one by one.        *)
(***************************************************************************)
EXTENDS Naturals

CONSTANT Uploads

Nothing == 0   \* no upload: numbers of uploads are positive

VARIABLES held,     \* the upload the store holds, or Nothing
          version,  \* how many uploads have replaced one another
          base      \* the version an upload saw; absent: not looked yet, or ended

vars == <<held, version, base>>

Init == held = Nothing /\ version = 0 /\ base = [n \in {} |-> 0]

Look(n) == /\ n \notin DOMAIN base
           /\ base' = [m \in DOMAIN base \cup {n} |-> IF m = n THEN version ELSE base[m]]
           /\ UNCHANGED <<held, version>>

Without(calls) == [m \in DOMAIN base \ calls |-> base[m]]

Replace(n) == /\ n \in DOMAIN base /\ base[n] = version
              /\ held' = n /\ version' = version + 1
              /\ base' = Without({n})

GiveUp(calls) == base' = Without(calls) /\ UNCHANGED <<held, version>>

Next == \/ \E n \in Uploads : Look(n) \/ Replace(n)
        \/ \E calls \in SUBSET Uploads : GiveUp(calls)

Spec == Init /\ [][Next]_vars
=============================================================================
