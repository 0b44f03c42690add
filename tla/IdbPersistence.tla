--------------------------- MODULE IdbPersistence ---------------------------
(***************************************************************************)
(* How one wallet reaches IndexedDB: automatic saves started after an      *)
(* operation and left running, explicit flushes the caller awaits, the     *)
(* sequence number that rejects stale writes, and what a wallet is created *)
(* from.  The state of the wallet is abstracted to the set of operations   *)
(* it contains; an operation is performed once.                            *)
(*                                                                         *)
(* A save takes its snapshot synchronously, then opens the database and    *)
(* runs one read-write transaction; IndexedDB orders the transactions of   *)
(* saves in flight as it likes.  Operations, flushes and the creation of   *)
(* another wallet object interleave with them.                             *)
(***************************************************************************)
EXTENDS Integers, FiniteSets

CONSTANTS Ops,        \* operations that change the wallet
          AutoSaved,  \* those that end in trigger_auto_backup
          Exclusive,  \* those that borrow the wallet mutably (&mut self)
          MaxSeq,     \* bound on the sequence numbers handed out
          MaxSaves,   \* bound on the saves in flight
          Features    \* what applications do, a subset of AllFeatures

(* "reload"   the page is reloaded, in-flight transactions are aborted     *)
(* "reopen"   the wallet object is dropped and restored in the same page   *)
(*            when no save is in flight                                    *)
(* "recreate" the same at any moment                                       *)
(* "new"      the wallet is made by Wallet::new where IndexedDB is empty   *)
(* "backup"   backup and restore_backup (or its VSS variant)               *)
(* "iofail"   an IndexedDB request fails                                   *)
AllFeatures == {"reload", "reopen", "recreate", "new", "backup", "iofail"}

ASSUME ConstantsAssumption ==
    /\ AutoSaved \subseteq Ops /\ Exclusive \subseteq Ops
    /\ MaxSeq \in Nat /\ MaxSaves \in Nat /\ Features \subseteq AllFeatures

VARIABLES
    mem,        \* operations the wallet object in use contains
    performed,  \* operations performed so far, lost or not
    seq,        \* idb_sequence
    busy,       \* idb_save_in_progress
    saves,      \* saves in flight
    disk,       \* the snapshot under the wallet's key; sequence 0: none
    backup,     \* the contents of the last backup file
    promised    \* operations that successful flushes have declared durable

vars == <<mem, performed, seq, busy, saves, disk, backup, promised>>

Snapshots == [seq : Nat, state : SUBSET Ops]
(* "auto" saves belong to the wallet object in use; "orphan" ones were     *)
(* started by an object that has been dropped since.                       *)
Saves == [kind : {"auto", "flush", "orphan"}, seq : Nat, state : SUBSET Ops,
          step : {"open", "committed", "failed"}]

TypeOK ==
    /\ mem \subseteq Ops /\ performed \subseteq Ops
    /\ seq \in Nat /\ busy \in BOOLEAN
    /\ saves \subseteq Saves /\ disk \in Snapshots
    /\ backup \subseteq Ops /\ promised \subseteq Ops

Init ==
    /\ mem = {} /\ performed = {} /\ seq = 0 /\ busy = FALSE /\ saves = {}
    /\ disk = [seq |-> 0, state |-> {}]
    /\ backup = {} /\ promised = {}

-----------------------------------------------------------------------------
(* Saving.                                                                 *)

(* snapshot: takes the next sequence number.                               *)
NextSeq == seq + 1

SaveStarts(kind, state) ==
    /\ seq < MaxSeq /\ Cardinality(saves) < MaxSaves
    /\ seq' = NextSeq
    /\ saves' = saves \cup {[kind |-> kind, seq |-> NextSeq, state |-> state, step |-> "open"]}

(* save_to_idb: skipped while an automatic save is in progress, and not    *)
(* made up for when that one ends.                                         *)
AutoSave(state) ==
    \/ busy /\ UNCHANGED <<seq, busy, saves>>
    \/ ~busy /\ busy' = TRUE /\ SaveStarts("auto", state)

NoFlushInFlight == \A save \in saves : save.kind # "flush"

(* An operation that changes the wallet, with or without automatic save.   *)
(* A flush in flight borrows the wallet.                                   *)
Operate(op) ==
    /\ op \in Ops \ performed
    /\ op \in Exclusive => NoFlushInFlight
    /\ mem' = mem \cup {op} /\ performed' = performed \cup {op}
    /\ IF op \in AutoSaved THEN AutoSave(mem') ELSE UNCHANGED <<seq, busy, saves>>
    /\ UNCHANGED <<disk, backup, promised>>

FlushStarts ==
    /\ SaveStarts("flush", mem)
    /\ UNCHANGED <<mem, performed, busy, disk, backup, promised>>

NeverStale(save) == FALSE
(* A snapshot that is not newer than the one on disk is not written, and   *)
(* save_snapshot reports success all the same.                             *)
Stale(save) == disk.seq >= save.seq

(* The read-write transaction of a save commits.                           *)
Commit(save) ==
    /\ save.step = "open"
    /\ disk' = IF Stale(save) THEN disk ELSE [seq |-> save.seq, state |-> save.state]
    /\ saves' = (saves \ {save}) \cup {[save EXCEPT !.step = "committed"]}
    /\ UNCHANGED <<mem, performed, seq, busy, backup, promised>>

RequestFails(save) ==
    /\ "iofail" \in Features
    /\ save.step = "open"
    /\ saves' = (saves \ {save}) \cup {[save EXCEPT !.step = "failed"]}
    /\ UNCHANGED <<mem, performed, seq, busy, disk, backup, promised>>

ClearOnlyOnSuccess(save) == busy /\ save.step = "failed"
(* The flag as the task of an automatic save leaves it.                    *)
BusyAfter(save) == FALSE

(* What the caller of a flush may rely on when it returns.                 *)
PromisedAfter(save) ==
    IF save.step = "committed" THEN promised \cup save.state ELSE promised

(* The task or the caller that waited for the transaction goes on.  The    *)
(* flag of a dropped object is nobody's any more.                          *)
Resume(save) ==
    /\ save.step # "open"
    /\ saves' = saves \ {save}
    /\ busy' = IF save.kind = "auto" THEN BusyAfter(save) ELSE busy
    /\ promised' = IF save.kind = "flush" THEN PromisedAfter(save) ELSE promised
    /\ UNCHANGED <<mem, performed, seq, disk, backup>>

-----------------------------------------------------------------------------
(* Wallet objects.                                                         *)

RestartedSequence == 0
SequenceBeforeDisk == disk.seq - 1
(* restore_from_snapshot adopts the sequence of the snapshot.              *)
RestoredSequence == disk.seq

(* Wallet::restore in a new object, whose flag and counter start afresh.   *)
RestoredFromDisk ==
    /\ mem' = disk.state /\ seq' = RestoredSequence /\ busy' = FALSE
    /\ UNCHANGED <<performed, disk, backup, promised>>

Reload ==
    /\ "reload" \in Features
    /\ saves' = {}
    /\ RestoredFromDisk

(* The tasks of automatic saves outlive the object that started them; a    *)
(* flush borrows the object, which cannot be dropped before it returns.    *)
Orphans == {[save EXCEPT !.kind = "orphan"] : save \in saves}

Recreate ==
    /\ "recreate" \in Features \/ ("reopen" \in Features /\ saves = {})
    /\ NoFlushInFlight
    /\ saves' = Orphans
    /\ RestoredFromDisk

(* Wallet::new on a device without the wallet's IndexedDB: empty, from     *)
(* sequence 0.  Only backup files come along.                              *)
NewWallet ==
    /\ "new" \in Features
    /\ mem' = {} /\ seq' = 0 /\ busy' = FALSE /\ saves' = {}
    /\ disk' = [seq |-> 0, state |-> {}] /\ promised' = {}
    /\ UNCHANGED <<performed, backup>>

Backup ==
    /\ "backup" \in Features
    /\ backup # mem
    /\ backup' = mem
    /\ UNCHANGED <<mem, performed, seq, busy, saves, disk, promised>>

(* restore_backup: the sequence of the payload is 0, which keeps the       *)
(* counter; then an automatic save.                                        *)
RestoreBackup ==
    /\ "backup" \in Features
    /\ NoFlushInFlight
    /\ mem' = backup /\ promised' = {}
    /\ AutoSave(backup)
    /\ UNCHANGED <<performed, disk, backup>>

-----------------------------------------------------------------------------
Next ==
    \/ \E op \in Ops : Operate(op)
    \/ FlushStarts
    \/ \E save \in saves : Commit(save) \/ RequestFails(save) \/ Resume(save)
    \/ Reload \/ Recreate \/ NewWallet \/ Backup \/ RestoreBackup

Spec == Init /\ [][Next]_vars

(* IndexedDB answers every request, and the browser runs what waits for it *)
Fairness ==
    /\ WF_vars(\E save \in saves : Commit(save) \/ RequestFails(save))
    /\ WF_vars(\E save \in saves : Resume(save))

FairSpec == Spec /\ Fairness

-----------------------------------------------------------------------------
(* Properties.                                                             *)

(* What successful flushes wrote is what a restart finds, also when older  *)
(* automatic saves commit after them and when backups were restored before *)
(* them: "resolves only after the IndexedDB read-write transaction         *)
(* commits" (flush).  Until the wallet is replaced by a backup or moves to *)
(* another device.                                                         *)
FlushIsDurable == promised \subseteq disk.state

(* No outcome of a save leaves automatic saves disabled for good.          *)
AutoSaveComesBack == busy ~> ~busy

(* Unless a wallet object is replaced while its saves are in flight, the   *)
(* persistence is a write-back store.                                      *)
Store == INSTANCE WriteBackStore WITH
    pending <- {[at |-> save.seq, state |-> save.state] :
                    save \in {s \in saves : s.step = "open" /\ s.seq > disk.seq}},
    durable <- disk.state
ImplementsWriteBackStore == Store!Spec

(* In that case the sequence never falls behind, what was promised is in   *)
(* every snapshot that may still be written, and a flush in flight is in   *)
(* every snapshot that may replace it.                                     *)
SnapshotInv ==
    /\ mem \subseteq performed /\ backup \subseteq performed /\ disk.state \subseteq performed
    /\ disk.seq <= seq /\ promised \subseteq mem /\ FlushIsDurable
    /\ \A s \in saves :
          /\ s.seq <= seq /\ s.state \subseteq performed
          /\ s.seq > disk.seq => promised \subseteq s.state
          /\ s.step = "committed" => s.seq <= disk.seq
    /\ \A f \in saves : f.kind = "flush" =>
          /\ f.state \subseteq mem
          /\ f.seq <= disk.seq => f.state \subseteq disk.state
          /\ \A s \in saves : s.seq >= f.seq => f.state \subseteq s.state
=============================================================================
