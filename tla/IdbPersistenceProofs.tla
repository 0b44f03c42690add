----------------------- MODULE IdbPersistenceProofs -----------------------
(***************************************************************************)
(* Proofs about IdbPersistence, for any operations and any bounds.  The    *)
(* theorems on durability are about applications that do not replace a     *)
(* wallet object while its saves are in flight; they reload pages, change  *)
(* devices, back up and restore as they like, and requests fail.           *)
(***************************************************************************)
EXTENDS IdbPersistence, TLAPS

SavesAwaited == "recreate" \notin Features

(* Every variable keeps its type. *)
LEMMA TypeInit == Init => TypeOK
<1> SUFFICES ASSUME Init PROVE TypeOK
  OBVIOUS
<1>1. disk \in Snapshots
  BY DEF Init, Snapshots
<1>. QED
  BY <1>1 DEF Init, TypeOK

LEMMA TypeStep == TypeOK /\ [Next]_vars => TypeOK'
<1> SUFFICES ASSUME TypeOK, [Next]_vars PROVE TypeOK'
  OBVIOUS
<1> USE ConstantsAssumption DEF TypeOK, Snapshots, Saves
<1>1. ASSUME NEW kind \in {"auto", "flush"}, NEW state \in SUBSET Ops, SaveStarts(kind, state)
      PROVE  seq' \in Nat /\ saves' \subseteq Saves
  BY <1>1 DEF SaveStarts, NextSeq
<1>2. ASSUME NEW state \in SUBSET Ops, AutoSave(state)
      PROVE  seq' \in Nat /\ saves' \subseteq Saves /\ busy' \in BOOLEAN
  BY <1>1, <1>2 DEF AutoSave
<1>3. ASSUME NEW op \in Ops, Operate(op) PROVE TypeOK'
  <2>1. mem' \in SUBSET Ops /\ performed' \subseteq Ops
    BY <1>3 DEF Operate
  <2>2. AutoSave(mem') \/ UNCHANGED <<seq, busy, saves>>
    BY <1>3 DEF Operate
  <2>. QED
    BY <1>2, <1>3, <2>1, <2>2 DEF Operate
<1>4. CASE FlushStarts
  BY <1>1, <1>4 DEF FlushStarts
<1>5. ASSUME NEW save \in saves, Commit(save) PROVE TypeOK'
  BY <1>5 DEF Commit
<1>6. ASSUME NEW save \in saves, RequestFails(save) PROVE TypeOK'
  BY <1>6 DEF RequestFails
<1>7. ASSUME NEW save \in saves, Resume(save) PROVE TypeOK'
  BY <1>7 DEF Resume, BusyAfter, PromisedAfter
<1>8. CASE Reload
  BY <1>8 DEF Reload, RestoredFromDisk, RestoredSequence
<1>9. CASE Recreate
  BY <1>9 DEF Recreate, RestoredFromDisk, RestoredSequence, Orphans
<1>10. CASE NewWallet
  BY <1>10 DEF NewWallet
<1>11. CASE Backup
  BY <1>11 DEF Backup
<1>12. CASE RestoreBackup
  BY <1>2, <1>12 DEF RestoreBackup
<1>13. CASE UNCHANGED vars
  BY <1>13 DEF vars
<1>. QED
  BY <1>3, <1>4, <1>5, <1>6, <1>7, <1>8, <1>9, <1>10, <1>11, <1>12, <1>13 DEF Next

THEOREM TypeCorrect == Spec => []TypeOK
  BY TypeInit, TypeStep, PTL DEF Spec

-----------------------------------------------------------------------------
(* The sequence never falls behind, and what was promised stays in every   *)
(* snapshot that may still be written.                                     *)
LEMMA SnapshotInit == Init => SnapshotInv
  BY DEF Init, SnapshotInv, FlushIsDurable

(* A save that starts is the latest of all and holds what was promised.    *)
LEMMA StartedSave ==
    ASSUME TypeOK, SnapshotInv, mem' \subseteq Ops, NEW kind \in {"auto", "flush"},
           SaveStarts(kind, mem'), mem' \subseteq performed', performed \subseteq performed',
           promised' \subseteq promised, promised' \subseteq mem',
           \A f \in saves : f.kind = "flush" => f.state \subseteq mem',
           UNCHANGED <<disk, backup>>
    PROVE  SnapshotInv'
<1> USE ConstantsAssumption DEF TypeOK, Snapshots, Saves, SnapshotInv, FlushIsDurable
<1> DEFINE new == [kind |-> kind, seq |-> seq + 1, state |-> mem', step |-> "open"]
<1>1. saves' = saves \cup {new} /\ seq' = seq + 1
  BY DEF SaveStarts, NextSeq
<1>2. new.seq = seq + 1 /\ new.state = mem' /\ new.step = "open" /\ new.kind = kind
  OBVIOUS
<1>3. \A s \in saves : s.seq \in Nat /\ s.seq < new.seq
  BY <1>2
<1>4. disk.seq \in Nat /\ disk.seq < new.seq
  BY <1>2
<1> HIDE DEF new
<1>. QED
  BY <1>1, <1>2, <1>3, <1>4

LEMMA SnapshotStep ==
    ASSUME SavesAwaited, TypeOK, SnapshotInv, [Next]_vars
    PROVE  SnapshotInv'
<1> USE ConstantsAssumption DEF SavesAwaited, TypeOK, Snapshots, Saves, SnapshotInv, FlushIsDurable
<1>0. mem' \subseteq Ops
  BY TypeStep
<1>1. ASSUME NEW op \in Ops, Operate(op) PROVE SnapshotInv'
  <2>1. mem' = mem \cup {op} /\ performed' = performed \cup {op}
        /\ UNCHANGED <<disk, promised, backup>>
    BY <1>1 DEF Operate
  <2>2. CASE SaveStarts("auto", mem')
    BY <1>0, <2>1, <2>2, StartedSave
  <2>3. CASE UNCHANGED <<seq, saves>>
    BY <2>1, <2>3
  <2>. QED
    BY <1>1, <2>2, <2>3 DEF Operate, AutoSave
<1>2. CASE FlushStarts
  <2>1. SaveStarts("flush", mem') /\ UNCHANGED <<mem, performed, disk, promised, backup>>
    BY <1>2 DEF FlushStarts
  <2>. QED
    BY <1>0, <2>1, StartedSave
<1>3. ASSUME NEW save \in saves, Commit(save) PROVE SnapshotInv'
  <2> DEFINE done == [save EXCEPT !.step = "committed"]
  <2>1. saves' = (saves \ {save}) \cup {done} /\ UNCHANGED <<mem, performed, seq, promised, backup>>
    BY <1>3 DEF Commit
  <2>2. done.seq = save.seq /\ done.state = save.state /\ done.kind = save.kind
    OBVIOUS
  <2>3. save.seq \in Nat /\ disk.seq \in Nat /\ \A s \in saves : s.seq \in Nat
    OBVIOUS
  <2>4. CASE Stale(save)
    <3>1. disk' = disk /\ save.seq <= disk.seq
      BY <1>3, <2>3, <2>4 DEF Commit, Stale
    <3> HIDE DEF done
    <3>. QED
      BY <2>1, <2>2, <2>3, <3>1
  <2>5. CASE ~Stale(save)
    <3>1. disk'.seq = save.seq /\ disk'.state = save.state /\ disk.seq < save.seq
      BY <1>3, <2>3, <2>5 DEF Commit, Stale
    <3> HIDE DEF done
    <3>. QED
      BY <2>1, <2>2, <2>3, <3>1
  <2>. QED
    BY <2>4, <2>5
<1>4. ASSUME NEW save \in saves, RequestFails(save) PROVE SnapshotInv'
  <2> DEFINE failed == [save EXCEPT !.step = "failed"]
  <2>1. /\ saves' = (saves \ {save}) \cup {failed}
        /\ UNCHANGED <<mem, performed, seq, disk, promised, backup>>
    BY <1>4 DEF RequestFails
  <2>2. failed.seq = save.seq /\ failed.state = save.state /\ failed.step = "failed"
        /\ failed.kind = save.kind
    OBVIOUS
  <2> HIDE DEF failed
  <2>. QED
    BY <2>1, <2>2
<1>5. ASSUME NEW save \in saves, Resume(save) PROVE SnapshotInv'
  <2>1. saves' \subseteq saves /\ UNCHANGED <<mem, performed, seq, disk, backup>>
    BY <1>5 DEF Resume
  <2>2. promised' = promised \/ (save.kind = "flush" /\ save.step = "committed"
                                  /\ promised' = promised \cup save.state)
    BY <1>5 DEF Resume, PromisedAfter
  <2>3. save.kind = "flush" /\ save.step = "committed" =>
            /\ save.state \subseteq mem /\ save.state \subseteq disk.state
            /\ \A s \in saves : s.seq > disk.seq => save.state \subseteq s.state
    OBVIOUS
  <2>. QED
    BY <2>1, <2>2, <2>3
<1>6. CASE Reload
  BY <1>6 DEF Reload, RestoredFromDisk, RestoredSequence
<1>7. CASE Recreate
  BY <1>7 DEF Recreate, RestoredFromDisk, RestoredSequence, Orphans
<1>8. CASE NewWallet
  BY <1>8 DEF NewWallet
<1>9. CASE Backup
  BY <1>9 DEF Backup
<1>10. CASE RestoreBackup
  <2>1. mem' = backup /\ promised' = {} /\ UNCHANGED <<performed, disk, backup>>
    BY <1>10 DEF RestoreBackup
  <2>2. \A f \in saves : f.kind # "flush"
    BY <1>10 DEF RestoreBackup, NoFlushInFlight
  <2>3. CASE SaveStarts("auto", mem')
    BY <1>0, <2>1, <2>2, <2>3, StartedSave
  <2>4. CASE UNCHANGED <<seq, saves>>
    BY <2>1, <2>2, <2>4
  <2>. QED
    BY <1>10, <2>1, <2>3, <2>4 DEF RestoreBackup, AutoSave
<1>11. CASE UNCHANGED vars
  BY <1>11 DEF vars
<1>. QED
  BY <1>1, <1>2, <1>3, <1>4, <1>5, <1>6, <1>7, <1>8, <1>9, <1>10, <1>11 DEF Next

(* What a successful flush wrote is what a restart finds, as long as no    *)
(* object is replaced while its saves are in flight.                       *)
THEOREM FlushedIsDurable == ASSUME SavesAwaited PROVE Spec => []FlushIsDurable
<1>1. SnapshotInv => FlushIsDurable
  BY DEF SnapshotInv
<1>2. TypeOK /\ SnapshotInv /\ [Next]_vars => SnapshotInv'
  BY SnapshotStep
<1>. QED
  BY <1>1, <1>2, SnapshotInit, TypeCorrect, PTL DEF Spec

-----------------------------------------------------------------------------
(* The snapshots that may still become durable.                            *)
Handed(save) == [at |-> save.seq, state |-> save.state]
Pending == {Handed(save) : save \in {s \in saves : s.step = "open" /\ s.seq > disk.seq}}

(* A save that starts hands over the latest state of all.                  *)
LEMMA StartHandsOver ==
    ASSUME TypeOK, SnapshotInv, NEW kind, SaveStarts(kind, mem'), UNCHANGED disk
    PROVE  \E latest \in Pending' :
              /\ latest.state = mem' /\ Pending' = Pending \cup {latest}
              /\ \A earlier \in Pending : earlier.at < latest.at
<1> DEFINE new == [kind |-> kind, seq |-> seq + 1, state |-> mem', step |-> "open"]
<1>1. saves' = saves \cup {new}
  BY DEF SaveStarts, NextSeq
<1>2. new.seq = seq + 1 /\ new.state = mem' /\ new.step = "open"
  OBVIOUS
<1>3. new.seq > disk.seq /\ \A s \in saves : s.seq < new.seq
  BY <1>2 DEF SnapshotInv, TypeOK, Snapshots, Saves
<1> HIDE DEF new
<1>4. Pending' = Pending \cup {Handed(new)}
  BY <1>1, <1>2, <1>3 DEF Pending, Handed
<1>5. Handed(new).state = mem' /\ \A earlier \in Pending : earlier.at < Handed(new).at
  BY <1>2, <1>3 DEF Pending, Handed
<1>. QED
  BY <1>4, <1>5

LEMMA StoreStep ==
    ASSUME SavesAwaited, TypeOK, SnapshotInv, [Next]_vars
    PROVE  [Store!Next]_(Store!vars)
<1> DEFINE handOver == \/ UNCHANGED Pending
                       \/ \E latest \in Pending' :
                             /\ latest.state = mem' /\ Pending' = Pending \cup {latest}
                             /\ \A earlier \in Pending : earlier.at < latest.at
<1> USE DEF Store!Next, Store!vars, Pending, Handed
<1>1. ASSUME NEW op \in Ops, Operate(op) PROVE Store!Perform
  <2>1. op \notin mem /\ mem' = mem \cup {op} /\ UNCHANGED <<disk, backup>>
    BY <1>1 DEF Operate, SnapshotInv
  <2>2. handOver
    <3>1. CASE SaveStarts("auto", mem')
      BY <2>1, <3>1, StartHandsOver
    <3>2. CASE UNCHANGED <<seq, saves>>
      BY <2>1, <3>2
    <3>. QED
      BY <1>1, <3>1, <3>2 DEF Operate, AutoSave
  <2>. QED
    BY <2>1, <2>2 DEF Store!Perform, Store!HandOver
<1>2. CASE FlushStarts
  <2>1. UNCHANGED <<mem, disk, backup>> /\ SaveStarts("flush", mem')
    BY <1>2 DEF FlushStarts
  <2>2. handOver
    BY <2>1, StartHandsOver
  <2>. QED
    BY <2>1, <2>2 DEF Store!Write, Store!HandOver
<1>3. ASSUME NEW save \in saves, Commit(save) PROVE Store!Commit \/ UNCHANGED Store!vars
  <2> DEFINE done == [save EXCEPT !.step = "committed"]
  <2>1. saves' = (saves \ {save}) \cup {done} /\ UNCHANGED <<mem, backup>> /\ save.step = "open"
    BY <1>3 DEF Commit
  <2>2. done.step = "committed"
    BY DEF TypeOK, Saves
  <2>3. save.seq \in Nat /\ disk.seq \in Nat /\ \A s \in saves : s.seq \in Nat
    BY DEF TypeOK, Saves, Snapshots
  <2> HIDE DEF done
  <2>4. CASE Stale(save)
    <3>1. UNCHANGED disk /\ ~(save.seq > disk.seq)
      BY <1>3, <2>3, <2>4 DEF Commit, Stale
    <3>. QED
      BY <2>1, <2>2, <3>1
  <2>5. CASE ~Stale(save)
    <3>1. disk'.seq = save.seq /\ disk'.state = save.state /\ save.seq > disk.seq
      BY <1>3, <2>3, <2>5 DEF Commit, Stale
    <3>2. Handed(save) \in Pending
      BY <2>1, <3>1
    <3>3. Pending' = {Handed(s) : s \in {s \in saves : s.step = "open" /\ s.seq > save.seq}}
      BY <2>1, <2>2, <2>3, <3>1
    <3>4. Pending' = {later \in Pending : later.at > Handed(save).at}
      BY <2>3, <3>1, <3>3
    <3>. QED
      BY <2>1, <3>1, <3>2, <3>4 DEF Store!Commit
  <2>. QED
    BY <2>4, <2>5
<1>4. ASSUME NEW save \in saves, RequestFails(save) \/ Resume(save)
      PROVE  Store!Lose
  <2>1. UNCHANGED <<mem, disk, backup>>
    BY <1>4 DEF RequestFails, Resume
  <2>2. \A s \in saves' : s.step = "open" => s \in saves
    BY <1>4 DEF RequestFails, Resume, TypeOK, Saves
  <2>. QED
    BY <2>1, <2>2 DEF Store!Lose
<1>5. CASE Reload \/ Recreate
  <2>1. saves' = {} /\ mem' = disk.state /\ UNCHANGED <<disk, backup>>
    BY <1>5 DEF Reload, Recreate, RestoredFromDisk, Orphans, SavesAwaited
  <2>. QED
    BY <2>1 DEF Store!Restart
<1>6. CASE NewWallet
  <2>1. saves' = {} /\ mem' = {} /\ disk'.state = {} /\ UNCHANGED backup
    BY <1>6 DEF NewWallet
  <2>. QED
    BY <2>1 DEF Store!ChangeDevice
<1>7. CASE Backup
  BY <1>7 DEF Backup, Store!BackUp
<1>8. CASE RestoreBackup
  <2>1. mem' = backup /\ UNCHANGED <<disk, backup>>
    BY <1>8 DEF RestoreBackup
  <2>2. handOver
    <3>1. CASE SaveStarts("auto", mem')
      BY <2>1, <3>1, StartHandsOver
    <3>2. CASE UNCHANGED <<seq, saves>>
      BY <2>1, <3>2
    <3>. QED
      BY <1>8, <2>1, <3>1, <3>2 DEF RestoreBackup, AutoSave
  <2>. QED
    BY <2>1, <2>2 DEF Store!Restore, Store!HandOver
<1>9. CASE UNCHANGED vars
  BY <1>9 DEF vars
<1>. QED
  BY <1>1, <1>2, <1>3, <1>4, <1>5, <1>6, <1>7, <1>8, <1>9 DEF Next

(* The persistence is a write-back store.                                  *)
THEOREM PersistenceIsWriteBack == ASSUME SavesAwaited PROVE Spec => ImplementsWriteBackStore
<1>1. Init => Store!Init
  BY DEF Init, Store!Init
<1>2. TypeOK /\ SnapshotInv /\ [Next]_vars => SnapshotInv'
  BY SnapshotStep
<1>3. TypeOK /\ SnapshotInv /\ [Next]_vars => [Store!Next]_(Store!vars)
  BY StoreStep
<1>. QED
  BY <1>1, <1>2, <1>3, SnapshotInit, TypeCorrect, PTL DEF Spec, ImplementsWriteBackStore, Store!Spec
=============================================================================
