------------------------- MODULE WalletLedgerProofs -------------------------
(***************************************************************************)
(* Proofs about WalletLedger, for any UTXOs, transfers, assets and amounts *)
(* and any max_allocations_per_utxo: which UTXOs and allocations a send    *)
(* may take.  What the balances are the sums of is in module               *)
(* WalletBalanceProofs.                                                    *)
(***************************************************************************)
EXTENDS WalletLedger, FiniteSetTheorems, TLAPS

(* The allocation that a coloring is about.                                *)
AllocOf(c) == [txo |-> c.txo, source |-> c.source, amount |-> c.amount]

-----------------------------------------------------------------------------
(* The operators of the model.                                             *)

LEMMA OwnTxos == Sends \cup Witness \subseteq Txos /\ Sends \cup Witness \subseteq Transfers
BY DEF Txos, Transfers, Receives

LEMMA ColorFacts ==
  ASSUME NEW allocs \in SUBSET Allocations, NEW t \in Transfers, NEW type \in Types
  PROVE  /\ Color(allocs, t, type) \subseteq Colorings
         /\ \A c \in Color(allocs, t, type) : c.by = t /\ c.type = type /\ AllocOf(c) \in allocs
         /\ \A k \in allocs : \E c \in Color(allocs, t, type) : AllocOf(c) = k
<1>1. \A k \in allocs :
         /\ k = [txo |-> k.txo, source |-> k.source, amount |-> k.amount]
         /\ k.txo \in Txos /\ k.source \in Transfers /\ k.amount \in Nat
  BY DEF Allocations
<1> DEFINE C(k) == [txo |-> k.txo, source |-> k.source, amount |-> k.amount, by |-> t, type |-> type]
<1>2. \A k \in allocs : C(k) \in Colorings /\ C(k).by = t /\ C(k).type = type
  BY <1>1 DEF Colorings
<1>3. \A k \in allocs : AllocOf(C(k)) = k
  BY <1>1 DEF AllocOf
<1>4. Color(allocs, t, type) = {C(k) : k \in allocs}
  BY DEF Color
<1>. QED
  BY <1>2, <1>3, <1>4

LEMMA AllocOfType == ASSUME NEW c \in Colorings PROVE AllocOf(c) \in Allocations /\ AllocOf(c).txo = c.txo
BY DEF AllocOf, Colorings, Allocations

(* Whatever get_utxo returns has been synced and is neither spent nor      *)
(* taken by a send that waits for its counterparty.                        *)
LEMMA GetUtxoFacts ==
  ASSUME NEW exclude, NEW pendingOperation, NEW u \in GetUtxo(exclude, pendingOperation)
  PROVE  /\ u \in Txos \ exclude /\ txos[u].known /\ ~txos[u].spent /\ txos[u].exists
         /\ ~txos[u].pendingWitness /\ ~TakenByWaitingSend(u)
<1> DEFINE allocatable == AvailableAllocations(Unspent, exclude, MaxAllocations - 1)
           preferred == {v \in allocatable : pendingOperation = \E c \in InUse(v) : IsFuture(c)}
<1>1. PICK v \in LeastLoaded(allocatable) :
         u \in IF InUse(v) = {} \/ Cardinality(allocatable) = 1 \/ preferred = {}
               THEN {v} ELSE LeastLoaded(preferred)
  BY DEF GetUtxo
<1>2. u \in allocatable
  BY <1>1 DEF LeastLoaded
<1>. QED
  BY <1>2 DEF AvailableAllocations, Unspent

LEMMA AssignedFacts ==
  ASSUME NEW inputs \in SUBSET Txos, TypeOK
  PROVE  /\ Assigned(inputs) \subseteq Allocations
         /\ \A k \in Assigned(inputs) : k.txo \in inputs
         /\ \A c \in colorings : /\ c.txo \in inputs /\ Incoming(c) /\ status[c.by] = "Settled"
                                 => AllocOf(c) \in Assigned(inputs)
<1>1. \A c \in colorings : AllocOf(c) \in Allocations /\ AllocOf(c).txo = c.txo
  BY AllocOfType DEF TypeOK
<1>2. Assigned(inputs) = {AllocOf(c) : c \in {c \in colorings : c.txo \in inputs /\ Incoming(c)
                                                                  /\ status[c.by] = "Settled"}}
  BY DEF Assigned, AllocOf
<1>. QED
  BY <1>1, <1>2

LEMMA SelectFacts ==
  ASSUME NEW asset, NEW need, NEW rgb \in SelectRgbInputs(asset, need)
  PROVE  /\ rgb \subseteq Txos
         /\ \A u \in rgb : u \in InputUnspents /\ SpendableOn(u, asset) # {}
BY DEF SelectRgbInputs, Reaching, InputUnspents, Unspent

(* Allocations that move, and change, stand on the UTXO given for them.    *)
LEMMA MovedFacts ==
  ASSUME NEW extra \in SUBSET Allocations, NEW to \in Txos
  PROVE  Moved(extra, to) \subseteq Allocations /\ \A k \in Moved(extra, to) : k.txo = to
<1>1. \A k \in extra : [k EXCEPT !.txo = to] \in Allocations /\ [k EXCEPT !.txo = to].txo = to
  BY DEF Allocations
<1>. QED
  BY <1>1 DEF Moved

LEMMA ChangeFacts ==
  ASSUME NEW s \in Transfers, NEW to \in Txos, NEW amount \in Nat
  PROVE  Change(s, to, amount) \subseteq Allocations /\ \A k \in Change(s, to, amount) : k.txo = to
<1>1. [txo |-> to, source |-> s, amount |-> amount] \in Allocations
  BY DEF Allocations
<1>. QED
  BY <1>1 DEF Change

LEMMA ChangeSealFacts ==
  ASSUME NEW s, NEW ownOutput, NEW inputs, NEW to \in ChangeSeal(s, ownOutput, inputs)
  PROVE  (to = s /\ ownOutput) \/ to \in GetUtxo(inputs, TRUE)
<1>1. CASE ownOutput
  BY <1>1, Zenon DEF ChangeSeal
<1>2. CASE ~ownOutput
  BY <1>2, Zenon DEF ChangeSeal
<1>. QED
  BY <1>1, <1>2

(* What send_begin prepares: a plan p over the selected UTXOs rgb and the  *)
(* inputs fee, whose change and moved allocations go to one UTXO, to.      *)
Prepares(s, p, rgb, fee, to) ==
  /\ plan' = [plan EXCEPT ![s] = p] /\ p \in Plans
  /\ p.inputs = rgb \cup fee /\ p.takes = Assigned(rgb)
  /\ \A u \in rgb : u \in InputUnspents /\ \E asset \in Assets : SpendableOn(u, asset) # {}
  /\ ~FeeInputs => fee = {}
  /\ to \in GetUtxo(rgb \cup fee, TRUE) \/ (to = s /\ (p.ownOutput \/ p.brings = {}))
  /\ \A k \in p.brings : k.txo = to
  /\ \E extra \in SUBSET Assigned(rgb), amount \in Nat :
        p.brings = Change(s, to, amount) \cup Moved(extra, to)

LEMMA SendBeginFacts ==
  ASSUME TypeOK, NEW s \in Sends, SendBegin(s)
  PROVE  \E p \in Plans, rgb \in SUBSET Txos, fee \in SUBSET Txos, to \in Txos : Prepares(s, p, rgb, fee, to)
<1>1. s \in Txos /\ s \in Transfers /\ IsFiniteSet(Transfers)
  <2>1. Transfers = Issues \cup Blind \cup Witness \cup Sends
    BY DEF Transfers, Receives
  <2>2. IsFiniteSet(Witness) /\ IsFiniteSet(Sends) /\ IsFiniteSet(Issues) /\ IsFiniteSet(Blind)
    BY ConstantsAssumption, FS_Subset DEF Txos
  <2>. QED
    BY <2>1, <2>2, FS_Union, OwnTxos
<1>2. MaxAmount * Cardinality(Transfers) \in Nat
  <2>1. Cardinality(Transfers) \in Nat
    BY <1>1, FS_CardinalityType
  <2>. QED
    BY <2>1, ConstantsAssumption
<1> DEFINE Result(rgb, fee, used, amount, to, ownOutput, donation) ==
             [inputs |-> rgb \cup fee, takes |-> Assigned(rgb),
              brings |-> Change(s, to, amount) \cup Moved(Assigned(rgb) \ used, to),
              ownOutput |-> ownOutput, donation |-> donation]
           Targets(rgb, fee, used, amount, ownOutput) ==
             IF amount = 0 /\ Assigned(rgb) \ used = {}
             THEN {s} ELSE ChangeSeal(s, ownOutput, rgb \cup fee)
           Chosen(need, ownOutput, donation, rgb, fee) ==
             \E used \in Spent(Assigned(rgb), AssetOf[s], need) :
             \E amount \in 0..MaxAmount * Cardinality(Transfers) :
             \E to \in Targets(rgb, fee, used, amount, ownOutput) :
               /\ Total(used) = need + amount
               /\ plan' = [plan EXCEPT ![s] = Result(rgb, fee, used, amount, to, ownOutput, donation)]
<1>3. PICK need \in 1..MaxAmount, ownOutput \in BOOLEAN, donation \in BOOLEAN :
        \E rgb \in SelectRgbInputs(AssetOf[s], need) : \E fee \in FeeInput(rgb) :
           Chosen(need, ownOutput, donation, rgb, fee)
  BY Zenon DEF SendBegin
<1>4. PICK rgb \in SelectRgbInputs(AssetOf[s], need) :
        \E fee \in FeeInput(rgb) : Chosen(need, ownOutput, donation, rgb, fee)
  BY <1>3, Zenon
<1>5. PICK fee \in FeeInput(rgb) : Chosen(need, ownOutput, donation, rgb, fee)
  BY <1>4, Zenon
<1>6. PICK used \in Spent(Assigned(rgb), AssetOf[s], need),
           amount \in 0..MaxAmount * Cardinality(Transfers) :
        \E to \in Targets(rgb, fee, used, amount, ownOutput) :
          /\ Total(used) = need + amount
          /\ plan' = [plan EXCEPT ![s] = Result(rgb, fee, used, amount, to, ownOutput, donation)]
  BY <1>5, Zenon
<1>7. PICK to \in Targets(rgb, fee, used, amount, ownOutput) :
        plan' = [plan EXCEPT ![s] = Result(rgb, fee, used, amount, to, ownOutput, donation)]
  BY <1>6, Zenon
<1> DEFINE p == Result(rgb, fee, used, amount, to, ownOutput, donation)
<1>8. rgb \subseteq Txos /\ \A u \in rgb : u \in InputUnspents /\ SpendableOn(u, AssetOf[s]) # {}
  BY SelectFacts
<1>9. fee \subseteq Txos /\ (~FeeInputs => fee = {})
  BY DEF FeeInput, AvailableAllocations, InputUnspents, Unspent
<1>10. to \in GetUtxo(rgb \cup fee, TRUE) \/ (to = s /\ (p.ownOutput \/ p.brings = {}))
  <2>1. CASE amount = 0 /\ Assigned(rgb) \ used = {}
    <3>1. Change(s, to, amount) = {} /\ Moved(Assigned(rgb) \ used, to) = {}
      BY <2>1 DEF Change, Moved
    <3>. QED
      BY <2>1, <3>1
  <2>2. CASE ~ (amount = 0 /\ Assigned(rgb) \ used = {})
    <3>1. to \in ChangeSeal(s, ownOutput, rgb \cup fee)
      BY <2>2
    <3>2. ownOutput => p.ownOutput
      OBVIOUS
    <3>3. (to = s /\ ownOutput) \/ to \in GetUtxo(rgb \cup fee, TRUE)
      BY <3>1, ChangeSealFacts
    <3> HIDE DEF p
    <3>. QED
      BY <3>2, <3>3, Zenon
  <2>. QED
    BY <2>1, <2>2
<1>11. to \in Txos
  BY <1>1, <1>10, GetUtxoFacts
<1>12. Assigned(rgb) \subseteq Allocations
  BY <1>8, AssignedFacts
<1>13. amount \in Nat
  BY <1>2
<1>14. p.brings \subseteq Allocations /\ \A k \in p.brings : k.txo = to
  <2>1. Moved(Assigned(rgb) \ used, to) \subseteq Allocations
        /\ \A k \in Moved(Assigned(rgb) \ used, to) : k.txo = to
    BY <1>11, <1>12, MovedFacts
  <2>2. Change(s, to, amount) \subseteq Allocations /\ \A k \in Change(s, to, amount) : k.txo = to
    BY <1>1, <1>11, <1>13, ChangeFacts
  <2>. QED
    BY <2>1, <2>2
<1>15. p \in Plans
  BY <1>8, <1>9, <1>12, <1>14 DEF Plans
<1>16. AssetOf[s] \in Assets
  BY <1>1 DEF Assets
<1>17. Prepares(s, p, rgb, fee, to)
  <2>1. Assigned(rgb) \ used \in SUBSET Assigned(rgb)
    OBVIOUS
  <2>2. \E extra \in SUBSET Assigned(rgb), n \in Nat :
          p.brings = Change(s, to, n) \cup Moved(extra, to)
    BY <1>13, <2>1
  <2>. QED
    BY <1>7, <1>8, <1>9, <1>10, <1>14, <1>15, <1>16, <2>2 DEF Prepares
<1>. QED
  BY <1>8, <1>9, <1>11, <1>15, <1>17

-----------------------------------------------------------------------------
(* Types.                                                                  *)

LEMMA RowType == \A exists, pendingWitness \in BOOLEAN : Row(exists, pendingWitness) \in Rows
BY DEF Row, Rows

LEMMA RowUpdates ==
  ASSUME NEW row \in Rows
  PROVE  /\ [row EXCEPT !.exists = TRUE] \in Rows /\ [row EXCEPT !.spent = TRUE] \in Rows
         /\ [row EXCEPT !.pendingWitness = FALSE] \in Rows
BY DEF Rows

LEMMA SyncedType ==
  ASSUME NEW rows \in [Txos -> Rows], NEW seen
  PROVE  Synced(rows, seen) \in [Txos -> Rows]
<1>1. \A u \in Txos : SetTxo(rows, u) \in Rows
  <2> SUFFICES ASSUME NEW u \in Txos PROVE SetTxo(rows, u) \in Rows
    OBVIOUS
  <2>1. Row(TRUE, u \in scripts) \in Rows
    BY DEF Row, Rows
  <2>. QED
    BY <2>1, RowUpdates DEF SetTxo
<1>. QED
  BY <1>1 DEF Synced

LEMMA SpendInputsType ==
  ASSUME NEW rows \in [Txos -> Rows], NEW s \in Sends
  PROVE  SpendInputs(rows, s) \in [Txos -> Rows]
BY RowUpdates DEF SpendInputs

LEMMA OwnRowType ==
  ASSUME NEW rows \in [Txos -> Rows], NEW s \in Sends
  PROVE  OwnRow(rows, s) \in [Txos -> Rows]
BY RowType DEF OwnRow

LEMMA ColorSendType ==
  ASSUME TypeOK, NEW s \in Sends PROVE ColorSend(s) \subseteq Colorings
<1>1. plan[s].takes \in SUBSET Allocations /\ plan[s].brings \in SUBSET Allocations /\ s \in Transfers
  BY OwnTxos DEF TypeOK, Plans
<1>. QED
  BY <1>1, ColorFacts DEF ColorSend, TypeOK, Types

LEMMA PlanBrings ==
  ASSUME NEW f \in [Transfers -> Plans], NEW t \in Transfers, NEW k \in SUBSET Allocations
  PROVE  [f EXCEPT ![t].brings = k] \in [Transfers -> Plans]
BY DEF Plans

LEMMA TypeStep ==
  ASSUME TypeOK, [Next]_vars PROVE TypeOK'
<1>. USE OwnTxos
<1>1. ASSUME NEW t \in Issues, Issue(t) PROVE TypeOK'
  <2>1. t \in Transfers
    BY DEF Transfers
  <2>2. PICK u \in GetUtxo({}, FALSE), amount \in 1..MaxAmount :
          /\ plan' = [plan EXCEPT ![t].brings = {[txo |-> u, source |-> t, amount |-> amount]}]
          /\ colorings' = colorings \cup Color({[txo |-> u, source |-> t, amount |-> amount]}, t, "Issue")
    BY <1>1 DEF Issue
  <2>0. u \in Txos
    BY GetUtxoFacts, Zenon
  <2>3. {[txo |-> u, source |-> t, amount |-> amount]} \in SUBSET Allocations
    BY <2>0, <2>1 DEF Allocations
  <2>4. plan' \in [Transfers -> Plans]
    <3>1. plan \in [Transfers -> Plans]
      BY DEF TypeOK
    <3>. QED
      BY <2>1, <2>2, <2>3, <3>1, PlanBrings
  <2>5. colorings' \subseteq Colorings
    BY <2>1, <2>2, <2>3, ColorFacts DEF TypeOK, Types
  <2>. QED
    BY <1>1, <2>4, <2>5 DEF Issue, TypeOK, Statuses
<1>2. ASSUME NEW r \in Receives, Receive(r)
      PROVE  /\ status' \in [Transfers -> Statuses] /\ requested' \in [Receives -> Nat]
             /\ UNCHANGED <<txos, colorings, plan, published>>
  BY <1>2, ConstantsAssumption DEF Receive, TypeOK, Statuses
<1>3. ASSUME NEW r \in Blind, BlindReceive(r) PROVE TypeOK'
  <2>1. PICK u \in GetUtxo({}, TRUE) : seal' = [seal EXCEPT ![r] = {u}]
    BY <1>3 DEF BlindReceive
  <2>2. u \in Txos
    BY GetUtxoFacts, Zenon
  <2>. QED
    BY <1>2, <1>3, <2>1, <2>2 DEF BlindReceive, TypeOK, Receives
<1>4. ASSUME NEW r \in Witness, WitnessReceive(r) PROVE TypeOK'
  BY <1>2, <1>4 DEF WitnessReceive, TypeOK, Receives
<1>5. ASSUME NEW r \in Receives, Acknowledge(r) PROVE TypeOK'
  <2>1. PICK u \in IF r \in Blind THEN seal[r] ELSE {r}, amount \in 1..MaxAmount :
          /\ plan' = [plan EXCEPT ![r].brings = {[txo |-> u, source |-> r, amount |-> amount]}]
          /\ colorings' = colorings \cup Color({[txo |-> u, source |-> r, amount |-> amount]}, r, "Receive")
    BY <1>5 DEF Acknowledge
  <2>2. r \in Transfers /\ u \in Txos
    BY <2>1 DEF TypeOK, Receives, Transfers
  <2>3. {[txo |-> u, source |-> r, amount |-> amount]} \in SUBSET Allocations
    BY <2>2 DEF Allocations
  <2>4. plan' \in [Transfers -> Plans]
    <3>1. plan \in [Transfers -> Plans]
      BY DEF TypeOK
    <3>. QED
      BY <2>1, <2>2, <2>3, <3>1, PlanBrings
  <2>5. colorings' \subseteq Colorings
    BY <2>1, <2>2, <2>3, ColorFacts DEF TypeOK, Types
  <2>6. txos' \in [Txos -> Rows]
    BY <1>5, RowType DEF Acknowledge, TypeOK
  <2>. QED
    BY <1>5, <2>4, <2>5, <2>6 DEF Acknowledge, TypeOK, Statuses
<1>6. ASSUME NEW r \in Receives, Pay(r) PROVE TypeOK'
  BY <1>6 DEF Pay, TypeOK, Transfers
<1>7. ASSUME NEW r \in Receives, ReceiveSettles(r) PROVE TypeOK'
  <2>1. PICK seen \in SUBSET (IF r \in Witness THEN Outputs(published) ELSE {}) :
          txos' = WitnessArrived(Synced(txos, seen), r) /\ scripts' = scripts \ seen
    BY <1>7 DEF ReceiveSettles
  <2>2. Synced(txos, seen) \in [Txos -> Rows]
    BY SyncedType DEF TypeOK
  <2>3. txos' \in [Txos -> Rows]
    BY <2>1, <2>2, RowUpdates DEF WitnessArrived
  <2>. QED
    BY <1>7, <2>1, <2>3 DEF ReceiveSettles, TypeOK, Statuses
<1>8. ASSUME NEW s \in Sends, SendBegin(s) PROVE TypeOK'
  <2>1. PICK p \in Plans : plan' = [plan EXCEPT ![s] = p]
    BY <1>8, SendBeginFacts DEF Prepares
  <2>. QED
    BY <1>8, <2>1 DEF SendBegin, TypeOK, Statuses
<1>9. ASSUME NEW s \in Sends, SendEnd(s) PROVE TypeOK'
  <2>1. txos' \in [Txos -> Rows] /\ colorings' \subseteq Colorings
    BY <1>9, OwnRowType, ColorSendType DEF SendEnd, TypeOK
  <2>. QED
    BY <1>9, <2>1 DEF SendEnd, TypeOK, Statuses
<1>10. ASSUME NEW s \in Sends, SendAborted(s) PROVE TypeOK'
  <2>1. NoPlan \in Plans
    BY DEF NoPlan, Plans
  <2>. QED
    BY <1>10, <2>1 DEF SendAborted, TypeOK, Statuses
<1>11. ASSUME NEW s \in Sends, SendDonation(s) PROVE TypeOK'
  <2>1. SpendInputs(txos, s) \in [Txos -> Rows]
    BY SpendInputsType DEF TypeOK
  <2>2. ASSUME NEW seen PROVE OwnRow(Synced(SpendInputs(txos, s), seen), s) \in [Txos -> Rows]
    BY <2>1, SyncedType, OwnRowType
  <2>3. txos' \in [Txos -> Rows] /\ colorings' \subseteq Colorings /\ scripts' \subseteq Witness
    BY <1>11, <2>1, <2>2, ColorSendType DEF SendDonation, TypeOK
  <2>. QED
    BY <1>11, <2>3 DEF SendDonation, TypeOK, Statuses
<1>12. ASSUME NEW s \in Sends, Broadcast(s) PROVE TypeOK'
  <2>1. SpendInputs(txos, s) \in [Txos -> Rows]
    BY SpendInputsType DEF TypeOK
  <2>2. txos' \in [Txos -> Rows] /\ scripts' \subseteq Witness
    BY <1>12, <2>1, SyncedType DEF Broadcast, TypeOK
  <2>. QED
    BY <1>12, <2>2 DEF Broadcast, TypeOK, Statuses
<1>13. ASSUME NEW s \in Sends, SendSettles(s) PROVE TypeOK'
  BY <1>13 DEF SendSettles, TypeOK, Statuses
<1>14. ASSUME NEW t \in Receives \cup Sends, Fail(t) PROVE TypeOK'
  BY <1>14 DEF Fail, TypeOK, Statuses
<1>15. ASSUME NEW t \in Receives \cup Sends, Delete(t) PROVE TypeOK'
  <2>1. NoRow \in Rows
    BY DEF NoRow, Rows
  <2>. QED
    BY <1>15, <2>1 DEF Delete, TypeOK, Statuses
<1>16. CASE Sync
  <2>1. txos' \in [Txos -> Rows] /\ scripts' \subseteq Witness
    BY <1>16, SyncedType DEF Sync, TypeOK
  <2>. QED
    BY <1>16, <2>1 DEF Sync, TypeOK
<1>17. CASE UNCHANGED vars
  BY <1>17 DEF vars, TypeOK
<1>. QED
  BY <1>1, <1>3, <1>4, <1>5, <1>6, <1>7, <1>8, <1>9, <1>10, <1>11, <1>12, <1>13, <1>14, <1>15,
     <1>16, <1>17 DEF Next

LEMMA TypeInit == Init => TypeOK
<1>. SUFFICES ASSUME Init PROVE TypeOK
  OBVIOUS
<1>1. NoRow \in Rows /\ NoPlan \in Plans
  BY DEF NoRow, Rows, NoPlan, Plans
<1>. QED
  BY <1>1, RowType DEF Init, TypeOK, Statuses

(* The tables of the wallet keep their types.                              *)
THEOREM TypeCorrect == Spec => []TypeOK
BY TypeInit, TypeStep, PTL DEF Spec

-----------------------------------------------------------------------------
(* The invariant.  A send acts on its inputs once it is prepared, until it *)
(* is given up, and for good once its transaction is public.               *)

Acting(s) == s \in published \/ status[s] = "Prepared" \/ Saved(s)

(* Rows: what exists is known; nothing is known of a transaction that is   *)
(* not public; an output of a witness receive is marked until it settles.  *)
RowInv ==
  /\ \A u \in Txos : txos[u].exists => txos[u].known
  /\ \A t \in Witness \cup Sends :
        status[t] \in {"Absent", "Prepared"} => t \notin published /\ ~txos[t].known
  /\ \A r \in Witness : status[r] # "Absent" =>
        IF txos[r].known THEN txos[r].pendingWitness \/ status[r] = "Settled" ELSE r \in scripts
  /\ \A r \in Witness : status[r] \in {"WaitingConfirmations", "Settled"} => txos[r].known
  /\ \A t \in Issues \cup Receives : status[t] # "Prepared"

(* Colorings: they belong to transfers that have a row; those on an output *)
(* that does not exist belong to the transfer that makes it.               *)
ColoringInv ==
  /\ \A c \in colorings : \/ status[c.by] \in {"WaitingConfirmations", "Settled"}
                          \/ c.by \in Sends /\ status[c.by] \in {"WaitingCounterparty", "Failed"}
  /\ \A c \in colorings : ~txos[c.txo].exists => c.by = c.txo
  /\ \A c \in colorings : ~Incoming(c) => c.by \in Sends /\ AllocOf(c) \in plan[c.by].takes

(* Plans: those of saved transfers are in the coloring table.              *)
PlanInv ==
  /\ \A t \in Transfers :
        status[t] = "Absent" \/ (t \in Receives /\ status[t] = "WaitingCounterparty")
        => plan[t].brings = {}
  /\ \A t \in Transfers : Saved(t) => \A k \in plan[t].brings :
        \E c \in colorings : Incoming(c) /\ c.by = t /\ AllocOf(c) = k
  /\ \A s \in Sends : Saved(s) => \A k \in plan[s].takes :
        \E c \in colorings : ~Incoming(c) /\ c.by = s /\ AllocOf(c) = k
  /\ \A s \in Sends : status[s] = "Prepared" =>
        \A k \in plan[s].brings : k.txo = s \/ txos[k.txo].exists

(* Seals: a blinded receive has one, which exists, and brings to it.       *)
SealInv ==
  /\ \A r \in Blind : \A u \in seal[r] : txos[u].exists /\ seal[r] = {u}
  /\ \A r \in Blind : status[r] = "WaitingConfirmations" =>
        \A u \in seal[r] : \E k \in plan[r].brings : k.txo = u

(* Sends: they take something from each input, the inputs of public ones   *)
(* are spent, and nobody else counts on an input of theirs.                *)
InputInv ==
  \A s \in Sends : Acting(s) =>
     /\ \A u \in plan[s].inputs : /\ txos[u].exists
                                  /\ \E k \in plan[s].takes : k.txo = u
                                  /\ u \in Witness => status[u] = "Settled"
     /\ \A k \in plan[s].takes : k.txo \in plan[s].inputs
SpentInv ==
  /\ \A s \in Sends : status[s] \in {"WaitingConfirmations", "Settled"} => s \in published
  /\ \A s \in Sends \cap published : \A u \in plan[s].inputs : txos[u].spent
DisjointInv ==
  \A s, x \in Sends : s # x /\ Acting(s) /\ Acting(x) => plan[s].inputs \cap plan[x].inputs = {}
AwaitedInv ==
  \A s \in Sends, r \in Blind :
     Acting(s) /\ status[r] \in {"WaitingCounterparty", "WaitingConfirmations"}
     => seal[r] \cap plan[s].inputs = {}
BroughtInv ==
  \A s \in Sends, t \in Transfers : Acting(s) /\ (Saved(t) \/ status[t] = "Prepared") =>
     \A k \in plan[t].brings : k.txo \in plan[s].inputs => k \in plan[s].takes
SendInv == InputInv /\ SpentInv /\ DisjointInv /\ AwaitedInv /\ BroughtInv

LedgerInv == RowInv /\ ColoringInv /\ PlanInv /\ SealInv /\ SendInv
IInv == TypeOK /\ LedgerInv

LEMMA InvInit == Init => IInv
<1>. SUFFICES ASSUME Init PROVE LedgerInv
  BY TypeInit DEF IInv
<1>1. \A t \in Transfers : status[t] = "Absent" /\ plan[t] = NoPlan
  BY DEF Init
<1>2. RowInv
  BY <1>1, OwnTxos, ConstantsAssumption DEF Init, RowInv, Row, NoRow, Receives, Transfers
<1>3. ColoringInv /\ SealInv
  BY <1>1 DEF Init, ColoringInv, SealInv
<1>4. PlanInv
  BY <1>1 DEF PlanInv, NoPlan, Saved, Transfers
<1>5. \A s \in Sends : ~Acting(s)
  BY <1>1, OwnTxos DEF Init, Acting, Saved
<1>6. SendInv
  BY <1>1, <1>5, OwnTxos DEF Init, SendInv, InputInv, SpentInv, DisjointInv, AwaitedInv, BroughtInv
<1>. QED
  BY <1>2, <1>3, <1>4, <1>6 DEF LedgerInv

(* What no public transaction spends and no waiting send takes is not an   *)
(* input of a send, if none is being prepared.                             *)
LEMMA FreeUtxo ==
  ASSUME IInv, Ready, ~Interleaved, NEW u \in Txos, ~txos[u].spent, ~TakenByWaitingSend(u),
         NEW s \in Sends, Acting(s)
  PROVE  u \notin plan[s].inputs
<1> SUFFICES ASSUME u \in plan[s].inputs PROVE FALSE
  OBVIOUS
<1>1. s \notin published
  BY DEF IInv, LedgerInv, SendInv, SpentInv
<1>2. status[s] = "WaitingCounterparty"
  BY <1>1 DEF IInv, LedgerInv, SendInv, SpentInv, Acting, Saved, Ready
<1>3. PICK k \in plan[s].takes : k.txo = u
  BY DEF IInv, LedgerInv, SendInv, InputInv
<1>4. PICK c \in colorings : ~Incoming(c) /\ c.by = s /\ AllocOf(c) = k
  BY <1>2 DEF IInv, LedgerInv, PlanInv, Saved
<1>5. c.txo = u
  BY <1>3, <1>4, AllocOfType DEF IInv, TypeOK
<1>. QED
  BY <1>2, <1>4, <1>5 DEF TakenByWaitingSend, On

-----------------------------------------------------------------------------
(* Issuing and receiving.                                                  *)

LEMMA IssueStep ==
  ASSUME IInv, TypeOK', ~Interleaved, NEW t \in Issues, Issue(t) PROVE LedgerInv'
<1>1. t \in Transfers /\ t \notin Sends /\ t \notin Receives /\ status[t] = "Absent" /\ Ready
  BY ConstantsAssumption DEF Transfers, Issue
<1>2. PICK u \in GetUtxo({}, FALSE), amount \in 1..MaxAmount :
        /\ plan' = [plan EXCEPT ![t].brings = {[txo |-> u, source |-> t, amount |-> amount]}]
        /\ colorings' = colorings \cup Color({[txo |-> u, source |-> t, amount |-> amount]}, t, "Issue")
  BY DEF Issue
<1> DEFINE k == [txo |-> u, source |-> t, amount |-> amount]
<1>3. u \in Txos /\ txos[u].known /\ ~txos[u].spent /\ txos[u].exists /\ ~TakenByWaitingSend(u)
  BY GetUtxoFacts, Zenon
<1>4. k \in Allocations
  BY <1>1, <1>3 DEF Allocations
<1>5. /\ plan'[t].brings = {k}
      /\ \A x \in Transfers \ {t} : plan'[x] = plan[x] /\ status'[x] = status[x]
      /\ status'[t] = "Settled"
      /\ UNCHANGED <<txos, seal, requested, scripts, published>>
  BY <1>1, <1>2 DEF IInv, TypeOK, Plans, Issue
<1>6. /\ colorings \subseteq colorings'
      /\ \A c \in colorings' \ colorings : c \in Colorings /\ c.by = t /\ c.type = "Issue" /\ AllocOf(c) = k
      /\ \E c \in colorings' : c.by = t /\ c.type = "Issue" /\ AllocOf(c) = k
  <2>1. {k} \in SUBSET Allocations /\ "Issue" \in Types
    BY <1>4 DEF Types
  <2>2. /\ Color({k}, t, "Issue") \subseteq Colorings
        /\ \A c \in Color({k}, t, "Issue") : c.by = t /\ c.type = "Issue" /\ AllocOf(c) \in {k}
        /\ \A x \in {k} : \E c \in Color({k}, t, "Issue") : AllocOf(c) = x
    BY <1>1, <2>1, ColorFacts
  <2>3. colorings' = colorings \cup Color({k}, t, "Issue")
    BY <1>2
  <2>. HIDE DEF k
  <2>. QED
    BY <2>2, <2>3
<1>7. \A s \in Sends : s # t /\ s \in Transfers /\ (Acting(s)' <=> Acting(s))
  BY <1>1, <1>5, OwnTxos DEF Acting, Saved
<1>8. \A s \in Sends : Acting(s) => u \notin plan[s].inputs
  BY <1>1, <1>3, FreeUtxo
<1>9. RowInv'
  BY <1>1, <1>5, OwnTxos DEF IInv, LedgerInv, RowInv, Receives, Transfers
<1>10. ColoringInv'
  <2> SUFFICES ASSUME NEW c \in colorings'
               PROVE  /\ \/ status'[c.by] \in {"WaitingConfirmations", "Settled"}
                         \/ c.by \in Sends /\ status'[c.by] \in {"WaitingCounterparty", "Failed"}
                      /\ ~txos'[c.txo].exists => c.by = c.txo
                      /\ ~Incoming(c) => c.by \in Sends /\ AllocOf(c) \in plan'[c.by].takes
    BY DEF ColoringInv
  <2>1. CASE c \in colorings
    <3>1. c.by \in Transfers /\ c.by # t
      BY <1>1, <2>1 DEF IInv, LedgerInv, ColoringInv, TypeOK, Colorings
    <3>. QED
      BY <1>5, <2>1, <3>1 DEF IInv, LedgerInv, ColoringInv
  <2>2. CASE c \notin colorings
    <3>1. c.txo = u
      BY <1>6, <2>2, AllocOfType
    <3>. QED
      BY <1>3, <1>5, <1>6, <2>2, <3>1 DEF Incoming
  <2>. QED
    BY <2>1, <2>2
<1>11. PlanInv'
  BY <1>1, <1>5, <1>6, <1>7 DEF IInv, LedgerInv, PlanInv, Saved, Incoming
<1>12. SealInv'
  BY <1>1, <1>5 DEF IInv, LedgerInv, SealInv, Receives, Transfers
<1>13. InputInv' /\ SpentInv' /\ DisjointInv' /\ AwaitedInv'
  <2>1. \A r \in Receives : r \in Transfers /\ r # t
    BY <1>1 DEF Transfers
  <2>. QED
    BY <1>5, <1>7, <2>1 DEF IInv, LedgerInv, SendInv, InputInv, SpentInv, DisjointInv, AwaitedInv,
                             Receives
<1>14. BroughtInv'
  BY <1>5, <1>7, <1>8 DEF IInv, LedgerInv, SendInv, BroughtInv, Saved
<1>. QED
  BY <1>9, <1>10, <1>11, <1>12, <1>13, <1>14 DEF LedgerInv, SendInv

LEMMA BlindReceiveStep ==
  ASSUME IInv, TypeOK', ~Interleaved, NEW r \in Blind, BlindReceive(r) PROVE LedgerInv'
<1>1. r \in Transfers /\ r \notin Sends /\ r \notin Witness /\ status[r] = "Absent" /\ Ready
  BY ConstantsAssumption DEF Transfers, Receives, BlindReceive, Receive
<1>2. PICK u \in GetUtxo({}, TRUE) : seal' = [seal EXCEPT ![r] = {u}]
  BY DEF BlindReceive
<1>3. u \in Txos /\ txos[u].known /\ ~txos[u].spent /\ txos[u].exists /\ ~TakenByWaitingSend(u)
  BY GetUtxoFacts, Zenon
<1>4. /\ \A x \in Transfers \ {r} : status'[x] = status[x]
      /\ status'[r] = "WaitingCounterparty"
      /\ seal'[r] = {u} /\ \A x \in Blind \ {r} : seal'[x] = seal[x]
      /\ UNCHANGED <<txos, colorings, plan, scripts, published>>
  BY <1>1, <1>2 DEF IInv, TypeOK, BlindReceive, Receive
<1>5. \A s \in Sends : s # r /\ s \in Transfers /\ (Acting(s)' <=> Acting(s))
  BY <1>1, <1>4, OwnTxos DEF Acting, Saved
<1>6. \A s \in Sends : Acting(s) => u \notin plan[s].inputs
  BY <1>1, <1>3, FreeUtxo
<1>7. RowInv'
  BY <1>1, <1>4, OwnTxos DEF IInv, LedgerInv, RowInv, Receives, Transfers
<1>8. ColoringInv'
  BY <1>1, <1>4 DEF IInv, LedgerInv, ColoringInv, TypeOK, Colorings
<1>9. PlanInv'
  BY <1>1, <1>4, <1>5 DEF IInv, LedgerInv, PlanInv, Saved
<1>10. SealInv'
  BY <1>3, <1>4 DEF IInv, LedgerInv, SealInv, Transfers, Receives
<1>11. InputInv' /\ SpentInv' /\ DisjointInv'
  BY <1>1, <1>4, <1>5, OwnTxos DEF IInv, LedgerInv, SendInv, InputInv, SpentInv, DisjointInv
<1>12. AwaitedInv'
  BY <1>4, <1>5, <1>6 DEF IInv, LedgerInv, SendInv, AwaitedInv, Transfers, Receives
<1>13. BroughtInv'
  <2>1. plan[r].brings = {}
    BY <1>1 DEF IInv, LedgerInv, PlanInv
  <2>. QED
    BY <1>4, <1>5, <2>1 DEF IInv, LedgerInv, SendInv, BroughtInv, Saved
<1>. QED
  BY <1>7, <1>8, <1>9, <1>10, <1>11, <1>12, <1>13 DEF LedgerInv, SendInv

LEMMA WitnessReceiveStep ==
  ASSUME IInv, TypeOK', NEW r \in Witness, WitnessReceive(r) PROVE LedgerInv'
<1>1. r \in Transfers /\ r \notin Sends /\ r \notin Blind /\ status[r] = "Absent"
  BY ConstantsAssumption DEF Transfers, Receives, WitnessReceive, Receive
<1>2. /\ \A x \in Transfers \ {r} : status'[x] = status[x]
      /\ status'[r] = "WaitingCounterparty" /\ scripts' = scripts \cup {r}
      /\ UNCHANGED <<txos, colorings, plan, seal, published>>
  BY <1>1 DEF IInv, TypeOK, WitnessReceive, Receive
<1>3. \A s \in Sends : s # r /\ s \in Transfers /\ (Acting(s)' <=> Acting(s))
  BY <1>1, <1>2, OwnTxos DEF Acting, Saved
<1>4. RowInv'
  BY <1>1, <1>2, OwnTxos DEF IInv, LedgerInv, RowInv, Receives, Transfers
<1>5. ColoringInv'
  BY <1>1, <1>2 DEF IInv, LedgerInv, ColoringInv, TypeOK, Colorings
<1>6. PlanInv'
  BY <1>1, <1>2, <1>3 DEF IInv, LedgerInv, PlanInv, Saved
<1>7. SealInv'
  BY <1>1, <1>2 DEF IInv, LedgerInv, SealInv, Transfers, Receives
<1>8. InputInv' /\ SpentInv' /\ DisjointInv' /\ AwaitedInv'
  BY <1>1, <1>2, <1>3, OwnTxos
  DEF IInv, LedgerInv, SendInv, InputInv, SpentInv, DisjointInv, AwaitedInv, Transfers, Receives
<1>9. BroughtInv'
  <2>1. plan[r].brings = {}
    BY <1>1 DEF IInv, LedgerInv, PlanInv
  <2>. QED
    BY <1>2, <1>3, <2>1 DEF IInv, LedgerInv, SendInv, BroughtInv, Saved
<1>. QED
  BY <1>4, <1>5, <1>6, <1>7, <1>8, <1>9 DEF LedgerInv, SendInv

LEMMA AcknowledgeStep ==
  ASSUME IInv, TypeOK', NEW r \in Receives, Acknowledge(r) PROVE LedgerInv'
<1>1. r \in Transfers /\ r \notin Sends /\ status[r] = "WaitingCounterparty"
  BY ConstantsAssumption DEF Transfers, Acknowledge
<1>2. PICK u \in IF r \in Blind THEN seal[r] ELSE {r}, amount \in 1..MaxAmount :
        /\ plan' = [plan EXCEPT ![r].brings = {[txo |-> u, source |-> r, amount |-> amount]}]
        /\ colorings' = colorings \cup Color({[txo |-> u, source |-> r, amount |-> amount]}, r, "Receive")
  BY DEF Acknowledge
<1> DEFINE k == [txo |-> u, source |-> r, amount |-> amount]
<1>3. u \in Txos /\ (r \in Blind => u \in seal[r]) /\ (r \notin Blind => r \in Witness /\ u = r)
  BY <1>2 DEF IInv, TypeOK, Receives, Txos
<1>4. k \in Allocations
  BY <1>1, <1>3 DEF Allocations
<1>5. /\ plan'[r].brings = {k}
      /\ \A x \in Transfers \ {r} : plan'[x] = plan[x] /\ status'[x] = status[x]
      /\ status'[r] = "WaitingConfirmations"
      /\ UNCHANGED <<seal, requested, scripts, published>>
  BY <1>1, <1>2 DEF IInv, TypeOK, Plans, Acknowledge
<1>6. /\ colorings \subseteq colorings'
      /\ \A c \in colorings' \ colorings : c \in Colorings /\ c.by = r /\ c.type = "Receive" /\ AllocOf(c) = k
      /\ \E c \in colorings' : c.by = r /\ c.type = "Receive" /\ AllocOf(c) = k
  <2>1. {k} \in SUBSET Allocations /\ "Receive" \in Types
    BY <1>4 DEF Types
  <2>2. /\ Color({k}, r, "Receive") \subseteq Colorings
        /\ \A c \in Color({k}, r, "Receive") : c.by = r /\ c.type = "Receive" /\ AllocOf(c) \in {k}
        /\ \A x \in {k} : \E c \in Color({k}, r, "Receive") : AllocOf(c) = x
    BY <1>1, <2>1, ColorFacts
  <2>3. colorings' = colorings \cup Color({k}, r, "Receive")
    BY <1>2
  <2>. HIDE DEF k
  <2>. QED
    BY <2>2, <2>3
<1>7. /\ \A v \in Txos : txos[v].known => txos'[v] = txos[v]
      /\ \A v \in Txos : v # r => txos'[v] = txos[v]
      /\ r \in Witness => txos'[r].known /\ (~txos[r].known => ~txos'[r].exists /\ txos'[r].pendingWitness)
  BY OwnTxos DEF IInv, TypeOK, Acknowledge, Row
<1>8. \A s \in Sends : s # r /\ s \in Transfers /\ (Acting(s)' <=> Acting(s))
  BY <1>1, <1>5, OwnTxos DEF Acting, Saved
<1>9. \A s \in Sends : Acting(s) => u \notin plan[s].inputs
  BY <1>1, <1>3 DEF IInv, LedgerInv, SendInv, AwaitedInv, InputInv
<1>10. \A v \in Txos : txos[v].exists => txos[v].known /\ txos'[v] = txos[v]
  BY <1>7 DEF IInv, LedgerInv, RowInv
<1>11. RowInv'
  <2>1. \A v \in Txos : txos'[v].exists => txos'[v].known
    <3>1. r \in Witness \/ \A v \in Txos : txos'[v] = txos[v]
      BY <1>7, <1>3 DEF IInv, TypeOK, Acknowledge
    <3>. QED
      BY <1>7, <3>1 DEF IInv, LedgerInv, RowInv
  <2>2. \A t \in Witness \cup Sends : t # r =>
           t \in Transfers /\ txos'[t] = txos[t] /\ status'[t] = status[t]
    BY <1>5, <1>7, OwnTxos
  <2>3. r \in Witness => txos'[r].known /\ txos'[r].pendingWitness
    BY <1>1, <1>7, OwnTxos DEF IInv, LedgerInv, RowInv
  <2>4. \A t \in Issues \cup Receives : t \in Transfers
    BY DEF Transfers
  <2>. QED
    BY <1>1, <1>5, <2>1, <2>2, <2>3, <2>4 DEF IInv, LedgerInv, RowInv
<1>12. ColoringInv'
  <2> SUFFICES ASSUME NEW c \in colorings'
               PROVE  /\ \/ status'[c.by] \in {"WaitingConfirmations", "Settled"}
                         \/ c.by \in Sends /\ status'[c.by] \in {"WaitingCounterparty", "Failed"}
                      /\ ~txos'[c.txo].exists => c.by = c.txo
                      /\ ~Incoming(c) => c.by \in Sends /\ AllocOf(c) \in plan'[c.by].takes
    BY DEF ColoringInv
  <2>1. CASE c \in colorings
    <3>1. c.by \in Transfers /\ c.by # r /\ c.txo \in Txos
      BY <1>1, <2>1 DEF IInv, LedgerInv, ColoringInv, TypeOK, Colorings
    <3>. QED
      BY <1>5, <1>10, <2>1, <3>1 DEF IInv, LedgerInv, ColoringInv
  <2>2. CASE c \notin colorings
    <3>1. c.txo = u
      BY <1>6, <2>2, AllocOfType
    <3>2. r \in Blind => txos'[u].exists
      BY <1>3, <1>10 DEF IInv, LedgerInv, SealInv
    <3>. QED
      BY <1>3, <1>5, <1>6, <2>2, <3>1, <3>2 DEF Incoming
  <2>. QED
    BY <2>1, <2>2
<1>13. PlanInv'
  <2>1. \A s \in Sends : \A x \in plan[s].brings : x.txo \in Txos
    BY <1>8 DEF IInv, TypeOK, Plans, Allocations
  <2>2. \A x \in Transfers \ {r} : /\ Saved(x)' <=> Saved(x)
                                   /\ plan'[x] = plan[x] /\ status'[x] = status[x]
    BY <1>5 DEF Saved
  <2>3. \A x \in plan'[r].brings : \E c \in colorings' : Incoming(c) /\ c.by = r /\ AllocOf(c) = x
    BY <1>5, <1>6 DEF Incoming
  <2>4. status'[r] = "WaitingConfirmations"
    BY <1>5
  <2>. HIDE DEF k
  <2>. QED
    BY <1>6, <1>8, <1>10, <2>1, <2>2, <2>3, <2>4 DEF IInv, LedgerInv, PlanInv
<1>14. SealInv'
  <2>1. \A x \in Blind : x \in Transfers /\ seal[x] \subseteq Txos
    BY DEF IInv, TypeOK, Transfers, Receives
  <2>2. \A x \in Blind, v \in Txos : v \in seal'[x] => txos'[v].exists /\ seal'[x] = {v}
    BY <1>5, <1>10 DEF IInv, LedgerInv, SealInv
  <2>3. r \in Blind => seal'[r] = {u} /\ k.txo = u
    BY <1>3, <2>2, <1>5
  <2>4. \A x \in Blind : x # r => status'[x] = status[x] /\ plan'[x] = plan[x] /\ seal'[x] = seal[x]
    BY <1>5, <2>1
  <2>5. r \in Blind => \A v \in seal'[r] : \E x \in plan'[r].brings : x.txo = v
    BY <1>5, <2>3
  <2>6. \A x \in Blind : \A v \in seal'[x] : txos'[v].exists /\ seal'[x] = {v}
    BY <1>5, <2>1, <2>2
  <2>7. ASSUME NEW x \in Blind, status'[x] = "WaitingConfirmations", NEW v \in seal'[x]
        PROVE  \E y \in plan'[x].brings : y.txo = v
    <3>1. CASE x = r
      BY <2>5, <2>7, <3>1
    <3>2. CASE x # r
      BY <2>4, <2>7, <3>2 DEF IInv, LedgerInv, SealInv
    <3>. QED
      BY <3>1, <3>2
  <2>. QED
    BY <2>6, <2>7 DEF SealInv
<1>15. InputInv' /\ SpentInv' /\ DisjointInv' /\ AwaitedInv'
  <2>1. \A s \in Sends : plan[s].inputs \subseteq Txos
    BY <1>8 DEF IInv, TypeOK, Plans
  <2>2. \A s \in Sends : Acting(s) \/ s \in published => Acting(s) /\ \A v \in plan[s].inputs : txos'[v] = txos[v]
    BY <1>10, <2>1 DEF IInv, LedgerInv, SendInv, InputInv, Acting
  <2>3. InputInv'
    BY <1>1, <1>5, <1>8, <2>1, <2>2, OwnTxos DEF IInv, LedgerInv, SendInv, InputInv
  <2>4. SpentInv' /\ DisjointInv'
    BY <1>5, <1>8, <2>2 DEF IInv, LedgerInv, SendInv, SpentInv, DisjointInv
  <2>5. \A x \in Blind : x \in Transfers
    BY DEF Transfers, Receives
  <2>6. AwaitedInv'
    BY <1>1, <1>5, <1>8, <2>5 DEF IInv, LedgerInv, SendInv, AwaitedInv
  <2>. QED
    BY <2>3, <2>4, <2>6
<1>16. BroughtInv'
  BY <1>5, <1>8, <1>9 DEF IInv, LedgerInv, SendInv, BroughtInv, Saved
<1>. QED
  BY <1>11, <1>12, <1>13, <1>14, <1>15, <1>16 DEF LedgerInv, SendInv

LEMMA PayStep ==
  ASSUME IInv, TypeOK', NEW r \in Receives, Pay(r) PROVE LedgerInv'
<1>1. /\ r \notin Sends /\ status[r] # "Absent" /\ status[r] # "Prepared"
      /\ published' = published \cup {r}
      /\ UNCHANGED <<txos, status, colorings, seal, requested, scripts, plan>>
  BY ConstantsAssumption DEF Pay, IInv, LedgerInv, RowInv
<1>2. \A s \in Sends : Acting(s)' <=> Acting(s)
  BY <1>1 DEF Acting, Saved
<1>3. RowInv' /\ ColoringInv' /\ PlanInv' /\ SealInv'
  BY <1>1 DEF IInv, LedgerInv, RowInv, ColoringInv, PlanInv, SealInv, Saved
<1>4. SendInv'
  BY <1>1, <1>2
  DEF IInv, LedgerInv, SendInv, InputInv, SpentInv, DisjointInv, AwaitedInv, BroughtInv, Saved
<1>. QED
  BY <1>3, <1>4 DEF LedgerInv

-----------------------------------------------------------------------------
(* Syncs.                                                                  *)

(* A sync adds rows of public outputs and raises exists flags.             *)
LEMMA SyncedFacts ==
  ASSUME NEW rows \in [Txos -> Rows], NEW seen, NEW u \in Txos
  PROVE  /\ rows[u].exists => Synced(rows, seen)[u].exists
         /\ rows[u].known => /\ Synced(rows, seen)[u].known
                             /\ Synced(rows, seen)[u].spent = rows[u].spent
                             /\ Synced(rows, seen)[u].pendingWitness = rows[u].pendingWitness
         /\ Synced(rows, seen)[u].exists /\ ~rows[u].exists => Synced(rows, seen)[u].known
         /\ ~rows[u].known /\ Synced(rows, seen)[u].known
            => u \in seen /\ Synced(rows, seen)[u].pendingWitness = (u \in scripts)
         /\ u \in seen => Synced(rows, seen)[u].known
<1>1. Synced(rows, seen)[u] = IF u \in seen THEN SetTxo(rows, u) ELSE rows[u]
  BY DEF Synced
<1>2. rows[u] \in Rows
  OBVIOUS
<1>3. CASE u \notin seen
  BY <1>1, <1>3
<1>4. CASE u \in seen /\ rows[u].known
  <2>1. Synced(rows, seen)[u] = [rows[u] EXCEPT !.exists = TRUE]
    BY <1>1, <1>4 DEF SetTxo
  <2>. QED
    BY <1>2, <1>4, <2>1 DEF Rows
<1>5. CASE u \in seen /\ ~rows[u].known
  <2>1. Synced(rows, seen)[u] = Row(TRUE, u \in scripts)
    BY <1>1, <1>5 DEF SetTxo
  <2>2. Row(TRUE, u \in scripts).pendingWitness = (u \in scripts)
    BY Zenon DEF Row
  <2>3. Row(TRUE, u \in scripts).exists /\ Row(TRUE, u \in scripts).known
    BY DEF Row
  <2>. QED
    BY <1>5, <2>1, <2>2, <2>3
<1>. QED
  BY <1>3, <1>4, <1>5

(* What a sync makes of rows that differ from txos in spent flags only.    *)
SameButSpent(rows) ==
  \A u \in Txos : /\ rows[u].known = txos[u].known /\ rows[u].exists = txos[u].exists
                  /\ rows[u].pendingWitness = txos[u].pendingWitness
                  /\ txos[u].spent => rows[u].spent

LEMMA SyncedRows ==
  ASSUME IInv, NEW rows \in [Txos -> Rows], SameButSpent(rows), NEW seen
  PROVE  /\ \A u \in Txos : Synced(rows, seen)[u].exists => Synced(rows, seen)[u].known
         /\ \A r \in Witness : status[r] # "Absent" =>
               IF Synced(rows, seen)[r].known
               THEN Synced(rows, seen)[r].pendingWitness \/ status[r] = "Settled" ELSE r \in scripts \ seen
         /\ \A u \in Txos : ~txos[u].known /\ Synced(rows, seen)[u].known => u \in seen
         /\ \A u \in Txos : txos[u].known => /\ Synced(rows, seen)[u].known
                                             /\ Synced(rows, seen)[u].spent = rows[u].spent
         /\ \A u \in Txos : txos[u].exists => Synced(rows, seen)[u].exists
<1> DEFINE new == Synced(rows, seen)
<1>1. \A u \in Txos :
         /\ rows[u].exists => new[u].exists
         /\ rows[u].known => /\ new[u].known /\ new[u].spent = rows[u].spent
                             /\ new[u].pendingWitness = rows[u].pendingWitness
         /\ new[u].exists /\ ~rows[u].exists => new[u].known
         /\ ~rows[u].known /\ new[u].known => u \in seen /\ new[u].pendingWitness = (u \in scripts)
         /\ u \in seen => new[u].known
  BY SyncedFacts
<1>2. \A u \in Txos : txos[u].exists => txos[u].known
  BY DEF IInv, LedgerInv, RowInv
<1>. HIDE DEF new
<1>3. ASSUME NEW r \in Witness, status[r] # "Absent"
      PROVE  IF new[r].known THEN new[r].pendingWitness \/ status[r] = "Settled" ELSE r \in scripts \ seen
  <2>1. r \in Txos /\ IF txos[r].known THEN txos[r].pendingWitness \/ status[r] = "Settled" ELSE r \in scripts
    BY <1>3, OwnTxos DEF IInv, LedgerInv, RowInv
  <2>2. CASE txos[r].known
    BY <1>1, <2>1, <2>2 DEF SameButSpent
  <2>3. CASE ~txos[r].known
    BY <1>1, <2>1, <2>3 DEF SameButSpent
  <2>. QED
    BY <2>2, <2>3
<1>4. \A u \in Txos : /\ new[u].exists => new[u].known
                      /\ ~txos[u].known /\ new[u].known => u \in seen
                      /\ txos[u].known => new[u].known /\ new[u].spent = rows[u].spent
                      /\ txos[u].exists => new[u].exists
  BY <1>1, <1>2 DEF SameButSpent
<1>. QED
  BY <1>3, <1>4 DEF new

LEMMA SpendInputsFacts ==
  ASSUME TypeOK, NEW s \in Sends
  PROVE  /\ SpendInputs(txos, s) \in [Txos -> Rows] /\ SameButSpent(SpendInputs(txos, s))
         /\ \A u \in plan[s].inputs : SpendInputs(txos, s)[u].spent
<1>1. txos \in [Txos -> Rows] /\ plan[s].inputs \subseteq Txos
  BY OwnTxos DEF TypeOK, Plans
<1>2. ASSUME NEW u \in Txos
      PROVE  LET row == SpendInputs(txos, s)[u]
             IN  /\ row.known = txos[u].known /\ row.exists = txos[u].exists
                 /\ row.pendingWitness = txos[u].pendingWitness
                 /\ txos[u].spent => row.spent
                 /\ u \in plan[s].inputs => row.spent
  <2>1. txos[u] \in Rows
    BY <1>1
  <2>. QED
    BY <2>1 DEF SpendInputs, Rows
<1>. QED
  BY <1>1, <1>2, SpendInputsType DEF SameButSpent

(* Steps that only let transfers advance keep what the other parts say.    *)
ExistingStay == \A u \in Txos : txos[u].exists => txos'[u].exists

LEMMA SendKept ==
  ASSUME IInv, ExistingStay, UNCHANGED <<plan, seal>>, SpentInv',
         \A s \in Sends : Acting(s)' => Acting(s),
         \A t \in Transfers : (Saved(t) \/ status[t] = "Prepared")' => Saved(t) \/ status[t] = "Prepared",
         \A u \in Witness : status[u] = "Settled" => status'[u] = "Settled",
         \A r \in Blind : status'[r] \in {"WaitingCounterparty", "WaitingConfirmations"} =>
                          status[r] \in {"WaitingCounterparty", "WaitingConfirmations"}
  PROVE  SendInv'
<1>1. \A s \in Sends : plan[s].inputs \subseteq Txos
  BY OwnTxos DEF IInv, TypeOK, Plans
<1>2. InputInv'
  BY <1>1 DEF IInv, LedgerInv, SendInv, InputInv, ExistingStay
<1>3. DisjointInv' /\ AwaitedInv'
  BY DEF IInv, LedgerInv, SendInv, DisjointInv, AwaitedInv
<1>4. BroughtInv'
  BY DEF IInv, LedgerInv, SendInv, BroughtInv
<1>. QED
  BY <1>2, <1>3, <1>4 DEF SendInv

LEMMA SealKept ==
  ASSUME IInv, ExistingStay, UNCHANGED <<plan, seal>>,
         \A r \in Blind : status'[r] = "WaitingConfirmations" => status[r] = "WaitingConfirmations"
  PROVE  SealInv'
<1>1. \A r \in Blind : seal[r] \subseteq Txos
  BY DEF IInv, TypeOK
<1>. QED
  BY <1>1 DEF IInv, LedgerInv, SealInv, ExistingStay

LEMMA PlanKept ==
  ASSUME IInv, ExistingStay, UNCHANGED plan,
         \A t \in Transfers : status'[t] \in {"Absent", "Prepared"} => status'[t] = status[t],
         \A t \in Receives : status'[t] = "WaitingCounterparty" => status[t] = "WaitingCounterparty",
         \A t \in Transfers : Saved(t)' => Saved(t),
         \A c \in colorings : Saved(c.by)' => c \in colorings'
  PROVE  PlanInv'
<1>1. \A s \in Sends : s \in Transfers /\ \A k \in plan[s].brings : k.txo \in Txos
  BY OwnTxos DEF IInv, TypeOK, Plans, Allocations
<1>2. \A t \in Issues \cup Receives : t \in Transfers
  BY DEF Transfers
<1>. QED
  BY <1>1, <1>2 DEF IInv, LedgerInv, PlanInv, ExistingStay

LEMMA ColoringKept ==
  ASSUME IInv, ExistingStay, UNCHANGED plan, colorings' \subseteq colorings,
         \A c \in colorings' : \/ status'[c.by] \in {status[c.by], "WaitingConfirmations", "Settled"}
                               \/ c.by \in Sends /\ status'[c.by] = "Failed"
  PROVE  ColoringInv'
<1>1. \A c \in colorings : c.txo \in Txos
  BY DEF IInv, TypeOK, Colorings
<1>. QED
  BY <1>1 DEF IInv, LedgerInv, ColoringInv, ExistingStay, Incoming

LEMMA SyncStep ==
  ASSUME IInv, TypeOK', Sync PROVE LedgerInv'
<1>1. PICK seen \in SUBSET Outputs(published) : txos' = Synced(txos, seen) /\ scripts' = scripts \ seen
  BY DEF Sync
<1>2. UNCHANGED <<status, colorings, seal, requested, plan, published>>
  BY DEF Sync
<1>3. txos \in [Txos -> Rows] /\ SameButSpent(txos)
  BY DEF IInv, TypeOK, SameButSpent
<1>4. /\ \A u \in Txos : txos'[u].exists => txos'[u].known
      /\ \A r \in Witness : status[r] # "Absent" =>
            IF txos'[r].known THEN txos'[r].pendingWitness \/ status[r] = "Settled" ELSE r \in scripts'
      /\ \A u \in Txos : ~txos[u].known /\ txos'[u].known => u \in published
      /\ \A u \in Txos : txos[u].known => txos'[u].known /\ txos'[u].spent = txos[u].spent
      /\ ExistingStay
  BY <1>1, <1>3, SyncedRows DEF Outputs, ExistingStay
<1>5. RowInv'
  BY <1>2, <1>4, OwnTxos DEF IInv, LedgerInv, RowInv
<1>6. SpentInv'
  BY <1>2, <1>4, OwnTxos DEF IInv, LedgerInv, RowInv, SendInv, InputInv, SpentInv, Acting, TypeOK, Plans
<1>7. PlanInv' /\ SealInv' /\ ColoringInv'
  BY <1>2, <1>4, PlanKept, SealKept, ColoringKept DEF Saved
<1>8. SendInv'
  BY <1>2, <1>4, <1>6, SendKept DEF Acting, Saved
<1>. QED
  BY <1>5, <1>7, <1>8 DEF LedgerInv

LEMMA ReceiveSettlesStep ==
  ASSUME IInv, TypeOK', NEW r \in Receives, ReceiveSettles(r) PROVE LedgerInv'
<1>1. PICK seen \in SUBSET (IF r \in Witness THEN Outputs(published) ELSE {}) :
         txos' = WitnessArrived(Synced(txos, seen), r) /\ scripts' = scripts \ seen
  BY DEF ReceiveSettles
<1>2. /\ r \in Transfers /\ r \notin Sends /\ status[r] = "WaitingConfirmations"
      /\ \A t \in Transfers \ {r} : status'[t] = status[t]
      /\ status'[r] = "Settled"
      /\ UNCHANGED <<colorings, seal, requested, plan, published>>
  BY ConstantsAssumption DEF ReceiveSettles, IInv, TypeOK, Transfers
<1>3. txos \in [Txos -> Rows] /\ SameButSpent(txos)
  BY DEF IInv, TypeOK, SameButSpent
<1> DEFINE synced == Synced(txos, seen)
<1>4. synced \in [Txos -> Rows]
  BY <1>3, SyncedType
<1>5. /\ \A u \in Txos : synced[u].exists => synced[u].known
      /\ \A x \in Witness : status[x] # "Absent" =>
            IF synced[x].known THEN synced[x].pendingWitness \/ status[x] = "Settled" ELSE x \in scripts'
      /\ \A u \in Txos : ~txos[u].known /\ synced[u].known => u \in published
      /\ \A u \in Txos : txos[u].known => synced[u].known /\ synced[u].spent = txos[u].spent
      /\ \A u \in Txos : txos[u].exists => synced[u].exists
  BY <1>1, <1>3, SyncedRows DEF Outputs
<1>. HIDE DEF synced
<1>6. /\ \A u \in Txos : u # r => txos'[u] = synced[u]
      /\ \A u \in Txos : /\ txos'[u].exists = synced[u].exists /\ txos'[u].known = synced[u].known
                         /\ txos'[u].spent = synced[u].spent
  <2>1. txos' = WitnessArrived(synced, r)
    BY <1>1 DEF synced
  <2>2. \A row \in Rows : LET new == [row EXCEPT !.pendingWitness = FALSE]
                          IN  /\ new.exists = row.exists /\ new.known = row.known
                              /\ new.spent = row.spent
    BY DEF Rows
  <2>. QED
    BY <1>4, <2>1, <2>2, OwnTxos DEF WitnessArrived
<1>7. ExistingStay
  BY <1>5, <1>6 DEF ExistingStay
<1>8. RowInv'
  <2>1. \A x \in Issues \cup Receives : x \in Transfers /\ status'[x] # "Prepared"
    BY <1>2 DEF IInv, LedgerInv, RowInv, Transfers
  <2>2. ASSUME NEW x \in Witness
        PROVE  /\ status'[x] # "Absent" => IF txos'[x].known THEN txos'[x].pendingWitness \/ status'[x] = "Settled"
                                                             ELSE x \in scripts'
               /\ status'[x] \in {"WaitingConfirmations", "Settled"} => txos'[x].known
    <3>1. x \in Txos /\ x \in Transfers /\ (x = r => txos[r].known)
      BY <1>2, OwnTxos DEF IInv, LedgerInv, RowInv
    <3>2. CASE x = r
      BY <1>2, <1>5, <1>6, <3>1, <3>2
    <3>3. CASE x # r
      BY <1>2, <1>5, <1>6, <3>1, <3>3 DEF IInv, LedgerInv, RowInv
    <3>. QED
      BY <3>2, <3>3
  <2>3. ASSUME NEW t \in Witness \cup Sends, status'[t] \in {"Absent", "Prepared"}
        PROVE  t \notin published' /\ ~txos'[t].known
    <3>1. t # r /\ t \in Txos /\ t \in Transfers
      BY <1>2, <2>3, OwnTxos
    <3>2. t \notin published /\ ~txos[t].known
      BY <1>2, <2>3, <3>1 DEF IInv, LedgerInv, RowInv
    <3>. QED
      BY <1>2, <1>5, <1>6, <3>1, <3>2
  <2>4. \A u \in Txos : txos'[u].exists => txos'[u].known
    BY <1>5, <1>6
  <2>. QED
    BY <2>1, <2>2, <2>3, <2>4 DEF RowInv
<1>9. SpentInv'
  BY <1>2, <1>5, <1>6, OwnTxos DEF IInv, LedgerInv, RowInv, SendInv, InputInv, SpentInv, Acting, TypeOK, Plans
<1>10. \A c \in colorings : c.by \in Transfers
  BY DEF IInv, TypeOK, Colorings
<1>11. \A x \in Blind \cup Witness : x \in Transfers /\ x \in Receives
  BY DEF Transfers, Receives
<1>12. \A x \in Issues \cup Receives : x \in Transfers
  BY DEF Transfers
<1>13. PlanInv'
  BY <1>2, <1>7, <1>12, PlanKept DEF Saved
<1>14. SealInv' /\ ColoringInv'
  BY <1>2, <1>7, <1>10, <1>11, SealKept, ColoringKept
<1>15. SendInv'
  BY <1>2, <1>7, <1>9, <1>11, OwnTxos, SendKept DEF Acting, Saved
<1>. QED
  BY <1>8, <1>13, <1>14, <1>15 DEF LedgerInv

-----------------------------------------------------------------------------
(* Sending.                                                                *)

LEMMA SendSettlesStep ==
  ASSUME IInv, TypeOK', NEW s \in Sends, SendSettles(s) PROVE LedgerInv'
<1>1. /\ s \in Transfers /\ s \notin Issues \cup Receives /\ status[s] = "WaitingConfirmations"
      /\ \A t \in Transfers \ {s} : status'[t] = status[t]
      /\ status'[s] = "Settled"
      /\ UNCHANGED <<txos, colorings, seal, requested, scripts, plan, published>>
  BY ConstantsAssumption, OwnTxos DEF SendSettles, IInv, TypeOK
<1>2. ExistingStay /\ \A x \in Issues \cup Receives : x \in Transfers /\ status'[x] = status[x]
  BY <1>1 DEF ExistingStay, Transfers
<1>3. \A x \in Blind \cup Witness : x \in Receives
  BY DEF Receives
<1>4. \A c \in colorings : c.by \in Transfers
  BY DEF IInv, TypeOK, Colorings
<1>5. RowInv'
  BY <1>1, <1>2, <1>3, OwnTxos DEF IInv, LedgerInv, RowInv
<1>6. SpentInv'
  BY <1>1, OwnTxos DEF IInv, LedgerInv, SendInv, SpentInv
<1>7. PlanInv'
  BY <1>1, <1>2, PlanKept DEF Saved
<1>8. SealInv' /\ ColoringInv'
  BY <1>1, <1>2, <1>3, <1>4, SealKept, ColoringKept
<1>9. SendInv'
  BY <1>1, <1>2, <1>3, <1>6, OwnTxos, SendKept DEF Acting, Saved
<1>. QED
  BY <1>5, <1>7, <1>8, <1>9 DEF LedgerInv

LEMMA FailStep ==
  ASSUME IInv, TypeOK', NEW t \in Receives \cup Sends, Fail(t) PROVE LedgerInv'
<1>1. /\ t \in Transfers /\ status[t] = "WaitingCounterparty" /\ (t \in Sends => t \notin published)
      /\ \A x \in Transfers \ {t} : status'[x] = status[x]
      /\ status'[t] = "Failed"
      /\ UNCHANGED <<txos, colorings, seal, requested, scripts, plan, published>>
  BY OwnTxos DEF Fail, IInv, TypeOK, Transfers
<1>2. ExistingStay /\ \A x \in Issues \cup Receives : x \in Transfers
  BY <1>1 DEF ExistingStay, Transfers
<1>3. \A x \in Blind \cup Witness : x \in Receives
  BY DEF Receives
<1>4. \A c \in colorings : c.by \in Transfers /\ (c.by = t => t \in Sends)
  BY <1>1 DEF IInv, LedgerInv, ColoringInv, TypeOK, Colorings
<1>5. RowInv'
  BY <1>1, <1>2, <1>3, OwnTxos DEF IInv, LedgerInv, RowInv
<1>6. SpentInv'
  BY <1>1, OwnTxos DEF IInv, LedgerInv, SendInv, SpentInv
<1>7. PlanInv'
  BY <1>1, <1>2, PlanKept DEF Saved
<1>8. SealInv' /\ ColoringInv'
  BY <1>1, <1>2, <1>3, <1>4, SealKept, ColoringKept
<1>9. SendInv'
  BY <1>1, <1>2, <1>3, <1>6, OwnTxos, SendKept DEF Acting, Saved
<1>. QED
  BY <1>5, <1>7, <1>8, <1>9 DEF LedgerInv

LEMMA DeleteStep ==
  ASSUME IInv, TypeOK', NEW t \in Receives \cup Sends, Delete(t) PROVE LedgerInv'
<1>1. /\ t \in Transfers /\ status[t] = "Failed"
      /\ \A x \in Transfers \ {t} : status'[x] = status[x]
      /\ status'[t] = "Gone"
      /\ UNCHANGED <<seal, requested, scripts, plan, published>>
  BY OwnTxos DEF Delete, IInv, TypeOK, Transfers
<1>2. \A c \in colorings : c.by \in Transfers /\ c.txo \in Txos /\ (c.by = t => t \in Sends)
  BY <1>1 DEF IInv, LedgerInv, ColoringInv, TypeOK, Colorings
(* Only the output of t itself can lose its row.                           *)
<1>3. ASSUME NEW u \in Txos, Deletes(t, u)
      PROVE  u = t /\ t \in Sends /\ ~txos[u].exists /\ \A c \in colorings : c.txo = u => c.by = t
  BY <1>2, <1>3 DEF Deletes, On, IInv, LedgerInv, ColoringInv
<1>4. colorings' = {c \in colorings : c.by # t}
  BY <1>2, <1>3 DEF Delete
<1>5. \A u \in Txos : txos'[u] = txos[u] \/ (txos'[u] = NoRow /\ u = t /\ t \in Sends /\ ~txos[u].exists)
  BY <1>3 DEF Delete
<1>6. ExistingStay /\ \A x \in Issues \cup Receives : x \in Transfers
  BY <1>5 DEF ExistingStay, Transfers
<1>7. \A x \in Blind \cup Witness : x \in Receives /\ x \notin Sends
  BY ConstantsAssumption DEF Receives
<1>8. RowInv'
  BY <1>1, <1>5, <1>6, <1>7, OwnTxos DEF IInv, LedgerInv, RowInv, NoRow
<1>9. SpentInv'
  BY <1>1, <1>5, OwnTxos DEF IInv, LedgerInv, SendInv, InputInv, SpentInv, Acting, TypeOK, Plans
<1>10. PlanInv'
  BY <1>1, <1>2, <1>4, <1>6, PlanKept DEF Saved
<1>11. SealInv' /\ ColoringInv'
  BY <1>1, <1>2, <1>4, <1>6, <1>7, SealKept, ColoringKept
<1>12. SendInv'
  BY <1>1, <1>6, <1>7, <1>9, OwnTxos, SendKept DEF Acting, Saved
<1>. QED
  BY <1>8, <1>10, <1>11, <1>12 DEF LedgerInv

LEMMA SendAbortedStep ==
  ASSUME IInv, TypeOK', NEW s \in Sends, SendAborted(s) PROVE LedgerInv'
<1>1. /\ s \in Transfers /\ s \notin Issues \cup Receives /\ status[s] = "Prepared"
      /\ \A t \in Transfers \ {s} : status'[t] = status[t] /\ plan'[t] = plan[t]
      /\ status'[s] = "Gone"
      /\ UNCHANGED <<txos, colorings, seal, requested, scripts, published>>
  BY ConstantsAssumption, OwnTxos DEF SendAborted, IInv, TypeOK
<1>2. \A x \in Issues \cup Receives : x \in Transfers /\ x # s
  BY <1>1 DEF Transfers
<1>3. \A x \in Blind \cup Witness : x \in Receives
  BY DEF Receives
<1>4. \A c \in colorings : c.by \in Transfers /\ c.by # s
  BY <1>1 DEF IInv, LedgerInv, ColoringInv, TypeOK, Colorings
<1>5. s \notin published
  BY <1>1 DEF IInv, LedgerInv, RowInv
<1>6. \A x \in Sends : x \in Transfers /\ (Acting(x)' => Acting(x) /\ x # s)
  BY <1>1, <1>5, OwnTxos DEF Acting, Saved
<1>7. RowInv' /\ SealInv'
  BY <1>1, <1>2, <1>3, OwnTxos DEF IInv, LedgerInv, RowInv, SealInv
<1>8. ColoringInv'
  BY <1>1, <1>4 DEF IInv, LedgerInv, ColoringInv
<1>9. PlanInv'
  BY <1>1, <1>2, <1>4, <1>6 DEF IInv, LedgerInv, PlanInv, Saved
<1>10. InputInv' /\ SpentInv' /\ DisjointInv' /\ AwaitedInv'
  BY <1>1, <1>2, <1>3, <1>5, <1>6
  DEF IInv, LedgerInv, SendInv, InputInv, SpentInv, DisjointInv, AwaitedInv
<1>11. BroughtInv'
  BY <1>1, <1>6 DEF IInv, LedgerInv, SendInv, BroughtInv, Saved
<1>. QED
  BY <1>7, <1>8, <1>9, <1>10, <1>11 DEF LedgerInv, SendInv

LEMMA SyncedNothing ==
  ASSUME NEW rows \in [Txos -> Rows] PROVE Synced(rows, {}) = rows
BY DEF Synced

LEMMA BroadcastStep ==
  ASSUME IInv, TypeOK', NEW s \in Sends, Broadcast(s) PROVE LedgerInv'
<1> DEFINE rows == SpendInputs(txos, s)
<1>1. /\ s \in Transfers /\ s \notin Issues \cup Receives /\ status[s] = "WaitingCounterparty"
      /\ \A t \in Transfers \ {s} : status'[t] = status[t]
      /\ status'[s] \in {"WaitingCounterparty", "WaitingConfirmations"}
      /\ published' = published \cup {s}
      /\ UNCHANGED <<colorings, seal, requested, plan>>
  BY ConstantsAssumption, OwnTxos DEF Broadcast, IInv, TypeOK
<1>2. /\ rows \in [Txos -> Rows] /\ SameButSpent(rows)
      /\ \A u \in plan[s].inputs : rows[u].spent
  BY SpendInputsFacts DEF IInv
<1>3. PICK seen \in SUBSET Outputs(published') : txos' = Synced(rows, seen) /\ scripts' = scripts \ seen
  <2>1. CASE txos' = rows /\ scripts' = scripts
    BY <1>2, <2>1, SyncedNothing
  <2>. QED
    BY <2>1 DEF Broadcast
<1>. HIDE DEF rows
<1>4. /\ \A u \in Txos : txos'[u].exists => txos'[u].known
      /\ \A r \in Witness : status[r] # "Absent" =>
            IF txos'[r].known THEN txos'[r].pendingWitness \/ status[r] = "Settled" ELSE r \in scripts'
      /\ \A u \in Txos : ~txos[u].known /\ txos'[u].known => u \in published'
      /\ \A u \in Txos : txos[u].known => txos'[u].known /\ txos'[u].spent = rows[u].spent
      /\ ExistingStay
  BY <1>2, <1>3, SyncedRows DEF Outputs, ExistingStay
<1>5. \A x \in Issues \cup Receives : x \in Transfers /\ x # s /\ status'[x] = status[x]
  BY <1>1 DEF Transfers
<1>6. \A x \in Blind \cup Witness : x \in Receives
  BY DEF Receives
<1>7. \A c \in colorings : c.by \in Transfers
  BY DEF IInv, TypeOK, Colorings
<1>8. RowInv'
  BY <1>1, <1>4, <1>5, <1>6, OwnTxos DEF IInv, LedgerInv, RowInv
<1>9. Acting(s)
  BY <1>1 DEF Acting, Saved
<1>10. SpentInv'
  <2>1. \A x \in Sends : x \in Transfers /\ plan[x].inputs \subseteq Txos
    BY OwnTxos DEF IInv, TypeOK, Plans
  <2>2. \A x \in Sends : Acting(x) => \A u \in plan[x].inputs : txos[u].known
    BY <2>1 DEF IInv, LedgerInv, RowInv, SendInv, InputInv
  <2>3. \A x \in Sends \cap published' : Acting(x)
    BY <1>1, <1>9 DEF Acting
  <2>4. \A x \in Sends \cap published' : \A u \in plan[x].inputs : txos'[u].spent
    BY <1>1, <1>2, <1>4, <2>1, <2>2, <2>3 DEF SameButSpent, IInv, LedgerInv, SendInv, SpentInv
  <2>5. \A x \in Sends : status'[x] \in {"WaitingConfirmations", "Settled"} => x \in published'
    BY <1>1, <2>1 DEF IInv, LedgerInv, SendInv, SpentInv
  <2>. QED
    BY <1>1, <2>4, <2>5 DEF SpentInv
<1>11. PlanInv'
  BY <1>1, <1>4, <1>5, PlanKept DEF Saved
<1>12. SealInv' /\ ColoringInv'
  BY <1>1, <1>4, <1>5, <1>6, <1>7, SealKept, ColoringKept
<1>13. SendInv'
  BY <1>1, <1>4, <1>5, <1>6, <1>9, <1>10, OwnTxos, SendKept DEF Acting, Saved
<1>. QED
  BY <1>8, <1>11, <1>12, <1>13 DEF LedgerInv

(* No blinded receive waits for its counterparty on a usable UTXO.         *)
LEMMA NoneAwaited ==
  ASSUME NEW u, PendingBlinded(u) = 0, NEW r \in Blind, status[r] = "WaitingCounterparty"
  PROVE  u \notin seal[r]
<1> DEFINE waiting == {x \in Blind : status[x] = "WaitingCounterparty" /\ u \in seal[x]}
<1>1. IsFiniteSet(waiting)
  BY ConstantsAssumption, FS_Subset
<1>2. Cardinality(waiting) = 0
  BY DEF PendingBlinded
<1>3. waiting = {}
  BY <1>1, <1>2, FS_EmptySet
<1>. QED
  BY <1>3

LEMMA SendBeginStep ==
  ASSUME IInv, TypeOK', ~Interleaved, ~FeeInputs, NEW s \in Sends, SendBegin(s) PROVE LedgerInv'
<1>1. /\ s \in Transfers /\ s \in Txos /\ s \notin Issues \cup Receives /\ s \notin Witness /\ s \notin Blind
      /\ status[s] = "Absent" /\ Ready
      /\ \A t \in Transfers \ {s} : status'[t] = status[t]
      /\ status'[s] = "Prepared"
      /\ UNCHANGED <<txos, colorings, seal, requested, scripts, published>>
  BY ConstantsAssumption, OwnTxos DEF SendBegin, IInv, TypeOK, Receives
<1>2. PICK p \in Plans, rgb \in SUBSET Txos, fee \in SUBSET Txos, to \in Txos : Prepares(s, p, rgb, fee, to)
  BY SendBeginFacts DEF IInv
<1>3. /\ plan'[s] = p /\ \A t \in Transfers \ {s} : plan'[t] = plan[t]
      /\ p.inputs = rgb /\ p.takes = Assigned(rgb)
      /\ \A k \in p.brings : k.txo = to
  BY <1>1, <1>2 DEF Prepares, IInv, TypeOK
<1>4. \A u \in rgb : /\ txos[u].known /\ ~txos[u].spent /\ txos[u].exists /\ ~txos[u].pendingWitness
                     /\ ~TakenByWaitingSend(u) /\ PendingBlinded(u) = 0
                     /\ \A c \in colorings : c.txo = u /\ Incoming(c) => ~Pending(c)
  BY <1>2 DEF Prepares, InputUnspents, Unspent, UsableAsInput, On
<1>5. \A x \in Sends, u \in rgb : Acting(x) => u \notin plan[x].inputs
  BY <1>1, <1>4, FreeUtxo
<1>6. s \notin published /\ ~txos[s].known /\ ~Acting(s)
  BY <1>1 DEF IInv, LedgerInv, RowInv, Acting, Saved
<1>7. /\ \A k \in Assigned(rgb) : k.txo \in rgb
      /\ \A c \in colorings : c.txo \in rgb /\ Incoming(c) /\ status[c.by] = "Settled"
                              => AllocOf(c) \in Assigned(rgb)
  BY AssignedFacts DEF IInv
<1>8. \A c \in colorings : /\ c.by \in Transfers /\ c.by # s /\ c.txo \in Txos
                           /\ AllocOf(c).txo = c.txo
  BY <1>1, AllocOfType DEF IInv, LedgerInv, ColoringInv, TypeOK, Colorings
<1>9. ASSUME NEW u \in rgb PROVE \E k \in Assigned(rgb) : k.txo = u
  <2>1. PICK c \in colorings : c.txo = u /\ status[c.by] = "Settled"
    BY <1>2 DEF Prepares, SpendableOn, On
  <2>2. Incoming(c)
    <3> SUFFICES ASSUME ~Incoming(c) PROVE FALSE
      OBVIOUS
    <3>1. c.by \in Sends /\ AllocOf(c) \in plan[c.by].takes
      BY DEF IInv, LedgerInv, ColoringInv
    <3>2. Acting(c.by)
      BY <2>1 DEF Acting, Saved
    <3>3. u \in plan[c.by].inputs
      BY <1>8, <2>1, <3>1, <3>2 DEF IInv, LedgerInv, SendInv, InputInv
    <3>. QED
      BY <1>5, <3>1, <3>2, <3>3
  <2>. QED
    BY <1>7, <1>8, <2>1, <2>2
<1>10. \A u \in rgb : u \in Witness => status[u] = "Settled"
  BY <1>4 DEF IInv, LedgerInv, RowInv
(* What a saved transfer has brought to an input is taken along.           *)
<1>11. ASSUME NEW t \in Transfers, Saved(t), NEW k \in plan[t].brings, k.txo \in rgb
       PROVE  status[t] = "Settled" /\ k \in Assigned(rgb)
  <2>1. PICK c \in colorings : Incoming(c) /\ c.by = t /\ AllocOf(c) = k
    BY <1>11 DEF IInv, LedgerInv, PlanInv
  <2>2. c.txo \in rgb
    BY <1>8, <1>11, <2>1
  <2>3. ~Pending(c)
    BY <1>4, <2>1, <2>2
  <2>4. status[t] = "Settled"
    BY <1>11, <2>1, <2>3 DEF Saved, Pending
  <2>. QED
    BY <1>7, <2>1, <2>2, <2>4
<1>12. \A x \in Sends : Acting(x) => to \notin plan[x].inputs
  <2>1. CASE to = s
    BY <1>6, <2>1 DEF IInv, LedgerInv, RowInv, SendInv, InputInv
  <2>2. CASE to \in GetUtxo(rgb \cup fee, TRUE)
    <3>1. ~txos[to].spent /\ ~TakenByWaitingSend(to)
      BY <2>2, GetUtxoFacts, Zenon
    <3>. QED
      BY <1>1, <3>1, FreeUtxo
  <2>. QED
    BY <1>2, <2>1, <2>2 DEF Prepares
<1>13. to \notin rgb /\ (to = s \/ txos[to].exists)
  <2>1. CASE to = s
    BY <1>4, <1>6, <2>1
  <2>2. CASE to \in GetUtxo(rgb \cup fee, TRUE)
    BY <2>2, GetUtxoFacts, Zenon
  <2>. QED
    BY <1>2, <2>1, <2>2 DEF Prepares
<1>14. \A x \in Sends : x \in Transfers /\ (x # s => (Acting(x)' <=> Acting(x)))
  BY <1>1, OwnTxos DEF Acting, Saved
<1>15. \A x \in Issues \cup Receives : x \in Transfers /\ x # s
  BY <1>1 DEF Transfers
<1>16. \A x \in Blind \cup Witness : x \in Receives
  BY DEF Receives
<1>17. RowInv'
  BY <1>1, <1>6, <1>15, <1>16, OwnTxos DEF IInv, LedgerInv, RowInv
<1>18. ColoringInv'
  BY <1>1, <1>3, <1>8 DEF IInv, LedgerInv, ColoringInv
<1>19. PlanInv'
  BY <1>1, <1>3, <1>13, <1>14, <1>15 DEF IInv, LedgerInv, PlanInv, Saved
<1>20. SealInv'
  BY <1>1, <1>3, <1>15, <1>16 DEF IInv, LedgerInv, SealInv
<1>21. InputInv'
  <2> SUFFICES ASSUME NEW x \in Sends, Acting(x)'
               PROVE  /\ \A u \in plan'[x].inputs : /\ txos[u].exists
                                                    /\ \E k \in plan'[x].takes : k.txo = u
                                                    /\ u \in Witness => status'[u] = "Settled"
                      /\ \A k \in plan'[x].takes : k.txo \in plan'[x].inputs
    BY <1>1 DEF InputInv
  <2>1. CASE x = s
    BY <1>1, <1>3, <1>4, <1>7, <1>9, <1>10, <1>15, <1>16, <2>1
  <2>2. CASE x # s
    BY <1>1, <1>3, <1>14, <1>15, <1>16, <2>2 DEF IInv, LedgerInv, SendInv, InputInv
  <2>. QED
    BY <2>1, <2>2
<1>22. SpentInv'
  BY <1>1, <1>3, <1>6, <1>14 DEF IInv, LedgerInv, SendInv, SpentInv
<1>23. DisjointInv'
  BY <1>3, <1>5, <1>14 DEF IInv, LedgerInv, SendInv, DisjointInv
<1>24. AwaitedInv'
  <2>1. ASSUME NEW r \in Blind, status[r] \in {"WaitingCounterparty", "WaitingConfirmations"},
               NEW u \in rgb
        PROVE  u \notin seal[r]
    <3>1. CASE status[r] = "WaitingCounterparty"
      BY <1>4, <3>1, NoneAwaited
    <3>2. CASE status[r] = "WaitingConfirmations"
      <4> SUFFICES ASSUME u \in seal[r] PROVE FALSE
        OBVIOUS
      <4>1. r \in Transfers /\ Saved(r)
        BY <1>15, <1>16, <3>2 DEF Saved
      <4>2. PICK k \in plan[r].brings : k.txo = u
        BY <3>2 DEF IInv, LedgerInv, SealInv
      <4>. QED
        BY <1>11, <3>2, <4>1, <4>2
    <3>. QED
      BY <2>1, <3>1, <3>2
  <2>. QED
    BY <1>1, <1>3, <1>14, <1>15, <1>16, <2>1 DEF IInv, LedgerInv, SendInv, AwaitedInv
<1>25. BroughtInv'
  <2> SUFFICES ASSUME NEW x \in Sends, NEW t \in Transfers, Acting(x)',
                      (Saved(t) \/ status[t] = "Prepared")',
                      NEW k \in plan'[t].brings, k.txo \in plan'[x].inputs
               PROVE  k \in plan'[x].takes
    BY DEF BroughtInv
  <2>1. t # s => Saved(t)' /\ Saved(t) /\ plan'[t] = plan[t]
    <3>1. t # s => status'[t] = status[t] /\ status[t] # "Prepared"
      BY <1>1 DEF Ready, Transfers, IInv, LedgerInv, RowInv
    <3>. QED
      BY <1>3, <3>1 DEF Saved
  <2>2. CASE x = s /\ t = s
    BY <1>3, <1>13, <2>2
  <2>3. CASE x = s /\ t # s
    BY <1>3, <1>11, <2>1, <2>3
  <2>4. CASE x # s /\ t = s
    BY <1>3, <1>12, <1>14, <2>4
  <2>5. CASE x # s /\ t # s
    BY <1>3, <1>14, <2>1, <2>5 DEF IInv, LedgerInv, SendInv, BroughtInv
  <2>. QED
    BY <2>2, <2>3, <2>4, <2>5
<1>. QED
  BY <1>17, <1>18, <1>19, <1>20, <1>21, <1>22, <1>23, <1>24, <1>25 DEF LedgerInv, SendInv

LEMMA OwnRowFacts ==
  ASSUME NEW rows \in [Txos -> Rows], NEW s \in Sends
  PROVE  /\ \A u \in Txos : u # s \/ rows[u].known => OwnRow(rows, s)[u] = rows[u]
         /\ OwnRow(rows, s)[s] = rows[s] \/ (~rows[s].known /\ OwnRow(rows, s)[s] = Row(FALSE, FALSE))
BY OwnTxos DEF OwnRow

(* _save_transfers writes the colorings that the plan of a send speaks of. *)
LEMMA SaveStep ==
  ASSUME IInv, NEW s \in Sends, status[s] = "Prepared", ExistingStay, UNCHANGED plan,
         colorings' = ColorSend(s),
         status'[s] \in {"WaitingCounterparty", "WaitingConfirmations"},
         \A t \in Transfers \ {s} : status'[t] = status[t]
  PROVE  ColoringInv' /\ PlanInv'
<1>1. s \in Transfers /\ plan[s].takes \in SUBSET Allocations /\ plan[s].brings \in SUBSET Allocations
  BY OwnTxos DEF IInv, TypeOK, Plans
<1>. "Input" \in Types /\ "Change" \in Types
  BY DEF Types
<1>2. /\ Color(plan[s].takes, s, "Input") \subseteq Colorings
      /\ \A c \in Color(plan[s].takes, s, "Input") :
            c.by = s /\ c.type = "Input" /\ AllocOf(c) \in plan[s].takes
      /\ \A k \in plan[s].takes : \E c \in Color(plan[s].takes, s, "Input") : AllocOf(c) = k
  BY <1>1, ColorFacts
<1>3. /\ Color(plan[s].brings, s, "Change") \subseteq Colorings
      /\ \A c \in Color(plan[s].brings, s, "Change") :
            c.by = s /\ c.type = "Change" /\ AllocOf(c) \in plan[s].brings
      /\ \A k \in plan[s].brings : \E c \in Color(plan[s].brings, s, "Change") : AllocOf(c) = k
  BY <1>1, ColorFacts
<1>4. colorings' = colorings \cup Color(plan[s].takes, s, "Input") \cup Color(plan[s].brings, s, "Change")
  BY DEF ColorSend
<1>5. Acting(s)
  BY DEF Acting
<1>6. ColoringInv'
  <2> SUFFICES ASSUME NEW c \in colorings'
               PROVE  /\ \/ status'[c.by] \in {"WaitingConfirmations", "Settled"}
                         \/ c.by \in Sends /\ status'[c.by] \in {"WaitingCounterparty", "Failed"}
                      /\ ~txos'[c.txo].exists => c.by = c.txo
                      /\ ~Incoming(c) => c.by \in Sends /\ AllocOf(c) \in plan'[c.by].takes
    BY DEF ColoringInv
  <2>1. CASE c \in colorings
    <3>1. c.by \in Transfers /\ c.by # s /\ c.txo \in Txos
      BY <2>1 DEF IInv, LedgerInv, ColoringInv, TypeOK, Colorings
    <3>. QED
      BY <2>1, <3>1 DEF IInv, LedgerInv, ColoringInv, ExistingStay
  <2>2. CASE c \in Color(plan[s].takes, s, "Input")
    <3>1. c.txo \in Txos /\ txos[c.txo].exists
      <4>1. c.txo = AllocOf(c).txo /\ c.txo \in Txos
        BY <1>2, <2>2, AllocOfType DEF Colorings
      <4>. QED
        BY <1>2, <1>5, <2>2, <4>1 DEF IInv, LedgerInv, SendInv, InputInv
    <3>. QED
      BY <1>2, <2>2, <3>1 DEF ExistingStay
  <2>3. CASE c \in Color(plan[s].brings, s, "Change")
    <3>1. c.txo = AllocOf(c).txo /\ c.txo \in Txos
      BY <1>3, <2>3, AllocOfType DEF Colorings
    <3>2. c.txo = s \/ txos[c.txo].exists
      BY <1>3, <2>3, <3>1 DEF IInv, LedgerInv, PlanInv
    <3>. QED
      BY <1>3, <2>3, <3>1, <3>2 DEF ExistingStay, Incoming
  <2>. QED
    BY <1>4, <2>1, <2>2, <2>3
<1>7. PlanInv'
  <2>1. \A x \in Sends : x \in Transfers /\ \A k \in plan[x].brings : k.txo \in Txos
    BY OwnTxos DEF IInv, TypeOK, Plans, Allocations
  <2>2. \A t \in Receives : t \in Transfers /\ t # s
    BY ConstantsAssumption DEF Transfers
  <2>3. /\ \A k \in plan[s].takes : \E c \in colorings' : ~Incoming(c) /\ c.by = s /\ AllocOf(c) = k
        /\ \A k \in plan[s].brings : \E c \in colorings' : Incoming(c) /\ c.by = s /\ AllocOf(c) = k
    BY <1>2, <1>3, <1>4 DEF Incoming
  <2>4. \A t \in Transfers \ {s} : Saved(t)' <=> Saved(t)
    BY DEF Saved
  <2>5. colorings \subseteq colorings'
    BY <1>4
  <2>. QED
    BY <1>1, <2>1, <2>2, <2>3, <2>4, <2>5 DEF IInv, LedgerInv, PlanInv, ExistingStay
<1>. QED
  BY <1>6, <1>7

LEMMA SendEndStep ==
  ASSUME IInv, TypeOK', NEW s \in Sends, SendEnd(s) PROVE LedgerInv'
<1>1. /\ s \in Transfers /\ s \in Txos /\ s \notin Issues \cup Receives /\ s \notin Blind \cup Witness
      /\ status[s] = "Prepared"
      /\ \A t \in Transfers \ {s} : status'[t] = status[t]
      /\ status'[s] = "WaitingCounterparty"
      /\ txos' = OwnRow(txos, s) /\ colorings' = ColorSend(s)
      /\ UNCHANGED <<seal, requested, scripts, plan, published>>
  BY ConstantsAssumption, OwnTxos DEF SendEnd, IInv, TypeOK, Receives
<1>2. ~txos[s].known /\ ~txos[s].exists
  BY <1>1 DEF IInv, LedgerInv, RowInv
<1>3. /\ \A u \in Txos \ {s} : txos'[u] = txos[u]
      /\ ~txos'[s].exists
  <2>1. ~Row(FALSE, FALSE).exists
    BY DEF Row
  <2>. QED
    BY <1>1, <1>2, <2>1, OwnRowFacts DEF IInv, TypeOK
<1>4. ExistingStay
  BY <1>2, <1>3 DEF ExistingStay
<1>5. \A x \in Issues \cup Receives : x \in Transfers /\ x # s
  BY <1>1 DEF Transfers
<1>6. \A x \in Blind \cup Witness : x \in Receives /\ x # s
  BY <1>1 DEF Receives
<1>7. RowInv'
  BY <1>1, <1>3, <1>5, <1>6, OwnTxos DEF IInv, LedgerInv, RowInv
<1>8. SpentInv'
  <2>1. s \notin published /\ \A x \in Sends : x \in Transfers
    BY <1>1, OwnTxos DEF IInv, LedgerInv, RowInv
  <2>2. \A x \in Sends \cap published : \A u \in plan[x].inputs : u \in Txos /\ u # s
    BY <1>2, OwnTxos DEF IInv, LedgerInv, SendInv, InputInv, Acting, TypeOK, Plans
  <2>. QED
    BY <1>1, <1>3, <2>1, <2>2 DEF IInv, LedgerInv, SendInv, SpentInv
<1>9. ColoringInv' /\ PlanInv'
  BY <1>1, <1>4, SaveStep
<1>10. SealInv'
  BY <1>1, <1>4, <1>5, <1>6, SealKept
<1>11. SendInv'
  BY <1>1, <1>4, <1>5, <1>6, <1>8, OwnTxos, SendKept DEF Acting, Saved
<1>. QED
  BY <1>7, <1>9, <1>10, <1>11 DEF LedgerInv

LEMMA SendDonationStep ==
  ASSUME IInv, TypeOK', NEW s \in Sends, SendDonation(s) PROVE LedgerInv'
<1> DEFINE rows == SpendInputs(txos, s)
<1>1. /\ s \in Transfers /\ s \in Txos /\ s \notin Issues \cup Receives /\ s \notin Blind \cup Witness
      /\ status[s] = "Prepared" /\ s \notin published /\ ~txos[s].known
      /\ \A t \in Transfers \ {s} : status'[t] = status[t]
      /\ status'[s] \in {"WaitingConfirmations", "Gone"}
      /\ published' = published \cup {s}
      /\ UNCHANGED <<seal, requested, plan>>
  BY ConstantsAssumption, OwnTxos DEF SendDonation, IInv, TypeOK, LedgerInv, RowInv, Receives
<1>2. /\ rows \in [Txos -> Rows] /\ SameButSpent(rows)
      /\ \A u \in plan[s].inputs : rows[u].spent
  BY SpendInputsFacts DEF IInv
(* Either way the rows are those of a sync, but for the row of the change. *)
<1>3. PICK seen \in SUBSET Outputs(published') :
         /\ scripts' = scripts \ seen
         /\ txos' = Synced(rows, seen) \/ txos' = OwnRow(Synced(rows, seen), s)
  <2>1. CASE txos' = rows /\ scripts' = scripts
    BY <1>2, <2>1, SyncedNothing
  <2>. QED
    BY <2>1 DEF SendDonation
<1> DEFINE synced == Synced(rows, seen)
<1>4. synced \in [Txos -> Rows]
  BY <1>2, SyncedType
<1>5. /\ \A u \in Txos : synced[u].exists => synced[u].known
      /\ \A r \in Witness : status[r] # "Absent" =>
            IF synced[r].known THEN synced[r].pendingWitness \/ status[r] = "Settled" ELSE r \in scripts'
      /\ \A u \in Txos : ~txos[u].known /\ synced[u].known => u \in published'
      /\ \A u \in Txos : txos[u].known => synced[u].known /\ synced[u].spent = rows[u].spent
      /\ \A u \in Txos : txos[u].exists => synced[u].exists
  BY <1>2, <1>3, SyncedRows DEF Outputs
<1>6. txos' = synced \/ txos' = OwnRow(synced, s)
  BY <1>3
<1>. HIDE DEF synced, rows
<1>7. /\ \A u \in Txos : u # s \/ synced[u].known => txos'[u] = synced[u]
      /\ txos'[s] = synced[s] \/ txos'[s].known
  <2>1. Row(FALSE, FALSE).known
    BY DEF Row
  <2>2. /\ \A u \in Txos : u # s \/ synced[u].known => OwnRow(synced, s)[u] = synced[u]
        /\ OwnRow(synced, s)[s] = synced[s] \/ OwnRow(synced, s)[s] = Row(FALSE, FALSE)
    <3>1. synced \in [Txos -> Rows]
      BY <1>4
    <3>2. \A u \in Txos : u # s \/ synced[u].known => OwnRow(synced, s)[u] = synced[u]
      BY <3>1, OwnRowFacts
    <3>3. OwnRow(synced, s)[s] = synced[s] \/ OwnRow(synced, s)[s] = Row(FALSE, FALSE)
      BY <3>1, OwnRowFacts
    <3>. QED
      BY <3>2, <3>3
  <2>3. CASE txos' = synced
    BY <2>3
  <2>4. CASE txos' = OwnRow(synced, s)
    BY <1>1, <2>1, <2>2, <2>4
  <2>. QED
    BY <1>6, <2>3, <2>4
<1>8. ExistingStay
  BY <1>5, <1>7 DEF ExistingStay
<1>9. \A x \in Issues \cup Receives : x \in Transfers /\ x # s /\ status'[x] = status[x]
  BY <1>1 DEF Transfers
<1>10. \A x \in Blind \cup Witness : x \in Receives /\ x # s
  BY <1>1 DEF Receives
<1>11. RowInv'
  <2>1. \A u \in Txos : txos'[u].exists => txos'[u].known
    BY <1>5, <1>7
  <2>2. ASSUME NEW t \in Witness \cup Sends, status'[t] \in {"Absent", "Prepared"}
        PROVE  t \notin published' /\ ~txos'[t].known
    <3>1. t # s /\ t \in Txos /\ t \in Transfers
      BY <1>1, <2>2, OwnTxos
    <3>2. t \notin published' /\ ~txos[t].known
      BY <1>1, <2>2, <3>1 DEF IInv, LedgerInv, RowInv
    <3>. QED
      BY <1>5, <1>7, <3>1, <3>2
  <2>3. ASSUME NEW r \in Witness
        PROVE  /\ status'[r] # "Absent" => IF txos'[r].known THEN txos'[r].pendingWitness \/ status'[r] = "Settled"
                                                             ELSE r \in scripts'
               /\ status'[r] \in {"WaitingConfirmations", "Settled"} => txos'[r].known
    <3>1. r \in Txos /\ r \in Receives /\ r # s
      BY <1>10, OwnTxos
    <3>2. txos'[r] = synced[r] /\ status'[r] = status[r]
      BY <1>7, <1>9, <3>1
    <3>. QED
      BY <1>5, <3>1, <3>2 DEF IInv, LedgerInv, RowInv
  <2>. QED
    BY <1>9, <2>1, <2>2, <2>3 DEF IInv, LedgerInv, RowInv
<1>12. Acting(s)
  BY <1>1 DEF Acting
<1>13. SpentInv'
  <2>1. \A x \in Sends : x \in Transfers /\ plan[x].inputs \subseteq Txos
    BY OwnTxos DEF IInv, TypeOK, Plans
  <2>2. \A x \in Sends : Acting(x) => \A u \in plan[x].inputs : txos[u].known
    BY <2>1 DEF IInv, LedgerInv, RowInv, SendInv, InputInv
  <2>3. \A x \in Sends \cap published' : Acting(x)
    BY <1>1, <1>12 DEF Acting
  <2>4. \A x \in Sends \cap published' : \A u \in plan[x].inputs : txos'[u].spent
    <3>1. \A x \in Sends \cap published' : \A u \in plan[x].inputs : rows[u].spent
      BY <1>1, <1>2, <2>1 DEF SameButSpent, IInv, LedgerInv, SendInv, SpentInv
    <3>2. \A x \in Sends \cap published' : \A u \in plan[x].inputs :
             txos'[u] = synced[u] /\ synced[u].spent = rows[u].spent
      BY <1>5, <1>7, <2>1, <2>2, <2>3
    <3>. QED
      BY <3>1, <3>2
  <2>5. \A x \in Sends : status'[x] \in {"WaitingConfirmations", "Settled"} => x \in published'
    BY <1>1, <2>1 DEF IInv, LedgerInv, SendInv, SpentInv
  <2>. QED
    BY <1>1, <2>4, <2>5 DEF SpentInv
<1>14. ColoringInv' /\ PlanInv'
  <2>1. CASE status'[s] = "WaitingConfirmations"
    <3>1. colorings' = ColorSend(s)
      BY <1>1, <2>1 DEF SendDonation, IInv, TypeOK
    <3>. QED
      BY <1>1, <1>8, <2>1, <3>1, SaveStep
  <2>2. CASE status'[s] = "Gone"
    <3>1. colorings' = colorings
      BY <1>1, <2>2 DEF SendDonation, IInv, TypeOK
    <3>2. \A c \in colorings : c.by \in Transfers /\ c.by # s
      BY <1>1 DEF IInv, LedgerInv, ColoringInv, TypeOK, Colorings
    <3>3. ColoringInv'
      BY <1>1, <1>8, <3>1, <3>2, ColoringKept
    <3>4. PlanInv'
      BY <1>1, <1>8, <1>9, <2>2, <3>1, PlanKept DEF Saved
    <3>. QED
      BY <3>3, <3>4
  <2>. QED
    BY <1>1, <2>1, <2>2
<1>15. SealInv'
  BY <1>1, <1>8, <1>9, <1>10, SealKept
<1>16. SendInv'
  BY <1>1, <1>8, <1>9, <1>10, <1>12, <1>13, OwnTxos, SendKept DEF Acting, Saved
<1>. QED
  BY <1>11, <1>14, <1>15, <1>16 DEF LedgerInv

-----------------------------------------------------------------------------
(* Disjoint sends.  A smaller invariant, which holds for fee inputs too:   *)
(* it speaks of the UTXOs a send takes allocations from, and leaves alone  *)
(* those that it only spends.                                              *)

TakenInv ==
  /\ \A u \in Txos : txos[u].exists => txos[u].known
  /\ \A s \in Sends \cap published : status[s] \notin {"Absent", "Prepared"}
  /\ \A s \in Sends : status[s] \in {"WaitingConfirmations", "Settled"} => s \in published
  /\ \A s \in Sends : Acting(s) => \A k \in plan[s].takes :
        k.txo \in plan[s].inputs /\ txos[k.txo].exists
  /\ \A s \in Sends \cap published : \A k \in plan[s].takes : txos[k.txo].spent
  /\ \A s \in Sends : status[s] = "WaitingCounterparty" => \A k \in plan[s].takes :
        \E c \in colorings : ~Incoming(c) /\ c.by = s /\ AllocOf(c) = k
  /\ \A s, x \in Sends : s # x /\ Acting(s) /\ Acting(x) =>
        \A k \in plan[s].takes, l \in plan[x].takes : k.txo # l.txo

(* Rows of outputs that exist only come to be spent.                       *)
RowsStay ==
  \A u \in Txos : /\ txos[u].exists => /\ txos'[u].exists
                                       /\ txos[u].spent => txos'[u].spent
                  /\ txos'[u].exists => txos'[u].known

(* A step after which every send stands where it stood, or has been given  *)
(* up, or has gone on from the confirmation of its transaction.            *)
LEMMA TakenKept ==
  ASSUME TypeOK, TakenInv, RowsStay,
         published' \cap Sends = published \cap Sends,
         \A s \in Sends : /\ plan'[s] = plan[s]
                          /\ Acting(s)' => Acting(s)
                          /\ status'[s] = "WaitingCounterparty" => status[s] = "WaitingCounterparty"
                          /\ status'[s] \in {"WaitingConfirmations", "Settled"} => s \in published
                          /\ s \in published => status'[s] \notin {"Absent", "Prepared"},
         \A c \in colorings : /\ ~Incoming(c) /\ txos[c.txo].exists
                              /\ c.by \in Sends /\ status'[c.by] = "WaitingCounterparty"
                              => c \in colorings'
  PROVE  TakenInv'
<1>1. \A s \in Sends : \A k \in plan[s].takes : k.txo \in Txos
  BY OwnTxos DEF TypeOK, Plans, Allocations
<1>2. \A c \in colorings : AllocOf(c).txo = c.txo
  BY AllocOfType DEF TypeOK
<1>3. \A s \in Sends : s \in published => Acting(s)
  BY DEF Acting
<1>4. \A s \in Sends : status[s] = "WaitingCounterparty" => Acting(s)
  BY DEF Acting, Saved
<1>5. ASSUME NEW s \in Sends, status'[s] = "WaitingCounterparty", NEW k \in plan'[s].takes
      PROVE  \E c \in colorings' : ~Incoming(c) /\ c.by = s /\ AllocOf(c) = k
  <2>1. status[s] = "WaitingCounterparty" /\ k \in plan[s].takes /\ txos[k.txo].exists
    BY <1>4, <1>5 DEF TakenInv
  <2>2. PICK c \in colorings : ~Incoming(c) /\ c.by = s /\ AllocOf(c) = k
    BY <2>1 DEF TakenInv
  <2>. QED
    BY <1>2, <1>5, <2>1, <2>2
<1>6. \A s \in Sends : Acting(s)' => \A k \in plan'[s].takes : k.txo \in plan'[s].inputs /\ txos'[k.txo].exists
  BY <1>1 DEF TakenInv, RowsStay
<1>7. \A s \in Sends \cap published' : \A k \in plan'[s].takes : txos'[k.txo].spent
  BY <1>1, <1>3 DEF TakenInv, RowsStay
<1>8. \A s, x \in Sends : s # x /\ Acting(s)' /\ Acting(x)' =>
         \A k \in plan'[s].takes, l \in plan'[x].takes : k.txo # l.txo
  BY DEF TakenInv
<1>9. /\ \A s \in Sends \cap published' : status'[s] \notin {"Absent", "Prepared"}
      /\ \A s \in Sends : status'[s] \in {"WaitingConfirmations", "Settled"} => s \in published'
      /\ \A u \in Txos : txos'[u].exists => txos'[u].known
  BY DEF RowsStay
<1>. QED
  BY <1>5, <1>6, <1>7, <1>8, <1>9 DEF TakenInv

LEMMA SyncedStay ==
  ASSUME TypeOK, TakenInv, NEW rows \in [Txos -> Rows], SameButSpent(rows), NEW seen,
         txos' = Synced(rows, seen)
  PROVE  /\ RowsStay
         /\ \A u \in Txos : txos[u].exists /\ rows[u].spent => txos'[u].spent
<1>1. \A u \in Txos : /\ rows[u].exists => txos'[u].exists
                      /\ rows[u].known => txos'[u].known /\ txos'[u].spent = rows[u].spent
                      /\ txos'[u].exists /\ ~rows[u].exists => txos'[u].known
  BY SyncedFacts
<1>. QED
  BY <1>1 DEF TakenInv, RowsStay, SameButSpent

(* Steps of issuances and receives, and those that only read.              *)
LEMMA TakenByOthers ==
  ASSUME TypeOK, TakenInv, NEW t \in Issues \cup Receives,
         Issue(t) \/ BlindReceive(t) \/ WitnessReceive(t) \/ Acknowledge(t) \/ Pay(t) \/ ReceiveSettles(t)
  PROVE  TakenInv'
<1>1. t \in Transfers /\ t \notin Sends /\ \A s \in Sends : s \in Transfers /\ s # t
  BY ConstantsAssumption DEF Transfers
<1>2. /\ \A s \in Sends : status'[s] = status[s] /\ plan'[s] = plan[s]
      /\ published' \cap Sends = published \cap Sends
      /\ colorings \subseteq colorings'
  BY <1>1 DEF TypeOK, Issue, BlindReceive, WitnessReceive, Receive, Acknowledge, Pay, ReceiveSettles
<1>3. RowsStay
  <2>1. CASE UNCHANGED txos
    BY <2>1 DEF RowsStay, TakenInv
  <2>2. CASE Acknowledge(t) /\ txos' # txos
    <3>1. t \in Witness /\ ~txos[t].known /\ txos' = [txos EXCEPT ![t] = Row(FALSE, TRUE)]
      BY <2>2 DEF Acknowledge
    <3>2. Row(FALSE, TRUE).known
      BY DEF Row
    <3>. QED
      BY <3>1, <3>2, OwnTxos DEF TypeOK, RowsStay, TakenInv
  <2>3. CASE ReceiveSettles(t)
    <3>1. PICK seen \in SUBSET Txos : txos' = WitnessArrived(Synced(txos, seen), t)
      BY <2>3 DEF ReceiveSettles, Outputs
    <3>2. Synced(txos, seen) \in [Txos -> Rows]
      BY SyncedType DEF TypeOK
    <3>3. \A u \in Txos : /\ txos'[u].exists = Synced(txos, seen)[u].exists
                          /\ txos'[u].known = Synced(txos, seen)[u].known
                          /\ txos'[u].spent = Synced(txos, seen)[u].spent
      BY <3>1, <3>2 DEF WitnessArrived, Rows
    <3>4. \A u \in Txos :
            /\ txos[u].exists => Synced(txos, seen)[u].exists
            /\ txos[u].known => Synced(txos, seen)[u].known /\ Synced(txos, seen)[u].spent = txos[u].spent
            /\ Synced(txos, seen)[u].exists /\ ~txos[u].exists => Synced(txos, seen)[u].known
      BY SyncedFacts DEF TypeOK
    <3>. QED
      BY <3>3, <3>4 DEF RowsStay, TakenInv
  <2>. QED
    BY <2>1, <2>2, <2>3 DEF Issue, BlindReceive, WitnessReceive, Receive, Pay
<1>4. \A s \in Sends : Acting(s)' => Acting(s)
  BY <1>2 DEF Acting, Saved
<1>. QED
  BY <1>2, <1>3, <1>4, TakenKept DEF TakenInv

LEMMA TakenBySync == ASSUME TypeOK, TakenInv, Sync PROVE TakenInv'
<1>1. PICK seen : txos' = Synced(txos, seen)
  BY DEF Sync
<1>2. RowsStay
  BY <1>1, SyncedStay DEF SameButSpent, TypeOK
<1>. QED
  BY <1>2, TakenKept DEF Sync, TakenInv, Acting, Saved

LEMMA TakenByFail == ASSUME TypeOK, TakenInv, NEW t \in Receives \cup Sends, Fail(t) PROVE TakenInv'
<1>1. /\ \A s \in Sends : status'[s] = IF s = t THEN "Failed" ELSE status[s]
      /\ t \in Sends => status[t] = "WaitingCounterparty" /\ t \notin published
  BY OwnTxos DEF Fail, TypeOK
<1>2. RowsStay
  BY DEF Fail, RowsStay, TakenInv
<1>3. \A s \in Sends : Acting(s)' => Acting(s)
  BY <1>1 DEF Acting, Saved, Fail
<1>. QED
  BY <1>1, <1>2, <1>3, TakenKept DEF Fail, TakenInv

LEMMA TakenByDelete == ASSUME TypeOK, TakenInv, NEW t \in Receives \cup Sends, Delete(t) PROVE TakenInv'
<1>1. /\ \A s \in Sends : status'[s] = IF s = t THEN "Gone" ELSE status[s]
      /\ t \in Sends => status[t] = "Failed"
  BY OwnTxos DEF Delete, TypeOK
<1>2. RowsStay
  <2>1. ~NoRow.exists
    BY DEF NoRow
  <2>2. \A u \in Txos : txos'[u] = IF Deletes(t, u) THEN NoRow ELSE txos[u]
    BY DEF Delete
  <2>3. \A u \in Txos : Deletes(t, u) => ~txos[u].exists
    BY DEF Deletes
  <2>. QED
    BY <2>1, <2>2, <2>3 DEF RowsStay, TakenInv
<1>3. \A s \in Sends : Acting(s)' => Acting(s)
  BY <1>1 DEF Acting, Saved, Delete
<1>4. \A c \in colorings : txos[c.txo].exists /\ c.by # t => c \in colorings'
  BY DEF Delete, Deletes
<1>. QED
  BY <1>1, <1>2, <1>3, <1>4, TakenKept DEF Delete, TakenInv

LEMMA TakenBySettled == ASSUME TypeOK, TakenInv, NEW s \in Sends, SendSettles(s) PROVE TakenInv'
<1>1. /\ \A x \in Sends : status'[x] = IF x = s THEN "Settled" ELSE status[x]
      /\ status[s] = "WaitingConfirmations"
  BY OwnTxos DEF SendSettles, TypeOK
<1>2. RowsStay
  BY DEF SendSettles, RowsStay, TakenInv
<1>3. \A x \in Sends : Acting(x)' => Acting(x)
  BY <1>1 DEF Acting, Saved, SendSettles
<1>. QED
  BY <1>1, <1>2, <1>3, TakenKept DEF SendSettles, TakenInv

LEMMA TakenByBegin ==
  ASSUME TypeOK, TakenInv, ~Interleaved, NEW s \in Sends, SendBegin(s) PROVE TakenInv'
<1>1. PICK p \in Plans, rgb \in SUBSET Txos, fee \in SUBSET Txos, to \in Txos : Prepares(s, p, rgb, fee, to)
  BY SendBeginFacts
<1>2. /\ \A x \in Sends : /\ status'[x] = IF x = s THEN "Prepared" ELSE status[x]
                          /\ plan'[x] = IF x = s THEN p ELSE plan[x]
      /\ status[s] = "Absent" /\ s \notin published
      /\ UNCHANGED <<txos, colorings, published>>
      /\ \A x \in Sends : status[x] # "Prepared"
  BY <1>1, OwnTxos DEF SendBegin, Prepares, TypeOK, TakenInv, Ready
<1>3. \A k \in p.takes : k.txo \in rgb /\ k.txo \in p.inputs
  BY <1>1, AssignedFacts DEF Prepares
<1>4. \A u \in rgb : txos[u].exists /\ ~txos[u].spent /\ ~TakenByWaitingSend(u)
  BY <1>1 DEF Prepares, InputUnspents, UsableAsInput, Unspent
<1>5. ASSUME NEW x \in Sends, x # s, Acting(x)', NEW k \in plan[x].takes, k.txo \in rgb
      PROVE  FALSE
  <2>1. x \notin published
    BY <1>4, <1>5 DEF TakenInv
  <2>2. status[x] = "WaitingCounterparty"
    BY <1>2, <1>5, <2>1 DEF Acting, Saved, TakenInv
  <2>3. PICK c \in colorings : ~Incoming(c) /\ c.by = x /\ AllocOf(c) = k
    BY <2>2 DEF TakenInv
  <2>4. c.txo = k.txo
    BY <2>3, AllocOfType DEF TypeOK
  <2>. QED
    BY <1>4, <1>5, <2>2, <2>3, <2>4 DEF TakenByWaitingSend, On
<1>6. \A x \in Sends : x # s => (Acting(x)' <=> Acting(x))
  BY <1>2 DEF Acting, Saved
<1>7. \A x \in Sends : Acting(x)' => \A k \in plan'[x].takes :
         k.txo \in plan'[x].inputs /\ txos'[k.txo].exists
  BY <1>2, <1>3, <1>4, <1>6 DEF TakenInv
<1>8. \A x, y \in Sends : x # y /\ Acting(x)' /\ Acting(y)' =>
         \A k \in plan'[x].takes, l \in plan'[y].takes : k.txo # l.txo
  BY <1>2, <1>3, <1>5, <1>6 DEF TakenInv
<1>. QED
  BY <1>2, <1>7, <1>8 DEF TakenInv

(* send_end writes the Input colorings, so the send stays what it is.      *)
LEMMA TakenByEnd == ASSUME TypeOK, TakenInv, NEW s \in Sends, SendEnd(s) PROVE TakenInv'
<1>1. /\ \A x \in Sends : status'[x] = IF x = s THEN "WaitingCounterparty" ELSE status[x]
      /\ status[s] = "Prepared" /\ s \notin published
      /\ UNCHANGED <<plan, published>> /\ txos' = OwnRow(txos, s) /\ colorings' = ColorSend(s)
  BY OwnTxos DEF SendEnd, TypeOK, TakenInv
<1>2. RowsStay
  <2>1. Row(FALSE, FALSE).known
    BY DEF Row
  <2>2. \A u \in Txos : txos'[u] = txos[u] \/ (~txos[u].known /\ txos'[u] = Row(FALSE, FALSE))
    <3>1. txos \in [Txos -> Rows]
      BY DEF TypeOK
    <3>2. \A u \in Txos : u # s => OwnRow(txos, s)[u] = txos[u]
      BY <3>1, OwnRowFacts
    <3>3. OwnRow(txos, s)[s] = txos[s] \/ (~txos[s].known /\ OwnRow(txos, s)[s] = Row(FALSE, FALSE))
      BY <3>1, OwnRowFacts
    <3>. QED
      BY <1>1, <3>2, <3>3
  <2>. QED
    BY <2>1, <2>2 DEF RowsStay, TakenInv
<1>3. /\ colorings \subseteq colorings'
      /\ \A k \in plan[s].takes : \E c \in colorings' : ~Incoming(c) /\ c.by = s /\ AllocOf(c) = k
  <2>1. plan[s].takes \in SUBSET Allocations /\ s \in Transfers /\ "Input" \in Types
    BY OwnTxos DEF TypeOK, Plans, Types
  <2>2. /\ \A c \in Color(plan[s].takes, s, "Input") : c.by = s /\ c.type = "Input"
        /\ \A k \in plan[s].takes : \E c \in Color(plan[s].takes, s, "Input") : AllocOf(c) = k
    BY <2>1, ColorFacts
  <2>. QED
    BY <1>1, <2>2 DEF ColorSend, Incoming
<1>4. \A x \in Sends : Acting(x)' => Acting(x)
  BY <1>1 DEF Acting, Saved
<1>5. \A x \in Sends : \A k \in plan[x].takes : k.txo \in Txos
  BY OwnTxos DEF TypeOK, Plans, Allocations
<1>6. \A x \in Sends : Acting(x)' => \A k \in plan'[x].takes :
         k.txo \in plan'[x].inputs /\ txos'[k.txo].exists
  BY <1>1, <1>2, <1>4, <1>5 DEF TakenInv, RowsStay
<1>7. \A x \in Sends \cap published' : \A k \in plan'[x].takes : txos'[k.txo].spent
  BY <1>1, <1>2, <1>5 DEF TakenInv, RowsStay, Acting
<1>8. \A x \in Sends : status'[x] = "WaitingCounterparty" => \A k \in plan'[x].takes :
         \E c \in colorings' : ~Incoming(c) /\ c.by = x /\ AllocOf(c) = k
  BY <1>1, <1>3 DEF TakenInv
<1>. QED
  BY <1>1, <1>2, <1>4, <1>6, <1>7, <1>8 DEF TakenInv, RowsStay

LEMMA TakenByAborted == ASSUME TypeOK, TakenInv, NEW s \in Sends, SendAborted(s) PROVE TakenInv'
<1>1. /\ \A x \in Sends : /\ status'[x] = IF x = s THEN "Gone" ELSE status[x]
                          /\ x # s => plan'[x] = plan[x]
      /\ s \notin published /\ UNCHANGED <<txos, colorings, published>>
  BY OwnTxos DEF SendAborted, TypeOK, TakenInv
<1>2. ~Acting(s)' /\ \A x \in Sends : x # s => (Acting(x)' <=> Acting(x))
  BY <1>1 DEF Acting, Saved
<1>. QED
  BY <1>1, <1>2 DEF TakenInv

(* A broadcast spends the inputs whatever becomes of the sync that follows *)
(* it, and refused transactions leave everything as it was.                *)
LEMMA TakenByPublication ==
  ASSUME TypeOK, TakenInv, NEW s \in Sends, SendDonation(s) \/ Broadcast(s) PROVE TakenInv'
<1> DEFINE rows == SpendInputs(txos, s)
<1>1. /\ \A x \in Sends : /\ x # s => status'[x] = status[x]
                          /\ plan'[x] = plan[x]
      /\ published' = published \cup {s} /\ Acting(s)
      /\ status'[s] \in {"WaitingCounterparty", "WaitingConfirmations", "Gone"}
      /\ status'[s] = "WaitingCounterparty" => status[s] = "WaitingCounterparty"
      /\ colorings \subseteq colorings'
  BY OwnTxos DEF SendDonation, Broadcast, TypeOK, Acting, Saved, ColorSend
<1>2. /\ rows \in [Txos -> Rows] /\ SameButSpent(rows) /\ \A u \in plan[s].inputs : rows[u].spent
  BY SpendInputsFacts
<1>3. PICK seen : txos' = Synced(rows, seen) \/ txos' = OwnRow(Synced(rows, seen), s)
  <2>1. CASE txos' = rows
    BY <1>2, <2>1, SyncedNothing
  <2>. QED
    BY <2>1 DEF SendDonation, Broadcast
<1> DEFINE synced == Synced(rows, seen)
<1>4. /\ synced \in [Txos -> Rows]
      /\ \A u \in Txos : /\ rows[u].exists => synced[u].exists
                         /\ rows[u].known => synced[u].known /\ synced[u].spent = rows[u].spent
                         /\ synced[u].exists /\ ~rows[u].exists => synced[u].known
  BY <1>2, SyncedType, SyncedFacts
<1>. HIDE DEF synced, rows
<1>5. RowsStay /\ \A u \in Txos : txos[u].exists /\ rows[u].spent => txos'[u].spent
  <2>1. Row(FALSE, FALSE).known
    BY DEF Row
  <2>2. \A u \in Txos : txos'[u] = synced[u] \/ (~synced[u].known /\ txos'[u] = Row(FALSE, FALSE))
    <3>1. \A u \in Txos : \/ OwnRow(synced, s)[u] = synced[u]
                          \/ ~synced[u].known /\ OwnRow(synced, s)[u] = Row(FALSE, FALSE)
      <4>1. synced \in [Txos -> Rows]
        BY <1>4
      <4>2. \A u \in Txos : u # s => OwnRow(synced, s)[u] = synced[u]
        BY <4>1, OwnRowFacts
      <4>3. \/ OwnRow(synced, s)[s] = synced[s]
            \/ ~synced[s].known /\ OwnRow(synced, s)[s] = Row(FALSE, FALSE)
        BY <4>1, OwnRowFacts
      <4>. QED
        BY <4>2, <4>3
    <3>2. txos' = synced \/ txos' = OwnRow(synced, s)
      BY <1>3 DEF synced
    <3>. QED
      BY <3>1, <3>2
  <2>. QED
    BY <1>2, <1>4, <2>1, <2>2 DEF RowsStay, TakenInv, SameButSpent
<1>6. \A x \in Sends : Acting(x)' => Acting(x)
  BY <1>1 DEF Acting, Saved
<1>7. \A x \in Sends : \A k \in plan[x].takes : k.txo \in Txos
  BY OwnTxos DEF TypeOK, Plans, Allocations
<1>8. \A x \in Sends : Acting(x)' => \A k \in plan'[x].takes :
         k.txo \in plan'[x].inputs /\ txos'[k.txo].exists
  BY <1>1, <1>5, <1>6, <1>7 DEF TakenInv, RowsStay
<1>9. \A x \in Sends \cap published' : \A k \in plan'[x].takes : txos'[k.txo].spent
  BY <1>1, <1>2, <1>5, <1>6, <1>7 DEF TakenInv, RowsStay, Acting
<1>10. \A x \in Sends : status'[x] = "WaitingCounterparty" => \A k \in plan'[x].takes :
         \E c \in colorings' : ~Incoming(c) /\ c.by = x /\ AllocOf(c) = k
  BY <1>1 DEF TakenInv
<1>. QED
  BY <1>1, <1>5, <1>6, <1>8, <1>9, <1>10 DEF TakenInv, RowsStay

LEMMA TakenInit == Init => TakenInv
<1>. SUFFICES ASSUME Init PROVE TakenInv
  OBVIOUS
<1>1. \A s \in Sends : status[s] = "Absent" /\ s \notin published /\ ~Acting(s)
  BY OwnTxos DEF Init, Acting, Saved
<1>2. \A u \in Txos : txos[u].exists => txos[u].known
  BY DEF Init, Row, NoRow
<1>. QED
  BY <1>1, <1>2 DEF TakenInv

LEMMA TakenStep == ASSUME TypeOK, TakenInv, [Next]_vars, ~Interleaved PROVE TakenInv'
<1>1. CASE UNCHANGED vars
  BY <1>1, TakenKept DEF vars, TakenInv, RowsStay, Acting, Saved
<1>2. CASE Next
  BY <1>2, TakenByOthers, TakenBySync, TakenByFail, TakenByDelete, TakenBySettled, TakenByBegin,
     TakenByEnd, TakenByAborted, TakenByPublication DEF Next, Receives
<1>. QED
  BY <1>1, <1>2

-----------------------------------------------------------------------------
(* The theorems.                                                           *)

LEMMA LedgerStep ==
  ASSUME IInv, [Next]_vars, ~Interleaved, ~FeeInputs PROVE IInv'
<1>1. TypeOK'
  BY TypeStep DEF IInv
<1>2. CASE UNCHANGED vars
  BY <1>2 DEF vars, IInv, LedgerInv, RowInv, ColoringInv, PlanInv, SealInv, SendInv, InputInv, SpentInv,
              DisjointInv, AwaitedInv, BroughtInv, Acting, Saved, TypeOK
<1>3. LedgerInv'
  BY <1>1, <1>2, IssueStep, BlindReceiveStep, WitnessReceiveStep, AcknowledgeStep, PayStep,
     ReceiveSettlesStep, SyncStep, SendBeginStep, SendEndStep, SendAbortedStep, SendDonationStep,
     BroadcastStep, SendSettlesStep, FailStep, DeleteStep DEF Next, IInv
<1>. QED
  BY <1>1, <1>3 DEF IInv

(* No two sends of the database take the same allocation, if nothing runs  *)
(* between send_begin and send_end.                                        *)
THEOREM SendsAreDisjoint ==
  ASSUME ~Interleaved PROVE Spec => []SendsTakeDisjointAllocations
<1>1. TakenInv => SendsTakeDisjointAllocations
  BY DEF TakenInv, SendsTakeDisjointAllocations, Acting
<1>. QED
  BY <1>1, TypeInit, TypeStep, TakenInit, TakenStep, PTL DEF Spec

(* Nothing the wallet was given, or still waits for on a blinded UTXO, is  *)
(* left behind by a transaction of its own, if sends need no further UTXO  *)
(* for the fee and nothing runs between send_begin and send_end.           *)
THEOREM NothingIsLost ==
  ASSUME ~Interleaved, ~FeeInputs PROVE Spec => []NothingIsBurned
<1>1. IInv => NothingIsBurned
  <2> SUFFICES ASSUME IInv PROVE NothingIsBurned
    OBVIOUS
  <2>1. \A s \in Sends \cap published : Acting(s)
    BY DEF Acting
  <2>2. PendingBlindedIsUnspent
    BY <2>1 DEF PendingBlindedIsUnspent, IInv, LedgerInv, SendInv, AwaitedInv
  <2>. QED
    BY <2>1, <2>2 DEF NothingIsBurned, IInv, LedgerInv, SendInv, BroughtInv
<1>. QED
  BY <1>1, InvInit, LedgerStep, PTL DEF Spec

=============================================================================
