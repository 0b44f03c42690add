------------------------- MODULE WalletBalanceProofs -------------------------
(***************************************************************************)
(* What the balances of WalletLedger are the sums of, for any UTXOs,       *)
(* transfers, assets and amounts: the settled colorings of the database    *)
(* are, one to one, the allocations that settled transfers have brought    *)
(* and no public transaction has taken.                                    *)
(***************************************************************************)
EXTENDS WalletLedgerProofs, SelectionProofs

Live(t)  == IF t \in Sends THEN Acting(t) ELSE Saved(t)
TypeBy(t) == IF t \in Issues THEN "Issue" ELSE IF t \in Receives THEN "Receive" ELSE "Change"

(* The tables are finite.                                                  *)
FiniteInv ==
  /\ IsFiniteSet(colorings)
  /\ \A t \in Transfers : IsFiniteSet(plan[t].takes) /\ IsFiniteSet(plan[t].brings)

(* A UTXO is spent by a public transaction of the wallet.                  *)
SpenderInv ==
  \A u \in Txos : txos[u].spent => \E s \in Sends \cap published : u \in plan[s].inputs

(* An allocation is in the coloring table because its transfer brings it.  *)
WrittenInv ==
  \A c \in colorings : Incoming(c) => AllocOf(c) \in plan[c.by].brings /\ c.type = TypeBy(c.by)

(* Allocations come from settled transfers, but for those a transfer       *)
(* creates; and sends take them from settled transfers.                    *)
SourceInv ==
  /\ \A t \in Transfers : \A k \in plan[t].brings : k.source = t \/ status[k.source] = "Settled"
  /\ \A s \in Sends : Acting(s) => \A k \in plan[s].takes :
        \E t \in Transfers : status[t] = "Settled" /\ k \in plan[t].brings

(* An allocation is in one place: if two transfers bring allocations of    *)
(* the same source, then one of the allocations has been taken by a public *)
(* transaction, or the one transfer takes what the other brings.           *)
PublicTake(k) == \E s \in Sends \cap published : k \in plan[s].takes
Takes(t, k)   == t \in Sends /\ k \in plan[t].takes
OneInPlan ==
  \A t \in Transfers : \A k, l \in plan[t].brings : k.source = l.source => k = l
OneInPlace ==
  \A t, x \in Transfers : t # x /\ Live(t) /\ Live(x) =>
     \A k \in plan[t].brings, l \in plan[x].brings :
        k.source = l.source => PublicTake(k) \/ PublicTake(l) \/ Takes(t, l) \/ Takes(x, k)

(* Only outputs of witness receives that have not settled are marked as    *)
(* pending, and nothing is put there before they settle.                   *)
MarkInv == \A u \in Txos : txos[u].pendingWitness => u \in Witness /\ status[u] # "Settled"
HostInv ==
  /\ \A t \in Transfers : \A k \in plan[t].brings :
        k.txo \in Witness => k.txo = t \/ status[k.txo] = "Settled"
  /\ \A r \in Blind : \A u \in seal[r] : u \in Witness => status[u] = "Settled"
  /\ \A s \in Sends : \A k \in plan[s].brings : k.txo = s => plan[s].ownOutput
PaidInv == \A r \in Receives : status[r] = "Settled" => r \in published

PlaceInv == SourceInv /\ OneInPlan /\ OneInPlace
OwnInv   == FiniteInv /\ SpenderInv /\ WrittenInv /\ PlaceInv /\ MarkInv /\ HostInv /\ PaidInv

LEMMA OwnInit == Init => OwnInv
<1> SUFFICES ASSUME Init PROVE OwnInv
  OBVIOUS
<1>1. /\ \A u \in Txos : ~txos[u].spent /\ ~txos[u].pendingWitness
      /\ \A t \in Transfers : plan[t] = NoPlan /\ status[t] = "Absent"
      /\ colorings = {} /\ published = {} /\ \A r \in Blind : seal[r] = {}
  BY DEF Init, Row, NoRow
<1>2. \A t \in Transfers : plan[t].takes = {} /\ plan[t].brings = {}
  BY <1>1 DEF NoPlan
<1>3. FiniteInv
  BY <1>1, <1>2, FS_EmptySet DEF FiniteInv
<1>4. Sends \subseteq Transfers /\ Receives \subseteq Transfers
  BY DEF Transfers
<1>. QED
  BY <1>1, <1>2, <1>3, <1>4
  DEF OwnInv, SpenderInv, WrittenInv, PlaceInv, SourceInv, OneInPlan, OneInPlace, MarkInv,
      HostInv, PaidInv

-----------------------------------------------------------------------------
(* Steps that change no plan.                                              *)

SettledStay == \A t \in Transfers : status[t] = "Settled" => status'[t] = "Settled"

(* Nobody comes to live but with nothing to bring.                         *)
LEMMA PlaceKept ==
  ASSUME TypeOK, PlaceInv, UNCHANGED plan, SettledStay, published \subseteq published',
         \A t \in Transfers : Live(t)' => Live(t) \/ plan[t].brings = {},
         \A s \in Sends : Acting(s)' => Acting(s)
  PROVE  PlaceInv'
<1>0. \A t \in Transfers : \A k \in plan[t].brings : k.source \in Transfers
  BY DEF TypeOK, Plans, Allocations
<1>1. SourceInv'
  BY <1>0 DEF PlaceInv, SourceInv, SettledStay
<1>2. OneInPlan'
  BY DEF PlaceInv, OneInPlan
<1>3. OneInPlace'
  <2> SUFFICES ASSUME NEW t \in Transfers, NEW x \in Transfers, t # x, Live(t)', Live(x)',
                      NEW k \in plan[t].brings, NEW l \in plan[x].brings, k.source = l.source
               PROVE  (PublicTake(k) \/ PublicTake(l) \/ Takes(t, l) \/ Takes(x, k))'
    BY DEF OneInPlace
  <2>1. Live(t) /\ Live(x)
    OBVIOUS
  <2>2. PublicTake(k) \/ PublicTake(l) \/ Takes(t, l) \/ Takes(x, k)
    BY <2>1 DEF PlaceInv, OneInPlace
  <2>. QED
    BY <2>2 DEF PublicTake, Takes
<1>. QED
  BY <1>1, <1>2, <1>3 DEF PlaceInv

LEMMA TablesKept ==
  ASSUME FiniteInv, WrittenInv, UNCHANGED plan, colorings' \subseteq colorings
  PROVE  FiniteInv' /\ WrittenInv'
<1>1. IsFiniteSet(colorings')
  BY FS_Subset DEF FiniteInv
<1>2. FiniteInv'
  BY <1>1 DEF FiniteInv
<1>3. WrittenInv'
  BY DEF WrittenInv, Incoming, TypeBy, AllocOf
<1>. QED
  BY <1>2, <1>3

LEMMA HostKept ==
  ASSUME TypeOK, HostInv, UNCHANGED <<plan, seal>>, SettledStay PROVE HostInv'
<1>1. Witness \subseteq Transfers
  BY OwnTxos
<1>. QED
  BY <1>1 DEF HostInv, SettledStay

(* A UTXO that get_utxo returns is, if it is the output of a witness       *)
(* receive, that of a settled one.                                         *)
LEMMA HostIsSettled ==
  ASSUME RowInv, NEW exclude, NEW pendingOperation, NEW u \in GetUtxo(exclude, pendingOperation)
  PROVE  u \in Witness => status[u] = "Settled"
<1>1. txos[u].known /\ ~txos[u].pendingWitness
  BY GetUtxoFacts
<1>2. ASSUME u \in Witness PROVE status[u] = "Settled"
  <2>1. status[u] # "Absent"
    BY <1>1, <1>2 DEF RowInv
  <2>. QED
    BY <1>1, <1>2, <2>1 DEF RowInv
<1>. QED
  BY <1>2

LEMMA PayOwn == ASSUME IInv, OwnInv, NEW r \in Receives, Pay(r) PROVE OwnInv'
<1>1. UNCHANGED <<txos, status, colorings, seal, plan>> /\ published' = published \cup {r}
      /\ r \notin Sends
  BY ConstantsAssumption DEF Pay
<1>2. /\ \A t \in Transfers : Live(t)' => Live(t)
      /\ \A s \in Sends : (Acting(s)' => Acting(s)) /\ s \in Transfers
  BY <1>1 DEF Live, Acting, Saved, Transfers
<1>3. PlaceInv'
  BY <1>1, <1>2, PlaceKept DEF IInv, OwnInv, SettledStay
<1>4. FiniteInv' /\ WrittenInv'
  BY <1>1, TablesKept DEF OwnInv
<1>5. HostInv'
  BY <1>1, HostKept DEF IInv, OwnInv, SettledStay
<1>6. SpenderInv' /\ MarkInv' /\ PaidInv'
  BY <1>1 DEF OwnInv, SpenderInv, MarkInv, PaidInv
<1>. QED
  BY <1>3, <1>4, <1>5, <1>6 DEF OwnInv

(* A receive begins: nothing has been brought yet.                         *)
LEMMA ReceiveOwn ==
  ASSUME IInv, OwnInv, NEW r \in Receives, Receive(r),
         \A x \in Blind : \A u \in seal'[x] : u \in seal[x] \/ (u \in Witness => status[u] = "Settled")
  PROVE  OwnInv'
<1>1. UNCHANGED <<txos, colorings, plan, published>> /\ status[r] = "Absent" /\ r \in Transfers
      /\ status' = [status EXCEPT ![r] = "WaitingCounterparty"] /\ r \notin Sends
  BY ConstantsAssumption DEF Receive, Transfers
<1>2. \A t \in Transfers : t # r => status'[t] = status[t]
  BY <1>1 DEF IInv, TypeOK
<1>3. status'[r] = "WaitingCounterparty" /\ plan[r].brings = {}
  BY <1>1 DEF IInv, TypeOK, LedgerInv, PlanInv
<1>4. SettledStay
  BY <1>1, <1>2 DEF SettledStay
<1>5. /\ \A t \in Transfers : Live(t)' => Live(t) \/ plan[t].brings = {}
      /\ \A s \in Sends : Acting(s)' => Acting(s)
  <2>1. \A s \in Sends : s # r /\ s \in Transfers
    BY <1>1 DEF Transfers
  <2>. QED
    BY <1>1, <1>2, <1>3, <2>1 DEF Live, Acting, Saved
<1>6. PlaceInv'
  BY <1>1, <1>4, <1>5, PlaceKept DEF IInv, OwnInv
<1>7. FiniteInv' /\ WrittenInv'
  BY <1>1, TablesKept DEF OwnInv
<1>8. HostInv'
  <2>1. Witness \subseteq Transfers
    BY OwnTxos
  <2>. QED
    BY <1>1, <1>4, <2>1 DEF OwnInv, HostInv, SettledStay
<1>9. SpenderInv' /\ MarkInv' /\ PaidInv'
  <2>1. Witness \subseteq Transfers /\ Receives \subseteq Transfers
    BY OwnTxos DEF Transfers
  <2>. QED
    BY <1>1, <1>2, <1>3, <2>1 DEF OwnInv, SpenderInv, MarkInv, PaidInv
<1>. QED
  BY <1>6, <1>7, <1>8, <1>9 DEF OwnInv

LEMMA BlindReceiveOwn ==
  ASSUME IInv, OwnInv, NEW r \in Blind, BlindReceive(r) PROVE OwnInv'
<1>1. PICK u \in GetUtxo({}, TRUE) : seal' = [seal EXCEPT ![r] = {u}]
  BY DEF BlindReceive
<1>2. u \in Witness => status[u] = "Settled"
  BY HostIsSettled DEF IInv, LedgerInv
<1>3. \A x \in Blind : seal'[x] = IF x = r THEN {u} ELSE seal[x]
  BY <1>1 DEF IInv, TypeOK
<1>4. Receive(r) /\ r \in Receives
  BY DEF BlindReceive, Receives
<1>. QED
  BY <1>2, <1>3, <1>4, ReceiveOwn

LEMMA WitnessReceiveOwn ==
  ASSUME IInv, OwnInv, NEW r \in Witness, WitnessReceive(r) PROVE OwnInv'
<1>1. Receive(r) /\ r \in Receives /\ UNCHANGED seal
  BY DEF WitnessReceive, Receives
<1>. QED
  BY <1>1, ReceiveOwn

(* What a sync makes of the rows: it spends nothing, and marks only rows   *)
(* it adds, of witness receives that have not settled.                     *)
LEMMA SyncedMarks ==
  ASSUME IInv, OwnInv, NEW rows \in [Txos -> Rows], SameButSpent(rows), NEW seen
  PROVE  \A u \in Txos :
           /\ Synced(rows, seen)[u].spent => rows[u].spent
           /\ Synced(rows, seen)[u].pendingWitness => u \in Witness /\ status[u] # "Settled"
<1> SUFFICES ASSUME NEW u \in Txos
             PROVE  /\ Synced(rows, seen)[u].spent => rows[u].spent
                    /\ Synced(rows, seen)[u].pendingWitness => u \in Witness /\ status[u] # "Settled"
  OBVIOUS
<1>1. rows[u] \in Rows /\ rows[u].known = txos[u].known
      /\ rows[u].pendingWitness = txos[u].pendingWitness
  BY DEF SameButSpent
<1>2. scripts \subseteq Witness
  BY DEF IInv, TypeOK
<1>3. txos[u].pendingWitness => u \in Witness /\ status[u] # "Settled"
  BY DEF OwnInv, MarkInv
<1>4. u \in Witness /\ ~txos[u].known => status[u] # "Settled"
  BY DEF IInv, LedgerInv, RowInv
<1>5. CASE u \notin seen
  BY <1>1, <1>3, <1>5 DEF Synced
<1>6. CASE u \in seen /\ rows[u].known
  <2>1. Synced(rows, seen)[u] = [rows[u] EXCEPT !.exists = TRUE]
    BY <1>6 DEF Synced, SetTxo
  <2>. QED
    BY <1>1, <1>3, <2>1 DEF Rows
<1>7. CASE u \in seen /\ ~rows[u].known
  <2>1. Synced(rows, seen)[u] = Row(TRUE, u \in scripts)
    BY <1>7 DEF Synced, SetTxo
  <2>2. \A b : Row(TRUE, b).known /\ ~Row(TRUE, b).spent
    BY DEF Row
  <2>3. Synced(rows, seen)[u].known /\ ~Synced(rows, seen)[u].spent
    BY <2>1, <2>2
  <2>4. Synced(rows, seen)[u].pendingWitness = (u \in scripts)
    BY <1>7, <2>3, SyncedFacts
  <2>. QED
    BY <1>1, <1>2, <1>4, <1>7, <2>3, <2>4
<1>. QED
  BY <1>5, <1>6, <1>7

LEMMA SyncOwn == ASSUME IInv, OwnInv, Sync PROVE OwnInv'
<1>1. PICK seen : txos' = Synced(txos, seen)
  BY DEF Sync
<1>2. UNCHANGED <<status, colorings, seal, plan, published>>
  BY DEF Sync
<1>3. \A u \in Txos : /\ txos'[u].spent => txos[u].spent
                      /\ txos'[u].pendingWitness => u \in Witness /\ status[u] # "Settled"
  <2>1. txos \in [Txos -> Rows] /\ SameButSpent(txos)
    BY DEF IInv, TypeOK, SameButSpent
  <2>. QED
    BY <1>1, <2>1, SyncedMarks
<1>4. \A t \in Transfers : (Live(t)' => Live(t)) /\ (t \in Sends => (Acting(t)' => Acting(t)))
  BY <1>2 DEF Live, Acting, Saved
<1>5. PlaceInv' /\ HostInv'
  <2>1. Sends \subseteq Transfers
    BY OwnTxos
  <2>. QED
    BY <1>2, <1>4, <2>1, PlaceKept, HostKept DEF IInv, OwnInv, SettledStay
<1>6. FiniteInv' /\ WrittenInv'
  BY <1>2, TablesKept DEF OwnInv
<1>7. SpenderInv' /\ MarkInv' /\ PaidInv'
  BY <1>2, <1>3 DEF OwnInv, SpenderInv, MarkInv, PaidInv
<1>. QED
  BY <1>5, <1>6, <1>7 DEF OwnInv

LEMMA ReceiveSettlesOwn ==
  ASSUME IInv, OwnInv, NEW r \in Receives, ReceiveSettles(r) PROVE OwnInv'
<1>1. PICK seen : txos' = WitnessArrived(Synced(txos, seen), r)
  BY DEF ReceiveSettles
<1>2. UNCHANGED <<colorings, seal, plan, published>> /\ r \in published
      /\ status' = [status EXCEPT ![r] = "Settled"] /\ status[r] = "WaitingConfirmations"
      /\ r \in Transfers /\ r \notin Sends
  BY ConstantsAssumption DEF ReceiveSettles, Transfers
<1>3. \A t \in Transfers : status'[t] = IF t = r THEN "Settled" ELSE status[t]
  BY <1>2 DEF IInv, TypeOK
<1> DEFINE rows == Synced(txos, seen)
<1>4. \A u \in Txos : /\ rows[u].spent => txos[u].spent
                      /\ rows[u].pendingWitness => u \in Witness /\ status[u] # "Settled"
  <2>1. txos \in [Txos -> Rows] /\ SameButSpent(txos)
    BY DEF IInv, TypeOK, SameButSpent
  <2>. QED
    BY <2>1, SyncedMarks
<1>5. rows \in [Txos -> Rows]
  BY SyncedType DEF IInv, TypeOK
<1> HIDE DEF rows
<1>6. \A u \in Txos : /\ txos'[u].spent => txos[u].spent
                      /\ txos'[u].pendingWitness => u \in Witness /\ status'[u] # "Settled"
  <2>1. txos' = WitnessArrived(rows, r)
    BY <1>1 DEF rows
  <2>2. CASE r \in Witness
    <3>1. \A u \in Txos : u # r => txos'[u] = rows[u]
      BY <1>5, <2>1, <2>2 DEF WitnessArrived
    <3>2. txos'[r] = [rows[r] EXCEPT !.pendingWitness = FALSE] /\ r \in Txos
      BY <1>5, <2>1, <2>2, OwnTxos DEF WitnessArrived
    <3>3. ~txos'[r].pendingWitness /\ txos'[r].spent = rows[r].spent
      BY <1>5, <3>2 DEF Rows
    <3>. QED
      BY <1>3, <1>4, <3>1, <3>3, OwnTxos
  <2>3. CASE r \notin Witness
    BY <1>3, <1>4, <2>1, <2>3, OwnTxos DEF WitnessArrived
  <2>. QED
    BY <2>2, <2>3
<1>7. \A t \in Transfers : (Live(t)' => Live(t)) /\ (t \in Sends => (Acting(t)' => Acting(t)))
  BY <1>2, <1>3 DEF Live, Acting, Saved
<1>8. PlaceInv' /\ HostInv'
  <2>1. Sends \subseteq Transfers
    BY OwnTxos
  <2>. QED
    BY <1>2, <1>3, <1>7, <2>1, PlaceKept, HostKept DEF IInv, OwnInv, SettledStay
<1>9. FiniteInv' /\ WrittenInv'
  BY <1>2, TablesKept DEF OwnInv
<1>10. SpenderInv' /\ MarkInv' /\ PaidInv'
  <2>1. Receives \subseteq Transfers
    BY DEF Transfers
  <2>. QED
    BY <1>2, <1>3, <1>6, <2>1 DEF OwnInv, SpenderInv, MarkInv, PaidInv
<1>. QED
  BY <1>8, <1>9, <1>10 DEF OwnInv

LEMMA FailOwn ==
  ASSUME IInv, OwnInv, NEW t \in Receives \cup Sends, Fail(t) PROVE OwnInv'
<1>1. UNCHANGED <<txos, colorings, seal, plan, published>> /\ status[t] = "WaitingCounterparty"
      /\ status' = [status EXCEPT ![t] = "Failed"] /\ t \in Transfers
  BY DEF Fail, Transfers
<1>2. \A x \in Transfers : status'[x] = IF x = t THEN "Failed" ELSE status[x]
  BY <1>1 DEF IInv, TypeOK
<1>3. \A x \in Transfers : (Live(x)' => Live(x)) /\ (x \in Sends => (Acting(x)' => Acting(x)))
  BY <1>1, <1>2 DEF Live, Acting, Saved
<1>4. Sends \subseteq Transfers /\ Witness \subseteq Transfers /\ Receives \subseteq Transfers
  BY OwnTxos DEF Transfers
<1>5. PlaceInv' /\ HostInv'
  BY <1>1, <1>2, <1>3, <1>4, PlaceKept, HostKept DEF IInv, OwnInv, SettledStay
<1>6. FiniteInv' /\ WrittenInv'
  BY <1>1, TablesKept DEF OwnInv
<1>7. SpenderInv' /\ MarkInv' /\ PaidInv'
  BY <1>1, <1>2, <1>4 DEF OwnInv, SpenderInv, MarkInv, PaidInv
<1>. QED
  BY <1>5, <1>6, <1>7 DEF OwnInv

LEMMA DeleteOwn ==
  ASSUME IInv, OwnInv, NEW t \in Receives \cup Sends, Delete(t) PROVE OwnInv'
<1>1. UNCHANGED <<seal, plan, published>> /\ status[t] = "Failed" /\ colorings' \subseteq colorings
      /\ status' = [status EXCEPT ![t] = "Gone"] /\ t \in Transfers
  BY DEF Delete, Transfers
<1>2. \A x \in Transfers : status'[x] = IF x = t THEN "Gone" ELSE status[x]
  BY <1>1 DEF IInv, TypeOK
<1>3. \A x \in Transfers : (Live(x)' => Live(x)) /\ (x \in Sends => (Acting(x)' => Acting(x)))
  BY <1>1, <1>2 DEF Live, Acting, Saved
<1>4. Sends \subseteq Transfers /\ Witness \subseteq Transfers /\ Receives \subseteq Transfers
  BY OwnTxos DEF Transfers
<1>5. PlaceInv' /\ HostInv'
  BY <1>1, <1>2, <1>3, <1>4, PlaceKept, HostKept DEF IInv, OwnInv, SettledStay
<1>6. FiniteInv' /\ WrittenInv'
  BY <1>1, TablesKept DEF OwnInv
<1>7. \A u \in Txos : txos'[u] = txos[u] \/ txos'[u] = NoRow
  BY DEF Delete
<1>8. SpenderInv' /\ MarkInv' /\ PaidInv'
  BY <1>1, <1>2, <1>4, <1>7 DEF OwnInv, SpenderInv, MarkInv, PaidInv, NoRow
<1>. QED
  BY <1>5, <1>6, <1>8 DEF OwnInv

LEMMA SendSettlesOwn == ASSUME IInv, OwnInv, NEW s \in Sends, SendSettles(s) PROVE OwnInv'
<1>1. UNCHANGED <<txos, colorings, seal, plan, published>> /\ status[s] = "WaitingConfirmations"
      /\ status' = [status EXCEPT ![s] = "Settled"] /\ s \in Transfers
      /\ s \notin Receives
  BY ConstantsAssumption DEF SendSettles, Transfers
<1>2. \A x \in Transfers : status'[x] = IF x = s THEN "Settled" ELSE status[x]
  BY <1>1 DEF IInv, TypeOK
<1>3. \A x \in Transfers : (Live(x)' => Live(x)) /\ (x \in Sends => (Acting(x)' => Acting(x)))
  BY <1>1, <1>2 DEF Live, Acting, Saved
<1>4. Sends \subseteq Transfers /\ Witness \subseteq Receives /\ Receives \subseteq Transfers
  BY OwnTxos DEF Transfers, Receives
<1>5. PlaceInv' /\ HostInv'
  BY <1>1, <1>2, <1>3, <1>4, PlaceKept, HostKept DEF IInv, OwnInv, SettledStay
<1>6. FiniteInv' /\ WrittenInv'
  BY <1>1, TablesKept DEF OwnInv
<1>7. SpenderInv' /\ MarkInv' /\ PaidInv'
  BY <1>1, <1>2, <1>4 DEF OwnInv, SpenderInv, MarkInv, PaidInv
<1>. QED
  BY <1>5, <1>6, <1>7 DEF OwnInv

(* A transaction becomes public and its inputs are marked as spent.        *)
LEMMA SpentByPublic ==
  ASSUME IInv, OwnInv, NEW s \in Sends, published' = published \cup {s}, UNCHANGED plan,
         NEW u \in Txos, SpendInputs(txos, s)[u].spent
  PROVE  \E x \in Sends \cap published' : u \in plan'[x].inputs
<1>1. CASE u \in plan[s].inputs
  BY <1>1
<1>2. CASE u \notin plan[s].inputs
  BY <1>2 DEF SpendInputs, OwnInv, SpenderInv
<1>. QED
  BY <1>1, <1>2

LEMMA BroadcastOwn == ASSUME IInv, OwnInv, NEW s \in Sends, Broadcast(s) PROVE OwnInv'
<1>1. UNCHANGED <<colorings, seal, plan>> /\ published' = published \cup {s}
      /\ status[s] = "WaitingCounterparty" /\ s \in Transfers /\ s \notin Receives
      /\ status' \in {status, [status EXCEPT ![s] = "WaitingConfirmations"]}
  BY ConstantsAssumption DEF Broadcast, Transfers
<1>2. \A x \in Transfers : status'[x] = status[x] \/ (x = s /\ status'[x] = "WaitingConfirmations")
  BY <1>1 DEF IInv, TypeOK
<1>3. \A x \in Transfers : (Live(x)' => Live(x)) /\ (x \in Sends => (Acting(x)' => Acting(x)))
  BY <1>1, <1>2 DEF Live, Acting, Saved
<1>4. Sends \subseteq Transfers /\ Witness \subseteq Receives /\ Receives \subseteq Transfers
  BY OwnTxos DEF Transfers, Receives
<1>5. PlaceInv' /\ HostInv'
  BY <1>1, <1>2, <1>3, <1>4, PlaceKept, HostKept DEF IInv, OwnInv, SettledStay
<1>6. FiniteInv' /\ WrittenInv'
  BY <1>1, TablesKept DEF OwnInv
<1> DEFINE rows == SpendInputs(txos, s)
<1>7. rows \in [Txos -> Rows] /\ SameButSpent(rows)
  BY SpendInputsFacts DEF IInv
<1>8. \A u \in Txos : rows[u].spent => \E x \in Sends \cap published' : u \in plan'[x].inputs
  BY <1>1, SpentByPublic
<1>9. \A u \in Txos : /\ txos'[u].spent => rows[u].spent
                      /\ txos'[u].pendingWitness => u \in Witness /\ status[u] # "Settled"
  <2> HIDE DEF rows
  <2>1. CASE \E seen : txos' = Synced(rows, seen)
    BY <1>7, <2>1, SyncedMarks
  <2>2. CASE txos' = rows
    BY <1>7, <2>2 DEF SameButSpent, OwnInv, MarkInv
  <2>3. (\E seen : txos' = Synced(rows, seen)) \/ txos' = rows
    BY DEF Broadcast, rows
  <2>. QED
    BY <2>1, <2>2, <2>3
<1>10. SpenderInv' /\ MarkInv' /\ PaidInv'
  <2> HIDE DEF rows
  <2>. QED
    BY <1>1, <1>2, <1>4, <1>8, <1>9 DEF OwnInv, SpenderInv, MarkInv, PaidInv
<1>. QED
  BY <1>5, <1>6, <1>10 DEF OwnInv
-----------------------------------------------------------------------------
(* Steps that change a plan.                                               *)

LEMMA ColorFinite ==
  ASSUME NEW allocs, IsFiniteSet(allocs), NEW t, NEW type PROVE IsFiniteSet(Color(allocs, t, type))
<1> DEFINE C(k) == [txo |-> k.txo, source |-> k.source, amount |-> k.amount, by |-> t, type |-> type]
           m == [k \in allocs |-> C(k)]
<1>1. Color(allocs, t, type) = {C(k) : k \in allocs}
  BY DEF Color
<1>2. m \in Surjection(allocs, Color(allocs, t, type))
  BY <1>1 DEF Surjection
<1> HIDE DEF m
<1>. QED
  BY <1>2, FS_Surjection

(* t, which had nothing to bring, brings an allocation of its own.         *)
LEMMA BringOne ==
  ASSUME IInv, OwnInv, NEW t \in Issues \cup Receives, NEW type \in Types, type = TypeBy(t),
         status[t] # "Settled", plan[t].brings = {},
         NEW k0 \in Allocations, k0.source = t,
         k0.txo \in Witness => k0.txo = t \/ status[k0.txo] = "Settled",
         plan' = [plan EXCEPT ![t].brings = {k0}],
         colorings' = colorings \cup Color({k0}, t, type),
         status'[t] \in {"WaitingConfirmations", "Settled"},
         \A x \in Transfers : x # t => status'[x] = status[x],
         UNCHANGED <<seal, published>>
  PROVE  /\ FiniteInv' /\ WrittenInv' /\ PlaceInv' /\ HostInv'
         /\ \A s \in Sends : plan'[s] = plan[s] /\ (Acting(s)' <=> Acting(s))
<1>1. t \in Transfers /\ t \notin Sends /\ Sends \subseteq Transfers /\ Witness \subseteq Transfers
  BY ConstantsAssumption, OwnTxos DEF Transfers
<1>2. \A x \in Transfers : /\ x # t => plan'[x] = plan[x]
                           /\ x = t => plan'[x].brings = {k0} /\ plan'[x].takes = plan[x].takes
  BY <1>1 DEF IInv, TypeOK, Plans
<1>3. \A s \in Sends : plan'[s] = plan[s] /\ status'[s] = status[s]
  BY <1>1, <1>2
<1>4. \A s \in Sends : (Acting(s)' <=> Acting(s)) /\ (Takes(s, k0)' <=> Takes(s, k0))
  BY <1>3 DEF Acting, Saved, Takes
<1>5. SettledStay
  BY <1>1 DEF SettledStay
<1>6. \A x \in Transfers : \A k \in plan[x].brings :
         k.source \in Transfers /\ (k.source = x \/ status[k.source] = "Settled")
  BY DEF IInv, TypeOK, Plans, Allocations, OwnInv, PlaceInv, SourceInv
<1>7. FiniteInv'
  <2>1. IsFiniteSet({k0}) /\ IsFiniteSet(Color({k0}, t, type))
    BY FS_Singleton, ColorFinite
  <2>2. IsFiniteSet(colorings')
    BY <2>1, FS_Union DEF OwnInv, FiniteInv
  <2>. QED
    BY <1>2, <2>1, <2>2 DEF OwnInv, FiniteInv
<1>8. WrittenInv'
  <2> SUFFICES ASSUME NEW c \in colorings', Incoming(c)
               PROVE  AllocOf(c) \in plan'[c.by].brings /\ c.type = TypeBy(c.by)
    BY DEF WrittenInv, Incoming, AllocOf, TypeBy
  <2>1. CASE c \in colorings
    <3>1. AllocOf(c) \in plan[c.by].brings /\ c.type = TypeBy(c.by) /\ c.by \in Transfers
      BY <2>1 DEF OwnInv, WrittenInv, IInv, TypeOK, Colorings
    <3>. QED
      BY <1>2, <3>1
  <2>2. CASE c \in Color({k0}, t, type)
    <3>1. c.by = t /\ c.type = type /\ AllocOf(c) \in {k0}
      BY <1>1, <2>2, ColorFacts
    <3>. QED
      BY <1>1, <1>2, <3>1
  <2>. QED
    BY <2>1, <2>2
<1>9. SourceInv'
  <2>1. ASSUME NEW x \in Transfers, NEW k \in plan'[x].brings
        PROVE  k.source = x \/ status'[k.source] = "Settled"
    BY <1>2, <1>5, <1>6 DEF SettledStay
  <2>2. ASSUME NEW s \in Sends, Acting(s)', NEW k \in plan'[s].takes
        PROVE  \E x \in Transfers : status'[x] = "Settled" /\ k \in plan'[x].brings
    <3>1. Acting(s) /\ k \in plan[s].takes
      BY <1>3, <1>4, <2>2
    <3>2. PICK x \in Transfers : status[x] = "Settled" /\ k \in plan[x].brings
      BY <3>1 DEF OwnInv, PlaceInv, SourceInv
    <3>. QED
      BY <1>2, <1>5, <3>2 DEF SettledStay
  <2>. QED
    BY <2>1, <2>2 DEF SourceInv
<1>10. OneInPlan'
  BY <1>2 DEF OwnInv, PlaceInv, OneInPlan
<1>11. OneInPlace'
  <2> SUFFICES ASSUME NEW x \in Transfers, NEW y \in Transfers, x # y, Live(x)', Live(y)',
                      NEW k \in plan'[x].brings, NEW l \in plan'[y].brings, k.source = l.source
               PROVE  (PublicTake(k) \/ PublicTake(l) \/ Takes(x, l) \/ Takes(y, k))'
    BY DEF OneInPlace
  <2>1. x # t /\ y # t
    BY <1>2, <1>6
  <2>2. Live(x) /\ Live(y) /\ k \in plan[x].brings /\ l \in plan[y].brings
    BY <1>2, <1>4, <2>1 DEF Live, Saved
  <2>3. PublicTake(k) \/ PublicTake(l) \/ Takes(x, l) \/ Takes(y, k)
    BY <2>2 DEF OwnInv, PlaceInv, OneInPlace
  <2>. QED
    BY <1>3, <2>3 DEF PublicTake, Takes
<1>12. HostInv'
  <2>1. \A x \in Transfers : \A k \in plan'[x].brings :
           k.txo \in Witness => k.txo = x \/ status'[k.txo] = "Settled"
    BY <1>1, <1>2, <1>5 DEF OwnInv, HostInv, SettledStay
  <2>2. \A r \in Blind : \A u \in seal'[r] : u \in Witness => status'[u] = "Settled"
    BY <1>1, <1>5 DEF OwnInv, HostInv, SettledStay
  <2>3. \A s \in Sends : \A k \in plan'[s].brings : k.txo = s => plan'[s].ownOutput
    BY <1>3 DEF OwnInv, HostInv
  <2>. QED
    BY <2>1, <2>2, <2>3 DEF HostInv
<1>. QED
  BY <1>3, <1>4, <1>7, <1>8, <1>9, <1>10, <1>11, <1>12 DEF PlaceInv

LEMMA IssueOwn == ASSUME IInv, OwnInv, NEW t \in Issues, Issue(t) PROVE OwnInv'
<1>1. status[t] = "Absent" /\ status' = [status EXCEPT ![t] = "Settled"]
      /\ UNCHANGED <<txos, seal, published>>
  BY DEF Issue
<1>2. PICK u \in GetUtxo({}, FALSE), amount \in 1..MaxAmount :
        LET issued == {[txo |-> u, source |-> t, amount |-> amount]}
        IN  /\ plan' = [plan EXCEPT ![t].brings = issued]
            /\ colorings' = colorings \cup Color(issued, t, "Issue")
  BY DEF Issue
<1> DEFINE k0 == [txo |-> u, source |-> t, amount |-> amount]
<1>3. t \in Transfers /\ t \in Issues \cup Receives /\ t \notin Receives /\ t \notin Witness
      /\ Witness \subseteq Transfers /\ Receives \subseteq Transfers
  BY ConstantsAssumption, OwnTxos DEF Transfers, Receives
<1>4. k0 \in Allocations /\ k0.source = t /\ k0.txo = u
  <2>1. u \in Txos
    BY GetUtxoFacts
  <2>. QED
    BY <1>3, <2>1, ConstantsAssumption DEF Allocations
<1>5. u \in Witness => status[u] = "Settled"
  BY HostIsSettled DEF IInv, LedgerInv
<1>6. \A x \in Transfers : status'[x] = IF x = t THEN "Settled" ELSE status[x]
  BY <1>1 DEF IInv, TypeOK
<1>7. plan[t].brings = {}
  BY <1>1, <1>3 DEF IInv, LedgerInv, PlanInv
<1>8. "Issue" \in Types /\ "Issue" = TypeBy(t)
  BY DEF Types, TypeBy
<1> HIDE DEF k0
<1>9. plan' = [plan EXCEPT ![t].brings = {k0}] /\ colorings' = colorings \cup Color({k0}, t, "Issue")
  BY <1>2 DEF k0
<1>10. /\ FiniteInv' /\ WrittenInv' /\ PlaceInv' /\ HostInv'
       /\ \A s \in Sends : plan'[s] = plan[s]
  <2>1. /\ t \in Issues \cup Receives /\ "Issue" \in Types /\ "Issue" = TypeBy(t)
        /\ status[t] # "Settled" /\ plan[t].brings = {}
        /\ k0 \in Allocations /\ k0.source = t
        /\ k0.txo \in Witness => k0.txo = t \/ status[k0.txo] = "Settled"
    BY <1>1, <1>3, <1>4, <1>5, <1>7, <1>8
  <2>2. /\ status'[t] \in {"WaitingConfirmations", "Settled"}
        /\ \A x \in Transfers : x # t => status'[x] = status[x]
        /\ UNCHANGED <<seal, published>>
    BY <1>1, <1>3, <1>6
  <2>. QED
    BY ONLY IInv, OwnInv, <1>9, <2>1, <2>2, BringOne
<1>11. SpenderInv' /\ MarkInv' /\ PaidInv'
  BY <1>1, <1>3, <1>6, <1>10 DEF OwnInv, SpenderInv, MarkInv, PaidInv
<1>. QED
  BY <1>10, <1>11 DEF OwnInv

LEMMA AcknowledgeOwn == ASSUME IInv, OwnInv, NEW r \in Receives, Acknowledge(r) PROVE OwnInv'
<1>1. status[r] = "WaitingCounterparty" /\ status' = [status EXCEPT ![r] = "WaitingConfirmations"]
      /\ UNCHANGED <<seal, published>>
      /\ txos' \in {txos, [txos EXCEPT ![r] = Row(FALSE, TRUE)]} /\ (r \in Witness \/ txos' = txos)
  BY DEF Acknowledge
<1>2. PICK u \in IF r \in Blind THEN seal[r] ELSE {r}, amount \in 1..MaxAmount :
        LET received == {[txo |-> u, source |-> r, amount |-> amount]}
        IN  /\ plan' = [plan EXCEPT ![r].brings = received]
            /\ colorings' = colorings \cup Color(received, r, "Receive")
  BY DEF Acknowledge
<1> DEFINE k0 == [txo |-> u, source |-> r, amount |-> amount]
<1>3. r \in Transfers /\ r \in Issues \cup Receives /\ r \notin Issues
      /\ Witness \subseteq Transfers /\ Receives \subseteq Transfers
  BY ConstantsAssumption, OwnTxos DEF Transfers, Receives
<1>4. u \in Txos /\ (u \in Witness => u = r \/ status[u] = "Settled")
  <2>1. CASE r \in Blind
    BY <1>2, <2>1 DEF IInv, TypeOK, OwnInv, HostInv
  <2>2. CASE r \notin Blind
    BY <1>2, <2>2, OwnTxos DEF Receives
  <2>. QED
    BY <2>1, <2>2
<1>5. k0 \in Allocations /\ k0.source = r /\ k0.txo = u
  BY <1>3, <1>4, ConstantsAssumption DEF Allocations
<1>6. \A x \in Transfers : status'[x] = IF x = r THEN "WaitingConfirmations" ELSE status[x]
  BY <1>1 DEF IInv, TypeOK
<1>7. plan[r].brings = {}
  BY <1>1, <1>3 DEF IInv, LedgerInv, PlanInv
<1>8. "Receive" \in Types /\ "Receive" = TypeBy(r)
  BY <1>3 DEF Types, TypeBy
<1> HIDE DEF k0
<1>9. plan' = [plan EXCEPT ![r].brings = {k0}] /\ colorings' = colorings \cup Color({k0}, r, "Receive")
  BY <1>2 DEF k0
<1>10. /\ FiniteInv' /\ WrittenInv' /\ PlaceInv' /\ HostInv'
       /\ \A s \in Sends : plan'[s] = plan[s]
  <2>1. /\ r \in Issues \cup Receives /\ "Receive" \in Types /\ "Receive" = TypeBy(r)
        /\ status[r] # "Settled" /\ plan[r].brings = {}
        /\ k0 \in Allocations /\ k0.source = r
        /\ k0.txo \in Witness => k0.txo = r \/ status[k0.txo] = "Settled"
    BY <1>1, <1>3, <1>4, <1>5, <1>7, <1>8
  <2>2. /\ status'[r] \in {"WaitingConfirmations", "Settled"}
        /\ \A x \in Transfers : x # r => status'[x] = status[x]
        /\ UNCHANGED <<seal, published>>
    BY <1>1, <1>3, <1>6
  <2>. QED
    BY ONLY IInv, OwnInv, <1>9, <2>1, <2>2, BringOne
<1>11. \A u2 \in Txos : /\ txos'[u2].spent => txos[u2].spent
                        /\ txos'[u2].pendingWitness => txos[u2].pendingWitness \/ (u2 = r /\ r \in Witness)
  BY <1>1 DEF IInv, TypeOK, Row
<1>12. SpenderInv' /\ MarkInv' /\ PaidInv'
  BY <1>1, <1>3, <1>6, <1>10, <1>11 DEF OwnInv, SpenderInv, MarkInv, PaidInv
<1>. QED
  BY <1>10, <1>12 DEF OwnInv

(* What is assigned to selected inputs was brought by settled transfers,   *)
(* and no send that acts takes it.                                         *)
Untaken(k) == \A x \in Sends : Acting(x) => k \notin plan[x].takes

LEMMA AssignedIsBrought ==
  ASSUME IInv, OwnInv, Ready, ~Interleaved, NEW rgb \in SUBSET Txos,
         \A u \in rgb : u \in InputUnspents, NEW k \in Assigned(rgb)
  PROVE  Untaken(k) /\ k \in Allocations
         /\ \E t \in Transfers : status[t] = "Settled" /\ k \in plan[t].brings
<1>1. PICK c \in colorings : /\ c.txo \in rgb /\ Incoming(c) /\ status[c.by] = "Settled"
                             /\ k = AllocOf(c)
  BY DEF Assigned, AllocOf
<1>2. c.by \in Transfers /\ k \in plan[c.by].brings /\ k.txo = c.txo /\ k \in Allocations
  BY <1>1, AllocOfType DEF IInv, TypeOK, Colorings, OwnInv, WrittenInv
<1>3. Untaken(k)
  <2>1. k.txo \in Txos /\ ~txos[k.txo].spent /\ ~TakenByWaitingSend(k.txo)
    BY <1>1, <1>2 DEF InputUnspents, Unspent, UsableAsInput
  <2>2. ASSUME NEW x \in Sends, Acting(x), k \in plan[x].takes PROVE FALSE
    <3>1. k.txo \in plan[x].inputs
      BY <2>2 DEF IInv, LedgerInv, SendInv, InputInv
    <3>2. k.txo \notin plan[x].inputs
      BY <2>1, <2>2, FreeUtxo
    <3>. QED
      BY <3>1, <3>2
  <2>. QED
    BY <2>2 DEF Untaken
<1>. QED
  BY <1>1, <1>2, <1>3

(* An allocation that is brought by a settled transfer and that no send    *)
(* takes is the only one of its source that counts.                        *)
LEMMA OnlyOne ==
  ASSUME IInv, OwnInv, NEW t \in Transfers, status[t] = "Settled", NEW k \in plan[t].brings, Untaken(k),
         NEW x \in Transfers, Live(x), NEW l \in plan[x].brings, k.source = l.source
  PROVE  k = l \/ PublicTake(l)
<1>1. CASE x = t
  BY <1>1 DEF OwnInv, PlaceInv, OneInPlan
<1>2. CASE x # t
  <2>1. Live(t) /\ (t \in Sends => t \in published)
    BY DEF Live, Acting, Saved, IInv, LedgerInv, SendInv, SpentInv
  <2>2. PublicTake(k) \/ PublicTake(l) \/ Takes(t, l) \/ Takes(x, k)
    BY <1>2, <2>1 DEF OwnInv, PlaceInv, OneInPlace
  <2>3. ~PublicTake(k) /\ ~Takes(x, k)
    BY DEF PublicTake, Takes, Untaken, Live, Acting
  <2>4. Takes(t, l) => PublicTake(l)
    BY <2>1 DEF PublicTake, Takes
  <2>. QED
    BY <2>2, <2>3, <2>4
<1>. QED
  BY <1>1, <1>2

LEMMA MovedFinite ==
  ASSUME NEW extra, IsFiniteSet(extra), NEW to PROVE IsFiniteSet(Moved(extra, to))
<1> DEFINE m == [k \in extra |-> [k EXCEPT !.txo = to]]
<1>1. m \in Surjection(extra, Moved(extra, to))
  BY DEF Surjection, Moved
<1> HIDE DEF m
<1>. QED
  BY <1>1, FS_Surjection

LEMMA AssignedFinite ==
  ASSUME IsFiniteSet(colorings), NEW rgb PROVE IsFiniteSet(Assigned(rgb))
<1> DEFINE S == {c \in colorings : c.txo \in rgb /\ Incoming(c) /\ status[c.by] = "Settled"}
           m == [c \in S |-> AllocOf(c)]
<1>1. IsFiniteSet(S)
  <2>1. S \in SUBSET colorings
    OBVIOUS
  <2>. QED
    BY <2>1, FS_Subset
<1>2. m \in Surjection(S, Assigned(rgb))
  BY DEF Surjection, Assigned, AllocOf
<1> HIDE DEF m
<1>. QED
  BY <1>1, <1>2, FS_Surjection

LEMMA SendBeginOwn ==
  ASSUME IInv, OwnInv, ~Interleaved, NEW s \in Sends, SendBegin(s) PROVE OwnInv'
<1>1. Ready /\ status[s] = "Absent" /\ status' = [status EXCEPT ![s] = "Prepared"]
      /\ UNCHANGED <<txos, colorings, seal, published>>
  BY DEF SendBegin
<1>2. PICK p \in Plans, rgb \in SUBSET Txos, fee \in SUBSET Txos, to \in Txos : Prepares(s, p, rgb, fee, to)
  BY SendBeginFacts DEF IInv
<1>3. PICK extra \in SUBSET Assigned(rgb), amount \in Nat :
        p.brings = Change(s, to, amount) \cup Moved(extra, to)
  BY <1>2 DEF Prepares
<1>4. s \in Transfers /\ Sends \subseteq Transfers /\ Witness \subseteq Transfers
      /\ Receives \subseteq Transfers
  BY OwnTxos DEF Transfers
<1>5. \A x \in Transfers : /\ x # s => plan'[x] = plan[x] /\ status'[x] = status[x]
                           /\ x = s => plan'[x] = p /\ status'[x] = "Prepared"
  BY <1>1, <1>2, <1>4 DEF Prepares, IInv, TypeOK
<1>6. p.takes = Assigned(rgb) /\ \A u \in rgb : u \in InputUnspents
  BY <1>2 DEF Prepares
<1>7. \A k \in Assigned(rgb) : /\ Untaken(k) /\ k \in Allocations
                               /\ \E t \in Transfers : status[t] = "Settled" /\ k \in plan[t].brings
  BY <1>1, <1>6, AssignedIsBrought
<1>8. s \notin published /\ ~txos[s].known
  BY <1>1 DEF IInv, LedgerInv, RowInv
<1>9. SettledStay
  BY <1>1, <1>5 DEF SettledStay
<1>10. \A t \in Transfers : \A k \in plan[t].brings :
          k.source \in Transfers /\ (k.source = t \/ status[k.source] = "Settled")
  BY DEF IInv, TypeOK, Plans, Allocations, OwnInv, PlaceInv, SourceInv
<1>11. \A k \in Assigned(rgb) : k.source \in Transfers /\ status[k.source] = "Settled"
  BY <1>7, <1>10
(* An allocation it brings is its change, or one it moves.                 *)
<1>12. \A k \in p.brings : \/ k.source = s /\ k = [txo |-> to, source |-> s, amount |-> amount]
                           \/ \E j \in extra : k = [j EXCEPT !.txo = to] /\ k.source = j.source
  <2>1. \A k \in Change(s, to, amount) :
           k.source = s /\ k = [txo |-> to, source |-> s, amount |-> amount]
    BY DEF Change
  <2>2. \A j \in extra : [j EXCEPT !.txo = to].source = j.source
    BY <1>7 DEF Allocations
  <2>3. \A k \in Moved(extra, to) : \E j \in extra : k = [j EXCEPT !.txo = to] /\ k.source = j.source
    BY <2>2 DEF Moved
  <2>. QED
    BY <1>3, <2>1, <2>3
<1>13. FiniteInv'
  <2>1. IsFiniteSet(Assigned(rgb))
    BY AssignedFinite DEF OwnInv, FiniteInv
  <2>2. IsFiniteSet(Moved(extra, to))
    BY <2>1, FS_Subset, MovedFinite
  <2>3. IsFiniteSet(Change(s, to, amount))
    <3> DEFINE change == [txo |-> to, source |-> s, amount |-> amount]
    <3>1. Change(s, to, amount) \in SUBSET {change}
      BY DEF Change
    <3> HIDE DEF change
    <3>. QED
      BY <3>1, FS_Singleton, FS_Subset
  <2>4. IsFiniteSet(p.brings)
    BY <1>3, <2>2, <2>3, FS_Union
  <2>. QED
    BY <1>1, <1>5, <1>6, <2>1, <2>4 DEF OwnInv, FiniteInv
<1>14. WrittenInv'
  <2> SUFFICES ASSUME NEW c \in colorings, Incoming(c)
               PROVE  AllocOf(c) \in plan'[c.by].brings /\ c.type = TypeBy(c.by)
    BY <1>1 DEF WrittenInv, Incoming, AllocOf, TypeBy
  <2>1. c.by \in Transfers /\ c.by # s
    BY <1>1 DEF IInv, TypeOK, Colorings, LedgerInv, ColoringInv
  <2>. QED
    BY <1>5, <2>1 DEF OwnInv, WrittenInv
<1>15. SourceInv'
  <2>1. ASSUME NEW t \in Transfers, NEW k \in plan'[t].brings
        PROVE  k.source = t \/ status'[k.source] = "Settled"
    <3>1. CASE t = s
      BY <1>5, <1>9, <1>11, <1>12, <3>1 DEF SettledStay
    <3>2. CASE t # s
      BY <1>5, <1>9, <1>10, <3>2 DEF SettledStay
    <3>. QED
      BY <3>1, <3>2
  <2>2. ASSUME NEW x \in Sends, Acting(x)', NEW k \in plan'[x].takes
        PROVE  \E t \in Transfers : status'[t] = "Settled" /\ k \in plan'[t].brings
    <3>1. \E t \in Transfers : status[t] = "Settled" /\ k \in plan[t].brings
      <4>1. CASE x = s
        BY <1>4, <1>5, <1>6, <1>7, <4>1
      <4>2. CASE x # s
        <5>1. Acting(x) /\ k \in plan[x].takes
          BY <1>1, <1>4, <1>5, <2>2, <4>2 DEF Acting, Saved
        <5>. QED
          BY <5>1 DEF OwnInv, PlaceInv, SourceInv
      <4>. QED
        BY <4>1, <4>2
    <3>. QED
      BY <1>1, <1>5, <1>9, <3>1 DEF SettledStay
  <2>. QED
    BY <2>1, <2>2 DEF SourceInv
<1>16. OneInPlan'
  <2> SUFFICES ASSUME NEW t \in Transfers, NEW k \in plan'[t].brings, NEW l \in plan'[t].brings,
                      k.source = l.source
               PROVE  k = l
    BY DEF OneInPlan
  <2>1. CASE t # s
    BY <1>5, <2>1 DEF OwnInv, PlaceInv, OneInPlan
  <2>2. CASE t = s
    <3>1. k \in p.brings /\ l \in p.brings
      BY <1>5, <2>2
    <3>2. \A i, j \in extra : i.source = j.source => i = j
      <4> SUFFICES ASSUME NEW i \in extra, NEW j \in extra, i.source = j.source PROVE i = j
        OBVIOUS
      <4>1. PICK t1 \in Transfers : status[t1] = "Settled" /\ i \in plan[t1].brings
        BY <1>7
      <4>2. PICK t2 \in Transfers : status[t2] = "Settled" /\ j \in plan[t2].brings
        BY <1>7
      <4>3. Untaken(i) /\ Untaken(j) /\ Live(t2)
        BY <1>7, <4>2 DEF Live, Acting, Saved
      <4>4. ~PublicTake(j)
        BY <4>3 DEF PublicTake, Untaken, Acting
      <4>. QED
        BY <4>1, <4>2, <4>3, <4>4, OnlyOne
    <3>3. \A j \in extra : j.source # s
      BY <1>1, <1>11
    <3>. QED
      BY <1>12, <3>1, <3>2, <3>3
  <2>. QED
    BY <2>1, <2>2
<1>17. ASSUME NEW y \in Transfers, y # s, Live(y)', NEW k \in p.brings, NEW l \in plan[y].brings,
              k.source = l.source
       PROVE  PublicTake(l)' \/ Takes(s, l)'
  <2>1. l.source # s
    BY <1>1, <1>10, <1>17
  <2>2. PICK j \in extra : k.source = j.source
    BY <1>12, <1>17, <2>1
  <2>3. PICK t \in Transfers : status[t] = "Settled" /\ j \in plan[t].brings
    BY <1>7
  <2>4. Live(y) /\ Untaken(j)
    BY <1>1, <1>5, <1>7, <1>17 DEF Live, Acting, Saved
  <2>5. j = l \/ PublicTake(l)
    BY <1>17, <2>2, <2>3, <2>4, OnlyOne
  <2>6. CASE j = l
    BY <1>4, <1>5, <1>6, <2>6 DEF Takes
  <2>7. CASE PublicTake(l)
    BY <1>1, <1>4, <1>5, <1>8, <2>7 DEF PublicTake
  <2>. QED
    BY <2>5, <2>6, <2>7
<1>18. OneInPlace'
  <2> SUFFICES ASSUME NEW x \in Transfers, NEW y \in Transfers, x # y, Live(x)', Live(y)',
                      NEW k \in plan'[x].brings, NEW l \in plan'[y].brings, k.source = l.source
               PROVE  (PublicTake(k) \/ PublicTake(l) \/ Takes(x, l) \/ Takes(y, k))'
    BY DEF OneInPlace
  <2>1. CASE x = s
    BY <1>5, <1>17, <2>1
  <2>2. CASE y = s
    BY <1>5, <1>17, <2>2
  <2>3. CASE x # s /\ y # s
    <3>1. Live(x) /\ Live(y) /\ k \in plan[x].brings /\ l \in plan[y].brings
      BY <1>1, <1>5, <2>3 DEF Live, Acting, Saved
    <3>2. PublicTake(k) \/ PublicTake(l) \/ Takes(x, l) \/ Takes(y, k)
      BY <3>1 DEF OwnInv, PlaceInv, OneInPlace
    <3>. QED
      BY <1>1, <1>4, <1>5, <1>8, <2>3, <3>2 DEF PublicTake, Takes
  <2>. QED
    BY <2>1, <2>2, <2>3
<1>19. HostInv'
  <2>1. \A k \in p.brings : k.txo = to
    BY <1>2 DEF Prepares
  <2>2. to \in GetUtxo(rgb \cup fee, TRUE) \/ (to = s /\ (p.ownOutput \/ p.brings = {}))
    BY <1>2 DEF Prepares
  <2>3. to \in GetUtxo(rgb \cup fee, TRUE) => to # s /\ (to \in Witness => status[to] = "Settled")
    BY <1>8, GetUtxoFacts, HostIsSettled DEF IInv, LedgerInv
  <2>4. \A t \in Transfers : \A k \in plan'[t].brings :
           k.txo \in Witness => k.txo = t \/ status'[k.txo] = "Settled"
    <3> SUFFICES ASSUME NEW t \in Transfers, NEW k \in plan'[t].brings, k.txo \in Witness
                 PROVE  k.txo = t \/ status'[k.txo] = "Settled"
      OBVIOUS
    <3>1. k.txo \in Transfers
      BY <1>4
    <3>2. k.txo = t \/ status[k.txo] = "Settled"
      <4>1. CASE t = s
        <5>1. k \in p.brings
          BY <1>5, <4>1
        <5>. QED
          BY <2>1, <2>2, <2>3, <4>1, <5>1
      <4>2. CASE t # s
        <5>1. k \in plan[t].brings
          BY <1>5, <4>2
        <5>. QED
          BY <5>1 DEF OwnInv, HostInv
      <4>. QED
        BY <4>1, <4>2
    <3>. QED
      BY <1>9, <3>1, <3>2 DEF SettledStay
  <2>5. \A x \in Sends : \A k \in plan'[x].brings : k.txo = x => plan'[x].ownOutput
    <3>1. \A k \in p.brings : k.txo = s => p.ownOutput
      BY <2>1, <2>2, <2>3
    <3> SUFFICES ASSUME NEW x \in Sends, NEW k \in plan'[x].brings, k.txo = x
                 PROVE  plan'[x].ownOutput
      OBVIOUS
    <3>2. CASE x = s
      BY <1>4, <1>5, <3>1, <3>2
    <3>3. CASE x # s
      BY <1>4, <1>5, <3>3 DEF OwnInv, HostInv
    <3>. QED
      BY <3>2, <3>3
  <2>6. \A r \in Blind : \A u \in seal'[r] : u \in Witness => status'[u] = "Settled"
    BY <1>1, <1>4, <1>9 DEF OwnInv, HostInv, SettledStay
  <2>. QED
    BY <2>4, <2>5, <2>6 DEF HostInv
<1>20. SpenderInv' /\ MarkInv' /\ PaidInv'
  <2>1. SpenderInv'
    BY <1>1, <1>4, <1>5, <1>8 DEF OwnInv, SpenderInv
  <2>2. MarkInv' /\ PaidInv'
    BY <1>1, <1>4, <1>5 DEF OwnInv, MarkInv, PaidInv
  <2>. QED
    BY <2>1, <2>2
<1>. QED
  BY <1>13, <1>14, <1>15, <1>16, <1>18, <1>19, <1>20 DEF OwnInv, PlaceInv

LEMMA SendAbortedOwn == ASSUME IInv, OwnInv, NEW s \in Sends, SendAborted(s) PROVE OwnInv'
<1>1. status[s] = "Prepared" /\ status' = [status EXCEPT ![s] = "Gone"]
      /\ plan' = [plan EXCEPT ![s] = NoPlan] /\ UNCHANGED <<txos, colorings, seal, published>>
  BY DEF SendAborted
<1>2. s \in Transfers /\ Sends \subseteq Transfers /\ Witness \subseteq Transfers
      /\ Receives \subseteq Transfers
  BY OwnTxos DEF Transfers
<1>3. s \notin published
  BY <1>1 DEF IInv, LedgerInv, RowInv
<1>4. \A x \in Transfers : /\ x # s => plan'[x] = plan[x] /\ status'[x] = status[x]
                           /\ x = s => status'[x] = "Gone"
  BY <1>1, <1>2 DEF IInv, TypeOK
<1>5. plan'[s].takes = {} /\ plan'[s].brings = {}
  BY <1>1, <1>2 DEF IInv, TypeOK, NoPlan
<1>6. \A x \in Transfers : Live(x)' => Live(x) /\ x # s
  BY <1>1, <1>2, <1>3, <1>4 DEF Live, Acting, Saved
<1>7. SettledStay
  BY <1>1, <1>4 DEF SettledStay
<1>8. FiniteInv'
  BY <1>1, <1>4, <1>5, FS_EmptySet DEF OwnInv, FiniteInv
<1>9. WrittenInv'
  <2>1. \A c \in colorings : c.by \in Transfers /\ c.by # s
    BY <1>1 DEF IInv, TypeOK, Colorings, LedgerInv, ColoringInv
  <2>. QED
    BY <1>1, <1>4, <2>1 DEF OwnInv, WrittenInv, Incoming, AllocOf, TypeBy
<1>10. SourceInv'
  <2>1. ASSUME NEW t \in Transfers, NEW k \in plan'[t].brings
        PROVE  k.source = t \/ status'[k.source] = "Settled"
    <3>1. t # s /\ k \in plan[t].brings /\ k.source \in Transfers
      BY <1>4, <1>5 DEF IInv, TypeOK, Plans, Allocations
    <3>. QED
      BY <1>7, <3>1 DEF OwnInv, PlaceInv, SourceInv, SettledStay
  <2>2. ASSUME NEW x \in Sends, Acting(x)', NEW k \in plan'[x].takes
        PROVE  \E t \in Transfers : status'[t] = "Settled" /\ k \in plan'[t].brings
    <3>1. Acting(x) /\ x # s /\ k \in plan[x].takes
      BY <1>2, <1>4, <1>6, <2>2 DEF Live
    <3>2. PICK t \in Transfers : status[t] = "Settled" /\ k \in plan[t].brings
      BY <3>1 DEF OwnInv, PlaceInv, SourceInv
    <3>. QED
      BY <1>1, <1>4, <3>2
  <2>. QED
    BY <2>1, <2>2 DEF SourceInv
<1>11. OneInPlan'
  BY <1>4, <1>5 DEF OwnInv, PlaceInv, OneInPlan
<1>12. OneInPlace'
  <2> SUFFICES ASSUME NEW x \in Transfers, NEW y \in Transfers, x # y, Live(x)', Live(y)',
                      NEW k \in plan'[x].brings, NEW l \in plan'[y].brings, k.source = l.source
               PROVE  (PublicTake(k) \/ PublicTake(l) \/ Takes(x, l) \/ Takes(y, k))'
    BY DEF OneInPlace
  <2>1. Live(x) /\ Live(y) /\ x # s /\ y # s /\ k \in plan[x].brings /\ l \in plan[y].brings
    BY <1>4, <1>6
  <2>2. PublicTake(k) \/ PublicTake(l) \/ Takes(x, l) \/ Takes(y, k)
    BY <2>1 DEF OwnInv, PlaceInv, OneInPlace
  <2>. QED
    BY <1>1, <1>2, <1>3, <1>4, <2>1, <2>2 DEF PublicTake, Takes
<1>13. HostInv'
  <2>1. \A x \in Sends : \A k \in plan'[x].brings : k.txo = x => plan'[x].ownOutput
    BY <1>2, <1>4, <1>5 DEF OwnInv, HostInv
  <2>2. \A t \in Transfers : \A k \in plan'[t].brings :
           k.txo \in Witness => k.txo = t \/ status'[k.txo] = "Settled"
    BY <1>2, <1>4, <1>5, <1>7 DEF OwnInv, HostInv, SettledStay
  <2>3. \A r \in Blind : \A u \in seal'[r] : u \in Witness => status'[u] = "Settled"
    BY <1>1, <1>2, <1>7 DEF OwnInv, HostInv, SettledStay
  <2>. QED
    BY <2>1, <2>2, <2>3 DEF HostInv
<1>14. SpenderInv' /\ MarkInv' /\ PaidInv'
  BY <1>1, <1>2, <1>3, <1>4 DEF OwnInv, SpenderInv, MarkInv, PaidInv
<1>. QED
  BY <1>8, <1>9, <1>10, <1>11, <1>12, <1>13, <1>14 DEF OwnInv, PlaceInv

(* The colorings of a send are those its plan speaks of.                   *)
LEMMA TablesSaved ==
  ASSUME IInv, OwnInv, NEW s \in Sends, UNCHANGED plan, colorings' = ColorSend(s)
  PROVE  FiniteInv' /\ WrittenInv'
<1> DEFINE in == Color(plan[s].takes, s, "Input")
           out == Color(plan[s].brings, s, "Change")
<1>1. s \in Transfers /\ s \notin Issues \cup Receives /\ "Input" \in Types /\ "Change" \in Types
      /\ plan[s].takes \subseteq Allocations /\ plan[s].brings \subseteq Allocations
  BY ConstantsAssumption DEF Transfers, Types, IInv, TypeOK, Plans
<1>2. IsFiniteSet(in) /\ IsFiniteSet(out)
  BY <1>1, ColorFinite DEF OwnInv, FiniteInv
<1>3. \A c \in in : ~Incoming(c)
  BY <1>1, ColorFacts DEF Incoming
<1>4. \A c \in out : c.by = s /\ c.type = "Change" /\ AllocOf(c) \in plan[s].brings
  BY <1>1, ColorFacts
<1>5. colorings' = colorings \cup in \cup out
  BY DEF ColorSend
<1> HIDE DEF in, out
<1>6. FiniteInv'
  <2>1. IsFiniteSet(colorings')
    BY <1>2, <1>5, FS_Union DEF OwnInv, FiniteInv
  <2>. QED
    BY <2>1 DEF OwnInv, FiniteInv
<1>7. WrittenInv'
  <2> SUFFICES ASSUME NEW c \in colorings', Incoming(c)
               PROVE  AllocOf(c) \in plan[c.by].brings /\ c.type = TypeBy(c.by)
    BY DEF WrittenInv, Incoming, AllocOf, TypeBy
  <2>1. CASE c \in colorings
    BY <2>1 DEF OwnInv, WrittenInv
  <2>2. CASE c \in out
    BY <1>1, <1>4, <2>2 DEF TypeBy
  <2>. QED
    BY <1>3, <1>5, <2>1, <2>2
<1>. QED
  BY <1>6, <1>7

LEMMA OwnRowMarks ==
  ASSUME NEW rows \in [Txos -> Rows], NEW s \in Sends, NEW u \in Txos
  PROVE  /\ OwnRow(rows, s)[u].spent => rows[u].spent
         /\ OwnRow(rows, s)[u].pendingWitness => rows[u].pendingWitness
<1>1. OwnRow(rows, s)[u] = rows[u] \/ OwnRow(rows, s)[u] = Row(FALSE, FALSE)
  BY OwnRowFacts
<1>2. ~Row(FALSE, FALSE).spent /\ ~Row(FALSE, FALSE).pendingWitness
  BY DEF Row
<1>. QED
  BY <1>1, <1>2

LEMMA SendEndOwn == ASSUME IInv, OwnInv, NEW s \in Sends, SendEnd(s) PROVE OwnInv'
<1>1. status[s] = "Prepared" /\ status' = [status EXCEPT ![s] = "WaitingCounterparty"]
      /\ txos' = OwnRow(txos, s) /\ colorings' = ColorSend(s) /\ UNCHANGED <<seal, plan, published>>
      /\ s \in Transfers /\ s \notin Receives
  BY ConstantsAssumption DEF SendEnd, Transfers
<1>2. \A x \in Transfers : status'[x] = IF x = s THEN "WaitingCounterparty" ELSE status[x]
  BY <1>1 DEF IInv, TypeOK
<1>3. \A x \in Transfers : (Live(x)' => Live(x)) /\ (x \in Sends => (Acting(x)' => Acting(x)))
  BY <1>1, <1>2 DEF Live, Acting, Saved
<1>4. Sends \subseteq Transfers /\ Witness \subseteq Receives /\ Receives \subseteq Transfers
  BY OwnTxos DEF Transfers, Receives
<1>5. PlaceInv' /\ HostInv'
  BY <1>1, <1>2, <1>3, <1>4, PlaceKept, HostKept DEF IInv, OwnInv, SettledStay
<1>6. FiniteInv' /\ WrittenInv'
  BY <1>1, TablesSaved
<1>7. \A u \in Txos : /\ txos'[u].spent => txos[u].spent
                      /\ txos'[u].pendingWitness => txos[u].pendingWitness
  BY <1>1, OwnRowMarks DEF IInv, TypeOK
<1>8. SpenderInv' /\ MarkInv' /\ PaidInv'
  BY <1>1, <1>2, <1>4, <1>7 DEF OwnInv, SpenderInv, MarkInv, PaidInv
<1>. QED
  BY <1>5, <1>6, <1>8 DEF OwnInv

LEMMA SendDonationOwn == ASSUME IInv, OwnInv, NEW s \in Sends, SendDonation(s) PROVE OwnInv'
<1>1. status[s] = "Prepared" /\ published' = published \cup {s} /\ UNCHANGED <<seal, plan>>
      /\ s \in Transfers /\ s \notin Receives
      /\ status' \in {[status EXCEPT ![s] = "WaitingConfirmations"], [status EXCEPT ![s] = "Gone"]}
      /\ colorings' \in {colorings, ColorSend(s)}
  BY ConstantsAssumption DEF SendDonation, Transfers
<1>2. \A x \in Transfers : status'[x] = status[x]
                           \/ (x = s /\ status'[x] \in {"WaitingConfirmations", "Gone"})
  BY <1>1 DEF IInv, TypeOK
<1>3. \A x \in Transfers : (Live(x)' => Live(x)) /\ (x \in Sends => (Acting(x)' => Acting(x)))
  BY <1>1, <1>2 DEF Live, Acting, Saved
<1>4. Sends \subseteq Transfers /\ Witness \subseteq Receives /\ Receives \subseteq Transfers
  BY OwnTxos DEF Transfers, Receives
<1>5. PlaceInv' /\ HostInv'
  BY <1>1, <1>2, <1>3, <1>4, PlaceKept, HostKept DEF IInv, OwnInv, SettledStay
<1>6. FiniteInv' /\ WrittenInv'
  BY <1>1, TablesSaved, TablesKept DEF OwnInv
<1> DEFINE rows == SpendInputs(txos, s)
<1>7. rows \in [Txos -> Rows] /\ SameButSpent(rows)
  BY SpendInputsFacts DEF IInv
<1>8. \A u \in Txos : rows[u].spent => \E x \in Sends \cap published' : u \in plan'[x].inputs
  BY <1>1, SpentByPublic
<1>9. \A u \in Txos : /\ txos'[u].spent => rows[u].spent
                      /\ txos'[u].pendingWitness => u \in Witness /\ status[u] # "Settled"
  <2> HIDE DEF rows
  <2>1. CASE \E seen : txos' = OwnRow(Synced(rows, seen), s)
    <3>1. PICK seen : txos' = OwnRow(Synced(rows, seen), s)
      BY <2>1
    <3>2. Synced(rows, seen) \in [Txos -> Rows]
      BY <1>7, SyncedType
    <3>. QED
      BY <1>7, <3>1, <3>2, SyncedMarks, OwnRowMarks
  <2>2. CASE txos' = rows
    BY <1>7, <2>2 DEF SameButSpent, OwnInv, MarkInv
  <2>3. (\E seen : txos' = OwnRow(Synced(rows, seen), s)) \/ txos' = rows
    BY DEF SendDonation, rows
  <2>. QED
    BY <2>1, <2>2, <2>3
<1>10. SpenderInv' /\ MarkInv' /\ PaidInv'
  <2> HIDE DEF rows
  <2>. QED
    BY <1>1, <1>2, <1>4, <1>8, <1>9 DEF OwnInv, SpenderInv, MarkInv, PaidInv
<1>. QED
  BY <1>5, <1>6, <1>10 DEF OwnInv

LEMMA OwnStep ==
  ASSUME IInv, OwnInv, [Next]_vars, ~Interleaved PROVE OwnInv'
<1>1. CASE UNCHANGED vars
  <2>1. UNCHANGED <<txos, status, colorings, seal, plan, published>>
    BY <1>1 DEF vars
  <2>2. \A x \in Transfers : Live(x)' <=> Live(x)
    BY <2>1 DEF Live, Acting, Saved
  <2>3. \A x \in Sends : Acting(x)' <=> Acting(x)
    BY <2>1 DEF Acting, Saved
  <2>4. PlaceInv' /\ HostInv'
    BY <2>1, <2>2, <2>3, PlaceKept, HostKept DEF IInv, OwnInv, SettledStay
  <2>5. FiniteInv' /\ WrittenInv'
    BY <2>1, TablesKept DEF OwnInv
  <2>6. SpenderInv' /\ MarkInv' /\ PaidInv'
    BY <2>1 DEF OwnInv, SpenderInv, MarkInv, PaidInv
  <2>. QED
    BY <2>4, <2>5, <2>6 DEF OwnInv
<1>2. CASE Next
  BY <1>2, IssueOwn, BlindReceiveOwn, WitnessReceiveOwn, AcknowledgeOwn, PayOwn, ReceiveSettlesOwn,
     SendBeginOwn, SendEndOwn, SendAbortedOwn, SendDonationOwn, BroadcastOwn, SendSettlesOwn,
     FailOwn, DeleteOwn, SyncOwn
  DEF Next
<1>. QED
  BY <1>1, <1>2

-----------------------------------------------------------------------------
(* The balances.                                                           *)

LEMMA ColoringsSummable ==
  ASSUME TypeOK, FiniteInv, NEW C, C \subseteq colorings PROVE Summable(C)
<1>1. IsFiniteSet(C)
  BY FS_Subset DEF FiniteInv
<1>2. \A c \in C : c.amount \in Nat
  BY DEF TypeOK, Colorings
<1>. QED
  BY <1>1, <1>2 DEF Summable

(* A coloring that takes an allocation marks an input of the send.         *)
LEMMA TakenColorings ==
  ASSUME IInv, NEW c \in colorings, ~Incoming(c), status[c.by] \in {"WaitingConfirmations", "Settled"}
  PROVE  /\ c.by \in Sends \cap published /\ AllocOf(c) \in plan[c.by].takes
         /\ c.txo \in plan[c.by].inputs /\ txos[c.txo].spent
<1>1. c.by \in Sends /\ AllocOf(c) \in plan[c.by].takes
  BY DEF IInv, LedgerInv, ColoringInv
<1>2. c.by \in published /\ Acting(c.by)
  BY <1>1 DEF IInv, LedgerInv, SendInv, SpentInv, Acting
<1>3. c.txo \in plan[c.by].inputs
  <2>1. AllocOf(c).txo = c.txo
    BY DEF AllocOf
  <2>. QED
    BY <1>1, <1>2, <2>1 DEF IInv, LedgerInv, SendInv, InputInv
<1>4. txos[c.txo].spent
  BY <1>1, <1>2, <1>3 DEF IInv, LedgerInv, SendInv, SpentInv
<1>. QED
  BY <1>1, <1>2, <1>3, <1>4

(* A settled coloring is of an allocation that is brought and not taken.   *)
LEMMA SettledIsBrought ==
  ASSUME IInv, OwnInv, NEW c \in colorings, IsSettled(c)
  PROVE  AllocOf(c) \in Brought \ Taken
<1>0. c.by \in Transfers /\ c.txo \in Txos /\ AllocOf(c).txo = c.txo
  BY DEF IInv, TypeOK, Colorings, AllocOf
<1>1. CASE ~txos[c.txo].spent
  <2>1. Incoming(c) /\ status[c.by] = "Settled"
    BY <1>1 DEF IsSettled
  <2>2. AllocOf(c) \in Brought
    BY <1>0, <2>1 DEF Brought, OwnInv, WrittenInv
  <2>3. ASSUME NEW s \in Sends \cap published, AllocOf(c) \in plan[s].takes PROVE FALSE
    <3>1. c.txo \in plan[s].inputs
      BY <1>0, <2>3 DEF IInv, LedgerInv, SendInv, InputInv, Acting
    <3>. QED
      BY <1>1, <3>1 DEF IInv, LedgerInv, SendInv, SpentInv
  <2>. QED
    BY <2>2, <2>3 DEF Taken
<1>2. CASE txos[c.txo].spent
  <2>1. ~Incoming(c) /\ status[c.by] = "WaitingConfirmations"
    BY <1>2 DEF IsSettled
  <2>2. c.by \in Sends \cap published /\ AllocOf(c) \in plan[c.by].takes /\ c.txo \in plan[c.by].inputs
    BY <2>1, TakenColorings
  <2>3. AllocOf(c) \in Brought
    BY <2>2 DEF Brought, Acting, OwnInv, PlaceInv, SourceInv
  <2>4. ASSUME NEW s \in Sends \cap published, s # c.by, AllocOf(c) \in plan[s].takes PROVE FALSE
    <3>1. c.txo \in plan[s].inputs
      BY <1>0, <2>4 DEF IInv, LedgerInv, SendInv, InputInv, Acting
    <3>. QED
      BY <2>2, <2>4, <3>1 DEF IInv, LedgerInv, SendInv, DisjointInv, Acting
  <2>. QED
    BY <2>1, <2>3, <2>4 DEF Taken
<1>. QED
  BY <1>1, <1>2

(* What is brought and not taken has a settled coloring: that of the       *)
(* transfer that brings it or, while a send that spends its UTXO waits for *)
(* confirmations, that of the send.                                        *)
LEMMA BroughtIsSettled ==
  ASSUME IInv, OwnInv, NEW k \in Brought \ Taken
  PROVE  \E c \in colorings : IsSettled(c) /\ AllocOf(c) = k
<1>1. PICK t \in Transfers : status[t] = "Settled" /\ k \in plan[t].brings
  BY DEF Brought
<1>2. PICK c \in colorings : Incoming(c) /\ c.by = t /\ AllocOf(c) = k
  BY <1>1 DEF Saved, IInv, LedgerInv, PlanInv
<1>3. c.txo = k.txo /\ k.txo \in Txos
  BY <1>2 DEF AllocOf, IInv, TypeOK, Colorings
<1>4. CASE ~txos[k.txo].spent
  BY <1>1, <1>2, <1>3, <1>4 DEF IsSettled
<1>5. CASE txos[k.txo].spent
  <2>1. PICK s \in Sends \cap published : k.txo \in plan[s].inputs
    BY <1>3, <1>5 DEF OwnInv, SpenderInv
  <2>2. k \in plan[s].takes
    BY <1>1, <2>1 DEF IInv, LedgerInv, SendInv, BroughtInv, Acting, Saved
  <2>3. status[s] = "WaitingConfirmations"
    BY <2>1, <2>2 DEF Taken
  <2>4. PICK d \in colorings : ~Incoming(d) /\ d.by = s /\ AllocOf(d) = k
    BY <2>1, <2>2, <2>3 DEF Saved, IInv, LedgerInv, PlanInv
  <2>5. d.txo = k.txo
    BY <2>4 DEF AllocOf
  <2>. QED
    BY <1>5, <2>3, <2>4, <2>5 DEF IsSettled
<1>. QED
  BY <1>4, <1>5

(* No allocation has two settled colorings.                                *)
LEMMA SettledOnce ==
  ASSUME IInv, OwnInv, NEW c \in colorings, NEW d \in colorings, IsSettled(c), IsSettled(d),
         AllocOf(c) = AllocOf(d)
  PROVE  c = d
<1>1. /\ c.by \in Transfers /\ d.by \in Transfers /\ c.txo = d.txo
      /\ c.source = d.source /\ c.amount = d.amount
      /\ c = [txo |-> c.txo, source |-> c.source, amount |-> c.amount, by |-> c.by, type |-> c.type]
      /\ d = [txo |-> d.txo, source |-> d.source, amount |-> d.amount, by |-> d.by, type |-> d.type]
  BY DEF AllocOf, IInv, TypeOK, Colorings
<1> SUFFICES c.by = d.by /\ c.type = d.type
  BY <1>1
<1>2. CASE ~txos[c.txo].spent
  <2>1. Incoming(c) /\ Incoming(d) /\ status[c.by] = "Settled" /\ status[d.by] = "Settled"
    BY <1>1, <1>2 DEF IsSettled
  <2>2. /\ AllocOf(c) \in plan[c.by].brings /\ AllocOf(c) \in plan[d.by].brings
        /\ c.type = TypeBy(c.by) /\ d.type = TypeBy(d.by)
    BY <2>1 DEF OwnInv, WrittenInv
  <2>3. Live(c.by) /\ Live(d.by)
    BY <2>1 DEF Live, Acting, Saved
  <2>4. ASSUME NEW s \in Sends \cap published, AllocOf(c) \in plan[s].takes PROVE FALSE
    <3>1. AllocOf(c).txo = c.txo
      BY DEF AllocOf
    <3>2. c.txo \in plan[s].inputs
      BY <2>4, <3>1 DEF IInv, LedgerInv, SendInv, InputInv, Acting
    <3>. QED
      BY <1>2, <3>2 DEF IInv, LedgerInv, SendInv, SpentInv
  <2>5. c.by \in Sends => c.by \in published
    BY <2>1 DEF IInv, LedgerInv, SendInv, SpentInv
  <2>6. d.by \in Sends => d.by \in published
    BY <2>1 DEF IInv, LedgerInv, SendInv, SpentInv
  <2>7. c.by = d.by
    <3> SUFFICES ASSUME c.by # d.by PROVE FALSE
      OBVIOUS
    <3>1. PublicTake(AllocOf(c)) \/ Takes(c.by, AllocOf(c)) \/ Takes(d.by, AllocOf(c))
      BY <1>1, <2>2, <2>3 DEF OwnInv, PlaceInv, OneInPlace
    <3>. QED
      BY <2>4, <2>5, <2>6, <3>1 DEF PublicTake, Takes
  <2>. QED
    BY <2>2, <2>7
<1>3. CASE txos[c.txo].spent
  <2>1. /\ ~Incoming(c) /\ ~Incoming(d)
        /\ status[c.by] = "WaitingConfirmations" /\ status[d.by] = "WaitingConfirmations"
    BY <1>1, <1>3 DEF IsSettled
  <2>2. /\ c.by \in Sends \cap published /\ c.txo \in plan[c.by].inputs
        /\ d.by \in Sends \cap published /\ c.txo \in plan[d.by].inputs
    BY <1>1, <2>1, TakenColorings
  <2>3. c.by = d.by
    BY <2>2 DEF IInv, LedgerInv, SendInv, DisjointInv, Acting
  <2>. QED
    BY <2>1, <2>3 DEF Incoming
<1>. QED
  BY <1>2, <1>3

LEMMA SettledSum == ASSUME IInv, OwnInv PROVE SettledIsOwned
<1> SUFFICES ASSUME NEW asset \in Assets
             PROVE  SettledBalance(asset) = Total({k \in Brought \ Taken : AssetOf[k.source] = asset})
  BY DEF SettledIsOwned
<1> DEFINE S == {c \in Of(asset) : IsSettled(c)}
           T == {k \in Brought \ Taken : AssetOf[k.source] = asset}
           m == [c \in S |-> AllocOf(c)]
<1>1. S \subseteq colorings /\ \A c \in S : IsSettled(c) /\ AssetOf[c.source] = asset
  BY DEF Of
<1>2. \A c \in S : m[c] = AllocOf(c) /\ AllocOf(c).source = c.source /\ AllocOf(c).amount = c.amount
  BY DEF AllocOf
<1>3. m \in [S -> T]
  <2>1. \A c \in S : AllocOf(c) \in T
    BY <1>1, <1>2, SettledIsBrought
  <2>. QED
    BY <2>1
<1>4. \A k \in T : \E c \in S : m[c] = k
  <2> SUFFICES ASSUME NEW k \in T PROVE \E c \in S : m[c] = k
    OBVIOUS
  <2>1. PICK c \in colorings : IsSettled(c) /\ AllocOf(c) = k
    BY BroughtIsSettled
  <2>2. AllocOf(c).source = c.source
    BY DEF AllocOf
  <2>3. c \in S
    BY <2>1, <2>2 DEF Of
  <2>. QED
    BY <1>2, <2>1, <2>3
<1>5. \A c, d \in S : m[c] = m[d] => c = d
  BY <1>1, <1>2, SettledOnce
<1>6. Summable(S)
  BY <1>1, ColoringsSummable DEF IInv, OwnInv
<1>7. \A c \in S : m[c].amount = c.amount
  BY <1>2
<1>8. SettledBalance(asset) = Total(S)
  BY DEF SettledBalance
<1> HIDE DEF S, T, m
<1>9. Total(T) = Total(S)
  BY <1>3, <1>4, <1>5, <1>6, <1>7, TotalImage
<1>. QED
  BY <1>8, <1>9 DEF T

LEMMA PendingBlindedCount == \A u : PendingBlinded(u) \in Nat
<1> TAKE u
<1>1. IsFiniteSet({r \in Blind : status[r] = "WaitingCounterparty" /\ u \in seal[r]})
  BY ConstantsAssumption, FS_Subset
<1>. QED
  BY <1>1, FS_CardinalityType DEF PendingBlinded

(* Where a settled coloring counts as spendable, the UTXO may be an input. *)
LEMMA SpendableIsUsable ==
  ASSUME IInv, OwnInv, \A u \in Outputs(published) : txos[u].exists,
         NEW c \in colorings, IsSettled(c), ~Unspendable(c.txo)
  PROVE  c.txo \in InputUnspents /\ status[c.by] = "Settled"
<1> DEFINE u == c.txo
<1>0. u \in Txos /\ c.by \in Transfers /\ AllocOf(c).txo = u
  BY DEF IInv, TypeOK, Colorings, AllocOf
<1>1. ~txos[u].spent
  BY DEF IsSettled, Unspendable, On
<1>2. Incoming(c) /\ status[c.by] = "Settled"
  BY <1>1 DEF IsSettled
<1>3. /\ \A d \in On(u) : (Incoming(d) => ~Pending(d)) /\ (~Incoming(d) => Failed(d))
      /\ PendingBlinded(u) = 0
  <2>1. \A d \in On(u) : (Incoming(d) => ~Pending(d)) /\ (~Incoming(d) => Failed(d))
    BY <1>1 DEF Unspendable
  <2>2. ~ (PendingBlinded(u) > 0)
    BY <1>1 DEF Unspendable
  <2>. QED
    BY <2>1, <2>2, PendingBlindedCount
<1>4. ~TakenByWaitingSend(u)
  BY <1>3 DEF TakenByWaitingSend, Failed
<1>5. AllocOf(c) \in plan[c.by].brings
  BY <1>2 DEF OwnInv, WrittenInv
<1>6. txos[u].exists
  <2> SUFFICES ASSUME ~txos[u].exists PROVE FALSE
    OBVIOUS
  <2>1. c.by = u
    BY DEF IInv, LedgerInv, ColoringInv
  <2>2. u \in Witness \cup Sends
    BY <1>0, <2>1, ConstantsAssumption DEF Txos
  <2>3. u \in published
    BY <1>2, <2>1, <2>2 DEF Receives, OwnInv, PaidInv, IInv, LedgerInv, SendInv, SpentInv
  <2>4. u \in Sends => plan[u].ownOutput
    BY <1>0, <1>5, <2>1 DEF OwnInv, HostInv
  <2>5. \A s \in published \cap Sends : u \notin plan[s].inputs
    BY <1>1 DEF IInv, LedgerInv, SendInv, SpentInv
  <2>. QED
    BY <1>0, <2>3, <2>4, <2>5 DEF Outputs
<1>7. txos[u].known
  BY <1>0, <1>6 DEF IInv, LedgerInv, RowInv
<1>8. ~txos[u].pendingWitness
  BY <1>0, <1>2, <1>5 DEF OwnInv, MarkInv, HostInv
<1>. QED
  BY <1>0, <1>1, <1>2, <1>3, <1>4, <1>6, <1>7, <1>8 DEF InputUnspents, Unspent, UsableAsInput

(* And the other way round.                                                *)
LEMMA UsableIsSpendable ==
  ASSUME IInv, NEW c \in colorings, c.txo \in InputUnspents, status[c.by] = "Settled"
  PROVE  IsSettled(c) /\ ~Unspendable(c.txo)
<1>1. /\ ~txos[c.txo].spent /\ \A d \in On(c.txo) : Incoming(d) => ~Pending(d)
      /\ ~TakenByWaitingSend(c.txo) /\ PendingBlinded(c.txo) = 0
  BY DEF InputUnspents, Unspent, UsableAsInput
<1>2. ASSUME NEW d \in On(c.txo), ~Incoming(d) PROVE Failed(d)
  <2>1. d \in colorings /\ d.txo = c.txo
    BY DEF On
  <2>2. status[d.by] \notin {"WaitingConfirmations", "Settled"}
    BY <1>1, <1>2, <2>1, TakenColorings
  <2>3. status[d.by] # "WaitingCounterparty"
    BY <1>1, <1>2 DEF TakenByWaitingSend
  <2>. QED
    BY <2>1, <2>2, <2>3 DEF Failed, IInv, LedgerInv, ColoringInv
<1>3. Incoming(c)
  <2>1. c \in On(c.txo)
    BY DEF On
  <2>. QED
    BY <1>2, <2>1 DEF Failed
<1>. QED
  BY <1>1, <1>2, <1>3 DEF IsSettled, Unspendable

LEMMA SpendableSum == ASSUME IInv, OwnInv PROVE SpendableIsSelectable
<1> SUFFICES ASSUME \A u \in Outputs(published) : txos[u].exists, NEW asset \in Assets
             PROVE  SpendableBalance(asset) =
                      Total({c \in Of(asset) : c.txo \in InputUnspents /\ status[c.by] = "Settled"})
  BY DEF SpendableIsSelectable
<1> DEFINE S == {c \in Of(asset) : IsSettled(c)}
           U == {c \in Of(asset) : IsSettled(c) /\ Unspendable(c.txo)}
           V == {c \in Of(asset) : c.txo \in InputUnspents /\ status[c.by] = "Settled"}
<1>1. Of(asset) \subseteq colorings
  BY DEF Of
<1>2. S \ U = V
  BY <1>1, SpendableIsUsable, UsableIsSpendable
<1>3. U \subseteq S /\ Summable(S)
  BY <1>1, ColoringsSummable DEF IInv, OwnInv
<1>4. SpendableBalance(asset) = Total(S) - Total(U)
  BY DEF SpendableBalance, SettledBalance
<1> HIDE DEF S, U, V
<1>5. /\ Total(S) = Total(U) + Total(S \ U)
      /\ Total(U) \in Nat /\ Total(S \ U) \in Nat
  BY <1>3, TotalSplit
<1>6. SpendableBalance(asset) = Total(V)
  BY <1>2, <1>4, <1>5
<1>. QED
  BY <1>6 DEF V

-----------------------------------------------------------------------------
(* The two invariants hold together.                                       *)
LEMMA BalanceInvariant ==
  ASSUME ~Interleaved, ~FeeInputs PROVE Spec => [](IInv /\ OwnInv)
<1>1. IInv /\ OwnInv /\ [Next]_vars => IInv' /\ OwnInv'
  BY LedgerStep, OwnStep
<1>. QED
  BY <1>1, InvInit, OwnInit, PTL DEF Spec

(* The settled balance of an asset is the sum of what settled transfers    *)
(* have brought and no public transaction has taken, a send that waits for *)
(* confirmations apart (get_asset_balance), if sends need no further UTXO  *)
(* for the fee and nothing runs between send_begin and send_end.           *)
THEOREM SettledBalanceIsOwned ==
  ASSUME ~Interleaved, ~FeeInputs PROVE Spec => []SettledIsOwned
BY BalanceInvariant, SettledSum, PTL

(* Once every output of the wallet has been synced, the spendable balance  *)
(* of an asset is the sum of the allocations on UTXOs that send_begin may  *)
(* take as inputs (get_asset_balance and get_input_unspents agree), under  *)
(* the same conditions.                                                    *)
THEOREM SpendableBalanceIsSelectable ==
  ASSUME ~Interleaved, ~FeeInputs PROVE Spec => []SpendableIsSelectable
BY BalanceInvariant, SpendableSum, PTL

=============================================================================
