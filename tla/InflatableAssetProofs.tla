------------------------ MODULE InflatableAssetProofs ------------------------
(***************************************************************************)
(* Proofs about InflatableAsset, for any transactions, outputs, amounts    *)
(* and reject lists: the chain as the wallet sees it, which UTXOs its      *)
(* transactions spend, the types, what a prepared transaction takes and    *)
(* brings, and the retries of send_begin.  SupplyProofs has the supply.    *)
(***************************************************************************)
EXTENDS InflatableAsset, SelectionProofs

Outgoing == Inflations \cup Sends

-----------------------------------------------------------------------------
(* Outputs.                                                                *)

LEMMA TxoFacts ==
  ASSUME NEW u \in Txos
  PROVE  Maker(u) \in Txs /\ u[2] \in Made[Maker(u)] /\ u = <<Maker(u), u[2]>>
<1>1. PICK t \in Txs : u \in {t} \X Made[t]
  BY DEF Txos
<1>. QED
  BY <1>1 DEF Maker

LEMMA OutputFacts ==
  ASSUME NEW t \in Txs, NEW n \in Made[t]
  PROVE  <<t, n>> \in Txos /\ Maker(<<t, n>>) = t /\ (n # 0 => <<t, n>> \in External)
<1>1. <<t, n>> \in {t} \X Made[t]
  OBVIOUS
<1>2. <<t, n>> \in Txos
  BY <1>1 DEF Txos
<1>. QED
  BY <1>2 DEF Maker, External, Internal

(* What the colored transactions make for this wallet is external.         *)
LEMMA ColoredOutputs ==
  ASSUME NEW t \in Outgoing
  PROVE  /\ t \in Txs /\ t \in Colored /\ Maker(ChangeOf(t)) = t
         /\ t \in Inflations => <<t, 1>> \in External /\ Maker(<<t, 1>>) = t
<1>1. t \in Txs /\ t \in Colored /\ 0 \notin Made[t]
  BY AssetAssumption, TransactionsAssumption DEF Outgoing, Txs
<1>2. t \in Inflations => 1 \in Made[t]
  BY AssetAssumption
<1>3. Maker(ChangeOf(t)) = t
  BY DEF ChangeOf, Maker
<1>. QED
  BY <1>1, <1>2, <1>3, OutputFacts

LEMMA ReceivedOutput ==
  ASSUME NEW r \in Receives
  PROVE  r \in Txs /\ r \in Colored /\ r \notin Outgoing
         /\ <<r, 1>> \in External /\ Maker(<<r, 1>>) = r
<1>1. r \in Txs /\ r \in Colored /\ r \notin Outgoing /\ 0 \notin Made[r] /\ 1 \in Made[r]
  BY AssetAssumption, TransactionsAssumption DEF Outgoing, Txs
<1>. QED
  BY <1>1, OutputFacts

-----------------------------------------------------------------------------
(* The chain.  Whatever the wallet sees or spends exists on the network.   *)

PublicTxs == {t \in Txs : Public(t)}

ChainInv ==
  /\ ChainTypeOK
  /\ \A t \in Txs : \A u \in inputs[t] : Public(Maker(u))
  /\ graph \subseteq PublicTxs
  /\ \A u \in External : rows[u] = "there" => Public(Maker(u))

(* All a public transaction needs is public.                               *)
LEMMA PublicGrounded ==
  ASSUME ChainInv PROVE Grounded(PublicTxs)
<1> SUFFICES ASSUME NEW t \in PublicTxs, NEW u \in inputs[t] PROVE Maker(u) \in PublicTxs
  BY DEF Grounded, SpentBy
<1>1. t \in Txs /\ u \in Txos
  BY DEF ChainInv, ChainTypeOK, PublicTxs
<1>. QED
  BY <1>1, TxoFacts DEF ChainInv, PublicTxs

LEMMA AncestryPublic ==
  ASSUME ChainInv, NEW t \in PublicTxs PROVE Ancestry(t) \subseteq PublicTxs
<1>1. PublicTxs \in SUBSET Txs
  BY DEF PublicTxs
<1>. QED
  BY <1>1, PublicGrounded DEF Ancestry

(* Txs that become public leave the rest of the chain as it was.           *)
LEMMA StillPublic ==
  ASSUME ChainTypeOK, NEW t \in Txs, tx[t] # "indexed", Published(t) \/ Paid(t) \/ Index(t)
  PROVE  /\ tx' \in [Txs -> TxStates] /\ Public(t)'
         /\ \A x \in Txs : Public(x) => Public(x)'
         /\ \A x \in Txs \ {t} : tx'[x] = tx[x]
BY DEF ChainTypeOK, TxStates, Published, Paid, Index, Public

(* A sync shows only what is public, and notes no other outputs.           *)
LEMMA SyncedIsPublic ==
  ASSUME ChainInv, Synced
  PROVE  /\ graph' \subseteq PublicTxs
         /\ rows' \in [External -> RowStates]
         /\ \A u \in External : rows'[u] = "there" => Public(Maker(u))
         /\ \A u \in External \cap UnspentIn(graph') : rows'[u] # "none"
<1>1. graph' \subseteq PublicTxs
  BY DEF ChainInv, ChainTypeOK, Synced, SyncedGraphs, Indexed, PublicTxs, Public
<1>2. rows' = [u \in External |-> IF u \in UnspentIn(graph') THEN Noted(rows[u]) ELSE rows[u]]
  BY DEF Synced, NotedRows
<1>3. \A u \in External : rows[u] \in RowStates
  BY DEF ChainInv, ChainTypeOK
<1>4. rows' \in [External -> RowStates]
  BY <1>2, <1>3 DEF Noted, RowStates
<1>5. ASSUME NEW u \in External, rows'[u] = "there" PROVE Public(Maker(u))
  <2>1. CASE u \in UnspentIn(graph')
    BY <2>1, <1>1 DEF UnspentIn, PublicTxs
  <2>2. CASE u \notin UnspentIn(graph')
    BY <2>2, <1>2, <1>5 DEF ChainInv
  <2>. QED
    BY <2>1, <2>2
<1>6. \A u \in External \cap UnspentIn(graph') : rows'[u] # "none"
  BY <1>2, <1>3 DEF Noted, RowStates
<1>. QED
  BY <1>1, <1>4, <1>5, <1>6

LEMMA NotSyncedIsPublic ==
  ASSUME ChainInv, NotSynced
  PROVE  /\ graph' \subseteq PublicTxs
         /\ rows' \in [External -> RowStates]
         /\ \A u \in External : rows'[u] = "there" => Public(Maker(u))
BY DEF ChainInv, ChainTypeOK, NotSynced

(* A broadcast, whatever becomes of it after the network has the           *)
(* transaction: t is what was published, or was indexed before.            *)
LEMMA BroadcastIsPublic ==
  ASSUME ChainInv, NEW t \in Txs, NEW skipSync \in BOOLEAN,
         inputs' = inputs, tx' \in [Txs -> TxStates], Public(t)',
         \A x \in Txs : Public(x) => Public(x)',
         \A u \in inputs[t] : Public(Maker(u)),
         NEW b \in Broadcasts(t, skipSync, Indexed')
  PROVE  /\ b.graph \subseteq PublicTxs'
         /\ b.rows \in [External -> RowStates]
         /\ \A u \in External : b.rows[u] = "there" => Public(Maker(u))'
<1>1. PICK g \in IF skipSync THEN {graph} ELSE SyncedGraphs(graph, Indexed') :
         b = [graph |-> Observed(g, t),
              rows  |-> IF skipSync THEN SpendRows(rows, t) ELSE NotedRows(SpendRows(rows, t), g)]
  BY DEF Broadcasts
<1>2. PublicTxs \subseteq PublicTxs'
  BY DEF PublicTxs
<1>3. g \subseteq PublicTxs'
  BY <1>1, <1>2 DEF ChainInv, SyncedGraphs, Indexed, PublicTxs, Public
<1>4. Ancestry(t) \subseteq PublicTxs'
  <2>1. \A x \in PublicTxs' : \A u \in inputs[x] : Maker(u) \in PublicTxs'
    <3>1. ASSUME NEW x \in PublicTxs', NEW u \in inputs[x] PROVE Maker(u) \in PublicTxs'
      <4>1. x \in Txs /\ u \in Txos
        BY DEF ChainInv, ChainTypeOK, PublicTxs
      <4>2. Maker(u) \in Txs /\ Public(Maker(u))
        BY <4>1, TxoFacts DEF ChainInv
      <4>. QED
        BY <4>2 DEF PublicTxs
    <3>. QED
      BY <3>1
  <2>2. Grounded(PublicTxs')
    BY <2>1 DEF Grounded, SpentBy
  <2>3. PublicTxs' \in SUBSET Txs /\ t \in PublicTxs'
    BY DEF PublicTxs
  <2>. QED
    BY <2>2, <2>3 DEF Ancestry
<1>5. b.graph \subseteq PublicTxs'
  BY <1>1, <1>3, <1>4 DEF Observed
<1>6. \A u \in External : SpendRows(rows, t)[u] \in {rows[u], "spent"}
  BY DEF SpendRows
<1>7. SpendRows(rows, t) \in [External -> RowStates]
  BY DEF SpendRows, ChainInv, ChainTypeOK, RowStates
<1>8. b.rows = SpendRows(rows, t) \/ b.rows = NotedRows(SpendRows(rows, t), g)
  BY <1>1
<1>9. b.rows \in [External -> RowStates]
  BY <1>7, <1>8 DEF NotedRows, Noted, RowStates
<1>10. ASSUME NEW u \in External, b.rows[u] = "there" PROVE Public(Maker(u))'
  <2>1. Maker(u) \in Txs
    BY TxoFacts DEF External
  <2>2. CASE SpendRows(rows, t)[u] = "there"
    BY <2>1, <2>2, <1>6 DEF ChainInv
  <2>3. CASE SpendRows(rows, t)[u] # "there"
    <3>1. u \in UnspentIn(g)
      BY <2>3, <1>8, <1>10 DEF NotedRows
    <3>. QED
      BY <3>1, <1>3, <2>1 DEF UnspentIn, PublicTxs, Maker, Public
  <2>. QED
    BY <2>2, <2>3
<1>. QED
  BY <1>5, <1>9, <1>10

(* Applications do not pass skip_sync to send_btc_begin.                   *)
NoSkip == SkipSync \subseteq {FALSE}

(* The allocations.  An input is an output of a public transaction, and    *)
(* new allocations only come to outputs of others or, as change that has   *)
(* no output of its own, to existing ones.                                 *)
IsAlloc(k) ==
  /\ k = [txo |-> k.txo, kind |-> k.kind, amount |-> k.amount, source |-> k.source, by |-> k.by]
  /\ k.txo \in External

(* What t brings is on its outputs, or on a UTXO that is none of its       *)
(* inputs.                                                                 *)
Landing(k, t, ins) ==
  /\ IsAlloc(k)
  /\ Maker(k.txo) = t \/ (OnExisting(k) /\ k.by = t /\ k.txo \notin ins)

AllocInv ==
  /\ NoSkip => \A t \in Txs \ Outgoing : inputs[t] \subseteq Internal
  /\ \A t \in Txs : tx[t] = "none" => inputs[t] = {}
  /\ status \in [Colored -> Statuses]
  /\ \A r \in Receives : status[r] = "none" => tx[r] = "none"
  /\ \A k \in allocs : IsAlloc(k)
  /\ plan = [t \in Outgoing |-> plan[t]]
  /\ \A t \in Outgoing : \A k \in plan[t].brings : Landing(k, t, inputs[t])
  /\ \A t \in Outgoing : \A k \in allocs : k.txo \in inputs[t] =>
        k \in plan[t].takes \/ (OnExisting(k) /\ k.by # t)

(* The send in progress has no transaction yet.                            *)
IsSend(p) ==
  p \in [send : {p.send}, kind : {p.kind}, need : {p.need}, needed : {p.needed},
         rejected : {p.rejected}]
SendInv == IsSend(sending) /\ (sending.send \in Sends => tx[sending.send] = "none")

IInv == ChainInv /\ AllocInv

-----------------------------------------------------------------------------
(* Steps that prepare nothing.                                             *)

LEMMA ChainStep ==
  ASSUME ChainInv, inputs' = inputs, tx' \in [Txs -> TxStates],
         \A x \in Txs : Public(x) => Public(x)',
         graph' \subseteq PublicTxs', rows' \in [External -> RowStates],
         \A u \in External : rows'[u] = "there" => Public(Maker(u))',
         panicked' \in BOOLEAN
  PROVE  ChainInv'
<1>1. ASSUME NEW t \in Txs, NEW u \in inputs[t] PROVE Public(Maker(u))'
  <2>1. u \in Txos
    BY DEF ChainInv, ChainTypeOK
  <2>. QED
    BY <2>1, TxoFacts DEF ChainInv
<1>2. graph' \subseteq Txs
  BY DEF PublicTxs
<1>. QED
  BY <1>1, <1>2 DEF ChainInv, ChainTypeOK

(* The chain stays as it was but for the transactions that become public.  *)
LEMMA ChainKept ==
  ASSUME ChainInv, inputs' = inputs, graph' = graph, panicked' = panicked,
         tx' \in [Txs -> TxStates], \A x \in Txs : Public(x) => Public(x)',
         rows' \in [External -> RowStates],
         \A u \in External : rows'[u] = "there" => rows[u] = "there"
  PROVE  ChainInv'
<1>1. \A u \in External : Maker(u) \in Txs
  BY TxoFacts DEF External
<1>2. graph' \subseteq PublicTxs'
  BY DEF ChainInv, PublicTxs
<1>3. \A u \in External : rows'[u] = "there" => Public(Maker(u))'
  BY <1>1 DEF ChainInv
<1>. QED
  BY <1>2, <1>3, ChainStep DEF ChainInv, ChainTypeOK

LEMMA AllocStep ==
  ASSUME AllocInv, inputs' = inputs, plan' = plan,
         \A x \in Txs : tx'[x] = "none" => tx[x] = "none",
         status' \in [Colored -> Statuses],
         \A r \in Receives : status'[r] = "none" => tx'[r] = "none",
         \A k \in allocs' : \/ k \in allocs
                            \/ /\ IsAlloc(k)
                               /\ \A t \in Outgoing : k.txo \in inputs[t] =>
                                     OnExisting(k) /\ k.by # t
  PROVE  AllocInv'
<1>1. \A t \in Outgoing : \A k \in plan'[t].brings : Landing(k, t, inputs'[t])
  BY DEF AllocInv
<1>2. \A t \in Outgoing : \A k \in allocs' : k.txo \in inputs'[t] =>
        k \in plan'[t].takes \/ (OnExisting(k) /\ k.by # t)
  BY DEF AllocInv
<1>. QED
  BY <1>1, <1>2 DEF AllocInv

(* Nothing of the asset changes.                                           *)
LEMMA AllocKept ==
  ASSUME AllocInv, inputs' = inputs, UNCHANGED assetVars,
         \A x \in Txs : tx'[x] = "none" => tx[x] = "none",
         \A r \in Receives : tx'[r] = "none" <=> tx[r] = "none"
  PROVE  AllocInv'
<1>1. status' \in [Colored -> Statuses] /\ plan' = plan /\ allocs' = allocs
  BY DEF AllocInv, assetVars
<1>2. \A r \in Receives : status'[r] = "none" => tx'[r] = "none"
  BY DEF AllocInv, assetVars
<1>. QED
  BY <1>1, <1>2, AllocStep

(* A broadcast of t, seen from the chain.                                  *)
LEMMA OutcomeChain ==
  ASSUME ChainInv, NEW t \in Txs, NEW skipSync \in BOOLEAN,
         inputs' = inputs, tx' \in [Txs -> TxStates], Public(t)',
         \A x \in Txs : Public(x) => Public(x)',
         BroadcastPanics(t) \/ BroadcastSyncFails(t) \/ BroadcastCompletes(t, skipSync)
  PROVE  ChainInv'
<1>1. CASE BroadcastPanics(t)
  <2>1. PublicTxs \subseteq PublicTxs' /\ \A u \in External : Maker(u) \in Txs
    BY TxoFacts DEF PublicTxs, External
  <2>. QED
    BY <1>1, <2>1, ChainStep DEF BroadcastPanics, ChainInv, ChainTypeOK
<1>2. CASE BroadcastSyncFails(t)
  <2>1. rows' = SpendRows(rows, t) /\ graph' = graph /\ panicked' = panicked
    BY <1>2 DEF BroadcastSyncFails
  <2>2. /\ rows' \in [External -> RowStates]
        /\ \A u \in External : rows'[u] = "there" => rows[u] = "there"
    BY <2>1 DEF SpendRows, ChainInv, ChainTypeOK, RowStates
  <2>. QED
    BY <2>1, <2>2, ChainKept
<1>3. CASE BroadcastCompletes(t, skipSync)
  <2>1. PICK b \in Broadcasts(t, skipSync, Indexed') : graph' = b.graph /\ rows' = b.rows
    BY <1>3 DEF BroadcastCompletes
  <2>2. \A u \in inputs[t] : Public(Maker(u))
    BY DEF ChainInv
  <2>3. /\ b.graph \subseteq PublicTxs'
        /\ b.rows \in [External -> RowStates]
        /\ \A u \in External : b.rows[u] = "there" => Public(Maker(u))'
    BY <2>2, BroadcastIsPublic
  <2>. QED
    BY <1>3, <2>1, <2>3, ChainStep DEF BroadcastCompletes, ChainInv, ChainTypeOK
<1>. QED
  BY <1>1, <1>2, <1>3

(* The transactions without RGB.                                           *)
Vanilla == Creates \cup Payments

LEMMA VanillaFacts ==
  ASSUME NEW t \in Vanilla PROVE t \in Txs /\ t \notin Outgoing /\ t \notin Receives
BY TransactionsAssumption, AssetAssumption DEF Vanilla, Outgoing, Txs

LEMMA VanillaEndStep ==
  ASSUME IInv, NEW t \in Vanilla, NEW skipSync \in BOOLEAN, VanillaEnds(t, skipSync),
         UNCHANGED assetVars
  PROVE  IInv'
<1>1. t \in Txs /\ t \notin Receives
  BY VanillaFacts
<1>2. ChainInv /\ AllocInv /\ ChainTypeOK /\ inputs' = inputs
  BY DEF IInv, ChainInv, VanillaEnds
<1>3. /\ tx' \in [Txs -> TxStates] /\ Public(t)'
      /\ \A x \in Txs : Public(x) => Public(x)'
      /\ \A x \in Txs \ {t} : tx'[x] = tx[x]
  <2>1. CASE tx[t] = "prepared" /\ Acceptable(t) /\ Published(t)
    BY <2>1, <1>1, <1>2, StillPublic
  <2>2. CASE tx[t] = "indexed" /\ UNCHANGED tx
    BY <2>2, <1>2 DEF ChainTypeOK, Public
  <2>. QED
    BY <2>1, <2>2 DEF VanillaEnds
<1>4. ChainInv'
  BY <1>1, <1>2, <1>3, OutcomeChain DEF VanillaEnds
<1>5. \A x \in Txs : tx'[x] = "none" => tx[x] = "none"
  BY <1>3 DEF Public
<1>6. \A r \in Receives : r \in Txs
  BY ReceivedOutput
<1>7. AllocInv'
  BY <1>1, <1>2, <1>3, <1>5, <1>6, AllocKept
<1>. QED
  BY <1>4, <1>7 DEF IInv

-----------------------------------------------------------------------------
(* Steps that prepare a transaction.                                       *)

(* t gets its inputs, all of them outputs of public transactions.          *)
LEMMA ChainPrepared ==
  ASSUME ChainInv, NEW t \in Txs, tx[t] = "none", NEW spends \in SUBSET Txos,
         \A u \in spends : Public(Maker(u)),
         tx' = [tx EXCEPT ![t] = "prepared"], inputs' = [inputs EXCEPT ![t] = spends],
         graph' \subseteq PublicTxs, rows' \in [External -> RowStates],
         \A u \in External : rows'[u] = "there" => Public(Maker(u)),
         panicked' = panicked
  PROVE  ChainInv'
<1>1. tx' \in [Txs -> TxStates] /\ inputs' \in [Txs -> SUBSET Txos]
  BY DEF ChainInv, ChainTypeOK, TxStates
<1>2. \A x \in Txs : Public(x) => Public(x)'
  BY DEF ChainInv, ChainTypeOK, Public
<1>3. \A u \in Txos : Maker(u) \in Txs
  BY TxoFacts
<1>4. ASSUME NEW x \in Txs, NEW u \in inputs'[x] PROVE Public(Maker(u))'
  <2>1. u \in Txos
    BY <1>1
  <2>2. Public(Maker(u))
    BY DEF ChainInv, ChainTypeOK
  <2>. QED
    BY <2>1, <2>2, <1>2, <1>3
<1>5. graph' \subseteq PublicTxs' /\ graph' \subseteq Txs
  BY <1>2 DEF PublicTxs
<1>6. \A u \in External : rows'[u] = "there" => Public(Maker(u))'
  BY <1>2, <1>3 DEF External
<1>. QED
  BY <1>1, <1>4, <1>5, <1>6 DEF ChainInv, ChainTypeOK

LEMMA VanillaBeginStep ==
  ASSUME IInv, NEW t \in Vanilla, tx[t] = "none",
         NEW spends \in SUBSET UnspentIn(graph'), NoSkip => spends \subseteq Internal,
         Synced \/ NotSynced, VanillaBegins(t, spends), UNCHANGED assetVars
  PROVE  IInv'
<1>1. t \in Txs /\ t \notin Outgoing /\ t \notin Receives
  BY VanillaFacts
<1>2. ChainInv /\ AllocInv
  BY DEF IInv
<1>3. /\ graph' \subseteq PublicTxs /\ rows' \in [External -> RowStates]
      /\ \A u \in External : rows'[u] = "there" => Public(Maker(u))
  BY <1>2, SyncedIsPublic, NotSyncedIsPublic
<1>4. spends \in SUBSET Txos /\ \A u \in spends : Public(Maker(u))
  BY <1>3 DEF UnspentIn, PublicTxs
<1>5. /\ tx' = [tx EXCEPT ![t] = "prepared"] /\ inputs' = [inputs EXCEPT ![t] = spends]
      /\ panicked' = panicked
  BY DEF VanillaBegins
<1>6. ChainInv'
  BY <1>1, <1>2, <1>3, <1>4, <1>5, ChainPrepared
<1>7. tx \in [Txs -> TxStates] /\ inputs \in [Txs -> SUBSET Txos]
  BY <1>2 DEF ChainInv, ChainTypeOK
<1>8. \A x \in Txs \ {t} : inputs'[x] = inputs[x] /\ tx'[x] = tx[x]
  BY <1>5, <1>7
<1>9. (NoSkip => inputs'[t] \subseteq Internal) /\ tx'[t] # "none"
  BY <1>1, <1>5, <1>7
<1>10. \A x \in Outgoing \cup Receives : x \in Txs /\ x # t
  BY <1>1, ColoredOutputs, ReceivedOutput
<1>11. status' = status /\ allocs' = allocs /\ plan' = plan
  BY DEF assetVars
<1>12. AllocInv'
  BY <1>2, <1>8, <1>9, <1>10, <1>11 DEF AllocInv
<1>. QED
  BY <1>6, <1>12 DEF IInv

(* What _restore_missing_bdk_inputs adds is public.                        *)
LEMMA RestoredIsPublic ==
  ASSUME ChainInv, NEW hosts \in SUBSET External, \A u \in hosts : rows[u] = "there"
  PROVE  RestoredGraph(hosts) \subseteq PublicTxs
<1>1. ASSUME NEW u \in hosts PROVE Observed(graph, Maker(u)) \subseteq PublicTxs
  <2>1. Maker(u) \in PublicTxs
    BY TxoFacts DEF External, ChainInv, PublicTxs
  <2>. QED
    BY <2>1, AncestryPublic DEF Observed, ChainInv
<1>2. graph \subseteq PublicTxs
  BY DEF ChainInv
<1>3. UNION {Observed(graph, Maker(u)) : u \in hosts} \subseteq PublicTxs
  BY <1>1, Zenon
<1>. QED
  BY <1>2, <1>3 DEF RestoredGraph

LEMMA ReachingChoosesFrom ==
  ASSUME NEW S, NEW order, NEW value, NEW need, NEW C \in Reaching(S, order, value, need)
  PROVE  C \subseteq S
BY DEF Reaching

LEMMA SelectedHosts ==
  ASSUME NEW kind, NEW need, NEW hosts \in SelectRgbInputs(kind, need)
  PROVE  hosts \subseteq External /\ \A u \in hosts : rows[u] = "there"
<1>1. hosts \subseteq Hosts(kind)
  BY ReachingChoosesFrom DEF SelectRgbInputs
<1>. QED
  BY <1>1 DEF Hosts, InputUnspents

LEMMA ContributingChoosesFrom ==
  ASSUME NEW candidates, NEW need, NEW used \in Contributing(candidates, need)
  PROVE  used \subseteq candidates
BY ReachingChoosesFrom DEF Contributing

(* The UTXO for what stays is the output of the bitcoin change or, if      *)
(* there is none, an existing UTXO.                                        *)
SeatOf(t, to, ins) ==
  /\ to \in External
  /\ to = ChangeOf(t) \/ (ChangeOf(t) \notin External /\ rows[to] = "there" /\ to \notin ins)

LEMMA SealFacts ==
  ASSUME NEW t, NEW ins, NEW stays \in BOOLEAN, NEW to \in ChangeSeals(t, ins, stays), stays
  PROVE  SeatOf(t, to, ins)
<1>1. \A S : LeastLoaded(S) \subseteq S
  BY DEF LeastLoaded
<1>2. \A u \in GetUtxo(ins) : u \in External /\ u \notin ins /\ rows[u] = "there"
  BY <1>1 DEF GetUtxo
<1>. QED
  BY <1>2 DEF ChangeSeals, SeatOf

LEMMA LandsOnSeat ==
  ASSUME ChainInv, NEW t \in Outgoing, tx[t] = "none", NEW ins, NEW to, SeatOf(t, to, ins),
         NEW k, IsAlloc(k), k.txo = to, k.by = t
  PROVE  Landing(k, t, ins)
<1>1. CASE to = ChangeOf(t)
  BY <1>1, ColoredOutputs DEF Landing
<1>2. CASE ChangeOf(t) \notin External /\ rows[to] = "there" /\ to \notin ins
  <2>1. Public(Maker(to)) /\ ~Public(t)
    BY <1>2 DEF SeatOf, ChainInv, Public
  <2>2. OnExisting(k)
    BY <1>2, <2>1 DEF OnExisting, Outgoing
  <2>. QED
    BY <1>2, <2>2 DEF Landing
<1>. QED
  BY <1>1, <1>2 DEF SeatOf

(* What stays of the inputs lands well, if anything stays.                 *)
LEMMA StayingLands ==
  ASSUME ChainInv, NEW t \in Outgoing, tx[t] = "none", NEW hosts, NEW fee, NEW used, NEW left,
         NEW to \in ChangeSeals(t, hosts \cup fee, Stays(hosts, used, left)), NEW kind
  PROVE  /\ \A k \in Change(kind, left, to, t) : Landing(k, t, hosts \cup fee)
         /\ \A k \in Moved((UNION {On(u) : u \in hosts}) \ used, to, t) :
               Landing(k, t, hosts \cup fee)
<1> DEFINE takes == UNION {On(u) : u \in hosts}
<1>1. Stays(hosts, used, left) \in BOOLEAN
  BY DEF Stays
<1>2. Stays(hosts, used, left) => SeatOf(t, to, hosts \cup fee)
  BY <1>1, SealFacts
<1>3. (left > 0 \/ takes # used) => SeatOf(t, to, hosts \cup fee)
  BY <1>2 DEF Stays
<1> HIDE DEF takes
<1>4. ASSUME NEW k \in Change(kind, left, to, t) PROVE Landing(k, t, hosts \cup fee)
  <2>1. left > 0 /\ k = Alloc(to, kind, left, t)
    BY DEF Change, Alloc
  <2>2. SeatOf(t, to, hosts \cup fee)
    BY <1>3, <2>1
  <2>3. IsAlloc(k) /\ k.txo = to /\ k.by = t
    BY <2>1, <2>2 DEF Alloc, IsAlloc, SeatOf
  <2>. QED
    BY <2>2, <2>3, LandsOnSeat
<1>5. ASSUME NEW k \in Moved(takes \ used, to, t) PROVE Landing(k, t, hosts \cup fee)
  <2>1. PICK j \in takes \ used :
          k = [txo |-> to, kind |-> j.kind, amount |-> j.amount, source |-> j.source, by |-> t]
    BY DEF Moved
  <2>2. SeatOf(t, to, hosts \cup fee)
    BY <1>3, <2>1
  <2>3. IsAlloc(k) /\ k.txo = to /\ k.by = t
    BY <2>1, <2>2 DEF IsAlloc, SeatOf
  <2>. QED
    BY <2>2, <2>3, LandsOnSeat
<1>. QED
  BY <1>4, <1>5 DEF takes

(* Every allocation on the inputs is taken; what stays lands well.         *)
LEMMA PrepareStep ==
  ASSUME IInv, NEW t \in Outgoing, tx[t] = "none",
         NEW hosts \in SUBSET External, \A u \in hosts : rows[u] = "there",
         NEW fee \in SUBSET Free, NEW used, NEW to, NEW brings,
         \A k \in brings : Landing(k, t, hosts \cup fee),
         \A k \in Moved((UNION {On(u) : u \in hosts}) \ used, to, t) : Landing(k, t, hosts \cup fee),
         NEW kind, NEW gives, Prepares(t, hosts, fee, used, to, brings, kind, gives),
         graph' = RestoredGraph(hosts), UNCHANGED <<rows, panicked, allocs, status>>
  PROVE  IInv'
<1> DEFINE takes == UNION {On(u) : u \in hosts}
           brought == brings \cup Moved(takes \ used, to, t)
<1>1. t \in Txs /\ t \notin Receives
  BY ColoredOutputs, AssetAssumption DEF Outgoing
<1>2. ChainInv /\ AllocInv
  BY DEF IInv
<1>3. /\ tx' = [tx EXCEPT ![t] = "prepared"] /\ inputs' = [inputs EXCEPT ![t] = hosts \cup fee]
      /\ plan' = [plan EXCEPT ![t] =
              [takes |-> takes, brings |-> brought, kind |-> kind, gives |-> gives]]
  BY DEF Prepares
<1>4. fee \subseteq External /\ \A u \in fee : rows[u] = "there" /\ On(u) = {}
  BY DEF Free
<1>5. \A u \in hosts \cup fee : u \in Txos /\ Public(Maker(u))
  BY <1>2, <1>4 DEF ChainInv, External
<1>6. ChainInv'
  <2>1. graph' \subseteq PublicTxs
    BY <1>2, RestoredIsPublic
  <2>2. hosts \cup fee \in SUBSET Txos /\ \A u \in hosts \cup fee : Public(Maker(u))
    BY <1>5
  <2>3. /\ rows' \in [External -> RowStates]
        /\ \A u \in External : rows'[u] = "there" => Public(Maker(u))
    BY <1>2 DEF ChainInv, ChainTypeOK
  <2>. QED
    BY <1>1, <1>2, <1>3, <2>1, <2>2, <2>3, ChainPrepared
<1>7. /\ tx \in [Txs -> TxStates] /\ inputs \in [Txs -> SUBSET Txos]
      /\ plan = [x \in Outgoing |-> plan[x]]
  BY <1>2 DEF ChainInv, ChainTypeOK, AllocInv
<1>8. \A x \in Txs \ {t} : inputs'[x] = inputs[x] /\ tx'[x] = tx[x]
  BY <1>3, <1>7
<1>9. inputs'[t] = hosts \cup fee /\ tx'[t] # "none"
  BY <1>1, <1>3, <1>7
<1>10. \A x \in Outgoing \ {t} : plan'[x] = plan[x]
  BY <1>3, <1>7
<1>11. plan'[t].takes = takes /\ plan'[t].brings = brought
  BY <1>3, <1>7
<1>12. plan' = [x \in Outgoing |-> plan'[x]]
  BY <1>3, <1>7
<1>13. \A k \in brought : Landing(k, t, inputs'[t])
  BY <1>9
<1>14. ASSUME NEW k \in allocs, k.txo \in inputs'[t] PROVE k \in takes
  <2>1. k \in On(k.txo)
    BY DEF On
  <2>. QED
    BY <2>1, <1>9, <1>14, <1>4
<1>15. \A x \in Outgoing \cup Receives : x \in Txs
  BY ColoredOutputs, ReceivedOutput
<1>16. AllocInv'
  <2>1. NoSkip => \A x \in Txs \ Outgoing : inputs'[x] \subseteq Internal
    BY <1>2, <1>8 DEF AllocInv
  <2>2. \A x \in Txs : tx'[x] = "none" => inputs'[x] = {}
    BY <1>2, <1>8, <1>9 DEF AllocInv
  <2>3. \A r \in Receives : status'[r] = "none" => tx'[r] = "none"
    BY <1>1, <1>2, <1>8, <1>15 DEF AllocInv
  <2>4. \A x \in Outgoing : \A k \in plan'[x].brings : Landing(k, x, inputs'[x])
    <3> SUFFICES ASSUME NEW x \in Outgoing, NEW k \in plan'[x].brings
                 PROVE  Landing(k, x, inputs'[x])
      OBVIOUS
    <3>1. CASE x = t
      BY <1>11, <1>13, <3>1
    <3>2. CASE x # t
      <4>1. plan'[x] = plan[x] /\ inputs'[x] = inputs[x]
        BY <1>8, <1>10, <1>15, <3>2
      <4>. QED
        BY <1>2, <4>1 DEF AllocInv
    <3>. QED
      BY <3>1, <3>2
  <2>5. \A x \in Outgoing : \A k \in allocs : k.txo \in inputs'[x] =>
           k \in plan'[x].takes \/ (OnExisting(k) /\ k.by # x)
    <3> SUFFICES ASSUME NEW x \in Outgoing, NEW k \in allocs, k.txo \in inputs'[x]
                 PROVE  k \in plan'[x].takes \/ (OnExisting(k) /\ k.by # x)
      OBVIOUS
    <3>1. CASE x = t
      BY <1>11, <1>14, <3>1
    <3>2. CASE x # t
      <4>1. plan'[x] = plan[x] /\ inputs'[x] = inputs[x]
        BY <1>8, <1>10, <1>15, <3>2
      <4>. QED
        BY <1>2, <4>1 DEF AllocInv
    <3>. QED
      BY <3>1, <3>2
  <2>. QED
    BY <2>1, <2>2, <2>3, <2>4, <2>5, <1>2, <1>12 DEF AllocInv
<1>. QED
  BY <1>6, <1>16 DEF IInv

-----------------------------------------------------------------------------
(* The invariant.                                                          *)

LEMMA InvInit == Init => IInv
<1> SUFFICES ASSUME Init PROVE IInv
  OBVIOUS
<1>1. ChainInv
  <2>1. graph = Funding /\ \A u \in External : rows[u] # "there"
    BY DEF Init, ChainInit
  <2>2. Funding \subseteq Txs /\ \A t \in Funding : Public(t)
    BY DEF Txs, Init, ChainInit, Public
  <2>3. ChainTypeOK
    BY <2>2 DEF Init, ChainInit, ChainTypeOK, TxStates, RowStates
  <2>. QED
    BY <2>1, <2>2, <2>3 DEF ChainInv, Init, ChainInit, PublicTxs
<1>2. \A r \in Receives : r \in Txs /\ r \notin Funding
  BY AssetAssumption, TransactionsAssumption DEF Txs
<1>3. AllocInv
  BY <1>2 DEF Init, ChainInit, AllocInv, Outgoing, NoPlan, Statuses
<1>. QED
  BY <1>1, <1>3 DEF IInv

(* If skip_sync is not passed to send_btc_begin, what Payments spend is in *)
(* no row even after the sync, and every external output BDK lists is.     *)
LEMMA VanillaStep ==
  ASSUME IInv, VanillaNext, UNCHANGED assetVars PROVE IInv'
<1>1. ChainInv /\ AllocInv
  BY DEF IInv
<1>2. CASE Sync
  <2>1. inputs' = inputs /\ tx' = tx /\ panicked' = panicked /\ Synced
    BY <1>2 DEF Sync
  <2>2. \A x \in Txs : Public(x) => Public(x)'
    BY <2>1 DEF Public
  <2>3. /\ graph' \subseteq PublicTxs' /\ rows' \in [External -> RowStates]
        /\ \A u \in External : rows'[u] = "there" => Public(Maker(u))'
    BY <1>1, <2>1, SyncedIsPublic DEF PublicTxs, Public
  <2>4. ChainInv'
    BY <1>1, <2>1, <2>2, <2>3, ChainStep DEF ChainInv, ChainTypeOK
  <2>5. AllocInv'
    BY <1>1, <2>1, AllocKept
  <2>. QED
    BY <2>4, <2>5 DEF IInv
<1>3. ASSUME NEW t \in Creates, CreateUtxosBegin(t) PROVE IInv'
  BY <1>3, VanillaBeginStep DEF CreateUtxosBegin, Vanilla
<1>4. ASSUME NEW t \in Creates, CreateUtxosEnd(t) PROVE IInv'
  BY <1>4, VanillaEndStep DEF CreateUtxosEnd, Vanilla
<1>5. ASSUME Synced
      PROVE  {u \in UnspentIn(graph') : ~Unspendable(u)} \subseteq Internal \cap UnspentIn(graph')
  BY <1>1, <1>5, SyncedIsPublic DEF Unspendable, HasRow, External, UnspentIn
<1>6. ASSUME NEW t \in Payments, SendBtcBegin(t) PROVE IInv'
  <2>1. (Synced \/ NotSynced) /\ (NoSkip => Synced)
    BY <1>6 DEF SendBtcBegin, NoSkip
  <2>2. PICK spends \in SUBSET {u \in UnspentIn(graph') : ~Unspendable(u)} :
           VanillaBegins(t, spends)
    BY <1>6 DEF SendBtcBegin
  <2>3. spends \in SUBSET UnspentIn(graph') /\ (NoSkip => spends \subseteq Internal)
    BY <2>1, <1>5
  <2>. QED
    BY <1>6, <2>1, <2>2, <2>3, VanillaBeginStep DEF SendBtcBegin, Vanilla
<1>7. ASSUME NEW t \in Payments, DrainToBegin(t) PROVE IInv'
  BY <1>5, <1>7, VanillaBeginStep DEF DrainToBegin, Vanilla
<1>8. ASSUME NEW t \in Payments, SendBtcEnd(t) \/ DrainToEnd(t) PROVE IInv'
  BY <1>8, VanillaEndStep DEF SendBtcEnd, DrainToEnd, Vanilla
<1>. QED
  BY <1>2, <1>3, <1>4, <1>6, <1>7, <1>8 DEF VanillaNext

LEMMA AllocShape ==
  ASSUME NEW u \in External, NEW kind, NEW amount, NEW t
  PROVE  /\ IsAlloc(Alloc(u, kind, amount, t)) /\ Alloc(u, kind, amount, t).txo = u
BY DEF Alloc, IsAlloc

LEMMA InflateStep ==
  ASSUME IInv, NEW i \in Inflations, InflateBegin(i) PROVE IInv'
<1>1. ASSUME NEW amount \in 1..MaxAmount, NEW hosts \in SelectRgbInputs("right", amount),
             NEW fee \in Free,
             NEW used \in Contributing(UNION {Of(u, "right") : u \in hosts}, amount),
             NEW to \in ChangeSeals(i, hosts \cup {fee}, Stays(hosts, used, Total(used) - amount)),
             Prepares(i, hosts, {fee}, used, to,
               {Alloc(<<i, 1>>, "token", amount, i)}
                 \cup Change("right", Total(used) - amount, to, i), "token", 0),
             graph' = RestoredGraph(hosts), UNCHANGED <<rows, panicked, allocs, status>>
      PROVE  IInv'
  <2>1. hosts \in SUBSET External /\ \A u \in hosts : rows[u] = "there"
    BY SelectedHosts
  <2>2. i \in Outgoing /\ tx[i] = "none"
    BY DEF Outgoing, InflateBegin
  <2>3. Landing(Alloc(<<i, 1>>, "token", amount, i), i, hosts \cup {fee})
    BY <2>2, ColoredOutputs, AllocShape DEF Landing
  <2> DEFINE left == Total(used) - amount
  <2> HIDE DEF left
  <2>4. /\ \A k \in Change("right", left, to, i) : Landing(k, i, hosts \cup {fee})
        /\ \A k \in Moved((UNION {On(u) : u \in hosts}) \ used, to, i) :
              Landing(k, i, hosts \cup {fee})
    BY <1>1, <2>2, StayingLands DEF IInv, left
  <2>5. {fee} \in SUBSET Free
    OBVIOUS
  <2>. QED
    BY <1>1, <2>1, <2>2, <2>3, <2>4, <2>5, PrepareStep DEF left
<1>. QED
  BY <1>1 DEF InflateBegin

(* What a round of send_begin does: refuse, fail, retry or prepare.        *)
SendChange(s, used, to) == Change(sending.kind, Total(used) - sending.need, to, s)
SendSeals(s, hosts, used, fee) ==
  ChangeSeals(s, hosts \cup fee, Stays(hosts, used, Total(used) - sending.need))
Drafted(s, hosts, used, fee, to) ==
  /\ to \in SendSeals(s, hosts, used, fee)
  /\ Prepares(s, hosts, fee, used, to, SendChange(s, used, to), sending.kind, sending.need)
Retries(used) == \E bad \in SUBSET used : sending' = RetryWithout(sending, bad)
Attempts(s, hosts, used, fee) ==
  /\ hosts \in SelectRgbInputs(sending.kind, sending.needed)
  /\ used \in Contributing(Allowed(hosts), sending.needed)
  /\ fee \in {{}} \cup {{u} : u \in Free}
  /\ UNCHANGED status /\ graph' = RestoredGraph(hosts)
  /\ \/ (Retries(used) \/ sending' = NoSend) /\ UNCHANGED <<tx, inputs, plan, parents>>
     \/ (\E to : Drafted(s, hosts, used, fee, to)) /\ sending' = NoSend
RefusesSend(s) ==
  /\ SelectRgbInputs(sending.kind, sending.needed) = {}
  /\ status' = [status EXCEPT ![s] = "Refused"] /\ sending' = NoSend
  /\ UNCHANGED <<tx, inputs, graph, plan, parents>>

LEMMA RoundFacts ==
  ASSUME NEW s, NEW hosts, NEW used, NEW fee, NEW bad \in SUBSET used, Round(s, hosts, used, fee, bad)
  PROVE  \/ (Retries(used) \/ sending' = NoSend) /\ UNCHANGED <<tx, inputs, plan, parents>>
         \/ (\E to : Drafted(s, hosts, used, fee, to)) /\ sending' = NoSend
BY DEF Round, Retries, Drafted, SendSeals, SendChange

LEMMA AttemptCases ==
  ASSUME NEW s \in Sends, SendAttempt(s)
  PROVE  /\ sending.send = s /\ UNCHANGED <<rows, panicked, allocs, known, stock, minted, others>>
         /\ RefusesSend(s) \/ \E hosts, used, fee : Attempts(s, hosts, used, fee)
<1>1. ASSUME NEW hosts \in SelectRgbInputs(sending.kind, sending.needed),
             NEW used \in Contributing(Allowed(hosts), sending.needed),
             NEW fee \in {{}} \cup {{u} : u \in Free}, NEW bad \in SUBSET used,
             Round(s, hosts, used, fee, bad), graph' = RestoredGraph(hosts), UNCHANGED status
      PROVE  Attempts(s, hosts, used, fee)
  BY <1>1, RoundFacts DEF Attempts
<1>2. CASE \E hosts \in SelectRgbInputs(sending.kind, sending.needed) :
           \E used \in Contributing(Allowed(hosts), sending.needed) :
           \E fee \in {{}} \cup {{u} : u \in Free}, list \in Lists :
              /\ Round(s, hosts, used, fee, {k \in used : Rejects(list, parents, k.source)})
              /\ graph' = RestoredGraph(hosts)
              /\ UNCHANGED status
  <2>1. PICK hosts \in SelectRgbInputs(sending.kind, sending.needed) :
           \E used \in Contributing(Allowed(hosts), sending.needed) :
           \E fee \in {{}} \cup {{u} : u \in Free}, list \in Lists :
              /\ Round(s, hosts, used, fee, {k \in used : Rejects(list, parents, k.source)})
              /\ graph' = RestoredGraph(hosts)
              /\ UNCHANGED status
    BY <1>2
  <2>4. PICK used \in Contributing(Allowed(hosts), sending.needed) :
           \E fee \in {{}} \cup {{u} : u \in Free}, list \in Lists :
              /\ Round(s, hosts, used, fee, {k \in used : Rejects(list, parents, k.source)})
              /\ graph' = RestoredGraph(hosts)
              /\ UNCHANGED status
    BY <2>1
  <2>5. PICK fee \in {{}} \cup {{u} : u \in Free}, list \in Lists :
              /\ Round(s, hosts, used, fee, {k \in used : Rejects(list, parents, k.source)})
              /\ graph' = RestoredGraph(hosts)
              /\ UNCHANGED status
    BY <2>4
  <2> DEFINE bad == {k \in used : Rejects(list, parents, k.source)}
  <2>2. bad \in SUBSET used
    OBVIOUS
  <2> HIDE DEF bad
  <2>3. Attempts(s, hosts, used, fee)
    BY <1>1, <2>5, <2>2 DEF bad
  <2>. QED
    BY <2>3 DEF SendAttempt
<1>3. RefusesSend(s) \/ \E hosts \in SelectRgbInputs(sending.kind, sending.needed) :
           \E used \in Contributing(Allowed(hosts), sending.needed) :
           \E fee \in {{}} \cup {{u} : u \in Free}, list \in Lists :
              /\ Round(s, hosts, used, fee, {k \in used : Rejects(list, parents, k.source)})
              /\ graph' = RestoredGraph(hosts)
              /\ UNCHANGED status
  BY DEF SendAttempt, RefusesSend
<1>. QED
  BY <1>2, <1>3 DEF SendAttempt, RefusesSend

LEMMA SendAttemptStep ==
  ASSUME IInv, SendInv, NEW s \in Sends, SendAttempt(s) PROVE IInv'
<1>1. ChainInv /\ AllocInv /\ s \in Outgoing /\ tx[s] = "none"
  BY DEF IInv, SendInv, SendAttempt, Outgoing
<1>2. UNCHANGED <<rows, panicked, allocs>>
  BY DEF SendAttempt
<1>3. s \in Colored /\ s \notin Receives
  BY AssetAssumption
<1>4. CASE UNCHANGED <<tx, inputs, plan>> /\ graph' \subseteq PublicTxs
           /\ status' \in {status, [status EXCEPT ![s] = "Refused"]}
  <2>1. PublicTxs' = PublicTxs /\ \A x \in Txs : Public(x)' = Public(x)
    BY <1>4 DEF PublicTxs, Public
  <2>2. \A u \in External : Maker(u) \in Txs
    BY TxoFacts DEF External
  <2>3. ChainInv'
    BY <1>1, <1>2, <1>4, <2>1, <2>2, ChainStep DEF ChainInv, ChainTypeOK
  <2>4. status' \in [Colored -> Statuses] /\ \A r \in Receives : status'[r] = status[r]
    BY <1>1, <1>3, <1>4, ReceivedOutput DEF AllocInv, Statuses
  <2>5. \A r \in Receives : status'[r] = "none" => tx'[r] = "none"
    BY <1>1, <1>4, <2>4 DEF AllocInv
  <2>6. AllocInv'
    BY <1>1, <1>2, <1>4, <2>4, <2>5, AllocStep
  <2>. QED
    BY <2>3, <2>6 DEF IInv
<1>5. CASE UNCHANGED graph /\ UNCHANGED <<tx, inputs, plan>>
           /\ status' = [status EXCEPT ![s] = "Refused"]
  BY <1>1, <1>4, <1>5 DEF ChainInv
<1>6. ASSUME NEW hosts, NEW used, NEW fee, Attempts(s, hosts, used, fee) PROVE IInv'
  <2>1. hosts \in SUBSET External /\ \A u \in hosts : rows[u] = "there"
    BY <1>6, SelectedHosts DEF Attempts
  <2>2. CASE UNCHANGED <<tx, inputs, plan>>
    BY <1>1, <1>4, <1>6, <2>1, <2>2, RestoredIsPublic DEF Attempts
  <2>3. ASSUME NEW to, Drafted(s, hosts, used, fee, to) PROVE IInv'
    <3>1. /\ \A k \in SendChange(s, used, to) : Landing(k, s, hosts \cup fee)
          /\ \A k \in Moved((UNION {On(u) : u \in hosts}) \ used, to, s) :
                Landing(k, s, hosts \cup fee)
      BY <1>1, <2>3, StayingLands DEF Drafted, SendSeals, SendChange
    <3>2. fee \in SUBSET Free /\ UNCHANGED status /\ graph' = RestoredGraph(hosts)
      BY <1>6 DEF Attempts
    <3>. QED
      BY <1>1, <1>2, <2>1, <2>3, <3>1, <3>2, PrepareStep DEF Drafted
  <2>. QED
    BY <1>6, <2>2, <2>3 DEF Attempts
<1>. QED
  BY <1>5, <1>6, AttemptCases DEF RefusesSend

(* A receive gets its allocation on an output that no input can be: its    *)
(* transaction is not there yet.                                           *)
LEMMA WaitConsignmentStep ==
  ASSUME IInv, NEW r \in Receives, WaitConsignment(r) PROVE IInv'
<1>1. ChainInv /\ AllocInv
  BY DEF IInv
<1>2. /\ r \in Txs /\ r \in Colored /\ <<r, 1>> \in External /\ Maker(<<r, 1>>) = r
      /\ UNCHANGED <<tx, inputs, graph, panicked, plan>> /\ status[r] = "none"
  BY ReceivedOutput DEF WaitConsignment
<1>3. tx[r] = "none" /\ ~Public(r)
  BY <1>1, <1>2 DEF AllocInv, Public
<1>4. \A t \in Outgoing : <<r, 1>> \notin inputs[t]
  BY <1>1, <1>2, <1>3, ColoredOutputs DEF ChainInv
<1>5. /\ status' \in [Colored -> Statuses]
      /\ \A x \in Receives : status'[x] = "none" => status[x] = "none"
  <2>1. status' \in {[status EXCEPT ![r] = "Failed"], [status EXCEPT ![r] = "WaitingConfirmations"]}
    BY DEF WaitConsignment
  <2>2. \A x \in Receives : x \in Colored
    BY ReceivedOutput
  <2>. QED
    BY <1>1, <1>2, <2>1, <2>2 DEF AllocInv, Statuses
<1>6. \A k \in allocs' : \/ k \in allocs
                         \/ IsAlloc(k) /\ \A t \in Outgoing : k.txo \notin inputs[t]
  BY <1>2, <1>4 DEF WaitConsignment, Received, Alloc, IsAlloc
<1>7. /\ rows' \in [External -> RowStates]
      /\ \A u \in External : rows'[u] = "there" => rows[u] = "there"
  BY <1>1, <1>2 DEF WaitConsignment, ChainInv, ChainTypeOK, RowStates
<1>8. ChainInv'
  BY <1>1, <1>2, <1>7, ChainKept DEF ChainInv, ChainTypeOK, Public
<1>9. AllocInv'
  BY <1>1, <1>2, <1>5, <1>6, AllocStep DEF AllocInv
<1>. QED
  BY <1>8, <1>9 DEF IInv

(* _save_transfers: the change without an output of its own may be on an   *)
(* input of another PSBT.                                                  *)
LEMMA EndBroadcastStep ==
  ASSUME IInv, NEW t \in Outgoing, EndBroadcast(t) PROVE IInv'
<1>1. ChainInv /\ AllocInv /\ ChainTypeOK
  BY DEF IInv, ChainInv
<1>2. t \in Txs /\ t \in Colored /\ t \notin Receives
  BY ColoredOutputs, AssetAssumption DEF Outgoing
<1>3. /\ tx[t] = "prepared" /\ Published(t) /\ inputs' = inputs /\ plan' = plan
      /\ UNCHANGED sending
  BY DEF EndBroadcast
<1>4. /\ tx' \in [Txs -> TxStates] /\ Public(t)' /\ ~Public(t)
      /\ \A x \in Txs : Public(x) => Public(x)'
      /\ \A x \in Txs \ {t} : tx'[x] = tx[x]
  BY <1>1, <1>2, <1>3, StillPublic DEF Public
<1>5. \A x \in Txs : tx'[x] = "none" => tx[x] = "none"
  BY <1>3, <1>4 DEF Public
<1>6. \A r \in Receives : r \in Txs /\ r \in Colored /\ r # t
  BY <1>2, ReceivedOutput
<1>7. CASE (BroadcastPanics(t) \/ BroadcastSyncFails(t)) /\ UNCHANGED <<allocs, status, known>>
  <2>1. ChainInv'
    BY <1>1, <1>2, <1>3, <1>4, <1>7, OutcomeChain
  <2>2. status' \in [Colored -> Statuses] /\ \A r \in Receives : status'[r] = "none" => tx'[r] = "none"
    BY <1>1, <1>4, <1>6, <1>7 DEF AllocInv
  <2>3. AllocInv'
    BY <1>1, <1>3, <1>5, <1>7, <2>2, AllocStep
  <2>. QED
    BY <2>1, <2>3 DEF IInv
<1>8. ASSUME NEW b \in Broadcasts(t, FALSE, Indexed'), graph' = b.graph, Saves(t, b.rows)
      PROVE  IInv'
  <2>1. /\ b.graph \subseteq PublicTxs'
        /\ b.rows \in [External -> RowStates]
        /\ \A u \in External : b.rows[u] = "there" => Public(Maker(u))'
    BY <1>1, <1>2, <1>3, <1>4, BroadcastIsPublic DEF ChainInv
  <2>2. CASE UNCHANGED <<rows, allocs, status>> /\ panicked' = TRUE
    <3>1. \A u \in External : Maker(u) \in Txs
      BY TxoFacts DEF External
    <3>2. ChainInv'
      BY <1>1, <1>3, <1>4, <1>8, <2>1, <2>2, <3>1, ChainStep DEF ChainInv, ChainTypeOK
    <3>3. status' \in [Colored -> Statuses] /\ \A r \in Receives : status'[r] = "none" => tx'[r] = "none"
      BY <1>1, <1>4, <1>6, <2>2 DEF AllocInv
    <3>4. AllocInv'
      BY <1>1, <1>3, <1>5, <2>2, <3>3, AllocStep
    <3>. QED
      BY <3>2, <3>4 DEF IInv
  <2>3. CASE /\ rows' = [u \in External |-> IF u = ChangeOf(t) /\ b.rows[u] = "none"
                                             THEN "expected" ELSE b.rows[u]]
             /\ allocs' = allocs \cup plan[t].brings
             /\ status' = [status EXCEPT ![t] = "WaitingConfirmations"]
             /\ UNCHANGED panicked
    <3>1. /\ rows' \in [External -> RowStates]
          /\ \A u \in External : rows'[u] = "there" => Public(Maker(u))'
      BY <2>1, <2>3, <1>2 DEF RowStates
    <3>2. ChainInv'
      BY <1>1, <1>3, <1>4, <1>8, <2>1, <2>3, <3>1, ChainStep DEF ChainInv, ChainTypeOK
    <3>3. status' \in [Colored -> Statuses] /\ \A r \in Receives : status'[r] = status[r]
      BY <1>1, <1>2, <1>6, <2>3 DEF AllocInv, Statuses
    <3>4. \A r \in Receives : status'[r] = "none" => tx'[r] = "none"
      BY <1>1, <1>4, <1>6, <3>3 DEF AllocInv
    <3>5. ASSUME NEW k \in plan[t].brings
          PROVE  /\ IsAlloc(k)
                 /\ \A x \in Outgoing : k.txo \in inputs[x] => OnExisting(k) /\ k.by # x
      <4>1. Landing(k, t, inputs[t])
        BY <1>1 DEF AllocInv
      <4>2. \A x \in Outgoing : x \in Txs
        BY ColoredOutputs
      <4>. QED
        BY <1>1, <1>4, <4>1, <4>2 DEF ChainInv, Landing
    <3>6. AllocInv'
      BY <1>1, <1>3, <1>5, <2>3, <3>3, <3>4, <3>5, AllocStep
    <3>. QED
      BY <3>2, <3>6 DEF IInv
  <2>. QED
    BY <1>8, <2>2, <2>3 DEF Saves
<1>. QED
  BY <1>7, <1>8 DEF EndBroadcast

(* The other steps leave inputs and plans alone.                           *)
LEMMA QuietChain ==
  ASSUME ChainInv, UNCHANGED chainVars PROVE ChainInv'
BY ChainKept DEF chainVars, ChainInv, ChainTypeOK, Public

LEMMA AssetStep ==
  ASSUME IInv, SendInv, UNCHANGED chainVars,
         \/ IssueAssetIfa \/ IssuedElsewhere
         \/ \E o \in OthersInflations : OthersInflate(o)
         \/ \E s \in Sends : SendBegin(s)
         \/ SendAborted
         \/ \E t \in Outgoing : OutgoingSettles(t)
  PROVE  IInv'
<1>1. ChainInv /\ AllocInv /\ inputs' = inputs /\ tx' = tx
  BY DEF IInv, chainVars
<1>2. ChainInv'
  BY <1>1, QuietChain
<1>3. CASE IssueAssetIfa
  <2>1. PICK u \in Free, v \in Free : allocs' = Issued(u, v)
    BY <1>3 DEF IssueAssetIfa
  <2>2. plan' = plan /\ status' = status
    BY <1>3 DEF IssueAssetIfa
  <2>3. \A t \in Outgoing : inputs[t] = {}
    BY <1>1, <1>3, ColoredOutputs DEF IssueAssetIfa, Unissued, AllocInv
  <2>4. \A k \in allocs' : IsAlloc(k)
    <3>1. u \in External /\ v \in External
      BY DEF Free
    <3>. QED
      BY <2>1, <3>1, AllocShape DEF Issued
  <2>5. AllocInv'
    BY <1>1, <2>2, <2>3, <2>4, AllocStep DEF AllocInv
  <2>. QED
    BY <1>2, <2>5 DEF IInv
<1>4. CASE plan' = plan /\ allocs' = allocs
           /\ \/ status' = status
              \/ \E t \in Outgoing : status' = [status EXCEPT ![t] = "Settled"]
  <2>1. \A r \in Receives : r \in Colored /\ r \notin Outgoing
    BY ReceivedOutput
  <2>2. status' \in [Colored -> Statuses] /\ \A r \in Receives : status'[r] = status[r]
    BY <1>1, <1>4, <2>1 DEF AllocInv, Statuses
  <2>3. AllocInv'
    BY <1>1, <1>4, <2>2, AllocStep DEF AllocInv
  <2>. QED
    BY <1>2, <2>3 DEF IInv
<1>5. CASE IssuedElsewhere
  BY <1>4, <1>5 DEF IssuedElsewhere
<1>6. ASSUME NEW o \in OthersInflations, OthersInflate(o) PROVE IInv'
  BY <1>4, <1>6 DEF OthersInflate
<1>7. ASSUME NEW s \in Sends, SendBegin(s) PROVE IInv'
  BY <1>4, <1>7 DEF SendBegin
<1>8. CASE SendAborted
  BY <1>4, <1>8 DEF SendAborted
<1>9. ASSUME NEW t \in Outgoing, OutgoingSettles(t) PROVE IInv'
  BY <1>4, <1>9 DEF OutgoingSettles
<1>. QED
  BY <1>3, <1>5, <1>6, <1>7, <1>8, <1>9

LEMMA PayStep ==
  ASSUME IInv, NEW r \in Receives, Pay(r) PROVE IInv'
<1>1. ChainInv /\ AllocInv /\ ChainTypeOK /\ r \in Txs
  BY ReceivedOutput DEF IInv, ChainInv
<1>2. Paid(r) /\ status[r] = "WaitingConfirmations" /\ UNCHANGED assetVars
      /\ UNCHANGED <<inputs, graph, rows, panicked>> /\ tx[r] = "none"
  BY DEF Pay, Paid
<1>3. /\ tx' \in [Txs -> TxStates]
      /\ \A x \in Txs : Public(x) => Public(x)'
      /\ \A x \in Txs \ {r} : tx'[x] = tx[x]
      /\ Public(r)'
  BY <1>1, <1>2, StillPublic
<1>4. \A x \in Txs : tx'[x] = "none" => tx[x] = "none"
  BY <1>3 DEF Public
<1>5. ChainInv'
  BY <1>1, <1>2, <1>3, ChainKept DEF ChainInv, ChainTypeOK
<1>6. \A x \in Receives : x \in Txs
  BY ReceivedOutput
<1>7. status' = status /\ plan' = plan /\ allocs' = allocs
  BY <1>2 DEF assetVars
<1>8. \A x \in Receives : status'[x] = "none" => tx'[x] = "none"
  BY <1>1, <1>2, <1>3, <1>6, <1>7 DEF AllocInv
<1>9. AllocInv'
  BY <1>1, <1>2, <1>4, <1>7, <1>8, AllocStep DEF AllocInv
<1>. QED
  BY <1>5, <1>9 DEF IInv

LEMMA ReceiveSettlesStep ==
  ASSUME IInv, NEW r \in Receives, ReceiveSettles(r) PROVE IInv'
<1>1. ChainInv /\ AllocInv /\ r \in Colored
  BY ReceivedOutput DEF IInv
<1>2. /\ UNCHANGED <<tx, inputs, panicked, allocs, plan>> /\ (Synced \/ NotSynced)
      /\ status' = [status EXCEPT ![r] = "Settled"]
  BY DEF ReceiveSettles
<1>3. /\ graph' \subseteq PublicTxs /\ rows' \in [External -> RowStates]
      /\ \A u \in External : rows'[u] = "there" => Public(Maker(u))
  BY <1>1, <1>2, SyncedIsPublic, NotSyncedIsPublic
<1>4. ChainInv'
  BY <1>1, <1>2, <1>3, ChainStep DEF ChainInv, ChainTypeOK, PublicTxs, Public
<1>5. \A x \in Receives : x \in Colored
  BY ReceivedOutput
<1>6. /\ status' \in [Colored -> Statuses]
      /\ \A x \in Receives : status'[x] = "none" => status[x] = "none"
  BY <1>1, <1>2, <1>5 DEF AllocInv, Statuses
<1>7. AllocInv'
  BY <1>1, <1>2, <1>6, AllocStep DEF AllocInv
<1>. QED
  BY <1>4, <1>7 DEF IInv

LEMMA IndexStep ==
  ASSUME IInv, NEW t \in Txs, Index(t), UNCHANGED assetVars PROVE IInv'
<1>1. ChainInv /\ AllocInv /\ ChainTypeOK
  BY DEF IInv, ChainInv
<1>2. tx[t] = "public" /\ UNCHANGED <<inputs, graph, rows, panicked>>
  BY DEF Index
<1>3. /\ tx' \in [Txs -> TxStates] /\ Public(t)'
      /\ \A x \in Txs : Public(x) => Public(x)'
      /\ \A x \in Txs \ {t} : tx'[x] = tx[x]
  BY <1>1, <1>2, StillPublic
<1>4. ChainInv'
  BY <1>1, <1>2, <1>3, ChainKept DEF ChainInv, ChainTypeOK
<1>5. \A x \in Txs : tx'[x] = "none" <=> tx[x] = "none"
  BY <1>2, <1>3 DEF Public
<1>6. \A r \in Receives : r \in Txs
  BY ReceivedOutput
<1>7. AllocInv'
  BY <1>1, <1>2, <1>5, <1>6, AllocKept
<1>. QED
  BY <1>4, <1>7 DEF IInv

LEMMA InvStep ==
  ASSUME IInv, SendInv, [Next]_vars PROVE IInv'
<1>1. CASE NetworkNext /\ UNCHANGED assetVars
  BY <1>1, IndexStep DEF NetworkNext
<1>2. CASE VanillaNext /\ sending = NoSend /\ UNCHANGED assetVars
  BY <1>2, VanillaStep
<1>3. CASE IssueAssetIfa
  BY <1>3, AssetStep DEF IssueAssetIfa
<1>4. CASE IssuedElsewhere
  BY <1>4, AssetStep DEF IssuedElsewhere
<1>5. ASSUME NEW o \in OthersInflations, OthersInflate(o) PROVE IInv'
  <2>1. UNCHANGED chainVars
    BY <1>5 DEF OthersInflate
  <2>. QED
    BY <1>5, <2>1, AssetStep
<1>6. ASSUME NEW r \in Receives, WaitConsignment(r) \/ Pay(r) \/ ReceiveSettles(r) PROVE IInv'
  BY <1>6, WaitConsignmentStep, PayStep, ReceiveSettlesStep
<1>7. ASSUME NEW i \in Inflations, InflateBegin(i) PROVE IInv'
  BY <1>7, InflateStep
<1>8. ASSUME NEW s \in Sends, SendBegin(s) PROVE IInv'
  <2>1. UNCHANGED chainVars
    BY <1>8 DEF SendBegin
  <2>. QED
    BY <1>8, <2>1, AssetStep
<1>9. ASSUME NEW s \in Sends, SendAttempt(s) PROVE IInv'
  BY <1>9, SendAttemptStep
<1>10. CASE SendAborted
  BY <1>10, AssetStep DEF SendAborted
<1>11. ASSUME NEW t \in Outgoing, EndBroadcast(t) PROVE IInv'
  BY <1>11, EndBroadcastStep
<1>12. ASSUME NEW t \in Outgoing, OutgoingSettles(t) PROVE IInv'
  <2>1. UNCHANGED chainVars
    BY <1>12 DEF OutgoingSettles
  <2>. QED
    BY <1>12, <2>1, AssetStep
<1>13. CASE UNCHANGED vars
  <2>1. UNCHANGED chainVars /\ UNCHANGED assetVars
    BY <1>13 DEF vars
  <2>2. tx' = tx /\ inputs' = inputs
    BY <2>1 DEF chainVars
  <2>. QED
    BY <2>1, <2>2, QuietChain, AllocKept DEF IInv
<1>. QED
  BY <1>1, <1>2, <1>3, <1>4, <1>5, <1>6, <1>7, <1>8, <1>9, <1>10, <1>11, <1>12, <1>13
  DEF Next, Outgoing

-----------------------------------------------------------------------------
(* The send in progress.                                                   *)

LEMMA NoSendInv == IsSend(NoSend) /\ NoSend.send \notin Sends
BY AssetAssumption DEF IsSend, NoSend

LEMMA RetryIsSend ==
  ASSUME NEW p, IsSend(p), NEW bad
  PROVE  IsSend(RetryWithout(p, bad)) /\ RetryWithout(p, bad).send = p.send
<1> DEFINE more == p.needed + Total(bad)
<1>1. RetryWithout(p, bad) = [p EXCEPT !.rejected = p.rejected \cup bad, !.needed = more]
  BY DEF RetryWithout, IsSend
<1> HIDE DEF more
<1>2. RetryWithout(p, bad) \in [send : {p.send}, kind : {p.kind}, need : {p.need},
                                needed : {more}, rejected : {p.rejected \cup bad}]
  BY <1>1 DEF IsSend
<1>. QED
  BY <1>2 DEF IsSend

LEMMA SendStep ==
  ASSUME ChainTypeOK, SendInv, [Next]_vars PROVE SendInv'
<1>1. \A s \in Sends : s \in Txs /\ s \notin Receives
  BY AssetAssumption, TransactionsAssumption DEF Txs
<1>2. CASE sending' = NoSend
  BY <1>2, NoSendInv DEF SendInv
<1>3. CASE sending' = sending /\ \A s \in Sends : tx[s] = "none" => tx'[s] = "none"
  BY <1>3 DEF SendInv
<1>4. ASSUME NEW t \in Txs, Index(t), UNCHANGED assetVars PROVE SendInv'
  <2>1. tx' = [tx EXCEPT ![t] = "indexed"] /\ tx[t] = "public" /\ sending' = sending
    BY <1>4 DEF Index, assetVars
  <2>. QED
    BY <2>1, <1>1, <1>3 DEF ChainTypeOK
<1>5. CASE VanillaNext /\ sending = NoSend /\ UNCHANGED assetVars
  BY <1>2, <1>5 DEF assetVars
<1>6. CASE IssueAssetIfa
  BY <1>2, <1>6 DEF IssueAssetIfa, Ready
<1>7. CASE IssuedElsewhere
  BY <1>3, <1>7 DEF IssuedElsewhere, chainVars
<1>8. ASSUME NEW o \in OthersInflations, OthersInflate(o) PROVE SendInv'
  BY <1>3, <1>8 DEF OthersInflate, chainVars
<1>9. ASSUME NEW r \in Receives, WaitConsignment(r) \/ ReceiveSettles(r) PROVE SendInv'
  BY <1>2, <1>9 DEF WaitConsignment, ReceiveSettles, Ready
<1>10. ASSUME NEW r \in Receives, Pay(r) PROVE SendInv'
  <2>1. tx' = [tx EXCEPT ![r] = "public"] /\ sending' = sending
    BY <1>10 DEF Pay, Paid, assetVars
  <2>. QED
    BY <2>1, <1>1, <1>3 DEF ChainTypeOK
<1>11. ASSUME NEW i \in Inflations, InflateBegin(i) PROVE SendInv'
  BY <1>2, <1>11 DEF InflateBegin, Ready
<1>12. ASSUME NEW s \in Sends, SendBegin(s) PROVE SendInv'
  <2>1. PICK kind \in Kinds, amount \in 1..MaxAmount :
           sending' = [send |-> s, kind |-> kind, need |-> amount, needed |-> amount,
                       rejected |-> {}]
    BY <1>12 DEF SendBegin
  <2>2. tx' = tx /\ tx[s] = "none"
    BY <1>12 DEF SendBegin, chainVars
  <2>. QED
    BY <2>1, <2>2 DEF SendInv, IsSend
<1>13. ASSUME NEW s \in Sends, SendAttempt(s) PROVE SendInv'
  <2>1. ASSUME NEW bad, sending' = RetryWithout(sending, bad), UNCHANGED tx PROVE SendInv'
    <3>1. IsSend(sending') /\ sending'.send = sending.send
      BY <2>1, RetryIsSend DEF SendInv
    <3>. QED
      BY <2>1, <3>1 DEF SendInv
  <2>. QED
    BY <1>2, <1>13, <2>1, AttemptCases DEF Attempts, Retries, RefusesSend
<1>14. CASE SendAborted
  BY <1>2, <1>14 DEF SendAborted
<1>15. ASSUME NEW t \in Outgoing, EndBroadcast(t) \/ OutgoingSettles(t) PROVE SendInv'
  BY <1>2, <1>15 DEF EndBroadcast, OutgoingSettles, Ready
<1>16. CASE UNCHANGED vars
  BY <1>3, <1>16 DEF vars, chainVars, assetVars
<1>. QED
  BY <1>4, <1>5, <1>6, <1>7, <1>8, <1>9, <1>10, <1>11, <1>12, <1>13, <1>14, <1>15, <1>16
  DEF Next, NetworkNext, Outgoing

-----------------------------------------------------------------------------
(* The chain state of the wallet keeps its type, and what the wallet sees  *)
(* in BDK's graph or has a row for, or prepares to spend, is public.       *)
THEOREM WalletSeesWhatIsPublic == Spec => []ChainInv
<1>1. Init => IInv /\ SendInv
  BY InvInit, NoSendInv DEF Init, SendInv
<1>2. IInv /\ SendInv /\ [Next]_vars => (IInv /\ SendInv)'
  BY InvStep, SendStep DEF IInv, ChainInv
<1>3. IInv => ChainInv
  BY DEF IInv
<1>. QED
  BY <1>1, <1>2, <1>3, PTL DEF Spec

(* If applications do not pass skip_sync to send_btc_begin, transactions   *)
(* without RGB spend no UTXO with an allocation, and inflations and sends  *)
(* only one that they do not move: the change of another transaction that  *)
(* has no output for it and left it on an existing UTXO.                   *)
THEOREM NothingIsSpentByMistake ==
  ASSUME NoSkip PROVE Spec => []PublicMovesAllocations
<1>1. Init => IInv /\ SendInv
  BY InvInit, NoSendInv DEF Init, SendInv
<1>2. IInv /\ SendInv /\ [Next]_vars => (IInv /\ SendInv)'
  BY InvStep, SendStep DEF IInv, ChainInv
<1>3. IInv => PublicMovesAllocations
  <2> SUFFICES ASSUME IInv, NEW t \in Txs, NEW k \in allocs, k.txo \in inputs[t]
               PROVE  /\ t \in Inflations \cup Sends
                      /\ k \in plan[t].takes \/ (OnExisting(k) /\ k.by # t)
    BY DEF PublicMovesAllocations
  <2>1. k.txo \in External
    BY DEF IInv, AllocInv, IsAlloc
  <2>2. t \in Outgoing
    BY <2>1 DEF IInv, AllocInv, External
  <2>. QED
    BY <2>2 DEF IInv, AllocInv, Outgoing
<1>. QED
  BY <1>1, <1>2, <1>3, PTL DEF Spec

-----------------------------------------------------------------------------
(* Types.                                                                  *)

LEMMA NodeFacts ==
  /\ Outgoing \subseteq Colored /\ Receives \subseteq Colored /\ Colored \subseteq Nodes
  /\ Minters \subseteq Nodes /\ Origins \subseteq Nodes /\ Issue \in Nodes
  /\ IsFiniteSet(Nodes) /\ Issue \notin Colored /\ Colored \cap OthersInflations = {}
  /\ Outgoing \cap Receives = {} /\ Colored = Outgoing \cup Receives
<1>1. /\ Outgoing \subseteq Colored /\ Receives \subseteq Colored /\ Colored \subseteq Nodes
      /\ Minters \subseteq Nodes /\ Origins \subseteq Nodes /\ Issue \in Nodes
      /\ Colored \subseteq Txs /\ Outgoing \cap Receives = {} /\ Colored = Outgoing \cup Receives
  BY AssetAssumption DEF Outgoing, Nodes, Minters, Origins, Txs
<1>2. IsFiniteSet(Colored) /\ IsFiniteSet({Issue}) /\ IsFiniteSet(OthersInflations)
  BY <1>1, TransactionsAssumption, AssetAssumption, FS_Subset, FS_Singleton
<1>3. IsFiniteSet(Nodes)
  BY <1>2, FS_Union DEF Nodes
<1>. QED
  BY <1>1, <1>3, AssetAssumption

(* The tables are finite.                                                  *)
FiniteInv ==
  /\ IsFiniteSet(allocs)
  /\ \A t \in Outgoing : IsFiniteSet(plan[t].takes) /\ IsFiniteSet(plan[t].brings)
  /\ IsFiniteSet(sending.rejected)

LEMMA SupplyType ==
  ASSUME minted \in [Minters -> Nat], NEW S, S \subseteq Minters
  PROVE  /\ SumOver(minted, S) \in Nat /\ Supply(S) \in Nat /\ IsFiniteSet(S)
         /\ Supply(S) = IssuedTokens + SumOver(minted, S)
<1>1. IsFiniteSet(S)
  BY NodeFacts, FS_Subset
<1>2. SumOver(minted, S) \in Nat
  BY <1>1, SumNat
<1>3. Supply(S) = IssuedTokens + SumOver(minted, S)
  BY DEF Supply, SumOver
<1>. QED
  BY <1>1, <1>2, <1>3, AssetAssumption

LEMMA AllocsSummable ==
  ASSUME TypeOK, FiniteInv, NEW S, S \subseteq allocs PROVE Summable(S) /\ Total(S) \in Nat
<1>1. IsFiniteSet(S) /\ \A k \in S : k.amount \in Nat
  BY FS_Subset DEF TypeOK, Allocations, FiniteInv
<1>. QED
  BY <1>1, TotalSplit DEF Summable

LEMMA AllocType ==
  ASSUME NEW u, NEW kind \in Kinds, NEW t \in Nodes, NEW amount \in Int, amount > 0 => u \in External
  PROVE  /\ u \in External /\ amount \in Nat => Alloc(u, kind, amount, t) \in Allocations
         /\ Change(kind, amount, u, t) \subseteq Allocations
         /\ IsFiniteSet(Change(kind, amount, u, t))
<1>1. u \in External /\ amount \in Nat => Alloc(u, kind, amount, t) \in Allocations
  BY DEF Alloc, Allocations
<1>2. Change(kind, amount, u, t) \subseteq {Alloc(u, kind, amount, t)}
  BY DEF Change
<1>3. amount > 0 => amount \in Nat
  OBVIOUS
<1>4. Change(kind, amount, u, t) \subseteq Allocations
  BY <1>1, <1>3 DEF Change, Alloc
<1>. QED
  BY <1>1, <1>2, <1>4, FS_Singleton, FS_Subset

(* What moves to the change output keeps kind, amount and source.          *)
MovedTo(k, to, t) == [txo |-> to, kind |-> k.kind, amount |-> k.amount, source |-> k.source, by |-> t]

LEMMA MovedType ==
  ASSUME NEW extra, extra \subseteq Allocations, IsFiniteSet(extra), NEW t \in Nodes,
         NEW to, extra # {} => to \in External
  PROVE  Moved(extra, to, t) \subseteq Allocations /\ IsFiniteSet(Moved(extra, to, t))
<1> DEFINE m == [k \in extra |-> MovedTo(k, to, t)]
<1>1. Moved(extra, to, t) = {MovedTo(k, to, t) : k \in extra}
  BY DEF Moved, MovedTo
<1>2. \A k \in extra : MovedTo(k, to, t) \in Allocations
  BY DEF MovedTo, Allocations
<1>3. m \in Surjection(extra, Moved(extra, to, t))
  BY <1>1 DEF Surjection
<1>4. IsFiniteSet(Moved(extra, to, t))
  BY <1>3, FS_Surjection
<1>. QED
  BY <1>1, <1>2, <1>4

PlanType == [takes : SUBSET Allocations, brings : SUBSET Allocations, kind : Kinds, gives : Nat]

LEMMA PreparesType ==
  ASSUME TypeOK, FiniteInv, NEW t \in Outgoing, NEW hosts \in SUBSET External, NEW fee,
         NEW used, used \subseteq UNION {On(u) : u \in hosts},
         NEW to, UNION {On(u) : u \in hosts} # used => to \in External,
         NEW brings, brings \subseteq Allocations, IsFiniteSet(brings),
         NEW kind \in Kinds, NEW gives \in Nat,
         Prepares(t, hosts, fee, used, to, brings, kind, gives)
  PROVE  /\ plan' \in [Outgoing -> PlanType] /\ parents' \in [Nodes -> SUBSET Nodes]
         /\ \A x \in Outgoing : IsFiniteSet(plan'[x].takes) /\ IsFiniteSet(plan'[x].brings)
<1> DEFINE takes == UNION {On(u) : u \in hosts}
           moved == Moved(takes \ used, to, t)
<1>1. takes \subseteq allocs /\ IsFiniteSet(takes)
  <2>1. takes \subseteq allocs
    BY DEF On
  <2>. QED
    BY <2>1, FS_Subset DEF FiniteInv
<1>2. moved \subseteq Allocations /\ IsFiniteSet(moved)
  <2>1. takes \ used \subseteq Allocations /\ IsFiniteSet(takes \ used)
    BY <1>1, FS_Subset DEF TypeOK
  <2>2. t \in Nodes /\ (takes \ used # {} => to \in External)
    BY NodeFacts
  <2>. QED
    BY <2>1, <2>2, MovedType
<1>3. IsFiniteSet(brings \cup moved) /\ brings \cup moved \subseteq Allocations
  BY <1>2, FS_Union
<1> HIDE DEF moved
<1>4. /\ plan' = [plan EXCEPT ![t] = [takes |-> takes, brings |-> brings \cup moved,
                                      kind |-> kind, gives |-> gives]]
      /\ parents' = [parents EXCEPT ![t] = {k.source : k \in used}]
  BY DEF Prepares, moved
<1>5. plan \in [Outgoing -> PlanType]
  BY DEF TypeOK, Outgoing, PlanType
<1>6. takes \in SUBSET Allocations
  BY <1>1 DEF TypeOK
<1> HIDE DEF takes
<1>7. plan' \in [Outgoing -> PlanType]
  BY <1>3, <1>4, <1>5, <1>6 DEF PlanType
<1>8. \A x \in Outgoing : /\ x # t => plan'[x] = plan[x]
                          /\ x = t => plan'[x].takes = takes /\ plan'[x].brings = brings \cup moved
  BY <1>4, <1>5
<1>9. {k.source : k \in used} \subseteq Nodes
  BY <1>1 DEF TypeOK, Allocations, takes
<1>10. parents' \in [Nodes -> SUBSET Nodes]
  BY <1>4, <1>9 DEF TypeOK
<1>. QED
  BY <1>1, <1>3, <1>7, <1>8, <1>10 DEF FiniteInv

(* The allocations that are selected are on the hosts.                     *)
LEMMA OfOn == \A u, kind : Of(u, kind) \subseteq On(u) /\ On(u) \subseteq allocs
BY DEF Of, On


(* The types that an asset has besides those of the chain.                 *)
AssetTypeOK ==
  /\ allocs \subseteq Allocations /\ status \in [Colored -> Statuses]
  /\ plan \in [Outgoing -> PlanType]
  /\ known \in Nat \cup {NoAsset} /\ stock \subseteq Minters /\ minted \in [Minters -> Nat]
  /\ parents \in [Nodes -> SUBSET Nodes]
  /\ others \in [Kinds -> [Origins -> Nat]]
  /\ sending \in [send : Sends \cup {"none"}, kind : Kinds, need : Nat, needed : Nat,
                  rejected : SUBSET Allocations]

LEMMA TypeParts == TypeOK <=> ChainTypeOK /\ AssetTypeOK
BY DEF TypeOK, AssetTypeOK, Outgoing, PlanType

LEMMA TypeInit == Init => TypeOK /\ FiniteInv
<1> SUFFICES ASSUME Init PROVE TypeOK /\ FiniteInv
  OBVIOUS
<1>1. ChainTypeOK
  BY InvInit DEF IInv, ChainInv
<1>2. NoPlan \in PlanType /\ NoPlan.takes = {} /\ NoPlan.brings = {}
  BY DEF NoPlan, PlanType, Kinds
<1>3. NoSend \in [send : Sends \cup {"none"}, kind : Kinds, need : Nat, needed : Nat,
                  rejected : SUBSET Allocations] /\ NoSend.rejected = {}
  BY DEF NoSend, Kinds
<1>4. plan = [t \in Outgoing |-> NoPlan] /\ sending = NoSend /\ allocs = {}
  BY DEF Init, Outgoing
<1>5. AssetTypeOK
  BY <1>2, <1>3, <1>4 DEF Init, AssetTypeOK, Statuses, Kinds
<1>6. FiniteInv
  BY <1>2, <1>3, <1>4, FS_EmptySet DEF FiniteInv
<1>. QED
  BY <1>1, <1>5, <1>6, TypeParts

LEMMA IssueType ==
  ASSUME TypeOK, FiniteInv, IssueAssetIfa PROVE AssetTypeOK' /\ FiniteInv'
<1>1. PICK u \in Free, v \in Free : allocs' = Issued(u, v)
  BY DEF IssueAssetIfa
<1>2. /\ Alloc(u, "token", IssuedTokens, Issue) \in Allocations
      /\ Alloc(v, "right", IssuedRights, Issue) \in Allocations
  BY AssetAssumption, NodeFacts, AllocType DEF Free, Kinds
<1>3. Issued(u, v) \subseteq
        {Alloc(u, "token", IssuedTokens, Issue)} \cup {Alloc(v, "right", IssuedRights, Issue)}
  BY DEF Issued
<1>4. IsFiniteSet({Alloc(u, "token", IssuedTokens, Issue)}
                    \cup {Alloc(v, "right", IssuedRights, Issue)})
  BY FS_Singleton, FS_Union
<1>5. allocs' \subseteq Allocations /\ IsFiniteSet(allocs')
  BY <1>1, <1>2, <1>3, <1>4, FS_Subset
<1>6. UNCHANGED <<status, plan, stock, minted, parents, others, sending>> /\ known' = IssuedTokens
  BY DEF IssueAssetIfa
<1>7. AssetTypeOK
  BY TypeParts
<1>. QED
  BY <1>5, <1>6, <1>7, AssetAssumption DEF AssetTypeOK, FiniteInv

(* What OthersInflate and WaitConsignment do, the amounts being given.     *)
InflatesFrom(o, from, amount) ==
  /\ amount \in Nat \ {0} /\ amount <= others["right"][from]
  /\ minted' = [minted EXCEPT ![o] = amount]
  /\ others' = [others EXCEPT !["token"][o] = amount, !["right"][from] = @ - amount]
  /\ parents' = [parents EXCEPT ![o] = {from}]

LEMMA OthersFacts ==
  ASSUME AssetTypeOK, NEW o \in OthersInflations, OthersInflate(o)
  PROVE  \E from \in Origins, amount \in Nat : InflatesFrom(o, from, amount)
<1>1. PICK from \in Origins : \E amount \in 1..others["right"][from] :
         /\ minted' = [minted EXCEPT ![o] = amount]
         /\ others' = [others EXCEPT !["token"][o] = amount, !["right"][from] = @ - amount]
         /\ parents' = [parents EXCEPT ![o] = {from}]
  BY DEF OthersInflate
<1>2. others["right"][from] \in Nat
  BY DEF AssetTypeOK, Kinds
<1>3. \A amount \in 1..others["right"][from] :
         amount \in Nat \ {0} /\ amount <= others["right"][from]
  BY <1>2
<1>. QED
  BY <1>1, <1>3 DEF InflatesFrom

Accepts(r, o, kind, amount) ==
  /\ status' = [status EXCEPT ![r] = "WaitingConfirmations"]
  /\ allocs' = allocs \cup Received(r, kind, amount)
  /\ known' = KnownFrom(Heard(parents', r))
  /\ others' = [others EXCEPT ![kind][o] = @ - amount]
  /\ rows' = [rows EXCEPT ![<<r, 1>>] = IF @ = "none" THEN "expected" ELSE @]
Refuses(r) ==
  status' = [status EXCEPT ![r] = "Failed"] /\ UNCHANGED <<allocs, known, others, rows>>
ReceivesFrom(r, o, kind, amount) ==
  /\ amount \in Nat \ {0} /\ amount <= others[kind][o]
  /\ parents' = [parents EXCEPT ![r] = {o}]
  /\ Accepts(r, o, kind, amount) \/ Refuses(r)

LEMMA WaitFacts ==
  ASSUME AssetTypeOK, NEW r \in Receives, WaitConsignment(r)
  PROVE  \E o \in Origins, kind \in Kinds, amount \in Nat : ReceivesFrom(r, o, kind, amount)
<1>1. PICK o \in Origins, kind \in Kinds, list \in Lists : \E amount \in 1..others[kind][o] :
         /\ parents' = [parents EXCEPT ![r] = {o}]
         /\ IF Rejects(list, parents', r) THEN Refuses(r) ELSE Accepts(r, o, kind, amount)
  BY DEF WaitConsignment, Accepts, Refuses
<1>2. others[kind][o] \in Nat
  BY DEF AssetTypeOK
<1>3. \A amount \in 1..others[kind][o] : amount \in Nat \ {0} /\ amount <= others[kind][o]
  BY <1>2
<1>. QED
  BY <1>1, <1>3 DEF ReceivesFrom

LEMMA OthersType ==
  ASSUME TypeOK, NEW o \in OthersInflations, OthersInflate(o) PROVE AssetTypeOK'
<1>1. AssetTypeOK /\ UNCHANGED <<allocs, status, plan, known, stock, sending>>
  BY TypeParts DEF OthersInflate
<1>2. PICK from \in Origins, amount \in Nat : InflatesFrom(o, from, amount)
  BY <1>1, OthersFacts
<1>3. o \in Origins /\ o \in Minters /\ o \in Nodes /\ from \in Nodes
  BY NodeFacts DEF Origins, Minters
<1>4. amount \in Nat /\ others["right"][from] \in Nat /\ others["right"][from] - amount \in Nat
  <2>1. others["right"][from] \in Nat
    BY <1>1 DEF AssetTypeOK, Kinds
  <2>. QED
    BY <1>2, <2>1 DEF InflatesFrom
<1>5. others' \in [Kinds -> [Origins -> Nat]]
  BY <1>1, <1>2, <1>3, <1>4 DEF AssetTypeOK, Kinds, InflatesFrom
<1>6. minted' \in [Minters -> Nat] /\ parents' \in [Nodes -> SUBSET Nodes]
  BY <1>1, <1>2, <1>3, <1>4 DEF AssetTypeOK, InflatesFrom
<1>. QED
  BY <1>1, <1>5, <1>6 DEF AssetTypeOK

LEMMA HeardType == \A dag, t : Heard(dag, t) \subseteq Minters
BY DEF Heard

LEMMA WaitType ==
  ASSUME TypeOK, FiniteInv, NEW r \in Receives, WaitConsignment(r)
  PROVE  AssetTypeOK' /\ FiniteInv'
<1>1. AssetTypeOK /\ UNCHANGED <<plan, stock, minted, sending>>
  BY TypeParts DEF WaitConsignment
<1>2. PICK o \in Origins, kind \in Kinds, amount \in Nat : ReceivesFrom(r, o, kind, amount)
  BY <1>1, WaitFacts
<1>3. /\ amount \in Nat /\ others[kind][o] - amount \in Nat
      /\ r \in Nodes /\ o \in Nodes /\ r \in Colored
  <2>1. others[kind][o] \in Nat
    BY <1>1 DEF AssetTypeOK
  <2>. QED
    BY <1>2, <2>1, NodeFacts DEF ReceivesFrom
<1>4. Received(r, kind, amount) \subseteq Allocations /\ IsFiniteSet(Received(r, kind, amount))
  <2>1. <<r, 1>> \in External
    BY ReceivedOutput
  <2>2. Alloc(<<r, 1>>, kind, amount, r) \in Allocations
    BY <1>3, <2>1, AllocType
  <2>. QED
    BY <2>2, FS_Singleton DEF Received
<1>5. /\ parents' = [parents EXCEPT ![r] = {o}]
      /\ \/ /\ allocs' = allocs \cup Received(r, kind, amount)
            /\ known' = KnownFrom(Heard(parents', r))
            /\ others' = [others EXCEPT ![kind][o] = @ - amount]
         \/ UNCHANGED <<allocs, known, others>>
      /\ status' \in {[status EXCEPT ![r] = "WaitingConfirmations"], [status EXCEPT ![r] = "Failed"]}
  BY <1>2 DEF ReceivesFrom, Accepts, Refuses
<1>6. allocs' \subseteq Allocations /\ IsFiniteSet(allocs')
  <2>1. IsFiniteSet(allocs \cup Received(r, kind, amount))
    BY <1>4, FS_Union DEF FiniteInv
  <2>. QED
    BY <1>1, <1>4, <1>5, <2>1 DEF AssetTypeOK, FiniteInv
<1>7. known' \in Nat \cup {NoAsset}
  BY <1>1, <1>5, HeardType, SupplyType DEF KnownFrom, AssetTypeOK
<1>8. others' \in [Kinds -> [Origins -> Nat]]
  BY <1>1, <1>3, <1>5 DEF AssetTypeOK
<1>9. parents' \in [Nodes -> SUBSET Nodes] /\ status' \in [Colored -> Statuses]
  BY <1>1, <1>3, <1>5 DEF AssetTypeOK, Statuses
<1>10. AssetTypeOK'
  BY <1>1, <1>6, <1>7, <1>8, <1>9 DEF AssetTypeOK
<1>. QED
  BY <1>1, <1>6, <1>10 DEF FiniteInv

LEMMA ReceiveType ==
  ASSUME TypeOK, NEW r \in Receives, ReceiveSettles(r) PROVE AssetTypeOK'
<1>1. /\ AssetTypeOK /\ UNCHANGED <<allocs, plan, minted, parents, others, sending>>
      /\ status' = [status EXCEPT ![r] = "Settled"]
      /\ stock' = stock \cup Heard(parents, r) /\ known' = KnownAfter(stock')
  BY TypeParts DEF ReceiveSettles
<1>2. stock' \subseteq Minters /\ Supply(stock') \in Nat
  BY <1>1, HeardType, SupplyType DEF AssetTypeOK
<1>3. known' \in Nat \cup {NoAsset}
  BY <1>1, <1>2 DEF KnownAfter, AssetTypeOK
<1>4. status' \in [Colored -> Statuses]
  BY <1>1, NodeFacts DEF AssetTypeOK, Statuses
<1>. QED
  BY <1>1, <1>2, <1>3, <1>4 DEF AssetTypeOK

(* Where something stays, it is at an output that can carry allocations.   *)
LEMMA SealType ==
  ASSUME NEW t, NEW ins, NEW hosts, NEW used, NEW left,
         NEW to \in ChangeSeals(t, ins, Stays(hosts, used, left))
  PROVE  /\ left > 0 => to \in External
         /\ UNION {On(u) : u \in hosts} # used => to \in External
<1>1. Stays(hosts, used, left) \in BOOLEAN
  BY DEF Stays
<1>2. Stays(hosts, used, left) => to \in External
  BY <1>1, SealFacts DEF SeatOf
<1>. QED
  BY <1>2 DEF Stays

(* What InflateBegin prepares.                                             *)
OfKindOn(hosts, kind) == UNION {Of(u, kind) : u \in hosts}

Inflates(i, amount, hosts, fee, used, to) ==
  /\ amount \in 1..MaxAmount /\ hosts \in SelectRgbInputs("right", amount) /\ fee \in Free
  /\ used \in Contributing(OfKindOn(hosts, "right"), amount)
  /\ to \in ChangeSeals(i, hosts \cup {fee}, Stays(hosts, used, Total(used) - amount))
  /\ Prepares(i, hosts, {fee}, used, to,
        {Alloc(<<i, 1>>, "token", amount, i)}
          \cup Change("right", Total(used) - amount, to, i), "token", 0)
  /\ minted' = [minted EXCEPT ![i] = amount]

LEMMA InflateFacts ==
  ASSUME NEW i \in Inflations, InflateBegin(i)
  PROVE  \E amount \in Nat, hosts \in SUBSET External, fee \in Free, used \in SUBSET allocs : \E to :
            /\ Inflates(i, amount, hosts, fee, used, to)
            /\ used \subseteq OfKindOn(hosts, "right") /\ \A u \in hosts : rows[u] = "there"
<1> DEFINE Offers(hosts) == UNION {Of(u, "right") : u \in hosts}
           Seats(amount, hosts, fee, used) ==
             ChangeSeals(i, hosts \cup {fee}, Stays(hosts, used, Total(used) - amount))
           Begins(amount, hosts, fee, used, to) ==
             /\ Prepares(i, hosts, {fee}, used, to,
                   {Alloc(<<i, 1>>, "token", amount, i)}
                     \cup Change("right", Total(used) - amount, to, i), "token", 0)
             /\ minted' = [minted EXCEPT ![i] = amount]
           BeginsHere(amount, hosts, fee, used, to) ==
             /\ Prepares(i, hosts, {fee}, used, to,
                   {Alloc(<<i, 1>>, "token", amount, i)}
                     \cup Change("right", Total(used) - amount, to, i), "token", 0)
             /\ graph' = RestoredGraph(hosts)
             /\ minted' = [minted EXCEPT ![i] = amount]
<1>1. \E amount \in 1..MaxAmount : \E hosts \in SelectRgbInputs("right", amount) :
         \E fee \in Free : \E used \in Contributing(Offers(hosts), amount) :
         \E to \in Seats(amount, hosts, fee, used) : BeginsHere(amount, hosts, fee, used, to)
  BY Zenon DEF InflateBegin
<1>2. \A amount, hosts, fee, used, to :
         BeginsHere(amount, hosts, fee, used, to) => Begins(amount, hosts, fee, used, to)
  OBVIOUS
<1> HIDE DEF BeginsHere
<1>3. \E amount \in 1..MaxAmount : \E hosts \in SelectRgbInputs("right", amount) :
         \E fee \in Free : \E used \in Contributing(Offers(hosts), amount) :
         \E to \in Seats(amount, hosts, fee, used) : Begins(amount, hosts, fee, used, to)
  <2> HIDE DEF Offers, Seats, Begins
  <2>. QED
    BY <1>1, <1>2
<1>4. \A amount, hosts, fee, used, to :
         Inflates(i, amount, hosts, fee, used, to) <=>
            /\ amount \in 1..MaxAmount /\ hosts \in SelectRgbInputs("right", amount) /\ fee \in Free
            /\ used \in Contributing(Offers(hosts), amount)
            /\ to \in Seats(amount, hosts, fee, used) /\ Begins(amount, hosts, fee, used, to)
  BY DEF Inflates, OfKindOn
<1>5. \A hosts : Offers(hosts) = OfKindOn(hosts, "right")
  BY DEF OfKindOn
<1> HIDE DEF Offers, Seats, Begins
<1>6. PICK amount \in 1..MaxAmount : \E hosts \in SelectRgbInputs("right", amount) :
         \E fee \in Free : \E used \in Contributing(Offers(hosts), amount) :
         \E to : Inflates(i, amount, hosts, fee, used, to)
  BY <1>3, <1>4
<1>7. PICK hosts \in SelectRgbInputs("right", amount), fee \in Free :
         \E used \in Contributing(Offers(hosts), amount) :
         \E to : Inflates(i, amount, hosts, fee, used, to)
  BY <1>6
<1>8. PICK used \in Contributing(OfKindOn(hosts, "right"), amount) :
         \E to : Inflates(i, amount, hosts, fee, used, to)
  BY <1>7, <1>5
<1>9. hosts \subseteq External /\ \A u \in hosts : rows[u] = "there"
  BY SelectedHosts
<1>10. used \subseteq OfKindOn(hosts, "right")
  BY ContributingChoosesFrom
<1>11. OfKindOn(hosts, "right") \subseteq allocs
  BY OfOn DEF OfKindOn
<1>12. amount \in Nat
  BY AssetAssumption
<1>. QED
  BY <1>8, <1>9, <1>10, <1>11, <1>12

LEMMA InflateType ==
  ASSUME TypeOK, FiniteInv, NEW i \in Inflations, InflateBegin(i) PROVE AssetTypeOK' /\ FiniteInv'
<1>0. PICK amount \in Nat, hosts \in SUBSET External, fee \in Free, used \in SUBSET allocs :
         \E to : Inflates(i, amount, hosts, fee, used, to) /\ used \subseteq OfKindOn(hosts, "right")
  BY InflateFacts
<1>1. PICK to : Inflates(i, amount, hosts, fee, used, to) /\ used \subseteq OfKindOn(hosts, "right")
  BY <1>0
<1>2. /\ AssetTypeOK /\ UNCHANGED <<allocs, status, known, others, sending>>
      /\ stock' = stock \cup {i} /\ minted' = [minted EXCEPT ![i] = amount]
  BY <1>1, TypeParts DEF InflateBegin, Inflates
<1>3. /\ i \in Outgoing /\ i \in Nodes /\ i \in Minters /\ <<i, 1>> \in External
  BY ColoredOutputs, NodeFacts DEF Outgoing, Minters
<1>4. Total(used) - amount \in Int
  BY AllocsSummable
<1> DEFINE rest == Total(used) - amount
           brings == {Alloc(<<i, 1>>, "token", amount, i)} \cup Change("right", rest, to, i)
<1> HIDE DEF rest
<1>9. /\ rest > 0 => to \in External
      /\ UNION {On(u) : u \in hosts} # used => to \in External
  BY <1>1, SealType DEF Inflates, rest
<1>5. brings \subseteq Allocations /\ IsFiniteSet(brings)
  <2>1. Alloc(<<i, 1>>, "token", amount, i) \in Allocations
    BY <1>3, AllocType DEF Kinds
  <2>2. /\ Change("right", rest, to, i) \subseteq Allocations
        /\ IsFiniteSet(Change("right", rest, to, i))
    <3>1. rest \in Int
      BY <1>4 DEF rest
    <3>. QED
      BY <1>3, <1>9, <3>1, AllocType DEF Kinds
  <2>. QED
    BY <2>1, <2>2, FS_Singleton, FS_Union
<1>6. used \subseteq UNION {On(u) : u \in hosts}
  BY <1>1, OfOn DEF OfKindOn
<1>7. Prepares(i, hosts, {fee}, used, to, brings, "token", 0) /\ "token" \in Kinds
  BY <1>1 DEF Inflates, Kinds, rest
<1> HIDE DEF brings
<1>8. /\ plan' \in [Outgoing -> PlanType] /\ parents' \in [Nodes -> SUBSET Nodes]
      /\ \A x \in Outgoing : IsFiniteSet(plan'[x].takes) /\ IsFiniteSet(plan'[x].brings)
  BY <1>3, <1>5, <1>6, <1>7, <1>9, PreparesType
<1>. QED
  BY <1>2, <1>3, <1>8 DEF AssetTypeOK, FiniteInv

LEMMA AttemptFacts ==
  ASSUME NEW s \in Sends, SendAttempt(s)
  PROVE  \/ RefusesSend(s)
         \/ \E hosts \in SUBSET External, used \in SUBSET allocs, fee \in SUBSET Free :
              /\ Attempts(s, hosts, used, fee) /\ used \subseteq Allowed(hosts)
              /\ \A u \in hosts : rows[u] = "there"
<1> SUFFICES ASSUME ~RefusesSend(s)
             PROVE  \E hosts \in SUBSET External, used \in SUBSET allocs, fee \in SUBSET Free :
                      /\ Attempts(s, hosts, used, fee) /\ used \subseteq Allowed(hosts)
                      /\ \A u \in hosts : rows[u] = "there"
  OBVIOUS
<1>1. PICK hosts, used, fee : Attempts(s, hosts, used, fee)
  BY AttemptCases
<1>2. /\ hosts \in SelectRgbInputs(sending.kind, sending.needed)
      /\ used \in Contributing(Allowed(hosts), sending.needed)
      /\ fee \in {{}} \cup {{u} : u \in Free}
  BY <1>1 DEF Attempts
<1>3. hosts \subseteq External /\ \A u \in hosts : rows[u] = "there"
  BY <1>2, SelectedHosts
<1>4. used \subseteq Allowed(hosts)
  BY <1>2, ContributingChoosesFrom
<1>5. Allowed(hosts) \subseteq allocs
  BY OfOn DEF Allowed
<1>6. fee \subseteq Free
  BY <1>2
<1>. QED
  BY <1>1, <1>3, <1>4, <1>5, <1>6

Sendings == [send : Sends \cup {"none"}, kind : Kinds, need : Nat, needed : Nat,
             rejected : SUBSET Allocations]

LEMMA SendBeginType ==
  ASSUME TypeOK, NEW s \in Sends, SendBegin(s) PROVE AssetTypeOK' /\ (FiniteInv => FiniteInv')
<1>1. AssetTypeOK /\ UNCHANGED <<allocs, status, plan, known, stock, minted, parents, others>>
  BY TypeParts DEF SendBegin
<1>2. PICK kind \in Kinds, amount \in 1..MaxAmount :
         sending' = [send |-> s, kind |-> kind, need |-> amount, needed |-> amount, rejected |-> {}]
  BY DEF SendBegin
<1>3. amount \in Nat
  BY AssetAssumption
<1>4. sending' \in Sendings /\ IsFiniteSet(sending'.rejected)
  BY <1>2, <1>3, FS_EmptySet DEF Sendings
<1>. QED
  BY <1>1, <1>4 DEF AssetTypeOK, Sendings, FiniteInv

LEMMA NoSendType == NoSend \in Sendings /\ IsFiniteSet(NoSend.rejected)
BY FS_EmptySet DEF NoSend, Sendings, Kinds

LEMMA RetryType ==
  ASSUME TypeOK, FiniteInv, NEW bad \in SUBSET allocs
  PROVE  /\ RetryWithout(sending, bad) \in Sendings
         /\ IsFiniteSet(RetryWithout(sending, bad).rejected)
         /\ RetryWithout(sending, bad) =
              [send |-> sending.send, kind |-> sending.kind, need |-> sending.need,
               needed |-> sending.needed + Total(bad), rejected |-> sending.rejected \cup bad]
<1>1. sending \in Sendings
  BY DEF TypeOK, Sendings
<1>2. Total(bad) \in Nat /\ IsFiniteSet(bad)
  BY AllocsSummable DEF Summable
<1> DEFINE more == sending.needed + Total(bad)
           out == sending.rejected \cup bad
<1>3. more \in Nat /\ out \in SUBSET Allocations /\ IsFiniteSet(out)
  <2>1. bad \subseteq Allocations /\ IsFiniteSet(sending.rejected)
    BY DEF TypeOK, FiniteInv
  <2>2. IsFiniteSet(out)
    BY <1>2, <2>1, FS_Union
  <2>. QED
    BY <1>1, <1>2, <2>1, <2>2 DEF Sendings
<1>4. RetryWithout(sending, bad) = [sending EXCEPT !.rejected = out, !.needed = more]
  BY <1>1 DEF RetryWithout, Sendings
<1> HIDE DEF more, out
<1>5. RetryWithout(sending, bad) = [send |-> sending.send, kind |-> sending.kind,
                                    need |-> sending.need, needed |-> more, rejected |-> out]
  BY <1>1, <1>4 DEF Sendings
<1>. QED
  BY <1>1, <1>3, <1>5 DEF Sendings, more, out

LEMMA SendAttemptType ==
  ASSUME TypeOK, FiniteInv, NEW s \in Sends, SendAttempt(s) PROVE AssetTypeOK' /\ FiniteInv'
<1>1. /\ AssetTypeOK /\ UNCHANGED <<allocs, known, stock, minted, others>>
      /\ s \in Outgoing /\ s \in Nodes /\ s \in Colored
      /\ sending \in Sendings
  BY TypeParts, ColoredOutputs, NodeFacts DEF SendAttempt, Outgoing, AssetTypeOK, Sendings
<1>2. CASE RefusesSend(s)
  <2>1. status' \in [Colored -> Statuses] /\ UNCHANGED <<plan, parents>> /\ sending' = NoSend
    BY <1>1, <1>2 DEF RefusesSend, AssetTypeOK, Statuses
  <2>. QED
    BY <1>1, <2>1, NoSendType DEF AssetTypeOK, FiniteInv, Sendings
<1>3. ASSUME NEW hosts \in SUBSET External, NEW used \in SUBSET allocs, NEW fee \in SUBSET Free,
             Attempts(s, hosts, used, fee), used \subseteq Allowed(hosts)
      PROVE  AssetTypeOK' /\ FiniteInv'
  <2>1. status' = status
    BY <1>3 DEF Attempts
  <2>2. CASE Retries(used) /\ UNCHANGED <<plan, parents>>
    <3>1. PICK bad \in SUBSET used : sending' = RetryWithout(sending, bad)
      BY <2>2 DEF Retries
    <3>2. sending' \in Sendings /\ IsFiniteSet(sending'.rejected)
      BY <3>1, RetryType
    <3>. QED
      BY <1>1, <2>1, <2>2, <3>2 DEF AssetTypeOK, FiniteInv, Sendings
  <2>4. CASE sending' = NoSend /\ UNCHANGED <<plan, parents>>
    BY <1>1, <2>1, <2>4, NoSendType DEF AssetTypeOK, FiniteInv, Sendings
  <2>3. ASSUME NEW to, Drafted(s, hosts, used, fee, to), sending' = NoSend
        PROVE  AssetTypeOK' /\ FiniteInv'
    <3>1. Total(used) - sending.need \in Int
      BY <1>1, AllocsSummable DEF Sendings
    <3>6. /\ Total(used) - sending.need > 0 => to \in External
          /\ UNION {On(u) : u \in hosts} # used => to \in External
      BY <2>3, SealType DEF Drafted, SendSeals
    <3>2. SendChange(s, used, to) \subseteq Allocations /\ IsFiniteSet(SendChange(s, used, to))
      <4> DEFINE rest == Total(used) - sending.need
      <4>1. rest \in Int /\ sending.kind \in Kinds /\ (rest > 0 => to \in External)
        BY <1>1, <3>1, <3>6 DEF Sendings
      <4> HIDE DEF rest
      <4>. QED
        BY <1>1, <4>1, AllocType DEF SendChange, rest
    <3>3. used \subseteq UNION {On(u) : u \in hosts}
      BY <1>3, OfOn DEF Allowed
    <3>4. sending.kind \in Kinds /\ sending.need \in Nat
      BY <1>1 DEF Sendings
    <3>5. /\ plan' \in [Outgoing -> PlanType] /\ parents' \in [Nodes -> SUBSET Nodes]
          /\ \A x \in Outgoing : IsFiniteSet(plan'[x].takes) /\ IsFiniteSet(plan'[x].brings)
      BY <1>1, <2>3, <3>2, <3>3, <3>4, <3>6, PreparesType DEF Drafted
    <3>. QED
      BY <1>1, <2>1, <2>3, <3>5, NoSendType DEF AssetTypeOK, FiniteInv, Sendings
  <2>. QED
    BY <1>3, <2>2, <2>3, <2>4 DEF Attempts
<1>. QED
  BY <1>2, <1>3, AttemptFacts

(* What a broadcast that is saved does to the asset.                       *)
SavesAsset(t) ==
  /\ allocs' = allocs \cup plan[t].brings
  /\ status' = [status EXCEPT ![t] = "WaitingConfirmations"]
  /\ known' = KnownInflated(t)
GivesAway(t) ==
  others' = IF t \in Sends
            THEN [others EXCEPT ![plan[t].kind][t] = plan[t].gives] ELSE others

LEMMA BroadcastFacts ==
  ASSUME NEW t \in Outgoing, EndBroadcast(t)
  PROVE  /\ GivesAway(t) /\ UNCHANGED <<inputs, plan, stock, minted, parents, sending>>
         /\ Ready /\ tx[t] = "prepared" /\ Published(t)
         /\ SavesAsset(t) \/ UNCHANGED <<allocs, status, known>>
BY DEF EndBroadcast, GivesAway, Saves, SavesAsset

LEMMA GivesAwayType ==
  ASSUME TypeOK, NEW t \in Outgoing, GivesAway(t) PROVE others' \in [Kinds -> [Origins -> Nat]]
<1>1. CASE t \in Sends
  <2> DEFINE kind == plan[t].kind
             gives == plan[t].gives
  <2>1. kind \in Kinds /\ gives \in Nat /\ t \in Origins
    BY <1>1 DEF TypeOK, Origins, Outgoing
  <2>2. others' = [others EXCEPT ![kind][t] = gives]
    BY <1>1 DEF GivesAway
  <2> HIDE DEF kind, gives
  <2>. QED
    BY <2>1, <2>2 DEF TypeOK
<1>2. CASE t \notin Sends
  BY <1>2 DEF GivesAway, TypeOK
<1>. QED
  BY <1>1, <1>2

LEMMA BroadcastType ==
  ASSUME TypeOK, FiniteInv, NEW t \in Outgoing, EndBroadcast(t), known # NoAsset
  PROVE  AssetTypeOK' /\ FiniteInv'
<1>1. AssetTypeOK /\ UNCHANGED <<plan, stock, minted, parents, sending>> /\ t \in Colored
  BY TypeParts, BroadcastFacts, NodeFacts
<1>2. others' \in [Kinds -> [Origins -> Nat]]
  BY BroadcastFacts, GivesAwayType
<1>3. CASE UNCHANGED <<allocs, status, known>>
  BY <1>1, <1>2, <1>3 DEF AssetTypeOK, FiniteInv
<1>4. CASE SavesAsset(t)
  <2>1. plan[t].brings \subseteq Allocations /\ IsFiniteSet(plan[t].brings)
    BY <1>1 DEF AssetTypeOK, PlanType, FiniteInv
  <2>2. allocs' \subseteq Allocations /\ IsFiniteSet(allocs')
    BY <1>1, <1>4, <2>1, FS_Union DEF SavesAsset, AssetTypeOK, FiniteInv
  <2>3. known' \in Nat
    <3>1. t \in Inflations => minted[t] \in Nat
      BY <1>1 DEF AssetTypeOK, Minters
    <3>. QED
      BY <1>1, <1>4, <3>1 DEF SavesAsset, KnownInflated, AssetTypeOK
  <2>4. status' \in [Colored -> Statuses]
    BY <1>1, <1>4 DEF SavesAsset, AssetTypeOK, Statuses
  <2>. QED
    BY <1>1, <1>2, <2>2, <2>3, <2>4 DEF AssetTypeOK, FiniteInv
<1>. QED
  BY <1>3, <1>4, BroadcastFacts

-----------------------------------------------------------------------------
(* What every step leaves: a transaction keeps its inputs and stays        *)
(* public, a spent row stays spent and gets there by a public transaction. *)

TxProgress ==
  /\ \A x \in Txs : Public(x) => Public(x)'
  /\ \A x \in Txs : tx[x] # "none" => tx'[x] # "none" /\ inputs'[x] = inputs[x]
RowProgress ==
  /\ \A u \in External : rows[u] = "spent" => rows'[u] = "spent"
  /\ \A u \in External : rows'[u] = "spent" =>
        rows[u] = "spent" \/ \E x \in Txs : Public(x)' /\ u \in inputs'[x]
ChainProgress == TxProgress /\ RowProgress

LEMMA SameRows ==
  ASSUME \A u \in External : rows'[u] = "spent" <=> rows[u] = "spent" PROVE RowProgress
BY DEF RowProgress

LEMMA SyncedRows ==
  ASSUME ChainTypeOK, Synced \/ NotSynced PROVE RowProgress
<1>1. CASE Synced
  <2>1. \A u \in External : rows'[u] = IF u \in UnspentIn(graph') THEN Noted(rows[u]) ELSE rows[u]
    BY <1>1 DEF Synced, NotedRows
  <2>2. \A u \in External : rows'[u] = "spent" <=> rows[u] = "spent"
    BY <2>1 DEF Noted
  <2>. QED
    BY <2>2, SameRows
<1>2. CASE NotSynced
  BY <1>2, SameRows DEF NotSynced
<1>. QED
  BY <1>1, <1>2

LEMMA BroadcastRows ==
  ASSUME NEW t \in Txs, Public(t)', inputs' = inputs, NEW skipSync \in BOOLEAN,
         NEW b \in Broadcasts(t, skipSync, Indexed')
  PROVE  /\ \A u \in External : rows[u] = "spent" => b.rows[u] = "spent"
         /\ \A u \in External \cap inputs[t] : b.rows[u] = "spent"
         /\ \A u \in External : b.rows[u] = "spent" => rows[u] = "spent" \/ u \in inputs[t]
<1>1. PICK g \in IF skipSync THEN {graph} ELSE SyncedGraphs(graph, Indexed') :
         b = [graph |-> Observed(g, t),
              rows  |-> IF skipSync THEN SpendRows(rows, t) ELSE NotedRows(SpendRows(rows, t), g)]
  BY DEF Broadcasts
<1>2. \A u \in External : b.rows[u] = SpendRows(rows, t)[u]
                          \/ b.rows[u] = Noted(SpendRows(rows, t)[u])
  BY <1>1 DEF NotedRows
<1>3. \A u \in External : b.rows[u] = "spent" <=> SpendRows(rows, t)[u] = "spent"
  BY <1>2 DEF Noted
<1>. QED
  BY <1>3 DEF SpendRows

LEMMA OutcomeRows ==
  ASSUME NEW t \in Txs, Public(t)', inputs' = inputs, NEW skipSync \in BOOLEAN,
         BroadcastPanics(t) \/ BroadcastSyncFails(t) \/ BroadcastCompletes(t, skipSync)
  PROVE  RowProgress
<1>1. CASE BroadcastPanics(t)
  BY <1>1 DEF BroadcastPanics, RowProgress
<1>2. CASE BroadcastSyncFails(t)
  BY <1>2 DEF BroadcastSyncFails, SpendRows, RowProgress
<1>3. CASE BroadcastCompletes(t, skipSync)
  <2>1. PICK b \in Broadcasts(t, skipSync, Indexed') : rows' = b.rows
    BY <1>3 DEF BroadcastCompletes
  <2>. QED
    BY <2>1, BroadcastRows DEF RowProgress
<1>. QED
  BY <1>1, <1>2, <1>3

LEMMA PublishProgress ==
  ASSUME ChainTypeOK, NEW t \in Txs, tx[t] # "none", Published(t) \/ Index(t), inputs' = inputs
  PROVE  TxProgress /\ Public(t)'
<1>1. \E now \in {"public", "indexed"} : tx' = [tx EXCEPT ![t] = now]
  BY DEF Published, Index
<1>. QED
  BY <1>1 DEF ChainTypeOK, TxProgress, Public

LEMMA PrepareProgress ==
  ASSUME ChainTypeOK, NEW t \in Txs, tx[t] = "none", NEW spends,
         tx' = [tx EXCEPT ![t] = "prepared"], inputs' = [inputs EXCEPT ![t] = spends]
  PROVE  TxProgress
BY DEF ChainTypeOK, TxProgress, Public

LEMMA VanillaProgress ==
  ASSUME ChainTypeOK, VanillaNext PROVE ChainProgress
<1>1. CASE Sync
  BY <1>1, SyncedRows DEF Sync, ChainProgress, TxProgress, Public
<1>2. ASSUME NEW t \in Txs, NEW spends, VanillaBegins(t, spends), Synced \/ NotSynced, tx[t] = "none"
      PROVE  ChainProgress
  BY <1>2, SyncedRows, PrepareProgress DEF VanillaBegins, ChainProgress
<1>3. ASSUME NEW t \in Txs, NEW skipSync \in BOOLEAN, VanillaEnds(t, skipSync) PROVE ChainProgress
  <2>1. inputs' = inputs
    BY <1>3 DEF VanillaEnds
  <2>2. TxProgress /\ Public(t)'
    <3>1. CASE tx[t] = "prepared" /\ Published(t)
      BY <2>1, <3>1, PublishProgress
    <3>2. CASE tx[t] = "indexed" /\ UNCHANGED tx
      BY <2>1, <3>2 DEF TxProgress, Public
    <3>. QED
      BY <1>3, <3>1, <3>2 DEF VanillaEnds
  <2>3. RowProgress
    BY <1>3, <2>1, <2>2, OutcomeRows DEF VanillaEnds
  <2>. QED
    BY <2>2, <2>3 DEF ChainProgress
<1>4. \A t \in Creates \cup Payments : t \in Txs
  BY VanillaFacts DEF Vanilla
<1>5. ASSUME NEW t \in Creates, CreateUtxosBegin(t) \/ CreateUtxosEnd(t) PROVE ChainProgress
  BY <1>2, <1>3, <1>4, <1>5 DEF CreateUtxosBegin, CreateUtxosEnd
<1>6. ASSUME NEW t \in Payments,
             SendBtcBegin(t) \/ DrainToBegin(t) \/ SendBtcEnd(t) \/ DrainToEnd(t)
      PROVE  ChainProgress
  BY <1>2, <1>3, <1>4, <1>6 DEF SendBtcBegin, DrainToBegin, SendBtcEnd, DrainToEnd
<1>. QED
  BY <1>1, <1>5, <1>6 DEF VanillaNext

LEMMA BroadcastProgress ==
  ASSUME ChainTypeOK, NEW t \in Outgoing, EndBroadcast(t)
  PROVE  /\ ChainProgress /\ Public(t)' /\ ~Public(t) /\ Acceptable(t)
         /\ \/ SavesAsset(t) /\ \A u \in External \cap inputs[t] : rows'[u] = "spent"
            \/ UNCHANGED <<allocs, status, known>>
<1>1. t \in Txs /\ tx[t] = "prepared" /\ Published(t) /\ inputs' = inputs /\ Acceptable(t)
  BY ColoredOutputs DEF EndBroadcast
<1>2. TxProgress /\ Public(t)' /\ ~Public(t)
  BY <1>1, PublishProgress DEF Public
<1>3. CASE (BroadcastPanics(t) \/ BroadcastSyncFails(t)) /\ UNCHANGED <<allocs, status, known>>
  BY <1>1, <1>2, <1>3, OutcomeRows DEF ChainProgress
<1>4. ASSUME NEW b \in Broadcasts(t, FALSE, Indexed'), Saves(t, b.rows)
      PROVE  /\ RowProgress
             /\ \/ SavesAsset(t) /\ \A u \in External \cap inputs[t] : rows'[u] = "spent"
                \/ UNCHANGED <<allocs, status, known>>
  <2>1. /\ \A u \in External : rows[u] = "spent" => b.rows[u] = "spent"
        /\ \A u \in External \cap inputs[t] : b.rows[u] = "spent"
        /\ \A u \in External : b.rows[u] = "spent" => rows[u] = "spent" \/ u \in inputs[t]
    BY <1>1, <1>2, BroadcastRows
  <2>2. CASE UNCHANGED <<rows, allocs, status, known>>
    BY <2>2 DEF RowProgress
  <2>3. CASE /\ rows' = [u \in External |-> IF u = ChangeOf(t) /\ b.rows[u] = "none"
                                            THEN "expected" ELSE b.rows[u]]
             /\ SavesAsset(t)
    <3>1. \A u \in External : rows'[u] = "spent" <=> b.rows[u] = "spent"
      BY <2>3
    <3>. QED
      BY <1>1, <1>2, <2>1, <2>3, <3>1 DEF RowProgress
  <2>. QED
    BY <1>4, <2>2, <2>3 DEF Saves, SavesAsset
<1>. QED
  BY <1>1, <1>2, <1>3, <1>4 DEF EndBroadcast, ChainProgress

(* The rows and transactions of the other steps.                           *)
LEMMA WaitProgress ==
  ASSUME ChainTypeOK, NEW r \in Receives, WaitConsignment(r) PROVE ChainProgress
<1>1. /\ UNCHANGED <<tx, inputs>> /\ <<r, 1>> \in External
      /\ \/ rows' = rows
         \/ rows' = [rows EXCEPT ![<<r, 1>>] = IF @ = "none" THEN "expected" ELSE @]
  BY ReceivedOutput DEF WaitConsignment
<1>2. \A u \in External : rows'[u] = "spent" <=> rows[u] = "spent"
  BY <1>1 DEF ChainTypeOK
<1>. QED
  BY <1>1, <1>2, SameRows DEF ChainProgress, TxProgress, Public

LEMMA PreparedProgress ==
  ASSUME ChainTypeOK, NEW t \in Outgoing, tx[t] = "none", NEW hosts, NEW fee, NEW used, NEW to, NEW brings,
         NEW kind, NEW gives, Prepares(t, hosts, fee, used, to, brings, kind, gives), rows' = rows
  PROVE  ChainProgress
<1>1. /\ tx' = [tx EXCEPT ![t] = "prepared"] /\ inputs' = [inputs EXCEPT ![t] = hosts \cup fee]
      /\ t \in Txs
  BY ColoredOutputs DEF Prepares
<1>. QED
  BY <1>1, PrepareProgress, SameRows DEF ChainProgress

LEMMA SameChainProgress ==
  ASSUME UNCHANGED <<tx, inputs, rows>> PROVE ChainProgress
BY SameRows DEF ChainProgress, TxProgress, Public

LEMMA ChainProgresses ==
  ASSUME ChainTypeOK, SendInv, [Next]_vars PROVE ChainProgress
<1>1. ASSUME NEW t \in Txs, Index(t) PROVE ChainProgress
  BY <1>1, PublishProgress, SameRows DEF Index, ChainProgress
<1>2. ASSUME NEW r \in Receives, Pay(r) PROVE ChainProgress
  <2>1. r \in Txs /\ tx[r] = "none" /\ tx' = [tx EXCEPT ![r] = "public"] /\ UNCHANGED <<inputs, rows>>
    BY <1>2, ReceivedOutput DEF Pay, Paid
  <2>2. TxProgress
    BY <2>1 DEF TxProgress, Public, ChainTypeOK
  <2>. QED
    BY <2>1, <2>2, SameRows DEF ChainProgress
<1>3. ASSUME NEW r \in Receives, ReceiveSettles(r) PROVE ChainProgress
  <2>1. UNCHANGED <<tx, inputs>> /\ (Synced \/ NotSynced)
    BY <1>3 DEF ReceiveSettles
  <2>. QED
    BY <2>1, SyncedRows DEF ChainProgress, TxProgress, Public
<1>4. ASSUME NEW i \in Inflations, InflateBegin(i) PROVE ChainProgress
  <2>0. PICK amount \in Nat, hosts \in SUBSET External, fee \in Free, used \in SUBSET allocs :
           \E to : Inflates(i, amount, hosts, fee, used, to)
    BY <1>4, InflateFacts
  <2>1. PICK to : Inflates(i, amount, hosts, fee, used, to)
    BY <2>0
  <2>2. i \in Outgoing /\ tx[i] = "none" /\ rows' = rows
    BY <1>4 DEF Outgoing, InflateBegin
  <2>. QED
    BY <2>1, <2>2, PreparedProgress DEF Inflates
<1>5. ASSUME NEW s \in Sends, SendAttempt(s) PROVE ChainProgress
  <2>1. s \in Outgoing /\ tx[s] = "none" /\ rows' = rows
    BY <1>5 DEF SendAttempt, SendInv, Outgoing
  <2>2. CASE RefusesSend(s)
    BY <2>1, <2>2, SameChainProgress DEF RefusesSend
  <2>3. ASSUME NEW hosts \in SUBSET External, NEW used \in SUBSET allocs, NEW fee \in SUBSET Free,
               Attempts(s, hosts, used, fee)
        PROVE  ChainProgress
    <3>1. ASSUME NEW to, Drafted(s, hosts, used, fee, to) PROVE ChainProgress
      BY <2>1, <3>1, PreparedProgress DEF Drafted
    <3>. QED
      BY <2>1, <2>3, <3>1, SameChainProgress DEF Attempts
  <2>. QED
    BY <1>5, <2>2, <2>3, AttemptFacts
<1>6. CASE UNCHANGED <<tx, inputs, rows>>
  BY <1>6, SameChainProgress
<1>7. ASSUME NEW r \in Receives, WaitConsignment(r) PROVE ChainProgress
  BY <1>7, WaitProgress
<1>8. ASSUME NEW t \in Outgoing, EndBroadcast(t) PROVE ChainProgress
  BY <1>8, BroadcastProgress
<1>9. ASSUME UNCHANGED chainVars PROVE ChainProgress
  BY <1>6, <1>9 DEF chainVars
<1>10. CASE IssueAssetIfa \/ IssuedElsewhere \/ SendAborted \/ UNCHANGED vars
  BY <1>9, <1>10 DEF IssueAssetIfa, IssuedElsewhere, SendAborted, vars
<1>11. ASSUME NEW o \in OthersInflations, OthersInflate(o) PROVE ChainProgress
  BY <1>9, <1>11 DEF OthersInflate
<1>12. ASSUME NEW s \in Sends, SendBegin(s) PROVE ChainProgress
  BY <1>9, <1>12 DEF SendBegin
<1>13. ASSUME NEW t \in Outgoing, OutgoingSettles(t) PROVE ChainProgress
  BY <1>9, <1>13 DEF OutgoingSettles
<1>. QED
  BY <1>1, <1>2, <1>3, <1>4, <1>5, <1>7, <1>8, <1>10, <1>11, <1>12, <1>13, VanillaProgress
  DEF Next, NetworkNext, Outgoing

(* What happened stays: receives that began, inflations by others, and     *)
(* that the wallet knows the asset.                                        *)
AssetProgress ==
  /\ \A r \in Receives : status[r] # "none" => status'[r] # "none"
  /\ \A o \in OthersInflations : minted[o] > 0 => minted'[o] > 0
  /\ known # NoAsset => known' # NoAsset

LEMMA AssetProgresses ==
  ASSUME TypeOK, FiniteInv, [Next]_vars PROVE AssetProgress
<1>1. /\ AssetTypeOK /\ \A r \in Receives : r \in Colored /\ r \notin Outgoing
      /\ \A i \in Inflations : i \notin OthersInflations
      /\ \A S \in SUBSET Minters : Supply(S) \in Nat
  BY TypeParts, NodeFacts, SupplyType, AssetAssumption DEF AssetTypeOK, Outgoing
<1>2. CASE UNCHANGED <<status, minted, known>>
  BY <1>2 DEF AssetProgress
<1>3. CASE UNCHANGED assetVars
  BY <1>2, <1>3 DEF assetVars
<1>4. CASE IssueAssetIfa
  BY <1>4, AssetAssumption DEF IssueAssetIfa, AssetProgress, NoAsset
<1>5. CASE IssuedElsewhere \/ SendAborted \/ \E s \in Sends : SendBegin(s)
  BY <1>2, <1>5 DEF IssuedElsewhere, SendAborted, SendBegin
<1>6. ASSUME NEW o \in OthersInflations, OthersInflate(o) PROVE AssetProgress
  <2>1. PICK from \in Origins, amount \in Nat : InflatesFrom(o, from, amount)
    BY <1>1, <1>6, OthersFacts
  <2>2. minted' = [minted EXCEPT ![o] = amount] /\ UNCHANGED <<status, known>>
    BY <1>6, <2>1 DEF InflatesFrom, OthersInflate
  <2>3. amount > 0
    BY <2>1 DEF InflatesFrom
  <2>. QED
    BY <1>1, <2>2, <2>3 DEF AssetProgress, AssetTypeOK, Minters
<1>7. ASSUME NEW r \in Receives, WaitConsignment(r) PROVE AssetProgress
  <2>1. PICK o \in Origins, kind \in Kinds, amount \in Nat : ReceivesFrom(r, o, kind, amount)
    BY <1>1, <1>7, WaitFacts
  <2>2. /\ status' \in {[status EXCEPT ![r] = "WaitingConfirmations"], [status EXCEPT ![r] = "Failed"]}
        /\ minted' = minted /\ known' \in {known, KnownFrom(Heard(parents', r))}
    BY <1>7, <2>1 DEF ReceivesFrom, Accepts, Refuses, WaitConsignment
  <2>. QED
    BY <1>1, <2>2 DEF AssetProgress, AssetTypeOK, KnownFrom
<1>8. ASSUME NEW r \in Receives, ReceiveSettles(r) PROVE AssetProgress
  <2>1. /\ status' = [status EXCEPT ![r] = "Settled"] /\ minted' = minted
        /\ known' = KnownAfter(stock') /\ stock' = stock \cup Heard(parents, r)
    BY <1>8 DEF ReceiveSettles
  <2>2. Supply(stock') \in Nat
    BY <1>1, <2>1, HeardType DEF AssetTypeOK
  <2>. QED
    BY <1>1, <2>1, <2>2 DEF AssetProgress, AssetTypeOK, KnownAfter, NoAsset
<1>9. ASSUME NEW i \in Inflations, InflateBegin(i) PROVE AssetProgress
  <2>0. PICK amount \in Nat, hosts \in SUBSET External, fee \in Free, used \in SUBSET allocs :
           \E to : Inflates(i, amount, hosts, fee, used, to)
    BY <1>9, InflateFacts
  <2>1. PICK to : Inflates(i, amount, hosts, fee, used, to)
    BY <2>0
  <2>2. minted' = [minted EXCEPT ![i] = amount] /\ UNCHANGED <<status, known>>
    BY <1>9, <2>1 DEF Inflates, InflateBegin
  <2>. QED
    BY <1>1, <2>2 DEF AssetProgress, AssetTypeOK, Minters
<1>10. ASSUME NEW s \in Sends, SendAttempt(s) PROVE AssetProgress
  <2>1. s \notin Receives /\ UNCHANGED <<minted, known>>
        /\ status' \in {status, [status EXCEPT ![s] = "Refused"]}
    BY <1>10, AssetAssumption DEF SendAttempt
  <2>. QED
    BY <1>1, <2>1 DEF AssetProgress, AssetTypeOK
<1>11. ASSUME NEW t \in Outgoing, EndBroadcast(t) PROVE AssetProgress
  <2>1. minted' = minted /\ (SavesAsset(t) \/ UNCHANGED <<allocs, status, known>>)
    BY <1>11, BroadcastFacts
  <2>2. CASE SavesAsset(t)
    <3>1. t \in Inflations => minted[t] \in Nat
      BY <1>1 DEF AssetTypeOK, Minters
    <3>. QED
      BY <1>1, <2>1, <2>2, <3>1 DEF AssetProgress, AssetTypeOK, SavesAsset, KnownInflated, NoAsset
  <2>. QED
    BY <1>2, <2>1, <2>2
<1>12. ASSUME NEW t \in Outgoing, OutgoingSettles(t) PROVE AssetProgress
  <2>1. status' = [status EXCEPT ![t] = "Settled"] /\ UNCHANGED <<minted, known>>
    BY <1>12 DEF OutgoingSettles
  <2>. QED
    BY <1>1, <2>1 DEF AssetProgress, AssetTypeOK
<1>. QED
  BY <1>3, <1>4, <1>5, <1>6, <1>7, <1>8, <1>9, <1>10, <1>11, <1>12 DEF Next, Outgoing, Pay, vars

(* Before the wallet knows the asset it has nothing of it.                 *)
IssueInv ==
  known = NoAsset =>
    /\ allocs = {} /\ sending.send \notin Sends /\ \A t \in Outgoing : tx[t] = "none"
    /\ \A r \in Receives : status[r] \in {"none", "Failed"}

LEMMA IssueStep ==
  ASSUME TypeOK, FiniteInv, SendInv, IssueInv, [Next]_vars PROVE IssueInv'
<1>1. SUFFICES ASSUME known' = NoAsset
               PROVE  /\ allocs' = {} /\ sending'.send \notin Sends
                      /\ \A t \in Outgoing : tx'[t] = "none"
                      /\ \A r \in Receives : status'[r] \in {"none", "Failed"}
  BY DEF IssueInv
<1>2. /\ known = NoAsset /\ allocs = {} /\ sending.send \notin Sends
      /\ \A t \in Outgoing : tx[t] = "none" /\ t \in Txs
      /\ \A r \in Receives : status[r] \in {"none", "Failed"} /\ r \in Colored /\ r \in Txs
      /\ AssetTypeOK /\ ChainTypeOK
  BY <1>1, AssetProgresses, TypeParts, ColoredOutputs, ReceivedOutput DEF IssueInv, AssetProgress
<1>3. CASE UNCHANGED <<allocs, sending, status>> /\ \A t \in Outgoing : tx'[t] = tx[t]
  BY <1>2, <1>3
<1>4. ASSUME NEW t \in Txs, Index(t), UNCHANGED assetVars
      PROVE  UNCHANGED <<allocs, sending, status>> /\ \A x \in Outgoing : tx'[x] = tx[x]
  BY <1>2, <1>4 DEF Index, assetVars, ChainTypeOK
<1>5. ASSUME VanillaNext, UNCHANGED assetVars
      PROVE  UNCHANGED <<allocs, sending, status>> /\ \A x \in Outgoing : tx'[x] = tx[x]
  <2>1. UNCHANGED tx \/ \E t \in Creates \cup Payments : \E now \in TxStates : tx' = [tx EXCEPT ![t] = now]
    <3>1. \A t : Published(t) => \E now \in TxStates : tx' = [tx EXCEPT ![t] = now]
      BY DEF Published, TxStates
    <3>. QED
      BY <1>5, <3>1 DEF VanillaNext, Sync, CreateUtxosBegin, CreateUtxosEnd, SendBtcBegin, DrainToBegin,
        SendBtcEnd, DrainToEnd, VanillaBegins, VanillaEnds, TxStates
  <2>. QED
    BY <1>2, <1>5, <2>1, VanillaFacts DEF assetVars, Vanilla, ChainTypeOK
<1>6. CASE IssueAssetIfa
  BY <1>1, <1>6, AssetAssumption DEF IssueAssetIfa, NoAsset
<1>7. CASE IssuedElsewhere \/ \E o \in OthersInflations : OthersInflate(o)
  BY <1>3, <1>7 DEF IssuedElsewhere, OthersInflate, chainVars
<1>8. ASSUME NEW r \in Receives, WaitConsignment(r)
      PROVE  /\ UNCHANGED <<allocs, sending, tx>> /\ status' = [status EXCEPT ![r] = "Failed"]
  <2>1. PICK o \in Origins, kind \in Kinds, amount \in Nat : ReceivesFrom(r, o, kind, amount)
    BY <1>2, <1>8, WaitFacts
  <2>2. ~Accepts(r, o, kind, amount)
    <3>1. Supply(Heard(parents', r)) \in Nat
      BY <1>2, SupplyType, HeardType DEF AssetTypeOK
    <3>. QED
      BY <1>1, <1>2, <3>1 DEF Accepts, KnownFrom, NoAsset
  <2>. QED
    BY <1>8, <2>1, <2>2 DEF ReceivesFrom, Refuses, WaitConsignment
<1>9. ASSUME NEW r \in Receives, Pay(r) \/ ReceiveSettles(r) PROVE FALSE
  BY <1>2, <1>9 DEF Pay, ReceiveSettles
<1>10. ASSUME NEW i \in Inflations, InflateBegin(i) PROVE FALSE
  BY <1>2, <1>10 DEF InflateBegin
<1>11. ASSUME NEW s \in Sends, SendBegin(s) \/ SendAttempt(s) PROVE FALSE
  BY <1>2, <1>11 DEF SendBegin, SendAttempt
<1>12. CASE SendAborted
  BY <1>2, <1>12, NoSendInv DEF SendAborted, chainVars
<1>13. ASSUME NEW t \in Outgoing, EndBroadcast(t) PROVE FALSE
  BY <1>2, <1>13 DEF EndBroadcast
<1>14. ASSUME NEW t \in Outgoing, OutgoingSettles(t)
       PROVE  /\ UNCHANGED <<allocs, sending, tx>> /\ \A r \in Receives : status'[r] = status[r]
  <2>1. \A r \in Receives : r # t
    BY NodeFacts
  <2>. QED
    BY <1>2, <1>14, <2>1 DEF OutgoingSettles, chainVars, AssetTypeOK
<1>15. CASE UNCHANGED vars
  BY <1>3, <1>15 DEF vars, chainVars, assetVars
<1>16. ASSUME NEW r \in Receives, WaitConsignment(r)
       PROVE  \A x \in Receives : status'[x] \in {"none", "Failed"}
  BY <1>2, <1>8, <1>16 DEF AssetTypeOK
<1>. QED
  BY <1>2, <1>3, <1>4, <1>5, <1>6, <1>7, <1>8, <1>9, <1>10, <1>11, <1>12, <1>13, <1>14, <1>15, <1>16
  DEF Next, NetworkNext, Outgoing

LEMMA AssetTypeStep ==
  ASSUME TypeOK, FiniteInv, IssueInv, [Next]_vars PROVE AssetTypeOK' /\ FiniteInv'
<1>1. AssetTypeOK
  BY TypeParts
<1>2. CASE UNCHANGED <<allocs, plan, known, stock, minted, parents, sending>>
           /\ status' \in [Colored -> Statuses] /\ others' \in [Kinds -> [Origins -> Nat]]
  BY <1>1, <1>2 DEF AssetTypeOK, FiniteInv
<1>3. CASE UNCHANGED assetVars
  BY <1>1, <1>2, <1>3 DEF assetVars, AssetTypeOK
<1>4. CASE IssueAssetIfa
  BY <1>4, IssueType
<1>5. CASE IssuedElsewhere
  <2>1. Issue \in Origins /\ {"token", "right"} = Kinds
    BY DEF Origins, Kinds
  <2>2. others' \in [Kinds -> [Origins -> Nat]]
    BY <1>1, <1>5, <2>1, AssetAssumption DEF IssuedElsewhere, AssetTypeOK
  <2>. QED
    BY <1>1, <1>2, <1>5, <2>2 DEF IssuedElsewhere, AssetTypeOK
<1>6. ASSUME NEW o \in OthersInflations, OthersInflate(o) PROVE AssetTypeOK' /\ FiniteInv'
  <2>1. UNCHANGED <<allocs, plan, sending>>
    BY <1>6 DEF OthersInflate
  <2>. QED
    BY <1>6, <2>1, OthersType DEF FiniteInv
<1>7. ASSUME NEW r \in Receives, ReceiveSettles(r) PROVE AssetTypeOK' /\ FiniteInv'
  <2>1. UNCHANGED <<allocs, plan, sending>>
    BY <1>7 DEF ReceiveSettles
  <2>. QED
    BY <1>7, <2>1, ReceiveType DEF FiniteInv
<1>8. CASE SendAborted
  <2>1. UNCHANGED <<allocs, status, plan, known, stock, minted, parents, others>> /\ sending' = NoSend
    BY <1>8 DEF SendAborted
  <2>. QED
    BY <1>1, <2>1, NoSendType DEF AssetTypeOK, FiniteInv, Sendings
<1>9. ASSUME NEW t \in Outgoing, EndBroadcast(t) PROVE AssetTypeOK' /\ FiniteInv'
  <2>1. known # NoAsset
    BY <1>9 DEF IssueInv, EndBroadcast
  <2>. QED
    BY <1>9, <2>1, BroadcastType
<1>10. ASSUME NEW t \in Outgoing, OutgoingSettles(t) PROVE AssetTypeOK' /\ FiniteInv'
  <2>1. status' \in [Colored -> Statuses]
    BY <1>1, <1>10 DEF OutgoingSettles, AssetTypeOK, Statuses
  <2>. QED
    BY <1>1, <1>2, <1>10, <2>1 DEF OutgoingSettles, AssetTypeOK
<1>11. ASSUME NEW r \in Receives, WaitConsignment(r) PROVE AssetTypeOK' /\ FiniteInv'
  BY <1>11, WaitType
<1>12. ASSUME NEW i \in Inflations, InflateBegin(i) PROVE AssetTypeOK' /\ FiniteInv'
  BY <1>12, InflateType
<1>13. ASSUME NEW s \in Sends, SendBegin(s) \/ SendAttempt(s) PROVE AssetTypeOK' /\ FiniteInv'
  BY <1>13, SendBeginType, SendAttemptType
<1>. QED
  BY <1>3, <1>4, <1>5, <1>6, <1>7, <1>8, <1>9, <1>10, <1>11, <1>12, <1>13
  DEF Next, Outgoing, Pay, vars

-----------------------------------------------------------------------------
(* Every reachable state has the types that the module declares; that it   *)
(* has needs the wallet to know an asset before it broadcasts anything of  *)
(* it, which IssueInv says.                                                *)
TypeInv == TypeOK /\ FiniteInv /\ IInv /\ SendInv /\ IssueInv

LEMMA TypeInvInit == Init => TypeInv
<1> SUFFICES ASSUME Init PROVE TypeInv
  OBVIOUS
<1>1. sending = NoSend /\ allocs = {} /\ \A r \in Receives : status[r] = "none"
  BY NodeFacts DEF Init
<1>2. \A t \in Outgoing : tx[t] = "none"
  BY ColoredOutputs, TransactionsAssumption DEF Init, ChainInit
<1>3. SendInv /\ IssueInv
  BY <1>1, <1>2, NoSendInv DEF SendInv, IssueInv
<1>. QED
  BY <1>3, TypeInit, InvInit DEF TypeInv

LEMMA TypeInvStep == TypeInv /\ [Next]_vars => TypeInv'
<1> SUFFICES ASSUME TypeInv, [Next]_vars PROVE TypeInv'
  OBVIOUS
<1>1. AssetTypeOK' /\ FiniteInv'
  BY AssetTypeStep DEF TypeInv
<1>2. IInv' /\ SendInv'
  BY InvStep, SendStep DEF TypeInv, IInv, ChainInv
<1>3. IssueInv'
  BY IssueStep DEF TypeInv
<1>4. ChainTypeOK'
  BY <1>2 DEF IInv, ChainInv
<1>5. TypeOK'
  BY <1>1, <1>4 DEF TypeOK, AssetTypeOK, Outgoing, PlanType
<1>. QED
  BY <1>1, <1>2, <1>3, <1>5 DEF TypeInv

THEOREM AssetHasItsTypes == Spec => []TypeOK
<1>1. TypeInv => TypeOK
  BY DEF TypeInv
<1>. QED
  BY <1>1, TypeInvInit, TypeInvStep, PTL DEF Spec

-----------------------------------------------------------------------------
(* Where allocations come from, and that the UTXOs that are not spent hold *)
(* one of each kind and source at most.                                    *)

(* The transfers that allocations may come from.                           *)
Begun == {t \in Outgoing : Public(t)} \cup {r \in Receives : status[r] # "none"}

SpentInv == \A u \in External : rows[u] = "spent" => \E x \in Txs : Public(x) /\ u \in inputs[x]
StatusInv ==
  \A t \in Outgoing : status[t] \in {"WaitingConfirmations", "Settled"} => Public(t)
OriginInv == \A k \in allocs : {k.source, k.by} \subseteq {Issue} \cup Begun
Same(j, k) == j.kind = k.kind /\ j.source = k.source
OneInv ==
  \A j, k \in allocs : Same(j, k) /\ rows[j.txo] # "spent" /\ rows[k.txo] # "spent" => j = k

(* What a prepared transaction takes is on its inputs and settled; what it *)
(* brings is new or has the source of something that it takes.             *)
GoodPlan(t) ==
  /\ \A k \in plan[t].takes : k \in allocs /\ k.txo \in inputs[t] /\ IsSettled(k)
  /\ \A b \in plan[t].brings :
        b.by = t /\ (b.source = t \/ \E k \in plan[t].takes : Same(b, k))
  /\ \A b, c \in plan[t].brings : Same(b, c) => b = c
PlanInv == \A t \in Outgoing : tx[t] = "prepared" => GoodPlan(t)

(* The steps that change neither allocations nor plans.                    *)
Quiet ==
  /\ UNCHANGED <<allocs, plan>>
  /\ \A t \in Outgoing : tx'[t] = "prepared" => tx[t] = "prepared" /\ inputs'[t] = inputs[t]
Loud ==
  \/ IssueAssetIfa \/ (\E r \in Receives : WaitConsignment(r))
  \/ (\E i \in Inflations : InflateBegin(i)) \/ (\E s \in Sends : SendAttempt(s))
  \/ (\E t \in Outgoing : EndBroadcast(t))

LEMMA VanillaQuiet ==
  ASSUME ChainTypeOK, VanillaNext PROVE \A t \in Outgoing : tx'[t] = tx[t] /\ inputs'[t] = inputs[t]
<1>1. /\ \/ UNCHANGED tx
         \/ \E t \in Vanilla : \E now \in TxStates : tx' = [tx EXCEPT ![t] = now]
      /\ UNCHANGED inputs \/ \E t \in Vanilla : \E spends : inputs' = [inputs EXCEPT ![t] = spends]
  <2>1. \A t : Published(t) => \E now \in TxStates : tx' = [tx EXCEPT ![t] = now]
    BY DEF Published, TxStates
  <2>. QED
    BY <2>1 DEF VanillaNext, Sync, CreateUtxosBegin, CreateUtxosEnd, SendBtcBegin, DrainToBegin,
      SendBtcEnd, DrainToEnd, VanillaBegins, VanillaEnds, TxStates, Vanilla
<1>2. \A t \in Outgoing : t \in Txs /\ t \notin Vanilla
  BY VanillaFacts, ColoredOutputs
<1>. QED
  BY <1>1, <1>2 DEF ChainTypeOK

LEMMA StepKinds ==
  ASSUME TypeInv, [Next]_vars PROVE Quiet \/ Loud
<1>1. ChainTypeOK /\ \A t \in Outgoing : t \in Txs /\ t \notin Receives
  BY ColoredOutputs, NodeFacts DEF TypeInv, TypeOK
<1>2. ASSUME UNCHANGED <<allocs, plan, tx, inputs>> PROVE Quiet
  BY <1>2 DEF Quiet
<1>3. ASSUME NEW t \in Txs, Index(t), UNCHANGED assetVars PROVE Quiet
  BY <1>1, <1>3 DEF Index, assetVars, ChainTypeOK, Quiet
<1>4. ASSUME VanillaNext, UNCHANGED assetVars PROVE Quiet
  BY <1>1, <1>4, VanillaQuiet DEF assetVars, Quiet
<1>5. ASSUME NEW r \in Receives, Pay(r) PROVE Quiet
  BY <1>1, <1>5 DEF Pay, Paid, assetVars, Quiet, ChainTypeOK
<1>6. ASSUME NEW r \in Receives, ReceiveSettles(r) PROVE Quiet
  <2>1. UNCHANGED <<allocs, plan, tx, inputs>>
    BY <1>6 DEF ReceiveSettles
  <2>. QED
    BY <1>2, <2>1
<1>7. CASE IssuedElsewhere \/ \E o \in OthersInflations : OthersInflate(o)
  BY <1>2, <1>7 DEF IssuedElsewhere, OthersInflate, chainVars
<1>8. CASE SendAborted \/ \E s \in Sends : SendBegin(s)
  BY <1>2, <1>8 DEF SendAborted, SendBegin, chainVars
<1>9. ASSUME NEW t \in Outgoing, OutgoingSettles(t) PROVE Quiet
  <2>1. UNCHANGED <<allocs, plan, tx, inputs>>
    BY <1>9 DEF OutgoingSettles, chainVars
  <2>. QED
    BY <1>2, <2>1
<1>10. CASE UNCHANGED vars
  BY <1>2, <1>10 DEF vars, chainVars, assetVars
<1>. QED
  BY <1>3, <1>4, <1>5, <1>6, <1>7, <1>8, <1>9, <1>10 DEF Next, NetworkNext, Outgoing, Loud

LEMMA SpentStep ==
  ASSUME SpentInv, ChainProgress PROVE SpentInv'
<1>1. ASSUME NEW u \in External, rows'[u] = "spent" PROVE \E x \in Txs : Public(x)' /\ u \in inputs'[x]
  <2>1. CASE rows[u] = "spent"
    <3>1. PICK x \in Txs : Public(x) /\ u \in inputs[x]
      BY <2>1 DEF SpentInv
    <3>2. tx[x] # "none"
      BY <3>1 DEF Public
    <3>. QED
      BY <3>1, <3>2 DEF ChainProgress, TxProgress
  <2>. QED
    BY <1>1, <2>1 DEF ChainProgress, RowProgress
<1>. QED
  BY <1>1 DEF SpentInv

LEMMA BegunGrows ==
  ASSUME ChainProgress, AssetProgress PROVE Begun \subseteq Begun'
BY ColoredOutputs DEF ChainProgress, TxProgress, AssetProgress, Begun

(* A settled transfer stays settled.                                       *)
StillSettled == \A x \in Colored : status[x] = "Settled" => status'[x] = "Settled"

LEMMA StatusStep ==
  ASSUME TypeInv, StatusInv, [Next]_vars
  PROVE  StatusInv' /\ StillSettled
<1>1. /\ AssetTypeOK /\ ChainProgress /\ AssetProgress /\ ChainTypeOK
      /\ \A t \in Outgoing : t \in Colored /\ t \in Txs /\ t \notin Receives
      /\ \A r \in Receives : r \in Colored /\ r \notin Outgoing
  BY ChainProgresses, AssetProgresses, TypeParts, NodeFacts, ColoredOutputs DEF TypeInv
<1>2. CASE UNCHANGED status
  BY <1>1, <1>2 DEF StatusInv, ChainProgress, TxProgress, StillSettled
<1>3. ASSUME NEW x \in Colored, status[x] # "Settled",
             NEW now \in Statuses, status' = [status EXCEPT ![x] = now],
             x \in Outgoing => Public(x)' \/ now = "Refused"
      PROVE  StatusInv' /\ StillSettled
  BY <1>1, <1>3 DEF StatusInv, ChainProgress, TxProgress, AssetTypeOK, StillSettled
<1>4. ASSUME NEW r \in Receives, WaitConsignment(r) PROVE StatusInv' /\ StillSettled
  <2>1. /\ status[r] = "none"
        /\ status' \in {[status EXCEPT ![r] = "WaitingConfirmations"], [status EXCEPT ![r] = "Failed"]}
    BY <1>4 DEF WaitConsignment
  <2>. QED
    BY <1>1, <1>3, <2>1 DEF Statuses
<1>5. ASSUME NEW r \in Receives, ReceiveSettles(r) PROVE StatusInv' /\ StillSettled
  <2>1. status[r] = "WaitingConfirmations" /\ status' = [status EXCEPT ![r] = "Settled"]
    BY <1>5 DEF ReceiveSettles
  <2>. QED
    BY <1>1, <1>3, <2>1 DEF Statuses
<1>6. ASSUME NEW s \in Sends, SendAttempt(s) PROVE StatusInv' /\ StillSettled
  <2>1. tx[s] = "none" /\ s \in Outgoing
    BY <1>6 DEF SendAttempt, TypeInv, SendInv, Outgoing
  <2>2. status[s] # "Settled"
    BY <2>1 DEF StatusInv, Public
  <2>3. status' \in {status, [status EXCEPT ![s] = "Refused"]}
    BY <1>6 DEF SendAttempt
  <2>. QED
    BY <1>1, <1>2, <1>3, <2>1, <2>2, <2>3 DEF Statuses
<1>7. ASSUME NEW t \in Outgoing, EndBroadcast(t) PROVE StatusInv' /\ StillSettled
  <2>1. Public(t)' /\ ~Public(t)
    BY <1>1, <1>7, BroadcastProgress
  <2>2. status[t] # "Settled"
    BY <2>1 DEF StatusInv
  <2>3. status' \in {status, [status EXCEPT ![t] = "WaitingConfirmations"]}
    BY <1>7, BroadcastFacts DEF SavesAsset
  <2>. QED
    BY <1>1, <1>2, <1>3, <2>1, <2>2, <2>3 DEF Statuses
<1>8. ASSUME NEW t \in Outgoing, OutgoingSettles(t) PROVE StatusInv' /\ StillSettled
  <2>1. status[t] = "WaitingConfirmations" /\ status' = [status EXCEPT ![t] = "Settled"] /\ UNCHANGED tx
    BY <1>8 DEF OutgoingSettles, chainVars
  <2>. QED
    BY <1>1, <1>3, <2>1 DEF Statuses, StatusInv, Public
<1>9. CASE \/ UNCHANGED assetVars \/ IssueAssetIfa \/ IssuedElsewhere \/ SendAborted
           \/ \E o \in OthersInflations : OthersInflate(o)
           \/ \E i \in Inflations : InflateBegin(i)
           \/ \E s \in Sends : SendBegin(s)
  BY <1>2, <1>9 DEF assetVars, IssueAssetIfa, IssuedElsewhere, SendAborted, OthersInflate, InflateBegin, SendBegin
<1>. QED
  BY <1>4, <1>5, <1>6, <1>7, <1>8, <1>9 DEF Next, Outgoing, Pay, vars

CoreInv == SpentInv /\ StatusInv /\ OriginInv /\ OneInv /\ PlanInv

LEMMA BegunFacts ==
  /\ Begun \subseteq Colored /\ Issue \notin Begun
  /\ \A t \in Outgoing : ~Public(t) => t \notin Begun \cup {Issue}
  /\ \A r \in Receives : status[r] = "none" => r \notin Begun \cup {Issue}
BY NodeFacts DEF Begun

(* What a step proves of the history whatever it does to the allocations.  *)
LEMMA HistoryStep ==
  ASSUME TypeInv, CoreInv, [Next]_vars
  PROVE  /\ SpentInv' /\ StatusInv' /\ Begun \subseteq Begun'
         /\ \A u \in External : rows[u] = "spent" => rows'[u] = "spent"
         /\ \A k \in allocs : IsSettled(k) => IsSettled(k)'
         /\ \A k \in allocs : k.txo \in External
         /\ \A t \in Outgoing : tx[t] = "prepared" => inputs'[t] = inputs[t]
<1>1. ChainProgress /\ AssetProgress
  BY ChainProgresses, AssetProgresses DEF TypeInv, TypeOK
<1>2. StatusInv' /\ StillSettled
  BY StatusStep DEF CoreInv
<1>3. \A k \in allocs : IsSettled(k) => IsSettled(k)'
  BY <1>2, BegunFacts DEF CoreInv, OriginInv, IsSettled, StillSettled
<1>4. \A k \in allocs : k.txo \in External
  BY DEF TypeInv, TypeOK, Allocations
<1>. QED
  BY <1>1, <1>2, <1>3, <1>4, SpentStep, BegunGrows, ColoredOutputs
  DEF CoreInv, ChainProgress, RowProgress, TxProgress

(* A plan stays good while its allocations are there.                      *)
LEMMA PlanStays ==
  ASSUME TypeInv, CoreInv, [Next]_vars, NEW t \in Outgoing, tx[t] = "prepared",
         plan'[t] = plan[t], allocs \subseteq allocs'
  PROVE  GoodPlan(t)'
<1>1. GoodPlan(t) /\ inputs'[t] = inputs[t] /\ \A k \in allocs : IsSettled(k) => IsSettled(k)'
  BY HistoryStep DEF CoreInv, PlanInv
<1>2. \A k \in plan'[t].takes : k \in allocs' /\ k.txo \in inputs'[t] /\ IsSettled(k)'
  BY <1>1 DEF GoodPlan
<1>3. \A j, k : Same(j, k)' <=> Same(j, k)
  BY DEF Same
<1>. QED
  BY <1>1, <1>2, <1>3 DEF GoodPlan

LEMMA AllocsStay ==
  ASSUME TypeInv, CoreInv, [Next]_vars, allocs' = allocs PROVE OriginInv' /\ OneInv'
<1>1. OriginInv'
  BY HistoryStep DEF CoreInv, OriginInv
<1>2. OneInv'
  BY HistoryStep DEF CoreInv, OneInv, Same
<1>. QED
  BY <1>1, <1>2

LEMMA QuietCore ==
  ASSUME TypeInv, CoreInv, [Next]_vars, Quiet PROVE CoreInv'
<1>1. PlanInv'
  BY PlanStays DEF Quiet, PlanInv
<1>. QED
  BY <1>1, HistoryStep, AllocsStay DEF Quiet, CoreInv

LEMMA IssueCore ==
  ASSUME TypeInv, CoreInv, [Next]_vars, IssueAssetIfa PROVE CoreInv'
<1>1. PICK u \in Free, v \in Free : allocs' = Issued(u, v)
  BY DEF IssueAssetIfa
<1>2. \A k \in allocs' : k.source = Issue /\ k.by = Issue
  BY <1>1 DEF Issued, Alloc
<1>3. \A j, k \in allocs' : j.kind = k.kind => j = k
  BY <1>1 DEF Issued, Alloc
<1>4. \A t \in Outgoing : tx'[t] # "prepared"
  BY ColoredOutputs DEF IssueAssetIfa, Unissued, chainVars
<1>5. OriginInv' /\ OneInv' /\ PlanInv'
  BY <1>2, <1>3, <1>4 DEF OriginInv, OneInv, Same, PlanInv
<1>. QED
  BY <1>5, HistoryStep DEF CoreInv

LEMMA WaitCore ==
  ASSUME TypeInv, CoreInv, [Next]_vars, NEW r \in Receives, WaitConsignment(r) PROVE CoreInv'
<1>1. /\ status[r] = "none" /\ r \in Colored /\ UNCHANGED <<tx, plan>>
      /\ r \notin Begun \cup {Issue} /\ AssetTypeOK
  BY BegunFacts, ReceivedOutput, TypeParts DEF WaitConsignment, TypeInv
<1>2. PICK o \in Origins, kind \in Kinds, amount \in Nat : ReceivesFrom(r, o, kind, amount)
  BY <1>1, WaitFacts
<1>3. /\ status'[r] # "none"
      /\ allocs' = allocs \/ allocs' = allocs \cup {Alloc(<<r, 1>>, kind, amount, r)}
  BY <1>1, <1>2 DEF ReceivesFrom, Accepts, Refuses, Received, AssetTypeOK
<1>4. PlanInv'
  BY <1>1, <1>3, PlanStays DEF PlanInv
<1>5. CASE allocs' = allocs \cup {Alloc(<<r, 1>>, kind, amount, r)}
  <2> DEFINE new == Alloc(<<r, 1>>, kind, amount, r)
  <2>1. new.source = r /\ new.by = r
    BY DEF Alloc
  <2>2. r \in Begun'
    BY <1>3 DEF Begun
  <2>3. \A k \in allocs : k.source # r /\ {k.source, k.by} \subseteq {Issue} \cup Begun'
    BY <1>1, HistoryStep DEF CoreInv, OriginInv
  <2> HIDE DEF new
  <2>4. OriginInv'
    BY <1>5, <2>1, <2>2, <2>3 DEF OriginInv, new
  <2>5. OneInv'
    <3>1. ASSUME NEW j \in allocs', NEW k \in allocs', Same(j, k),
                 rows'[j.txo] # "spent", rows'[k.txo] # "spent"
          PROVE  j = k
      <4>1. CASE j \in allocs /\ k \in allocs
        BY <3>1, <4>1, HistoryStep DEF CoreInv, OneInv
      <4>2. CASE j = new \/ k = new
        BY <1>5, <2>1, <2>3, <3>1, <4>2 DEF Same, new
      <4>. QED
        BY <1>5, <4>1, <4>2 DEF new
    <3>. QED
      BY <3>1 DEF OneInv, Same
  <2>. QED
    BY <1>4, <2>4, <2>5, HistoryStep DEF CoreInv
<1>. QED
  BY <1>3, <1>4, <1>5, AllocsStay, HistoryStep DEF CoreInv

LEMMA HostFacts ==
  ASSUME NEW kind, NEW need, NEW hosts \in SelectRgbInputs(kind, need)
  PROVE  hosts \subseteq Hosts(kind) /\ hosts \subseteq InputUnspents
BY ReachingChoosesFrom DEF SelectRgbInputs, Hosts

(* What is on UTXOs that can be inputs is settled, one of each kind and    *)
(* source, and from transfers that began.                                  *)
LEMMA InputFacts ==
  ASSUME CoreInv, NEW hosts, hosts \subseteq InputUnspents
  PROVE  \A k \in UNION {On(u) : u \in hosts} :
            /\ k \in allocs /\ k.txo \in hosts /\ IsSettled(k)
            /\ k.source \in {Issue} \cup Begun
            /\ \A j \in UNION {On(u) : u \in hosts} : Same(j, k) => j = k
<1>1. \A k \in UNION {On(u) : u \in hosts} :
         k \in allocs /\ k.txo \in hosts /\ IsSettled(k) /\ rows[k.txo] # "spent"
  BY DEF InputUnspents, On
<1>. QED
  BY <1>1 DEF CoreInv, OneInv, OriginInv

LEMMA PrepareCore ==
  ASSUME TypeInv, CoreInv, [Next]_vars, NEW t \in Outgoing, tx[t] = "none",
         NEW hosts \in SUBSET External, hosts \subseteq InputUnspents, NEW fee, NEW used,
         NEW to, NEW brings, \A b \in brings : b.by = t /\ b.source = t,
         \A b, c \in brings : b.kind = c.kind => b = c,
         NEW kind, NEW gives, Prepares(t, hosts, fee, used, to, brings, kind, gives), allocs' = allocs
  PROVE  CoreInv'
<1> DEFINE takes == UNION {On(u) : u \in hosts}
           moved == Moved(takes \ used, to, t)
<1>1. /\ t \in Txs /\ t \notin Begun \cup {Issue}
      /\ plan = [x \in Outgoing |-> plan[x]] /\ tx \in [Txs -> TxStates]
      /\ inputs \in [Txs -> SUBSET Txos]
  BY ColoredOutputs, BegunFacts DEF Public, TypeInv, IInv, AllocInv, ChainInv, ChainTypeOK
<1>2. /\ tx' = [tx EXCEPT ![t] = "prepared"] /\ inputs' = [inputs EXCEPT ![t] = hosts \cup fee]
      /\ plan' = [plan EXCEPT ![t] = [takes |-> takes, brings |-> brings \cup moved,
                                      kind |-> kind, gives |-> gives]]
  BY DEF Prepares
<1>3. \A k \in takes : /\ k \in allocs /\ k.txo \in hosts /\ IsSettled(k)
                       /\ k.source \in {Issue} \cup Begun /\ \A j \in takes : Same(j, k) => j = k
  BY InputFacts
<1>4. \A b \in moved : \E k \in takes : b = MovedTo(k, to, t)
  BY DEF Moved, MovedTo
<1>5. \A k : Same(MovedTo(k, to, t), k) /\ MovedTo(k, to, t).by = t
  BY DEF Same, MovedTo
<1>6. \A k \in allocs : IsSettled(k) => IsSettled(k)'
  BY HistoryStep
<1> HIDE DEF moved, takes
<1>7. plan'[t].takes = takes /\ plan'[t].brings = brings \cup moved /\ inputs'[t] = hosts \cup fee
  BY <1>1, <1>2
<1>8. \A b \in brings \cup moved :
         b.by = t /\ (b.source = t \/ \E k \in takes : Same(b, k))
  BY <1>4, <1>5
<1>9. \A b, c \in brings \cup moved : Same(b, c) => b = c
  <2>1. ASSUME NEW b \in moved, NEW c \in moved, Same(b, c) PROVE b = c
    <3>1. PICK j \in takes, k \in takes :
             b = MovedTo(j, to, t) /\ c = MovedTo(k, to, t)
      BY <1>4
    <3>2. Same(j, k)
      BY <1>5, <2>1, <3>1 DEF Same
    <3>. QED
      BY <1>3, <3>1, <3>2
  <2>2. ASSUME NEW b \in moved PROVE b.source # t
    BY <1>1, <1>3, <1>4, <1>5 DEF Same
  <2>. QED
    BY <2>1, <2>2 DEF Same
<1>10. GoodPlan(t)'
  <2>1. \A k \in takes : k \in allocs' /\ k.txo \in inputs'[t] /\ IsSettled(k)'
    BY <1>3, <1>6, <1>7
  <2>2. \A j, k : Same(j, k)' <=> Same(j, k)
    BY DEF Same
  <2>. QED
    BY <1>7, <1>8, <1>9, <2>1, <2>2 DEF GoodPlan
<1>11. \A x \in Outgoing \ {t} : x \in Txs /\ tx'[x] = tx[x] /\ plan'[x] = plan[x]
  BY <1>1, <1>2, ColoredOutputs
<1>12. PlanInv'
  BY <1>10, <1>11, PlanStays DEF PlanInv
<1>. QED
  BY <1>12, AllocsStay, HistoryStep DEF CoreInv

LEMMA InflateCore ==
  ASSUME TypeInv, CoreInv, [Next]_vars, NEW i \in Inflations, InflateBegin(i) PROVE CoreInv'
<1>0. PICK amount \in Nat, hosts \in SUBSET External, fee \in Free, used \in SUBSET allocs :
         \E to : Inflates(i, amount, hosts, fee, used, to)
  BY InflateFacts
<1>1. PICK to : Inflates(i, amount, hosts, fee, used, to)
  BY <1>0
<1> DEFINE token == Alloc(<<i, 1>>, "token", amount, i)
           rest == Change("right", Total(used) - amount, to, i)
<1>2. i \in Outgoing /\ tx[i] = "none" /\ allocs' = allocs
  BY DEF InflateBegin, Outgoing
<1>3. hosts \subseteq InputUnspents
  BY <1>1, HostFacts DEF Inflates
<1>4. \A b \in {token} \cup rest : b.by = i /\ b.source = i
  BY DEF Alloc, Change
<1>5. \A b, c \in {token} \cup rest : b.kind = c.kind => b = c
  BY DEF Alloc, Change
<1>6. Prepares(i, hosts, {fee}, used, to, {token} \cup rest, "token", 0)
  BY <1>1 DEF Inflates
<1> HIDE DEF token, rest
<1>. QED
  BY <1>2, <1>3, <1>4, <1>5, <1>6, PrepareCore

LEMMA SendAttemptCore ==
  ASSUME TypeInv, CoreInv, [Next]_vars, NEW s \in Sends, SendAttempt(s) PROVE CoreInv'
<1>1. s \in Outgoing /\ tx[s] = "none" /\ allocs' = allocs
  BY DEF SendAttempt, TypeInv, SendInv, Outgoing
<1>2. CASE UNCHANGED <<tx, plan>>
  <2>1. PlanInv'
    BY <1>1, <1>2, PlanStays DEF PlanInv
  <2>. QED
    BY <1>1, <2>1, AllocsStay, HistoryStep DEF CoreInv
<1>3. CASE RefusesSend(s)
  BY <1>2, <1>3 DEF RefusesSend
<1>4. ASSUME NEW hosts \in SUBSET External, NEW used \in SUBSET allocs, NEW fee \in SUBSET Free,
             Attempts(s, hosts, used, fee)
      PROVE  CoreInv'
  <2>1. hosts \subseteq InputUnspents
    BY <1>4, HostFacts DEF Attempts
  <2>2. ASSUME NEW to, Drafted(s, hosts, used, fee, to) PROVE CoreInv'
    <3>1. /\ \A b \in SendChange(s, used, to) : b.by = s /\ b.source = s
          /\ \A b, c \in SendChange(s, used, to) : b.kind = c.kind => b = c
      BY DEF SendChange, Change, Alloc
    <3>. QED
      BY <1>1, <2>1, <2>2, <3>1, PrepareCore DEF Drafted
  <2>. QED
    BY <1>2, <1>4, <2>2 DEF Attempts
<1>. QED
  BY <1>3, <1>4, AttemptFacts

LEMMA BroadcastCore ==
  ASSUME TypeInv, CoreInv, [Next]_vars, NEW t \in Outgoing, EndBroadcast(t) PROVE CoreInv'
<1>1. /\ tx[t] = "prepared" /\ plan' = plan /\ GoodPlan(t) /\ inputs' = inputs
  BY BroadcastFacts DEF CoreInv, PlanInv
<1>2. /\ Public(t)' /\ ~Public(t) /\ Acceptable(t) /\ ChainTypeOK
      /\ \/ SavesAsset(t) /\ \A u \in External \cap inputs[t] : rows'[u] = "spent"
         \/ UNCHANGED <<allocs, status, known>>
  BY BroadcastProgress DEF TypeInv, TypeOK
<1>3. /\ t \in Txs /\ t \notin Begun \cup {Issue} /\ t \in Begun'
      /\ \A u \in External : rows[u] = "spent" => rows'[u] = "spent"
  BY <1>2, ColoredOutputs, BegunFacts, HistoryStep DEF Begun
<1>4. \A x \in Outgoing : tx'[x] = "prepared" => tx[x] = "prepared"
  BY <1>1, <1>2, ColoredOutputs, BroadcastFacts DEF Published, ChainTypeOK
<1>5. PlanInv'
  BY <1>1, <1>2, <1>4, PlanStays DEF PlanInv, SavesAsset
<1>6. CASE SavesAsset(t) /\ \A u \in External \cap inputs[t] : rows'[u] = "spent"
  <2>1. allocs' = allocs \cup plan[t].brings
    BY <1>6 DEF SavesAsset
  <2>2. \A k \in allocs : {k.source, k.by} \subseteq {Issue} \cup Begun' /\ k.source # t
    BY <1>3, HistoryStep DEF CoreInv, OriginInv
  <2>3. ASSUME NEW b \in plan[t].brings, b.source # t
        PROVE  \E k \in plan[t].takes : k \in allocs /\ Same(b, k) /\ k.txo \in External \cap inputs[t]
    BY <1>1, <2>3, HistoryStep DEF GoodPlan
  <2>4. OriginInv'
    <3>1. \A b \in plan[t].brings : {b.source, b.by} \subseteq {Issue} \cup Begun'
      BY <1>1, <1>3, <2>2, <2>3 DEF GoodPlan, Same
    <3>. QED
      BY <2>1, <2>2, <3>1 DEF OriginInv
  <2>5. ASSUME NEW b \in plan[t].brings, NEW k \in allocs, Same(b, k) PROVE rows'[k.txo] = "spent"
    <3>1. b.source # t
      BY <2>2, <2>5 DEF Same
    <3>2. PICK j \in plan[t].takes : j \in allocs /\ Same(b, j) /\ j.txo \in External \cap inputs[t]
      BY <2>3, <3>1
    <3>3. rows[j.txo] # "spent"
      <4>1. SUFFICES ASSUME rows[j.txo] = "spent" PROVE FALSE
        OBVIOUS
      <4>2. PICK x \in Txs : Public(x) /\ j.txo \in inputs[x]
        BY <3>2, <4>1 DEF CoreInv, SpentInv
      <4>. QED
        BY <1>2, <1>3, <3>2, <4>2 DEF Acceptable
    <3>4. Same(j, k)
      BY <2>5, <3>2 DEF Same
    <3>5. rows[k.txo] = "spent" \/ k = j
      BY <3>2, <3>3, <3>4 DEF CoreInv, OneInv
    <3>. QED
      BY <1>3, <1>6, <3>2, <3>5, HistoryStep
  <2>6. OneInv'
    <3>1. ASSUME NEW j \in allocs', NEW k \in allocs', Same(j, k),
                 rows'[j.txo] # "spent", rows'[k.txo] # "spent"
          PROVE  j = k
      <4>1. CASE j \in allocs /\ k \in allocs
        BY <3>1, <4>1, HistoryStep DEF CoreInv, OneInv
      <4>2. CASE j \in plan[t].brings /\ k \in plan[t].brings
        BY <1>1, <3>1, <4>2 DEF GoodPlan
      <4>3. CASE j \in allocs /\ k \in plan[t].brings
        BY <2>5, <3>1, <4>3 DEF Same
      <4>4. CASE k \in allocs /\ j \in plan[t].brings
        BY <2>5, <3>1, <4>4
      <4>. QED
        BY <2>1, <4>1, <4>2, <4>3, <4>4
    <3>. QED
      BY <3>1 DEF OneInv, Same
  <2>. QED
    BY <1>5, <2>4, <2>6, HistoryStep DEF CoreInv
<1>. QED
  BY <1>2, <1>5, <1>6, AllocsStay, HistoryStep DEF CoreInv

LEMMA CoreInit == Init => CoreInv
<1> SUFFICES ASSUME Init PROVE CoreInv
  OBVIOUS
<1>1. allocs = {} /\ \A u \in External : rows[u] # "spent"
  BY DEF Init, ChainInit
<1>2. \A t \in Outgoing : tx[t] = "none" /\ status[t] = "none"
  BY ColoredOutputs, TransactionsAssumption DEF Init, ChainInit
<1>. QED
  BY <1>1, <1>2 DEF CoreInv, SpentInv, StatusInv, OriginInv, OneInv, PlanInv

LEMMA CoreStep == TypeInv /\ CoreInv /\ [Next]_vars => CoreInv'
BY StepKinds, QuietCore, IssueCore, WaitCore, InflateCore, SendAttemptCore, BroadcastCore DEF Loud

-----------------------------------------------------------------------------
(* The retries of send_begin.                                              *)

Offered(k, kind) ==
  /\ k \in allocs /\ k.kind = kind /\ k.txo \in External /\ rows[k.txo] = "there"
  /\ \A j \in allocs : j.txo = k.txo => IsSettled(j)

(* What is rejected is among what the UTXOs offer, and needed on top.      *)
RetryInv ==
  sending.send \in Sends =>
    /\ sending.need > 0 /\ sending.needed = sending.need + Total(sending.rejected)
    /\ \A k \in sending.rejected : Offered(k, sending.kind)

LEMMA OfferedOnHosts ==
  ASSUME NEW kind
  PROVE  OfKindOn(Hosts(kind), kind) = {k \in allocs : Offered(k, kind)}
<1>1. ASSUME NEW k \in OfKindOn(Hosts(kind), kind) PROVE k \in allocs /\ Offered(k, kind)
  BY DEF OfKindOn, Hosts, InputUnspents, Of, On, Offered
<1>2. ASSUME NEW k \in allocs, Offered(k, kind) PROVE k \in OfKindOn(Hosts(kind), kind)
  <2>1. k \in Of(k.txo, kind) /\ k.txo \in Hosts(kind)
    BY <1>2 DEF Hosts, InputUnspents, Of, On, Offered
  <2>. QED
    BY <2>1 DEF OfKindOn
<1>. QED
  BY <1>1, <1>2

LEMMA HostTotals ==
  ASSUME TypeInv, NEW kind, NEW hosts, hosts \subseteq Hosts(kind)
  PROVE  /\ IsFiniteSet(hosts) /\ OfKindOn(hosts, kind) \subseteq allocs
         /\ \A u \in hosts : Total(Of(u, kind)) \in Nat
         /\ SumOver([u \in Hosts(kind) |-> Total(Of(u, kind))], hosts) = Total(OfKindOn(hosts, kind))
<1> DEFINE part == [u \in hosts |-> Of(u, kind)]
           f == [u \in hosts |-> Total(part[u])]
           h == [u \in Hosts(kind) |-> Total(Of(u, kind))]
<1>1. TypeOK /\ FiniteInv /\ IsFiniteSet(allocs)
  BY DEF TypeInv, FiniteInv
<1>2. IsFiniteSet(hosts)
  <2> DEFINE txo == [k \in allocs |-> k.txo]
             all == {k.txo : k \in allocs}
  <2>1. txo \in Surjection(allocs, all)
    BY DEF Surjection
  <2>2. hosts \subseteq all
    BY DEF Hosts, Of, On
  <2>3. IsFiniteSet(all)
    <3> HIDE DEF all, txo
    <3>. QED
      BY <1>1, <2>1, FS_Surjection
  <2>. QED
    BY <2>2, <2>3, FS_Subset
<1>3. \A u \in hosts : Summable(Of(u, kind)) /\ Total(Of(u, kind)) \in Nat
  BY <1>1, OfOn, AllocsSummable
<1>4. \A u, v \in hosts : u # v => Of(u, kind) \cap Of(v, kind) = {}
  BY DEF Of, On
<1>5. \A u \in hosts : part[u] = Of(u, kind) /\ f[u] = Total(Of(u, kind)) /\ h[u] = Total(Of(u, kind))
  OBVIOUS
<1>6. OfKindOn(hosts, kind) = UNION {part[u] : u \in hosts}
  BY DEF OfKindOn
<1>7. OfKindOn(hosts, kind) \subseteq allocs
  BY OfOn DEF OfKindOn
<1> HIDE DEF part
<1>8. Total(UNION {part[u] : u \in hosts}) = SumOver(f, hosts)
  <2>1. /\ \A u \in hosts : Summable(part[u])
        /\ \A u, v \in hosts : u # v => part[u] \cap part[v] = {}
    BY <1>3, <1>4, <1>5
  <2>. QED
    BY <1>2, <2>1, TotalOfParts
<1> HIDE DEF f, h
<1>9. SumOver(h, hosts) = SumOver(f, hosts)
  BY <1>2, <1>3, <1>5, SumSame
<1>. QED
  BY <1>2, <1>3, <1>6, <1>7, <1>8, <1>9 DEF h

LEMMA SelectionReaches ==
  ASSUME TypeInv, NEW kind, NEW need, NEW hosts \in SelectRgbInputs(kind, need)
  PROVE  Total(OfKindOn(hosts, kind)) >= need
<1>1. hosts \subseteq Hosts(kind)
  BY HostFacts
<1>2. SumOver([u \in Hosts(kind) |-> Total(Of(u, kind))], hosts) >= need
  BY ReachingFacts DEF SelectRgbInputs
<1>. QED
  BY <1>1, <1>2, HostTotals

LEMMA NothingSelected ==
  ASSUME TypeInv, NEW kind, NEW need \in Nat \ {0}, SelectRgbInputs(kind, need) = {}
  PROVE  Total(OfKindOn(Hosts(kind), kind)) < need
<1> DEFINE amounts == [u \in Hosts(kind) |-> Total(Of(u, kind))]
           all == OfKindOn(Hosts(kind), kind)
<1>1. /\ IsFiniteSet(Hosts(kind)) /\ all \subseteq allocs
      /\ \A u \in Hosts(kind) : amounts[u] \in Int
      /\ SumOver(amounts, Hosts(kind)) = Total(all)
  BY HostTotals
<1>2. Reaching(Hosts(kind), amounts, amounts, need) = {}
  BY DEF SelectRgbInputs
<1>3. Total(all) \in Nat
  BY <1>1, AllocsSummable DEF TypeInv
<1> HIDE DEF amounts, all
<1>4. ~ SumOver(amounts, Hosts(kind)) >= need
  BY <1>1, <1>2, EnoughIsReached
<1>. QED
  BY <1>1, <1>3, <1>4 DEF all

LEMMA ContributingTotal ==
  ASSUME NEW candidates, Summable(candidates), NEW need \in Nat,
         NEW used \in Contributing(candidates, need)
  PROVE  used \subseteq candidates /\ (Total(used) >= need \/ used = candidates)
<1>1. used = candidates \/ used \in Reaching(candidates, Amounts(candidates), Amounts(candidates), need)
  BY DEF Contributing, Amounts
<1>2. used \subseteq candidates
  BY ContributingChoosesFrom
<1>3. Total(used) = SumOver(Amounts(candidates), used)
  BY <1>2, TotalOnSubsets
<1>4. used \in Reaching(candidates, Amounts(candidates), Amounts(candidates), need) =>
         SumOver(Amounts(candidates), used) >= need
  BY ReachingFacts
<1>. QED
  BY <1>1, <1>2, <1>3, <1>4

LEMMA OfferedStays ==
  ASSUME UNCHANGED <<allocs, rows, status>>
  PROVE  \A k, kind : Offered(k, kind) => Offered(k, kind)'
BY DEF Offered, IsSettled

(* A round takes what the UTXOs offer and no list has rejected.            *)
LEMMA AllowedIsOffered ==
  ASSUME NEW hosts, hosts \subseteq Hosts(sending.kind), NEW used \in SUBSET Allowed(hosts)
  PROVE  /\ used \subseteq OfKindOn(hosts, sending.kind)
         /\ \A k \in used : Offered(k, sending.kind) /\ k \notin sending.rejected
<1>1. used \subseteq OfKindOn(hosts, sending.kind) /\ \A k \in used : k \notin sending.rejected
  BY DEF Allowed, OfKindOn
<1>2. OfKindOn(hosts, sending.kind) \subseteq OfKindOn(Hosts(sending.kind), sending.kind)
  BY DEF OfKindOn
<1>. QED
  BY <1>1, <1>2, OfferedOnHosts

LEMMA RetryStep ==
  ASSUME TypeInv, RetryInv, [Next]_vars PROVE RetryInv'
<1>1. /\ sending \in Sendings /\ NoSend.send \notin Sends /\ TypeOK /\ FiniteInv
      /\ Summable(sending.rejected)
  <2>1. sending \in Sendings /\ IsFiniteSet(sending.rejected)
    BY DEF TypeInv, TypeOK, FiniteInv, Sendings
  <2>2. \A k \in sending.rejected : k.amount \in Nat
    BY <2>1 DEF Sendings, Allocations
  <2>. QED
    BY <2>1, <2>2, NoSendInv DEF TypeInv, Summable
<1>2. ASSUME sending' = NoSend PROVE RetryInv'
  BY <1>1, <1>2 DEF RetryInv
<1>3. ASSUME UNCHANGED <<sending, allocs, rows, status>> PROVE RetryInv'
  BY <1>3, OfferedStays DEF RetryInv
<1>4. ASSUME NEW s \in Sends, SendBegin(s) PROVE RetryInv'
  <2>1. PICK kind \in Kinds, amount \in 1..MaxAmount :
           sending' = [send |-> s, kind |-> kind, need |-> amount, needed |-> amount, rejected |-> {}]
    BY <1>4 DEF SendBegin
  <2>2. amount > 0 /\ amount \in Nat
    BY AssetAssumption
  <2>3. Total({}) = 0
    BY TotalOfOne
  <2>. QED
    BY <2>1, <2>2, <2>3 DEF RetryInv
<1>5. ASSUME NEW s \in Sends, SendAttempt(s) PROVE RetryInv'
  <2>1. CASE RefusesSend(s)
    BY <1>2, <2>1 DEF RefusesSend
  <2>2. ASSUME NEW hosts \in SUBSET External, NEW used \in SUBSET allocs, NEW fee \in SUBSET Free,
               Attempts(s, hosts, used, fee), used \subseteq Allowed(hosts)
        PROVE  RetryInv'
    <3>1. sending' = NoSend \/ \E bad \in SUBSET used : sending' = RetryWithout(sending, bad)
      BY <2>2 DEF Attempts, Retries
    <3>2. ASSUME NEW bad \in SUBSET used, sending' = RetryWithout(sending, bad) PROVE RetryInv'
      <4>1. sending' = [send |-> sending.send, kind |-> sending.kind, need |-> sending.need,
                        needed |-> sending.needed + Total(bad), rejected |-> sending.rejected \cup bad]
        BY <1>1, <3>2, RetryType
      <4>2. sending.send = s /\ UNCHANGED <<allocs, rows, status>>
        BY <1>5, <2>2 DEF SendAttempt, Attempts
      <4>3. \A k \in used : Offered(k, sending.kind) /\ k \notin sending.rejected
        BY <2>2, HostFacts, AllowedIsOffered DEF Attempts
      <4>4. Summable(bad) /\ bad \cap sending.rejected = {} /\ Total(bad) \in Nat
        BY <1>1, <4>3, AllocsSummable
      <4>5. Total(sending.rejected \cup bad) = Total(sending.rejected) + Total(bad)
        BY <1>1, <4>4, TotalUnion
      <4>6. Total(sending.rejected) \in Nat /\ sending.need \in Nat
        BY <1>1, TotalSplit DEF Sendings
      <4>7. sending'.needed = sending'.need + Total(sending'.rejected)
        <5>1. sending.needed = sending.need + Total(sending.rejected)
          BY <4>2 DEF RetryInv
        <5> HIDE DEF RetryInv
        <5>. QED
          BY <4>1, <4>4, <4>5, <4>6, <5>1
      <4>8. \A k \in sending'.rejected : Offered(k, sending.kind)'
        <5>1. \A k \in sending'.rejected : Offered(k, sending.kind)
          BY <4>1, <4>2, <4>3 DEF RetryInv
        <5>2. sending'.kind = sending.kind
          BY <4>1
        <5>. QED
          BY <4>2, <5>1, <5>2, OfferedStays
      <4>. QED
        BY <4>1, <4>2, <4>7, <4>8 DEF RetryInv
    <3>. QED
      BY <1>2, <3>1, <3>2
  <2>. QED
    BY <1>5, <2>1, <2>2, AttemptFacts
<1>6. ASSUME Ready, UNCHANGED sending PROVE RetryInv'
  BY <1>2, <1>6 DEF Ready
<1>7. CASE SendAborted
  BY <1>2, <1>7 DEF SendAborted
<1>8. CASE \/ (\E t \in Txs : Index(t)) /\ UNCHANGED assetVars
           \/ \E r \in Receives : Pay(r)
           \/ IssuedElsewhere
           \/ \E o \in OthersInflations : OthersInflate(o)
           \/ UNCHANGED vars
  BY <1>3, <1>8 DEF Index, Pay, Paid, IssuedElsewhere, OthersInflate, vars, chainVars, assetVars
<1>9. CASE VanillaNext /\ sending = NoSend /\ UNCHANGED assetVars
  BY <1>2, <1>9 DEF assetVars
<1>10. CASE \/ IssueAssetIfa \/ (\E r \in Receives : WaitConsignment(r) \/ ReceiveSettles(r))
            \/ (\E i \in Inflations : InflateBegin(i))
            \/ (\E t \in Outgoing : EndBroadcast(t) \/ OutgoingSettles(t))
  BY <1>6, <1>10 DEF IssueAssetIfa, WaitConsignment, ReceiveSettles, InflateBegin, EndBroadcast,
    OutgoingSettles
<1>. QED
  BY <1>4, <1>5, <1>7, <1>8, <1>9, <1>10 DEF Next, NetworkNext, Outgoing

LEMMA OnlyAttempts ==
  ASSUME TypeInv, [Next]_vars, NEW s \in Sends, sending.send = s, ~SendAttempt(s)
  PROVE  (tx[s] = "none" => tx'[s] = "none") /\ status'[s] = status[s]
<1>1. s \in Txs /\ s \in Outgoing /\ s \notin Receives /\ sending # NoSend /\ ChainTypeOK
  BY ColoredOutputs, NodeFacts, NoSendInv DEF Outgoing, TypeInv, TypeOK
<1>2. ASSUME NEW t \in Txs, Index(t), UNCHANGED assetVars
      PROVE  (tx[s] = "none" => tx'[s] = "none") /\ status'[s] = status[s]
  BY <1>1, <1>2 DEF Index, ChainTypeOK, assetVars
<1>3. ASSUME NEW r \in Receives, Pay(r)
      PROVE  (tx[s] = "none" => tx'[s] = "none") /\ status'[s] = status[s]
  BY <1>1, <1>3 DEF Pay, Paid, ChainTypeOK, assetVars
<1>4. ASSUME NEW x \in Sends, SendAttempt(x) PROVE FALSE
  BY <1>4 DEF SendAttempt
<1>5. CASE UNCHANGED <<tx, status>>
  BY <1>5
<1>6. CASE IssuedElsewhere \/ SendAborted \/ UNCHANGED vars \/ \E o \in OthersInflations : OthersInflate(o)
  BY <1>5, <1>6 DEF IssuedElsewhere, SendAborted, vars, chainVars, assetVars, OthersInflate
<1>7. CASE \E x \in Sends : SendBegin(x)
  BY <1>1, <1>7 DEF SendBegin, Ready
<1>. QED
  BY <1>1, <1>2, <1>3, <1>4, <1>6, <1>7
  DEF Next, NetworkNext, Outgoing, Ready, IssueAssetIfa, WaitConsignment, ReceiveSettles,
    InflateBegin, EndBroadcast, OutgoingSettles

(* What has not been rejected suffices.                                    *)
LEMMA AllowedSuffices ==
  ASSUME TypeInv, RetryInv, sending.send \in Sends, NEW X, X \subseteq allocs
  PROVE  /\ Total(X \ sending.rejected) \in Nat
         /\ Total(X) >= sending.needed => Total(X \ sending.rejected) >= sending.need
         /\ Total(X) < sending.needed /\ sending.rejected \subseteq X
               => Total(X \ sending.rejected) < sending.need
<1> DEFINE R == sending.rejected
<1>1. /\ sending.need \in Nat /\ sending.needed = sending.need + Total(R)
      /\ R \subseteq allocs
  BY DEF RetryInv, TypeInv, TypeOK, Offered
<1>2. Summable(X) /\ Summable(R)
  BY <1>1, AllocsSummable DEF TypeInv
<1>3. /\ Total(X) = Total(X \cap R) + Total(X \ (X \cap R))
      /\ Total(X \cap R) \in Nat /\ Total(X \ (X \cap R)) \in Nat
  BY <1>2, TotalSplit
<1>4. Total(R) = Total(X \cap R) + Total(R \ (X \cap R)) /\ Total(R \ (X \cap R)) \in Nat
  BY <1>2, TotalSplit
<1>5. X \ (X \cap R) = X \ R
  OBVIOUS
<1>6. Total(X) = Total(X \cap R) + Total(X \ R) /\ Total(X \ R) \in Nat
  BY <1>3, <1>5
<1>7. Total(X) >= sending.needed => Total(X \ R) >= sending.need
  BY <1>1, <1>3, <1>4, <1>6
<1>8. ASSUME R \subseteq X PROVE Total(X \cap R) = Total(R)
  <2>1. X \cap R = R
    BY <1>8
  <2>. QED
    BY <2>1
<1>9. Total(X) < sending.needed /\ R \subseteq X => Total(X \ R) < sending.need
  <2> SUFFICES ASSUME Total(X) < sending.needed, R \subseteq X PROVE Total(X \ R) < sending.need
    OBVIOUS
  <2>1. Total(X \cap R) = Total(R)
    BY <1>8
  <2> HIDE DEF R
  <2>. QED
    BY <1>1, <1>3, <1>6, <2>1
<1>. QED
  BY <1>6, <1>7, <1>9

LEMMA ChangeTotal ==
  ASSUME NEW kind, NEW amount \in Nat, NEW u, NEW t
  PROVE  Summable(Change(kind, amount, u, t)) /\ Total(Change(kind, amount, u, t)) = amount
<1> DEFINE k == Alloc(u, kind, amount, t)
<1>1. k.amount = amount
  BY DEF Alloc
<1>2. Change(kind, amount, u, t) = IF amount > 0 THEN {k} ELSE {}
  BY <1>1 DEF Change
<1> HIDE DEF k
<1>. QED
  BY <1>1, <1>2, TotalOfOne

(* What moves keeps its total.                                             *)
LEMMA MovedTotal ==
  ASSUME NEW extra, Summable(extra), \A j, k \in extra : Same(j, k) => j = k, NEW to, NEW t
  PROVE  Summable(Moved(extra, to, t)) /\ Total(Moved(extra, to, t)) = Total(extra)
<1> DEFINE T == Moved(extra, to, t)
           m == [k \in extra |-> MovedTo(k, to, t)]
<1>1. T = {MovedTo(k, to, t) : k \in extra}
  BY DEF Moved, MovedTo
<1>2. m \in [extra -> T] /\ \A k \in extra : m[k] = MovedTo(k, to, t)
  BY <1>1
<1>3. \A k \in extra : Same(m[k], k) /\ m[k].amount = k.amount
  BY <1>2 DEF MovedTo, Same
<1>4. \A y \in T : \E k \in extra : m[k] = y
  BY <1>1, <1>2
<1>5. \A j, k \in extra : m[j] = m[k] => j = k
  BY <1>3 DEF Same
<1> HIDE DEF T, m
<1>. QED
  BY <1>2, <1>3, <1>4, <1>5, TotalImage DEF T

(* What a round selects suffices for the amount to send.                   *)
LEMMA UsedSuffices ==
  ASSUME TypeInv, RetryInv, sending.send \in Sends, NEW hosts \in SUBSET External,
         hosts \in SelectRgbInputs(sending.kind, sending.needed),
         NEW used \in SUBSET allocs, used \in Contributing(Allowed(hosts), sending.needed)
  PROVE  /\ used \subseteq OfKindOn(hosts, sending.kind)
         /\ Total(used) >= sending.need /\ Total(used) \in Nat /\ sending.need \in Nat
<1> DEFINE X == OfKindOn(hosts, sending.kind)
<1>1. sending \in Sendings /\ TypeOK /\ FiniteInv
  BY DEF TypeInv, TypeOK, Sendings
<1>2. Allowed(hosts) = X \ sending.rejected /\ Allowed(hosts) \subseteq X /\ X \subseteq allocs
  BY DEF Allowed, OfKindOn, Of, On
<1>3. Summable(X \ sending.rejected) /\ Total(used) \in Nat /\ Total(sending.rejected) \in Nat
  BY <1>1, <1>2, AllocsSummable DEF RetryInv, Offered
<1>4. Total(X \ sending.rejected) >= sending.need
  BY <1>1, <1>2, SelectionReaches, AllowedSuffices
<1>5. sending.needed >= sending.need /\ sending.needed \in Nat /\ sending.need \in Nat
  BY <1>1, <1>3 DEF RetryInv, Sendings
<1>6. used \subseteq Allowed(hosts) /\ (Total(used) >= sending.needed \/ used = Allowed(hosts))
  BY <1>2, <1>3, <1>5, ContributingTotal
<1>. QED
  BY <1>2, <1>3, <1>4, <1>5, <1>6

LEMMA PreparedSend ==
  ASSUME TypeInv, CoreInv, RetryInv, NEW s \in Sends, sending.send = s,
         NEW hosts \in SUBSET External, NEW used \in SUBSET allocs, NEW fee \in SUBSET Free,
         hosts \in SelectRgbInputs(sending.kind, sending.needed),
         used \in Contributing(Allowed(hosts), sending.needed),
         NEW to, Drafted(s, hosts, used, fee, to)
  PROVE  /\ Total(OfKind(plan'[s].takes) \ sending.rejected) >= sending.need
         /\ Total(OfKind(plan'[s].brings)) = Total(OfKind(plan'[s].takes)) - sending.need
<1> DEFINE kind == sending.kind
           takes == UNION {On(u) : u \in hosts}
           X == OfKindOn(hosts, kind)
           moved == Moved(takes \ used, to, s)
<1>1. /\ hosts \subseteq Hosts(kind) /\ hosts \subseteq InputUnspents /\ s \in Outgoing
      /\ sending \in Sendings /\ TypeOK /\ FiniteInv
  BY HostFacts DEF Outgoing, TypeInv, TypeOK, Sendings
<1>2. plan'[s].takes = takes /\ plan'[s].brings = SendChange(s, used, to) \cup moved
  <2>1. plan = [x \in Outgoing |-> plan[x]]
    BY DEF TypeInv, IInv, AllocInv
  <2>. QED
    BY <1>1, <2>1 DEF Prepares, Drafted
<1>3. OfKind(takes) = X /\ X \subseteq allocs
  BY DEF OfKind, OfKindOn, Of, On
<1>4. Allowed(hosts) = X \ sending.rejected /\ Allowed(hosts) \subseteq X
  BY DEF Allowed, OfKindOn
<1>5. Summable(X) /\ Summable(X \ sending.rejected) /\ Summable(X \ used) /\ Total(X \ used) \in Nat
  BY <1>1, <1>3, AllocsSummable
<1>6. Total(X \ sending.rejected) >= sending.need
  BY <1>1, <1>3, SelectionReaches, AllowedSuffices
<1>7. used \subseteq X /\ Total(used) >= sending.need /\ Total(used) \in Nat
  BY UsedSuffices
<1>8. \A k \in takes : /\ k.source \in {Issue} \cup Begun
                       /\ \A j \in takes : Same(j, k) => j = k
  BY <1>1, InputFacts
<1>9. s \notin {Issue} \cup Begun
  BY <1>1, BegunFacts DEF Public, TypeInv, SendInv
<1> DEFINE change == SendChange(s, used, to)
           movedKind == Moved(X \ used, to, s)
<1>10. OfKind(change \cup moved) = change \cup movedKind
  <2>1. OfKind(change) = change
    BY DEF OfKind, SendChange, Change, Alloc
  <2>2. OfKind(moved) = movedKind
    <3>1. X = {k \in takes : k.kind = kind}
      BY <1>3 DEF OfKind
    <3>2. \A k \in takes : MovedTo(k, to, s).kind = k.kind
      BY DEF MovedTo
    <3>3. moved = {MovedTo(k, to, s) : k \in takes \ used}
          /\ movedKind = {MovedTo(k, to, s) : k \in X \ used}
      BY DEF Moved, MovedTo
    <3> HIDE DEF moved, movedKind, X, takes
    <3>. QED
      BY <3>1, <3>2, <3>3 DEF OfKind
  <2>3. OfKind(change \cup moved) = OfKind(change) \cup OfKind(moved)
    BY DEF OfKind
  <2>. QED
    BY <2>1, <2>2, <2>3
<1>11. change \cap movedKind = {}
  <2>1. \A k \in change : k.source = s
    BY DEF SendChange, Change, Alloc
  <2>2. \A k \in movedKind : k.source # s
    BY <1>3, <1>8, <1>9 DEF Moved, OfKind
  <2>. QED
    BY <2>1, <2>2
<1>12. Summable(change) /\ Total(change) = Total(used) - sending.need
  <2>1. Total(used) - sending.need \in Nat
    BY <1>1, <1>7 DEF Sendings
  <2>. QED
    BY <2>1, ChangeTotal DEF SendChange
<1>13. Summable(movedKind) /\ Total(movedKind) = Total(X \ used)
  <2>1. \A j, k \in X \ used : Same(j, k) => j = k
    BY <1>3, <1>8 DEF OfKind
  <2>. QED
    BY <1>5, <2>1, MovedTotal
<1>14. Total(change \cup movedKind) = Total(change) + Total(movedKind)
  BY <1>11, <1>12, <1>13, TotalUnion
<1>15. Total(X) = Total(used) + Total(X \ used)
  BY <1>5, <1>7, TotalSplit
<1>16. Total(OfKind(plan'[s].brings)) = Total(used) - sending.need + Total(X \ used)
  BY <1>2, <1>10, <1>12, <1>13, <1>14
<1>17. Total(OfKind(plan'[s].takes) \ sending.rejected) = Total(X \ sending.rejected)
       /\ Total(OfKind(plan'[s].takes)) = Total(X)
  BY <1>2, <1>3
<1> HIDE DEF X, takes, moved, change, movedKind
<1>18. sending.need \in Nat
  BY <1>1 DEF Sendings
<1>. QED
  BY <1>5, <1>6, <1>7, <1>15, <1>16, <1>17, <1>18

LEMMA RefusedSend ==
  ASSUME TypeInv, RetryInv, NEW s \in Sends, sending.send = s,
         SelectRgbInputs(sending.kind, sending.needed) = {}
  PROVE  Total(Allowed(Hosts(sending.kind))) < sending.need
<1> DEFINE X == OfKindOn(Hosts(sending.kind), sending.kind)
<1>1. X = {k \in allocs : Offered(k, sending.kind)} /\ sending.rejected \subseteq X /\ X \subseteq allocs
  BY OfferedOnHosts DEF RetryInv, Offered
<1>2. Allowed(Hosts(sending.kind)) = X \ sending.rejected
  BY DEF Allowed, OfKindOn
<1>3. sending.needed \in Nat \ {0}
  <2>1. sending \in Sendings /\ Total(sending.rejected) \in Nat
    BY AllocsSummable DEF TypeInv, TypeOK, Sendings, RetryInv, Offered
  <2>. QED
    BY <2>1 DEF RetryInv, Sendings
<1>4. Total(X) < sending.needed
  BY <1>3, NothingSelected
<1> HIDE DEF X
<1>. QED
  BY <1>1, <1>2, <1>4, AllowedSuffices

(* send_begin succeeds with enough inputs that no list has rejected, and   *)
(* all that it does not send comes back; it refuses for lack of            *)
(* assignments only if there are not enough that no list has rejected.     *)
THEOREM RetriesAreSound == Spec => RetryFindsAllowedInputs
<1> DEFINE Found ==
      \A s \in Sends : sending.send = s =>
        /\ tx'[s] = "prepared" /\ tx[s] = "none" =>
              /\ Total(OfKind(plan'[s].takes) \ sending.rejected) >= sending.need
              /\ Total(OfKind(plan'[s].brings)) = Total(OfKind(plan'[s].takes)) - sending.need
        /\ status'[s] = "Refused" /\ status[s] = "none" =>
              Total(Allowed(Hosts(sending.kind))) < sending.need
<1>1. Init => TypeInv /\ CoreInv /\ RetryInv
  BY TypeInvInit, CoreInit, NoSendInv DEF RetryInv, Init
<1>2. TypeInv /\ CoreInv /\ RetryInv /\ [Next]_vars => (TypeInv /\ CoreInv /\ RetryInv)'
  BY TypeInvStep, CoreStep, RetryStep
<1>3. TypeInv /\ CoreInv /\ RetryInv /\ [Next]_vars => [Found]_vars
  <2> SUFFICES ASSUME TypeInv, CoreInv, RetryInv, [Next]_vars, NEW s \in Sends, sending.send = s
               PROVE  /\ tx'[s] = "prepared" /\ tx[s] = "none" =>
                            /\ Total(OfKind(plan'[s].takes) \ sending.rejected) >= sending.need
                            /\ Total(OfKind(plan'[s].brings))
                                 = Total(OfKind(plan'[s].takes)) - sending.need
                      /\ status'[s] = "Refused" /\ status[s] = "none" =>
                            Total(Allowed(Hosts(sending.kind))) < sending.need
    OBVIOUS
  <2>1. CASE ~SendAttempt(s)
    BY <2>1, OnlyAttempts
  <2>2. CASE RefusesSend(s)
    BY <2>2, RefusedSend DEF RefusesSend
  <2>3. ASSUME NEW hosts \in SUBSET External, NEW used \in SUBSET allocs, NEW fee \in SUBSET Free,
               Attempts(s, hosts, used, fee), UNCHANGED tx
        PROVE  tx'[s] = tx[s] /\ status'[s] = status[s]
    BY <2>3 DEF Attempts
  <2>4. ASSUME NEW hosts \in SUBSET External, NEW used \in SUBSET allocs, NEW fee \in SUBSET Free,
               Attempts(s, hosts, used, fee), NEW to, Drafted(s, hosts, used, fee, to)
        PROVE  /\ Total(OfKind(plan'[s].takes) \ sending.rejected) >= sending.need
               /\ Total(OfKind(plan'[s].brings)) = Total(OfKind(plan'[s].takes)) - sending.need
               /\ status'[s] = status[s]
    <3>1. /\ hosts \in SelectRgbInputs(sending.kind, sending.needed)
          /\ used \in Contributing(Allowed(hosts), sending.needed) /\ status' = status
      BY <2>4 DEF Attempts
    <3>. QED
      BY <2>4, <3>1, PreparedSend
  <2>. QED
    BY <2>1, <2>2, <2>3, <2>4, AttemptFacts DEF Attempts
<1>. QED
  BY <1>1, <1>2, <1>3, PTL DEF Spec, RetryFindsAllowedInputs

=============================================================================
