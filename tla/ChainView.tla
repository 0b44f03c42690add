----------------------------- MODULE ChainView ------------------------------
(***************************************************************************)
(* One wallet's view of the chain.  Its outputs belong to two keychains:   *)
(* the internal one holds vanilla bitcoins, the external one the UTXOs     *)
(* that may carry RGB allocations.  Three records of them exist: what is   *)
(* public, what BDK's graph holds, and the txo table of the database,      *)
(* which only knows external outputs.  A sync brings the last two in line  *)
(* with the indexer, which may lag behind the network.                     *)
(*                                                                         *)
(* The transactions prepared here are those without RGB: create_utxos,     *)
(* send_btc and drain_to.  InflatableAsset adds those that carry           *)
(* allocations.  Bitcoin amounts are left out: a PSBT may spend any of the *)
(* outputs it is allowed to.                                               *)
(***************************************************************************)
EXTENDS Integers, FiniteSets

CONSTANTS Funding,    \* payments to an internal address, which the wallet starts with
          Creates,    \* create_utxos
          Payments,   \* send_btc, or drain_to without destroy_assets; their change is left out
          Colored,    \* transactions that carry allocations
          Made,       \* per transaction, its outputs for this wallet; 0: the internal one
          SkipSync    \* the skip_sync values applications pass to send_btc_begin

Txs   == Funding \cup Creates \cup Payments \cup Colored
Txos  == UNION {{t} \X Made[t] : t \in Txs}
Maker(u) == u[1]
Internal == {u \in Txos : u[2] = 0}
External == Txos \ Internal

ASSUME TransactionsAssumption ==
    /\ Funding \cap Creates = {} /\ (Funding \cup Creates) \cap Payments = {}
    /\ (Funding \cup Creates \cup Payments) \cap Colored = {}
    /\ IsFiniteSet(Txs) /\ SkipSync \subseteq BOOLEAN /\ DOMAIN Made = Txs
    /\ \A t \in Txs : IsFiniteSet(Made[t]) /\ Made[t] \subseteq Nat
    /\ \A t \in Funding : Made[t] = {0}
    /\ \A t \in Payments : Made[t] = {}
    /\ \A t \in Colored : 0 \notin Made[t]

VARIABLES
    tx,        \* how far each transaction has come
    inputs,    \* the outputs of this wallet it spends
    graph,     \* transactions that are canonical in BDK's graph
    rows,      \* the txo table: per external output, its row
    panicked   \* an expect() failed: the wallet object is unusable

chainVars == <<tx, inputs, graph, rows, panicked>>

(* "prepared": the application has the PSBT; "public": the network has the *)
(* transaction; "indexed": the indexer shows it.                           *)
TxStates == {"none", "prepared", "public", "indexed"}
(* "expected": a row with exists unset.                                    *)
RowStates == {"none", "expected", "there", "spent"}

ChainTypeOK ==
    /\ tx \in [Txs -> TxStates] /\ inputs \in [Txs -> SUBSET Txos]
    /\ graph \subseteq Txs /\ rows \in [External -> RowStates] /\ panicked \in BOOLEAN

ChainInit ==
    /\ tx = [t \in Txs |-> IF t \in Funding THEN "indexed" ELSE "none"]
    /\ inputs = [t \in Txs |-> {}]
    /\ graph = Funding /\ rows = [u \in External |-> "none"] /\ panicked = FALSE

-----------------------------------------------------------------------------
(* The network and BDK.                                                    *)

Public(t)  == tx[t] \in {"public", "indexed"}
Indexed    == {t \in Txs : tx[t] = "indexed"}
SpentBy(S) == UNION {inputs[t] : t \in S}
(* Outputs of the transactions in S that none of S spends.                 *)
UnspentIn(S) == {u \in Txos : Maker(u) \in S} \ SpentBy(S)

(* The network takes a transaction whose inputs exist and are not spent.   *)
Acceptable(t) ==
    /\ \A u \in inputs[t] : Public(Maker(u))
    /\ \A x \in Txs \ {t} : Public(x) => inputs[x] \cap inputs[t] = {}

(* Somebody pays this wallet.                                              *)
Paid(t) ==
    /\ tx[t] = "none"
    /\ tx' = [tx EXCEPT ![t] = "public"]
    /\ UNCHANGED <<inputs, graph, rows, panicked>>

(* The indexer learns of a transaction, after those it spends from.        *)
Index(t) ==
    /\ tx[t] = "public" /\ \A u \in inputs[t] : Maker(u) \in Indexed
    /\ tx' = [tx EXCEPT ![t] = "indexed"]
    /\ UNCHANGED <<inputs, graph, rows, panicked>>

(* A sync may evict what the indexer does not show.                        *)
SyncedGraphs(g, indexed) == {indexed, indexed \cup g}

(* set_txo makes a row or raises the exists flag of one.                   *)
Noted(state) == IF state \in {"none", "expected"} THEN "there" ELSE state
NotedRows(r, g) ==
    [u \in External |-> IF u \in UnspentIn(g) THEN Noted(r[u]) ELSE r[u]]

(* sync_db_txos, which most calls begin with.                              *)
NotSynced == UNCHANGED <<graph, rows>>
Synced == graph' \in SyncedGraphs(graph, Indexed) /\ rows' = NotedRows(rows, graph')

Sync ==
    /\ ~panicked
    /\ Synced
    /\ UNCHANGED <<tx, inputs, panicked>>

-----------------------------------------------------------------------------
(* _broadcast_psbt.                                                        *)

HasRow(u) == rows[u] # "none"
(* Each input is an internal output that BDK lists, or has a row.          *)
InputsFound(t) ==
    \A u \in inputs[t] \ (Internal \cap UnspentIn(graph)) : u \in External /\ HasRow(u)

SpendNoRows(r, t) == r
SpendRows(r, t) == [u \in External |-> IF u \in inputs[t] THEN "spent" ELSE r[u]]

(* apply_unconfirmed_txs: t becomes canonical, and with it all it needs.   *)
Grounded(S) == \A u \in SpentBy(S) : Maker(u) \in S
Ancestry(t) == {x \in Txs : \A S \in SUBSET Txs : t \in S /\ Grounded(S) => x \in S}
Observed(g, t) == g \cup Ancestry(t)

(* The transaction gets to the network; the indexer may show it at once.   *)
Published(t) ==
    \E now \in {"public"} \cup {x \in {"indexed"} : \A u \in inputs[t] : Maker(u) \in Indexed} :
        tx' = [tx EXCEPT ![t] = now]

(* Once the network has the transaction a broadcast may panic at an input  *)
(* that is not found, fail in the sync, or end well, in one of these ways. *)
BroadcastPanics(t) ==
    /\ ~InputsFound(t)
    /\ panicked' = TRUE /\ UNCHANGED <<graph, rows>>
BroadcastSyncFails(t) ==
    /\ InputsFound(t)
    /\ rows' = SpendRows(rows, t) /\ UNCHANGED <<graph, panicked>>
Broadcasts(t, skipSync, indexed) ==
    {[graph |-> Observed(g, t),
      rows  |-> IF skipSync THEN SpendRows(rows, t) ELSE NotedRows(SpendRows(rows, t), g)] :
        g \in IF skipSync THEN {graph} ELSE SyncedGraphs(graph, indexed)}
BroadcastCompletes(t, skipSync) ==
    /\ InputsFound(t)
    /\ \E b \in Broadcasts(t, skipSync, Indexed') : graph' = b.graph /\ rows' = b.rows
    /\ UNCHANGED panicked

(* The application may end a PSBT again, which works once the indexer      *)
(* knows the transaction.                                                  *)
VanillaEnds(t, skipSync) ==
    /\ ~panicked
    /\ \/ tx[t] = "prepared" /\ Acceptable(t) /\ Published(t)
       \/ tx[t] = "indexed" /\ UNCHANGED tx
    /\ \/ BroadcastPanics(t)
       \/ BroadcastSyncFails(t)
       \/ BroadcastCompletes(t, skipSync)
    /\ UNCHANGED inputs

CreateUtxosEnd(t) == \E skipSync \in BOOLEAN : VanillaEnds(t, skipSync)
SendBtcEnd(t)     == \E skipSync \in BOOLEAN : VanillaEnds(t, skipSync)
DrainToEnd(t)     == VanillaEnds(t, FALSE)

-----------------------------------------------------------------------------
(* Preparing transactions without RGB.                                     *)

UnspendableBeforeSync(u) == u \in External /\ HasRow(u)
(* _get_unspendable_bdk_outpoints: every output with a row.                *)
Unspendable(u) == u \in External /\ HasRow(u)'

VanillaBegins(t, spends) ==
    /\ spends # {}
    /\ inputs' = [inputs EXCEPT ![t] = spends]
    /\ tx' = [tx EXCEPT ![t] = "prepared"]
    /\ UNCHANGED panicked

(* create_utxos_begin spends every internal output BDK lists.              *)
CreateUtxosBegin(t) ==
    /\ ~panicked /\ tx[t] = "none"
    /\ Synced \/ NotSynced
    /\ VanillaBegins(t, Internal \cap UnspentIn(graph'))

(* send_btc_begin: BDK picks what it needs.                                *)
SendBtcBegin(t) ==
    /\ ~panicked /\ tx[t] = "none"
    /\ \E skip \in SkipSync : IF skip THEN NotSynced ELSE Synced
    /\ \E spends \in SUBSET {u \in UnspentIn(graph') : ~Unspendable(u)} : VanillaBegins(t, spends)

DrainToBegin(t) ==
    /\ ~panicked /\ tx[t] = "none"
    /\ Synced
    /\ VanillaBegins(t, {u \in UnspentIn(graph') : ~Unspendable(u)})

NetworkNext ==
    \E t \in Txs : Index(t)

VanillaNext ==
    \/ Sync
    \/ \E t \in Creates : CreateUtxosBegin(t) \/ CreateUtxosEnd(t)
    \/ \E t \in Payments : \/ SendBtcBegin(t) \/ DrainToBegin(t)
                          \/ SendBtcEnd(t) \/ DrainToEnd(t)
=============================================================================
