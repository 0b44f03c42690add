---------------------------- MODULE WalletLedger ----------------------------
(***************************************************************************)
(* The database of one wallet: its colored UTXOs, its batch transfers and  *)
(* the colorings that say which transfer puts which allocation on which    *)
(* UTXO, or takes it from there.  Which UTXOs an operation may use, and    *)
(* every balance, is computed from these tables.                           *)
(*                                                                         *)
(* A batch transfer is an issuance, a receive on a blinded UTXO, a receive *)
(* by a witness transaction, or a send.  What the counterparties do is in  *)
(* module RgbTransfer; here they acknowledge, pay and give up at will.     *)
(* The RGB stock is external: the allocations it knows on a selected UTXO  *)
(* are those the database shows as settled.                                *)
(***************************************************************************)
EXTENDS Integers, FiniteSets, FiniteSetsExt, Selection

CONSTANTS Utxos,           \* UTXOs made by create_utxos
          Issues, Blind, Witness, Sends,  \* the batch transfers, by kind
          AssetOf,         \* the asset a batch transfer is about
          MaxAmount,       \* bound on the amounts issued, received and sent
          InvoiceAmounts,  \* the amounts of invoices; 0: any amount
          MaxAllocations,  \* max_allocations_per_utxo
          FeeInputs,       \* a send may need a further UTXO for its fee
          Interleaved      \* other operations run between send_begin and send_end

Receives  == Blind \cup Witness
Transfers == Issues \cup Receives \cup Sends
Assets    == {AssetOf[t] : t \in Transfers}

(* The output that the transaction of a witness receive or of a send makes *)
(* for this wallet is named after it.                                      *)
Txos == Utxos \cup Witness \cup Sends

ASSUME ConstantsAssumption ==
    /\ IsFiniteSet(Txos) /\ IsFiniteSet(Issues) /\ IsFiniteSet(Blind)
    /\ Utxos \cap Transfers = {} /\ Sends \cap (Issues \cup Receives) = {}
    /\ Issues \cap Receives = {} /\ Blind \cap Witness = {}
    /\ DOMAIN AssetOf = Transfers
    /\ InvoiceAmounts \subseteq Nat
    /\ MaxAmount \in Nat /\ MaxAllocations \in Nat \ {0}
    /\ FeeInputs \in BOOLEAN /\ Interleaved \in BOOLEAN

VARIABLES
    txos,       \* the rows of the txo table
    status,     \* the status of each batch transfer
    colorings,  \* the coloring table
    seal,       \* per blinded receive, the UTXO behind its recipient ID, once there is one
    requested,  \* per receive, the amount of its invoice
    scripts,    \* witness receives whose script is in pending_witness_scripts
    plan,       \* per transfer, what its transaction does to this wallet
    published   \* transfers whose transaction is public

vars == <<txos, status, colorings, seal, requested, scripts, plan, published>>

(* "Prepared" stands for an entry of transfer_artifacts: the database has  *)
(* no row before send_end.                                                 *)
Statuses == {"Absent", "Prepared", "WaitingCounterparty", "WaitingConfirmations",
             "Settled", "Failed", "Gone"}

Row(exists, pendingWitness) ==
    [known |-> TRUE, exists |-> exists, spent |-> FALSE, pendingWitness |-> pendingWitness]
NoRow == [known |-> FALSE, exists |-> FALSE, spent |-> FALSE, pendingWitness |-> FALSE]
Rows  == [known : BOOLEAN, exists : BOOLEAN, spent : BOOLEAN, pendingWitness : BOOLEAN]

(* An allocation is known by the transfer it comes from, its source, and   *)
(* moves with it from UTXO to UTXO.  A coloring records that transfer by   *)
(* puts an allocation on a UTXO or, as "Input", takes it from there.       *)
Allocations == [txo : Txos, source : Transfers, amount : Nat]
Types       == {"Issue", "Receive", "Change", "Input"}
Colorings   == [txo : Txos, source : Transfers, amount : Nat, by : Transfers, type : Types]
Color(allocs, t, type) ==
    {[txo |-> k.txo, source |-> k.source, amount |-> k.amount, by |-> t, type |-> type]
       : k \in allocs}

Plans   == [inputs : SUBSET Txos, takes : SUBSET Allocations, brings : SUBSET Allocations,
            ownOutput : BOOLEAN, donation : BOOLEAN]
NoPlan  == [inputs |-> {}, takes |-> {}, brings |-> {}, ownOutput |-> FALSE, donation |-> FALSE]

TypeOK ==
    /\ txos \in [Txos -> Rows] /\ status \in [Transfers -> Statuses]
    /\ colorings \subseteq Colorings
    /\ seal \in [Blind -> SUBSET Txos] /\ requested \in [Receives -> Nat]
    /\ scripts \subseteq Witness /\ plan \in [Transfers -> Plans]
    /\ published \subseteq Transfers

Init ==
    /\ txos = [u \in Txos |-> IF u \in Utxos THEN Row(TRUE, FALSE) ELSE NoRow]
    /\ status = [t \in Transfers |-> "Absent"]
    /\ colorings = {}
    /\ seal = [r \in Blind |-> {}]
    /\ requested = [r \in Receives |-> 0]
    /\ scripts = {} /\ plan = [t \in Transfers |-> NoPlan] /\ published = {}

-----------------------------------------------------------------------------
(* Allocations and the UTXOs they are on.                                  *)

On(u)       == {c \in colorings : c.txo = u}
Incoming(c) == c.type # "Input"
Failed(c)   == status[c.by] = "Failed"
Pending(c)  == status[c.by] \in {"WaitingCounterparty", "WaitingConfirmations"}

PendingBlinded(u) == Cardinality({r \in Blind : /\ status[r] = "WaitingCounterparty"
                                                /\ u \in seal[r]})

(* LocalRgbAllocation::settled and ::future.                               *)
IsSettled(c) ==
    IF txos[c.txo].spent THEN ~Incoming(c) /\ status[c.by] = "WaitingConfirmations"
                         ELSE Incoming(c) /\ status[c.by] = "Settled"
IsFuture(c) == ~txos[c.txo].spent /\ Incoming(c) /\ ~Failed(c) /\ ~IsSettled(c)

Unspent == {u \in Txos : txos[u].known /\ ~txos[u].spent}
InUse(u) == {c \in On(u) : ~Failed(c)}
Load(u)  == Cardinality(InUse(u)) + PendingBlinded(u)
TakenByWaitingSend(u) ==
    \E c \in On(u) : ~Incoming(c) /\ status[c.by] = "WaitingCounterparty"

(* UTXOs of a set with room for another allocation.                        *)
AvailableAllocations(unspents, exclude, max) ==
    {u \in unspents \ exclude :
        /\ txos[u].exists /\ ~txos[u].pendingWitness
        /\ Load(u) <= max
        /\ ~TakenByWaitingSend(u)}

LeastLoaded(S) == {u \in S : \A v \in S : Load(u) <= Load(v)}

(* The UTXOs get_utxo may return; equally loaded ones in any order.        *)
GetUtxo(exclude, pendingOperation) ==
    LET allocatable == AvailableAllocations(Unspent, exclude, MaxAllocations - 1)
        preferred == {u \in allocatable : pendingOperation = \E c \in InUse(u) : IsFuture(c)}
    IN  UNION {IF InUse(u) = {} \/ Cardinality(allocatable) = 1 \/ preferred = {}
               THEN {u} ELSE LeastLoaded(preferred) : u \in LeastLoaded(allocatable)}

-----------------------------------------------------------------------------
(* Issuing and receiving.                                                  *)

(* Nothing else runs between send_begin and send_end, unless Interleaved.  *)
Ready == Interleaved \/ \A s \in Sends : status[s] # "Prepared"

(* One amount of an issuance; each further one goes to another UTXO.       *)
Issue(t) ==
    /\ Ready /\ status[t] = "Absent"
    /\ \E u \in GetUtxo({}, FALSE), amount \in 1..MaxAmount :
          LET issued == {[txo |-> u, source |-> t, amount |-> amount]}
          IN  /\ plan' = [plan EXCEPT ![t].brings = issued]
              /\ colorings' = colorings \cup Color(issued, t, "Issue")
    /\ status' = [status EXCEPT ![t] = "Settled"]
    /\ UNCHANGED <<txos, seal, requested, scripts, published>>

Receive(r) ==
    /\ Ready /\ status[r] = "Absent"
    /\ status' = [status EXCEPT ![r] = "WaitingCounterparty"]
    /\ \E amount \in InvoiceAmounts : requested' = [requested EXCEPT ![r] = amount]
    /\ UNCHANGED <<txos, colorings, plan, published>>

BlindReceiveToScript(r) ==
    Receive(r) /\ scripts' = scripts \cup {r}
               /\ \E u \in GetUtxo({}, TRUE) : seal' = [seal EXCEPT ![r] = {u}]
BlindReceive(r) ==
    /\ Receive(r)
    /\ \E u \in GetUtxo({}, TRUE) : seal' = [seal EXCEPT ![r] = {u}]
    /\ UNCHANGED scripts

WitnessReceive(r) ==
    /\ Receive(r)
    /\ scripts' = scripts \cup {r}
    /\ UNCHANGED seal

(* The consignment is valid and its ACK posted.  The amount is not checked *)
(* against the invoice.                                                    *)
Acknowledge(r) ==
    /\ Ready /\ status[r] = "WaitingCounterparty"
    /\ \E u \in IF r \in Blind THEN seal[r] ELSE {r}, amount \in 1..MaxAmount :
          LET received == {[txo |-> u, source |-> r, amount |-> amount]}
          IN  /\ plan' = [plan EXCEPT ![r].brings = received]
              /\ colorings' = colorings \cup Color(received, r, "Receive")
    /\ txos' = IF r \in Witness /\ ~txos[r].known
               THEN [txos EXCEPT ![r] = Row(FALSE, TRUE)] ELSE txos
    /\ status' = [status EXCEPT ![r] = "WaitingConfirmations"]
    /\ UNCHANGED <<seal, requested, scripts, published>>

(* The sender makes its transaction public; for a donation at any time.    *)
Pay(r) ==
    /\ status[r] # "Absent" /\ r \notin published
    /\ published' = published \cup {r}
    /\ UNCHANGED <<txos, status, colorings, seal, requested, scripts, plan>>

-----------------------------------------------------------------------------
(* The txo table.                                                          *)

(* Outputs that belong to this wallet, as the indexer may come to know     *)
(* them.                                                                   *)
Outputs(public) ==
    {t \in public \cap Txos : /\ t \in Sends => plan[t].ownOutput
                              /\ \A s \in public \cap Sends : t \notin plan[s].inputs}

(* set_txo: a row that is there only has its exists flag raised.           *)
SetTxo(rows, u) ==
    IF rows[u].known THEN [rows[u] EXCEPT !.exists = TRUE] ELSE Row(TRUE, u \in scripts)

(* sync_db_txos, when the indexer shows these outputs.                     *)
Synced(rows, seen) == [u \in Txos |-> IF u \in seen THEN SetTxo(rows, u) ELSE rows[u]]

Sync ==
    /\ Ready
    /\ \E seen \in SUBSET Outputs(published) :
          txos' = Synced(txos, seen) /\ scripts' = scripts \ seen
    /\ UNCHANGED <<status, colorings, seal, requested, plan, published>>

KeepPendingWitness(rows, r) == rows
WitnessArrived(rows, r) ==
    IF r \in Witness THEN [rows EXCEPT ![r].pendingWitness = FALSE] ELSE rows

(* A receive settles; a witness one syncs first, unless told not to.       *)
ReceiveSettles(r) ==
    /\ Ready /\ status[r] = "WaitingConfirmations" /\ r \in published
    /\ \E seen \in SUBSET (IF r \in Witness THEN Outputs(published) ELSE {}) :
          txos' = WitnessArrived(Synced(txos, seen), r) /\ scripts' = scripts \ seen
    /\ status' = [status EXCEPT ![r] = "Settled"]
    /\ UNCHANGED <<colorings, seal, requested, plan, published>>

-----------------------------------------------------------------------------
(* Sending.                                                                *)

IgnoreBlinded(u) ==
    /\ \A c \in On(u) : Incoming(c) => ~Pending(c)
    /\ ~TakenByWaitingSend(u) /\ ~txos[u].pendingWitness /\ txos[u].exists
IgnoreWaitingSends(u) ==
    /\ \A c \in On(u) : Incoming(c) => ~Pending(c)
    /\ ~txos[u].pendingWitness /\ PendingBlinded(u) = 0 /\ txos[u].exists
(* get_input_unspents.                                                     *)
UsableAsInput(u) ==
    /\ \A c \in On(u) : Incoming(c) => ~Pending(c)
    /\ ~TakenByWaitingSend(u)
    /\ ~txos[u].pendingWitness
    /\ PendingBlinded(u) = 0
    /\ txos[u].exists
InputUnspents == {u \in Unspent : UsableAsInput(u)}

SpendableOn(u, asset) ==
    {c \in On(u) : AssetOf[c.source] = asset /\ status[c.by] = "Settled"}

(* _select_rgb_inputs: ordered by all the amounts of a UTXO, whatever      *)
(* their asset and status, until those of the asset suffice.               *)
SelectRgbInputs(asset, need) ==
    LET hosts == {u \in InputUnspents : SpendableOn(u, asset) # {}}
    IN  Reaching(hosts, [u \in hosts |-> Total(On(u))],
                 [u \in hosts |-> Total(SpendableOn(u, asset))], need)

(* What the RGB stock knows on the selected inputs.                        *)
Assigned(inputs) ==
    {[txo |-> c.txo, source |-> c.source, amount |-> c.amount] :
        c \in {c \in colorings : c.txo \in inputs /\ Incoming(c) /\ status[c.by] = "Settled"}}

(* A further UTXO without allocations if the inputs do not pay the fee;    *)
(* one is enough for any fee.                                              *)
FeeInput(rgb) ==
    {{}} \cup {{u} : u \in IF FeeInputs THEN AvailableAllocations(InputUnspents, rgb, 0) ELSE {}}

(* The assigned allocations of the asset that are spent, smallest first.   *)
Spent(assigned, asset, need) ==
    LET mine    == {k \in assigned : AssetOf[k.source] = asset}
        amounts == [k \in mine |-> k.amount]
    IN  Reaching(mine, amounts, amounts, need)

(* Where what stays goes: the output of the bitcoin change or, without     *)
(* one, a UTXO that is not an input.                                       *)
ChangeSeal(s, ownOutput, inputs) == IF ownOutput THEN {s} ELSE GetUtxo(inputs, TRUE)
Change(s, to, amount) == {k \in {[txo |-> to, source |-> s, amount |-> amount]} : k.amount > 0}
(* The extra allocations of the inputs move along.                         *)
Moved(extra, to) == {[k EXCEPT !.txo = to] : k \in extra}

(* send_begin prepares the PSBT; nothing is written to the database.       *)
SendBegin(s) ==
    /\ Ready /\ status[s] = "Absent"
    /\ \E need \in 1..MaxAmount, ownOutput \in BOOLEAN, donation \in BOOLEAN :
       \E rgb \in SelectRgbInputs(AssetOf[s], need) : \E fee \in FeeInput(rgb) :
       \E used \in Spent(Assigned(rgb), AssetOf[s], need) :
       \E amount \in 0..MaxAmount * Cardinality(Transfers) :
          LET extra == Assigned(rgb) \ used
          IN  \E to \in IF amount = 0 /\ extra = {} THEN {s} ELSE ChangeSeal(s, ownOutput, rgb \cup fee) :
                 /\ Total(used) = need + amount
                 /\ plan' = [plan EXCEPT ![s] =
                      [inputs |-> rgb \cup fee, takes |-> Assigned(rgb),
                       brings |-> Change(s, to, amount) \cup Moved(extra, to),
                       ownOutput |-> ownOutput, donation |-> donation]]
    /\ status' = [status EXCEPT ![s] = "Prepared"]
    /\ UNCHANGED <<txos, colorings, seal, requested, scripts, published>>

(* _save_transfers: the row of the change output and the colorings.        *)
OwnRow(rows, s) ==
    IF plan[s].ownOutput /\ ~rows[s].known THEN [rows EXCEPT ![s] = Row(FALSE, FALSE)] ELSE rows
ColorSend(s) ==
    colorings \cup Color(plan[s].takes, s, "Input") \cup Color(plan[s].brings, s, "Change")

SendEnd(s) ==
    /\ status[s] = "Prepared" /\ ~plan[s].donation
    /\ txos' = OwnRow(txos, s) /\ colorings' = ColorSend(s)
    /\ status' = [status EXCEPT ![s] = "WaitingCounterparty"]
    /\ UNCHANGED <<seal, requested, scripts, plan, published>>

(* send_end fails on the way: the artifacts are gone, nothing is saved.    *)
SendAborted(s) ==
    /\ status[s] = "Prepared"
    /\ status' = [status EXCEPT ![s] = "Gone"] /\ plan' = [plan EXCEPT ![s] = NoPlan]
    /\ UNCHANGED <<txos, colorings, seal, requested, scripts, published>>

KeepInputs(rows, s) == rows
(* _broadcast_psbt marks every input as spent.                             *)
SpendInputs(rows, s) ==
    [u \in Txos |-> IF u \in plan[s].inputs THEN [rows[u] EXCEPT !.spent = TRUE] ELSE rows[u]]

(* The network takes one transaction of those that spend an output.        *)
NoConflict(s) == \A x \in (published \cap Sends) \ {s} : plan[x].inputs \cap plan[s].inputs = {}

(* A donation is broadcast, then saved.  If the sync in between fails the  *)
(* artifacts are gone and nothing is saved.                                *)
SendDonation(s) ==
    /\ status[s] = "Prepared" /\ plan[s].donation /\ NoConflict(s)
    /\ published' = published \cup {s}
    /\ \/ \E seen \in SUBSET Outputs(published') :
             /\ txos' = OwnRow(Synced(SpendInputs(txos, s), seen), s)
             /\ scripts' = scripts \ seen
             /\ colorings' = ColorSend(s)
             /\ status' = [status EXCEPT ![s] = "WaitingConfirmations"]
       \/ /\ txos' = SpendInputs(txos, s)
          /\ status' = [status EXCEPT ![s] = "Gone"]
          /\ UNCHANGED <<scripts, colorings>>
    /\ UNCHANGED <<seal, requested, plan>>

(* The recipients have acknowledged: refresh broadcasts.  If the sync that *)
(* follows fails the inputs are spent and the transfer still waits.        *)
Broadcast(s) ==
    /\ Ready /\ status[s] = "WaitingCounterparty" /\ NoConflict(s)
    /\ published' = published \cup {s}
    /\ \/ \E seen \in SUBSET Outputs(published') :
             /\ txos' = Synced(SpendInputs(txos, s), seen)
             /\ scripts' = scripts \ seen
             /\ status' = [status EXCEPT ![s] = "WaitingConfirmations"]
       \/ txos' = SpendInputs(txos, s) /\ UNCHANGED <<scripts, status>>
    /\ UNCHANGED <<colorings, seal, requested, plan>>

SendSettles(s) ==
    /\ Ready /\ status[s] = "WaitingConfirmations"
    /\ status' = [status EXCEPT ![s] = "Settled"]
    /\ UNCHANGED <<txos, colorings, seal, requested, scripts, plan, published>>

(* A NACK, fail_transfers or a refused consignment.  A send that was       *)
(* broadcast does not fail (RgbTransfer, FailedNeverBroadcast).            *)
Fail(t) ==
    /\ Ready /\ status[t] = "WaitingCounterparty" /\ (t \in Sends => t \notin published)
    /\ status' = [status EXCEPT ![t] = "Failed"]
    /\ UNCHANGED <<txos, colorings, seal, requested, scripts, plan, published>>

(* delete_transfers: the colorings of the transfer, and rows of outputs    *)
(* that never came to exist with every coloring on them.                   *)
Deletes(t, u) == ~txos[u].exists /\ \E c \in On(u) : c.by = t
Delete(t) ==
    /\ Ready /\ status[t] = "Failed"
    /\ colorings' = {c \in colorings : c.by # t /\ ~Deletes(t, c.txo)}
    /\ txos' = [u \in Txos |-> IF Deletes(t, u) THEN NoRow ELSE txos[u]]
    /\ status' = [status EXCEPT ![t] = "Gone"]
    /\ UNCHANGED <<seal, requested, scripts, plan, published>>

-----------------------------------------------------------------------------
Next ==
    \/ \E t \in Issues : Issue(t)
    \/ \E r \in Blind : BlindReceive(r)
    \/ \E r \in Witness : WitnessReceive(r)
    \/ \E r \in Receives : Acknowledge(r) \/ Pay(r) \/ ReceiveSettles(r)
    \/ \E s \in Sends : \/ SendBegin(s) \/ SendEnd(s) \/ SendAborted(s) \/ SendDonation(s)
                        \/ Broadcast(s) \/ SendSettles(s)
    \/ \E t \in Receives \cup Sends : Fail(t) \/ Delete(t)
    \/ Sync

Spec == Init /\ [][Next]_vars

-----------------------------------------------------------------------------
(* Balances, as get_asset_balance computes them.                           *)

Of(asset) == {c \in colorings : AssetOf[c.source] = asset}
SettledBalance(asset) == Total({c \in Of(asset) : IsSettled(c)})

(* A txo whose settled allocations do not count as spendable.              *)
Unspendable(u) ==
    IF txos[u].spent
    THEN \E c \in On(u) : ~Incoming(c) /\ status[c.by] = "WaitingConfirmations"
    ELSE \/ \E c \in On(u) : IF Incoming(c) THEN Pending(c) ELSE ~Failed(c)
         \/ PendingBlinded(u) > 0
SpendableBalance(asset) ==
    SettledBalance(asset) - Total({c \in Of(asset) : IsSettled(c) /\ Unspendable(c.txo)})

(* Before the cast to u64.                                                 *)
FutureBalance(asset) ==
    LET incoming == {c \in Of(asset) : Incoming(c) /\ Pending(c) /\ ~txos[c.txo].spent}
        outgoing == {c \in Of(asset) : ~Incoming(c) /\ Pending(c)}
        awaited  == {r \in Witness : AssetOf[r] = asset /\ status[r] = "WaitingConfirmations"}
    IN  SettledBalance(asset) + Total(incoming)
          + MapThenSumSet(LAMBDA r : requested[r], awaited) - Total(outgoing)

-----------------------------------------------------------------------------
(* Properties.                                                             *)

Saved(t) == status[t] \in {"WaitingCounterparty", "WaitingConfirmations", "Settled"}

(* No two sends of the database take the same allocation: get_input_       *)
(* unspents keeps away from what a waiting send has taken.                 *)
SendsTakeDisjointAllocations ==
    \A s, x \in Sends : s # x /\ Saved(s) /\ Saved(x) => plan[s].takes \cap plan[x].takes = {}

(* "consider the following UTXOs unspendable: ... pending incoming         *)
(* blinded" (get_input_unspents): no transaction of the wallet spends the  *)
(* UTXO of a receive that is still waited for.                             *)
PendingBlindedIsUnspent ==
    \A r \in Blind, s \in Sends \cap published :
        status[r] \in {"WaitingCounterparty", "WaitingConfirmations"} => seal[r] \cap plan[s].inputs = {}

(* Nothing the wallet was given is lost: a transaction of the wallet that  *)
(* spends a UTXO moves every allocation that is on it or still comes.      *)
NothingIsBurned ==
    /\ PendingBlindedIsUnspent
    /\ \A t \in Transfers, s \in Sends \cap published :
          Saved(t) => \A k \in plan[t].brings : k.txo \in plan[s].inputs => k \in plan[s].takes

(* The settled balance is what settled transfers brought and no public     *)
(* transaction took away; a send that waits for confirmations is not       *)
(* counted yet.  ("based on operations that have reached the final         *)
(* status")                                                                *)
Brought == UNION {plan[t].brings : t \in {t \in Transfers : status[t] = "Settled"}}
Taken   == UNION {plan[s].takes : s \in {s \in Sends \cap published :
                                             status[s] # "WaitingConfirmations"}}
SettledIsOwned ==
    \A asset \in Assets :
        SettledBalance(asset) = Total({k \in Brought \ Taken : AssetOf[k.source] = asset})

(* The spendable balance is what send_begin can select, once every output  *)
(* of the wallet has been synced.  ("only including balance that can       *)
(* actually be spent")                                                     *)
SpendableIsSelectable ==
    (\A u \in Outputs(published) : txos[u].exists) =>
        \A asset \in Assets :
            SpendableBalance(asset) =
                Total({c \in Of(asset) : c.txo \in InputUnspents /\ status[c.by] = "Settled"})

(* The future balance is what the transfers in the database will leave     *)
(* when all are settled.  ("including settled operations plus ones are not *)
(* yet finalized")                                                         *)
FutureIsPlanned ==
    \A asset \in Assets :
        FutureBalance(asset) =
            Total({k \in UNION {plan[t].brings : t \in {t \in Transfers : Saved(t)}} :
                       /\ AssetOf[k.source] = asset
                       /\ \A s \in Sends : Saved(s) => k \notin plan[s].takes})
=============================================================================
