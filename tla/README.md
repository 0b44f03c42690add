# Verification of rgb-lib-wasm

TLA+ specifications of the wallet in `src/` (rgb-lib compiled for the browser:
one wallet per page, its state in memory, snapshots in IndexedDB, RGB transfers
exchanged with other wallets through HTTP proxies), the TLC configurations that
check them on small instances, and TLAPS proofs of the results that hold for
every instance. Line numbers refer to the files of `src/src/`.

## 1. The system

| Component | State | Operations | Modelled by |
|---|---|---|---|
| RGB transfer protocol (`wallet/online.rs`, `wallet/rust_only.rs`) | batch transfers with a status, per recipient the endpoint used and its answer; `transfer_artifacts` (prepared and signed PSBTs); `received_consignments` | `send_begin`, `post_pending_consignments`, `send_end`, `refresh`, `fail_transfers`, `delete_transfers`, `blind_receive`, `witness_receive` | `RgbTransfer`, implementing `AtomicPayment` |
| IndexedDB persistence (`wallet/idb_store.rs`, `wallet/offline.rs`) | snapshot with a sequence number; `idb_sequence`, `idb_save_in_progress` | `trigger_auto_backup`, `flush`, `restore`, `new` | `IdbPersistence`, implementing `WriteBackStore` |
| In-memory database, allocations and balances (`database/`) | tables of txos, colorings, batch, asset and single transfers, pending witness scripts | table updates, `get_rgb_allocations`, `get_asset_balance` | `WalletLedger` |
| Coin selection and UTXOs (`wallet/online.rs`, `wallet/offline.rs`) | none of its own | `get_utxo`, `get_input_unspents`, `_select_rgb_inputs`, `_prepare_psbt`, `_broadcast_psbt`, `create_utxos`, `send_btc`, `drain_to`, `_check_dag` | `Selection`, `WalletLedger`, `ChainView`, `InflatableAsset` |
| Issuance and inflation | assets, known circulating supply | `issue_asset_nia`, `issue_asset_ifa`, `inflate_begin`, `inflate_end` | `InflatableAsset`; issuance also in `WalletLedger` |
| Confirmations | none; two indexer requests | `get_tx_confirmations`, `_wait_confirmations_async` | result as one step of `RgbTransfer`; arithmetic planned |
| Encrypted backups (`wallet/backup.rs`) | backup file, `last_operation_timestamp`, `last_backup_timestamp` | `backup`, `restore_backup`, `backup_info` | `VssBackup`; as sources of wallet state in `IdbPersistence` |
| VSS cloud backup (`wallet/vss.rs`) | four versioned objects on a server | `vss_backup`, `ensure_initial_backup`, `vss_restore_backup`, `vss_backup_info` | `VssBackup`, implementing `BackupStore` |
| Addresses | pinned index per keychain | `get_address`, `rotate_address` | planned |
| Lightning hooks (`wallet/rust_only.rs`) | the same tables | `post_pending_consignments`, `is_batch_transfer_sent`, coloring of PSBTs | the first two in `RgbTransfer` |
| Proxy and indexer clients (`api/`) | none here; consignments and answers at the proxy | `post_consignment`, `get_consignment`, `post_ack`, `get_ack`, broadcast, sync | external, by their use; an indexer that lags in `ChainView` |
| Invoices, keys, utilities, errors, JavaScript bindings | none | conversions | not modelled |

How they interact. The application calls one operation at a time on a wallet.
`&mut self` operations hold the wallet while they await HTTP calls; a `flush`
holds it by shared reference, so `&self` operations may run meanwhile. An
operation reads and writes the in-memory database and, if it is one of those
that end in `trigger_auto_backup` (issue, receive, send_end, create_utxos_end,
inflate_end, delete_transfers, addresses, restores), starts a save that runs on
its own. `refresh`, `fail_transfers`, `sync` and `send_begin` start none: their
results are durable only after an explicit `flush`. Wallets of different users
meet only at the proxies (consignments one way, ACK or NACK the other) and on
the chain.

What is hard, and where it is checked:

* *Awaits and other wallets.* Between two HTTP calls of an operation the other
  wallets, the proxies and the chain move. The transfer protocol commits on
  values read several requests earlier (`RgbTransfer`).
* *Lost requests and responses.* A posted consignment or ACK may have arrived
  although its sender saw an error; loops over transport endpoints then go on to
  another proxy (`RgbTransfer`).
* *Reloads.* A page reload drops the memory and returns to the last snapshot,
  which may be older than what other wallets have seen (`RgbTransfer`,
  `IdbPersistence`).
* *Saves in flight.* IndexedDB orders the transactions of concurrent saves as it
  likes (`IdbPersistence`).
* *Several devices.* Wallets made from one mnemonic back up to one store; an
  upload is five requests, of which only the last changes anything, and it may
  arrive after its caller gave up (`VssBackup`).
* *One table, many readers.* Whether a UTXO may be given to a receive, spent by a
  send or counted in a balance is recomputed each time from flags and colorings
  that different operations write in different orders (`WalletLedger`).
* *PSBTs that wait.* Every transaction is prepared by one call and broadcast by
  another, between which UTXOs fill with allocations; the indexer that says what
  the wallet owns lags behind the network (`ChainView`, `InflatableAsset`).
* *One number, three sources.* The known circulating supply is raised by
  inflations of this wallet, by receives that tell it of others' inflations, and
  comes with the consignment of a new asset (`InflatableAsset`).

What makes each component correct: the transaction of a transfer becomes public
only when its recipients agreed and never after the sender gave up; nobody who
was told "settled" loses the asset; what a flush wrote survives; IndexedDB never
goes back; no allocation is spent twice or left on a UTXO that is spent without
it; balances say what is owned and what can be spent; the supply a wallet shows
covers what it owns and stays within the maximum; a wallet stamped as backed up is,
and backups on the server are never replaced by older ones. Some of this holds only
under conditions, and some of it does not hold ("What does not hold" in section 3).

## 2. Modules

    AtomicPayment   <-  RgbTransfer      ->  RgbTransferProofs     MCRgbTransfer
    WriteBackStore  <-  IdbPersistence   ->  IdbPersistenceProofs  MCIdbPersistence
    Selection       <-  WalletLedger     ->  WalletLedgerProofs    MCWalletLedger
                                         ->  WalletBalanceProofs
    Selection, ChainView
                    <-  InflatableAsset  ->  InflatableAssetProofs MCInflatableAsset
                                         ->  SupplyProofs
    BackupStore     <-  VssBackup        ->  VssBackupProofs       MCVssBackup
    Selection       ->  SelectionProofs  (sums; for the proofs of both of its users)

`MC*` modules name the sets the configurations give to constants. `PROJECT.json`
maps every definition to the lines it translates. Operators that appear next to
a definition and are used by no action (`AllAcked` / `NoneNacked`, `BusyAfter` /
`ClearOnlyOnSuccess`, ...) are mistakes a change to the code could make; putting
one in the place of its neighbour breaks the property `PROJECT.json` pairs it
with under "mutants".

### RgbTransfer

One batch transfer: a sender, one wallet per recipient, `MaxEndpoint` proxies per
invoice, the chain as the indexer shows it. `sStatus`, `used`, `ack` are the
sender's rows, `artifacts` its `transfer_artifacts` entry ("prepared" by
`send_begin`, "signed" from `send_end` on, "dropped"), `rStatus`, `rAsset`,
`rCons` a recipient's row, asset ID and kept consignment. `sCall`, `todo` and
`rCall`, `rAt` say at which await an operation in progress stands; everything
between two awaits is one action. `sDisk` and `rDisk` are the snapshots a reload
returns to. `Mine` puts into a block what is public, which an evicted transaction still is.
The sender's operations are `send_begin` (`SendBegin`), `post_pending_consignments` (`PostPending`, then
`PostAccepted`/`PostAborted` per recipient), `send_end` (`SendEnd`, the same
posting, `PostCompleted`, and for donations the broadcast), `refresh` and
`fail_transfers` (`SenderRefresh`, `ReadAck`, `DecideAcks`, `Broadcast...`,
`BroadcastRecorded`/`SyncLost`, `SenderSettles`) and `delete_transfers`. A
recipient receives, fetches from endpoint after endpoint (`GetConsignment`,
`NoConsignment`), validates, answers (`PostAck`, `PostAckUnheard`) and settles.

`Faults` says what may go wrong: `loss` (any request, any response), `reload`,
`fee` (the node refuses the fee), `conflict` (an input is spent by another
transaction), `evict`, `rejectlist` (what a recipient accepts changes between two
attempts), `resend` (the application repeats `send_end`). `NoAssetOnly` and
`OnlyExpired` say how applications call `fail_transfers`.

`AtomicPayment` is the promise: consent of every recipient, then payment, or a
cancellation, never both. `ImplementsAtomicPayment` maps consent to "an ACK is at
a proxy", paid to "the transaction is out", cancelled to "the row is failed or
deleted".

### IdbPersistence

A wallet object's content (`mem`) is the set of operations it contains. `saves`
are the saves in flight, each with the sequence number and state it took when it
started; `Commit` is the read-write transaction of `save_snapshot` with its stale
check, `Resume` the continuation that clears the busy flag or returns from
`flush`. `Features` says where other wallet objects come from: a page reload (`"reload"`,
saves in flight are lost), a restore in the same page (`"reopen"` when no save is in
flight, `"recreate"` at any moment, the saves in flight then living on as "orphan"
ones), `Wallet::new` on a device without a snapshot (`"new"`), a backup (`"backup"`);
and whether IndexedDB requests fail (`"iofail"`). `promised` is a history
variable: what successful flushes declared durable.

`WriteBackStore` is the promise: states of the wallet are handed over in an order, one
that becomes durable leaves none of the earlier ones to become durable after it, and a
restart returns to exactly the durable state; a backup brings an earlier state back and
a new device starts with nothing. It also justifies `sDisk`
and `rDisk` of `RgbTransfer`, whose only snapshots are states between operations
and never older than the one before.

### WalletLedger

The tables of one wallet. `txos` has the flags `exists`, `spent` and
`pendingWitness` of each row, `colorings` the coloring table, `status` the batch
transfers, `scripts` the pending witness scripts, `seal` the UTXO behind a blinded
recipient ID. `plan` is what a transfer's transaction does to this wallet (its
inputs, the allocations it takes and brings) and `published` which transactions
are public; for a send between `send_begin` and `send_end` the plan is its
`transfer_artifacts` entry, afterwards it is history the properties compare the
tables with. An allocation is identified by the transfer it comes from; an asset
by `AssetOf`.

Actions: `Issue`; `BlindReceive`, `WitnessReceive`, `Acknowledge` (validated and
ACK posted), `ReceiveSettles`; `SendBegin` (inputs in ascending order of amount,
a fee input, change and moved allocations to the change output or to `get_utxo`),
`SendEnd`, `SendDonation`, `SendAborted`, `Broadcast` (inputs marked spent, then a
sync that may fail), `SendSettles`; `Fail`, `Delete`; `Sync` with any part of the
public outputs visible to the indexer, which therefore may lag. `GetUtxo`,
`AvailableAllocations`, `UsableAsInput`, `SelectRgbInputs` and the balance
operators are the functions of those names. What the counterparties do is left
open here, because RgbTransfer constrains it. Outside this module's scope and so
absent: bitcoin amounts, several assets in one send, non-fungible assets,
`register_collaborative_outgoing_transfer`; inflation is in `InflatableAsset`.

### Selection

`Reaching`: the candidates taken in ascending order until they have enough, which
both `_select_rgb_inputs` (UTXOs) and `_prepare_rgb_psbt_wasm` (allocations) do.
Equal candidates may come in any order, so it is a set of results.

### ChainView

What one wallet sees of the chain, and its transactions without RGB. `tx` says how
far a transaction has come: the application holds its PSBT, the network has it,
the indexer shows it. `inputs` are the wallet's outputs it spends; `graph` is what
BDK holds as canonical; `rows` is the txo table, which knows external (colored)
outputs only. `Sync` is `sync_db_txos`, after which a transaction the indexer does
not show yet may be evicted from the graph. `CreateUtxosBegin`, `SendBtcBegin` and
`DrainToBegin` prepare a PSBT over the outputs they may use, which are the internal
ones and those without a row (`_get_unspendable_bdk_outpoints`); the `...End`
actions broadcast it, possibly much later, possibly again after the indexer knows
it. `Made` says which outputs of the wallet a transaction has, a bitcoin change included or not. A broadcast is `_broadcast_psbt` and ends in one of
three ways: an input is not found (`panicked`, the `expect` at online.rs:1594), the sync fails, or it completes.

### InflatableAsset

One IFA asset in that wallet: `allocs` are the colorings that put an allocation on a
UTXO (`source` is the transfer it comes from, `by` the transfer that put it there),
`status` the rows of transfers, `plan` what the PSBT of an inflation or send takes
and brings, `known` the `known_circulating_supply`, `stock` the inflations the RGB
stock has heard of, `minted` the amounts, `parents` the DAG of transfers, `others`
what other wallets hold, `sending` the attempt in progress in `send_begin`. Actions:
`IssueAssetIfa` or `IssuedElsewhere`, `OthersInflate`, `WaitConsignment` (with the
reject list of that moment), `Pay`, `ReceiveSettles` (raises `known` to what the
stock then counts), `InflateBegin`, `SendBegin` and one `SendAttempt` per round of
its loop, `SendAborted`, `EndBroadcast` (`inflate_end`, or `send_end` of a
donation), `OutgoingSettles`. `Rejects` is `_check_dag`: an ancestor is on the
reject list and no transfer on the way to it is on the allow list. `SkipSync` are
the values applications pass to `send_btc_begin`.

`Prepares` is what `_prepare_rgb_psbt_wasm` does for both kinds of transfer. RGB change
and the allocations that must move along go to the bitcoin change output (`ChangeOf`) if the
PSBT has one (`Made`), and otherwise to an existing UTXO (`ChangeSeals`, `GetUtxo`: a free
one with the fewest allocations, else one that waits for others, none of the inputs). If
there is none, the round fails and the call ends without a PSBT. Nothing reserves that UTXO
until the transfer is saved.

A status `"Refused"` is no row: it marks a `send_begin` that returned
`InsufficientAssignments`.

### VssBackup

`wallet` is the wallet object of each device: its content (a set of operations)
and the two timestamps of `DbBackupInfo`; `image` is what IndexedDB holds of it.
`store` maps the four objects to a version and the upload they come from, `uploads`
are the calls of `vss_backup` with the payload taken and the versions read so far,
`restoring` says how far a `vss_restore_backup` has come, `files` are the wallets
in backup files. An upload is `VssBackup` (payload and stamp, before the first
await), four times `GetCurrentVersion`, then `UploadSucceeds`, `UploadFails`
(conflict or loss; the stamp is taken back) or `UploadUnheard`, after which the put
may still arrive (`LandsLate`). A restore is `GetManifest`, `GetData`,
`GetMetadata`; data decrypts only with the metadata of its own upload. `Operate`,
`Save`, `Reload`, `Backup` and `RestoreBackup` happen between any two of these
steps as far as Rust's borrows allow (`Exclusive`, `Free`).

Timestamps are milliseconds; `Rank` orders them as the comparison of the formatted
strings does, where trailing zeros of the fraction are missing. `Counted` are the
operations that call `update_backup_info(false)`. `Features`: `loss`, `overlap`
(two calls of `vss_backup` of one device), `flush` (a flush during an upload).

`BackupStore` is the promise of the versions: a compare-and-swap register. The four
version reads map to one look (the first of them), the put to one swap.

`Stamped` says of a wallet that no counted operation is later than its last backup, by
the times themselves; `backup_info` compares the strings instead (`NotRequiredIsBackedUp`).

## 3. Runs

| Run | Instance | Shows |
|---|---|---|
| `transfer_faults` | 2 recipients (symmetric), 1 proxy, donations or not; loss, fee, conflict, resend | `ImplementsAtomicPayment`, `StatusOnlyAdvances`, `DonationRowMeansBroadcast`, `FailedNeverBroadcast` (nobody reloads, nothing is evicted), `TypeOK` |
| `transfer_reload` | 1 recipient, 2 proxies; loss, reload, rejectlist, resend | `BroadcastNeedsEveryAck` although both sides forget what was not saved |
| `transfer_assetless` | 1 recipient, 2 proxies, zero confirmations, `no_asset_only`, only expired transfers failed; loss, fee, evict; fairness | `FailedReceiverNeverAccepted`, `SettledSenderLosesNoRecipient`, `MinedReachesEveryRecipient`, and `SenderResolves`: an outgoing transfer does not stay pending for ever unless its transaction was evicted and nobody mines it (`Stranded`) |
| `persist_reload` | 3 operations, 4 sequence numbers, 3 saves in flight; reload, reopen, new, backup, iofail; fairness | `ImplementsWriteBackStore`, `FlushIsDurable`, `AutoSaveComesBack`, `TypeOK` |
| `persist_recreate` | the same bounds, restores in the same page at any moment | **violated**: `FlushIsDurable` |
| `ledger` | 1 UTXO, 1 issuance, 1 blinded receive (another asset), 1 witness receive, 2 sends; amounts 1..2 | `NothingIsBurned`, `SettledIsOwned`, `SpendableIsSelectable`, `SendsTakeDisjointAllocations`, `TypeOK` |
| `ledger_seals` | the same with 2 UTXOs and fee inputs | **violated**: `PendingBlindedIsUnspent` |
| `ledger_future` | as `ledger`, invoices of amount 1 | **violated**: `FutureIsPlanned` |
| `vss_backup` | 2 devices, 2 uploads, 1 operation, 4 instants; one device with reloads and backup files; loss | `StampedIsBackedUp`, `StoreNeverGoesBack`, `ImplementsBackupStore`, `TypeOK` |
| `supply` | 1 deposit, 1 `create_utxos` with 3 UTXOs, 1 payment, 1 inflation, 1 send, 1 receive, 1 inflation by others, 2 reject lists; a bitcoin change in the inflation, none in the send; fairness | `PublicMovesAllocations`, `OwnedWithinKnown`, `OwnedWithinIssued`, `RetryFindsAllowedInputs`, `SendBeginEnds`, `TypeOK` |
| `supply_max` | as `supply` without others' inflations and reject lists, 1 token and 1 right issued | **violated**: `KnownWithinMax` |
| `vss_refresh` | 1 device, a receive and a refresh | **violated**: `NotRequiredIsBackedUp` |

Deadlock is not checked: the bounds end every model, and a transfer or a page may stop for good once everything
is settled, and applications need not do anything.

Bounds. Two recipients are what it takes for one to accept and another to refuse
or stay silent; a second proxy is what it takes for a lost response to split the
parties between two; a retry of a retry meets the same proxy state as a retry,
since a proxy keeps first answers. Three saves in flight allow an automatic save,
the flush that overtakes it and one more of a later state; four sequence numbers
allow a reload between them. One plain UTXO with two sends, a witness output and
change outputs lets a blinded receive, an issuance and a send compete for every
UTXO; the state space with two UTXOs (1.2 million states) has been explored with
the same result. Amounts up to 2 give sends with and without change, and
allocations that must move along. The two sends of `ledger` are interchangeable
(symmetry), as are the two recipients of `transfer_faults`; neither run has a
property that needs fairness. Two uploads are what it takes for one to overtake
another; four instants let an operation, an upload, its failure and one more of
them look at the clock. In `supply` three UTXOs hold the tokens, the rights and a fee;
one list rejects every inflation, the other the issuance but allows what came through
the receive; two rights and two tokens with amounts of 1 leave change when they are used,
of the send on an existing UTXO. In `supply_max` the one right is used up by the inflation,
so that no right left over hides that it is counted twice, and nobody else inflates.

Fairness. The executor resumes an operation whose request was answered (weak
fairness of the internal steps); a network that loses requests does not lose all
of them, so steps that a loss can disable again and again are strongly fair
(`PostAccepted`, `ReadAck`, `Broadcast`, ...); the application polls `refresh`,
and calls `fail_transfers` on expired transfers, as the README of the library
tells it to; time passes and the transactions in the mempool are mined. An evicted
transaction may be mined, but nothing obliges anybody to: no code of the wallet broadcasts
it again, and `fail_transfers` takes no transfer in WaitingConfirmations. `SenderResolves`
therefore names that end (`Stranded`). Nobody is obliged to send, delete,
reload or lose anything. Without the assumption that `fail_transfers` is called
`SenderResolves` would be false: a recipient may never answer. In
`IdbPersistence` IndexedDB answers every request, with success or failure, and the
browser runs the continuation. In `InflatableAsset` only `SendAttempt` is fair: the loop
of `send_begin` goes round again by itself.

### What does not hold

Findings, each with its run:

1. `persist_recreate`. A wallet restored in the same page while an automatic save
   of the previous object is in flight uses that save's sequence number again; its
   flush is judged stale and reported as successful.
2. `ledger_seals`. A UTXO a send takes only to pay the fee gets no Input coloring.
   While the send waits for its ACKs, `blind_receive` hands that UTXO out, and the
   broadcast spends it.
3. `ledger_future`. A witness receive in WaitingConfirmations is counted twice in
   the future balance: through its Receive coloring and through the amount of its
   invoice.
4. `vss_refresh`. `refresh` and `fail_transfers` change the wallet without
   `update_backup_info(false)`: after receive, backup, refresh, `backup_info` says
   that no backup is required, and `ensure_initial_backup` uploads nothing.
5. `supply_max`. `inflate_begin` leaves its transition in the RGB stock. A receive that
   settles before `inflate_end` sets the known supply to the stock's total
   (online.rs:2902), which counts it, and `inflate_end` adds the amount again
   (online.rs:4032): the known circulating supply exceeds the maximum supply. An inflation
   that is prepared and never ended stays in the stock, and is counted although it will
   never be.

Assumptions under which properties hold, found by dropping them:

* `FailedNeverBroadcast` is claimed for senders that are not reloaded and transactions
  that are not evicted. It fails with reloads and two proxies (a transfer failed after the
  last save is pending again after a reload, and is acknowledged and broadcast),
  and with eviction (a transaction the node forgot can be refused, the transfer
  failed, and the transaction mined later).
* `FailedReceiverNeverAccepted` needs `no_asset_only` if requests can be lost: the
  ACK may be at the proxy while the receive still waits.
* `FlushIsDurable` and `ImplementsWriteBackStore` need that no object is replaced while
  its saves are in flight (finding 1), and that `Wallet::new` is called only where there is
  no snapshot: over an existing one it starts at sequence 0 and saves nothing, while it
  reports success, until it overtakes it. The model has the former as `"recreate"` and
  leaves the latter out.
* `NothingIsBurned` and `SendsTakeDisjointAllocations` need, with
  `Interleaved = FALSE`, an application that runs no other database operation
  between `send_begin` and `send_end`: nothing is reserved in between, so another
  send or a blinded receive can choose the same UTXO. `NothingIsBurned` also needs fee
  inputs not to occur (finding 2). `TransferStatus::Initiated` is documented for this situation and never
  assigned.
* `SpendableIsSelectable` needs the outputs to have been synced: change of a
  settled send whose row still has `exists = false` counts as spendable and cannot
  be selected.
* `PublicMovesAllocations` needs `send_btc_begin` to sync (`SkipSync = {FALSE}`):
  after a `create_utxos_end` with `skip_sync` the new UTXOs are in BDK's graph and
  have no row, so an unsynced `send_btc_begin` may take them, a sync then makes
  their rows, an allocation arrives, and the payment spends it.
* `PublicMovesAllocations` has an exception (`OnExisting`). Without a bitcoin change the RGB
  change goes to an existing free UTXO (online.rs:904-917), which another PSBT prepared
  meanwhile may take for its fee and spend, after which the change is gone. `InflatableAsset`
  has no blinded receives, which can reach a fee input too: that is finding 2.
* `SenderResolves` needs inputs that nobody else spends: the broadcast of such a
  transfer is refused each time, and `fail_transfers`, which refreshes first, passes
  the error on (online.rs:3058-3082), also to the expired transfers behind it in the
  same call.
* `StoreNeverGoesBack` needs uploads of one wallet that do not overlap: the payload
  is taken before the versions are read, so the older payload can win.
* `StampedIsBackedUp` needs, where pages are reloaded, that nothing flushes during an
  upload: a reload then finds the stamp of an upload that never landed.
* `NotRequiredIsBackedUp`, the same with the strings that `backup_info` compares and for
  operations that are not counted, fails for these (finding 4) and also for counted ones: an
  operation at .123 after a backup at .12 looks older ("Z" is greater than a digit), one in
  the millisecond of the backup looks as old as it.

Also seen and not run: a second `send_end` for a transfer that waits for its ACKs
removes its artifacts before it notices that they are a signed PSBT (online.rs:3381),
and `refresh` can then neither broadcast nor fail the transfer once every ACK is in;
an operation that ends while an automatic save is running is not saved when that save
ends (offline.rs:3036), so that only a later operation or a flush makes it durable;
`ensure_initial_backup` uploads nothing after a backup to a file, although the store
is empty (backup.rs:274-285); a witness receive that fails after it was paid leaves
`pending_witness` set, and that UTXO unusable for RGB; a donation whose sync fails
after the broadcast leaves spent inputs and no row; a receive past its ACK has no
way out if the sender never broadcasts; `inflate_end` looks for the rows of its outputs
after a broadcast whose sync may not show them yet, and panics (online.rs:1072);
repeating `create_utxos_end` or `send_btc_end` after a broadcast whose sync failed
panics at `expect("outpoint should be in the DB")` (online.rs:1594) when the spent input
is internal; `inflate_end` drops its artifacts before the broadcast, so that one
that fails cannot be repeated; `register_collaborative_outgoing_transfer`
never marks its inputs spent.

## 4. Proofs

All theorems are checked for every value of the constants that satisfies
the named assumptions of its module: `ConstantsAssumption` (any number of recipients,
proxies, operations, saves, devices, uploads, UTXOs, transfers, assets),
`TransactionsAssumption` and `AssetAssumption` (any transactions, outputs, amounts
and reject lists). Sums over sets are recursive functions on the subsets of a finite
set. `SelectionProofs` proves what they obey (splitting, renaming, comparison, that
enough candidates reach the amount) with a smallest counterexample in the place of
induction: `FiniteSetTheorems` says the strict subset order is well-founded, so a
non-empty set of subsets where a law fails has a minimal member.

| Theorem | Says | Rests on |
|---|---|---|
| `RgbTransferProofs!TypeCorrect` | `TypeOK` always | - |
| `BroadcastIsAgreed` | `BroadcastNeedsEveryAck`, whatever the faults | `AckInv` |
| `ListedDonationIsPublic` | `DonationRowMeansBroadcast`, whatever the faults | `DonationInv` |
| `FailedWasNotBroadcast` | `FailedNeverBroadcast`, without reload and evict | `AckInv`, `CommitInv` |
| `TransferIsAtomicPayment` | `ImplementsAtomicPayment`, without reload and evict | `AckInv`, `CommitInv` |
| `FailedReceiverDidNotAccept` | `FailedReceiverNeverAccepted`, without reload and reject list changes, with `no_asset_only` | `ReceiverInv` |
| `StatusAdvances` | `StatusOnlyAdvances`, without reload | `CallInv` |
| `SettledForEveryone` | `SettledSenderLosesNoRecipient`, without reload and reject list changes, with `no_asset_only` | `AckInv`, `PaidInv`, `ReceiverInv`, `KeptInv` |
| `IdbPersistenceProofs!TypeCorrect` | `TypeOK` always | - |
| `FlushedIsDurable` | `FlushIsDurable`, if no object is replaced while its saves are in flight | `SnapshotInv` |
| `PersistenceIsWriteBack` | `ImplementsWriteBackStore`, under the same condition | `SnapshotInv` |
| `VssBackupProofs!TypeCorrect` | `TypeOK` always | - |
| `BackupIsCompareAndSwap` | `ImplementsBackupStore`, whatever is lost or overlaps | - |
| `LaterUploadsStay` | `StoreNeverGoesBack`, if uploads of a device do not overlap | `CallsInv`, `LateIsStale` |
| `StampedMeansSafe` | `StampedIsBackedUp`, whatever is lost, late, overlaps or is not counted, if no page that is reloaded flushes during an upload | `StampInv`, `HeldInv`, `BackedUpInv` |
| `InflatableAssetProofs!WalletSeesWhatIsPublic` | BDK's graph, the rows that exist and what PSBTs spend are of public transactions, whatever `send_btc_begin` skips | `ChainInv` |
| `NothingIsSpentByMistake` | `PublicMovesAllocations`: vanilla transactions spend no allocation, inflations and sends move all they spend but change left on an existing UTXO; if `send_btc_begin` syncs | `ChainInv`, `AllocInv` |
| `AssetHasItsTypes` | `TypeOK` always | `IssueInv` |
| `RetriesAreSound` | `RetryFindsAllowedInputs`: a `send_begin` that runs into the reject list asks for neither more nor less than it needs, and refuses only if no allowed inputs suffice | `CoreInv`, `RetryInv` |
| `SupplyProofs!SupplyCoversHoldings` | `OwnedWithinKnown`: the tokens the wallet owns are no more than the circulating supply it shows, whatever others mint and send | `KnownInv`, `TokensInv` |
| `NothingIsOwnedTwice` | `OwnedWithinIssued`: rights and tokens owned are together no more than what was issued of both | `TokensInv`, `RightsInv` |
| `WalletLedgerProofs!TypeCorrect` | `TypeOK` always | - |
| `SendsAreDisjoint` | `SendsTakeDisjointAllocations`, if nothing runs between `send_begin` and `send_end` | `TakenInv` |
| `NothingIsLost` | `NothingIsBurned`, if moreover no send needs another UTXO for the fee | `LedgerInv` |
| `WalletBalanceProofs!SettledBalanceIsOwned` | `SettledIsOwned`, the settled balance in the database is what the wallet owns, under the same two conditions | `LedgerInv`, `PlaceInv` |
| `SpendableBalanceIsSelectable` | `SpendableIsSelectable`, the spendable balance is what coin selection can reach, under the same two conditions | `LedgerInv`, `PlaceInv` |

The inductive invariants, each checked by TLC before it was proved, and why they
are needed:

* `AckInv`: an ACK in the sender's rows *or in its snapshot* is at a proxy, where
  it stays; a call past the answers has all of them. The snapshot's part is what
  lets the argument survive a reload.
* `DonationInv`: a call that reached the sync has made its transaction public, a
  donation is never refreshed as a pending one, and its snapshot obeys the same
  rule as its row.
* `CommitInv`: the sender's row, its artifacts and the await it stands at belong
  together. Once the transaction is out all have acknowledged and the row is past
  the point where it can fail; `todo` only holds unanswered recipients, so no
  answer is read twice.
* `ReceiverInv`: an ACK at a proxy belongs to a receive with an asset ID, which
  `no_asset_only` protects; the flag was read before the consignment arrived, which
  is why it also speaks of calls in progress.
* `CallInv`: the await at which a call stands determines the status of its row, so
  no late answer is written over a status that has moved on.
* `PaidInv`, `KeptInv`: the sender's row is past the broadcast only if every recipient
  has acknowledged; a recipient that has, holds the consignment it needs to settle,
  and a proxy holds it too.
* `SnapshotInv`: the sequence of the wallet is never behind the disk, every snapshot that
  may still be written contains what was promised, and a flush in flight is contained in
  every snapshot that may replace it. Restored backups may be older than the snapshots, so
  snapshots are not ordered by inclusion.
* `CallsInv`, `LateIsStale`: calls of a device start in the order of their numbers,
  and a put that may still arrive carries a data version the store has left behind
  once a later call of the device has landed.
* `StampInv`, `HeldInv`, `BackedUpInv`: no stamp is ahead of the clock, so the next
  operation is later than any backup; what the store holds or a restore has fetched
  has landed; a wallet *and its image in IndexedDB* are backed up or say that they
  are not, while a running upload may vouch for the wallet but not for the image.
* `ChainInv`, `AllocInv`: every input is an output of a public transaction, every
  canonical transaction and every row that exists is public; after a sync every external
  output BDK lists has a row, so transactions without RGB only spend internal ones. A new
  allocation comes to an output of a transaction that is not public yet, which nothing
  can have spent, or by issuance, before any transaction with RGB.

* `LedgerInv` ties the tables to what transfers do. `RowInv`: nothing is known of a
  transaction that is not public, and the output of a witness receive stays marked
  until it settles. `ColoringInv`, `PlanInv`: the coloring table and the plans of saved
  transfers agree, and a coloring on an output that does not exist belongs to the
  transfer that makes it. `SealInv`: a blinded receive waits for a UTXO that exists.
  `SendInv`, the core: a send that is prepared, saved or public takes something from
  each of its inputs, so that every input carries an Input coloring from `send_end` on;
  inputs of public sends are spent; hence no two sends share an input, nobody awaits
  assets on one, and whatever came to it before is taken along. The two conditions are
  where it fails: an input chosen for the fee has no coloring, and neither has any
  input before `send_end`.
* `TakenInv` is the part of this that fee inputs leave intact: a waiting send has an
  Input coloring for each allocation it takes, a public one has spent their UTXOs, and
  their rows, which exist, outlive a `delete_transfers`.

* `PlaceInv` is what the balances need on top of `LedgerInv`: an allocation is in one
  place. If two transfers that count bring allocations of the same source, a public
  transaction has taken one, or one of the two takes what the other brings. With
  `SpenderInv` (a spent row is the input of a public send) and `WrittenInv` (a coloring
  is what its transfer brings) the settled colorings on unspent UTXOs correspond one to
  one to what settled transfers brought and no public one took, and so have its sum.
  `HostInv` and `MarkInv` keep pending witness outputs out of it.
* `IssueInv`: before the wallet knows the asset no transfer of it is prepared, and
  `known_circulating_supply` is absent; without it the types of the sums do not hold.
* `CoreInv`: a spent row is the input of a public transaction (`SpentInv`), sources are
  transfers that have begun (`OriginInv`), what a PSBT takes lies settled on its inputs
  and what it brings is new or moved from there (`PlanInv`), and unspent UTXOs
  hold at most one allocation per kind and source (`OneInv`). The last is what makes
  moving a set of allocations keep its total, where two equal members would become one.
* `RetryInv`: the rejected allocations are on UTXOs a send may use, and the amount the
  next attempt asks for is the amount to send plus their total. An attempt selects in
  ascending order until that is reached, so it has at least the amount in what is
  allowed; it is refused only if everything it may use falls short.

* `SupplyInv` is what `OwnedWithinKnown` needs. The supply shown is not the supply there
  is: others inflate without telling. So the argument is about every set of transfers
  that holds the issue and the ancestors of its members. `TokensInv`: the tokens from
  such a set, in the wallet on UTXOs that are not spent or with others, are no more
  than what was issued and what the inflations in the set minted; it is inductive only for all such sets
  at once, because a transfer that begins can join any of them that holds its
  ancestors. `KnownInv`: some such set of transfers that happened holds the source of
  each allocation that is not a pending receive, the stock has heard of its inflations
  and the supply shown counts them. A receive adds its ancestors to the set when it settles, which is when
  `accept_transfer` tells the stock; a broadcast adds itself. Both rest on what follows.
* `HistoryInv`: inputs come from transfers that happened, and others hold nothing that
  did not. `BalanceInv`: what is prepared brings and gives away, in each such set, no
  more than it takes and mints, and rights shrink by what is minted. `StockInv`: the
  stock only hears of inflations that happened or are prepared. `FreshInv`: before
  the issue nothing is minted. `SpentInv` and `OneInv` make a broadcast spend all it takes.
* `Reached`, which both the reject list and the stock walk, is a recursive function:
  `ReachedIsLeast` proves that it returns the least such set, by a largest
  counterexample.
* `RightsInv`: rights, wherever they are, and what was minted from them are no
  more than the rights issued. With `TokensInv` for the set of all transfers that happened
  it bounds what is owned. A panic stops the wallet between the network and its database,
  and a failed sync leaves inputs spent whose replacements are not saved, so both
  invariants speak of what is not spent, and `PanicStops` shows that a stopped wallet changes nothing.

Each proof splits on the actions of `Next`; refinement theorems show that initial
states map to initial states and every step to a step or a stutter.

Only model-checked: the liveness properties (`SenderResolves`,
`MinedReachesEveryRecipient`, `AutoSaveComesBack`, `SendBeginEnds`), because TLAPS proves no
fairness.

## 5. Not modelled

The contents of consignments, invoices and keys, encryption and encodings
(computations of external libraries), bitcoin amounts and fees, HTTP details,
logging, address reuse. The JavaScript bindings only convert values; a call made while an
exclusive one awaits panics there, which is why no model overlaps two exclusive
operations of one wallet. `drain_to` with
`destroy_assets` gives every allocation away on purpose and has no property to keep.
Donations received and bitcoin amounts are left out of `InflatableAsset`; the former
are in `WalletLedger`.

## 6. Plan

1. `register_collaborative_outgoing_transfer` and a send of several assets in
   `WalletLedger`.
2. `Confirmations`: the two indexer requests as two steps, with u32 arithmetic.
3. The address of the next receive: pinned index per keychain and rotation.
4. `delete_backup`, should an operation of the wallet come to call it, and the
   retries an application makes after a version conflict.
5. A composition of `IdbPersistence` with the applications' use of `flush` around
   a transfer, replacing the assumption that snapshots lie between operations.
