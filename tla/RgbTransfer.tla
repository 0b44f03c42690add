---------------------------- MODULE RgbTransfer ----------------------------
(***************************************************************************)
(* One RGB batch transfer, from the invoices of its recipients to its      *)
(* settlement: a sender wallet, one wallet per recipient, the RGB proxies  *)
(* the invoices name and the Bitcoin network behind the indexer.           *)
(*                                                                         *)
(* Every wallet runs its operations one at a time, but each HTTP call of   *)
(* an operation is an await: other wallets, the proxies and the chain move *)
(* between two steps of a call, and the page can be reloaded there.  The   *)
(* steps of a call in progress are sCall and rCall.                        *)
(*                                                                         *)
(* Proxies and chain are external; they are modelled by the way the wallet *)
(* uses them.  A proxy keeps the first consignment posted for a recipient  *)
(* and the first ACK or NACK ("Cannot change ACK").                        *)
(***************************************************************************)
EXTENDS Naturals

CONSTANTS Recipients,   \* the recipients of the batch, one wallet each
          MaxEndpoint,  \* transport endpoints of an invoice, tried in order 1..MaxEndpoint
          Donations,    \* the donation flags applications pass to send_begin
          ZeroConf,     \* min_confirmations = 0
          NoAssetOnly,  \* the no_asset_only values recipients pass to fail_transfers
          OnlyExpired,  \* applications only fail transfers past their expiration
          Faults        \* what may go wrong, a subset of FaultKinds

(* "loss"       a request or its response is lost                          *)
(* "reload"     a page reload: back to the last snapshot in IndexedDB      *)
(* "fee"        the node refuses the transaction for its fee               *)
(* "conflict"   another transaction spends one of the inputs first         *)
(* "evict"      the transaction leaves the mempool the indexer looks at    *)
(* "rejectlist" the issuer's reject list changes                           *)
(* "resend"     an application calls send_end again for the same PSBT      *)
FaultKinds == {"loss", "reload", "fee", "conflict", "evict", "rejectlist", "resend"}

ASSUME ConstantsAssumption ==
    /\ Recipients # {}
    /\ MaxEndpoint \in Nat \ {0}
    /\ Donations \subseteq BOOLEAN /\ ZeroConf \in BOOLEAN /\ OnlyExpired \in BOOLEAN
    /\ NoAssetOnly \subseteq BOOLEAN
    /\ Faults \subseteq FaultKinds

Endpoints == 1..MaxEndpoint

VARIABLES
    sStatus,    \* status of the sender's batch transfer row; Absent before it exists
    artifacts,  \* transfer_artifacts[txid]: prepared by send_begin, signed from send_end on
    used,       \* per recipient, the endpoints the sender marked as used
    ack,        \* per recipient, transfer.ack in the sender's database
    sCall,      \* where the sender's operation in progress stands
    sFailing,   \* that operation is fail_transfers
    todo,       \* recipients that operation still has to talk to the proxy for
    sLate,      \* the sender's transfer is past its expiration
    sDisk       \* the sender's snapshot in IndexedDB

VARIABLES
    rStatus,    \* status of the recipient's batch transfer row
    rAsset,     \* its asset transfer has an asset ID
    rCons,      \* received_consignments holds the consignment
    rCall,      \* where the recipient's operation in progress stands
    rAt,        \* the endpoint that operation is talking to
    rFailing,   \* that operation is fail_transfers
    rLate,      \* the receive is past its expiration
    rDisk       \* the recipient's snapshot in IndexedDB

VARIABLES
    donation,   \* the donation flag this transfer is sent with
    posted,     \* per recipient, the endpoints that hold the consignment
    ackAt,      \* per recipient and endpoint, the answer the proxy keeps
    good,       \* per recipient, whether its wallet would find the consignment acceptable
    chain       \* the transaction as the network and the indexer know it

senderVars   == <<sStatus, artifacts, used, ack, sCall, sFailing, todo, sLate, sDisk>>
receiverVars == <<rStatus, rAsset, rCons, rCall, rAt, rFailing, rLate, rDisk>>
netVars      == <<donation, posted, ackAt, good, chain>>
vars         == <<senderVars, receiverVars, netVars>>

Status    == {"Absent", "WaitingCounterparty", "WaitingConfirmations",
              "Settled", "Failed", "Gone"}
Artifacts == {"none", "prepared", "signed", "dropped"}
Answer    == {"none", "ack", "nack"}
ChainView == {"unknown", "mempool", "mined", "evicted", "conflicted"}
SenderCalls   == {"idle", "pending", "post", "acks", "broadcast", "sync"}
ReceiverCalls == {"idle", "get", "validate", "ack", "nack"}

(* The sender's or a recipient's wallet as a snapshot records it.          *)
SenderImage == [status |-> sStatus, artifacts |-> artifacts, used |-> used, ack |-> ack]
ReceiverImage(r) == [status |-> rStatus[r], asset |-> rAsset[r], cons |-> rCons[r]]
SenderImages == [status : Status, artifacts : Artifacts,
                 used : [Recipients -> SUBSET Endpoints], ack : [Recipients -> Answer]]
ReceiverImages == [status : Status, asset : BOOLEAN, cons : BOOLEAN]

TypeOK ==
    /\ sStatus \in Status /\ artifacts \in Artifacts
    /\ used \in [Recipients -> SUBSET Endpoints] /\ ack \in [Recipients -> Answer]
    /\ sCall \in SenderCalls /\ sFailing \in BOOLEAN /\ todo \subseteq Recipients
    /\ sLate \in BOOLEAN /\ sDisk \in SenderImages
    /\ rStatus \in [Recipients -> Status] /\ rAsset \in [Recipients -> BOOLEAN]
    /\ rCons \in [Recipients -> BOOLEAN] /\ rCall \in [Recipients -> ReceiverCalls]
    /\ rAt \in [Recipients -> Endpoints] /\ rFailing \in [Recipients -> BOOLEAN]
    /\ rLate \in [Recipients -> BOOLEAN] /\ rDisk \in [Recipients -> ReceiverImages]
    /\ donation \in Donations /\ posted \in [Recipients -> SUBSET Endpoints]
    /\ ackAt \in [Recipients -> [Endpoints -> Answer]]
    /\ good \in [Recipients -> BOOLEAN] /\ chain \in ChainView

(* A wallet that was never saved comes back from a reload without the      *)
(* transfer: its invoice, or its prepared PSBT, is forgotten.              *)
Init ==
    /\ sStatus = "Absent" /\ artifacts = "none"
    /\ used = [r \in Recipients |-> {}] /\ ack = [r \in Recipients |-> "none"]
    /\ sCall = "idle" /\ sFailing = FALSE /\ todo = {} /\ sLate = FALSE
    /\ sDisk = [status |-> "Absent", artifacts |-> "dropped",
                used |-> [r \in Recipients |-> {}], ack |-> [r \in Recipients |-> "none"]]
    /\ rStatus = [r \in Recipients |-> "Absent"] /\ rAsset = [r \in Recipients |-> FALSE]
    /\ rCons = [r \in Recipients |-> FALSE] /\ rCall = [r \in Recipients |-> "idle"]
    /\ rAt = [r \in Recipients |-> 1] /\ rFailing = [r \in Recipients |-> FALSE]
    /\ rLate = [r \in Recipients |-> FALSE]
    /\ rDisk = [r \in Recipients |-> [status |-> "Gone", asset |-> FALSE, cons |-> FALSE]]
    /\ donation \in Donations
    /\ posted = [r \in Recipients |-> {}]
    /\ ackAt = [r \in Recipients |-> [e \in Endpoints |-> "none"]]
    /\ good \in [Recipients -> BOOLEAN]
    /\ chain = "unknown"

-----------------------------------------------------------------------------
(* The sender: preparing and posting.                                      *)

(* send_begin: the PSBT and the consignments exist, nothing is saved in    *)
(* the database and the inputs are not reserved.                           *)
SendBegin ==
    /\ sCall = "idle" /\ artifacts = "none"
    /\ \A r \in Recipients : rStatus[r] # "Absent"
    /\ artifacts' = "prepared"
    /\ UNCHANGED <<sStatus, used, ack, sCall, sFailing, todo, sLate, sDisk, receiverVars, netVars>>

(* post_pending_consignments: posts without completing the transfer.       *)
PostPending ==
    /\ sCall = "idle" /\ artifacts = "prepared"
    /\ sCall' = "pending" /\ todo' = Recipients
    /\ UNCHANGED <<sStatus, artifacts, used, ack, sFailing, sLate, sDisk, receiverVars, netVars>>

(* send_end takes the prepared artifacts out of the map and leaves only    *)
(* the signed PSBT there, before the first consignment is posted.          *)
SendEnd ==
    /\ sCall = "idle" /\ artifacts = "prepared"
    /\ artifacts' = "signed" /\ sCall' = "post" /\ todo' = Recipients
    /\ UNCHANGED <<sStatus, used, ack, sFailing, sLate, sDisk, receiverVars, netVars>>

(* A second send_end for the same PSBT: the map entry is removed before    *)
(* the missing batch info is noticed.                                      *)
SendEndAgain ==
    /\ "resend" \in Faults
    /\ sCall = "idle" /\ artifacts = "signed"
    /\ artifacts' = "dropped"
    /\ UNCHANGED <<sStatus, used, ack, sCall, sFailing, todo, sLate, sDisk, receiverVars, netVars>>

(* Endpoints before e whose consignment arrived although the response did  *)
(* not: the loop then goes on to the next endpoint.                        *)
Unheard(e) == SUBSET IF "loss" \in Faults THEN 1..(e - 1) ELSE {}

(* The loop over the endpoints of r stops at e, because e was used before, *)
(* or its proxy takes the consignment, or (post_pending_consignments) the  *)
(* proxy already holds the same one.                                       *)
PostAccepted(r) ==
    /\ sCall \in {"pending", "post"} /\ r \in todo
    /\ \E e \in Endpoints : \E unheard \in Unheard(e) :
          /\ e > 1 => "loss" \in Faults
          /\ used[r] \cap 1..(e - 1) = {}
          /\ used' = [used EXCEPT ![r] = @ \cup {e}]
          /\ posted' = [posted EXCEPT ![r] = @ \cup unheard \cup {e}]
    /\ todo' = todo \ {r}
    /\ UNCHANGED <<sStatus, artifacts, ack, sCall, sFailing, sLate, sDisk, receiverVars,
                   donation, ackAt, good, chain>>

(* No endpoint answered (NoValidTransportEndpoint), or one holding the     *)
(* consignment answered that the recipient ID is already used, and         *)
(* post_pending_consignments could not read the consignment back.          *)
PostAborted(r) ==
    /\ sCall \in {"pending", "post"} /\ r \in todo
    /\ \E e \in 1..(MaxEndpoint + 1) : \E unheard \in Unheard(e) :
          /\ used[r] \cap 1..e = {}
          /\ \/ e = MaxEndpoint + 1 /\ "loss" \in Faults
             \/ /\ e \in posted[r]
                /\ e > 1 \/ sCall = "pending" => "loss" \in Faults
          /\ posted' = [posted EXCEPT ![r] = @ \cup unheard]
    /\ used' = IF sCall = "post" THEN [q \in Recipients |-> {}] ELSE used
    /\ sCall' = "idle" /\ todo' = {}
    /\ UNCHANGED <<sStatus, artifacts, ack, sFailing, sLate, sDisk, receiverVars,
                   donation, ackAt, good, chain>>

SavedBeforeBroadcast == IF donation THEN "WaitingConfirmations" ELSE "WaitingCounterparty"
(* A transfer that is not a donation is saved once posted and waits for    *)
(* its recipients; a donation is broadcast first and saved afterwards.     *)
StatusOncePosted == IF donation THEN sStatus ELSE "WaitingCounterparty"

PostCompleted ==
    /\ todo = {}
    /\ \/ /\ sCall = "pending"
          /\ sCall' = "idle" /\ UNCHANGED <<sStatus, ack, sLate>>
       \/ /\ sCall = "post" /\ ~donation
          /\ sStatus' = StatusOncePosted /\ ack' = [r \in Recipients |-> "none"]
          /\ sCall' = "idle" /\ sLate' = FALSE
       \/ /\ sCall = "post" /\ donation
          /\ sStatus' = StatusOncePosted
          /\ sCall' = "broadcast" /\ UNCHANGED <<ack, sLate>>
    /\ UNCHANGED <<artifacts, used, sFailing, todo, sDisk, receiverVars, netVars>>

-----------------------------------------------------------------------------
(* The sender: collecting the answers and broadcasting.                    *)

(* fail_transfers, directly or for the expired ones.  An outgoing transfer *)
(* always has an asset ID: its application does not pass no_asset_only.    *)
SenderMayFailEarly == OnlyExpired => ~sLate
SenderMayFail == OnlyExpired => sLate

SenderRefresh ==
    /\ sCall = "idle" /\ sStatus = "WaitingCounterparty"
    /\ sFailing' \in IF SenderMayFail THEN BOOLEAN ELSE {FALSE}
    /\ sCall' = "acks" /\ todo' = {r \in Recipients : ack[r] = "none"}
    /\ UNCHANGED <<sStatus, artifacts, used, ack, sLate, sDisk, receiverVars, netVars>>

(* _try_fail_batch_transfer_async: an error ends fail_transfers, but for a *)
(* refused fee, which counts as a transfer that did not change.            *)
FailedByAnyError(error) == IF sFailing THEN "Failed" ELSE sStatus
StatusAfterError(error) == IF sFailing /\ error = "fee" THEN "Failed" ELSE sStatus

(* ack.get at the first endpoint marked as used.                           *)
ReadAck(r) ==
    /\ sCall = "acks" /\ r \in todo
    /\ \E e \in used[r] : /\ \A f \in used[r] : e <= f
                         /\ ack' = [ack EXCEPT ![r] = ackAt[r][e]]
    /\ todo' = todo \ {r}
    /\ UNCHANGED <<sStatus, artifacts, used, sCall, sFailing, sLate, sDisk, receiverVars, netVars>>

(* The end of a sender operation, successful or not.                       *)
SenderReturns == sCall' = "idle" /\ sFailing' = FALSE /\ todo' = {}

ReadAckLost ==
    /\ "loss" \in Faults
    /\ sCall = "acks" /\ todo # {}
    /\ sStatus' = StatusAfterError("network")
    /\ SenderReturns
    /\ UNCHANGED <<artifacts, used, ack, sLate, sDisk, receiverVars, netVars>>

SomeAcked  == \E r \in Recipients : ack[r] = "ack"
NoneNacked == \A r \in Recipients : ack[r] # "nack"
AllAcked   == \A r \in Recipients : ack[r] = "ack"

(* All answers read: fail on a NACK, broadcast if all are ACKs, otherwise  *)
(* wait; fail_transfers fails what did not change.                         *)
DecideAcks ==
    /\ sCall = "acks" /\ todo = {}
    /\ \/ /\ \E r \in Recipients : ack[r] = "nack"
          /\ sStatus' = "Failed" /\ SenderReturns
       \/ /\ AllAcked /\ artifacts = "signed"
          /\ sCall' = "broadcast" /\ UNCHANGED <<sStatus, sFailing, todo>>
       \/ /\ AllAcked /\ artifacts # "signed"
          /\ SenderReturns /\ UNCHANGED sStatus
       \/ /\ NoneNacked /\ ~AllAcked
          /\ sStatus' = IF sFailing THEN "Failed" ELSE sStatus
          /\ SenderReturns
    /\ UNCHANGED <<artifacts, used, ack, sLate, sDisk, receiverVars, netVars>>

(* What the network makes of the transaction once it has been sent to it.  *)
Published == IF chain \in {"unknown", "evicted"} THEN "mempool" ELSE chain

(* The node takes the transaction, or refuses it but already knows it.     *)
Broadcast ==
    /\ sCall = "broadcast" /\ chain # "conflicted"
    /\ chain' = Published /\ sCall' = "sync"
    /\ UNCHANGED <<sStatus, artifacts, used, ack, sFailing, todo, sLate, sDisk, receiverVars,
                   donation, posted, ackAt, good>>

(* No usable answer, neither to the broadcast nor to the query that        *)
(* follows: the transaction may be out.                                    *)
BroadcastUnheard ==
    /\ "loss" \in Faults
    /\ sCall = "broadcast"
    /\ chain' \in {chain, Published}
    /\ sStatus' = StatusAfterError("network")
    /\ SenderReturns
    /\ UNCHANGED <<artifacts, used, ack, sLate, sDisk, receiverVars, donation, posted, ackAt, good>>

(* FailedBroadcast: an input is spent and the transaction is unknown.      *)
BroadcastConflicts ==
    /\ sCall = "broadcast" /\ chain = "conflicted"
    /\ sStatus' = StatusAfterError("broadcast")
    /\ SenderReturns
    /\ UNCHANGED <<artifacts, used, ack, sLate, sDisk, receiverVars, netVars>>

(* MinFeeNotMet or MaxFeeExceeded: fail_transfers takes it for a transfer  *)
(* that did not change and fails it.                                       *)
BroadcastFeeRefused ==
    /\ "fee" \in Faults
    /\ sCall = "broadcast" /\ chain \in {"unknown", "evicted"}
    /\ sStatus' = StatusAfterError("fee")
    /\ SenderReturns
    /\ UNCHANGED <<artifacts, used, ack, sLate, sDisk, receiverVars, netVars>>

(* After the broadcast: the optional sync, then the database.  A donation  *)
(* gets its row only here; otherwise the signed PSBT is dropped.           *)
BroadcastRecorded ==
    /\ sCall = "sync"
    /\ sStatus' = "WaitingConfirmations"
    /\ artifacts' = IF donation THEN artifacts ELSE "dropped"
    /\ SenderReturns
    /\ UNCHANGED <<used, ack, sLate, sDisk, receiverVars, netVars>>

(* The sync after the broadcast fails; fail_transfers skips it.            *)
SyncLost ==
    /\ "loss" \in Faults
    /\ sCall = "sync" /\ ~sFailing
    /\ SenderReturns
    /\ UNCHANGED <<sStatus, artifacts, used, ack, sLate, sDisk, receiverVars, netVars>>

ConfirmedEnough == chain = "mined" \/ (ZeroConf /\ chain = "mempool")

SenderSettles ==
    /\ sCall = "idle" /\ sStatus = "WaitingConfirmations" /\ ConfirmedEnough
    /\ sStatus' = "Settled"
    /\ UNCHANGED <<artifacts, used, ack, sCall, sFailing, todo, sLate, sDisk, receiverVars, netVars>>

(* delete_transfers: only failed transfers are eligible.                   *)
DeletableOnceExpired(status) == status \in {"Failed", "WaitingCounterparty"}
Deletable(status) == status = "Failed"

SenderDeletes ==
    /\ sCall = "idle" /\ Deletable(sStatus)
    /\ sStatus' = "Gone"
    /\ UNCHANGED <<artifacts, used, ack, sCall, sFailing, todo, sLate, sDisk, receiverVars, netVars>>

(* The clock matters only to applications that wait for the expiration.    *)
SenderExpires ==
    /\ OnlyExpired
    /\ sStatus = "WaitingCounterparty" /\ ~sLate
    /\ sLate' = TRUE
    /\ UNCHANGED <<sStatus, artifacts, used, ack, sCall, sFailing, todo, sDisk, receiverVars, netVars>>

(* An automatic save or a flush commits.  Snapshots are taken between      *)
(* operations; the order in which they commit is module IdbPersistence.    *)
SenderSaved ==
    /\ "reload" \in Faults
    /\ sCall = "idle" /\ sDisk # SenderImage
    /\ sDisk' = SenderImage
    /\ UNCHANGED <<sStatus, artifacts, used, ack, sCall, sFailing, todo, sLate, receiverVars, netVars>>

SenderReloads ==
    /\ "reload" \in Faults
    /\ sStatus' = sDisk.status /\ artifacts' = sDisk.artifacts
    /\ used' = sDisk.used /\ ack' = sDisk.ack
    /\ SenderReturns
    /\ UNCHANGED <<sLate, sDisk, receiverVars, netVars>>

-----------------------------------------------------------------------------
(* A recipient.                                                            *)

(* blind_receive or witness_receive, with or without an asset ID.          *)
Receive(r) ==
    /\ rStatus[r] = "Absent"
    /\ rStatus' = [rStatus EXCEPT ![r] = "WaitingCounterparty"]
    /\ \E asset \in BOOLEAN : rAsset' = [rAsset EXCEPT ![r] = asset]
    /\ UNCHANGED <<rCons, rCall, rAt, rFailing, rLate, rDisk, senderVars, netVars>>

(* What fail_transfers checks before it refreshes the transfer.            *)
ReceiverMayFailWithAsset(r) == OnlyExpired => rLate[r]
ReceiverMayFail(r) == /\ FALSE \in NoAssetOnly \/ (TRUE \in NoAssetOnly /\ ~rAsset[r])
                      /\ OnlyExpired => rLate[r]

ReceiverRefresh(r) ==
    /\ rCall[r] = "idle" /\ rStatus[r] = "WaitingCounterparty"
    /\ \E failing \in IF ReceiverMayFail(r) THEN BOOLEAN ELSE {FALSE} :
          rFailing' = [rFailing EXCEPT ![r] = failing]
    /\ rCall' = [rCall EXCEPT ![r] = "get"] /\ rAt' = [rAt EXCEPT ![r] = 1]
    /\ UNCHANGED <<rStatus, rAsset, rCons, rLate, rDisk, senderVars, netVars>>

(* The end of an operation of r, successful or not.                        *)
ReceiverReturns(r) == /\ rCall' = [rCall EXCEPT ![r] = "idle"]
                      /\ rAt' = [rAt EXCEPT ![r] = 1]
                      /\ rFailing' = [rFailing EXCEPT ![r] = FALSE]

GetUnkeptConsignment(r) ==
    /\ rCall[r] = "get" /\ rAt[r] \in posted[r]
    /\ rCall' = [rCall EXCEPT ![r] = "validate"]
    /\ UNCHANGED <<rStatus, rAsset, rCons, rAt, rFailing, rLate, rDisk, senderVars, netVars>>

(* consignment.get finds the consignment and keeps it in memory.           *)
GetConsignment(r) ==
    /\ rCall[r] = "get" /\ rAt[r] \in posted[r]
    /\ rCall' = [rCall EXCEPT ![r] = "validate"]
    /\ rCons' = [rCons EXCEPT ![r] = TRUE]
    /\ UNCHANGED <<rStatus, rAsset, rAt, rFailing, rLate, rDisk, senderVars, netVars>>

PastLastEndpoint(r) == rAt[r] > MaxEndpoint
LastEndpoint(r) == rAt[r] = MaxEndpoint

(* No consignment at this endpoint, or any error: try the next one; after  *)
(* the last one nothing changed, and fail_transfers fails the transfer.    *)
NoConsignment(r) ==
    /\ rCall[r] = "get"
    /\ rAt[r] \notin posted[r] \/ "loss" \in Faults
    /\ \/ /\ ~LastEndpoint(r)
          /\ rAt' = [rAt EXCEPT ![r] = @ + 1]
          /\ UNCHANGED <<rStatus, rCall, rFailing>>
       \/ /\ LastEndpoint(r)
          /\ rStatus' = [rStatus EXCEPT ![r] = IF rFailing[r] THEN "Failed" ELSE @]
          /\ ReceiverReturns(r)
    /\ UNCHANGED <<rAsset, rCons, rLate, rDisk, senderVars, netVars>>

(* Any check that fails makes the wallet refuse the consignment.           *)
Verdict(r) == IF good[r] THEN "ack" ELSE "nack"

ValidateWithoutAsset(r) ==
    /\ rCall[r] = "validate"
    /\ rCall' = [rCall EXCEPT ![r] = Verdict(r)]
    /\ UNCHANGED <<rStatus, rAsset, rCons, rAt, rFailing, rLate, rDisk, senderVars, netVars>>

(* Validation, reject list included.  An accepted consignment gives the    *)
(* asset transfer its asset ID before the ACK is posted.                   *)
Validate(r) ==
    /\ rCall[r] = "validate"
    /\ rCall' = [rCall EXCEPT ![r] = Verdict(r)]
    /\ rAsset' = [rAsset EXCEPT ![r] = @ \/ good[r]]
    /\ UNCHANGED <<rStatus, rCons, rAt, rFailing, rLate, rDisk, senderVars, netVars>>

(* The resolver, the reject list or the ACK request fails on the way out.  *)
ReceiverCallLost(r) ==
    /\ "loss" \in Faults
    /\ rCall[r] \in {"validate", "ack", "nack"}
    /\ ReceiverReturns(r)
    /\ UNCHANGED <<rStatus, rAsset, rCons, rLate, rDisk, senderVars, netVars>>

(* ack.post: the proxy keeps its first answer for good.                    *)
AckKept(r) ==
    ackAt' = [ackAt EXCEPT ![r][rAt[r]] = IF @ = "none" THEN rCall[r] ELSE @]

(* The ACK or NACK is posted, or the proxy refuses to change its answer,   *)
(* which the wallet treats alike.                                          *)
PostAck(r) ==
    /\ rCall[r] \in {"ack", "nack"}
    /\ AckKept(r)
    /\ rStatus' = [rStatus EXCEPT ![r] = IF rCall[r] = "ack" THEN "WaitingConfirmations"
                                                             ELSE "Failed"]
    /\ ReceiverReturns(r)
    /\ UNCHANGED <<rAsset, rCons, rLate, rDisk, senderVars, donation, posted, good, chain>>

(* The answer reached the proxy, its response did not come back.           *)
PostAckUnheard(r) ==
    /\ "loss" \in Faults
    /\ rCall[r] \in {"ack", "nack"}
    /\ AckKept(r)
    /\ ReceiverReturns(r)
    /\ UNCHANGED <<rStatus, rAsset, rCons, rLate, rDisk, senderVars, donation, posted, good, chain>>

(* Settlement needs the consignment that was kept in memory.               *)
ReceiverSettles(r) ==
    /\ rCall[r] = "idle" /\ rStatus[r] = "WaitingConfirmations" /\ ConfirmedEnough
    /\ rCons[r]
    /\ rStatus' = [rStatus EXCEPT ![r] = "Settled"]
    /\ rCons' = [rCons EXCEPT ![r] = FALSE]
    /\ UNCHANGED <<rAsset, rCall, rAt, rFailing, rLate, rDisk, senderVars, netVars>>

ReceiverDeletes(r) ==
    /\ rCall[r] = "idle" /\ Deletable(rStatus[r])
    /\ rStatus' = [rStatus EXCEPT ![r] = "Gone"]
    /\ UNCHANGED <<rAsset, rCons, rCall, rAt, rFailing, rLate, rDisk, senderVars, netVars>>

ReceiverExpires(r) ==
    /\ OnlyExpired
    /\ rStatus[r] = "WaitingCounterparty" /\ ~rLate[r]
    /\ rLate' = [rLate EXCEPT ![r] = TRUE]
    /\ UNCHANGED <<rStatus, rAsset, rCons, rCall, rAt, rFailing, rDisk, senderVars, netVars>>

ReceiverSaved(r) ==
    /\ "reload" \in Faults
    /\ rCall[r] = "idle" /\ rStatus[r] # "Absent" /\ rDisk[r] # ReceiverImage(r)
    /\ rDisk' = [rDisk EXCEPT ![r] = ReceiverImage(r)]
    /\ UNCHANGED <<rStatus, rAsset, rCons, rCall, rAt, rFailing, rLate, senderVars, netVars>>

ReceiverReloads(r) ==
    /\ "reload" \in Faults
    /\ rStatus[r] # "Absent"
    /\ rStatus' = [rStatus EXCEPT ![r] = rDisk[r].status]
    /\ rAsset' = [rAsset EXCEPT ![r] = rDisk[r].asset]
    /\ rCons' = [rCons EXCEPT ![r] = rDisk[r].cons]
    /\ ReceiverReturns(r)
    /\ UNCHANGED <<rLate, rDisk, senderVars, netVars>>

-----------------------------------------------------------------------------
(* The network and the issuer.                                             *)

Mine ==
    /\ chain \in {"mempool", "evicted"}
    /\ chain' = "mined"
    /\ UNCHANGED <<senderVars, receiverVars, donation, posted, ackAt, good>>

Evict ==
    /\ "evict" \in Faults
    /\ chain = "mempool"
    /\ chain' = "evicted"
    /\ UNCHANGED <<senderVars, receiverVars, donation, posted, ackAt, good>>

(* send_begin reserves nothing, so another transfer can spend an input.    *)
Conflict ==
    /\ "conflict" \in Faults
    /\ chain = "unknown" /\ artifacts # "none"
    /\ chain' = "conflicted"
    /\ UNCHANGED <<senderVars, receiverVars, donation, posted, ackAt, good>>

RejectListChanges(r) ==
    /\ "rejectlist" \in Faults
    /\ good' = [good EXCEPT ![r] = ~@]
    /\ UNCHANGED <<senderVars, receiverVars, donation, posted, ackAt, chain>>

-----------------------------------------------------------------------------
Sender ==
    \/ SendBegin \/ PostPending \/ SendEnd \/ SendEndAgain \/ PostCompleted
    \/ SenderRefresh \/ ReadAckLost \/ DecideAcks
    \/ Broadcast \/ BroadcastUnheard \/ BroadcastConflicts \/ BroadcastFeeRefused
    \/ BroadcastRecorded \/ SyncLost
    \/ SenderSettles \/ SenderDeletes \/ SenderExpires \/ SenderSaved \/ SenderReloads
    \/ \E r \in Recipients : PostAccepted(r) \/ PostAborted(r) \/ ReadAck(r)

Receiver(r) ==
    \/ Receive(r) \/ ReceiverRefresh(r) \/ GetConsignment(r) \/ NoConsignment(r)
    \/ Validate(r) \/ ReceiverCallLost(r) \/ PostAck(r) \/ PostAckUnheard(r)
    \/ ReceiverSettles(r) \/ ReceiverDeletes(r) \/ ReceiverExpires(r)
    \/ ReceiverSaved(r) \/ ReceiverReloads(r)

Network == Mine \/ Evict \/ Conflict \/ \E r \in Recipients : RejectListChanges(r)

Next == Sender \/ Network \/ \E r \in Recipients : Receiver(r)

Spec == Init /\ [][Next]_vars

(* The async executor resumes every operation in progress, a network that  *)
(* loses requests does not lose all of them, applications keep polling     *)
(* refresh (and fail_transfers once the sender's transfer has expired),    *)
(* blocks are found and time passes.  Nobody has to send, delete, reload.  *)
(* A transaction in the mempool is mined in the end; one that was evicted  *)
(* need not be, and no wallet broadcasts it again.                         *)
Fairness ==
    /\ WF_vars(PostCompleted) /\ WF_vars(DecideAcks)
    /\ SF_vars(Broadcast) /\ SF_vars(BroadcastRecorded) /\ WF_vars(BroadcastConflicts)
    /\ WF_vars(SenderRefresh) /\ SF_vars(SenderRefresh /\ sFailing')
    /\ WF_vars(SenderSettles) /\ WF_vars(SenderExpires)
    /\ \A r \in Recipients :
          /\ SF_vars(PostAccepted(r))
          /\ SF_vars(ReadAck(r)) /\ SF_vars(ReadAck(r) /\ sFailing)
          /\ WF_vars(ReceiverRefresh(r)) /\ WF_vars(NoConsignment(r))
          /\ SF_vars(GetConsignment(r)) /\ SF_vars(Validate(r)) /\ SF_vars(PostAck(r))
          /\ WF_vars(ReceiverSettles(r))
    /\ WF_vars(Mine /\ chain = "mempool")

FairSpec == Spec /\ Fairness

-----------------------------------------------------------------------------
(* Properties.                                                             *)

Out == chain \in {"mempool", "evicted", "mined"}
Accepted(r) == \E e \in Endpoints : ackAt[r][e] = "ack"

(* The transaction of a transfer that is not a donation becomes public     *)
(* only after every recipient has posted an ACK, at whatever moment the    *)
(* sender reloads, retries, gives up or loses a response (_wait_ack_async  *)
(* and send_end).                                                          *)
BroadcastNeedsEveryAck == ~donation /\ Out => \A r \in Recipients : Accepted(r)

(* A transfer the sender's wallet shows as failed, or has deleted, never   *)
(* had its transaction made public: fail_transfers and a NACK only act on  *)
(* transfers not broadcast (_try_fail_batch_transfer_async).  Claimed for  *)
(* wallets that are not reloaded and a mempool that does not evict: a      *)
(* reload forgets that a transfer failed, and one left with a proxy to try *)
(* can then be posted again, acknowledged and broadcast.                   *)
FailedNeverBroadcast == sStatus \in {"Failed", "Gone"} => ~Out

(* A recipient that failed its receive has not told the sender to pay:     *)
(* what _wait_consignment_async and fail_transfers leave at the proxies    *)
(* agrees with the row.  With a lossy network it needs applications that   *)
(* pass no_asset_only, since the asset ID is set before the ACK is posted. *)
FailedReceiverNeverAccepted ==
    \A r \in Recipients : rStatus[r] \in {"Failed", "Gone"} => ~Accepted(r)

(* Every recipient of a transfer its sender sees settled has a receive     *)
(* that is settled or still can be: it waits for confirmations with its    *)
(* consignment in memory, or is refreshing towards that.                   *)
SettledSenderLosesNoRecipient ==
    ~donation /\ sStatus = "Settled" =>
        \A r \in Recipients :
            \/ rStatus[r] = "Settled"
            \/ rStatus[r] = "WaitingConfirmations" /\ rCons[r]
            \/ rStatus[r] = "WaitingCounterparty" /\ posted[r] # {} /\ ~ReceiverMayFail(r)

(* A donation the sender's wallet lists was made public: send_end writes   *)
(* its row after the broadcast, so that neither a refused or conflicting   *)
(* transaction nor a reload leaves a row for a donation that never went    *)
(* out.                                                                    *)
DonationRowMeansBroadcast == donation /\ sStatus # "Absent" => Out

(* The status graph of TransferStatus: Settled and Failed are final, and   *)
(* no transfer waits for its counterparty again once it was broadcast.     *)
Successors(s) ==
    CASE s = "Absent"               -> {"WaitingCounterparty", "WaitingConfirmations"}
      [] s = "WaitingCounterparty"  -> {"WaitingConfirmations", "Failed"}
      [] s = "WaitingConfirmations" -> {"Settled"}
      [] s = "Failed"               -> {"Gone"}
      [] OTHER                      -> {}
StatusOnlyAdvances ==
    [][/\ sStatus' # sStatus => sStatus' \in Successors(sStatus)
       /\ \A r \in Recipients :
             rStatus'[r] # rStatus[r] => rStatus'[r] \in Successors(rStatus[r])]_vars

(* A broadcast transfer whose transaction left the mempool: the wallet has *)
(* no way out of WaitingConfirmations, since nothing broadcasts again and  *)
(* fail_transfers takes only WaitingCounterparty.                          *)
Stranded == sStatus = "WaitingConfirmations" /\ chain = "evicted"

(* A pending outgoing transfer is eventually settled or failed, unless it  *)
(* is stranded; one that is mined after all is pending until it settles.   *)
(* Provided no input is spent elsewhere and the signed PSBT is kept.       *)
SenderResolves ==
    sStatus \in {"WaitingCounterparty", "WaitingConfirmations"}
        ~> (sStatus \in {"Settled", "Failed", "Gone"} \/ Stranded)

(* Once the transaction is mined every recipient ends up with the asset,   *)
(* whatever requests and responses are lost on the way.                    *)
MinedReachesEveryRecipient ==
    (~donation /\ chain = "mined") ~> \A r \in Recipients : rStatus[r] = "Settled"

-----------------------------------------------------------------------------
(* What makes the safety properties inductive; proved in                   *)
(* RgbTransferProofs.                                                      *)

(* An ACK in the sender's database, or in its snapshot, was posted; a call *)
(* gets past the answers only with all of them.                            *)
AckInv ==
    /\ \A r \in Recipients : ack[r] = "ack" => Accepted(r)
    /\ \A r \in Recipients : sDisk.ack[r] = "ack" => Accepted(r)
    /\ ~donation /\ sCall \in {"broadcast", "sync"} => AllAcked
    /\ BroadcastNeedsEveryAck

(* What a sender knows of a donation.                                      *)
DonationInv ==
    /\ sCall = "sync" => Out
    /\ donation => /\ sCall # "acks" /\ ~sFailing
                   /\ sStatus \in {"Absent", "WaitingConfirmations", "Settled"}
                   /\ sDisk.status \in {"Absent", "WaitingConfirmations", "Settled"}
                   /\ sDisk.status # "Absent" => Out
    /\ DonationRowMeansBroadcast

(* Without reloads, how far the sender's row, its artifacts and its call   *)
(* in progress have come.                                                  *)
CommitInv ==
    /\ sCall \in {"pending", "post"} => sStatus = "Absent"
    /\ artifacts \in {"none", "prepared"} => sStatus = "Absent"
    /\ sCall \in {"post", "broadcast", "sync"} => artifacts = "signed"
    /\ ~donation /\ sCall \in {"acks", "broadcast", "sync"} => sStatus = "WaitingCounterparty"
    /\ sCall = "acks" => \A r \in todo : ack[r] = "none"
    /\ ~donation /\ Out =>
           AllAcked /\ sStatus \in {"WaitingCounterparty", "WaitingConfirmations", "Settled"}
    /\ donation => /\ sStatus \in {"Absent", "WaitingConfirmations", "Settled"}
                   /\ sCall # "acks" /\ ~sFailing
    /\ chain # "evicted"

(* Without reloads and reject list changes, when applications pass         *)
(* no_asset_only: a recipient that accepted has its asset ID, and thereby  *)
(* a receive that cannot be failed.                                        *)
ReceiverInv ==
    \A r \in Recipients :
        /\ Accepted(r) => /\ good[r] /\ rAsset[r]
                          /\ rStatus[r] \in {"WaitingCounterparty", "WaitingConfirmations", "Settled"}
        /\ rCall[r] # "idle" => rStatus[r] = "WaitingCounterparty"
        /\ rCall[r] = "ack" => good[r] /\ rAsset[r]
        /\ rCall[r] = "nack" => ~good[r]
        /\ rCall[r] = "get" /\ rFailing[r] => ~rAsset[r]
        /\ \A e \in Endpoints : ackAt[r][e] # "none" => rStatus[r] # "Absent"

-----------------------------------------------------------------------------
(* The transfer implements the abstract payment.                           *)
Abstract == INSTANCE AtomicPayment WITH
    consent   <- {r \in Recipients : Accepted(r)},
    paid      <- Out,
    cancelled <- sStatus \in {"Failed", "Gone"}
ImplementsAtomicPayment == Abstract!Spec
=============================================================================
