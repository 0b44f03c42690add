--------------------------- MODULE InflatableAsset ---------------------------
(***************************************************************************)
(* One inflatable asset (IFA) in one wallet: its tokens and inflation      *)
(* rights, the circulating supply the wallet knows of, inflations, and     *)
(* sends that avoid what the issuer's reject list forbids.  The asset is   *)
(* issued by this wallet or elsewhere; others hold and inflate it too.     *)
(*                                                                         *)
(* Inflations, sends and witness receives are transactions of ChainView.   *)
(* Sends are donations; which consent a send needs is the subject of       *)
(* RgbTransfer.  The RGB stock is external: it knows the allocations the   *)
(* database does, and counts the inflations it has heard of.               *)
(***************************************************************************)
EXTENDS ChainView, Selection

CONSTANTS Inflations, Sends, Receives,   \* the colored transactions
          OthersInflations,
          Issue,          \* the genesis of the asset
          IssuedTokens, IssuedRights,
          MaxAmount,      \* bound on the amounts sent and minted
          Lists           \* what the reject list may say

Nodes   == {Issue} \cup OthersInflations \cup Colored
Minters == Inflations \cup OthersInflations
(* Where tokens and rights that others hold come from.                     *)
Origins == {Issue} \cup OthersInflations \cup Sends

ASSUME AssetAssumption ==
    /\ Colored = Inflations \cup Sends \cup Receives
    /\ Inflations \cap Sends = {} /\ (Inflations \cup Sends) \cap Receives = {}
    /\ OthersInflations \cap Txs = {} /\ IsFiniteSet(OthersInflations)
    /\ Issue \notin Txs \cup OthersInflations /\ "none" \notin Sends
    /\ IssuedTokens \in Nat /\ IssuedRights \in Nat /\ MaxAmount \in Nat
    /\ Lists \subseteq [reject : SUBSET Nodes, allow : SUBSET Nodes]
    /\ \A t \in Inflations \cup Receives : 1 \in Made[t]

VARIABLES
    allocs,    \* the colorings that put an allocation on a UTXO
    status,    \* the status of each transfer; "Refused": too few assignments
    plan,      \* per inflation and send, what its transaction takes, brings and gives away
    known,     \* known_circulating_supply
    stock,     \* the inflations the stock has heard of
    minted,    \* what each inflation mints
    parents,   \* the DAG of transfers: where the inputs of each come from
    others,    \* what others hold, by kind and origin
    sending    \* the send_begin in progress

assetVars == <<allocs, status, plan, known, stock, minted, parents, others, sending>>
vars == <<chainVars, assetVars>>

NoAsset == -1
Kinds    == {"token", "right"}
Statuses == {"none", "Refused", "WaitingConfirmations", "Settled", "Failed"}

(* An allocation comes from a transfer, its source; the colorings by the   *)
(* transfers that move it keep that source.                                *)
Allocations == [txo : External, kind : Kinds, amount : Nat, source : Nodes, by : Nodes]
Alloc(u, kind, amount, t) == [txo |-> u, kind |-> kind, amount |-> amount, source |-> t, by |-> t]

NoPlan == [takes |-> {}, brings |-> {}, kind |-> "token", gives |-> 0]
NoSend == [send |-> "none", kind |-> "token", need |-> 0, needed |-> 0, rejected |-> {}]

TypeOK ==
    /\ ChainTypeOK
    /\ allocs \subseteq Allocations /\ status \in [Colored -> Statuses]
    /\ plan \in [Inflations \cup Sends -> [takes : SUBSET Allocations, brings : SUBSET Allocations,
                                           kind : Kinds, gives : Nat]]
    /\ known \in Nat \cup {NoAsset} /\ stock \subseteq Minters /\ minted \in [Minters -> Nat]
    /\ parents \in [Nodes -> SUBSET Nodes]
    /\ others \in [Kinds -> [Origins -> Nat]]
    /\ sending \in [send : Sends \cup {"none"}, kind : Kinds, need : Nat, needed : Nat,
                    rejected : SUBSET Allocations]

Init ==
    /\ ChainInit
    /\ allocs = {} /\ status = [t \in Colored |-> "none"]
    /\ plan = [t \in Inflations \cup Sends |-> NoPlan]
    /\ known = NoAsset /\ stock = {} /\ minted = [t \in Minters |-> 0]
    /\ parents = [t \in Nodes |-> {}]
    /\ others = [kind \in Kinds |-> [o \in Origins |-> 0]]
    /\ sending = NoSend

-----------------------------------------------------------------------------
(* Supply and history.                                                     *)

(* total_issued_supply of a contract of which these inflations are known.  *)
Supply(S) == IssuedTokens + MapThenSumSet(LAMBDA t : minted[t], S)

(* The transfers that are reached from t through inputs, not past shields. *)
Reached(dag, t, shields) ==
    LET up[R \in SUBSET Nodes] ==
            LET next == R \cup UNION {dag[x] : x \in R \ shields}
            IN  IF next = R THEN R ELSE up[next]
    IN  up[{t}]
Heard(dag, t) == Reached(dag, t, {}) \cap Minters

(* _check_dag: the list names an ancestor, and none on the way is allowed. *)
Rejects(list, dag, t) == Reached(dag, t, list.allow) \cap (list.reject \ list.allow) # {}

-----------------------------------------------------------------------------
(* The database.                                                           *)

Ready == ~panicked /\ sending = NoSend

On(u)        == {k \in allocs : k.txo = u}
IsSettled(k) == k.by = Issue \/ status[k.by] = "Settled"
Free         == {u \in External : rows[u] = "there" /\ On(u) = {}}
(* The pending_witness flag of an output that a receive waits for.         *)
PendingWitness(u) == Maker(u) \in Receives /\ status[Maker(u)] # "Settled"
(* UTXOs that get_input_unspents leaves.                                   *)
InputUnspents == {u \in External : rows[u] = "there" /\ \A k \in On(u) : IsSettled(k)}
Of(u, kind)  == {k \in On(u) : k.kind = kind}
Hosts(kind)  == {u \in InputUnspents : Of(u, kind) # {}}

SelectRgbInputs(kind, need) ==
    LET amounts == [u \in Hosts(kind) |-> Total(Of(u, kind))]
    IN  Reaching(Hosts(kind), amounts, amounts, need)

(* The allocations that become inputs: smallest first, until there are     *)
(* enough of them or no more.                                              *)
Contributing(candidates, need) ==
    LET amounts == [k \in candidates |-> k.amount]
    IN  IF Total(candidates) < need THEN {candidates}
        ELSE Reaching(candidates, amounts, amounts, need)

Moved(extra, to, t) ==
    {[txo |-> to, kind |-> k.kind, amount |-> k.amount, source |-> k.source, by |-> t] :
        k \in extra}
Change(kind, amount, to, t) == {k \in {Alloc(to, kind, amount, t)} : k.amount > 0}

(* The output for the bitcoin change of t, if t is made with one.          *)
ChangeOf(t) == IF t \in Inflations THEN <<t, 2>> ELSE <<t, 1>>

LeastLoaded(S) == {u \in S : \A v \in S : Cardinality(On(u)) <= Cardinality(On(v))}

(* get_utxo for a pending operation, below max_allocations_per_utxo.       *)
GetUtxo(exclude) ==
    LET allocatable == {u \in External \ exclude : rows[u] = "there" /\ ~PendingWitness(u)}
        future == {u \in allocatable : \E k \in On(u) : ~IsSettled(k)}
    IN  IF allocatable \cap Free # {} \/ future = {} THEN LeastLoaded(allocatable)
        ELSE LeastLoaded(future)

(* _get_change_seal: where what stays of these UTXOs goes.  Without a      *)
(* bitcoin change it is an existing UTXO, which nothing reserves until     *)
(* the PSBT is ended.                                                      *)
ChangeSeals(t, exclude, stays) ==
    IF ChangeOf(t) \in External \/ ~stays THEN {ChangeOf(t)} ELSE GetUtxo(exclude)
Stays(hosts, used, left) == left > 0 \/ UNION {On(u) : u \in hosts} # used

(* _restore_missing_bdk_inputs.                                            *)
RestoredGraph(hosts) == graph \cup UNION {Observed(graph, Maker(u)) : u \in hosts}

-----------------------------------------------------------------------------
(* Issuance.                                                               *)

Unissued ==
    /\ known = NoAsset /\ \A kind \in Kinds, o \in Origins : others[kind][o] = 0
    /\ \A t \in Colored : status[t] = "none" /\ tx[t] = "none"

Issued(u, v) ==
    {k \in {Alloc(u, "token", IssuedTokens, Issue), Alloc(v, "right", IssuedRights, Issue)} :
        k.amount > 0}

(* The rights get a UTXO of their own.                                     *)
IssueAssetIfa ==
    /\ Ready /\ Unissued
    /\ \E u, v \in Free : u # v /\ allocs' = Issued(u, v)
    /\ known' = IssuedTokens
    /\ UNCHANGED <<chainVars, status, plan, stock, minted, parents, others, sending>>

IssuedElsewhere ==
    /\ Unissued
    /\ others' = [others EXCEPT !["token"][Issue] = IssuedTokens, !["right"][Issue] = IssuedRights]
    /\ UNCHANGED <<chainVars, allocs, status, plan, known, stock, minted, parents, sending>>

OthersInflate(o) ==
    /\ minted[o] = 0
    /\ \E from \in Origins : \E amount \in 1..others["right"][from] :
          /\ minted' = [minted EXCEPT ![o] = amount]
          /\ others' = [others EXCEPT !["token"][o] = amount, !["right"][from] = @ - amount]
          /\ parents' = [parents EXCEPT ![o] = {from}]
    /\ UNCHANGED <<chainVars, allocs, status, plan, known, stock, sending>>

-----------------------------------------------------------------------------
(* Receiving.                                                              *)

(* extract_received_assignments.                                           *)
Received(r, kind, amount) == {Alloc(<<r, 1>>, kind, amount, r)}

(* save_new_asset_internal: of an asset that is new to the wallet, the     *)
(* consignment tells the supply.                                           *)
KnownFrom(consigned) == IF known = NoAsset THEN Supply(consigned) ELSE known

(* The consignment of r is valid: tokens or rights of one origin.          *)
WaitConsignment(r) ==
    /\ Ready /\ status[r] = "none"
    /\ \E o \in Origins, kind \in Kinds, list \in Lists : \E amount \in 1..others[kind][o] :
          /\ parents' = [parents EXCEPT ![r] = {o}]
          /\ IF Rejects(list, parents', r)
             THEN /\ status' = [status EXCEPT ![r] = "Failed"]
                  /\ UNCHANGED <<allocs, known, others, rows>>
             ELSE /\ status' = [status EXCEPT ![r] = "WaitingConfirmations"]
                  /\ allocs' = allocs \cup Received(r, kind, amount)
                  /\ known' = KnownFrom(Heard(parents', r))
                  /\ others' = [others EXCEPT ![kind][o] = @ - amount]
                  /\ rows' = [rows EXCEPT ![<<r, 1>>] = IF @ = "none" THEN "expected" ELSE @]
    /\ UNCHANGED <<tx, inputs, graph, panicked, plan, stock, minted, sending>>

(* The sender has the ACK; a donation, public before, is for WalletLedger. *)
Pay(r) ==
    /\ status[r] = "WaitingConfirmations" /\ Paid(r)
    /\ UNCHANGED assetVars

KeepKnown(heard)  == known
KnownAfter(heard) == IF known < Supply(heard) THEN Supply(heard) ELSE known

(* accept_transfer: the stock hears of the inflations r descends from.     *)
ReceiveSettles(r) ==
    /\ Ready /\ status[r] = "WaitingConfirmations" /\ r \in Indexed
    /\ \E skipSync \in BOOLEAN : IF skipSync THEN NotSynced ELSE Synced
    /\ status' = [status EXCEPT ![r] = "Settled"]
    /\ stock' = stock \cup Heard(parents, r)
    /\ known' = KnownAfter(stock')
    /\ UNCHANGED <<tx, inputs, panicked, allocs, plan, minted, parents, others, sending>>

-----------------------------------------------------------------------------
(* Inflating and sending.                                                  *)

(* The PSBT of t spends these UTXOs and these allocations of theirs.       *)
Prepares(t, hosts, fee, used, to, brings, kind, gives) ==
    LET takes == UNION {On(u) : u \in hosts}
    IN  /\ tx' = [tx EXCEPT ![t] = "prepared"]
        /\ inputs' = [inputs EXCEPT ![t] = hosts \cup fee]
        /\ plan' = [plan EXCEPT ![t] =
              [takes |-> takes, brings |-> brings \cup Moved(takes \ used, to, t),
               kind |-> kind, gives |-> gives]]
        /\ parents' = [parents EXCEPT ![t] = {k.source : k \in used}]

(* The outputs use up the bitcoins of the rights: the fee needs a UTXO.    *)
InflateBegin(i) ==
    /\ Ready /\ known # NoAsset /\ tx[i] = "none"
    /\ \E amount \in 1..MaxAmount : \E hosts \in SelectRgbInputs("right", amount) :
       \E fee \in Free : \E used \in Contributing(UNION {Of(u, "right") : u \in hosts}, amount) :
       \E to \in ChangeSeals(i, hosts \cup {fee}, Stays(hosts, used, Total(used) - amount)) :
          /\ Prepares(i, hosts, {fee}, used, to,
                {Alloc(<<i, 1>>, "token", amount, i)}
                  \cup Change("right", Total(used) - amount, to, i), "token", 0)
          /\ graph' = RestoredGraph(hosts)
          /\ minted' = [minted EXCEPT ![i] = amount]
    /\ stock' = stock \cup {i}
    /\ UNCHANGED <<rows, panicked, allocs, status, known, others, sending>>

SendBegin(s) ==
    /\ Ready /\ known # NoAsset /\ tx[s] = "none" /\ status[s] = "none"
    /\ \E kind \in Kinds, amount \in 1..MaxAmount :
          sending' = [send |-> s, kind |-> kind, need |-> amount, needed |-> amount,
                      rejected |-> {}]
    /\ UNCHANGED <<chainVars, allocs, status, plan, known, stock, minted, parents, others>>

(* What these UTXOs offer to the send in progress.                         *)
Allowed(hosts) == (UNION {Of(u, sending.kind) : u \in hosts}) \ sending.rejected

RetryWithLessNeed(p, bad) == [p EXCEPT !.rejected = @ \cup bad, !.needed = @ - Total(bad)]
RetryWithSameNeed(p, bad) == [p EXCEPT !.rejected = @ \cup bad]
RetryFromScratch(p, bad)  == p
(* What is rejected stays out, and as much more is needed.                 *)
RetryWithout(p, bad) == [p EXCEPT !.rejected = @ \cup bad, !.needed = @ + Total(bad)]

(* A round that finds these inputs, of which the list rejects bad ones,    *)
(* fails if there is no UTXO for the change (InsufficientAllocationSlots). *)
Round(s, hosts, used, fee, bad) ==
    LET left  == Total(used) - sending.need
        seals == ChangeSeals(s, hosts \cup fee, Stays(hosts, used, left))
    IN  \/ /\ bad # {} /\ seals # {}
           /\ sending' = RetryWithout(sending, bad)
           /\ UNCHANGED <<tx, inputs, plan, parents>>
        \/ /\ bad = {} /\ sending' = NoSend
           /\ \E to \in seals : Prepares(s, hosts, fee, used, to, Change(sending.kind, left, to, s),
                                        sending.kind, sending.need)
        \/ /\ seals = {} /\ sending' = NoSend
           /\ UNCHANGED <<tx, inputs, plan, parents>>

(* One round of send_begin; the reject list is fetched anew each time.     *)
SendAttempt(s) ==
    /\ sending.send = s
    /\ \/ /\ SelectRgbInputs(sending.kind, sending.needed) = {}
          /\ status' = [status EXCEPT ![s] = "Refused"] /\ sending' = NoSend
          /\ UNCHANGED <<tx, inputs, graph, plan, parents>>
       \/ \E hosts \in SelectRgbInputs(sending.kind, sending.needed) :
          \E used \in Contributing(Allowed(hosts), sending.needed) :
          \E fee \in {{}} \cup {{u} : u \in Free}, list \in Lists :
             /\ Round(s, hosts, used, fee, {k \in used : Rejects(list, parents, k.source)})
             /\ graph' = RestoredGraph(hosts)
             /\ UNCHANGED status
    /\ UNCHANGED <<rows, panicked, allocs, known, stock, minted, others>>

(* The reject list cannot be fetched: send_begin fails.                    *)
SendAborted ==
    /\ sending # NoSend /\ sending' = NoSend
    /\ UNCHANGED <<chainVars, allocs, status, plan, known, stock, minted, parents, others>>

KnownInflated(t) == IF t \in Inflations THEN known + minted[t] ELSE known

(* _save_transfers finds the row of every output that was minted to.       *)
Saves(t, synced) ==
    IF t \in Inflations /\ synced[<<t, 1>>] = "none"
    THEN panicked' = TRUE /\ UNCHANGED <<rows, allocs, status, known>>
    ELSE /\ rows' = [u \in External |-> IF u = ChangeOf(t) /\ synced[u] = "none"
                                        THEN "expected" ELSE synced[u]]
         /\ allocs' = allocs \cup plan[t].brings
         /\ status' = [status EXCEPT ![t] = "WaitingConfirmations"]
         /\ known' = KnownInflated(t)
         /\ UNCHANGED panicked

EndBroadcast(t) ==
    /\ Ready /\ tx[t] = "prepared" /\ Acceptable(t) /\ Published(t)
    /\ \/ (BroadcastPanics(t) \/ BroadcastSyncFails(t)) /\ UNCHANGED <<allocs, status, known>>
       \/ /\ InputsFound(t)
          /\ \E b \in Broadcasts(t, FALSE, Indexed') : graph' = b.graph /\ Saves(t, b.rows)
    /\ others' = IF t \in Sends
                 THEN [others EXCEPT ![plan[t].kind][t] = plan[t].gives] ELSE others
    /\ UNCHANGED <<inputs, plan, stock, minted, parents, sending>>

OutgoingSettles(t) ==
    /\ Ready /\ status[t] = "WaitingConfirmations" /\ t \in Indexed
    /\ status' = [status EXCEPT ![t] = "Settled"]
    /\ UNCHANGED <<chainVars, allocs, plan, known, stock, minted, parents, others, sending>>

-----------------------------------------------------------------------------
Next ==
    \/ NetworkNext /\ UNCHANGED assetVars
    \/ VanillaNext /\ sending = NoSend /\ UNCHANGED assetVars
    \/ IssueAssetIfa \/ IssuedElsewhere
    \/ \E o \in OthersInflations : OthersInflate(o)
    \/ \E r \in Receives : WaitConsignment(r) \/ Pay(r) \/ ReceiveSettles(r)
    \/ \E i \in Inflations : InflateBegin(i)
    \/ \E s \in Sends : SendBegin(s) \/ SendAttempt(s)
    \/ SendAborted
    \/ \E t \in Inflations \cup Sends : EndBroadcast(t) \/ OutgoingSettles(t)

(* send_begin goes on as long as it is asked to; nothing else is obliged   *)
(* to happen.                                                              *)
Spec     == Init /\ [][Next]_vars
FairSpec == Spec /\ \A s \in Sends : WF_vars(SendAttempt(s))

-----------------------------------------------------------------------------
(* Properties.                                                             *)

(* The change of a PSBT without a bitcoin change, on an existing UTXO that *)
(* another PSBT prepared meanwhile may spend.                              *)
OnExisting(k) ==
    /\ k.by \in Inflations \cup Sends /\ ChangeOf(k.by) \notin External
    /\ Maker(k.txo) # k.by

(* create_utxos, send_btc and drain_to never spend a UTXO that carries an  *)
(* allocation, though their PSBTs are prepared before the allocation is    *)
(* there (_get_unspendable_bdk_outpoints); inflations and sends move what  *)
(* they spend, except for the change that another of them put on an        *)
(* existing UTXO (_get_change_seal).                                       *)
PublicMovesAllocations ==
    \A t \in Txs : Public(t) =>
        \A k \in allocs : k.txo \in inputs[t] =>
            /\ t \in Inflations \cup Sends
            /\ k \in plan[t].takes \/ (OnExisting(k) /\ k.by # t)

(* The wallet never owns more than the circulating supply it shows.        *)
Owned(kind) == {k \in allocs : k.kind = kind /\ rows[k.txo] # "spent" /\ IsSettled(k)}
OwnedWithinKnown == Total(Owned("token")) <= IF known = NoAsset THEN 0 ELSE known

(* The wallet never owns more tokens and rights than were issued: what a   *)
(* transaction brings is saved only after what it takes was marked as      *)
(* spent (_broadcast_psbt, _save_transfers), whatever fails in between.    *)
OwnedWithinIssued ==
    Total(Owned("token")) + Total(Owned("right")) <= IssuedTokens + IssuedRights

(* The known circulating supply is within the maximum issued supply, which *)
(* the wallet shows next to it (offline.rs:128-130).                       *)
KnownWithinMax == known # NoAsset => known <= IssuedTokens + IssuedRights

(* send_begin succeeds with enough inputs that no list has rejected, and   *)
(* refuses for lack of assignments only if there are not enough of those.  *)
OfKind(S) == {k \in S : k.kind = sending.kind}
RetryFindsAllowedInputs ==
    [][\A s \in Sends : sending.send = s =>
          /\ tx'[s] = "prepared" /\ tx[s] = "none" =>
                /\ Total(OfKind(plan'[s].takes) \ sending.rejected) >= sending.need
                /\ Total(OfKind(plan'[s].brings)) = Total(OfKind(plan'[s].takes)) - sending.need
          /\ status'[s] = "Refused" /\ status[s] = "none" =>
                Total(Allowed(Hosts(sending.kind))) < sending.need]_vars

(* The retries come to an end, whatever the lists say.                     *)
SendBeginEnds == (sending # NoSend) ~> (sending = NoSend)
=============================================================================
