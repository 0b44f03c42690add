----------------------------- MODULE VssBackup -----------------------------
(***************************************************************************)
(* Backups of one wallet, held by several devices, to a VSS server and to  *)
(* files, and what backup_info says of them.  An upload takes the payload, *)
(* stamps the wallet as backed up, reads the versions of four objects in   *)
(* four requests and puts all four in a fifth, conditional on the          *)
(* versions; a restore gets three of them in three requests.  Operations,  *)
(* other devices and reloads of the page come in between, and requests or  *)
(* their answers get lost.                                                 *)
(*                                                                         *)
(* The state of a wallet is the set of operations it contains.  How and    *)
(* when it reaches IndexedDB is the subject of IdbPersistence; here a save *)
(* may happen between any two steps.                                       *)
(***************************************************************************)
EXTENDS Integers, Sequences, FiniteSets

CONSTANTS Devices,     \* wallets made from the same mnemonic, one store
          Ops,         \* operations that change a wallet
          Counted,     \* those that call update_backup_info(false)
          Exclusive,   \* those that borrow the wallet mutably (&mut self)
          Instants,    \* milliseconds at which wallets look at the clock
          MaxUploads,  \* bound on the uploads started
          Reloading,   \* devices whose page is reloaded, restoring the wallet
          Filing,      \* devices that also keep backup files
          Features     \* what else happens, a subset of AllFeatures

(* "loss"    a request or its answer is lost                               *)
(* "overlap" vss_backup is called while another one of the device runs     *)
(* "flush"   flush is called while an upload of the device runs            *)
AllFeatures == {"loss", "overlap", "flush"}

ASSUME ConstantsAssumption ==
    /\ Counted \subseteq Ops /\ Exclusive \subseteq Ops
    /\ Instants \subseteq Nat \ {0} /\ MaxUploads \in Nat
    /\ Reloading \subseteq Devices /\ Filing \subseteq Devices
    /\ Features \subseteq AllFeatures

VARIABLES
    wallet,     \* the wallet object of each device
    image,      \* what IndexedDB holds of it
    clock,      \* Date.now(), never twice the same here
    store,      \* the objects of the VSS store
    uploads,    \* calls of vss_backup, numbered in the order they start
    restoring,  \* vss_restore_backup: how far a device has come
    files       \* wallets contained in backup files

vars == <<wallet, image, clock, store, uploads, restoring, files>>

Never   == 0
Wallets == [content : SUBSET Ops, backedAt : Instants \cup {Never},
            operatedAt : Instants \cup {Never}]
NewWallet == [content |-> {}, backedAt |-> Never, operatedAt |-> Never]

(* The objects of a backup, in the order an upload reads their versions.   *)
Keys    == <<"data", "manifest", "fingerprint", "metadata">>
Objects == {"data", "manifest", "fingerprint", "metadata"}

Uploads == 1 .. MaxUploads
Nothing == 0
(* "reading"  the upload is in progress                                    *)
(* "adrift"   the caller has given up, the put request may still arrive    *)
Steps  == {"reading", "adrift", "landed", "failed"}
Calls  == [by : Devices, wallet : Wallets, seen : Seq(Nat), step : Steps]
NoCall == [by |-> "nobody", wallet |-> NewWallet, seen |-> <<>>, step |-> "unused"]

NotRestoring == [step |-> "idle", data |-> Nothing]
ManifestRead == [step |-> "data", data |-> Nothing]
DataRead     == [step : {"metadata"}, data : Uploads]

TypeOK ==
    /\ wallet \in [Devices -> Wallets] /\ image \in [Devices -> Wallets]
    /\ clock \in Instants \cup {Never}
    /\ store \in [Objects -> [version : Nat, upload : Uploads \cup {Nothing}]]
    /\ uploads \in [Uploads -> Calls \cup {NoCall}]
    /\ restoring \in [Devices -> {NotRestoring, ManifestRead} \cup DataRead]
    /\ files \subseteq Wallets

Init ==
    /\ wallet = [d \in Devices |-> NewWallet] /\ image = wallet
    /\ clock = Never
    /\ store = [k \in Objects |-> [version |-> 0, upload |-> Nothing]]
    /\ uploads = [n \in Uploads |-> NoCall]
    /\ restoring = [d \in Devices |-> NotRestoring]
    /\ files = {}

-----------------------------------------------------------------------------
(* Timestamps.                                                             *)

(* update_backup_info formats the time as RFC 3339 without the trailing    *)
(* zeros of the fraction, and backup_info compares the strings: where one  *)
(* fraction ends the other has a digit, and the "Z" that ends it is        *)
(* greater than any digit and than the point.  Digit i of the fraction     *)
(* counts as 10 when nothing but zeros follows.                            *)
Digit(ms, unit) == IF (ms % 1000) % (unit * 10) = 0 THEN 10 ELSE (ms \div unit) % 10
Rank(ms) == (ms \div 1000) * 1331
            + Digit(ms, 100) * 121 + Digit(ms, 10) * 11 + Digit(ms, 1)

Required(w) == w.backedAt = Never \/ Rank(w.operatedAt) > Rank(w.backedAt)

(* Backed up, and no operation has stamped the wallet at a later time.     *)
Stamped(w) == w.backedAt # Never /\ w.operatedAt <= w.backedAt

(* The next instant at which anything looks at the clock.                  *)
Tick(now) == /\ now \in Instants /\ now > clock
             /\ \A later \in Instants : later > clock => now <= later
             /\ clock' = now

(* update_backup_info(false) and update_backup_info(true).                 *)
Operated(w, now) == [w EXCEPT !.operatedAt = now]
BackedUp(w, now) == [w EXCEPT !.backedAt = now,
                              !.operatedAt = IF w.operatedAt = Never THEN now ELSE @]

-----------------------------------------------------------------------------
(* One device.                                                             *)

Running(n)    == uploads[n].step = "reading"
InProgress(d) == {n \in Uploads : uploads[n].by = d /\ Running(n)}
Restoring(d)  == restoring[d] # NotRestoring
(* No call of the device is pending that an exclusive one would wait for.  *)
Free(d)       == InProgress(d) = {} /\ ~Restoring(d)

Done(w, op) == [w EXCEPT !.content = @ \cup {op}]

Operate(d, op) ==
    /\ op \in Ops \ wallet[d].content
    /\ ~Restoring(d) /\ (op \in Exclusive => Free(d))
    /\ \/ /\ op \in Counted
          /\ \E now \in Instants :
                Tick(now) /\ wallet' = [wallet EXCEPT ![d] = Operated(Done(@, op), now)]
       \/ /\ op \notin Counted
          /\ wallet' = [wallet EXCEPT ![d] = Done(@, op)] /\ UNCHANGED clock
    /\ UNCHANGED <<image, store, uploads, restoring, files>>

(* A save takes the wallet as it is, stamps included; while an upload runs *)
(* it is an operation that triggers it, which stamps the wallet, unless    *)
(* the application flushes.                                                *)
Save(d) ==
    /\ d \in Reloading
    /\ InProgress(d) # {} => ~Stamped(wallet[d]) \/ "flush" \in Features
    /\ image' = [image EXCEPT ![d] = wallet[d]]
    /\ UNCHANGED <<wallet, clock, store, uploads, restoring, files>>

(* The four versions have been read.                                       *)
AllRead(n) == Len(uploads[n].seen) = Len(Keys)

(* Nothing of a call that has failed matters any more.                     *)
Failed(n) == [uploads[n] EXCEPT !.wallet = NewWallet, !.seen = <<>>, !.step = "failed"]

(* The calls of the page end; a put that has been sent may still arrive.   *)
Reload(d) ==
    /\ d \in Reloading
    /\ wallet' = [wallet EXCEPT ![d] = image[d]]
    /\ uploads' = [n \in Uploads |->
                    IF n \notin InProgress(d) THEN uploads[n]
                    ELSE IF AllRead(n) THEN [uploads[n] EXCEPT !.step = "adrift"]
                    ELSE Failed(n)]
    /\ restoring' = [restoring EXCEPT ![d] = NotRestoring]
    /\ UNCHANGED <<image, clock, store, files>>

(* backup and restore_backup, with a file.                                 *)
Backup(d) ==
    /\ d \in Filing
    /\ ~Restoring(d)
    /\ files' = files \cup {wallet[d]}
    /\ \E now \in Instants :
        Tick(now) /\ wallet' = [wallet EXCEPT ![d] = BackedUp(@, now)]
    /\ UNCHANGED <<image, store, uploads, restoring>>

RestoreBackup(d) ==
    /\ d \in Filing /\ Free(d)
    /\ \E file \in files : wallet' = [wallet EXCEPT ![d] = file]
    /\ UNCHANGED <<image, clock, store, uploads, restoring, files>>

-----------------------------------------------------------------------------
(* Uploads.                                                                *)

Unused(n) == uploads[n].step = "unused"

(* vss_backup up to its first await; also ensure_initial_backup, which     *)
(* does the same where a backup is required.                               *)
VssBackup(d) ==
    /\ ~Restoring(d)
    /\ InProgress(d) = {} \/ "overlap" \in Features
    /\ \E n \in Uploads :
        /\ Unused(n) /\ \A m \in Uploads : Unused(m) => n <= m
        /\ uploads' = [uploads EXCEPT ![n] = [by |-> d, wallet |-> wallet[d],
                                             seen |-> <<>>, step |-> "reading"]]
    /\ \E now \in Instants :
        Tick(now) /\ wallet' = [wallet EXCEPT ![d] = BackedUp(@, now)]
    /\ UNCHANGED <<image, store, restoring, files>>

VersionOrUnconditional(k) == IF store[k].upload = Nothing THEN -1 ELSE store[k].version
(* get_current_version: 0 for an object that does not exist.               *)
CurrentVersion(k) == store[k].version

GetCurrentVersion(n) ==
    /\ Running(n) /\ Len(uploads[n].seen) < Len(Keys)
    /\ uploads' = [uploads EXCEPT ![n].seen =
                    Append(@, CurrentVersion(Keys[Len(@) + 1]))]
    /\ UNCHANGED <<wallet, image, clock, store, restoring, files>>

Unconditional(n) == AllRead(n)
OneVersionForAll(n) == AllRead(n) /\ store["metadata"].version = uploads[n].seen[4]
(* The put carries the version of every object, and the server applies it  *)
(* if all of them are current.                                             *)
Current(n) == AllRead(n) /\ \A i \in 1 .. 4 : store[Keys[i]].version = uploads[n].seen[i]

(* One request puts all four objects.                                      *)
Lands(n) ==
    /\ Current(n)
    /\ store' = [k \in Objects |-> [version |-> store[k].version + 1, upload |-> n]]
    /\ uploads' = [uploads EXCEPT ![n].step = "landed", ![n].seen = <<>>]

UploadSucceeds(n) ==
    /\ Running(n)
    /\ Lands(n)
    /\ UNCHANGED <<wallet, image, clock, restoring, files>>

KeepStamp(n) == UNCHANGED <<wallet, clock>>
(* The error path of vss_backup makes a backup required again.             *)
TakeStampBack(n) ==
    \E now \in Instants :
        Tick(now) /\ wallet' = [wallet EXCEPT ![uploads[n].by] = Operated(@, now)]

Conflict(n) == AllRead(n) /\ ~Current(n)
(* A conflict, or a request that does not get through.                     *)
UploadFails(n) ==
    /\ Running(n)
    /\ Conflict(n) \/ "loss" \in Features
    /\ uploads' = [uploads EXCEPT ![n] = Failed(n)]
    /\ TakeStampBack(n)
    /\ UNCHANGED <<image, store, restoring, files>>

(* The answer to the put is lost, or the wait for it ends before the       *)
(* request arrives.                                                        *)
UploadUnheard(n) ==
    /\ "loss" \in Features
    /\ Running(n) /\ AllRead(n)
    /\ uploads' = [uploads EXCEPT ![n].step = "adrift"]
    /\ TakeStampBack(n)
    /\ UNCHANGED <<image, store, restoring, files>>

LandsLate(n) ==
    /\ uploads[n].step = "adrift"
    /\ Lands(n)
    /\ UNCHANGED <<wallet, image, clock, restoring, files>>

-----------------------------------------------------------------------------
(* vss_restore_backup: manifest, data and metadata, one request each.      *)

GetManifest(d) ==
    /\ Free(d)
    /\ store["manifest"].upload # Nothing
    /\ restoring' = [restoring EXCEPT ![d] = ManifestRead]
    /\ UNCHANGED <<wallet, image, clock, store, uploads, files>>

GetData(d) ==
    /\ restoring[d] = ManifestRead
    /\ restoring' = [restoring EXCEPT ![d] =
                        IF store["data"].upload = Nothing THEN NotRestoring
                        ELSE [step |-> "metadata", data |-> store["data"].upload]]
    /\ UNCHANGED <<wallet, image, clock, store, uploads, files>>

(* The data decrypts with the nonce and salt of its own upload only.       *)
Decrypts(d) == store["metadata"].upload = restoring[d].data

GetMetadata(d) ==
    /\ restoring[d] \in DataRead
    /\ restoring' = [restoring EXCEPT ![d] = NotRestoring]
    /\ wallet' = IF Decrypts(d)
                 THEN [wallet EXCEPT ![d] = uploads[restoring[d].data].wallet]
                 ELSE wallet
    /\ UNCHANGED <<image, clock, store, uploads, files>>

RestoreLost(d) ==
    /\ "loss" \in Features
    /\ Restoring(d)
    /\ restoring' = [restoring EXCEPT ![d] = NotRestoring]
    /\ UNCHANGED <<wallet, image, clock, store, uploads, files>>

-----------------------------------------------------------------------------
Device(d) ==
    \/ \E op \in Ops : Operate(d, op)
    \/ Save(d) \/ Reload(d) \/ Backup(d) \/ RestoreBackup(d) \/ VssBackup(d)
    \/ GetManifest(d) \/ GetData(d) \/ GetMetadata(d) \/ RestoreLost(d)

Upload(n) ==
    \/ GetCurrentVersion(n) \/ UploadSucceeds(n) \/ UploadFails(n)
    \/ UploadUnheard(n) \/ LandsLate(n)

Next == (\E d \in Devices : Device(d)) \/ (\E n \in Uploads : Upload(n))

Spec == Init /\ [][Next]_vars

-----------------------------------------------------------------------------
(* Properties.                                                             *)

Landed(n) == uploads[n].step = "landed"

(* In a backup file, or in an upload that has reached the store.           *)
Safe(content) ==
    \/ \E file \in files : content \subseteq file.content
    \/ \E n \in Uploads : Landed(n) /\ content \subseteq uploads[n].wallet.content

(* When no operation is stamped later than the last backup, and no upload  *)
(* is in progress, all that the counted operations of a wallet did is in a *)
(* backup file or has been in the store, whatever failed, conflicted, was  *)
(* forgotten or restored before (vss_backup stamps the wallet before the   *)
(* upload and stamps it as operated when that fails).                      *)
StampedIsBackedUp ==
    \A d \in Devices :
        InProgress(d) = {} /\ Stamped(wallet[d]) => Safe(wallet[d].content \cap Counted)

(* When backup_info says that no backup is required, and no upload is in   *)
(* progress, all that the wallet contains is backed up: "Returns true if   *)
(* the wallet has been modified since the last backup."                    *)
NotRequiredIsBackedUp ==
    \A d \in Devices :
        InProgress(d) = {} /\ ~Required(wallet[d]) => Safe(wallet[d].content)

(* An upload never replaces a later one of the same device, even when its  *)
(* put arrives after its caller has given up (the versions it carries).    *)
StoreNeverGoesBack ==
    [][\A n \in Uploads :
        Landed(n)' /\ ~Landed(n) =>
            \A m \in Uploads : Landed(m) /\ uploads[m].by = uploads[n].by => m < n]_vars

(* Four version reads and a put behave as one compare-and-swap.            *)
Seen == {n \in Uploads : uploads[n].seen # <<>>}
Abstract == INSTANCE BackupStore WITH
    held <- store["data"].upload, version <- store["data"].version,
    base <- [n \in Seen |-> uploads[n].seen[1]]
ImplementsBackupStore == Abstract!Spec

-----------------------------------------------------------------------------
(* What the properties rest on.                                            *)

(* Calls start in the order of their numbers, one at a time per device,    *)
(* and what an upload has seen is not newer than the store.                *)
CallsInv ==
    /\ \A m, n \in Uploads : m < n /\ Unused(m) => Unused(n)
    /\ \A m, n \in Uploads : m < n /\ Running(m) /\ ~Unused(n) => uploads[m].by # uploads[n].by
    /\ \A n \in Uploads : uploads[n].step = "adrift" => AllRead(n)
    /\ \A n \in Uploads : uploads[n].seen # <<>> =>
            uploads[n].seen[1] <= store["data"].version

(* A put of an earlier call of the device that may still arrive is stale.  *)
LateIsStale ==
    \A m, n \in Uploads :
        m < n /\ Landed(n) /\ uploads[m].by = uploads[n].by /\ uploads[m].step = "adrift" =>
            uploads[m].seen[1] < store["data"].version

(* No stamp is ahead of the clock.                                         *)
Behind(w, t) == w.backedAt <= t /\ w.operatedAt <= t
StampInv ==
    /\ \A d \in Devices : Behind(wallet[d], clock) /\ Behind(image[d], clock)
    /\ \A n \in Uploads : Behind(uploads[n].wallet, clock)
    /\ \A file \in files : Behind(file, clock)

(* What is in the store, or has been fetched from it, has landed.          *)
HeldInv ==
    /\ \A k \in Objects : store[k].upload # Nothing => Landed(store[k].upload)
    /\ \A d \in Devices : restoring[d] \in DataRead => Landed(restoring[d].data)

(* What counted operations did to a wallet, and to what IndexedDB holds of *)
(* it, is backed up or stamped later; while an upload runs, the wallet may *)
(* rely on it.                                                             *)
BackedUpInv ==
    \A d \in Devices :
        /\ Stamped(image[d]) => Safe(image[d].content \cap Counted)
        /\ Stamped(wallet[d]) =>
            \/ Safe(wallet[d].content \cap Counted)
            \/ \E n \in InProgress(d) :
                   wallet[d].content \cap Counted \subseteq uploads[n].wallet.content
=============================================================================
