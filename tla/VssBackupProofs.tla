-------------------------- MODULE VssBackupProofs --------------------------
(* Theorems about VssBackup: what backup_info and the versions of the VSS  *)
(* objects guarantee, for any number of devices, operations and uploads.   *)
EXTENDS VssBackup, TLAPS

-----------------------------------------------------------------------------
(* Wallets and calls keep their type.                                      *)

LEMMA StampsAreWallets ==
  ASSUME NEW w \in Wallets, NEW now \in Instants
  PROVE  Operated(w, now) \in Wallets /\ BackedUp(w, now) \in Wallets
  BY DEF Operated, BackedUp, Wallets, Never

LEMMA OperationsAreWallets ==
  ASSUME NEW w \in Wallets, NEW op \in Ops
  PROVE  Done(w, op) \in Wallets
  BY DEF Done, Wallets

LEMMA NewWalletIsWallet == NewWallet \in Wallets
  BY DEF NewWallet, Wallets, Never

LEMMA StepIsCall ==
  ASSUME NEW call \in Calls, NEW s \in Steps
  PROVE  [call EXCEPT !.step = s] \in Calls
  BY DEF Calls

LEMMA VersionsAreCall ==
  ASSUME NEW call \in Calls, NEW versions \in Seq(Nat)
  PROVE  [call EXCEPT !.seen = versions] \in Calls
<1> DEFINE Versions == Seq(Nat)
<1>1. Calls = [by : Devices, wallet : Wallets, seen : Versions, step : Steps]
  BY DEF Calls
<1>2. versions \in Versions
  OBVIOUS
<1> HIDE DEF Versions
<1> QED
  BY <1>1, <1>2

LEMMA EndIsCall ==
  ASSUME NEW call \in Calls
  PROVE  /\ [call EXCEPT !.wallet = NewWallet, !.seen = <<>>, !.step = "failed"] \in Calls
         /\ [call EXCEPT !.step = "landed", !.seen = <<>>] \in Calls
<1> DEFINE Versions == Seq(Nat)
<1>1. Calls = [by : Devices, wallet : Wallets, seen : Versions, step : Steps]
  BY DEF Calls
<1>2. <<>> \in Versions /\ "failed" \in Steps /\ "landed" \in Steps
  BY DEF Steps
<1> HIDE DEF Versions
<1> QED
  BY <1>1, <1>2, NewWalletIsWallet

(* Stamps are taken at instants, uploads are calls of devices, the objects *)
(* of the store those of uploads (update_backup_info, upload_backup).      *)
THEOREM TypeCorrect == Spec => []TypeOK
<1>1. Init => TypeOK
  BY NewWalletIsWallet DEF Init, TypeOK
<1>2. TypeOK /\ [Next]_vars => TypeOK'
  <2> SUFFICES ASSUME TypeOK, [Next]_vars PROVE TypeOK'
    OBVIOUS
  <2> USE DEF TypeOK
  <2>1. ASSUME NEW d \in Devices, NEW op \in Ops, Operate(d, op) PROVE TypeOK'
    <3>1. Done(wallet[d], op) \in Wallets
      BY OperationsAreWallets
    <3>2. CASE op \in Counted
      BY <2>1, <3>1, <3>2, StampsAreWallets DEF Operate, Tick
    <3>3. CASE op \notin Counted
      BY <2>1, <3>1, <3>3 DEF Operate
    <3> QED
      BY <3>2, <3>3
  <2>2. ASSUME NEW d \in Devices, Save(d) PROVE TypeOK'
    BY <2>2 DEF Save
  <2>3. ASSUME NEW d \in Devices, Reload(d) PROVE TypeOK'
    <3>1. \A n \in InProgress(d) : uploads[n] \in Calls
      BY DEF InProgress, Running, NoCall
    <3>2. \A n \in InProgress(d) : [uploads[n] EXCEPT !.step = "adrift"] \in Calls
      BY <3>1, StepIsCall DEF Steps
    <3>3. \A n \in InProgress(d) : Failed(n) \in Calls
      BY <3>1, EndIsCall DEF Failed
    <3>4. uploads' \in [Uploads -> Calls \cup {NoCall}]
      BY <2>3, <3>2, <3>3 DEF Reload
    <3> QED
      BY <2>3, <3>4 DEF Reload
  <2>4. ASSUME NEW d \in Devices, Backup(d) PROVE TypeOK'
    BY <2>4, StampsAreWallets DEF Backup, Tick
  <2>5. ASSUME NEW d \in Devices, RestoreBackup(d) PROVE TypeOK'
    BY <2>5 DEF RestoreBackup
  <2>6. ASSUME NEW d \in Devices, VssBackup(d) PROVE TypeOK'
    <3>1. uploads' \in [Uploads -> Calls \cup {NoCall}]
      BY <2>6 DEF VssBackup, Calls, Steps
    <3> QED
      BY <2>6, <3>1, StampsAreWallets DEF VssBackup, Tick
  <2>7. ASSUME NEW d \in Devices, GetManifest(d) PROVE TypeOK'
    BY <2>7 DEF GetManifest
  <2>8. ASSUME NEW d \in Devices, GetData(d) PROVE TypeOK'
    BY <2>8 DEF GetData, Objects, DataRead, Nothing
  <2>9. ASSUME NEW d \in Devices, GetMetadata(d) PROVE TypeOK'
    <3>1. uploads[restoring[d].data].wallet \in Wallets
      BY <2>9, NewWalletIsWallet DEF GetMetadata, DataRead, Calls, NoCall
    <3> QED
      BY <2>9, <3>1 DEF GetMetadata
  <2>10. ASSUME NEW d \in Devices, RestoreLost(d) PROVE TypeOK'
    BY <2>10 DEF RestoreLost
  <2>11. ASSUME NEW n \in Uploads, Running(n) \/ uploads[n].step = "adrift"
         PROVE  uploads[n] \in Calls /\ uploads[n].by \in Devices
    <3>1. uploads[n] # NoCall
      BY <2>11 DEF Running, NoCall
    <3> QED
      BY <3>1 DEF Calls
  <2>12. ASSUME NEW n \in Uploads, GetCurrentVersion(n) PROVE TypeOK'
    <3> DEFINE next == Len(uploads[n].seen) + 1
               version == CurrentVersion(Keys[next])
    <3>1. uploads[n].seen \in Seq(Nat) /\ uploads[n] \in Calls
      BY <2>11, <2>12 DEF GetCurrentVersion, Calls
    <3>2. version \in Nat
      <4>1. next \in 1 .. 4
        BY <2>12, <3>1 DEF GetCurrentVersion, Keys
      <4>2. Keys[next] \in Objects
        BY <4>1 DEF Keys, Objects
      <4> QED
        BY <4>2 DEF CurrentVersion
    <3>3. Append(uploads[n].seen, version) \in Seq(Nat)
      BY <3>1, <3>2
    <3>4. [uploads[n] EXCEPT !.seen = Append(uploads[n].seen, version)] \in Calls
      BY <3>1, <3>3, VersionsAreCall
    <3> QED
      BY <2>12, <3>4 DEF GetCurrentVersion
  <2>13. ASSUME NEW n \in Uploads, Running(n) \/ uploads[n].step = "adrift", Lands(n),
                UNCHANGED <<wallet, image, clock, restoring, files>>
         PROVE  TypeOK'
    <3>1. [uploads[n] EXCEPT !.step = "landed", !.seen = <<>>] \in Calls
      BY <2>11, <2>13, EndIsCall
    <3> QED
      BY <2>13, <3>1 DEF Lands, Objects
  <2>14. ASSUME NEW n \in Uploads, Running(n), TakeStampBack(n)
         PROVE  wallet' \in [Devices -> Wallets] /\ clock' \in Instants
    BY <2>11, <2>14, StampsAreWallets DEF TakeStampBack, Tick
  <2>15. ASSUME NEW n \in Uploads, UploadFails(n) PROVE TypeOK'
    BY <2>11, <2>14, <2>15, EndIsCall DEF UploadFails, Failed
  <2>16. ASSUME NEW n \in Uploads, UploadUnheard(n) PROVE TypeOK'
    BY <2>11, <2>14, <2>16, StepIsCall DEF UploadUnheard, Steps
  <2>17. CASE UNCHANGED vars
    BY <2>17 DEF vars
  <2> QED
    BY <2>1, <2>2, <2>3, <2>4, <2>5, <2>6, <2>7, <2>8, <2>9, <2>10, <2>11, <2>12, <2>13,
       <2>15, <2>16, <2>17 DEF Next, Device, Upload, UploadSucceeds, LandsLate
<1> QED
  BY <1>1, <1>2, PTL DEF Spec

-----------------------------------------------------------------------------
(* Each step changes the uploads and the store in one of a few ways.       *)

LEMMA UploadSteps ==
  ASSUME [Next]_vars
  PROVE  \/ UNCHANGED <<uploads, store>>
         \/ \E d \in Devices : Reload(d) \/ VssBackup(d)
         \/ \E n \in Uploads :
                \/ GetCurrentVersion(n) \/ UploadFails(n) \/ UploadUnheard(n)
                \/ (Running(n) \/ uploads[n].step = "adrift") /\ Lands(n)
<1>1. CASE UNCHANGED vars
  BY <1>1 DEF vars
<1>2. ASSUME NEW d \in Devices, Device(d)
      PROVE  UNCHANGED <<uploads, store>> \/ Reload(d) \/ VssBackup(d)
  <2>1. ASSUME NEW op \in Ops, Operate(d, op) PROVE UNCHANGED <<uploads, store>>
    BY <2>1 DEF Operate
  <2> QED
    BY <1>2, <2>1 DEF Device, Save, Backup, RestoreBackup, GetManifest, GetData, GetMetadata,
                      RestoreLost
<1>3. ASSUME NEW n \in Uploads, Upload(n)
      PROVE  \/ GetCurrentVersion(n) \/ UploadFails(n) \/ UploadUnheard(n)
             \/ (Running(n) \/ uploads[n].step = "adrift") /\ Lands(n)
  BY <1>3 DEF Upload, UploadSucceeds, LandsLate
<1>4. CASE \E d \in Devices : Device(d)
  BY <1>2, <1>4
<1>5. CASE \E n \in Uploads : Upload(n)
  BY <1>3, <1>5
<1> QED
  BY <1>1, <1>4, <1>5 DEF Next

LEMMA UnusedIsNoCall ==
  ASSUME TypeOK, NEW n \in Uploads, Unused(n)
  PROVE  uploads[n] = NoCall
  BY DEF TypeOK, Unused, Calls, Steps

-----------------------------------------------------------------------------
(* Four reads and a put are one compare-and-swap: only the version of the  *)
(* data counts, which an upload reads first, and a put that lands finds it *)
(* unchanged.                                                              *)
THEOREM BackupIsCompareAndSwap == Spec => ImplementsBackupStore
<1> USE DEF Seen, Abstract!Without
<1>1. Init => Abstract!Init
  BY DEF Init, Abstract!Init, Abstract!Nothing, Nothing, NoCall, Objects
<1>2. TypeOK /\ [Next]_vars => [Abstract!Next]_Abstract!vars
  <2> SUFFICES ASSUME TypeOK, [Next]_vars PROVE [Abstract!Next]_Abstract!vars
    OBVIOUS
  <2> DEFINE base == [n \in Seen |-> uploads[n].seen[1]]
  <2>1. CASE UNCHANGED <<uploads, store>>
    BY <2>1 DEF Abstract!vars
  <2>2. ASSUME NEW d \in Devices, Reload(d) PROVE [Abstract!Next]_Abstract!vars
    <3> DEFINE ended == {n \in InProgress(d) : ~AllRead(n)}
    <3>1. \A n \in Uploads : n \notin ended => uploads'[n].seen = uploads[n].seen
      BY <2>2 DEF Reload, TypeOK
    <3>2. \A n \in ended : uploads'[n].seen = <<>>
      <4>1. \A n \in ended : uploads[n] \in Calls
        BY DEF TypeOK, InProgress, Running, NoCall
      <4>2. \A n \in ended : uploads'[n] = Failed(n)
        BY <2>2 DEF Reload, InProgress
      <4> QED
        BY <4>1, <4>2 DEF Failed, Calls
    <3>3. Seen' = Seen \ ended
      BY <3>1, <3>2 DEF InProgress
    <3>4. base' = [n \in Seen \ ended |-> base[n]]
      BY <3>1, <3>3
    <3>5. ended \in SUBSET Uploads
      BY DEF InProgress
    <3> HIDE DEF ended
    <3> QED
      BY <2>2, <3>4, <3>5 DEF Abstract!Next, Abstract!GiveUp, Reload
  <2>3. ASSUME NEW d \in Devices, VssBackup(d) PROVE [Abstract!Next]_Abstract!vars
    <3>1. Seen' = Seen /\ \A n \in Seen : uploads'[n].seen = uploads[n].seen
      BY <2>3, UnusedIsNoCall DEF VssBackup, TypeOK, NoCall
    <3> QED
      BY <2>3, <3>1 DEF Abstract!vars, VssBackup
  <2>4. ASSUME NEW n \in Uploads, GetCurrentVersion(n) PROVE [Abstract!Next]_Abstract!vars
    <3>1. uploads[n].seen \in Seq(Nat)
      BY <2>4 DEF GetCurrentVersion, Running, TypeOK, Calls, NoCall
    <3>2. \A m \in Uploads \ {n} : uploads'[m].seen = uploads[m].seen
      BY <2>4 DEF GetCurrentVersion, TypeOK
    <3>3. uploads'[n].seen = Append(uploads[n].seen, CurrentVersion(Keys[Len(uploads[n].seen) + 1]))
      BY <2>4 DEF GetCurrentVersion, Running, TypeOK, Calls, NoCall
    <3>4. CASE uploads[n].seen = <<>>
      <4>1. uploads'[n].seen = <<store["data"].version>>
        BY <3>3, <3>4 DEF CurrentVersion, Keys
      <4>2. n \notin Seen /\ Seen' = Seen \cup {n}
        BY <3>2, <3>4, <4>1
      <4>3. uploads'[n].seen[1] = store["data"].version
        BY <4>1
      <4>4. base' = [m \in Seen \cup {n} |-> IF m = n THEN store["data"].version ELSE base[m]]
        BY <3>2, <4>2, <4>3
      <4>5. store' = store
        BY <2>4 DEF GetCurrentVersion
      <4>6. DOMAIN base = Seen
        OBVIOUS
      <4> HIDE DEF Seen
      <4>7. Abstract!Look(n)
        BY <4>2, <4>4, <4>5, <4>6 DEF Abstract!Look
      <4> QED
        BY <4>7 DEF Abstract!Next
    <3>5. CASE uploads[n].seen # <<>>
      <4>1. uploads'[n].seen # <<>> /\ uploads'[n].seen[1] = uploads[n].seen[1]
        BY <3>1, <3>3, <3>5
      <4> QED
        BY <2>4, <3>2, <3>5, <4>1 DEF Abstract!vars, GetCurrentVersion
    <3> QED
      BY <3>4, <3>5
  <2>5. ASSUME NEW n \in Uploads, UploadFails(n) PROVE [Abstract!Next]_Abstract!vars
    <3>1. uploads'[n].seen = <<>> /\ \A m \in Uploads \ {n} : uploads'[m].seen = uploads[m].seen
      BY <2>5 DEF UploadFails, Failed, Running, TypeOK, Calls, NoCall
    <3>2. base' = [m \in Seen \ {n} |-> base[m]]
      BY <3>1
    <3> QED
      BY <2>5, <3>2, {n} \in SUBSET Uploads DEF Abstract!Next, Abstract!GiveUp, UploadFails
  <2>6. ASSUME NEW n \in Uploads, UploadUnheard(n) PROVE [Abstract!Next]_Abstract!vars
    <3>1. \A m \in Uploads : uploads'[m].seen = uploads[m].seen
      BY <2>6 DEF UploadUnheard, Running, TypeOK, Calls, NoCall
    <3> QED
      BY <2>6, <3>1 DEF Abstract!vars, UploadUnheard
  <2>7. ASSUME NEW n \in Uploads, Running(n) \/ uploads[n].step = "adrift", Lands(n)
        PROVE  [Abstract!Next]_Abstract!vars
    <3>1. uploads'[n].seen = <<>> /\ \A m \in Uploads \ {n} : uploads'[m].seen = uploads[m].seen
      BY <2>7 DEF Lands, Running, TypeOK, Calls, NoCall
    <3>2. n \in Seen /\ uploads[n].seen[1] = store["data"].version
      BY <2>7 DEF Lands, Current, AllRead, Keys
    <3>3. store'["data"].upload = n /\ store'["data"].version = store["data"].version + 1
      BY <2>7 DEF Lands, Objects
    <3>4. base' = [m \in Seen \ {n} |-> base[m]]
      BY <3>1
    <3>5. Abstract!Replace(n)
      BY <3>2, <3>3, <3>4 DEF Abstract!Replace
    <3> QED
      BY <3>5 DEF Abstract!Next
  <2> QED
    BY <2>1, <2>2, <2>3, <2>4, <2>5, <2>6, <2>7, UploadSteps
<1> QED
  BY <1>1, <1>2, TypeCorrect, PTL DEF Spec, ImplementsBackupStore, Abstract!Spec

-----------------------------------------------------------------------------
(* The order of calls.                                                     *)

OneAtATime == "overlap" \notin Features

LEMMA CallsInit == Init => CallsInv /\ LateIsStale
  BY DEF Init, CallsInv, LateIsStale, NoCall, Unused, Running, Landed

(* How a step may change the steps and the owners of calls.                *)
LEMMA CallsPreserved ==
  ASSUME OneAtATime, TypeOK, CallsInv, [Next]_vars
  PROVE  CallsInv'
<1> USE DEF TypeOK
<1>1. CASE UNCHANGED <<uploads, store>>
  BY <1>1 DEF CallsInv, Unused, Running, AllRead
<1>2. ASSUME NEW d \in Devices, Reload(d) PROVE CallsInv'
  <2>1. \A n \in InProgress(d) : uploads[n] \in Calls
    BY DEF InProgress, Running, NoCall
  <2>2. \A n \in Uploads :
          \/ n \notin InProgress(d) /\ uploads'[n] = uploads[n]
          \/ /\ n \in InProgress(d) /\ AllRead(n)
             /\ uploads'[n] = [uploads[n] EXCEPT !.step = "adrift"]
          \/ n \in InProgress(d) /\ uploads'[n] = Failed(n)
    BY <1>2 DEF Reload
  <2>3. \A n \in Uploads :
          /\ uploads'[n].by = uploads[n].by
          /\ Unused(n)' <=> Unused(n)
          /\ Running(n)' => Running(n)
          /\ uploads'[n].seen \in {uploads[n].seen, <<>>}
          /\ uploads'[n].step = "adrift" =>
                /\ uploads'[n].seen = uploads[n].seen
                /\ uploads[n].step = "adrift" \/ AllRead(n)
    <3> SUFFICES ASSUME NEW n \in Uploads
                 PROVE  /\ uploads'[n].by = uploads[n].by
                        /\ Unused(n)' <=> Unused(n)
                        /\ Running(n)' => Running(n)
                        /\ uploads'[n].seen \in {uploads[n].seen, <<>>}
                        /\ uploads'[n].step = "adrift" =>
                              /\ uploads'[n].seen = uploads[n].seen
                              /\ uploads[n].step = "adrift" \/ AllRead(n)
      OBVIOUS
    <3>1. CASE n \notin InProgress(d)
      BY <2>2, <3>1 DEF Running, Unused
    <3>2. CASE n \in InProgress(d) /\ AllRead(n) /\ uploads'[n] = [uploads[n] EXCEPT !.step = "adrift"]
      BY <2>1, <3>2 DEF Calls, Running, Unused, InProgress
    <3>3. CASE n \in InProgress(d) /\ uploads'[n] = Failed(n)
      BY <2>1, <3>3 DEF Failed, Calls, Running, Unused, InProgress
    <3> QED
      BY <2>2, <3>1, <3>2, <3>3
  <2>4. store' = store
    BY <1>2 DEF Reload
  <2> QED
    BY <2>3, <2>4 DEF CallsInv, AllRead
<1>3. ASSUME NEW d \in Devices, VssBackup(d) PROVE CallsInv'
  <2>1. InProgress(d) = {} /\ store' = store
    BY <1>3 DEF VssBackup, OneAtATime
  <2>2. PICK n \in Uploads :
          /\ Unused(n) /\ \A m \in Uploads : Unused(m) => n <= m
          /\ uploads' = [uploads EXCEPT ![n] = [by |-> d, wallet |-> wallet[d],
                                               seen |-> <<>>, step |-> "reading"]]
    BY <1>3 DEF VssBackup
  <2>3. \A m \in Uploads : m > n => Unused(m)
    BY <2>2 DEF CallsInv
  <2> QED
    BY <2>1, <2>2, <2>3 DEF CallsInv, InProgress, Unused, Running, AllRead, Uploads
<1>4. ASSUME NEW n \in Uploads, GetCurrentVersion(n) PROVE CallsInv'
  <2>1. uploads[n].seen \in Seq(Nat) /\ uploads[n] \in Calls
    BY <1>4 DEF GetCurrentVersion, Running, Calls, NoCall
  <2>2. uploads'[n].by = uploads[n].by /\ uploads'[n].step = "reading"
    BY <1>4, <2>1 DEF GetCurrentVersion, Running, Calls
  <2>3. uploads'[n].seen = Append(uploads[n].seen, CurrentVersion(Keys[Len(uploads[n].seen) + 1]))
    BY <1>4, <2>1 DEF GetCurrentVersion, Calls
  <2>4. uploads'[n].seen[1] <= store["data"].version
    <3>1. CASE uploads[n].seen = <<>>
      BY <2>3, <3>1 DEF CurrentVersion, Keys, Objects
    <3>2. CASE uploads[n].seen # <<>>
      BY <2>1, <2>3, <3>2 DEF CallsInv
    <3> QED
      BY <3>1, <3>2
  <2>5. store' = store /\ Running(n) /\ \A m \in Uploads \ {n} : uploads'[m] = uploads[m]
    BY <1>4 DEF GetCurrentVersion
  <2> QED
    BY <2>2, <2>4, <2>5 DEF CallsInv, Unused, Running, AllRead
<1>5. ASSUME NEW n \in Uploads, UploadFails(n) PROVE CallsInv'
  <2>1. uploads'[n].by = uploads[n].by /\ uploads'[n].seen = <<>> /\ uploads'[n].step = "failed"
    BY <1>5 DEF UploadFails, Failed, Running, Calls, NoCall
  <2>2. store' = store /\ Running(n) /\ \A m \in Uploads \ {n} : uploads'[m] = uploads[m]
    BY <1>5 DEF UploadFails
  <2>3. \A m \in Uploads : /\ Unused(m)' <=> Unused(m)
                           /\ Running(m)' => Running(m)
                           /\ uploads'[m].by = uploads[m].by
    BY <2>1, <2>2 DEF Unused, Running
  <2>4. \A m \in Uploads : m # n => uploads'[m] = uploads[m]
    BY <2>2
  <2>5. \A m \in Uploads : uploads'[m].step = "adrift" => AllRead(m)'
    BY <2>1, <2>4 DEF CallsInv, AllRead
  <2>6. \A m \in Uploads : uploads'[m].seen # <<>> => uploads'[m].seen[1] <= store'["data"].version
    BY <2>1, <2>2, <2>4 DEF CallsInv
  <2> QED
    BY <2>3, <2>5, <2>6 DEF CallsInv
<1>6. ASSUME NEW n \in Uploads, UploadUnheard(n) PROVE CallsInv'
  <2>1. /\ uploads'[n].by = uploads[n].by /\ uploads'[n].seen = uploads[n].seen
        /\ uploads'[n].step = "adrift"
    BY <1>6 DEF UploadUnheard, Running, Calls, NoCall
  <2>2. /\ store' = store /\ Running(n) /\ AllRead(n)
        /\ \A m \in Uploads \ {n} : uploads'[m] = uploads[m]
    BY <1>6 DEF UploadUnheard
  <2> QED
    BY <2>1, <2>2 DEF CallsInv, Unused, Running, AllRead
<1>7. ASSUME NEW n \in Uploads, Running(n) \/ uploads[n].step = "adrift", Lands(n) PROVE CallsInv'
  <2>1. uploads'[n].by = uploads[n].by /\ uploads'[n].seen = <<>> /\ uploads'[n].step = "landed"
    BY <1>7 DEF Lands, Running, Calls, NoCall
  <2>2. \A m \in Uploads \ {n} : uploads'[m] = uploads[m]
    BY <1>7 DEF Lands
  <2>3. store["data"].version \in Nat /\ store'["data"].version = store["data"].version + 1
    BY <1>7 DEF Lands, Objects
  <2>4. \A m \in Uploads : uploads[m].seen # <<>> => uploads[m].seen[1] \in Nat
    BY DEF Calls, NoCall
  <2>5. \A m \in Uploads : uploads'[m].seen # <<>> => uploads'[m].seen[1] <= store'["data"].version
    BY <2>1, <2>2, <2>3, <2>4 DEF CallsInv
  <2> QED
    BY <1>7, <2>1, <2>2, <2>5 DEF CallsInv, Unused, Running, AllRead
<1> QED
  BY <1>1, <1>2, <1>3, <1>4, <1>5, <1>6, <1>7, UploadSteps

LEMMA LatePreserved ==
  ASSUME OneAtATime, TypeOK, CallsInv, LateIsStale, [Next]_vars
  PROVE  LateIsStale'
<1> USE DEF TypeOK
<1>1. CASE UNCHANGED <<uploads, store>>
  BY <1>1 DEF LateIsStale, Landed
<1>2. ASSUME NEW d \in Devices, Reload(d) PROVE LateIsStale'
  <2>1. \A n \in InProgress(d) : uploads[n] \in Calls
    BY DEF InProgress, Running, NoCall
  <2>2. \A n \in Uploads : n \notin InProgress(d) => uploads'[n] = uploads[n]
    BY <1>2 DEF Reload
  <2>3. \A n \in InProgress(d) : uploads'[n].step \in {"adrift", "failed"} /\ uploads'[n].by = uploads[n].by
    BY <1>2, <2>1 DEF Reload, Failed, Calls, InProgress
  <2>4. store' = store
    BY <1>2 DEF Reload
  <2> QED
    BY <2>2, <2>3, <2>4 DEF LateIsStale, CallsInv, Landed, Unused, InProgress
<1>3. ASSUME NEW d \in Devices, VssBackup(d) PROVE LateIsStale'
  BY <1>3 DEF VssBackup, LateIsStale, Landed
<1>4. ASSUME NEW n \in Uploads, GetCurrentVersion(n) PROVE LateIsStale'
  <2>1. uploads'[n].step = "reading"
    BY <1>4 DEF GetCurrentVersion, Running, Calls, NoCall
  <2> QED
    BY <1>4, <2>1 DEF GetCurrentVersion, LateIsStale, Landed
<1>5. ASSUME NEW n \in Uploads, UploadFails(n) PROVE LateIsStale'
  <2>1. uploads'[n].step = "failed"
    BY <1>5 DEF UploadFails, Failed, Running, Calls, NoCall
  <2> QED
    BY <1>5, <2>1 DEF UploadFails, LateIsStale, Landed
<1>6. ASSUME NEW n \in Uploads, UploadUnheard(n) PROVE LateIsStale'
  <2>1. uploads'[n].step = "adrift" /\ uploads'[n].by = uploads[n].by
    BY <1>6 DEF UploadUnheard, Running, Calls, NoCall
  <2> QED
    BY <1>6, <2>1 DEF UploadUnheard, LateIsStale, CallsInv, Landed, Unused
<1>7. ASSUME NEW n \in Uploads, Running(n) \/ uploads[n].step = "adrift", Lands(n)
      PROVE  LateIsStale'
  <2>1. uploads'[n].by = uploads[n].by /\ uploads'[n].step = "landed"
    BY <1>7 DEF Lands, Running, Calls, NoCall
  <2>2. \A m \in Uploads \ {n} : uploads'[m] = uploads[m]
    BY <1>7 DEF Lands
  <2>3. store["data"].version \in Nat /\ store'["data"].version = store["data"].version + 1
    BY <1>7 DEF Lands, Objects
  <2>4. \A m \in Uploads : uploads[m].step = "adrift" =>
          uploads[m].seen # <<>> /\ uploads[m].seen[1] \in Nat
    BY DEF CallsInv, AllRead, Keys, Calls, NoCall
  <2>5. \A m \in Uploads : uploads[m].step = "adrift" => uploads[m].seen[1] < store'["data"].version
    BY <2>3, <2>4 DEF CallsInv
  <2> QED
    BY <2>1, <2>2, <2>5 DEF LateIsStale
<1> QED
  BY <1>1, <1>2, <1>3, <1>4, <1>5, <1>6, <1>7, UploadSteps

LEMMA CallsHold == ASSUME OneAtATime PROVE Spec => [](TypeOK /\ CallsInv /\ LateIsStale)
<1>1. TypeOK /\ CallsInv /\ LateIsStale /\ [Next]_vars => CallsInv' /\ LateIsStale'
  BY CallsPreserved, LatePreserved
<1> QED
  BY <1>1, CallsInit, TypeCorrect, PTL DEF Spec

(* A call becomes landed by its put only.                                  *)
LEMMA LandingStep ==
  ASSUME TypeOK, [Next]_vars, NEW n \in Uploads, Landed(n)', ~Landed(n)
  PROVE  Lands(n) /\ (Running(n) \/ uploads[n].step = "adrift")
<1> USE DEF TypeOK, Landed
<1>1. CASE UNCHANGED <<uploads, store>>
  BY <1>1
<1>2. ASSUME NEW d \in Devices, Reload(d) PROVE FALSE
  <2>1. \A m \in InProgress(d) : uploads[m] \in Calls
    BY DEF InProgress, Running, NoCall
  <2> QED
    BY <1>2, <2>1 DEF Reload, Failed, Calls
<1>3. ASSUME NEW d \in Devices, VssBackup(d) PROVE FALSE
  BY <1>3 DEF VssBackup
<1>4. ASSUME NEW m \in Uploads, GetCurrentVersion(m) PROVE FALSE
  BY <1>4 DEF GetCurrentVersion, Running, Calls, NoCall
<1>5. ASSUME NEW m \in Uploads, UploadFails(m) PROVE FALSE
  BY <1>5 DEF UploadFails, Failed, Running, Calls, NoCall
<1>6. ASSUME NEW m \in Uploads, UploadUnheard(m) PROVE FALSE
  BY <1>6 DEF UploadUnheard, Running, Calls, NoCall
<1>7. ASSUME NEW m \in Uploads, Running(m) \/ uploads[m].step = "adrift", Lands(m) PROVE m = n
  BY <1>7 DEF Lands
<1> QED
  BY <1>1, <1>2, <1>3, <1>4, <1>5, <1>6, <1>7, UploadSteps

(* An upload never replaces a later one of its device, if vss_backup is    *)
(* not called while another call runs: whoever has given up on a put has   *)
(* read versions that the later upload has replaced.                       *)
THEOREM LaterUploadsStay == ASSUME OneAtATime PROVE Spec => StoreNeverGoesBack
<1> DEFINE Newer == \A n \in Uploads :
                      Landed(n)' /\ ~Landed(n) =>
                        \A m \in Uploads : Landed(m) /\ uploads[m].by = uploads[n].by => m < n
<1>1. ASSUME TypeOK, CallsInv, LateIsStale, [Next]_vars PROVE Newer
  <2> SUFFICES ASSUME NEW n \in Uploads, Landed(n)', ~Landed(n),
                      NEW m \in Uploads, Landed(m), uploads[m].by = uploads[n].by
               PROVE  m < n
    OBVIOUS
  <2>1. Lands(n) /\ (Running(n) \/ uploads[n].step = "adrift")
    BY <1>1, LandingStep
  <2>2. ~(n < m)
    <3>1. CASE Running(n)
      BY <1>1, <3>1 DEF CallsInv, Unused, Landed
    <3>2. CASE uploads[n].step = "adrift"
      <4>1. uploads[n].seen[1] = store["data"].version
        BY <2>1 DEF Lands, Current, Keys
      <4>2. store["data"].version \in Nat
        BY <1>1 DEF TypeOK, Objects
      <4> QED
        BY <1>1, <3>2, <4>1, <4>2 DEF LateIsStale
    <3> QED
      BY <2>1, <3>1, <3>2
  <2>3. m # n
    OBVIOUS
  <2> QED
    BY <2>2, <2>3 DEF Uploads
<1>2. TypeOK /\ CallsInv /\ LateIsStale /\ [Next]_vars => [Newer]_vars
  BY <1>1
<1> QED
  BY <1>2, CallsHold, PTL DEF Spec, StoreNeverGoesBack
-----------------------------------------------------------------------------
(* What the stamps promise.                                                *)

(* Pages are not reloaded, or their applications do not flush while an     *)
(* upload runs.                                                            *)
UploadsApart == Reloading = {} \/ "flush" \notin Features

LEMMA StampsAreNat ==
  /\ \A t \in Instants \cup {Never} : t \in Nat
  /\ \A w \in Wallets : w.backedAt \in Nat /\ w.operatedAt \in Nat
<1>1. \A t \in Instants \cup {Never} : t \in Nat
  BY ConstantsAssumption DEF Never
<1> QED
  BY <1>1 DEF Wallets

LEMMA TickAdvances ==
  ASSUME clock \in Instants \cup {Never}, NEW now \in Instants, Tick(now)
  PROVE  clock \in Nat /\ now \in Nat /\ clock < now /\ clock' = now
  BY StampsAreNat DEF Tick

LEMMA OperationIsStamped ==
  ASSUME clock \in Instants \cup {Never},
         NEW w \in Wallets, Behind(w, clock), NEW now \in Instants, Tick(now)
  PROVE  ~Stamped(Operated(w, now))
<1>1. Operated(w, now).backedAt = w.backedAt /\ Operated(w, now).operatedAt = now
  BY DEF Operated, Wallets
<1>2. w.backedAt < now
  BY StampsAreNat, TickAdvances DEF Behind
<1> QED
  BY <1>1, <1>2, StampsAreNat DEF Stamped

(* Nothing that is safe is lost again: files are kept, and an upload that  *)
(* has landed stays what it is.                                            *)
LEMMA LandedStays ==
  ASSUME TypeOK, [Next]_vars
  PROVE  /\ files \subseteq files'
         /\ \A n \in Uploads : Landed(n) => Landed(n)' /\ uploads'[n] = uploads[n]
<1> USE DEF TypeOK, Landed
<1>1. files \subseteq files'
  BY DEF Next, vars, Device, Upload, Operate, Save, Reload, Backup, RestoreBackup, VssBackup,
         GetManifest, GetData, GetMetadata, RestoreLost, GetCurrentVersion, UploadSucceeds,
         UploadFails, UploadUnheard, LandsLate
<1> SUFFICES ASSUME NEW n \in Uploads, Landed(n) PROVE Landed(n)' /\ uploads'[n] = uploads[n]
  BY <1>1
<1>2. CASE UNCHANGED <<uploads, store>>
  BY <1>2
<1>3. ASSUME NEW d \in Devices, Reload(d) PROVE uploads'[n] = uploads[n]
  BY <1>3 DEF Reload, InProgress, Running
<1>4. ASSUME NEW d \in Devices, VssBackup(d) PROVE uploads'[n] = uploads[n]
  BY <1>4 DEF VssBackup, Unused
<1>5. ASSUME NEW m \in Uploads, GetCurrentVersion(m) PROVE uploads'[n] = uploads[n]
  BY <1>5 DEF GetCurrentVersion, Running
<1>6. ASSUME NEW m \in Uploads, UploadFails(m) \/ UploadUnheard(m) PROVE uploads'[n] = uploads[n]
  BY <1>6 DEF UploadFails, UploadUnheard, Running
<1>7. ASSUME NEW m \in Uploads, Running(m) \/ uploads[m].step = "adrift", Lands(m)
      PROVE  uploads'[n] = uploads[n]
  BY <1>7 DEF Lands, Running
<1> QED
  BY <1>2, <1>3, <1>4, <1>5, <1>6, <1>7, UploadSteps

(* Stamps that are not ahead of the clock stay so.                         *)
LEMMA StampsStayBehind ==
  ASSUME clock \in Instants \cup {Never}, NEW w \in Wallets, Behind(w, clock)
  PROVE  /\ clock' = clock => Behind(w, clock')
         /\ \A now \in Instants : Tick(now) =>
                /\ Behind(w, clock')
                /\ Behind(Operated(w, now), clock') /\ Behind(BackedUp(w, now), clock')
<1>1. w.backedAt \in Nat /\ w.operatedAt \in Nat
  BY StampsAreNat
<1> SUFFICES ASSUME NEW now \in Instants, Tick(now)
             PROVE  /\ Behind(w, clock')
                    /\ Behind(Operated(w, now), clock') /\ Behind(BackedUp(w, now), clock')
  BY DEF Behind
<1>2. clock \in Nat /\ now \in Nat /\ clock < now /\ clock' = now
  BY TickAdvances
<1>3. Behind(w, now)
  BY <1>1, <1>2 DEF Behind
<1>4. Behind(Operated(w, now), now)
  BY <1>1, <1>2, <1>3 DEF Operated, Wallets, Behind
<1>5. Behind(BackedUp(w, now), now)
  BY <1>1, <1>2, <1>3 DEF BackedUp, Wallets, Behind
<1> QED
  BY <1>2, <1>3, <1>4, <1>5

LEMMA StampPreserved ==
  ASSUME TypeOK, StampInv, [Next]_vars
  PROVE  StampInv'
<1> USE DEF TypeOK, StampInv
<1>1. \A w \in Wallets : Behind(w, clock) =>
        /\ clock' = clock => Behind(w, clock')
        /\ \A now \in Instants : Tick(now) =>
                /\ Behind(w, clock')
                /\ Behind(Operated(w, now), clock') /\ Behind(BackedUp(w, now), clock')
  BY StampsStayBehind
<1>2. \A n \in Uploads : uploads[n].wallet \in Wallets
  BY NewWalletIsWallet DEF Calls, NoCall
<1>3. NewWallet \in Wallets /\ Behind(NewWallet, clock)
  BY NewWalletIsWallet, StampsAreNat DEF NewWallet, Never, Behind
<1>5. ASSUME NEW d \in Devices, NEW op \in Ops, Operate(d, op) PROVE StampInv'
  <2>1. Done(wallet[d], op) \in Wallets /\ Behind(Done(wallet[d], op), clock)
    BY OperationsAreWallets DEF Done, Wallets, Behind
  <2>2. CASE op \in Counted
    BY <1>1, <1>2, <1>5, <2>1, <2>2 DEF Operate
  <2>3. CASE op \notin Counted
    BY <1>1, <1>2, <1>5, <2>1, <2>3 DEF Operate
  <2> QED
    BY <2>2, <2>3
<1>6. ASSUME NEW d \in Devices, Save(d) \/ Reload(d) PROVE StampInv'
  <2>1. \A n \in Uploads : uploads'[n].wallet \in {uploads[n].wallet, NewWallet}
    <3>1. ASSUME NEW n \in InProgress(d)
          PROVE  /\ [uploads[n] EXCEPT !.step = "adrift"].wallet = uploads[n].wallet
                 /\ Failed(n).wallet = NewWallet
      BY DEF InProgress, Running, NoCall, Calls, Failed
    <3>2. CASE Save(d)
      BY <3>2 DEF Save
    <3>3. CASE Reload(d)
      <4> SUFFICES ASSUME NEW n \in Uploads PROVE uploads'[n].wallet \in {uploads[n].wallet, NewWallet}
        OBVIOUS
      <4>1. uploads'[n] = IF n \notin InProgress(d) THEN uploads[n]
                          ELSE IF AllRead(n) THEN [uploads[n] EXCEPT !.step = "adrift"] ELSE Failed(n)
        BY <3>3 DEF Reload
      <4> QED
        BY <3>1, <4>1
    <3> QED
      BY <1>6, <3>2, <3>3
  <2> QED
    BY <1>1, <1>2, <1>3, <1>6, <2>1 DEF Save, Reload
<1>7. ASSUME NEW d \in Devices, Backup(d) PROVE StampInv'
  BY <1>1, <1>2, <1>7 DEF Backup
<1>8. ASSUME NEW d \in Devices, RestoreBackup(d) PROVE StampInv'
  BY <1>1, <1>2, <1>8 DEF RestoreBackup
<1>9. ASSUME NEW d \in Devices, VssBackup(d) PROVE StampInv'
  <2>1. \A n \in Uploads : uploads'[n].wallet \in {uploads[n].wallet, wallet[d]}
    BY <1>9 DEF VssBackup
  <2> QED
    BY <1>1, <1>2, <1>9, <2>1 DEF VssBackup
<1>10. ASSUME NEW d \in Devices, GetMetadata(d) PROVE StampInv'
  <2>1. restoring[d].data \in Uploads
    BY <1>10 DEF GetMetadata, DataRead
  <2> QED
    BY <1>1, <1>2, <1>10, <2>1 DEF GetMetadata
<1>11. ASSUME NEW d \in Devices, GetManifest(d) \/ GetData(d) \/ RestoreLost(d) PROVE StampInv'
  BY <1>1, <1>2, <1>11 DEF GetManifest, GetData, RestoreLost
<1>12. ASSUME NEW n \in Uploads, Running(n) \/ uploads[n].step = "adrift"
       PROVE  uploads[n] \in Calls /\ uploads[n].by \in Devices
  BY <1>12 DEF Running, NoCall, Calls
<1>13. ASSUME NEW n \in Uploads, GetCurrentVersion(n) PROVE StampInv'
  <2>1. \A m \in Uploads : uploads'[m].wallet = uploads[m].wallet
    BY <1>12, <1>13 DEF GetCurrentVersion, Calls
  <2> QED
    BY <1>1, <1>2, <1>13, <2>1 DEF GetCurrentVersion
<1>14. ASSUME NEW n \in Uploads, UploadFails(n) \/ UploadUnheard(n) PROVE StampInv'
  <2>1. \A m \in Uploads : uploads'[m].wallet \in {uploads[m].wallet, NewWallet}
    <3>1. CASE UploadFails(n)
      BY <1>12, <3>1 DEF UploadFails, Failed, Calls
    <3>2. CASE UploadUnheard(n)
      BY <1>12, <3>2 DEF UploadUnheard, Calls
    <3> QED
      BY <1>14, <3>1, <3>2
  <2>2. TakeStampBack(n) /\ uploads[n].by \in Devices /\ UNCHANGED <<image, files>>
    BY <1>12, <1>14 DEF UploadFails, UploadUnheard
  <2> QED
    BY <1>1, <1>2, <1>3, <2>1, <2>2 DEF TakeStampBack
<1>15. ASSUME NEW n \in Uploads, Running(n) \/ uploads[n].step = "adrift", Lands(n),
              UNCHANGED <<wallet, image, clock, restoring, files>>
       PROVE  StampInv'
  <2>1. \A m \in Uploads : uploads'[m].wallet = uploads[m].wallet
    BY <1>12, <1>15 DEF Lands, Calls
  <2> QED
    BY <1>1, <1>2, <1>15, <2>1
<1>16. CASE UNCHANGED vars
  BY <1>1, <1>2, <1>16 DEF vars
<1> QED
  BY <1>5, <1>6, <1>7, <1>8, <1>9, <1>10, <1>11, <1>13, <1>14, <1>15, <1>16
     DEF Next, Device, Upload, UploadSucceeds, LandsLate

LEMMA HeldPreserved ==
  ASSUME TypeOK, HeldInv, [Next]_vars
  PROVE  HeldInv'
<1> USE DEF TypeOK, HeldInv
<1>1. \A n \in Uploads : Landed(n) => Landed(n)'
  BY LandedStays
<1>2. \A k \in Objects : store'[k].upload # Nothing => Landed(store[k].upload)'
  <2>1. CASE UNCHANGED store
    BY <1>1, <2>1 DEF Objects
  <2>2. ASSUME NEW n \in Uploads, Running(n) \/ uploads[n].step = "adrift", Lands(n)
        PROVE  \A k \in Objects : Landed(store[k].upload)'
    <3>1. uploads[n] \in Calls
      BY <2>2 DEF Running, NoCall
    <3>2. Landed(n)'
      BY <2>2, <3>1 DEF Lands, Landed, Calls
    <3>3. \A k \in Objects : store'[k].upload = n
      BY <2>2 DEF Lands
    <3> QED
      BY <3>2, <3>3 DEF Landed
  <2> QED
    BY <2>1, <2>2, UploadSteps DEF Reload, VssBackup, GetCurrentVersion, UploadFails, UploadUnheard
<1>3. \A d \in Devices : restoring'[d] \in DataRead =>
        \/ restoring[d] = restoring'[d]
        \/ restoring'[d].data # Nothing /\ restoring'[d].data = store["data"].upload
  BY DEF Next, vars, Device, Upload, Operate, Save, Reload, Backup, RestoreBackup, VssBackup,
         GetManifest, GetData, GetMetadata, RestoreLost, GetCurrentVersion, UploadSucceeds,
         UploadFails, UploadUnheard, LandsLate, NotRestoring, ManifestRead, DataRead
<1>4. ASSUME NEW d \in Devices, restoring'[d] \in DataRead PROVE Landed(restoring[d].data)'
  <2>1. restoring'[d].data \in Uploads /\ Landed(restoring'[d].data)
    BY <1>3, <1>4 DEF DataRead, Objects
  <2> QED
    BY <1>1, <2>1 DEF Landed
<1> QED
  BY <1>2, <1>4

(* What counted operations did to a wallet.                                *)
Counts(w) == w.content \cap Counted

(* What is safe, or what an upload in progress will make so.               *)
Covered(d, content) ==
    \/ Safe(content)
    \/ \E n \in InProgress(d) : content \subseteq uploads[n].wallet.content

LEMMA BackedUpPreserved ==
  ASSUME UploadsApart, TypeOK, StampInv, HeldInv, BackedUpInv, [Next]_vars
  PROVE  BackedUpInv'
<1> USE DEF TypeOK, BackedUpInv, Counts
<1>1. \A content : Safe(content) => Safe(content)'
  BY LandedStays DEF Safe
<1>2. \A d \in Devices, now \in Instants : Tick(now) => ~Stamped(Operated(wallet[d], now))
  BY OperationIsStamped DEF StampInv
<1> DEFINE ImageGood(d)  == Stamped(image'[d]) => Safe(Counts(image[d]))'
           WalletGood(d) == Stamped(wallet'[d]) => Covered(d, Counts(wallet[d]))'
<1>3. ASSUME NEW d \in Devices, image'[d] = image[d] PROVE ImageGood(d)
  BY <1>1, <1>3 DEF Safe
<1>4. ASSUME NEW d \in Devices, wallet'[d] = wallet[d],
             \A n \in InProgress(d) : n \in InProgress(d)' /\ uploads'[n].wallet = uploads[n].wallet
      PROVE  WalletGood(d)
  <2> SUFFICES ASSUME Stamped(wallet'[d]) PROVE Covered(d, Counts(wallet[d]))'
    OBVIOUS
  <2>1. CASE Safe(Counts(wallet[d]))
    BY <1>1, <1>4, <2>1 DEF Safe, Covered
  <2>2. CASE ~Safe(Counts(wallet[d]))
    <3>1. PICK n \in InProgress(d) : Counts(wallet[d]) \subseteq uploads[n].wallet.content
      BY <1>4, <2>2
    <3>2. n \in InProgress(d)' /\ Counts(wallet'[d]) \subseteq uploads'[n].wallet.content
      BY <1>4, <3>1
    <3> QED
      BY <3>2 DEF Covered
  <2> QED
    BY <2>1, <2>2
<1>5. ASSUME NEW d \in Devices, Safe(Counts(wallet[d]))' PROVE WalletGood(d)
  BY <1>5 DEF Safe, Covered
<1>6. ASSUME NEW d \in Devices, wallet'[d] = wallet[d], uploads' = uploads PROVE WalletGood(d)
  BY <1>4, <1>6 DEF InProgress, Running
<1>7. ASSUME NEW n \in Uploads, Running(n) \/ uploads[n].step = "adrift"
      PROVE  uploads[n] \in Calls /\ uploads[n].by \in Devices
  BY <1>7 DEF Running, NoCall, Calls
<1> SUFFICES ASSUME NEW d \in Devices PROVE ImageGood(d) /\ WalletGood(d)
  BY DEF Covered, Safe, Stamped
<1>8. ASSUME NEW e \in Devices, NEW op \in Ops, Operate(e, op) PROVE ImageGood(d) /\ WalletGood(d)
  <2>1. image' = image /\ uploads' = uploads
    BY <1>8 DEF Operate
  <2>2. CASE d # e
    <3>1. wallet'[d] = wallet[d]
      BY <1>8, <2>2 DEF Operate
    <3> QED
      BY <1>3, <1>6, <2>1, <3>1
  <2>3. CASE d = e /\ op \in Counted
    <3>1. PICK now \in Instants : Tick(now) /\ wallet'[d] = Operated(Done(wallet[d], op), now)
      BY <1>8, <2>3 DEF Operate
    <3>2. Done(wallet[d], op) \in Wallets /\ Behind(Done(wallet[d], op), clock)
      BY OperationsAreWallets DEF Done, Wallets, Behind, StampInv
    <3> QED
      BY <1>3, <2>1, <3>1, <3>2, OperationIsStamped
  <2>4. CASE d = e /\ op \notin Counted
    <3>1. wallet'[d] = Done(wallet[d], op) /\ files' = files
      BY <1>8, <2>4 DEF Operate
    <3>2. /\ Stamped(wallet'[d]) => Stamped(wallet[d])
          /\ Counts(wallet'[d]) = Counts(wallet[d])
      BY <2>4, <3>1 DEF Done, Wallets, Stamped
    <3> HIDE DEF Counts
    <3>3. Stamped(wallet'[d]) => Covered(d, Counts(wallet[d]))
      BY <3>2 DEF Covered, Counts
    <3>4. Covered(d, Counts(wallet[d])) => Covered(d, Counts(wallet[d]))'
      BY <2>1, <3>1, <3>2 DEF Covered, Safe, InProgress, Running, Landed, Counts
    <3> QED
      BY <1>3, <2>1, <3>3, <3>4
  <2> QED
    BY <2>2, <2>3, <2>4
<1>9. ASSUME NEW e \in Devices, Save(e) PROVE ImageGood(d) /\ WalletGood(d)
  <2>1. WalletGood(d)
    BY <1>6, <1>9 DEF Save
  <2>2. CASE d # e
    BY <1>3, <1>9, <2>1, <2>2 DEF Save
  <2>3. CASE d = e
    <3>1. image'[d] = wallet[d]
      BY <1>9, <2>3 DEF Save
    <3>2. Stamped(wallet[d]) => Safe(Counts(wallet[d]))
      BY <1>9, <2>3 DEF Save, UploadsApart
    <3>3. Stamped(wallet[d]) => Safe(Counts(wallet[d]))'
      BY <1>1, <1>9, <3>2 DEF Save, Safe
    <3> QED
      BY <1>9, <2>1, <3>1, <3>3 DEF Safe, Save
  <2> QED
    BY <2>2, <2>3
<1>10. ASSUME NEW e \in Devices, Reload(e) PROVE ImageGood(d) /\ WalletGood(d)
  <2>1. image' = image
    BY <1>10 DEF Reload
  <2>2. CASE d = e
    <3>1. wallet'[d] = image[d] /\ image'[d] = image[d]
      BY <1>10, <2>2 DEF Reload
    <3> QED
      BY <1>3, <1>5, <3>1 DEF Safe
  <2>3. CASE d # e
    <3>1. \A n \in InProgress(d) : uploads'[n] = uploads[n] /\ n \in InProgress(d)'
      BY <1>10, <2>3 DEF Reload, InProgress, Running
    <3> QED
      BY <1>3, <1>4, <1>10, <2>1, <2>3, <3>1 DEF Reload
  <2> QED
    BY <2>2, <2>3
<1>11. ASSUME NEW e \in Devices, Backup(e) PROVE ImageGood(d) /\ WalletGood(d)
  <2>1. image' = image /\ uploads' = uploads
    BY <1>11 DEF Backup
  <2>2. CASE d = e
    <3>1. wallet[d] \in files' /\ wallet'[d].content = wallet[d].content
      BY <1>11, <2>2 DEF Backup, BackedUp, Wallets
    <3>2. Safe(Counts(wallet[d]))'
      BY <3>1 DEF Safe
    <3> QED
      BY <1>3, <1>5, <2>1, <3>2
  <2>3. CASE d # e
    BY <1>3, <1>6, <1>11, <2>1, <2>3 DEF Backup
  <2> QED
    BY <2>2, <2>3
<1>12. ASSUME NEW e \in Devices, RestoreBackup(e) PROVE ImageGood(d) /\ WalletGood(d)
  <2>1. image' = image /\ uploads' = uploads
    BY <1>12 DEF RestoreBackup
  <2>2. CASE d = e
    <3>1. wallet'[d] \in files'
      BY <1>12, <2>2 DEF RestoreBackup
    <3>2. Safe(Counts(wallet[d]))'
      BY <3>1 DEF Safe
    <3> QED
      BY <1>3, <1>5, <2>1, <3>2
  <2>3. CASE d # e
    BY <1>3, <1>6, <1>12, <2>1, <2>3 DEF RestoreBackup
  <2> QED
    BY <2>2, <2>3
<1>13. ASSUME NEW e \in Devices, VssBackup(e) PROVE ImageGood(d) /\ WalletGood(d)
  <2>1. image' = image
    BY <1>13 DEF VssBackup
  <2>2. PICK n \in Uploads : /\ Unused(n)
                             /\ uploads' = [uploads EXCEPT ![n] = [by |-> e, wallet |-> wallet[e],
                                                seen |-> <<>>, step |-> "reading"]]
    BY <1>13 DEF VssBackup
  <2>3. CASE d = e
    <3>1. n \in InProgress(d)' /\ uploads'[n].wallet.content = wallet[d].content
      BY <2>2, <2>3 DEF InProgress, Running
    <3>2. wallet'[d].content = wallet[d].content
      BY <1>13, <2>3 DEF VssBackup, BackedUp, Wallets
    <3> QED
      BY <1>3, <2>1, <3>1, <3>2 DEF Covered
  <2>4. CASE d # e
    <3>1. \A m \in InProgress(d) : uploads'[m] = uploads[m] /\ m \in InProgress(d)'
      BY <2>2, <2>4 DEF InProgress, Running, Unused
    <3> QED
      BY <1>3, <1>4, <1>13, <2>1, <2>4, <3>1 DEF VssBackup
  <2> QED
    BY <2>3, <2>4
<1>14. ASSUME NEW e \in Devices, GetManifest(e) \/ GetData(e) \/ RestoreLost(e)
       PROVE  ImageGood(d) /\ WalletGood(d)
  BY <1>3, <1>6, <1>14 DEF GetManifest, GetData, RestoreLost
<1>15. ASSUME NEW e \in Devices, GetMetadata(e) PROVE ImageGood(d) /\ WalletGood(d)
  <2>1. image' = image /\ uploads' = uploads
    BY <1>15 DEF GetMetadata
  <2>2. CASE d = e /\ Decrypts(d)
    <3>1. restoring[d].data \in Uploads /\ Landed(restoring[d].data)
      BY <1>15, <2>2 DEF GetMetadata, DataRead, HeldInv
    <3>2. wallet'[d] = uploads[restoring[d].data].wallet
      BY <1>15, <2>2 DEF GetMetadata
    <3>3. Safe(Counts(wallet[d]))'
      BY <2>1, <3>1, <3>2 DEF Safe, Landed
    <3> QED
      BY <1>3, <1>5, <2>1, <3>3
  <2>3. CASE d # e \/ ~Decrypts(d)
    BY <1>3, <1>6, <1>15, <2>1, <2>3 DEF GetMetadata
  <2> QED
    BY <2>2, <2>3
<1>16. ASSUME NEW n \in Uploads, GetCurrentVersion(n) PROVE ImageGood(d) /\ WalletGood(d)
  <2>1. \A m \in Uploads : /\ uploads'[m].wallet = uploads[m].wallet
                           /\ uploads'[m].by = uploads[m].by /\ uploads'[m].step = uploads[m].step
    BY <1>7, <1>16 DEF GetCurrentVersion, Calls
  <2> QED
    BY <1>3, <1>4, <1>16, <2>1 DEF GetCurrentVersion, InProgress, Running
<1>17. ASSUME NEW n \in Uploads, UploadFails(n) \/ UploadUnheard(n) PROVE ImageGood(d) /\ WalletGood(d)
  <2>1. TakeStampBack(n) /\ Running(n) /\ image' = image
        /\ \A m \in Uploads \ {n} : uploads'[m] = uploads[m]
    BY <1>17 DEF UploadFails, UploadUnheard
  <2>2. CASE d = uploads[n].by
    BY <1>2, <1>3, <2>1, <2>2 DEF TakeStampBack
  <2>3. CASE d # uploads[n].by
    <3>1. \A m \in InProgress(d) : uploads'[m] = uploads[m] /\ m \in InProgress(d)'
      BY <2>1, <2>3 DEF InProgress, Running
    <3> QED
      BY <1>3, <1>4, <2>1, <2>3, <3>1 DEF TakeStampBack
  <2> QED
    BY <2>2, <2>3
<1>18. ASSUME NEW n \in Uploads, Running(n) \/ uploads[n].step = "adrift", Lands(n),
              UNCHANGED <<wallet, image, clock, restoring, files>>
       PROVE  ImageGood(d) /\ WalletGood(d)
  <2>1. uploads'[n].wallet = uploads[n].wallet /\ Landed(n)'
    BY <1>7, <1>18 DEF Lands, Calls, Landed
  <2>2. \A m \in Uploads \ {n} : uploads'[m] = uploads[m]
    BY <1>18 DEF Lands
  <2>3. CASE n \in InProgress(d) /\ Counts(wallet[d]) \subseteq uploads[n].wallet.content
    <3>1. Safe(Counts(wallet[d]))'
      BY <1>18, <2>1, <2>3 DEF Safe
    <3> QED
      BY <1>3, <1>5, <1>18, <3>1
  <2>4. CASE ~(n \in InProgress(d) /\ Counts(wallet[d]) \subseteq uploads[n].wallet.content)
    <3>1. CASE Stamped(wallet[d]) /\ Safe(Counts(wallet[d]))
      BY <1>1, <1>3, <1>5, <1>18, <3>1 DEF Safe
    <3>2. CASE Stamped(wallet[d]) /\ ~Safe(Counts(wallet[d]))
      <4>1. PICK m \in InProgress(d) : Counts(wallet[d]) \subseteq uploads[m].wallet.content
        BY <3>2
      <4>2. m \in InProgress(d)' /\ uploads'[m] = uploads[m]
        BY <2>2, <2>4, <4>1 DEF InProgress, Running
      <4> QED
        BY <1>3, <1>18, <4>1, <4>2 DEF Covered
    <3>3. CASE ~Stamped(wallet[d])
      BY <1>3, <1>18, <3>3
    <3> QED
      BY <3>1, <3>2, <3>3
  <2> QED
    BY <2>3, <2>4
<1>19. CASE UNCHANGED vars
  BY <1>3, <1>6, <1>19 DEF vars
<1> QED
  BY <1>8, <1>9, <1>10, <1>11, <1>12, <1>13, <1>14, <1>15, <1>16, <1>17, <1>18, <1>19
     DEF Next, Device, Upload, UploadSucceeds, LandsLate

(* A wallet that no counted operation has stamped since its last backup is *)
(* backed up, as far as counted operations changed it, whatever else it    *)
(* contains: requests get lost, puts arrive late, calls of vss_backup      *)
(* overlap, wallets are reloaded and restored.                             *)
THEOREM StampedMeansSafe == ASSUME UploadsApart PROVE Spec => []StampedIsBackedUp
<1>1. Init => StampInv /\ HeldInv /\ BackedUpInv
  BY DEF Init, StampInv, HeldInv, BackedUpInv, Behind, Stamped, NewWallet, NoCall, Never,
         NotRestoring, DataRead
<1>2. TypeOK /\ StampInv /\ HeldInv /\ BackedUpInv /\ [Next]_vars
        => StampInv' /\ HeldInv' /\ BackedUpInv'
  BY StampPreserved, HeldPreserved, BackedUpPreserved
<1>3. BackedUpInv => StampedIsBackedUp
  BY DEF BackedUpInv, StampedIsBackedUp
<1> QED
  BY <1>1, <1>2, <1>3, TypeCorrect, PTL DEF Spec
=============================================================================
