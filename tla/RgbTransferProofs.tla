------------------------- MODULE RgbTransferProofs -------------------------
(***************************************************************************)
(* Proofs about RgbTransfer, for any set of recipients, any number of      *)
(* endpoints and any faults, unless a theorem names the ones it excludes.  *)
(***************************************************************************)
EXTENDS RgbTransfer, TLAPS

(* Every variable keeps its type. *)
LEMMA TypeInit == Init => TypeOK
<1> SUFFICES ASSUME Init PROVE TypeOK
  OBVIOUS
<1> USE ConstantsAssumption DEF Init, Status, Artifacts, Answer, ChainView, SenderCalls,
        ReceiverCalls, Endpoints
<1>1. sDisk \in SenderImages
  BY DEF SenderImages
<1>2. rDisk \in [Recipients -> ReceiverImages]
  BY DEF ReceiverImages
<1>3. ackAt \in [Recipients -> [Endpoints -> Answer]]
  OBVIOUS
<1>4. rAt \in [Recipients -> Endpoints]
  OBVIOUS
<1>5. rAsset \in [Recipients -> BOOLEAN] /\ rCons \in [Recipients -> BOOLEAN]
  BY Zenon
<1>6. rFailing \in [Recipients -> BOOLEAN] /\ rLate \in [Recipients -> BOOLEAN]
  BY Zenon
<1>7. used \in [Recipients -> SUBSET Endpoints] /\ posted \in [Recipients -> SUBSET Endpoints]
  OBVIOUS
<1>. QED
  BY <1>1, <1>2, <1>3, <1>4, <1>5, <1>6, <1>7 DEF TypeOK

LEMMA TypeStep == TypeOK /\ [Next]_vars => TypeOK'
<1> SUFFICES ASSUME TypeOK, [Next]_vars PROVE TypeOK'
  OBVIOUS
<1> USE ConstantsAssumption DEF TypeOK, Status, Artifacts, Answer, ChainView, SenderCalls,
        ReceiverCalls, Endpoints, senderVars, receiverVars, netVars
<1>1. CASE SendBegin
  BY <1>1 DEF SendBegin
<1>2. CASE PostPending
  BY <1>2 DEF PostPending
<1>3. CASE SendEnd
  BY <1>3 DEF SendEnd
<1>4. CASE SendEndAgain
  BY <1>4 DEF SendEndAgain
<1>5. CASE PostCompleted
  <2>1. StatusOncePosted \in Status /\ [r \in Recipients |-> "none"] \in [Recipients -> Answer]
    BY DEF StatusOncePosted
  <2>2. /\ sStatus' \in Status /\ ack' \in [Recipients -> Answer]
        /\ sCall' \in SenderCalls /\ sLate' \in BOOLEAN
    BY <1>5, <2>1 DEF PostCompleted
  <2>. QED
    BY <1>5, <2>2 DEF PostCompleted
<1>6. CASE SenderRefresh
  BY <1>6 DEF SenderRefresh, SenderMayFail
<1>7. CASE ReadAckLost
  BY <1>7 DEF ReadAckLost, SenderReturns, StatusAfterError
<1>8. CASE DecideAcks
  <2>1. /\ sStatus' \in Status /\ sCall' \in SenderCalls
        /\ sFailing' \in BOOLEAN /\ todo' \subseteq Recipients
    <3>1. sStatus' = "Failed" \/ sStatus' = sStatus
      BY <1>8, Zenon DEF DecideAcks
    <3>2. \/ sCall' = "idle" /\ sFailing' = FALSE /\ todo' = {}
          \/ sCall' = "broadcast" /\ UNCHANGED <<sFailing, todo>>
      BY <1>8, Zenon DEF DecideAcks, SenderReturns
    <3>. QED
      BY <3>1, <3>2
  <2>. QED
    BY <1>8, <2>1 DEF DecideAcks
<1>9. CASE Broadcast
  BY <1>9 DEF Broadcast, Published
<1>10. CASE BroadcastUnheard
  BY <1>10 DEF BroadcastUnheard, SenderReturns, StatusAfterError, Published
<1>11. CASE BroadcastConflicts
  BY <1>11 DEF BroadcastConflicts, SenderReturns, StatusAfterError
<1>12. CASE BroadcastFeeRefused
  BY <1>12 DEF BroadcastFeeRefused, SenderReturns, StatusAfterError
<1>13. CASE BroadcastRecorded
  BY <1>13 DEF BroadcastRecorded, SenderReturns
<1>14. CASE SyncLost
  BY <1>14 DEF SyncLost, SenderReturns
<1>15. CASE SenderSettles
  BY <1>15 DEF SenderSettles
<1>16. CASE SenderDeletes
  BY <1>16 DEF SenderDeletes, Deletable
<1>17. CASE SenderExpires
  BY <1>17 DEF SenderExpires
<1>18. CASE SenderSaved
  BY <1>18 DEF SenderSaved, SenderImage, SenderImages
<1>19. CASE SenderReloads
  BY <1>19 DEF SenderReloads, SenderReturns, SenderImages
<1>20. CASE Mine
  BY <1>20 DEF Mine
<1>21. CASE Evict
  BY <1>21 DEF Evict
<1>22. CASE Conflict
  BY <1>22 DEF Conflict
<1>23. ASSUME NEW r \in Recipients, PostAccepted(r) PROVE TypeOK'
  <2>1. PICK e \in Endpoints : \E unheard \in Unheard(e) :
           /\ used' = [used EXCEPT ![r] = @ \cup {e}]
           /\ posted' = [posted EXCEPT ![r] = @ \cup unheard \cup {e}]
    BY <1>23 DEF PostAccepted
  <2>2. Unheard(e) \subseteq SUBSET Endpoints
    BY DEF Unheard
  <2>3. used' \in [Recipients -> SUBSET Endpoints] /\ posted' \in [Recipients -> SUBSET Endpoints]
    BY <2>1, <2>2
  <2>. QED
    BY <1>23, <2>3 DEF PostAccepted
<1>24. ASSUME NEW r \in Recipients, PostAborted(r) PROVE TypeOK'
  <2>1. PICK e \in 1..(MaxEndpoint + 1) : \E unheard \in Unheard(e) :
           posted' = [posted EXCEPT ![r] = @ \cup unheard]
    BY <1>24 DEF PostAborted
  <2>2. Unheard(e) \subseteq SUBSET Endpoints
    BY DEF Unheard
  <2>3. posted' \in [Recipients -> SUBSET Endpoints]
    BY <2>1, <2>2
  <2>4. used' \in [Recipients -> SUBSET Endpoints]
    BY <1>24 DEF PostAborted
  <2>. QED
    BY <1>24, <2>3, <2>4 DEF PostAborted
<1>25. ASSUME NEW r \in Recipients, ReadAck(r) PROVE TypeOK'
  BY <1>25 DEF ReadAck
<1>26. ASSUME NEW r \in Recipients, Receive(r) PROVE TypeOK'
  BY <1>26 DEF Receive
<1>27. ASSUME NEW r \in Recipients, ReceiverRefresh(r) PROVE TypeOK'
  <2>1. PICK failing \in BOOLEAN : rFailing' = [rFailing EXCEPT ![r] = failing]
    BY <1>27, Zenon DEF ReceiverRefresh
  <2>2. rFailing' \in [Recipients -> BOOLEAN]
    BY <2>1
  <2>3. 1 \in Endpoints
    OBVIOUS
  <2>4. rAt' \in [Recipients -> Endpoints] /\ rCall' \in [Recipients -> ReceiverCalls]
    BY <1>27, <2>3 DEF ReceiverRefresh
  <2>. QED
    BY <1>27, <2>2, <2>4 DEF ReceiverRefresh
<1>28. ASSUME NEW r \in Recipients, GetConsignment(r) PROVE TypeOK'
  BY <1>28 DEF GetConsignment
<1>29. ASSUME NEW r \in Recipients, NoConsignment(r) PROVE TypeOK'
  <2>1. rAt' \in [Recipients -> Endpoints]
    <3>1. CASE ~LastEndpoint(r)
      <4>1. rAt[r] + 1 \in Endpoints
        BY <3>1 DEF LastEndpoint
      <4>2. rAt' = [rAt EXCEPT ![r] = rAt[r] + 1]
        BY <1>29, <3>1, Zenon DEF NoConsignment
      <4>. QED
        BY <4>1, <4>2
    <3>2. CASE LastEndpoint(r)
      <4>1. rAt' = [rAt EXCEPT ![r] = 1]
        BY <1>29, <3>2, Zenon DEF NoConsignment, ReceiverReturns
      <4>. QED
        BY <4>1
    <3>. QED
      BY <3>1, <3>2
  <2>2. rStatus' \in [Recipients -> Status]
    <3>1. \/ rStatus' = rStatus
          \/ rStatus' = [rStatus EXCEPT ![r] = "Failed"]
          \/ rStatus' = [rStatus EXCEPT ![r] = rStatus[r]]
      BY <1>29, Zenon DEF NoConsignment
    <3>2. rStatus \in [Recipients -> Status] /\ "Failed" \in Status /\ rStatus[r] \in Status
      OBVIOUS
    <3>3. ASSUME NEW f \in [Recipients -> Status], NEW x \in Status
          PROVE  [f EXCEPT ![r] = x] \in [Recipients -> Status]
      BY Zenon
    <3>. QED
      BY <3>1, <3>2, <3>3, Zenon
  <2>3. rCall' \in [Recipients -> ReceiverCalls]
    <3>1. rCall' = rCall \/ rCall' = [rCall EXCEPT ![r] = "idle"]
      BY <1>29, Zenon DEF NoConsignment, ReceiverReturns
    <3>. QED
      BY <3>1
  <2>4. rFailing' \in [Recipients -> BOOLEAN]
    BY <1>29, Zenon DEF NoConsignment, ReceiverReturns
  <2>. QED
    BY <1>29, <2>1, <2>2, <2>3, <2>4 DEF NoConsignment
<1>30. ASSUME NEW r \in Recipients, Validate(r) PROVE TypeOK'
  BY <1>30 DEF Validate, Verdict
<1>31. ASSUME NEW r \in Recipients, ReceiverCallLost(r) PROVE TypeOK'
  BY <1>31 DEF ReceiverCallLost, ReceiverReturns
<1>32. ASSUME NEW r \in Recipients, PostAck(r) PROVE TypeOK'
  BY <1>32 DEF PostAck, ReceiverReturns, AckKept
<1>33. ASSUME NEW r \in Recipients, PostAckUnheard(r) PROVE TypeOK'
  BY <1>33 DEF PostAckUnheard, ReceiverReturns, AckKept
<1>34. ASSUME NEW r \in Recipients, ReceiverSettles(r) PROVE TypeOK'
  BY <1>34 DEF ReceiverSettles
<1>35. ASSUME NEW r \in Recipients, ReceiverDeletes(r) PROVE TypeOK'
  BY <1>35 DEF ReceiverDeletes, Deletable
<1>36. ASSUME NEW r \in Recipients, ReceiverExpires(r) PROVE TypeOK'
  BY <1>36 DEF ReceiverExpires
<1>37. ASSUME NEW r \in Recipients, ReceiverSaved(r) PROVE TypeOK'
  BY <1>37 DEF ReceiverSaved, ReceiverImage, ReceiverImages
<1>38. ASSUME NEW r \in Recipients, ReceiverReloads(r) PROVE TypeOK'
  BY <1>38 DEF ReceiverReloads, ReceiverReturns, ReceiverImages
<1>39. ASSUME NEW r \in Recipients, RejectListChanges(r) PROVE TypeOK'
  BY <1>39 DEF RejectListChanges
<1>40. CASE UNCHANGED vars
  BY <1>40 DEF vars
<1>. QED
  BY <1>1, <1>2, <1>3, <1>4, <1>5, <1>6, <1>7, <1>8, <1>9, <1>10, <1>11, <1>12, <1>13,
     <1>14, <1>15, <1>16, <1>17, <1>18, <1>19, <1>20, <1>21, <1>22, <1>23, <1>24, <1>25,
     <1>26, <1>27, <1>28, <1>29, <1>30, <1>31, <1>32, <1>33, <1>34, <1>35, <1>36, <1>37,
     <1>38, <1>39, <1>40
     DEF Next, Sender, Receiver, Network

THEOREM TypeCorrect == Spec => []TypeOK
  BY TypeInit, TypeStep, PTL DEF Spec

-----------------------------------------------------------------------------
(* An answer kept by a proxy stays: a recipient that accepted did so for   *)
(* good.                                                                   *)
LEMMA AcceptedStable ==
    ASSUME TypeOK, [Next]_vars, NEW q \in Recipients, Accepted(q)
    PROVE  Accepted(q)'
<1> DEFINE Kept == \/ ackAt' = ackAt
                   \/ \E r \in Recipients : rCall[r] \in {"ack", "nack"} /\ AckKept(r)
<1>1. Kept
  <2>1. CASE Sender
    BY <2>1 DEF Sender, netVars, SendBegin, PostPending, SendEnd, SendEndAgain, PostCompleted,
       SenderRefresh, ReadAckLost, DecideAcks, Broadcast, BroadcastUnheard, BroadcastConflicts,
       BroadcastFeeRefused, BroadcastRecorded, SyncLost, SenderSettles, SenderDeletes,
       SenderExpires, SenderSaved, SenderReloads, PostAccepted, PostAborted, ReadAck
  <2>2. CASE Network
    BY <2>2 DEF Network, Mine, Evict, Conflict, RejectListChanges
  <2>3. ASSUME NEW r \in Recipients, Receiver(r) PROVE Kept
    <3>1. CASE PostAck(r) \/ PostAckUnheard(r)
      BY <3>1 DEF PostAck, PostAckUnheard
    <3>2. CASE ~(PostAck(r) \/ PostAckUnheard(r))
      BY <2>3, <3>2 DEF Receiver, netVars, Receive, ReceiverRefresh, GetConsignment,
         NoConsignment, Validate, Verdict, ReceiverCallLost, ReceiverSettles, ReceiverDeletes,
         ReceiverExpires, ReceiverSaved, ReceiverReloads
    <3>. QED
      BY <3>1, <3>2
  <2>4. CASE UNCHANGED vars
    BY <2>4 DEF vars, netVars
  <2>. QED
    BY <2>1, <2>2, <2>3, <2>4 DEF Next
<1>2. CASE ackAt' = ackAt
  BY <1>2 DEF Accepted
<1>3. ASSUME NEW r \in Recipients, rCall[r] \in {"ack", "nack"}, AckKept(r)
      PROVE  Accepted(q)'
  <2>1. PICK e \in Endpoints : ackAt[q][e] = "ack"
    BY DEF Accepted
  <2>2. rAt[r] \in Endpoints
    BY DEF TypeOK
  <2>3. ackAt'[q][e] = "ack"
    BY <1>3, <2>1, <2>2 DEF AckKept, TypeOK
  <2>. QED
    BY <2>3 DEF Accepted
<1>. QED
  BY <1>1, <1>2, <1>3

(* Which answers a step may add to the sender's database. *)
LEMMA AckReadWasPosted ==
    ASSUME TypeOK, NEW r \in Recipients, ReadAck(r), NEW q \in Recipients,
           ack'[q] = "ack", ack[q] # "ack"
    PROVE  Accepted(q)
<1>1. PICK e \in used[r] : ack' = [ack EXCEPT ![r] = ackAt[r][e]]
  BY DEF ReadAck
<1>2. q = r /\ ackAt[r][e] = "ack" /\ e \in Endpoints
  BY <1>1 DEF TypeOK
<1>. QED
  BY <1>2 DEF Accepted

-----------------------------------------------------------------------------
LEMMA AckInit == Init => AckInv
  BY DEF Init, AckInv, BroadcastNeedsEveryAck, Out

LEMMA AckStep == TypeOK /\ AckInv /\ [Next]_vars => AckInv'
<1> SUFFICES ASSUME TypeOK, AckInv, [Next]_vars PROVE AckInv'
  OBVIOUS
<1>a. \A q \in Recipients : Accepted(q) => Accepted(q)'
  BY AcceptedStable
<1> USE <1>a DEF TypeOK, AckInv, BroadcastNeedsEveryAck, Out, AllAcked,
        senderVars, receiverVars, netVars
<1>1. CASE SendBegin
  BY <1>1 DEF SendBegin
<1>2. CASE PostPending
  BY <1>2 DEF PostPending
<1>3. CASE SendEnd
  BY <1>3 DEF SendEnd
<1>4. CASE SendEndAgain
  BY <1>4 DEF SendEndAgain
<1>5. CASE PostCompleted
  BY <1>5 DEF PostCompleted, StatusOncePosted
<1>6. CASE SenderRefresh
  BY <1>6 DEF SenderRefresh, SenderMayFail
<1>7. CASE ReadAckLost
  BY <1>7 DEF ReadAckLost, SenderReturns, StatusAfterError
<1>8. CASE DecideAcks
  BY <1>8 DEF DecideAcks, SenderReturns, NoneNacked
<1>9. CASE Broadcast
  BY <1>9 DEF Broadcast, Published
<1>10. CASE BroadcastUnheard
  BY <1>10 DEF BroadcastUnheard, SenderReturns, StatusAfterError, Published
<1>11. CASE BroadcastConflicts
  BY <1>11 DEF BroadcastConflicts, SenderReturns, StatusAfterError
<1>12. CASE BroadcastFeeRefused
  BY <1>12 DEF BroadcastFeeRefused, SenderReturns, StatusAfterError
<1>13. CASE BroadcastRecorded
  BY <1>13 DEF BroadcastRecorded, SenderReturns
<1>14. CASE SyncLost
  BY <1>14 DEF SyncLost, SenderReturns
<1>15. CASE SenderSettles
  BY <1>15 DEF SenderSettles
<1>16. CASE SenderDeletes
  BY <1>16 DEF SenderDeletes, Deletable
<1>17. CASE SenderExpires
  BY <1>17 DEF SenderExpires
<1>18. CASE SenderSaved
  BY <1>18 DEF SenderSaved, SenderImage, SenderImages
<1>19. CASE SenderReloads
  BY <1>19 DEF SenderReloads, SenderReturns, SenderImages
<1>20. CASE Mine
  BY <1>20 DEF Mine
<1>21. CASE Evict
  BY <1>21 DEF Evict
<1>22. CASE Conflict
  BY <1>22 DEF Conflict
<1>23. ASSUME NEW r \in Recipients, PostAccepted(r) PROVE AckInv'
  BY <1>23 DEF PostAccepted, Unheard
<1>24. ASSUME NEW r \in Recipients, PostAborted(r) PROVE AckInv'
  BY <1>24 DEF PostAborted, Unheard
<1>25. ASSUME NEW r \in Recipients, ReadAck(r) PROVE AckInv'
  BY <1>25, AckReadWasPosted DEF ReadAck
<1>26. ASSUME NEW r \in Recipients, Receive(r) PROVE AckInv'
  BY <1>26 DEF Receive
<1>27. ASSUME NEW r \in Recipients, ReceiverRefresh(r) PROVE AckInv'
  BY <1>27 DEF ReceiverRefresh, ReceiverMayFail
<1>28. ASSUME NEW r \in Recipients, GetConsignment(r) PROVE AckInv'
  BY <1>28 DEF GetConsignment
<1>29. ASSUME NEW r \in Recipients, NoConsignment(r) PROVE AckInv'
  BY <1>29 DEF NoConsignment, LastEndpoint, ReceiverReturns
<1>30. ASSUME NEW r \in Recipients, Validate(r) PROVE AckInv'
  BY <1>30 DEF Validate, Verdict
<1>31. ASSUME NEW r \in Recipients, ReceiverCallLost(r) PROVE AckInv'
  BY <1>31 DEF ReceiverCallLost, ReceiverReturns
<1>32. ASSUME NEW r \in Recipients, PostAck(r) PROVE AckInv'
  BY <1>32 DEF PostAck, ReceiverReturns, AckKept
<1>33. ASSUME NEW r \in Recipients, PostAckUnheard(r) PROVE AckInv'
  BY <1>33 DEF PostAckUnheard, ReceiverReturns, AckKept
<1>34. ASSUME NEW r \in Recipients, ReceiverSettles(r) PROVE AckInv'
  BY <1>34 DEF ReceiverSettles
<1>35. ASSUME NEW r \in Recipients, ReceiverDeletes(r) PROVE AckInv'
  BY <1>35 DEF ReceiverDeletes, Deletable
<1>36. ASSUME NEW r \in Recipients, ReceiverExpires(r) PROVE AckInv'
  BY <1>36 DEF ReceiverExpires
<1>37. ASSUME NEW r \in Recipients, ReceiverSaved(r) PROVE AckInv'
  BY <1>37 DEF ReceiverSaved, ReceiverImage, ReceiverImages
<1>38. ASSUME NEW r \in Recipients, ReceiverReloads(r) PROVE AckInv'
  BY <1>38 DEF ReceiverReloads, ReceiverReturns, ReceiverImages
<1>39. ASSUME NEW r \in Recipients, RejectListChanges(r) PROVE AckInv'
  BY <1>39 DEF RejectListChanges
<1>40. CASE UNCHANGED vars
  BY <1>40 DEF vars
<1>. QED
  BY <1>1, <1>2, <1>3, <1>4, <1>5, <1>6, <1>7, <1>8, <1>9, <1>10, <1>11, <1>12, <1>13,
     <1>14, <1>15, <1>16, <1>17, <1>18, <1>19, <1>20, <1>21, <1>22, <1>23, <1>24, <1>25,
     <1>26, <1>27, <1>28, <1>29, <1>30, <1>31, <1>32, <1>33, <1>34, <1>35, <1>36, <1>37,
     <1>38, <1>39, <1>40
     DEF Next, Sender, Receiver, Network

(* Whatever goes wrong, a transfer that is not a donation is broadcast     *)
(* only once every recipient has posted its ACK.                           *)
THEOREM BroadcastIsAgreed == Spec => []BroadcastNeedsEveryAck
<1>1. AckInv => BroadcastNeedsEveryAck
  BY DEF AckInv
<1>. QED
  BY <1>1, AckInit, AckStep, TypeCorrect, PTL DEF Spec

-----------------------------------------------------------------------------
(* With or without reloads, a donation has a row only once it is public.   *)
LEMMA DonationInit == Init => DonationInv
  BY DEF Init, DonationInv, DonationRowMeansBroadcast, Out

LEMMA DonationStep == TypeOK /\ DonationInv /\ [Next]_vars => DonationInv'
<1> SUFFICES ASSUME TypeOK, DonationInv, [Next]_vars PROVE DonationInv'
  OBVIOUS
<1> USE ConstantsAssumption DEF TypeOK, DonationInv, DonationRowMeansBroadcast, Out, AllAcked, SenderCalls,
        senderVars, receiverVars, netVars
<1>1. CASE SendBegin
  BY <1>1 DEF SendBegin
<1>2. CASE PostPending
  BY <1>2 DEF PostPending
<1>3. CASE SendEnd
  BY <1>3 DEF SendEnd
<1>4. CASE SendEndAgain
  BY <1>4 DEF SendEndAgain
<1>5. CASE PostCompleted
  BY <1>5 DEF PostCompleted, StatusOncePosted
<1>6. CASE SenderRefresh
  BY <1>6 DEF SenderRefresh, SenderMayFail
<1>7. CASE ReadAckLost
  BY <1>7 DEF ReadAckLost, SenderReturns, StatusAfterError
<1>8. CASE DecideAcks
  BY <1>8 DEF DecideAcks, SenderReturns, NoneNacked
<1>9. CASE Broadcast
  BY <1>9 DEF Broadcast, Published, ChainView
<1>10. CASE BroadcastUnheard
  BY <1>10 DEF BroadcastUnheard, SenderReturns, StatusAfterError, Published
<1>11. CASE BroadcastConflicts
  BY <1>11 DEF BroadcastConflicts, SenderReturns, StatusAfterError
<1>12. CASE BroadcastFeeRefused
  BY <1>12 DEF BroadcastFeeRefused, SenderReturns, StatusAfterError
<1>13. CASE BroadcastRecorded
  BY <1>13 DEF BroadcastRecorded, SenderReturns
<1>14. CASE SyncLost
  BY <1>14 DEF SyncLost, SenderReturns
<1>15. CASE SenderSettles
  BY <1>15 DEF SenderSettles
<1>16. CASE SenderDeletes
  BY <1>16 DEF SenderDeletes, Deletable
<1>17. CASE SenderExpires
  BY <1>17 DEF SenderExpires
<1>18. CASE SenderSaved
  BY <1>18 DEF SenderSaved, SenderImage
<1>19. CASE SenderReloads
  BY <1>19 DEF SenderReloads, SenderReturns
<1>20. CASE Mine
  BY <1>20 DEF Mine
<1>21. CASE Evict
  BY <1>21 DEF Evict
<1>22. CASE Conflict
  BY <1>22 DEF Conflict
<1>23. ASSUME NEW r \in Recipients, PostAccepted(r) PROVE DonationInv'
  BY <1>23 DEF PostAccepted
<1>24. ASSUME NEW r \in Recipients, PostAborted(r) PROVE DonationInv'
  BY <1>24 DEF PostAborted
<1>25. ASSUME NEW r \in Recipients, ReadAck(r) PROVE DonationInv'
  BY <1>25 DEF ReadAck
<1>26. ASSUME NEW r \in Recipients, Receiver(r) PROVE DonationInv'
  <2>1. UNCHANGED <<senderVars, chain, donation>>
    BY <1>26, Zenon DEF Receiver, Receive, ReceiverRefresh, GetConsignment, NoConsignment,
       Validate, Verdict, ReceiverCallLost, PostAck, PostAckUnheard, ReceiverSettles, ReceiverDeletes,
       ReceiverExpires, ReceiverSaved, ReceiverReloads
  <2>. QED
    BY <2>1
<1>27. ASSUME NEW r \in Recipients, RejectListChanges(r) PROVE DonationInv'
  BY <1>27 DEF RejectListChanges
<1>28. CASE UNCHANGED vars
  BY <1>28 DEF vars
<1>. QED
  BY <1>1, <1>2, <1>3, <1>4, <1>5, <1>6, <1>7, <1>8, <1>9, <1>10, <1>11, <1>12, <1>13,
     <1>14, <1>15, <1>16, <1>17, <1>18, <1>19, <1>20, <1>21, <1>22, <1>23, <1>24, <1>25,
     <1>26, <1>27, <1>28
     DEF Next, Sender, Network

(* A donation the sender's wallet lists was made public, under all faults. *)
THEOREM ListedDonationIsPublic == Spec => []DonationRowMeansBroadcast
<1>1. DonationInv => DonationRowMeansBroadcast
  BY DEF DonationInv
<1>. QED
  BY <1>1, DonationInit, DonationStep, TypeCorrect, PTL DEF Spec

-----------------------------------------------------------------------------
(* Without reloads and without a mempool that evicts, the sender's row     *)
(* knows of every broadcast.                                               *)
LEMMA CommitInit == Init => CommitInv
  BY DEF Init, CommitInv, Out

LEMMA CommitStep ==
    ASSUME "reload" \notin Faults, "evict" \notin Faults, TypeOK, AckInv, CommitInv, [Next]_vars
    PROVE  CommitInv'
<1> USE ConstantsAssumption DEF TypeOK, AckInv, CommitInv, Out, AllAcked, SenderCalls,
        senderVars, receiverVars, netVars
<1>1. CASE SendBegin
  BY <1>1 DEF SendBegin
<1>2. CASE PostPending
  BY <1>2 DEF PostPending
<1>3. CASE SendEnd
  BY <1>3 DEF SendEnd
<1>4. CASE SendEndAgain
  BY <1>4 DEF SendEndAgain
<1>5. CASE PostCompleted
  BY <1>5 DEF PostCompleted, StatusOncePosted
<1>6. CASE SenderRefresh
  BY <1>6 DEF SenderRefresh, SenderMayFail
<1>7. CASE ReadAckLost
  BY <1>7 DEF ReadAckLost, SenderReturns, StatusAfterError
<1>8. CASE DecideAcks
  BY <1>8 DEF DecideAcks, SenderReturns, NoneNacked
<1>9. CASE Broadcast
  BY <1>9 DEF Broadcast, Published
<1>10. CASE BroadcastUnheard
  BY <1>10 DEF BroadcastUnheard, SenderReturns, StatusAfterError, Published
<1>11. CASE BroadcastConflicts
  BY <1>11 DEF BroadcastConflicts, SenderReturns, StatusAfterError
<1>12. CASE BroadcastFeeRefused
  BY <1>12 DEF BroadcastFeeRefused, SenderReturns, StatusAfterError
<1>13. CASE BroadcastRecorded
  BY <1>13 DEF BroadcastRecorded, SenderReturns
<1>14. CASE SyncLost
  BY <1>14 DEF SyncLost, SenderReturns
<1>15. CASE SenderSettles
  BY <1>15 DEF SenderSettles
<1>16. CASE SenderDeletes
  BY <1>16 DEF SenderDeletes, Deletable
<1>17. CASE SenderExpires
  BY <1>17 DEF SenderExpires
<1>18. CASE SenderSaved
  BY <1>18 DEF SenderSaved
<1>19. CASE SenderReloads
  BY <1>19 DEF SenderReloads, SenderReturns
<1>20. CASE Mine
  BY <1>20 DEF Mine
<1>21. CASE Evict
  BY <1>21 DEF Evict
<1>22. CASE Conflict
  BY <1>22 DEF Conflict
<1>23. ASSUME NEW r \in Recipients, PostAccepted(r) PROVE CommitInv'
  BY <1>23 DEF PostAccepted
<1>24. ASSUME NEW r \in Recipients, PostAborted(r) PROVE CommitInv'
  BY <1>24 DEF PostAborted
<1>25. ASSUME NEW r \in Recipients, ReadAck(r) PROVE CommitInv'
  BY <1>25 DEF ReadAck
<1>26. ASSUME NEW r \in Recipients, Receiver(r) PROVE CommitInv'
  <2>1. UNCHANGED <<senderVars, chain, donation>>
    BY <1>26, Zenon DEF Receiver, Receive, ReceiverRefresh, GetConsignment, NoConsignment,
       Validate, Verdict, ReceiverCallLost, PostAck, PostAckUnheard, ReceiverSettles, ReceiverDeletes,
       ReceiverExpires, ReceiverSaved, ReceiverReloads
  <2>. QED
    BY <2>1
<1>27. ASSUME NEW r \in Recipients, RejectListChanges(r) PROVE CommitInv'
  BY <1>27 DEF RejectListChanges
<1>28. CASE UNCHANGED vars
  BY <1>28 DEF vars
<1>. QED
  BY <1>1, <1>2, <1>3, <1>4, <1>5, <1>6, <1>7, <1>8, <1>9, <1>10, <1>11, <1>12, <1>13,
     <1>14, <1>15, <1>16, <1>17, <1>18, <1>19, <1>20, <1>21, <1>22, <1>23, <1>24, <1>25,
     <1>26, <1>27, <1>28
     DEF Next, Sender, Network

(* A transfer its sender failed or deleted was never broadcast.            *)
THEOREM FailedWasNotBroadcast ==
    ASSUME "reload" \notin Faults, "evict" \notin Faults
    PROVE  Spec => []FailedNeverBroadcast
<1>1. CommitInv => FailedNeverBroadcast
  BY DEF CommitInv, FailedNeverBroadcast
<1>2. TypeOK /\ AckInv /\ CommitInv /\ [Next]_vars => CommitInv'
  BY CommitStep
<1>. QED
  BY <1>1, <1>2, CommitInit, AckInit, AckStep, TypeCorrect, PTL DEF Spec

-----------------------------------------------------------------------------
(* The refinement.  A step of the sender or of the network leaves the      *)
(* answers alone, a step of a recipient the sender's row and the chain; a  *)
(* broadcast and a failure are for good.                                   *)
SenderActions == Sender \/ Network \/ UNCHANGED vars
GaveUp == sStatus \in {"Failed", "Gone"}

LEMMA SenderFrame == ASSUME TypeOK, SenderActions PROVE UNCHANGED <<ackAt, donation>>
<1>1. CASE Sender
  BY <1>1, Zenon DEF Sender, netVars, SendBegin, PostPending, SendEnd, SendEndAgain, PostCompleted,
     SenderRefresh, ReadAckLost, DecideAcks, Broadcast, BroadcastUnheard, BroadcastConflicts,
     BroadcastFeeRefused, BroadcastRecorded, SyncLost, SenderSettles, SenderDeletes,
     SenderExpires, SenderSaved, SenderReloads, PostAccepted, PostAborted, ReadAck
<1>2. CASE Network
  BY <1>2, Zenon DEF Network, Mine, Evict, Conflict, RejectListChanges
<1>3. CASE UNCHANGED vars
  BY <1>3 DEF vars, netVars
<1>. QED
  BY <1>1, <1>2, <1>3 DEF SenderActions

LEMMA OutStable == ASSUME TypeOK, SenderActions, Out PROVE Out'
<1>1. \/ chain' = chain \/ chain' = Published \/ chain' = "mined"
      \/ chain = "mempool" /\ chain' = "evicted"
      \/ chain = "unknown"
  <2>1. CASE Sender
    BY <2>1, Zenon DEF Sender, netVars, SendBegin, PostPending, SendEnd, SendEndAgain,
       PostCompleted, SenderRefresh, ReadAckLost, DecideAcks, Broadcast, BroadcastUnheard,
       BroadcastConflicts, BroadcastFeeRefused, BroadcastRecorded, SyncLost, SenderSettles,
       SenderDeletes, SenderExpires, SenderSaved, SenderReloads, PostAccepted, PostAborted, ReadAck
  <2>2. CASE Network
    BY <2>2, Zenon DEF Network, Mine, Evict, Conflict, RejectListChanges
  <2>3. CASE UNCHANGED vars
    BY <2>3 DEF vars, netVars
  <2>. QED
    BY <2>1, <2>2, <2>3 DEF SenderActions
<1>. QED
  BY <1>1 DEF Out, Published

LEMMA GaveUpStable ==
    ASSUME "reload" \notin Faults, TypeOK, CommitInv, SenderActions, GaveUp
    PROVE  GaveUp'
<1> USE DEF GaveUp, CommitInv, senderVars
<1>1. CASE Sender
  <2>1. CASE sStatus' = sStatus
    BY <2>1
  <2>2. CASE sStatus' # sStatus
    BY <1>1, <2>2 DEF Sender, SendBegin, PostPending, SendEnd, SendEndAgain, PostCompleted,
       SenderRefresh, ReadAckLost, DecideAcks, Broadcast, BroadcastUnheard, BroadcastConflicts,
       BroadcastFeeRefused, BroadcastRecorded, StatusAfterError, SyncLost,
       SenderSettles, SenderDeletes, SenderExpires, SenderSaved, SenderReloads,
       PostAccepted, PostAborted, ReadAck
  <2>. QED
    BY <2>1, <2>2
<1>2. CASE Network
  BY <1>2, Zenon DEF Network, Mine, Evict, Conflict, RejectListChanges
<1>3. CASE UNCHANGED vars
  BY <1>3 DEF vars
<1>. QED
  BY <1>1, <1>2, <1>3 DEF SenderActions

LEMMA AbstractStep ==
    ASSUME "reload" \notin Faults, "evict" \notin Faults,
           TypeOK, AckInv, CommitInv, AckInv', CommitInv', [Next]_vars
    PROVE  [Abstract!Next]_(Abstract!vars)
<1> DEFINE C == {r \in Recipients : Accepted(r)}
<1> USE DEF Abstract!Next, Abstract!vars, Abstract!Pay, Abstract!Cancel, Abstract!Consent
<1>1. CASE SenderActions
  <2>1. C' = C /\ donation' = donation
    BY <1>1, SenderFrame DEF Accepted
  <2>2. (Out => Out') /\ (GaveUp => GaveUp')
    BY <1>1, OutStable, GaveUpStable
  <2>3. ~(GaveUp' /\ Out')
    BY DEF GaveUp, CommitInv, Out
  <2>4. Out' => donation' \/ C' = Recipients
    BY ConstantsAssumption DEF AckInv, BroadcastNeedsEveryAck, TypeOK
  <2>5. CASE Out' = Out /\ GaveUp' = GaveUp
    BY <2>1, <2>5 DEF GaveUp
  <2>6. CASE GaveUp' # GaveUp
    <3>1. ~GaveUp /\ GaveUp'
      BY <2>2, <2>6 DEF GaveUp
    <3>2. ~Out /\ ~Out'
      BY <2>2, <2>3, <3>1
    <3>3. Abstract!Cancel
      BY <2>1, <3>1, <3>2 DEF GaveUp, Out
    <3>. QED
      BY <3>3
  <2>7. CASE Out' # Out
    <3>1. ~Out /\ Out'
      BY <2>2, <2>7 DEF Out
    <3>2. ~GaveUp /\ ~GaveUp'
      BY <2>2, <2>3, <3>1
    <3>3. Abstract!Pay
      BY <2>1, <2>4, <3>1, <3>2 DEF GaveUp, Out
    <3>. QED
      BY <3>3
  <2>. QED
    BY <2>5, <2>6, <2>7 DEF Out, GaveUp
<1>2. ASSUME NEW r \in Recipients, Receiver(r) PROVE [Abstract!Next]_(Abstract!vars)
  <2>1. UNCHANGED <<sStatus, chain, donation>>
    BY <1>2, Zenon DEF senderVars, netVars, Receiver, Receive, ReceiverRefresh, GetConsignment,
       NoConsignment, Validate, Verdict, ReceiverCallLost, PostAck, PostAckUnheard, ReceiverSettles,
       ReceiverDeletes, ReceiverExpires, ReceiverSaved, ReceiverReloads
  <2>2. C \subseteq C'
    BY <1>2, AcceptedStable DEF Next
  <2>3. ackAt' = ackAt \/ AckKept(r)
    BY <1>2, Zenon DEF senderVars, netVars, Receiver, Receive, ReceiverRefresh, GetConsignment,
       NoConsignment, Validate, Verdict, ReceiverCallLost, PostAck, PostAckUnheard, ReceiverSettles,
       ReceiverDeletes, ReceiverExpires, ReceiverSaved, ReceiverReloads
  <2>4. C' \subseteq C \cup {r}
    BY <2>3 DEF AckKept, Accepted, TypeOK
  <2>5. CASE C' = C
    BY <2>1, <2>5 DEF Out
  <2>6. CASE C' # C
    <3>1. r \notin C /\ C' = C \cup {r}
      BY <2>2, <2>4, <2>6
    <3>. QED
      BY <2>1, <3>1 DEF Out
  <2>. QED
    BY <2>5, <2>6
<1>. QED
  BY <1>1, <1>2 DEF Next, SenderActions

(* Without reloads and without a mempool that evicts, the transfer is an   *)
(* atomic payment, for every batch and every number of endpoints.          *)
THEOREM TransferIsAtomicPayment ==
    ASSUME "reload" \notin Faults, "evict" \notin Faults
    PROVE  Spec => ImplementsAtomicPayment
<1>1. Init => Abstract!Init
  BY ConstantsAssumption DEF Init, Abstract!Init, Accepted, Out
<1>2. TypeOK /\ AckInv /\ CommitInv /\ [Next]_vars => CommitInv'
  BY CommitStep
<1>3. /\ TypeOK /\ AckInv /\ CommitInv /\ AckInv' /\ CommitInv' /\ [Next]_vars
      => [Abstract!Next]_(Abstract!vars)
  BY AbstractStep
<1>. QED
  BY <1>1, <1>2, <1>3, CommitInit, AckInit, AckStep, TypeCorrect, PTL
     DEF Spec, ImplementsAtomicPayment, Abstract!Spec

-----------------------------------------------------------------------------
(* A recipient that accepted has its asset ID, so that no_asset_only       *)
(* protects its receive from then on.                                      *)
LEMMA ReceiverInit == Init => ReceiverInv
<1> SUFFICES ASSUME Init PROVE ReceiverInv
  OBVIOUS
<1>1. \A r \in Recipients : /\ rStatus[r] = "Absent" /\ rCall[r] = "idle"
                            /\ \A e \in Endpoints : ackAt[r][e] = "none"
  BY DEF Init
<1>. QED
  BY <1>1 DEF ReceiverInv, Accepted

LEMMA ReceiverStep ==
    ASSUME "reload" \notin Faults, "rejectlist" \notin Faults, FALSE \notin NoAssetOnly,
           TypeOK, ReceiverInv, [Next]_vars
    PROVE  ReceiverInv'
<1> USE ConstantsAssumption DEF TypeOK, ReceiverInv, Accepted, ReceiverCalls, Answer, Status,
        senderVars, receiverVars, netVars
<1>1. ASSUME NEW q \in Recipients, Receiver(q) PROVE ReceiverInv'
  <2>1. CASE Receive(q)
    BY <2>1 DEF Receive
  <2>2. CASE ReceiverRefresh(q)
    <3>1. PICK failing \in BOOLEAN : /\ failing => ReceiverMayFail(q)
                                    /\ rFailing' = [rFailing EXCEPT ![q] = failing]
      BY <2>2, Zenon DEF ReceiverRefresh
    <3>2. \A r \in Recipients : r # q => rFailing'[r] = rFailing[r]
      BY <3>1
    <3>3. rFailing'[q] => ~rAsset[q]
      BY <3>1, Zenon DEF ReceiverMayFail
    <3>4. rCall' = [rCall EXCEPT ![q] = "get"] /\ UNCHANGED <<rStatus, rAsset, ackAt, good>>
      BY <2>2 DEF ReceiverRefresh
    <3>5. rStatus[q] = "WaitingCounterparty"
      BY <2>2 DEF ReceiverRefresh
    <3>. QED
      BY <3>2, <3>3, <3>4, <3>5
  <2>3. CASE GetConsignment(q)
    BY <2>3 DEF GetConsignment
  <2>4. CASE NoConsignment(q)
    BY <2>4 DEF NoConsignment, LastEndpoint, ReceiverReturns
  <2>5. CASE Validate(q)
    BY <2>5 DEF Validate, Verdict
  <2>6. CASE ReceiverCallLost(q)
    BY <2>6 DEF ReceiverCallLost, ReceiverReturns
  <2>7. CASE PostAck(q)
    BY <2>7 DEF PostAck, ReceiverReturns, AckKept
  <2>8. CASE PostAckUnheard(q)
    BY <2>8 DEF PostAckUnheard, ReceiverReturns, AckKept
  <2>9. CASE ReceiverSettles(q)
    BY <2>9 DEF ReceiverSettles
  <2>10. CASE ReceiverDeletes(q)
    BY <2>10 DEF ReceiverDeletes, Deletable
  <2>11. CASE ReceiverExpires(q)
    BY <2>11 DEF ReceiverExpires
  <2>12. CASE ReceiverSaved(q)
    BY <2>12 DEF ReceiverSaved
  <2>13. CASE ReceiverReloads(q)
    BY <2>13 DEF ReceiverReloads
  <2>. QED
    BY <1>1, <2>1, <2>2, <2>3, <2>4, <2>5, <2>6, <2>7, <2>8, <2>9, <2>10, <2>11, <2>12, <2>13 DEF Receiver
<1>2. CASE SenderActions
  <2>1. UNCHANGED <<receiverVars, good>>
    <3>1. CASE Sender
      BY <3>1, Zenon DEF Sender, SendBegin, PostPending, SendEnd, SendEndAgain,
         PostCompleted, SenderRefresh, ReadAckLost, DecideAcks, Broadcast, BroadcastUnheard,
         BroadcastConflicts, BroadcastFeeRefused, BroadcastRecorded, SyncLost, SenderSettles,
         SenderDeletes, SenderExpires, SenderSaved, SenderReloads, PostAccepted, PostAborted,
         ReadAck
    <3>2. CASE Network
      BY <3>2, Zenon DEF Network, Mine, Evict, Conflict, RejectListChanges
    <3>3. CASE UNCHANGED vars
      BY <3>3 DEF vars
    <3>. QED
      BY <1>2, <3>1, <3>2, <3>3 DEF SenderActions
  <2>. QED
    BY <1>2, <2>1, SenderFrame
<1>. QED
  BY <1>1, <1>2 DEF Next, SenderActions

(* A recipient that failed its receive, or deleted it, has not told the    *)
(* sender to pay, when applications pass no_asset_only.                    *)
THEOREM FailedReceiverDidNotAccept ==
    ASSUME "reload" \notin Faults, "rejectlist" \notin Faults, FALSE \notin NoAssetOnly
    PROVE  Spec => []FailedReceiverNeverAccepted
<1>1. ReceiverInv => FailedReceiverNeverAccepted
  BY DEF ReceiverInv, FailedReceiverNeverAccepted
<1>2. TypeOK /\ ReceiverInv /\ [Next]_vars => ReceiverInv'
  BY ReceiverStep
<1>. QED
  BY <1>1, <1>2, ReceiverInit, TypeCorrect, PTL DEF Spec

-----------------------------------------------------------------------------
(* The status graph.  Where a call in progress stands determines the       *)
(* status of the row it is about, so a call never writes over another's.   *)
SenderCallInv ==
    /\ artifacts \in {"none", "prepared"} \/ sCall \in {"pending", "post"} => sStatus = "Absent"
    /\ sCall \in {"post", "broadcast", "sync"} => artifacts = "signed"
    /\ sCall = "acks" => sStatus = "WaitingCounterparty"
    /\ sCall \in {"broadcast", "sync"} =>
           sStatus = IF donation THEN "Absent" ELSE "WaitingCounterparty"
    /\ donation => sStatus # "WaitingCounterparty" /\ ~sFailing
ReceiverCallInv == \A r \in Recipients : rCall[r] # "idle" => rStatus[r] = "WaitingCounterparty"
CallInv == SenderCallInv /\ ReceiverCallInv

SenderAdvances == sStatus' # sStatus => sStatus' \in Successors(sStatus)
ReceiverAdvances(r) == rStatus'[r] # rStatus[r] => rStatus'[r] \in Successors(rStatus[r])

LEMMA ReceiverFrame == ASSUME SenderActions PROVE UNCHANGED receiverVars
<1>1. CASE Sender
  BY <1>1, Zenon DEF Sender, SendBegin, PostPending, SendEnd, SendEndAgain, PostCompleted,
     SenderRefresh, ReadAckLost, DecideAcks, Broadcast, BroadcastUnheard, BroadcastConflicts,
     BroadcastFeeRefused, BroadcastRecorded, SyncLost, SenderSettles, SenderDeletes,
     SenderExpires, SenderSaved, SenderReloads, PostAccepted, PostAborted, ReadAck
<1>2. CASE Network
  BY <1>2, Zenon DEF Network, Mine, Evict, Conflict, RejectListChanges
<1>3. CASE UNCHANGED vars
  BY <1>3 DEF vars
<1>. QED
  BY <1>1, <1>2, <1>3 DEF SenderActions

LEMMA CallInit == Init => CallInv
  BY DEF Init, CallInv, SenderCallInv, ReceiverCallInv

LEMMA SenderCallStep ==
    ASSUME "reload" \notin Faults, TypeOK, SenderCallInv, [Next]_vars
    PROVE  SenderCallInv' /\ SenderAdvances
<1> USE DEF SenderCallInv, SenderAdvances, Successors, senderVars, netVars
<1>1. CASE SendBegin
  BY <1>1 DEF SendBegin
<1>2. CASE PostPending
  BY <1>2 DEF PostPending
<1>3. CASE SendEnd
  BY <1>3 DEF SendEnd
<1>4. CASE SendEndAgain
  BY <1>4 DEF SendEndAgain
<1>5. CASE PostCompleted
  BY <1>5, ConstantsAssumption DEF PostCompleted, StatusOncePosted, TypeOK
<1>6. CASE SenderRefresh
  BY <1>6 DEF SenderRefresh
<1>7. CASE ReadAckLost
  BY <1>7 DEF ReadAckLost, SenderReturns, StatusAfterError
<1>8. CASE DecideAcks
  BY <1>8 DEF DecideAcks, SenderReturns
<1>9. CASE Broadcast
  BY <1>9 DEF Broadcast
<1>10. CASE BroadcastUnheard
  BY <1>10 DEF BroadcastUnheard, SenderReturns, StatusAfterError
<1>11. CASE BroadcastConflicts
  BY <1>11 DEF BroadcastConflicts, SenderReturns, StatusAfterError
<1>12. CASE BroadcastFeeRefused
  BY <1>12 DEF BroadcastFeeRefused, SenderReturns, StatusAfterError
<1>13. CASE BroadcastRecorded
  BY <1>13, ConstantsAssumption DEF BroadcastRecorded, SenderReturns, TypeOK
<1>14. CASE SyncLost
  BY <1>14 DEF SyncLost, SenderReturns
<1>15. CASE SenderSettles
  BY <1>15 DEF SenderSettles
<1>16. CASE SenderDeletes
  BY <1>16 DEF SenderDeletes, Deletable
<1>17. CASE SenderExpires
  BY <1>17 DEF SenderExpires
<1>18. CASE SenderSaved
  BY <1>18 DEF SenderSaved
<1>19. CASE SenderReloads
  BY <1>19 DEF SenderReloads
<1>20. ASSUME NEW r \in Recipients, PostAccepted(r) PROVE SenderCallInv' /\ SenderAdvances
  BY <1>20 DEF PostAccepted
<1>21. ASSUME NEW r \in Recipients, PostAborted(r) PROVE SenderCallInv' /\ SenderAdvances
  BY <1>21 DEF PostAborted
<1>22. ASSUME NEW r \in Recipients, ReadAck(r) PROVE SenderCallInv' /\ SenderAdvances
  BY <1>22 DEF ReadAck
<1>23. CASE Network
  BY <1>23 DEF Network, Mine, Evict, Conflict, RejectListChanges
<1>24. ASSUME NEW r \in Recipients, Receiver(r) PROVE UNCHANGED <<senderVars, donation>>
  BY <1>24, Zenon DEF Receiver, Receive, ReceiverRefresh, GetConsignment, NoConsignment, Validate,
     ReceiverCallLost, PostAck, PostAckUnheard, ReceiverSettles, ReceiverDeletes, ReceiverExpires,
     ReceiverSaved, ReceiverReloads, netVars
<1>25. CASE UNCHANGED vars
  BY <1>25 DEF vars
<1>. QED
  BY <1>1, <1>2, <1>3, <1>4, <1>5, <1>6, <1>7, <1>8, <1>9, <1>10, <1>11, <1>12, <1>13, <1>14, <1>15, <1>16, <1>17, <1>18, <1>19, <1>20, <1>21, <1>22, <1>23, <1>24, <1>25
     DEF Next, Sender

LEMMA ReceiverCallStep ==
    ASSUME "reload" \notin Faults, TypeOK, ReceiverCallInv, [Next]_vars
    PROVE  ReceiverCallInv' /\ \A r \in Recipients : ReceiverAdvances(r)
<1>1. CASE SenderActions
  BY <1>1, ReceiverFrame DEF ReceiverCallInv, ReceiverAdvances, receiverVars
<1>2. ASSUME NEW q \in Recipients, Receiver(q)
      PROVE  ReceiverCallInv' /\ \A r \in Recipients : ReceiverAdvances(r)
  <2> USE DEF TypeOK, ReceiverCallInv, ReceiverAdvances, Successors
  <2>1. CASE Receive(q)
    BY <2>1 DEF Receive
  <2>2. CASE ReceiverRefresh(q)
    BY <2>2 DEF ReceiverRefresh
  <2>3. CASE GetConsignment(q)
    BY <2>3 DEF GetConsignment
  <2>4. CASE NoConsignment(q)
    BY <2>4 DEF NoConsignment, ReceiverReturns
  <2>5. CASE Validate(q)
    BY <2>5 DEF Validate, Verdict
  <2>6. CASE ReceiverCallLost(q)
    BY <2>6 DEF ReceiverCallLost, ReceiverReturns
  <2>7. CASE PostAck(q)
    BY <2>7 DEF PostAck, ReceiverReturns
  <2>8. CASE PostAckUnheard(q)
    BY <2>8 DEF PostAckUnheard, ReceiverReturns
  <2>9. CASE ReceiverSettles(q)
    BY <2>9 DEF ReceiverSettles
  <2>10. CASE ReceiverDeletes(q)
    BY <2>10 DEF ReceiverDeletes, Deletable
  <2>11. CASE ReceiverExpires(q)
    BY <2>11 DEF ReceiverExpires
  <2>12. CASE ReceiverSaved(q)
    BY <2>12 DEF ReceiverSaved
  <2>13. CASE ReceiverReloads(q)
    BY <2>13 DEF ReceiverReloads
  <2>. QED
    BY <1>2, <2>1, <2>2, <2>3, <2>4, <2>5, <2>6, <2>7, <2>8, <2>9, <2>10, <2>11, <2>12, <2>13 DEF Receiver
<1>. QED
  BY <1>1, <1>2 DEF Next, SenderActions

(* Statuses only advance along the graph of TransferStatus, on both sides, *)
(* when wallets are not reloaded.                                          *)
THEOREM StatusAdvances == ASSUME "reload" \notin Faults PROVE Spec => StatusOnlyAdvances
<1>1. TypeOK /\ CallInv /\ [Next]_vars
      => /\ CallInv'
         /\ [/\ sStatus' # sStatus => sStatus' \in Successors(sStatus)
             /\ \A r \in Recipients :
                   rStatus'[r] # rStatus[r] => rStatus'[r] \in Successors(rStatus[r])]_vars
  BY SenderCallStep, ReceiverCallStep DEF CallInv, SenderAdvances, ReceiverAdvances
<1>. QED
  BY <1>1, CallInit, TypeCorrect, PTL DEF Spec, StatusOnlyAdvances

-----------------------------------------------------------------------------
(* Settlement.  Only a broadcast that every recipient agreed to leads      *)
(* there, and a recipient that agreed has the consignment.                 *)
PaidInv == ~donation /\ sStatus \in {"WaitingConfirmations", "Settled"} =>
               \A r \in Recipients : Accepted(r)
KeptInv == \A r \in Recipients :
    /\ rCall[r] \in {"validate", "ack", "nack"} => rCons[r] /\ posted[r] # {}
    /\ rStatus[r] = "WaitingConfirmations" => rCons[r]
    /\ Accepted(r) => posted[r] # {}

LEMMA PaidInit == Init => PaidInv /\ KeptInv
  BY DEF Init, PaidInv, KeptInv, Accepted

LEMMA PaidStep ==
    ASSUME "reload" \notin Faults, TypeOK, AckInv, PaidInv, [Next]_vars PROVE PaidInv'
<1>1. donation' = donation /\ \A r \in Recipients : Accepted(r) => Accepted(r)'
  <2>1. ASSUME NEW r \in Recipients, Receiver(r) PROVE donation' = donation
    BY <2>1, Zenon DEF Receiver, Receive, ReceiverRefresh, GetConsignment, NoConsignment, Validate,
       ReceiverCallLost, PostAck, PostAckUnheard, ReceiverSettles, ReceiverDeletes,
       ReceiverExpires, ReceiverSaved, ReceiverReloads, netVars
  <2>. QED
    BY <2>1, AcceptedStable, SenderFrame DEF Next, SenderActions
<1>2. \/ sStatus' = sStatus
      \/ sStatus' \in {"WaitingCounterparty", "Failed", "Gone"}
      \/ sStatus = "WaitingConfirmations"
      \/ sCall = "sync"
  <2>1. CASE Sender
    BY <2>1 DEF Sender, SendBegin, PostPending, SendEnd, SendEndAgain, PostCompleted, StatusOncePosted,
       SenderRefresh, ReadAckLost, DecideAcks, Broadcast, BroadcastUnheard, BroadcastConflicts,
       BroadcastFeeRefused, BroadcastRecorded, SyncLost, SenderSettles, SenderDeletes,
       SenderExpires, SenderSaved, SenderReloads, PostAccepted, PostAborted, ReadAck,
       StatusAfterError, senderVars
  <2>2. CASE Network
    BY <2>2 DEF Network, Mine, Evict, Conflict, RejectListChanges, senderVars
  <2>3. ASSUME NEW r \in Recipients, Receiver(r) PROVE sStatus' = sStatus
    BY <2>3, Zenon DEF Receiver, Receive, ReceiverRefresh, GetConsignment, NoConsignment, Validate,
       ReceiverCallLost, PostAck, PostAckUnheard, ReceiverSettles, ReceiverDeletes,
       ReceiverExpires, ReceiverSaved, ReceiverReloads, senderVars
  <2>4. CASE UNCHANGED vars
    BY <2>4 DEF vars, senderVars
  <2>. QED
    BY <2>1, <2>2, <2>3, <2>4 DEF Next
<1>. QED
  BY <1>1, <1>2 DEF PaidInv, AckInv, AllAcked

LEMMA KeptStep ==
    ASSUME "reload" \notin Faults, TypeOK, ReceiverCallInv, KeptInv, [Next]_vars PROVE KeptInv'
<1>1. CASE SenderActions
  <2>1. UNCHANGED <<rCall, rCons, rStatus, ackAt>>
    BY <1>1, ReceiverFrame, SenderFrame DEF receiverVars
  <2>2. \A r \in Recipients : posted[r] \subseteq posted'[r]
    <3>1. ASSUME NEW q \in Recipients, PostAccepted(q) \/ PostAborted(q)
          PROVE  \A r \in Recipients : posted[r] \subseteq posted'[r]
      <4>1. \/ \E e, unheard : posted' = [posted EXCEPT ![q] = @ \cup unheard \cup {e}]
            \/ \E unheard : posted' = [posted EXCEPT ![q] = @ \cup unheard]
        BY <3>1, Zenon DEF PostAccepted, PostAborted
      <4>2. posted \in [Recipients -> SUBSET Endpoints]
        BY DEF TypeOK
      <4>3. \E more : posted' = [posted EXCEPT ![q] = posted[q] \cup more]
        <5>1. CASE \E e, unheard : posted' = [posted EXCEPT ![q] = @ \cup unheard \cup {e}]
          <6>1. PICK e, unheard : posted' = [posted EXCEPT ![q] = @ \cup unheard \cup {e}]
            BY <5>1
          <6>2. posted[q] \cup unheard \cup {e} = posted[q] \cup (unheard \cup {e})
            OBVIOUS
          <6>. QED
            BY <6>1, <6>2
        <5>. QED
          BY <4>1, <5>1
      <4>. QED
        BY <4>2, <4>3
    <3>2. ASSUME ~\E q \in Recipients : PostAccepted(q) \/ PostAborted(q) PROVE posted' = posted
      BY <1>1, <3>2, Zenon DEF SenderActions, Sender, SendBegin, PostPending, SendEnd, SendEndAgain,
         PostCompleted, SenderRefresh, ReadAckLost, DecideAcks, Broadcast, BroadcastUnheard,
         BroadcastConflicts, BroadcastFeeRefused, BroadcastRecorded, SyncLost, SenderSettles,
         SenderDeletes, SenderExpires, SenderSaved, SenderReloads, ReadAck, Network, Mine, Evict,
         Conflict, RejectListChanges, vars, netVars
    <3>. QED
      BY <3>1, <3>2
  <2>. QED
    BY <2>1, <2>2 DEF KeptInv, Accepted
<1>2. ASSUME NEW q \in Recipients, Receiver(q) PROVE KeptInv'
  <2> USE DEF TypeOK, ReceiverCallInv, KeptInv, Accepted, netVars
  <2>1. CASE Receive(q)
    BY <2>1 DEF Receive
  <2>2. CASE ReceiverRefresh(q)
    BY <2>2 DEF ReceiverRefresh
  <2>3. CASE GetConsignment(q)
    BY <2>3 DEF GetConsignment
  <2>4. CASE NoConsignment(q)
    BY <2>4 DEF NoConsignment, ReceiverReturns
  <2>5. CASE Validate(q)
    BY <2>5 DEF Validate, Verdict
  <2>6. CASE ReceiverCallLost(q)
    BY <2>6 DEF ReceiverCallLost, ReceiverReturns
  <2>7. CASE PostAck(q)
    BY <2>7 DEF PostAck, ReceiverReturns, AckKept
  <2>8. CASE PostAckUnheard(q)
    BY <2>8 DEF PostAckUnheard, ReceiverReturns, AckKept
  <2>9. CASE ReceiverSettles(q)
    BY <2>9 DEF ReceiverSettles
  <2>10. CASE ReceiverDeletes(q)
    BY <2>10 DEF ReceiverDeletes, Deletable
  <2>11. CASE ReceiverExpires(q)
    BY <2>11 DEF ReceiverExpires
  <2>12. CASE ReceiverSaved(q)
    BY <2>12 DEF ReceiverSaved
  <2>13. CASE ReceiverReloads(q)
    BY <2>13 DEF ReceiverReloads
  <2>. QED
    BY <1>2, <2>1, <2>2, <2>3, <2>4, <2>5, <2>6, <2>7, <2>8, <2>9, <2>10, <2>11, <2>12, <2>13 DEF Receiver
<1>. QED
  BY <1>1, <1>2 DEF Next, SenderActions

(* A sender that sees a transfer settled has left no recipient behind,     *)
(* when applications pass no_asset_only.                                   *)
THEOREM SettledForEveryone ==
    ASSUME "reload" \notin Faults, "rejectlist" \notin Faults, FALSE \notin NoAssetOnly
    PROVE  Spec => []SettledSenderLosesNoRecipient
<1>1. PaidInv /\ KeptInv /\ ReceiverInv => SettledSenderLosesNoRecipient
  BY DEF PaidInv, KeptInv, ReceiverInv, SettledSenderLosesNoRecipient, ReceiverMayFail
<1>2. /\ TypeOK /\ AckInv /\ PaidInv /\ [Next]_vars => PaidInv'
      /\ TypeOK /\ CallInv /\ KeptInv /\ [Next]_vars => KeptInv'
      /\ TypeOK /\ CallInv /\ [Next]_vars => CallInv'
      /\ TypeOK /\ ReceiverInv /\ [Next]_vars => ReceiverInv'
  BY PaidStep, KeptStep, SenderCallStep, ReceiverCallStep, ReceiverStep DEF CallInv
<1>. QED
  BY <1>1, <1>2, PaidInit, CallInit, ReceiverInit, AckInit, AckStep, TypeCorrect, PTL DEF Spec

=============================================================================
