--------------------------- MODULE AtomicPayment ---------------------------
(***************************************************************************)
(* What one batch transfer promises its participants, whatever proxies,    *)
(* polling and persistence do: the Bitcoin transaction that commits to the *)
(* transfer becomes public only once every recipient has consented, and    *)
(* never after the sender has given the transfer up.  A donation asks no   *)
(* consent.  RgbTransfer implements this specification.                    *)
(***************************************************************************)
CONSTANT Recipients

VARIABLES donation,   \* the sender asks no consent; never changes
          consent,    \* recipients that accepted the consignment
          paid,       \* the transaction has been made public by the sender
          cancelled   \* the sender considers the transfer failed

vars == <<donation, consent, paid, cancelled>>

TypeOK == /\ donation \in BOOLEAN
          /\ consent \subseteq Recipients
          /\ paid \in BOOLEAN
          /\ cancelled \in BOOLEAN

Init == donation \in BOOLEAN /\ consent = {} /\ paid = FALSE /\ cancelled = FALSE

Consent(r) == /\ r \notin consent
              /\ consent' = consent \cup {r}
              /\ UNCHANGED <<donation, paid, cancelled>>

Pay == /\ ~paid /\ ~cancelled
       /\ donation \/ consent = Recipients
       /\ paid' = TRUE
       /\ UNCHANGED <<donation, consent, cancelled>>

Cancel == /\ ~paid /\ ~cancelled
          /\ cancelled' = TRUE
          /\ UNCHANGED <<donation, consent, paid>>

Next == Pay \/ Cancel \/ \E r \in Recipients : Consent(r)

Spec == Init /\ [][Next]_vars
=============================================================================
