------------------------------- MODULE Order -------------------------------
(***************************************************************************)
(* What a shop promises about its orders: an order is paid at most once,   *)
(* nothing is sent that was not paid for, what is sent is what was paid    *)
(* for, and the customer is told that the order succeeded only when it was *)
(* sent.  A customer who is told that it failed may still have to pay, and *)
(* may still be sent the goods.                                            *)
(***************************************************************************)
CONSTANTS Orders, Goods, None

VARIABLES paid, sent, told

Init ==
    /\ paid = [o \in Orders |-> None]
    /\ sent = [o \in Orders |-> None]
    /\ told = [o \in Orders |-> "nothing"]

Pay(o) ==
    /\ paid[o] = None
    /\ paid'[o] \in Goods
    /\ paid' = [paid EXCEPT ![o] = paid'[o]]
    /\ UNCHANGED <<sent, told>>

Send(o) ==
    /\ paid[o] # None /\ sent[o] = None
    /\ sent' = [sent EXCEPT ![o] = paid[o]]
    /\ UNCHANGED <<paid, told>>

Confirm(o) ==
    /\ told[o] = "nothing" /\ sent[o] # None
    /\ told' = [told EXCEPT ![o] = "ok"]
    /\ UNCHANGED <<paid, sent>>

\* Several orders may fail at once.
Disappoint(os) ==
    /\ os # {} /\ \A o \in os : told[o] = "nothing"
    /\ told' = [o \in Orders |-> IF o \in os THEN "failed" ELSE told[o]]
    /\ UNCHANGED <<paid, sent>>

Next ==
    \/ \E o \in Orders : Pay(o) \/ Send(o) \/ Confirm(o)
    \/ \E os \in SUBSET Orders : Disappoint(os)

Spec == Init /\ [][Next]_<<paid, sent, told>>

=============================================================================
