---------------------------- MODULE MCValkeyCart ----------------------------
(***************************************************************************)
(* The cart store under two kinds of clients: one that waits for an answer *)
(* before it touches the same cart again, with two users, and clients      *)
(* whose calls overlap on the one cart of Rival.                           *)
(***************************************************************************)
EXTENDS ValkeyCartStore

CONSTANT Rival  \* the user whose calls overlap

VARIABLE sequential

mcVars == <<vars, sequential>>

MCInit == Init /\ sequential \in BOOLEAN

Overlapping ==
    \E r, s \in Requests : r # s /\ Running(r) /\ Running(s) /\ call[r].user = call[s].user

MCNext ==
    /\ Next
    /\ UNCHANGED sequential
    /\ IF sequential THEN ~Overlapping'
       ELSE \A r \in Requests : call'[r] # NoCall => call'[r].user = Rival

MCSpec == MCInit /\ [][MCNext]_mcVars /\ Fairness

\* What sequential clients see; overlapping ones are promised nothing.
Seen(f, default) == IF sequential THEN f ELSE default

Promise == INSTANCE ShoppingCart
            WITH carts <- [u \in Users |-> Seen(CartOf(u), Contents(NoCart))],
                 call <- Seen(call, [r \in Requests |-> NoCall]),
                 state <- [r \in Requests |-> Seen(StateOf(r), "idle")],
                 answers <- [r \in Requests |-> Seen(AnswerOf(r), NoCall)],
                 NoAnswer <- NoCall

\* Calls that do not overlap on a cart take effect in one step each: once when
\* they are answered OK, at most once when they fail.  (CartService.cs over
\* ValkeyCartStore.cs implements ShoppingCart.)
ImplementsShoppingCart == Promise!Spec
=============================================================================
