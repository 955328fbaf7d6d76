---------------------------- MODULE ShoppingCart ----------------------------
(***************************************************************************)
(* What the cart service promises to clients that wait for an answer       *)
(* before they touch the same cart again.  A call takes effect in one      *)
(* step: before it is answered OK, exactly once if it is, at most once if  *)
(* it fails.  A cart is a quantity per product; nothing tells an emptied   *)
(* cart from one that never was.                                           *)
(***************************************************************************)
EXTENDS Naturals

CONSTANTS Users, Products, Requests, Calls, NoCall, NoAnswer

VARIABLES carts,   \* carts[u][p]: quantity of p in the cart of u
          call,    \* call[r]: what the client asked for
          state,   \* "idle", "open", then "taken" (took effect), "ok" or "failed"
          answers  \* answers[r]: what the GetCart call r returned

Nothing == [p \in Products |-> 0]

Init ==
    /\ carts = [u \in Users |-> Nothing]
    /\ call = [r \in Requests |-> NoCall]
    /\ state = [r \in Requests |-> "idle"]
    /\ answers = [r \in Requests |-> NoAnswer]

Ask(r, c) ==
    /\ state[r] = "idle"
    /\ call' = [call EXCEPT ![r] = c]
    /\ state' = [state EXCEPT ![r] = "open"]
    /\ UNCHANGED <<carts, answers>>

\* The cart of the call's user once the call has taken effect.
After(c) ==
    IF c.op = "EmptyCart" THEN Nothing
    ELSE [carts[c.user] EXCEPT ![c.product] = @ + c.quantity]

\* The answer to a call that took effect may still be a failure.
Take(r, next) ==
    /\ state[r] = "open" /\ call[r].op # "GetCart"
    /\ carts' = [carts EXCEPT ![call[r].user] = After(call[r])]
    /\ state' = [state EXCEPT ![r] = next]
    /\ UNCHANGED <<call, answers>>

Return(r) ==
    /\ state[r] = "taken"
    /\ state' = [state EXCEPT ![r] = "ok"]
    /\ UNCHANGED <<carts, call, answers>>

GetCart(r) ==
    /\ state[r] = "open" /\ call[r].op = "GetCart"
    /\ answers' = [answers EXCEPT ![r] = carts[call[r].user]]
    /\ state' = [state EXCEPT ![r] = "ok"]
    /\ UNCHANGED <<carts, call>>

\* Calls fail and carts expire at any moment.
Interrupt(failing, gone) ==
    /\ \A r \in failing : state[r] \in {"open", "taken"}
    /\ state' = [r \in Requests |-> IF r \in failing THEN "failed" ELSE state[r]]
    /\ carts' = [u \in Users |-> IF u \in gone THEN Nothing ELSE carts[u]]
    /\ UNCHANGED <<call, answers>>

Next ==
    \/ \E r \in Requests :
          \/ \E c \in Calls : Ask(r, c)
          \/ \E next \in {"taken", "failed"} : Take(r, next)
          \/ Return(r)
          \/ GetCart(r)
    \/ \E failing \in SUBSET Requests, gone \in SUBSET Users : Interrupt(failing, gone)

Spec == Init /\ [][Next]_<<carts, call, state, answers>>

=============================================================================
