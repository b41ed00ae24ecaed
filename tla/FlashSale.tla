------------------------------ MODULE FlashSale ------------------------------
(***************************************************************************)
(* What the shop promises the seller of one flash sale, without saying how *)
(* reservations, messages or workers achieve it: units are bought against  *)
(* a stock that can be resized, and no purchase is booked beyond it.       *)
(*                                                                         *)
(* The promise is about inventory only.  It lets one reservation be bought *)
(* twice (the second payment books its units again) and lets a purchase be *)
(* revoked with its units still booked, because the code does both.        *)
(***************************************************************************)
EXTENDS Integers

CONSTANTS Reservations,  \* what a purchase is made for
          MaxQuantity    \* most units one purchase holds

VARIABLES total,   \* units of stock
          sold,    \* units booked as sold
          bought   \* units of the purchase each reservation stands for, 0 if none

vars == <<total, sold, bought>>

Init ==
    /\ total \in Nat
    /\ sold = 0
    /\ bought = [r \in Reservations |-> 0]

(* A purchase of q units for r is booked, if the stock allows it. *)
Buy(r, q) ==
    /\ bought[r] \in {0, q}
    /\ sold + q <= total
    /\ sold' = sold + q
    /\ bought' = [bought EXCEPT ![r] = q]
    /\ UNCHANGED total

(* A purchase is revoked; the booking is kept. *)
Revoke(r) ==
    /\ bought[r] # 0
    /\ bought' = [bought EXCEPT ![r] = 0]
    /\ UNCHANGED <<total, sold>>

(* The seller changes the stock, never below what is booked. *)
Resize ==
    /\ total' \in Nat
    /\ sold <= total'
    /\ UNCHANGED <<sold, bought>>

Next ==
    \/ \E r \in Reservations, q \in 1..MaxQuantity : Buy(r, q)
    \/ \E r \in Reservations : Revoke(r)
    \/ Resize

Spec == Init /\ [][Next]_vars
=============================================================================
