----------------------------- MODULE MCCheckout -----------------------------
\* Checkout of one cart of one branch, by requests whose bodies may differ.
EXTENDS Checkout

CONSTANTS k1, x1, x2, c1, l1, b1, e1

\* The second request to arrive reuses the key, if it has one, for another body.
MCBodyOf == [r \in Requests |-> IF r = 2 THEN x2 ELSE x1]
MCCartOf == [x \in Bodies |-> c1]
MCBranchOf == [c \in Carts |-> b1]
=============================================================================
