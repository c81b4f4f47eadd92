------------------------------ MODULE MCOrders ------------------------------
\* Orders on two calls in flight, one by an actor with orders.cancel and one by
\* an actor without it.
EXTENDS Orders

CONSTANTS o1, o2, c1, a1, a2

MCCustomerOf == [o \in Orders |-> c1]
=============================================================================
