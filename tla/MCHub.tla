-------------------------------- MODULE MCHub --------------------------------
(* An instance of Hub for TLC: one client asks for more than the other.    *)
EXTENDS Hub

TwoClients == {"reader", "writer"}
Requested  == [reader |-> 3, writer |-> 1]
==============================================================================
