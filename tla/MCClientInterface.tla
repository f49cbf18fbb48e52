------------------------- MODULE MCClientInterface -------------------------
(* A small instance of ClientInterface for TLC: two requests for one label *)
(* (TakeOwnership) and one with a label of its own (StartVault).           *)
EXTENDS ClientInterface, TLC

CONSTANTS r1, r2, r3, l1, l2

MCLabelOf == r1 :> l1 @@ r2 :> l1 @@ r3 :> l2

=============================================================================
