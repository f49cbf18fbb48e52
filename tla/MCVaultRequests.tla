-------------------------- MODULE MCVaultRequests --------------------------
(* A small instance of VaultRequests for TLC: the client starts a vault,   *)
(* and takes ownership of another one, which may be anybody's.             *)
EXTENDS VaultRequests, TLC

CONSTANTS r1, r2, l1, l2

MCLabelOf == r1 :> l1 @@ r2 :> l2

=============================================================================
