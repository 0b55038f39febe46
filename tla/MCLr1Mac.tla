------------------------------ MODULE MCLr1Mac ------------------------------
(* The small instance of Lr1Mac: a DevNonce that saturates, a downlink       *)
(* counter that rolls over, frames that are repeated.                        *)
EXTENDS Lr1Mac

=============================================================================
