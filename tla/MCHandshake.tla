----------------------------- MODULE MCHandshake -----------------------------
(* Handshake with a loss budget beyond what the first frames tolerate.      *)
EXTENDS Handshake

LossPromised == [f \in Frames |-> Delay]
=============================================================================
