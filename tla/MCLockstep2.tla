----------------------------- MODULE MCLockstep2 -----------------------------
(* Lockstep2 with its loss budget.                                          *)
EXTENDS Lockstep2

\* What the comment in xbl_lockstep_pump takes to be harmless: more than the
\* warm-up frames tolerate, so consoles do get stuck.
LossPromised == [f \in Frames |-> Delay]
=============================================================================
