------------------------------ MODULE Lockstep ------------------------------
(***************************************************************************)
(* What deterministic lockstep promises a game (sdk/xbl_net.h, "Both       *)
(* consoles run the SAME deterministic simulation and exchange ONLY        *)
(* per-frame inputs"), with no network in sight: a player samples one      *)
(* input per frame, the input is applied Delay frames later, and a frame   *)
(* is applied by a console only when the input of every player for that    *)
(* frame is already fixed.  Lockstep2 (the two-player link) and LockstepN  *)
(* (the host relay) are shown to implement this module.                    *)
(***************************************************************************)
EXTENDS Integers

CONSTANTS
  Players,    \* the consoles of the match
  Inputs,     \* the controller states a player can sample
  Neutral,    \* the input applied in the warm-up frames 0 .. Delay-1
  Delay,      \* an input sampled at frame f is applied at frame f + Delay
  MaxFrames   \* the match is the frames 0 .. MaxFrames-1

Frames == 0 .. (MaxFrames + Delay)
MatchFrames == 0 .. (MaxFrames - 1)

VARIABLES
  frame,      \* frame[p]: the frame console p applies next
  sampled,    \* sampled[p]: how many inputs player p has sampled
  input,      \* input[p][f]: the input of player p that applies at frame f
  view        \* view[p][f]: what console p applied at frame f, a player -> input map

vars == <<frame, sampled, input, view>>

Silence == [q \in Players |-> Neutral]

Init ==
  /\ frame = [p \in Players |-> 0]
  /\ sampled = [p \in Players |-> 0]
  /\ input = [p \in Players |-> [f \in Frames |-> Neutral]]
  /\ view = [p \in Players |-> [f \in MatchFrames |-> Silence]]

\* Player p samples its controller for the frame it is on.
Sample(p, v) ==
  /\ frame[p] < MaxFrames
  /\ sampled[p] = frame[p]
  /\ input' = [input EXCEPT ![p][frame[p] + Delay] = v]
  /\ sampled' = [sampled EXCEPT ![p] = @ + 1]
  /\ UNCHANGED <<frame, view>>

\* The input of player q for frame f can no longer change.
Fixed(q, f) == f < sampled[q] + Delay

\* Console p applies its frame: the inputs of all players for it are fixed.
Apply(p) ==
  /\ sampled[p] = frame[p] + 1
  /\ \A q \in Players : Fixed(q, frame[p])
  /\ view' = [view EXCEPT ![p][frame[p]] = [q \in Players |-> input[q][frame[p]]]]
  /\ frame' = [frame EXCEPT ![p] = @ + 1]
  /\ UNCHANGED <<sampled, input>>

Next == \E p \in Players : Apply(p) \/ \E v \in Inputs : Sample(p, v)

Spec == Init /\ [][Next]_vars
=============================================================================
