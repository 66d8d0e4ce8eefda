------------------------------ MODULE Lockstep2 ------------------------------
(***************************************************************************)
(* The two-player lockstep of sdk/xbl_net.c (xbl_lockstep_...), run by     *)
(* two consoles that follow the per-frame loop of sdk/xbl_net.h:           *)
(*                                                                         *)
(*   record_local(f); pump(f); while (!have(f)) pump(f); inputs(f)         *)
(*                                                                         *)
(* over UDP.  A datagram is dropped at its send, or it survives in `net`   *)
(* for good: any later drain may read it, late, out of order or again.     *)
(* xbl_lockstep_pump is one action, sends and drain together; datagrams    *)
(* that arrive between two calls of recv are those the drain reads.        *)
(***************************************************************************)
EXTENDS Integers, FiniteSets

CONSTANTS
  Inputs,     \* the controller states (uint16_t in the code)
  Neutral,    \* the state calloc leaves in a buffer slot
  Delay,      \* ls->delay
  MaxFrames,  \* maxFrames of xbl_lockstep_init
  MaxLoss     \* MaxLoss[f]: bound on the copies of one player's frame f the network drops

ASSUME InputsAssumption == Neutral \in Inputs
ASSUME DelayAssumption == Delay \in Nat
ASSUME MaxFramesAssumption == MaxFrames \in Nat \ {0}

Players == {0, 1}                       \* ls->role: 0 the host, 1 the guest
Other(p) == 1 - p

Frames == 0 .. (MaxFrames + Delay)      \* the indices below ls->cap
MatchFrames == 0 .. (MaxFrames - 1)     \* the frames the game plays

ASSUME MaxLossAssumption == MaxLoss \in [Frames -> Nat]

Datagrams == [frame : Frames, state : Inputs]

VARIABLES
  mine,       \* mine[p]: ls->mine of console p
  peer,       \* peer[p]: ls->peer
  peerKnown,  \* peerKnown[p]: ls->peerKnown
  frame,      \* frame[p]: the f of the game's loop
  phase,      \* phase[p]: where in the loop console p is
  view,       \* history: view[p][f] is the (s0, s1) console p stepped its simulation with
  net,        \* net[p]: the datagrams of console p that were not dropped
  lost        \* history: lost[p][f] copies of p's frame f were dropped

buffers == <<mine, peer, peerKnown>>
vars == <<mine, peer, peerKnown, frame, phase, view, net, lost>>

Silence == [q \in Players |-> Neutral]

\* xbl_lockstep_init on both consoles, over a link that has nothing in flight.
Init ==
  /\ mine = [p \in Players |-> [f \in Frames |-> Neutral]]
  /\ peer = [p \in Players |-> [f \in Frames |-> Neutral]]
  /\ peerKnown = [p \in Players |-> [f \in Frames |-> FALSE]]
  /\ frame = [p \in Players |-> 0]
  /\ phase = [p \in Players |-> "record"]
  /\ view = [p \in Players |-> [f \in MatchFrames |-> Silence]]
  /\ net = [p \in Players |-> {}]
  /\ lost = [p \in Players |-> [f \in Frames |-> 0]]

\* Wrong variant: the input is recorded for the current frame.
RecordUndelayed(p, state) ==
  /\ phase[p] = "record"
  /\ mine' = [mine EXCEPT ![p][frame[p]] = state]
  /\ phase' = [phase EXCEPT ![p] = "pump"]
  /\ UNCHANGED <<peer, peerKnown, frame, view, net, lost>>

\* xbl_lockstep_record_local: the input is scheduled Delay frames ahead.
RecordLocal(p, state) ==
  /\ phase[p] = "record"
  /\ mine' = [mine EXCEPT ![p][frame[p] + Delay] = state]
  /\ phase' = [phase EXCEPT ![p] = "pump"]
  /\ UNCHANGED <<peer, peerKnown, frame, view, net, lost>>

\* Wrong variant: any newer frame will do.
HaveNewer(p, f) == \E g \in Frames : g >= f /\ peerKnown[p][g]

\* xbl_lockstep_have
Have(p, f) == peerKnown[p][f]

\* Wrong variants: k < delay for k <= delay; only the frame just scheduled.
WindowShort(f) == (f .. (f + Delay - 1)) \cap Frames
WindowScheduled(f) == {f + Delay}

\* The frames one pump sends: frame + delay down to frame, inside the buffer.
Window(f) == (f .. (f + Delay)) \cap Frames

\* The state a drain of `arrived` leaves for frame f.  Which copy is read last
\* is open, and every choice of `arrived` is tried: one copy of each is enough.
StateFor(arrived, f) == CHOOSE s \in Inputs : [frame |-> f, state |-> s] \in arrived

\* ls_drain, when `arrived` is what the socket holds.
Drain(p, arrived) ==
  LET heard == {d.frame : d \in arrived} IN
  /\ peer' = [peer EXCEPT ![p] =
       [f \in Frames |-> IF f \in heard THEN StateFor(arrived, f) ELSE peer[p][f]]]
  /\ peerKnown' = [peerKnown EXCEPT ![p] =
       [f \in Frames |-> f \in heard \/ peerKnown[p][f]]]

\* The sends of xbl_lockstep_pump, of which the network drops `dropped`.
SendWindow(p, dropped) ==
  LET sent == Window(frame[p]) \ dropped IN
  /\ \A f \in dropped : lost[p][f] < MaxLoss[f]
  /\ net' = [net EXCEPT ![p] = @ \cup {[frame |-> f, state |-> mine[p][f]] : f \in sent}]
  /\ lost' = [lost EXCEPT ![p] =
       [f \in Frames |-> IF f \in dropped THEN @[f] + 1 ELSE @[f]]]

\* xbl_lockstep_pump: once after record_local, then for as long as the game
\* waits for the peer's frame.
Pump(p, dropped, arrived) ==
  /\ phase[p] = "pump" \/ (phase[p] = "wait" /\ ~Have(p, frame[p]))
  /\ SendWindow(p, dropped)
  /\ Drain(p, arrived)
  /\ phase' = [phase EXCEPT ![p] = "wait"]
  /\ UNCHANGED <<mine, frame, view>>

\* Wrong variant: each side takes itself for the host.
UnorderedInputs(p, f) ==
  [q \in Players |-> IF q = 0 THEN mine[p][f] ELSE peer[p][f]]

\* xbl_lockstep_inputs: (s0, s1) are host and guest on either side.
OrderedInputs(p, f) ==
  [q \in Players |-> IF q = p THEN mine[p][f] ELSE peer[p][f]]

\* The game steps its simulation with the inputs of its frame and goes on.
Apply(p) ==
  /\ phase[p] = "wait"
  /\ Have(p, frame[p])
  /\ view' = [view EXCEPT ![p][frame[p]] = OrderedInputs(p, frame[p])]
  /\ frame' = [frame EXCEPT ![p] = @ + 1]
  /\ phase' = [phase EXCEPT ![p] = IF frame[p] + 1 < MaxFrames THEN "record" ELSE "done"]
  /\ UNCHANGED <<mine, peer, peerKnown, net, lost>>

PumpSome(p) ==
  \E dropped \in SUBSET Window(frame[p]), arrived \in SUBSET net[Other(p)] :
    Pump(p, dropped, arrived)

RecordSome(p) == \E state \in Inputs : RecordLocal(p, state)

Next == \E p \in Players : RecordSome(p) \/ PumpSome(p) \/ Apply(p)

Spec == Init /\ [][Next]_vars

\* A pump that finds every surviving datagram of the peer in the socket.
PumpAll(p) ==
  \E dropped \in SUBSET Window(frame[p]) : Pump(p, dropped, net[Other(p)])

\* Each console keeps running its loop, and a datagram that was not dropped
\* is not delayed for ever.
Fairness ==
  \A p \in Players : WF_vars(RecordSome(p)) /\ WF_vars(PumpAll(p)) /\ WF_vars(Apply(p))

FairSpec == Spec /\ Fairness

-----------------------------------------------------------------------------
(* Correctness *)

\* Every buffer holds inputs, indices stay below ls->cap, the loop is in one
\* of its places (XblLockstep, the loop of sdk/xbl_net.h).
TypeOK ==
  /\ mine \in [Players -> [Frames -> Inputs]]
  /\ peer \in [Players -> [Frames -> Inputs]]
  /\ peerKnown \in [Players -> [Frames -> BOOLEAN]]
  /\ frame \in [Players -> 0 .. MaxFrames]
  /\ phase \in [Players -> {"record", "pump", "wait", "done"}]
  /\ \A p \in Players : phase[p] = "done" <=> frame[p] = MaxFrames
  /\ view \in [Players -> [MatchFrames -> [Players -> Inputs]]]
  /\ net \in [Players -> SUBSET Datagrams]
  /\ lost \in [Players -> [Frames -> Nat]]

\* The two simulations never desync: both consoles stepped every frame both
\* have played with the same (s0, s1) (sdk/xbl_net.h, "the two simulations can
\* never desync").
Agreement ==
  \A f \in MatchFrames :
    (\A p \in Players : f < frame[p]) => view[0][f] = view[1][f]

\* A console runs ahead of its peer by Delay + 1 frames at most: it cannot
\* apply a frame the peer has not scheduled an input for.
SkewBound == \A p \in Players : frame[p] <= frame[Other(p)] + Delay + 1

\* The peer's frame-f datagram is gone for good: p waits for it, the peer is
\* past the frames whose window holds f, and no copy survived.
Wedged(p, f) ==
  /\ frame[p] = f
  /\ phase[p] = "wait"
  /\ ~Have(p, f)
  /\ frame[Other(p)] > f
  /\ \A d \in net[Other(p)] : d.frame # f

\* How many lost copies a frame survives: the pumps of the frames f-Delay..f
\* send it, and there is no frame before 0.
Tolerated(f) == IF f < Delay THEN f ELSE Delay

\* A match stalls for good at frame f only if the network dropped more than
\* Tolerated(f) copies of that frame (the redundancy of xbl_lockstep_pump).
LossTolerance ==
  \A p \in Players, f \in MatchFrames :
    Wedged(p, f) => lost[Other(p)][f] > Tolerated(f)

\* A peer input that is known is final: no late, duplicated or reordered
\* datagram changes what xbl_lockstep_inputs returns for it.
KnownInputStable ==
  [][\A p \in Players, f \in Frames :
       peerKnown[p][f] => peerKnown'[p][f] /\ peer'[p][f] = peer[p][f]]_vars

\* No frame has lost more copies than the redundancy covers.
LossCovered == \A p \in Players, f \in Frames : lost[p][f] <= Tolerated(f)

\* Both consoles play the whole match, if the losses stay covered for good.
MatchCompletes == []LossCovered => \A p \in Players : <>(phase[p] = "done")

\* The inputs player p has recorded; those for frames below
\* Recorded(p) + Delay are never written again.
Recorded(p) == IF phase[p] \in {"record", "done"} THEN frame[p] ELSE frame[p] + 1

\* The abstract lockstep: a player has sampled the frame it is on once it has
\* recorded it.
Promise ==
  INSTANCE Lockstep WITH
    input <- mine,
    sampled <- [p \in Players |-> Recorded(p)]

\* The link implements the promise: an input is applied exactly Delay frames
\* after it was sampled, warm-up frames are neutral, and no frame is applied
\* before every input of it is fixed.
ImplementsLockstep == Promise!Spec

-----------------------------------------------------------------------------
(* The inductive invariant behind the safety properties *)

\* A datagram carries what its sender will apply, and no longer changes.
NetFixed ==
  \A p \in Players : \A d \in net[p] :
    d.frame < Recorded(p) + Delay /\ d.state = mine[p][d.frame]

\* What a console knows of its peer is what the peer will apply.
KnownFixed ==
  \A p \in Players, f \in Frames :
    peerKnown[p][f] =>
      f < Recorded(Other(p)) + Delay /\ peer[p][f] = mine[Other(p)][f]

\* What a console applied is what both players recorded.
ViewRecorded ==
  \A p \in Players, f \in MatchFrames :
    f < frame[p] =>
      /\ f < Recorded(Other(p)) + Delay
      /\ view[p][f] = [q \in Players |-> mine[q][f]]

\* The frames console p has pumped at least once are those below Pumped(p).
Pumped(p) == IF phase[p] = "wait" THEN frame[p] + 1 ELSE frame[p]

\* How many of the frames 0 .. Pumped(p)-1 have f in their window.
Covered(p, f) ==
  LET first == f - Tolerated(f) IN
  IF Pumped(p) <= first THEN 0
  ELSE IF Pumped(p) <= f THEN Pumped(p) - first
  ELSE Tolerated(f) + 1

\* A frame of which no copy survived has lost every copy these pumps sent.
Counted(p, f) == (\A d \in net[p] : d.frame # f) => lost[p][f] >= Covered(p, f)

LossCounted == \A p \in Players, f \in Frames : Counted(p, f)

\* No console has or will see another input than its peer applies.
LinkInv == TypeOK /\ NetFixed /\ KnownFixed /\ ViewRecorded

IInv == LinkInv /\ LossCounted
=============================================================================
