------------------------------ MODULE LockstepN ------------------------------
(***************************************************************************)
(* The host-relay lockstep of sdk/xbl_net.c (xbl_lockstep_n_...) for two   *)
(* to eight consoles.  Guests send their inputs to the host; the host      *)
(* aggregates the inputs of a frame and relays them to every guest it has  *)
(* heard of.  Each console runs the per-frame loop of sdk/xbl_net.h; the   *)
(* network is that of Lockstep2: a datagram is dropped at its send, or it  *)
(* may be read by any later drain, in any order, any number of times.      *)
(***************************************************************************)
EXTENDS Integers, FiniteSets

CONSTANTS
  N,             \* ls->playerCount
  Inputs,        \* the controller states
  Neutral,       \* the state calloc leaves in a buffer slot
  Delay,         \* ls->delay
  MaxFrames,     \* maxFrames of xbl_lockstep_n_init
  MaxInputLoss,  \* bound on the dropped copies of one guest's input for a frame
  MaxAggLoss     \* bound on the dropped copies of one frame's aggregate to a guest

ASSUME PlayersAssumption == N \in Nat /\ N >= 2
ASSUME NeutralAssumption == Neutral \in Inputs
ASSUME LengthAssumption == Delay \in Nat /\ MaxFrames \in Nat \ {0}
ASSUME LossAssumption == MaxInputLoss \in Nat /\ MaxAggLoss \in Nat

Players == 0 .. (N - 1)
Host == 0
Guests == Players \ {Host}

Frames == 0 .. (MaxFrames + Delay)      \* the indices below ls->cap
MatchFrames == 0 .. (MaxFrames - 1)     \* the frames the game plays

InputPackets == [player : Guests, frame : Frames, state : Inputs]
Aggregates == [frame : Frames, states : [Players -> Inputs]]

VARIABLES
  table,      \* table[c][p][f]: ls->in of console c, player p's input for frame f
  known,      \* known[p][f]: ls->known of the host (a guest never uses its own)
  ready,      \* ready[c][f]: ls->ready
  gpeerSet,   \* gpeerSet[g]: the host knows guest g's endpoint
  frame,      \* frame[c]: the f of the game's loop
  phase,      \* phase[c]: where in the loop console c is
  view,       \* history: view[c][f] is what console c stepped its simulation with
  toHost,     \* the input packets that were not dropped
  toGuest,    \* toGuest[g]: the aggregates to g that were not dropped
  lostInput,  \* history: lostInput[g][f] copies of g's input for f were dropped
  lostAgg     \* history: lostAgg[g][f] copies of frame f's aggregate to g were dropped

vars == <<table, known, ready, gpeerSet, frame, phase, view,
          toHost, toGuest, lostInput, lostAgg>>

Silence == [p \in Players |-> Neutral]

\* xbl_lockstep_n_init on every console, and an xbl_lockstep_n_handshake that
\* made any of the guests known to the host: a game may go on whatever it returns.
Init ==
  /\ table = [c \in Players |-> [p \in Players |-> [f \in Frames |-> Neutral]]]
  /\ known = [p \in Players |-> [f \in Frames |-> p = Host /\ f < Delay]]
  /\ ready = [c \in Players |-> [f \in Frames |-> FALSE]]
  /\ gpeerSet \in [Guests -> BOOLEAN]
  /\ frame = [c \in Players |-> 0]
  /\ phase = [c \in Players |-> "record"]
  /\ view = [c \in Players |-> [f \in MatchFrames |-> Silence]]
  /\ toHost = {}
  /\ toGuest = [g \in Guests |-> {}]
  /\ lostInput = [g \in Guests |-> [f \in Frames |-> 0]]
  /\ lostAgg = [g \in Guests |-> [f \in Frames |-> 0]]

\* Wrong variant: the input is recorded for the current frame.
RecordUndelayed(c, state) ==
  /\ phase[c] = "record"
  /\ table' = [table EXCEPT ![c][c][frame[c]] = state]
  /\ known' = IF c = Host THEN [known EXCEPT ![Host][frame[c]] = TRUE] ELSE known
  /\ phase' = [phase EXCEPT ![c] = "pump"]
  /\ UNCHANGED <<ready, gpeerSet, frame, view, toHost, toGuest, lostInput, lostAgg>>

\* xbl_lockstep_n_record_local
RecordLocal(c, state) ==
  /\ phase[c] = "record"
  /\ table' = [table EXCEPT ![c][c][frame[c] + Delay] = state]
  /\ known' = IF c = Host THEN [known EXCEPT ![Host][frame[c] + Delay] = TRUE] ELSE known
  /\ phase' = [phase EXCEPT ![c] = "pump"]
  /\ UNCHANGED <<ready, gpeerSet, frame, view, toHost, toGuest, lostInput, lostAgg>>

\* Wrong variant: the last player is not waited for.
CompleteButLast(f) == \A p \in Players \ {N - 1} : known[p][f]

\* nls_host_complete
Complete(f) == \A p \in Players : known[p][f]

\* xbl_lockstep_n_have
Have(c, f) == IF c = Host THEN Complete(f) ELSE ready[c][f]

\* The frames one pump sends, inside the buffer.
Window(f) == (f .. (f + Delay)) \cap Frames

\* The game pumps once after record_local, then for as long as it waits.
Pumps(c) == phase[c] = "pump" \/ (phase[c] = "wait" /\ ~Have(c, frame[c]))

\* The state the drained packets `arrived` leave for player p's frame f: the
\* copy read last, and every choice of `arrived` is tried.
StateFor(arrived, p, f) ==
  CHOOSE s \in Inputs : [player |-> p, frame |-> f, state |-> s] \in arrived

Heard(arrived, p, f) == \E d \in arrived : d.player = p /\ d.frame = f

\* nls_drain on the host, the inputs: each goes to its guest's row.
HostStore(arrived) ==
  /\ table' = [table EXCEPT ![Host] =
       [p \in Players |-> [f \in Frames |->
         IF Heard(arrived, p, f) THEN StateFor(arrived, p, f) ELSE table[Host][p][f]]]]
  /\ known' = [p \in Players |-> [f \in Frames |-> Heard(arrived, p, f) \/ known[p][f]]]

\* Wrong variant: endpoints are learned in the handshake only.
HostDrainUnlinked(arrived) == UNCHANGED gpeerSet /\ HostStore(arrived)

\* nls_drain on the host: endpoints and inputs of the guests that sent.
HostDrain(arrived) ==
  /\ gpeerSet' = [g \in Guests |-> gpeerSet[g] \/ \E d \in arrived : d.player = g]
  /\ HostStore(arrived)

\* Wrong variant: the relay goes before the drain.
RelayedBeforeDrain == {f \in Window(frame[Host]) : Complete(f)}

\* The frames the host relays, once it has drained.
Relayed == {f \in Window(frame[Host]) : Complete(f)'}

\* The aggregates the host sends, to the guests it knows; the network drops
\* the copies in `dropped`, pairs of a guest and a frame.
Relay(dropped) ==
  /\ \A d \in dropped : d[2] \in Relayed /\ gpeerSet'[d[1]]
  /\ ready' = [ready EXCEPT ![Host] = [f \in Frames |-> f \in Relayed \/ ready[Host][f]]]
  /\ toGuest' = [g \in Guests |->
       IF gpeerSet'[g]
       THEN toGuest[g] \cup
              {[frame |-> f, states |-> [p \in Players |-> table'[Host][p][f]]] :
                 f \in {r \in Relayed : <<g, r>> \notin dropped}}
       ELSE toGuest[g]]
  /\ lostAgg' = [g \in Guests |-> [f \in Frames |->
       IF <<g, f>> \in dropped THEN lostAgg[g][f] + 1 ELSE lostAgg[g][f]]]

\* xbl_lockstep_n_pump on the host: absorb the guests' inputs, then relay.
HostPump(dropped, arrived) ==
  /\ Pumps(Host)
  /\ HostDrain(arrived)
  /\ Relay(dropped)
  /\ phase' = [phase EXCEPT ![Host] = "wait"]
  /\ UNCHANGED <<frame, view, toHost, lostInput>>

\* nls_drain on a guest: an aggregate replaces the inputs of all players.
AggregateFor(arrived, f) ==
  CHOOSE states \in [Players -> Inputs] : [frame |-> f, states |-> states] \in arrived

GuestDrain(g, arrived) ==
  LET heard == {d.frame : d \in arrived} IN
  /\ table' = [table EXCEPT ![g] =
       [p \in Players |-> [f \in Frames |->
         IF f \in heard THEN AggregateFor(arrived, f)[p] ELSE table[g][p][f]]]]
  /\ ready' = [ready EXCEPT ![g] = [f \in Frames |-> f \in heard \/ ready[g][f]]]

\* The input packets a guest sends, of which the network drops `dropped`.
SendInputs(g, dropped) ==
  LET sent == Window(frame[g]) \ dropped IN
  /\ toHost' = toHost \cup
       {[player |-> g, frame |-> f, state |-> table[g][g][f]] : f \in sent}
  /\ lostInput' = [lostInput EXCEPT ![g] =
       [f \in Frames |-> IF f \in dropped THEN @[f] + 1 ELSE @[f]]]

\* xbl_lockstep_n_pump on a guest: send the window to the host, then absorb
\* what the host relayed.
GuestPump(g, dropped, arrived) ==
  /\ Pumps(g)
  /\ SendInputs(g, dropped)
  /\ GuestDrain(g, arrived)
  /\ phase' = [phase EXCEPT ![g] = "wait"]
  /\ UNCHANGED <<known, gpeerSet, frame, view, toGuest, lostAgg>>

\* Wrong variant: every console takes itself for player 0.
LocalFirstInputs(c, f) == [p \in Players |-> table[c][(p + c) % N][f]]

\* xbl_lockstep_n_inputs: the console's row of the table.
FrameInputs(c, f) == [p \in Players |-> table[c][p][f]]

\* The game steps its simulation with the inputs of its frame and goes on.
Apply(c) ==
  /\ phase[c] = "wait"
  /\ Have(c, frame[c])
  /\ view' = [view EXCEPT ![c][frame[c]] = FrameInputs(c, frame[c])]
  /\ frame' = [frame EXCEPT ![c] = @ + 1]
  /\ phase' = [phase EXCEPT ![c] = IF frame[c] + 1 < MaxFrames THEN "record" ELSE "done"]
  /\ UNCHANGED <<table, known, ready, gpeerSet, toHost, toGuest, lostInput, lostAgg>>

RecordSome(c) == \E state \in Inputs : RecordLocal(c, state)

\* The copies the network may still drop, within the bounds.
DroppableAggs ==
  {d \in Guests \X Window(frame[Host]) : lostAgg[d[1]][d[2]] < MaxAggLoss}
DroppableInputs(g) == {f \in Window(frame[g]) : lostInput[g][f] < MaxInputLoss}

HostPumpSome ==
  \E dropped \in SUBSET DroppableAggs, arrived \in SUBSET toHost :
    HostPump(dropped, arrived)

GuestPumpSome(g) ==
  \E dropped \in SUBSET DroppableInputs(g), arrived \in SUBSET toGuest[g] :
    GuestPump(g, dropped, arrived)

Next ==
  \/ HostPumpSome
  \/ \E g \in Guests : GuestPumpSome(g)
  \/ \E c \in Players : RecordSome(c) \/ Apply(c)

Spec == Init /\ [][Next]_vars

\* Pumps that find every surviving datagram in the socket.
HostPumpAll == \E dropped \in SUBSET DroppableAggs : HostPump(dropped, toHost)
GuestPumpAll(g) ==
  \E dropped \in SUBSET DroppableInputs(g) : GuestPump(g, dropped, toGuest[g])

\* Each console keeps running its loop, and a datagram that was not dropped
\* is not delayed for ever.
Fairness ==
  /\ WF_vars(HostPumpAll)
  /\ \A g \in Guests : WF_vars(GuestPumpAll(g))
  /\ \A c \in Players : WF_vars(RecordSome(c)) /\ WF_vars(Apply(c))

FairSpec == Spec /\ Fairness

-----------------------------------------------------------------------------
(* Correctness *)

\* Every buffer holds inputs, indices stay below ls->cap, the loop is in one
\* of its places (XblLockstepN).
TypeOK ==
  /\ table \in [Players -> [Players -> [Frames -> Inputs]]]
  /\ known \in [Players -> [Frames -> BOOLEAN]]
  /\ ready \in [Players -> [Frames -> BOOLEAN]]
  /\ gpeerSet \in [Guests -> BOOLEAN]
  /\ frame \in [Players -> 0 .. MaxFrames]
  /\ phase \in [Players -> {"record", "pump", "wait", "done"}]
  /\ \A c \in Players : phase[c] = "done" <=> frame[c] = MaxFrames
  /\ view \in [Players -> [MatchFrames -> [Players -> Inputs]]]
  /\ toHost \in SUBSET InputPackets
  /\ toGuest \in [Guests -> SUBSET Aggregates]
  /\ lostInput \in [Guests -> [Frames -> Nat]]
  /\ lostAgg \in [Guests -> [Frames -> Nat]]

\* Every console steps a frame with the same inputs for every player, the
\* order the server's replay uses (sdk/xbl_net.h, "the SAME order on every
\* console").
Agreement ==
  \A c, d \in Players, f \in MatchFrames :
    f < frame[c] /\ f < frame[d] => view[c][f] = view[d][f]

\* A guest's input needs no acknowledgement: a guest leaves a frame only after
\* the host has its input for it, so it is still sending any input the host
\* lacks, however many copies were lost (the window of the guest's pump).
InputAcknowledged ==
  \A g \in Guests, f \in MatchFrames : f < frame[g] => known[g][f]

\* Frame f's aggregate to guest g is gone for good: g waits for it, the host
\* is past f and no longer relays it, and no copy survived.
Wedged(g, f) ==
  /\ frame[g] = f
  /\ phase[g] = "wait"
  /\ ~ready[g][f]
  /\ frame[Host] > f
  /\ \A d \in toGuest[g] : d.frame # f

\* A guest is stuck only if the network dropped an aggregate: the host never
\* goes past a frame it has not relayed, to every guest (the drain before the
\* relay in the host's pump, the endpoints learned from the inputs).
RelayedBeforePassed ==
  \A g \in Guests, f \in MatchFrames : Wedged(g, f) => lostAgg[g][f] > 0

\* What the comment in xbl_lockstep_n_pump says of the relay: "delay+1
\* redundancy against UDP loss", so Delay lost copies never stall a guest.
AggregatesAreRedundant ==
  \A g \in Guests, f \in MatchFrames : Wedged(g, f) => lostAgg[g][f] > Delay

\* A frame that is ready stays ready, with the same inputs: no late or repeated
\* datagram rewrites a frame the console may apply or already applied.
ReadyFrameStable ==
  [][\A c \in Players, f \in Frames :
       Have(c, f) => Have(c, f)' /\ FrameInputs(c, f)' = FrameInputs(c, f)]_vars

\* The network has dropped no aggregate.
AggregatesArrive == \A g \in Guests, f \in Frames : lostAgg[g][f] = 0

\* Every console plays the whole match, however many inputs are lost, if no
\* aggregate ever is.
MatchCompletes == []AggregatesArrive => \A c \in Players : <>(phase[c] = "done")

\* The inputs player p has recorded; those for frames below
\* Recorded(p) + Delay are never written again.
Recorded(p) == IF phase[p] \in {"record", "done"} THEN frame[p] ELSE frame[p] + 1

\* The abstract lockstep: a player's inputs are those in its own console's row.
Promise ==
  INSTANCE Lockstep WITH
    input <- [p \in Players |-> table[p][p]],
    sampled <- [p \in Players |-> Recorded(p)]

\* The relay keeps the promise of the two-player link for N consoles.
ImplementsLockstep == Promise!Spec

-----------------------------------------------------------------------------
(* The inductive invariant behind the safety properties *)

\* An input packet carries what its guest will apply, and no longer changes.
InputFixed ==
  \A d \in toHost :
    d.frame < Recorded(d.player) + Delay /\ d.state = table[d.player][d.player][d.frame]

\* What the host knows of a player is what that player recorded.
HostFixed ==
  \A p \in Players, f \in Frames :
    known[p][f] => f < Recorded(p) + Delay /\ table[Host][p][f] = table[p][p][f]

\* A guest whose input the host has is a guest the host can reach.
Linked == \A g \in Guests, f \in Frames : known[g][f] => gpeerSet[g]

\* An aggregate is the host's row of a complete frame.
AggFixed ==
  \A g \in Guests : \A d \in toGuest[g] :
    Complete(d.frame) /\ d.states = FrameInputs(Host, d.frame)

\* A frame that is ready on a guest is complete, and the guest has the host's row.
GuestReady ==
  \A g \in Guests, f \in Frames :
    ready[g][f] => Complete(f) /\ FrameInputs(g, f) = FrameInputs(Host, f)

\* What a console applied is the host's row of a complete frame.
ViewRecorded ==
  \A c \in Players, f \in MatchFrames :
    f < frame[c] => Complete(f) /\ view[c][f] = FrameInputs(Host, f)

\* The host has relayed frame f, or is past it.
Left(f) ==
  f < frame[Host] \/ (f = frame[Host] /\ phase[Host] = "wait" /\ Complete(f))

\* Every guest was sent the aggregate of a frame the host has left or can leave.
PassedRelayed ==
  \A g \in Guests, f \in MatchFrames :
    Left(f) => lostAgg[g][f] > 0 \/ \E d \in toGuest[g] : d.frame = f

IInv ==
  /\ TypeOK
  /\ InputFixed
  /\ HostFixed
  /\ Linked
  /\ AggFixed
  /\ GuestReady
  /\ ViewRecorded
  /\ PassedRelayed
=============================================================================
