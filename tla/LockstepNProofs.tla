--------------------------- MODULE LockstepNProofs ---------------------------
(***************************************************************************)
(* Proofs about the host-relay lockstep and its handshake, for every       *)
(* number of players, delay, match length, pattern of loss and set of      *)
(* inputs.                                                                 *)
(***************************************************************************)
EXTENDS HandshakeN, TLAPS

LEMMA HostPlayer == Host \in Players /\ Host \notin Guests
BY PlayersAssumption DEF Host, Players, Guests

LEMMA GuestPlayer == \A g \in Guests : g \in Players /\ g # Host
BY DEF Guests

\* A scheduled frame and a window lie inside the buffer.
LEMMA ScheduleInBuffer ==
  ASSUME NEW f \in 0 .. MaxFrames, f # MaxFrames
  PROVE  /\ f + Delay \in Frames
         /\ f \in MatchFrames
         /\ f \in Frames
         /\ Window(f) = f .. (f + Delay)
BY LengthAssumption DEF Frames, MatchFrames, Window

LEMMA MatchFramesInBuffer == \A f \in MatchFrames : f \in Frames
BY LengthAssumption DEF Frames, MatchFrames

\* The state a drain leaves is one of an input packet it read.
LEMMA StateForHeard ==
  ASSUME NEW arrived \in SUBSET InputPackets, NEW p, NEW f, Heard(arrived, p, f)
  PROVE  /\ StateFor(arrived, p, f) \in Inputs
         /\ [player |-> p, frame |-> f, state |-> StateFor(arrived, p, f)] \in arrived
<1>1. PICK d \in arrived : d.player = p /\ d.frame = f
  BY DEF Heard
<1>2. d.state \in Inputs /\ d = [player |-> p, frame |-> f, state |-> d.state]
  BY <1>1 DEF InputPackets
<1>3. \E s \in Inputs : [player |-> p, frame |-> f, state |-> s] \in arrived
  BY <1>2
<1> QED
  BY <1>3, Zenon DEF StateFor

\* The row a drain leaves is one of an aggregate it read.
LEMMA AggregateHeard ==
  ASSUME NEW arrived \in SUBSET Aggregates, NEW d \in arrived
  PROVE  /\ AggregateFor(arrived, d.frame) \in [Players -> Inputs]
         /\ [frame |-> d.frame, states |-> AggregateFor(arrived, d.frame)] \in arrived
<1>1. d.states \in [Players -> Inputs] /\ d = [frame |-> d.frame, states |-> d.states]
  BY DEF Aggregates
<1>2. \E s \in [Players -> Inputs] : [frame |-> d.frame, states |-> s] \in arrived
  BY <1>1
<1> QED
  BY <1>2, Zenon DEF AggregateFor

-----------------------------------------------------------------------------
(* Type correctness *)

LEMMA TypeInit == Init => TypeOK
BY NeutralAssumption, LengthAssumption, HostPlayer
DEF Init, TypeOK, Players, MatchFrames, Silence

LEMMA TypeRecord ==
  ASSUME TypeOK, NEW c \in Players, NEW state \in Inputs, RecordLocal(c, state)
  PROVE  TypeOK'
<1>1. frame[c] \in 0 .. MaxFrames /\ frame[c] # MaxFrames
  BY DEF TypeOK, RecordLocal
<1>2. frame[c] + Delay \in Frames
  BY <1>1, ScheduleInBuffer
<1>3. table' \in [Players -> [Players -> [Frames -> Inputs]]]
  BY <1>2 DEF TypeOK, RecordLocal
<1>4. known' \in [Players -> [Frames -> BOOLEAN]]
  BY <1>2, HostPlayer DEF TypeOK, RecordLocal
<1>5. phase' \in [Players -> {"record", "pump", "wait", "done"}]
  BY DEF TypeOK, RecordLocal
<1>6. \A q \in Players : phase'[q] = "done" <=> frame'[q] = MaxFrames
  BY <1>1 DEF TypeOK, RecordLocal
<1> QED
  BY <1>3, <1>4, <1>5, <1>6 DEF TypeOK, RecordLocal

LEMMA TypeHostPump ==
  ASSUME TypeOK, NEW dropped \in SUBSET DroppableAggs, NEW arrived \in SUBSET toHost,
         HostPump(dropped, arrived)
  PROVE  TypeOK'
<1>1. frame[Host] \in 0 .. MaxFrames /\ frame[Host] # MaxFrames
  BY HostPlayer DEF TypeOK, HostPump, Pumps
<1>2. arrived \in SUBSET InputPackets
  BY DEF TypeOK
<1>3. table' \in [Players -> [Players -> [Frames -> Inputs]]]
  <2>1. \A p \in Players, f \in Frames :
          (IF Heard(arrived, p, f) THEN StateFor(arrived, p, f) ELSE table[Host][p][f])
            \in Inputs
    <3> SUFFICES ASSUME NEW p \in Players, NEW f \in Frames
                 PROVE  /\ Heard(arrived, p, f) => StateFor(arrived, p, f) \in Inputs
                        /\ table[Host][p][f] \in Inputs
      OBVIOUS
    <3>1. Heard(arrived, p, f) => StateFor(arrived, p, f) \in Inputs
      BY <1>2, StateForHeard
    <3>2. table[Host][p][f] \in Inputs
      BY HostPlayer DEF TypeOK
    <3> QED
      BY <3>1, <3>2
  <2> QED
    BY <2>1, HostPlayer DEF TypeOK, HostPump, HostDrain, HostStore
<1>4. known' \in [Players -> [Frames -> BOOLEAN]]
  BY DEF TypeOK, HostPump, HostDrain, HostStore, Heard
<1>5. gpeerSet' \in [Guests -> BOOLEAN]
  BY DEF TypeOK, HostPump, HostDrain, HostStore
<1>6. ready' \in [Players -> [Frames -> BOOLEAN]]
  BY HostPlayer DEF TypeOK, HostPump, Relay
<1>7. toGuest' \in [Guests -> SUBSET Aggregates]
  <2>1. \A f \in Relayed :
          [frame |-> f, states |-> [p \in Players |-> table'[Host][p][f]]] \in Aggregates
    BY <1>3, HostPlayer DEF Relayed, Window, Aggregates
  <2> QED
    BY <2>1 DEF TypeOK, HostPump, Relay
<1>8. lostAgg' \in [Guests -> [Frames -> Nat]]
  BY DEF TypeOK, HostPump, Relay
<1>9. phase' \in [Players -> {"record", "pump", "wait", "done"}]
  BY DEF TypeOK, HostPump
<1>10. \A q \in Players : phase'[q] = "done" <=> frame'[q] = MaxFrames
  BY <1>1 DEF TypeOK, HostPump
<1> QED
  BY <1>3, <1>4, <1>5, <1>6, <1>7, <1>8, <1>9, <1>10 DEF TypeOK, HostPump

LEMMA TypeGuestPump ==
  ASSUME TypeOK, NEW g \in Guests, NEW dropped \in SUBSET DroppableInputs(g),
         NEW arrived \in SUBSET toGuest[g], GuestPump(g, dropped, arrived)
  PROVE  TypeOK'
<1>1. frame[g] \in 0 .. MaxFrames /\ frame[g] # MaxFrames
  BY GuestPlayer DEF TypeOK, GuestPump, Pumps
<1>2. arrived \in SUBSET Aggregates
  BY DEF TypeOK
<1> DEFINE heard == {d.frame : d \in arrived}
<1>3. table' \in [Players -> [Players -> [Frames -> Inputs]]]
  <2>1. \A p \in Players, f \in Frames :
          (IF f \in heard THEN AggregateFor(arrived, f)[p] ELSE table[g][p][f]) \in Inputs
    <3> SUFFICES ASSUME NEW p \in Players, NEW f \in Frames
                 PROVE  /\ f \in heard => AggregateFor(arrived, f)[p] \in Inputs
                        /\ table[g][p][f] \in Inputs
      OBVIOUS
    <3>1. ASSUME f \in heard PROVE AggregateFor(arrived, f)[p] \in Inputs
      <4>1. PICK d \in arrived : d.frame = f
        BY <3>1
      <4>2. AggregateFor(arrived, f) \in [Players -> Inputs]
        BY <1>2, <4>1, AggregateHeard
      <4> QED
        BY <4>2
    <3>2. table[g][p][f] \in Inputs
      BY GuestPlayer DEF TypeOK
    <3> QED
      BY <3>1, <3>2
  <2> QED
    BY <2>1, GuestPlayer DEF TypeOK, GuestPump, GuestDrain
<1>4. ready' \in [Players -> [Frames -> BOOLEAN]]
  BY GuestPlayer DEF TypeOK, GuestPump, GuestDrain
<1>5. toHost' \in SUBSET InputPackets
  <2>1. \A f \in Window(frame[g]) :
          [player |-> g, frame |-> f, state |-> table[g][g][f]] \in InputPackets
    BY GuestPlayer DEF TypeOK, Window, InputPackets
  <2> QED
    BY <2>1 DEF TypeOK, GuestPump, SendInputs
<1>6. lostInput' \in [Guests -> [Frames -> Nat]]
  BY DEF TypeOK, GuestPump, SendInputs
<1>7. phase' \in [Players -> {"record", "pump", "wait", "done"}]
  BY DEF TypeOK, GuestPump
<1>8. \A q \in Players : phase'[q] = "done" <=> frame'[q] = MaxFrames
  BY <1>1 DEF TypeOK, GuestPump
<1> QED
  BY <1>3, <1>4, <1>5, <1>6, <1>7, <1>8 DEF TypeOK, GuestPump

LEMMA TypeApply ==
  ASSUME TypeOK, NEW c \in Players, Apply(c)
  PROVE  TypeOK'
<1>1. frame[c] \in 0 .. MaxFrames /\ frame[c] # MaxFrames
  BY DEF TypeOK, Apply
<1>2. frame[c] \in MatchFrames /\ frame[c] \in Frames /\ frame[c] + 1 \in 0 .. MaxFrames
  BY <1>1, ScheduleInBuffer, LengthAssumption
<1>3. FrameInputs(c, frame[c]) \in [Players -> Inputs]
  BY <1>2 DEF TypeOK, FrameInputs
<1>4. view' \in [Players -> [MatchFrames -> [Players -> Inputs]]]
  BY <1>2, <1>3 DEF TypeOK, Apply
<1>5. frame' \in [Players -> 0 .. MaxFrames]
  BY <1>2 DEF TypeOK, Apply
<1>6. phase' \in [Players -> {"record", "pump", "wait", "done"}]
  BY DEF TypeOK, Apply
<1>7. \A q \in Players : phase'[q] = "done" <=> frame'[q] = MaxFrames
  <2>1. /\ phase'[c] = (IF frame[c] + 1 < MaxFrames THEN "record" ELSE "done")
        /\ frame'[c] = frame[c] + 1
    BY DEF TypeOK, Apply
  <2>2. phase'[c] = "done" <=> frame'[c] = MaxFrames
    BY <1>1, <2>1, LengthAssumption
  <2>3. \A q \in Players : q # c => phase'[q] = phase[q] /\ frame'[q] = frame[q]
    BY DEF TypeOK, Apply
  <2> QED
    BY <2>2, <2>3 DEF TypeOK
<1> QED
  BY <1>4, <1>5, <1>6, <1>7 DEF TypeOK, Apply

LEMMA TypeStep == TypeOK /\ [Next]_vars => TypeOK'
<1> SUFFICES ASSUME TypeOK, [Next]_vars PROVE TypeOK'
  OBVIOUS
<1>1. CASE UNCHANGED vars
  BY <1>1 DEF vars, TypeOK
<1>2. CASE HostPumpSome
  BY <1>2, TypeHostPump DEF HostPumpSome
<1>3. ASSUME NEW g \in Guests, GuestPumpSome(g) PROVE TypeOK'
  BY <1>3, TypeGuestPump DEF GuestPumpSome
<1>4. ASSUME NEW c \in Players, RecordSome(c) PROVE TypeOK'
  BY <1>4, TypeRecord DEF RecordSome
<1>5. ASSUME NEW c \in Players, Apply(c) PROVE TypeOK'
  BY <1>5, TypeApply
<1> QED
  BY <1>1, <1>2, <1>3, <1>4, <1>5 DEF Next

\* Every buffer index stays below ls->cap and every buffer holds inputs, in
\* every match of any number of players (XblLockstepN).
THEOREM TypeCorrect == Spec => []TypeOK
BY TypeInit, TypeStep, PTL DEF Spec

-----------------------------------------------------------------------------
(* What every step keeps *)

\* A complete frame stays complete with the same inputs, and no recorded input
\* is written again.
Keeps ==
  /\ \A f \in Frames :
       Complete(f) => Complete(f)' /\ FrameInputs(Host, f)' = FrameInputs(Host, f)
  /\ \A p \in Players : Recorded(p)' >= Recorded(p)
  /\ \A p \in Players, f \in Frames :
       f < Recorded(p) + Delay => table'[p][p][f] = table[p][p][f]

LEMMA RecordedInt == TypeOK => \A p \in Players : Recorded(p) \in Int
BY LengthAssumption DEF TypeOK, Recorded

LEMMA FramesInt == \A f \in Frames : f \in Int
BY LengthAssumption DEF Frames

LEMMA CompleteFixed ==
  ASSUME HostFixed, NEW f \in Frames, Complete(f), NEW p \in Players
  PROVE  f < Recorded(p) + Delay /\ table[Host][p][f] = table[p][p][f]
BY DEF HostFixed, Complete

LEMMA RecordKeeps ==
  ASSUME IInv, NEW c \in Players, NEW state \in Inputs, RecordLocal(c, state)
  PROVE  Keeps /\ Recorded(c) = frame[c] /\ Recorded(c)' = frame[c] + 1
<1> USE DEF IInv
<1>1. phase[c] = "record" /\ phase'[c] = "pump" /\ frame' = frame
  BY DEF TypeOK, RecordLocal
<1>2. \A p \in Players : p # c => phase'[p] = phase[p]
  BY DEF TypeOK, RecordLocal
<1>3. Recorded(c) = frame[c] /\ Recorded(c)' = frame[c] + 1
  BY <1>1 DEF Recorded
<1>4. \A p \in Players : Recorded(p)' >= Recorded(p)
  <2>1. \A p \in Players : p # c => Recorded(p)' = Recorded(p)
    BY <1>1, <1>2 DEF Recorded
  <2> QED
    BY <1>3, <2>1, RecordedInt
<1>5. \A p, q \in Players, f \in Frames :
        f < Recorded(p) + Delay => table'[q][p][f] = table[q][p][f]
  <2> SUFFICES ASSUME NEW p \in Players, NEW q \in Players, NEW f \in Frames,
                      f < Recorded(p) + Delay
               PROVE  table'[q][p][f] = table[q][p][f]
    OBVIOUS
  <2>1. CASE p = c /\ q = c
    <3>1. f # frame[c] + Delay
      BY <1>3, <2>1, RecordedInt, FramesInt, LengthAssumption
    <3>2. frame[c] + Delay \in Frames
      <4>1. frame[c] \in 0 .. MaxFrames /\ frame[c] # MaxFrames
        BY <1>1 DEF TypeOK
      <4> QED
        BY <4>1, ScheduleInBuffer
    <3> QED
      BY <2>1, <3>1, <3>2 DEF TypeOK, RecordLocal
  <2>2. CASE ~(p = c /\ q = c)
    BY <2>2 DEF TypeOK, RecordLocal
  <2> QED
    BY <2>1, <2>2
<1>6. \A f \in Frames : Complete(f) => Complete(f)'
  BY HostPlayer DEF TypeOK, RecordLocal, Complete
<1>7. ASSUME NEW f \in Frames, Complete(f)
      PROVE  FrameInputs(Host, f)' = FrameInputs(Host, f)
  <2>1. \A p \in Players : f < Recorded(p) + Delay
    BY <1>7, CompleteFixed
  <2>2. \A p \in Players : table'[Host][p][f] = table[Host][p][f]
    BY <1>5, <2>1, HostPlayer
  <2> QED
    BY <2>2 DEF FrameInputs
<1> QED
  BY <1>3, <1>4, <1>5, <1>6, <1>7 DEF Keeps

\* A drained input is the one its guest recorded, whatever arrived.
LEMMA HostPumpKeeps ==
  ASSUME IInv, NEW dropped \in SUBSET DroppableAggs, NEW arrived \in SUBSET toHost,
         HostPump(dropped, arrived)
  PROVE  /\ Keeps
         /\ \A p \in Players : Recorded(p)' = Recorded(p)
         /\ \A p \in Players : table'[p][p] = table[p][p]
         /\ \A p \in Players, f \in Frames :
              Heard(arrived, p, f) =>
                /\ p \in Guests
                /\ f < Recorded(p) + Delay
                /\ table'[Host][p][f] = table[p][p][f]
<1> USE DEF IInv
<1>1. phase[Host] \in {"pump", "wait"} /\ phase'[Host] = "wait" /\ frame' = frame
  BY HostPlayer DEF TypeOK, HostPump, Pumps
<1>2. \A p \in Players : p # Host => phase'[p] = phase[p]
  BY DEF TypeOK, HostPump
<1>3. \A p \in Players : Recorded(p)' = Recorded(p)
  BY <1>1, <1>2 DEF Recorded
<1>4. ASSUME NEW p \in Players, NEW f \in Frames, Heard(arrived, p, f)
      PROVE  /\ p \in Guests
             /\ f < Recorded(p) + Delay
             /\ StateFor(arrived, p, f) = table[p][p][f]
  <2>1. arrived \in SUBSET InputPackets
    BY DEF TypeOK
  <2>2. [player |-> p, frame |-> f, state |-> StateFor(arrived, p, f)] \in arrived
    BY <1>4, <2>1, StateForHeard
  <2>3. PICK d \in arrived : d.player = p
    BY <1>4 DEF Heard
  <2>4. p \in Guests
    BY <2>1, <2>3 DEF InputPackets
  <2> QED
    BY <2>2, <2>4 DEF InputFixed
<1>5. \A p \in Players, f \in Frames :
        table'[Host][p][f] =
          IF Heard(arrived, p, f) THEN StateFor(arrived, p, f) ELSE table[Host][p][f]
  BY HostPlayer DEF TypeOK, HostPump, HostDrain, HostStore
<1>6. \A p \in Players : p # Host => table'[p] = table[p]
  BY DEF TypeOK, HostPump, HostDrain, HostStore
<1>7. \A p \in Players : table'[p][p] = table[p][p]
  <2>1. \A f \in Frames : table'[Host][Host][f] = table[Host][Host][f]
    BY <1>4, <1>5, HostPlayer
  <2>2. table[Host][Host] \in [Frames -> Inputs] /\ table'[Host][Host] \in [Frames -> Inputs]
    <3>1. TypeOK'
      BY TypeHostPump
    <3> QED
      BY <3>1, HostPlayer DEF TypeOK
  <2>3. table'[Host][Host] = table[Host][Host]
    BY <2>1, <2>2
  <2> QED
    BY <1>6, <2>3
<1>8. \A f \in Frames : Complete(f) => Complete(f)'
  BY DEF HostPump, HostDrain, HostStore, Complete
<1>9. ASSUME NEW f \in Frames, Complete(f)
      PROVE  FrameInputs(Host, f)' = FrameInputs(Host, f)
  <2>1. \A p \in Players : table'[Host][p][f] = table[Host][p][f]
    BY <1>4, <1>5, <1>9, CompleteFixed
  <2> QED
    BY <2>1 DEF FrameInputs
<1> QED
  BY <1>3, <1>4, <1>5, <1>7, <1>8, <1>9, RecordedInt DEF Keeps

\* An aggregate gives the guest back the input the guest recorded.
LEMMA GuestPumpKeeps ==
  ASSUME IInv, NEW g \in Guests, NEW dropped \in SUBSET DroppableInputs(g),
         NEW arrived \in SUBSET toGuest[g], GuestPump(g, dropped, arrived)
  PROVE  /\ Keeps
         /\ \A p \in Players : Recorded(p)' = Recorded(p)
         /\ Recorded(g) = frame[g] + 1
         /\ \A p \in Players : table'[p][p] = table[p][p]
         /\ table'[Host] = table[Host]
         /\ \A f \in Frames :
              (\E d \in arrived : d.frame = f) =>
                Complete(f) /\ FrameInputs(g, f)' = FrameInputs(Host, f)
         /\ \A f \in Frames :
              (\A d \in arrived : d.frame # f) =>
                FrameInputs(g, f)' = FrameInputs(g, f)
<1> USE DEF IInv
<1> DEFINE heard == {d.frame : d \in arrived}
<1>1. phase[g] \in {"pump", "wait"} /\ phase'[g] = "wait" /\ frame' = frame
  BY GuestPlayer DEF TypeOK, GuestPump, Pumps
<1>2. \A p \in Players : p # g => phase'[p] = phase[p]
  BY DEF TypeOK, GuestPump
<1>3. (\A p \in Players : Recorded(p)' = Recorded(p)) /\ Recorded(g) = frame[g] + 1
  BY <1>1, <1>2 DEF Recorded
<1>4. ASSUME NEW f \in Frames, f \in heard
      PROVE  Complete(f) /\ AggregateFor(arrived, f) = FrameInputs(Host, f)
  <2>1. arrived \in SUBSET Aggregates
    BY DEF TypeOK
  <2>2. PICK d \in arrived : d.frame = f
    BY <1>4
  <2>3. [frame |-> f, states |-> AggregateFor(arrived, f)] \in arrived
    BY <2>1, <2>2, AggregateHeard
  <2> QED
    BY <2>3 DEF AggFixed
<1>5. \A p \in Players, f \in Frames :
        table'[g][p][f] =
          IF f \in heard THEN AggregateFor(arrived, f)[p] ELSE table[g][p][f]
  BY GuestPlayer DEF TypeOK, GuestPump, GuestDrain
<1>6. \A p \in Players : p # g => table'[p] = table[p]
  BY DEF TypeOK, GuestPump, GuestDrain
<1>7. \A p \in Players : table'[p][p] = table[p][p]
  <2>1. ASSUME NEW f \in Frames PROVE table'[g][g][f] = table[g][g][f]
    <3>1. CASE f \in heard
      <4>1. table'[g][g][f] = FrameInputs(Host, f)[g]
        BY <1>4, <1>5, <3>1, GuestPlayer
      <4>2. FrameInputs(Host, f)[g] = table[Host][g][f]
        BY GuestPlayer DEF FrameInputs
      <4>3. table[Host][g][f] = table[g][g][f]
        BY <1>4, <3>1, CompleteFixed, GuestPlayer
      <4> QED
        BY <4>1, <4>2, <4>3
    <3>2. CASE f \notin heard
      BY <1>5, <3>2, GuestPlayer
    <3> QED
      BY <3>1, <3>2
  <2>2. table[g][g] \in [Frames -> Inputs] /\ table'[g][g] \in [Frames -> Inputs]
    <3>1. TypeOK'
      BY TypeGuestPump
    <3> QED
      BY <3>1, GuestPlayer DEF TypeOK
  <2>3. table'[g][g] = table[g][g]
    BY <2>1, <2>2
  <2> QED
    BY <1>6, <2>3
<1>8. table'[Host] = table[Host] /\ known' = known
  BY <1>6, GuestPlayer, HostPlayer DEF GuestPump
<1>9. ASSUME NEW f \in Frames
      PROVE  /\ f \in heard =>
                  Complete(f) /\ FrameInputs(g, f)' = FrameInputs(Host, f)
             /\ f \notin heard => FrameInputs(g, f)' = FrameInputs(g, f)
  <2>1. CASE f \in heard
    <3>1. \A p \in Players : table'[g][p][f] = FrameInputs(Host, f)[p]
      BY <1>4, <1>5, <2>1
    <3> QED
      BY <1>4, <2>1, <3>1 DEF FrameInputs
  <2>2. CASE f \notin heard
    BY <1>5, <2>2 DEF FrameInputs
  <2> QED
    BY <2>1, <2>2
<1>10. Keeps
  BY <1>3, <1>7, <1>8, RecordedInt DEF Keeps, Complete, FrameInputs
<1> QED
  BY <1>3, <1>7, <1>8, <1>9, <1>10

LEMMA ApplyKeeps ==
  ASSUME IInv, NEW c \in Players, Apply(c)
  PROVE  /\ Keeps
         /\ \A p \in Players : Recorded(p)' = Recorded(p)
         /\ Recorded(c) = frame[c] + 1
<1>1. phase[c] = "wait" /\ phase'[c] \in {"record", "done"} /\ frame'[c] = frame[c] + 1
  BY DEF IInv, TypeOK, Apply
<1>2. \A p \in Players : p # c => phase'[p] = phase[p] /\ frame'[p] = frame[p]
  BY DEF IInv, TypeOK, Apply
<1>3. (\A p \in Players : Recorded(p)' = Recorded(p)) /\ Recorded(c) = frame[c] + 1
  BY <1>1, <1>2 DEF Recorded
<1> QED
  BY <1>3, RecordedInt DEF IInv, Keeps, Apply, Complete, FrameInputs

-----------------------------------------------------------------------------
(* The inductive invariant *)

\* The parts that only need the recorded inputs and complete frames to stay:
\* their premises do not grow.
LEMMA KeepsInputFixed ==
  ASSUME IInv, Keeps, TypeOK', toHost' = toHost
  PROVE  InputFixed'
<1> SUFFICES ASSUME NEW d \in toHost
             PROVE  /\ d.frame < Recorded(d.player)' + Delay
                    /\ d.state = table'[d.player][d.player][d.frame]
  BY DEF InputFixed
<1>1. d.player \in Players /\ d.frame \in Frames
  BY GuestPlayer DEF IInv, TypeOK, InputPackets
<1>2. /\ d.frame < Recorded(d.player) + Delay
      /\ d.state = table[d.player][d.player][d.frame]
  BY DEF IInv, InputFixed
<1>3. Recorded(d.player) \in Int /\ d.frame \in Int
  BY <1>1, RecordedInt, FramesInt DEF IInv
<1>4. Recorded(d.player)' \in Int
  BY <1>1, LengthAssumption DEF TypeOK, Recorded
<1>5. Recorded(d.player)' >= Recorded(d.player)
  BY <1>1 DEF Keeps
<1> QED
  BY <1>1, <1>2, <1>3, <1>4, <1>5, LengthAssumption DEF Keeps

LEMMA KeepsAggFixed ==
  ASSUME IInv, Keeps, toGuest' = toGuest
  PROVE  AggFixed'
<1>1. \A g \in Guests : \A d \in toGuest[g] : d.frame \in Frames
  BY DEF IInv, TypeOK, Aggregates
<1> QED
  BY <1>1 DEF IInv, AggFixed, Keeps

LEMMA KeepsViewRecorded ==
  ASSUME IInv, Keeps, UNCHANGED <<frame, view>>
  PROVE  ViewRecorded'
BY MatchFramesInBuffer DEF IInv, ViewRecorded, Keeps

LEMMA IInvInit == Init => IInv
<1> SUFFICES ASSUME Init PROVE IInv
  OBVIOUS
<1>1. TypeOK
  BY TypeInit
<1>2. \A p \in Players : Recorded(p) = 0 /\ frame[p] = 0 /\ phase[p] = "record"
  BY DEF Init, Recorded
<1>3. InputFixed /\ AggFixed
  BY DEF Init, InputFixed, AggFixed
<1>4. HostFixed
  <2> SUFFICES ASSUME NEW p \in Players, NEW f \in Frames, known[p][f]
               PROVE  f < Recorded(p) + Delay /\ table[Host][p][f] = table[p][p][f]
    BY DEF HostFixed
  <2>1. p = Host /\ f < Delay
    BY DEF Init
  <2> QED
    BY <1>2, <2>1, LengthAssumption
<1>5. Linked
  BY GuestPlayer DEF Init, Linked
<1>6. GuestReady
  BY GuestPlayer DEF Init, GuestReady
<1>7. ViewRecorded
  BY <1>2 DEF ViewRecorded, MatchFrames
<1>8. PassedRelayed
  BY <1>2, HostPlayer DEF PassedRelayed, Left, MatchFrames
<1> QED
  BY <1>1, <1>3, <1>4, <1>5, <1>6, <1>7, <1>8 DEF IInv

LEMMA IInvRecord ==
  ASSUME IInv, NEW c \in Players, NEW state \in Inputs, RecordLocal(c, state)
  PROVE  IInv'
<1> USE DEF IInv
<1>1. TypeOK'
  BY TypeRecord
<1>2. Keeps /\ Recorded(c) = frame[c] /\ Recorded(c)' = frame[c] + 1
  BY RecordKeeps
<1>3. InputFixed'
  BY <1>1, <1>2, KeepsInputFixed DEF RecordLocal
<1>4. AggFixed'
  BY <1>2, KeepsAggFixed DEF RecordLocal
<1>5. ViewRecorded'
  BY <1>2, KeepsViewRecorded DEF RecordLocal
<1>6. HostFixed'
  <2> SUFFICES ASSUME NEW p \in Players, NEW f \in Frames, known'[p][f]
               PROVE  /\ f < Recorded(p)' + Delay
                      /\ table'[Host][p][f] = table'[p][p][f]
    BY DEF HostFixed
  <2>1. f \in Int /\ Recorded(p) \in Int /\ Recorded(p)' \in Int
    BY <1>1, RecordedInt, FramesInt, LengthAssumption DEF TypeOK, Recorded
  <2>2. CASE known[p][f]
    <3>1. f < Recorded(p) + Delay /\ table[Host][p][f] = table[p][p][f]
      BY <2>2 DEF HostFixed
    <3>2. f < Recorded(p)' + Delay
      BY <1>2, <2>1, <3>1, LengthAssumption DEF Keeps
    <3>3. table'[Host][p][f] = table'[p][p][f]
      <4>1. CASE p = Host
        BY <4>1
      <4>2. CASE p # Host
        <5>1. table'[p][p][f] = table[p][p][f]
          BY <1>2, <3>1 DEF Keeps
        <5>2. table'[Host][p][f] = table[Host][p][f]
          BY <4>2, HostPlayer DEF TypeOK, RecordLocal
        <5> QED
          BY <3>1, <5>1, <5>2
      <4> QED
        BY <4>1, <4>2
    <3> QED
      BY <3>2, <3>3
  <2>3. CASE ~known[p][f]
    <3>1. p = Host /\ c = Host /\ f = frame[c] + Delay
      BY <2>3 DEF TypeOK, RecordLocal
    <3> QED
      BY <1>2, <2>1, <3>1, LengthAssumption
  <2> QED
    BY <2>2, <2>3
<1>7. Linked'
  BY GuestPlayer DEF TypeOK, Linked, RecordLocal
<1>8. GuestReady'
  <2> SUFFICES ASSUME NEW g \in Guests, NEW f \in Frames, ready[g][f]
               PROVE  Complete(f)' /\ FrameInputs(g, f)' = FrameInputs(Host, f)'
    BY DEF GuestReady, RecordLocal
  <2>1. Complete(f) /\ FrameInputs(g, f) = FrameInputs(Host, f)
    BY DEF GuestReady
  <2>2. Complete(f)' /\ FrameInputs(Host, f)' = FrameInputs(Host, f)
    BY <1>2, <2>1 DEF Keeps
  <2>3. \A p \in Players : table'[g][p][f] = table[g][p][f]
    <3> SUFFICES ASSUME NEW p \in Players PROVE table'[g][p][f] = table[g][p][f]
      OBVIOUS
    <3>1. CASE p = g
      <4>1. f < Recorded(g) + Delay
        BY <2>1, CompleteFixed, GuestPlayer
      <4> QED
        BY <1>2, <3>1, <4>1, GuestPlayer DEF Keeps
    <3>2. CASE p # g
      BY <3>2, GuestPlayer DEF TypeOK, RecordLocal
    <3> QED
      BY <3>1, <3>2
  <2> QED
    BY <2>1, <2>2, <2>3 DEF FrameInputs
<1>9. PassedRelayed'
  <2> SUFFICES ASSUME NEW f \in MatchFrames, Left(f)' PROVE Left(f)
    BY DEF PassedRelayed, RecordLocal
  <2>1. CASE c = Host
    BY <2>1, HostPlayer DEF Left, TypeOK, RecordLocal
  <2>2. CASE c # Host
    BY <2>2, HostPlayer DEF Left, TypeOK, RecordLocal, Complete
  <2> QED
    BY <2>1, <2>2
<1> QED
  BY <1>1, <1>3, <1>4, <1>5, <1>6, <1>7, <1>8, <1>9

LEMMA IInvApply ==
  ASSUME IInv, NEW c \in Players, Apply(c)
  PROVE  IInv'
<1> USE DEF IInv
<1>1. TypeOK'
  BY TypeApply
<1>2. Keeps /\ \A p \in Players : Recorded(p)' = Recorded(p)
  BY ApplyKeeps
<1>3. InputFixed'
  BY <1>1, <1>2, KeepsInputFixed DEF Apply
<1>4. AggFixed'
  BY <1>2, KeepsAggFixed DEF Apply
<1>5. HostFixed' /\ Linked' /\ GuestReady'
  BY <1>2 DEF HostFixed, Linked, GuestReady, Complete, FrameInputs, Apply
<1>6. ViewRecorded'
  <2> SUFFICES ASSUME NEW d \in Players, NEW f \in MatchFrames, f < frame'[d]
               PROVE  Complete(f) /\ view'[d][f] = FrameInputs(Host, f)
    BY DEF ViewRecorded, Apply, Complete, FrameInputs
  <2>1. CASE d # c \/ f # frame[c]
    <3>1. f < frame[d] /\ view'[d][f] = view[d][f]
      BY <2>1 DEF TypeOK, Apply, MatchFrames
    <3> QED
      BY <3>1 DEF ViewRecorded
  <2>2. CASE d = c /\ f = frame[c]
    <3>1. view'[c][f] = FrameInputs(c, f)
      BY <2>2 DEF TypeOK, Apply
    <3>2. Have(c, f)
      BY <2>2 DEF Apply
    <3>3. f \in Frames
      BY MatchFramesInBuffer
    <3>4. CASE c = Host
      BY <2>2, <3>1, <3>2, <3>4 DEF Have
    <3>5. CASE c # Host
      BY <2>2, <3>1, <3>2, <3>3, <3>5 DEF Have, GuestReady, Guests
    <3> QED
      BY <3>4, <3>5
  <2> QED
    BY <2>1, <2>2
<1>7. PassedRelayed'
  <2> SUFFICES ASSUME NEW f \in MatchFrames, Left(f)' PROVE Left(f)
    BY DEF PassedRelayed, Apply
  <2>1. CASE c = Host
    <3>1. frame'[Host] = frame[Host] + 1 /\ phase[Host] = "wait" /\ phase'[Host] # "wait"
      BY <2>1 DEF TypeOK, Apply
    <3>2. f < frame[Host] \/ f = frame[Host]
      BY <3>1, HostPlayer DEF Left, MatchFrames, TypeOK
    <3>3. Complete(frame[Host])
      BY <2>1 DEF Apply, Have
    <3> QED
      BY <3>1, <3>2, <3>3 DEF Left
  <2>2. CASE c # Host
    BY <2>2, HostPlayer DEF Left, TypeOK, Apply, Complete
  <2> QED
    BY <2>1, <2>2
<1> QED
  BY <1>1, <1>3, <1>4, <1>5, <1>6, <1>7

\* After the host's pump, the aggregate of every frame in its window that is
\* complete is on its way to every guest, or was dropped.
LEMMA RelaySends ==
  ASSUME IInv, Linked', NEW dropped \in SUBSET DroppableAggs,
         NEW arrived \in SUBSET toHost, HostPump(dropped, arrived),
         NEW g \in Guests, NEW f \in Window(frame[Host]), Complete(f)'
  PROVE  lostAgg'[g][f] > 0 \/ \E d \in toGuest'[g] : d.frame = f
<1>1. f \in Relayed /\ f \in Frames
  BY DEF Relayed, Window
<1>2. gpeerSet'[g]
  BY <1>1, GuestPlayer DEF Linked, Complete
<1>3. CASE <<g, f>> \in dropped
  <2>1. lostAgg'[g][f] = lostAgg[g][f] + 1 /\ lostAgg[g][f] \in Nat
    BY <1>1, <1>3 DEF IInv, TypeOK, HostPump, Relay
  <2> QED
    BY <2>1
<1>4. CASE <<g, f>> \notin dropped
  <2>1. [frame |-> f, states |-> [p \in Players |-> table'[Host][p][f]]] \in toGuest'[g]
    BY <1>1, <1>2, <1>4 DEF HostPump, Relay
  <2> QED
    BY <2>1
<1> QED
  BY <1>3, <1>4

LEMMA IInvHostPump ==
  ASSUME IInv, NEW dropped \in SUBSET DroppableAggs, NEW arrived \in SUBSET toHost,
         HostPump(dropped, arrived)
  PROVE  IInv'
<1> USE DEF IInv
<1>1. TypeOK'
  BY TypeHostPump
<1>2. /\ Keeps
      /\ \A p \in Players : Recorded(p)' = Recorded(p)
      /\ \A p \in Players : table'[p][p] = table[p][p]
  BY HostPumpKeeps
<1>3. \A p \in Players, f \in Frames :
        Heard(arrived, p, f) =>
          /\ p \in Guests
          /\ f < Recorded(p) + Delay
          /\ table'[Host][p][f] = table[p][p][f]
  BY HostPumpKeeps
<1>4. InputFixed'
  BY <1>1, <1>2, KeepsInputFixed DEF HostPump
<1>5. HostFixed'
  <2> SUFFICES ASSUME NEW p \in Players, NEW f \in Frames, known'[p][f]
               PROVE  /\ f < Recorded(p) + Delay
                      /\ table'[Host][p][f] = table[p][p][f]
    BY <1>2 DEF HostFixed
  <2>1. CASE Heard(arrived, p, f)
    BY <1>3, <2>1
  <2>2. CASE ~Heard(arrived, p, f)
    <3>1. known[p][f] /\ table'[Host][p][f] = table[Host][p][f]
      BY <2>2, HostPlayer DEF TypeOK, HostPump, HostDrain, HostStore
    <3> QED
      BY <3>1 DEF HostFixed
  <2> QED
    BY <2>1, <2>2
<1>6. Linked'
  <2> SUFFICES ASSUME NEW g \in Guests, NEW f \in Frames, known'[g][f]
               PROVE  gpeerSet'[g]
    BY DEF Linked
  <2>1. gpeerSet'[g] = (gpeerSet[g] \/ \E d \in arrived : d.player = g)
    BY DEF HostPump, HostDrain, HostStore
  <2>2. Heard(arrived, g, f) \/ known[g][f]
    BY GuestPlayer DEF HostPump, HostDrain, HostStore
  <2> QED
    BY <2>1, <2>2 DEF Heard, Linked
<1>7. AggFixed'
  <2> SUFFICES ASSUME NEW g \in Guests, NEW d \in toGuest'[g]
               PROVE  Complete(d.frame)' /\ d.states = FrameInputs(Host, d.frame)'
    BY DEF AggFixed
  <2>1. CASE d \in toGuest[g]
    <3>1. d.frame \in Frames
      BY <2>1 DEF TypeOK, Aggregates
    <3> QED
      BY <1>2, <2>1, <3>1 DEF AggFixed, Keeps
  <2>2. CASE d \notin toGuest[g]
    <3>1. PICK f \in Relayed :
            d = [frame |-> f, states |-> [p \in Players |-> table'[Host][p][f]]]
      BY <2>2 DEF HostPump, Relay
    <3> QED
      BY <3>1 DEF Relayed, FrameInputs
  <2> QED
    BY <2>1, <2>2
<1>8. GuestReady'
  <2> SUFFICES ASSUME NEW g \in Guests, NEW f \in Frames, ready'[g][f]
               PROVE  Complete(f)' /\ FrameInputs(g, f)' = FrameInputs(Host, f)'
    BY DEF GuestReady
  <2>1. ready[g][f] /\ table'[g] = table[g]
    BY GuestPlayer, HostPlayer DEF TypeOK, HostPump, HostDrain, HostStore, Relay
  <2>2. Complete(f) /\ FrameInputs(g, f) = FrameInputs(Host, f)
    BY <2>1 DEF GuestReady
  <2>3. FrameInputs(g, f)' = FrameInputs(g, f)
    BY <2>1 DEF FrameInputs
  <2> QED
    BY <1>2, <2>2, <2>3 DEF Keeps
<1>9. ViewRecorded'
  BY <1>2, KeepsViewRecorded DEF HostPump
<1>10. PassedRelayed'
  <2> SUFFICES ASSUME NEW g \in Guests, NEW f \in MatchFrames, Left(f)'
               PROVE  lostAgg'[g][f] > 0 \/ \E d \in toGuest'[g] : d.frame = f
    BY DEF PassedRelayed
  <2>1. frame' = frame
    BY DEF HostPump
  <2>2. CASE f < frame[Host]
    <3>1. lostAgg[g][f] > 0 \/ \E d \in toGuest[g] : d.frame = f
      BY <2>2 DEF PassedRelayed, Left
    <3>2. lostAgg'[g][f] = lostAgg[g][f] \/ lostAgg'[g][f] = lostAgg[g][f] + 1
      BY MatchFramesInBuffer DEF HostPump, Relay
    <3>3. lostAgg[g][f] \in Nat
      BY MatchFramesInBuffer DEF TypeOK
    <3>4. toGuest[g] \subseteq toGuest'[g]
      BY DEF HostPump, Relay
    <3> QED
      BY <3>1, <3>2, <3>3, <3>4
  <2>3. CASE f = frame[Host] /\ Complete(f)'
    <3>1. frame[Host] \in 0 .. MaxFrames /\ frame[Host] # MaxFrames
      BY HostPlayer DEF TypeOK, HostPump, Pumps
    <3>2. f \in Window(frame[Host])
      BY <2>3, <3>1, ScheduleInBuffer, LengthAssumption
    <3> QED
      BY <1>6, <2>3, <3>2, RelaySends
  <2> QED
    BY <2>1, <2>2, <2>3 DEF Left
<1> QED
  BY <1>1, <1>4, <1>5, <1>6, <1>7, <1>8, <1>9, <1>10

LEMMA IInvGuestPump ==
  ASSUME IInv, NEW g \in Guests, NEW dropped \in SUBSET DroppableInputs(g),
         NEW arrived \in SUBSET toGuest[g], GuestPump(g, dropped, arrived)
  PROVE  IInv'
<1> USE DEF IInv
<1>1. TypeOK'
  BY TypeGuestPump
<1>2. /\ Keeps
      /\ \A p \in Players : Recorded(p)' = Recorded(p)
      /\ Recorded(g) = frame[g] + 1
      /\ \A p \in Players : table'[p][p] = table[p][p]
      /\ table'[Host] = table[Host]
  BY GuestPumpKeeps
<1>3. InputFixed'
  <2> SUFFICES ASSUME NEW d \in toHost'
               PROVE  /\ d.frame < Recorded(d.player) + Delay
                      /\ d.state = table[d.player][d.player][d.frame]
                      /\ d.player \in Players
    BY <1>2 DEF InputFixed
  <2>1. CASE d \in toHost
    BY <2>1, GuestPlayer DEF InputFixed, TypeOK, InputPackets
  <2>2. CASE d \notin toHost
    <3>1. PICK f \in Window(frame[g]) :
            d = [player |-> g, frame |-> f, state |-> table[g][g][f]]
      BY <2>2 DEF GuestPump, SendInputs
    <3>2. f <= frame[g] + Delay /\ f \in Int
      BY <3>1, GuestPlayer, LengthAssumption DEF Window, TypeOK
    <3> QED
      BY <1>2, <3>1, <3>2, GuestPlayer, LengthAssumption DEF TypeOK
  <2> QED
    BY <2>1, <2>2
<1>4. HostFixed' /\ Linked'
  BY <1>2 DEF HostFixed, Linked, GuestPump
<1>5. AggFixed'
  BY <1>2, KeepsAggFixed DEF GuestPump
<1>6. GuestReady'
  <2> SUFFICES ASSUME NEW h \in Guests, NEW f \in Frames, ready'[h][f]
               PROVE  Complete(f) /\ FrameInputs(h, f)' = FrameInputs(Host, f)
    BY <1>2 DEF GuestReady, Keeps
  <2>1. CASE h # g
    <3>1. ready[h][f] /\ table'[h] = table[h]
      BY <2>1, GuestPlayer DEF TypeOK, GuestPump, GuestDrain
    <3>2. FrameInputs(h, f)' = FrameInputs(h, f)
      BY <3>1 DEF FrameInputs
    <3> QED
      BY <3>1, <3>2 DEF GuestReady
  <2>2. CASE h = g
    <3>1. CASE \E d \in arrived : d.frame = f
      <4>1. Complete(f) /\ FrameInputs(g, f)' = FrameInputs(Host, f)
        BY <3>1, GuestPumpKeeps
      <4> QED
        BY <2>2, <4>1 DEF FrameInputs
    <3>2. CASE \A d \in arrived : d.frame # f
      <4>1. ready[g][f]
        BY <2>2, <3>2, GuestPlayer DEF TypeOK, GuestPump, GuestDrain
      <4>2. FrameInputs(g, f)' = FrameInputs(g, f)
        BY <3>2, GuestPumpKeeps
      <4> QED
        BY <2>2, <4>1, <4>2 DEF GuestReady
    <3> QED
      BY <3>1, <3>2
  <2> QED
    BY <2>1, <2>2
<1>7. ViewRecorded'
  BY <1>2, KeepsViewRecorded DEF GuestPump
<1>8. PassedRelayed'
  <2>1. frame'[Host] = frame[Host] /\ phase'[Host] = phase[Host] /\ known' = known
    BY GuestPlayer, HostPlayer DEF TypeOK, GuestPump
  <2> QED
    BY <2>1 DEF PassedRelayed, Left, Complete, GuestPump
<1> QED
  BY <1>1, <1>3, <1>4, <1>5, <1>6, <1>7, <1>8

LEMMA IInvStep == IInv /\ [Next]_vars => IInv'
<1> SUFFICES ASSUME IInv, [Next]_vars PROVE IInv'
  OBVIOUS
<1>1. CASE UNCHANGED vars
  BY <1>1 DEF vars, IInv, TypeOK, InputFixed, HostFixed, Linked, AggFixed, GuestReady,
              ViewRecorded, PassedRelayed, Left, Recorded, Complete, FrameInputs
<1>2. CASE HostPumpSome
  BY <1>2, IInvHostPump DEF HostPumpSome
<1>3. ASSUME NEW g \in Guests, GuestPumpSome(g) PROVE IInv'
  BY <1>3, IInvGuestPump DEF GuestPumpSome
<1>4. ASSUME NEW c \in Players, RecordSome(c) PROVE IInv'
  BY <1>4, IInvRecord DEF RecordSome
<1>5. ASSUME NEW c \in Players, Apply(c) PROVE IInv'
  BY <1>5, IInvApply
<1> QED
  BY <1>1, <1>2, <1>3, <1>4, <1>5 DEF Next

LEMMA Inductive == Spec => []IInv
BY IInvInit, IInvStep, PTL DEF Spec

-----------------------------------------------------------------------------
(* The safety properties *)

\* All consoles step a frame with the same inputs for every player, whatever
\* the network does (sdk/xbl_net.h, "the SAME order on every console").
THEOREM NeverDesync == Spec => []Agreement
<1>1. IInv => Agreement
  BY DEF IInv, ViewRecorded, Agreement
<1> QED
  BY <1>1, Inductive, PTL

\* A guest leaves a frame only after the host has its input for it: what the
\* host lacks is still being sent, so no number of lost inputs stalls a match.
THEOREM InputsAreAcknowledged == Spec => []InputAcknowledged
<1>1. IInv => InputAcknowledged
  BY GuestPlayer DEF IInv, ViewRecorded, InputAcknowledged, Complete
<1> QED
  BY <1>1, Inductive, PTL

\* Only a lost aggregate can leave a guest stuck: the host never passes a frame
\* it has not relayed to every guest (xbl_lockstep_n_pump).
THEOREM NothingPassedUnrelayed == Spec => []RelayedBeforePassed
<1>1. IInv => RelayedBeforePassed
  BY DEF IInv, PassedRelayed, Left, RelayedBeforePassed, Wedged
<1> QED
  BY <1>1, Inductive, PTL

\* Every step keeps complete frames and recorded inputs.
LEMMA StepKeeps == IInv /\ Next => Keeps
<1> SUFFICES ASSUME IInv, Next PROVE Keeps
  OBVIOUS
<1>1. CASE HostPumpSome
  BY <1>1, HostPumpKeeps DEF HostPumpSome
<1>2. ASSUME NEW g \in Guests, GuestPumpSome(g) PROVE Keeps
  BY <1>2, GuestPumpKeeps DEF GuestPumpSome
<1>3. ASSUME NEW c \in Players, RecordSome(c) PROVE Keeps
  BY <1>3, RecordKeeps DEF RecordSome
<1>4. ASSUME NEW c \in Players, Apply(c) PROVE Keeps
  BY <1>4, ApplyKeeps
<1> QED
  BY <1>1, <1>2, <1>3, <1>4 DEF Next

\* A guest's flag that a frame was relayed is never taken back.
LEMMA ReadyStays ==
  ASSUME IInv, Next, NEW g \in Guests, NEW f \in Frames, ready[g][f]
  PROVE  ready'[g][f]
<1> USE DEF IInv, TypeOK
<1>1. ASSUME HostPumpSome PROVE ready'[g][f]
  BY <1>1, GuestPlayer DEF HostPumpSome, HostPump, Relay
<1>2. ASSUME NEW h \in Guests, GuestPumpSome(h) PROVE ready'[g][f]
  BY <1>2, GuestPlayer DEF GuestPumpSome, GuestPump, GuestDrain
<1>3. ASSUME NEW c \in Players, RecordSome(c) \/ Apply(c) PROVE ready'[g][f]
  BY <1>3 DEF RecordSome, RecordLocal, Apply
<1> QED
  BY <1>1, <1>2, <1>3 DEF Next

\* Ready frames stay, with their inputs.
ReadyStep ==
  \A c \in Players, f \in Frames :
    Have(c, f) => Have(c, f)' /\ FrameInputs(c, f)' = FrameInputs(c, f)

\* A step that keeps complete frames and the guests' flags keeps ready frames.
LEMMA ReadyKept ==
  ASSUME IInv, IInv', Keeps, \A g \in Guests, f \in Frames : ready[g][f] => ready'[g][f]
  PROVE  ReadyStep
<1> SUFFICES ASSUME NEW c \in Players, NEW f \in Frames, Have(c, f)
             PROVE  Have(c, f)' /\ FrameInputs(c, f)' = FrameInputs(c, f)
  BY DEF ReadyStep
<1>1. CASE c = Host
  BY <1>1 DEF Keeps, Have
<1>2. CASE c # Host
  <2>1. c \in Guests /\ ready[c][f]
    BY <1>2 DEF Have, Guests
  <2>2. ready'[c][f]
    BY <2>1
  <2>3. Complete(f) /\ FrameInputs(c, f) = FrameInputs(Host, f)
    BY <2>1 DEF IInv, GuestReady
  <2>4. FrameInputs(c, f)' = FrameInputs(Host, f)'
    BY <2>1, <2>2 DEF IInv, GuestReady
  <2>5. FrameInputs(Host, f)' = FrameInputs(Host, f)
    BY <2>3 DEF Keeps
  <2> QED
    BY <1>2, <2>2, <2>3, <2>4, <2>5 DEF Have
<1> QED
  BY <1>1, <1>2

LEMMA StepKeepsReady == IInv /\ IInv' /\ Next => ReadyStep
BY StepKeeps, ReadyStays, ReadyKept

\* A frame a console may apply, or has applied, never changes again.
THEOREM ReadyFramesAreFinal == Spec => ReadyFrameStable
<1>1. IInv /\ IInv' /\ [Next]_vars => [ReadyStep]_vars
  BY StepKeepsReady
<1>2. ReadyStep =>
        \A c \in Players, f \in Frames :
          Have(c, f) => Have(c, f)' /\ FrameInputs(c, f)' = FrameInputs(c, f)
  BY DEF ReadyStep
<1> QED
  BY <1>1, <1>2, Inductive, PTL DEF Spec, ReadyFrameStable

-----------------------------------------------------------------------------
(* The relay implements the abstract lockstep *)

LEMMA RefineInit == Init => Promise!Init
<1> SUFFICES ASSUME Init PROVE Promise!Init
  OBVIOUS
<1>1. \A p \in Players : Recorded(p) = 0
  BY DEF Init, Recorded
<1> QED
  BY <1>1 DEF Init, Promise!Init, Promise!Frames, Promise!MatchFrames, Promise!Silence,
              Frames, MatchFrames, Silence

LEMMA RefineRecord ==
  ASSUME IInv, NEW c \in Players, NEW state \in Inputs, RecordLocal(c, state)
  PROVE  Promise!Sample(c, state)
<1>1. frame[c] < MaxFrames
  <2>1. frame[c] \in 0 .. MaxFrames /\ frame[c] # MaxFrames
    BY DEF IInv, TypeOK, RecordLocal
  <2> QED
    BY <2>1, LengthAssumption
<1>2. Recorded(c) = frame[c] /\ Recorded(c)' = frame[c] + 1
  BY RecordKeeps
<1>3. \A q \in Players : q # c => Recorded(q)' = Recorded(q)
  BY DEF IInv, TypeOK, RecordLocal, Recorded
<1>4. [q \in Players |-> Recorded(q)]' =
        [[q \in Players |-> Recorded(q)] EXCEPT ![c] = @ + 1]
  BY <1>2, <1>3
<1>5. [q \in Players |-> table[q][q]]' =
        [[q \in Players |-> table[q][q]] EXCEPT ![c][frame[c] + Delay] = state]
  <2>1. table'[c][c] = [table[c][c] EXCEPT ![frame[c] + Delay] = state]
    BY DEF IInv, TypeOK, RecordLocal
  <2>2. \A q \in Players : q # c => table'[q][q] = table[q][q]
    BY DEF IInv, TypeOK, RecordLocal
  <2> QED
    BY <2>1, <2>2
<1> QED
  BY <1>1, <1>2, <1>4, <1>5 DEF Promise!Sample, RecordLocal

LEMMA RefineApply ==
  ASSUME IInv, NEW c \in Players, Apply(c)
  PROVE  Promise!Apply(c)
<1> DEFINE sampled == [q \in Players |-> Recorded(q)]
           input == [q \in Players |-> table[q][q]]
<1>1. sampled' = sampled /\ sampled[c] = frame[c] + 1
  BY ApplyKeeps
<1>2. input' = input
  BY DEF Apply
<1>3. frame[c] \in MatchFrames /\ frame[c] \in Frames
  <2>1. frame[c] \in 0 .. MaxFrames /\ frame[c] # MaxFrames
    BY DEF IInv, TypeOK, Apply
  <2> QED
    BY <2>1, ScheduleInBuffer
<1>4. Complete(frame[c]) /\ FrameInputs(c, frame[c]) = FrameInputs(Host, frame[c])
  <2>1. CASE c = Host
    BY <2>1 DEF Apply, Have
  <2>2. CASE c # Host
    BY <1>3, <2>2 DEF Apply, Have, IInv, GuestReady, Guests
  <2> QED
    BY <2>1, <2>2
<1>5. \A q \in Players : frame[c] < sampled[q] + Delay
  BY <1>3, <1>4, CompleteFixed DEF IInv
<1>6. FrameInputs(Host, frame[c]) = [q \in Players |-> input[q][frame[c]]]
  BY <1>3, <1>4, CompleteFixed DEF IInv, FrameInputs
<1>7. view' = [view EXCEPT ![c][frame[c]] = [q \in Players |-> input[q][frame[c]]]]
  BY <1>4, <1>6 DEF Apply
<1>8. frame' = [frame EXCEPT ![c] = @ + 1]
  BY DEF Apply
<1> QED
  BY <1>1, <1>2, <1>5, <1>7, <1>8 DEF Promise!Apply, Promise!Fixed

LEMMA RefineStep == IInv /\ [Next]_vars => [Promise!Next]_(Promise!vars)
<1> SUFFICES ASSUME IInv, [Next]_vars PROVE [Promise!Next]_(Promise!vars)
  OBVIOUS
<1>1. CASE UNCHANGED vars
  BY <1>1 DEF vars, Promise!vars, Recorded
<1>2. ASSUME NEW c \in Players, RecordSome(c) PROVE Promise!Next
  BY <1>2, RefineRecord DEF RecordSome, Promise!Next
<1>3. ASSUME HostPumpSome PROVE UNCHANGED Promise!vars
  <2>1. PICK dropped \in SUBSET DroppableAggs, arrived \in SUBSET toHost :
          HostPump(dropped, arrived)
    BY <1>3 DEF HostPumpSome
  <2>2. /\ \A p \in Players : Recorded(p)' = Recorded(p)
        /\ \A p \in Players : table'[p][p] = table[p][p]
    BY <2>1, HostPumpKeeps
  <2> QED
    BY <2>1, <2>2 DEF Promise!vars, HostPump
<1>4. ASSUME NEW g \in Guests, GuestPumpSome(g) PROVE UNCHANGED Promise!vars
  <2>1. PICK dropped \in SUBSET DroppableInputs(g), arrived \in SUBSET toGuest[g] :
          GuestPump(g, dropped, arrived)
    BY <1>4 DEF GuestPumpSome
  <2>2. /\ \A p \in Players : Recorded(p)' = Recorded(p)
        /\ \A p \in Players : table'[p][p] = table[p][p]
    BY <2>1, GuestPumpKeeps
  <2> QED
    BY <2>1, <2>2 DEF Promise!vars, GuestPump
<1>5. ASSUME NEW c \in Players, Apply(c) PROVE Promise!Next
  BY <1>5, RefineApply DEF Promise!Next
<1> QED
  BY <1>1, <1>2, <1>3, <1>4, <1>5 DEF Next

\* Host and guests keep the promise of sdk/xbl_net.h: every input is applied
\* Delay frames after it was sampled, by all consoles, and no frame before all
\* its inputs are fixed.
THEOREM RelayImplementsLockstep == Spec => ImplementsLockstep
BY RefineStep, RefineInit, Inductive, PTL DEF Spec, Promise!Spec, ImplementsLockstep

-----------------------------------------------------------------------------
(* The handshake: it drains the host's socket before the match, and the     *)
(* invariant of LockstepN has to hold all the same.                         *)

\* A guest in its handshake has sent no input, and the host has none of it.
Fresh(g) ==
  shaking[g] =>
    /\ \A d \in toHost : d.player # g
    /\ \A f \in Frames : ~known[g][f]

ShakeTypes ==
  /\ shaking \in [Players -> BOOLEAN]
  /\ ok \in [Players -> BOOLEAN]
  /\ helloUp \in [Guests -> BOOLEAN]
  /\ helloDown \in [Guests -> BOOLEAN]
  /\ \A c \in Players : shaking[c] => phase[c] = "record" /\ ~ok[c]

HInv ==
  /\ IInv
  /\ ShakeTypes
  /\ \A g \in Guests : Fresh(g) /\ ~ok[g]

LEMMA HInitInv == HInit => HInv
<1> SUFFICES ASSUME HInit PROVE HInv
  OBVIOUS
<1>1. Init
  BY DEF HInit
<1>2. IInv
  BY <1>1, IInvInit
<1>3. ShakeTypes
  BY <1>1 DEF HInit, Init, ShakeTypes
<1>4. ASSUME NEW g \in Guests PROVE Fresh(g) /\ ~ok[g]
  <2>1. g \in Players /\ g # Host
    BY GuestPlayer
  <2>2. ~ok[g] /\ toHost = {}
    BY <1>1, <2>1 DEF HInit, Init
  <2>3. \A f \in Frames : ~known[g][f]
    BY <1>1, <2>1 DEF Init
  <2> QED
    BY <2>2, <2>3 DEF Fresh
<1> QED
  BY <1>2, <1>3, <1>4 DEF HInv

-----------------------------------------------------------------------------
(* A round on the host *)

LEMMA TypeHostRound ==
  ASSUME TypeOK, NEW sent, NEW hellos, NEW arrived \in SUBSET toHost,
         HostRound(sent, arrived, hellos)
  PROVE  TypeOK'
<1>1. arrived \in SUBSET InputPackets
  BY DEF TypeOK
<1>2. table' \in [Players -> [Players -> [Frames -> Inputs]]]
  <2>1. \A p \in Players, f \in Frames :
          (IF Heard(arrived, p, f) THEN StateFor(arrived, p, f) ELSE table[Host][p][f])
            \in Inputs
    <3> SUFFICES ASSUME NEW p \in Players, NEW f \in Frames
                 PROVE  /\ Heard(arrived, p, f) => StateFor(arrived, p, f) \in Inputs
                        /\ table[Host][p][f] \in Inputs
      OBVIOUS
    <3>1. Heard(arrived, p, f) => StateFor(arrived, p, f) \in Inputs
      BY <1>1, StateForHeard
    <3>2. table[Host][p][f] \in Inputs
      BY HostPlayer DEF TypeOK
    <3> QED
      BY <3>1, <3>2
  <2> QED
    BY <2>1, HostPlayer DEF TypeOK, HostRound, HostStore
<1>3. known' \in [Players -> [Frames -> BOOLEAN]]
  BY DEF TypeOK, HostRound, HostStore, Heard
<1>4. gpeerSet' \in [Guests -> BOOLEAN]
  BY DEF TypeOK, HostRound
<1> QED
  BY <1>2, <1>3, <1>4 DEF TypeOK, HostRound

\* What the handshake drains is what the guest recorded, as in a pump.
LEMMA HostRoundKeeps ==
  ASSUME IInv, NEW sent, NEW hellos, NEW arrived \in SUBSET toHost,
         HostRound(sent, arrived, hellos)
  PROVE  /\ Keeps
         /\ \A p \in Players : Recorded(p)' = Recorded(p)
         /\ \A p \in Players : table'[p][p] = table[p][p]
         /\ \A p \in Players : p # Host => table'[p] = table[p]
         /\ \A p \in Players, f \in Frames :
              IF Heard(arrived, p, f)
              THEN /\ f < Recorded(p) + Delay
                   /\ table'[Host][p][f] = table[p][p][f]
              ELSE table'[Host][p][f] = table[Host][p][f]
<1> USE DEF IInv
<1>1. \A p \in Players : Recorded(p)' = Recorded(p)
  BY DEF Recorded, HostRound
<1>2. ASSUME NEW p \in Players, NEW f \in Frames, Heard(arrived, p, f)
      PROVE  /\ p \in Guests
             /\ f < Recorded(p) + Delay
             /\ StateFor(arrived, p, f) = table[p][p][f]
  <2>1. arrived \in SUBSET InputPackets
    BY DEF TypeOK
  <2>2. [player |-> p, frame |-> f, state |-> StateFor(arrived, p, f)] \in arrived
    BY <1>2, <2>1, StateForHeard
  <2>3. PICK d \in arrived : d.player = p
    BY <1>2 DEF Heard
  <2>4. p \in Guests
    BY <2>1, <2>3 DEF InputPackets
  <2> QED
    BY <2>2, <2>4 DEF InputFixed
<1>3. \A p \in Players, f \in Frames :
        table'[Host][p][f] =
          IF Heard(arrived, p, f) THEN StateFor(arrived, p, f) ELSE table[Host][p][f]
  BY HostPlayer DEF TypeOK, HostRound, HostStore
<1>4. \A p \in Players : p # Host => table'[p] = table[p]
  BY DEF TypeOK, HostRound, HostStore
<1>5. \A p \in Players : table'[p][p] = table[p][p]
  <2>1. \A f \in Frames : table'[Host][Host][f] = table[Host][Host][f]
    BY <1>2, <1>3, HostPlayer
  <2>2. table[Host][Host] \in [Frames -> Inputs] /\ table'[Host][Host] \in [Frames -> Inputs]
    <3>1. TypeOK'
      BY TypeHostRound
    <3> QED
      BY <3>1, HostPlayer DEF TypeOK
  <2>3. table'[Host][Host] = table[Host][Host]
    BY <2>1, <2>2
  <2> QED
    BY <1>4, <2>3
<1>6. \A f \in Frames : Complete(f) => Complete(f)'
  BY DEF HostRound, HostStore, Complete
<1>7. ASSUME NEW f \in Frames, Complete(f)
      PROVE  FrameInputs(Host, f)' = FrameInputs(Host, f)
  <2>1. \A p \in Players : table'[Host][p][f] = table[Host][p][f]
    BY <1>2, <1>3, <1>7, CompleteFixed
  <2> QED
    BY <2>1 DEF FrameInputs
<1>8. Keeps
  BY <1>1, <1>5, <1>6, <1>7, RecordedInt DEF Keeps
<1> QED
  BY <1>1, <1>2, <1>3, <1>4, <1>5, <1>8

LEMMA IInvHostRound ==
  ASSUME HInv, NEW sent, NEW hellos, NEW arrived \in SUBSET toHost,
         HostRound(sent, arrived, hellos)
  PROVE  IInv'
<1>0. IInv
  BY DEF HInv
<1> USE DEF IInv
<1>1. TypeOK'
  BY <1>0, TypeHostRound
<1>2. /\ Keeps
      /\ \A p \in Players : Recorded(p)' = Recorded(p)
      /\ \A p \in Players : table'[p][p] = table[p][p]
      /\ \A p \in Players : p # Host => table'[p] = table[p]
      /\ \A p \in Players, f \in Frames :
           IF Heard(arrived, p, f)
           THEN /\ f < Recorded(p) + Delay
                /\ table'[Host][p][f] = table[p][p][f]
           ELSE table'[Host][p][f] = table[Host][p][f]
  BY <1>0, HostRoundKeeps
<1>3. InputFixed'
  BY <1>0, <1>1, <1>2, KeepsInputFixed DEF HostRound
<1>4. HostFixed'
  <2> SUFFICES ASSUME NEW p \in Players, NEW f \in Frames, known'[p][f]
               PROVE  /\ f < Recorded(p) + Delay
                      /\ table'[Host][p][f] = table[p][p][f]
    BY <1>2 DEF HostFixed
  <2>1. CASE Heard(arrived, p, f)
    BY <1>2, <2>1
  <2>2. CASE ~Heard(arrived, p, f)
    <3>1. known[p][f]
      BY <2>2 DEF HostRound, HostStore
    <3> QED
      BY <1>0, <1>2, <2>2, <3>1 DEF HostFixed
  <2> QED
    BY <2>1, <2>2
<1>5. Linked'
  <2> SUFFICES ASSUME NEW g \in Guests, NEW f \in Frames, known'[g][f]
               PROVE  gpeerSet'[g]
    BY DEF Linked
  <2>1. gpeerSet'[g] = (gpeerSet[g] \/ g \in hellos \/ \E d \in arrived : d.player = g)
    BY DEF HostRound
  <2>2. Heard(arrived, g, f) \/ known[g][f]
    BY GuestPlayer DEF HostRound, HostStore
  <2> QED
    BY <1>0, <2>1, <2>2 DEF Heard, Linked
<1>6. AggFixed'
  BY <1>0, <1>2, KeepsAggFixed DEF HostRound
<1>7. GuestReady'
  <2> SUFFICES ASSUME NEW g \in Guests, NEW f \in Frames, ready[g][f]
               PROVE  Complete(f)' /\ FrameInputs(g, f)' = FrameInputs(Host, f)'
    BY DEF GuestReady, HostRound
  <2>1. Complete(f) /\ FrameInputs(g, f) = FrameInputs(Host, f)
    BY <1>0 DEF GuestReady
  <2>2. FrameInputs(g, f)' = FrameInputs(g, f)
    BY <1>2, GuestPlayer DEF FrameInputs
  <2> QED
    BY <1>2, <2>1, <2>2 DEF Keeps
<1>8. ViewRecorded'
  BY <1>0, <1>2, KeepsViewRecorded DEF HostRound
<1>9. PassedRelayed'
  <2>1. phase[Host] = "record" /\ UNCHANGED <<phase, frame, lostAgg, toGuest>>
    BY HostPlayer DEF HInv, ShakeTypes, HostRound
  <2>2. \A f \in MatchFrames : Left(f)' => Left(f)
    BY <2>1 DEF Left
  <2> QED
    BY <1>0, <2>1, <2>2 DEF PassedRelayed
<1> QED
  BY <1>1, <1>3, <1>4, <1>5, <1>6, <1>7, <1>8, <1>9

-----------------------------------------------------------------------------
(* A round on a guest *)

\* No aggregate is there for a guest in its handshake: it would hold an input
\* that the guest has not sent.  The round leaves the match as it is.
LEMMA GuestRoundIdle ==
  ASSUME HInv, NEW g \in Guests, NEW sent, NEW hi, NEW arrived \in SUBSET toGuest[g],
         GuestRound(g, sent, arrived, hi)
  PROVE  UNCHANGED vars /\ GuestLinked(g) = FALSE
<1>1. IInv /\ TypeOK /\ AggFixed /\ GuestReady
  BY DEF HInv, IInv
<1>2. \A f \in Frames : ~known[g][f] /\ ~Complete(f)
  BY GuestPlayer DEF HInv, Fresh, GuestRound, Complete
<1>3. arrived = {}
  <2> SUFFICES ASSUME NEW d \in arrived PROVE FALSE
    OBVIOUS
  <2>1. d.frame \in Frames
    BY <1>1 DEF TypeOK, Aggregates
  <2>2. Complete(d.frame)
    BY <1>1 DEF AggFixed
  <2> QED
    BY <1>2, <2>1, <2>2
<1>4. table' = table
  <2>1. table' = [table EXCEPT ![g] =
          [p \in Players |-> [f \in Frames |->
            IF f \in {} THEN AggregateFor(arrived, f)[p] ELSE table[g][p][f]]]]
    BY <1>3 DEF GuestRound, GuestDrain
  <2>2. table[g] = [p \in Players |-> [f \in Frames |-> table[g][p][f]]]
    BY <1>1, GuestPlayer DEF TypeOK
  <2>3. table' = [table EXCEPT ![g] = table[g]]
    BY <2>1, <2>2
  <2> QED
    BY <1>1, <2>3 DEF TypeOK
<1>5. ready' = ready
  <2>1. ready' = [ready EXCEPT ![g] = [f \in Frames |-> f \in {} \/ ready[g][f]]]
    BY <1>3 DEF GuestRound, GuestDrain
  <2>2. ready[g] \in [Frames -> BOOLEAN] /\ ready \in [Players -> [Frames -> BOOLEAN]]
    BY <1>1, GuestPlayer DEF TypeOK
  <2>3. \A f \in Frames : (f \in {} \/ ready[g][f]) = ready[g][f]
    BY <2>2
  <2>4. [f \in Frames |-> f \in {} \/ ready[g][f]] = ready[g]
    <3>1. [f \in Frames |-> f \in {} \/ ready[g][f]] = [f \in Frames |-> ready[g][f]]
      BY <2>3, Zenon
    <3>2. ready[g] = [f \in Frames |-> ready[g][f]]
      BY <2>2, Zenon
    <3> QED
      BY <3>1, <3>2, Zenon
  <2>5. ready' = [ready EXCEPT ![g] = ready[g]]
    BY <2>1, <2>4, Zenon
  <2> QED
    BY <2>2, <2>5
<1>6. ready[g][0] = FALSE
  <2>1. 0 \in Frames
    BY LengthAssumption DEF Frames
  <2>2. ready[g][0] \in BOOLEAN
    BY <1>1, <2>1, GuestPlayer DEF TypeOK
  <2>3. ~ready[g][0]
    BY <1>1, <1>2, <2>1 DEF GuestReady
  <2> QED
    BY <2>2, <2>3
<1> QED
  BY <1>4, <1>5, <1>6 DEF vars, GuestRound, GuestLinked

-----------------------------------------------------------------------------
(* Every step *)

\* A console that is in its handshake stays out of the match: what its steps
\* would change does not change.
LEMMA FreshBy ==
  ASSUME HInv, NEW g \in Guests, shaking'[g] => shaking[g],
         shaking[g] => \A d \in toHost' : d \in toHost \/ d.player # g,
         shaking[g] => \A f \in Frames : known'[g][f] =>
           known[g][f] \/ \E d \in toHost : d.player = g
  PROVE  Fresh(g)'
BY DEF HInv, Fresh

\* A step of the loop: the handshakes are over on the console that takes it.
LEMMA PlayInv ==
  ASSUME HInv, NEW c \in Players, ~shaking[c], UNCHANGED hvars, IInv',
         \A d \in Players : d # c => phase'[d] = phase[d],
         \A g \in Guests : g # c =>
           /\ \A d \in toHost' : d \in toHost \/ d.player # g
           /\ \A f \in Frames : known'[g][f] =>
                known[g][f] \/ \E d \in toHost : d.player = g
  PROVE  HInv'
<1>1. ShakeTypes'
  BY DEF HInv, ShakeTypes, hvars
<1>2. ASSUME NEW g \in Guests PROVE Fresh(g)' /\ ~ok'[g]
  <2>1. Fresh(g)'
    BY FreshBy DEF hvars
  <2> QED
    BY <2>1 DEF HInv, hvars
<1> QED
  BY <1>1, <1>2 DEF HInv

LEMMA HStepInv == HInv /\ [HNext]_allVars => HInv'
<1> SUFFICES ASSUME HInv, [HNext]_allVars PROVE HInv'
  OBVIOUS
<1>1. TypeOK /\ IInv /\ ShakeTypes
  BY DEF HInv, IInv
<1>2. CASE UNCHANGED vars /\ shaking' \in [Players -> BOOLEAN] /\ ok' \in [Players -> BOOLEAN]
           /\ helloUp' \in [Guests -> BOOLEAN] /\ helloDown' \in [Guests -> BOOLEAN]
           /\ (\A c \in Players : shaking'[c] => shaking[c] /\ ~ok'[c])
           /\ (\A g \in Guests : ~ok'[g])
  <2>1. IInv'
    BY <1>1, <1>2, IInvStep
  <2>2. UNCHANGED <<phase, toHost, known>>
    BY <1>2 DEF vars
  <2>3. ShakeTypes'
    BY <1>1, <1>2, <2>2 DEF ShakeTypes
  <2>4. \A g \in Guests : Fresh(g)'
    BY <1>2, <2>2, GuestPlayer DEF HInv, Fresh
  <2> QED
    BY <1>2, <2>1, <2>3, <2>4 DEF HInv
<1>3. CASE HostRoundSome
  <2>1. PICK sent \in SUBSET Guests, arrived \in SUBSET toHost,
             hellos \in SUBSET {g \in Guests : helloUp[g]} :
               HostRound(sent, arrived, hellos)
    BY <1>3 DEF HostRoundSome
  <2>2. IInv'
    BY <2>1, IInvHostRound
  <2>3. ShakeTypes'
    BY <1>1, <2>1, HostPlayer DEF ShakeTypes, HostRound
  <2>4. ASSUME NEW g \in Guests PROVE Fresh(g)' /\ ~ok'[g]
    <3>1. shaking'[g] = shaking[g] /\ ok'[g] = ok[g] /\ toHost' = toHost
      BY <2>1, GuestPlayer DEF HostRound, ShakeTypes, HInv
    <3>2. \A f \in Frames : known'[g][f] => known[g][f] \/ \E d \in toHost : d.player = g
      BY <2>1, GuestPlayer DEF HostRound, HostStore, Heard
    <3>3. Fresh(g)'
      BY <3>1, <3>2, FreshBy
    <3> QED
      BY <3>1, <3>3 DEF HInv
  <2> QED
    BY <2>2, <2>3, <2>4 DEF HInv
<1>4. CASE \E g \in Guests : GuestRoundSome(g)
  <2>0. PICK g \in Guests : GuestRoundSome(g)
    BY <1>4
  <2>1. PICK sent \in BOOLEAN, hi \in BOOLEAN, arrived \in SUBSET toGuest[g] :
               GuestRound(g, sent, arrived, hi)
    BY <2>0 DEF GuestRoundSome
  <2>2. UNCHANGED vars /\ GuestLinked(g) = FALSE
    BY <2>1, GuestRoundIdle
  <2>3. /\ shaking[g]
        /\ helloUp' = [helloUp EXCEPT ![g] = @ \/ sent] /\ helloDown' = helloDown
        /\ ok' = [ok EXCEPT ![g] = GuestLinked(g)]
        /\ shaking' = [shaking EXCEPT ![g] = ~ok'[g]]
    BY <2>1 DEF GuestRound
  <2>4. ok' = [ok EXCEPT ![g] = FALSE]
    BY <2>2, <2>3
  <2>5. ok' \in [Players -> BOOLEAN] /\ \A c \in Players : ok'[c] => ok[c]
    BY <1>1, <2>4 DEF ShakeTypes
  <2>6. /\ shaking' \in [Players -> BOOLEAN]
        /\ \A c \in Players : shaking'[c] => shaking[c]
    BY <1>1, <2>3 DEF ShakeTypes
  <2>7. helloUp' \in [Guests -> BOOLEAN] /\ helloDown' \in [Guests -> BOOLEAN]
    BY <1>1, <2>3 DEF ShakeTypes
  <2>8. /\ \A c \in Players : shaking'[c] => shaking[c] /\ ~ok'[c]
        /\ \A d \in Guests : ~ok'[d]
    BY <1>1, <2>5, <2>6, GuestPlayer DEF ShakeTypes, HInv
  <2> QED
    BY <1>2, <2>2, <2>5, <2>6, <2>7, <2>8
<1>5. CASE \E c \in Players : TimeOut(c)
  BY <1>1, <1>2, <1>5, GuestPlayer DEF TimeOut, HInv, ShakeTypes
<1>6. CASE PlayStep(Host, HostPumpSome)
  <2>1. PICK dropped \in SUBSET DroppableAggs, arrived \in SUBSET toHost :
               HostPump(dropped, arrived)
    BY <1>6 DEF PlayStep, HostPumpSome
  <2>2. IInv' /\ ~shaking[Host] /\ UNCHANGED hvars
    BY <1>1, <1>6, <2>1, IInvHostPump DEF PlayStep
  <2>3. toHost' = toHost /\ \A d \in Players : d # Host => phase'[d] = phase[d]
    BY <1>1, <2>1 DEF HostPump, TypeOK
  <2>4. \A g \in Guests, f \in Frames : known'[g][f] =>
          known[g][f] \/ \E d \in toHost : d.player = g
    BY <2>1, GuestPlayer DEF HostPump, HostDrain, HostStore, Heard
  <2> QED
    BY <2>2, <2>3, <2>4, HostPlayer, PlayInv
<1>7. CASE \E g \in Guests : PlayStep(g, GuestPumpSome(g))
  <2>0. PICK g \in Guests : PlayStep(g, GuestPumpSome(g))
    BY <1>7
  <2>1. PICK dropped \in SUBSET DroppableInputs(g), arrived \in SUBSET toGuest[g] :
               ~shaking[g] /\ GuestPump(g, dropped, arrived) /\ UNCHANGED hvars
    BY <2>0 DEF PlayStep, GuestPumpSome
  <2>2. IInv'
    BY <1>1, <2>1, IInvGuestPump
  <2>3. known' = known /\ \A d \in Players : d # g => phase'[d] = phase[d]
    BY <1>1, <2>1 DEF GuestPump, TypeOK
  <2>4. \A d \in toHost' : d \in toHost \/ d.player = g
    BY <2>1 DEF GuestPump, SendInputs
  <2> QED
    BY <2>1, <2>2, <2>3, <2>4, GuestPlayer, PlayInv
<1>8. CASE \E c \in Players : PlayStep(c, RecordSome(c))
  <2>1. PICK c \in Players, state \in Inputs :
               ~shaking[c] /\ RecordLocal(c, state) /\ UNCHANGED hvars
    BY <1>8 DEF PlayStep, RecordSome
  <2>2. IInv'
    BY <1>1, <2>1, IInvRecord
  <2>3. toHost' = toHost /\ \A d \in Players : d # c => phase'[d] = phase[d]
    BY <1>1, <2>1 DEF RecordLocal, TypeOK
  <2>4. \A g \in Guests : known'[g] = known[g]
    BY <1>1, <2>1, GuestPlayer DEF RecordLocal, TypeOK
  <2> QED
    BY <2>1, <2>2, <2>3, <2>4, PlayInv
<1>9. CASE \E c \in Players : PlayStep(c, Apply(c))
  <2>1. PICK c \in Players : ~shaking[c] /\ Apply(c) /\ UNCHANGED hvars
    BY <1>9 DEF PlayStep
  <2>2. IInv'
    BY <1>1, <2>1, IInvApply
  <2>3. UNCHANGED <<toHost, known>> /\ \A d \in Players : d # c => phase'[d] = phase[d]
    BY <1>1, <2>1 DEF Apply, TypeOK
  <2> QED
    BY <2>1, <2>2, <2>3, PlayInv
<1>10. CASE UNCHANGED allVars
  BY <1>1, <1>2, <1>10, GuestPlayer DEF allVars, hvars, HInv, ShakeTypes
<1> QED
  BY <1>3, <1>4, <1>5, <1>6, <1>7, <1>8, <1>9, <1>10 DEF HNext

LEMMA HInvAlways == HSpec => []HInv
BY HInitInv, HStepInv, PTL DEF HSpec

-----------------------------------------------------------------------------
(* The theorems *)

\* A match behind a handshake is well formed, and no console takes a step of its
\* loop during its handshake (xbl_lockstep_n_handshake).
THEOREM HandshakeTypeCorrect == HSpec => []HTypeOK
<1>1. HInv => HTypeOK
  BY DEF HInv, IInv, ShakeTypes, HTypeOK
<1> QED
  BY <1>1, HInvAlways, PTL

\* The handshake of a guest never succeeds, for any number of players and any
\* network: it waits for an aggregate that holds an input the guest sends only
\* after its handshake (the test ls->ready[0] in xbl_lockstep_n_handshake).
THEOREM GuestsAlwaysTimeOut == HSpec => []GuestHandshakeTimesOut
<1>1. HInv => GuestHandshakeTimesOut
  BY DEF HInv, GuestHandshakeTimesOut
<1> QED
  BY <1>1, HInvAlways, PTL

\* Whatever the handshakes drain, and whatever they return, the consoles step
\* every frame with the same inputs (sdk/xbl_net.h, "you may still proceed").
THEOREM HandshakeNeverDesyncs == HSpec => []Agreement
<1>1. HInv => Agreement
  BY DEF HInv, IInv, ViewRecorded, Agreement
<1> QED
  BY <1>1, HInvAlways, PTL

\* Whatever the handshakes drain, the host never passes a frame it has not
\* relayed to every guest.
THEOREM HandshakeSkipsNoRelay == HSpec => []RelayedBeforePassed
<1>1. HInv => RelayedBeforePassed
  BY DEF HInv, IInv, PassedRelayed, Left, RelayedBeforePassed, Wedged
<1> QED
  BY <1>1, HInvAlways, PTL

\* Whatever the handshakes drain, a guest leaves a frame only after the host has
\* its input for it: an input that the host drains early is not forgotten.
THEOREM HandshakeAcknowledgesInputs == HSpec => []InputAcknowledged
<1>1. HInv => InputAcknowledged
  BY GuestPlayer DEF HInv, IInv, ViewRecorded, InputAcknowledged, Complete
<1> QED
  BY <1>1, HInvAlways, PTL

\* A frame that is ready stays so behind handshakes: what the host's handshake
\* drains early is final too.
THEOREM HandshakeReadyIsFinal == HSpec => ReadyFrameStable
<1>1. HInv /\ HInv' /\ [HNext]_allVars => [ReadyStep]_vars
  <2> SUFFICES ASSUME HInv, HInv', HNext PROVE ReadyStep \/ UNCHANGED vars
    BY DEF allVars
  <2>1. IInv /\ IInv'
    BY DEF HInv
  <2>2. CASE HostRoundSome
    <3>1. PICK sent \in SUBSET Guests, arrived \in SUBSET toHost,
               hellos \in SUBSET {g \in Guests : helloUp[g]} :
            HostRound(sent, arrived, hellos)
      BY <2>2 DEF HostRoundSome
    <3>2. Keeps
      BY <2>1, <3>1, HostRoundKeeps
    <3> QED
      BY <2>1, <3>1, <3>2, ReadyKept DEF HostRound
  <2>3. CASE \E g \in Guests : GuestRoundSome(g)
    <3>1. PICK g \in Guests : GuestRoundSome(g)
      BY <2>3
    <3>2. PICK sent \in BOOLEAN, hi \in BOOLEAN, arrived \in SUBSET toGuest[g] :
            GuestRound(g, sent, arrived, hi)
      BY <3>1 DEF GuestRoundSome
    <3> QED
      BY <3>2, GuestRoundIdle DEF HInv, GuestRound
  <2>4. CASE \E c \in Players : TimeOut(c)
    BY <2>4 DEF TimeOut
  <2>5. CASE Next
    BY <2>1, <2>5, StepKeepsReady
  <2> QED
    BY <2>2, <2>3, <2>4, <2>5 DEF HNext, PlayStep, Next
<1>2. ReadyStep =>
        \A c \in Players, f \in Frames :
          Have(c, f) => Have(c, f)' /\ FrameInputs(c, f)' = FrameInputs(c, f)
  BY DEF ReadyStep
<1> QED
  BY <1>1, <1>2, HInvAlways, PTL DEF HSpec, ReadyFrameStable

\* A match behind handshakes keeps the promise of sdk/xbl_net.h too: their rounds
\* are no steps of the abstract lockstep, although the host's drains inputs.
THEOREM HandshakeImplementsLockstep == HSpec => ImplementsLockstep
<1>1. HInv /\ [HNext]_allVars => [Promise!Next]_(Promise!vars)
  <2> SUFFICES ASSUME HInv, [HNext]_allVars PROVE [Promise!Next]_(Promise!vars)
    OBVIOUS
  <2>1. IInv /\ \A g \in Guests : Fresh(g)
    BY DEF HInv
  <2>2. ASSUME [Next]_vars PROVE [Promise!Next]_(Promise!vars)
    BY <2>1, <2>2, RefineStep
  <2>3. CASE HostRoundSome
    <3>1. PICK sent \in SUBSET Guests, arrived \in SUBSET toHost,
               hellos \in SUBSET {g \in Guests : helloUp[g]} :
            HostRound(sent, arrived, hellos)
      BY <2>3 DEF HostRoundSome
    <3>2. /\ \A p \in Players : Recorded(p)' = Recorded(p)
          /\ \A p \in Players : table'[p][p] = table[p][p]
      BY <2>1, <3>1, HostRoundKeeps
    <3> QED
      BY <3>1, <3>2 DEF Promise!vars, HostRound
  <2>4. CASE \E g \in Guests : GuestRoundSome(g)
    <3>1. PICK g \in Guests : GuestRoundSome(g)
      BY <2>4
    <3>2. PICK sent \in BOOLEAN, hi \in BOOLEAN, arrived \in SUBSET toGuest[g] :
            GuestRound(g, sent, arrived, hi)
      BY <3>1 DEF GuestRoundSome
    <3>3. UNCHANGED vars
      BY <2>1, <3>2, GuestRoundIdle DEF GuestRound
    <3> QED
      BY <2>2, <3>3
  <2>5. CASE (\E c \in Players : TimeOut(c)) \/ UNCHANGED allVars
    BY <2>2, <2>5 DEF TimeOut, allVars
  <2>6. CASE Next
    BY <2>2, <2>6
  <2> QED
    BY <2>3, <2>4, <2>5, <2>6 DEF HNext, PlayStep, Next
<1>2. HInit => Promise!Init
  BY RefineInit DEF HInit
<1> QED
  BY <1>1, <1>2, HInvAlways, PTL DEF HSpec, Promise!Spec, ImplementsLockstep
=============================================================================
