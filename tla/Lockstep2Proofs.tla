--------------------------- MODULE Lockstep2Proofs ---------------------------
(* Proofs about the two-player lockstep, for every delay, match length,     *)
(* loss budget and set of inputs.                                           *)
EXTENDS Handshake, TLAPS

LEMMA OtherPlayer ==
  \A p \in Players : Other(p) \in Players /\ Other(Other(p)) = p /\ Other(p) # p
BY DEF Players, Other

\* A scheduled frame and a window lie inside the buffer.
LEMMA ScheduleInBuffer ==
  ASSUME NEW f \in 0 .. MaxFrames, f # MaxFrames
  PROVE  /\ f + Delay \in Frames
         /\ f \in MatchFrames
         /\ f \in Frames
         /\ Window(f) = f .. (f + Delay)
BY DelayAssumption, MaxFramesAssumption DEF Frames, MatchFrames, Window

\* The state a drain leaves is one of a datagram it read.
LEMMA StateForHeard ==
  ASSUME NEW arrived \in SUBSET Datagrams, NEW d \in arrived
  PROVE  /\ StateFor(arrived, d.frame) \in Inputs
         /\ [frame |-> d.frame, state |-> StateFor(arrived, d.frame)] \in arrived
<1>1. d.state \in Inputs /\ d = [frame |-> d.frame, state |-> d.state]
  BY DEF Datagrams
<1>2. \E s \in Inputs : [frame |-> d.frame, state |-> s] \in arrived
  BY <1>1
<1> QED
  BY <1>2, Zenon DEF StateFor

-----------------------------------------------------------------------------
(* Type correctness *)

LEMMA TypeInit == Init => TypeOK
BY InputsAssumption, MaxFramesAssumption
DEF Init, TypeOK, Players, MatchFrames, Silence

LEMMA TypeRecord ==
  ASSUME TypeOK, NEW p \in Players, NEW state \in Inputs, RecordLocal(p, state)
  PROVE  TypeOK'
<1>1. frame[p] \in 0 .. MaxFrames /\ frame[p] # MaxFrames
  BY DEF TypeOK, RecordLocal
<1>2. frame[p] + Delay \in Frames
  BY <1>1, ScheduleInBuffer
<1>3. mine' \in [Players -> [Frames -> Inputs]]
  BY <1>2 DEF TypeOK, RecordLocal
<1>4. phase' \in [Players -> {"record", "pump", "wait", "done"}]
  BY DEF TypeOK, RecordLocal
<1>5. \A q \in Players : phase'[q] = "done" <=> frame'[q] = MaxFrames
  BY <1>1 DEF TypeOK, RecordLocal
<1> QED
  BY <1>3, <1>4, <1>5 DEF TypeOK, RecordLocal

LEMMA TypeDrain ==
  ASSUME TypeOK, NEW p \in Players, NEW arrived \in SUBSET net[Other(p)], Drain(p, arrived)
  PROVE  /\ peer' \in [Players -> [Frames -> Inputs]]
         /\ peerKnown' \in [Players -> [Frames -> BOOLEAN]]
<1> DEFINE heard == {d.frame : d \in arrived}
<1>1. arrived \in SUBSET Datagrams
  BY OtherPlayer DEF TypeOK
<1>2. \A f \in Frames :
        (IF f \in heard THEN StateFor(arrived, f) ELSE peer[p][f]) \in Inputs
  BY <1>1, StateForHeard DEF TypeOK
<1>3. peer' \in [Players -> [Frames -> Inputs]]
  BY <1>2 DEF TypeOK, Drain
<1> QED
  BY <1>3 DEF TypeOK, Drain

LEMMA TypePump ==
  ASSUME TypeOK, NEW p \in Players,
         NEW dropped \in SUBSET Window(frame[p]),
         NEW arrived \in SUBSET net[Other(p)],
         Pump(p, dropped, arrived)
  PROVE  TypeOK'
<1>1. frame[p] \in 0 .. MaxFrames /\ frame[p] # MaxFrames
  BY DEF TypeOK, Pump
<1>2. /\ peer' \in [Players -> [Frames -> Inputs]]
      /\ peerKnown' \in [Players -> [Frames -> BOOLEAN]]
  BY TypeDrain DEF Pump
<1>3. net' \in [Players -> SUBSET Datagrams]
  <2>1. \A f \in Window(frame[p]) : [frame |-> f, state |-> mine[p][f]] \in Datagrams
    BY DEF TypeOK, Window, Datagrams
  <2> QED
    BY <2>1 DEF TypeOK, Pump, SendWindow
<1>4. lost' \in [Players -> [Frames -> Nat]]
  BY DEF TypeOK, Pump, SendWindow
<1>5. phase' \in [Players -> {"record", "pump", "wait", "done"}]
  BY DEF TypeOK, Pump
<1>6. \A q \in Players : phase'[q] = "done" <=> frame'[q] = MaxFrames
  BY <1>1 DEF TypeOK, Pump
<1> QED
  BY <1>2, <1>3, <1>4, <1>5, <1>6 DEF TypeOK, Pump

LEMMA TypeApply ==
  ASSUME TypeOK, NEW p \in Players, Apply(p)
  PROVE  TypeOK'
<1>1. frame[p] \in 0 .. MaxFrames /\ frame[p] # MaxFrames
  BY DEF TypeOK, Apply
<1>2. frame[p] \in MatchFrames /\ frame[p] \in Frames /\ frame[p] + 1 \in 0 .. MaxFrames
  BY <1>1, ScheduleInBuffer, MaxFramesAssumption
<1>3. OrderedInputs(p, frame[p]) \in [Players -> Inputs]
  BY <1>2 DEF TypeOK, OrderedInputs
<1>4. view' \in [Players -> [MatchFrames -> [Players -> Inputs]]]
  BY <1>2, <1>3 DEF TypeOK, Apply
<1>5. frame' \in [Players -> 0 .. MaxFrames]
  BY <1>2 DEF TypeOK, Apply
<1>6. phase' \in [Players -> {"record", "pump", "wait", "done"}]
  BY DEF TypeOK, Apply
<1>7. \A q \in Players : phase'[q] = "done" <=> frame'[q] = MaxFrames
  <2>1. phase'[p] = (IF frame[p] + 1 < MaxFrames THEN "record" ELSE "done")
    BY DEF TypeOK, Apply
  <2>2. frame'[p] = frame[p] + 1
    BY DEF TypeOK, Apply
  <2>3. phase'[p] = "done" <=> frame'[p] = MaxFrames
    BY <1>1, <2>1, <2>2, MaxFramesAssumption
  <2>4. \A q \in Players : q # p => phase'[q] = phase[q] /\ frame'[q] = frame[q]
    BY DEF TypeOK, Apply
  <2> QED
    BY <2>3, <2>4 DEF TypeOK
<1> QED
  BY <1>4, <1>5, <1>6, <1>7 DEF TypeOK, Apply

LEMMA TypeStep == TypeOK /\ [Next]_vars => TypeOK'
<1> SUFFICES ASSUME TypeOK, [Next]_vars PROVE TypeOK'
  OBVIOUS
<1>1. CASE UNCHANGED vars
  BY <1>1 DEF vars, TypeOK
<1>2. ASSUME NEW p \in Players, RecordSome(p) PROVE TypeOK'
  BY <1>2, TypeRecord DEF RecordSome
<1>3. ASSUME NEW p \in Players, PumpSome(p) PROVE TypeOK'
  BY <1>3, TypePump DEF PumpSome
<1>4. ASSUME NEW p \in Players, Apply(p) PROVE TypeOK'
  BY <1>4, TypeApply
<1> QED
  BY <1>1, <1>2, <1>3, <1>4 DEF Next

\* Every buffer index stays below ls->cap and every buffer holds inputs, in
\* every match (XblLockstep and the loop of sdk/xbl_net.h).
THEOREM TypeCorrect == Spec => []TypeOK
BY TypeInit, TypeStep, PTL DEF Spec

-----------------------------------------------------------------------------
(* The inductive invariant *)

\* What a step does to the recorded inputs: RecordLocal schedules the first
\* frame that was still open, nothing else writes ls->mine.
LEMMA RecordEffect ==
  ASSUME TypeOK, NEW p \in Players, NEW state \in Inputs, RecordLocal(p, state)
  PROVE  /\ Recorded(p)' = Recorded(p) + 1
         /\ \A q \in Players : q # p => Recorded(q)' = Recorded(q)
         /\ \A q \in Players : Recorded(q)' >= Recorded(q)
         /\ \A q \in Players : Pumped(q)' = Pumped(q)
         /\ \A q \in Players, f \in Frames :
              f < Recorded(q) + Delay => mine'[q][f] = mine[q][f]
<1>1. frame[p] \in 0 .. MaxFrames /\ phase[p] = "record" /\ phase'[p] = "pump"
  BY DEF TypeOK, RecordLocal
<1>2. \A q \in Players : q # p => phase'[q] = phase[q]
  BY DEF TypeOK, RecordLocal
<1>3. \A q \in Players : frame'[q] = frame[q] /\ frame[q] \in 0 .. MaxFrames
  BY DEF TypeOK, RecordLocal
<1>4. \A q \in Players : Recorded(q) \in Int
  BY <1>3, MaxFramesAssumption DEF Recorded
<1>5. Recorded(p) = frame[p] /\ Recorded(p)' = frame[p] + 1
  BY <1>1, <1>3 DEF Recorded
<1>6. \A q \in Players : q # p => Recorded(q)' = Recorded(q)
  BY <1>2, <1>3 DEF Recorded
<1>7. \A q \in Players : Pumped(q)' = Pumped(q)
  BY <1>1, <1>2, <1>3 DEF Pumped
<1>8. \A f \in Frames : f < frame[p] + Delay => mine'[p][f] = mine[p][f]
  BY <1>1, DelayAssumption DEF TypeOK, RecordLocal, Frames
<1>9. \A q \in Players : q # p => mine'[q] = mine[q]
  BY DEF TypeOK, RecordLocal
<1> QED
  BY <1>1, <1>4, <1>5, <1>6, <1>7, <1>8, <1>9

LEMMA PumpEffect ==
  ASSUME TypeOK, NEW p \in Players,
         NEW dropped \in SUBSET Window(frame[p]),
         NEW arrived \in SUBSET net[Other(p)],
         Pump(p, dropped, arrived)
  PROVE  /\ \A q \in Players : Recorded(q)' = Recorded(q)
         /\ Recorded(p) = frame[p] + 1
         /\ Pumped(p)' = frame[p] + 1
         /\ Pumped(p) = frame[p] \/ Pumped(p) = frame[p] + 1
         /\ \A q \in Players : q # p => Pumped(q)' = Pumped(q)
<1>1. phase[p] \in {"pump", "wait"} /\ phase'[p] = "wait"
  BY DEF TypeOK, Pump
<1>2. \A q \in Players : q # p => phase'[q] = phase[q]
  BY DEF TypeOK, Pump
<1>3. \A q \in Players : frame'[q] = frame[q]
  BY DEF Pump
<1> QED
  BY <1>1, <1>2, <1>3 DEF Recorded, Pumped

LEMMA ApplyEffect ==
  ASSUME TypeOK, NEW p \in Players, Apply(p)
  PROVE  /\ \A q \in Players : Recorded(q)' = Recorded(q)
         /\ Recorded(p) = frame[p] + 1
         /\ \A q \in Players : Pumped(q)' = Pumped(q)
<1>1. phase[p] = "wait" /\ phase'[p] \in {"record", "done"}
  BY DEF TypeOK, Apply
<1>2. \A q \in Players : q # p => phase'[q] = phase[q] /\ frame'[q] = frame[q]
  BY DEF TypeOK, Apply
<1>3. frame'[p] = frame[p] + 1
  BY DEF TypeOK, Apply
<1> QED
  BY <1>1, <1>2, <1>3 DEF Recorded, Pumped

LEMMA LinkInit == Init => LinkInv
<1> SUFFICES ASSUME Init PROVE LinkInv
  OBVIOUS
<1>1. TypeOK
  BY TypeInit
<1>2. NetFixed
  BY DEF Init, NetFixed
<1>3. KnownFixed
  BY DEF Init, KnownFixed
<1>4. ViewRecorded
  BY DEF Init, ViewRecorded, MatchFrames
<1> QED
  BY <1>1, <1>2, <1>3, <1>4 DEF LinkInv

LEMMA LinkRecord ==
  ASSUME LinkInv, NEW p \in Players, NEW state \in Inputs, RecordLocal(p, state)
  PROVE  LinkInv'
<1> USE DEF LinkInv
<1>1. TypeOK'
  BY TypeRecord
<1>2. \A q \in Players : Recorded(q) \in Int /\ Recorded(q)' \in Int
  BY <1>1, MaxFramesAssumption DEF TypeOK, Recorded
<1>3. NetFixed'
  <2> SUFFICES ASSUME NEW q \in Players, NEW d \in net[q]
               PROVE  d.frame < Recorded(q)' + Delay /\ d.state = mine'[q][d.frame]
    BY DEF NetFixed, RecordLocal
  <2>1. d.frame \in Frames /\ d.frame \in Int
    BY DelayAssumption, MaxFramesAssumption DEF TypeOK, Datagrams, Frames
  <2>2. d.frame < Recorded(q) + Delay /\ d.state = mine[q][d.frame]
    BY DEF NetFixed
  <2>3. mine'[q][d.frame] = mine[q][d.frame]
    BY <2>1, <2>2, RecordEffect
  <2>4. Recorded(q)' >= Recorded(q)
    BY RecordEffect
  <2> QED
    BY <1>2, <2>1, <2>2, <2>3, <2>4, DelayAssumption
<1>4. KnownFixed'
  <2> SUFFICES ASSUME NEW q \in Players, NEW f \in Frames, peerKnown[q][f]
               PROVE  /\ f < Recorded(Other(q))' + Delay
                      /\ peer[q][f] = mine'[Other(q)][f]
    BY DEF KnownFixed, RecordLocal
  <2>1. f < Recorded(Other(q)) + Delay /\ peer[q][f] = mine[Other(q)][f]
    BY DEF KnownFixed
  <2>2. mine'[Other(q)][f] = mine[Other(q)][f] /\ Recorded(Other(q))' >= Recorded(Other(q))
    BY <2>1, OtherPlayer, RecordEffect
  <2>3. f \in Int
    BY DelayAssumption, MaxFramesAssumption DEF Frames
  <2> QED
    BY <1>2, <2>1, <2>2, <2>3, OtherPlayer, DelayAssumption
<1>5. ViewRecorded'
  <2> SUFFICES ASSUME NEW q \in Players, NEW f \in MatchFrames, f < frame[q]
               PROVE  /\ f < Recorded(Other(q))' + Delay
                      /\ view[q][f] = [r \in Players |-> mine'[r][f]]
    BY DEF ViewRecorded, RecordLocal
  <2>1. f \in Frames /\ f \in Int
    BY DelayAssumption, MaxFramesAssumption DEF MatchFrames, Frames
  <2>2. /\ f < Recorded(Other(q)) + Delay
        /\ view[q][f] = [r \in Players |-> mine[r][f]]
    BY DEF ViewRecorded
  <2>3. f < Recorded(q) + Delay
    BY <2>1, DelayAssumption, MaxFramesAssumption DEF TypeOK, Recorded
  <2>4. \A r \in Players : mine'[r][f] = mine[r][f]
    BY <2>1, <2>2, <2>3, RecordEffect DEF Players, Other
  <2>5. Recorded(Other(q))' >= Recorded(Other(q))
    BY OtherPlayer, RecordEffect
  <2> QED
    BY <1>2, <2>1, <2>2, <2>4, <2>5, OtherPlayer, DelayAssumption
<1> QED
  BY <1>1, <1>3, <1>4, <1>5

LEMMA LinkApply ==
  ASSUME LinkInv, NEW p \in Players, Apply(p)
  PROVE  LinkInv'
<1> USE DEF LinkInv
<1>1. TypeOK'
  BY TypeApply
<1>2. \A q \in Players : Recorded(q)' = Recorded(q)
  BY ApplyEffect
<1>3. NetFixed'
  BY <1>2 DEF NetFixed, Apply
<1>4. KnownFixed'
  BY <1>2, OtherPlayer DEF KnownFixed, Apply
<1>5. ViewRecorded'
  <2> SUFFICES ASSUME NEW q \in Players, NEW f \in MatchFrames, f < frame'[q]
               PROVE  /\ f < Recorded(Other(q)) + Delay
                      /\ view'[q][f] = [r \in Players |-> mine[r][f]]
    BY <1>2, OtherPlayer DEF ViewRecorded, Apply
  <2>1. CASE q # p \/ f # frame[p]
    <3>1. f < frame[q] /\ view'[q][f] = view[q][f]
      BY <2>1 DEF TypeOK, Apply, MatchFrames
    <3> QED
      BY <3>1 DEF ViewRecorded
  <2>2. CASE q = p /\ f = frame[p]
    <3>1. f \in Frames
      BY DelayAssumption, MaxFramesAssumption DEF MatchFrames, Frames
    <3>2. f < Recorded(Other(p)) + Delay /\ peer[p][f] = mine[Other(p)][f]
      BY <2>2, <3>1 DEF KnownFixed, Apply, Have
    <3>3. view'[p][f] = OrderedInputs(p, f)
      BY <2>2 DEF TypeOK, Apply
    <3>4. OrderedInputs(p, f) = [r \in Players |-> mine[r][f]]
      BY <3>2 DEF OrderedInputs, Players, Other
    <3> QED
      BY <2>2, <3>2, <3>3, <3>4
  <2> QED
    BY <2>1, <2>2
<1> QED
  BY <1>1, <1>3, <1>4, <1>5

\* A drain leaves in the buffers what was sent, whatever arrived and in
\* whatever order.
LEMMA KnownFixedDrain ==
  ASSUME TypeOK, NetFixed, KnownFixed, NEW p \in Players,
         NEW arrived \in SUBSET net[Other(p)],
         Drain(p, arrived), mine' = mine, \A q \in Players : Recorded(q)' = Recorded(q)
  PROVE  KnownFixed'
<1> SUFFICES ASSUME NEW q \in Players, NEW f \in Frames, peerKnown'[q][f]
             PROVE  f < Recorded(Other(q)) + Delay /\ peer'[q][f] = mine[Other(q)][f]
  BY OtherPlayer DEF KnownFixed
<1> DEFINE heard == {d.frame : d \in arrived}
<1>1. CASE q = p /\ f \in heard
  <2>1. PICK d \in arrived : d.frame = f
    BY <1>1
  <2>2. arrived \in SUBSET Datagrams
    BY OtherPlayer DEF TypeOK
  <2>3. [frame |-> f, state |-> StateFor(arrived, f)] \in arrived
    BY <2>1, <2>2, StateForHeard
  <2>4. peer'[p][f] = StateFor(arrived, f)
    BY <1>1 DEF TypeOK, Drain
  <2> QED
    BY <1>1, <2>3, <2>4, OtherPlayer DEF NetFixed
<1>2. CASE ~(q = p /\ f \in heard)
  <2>1. peer'[q][f] = peer[q][f] /\ peerKnown[q][f]
    BY <1>2 DEF TypeOK, Drain
  <2> QED
    BY <2>1 DEF KnownFixed
<1> QED
  BY <1>1, <1>2

LEMMA LinkPump ==
  ASSUME LinkInv, NEW p \in Players,
         NEW dropped \in SUBSET Window(frame[p]),
         NEW arrived \in SUBSET net[Other(p)],
         Pump(p, dropped, arrived)
  PROVE  LinkInv'
<1> USE DEF LinkInv
<1>1. TypeOK'
  BY TypePump
<1>2. \A q \in Players : Recorded(q)' = Recorded(q)
  BY PumpEffect
<1>3. NetFixed'
  <2> SUFFICES ASSUME NEW q \in Players, NEW d \in net'[q]
               PROVE  d.frame < Recorded(q) + Delay /\ d.state = mine[q][d.frame]
    BY <1>2 DEF NetFixed, Pump
  <2>1. CASE d \in net[q]
    BY <2>1 DEF NetFixed
  <2>2. CASE d \notin net[q]
    <3>1. q = p /\ d.frame \in Window(frame[p]) /\ d.state = mine[p][d.frame]
      BY <2>2 DEF TypeOK, Pump, SendWindow
    <3>2. d.frame <= frame[p] + Delay /\ d.frame \in Int
      BY <3>1, DelayAssumption DEF Window, TypeOK
    <3>3. Recorded(p) = frame[p] + 1
      BY PumpEffect
    <3> QED
      BY <3>1, <3>2, <3>3, DelayAssumption DEF TypeOK
  <2> QED
    BY <2>1, <2>2
<1>4. KnownFixed'
  BY <1>2, KnownFixedDrain DEF Pump
<1>5. ViewRecorded'
  BY <1>2, OtherPlayer DEF ViewRecorded, Pump
<1> QED
  BY <1>1, <1>3, <1>4, <1>5

\* The redundancy argument: each new frame whose window holds f sends f once
\* more, and a frame out of the window is not counted.
LEMMA CountedPump ==
  ASSUME TypeOK, NEW q \in Players, NEW f \in Frames, Counted(q, f),
         NEW p \in Players,
         NEW dropped \in SUBSET Window(frame[p]),
         NEW arrived \in SUBSET net[Other(p)],
         Pump(p, dropped, arrived)
  PROVE  Counted(q, f)'
<1> SUFFICES ASSUME \A d \in net'[q] : d.frame # f
             PROVE  lost'[q][f] >= Covered(q, f)'
  BY DEF Counted
<1>1. \A d \in net[q] : d.frame # f
  BY DEF TypeOK, Pump, SendWindow
<1>2. lost[q][f] >= Covered(q, f) /\ lost[q][f] \in Nat
  BY <1>1 DEF Counted, TypeOK
<1>3. CASE q # p
  <2>1. Covered(q, f)' = Covered(q, f)
    BY <1>3, PumpEffect DEF Covered
  <2>2. lost'[q][f] = lost[q][f]
    BY <1>3 DEF TypeOK, Pump, SendWindow
  <2> QED
    BY <1>2, <2>1, <2>2
<1>4. CASE q = p
  <2>1. frame[p] \in 0 .. MaxFrames /\ frame[p] # MaxFrames
    BY DEF TypeOK, Pump
  <2>2. Window(frame[p]) = frame[p] .. (frame[p] + Delay)
    BY <2>1, ScheduleInBuffer
  <2>3. Pumped(p)' = frame[p] + 1 /\ Pumped(p) \in {frame[p], frame[p] + 1}
    BY PumpEffect
  <2>4. /\ f \in Int /\ Tolerated(f) \in Int /\ Delay \in Int
        /\ Tolerated(f) <= Delay /\ Tolerated(f) <= f
        /\ Tolerated(f) = Delay \/ Tolerated(f) = f
        /\ Tolerated(f) >= 0
    BY DelayAssumption, MaxFramesAssumption DEF Tolerated, Frames
  <2>5. CASE f \in Window(frame[p])
    <3>1. f \in dropped
      <4>1. SUFFICES ASSUME f \notin dropped PROVE FALSE
        OBVIOUS
      <4>2. [frame |-> f, state |-> mine[p][f]] \in net'[p]
        BY <2>5, <4>1 DEF TypeOK, Pump, SendWindow
      <4> QED
        BY <1>4, <4>2
    <3>2. lost'[p][f] = lost[p][f] + 1
      BY <3>1 DEF TypeOK, Pump, SendWindow
    <3>3. Covered(p, f)' <= Covered(p, f) + 1
      BY <2>1, <2>2, <2>3, <2>4, <2>5 DEF Covered
    <3>4. Covered(p, f) \in Int /\ Covered(p, f)' \in Int
      BY <2>1, <2>3, <2>4 DEF Covered
    <3> QED
      BY <1>2, <1>4, <3>2, <3>3, <3>4
  <2>6. CASE f \notin Window(frame[p])
    <3>1. f < frame[p] \/ f > frame[p] + Delay
      BY <2>1, <2>2, <2>4, <2>6
    <3>2. Covered(p, f)' = Covered(p, f)
      BY <2>1, <2>3, <2>4, <3>1 DEF Covered
    <3>3. lost'[p][f] = lost[p][f]
      BY <2>6 DEF TypeOK, Pump, SendWindow
    <3> QED
      BY <1>2, <1>4, <3>2, <3>3
  <2> QED
    BY <2>5, <2>6
<1> QED
  BY <1>3, <1>4

\* A step that neither pumps nor applies what is not there leaves the count.
LEMMA CountedKept ==
  ASSUME TypeOK, NEW q \in Players, NEW f \in Frames, Counted(q, f),
         NEW p \in Players, RecordSome(p) \/ Apply(p)
  PROVE  Counted(q, f)'
<1>1. Covered(q, f)' = Covered(q, f)
  <2>1. Pumped(q)' = Pumped(q)
    BY RecordEffect, ApplyEffect DEF RecordSome
  <2> QED
    BY <2>1 DEF Covered
<1>2. UNCHANGED <<net, lost>>
  BY DEF RecordSome, RecordLocal, Apply
<1> QED
  BY <1>1, <1>2 DEF Counted

\* Before its first pump a console has nothing to count.
LEMMA NothingCovered ==
  ASSUME NEW q \in Players, NEW f \in Frames, Pumped(q) = 0
  PROVE  Covered(q, f) = 0
<1>1. f - Tolerated(f) >= 0
  BY DelayAssumption, MaxFramesAssumption DEF Tolerated, Frames
<1> QED
  BY <1>1 DEF Covered

LEMMA IInvInit == Init => IInv
<1> SUFFICES ASSUME Init PROVE IInv
  OBVIOUS
<1>1. LossCounted
  <2> SUFFICES ASSUME NEW p \in Players, NEW f \in Frames
               PROVE  Covered(p, f) = 0 /\ lost[p][f] = 0
    BY DEF LossCounted, Counted
  <2>1. Pumped(p) = 0 /\ lost[p][f] = 0
    BY DEF Init, Pumped
  <2> QED
    BY <2>1, NothingCovered
<1> QED
  BY <1>1, LinkInit DEF IInv

LEMMA IInvStep == IInv /\ [Next]_vars => IInv'
<1> SUFFICES ASSUME IInv, [Next]_vars PROVE IInv'
  OBVIOUS
<1> USE DEF IInv
<1>1. TypeOK
  BY DEF LinkInv
<1>2. CASE UNCHANGED vars
  BY <1>2 DEF vars, LinkInv, TypeOK, NetFixed, KnownFixed, ViewRecorded, LossCounted,
              Counted, Recorded, Pumped, Covered
<1>3. ASSUME NEW p \in Players, RecordSome(p) PROVE IInv'
  BY <1>1, <1>3, LinkRecord, CountedKept DEF RecordSome, LossCounted
<1>4. ASSUME NEW p \in Players, PumpSome(p) PROVE IInv'
  BY <1>1, <1>4, LinkPump, CountedPump DEF PumpSome, LossCounted
<1>5. ASSUME NEW p \in Players, Apply(p) PROVE IInv'
  BY <1>1, <1>5, LinkApply, CountedKept DEF LossCounted
<1> QED
  BY <1>2, <1>3, <1>4, <1>5 DEF Next

LEMMA Inductive == Spec => []IInv
BY IInvInit, IInvStep, PTL DEF Spec

-----------------------------------------------------------------------------
(* The safety properties *)

LEMMA LinkAgrees == LinkInv => Agreement
<1> SUFFICES ASSUME ViewRecorded, NEW f \in MatchFrames,
                    \A p \in Players : f < frame[p]
             PROVE  view[0][f] = view[1][f]
  BY DEF LinkInv, Agreement
<1> QED
  BY DEF ViewRecorded, Players

LEMMA LinkSkew == LinkInv => SkewBound
<1> SUFFICES ASSUME LinkInv, NEW p \in Players
             PROVE  frame[p] <= frame[Other(p)] + Delay + 1
  BY DEF SkewBound
<1>1. frame[p] \in 0 .. MaxFrames /\ frame[Other(p)] \in 0 .. MaxFrames
  BY OtherPlayer DEF LinkInv, TypeOK
<1>2. Recorded(Other(p)) <= frame[Other(p)] + 1 /\ Recorded(Other(p)) \in Int
  BY <1>1, MaxFramesAssumption DEF Recorded
<1>3. CASE frame[p] = 0
  BY <1>1, <1>3, DelayAssumption, MaxFramesAssumption
<1>4. CASE frame[p] # 0
  <2>1. frame[p] - 1 \in MatchFrames /\ frame[p] - 1 < frame[p]
    BY <1>1, <1>4, MaxFramesAssumption DEF MatchFrames
  <2>2. frame[p] - 1 < Recorded(Other(p)) + Delay
    BY <2>1 DEF LinkInv, ViewRecorded
  <2> QED
    BY <1>1, <1>2, <2>2, DelayAssumption, MaxFramesAssumption
<1> QED
  BY <1>3, <1>4

\* The frames whose window holds f have all been pumped, in vain.
LEMMA WedgedLost ==
  ASSUME TypeOK, NEW p \in Players, NEW f \in MatchFrames, Wedged(p, f),
         f \in Frames => Counted(Other(p), f)
  PROVE  lost[Other(p)][f] > Tolerated(f)
<1>1. f \in Frames /\ f \in Int /\ Other(p) \in Players
  BY OtherPlayer, DelayAssumption, MaxFramesAssumption DEF MatchFrames, Frames
<1>2. lost[Other(p)][f] >= Covered(Other(p), f)
  BY <1>1 DEF Counted, Wedged
<1>3. Pumped(Other(p)) > f /\ Pumped(Other(p)) \in Int
  BY <1>1, MaxFramesAssumption DEF Pumped, Wedged, TypeOK
<1>4. Tolerated(f) \in Int /\ Tolerated(f) >= 0
  BY <1>1, DelayAssumption, MaxFramesAssumption DEF Tolerated, MatchFrames
<1>5. Covered(Other(p), f) = Tolerated(f) + 1
  BY <1>1, <1>3, <1>4 DEF Covered
<1>6. lost[Other(p)][f] \in Int
  BY <1>1 DEF TypeOK
<1> QED
  BY <1>2, <1>4, <1>5, <1>6

\* The two simulations never desync (sdk/xbl_net.h): whatever is lost, late,
\* repeated or reordered, both consoles step a frame with the same inputs.
THEOREM NeverDesync == Spec => []Agreement
<1>1. IInv => Agreement
  BY LinkAgrees DEF IInv
<1> QED
  BY <1>1, Inductive, PTL

\* A console leads its peer by Delay + 1 frames at most (xbl_lockstep_have
\* holds it back).
THEOREM BoundedSkew == Spec => []SkewBound
<1>1. IInv => SkewBound
  BY LinkSkew DEF IInv
<1> QED
  BY <1>1, Inductive, PTL

\* A match is stuck at frame f only after more than Tolerated(f) lost copies of
\* it: Delay for a sampled input, f for a warm-up frame (xbl_lockstep_pump).
THEOREM RedundancyCovers == Spec => []LossTolerance
<1>1. IInv => LossTolerance
  <2> SUFFICES ASSUME IInv, NEW p \in Players, NEW f \in MatchFrames, Wedged(p, f)
               PROVE  lost[Other(p)][f] > Tolerated(f)
    BY DEF LossTolerance
  <2>1. f \in Frames => Counted(Other(p), f)
    BY OtherPlayer DEF IInv, LossCounted
  <2> QED
    BY <2>1, WedgedLost DEF IInv, LinkInv
<1> QED
  BY <1>1, Inductive, PTL

\* A known input is the one its player has fixed: to write it again changes nothing.
LEMMA StableUnlessForgotten ==
  ASSUME LinkInv, LinkInv', mine' = mine,
         NEW p \in Players, NEW f \in Frames, peerKnown[p][f], peerKnown'[p][f]
  PROVE  peer'[p][f] = peer[p][f]
<1>1. peer[p][f] = mine[Other(p)][f]
  BY DEF LinkInv, KnownFixed
<1>2. peer'[p][f] = mine'[Other(p)][f]
  BY DEF LinkInv, KnownFixed
<1> QED
  BY <1>1, <1>2

LEMMA StableStep ==
  ASSUME LinkInv, LinkInv', Next, NEW p \in Players, NEW f \in Frames, peerKnown[p][f]
  PROVE  peerKnown'[p][f] /\ peer'[p][f] = peer[p][f]
<1>1. CASE UNCHANGED <<peer, peerKnown>>
  BY <1>1
<1>2. ASSUME NEW q \in Players, PumpSome(q)
      PROVE  peerKnown'[p][f] /\ peer'[p][f] = peer[p][f]
  <2>1. peerKnown'[p][f] /\ mine' = mine
    BY <1>2 DEF PumpSome, Pump, Drain, LinkInv, TypeOK
  <2> QED
    BY <2>1, StableUnlessForgotten
<1> QED
  BY <1>1, <1>2 DEF Next, RecordSome, RecordLocal, Apply

\* What a console knows of a frame of its peer never changes: late and
\* repeated datagrams write the value that is there (ls_drain).
THEOREM KnownInputsAreFinal == Spec => KnownInputStable
<1>1. IInv /\ IInv' /\ [Next]_vars =>
        [\A p \in Players, f \in Frames :
           peerKnown[p][f] => peerKnown'[p][f] /\ peer'[p][f] = peer[p][f]]_vars
  BY StableStep DEF IInv
<1> QED
  BY <1>1, Inductive, PTL DEF Spec, KnownInputStable

-----------------------------------------------------------------------------
(* The link implements the abstract lockstep *)

LEMMA RefineInit == Init => Promise!Init
<1> SUFFICES ASSUME Init PROVE Promise!Init
  OBVIOUS
<1>1. \A p \in Players : Recorded(p) = 0
  BY DEF Init, Recorded
<1> QED
  BY <1>1 DEF Init, Promise!Init, Promise!Frames, Promise!MatchFrames, Promise!Silence,
              Frames, MatchFrames, Silence

LEMMA RefineRecord ==
  ASSUME TypeOK, NEW p \in Players, NEW state \in Inputs, RecordLocal(p, state)
  PROVE  Promise!Sample(p, state)
<1>1. frame[p] < MaxFrames
  <2>1. frame[p] \in 0 .. MaxFrames /\ frame[p] # MaxFrames
    BY DEF TypeOK, RecordLocal
  <2> QED
    BY <2>1, MaxFramesAssumption
<1>2. Recorded(p) = frame[p]
  BY DEF RecordLocal, Recorded
<1>3. [q \in Players |-> Recorded(q)]' =
        [[q \in Players |-> Recorded(q)] EXCEPT ![p] = @ + 1]
  BY RecordEffect
<1> QED
  BY <1>1, <1>2, <1>3 DEF Promise!Sample, RecordLocal

LEMMA RefinePump ==
  ASSUME TypeOK, NEW p \in Players,
         NEW dropped \in SUBSET Window(frame[p]),
         NEW arrived \in SUBSET net[Other(p)],
         Pump(p, dropped, arrived)
  PROVE  UNCHANGED Promise!vars
<1>1. [q \in Players |-> Recorded(q)]' = [q \in Players |-> Recorded(q)]
  BY PumpEffect
<1> QED
  BY <1>1 DEF Promise!vars, Pump

LEMMA RefineApply ==
  ASSUME LinkInv, NEW p \in Players, Apply(p)
  PROVE  Promise!Apply(p)
<1> DEFINE sampled == [q \in Players |-> Recorded(q)]
<1>1. sampled' = sampled
  BY ApplyEffect DEF LinkInv
<1>2. sampled[p] = frame[p] + 1
  BY ApplyEffect DEF LinkInv
<1>3. frame[p] \in 0 .. MaxFrames /\ frame[p] # MaxFrames
  BY DEF LinkInv, TypeOK, Apply
<1>4. frame[p] \in Frames
  BY <1>3, ScheduleInBuffer
<1>5. /\ frame[p] < Recorded(Other(p)) + Delay
      /\ peer[p][frame[p]] = mine[Other(p)][frame[p]]
  BY <1>4 DEF LinkInv, KnownFixed, Apply, Have
<1>6. \A q \in Players : frame[p] < sampled[q] + Delay
  BY <1>2, <1>3, <1>5, DelayAssumption DEF Players, Other
<1>7. OrderedInputs(p, frame[p]) = [q \in Players |-> mine[q][frame[p]]]
  BY <1>5 DEF OrderedInputs, Players, Other
<1>8. view' = [view EXCEPT ![p][frame[p]] = [q \in Players |-> mine[q][frame[p]]]]
  BY <1>7 DEF Apply
<1>9. frame' = [frame EXCEPT ![p] = @ + 1] /\ UNCHANGED mine
  BY DEF Apply
<1> QED
  BY <1>1, <1>2, <1>6, <1>8, <1>9 DEF Promise!Apply, Promise!Fixed

\* The two-player link implements the promise of sdk/xbl_net.h: every input is
\* applied Delay frames after it was sampled, by both consoles, and no frame
\* before all its inputs are fixed.
THEOREM LinkImplementsLockstep == Spec => ImplementsLockstep
<1>1. IInv /\ [Next]_vars => [Promise!Next]_(Promise!vars)
  <2> SUFFICES ASSUME IInv, [Next]_vars PROVE [Promise!Next]_(Promise!vars)
    OBVIOUS
  <2>1. CASE UNCHANGED vars
    BY <2>1 DEF vars, Promise!vars, Recorded
  <2>2. ASSUME NEW p \in Players, RecordSome(p) PROVE Promise!Next
    BY <2>2, RefineRecord DEF IInv, LinkInv, RecordSome, Promise!Next
  <2>3. ASSUME NEW p \in Players, PumpSome(p) PROVE UNCHANGED Promise!vars
    BY <2>3, RefinePump DEF IInv, LinkInv, PumpSome
  <2>4. ASSUME NEW p \in Players, Apply(p) PROVE Promise!Next
    BY <2>4, RefineApply DEF IInv, Promise!Next
  <2> QED
    BY <2>1, <2>2, <2>3, <2>4 DEF Next
<1> QED
  BY <1>1, RefineInit, Inductive, PTL DEF Spec, Promise!Spec, ImplementsLockstep
-----------------------------------------------------------------------------
(* The handshake in front of the match *)

LEMMA HInitInv == HInit => HInv
<1> SUFFICES ASSUME HInit PROVE HInv
  OBVIOUS
<1>1. LinkInv
  BY LinkInit DEF HInit
<1>2. HTypeOK
  BY DEF HInit, HTypeOK
<1>3. \A p \in Players : frame[p] = 0 /\ phase[p] = "record" /\ net[p] = {} /\ ~Heard(p)
  BY DEF HInit, Init, Heard
<1>4. Unheard
  BY <1>3, OtherPlayer DEF Unheard
<1>5. LeftAfterHeard /\ LossCountedSinceHeard
  BY <1>3 DEF LeftAfterHeard, LossCountedSinceHeard
<1> QED
  BY <1>1, <1>2, <1>4, <1>5 DEF HInv

\* What is known stays known, and no drain hears a peer that has sent nothing.
LEMMA DrainHears ==
  ASSUME TypeOK, NEW p \in Players, NEW arrived \in SUBSET net[Other(p)], Drain(p, arrived)
  PROVE  /\ \A q \in Players : Heard(q) => Heard(q)'
         /\ \A q \in Players : q # p \/ net[Other(p)] = {} => Heard(q)' = Heard(q)
<1>1. \A q \in Players, f \in Frames : peerKnown[q][f] => peerKnown'[q][f]
  BY DEF TypeOK, Drain
<1>2. \A q \in Players : q # p => peerKnown'[q] = peerKnown[q]
  BY DEF TypeOK, Drain
<1>3. ASSUME net[Other(p)] = {}
      PROVE  \A f \in Frames : peerKnown'[p][f] = peerKnown[p][f]
  <2> DEFINE heard == {d.frame : d \in arrived}
  <2>1. heard = {}
    BY <1>3
  <2>2. peerKnown'[p] = [f \in Frames |-> f \in heard \/ peerKnown[p][f]]
    BY DEF TypeOK, Drain
  <2>3. \A f \in Frames : peerKnown'[p][f] = (f \in heard \/ peerKnown[p][f])
    BY <2>2
  <2>4. \A f \in Frames : peerKnown[p][f] \in BOOLEAN
    BY DEF TypeOK
  <2> HIDE DEF heard
  <2> QED
    BY <2>1, <2>3, <2>4, Zenon
<1> QED
  BY <1>1, <1>2, <1>3 DEF Heard

\* A round of the handshake keeps the inputs that its first drain reads.
LEMMA GreetStep ==
  ASSUME HInv, NEW p \in Players, NEW arrived \in SUBSET net[Other(p)], Greet(p, arrived)
  PROVE  HInv'
<1>1. /\ round[p] = "top" /\ round' = [round EXCEPT ![p] = "listen"]
      /\ hello' = [hello EXCEPT ![p] = TRUE] /\ got' = got
      /\ Drain(p, arrived)
      /\ UNCHANGED <<mine, frame, phase, view, net, lost>>
  BY DEF Greet
<1>2. LinkInv /\ TypeOK
  BY DEF HInv, LinkInv
<1>3. LinkInv'
  <2>1. TypeOK'
    BY <1>1, <1>2, TypeDrain DEF TypeOK
  <2>2. \A q \in Players : Recorded(q)' = Recorded(q)
    BY <1>1 DEF Recorded
  <2>3. KnownFixed'
    BY <1>1, <1>2, <2>2, KnownFixedDrain DEF LinkInv
  <2>4. NetFixed' /\ ViewRecorded'
    BY <1>1, <1>2, <2>2, OtherPlayer DEF LinkInv, NetFixed, ViewRecorded
  <2> QED
    BY <2>1, <2>3, <2>4 DEF LinkInv
<1>4. HTypeOK'
  BY <1>1 DEF HInv, HTypeOK
<1>5. Unheard'
  <2> SUFFICES ASSUME NEW q \in Players, round'[q] # "over"
               PROVE  frame[q] = 0 /\ phase[q] = "record" /\ net[q] = {} /\ ~Heard(Other(q))'
    BY <1>1 DEF Unheard
  <2>1. round[q] # "over"
    BY <1>1 DEF HInv, HTypeOK
  <2>2. frame[q] = 0 /\ phase[q] = "record" /\ net[q] = {} /\ ~Heard(Other(q))
    BY <2>1 DEF HInv, Unheard
  <2>3. Heard(Other(q))' = Heard(Other(q))
    BY <1>1, <1>2, <2>2, OtherPlayer, DrainHears
  <2> QED
    BY <2>2, <2>3
<1>6. LeftAfterHeard'
  BY <1>1, <1>2, DrainHears DEF HInv, LeftAfterHeard
<1>7. LossCountedSinceHeard'
  <2> SUFFICES ASSUME NEW q \in Players, NEW f \in Frames, Heard(q)' PROVE Counted(q, f)'
    BY DEF LossCountedSinceHeard
  <2>1. Pumped(q)' = Pumped(q) /\ Covered(q, f)' = Covered(q, f)
    BY <1>1 DEF Pumped, Covered
  <2>2. CASE Heard(q)
    BY <1>1, <2>1, <2>2 DEF HInv, LossCountedSinceHeard, Counted
  <2>3. CASE ~Heard(q)
    <3>1. q = p
      BY <1>1, <1>2, <2>3, DrainHears
    <3>2. Pumped(q) = 0
      BY <1>1, <3>1 DEF HInv, Unheard, Pumped
    <3>3. Covered(q, f) = 0
      BY <3>2, NothingCovered
    <3> QED
      BY <1>1, <1>2, <2>1, <3>3 DEF Counted, TypeOK
  <2> QED
    BY <2>2, <2>3
<1> QED
  BY <1>3, <1>4, <1>5, <1>6, <1>7 DEF HInv

\* What the end of a round throws away is of a peer that has heard nothing, and
\* that will therefore send its first frames again.
LEMMA ListenStep ==
  ASSUME HInv, NEW p \in Players, NEW read \in SUBSET net[Other(p)], NEW hi \in BOOLEAN,
         NEW gone \in SUBSET read, Listen(p, read, gone, hi)
  PROVE  HInv'
<1>1. /\ round[p] = "listen"
      /\ net' = [net EXCEPT ![Other(p)] = @ \ gone]
      /\ got' = [got EXCEPT ![p] = hi \/ read # {}]
      /\ round' = [round EXCEPT ![p] = IF hi \/ read # {} THEN "over" ELSE "top"]
      /\ UNCHANGED <<mine, peer, peerKnown, frame, phase, view, lost, hello>>
  BY DEF Listen
<1>2. /\ \A q \in Players : net'[q] \subseteq net[q]
      /\ \A q \in Players : q # Other(p) => net'[q] = net[q]
  BY <1>1 DEF HInv, LinkInv, TypeOK
<1>3. \A q \in Players : Heard(q)' = Heard(q) /\ Recorded(q)' = Recorded(q)
  BY <1>1 DEF Heard, Recorded
<1>4. LinkInv'
  <2>1. TypeOK'
    BY <1>1, <1>2 DEF HInv, LinkInv, TypeOK
  <2>2. NetFixed' /\ KnownFixed' /\ ViewRecorded'
    BY <1>1, <1>2, <1>3, OtherPlayer DEF HInv, LinkInv, NetFixed, KnownFixed, ViewRecorded
  <2> QED
    BY <2>1, <2>2 DEF LinkInv
<1>5. HTypeOK'
  <2>1. (hi \/ read # {}) \in BOOLEAN
    OBVIOUS
  <2> QED
    BY <1>1, <2>1 DEF HInv, HTypeOK
<1>6. Unheard'
  <2> SUFFICES ASSUME NEW q \in Players, round'[q] # "over"
               PROVE  frame[q] = 0 /\ phase[q] = "record" /\ net'[q] = {} /\ ~Heard(Other(q))'
    BY <1>1 DEF Unheard
  <2>1. round[q] # "over"
    BY <1>1 DEF HInv, HTypeOK
  <2>2. frame[q] = 0 /\ phase[q] = "record" /\ net[q] = {} /\ ~Heard(Other(q))
    BY <2>1 DEF HInv, Unheard
  <2> QED
    BY <1>2, <1>3, <2>2, OtherPlayer
<1>7. LeftAfterHeard'
  BY <1>1, <1>3 DEF HInv, LeftAfterHeard
<1>8. LossCountedSinceHeard'
  <2> SUFFICES ASSUME NEW q \in Players, NEW f \in Frames, Heard(q) PROVE Counted(q, f)'
    BY <1>3 DEF LossCountedSinceHeard
  <2>1. ~Heard(Other(p))
    BY <1>1 DEF HInv, Unheard
  <2>2. net'[q] = net[q]
    BY <1>2, <2>1
  <2>3. Covered(q, f)' = Covered(q, f)
    BY <1>1 DEF Covered, Pumped
  <2> QED
    BY <1>1, <2>2, <2>3 DEF HInv, LossCountedSinceHeard, Counted
<1> QED
  BY <1>4, <1>5, <1>6, <1>7, <1>8 DEF HInv

LEMMA TimeOutStep ==
  ASSUME HInv, NEW p \in Players, TimeOut(p)
  PROVE  HInv'
<1>1. round' = [round EXCEPT ![p] = "over"] /\ UNCHANGED <<vars, got, hello>>
  BY DEF TimeOut
<1>2. LinkInv' /\ LeftAfterHeard' /\ LossCountedSinceHeard'
  BY <1>1 DEF HInv, vars, LinkInv, TypeOK, NetFixed, KnownFixed, ViewRecorded, LeftAfterHeard,
              LossCountedSinceHeard, Counted, Covered, Pumped, Recorded, Heard
<1>3. HTypeOK' /\ \A q \in Players : round'[q] # "over" => round[q] # "over"
  BY <1>1 DEF HInv, HTypeOK
<1>4. Unheard'
  BY <1>1, <1>3 DEF HInv, vars, Unheard, Heard
<1> QED
  BY <1>2, <1>3, <1>4 DEF HInv

LEMMA PlayRecordStep ==
  ASSUME HInv, NEW p \in Players, round[p] = "over", RecordSome(p), UNCHANGED hvars
  PROVE  HInv'
<1>1. PICK state \in Inputs : RecordLocal(p, state)
  BY DEF RecordSome
<1>2. LinkInv' /\ LinkInv /\ TypeOK
  BY <1>1, LinkRecord DEF HInv, LinkInv
<1>3. UNCHANGED <<peerKnown, frame, net, lost>> /\ \A q \in Players : q # p => phase'[q] = phase[q]
  BY <1>1, <1>2 DEF RecordLocal, TypeOK
<1>4. HTypeOK' /\ Unheard' /\ LeftAfterHeard'
  BY <1>3 DEF HInv, hvars, HTypeOK, Unheard, LeftAfterHeard, Heard
<1>5. LossCountedSinceHeard'
  BY <1>2, <1>3, CountedKept DEF HInv, LossCountedSinceHeard, Heard
<1> QED
  BY <1>2, <1>4, <1>5 DEF HInv

\* A console that hears its peer for the first time waits at frame 0, and it has
\* just sent the window of frame 0 to a peer that is past its handshake.
LEMMA PlayPumpStep ==
  ASSUME HInv, NEW p \in Players, round[p] = "over",
         NEW dropped \in SUBSET Window(frame[p]),
         NEW arrived \in SUBSET net[Other(p)],
         Pump(p, dropped, arrived), UNCHANGED hvars
  PROVE  HInv'
<1>1. LinkInv' /\ LinkInv /\ TypeOK
  BY LinkPump DEF HInv, LinkInv
<1>2. /\ Drain(p, arrived) /\ SendWindow(p, dropped) /\ frame' = frame
      /\ \A q \in Players : q # p => phase'[q] = phase[q] /\ net'[q] = net[q]
  BY <1>1 DEF Pump, SendWindow, TypeOK
<1>3. HTypeOK'
  BY DEF HInv, hvars, HTypeOK
<1>4. Unheard'
  <2> SUFFICES ASSUME NEW q \in Players, round[q] # "over"
               PROVE  frame[q] = 0 /\ phase'[q] = "record" /\ net'[q] = {} /\ ~Heard(Other(q))'
    BY <1>2 DEF Unheard, hvars
  <2>1. q # p /\ frame[q] = 0 /\ phase[q] = "record" /\ net[q] = {} /\ ~Heard(Other(q))
    BY DEF HInv, Unheard
  <2>2. Heard(Other(q))' = Heard(Other(q))
    BY <1>1, <1>2, <2>1, OtherPlayer, DrainHears
  <2> QED
    BY <1>2, <2>1, <2>2
<1>5. LeftAfterHeard'
  BY <1>1, <1>2, DrainHears DEF HInv, LeftAfterHeard
<1>6. LossCountedSinceHeard'
  <2> SUFFICES ASSUME NEW q \in Players, NEW f \in Frames, Heard(q)' PROVE Counted(q, f)'
    BY DEF LossCountedSinceHeard
  <2>1. CASE Heard(q)
    BY <1>1, <2>1, CountedPump DEF HInv, LossCountedSinceHeard
  <2>2. CASE ~Heard(q)
    <3>1. q = p
      BY <1>1, <1>2, <2>2, DrainHears
    <3>2. frame[p] = 0
      BY <1>1, <2>2, <3>1, MaxFramesAssumption DEF HInv, LeftAfterHeard, TypeOK
    <3>3. Pumped(p)' = 1
      <4>1. Pumped(p)' = frame[p] + 1
        BY <1>1, PumpEffect
      <4> QED
        BY <3>2, <4>1
    <3>4. f \in Int /\ f >= 0 /\ Tolerated(f) = IF f < Delay THEN f ELSE Delay
      BY DelayAssumption, MaxFramesAssumption DEF Tolerated, Frames
    <3>5. lost'[p][f] \in Nat /\ lost[p][f] \in Nat
      BY <1>1 DEF LinkInv, TypeOK
    <3>6. CASE f \in Window(0)
      <4>1. f <= Delay
        BY <3>6, DelayAssumption DEF Window
      <4>2. Covered(p, f)' = 1
        BY <3>3, <3>4, <4>1, DelayAssumption DEF Covered
      <4>3. CASE f \in dropped
        <5>1. lost'[p][f] = lost[p][f] + 1
          BY <1>1, <1>2, <4>3 DEF SendWindow, TypeOK
        <5> QED
          BY <3>1, <3>5, <4>2, <5>1 DEF Counted
      <4>4. CASE f \notin dropped
        <5>1. [frame |-> f, state |-> mine[p][f]] \in net'[p]
          BY <1>1, <1>2, <3>2, <3>6, <4>4 DEF SendWindow, TypeOK
        <5> QED
          BY <3>1, <5>1 DEF Counted
      <4> QED
        BY <4>3, <4>4
    <3>7. CASE f \notin Window(0)
      <4>1. f > Delay
        BY <3>4, <3>7, DelayAssumption DEF Window
      <4>2. Covered(p, f)' = 0
        BY <3>3, <3>4, <4>1, DelayAssumption DEF Covered
      <4> QED
        BY <3>1, <3>5, <4>2 DEF Counted
    <3> QED
      BY <3>6, <3>7
  <2> QED
    BY <2>1, <2>2
<1> QED
  BY <1>1, <1>3, <1>4, <1>5, <1>6 DEF HInv

LEMMA PlayApplyStep ==
  ASSUME HInv, NEW p \in Players, round[p] = "over", Apply(p), UNCHANGED hvars
  PROVE  HInv'
<1>1. LinkInv' /\ LinkInv /\ TypeOK
  BY LinkApply DEF HInv, LinkInv
<1>2. /\ UNCHANGED <<peerKnown, net, lost>>
      /\ \A q \in Players : q # p => phase'[q] = phase[q] /\ frame'[q] = frame[q]
  BY <1>1 DEF Apply, TypeOK
<1>3. HTypeOK' /\ Unheard'
  BY <1>2 DEF HInv, hvars, HTypeOK, Unheard, Heard
<1>4. Heard(p)
  <2>1. frame[p] \in 0 .. MaxFrames /\ frame[p] # MaxFrames
    BY <1>1 DEF TypeOK, Apply
  <2> QED
    BY <2>1, ScheduleInBuffer DEF Apply, Have, Heard
<1>5. LeftAfterHeard'
  BY <1>2, <1>4 DEF HInv, LeftAfterHeard, Heard
<1>6. LossCountedSinceHeard'
  BY <1>1, <1>2, CountedKept DEF HInv, LossCountedSinceHeard, Heard
<1> QED
  BY <1>1, <1>3, <1>5, <1>6 DEF HInv

LEMMA HInvStep == HInv /\ [HNext]_allVars => HInv'
<1> SUFFICES ASSUME HInv, [HNext]_allVars PROVE HInv'
  OBVIOUS
<1>1. CASE UNCHANGED allVars
  BY <1>1 DEF allVars, hvars, vars, HInv, HTypeOK, Unheard, LeftAfterHeard, Heard,
              LossCountedSinceHeard, Counted, Covered, Pumped, Recorded, LinkInv, TypeOK,
              NetFixed, KnownFixed, ViewRecorded
<1>2. ASSUME NEW p \in Players, GreetSome(p) PROVE HInv'
  BY <1>2, GreetStep DEF GreetSome
<1>3. ASSUME NEW p \in Players, ListenSome(p) PROVE HInv'
  BY <1>3, ListenStep DEF ListenSome
<1>4. ASSUME NEW p \in Players, PlayStep(p, RecordSome(p)) PROVE HInv'
  BY <1>4, PlayRecordStep DEF PlayStep
<1>5. ASSUME NEW p \in Players, PlayStep(p, PumpSome(p)) PROVE HInv'
  BY <1>5, PlayPumpStep DEF PlayStep, PumpSome
<1>6. ASSUME NEW p \in Players, PlayStep(p, Apply(p)) PROVE HInv'
  BY <1>6, PlayApplyStep DEF PlayStep
<1> QED
  BY <1>1, <1>2, <1>3, <1>4, <1>5, <1>6, TimeOutStep DEF HNext

LEMMA HInductive == HSpec => []HInv
BY HInitInv, HInvStep, PTL DEF HSpec

\* The two simulations never desync, whenever each console leaves its handshake
\* and whatever the handshakes threw away.
THEOREM PrimedNeverDesync == HSpec => []Agreement
<1>1. HInv => Agreement
  BY LinkAgrees DEF HInv
<1> QED
  BY <1>1, HInductive, PTL

\* What a handshake throws away never stalls the match: a match that is stuck at
\* frame f has still lost more than Tolerated(f) copies of it to the network
\* (xbl_lockstep_handshake, "you may still proceed").
THEOREM HandshakeStallsNothing == HSpec => []LossTolerance
<1>1. HInv => LossTolerance
  <2> SUFFICES ASSUME HInv, NEW p \in Players, NEW f \in MatchFrames, Wedged(p, f)
               PROVE  lost[Other(p)][f] > Tolerated(f)
    BY DEF LossTolerance
  <2>1. Heard(Other(p))
    <3>1. frame[Other(p)] > f /\ f \in Nat /\ frame[Other(p)] \in Int
      BY OtherPlayer, MaxFramesAssumption DEF Wedged, MatchFrames, HInv, LinkInv, TypeOK
    <3>2. frame[Other(p)] > 0
      BY <3>1
    <3> QED
      BY <3>2, OtherPlayer DEF HInv, LeftAfterHeard
  <2>2. f \in Frames => Counted(Other(p), f)
    BY <2>1, OtherPlayer DEF HInv, LossCountedSinceHeard
  <2> QED
    BY <2>2, WedgedLost DEF HInv, LinkInv
<1> QED
  BY <1>1, HInductive, PTL

\* A match behind handshakes keeps the promise of sdk/xbl_net.h too: the rounds
\* of a handshake are no steps of the abstract lockstep.
THEOREM PrimedImplementsLockstep == HSpec => ImplementsLockstep
<1>1. HInv /\ [HNext]_allVars => [Promise!Next]_(Promise!vars)
  <2> SUFFICES ASSUME HInv, [HNext]_allVars PROVE [Promise!Next]_(Promise!vars)
    OBVIOUS
  <2>1. LinkInv /\ TypeOK
    BY DEF HInv, LinkInv
  <2>2. CASE UNCHANGED <<mine, frame, phase, view>>
    BY <2>2 DEF Promise!vars, Recorded
  <2>3. CASE UNCHANGED allVars
    BY <2>2, <2>3 DEF allVars, vars
  <2>4. ASSUME NEW p \in Players, GreetSome(p) \/ ListenSome(p) \/ TimeOut(p)
        PROVE  UNCHANGED Promise!vars
    <3>1. UNCHANGED <<mine, frame, phase, view>>
      BY <2>4 DEF GreetSome, Greet, ListenSome, Listen, TimeOut, vars
    <3> QED
      BY <3>1 DEF Promise!vars, Recorded
  <2>5. ASSUME NEW p \in Players, PlayStep(p, RecordSome(p)) PROVE Promise!Next
    BY <2>1, <2>5, RefineRecord DEF PlayStep, RecordSome, Promise!Next
  <2>6. ASSUME NEW p \in Players, PlayStep(p, PumpSome(p)) PROVE UNCHANGED Promise!vars
    BY <2>1, <2>6, RefinePump DEF PlayStep, PumpSome
  <2>7. ASSUME NEW p \in Players, PlayStep(p, Apply(p)) PROVE Promise!Next
    BY <2>1, <2>7, RefineApply DEF PlayStep, Promise!Next
  <2> QED
    BY <2>3, <2>4, <2>5, <2>6, <2>7 DEF HNext
<1>2. HInit => Promise!Init
  BY RefineInit DEF HInit
<1> QED
  BY <1>1, <1>2, HInductive, PTL DEF HSpec, Promise!Spec, ImplementsLockstep

\* Nor does a handshake change what is known: its drain reads what the pumps of
\* the peer have sent.
THEOREM PrimedInputsAreFinal == HSpec => KnownInputStable
<1>1. HInv /\ HInv' /\ [HNext]_allVars =>
        [\A p \in Players, f \in Frames :
           peerKnown[p][f] => peerKnown'[p][f] /\ peer'[p][f] = peer[p][f]]_vars
  <2> SUFFICES ASSUME LinkInv, LinkInv', [HNext]_allVars,
                      NEW p \in Players, NEW f \in Frames, peerKnown[p][f]
               PROVE  UNCHANGED vars \/ (peerKnown'[p][f] /\ peer'[p][f] = peer[p][f])
    BY DEF HInv
  <2>1. CASE Next
    BY <2>1, StableStep
  <2>2. CASE UNCHANGED <<peer, peerKnown>>
    BY <2>2
  <2>3. CASE UNCHANGED allVars
    BY <2>3 DEF allVars
  <2>4. ASSUME NEW q \in Players, GreetSome(q)
        PROVE  peerKnown'[p][f] /\ peer'[p][f] = peer[p][f]
    <3>1. peerKnown'[p][f] /\ mine' = mine
      BY <2>4 DEF GreetSome, Greet, Drain, LinkInv, TypeOK
    <3> QED
      BY <3>1, StableUnlessForgotten
  <2>5. ASSUME NEW q \in Players, ListenSome(q) \/ TimeOut(q)
        PROVE  UNCHANGED <<peer, peerKnown>>
    BY <2>5 DEF ListenSome, Listen, TimeOut, vars
  <2> QED
    BY <2>1, <2>2, <2>3, <2>4, <2>5 DEF HNext, PlayStep, Next
<1> QED
  BY <1>1, HInductive, PTL DEF HSpec, KnownInputStable
=============================================================================
