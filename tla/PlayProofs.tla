------------------------------ MODULE PlayProofs ------------------------------
(* Proofs about a launch of a game: its input log, its runs and scores, its  *)
(* achievements, for every length of a run, set of inputs and catalog.       *)
EXTENDS Play, FiniteSetTheorems, LoopTheorems, TLAPS

-----------------------------------------------------------------------------
(* The input log *)

LogEntry == [frame : Nat, state : States]

\* Entry i of the log is the one the replay holds at frame f.
HoldsAt(log, i, f) ==
  /\ log[i].frame <= f
  /\ \A j \in 1 .. Len(log) : i < j => f < log[j].frame

\* The entries ascend to frames that were played, the last one is the state the
\* next frame is compared with, and a recorded frame has the entry it replays to.
LogInv ==
  /\ entries \in Seq(LogEntry)
  /\ held \in Seq(States)
  /\ Len(held) <= FrameCount
  /\ recorded \subseteq 0 .. (Len(held) - 1)
  /\ \A i \in 1 .. Len(entries) : entries[i].frame < Len(held)
  /\ FramesAscend
  /\ lastState = IF entries = <<>> THEN NoState ELSE entries[Len(entries)].state
  /\ \A f \in recorded :
       \E i \in 1 .. Len(entries) : HoldsAt(entries, i, f) /\ entries[i].state = held[f + 1]

LEMMA StatesAreNat == States \subseteq Nat
<1> SUFFICES ASSUME NEW raw \in RawInputs PROVE raw % InMask \in Nat
  BY DEF States
<1> QED
  BY InputAssumption

LEMMA EntryTypes ==
  ASSUME LogInv
  PROVE  /\ Len(entries) \in Nat /\ Len(held) \in Nat
         /\ \A i \in 1 .. Len(entries) :
              /\ entries[i].frame \in Nat /\ entries[i].state \in States
              /\ entries[i].frame < Len(held)
         /\ recorded \subseteq 0 .. (Len(held) - 1)
<1>1. entries \in Seq(LogEntry)
  BY DEF LogInv
<1>2. \A i \in 1 .. Len(entries) : entries[i] \in LogEntry
  BY <1>1
<1>3. ASSUME NEW i \in 1 .. Len(entries)
      PROVE  entries[i].frame \in Nat /\ entries[i].state \in States
  <2>1. entries[i] \in LogEntry
    BY <1>2
  <2> QED
    BY <2>1 DEF LogEntry
<1>4. \A i \in 1 .. Len(entries) : entries[i].frame < Len(held)
  BY DEF LogInv
<1>5. Len(entries) \in Nat /\ Len(held) \in Nat /\ recorded \subseteq 0 .. (Len(held) - 1)
  BY <1>1 DEF LogInv
<1> QED
  BY <1>3, <1>4, <1>5

\* The replay holds the last entry that is not after the frame.
LEMMA ReplayedIs ==
  ASSUME LogInv, NEW f \in Nat, NEW i \in 1 .. Len(entries), HoldsAt(entries, i, f)
  PROVE  Replayed(f) = entries[i].state
<1> DEFINE before == {j \in 1 .. Len(entries) : entries[j].frame <= f}
<1>1. i \in before /\ before # {}
  BY DEF HoldsAt
<1>2. \A j \in before : j <= i
  <2> SUFFICES ASSUME NEW j \in before, i < j PROVE FALSE
    OBVIOUS
  <2>1. f < entries[j].frame
    BY DEF HoldsAt
  <2>2. entries[j].frame <= f /\ entries[j].frame \in Nat
    BY EntryTypes
  <2> QED
    BY <2>1, <2>2
<1>3. \A k \in before : (\A j \in before : j <= k) => k = i
  BY <1>1, <1>2
<1>4. (CHOOSE k \in before : \A j \in before : j <= k) = i
  BY <1>1, <1>2, <1>3
<1> QED
  BY <1>1, <1>4 DEF Replayed

LEMMA LogFreeStep == LogFree => LogInv'
BY FrameCountAssumption DEF LogFree, LogInv, FramesAscend

\* A frame whose state is that of the last entry.
LEMMA RecordSame ==
  ASSUME LogInv, NEW raw \in RawInputs, Len(held) < FrameCount,
         Play(raw % InMask), raw % InMask = lastState,
         recorded' = recorded \cup {Len(held)},
         UNCHANGED <<entries, used, cap, lastState>>
  PROVE  LogInv'
<1> DEFINE f == Len(held)
           s == raw % InMask
<1>1. s \in States /\ s # NoState
  BY StatesAreNat DEF States, NoState
<1>2. held \in Seq(States) /\ held' = Append(held, s) /\ f \in Nat
  BY DEF LogInv, Play
<1>3. held' \in Seq(States) /\ Len(held') = f + 1 /\ held'[f + 1] = s
  BY <1>1, <1>2
<1>4. \A g \in recorded : g \in Nat /\ held'[g + 1] = held[g + 1]
  BY <1>1, <1>2 DEF LogInv
<1>5. entries # <<>> /\ entries[Len(entries)].state = s /\ Len(entries) \in 1 .. Len(entries)
  BY <1>1 DEF LogInv
<1>6. entries[Len(entries)].frame < f /\ entries[Len(entries)].frame \in Nat
  BY <1>5, EntryTypes
<1>7. HoldsAt(entries, Len(entries), f)
  BY <1>2, <1>5, <1>6 DEF HoldsAt
<1>8. \A i, g : HoldsAt(entries', i, g) <=> HoldsAt(entries, i, g)
  BY DEF HoldsAt
<1>9. \A g \in recorded' :
        \E i \in 1 .. Len(entries) : HoldsAt(entries', i, g) /\ entries[i].state = held'[g + 1]
  BY <1>3, <1>4, <1>5, <1>7, <1>8 DEF LogInv
<1>10. recorded' \subseteq 0 .. (Len(held') - 1)
  BY <1>2, <1>3, EntryTypes
<1>11. \A i \in 1 .. Len(entries) : entries[i].frame < Len(held')
  BY <1>2, <1>3, EntryTypes
<1>12. Len(held') <= FrameCount
  BY <1>2, <1>3, FrameCountAssumption
<1> QED
  BY <1>3, <1>9, <1>10, <1>11, <1>12 DEF LogInv, FramesAscend

\* A frame that is appended.
LEMMA RecordChange ==
  ASSUME LogInv, NEW raw \in RawInputs, Len(held) < FrameCount,
         Play(raw % InMask), lastState' = raw % InMask,
         entries' = Append(entries, [frame |-> Len(held), state |-> raw % InMask]),
         recorded' = recorded \cup {Len(held)}
  PROVE  LogInv'
<1> DEFINE f == Len(held)
           s == raw % InMask
           n == Len(entries)
           e == [frame |-> f, state |-> s]
<1>1. s \in States
  BY DEF States
<1>2. held \in Seq(States) /\ held' = Append(held, s) /\ f \in Nat
  BY DEF LogInv, Play
<1>3. held' \in Seq(States) /\ Len(held') = f + 1 /\ held'[f + 1] = s
  BY <1>1, <1>2
<1>4. \A g \in recorded : g \in Nat /\ g < f /\ held'[g + 1] = held[g + 1]
  BY <1>1, <1>2, EntryTypes
<1>5. /\ entries \in Seq(LogEntry)
      /\ e \in LogEntry
      /\ entries' = Append(entries, e)
      /\ n \in Nat
  BY <1>1, <1>2 DEF LogInv, LogEntry
<1>6. /\ entries' \in Seq(LogEntry)
      /\ Len(entries') = n + 1
      /\ entries'[n + 1] = e
      /\ \A i \in 1 .. n : entries'[i] = entries[i]
  BY <1>5
<1>7. /\ entries'[n + 1].frame = f /\ entries'[n + 1].state = s
      /\ \A i \in 1 .. n : entries'[i].frame = entries[i].frame /\ entries[i].frame < f
      /\ \A i \in 1 .. n : entries[i].frame \in Nat
  BY <1>6, EntryTypes
<1>8. FramesAscend'
  <2>1. FramesAscend
    BY DEF LogInv
  <2>2. ASSUME NEW i \in 1 .. (n + 1), NEW j \in 1 .. (n + 1), i < j
        PROVE  entries'[i].frame < entries'[j].frame
    <3>1. i \in 1 .. n
      BY <1>5, <2>2
    <3>2. CASE j = n + 1
      BY <1>7, <3>1, <3>2
    <3>3. CASE j \in 1 .. n
      BY <1>7, <2>1, <2>2, <3>1, <3>3 DEF FramesAscend
    <3> QED
      BY <1>5, <3>2, <3>3
  <2> QED
    BY <1>6, <2>2 DEF FramesAscend
<1>9. \A i \in 1 .. Len(entries') : entries'[i].frame < Len(held')
  BY <1>2, <1>3, <1>5, <1>6, <1>7
<1>10. lastState' = IF entries' = <<>> THEN NoState ELSE entries'[Len(entries')].state
  BY <1>5, <1>6, <1>7
<1>11. \A g \in recorded :
         \E i \in 1 .. Len(entries') : HoldsAt(entries', i, g) /\ entries'[i].state = held'[g + 1]
  <2> SUFFICES ASSUME NEW g \in recorded
               PROVE  \E i \in 1 .. Len(entries') : HoldsAt(entries', i, g) /\ entries'[i].state = held'[g + 1]
    OBVIOUS
  <2>1. PICK i \in 1 .. n : HoldsAt(entries, i, g) /\ entries[i].state = held[g + 1]
    BY DEF LogInv
  <2>2. entries'[i].frame <= g /\ entries'[i].state = held'[g + 1] /\ i \in 1 .. Len(entries')
    BY <1>4, <1>5, <1>6, <2>1 DEF HoldsAt
  <2>3. \A j \in 1 .. n : i < j => g < entries'[j].frame
    BY <1>7, <2>1 DEF HoldsAt
  <2>4. ASSUME NEW j \in 1 .. (n + 1), i < j PROVE g < entries'[j].frame
    <3>1. CASE j = n + 1
      BY <1>4, <1>7, <3>1
    <3>2. CASE j \in 1 .. n
      BY <2>3, <2>4, <3>2
    <3>3. n \in Nat
      BY <1>5
    <3> QED
      BY <3>1, <3>2, <3>3
  <2> QED
    BY <1>6, <2>2, <2>4 DEF HoldsAt
<1>12. HoldsAt(entries', n + 1, f) /\ entries'[n + 1].state = held'[f + 1] /\ n + 1 \in 1 .. Len(entries')
  <2>1. \A j \in 1 .. (n + 1) : ~(n + 1 < j)
    BY <1>5
  <2>2. Len(entries') = n + 1 /\ n + 1 \in 1 .. (n + 1)
    BY <1>5, <1>6
  <2>3. entries'[n + 1].frame <= f
    BY <1>2, <1>7
  <2>4. HoldsAt(entries', n + 1, f)
    BY <2>1, <2>2, <2>3 DEF HoldsAt
  <2> QED
    BY <1>3, <1>7, <2>2, <2>4
<1>13. recorded' \subseteq 0 .. (Len(held') - 1)
  BY <1>2, <1>3, EntryTypes
<1>14. Len(held') <= FrameCount
  BY <1>2, <1>3, FrameCountAssumption
<1>15. \A g \in recorded' :
         \E i \in 1 .. Len(entries') : HoldsAt(entries', i, g) /\ entries'[i].state = held'[g + 1]
  <2>1. recorded' = recorded \cup {f}
    OBVIOUS
  <2>2. \E i \in 1 .. Len(entries') : HoldsAt(entries', i, f) /\ entries'[i].state = held'[f + 1]
    <3> WITNESS n + 1 \in 1 .. Len(entries')
    <3> QED
      BY <1>12
  <2> QED
    BY <1>11, <2>1, <2>2
<1> QED
  BY <1>3, <1>6, <1>8, <1>9, <1>10, <1>13, <1>14, <1>15 DEF LogInv

\* A frame whose change finds no room: last_state stays, so that the next frame
\* is compared with what the log says.
LEMMA RecordNoRoom ==
  ASSUME LogInv, NEW raw \in RawInputs, Len(held) < FrameCount,
         Play(raw % InMask), Keep(raw % InMask)
  PROVE  LogInv'
<1> DEFINE f == Len(held)
           s == raw % InMask
<1>1. s \in States
  BY DEF States
<1>2. held \in Seq(States) /\ held' = Append(held, s) /\ f \in Nat
  BY DEF LogInv, Play
<1>3. held' \in Seq(States) /\ Len(held') = f + 1
  BY <1>1, <1>2
<1>4. \A g \in recorded : held'[g + 1] = held[g + 1]
  BY <1>1, <1>2, EntryTypes
<1>5. entries' = entries /\ recorded' = recorded /\ lastState' = lastState
  BY DEF Keep
<1>6. \A i, g : HoldsAt(entries', i, g) <=> HoldsAt(entries, i, g)
  BY <1>5 DEF HoldsAt
<1>7. \A g \in recorded' :
        \E i \in 1 .. Len(entries') : HoldsAt(entries', i, g) /\ entries'[i].state = held'[g + 1]
  BY <1>4, <1>5, <1>6 DEF LogInv
<1>8. recorded' \subseteq 0 .. (Len(held') - 1)
  BY <1>2, <1>3, <1>5, EntryTypes
<1>9. \A i \in 1 .. Len(entries') : entries'[i].frame < Len(held')
  BY <1>2, <1>3, <1>5, EntryTypes
<1>10. Len(held') <= FrameCount
  BY <1>2, <1>3, FrameCountAssumption
<1> QED
  BY <1>3, <1>5, <1>7, <1>8, <1>9, <1>10 DEF LogInv, FramesAscend

LEMMA RecordStep ==
  ASSUME LogInv, NEW raw \in RawInputs, Record(raw)
  PROVE  LogInv'
<1>1. Len(held) < FrameCount /\ Play(raw % InMask)
  BY DEF Record
<1>2. CASE /\ raw % InMask = lastState
           /\ recorded' = recorded \cup {Len(held)}
           /\ UNCHANGED <<entries, used, cap, lastState>>
  BY <1>1, <1>2, RecordSame
<1>3. CASE /\ entries' = Append(entries, [frame |-> Len(held), state |-> raw % InMask])
           /\ lastState' = raw % InMask
           /\ recorded' = recorded \cup {Len(held)}
  BY <1>1, <1>3, RecordChange
<1>4. CASE Keep(raw % InMask)
  BY <1>1, <1>4, RecordNoRoom
<1> QED
  BY <1>2, <1>3, <1>4 DEF Record

LEMMA RecordedFramesReplay == LogInv => RecordedReplays
<1> SUFFICES ASSUME LogInv, NEW f \in recorded PROVE Replayed(f) = held[f + 1]
  BY DEF RecordedReplays
<1>1. f \in Nat
  BY EntryTypes
<1>2. PICK i \in 1 .. Len(entries) : HoldsAt(entries, i, f) /\ entries[i].state = held[f + 1]
  BY DEF LogInv
<1> QED
  BY <1>1, <1>2, ReplayedIs

\* A run of which every frame was recorded is what the server replays.
LEMMA RecordedRunIsFaithful ==
  ASSUME LogInv, recorded = 0 .. (Len(held) - 1)
  PROVE  Faithful
BY RecordedFramesReplay DEF RecordedReplays, Faithful

-----------------------------------------------------------------------------
(* The buffer of the log *)

\* The text of the log and its NUL are inside the buffer.
BufferInv ==
  /\ used \in Nat /\ cap \in Nat
  /\ entries # <<>> => used < cap

FirstNewCap == IF cap = 0 THEN FirstCap ELSE 2 * cap
NextNewCap(c) == IF Fits(c) THEN c ELSE 2 * c

LEMMA PieceLenType == PieceLen \in Nat \ {0}
BY CapAssumption DEF PieceLen

\* The loop that doubles newcap is the one its definition says.
LEMMA DoublingsAre ==
  ASSUME used \in Nat, cap \in Nat
  PROVE  /\ Doublings \in [0 .. (used + PieceLen + 1) -> Nat]
         /\ Doublings[0] = FirstNewCap
         /\ \A k \in 1 .. (used + PieceLen + 1) : Doublings[k] = NextNewCap(Doublings[k - 1])
<1> DEFINE n == used + PieceLen + 1
           D == Doublings
           step == [p \in (1 .. n) \X Nat |-> NextNewCap(p[2])]
           Body(f) == [k \in 0 .. n |-> IF k = 0 THEN FirstNewCap ELSE NextNewCap(f[k - 1])]
<1>1. n \in Nat /\ \A k \in 1 .. n : k \in 0 .. n /\ k # 0 /\ k - 1 \in 0 .. n
  BY PieceLenType
<1>2. FirstNewCap \in Nat /\ \A c \in Nat : NextNewCap(c) \in Nat
  BY CapAssumption DEF FirstNewCap, NextNewCap
<1>3. D = CHOOSE g : g = Body(g)
  BY Zenon DEF Doublings, FirstNewCap, NextNewCap
<1> HIDE DEF n, D
<1>4. step \in [(1 .. n) \X Nat -> Nat] /\ \A k \in 1 .. n, c \in Nat : step[<<k, c>>] = NextNewCap(c)
  BY <1>2
<1> HIDE DEF step
<1>5. PICK f \in [0 .. n -> Nat] : IsRun(f, n, FirstNewCap, step)
  BY <1>1, <1>2, <1>4, LoopRuns, Zenon
<1>6. f[0] = FirstNewCap /\ \A k \in 1 .. n : f[k] = NextNewCap(f[k - 1])
  BY <1>1, <1>4, <1>5 DEF IsRun
<1>7. f = Body(f)
  BY <1>1, <1>5, <1>6
<1> HIDE DEF Body
<1>8. D = Body(D)
  BY <1>3, <1>7, Zenon
<1>9. D = [k \in 0 .. n |-> IF k = 0 THEN FirstNewCap ELSE NextNewCap(D[k - 1])]
  BY <1>8, Zenon DEF Body
<1>10. D[0] = FirstNewCap /\ \A k \in 1 .. n : D[k] = NextNewCap(D[k - 1])
  BY <1>1, <1>9
<1> DEFINE T == {k \in 0 .. n : D[k] \in Nat}
<1>11. \A k \in 0 .. n : k \in T
  <2>1. 0 \in 0 .. n /\ D[0] \in Nat
    BY <1>1, <1>2, <1>10
  <2>2. ASSUME NEW k \in 1 .. n, k - 1 \in T PROVE k \in T
    BY <1>1, <1>2, <1>10, <2>2
  <2>3. 0 \in T
    BY <2>1
  <2> HIDE DEF T
  <2> QED
    BY <1>1, <2>2, <2>3, UpTo
<1>12. D \in [0 .. n -> Nat]
  BY <1>9, <1>11
<1> QED
  BY <1>10, <1>12 DEF D, n

\* The buffer that realloc is asked for holds the entry and the NUL behind it.
LEMMA GrownFits ==
  ASSUME used \in Nat, cap \in Nat
  PROVE  Grown \in Nat /\ Fits(Grown)
<1> DEFINE n == used + PieceLen + 1
           D == Doublings
           T == {k \in 0 .. n : D[k] \in Nat /\ (Fits(D[k]) \/ D[k] > k)}
<1>1. n \in Nat /\ \A c \in Nat : Fits(c) <=> n <= c
  BY PieceLenType DEF Fits
<1>2. /\ D[0] = FirstNewCap
      /\ \A k \in 1 .. n : D[k] = NextNewCap(D[k - 1])
  BY DoublingsAre
<1> HIDE DEF D, n
<1>3. 0 \in T
  BY <1>1, <1>2, CapAssumption DEF FirstNewCap
<1>4. ASSUME NEW k \in 1 .. n, k - 1 \in T PROVE k \in T
  <2>1. D[k - 1] \in Nat /\ (n <= D[k - 1] \/ D[k - 1] > k - 1)
    BY <1>1, <1>4
  <2>2. D[k] = IF n <= D[k - 1] THEN D[k - 1] ELSE 2 * D[k - 1]
    BY <1>1, <1>2, <2>1 DEF NextNewCap
  <2>3. D[k] \in Nat /\ (n <= D[k] \/ D[k] > k)
    BY <1>1, <2>1, <2>2
  <2> QED
    BY <1>1, <2>3
<1>5. \A k \in 0 .. n : k \in T
  <2> HIDE DEF T
  <2> QED
    BY <1>1, <1>3, <1>4, UpTo
<1>6. n \in T
  BY <1>1, <1>5
<1>7. D[n] \in Nat /\ Fits(D[n])
  BY <1>1, <1>6
<1> QED
  BY <1>7 DEF Grown, D, n

\* Every entry that is appended finds room, whether the buffer grows or not.
LEMMA BufferStep ==
  ASSUME BufferInv, NEW raw \in RawInputs, Record(raw)
  PROVE  BufferInv'
<1>1. CASE UNCHANGED <<entries, used, cap>>
  BY <1>1 DEF BufferInv
<1>2. CASE cap' = (IF Fits(cap) THEN cap ELSE Grown) /\ used' = used + PieceLen
  <2>1. cap' \in Nat /\ Fits(cap')
    <3>1. CASE Fits(cap)
      BY <1>2, <3>1 DEF BufferInv
    <3>2. CASE ~Fits(cap)
      BY <1>2, <3>2, GrownFits DEF BufferInv
    <3> QED
      BY <3>1, <3>2
  <2>2. used \in Nat /\ used' = used + PieceLen /\ PieceLen \in Nat
    BY <1>2, PieceLenType DEF BufferInv
  <2>3. used + PieceLen + 1 <= cap'
    BY <2>1 DEF Fits
  <2>4. used' \in Nat /\ used' < cap'
    BY <2>1, <2>2, <2>3
  <2> QED
    BY <2>1, <2>4 DEF BufferInv
<1> QED
  BY <1>1, <1>2 DEF Record, Keep

-----------------------------------------------------------------------------
(* Runs and scores *)

\* What is known of the run, and what the last submit said of it.
RunsInv ==
  /\ LogInv
  /\ issued \in 0 .. MaxRuns
  /\ run \in RunIds \cup {NoRun}
  /\ run <= issued
  /\ phase \in {"menu", "run", "over"}
  /\ rc \in {"none", "ok", "rejected", "net", "http"}
  /\ accepted \in BOOLEAN
  /\ why \in {"none", "closed", "replay", "caller"}
  /\ score \in [RunIds -> {"open", "stored", "expired"}]
  /\ phase # "menu" => run # NoRun
  /\ rc # "none" \/ accepted => run # NoRun
  /\ phase = "run" => rc = "none" /\ ~accepted /\ why = "none"
  /\ AcceptedIsStored
  /\ HonestRunNotRefused

LEMMA RunsInitInv == RunsInit => RunsInv
<1> SUFFICES ASSUME RunsInit PROVE RunsInv
  OBVIOUS
<1>1. LogInv
  BY FrameCountAssumption DEF RunsInit, LogInit, LogInv, FramesAscend
<1>2. issued \in 0 .. MaxRuns /\ run \in RunIds \cup {NoRun} /\ run <= issued
  BY MaxRunsAssumption DEF RunsInit, NoRun
<1>3. score \in [RunIds -> {"open", "stored", "expired"}]
  BY DEF RunsInit
<1> QED
  BY <1>1, <1>2, <1>3 DEF RunsInit, RunsInv, AcceptedIsStored, HonestRunNotRefused

LEMMA RunBeginStep ==
  ASSUME RunsInv, RunBegin
  PROVE  RunsInv'
<1>1. LogInv'
  BY LogFreeStep DEF RunBegin
<1>2. /\ issued' \in 0 .. MaxRuns /\ run' \in RunIds \cup {NoRun} /\ run' <= issued'
      /\ phase' \in {"menu", "run", "over"}
      /\ phase' # "menu" => run' # NoRun
  <2>1. issued \in 0 .. MaxRuns /\ MaxRuns \in Nat
    BY MaxRunsAssumption DEF RunsInv
  <2>2. CASE issued < MaxRuns /\ issued' = issued + 1 /\ run' = issued' /\ phase' = "run"
    BY <2>1, <2>2 DEF RunIds, NoRun
  <2>3. CASE issued < MaxRuns /\ issued' = issued + 1 /\ run' = NoRun /\ phase' = "menu"
    BY <2>1, <2>3 DEF NoRun
  <2>4. CASE run' = NoRun /\ issued' = issued /\ phase' = phase
    BY <2>1, <2>4 DEF NoRun, RunBegin
  <2> QED
    BY <2>2, <2>3, <2>4 DEF RunBegin
<1>3. rc' = "none" /\ accepted' = FALSE /\ why' = "none" /\ score' = score
  BY DEF RunBegin
<1> QED
  BY <1>1, <1>2, <1>3 DEF RunsInv, AcceptedIsStored, HonestRunNotRefused

LEMMA RunFrameStep ==
  ASSUME RunsInv, NEW raw \in RawInputs, RunFrame(raw)
  PROVE  RunsInv'
<1>1. LogInv'
  BY RecordStep DEF RunsInv, RunFrame
<1>2. rc = "none" /\ ~accepted /\ why = "none"
  BY DEF RunsInv, RunFrame
<1> QED
  BY <1>1, <1>2 DEF RunsInv, RunFrame, runVars, AcceptedIsStored, HonestRunNotRefused

LEMMA RunMenuStep ==
  ASSUME RunsInv, RunEnd \/ RunLeave
  PROVE  RunsInv'
<1>1. UNCHANGED <<logVars, run, rc, accepted, why, serverRuns>>
  BY DEF RunEnd, RunLeave
<1>2. LogInv' <=> LogInv
  BY <1>1 DEF logVars, LogInv, HoldsAt, FramesAscend
<1>3. phase' \in {"over", "menu"} /\ (phase' = "over" => run # NoRun)
  BY DEF RunEnd, RunLeave, RunsInv
<1> QED
  BY <1>1, <1>2, <1>3 DEF RunsInv, logVars, serverRuns, AcceptedIsStored, HonestRunNotRefused

\* A score stays what it is once it is not open.
LEMMA ScoreSubmitStep ==
  ASSUME RunsInv, ScoreSubmit
  PROVE  RunsInv'
<1>1. UNCHANGED <<logVars, run, phase, issued>> /\ phase = "over"
  BY DEF ScoreSubmit
<1>2. LogInv' <=> LogInv
  BY <1>1 DEF logVars, LogInv, HoldsAt, FramesAscend
<1>3. run \in RunIds
  BY <1>1 DEF RunsInv
<1>4. "replay" \in Verdicts => recorded # 0 .. (Len(held) - 1)
  BY RecordedRunIsFaithful DEF Verdicts, RunsInv
<1>5. \A verdict \in Verdicts : verdict \in {"none", "closed", "replay", "caller"}
  BY DEF Verdicts
<1>6. ASSUME NEW verdict \in Verdicts, Judge(verdict), Answered(verdict)
      PROVE  RunsInv'
  <2>1. /\ score' \in [RunIds -> {"open", "stored", "expired"}]
        /\ verdict = "none" => score'[run] = "stored"
    BY <1>3, <1>6 DEF Judge, RunsInv
  <2>2. AcceptedIsStored' /\ HonestRunNotRefused'
    BY <1>1, <1>4, <1>6, <2>1 DEF Answered, AcceptedIsStored, HonestRunNotRefused, logVars
  <2> QED
    BY <1>1, <1>2, <1>5, <1>6, <2>1, <2>2 DEF RunsInv, Answered
<1>7. CASE /\ rc' \in {"net", "http"} /\ accepted' = FALSE /\ why' = why
           /\ (\E verdict \in Verdicts : Judge(verdict)) \/ UNCHANGED score
  <2>1. score' \in [RunIds -> {"open", "stored", "expired"}]
    BY <1>3, <1>7 DEF Judge, RunsInv
  <2>2. AcceptedIsStored' /\ HonestRunNotRefused'
    BY <1>1, <1>7 DEF RunsInv, AcceptedIsStored, HonestRunNotRefused, logVars
  <2> QED
    BY <1>1, <1>2, <1>7, <2>1, <2>2 DEF RunsInv
<1> QED
  BY <1>6, <1>7 DEF ScoreSubmit

LEMMA ExpireStep ==
  ASSUME RunsInv, NEW r \in RunIds, Expire(r)
  PROVE  RunsInv'
<1>1. UNCHANGED <<logVars, run, phase, rc, accepted, why, issued>>
  BY DEF Expire
<1>2. LogInv' <=> LogInv
  BY <1>1 DEF logVars, LogInv, HoldsAt, FramesAscend
<1>3. /\ score' \in [RunIds -> {"open", "stored", "expired"}]
      /\ \A q \in RunIds : score'[q] = score[q] \/ (score[q] = "open" /\ score'[q] = "expired")
  BY DEF RunsInv, Expire
<1>4. rc = "rejected" \/ accepted => run \in RunIds
  BY DEF RunsInv
<1>5. AcceptedIsStored' /\ HonestRunNotRefused'
  BY <1>1, <1>3, <1>4 DEF RunsInv, AcceptedIsStored, HonestRunNotRefused, logVars
<1> QED
  BY <1>1, <1>2, <1>3, <1>5 DEF RunsInv

-----------------------------------------------------------------------------
(* Achievements *)

\* The awarded set stands for what was toasted and what the server said was
\* earned; an answer that is worked off names nothing the server said before.
AchInv ==
  /\ awarded \subseteq Known
  /\ depth \in Nat /\ depth <= Cardinality(awarded)
  /\ reporting \in BOOLEAN
  /\ unlocked \subseteq Ids /\ granted \subseteq Ids /\ due \subseteq Ids
  /\ all \subseteq granted /\ seeded \subseteq granted
  /\ toasts \in [Known -> Nat]
  /\ ~reporting => unlocked = {} /\ all = {}
  /\ unlocked \cap seeded = {}
  /\ seeded \cap Known \subseteq awarded
  /\ \A id \in Known : toasts[id] >= 1 => id \in awarded
  /\ ToastedOnce
  /\ UnlocksAreShown
  /\ AwardedIsEarned

LEMMA KnownIsFinite == IsFiniteSet(Known)
<1> DEFINE places == {j \in DOMAIN Defs : j <= AchMax}
           f == [j \in places |-> Defs[j]]
<1>1. DOMAIN Defs = 1 .. Len(Defs) /\ Len(Defs) \in Nat
  BY DefsAssumption
<1>2. IsFiniteSet(1 .. Len(Defs))
  BY <1>1, FS_Interval
<1>3. IsFiniteSet(places)
  BY <1>1, <1>2, FS_Subset
<1>4. f \in Surjection(places, Known)
  BY DEF Known, Surjection
<1> QED
  BY <1>3, <1>4, FS_Surjection

LEMMA AwardedIsFinite ==
  ASSUME NEW S \in SUBSET Known, NEW T \in SUBSET S
  PROVE  /\ IsFiniteSet(S) /\ IsFiniteSet(T)
         /\ Cardinality(S) \in Nat /\ Cardinality(T) \in Nat
         /\ Cardinality(T) <= Cardinality(S)
BY KnownIsFinite, FS_Subset, FS_CardinalityType

LEMMA AchInitInv == AchInit => AchInv
<1> SUFFICES ASSUME AchInit PROVE AchInv
  OBVIOUS
<1>1. awarded = {} /\ depth = 0 /\ due = {} /\ seeded = {} /\ unlocked = {} /\ all = {}
  BY DEF AchInit
<1>2. depth \in Nat /\ depth <= Cardinality(awarded)
  BY <1>1, FS_EmptySet
<1>3. toasts \in [Known -> Nat] /\ \A id \in Known : toasts[id] = 0
  BY DEF AchInit
<1>4. ToastedOnce /\ UnlocksAreShown /\ AwardedIsEarned
  BY <1>1, <1>3 DEF ToastedOnce, UnlocksAreShown, AwardedIsEarned
<1>5. granted \subseteq Ids /\ reporting \in BOOLEAN
  BY DEF AchInit
<1> QED
  BY <1>1, <1>2, <1>3, <1>4, <1>5 DEF AchInv

\* An award of a known id that is not awarded yet toasts it; any other does nothing.
LEMMA AwardEffect ==
  ASSUME AchInv, NEW id \in Ids, Award(id), UNCHANGED seeded
  PROVE  /\ awarded' \subseteq Known /\ awarded \subseteq awarded'
         /\ depth' \in Nat /\ depth' <= Cardinality(awarded')
         /\ toasts' \in [Known -> Nat]
         /\ \A k \in Known : toasts'[k] >= toasts[k]
         /\ \A k \in Known : toasts'[k] >= 1 => k \in awarded'
         /\ \A k \in Known : k # id \/ k \in awarded => toasts'[k] = toasts[k]
         /\ id \in Known \ awarded => toasts'[id] >= 1
         /\ ToastedOnce'
         /\ AwardedIsEarned'
<1>1. CASE id \in Known \ awarded
  <2>1. /\ awarded' = awarded \cup {id} /\ depth' = depth + 1
        /\ toasts' = [toasts EXCEPT ![id] = @ + 1]
    BY <1>1 DEF Award
  <2>2. toasts[id] = 0
    BY <1>1 DEF AchInv
  <2>3. /\ toasts' \in [Known -> Nat] /\ toasts'[id] = 1
        /\ \A k \in Known : k # id => toasts'[k] = toasts[k]
    BY <1>1, <2>1, <2>2 DEF AchInv
  <2>4. Cardinality(awarded') = Cardinality(awarded) + 1
    <3>1. IsFiniteSet(awarded)
      BY AwardedIsFinite DEF AchInv
    <3> QED
      BY <1>1, <2>1, <3>1, FS_AddElement
  <2>5. Cardinality(awarded) \in Nat
    BY AwardedIsFinite DEF AchInv
  <2>6. depth' \in Nat /\ depth' <= Cardinality(awarded')
    BY <2>1, <2>4, <2>5 DEF AchInv
  <2>7. ToastedOnce'
    BY <2>3 DEF AchInv, ToastedOnce
  <2>8. AwardedIsEarned'
    BY <1>1, <2>1, <2>3 DEF AchInv, AwardedIsEarned
  <2>9. awarded' \subseteq Known /\ awarded \subseteq awarded'
    BY <1>1, <2>1 DEF AchInv
  <2>10. \A k \in Known : toasts'[k] >= toasts[k]
    BY <2>2, <2>3 DEF AchInv
  <2>11. \A k \in Known : toasts'[k] >= 1 => k \in awarded'
    BY <2>1, <2>3 DEF AchInv
  <2> QED
    BY <1>1, <2>3, <2>6, <2>7, <2>8, <2>9, <2>10, <2>11
<1>2. CASE ~(id \in Known \ awarded)
  <2>1. UNCHANGED <<awarded, depth, toasts>>
    BY <1>2 DEF Award
  <2> QED
    BY <1>2, <2>1 DEF AchInv, ToastedOnce, AwardedIsEarned
<1> QED
  BY <1>1, <1>2

LEMMA AchAwardStep ==
  ASSUME AchInv, NEW id \in Ids, AchAward(id)
  PROVE  AchInv'
<1>1. Award(id) /\ UNCHANGED <<reporting, unlocked, all, granted, due, seeded>>
  BY DEF AchAward
<1>2. UnlocksAreShown'
  BY <1>1, AwardEffect DEF AchInv, UnlocksAreShown
<1>3. seeded' \cap Known \subseteq awarded'
  BY <1>1, AwardEffect DEF AchInv
<1> QED
  BY <1>1, <1>2, <1>3, AwardEffect DEF AchInv

LEMMA ToastReturnStep ==
  ASSUME AchInv, ToastReturn
  PROVE  AchInv'
<1>1. /\ depth > 0 /\ depth' = depth - 1
      /\ UNCHANGED <<awarded, reporting, unlocked, all, granted, toasts, due, seeded>>
  BY DEF ToastReturn
<1>2. Cardinality(awarded) \in Nat
  BY AwardedIsFinite DEF AchInv
<1>3. depth' \in Nat /\ depth' <= Cardinality(awarded')
  BY <1>1, <1>2 DEF AchInv
<1> QED
  BY <1>1, <1>3 DEF AchInv, ToastedOnce, UnlocksAreShown, AwardedIsEarned

\* An unlock that is not toasted now was awarded, and not by what the server had
\* said before: it was toasted live.
LEMMA ToastUnlockedStep ==
  ASSUME AchInv, NEW id \in Ids, ToastUnlocked(id)
  PROVE  AchInv'
<1>1. /\ reporting /\ id \in unlocked /\ unlocked' = unlocked \ {id}
      /\ Award(id) /\ UNCHANGED <<reporting, all, granted, due, seeded>>
  BY DEF ToastUnlocked
<1>2. id \in Known => toasts'[id] >= 1
  <2>1. CASE id \in Known \ awarded
    BY <1>1, <2>1, AwardEffect
  <2>2. CASE id \in awarded
    <3>1. id \notin seeded
      BY <1>1 DEF AchInv
    <3>2. id \in Known /\ toasts[id] > 0 /\ toasts[id] \in Nat
      BY <2>2, <3>1 DEF AchInv, AwardedIsEarned
    <3>3. toasts'[id] = toasts[id]
      BY <1>1, <2>2, <3>2, AwardEffect
    <3> QED
      BY <3>2, <3>3
  <2> QED
    BY <2>1, <2>2
<1>3. UnlocksAreShown'
  <2> SUFFICES ASSUME NEW k \in (due' \cap Known) \ unlocked' PROVE toasts'[k] >= 1
    BY DEF UnlocksAreShown
  <2>1. CASE k = id
    BY <1>2, <2>1
  <2>2. CASE k # id
    BY <1>1, <2>2, AwardEffect DEF AchInv, UnlocksAreShown
  <2> QED
    BY <2>1, <2>2
<1>4. seeded' \cap Known \subseteq awarded'
  BY <1>1, AwardEffect DEF AchInv
<1> QED
  BY <1>1, <1>3, <1>4, AwardEffect DEF AchInv

\* Silent marks of what the server says was earned.
LEMMA MarkEffect ==
  ASSUME AchInv, NEW ids \in SUBSET granted,
         awarded' = MarkSilent(ids), seeded' = seeded \cup ids,
         UNCHANGED <<depth, toasts>>
  PROVE  /\ awarded' \subseteq Known /\ awarded \subseteq awarded'
         /\ depth' <= Cardinality(awarded')
         /\ seeded' \cap Known \subseteq awarded'
         /\ AwardedIsEarned'
<1>1. /\ awarded' \subseteq Known /\ awarded \subseteq awarded'
      /\ seeded' \cap Known \subseteq awarded'
      /\ \A id \in awarded' : id \in awarded \/ id \in seeded'
  BY DEF AchInv, MarkSilent
<1>2. /\ Cardinality(awarded) <= Cardinality(awarded')
      /\ Cardinality(awarded) \in Nat /\ Cardinality(awarded') \in Nat
  BY <1>1, AwardedIsFinite
<1>3. depth' <= Cardinality(awarded')
  BY <1>2 DEF AchInv
<1>4. AwardedIsEarned'
  BY <1>1 DEF AchInv, AwardedIsEarned
<1> QED
  BY <1>1, <1>3, <1>4

LEMMA AchSyncStep ==
  ASSUME AchInv, AchSync
  PROVE  AchInv'
<1>1. /\ AchIdle /\ awarded' = MarkSilent(granted) /\ seeded' = seeded \cup granted
      /\ UNCHANGED <<depth, reporting, unlocked, all, granted, toasts, due>>
  BY DEF AchSync
<1>2. unlocked = {} /\ ~reporting
  BY <1>1 DEF AchInv, AchIdle
<1>3. /\ awarded' \subseteq Known /\ awarded \subseteq awarded'
      /\ depth' <= Cardinality(awarded')
      /\ seeded' \cap Known \subseteq awarded'
      /\ AwardedIsEarned'
  BY <1>1, MarkEffect
<1> QED
  BY <1>1, <1>2, <1>3 DEF AchInv, ToastedOnce, UnlocksAreShown

LEMMA MarkAllStep ==
  ASSUME AchInv, MarkAll
  PROVE  AchInv'
<1>1. /\ unlocked = {} /\ awarded' = MarkSilent(all) /\ seeded' = seeded \cup all
      /\ reporting' = FALSE /\ all' = {}
      /\ UNCHANGED <<depth, unlocked, granted, toasts, due>>
  BY DEF MarkAll
<1>2. /\ awarded' \subseteq Known /\ awarded \subseteq awarded'
      /\ depth' <= Cardinality(awarded')
      /\ seeded' \cap Known \subseteq awarded'
      /\ AwardedIsEarned'
  BY <1>1, MarkEffect DEF AchInv
<1>3. seeded' \subseteq granted'
  BY <1>1 DEF AchInv
<1> QED
  BY <1>1, <1>2, <1>3 DEF AchInv, ToastedOnce, UnlocksAreShown

LEMMA AchReportStep ==
  ASSUME AchInv, NEW earned \in SUBSET Ids, AchReport(earned)
  PROVE  AchInv'
<1>1. /\ AchIdle /\ granted' = granted \cup earned
      /\ UNCHANGED <<depth, toasts, seeded>> /\ awarded' = awarded
  BY DEF AchReport, Grant, Answer
<1>2. unlocked = {} /\ ~reporting
  BY <1>1 DEF AchInv, AchIdle
<1>3. CASE Answer(earned)
  BY <1>1, <1>2, <1>3 DEF Answer, AchInv, ToastedOnce, UnlocksAreShown, AwardedIsEarned
<1>4. CASE UNCHANGED <<awarded, unlocked, all, due, reporting>>
  BY <1>1, <1>2, <1>4 DEF AchInv, ToastedOnce, UnlocksAreShown, AwardedIsEarned
<1> QED
  BY <1>3, <1>4 DEF AchReport

LEMMA GrantElsewhereStep ==
  ASSUME AchInv, NEW id \in Ids, GrantElsewhere(id)
  PROVE  AchInv'
BY DEF AchInv, GrantElsewhere, ToastedOnce, UnlocksAreShown, AwardedIsEarned

LEMMA AchResetStep ==
  ASSUME AchInv, AchReset
  PROVE  AchInv'
<1>1. Cardinality({}) = 0
  BY FS_EmptySet
<1>2. depth = 0 /\ unlocked = {} /\ all = {} /\ ~reporting
  BY DEF AchReset, AchIdle, AchInv
<1> QED
  BY <1>1, <1>2 DEF AchInv, AchReset, ToastedOnce, UnlocksAreShown, AwardedIsEarned

-----------------------------------------------------------------------------
(* The launch *)

PlayInv ==
  /\ RunsInv
  /\ AchInv
  /\ reported \in BOOLEAN
  /\ phase = "run" => ~reported
  /\ LiveToastsAreGranted

LEMMA EarnedAreIds == EarnedAtServer \subseteq Ids
BY KindsAssumption DEF EarnedAtServer, EarnedBy

LEMMA UnchangedRuns == RunsInv /\ UNCHANGED <<logVars, runVars>> => RunsInv'
BY DEF RunsInv, logVars, runVars, LogInv, HoldsAt, FramesAscend, AcceptedIsStored,
  HonestRunNotRefused

LEMMA UnchangedAch == AchInv /\ UNCHANGED achVars => AchInv'
BY DEF AchInv, achVars, ToastedOnce, UnlocksAreShown, AwardedIsEarned

LEMMA PlayInitInv == PlayInit => PlayInv
BY RunsInitInv, AchInitInv DEF PlayInit, PlayInv, LiveToastsAreGranted

\* Grants are kept as long as the run that earned them is the game's.
LEMMA GrantsAreKept ==
  ASSUME PlayInv, UNCHANGED <<logVars, reported>>, granted \subseteq granted'
  PROVE  LiveToastsAreGranted'
BY DEF PlayInv, LiveToastsAreGranted, logVars

LEMMA BeginStepInv ==
  ASSUME PlayInv, BeginStep
  PROVE  PlayInv'
BY RunBeginStep, UnchangedAch DEF PlayInv, BeginStep, LiveToastsAreGranted

LEMMA RunStepInv ==
  ASSUME PlayInv, RunStep
  PROVE  PlayInv'
<1>1. AchInv' /\ reported' = reported /\ granted' = granted
  BY UnchangedAch DEF PlayInv, RunStep, achVars
<1>2. ASSUME NEW raw \in RawInputs, RunFrame(raw)
      PROVE  RunsInv' /\ phase' = phase /\ ~reported
  BY <1>2, RunFrameStep DEF PlayInv, RunFrame, runVars
<1>3. ASSUME RunEnd \/ RunLeave \/ ScoreSubmit \/ \E r \in RunIds : Expire(r)
      PROVE  RunsInv' /\ (phase' = "run" => phase = "run") /\ UNCHANGED logVars
  <2>1. RunsInv'
    BY <1>3, RunMenuStep, ScoreSubmitStep, ExpireStep DEF PlayInv
  <2> QED
    BY <1>3, <2>1 DEF RunEnd, RunLeave, ScoreSubmit, Expire
<1>4. CASE \E raw \in RawInputs : RunFrame(raw)
  BY <1>1, <1>2, <1>4 DEF PlayInv, LiveToastsAreGranted
<1>5. CASE RunEnd \/ RunLeave \/ ScoreSubmit \/ \E r \in RunIds : Expire(r)
  <2>1. LiveToastsAreGranted'
    BY <1>1, <1>3, <1>5, GrantsAreKept
  <2> QED
    BY <1>1, <1>3, <1>5, <2>1 DEF PlayInv
<1> QED
  BY <1>4, <1>5 DEF RunStep

\* What a recorded run has earned is in what the server grants for it.
LEMMA ReportStepInv ==
  ASSUME PlayInv, ReportStep
  PROVE  PlayInv'
<1>1. /\ phase = "over" /\ UNCHANGED <<logVars, runVars>>
      /\ AchReport(EarnedAtServer) /\ reported' = (reported \/ reporting')
  BY DEF ReportStep
<1>2. RunsInv'
  BY <1>1, UnchangedRuns DEF PlayInv
<1>3. AchInv'
  BY <1>1, AchReportStep, EarnedAreIds DEF PlayInv
<1>4. granted' = granted \cup EarnedAtServer
  BY <1>1 DEF AchReport, Grant
<1>5. ASSUME recorded = 0 .. (Len(held) - 1)
      PROVE  EarnedBy({held[i] : i \in DOMAIN held}) \subseteq EarnedAtServer
  <2>1. \A f \in 0 .. (Len(held) - 1) : Replayed(f) = held[f + 1]
    BY <1>5, RecordedRunIsFaithful DEF PlayInv, RunsInv, Faithful
  <2>2. DOMAIN held = 1 .. Len(held) /\ Len(held) \in Nat
    BY DEF PlayInv, RunsInv, LogInv
  <2>3. \A i \in DOMAIN held :
          i - 1 \in 0 .. (Len(held) - 1) /\ Replayed(i - 1) = held[i]
    BY <2>1, <2>2
  <2>4. \A x \in {held[i] : i \in DOMAIN held} :
          x \in {Replayed(f) : f \in 0 .. (Len(held) - 1)}
    BY <2>3
  <2> QED
    BY <2>4 DEF EarnedAtServer, EarnedBy
<1>6. LiveToastsAreGranted'
  BY <1>1, <1>4, <1>5 DEF LiveToastsAreGranted, logVars
<1>7. reporting' \in BOOLEAN /\ phase' = "over"
  BY <1>1, <1>3 DEF AchInv, runVars
<1>8. reported' \in BOOLEAN
  BY <1>1, <1>7 DEF PlayInv
<1> QED
  BY <1>2, <1>3, <1>6, <1>7, <1>8 DEF PlayInv

LEMMA MenuStepInv ==
  ASSUME PlayInv, MenuStep
  PROVE  PlayInv'
BY UnchangedRuns, AchSyncStep, AchResetStep DEF PlayInv, MenuStep, LiveToastsAreGranted

LEMMA AnswerStepInv ==
  ASSUME PlayInv, AnswerStep \/ \E id \in Ids : AwardLive(id) \/ AwardNested(id)
  PROVE  PlayInv'
<1>1. UNCHANGED <<logVars, runVars, reported>>
  BY DEF AnswerStep, AwardLive, AwardNested
<1>2. AchInv'
  BY ToastReturnStep, MarkAllStep, ToastUnlockedStep, GrantElsewhereStep, AchAwardStep
  DEF PlayInv, AnswerStep, AwardLive, AwardNested
<1>3. granted \subseteq granted'
  BY DEF AnswerStep, AwardLive, AwardNested, ToastReturn, MarkAll, ToastUnlocked,
     GrantElsewhere, AchAward
<1>4. LiveToastsAreGranted'
  BY <1>1, <1>3, GrantsAreKept
<1>5. RunsInv'
  BY <1>1, UnchangedRuns DEF PlayInv
<1> QED
  BY <1>1, <1>2, <1>4, <1>5 DEF PlayInv, runVars

LEMMA PlayStep == PlayInv /\ [PlayNext]_playVars => PlayInv'
<1> SUFFICES ASSUME PlayInv, [PlayNext]_playVars PROVE PlayInv'
  OBVIOUS
<1>1. CASE UNCHANGED playVars
  <2>1. UNCHANGED <<logVars, runVars>> /\ UNCHANGED achVars /\ UNCHANGED reported
    BY <1>1 DEF playVars
  <2>2. LiveToastsAreGranted'
    BY <2>1, GrantsAreKept DEF achVars
  <2> QED
    BY <2>1, <2>2, UnchangedRuns, UnchangedAch DEF PlayInv, runVars
<1>2. CASE PlayNext
  BY <1>2, BeginStepInv, RunStepInv, ReportStepInv, MenuStepInv, AnswerStepInv DEF PlayNext
<1> QED
  BY <1>1, <1>2

LEMMA PlayInvariant == PlaySpec => []PlayInv
BY PlayInitInv, PlayStep, PTL DEF PlaySpec

-----------------------------------------------------------------------------
(* Types and bounds *)

\* A log whose entries are of frames that were played is in range.
LEMMA LogTypes ==
  ASSUME LogInv, BufferInv
  PROVE  LogTypeOK
<1>1. \A i \in 1 .. Len(entries) : entries[i] \in [frame : RunFrames, state : States]
  <2> SUFFICES ASSUME NEW i \in 1 .. Len(entries)
               PROVE  entries[i] \in [frame : RunFrames, state : States]
    OBVIOUS
  <2>1. entries[i] \in LogEntry
    BY DEF LogInv
  <2>2. entries[i].frame \in RunFrames
    BY EntryTypes, FrameCountAssumption DEF LogInv, RunFrames
  <2> QED
    BY <2>1, <2>2 DEF LogEntry
<1>2. entries \in Seq([frame : RunFrames, state : States])
  <2> DEFINE E == [frame : RunFrames, state : States]
  <2>1. entries \in [1 .. Len(entries) -> LogEntry] /\ Len(entries) \in Nat
    BY DEF LogInv
  <2>2. entries \in [1 .. Len(entries) -> E]
    BY <1>1, <2>1
  <2> HIDE DEF E
  <2>3. entries \in Seq(E)
    BY <2>1, <2>2
  <2> QED
    BY <2>3 DEF E
<1>3. lastState \in States \cup {NoState}
  <2>1. CASE entries = <<>>
    BY <2>1 DEF LogInv
  <2>2. CASE entries # <<>>
    <3>1. Len(entries) \in 1 .. Len(entries)
      BY <2>2 DEF LogInv
    <3> QED
      BY <2>2, <3>1, EntryTypes DEF LogInv
  <2> QED
    BY <2>1, <2>2
<1> QED
  BY <1>2, <1>3 DEF LogInv, BufferInv, LogTypeOK

\* Callbacks nest no deeper than the catalog has entries.
LEMMA AchTypes ==
  ASSUME AchInv
  PROVE  AchTypeOK
<1>1. awarded \in SUBSET Known /\ depth \in Nat /\ depth <= Cardinality(awarded)
  BY DEF AchInv
<1>2. /\ Cardinality(awarded) \in Nat /\ Cardinality(Known) \in Nat
      /\ Cardinality(awarded) <= Cardinality(Known)
  BY <1>1, AwardedIsFinite
<1>3. depth \in 0 .. Cardinality(Known)
  BY <1>1, <1>2
<1> QED
  BY <1>3 DEF AchInv, AchTypeOK

\* A step that is not xbl_inputlog_record leaves the buffer or frees it.
LEMMA BufferIsKept ==
  ASSUME BufferInv, [PlayNext]_playVars
  PROVE  BufferInv'
<1>1. CASE UNCHANGED logVars
  BY <1>1 DEF BufferInv, logVars
<1>2. CASE LogFree
  BY <1>2 DEF BufferInv, LogFree
<1>3. CASE \E raw \in RawInputs : Record(raw)
  BY <1>3, BufferStep
<1>4. CASE UNCHANGED playVars
  BY <1>1, <1>4 DEF playVars
<1>5. CASE BeginStep
  BY <1>2, <1>5 DEF BeginStep, RunBegin
<1>6. CASE RunStep
  BY <1>1, <1>3, <1>6 DEF RunStep, RunFrame, RunEnd, RunLeave, ScoreSubmit, Expire
<1>7. CASE ReportStep \/ MenuStep \/ AnswerStep \/ \E id \in Ids : AwardLive(id) \/ AwardNested(id)
  BY <1>1, <1>7 DEF ReportStep, MenuStep, AnswerStep, AwardLive, AwardNested
<1> QED
  BY <1>4, <1>5, <1>6, <1>7 DEF PlayNext

-----------------------------------------------------------------------------
(* The theorems *)

\* Types and bounds in every state of a launch: the text of the log and its NUL
\* stay inside the buffer, however long the run and the entries
\* (xbl_inputlog_record), toast callbacks nest no deeper than the catalog, and a
\* run that is played is one the server issued.
THEOREM PlayTypesHold == PlaySpec => []PlayTypeOK
<1>1. PlayInit => BufferInv
  BY DEF PlayInit, RunsInit, LogInit, BufferInv
<1>2. PlayInv /\ BufferInv => PlayTypeOK
  <2> SUFFICES ASSUME PlayInv, BufferInv PROVE PlayTypeOK
    OBVIOUS
  <2>1. LogTypeOK /\ AchTypeOK
    BY LogTypes, AchTypes DEF PlayInv, RunsInv
  <2> QED
    BY <2>1 DEF PlayInv, RunsInv, RunsTypeOK, PlayTypeOK
<1> QED
  BY <1>1, <1>2, BufferIsKept, PlayInvariant, PTL DEF PlaySpec

\* A frame whose xbl_inputlog_record returned XBL_OK replays as it was played,
\* whatever records before it found no room.
THEOREM RecordsReplay == PlaySpec => []RecordedReplays
<1>1. PlayInv => RecordedReplays
  BY RecordedFramesReplay DEF PlayInv, RunsInv
<1> QED
  BY <1>1, PlayInvariant, PTL

\* The frames of a log ascend, in every run of a launch (xbl_inputlog_free).
THEOREM LogsAscend == PlaySpec => []FramesAscend
<1>1. PlayInv => FramesAscend
  BY DEF PlayInv, RunsInv, LogInv
<1> QED
  BY <1>1, PlayInvariant, PTL

\* xbl_score_submit reports an acceptance only of a score that the server stored.
THEOREM AcceptancesAreStored == PlaySpec => []AcceptedIsStored
<1>1. PlayInv => AcceptedIsStored
  BY DEF PlayInv, RunsInv
<1> QED
  BY <1>1, PlayInvariant, PTL

\* A run that was recorded whole is never refused for its replay, whatever the logs
\* of earlier runs held (xbl_inputlog_record, xbl_inputlog_free).
THEOREM HonestRunsPass == PlaySpec => []HonestRunNotRefused
<1>1. PlayInv => HonestRunNotRefused
  BY DEF PlayInv, RunsInv
<1> QED
  BY <1>1, PlayInvariant, PTL

\* No achievement toasts twice while an account is signed in (xbl_ach_award sets
\* the flag before the callback).
THEOREM ToastsOnce == PlaySpec => []ToastedOnce
<1>1. PlayInv => ToastedOnce
  BY DEF PlayInv, AchInv
<1> QED
  BY <1>1, PlayInvariant, PTL

\* Whatever a report's answer unlocked has been shown (xbl_ach_report toasts the
\* unlocked ids before it marks the full set).
THEOREM UnlocksShown == PlaySpec => []UnlocksAreShown
<1>1. PlayInv => UnlocksAreShown
  BY DEF PlayInv, AchInv
<1> QED
  BY <1>1, PlayInvariant, PTL

\* The awarded set is what was toasted and what the server said was earned
\* (ach_mark_silent ignores ids the catalog does not have).
THEOREM AwardsAreEarned == PlaySpec => []AwardedIsEarned
<1>1. PlayInv => AwardedIsEarned
  BY DEF PlayInv, AchInv
<1> QED
  BY <1>1, PlayInvariant, PTL

\* What a fully recorded run has earned, and toasted live, the server grants when
\* the run is reported (xbl_ach_award before xbl_ach_report).
THEOREM LiveToastsGranted == PlaySpec => []LiveToastsAreGranted
<1>1. PlayInv => LiveToastsAreGranted
  BY DEF PlayInv
<1> QED
  BY <1>1, PlayInvariant, PTL

LEMMA SilentStep ==
  ASSUME AchInv, NEW id \in Ids,
         Award(id) /\ UNCHANGED seeded
  PROVE  \A k \in Known \cap seeded \cap seeded' : toasts'[k] = toasts[k]
<1>1. \A k \in Known \cap seeded : k \in awarded
  BY DEF AchInv
<1> QED
  BY <1>1, AwardEffect

\* What the server has once said was earned never toasts again (xbl_ach_sync and
\* ach_mark_all_silent), until xbl_ach_reset.
THEOREM EarnedStaySilent == PlaySpec => EarnedStaysSilent
<1>1. ASSUME PlayInv, [PlayNext]_playVars
      PROVE  [\A id \in Known \cap seeded \cap seeded' : toasts'[id] = toasts[id]]_achVars
  <2>1. CASE UNCHANGED toasts
    BY <2>1
  <2>2. CASE seeded' = {}
    BY <2>2
  <2>3. CASE \E id \in Ids : Award(id) /\ UNCHANGED seeded
    BY <1>1, <2>3, SilentStep DEF PlayInv
  <2>4. CASE UNCHANGED playVars
    BY <2>1, <2>4 DEF playVars, achVars
  <2>5. CASE BeginStep \/ RunStep \/ ReportStep
    BY <2>1, <2>5 DEF BeginStep, RunStep, ReportStep, AchReport, achVars
  <2>6. CASE MenuStep
    BY <2>1, <2>2, <2>6 DEF MenuStep, AchSync, AchReset
  <2>7. CASE AnswerStep
    BY <2>1, <2>3, <2>7 DEF AnswerStep, ToastReturn, MarkAll, ToastUnlocked, GrantElsewhere
  <2>8. CASE \E id \in Ids : AwardLive(id) \/ AwardNested(id)
    BY <2>3, <2>8 DEF AwardLive, AwardNested, AchAward
  <2> QED
    BY <1>1, <2>4, <2>5, <2>6, <2>7, <2>8 DEF PlayNext
<1> QED
  BY <1>1, PlayInvariant, PTL DEF PlaySpec, EarnedStaysSilent

\* A launch is a behaviour of its runs: what achievements do, callbacks that
\* award again included, is no step of xbl_run_begin, the log or a submit.
THEOREM LaunchImplementsRuns == PlaySpec => RunsSpec
<1>1. PlayInit => RunsInit
  BY DEF PlayInit
<1>2. [PlayNext]_playVars => [RunsNext]_<<logVars, runVars>>
  <2> SUFFICES ASSUME [PlayNext]_playVars PROVE RunsNext \/ UNCHANGED <<logVars, runVars>>
    OBVIOUS
  <2>1. CASE UNCHANGED playVars
    BY <2>1 DEF playVars
  <2>2. CASE BeginStep \/ RunStep
    BY <2>2 DEF BeginStep, RunStep, RunsNext
  <2>3. CASE ReportStep \/ MenuStep \/ AnswerStep
    BY <2>3 DEF ReportStep, MenuStep, AnswerStep
  <2>4. CASE \E id \in Ids : AwardLive(id) \/ AwardNested(id)
    BY <2>4 DEF AwardLive, AwardNested
  <2> QED
    BY <2>1, <2>2, <2>3, <2>4 DEF PlayNext
<1> QED
  BY <1>1, <1>2, PTL DEF PlaySpec, RunsSpec
=============================================================================
