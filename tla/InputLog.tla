------------------------------- MODULE InputLog -------------------------------
(***************************************************************************)
(* The input log of sdk/xblsdk.c (xbl_inputlog_...): the held input of     *)
(* each frame, recorded when it changes, as text that the server replays.  *)
(* The text is a sequence of entries and its length; the buffer doubles    *)
(* when an entry does not fit, and growing it may fail.                    *)
(***************************************************************************)
EXTENDS Integers, Sequences

CONSTANTS
  FrameCount, \* frames of a run
  RawInputs,  \* what the game passes as the state: 0 .. 2^k - 1
  InMask,     \* XBL_IN_MASK + 1: the states below it have defined bits only
  EntryLen,   \* characters of "frame:state", without the comma
  FirstCap    \* the capacity of the first allocation

ASSUME FrameCountAssumption == FrameCount \in Nat \ {0}
ASSUME InputAssumption == RawInputs \subseteq Nat /\ InMask \in Nat \ {0}
ASSUME CapAssumption == EntryLen \in Nat \ {0} /\ FirstCap \in Nat \ {0}

RunFrames == 0 .. (FrameCount - 1)
NoState == -1

VARIABLES
  entries,    \* the entries of l->buf
  used,       \* l->len
  cap,        \* l->cap
  lastState,  \* l->last_state
  held,       \* history: the masked state of every frame played
  recorded    \* history: the frames whose record returned XBL_OK

logVars == <<entries, used, cap, lastState, held, recorded>>

States == {raw % InMask : raw \in RawInputs}

\* xbl_inputlog_init
LogInit ==
  /\ entries = <<>>
  /\ used = 0
  /\ cap = 0
  /\ lastState = NoState
  /\ held = <<>>
  /\ recorded = {}

\* Wrong variant: the entries of the last run stay.
LogReused ==
  /\ held' = <<>>
  /\ recorded' = {}
  /\ UNCHANGED <<entries, used, cap, lastState>>

\* xbl_inputlog_free, and the log of the next run
LogFree ==
  /\ entries' = <<>>
  /\ used' = 0
  /\ cap' = 0
  /\ lastState' = NoState
  /\ held' = <<>>
  /\ recorded' = {}

\* The length of the next entry: a comma goes before all but the first.
PieceLen == IF entries = <<>> THEN EntryLen ELSE EntryLen + 1

\* Wrong variant: no room for the terminating NUL.
FitsBarely(room) == used + PieceLen <= room

\* The entry and the NUL behind it fit.
Fits(room) == used + PieceLen + 1 <= room

\* newcap after each round of the loop that doubles it until the entry fits.
Doublings ==
  LET newcap[k \in 0 .. (used + PieceLen + 1)] ==
        IF k = 0 THEN IF cap = 0 THEN FirstCap ELSE 2 * cap
        ELSE IF Fits(newcap[k - 1]) THEN newcap[k - 1]
        ELSE 2 * newcap[k - 1]
  IN newcap

\* The capacity asked of realloc: the loop ends before as many rounds.
Grown == Doublings[used + PieceLen + 1]

\* The frame is played with `state`.
Play(state) == held' = Append(held, state)

\* Wrong variant: the state counts as recorded before the buffer has grown.
KeepWithoutRecord(state) == lastState' = state /\ UNCHANGED <<entries, used, cap, recorded>>

\* XBL_ERR_NOMEM: the log is as it was, so that the change is recorded later.
Keep(state) == UNCHANGED <<entries, used, cap, lastState, recorded>>

\* xbl_inputlog_record, for the frame that is played.
Record(raw) ==
  LET state == raw % InMask
      f == Len(held)
  IN
  /\ f < FrameCount
  /\ Play(state)
  /\ \/ /\ state = lastState
        /\ recorded' = recorded \cup {f}
        /\ UNCHANGED <<entries, used, cap, lastState>>
     \/ /\ state # lastState
        /\ cap' = IF Fits(cap) THEN cap ELSE Grown
        /\ entries' = Append(entries, [frame |-> f, state |-> state])
        /\ used' = used + PieceLen
        /\ lastState' = state
        /\ recorded' = recorded \cup {f}
     \/ /\ state # lastState
        /\ ~Fits(cap)
        /\ Keep(state)

\* What the server's replay holds at frame f: the last entry that is not after it,
\* and 0 before the first.
Replayed(f) ==
  LET before == {i \in 1 .. Len(entries) : entries[i].frame <= f}
  IN IF before = {} THEN 0
     ELSE entries[CHOOSE i \in before : \A j \in before : j <= i].state

\* The log stands for the run as it was played.
Faithful == \A f \in 0 .. (Len(held) - 1) : Replayed(f) = held[f + 1]

-----------------------------------------------------------------------------
(* Correctness *)

\* Entries and counters in range, and the text with its NUL inside the buffer.
LogTypeOK ==
  /\ entries \in Seq([frame : RunFrames, state : States])
  /\ used \in Nat /\ cap \in Nat
  /\ lastState \in States \cup {NoState}
  /\ held \in Seq(States)
  /\ Len(held) <= FrameCount
  /\ recorded \subseteq 0 .. (Len(held) - 1)
  /\ entries # <<>> => used < cap

\* A frame whose record returned XBL_OK replays as it was played, whatever
\* records before it failed: a change that could not be appended is appended
\* by the next call (the last_state of xbl_inputlog_record).
RecordedReplays == \A f \in recorded : Replayed(f) = held[f + 1]

\* The server refuses a log whose frames do not ascend (docs/anti-cheat.md).
FramesAscend ==
  \A i, j \in 1 .. Len(entries) : i < j => entries[i].frame < entries[j].frame
=============================================================================
