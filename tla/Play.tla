--------------------------------- MODULE Play ---------------------------------
(***************************************************************************)
(* One launch of a game from the menu through its runs: Runs and           *)
(* Achievements together, in the order of docs/achievements.md.  In a run  *)
(* the game awards what its held inputs have earned; after it, it submits  *)
(* the score and reports the run, and the server replays the log to grant  *)
(* what it earns.                                                          *)
(***************************************************************************)
EXTENDS Runs, Achievements

CONSTANTS
  Trigger,    \* Trigger[id]: the held state that earns the run achievement id
  Cumulative  \* the achievements the first stored score earns

ASSUME KindsAssumption == DOMAIN Trigger \cup Cumulative \subseteq Ids

VARIABLE reported   \* history: this run was reported, and the answer came

playVars == <<logVars, runVars, achVars, reported>>

PlayInit == RunsInit /\ AchInit /\ reported = FALSE

\* The run achievements of a run that held these states.
EarnedBy(states) == {id \in DOMAIN Trigger : Trigger[id] \in states}

\* What the server finds when it replays the log of the run.
EarnedAtServer ==
  EarnedBy({Replayed(f) : f \in 0 .. (Len(held) - 1)})
    \cup (IF \E r \in RunIds : score[r] = "stored" THEN Cumulative ELSE {})

\* A step of the run, by a thread that is not in a callback.
RunStep ==
  /\ AchIdle
  /\ \/ RunEnd \/ ScoreSubmit \/ RunLeave
     \/ \E raw \in RawInputs : RunFrame(raw)
     \/ \E r \in RunIds : Expire(r)
  /\ UNCHANGED <<achVars, reported>>

BeginStep ==
  /\ AchIdle
  /\ RunBegin
  /\ reported' = FALSE
  /\ UNCHANGED achVars

\* The game, or its toast callback, awards what the run has earned so far.
AwardLive(id) ==
  /\ phase = "run"
  /\ id \in EarnedBy({held[i] : i \in DOMAIN held})
  /\ AchAward(id)
  /\ UNCHANGED <<logVars, runVars, reported>>

\* A callback of a toast that a report brings awards anything.
AwardNested(id) ==
  /\ reporting /\ depth > 0
  /\ AchAward(id)
  /\ UNCHANGED <<logVars, runVars, reported>>

ReportStep ==
  /\ phase = "over"
  /\ AchReport(EarnedAtServer)
  /\ reported' = (reported \/ reporting')
  /\ UNCHANGED <<logVars, runVars>>

\* In the menu: sync, or sign in to another account and forget the run.
MenuStep ==
  /\ phase = "menu"
  /\ AchSync \/ AchReset
  /\ reported' = FALSE
  /\ UNCHANGED <<logVars, runVars>>

AnswerStep ==
  /\ ToastReturn \/ MarkAll \/ (\E id \in Ids : ToastUnlocked(id) \/ GrantElsewhere(id))
  /\ UNCHANGED <<logVars, runVars, reported>>

PlayNext ==
  \/ BeginStep \/ RunStep \/ ReportStep \/ MenuStep \/ AnswerStep
  \/ \E id \in Ids : AwardLive(id) \/ AwardNested(id)

PlaySpec == PlayInit /\ [][PlayNext]_playVars

-----------------------------------------------------------------------------
(* Correctness *)

PlayTypeOK == RunsTypeOK /\ AchTypeOK /\ reported \in BOOLEAN

\* What a run has earned, the server has granted once the run is reported and
\* every frame of it was recorded: a live toast is confirmed (docs/achievements.md,
\* "Why the toast fires before the server confirms").
LiveToastsAreGranted ==
  reported /\ recorded = 0 .. (Len(held) - 1) =>
    EarnedBy({held[i] : i \in DOMAIN held}) \subseteq granted
=============================================================================
