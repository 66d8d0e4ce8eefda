--------------------------------- MODULE Runs ---------------------------------
(***************************************************************************)
(* Runs and scores of sdk/xblsdk.c: xbl_run_begin, the input log of the    *)
(* run, xbl_score_submit.  A request may fail on the way, and so may its   *)
(* answer: then the server has done what the caller is told has failed.    *)
(* The server issues a run, stores one score for it if the log replays to  *)
(* what was played, and lets it expire; and it refuses a submit for reasons*)
(* that are not the run's, a session that is stale, a board that does not  *)
(* fit or a time that is not plausible (docs/rest-api.md).                 *)
(***************************************************************************)
EXTENDS InputLog

CONSTANT MaxRuns    \* bound: the runs the server issues
ASSUME MaxRunsAssumption == MaxRuns \in Nat

RunIds == 1 .. MaxRuns
NoRun == 0

VARIABLES
  run,        \* the game's XblRun, by its run_id
  phase,      \* "menu", "run" while it is played, "over"
  rc,         \* what the last submit of this run returned
  accepted,   \* and its *accepted
  why,        \* history: why the server refused it, "none" if it did not
  issued,     \* the server: the runs issued so far
  score       \* the server: score[r] is "open", "stored" or "expired"

runVars == <<run, phase, rc, accepted, why, issued, score>>
serverRuns == <<issued, score>>

RunsInit ==
  /\ LogInit
  /\ run = NoRun
  /\ phase = "menu"
  /\ rc = "none"
  /\ accepted = FALSE
  /\ why = "none"
  /\ issued = 0
  /\ score = [r \in RunIds |-> "open"]

\* xbl_run_begin_map: the run is zeroed before the request.  The server may
\* have issued a run of which the answer is lost.
RunBegin ==
  /\ phase = "menu"
  /\ \/ /\ issued < MaxRuns
        /\ issued' = issued + 1
        /\ \/ run' = issued' /\ phase' = "run"
           \/ run' = NoRun /\ phase' = "menu"
     \/ run' = NoRun /\ UNCHANGED <<issued, phase>>
  /\ rc' = "none"
  /\ accepted' = FALSE
  /\ why' = "none"
  /\ LogFree
  /\ UNCHANGED score

\* A frame of the game.
RunFrame(raw) ==
  /\ phase = "run"
  /\ Record(raw)
  /\ UNCHANGED runVars

\* The game is over.
RunEnd ==
  /\ phase = "run"
  /\ held # <<>>
  /\ phase' = "over"
  /\ UNCHANGED <<logVars, run, rc, accepted, why, serverRuns>>

\* What the server makes of a submit of the game's run, "none" when it stores the
\* score: 409 and 410 for a run that is not open, 422 for a log that does not
\* replay to it, and 400, 401, 403 and 422 whatever the run is.
Verdicts ==
  (IF score[run] # "open" THEN {"closed"} ELSE IF Faithful THEN {"none"} ELSE {"replay"})
    \cup {"caller"}

\* The server handles the submit.
Judge(verdict) ==
  score' = [score EXCEPT ![run] = IF verdict = "none" THEN "stored" ELSE @]

\* The status line: 2xx, or 4xx, which are all one to the caller.
Answered(verdict) ==
  /\ rc' = IF verdict = "none" THEN "ok" ELSE "rejected"
  /\ accepted' = (verdict = "none")
  /\ why' = verdict

\* xbl_score_submit; the game tries again until the answer is definitive.
ScoreSubmit ==
  /\ phase = "over"
  /\ rc \notin {"ok", "rejected"}
  /\ \/ \E verdict \in Verdicts : Judge(verdict) /\ Answered(verdict)
     \/ /\ rc' = "net" /\ accepted' = FALSE
        /\ (\E verdict \in Verdicts : Judge(verdict)) \/ UNCHANGED score
        /\ UNCHANGED why
     \/ rc' = "http" /\ accepted' = FALSE /\ UNCHANGED <<score, why>>
  /\ UNCHANGED <<logVars, run, phase, issued>>

\* Back to the menu.
RunLeave ==
  /\ phase = "over"
  /\ phase' = "menu"
  /\ UNCHANGED <<logVars, run, rc, accepted, why, serverRuns>>

\* The server lets a run expire.
Expire(r) ==
  /\ r <= issued
  /\ score[r] = "open"
  /\ score' = [score EXCEPT ![r] = "expired"]
  /\ UNCHANGED <<logVars, run, phase, rc, accepted, why, issued>>

RunsNext ==
  \/ RunBegin \/ RunEnd \/ ScoreSubmit \/ RunLeave
  \/ \E raw \in RawInputs : RunFrame(raw)
  \/ \E r \in RunIds : Expire(r)

RunsSpec == RunsInit /\ [][RunsNext]_<<logVars, runVars>>

-----------------------------------------------------------------------------
(* Correctness *)

\* A run that is played is one the server issued.
RunsTypeOK ==
  /\ LogTypeOK
  /\ run \in RunIds \cup {NoRun}
  /\ phase \in {"menu", "run", "over"}
  /\ rc \in {"none", "ok", "rejected", "net", "http"}
  /\ accepted \in BOOLEAN
  /\ why \in {"none", "closed", "replay", "caller"}
  /\ issued \in 0 .. MaxRuns
  /\ score \in [RunIds -> {"open", "stored", "expired"}]
  /\ run <= issued
  /\ phase # "menu" => run # NoRun

\* accepted is set only for a score the server has verified and stored, and a
\* score of which the game was told so stays (xblsdk.h 192).
AcceptedIsStored == accepted => score[run] = "stored"

\* A run of which every frame was recorded is never refused for its replay: the
\* log replays to the run, however often the buffer grew or could not grow, and
\* whatever the logs of earlier runs held.
HonestRunNotRefused == why = "replay" => recorded # 0 .. (Len(held) - 1)
=============================================================================
