------------------------------ MODULE LiveBattle ------------------------------
(***************************************************************************)
(* A live battle of two from the start of the round to the verdict, around *)
(* the search of Rendezvous: xbl_mp_start and xbl_mp_round fetch a         *)
(* console's run, xbl_mp_net_register and xbl_mp_net_poll exchange the     *)
(* endpoints, xbl_mp_battle_finish uploads the log, all of sdk/xblsdk.c.   *)
(* Each is a request that may be lost, or whose answer may be; a game      *)
(* repeats a call that failed.  The server replays the battle once it has  *)
(* both logs (docs/rest-api.md).  Console 0 is the host.                   *)
(***************************************************************************)
EXTENDS Rendezvous

CONSTANT MaxFailed  \* bound: calls that fail
ASSUME FailedAssumption == MaxFailed \in Nat

Draw == 2
NoVerdict == 3

VARIABLES
  playing,     \* the server: the round has started
  endpoints,   \* the server: consoles whose endpoint is registered
  logs,        \* the server: consoles whose log is in
  verdict,     \* the server: the winner, Draw, or NoVerdict so far
  run,         \* run[p]: the console has its run of the round
  registered,  \* registered[p]: its xbl_mp_net_register has returned XBL_OK
  ready,       \* ready[p]: peer_ready of its XblNetMatch
  result,      \* result[p]: *result of xbl_mp_battle_finish
  failed       \* history: calls that have failed

server == <<playing, endpoints, logs, verdict>>
live == <<playing, endpoints, logs, verdict, run, registered, ready, result, failed>>
liveVars == <<vars, live>>

LiveInit ==
  /\ Init
  /\ playing = FALSE
  /\ endpoints = {}
  /\ logs = {}
  /\ verdict = NoVerdict
  /\ run = [p \in Players |-> FALSE]
  /\ registered = [p \in Players |-> FALSE]
  /\ ready = [p \in Players |-> FALSE]
  /\ result = [p \in Players |-> -1]
  /\ failed = 0

\* No answer: the call returns an error.
Fail == failed < MaxFailed /\ failed' = failed + 1
Succeed == UNCHANGED failed

\* The answer to start and to me: the console's run, with the seed of the round.
HasRun(p) == run' = [run EXCEPT ![p] = TRUE]

\* xbl_mp_start.
StartRound ==
  /\ ~playing
  /\ \/ playing' = TRUE /\ HasRun(0) /\ Succeed
     \/ playing' \in BOOLEAN /\ UNCHANGED run /\ Fail
  /\ UNCHANGED <<vars, endpoints, logs, verdict, registered, ready, result>>

\* xbl_mp_round, once the lobby says that the round is on; by the host too, if
\* the answer to its start was lost.
FetchRound(p) ==
  /\ playing
  /\ ~run[p]
  /\ \/ HasRun(p) /\ Succeed
     \/ UNCHANGED run /\ Fail
  /\ UNCHANGED <<vars, server, registered, ready, result>>

\* parse_net_match: peer_ready once the peer's endpoint is registered.
Match(p) == ready' = [ready EXCEPT ![p] = Other(p) \in endpoints]

\* Wrong variant: the result of the request is not looked at.
NotRegistered(p) == registered' = [registered EXCEPT ![p] = TRUE] /\ UNCHANGED ready

\* sess_request has failed: neither the result nor *out is written.
RegisterFailed(p) == UNCHANGED <<registered, ready>>

\* xbl_mp_net_register.
Register(p) ==
  /\ run[p]
  /\ ~registered[p]
  /\ \/ /\ endpoints' = endpoints \cup {p}
        /\ registered' = [registered EXCEPT ![p] = TRUE]
        /\ Match(p) /\ Succeed
     \/ endpoints' \in {endpoints, endpoints \cup {p}} /\ RegisterFailed(p) /\ Fail
  /\ UNCHANGED <<vars, playing, logs, verdict, run, result>>

\* Wrong variant: the answer is not parsed into *out.
PollNever(p) ==
  /\ registered[p]
  /\ ~ready[p]
  /\ UNCHANGED ready
  /\ Succeed \/ Fail
  /\ UNCHANGED <<vars, server, run, registered, result>>

\* xbl_mp_net_poll, until the peer is there.
PollPeer(p) ==
  /\ registered[p]
  /\ ~ready[p]
  /\ \/ Match(p) /\ Succeed
     \/ UNCHANGED ready /\ Fail
  /\ UNCHANGED <<vars, server, run, registered, result>>

\* The search, among the endpoints of a peer that is there.
Dial(p) == ready[p] /\ Connect(p) /\ UNCHANGED live

SearchStep(p) == (Volley(p) \/ HearSome(p) \/ Doze(p) \/ GiveUp(p)) /\ UNCHANGED live
TalkStep(p) == Talk(p) /\ UNCHANGED live

\* The server has every log: it replays the battle.
Decide ==
  IF verdict = NoVerdict /\ logs' = Players
  THEN verdict' \in Players \cup {Draw} ELSE UNCHANGED verdict

\* *result: 1 for a win, 0 for a loss, -1 for a draw or no verdict yet.
ResultOf(p, v) == IF v = p THEN 1 ELSE IF v \in Players THEN 0 ELSE -1

\* Wrong variant: a console whose log is in does not ask again.
BattleFinishOnce(p) ==
  /\ \A q \in Players : pc[q] = "linked"
  /\ p \notin logs
  /\ logs' = logs \cup {p}
  /\ Decide
  /\ result' = [result EXCEPT ![p] = ResultOf(p, verdict')]
  /\ Succeed
  /\ UNCHANGED <<vars, playing, endpoints, run, registered, ready>>

\* xbl_mp_battle_finish after the match of two linked consoles, again until it
\* brings a winner.
BattleFinish(p) ==
  /\ \A q \in Players : pc[q] = "linked"
  /\ result[p] = -1
  /\ \/ /\ logs' = logs \cup {p}
        /\ Decide
        /\ result' = [result EXCEPT ![p] = ResultOf(p, verdict')]
        /\ Succeed
     \/ /\ logs' \in {logs, logs \cup {p}}
        /\ Decide
        /\ UNCHANGED result
        /\ Fail
  /\ UNCHANGED <<vars, playing, endpoints, run, registered, ready>>

CallStep(p) == FetchRound(p) \/ Register(p) \/ PollPeer(p) \/ BattleFinish(p)

LiveNext ==
  \/ StartRound
  \/ \E p \in Players : CallStep(p) \/ Dial(p) \/ SearchStep(p) \/ TalkStep(p)
  \/ Carry /\ UNCHANGED live

\* A console goes on with what it has to do.
LiveFairness ==
  \A p \in Players : WF_liveVars(CallStep(p) \/ Dial(p) \/ SearchStep(p))

LiveSpec == LiveInit /\ [][LiveNext]_liveVars /\ LiveFairness

-----------------------------------------------------------------------------
(* Correctness *)

LiveTypeOK ==
  /\ TypeOK
  /\ playing \in BOOLEAN
  /\ endpoints \subseteq Players /\ logs \subseteq Players
  /\ verdict \in Players \cup {NoVerdict, Draw}
  /\ run \in [Players -> BOOLEAN]
  /\ registered \in [Players -> BOOLEAN]
  /\ ready \in [Players -> BOOLEAN]
  /\ result \in [Players -> {-1, 0, 1}]
  /\ failed \in 0 .. MaxFailed

\* A console that dials has been announced to its peer, whichever calls of the
\* two were lost: the search is for a console that can search for it
\* (xbl_mp_net_register).
SearchIsMutual == \A p \in Players : pc[p] # "idle" => endpoints = Players

\* The results the consoles are told never contradict each other
\* (xbl_mp_battle_finish, "+1 (you won), 0 (you lost)").
ResultsAgree == \A p \in Players : result[p] # -1 => result[Other(p)] \in {-1, 1 - result[p]}

\* Two linked consoles learn the verdict unless it is a draw, although the first
\* log to arrive brings none and answers are lost.
VerdictArrives ==
  (\A p \in Players : pc[p] = "linked")
    ~> (verdict = Draw \/ \A p \in Players : result[p] # -1)

\* Once a round is on, both consoles get to search for each other.
RoundIsDialed == playing ~> \A p \in Players : pc[p] # "idle"
=============================================================================
