-------------------------------- MODULE Rematch --------------------------------
(***************************************************************************)
(* A second match between the same two consoles (docs/multiplayer.md:      *)
(* "everyone stays for a rematch").  A console that has played its match   *)
(* calls xbl_lockstep_init again, over a socket on the same port           *)
(* (XBL_NET_LIVE_PORT) that holds none of the datagrams sent so far.  Its  *)
(* peer may still be in the loop of the first match, and sending.          *)
(***************************************************************************)
EXTENDS Lockstep2

CONSTANT Matches    \* bound: the matches a console plays

VARIABLE match      \* match[p]: the match console p is in

rematchVars == <<vars, match>>

RInit == Init /\ match = [p \in Players |-> 1]

\* xbl_lockstep_init for the next match: everything starts afresh, and what
\* the peer has sent so far is not in the new socket.
Restart(p) ==
  /\ phase[p] = "done"
  /\ match[p] < Matches
  /\ match' = [match EXCEPT ![p] = @ + 1]
  /\ mine' = [mine EXCEPT ![p] = [f \in Frames |-> Neutral]]
  /\ peer' = [peer EXCEPT ![p] = [f \in Frames |-> Neutral]]
  /\ peerKnown' = [peerKnown EXCEPT ![p] = [f \in Frames |-> FALSE]]
  /\ frame' = [frame EXCEPT ![p] = 0]
  /\ phase' = [phase EXCEPT ![p] = "record"]
  /\ view' = [view EXCEPT ![p] = [f \in MatchFrames |-> Silence]]
  /\ net' = [net EXCEPT ![Other(p)] = {}]
  /\ lost' = [lost EXCEPT ![p] = [f \in Frames |-> 0]]

RNext ==
  \/ Next /\ UNCHANGED match
  \/ \E p \in Players : Restart(p)

RSpec == RInit /\ [][RNext]_rematchVars

-----------------------------------------------------------------------------

\* sdk/xbl_net.h of XblLockstep: "so the two simulations can never desync".
\* In one match, both consoles step a frame with the same inputs.
AgreementInEveryMatch ==
  match[0] = match[1] =>
    \A f \in MatchFrames : f < frame[0] /\ f < frame[1] => view[0][f] = view[1][f]
=============================================================================
