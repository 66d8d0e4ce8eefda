------------------------------ MODULE Handshake ------------------------------
(***************************************************************************)
(* xbl_lockstep_handshake of sdk/xbl_net.c in front of the match it        *)
(* primes: each console runs the handshake and then, whatever it returns,  *)
(* the loop of Lockstep2.  The consoles are not in step: one may be        *)
(* playing, and sending inputs, while the other is still in its handshake. *)
(* One round of the handshake sends a hello and drains the socket, keeping *)
(* the inputs; it then reads the socket once more, and throws away what    *)
(* that reads.                                                             *)
(***************************************************************************)
EXTENDS Lockstep2

VARIABLES
  round,      \* round[p]: where in the handshake console p is
  got,        \* got[p]: the local variable, and what the handshake returns
  hello       \* hello[p]: console p has sent a hello

hvars == <<round, got, hello>>
allVars == <<vars, hvars>>

HInit ==
  /\ Init
  /\ round = [p \in Players |-> "top"]
  /\ got = [p \in Players |-> FALSE]
  /\ hello = [p \in Players |-> FALSE]

\* A round begins: a hello, which is dropped if no Listen of the peer reads it,
\* and ls_drain, which keeps inputs and ignores a hello.
Greet(p, arrived) ==
  /\ round[p] = "top"
  /\ hello' = [hello EXCEPT ![p] = TRUE]
  /\ Drain(p, arrived)
  /\ round' = [round EXCEPT ![p] = "listen"]
  /\ UNCHANGED <<mine, frame, phase, view, net, lost, got>>

\* The round ends: `read`, and a hello if `hi`, is in the socket by now, says
\* that the peer is there, and is thrown away.  `gone` had no further copy.
Listen(p, read, gone, hi) ==
  /\ round[p] = "listen"
  /\ hi => hello[Other(p)]
  /\ net' = [net EXCEPT ![Other(p)] = @ \ gone]
  /\ got' = [got EXCEPT ![p] = hi \/ read # {}]
  /\ round' = [round EXCEPT ![p] = IF hi \/ read # {} THEN "over" ELSE "top"]
  /\ UNCHANGED <<mine, peer, peerKnown, frame, phase, view, lost, hello>>

\* timeoutMs has passed.
TimeOut(p) ==
  /\ round[p] = "top"
  /\ round' = [round EXCEPT ![p] = "over"]
  /\ UNCHANGED <<vars, got, hello>>

\* Wrong variant: the loop starts before the handshake is over.
PlayStepEarly(p, A) == A /\ UNCHANGED hvars

\* After the handshake, the game's loop.
PlayStep(p, A) == round[p] = "over" /\ A /\ UNCHANGED hvars

GreetSome(p) == \E arrived \in SUBSET net[Other(p)] : Greet(p, arrived)

ListenSome(p) ==
  \E read \in SUBSET net[Other(p)], hi \in BOOLEAN :
    \E gone \in SUBSET read : Listen(p, read, gone, hi)

HNext ==
  \E p \in Players :
    \/ GreetSome(p) \/ ListenSome(p) \/ TimeOut(p)
    \/ PlayStep(p, RecordSome(p)) \/ PlayStep(p, PumpSome(p)) \/ PlayStep(p, Apply(p))

HSpec == HInit /\ [][HNext]_allVars

\* A round ends, the time for rounds runs out, and after its handshake a
\* console keeps running its loop.
HFairness ==
  \A p \in Players :
    /\ WF_allVars(ListenSome(p))
    /\ SF_allVars(TimeOut(p))
    /\ WF_allVars(PlayStep(p, RecordSome(p)))
    /\ WF_allVars(PlayStep(p, PumpAll(p)))
    /\ WF_allVars(PlayStep(p, Apply(p)))

HFairSpec == HSpec /\ HFairness

-----------------------------------------------------------------------------
(* Correctness *)

\* LossTolerance and MatchCompletes of Lockstep2 are those of a match with
\* handshakes too: what a handshake throws away never stalls the match, since
\* a console that has passed a frame has sent it again after its peer's
\* handshake (sdk/xbl_net.h, "you may still proceed").

-----------------------------------------------------------------------------
(* The inductive invariant behind LossTolerance: what a handshake throws    *)
(* away was sent before the peer of its console left frame 0.               *)

HTypeOK ==
  /\ round \in [Players -> {"top", "listen", "over"}]
  /\ got \in [Players -> BOOLEAN]
  /\ hello \in [Players -> BOOLEAN]

\* A console has heard an input of its peer.
Heard(p) == \E f \in Frames : peerKnown[p][f]

\* A console in its handshake has sent no input, so that its peer knows none.
Unheard ==
  \A p \in Players :
    round[p] # "over" =>
      /\ frame[p] = 0 /\ phase[p] = "record"
      /\ net[p] = {}
      /\ ~Heard(Other(p))

\* No console leaves frame 0 before it has heard its peer.
LeftAfterHeard == \A p \in Players : frame[p] > 0 => Heard(p)

\* Once a console has heard its peer, which is therefore past its handshake, a
\* frame of which no copy survived has lost every copy the pumps sent.
LossCountedSinceHeard ==
  \A p \in Players, f \in Frames : Heard(p) => Counted(p, f)

HInv == LinkInv /\ HTypeOK /\ Unheard /\ LeftAfterHeard /\ LossCountedSinceHeard
=============================================================================
