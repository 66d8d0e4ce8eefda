------------------------------ MODULE HandshakeN ------------------------------
(***************************************************************************)
(* xbl_lockstep_n_handshake of sdk/xbl_net.c in front of the match it      *)
(* primes.  Host and guests run it at their own pace and then, whatever it *)
(* returns, the loop of LockstepN: "you may still proceed; per-frame       *)
(* traffic re-links" (sdk/xbl_net.h).                                      *)
(***************************************************************************)
EXTENDS LockstepN

VARIABLES
  shaking,    \* shaking[c]: console c is in its handshake
  ok,         \* ok[c]: the local variable, and what the handshake returns
  helloUp,    \* helloUp[g]: a hello of guest g to the host was not dropped
  helloDown   \* helloDown[g]: a hello of the host to g was not dropped

hvars == <<shaking, ok, helloUp, helloDown>>
allVars == <<vars, hvars>>

\* No guest is known to the host when its handshake begins.
HInit ==
  /\ Init
  /\ gpeerSet = [g \in Guests |-> FALSE]
  /\ shaking = [c \in Players |-> TRUE]
  /\ ok = [c \in Players |-> FALSE]
  /\ helloUp = [g \in Guests |-> FALSE]
  /\ helloDown = [g \in Guests |-> FALSE]

\* One round on the host: hellos to the guests it knows, of which those to
\* `sent` survive, then a drain of `arrived` and the hellos of `hellos`.
HostRound(sent, arrived, hellos) ==
  /\ shaking[Host]
  /\ helloDown' = [g \in Guests |-> helloDown[g] \/ (g \in sent /\ gpeerSet[g])]
  /\ gpeerSet' = [g \in Guests |->
       gpeerSet[g] \/ g \in hellos \/ \E d \in arrived : d.player = g]
  /\ HostStore(arrived)
  /\ ok' = [ok EXCEPT ![Host] = \A g \in Guests : gpeerSet'[g]]
  /\ shaking' = [shaking EXCEPT ![Host] = ~ok'[Host]]
  /\ UNCHANGED <<ready, frame, phase, view, toHost, toGuest, lostInput, lostAgg,
                 helloUp>>

\* The guest's test for the end of the loop.
GuestLinked(g) == ready'[g][0]

\* One round on a guest: a hello, dropped unless `sent`, then a drain of
\* `arrived`, and of a hello of the host if `hi`, which nls_drain ignores.
GuestRound(g, sent, arrived, hi) ==
  /\ shaking[g]
  /\ hi => helloDown[g]
  /\ helloUp' = [helloUp EXCEPT ![g] = @ \/ sent]
  /\ GuestDrain(g, arrived)
  /\ ok' = [ok EXCEPT ![g] = GuestLinked(g)]
  /\ shaking' = [shaking EXCEPT ![g] = ~ok'[g]]
  /\ UNCHANGED <<known, gpeerSet, frame, phase, view, toHost, toGuest, lostInput, lostAgg,
                 helloDown>>

\* Wrong variant: the game waits for a handshake that succeeds.
TimeOutLinked(c) ==
  /\ shaking[c] /\ ok[c]
  /\ shaking' = [shaking EXCEPT ![c] = FALSE]
  /\ UNCHANGED <<vars, ok, helloUp, helloDown>>

\* timeoutMs has passed.
TimeOut(c) ==
  /\ shaking[c]
  /\ shaking' = [shaking EXCEPT ![c] = FALSE]
  /\ UNCHANGED <<vars, ok, helloUp, helloDown>>

HostRoundSome ==
  \E sent \in SUBSET Guests, arrived \in SUBSET toHost,
     hellos \in SUBSET {g \in Guests : helloUp[g]} :
    HostRound(sent, arrived, hellos)

GuestRoundSome(g) ==
  \E sent, hi \in BOOLEAN, arrived \in SUBSET toGuest[g] : GuestRound(g, sent, arrived, hi)

\* After the handshake, the game's loop.
PlayStep(c, A) == ~shaking[c] /\ A /\ UNCHANGED hvars

HNext ==
  \/ HostRoundSome
  \/ \E g \in Guests : GuestRoundSome(g)
  \/ \E c \in Players : TimeOut(c)
  \/ PlayStep(Host, HostPumpSome)
  \/ \E g \in Guests : PlayStep(g, GuestPumpSome(g))
  \/ \E c \in Players : PlayStep(c, RecordSome(c)) \/ PlayStep(c, Apply(c))

HSpec == HInit /\ [][HNext]_allVars

\* Time passes, and after its handshake a console keeps running its loop.
HFairness ==
  /\ WF_allVars(PlayStep(Host, HostPumpAll))
  /\ \A g \in Guests : WF_allVars(PlayStep(g, GuestPumpAll(g)))
  /\ \A c \in Players :
       /\ WF_allVars(TimeOut(c))
       /\ WF_allVars(PlayStep(c, RecordSome(c)))
       /\ WF_allVars(PlayStep(c, Apply(c)))

HFairSpec == HSpec /\ HFairness

-----------------------------------------------------------------------------
(* Correctness *)

\* The state of the match, with handshakes that touch it before it starts.
HTypeOK ==
  /\ TypeOK
  /\ shaking \in [Players -> BOOLEAN]
  /\ ok \in [Players -> BOOLEAN]
  /\ helloUp \in [Guests -> BOOLEAN]
  /\ helloDown \in [Guests -> BOOLEAN]
  /\ \A c \in Players : shaking[c] => phase[c] = "record" /\ ~ok[c]

\* A guest's handshake waits for the aggregate of frame 0, which needs the
\* input that the guest sends only after its handshake: only the timeout ends it.
GuestHandshakeTimesOut == \A g \in Guests : ~ok[g]
=============================================================================
