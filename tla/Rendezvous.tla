------------------------------ MODULE Rendezvous ------------------------------
(***************************************************************************)
(* xbl_net_connect_peer of sdk/xbl_net.c on two consoles, over the UDP     *)
(* link of the same file.  A round sends a hello to every candidate        *)
(* address of the peer and drains the socket; the first packet with the    *)
(* magic number, from wherever it came, is answered and its source is the  *)
(* peer.  A console that has linked goes on to send: the handshake and the *)
(* match have the same magic number.  Packets are in flight for as long as *)
(* it takes, for ever if they are dropped.  Time is GetTickCount, which    *)
(* wraps.                                                                  *)
(*                                                                         *)
(* The consoles are behind address translators: an open one lets           *)
(* everything in; a restricted one only what comes from an address the     *)
(* console has sent to; a symmetric one is like a restricted one, but      *)
(* sends from an address that nobody was told of.                          *)
(***************************************************************************)
EXTENDS Integers

CONSTANTS
  Wrap,       \* ticks before GetTickCount wraps: 2^32 in the code
  Timeout,    \* timeoutMs, in rounds
  BootTicks   \* what GetTickCount may be at first

ASSUME ClockAssumption ==
  /\ Wrap \in Nat /\ Timeout \in Nat
  /\ 2 * Timeout < Wrap
  /\ BootTicks \subseteq 0 .. (Wrap - 1)

Players == {0, 1}
Other(p) == 1 - p

Translators == {"open", "restricted", "symmetric"}
Addresses == Players \X {"lan", "public", "mapped"}
Nowhere == <<2, "public">>

\* The packets a socket holds, by source; without the magic number they are
\* somebody else's.
Packets == [from : Addresses \cup {Nowhere}, magic : BOOLEAN]

Flights == [from : Addresses, to : Addresses]

VARIABLES
  nat,        \* nat[p]: the translator of console p
  lan,        \* the consoles share a local network
  opened,     \* opened[p]: the addresses p's translator has seen it send to
  flying,     \* the packets in flight, all with the magic number
  inbox,      \* inbox[p]: what its socket holds
  pc,         \* pc[p]: where in xbl_net_connect_peer console p is
  tick,       \* tick[p]: GetTickCount
  start,      \* start[p]: the local variable
  peer,       \* peer[p]: n->peer, or Nowhere if there is none
  rounds,     \* history: rounds[p] of the search, no further than Timeout + 1
  called,     \* history: called[p], the peer has sent since p's first hellos
  deaf        \* history: deaf[p], a drain of p came up empty although it was called
              \* and no packet was on its way to p

network == <<nat, lan>>
vars ==
  <<nat, lan, opened, flying, inbox, pc, tick, start, peer, rounds, called, deaf>>

\* xbl_net_open on both consoles; a packet of somebody else may be waiting.
Init ==
  /\ nat \in [Players -> Translators]
  /\ lan \in BOOLEAN
  /\ opened = [p \in Players |-> {}]
  /\ flying = {}
  /\ inbox \in [Players -> {{}, {[from |-> Nowhere, magic |-> FALSE]}}]
  /\ pc = [p \in Players |-> "idle"]
  /\ tick \in [Players -> BootTicks]
  /\ start = tick
  /\ peer = [p \in Players |-> Nowhere]
  /\ rounds = [p \in Players |-> 0]
  /\ called = [p \in Players |-> FALSE]
  /\ deaf = [p \in Players |-> FALSE]

\* Wrong variant: only the first candidate is tried.
FirstCandidate(p) == {<<Other(p), "public">>}

\* The endpoints the server lists for the peer.
Candidates(p) == {<<Other(p), "public">>, <<Other(p), "lan">>}

\* Where a packet of p to `dst` seems to come from.
Source(p, dst) ==
  IF dst[2] = "lan" THEN <<p, "lan">>
  ELSE IF nat[p] = "symmetric" THEN <<p, "mapped">>
  ELSE <<p, "public">>

\* The translator of the console behind `dst` lets a packet from `src` in.
Passes(src, dst) ==
  \/ dst[2] = "lan" /\ lan
  \/ dst[2] = "public" /\ nat[dst[1]] = "open"
  \/ /\ <<dst[2], nat[dst[1]]>> \in {<<"public", "restricted">>, <<"mapped", "symmetric">>}
     /\ src \in opened[dst[1]]

\* A packet of p to `dst` gets through to the peer's socket.
Arrives(p, dst) == dst[1] = Other(p) /\ Passes(Source(p, dst), dst)

\* A packet to p is in flight.
OnItsWay(p) == \E k \in flying : k.to[1] = p

\* xbl_net_send_to each of dsts: into the network.  A packet that is sent again
\* while it is in flight is the same packet.
SendTo(p, dsts) ==
  /\ opened' = [opened EXCEPT ![p] = @ \cup {d \in dsts : d[2] # "lan"}]
  /\ flying' = flying \cup {[from |-> Source(p, d), to |-> d] : d \in dsts}
  /\ called' = [called EXCEPT
       ![Other(p)] = @ \/ (opened[Other(p)] # {} /\ pc[Other(p)] \in {"top", "listen"})]

\* Wrong variant: the deadline is computed first.
SearchingDeadline(p) == tick[p] < (start[p] + Timeout) % Wrap

\* The elapsed time is the difference, modulo Wrap, as a signed number.
Searching(p) ==
  LET d == (tick[p] - start[p]) % Wrap
  IN (IF 2 * d >= Wrap THEN d - Wrap ELSE d) < Timeout

\* xbl_net_connect_peer is called.
Connect(p) ==
  /\ pc[p] = "idle"
  /\ start' = [start EXCEPT ![p] = tick[p]]
  /\ pc' = [pc EXCEPT ![p] = "top"]
  /\ UNCHANGED <<network, opened, flying, inbox, tick, peer, rounds, called, deaf>>

\* A round begins: a hello to every candidate.
Volley(p) ==
  /\ pc[p] = "top"
  /\ Searching(p)
  /\ SendTo(p, Candidates(p))
  /\ pc' = [pc EXCEPT ![p] = "listen"]
  /\ rounds' = [rounds EXCEPT ![p] = IF @ > Timeout THEN @ ELSE @ + 1]
  /\ UNCHANGED <<network, inbox, tick, start, peer, deaf>>

\* Wrong variant: the peer is where the server said.
LinkToCandidate(p, packet) ==
  /\ packet.magic
  /\ peer' = [peer EXCEPT ![p] = <<Other(p), "public">>]

\* A packet with the magic number makes its source the peer.
LinkTo(p, packet) ==
  /\ packet.magic
  /\ peer' = [peer EXCEPT ![p] = packet.from]

\* Wrong variant: a packet of somebody else stays in the socket.
HearNotTaken(p, packet) ==
  /\ pc[p] = "listen"
  /\ packet \in inbox[p]
  /\ LinkTo(p, packet)
  /\ SendTo(p, {packet.from})
  /\ inbox' = [inbox EXCEPT ![p] = @ \ {packet}]
  /\ pc' = [pc EXCEPT ![p] = "linked"]
  /\ UNCHANGED <<network, tick, start, rounds, deaf>>

\* recvfrom finds a packet: answered, and the link is there; or ignored.
Hear(p, packet) ==
  /\ pc[p] = "listen"
  /\ packet \in inbox[p]
  /\ inbox' = [inbox EXCEPT ![p] = @ \ {packet}]
  /\ \/ /\ LinkTo(p, packet)
        /\ SendTo(p, {packet.from})
        /\ pc' = [pc EXCEPT ![p] = "linked"]
     \/ /\ ~packet.magic
        /\ UNCHANGED <<opened, flying, pc, peer, called>>
  /\ UNCHANGED <<network, tick, start, rounds, deaf>>

\* recvfrom finds nothing: Sleep, for a tick here.
Doze(p) ==
  /\ pc[p] = "listen"
  /\ inbox[p] = {}
  /\ tick' = [tick EXCEPT ![p] = (@ + 1) % Wrap]
  /\ pc' = [pc EXCEPT ![p] = "top"]
  /\ deaf' = [deaf EXCEPT ![p] = called[p] /\ ~OnItsWay(p)]
  /\ UNCHANGED <<network, opened, flying, inbox, start, peer, rounds, called>>

\* timeoutMs has passed.
GiveUp(p) ==
  /\ pc[p] = "top"
  /\ ~Searching(p)
  /\ pc' = [pc EXCEPT ![p] = "gave up"]
  /\ UNCHANGED <<network, opened, flying, inbox, tick, start, peer, rounds, called, deaf>>

\* The traffic of a linked console: xbl_net_send, to n->peer.
Talk(p) ==
  /\ pc[p] = "linked"
  /\ SendTo(p, {peer[p]})
  /\ UNCHANGED <<network, inbox, pc, tick, start, peer, rounds, deaf>>

\* The network: packet k comes to a translator, which lets it in or does not.  One
\* that is dropped never does.
Deliver(k) ==
  /\ flying' = flying \ {k}
  /\ inbox' = [inbox EXCEPT
       ![k.to[1]] = IF Passes(k.from, k.to) THEN @ \cup {[from |-> k.from, magic |-> TRUE]} ELSE @]
  /\ UNCHANGED <<network, opened, pc, tick, start, peer, rounds, called, deaf>>

HearSome(p) == \E packet \in inbox[p] : Hear(p, packet)

Carry == \E k \in flying : Deliver(k)

Next ==
  \/ \E p \in Players :
       Connect(p) \/ Volley(p) \/ HearSome(p) \/ Doze(p) \/ GiveUp(p) \/ Talk(p)
  \/ Carry

Spec == Init /\ [][Next]_vars

\* A console that searches keeps running.
Fairness ==
  \A p \in Players : WF_vars(Volley(p) \/ HearSome(p) \/ Doze(p) \/ GiveUp(p))

FairSpec == Spec /\ Fairness

-----------------------------------------------------------------------------
(* Correctness *)

\* A console is linked when it has a peer.
TypeOK ==
  /\ nat \in [Players -> Translators]
  /\ lan \in BOOLEAN
  /\ opened \in [Players -> SUBSET Addresses]
  /\ flying \subseteq Flights
  /\ inbox \in [Players -> SUBSET Packets]
  /\ pc \in [Players -> {"idle", "top", "listen", "linked", "gave up"}]
  /\ tick \in [Players -> 0 .. (Wrap - 1)]
  /\ start \in [Players -> 0 .. (Wrap - 1)]
  /\ peer \in [Players -> Addresses \cup {Nowhere}]
  /\ rounds \in [Players -> 0 .. (Timeout + 1)]
  /\ called \in [Players -> BOOLEAN]
  /\ deaf \in [Players -> BOOLEAN]
  /\ \A p \in Players : pc[p] = "linked" <=> peer[p] # Nowhere

\* The peer a console has locked onto is the other console, at an address by
\* which it can be reached, through whatever translators are between them
\* (xbl_net.h, "the ACTUAL source address of the first reply").
LinkLeadsToPeer == \A p \in Players : pc[p] = "linked" => Arrives(p, peer[p])

\* Once p has sent, the hellos of the peer get in by one candidate.
Reachable(p) ==
  \/ lan
  \/ nat[p] = "open"
  \/ nat[p] = "restricted" /\ nat[Other(p)] # "symmetric"

\* No call is missed: if the peer has sent since p began, what it sent is no longer
\* in flight (so none of it was dropped), and yet a round of p came up empty, then
\* the translators keep the consoles apart ("so whichever path is reachable
\* opens", xbl_net_connect_peer).
NothingMissed == \A p \in Players : ~(deaf[p] /\ Reachable(p))

\* A search lasts for timeoutMs, no more and no less, wherever GetTickCount wraps.
SearchLastsTimeout ==
  \A p \in Players :
    /\ rounds[p] <= Timeout
    /\ pc[p] = "gave up" => rounds[p] = Timeout

\* A search ends, with a peer or without.
SearchEnds == \A p \in Players : pc[p] = "top" ~> pc[p] \in {"linked", "gave up"}
=============================================================================
