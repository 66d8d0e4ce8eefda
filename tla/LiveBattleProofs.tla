---------------------------- MODULE LiveBattleProofs ----------------------------
(***************************************************************************)
(* Proofs about the rendezvous and the live battle around it, for every    *)
(* timeout, every delivery of packets, every number of failed calls and    *)
(* every tick counter.  LiveBattle implements Rendezvous, so what is       *)
(* proved of the search holds in it; then, what the requests around the    *)
(* search promise.                                                         *)
(***************************************************************************)
EXTENDS LiveBattle, TLAPS

-----------------------------------------------------------------------------
(* The rendezvous *)

LEMMA OtherPlayer ==
  \A p \in Players : Other(p) \in Players /\ Other(Other(p)) = p /\ Other(p) # p
BY DEF Players, Other

LEMMA OtherOrSame ==
  ASSUME NEW p \in Players, NEW q \in Players
  PROVE  q = p \/ q = Other(p)
BY DEF Players, Other

-----------------------------------------------------------------------------
(* The tick counter *)

LEMMA NextTick ==
  ASSUME NEW w \in Nat, NEW x \in 0 .. (w - 1)
  PROVE  /\ (x + 1) % w \in 0 .. (w - 1)
         /\ x + 1 = w => (x + 1) % w = 0
         /\ x + 1 # w => (x + 1) % w = x + 1
<1>1. CASE x + 1 = w
  <2>1. w % w = 0
    OBVIOUS
  <2> QED
    BY <1>1, <2>1
<1>2. CASE x + 1 # w
  <2>1. \A r \in 0 .. (w - 1) : r % w = r
    OBVIOUS
  <2> QED
    BY <1>2, <2>1
<1> QED
  BY <1>1, <1>2

\* The difference of two ticks, modulo the wrap, is the time between them.
LEMMA Difference ==
  ASSUME NEW w \in Nat, NEW r \in 0 .. (w - 1)
  PROVE  r % w = r /\ (r - w) % w = r
OBVIOUS

-----------------------------------------------------------------------------
(* The way there and the way back *)

\* Arrives, when the translators have seen what `seen` says.
Through(seen, p, dst) ==
  /\ dst[1] = Other(p)
  /\ \/ dst[2] = "lan" /\ lan
     \/ dst[2] = "public" /\ nat[dst[1]] = "open"
     \/ /\ <<dst[2], nat[dst[1]]>> \in {<<"public", "restricted">>, <<"mapped", "symmetric">>}
        /\ Source(p, dst) \in seen[dst[1]]

LEMMA ArrivesIsThrough ==
  \A p \in Players : \A dst : Arrives(p, dst) <=> Through(opened, p, dst)
BY DEF Arrives, Passes, Through

\* A translator that has seen more lets no less through.
LEMMA ThroughGrows ==
  ASSUME NEW s, NEW t, NEW p \in Players, NEW dst,
         \A q \in Players : s[q] \subseteq t[q], Through(s, p, dst)
  PROVE  Through(t, p, dst)
<1>1. dst[1] \in Players
  BY OtherPlayer DEF Through
<1> QED
  BY <1>1 DEF Through

LEMMA SourceIsAddress ==
  ASSUME NEW p \in Players, NEW d
  PROVE  Source(p, d) \in Addresses /\ Source(p, d) # Nowhere
BY DEF Source, Addresses, Players, Nowhere

\* Whatever comes in can be answered: the address from which a packet of p comes
\* to d leads back, since that packet has opened p's own translator.
LEMMA WayBack ==
  ASSUME TypeOK, NEW p \in Players, NEW d \in Addresses, Through(opened, p, d),
         d[2] # "lan" => d \in opened[p]
  PROVE  Through(opened, Other(p), Source(p, d))
<1> DEFINE q == Other(p)
<1>1. q \in Players /\ Other(q) = p /\ d[1] = q /\ d = <<q, d[2]>>
  BY OtherPlayer DEF Through, Addresses
<1>2. nat[p] \in Translators /\ nat[q] \in Translators
  BY <1>1 DEF TypeOK
<1>3. CASE d[2] = "lan"
  <2>1. lan
    BY <1>3 DEF Through
  <2>2. Source(p, d) = <<p, "lan">>
    BY <1>3 DEF Source
  <2> QED
    BY <1>1, <2>1, <2>2 DEF Through
<1>4. CASE d[2] # "lan" /\ nat[p] = "open"
  <2>1. Source(p, d) = <<p, "public">>
    BY <1>4 DEF Source
  <2> QED
    BY <1>1, <1>4, <2>1 DEF Through
<1>5. CASE d[2] # "lan" /\ nat[p] # "open"
  <2>1. \/ nat[p] = "restricted" /\ Source(p, d) = <<p, "public">>
        \/ nat[p] = "symmetric" /\ Source(p, d) = <<p, "mapped">>
    BY <1>2, <1>5 DEF Source, Translators
  <2>2. Source(q, Source(p, d)) = d
    <3>1. \/ d[2] = "public" /\ nat[q] \in {"open", "restricted"}
          \/ d[2] = "mapped" /\ nat[q] = "symmetric"
      BY <1>1, <1>5 DEF Through
    <3> QED
      BY <1>1, <2>1, <3>1 DEF Source
  <2> QED
    BY <1>1, <1>5, <2>1, <2>2 DEF Through
<1> QED
  BY <1>3, <1>4, <1>5

-----------------------------------------------------------------------------
(* The invariant *)

\* A packet in flight is one that a console has sent, and has opened its own
\* translator for.
Sent(seen, k) ==
  \E p \in Players :
    /\ k.to[1] = Other(p) /\ k.from = Source(p, k.to)
    /\ k.to[2] # "lan" => k.to \in seen[p]

\* A console that has sent has sent to the public endpoint of its peer; and what
\* is in a socket can be answered.
NetInv ==
  /\ TypeOK
  /\ \A p \in Players : opened[p] # {} => <<Other(p), "public">> \in opened[p]
  /\ \A p \in Players : pc[p] = "idle" => opened[p] = {} /\ ~called[p]
  /\ \A k \in flying : Sent(opened, k)
  /\ \A p \in Players : \A k \in inbox[p] : k.magic => Through(opened, p, k.from)
  /\ \A p \in Players : pc[p] = "linked" => Through(opened, p, peer[p])
  /\ \A p \in Players : pc[p] \in {"listen", "linked"} => opened[p] # {}

\* A call to p is in its socket, or in flight and will get in.
Heard(p) ==
  \/ \E k \in inbox[p] : k.magic
  \/ \E k \in flying : k.to[1] = p /\ Passes(k.from, k.to)

\* A console that is called can hear it.
Hears ==
  \A p \in Players :
    called[p] /\ pc[p] \in {"top", "listen"} /\ Reachable(p) => Heard(p)

\* Elapsed time, wherever the counter has wrapped.
Ago(t, s, r) == t = s + r \/ t = s + r - Wrap

\* What the clock of a console is, by where it is in xbl_net_connect_peer.
ClockAt(where, t, s, r) ==
  /\ where = "idle" => r = 0
  /\ where = "top" => r <= Timeout /\ Ago(t, s, r)
  /\ where = "listen" => r \in 1 .. Timeout /\ Ago(t, s, r - 1)
  /\ where = "linked" => r <= Timeout
  /\ where = "gave up" => r = Timeout
ClockInv == \A p \in Players : ClockAt(pc[p], tick[p], start[p], rounds[p])

-----------------------------------------------------------------------------
(* What a send does *)

\* The packet of p to d.
PacketTo(p, d) == [from |-> Source(p, d), to |-> d]

LEMMA SendEffect ==
  ASSUME NetInv, NEW p \in Players, NEW dsts \in SUBSET Addresses, SendTo(p, dsts)
  PROVE  /\ opened' = [opened EXCEPT ![p] = @ \cup {d \in dsts : d[2] # "lan"}]
         /\ flying' = flying \cup {PacketTo(p, d) : d \in dsts}
         /\ called'[p] = called[p]
         /\ called'[Other(p)] =
              (called[Other(p)] \/ (opened[Other(p)] # {} /\ pc[Other(p)] \in {"top", "listen"}))
         /\ flying' \subseteq Flights
         /\ opened' \in [Players -> SUBSET Addresses]
         /\ called' \in [Players -> BOOLEAN]
<1> DEFINE q == Other(p)
<1>1. q \in Players /\ q # p
  BY OtherPlayer
<1>2. /\ opened \in [Players -> SUBSET Addresses] /\ called \in [Players -> BOOLEAN]
      /\ flying \subseteq Flights
  BY DEF NetInv, TypeOK
<1>3. /\ opened' = [opened EXCEPT ![p] = @ \cup {d \in dsts : d[2] # "lan"}]
      /\ called' = [called EXCEPT
           ![q] = @ \/ (opened[q] # {} /\ pc[q] \in {"top", "listen"})]
      /\ flying' = flying \cup {PacketTo(p, d) : d \in dsts}
  BY DEF SendTo, PacketTo
<1>4. \A d \in dsts : PacketTo(p, d) \in Flights
  BY SourceIsAddress DEF PacketTo, Flights
<1>5. flying' \subseteq Flights
  BY <1>2, <1>3, <1>4
<1>6. called' \in [Players -> BOOLEAN] /\ called'[p] = called[p]
      /\ called'[q] = (called[q] \/ (opened[q] # {} /\ pc[q] \in {"top", "listen"}))
  BY <1>1, <1>2, <1>3
<1>7. opened' \in [Players -> SUBSET Addresses]
  BY <1>2, <1>3
<1> QED
  BY <1>3, <1>5, <1>6, <1>7

\* A send opens no translator but its own, and closes none: what could be
\* answered still can, and its own packets are sent as the others were.
LEMMA SendKeeps ==
  ASSUME NetInv, NEW p \in Players, NEW dsts \in SUBSET Addresses, SendTo(p, dsts),
         \A d \in dsts : d[1] = Other(p),
         opened[p] # {} \/ <<Other(p), "public">> \in dsts
  PROVE  /\ opened'[p] # {}
         /\ \A x \in Players : opened'[x] # {} => <<Other(x), "public">> \in opened'[x]
         /\ \A x \in Players : x # p => opened'[x] = opened[x]
         /\ \A x \in Players : \A dst : Through(opened, x, dst) => Through(opened', x, dst)
         /\ \A l \in flying' : Sent(opened', l)
<1> DEFINE q == Other(p)
<1>1. opened \in [Players -> SUBSET Addresses]
  BY DEF NetInv, TypeOK
<1>2. /\ opened' = [opened EXCEPT ![p] = @ \cup {d \in dsts : d[2] # "lan"}]
      /\ flying' = flying \cup {PacketTo(p, d) : d \in dsts}
  BY SendEffect
<1>3. \A x \in Players : opened[x] \subseteq opened'[x] /\ (x # p => opened'[x] = opened[x])
  BY <1>1, <1>2
<1>4. opened'[p] = opened[p] \cup {d \in dsts : d[2] # "lan"}
  BY <1>1, <1>2
<1>5. <<q, "public">> \in opened'[p]
  <2>1. CASE opened[p] # {}
    BY <1>4, <2>1 DEF NetInv
  <2>2. CASE <<q, "public">> \in dsts
    BY <1>4, <2>2
  <2> QED
    BY <2>1, <2>2
<1>6. \A x \in Players : opened'[x] # {} => <<Other(x), "public">> \in opened'[x]
  BY <1>3, <1>5 DEF NetInv
<1>7. \A x \in Players : \A dst : Through(opened, x, dst) => Through(opened', x, dst)
  BY <1>3, ThroughGrows
<1>8. ASSUME NEW k \in flying' PROVE Sent(opened', k)
  <2>1. CASE k \in flying
    BY <1>3, <2>1 DEF NetInv, Sent
  <2>2. CASE \E d \in dsts : k = PacketTo(p, d)
    BY <1>4, <2>2 DEF PacketTo, Sent
  <2> QED
    BY <1>2, <2>1, <2>2
<1> QED
  BY <1>3, <1>5, <1>6, <1>7, <1>8

LEMMA CandidatesOfPeer ==
  ASSUME NEW p \in Players
  PROVE  /\ Candidates(p) \in SUBSET Addresses
         /\ \A d \in Candidates(p) : d[1] = Other(p)
         /\ <<Other(p), "public">> \in Candidates(p)
BY OtherPlayer DEF Candidates, Addresses

-----------------------------------------------------------------------------
(* The invariant holds *)

LEMMA NetInit == Init => NetInv
<1> SUFFICES ASSUME Init PROVE NetInv
  OBVIOUS
<1>1. 0 \in 0 .. (Timeout + 1)
  BY ClockAssumption
<1>2. /\ tick \in [Players -> 0 .. (Wrap - 1)] /\ start \in [Players -> 0 .. (Wrap - 1)]
  BY ClockAssumption DEF Init
<1>3. inbox \in [Players -> SUBSET Packets] /\ \A p \in Players : \A k \in inbox[p] : ~k.magic
  <2>1. [from |-> Nowhere, magic |-> FALSE] \in Packets
    BY DEF Packets
  <2>2. inbox \in [Players -> {{}, {[from |-> Nowhere, magic |-> FALSE]}}]
    BY DEF Init
  <2>3. {{}, {[from |-> Nowhere, magic |-> FALSE]}} \subseteq SUBSET Packets
    BY <2>1
  <2>4. inbox \in [Players -> SUBSET Packets]
    BY <2>2, <2>3
  <2>5. \A p \in Players : \A k \in inbox[p] : k = [from |-> Nowhere, magic |-> FALSE]
    BY <2>2
  <2> QED
    BY <2>4, <2>5
<1>4. TypeOK
  BY <1>1, <1>2, <1>3 DEF Init, TypeOK
<1> QED
  BY <1>3, <1>4 DEF Init, NetInv

\* The translators do not change, so that the invariant of the next state is one
\* about what they will have seen.
LEMMA NetInvNext ==
  ASSUME UNCHANGED network, TypeOK',
         \A p \in Players : opened'[p] # {} => <<Other(p), "public">> \in opened'[p],
         \A p \in Players : pc'[p] = "idle" => opened'[p] = {} /\ ~called'[p],
         \A k \in flying' : Sent(opened', k),
         \A p \in Players : \A k \in inbox'[p] : k.magic => Through(opened', p, k.from),
         \A p \in Players : pc'[p] = "linked" => Through(opened', p, peer'[p]),
         \A p \in Players : pc'[p] \in {"listen", "linked"} => opened'[p] # {}
  PROVE  NetInv'
<1>1. \A k \in flying' : Sent(opened, k)'
  <2> SUFFICES ASSUME NEW k \in flying' PROVE Sent(opened, k)'
    OBVIOUS
  <2>1. PICK p \in Players : /\ k.to[1] = Other(p) /\ k.from = Source(p, k.to)
                             /\ k.to[2] # "lan" => k.to \in opened'[p]
    BY DEF Sent
  <2>2. Source(p, k.to)' = Source(p, k.to)
    BY DEF Source, network
  <2> QED
    BY <2>1, <2>2 DEF Sent
<1>2. \A p \in Players : \A k \in inbox'[p] : k.magic => Through(opened, p, k.from)'
  BY DEF Through, Source, network
<1>3. \A p \in Players : pc'[p] = "linked" => Through(opened, p, peer[p])'
  BY DEF Through, Source, network
<1> QED
  BY <1>1, <1>2, <1>3 DEF NetInv

LEMMA NetConnect ==
  ASSUME NetInv, NEW p \in Players, Connect(p)
  PROVE  NetInv'
<1>1. TypeOK'
  BY DEF NetInv, TypeOK, Connect, network
<1>2. UNCHANGED <<network, opened, flying, inbox, peer, called>>
  BY DEF Connect
<1>3. \A x \in Players : pc'[x] = pc[x] \/ (pc[x] = "idle" /\ pc'[x] = "top")
  BY DEF NetInv, TypeOK, Connect
<1> QED
  BY <1>1, <1>2, <1>3, NetInvNext DEF NetInv

LEMMA NetVolley ==
  ASSUME NetInv, NEW p \in Players, Volley(p)
  PROVE  NetInv'
<1>1. /\ SendTo(p, Candidates(p))
      /\ pc' = [pc EXCEPT ![p] = "listen"]
      /\ rounds' = [rounds EXCEPT ![p] = IF @ > Timeout THEN @ ELSE @ + 1]
      /\ UNCHANGED <<network, inbox, tick, start, peer, deaf>>
      /\ pc[p] = "top"
  BY DEF Volley
<1>3. /\ flying' \subseteq Flights
      /\ opened' \in [Players -> SUBSET Addresses]
      /\ called' \in [Players -> BOOLEAN]
      /\ called'[p] = called[p]
      /\ called'[Other(p)] =
           (called[Other(p)] \/ (opened[Other(p)] # {} /\ pc[Other(p)] \in {"top", "listen"}))
  BY <1>1, CandidatesOfPeer, SendEffect
<1>4. rounds' \in [Players -> 0 .. (Timeout + 1)]
  <2>1. rounds[p] \in 0 .. (Timeout + 1) /\ Timeout \in Nat
    BY ClockAssumption DEF NetInv, TypeOK
  <2>2. (IF rounds[p] > Timeout THEN rounds[p] ELSE rounds[p] + 1) \in 0 .. (Timeout + 1)
    BY <2>1
  <2> QED
    BY <1>1, <2>2 DEF NetInv, TypeOK
<1>5. pc \in [Players -> {"idle", "top", "listen", "linked", "gave up"}]
  BY DEF NetInv, TypeOK
<1>6. TypeOK'
  BY <1>1, <1>3, <1>4, <1>5 DEF NetInv, TypeOK, network
<1>7. /\ opened'[p] # {}
      /\ \A x \in Players : opened'[x] # {} => <<Other(x), "public">> \in opened'[x]
      /\ \A x \in Players : x # p => opened'[x] = opened[x]
      /\ \A x \in Players : \A dst : Through(opened, x, dst) => Through(opened', x, dst)
      /\ \A l \in flying' : Sent(opened', l)
  BY <1>1, CandidatesOfPeer, SendKeeps
<1>8. \A x \in Players : x # p => pc'[x] = pc[x] /\ opened'[x] = opened[x]
  BY <1>1, <1>5, <1>7
<1>9. pc'[p] = "listen"
  BY <1>1, <1>5
<1>10. \A x \in Players : pc'[x] = "idle" => opened'[x] = {} /\ ~called'[x]
  BY <1>3, <1>8, <1>9, OtherOrSame DEF NetInv
<1>11. \A x \in Players : pc'[x] \in {"listen", "linked"} => opened'[x] # {}
  BY <1>7, <1>8 DEF NetInv
<1>12. \A x \in Players : pc'[x] = "linked" => Through(opened', x, peer'[x])
  BY <1>1, <1>7, <1>8, <1>9 DEF NetInv
<1>13. \A x \in Players : \A k \in inbox'[x] : k.magic => Through(opened', x, k.from)
  BY <1>1, <1>7 DEF NetInv
<1> QED
  BY <1>1, <1>6, <1>7, <1>10, <1>11, <1>12, <1>13, NetInvNext

\* Only a packet with the magic number is answered, and it came from somewhere
\* that can be reached.
LEMMA HeardAddress ==
  ASSUME NetInv, NEW p \in Players, NEW k \in inbox[p], k.magic
  PROVE  /\ k.from \in Addresses /\ k.from # Nowhere
         /\ Through(opened, p, k.from)
<1>1. Through(opened, p, k.from)
  BY DEF NetInv
<1>2. k \in Packets
  BY DEF NetInv, TypeOK
<1>3. k.from \in Addresses \cup {Nowhere}
  BY <1>2 DEF Packets
<1>4. k.from[1] \in Players
  BY <1>1, OtherPlayer DEF Through
<1>5. k.from # Nowhere
  BY <1>4 DEF Players, Nowhere
<1> QED
  BY <1>1, <1>3, <1>5

LEMMA NetLink ==
  ASSUME NetInv, NEW p \in Players, NEW k \in inbox[p], pc[p] = "listen", LinkTo(p, k),
         SendTo(p, {k.from}), inbox' = [inbox EXCEPT ![p] = @ \ {k}],
         pc' = [pc EXCEPT ![p] = "linked"], UNCHANGED <<network, tick, start, rounds, deaf>>
  PROVE  NetInv'
<1>1. k.from \in Addresses /\ k.from # Nowhere /\ Through(opened, p, k.from)
  BY HeardAddress DEF LinkTo
<1>2. {k.from} \in SUBSET Addresses /\ k.from[1] = Other(p)
  BY <1>1 DEF Through
<1>3. /\ flying' \subseteq Flights
      /\ opened' \in [Players -> SUBSET Addresses]
      /\ called' \in [Players -> BOOLEAN]
      /\ called'[Other(p)] =
           (called[Other(p)] \/ (opened[Other(p)] # {} /\ pc[Other(p)] \in {"top", "listen"}))
  BY <1>2, SendEffect
<1>4. opened[p] # {}
  BY DEF NetInv
<1>5. /\ opened'[p] # {}
      /\ \A x \in Players : opened'[x] # {} => <<Other(x), "public">> \in opened'[x]
      /\ \A x \in Players : x # p => opened'[x] = opened[x]
      /\ \A x \in Players : \A dst : Through(opened, x, dst) => Through(opened', x, dst)
      /\ \A l \in flying' : Sent(opened', l)
  BY <1>2, <1>4, SendKeeps
<1>6. /\ pc \in [Players -> {"idle", "top", "listen", "linked", "gave up"}]
      /\ peer \in [Players -> Addresses \cup {Nowhere}]
      /\ inbox \in [Players -> SUBSET Packets]
  BY DEF NetInv, TypeOK
<1>7. /\ peer' = [peer EXCEPT ![p] = k.from]
      /\ \A x \in Players : x # p => pc'[x] = pc[x] /\ peer'[x] = peer[x]
      /\ pc'[p] = "linked" /\ peer'[p] = k.from
  BY <1>6 DEF LinkTo
<1>8. \A x \in Players : pc'[x] = "linked" <=> peer'[x] # Nowhere
  BY <1>1, <1>7 DEF NetInv, TypeOK
<1>9. /\ pc' \in [Players -> {"idle", "top", "listen", "linked", "gave up"}]
      /\ peer' \in [Players -> Addresses \cup {Nowhere}]
      /\ inbox' \in [Players -> SUBSET Packets]
      /\ \A x \in Players : inbox'[x] \subseteq inbox[x]
  BY <1>1, <1>6, <1>7
<1>10. TypeOK'
  BY <1>3, <1>8, <1>9 DEF NetInv, TypeOK, network
<1>11. \A x \in Players : pc'[x] = "idle" => opened'[x] = {} /\ ~called'[x]
  BY <1>3, <1>5, <1>7, OtherOrSame DEF NetInv
<1>12. \A x \in Players : pc'[x] \in {"listen", "linked"} => opened'[x] # {}
  BY <1>5, <1>7 DEF NetInv
<1>13. \A x \in Players : pc'[x] = "linked" => Through(opened', x, peer'[x])
  BY <1>1, <1>5, <1>7 DEF NetInv
<1>14. \A x \in Players : \A l \in inbox'[x] : l.magic => Through(opened', x, l.from)
  BY <1>5, <1>9 DEF NetInv
<1> QED
  BY <1>5, <1>10, <1>11, <1>12, <1>13, <1>14, NetInvNext

LEMMA NetIgnore ==
  ASSUME NetInv, NEW p \in Players, NEW k \in inbox[p],
         inbox' = [inbox EXCEPT ![p] = @ \ {k}],
         UNCHANGED <<network, opened, flying, pc, tick, start, peer, rounds,
                     called, deaf>>
  PROVE  NetInv'
<1>1. /\ inbox' \in [Players -> SUBSET Packets]
      /\ \A x \in Players : inbox'[x] \subseteq inbox[x]
  BY DEF NetInv, TypeOK
<1>2. TypeOK'
  BY <1>1 DEF NetInv, TypeOK, network
<1> QED
  BY <1>1, <1>2, NetInvNext DEF NetInv

LEMMA NetHear ==
  ASSUME NetInv, NEW p \in Players, HearSome(p)
  PROVE  NetInv'
<1>1. PICK k \in inbox[p] : Hear(p, k)
  BY DEF HearSome
<1>2. CASE LinkTo(p, k) /\ SendTo(p, {k.from}) /\ pc' = [pc EXCEPT ![p] = "linked"]
  BY <1>1, <1>2, NetLink DEF Hear
<1>3. CASE UNCHANGED <<opened, flying, pc, peer, called>>
  BY <1>1, <1>3, NetIgnore DEF Hear
<1> QED
  BY <1>1, <1>2, <1>3 DEF Hear

LEMMA NetDoze ==
  ASSUME NetInv, NEW p \in Players, Doze(p)
  PROVE  NetInv'
<1>1. (tick[p] + 1) % Wrap \in 0 .. (Wrap - 1)
  <2>1. tick[p] \in 0 .. (Wrap - 1) /\ Wrap \in Nat
    BY ClockAssumption DEF NetInv, TypeOK
  <2> QED
    BY <2>1, NextTick
<1>2. tick' \in [Players -> 0 .. (Wrap - 1)]
  BY <1>1 DEF NetInv, TypeOK, Doze
<1>3. /\ pc \in [Players -> {"idle", "top", "listen", "linked", "gave up"}]
      /\ pc' = [pc EXCEPT ![p] = "top"] /\ pc[p] = "listen"
      /\ deaf' = [deaf EXCEPT ![p] = called[p] /\ ~OnItsWay(p)]
      /\ UNCHANGED <<network, opened, flying, inbox, start, peer, rounds, called>>
  BY DEF NetInv, TypeOK, Doze
<1>4. deaf' \in [Players -> BOOLEAN]
  <2>1. (called[p] /\ ~OnItsWay(p)) \in BOOLEAN /\ deaf \in [Players -> BOOLEAN]
    BY DEF NetInv, TypeOK
  <2> QED
    BY <1>3, <2>1
<1>5. TypeOK'
  BY <1>2, <1>3, <1>4 DEF NetInv, TypeOK, network
<1> QED
  BY <1>3, <1>5, NetInvNext DEF NetInv

LEMMA NetGiveUp ==
  ASSUME NetInv, NEW p \in Players, GiveUp(p)
  PROVE  NetInv'
<1>1. /\ pc \in [Players -> {"idle", "top", "listen", "linked", "gave up"}]
      /\ pc' = [pc EXCEPT ![p] = "gave up"] /\ pc[p] = "top"
      /\ UNCHANGED <<network, opened, flying, inbox, tick, start, peer, rounds,
                     called, deaf>>
  BY DEF NetInv, TypeOK, GiveUp
<1>2. TypeOK'
  BY <1>1 DEF NetInv, TypeOK, network
<1> QED
  BY <1>1, <1>2, NetInvNext DEF NetInv

LEMMA PeerAddress ==
  ASSUME NetInv, NEW p \in Players, pc[p] = "linked"
  PROVE  peer[p] \in Addresses /\ Through(opened, p, peer[p])
<1>1. peer[p] \in Addresses \cup {Nowhere} /\ peer[p] # Nowhere
  BY DEF NetInv, TypeOK
<1>2. Through(opened, p, peer[p])
  BY DEF NetInv
<1> QED
  BY <1>1, <1>2

LEMMA NetTalk ==
  ASSUME NetInv, NEW p \in Players, Talk(p)
  PROVE  NetInv'
<1>1. /\ pc[p] = "linked" /\ SendTo(p, {peer[p]})
      /\ UNCHANGED <<network, inbox, pc, tick, start, peer, rounds, deaf>>
  BY DEF Talk
<1>2. {peer[p]} \in SUBSET Addresses /\ peer[p][1] = Other(p)
  BY <1>1, PeerAddress DEF Through
<1>3. /\ flying' \subseteq Flights
      /\ opened' \in [Players -> SUBSET Addresses]
      /\ called' \in [Players -> BOOLEAN]
      /\ called'[p] = called[p]
      /\ called'[Other(p)] =
           (called[Other(p)] \/ (opened[Other(p)] # {} /\ pc[Other(p)] \in {"top", "listen"}))
  BY <1>1, <1>2, SendEffect
<1>4. opened[p] # {}
  BY <1>1 DEF NetInv
<1>5. /\ opened'[p] # {}
      /\ \A x \in Players : opened'[x] # {} => <<Other(x), "public">> \in opened'[x]
      /\ \A x \in Players : x # p => opened'[x] = opened[x]
      /\ \A x \in Players : \A dst : Through(opened, x, dst) => Through(opened', x, dst)
      /\ \A l \in flying' : Sent(opened', l)
  BY <1>1, <1>2, <1>4, SendKeeps
<1>6. TypeOK'
  BY <1>1, <1>3 DEF NetInv, TypeOK, network
<1>7. \A x \in Players : pc'[x] = "idle" => opened'[x] = {} /\ ~called'[x]
  BY <1>1, <1>3, <1>5, OtherOrSame DEF NetInv
<1>8. \A x \in Players : pc'[x] \in {"listen", "linked"} => opened'[x] # {}
  BY <1>1, <1>5 DEF NetInv
<1>9. \A x \in Players : pc'[x] = "linked" => Through(opened', x, peer'[x])
  BY <1>1, <1>5 DEF NetInv
<1>10. \A x \in Players : \A k \in inbox'[x] : k.magic => Through(opened', x, k.from)
  BY <1>1, <1>5 DEF NetInv
<1> QED
  BY <1>1, <1>5, <1>6, <1>7, <1>8, <1>9, <1>10, NetInvNext

\* A packet that a translator lets in can be answered.
LEMMA NetDeliver ==
  ASSUME NetInv, NEW k \in flying, Deliver(k)
  PROVE  NetInv'
<1>1. PICK p \in Players : /\ k.to[1] = Other(p) /\ k.from = Source(p, k.to)
                           /\ k.to[2] # "lan" => k.to \in opened[p]
  BY DEF NetInv, Sent
<1> DEFINE q == Other(p)
<1>2. TypeOK /\ q \in Players /\ k \in Flights /\ inbox \in [Players -> SUBSET Packets]
  BY OtherPlayer DEF NetInv, TypeOK
<1>3. k.from \in Addresses /\ k.to \in Addresses
  BY <1>2 DEF Flights
<1>4. Passes(k.from, k.to) => Through(opened, q, k.from)
  <2>1. Passes(k.from, k.to) => Through(opened, p, k.to)
    BY <1>1 DEF Passes, Through
  <2> QED
    BY <1>1, <1>2, <1>3, <2>1, WayBack
<1>5. /\ inbox' = [inbox EXCEPT ![q] =
           IF Passes(k.from, k.to) THEN @ \cup {[from |-> k.from, magic |-> TRUE]} ELSE @]
      /\ flying' \subseteq flying
      /\ UNCHANGED <<network, opened, pc, tick, start, peer, rounds, called, deaf>>
  BY <1>1 DEF Deliver
<1>6. [from |-> k.from, magic |-> TRUE] \in Packets
  BY <1>3 DEF Packets
<1>7. inbox' \in [Players -> SUBSET Packets]
  BY <1>2, <1>5, <1>6
<1>8. TypeOK'
  BY <1>5, <1>7 DEF NetInv, TypeOK, network
<1>9. \A x \in Players : \A l \in inbox'[x] : l.magic => Through(opened, x, l.from)
  BY <1>2, <1>4, <1>5 DEF NetInv
<1> QED
  BY <1>5, <1>8, <1>9, NetInvNext DEF NetInv

LEMMA NetStep == NetInv /\ [Next]_vars => NetInv'
<1> SUFFICES ASSUME NetInv, [Next]_vars PROVE NetInv'
  OBVIOUS
<1>1. CASE UNCHANGED vars
  <2>1. TypeOK'
    BY <1>1 DEF vars, network, NetInv, TypeOK
  <2>2. UNCHANGED <<network, opened, flying, inbox, pc, peer, called>>
    BY <1>1 DEF vars, network
  <2> QED
    BY <2>1, <2>2, NetInvNext DEF NetInv
<1>2. CASE Next
  BY <1>2, NetConnect, NetVolley, NetHear, NetDoze, NetGiveUp, NetTalk, NetDeliver
    DEF Next, Carry
<1> QED
  BY <1>1, <1>2

-----------------------------------------------------------------------------
(* Nothing is missed *)

\* A translator that has seen more lets no less in.
LEMMA HeardGrows ==
  ASSUME NEW p \in Players, Heard(p), flying \subseteq flying', UNCHANGED network,
         \A k \in inbox[p] : k.magic => k \in inbox'[p],
         \A q \in Players : opened[q] \subseteq opened'[q]
  PROVE  Heard(p)'
<1>1. CASE \E k \in inbox[p] : k.magic
  BY <1>1 DEF Heard
<1>2. ASSUME NEW k \in flying, k.to[1] = p, Passes(k.from, k.to)
      PROVE  Passes(k.from, k.to)'
  BY <1>2 DEF Passes, network
<1> QED
  BY <1>1, <1>2 DEF Heard

\* A console that has sent hears the next send of its peer, if that is to an
\* address by which it can be reached.
LEMMA HearsSend ==
  ASSUME NetInv, Hears, NEW p \in Players, NEW dsts \in SUBSET Addresses, SendTo(p, dsts),
         UNCHANGED inbox
           \/ (pc'[p] = "linked" /\ \A x \in Players : x # p => inbox'[x] = inbox[x]),
         opened[Other(p)] # {} /\ Reachable(Other(p)) => \E d \in dsts : Through(opened, p, d),
         \A x \in Players : pc'[x] \in {"top", "listen"} => pc[x] \in {"top", "listen"},
         UNCHANGED network
  PROVE  Hears'
<1> DEFINE q == Other(p)
<1>1. q \in Players /\ q # p
  BY OtherPlayer
<1>2. /\ opened' = [opened EXCEPT ![p] = @ \cup {d \in dsts : d[2] # "lan"}]
      /\ flying' = flying \cup {PacketTo(p, d) : d \in dsts}
      /\ called'[p] = called[p]
      /\ called'[q] = (called[q] \/ (opened[q] # {} /\ pc[q] \in {"top", "listen"}))
  BY SendEffect
<1>3. \A x \in Players : Reachable(x)' <=> Reachable(x)
  BY DEF Reachable, network
<1>4. \A x \in Players : opened[x] \subseteq opened'[x]
  BY <1>2 DEF NetInv, TypeOK
<1>5. ASSUME NEW x \in Players, called[x],
             pc'[x] \in {"top", "listen"}, Reachable(x)'
      PROVE  Heard(x)'
  <2>1. Heard(x)
    BY <1>3, <1>5 DEF Hears
  <2>2. inbox'[x] = inbox[x]
    BY <1>5
  <2> QED
    BY <1>2, <1>4, <2>1, <2>2, HeardGrows
<1>6. ASSUME opened[q] # {}, Reachable(q)' PROVE Heard(q)'
  <2>1. PICK d \in dsts : Through(opened, p, d)
    BY <1>1, <1>3, <1>6
  <2>2. PICK k \in flying' : k = PacketTo(p, d)
    BY <1>2
  <2>3. d[1] = q /\ Passes(Source(p, d), d)
    BY <2>1 DEF Through, Passes
  <2>4. \A src : Passes(src, d) => Passes(src, d)'
    BY <1>1, <1>4, <2>3 DEF Passes, network
  <2>5. k.to = d /\ k.from = Source(p, d)
    BY <2>2 DEF PacketTo
  <2>6. Passes(k.from, k.to)'
    BY <2>3, <2>4, <2>5
  <2> QED
    BY <2>3, <2>5, <2>6 DEF Heard
<1>7. ASSUME NEW x \in Players,
             called'[x], pc'[x] \in {"top", "listen"}, Reachable(x)'
      PROVE  Heard(x)'
  BY <1>2, <1>5, <1>6, <1>7, OtherOrSame
<1> QED
  BY <1>7 DEF Hears

\* By one of the candidates a console that has sent is reached.
LEMMA CandidateReaches ==
  ASSUME NetInv, NEW p \in Players, opened[Other(p)] # {}, Reachable(Other(p))
  PROVE  \E d \in Candidates(p) : Through(opened, p, d)
<1> DEFINE q == Other(p)
<1>1. q \in Players /\ Other(q) = p /\ <<p, "public">> \in opened[q]
  BY OtherPlayer DEF NetInv
<1>2. CASE lan
  BY <1>2 DEF Candidates, Through
<1>3. CASE nat[q] = "open"
  BY <1>3 DEF Candidates, Through
<1>4. CASE nat[q] = "restricted" /\ nat[p] # "symmetric"
  <2>1. Source(p, <<q, "public">>) = <<p, "public">>
    BY <1>4 DEF Source
  <2> QED
    BY <1>1, <1>4, <2>1 DEF Candidates, Through
<1> QED
  BY <1>1, <1>2, <1>3, <1>4 DEF Reachable

\* A packet that is let in is heard, and one that is not was not going to be.
LEMMA HearsDeliver ==
  ASSUME NetInv, Hears, NEW k \in flying, Deliver(k)
  PROVE  Hears'
<1>1. /\ UNCHANGED <<nat, lan, opened, pc, called>>
      /\ flying' = flying \ {k}
      /\ inbox' = [inbox EXCEPT ![k.to[1]] =
           IF Passes(k.from, k.to) THEN @ \cup {[from |-> k.from, magic |-> TRUE]} ELSE @]
      /\ inbox \in [Players -> SUBSET Packets]
  BY DEF Deliver, NetInv, TypeOK, network
<1>2. \A x \in Players : Reachable(x)' <=> Reachable(x)
  BY <1>1 DEF Reachable
<1>3. \A src, dst : Passes(src, dst)' <=> Passes(src, dst)
  BY <1>1 DEF Passes
<1>4. ASSUME NEW x \in Players, Heard(x) PROVE Heard(x)'
  <2>1. inbox[x] \subseteq inbox'[x]
    BY <1>1
  <2>2. CASE \E l \in inbox[x] : l.magic
    BY <2>1, <2>2 DEF Heard
  <2>3. ASSUME NEW l \in flying, l.to[1] = x, Passes(l.from, l.to) PROVE Heard(x)'
    <3>1. CASE l = k
      <4>1. [from |-> k.from, magic |-> TRUE] \in inbox'[x]
        BY <1>1, <2>3, <3>1
      <4> QED
        BY <4>1 DEF Heard
    <3>2. CASE l # k
      <4>1. l \in flying' /\ Passes(l.from, l.to)'
        BY <1>1, <1>3, <2>3, <3>2
      <4> QED
        BY <2>3, <4>1 DEF Heard
    <3> QED
      BY <3>1, <3>2
  <2> QED
    BY <1>4, <2>2, <2>3 DEF Heard
<1> QED
  BY <1>1, <1>2, <1>4 DEF Hears

LEMMA HearsStep ==
  ASSUME NetInv, Hears, Next
  PROVE  Hears'
<1>0. pc \in [Players -> {"idle", "top", "listen", "linked", "gave up"}]
  BY DEF NetInv, TypeOK
<1>1. ASSUME NEW p \in Players, Connect(p) PROVE Hears'
  <2>1. /\ UNCHANGED <<nat, lan, opened, flying, inbox, called>> /\ ~called[p]
        /\ \A x \in Players : x # p => pc'[x] = pc[x]
    BY <1>0, <1>1 DEF Connect, NetInv, network
  <2> QED
    BY <2>1 DEF Hears, Heard, Passes, Reachable
<1>2. ASSUME NEW p \in Players, Volley(p) PROVE Hears'
  <2>1. /\ SendTo(p, Candidates(p)) /\ UNCHANGED <<network, inbox>>
        /\ \A x \in Players : pc'[x] \in {"top", "listen"} => pc[x] \in {"top", "listen"}
    BY <1>0, <1>2 DEF Volley
  <2> QED
    BY <2>1, CandidatesOfPeer, CandidateReaches, HearsSend
<1>3. ASSUME NEW p \in Players, NEW k \in inbox[p], Hear(p, k) PROVE Hears'
  <2>1. CASE LinkTo(p, k) /\ SendTo(p, {k.from}) /\ pc' = [pc EXCEPT ![p] = "linked"]
    <3>1. k.from \in Addresses /\ Through(opened, p, k.from)
      BY <2>1, HeardAddress DEF LinkTo
    <3>2. {k.from} \in SUBSET Addresses
      BY <3>1
    <3>3. /\ UNCHANGED network /\ pc'[p] = "linked"
          /\ \A x \in Players : x # p => inbox'[x] = inbox[x]
          /\ \A x \in Players : pc'[x] \in {"top", "listen"} => pc[x] \in {"top", "listen"}
      BY <1>0, <1>3, <2>1 DEF Hear, NetInv, TypeOK
    <3> QED
      BY <2>1, <3>1, <3>2, <3>3, HearsSend
  <2>2. CASE ~k.magic /\ UNCHANGED <<opened, flying, pc, peer, called>>
    <3>1. \A x \in Players : \A l \in inbox[x] : l.magic => l \in inbox'[x]
      BY <1>3, <2>2 DEF Hear, NetInv, TypeOK
    <3>2. UNCHANGED <<nat, lan>>
      BY <1>3 DEF Hear, network
    <3> QED
      BY <2>2, <3>1, <3>2 DEF Hears, Heard, Passes, Reachable
  <2> QED
    BY <1>3, <2>1, <2>2 DEF Hear
<1>4. ASSUME NEW p \in Players, Doze(p) PROVE Hears'
  <2>1. /\ UNCHANGED <<nat, lan, opened, flying, inbox, called>>
        /\ \A x \in Players : pc'[x] \in {"top", "listen"} => pc[x] \in {"top", "listen"}
    BY <1>0, <1>4 DEF Doze, network
  <2> QED
    BY <2>1 DEF Hears, Heard, Passes, Reachable
<1>5. ASSUME NEW p \in Players, GiveUp(p) PROVE Hears'
  <2>1. /\ UNCHANGED <<nat, lan, opened, flying, inbox, called>>
        /\ \A x \in Players : pc'[x] \in {"top", "listen"} => pc[x] \in {"top", "listen"}
    BY <1>0, <1>5 DEF GiveUp, network
  <2> QED
    BY <2>1 DEF Hears, Heard, Passes, Reachable
<1>6. ASSUME NEW p \in Players, Talk(p) PROVE Hears'
  <2>1. /\ SendTo(p, {peer[p]}) /\ UNCHANGED <<network, inbox, pc>> /\ pc[p] = "linked"
    BY <1>6 DEF Talk
  <2>2. peer[p] \in Addresses /\ Through(opened, p, peer[p])
    BY <2>1, PeerAddress
  <2> QED
    BY <2>1, <2>2, HearsSend
<1> QED
  BY <1>1, <1>2, <1>3, <1>4, <1>5, <1>6, HearsDeliver DEF Next, HearSome, Carry

\* A drain that comes up empty after a call was in vain: there was nothing to hear.
LEMMA MissedStep ==
  ASSUME NetInv, Hears, NothingMissed, Next
  PROVE  NothingMissed'
<1>1. deaf \in [Players -> BOOLEAN]
  BY DEF NetInv, TypeOK
<1>2. UNCHANGED network
  BY DEF Next, Carry, Connect, Volley, HearSome, Hear, Doze, GiveUp, Talk, Deliver
<1>3. \A x \in Players : Reachable(x)' <=> Reachable(x)
  BY <1>2 DEF Reachable, network
<1>4. CASE UNCHANGED deaf
  BY <1>3, <1>4 DEF NothingMissed
<1>5. ASSUME NEW p \in Players, Doze(p) PROVE NothingMissed'
  <2>1. /\ pc[p] = "listen" /\ inbox[p] = {}
        /\ deaf' = [deaf EXCEPT ![p] = called[p] /\ ~OnItsWay(p)]
    BY <1>5 DEF Doze
  <2>2. ~(called[p] /\ ~OnItsWay(p) /\ Reachable(p))
    BY <1>1, <2>1 DEF Hears, Heard, OnItsWay
  <2> QED
    BY <1>1, <1>3, <2>1, <2>2 DEF NothingMissed
<1> QED
  BY <1>4, <1>5 DEF Next, Carry, Connect, Volley, HearSome, Hear, GiveUp, Talk, Deliver

-----------------------------------------------------------------------------
(* The clock *)

LEMMA ClockTypes ==
  ASSUME TypeOK, NEW p \in Players
  PROVE  /\ Wrap \in Nat /\ Timeout \in Nat /\ 2 * Timeout < Wrap
         /\ tick[p] \in Nat /\ tick[p] < Wrap
         /\ start[p] \in Nat /\ start[p] < Wrap
         /\ rounds[p] \in Nat /\ rounds[p] <= Timeout + 1
         /\ pc[p] \in {"idle", "top", "listen", "linked", "gave up"}
<1>1. Wrap \in Nat /\ Timeout \in Nat /\ 2 * Timeout < Wrap
  BY ClockAssumption
<1>2. tick[p] \in 0 .. (Wrap - 1)
  BY DEF TypeOK
<1>3. start[p] \in 0 .. (Wrap - 1)
  BY DEF TypeOK
<1>4. rounds[p] \in 0 .. (Timeout + 1)
  BY DEF TypeOK
<1>5. pc[p] \in {"idle", "top", "listen", "linked", "gave up"}
  BY DEF TypeOK
<1>6. tick[p] \in Nat /\ tick[p] < Wrap
  BY <1>1, <1>2
<1>7. start[p] \in Nat /\ start[p] < Wrap
  BY <1>1, <1>3
<1>8. rounds[p] \in Nat /\ rounds[p] <= Timeout + 1
  BY <1>1, <1>4
<1> QED
  BY <1>1, <1>5, <1>6, <1>7, <1>8

\* xbl_net_connect_peer goes on exactly while fewer than timeoutMs have passed.
LEMMA SearchingUntilTimeout ==
  ASSUME TypeOK, NEW p \in Players, NEW r \in 0 .. Timeout, Ago(tick[p], start[p], r)
  PROVE  Searching(p) <=> r < Timeout
<1>1. /\ tick[p] \in Nat /\ start[p] \in Nat /\ Wrap \in Nat /\ Timeout \in Nat
      /\ 2 * Timeout < Wrap
  BY ClockTypes
<1>2. tick[p] - start[p] = r \/ tick[p] - start[p] = r - Wrap
  BY <1>1 DEF Ago
<1>3. r \in 0 .. (Wrap - 1) /\ ~(2 * r >= Wrap)
  BY <1>1
<1>4. (tick[p] - start[p]) % Wrap = r
  BY <1>1, <1>2, <1>3, Difference
<1> QED
  BY <1>3, <1>4 DEF Searching

LEMMA ClockInit == Init => ClockInv
<1> SUFFICES ASSUME Init, NEW p \in Players PROVE pc[p] = "idle" /\ rounds[p] = 0
  BY DEF ClockInv, ClockAt
<1> QED
  BY DEF Init

\* A step of p leaves the clock of the other console alone.
LEMMA ClockOfOne ==
  ASSUME ClockInv, NEW p \in Players,
         \A x \in Players : x # p =>
           /\ pc'[x] = pc[x] /\ tick'[x] = tick[x]
           /\ start'[x] = start[x] /\ rounds'[x] = rounds[x],
         ClockAt(pc'[p], tick'[p], start'[p], rounds'[p])
  PROVE  ClockInv'
BY DEF ClockInv

LEMMA ClockConnect ==
  ASSUME TypeOK, ClockInv, NEW p \in Players, Connect(p)
  PROVE  ClockInv'
<1>1. /\ start' = [start EXCEPT ![p] = tick[p]] /\ pc' = [pc EXCEPT ![p] = "top"]
      /\ pc[p] = "idle" /\ UNCHANGED <<tick, rounds>>
  BY DEF Connect
<1>2. /\ pc'[p] = "top" /\ start'[p] = tick[p] /\ tick'[p] = tick[p] /\ rounds'[p] = rounds[p]
      /\ \A x \in Players : x # p =>
           /\ pc'[x] = pc[x] /\ tick'[x] = tick[x]
           /\ start'[x] = start[x] /\ rounds'[x] = rounds[x]
  BY <1>1 DEF TypeOK
<1>3. ClockAt("idle", tick[p], start[p], rounds[p])
  BY <1>1 DEF ClockInv
<1>4. rounds[p] = 0
  BY <1>3 DEF ClockAt
<1>5. tick[p] \in Nat /\ Timeout \in Nat
  BY ClockTypes
<1>6. ClockAt("top", tick[p], tick[p], 0)
  BY <1>5 DEF ClockAt, Ago
<1> QED
  BY <1>2, <1>4, <1>6, ClockOfOne

LEMMA ClockVolley ==
  ASSUME TypeOK, ClockInv, NEW p \in Players, Volley(p)
  PROVE  ClockInv'
<1>1. /\ pc' = [pc EXCEPT ![p] = "listen"] /\ pc[p] = "top" /\ Searching(p)
      /\ rounds' = [rounds EXCEPT ![p] = IF @ > Timeout THEN @ ELSE @ + 1]
      /\ UNCHANGED <<tick, start>>
  BY DEF Volley
<1>2. /\ pc'[p] = "listen" /\ tick'[p] = tick[p] /\ start'[p] = start[p]
      /\ rounds'[p] = IF rounds[p] > Timeout THEN rounds[p] ELSE rounds[p] + 1
      /\ \A x \in Players : x # p =>
           /\ pc'[x] = pc[x] /\ tick'[x] = tick[x]
           /\ start'[x] = start[x] /\ rounds'[x] = rounds[x]
  BY <1>1 DEF TypeOK
<1>3. ClockAt("top", tick[p], start[p], rounds[p])
  BY <1>1 DEF ClockInv
<1>4. rounds[p] <= Timeout /\ Ago(tick[p], start[p], rounds[p])
  BY <1>3 DEF ClockAt
<1>5. rounds[p] \in Nat /\ Timeout \in Nat
  BY ClockTypes
<1>6. rounds[p] \in 0 .. Timeout
  BY <1>4, <1>5
<1>7. rounds[p] < Timeout
  BY <1>1, <1>4, <1>6, SearchingUntilTimeout
<1>8. rounds'[p] = rounds[p] + 1
  BY <1>2, <1>5, <1>7
<1>9. ClockAt("listen", tick[p], start[p], rounds[p] + 1)
  <2>1. rounds[p] + 1 \in 1 .. Timeout /\ (rounds[p] + 1) - 1 = rounds[p]
    BY <1>5, <1>7
  <2> QED
    BY <1>4, <2>1 DEF ClockAt
<1> QED
  BY <1>2, <1>8, <1>9, ClockOfOne

LEMMA ClockDoze ==
  ASSUME TypeOK, ClockInv, NEW p \in Players, Doze(p)
  PROVE  ClockInv'
<1>1. /\ pc' = [pc EXCEPT ![p] = "top"] /\ pc[p] = "listen"
      /\ tick' = [tick EXCEPT ![p] = (@ + 1) % Wrap]
      /\ UNCHANGED <<start, rounds>>
  BY DEF Doze
<1>2. /\ pc'[p] = "top" /\ tick'[p] = (tick[p] + 1) % Wrap
      /\ start'[p] = start[p] /\ rounds'[p] = rounds[p]
      /\ \A x \in Players : x # p =>
           /\ pc'[x] = pc[x] /\ tick'[x] = tick[x]
           /\ start'[x] = start[x] /\ rounds'[x] = rounds[x]
  BY <1>1 DEF TypeOK
<1>3. ClockAt("listen", tick[p], start[p], rounds[p])
  BY <1>1 DEF ClockInv
<1>4. rounds[p] \in 1 .. Timeout /\ Ago(tick[p], start[p], rounds[p] - 1)
  BY <1>3 DEF ClockAt
<1>5. /\ tick[p] \in Nat /\ tick[p] < Wrap /\ start[p] \in Nat /\ start[p] < Wrap
      /\ Wrap \in Nat /\ Timeout \in Nat /\ 2 * Timeout < Wrap
  BY ClockTypes
<1>6. Ago((tick[p] + 1) % Wrap, start[p], rounds[p])
  <2>1. tick[p] + 1 = start[p] + rounds[p] \/ tick[p] + 1 = start[p] + rounds[p] - Wrap
    BY <1>4, <1>5 DEF Ago
  <2>2. tick[p] \in 0 .. (Wrap - 1)
    BY <1>5
  <2>3. \/ tick[p] + 1 = Wrap /\ (tick[p] + 1) % Wrap = 0
        \/ tick[p] + 1 # Wrap /\ (tick[p] + 1) % Wrap = tick[p] + 1
    BY <1>5, <2>2, NextTick
  <2> QED
    BY <1>4, <1>5, <2>1, <2>3 DEF Ago
<1>7. rounds[p] <= Timeout
  BY <1>4, <1>5
<1>8. ClockAt("top", (tick[p] + 1) % Wrap, start[p], rounds[p])
  BY <1>6, <1>7 DEF ClockAt
<1> QED
  BY <1>2, <1>8, ClockOfOne

LEMMA ClockGiveUp ==
  ASSUME TypeOK, ClockInv, NEW p \in Players, GiveUp(p)
  PROVE  ClockInv'
<1>1. /\ pc' = [pc EXCEPT ![p] = "gave up"] /\ pc[p] = "top" /\ ~Searching(p)
      /\ UNCHANGED <<tick, start, rounds>>
  BY DEF GiveUp
<1>2. /\ pc'[p] = "gave up" /\ tick'[p] = tick[p] /\ start'[p] = start[p]
      /\ rounds'[p] = rounds[p]
      /\ \A x \in Players : x # p =>
           /\ pc'[x] = pc[x] /\ tick'[x] = tick[x]
           /\ start'[x] = start[x] /\ rounds'[x] = rounds[x]
  BY <1>1 DEF TypeOK
<1>3. ClockAt("top", tick[p], start[p], rounds[p])
  BY <1>1 DEF ClockInv
<1>4. rounds[p] <= Timeout /\ Ago(tick[p], start[p], rounds[p])
  BY <1>3 DEF ClockAt
<1>5. rounds[p] \in Nat /\ Timeout \in Nat
  BY ClockTypes
<1>6. rounds[p] \in 0 .. Timeout
  BY <1>4, <1>5
<1>7. ~(rounds[p] < Timeout)
  BY <1>1, <1>4, <1>6, SearchingUntilTimeout
<1>8. rounds[p] = Timeout
  BY <1>4, <1>5, <1>7
<1>9. ClockAt("gave up", tick[p], start[p], rounds[p])
  BY <1>8 DEF ClockAt
<1> QED
  BY <1>2, <1>9, ClockOfOne

LEMMA ClockHear ==
  ASSUME TypeOK, ClockInv, NEW p \in Players, HearSome(p)
  PROVE  ClockInv'
<1>1. /\ pc[p] = "listen" /\ UNCHANGED <<tick, start, rounds>>
      /\ pc' = [pc EXCEPT ![p] = "linked"] \/ pc' = pc
  BY DEF HearSome, Hear
<1>2. /\ tick'[p] = tick[p] /\ start'[p] = start[p] /\ rounds'[p] = rounds[p]
      /\ \A x \in Players : x # p =>
           /\ pc'[x] = pc[x] /\ tick'[x] = tick[x]
           /\ start'[x] = start[x] /\ rounds'[x] = rounds[x]
      /\ pc'[p] \in {"linked", "listen"}
  BY <1>1 DEF TypeOK
<1>3. ClockAt("listen", tick[p], start[p], rounds[p])
  BY <1>1 DEF ClockInv
<1>4. rounds[p] \in 1 .. Timeout
  BY <1>3 DEF ClockAt
<1>5. rounds[p] \in Nat /\ Timeout \in Nat
  BY ClockTypes
<1>6. rounds[p] <= Timeout
  BY <1>4, <1>5
<1>7. ClockAt("linked", tick[p], start[p], rounds[p])
  BY <1>6 DEF ClockAt
<1> QED
  BY <1>2, <1>3, <1>7, ClockOfOne

LEMMA ClockStep == TypeOK /\ ClockInv /\ [Next]_vars => ClockInv'
<1> SUFFICES ASSUME TypeOK, ClockInv, [Next]_vars PROVE ClockInv'
  OBVIOUS
<1>1. CASE UNCHANGED vars
  BY <1>1 DEF vars, ClockInv
<1>2. ASSUME NEW p \in Players, Talk(p) PROVE ClockInv'
  BY <1>2 DEF Talk, ClockInv
<1>3. ASSUME NEW k \in flying, Deliver(k) PROVE ClockInv'
  BY <1>3 DEF Deliver, ClockInv
<1>4. CASE Next
  BY <1>2, <1>3, <1>4, ClockConnect, ClockVolley, ClockHear, ClockDoze, ClockGiveUp
    DEF Next, Carry
<1> QED
  BY <1>1, <1>4

-----------------------------------------------------------------------------
(* The theorems *)

SearchInv == NetInv /\ Hears /\ NothingMissed /\ ClockInv

LEMMA SearchInvInit == Init => SearchInv
<1> SUFFICES ASSUME Init PROVE Hears /\ NothingMissed
  BY NetInit, ClockInit DEF SearchInv
<1>1. \A p \in Players : ~called[p] /\ ~deaf[p]
  BY DEF Init
<1> QED
  BY <1>1 DEF Hears, NothingMissed

LEMMA SearchInvStep == SearchInv /\ [Next]_vars => SearchInv'
<1> SUFFICES ASSUME SearchInv, [Next]_vars PROVE SearchInv'
  OBVIOUS
<1>1. NetInv'
  BY NetStep DEF SearchInv
<1>2. ClockInv'
  BY ClockStep DEF SearchInv, NetInv
<1>3. CASE UNCHANGED vars
  BY <1>1, <1>2, <1>3 DEF vars, network, SearchInv, Hears, Heard, Passes, NothingMissed,
         Reachable
<1>4. CASE Next
  BY <1>1, <1>2, <1>4, HearsStep, MissedStep DEF SearchInv
<1> QED
  BY <1>3, <1>4

\* Everything stays in range: a console is linked when it has a peer.
THEOREM TypeCorrect == Spec => []TypeOK
<1>1. NetInv => TypeOK
  BY DEF NetInv
<1> QED
  BY <1>1, NetInit, NetStep, PTL DEF Spec

\* The peer that xbl_net_connect_peer locks onto is the other console, at an
\* address by which it can be reached, whatever translators are between them.
THEOREM LinksLeadToPeers == Spec => []LinkLeadsToPeer
<1>1. NetInv => LinkLeadsToPeer
  BY ArrivesIsThrough DEF NetInv, LinkLeadsToPeer
<1> QED
  BY <1>1, NetInit, NetStep, PTL DEF Spec

\* As long as no packet is dropped, a round of a console that its peer can reach
\* does not come up empty once the peer has called and what it sent has arrived:
\* every candidate gets a hello, and one of them leads there.
THEOREM RoundsMissNothing == Spec => []NothingMissed
<1>1. SearchInv => NothingMissed
  BY DEF SearchInv
<1> QED
  BY <1>1, SearchInvInit, SearchInvStep, PTL DEF Spec

\* A search that finds nobody lasts for timeoutMs, wherever GetTickCount wraps.
THEOREM SearchesLast == Spec => []SearchLastsTimeout
<1>1. ASSUME SearchInv, NEW p \in Players
      PROVE  rounds[p] <= Timeout /\ (pc[p] = "gave up" => rounds[p] = Timeout)
  <2>1. TypeOK /\ ClockAt(pc[p], tick[p], start[p], rounds[p])
    BY <1>1 DEF SearchInv, NetInv, ClockInv
  <2>2. Timeout \in Nat
    BY ClockAssumption
  <2>3. CASE pc[p] = "idle"
    <3>1. rounds[p] = 0
      BY <2>1, <2>3 DEF ClockAt
    <3>2. 0 <= Timeout
      BY <2>2
    <3> QED
      BY <2>3, <3>1, <3>2
  <2>4. CASE pc[p] = "listen"
    <3>1. rounds[p] \in 1 .. Timeout
      BY <2>1, <2>4 DEF ClockAt
    <3>2. rounds[p] <= Timeout
      BY <2>2, <3>1
    <3> QED
      BY <2>4, <3>2
  <2>5. CASE pc[p] \in {"top", "linked"}
    BY <2>1, <2>5 DEF ClockAt
  <2>6. CASE pc[p] = "gave up"
    <3>1. rounds[p] = Timeout
      BY <2>1, <2>6 DEF ClockAt
    <3>2. Timeout <= Timeout
      BY <2>2
    <3> QED
      BY <3>1, <3>2
  <2>7. pc[p] \in {"idle", "top", "listen", "linked", "gave up"}
    BY <2>1, ClockTypes
  <2> QED
    BY <2>3, <2>4, <2>5, <2>6, <2>7
<1>2. SearchInv => SearchLastsTimeout
  BY <1>1 DEF SearchLastsTimeout
<1> QED
  BY <1>2, SearchInvInit, SearchInvStep, PTL DEF Spec

-----------------------------------------------------------------------------
(* The search is that of Rendezvous *)

LEMMA LiveStepIsSearchStep == [LiveNext]_liveVars => [Next]_vars
<1> SUFFICES ASSUME [LiveNext]_liveVars PROVE [Next]_vars
  OBVIOUS
<1>1. CASE UNCHANGED liveVars
  BY <1>1 DEF liveVars
<1>2. CASE StartRound
  BY <1>2 DEF StartRound
<1>3. ASSUME NEW p \in Players, CallStep(p) PROVE UNCHANGED vars
  BY <1>3 DEF CallStep, FetchRound, Register, PollPeer, BattleFinish
<1>4. ASSUME NEW p \in Players, Dial(p) \/ SearchStep(p) \/ TalkStep(p) PROVE Next
  BY <1>4 DEF Dial, SearchStep, TalkStep, Next
<1>5. CASE Carry
  BY <1>5 DEF Next
<1> QED
  BY <1>1, <1>2, <1>3, <1>4, <1>5 DEF LiveNext

\* A live battle implements Rendezvous: the calls around the search never touch
\* the link (xbl_mp_* of xblsdk.c leave XblNet alone).
THEOREM LiveImplementsSearch == LiveSpec => Spec
<1>1. LiveInit => Init
  BY DEF LiveInit
<1> QED
  BY <1>1, LiveStepIsSearchStep, PTL DEF LiveSpec, Spec

\* In a live battle too, the peer locked onto is the other console, at an address
\* by which it can be reached (xbl_net_connect_peer).
THEOREM LiveLinksLeadToPeers == LiveSpec => []LinkLeadsToPeer
BY LiveImplementsSearch, LinksLeadToPeers, PTL

\* In a live battle too, no round of the search misses a peer that has called.
THEOREM LiveRoundsMissNothing == LiveSpec => []NothingMissed
BY LiveImplementsSearch, RoundsMissNothing, PTL

\* In a live battle too, a search in vain lasts for timeoutMs.
THEOREM LiveSearchesLast == LiveSpec => []SearchLastsTimeout
BY LiveImplementsSearch, SearchesLast, PTL

-----------------------------------------------------------------------------
(* The requests *)

\* The state of the requests, and what leads to a search: a registered endpoint
\* is known to the server, and ready means that both are.
CallsInv ==
  /\ playing \in BOOLEAN
  /\ endpoints \subseteq Players /\ logs \subseteq Players
  /\ run \in [Players -> BOOLEAN]
  /\ registered \in [Players -> BOOLEAN]
  /\ ready \in [Players -> BOOLEAN]
  /\ failed \in 0 .. MaxFailed
  /\ \A p \in Players : registered[p] => p \in endpoints
  /\ \A p \in Players : ready[p] => p \in endpoints /\ Other(p) \in endpoints
  /\ \A p \in Players : pc[p] # "idle" => ready[p]

\* What a console was told is what the server decided.
ResultsInv ==
  /\ verdict \in Players \cup {NoVerdict, Draw}
  /\ result \in [Players -> {-1, 0, 1}]
  /\ \A p \in Players :
       result[p] # -1 => verdict \in Players /\ result[p] = ResultOf(p, verdict)

LEMMA PlayersAreTwo ==
  /\ Players = {0, 1} /\ NoVerdict \notin Players /\ Draw \notin Players
  /\ \A p \in Players : Other(p) \in Players /\ Other(p) # p /\ Players = {p, Other(p)}
BY DEF Players, Other, NoVerdict, Draw

LEMMA FailedStep ==
  ASSUME failed \in 0 .. MaxFailed, Fail \/ Succeed
  PROVE  failed' \in 0 .. MaxFailed
<1>1. CASE Fail
  BY <1>1, FailedAssumption DEF Fail
<1>2. CASE Succeed
  BY <1>2 DEF Succeed
<1> QED
  BY <1>1, <1>2

LEMMA CallsInit == LiveInit => CallsInv
<1> SUFFICES ASSUME LiveInit PROVE CallsInv
  OBVIOUS
<1>1. 0 \in 0 .. MaxFailed
  BY FailedAssumption
<1> QED
  BY <1>1 DEF LiveInit, Init, CallsInv

LEMMA CallsStart ==
  ASSUME CallsInv, StartRound
  PROVE  CallsInv'
<1>1. /\ playing' \in BOOLEAN /\ run' \in [Players -> BOOLEAN]
      /\ UNCHANGED <<endpoints, logs, registered, ready, pc>>
  BY DEF CallsInv, StartRound, HasRun, vars
<1>2. failed' \in 0 .. MaxFailed
  BY FailedStep DEF CallsInv, StartRound
<1> QED
  BY <1>1, <1>2 DEF CallsInv

LEMMA CallsFetch ==
  ASSUME CallsInv, NEW p \in Players, FetchRound(p)
  PROVE  CallsInv'
<1>1. /\ run' \in [Players -> BOOLEAN]
      /\ UNCHANGED <<playing, endpoints, logs, registered, ready, pc>>
  BY DEF CallsInv, FetchRound, HasRun, vars, server
<1>2. failed' \in 0 .. MaxFailed
  BY FailedStep DEF CallsInv, FetchRound
<1> QED
  BY <1>1, <1>2 DEF CallsInv

LEMMA CallsRegister ==
  ASSUME CallsInv, NEW p \in Players, Register(p)
  PROVE  CallsInv'
<1>1. /\ endpoints \subseteq endpoints' /\ endpoints' \subseteq Players
      /\ ~registered[p]
      /\ UNCHANGED <<playing, logs, run, pc>>
  BY DEF CallsInv, Register, vars
<1>2. failed' \in 0 .. MaxFailed
  BY FailedStep DEF CallsInv, Register
<1>3. \/ UNCHANGED <<registered, ready>>
      \/ /\ registered' = [registered EXCEPT ![p] = TRUE]
         /\ ready' = [ready EXCEPT ![p] = Other(p) \in endpoints]
         /\ p \in endpoints'
  BY DEF Register, RegisterFailed, Match
<1>4. CASE UNCHANGED <<registered, ready>>
  BY <1>1, <1>2, <1>4 DEF CallsInv
<1>5. CASE /\ registered' = [registered EXCEPT ![p] = TRUE]
           /\ ready' = [ready EXCEPT ![p] = Other(p) \in endpoints]
           /\ p \in endpoints'
  <2>1. registered' \in [Players -> BOOLEAN] /\ ready' \in [Players -> BOOLEAN]
    BY <1>5 DEF CallsInv
  <2>2. \A q \in Players : registered'[q] => q \in endpoints'
    BY <1>1, <1>5 DEF CallsInv
  <2>3. \A q \in Players : ready'[q] => q \in endpoints' /\ Other(q) \in endpoints'
    BY <1>1, <1>5 DEF CallsInv
  <2>4. \A q \in Players : ready[q] => ready'[q]
    BY <1>5 DEF CallsInv
  <2>5. \A q \in Players : pc'[q] # "idle" => ready'[q]
    BY <1>1, <2>4 DEF CallsInv
  <2> QED
    BY <1>1, <1>2, <2>1, <2>2, <2>3, <2>5 DEF CallsInv
<1> QED
  BY <1>3, <1>4, <1>5

LEMMA CallsPoll ==
  ASSUME CallsInv, NEW p \in Players, PollPeer(p)
  PROVE  CallsInv'
<1>1. /\ registered[p] /\ ~ready[p]
      /\ UNCHANGED <<playing, endpoints, logs, run, registered, pc>>
      /\ \/ UNCHANGED ready
         \/ ready' = [ready EXCEPT ![p] = Other(p) \in endpoints]
  BY DEF PollPeer, Match, vars, server
<1>2. failed' \in 0 .. MaxFailed
  BY FailedStep DEF CallsInv, PollPeer
<1>3. ready' \in [Players -> BOOLEAN]
  BY <1>1 DEF CallsInv
<1>4. \A q \in Players : ready'[q] => q \in endpoints' /\ Other(q) \in endpoints'
  BY <1>1 DEF CallsInv
<1>5. \A q \in Players : pc'[q] # "idle" => ready'[q]
  BY <1>1 DEF CallsInv
<1> QED
  BY <1>1, <1>2, <1>3, <1>4, <1>5 DEF CallsInv

LEMMA CallsFinish ==
  ASSUME CallsInv, NEW p \in Players, BattleFinish(p)
  PROVE  CallsInv'
<1>1. /\ logs' \subseteq Players
      /\ UNCHANGED <<playing, endpoints, run, registered, ready, pc>>
  BY DEF CallsInv, BattleFinish, vars
<1>2. failed' \in 0 .. MaxFailed
  BY FailedStep DEF CallsInv, BattleFinish
<1> QED
  BY <1>1, <1>2 DEF CallsInv

LEMMA CallsSearch ==
  ASSUME TypeOK, CallsInv, NEW p \in Players, Dial(p) \/ SearchStep(p) \/ TalkStep(p)
  PROVE  CallsInv'
<1>1. UNCHANGED <<playing, endpoints, logs, run, registered, ready, failed>>
  BY DEF Dial, SearchStep, TalkStep, live
<1>2. pc \in [Players -> {"idle", "top", "listen", "linked", "gave up"}]
  BY DEF TypeOK
<1>3. \A q \in Players : q # p => pc'[q] = pc[q]
  BY <1>2 DEF Dial, SearchStep, TalkStep, Connect, Volley, HearSome, Hear, Doze, GiveUp, Talk
<1>4. ready[p]
  <2>1. CASE Dial(p)
    BY <2>1 DEF Dial
  <2>2. CASE SearchStep(p) \/ TalkStep(p)
    <3>1. pc[p] # "idle"
      BY <2>2 DEF SearchStep, TalkStep, Volley, HearSome, Hear, Doze, GiveUp, Talk
    <3> QED
      BY <3>1 DEF CallsInv
  <2> QED
    BY <2>1, <2>2
<1>5. \A q \in Players : pc'[q] # "idle" => ready'[q]
  BY <1>1, <1>3, <1>4 DEF CallsInv
<1> QED
  BY <1>1, <1>5 DEF CallsInv

LEMMA CallsStep == TypeOK /\ CallsInv /\ [LiveNext]_liveVars => CallsInv'
<1> SUFFICES ASSUME TypeOK, CallsInv, [LiveNext]_liveVars PROVE CallsInv'
  OBVIOUS
<1>1. CASE UNCHANGED liveVars
  BY <1>1 DEF liveVars, vars, live, CallsInv
<1>2. CASE Carry /\ UNCHANGED live
  BY <1>2 DEF Carry, Deliver, live, CallsInv
<1>3. CASE LiveNext
  BY <1>2, <1>3, CallsStart, CallsFetch, CallsRegister, CallsPoll, CallsFinish, CallsSearch
    DEF LiveNext, CallStep
<1> QED
  BY <1>1, <1>3

-----------------------------------------------------------------------------
(* The verdict *)

LEMMA ResultsInit == LiveInit => ResultsInv
BY DEF LiveInit, ResultsInv

\* A verdict that is there stays.
LEMMA DecideOnce ==
  ASSUME ResultsInv, Decide
  PROVE  /\ verdict' \in Players \cup {NoVerdict, Draw}
         /\ verdict # NoVerdict => verdict' = verdict
BY DEF Decide, ResultsInv

LEMMA ResultsFinish ==
  ASSUME ResultsInv, NEW p \in Players, BattleFinish(p)
  PROVE  ResultsInv'
<1>1. /\ verdict' \in Players \cup {NoVerdict, Draw}
      /\ verdict # NoVerdict => verdict' = verdict
  BY DecideOnce DEF BattleFinish
<1>2. \/ UNCHANGED result
      \/ result' = [result EXCEPT ![p] = ResultOf(p, verdict')]
  BY DEF BattleFinish
<1>3. ResultOf(p, verdict') \in {-1, 0, 1}
  BY DEF ResultOf
<1>4. ResultOf(p, verdict') # -1 => verdict' \in Players
  BY DEF ResultOf
<1>5. result' \in [Players -> {-1, 0, 1}]
  BY <1>2, <1>3 DEF ResultsInv
<1>6. ASSUME NEW q \in Players, result'[q] # -1
      PROVE  verdict' \in Players /\ result'[q] = ResultOf(q, verdict')
  <2>1. CASE result'[q] = result[q]
    <3>1. verdict \in Players /\ result[q] = ResultOf(q, verdict)
      BY <1>6, <2>1 DEF ResultsInv
    <3>2. verdict' = verdict
      BY <1>1, <3>1, PlayersAreTwo
    <3> QED
      BY <2>1, <3>1, <3>2
  <2>2. CASE q = p /\ result'[p] = ResultOf(p, verdict')
    BY <1>4, <1>6, <2>2
  <2> QED
    BY <1>2, <2>1, <2>2 DEF ResultsInv
<1> QED
  BY <1>1, <1>5, <1>6 DEF ResultsInv

LEMMA ResultsStep == ResultsInv /\ [LiveNext]_liveVars => ResultsInv'
<1> SUFFICES ASSUME ResultsInv, [LiveNext]_liveVars PROVE ResultsInv'
  OBVIOUS
<1>1. ASSUME UNCHANGED <<verdict, result>> PROVE ResultsInv'
  BY <1>1 DEF ResultsInv
<1>2. CASE UNCHANGED liveVars
  BY <1>1, <1>2 DEF liveVars, live
<1>3. CASE StartRound
  BY <1>1, <1>3 DEF StartRound
<1>4. ASSUME NEW p \in Players, FetchRound(p) \/ Register(p) \/ PollPeer(p)
      PROVE  ResultsInv'
  BY <1>1, <1>4 DEF FetchRound, Register, PollPeer, server
<1>5. ASSUME NEW p \in Players, Dial(p) \/ SearchStep(p) \/ TalkStep(p)
      PROVE  ResultsInv'
  BY <1>1, <1>5 DEF Dial, SearchStep, TalkStep, live
<1>6. CASE UNCHANGED live
  BY <1>1, <1>6 DEF live
<1> QED
  BY <1>2, <1>3, <1>4, <1>5, <1>6, ResultsFinish DEF LiveNext, CallStep

-----------------------------------------------------------------------------
(* The theorems *)

LEMMA LiveTyped == LiveSpec => []TypeOK
BY LiveImplementsSearch, TypeCorrect, PTL

LEMMA LiveInvariant == LiveSpec => [](CallsInv /\ ResultsInv)
<1>1. TypeOK /\ (CallsInv /\ ResultsInv) /\ [LiveNext]_liveVars => (CallsInv /\ ResultsInv)'
  BY CallsStep, ResultsStep
<1>2. LiveInit => CallsInv /\ ResultsInv
  BY CallsInit, ResultsInit
<1> QED
  BY <1>1, <1>2, LiveTyped, PTL DEF LiveSpec

\* The types of a live battle.
THEOREM LiveTypeCorrect == LiveSpec => []LiveTypeOK
<1>1. TypeOK /\ CallsInv /\ ResultsInv => LiveTypeOK
  BY DEF CallsInv, ResultsInv, LiveTypeOK
<1> QED
  BY <1>1, LiveTyped, LiveInvariant, PTL

\* A console that dials has been announced to its peer and the peer to it,
\* whichever calls were lost (xbl_mp_net_register, xbl_mp_net_poll).
THEOREM SearchesAreMutual == LiveSpec => []SearchIsMutual
<1>1. CallsInv => SearchIsMutual
  <2> SUFFICES ASSUME CallsInv, NEW p \in Players, pc[p] # "idle" PROVE endpoints = Players
    BY DEF SearchIsMutual
  <2>1. p \in endpoints /\ Other(p) \in endpoints /\ endpoints \subseteq Players
    BY DEF CallsInv
  <2>2. Players = {p, Other(p)}
    BY PlayersAreTwo
  <2>3. Players \subseteq endpoints
    BY <2>1, <2>2
  <2> QED
    BY <2>1, <2>3
<1> QED
  BY <1>1, LiveInvariant, PTL

\* The two results never contradict each other, however often the consoles asked
\* and whichever answers were lost (xbl_mp_battle_finish).
THEOREM ResultsNeverContradict == LiveSpec => []ResultsAgree
<1>1. ResultsInv => ResultsAgree
  <2> SUFFICES ASSUME ResultsInv, NEW p \in Players, result[p] # -1
               PROVE  result[Other(p)] \in {-1, 1 - result[p]}
    BY DEF ResultsAgree
  <2>1. Other(p) \in Players /\ Other(p) # p /\ Players = {p, Other(p)}
    BY PlayersAreTwo
  <2>2. verdict \in Players /\ result[p] = ResultOf(p, verdict)
    BY DEF ResultsInv
  <2>3. result[Other(p)] = -1 \/ result[Other(p)] = ResultOf(Other(p), verdict)
    BY <2>1 DEF ResultsInv
  <2>4. CASE verdict = p
    <3>1. result[p] = 1 /\ ResultOf(Other(p), verdict) = 0
      BY <2>1, <2>2, <2>4 DEF ResultOf
    <3> QED
      BY <2>3, <3>1
  <2>5. CASE verdict = Other(p)
    <3>1. result[p] = 0 /\ ResultOf(Other(p), verdict) = 1
      BY <2>1, <2>2, <2>5 DEF ResultOf
    <3> QED
      BY <2>3, <3>1
  <2>6. verdict = p \/ verdict = Other(p)
    BY <2>1, <2>2
  <2> QED
    BY <2>4, <2>5, <2>6
<1> QED
  BY <1>1, LiveInvariant, PTL
=============================================================================
