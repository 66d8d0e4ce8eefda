---------------------------- MODULE MatchmakingProofs ----------------------------
(***************************************************************************)
(* Proofs about lobbies and quick match, for every number of consoles,     *)
(* guests, rooms, modes, lost requests, and every size of a room and of    *)
(* the tables.  Inv says what a console and the server know of each other; *)
(* the theorems are at the end.                                            *)
(***************************************************************************)
EXTENDS Matchmaking, FiniteSetTheorems, TLAPS

-----------------------------------------------------------------------------
(* The invariant *)

RoomType == [members : SUBSET Users, host : Users \cup {Nobody}, mode : Modes,
             status : {"waiting", "playing"}]

\* A room is none, or has its host among its members.
RoomOK(r) ==
  /\ r \in RoomType
  /\ Cardinality(r.members) <= RoomSize
  /\ r = NoRoom \/ r.host \in r.members

ServerInv ==
  /\ room \in [Codes -> RoomType]
  /\ \A c \in Codes : RoomOK(room[c])
  /\ made \in 0 .. MaxRooms
  /\ \A c \in Codes : c > made => room[c] = NoRoom
  /\ heard \in [Codes -> SUBSET Players]
  /\ \A c \in Codes : heard[c] \subseteq Members(c)

LobbyType == [code : {0} \cup Codes, role : {"none", "member", "host"}]

ClientInv ==
  /\ pc \in [Players -> {"menu", "search", "trying", "setting", "undoing", "room"}]
  /\ want \in [Players -> Modes]
  /\ found \in [Players -> SUBSET Codes]
  /\ copy \in [Players -> LobbyType]
  /\ polled \in [Players -> {"no", "unheard", "yes"}]
  /\ turnedOut \in [Players -> BOOLEAN]
  /\ lost \in 0 .. MaxLost

\* Which lobby console p holds, by where it is.
CopyInv(p) ==
  /\ pc[p] \in {"menu", "search", "trying"} => copy[p] = NoLobby
  /\ pc[p] \in {"setting", "undoing"} => copy[p].code \in Codes
  /\ copy[p].role # "none" => copy[p].code \in Codes

\* What the lobby it holds says of the room.
SeatInv(p) ==
  /\ Sits(p) /\ ~turnedOut[p] =>
       /\ p \in Members(copy[p].code)
       /\ polled[p] = "yes" => p \in heard[copy[p].code]
  /\ pc[p] = "room" /\ copy[p].role = "none" =>
       \A c \in Codes : copy[p].code = c => p \notin Members(c)

StrayInv(p) == \A c \in Codes : p \in Members(c) => copy[p].code = c \/ c \in astray[p]

\* What was open throughout a search is still to be tried.
SteadyInv(p) ==
  /\ steady[p] \subseteq Codes
  /\ pc[p] = "trying" => steady[p] \subseteq found[p]

Inv ==
  /\ ServerInv
  /\ ClientInv
  /\ \A p \in Players : CopyInv(p) /\ SeatInv(p) /\ StrayInv(p) /\ SteadyInv(p)

-----------------------------------------------------------------------------
(* Rooms *)

LEMMA UsersAreFinite ==
  /\ IsFiniteSet(Users)
  /\ \A s \in SUBSET Users : IsFiniteSet(s) /\ Cardinality(s) \in Nat
  /\ Nobody \notin Users
  /\ \A u \in Guests : u \notin Players
<1>1. IsFiniteSet(Users)
  BY UsersAssumption, FS_Union DEF Users
<1>2. \A s \in SUBSET Users : IsFiniteSet(s) /\ Cardinality(s) \in Nat
  BY <1>1, FS_Subset, FS_CardinalityType
<1> QED
  BY <1>1, <1>2, UsersAssumption

LEMMA SizeIsPositive == RoomSize \in Nat /\ RoomSize > 0 /\ ListMax \in Nat /\ MaxRooms \in Nat
BY BoundsAssumption

LEMMA CodesAreNat == \A c \in Codes : c \in Nat /\ c # 0 /\ c <= MaxRooms
BY SizeIsPositive DEF Codes

LEMMA NoRoomIsOK == RoomOK(NoRoom) /\ NoRoom.members = {}
<1>1. NoRoom \in RoomType
  BY ModesAssumption DEF NoRoom, RoomType
<1>2. NoRoom.members = {}
  BY DEF NoRoom
<1>3. Cardinality({}) <= RoomSize
  BY FS_EmptySet, SizeIsPositive
<1> QED
  BY <1>1, <1>2, <1>3 DEF RoomOK

\* Members make a room, and a host is one of them.
LEMMA SomeRoom ==
  ASSUME NEW r, RoomOK(r)
  PROVE  /\ r.members # {} => r.host \in r.members
         /\ r.host # Nobody => r.host \in r.members
         /\ \A u \in Users : u = r.host => u \in r.members
<1>1. NoRoom.host = Nobody /\ NoRoom.members = {}
  BY DEF NoRoom
<1>2. r = NoRoom \/ r.host \in r.members
  BY DEF RoomOK
<1>3. \A u \in Users : u # Nobody
  BY UsersAreFinite
<1> QED
  BY <1>1, <1>2, <1>3

LEMMA SmallerRoom ==
  ASSUME NEW r, RoomOK(r), NEW s \in SUBSET r.members
  PROVE  s \in SUBSET Users /\ Cardinality(s) <= RoomSize
<1>1. r.members \in SUBSET Users
  BY DEF RoomOK, RoomType
<1>2. Cardinality(s) <= Cardinality(r.members)
  BY <1>1, UsersAreFinite, FS_Subset
<1>3. Cardinality(s) \in Nat /\ Cardinality(r.members) \in Nat
  BY <1>1, UsersAreFinite
<1>4. Cardinality(r.members) <= RoomSize
  BY DEF RoomOK
<1>5. Cardinality(s) <= RoomSize
  BY <1>2, <1>3, <1>4, SizeIsPositive
<1> QED
  BY <1>1, <1>5

\* Users go: a room of the others is left, or none.
LEMMA WithoutEffect ==
  ASSUME NEW c \in Codes, RoomOK(room[c]), NEW users, NEW r \in Without(c, users)
  PROVE  /\ RoomOK(r)
         /\ r.members = room[c].members \ users
         /\ room[c] = NoRoom => r = NoRoom
<1> DEFINE rest == room[c].members \ users
<1>1. CASE rest = {}
  <2>1. r = NoRoom
    BY <1>1 DEF Without, Members
  <2> QED
    BY <1>1, <2>1, NoRoomIsOK
<1>2. CASE rest # {}
  <2>1. \E h \in (IF room[c].host \in rest THEN {room[c].host} ELSE rest) :
           r = [room[c] EXCEPT !.members = rest, !.host = h]
    BY <1>2 DEF Without, Members
  <2>2. PICK h \in rest : r = [room[c] EXCEPT !.members = rest, !.host = h]
    BY <2>1
  <2>3. room[c] \in RoomType /\ rest \in SUBSET room[c].members
    BY DEF RoomOK
  <2>4. rest \in SUBSET Users /\ Cardinality(rest) <= RoomSize
    BY <2>3, SmallerRoom
  <2>5. r \in RoomType /\ r.members = rest /\ r.host = h
    BY <2>2, <2>3, <2>4 DEF RoomType
  <2>6. room[c] # NoRoom
    BY <1>2, NoRoomIsOK
  <2> QED
    BY <2>4, <2>5, <2>6 DEF RoomOK
<1> QED
  BY <1>1, <1>2

\* A user comes in.
LEMMA AdmitEffect ==
  ASSUME NEW c \in Codes, RoomOK(room[c]), NEW u \in Users, Admits(c, u),
         NEW r, r = [room[c] EXCEPT !.members = room[c].members \cup {u}]
  PROVE  /\ RoomOK(r) /\ r.members = room[c].members \cup {u} /\ room[c] # NoRoom
<1> DEFINE m == room[c].members
<1>1. m # {} /\ (u \in m \/ Cardinality(m) < RoomSize)
  BY DEF Admits, Members
<1>2. room[c] \in RoomType /\ m \in SUBSET Users /\ Cardinality(m) <= RoomSize
  BY DEF RoomOK, RoomType
<1>3. r \in RoomType /\ r.members = m \cup {u} /\ r.host = room[c].host
  BY <1>2 DEF RoomType
<1>4. Cardinality(m \cup {u}) <= RoomSize
  <2>1. IsFiniteSet(m) /\ Cardinality(m) \in Nat
    BY <1>2, UsersAreFinite
  <2>2. CASE u \in m
    <3>1. m \cup {u} = m
      BY <2>2
    <3> QED
      BY <1>2, <3>1
  <2>3. CASE u \notin m
    <3>1. Cardinality(m) < RoomSize
      BY <1>1, <2>3
    <3>2. Cardinality(m \cup {u}) = Cardinality(m) + 1
      BY <2>1, <2>3, FS_AddElement
    <3> QED
      BY <2>1, <3>1, <3>2, SizeIsPositive
  <2> QED
    BY <2>2, <2>3
<1>5. room[c].host \in m /\ room[c] # NoRoom
  BY <1>1, SomeRoom, NoRoomIsOK
<1> QED
  BY <1>3, <1>4, <1>5 DEF RoomOK

\* All but one room stay as they are.
OnlyRoom(c) == \A d \in Codes : d # c => room'[d] = room[d] /\ heard'[d] = heard[d]

\* One room changes.
LEMMA OneRoomInv ==
  ASSUME ServerInv, NEW c \in Codes, OnlyRoom(c), made' = made,
         DOMAIN room' = Codes, room' = [d \in Codes |-> room'[d]],
         heard' = [d \in Codes |-> heard'[d]],
         RoomOK(room'[c]), c > made => room'[c] = NoRoom,
         heard'[c] \subseteq room'[c].members, heard'[c] \subseteq Players
  PROVE  ServerInv'
<1>1. \A d \in Codes : RoomOK(room'[d]) /\ heard'[d] \subseteq room'[d].members
                       /\ heard'[d] \subseteq Players
  BY DEF ServerInv, OnlyRoom, Members
<1>2. \A d \in Codes : room'[d] \in RoomType
  BY <1>1 DEF RoomOK
<1>3. room' \in [Codes -> RoomType]
  BY <1>2
<1>4. heard' \in [Codes -> SUBSET Players]
  BY <1>1
<1>5. \A d \in Codes : d > made' => room'[d] = NoRoom
  BY DEF ServerInv, OnlyRoom
<1>6. made' \in 0 .. MaxRooms
  BY DEF ServerInv
<1>7. \A d \in Codes : RoomOK(room[d])'
  BY <1>1 DEF RoomOK, NoRoom, RoomType
<1> QED
  BY <1>1, <1>3, <1>4, <1>5, <1>6, <1>7 DEF ServerInv, Members, NoRoom

\* Room c becomes r, of which the server has heard the members h.
Becomes(c, r, h) ==
  room' = [room EXCEPT ![c] = r] /\ heard' = [heard EXCEPT ![c] = h] /\ made' = made

LEMMA RoomChange ==
  ASSUME ServerInv, NEW c \in Codes, NEW r, NEW h, Becomes(c, r, h),
         RoomOK(r), c > made => r = NoRoom, h \subseteq r.members, h \subseteq Players
  PROVE  ServerInv' /\ OnlyRoom(c) /\ room'[c] = r /\ heard'[c] = h
<1>1. room'[c] = r /\ heard'[c] = h /\ made' = made
  BY DEF ServerInv, Becomes
<1>2. OnlyRoom(c)
  BY DEF ServerInv, Becomes, OnlyRoom
<1>3. /\ DOMAIN room' = Codes /\ room' = [d \in Codes |-> room'[d]]
      /\ heard' = [d \in Codes |-> heard'[d]]
  BY DEF ServerInv, Becomes
<1>4. ServerInv'
  BY <1>1, <1>2, <1>3, OneRoomInv
<1> QED
  BY <1>1, <1>2, <1>4

LEMMA SameServer ==
  ASSUME ServerInv, UNCHANGED server
  PROVE  ServerInv' /\ \A c \in Codes : OnlyRoom(c) /\ room'[c] = room[c] /\ heard'[c] = heard[c]
BY DEF server, ServerInv, OnlyRoom, RoomOK, Members, NoRoom, RoomType

LEMMA EnteredEffect ==
  ASSUME ServerInv, NEW c \in Codes, NEW u \in Users, Admits(c, u), Entered(c, u), made' = made
  PROVE  /\ ServerInv' /\ OnlyRoom(c)
         /\ Members(c)' = Members(c) \cup {u}
         /\ heard'[c] = heard[c] \cup ({u} \cap Players)
<1> DEFINE r == [room[c] EXCEPT !.members = room[c].members \cup {u}]
           h == heard[c] \cup ({u} \cap Players)
<1>1. RoomOK(room[c]) /\ (c > made => room[c] = NoRoom)
  BY DEF ServerInv
<1>2. RoomOK(r) /\ r.members = room[c].members \cup {u} /\ room[c] # NoRoom
  BY <1>1, AdmitEffect
<1>3. Becomes(c, r, h)
  BY DEF Entered, ServerInv, Becomes
<1>4. h \subseteq r.members /\ h \subseteq Players
  BY <1>2 DEF ServerInv, Members
<1>5. c > made => r = NoRoom
  BY <1>1, <1>2
<1> HIDE DEF r, h
<1>6. ServerInv' /\ OnlyRoom(c) /\ room'[c] = r /\ heard'[c] = h
  BY <1>2, <1>3, <1>4, <1>5, RoomChange
<1> QED
  BY <1>2, <1>6 DEF Members, h

LEMMA LeftEffect ==
  ASSUME ServerInv, NEW c \in Codes, NEW u, Left(c, u), made' = made
  PROVE  /\ ServerInv' /\ OnlyRoom(c)
         /\ Members(c)' = Members(c) \ {u}
         /\ heard'[c] = heard[c] \ {u}
<1> DEFINE h == heard[c] \ {u}
<1>1. RoomOK(room[c]) /\ (c > made => room[c] = NoRoom)
  BY DEF ServerInv
<1>2. PICK r \in Without(c, {u}) : room' = [room EXCEPT ![c] = r]
  BY DEF Left
<1>3. RoomOK(r) /\ r.members = room[c].members \ {u} /\ (room[c] = NoRoom => r = NoRoom)
  BY <1>1, WithoutEffect
<1>4. Becomes(c, r, h)
  BY <1>2 DEF Left, ServerInv, Becomes
<1>5. h \subseteq r.members /\ h \subseteq Players
  BY <1>3 DEF ServerInv, Members
<1>6. c > made => r = NoRoom
  BY <1>1, <1>3
<1> HIDE DEF h
<1>7. ServerInv' /\ OnlyRoom(c) /\ room'[c] = r /\ heard'[c] = h
  BY <1>3, <1>4, <1>5, <1>6, RoomChange
<1> QED
  BY <1>3, <1>7 DEF Members, h

LEMMA MadeEffect ==
  ASSUME ServerInv, NEW p \in Players, Made(p)
  PROVE  /\ ServerInv' /\ made' \in Codes /\ OnlyRoom(made')
         /\ made' = made + 1
         /\ Members(made') = {}
         /\ room'[made'].members = {p} /\ heard'[made'] = {p}
<1> DEFINE n == made + 1
           r == [NoRoom EXCEPT !.members = {p}, !.host = p]
<1>1. made \in Nat /\ made < MaxRooms /\ MaxRooms \in Nat
  BY SizeIsPositive DEF ServerInv, Made
<1>2. n \in Codes /\ n > made /\ made' = n
  BY <1>1 DEF Codes, Made
<1>3. room[n] = NoRoom
  BY <1>2 DEF ServerInv
<1>4. RoomOK(r) /\ r.members = {p}
  <2>1. p \in Users /\ {p} \in SUBSET Users
    BY DEF Users
  <2>2. NoRoom \in RoomType
    BY NoRoomIsOK DEF RoomOK
  <2>3. r \in RoomType /\ r.members = {p} /\ r.host = p
    BY <2>1, <2>2 DEF RoomType
  <2>4. Cardinality({p}) <= RoomSize
    BY FS_Singleton, SizeIsPositive
  <2> QED
    BY <2>3, <2>4 DEF RoomOK
<1>5. room' = [room EXCEPT ![n] = r] /\ heard' = [heard EXCEPT ![n] = {p}]
  BY <1>2 DEF Made
<1> HIDE DEF r, n
<1>6. room'[n] = r /\ heard'[n] = {p}
  BY <1>2, <1>5 DEF ServerInv
<1>7. \A d \in Codes : d # n => room'[d] = room[d] /\ heard'[d] = heard[d]
  BY <1>2, <1>5 DEF ServerInv
<1>8. room' \in [Codes -> RoomType] /\ heard' \in [Codes -> SUBSET Players]
  BY <1>4, <1>5 DEF ServerInv, RoomOK
<1>9. \A d \in Codes : RoomOK(room'[d]) /\ heard'[d] \subseteq room'[d].members
  BY <1>4, <1>6, <1>7 DEF ServerInv, Members
<1>10. \A d \in Codes : d > made' => room'[d] = NoRoom
  <2> SUFFICES ASSUME NEW d \in Codes, d > made' PROVE room'[d] = NoRoom
    OBVIOUS
  <2>1. d # n /\ d > made
    BY <1>1, <1>2, CodesAreNat DEF n
  <2> QED
    BY <1>7, <2>1 DEF ServerInv
<1>11. made' \in 0 .. MaxRooms
  BY <1>1, <1>2 DEF n
<1>12. ServerInv'
  <2>1. \A d \in Codes : RoomOK(room[d])'
    BY <1>9 DEF RoomOK, NoRoom, RoomType
  <2> QED
    BY <1>8, <1>9, <1>10, <1>11, <2>1 DEF ServerInv, Members, NoRoom
<1> QED
  BY <1>2, <1>3, <1>4, <1>6, <1>7, <1>12, NoRoomIsOK DEF OnlyRoom, Members, n

\* The mode or the status of a room that is there is set.
LEMMA AttributeEffect ==
  ASSUME ServerInv, NEW c \in Codes, room[c] # NoRoom, NEW r \in RoomType,
         r.members = room[c].members, r.host = room[c].host,
         room' = [room EXCEPT ![c] = r], UNCHANGED <<made, heard>>
  PROVE  /\ ServerInv' /\ OnlyRoom(c)
         /\ Members(c)' = Members(c) /\ room'[c] = r /\ heard'[c] = heard[c]
<1>1. RoomOK(room[c]) /\ heard[c] \subseteq room[c].members /\ heard[c] \subseteq Players
  BY DEF ServerInv, Members
<1>2. RoomOK(r)
  BY <1>1 DEF RoomOK
<1>3. ~(c > made)
  BY DEF ServerInv
<1>4. Becomes(c, r, heard[c])
  BY DEF ServerInv, Becomes
<1>5. ServerInv' /\ OnlyRoom(c) /\ room'[c] = r /\ heard'[c] = heard[c]
  BY <1>1, <1>2, <1>3, <1>4, RoomChange
<1> QED
  BY <1>5 DEF Members

LEMMA HeardOfEffect ==
  ASSUME ServerInv, NEW c \in Codes, NEW p \in Players, HeardOf(p, c), UNCHANGED <<room, made>>
  PROVE  /\ ServerInv' /\ OnlyRoom(c)
         /\ heard[c] \subseteq heard'[c]
         /\ p \in Members(c) => p \in heard'[c]
<1> DEFINE h == IF p \in Members(c) THEN heard[c] \cup {p} ELSE heard[c]
<1>1. Becomes(c, room[c], h)
  BY DEF HeardOf, ServerInv, Becomes
<1>2. h \subseteq room[c].members /\ h \subseteq Players /\ heard[c] \subseteq h
  BY DEF ServerInv, Members
<1>3. RoomOK(room[c]) /\ (c > made => room[c] = NoRoom)
  BY DEF ServerInv
<1>4. p \in Members(c) => p \in h
  OBVIOUS
<1> HIDE DEF h
<1>5. ServerInv' /\ OnlyRoom(c) /\ heard'[c] = h
  BY <1>1, <1>2, <1>3, RoomChange
<1> QED
  BY <1>2, <1>4, <1>5

\* A call of a host that sets the status or turns a member out.
LEMMA HostCallEffect ==
  ASSUME ServerInv, NEW c \in Codes, NEW p \in Players, NEW allowed, NEW after,
         HostCall(p, c, allowed, after),
         allowed => /\ room[c] # NoRoom /\ after \in RoomType
                    /\ after.host = room[c].host /\ after.host \in after.members
                    /\ after.members \subseteq room[c].members
  PROVE  /\ ServerInv' /\ OnlyRoom(c)
         /\ heard'[c] = heard[c] \cap Members(c)'
         /\ \/ UNCHANGED room
            \/ allowed /\ Members(c)' = after.members /\ room'[c] = after
<1>1. RoomOK(room[c]) /\ heard[c] \subseteq room[c].members /\ heard[c] \subseteq Players
  BY DEF ServerInv, Members
<1>2. made' = made /\ heard' = [heard EXCEPT ![c] = heard[c] \cap Members(c)']
  BY DEF HostCall, ServerInv
<1>3. CASE UNCHANGED room
  <2>1. Members(c)' = Members(c)
    BY <1>3 DEF Members
  <2>2. heard' = heard
    BY <1>1, <1>2, <2>1 DEF ServerInv, Members
  <2>3. heard[c] = heard[c] \cap Members(c)'
    BY <1>1, <2>1 DEF Members
  <2> QED
    BY <1>2, <1>3, <2>2, <2>3, SameServer DEF server
<1>4. CASE allowed /\ room' = [room EXCEPT ![c] = after]
  <2>1. room'[c] = after /\ Members(c)' = after.members
    BY <1>4 DEF ServerInv, Members
  <2>2. heard' = [heard EXCEPT ![c] = heard[c] \cap after.members]
    BY <1>2, <2>1
  <2>3. RoomOK(after)
    BY <1>1, <1>4, SmallerRoom DEF RoomOK
  <2>4. ~(c > made)
    BY <1>4 DEF ServerInv
  <2>5. heard[c] \cap after.members \subseteq after.members /\ heard[c] \cap after.members \subseteq Players
    BY <1>1
  <2>6. Becomes(c, after, heard[c] \cap after.members)
    BY <1>2, <1>4, <2>2 DEF Becomes
  <2>7. ServerInv' /\ OnlyRoom(c) /\ heard'[c] = heard[c] \cap after.members
    BY <2>3, <2>4, <2>5, <2>6, RoomChange
  <2> QED
    BY <1>4, <2>1, <2>7
<1> QED
  BY <1>3, <1>4 DEF HostCall

-----------------------------------------------------------------------------
(* What a step of a console does *)

\* The other consoles are where they were.
OnlyClient(p) ==
  \A q \in Players : q # p =>
    /\ pc'[q] = pc[q] /\ want'[q] = want[q] /\ found'[q] = found[q]
    /\ copy'[q] = copy[q] /\ polled'[q] = polled[q]

\* Another console stays in its room, and heard of, unless it is turned out.
OthersStay(p) ==
  \A q \in Players : q # p =>
    /\ turnedOut[q] => turnedOut'[q]
    /\ \A c \in Codes :
         /\ q \in Members(c)' => q \in Members(c)
         /\ q \in heard[c] /\ q \in Members(c)' => q \in heard'[c]
         /\ q \in Members(c) /\ copy[q].code = c => q \in Members(c)' \/ turnedOut'[q]

\* p is in no room it does not hold, unless it was or its request was lost.
NotAstray(p) ==
  \A c \in Codes :
    p \in Members(c)' /\ copy'[p].code # c /\ ~(lost' # lost /\ pc[p] # "setting") =>
      p \in Members(c) /\ copy[p].code # c

\* What is open to p throughout is still to be tried.
StillToTry(p) ==
  \/ lost' # lost
  \/ pc[p] = "search" /\ Cardinality(Listed) > ListMax
  \/ \A c \in Codes : c \in steady[p] /\ OpenTo(c, p)' => c \in found'[p]

Outcome(p) ==
  /\ ServerInv' /\ ClientInv' /\ OnlyClient(p) /\ OthersStay(p)
  /\ CopyInv(p)' /\ SeatInv(p)' /\ NotAstray(p)
  /\ pc'[p] = "trying" => pc[p] # "menu" /\ StillToTry(p)

LEMMA LostStep ==
  ASSUME ClientInv, Lose \/ Answered
  PROVE  lost' \in 0 .. MaxLost /\ (Lose => lost' # lost)
<1>1. lost \in Nat /\ MaxLost \in Nat /\ lost <= MaxLost
  BY BoundsAssumption DEF ClientInv
<1>2. CASE Lose
  BY <1>1, <1>2 DEF Lose
<1>3. CASE Answered
  <2>1. lost' \in 0 .. MaxLost
    BY <1>3 DEF Answered, ClientInv
  <2>2. Lose => lost' # lost
    BY <1>1 DEF Lose
  <2> QED
    BY <2>1, <2>2
<1> QED
  BY <1>2, <1>3

LEMMA NoLobbyTyped == NoLobby \in LobbyType /\ NoLobby.code = 0 /\ NoLobby.role = "none"
BY DEF NoLobby, LobbyType

LEMMA SeatEffect ==
  ASSUME ClientInv, NEW p \in Players, NEW lobby \in LobbyType, Seat(p, lobby),
         lost' \in 0 .. MaxLost
  PROVE  /\ ClientInv' /\ OnlyClient(p)
         /\ pc'[p] = "room" /\ copy'[p] = lobby /\ polled'[p] = "no" /\ ~turnedOut'[p]
         /\ \A q \in Players : q # p => turnedOut'[q] = turnedOut[q]
<1>1. /\ pc' = [pc EXCEPT ![p] = "room"] /\ copy' = [copy EXCEPT ![p] = lobby]
      /\ found' = [found EXCEPT ![p] = {}] /\ want' = [want EXCEPT ![p] = DefaultMode]
      /\ polled' = [polled EXCEPT ![p] = "no"] /\ turnedOut' = [turnedOut EXCEPT ![p] = FALSE]
  BY DEF Seat
<1>2. ClientInv'
  BY <1>1, ModesAssumption DEF ClientInv
<1> QED
  BY <1>1, <1>2 DEF ClientInv, OnlyClient

LEMMA ReturnEffect ==
  ASSUME ClientInv, NEW p \in Players, Return(p), lost' \in 0 .. MaxLost
  PROVE  /\ ClientInv' /\ OnlyClient(p)
         /\ pc'[p] = "menu" /\ copy'[p] = NoLobby
         /\ \A q \in Players : q # p => turnedOut'[q] = turnedOut[q]
<1>1. /\ pc' = [pc EXCEPT ![p] = "menu"] /\ copy' = [copy EXCEPT ![p] = NoLobby]
      /\ found' = [found EXCEPT ![p] = {}] /\ want' = [want EXCEPT ![p] = DefaultMode]
      /\ polled' = [polled EXCEPT ![p] = "no"] /\ turnedOut' = [turnedOut EXCEPT ![p] = FALSE]
  BY DEF Return
<1>2. ClientInv'
  BY <1>1, ModesAssumption, NoLobbyTyped DEF ClientInv
<1> QED
  BY <1>1, <1>2 DEF ClientInv, OnlyClient

\* A console back in the menu holds no lobby.
LEMMA ReturnInv ==
  ASSUME NEW p \in Players, pc'[p] = "menu", copy'[p] = NoLobby
  PROVE  CopyInv(p)' /\ SeatInv(p)'
BY NoLobbyTyped DEF CopyInv, SeatInv, Sits, NoLobby

\* The lobby of an answer says whether the console is in the room.
LEMMA LobbyFacts ==
  ASSUME ServerInv, NEW c \in Codes, NEW p \in Players
  PROVE  /\ Lobby(c, p) \in LobbyType /\ Lobby(c, p).code = c
         /\ Lobby(c, p).role # "none" <=> p \in Members(c)
         /\ Lobby(c, p).role = "host" => Hosts(c, p)
<1>1. p \in Users /\ RoomOK(room[c])
  BY DEF Users, ServerInv
<1>2. Hosts(c, p) => p \in Members(c)
  BY <1>1, SomeRoom DEF Hosts, Members
<1> QED
  BY <1>2 DEF Lobby, LobbyType

LEMMA LobbyFactsPrimed ==
  ASSUME ServerInv', NEW c \in Codes, NEW p \in Players
  PROVE  /\ Lobby(c, p)' \in LobbyType /\ Lobby(c, p)'.code = c
         /\ Lobby(c, p)'.role # "none" <=> p \in Members(c)'
<1>1. p \in Users /\ RoomOK(room[c])'
  BY DEF Users, ServerInv
<1>2. room'[c].host = p => p \in room'[c].members
  <2>1. RoomOK(room'[c])
    BY <1>1 DEF RoomOK, NoRoom, RoomType
  <2> QED
    BY <1>1, <2>1, SomeRoom
<1> QED
  BY <1>2 DEF Lobby, LobbyType, Hosts, Members

\* A console that is seated in a room the server has put it in.
LEMMA SeatedInv ==
  ASSUME NEW p \in Players, NEW c \in Codes, pc'[p] = "room", copy'[p].code = c,
         copy'[p].role # "none", p \in Members(c)', polled'[p] = "no"
  PROVE  CopyInv(p)' /\ SeatInv(p)'
BY DEF CopyInv, SeatInv, Sits

LEMMA OthersStayBy ==
  ASSUME NEW p \in Players, NEW c \in Codes, OnlyRoom(c),
         \A q \in Players : q # p =>
           /\ turnedOut[q] => turnedOut'[q]
           /\ q \in Members(c)' <=> q \in Members(c)
           /\ q \in heard[c] => q \in heard'[c]
  PROVE  OthersStay(p)
<1> SUFFICES ASSUME NEW q \in Players, q # p, NEW d \in Codes
             PROVE  /\ q \in Members(d)' <=> q \in Members(d)
                    /\ q \in heard[d] => q \in heard'[d]
  BY DEF OthersStay
<1>1. CASE d = c
  BY <1>1
<1>2. CASE d # c
  BY <1>2 DEF OnlyRoom, Members
<1> QED
  BY <1>1, <1>2

\* Nobody comes or goes.
LEMMA NotAstrayBy ==
  ASSUME NEW p \in Players, \A c \in Codes : p \in Members(c)' => p \in Members(c),
         copy'[p].code = copy[p].code
  PROVE  NotAstray(p)
BY DEF NotAstray

LEMMA QuickMatchOutcome ==
  ASSUME Inv, NEW p \in Players, NEW mode \in Modes, QuickMatch(p, mode)
  PROVE  Outcome(p)
<1>1. /\ pc[p] = "menu" /\ pc' = [pc EXCEPT ![p] = "search"] /\ want' = [want EXCEPT ![p] = mode]
      /\ UNCHANGED <<server, found, copy, polled, turnedOut, lost>>
  BY DEF QuickMatch, history, Answered
<1>2. ClientInv' /\ OnlyClient(p) /\ pc'[p] = "search"
  BY <1>1 DEF Inv, ClientInv, OnlyClient
<1>3. /\ ServerInv'
      /\ \A c \in Codes : OnlyRoom(c) /\ room'[c] = room[c] /\ heard'[c] = heard[c]
  BY <1>1, SameServer DEF Inv
<1>4. \A c \in Codes : Members(c)' = Members(c)
  BY <1>3 DEF Members
<1>5. OthersStay(p) /\ NotAstray(p)
  BY <1>1, <1>3, <1>4 DEF OthersStay, NotAstray
<1>6. CopyInv(p)' /\ SeatInv(p)'
  <2>1. copy'[p] = NoLobby
    BY <1>1 DEF Inv, CopyInv
  <2> QED
    BY <1>2, <2>1, NoLobbyTyped DEF CopyInv, SeatInv, Sits
<1> QED
  BY <1>2, <1>3, <1>5, <1>6 DEF Outcome

LEMMA FindOutcome ==
  ASSUME Inv, NEW p \in Players, Find(p)
  PROVE  Outcome(p)
<1>1. /\ pc[p] = "search" /\ pc' = [pc EXCEPT ![p] = "trying"]
      /\ UNCHANGED <<server, want, copy, polled, turnedOut>>
      /\ Lose \/ Answered
  BY DEF Find, history
<1>2. \/ \E rows \in SUBSET Listed :
           /\ Cardinality(rows) <= ListMax
           /\ rows = Listed \/ Cardinality(rows) = ListMax
           /\ found' = [found EXCEPT ![p] = Joinable(rows, p)]
      \/ Lose /\ UNCHANGED found
  BY DEF Find
<1>3. lost' \in 0 .. MaxLost /\ (Lose => lost' # lost)
  BY <1>1, LostStep DEF Inv
<1>4. found' \in [Players -> SUBSET Codes] /\ \A q \in Players : q # p => found'[q] = found[q]
  BY <1>2 DEF Joinable, Listed, Inv, ClientInv
<1>5. ClientInv' /\ OnlyClient(p) /\ pc'[p] = "trying"
  BY <1>1, <1>3, <1>4 DEF Inv, ClientInv, OnlyClient
<1>6. /\ ServerInv'
      /\ \A c \in Codes : OnlyRoom(c) /\ room'[c] = room[c] /\ heard'[c] = heard[c]
  BY <1>1, SameServer DEF Inv
<1>7. \A c \in Codes : Members(c)' = Members(c)
  BY <1>6 DEF Members
<1>8. OthersStay(p) /\ NotAstray(p)
  BY <1>1, <1>6, <1>7 DEF OthersStay, NotAstray
<1>9. CopyInv(p)' /\ SeatInv(p)'
  <2>1. copy'[p] = NoLobby
    BY <1>1 DEF Inv, CopyInv
  <2> QED
    BY <1>5, <2>1, NoLobbyTyped DEF CopyInv, SeatInv, Sits
<1>10. StillToTry(p)
  <2>1. CASE Lose
    BY <1>3, <2>1 DEF StillToTry
  <2>2. ASSUME NEW rows \in SUBSET Listed,
               Cardinality(rows) <= ListMax, rows = Listed \/ Cardinality(rows) = ListMax,
               found' = [found EXCEPT ![p] = Joinable(rows, p)],
               ~(Cardinality(Listed) > ListMax)
        PROVE  StillToTry(p)
    <3>1. IsFiniteSet(Listed) /\ Cardinality(Listed) \in Nat
      <4>1. IsFiniteSet(Codes)
        BY FS_Interval, SizeIsPositive DEF Codes
      <4> QED
        BY <4>1, FS_Subset, FS_CardinalityType DEF Listed
    <3>2. Cardinality(rows) <= Cardinality(Listed) /\ (Cardinality(Listed) = Cardinality(rows) => Listed = rows)
      BY <3>1, FS_Subset
    <3>3. rows = Listed
      <4>1. CASE Cardinality(rows) = ListMax
        <5>1. Cardinality(Listed) = Cardinality(rows)
          BY <2>2, <3>1, <3>2, <4>1, SizeIsPositive
        <5> QED
          BY <3>2, <5>1
      <4> QED
        BY <2>2, <4>1
    <3>4. found'[p] = Joinable(Listed, p)
      BY <2>2, <3>3 DEF Inv, ClientInv
    <3>5. \A c \in Codes : OpenTo(c, p)' => OpenTo(c, p) /\ c \in Listed
      BY <1>1, <1>6, <1>7 DEF OpenTo, Listed
    <3> QED
      BY <3>4, <3>5 DEF StillToTry, Joinable
  <2> QED
    BY <1>1, <1>2, <2>1, <2>2 DEF StillToTry
<1> QED
  BY <1>1, <1>5, <1>6, <1>8, <1>9, <1>10 DEF Outcome

LEMMA JoinedOutcome ==
  ASSUME Inv, NEW p \in Players, NEW c \in Codes, pc[p] \in {"menu", "trying"},
         Admits(c, p), Entered(c, p), made' = made, lost' \in 0 .. MaxLost,
         \/ Seat(p, Lobby(c, p)')
         \/ Return(p) /\ lost' # lost
  PROVE  Outcome(p)
<1>1. p \in Users
  BY DEF Users
<1>2. /\ ServerInv' /\ OnlyRoom(c)
      /\ Members(c)' = Members(c) \cup {p}
      /\ heard'[c] = heard[c] \cup ({p} \cap Players)
  BY <1>1, EnteredEffect DEF Inv
<1>3. /\ Lobby(c, p)' \in LobbyType /\ Lobby(c, p)'.code = c
      /\ Lobby(c, p)'.role # "none"
  BY <1>2, LobbyFactsPrimed
<1>4. /\ ClientInv' /\ OnlyClient(p)
      /\ \/ /\ pc'[p] = "room" /\ copy'[p] = Lobby(c, p)' /\ polled'[p] = "no"
         \/ pc'[p] = "menu" /\ copy'[p] = NoLobby /\ lost' # lost
      /\ \A q \in Players : q # p => turnedOut'[q] = turnedOut[q]
  <2>1. ClientInv
    BY DEF Inv
  <2> HIDE DEF Inv
  <2>2. CASE Seat(p, Lobby(c, p)')
    BY <1>3, <2>1, <2>2, SeatEffect
  <2>3. CASE Return(p) /\ lost' # lost
    BY <2>1, <2>3, ReturnEffect
  <2> QED
    BY <2>2, <2>3
<1>5. OthersStay(p)
  BY <1>2, <1>4, OthersStayBy
<1>6. CopyInv(p)' /\ SeatInv(p)'
  <2>1. p \in Members(c)'
    BY <1>2
  <2> QED
    BY <1>3, <1>4, <2>1, SeatedInv, ReturnInv
<1>7. NotAstray(p)
  <2> SUFFICES ASSUME NEW d \in Codes, p \in Members(d)', copy'[p].code # d,
                      ~(lost' # lost /\ pc[p] # "setting")
               PROVE  p \in Members(d) /\ copy[p].code # d
    BY DEF NotAstray
  <2>1. copy'[p].code = c
    BY <1>3, <1>4
  <2>2. p \in Members(d)
    BY <1>2, <2>1 DEF OnlyRoom, Members
  <2>3. copy[p].code = 0
    BY NoLobbyTyped DEF Inv, CopyInv
  <2> QED
    BY <2>2, <2>3, CodesAreNat
<1> QED
  BY <1>2, <1>4, <1>5, <1>6, <1>7 DEF Outcome

\* Nothing happens in the rooms, and the console keeps its lobby.
LEMMA IdleOutcome ==
  ASSUME Inv, NEW p \in Players, UNCHANGED <<room, made, heard>>,
         ClientInv', OnlyClient(p), UNCHANGED <<copy, polled, turnedOut>>,
         \/ pc[p] \in {"menu", "search", "trying"} /\ pc'[p] \in {"menu", "search", "trying"}
         \/ pc[p] \in {"setting", "undoing"} /\ pc'[p] \in {"setting", "undoing"},
         pc'[p] = "trying" => pc[p] # "menu" /\ StillToTry(p)
  PROVE  Outcome(p)
<1>1. /\ ServerInv'
      /\ \A c \in Codes : OnlyRoom(c) /\ room'[c] = room[c] /\ heard'[c] = heard[c]
  BY SameServer DEF Inv, server
<1>2. \A c \in Codes : Members(c)' = Members(c)
  BY <1>1 DEF Members
<1>3. OthersStay(p) /\ NotAstray(p)
  BY <1>1, <1>2 DEF OthersStay, NotAstray
<1>4. copy'[p] = copy[p]
  OBVIOUS
<1>5. CopyInv(p)'
  BY <1>4 DEF Inv, CopyInv
<1>6. SeatInv(p)'
  BY DEF SeatInv, Sits
<1> QED
  BY <1>1, <1>3, <1>5, <1>6 DEF Outcome

LEMMA TryJoinOutcome ==
  ASSUME Inv, NEW p \in Players, NEW c \in Codes, TryJoin(p, c)
  PROVE  Outcome(p)
<1>1. pc[p] = "trying" /\ c \in found[p] /\ made' = made /\ (Lose \/ Answered)
  BY DEF TryJoin
<1>2. lost' \in 0 .. MaxLost /\ (Lose => lost' # lost)
  BY <1>1, LostStep DEF Inv
<1>3. CASE Admits(c, p) /\ Entered(c, p) /\ Seat(p, Lobby(c, p)')
  BY <1>1, <1>2, <1>3, JoinedOutcome
<1>4. CASE TryNext(p, c) /\ UNCHANGED <<room, heard>> /\ (Lose \/ ~Admits(c, p))
  <2>1. /\ found' = [found EXCEPT ![p] = @ \ {c}]
        /\ UNCHANGED <<pc, want, copy, polled, turnedOut>>
    BY <1>4 DEF TryNext, history
  <2>2. ClientInv' /\ OnlyClient(p) /\ found'[p] = found[p] \ {c}
    BY <1>2, <2>1 DEF Inv, ClientInv, OnlyClient
  <2>3. StillToTry(p)
    <3>1. CASE Lose
      BY <1>2, <3>1 DEF StillToTry
    <3>2. CASE ~Admits(c, p)
      <4>1. ~OpenTo(c, p)'
        <5>1. Members(c)' = Members(c)
          BY <1>4 DEF Members
        <5> QED
          BY <3>2, <5>1 DEF OpenTo, Admits
      <4>2. steady[p] \subseteq found[p]
        BY <1>1 DEF Inv, SteadyInv
      <4> QED
        BY <2>2, <4>1, <4>2 DEF StillToTry
    <3> QED
      BY <1>4, <3>1, <3>2
  <2> QED
    BY <1>1, <1>4, <2>1, <2>2, <2>3, IdleOutcome
<1>5. CASE TryNext(p, c) /\ Lose /\ Admits(c, p) /\ Entered(c, p)
  <2>1. /\ found' = [found EXCEPT ![p] = @ \ {c}]
        /\ UNCHANGED <<pc, want, copy, polled, turnedOut>>
    BY <1>5 DEF TryNext, history
  <2>2. ClientInv' /\ OnlyClient(p)
    BY <1>2, <2>1 DEF Inv, ClientInv, OnlyClient
  <2>3. p \in Users
    BY DEF Users
  <2>4. /\ ServerInv' /\ OnlyRoom(c)
        /\ Members(c)' = Members(c) \cup {p}
        /\ heard'[c] = heard[c] \cup ({p} \cap Players)
    BY <1>1, <1>5, <2>3, EnteredEffect DEF Inv
  <2>5. OthersStay(p)
    BY <2>1, <2>4, OthersStayBy
  <2>6. CopyInv(p)' /\ SeatInv(p)'
    <3>1. copy'[p] = NoLobby /\ pc'[p] = "trying"
      BY <1>1, <2>1 DEF Inv, CopyInv
    <3> QED
      BY <3>1, NoLobbyTyped DEF CopyInv, SeatInv, Sits
  <2>7. NotAstray(p) /\ StillToTry(p)
    BY <1>1, <1>2, <1>5 DEF NotAstray, StillToTry
  <2> QED
    BY <1>1, <2>2, <2>4, <2>5, <2>6, <2>7 DEF Outcome
<1> QED
  BY <1>3, <1>4, <1>5 DEF TryJoin

\* The room that is made has a code of its own, and only p in it.
LEMMA MadeRoom ==
  ASSUME Inv, NEW p \in Players, Made(p)
  PROVE  \E n \in Codes :
           /\ n = made + 1 /\ ServerInv' /\ OnlyRoom(n)
           /\ room[n].members = {} /\ room'[n].members = {p}
           /\ heard'[n] = {p} /\ heard[n] = {}
<1>1. ServerInv
  BY DEF Inv
<1>2. /\ ServerInv' /\ made' \in Codes /\ OnlyRoom(made')
      /\ made' = made + 1
      /\ Members(made') = {}
      /\ room'[made'].members = {p} /\ heard'[made'] = {p}
  BY <1>1, MadeEffect
<1>3. PICK n \in Codes : n = made'
  BY <1>2
<1>4. OnlyRoom(n) /\ n = made + 1 /\ room'[n].members = {p} /\ heard'[n] = {p}
  BY <1>2, <1>3 DEF OnlyRoom
<1>5. room[n].members = {}
  BY <1>2, <1>3 DEF Members
<1>6. heard[n] = {}
  BY <1>1, <1>5 DEF ServerInv, Members
<1> QED
  BY <1>2, <1>4, <1>5, <1>6

\* Nobody else sees the room that is made.
LEMMA MadeOthers ==
  ASSUME NEW p \in Players, NEW n \in Codes, OnlyRoom(n), room[n].members = {},
         room'[n].members = {p}, heard[n] = {},
         \A q \in Players : q # p => turnedOut'[q] = turnedOut[q]
  PROVE  OthersStay(p)
<1>1. \A q \in Players : q # p => (q \in Members(n)' <=> q \in Members(n))
  BY DEF Members
<1>2. \A q \in Players : q # p => (q \in heard[n] => q \in heard'[n])
  OBVIOUS
<1>3. \A q \in Players : q # p => (turnedOut[q] => turnedOut'[q])
  OBVIOUS
<1> QED
  BY <1>1, <1>2, <1>3, OthersStayBy

LEMMA CreateOutcome ==
  ASSUME Inv, NEW p \in Players, Create(p)
  PROVE  Outcome(p)
<1>1. pc[p] = "trying" /\ (Lose \/ Answered) /\ copy[p] = NoLobby
  BY DEF Create, Inv, CopyInv
<1>2. lost' \in 0 .. MaxLost /\ (Lose => lost' # lost)
  BY <1>1, LostStep DEF Inv
<1>3. ServerInv /\ ClientInv
  BY DEF Inv
<1>4. ASSUME Made(p), NEW n \in Codes, n = made + 1, ServerInv', OnlyRoom(n),
             room[n].members = {}, room'[n].members = {p}, heard'[n] = {p}, heard[n] = {},
             \/ Seat(p, NewLobby)
             \/ /\ pc' = [pc EXCEPT ![p] = "setting"]
                /\ copy' = [copy EXCEPT ![p] = NewLobby]
                /\ UNCHANGED <<want, found, history>>
             \/ Return(p) /\ Lose
      PROVE  Outcome(p)
  <2>1. NewLobby \in LobbyType /\ NewLobby.code = n /\ NewLobby.role = "host"
    BY <1>4 DEF NewLobby, LobbyType
  <2>2. /\ ClientInv' /\ OnlyClient(p)
        /\ \/ pc'[p] = "room" /\ copy'[p] = NewLobby /\ polled'[p] = "no"
           \/ pc'[p] = "setting" /\ copy'[p] = NewLobby
           \/ pc'[p] = "menu" /\ copy'[p] = NoLobby /\ lost' # lost
        /\ \A q \in Players : q # p => turnedOut'[q] = turnedOut[q]
    <3>1. CASE Seat(p, NewLobby)
      BY <1>2, <1>3, <2>1, <3>1, SeatEffect
    <3>2. CASE /\ pc' = [pc EXCEPT ![p] = "setting"]
               /\ copy' = [copy EXCEPT ![p] = NewLobby]
               /\ UNCHANGED <<want, found, history>>
      BY <1>2, <1>3, <2>1, <3>2 DEF ClientInv, OnlyClient, history
    <3>3. CASE Return(p) /\ Lose
      BY <1>2, <1>3, <3>3, ReturnEffect
    <3> QED
      BY <1>4, <3>1, <3>2, <3>3
  <2>3. OthersStay(p)
    BY <1>4, <2>2, MadeOthers
  <2>4. CopyInv(p)' /\ SeatInv(p)'
    <3>1. p \in Members(n)'
      BY <1>4 DEF Members
    <3>2. CASE pc'[p] = "room" /\ copy'[p] = NewLobby /\ polled'[p] = "no"
      BY <2>1, <3>1, <3>2, SeatedInv
    <3>3. CASE pc'[p] = "setting" /\ copy'[p] = NewLobby
      BY <2>1, <3>3 DEF CopyInv, SeatInv, Sits
    <3>4. CASE pc'[p] = "menu" /\ copy'[p] = NoLobby
      BY <3>4, ReturnInv
    <3> QED
      BY <2>2, <3>2, <3>3, <3>4
  <2>5. NotAstray(p)
    <3> SUFFICES ASSUME NEW d \in Codes, p \in Members(d)', copy'[p].code # d,
                        ~(lost' # lost /\ pc[p] # "setting")
                 PROVE  p \in Members(d) /\ copy[p].code # d
      BY DEF NotAstray
    <3>1. d # n
      BY <1>1, <2>1, <2>2
    <3>2. p \in Members(d)
      BY <1>4, <3>1 DEF OnlyRoom, Members
    <3>3. copy[p].code = 0
      BY <1>1, NoLobbyTyped
    <3> QED
      BY <3>2, <3>3, CodesAreNat
  <2>6. pc'[p] # "trying"
    BY <2>2
  <2> QED
    BY <1>4, <2>2, <2>3, <2>4, <2>5, <2>6 DEF Outcome
<1>5. CASE Return(p) /\ UNCHANGED server
  <2>1. /\ ClientInv' /\ OnlyClient(p)
        /\ pc'[p] = "menu" /\ copy'[p] = NoLobby
        /\ \A q \in Players : q # p => turnedOut'[q] = turnedOut[q]
    BY <1>2, <1>3, <1>5, ReturnEffect
  <2>2. /\ ServerInv'
        /\ \A c \in Codes : OnlyRoom(c) /\ room'[c] = room[c] /\ heard'[c] = heard[c]
    BY <1>3, <1>5, SameServer
  <2>3. \A c \in Codes : Members(c)' = Members(c)
    BY <2>2 DEF Members
  <2>4. OthersStay(p) /\ NotAstray(p)
    BY <1>1, <2>1, <2>2, <2>3 DEF OthersStay, NotAstray
  <2>5. CopyInv(p)' /\ SeatInv(p)'
    BY <2>1, ReturnInv
  <2> QED
    BY <2>1, <2>2, <2>4, <2>5 DEF Outcome
<1>6. \/ /\ Made(p)
         /\ \/ Seat(p, NewLobby)
            \/ /\ pc' = [pc EXCEPT ![p] = "setting"]
               /\ copy' = [copy EXCEPT ![p] = NewLobby]
               /\ UNCHANGED <<want, found, history>>
            \/ Return(p) /\ Lose
      \/ Return(p) /\ UNCHANGED server
  BY DEF Create
<1>7. CASE Made(p)
  <2>1. PICK n \in Codes :
           /\ n = made + 1 /\ ServerInv' /\ OnlyRoom(n)
           /\ room[n].members = {} /\ room'[n].members = {p}
           /\ heard'[n] = {p} /\ heard[n] = {}
    BY <1>7, MadeRoom
  <2> QED
    BY <1>4, <1>5, <1>6, <1>7, <2>1
<1> QED
  BY <1>5, <1>6, <1>7

\* Nobody comes or goes, and nobody is forgotten.
LEMMA SameMembers ==
  ASSUME NEW p \in Players, \A c \in Codes : Members(c)' = Members(c), heard' = heard,
         \A q \in Players : q # p => turnedOut'[q] = turnedOut[q]
  PROVE  /\ OthersStay(p)
         /\ copy'[p].code = copy[p].code => NotAstray(p)
BY DEF OthersStay, NotAstray

LEMMA ModedEffect ==
  ASSUME ServerInv, NEW p \in Players, NEW c \in Codes, NEW mode \in Modes, MaySet(p, c),
         Moded(c, mode), UNCHANGED <<made, heard>>
  PROVE  /\ ServerInv' /\ p \in Members(c)
         /\ \A d \in Codes : Members(d)' = Members(d)
<1> DEFINE r == [room[c] EXCEPT !.mode = mode]
<1>1. RoomOK(room[c]) /\ p \in Users
  BY DEF ServerInv, Users
<1>2. p \in Members(c) /\ room[c] # NoRoom
  BY <1>1, SomeRoom, NoRoomIsOK DEF MaySet, Hosts, Members
<1>3. r \in RoomType /\ r.members = room[c].members /\ r.host = room[c].host
  BY <1>1 DEF RoomOK, RoomType
<1>4. room' = [room EXCEPT ![c] = r]
  BY DEF Moded
<1> HIDE DEF r
<1>5. ServerInv' /\ OnlyRoom(c) /\ Members(c)' = Members(c)
  BY <1>2, <1>3, <1>4, AttributeEffect
<1>6. \A d \in Codes : Members(d)' = Members(d)
  BY <1>5 DEF OnlyRoom, Members
<1> QED
  BY <1>2, <1>5, <1>6

LEMMA SetModeOutcome ==
  ASSUME Inv, NEW p \in Players, NEW c \in Codes, SetMode(p, c)
  PROVE  Outcome(p)
<1>1. pc[p] = "setting" /\ copy[p].code = c /\ (Lose \/ Answered) /\ UNCHANGED <<made, heard>>
  BY DEF SetMode
<1>2. lost' \in 0 .. MaxLost /\ (Lose => lost' # lost)
  BY <1>1, LostStep DEF Inv
<1>3. ServerInv /\ ClientInv /\ want[p] \in Modes
  BY DEF Inv, ClientInv
<1>4. CASE MaySet(p, c) /\ Moded(c, want[p]) /\ Seat(p, Lobby(c, p)')
  <2>1. ServerInv' /\ p \in Members(c) /\ \A d \in Codes : Members(d)' = Members(d)
    BY <1>1, <1>3, <1>4, ModedEffect
  <2>2. p \in Members(c)'
    BY <2>1
  <2>3. /\ Lobby(c, p)' \in LobbyType /\ Lobby(c, p)'.code = c
        /\ Lobby(c, p)'.role # "none"
    BY <2>1, <2>2, LobbyFactsPrimed
  <2>4. /\ ClientInv' /\ OnlyClient(p)
        /\ pc'[p] = "room" /\ copy'[p] = Lobby(c, p)' /\ polled'[p] = "no"
        /\ \A q \in Players : q # p => turnedOut'[q] = turnedOut[q]
    BY <1>2, <1>3, <1>4, <2>3, SeatEffect
  <2>5. copy'[p].code = copy[p].code
    BY <1>1, <2>3, <2>4
  <2>6. OthersStay(p) /\ NotAstray(p)
    BY <1>1, <2>1, <2>4, <2>5, SameMembers
  <2>7. CopyInv(p)' /\ SeatInv(p)'
    BY <2>2, <2>3, <2>4, SeatedInv
  <2> QED
    BY <2>1, <2>4, <2>6, <2>7 DEF Outcome
<1>5. CASE SetFailed(p) /\ UNCHANGED room
  <2>1. /\ pc' = [pc EXCEPT ![p] = "undoing"]
        /\ UNCHANGED <<want, found, copy, polled, turnedOut>>
    BY <1>5 DEF SetFailed, history
  <2>2. ClientInv' /\ OnlyClient(p) /\ pc'[p] = "undoing"
    BY <1>2, <1>3, <2>1 DEF ClientInv, OnlyClient
  <2> QED
    BY <1>1, <1>5, <2>1, <2>2, IdleOutcome
<1>6. CASE SetFailed(p) /\ MaySet(p, c) /\ Moded(c, want[p])
  <2>1. /\ pc' = [pc EXCEPT ![p] = "undoing"]
        /\ UNCHANGED <<want, found, copy, polled, turnedOut>>
    BY <1>6 DEF SetFailed, history
  <2>2. ClientInv' /\ OnlyClient(p) /\ pc'[p] = "undoing"
    BY <1>2, <1>3, <2>1 DEF ClientInv, OnlyClient
  <2>3. ServerInv' /\ \A d \in Codes : Members(d)' = Members(d)
    BY <1>1, <1>3, <1>6, ModedEffect
  <2>4. OthersStay(p) /\ NotAstray(p)
    BY <1>1, <2>1, <2>3, SameMembers
  <2>5. CopyInv(p)'
    BY <1>1, <2>1, <2>2 DEF Inv, CopyInv
  <2>6. SeatInv(p)'
    BY <2>2 DEF SeatInv, Sits
  <2> QED
    BY <2>2, <2>3, <2>4, <2>5, <2>6 DEF Outcome
<1> QED
  BY <1>4, <1>5, <1>6 DEF SetMode

LEMMA LeaveOutcome ==
  ASSUME Inv, NEW p \in Players, NEW c \in Codes, Leave(p, c)
  PROVE  Outcome(p)
<1>1. /\ pc[p] \in {"undoing", "room"} /\ copy[p].code = c /\ Return(p)
      /\ (Lose \/ Answered) /\ made' = made
  BY DEF Leave
<1>2. lost' \in 0 .. MaxLost /\ (Lose => lost' # lost)
  BY <1>1, LostStep DEF Inv
<1>3. ServerInv /\ ClientInv
  BY DEF Inv
<1>4. /\ ClientInv' /\ OnlyClient(p)
      /\ pc'[p] = "menu" /\ copy'[p] = NoLobby
      /\ \A q \in Players : q # p => turnedOut'[q] = turnedOut[q]
  BY <1>1, <1>2, <1>3, ReturnEffect
<1>5. CopyInv(p)' /\ SeatInv(p)'
  BY <1>4, ReturnInv
<1>6. CASE Left(c, p)
  <2>1. /\ ServerInv' /\ OnlyRoom(c)
        /\ Members(c)' = Members(c) \ {p}
        /\ heard'[c] = heard[c] \ {p}
    BY <1>1, <1>3, <1>6, LeftEffect
  <2>2. OthersStay(p)
    BY <1>4, <2>1, OthersStayBy
  <2>3. NotAstray(p)
    <3> SUFFICES ASSUME NEW d \in Codes, p \in Members(d)'
                 PROVE  p \in Members(d) /\ copy[p].code # d
      BY DEF NotAstray
    <3>1. d # c
      BY <2>1
    <3> QED
      BY <1>1, <2>1, <3>1 DEF OnlyRoom, Members
  <2> QED
    BY <1>4, <1>5, <2>1, <2>2, <2>3 DEF Outcome
<1>7. CASE UNCHANGED <<room, heard>> /\ Lose
  <2>1. ServerInv'
    BY <1>1, <1>3, <1>7, SameServer DEF server
  <2>2. \A d \in Codes : Members(d)' = Members(d)
    BY <1>7 DEF Members
  <2>3. OthersStay(p)
    BY <1>4, <1>7, <2>2, SameMembers
  <2>4. NotAstray(p)
    BY <1>1, <1>2, <1>7 DEF NotAstray
  <2> QED
    BY <1>4, <1>5, <2>1, <2>3, <2>4 DEF Outcome
<1> QED
  BY <1>6, <1>7 DEF Leave

LEMMA JoinByCodeOutcome ==
  ASSUME Inv, NEW p \in Players, NEW c \in Codes, JoinByCode(p, c)
  PROVE  Outcome(p)
<1>1. /\ pc[p] = "menu" /\ Admits(c, p) /\ Entered(c, p) /\ made' = made
      /\ Lose \/ Answered
      /\ Seat(p, Lobby(c, p)') \/ (Return(p) /\ Lose)
  BY DEF JoinByCode
<1>2. lost' \in 0 .. MaxLost /\ (Lose => lost' # lost)
  BY <1>1, LostStep DEF Inv
<1> QED
  BY <1>1, <1>2, JoinedOutcome

LEMMA NoticeGoneOutcome ==
  ASSUME Inv, NEW p \in Players, NoticeGone(p)
  PROVE  Outcome(p)
<1>1. pc[p] = "room" /\ ~Sits(p) /\ Return(p) /\ UNCHANGED server /\ Answered
  BY DEF NoticeGone
<1>2. lost' \in 0 .. MaxLost
  BY <1>1, LostStep DEF Inv
<1>3. ServerInv /\ ClientInv
  BY DEF Inv
<1>4. /\ ClientInv' /\ OnlyClient(p)
      /\ pc'[p] = "menu" /\ copy'[p] = NoLobby
      /\ \A q \in Players : q # p => turnedOut'[q] = turnedOut[q]
  BY <1>1, <1>2, <1>3, ReturnEffect
<1>5. ServerInv' /\ UNCHANGED <<room, heard>>
  BY <1>1, <1>3, SameServer DEF server
<1>6. \A c \in Codes : Members(c)' = Members(c)
  BY <1>5 DEF Members
<1>7. OthersStay(p)
  BY <1>4, <1>5, <1>6, SameMembers
<1>8. NotAstray(p)
  <2>1. copy[p].role = "none"
    BY <1>1 DEF Sits
  <2>2. \A c \in Codes : copy[p].code = c => p \notin Members(c)
    BY <1>1, <2>1 DEF Inv, SeatInv
  <2> QED
    BY <1>6, <2>2 DEF NotAstray
<1> QED
  BY <1>4, <1>5, <1>7, <1>8, ReturnInv DEF Outcome

\* A console stays in the room it is in, with the lobby it had or the one it
\* was answered.
LEMMA StayOutcome ==
  ASSUME Inv, NEW p \in Players, NEW c \in Codes, Sits(p), copy[p].code = c,
         UNCHANGED <<pc, want, found>>, ServerInv', ClientInv', OnlyClient(p), OthersStay(p),
         polled'[p] = "yes" => polled[p] = "yes", turnedOut'[p] = turnedOut[p],
         OnlyRoom(c), p \in Members(c)' <=> p \in Members(c),
         p \in heard[c] /\ p \in Members(c)' => p \in heard'[c],
         copy'[p] = copy[p] \/ copy'[p] = Lobby(c, p)'
  PROVE  Outcome(p)
<1>1. pc[p] = "room" /\ pc'[p] = "room" /\ copy[p].role # "none"
  BY DEF Sits
<1>2. copy'[p].code = c
  BY LobbyFactsPrimed
<1>3. copy'[p].role = "none" => p \notin Members(c)'
  BY <1>1, LobbyFactsPrimed
<1>4. copy'[p].role # "none" /\ ~turnedOut'[p] => p \in Members(c)'
  BY DEF Inv, SeatInv
<1>5. ~turnedOut'[p] /\ polled'[p] = "yes" /\ p \in Members(c)' => p \in heard'[c]
  BY DEF Inv, SeatInv
<1>6. CopyInv(p)'
  BY <1>1, <1>2 DEF CopyInv
<1>7. SeatInv(p)'
  BY <1>2, <1>3, <1>4, <1>5 DEF SeatInv, Sits
<1>8. NotAstray(p)
  <2>1. \A d \in Codes : p \in Members(d)' => p \in Members(d)
    BY DEF OnlyRoom, Members
  <2> QED
    BY <1>2, <2>1, NotAstrayBy
<1> QED
  BY <1>1, <1>6, <1>7, <1>8 DEF Outcome

\* A poll is answered; the server has heard of a member if the session went along.
LEMMA PollAnswered ==
  ASSUME Inv, NEW p \in Players, NEW c \in Codes, Sits(p), copy[p].code = c,
         UNCHANGED <<room, made, pc, want, found, turnedOut, lost>>,
         HeardOf(p, c) \/ UNCHANGED heard, Polled(p, c), NEW v \in {"unheard", "yes"},
         polled' = [polled EXCEPT ![p] = v],
         v = "yes" => polled[p] = "yes" \/ HeardOf(p, c)
  PROVE  Outcome(p)
<1>1. ServerInv /\ ClientInv /\ pc[p] = "room"
  BY DEF Inv, Sits
<1>2. \A d \in Codes : Members(d)' = Members(d)
  BY DEF Members
<1>3. ServerInv' /\ OnlyRoom(c) /\ heard[c] \subseteq heard'[c]
  <2>1. CASE HeardOf(p, c)
    BY <1>1, <2>1, HeardOfEffect
  <2>2. CASE UNCHANGED heard
    BY <1>1, <2>2, SameServer DEF server
  <2> QED
    BY <2>1, <2>2
<1>4. /\ Lobby(c, p) \in LobbyType /\ Lobby(c, p).code = c
      /\ Lobby(c, p).role # "none" <=> p \in Members(c)
  BY <1>1, LobbyFacts
<1>5. PICK lobby \in LobbyType :
        /\ copy' = [copy EXCEPT ![p] = lobby]
        /\ \/ Members(c) = {} /\ lobby = NoLobby
           \/ lobby = Lobby(c, p)
  <2>1. CASE Members(c) = {}
    BY <2>1, NoLobbyTyped DEF Polled
  <2>2. CASE Members(c) # {}
    BY <1>4, <2>2 DEF Polled
  <2> QED
    BY <2>1, <2>2
<1>6. /\ ClientInv' /\ OnlyClient(p)
      /\ copy'[p] = lobby /\ polled'[p] = v /\ pc'[p] = "room"
  BY <1>1, <1>5 DEF ClientInv, OnlyClient
<1>7. OthersStay(p)
  BY <1>2, <1>3, OthersStayBy
<1>8. lobby.role # "none" => lobby.code = c /\ p \in Members(c)
  BY <1>4, <1>5, NoLobbyTyped
<1>9. CopyInv(p)'
  BY <1>6, <1>8 DEF CopyInv
<1>10. SeatInv(p)'
  <2>1. Sits(p)' => p \in Members(c)' /\ copy'[p].code = c
    BY <1>2, <1>6, <1>8 DEF Sits
  <2>2. p \in Members(c) /\ ~turnedOut[p] /\ v = "yes" => p \in heard'[c]
    <3>1. HeardOf(p, c) /\ p \in Members(c) => p \in heard'[c]
      BY <1>1, HeardOfEffect
    <3>2. ~turnedOut[p] /\ polled[p] = "yes" => p \in heard[c]
      BY DEF Inv, SeatInv
    <3> QED
      BY <1>3, <3>1, <3>2
  <2>3. lobby.role = "none" => \A d \in Codes : lobby.code = d => p \notin Members(d)'
    BY <1>2, <1>4, <1>5, NoLobbyTyped, CodesAreNat
  <2> QED
    BY <1>2, <1>6, <2>1, <2>2, <2>3 DEF SeatInv
<1>11. NotAstray(p)
  <2> SUFFICES ASSUME NEW d \in Codes, p \in Members(d)', copy'[p].code # d
               PROVE  p \in Members(d) /\ copy[p].code # d
    BY DEF NotAstray
  <2>1. p \in Members(d)
    BY <1>2
  <2>2. d # c
    BY <1>4, <1>5, <1>6, <2>1
  <2> QED
    BY <2>1, <2>2
<1> QED
  BY <1>3, <1>6, <1>7, <1>9, <1>10, <1>11 DEF Outcome

\* A poll is not answered; the server may have heard of a member all the same.
LEMMA PollUnanswered ==
  ASSUME Inv, NEW p \in Players, NEW c \in Codes, Sits(p), copy[p].code = c, Lose,
         UNCHANGED <<room, made, pc, want, found, copy, turnedOut>>,
         HeardOf(p, c) \/ UNCHANGED heard,
         polled' = [polled EXCEPT ![p] = IF @ = "yes" THEN @ ELSE "unheard"]
  PROVE  Outcome(p)
<1>1. lost' \in 0 .. MaxLost
  BY LostStep DEF Inv
<1>2. ServerInv /\ ClientInv
  BY DEF Inv
<1>3. \A d \in Codes : Members(d)' = Members(d)
  BY DEF Members
<1>4. ServerInv' /\ OnlyRoom(c) /\ heard[c] \subseteq heard'[c]
  <2>1. CASE HeardOf(p, c)
    BY <1>2, <2>1, HeardOfEffect
  <2>2. CASE UNCHANGED heard
    BY <1>2, <2>2, SameServer DEF server
  <2> QED
    BY <2>1, <2>2
<1>5. ClientInv' /\ OnlyClient(p) /\ (polled'[p] = "yes" => polled[p] = "yes")
  BY <1>1, <1>2 DEF ClientInv, OnlyClient
<1>6. OthersStay(p)
  BY <1>3, <1>4, OthersStayBy
<1>7. /\ turnedOut'[p] = turnedOut[p] /\ copy'[p] = copy[p]
      /\ p \in Members(c)' <=> p \in Members(c)
      /\ p \in heard[c] /\ p \in Members(c)' => p \in heard'[c]
  BY <1>3, <1>4
<1> QED
  BY <1>4, <1>5, <1>6, <1>7, StayOutcome

LEMMA PollOutcome ==
  ASSUME Inv, NEW p \in Players, NEW c \in Codes, Poll(p, c)
  PROVE  Outcome(p)
<1>1. CASE /\ HeardOf(p, c) /\ Polled(p, c) /\ Answered
           /\ polled' = [polled EXCEPT ![p] = "yes"]
  BY <1>1, PollAnswered DEF Poll, Answered
<1>2. CASE /\ Lose /\ (HeardOf(p, c) \/ UNCHANGED heard) /\ UNCHANGED copy
           /\ polled' = [polled EXCEPT ![p] = IF @ = "yes" THEN @ ELSE "unheard"]
  BY <1>2, PollUnanswered DEF Poll
<1> QED
  BY <1>1, <1>2 DEF Poll

LEMMA GetOutcome ==
  ASSUME Inv, NEW p \in Players, NEW c \in Codes, Get(p, c)
  PROVE  Outcome(p)
<1>1. CASE Polled(p, c) /\ Answered
  <2>1. CASE polled[p] = "yes"
    BY <1>1, <2>1, PollAnswered DEF Get, Answered
  <2>2. CASE polled[p] # "yes"
    BY <1>1, <2>2, PollAnswered DEF Get, Answered
  <2> QED
    BY <2>1, <2>2
<1>2. CASE UNCHANGED copy /\ Lose
  BY <1>2, PollUnanswered DEF Get
<1> QED
  BY <1>1, <1>2 DEF Get

LEMMA HostCallOutcome ==
  ASSUME Inv, NEW p \in Players, NEW c \in Codes, NEW allowed, NEW after,
         HostCall(p, c, allowed, after),
         allowed => /\ room[c] # NoRoom /\ after \in RoomType
                    /\ after.host = room[c].host /\ after.host \in after.members
                    /\ after.members \subseteq room[c].members
                    /\ p \in room[c].members => p \in after.members,
         turnedOut' \in [Players -> BOOLEAN], turnedOut'[p] = turnedOut[p],
         \A q \in Players : q # p =>
           /\ turnedOut[q] => turnedOut'[q]
           /\ q \in Members(c) /\ copy[q].code = c => q \in Members(c)' \/ turnedOut'[q]
  PROVE  Outcome(p)
<1>1. /\ pc[p] = "room" /\ copy[p] = [code |-> c, role |-> "host"]
      /\ Lose \/ Answered
      /\ copy' = [copy EXCEPT ![p] = Lobby(c, p)'] \/ UNCHANGED copy
      /\ UNCHANGED <<pc, want, found, polled>>
  BY DEF HostCall
<1>2. Sits(p) /\ copy[p].code = c
  BY <1>1 DEF Sits
<1>3. ServerInv /\ ClientInv
  BY DEF Inv
<1>4. /\ ServerInv' /\ OnlyRoom(c)
      /\ heard'[c] = heard[c] \cap Members(c)'
      /\ \/ UNCHANGED room
         \/ allowed /\ Members(c)' = after.members /\ room'[c] = after
  BY <1>3, HostCallEffect
<1>5. Members(c)' \subseteq Members(c) /\ (p \in Members(c)' <=> p \in Members(c))
  BY <1>4 DEF Members
<1>6. lost' \in 0 .. MaxLost
  BY <1>1, <1>3, LostStep
<1>7. PICK lobby \in LobbyType :
        /\ copy' = [copy EXCEPT ![p] = lobby]
        /\ lobby = copy[p] \/ lobby = Lobby(c, p)'
  <2>1. CASE UNCHANGED copy
    <3>1. copy[p] \in LobbyType /\ copy' = [copy EXCEPT ![p] = copy[p]]
      BY <1>3, <2>1 DEF ClientInv
    <3> QED
      BY <3>1
  <2>2. CASE copy' = [copy EXCEPT ![p] = Lobby(c, p)']
    <3>1. Lobby(c, p)' \in LobbyType
      BY <1>4, LobbyFactsPrimed
    <3> QED
      BY <2>2, <3>1
  <2> QED
    BY <1>1, <2>1, <2>2
<1>8. ClientInv' /\ OnlyClient(p) /\ copy'[p] = lobby
  BY <1>1, <1>3, <1>6, <1>7 DEF ClientInv, OnlyClient
<1>9. OthersStay(p)
  <2> SUFFICES ASSUME NEW q \in Players, q # p, NEW d \in Codes
               PROVE  /\ q \in Members(d)' => q \in Members(d)
                      /\ q \in heard[d] /\ q \in Members(d)' => q \in heard'[d]
                      /\ q \in Members(d) /\ copy[q].code = d => q \in Members(d)' \/ turnedOut'[q]
    BY DEF OthersStay
  <2>1. CASE d = c
    BY <1>4, <1>5, <2>1
  <2>2. CASE d # c
    BY <1>4, <2>2 DEF OnlyRoom, Members
  <2> QED
    BY <2>1, <2>2
<1>10. p \in heard[c] /\ p \in Members(c)' => p \in heard'[c]
  BY <1>4
<1>11. copy'[p] = copy[p] \/ copy'[p] = Lobby(c, p)'
  BY <1>7, <1>8
<1>12. polled'[p] = polled[p]
  BY <1>1
<1> QED
  BY <1>1, <1>2, <1>4, <1>5, <1>8, <1>9, <1>10, <1>11, <1>12, StayOutcome

\* The room whose mode or status a console may set is there, and has it in.
LEMMA HostIsIn ==
  ASSUME ServerInv, NEW p \in Players, NEW c \in Codes, MaySet(p, c)
  PROVE  /\ room[c] # NoRoom /\ room[c] \in RoomType /\ room[c].host = p
         /\ p \in room[c].members
<1>1. RoomOK(room[c]) /\ p \in Users /\ room[c].host = p
  BY DEF ServerInv, Users, MaySet, Hosts
<1>2. p \in room[c].members
  BY <1>1, SomeRoom
<1> QED
  BY <1>1, <1>2, NoRoomIsOK DEF RoomOK

LEMMA StartOutcome ==
  ASSUME Inv, NEW p \in Players, NEW c \in Codes, Start(p, c)
  PROVE  Outcome(p)
<1> DEFINE may == MaySet(p, c) /\ (room[c].mode = DefaultMode \/ Cardinality(Members(c)) > 1)
           after == [room[c] EXCEPT !.status = "playing"]
<1>1. HostCall(p, c, may, after) /\ UNCHANGED turnedOut
  BY DEF Start
<1>2. ServerInv /\ ClientInv
  BY DEF Inv
<1>3. may => /\ room[c] # NoRoom /\ room[c] \in RoomType /\ room[c].host = p
             /\ p \in room[c].members
  BY <1>2, HostIsIn
<1>4. room[c] \in RoomType => /\ after \in RoomType /\ after.members = room[c].members
                              /\ after.host = room[c].host
  BY DEF RoomType
<1>5. \A q \in Players : q \in Members(c) => q \in Members(c)'
  <2>1. room[c] \in RoomType /\ room \in [Codes -> RoomType]
    BY <1>2 DEF ServerInv
  <2>2. room' = [room EXCEPT ![c] = after] \/ room' = room
    BY <1>1 DEF HostCall
  <2>3. room'[c] = after \/ room'[c] = room[c]
    BY <2>1, <2>2
  <2> HIDE DEF after
  <2> QED
    BY <1>4, <2>1, <2>3 DEF Members
<1> HIDE DEF may, after
<1>6. turnedOut' \in [Players -> BOOLEAN]
  BY <1>1, <1>2 DEF ClientInv
<1>7. may => /\ room[c] # NoRoom /\ after \in RoomType
             /\ after.host = room[c].host /\ after.host \in after.members
             /\ after.members \subseteq room[c].members
             /\ p \in room[c].members => p \in after.members
  BY <1>3, <1>4
<1>8. turnedOut'[p] = turnedOut[p] /\ \A q \in Players : turnedOut[q] => turnedOut'[q]
  BY <1>1
<1> QED
  BY <1>1, <1>5, <1>6, <1>7, <1>8, HostCallOutcome

LEMMA KickOutcome ==
  ASSUME Inv, NEW p \in Players, NEW c \in Codes, NEW u \in Users, Kick(p, c, u)
  PROVE  Outcome(p)
<1> DEFINE may == MaySet(p, c) /\ u \in Members(c)
           after == [room[c] EXCEPT !.members = room[c].members \ {u}]
<1>1. /\ u # p /\ HostCall(p, c, may, after)
      /\ turnedOut' = [q \in Players |->
           turnedOut[q] \/ (q = u /\ room' # room /\ copy[q].code = c)]
  BY DEF Kick
<1>2. ServerInv /\ ClientInv
  BY DEF Inv
<1>3. may => /\ room[c] # NoRoom /\ room[c] \in RoomType /\ room[c].host = p
             /\ p \in room[c].members
  BY <1>2, HostIsIn
<1>4. room[c] \in RoomType => /\ after \in RoomType /\ after.members = room[c].members \ {u}
                              /\ after.host = room[c].host
  BY DEF RoomType
<1>5. room' = room \/ room'[c] = after
  <2>1. room \in [Codes -> RoomType]
    BY <1>2 DEF ServerInv
  <2>2. room' = [room EXCEPT ![c] = after] \/ room' = room
    BY <1>1 DEF HostCall
  <2> QED
    BY <2>1, <2>2
<1>6. room[c] \in RoomType
  BY <1>2 DEF ServerInv
<1> HIDE DEF may, after
<1>7. turnedOut' \in [Players -> BOOLEAN]
  BY <1>1, <1>2 DEF ClientInv
<1>8. /\ turnedOut'[p] = turnedOut[p] /\ \A q \in Players : turnedOut[q] => turnedOut'[q]
      /\ room' # room /\ copy[u].code = c /\ u \in Players => turnedOut'[u]
  BY <1>1, <1>2 DEF ClientInv
<1>9. \A q \in Players : q \in Members(c) /\ copy[q].code = c => q \in Members(c)' \/ turnedOut'[q]
  <2> SUFFICES ASSUME NEW q \in Players, q \in Members(c), copy[q].code = c, q \notin Members(c)'
               PROVE  turnedOut'[q]
    OBVIOUS
  <2>1. room' # room
    BY DEF Members
  <2>2. q = u
    BY <1>4, <1>5, <1>6, <2>1 DEF Members
  <2> QED
    BY <1>8, <2>1, <2>2
<1>10. may => /\ room[c] # NoRoom /\ after \in RoomType
              /\ after.host = room[c].host /\ after.host \in after.members
              /\ after.members \subseteq room[c].members
              /\ p \in room[c].members => p \in after.members
  BY <1>1, <1>3, <1>4
<1> QED
  BY <1>1, <1>7, <1>8, <1>9, <1>10, HostCallOutcome

LEMMA ReturnToLobbyOutcome ==
  ASSUME Inv, NEW p \in Players, NEW c \in Codes, ReturnToLobby(p, c)
  PROVE  Outcome(p)
<1> DEFINE r == [room[c] EXCEPT !.status = "waiting"]
<1>1. /\ Sits(p) /\ copy[p].code = c
      /\ UNCHANGED <<made, heard, pc, want, found, polled, turnedOut>>
      /\ Lose \/ Answered
      /\ copy' = [copy EXCEPT ![p] = Lobby(c, p)'] \/ UNCHANGED copy
      /\ UNCHANGED room \/ (p \in Members(c) /\ room' = [room EXCEPT ![c] = r])
  BY DEF ReturnToLobby, history
<1>2. ServerInv /\ ClientInv
  BY DEF Inv
<1>3. /\ ServerInv' /\ OnlyRoom(c) /\ \A d \in Codes : Members(d)' = Members(d)
  <2>1. CASE UNCHANGED room
    <3>1. ServerInv' /\ OnlyRoom(c)
      BY <1>1, <1>2, <2>1, SameServer DEF server
    <3> QED
      BY <2>1, <3>1 DEF Members
  <2>2. CASE p \in Members(c) /\ room' = [room EXCEPT ![c] = r]
    <3>1. room[c] \in RoomType /\ room[c] # NoRoom
      BY <1>2, <2>2, NoRoomIsOK DEF ServerInv, Members
    <3>2. r \in RoomType /\ r.members = room[c].members /\ r.host = room[c].host
      BY <3>1 DEF RoomType
    <3> HIDE DEF r
    <3>3. ServerInv' /\ OnlyRoom(c) /\ Members(c)' = Members(c)
      BY <1>1, <1>2, <2>2, <3>1, <3>2, AttributeEffect
    <3> QED
      BY <3>3 DEF OnlyRoom, Members
  <2> QED
    BY <1>1, <2>1, <2>2
<1>4. lost' \in 0 .. MaxLost
  BY <1>1, <1>2, LostStep
<1>5. PICK lobby \in LobbyType :
        /\ copy' = [copy EXCEPT ![p] = lobby]
        /\ lobby = copy[p] \/ lobby = Lobby(c, p)'
  <2>1. CASE UNCHANGED copy
    <3>1. copy[p] \in LobbyType /\ copy' = [copy EXCEPT ![p] = copy[p]]
      BY <1>2, <2>1 DEF ClientInv
    <3> QED
      BY <3>1
  <2>2. CASE copy' = [copy EXCEPT ![p] = Lobby(c, p)']
    <3>1. Lobby(c, p)' \in LobbyType
      BY <1>3, LobbyFactsPrimed
    <3> QED
      BY <2>2, <3>1
  <2> QED
    BY <1>1, <2>1, <2>2
<1>6. ClientInv' /\ OnlyClient(p) /\ copy'[p] = lobby
  BY <1>1, <1>2, <1>4, <1>5 DEF ClientInv, OnlyClient
<1>7. OthersStay(p)
  BY <1>1, <1>3, SameMembers
<1>8. copy'[p] = copy[p] \/ copy'[p] = Lobby(c, p)'
  BY <1>5, <1>6
<1>9. UNCHANGED heard /\ polled'[p] = polled[p] /\ turnedOut'[p] = turnedOut[p]
  BY <1>1
<1> QED
  BY <1>1, <1>3, <1>6, <1>7, <1>8, <1>9, StayOutcome

LEMMA StepOutcome ==
  ASSUME Inv, NEW p \in Players, Step(p)
  PROVE  Outcome(p)
<1>1. CASE Find(p) \/ Create(p) \/ NoticeGone(p)
  BY <1>1, FindOutcome, CreateOutcome, NoticeGoneOutcome
<1>2. CASE \E mode \in Modes : QuickMatch(p, mode)
  BY <1>2, QuickMatchOutcome
<1>3. CASE \E c \in Codes : TryJoin(p, c) \/ SetMode(p, c) \/ Leave(p, c) \/ JoinByCode(p, c)
  BY <1>3, TryJoinOutcome, SetModeOutcome, LeaveOutcome, JoinByCodeOutcome
<1>4. CASE \E c \in Codes : Poll(p, c) \/ Get(p, c) \/ Start(p, c) \/ ReturnToLobby(p, c)
  BY <1>4, PollOutcome, GetOutcome, StartOutcome, ReturnToLobbyOutcome
<1>5. CASE \E c \in Codes, u \in Users : Kick(p, c, u)
  BY <1>5, KickOutcome
<1> QED
  BY <1>1, <1>2, <1>3, <1>4, <1>5 DEF Step, Proceed

-----------------------------------------------------------------------------
(* The invariant is kept *)

\* What holds of a console goes on to hold while others move.
LEMMA BystanderInv ==
  ASSUME Inv, NEW movers, Watch(movers), NEW q \in Players, q \notin movers,
         pc'[q] = pc[q], copy'[q] = copy[q], found'[q] = found[q],
         \A c \in Codes : q \in Members(c)' => q \in Members(c),
         \A c \in Codes : Sits(q) /\ ~turnedOut'[q] /\ copy[q].code = c =>
           q \in Members(c)' /\ (polled'[q] = "yes" => q \in heard'[c])
  PROVE  CopyInv(q)' /\ SeatInv(q)' /\ StrayInv(q)' /\ SteadyInv(q)'
<1>1. CopyInv(q) /\ SeatInv(q) /\ StrayInv(q) /\ SteadyInv(q)
  BY DEF Inv
<1>2. CopyInv(q)'
  BY <1>1 DEF CopyInv
<1>3. SeatInv(q)'
  <2>1. Sits(q)' <=> Sits(q)
    BY DEF Sits
  <2>2. Sits(q) => copy[q].code \in Codes
    BY <1>1 DEF Sits, CopyInv
  <2>3. Sits(q) /\ ~turnedOut'[q] =>
          /\ q \in room'[copy[q].code].members
          /\ polled'[q] = "yes" => q \in heard'[copy[q].code]
    BY <2>2 DEF Members
  <2>4. pc[q] = "room" /\ copy[q].role = "none" =>
          \A c \in Codes : copy[q].code = c => q \notin Members(c)'
    BY <1>1 DEF SeatInv
  <2> QED
    BY <2>1, <2>3, <2>4 DEF SeatInv, Members
<1>4. StrayInv(q)'
  <2>1. \A c \in Codes : q \in Members(c)' /\ copy'[q].code # c => c \in astray[q]
    BY <1>1 DEF StrayInv
  <2>2. astray'[q] = {c \in Codes :
          /\ q \in Members(c)'
          /\ copy'[q].code # c
          /\ c \in astray[q] \/ (q \in movers /\ lost' # lost /\ pc[q] # "setting")}
    BY DEF Watch
  <2> QED
    BY <2>1, <2>2 DEF StrayInv
<1>5. SteadyInv(q)'
  <2>1. steady'[q] \subseteq {c \in IF pc[q] = "menu" THEN Codes ELSE steady[q] : OpenTo(c, q)'}
    BY DEF Watch
  <2>2. steady'[q] \subseteq Codes
    BY <1>1, <2>1 DEF SteadyInv
  <2>3. pc'[q] = "trying" => steady'[q] \subseteq steady[q]
    BY <2>1
  <2> QED
    BY <1>1, <2>2, <2>3 DEF SteadyInv
<1> QED
  BY <1>2, <1>3, <1>4, <1>5

LEMMA StepInv ==
  ASSUME Inv, NEW p \in Players, Step(p), Watch({p})
  PROVE  Inv'
<1>1. Outcome(p)
  BY StepOutcome
<1>2. StrayInv(p)'
  <2>1. astray'[p] = {c \in Codes :
          /\ p \in Members(c)'
          /\ copy'[p].code # c
          /\ c \in astray[p] \/ (p \in {p} /\ lost' # lost /\ pc[p] # "setting")}
    BY DEF Watch
  <2>2. \A c \in Codes :
          p \in Members(c)' /\ copy'[p].code # c /\ ~(lost' # lost /\ pc[p] # "setting") =>
            c \in astray[p]
    BY <1>1 DEF Outcome, NotAstray, Inv, StrayInv
  <2> QED
    BY <2>1, <2>2 DEF StrayInv
<1>3. SteadyInv(p)'
  <2>1. steady'[p] = IF \/ pc'[p] \notin Searching
                        \/ p \in {p} /\ lost' # lost
                        \/ p \in {p} /\ pc[p] = "search" /\ Cardinality(Listed) > ListMax
                     THEN {}
                     ELSE {c \in IF pc[p] = "menu" THEN Codes ELSE steady[p] : OpenTo(c, p)'}
    BY DEF Watch
  <2>2. steady[p] \subseteq Codes
    BY DEF Inv, SteadyInv
  <2>3. steady'[p] \subseteq Codes
    BY <2>1, <2>2
  <2>4. ASSUME pc'[p] = "trying", NEW c \in steady'[p]
        PROVE  c \in found'[p]
    <3>1. /\ lost' = lost /\ ~(pc[p] = "search" /\ Cardinality(Listed) > ListMax)
          /\ c \in IF pc[p] = "menu" THEN Codes ELSE steady[p]
          /\ OpenTo(c, p)'
      BY <2>1, <2>4
    <3>2. pc[p] # "menu" /\ StillToTry(p)
      BY <1>1, <2>4 DEF Outcome
    <3> QED
      BY <2>2, <3>1, <3>2 DEF StillToTry
  <2> QED
    BY <2>3, <2>4 DEF SteadyInv
<1>4. ASSUME NEW q \in Players, q # p
      PROVE  CopyInv(q)' /\ SeatInv(q)' /\ StrayInv(q)' /\ SteadyInv(q)'
  <2>1. /\ pc'[q] = pc[q] /\ found'[q] = found[q] /\ copy'[q] = copy[q] /\ polled'[q] = polled[q]
    BY <1>1, <1>4 DEF Outcome, OnlyClient
  <2>2. /\ turnedOut[q] => turnedOut'[q]
        /\ \A c \in Codes :
             /\ q \in Members(c)' => q \in Members(c)
             /\ q \in heard[c] /\ q \in Members(c)' => q \in heard'[c]
             /\ q \in Members(c) /\ copy[q].code = c => q \in Members(c)' \/ turnedOut'[q]
    BY <1>1, <1>4 DEF Outcome, OthersStay
  <2>3. \A c \in Codes : Sits(q) /\ ~turnedOut'[q] /\ copy[q].code = c =>
          q \in Members(c)' /\ (polled'[q] = "yes" => q \in heard'[c])
    BY <2>1, <2>2 DEF Inv, SeatInv
  <2>4. q \notin {p}
    BY <1>4
  <2> QED
    BY <2>1, <2>2, <2>3, <2>4, BystanderInv
<1> QED
  BY <1>1, <1>2, <1>3, <1>4 DEF Outcome, Inv

\* The consoles do nothing, and no console comes to a room.
LEMMA WorldInv ==
  ASSUME Inv, ServerInv', Watch({}), UNCHANGED <<pc, want, found, copy, lost>>,
         polled' \in [Players -> {"no", "unheard", "yes"}], turnedOut' \in [Players -> BOOLEAN],
         \A q \in Players, c \in Codes :
           /\ q \in Members(c)' => q \in Members(c)
           /\ Sits(q) /\ ~turnedOut'[q] /\ copy[q].code = c =>
                q \in Members(c)' /\ (polled'[q] = "yes" => q \in heard'[c])
  PROVE  Inv'
<1>1. ClientInv'
  BY DEF Inv, ClientInv
<1>2. ASSUME NEW q \in Players
      PROVE  CopyInv(q)' /\ SeatInv(q)' /\ StrayInv(q)' /\ SteadyInv(q)'
  <2>1. q \notin {} /\ pc'[q] = pc[q] /\ copy'[q] = copy[q] /\ found'[q] = found[q]
    OBVIOUS
  <2>2. /\ \A c \in Codes : q \in Members(c)' => q \in Members(c)
        /\ \A c \in Codes : Sits(q) /\ ~turnedOut'[q] /\ copy[q].code = c =>
             q \in Members(c)' /\ (polled'[q] = "yes" => q \in heard'[c])
    OBVIOUS
  <2> QED
    BY <2>1, <2>2, BystanderInv
<1> QED
  BY <1>1, <1>2 DEF Inv

LEMMA GuestInv ==
  ASSUME Inv, NEW u \in Guests, NEW c \in Codes, GuestJoins(u, c) \/ GuestLeaves(u, c), Watch({})
  PROVE  Inv'
<1>1. u \in Users /\ u \notin Players
  BY UsersAreFinite DEF Users
<1>2. /\ UNCHANGED <<made, pc, want, found, copy, lost, polled, turnedOut>>
      /\ (Admits(c, u) /\ Entered(c, u)) \/ Left(c, u)
  BY DEF GuestJoins, GuestLeaves, history, Answered
<1>3. /\ ServerInv' /\ OnlyRoom(c)
      /\ \A q \in Players :
           /\ q \in Members(c)' <=> q \in Members(c)
           /\ q \in heard'[c] <=> q \in heard[c]
  <2>1. ServerInv
    BY DEF Inv
  <2>2. CASE Admits(c, u) /\ Entered(c, u)
    <3>1. /\ ServerInv' /\ OnlyRoom(c)
          /\ Members(c)' = Members(c) \cup {u}
          /\ heard'[c] = heard[c] \cup ({u} \cap Players)
      BY <1>1, <1>2, <2>1, <2>2, EnteredEffect
    <3> QED
      BY <1>1, <3>1
  <2>3. CASE Left(c, u)
    <3>1. /\ ServerInv' /\ OnlyRoom(c)
          /\ Members(c)' = Members(c) \ {u}
          /\ heard'[c] = heard[c] \ {u}
      BY <1>2, <2>1, <2>3, LeftEffect
    <3> QED
      BY <1>1, <3>1
  <2> QED
    BY <1>2, <2>2, <2>3
<1>4. \A q \in Players, d \in Codes :
        /\ q \in Members(d)' <=> q \in Members(d)
        /\ q \in heard'[d] <=> q \in heard[d]
  <2> TAKE q \in Players, d \in Codes
  <2>1. CASE d = c
    BY <1>3, <2>1
  <2>2. CASE d # c
    BY <1>3, <2>2 DEF OnlyRoom, Members
  <2> QED
    BY <2>1, <2>2
<1>5. \A q \in Players, d \in Codes : Sits(q) /\ ~turnedOut'[q] /\ copy[q].code = d =>
        q \in Members(d)' /\ (polled'[q] = "yes" => q \in heard'[d])
  BY <1>2, <1>4 DEF Inv, SeatInv
<1>6. polled' \in [Players -> {"no", "unheard", "yes"}] /\ turnedOut' \in [Players -> BOOLEAN]
  BY <1>2 DEF Inv, ClientInv
<1> QED
  BY <1>2, <1>3, <1>4, <1>5, <1>6, WorldInv

LEMMA ReapInv ==
  ASSUME Inv, Reap, Watch({})
  PROVE  Inv'
<1>1. /\ \A p \in Players : Sits(p) => polled[p] # "no"
      /\ heard' = [c \in Codes |-> {}]
      /\ polled' = [p \in Players |-> "no"]
      /\ turnedOut' = [p \in Players |-> turnedOut[p] \/ polled[p] = "unheard"]
      /\ UNCHANGED <<made, pc, want, found, copy, lost>>
  BY DEF Reap, Answered
<1>2. PICK next \in [Codes -> UNION {Survivors(c) : c \in Codes}] :
        (\A c \in Codes : next[c] \in Survivors(c)) /\ room' = next
  BY DEF Reap
<1>3. ASSUME NEW c \in Codes
      PROVE  /\ RoomOK(next[c]) /\ (room[c] = NoRoom => next[c] = NoRoom)
             /\ next[c].members \subseteq room[c].members
             /\ heard[c] \subseteq next[c].members
  <2>1. RoomOK(room[c]) /\ heard[c] \subseteq room[c].members
    BY DEF Inv, ServerInv, Members
  <2>2. CASE next[c] = room[c]
    BY <2>1, <2>2
  <2>3. CASE next[c] \in Without(c, Members(c) \ (heard[c] \cup Guests))
    <3>1. /\ RoomOK(next[c])
          /\ next[c].members = room[c].members \ (Members(c) \ (heard[c] \cup Guests))
          /\ room[c] = NoRoom => next[c] = NoRoom
      BY <2>1, <2>3, WithoutEffect
    <3> QED
      BY <2>1, <3>1
  <2> QED
    BY <1>2, <2>2, <2>3 DEF Survivors
<1>4. ServerInv'
  <2>1. room' \in [Codes -> RoomType]
    <3>1. \A c \in Codes : next[c] \in RoomType
      BY <1>3 DEF RoomOK
    <3> QED
      BY <1>2, <3>1
  <2>2. \A c \in Codes : RoomOK(room[c])'
    BY <1>2, <1>3 DEF RoomOK, NoRoom, RoomType
  <2>3. \A c \in Codes : c > made' => room'[c] = NoRoom
    BY <1>1, <1>2, <1>3 DEF Inv, ServerInv
  <2>4. heard' \in [Codes -> SUBSET Players] /\ \A c \in Codes : heard'[c] = {}
    BY <1>1
  <2>5. made' \in 0 .. MaxRooms
    BY <1>1 DEF Inv, ServerInv
  <2> QED
    BY <2>1, <2>2, <2>3, <2>4, <2>5 DEF ServerInv, NoRoom
<1>5. \A q \in Players, c \in Codes :
        /\ q \in Members(c)' => q \in Members(c)
        /\ q \in heard[c] => q \in Members(c)'
  BY <1>2, <1>3 DEF Members
<1>6. \A q \in Players, c \in Codes : Sits(q) /\ ~turnedOut'[q] /\ copy[q].code = c =>
        q \in Members(c)' /\ (polled'[q] = "yes" => q \in heard'[c])
  <2> SUFFICES ASSUME NEW q \in Players, NEW c \in Codes, Sits(q), ~turnedOut'[q], copy[q].code = c
               PROVE  q \in Members(c)' /\ (polled'[q] = "yes" => q \in heard'[c])
    OBVIOUS
  <2>1. ~turnedOut[q] /\ polled[q] # "unheard" /\ polled'[q] = "no"
    BY <1>1
  <2>2. polled[q] = "yes"
    BY <1>1, <2>1 DEF Inv, ClientInv
  <2>3. q \in heard[c]
    BY <2>1, <2>2 DEF Inv, SeatInv
  <2> QED
    BY <1>5, <2>1, <2>3
<1>7. turnedOut' \in [Players -> BOOLEAN] /\ polled' \in [Players -> {"no", "unheard", "yes"}]
  <2>1. turnedOut' \in [Players -> BOOLEAN]
    BY <1>1
  <2>2. polled' \in [Players -> {"no", "unheard", "yes"}]
    BY <1>1
  <2> QED
    BY <2>1, <2>2
<1> QED
  BY <1>1, <1>4, <1>5, <1>6, <1>7, WorldInv

LEMMA InitInv == Init => Inv
<1> SUFFICES ASSUME Init PROVE Inv
  OBVIOUS
<1> USE DEF Init
<1>1. \A c \in Codes : room[c] = NoRoom /\ heard[c] = {}
  OBVIOUS
<1>2. ServerInv
  <2>1. NoRoom \in RoomType
    BY NoRoomIsOK DEF RoomOK
  <2>2. room \in [Codes -> RoomType]
    BY <2>1
  <2>3. made \in 0 .. MaxRooms
    BY SizeIsPositive
  <2>4. heard \in [Codes -> SUBSET Players]
    OBVIOUS
  <2> QED
    BY <1>1, <2>2, <2>3, <2>4, NoRoomIsOK DEF ServerInv
<1>3. ClientInv
  <2>1. want \in [Players -> Modes]
    BY ModesAssumption
  <2>2. copy \in [Players -> LobbyType]
    BY NoLobbyTyped
  <2>3. lost \in 0 .. MaxLost
    BY BoundsAssumption
  <2>4. polled \in [Players -> {"no", "unheard", "yes"}]
    OBVIOUS
  <2>5. pc \in [Players -> {"menu", "search", "trying", "setting", "undoing", "room"}]
    OBVIOUS
  <2>6. turnedOut \in [Players -> BOOLEAN] /\ found \in [Players -> SUBSET Codes]
    OBVIOUS
  <2> QED
    BY <2>1, <2>2, <2>3, <2>4, <2>5, <2>6 DEF ClientInv
<1>4. ASSUME NEW p \in Players
      PROVE  CopyInv(p) /\ SeatInv(p) /\ StrayInv(p) /\ SteadyInv(p)
  <2>1. pc[p] = "menu" /\ copy[p] = NoLobby /\ steady[p] = {}
    OBVIOUS
  <2>2. \A c \in Codes : p \notin Members(c)
    BY <1>1, NoRoomIsOK DEF Members
  <2> QED
    BY <2>1, <2>2, NoLobbyTyped DEF CopyInv, SeatInv, Sits, StrayInv, SteadyInv
<1> QED
  BY <1>2, <1>3, <1>4 DEF Inv

LEMMA NextInv == Inv /\ [Next]_vars => Inv'
<1> SUFFICES ASSUME Inv, [Next]_vars PROVE Inv'
  OBVIOUS
<1>1. CASE \E p \in Players : Step(p) /\ Watch({p})
  BY <1>1, StepInv
<1>2. CASE World /\ Watch({})
  BY <1>2, ReapInv, GuestInv DEF World
<1>3. CASE UNCHANGED vars
  <2>1. UNCHANGED <<room, made, heard, pc, want, found, copy, lost, polled, turnedOut, astray, steady>>
    BY <1>3 DEF vars
  <2>2. ServerInv'
    BY <2>1, SameServer DEF Inv, server
  <2>3. ClientInv'
    BY <2>1 DEF Inv, ClientInv
  <2>4. ASSUME NEW p \in Players
        PROVE  CopyInv(p)' /\ SeatInv(p)' /\ StrayInv(p)' /\ SteadyInv(p)'
    <3>1. CopyInv(p) /\ SeatInv(p) /\ StrayInv(p) /\ SteadyInv(p)
      BY DEF Inv
    <3>2. CopyInv(p)' /\ StrayInv(p)' /\ SteadyInv(p)'
      BY <2>1, <3>1 DEF CopyInv, StrayInv, SteadyInv, Members
    <3>3. SeatInv(p)'
      BY <2>1, <3>1 DEF SeatInv, Sits, Members
    <3> QED
      BY <3>2, <3>3
  <2> QED
    BY <2>2, <2>3, <2>4 DEF Inv
<1> QED
  BY <1>1, <1>2, <1>3 DEF Next

LEMMA InvAlways == Spec => []Inv
BY InitInv, NextInv, PTL DEF Spec

-----------------------------------------------------------------------------
(* The theorems *)

\* The rooms of the server and the lobbies of the consoles are well formed: no
\* room is over max_players, a room has its host among its members, and
\* create_mode has the code of a room when it sets its mode or leaves it.
THEOREM TypeCorrect == Spec => []TypeOK
<1>1. Inv => TypeOK
  <2> SUFFICES ASSUME Inv PROVE TypeOK
    OBVIOUS
  <2>1. \A p \in Players : pc[p] \in {"setting", "undoing"} => copy[p].code # 0
    BY CodesAreNat DEF Inv, CopyInv
  <2>2. \A c \in Codes : /\ Cardinality(Members(c)) <= RoomSize
                         /\ c > made => room[c] = NoRoom
                         /\ room[c] = NoRoom \/ room[c].host \in Members(c)
    BY DEF Inv, ServerInv, RoomOK, Members
  <2>3. \A c \in Codes : heard[c] \subseteq Members(c)
    BY DEF Inv, ServerInv
  <2>4. room \in [Codes -> RoomType] /\ made \in 0 .. MaxRooms
    BY DEF Inv, ServerInv
  <2>5. ClientInv
    BY DEF Inv
  <2> QED
    BY <2>1, <2>2, <2>3, <2>4, <2>5 DEF TypeOK, ClientInv, RoomType, LobbyType
<1> QED
  BY <1>1, InvAlways, PTL

\* A console that sees itself in a room is a member of it on the server, unless
\* the host has kicked it or the server has heard none of its polls, which were
\* lost or carried no session: what xbl_mp_poll says of its being authenticated.
THEOREM SeatsAreKept == Spec => []SeatIsKept
<1>1. Inv => SeatIsKept
  <2> SUFFICES ASSUME Inv, NEW p \in Players, Sits(p), ~turnedOut[p]
               PROVE  p \in Members(copy[p].code)
    BY DEF SeatIsKept
  <2> QED
    BY DEF Inv, SeatInv
<1> QED
  BY <1>1, InvAlways, PTL

\* A console is a member of no room but the one it holds, unless a create, a
\* join or a leave went unanswered: xbl_mp_create_mode leaves no room behind.
THEOREM StraysAreUnanswered == Spec => []StraysWereUnanswered
<1>1. Inv => StraysWereUnanswered
  BY DEF Inv, StrayInv, StraysWereUnanswered
<1> QED
  BY <1>1, InvAlways, PTL

\* xbl_mp_quick_match hosts a room only if none was joinable throughout its
\* search, unless a request was lost or the list was longer than its table.
THEOREM HostingIsLast == Spec => []HostsOnlyWhenAlone
<1>1. Inv => HostsOnlyWhenAlone
  BY DEF Inv, SteadyInv, HostsOnlyWhenAlone
<1> QED
  BY <1>1, InvAlways, PTL
=============================================================================
