----------------------------- MODULE Matchmaking -----------------------------
(***************************************************************************)
(* Lobbies and quick match of sdk/xblsdk.c: consoles that list, join,      *)
(* host, poll and leave rooms on the server.  A call is a request or a     *)
(* sequence of them, and the consoles' requests interleave.  A request may *)
(* be lost on its way there, or its answer on its way back.  What the      *)
(* server does is in docs/rest-api.md and docs/multiplayer.md; the players *)
(* of other consoles come to a room and go, without a state of their own.  *)
(***************************************************************************)
EXTENDS Integers, FiniteSets

CONSTANTS
  Players,      \* the consoles, by their user
  Guests,       \* the users of other consoles
  Modes,
  DefaultMode,  \* of a room that is created: XBL_MODE_SURVIVAL
  RoomSize,     \* max_players of a room
  ListMax,      \* rows of the static tables in find and quick_match: 32
  MaxRooms,     \* bound: rooms the server makes
  MaxLost       \* bound: requests or answers that are lost

Users == Players \cup Guests
Nobody == "nobody"

ASSUME UsersAssumption ==
  /\ IsFiniteSet(Players) /\ IsFiniteSet(Guests)
  /\ Players \cap Guests = {} /\ Nobody \notin Users
ASSUME ModesAssumption == DefaultMode \in Modes
ASSUME BoundsAssumption ==
  RoomSize \in Nat \ {0} /\ ListMax \in Nat \ {0} /\ MaxRooms \in Nat /\ MaxLost \in Nat

Codes == 1 .. MaxRooms

VARIABLES
  room,       \* the server: a room's members, its host, its mode, its status
  made,       \* the server: rooms made so far
  heard,      \* the server: heard[c], members it has lately heard of
  pc,         \* pc[p]: "menu", "room", or the step of quick_match it is at
  want,       \* want[p]: the mode of its quick match
  found,      \* found[p]: listed rooms it has not tried
  copy,       \* copy[p]: the XblLobby it holds; code 0 is a cleared one
  lost,       \* history: requests and answers lost
  polled,     \* history: polled[p], what became of its polls of late
  turnedOut,  \* history: turnedOut[p], it was kicked, or the server heard none of its
              \* polls: they were lost, or carried no session
  astray,     \* history: astray[p], rooms it is in after an unanswered way in or out
  steady      \* history: steady[p], rooms open to it ever since its search began

server == <<room, made, heard>>
history == <<polled, turnedOut>>
state == <<room, made, heard, pc, want, found, copy, lost, polled, turnedOut>>
vars == <<room, made, heard, pc, want, found, copy, lost, polled, turnedOut, astray, steady>>

NoRoom == [members |-> {}, host |-> Nobody, mode |-> DefaultMode, status |-> "waiting"]
NoLobby == [code |-> 0, role |-> "none"]

Members(c) == room[c].members
Listed == {c \in Codes : Members(c) # {}}
Searching == {"search", "trying"}

Init ==
  /\ room = [c \in Codes |-> NoRoom]
  /\ made = 0
  /\ heard = [c \in Codes |-> {}]
  /\ pc = [p \in Players |-> "menu"]
  /\ want = [p \in Players |-> DefaultMode]
  /\ found = [p \in Players |-> {}]
  /\ copy = [p \in Players |-> NoLobby]
  /\ lost = 0
  /\ polled = [p \in Players |-> "no"]
  /\ turnedOut = [p \in Players |-> FALSE]
  /\ astray = [p \in Players |-> {}]
  /\ steady = [p \in Players |-> {}]

-----------------------------------------------------------------------------
(* The server *)

\* A joinable row of the list: waiting, a free slot, the mode.
OpenTo(c, p) ==
  /\ Members(c) # {}
  /\ room[c].status = "waiting"
  /\ Cardinality(Members(c)) < RoomSize
  /\ room[c].mode = want[p]

\* A join is refused by a room that is full or gone; during a round the
\* player comes in to watch.
Admits(c, p) == Members(c) # {} /\ (p \in Members(c) \/ Cardinality(Members(c)) < RoomSize)

Entered(c, p) ==
  /\ room' = [room EXCEPT ![c].members = @ \cup {p}]
  /\ heard' = [heard EXCEPT ![c] = @ \cup ({p} \cap Players)]

\* What a room may be without these users: the host role goes to a member who is
\* left, and the last one disbands the room.
Without(c, users) ==
  LET rest == Members(c) \ users
      heirs == IF room[c].host \in rest THEN {room[c].host} ELSE rest
  IN IF rest = {} THEN {NoRoom}
     ELSE {[room[c] EXCEPT !.members = rest, !.host = h] : h \in heirs}

Left(c, p) ==
  /\ \E after \in Without(c, {p}) : room' = [room EXCEPT ![c] = after]
  /\ heard' = [heard EXCEPT ![c] = @ \ {p}]

Made(p) ==
  /\ made < MaxRooms
  /\ made' = made + 1
  /\ room' = [room EXCEPT ![made'] = [NoRoom EXCEPT !.members = {p}, !.host = p]]
  /\ heard' = [heard EXCEPT ![made'] = {p}]

Hosts(c, p) == room[c].host = p

\* The lobby of an answer: what p reads of it is whether it is in the roster,
\* and whether it is the host.
Lobby(c, p) ==
  [code |-> c,
   role |-> IF Hosts(c, p) THEN "host" ELSE IF p \in Members(c) THEN "member" ELSE "none"]
NewLobby == [code |-> made + 1, role |-> "host"]

Lose == lost < MaxLost /\ lost' = lost + 1
Answered == UNCHANGED lost

-----------------------------------------------------------------------------
(* Quick match *)

\* The console is in the room it was told of.
Seat(p, lobby) ==
  /\ pc' = [pc EXCEPT ![p] = "room"]
  /\ copy' = [copy EXCEPT ![p] = lobby]
  /\ found' = [found EXCEPT ![p] = {}]
  /\ want' = [want EXCEPT ![p] = DefaultMode]
  /\ polled' = [polled EXCEPT ![p] = "no"]
  /\ turnedOut' = [turnedOut EXCEPT ![p] = FALSE]

\* The call returns an error, or the room is left.
Return(p) ==
  /\ pc' = [pc EXCEPT ![p] = "menu"]
  /\ copy' = [copy EXCEPT ![p] = NoLobby]
  /\ found' = [found EXCEPT ![p] = {}]
  /\ want' = [want EXCEPT ![p] = DefaultMode]
  /\ polled' = [polled EXCEPT ![p] = "no"]
  /\ turnedOut' = [turnedOut EXCEPT ![p] = FALSE]

QuickMatch(p, mode) ==
  /\ pc[p] = "menu"
  /\ pc' = [pc EXCEPT ![p] = "search"]
  /\ want' = [want EXCEPT ![p] = mode]
  /\ UNCHANGED <<server, found, copy, history>>
  /\ Answered

\* Wrong variant: rooms that have just one slot left are passed over.
JoinableRoomy(rows, p) == {c \in rows : OpenTo(c, p) /\ Cardinality(Members(c)) < RoomSize - 1}

\* The rows of the list that xbl_mp_find keeps.
Joinable(rows, p) == {c \in rows : OpenTo(c, p)}

\* xbl_mp_find: the first ListMax rooms of the list, whatever they are, and of
\* these the joinable ones.  If it fails, none are.
Find(p) ==
  /\ pc[p] = "search"
  /\ pc' = [pc EXCEPT ![p] = "trying"]
  /\ \/ \E rows \in SUBSET Listed :
          /\ Cardinality(rows) <= ListMax
          /\ rows = Listed \/ Cardinality(rows) = ListMax
          /\ found' = [found EXCEPT ![p] = Joinable(rows, p)]
          /\ Answered
     \/ Lose /\ UNCHANGED found
  /\ UNCHANGED <<server, want, copy, history>>

\* The next room is tried.
TryNext(p, c) ==
  /\ found' = [found EXCEPT ![p] = @ \ {c}]
  /\ UNCHANGED <<pc, want, copy, history>>

\* xbl_mp_join in quick_match.
TryJoin(p, c) ==
  /\ pc[p] = "trying"
  /\ c \in found[p]
  /\ \/ Admits(c, p) /\ Entered(c, p) /\ Seat(p, Lobby(c, p)') /\ Answered
     \/ ~Admits(c, p) /\ UNCHANGED <<room, heard>> /\ TryNext(p, c) /\ Answered
     \/ /\ Lose /\ TryNext(p, c)
        /\ (Admits(c, p) /\ Entered(c, p)) \/ UNCHANGED <<room, heard>>
  /\ UNCHANGED made

\* xbl_mp_create in create_mode: no room was joined.  A room is made in the
\* default mode, and set to the wanted one by a request of its own.
Create(p) ==
  /\ pc[p] = "trying"
  /\ found[p] = {}
  /\ \/ /\ Made(p) /\ Answered
        /\ IF want[p] = DefaultMode THEN Seat(p, NewLobby)
           ELSE /\ pc' = [pc EXCEPT ![p] = "setting"]
                /\ copy' = [copy EXCEPT ![p] = NewLobby]
                /\ UNCHANGED <<want, found, history>>
     \/ Lose /\ Return(p) /\ (Made(p) \/ UNCHANGED server)
     \/ made = MaxRooms /\ Return(p) /\ UNCHANGED server /\ Answered

\* The server sets the mode of a waiting room, for its host.
MaySet(p, c) == Hosts(c, p) /\ room[c].status = "waiting"
Moded(c, mode) == room' = [room EXCEPT ![c].mode = mode]

\* Wrong variant: the room is left as it is.
SetFailedReturn(p) == Return(p)

\* xbl_mp_set_mode failed: the room is to be left.
SetFailed(p) ==
  /\ pc' = [pc EXCEPT ![p] = "undoing"]
  /\ UNCHANGED <<want, found, copy, history>>

\* xbl_mp_set_mode in create_mode.
SetMode(p, c) ==
  /\ pc[p] = "setting" /\ copy[p].code = c
  /\ \/ MaySet(p, c) /\ Moded(c, want[p]) /\ Seat(p, Lobby(c, p)') /\ Answered
     \/ ~MaySet(p, c) /\ UNCHANGED room /\ SetFailed(p) /\ Answered
     \/ Lose /\ SetFailed(p) /\ ((MaySet(p, c) /\ Moded(c, want[p])) \/ UNCHANGED room)
  /\ UNCHANGED <<made, heard>>

\* xbl_mp_leave, whatever its result: after a failed set_mode, or by the player.
Leave(p, c) ==
  /\ pc[p] \in {"undoing", "room"} /\ copy[p].code = c
  /\ Return(p)
  /\ \/ Left(c, p) /\ (Answered \/ Lose)
     \/ UNCHANGED <<room, heard>> /\ Lose
  /\ UNCHANGED made

-----------------------------------------------------------------------------
(* In the menu and in a room *)

\* xbl_mp_join of a room that a friend or the browser shows.
JoinByCode(p, c) ==
  /\ pc[p] = "menu"
  /\ Admits(c, p)
  /\ \/ Entered(c, p) /\ Seat(p, Lobby(c, p)') /\ Answered
     \/ Entered(c, p) /\ Return(p) /\ Lose
  /\ UNCHANGED made

\* The console sees itself in the room.
Sits(p) == pc[p] = "room" /\ copy[p].role # "none"

\* Wrong variant: the session is left out of the headers.
HeardOfNobody(p, c) == UNCHANGED heard

\* The poll is authenticated: the server hears of a member.
HeardOf(p, c) ==
  heard' = [heard EXCEPT ![c] = IF p \in Members(c) THEN @ \cup {p} ELSE @]

\* Wrong variant: a rejected poll leaves the last lobby in place.
PolledKeepsLast(p, c) ==
  copy' = [copy EXCEPT ![p] = IF Members(c) = {} THEN @ ELSE Lobby(c, p)]

\* What an answered poll writes: the lobby, or nothing if it is gone (4xx).
Polled(p, c) ==
  copy' = [copy EXCEPT ![p] = IF Members(c) = {} THEN NoLobby ELSE Lobby(c, p)]

\* xbl_mp_poll.  An error that may pass leaves the copy as it is.
Poll(p, c) ==
  /\ Sits(p) /\ copy[p].code = c
  /\ \/ /\ HeardOf(p, c) /\ Polled(p, c) /\ Answered
        /\ polled' = [polled EXCEPT ![p] = "yes"]
     \/ /\ Lose /\ (HeardOf(p, c) \/ UNCHANGED heard) /\ UNCHANGED copy
        /\ polled' = [polled EXCEPT ![p] = IF @ = "yes" THEN @ ELSE "unheard"]
  /\ UNCHANGED <<room, made, pc, want, found, turnedOut>>

\* xbl_mp_get, and xbl_mp_poll without a session: the server answers, and does not
\* hear of a member.
Get(p, c) ==
  /\ Sits(p) /\ copy[p].code = c
  /\ (Polled(p, c) /\ Answered) \/ (UNCHANGED copy /\ Lose)
  /\ polled' = [polled EXCEPT ![p] = IF @ = "yes" THEN @ ELSE "unheard"]
  /\ UNCHANGED <<room, made, heard, pc, want, found, turnedOut>>

\* The game sees that the room is gone, or that it is not in it any more.
NoticeGone(p) ==
  /\ pc[p] = "room"
  /\ ~Sits(p)
  /\ Return(p)
  /\ UNCHANGED server /\ Answered

\* A host's call on its waiting room, which becomes `after`; the answer is the lobby.
HostCall(p, c, allowed, after) ==
  /\ pc[p] = "room" /\ copy[p] = [code |-> c, role |-> "host"]
  /\ \/ /\ allowed /\ room' = [room EXCEPT ![c] = after]
        /\ \/ Answered /\ copy' = [copy EXCEPT ![p] = Lobby(c, p)']
           \/ Lose /\ UNCHANGED copy
     \/ UNCHANGED <<room, copy>> /\ (Lose \/ (~allowed /\ Answered))
  /\ heard' = [heard EXCEPT ![c] = @ \cap Members(c)']
  /\ UNCHANGED <<made, pc, want, found, polled>>

\* xbl_mp_start.  A live battle takes two.
Start(p, c) ==
  /\ HostCall(p, c,
              MaySet(p, c) /\ (room[c].mode = DefaultMode \/ Cardinality(Members(c)) > 1),
              [room[c] EXCEPT !.status = "playing"])
  /\ UNCHANGED turnedOut

\* xbl_mp_kick.
Kick(p, c, u) ==
  /\ u # p
  /\ HostCall(p, c, MaySet(p, c) /\ u \in Members(c), [room[c] EXCEPT !.members = @ \ {u}])
  /\ turnedOut' = [q \in Players |->
       turnedOut[q] \/ (q = u /\ room' # room /\ copy[q].code = c)]

\* xbl_mp_return: any member re-arms the room after a round.
ReturnToLobby(p, c) ==
  /\ Sits(p) /\ copy[p].code = c
  /\ \/ /\ p \in Members(c) /\ room' = [room EXCEPT ![c].status = "waiting"]
        /\ \/ Answered /\ copy' = [copy EXCEPT ![p] = Lobby(c, p)']
           \/ Lose /\ UNCHANGED copy
     \/ UNCHANGED <<room, copy>> /\ (Lose \/ (p \notin Members(c) /\ Answered))
  /\ UNCHANGED <<made, heard, pc, want, found, history>>

-----------------------------------------------------------------------------
(* The rest of the world *)

GuestJoins(u, c) ==
  /\ Admits(c, u)
  /\ \A d \in Codes : u \notin Members(d)
  /\ Entered(c, u)
  /\ UNCHANGED <<made, pc, want, found, copy, history>> /\ Answered

GuestLeaves(u, c) ==
  /\ u \in Members(c)
  /\ Left(c, u)
  /\ UNCHANGED <<made, pc, want, found, copy, history>> /\ Answered

\* What a room may be without the members the server has not heard of.  They are
\* dropped from a waiting room, and from a round that nobody is heard of in.
Survivors(c) ==
  IF room[c].status = "waiting" \/ heard[c] = {}
  THEN Without(c, Members(c) \ (heard[c] \cup Guests)) ELSE {room[c]}

\* A console in a room polls many times before it counts as silent.
Reap ==
  /\ \A p \in Players : Sits(p) => polled[p] # "no"
  /\ \E next \in [Codes -> UNION {Survivors(c) : c \in Codes}] :
       (\A c \in Codes : next[c] \in Survivors(c)) /\ room' = next
  /\ heard' = [c \in Codes |-> {}]
  /\ polled' = [p \in Players |-> "no"]
  /\ turnedOut' = [p \in Players |-> turnedOut[p] \/ polled[p] = "unheard"]
  /\ UNCHANGED <<made, pc, want, found, copy>> /\ Answered

-----------------------------------------------------------------------------
\* A step of a quick match, and any step of console p.
Proceed(p) ==
  \/ Find(p) \/ Create(p)
  \/ \E c \in Codes : TryJoin(p, c) \/ SetMode(p, c) \/ (pc[p] = "undoing" /\ Leave(p, c))

Step(p) ==
  \/ Proceed(p) \/ NoticeGone(p)
  \/ \E mode \in Modes : QuickMatch(p, mode)
  \/ \E c \in Codes :
       \/ JoinByCode(p, c) \/ Poll(p, c) \/ Get(p, c)
       \/ Start(p, c) \/ ReturnToLobby(p, c)
       \/ pc[p] = "room" /\ Leave(p, c)
       \/ \E u \in Users : Kick(p, c, u)

World ==
  \/ Reap
  \/ \E u \in Guests, c \in Codes : GuestJoins(u, c) \/ GuestLeaves(u, c)

\* History: nothing is asked of a search that lost a request, or whose list was
\* longer than the table.
Watch(movers) ==
  /\ steady' = [p \in Players |->
       IF \/ pc'[p] \notin Searching
          \/ p \in movers /\ lost' # lost
          \/ p \in movers /\ pc[p] = "search" /\ Cardinality(Listed) > ListMax
       THEN {}
       ELSE {c \in IF pc[p] = "menu" THEN Codes ELSE steady[p] : OpenTo(c, p)'}]
  /\ astray' = [p \in Players |->
       {c \in Codes :
          /\ p \in Members(c)'
          /\ copy'[p].code # c
          /\ c \in astray[p] \/ (p \in movers /\ lost' # lost /\ pc[p] # "setting")}]

Next ==
  \/ \E p \in Players : Step(p) /\ Watch({p})
  \/ World /\ Watch({})

Spec == Init /\ [][Next]_vars

\* A console in a room polls, one way or the other, and looks at what that has left it.
Fairness ==
  \A p \in Players :
    WF_state(NoticeGone(p) \/ \E c \in Codes : Poll(p, c) \/ Get(p, c))

FairSpec == Spec /\ Fairness

-----------------------------------------------------------------------------
(* Correctness *)

TypeOK ==
  /\ room \in [Codes -> [members : SUBSET Users, host : Users \cup {Nobody}, mode : Modes,
                        status : {"waiting", "playing"}]]
  /\ made \in 0 .. MaxRooms
  /\ \A c \in Codes : heard[c] \subseteq Members(c)
  /\ pc \in [Players -> {"menu", "search", "trying", "setting", "undoing", "room"}]
  /\ want \in [Players -> Modes]
  /\ found \in [Players -> SUBSET Codes]
  /\ copy \in [Players -> [code : {0} \cup Codes, role : {"none", "member", "host"}]]
  /\ lost \in 0 .. MaxLost
  /\ \A p \in Players : pc[p] \in {"setting", "undoing"} => copy[p].code # 0
  /\ \A c \in Codes : Cardinality(Members(c)) <= RoomSize /\ (c > made => room[c] = NoRoom)
  /\ \A c \in Codes : room[c] = NoRoom \/ room[c].host \in Members(c)

\* A console that sees itself in a room is a member of it, unless the host has
\* kicked it, or the server has heard none of its polls, which were lost or carried
\* no session: a room that is polled with the session is never reaped, nor does a
\* call report a seat that the server did not give (xbl_mp_poll, "ghosts get reaped
\* and live lobbies don't").
SeatIsKept == \A p \in Players : Sits(p) => p \in Members(copy[p].code) \/ turnedOut[p]

\* A console is a member of no room but the one it holds, unless a create, a join
\* or a leave went unanswered: in particular it does not "leave a half-configured room
\* lingering" (xbl_mp_create_mode).
StraysWereUnanswered ==
  \A p \in Players, c \in Codes :
    p \in Members(c) => copy[p].code = c \/ c \in astray[p]

\* Quick match hosts only if no joinable room was there throughout its search,
\* unless a request was lost or there are more rooms than its table has rows
\* (xblsdk.h 400, "host a new one if none are joinable").
HostsOnlyWhenAlone ==
  \A p \in Players : pc[p] = "trying" /\ found[p] = {} => steady[p] = {}

\* The console takes itself to be in a room that it is not in.
Gone(p) == pc[p] = "room" /\ \A c \in Codes : copy[p].code = c => p \notin Members(c)

\* A console learns that its room is gone, or that it was removed from it: it does
\* not stay in it for ever (xbl_mp_get, "instead of rendering a stale lobby forever").
GoneIsNoticed == \A p \in Players : []<>~Gone(p)
=============================================================================
