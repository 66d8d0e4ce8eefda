\* Two consoles and a guest, rooms of two, two modes, two rooms, one lost request
\* or answer.
CONSTANTS
  ann = ann
  bob = bob
  guest = guest
  Players <- MCPlayers
  Guests <- MCGuests
  Modes = {"survival", "livebattle"}
  DefaultMode = "survival"
  RoomSize = 2
  ListMax = 1
  MaxRooms = 2
  MaxLost = 1
SPECIFICATION FairSpec
INVARIANTS SeatIsKept StraysWereUnanswered HostsOnlyWhenAlone
PROPERTIES GoneIsNoticed
