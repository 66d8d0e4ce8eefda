---------------------------- MODULE MCMatchmaking ----------------------------
(* Matchmaking with the users as model values. *)
EXTENDS Matchmaking

CONSTANTS ann, bob, guest
MCPlayers == {ann, bob}
MCGuests == {guest}
=============================================================================
