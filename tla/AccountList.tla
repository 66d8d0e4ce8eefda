------------------------------ MODULE AccountList ------------------------------
(***************************************************************************)
(* Lists of accounts, as sdk/xblsdk.c copies them from one array to        *)
(* another: as many as there is room for, and all but one user's.          *)
(***************************************************************************)
EXTENDS Sequences, Integers

\* The first n entries of a list that may be shorter.
Front(n, list) == SubSeq(list, 1, IF n < Len(list) THEN n ELSE Len(list))

\* Kept(u, list)[n]: what the loop that skips user u has kept of the first n.
Kept(u, list) ==
  LET kept[n \in 0 .. Len(list)] ==
        IF n = 0 THEN <<>>
        ELSE IF list[n].user = u THEN kept[n - 1]
        ELSE Append(kept[n - 1], list[n])
  IN kept

Without(u, list) == Kept(u, list)[Len(list)]
=============================================================================
