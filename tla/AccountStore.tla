------------------------------ MODULE AccountStore ------------------------------
(***************************************************************************)
(* What the remembered accounts of sdk/xblsdk.h promise: a list, most      *)
(* recently used first, of at most Max accounts with one key each, that    *)
(* only a fault damages.  A write that stops loses accounts from the end,  *)
(* and may damage the key of the last; where the list cannot be read, the  *)
(* account that signs in replaces it.                                      *)
(***************************************************************************)
EXTENDS AccountList

CONSTANTS Users, Keys, Damaged, Max

VARIABLES store, faults

Entry == [user : Users, key : Keys \cup {Damaged}]

Init == store = <<>> /\ faults = 0

Remember(u, k) ==
  store' = Front(Max, <<[user |-> u, key |-> k]>> \o Without(u, store))

Forget(u) == store' = Without(u, store)

\* A write stops after n entries, or in the middle of the next.
Lose(n) ==
  \/ store' = Front(n, store)
  \/ /\ n < Len(store)
     /\ store' = Append(Front(n, store), [store[n + 1] EXCEPT !.key = Damaged])

\* The list cannot be read.
Replace(u, k) == store' = <<[user |-> u, key |-> k]>>

\* What a fault may do to the list, nothing included.
Suffer ==
  \/ UNCHANGED store
  \/ \E n \in 0 .. Max : Lose(n)
  \/ \E u \in Users, k \in Keys : Replace(u, k)

Next ==
  \/ \E u \in Users, k \in Keys : Remember(u, k) /\ UNCHANGED faults
  \/ \E u \in Users : Forget(u) /\ UNCHANGED faults
  \/ Suffer /\ faults' = faults + 1

Spec == Init /\ [][Next]_<<store, faults>>
=============================================================================
