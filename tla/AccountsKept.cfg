CONSTANTS
  Apps = {a}
  Users = {u1}
  Keys = {k1}
  MaxAccounts = 2
  MaxFaults = 0
  Nobody = Nobody
  Damaged = Damaged
SPECIFICATION Spec
INVARIANTS SessionKeptWhileValid
