\* Two apps that share the accounts of three players; room for two; two faults.
CONSTANTS
  Apps = {a1, a2}
  Users = {u1, u2, u3}
  Keys = {k1, k2, k3}
  MaxAccounts = 2
  MaxFaults = 2
  Nobody = Nobody
  Damaged = Damaged
SPECIFICATION Spec
SYMMETRY Interchangeable
INVARIANTS TypeOK  SignInIsRemembered
PROPERTIES ImplementsAccountStore
