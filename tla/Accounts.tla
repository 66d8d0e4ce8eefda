-------------------------------- MODULE Accounts --------------------------------
(***************************************************************************)
(* Sign-in on one console: the session file of each app and the accounts   *)
(* file they share (sdk/xblsdk.c, session storage and multiple accounts).  *)
(* One app runs at a time.  A file is rewritten by CREATE_ALWAYS and one   *)
(* WriteFile per line, each a step of its own: the power may go, or the    *)
(* next app be launched, between any two, and each of them may fail, as    *)
(* may the read or the deletion of a file.  The keys live on the server,   *)
(* which may revoke one at any time.                                       *)
(***************************************************************************)
EXTENDS AccountList

CONSTANTS
  Apps,         \* the games that share the console
  Users, Keys,  \* accounts, and the session keys the server may issue
  MaxAccounts,  \* XBL_ACCOUNTS_MAX
  MaxFaults,    \* bound: file operations that fail, answers without a name,
                \* and calls cut short
  Nobody,       \* no user: an empty user name
  Damaged       \* what is left of a key whose line was cut short

ASSUME MaxAccountsAssumption == MaxAccounts \in Nat \ {0}
ASSUME MaxFaultsAssumption == MaxFaults \in Nat
ASSUME NobodyAssumption == Nobody \notin Users
ASSUME MarksAssumption == {"unissued", "revoked"} \cap Users = {}
ASSUME DamagedAssumption == Damaged \notin Keys

Entry == [user : Users, key : Keys \cup {Damaged}]
Session == [user : Users \cup {Nobody}, key : Keys \cup {Damaged}]

VARIABLES
  owner,        \* the server: owner[k] is a user, "unissued" or "revoked"
  issued,       \* history: issued[k] is the user k was issued to
  sessionFile,  \* sessionFile[a]: the file at session_path of app a, <<>> or <<session>>
  storeFile,    \* the accounts file, line by line
  app,          \* the app that runs
  call,         \* the call it is in, or was last in
  pc,           \* where in that call it is
  out,          \* the XblSession of the caller, <<>> or <<session>>
  list,         \* accounts_write: the accounts to write
  result,       \* what the call returned
  faults,       \* the number of faults
  faulty        \* history: this call met a fault

serverVars == <<owner, issued>>
files == <<sessionFile, storeFile>>
vars == <<serverVars, files, app, call, pc, out, list, result, faults, faulty>>

Init ==
  /\ owner = [k \in Keys |-> "unissued"]
  /\ issued = [k \in Keys |-> Nobody]
  /\ sessionFile = [a \in Apps |-> <<>>]
  /\ storeFile = <<>>
  /\ app \in Apps
  /\ call = "none"
  /\ pc = "idle"
  /\ out = <<>>
  /\ list = <<>>
  /\ result = "none"
  /\ faults = 0
  /\ faulty = FALSE

Valid(k) == k \in Keys /\ owner[k] \in Users

Fault == faults < MaxFaults /\ faults' = faults + 1 /\ faulty' = TRUE
NoFault == UNCHANGED <<faults, faulty>>

\* A call whose first step meets no fault.
Fresh == faulty' = FALSE /\ UNCHANGED faults

Start(c) ==
  /\ pc = "idle"
  /\ call' = c
  /\ UNCHANGED <<serverVars, sessionFile, app>>

Return(r) == pc' = "idle" /\ result' = r

Goto(l) == pc' = l /\ UNCHANGED result

-----------------------------------------------------------------------------
(* The calls *)

\* xbl_login begins with xbl_session_load: a file that cannot be read is none.
Login ==
  /\ Start("login")
  /\ \/ out' = sessionFile[app] /\ Fresh
     \/ sessionFile[app] # <<>> /\ out' = <<>> /\ Fault
  /\ pc' = IF out' = <<>> THEN "device" ELSE "validate"
  /\ result' = "none"
  /\ UNCHANGED <<storeFile, list>>

\* xbl_session_resume on an account of the picker.
Resume(e) ==
  /\ Start("resume")
  /\ out' = <<[user |-> e.user, key |-> e.key]>>
  /\ pc' = "validate"
  /\ result' = "none"
  /\ Fresh
  /\ UNCHANGED <<storeFile, list>>

\* xbl_session_clear deletes the file, or fails to and does not say so.
DeleteSession(calm) ==
  \/ sessionFile' = [sessionFile EXCEPT ![app] = <<>>] /\ calm
  \/ UNCHANGED sessionFile /\ Fault

\* xbl_session_clear, when the game signs the player out.
SignOut ==
  /\ pc = "idle"
  /\ sessionFile[app] # <<>>
  /\ DeleteSession(Fresh)
  /\ call' = "none"
  /\ out' = <<>>
  /\ result' = "none"
  /\ UNCHANGED <<serverVars, storeFile, app, pc, list>>

\* xbl_login_new goes straight to the device login.
LoginNew ==
  /\ Start("new")
  /\ pc' = "device"
  /\ result' = "none"
  /\ Fresh
  /\ UNCHANGED <<out, storeFile, list>>

\* Wrong variant: xbl_session_resume does not save the session it resumed.
ValidateUnsaved(lost) ==
  /\ pc = "validate"
  /\ LET accepted == ~lost /\ Valid(out[1].key) IN
       \/ accepted /\ Goto("createStore")
       \/ call = "login" /\ ~accepted /\ Goto("clear")
       \/ call = "resume" /\ ~accepted /\ Return("error")
  /\ NoFault
  /\ UNCHANGED <<serverVars, files, app, call, out, list>>

\* xbl_session_validate as xbl_login and xbl_session_resume use it: the answer
\* is lost on the way, or it tells whether the key is valid, and whose it is.
Validate(lost) ==
  /\ pc = "validate"
  /\ LET k == out[1].key
         accepted == ~lost /\ Valid(k) IN
       /\ out' = IF accepted THEN <<[user |-> owner[k], key |-> k]>> ELSE out
       /\ \/ call = "login" /\ Goto(IF accepted THEN "createStore" ELSE "clear")
          \/ call = "resume" /\ accepted /\ Goto("createSession")
          \/ call = "resume" /\ ~accepted /\ Return("error")
  /\ NoFault
  /\ UNCHANGED <<serverVars, files, app, call, list>>

\* xbl_session_clear inside xbl_login.
Clear ==
  /\ pc = "clear"
  /\ DeleteSession(NoFault)
  /\ Goto("device")
  /\ UNCHANGED <<serverVars, storeFile, app, call, out, list>>

\* device_login: no code, or one that expires.
DeviceFails ==
  /\ pc = "device"
  /\ out' = <<>>
  /\ Return("error")
  /\ NoFault
  /\ UNCHANGED <<serverVars, files, app, call, list>>

\* Wrong variant: device_login does not clear the name that out holds.
DeviceSucceedsStale(u, k) ==
  /\ pc = "device"
  /\ owner[k] = "unissued"
  /\ owner' = [owner EXCEPT ![k] = u]
  /\ issued' = [issued EXCEPT ![k] = u]
  /\ \/ out' = <<[user |-> u, key |-> k]>> /\ NoFault
     \/ out' = <<[user |-> IF out = <<>> THEN Nobody ELSE out[1].user, key |-> k]>> /\ Fault
  /\ Goto("createSession")
  /\ UNCHANGED <<files, app, call, list>>

\* device_login: the player approves the code as user u, and a key is issued;
\* that the answer names the user is not looked at.
DeviceSucceeds(u, k) ==
  /\ pc = "device"
  /\ owner[k] = "unissued"
  /\ owner' = [owner EXCEPT ![k] = u]
  /\ issued' = [issued EXCEPT ![k] = u]
  /\ \/ out' = <<[user |-> u, key |-> k]>> /\ NoFault
     \/ out' = <<[user |-> Nobody, key |-> k]>> /\ Fault
  /\ Goto("createSession")
  /\ UNCHANGED <<files, app, call, list>>

\* xbl_session_save, CREATE_ALWAYS; what it returns is not looked at.
CreateSession ==
  /\ pc = "createSession"
  /\ \/ /\ sessionFile' = [sessionFile EXCEPT ![app] = <<>>]
        /\ Goto("writeSession")
        /\ NoFault
     \/ /\ Fault
        /\ Goto("createStore")
        /\ UNCHANGED sessionFile
  /\ UNCHANGED <<serverVars, storeFile, app, call, out, list>>

\* What a write of session s that fails may leave in the file.
TornSessions(s) ==
  {<<>>, <<[user |-> Nobody, key |-> Damaged]>>, <<[s EXCEPT !.user = Nobody]>>}

\* xbl_session_save, WriteFile.
WriteSession ==
  /\ pc = "writeSession"
  /\ \/ sessionFile' = [sessionFile EXCEPT ![app] = out] /\ NoFault
     \/ Fault /\ \E s \in TornSessions(out[1]) : sessionFile' = [sessionFile EXCEPT ![app] = s]
  /\ Goto("createStore")
  /\ UNCHANGED <<serverVars, storeFile, app, call, out, list>>

\* Wrong variants: w <= XBL_ACCOUNTS_MAX; the fresh account goes to the end.
RememberedTooMany(s) == <<s>> \o Front(MaxAccounts, Without(s.user, storeFile))
RememberedLast(s) == Append(Front(MaxAccounts - 1, Without(s.user, storeFile)), s)

\* xbl_accounts_load and the loop of xbl_account_remember: the session's
\* account first, then the others, as long as there is room.
Remembered(s) == <<s>> \o Front(MaxAccounts - 1, Without(s.user, storeFile))

\* xbl_account_forget up to accounts_write: a store that cannot be read, like an
\* unknown user, changes nothing; the last account takes the file with it,
\* unless the deletion fails, which is not looked at.
Forget(u) ==
  LET kept == Without(u, storeFile) IN
  /\ Start("forget")
  /\ kept # storeFile
  /\ \/ kept # <<>> /\ list' = kept /\ pc' = "createStore" /\ result' = "none"
        /\ Fresh
        /\ UNCHANGED storeFile
     \/ kept = <<>> /\ storeFile' = <<>> /\ Fresh
        /\ result' = "ok"
        /\ UNCHANGED <<pc, list>>
     \/ Fault /\ result' = "ok" /\ UNCHANGED <<pc, list, storeFile>>
  /\ UNCHANGED out

\* Only xbl_account_forget returns what accounts_write does.
Interrupted == IF call = "forget" THEN "error" ELSE "ok"

\* What xbl_account_remember makes of a session without a user: nothing.
RememberNobody ==
  /\ pc = "createStore"
  /\ call # "forget"
  /\ out[1].user = Nobody
  /\ Return("ok")
  /\ NoFault
  /\ UNCHANGED <<serverVars, files, app, call, out, list>>

\* accounts_write, CREATE_ALWAYS.  xbl_account_remember takes a store that it
\* cannot read for an empty one.
CreateStore ==
  /\ pc = "createStore"
  /\ call # "forget" => out[1].user # Nobody
  /\ \/ /\ list' = IF call = "forget" THEN list ELSE Remembered(out[1])
        /\ storeFile' = <<>>
        /\ Goto("writeStore")
        /\ NoFault
     \/ /\ call # "forget"
        /\ list' = <<out[1]>>
        /\ storeFile' = <<>>
        /\ Goto("writeStore")
        /\ Fault
     \/ /\ Fault
        /\ Return(Interrupted)
        /\ list' = <<>>
        /\ UNCHANGED storeFile
  /\ UNCHANGED <<serverVars, sessionFile, app, call, out>>

\* accounts_write: the next line, the last of which ends the call.
WriteStore ==
  /\ pc = "writeStore"
  /\ LET n == Len(storeFile) + 1 IN
       \/ /\ storeFile' = Append(storeFile, list[n])
          /\ IF n = Len(list) THEN Return("ok") /\ list' = <<>>
                              ELSE Goto("writeStore") /\ UNCHANGED list
          /\ NoFault
       \/ /\ Fault
          /\ \/ UNCHANGED storeFile
             \/ storeFile' = Append(storeFile, [list[n] EXCEPT !.key = Damaged])
          /\ Return(Interrupted)
          /\ list' = <<>>
  /\ UNCHANGED <<serverVars, sessionFile, app, call, out>>

-----------------------------------------------------------------------------
(* The environment *)

\* The power goes or another app is launched: memory is lost, files stay.
Launch(a) ==
  /\ app' = a
  /\ \/ pc = "idle" /\ UNCHANGED faults
     \/ pc # "idle" /\ faults < MaxFaults /\ faults' = faults + 1
  /\ call' = "none"
  /\ pc' = "idle"
  /\ out' = <<>>
  /\ list' = <<>>
  /\ result' = "none"
  /\ faulty' = FALSE
  /\ UNCHANGED <<serverVars, files>>

\* A key expires, or is revoked.
Revoke(k) ==
  /\ owner[k] \in Users
  /\ owner' = [owner EXCEPT ![k] = "revoked"]
  /\ UNCHANGED <<issued, files, app, call, pc, out, list, result, faults, faulty>>

Next ==
  \/ Login \/ LoginNew \/ SignOut
  \/ \E i \in 1 .. Len(storeFile) : Resume(storeFile[i])
  \/ \E u \in Users : Forget(u)
  \/ \E lost \in BOOLEAN : Validate(lost)
  \/ Clear
  \/ DeviceFails
  \/ \E u \in Users, k \in Keys : DeviceSucceeds(u, k)
  \/ CreateSession \/ WriteSession
  \/ RememberNobody \/ CreateStore \/ WriteStore
  \/ \E a \in Apps : Launch(a)
  \/ \E k \in Keys : Revoke(k)

Spec == Init /\ [][Next]_vars

-----------------------------------------------------------------------------
(* Correctness *)

TypeOK ==
  /\ owner \in [Keys -> Users \cup {"unissued", "revoked"}]
  /\ issued \in [Keys -> Users \cup {Nobody}]
  /\ sessionFile \in [Apps -> {<<>>} \cup {<<s>> : s \in Session}]
  /\ storeFile \in Seq(Entry) /\ Len(storeFile) <= MaxAccounts
  /\ app \in Apps
  /\ call \in {"none", "login", "resume", "new", "forget"}
  /\ pc \in {"idle", "validate", "clear", "device", "createSession", "writeSession",
             "createStore", "writeStore"}
  /\ out \in {<<>>} \cup {<<s>> : s \in Session}
  /\ list \in Seq(Entry) /\ Len(list) <= MaxAccounts
  /\ result \in {"none", "ok", "error"}
  /\ faults \in 0 .. MaxFaults
  /\ faulty \in BOOLEAN
  /\ pc = "writeStore" => storeFile = Front(Len(storeFile), list) /\ Len(storeFile) < Len(list)

\* A key on disk is listed under the user it was issued to, even where a
\* damaged session file lost the name, or the answer to a login did not bring it.
KeysKeepTheirUser ==
  /\ \A i \in 1 .. Len(storeFile) :
       storeFile[i].key # Damaged => issued[storeFile[i].key] = storeFile[i].user
  /\ \A a \in Apps : sessionFile[a] # <<>> =>
       LET s == sessionFile[a][1] IN
       s.key # Damaged /\ s.user # Nobody => issued[s.key] = s.user

SigningIn == call \in {"login", "resume", "new"}
SignedIn == pc = "idle" /\ result = "ok" /\ SigningIn

Persisted ==
  /\ sessionFile[app] # <<>> /\ sessionFile[app][1].key = out[1].key
  /\ storeFile # <<>> /\ storeFile[1] = out[1]

\* A sign-in that met no fault is the session its app resumes at the next
\* launch, and the first account of the shared store (sdk/xblsdk.h of xbl_login:
\* "On success fills `out`, persists it, and remembers the account").  After a
\* file operation that failed it need not be, although xbl_login returns XBL_OK.
SignInIsRemembered == SignedIn /\ ~faulty => Persisted

\* sdk/xblsdk.h of xbl_login: "if missing/invalid runs the QR device login":
\* a saved session is given up only when the server refuses its key.
SessionKeptWhileValid == pc = "clear" => ~Valid(out[1].key)

\* The accounts file, with a write in progress taken for done, is the list
\* that the accounts API promises.
Listed == IF pc = "writeStore" THEN list ELSE storeFile

Promise == INSTANCE AccountStore WITH Max <- MaxAccounts, store <- Listed

ImplementsAccountStore == Promise!Spec

-----------------------------------------------------------------------------
(* The inductive invariant behind the safety properties *)

\* What the server issued under a name stays so; what it has not issued is no
\* user's.
ServerKnows ==
  \A k \in Keys :
    /\ owner[k] \in Users => issued[k] = owner[k]
    /\ owner[k] = "unissued" => issued[k] = Nobody

\* A key that is whole, with a name, is under the user it was issued to.
NamedRight(s) == s.key # Damaged /\ s.user # Nobody => issued[s.key] = s.user

\* That holds in memory as it does on disk.
MemoryNamedRight ==
  /\ out # <<>> => NamedRight(out[1])
  /\ \A i \in 1 .. Len(list) : NamedRight(list[i])

Saving == pc \in {"createSession", "writeSession"}
Listing == pc \in {"createStore", "writeStore"}

\* Where a call can be, and what it holds there: a session is saved only once
\* the server has vouched for it, and a list is written behind its session.
MidCall ==
  /\ pc = "validate" => out # <<>> /\ call \in {"login", "resume"}
  /\ pc = "validate" /\ call = "login" => sessionFile[app] = out
  /\ pc = "clear" => call = "login"
  /\ pc = "device" => call \in {"login", "new"}
  /\ Saving => SigningIn
  /\ Listing => SigningIn \/ call = "forget"
  /\ (Saving \/ Listing) /\ SigningIn =>
       /\ out # <<>> /\ out[1].user \in Users \cup {Nobody} /\ out[1].key \in Keys
       /\ out[1].user = Nobody => faulty
  /\ pc = "createStore" /\ call = "forget" =>
       list # <<>> /\ \E u \in Users : list = Without(u, storeFile)
  /\ pc = "writeStore" /\ SigningIn => list[1] = out[1] /\ out[1].user \in Users

\* Until an operation fails, the session behind a list is on the disk.
SessionFirst ==
  Listing /\ SigningIn /\ ~faulty =>
    sessionFile[app] # <<>> /\ sessionFile[app][1].key = out[1].key

\* No account is listed twice.
UsersDistinct ==
  \A i, j \in 1 .. Len(Listed) : Listed[i].user = Listed[j].user => i = j

IInv ==
  /\ TypeOK /\ ServerKnows /\ KeysKeepTheirUser /\ MemoryNamedRight
  /\ MidCall /\ SessionFirst /\ SignInIsRemembered /\ UsersDistinct
=============================================================================
