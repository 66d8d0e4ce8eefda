----------------------------- MODULE AccountsProofs -----------------------------
(* Proofs about sign-in and the accounts file, for every number of apps,     *)
(* users and keys, every size of the list and every pattern of faults.       *)
EXTENDS Accounts, LoopTheorems, TLAPS

-----------------------------------------------------------------------------
(* Lists *)

\* The loop of Kept is the one its definition says.
LEMMA KeptIs ==
  ASSUME NEW u, NEW S, NEW s \in Seq(S)
  PROVE  /\ Kept(u, s) \in [0 .. Len(s) -> Seq(S)]
         /\ Kept(u, s)[0] = <<>>
         /\ \A i \in 1 .. Len(s) :
              Kept(u, s)[i] = IF s[i].user = u THEN Kept(u, s)[i - 1]
                              ELSE Append(Kept(u, s)[i - 1], s[i])
<1> DEFINE Step(i, t) == IF s[i].user = u THEN t ELSE Append(t, s[i])
           n == Len(s)
           Q == Seq(S)
           step == [p \in (1 .. n) \X Q |-> Step(p[1], p[2])]
           Body(f) == [i \in 0 .. n |-> IF i = 0 THEN <<>> ELSE Step(i, f[i - 1])]
<1>1. n \in Nat /\ <<>> \in Q
  OBVIOUS
<1>2. \A i \in 1 .. n, t \in Q : Step(i, t) \in Q
  OBVIOUS
<1>3. Kept(u, s) = CHOOSE g : g = Body(g)
  BY Zenon DEF Kept
<1>4. (\A i \in 1 .. n : Step(i, Kept(u, s)[i - 1]) =
         IF s[i].user = u THEN Kept(u, s)[i - 1] ELSE Append(Kept(u, s)[i - 1], s[i]))
  OBVIOUS
<1> HIDE DEF Step, n, Q
<1>5. step \in [(1 .. n) \X Q -> Q] /\ \A i \in 1 .. n, t \in Q : step[<<i, t>>] = Step(i, t)
  BY <1>2
<1> HIDE DEF step
<1>6. PICK f \in [0 .. n -> Q] : IsRun(f, n, <<>>, step)
  BY <1>1, <1>5, LoopRuns, Zenon
<1>7. \A i \in 1 .. n : i - 1 \in 0 .. n
  BY <1>1
<1>8. \A i \in 1 .. n : f[i] = Step(i, f[i - 1])
  BY <1>5, <1>6, <1>7 DEF IsRun
<1>9. f = Body(f)
  BY <1>1, <1>6, <1>8 DEF IsRun
<1> HIDE DEF Body
<1>10. Kept(u, s) = Body(Kept(u, s))
  BY <1>3, <1>9, Zenon
<1> DEFINE K == Kept(u, s)
<1> HIDE DEF K
<1>11. K = [i \in 0 .. n |-> IF i = 0 THEN <<>> ELSE Step(i, K[i - 1])]
  BY <1>10, Zenon DEF Body, K
<1>12. K[0] = <<>> /\ \A i \in 1 .. n : K[i] = Step(i, K[i - 1])
  BY <1>1, <1>11
<1> DEFINE T == {i \in 0 .. n : K[i] \in Q}
<1>13. \A i \in 0 .. n : i \in T
  <2>1. 0 \in T
    BY <1>1, <1>12
  <2>2. ASSUME NEW i \in 1 .. n, i - 1 \in T PROVE i \in T
    BY <1>2, <1>7, <1>12, <2>2
  <2> HIDE DEF T
  <2> QED
    BY <1>1, <2>1, <2>2, UpTo
<1>14. K \in [0 .. n -> Q]
  BY <1>11, <1>13
<1> QED
  BY <1>4, <1>12, <1>14 DEF K, n, Q

\* No two entries of a list are of the same user.
Distinct(s) == \A i, j \in 1 .. Len(s) : s[i].user = s[j].user => i = j

\* What is left of a list without user u: entries of the others, each once.
LEMMA WithoutIs ==
  ASSUME NEW u, NEW S, NEW s \in Seq(S)
  PROVE  /\ Without(u, s) \in Seq(S)
         /\ Len(Without(u, s)) <= Len(s)
         /\ \A i \in 1 .. Len(Without(u, s)) :
              \E j \in 1 .. Len(s) : Without(u, s)[i] = s[j] /\ s[j].user # u
         /\ Distinct(s) => Distinct(Without(u, s))
<1> DEFINE K == Kept(u, s)
           n == Len(s)
           From(k) == \A i \in 1 .. Len(K[k]) :
                        \E j \in 1 .. k : K[k][i] = s[j] /\ s[j].user # u
           T == {k \in 0 .. n : Len(K[k]) <= k /\ From(k) /\ (Distinct(s) => Distinct(K[k]))}
<1>1. n \in Nat /\ \A i \in 1 .. n : s[i] \in S
  OBVIOUS
<1>2. /\ K \in [0 .. n -> Seq(S)]
      /\ K[0] = <<>>
      /\ \A i \in 1 .. n : K[i] = IF s[i].user = u THEN K[i - 1] ELSE Append(K[i - 1], s[i])
  BY KeptIs
<1> HIDE DEF K, n
<1>3. 0 \in T
  BY <1>1, <1>2 DEF Distinct
<1>4. ASSUME NEW k \in 1 .. n, k - 1 \in T PROVE k \in T
  <2>1. k - 1 \in 0 .. n /\ K[k - 1] \in Seq(S) /\ s[k] \in S /\ k \in 0 .. n
    BY <1>1, <1>2
  <2>2. /\ Len(K[k - 1]) \in Nat /\ Len(K[k - 1]) <= k - 1 /\ From(k - 1)
        /\ Distinct(s) => Distinct(K[k - 1])
    <3>1. Len(K[k - 1]) \in Nat
      BY <2>1
    <3> HIDE DEF From
    <3> QED
      BY <1>4, <3>1
  <2>3. CASE s[k].user = u
    <3>1. K[k] = K[k - 1]
      BY <1>2, <2>3
    <3>2. From(k) /\ Len(K[k]) <= k
      BY <2>1, <2>2, <3>1
    <3> QED
      BY <2>1, <2>2, <3>1, <3>2
  <2>4. CASE s[k].user # u
    <3> DEFINE m == Len(K[k - 1])
    <3>1. /\ Len(K[k]) = m + 1
          /\ K[k][m + 1] = s[k]
          /\ \A i \in 1 .. m : K[k][i] = K[k - 1][i]
      <4>1. K[k] = Append(K[k - 1], s[k])
        BY <1>2, <2>4
      <4>2. \A t \in Seq(S), e \in S :
              /\ Len(Append(t, e)) = Len(t) + 1
              /\ Append(t, e)[Len(t) + 1] = e
              /\ \A i \in 1 .. Len(t) : Append(t, e)[i] = t[i]
        OBVIOUS
      <4> QED
        BY <2>1, <4>1, <4>2
    <3> HIDE DEF m
    <3>2. m \in Nat /\ m <= k - 1
      BY <2>2 DEF m
    <3>3. ASSUME NEW i \in 1 .. m
          PROVE  \E j \in 1 .. (k - 1) : K[k][i] = s[j] /\ s[j].user # u
      BY <2>2, <3>1, <3>3 DEF m
    <3>4. From(k)
      BY <1>1, <2>1, <2>4, <3>1, <3>2, <3>3
    <3>5. ASSUME Distinct(s) PROVE Distinct(K[k])
      <4>1. ASSUME NEW i \in 1 .. m PROVE K[k][i].user # K[k][m + 1].user
        <5>1. PICK j \in 1 .. (k - 1) : K[k][i] = s[j]
          BY <3>3
        <5>2. s[j].user # s[k].user
          BY <1>1, <2>1, <3>5 DEF Distinct, n
        <5> QED
          BY <3>1, <5>1, <5>2
      <4>2. ASSUME NEW i \in 1 .. m, NEW j \in 1 .. m, K[k][i].user = K[k][j].user PROVE i = j
        BY <2>2, <3>1, <3>5, <4>2 DEF Distinct, m
      <4> QED
        BY <3>1, <3>2, <4>1, <4>2 DEF Distinct
    <3> QED
      BY <1>1, <2>1, <3>1, <3>2, <3>4, <3>5
  <2> QED
    BY <2>3, <2>4
<1>5. n \in T
  <2> HIDE DEF T
  <2>1. \A i \in 0 .. n : i \in T
    BY <1>1, <1>3, <1>4, UpTo
  <2> QED
    BY <1>1, <2>1
<1> QED
  BY <1>1, <1>2, <1>5 DEF Without, K, n

\* The first n entries of a list.
LEMMA FrontIs ==
  ASSUME NEW S, NEW s \in Seq(S), NEW n \in Nat
  PROVE  /\ Front(n, s) \in Seq(S)
         /\ Len(Front(n, s)) = IF n < Len(s) THEN n ELSE Len(s)
         /\ \A i \in 1 .. Len(Front(n, s)) : i \in 1 .. Len(s) /\ Front(n, s)[i] = s[i]
BY DEF Front

\* Lists with the same entries are the same.
LEMMA SameList ==
  ASSUME NEW S, NEW s \in Seq(S), NEW t \in Seq(S), Len(s) = Len(t),
         \A i \in 1 .. Len(s) : s[i] = t[i]
  PROVE  s = t
OBVIOUS

\* All of a list.
LEMMA FrontAll ==
  ASSUME NEW S, NEW s \in Seq(S)
  PROVE  Front(Len(s), s) = s
BY DEF Front

\* The next line of a list that is being written.
LEMMA FrontNext ==
  ASSUME NEW S, NEW s \in Seq(S), NEW n \in Nat, n < Len(s)
  PROVE  Append(Front(n, s), s[n + 1]) = Front(n + 1, s)
<1>1. /\ Front(n, s) \in Seq(S) /\ Len(Front(n, s)) = n
      /\ Front(n + 1, s) \in Seq(S) /\ Len(Front(n + 1, s)) = n + 1
      /\ \A i \in 1 .. n : Front(n, s)[i] = s[i]
      /\ \A i \in 1 .. (n + 1) : Front(n + 1, s)[i] = s[i]
  BY FrontIs
<1>2. s[n + 1] \in S
  OBVIOUS
<1> QED
  BY <1>1, <1>2, SameList

\* An entry in front of a list.
LEMMA ConsIs ==
  ASSUME NEW S, NEW e \in S, NEW s \in Seq(S)
  PROVE  /\ <<e>> \o s \in Seq(S)
         /\ Len(<<e>> \o s) = Len(s) + 1
         /\ (<<e>> \o s)[1] = e
         /\ \A i \in 1 .. Len(s) : (<<e>> \o s)[i + 1] = s[i]
<1>1. <<e>> \in Seq(S) /\ Len(<<e>>) = 1
  OBVIOUS
<1> QED
  BY <1>1

\* A list cut off at the end, and a list with less room behind its first entry.
LEMMA FrontOfCons ==
  ASSUME NEW S, NEW e \in S, NEW s \in Seq(S), NEW n \in Nat \ {0}
  PROVE  Front(n, <<e>> \o s) = <<e>> \o Front(n - 1, s)
<1> DEFINE a == Front(n, <<e>> \o s)
           b == <<e>> \o Front(n - 1, s)
<1>1. /\ <<e>> \o s \in Seq(S) /\ Len(<<e>> \o s) = Len(s) + 1
      /\ (<<e>> \o s)[1] = e
      /\ \A i \in 1 .. Len(s) : (<<e>> \o s)[i + 1] = s[i]
  BY ConsIs
<1>2. /\ Front(n - 1, s) \in Seq(S)
      /\ Len(Front(n - 1, s)) = IF n - 1 < Len(s) THEN n - 1 ELSE Len(s)
      /\ \A i \in 1 .. Len(Front(n - 1, s)) : i \in 1 .. Len(s) /\ Front(n - 1, s)[i] = s[i]
  BY FrontIs
<1>3. /\ a \in Seq(S) /\ Len(a) = IF n < Len(s) + 1 THEN n ELSE Len(s) + 1
      /\ \A i \in 1 .. Len(a) : a[i] = (<<e>> \o s)[i]
  BY <1>1, FrontIs
<1>4. /\ b \in Seq(S) /\ Len(b) = Len(Front(n - 1, s)) + 1
      /\ b[1] = e
      /\ \A i \in 1 .. Len(Front(n - 1, s)) : b[i + 1] = Front(n - 1, s)[i]
  BY <1>2, ConsIs
<1> HIDE DEF a, b
<1>5. Len(a) = Len(b)
  BY <1>2, <1>3, <1>4
<1>6. ASSUME NEW i \in 1 .. Len(a) PROVE a[i] = b[i]
  <2>1. CASE i = 1
    BY <1>3, <1>4, <2>1
  <2>2. CASE i > 1
    <3>1. i - 1 \in 1 .. Len(Front(n - 1, s)) /\ i = (i - 1) + 1
      BY <1>4, <1>5, <2>2
    <3>2. b[i] = s[i - 1]
      BY <1>2, <1>4, <3>1
    <3>3. a[i] = s[i - 1]
      BY <1>3, <3>1
    <3> QED
      BY <3>2, <3>3
  <2> QED
    BY <1>3, <2>1, <2>2
<1>7. a = b
  BY <1>3, <1>4, <1>5, <1>6
<1> QED
  BY <1>7 DEF a, b

-----------------------------------------------------------------------------
(* Sign-in *)

\* What a session file or the caller's session may hold.
Slot == {<<>>} \cup {<<s>> : s \in Session}

\* A session of a user and a key.
LEMMA SlotOf ==
  ASSUME NEW u \in Users \cup {Nobody}, NEW k \in Keys \cup {Damaged}
  PROVE  <<[user |-> u, key |-> k]>> \in Slot
BY DEF Slot, Session

\* What the types say of the entries of the lists and of the sessions.
LEMMA TypeFacts ==
  ASSUME TypeOK
  PROVE  /\ \A i \in 1 .. Len(storeFile) : storeFile[i] \in Entry
         /\ \A i \in 1 .. Len(storeFile) :
              storeFile[i].user \in Users /\ storeFile[i].key \in Keys \cup {Damaged}
         /\ \A i \in 1 .. Len(list) :
              list[i].user \in Users /\ list[i].key \in Keys \cup {Damaged}
         /\ \A i \in 1 .. Len(list) : list[i] \in Entry
         /\ Len(storeFile) \in Nat /\ Len(list) \in Nat
         /\ out # <<>> => out = <<out[1]>> /\ out[1] \in Session
         /\ out # <<>> =>
              out[1].user \in Users \cup {Nobody} /\ out[1].key \in Keys \cup {Damaged}
         /\ \A a \in Apps : sessionFile[a] # <<>> =>
              /\ sessionFile[a] = <<sessionFile[a][1]>> /\ sessionFile[a][1] \in Session
              /\ sessionFile[a][1].user \in Users \cup {Nobody}
              /\ sessionFile[a][1].key \in Keys \cup {Damaged}
<1>1. storeFile \in Seq(Entry) /\ list \in Seq(Entry)
  BY DEF TypeOK
<1>2. \A e \in Entry : e.user \in Users /\ e.key \in Keys \cup {Damaged}
  BY DEF Entry
<1>3. \A s \in Session : s.user \in Users \cup {Nobody} /\ s.key \in Keys \cup {Damaged}
  BY DEF Session
<1>4. /\ \A i \in 1 .. Len(storeFile) : storeFile[i] \in Entry
      /\ \A i \in 1 .. Len(list) : list[i] \in Entry
      /\ Len(storeFile) \in Nat /\ Len(list) \in Nat
  BY <1>1
<1>5. \A x \in {<<>>} \cup {<<s>> : s \in Session} :
        x # <<>> => x = <<x[1]>> /\ x[1] \in Session
  OBVIOUS
<1>6. out # <<>> => out = <<out[1]>> /\ out[1] \in Session
  BY <1>5 DEF TypeOK
<1>7. \A a \in Apps : sessionFile[a] # <<>> =>
        sessionFile[a] = <<sessionFile[a][1]>> /\ sessionFile[a][1] \in Session
  BY <1>5 DEF TypeOK
<1> QED
  BY <1>2, <1>3, <1>4, <1>6, <1>7

\* A step counts its fault, if it had one.
LEMMA FaultCounted ==
  ASSUME TypeOK, Fault \/ NoFault \/ Fresh
  PROVE  faults' \in 0 .. MaxFaults /\ faulty' \in BOOLEAN
<1>1. faults' \in 0 .. MaxFaults
  BY MaxFaultsAssumption DEF TypeOK, Fault, NoFault, Fresh
<1>2. faulty' \in BOOLEAN
  BY DEF TypeOK, Fault, NoFault, Fresh
<1> QED
  BY <1>1, <1>2

\* The list of a sign-in: its own account first, then others of the file.
LEMMA RememberedIs ==
  ASSUME TypeOK, NEW s \in Entry
  PROVE  /\ Remembered(s) \in Seq(Entry)
         /\ Len(Remembered(s)) \in 1 .. MaxAccounts
         /\ Remembered(s)[1] = s
         /\ \A i \in 2 .. Len(Remembered(s)) :
              \E j \in 1 .. Len(storeFile) : Remembered(s)[i] = storeFile[j]
         /\ Distinct(storeFile) => Distinct(Remembered(s))
<1> DEFINE w == Without(s.user, storeFile)
           f == Front(MaxAccounts - 1, w)
           r == <<s>> \o f
<1>1. /\ w \in Seq(Entry)
      /\ \A i \in 1 .. Len(w) :
           \E j \in 1 .. Len(storeFile) : w[i] = storeFile[j] /\ storeFile[j].user # s.user
      /\ Distinct(storeFile) => Distinct(w)
  BY WithoutIs DEF TypeOK
<1> HIDE DEF w
<1>2. /\ f \in Seq(Entry) /\ Len(f) \in 0 .. (MaxAccounts - 1)
      /\ \A i \in 1 .. Len(f) : i \in 1 .. Len(w) /\ f[i] = w[i]
  BY <1>1, FrontIs, MaxAccountsAssumption
<1> HIDE DEF f
<1>3. /\ r \in Seq(Entry) /\ Len(r) = Len(f) + 1
      /\ r[1] = s
      /\ \A i \in 1 .. Len(f) : r[i + 1] = f[i]
  BY <1>2, ConsIs
<1>4. Remembered(s) = r
  BY DEF Remembered, f, w
<1> HIDE DEF r
<1>5. \A i \in 2 .. Len(r) : i - 1 \in 1 .. Len(f) /\ r[i] = f[i - 1]
  BY <1>2, <1>3
<1>6. \A i \in 2 .. Len(r) :
        \E j \in 1 .. Len(storeFile) : r[i] = storeFile[j] /\ storeFile[j].user # s.user
  BY <1>1, <1>2, <1>5
<1>7. ASSUME Distinct(storeFile) PROVE Distinct(r)
  <2>1. ASSUME NEW i \in 2 .. Len(r), NEW j \in 2 .. Len(r), r[i].user = r[j].user PROVE i = j
    <3>1. i - 1 \in 1 .. Len(w) /\ j - 1 \in 1 .. Len(w) /\ w[i - 1].user = w[j - 1].user
      BY <1>2, <1>5, <2>1
    <3>2. i - 1 = j - 1
      BY <1>1, <1>7, <3>1 DEF Distinct
    <3> QED
      BY <3>2
  <2>2. \A i \in 2 .. Len(r) : r[i].user # r[1].user
    BY <1>3, <1>6
  <2> QED
    BY <2>1, <2>2 DEF Distinct
<1> QED
  BY <1>2, <1>3, <1>4, <1>6, <1>7, MaxAccountsAssumption

\* The list of a sign-in that cannot read the file.
LEMMA AloneIs ==
  ASSUME NEW s \in Entry
  PROVE  /\ <<s>> \in Seq(Entry) /\ Len(<<s>>) \in 1 .. MaxAccounts
         /\ <<s>>[1] = s
         /\ Distinct(<<s>>)
BY MaxAccountsAssumption DEF Distinct

\* What a sign-in writes to the list is an account with a whole key.
LEMMA RecalledIsEntry ==
  ASSUME TypeOK, MidCall, pc = "createStore", call # "forget", out[1].user # Nobody
  PROVE  out # <<>> /\ out[1] \in Entry /\ out[1].key # Damaged
<1>1. out # <<>> /\ out[1].user \in Users /\ out[1].key \in Keys
  BY DEF MidCall, Listing, SigningIn
<1>2. out[1] \in Session
  BY <1>1, TypeFacts
<1> QED
  BY <1>1, <1>2, DamagedAssumption DEF Session, Entry

\* What a line that is written adds to the file.
LEMMA WriteEffect ==
  ASSUME TypeOK, WriteStore
  PROVE  /\ faults' \in 0 .. MaxFaults /\ faulty' \in BOOLEAN
         /\ Len(storeFile) + 1 \in 1 .. Len(list)
         /\ storeFile' \in Seq(Entry) /\ Len(storeFile') <= Len(list)
         /\ \/ pc' = "idle" /\ list' = <<>> /\ UNCHANGED storeFile /\ Fault
            \/ /\ pc' = "idle" /\ list' = <<>> /\ Fault
               /\ storeFile' =
                     Append(storeFile, [list[Len(storeFile) + 1] EXCEPT !.key = Damaged])
            \/ /\ pc' = "idle" /\ list' = <<>> /\ storeFile' = list /\ NoFault
            \/ /\ pc' = "writeStore" /\ list' = list /\ Len(storeFile') < Len(list)
               /\ storeFile' = Append(storeFile, list[Len(storeFile) + 1])
               /\ storeFile' = Front(Len(storeFile'), list)
<1> DEFINE n == Len(storeFile) + 1
<1>1. faults' \in 0 .. MaxFaults /\ faulty' \in BOOLEAN
  BY FaultCounted DEF WriteStore
<1>2. /\ n \in 1 .. Len(list) /\ list[n] \in Entry
      /\ storeFile \in Seq(Entry) /\ list \in Seq(Entry)
      /\ storeFile = Front(Len(storeFile), list) /\ Len(list) \in Nat /\ Len(storeFile) \in Nat
  BY DEF TypeOK, WriteStore
<1>3. Append(storeFile, list[n]) = Front(n, list)
  BY <1>2, FrontNext
<1>4. Append(storeFile, list[n]) \in Seq(Entry) /\ Len(Append(storeFile, list[n])) = n
  BY <1>2
<1>5. [list[n] EXCEPT !.key = Damaged] \in Entry
  BY <1>2 DEF Entry
<1>6. CASE /\ storeFile' = Append(storeFile, list[n]) /\ NoFault
           /\ IF n = Len(list) THEN Return("ok") /\ list' = <<>>
                               ELSE Goto("writeStore") /\ UNCHANGED list
  <2>1. CASE n = Len(list)
    <3>1. storeFile' = list
      BY <1>2, <1>3, <1>6, <2>1, FrontAll
    <3> QED
      BY <1>1, <1>2, <1>6, <2>1, <3>1 DEF Return
  <2>2. CASE n # Len(list)
    BY <1>1, <1>2, <1>3, <1>4, <1>6, <2>2 DEF Goto
  <2> QED
    BY <2>1, <2>2
<1>7. CASE list' = <<>> /\ Return(Interrupted) /\ UNCHANGED storeFile /\ Fault
  BY <1>1, <1>2, <1>7 DEF Return
<1>8. CASE /\ list' = <<>> /\ Return(Interrupted) /\ Fault
           /\ storeFile' = Append(storeFile, [list[n] EXCEPT !.key = Damaged])
  <2>1. storeFile' \in Seq(Entry) /\ Len(storeFile') = n
    BY <1>2, <1>5, <1>8
  <2> QED
    BY <1>1, <1>2, <1>8, <2>1 DEF Return
<1> QED
  BY <1>6, <1>7, <1>8 DEF WriteStore

\* Every line of the file is one of the list, whole or with its key damaged.
LEMMA WrittenLines ==
  ASSUME TypeOK, WriteStore
  PROVE  \A i \in 1 .. Len(storeFile') :
           /\ i \in 1 .. Len(list)
           /\ storeFile'[i] = list[i] \/ storeFile'[i] = [list[i] EXCEPT !.key = Damaged]
           /\ storeFile'[i].user = list[i].user
<1> DEFINE n == Len(storeFile) + 1
<1>1. /\ n \in 1 .. Len(list) /\ list[n] \in Entry
      /\ storeFile \in Seq(Entry) /\ Len(storeFile) \in Nat
      /\ \A i \in 1 .. Len(storeFile) : i \in 1 .. Len(list) /\ storeFile[i] = list[i]
  <2>1. pc = "writeStore"
    BY DEF WriteStore
  <2>2. /\ storeFile \in Seq(Entry) /\ list \in Seq(Entry) /\ Len(storeFile) < Len(list)
        /\ storeFile = Front(Len(storeFile), list)
    BY <2>1 DEF TypeOK
  <2>3. Len(storeFile) \in Nat /\ Len(list) \in Nat
    BY <2>2
  <2>4. \A i \in 1 .. Len(storeFile) : i \in 1 .. Len(list) /\ storeFile[i] = list[i]
    BY <2>2, <2>3, FrontIs
  <2> QED
    BY <2>2, <2>4
<1>2. \A e \in {list[n], [list[n] EXCEPT !.key = Damaged]} :
        e \in Entry /\ e.user = list[n].user
  BY <1>1 DEF Entry
<1>3. \A e \in Entry :
        /\ Len(Append(storeFile, e)) = n /\ Append(storeFile, e)[n] = e
        /\ \A i \in 1 .. Len(storeFile) : Append(storeFile, e)[i] = storeFile[i]
  BY <1>1
<1>4. CASE UNCHANGED storeFile
  BY <1>1, <1>4
<1>5. CASE \E e \in {list[n], [list[n] EXCEPT !.key = Damaged]} :
             storeFile' = Append(storeFile, e)
  <2>1. PICK e \in {list[n], [list[n] EXCEPT !.key = Damaged]} :
          storeFile' = Append(storeFile, e)
    BY <1>5
  <2> SUFFICES ASSUME NEW i \in 1 .. Len(storeFile')
               PROVE  /\ i \in 1 .. Len(list)
                      /\ \/ storeFile'[i] = list[i]
                         \/ storeFile'[i] = [list[i] EXCEPT !.key = Damaged]
                      /\ storeFile'[i].user = list[i].user
    OBVIOUS
  <2>2. CASE i = n
    BY <1>1, <1>2, <1>3, <2>1, <2>2
  <2>3. CASE i \in 1 .. Len(storeFile)
    BY <1>1, <2>1, <2>3
  <2> QED
    BY <2>1, <2>2, <2>3
<1> QED
  BY <1>4, <1>5 DEF WriteStore

-----------------------------------------------------------------------------
(* Every step preserves the invariant *)

LEMMA LoginStep ==
  ASSUME IInv, Login
  PROVE  IInv'
<1>1. /\ TypeOK /\ ServerKnows /\ KeysKeepTheirUser /\ MemoryNamedRight
      /\ MidCall /\ SessionFirst /\ SignInIsRemembered /\ UsersDistinct
  BY DEF IInv
<1>2. TypeOK'
  <2>1. out' \in Slot
    BY <1>1 DEF TypeOK, Login, Slot
  <2>2. faults' \in 0 .. MaxFaults /\ faulty' \in BOOLEAN
    BY <1>1, FaultCounted DEF Login
  <2> QED
    BY <1>1, <2>1, <2>2 DEF TypeOK, Login, Start, serverVars, Slot
<1>3. ServerKnows'
  BY <1>1 DEF ServerKnows, Login, Start, serverVars
<1>4. KeysKeepTheirUser'
  BY <1>1 DEF KeysKeepTheirUser, Login, Start, serverVars
<1>5. MemoryNamedRight'
  BY <1>1 DEF KeysKeepTheirUser, MemoryNamedRight, NamedRight, TypeOK, Login, Start,
         serverVars
<1>6. MidCall'
  BY DEF MidCall, Saving, Listing, Login, Start
<1>7. SessionFirst'
  BY DEF SessionFirst, Listing, Login
<1>8. SignInIsRemembered'
  BY DEF SignInIsRemembered, SignedIn, Login
<1>9. UsersDistinct'
  BY <1>1 DEF UsersDistinct, Listed, Login, Start
<1> QED
  BY <1>2, <1>3, <1>4, <1>5, <1>6, <1>7, <1>8, <1>9 DEF IInv

LEMMA ResumeStep ==
  ASSUME IInv, NEW i \in 1 .. Len(storeFile), Resume(storeFile[i])
  PROVE  IInv'
<1>1. /\ TypeOK /\ ServerKnows /\ KeysKeepTheirUser /\ MemoryNamedRight
      /\ MidCall /\ SessionFirst /\ SignInIsRemembered /\ UsersDistinct
  BY DEF IInv
<1>2. TypeOK'
  <2>1. out' \in Slot
    BY <1>1, TypeFacts, SlotOf DEF Resume
  <2> QED
    BY <1>1, <2>1 DEF TypeOK, Resume, Start, Fresh, serverVars, Slot
<1>3. ServerKnows'
  BY <1>1 DEF ServerKnows, Resume, Start, serverVars
<1>4. KeysKeepTheirUser'
  BY <1>1 DEF KeysKeepTheirUser, Resume, Start, serverVars
<1>5. MemoryNamedRight'
  BY <1>1 DEF KeysKeepTheirUser, MemoryNamedRight, NamedRight, Resume, Start, serverVars
<1>6. MidCall'
  BY DEF MidCall, Saving, Listing, Resume, Start
<1>7. SessionFirst'
  BY DEF SessionFirst, Listing, Resume
<1>8. SignInIsRemembered'
  BY DEF SignInIsRemembered, SignedIn, Resume
<1>9. UsersDistinct'
  BY <1>1 DEF UsersDistinct, Listed, Resume, Start
<1> QED
  BY <1>2, <1>3, <1>4, <1>5, <1>6, <1>7, <1>8, <1>9 DEF IInv

LEMMA LoginNewStep ==
  ASSUME IInv, LoginNew
  PROVE  IInv'
<1>1. /\ TypeOK /\ ServerKnows /\ KeysKeepTheirUser /\ MemoryNamedRight
      /\ MidCall /\ SessionFirst /\ SignInIsRemembered /\ UsersDistinct
  BY DEF IInv
<1>2. TypeOK'
  BY <1>1 DEF TypeOK, LoginNew, Start, Fresh, serverVars
<1>3. ServerKnows'
  BY <1>1 DEF ServerKnows, LoginNew, Start, serverVars
<1>4. KeysKeepTheirUser'
  BY <1>1 DEF KeysKeepTheirUser, LoginNew, Start, serverVars
<1>5. MemoryNamedRight'
  BY <1>1 DEF MemoryNamedRight, NamedRight, LoginNew, Start, serverVars
<1>6. MidCall'
  BY DEF MidCall, Saving, Listing, LoginNew, Start
<1>7. SessionFirst'
  BY DEF SessionFirst, Listing, LoginNew
<1>8. SignInIsRemembered'
  BY DEF SignInIsRemembered, SignedIn, LoginNew
<1>9. UsersDistinct'
  BY <1>1 DEF UsersDistinct, Listed, LoginNew, Start
<1> QED
  BY <1>2, <1>3, <1>4, <1>5, <1>6, <1>7, <1>8, <1>9 DEF IInv

LEMMA SignOutStep ==
  ASSUME IInv, SignOut
  PROVE  IInv'
<1>1. /\ TypeOK /\ ServerKnows /\ KeysKeepTheirUser /\ MemoryNamedRight
      /\ MidCall /\ SessionFirst /\ SignInIsRemembered /\ UsersDistinct
  BY DEF IInv
<1>2. TypeOK'
  <2>1. sessionFile' \in [Apps -> Slot]
    BY <1>1 DEF TypeOK, SignOut, DeleteSession, Slot
  <2>2. faults' \in 0 .. MaxFaults /\ faulty' \in BOOLEAN
    BY <1>1, FaultCounted DEF SignOut, DeleteSession
  <2> QED
    BY <1>1, <2>1, <2>2 DEF TypeOK, SignOut, serverVars, Slot
<1>3. ServerKnows'
  BY <1>1 DEF ServerKnows, SignOut, serverVars
<1>4. KeysKeepTheirUser'
  BY <1>1 DEF KeysKeepTheirUser, TypeOK, SignOut, DeleteSession, serverVars
<1>5. MemoryNamedRight'
  BY <1>1 DEF MemoryNamedRight, NamedRight, SignOut, serverVars
<1>6. MidCall'
  BY DEF MidCall, Saving, Listing, SignOut
<1>7. SessionFirst'
  BY DEF SessionFirst, SigningIn, SignOut
<1>8. SignInIsRemembered'
  BY DEF SignInIsRemembered, SignedIn, SignOut
<1>9. UsersDistinct'
  BY <1>1 DEF UsersDistinct, Listed, SignOut
<1> QED
  BY <1>2, <1>3, <1>4, <1>5, <1>6, <1>7, <1>8, <1>9 DEF IInv

LEMMA ValidateStep ==
  ASSUME IInv, NEW lost \in BOOLEAN, Validate(lost)
  PROVE  IInv'
<1>1. /\ TypeOK /\ ServerKnows /\ KeysKeepTheirUser /\ MemoryNamedRight
      /\ MidCall /\ SessionFirst /\ SignInIsRemembered /\ UsersDistinct
  BY DEF IInv
<1>2. TypeOK'
  <2>1. out' \in Slot
    <3>1. CASE out' = out
      BY <1>1, <3>1 DEF TypeOK, Slot
    <3>2. CASE Valid(out[1].key) /\ out' = <<[user |-> owner[out[1].key], key |-> out[1].key]>>
      BY <3>2, SlotOf DEF Valid
    <3> QED
      BY <3>1, <3>2 DEF Validate
  <2> QED
    BY <1>1, <2>1 DEF TypeOK, Validate, Goto, Return, NoFault, serverVars, files, Slot
<1>3. ServerKnows'
  BY <1>1 DEF ServerKnows, Validate, serverVars
<1>4. KeysKeepTheirUser'
  BY <1>1 DEF KeysKeepTheirUser, Validate, serverVars, files
<1>5. MemoryNamedRight'
  BY <1>1 DEF MemoryNamedRight, NamedRight, ServerKnows, Validate, Valid, serverVars
<1>6. MidCall'
  BY NobodyAssumption DEF MidCall, Saving, Listing, SigningIn, Validate, Valid, Goto, Return
<1>7. SessionFirst'
  BY <1>1 DEF SessionFirst, MidCall, Listing, Validate, Goto, Return, files
<1>8. SignInIsRemembered'
  BY DEF SignInIsRemembered, SignedIn, Validate, Goto, Return
<1>9. UsersDistinct'
  BY <1>1 DEF UsersDistinct, Listed, Validate, Goto, Return, files
<1> QED
  BY <1>2, <1>3, <1>4, <1>5, <1>6, <1>7, <1>8, <1>9 DEF IInv

LEMMA ClearStep ==
  ASSUME IInv, Clear
  PROVE  IInv'
<1>1. /\ TypeOK /\ ServerKnows /\ KeysKeepTheirUser /\ MemoryNamedRight
      /\ MidCall /\ SessionFirst /\ SignInIsRemembered /\ UsersDistinct
  BY DEF IInv
<1>2. TypeOK'
  <2>1. sessionFile' \in [Apps -> Slot]
    BY <1>1 DEF TypeOK, Clear, DeleteSession, Slot
  <2>2. faults' \in 0 .. MaxFaults /\ faulty' \in BOOLEAN
    BY <1>1, FaultCounted DEF Clear, DeleteSession
  <2> QED
    BY <1>1, <2>1, <2>2 DEF TypeOK, Clear, Goto, serverVars, Slot
<1>3. ServerKnows'
  BY <1>1 DEF ServerKnows, Clear, serverVars
<1>4. KeysKeepTheirUser'
  BY <1>1 DEF KeysKeepTheirUser, TypeOK, Clear, DeleteSession, serverVars
<1>5. MemoryNamedRight'
  BY <1>1 DEF MemoryNamedRight, NamedRight, Clear, serverVars
<1>6. MidCall'
  BY <1>1 DEF MidCall, Saving, Listing, Clear, Goto
<1>7. SessionFirst'
  BY DEF SessionFirst, Listing, Clear, Goto
<1>8. SignInIsRemembered'
  BY DEF SignInIsRemembered, SignedIn, Clear, Goto
<1>9. UsersDistinct'
  BY <1>1 DEF UsersDistinct, Listed, Clear, Goto
<1> QED
  BY <1>2, <1>3, <1>4, <1>5, <1>6, <1>7, <1>8, <1>9 DEF IInv

LEMMA DeviceFailsStep ==
  ASSUME IInv, DeviceFails
  PROVE  IInv'
<1>1. /\ TypeOK /\ ServerKnows /\ KeysKeepTheirUser /\ MemoryNamedRight
      /\ MidCall /\ SessionFirst /\ SignInIsRemembered /\ UsersDistinct
  BY DEF IInv
<1>2. TypeOK'
  BY <1>1 DEF TypeOK, DeviceFails, Return, NoFault, serverVars, files
<1>3. ServerKnows'
  BY <1>1 DEF ServerKnows, DeviceFails, serverVars
<1>4. KeysKeepTheirUser'
  BY <1>1 DEF KeysKeepTheirUser, DeviceFails, serverVars, files
<1>5. MemoryNamedRight'
  BY <1>1 DEF MemoryNamedRight, NamedRight, ServerKnows, DeviceFails, serverVars
<1>6. MidCall'
  BY DEF MidCall, Saving, Listing, DeviceFails, Return
<1>7. SessionFirst'
  BY DEF SessionFirst, Listing, DeviceFails, Return
<1>8. SignInIsRemembered'
  BY DEF SignInIsRemembered, SignedIn, DeviceFails, Return
<1>9. UsersDistinct'
  BY <1>1 DEF UsersDistinct, Listed, DeviceFails, Return, files
<1> QED
  BY <1>2, <1>3, <1>4, <1>5, <1>6, <1>7, <1>8, <1>9 DEF IInv

LEMMA DeviceSucceedsStep ==
  ASSUME IInv, NEW u \in Users, NEW k \in Keys, DeviceSucceeds(u, k)
  PROVE  IInv'
<1>1. /\ TypeOK /\ ServerKnows /\ KeysKeepTheirUser /\ MemoryNamedRight
      /\ MidCall /\ SessionFirst /\ SignInIsRemembered /\ UsersDistinct
  BY DEF IInv
<1>2. TypeOK'
  <2>1. out' \in Slot
    BY SlotOf DEF DeviceSucceeds
  <2>2. faults' \in 0 .. MaxFaults /\ faulty' \in BOOLEAN
    BY <1>1, FaultCounted DEF DeviceSucceeds
  <2> QED
    BY <1>1, <2>1, <2>2 DEF TypeOK, DeviceSucceeds, Goto, files, Slot
<1>3. ServerKnows'
  BY <1>1 DEF ServerKnows, TypeOK, DeviceSucceeds
<1>4. KeysKeepTheirUser'
  BY <1>1, TypeFacts, NobodyAssumption DEF KeysKeepTheirUser, ServerKnows, DeviceSucceeds,
         files
<1>5. MemoryNamedRight'
  BY <1>1 DEF MemoryNamedRight, NamedRight, ServerKnows, TypeOK, DeviceSucceeds
<1>6. MidCall'
  BY <1>1, NobodyAssumption DEF MidCall, SigningIn, DeviceSucceeds, Goto, Fault
<1>7. SessionFirst'
  BY DEF SessionFirst, Listing, DeviceSucceeds, Goto
<1>8. SignInIsRemembered'
  BY DEF SignInIsRemembered, SignedIn, DeviceSucceeds, Goto
<1>9. UsersDistinct'
  BY <1>1 DEF UsersDistinct, Listed, DeviceSucceeds, Goto, files
<1> QED
  BY <1>2, <1>3, <1>4, <1>5, <1>6, <1>7, <1>8, <1>9 DEF IInv

LEMMA CreateSessionStep ==
  ASSUME IInv, CreateSession
  PROVE  IInv'
<1>1. /\ TypeOK /\ ServerKnows /\ KeysKeepTheirUser /\ MemoryNamedRight
      /\ MidCall /\ SessionFirst /\ SignInIsRemembered /\ UsersDistinct
  BY DEF IInv
<1>2. TypeOK'
  <2>1. faults' \in 0 .. MaxFaults /\ faulty' \in BOOLEAN
    BY <1>1, FaultCounted DEF CreateSession
  <2> QED
    BY <1>1, <2>1 DEF TypeOK, CreateSession, Goto, serverVars
<1>3. ServerKnows'
  BY <1>1 DEF ServerKnows, CreateSession, serverVars
<1>4. KeysKeepTheirUser'
  BY <1>1 DEF KeysKeepTheirUser, TypeOK, CreateSession, serverVars
<1>5. MemoryNamedRight'
  BY <1>1 DEF MemoryNamedRight, NamedRight, CreateSession, serverVars
<1>6. MidCall'
  BY <1>1 DEF MidCall, Saving, SigningIn, CreateSession, Goto, Fault, NoFault
<1>7. SessionFirst'
  BY DEF SessionFirst, Listing, CreateSession, Goto, Fault
<1>8. SignInIsRemembered'
  BY DEF SignInIsRemembered, SignedIn, CreateSession, Goto
<1>9. UsersDistinct'
  BY <1>1 DEF UsersDistinct, Listed, CreateSession, Goto
<1> QED
  BY <1>2, <1>3, <1>4, <1>5, <1>6, <1>7, <1>8, <1>9 DEF IInv

LEMMA WriteSessionStep ==
  ASSUME IInv, WriteSession
  PROVE  IInv'
<1>1. /\ TypeOK /\ ServerKnows /\ KeysKeepTheirUser /\ MemoryNamedRight
      /\ MidCall /\ SessionFirst /\ SignInIsRemembered /\ UsersDistinct
  BY DEF IInv
<1>2. TypeOK'
  <2>1. out \in Slot /\ out # <<>>
    BY <1>1 DEF TypeOK, Slot, MidCall, Saving, WriteSession
  <2>2. TornSessions(out[1]) \subseteq Slot
    <3>1. [out[1] EXCEPT !.user = Nobody] = [user |-> Nobody, key |-> out[1].key]
      BY <1>1, <2>1, TypeFacts DEF Session
    <3>2. /\ <<[user |-> Nobody, key |-> Damaged]>> \in Slot
          /\ <<[user |-> Nobody, key |-> out[1].key]>> \in Slot
      BY <1>1, <2>1, TypeFacts, SlotOf
    <3> QED
      BY <3>1, <3>2 DEF TornSessions, Slot
  <2>3. sessionFile' \in [Apps -> Slot]
    BY <1>1, <2>1, <2>2 DEF TypeOK, Slot, WriteSession
  <2>4. faults' \in 0 .. MaxFaults /\ faulty' \in BOOLEAN
    BY <1>1, FaultCounted DEF WriteSession
  <2> QED
    BY <1>1, <2>3, <2>4 DEF TypeOK, WriteSession, Goto, serverVars, Slot
<1>3. ServerKnows'
  BY <1>1 DEF ServerKnows, WriteSession, serverVars
<1>4. KeysKeepTheirUser'
  <2>1. out # <<>> /\ NamedRight(out[1]) /\ out = <<out[1]>> /\ out[1] \in Session
    BY <1>1, TypeFacts DEF MemoryNamedRight, MidCall, Saving, WriteSession
  <2>2. \A s \in {out} \cup TornSessions(out[1]) : s # <<>> => NamedRight(s[1])
    BY <2>1 DEF NamedRight, TornSessions, Session
  <2>3. \A a \in Apps : sessionFile'[a] # <<>> => NamedRight(sessionFile'[a][1])
    BY <1>1, <2>2 DEF KeysKeepTheirUser, NamedRight, TypeOK, WriteSession
  <2> QED
    BY <1>1, <2>3 DEF KeysKeepTheirUser, NamedRight, WriteSession, serverVars
<1>5. MemoryNamedRight'
  BY <1>1 DEF MemoryNamedRight, NamedRight, WriteSession, serverVars
<1>6. MidCall'
  BY <1>1 DEF MidCall, Saving, SigningIn, WriteSession, Goto, Fault, NoFault
<1>7. SessionFirst'
  BY <1>1 DEF SessionFirst, MidCall, Saving, TypeOK, WriteSession, Fault
<1>8. SignInIsRemembered'
  BY DEF SignInIsRemembered, SignedIn, WriteSession, Goto
<1>9. UsersDistinct'
  BY <1>1 DEF UsersDistinct, Listed, WriteSession, Goto
<1> QED
  BY <1>2, <1>3, <1>4, <1>5, <1>6, <1>7, <1>8, <1>9 DEF IInv

LEMMA ForgetStep ==
  ASSUME IInv, NEW u \in Users, Forget(u)
  PROVE  IInv'
<1>1. /\ TypeOK /\ ServerKnows /\ KeysKeepTheirUser /\ MemoryNamedRight
      /\ MidCall /\ SessionFirst /\ SignInIsRemembered /\ UsersDistinct
  BY DEF IInv
<1>2. TypeOK'
  <2>1. /\ Without(u, storeFile) \in Seq(Entry)
        /\ Len(Without(u, storeFile)) <= MaxAccounts
    BY <1>1, WithoutIs, MaxAccountsAssumption DEF TypeOK
  <2>2. /\ list' \in Seq(Entry) /\ Len(list') <= MaxAccounts
        /\ storeFile' \in Seq(Entry) /\ Len(storeFile') <= MaxAccounts
    <3>1. <<>> \in Seq(Entry) /\ Len(<<>>) <= MaxAccounts
      BY MaxAccountsAssumption
    <3> QED
      BY <1>1, <2>1, <3>1 DEF TypeOK, Forget
  <2>3. faults' \in 0 .. MaxFaults /\ faulty' \in BOOLEAN
    BY <1>1, FaultCounted DEF Forget
  <2> QED
    BY <1>1, <2>2, <2>3 DEF TypeOK, Forget, Start, serverVars
<1>3. ServerKnows'
  BY <1>1 DEF ServerKnows, Forget, Start, serverVars
<1>4. KeysKeepTheirUser'
  BY <1>1 DEF KeysKeepTheirUser, Forget, Start, serverVars
<1>5. MemoryNamedRight'
  <2>1. \A i \in 1 .. Len(Without(u, storeFile)) :
          \E j \in 1 .. Len(storeFile) : Without(u, storeFile)[i] = storeFile[j]
    <3>1. storeFile \in Seq(Entry)
      BY <1>1 DEF TypeOK
    <3> QED
      BY <3>1, WithoutIs
  <2>2. CASE list' = list
    BY <1>1, <2>2 DEF MemoryNamedRight, NamedRight, Forget, Start, serverVars
  <2>3. CASE list' = Without(u, storeFile)
    BY <1>1, <2>1, <2>3 DEF KeysKeepTheirUser, MemoryNamedRight, NamedRight, Forget, Start,
           serverVars
  <2> QED
    BY <2>2, <2>3 DEF Forget
<1>6. MidCall'
  BY DEF MidCall, Saving, SigningIn, Forget, Start
<1>7. SessionFirst'
  BY DEF SessionFirst, SigningIn, Forget, Start
<1>8. SignInIsRemembered'
  BY DEF SignInIsRemembered, SignedIn, SigningIn, Forget, Start
<1>9. UsersDistinct'
  BY <1>1 DEF UsersDistinct, Listed, Forget, Start
<1> QED
  BY <1>2, <1>3, <1>4, <1>5, <1>6, <1>7, <1>8, <1>9 DEF IInv

LEMMA RememberNobodyStep ==
  ASSUME IInv, RememberNobody
  PROVE  IInv'
<1>1. /\ TypeOK /\ ServerKnows /\ KeysKeepTheirUser /\ MemoryNamedRight
      /\ MidCall /\ SessionFirst /\ SignInIsRemembered /\ UsersDistinct
  BY DEF IInv
<1>2. TypeOK'
  BY <1>1 DEF TypeOK, RememberNobody, Return, NoFault, serverVars, files
<1>3. ServerKnows'
  BY <1>1 DEF ServerKnows, RememberNobody, serverVars
<1>4. KeysKeepTheirUser'
  BY <1>1 DEF KeysKeepTheirUser, RememberNobody, serverVars, files
<1>5. MemoryNamedRight'
  BY <1>1 DEF MemoryNamedRight, NamedRight, RememberNobody, serverVars
<1>6. MidCall'
  BY DEF MidCall, Saving, Listing, RememberNobody, Return
<1>7. SessionFirst'
  BY DEF SessionFirst, Listing, RememberNobody, Return
<1>8. SignInIsRemembered'
  BY <1>1 DEF SignInIsRemembered, SignedIn, SigningIn, MidCall, Listing, TypeOK,
         RememberNobody, Return, NoFault
<1>9. UsersDistinct'
  BY <1>1 DEF UsersDistinct, Listed, RememberNobody, Return, files
<1> QED
  BY <1>2, <1>3, <1>4, <1>5, <1>6, <1>7, <1>8, <1>9 DEF IInv

LEMMA CreateStoreStep ==
  ASSUME IInv, CreateStore
  PROVE  IInv'
<1>1. /\ TypeOK /\ ServerKnows /\ KeysKeepTheirUser /\ MemoryNamedRight
      /\ MidCall /\ SessionFirst /\ SignInIsRemembered /\ UsersDistinct
  BY DEF IInv
<1>2. TypeOK'
  <2>1. faults' \in 0 .. MaxFaults /\ faulty' \in BOOLEAN
    BY <1>1, FaultCounted DEF CreateStore
  <2>2. CASE /\ \/ call = "forget" /\ list' = list
                \/ call # "forget" /\ list' \in {Remembered(out[1]), <<out[1]>>}
             /\ storeFile' = <<>> /\ Goto("writeStore")
    <3>1. list' \in Seq(Entry) /\ Len(list') \in 1 .. MaxAccounts
      <4>1. CASE call = "forget"
        BY <1>1, <2>2, <4>1 DEF TypeOK, MidCall, CreateStore
      <4>2. CASE call # "forget"
        <5>1. out[1] \in Entry
          BY <1>1, <4>2, RecalledIsEntry DEF CreateStore
        <5> QED
          BY <1>1, <2>2, <4>2, <5>1, AloneIs, RememberedIs
      <4> QED
        BY <4>1, <4>2
    <3>2. Front(0, list') = <<>>
      BY <3>1 DEF Front
    <3>3. /\ storeFile' = Front(Len(storeFile'), list')
          /\ Len(storeFile') = 0 /\ Len(storeFile') < Len(list')
      BY <2>2, <3>1, <3>2
    <3> QED
      BY <1>1, <2>1, <2>2, <3>1, <3>3, MaxAccountsAssumption DEF TypeOK, CreateStore, Goto,
             serverVars
  <2>3. CASE list' = <<>> /\ UNCHANGED storeFile /\ Return(Interrupted)
    BY <1>1, <2>1, <2>3, MaxAccountsAssumption DEF TypeOK, CreateStore, Return, Interrupted,
           serverVars
  <2> QED
    BY <2>2, <2>3 DEF CreateStore
<1>3. ServerKnows'
  BY <1>1 DEF ServerKnows, CreateStore, serverVars
<1>4. KeysKeepTheirUser'
  BY <1>1 DEF KeysKeepTheirUser, CreateStore, serverVars
<1>5. MemoryNamedRight'
  <2>1. CASE list' = <<>>
    BY <1>1, <2>1 DEF MemoryNamedRight, NamedRight, CreateStore, serverVars
  <2>2. CASE call = "forget" /\ list' = list
    BY <1>1, <2>2 DEF MemoryNamedRight, NamedRight, CreateStore, serverVars
  <2>3. CASE call # "forget" /\ list' = Remembered(out[1])
    <3>1. out[1] \in Entry /\ out # <<>>
      BY <1>1, <2>3, RecalledIsEntry DEF CreateStore
    <3>2. ASSUME NEW i \in 1 .. Len(list') PROVE NamedRight(list'[i])
      <4>1. CASE i = 1
        BY <1>1, <2>3, <3>1, <4>1, RememberedIs DEF MemoryNamedRight
      <4>2. CASE i \in 2 .. Len(list')
        <5>1. PICK j \in 1 .. Len(storeFile) : list'[i] = storeFile[j]
          BY <1>1, <2>3, <3>1, <4>2, RememberedIs
        <5> QED
          BY <1>1, <5>1 DEF KeysKeepTheirUser, NamedRight
      <4> QED
        BY <4>1, <4>2
    <3> QED
      BY <1>1, <3>2 DEF MemoryNamedRight, NamedRight, CreateStore, serverVars
  <2>4. CASE call # "forget" /\ list' = <<out[1]>>
    <3>1. out # <<>>
      BY <1>1, <2>4, RecalledIsEntry DEF CreateStore
    <3> QED
      BY <1>1, <2>4, <3>1 DEF MemoryNamedRight, NamedRight, CreateStore, serverVars
  <2> QED
    BY <2>1, <2>2, <2>3, <2>4 DEF CreateStore
<1>6. MidCall'
  <2>1. CASE pc' = "idle"
    BY <2>1 DEF MidCall, Saving, Listing
  <2>2. CASE pc' = "writeStore" /\ call = "forget"
    BY <2>2 DEF MidCall, Saving, Listing, SigningIn, CreateStore
  <2>3. CASE pc' = "writeStore" /\ call # "forget"
    <3>1. out[1] \in Entry /\ out # <<>> /\ out[1].user \in Users /\ out[1].key \in Keys
      BY <1>1, <2>3, RecalledIsEntry DEF Entry, CreateStore
    <3>2. list'[1] = out[1]
      BY <1>1, <2>3, <3>1, AloneIs, RememberedIs DEF CreateStore, Return
    <3> QED
      BY <1>1, <2>3, <3>1, <3>2 DEF MidCall, Saving, Listing, SigningIn, CreateStore
  <2> QED
    BY <2>1, <2>2, <2>3 DEF CreateStore, Goto, Return
<1>7. SessionFirst'
  BY <1>1 DEF SessionFirst, Listing, SigningIn, CreateStore, NoFault, Fault
<1>8. SignInIsRemembered'
  BY DEF SignInIsRemembered, SignedIn, CreateStore, Goto, Fault
<1>9. UsersDistinct'
  <2>1. Listed = storeFile /\ Distinct(storeFile)
    BY <1>1 DEF UsersDistinct, Listed, Distinct, CreateStore
  <2>2. CASE list' = <<>> /\ UNCHANGED storeFile /\ Return(Interrupted)
    BY <2>1, <2>2 DEF UsersDistinct, Listed, Distinct
  <2>3. CASE call = "forget" /\ list' = list /\ pc' = "writeStore"
    <3>1. PICK u \in Users : list = Without(u, storeFile)
      BY <1>1, <2>3 DEF MidCall, CreateStore
    <3>2. Distinct(list)
      BY <1>1, <2>1, <3>1, WithoutIs DEF TypeOK
    <3> QED
      BY <2>3, <3>2 DEF UsersDistinct, Listed, Distinct
  <2>4. CASE call # "forget" /\ list' = Remembered(out[1]) /\ pc' = "writeStore"
    <3>1. out[1] \in Entry
      BY <1>1, <2>4, RecalledIsEntry DEF CreateStore
    <3>2. Distinct(list')
      BY <1>1, <2>1, <2>4, <3>1, RememberedIs
    <3> QED
      BY <2>4, <3>2 DEF UsersDistinct, Listed, Distinct
  <2>5. CASE call # "forget" /\ list' = <<out[1]>> /\ pc' = "writeStore"
    <3>1. Distinct(list')
      BY <1>1, <2>5, RecalledIsEntry, AloneIs DEF CreateStore
    <3> QED
      BY <2>5, <3>1 DEF UsersDistinct, Listed, Distinct
  <2> QED
    BY <2>2, <2>3, <2>4, <2>5 DEF CreateStore, Goto
<1> QED
  BY <1>2, <1>3, <1>4, <1>5, <1>6, <1>7, <1>8, <1>9 DEF IInv

LEMMA WriteStoreStep ==
  ASSUME IInv, WriteStore
  PROVE  IInv'
<1>1. /\ TypeOK /\ ServerKnows /\ KeysKeepTheirUser /\ MemoryNamedRight
      /\ MidCall /\ SessionFirst /\ SignInIsRemembered /\ UsersDistinct
  BY DEF IInv
<1>2. TypeOK'
  <2>1. result' \in {"none", "ok", "error"}
    BY <1>1 DEF TypeOK, WriteStore, Return, Goto, Interrupted
  <2>2. Len(list') <= MaxAccounts /\ list' \in Seq(Entry)
    <3>1. <<>> \in Seq(Entry) /\ Len(<<>>) <= MaxAccounts
      BY MaxAccountsAssumption
    <3>2. list \in Seq(Entry) /\ Len(list) <= MaxAccounts /\ list' \in {<<>>, list}
      BY <1>1, WriteEffect DEF TypeOK
    <3> QED
      BY <3>1, <3>2
  <2>3. Len(storeFile') <= MaxAccounts
    <3>1. Len(list) \in Nat /\ Len(list) <= MaxAccounts
      BY <1>1 DEF TypeOK
    <3>2. storeFile' \in Seq(Entry) /\ Len(storeFile') <= Len(list)
      BY <1>1, WriteEffect
    <3> QED
      BY <3>1, <3>2, MaxAccountsAssumption
  <2> QED
    BY <1>1, <2>1, <2>2, <2>3, WriteEffect DEF TypeOK, WriteStore, serverVars
<1>3. ServerKnows'
  BY <1>1 DEF ServerKnows, WriteStore, serverVars
<1>4. KeysKeepTheirUser'
  <2>1. ASSUME NEW i \in 1 .. Len(storeFile') PROVE NamedRight(storeFile'[i])
    <3>1. i \in 1 .. Len(list) /\ list[i] \in Entry
      BY <1>1, WrittenLines, TypeFacts
    <3>2. CASE storeFile'[i] = list[i]
      BY <1>1, <3>1, <3>2 DEF MemoryNamedRight
    <3>3. CASE storeFile'[i] = [list[i] EXCEPT !.key = Damaged]
      BY <3>3 DEF NamedRight
    <3> QED
      BY <1>1, <3>2, <3>3, WrittenLines
  <2>2. \A i \in 1 .. Len(storeFile') : storeFile'[i].user \in Users
    BY <1>1, WrittenLines, TypeFacts
  <2> QED
    BY <1>1, <2>1, <2>2, NobodyAssumption DEF KeysKeepTheirUser, NamedRight, WriteStore,
           serverVars
<1>5. MemoryNamedRight'
  BY <1>1 DEF MemoryNamedRight, NamedRight, WriteStore, serverVars
<1>6. MidCall'
  BY <1>1 DEF MidCall, Saving, Listing, SigningIn, WriteStore, Goto, Return, Fault, NoFault
<1>7. SessionFirst'
  BY <1>1 DEF SessionFirst, Listing, SigningIn, WriteStore, NoFault, Fault
<1>8. SignInIsRemembered'
  <2>1. SUFFICES ASSUME pc' = "idle", result' = "ok", SigningIn, ~faulty'
                 PROVE  Persisted'
    BY DEF SignInIsRemembered, SignedIn, SigningIn, WriteStore
  <2>2. storeFile' = list /\ ~faulty
    <3>1. ~Fault
      BY <2>1 DEF Fault
    <3>2. storeFile' = list /\ NoFault
      BY <1>1, <2>1, <3>1, WriteEffect
    <3> QED
      BY <2>1, <3>2 DEF NoFault
  <2>3. list[1] = out[1] /\ list # <<>>
    BY <1>1, <2>1, WriteEffect DEF MidCall, WriteStore
  <2>4. sessionFile[app] # <<>> /\ sessionFile[app][1].key = out[1].key
    BY <1>1, <2>1, <2>2 DEF SessionFirst, Listing, WriteStore
  <2> QED
    BY <2>2, <2>3, <2>4 DEF Persisted, WriteStore
<1>9. UsersDistinct'
  <2>1. Distinct(list)
    BY <1>1 DEF UsersDistinct, Listed, Distinct, WriteStore
  <2>2. CASE pc' = "writeStore"
    BY <1>1, <2>1, <2>2, WriteEffect DEF UsersDistinct, Listed, Distinct
  <2>3. CASE pc' # "writeStore"
    <3>1. \A i \in 1 .. Len(storeFile') :
            i \in 1 .. Len(list) /\ storeFile'[i].user = list[i].user
      BY <1>1, WrittenLines
    <3> QED
      BY <2>1, <2>3, <3>1 DEF UsersDistinct, Listed, Distinct
  <2> QED
    BY <2>2, <2>3
<1> QED
  BY <1>2, <1>3, <1>4, <1>5, <1>6, <1>7, <1>8, <1>9 DEF IInv

LEMMA LaunchStep ==
  ASSUME IInv, NEW a \in Apps, Launch(a)
  PROVE  IInv'
<1>1. /\ TypeOK /\ ServerKnows /\ KeysKeepTheirUser /\ MemoryNamedRight
      /\ MidCall /\ SessionFirst /\ SignInIsRemembered /\ UsersDistinct
  BY DEF IInv
<1>2. TypeOK'
  <2>1. faults' \in 0 .. MaxFaults
    BY <1>1, MaxFaultsAssumption DEF TypeOK, Launch
  <2>2. list' \in Seq(Entry) /\ Len(list') <= MaxAccounts
    BY MaxAccountsAssumption DEF Launch
  <2> QED
    BY <1>1, <2>1, <2>2 DEF TypeOK, Launch, serverVars, files
<1>3. ServerKnows'
  BY <1>1 DEF ServerKnows, Launch, serverVars
<1>4. KeysKeepTheirUser'
  BY <1>1 DEF KeysKeepTheirUser, Launch, serverVars, files
<1>5. MemoryNamedRight'
  BY DEF MemoryNamedRight, Launch
<1>6. MidCall'
  BY DEF MidCall, Saving, Listing, Launch
<1>7. SessionFirst'
  BY DEF SessionFirst, SigningIn, Launch
<1>8. SignInIsRemembered'
  BY DEF SignInIsRemembered, SignedIn, Launch
<1>9. UsersDistinct'
  <2>1. CASE pc # "writeStore"
    BY <1>1, <2>1 DEF UsersDistinct, Listed, Launch, files
  <2>2. CASE pc = "writeStore"
    <3>1. \A i \in 1 .. Len(storeFile) : i \in 1 .. Len(list) /\ storeFile[i] = list[i]
      BY <1>1, <2>2, FrontIs DEF TypeOK
    <3> QED
      BY <1>1, <3>1 DEF UsersDistinct, Listed, Launch, files
  <2> QED
    BY <2>1, <2>2
<1> QED
  BY <1>2, <1>3, <1>4, <1>5, <1>6, <1>7, <1>8, <1>9 DEF IInv

LEMMA RevokeStep ==
  ASSUME IInv, NEW k \in Keys, Revoke(k)
  PROVE  IInv'
<1>1. /\ TypeOK /\ ServerKnows /\ KeysKeepTheirUser /\ MemoryNamedRight
      /\ MidCall /\ SessionFirst /\ SignInIsRemembered /\ UsersDistinct
  BY DEF IInv
<1>2. TypeOK'
  BY <1>1 DEF TypeOK, Revoke, files
<1>3. ServerKnows'
  BY <1>1, MarksAssumption DEF ServerKnows, Revoke
<1>4. KeysKeepTheirUser'
  BY <1>1 DEF KeysKeepTheirUser, Revoke, files
<1>5. MemoryNamedRight'
  BY <1>1 DEF MemoryNamedRight, NamedRight, Revoke
<1>6. MidCall'
  BY <1>1, TypeFacts, NobodyAssumption, DamagedAssumption DEF MidCall, Saving, Listing,
         SigningIn, TypeOK, Revoke, serverVars, files
<1>7. SessionFirst'
  BY <1>1, TypeFacts DEF SessionFirst, MidCall, Saving, Listing, SigningIn, TypeOK, Revoke,
         serverVars, files
<1>8. SignInIsRemembered'
  BY <1>1, TypeFacts DEF SignInIsRemembered, SignedIn, Persisted, SessionFirst, MidCall,
         Saving, Listing, SigningIn, TypeOK, Revoke, serverVars, files
<1>9. UsersDistinct'
  BY <1>1 DEF UsersDistinct, Listed, Revoke, serverVars, files
<1> QED
  BY <1>2, <1>3, <1>4, <1>5, <1>6, <1>7, <1>8, <1>9 DEF IInv

LEMMA InitInv == Init => IInv
<1> SUFFICES ASSUME Init PROVE IInv
  OBVIOUS
<1>1. TypeOK
  <2>1. <<>> \in Seq(Entry) /\ Len(<<>>) <= MaxAccounts /\ 0 \in 0 .. MaxFaults
    BY MaxAccountsAssumption, MaxFaultsAssumption
  <2> QED
    BY <2>1 DEF Init, TypeOK
<1>2. ServerKnows /\ KeysKeepTheirUser /\ MemoryNamedRight
  BY MarksAssumption DEF Init, ServerKnows, KeysKeepTheirUser, MemoryNamedRight
<1>3. MidCall /\ SessionFirst /\ SignInIsRemembered /\ UsersDistinct
  BY DEF Init, MidCall, Saving, Listing, SessionFirst, SignInIsRemembered, SignedIn,
         UsersDistinct, Listed
<1> QED
  BY <1>1, <1>2, <1>3 DEF IInv

LEMMA StutterInv == IInv /\ UNCHANGED vars => IInv'
BY DEF IInv, vars, serverVars, files, TypeOK, ServerKnows, KeysKeepTheirUser, MemoryNamedRight,
       NamedRight, MidCall, Saving, Listing, SigningIn, SessionFirst, SignInIsRemembered,
       SignedIn, Persisted, UsersDistinct, Listed

LEMMA NextInv == IInv /\ [Next]_vars => IInv'
<1> SUFFICES ASSUME IInv, [Next]_vars PROVE IInv'
  OBVIOUS
<1>1. ASSUME Login PROVE IInv'
  BY <1>1, LoginStep
<1>2. ASSUME LoginNew PROVE IInv'
  BY <1>2, LoginNewStep
<1>3. ASSUME SignOut PROVE IInv'
  BY <1>3, SignOutStep
<1>4. ASSUME NEW i \in 1 .. Len(storeFile), Resume(storeFile[i]) PROVE IInv'
  BY <1>4, ResumeStep
<1>5. ASSUME NEW u \in Users, Forget(u) PROVE IInv'
  BY <1>5, ForgetStep
<1>6. ASSUME NEW lost \in BOOLEAN, Validate(lost) PROVE IInv'
  BY <1>6, ValidateStep
<1>7. ASSUME Clear PROVE IInv'
  BY <1>7, ClearStep
<1>8. ASSUME DeviceFails PROVE IInv'
  BY <1>8, DeviceFailsStep
<1>9. ASSUME NEW u \in Users, NEW k \in Keys, DeviceSucceeds(u, k) PROVE IInv'
  BY <1>9, DeviceSucceedsStep
<1>10. ASSUME CreateSession PROVE IInv'
  BY <1>10, CreateSessionStep
<1>11. ASSUME WriteSession PROVE IInv'
  BY <1>11, WriteSessionStep
<1>12. ASSUME CreateStore PROVE IInv'
  BY <1>12, CreateStoreStep
<1>13. ASSUME WriteStore PROVE IInv'
  BY <1>13, WriteStoreStep
<1>14. ASSUME NEW a \in Apps, Launch(a) PROVE IInv'
  BY <1>14, LaunchStep
<1>15. ASSUME NEW k \in Keys, Revoke(k) PROVE IInv'
  BY <1>15, RevokeStep
<1>16. ASSUME RememberNobody PROVE IInv'
  BY <1>16, RememberNobodyStep
<1>17. CASE UNCHANGED vars
  BY <1>17, StutterInv
<1> QED
  BY <1>1, <1>2, <1>3, <1>4, <1>5, <1>6, <1>7, <1>8, <1>9, <1>10, <1>11, <1>12, <1>13,
     <1>14, <1>15, <1>16, <1>17 DEF Next

LEMMA Invariant == Spec => []IInv
BY InitInv, NextInv, PTL DEF Spec

\* The files, the server's keys and the call in progress are well typed, and the
\* accounts file never has more than XBL_ACCOUNTS_MAX lines, whatever fails.
THEOREM TypeCorrect == Spec => []TypeOK
<1>1. IInv => TypeOK
  BY DEF IInv
<1> QED
  BY <1>1, Invariant, PTL

\* A key on the disk is under the user it was issued to (xbl_session_validate).
THEOREM KeysKeepUsers == Spec => []KeysKeepTheirUser
<1>1. IInv => KeysKeepTheirUser
  BY DEF IInv
<1> QED
  BY <1>1, Invariant, PTL

\* A sign-in that met no fault is the session of its app and the first account
\* of the list (xbl_session_save, xbl_account_remember).
THEOREM SignInsAreRemembered == Spec => []SignInIsRemembered
<1>1. IInv => SignInIsRemembered
  BY DEF IInv
<1> QED
  BY <1>1, Invariant, PTL

\* No account is listed twice, on the disk or in a write that is on its way
\* (the loop of xbl_account_remember).
THEOREM NoAccountTwice == Spec => []UsersDistinct
<1>1. IInv => UsersDistinct
  BY DEF IInv
<1> QED
  BY <1>1, Invariant, PTL

-----------------------------------------------------------------------------
(* Refinement *)

\* The operators of the abstract store are those of the accounts file.
LEMMA SameOperators ==
  /\ \A n, s : Promise!Front(n, s) = Front(n, s)
  /\ \A u, s : Promise!Without(u, s) = Without(u, s)
<1>1. \A n, s : Promise!Front(n, s) = Front(n, s)
  BY Zenon DEF Promise!Front, Front
<1>2. \A u, s : Promise!Kept(u, s) = Kept(u, s)
  BY Zenon DEF Promise!Kept, Kept
<1> QED
  BY <1>1, <1>2, Zenon DEF Promise!Without, Without

\* A step of the promised list, or one that leaves both the list and the count of
\* faults alone.
Promised == Promise!Next \/ UNCHANGED <<Listed, faults>>

\* A fault that leaves the list alone.
LEMMA HarmlessFault ==
  ASSUME TypeOK, UNCHANGED Listed, faults' = faults + 1
  PROVE  Promised
BY DEF Promised, Promise!Next, Promise!Suffer

\* A write that stops after the lines on the disk loses the rest of its list.
LEMMA StoppedWriteLoses ==
  ASSUME TypeOK, pc = "writeStore", pc' # "writeStore", UNCHANGED storeFile,
         faults' = faults + 1
  PROVE  Promised
<1>1. /\ Listed = list /\ Listed' = storeFile
      /\ storeFile = Front(Len(storeFile), list)
      /\ Len(storeFile) \in 0 .. MaxAccounts
  BY MaxAccountsAssumption DEF TypeOK, Listed
<1>2. Promise!Lose(Len(storeFile))
  BY <1>1, SameOperators DEF Promise!Lose
<1> QED
  BY <1>1, <1>2 DEF Promised, Promise!Next, Promise!Suffer

LEMMA CreateStoreImplements ==
  ASSUME IInv, CreateStore
  PROVE  Promised
<1>1. TypeOK /\ MidCall /\ pc = "createStore" /\ Listed = storeFile
  BY DEF IInv, CreateStore, Listed
<1>2. CASE UNCHANGED storeFile /\ Return(Interrupted) /\ Fault
  BY <1>1, <1>2, HarmlessFault DEF Listed, Return, Fault
<1>3. CASE call = "forget" /\ list' = list /\ pc' = "writeStore" /\ NoFault
  <2>1. PICK u \in Users : list = Without(u, storeFile)
    BY <1>1, <1>3 DEF MidCall
  <2>2. Listed' = Without(u, Listed)
    BY <1>1, <1>3, <2>1 DEF Listed
  <2> QED
    BY <1>3, <2>2, SameOperators DEF Promised, Promise!Next, Promise!Forget, NoFault
<1>4. CASE call # "forget" /\ list' \in {Remembered(out[1]), <<out[1]>>} /\ pc' = "writeStore"
  <2> DEFINE u == out[1].user
             k == out[1].key
             e == [user |-> u, key |-> k]
  <2>1. out[1] = e /\ e \in Entry /\ u \in Users /\ k \in Keys
    BY <1>1, <1>4, RecalledIsEntry DEF Entry, CreateStore
  <2>2. CASE list' = Remembered(out[1]) /\ NoFault
    <3>1. Without(u, storeFile) \in Seq(Entry)
      BY <1>1, WithoutIs DEF TypeOK
    <3>2. Remembered(e) = Front(MaxAccounts, <<e>> \o Without(u, storeFile))
      BY <2>1, <3>1, FrontOfCons, MaxAccountsAssumption DEF Remembered
    <3>3. Listed' = Front(MaxAccounts, <<e>> \o Without(u, Listed))
      BY <1>1, <1>4, <2>1, <2>2, <3>2 DEF Listed
    <3>4. Promise!Remember(u, k)
      BY <3>3, SameOperators DEF Promise!Remember
    <3> QED
      BY <2>1, <2>2, <3>4 DEF Promised, Promise!Next, NoFault
  <2>3. CASE list' = <<out[1]>> /\ Fault
    <3>1. Promise!Replace(u, k)
      BY <1>4, <2>1, <2>3 DEF Promise!Replace, Listed
    <3> QED
      BY <2>1, <2>3, <3>1 DEF Promised, Promise!Next, Promise!Suffer, Fault
  <2> QED
    BY <1>1, <1>4, <2>2, <2>3 DEF CreateStore, Return
<1> QED
  BY <1>2, <1>3, <1>4 DEF CreateStore, Goto

LEMMA WriteStoreImplements ==
  ASSUME IInv, WriteStore
  PROVE  Promised
<1> DEFINE n == Len(storeFile)
<1>1. TypeOK /\ pc = "writeStore" /\ Listed = list
  BY DEF IInv, WriteStore, Listed
<1>2. CASE pc' = "writeStore" /\ list' = list
  <2>1. CASE NoFault
    BY <1>1, <1>2, <2>1 DEF Promised, Listed, NoFault
  <2>2. CASE Fault
    BY <1>1, <1>2, <2>2, HarmlessFault DEF Listed, Fault
  <2> QED
    BY <2>1, <2>2 DEF WriteStore
<1>3. CASE pc' = "idle" /\ storeFile' = list /\ NoFault
  BY <1>1, <1>3 DEF Promised, Listed, NoFault
<1>4. CASE pc' = "idle" /\ UNCHANGED storeFile /\ Fault
  BY <1>1, <1>4, StoppedWriteLoses DEF Fault
<1>5. CASE /\ pc' = "idle" /\ Fault
           /\ storeFile' = Append(storeFile, [list[n + 1] EXCEPT !.key = Damaged])
  <2>1. storeFile = Front(n, list) /\ n < Len(list) /\ n \in 0 .. MaxAccounts
    BY <1>1, MaxAccountsAssumption DEF TypeOK
  <2>2. Listed' = Append(Front(n, Listed), [Listed[n + 1] EXCEPT !.key = Damaged])
    BY <1>1, <1>5, <2>1 DEF Listed
  <2>3. Promise!Lose(n)
    BY <1>1, <2>1, <2>2, SameOperators DEF Promise!Lose
  <2> QED
    BY <1>5, <2>1, <2>3 DEF Promised, Promise!Next, Promise!Suffer, Fault
<1> QED
  BY <1>1, <1>2, <1>3, <1>4, <1>5, WriteEffect

LEMMA ForgetImplements ==
  ASSUME TypeOK, NEW u \in Users, Forget(u)
  PROVE  Promised
<1>1. Listed = storeFile /\ Listed' = storeFile'
  BY DEF Forget, Start, Listed
<1>2. CASE storeFile' = <<>> /\ Without(u, storeFile) = <<>> /\ Fresh
  <2>1. Listed' = Without(u, Listed)
    BY <1>1, <1>2
  <2> QED
    BY <1>2, <2>1, SameOperators DEF Promised, Promise!Next, Promise!Forget, Fresh
<1>3. CASE UNCHANGED storeFile /\ Fresh
  BY <1>1, <1>3 DEF Promised, Fresh
<1>4. CASE UNCHANGED storeFile /\ Fault
  BY <1>1, <1>4, HarmlessFault DEF Fault
<1> QED
  BY <1>2, <1>3, <1>4 DEF Forget

LEMMA LaunchImplements ==
  ASSUME IInv, NEW a \in Apps, Launch(a)
  PROVE  Promised
<1>1. TypeOK /\ pc' = "idle" /\ UNCHANGED storeFile
  BY DEF IInv, Launch, files
<1>2. CASE pc = "writeStore"
  BY <1>1, <1>2, StoppedWriteLoses DEF Launch
<1>3. CASE pc # "writeStore" /\ UNCHANGED faults
  BY <1>1, <1>3 DEF Promised, Listed
<1>4. CASE pc # "writeStore" /\ faults' = faults + 1
  BY <1>1, <1>4, HarmlessFault DEF Listed
<1> QED
  BY <1>2, <1>3, <1>4 DEF Launch

\* The steps that neither list nor forget leave the list alone.
LEMMA OthersStutter ==
  ASSUME TypeOK,
         \/ Login \/ LoginNew \/ SignOut
         \/ \E i \in 1 .. Len(storeFile) : Resume(storeFile[i])
         \/ \E lost \in BOOLEAN : Validate(lost)
         \/ Clear \/ DeviceFails
         \/ \E u \in Users, k \in Keys : DeviceSucceeds(u, k)
         \/ CreateSession \/ WriteSession \/ RememberNobody
         \/ \E k \in Keys : Revoke(k)
  PROVE  Promised
<1>1. UNCHANGED Listed
  BY DEF Listed, files, Login, LoginNew, SignOut, Resume, Start, Validate, Clear, DeviceFails,
         DeviceSucceeds, CreateSession, WriteSession, RememberNobody, Revoke, Goto, Return
<1>2. Fresh \/ NoFault \/ Fault
  BY DEF Login, LoginNew, SignOut, DeleteSession, Resume, Validate, Clear, DeviceFails,
         DeviceSucceeds, CreateSession, WriteSession, RememberNobody, Revoke, NoFault
<1> QED
  BY <1>1, <1>2, HarmlessFault DEF Promised, Fresh, NoFault, Fault

LEMMA StepImplements == IInv /\ [Next]_vars => [Promise!Next]_<<Listed, faults>>
<1> SUFFICES ASSUME IInv, [Next]_vars PROVE Promised
  BY DEF Promised
<1>1. TypeOK
  BY DEF IInv
<1>2. CASE CreateStore
  BY <1>2, CreateStoreImplements
<1>3. CASE WriteStore
  BY <1>3, WriteStoreImplements
<1>4. CASE \E u \in Users : Forget(u)
  BY <1>1, <1>4, ForgetImplements
<1>5. CASE \E a \in Apps : Launch(a)
  BY <1>5, LaunchImplements
<1>6. CASE UNCHANGED vars
  BY <1>6 DEF vars, files, Listed, Promised
<1> QED
  BY <1>1, <1>2, <1>3, <1>4, <1>5, <1>6, OthersStutter DEF Next

\* The two files and the calls that write them implement the list of accounts
\* that sdk/xblsdk.h promises: without a fault the list is exactly as promised,
\* and a fault loses no more of it than AccountStore says.
THEOREM StoreIsAsPromised == Spec => ImplementsAccountStore
<1>1. Init => Promise!Init
  BY DEF Init, Promise!Init, Listed
<1> QED
  BY <1>1, StepImplements, Invariant, PTL DEF Spec, ImplementsAccountStore, Promise!Spec
=============================================================================
