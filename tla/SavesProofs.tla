------------------------------ MODULE SavesProofs ------------------------------
(* Proofs about the save slots, for every set of slots, every set of payload *)
(* sizes and every number of saves.                                          *)
EXTENDS Saves, FiniteSetTheorems, TLAPS

\* Where a call is: what it has written so far, and what it has not yet.
MidCall ==
  /\ step \in {"create label", "write label", "create data", "write data"} =>
       saves \in Versions
  /\ step # "idle" => stored[slot] = 0 /\ ~gone[slot] /\ listed = Unlisted
  /\ step = "write label" => label[slot] = Blank
  /\ step \in {"create data", "write data"} => label[slot] = saves
  /\ step = "write data" => data[slot] # Missing
  /\ step \in {"delete label", "remove folder"} =>
       data[slot] = Missing \/ (refused /\ unremoved[slot])
  /\ step = "remove folder" => label[slot] = Missing \/ refused

\* No payload comes from a save that has not begun.
DataNotNewer == \A s \in Slots : data[s] # Missing => data[s].save <= saves

\* What a save that returned XBL_OK has left on the disk.
StoredOnDisk ==
  \A s \in Slots : stored[s] # 0 =>
    /\ label[s] = stored[s]
    /\ data[s] # Missing
    /\ data[s].save = stored[s]
    /\ data[s].length = data[s].size

\* The type invariant needs to know where the call is.
TInv == TypeOK /\ MidCall

-----------------------------------------------------------------------------
(* Lemmas about the operators *)

LEMMA MarksAreNoVersions ==
  /\ Missing \notin Versions /\ Blank \notin Versions /\ Cut \notin Versions
  /\ Missing \notin Payloads
  /\ Missing # Blank /\ Missing # Cut /\ Blank # Cut
<1>1. Versions \subseteq Nat
  BY MaxSavesAssumption DEF Versions
<1> QED
  BY <1>1, MarksAssumption, PayloadAssumption

\* The payload of the save that is on the way.
LEMMA PayloadFits ==
  ASSUME TypeOK, saves \in Versions, NEW n \in 0 .. size
  PROVE  /\ Payload(n) \in Payloads
         /\ Payload(n) # Missing
         /\ Payload(n).save = saves
         /\ Payload(n).length = n
         /\ Payload(n).size = size
<1>1. n \in Lengths
  BY DEF TypeOK, Lengths
<1>2. Payload(n) \in Payloads
  BY <1>1 DEF TypeOK, Payload, Payloads
<1> QED
  BY <1>2, MarksAreNoVersions DEF Payload

\* A list with room for every folder shows every folder.
LEMMA ListIsComplete ==
  ASSUME NEW max \in Nat, max >= Cardinality(Slots), NEW some \in Listable(max)
  PROVE  some = Folders
<1>1. IsFiniteSet(Folders) /\ Cardinality(Folders) <= Cardinality(Slots)
  BY SlotsAssumption, FS_Subset DEF Folders
<1>2. Cardinality(Folders) \in Nat /\ Cardinality(Slots) \in Nat
  BY <1>1, SlotsAssumption, FS_CardinalityType
<1>3. some \subseteq Folders /\ Cardinality(some) = Cardinality(Folders)
  <2>1. some \in SUBSET Folders
    BY DEF Listable, FirstOf
  <2>2. Cardinality(some) = IF Cardinality(Folders) < max THEN Cardinality(Folders) ELSE max
    BY DEF Listable, FirstOf
  <2> QED
    BY <1>1, <1>2, <2>1, <2>2
<1> QED
  BY <1>1, <1>3, FS_Subset

-----------------------------------------------------------------------------
(* Type correctness *)

LEMMA TypeInit == Init => TInv
<1> SUFFICES ASSUME Init PROVE TInv
  OBVIOUS
<1>1. 0 \in 0 .. MaxSaves
  BY MaxSavesAssumption
<1>2. /\ label \in [Slots -> Labels]
      /\ data \in [Slots -> Payloads \cup {Missing}]
      /\ stored \in [Slots -> 0 .. MaxSaves]
      /\ \A s \in Slots : label[s] = Missing /\ data[s] = Missing
  BY <1>1 DEF Init, Labels
<1>3. listed \in [max : Nat, slots : SUBSET Slots, whole : BOOLEAN]
  BY DEF Init, Unlisted
<1>4. TypeOK
  BY <1>1, <1>2, <1>3 DEF Init, TypeOK, Empty, Steps
<1>5. MidCall
  BY DEF Init, MidCall
<1> QED
  BY <1>4, <1>5 DEF TInv

LEMMA TypeSaveInit == TInv /\ SaveInit => TInv'
BY DEF TInv, TypeOK, Empty, MidCall, SaveInit, files, call, Unlisted

LEMMA TypeOwnFiles ==
  ASSUME TInv, NEW s \in Slots, OwnFiles(s)
  PROVE  TInv'
<1>1. TypeOK'
  BY DEF TInv, TypeOK, Empty, Empty, OwnFiles, call
<1>2. MidCall'
  BY DEF TInv, MidCall, OwnFiles, call
<1> QED
  BY <1>1, <1>2 DEF TInv

\* A call that begins forgets what the game knew of its slot.
LEMMA ForgetsStored ==
  ASSUME TInv, NEW s \in Slots, NEW first, Begin(s, first)
  PROVE  stored' \in [Slots -> 0 .. MaxSaves]
<1>1. stored \in [Slots -> 0 .. MaxSaves] /\ stored' = [stored EXCEPT ![s] = 0]
  BY DEF TInv, TypeOK, Begin
<1>2. 0 \in 0 .. MaxSaves
  BY MaxSavesAssumption
<1> QED
  BY <1>1, <1>2

LEMMA TypeSaveWrite ==
  ASSUME TInv, NEW s \in Slots, NEW n \in Sizes, SaveWrite(s, n)
  PROVE  TInv'
<1>1. saves' \in Versions /\ saves' \in 0 .. MaxSaves
  <2>1. saves \in 0 .. MaxSaves /\ saves < MaxSaves /\ saves' = saves + 1
    BY DEF TInv, TypeOK, SaveWrite
  <2> QED
    BY <2>1, MaxSavesAssumption DEF Versions
<1>2. stored' \in [Slots -> 0 .. MaxSaves]
  BY ForgetsStored DEF SaveWrite
<1>3. TypeOK'
  BY <1>1, <1>2 DEF TInv, TypeOK, Empty, SaveWrite, Begin, Steps, Unlisted
<1>4. MidCall'
  BY <1>1 DEF TInv, TypeOK, MidCall, SaveWrite, Begin
<1> QED
  BY <1>3, <1>4 DEF TInv

LEMMA TypeCreateLabel ==
  ASSUME TInv, CreateLabel
  PROVE  TInv'
<1>1. TypeOK'
  BY DEF TInv, TypeOK, Empty, MidCall, CreateLabel, Continue, Steps, Labels
<1>2. MidCall'
  BY DEF TInv, TypeOK, MidCall, CreateLabel, Continue
<1> QED
  BY <1>1, <1>2 DEF TInv

LEMMA TypeWriteLabel ==
  ASSUME TInv, WriteLabel
  PROVE  TInv'
<1>1. /\ saves \in Labels /\ Blank \in Labels /\ Cut \in Labels
      /\ slot \in Slots /\ folder[slot]
  BY MarksAreNoVersions DEF TInv, TypeOK, Empty, MidCall, WriteLabel, Labels
<1>2. PICK l \in Labels : label' = [label EXCEPT ![slot] = l]
  BY <1>1 DEF WriteLabel
<1>3. label' \in [Slots -> Labels]
  BY <1>2 DEF TInv, TypeOK
<1>4. \A s \in Slots : ~Empty(s)' => folder'[s]
  BY <1>1, <1>2 DEF TInv, TypeOK, Empty, WriteLabel, Continue
<1>5. TypeOK'
  BY <1>3, <1>4 DEF TInv, TypeOK, Empty, WriteLabel, Continue, Steps
<1>6. MidCall'
  BY DEF TInv, TypeOK, MidCall, WriteLabel, Continue
<1> QED
  BY <1>5, <1>6 DEF TInv

LEMMA TypeCreateData ==
  ASSUME TInv, CreateData
  PROVE  TInv'
<1>1. saves \in Versions /\ size \in Nat
  BY SizesAssumption DEF TInv, TypeOK, MidCall, CreateData
<1>2. Payload(0) \in Payloads /\ Payload(0) # Missing
  BY <1>1, PayloadFits DEF TInv
<1>3. TypeOK'
  BY <1>2 DEF TInv, TypeOK, Empty, CreateData, Continue, Steps
<1>4. MidCall'
  BY <1>2 DEF TInv, TypeOK, MidCall, CreateData, Continue
<1> QED
  BY <1>3, <1>4 DEF TInv

LEMMA TypeWriteData ==
  ASSUME TInv, WriteData
  PROVE  TInv'
<1>1. saves \in Versions /\ size \in Nat
  BY SizesAssumption DEF TInv, TypeOK, MidCall, WriteData
<1>2. PICK n \in 0 .. size :
        /\ data' = [data EXCEPT ![slot] = Payload(n)]
        /\ stored' = [stored EXCEPT ![slot] = IF n = size THEN saves ELSE 0]
  BY DEF WriteData
<1>3. Payload(n) \in Payloads /\ Payload(n) # Missing
  BY <1>1, PayloadFits DEF TInv
<1>4. stored' \in [Slots -> 0 .. MaxSaves]
  BY <1>1, <1>2, MaxSavesAssumption DEF TInv, TypeOK, Versions
<1>5. \A s \in Slots : ~Empty(s)' => folder'[s]
  BY <1>2 DEF TInv, TypeOK, Empty, MidCall, WriteData, Continue
<1>6. TypeOK'
  BY <1>2, <1>3, <1>4, <1>5 DEF TInv, TypeOK, Empty, WriteData, Continue, Steps
<1>7. MidCall'
  BY DEF TInv, MidCall, WriteData, Continue
<1> QED
  BY <1>6, <1>7 DEF TInv

LEMMA TypeSaveDelete ==
  ASSUME TInv, NEW s \in Slots, SaveDelete(s)
  PROVE  TInv'
<1>1. stored' \in [Slots -> 0 .. MaxSaves]
  BY ForgetsStored DEF SaveDelete
<1>2. TypeOK'
  BY <1>1 DEF TInv, TypeOK, Empty, SaveDelete, Begin, Steps, Unlisted, files
<1>3. MidCall'
  BY DEF TInv, TypeOK, MidCall, SaveDelete, Begin, files
<1> QED
  BY <1>2, <1>3 DEF TInv

LEMMA TypeDeleteData ==
  ASSUME TInv, DeleteData
  PROVE  TInv'
<1>1. TypeOK'
  BY DEF TInv, TypeOK, Empty, DeleteData, DeleteOne, Continue, Steps
<1>2. step' = "delete label" /\ UNCHANGED <<slot, stored, gone, listed>>
  BY DEF DeleteData, Continue
<1>3. data'[slot] = Missing \/ (refused' /\ unremoved'[slot])
  <2>1. CASE data' = [data EXCEPT ![slot] = Missing]
    BY <2>1 DEF TInv, TypeOK
  <2>2. CASE refused' = TRUE /\ unremoved' = [unremoved EXCEPT ![slot] = TRUE]
    BY <2>2 DEF TInv, TypeOK
  <2> QED
    BY <2>1, <2>2 DEF DeleteData, DeleteOne
<1>4. step # "idle"
  BY DEF DeleteData
<1>5. MidCall'
  BY <1>2, <1>3, <1>4 DEF TInv, MidCall, Unlisted
<1> QED
  BY <1>1, <1>5 DEF TInv

LEMMA TypeDeleteLabel ==
  ASSUME TInv, DeleteLabel
  PROVE  TInv'
<1>1. TypeOK'
  BY DEF TInv, TypeOK, Empty, DeleteLabel, DeleteOne, Continue, Steps, Labels
<1>2. MidCall'
  BY DEF TInv, TypeOK, MidCall, DeleteLabel, DeleteOne, Continue
<1> QED
  BY <1>1, <1>2 DEF TInv

LEMMA TypeRemoveFolder ==
  ASSUME TInv, RemoveFolder
  PROVE  TInv'
<1>1. TypeOK'
  BY DEF TInv, TypeOK, Empty, RemoveFolder, Continue, Steps
<1>2. MidCall'
  BY DEF TInv, MidCall, RemoveFolder, Continue
<1> QED
  BY <1>1, <1>2 DEF TInv

LEMMA TypeSaveList ==
  ASSUME TInv, NEW max \in 1 .. Cardinality(Slots), SaveList(max)
  PROVE  TInv'
<1>1. max \in Nat
  BY SlotsAssumption, FS_CardinalityType
<1>2. listed' \in [max : Nat, slots : SUBSET Slots, whole : BOOLEAN]
  <2>1. \A n \in Nat : \A some \in Listable(n) : some \in SUBSET Slots
    BY DEF Listable, FirstOf, Folders
  <2>2. \A n \in 0 .. max : n \in Nat
    BY <1>1
  <2>3. PICK n \in Nat : \E some \in Listable(n), b \in BOOLEAN :
               listed' = [max |-> max, slots |-> some, whole |-> b]
    BY <1>1, <2>2 DEF SaveList
  <2> QED
    BY <1>1, <2>1, <2>3
<1>3. TypeOK'
  BY <1>2 DEF TInv, TypeOK, Empty, SaveList, files, call
<1>4. MidCall'
  BY DEF TInv, MidCall, SaveList, files, call
<1> QED
  BY <1>3, <1>4 DEF TInv

LEMMA TypePowerCut == TInv /\ PowerCut => TInv'
BY DEF TInv, TypeOK, Empty, MidCall, PowerCut, Continue, Steps

LEMMA TypeStep == TInv /\ [Next]_vars => TInv'
<1> SUFFICES ASSUME TInv, [Next]_vars PROVE TInv'
  OBVIOUS
<1>1. CASE UNCHANGED vars
  BY <1>1 DEF vars, files, call, TInv, TypeOK, Empty, MidCall
<1>2. CASE Next
  BY <1>2, TypeSaveInit, TypeOwnFiles, TypeSaveWrite, TypeCreateLabel, TypeWriteLabel, TypeCreateData,
     TypeWriteData, TypeSaveDelete, TypeDeleteData, TypeDeleteLabel, TypeRemoveFolder,
     TypeSaveList, TypePowerCut
  DEF Next
<1> QED
  BY <1>1, <1>2

\* A folder has what is in it, and every file what a save put there, however the
\* calls of sdk/xbl_save.c fail or are cut short.
THEOREM TypeCorrect == Spec => []TypeOK
<1>1. TInv => TypeOK
  BY DEF TInv
<1> QED
  BY <1>1, TypeInit, TypeStep, PTL DEF Spec

-----------------------------------------------------------------------------
(* The inductive invariant *)

IInv ==
  /\ TInv
  /\ DataNotNewer
  /\ LabelNotOlder
  /\ DataHasLabel
  /\ StoredOnDisk
  /\ DeletedIsGone
  /\ ListMissesNone

LEMMA InvInit == Init => IInv
<1> SUFFICES ASSUME Init PROVE IInv
  OBVIOUS
<1>1. TInv
  BY TypeInit
<1>2. DataNotNewer /\ LabelNotOlder /\ DataHasLabel /\ StoredOnDisk /\ DeletedIsGone
  BY DEF Init, DataNotNewer, LabelNotOlder, DataHasLabel, StoredOnDisk, DeletedIsGone
<1>3. ListMissesNone
  BY DEF Init, ListMissesNone
<1> QED
  BY <1>1, <1>2, <1>3 DEF IInv

\* What the two steps of the payload do: it is left alone, or it is what there is
\* of the save on the way.
LEMMA CreateDataEffect ==
  ASSUME TInv, CreateData
  PROVE  /\ slot \in Slots /\ saves' = saves /\ saves \in Versions /\ label[slot] = saves
         /\ UNCHANGED <<folder, label, stored, unremoved, gone, listed>>
         /\ \A t \in Slots : t # slot => data'[t] = data[t]
         /\ data'[slot] = data[slot] \/ (data'[slot] # Missing /\ data'[slot].save = saves)
<1>1. saves \in Versions /\ size \in Nat /\ slot \in Slots
  BY SizesAssumption DEF TInv, TypeOK, MidCall, CreateData
<1>2. Payload(0) # Missing /\ Payload(0).save = saves
  BY <1>1, PayloadFits DEF TInv
<1>3. data' = data \/ data' = [data EXCEPT ![slot] = Payload(0)]
  BY DEF CreateData
<1>4. /\ \A t \in Slots : t # slot => data'[t] = data[t]
      /\ data'[slot] = data[slot] \/ (data'[slot] # Missing /\ data'[slot].save = saves)
  BY <1>1, <1>2, <1>3 DEF TInv, TypeOK
<1>5. saves' = saves /\ label[slot] = saves
  BY DEF TInv, MidCall, CreateData, Continue
<1>6. UNCHANGED <<folder, label, stored, unremoved, gone, listed>>
  BY DEF CreateData, Continue
<1> QED
  BY <1>1, <1>4, <1>5, <1>6

LEMMA WriteDataEffect ==
  ASSUME TInv, WriteData
  PROVE  /\ slot \in Slots /\ saves' = saves /\ saves \in Versions /\ label[slot] = saves
         /\ UNCHANGED <<folder, label, unremoved, gone, listed>>
         /\ \A t \in Slots : t # slot => data'[t] = data[t] /\ stored'[t] = stored[t]
         /\ data'[slot] # Missing /\ data'[slot].save = saves
         /\ stored'[slot] # 0 =>
              stored'[slot] = saves /\ data'[slot].length = data'[slot].size
<1>1. saves \in Versions /\ size \in Nat /\ slot \in Slots
  BY SizesAssumption DEF TInv, TypeOK, MidCall, WriteData
<1>2. PICK n \in 0 .. size :
        /\ data' = [data EXCEPT ![slot] = Payload(n)]
        /\ stored' = [stored EXCEPT ![slot] = IF n = size THEN saves ELSE 0]
  BY DEF WriteData
<1>3. /\ Payload(n) # Missing /\ Payload(n).save = saves
      /\ Payload(n).length = n /\ Payload(n).size = size
  BY <1>1, PayloadFits DEF TInv
<1>4. /\ \A t \in Slots : t # slot => data'[t] = data[t] /\ stored'[t] = stored[t]
      /\ data'[slot] = Payload(n)
      /\ stored'[slot] = IF n = size THEN saves ELSE 0
  BY <1>1, <1>2 DEF TInv, TypeOK
<1>5. saves' = saves /\ label[slot] = saves
  BY DEF TInv, MidCall, WriteData, Continue
<1>6. UNCHANGED <<folder, label, unremoved, gone, listed>>
  BY DEF WriteData, Continue
<1> QED
  BY <1>1, <1>3, <1>4, <1>5, <1>6

LEMMA DataNotNewerStep ==
  ASSUME IInv, TInv', Next
  PROVE  DataNotNewer'
<1> USE DEF IInv, TInv
<1>1. CASE SaveInit
  BY <1>1 DEF SaveInit, call, DataNotNewer
<1>2. ASSUME NEW s \in Slots, NEW n \in Sizes, SaveWrite(s, n) PROVE DataNotNewer'
  <2>1. data' = data /\ saves' = saves + 1
    BY <1>2 DEF SaveWrite
  <2>2. \A t \in Slots : data[t] # Missing => data[t].save \in Int
    BY DEF TypeOK, Payloads, Versions
  <2> QED
    BY <2>1, <2>2 DEF DataNotNewer, TypeOK
<1>3. CASE CreateData
  BY <1>3, CreateDataEffect DEF DataNotNewer, Versions
<1>4. CASE WriteData
  BY <1>4, WriteDataEffect DEF DataNotNewer, Versions
<1>5. CASE DeleteData
  BY <1>5 DEF TypeOK, DeleteData, DeleteOne, Continue, DataNotNewer
<1>6. CASE CreateLabel \/ WriteLabel \/ DeleteLabel \/ RemoveFolder \/ PowerCut
  BY <1>6 DEF CreateLabel, WriteLabel, DeleteLabel, RemoveFolder, PowerCut, Continue, DataNotNewer
<1>7. ASSUME NEW s \in Slots, SaveDelete(s) PROVE DataNotNewer'
  BY <1>7 DEF SaveDelete, files, DataNotNewer
<1>8. ASSUME NEW max \in 1 .. Cardinality(Slots), SaveList(max) PROVE DataNotNewer'
  BY <1>8 DEF SaveList, files, call, DataNotNewer
<1>9. ASSUME NEW s \in Slots, OwnFiles(s) PROVE DataNotNewer'
  BY <1>9 DEF OwnFiles, call, DataNotNewer
<1> QED
  BY <1>1, <1>2, <1>3, <1>4, <1>5, <1>6, <1>7, <1>8, <1>9 DEF Next

LEMMA LabelNotOlderStep ==
  ASSUME IInv, TInv', Next
  PROVE  LabelNotOlder'
<1> USE DEF IInv, TInv
<1>1. CASE SaveInit
  BY <1>1 DEF SaveInit, LabelNotOlder
<1>2. ASSUME NEW s \in Slots, NEW n \in Sizes, SaveWrite(s, n) PROVE LabelNotOlder'
  BY <1>2 DEF SaveWrite, LabelNotOlder
<1>3. CASE CreateLabel
  BY <1>3, MarksAreNoVersions DEF TypeOK, CreateLabel, LabelNotOlder
<1>4. CASE WriteLabel
  <2>1. /\ data' = data /\ saves \in Versions
        /\ \A t \in Slots : label'[t] \in {label[t], saves, Blank, Cut}
    BY <1>4 DEF TypeOK, MidCall, WriteLabel
  <2>2. \A t \in Slots : data[t] # Missing => saves >= data[t].save
    BY DEF DataNotNewer, TypeOK, Payloads, Versions
  <2> QED
    BY <2>1, <2>2, MarksAreNoVersions DEF LabelNotOlder
<1>5. CASE CreateData
  BY <1>5, CreateDataEffect DEF LabelNotOlder, Versions
<1>6. CASE WriteData
  BY <1>6, WriteDataEffect DEF LabelNotOlder, Versions
<1>7. ASSUME NEW s \in Slots, SaveDelete(s) PROVE LabelNotOlder'
  BY <1>7 DEF SaveDelete, files, LabelNotOlder
<1>8. CASE DeleteData
  BY <1>8 DEF TypeOK, DeleteData, DeleteOne, LabelNotOlder
<1>9. CASE DeleteLabel
  BY <1>9, MarksAreNoVersions DEF TypeOK, DeleteLabel, DeleteOne, LabelNotOlder
<1>10. CASE RemoveFolder \/ PowerCut
  BY <1>10 DEF RemoveFolder, PowerCut, LabelNotOlder
<1>11. ASSUME NEW max \in 1 .. Cardinality(Slots), SaveList(max) PROVE LabelNotOlder'
  BY <1>11 DEF SaveList, files, LabelNotOlder
<1>12. ASSUME NEW s \in Slots, OwnFiles(s) PROVE LabelNotOlder'
  BY <1>12 DEF OwnFiles, call, LabelNotOlder
<1> QED
  BY <1>1, <1>2, <1>3, <1>4, <1>5, <1>6, <1>7, <1>8, <1>9, <1>10, <1>11, <1>12 DEF Next

LEMMA DataHasLabelStep ==
  ASSUME IInv, TInv', Next
  PROVE  DataHasLabel'
<1> USE DEF IInv, TInv
<1>1. CASE SaveInit
  BY <1>1 DEF SaveInit, DataHasLabel
<1>2. ASSUME NEW s \in Slots, NEW n \in Sizes, SaveWrite(s, n) PROVE DataHasLabel'
  BY <1>2 DEF SaveWrite, DataHasLabel
<1>3. CASE CreateLabel
  BY <1>3, MarksAreNoVersions DEF TypeOK, CreateLabel, DataHasLabel
<1>4. CASE WriteLabel
  <2>1. /\ data' = data /\ unremoved' = unremoved /\ saves \in Versions
        /\ \A t \in Slots : label'[t] \in {label[t], saves, Blank, Cut}
    BY <1>4 DEF TypeOK, MidCall, WriteLabel
  <2> QED
    BY <2>1, MarksAreNoVersions DEF DataHasLabel
<1>5. CASE CreateData
  BY <1>5, CreateDataEffect, MarksAreNoVersions DEF DataHasLabel
<1>6. CASE WriteData
  BY <1>6, WriteDataEffect, MarksAreNoVersions DEF DataHasLabel
<1>7. ASSUME NEW s \in Slots, SaveDelete(s) PROVE DataHasLabel'
  BY <1>7 DEF SaveDelete, files, DataHasLabel
<1>8. CASE DeleteData
  BY <1>8 DEF TypeOK, DeleteData, DeleteOne, DataHasLabel
<1>9. CASE DeleteLabel
  <2>1. data[slot] = Missing \/ unremoved[slot]
    BY <1>9 DEF MidCall, DeleteLabel
  <2> QED
    BY <1>9, <2>1 DEF TypeOK, DeleteLabel, DeleteOne, DataHasLabel
<1>10. CASE RemoveFolder \/ PowerCut
  BY <1>10 DEF RemoveFolder, PowerCut, DataHasLabel
<1>11. ASSUME NEW max \in 1 .. Cardinality(Slots), SaveList(max) PROVE DataHasLabel'
  BY <1>11 DEF SaveList, files, DataHasLabel
<1>12. ASSUME NEW s \in Slots, OwnFiles(s) PROVE DataHasLabel'
  BY <1>12 DEF OwnFiles, call, DataHasLabel
<1> QED
  BY <1>1, <1>2, <1>3, <1>4, <1>5, <1>6, <1>7, <1>8, <1>9, <1>10, <1>11, <1>12 DEF Next

\* A slot on which a call runs is one of which nothing is stored.
LEMMA StoredOnDiskStep ==
  ASSUME IInv, TInv', Next
  PROVE  StoredOnDisk'
<1> USE DEF IInv, TInv
<1>1. CASE SaveInit
  BY <1>1 DEF SaveInit, StoredOnDisk
<1>2. ASSUME NEW s \in Slots, NEW n \in Sizes, SaveWrite(s, n) PROVE StoredOnDisk'
  BY <1>2 DEF TypeOK, SaveWrite, Begin, StoredOnDisk
<1>3. CASE CreateLabel \/ WriteLabel \/ DeleteLabel
  <2>1. /\ data' = data /\ stored' = stored /\ stored[slot] = 0
        /\ \A t \in Slots : t # slot => label'[t] = label[t]
    BY <1>3 DEF TypeOK, MidCall, CreateLabel, WriteLabel, DeleteLabel, DeleteOne
  <2> QED
    BY <2>1 DEF StoredOnDisk
<1>4. CASE CreateData
  <2>1. stored[slot] = 0
    BY <1>4 DEF MidCall, CreateData
  <2> QED
    BY <1>4, <2>1, CreateDataEffect DEF StoredOnDisk
<1>5. CASE WriteData
  BY <1>5, WriteDataEffect DEF StoredOnDisk
<1>6. CASE DeleteData
  <2>1. /\ label' = label /\ stored' = stored /\ stored[slot] = 0
        /\ \A t \in Slots : t # slot => data'[t] = data[t]
    BY <1>6 DEF TypeOK, MidCall, DeleteData, DeleteOne
  <2> QED
    BY <2>1 DEF StoredOnDisk
<1>7. ASSUME NEW s \in Slots, SaveDelete(s) PROVE StoredOnDisk'
  BY <1>7 DEF TypeOK, SaveDelete, Begin, files, StoredOnDisk
<1>8. CASE RemoveFolder \/ PowerCut
  BY <1>8 DEF RemoveFolder, PowerCut, StoredOnDisk
<1>9. ASSUME NEW max \in 1 .. Cardinality(Slots), SaveList(max) PROVE StoredOnDisk'
  BY <1>9 DEF SaveList, files, StoredOnDisk
<1>10. ASSUME NEW s \in Slots, OwnFiles(s) PROVE StoredOnDisk'
  BY <1>10 DEF OwnFiles, call, StoredOnDisk
<1> QED
  BY <1>1, <1>2, <1>3, <1>4, <1>5, <1>6, <1>7, <1>8, <1>9, <1>10 DEF Next

LEMMA DeletedIsGoneStep ==
  ASSUME IInv, TInv', Next
  PROVE  DeletedIsGone'
<1> USE DEF IInv, TInv
<1>1. CASE SaveInit
  BY <1>1 DEF SaveInit, DeletedIsGone
<1>2. ASSUME NEW s \in Slots, NEW n \in Sizes, SaveWrite(s, n) PROVE DeletedIsGone'
  <2>1. \A t \in Slots : t # s => folder'[t] = folder[t]
    BY <1>2 DEF TypeOK, SaveWrite
  <2>2. gone' = [gone EXCEPT ![s] = FALSE] /\ UNCHANGED <<label, data, own>>
    BY <1>2 DEF SaveWrite, Begin
  <2> QED
    BY <2>1, <2>2 DEF TypeOK, DeletedIsGone
<1>3. CASE CreateLabel \/ WriteLabel \/ CreateData \/ WriteData \/ DeleteData \/ DeleteLabel
  <2>1. UNCHANGED <<folder, own, gone>> /\ ~gone[slot]
    BY <1>3 DEF MidCall, CreateLabel, WriteLabel, CreateData, WriteData, DeleteData,
       DeleteLabel, Continue
  <2>2. \A t \in Slots : t # slot => label'[t] = label[t] /\ data'[t] = data[t]
    BY <1>3 DEF TypeOK, CreateLabel, WriteLabel, CreateData, WriteData, DeleteData,
       DeleteLabel, DeleteOne
  <2> QED
    BY <2>1, <2>2 DEF DeletedIsGone
<1>4. CASE RemoveFolder
  <2>1. /\ ~refused => label[slot] = Missing /\ data[slot] = Missing
        /\ ~gone[slot] /\ UNCHANGED <<label, data, own>>
    BY <1>4 DEF MidCall, RemoveFolder, Continue
  <2>2. CASE UNCHANGED <<folder, gone>>
    BY <2>1, <2>2 DEF DeletedIsGone
  <2>3. CASE /\ folder' = [folder EXCEPT ![slot] = @ /\ ~Empty(slot)]
             /\ gone' = [gone EXCEPT ![slot] = ~refused]
    <3>1. \A t \in Slots : t # slot => folder'[t] = folder[t] /\ gone'[t] = gone[t]
      BY <2>3 DEF TypeOK
    <3>2. gone'[slot] => ~refused /\ (folder'[slot] => ~Empty(slot))
      BY <2>3 DEF TypeOK
    <3> QED
      BY <2>1, <3>1, <3>2 DEF DeletedIsGone, Empty
  <2> QED
    BY <1>4, <2>2, <2>3 DEF RemoveFolder
<1>5. ASSUME NEW s \in Slots, SaveDelete(s) PROVE DeletedIsGone'
  BY <1>5 DEF TypeOK, SaveDelete, Begin, files, DeletedIsGone
<1>6. CASE PowerCut
  BY <1>6 DEF PowerCut, Continue, DeletedIsGone
<1>7. ASSUME NEW max \in 1 .. Cardinality(Slots), SaveList(max) PROVE DeletedIsGone'
  BY <1>7 DEF SaveList, files, DeletedIsGone
<1>8. ASSUME NEW s \in Slots, OwnFiles(s) PROVE DeletedIsGone'
  <2>1. /\ \A t \in Slots : t # s => own'[t] = own[t] /\ gone'[t] = gone[t]
        /\ ~gone'[s] /\ UNCHANGED <<folder, label, data>>
    BY <1>8 DEF TypeOK, OwnFiles
  <2> QED
    BY <2>1 DEF DeletedIsGone
<1> QED
  BY <1>1, <1>2, <1>3, <1>4, <1>5, <1>6, <1>7, <1>8 DEF Next

\* During a call there is no list; a list is of folders, and a list with room for
\* all of them has them all.
LEMMA ListMissesNoneStep ==
  ASSUME IInv, TInv', Next
  PROVE  ListMissesNone'
<1> USE DEF IInv, TInv
<1>1. listed' = Unlisted => ListMissesNone'
  BY DEF Unlisted, ListMissesNone
<1>2. CASE SaveInit
  BY <1>1, <1>2 DEF SaveInit
<1>3. ASSUME NEW s \in Slots, NEW n \in Sizes, SaveWrite(s, n) PROVE ListMissesNone'
  BY <1>1, <1>3 DEF SaveWrite, Begin
<1>4. ASSUME NEW s \in Slots, SaveDelete(s) PROVE ListMissesNone'
  BY <1>1, <1>4 DEF SaveDelete, Begin
<1>5. CASE CreateLabel \/ WriteLabel \/ CreateData \/ WriteData
  BY <1>1, <1>5 DEF MidCall, CreateLabel, WriteLabel, CreateData, WriteData, Continue
<1>6. CASE DeleteData \/ DeleteLabel \/ RemoveFolder \/ PowerCut
  BY <1>1, <1>6 DEF MidCall, DeleteData, DeleteLabel, RemoveFolder, PowerCut, Continue
<1>7. ASSUME NEW max \in 1 .. Cardinality(Slots), SaveList(max) PROVE ListMissesNone'
  <2>1. stored' = stored /\ \A s \in Slots : stored[s] # 0 => s \in Folders
    BY <1>7 DEF SaveList, StoredOnDisk, TypeOK, Empty, Folders
  <2>2. CASE ~listed'.whole
    BY <2>2 DEF ListMissesNone
  <2>3. ASSUME NEW some \in Listable(max),
               listed' = [max |-> max, slots |-> some, whole |-> TRUE]
        PROVE  ListMissesNone'
    <3>1. max \in Nat
      BY SlotsAssumption, FS_CardinalityType
    <3>2. max >= Cardinality(Slots) => some = Folders
      BY <3>1, ListIsComplete
    <3> QED
      BY <2>1, <2>3, <3>2 DEF ListMissesNone
  <2> QED
    BY <1>7, <2>2, <2>3 DEF SaveList
<1>8. ASSUME NEW s \in Slots, OwnFiles(s) PROVE ListMissesNone'
  BY <1>8 DEF OwnFiles, call, ListMissesNone
<1> QED
  BY <1>2, <1>3, <1>4, <1>5, <1>6, <1>7, <1>8 DEF Next

LEMMA InvStep == IInv /\ [Next]_vars => IInv'
<1> SUFFICES ASSUME IInv, [Next]_vars PROVE IInv'
  OBVIOUS
<1>1. TInv'
  BY TypeStep DEF IInv
<1>2. CASE UNCHANGED vars
  BY <1>1, <1>2 DEF vars, files, call, IInv, DataNotNewer, LabelNotOlder, DataHasLabel,
     StoredOnDisk, DeletedIsGone, ListMissesNone
<1>3. CASE Next
  BY <1>1, <1>3, DataNotNewerStep, LabelNotOlderStep, DataHasLabelStep, StoredOnDiskStep,
     DeletedIsGoneStep, ListMissesNoneStep DEF IInv
<1> QED
  BY <1>2, <1>3

LEMMA Invariant == Spec => []IInv
BY InvInit, InvStep, PTL DEF Spec

-----------------------------------------------------------------------------
(* The theorems *)

\* A list of saves never shows a payload under the name of an older save, however
\* many saves and deletes were cut short (xbl_save_write, label before payload).
THEOREM NamesAreNotOlder == Spec => []LabelNotOlder
<1>1. IInv => LabelNotOlder
  BY DEF IInv
<1> QED
  BY <1>1, Invariant, PTL

\* A payload has a SaveMeta.xbx beside it unless a DeleteFile failed on the slot
\* (xbl_save_write creates the label first, xbl_save_delete deletes it last).
THEOREM PayloadsHaveLabels == Spec => []DataHasLabel
<1>1. IInv => DataHasLabel
  BY DEF IInv
<1> QED
  BY <1>1, Invariant, PTL

\* A save that returned XBL_OK is listed under its name and reads back whole until
\* the next call on its slot, whatever is done to other slots (xbl_save_read).
THEOREM SavesReadBack == Spec => []SavedReadsBack
<1>1. IInv => SavedReadsBack
  <2> SUFFICES ASSUME IInv, NEW s \in Slots, stored[s] # 0
               PROVE  /\ folder[s]
                      /\ Name(s) = stored[s]
                      /\ data[s] # Missing
                      /\ Read(s, data[s].size) =
                           [save |-> stored[s], length |-> data[s].size]
    BY DEF SavedReadsBack
  <2>1. /\ label[s] = stored[s] /\ data[s] # Missing
        /\ data[s].save = stored[s] /\ data[s].length = data[s].size
    BY DEF IInv, StoredOnDisk
  <2>2. folder[s]
    BY <2>1 DEF IInv, TInv, TypeOK, Empty
  <2>3. stored[s] \in Versions
    BY MaxSavesAssumption DEF IInv, TInv, TypeOK, Versions
  <2>4. Name(s) = stored[s]
    BY <2>1, <2>3, MarksAreNoVersions DEF Name
  <2>5. Read(s, data[s].size) = [save |-> stored[s], length |-> data[s].size]
    BY <2>1 DEF Read
  <2> QED
    BY <2>1, <2>2, <2>4, <2>5
<1> QED
  BY <1>1, Invariant, PTL

\* After a delete that was refused nothing, both files of the slot are gone, whatever
\* calls that were cut short had left of it, and its folder is there only for files
\* of the game's own (xbl_save_delete, which looks at no result).
THEOREM DeletesAreComplete == Spec => []DeletedIsGone
<1>1. IInv => DeletedIsGone
  BY DEF IInv
<1> QED
  BY <1>1, Invariant, PTL

\* A list with room for every slot, during which no FindFirstFile or FindNextFile
\* failed, has every save that returned XBL_OK (xbl_save_list).
THEOREM ListsAreComplete == Spec => []ListMissesNone
<1>1. IInv => ListMissesNone
  BY DEF IInv
<1> QED
  BY <1>1, Invariant, PTL
=============================================================================
