--------------------------------- MODULE Saves ---------------------------------
(***************************************************************************)
(* sdk/xbl_save.c: save slots of one title.  A slot is a folder with a     *)
(* label (SaveMeta.xbx) and a payload (data.bin).  A save rewrites the     *)
(* label and then the payload in place: each is emptied by CREATE_ALWAYS   *)
(* and then written.  A file operation may fail, a write may be short, and *)
(* the power may go between any two of them.                               *)
(***************************************************************************)
EXTENDS Integers, FiniteSets

CONSTANTS
  Slots,      \* folder names that slot_ok accepts
  Sizes,      \* payload lengths the game saves
  MaxSaves,   \* bound: calls of xbl_save_write
  Missing,    \* no such file
  Blank,      \* a file with no text in it
  Cut         \* a label whose name was cut short by a short write

ASSUME SlotsAssumption == IsFiniteSet(Slots)
ASSUME SizesAssumption == Sizes \subseteq Nat
ASSUME MaxSavesAssumption == MaxSaves \in Nat
ASSUME MarksAssumption ==
  /\ Missing # Blank /\ Missing # Cut /\ Blank # Cut
  /\ {Missing, Blank, Cut} \cap Nat = {}

\* The n-th save carries name n and payload n.  Of a name only what a list can
\* show counts, the first 63 characters: a longer one is not told from them.
Versions == 1 .. MaxSaves
Lengths == UNION {0 .. n : n \in Sizes}
Payloads == [save : Versions, size : Sizes, length : Lengths]
ASSUME PayloadAssumption == Missing \notin Payloads

Labels == Versions \cup {Missing, Blank, Cut}

Steps == {"idle", "create label", "write label", "create data", "write data",
          "delete data", "delete label", "remove folder"}

VARIABLES
  title,      \* TitleMeta.xbx
  folder,     \* folder[s]: the folder of slot s exists
  label,      \* label[s]: its SaveMeta.xbx, by the save whose name it holds
  data,       \* data[s]: its data.bin, by save, full size and bytes on the disk
  own,        \* own[s]: the folder has files that the game wrote by itself
  step,       \* where in a call the game's thread is
  slot,       \* the arguments of the call
  size,
  saves,      \* calls of xbl_save_write so far
  listed,     \* what the last xbl_save_list filled in, until the next call
  stored,     \* history: stored[s], the save that returned XBL_OK, until the next call on s
  refused,    \* history: the file system has refused a step of this delete
  unremoved,  \* history: unremoved[s], a DeleteFile on slot s has ever failed
  gone        \* history: gone[s], a delete of s that was refused nothing has returned,
              \* and nothing has been done to s since

files == <<title, folder, label, data, own>>
call == <<step, slot, size, saves>>
vars == <<files, call, listed, stored, refused, unremoved, gone>>

Unlisted == [max |-> 0, slots |-> {}, whole |-> FALSE]

Init ==
  /\ title = Missing
  /\ folder = [s \in Slots |-> FALSE]
  /\ label = [s \in Slots |-> Missing]
  /\ data = [s \in Slots |-> Missing]
  /\ own = [s \in Slots |-> FALSE]
  /\ step = "idle"
  /\ slot \in Slots
  /\ size \in Sizes
  /\ saves = 0
  /\ listed = Unlisted
  /\ stored = [s \in Slots |-> 0]
  /\ refused = FALSE
  /\ unremoved = [s \in Slots |-> FALSE]
  /\ gone = [s \in Slots |-> FALSE]

\* A call on slot s begins: what the game knew of the slot no longer holds.
Begin(s, first) ==
  /\ step = "idle"
  /\ step' = first
  /\ slot' = s
  /\ listed' = Unlisted
  /\ stored' = [stored EXCEPT ![s] = 0]
  /\ refused' = FALSE
  /\ gone' = [gone EXCEPT ![s] = FALSE]

\* The call goes on; it returns when the next step is "idle".
Continue(next) ==
  /\ step' = next
  /\ UNCHANGED <<slot, size, saves, title, own, listed>>

\* xbl_save_init
SaveInit ==
  /\ step = "idle"
  /\ title' \in {title, Blank, 1}
  /\ listed' = Unlisted
  /\ UNCHANGED <<folder, label, data, own, call, stored, refused, unremoved, gone>>

\* The game writes files of its own beside the two, or deletes them: "if you need
\* multiple files per save, write them next to SaveMeta.xbx" (docs/saves.md).
OwnFiles(s) ==
  /\ step = "idle"
  /\ folder[s]
  /\ own' = [own EXCEPT ![s] = ~@]
  /\ gone' = [gone EXCEPT ![s] = FALSE]
  /\ UNCHANGED <<title, folder, label, data, call, listed, stored, refused, unremoved>>

-----------------------------------------------------------------------------
(* xbl_save_write *)

\* Up to CreateDirectory, which may fail; its result is not looked at.
SaveWrite(s, n) ==
  /\ saves < MaxSaves
  /\ Begin(s, "create label")
  /\ saves' = saves + 1
  /\ size' = n
  /\ folder' \in {folder, [folder EXCEPT ![s] = TRUE]}
  /\ UNCHANGED <<title, label, data, own, unremoved>>

\* Wrong variant: the call goes on when the label could not be written.
CreateLabelUnchecked ==
  /\ step = "create label"
  /\ \/ /\ folder[slot]
        /\ label' = [label EXCEPT ![slot] = Blank]
        /\ Continue("write label")
     \/ label' = label /\ Continue("create data")
  /\ UNCHANGED <<folder, data, stored, refused, unremoved, gone>>

\* CreateFile of the label: emptied, or the call fails.
CreateLabel ==
  /\ step = "create label"
  /\ \/ /\ folder[slot]
        /\ label' = [label EXCEPT ![slot] = Blank]
        /\ Continue("write label")
     \/ label' = label /\ Continue("idle")
  /\ UNCHANGED <<folder, data, stored, refused, unremoved, gone>>

\* WriteFile of the label: whole; or short and the call fails, though what is cut
\* off may be no part of the name.
WriteLabel ==
  /\ step = "write label"
  /\ \/ /\ label' = [label EXCEPT ![slot] = saves]
        /\ Continue("create data")
     \/ /\ \E l \in {Blank, Cut, saves} : label' = [label EXCEPT ![slot] = l]
        /\ Continue("idle")
  /\ UNCHANGED <<folder, data, stored, refused, unremoved, gone>>

Payload(n) == [save |-> saves, size |-> size, length |-> n]

\* CreateFile of the payload.
CreateData ==
  /\ step = "create data"
  /\ \/ /\ folder[slot]
        /\ data' = [data EXCEPT ![slot] = Payload(0)]
        /\ Continue("write data")
     \/ data' = data /\ Continue("idle")
  /\ UNCHANGED <<folder, label, stored, refused, unremoved, gone>>

\* Wrong variant: wrote is not compared with len.
WriteDataUnchecked ==
  /\ step = "write data"
  /\ \E n \in 0 .. size : data' = [data EXCEPT ![slot] = Payload(n)]
  /\ stored' = [stored EXCEPT ![slot] = saves]
  /\ Continue("idle")
  /\ UNCHANGED <<folder, label, refused, unremoved, gone>>

\* WriteFile of the payload, which is not called for an empty one.
WriteData ==
  /\ step = "write data"
  /\ \E n \in 0 .. size :
       /\ data' = [data EXCEPT ![slot] = Payload(n)]
       /\ stored' = [stored EXCEPT ![slot] = IF n = size THEN saves ELSE 0]
  /\ Continue("idle")
  /\ UNCHANGED <<folder, label, refused, unremoved, gone>>

-----------------------------------------------------------------------------
(* xbl_save_delete, which looks at no result *)

\* Wrong variant: only the label and the folder are deleted.
SaveDeleteLabel(s) ==
  /\ Begin(s, "delete label")
  /\ UNCHANGED <<files, size, saves, unremoved>>

SaveDelete(s) ==
  /\ Begin(s, "delete data")
  /\ UNCHANGED <<files, size, saves, unremoved>>

\* DeleteFile of one of the two files: it fails and the file stays, or it is gone.
DeleteOne(file, file_) ==
  \/ /\ file_ = [file EXCEPT ![slot] = Missing]
     /\ UNCHANGED <<refused, unremoved>>
  \/ /\ file_ = file
     /\ refused' = TRUE
     /\ unremoved' = [unremoved EXCEPT ![slot] = TRUE]

\* Wrong variant: the label is deleted first.
DeleteLabelFirst ==
  /\ step = "delete data"
  /\ DeleteOne(label, label')
  /\ Continue("delete label")
  /\ UNCHANGED <<folder, data, stored, gone>>

DeleteData ==
  /\ step = "delete data"
  /\ DeleteOne(data, data')
  /\ Continue("delete label")
  /\ UNCHANGED <<folder, label, stored, gone>>

DeleteLabel ==
  /\ step = "delete label"
  /\ DeleteOne(label, label')
  /\ Continue("remove folder")
  /\ UNCHANGED <<folder, data, stored, gone>>

Empty(s) == label[s] = Missing /\ data[s] = Missing /\ ~own[s]

\* RemoveDirectory: the folder goes if it is empty; one that is not stays, and
\* one that is may stay too if the file system refuses.
RemoveFolder ==
  /\ step = "remove folder"
  /\ \/ /\ folder' = [folder EXCEPT ![slot] = @ /\ ~Empty(slot)]
        /\ gone' = [gone EXCEPT ![slot] = ~refused]
     \/ UNCHANGED <<folder, gone>>
  /\ refused' = FALSE
  /\ Continue("idle")
  /\ UNCHANGED <<label, data, stored, unremoved>>

-----------------------------------------------------------------------------
(* xbl_save_list, xbl_save_read *)

\* The first `max` of the entries, which the file system gives in any order.
FirstOf(entries, max) ==
  {some \in SUBSET entries :
     Cardinality(some) = IF Cardinality(entries) < max THEN Cardinality(entries) ELSE max}

Folders == {s \in Slots : folder[s]}

\* The entries that are folders.
Listable(max) == FirstOf(Folders, max)

\* xbl_save_list: what FindFirstFile and FindNextFile give; when one of them fails
\* the list ends there, and the result is XBL_OK all the same.
SaveList(max) ==
  /\ step = "idle"
  /\ \/ \E some \in Listable(max) :
          listed' = [max |-> max, slots |-> some, whole |-> TRUE]
     \/ \E n \in 0 .. max : \E some \in Listable(n) :
          listed' = [max |-> max, slots |-> some, whole |-> FALSE]
  /\ UNCHANGED <<files, call, stored, refused, unremoved, gone>>

\* The name a list shows of a label that it can read: the one in it, up to what
\* XblSaveInfo holds, or the folder's if there is none.
Name(s) == IF label[s] \in {Missing, Blank} THEN s ELSE label[s]

\* xbl_save_read with room for n bytes, of a file that can be read.
Read(s, n) ==
  [save |-> data[s].save, length |-> IF data[s].length < n THEN data[s].length ELSE n]

\* The power goes; or a fault ends the call.
PowerCut ==
  /\ step # "idle"
  /\ Continue("idle")
  /\ refused' = FALSE
  /\ UNCHANGED <<folder, label, data, stored, unremoved, gone>>

Next ==
  \/ SaveInit
  \/ \E s \in Slots : OwnFiles(s)
  \/ \E s \in Slots, n \in Sizes : SaveWrite(s, n)
  \/ CreateLabel \/ WriteLabel \/ CreateData \/ WriteData
  \/ \E s \in Slots : SaveDelete(s)
  \/ DeleteData \/ DeleteLabel \/ RemoveFolder
  \/ \E max \in 1 .. Cardinality(Slots) : SaveList(max)
  \/ PowerCut

Spec == Init /\ [][Next]_vars

-----------------------------------------------------------------------------
(* Correctness *)

\* Files are in folders, and hold what a save put there.
TypeOK ==
  /\ title \in {Missing, Blank, 1}
  /\ folder \in [Slots -> BOOLEAN]
  /\ label \in [Slots -> Labels]
  /\ data \in [Slots -> Payloads \cup {Missing}]
  /\ own \in [Slots -> BOOLEAN]
  /\ step \in Steps
  /\ slot \in Slots
  /\ size \in Sizes
  /\ saves \in 0 .. MaxSaves
  /\ listed \in [max : Nat, slots : SUBSET Slots, whole : BOOLEAN]
  /\ stored \in [Slots -> 0 .. MaxSaves]
  /\ refused \in BOOLEAN
  /\ unremoved \in [Slots -> BOOLEAN]
  /\ gone \in [Slots -> BOOLEAN]
  /\ \A s \in Slots : ~Empty(s) => folder[s]

\* A save that returned XBL_OK reads back whole and is
\* listed under its name, whatever happens to other slots (xblsdk.h 516-522).
SavedReadsBack ==
  \A s \in Slots : stored[s] # 0 =>
    /\ folder[s]
    /\ Name(s) = stored[s]
    /\ data[s] # Missing
    /\ Read(s, data[s].size) = [save |-> stored[s], length |-> data[s].size]

\* A list never shows a payload under the name of an older save: the label is
\* rewritten before the payload, and a label that cannot be written ends the
\* call (xbl_save_write), however many saves and deletes were cut short.
LabelNotOlder ==
  \A s \in Slots :
    label[s] \in Versions /\ data[s] # Missing => label[s] >= data[s].save

\* A payload always has a SaveMeta.xbx beside it, so that the dashboard shows
\* the slot (docs/saves.md): the label is created first and deleted last.
DataHasLabel ==
  \A s \in Slots : data[s] # Missing /\ ~unremoved[s] => label[s] # Missing

\* A delete clears what earlier calls that were cut short have left of the slot:
\* unless the file system refuses, its files are gone, and its folder stays only
\* for files of the game's own (xbl_save_delete).
DeletedIsGone ==
  \A s \in Slots : gone[s] =>
    label[s] = Missing /\ data[s] = Missing /\ (folder[s] => own[s])

\* A list with room for every slot misses none of the saves that returned XBL_OK,
\* unless FindFirstFile or FindNextFile has failed: xbl_save_list, which passes
\* over files that are no folders, does not tell.
ListMissesNone ==
  listed.whole /\ listed.max >= Cardinality(Slots) =>
    \A s \in Slots : stored[s] # 0 => s \in listed.slots
=============================================================================
