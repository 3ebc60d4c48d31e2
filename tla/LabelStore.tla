----------------------------- MODULE LabelStore -----------------------------
(***************************************************************************)
(* What a vault promises to the program that holds it open: a store of     *)
(* contents under labels, of which the file is a copy that only ever       *)
(* changes to the whole of what the program sees.                          *)
(***************************************************************************)
CONSTANTS
  Labels, Values,
  Blank,         \* the content of a category made on the way
  Absent,        \* the content of a label that is not there
  Categories,    \* Categories[l]: the labels that are made on the way to l
  None           \* no file, or no open vault

VARIABLES
  disk,   \* the contents in the file, or None
  view    \* the contents the program sees, or None while it has none open

vars == <<disk, view>>

Empty == [l \in Labels |-> Absent]

Init == disk = None /\ view = None

Create == disk = None /\ view = None /\ view' = Empty /\ UNCHANGED disk
Open   == view = None /\ disk # None /\ view' = disk /\ UNCHANGED disk
Close  == view' = None /\ UNCHANGED disk
Commit == view # None /\ disk' = view /\ UNCHANGED view

Put(l, v) ==
  /\ view # None /\ view[l] = Absent
  /\ view' = [k \in Labels |->
                CASE k = l -> v
                  [] k \in Categories[l] /\ view[k] = Absent -> Blank
                  [] OTHER -> view[k]]
  /\ UNCHANGED disk

Change(l, v) ==
  /\ view # None /\ view[l] # Absent
  /\ view' = [view EXCEPT ![l] = v]
  /\ UNCHANGED disk

Remove(l) == view # None /\ view[l] # Absent /\ view' = [view EXCEPT ![l] = Absent] /\ UNCHANGED disk

Next ==
  \/ Create \/ Open \/ Close \/ Commit
  \/ \E l \in Labels : Remove(l) \/ \E v \in Values \cup {Blank} : Put(l, v) \/ Change(l, v)

Spec == Init /\ [][Next]_vars
=============================================================================
