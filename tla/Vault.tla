------------------------------- MODULE Vault -------------------------------
(***************************************************************************)
(* Vault and VaultDag of core/vault: labelled secrets in a graph of        *)
(* categories, kept in five maps and saved to one file after every change; *)
(* export, and import of what was exported.  One program at a time has the *)
(* vault open.  It may fail to write, and it may crash at any step; what   *)
(* it wrote stays written (a loss of power is not modelled: save does not  *)
(* flush).  Cipher, password and time stamps are left out.                 *)
(***************************************************************************)
EXTENDS Integers, Functions

CONSTANTS
  Labels, Values,
  Categories,        \* Categories[l]: parse_categories(l)
  Blank,             \* what create_category stores
  Ids, Root,         \* vertex ids; VertexId::new is random
  Absent, None, Partial,
  MaxChanges         \* bound: changes made

Nodes == Ids \cup {Root}
Item  == [label : Labels, value : Values \cup {Blank}]

\* secrets, label_index, parent_map and child_map; a missing entry is Absent,
\* or no parents and no children.  The time stamps follow the secrets.
Vaults ==
  [secrets : [Ids -> Item \cup {Absent}], index : [Labels -> Ids \cup {Absent}],
   parents : [Ids -> SUBSET Nodes], children : [Nodes -> SUBSET Ids], count : Nat]

\* What is in a file.
Snapshots == [secrets : [Ids -> Item \cup {Absent}], parents : [Ids -> SUBSET Nodes], count : Nat]

ASSUME VaultAssumption ==
  /\ Categories \in [Labels -> SUBSET Labels]
  \* What is before a slash has no slash.
  /\ \A l \in Labels : \A c \in Categories[l] : Categories[c] = {}
  /\ \A l \in Labels : l \notin Categories[l]
  /\ Root \notin Ids /\ Blank \notin Values /\ MaxChanges \in Nat
  /\ Absent \notin Ids \cup Item \cup Values \cup {Blank} /\ None # Partial
  /\ \A x \in {None, Partial} :
       x \notin Vaults /\ x \notin Snapshots /\ x \notin [Labels -> Values \cup {Blank, Absent}]

VARIABLES
  mem,       \* the open vault: its maps and secret_count, or None
  file,      \* the vault file: None, Partial or a snapshot
  tmp,       \* its .tmp: None, Partial or a snapshot
  exported,  \* the exported file: None, Partial or a snapshot
  pc,        \* where the program is
  todo,      \* the labels an import has yet to look at
  changes    \* changes made

files == <<file, tmp, exported>>
vars == <<mem, files, pc, todo, changes>>

Empty ==
  [secrets  |-> [i \in Ids |-> Absent],
   index    |-> [l \in Labels |-> Absent],
   parents  |-> [i \in Ids |-> {}],
   children |-> [n \in Nodes |-> {}],
   count    |-> 0]

\* serialize and the metadata, and deserialize, which builds the index from
\* the labels and the children from the parents.
Snapshot(d) == [secrets |-> d.secrets, parents |-> d.parents, count |-> d.count]

Present(d) == {i \in Ids : d.secrets[i] # Absent}

Reload(s) ==
  [secrets  |-> s.secrets,
   index    |-> [l \in Labels |->
                   IF \E i \in Present(s) : s.secrets[i].label = l
                   THEN CHOOSE i \in Present(s) : s.secrets[i].label = l
                   ELSE Absent],
   parents  |-> [i \in Ids |-> IF i \in Present(s) THEN s.parents[i] ELSE {}],
   children |-> [n \in Nodes |-> {i \in Present(s) : n \in s.parents[i]}],
   count    |-> s.count]

-----------------------------------------------------------------------------
(* The graph. *)

Secret(l, v) == [label |-> l, value |-> v]

\* add_secret of the graph, with create_category for the categories that are
\* missing; `ids` are the new vertices and `up` their parents.
Missing(d, l) == {l} \cup {c \in Categories[l] : d.index[c] = Absent}
FreshIds(d, l) == {f \in [Missing(d, l) -> Ids \ Present(d)] : IsInjective(f)}

Insert(d, l, v, ids) ==
  LET index == [k \in Labels |-> IF k \in Missing(d, l) THEN ids[k] ELSE d.index[k]]
      new   == Range(ids)
      up    == [i \in new |-> IF i = ids[l] /\ Categories[l] # {}
                             THEN {index[c] : c \in Categories[l]} ELSE {Root}]
  IN [secrets  |-> [i \in Ids |->
                     IF i = ids[l] THEN Secret(l, v)
                     ELSE IF i \in new THEN Secret(CHOOSE c \in Categories[l] : index[c] = i, Blank)
                     ELSE d.secrets[i]],
      index    |-> index,
      parents  |-> [i \in Ids |-> IF i \in new THEN up[i] ELSE d.parents[i]],
      children |-> [n \in Nodes |-> d.children[n] \cup {i \in new : n \in up[i]}],
      count    |-> d.count + 1]

Update(d, l, v) == [d EXCEPT !.secrets[d.index[l]].value = v]

\* mutant: the children of a deleted category are left without a parent
RemoveOnly(d, l) ==
  LET i == d.index[l]
  IN [secrets  |-> [d.secrets EXCEPT ![i] = Absent],
      index    |-> [d.index EXCEPT ![l] = Absent],
      parents  |-> [k \in Ids |-> IF k = i THEN {} ELSE d.parents[k] \ {i}],
      children |-> [n \in Nodes |-> IF n = i THEN {} ELSE d.children[n] \ {i}],
      count    |-> IF d.count = 0 THEN 0 ELSE d.count - 1]

\* mutant: the parents keep the deleted child
RemoveForgetting(d, l) ==
  LET i == d.index[l]
      orphans == {k \in d.children[i] : d.parents[k] = {i}}
  IN [secrets  |-> [d.secrets EXCEPT ![i] = Absent],
      index    |-> [d.index EXCEPT ![l] = Absent],
      parents  |-> [k \in Ids |-> CASE k = i -> {} [] k \in orphans -> {Root}
                                     [] OTHER -> d.parents[k] \ {i}],
      children |-> [n \in Nodes |-> CASE n = i -> {} [] n = Root -> d.children[n] \cup orphans
                                       [] OTHER -> d.children[n]],
      count    |-> IF d.count = 0 THEN 0 ELSE d.count - 1]

\* delete_secret: a child that loses its last parent goes to the root.
Remove(d, l) ==
  LET i == d.index[l]
      orphans == {k \in d.children[i] : d.parents[k] = {i}}
  IN [secrets  |-> [d.secrets EXCEPT ![i] = Absent],
      index    |-> [d.index EXCEPT ![l] = Absent],
      parents  |-> [k \in Ids |-> CASE k = i -> {} [] k \in orphans -> {Root}
                                     [] OTHER -> d.parents[k] \ {i}],
      children |-> [n \in Nodes |-> CASE n = i -> {} [] n = Root -> (d.children[n] \ {i}) \cup orphans
                                       [] OTHER -> d.children[n] \ {i}],
      count    |-> IF d.count = 0 THEN 0 ELSE d.count - 1]

-----------------------------------------------------------------------------
(* The operations.  One that changes something saves before it returns. *)

Create ==
  /\ pc = "closed" /\ file = None
  /\ mem' = Empty /\ pc' = "save"
  /\ UNCHANGED <<files, todo, changes>>

Open ==
  /\ pc = "closed" /\ file \notin {None, Partial}
  /\ mem' = Reload(file) /\ pc' = "open"
  /\ UNCHANGED <<files, todo, changes>>

\* What is in memory is lost, whatever the program is at.
CloseOrCrash ==
  /\ pc # "closed"
  /\ mem' = None /\ pc' = "closed" /\ todo' = {}
  /\ UNCHANGED <<files, changes>>

ChangeTo(d) ==
  /\ pc = "open" /\ changes < MaxChanges
  /\ mem' = d /\ pc' = "save" /\ changes' = changes + 1
  /\ UNCHANGED <<files, todo>>

AddSecret(l, v) ==
  /\ pc = "open" /\ mem.index[l] = Absent
  /\ FreshIds(mem, l) # {}
  /\ ChangeTo(Insert(mem, l, v, CHOOSE f \in FreshIds(mem, l) : TRUE))

UpdateSecret(l, v) ==
  /\ pc = "open" /\ mem.index[l] # Absent
  /\ ChangeTo(Update(mem, l, v))

DeleteSecret(l) ==
  /\ pc = "open" /\ mem.index[l] # Absent
  /\ ChangeTo(Remove(mem, l))

\* export copies the file, as it is on disk, onto another.
Export ==
  /\ pc = "open"
  /\ exported' = Partial /\ pc' = "exporting"
  /\ UNCHANGED <<mem, file, tmp, todo, changes>>

FinishExport ==
  /\ pc = "exporting"
  /\ exported' = file /\ pc' = "open"
  /\ UNCHANGED <<mem, file, tmp, todo, changes>>

\* The write fails: what was there is truncated, and the vault stays open.
ExportFails ==
  /\ pc = "exporting"
  /\ pc' = "open"
  /\ UNCHANGED <<mem, files, todo, changes>>

\* import takes the labels of the other file in the order of its HashMap.
Import ==
  /\ pc = "open" /\ exported \notin {None, Partial} /\ changes < MaxChanges
  /\ todo' = {exported.secrets[i].label : i \in Present(exported)}
  /\ pc' = "importing" /\ changes' = changes + 1
  /\ UNCHANGED <<mem, files>>

ImportOne(l) ==
  LET there == Reload(exported) IN
  /\ pc = "importing" /\ l \in todo
  /\ IF mem.index[l] # Absent
     THEN UNCHANGED mem
     ELSE /\ FreshIds(mem, l) # {}
          /\ mem' = Insert(mem, l, there.secrets[there.index[l]].value,
                           CHOOSE f \in FreshIds(mem, l) : TRUE)
  /\ todo' = todo \ {l}
  /\ UNCHANGED <<files, pc, changes>>

FinishImport ==
  /\ pc = "importing" /\ todo = {}
  /\ pc' = "save"
  /\ UNCHANGED <<mem, files, todo, changes>>

-----------------------------------------------------------------------------
(* save_internal. *)

\* mutant: the file itself is written
BeginWriteInPlace ==
  /\ pc = "save"
  /\ file' = Partial /\ pc' = "write"
  /\ UNCHANGED <<mem, tmp, exported, todo, changes>>

BeginWrite ==
  /\ pc = "save"
  /\ tmp' = Partial /\ pc' = "write"
  /\ UNCHANGED <<mem, file, exported, todo, changes>>

FinishWrite ==
  /\ pc = "write"
  /\ tmp' = Snapshot(mem) /\ pc' = "rename"
  /\ UNCHANGED <<mem, file, exported, todo, changes>>

Rename ==
  /\ pc = "rename"
  /\ file' = tmp /\ tmp' = None /\ pc' = "open"
  /\ UNCHANGED <<mem, exported, todo, changes>>

\* An error of the file system: the operation fails, and what it changed in
\* memory stays, for the next save to write.  A vault that could not be
\* created is not returned.
WriteFails ==
  /\ pc \in {"save", "write", "rename"}
  /\ IF file = None THEN mem' = None /\ pc' = "closed"
                    ELSE UNCHANGED mem /\ pc' = "open"
  /\ UNCHANGED <<files, todo, changes>>

-----------------------------------------------------------------------------

Init ==
  /\ mem = None /\ file = None /\ tmp = None /\ exported = None
  /\ pc = "closed" /\ todo = {} /\ changes = 0

Next ==
  \/ Create \/ Open \/ CloseOrCrash
  \/ \E l \in Labels :
       \/ DeleteSecret(l) \/ ImportOne(l)
       \/ \E v \in Values : AddSecret(l, v) \/ UpdateSecret(l, v)
  \/ Export \/ FinishExport \/ ExportFails \/ Import \/ FinishImport
  \/ BeginWrite \/ FinishWrite \/ Rename \/ WriteFails

Spec == Init /\ [][Next]_vars

-----------------------------------------------------------------------------
(* What holds. *)

TypeOK ==
  /\ mem \in Vaults \cup {None}
  /\ {file, tmp, exported} \subseteq Snapshots \cup {None, Partial}
  /\ pc \in {"closed", "open", "save", "write", "rename", "exporting", "importing"}
  /\ mem = None <=> pc = "closed"
  /\ todo \subseteq Labels /\ changes \in 0 .. MaxChanges

\* Closing and opening a vault changes nothing in it: the index and the
\* children, which are not saved, are what labels and parents say, after any
\* additions, deletions of categories, imports and failed writes
\* (dag_storage.rs:135, 273, 299-316, 521).
ReopensAsIs == TypeOK /\ (mem # None => Reload(Snapshot(mem)) = mem)

\* Every secret of a vault, open, saved or exported, hangs on the root or on
\* categories that are there and hang on the root themselves, and no two have
\* the same label: what list_secrets and find_descendants follow
\* has neither loose ends nor cycles (dag_storage.rs:299-316).
HangsTogether ==
  \A d \in {mem, file, exported} \ {None, Partial} :
    \A i \in Present(d) :
      /\ d.parents[i] # {}
      /\ d.parents[i] \subseteq Present(d) \cup {Root}
      /\ \A c \in d.parents[i] \ {Root} : d.parents[c] = {Root}
      /\ \A j \in Present(d) : d.secrets[i].label = d.secrets[j].label => i = j

Contents(d) ==
  IF d = None THEN None
  ELSE [l \in Labels |-> LET at == {i \in Present(d) : d.secrets[i].label = l}
                        IN IF at = {} THEN Absent ELSE d.secrets[CHOOSE i \in at : TRUE].value]

\* The file is never seen half written, holds the whole of what one program
\* saw, and a program that opens it sees just that, whatever crashes and
\* failures of the file system there were (vault.rs:343-345).
Store == INSTANCE LabelStore WITH
  disk <- IF file = Partial THEN Partial ELSE Contents(file), view <- Contents(mem)
RefinesLabelStore == Store!Spec

=============================================================================
