---------------------------- MODULE VaultProofs ----------------------------
(***************************************************************************)
(* For any labels, categories, values and vertex ids: a vault reopens as   *)
(* it was, its graph hangs together, and it implements LabelStore.         *)
(*                                                                         *)
(* The argument is about one vault at a time.  In a sound vault the index  *)
(* says where each label is and the children are the parents turned round, *)
(* so that a reload of what is saved gives the vault back.  Each operation *)
(* keeps a vault sound and does to its contents what LabelStore says; and  *)
(* a file holds nothing but what is saved of sound vaults.                 *)
(***************************************************************************)
EXTENDS Vault, TLAPS

LabelAt(d, i) == d.secrets[i].label

\* label_index points to where the labels are.
Indexed(d) ==
  /\ \A l \in Labels : d.index[l] # Absent => d.index[l] \in Present(d) /\ LabelAt(d, d.index[l]) = l
  /\ \A i \in Present(d) : d.index[LabelAt(d, i)] = i

\* child_map is parent_map turned round, and only vertices have parents.
Mirrored(d) ==
  /\ \A i \in Ids \ Present(d) : d.parents[i] = {}
  /\ \A n \in Nodes : d.children[n] = {i \in Ids : n \in d.parents[i]}

\* Parents are the root or categories.
Hung(d) ==
  \A i \in Present(d) :
    /\ d.parents[i] # {}
    /\ \A n \in d.parents[i] \ {Root} : n \in Present(d) /\ LabelAt(d, n) \in Categories[LabelAt(d, i)]

Sound(d) == d \in Vaults /\ Indexed(d) /\ Mirrored(d) /\ Hung(d)

Saved(f) == f \in {None, Partial} \/ \E d \in Vaults : Sound(d) /\ f = Snapshot(d)

\* An import has yet to look at labels that the exported file has.
Importing ==
  /\ exported \notin {None, Partial}
  /\ \A l \in todo : \E i \in Present(exported) : LabelAt(exported, i) = l

Types ==
  /\ pc \in {"closed", "open", "save", "write", "rename", "exporting", "importing"}
  /\ mem = None <=> pc = "closed"
  /\ todo \subseteq Labels /\ changes \in 0 .. MaxChanges

Inv ==
  /\ Types
  /\ mem # None => Sound(mem)
  /\ file # Partial /\ Saved(file) /\ Saved(tmp) /\ Saved(exported)
  /\ pc = "rename" => tmp = Snapshot(mem)
  /\ pc = "importing" => Importing

-----------------------------------------------------------------------------
(* One vault. *)

\* The fields of a vault, as functions.
LEMMA Fields ==
  ASSUME NEW d \in Vaults
  PROVE  /\ d.secrets \in [Ids -> Item \cup {Absent}]
         /\ d.index \in [Labels -> Ids \cup {Absent}]
         /\ d.parents \in [Ids -> SUBSET Nodes]
         /\ d.children \in [Nodes -> SUBSET Ids]
         /\ d.count \in Nat
         /\ d # None /\ d # Partial /\ Present(d) \subseteq Ids
         /\ \A i \in Present(d) : d.secrets[i] \in Item
BY VaultAssumption DEF Vaults, Present

LEMMA SecretFields ==
  ASSUME NEW k \in Labels, NEW w \in Values \cup {Blank}
  PROVE  Secret(k, w) \in Item /\ Secret(k, w).label = k /\ Secret(k, w).value = w
BY DEF Secret, Item

\* What is saved of a vault has its secrets and its parents.
LEMMA OfSnapshot ==
  ASSUME NEW d \in Vaults
  PROVE  /\ Snapshot(d) \in Snapshots /\ Snapshot(d) # None /\ Snapshot(d) # Partial
         /\ Snapshot(d).secrets = d.secrets /\ Snapshot(d).parents = d.parents
         /\ Snapshot(d).count = d.count /\ Present(Snapshot(d)) = Present(d)
BY Fields, VaultAssumption DEF Snapshot, Snapshots, Present

\* A new vault is sound (VaultDag::new).
LEMMA EmptyIsSound == Sound(Empty)
<1>1. Empty \in Vaults
  BY DEF Empty, Vaults
<1>2. Present(Empty) = {}
  BY DEF Present, Empty
<1>3. \A n \in Nodes : Empty.children[n] = {i \in Ids : n \in Empty.parents[i]}
  BY DEF Empty
<1>4. Indexed(Empty) /\ Mirrored(Empty) /\ Hung(Empty)
  BY <1>2, <1>3 DEF Indexed, Mirrored, Hung, Empty
<1> QED BY <1>1, <1>4 DEF Sound

\* Saving a sound vault and reading it back changes nothing (deserialize).
LEMMA ReloadSnapshot ==
  ASSUME NEW d, Sound(d)
  PROVE  Reload(Snapshot(d)) = d
<1> DEFINE s == Snapshot(d)
<1>0. d \in Vaults /\ Indexed(d) /\ Mirrored(d)
  BY DEF Sound
<1>1. /\ s.secrets = d.secrets /\ s.parents = d.parents /\ s.count = d.count
      /\ Present(s) = Present(d)
  BY <1>0, OfSnapshot
<1>2. /\ d.index \in [Labels -> Ids \cup {Absent}] /\ d.parents \in [Ids -> SUBSET Nodes]
      /\ d.children \in [Nodes -> SUBSET Ids] /\ Present(d) \subseteq Ids
      /\ d.secrets \in [Ids -> Item \cup {Absent}]
      /\ \A i \in Present(d) : d.secrets[i] \in Item
  BY <1>0, Fields
<1> HIDE DEF s
<1>3. ASSUME NEW l \in Labels
      PROVE  (IF \E i \in Present(d) : d.secrets[i].label = l
              THEN CHOOSE i \in Present(d) : d.secrets[i].label = l
              ELSE Absent) = d.index[l]
  <2>1. CASE \E i \in Present(d) : d.secrets[i].label = l
    <3>1. \A i \in Present(d) : d.secrets[i].label = l => i = d.index[l]
      BY <1>0 DEF Indexed, LabelAt
    <3> QED BY <2>1, <3>1
  <2>2. CASE ~ \E i \in Present(d) : d.secrets[i].label = l
    BY <2>2, <1>0 DEF Indexed, LabelAt
  <2> QED BY <2>1, <2>2
<1>4. Reload(s).index = d.index
  BY <1>1, <1>2, <1>3 DEF Reload
<1>5. Reload(s).parents = d.parents
  BY <1>0, <1>1, <1>2 DEF Reload, Mirrored
<1>6. Reload(s).children = d.children
  <2>1. ASSUME NEW n \in Nodes
        PROVE  {i \in Present(d) : n \in d.parents[i]} = d.children[n]
    BY <1>0, <1>2 DEF Mirrored
  <2> QED BY <1>1, <1>2, <2>1 DEF Reload
<1>7. Reload(s) = [secrets |-> d.secrets, index |-> d.index, parents |-> d.parents,
                   children |-> d.children, count |-> d.count]
  <2>1. Reload(s).secrets = d.secrets /\ Reload(s).count = d.count
    BY <1>1 DEF Reload
  <2>2. Reload(s) = [secrets |-> Reload(s).secrets, index |-> Reload(s).index,
                     parents |-> Reload(s).parents, children |-> Reload(s).children,
                     count |-> Reload(s).count]
    BY DEF Reload
  <2> QED BY <2>1, <2>2, <1>4, <1>5, <1>6
<1>8. d = [secrets |-> d.secrets, index |-> d.index, parents |-> d.parents,
           children |-> d.children, count |-> d.count]
  BY <1>0 DEF Vaults
<1> QED BY <1>7, <1>8 DEF s

-----------------------------------------------------------------------------
(* add_secret of the graph. *)

\* e is d with the vertices ids for the labels an addition of l makes; nothing
\* else of secrets and parents changes.
Adds(d, l, v, ids, e) ==
  /\ e \in Vaults
  /\ \A k \in Missing(d, l) :
       /\ ids[k] \in Ids \ Present(d)
       /\ e.index[k] = ids[k]
       /\ e.secrets[ids[k]] = Secret(k, IF k = l THEN v ELSE Blank)
       /\ e.parents[ids[k]] = IF k = l /\ Categories[l] # {}
                              THEN {e.index[c] : c \in Categories[l]} ELSE {Root}
  /\ \A k \in Labels \ Missing(d, l) : e.index[k] = d.index[k]
  /\ \A j, k \in Missing(d, l) : ids[j] = ids[k] => j = k
  /\ \A i \in Ids : \/ \E k \in Missing(d, l) : i = ids[k]
                    \/ e.secrets[i] = d.secrets[i] /\ e.parents[i] = d.parents[i]
  /\ \A n \in Nodes : e.children[n] = {i \in Ids : n \in e.parents[i]}

LEMMA Inserted ==
  ASSUME NEW d, Sound(d), NEW l \in Labels, d.index[l] = Absent,
         NEW v \in Values \cup {Blank}, NEW ids \in FreshIds(d, l)
  PROVE  Adds(d, l, v, ids, Insert(d, l, v, ids))
<1> DEFINE M == Missing(d, l)
           index == [k \in Labels |-> IF k \in M THEN ids[k] ELSE d.index[k]]
           new == Range(ids)
           up == [i \in new |-> IF i = ids[l] /\ Categories[l] # {}
                               THEN {index[c] : c \in Categories[l]} ELSE {Root}]
           secrets == [i \in Ids |->
                     IF i = ids[l] THEN Secret(l, v)
                     ELSE IF i \in new THEN Secret(CHOOSE c \in Categories[l] : index[c] = i, Blank)
                     ELSE d.secrets[i]]
           parents == [i \in Ids |-> IF i \in new THEN up[i] ELSE d.parents[i]]
           children == [n \in Nodes |-> d.children[n] \cup {i \in new : n \in up[i]}]
           e == Insert(d, l, v, ids)
<1>0. d \in Vaults /\ Indexed(d) /\ Mirrored(d)
  BY DEF Sound
<1>1. /\ d.secrets \in [Ids -> Item \cup {Absent}] /\ d.index \in [Labels -> Ids \cup {Absent}]
      /\ d.parents \in [Ids -> SUBSET Nodes] /\ d.children \in [Nodes -> SUBSET Ids]
      /\ d.count \in Nat /\ Present(d) \subseteq Ids
  BY <1>0, Fields
<1>2. e = [secrets |-> secrets, index |-> index, parents |-> parents, children |-> children,
           count |-> d.count + 1]
  BY DEF Insert
<1>3. /\ Categories[l] \subseteq Labels /\ l \notin Categories[l]
      /\ M = {l} \cup {c \in Categories[l] : d.index[c] = Absent} /\ M \subseteq Labels /\ l \in M
  BY VaultAssumption DEF Missing
<1>4. /\ ids \in [M -> Ids \ Present(d)] /\ \A j, k \in M : ids[j] = ids[k] => j = k
      /\ new = {ids[k] : k \in M} /\ new \subseteq Ids \ Present(d)
  <2>1. ids \in [M -> Ids \ Present(d)] /\ \A j, k \in M : ids[j] = ids[k] => j = k
    BY DEF FreshIds, IsInjective
  <2> QED BY <2>1 DEF Range
<1> HIDE DEF M, new, e
<1>5. index \in [Labels -> Ids \cup {Absent}] /\ \A c \in Categories[l] : index[c] \in Ids
  BY <1>1, <1>3, <1>4
<1>6. \A k \in M : index[k] = ids[k]
  BY <1>3
<1>7. \A k \in Labels \ M : index[k] = d.index[k]
  OBVIOUS
<1>8. ASSUME NEW k \in M, k # l
      PROVE  (CHOOSE c \in Categories[l] : index[c] = ids[k]) = k
  <2>1. k \in Categories[l] /\ index[k] = ids[k]
    BY <1>3, <1>6, <1>8
  <2>2. ASSUME NEW c \in Categories[l], index[c] = ids[k] PROVE c = k
    <3>1. CASE c \in M
      BY <3>1, <2>2, <1>4, <1>6
    <3>2. CASE c \notin M
      <4>1. d.index[c] # Absent /\ index[c] = d.index[c] /\ c \in Labels
        BY <3>2, <1>3, <1>7
      <4>2. d.index[c] \in Present(d)
        BY <4>1, <1>0 DEF Indexed
      <4> QED BY <4>1, <4>2, <2>2, <1>4
    <3> QED BY <3>1, <3>2
  <2> QED BY <2>1, <2>2
<1>9. up \in [new -> SUBSET Nodes]
  BY <1>5 DEF Nodes
<1>10. \A k \in M : up[ids[k]] = IF k = l /\ Categories[l] # {}
                                 THEN {index[c] : c \in Categories[l]} ELSE {Root}
  BY <1>3, <1>4
<1> HIDE DEF index, up
<1>11. \A k \in M : secrets[ids[k]] = Secret(k, IF k = l THEN v ELSE Blank)
  BY <1>3, <1>4, <1>8
<1>12. secrets \in [Ids -> Item \cup {Absent}]
  <2>1. ASSUME NEW i \in Ids PROVE secrets[i] \in Item \cup {Absent}
    <3>1. CASE i \in new
      <4>1. PICK k \in M : i = ids[k]
        BY <3>1, <1>4
      <4>2. secrets[i] = Secret(k, IF k = l THEN v ELSE Blank) /\ k \in Labels
        BY <4>1, <1>11, <1>3
      <4>3. (IF k = l THEN v ELSE Blank) \in Values \cup {Blank}
        OBVIOUS
      <4> HIDE DEF secrets
      <4> QED BY <4>2, <4>3, SecretFields
    <3>2. CASE i \notin new
      <4>1. i # ids[l]
        BY <3>2, <1>3, <1>4
      <4> QED BY <3>2, <4>1, <1>1
    <3> QED BY <3>1, <3>2
  <2> QED BY <2>1
<1>13. parents \in [Ids -> SUBSET Nodes]
  BY <1>1, <1>9
<1>14. children \in [Nodes -> SUBSET Ids]
  BY <1>1, <1>4
<1>16. ASSUME NEW n \in Nodes PROVE children[n] = {i \in Ids : n \in parents[i]}
  <2>1. d.children[n] = {i \in Ids : n \in d.parents[i]}
    BY <1>0 DEF Mirrored
  <2>2. \A i \in new : i \in Ids /\ d.parents[i] = {}
    BY <1>0, <1>4 DEF Mirrored
  <2> QED BY <2>1, <2>2
<1>17. \A i \in Ids : \/ \E k \in M : i = ids[k]
                      \/ secrets[i] = d.secrets[i] /\ parents[i] = d.parents[i]
  BY <1>3, <1>4
<1>18. \A k \in M : parents[ids[k]] = up[ids[k]]
  BY <1>4
<1> HIDE DEF secrets, parents, children
<1>15. e \in Vaults
  BY <1>1, <1>2, <1>5, <1>12, <1>13, <1>14 DEF Vaults
<1>19. /\ e.secrets = secrets /\ e.index = index /\ e.parents = parents /\ e.children = children
  BY <1>2
<1>20. ASSUME NEW k \in M
       PROVE  e.parents[ids[k]] = IF k = l /\ Categories[l] # {}
                                  THEN {e.index[c] : c \in Categories[l]} ELSE {Root}
  <2>1. {e.index[c] : c \in Categories[l]} = {index[c] : c \in Categories[l]}
    BY <1>19
  <2> QED BY <2>1, <1>10, <1>18, <1>19
<1>21. /\ \A k \in M : /\ ids[k] \in Ids \ Present(d)
                       /\ e.index[k] = ids[k]
                       /\ e.secrets[ids[k]] = Secret(k, IF k = l THEN v ELSE Blank)
       /\ \A k \in Labels \ M : e.index[k] = d.index[k]
       /\ \A i \in Ids : \/ \E k \in M : i = ids[k]
                         \/ e.secrets[i] = d.secrets[i] /\ e.parents[i] = d.parents[i]
       /\ \A n \in Nodes : e.children[n] = {i \in Ids : n \in e.parents[i]}
  <2>1. \A k \in M : /\ ids[k] \in Ids \ Present(d)
                     /\ e.index[k] = ids[k]
                     /\ e.secrets[ids[k]] = Secret(k, IF k = l THEN v ELSE Blank)
    BY <1>4, <1>6, <1>11, <1>19
  <2>2. \A k \in Labels \ M : e.index[k] = d.index[k]
    BY <1>7, <1>19
  <2>3. \A n \in Nodes : e.children[n] = {i \in Ids : n \in e.parents[i]}
    BY <1>16, <1>19
  <2> QED BY <2>1, <2>2, <2>3, <1>17, <1>19
<1>22. M = Missing(d, l)
  BY DEF M
<1> HIDE DEF M
<1>23. Adds(d, l, v, ids, e)
  BY <1>4, <1>15, <1>20, <1>21, <1>22, Zenon DEF Adds
<1> QED BY <1>23 DEF e

\* An addition keeps a vault sound, whatever ids its vertices get.
LEMMA InsertSound ==
  ASSUME NEW d, Sound(d), NEW l \in Labels, d.index[l] = Absent,
         NEW v \in Values \cup {Blank}, NEW ids \in FreshIds(d, l)
  PROVE  Sound(Insert(d, l, v, ids))
<1> DEFINE M == Missing(d, l)
<1>0. PICK e : e = Insert(d, l, v, ids)
  OBVIOUS
<1>1. /\ e \in Vaults
      /\ \A k \in M :
           /\ ids[k] \in Ids \ Present(d)
           /\ e.index[k] = ids[k]
           /\ e.secrets[ids[k]] = Secret(k, IF k = l THEN v ELSE Blank)
           /\ e.parents[ids[k]] = IF k = l /\ Categories[l] # {}
                                  THEN {e.index[c] : c \in Categories[l]} ELSE {Root}
      /\ \A k \in Labels \ M : e.index[k] = d.index[k]
      /\ \A j, k \in M : ids[j] = ids[k] => j = k
      /\ \A i \in Ids : \/ \E k \in M : i = ids[k]
                        \/ e.secrets[i] = d.secrets[i] /\ e.parents[i] = d.parents[i]
      /\ \A n \in Nodes : e.children[n] = {i \in Ids : n \in e.parents[i]}
  <2>1. Adds(d, l, v, ids, e)
    BY <1>0, Inserted
  <2> QED BY <2>1, Zenon DEF Adds
<1>2. /\ Categories[l] \subseteq Labels /\ l \notin Categories[l]
      /\ M = {l} \cup {c \in Categories[l] : d.index[c] = Absent} /\ M \subseteq Labels /\ l \in M
      /\ \A c \in Categories[l] : Categories[c] = {}
  BY VaultAssumption DEF Missing
<1>3. d \in Vaults /\ Indexed(d) /\ Mirrored(d) /\ Hung(d)
  BY DEF Sound
<1> HIDE DEF M
<1>4. ASSUME NEW k \in M
      PROVE  e.secrets[ids[k]].label = k /\ e.secrets[ids[k]] \in Item
  <2>1. (IF k = l THEN v ELSE Blank) \in Values \cup {Blank} /\ k \in Labels
    BY <1>2
  <2>2. e.secrets[ids[k]] = Secret(k, IF k = l THEN v ELSE Blank)
    BY <1>1
  <2> QED BY <2>1, <2>2, SecretFields
<1>5. Absent \notin Item
  BY VaultAssumption
<1>6. ASSUME NEW i \in Ids, \A k \in M : i # ids[k]
      PROVE  e.secrets[i] = d.secrets[i] /\ e.parents[i] = d.parents[i]
  BY <1>1, <1>6
<1>7. Present(e) = Present(d) \cup {ids[k] : k \in M}
  <2>1. ASSUME NEW i \in Present(d) PROVE i \in Present(e)
    <3>1. i \in Ids /\ \A k \in M : i # ids[k]
      BY <1>1 DEF Present
    <3>2. e.secrets[i] = d.secrets[i]
      BY <3>1, <1>6
    <3> QED BY <3>1, <3>2 DEF Present
  <2>2. ASSUME NEW k \in M PROVE ids[k] \in Present(e)
    BY <1>1, <1>4, <1>5 DEF Present
  <2>3. ASSUME NEW i \in Present(e), \A k \in M : i # ids[k] PROVE i \in Present(d)
    BY <2>3, <1>6 DEF Present
  <2> QED BY <2>1, <2>2, <2>3
<1>8. ASSUME NEW i \in Present(d)
      PROVE  i \in Ids /\ LabelAt(e, i) = LabelAt(d, i) /\ e.parents[i] = d.parents[i]
             /\ LabelAt(d, i) \in Labels \ M
  <2>1. i \in Ids /\ \A k \in M : i # ids[k]
    BY <1>1 DEF Present
  <2>2. d.index[LabelAt(d, i)] = i /\ i # Absent
    BY <1>3, VaultAssumption, <2>1 DEF Indexed
  <2>3. \A k \in M : d.index[k] = Absent
    BY <1>2
  <2>4. LabelAt(d, i) \in Labels
    BY <1>3, Fields DEF LabelAt, Item
  <2> QED BY <2>1, <2>2, <2>3, <2>4, <1>6 DEF LabelAt
<1>9. Indexed(e)
  <2>1. ASSUME NEW k \in Labels, e.index[k] # Absent
        PROVE  e.index[k] \in Present(e) /\ LabelAt(e, e.index[k]) = k
    <3>1. CASE k \in M
      BY <3>1, <1>1, <1>4, <1>7 DEF LabelAt
    <3>2. CASE k \notin M
      <4>1. e.index[k] = d.index[k]
        BY <3>2, <1>1
      <4>2. d.index[k] \in Present(d) /\ LabelAt(d, d.index[k]) = k
        BY <4>1, <2>1, <1>3 DEF Indexed
      <4> QED BY <4>1, <4>2, <1>7, <1>8
    <3> QED BY <3>1, <3>2
  <2>2. ASSUME NEW i \in Present(e) PROVE e.index[LabelAt(e, i)] = i
    <3>1. CASE i \in Present(d)
      <4>1. e.index[LabelAt(e, i)] = d.index[LabelAt(d, i)]
        BY <3>1, <1>8, <1>1
      <4> QED BY <3>1, <4>1, <1>3 DEF Indexed
    <3>2. ASSUME NEW k \in M, i = ids[k] PROVE e.index[LabelAt(e, i)] = i
      BY <3>2, <1>1, <1>4 DEF LabelAt
    <3> QED BY <3>1, <3>2, <1>7
  <2> QED BY <2>1, <2>2 DEF Indexed
<1>10. Mirrored(e)
  <2>1. ASSUME NEW i \in Ids \ Present(e) PROVE e.parents[i] = {}
    BY <2>1, <1>6, <1>7, <1>3 DEF Mirrored
  <2> QED BY <2>1, <1>1 DEF Mirrored
<1>11. \A c \in Categories[l] : e.index[c] \in Present(e) /\ LabelAt(e, e.index[c]) = c
  <2>1. ASSUME NEW c \in Categories[l] PROVE e.index[c] # Absent
    <3>1. CASE c \in M
      BY <3>1, <1>1, VaultAssumption
    <3>2. CASE c \notin M
      BY <3>2, <1>1, <1>2
    <3> QED BY <3>1, <3>2
  <2> QED BY <2>1, <1>2, <1>9 DEF Indexed
<1>12. Hung(e)
  <2>1. ASSUME NEW i \in Present(d)
        PROVE  /\ e.parents[i] # {}
               /\ \A n \in e.parents[i] \ {Root} :
                     n \in Present(e) /\ LabelAt(e, n) \in Categories[LabelAt(e, i)]
    <3>1. e.parents[i] = d.parents[i] /\ LabelAt(e, i) = LabelAt(d, i) /\ d.parents[i] # {}
      BY <1>8, <1>3 DEF Hung
    <3>2. ASSUME NEW n \in d.parents[i] \ {Root}
          PROVE  n \in Present(e) /\ LabelAt(e, n) \in Categories[LabelAt(e, i)]
      <4>1. n \in Present(d) /\ LabelAt(d, n) \in Categories[LabelAt(d, i)]
        BY <1>3 DEF Hung
      <4> QED BY <4>1, <3>1, <1>7, <1>8
    <3> QED BY <3>1, <3>2
  <2>2. ASSUME NEW k \in M
        PROVE  /\ e.parents[ids[k]] # {}
               /\ \A n \in e.parents[ids[k]] \ {Root} :
                     n \in Present(e) /\ LabelAt(e, n) \in Categories[LabelAt(e, ids[k])]
    <3>1. CASE k = l /\ Categories[l] # {}
      <4>1. e.parents[ids[k]] = {e.index[c] : c \in Categories[l]} /\ LabelAt(e, ids[k]) = l
        BY <3>1, <1>1, <1>4 DEF LabelAt
      <4> QED BY <3>1, <4>1, <1>11
    <3>2. CASE ~(k = l /\ Categories[l] # {})
      <4>1. e.parents[ids[k]] = {Root}
        BY <3>2, <1>1
      <4> QED BY <4>1
    <3> QED BY <3>1, <3>2
  <2> QED BY <2>1, <2>2, <1>7 DEF Hung
<1> QED BY <1>0, <1>1, <1>9, <1>10, <1>12 DEF Sound

-----------------------------------------------------------------------------
(* update_secret and delete_secret of the graph. *)

LEMMA UpdateSound ==
  ASSUME NEW d, Sound(d), NEW l \in Labels, d.index[l] # Absent, NEW v \in Values
  PROVE  /\ Sound(Update(d, l, v))
         /\ Update(d, l, v).index = d.index
         /\ \A i \in Present(d) : Update(d, l, v).secrets[i].value
                                  = IF i = d.index[l] THEN v ELSE d.secrets[i].value
<1> DEFINE e == Update(d, l, v)
           i == d.index[l]
<1>0. d \in Vaults /\ Indexed(d) /\ Mirrored(d) /\ Hung(d)
  BY DEF Sound
<1>1. /\ d.secrets \in [Ids -> Item \cup {Absent}] /\ Present(d) \subseteq Ids
      /\ \A k \in Present(d) : d.secrets[k] \in Item
  BY <1>0, Fields
<1>2. i \in Present(d) /\ i \in Ids /\ d.secrets[i] \in Item
  BY <1>0, <1>1 DEF Indexed
<1>3. /\ e = [secrets |-> [d.secrets EXCEPT ![i] = Secret(d.secrets[i].label, v)],
              index |-> d.index, parents |-> d.parents, children |-> d.children,
              count |-> d.count]
  BY <1>0, <1>1, <1>2 DEF Update, Vaults, Item, Secret
<1>4. Secret(d.secrets[i].label, v) \in Item /\ Secret(d.secrets[i].label, v).label = d.secrets[i].label
      /\ Secret(d.secrets[i].label, v).value = v /\ d.secrets[i].label \in Labels
  BY <1>2, SecretFields DEF Item
<1> HIDE DEF e, i
<1>5. /\ e.secrets = [d.secrets EXCEPT ![i] = Secret(d.secrets[i].label, v)]
      /\ e.index = d.index /\ e.parents = d.parents /\ e.children = d.children /\ e.count = d.count
  BY <1>3
<1>6. e \in Vaults
  <2>1. [d.secrets EXCEPT ![i] = Secret(d.secrets[i].label, v)] \in [Ids -> Item \cup {Absent}]
    BY <1>1, <1>4
  <2> QED BY <2>1, <1>0, <1>3 DEF Vaults
<1>7. \A k \in Ids : k # i => e.secrets[k] = d.secrets[k]
  BY <1>1, <1>5
<1>8. e.secrets[i] = Secret(d.secrets[i].label, v)
  BY <1>1, <1>2, <1>5
<1>9. Present(e) = Present(d)
  <2>1. e.secrets[i] # Absent /\ d.secrets[i] # Absent
    BY <1>2, <1>4, <1>8, VaultAssumption
  <2> QED BY <2>1, <1>7 DEF Present
<1>10. \A k \in Present(d) : LabelAt(e, k) = LabelAt(d, k)
  BY <1>1, <1>4, <1>7, <1>8 DEF LabelAt
<1>11. Indexed(e)
  BY <1>0, <1>5, <1>9, <1>10 DEF Indexed
<1>12. Mirrored(e)
  BY <1>0, <1>5, <1>9 DEF Mirrored
<1>13. Hung(e)
  BY <1>0, <1>5, <1>9, <1>10 DEF Hung
<1>14. \A k \in Present(d) : e.secrets[k].value = IF k = i THEN v ELSE d.secrets[k].value
  BY <1>1, <1>4, <1>7, <1>8
<1>15. Sound(e)
  BY <1>6, <1>11, <1>12, <1>13 DEF Sound
<1> QED BY <1>5, <1>14, <1>15 DEF e, i

\* A deletion keeps a vault sound: who loses the last parent goes to the root
\* (dag_storage.rs:299-316).
LEMMA RemoveSound ==
  ASSUME NEW d, Sound(d), NEW l \in Labels, d.index[l] # Absent
  PROVE  /\ Sound(Remove(d, l))
         /\ Remove(d, l).index = [d.index EXCEPT ![l] = Absent]
         /\ \A i \in Present(d) \ {d.index[l]} : Remove(d, l).secrets[i] = d.secrets[i]
<1> DEFINE e == Remove(d, l)
           i == d.index[l]
           orphans == {k \in d.children[i] : d.parents[k] = {i}}
           parents == [k \in Ids |-> CASE k = i -> {} [] k \in orphans -> {Root}
                                      [] OTHER -> d.parents[k] \ {i}]
           children == [n \in Nodes |-> CASE n = i -> {} [] n = Root -> (d.children[n] \ {i}) \cup orphans
                                          [] OTHER -> d.children[n] \ {i}]
           count == IF d.count = 0 THEN 0 ELSE d.count - 1
<1>0. d \in Vaults /\ Indexed(d) /\ Mirrored(d) /\ Hung(d)
  BY DEF Sound
<1>1. /\ d.secrets \in [Ids -> Item \cup {Absent}] /\ d.index \in [Labels -> Ids \cup {Absent}]
      /\ d.parents \in [Ids -> SUBSET Nodes] /\ d.children \in [Nodes -> SUBSET Ids]
      /\ d.count \in Nat /\ Present(d) \subseteq Ids
      /\ \A k \in Present(d) : d.secrets[k] \in Item
  BY <1>0, Fields
<1>2. i \in Present(d) /\ i \in Ids /\ LabelAt(d, i) = l
  BY <1>0, <1>1 DEF Indexed
<1>3. Root \notin Ids /\ Root \in Nodes /\ Ids \subseteq Nodes
  BY VaultAssumption DEF Nodes
<1>4. e = [secrets |-> [d.secrets EXCEPT ![i] = Absent], index |-> [d.index EXCEPT ![l] = Absent],
           parents |-> parents, children |-> children, count |-> count]
  BY DEF Remove
\* Nothing is its own parent.
<1>5. i \notin d.parents[i]
  <2>1. SUFFICES ASSUME i \in d.parents[i] PROVE FALSE
    OBVIOUS
  <2>2. l \in Categories[l]
    BY <2>1, <1>0, <1>2, <1>3 DEF Hung
  <2> QED BY <2>2, VaultAssumption
<1>6. d.children[i] = {k \in Ids : i \in d.parents[k]}
  BY <1>0, <1>2, <1>3 DEF Mirrored
<1>7. orphans = {k \in Ids : d.parents[k] = {i}} /\ i \notin orphans
  BY <1>5, <1>6
<1> HIDE DEF i, orphans
<1>8. parents[i] = {}
  BY <1>2, <1>7
<1>9. \A k \in orphans : parents[k] = {Root}
  BY <1>7
<1>10. \A k \in Ids \ orphans : k # i => parents[k] = d.parents[k] \ {i}
  BY <1>7
<1>11. parents \in [Ids -> SUBSET Nodes]
  <2>1. \A k \in Ids : (CASE k = i -> {} [] k \in orphans -> {Root}
                         [] OTHER -> d.parents[k] \ {i}) \in SUBSET Nodes
    BY <1>1, <1>3, <1>7
  <2> QED BY <2>1
<1>12. children \in [Nodes -> SUBSET Ids]
  <2>1. \A n \in Nodes : (CASE n = i -> {} [] n = Root -> (d.children[n] \ {i}) \cup orphans
                            [] OTHER -> d.children[n] \ {i}) \in SUBSET Ids
    BY <1>1, <1>2, <1>3, <1>7
  <2> QED BY <2>1
<1>13. children[i] = {}
  BY <1>2, <1>3
<1>14. children[Root] = (d.children[Root] \ {i}) \cup orphans
  BY <1>2, <1>3
<1>15. \A n \in Nodes \ {i, Root} : children[n] = d.children[n] \ {i}
  OBVIOUS
<1>16. count \in Nat
  BY <1>1
<1> HIDE DEF parents, children, count, e
<1>17. ASSUME NEW n \in Nodes PROVE children[n] = {k \in Ids : n \in parents[k]}
  <2>0. d.children[n] = {k \in Ids : n \in d.parents[k]}
    BY <1>0 DEF Mirrored
  <2>1. CASE n = i
    <3>1. \A k \in Ids : i \notin parents[k]
      BY <1>2, <1>3, <1>8, <1>9, <1>10
    <3> QED BY <2>1, <3>1, <1>13
  <2>2. CASE n = Root
    <3>1. \A k \in Ids : Root \in parents[k] <=> k \in orphans \/ (k # i /\ Root \in d.parents[k])
      BY <1>2, <1>3, <1>7, <1>8, <1>9, <1>10
    <3> QED BY <2>0, <2>2, <3>1, <1>7, <1>14
  <2>3. CASE n \notin {i, Root}
    <3>1. \A k \in Ids : n \in parents[k] <=> k # i /\ n \in d.parents[k]
      BY <2>3, <1>7, <1>8, <1>9, <1>10
    <3> QED BY <2>0, <2>3, <3>1, <1>15
  <2> QED BY <2>1, <2>2, <2>3
<1>18. /\ e.secrets = [d.secrets EXCEPT ![i] = Absent] /\ e.index = [d.index EXCEPT ![l] = Absent]
       /\ e.parents = parents /\ e.children = children /\ e.count = count
  BY <1>4
<1>19. e \in Vaults
  <2>1. /\ [d.secrets EXCEPT ![i] = Absent] \in [Ids -> Item \cup {Absent}]
        /\ [d.index EXCEPT ![l] = Absent] \in [Labels -> Ids \cup {Absent}]
    BY <1>1
  <2> QED BY <2>1, <1>4, <1>11, <1>12, <1>16 DEF Vaults
<1>20. e.secrets[i] = Absent /\ \A k \in Ids : k # i => e.secrets[k] = d.secrets[k]
  BY <1>1, <1>2, <1>18
<1>21. Present(e) = Present(d) \ {i}
  BY <1>20 DEF Present
<1>22. \A k \in Present(e) : LabelAt(e, k) = LabelAt(d, k) /\ k \in Present(d) /\ k # i /\ k \in Ids
  BY <1>1, <1>20, <1>21 DEF LabelAt
<1>23. e.index[l] = Absent /\ \A k \in Labels : k # l => e.index[k] = d.index[k]
  BY <1>1, <1>18
<1>24. Indexed(e)
  <2>1. ASSUME NEW k \in Labels, e.index[k] # Absent
        PROVE  e.index[k] \in Present(e) /\ LabelAt(e, e.index[k]) = k
    <3>1. k # l /\ e.index[k] = d.index[k] /\ d.index[k] \in Present(d) /\ LabelAt(d, d.index[k]) = k
      BY <2>1, <1>0, <1>23 DEF Indexed
    <3>2. d.index[k] # i
      BY <3>1, <1>2
    <3> QED BY <3>1, <3>2, <1>21, <1>22
  <2>2. ASSUME NEW k \in Present(e) PROVE e.index[LabelAt(e, k)] = k
    <3>1. d.index[LabelAt(d, k)] = k /\ LabelAt(d, k) \in Labels
      BY <1>0, <1>1, <1>22 DEF Indexed, LabelAt, Item
    <3>2. LabelAt(d, k) # l
      BY <3>1, <1>22 DEF i
    <3> QED BY <3>1, <3>2, <1>22, <1>23
  <2> QED BY <2>1, <2>2 DEF Indexed
<1>25. Mirrored(e)
  <2>1. ASSUME NEW k \in Ids \ Present(e) PROVE e.parents[k] = {}
    <3>1. CASE k = i
      BY <3>1, <1>8, <1>18
    <3>2. CASE k # i
      <4>1. d.parents[k] = {}
        BY <3>2, <1>0, <1>21 DEF Mirrored
      <4> QED BY <3>2, <4>1, <1>7, <1>10, <1>18
    <3> QED BY <3>1, <3>2
  <2> QED BY <2>1, <1>17, <1>18 DEF Mirrored
<1>26. Hung(e)
  <2>1. ASSUME NEW k \in Present(e)
        PROVE  /\ e.parents[k] # {}
               /\ \A n \in e.parents[k] \ {Root} :
                     n \in Present(e) /\ LabelAt(e, n) \in Categories[LabelAt(e, k)]
    <3>1. CASE k \in orphans
      BY <3>1, <1>9, <1>18
    <3>2. CASE k \notin orphans
      <4>1. e.parents[k] = d.parents[k] \ {i} /\ d.parents[k] # {} /\ d.parents[k] # {i}
        BY <3>2, <1>0, <1>7, <1>10, <1>18, <1>22 DEF Hung
      <4>2. ASSUME NEW n \in d.parents[k] \ {i, Root}
            PROVE  n \in Present(e) /\ LabelAt(e, n) \in Categories[LabelAt(e, k)]
        <5>1. n \in Present(d) /\ LabelAt(d, n) \in Categories[LabelAt(d, k)]
          BY <1>0, <1>22 DEF Hung
        <5> QED BY <5>1, <1>21, <1>22
      <4> QED BY <4>1, <4>2
    <3> QED BY <3>1, <3>2
  <2> QED BY <2>1 DEF Hung
<1>27. Sound(e)
  BY <1>19, <1>24, <1>25, <1>26 DEF Sound
<1> QED BY <1>1, <1>18, <1>20, <1>27 DEF e, i

-----------------------------------------------------------------------------
(* The contents of a vault. *)

\* Contents go by the index.
ByIndex(d) == [l \in Labels |-> IF d.index[l] = Absent THEN Absent ELSE d.secrets[d.index[l]].value]

LEMMA ContentsByIndex ==
  ASSUME NEW d, Sound(d)
  PROVE  Contents(d) = ByIndex(d)
<1>0. d \in Vaults /\ Indexed(d) /\ d # None /\ Absent \notin Ids
  BY Fields, VaultAssumption DEF Sound
<1>1. d.index \in [Labels -> Ids \cup {Absent}] /\ Present(d) \subseteq Ids
  BY <1>0, Fields
<1> DEFINE at(l) == {i \in Present(d) : d.secrets[i].label = l}
           one(l) == CHOOSE i \in at(l) : TRUE
<1>2. ASSUME NEW l \in Labels, d.index[l] = Absent
      PROVE  at(l) = {}
  BY <1>0, <1>1, <1>2 DEF Indexed, LabelAt
<1>3. ASSUME NEW l \in Labels, d.index[l] # Absent
      PROVE  at(l) # {} /\ one(l) = d.index[l]
  <2>1. d.index[l] \in at(l) /\ \A i \in at(l) : i = d.index[l]
    BY <1>0, <1>3 DEF Indexed, LabelAt
  <2> QED BY <2>1
<1> HIDE DEF at, one
<1>4. ASSUME NEW l \in Labels
      PROVE  (IF at(l) = {} THEN Absent ELSE d.secrets[one(l)].value)
             = (IF d.index[l] = Absent THEN Absent ELSE d.secrets[d.index[l]].value)
  <2>1. CASE d.index[l] = Absent
    BY <2>1, <1>2
  <2>2. CASE d.index[l] # Absent
    BY <2>2, <1>3
  <2> QED BY <2>1, <2>2
<1>5. Contents(d) = [l \in Labels |-> IF at(l) = {} THEN Absent
                                      ELSE d.secrets[one(l)].value]
  BY <1>0 DEF Contents, at, one
<1> QED BY <1>4, <1>5 DEF ByIndex

\* What the contents of a sound vault look like.
LEMMA ContentsType ==
  ASSUME NEW d, Sound(d)
  PROVE  /\ Contents(d) \in [Labels -> Values \cup {Blank, Absent}]
         /\ Contents(d) # None /\ Contents(d) # Partial
         /\ \A l \in Labels :
              /\ Contents(d)[l] = Absent <=> d.index[l] = Absent
              /\ d.index[l] # Absent => Contents(d)[l] = d.secrets[d.index[l]].value
<1>0. d \in Vaults /\ Indexed(d)
  BY DEF Sound
<1>1. Contents(d) = ByIndex(d)
  BY ContentsByIndex
<1>2. ASSUME NEW l \in Labels, d.index[l] # Absent
      PROVE  d.secrets[d.index[l]].value \in Values \cup {Blank}
  <2>1. d.index[l] \in Present(d)
    BY <1>0, <1>2 DEF Indexed
  <2> QED BY <2>1, <1>0, Fields DEF Item
<1>3. Absent \notin Values \cup {Blank}
  BY VaultAssumption
<1>4. /\ Contents(d) \in [Labels -> Values \cup {Blank, Absent}]
      /\ \A l \in Labels :
              /\ Contents(d)[l] = Absent <=> d.index[l] = Absent
              /\ d.index[l] # Absent => Contents(d)[l] = d.secrets[d.index[l]].value
  BY <1>1, <1>2, <1>3 DEF ByIndex
<1> QED BY <1>4, VaultAssumption

\* A file has the contents of the vault that was saved.
LEMMA ContentsOfSnapshot ==
  ASSUME NEW d \in Vaults
  PROVE  Contents(Snapshot(d)) = Contents(d)
<1>1. /\ Snapshot(d).secrets = d.secrets /\ Present(Snapshot(d)) = Present(d)
      /\ Snapshot(d) # None /\ d # None
  BY OfSnapshot, Fields
<1> QED BY <1>1 DEF Contents

LEMMA InsertContents ==
  ASSUME NEW d, Sound(d), NEW l \in Labels, d.index[l] = Absent,
         NEW v \in Values \cup {Blank}, NEW ids \in FreshIds(d, l)
  PROVE  Contents(Insert(d, l, v, ids)) =
           [k \in Labels |-> CASE k = l -> v
                               [] k \in Categories[l] /\ Contents(d)[k] = Absent -> Blank
                               [] OTHER -> Contents(d)[k]]
<1> DEFINE e == Insert(d, l, v, ids)
           M == Missing(d, l)
<1>0. Adds(d, l, v, ids, e) /\ Sound(e)
  BY Inserted, InsertSound
<1> HIDE DEF e
<1>1. /\ \A k \in M : ids[k] \in Ids \ Present(d) /\ e.index[k] = ids[k]
                      /\ e.secrets[ids[k]] = Secret(k, IF k = l THEN v ELSE Blank)
      /\ \A k \in Labels \ M : e.index[k] = d.index[k]
      /\ \A i \in Ids : (\E k \in M : i = ids[k]) \/ e.secrets[i] = d.secrets[i]
  BY <1>0, Zenon DEF Adds
<1>2. /\ Contents(e) \in [Labels -> Values \cup {Blank, Absent}]
      /\ \A k \in Labels : /\ Contents(e)[k] = Absent <=> e.index[k] = Absent
                           /\ e.index[k] # Absent => Contents(e)[k] = e.secrets[e.index[k]].value
  BY <1>0, ContentsType
<1>3. \A k \in Labels : /\ Contents(d)[k] = Absent <=> d.index[k] = Absent
                        /\ d.index[k] # Absent => Contents(d)[k] = d.secrets[d.index[k]].value
  BY ContentsType
<1>4. /\ M = {l} \cup {c \in Categories[l] : d.index[c] = Absent} /\ M \subseteq Labels
      /\ l \notin Categories[l] /\ Absent \notin Ids
  BY VaultAssumption DEF Missing
<1> HIDE DEF M
<1>5. ASSUME NEW k \in M PROVE Contents(e)[k] = IF k = l THEN v ELSE Blank
  <2>1. e.index[k] = ids[k] /\ ids[k] # Absent /\ k \in Labels
    BY <1>1, <1>4
  <2>2. Contents(e)[k] = e.secrets[ids[k]].value
    BY <2>1, <1>2
  <2>3. e.secrets[ids[k]] = Secret(k, IF k = l THEN v ELSE Blank)
    BY <1>1
  <2> QED BY <2>2, <2>3 DEF Secret
<1>6. ASSUME NEW k \in Labels \ M PROVE Contents(e)[k] = Contents(d)[k]
  <2>1. e.index[k] = d.index[k]
    BY <1>1
  <2>2. CASE d.index[k] = Absent
    BY <2>1, <2>2, <1>2, <1>3
  <2>3. CASE d.index[k] # Absent
    <3>1. d.index[k] \in Present(d) /\ d.index[k] \in Ids
      BY <2>3, Fields DEF Sound, Indexed
    <3>2. e.secrets[d.index[k]] = d.secrets[d.index[k]]
      BY <3>1, <1>1
    <3> QED BY <2>1, <2>3, <3>2, <1>2, <1>3
  <2> QED BY <2>2, <2>3
<1>7. ASSUME NEW k \in Labels
      PROVE  Contents(e)[k] = CASE k = l -> v
                                [] k \in Categories[l] /\ Contents(d)[k] = Absent -> Blank
                                [] OTHER -> Contents(d)[k]
  <2>1. CASE k = l
    BY <2>1, <1>4, <1>5
  <2>2. CASE k \in Categories[l] /\ Contents(d)[k] = Absent
    BY <2>2, <1>3, <1>4, <1>5
  <2>3. CASE k # l /\ ~(k \in Categories[l] /\ Contents(d)[k] = Absent)
    BY <2>3, <1>3, <1>4, <1>6
  <2> QED BY <2>1, <2>2, <2>3
<1>8. Contents(e) = [k \in Labels |-> CASE k = l -> v
                               [] k \in Categories[l] /\ Contents(d)[k] = Absent -> Blank
                               [] OTHER -> Contents(d)[k]]
  BY <1>2, <1>7
<1> QED BY <1>8 DEF e

LEMMA UpdateContents ==
  ASSUME NEW d, Sound(d), NEW l \in Labels, d.index[l] # Absent, NEW v \in Values
  PROVE  Contents(Update(d, l, v)) = [Contents(d) EXCEPT ![l] = v]
<1> DEFINE e == Update(d, l, v)
<1>1. /\ Sound(e) /\ e.index = d.index
      /\ \A i \in Present(d) : e.secrets[i].value = IF i = d.index[l] THEN v ELSE d.secrets[i].value
  BY UpdateSound
<1> HIDE DEF e
<1>2. Indexed(d)
  BY DEF Sound
<1>3. ASSUME NEW k \in Labels PROVE ByIndex(e)[k] = IF k = l THEN v ELSE ByIndex(d)[k]
  <2>1. CASE d.index[k] = Absent
    BY <2>1, <1>1 DEF ByIndex
  <2>2. CASE d.index[k] # Absent
    <3>1. d.index[k] \in Present(d) /\ (d.index[k] = d.index[l] => k = l)
      BY <2>2, <1>2 DEF Indexed
    <3> QED BY <2>2, <3>1, <1>1 DEF ByIndex
  <2> QED BY <2>1, <2>2
<1>4. Contents(e) = ByIndex(e) /\ Contents(d) = ByIndex(d)
  BY <1>1, ContentsByIndex
<1>5. ByIndex(e) = [ByIndex(d) EXCEPT ![l] = v]
  BY <1>3 DEF ByIndex
<1> QED BY <1>4, <1>5 DEF e

LEMMA RemoveContents ==
  ASSUME NEW d, Sound(d), NEW l \in Labels, d.index[l] # Absent
  PROVE  Contents(Remove(d, l)) = [Contents(d) EXCEPT ![l] = Absent]
<1> DEFINE e == Remove(d, l)
<1>1. /\ Sound(e) /\ e.index = [d.index EXCEPT ![l] = Absent]
      /\ \A i \in Present(d) \ {d.index[l]} : e.secrets[i] = d.secrets[i]
  BY RemoveSound
<1> HIDE DEF e
<1>2. Indexed(d) /\ d.index \in [Labels -> Ids \cup {Absent}]
  BY Fields DEF Sound
<1>3. ASSUME NEW k \in Labels PROVE ByIndex(e)[k] = IF k = l THEN Absent ELSE ByIndex(d)[k]
  <2>1. CASE k = l
    BY <2>1, <1>1, <1>2 DEF ByIndex
  <2>2. CASE k # l /\ d.index[k] = Absent
    BY <2>2, <1>1, <1>2 DEF ByIndex
  <2>3. CASE k # l /\ d.index[k] # Absent
    <3>1. d.index[k] \in Present(d) /\ d.index[k] # d.index[l] /\ e.index[k] = d.index[k]
      BY <2>3, <1>1, <1>2 DEF Indexed
    <3> QED BY <2>3, <3>1, <1>1 DEF ByIndex
  <2> QED BY <2>1, <2>2, <2>3
<1>4. Contents(e) = ByIndex(e) /\ Contents(d) = ByIndex(d)
  BY <1>1, ContentsByIndex
<1>5. ByIndex(e) = [ByIndex(d) EXCEPT ![l] = Absent]
  BY <1>3 DEF ByIndex
<1> QED BY <1>4, <1>5 DEF e

-----------------------------------------------------------------------------
(* Every reachable state. *)

\* What an operation changes a vault into.
LEMMA ChangesAreSound ==
  ASSUME NEW d, Sound(d), NEW l \in Labels
  PROVE  /\ \A v \in Values \cup {Blank} :
              d.index[l] = Absent /\ FreshIds(d, l) # {}
              => Sound(Insert(d, l, v, CHOOSE f \in FreshIds(d, l) : TRUE))
         /\ \A v \in Values : d.index[l] # Absent => Sound(Update(d, l, v))
         /\ d.index[l] # Absent => Sound(Remove(d, l))
<1>1. ASSUME NEW v \in Values \cup {Blank}, d.index[l] = Absent, FreshIds(d, l) # {}
      PROVE  Sound(Insert(d, l, v, CHOOSE f \in FreshIds(d, l) : TRUE))
  <2>1. (CHOOSE f \in FreshIds(d, l) : TRUE) \in FreshIds(d, l)
    BY <1>1
  <2> QED BY <2>1, <1>1, InsertSound
<1>2. ASSUME NEW v \in Values, d.index[l] # Absent PROVE Sound(Update(d, l, v))
  BY <1>2, UpdateSound
<1>3. ASSUME d.index[l] # Absent PROVE Sound(Remove(d, l))
  BY <1>3, RemoveSound
<1> QED BY <1>1, <1>2, <1>3

LEMMA SoundIsNotNone == \A d : Sound(d) => d # None
BY Fields DEF Sound

\* What is in a file that can be opened.
LEMMA SavedVault ==
  ASSUME NEW f, Saved(f), f \notin {None, Partial}
  PROVE  /\ Sound(Reload(f)) /\ f = Snapshot(Reload(f))
         /\ Contents(f) = Contents(Reload(f))
<1>1. PICK d \in Vaults : Sound(d) /\ f = Snapshot(d)
  BY DEF Saved
<1>2. Reload(f) = d
  BY <1>1, ReloadSnapshot
<1> QED BY <1>1, <1>2, ContentsOfSnapshot

\* What an import adds is in the exported vault.
LEMMA ImportedValue ==
  ASSUME Inv, pc = "importing", NEW l \in todo
  PROVE  Reload(exported).secrets[Reload(exported).index[l]].value \in Values \cup {Blank}
<1> DEFINE d == Reload(exported)
<1>1. Importing /\ Saved(exported)
  BY DEF Inv
<1>2. Sound(d) /\ exported = Snapshot(d)
  BY <1>1, SavedVault DEF Importing
<1> HIDE DEF d
<1>3. PICK i \in Present(exported) : LabelAt(exported, i) = l
  BY <1>1 DEF Importing
<1>4. i \in Present(d) /\ LabelAt(d, i) = l
  BY <1>2, <1>3, OfSnapshot DEF Sound, LabelAt
<1>5. d.index[l] = i /\ d.secrets[i] \in Item
  BY <1>2, <1>4, Fields DEF Sound, Indexed
<1>6. d.secrets[d.index[l]].value \in Values \cup {Blank}
  BY <1>5 DEF Item
<1> QED BY <1>6 DEF d

LEMMA InvStep == Inv /\ [Next]_vars => Inv'
<1> SUFFICES ASSUME Inv, [Next]_vars PROVE Inv'
  OBVIOUS
<1> USE VaultAssumption
<1>0. /\ Types
      /\ mem # None => Sound(mem)
      /\ file # Partial /\ Saved(file) /\ Saved(tmp) /\ Saved(exported)
      /\ pc = "rename" => tmp = Snapshot(mem)
      /\ pc = "importing" => Importing
      /\ Saved(None) /\ Saved(Partial)
  BY DEF Inv, Saved
<1>1. CASE Create
  BY <1>0, <1>1, EmptyIsSound, SoundIsNotNone DEF Inv, Types, Create, files
<1>2. CASE Open
  <2>1. Sound(Reload(file))
    BY <1>0, <1>2, SavedVault DEF Open
  <2> QED BY <1>0, <1>2, <2>1, SoundIsNotNone DEF Inv, Types, Open, files
<1>3. CASE CloseOrCrash
  BY <1>0, <1>3 DEF Inv, Types, CloseOrCrash, files
<1>4. ASSUME NEW d, Sound(d), ChangeTo(d) PROVE Inv'
  BY <1>0, <1>4, SoundIsNotNone DEF Inv, Types, ChangeTo, files
<1>5. ASSUME NEW l \in Labels, NEW v \in Values, AddSecret(l, v) PROVE Inv'
  <2>1. mem # None /\ mem.index[l] = Absent /\ FreshIds(mem, l) # {}
        /\ ChangeTo(Insert(mem, l, v, CHOOSE f \in FreshIds(mem, l) : TRUE))
    BY <1>0, <1>5 DEF AddSecret, Types
  <2>2. Sound(Insert(mem, l, v, CHOOSE f \in FreshIds(mem, l) : TRUE))
    BY <1>0, <2>1, ChangesAreSound
  <2> QED BY <2>1, <2>2, <1>4
<1>6. ASSUME NEW l \in Labels, NEW v \in Values, UpdateSecret(l, v) PROVE Inv'
  <2>1. mem # None /\ mem.index[l] # Absent /\ ChangeTo(Update(mem, l, v))
    BY <1>0, <1>6 DEF UpdateSecret, Types
  <2>2. Sound(Update(mem, l, v))
    BY <1>0, <2>1, ChangesAreSound
  <2> QED BY <2>1, <2>2, <1>4
<1>7. ASSUME NEW l \in Labels, DeleteSecret(l) PROVE Inv'
  <2>1. mem # None /\ mem.index[l] # Absent /\ ChangeTo(Remove(mem, l))
    BY <1>0, <1>7 DEF DeleteSecret, Types
  <2>2. Sound(Remove(mem, l))
    BY <1>0, <2>1, ChangesAreSound
  <2> QED BY <2>1, <2>2, <1>4
<1>8. CASE Export
  BY <1>0, <1>8 DEF Inv, Types, Export
<1>9. CASE FinishExport \/ ExportFails
  BY <1>0, <1>9 DEF Inv, Types, FinishExport, ExportFails, files
<1>10. CASE Import
  <2>1. todo' \subseteq Labels
    <3>1. PICK d \in Vaults : Sound(d) /\ exported = Snapshot(d)
      BY <1>0, <1>10 DEF Import, Saved
    <3>2. \A i \in Present(exported) : exported.secrets[i].label \in Labels
      BY <3>1, OfSnapshot, Fields DEF Item
    <3> QED BY <3>2, <1>10 DEF Import
  <2>2. Importing'
    BY <1>10 DEF Import, Importing, Present, LabelAt, files
  <2> QED BY <1>0, <1>10, <2>1, <2>2 DEF Inv, Types, Import, files
<1>11. ASSUME NEW l \in Labels, ImportOne(l) PROVE Inv'
  <2>1. /\ pc = "importing" /\ l \in todo /\ mem # None /\ Importing
        /\ todo' \subseteq todo /\ UNCHANGED <<files, pc, changes>>
    BY <1>0, <1>11 DEF ImportOne, Types
  <2>2. mem' # None /\ Sound(mem')
    <3>1. CASE mem' = mem
      BY <1>0, <2>1, <3>1
    <3>2. CASE mem' # mem
      <4> DEFINE w == Reload(exported).secrets[Reload(exported).index[l]].value
      <4>1. w \in Values \cup {Blank}
        BY <2>1, ImportedValue
      <4> HIDE DEF w
      <4>2. /\ mem.index[l] = Absent /\ FreshIds(mem, l) # {}
            /\ mem' = Insert(mem, l, w, CHOOSE f \in FreshIds(mem, l) : TRUE)
        BY <1>11, <3>2 DEF ImportOne, w
      <4> QED BY <1>0, <2>1, <4>1, <4>2, ChangesAreSound, SoundIsNotNone
    <3> QED BY <3>1, <3>2
  <2>3. Importing'
    BY <2>1 DEF Importing, Present, LabelAt, files
  <2> QED BY <1>0, <2>1, <2>2, <2>3 DEF Inv, Types, files
<1>12. CASE FinishImport
  BY <1>0, <1>12 DEF Inv, Types, FinishImport, files
<1>13. CASE BeginWrite
  BY <1>0, <1>13 DEF Inv, Types, BeginWrite
<1>14. CASE FinishWrite
  <2>1. Sound(mem) /\ mem # None
    BY <1>0, <1>14 DEF FinishWrite, Types
  <2>2. Saved(Snapshot(mem))
    BY <2>1 DEF Saved, Sound
  <2> QED BY <1>0, <1>14, <2>1, <2>2 DEF Inv, Types, FinishWrite
<1>15. CASE Rename
  <2>1. Sound(mem) /\ mem # None /\ tmp = Snapshot(mem)
    BY <1>0, <1>15 DEF Rename, Types
  <2>2. tmp # Partial
    BY <2>1, OfSnapshot DEF Sound
  <2> QED BY <1>0, <1>15, <2>1, <2>2 DEF Inv, Types, Rename
<1>16. CASE WriteFails
  <2>1. CASE file = None
    BY <1>0, <1>16, <2>1 DEF Inv, Types, WriteFails, files
  <2>2. CASE file # None
    BY <1>0, <1>16, <2>2 DEF Inv, Types, WriteFails, files
  <2> QED BY <2>1, <2>2
<1>17. CASE UNCHANGED vars
  BY <1>0, <1>17 DEF Inv, Types, Importing, Present, LabelAt, vars, files
<1> QED BY <1>1, <1>2, <1>3, <1>5, <1>6, <1>7, <1>8, <1>9, <1>10, <1>11, <1>12, <1>13, <1>14,
           <1>15, <1>16, <1>17 DEF Next

\* The inductive invariant: vaults are sound, files hold sound vaults, and the
\* second file is complete before it is renamed.
THEOREM Inductive == Spec => []Inv
<1>1. Init => Inv
  BY VaultAssumption DEF Init, Inv, Types, Saved, Importing
<1> QED BY <1>1, InvStep, PTL DEF Spec

-----------------------------------------------------------------------------
(* The properties. *)

\* Reopening a vault gives back what was in memory, index and children
\* included, for any labels, ids and categories and after any changes, imports,
\* failures and crashes.
THEOREM ReopensAsIsAlways == Spec => []ReopensAsIs
<1>1. Inv => ReopensAsIs
  <2> SUFFICES ASSUME Inv PROVE ReopensAsIs
    OBVIOUS
  <2>1. Types /\ (mem # None => Sound(mem)) /\ Saved(file) /\ Saved(tmp) /\ Saved(exported)
    BY DEF Inv
  <2>2. ASSUME NEW f, Saved(f) PROVE f \in Snapshots \cup {None, Partial}
    BY <2>2, OfSnapshot DEF Saved
  <2>3. mem \in Vaults \cup {None}
    BY <2>1 DEF Sound
  <2>4. TypeOK
    BY <2>1, <2>2, <2>3 DEF TypeOK, Types
  <2>5. mem # None => Reload(Snapshot(mem)) = mem
    BY <2>1, ReloadSnapshot
  <2> QED BY <2>4, <2>5 DEF ReopensAsIs
<1> QED BY <1>1, Inductive, PTL

\* The graph of every vault, open, saved or exported, hangs together: parents
\* are categories that are there, categories hang on the root, and labels are
\* unique.
THEOREM HangsTogetherAlways == Spec => []HangsTogether
<1>1. ASSUME NEW d, Sound(d), NEW i \in Present(d)
      PROVE  /\ d.parents[i] # {}
             /\ d.parents[i] \subseteq Present(d) \cup {Root}
             /\ \A c \in d.parents[i] \ {Root} : d.parents[c] = {Root}
             /\ \A j \in Present(d) : d.secrets[i].label = d.secrets[j].label => i = j
  <2>0. d \in Vaults /\ Indexed(d) /\ Hung(d)
    BY <1>1 DEF Sound
  <2>1. d.parents[i] # {} /\ d.parents[i] \subseteq Present(d) \cup {Root}
    BY <2>0 DEF Hung
  <2>2. ASSUME NEW c \in d.parents[i] \ {Root} PROVE d.parents[c] = {Root}
    <3>1. c \in Present(d) /\ LabelAt(d, c) \in Categories[LabelAt(d, i)] /\ LabelAt(d, i) \in Labels
      BY <2>0, Fields DEF Hung, LabelAt, Item
    <3>2. Categories[LabelAt(d, c)] = {}
      BY <3>1, VaultAssumption
    <3> QED BY <2>0, <3>1, <3>2 DEF Hung
  <2>3. \A j \in Present(d) : d.secrets[i].label = d.secrets[j].label => i = j
    BY <2>0 DEF Indexed, LabelAt
  <2> QED BY <2>1, <2>2, <2>3
<1>2. Inv => HangsTogether
  <2> SUFFICES ASSUME Inv, NEW d \in {mem, file, exported} \ {None, Partial}, NEW i \in Present(d)
               PROVE  /\ d.parents[i] # {}
                      /\ d.parents[i] \subseteq Present(d) \cup {Root}
                      /\ \A c \in d.parents[i] \ {Root} : d.parents[c] = {Root}
                      /\ \A j \in Present(d) : d.secrets[i].label = d.secrets[j].label => i = j
    BY DEF HangsTogether
  <2>1. CASE d = mem
    BY <2>1, <1>1 DEF Inv
  <2>2. CASE d \in {file, exported}
    <3>1. Saved(d)
      BY <2>2 DEF Inv
    <3>2. PICK e \in Vaults : Sound(e) /\ d = Snapshot(e)
      BY <3>1 DEF Saved
    <3>3. d.secrets = e.secrets /\ d.parents = e.parents /\ Present(d) = Present(e)
      BY <3>2, OfSnapshot
    <3> QED BY <3>2, <3>3, <1>1
  <2> QED BY <2>1, <2>2
<1> QED BY <1>2, Inductive, PTL

\* The view after a change is what LabelStore says it is.
LEMMA ChangesView ==
  ASSUME Inv, [Next]_vars, UNCHANGED file, mem # None, NEW l \in Labels
  PROVE  /\ \A v \in Values \cup {Blank} :
              /\ mem.index[l] = Absent /\ FreshIds(mem, l) # {}
              /\ mem' = Insert(mem, l, v, CHOOSE f \in FreshIds(mem, l) : TRUE)
              => Store!Put(l, v)
         /\ \A v \in Values : mem.index[l] # Absent /\ mem' = Update(mem, l, v) => Store!Change(l, v)
         /\ mem.index[l] # Absent /\ mem' = Remove(mem, l) => Store!Remove(l)
<1>0. /\ Sound(mem) /\ file # Partial /\ file' = file
      /\ Contents(mem) # None /\ (Contents(mem)[l] = Absent <=> mem.index[l] = Absent)
  BY ContentsType DEF Inv
<1>1. ASSUME NEW v \in Values \cup {Blank}, mem.index[l] = Absent, FreshIds(mem, l) # {},
             mem' = Insert(mem, l, v, CHOOSE f \in FreshIds(mem, l) : TRUE)
      PROVE  Store!Put(l, v)
  <2>1. (CHOOSE f \in FreshIds(mem, l) : TRUE) \in FreshIds(mem, l)
    BY <1>1
  <2>2. Contents(mem') =
           [k \in Labels |-> CASE k = l -> v
                               [] k \in Categories[l] /\ Contents(mem)[k] = Absent -> Blank
                               [] OTHER -> Contents(mem)[k]]
    BY <2>1, <1>0, <1>1, InsertContents
  <2> QED BY <2>2, <1>0, <1>1 DEF Store!Put
<1>2. ASSUME NEW v \in Values, mem.index[l] # Absent, mem' = Update(mem, l, v)
      PROVE  Store!Change(l, v)
  <2>1. Contents(mem') = [Contents(mem) EXCEPT ![l] = v]
    BY <1>0, <1>2, UpdateContents
  <2> QED BY <2>1, <1>0, <1>2 DEF Store!Change
<1>3. ASSUME mem.index[l] # Absent, mem' = Remove(mem, l)
      PROVE  Store!Remove(l)
  <2>1. Contents(mem') = [Contents(mem) EXCEPT ![l] = Absent]
    BY <1>0, <1>3, RemoveContents
  <2> QED BY <2>1, <1>0, <1>3 DEF Store!Remove
<1> QED BY <1>1, <1>2, <1>3

\* Vault implements LabelStore: whatever crashes and failures to write there
\* are, the file goes from the whole of one view to the whole of another, and
\* what is opened is what was saved.
THEOREM Refinement == Spec => RefinesLabelStore
<1>0. Contents(None) = None
  BY DEF Contents
<1>1. Init => Store!Init
  BY <1>0, VaultAssumption DEF Init, Store!Init
<1>2. ASSUME Inv, [Next]_vars
      PROVE  [Store!Next]_(Store!vars)
  <2>0. /\ Types
        /\ mem # None => Sound(mem)
        /\ file # Partial /\ Saved(file) /\ file' # Partial
        /\ pc = "rename" => tmp = Snapshot(mem)
    BY <1>2, InvStep DEF Inv
  <2>1. CASE UNCHANGED <<mem, file>>
    BY <2>1 DEF Store!vars
  <2>2. CASE Create
    <3>1. Contents(Empty) = Store!Empty
      <4>1. ByIndex(Empty) = Store!Empty
        BY DEF ByIndex, Empty, Store!Empty
      <4> QED BY <4>1, EmptyIsSound, ContentsByIndex
    <3>2. file = None /\ mem = None /\ mem' = Empty /\ file' = file
      BY <2>0, <2>2 DEF Create, Types, files
    <3> QED BY <1>0, <2>0, <3>1, <3>2 DEF Store!Create, Store!Next
  <2>3. CASE Open
    <3>1. mem = None /\ mem' = Reload(file) /\ file' = file /\ file # None
      BY <2>0, <2>3 DEF Open, Types, files
    <3>2. Contents(file) = Contents(Reload(file)) /\ Sound(Reload(file))
      BY <2>0, <3>1, SavedVault
    <3>3. Contents(file) # None
      BY <3>2, ContentsType
    <3> QED BY <1>0, <2>0, <3>1, <3>2, <3>3 DEF Store!Open, Store!Next
  <2>4. CASE mem' = None /\ file' = file
    BY <1>0, <2>0, <2>4 DEF Store!Close, Store!Next
  <2>5. ASSUME NEW l \in Labels, NEW v \in Values, AddSecret(l, v) PROVE Store!Next
    <3>1. /\ mem # None /\ mem.index[l] = Absent /\ FreshIds(mem, l) # {} /\ UNCHANGED file
          /\ mem' = Insert(mem, l, v, CHOOSE f \in FreshIds(mem, l) : TRUE)
      BY <2>0, <2>5 DEF AddSecret, ChangeTo, Types, files
    <3>2. Store!Put(l, v)
      BY <1>2, <3>1, ChangesView
    <3> QED BY <3>2 DEF Store!Next
  <2>6. ASSUME NEW l \in Labels, NEW v \in Values, UpdateSecret(l, v) PROVE Store!Next
    <3>1. mem # None /\ mem.index[l] # Absent /\ UNCHANGED file /\ mem' = Update(mem, l, v)
      BY <2>0, <2>6 DEF UpdateSecret, ChangeTo, Types, files
    <3>2. Store!Change(l, v)
      BY <1>2, <3>1, ChangesView
    <3> QED BY <3>2 DEF Store!Next
  <2>7. ASSUME NEW l \in Labels, DeleteSecret(l) PROVE Store!Next
    <3>1. mem # None /\ mem.index[l] # Absent /\ UNCHANGED file /\ mem' = Remove(mem, l)
      BY <2>0, <2>7 DEF DeleteSecret, ChangeTo, Types, files
    <3>2. Store!Remove(l)
      BY <1>2, <3>1, ChangesView
    <3> QED BY <3>2 DEF Store!Next
  <2>8. ASSUME NEW l \in Labels, ImportOne(l), mem' # mem PROVE Store!Next
    <3> DEFINE w == Reload(exported).secrets[Reload(exported).index[l]].value
    <3>1. pc = "importing" /\ l \in todo /\ mem # None /\ UNCHANGED file
      BY <2>0, <2>8 DEF ImportOne, Types, files
    <3>2. w \in Values \cup {Blank}
      BY <1>2, <3>1, ImportedValue
    <3>3. /\ mem.index[l] = Absent /\ FreshIds(mem, l) # {}
          /\ mem' = Insert(mem, l, w, CHOOSE f \in FreshIds(mem, l) : TRUE)
      BY <2>8 DEF ImportOne
    <3> HIDE DEF w
    <3>4. Store!Put(l, w)
      BY <1>2, <3>1, <3>2, <3>3, ChangesView
    <3> QED BY <3>2, <3>4 DEF Store!Next
  <2>9. CASE Rename
    <3>1. Sound(mem) /\ file' = Snapshot(mem) /\ mem' = mem
      BY <2>0, <2>9 DEF Rename, Types
    <3>2. Contents(file') = Contents(mem) /\ Contents(mem) # None
      BY <3>1, ContentsOfSnapshot, ContentsType DEF Sound
    <3> QED BY <2>0, <3>1, <3>2 DEF Store!Commit, Store!Next
  <2>10. CASE WriteFails
    BY <2>1, <2>4, <2>10 DEF WriteFails, files
  <2>11. CASE CloseOrCrash
    BY <2>4, <2>11 DEF CloseOrCrash, files
  <2>12. CASE \/ Export \/ FinishExport \/ ExportFails \/ Import \/ FinishImport
              \/ BeginWrite \/ FinishWrite \/ UNCHANGED vars
    BY <2>1, <2>12 DEF Export, FinishExport, ExportFails, Import, FinishImport, BeginWrite, FinishWrite, vars, files
  <2>13. ASSUME NEW l \in Labels, ImportOne(l) PROVE [Store!Next]_(Store!vars)
    <3>1. UNCHANGED file
      BY <2>13 DEF ImportOne, files
    <3> QED BY <2>1, <2>8, <2>13, <3>1
  <2> QED BY <1>2, <2>2, <2>3, <2>5, <2>6, <2>7, <2>9, <2>10, <2>11, <2>12, <2>13 DEF Next
<1> QED BY <1>1, <1>2, Inductive, PTL DEF Spec, RefinesLabelStore, Store!Spec
=============================================================================
