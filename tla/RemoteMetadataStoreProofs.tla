---------------------- MODULE RemoteMetadataStoreProofs ----------------------
(***************************************************************************)
(* Proofs about RemoteMetadataStore, for every number of names, ids,       *)
(* lineages and every chain limit.                                         *)
(***************************************************************************)
EXTENDS RemoteMetadataStore, TLAPS

(***************************************************************************)
(* The inductive invariant.  ChainsResolve alone is not inductive: deleting*)
(* an account removes the rows of one user only, and it is because a       *)
(* parent belongs to the user of its child (part of ChainsResolve) that no *)
(* child of another account loses its parent.  Tombstones and live ids are *)
(* disjoint because an id is only allocated above both.                    *)
(***************************************************************************)
TombstonesAreDead == deletedUsers \cap LiveUsers = {}

StoreInv ==
    /\ StoreTypeOK
    /\ ChainsResolve
    /\ ChainsAreLinear
    /\ RowsHaveOwners
    /\ NamesAreUnique
    /\ TombstonesAreDead

USE SnapshotIdsAssumption, LimitsAssumption, NamesAssumption,
    NoRowAssumption

(***************************************************************************)
(* The queries on a well-typed database speak of its own ids.              *)
(***************************************************************************)
LEMMA RowsTyped ==
    ASSUME StoreTypeOK
    PROVE  /\ Rows \subseteq SnapshotIds
           /\ \A s \in Rows : snapshots[s] \in Row
           /\ \A s \in SnapshotIds : snapshots[s] \in Row => s \in Rows
  BY DEF StoreTypeOK, Rows

(***************************************************************************)
(* The initial database, with empty tables, satisfies the invariant.       *)
(***************************************************************************)
LEMMA InitStoreInv == StoreInit => StoreInv
  BY DEF StoreInit, StoreInv, StoreTypeOK, ChainsResolve, ChainsAreLinear,
         RowsHaveOwners, NamesAreUnique, TombstonesAreDead, Rows, LiveUsers,
         UserIds

(***************************************************************************)
(* CreateUser touches the users table only, at an id neither live nor      *)
(* tombstoned, under a name no live id has.                                *)
(***************************************************************************)
LEMMA CreateUserStoreInv ==
    ASSUME StoreInv, NEW name \in Names, CreateUser(name)
    PROVE  StoreInv'
<1>. USE DEF StoreInv
<1>1. PICK id \in UserIds : /\ IsNextUserId(id)
                            /\ username' = [username EXCEPT ![id] = name]
  BY DEF CreateUser
<1>2. UNCHANGED <<deletedUsers, snapshots, now>> /\ Rows' = Rows
  BY DEF CreateUser, Rows
<1>3. StoreTypeOK'
  BY <1>1, <1>2 DEF StoreTypeOK
<1>4. LiveUsers' = LiveUsers \cup {id}
  BY <1>1 DEF LiveUsers, StoreTypeOK
<1>5. id \notin Allocated
  BY <1>1 DEF IsNextUserId, UserIds
<1>6. \A u \in LiveUsers : username'[u] = username[u] /\ username[u] # name
  BY <1>1, <1>5 DEF CreateUser, CreateUserResult, FindUser, LiveUsers,
                    Allocated, StoreTypeOK
<1>7. ChainsResolve' /\ ChainsAreLinear'
  BY <1>2 DEF ChainsResolve, ChainsAreLinear
<1>8. RowsHaveOwners'
  BY <1>2, <1>4 DEF RowsHaveOwners
<1>9. NamesAreUnique'
  BY <1>1, <1>4, <1>6 DEF NamesAreUnique, StoreTypeOK
<1>10. TombstonesAreDead'
  BY <1>2, <1>4, <1>5 DEF TombstonesAreDead, Allocated
<1>. QED
  BY <1>3, <1>7, <1>8, <1>9, <1>10

(***************************************************************************)
(* InsertSnapshot adds one row at a free key.  The row it adds resolves    *)
(* and has no sibling by the checks of the transaction, and a row already  *)
(* there cannot be its child, since that row's parent was there already.   *)
(***************************************************************************)
LEMMA InsertSnapshotStoreInv ==
    ASSUME StoreInv, NEW s \in SnapshotIds, NEW row \in OfferedRows,
           InsertSnapshot(s, row)
    PROVE  StoreInv'
<1>. USE DEF StoreInv
<1>1. /\ row \in Row
      /\ row.kind \in Kinds
  BY DEF OfferedRows, Row, StoreTypeOK
<1>2. /\ snapshots' = [snapshots EXCEPT ![s] = row]
      /\ UNCHANGED <<username, deletedUsers, now>>
      /\ LiveUsers' = LiveUsers
  BY DEF InsertSnapshot, LiveUsers
<1>3. /\ s \notin Rows
      /\ row.user \in LiveUsers
      /\ row.kind = "incremental" => IncrementalResult(row) = "kOk"
      /\ row.kind # "incremental" => FullResult(row) = "kOk"
  BY <1>1 DEF InsertSnapshot, InsertSnapshotResult, Constraint
<1>4. /\ Rows' = Rows \cup {s}
      /\ snapshots'[s] = row
      /\ \A t \in Rows : snapshots'[t] = snapshots[t]
  BY <1>1, <1>2, <1>3 DEF Rows, StoreTypeOK
<1>5. row.kind = "incremental" =>
        /\ row.parent \in Rows
        /\ snapshots[row.parent].user = row.user
        /\ snapshots[row.parent].lineage = row.lineage
        /\ snapshots[row.parent].generation + 1 = row.generation
        /\ row.generation <= MaxChainGeneration
        /\ \A t \in Rows : snapshots[t].user = row.user
                              => snapshots[t].parent # row.parent
  <2>1. row.generation \in Nat
    BY <1>1 DEF Row
  <2>. QED
    BY <1>3, <2>1 DEF IncrementalResult, FindSnapshot, RowsOf, Children
<1>6. row.kind # "incremental" => row.parent = NoParent /\ row.generation = 0
  BY <1>3 DEF FullResult
<1>7. StoreTypeOK'
  BY <1>1, <1>2 DEF StoreTypeOK
<1>8. ChainsResolve'
  BY <1>1, <1>3, <1>4, <1>5, <1>6 DEF ChainsResolve, Kinds
<1>9. ChainsAreLinear'
  <2>. SUFFICES ASSUME NEW a \in Rows', NEW b \in Rows',
                       snapshots'[a].parent = snapshots'[b].parent,
                       snapshots'[a].parent # NoParent
                PROVE  a = b
    BY DEF ChainsAreLinear
  <2>1. CASE a \in Rows /\ b \in Rows
    BY <2>1, <1>4 DEF ChainsAreLinear
  <2>2. CASE a \in Rows /\ b = s
    <3>1. row.kind = "incremental"
      BY <2>2, <1>4, <1>6
    <3>2. snapshots[a].parent = row.parent /\ snapshots[a].kind # "full"
      BY <2>2, <1>4, <1>6 DEF ChainsResolve
    <3>3. snapshots[a].user = row.user
      BY <2>2, <3>1, <3>2, <1>5 DEF ChainsResolve
    <3>. QED
      BY <2>2, <3>1, <3>2, <3>3, <1>5
  <2>3. CASE a = s /\ b \in Rows
    <3>1. row.kind = "incremental"
      BY <2>3, <1>4, <1>6
    <3>2. snapshots[b].parent = row.parent /\ snapshots[b].kind # "full"
      BY <2>3, <1>4, <1>6 DEF ChainsResolve
    <3>3. snapshots[b].user = row.user
      BY <2>3, <3>1, <3>2, <1>5 DEF ChainsResolve
    <3>. QED
      BY <2>3, <3>1, <3>2, <3>3, <1>5
  <2>4. CASE a = s /\ b = s
    BY <2>4
  <2>. QED
    BY <2>1, <2>2, <2>3, <2>4, <1>4
<1>10. RowsHaveOwners'
  BY <1>2, <1>3, <1>4 DEF RowsHaveOwners
<1>11. NamesAreUnique' /\ TombstonesAreDead'
  BY <1>2 DEF NamesAreUnique, TombstonesAreDead
<1>. QED
  BY <1>7, <1>8, <1>9, <1>10, <1>11

(***************************************************************************)
(* DeleteSnapshot frees one key, and only that of a row no other row of    *)
(* the account names as its parent.                                        *)
(***************************************************************************)
LEMMA DeleteSnapshotStoreInv ==
    ASSUME StoreInv, NEW user \in UserIds, NEW s \in SnapshotIds,
           DeleteSnapshot(user, s)
    PROVE  StoreInv'
<1>. USE DEF StoreInv
<1>1. /\ s \in Rows
      /\ snapshots[s].user = user
      /\ \A t \in Rows : snapshots[t].user = user => snapshots[t].parent # s
  BY DEF DeleteSnapshot, DeleteSnapshotResult, FindSnapshot, Children, RowsOf
<1>2. /\ snapshots' = [snapshots EXCEPT ![s] = NoRow]
      /\ UNCHANGED <<username, deletedUsers, now>>
      /\ LiveUsers' = LiveUsers
  BY DEF DeleteSnapshot, LiveUsers
<1>3. /\ Rows' = Rows \ {s}
      /\ \A t \in Rows' : snapshots'[t] = snapshots[t]
  BY <1>2 DEF Rows, StoreTypeOK
<1>4. StoreTypeOK'
  BY <1>2 DEF StoreTypeOK
<1>5. ChainsResolve'
  <2>. SUFFICES ASSUME NEW t \in Rows', snapshots[t].kind # "full"
                PROVE  snapshots[t].parent \in Rows'
    BY <1>3 DEF ChainsResolve
  <2>1. /\ snapshots[t].parent \in Rows
        /\ snapshots[snapshots[t].parent].user = snapshots[t].user
    BY <1>3 DEF ChainsResolve
  <2>. QED
    BY <2>1, <1>1, <1>3
<1>6. ChainsAreLinear' /\ RowsHaveOwners'
  BY <1>2, <1>3 DEF ChainsAreLinear, RowsHaveOwners
<1>7. NamesAreUnique' /\ TombstonesAreDead'
  BY <1>2 DEF NamesAreUnique, TombstonesAreDead
<1>. QED
  BY <1>4, <1>5, <1>6, <1>7

(***************************************************************************)
(* DeleteUser removes the rows of one account, and with them every row     *)
(* that depended on one of them.                                           *)
(***************************************************************************)
LEMMA DeleteUserStoreInv ==
    ASSUME StoreInv, NEW user \in UserIds, DeleteUser(user)
    PROVE  StoreInv'
<1>. USE DEF StoreInv
<1>1. /\ snapshots' = [s \in SnapshotIds |->
                        IF s \in RowsOf(user) THEN NoRow ELSE snapshots[s]]
      /\ username' = [username EXCEPT ![user] = NoName]
      /\ deletedUsers' = deletedUsers \cup {user}
      /\ now' = now
  BY DEF DeleteUser
<1>2. StoreTypeOK'
  BY <1>1 DEF StoreTypeOK
<1>3. LiveUsers' = LiveUsers \ {user}
  BY <1>1 DEF LiveUsers, StoreTypeOK
<1>4. /\ Rows' = {s \in Rows : snapshots[s].user # user}
      /\ \A s \in Rows' : snapshots'[s] = snapshots[s]
  BY <1>1 DEF Rows, RowsOf
<1>5. ChainsResolve'
  <2>. SUFFICES ASSUME NEW s \in Rows', snapshots[s].kind # "full"
                PROVE  snapshots[s].parent \in Rows'
    BY <1>4 DEF ChainsResolve
  <2>. QED
    BY <1>4 DEF ChainsResolve
<1>6. ChainsAreLinear'
  BY <1>4 DEF ChainsAreLinear
<1>7. RowsHaveOwners'
  BY <1>3, <1>4 DEF RowsHaveOwners
<1>8. NamesAreUnique'
  BY <1>1, <1>3 DEF NamesAreUnique, StoreTypeOK, LiveUsers
<1>9. TombstonesAreDead'
  BY <1>1, <1>3 DEF TombstonesAreDead
<1>. QED
  BY <1>2, <1>5, <1>6, <1>7, <1>8, <1>9

(***************************************************************************)
(* Every step of the database, and every step that leaves it alone, keeps  *)
(* the invariant.                                                          *)
(***************************************************************************)
LEMMA NextStoreInv == StoreInv /\ [StoreNext]_storeVars => StoreInv'
<1>. SUFFICES ASSUME StoreInv, [StoreNext]_storeVars
              PROVE  StoreInv'
  OBVIOUS
<1>1. CASE \E name \in Names : CreateUser(name)
  BY <1>1, CreateUserStoreInv
<1>2. CASE \E s \in SnapshotIds, row \in OfferedRows : InsertSnapshot(s, row)
  BY <1>2, InsertSnapshotStoreInv
<1>3. CASE \E user \in UserIds, s \in SnapshotIds : DeleteSnapshot(user, s)
  BY <1>3, DeleteSnapshotStoreInv
<1>4. CASE \E user \in UserIds : DeleteUser(user)
  BY <1>4, DeleteUserStoreInv
<1>5. CASE Tick \/ UNCHANGED storeVars
  <2>1. /\ UNCHANGED <<username, deletedUsers, snapshots>>
        /\ now' \in Nat
    BY <1>5 DEF Tick, storeVars, StoreInv, StoreTypeOK
  <2>2. Rows' = Rows /\ LiveUsers' = LiveUsers
    BY <2>1 DEF Rows, LiveUsers
  <2>. QED
    BY <2>1, <2>2 DEF StoreInv, StoreTypeOK, ChainsResolve, ChainsAreLinear,
                      RowsHaveOwners, NamesAreUnique, TombstonesAreDead
<1>. QED
  BY <1>1, <1>2, <1>3, <1>4, <1>5 DEF StoreNext

(***************************************************************************)
(* The tables only ever hold well-formed rows, accounts and tombstones.    *)
(***************************************************************************)
THEOREM StoreTypeCorrect == StoreSpec => []StoreTypeOK
<1>1. StoreInv => StoreTypeOK
  BY DEF StoreInv
<1>. QED
  BY <1>1, InitStoreInv, NextStoreInv, PTL DEF StoreSpec

(***************************************************************************)
(* Whatever the server passes to the store and in whatever order, every    *)
(* incremental snapshot on record can be resolved down to a full one, and  *)
(* no two snapshots share a parent.                                        *)
(***************************************************************************)
THEOREM ChainsSound ==
    StoreSpec => []RowsAreSound
<1>1. StoreInv => RowsAreSound
  BY DEF StoreInv, RowsAreSound
<1>. QED
  BY <1>1, InitStoreInv, NextStoreInv, PTL DEF StoreSpec

(***************************************************************************)
(* Names stay unique.                                                      *)
(***************************************************************************)
THEOREM NamesStayUnique == StoreSpec => []NamesAreUnique
<1>1. StoreInv => NamesAreUnique
  BY DEF StoreInv
<1>. QED
  BY <1>1, InitStoreInv, NextStoreInv, PTL DEF StoreSpec

(***************************************************************************)
(* A deregistered id never names an account again, and no id passes from   *)
(* one name to another: what makes a session token safe to accept by id.   *)
(***************************************************************************)
THEOREM DeletedIdsNeverReturn == StoreSpec => DeletedIdsStayDead
<1>1. StoreInv /\ [StoreNext]_storeVars =>
        [\A u \in UserIds :
           /\ u \in deletedUsers => username'[u] = NoName /\ u \in deletedUsers'
           /\ u \in LiveUsers => username'[u] = username[u]
                                 \/ u \in deletedUsers']_storeVars
  <2>. SUFFICES ASSUME StoreInv, StoreNext, NEW u \in UserIds
                PROVE  /\ u \in deletedUsers =>
                            username'[u] = NoName /\ u \in deletedUsers'
                       /\ u \in LiveUsers => username'[u] = username[u]
                                             \/ u \in deletedUsers'
    OBVIOUS
  <2>. USE DEF StoreInv
  <2>0. u \in deletedUsers => username[u] = NoName
    BY DEF TombstonesAreDead, LiveUsers
  <2>1. CASE \E name \in Names : CreateUser(name)
    <3>1. PICK name \in Names, id \in UserIds :
             /\ IsNextUserId(id)
             /\ username' = [username EXCEPT ![id] = name]
             /\ deletedUsers' = deletedUsers
      BY <2>1 DEF CreateUser
    <3>2. id \notin Allocated
      BY <3>1 DEF IsNextUserId, UserIds
    <3>3. u \in Allocated => username'[u] = username[u]
      BY <3>1, <3>2 DEF StoreTypeOK
    <3>. QED
      BY <3>1, <3>3, <2>0 DEF Allocated
  <2>2. CASE \E user \in UserIds : DeleteUser(user)
    BY <2>2, <2>0 DEF DeleteUser, StoreTypeOK
  <2>3. CASE UNCHANGED <<username, deletedUsers>>
    BY <2>3, <2>0
  <2>. QED
    BY <2>1, <2>2, <2>3
       DEF StoreNext, InsertSnapshot, DeleteSnapshot, Tick
<1>. QED
  BY <1>1, InitStoreInv, NextStoreInv, PTL DEF StoreSpec, DeletedIdsStayDead
=============================================================================
