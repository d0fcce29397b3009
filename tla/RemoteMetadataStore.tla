------------------------- MODULE RemoteMetadataStore -------------------------
(***************************************************************************)
(* The metadata database of the remote backup server,                      *)
(* server/remote_metadata_store.cpp: three SQLite tables behind one mutex. *)
(*                                                                         *)
(*   users          username[id]   the account with that id, or NoName     *)
(*   deleted_users  deletedUsers   the tombstones, never removed           *)
(*   snapshots      snapshots[s]   the row with that primary key, or NoRow *)
(*                                                                         *)
(* Every public method takes the mutex for its whole body and every        *)
(* multi-statement change is one transaction, so a method is one action.   *)
(* A method that refuses changes nothing: the reason it gives is what      *)
(* InsertSnapshotResult, DeleteSnapshotResult and DeleteUserResult return, *)
(* and the server module decides what to answer with it.                   *)
(***************************************************************************)
EXTENDS Naturals

CONSTANTS
    Names,               \* usernames the clients use
    NoName,              \* the id names no account
    SnapshotIds,         \* primary keys, 128 random bits in the code; numbers
                         \* here because the client orders by them
    NoRow,               \* the primary key is free
    NoParent,            \* the empty parent_id of a full snapshot
    Lineages,            \* lineage digests
    MaxChainGeneration,  \* kMaxRemoteChainGeneration, 64 in the code
    MaxUserId,           \* bound: account ids a behaviour may allocate
    MaxTime              \* bound: seconds the wall clock may advance

ASSUME NamesAssumption == NoName \notin Names
ASSUME SnapshotIdsAssumption ==
    SnapshotIds \subseteq Nat /\ NoParent \notin SnapshotIds
ASSUME LimitsAssumption ==
    MaxChainGeneration \in Nat /\ MaxUserId \in Nat /\ MaxTime \in Nat

VARIABLES username, deletedUsers, snapshots, now

storeVars == <<username, deletedUsers, snapshots, now>>

UserIds == 1..MaxUserId
Kinds == {"full", "incremental"}

(***************************************************************************)
(* The columns of a snapshots row that some decision reads.                *)
(***************************************************************************)
Row == [user : UserIds, kind : Kinds, parent : SnapshotIds \cup {NoParent},
        generation : Nat, lineage : Lineages, createdAt : Nat]

ASSUME NoRowAssumption == NoRow \notin Row

StoreTypeOK ==
    /\ username \in [UserIds -> Names \cup {NoName}]
    /\ deletedUsers \subseteq UserIds
    /\ snapshots \in [SnapshotIds -> Row \cup {NoRow}]
    /\ now \in Nat

-----------------------------------------------------------------------------
(* Queries *)

LiveUsers == {u \in UserIds : username[u] # NoName}
Allocated == LiveUsers \cup deletedUsers
Rows == {s \in SnapshotIds : snapshots[s] # NoRow}
FindUser(name) == {u \in UserIds : username[u] = name}
RowsOf(user) == {s \in Rows : snapshots[s].user = user}
FindSnapshot(user, s) == s \in RowsOf(user)
Children(user, s) == {c \in RowsOf(user) : snapshots[c].parent = s}

\* Mutated: the implicit rowid, which gives a deleted maximum back.
NextUserIdFromUsersOnly(id) ==
    /\ \A used \in LiveUsers : used < id
    /\ id = 1 \/ id - 1 \in LiveUsers

(***************************************************************************)
(* SELECT MAX(users_max, deleted_max) + 1, each COALESCEd to 0.            *)
(***************************************************************************)
IsNextUserId(id) ==
    /\ \A used \in Allocated : used < id
    /\ id = 1 \/ id - 1 \in Allocated

-----------------------------------------------------------------------------
(* CreateUser *)

CreateUserResult(name) ==
    IF FindUser(name) = {} THEN "kOk" ELSE "kAlreadyExists"

CreateUser(name) ==
    /\ CreateUserResult(name) = "kOk"
    /\ \E id \in UserIds :
         /\ IsNextUserId(id)
         /\ username' = [username EXCEPT ![id] = name]
    /\ UNCHANGED <<deletedUsers, snapshots, now>>

-----------------------------------------------------------------------------
(* InsertSnapshot: the chain is checked again inside the transaction that  *)
(* inserts, because the parent may have gone or got a child since the      *)
(* server looked at it in UPLOAD_BEGIN.                                    *)

\* Mutated: a connection opened without PRAGMA foreign_keys=ON.
ConstraintWithoutForeignKeys(s, row) == s \in Rows

Constraint(s, row) ==  \* PRIMARY KEY(id), FOREIGN KEY(user_id)
    s \in Rows \/ row.user \notin LiveUsers

\* Mutated: the siblings are counted in UPLOAD_BEGIN only.
IncrementalWithoutSiblingCount(row) ==
    IF row.parent = NoParent \/ row.generation = 0
         \/ row.generation > MaxChainGeneration THEN "kChainConflict"
    ELSE IF ~FindSnapshot(row.user, row.parent) THEN "kNotFound"
    ELSE IF \/ snapshots[row.parent].lineage # row.lineage
            \/ snapshots[row.parent].generation + 1 # row.generation
         THEN "kChainConflict"
    ELSE "kOk"

IncrementalResult(row) ==
    IF row.parent = NoParent \/ row.generation = 0
         \/ row.generation > MaxChainGeneration THEN "kChainConflict"
    ELSE IF ~FindSnapshot(row.user, row.parent) THEN "kNotFound"
    ELSE IF \/ snapshots[row.parent].lineage # row.lineage
            \/ snapshots[row.parent].generation + 1 # row.generation
            \/ Children(row.user, row.parent) # {} THEN "kChainConflict"
    ELSE "kOk"

FullResult(row) ==
    IF row.parent # NoParent \/ row.generation # 0 THEN "kChainConflict"
    ELSE "kOk"

InsertSnapshotResult(s, row) ==
    LET chain == IF row.kind = "incremental" THEN IncrementalResult(row)
                                             ELSE FullResult(row)
    IN IF chain # "kOk" THEN chain
       ELSE IF Constraint(s, row) THEN "kAlreadyExists"
       ELSE "kOk"

InsertSnapshot(s, row) ==
    /\ InsertSnapshotResult(s, row) = "kOk"
    /\ snapshots' = [snapshots EXCEPT ![s] = row]
    /\ UNCHANGED <<username, deletedUsers, now>>

-----------------------------------------------------------------------------
(* DeleteSnapshot: refuses to remove a row another row depends on. *)

\* Mutated: the dependents are counted by the caller only.
DeleteWithoutDependents(user, s) ==
    IF FindSnapshot(user, s) THEN "kOk" ELSE "kNotFound"

DeleteSnapshotResult(user, s) ==
    IF ~FindSnapshot(user, s) THEN "kNotFound"
    ELSE IF Children(user, s) # {} THEN "kHasDependents"
    ELSE "kOk"

DeleteSnapshot(user, s) ==
    /\ DeleteSnapshotResult(user, s) = "kOk"
    /\ snapshots' = [snapshots EXCEPT ![s] = NoRow]
    /\ UNCHANGED <<username, deletedUsers, now>>

-----------------------------------------------------------------------------
(* DeleteUser: rows, account and tombstone in one transaction. *)

DeleteUserResult(user) == IF user \in LiveUsers THEN "kOk" ELSE "kNotFound"

DeleteUser(user) ==
    /\ DeleteUserResult(user) = "kOk"
    /\ snapshots' = [s \in SnapshotIds |->
                       IF s \in RowsOf(user) THEN NoRow ELSE snapshots[s]]
    /\ username' = [username EXCEPT ![user] = NoName]
    /\ deletedUsers' = deletedUsers \cup {user}
    /\ UNCHANGED now

-----------------------------------------------------------------------------
(***************************************************************************)
(* The wall clock in seconds that the server stamps rows with.             *)
(***************************************************************************)
Tick ==
    /\ now < MaxTime
    /\ now' = now + 1
    /\ UNCHANGED <<username, deletedUsers, snapshots>>

StoreInit ==
    /\ username = [u \in UserIds |-> NoName]
    /\ deletedUsers = {}
    /\ snapshots = [s \in SnapshotIds |-> NoRow]
    /\ now = 0

(***************************************************************************)
(* The rows a caller may offer: any account, parent, generation and        *)
(* lineage, stamped with the current second.  Nothing is assumed of the    *)
(* caller, so what is shown of StoreSpec holds whatever the server passes. *)
(***************************************************************************)
OfferedRows ==
    [user : UserIds, kind : Kinds, parent : SnapshotIds \cup {NoParent},
     generation : 0..MaxChainGeneration + 1, lineage : Lineages,
     createdAt : {now}]

StoreNext ==
    \/ \E name \in Names : CreateUser(name)
    \/ \E s \in SnapshotIds, row \in OfferedRows : InsertSnapshot(s, row)
    \/ \E user \in UserIds, s \in SnapshotIds : DeleteSnapshot(user, s)
    \/ \E user \in UserIds : DeleteUser(user)
    \/ Tick

StoreSpec == StoreInit /\ [][StoreNext]_storeVars

-----------------------------------------------------------------------------
(***************************************************************************)
(* Every incremental row can be resolved against a row that is still       *)
(* there: the parent exists, belongs to the same account and lineage and   *)
(* is one generation older, and no chain is longer than a client can       *)
(* restore.  Neither an upload racing the deletion of its parent nor an    *)
(* account deletion may break a chain.                                     *)
(***************************************************************************)
ChainsResolve ==
    \A s \in Rows :
      LET row == snapshots[s] IN
      IF row.kind = "full" THEN row.parent = NoParent /\ row.generation = 0
      ELSE /\ row.parent \in Rows
           /\ snapshots[row.parent].user = row.user
           /\ snapshots[row.parent].lineage = row.lineage
           /\ snapshots[row.parent].generation + 1 = row.generation
           /\ row.generation <= MaxChainGeneration

(***************************************************************************)
(* Chains are linear: two uploads that both saw a childless parent cannot  *)
(* both be recorded.                                                       *)
(***************************************************************************)
ChainsAreLinear ==
    \A s, t \in Rows :
      snapshots[s].parent = snapshots[t].parent /\ snapshots[s].parent # NoParent
        => s = t

(***************************************************************************)
(* Each row belongs to a live account: an upload that ends after its       *)
(* account was deleted leaves no row behind.                               *)
(***************************************************************************)
RowsHaveOwners == \A s \in Rows : snapshots[s].user \in LiveUsers

(***************************************************************************)
(* Chains can be followed to their end, no two rows compete for a parent   *)
(* and none belongs to nobody: neither an upload that saw a childless      *)
(* parent nor one whose account went before it ended leaves a row the rest *)
(* does not expect.                                                        *)
(***************************************************************************)
RowsAreSound == ChainsResolve /\ ChainsAreLinear /\ RowsHaveOwners

(***************************************************************************)
(* An id that was deregistered never names an account again, so a session  *)
(* token signed before the deletion cannot reach somebody else's account,  *)
(* and an id never passes from one name to another.                        *)
(***************************************************************************)
DeletedIdsStayDead ==
    [][\A u \in UserIds :
         /\ u \in deletedUsers => username'[u] = NoName /\ u \in deletedUsers'
         /\ u \in LiveUsers => username'[u] = username[u]
                               \/ u \in deletedUsers']_storeVars

(***************************************************************************)
(* No two accounts share a name.                                           *)
(***************************************************************************)
NamesAreUnique ==
    \A u, v \in LiveUsers : username[u] = username[v] => u = v
=============================================================================
