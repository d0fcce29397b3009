-------------------------- MODULE RemoteBackupClient --------------------------
(***************************************************************************)
(* Remote incremental backup and restore, network/remote_incremental.cpp   *)
(* over network/remote_backup_client.cpp, on several machines that use one *)
(* account and one lineage (same source path, hence the same digest).      *)
(*                                                                         *)
(* Each machine keeps a cache directory of snapshots it made or fetched    *)
(* and an index from server ids to archive names.  The server's rows and   *)
(* what it accepts are those of RemoteMetadataStore.  An archive is a      *)
(* number, given out when an engine makes it; its bytes never change, so   *)
(* the number stands for its content and for its own verified identity.    *)
(*                                                                         *)
(* A snapshot enters a cache as three files published one by one, archive  *)
(* first: "whole" with its sidecars, "partial" without.  The engine that   *)
(* makes an archive publishes it whole or not at all (RealtimeBackup shows *)
(* it: SnapshotsAreAtomic).                                                *)
(***************************************************************************)
EXTENDS RemoteMetadataStore, Sequences, FiniteSets

CONSTANTS
    Machines,
    MaxArchives,  \* bound: archives made in a behaviour
    Restored,     \* bound: the snapshots that are restored
    SameSecond    \* two machines may name an archive in one second

ASSUME ClientAssumption ==
    /\ Names # {} /\ Lineages # {} /\ MaxUserId # 0
    /\ MaxArchives \in Nat /\ Restored \subseteq SnapshotIds
    /\ SameSecond \in BOOLEAN

VARIABLES
    made,     \* sequence: the archives made, by number
    bundle,   \* bundle[s]: the archive uploaded as s, or 0; ids never return
    cache,    \* cache[m][a]: "absent", "partial" or "whole"
    index,    \* index[m][s]: the name the index gives for s, or NoArchive
    job       \* job[m]: the operation under way

machineVars == <<made, bundle, cache, index, job>>
accountVars == <<storeVars, machineVars>>

Archives == 1..MaxArchives
Account == 1
Lineage == CHOOSE l \in Lineages : TRUE
NoArchive == <<>>
ArchiveNames == (0..MaxTime) \X (0..MaxChainGeneration)  \* "-<time>-g<generation>"
NoJob == [step |-> "idle", restore |-> FALSE, target |-> NoParent,
          chain |-> <<>>, names |-> <<>>, fresh |-> 0, parent |-> NoParent]

Name(a) == made[a].name
At(m, step) == job[m].step = step
Goto(m, step) == job' = [job EXCEPT ![m].step = step]
GiveUp(m) == job' = [job EXCEPT ![m] = NoJob]

-----------------------------------------------------------------------------
(* Requests.  Each first sees to a connection (a new one resumes the       *)
(* session with the token kept in memory) and none is ever sent twice.     *)

(***************************************************************************)
(* The operation of m ends before its next step: a request that the server *)
(* does not execute (no connection, a refused token), a local failure that *)
(* changes nothing, or the end of the process.  A connection that went     *)
(* between two requests of an upload ends it too: the next request opens   *)
(* another, on which the server has no upload open.  A half unpacked       *)
(* snapshot stays if it was the process that ended.                        *)
(***************************************************************************)
Fails(m) ==
    /\ ~At(m, "idle")
    /\ GiveUp(m)
    /\ UNCHANGED <<storeVars, made, bundle, cache, index>>

-----------------------------------------------------------------------------
(* Which snapshots: FindRemoteLineageHead and ResolveRemoteChain *)

Referenced == {snapshots[s].parent : s \in Rows}

HeadBefore(s, t) ==  \* s is preferred to t
    LET a == snapshots[s]  b == snapshots[t] IN
    \/ a.createdAt > b.createdAt
    \/ a.createdAt = b.createdAt /\ a.generation > b.generation
    \/ a.createdAt = b.createdAt /\ a.generation = b.generation /\ s < t

Heads == {s \in RowsOf(Account) \ Referenced : snapshots[s].lineage = Lineage}
IsHead(s) == s \in Heads /\ \A t \in Heads \ {s} : HeadBefore(s, t)

(***************************************************************************)
(* The chain from its full snapshot to s, along the parents the server     *)
(* lists.                                                                  *)
(***************************************************************************)
ChainTo[s \in SnapshotIds] ==
    LET Depth(t) == snapshots[t].generation
        Up[d \in 0..MaxChainGeneration] ==
            IF d = 0 THEN s ELSE snapshots[Up[d - 1]].parent
    IN [i \in 1..Depth(s) + 1 |-> Up[Depth(s) + 1 - i]]

-----------------------------------------------------------------------------
(* The cache *)

Present(m) == {a \in DOMAIN made : cache[m][a] # "absent"}
Under(m, name) == {a \in Present(m) : Name(a) = name}
CacheHasVerifiedArchive(m, name) == \E a \in Under(m, name) : cache[m][a] = "whole"
Material(m, name) == CHOOSE a \in Under(m, name) : TRUE

(***************************************************************************)
(* The index is saved or, its failure being ignored, not.                  *)
(***************************************************************************)
Remember(m, s, name) ==
    \E saved \in {name, index[m][s]} : index' = [index EXCEPT ![m][s] = saved]

-----------------------------------------------------------------------------
(* RunRemoteBackup and RunRemoteRestore *)

(***************************************************************************)
(* The first List picks the head.  Without one, or when a full baseline is *)
(* asked for, the engine is given a baseline name no snapshot can have.    *)
(***************************************************************************)
StartBackup(m, allowIncremental) ==
    /\ At(m, "idle")
    /\ \/ /\ Heads = {} \/ ~allowIncremental
          /\ Goto(m, "engine")
       \/ /\ allowIncremental
          /\ \E s \in Heads :
               /\ IsHead(s)
               /\ job' = [job EXCEPT ![m].step = "chain", ![m].target = s]
    /\ UNCHANGED <<storeVars, made, bundle, cache, index>>

(***************************************************************************)
(* EnsureChainMaterial lists again: the target may have gone since.        *)
(***************************************************************************)
ResolveChain(m) ==
    /\ At(m, "chain")
    /\ IF FindSnapshot(Account, job[m].target)
       THEN job' = [job EXCEPT ![m].step = "fetch",
                               ![m].chain = ChainTo[job[m].target]]
       ELSE GiveUp(m)
    /\ UNCHANGED <<storeVars, made, bundle, cache, index>>

(***************************************************************************)
(* The snapshot was listed when it was picked, and is listed again.        *)
(***************************************************************************)
StartRestore(m, s) ==
    /\ At(m, "idle")
    /\ job' = [job EXCEPT ![m].step = "fetch", ![m].restore = TRUE, ![m].target = s,
                          ![m].chain = ChainTo[s]]
    /\ UNCHANGED <<storeVars, made, bundle, cache, index>>

Hop(m) == job[m].chain[Len(job[m].names) + 1]

HopAgrees(child, parent, parentName) ==
    made[child].baseName = parentName /\ made[child].base = parent

(***************************************************************************)
(* The parents the server told of are compared with those the archives     *)
(* name themselves.                                                        *)
(***************************************************************************)
CrossCheck(m, names) ==
    /\ \A i \in DOMAIN names : CacheHasVerifiedArchive(m, names[i])
    /\ \A i \in 2..Len(names) :
         HopAgrees(Material(m, names[i]), Material(m, names[i - 1]), names[i - 1])

(***************************************************************************)
(* The chain is checked as soon as its last hop is in the cache.           *)
(***************************************************************************)
Fetched(m, name) ==
    \E names \in {Append(job[m].names, name)} :
        IF Len(names) < Len(job[m].chain)
        THEN job' = [job EXCEPT ![m].step = "fetch", ![m].names = names]
        ELSE IF CrossCheck(m, names)'
        THEN job' = [job EXCEPT ![m].step = IF job[m].restore THEN "apply" ELSE "engine",
                                ![m].names = names]
        ELSE GiveUp(m)

CacheHit(m) ==
    /\ At(m, "fetch")
    /\ CacheHasVerifiedArchive(m, index[m][Hop(m)])
    /\ UNCHANGED <<storeVars, made, bundle, cache, index>>
    /\ Fetched(m, index[m][Hop(m)])

(***************************************************************************)
(* The bundle of the hop is downloaded, checked against its digest and     *)
(* unpacked; a name that is taken in the cache is not replaced.  If what   *)
(* has the name verifies it is used in place of the bundle.                *)
(***************************************************************************)
Download(m) ==
    /\ At(m, "fetch")
    /\ ~CacheHasVerifiedArchive(m, index[m][Hop(m)])
    /\ UNCHANGED <<storeVars, made, bundle>>
    /\ LET a == bundle[Hop(m)] IN
       \/ /\ ~FindSnapshot(Account, Hop(m))
          /\ GiveUp(m)
          /\ UNCHANGED <<cache, index>>
       \/ /\ FindSnapshot(Account, Hop(m)) /\ Under(m, Name(a)) = {}
          /\ cache' = [cache EXCEPT ![m][a] = "partial"]
          /\ Goto(m, "sidecars")
          /\ UNCHANGED index
       \/ /\ FindSnapshot(Account, Hop(m)) /\ Under(m, Name(a)) # {}
          /\ UNCHANGED cache
          /\ IF CacheHasVerifiedArchive(m, Name(a))
             THEN Remember(m, Hop(m), Name(a)) /\ Fetched(m, Name(a))
             ELSE GiveUp(m) /\ UNCHANGED index

PublishSidecars(m) ==
    /\ At(m, "sidecars")
    /\ UNCHANGED <<storeVars, made, bundle>>
    /\ LET a == bundle[Hop(m)] IN
       \/ /\ cache[m][a] = "partial"
          /\ cache' = [cache EXCEPT ![m][a] = "whole"]
          /\ Remember(m, Hop(m), Name(a))
          /\ Fetched(m, Name(a))
       \/ /\ cache' = [cache EXCEPT ![m][a] = "absent"]  \* rolled back
          /\ GiveUp(m)
          /\ UNCHANGED index

(***************************************************************************)
(* RestoreSnapshotChain on the cached archives, which ChainRestore models. *)
(***************************************************************************)
Apply(m) ==
    /\ At(m, "apply")
    /\ GiveUp(m)
    /\ UNCHANGED <<storeVars, made, bundle, cache, index>>

-----------------------------------------------------------------------------
(* The engine and the upload *)

\* Mutated: the newest archive of the cache, the server's or not.
NewestInCache(m) ==
    IF Present(m) = {} THEN NoArchive
    ELSE Name(CHOOSE a \in Present(m) : \A b \in Present(m) : b <= a)

BaselineName(m) == IF job[m].names = <<>> THEN NoArchive ELSE job[m].names[Len(job[m].names)]
\* Mutated: the name has no time in it.
TimelessName(m) == <<0, IF job[m].names = <<>> THEN 0 ELSE Len(job[m].chain)>>

NewName(m) ==
    <<now, IF job[m].names = <<>> THEN 0 ELSE Len(job[m].chain)>>

NameMayBeTaken(m) ==
    SameSecond \/ \A a \in DOMAIN made : Name(a)[1] # now

(***************************************************************************)
(* RunIncrementalBackup in the cache: a delta on the named baseline, a     *)
(* full snapshot, no changes, or a failure (a name that is taken is one).  *)
(***************************************************************************)
Engine(m) ==
    /\ At(m, "engine")
    /\ Len(made) < MaxArchives
    /\ NewName(m) \in ArchiveNames
    /\ NameMayBeTaken(m) /\ Under(m, NewName(m)) = {}
    /\ \E base \in {0} \cup {a \in Under(m, BaselineName(m)) : cache[m][a] = "whole"} :
         /\ made' = Append(made, [name |-> NewName(m), base |-> base,
                                  baseName |-> IF base = 0 THEN NoArchive
                                               ELSE BaselineName(m)])
         /\ job' = [job EXCEPT ![m] = [NoJob EXCEPT
                      !.step = "upload", !.fresh = Len(made) + 1,
                      !.parent = IF base = 0 THEN NoParent ELSE job[m].target]]
    /\ cache' = [cache EXCEPT ![m][Len(made) + 1] = "whole"]
    /\ UNCHANGED <<storeVars, bundle, index>>

UploadRow(parent) ==
    [user |-> Account, kind |-> IF parent = NoParent THEN "full" ELSE "incremental",
     parent |-> parent,
     generation |-> IF parent \in Rows THEN snapshots[parent].generation + 1 ELSE 0,
     lineage |-> Lineage, createdAt |-> now]

\* Mutated: an upload whose answer is lost is sent again.
ResendAfterLostAnswer(m) == job' = job

AfterLostAnswer(m) == GiveUp(m)

(***************************************************************************)
(* The bundle is uploaded on one connection, from UPLOAD_BEGIN to          *)
(* UPLOAD_END, where the server records it.  The index is told of it, or   *)
(* the answer is lost (or the process ends) and the backup has failed for  *)
(* the client.                                                             *)
(***************************************************************************)
Upload(m) ==
    /\ At(m, "upload")
    /\ \E s \in SnapshotIds :
         /\ bundle[s] = 0 /\ \A t \in SnapshotIds : t < s => bundle[t] # 0
         /\ InsertSnapshot(s, UploadRow(job[m].parent))
         /\ bundle' = [bundle EXCEPT ![s] = job[m].fresh]
         /\ \/ Remember(m, s, Name(job[m].fresh)) /\ GiveUp(m)
            \/ AfterLostAnswer(m) /\ UNCHANGED index
    /\ UNCHANGED <<made, cache>>

-----------------------------------------------------------------------------
(* What else happens *)

(***************************************************************************)
(* DELETE from some machine: the server refuses a row that has children.   *)
(***************************************************************************)
DeleteRow(s) ==
    /\ DeleteSnapshot(Account, s)
    /\ UNCHANGED machineVars

(***************************************************************************)
(* Seconds in which no archive is named are left out.                      *)
(***************************************************************************)
SecondPasses ==
    /\ \E a \in DOMAIN made : Name(a)[1] = now
    /\ Tick
    /\ UNCHANGED machineVars

ClientInit ==
    /\ \E name \in Names :
         username = [u \in UserIds |-> IF u = Account THEN name ELSE NoName]
    /\ deletedUsers = {}
    /\ snapshots = [s \in SnapshotIds |-> NoRow]
    /\ now = 0
    /\ made = <<>>
    /\ bundle = [s \in SnapshotIds |-> 0]
    /\ cache = [m \in Machines |-> [a \in Archives |-> "absent"]]
    /\ index = [m \in Machines |-> [s \in SnapshotIds |-> NoArchive]]
    /\ job = [m \in Machines |-> NoJob]

MachineStep(m) ==
    \/ \E allowIncremental \in BOOLEAN : StartBackup(m, allowIncremental)
    \/ \E s \in Rows \cap Restored : StartRestore(m, s)
    \/ ResolveChain(m)
    \/ CacheHit(m) \/ Download(m) \/ PublishSidecars(m)
    \/ Apply(m) \/ Engine(m)
    \/ Upload(m) \/ Fails(m)

ClientNext ==
    \/ \E m \in Machines : MachineStep(m)
    \/ \E s \in SnapshotIds : DeleteRow(s)
    \/ SecondPasses

ClientSpec == ClientInit /\ [][ClientNext]_accountVars

-----------------------------------------------------------------------------
ClientTypeOK ==
    /\ StoreTypeOK
    /\ \A i \in DOMAIN made : made[i].name \in ArchiveNames /\ made[i].base \in 0..i - 1
    /\ bundle \in [SnapshotIds -> 0..Len(made)]
    /\ \A s \in Rows : bundle[s] # 0
    /\ cache \in [Machines -> [Archives -> {"absent", "partial", "whole"}]]
    /\ index \in [Machines -> [SnapshotIds -> ArchiveNames \cup {NoArchive}]]

(***************************************************************************)
(* The material a chain is restored from, or a delta is made against, is   *)
(* what was uploaded as the snapshots of that chain: neither a stale index *)
(* entry, a file left in the cache by an upload that failed, nor a lost    *)
(* answer puts another archive in its place.  remote_incremental.cpp       *)
(* promises it of every file of the same name that got into the cache.     *)
(***************************************************************************)
MaterialIsTheServers ==
    \A m \in Machines :
      At(m, "apply") \/ (At(m, "engine") /\ job[m].names # <<>>) =>
        \A i \in DOMAIN job[m].names :
          \A a \in Under(m, job[m].names[i]) : a = bundle[job[m].chain[i]]

(***************************************************************************)
(* An archive is recorded once at most: a client that did not get the      *)
(* answer to its upload never sends the request again.                     *)
(***************************************************************************)
RecordedOnce ==
    \A s, t \in SnapshotIds : bundle[s] = bundle[t] /\ bundle[s] # 0 => s = t

(***************************************************************************)
(* The parent the server records for a snapshot holds the archive its      *)
(* delta was made against, so any other machine can restore it: a backup   *)
(* never continues from an archive of its cache the server does not hold,  *)
(* nor from one that lost a race to be the head; and it is recorded once.  *)
(***************************************************************************)
RowsLinkTheirArchives ==
    /\ \A s \in Rows :
         made[bundle[s]].base =
           IF snapshots[s].parent = NoParent THEN 0
           ELSE bundle[snapshots[s].parent]
    /\ RecordedOnce
=============================================================================
