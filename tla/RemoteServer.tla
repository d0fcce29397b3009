---------------------------- MODULE RemoteServer ----------------------------
(***************************************************************************)
(* The remote backup server: server/remote_server.cpp and the deletion     *)
(* primitives of server/remote_maintenance.cpp, on top of the metadata     *)
(* store and of the directory tree <root>/users, <root>/trash.             *)
(*                                                                         *)
(* Each connection is served by one worker thread, one frame at a time; up *)
(* to worker_count of them run at once and meet in the store, whose methods*)
(* are atomic, and on the disk, where a rename, an unlink or a mkdir is.   *)
(* A handler is therefore the sequence of its store calls and of the file  *)
(* system calls that change something; job[c].step names the call the      *)
(* handler of connection c makes next, and "idle" that it waits for a frame*)
(*                                                                         *)
(* Files are found by path, and users/<id> can be renamed away and created *)
(* again, so a directory has an identity of its own: home[u] is the one at *)
(* users/<u> now, and a blob remembers the one it lies in.                 *)
(***************************************************************************)
EXTENDS RemoteMetadataStore, FiniteSets

CONSTANTS
    Conns,       \* connections, each with its worker
    Dirs,        \* bound: account directories that exist at once
    None,        \* no directory, file, upload, download or job argument
    MaxFaults,   \* bound: file system and database calls that fail
    MaxCrashes   \* bound: server crashes

ASSUME NoneAssumption ==
    None \notin Dirs /\ None \notin SnapshotIds /\ None \notin UserIds
ASSUME BoundsAssumption == MaxFaults \in Nat /\ MaxCrashes \in Nat

VARIABLES
    session,     \* ConnectionContext: state, user_id, username
    upload,      \* ConnectionContext: upload_*, or None
    download,    \* ConnectionContext: download_snapshot_id, or None
    openFiles,   \* write descriptors held on behalf of a connection
    job,         \* the handler a connection is in
    home,        \* the directory at users/<id>
    rootTrash,   \* the directories in <root>/trash
    blob,        \* where each snapshot's file is
    issued,      \* account ids in tokens that were handed out
    faults, crashes

connVars == <<session, upload, download, openFiles, job>>
diskVars == <<home, rootTrash, blob>>
budget == <<faults, crashes>>
vars == <<storeVars, connVars, diskVars, issued, budget>>

States == {"closed", "kConnected", "kAuthenticated", "kUploadInProgress",
           "kDownloadInProgress"}
Steps == {"idle", "ensureDir", "openTemp", "publish", "insert", "unpublish", "openBlob",
          "trashBlob", "deleteRow", "restoreBlob", "purgeBlob",
          "quarantine", "deleteUser", "restoreHome", "purgeHome"}
Contents == {"partial", "whole", "corrupt"}

(***************************************************************************)
(* What UPLOAD_BEGIN fixes of the row that UPLOAD_END will insert.         *)
(***************************************************************************)
Offer == [kind : Kinds, parent : SnapshotIds \cup {NoParent},
          generation : 0..MaxChainGeneration + 1, lineage : Lineages]

Upload == [id : SnapshotIds, user : UserIds, offer : Offer,
           content : Contents]
Job == [step : Steps, on : SnapshotIds \cup {None}, dir : Dirs \cup {None},
        offer : Offer \cup {None}]
Blob == [dir : Dirs, at : {"tmp", "final", "trash"}, whole : BOOLEAN]

ASSUME NoneIsNoRecord ==
    None \notin Offer /\ None \notin Upload /\ None \notin Blob

Idle == [step |-> "idle", on |-> None, dir |-> None, offer |-> None]

ServerTypeOK ==
    /\ StoreTypeOK
    /\ session \in [Conns -> [state : States, user : UserIds \cup {None},
                              name : Names \cup {NoName}]]
    /\ upload \in [Conns -> Upload \cup {None}]
    /\ download \in [Conns -> SnapshotIds \cup {None}]
    /\ openFiles \in [Conns -> SUBSET SnapshotIds]
    /\ job \in [Conns -> Job]
    /\ home \in [UserIds -> Dirs \cup {None}]
    /\ rootTrash \subseteq Dirs
    /\ blob \in [SnapshotIds -> Blob \cup {None}]
    /\ issued \subseteq UserIds
    /\ faults \in 0..MaxFaults /\ crashes \in 0..MaxCrashes

-----------------------------------------------------------------------------
(* Paths *)

LiesAt(s, user, place) ==
    /\ blob[s] # None /\ home[user] # None
    /\ blob[s].dir = home[user] /\ blob[s].at = place

Unlinked(s, user, place) ==  \* blob after unlink(users/<user>/<place>/s)
    IF LiesAt(s, user, place) THEN [blob EXCEPT ![s] = None] ELSE blob

Moved(s, place) == [blob EXCEPT ![s].at = place]

FreeDirs ==
    {d \in Dirs : d \notin rootTrash /\ \A u \in UserIds : home[u] # d}

(***************************************************************************)
(* GenerateSnapshotId draws 128 random bits: a name nothing refers to.     *)
(***************************************************************************)
FreshSnapshotIds ==
    {s \in SnapshotIds :
       /\ s \notin Rows /\ blob[s] = None
       /\ \A c \in Conns :
            /\ s \notin openFiles[c] /\ job[c].on # s /\ download[c] # s
            /\ job[c].offer # None => job[c].offer.parent # s
            /\ upload[c] # None =>
                 upload[c].id # s /\ upload[c].offer.parent # s}

Waits(c, state) == job[c].step = "idle" /\ session[c].state = state
AccountLives(c) == session[c].user \in LiveUsers
Begin(c, step, on, offer) ==
    job' = [job EXCEPT ![c] = [step |-> step, on |-> on, dir |-> None,
                               offer |-> offer]]
Goto(c, step) == job' = [job EXCEPT ![c].step = step]
Finish(c) == job' = [job EXCEPT ![c] = Idle]
SetState(c, state) == session' = [session EXCEPT ![c].state = state]
ToConnected(c) ==
    session' = [session EXCEPT ![c] = [state |-> "kConnected", user |-> None,
                                       name |-> NoName]]
Fault == faults < MaxFaults /\ faults' = faults + 1
NoFault == UNCHANGED faults

(***************************************************************************)
(* AbortUpload: close the descriptor, unlink the temp path, reset.         *)
(***************************************************************************)
AbortUpload(c) ==
    LET up == upload[c] IN
    /\ openFiles' = [openFiles EXCEPT ![c] = @ \ {up.id}]
    /\ blob' = Unlinked(up.id, up.user, "tmp")
    /\ upload' = [upload EXCEPT ![c] = None]

-----------------------------------------------------------------------------
(* Connections and sessions *)

Connect(c) ==
    /\ session[c].state = "closed"
    /\ ToConnected(c)
    /\ UNCHANGED <<storeVars, upload, download, openFiles, job, diskVars,
                   issued, budget>>

(***************************************************************************)
(* CleanupConnection runs on every return path of ServeConnection.         *)
(***************************************************************************)
Disconnect(c) ==
    /\ job[c].step = "idle" /\ session[c].state # "closed"
    /\ IF upload[c] # None THEN AbortUpload(c)
       ELSE UNCHANGED <<upload, openFiles, blob>>
    /\ download' = [download EXCEPT ![c] = None]
    /\ session' = [session EXCEPT ![c] = [state |-> "closed", user |-> None,
                                          name |-> NoName]]
    /\ UNCHANGED <<storeVars, job, home, rootTrash, issued, budget>>

Register(c, name) ==
    /\ Waits(c, "kConnected")
    /\ CreateUser(name)
    /\ UNCHANGED <<connVars, diskVars, issued, budget>>

Login(c, name) ==
    /\ Waits(c, "kConnected")
    /\ \E u \in FindUser(name) :
         /\ session' = [session EXCEPT ![c] = [state |-> "kAuthenticated",
                                               user |-> u, name |-> name]]
         /\ issued' = issued \cup {u}
    /\ UNCHANGED <<storeVars, upload, download, openFiles, job, diskVars,
                   budget>>

Resume(c, u) ==
    /\ Waits(c, "kConnected")
    /\ u \in issued \cap LiveUsers
    /\ session' = [session EXCEPT ![c] = [state |-> "kAuthenticated",
                                          user |-> u, name |-> username[u]]]
    /\ UNCHANGED <<storeVars, upload, download, openFiles, job, diskVars,
                   issued, budget>>

Logout(c) ==
    /\ Waits(c, "kAuthenticated")
    /\ ToConnected(c)
    /\ UNCHANGED <<storeVars, upload, download, openFiles, job, diskVars,
                   issued, budget>>

(***************************************************************************)
(* RejectIfAccountMissing, as every handler that needs the account does it *)
(* first: the session ends, an upload in progress is left as it is.        *)
(***************************************************************************)
RejectIfAccountMissing(c) ==
    /\ Waits(c, "kAuthenticated") \/ Waits(c, "kUploadInProgress")
    /\ ~AccountLives(c)
    /\ ToConnected(c)
    /\ UNCHANGED <<storeVars, upload, download, openFiles, job, diskVars,
                   issued, budget>>

-----------------------------------------------------------------------------
(* UPLOAD_BEGIN, UPLOAD_CHUNK, UPLOAD_END *)

FullOffer(lineage) ==
    [kind |-> "full", parent |-> NoParent, generation |-> 0,
     lineage |-> lineage]

IncrementalOffer(parent) ==
    [kind |-> "incremental", parent |-> parent,
     generation |-> snapshots[parent].generation + 1,
     lineage |-> snapshots[parent].lineage]

(***************************************************************************)
(* The request is validated against the rows as they are now; an           *)
(* incremental must name a snapshot of the account and of its own lineage. *)
(* The id is drawn after EnsureUserDirectory; here it is set aside.        *)
(***************************************************************************)
UploadBegin(c) ==
    /\ Waits(c, "kAuthenticated") /\ AccountLives(c)
    /\ \E offer \in {FullOffer(l) : l \in Lineages}
                      \cup {IncrementalOffer(p) : p \in RowsOf(session[c].user)},
          s \in FreshSnapshotIds :
         Begin(c, "ensureDir", s, offer)
    /\ UNCHANGED <<storeVars, session, upload, download, openFiles, diskVars,
                   issued, budget>>

(***************************************************************************)
(* mkdir users/<id>, which an account deletion may have renamed away.      *)
(***************************************************************************)
EnsureUserDirectory(c) ==
    LET user == session[c].user IN
    /\ job[c].step = "ensureDir"
    /\ \E d \in IF home[user] # None THEN {home[user]} ELSE FreeDirs :
         home' = [home EXCEPT ![user] = d]
    /\ Goto(c, "openTemp")
    /\ UNCHANGED <<storeVars, session, upload, download, openFiles, rootTrash,
                   blob, issued, budget>>

(***************************************************************************)
(* tmp/<id>.part is created; the upload fields of the context are          *)
(* overwritten, whatever they held.                                        *)
(***************************************************************************)
OpenTemp(c) ==
    LET user == session[c].user
        s == job[c].on
    IN
    /\ job[c].step = "openTemp" /\ home[user] # None
    /\ blob' = [blob EXCEPT ![s] = [dir |-> home[user], at |-> "tmp",
                                    whole |-> FALSE]]
    /\ upload' = [upload EXCEPT ![c] = [id |-> s, user |-> user,
                                        offer |-> job[c].offer,
                                        content |-> "partial"]]
    /\ openFiles' = [openFiles EXCEPT ![c] = @ \cup {s}]
    /\ SetState(c, "kUploadInProgress")
    /\ Finish(c)
    /\ UNCHANGED <<storeVars, download, home, rootTrash, issued, budget>>

(***************************************************************************)
(* No directory can be made (Dirs bounds them), or it has gone again.      *)
(***************************************************************************)
OpenTempFails(c) ==
    LET user == session[c].user IN
    /\ \/ job[c].step = "ensureDir" /\ home[user] = None
           /\ FreeDirs = {} /\ NoFault
       \/ job[c].step = "openTemp" /\ home[user] = None /\ NoFault
       \/ job[c].step \in {"ensureDir", "openTemp"} /\ Fault
    /\ Finish(c)
    /\ UNCHANGED <<storeVars, session, upload, download, openFiles, diskVars,
                   issued, crashes>>

(***************************************************************************)
(* Bytes arrive until the file has the declared length, with the declared  *)
(* digest or with another one.                                             *)
(***************************************************************************)
UploadChunk(c) ==
    /\ Waits(c, "kUploadInProgress")
    /\ upload[c].content = "partial"
    /\ \E content \in {"whole", "corrupt"} :
         upload' = [upload EXCEPT ![c].content = content]
    /\ UNCHANGED <<storeVars, session, download, openFiles, job, diskVars,
                   issued, budget>>

(***************************************************************************)
(* A chunk beyond the declared length, or one that cannot be written.      *)
(***************************************************************************)
RejectChunk(c) ==
    /\ Waits(c, "kUploadInProgress")
    /\ \/ upload[c].content # "partial" /\ NoFault
       \/ Fault
    /\ AbortUpload(c)
    /\ SetState(c, "kAuthenticated")
    /\ UNCHANGED <<storeVars, download, job, home, rootTrash, issued, crashes>>

UploadEndChecks(c) == upload[c].content = "whole"

UploadEnd(c) ==
    /\ Waits(c, "kUploadInProgress") /\ AccountLives(c)
    /\ IF UploadEndChecks(c)
       THEN /\ Goto(c, "publish")
            /\ UNCHANGED <<session, upload, openFiles, blob>>
       ELSE /\ AbortUpload(c)
            /\ SetState(c, "kAuthenticated")
            /\ UNCHANGED job
    /\ UNCHANGED <<storeVars, download, home, rootTrash, issued, budget>>

(***************************************************************************)
(* fsync, close, rename(tmp/<id>.part, <id>.bak).                          *)
(***************************************************************************)
Publish(c) ==
    LET up == upload[c] IN
    /\ job[c].step = "publish"
    /\ LiesAt(up.id, session[c].user, "tmp")
    /\ blob' = [blob EXCEPT ![up.id].at = "final",
                            ![up.id].whole = (up.content = "whole")]
    /\ openFiles' = [openFiles EXCEPT ![c] = @ \ {up.id}]
    /\ Goto(c, "insert")
    /\ UNCHANGED <<storeVars, session, upload, download, home, rootTrash,
                   issued, budget>>

PublishFails(c) ==
    /\ job[c].step = "publish"
    /\ \/ ~LiesAt(upload[c].id, session[c].user, "tmp") /\ NoFault
       \/ Fault
    /\ AbortUpload(c)
    /\ SetState(c, "kAuthenticated")
    /\ Finish(c)
    /\ UNCHANGED <<storeVars, download, home, rootTrash, issued, crashes>>

RowOf(c) ==
    LET up == upload[c] IN
    [user |-> session[c].user, kind |-> up.offer.kind,
     parent |-> up.offer.parent, generation |-> up.offer.generation,
     lineage |-> up.offer.lineage, createdAt |-> now]

ResetUpload(c) ==
    /\ upload' = [upload EXCEPT ![c] = None]
    /\ SetState(c, "kAuthenticated")
    /\ Finish(c)

\* Mutated: the chain is checked in UPLOAD_BEGIN only.
InsertRowUnchecked(c) ==
    /\ job[c].step = "insert"
    /\ snapshots' = [snapshots EXCEPT ![upload[c].id] = RowOf(c)]
    /\ ResetUpload(c)
    /\ UNCHANGED <<username, deletedUsers, now, download, openFiles, diskVars,
                   issued, budget>>

InsertRow(c) ==
    /\ job[c].step = "insert"
    /\ InsertSnapshot(upload[c].id, RowOf(c))
    /\ ResetUpload(c)
    /\ UNCHANGED <<download, openFiles, diskVars, issued, budget>>

\* Mutated: the published blob stays when its row is refused.
InsertRowFailsWithoutUnlink(c) ==
    /\ job[c].step = "insert"
    /\ \/ InsertSnapshotResult(upload[c].id, RowOf(c)) # "kOk" /\ NoFault
       \/ Fault
    /\ ResetUpload(c)
    /\ UNCHANGED <<storeVars, download, openFiles, diskVars, issued, crashes>>

InsertRowFails(c) ==
    /\ job[c].step = "insert"
    /\ \/ InsertSnapshotResult(upload[c].id, RowOf(c)) # "kOk" /\ NoFault
       \/ Fault
    /\ Goto(c, "unpublish")
    /\ UNCHANGED <<storeVars, session, upload, download, openFiles, diskVars,
                   issued, crashes>>

Unpublish(c) ==
    /\ job[c].step = "unpublish"
    /\ \/ blob' = Unlinked(upload[c].id, session[c].user, "final") /\ NoFault
       \/ UNCHANGED blob /\ Fault
    /\ ResetUpload(c)
    /\ UNCHANGED <<storeVars, download, openFiles, home, rootTrash, issued,
                   crashes>>

-----------------------------------------------------------------------------
(* DOWNLOAD_BEGIN, DOWNLOAD_END *)

DownloadBegin(c, s) ==
    /\ Waits(c, "kAuthenticated") /\ AccountLives(c)
    /\ FindSnapshot(session[c].user, s)
    /\ Begin(c, "openBlob", s, None)
    /\ UNCHANGED <<storeVars, session, upload, download, openFiles, diskVars,
                   issued, budget>>

OpenBlob(c) ==
    LET s == job[c].on IN
    /\ job[c].step = "openBlob"
    /\ IF LiesAt(s, session[c].user, "final") /\ blob[s].whole
       THEN /\ download' = [download EXCEPT ![c] = s]
            /\ SetState(c, "kDownloadInProgress")
       ELSE UNCHANGED <<download, session>>
    /\ Finish(c)
    /\ UNCHANGED <<storeVars, upload, openFiles, diskVars, issued, budget>>

DownloadEnd(c) ==
    /\ Waits(c, "kDownloadInProgress")
    /\ download' = [download EXCEPT ![c] = None]
    /\ SetState(c, "kAuthenticated")
    /\ UNCHANGED <<storeVars, upload, openFiles, job, diskVars, issued, budget>>

-----------------------------------------------------------------------------
(* DELETE: RemoteMaintenance::DeleteSnapshot *)

DeleteBegin(c, s) ==
    /\ Waits(c, "kAuthenticated") /\ AccountLives(c)
    /\ DeleteSnapshotResult(session[c].user, s) = "kOk"
    /\ Begin(c, "trashBlob", s, None)
    /\ UNCHANGED <<storeVars, session, upload, download, openFiles, diskVars,
                   issued, budget>>

TrashBlob(c) ==
    LET s == job[c].on IN
    /\ job[c].step = "trashBlob"
    /\ \/ /\ LiesAt(s, session[c].user, "final") /\ NoFault
          /\ blob' = Moved(s, "trash")
          /\ Goto(c, "deleteRow")
       \/ /\ ~LiesAt(s, session[c].user, "final") /\ NoFault
          /\ Finish(c) /\ UNCHANGED blob
       \/ Fault /\ Finish(c) /\ UNCHANGED blob
    /\ UNCHANGED <<storeVars, session, upload, download, openFiles, home,
                   rootTrash, issued, crashes>>

DeleteRow(c) ==
    /\ job[c].step = "deleteRow"
    /\ DeleteSnapshot(session[c].user, job[c].on)
    /\ Goto(c, "purgeBlob")
    /\ UNCHANGED <<session, upload, download, openFiles, diskVars, issued,
                   budget>>

\* Mutated: the pending file is unlinked whatever the store said.
DeleteRowFailurePurges(c) ==
    /\ job[c].step = "deleteRow"
    /\ \/ DeleteSnapshotResult(session[c].user, job[c].on) # "kOk" /\ NoFault
       \/ Fault
    /\ Goto(c, "purgeBlob")
    /\ UNCHANGED <<storeVars, session, upload, download, openFiles, diskVars,
                   issued, crashes>>

DeleteRowFails(c) ==
    /\ job[c].step = "deleteRow"
    /\ \/ DeleteSnapshotResult(session[c].user, job[c].on) # "kOk" /\ NoFault
       \/ Fault
    /\ Goto(c, "restoreBlob")
    /\ UNCHANGED <<storeVars, session, upload, download, openFiles, diskVars,
                   issued, crashes>>

RestoreBlob(c) ==
    LET s == job[c].on IN
    /\ job[c].step = "restoreBlob"
    /\ \/ /\ blob' = IF LiesAt(s, session[c].user, "trash")
                       THEN Moved(s, "final") ELSE blob
          /\ NoFault
       \/ UNCHANGED blob /\ Fault
    /\ Finish(c)
    /\ UNCHANGED <<storeVars, session, upload, download, openFiles, home,
                   rootTrash, issued, crashes>>

PurgeBlob(c) ==
    /\ job[c].step = "purgeBlob"
    /\ \/ blob' = Unlinked(job[c].on, session[c].user, "trash") /\ NoFault
       \/ UNCHANGED blob /\ Fault
    /\ Finish(c)
    /\ UNCHANGED <<storeVars, session, upload, download, openFiles, home,
                   rootTrash, issued, crashes>>

-----------------------------------------------------------------------------
(* DELETE_ACCOUNT: RemoteMaintenance::DeleteAccount *)

DeleteAccountBegin(c) ==
    /\ Waits(c, "kAuthenticated") /\ AccountLives(c)
    /\ Begin(c, "quarantine", None, None)
    /\ UNCHANGED <<storeVars, session, upload, download, openFiles, diskVars,
                   issued, budget>>

Quarantine(c) ==
    LET user == session[c].user IN
    /\ job[c].step = "quarantine"
    /\ \/ /\ NoFault
          /\ rootTrash' = rootTrash \cup ({home[user]} \ {None})
          /\ home' = [home EXCEPT ![user] = None]
          /\ job' = [job EXCEPT ![c] = [step |-> "deleteUser", on |-> None,
                                        dir |-> home[user], offer |-> None]]
       \/ Fault /\ Finish(c) /\ UNCHANGED <<home, rootTrash>>
    /\ UNCHANGED <<storeVars, session, upload, download, openFiles, blob,
                   issued, crashes>>

DeleteUserRow(c) ==
    /\ job[c].step = "deleteUser"
    /\ DeleteUser(session[c].user)
    /\ Goto(c, "purgeHome")
    /\ UNCHANGED <<session, upload, download, openFiles, diskVars, issued,
                   budget>>

\* Mutated: the quarantined directory is removed whatever the store said.
DeleteUserRowFailurePurges(c) ==
    /\ job[c].step = "deleteUser"
    /\ \/ DeleteUserResult(session[c].user) # "kOk" /\ NoFault
       \/ Fault
    /\ Goto(c, "purgeHome")
    /\ UNCHANGED <<storeVars, session, upload, download, openFiles, diskVars,
                   issued, crashes>>

DeleteUserRowFails(c) ==
    /\ job[c].step = "deleteUser"
    /\ \/ DeleteUserResult(session[c].user) # "kOk" /\ NoFault
       \/ Fault
    /\ Goto(c, "restoreHome")
    /\ UNCHANGED <<storeVars, session, upload, download, openFiles, diskVars,
                   issued, crashes>>

(***************************************************************************)
(* The quarantined directory is renamed back.  The rename fails on a       *)
(* directory that is not empty, which users/<id> never is once an upload   *)
(* has created it again.                                                   *)
(***************************************************************************)
RestoreHome(c) ==
    LET user == session[c].user
        dir == job[c].dir
    IN
    /\ job[c].step = "restoreHome"
    /\ \/ /\ NoFault
          /\ IF dir # None /\ home[user] = None
             THEN /\ home' = [home EXCEPT ![user] = dir]
                  /\ rootTrash' = rootTrash \ {dir}
             ELSE UNCHANGED <<home, rootTrash>>
       \/ Fault /\ UNCHANGED <<home, rootTrash>>
    /\ Finish(c)
    /\ UNCHANGED <<storeVars, session, upload, download, openFiles, blob,
                   issued, crashes>>

(***************************************************************************)
(* RemoveDirectoryTree, which goes on after a file it cannot remove, and   *)
(* the end of the session.                                                 *)
(***************************************************************************)
PurgeHome(c) ==
    LET dir == job[c].dir IN
    /\ job[c].step = "purgeHome"
    /\ \/ /\ NoFault
          /\ rootTrash' = rootTrash \ {dir}
          /\ blob' = [s \in SnapshotIds |->
                        IF blob[s] # None /\ blob[s].dir = dir THEN None
                                                             ELSE blob[s]]
       \/ /\ Fault /\ UNCHANGED rootTrash
          /\ \E gone \in SUBSET {s \in SnapshotIds :
                                  blob[s] # None /\ blob[s].dir = dir} :
               blob' = [s \in SnapshotIds |->
                          IF s \in gone THEN None ELSE blob[s]]
    /\ ToConnected(c)
    /\ Finish(c)
    /\ UNCHANGED <<storeVars, upload, download, openFiles, home, issued,
                   crashes>>

-----------------------------------------------------------------------------
(***************************************************************************)
(* The process dies and is started again.  Start creates the directories   *)
(* that are missing and opens the database; it looks at no blob.           *)
(***************************************************************************)
Crash ==
    /\ crashes < MaxCrashes
    /\ crashes' = crashes + 1
    /\ session' = [c \in Conns |-> [state |-> "closed", user |-> None,
                                    name |-> NoName]]
    /\ upload' = [c \in Conns |-> None]
    /\ download' = [c \in Conns |-> None]
    /\ openFiles' = [c \in Conns |-> {}]
    /\ job' = [c \in Conns |-> Idle]
    /\ UNCHANGED <<storeVars, diskVars, issued, faults>>

ClockTick == Tick /\ UNCHANGED <<connVars, diskVars, issued, budget>>

Init ==
    /\ StoreInit
    /\ session = [c \in Conns |-> [state |-> "closed", user |-> None,
                                   name |-> NoName]]
    /\ upload = [c \in Conns |-> None]
    /\ download = [c \in Conns |-> None]
    /\ openFiles = [c \in Conns |-> {}]
    /\ job = [c \in Conns |-> Idle]
    /\ home = [u \in UserIds |-> None]
    /\ rootTrash = {}
    /\ blob = [s \in SnapshotIds |-> None]
    /\ issued = {}
    /\ faults = 0 /\ crashes = 0

SessionStep(c) ==
    \/ Connect(c) \/ Disconnect(c) \/ Logout(c) \/ RejectIfAccountMissing(c)
    \/ \E name \in Names : Register(c, name) \/ Login(c, name)
    \/ \E u \in UserIds : Resume(c, u)

UploadStep(c) ==
    \/ UploadBegin(c) \/ EnsureUserDirectory(c)
    \/ OpenTemp(c) \/ OpenTempFails(c)
    \/ UploadChunk(c) \/ RejectChunk(c) \/ UploadEnd(c)
    \/ Publish(c) \/ PublishFails(c)
    \/ InsertRow(c) \/ InsertRowFails(c) \/ Unpublish(c)

DownloadStep(c) ==
    \/ \E s \in SnapshotIds : DownloadBegin(c, s)
    \/ OpenBlob(c) \/ DownloadEnd(c)

DeleteStep(c) ==
    \/ \E s \in SnapshotIds : DeleteBegin(c, s)
    \/ TrashBlob(c) \/ DeleteRow(c) \/ DeleteRowFails(c)
    \/ RestoreBlob(c) \/ PurgeBlob(c)

DeleteAccountStep(c) ==
    \/ DeleteAccountBegin(c) \/ Quarantine(c)
    \/ DeleteUserRow(c) \/ DeleteUserRowFails(c)
    \/ RestoreHome(c) \/ PurgeHome(c)

Next ==
    \/ \E c \in Conns : \/ SessionStep(c) \/ UploadStep(c) \/ DownloadStep(c)
                        \/ DeleteStep(c) \/ DeleteAccountStep(c)
    \/ Crash
    \/ ClockTick

Spec == Init /\ [][Next]_vars

-----------------------------------------------------------------------------
InDeletion(s) ==
    \E c \in Conns :
      \/ job[c].step \in {"deleteRow", "restoreBlob"} /\ job[c].on = s
      \/ /\ job[c].step \in {"deleteUser", "restoreHome"}
         /\ session[c].user = snapshots[s].user

HasBlob(s) == LiesAt(s, snapshots[s].user, "final") /\ blob[s].whole

Undisturbed == faults = 0 /\ crashes = 0

(***************************************************************************)
(* As long as no call has failed and the server has not died, a snapshot   *)
(* that is listed can be downloaded: its complete file is at its place,    *)
(* except while a deletion that may still be undone has moved it, whatever *)
(* uploads, deletions and account deletions run beside it.                 *)
(***************************************************************************)
RowsHaveBlobs == Undisturbed => \A s \in Rows : HasBlob(s) \/ InDeletion(s)

(***************************************************************************)
(* No bytes are destroyed while their row is there: whatever races, fails  *)
(* or crashes, the complete file of a listed snapshot is still somewhere   *)
(* in the tree, at its place, in trash or in a quarantined directory.      *)
(***************************************************************************)
RowsKeepTheirBytes == \A s \in Rows : blob[s] # None /\ blob[s].whole

(***************************************************************************)
(* While an account lives, each file in its directory is accounted for: a  *)
(* .part file by an upload, a published blob by its row or by the UPLOAD_  *)
(* END that is about to write or to take it back, a blob in trash by the   *)
(* deletion that put it there.  Nothing is left that no one will remove,   *)
(* as long as no call has failed and the server has not died.              *)
(***************************************************************************)
NoOrphanFiles ==
  Undisturbed =>
    \A u \in LiveUsers, s \in SnapshotIds :
      /\ LiesAt(s, u, "tmp") =>
           \E c \in Conns : upload[c] # None /\ upload[c].id = s
      /\ LiesAt(s, u, "final") =>
           \/ s \in RowsOf(u)
           \/ \E c \in Conns : job[c].step \in {"insert", "unpublish"}
                               /\ upload[c].id = s
      /\ LiesAt(s, u, "trash") =>
           \E c \in Conns : /\ job[c].on = s
                           /\ job[c].step \in {"deleteRow", "restoreBlob",
                                               "purgeBlob"}

(***************************************************************************)
(* Rows and files stand for each other as long as nothing failed.          *)
(***************************************************************************)
RowsAndFilesAgree == RowsHaveBlobs /\ NoOrphanFiles

(***************************************************************************)
(* A session acts on the account it was opened for: as long as the account *)
(* of a session lives it has the name the session was opened with, though  *)
(* other connections delete accounts and register new ones meanwhile.      *)
(***************************************************************************)
SessionsKeepTheirAccount ==
    \A c \in Conns : session[c].user \in LiveUsers
                       => username[session[c].user] = session[c].name
=============================================================================
