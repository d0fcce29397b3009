-------------------------- MODULE RemoteServerProofs --------------------------
(***************************************************************************)
(* RemoteServer implements StoreSpec, whatever the number of connections,  *)
(* accounts, snapshots, faults and crashes: the store only ever sees calls *)
(* it was proved correct for, so its chains, its owners and its tombstones *)
(* are those of the running server.  The second part is about its rows and *)
(* files.                                                                  *)
(***************************************************************************)
EXTENDS RemoteServer, RemoteMetadataStoreProofs

USE NoneAssumption, BoundsAssumption

(***************************************************************************)
(* What a handler has fixed by the step it is at.  The type invariant needs*)
(* it: a handler indexes the disk with the account of its session, the     *)
(* snapshot it was called for and the upload of its connection.            *)
(***************************************************************************)
HandlerInStep(c) ==
    /\ job[c].step # "idle" =>
         session[c].user \in UserIds /\ session[c].state # "closed"
    /\ session[c].state = "kUploadInProgress" => upload[c] # None
    /\ job[c].step \in {"publish", "insert", "unpublish"} => upload[c] # None
    /\ job[c].step \in {"ensureDir", "openTemp"} =>
         job[c].on # None /\ job[c].offer # None
    /\ job[c].step \in {"openBlob", "trashBlob", "deleteRow", "restoreBlob",
                        "purgeBlob"} => job[c].on # None

HandlersInStep == \A c \in Conns : HandlerInStep(c)

ServerInv == StoreInv /\ ServerTypeOK /\ HandlersInStep

ConnTypeOK ==
    /\ session \in [Conns -> [state : States, user : UserIds \cup {None},
                              name : Names \cup {NoName}]]
    /\ upload \in [Conns -> Upload \cup {None}]
    /\ download \in [Conns -> SnapshotIds \cup {None}]
    /\ openFiles \in [Conns -> SUBSET SnapshotIds]
    /\ job \in [Conns -> Job]

DiskTypeOK ==
    /\ home \in [UserIds -> Dirs \cup {None}]
    /\ rootTrash \subseteq Dirs
    /\ blob \in [SnapshotIds -> Blob \cup {None}]

RestTypeOK ==
    /\ issued \subseteq UserIds
    /\ faults \in 0..MaxFaults /\ crashes \in 0..MaxCrashes

LEMMA TypeParts ==
    ServerTypeOK <=> StoreTypeOK /\ ConnTypeOK /\ DiskTypeOK /\ RestTypeOK
  BY DEF ServerTypeOK, ConnTypeOK, DiskTypeOK, RestTypeOK

(***************************************************************************)
(* What a step of connection c may touch of the other connections: nothing *)
(* HandlerInStep reads.                                                    *)
(***************************************************************************)
OthersWait(c) ==
    \A d \in Conns \ {c} : /\ session'[d] = session[d]
                           /\ upload'[d] = upload[d]
                           /\ job'[d] = job[d]

LEMMA OneHandlerMoves ==
    ASSUME HandlersInStep, NEW c \in Conns, OthersWait(c), HandlerInStep(c)'
    PROVE  HandlersInStep'
<1>1. ASSUME NEW d \in Conns \ {c}
      PROVE  HandlerInStep(d)'
  <2>1. /\ session'[d] = session[d] /\ upload'[d] = upload[d]
        /\ job'[d] = job[d] /\ HandlerInStep(d)
    BY DEF OthersWait, HandlersInStep
  <2>. QED
    BY <2>1 DEF HandlerInStep
<1>. QED
  BY <1>1 DEF HandlersInStep

(***************************************************************************)
(* The ways a handler changes its job keep the jobs well typed and those   *)
(* of the other connections as they are.                                   *)
(***************************************************************************)
LEMMA JobChanges ==
    ASSUME job \in [Conns -> Job], NEW c \in Conns,
           \/ Finish(c)
           \/ \E step \in Steps : Goto(c, step)
           \/ \E step \in Steps, on \in SnapshotIds \cup {None},
                 offer \in Offer \cup {None} : Begin(c, step, on, offer)
    PROVE  /\ job' \in [Conns -> Job]
           /\ \A d \in Conns \ {c} : job'[d] = job[d]
           /\ Finish(c) => job'[c] = Idle /\ job'[c].step = "idle"
           /\ \A step \in Steps :
                Goto(c, step) => /\ job'[c].step = step
                                 /\ job'[c].on = job[c].on
                                 /\ job'[c].offer = job[c].offer
  BY DEF Finish, Goto, Begin, Idle, Job, Steps

(***************************************************************************)
(* The ways a handler changes its session.                                 *)
(***************************************************************************)
Sessions == [state : States, user : UserIds \cup {None},
             name : Names \cup {NoName}]

LEMMA SessionChanges ==
    ASSUME session \in [Conns -> Sessions], NEW c \in Conns,
           \/ ToConnected(c)
           \/ \E state \in States : SetState(c, state)
    PROVE  /\ session' \in [Conns -> Sessions]
           /\ \A d \in Conns \ {c} : session'[d] = session[d]
           /\ ToConnected(c) => session'[c].state = "kConnected"
           /\ \A state \in States :
                SetState(c, state) => /\ session'[c].state = state
                                      /\ session'[c].user = session[c].user
  BY DEF ToConnected, SetState, Sessions, States

LEMMA UploadFields ==
    ASSUME NEW up \in Upload, NEW content \in Contents
    PROVE  [up EXCEPT !.content = content] \in Upload
  BY DEF Upload

LEMMA BlobFields ==
    ASSUME NEW file \in Blob, NEW place \in {"tmp", "final", "trash"},
           NEW whole \in BOOLEAN
    PROVE  [file EXCEPT !.at = place, !.whole = whole] \in Blob
  BY DEF Blob

(***************************************************************************)
(* An unlink or a rename leaves a well-typed disk.                         *)
(***************************************************************************)
LEMMA DiskChanges ==
    ASSUME blob \in [SnapshotIds -> Blob \cup {None}]
    PROVE  /\ \A s \in SnapshotIds : \A user, place :
                Unlinked(s, user, place) \in [SnapshotIds -> Blob \cup {None}]
           /\ \A s \in SnapshotIds, place \in {"tmp", "final", "trash"} :
                blob[s] # None =>
                  Moved(s, place) \in [SnapshotIds -> Blob \cup {None}]
  BY DEF Unlinked, Moved, Blob

LEMMA AbortChanges ==
    ASSUME ConnTypeOK, DiskTypeOK, NEW c \in Conns, upload[c] # None,
           AbortUpload(c)
    PROVE  /\ openFiles' \in [Conns -> SUBSET SnapshotIds]
           /\ blob' \in [SnapshotIds -> Blob \cup {None}]
           /\ upload' \in [Conns -> Upload \cup {None}]
           /\ \A d \in Conns \ {c} : upload'[d] = upload[d]
<1>1. upload[c] \in Upload /\ upload[c].id \in SnapshotIds
  BY DEF ConnTypeOK, Upload
<1>2. blob' \in [SnapshotIds -> Blob \cup {None}]
  BY <1>1, DiskChanges DEF AbortUpload, DiskTypeOK
<1>. QED
  BY <1>1, <1>2 DEF AbortUpload, ConnTypeOK

(***************************************************************************)
(* A row is inserted by UPLOAD_END only when the store accepts it, and what*)
(* is offered then is a row the store's specification knows of.            *)
(***************************************************************************)
LEMMA InsertRowRefines ==
    ASSUME ServerInv, NEW c \in Conns, InsertRow(c)
    PROVE  StoreNext
<1>. DEFINE row == RowOf(c)
            s == upload[c].id
<1>1. upload[c] \in Upload
  BY DEF InsertRow, ServerInv, HandlersInStep, HandlerInStep, ServerTypeOK
<1>2. InsertSnapshot(s, row) /\ InsertSnapshotResult(s, row) = "kOk"
  BY DEF InsertRow, InsertSnapshot
<1>3. session[c].user \in UserIds
  BY DEF InsertRow, ServerInv, HandlersInStep, HandlerInStep
<1>4. s \in SnapshotIds /\ row \in OfferedRows
  BY <1>1, <1>3 DEF Upload, Offer, RowOf, OfferedRows, Kinds
<1>. QED
  BY <1>2, <1>4 DEF StoreNext

(***************************************************************************)
(* Every step of the server is a step of the store or leaves it alone.     *)
(***************************************************************************)
LEMMA NextRefines == ServerInv /\ [Next]_vars => [StoreNext]_storeVars
<1>. SUFFICES ASSUME ServerInv, Next
              PROVE  StoreNext \/ UNCHANGED storeVars
  BY DEF vars
<1>1. CASE Crash
  BY <1>1 DEF Crash, storeVars
<1>2. CASE ClockTick
  BY <1>2 DEF ClockTick, StoreNext
<1>3. ASSUME NEW c \in Conns, SessionStep(c)
      PROVE  StoreNext \/ UNCHANGED storeVars
  <2>1. CASE \E name \in Names : Register(c, name)
    BY <2>1 DEF Register, StoreNext
  <2>. QED
    BY <1>3, <2>1 DEF SessionStep, Connect, Disconnect, Logout, Login, Resume,
                      RejectIfAccountMissing, storeVars
<1>4. ASSUME NEW c \in Conns, UploadStep(c)
      PROVE  StoreNext \/ UNCHANGED storeVars
  <2>1. CASE InsertRow(c)
    BY <2>1, InsertRowRefines
  <2>. QED
    BY <1>4, <2>1 DEF UploadStep, UploadBegin, EnsureUserDirectory, OpenTemp,
                      OpenTempFails, UploadChunk, RejectChunk, UploadEnd,
                      Publish, PublishFails, InsertRowFails, Unpublish,
                      storeVars
<1>5. ASSUME NEW c \in Conns, DownloadStep(c)
      PROVE  UNCHANGED storeVars
  BY <1>5 DEF DownloadStep, DownloadBegin, OpenBlob, DownloadEnd, storeVars
<1>6. ASSUME NEW c \in Conns, DeleteStep(c)
      PROVE  StoreNext \/ UNCHANGED storeVars
  <2>1. CASE DeleteRow(c)
    <3>1. DeleteSnapshot(session[c].user, job[c].on)
      BY <2>1 DEF DeleteRow
    <3>2. /\ job[c].on \in SnapshotIds
          /\ snapshots[job[c].on] \in Row
          /\ snapshots[job[c].on].user = session[c].user
      BY <3>1, RowsTyped DEF DeleteSnapshot, DeleteSnapshotResult,
                             FindSnapshot, RowsOf, ServerInv, StoreInv
    <3>3. session[c].user \in UserIds
      BY <3>2 DEF Row
    <3>. QED
      BY <3>1, <3>2, <3>3 DEF StoreNext
  <2>. QED
    BY <1>6, <2>1 DEF DeleteStep, DeleteBegin, TrashBlob, DeleteRowFails,
                      RestoreBlob, PurgeBlob, storeVars
<1>7. ASSUME NEW c \in Conns, DeleteAccountStep(c)
      PROVE  StoreNext \/ UNCHANGED storeVars
  <2>1. CASE DeleteUserRow(c)
    <3>1. DeleteUser(session[c].user) /\ session[c].user \in UserIds
      BY <2>1 DEF DeleteUserRow, DeleteUser, DeleteUserResult, LiveUsers
    <3>. QED
      BY <3>1 DEF StoreNext
  <2>. QED
    BY <1>7, <2>1 DEF DeleteAccountStep, DeleteAccountBegin, Quarantine,
                      DeleteUserRowFails, RestoreHome, PurgeHome, storeVars
<1>. QED
  BY <1>1, <1>2, <1>3, <1>4, <1>5, <1>6, <1>7 DEF Next

LEMMA InitServerInv == Init => ServerInv
<1>. SUFFICES ASSUME Init PROVE ServerInv
  OBVIOUS
<1>1. StoreInv /\ StoreTypeOK
  BY InitStoreInv DEF Init, StoreInv
<1>2. ConnTypeOK
  BY DEF Init, ConnTypeOK, States, Idle, Job, Steps
<1>3. DiskTypeOK /\ RestTypeOK
  BY DEF Init, DiskTypeOK, RestTypeOK
<1>4. HandlersInStep
  BY DEF Init, HandlersInStep, HandlerInStep, Idle
<1>. QED
  BY <1>1, <1>2, <1>3, <1>4, TypeParts DEF ServerInv

-----------------------------------------------------------------------------
(* Each group of handlers keeps the types and HandlersInStep.              *)

LEMMA SessionStepTypes ==
    ASSUME ServerInv, NEW c \in Conns, SessionStep(c)
    PROVE  ConnTypeOK' /\ DiskTypeOK' /\ RestTypeOK' /\ HandlersInStep'
<1>. USE DEF ServerInv, diskVars, budget, ConnTypeOK, DiskTypeOK, RestTypeOK,
             States, Waits
<1>1. ConnTypeOK /\ DiskTypeOK /\ RestTypeOK /\ HandlerInStep(c)
  BY TypeParts DEF HandlersInStep
<1>2. CASE Connect(c) \/ Logout(c) \/ RejectIfAccountMissing(c)
  <2>1. /\ ToConnected(c)
        /\ job[c].step = "idle" \/ Connect(c)
        /\ UNCHANGED <<upload, download, openFiles, job, diskVars, issued,
                       budget>>
    BY <1>2 DEF Connect, Logout, RejectIfAccountMissing
  <2>2. ToConnected(c)
    BY <2>1 DEF Connect
  <2>3. /\ session' \in [Conns -> Sessions]
        /\ \A d \in Conns \ {c} : session'[d] = session[d]
        /\ session'[c].state = "kConnected"
    BY <1>1, <2>2, SessionChanges DEF ToConnected, Sessions
  <2>4. job[c].step = "idle" /\ job' = job /\ upload' = upload
    BY <1>1, <1>2, <2>1 DEF Connect, Logout, RejectIfAccountMissing,
                            HandlerInStep
  <2>. QED
    BY <1>1, <2>1, <2>3, <2>4, OneHandlerMoves
       DEF OthersWait, HandlerInStep, Sessions
<1>3. CASE Disconnect(c)
  <2>1. /\ openFiles' \in [Conns -> SUBSET SnapshotIds]
        /\ blob' \in [SnapshotIds -> Blob \cup {None}]
        /\ upload' \in [Conns -> Upload \cup {None}]
        /\ \A d \in Conns \ {c} : upload'[d] = upload[d]
    BY <1>1, <1>3, AbortChanges DEF Disconnect
  <2>. QED
    BY <1>1, <1>3, <2>1, OneHandlerMoves
       DEF Disconnect, OthersWait, HandlerInStep
<1>4. CASE \E name \in Names : Register(c, name)
  BY <1>1, <1>4 DEF Register, connVars, HandlersInStep, HandlerInStep
<1>5. CASE \E name \in Names : Login(c, name)
  BY <1>1, <1>5, OneHandlerMoves DEF Login, FindUser, OthersWait, HandlerInStep
<1>6. CASE \E u \in UserIds : Resume(c, u)
  BY <1>1, <1>6, OneHandlerMoves DEF Resume, LiveUsers, StoreInv, StoreTypeOK,
       OthersWait, HandlerInStep
<1>. QED
  BY <1>2, <1>3, <1>4, <1>5, <1>6, SessionStep(c) DEF SessionStep

LEMMA DownloadStepTypes ==
    ASSUME ServerInv, NEW c \in Conns, DownloadStep(c)
    PROVE  ConnTypeOK' /\ DiskTypeOK' /\ RestTypeOK' /\ HandlersInStep'
<1>. USE DEF ServerInv, diskVars, budget, ConnTypeOK, DiskTypeOK, RestTypeOK,
             Waits
<1>1. ConnTypeOK /\ DiskTypeOK /\ RestTypeOK /\ HandlerInStep(c)
  BY TypeParts DEF HandlersInStep
<1>2. CASE \E s \in SnapshotIds : DownloadBegin(c, s)
  <2>1. PICK s \in SnapshotIds : DownloadBegin(c, s)
    BY <1>2
  <2>2. /\ job' \in [Conns -> Job]
        /\ \A d \in Conns \ {c} : job'[d] = job[d]
    BY <1>1, <2>1, JobChanges DEF DownloadBegin, Steps
  <2>. QED
    BY <1>1, <2>1, <2>2, OneHandlerMoves
       DEF DownloadBegin, Begin, AccountLives, LiveUsers, OthersWait,
           HandlerInStep
<1>3. CASE OpenBlob(c)
  <2>1. /\ job' \in [Conns -> Job]
        /\ \A d \in Conns \ {c} : job'[d] = job[d]
        /\ job'[c] = Idle
    BY <1>1, <1>3, JobChanges DEF OpenBlob, Finish
  <2>2. job[c].on \in SnapshotIds
    BY <1>1, <1>3 DEF OpenBlob, HandlerInStep, Job
  <2>3. /\ session' \in [Conns -> Sessions]
        /\ \A d \in Conns \ {c} : session'[d] = session[d]
        /\ session'[c].state # "kUploadInProgress" \/ session'[c] = session[c]
    BY <1>1, <1>3, SessionChanges DEF OpenBlob, Sessions, States, SetState
  <2>4. /\ download' \in [Conns -> SnapshotIds \cup {None}]
        /\ UNCHANGED <<upload, openFiles, diskVars, issued, budget>>
    BY <1>1, <1>3, <2>2 DEF OpenBlob
  <2>5. HandlersInStep'
    BY <1>1, <2>1, <2>3, <2>4, OneHandlerMoves
       DEF Idle, OthersWait, HandlerInStep
  <2>. QED
    BY <1>1, <2>1, <2>3, <2>4, <2>5 DEF Sessions
<1>4. CASE DownloadEnd(c)
  <2>1. /\ session' \in [Conns -> Sessions]
        /\ \A d \in Conns \ {c} : session'[d] = session[d]
        /\ session'[c].state = "kAuthenticated"
    BY <1>1, <1>4, SessionChanges DEF DownloadEnd, Sessions, States, SetState
  <2>. QED
    BY <1>1, <1>4, <2>1, OneHandlerMoves
       DEF DownloadEnd, OthersWait, HandlerInStep, Sessions
<1>. QED
  BY <1>2, <1>3, <1>4, DownloadStep(c) DEF DownloadStep

LEMMA UploadStepTypes ==
    ASSUME ServerInv, NEW c \in Conns, UploadStep(c)
    PROVE  ConnTypeOK' /\ DiskTypeOK' /\ RestTypeOK' /\ HandlersInStep'
<1>. USE DEF ServerInv, diskVars, budget, ConnTypeOK, DiskTypeOK, RestTypeOK,
             Fault, NoFault
<1>1. ConnTypeOK /\ DiskTypeOK /\ RestTypeOK /\ HandlerInStep(c)
  BY TypeParts DEF HandlersInStep
<1>2. CASE UploadBegin(c)
  <2>1. PICK s \in SnapshotIds, offer \in Offer : Begin(c, "ensureDir", s, offer)
    <3>1. \A l \in Lineages : FullOffer(l) \in Offer
      BY LimitsAssumption DEF FullOffer, Offer, Kinds
    <3>2. ASSUME NEW p \in RowsOf(session[c].user)
          PROVE  IncrementalOffer(p) \in Offer
      <4>1. /\ p \in SnapshotIds /\ snapshots[p] \in Row
            /\ snapshots[p].generation \in 0..MaxChainGeneration
        BY RowsTyped, LimitsAssumption
           DEF RowsOf, StoreInv, ChainsResolve, Row
      <4>. QED
        BY <4>1, LimitsAssumption DEF IncrementalOffer, Offer, Kinds, Row
    <3>. QED
      BY <1>2, <3>1, <3>2 DEF UploadBegin, FreshSnapshotIds
  <2>2. /\ job' \in [Conns -> Job]
        /\ \A d \in Conns \ {c} : job'[d] = job[d]
    BY <1>1, <2>1, JobChanges DEF Steps
  <2>3. session[c].user \in UserIds /\ session[c].state = "kAuthenticated"
    BY <1>2 DEF UploadBegin, AccountLives, LiveUsers, Waits
  <2>4. job'[c].step = "ensureDir" /\ job'[c].on # None /\ job'[c].offer # None
    BY <1>1, <2>1, NoneIsNoRecord DEF Begin
  <2>. QED
    BY <1>1, <1>2, <2>2, <2>3, <2>4, OneHandlerMoves
       DEF UploadBegin, OthersWait, HandlerInStep
<1>3. CASE EnsureUserDirectory(c)
  <2>1. /\ job' \in [Conns -> Job]
        /\ \A d \in Conns \ {c} : job'[d] = job[d]
    BY <1>1, <1>3, JobChanges DEF EnsureUserDirectory, Steps
  <2>2. /\ job[c].step = "ensureDir"
        /\ job'[c].step = "openTemp" /\ job'[c].on = job[c].on
        /\ job'[c].offer = job[c].offer
    BY <1>1, <1>3 DEF EnsureUserDirectory, Goto, Job
  <2>3. home' \in [UserIds -> Dirs \cup {None}]
    BY <1>1, <1>3 DEF EnsureUserDirectory, FreeDirs, HandlerInStep
  <2>. QED
    BY <1>1, <1>3, <2>1, <2>2, <2>3, OneHandlerMoves
       DEF EnsureUserDirectory, OthersWait, HandlerInStep
<1>4. CASE OpenTemp(c)
  <2>1. /\ job[c].on \in SnapshotIds /\ job[c].offer \in Offer
        /\ session[c].user \in UserIds /\ home[session[c].user] \in Dirs
    BY <1>1, <1>4 DEF OpenTemp, HandlerInStep, Job
  <2>2. /\ job' \in [Conns -> Job]
        /\ \A d \in Conns \ {c} : job'[d] = job[d]
        /\ job'[c].step = "idle"
    BY <1>1, <1>4, JobChanges DEF OpenTemp, Finish, Idle
  <2>3. /\ session' \in [Conns -> Sessions]
        /\ \A d \in Conns \ {c} : session'[d] = session[d]
    BY <1>1, <1>4, SessionChanges DEF OpenTemp, Sessions, States
  <2>4. blob' \in [SnapshotIds -> Blob \cup {None}]
    BY <1>1, <1>4, <2>1 DEF OpenTemp, Blob
  <2>5. /\ upload' \in [Conns -> Upload \cup {None}]
        /\ \A d \in Conns \ {c} : upload'[d] = upload[d]
        /\ upload'[c] # None
        /\ openFiles' \in [Conns -> SUBSET SnapshotIds]
    BY <1>1, <1>4, <2>1, NoneIsNoRecord DEF OpenTemp, Upload, Contents
  <2>. QED
    BY <1>1, <1>4, <2>2, <2>3, <2>4, <2>5, OneHandlerMoves
       DEF OpenTemp, OthersWait, HandlerInStep, Sessions
<1>5. CASE OpenTempFails(c)
  <2>1. /\ job' \in [Conns -> Job]
        /\ \A d \in Conns \ {c} : job'[d] = job[d]
        /\ job'[c].step = "idle"
    BY <1>1, <1>5, JobChanges DEF OpenTempFails, Finish, Idle
  <2>. QED
    BY <1>1, <1>5, <2>1, OneHandlerMoves
       DEF OpenTempFails, OthersWait, HandlerInStep
<1>6. CASE UploadChunk(c)
  <2>1. upload[c] \in Upload /\ session[c].state = "kUploadInProgress"
    BY <1>1, <1>6 DEF UploadChunk, HandlerInStep, Waits
  <2>2. /\ upload' \in [Conns -> Upload \cup {None}]
        /\ \A d \in Conns \ {c} : upload'[d] = upload[d]
        /\ upload'[c] # None
    <3>1. PICK content \in Contents :
             upload' = [upload EXCEPT ![c].content = content]
      BY <1>6 DEF UploadChunk, Contents
    <3>. DEFINE new == [upload[c] EXCEPT !.content = content]
    <3>2. upload' = [upload EXCEPT ![c] = new]
      BY <3>1
    <3>3. new \in Upload
      BY <2>1, UploadFields
    <3>. HIDE DEF new
    <3>. QED
      BY <1>1, <3>2, <3>3, NoneIsNoRecord
  <2>. QED
    BY <1>1, <1>6, <2>2, OneHandlerMoves
       DEF UploadChunk, OthersWait, HandlerInStep
<1>7. CASE RejectChunk(c) \/ PublishFails(c)
           \/ (UploadEnd(c) /\ ~UploadEndChecks(c))
  <2>1. /\ upload[c] # None /\ AbortUpload(c)
        /\ SetState(c, "kAuthenticated")
    BY <1>1, <1>7 DEF RejectChunk, PublishFails, UploadEnd, HandlerInStep, Waits
  <2>2. /\ openFiles' \in [Conns -> SUBSET SnapshotIds]
        /\ blob' \in [SnapshotIds -> Blob \cup {None}]
        /\ upload' \in [Conns -> Upload \cup {None}]
        /\ \A d \in Conns \ {c} : upload'[d] = upload[d]
    BY <1>1, <2>1, AbortChanges
  <2>3. /\ session' \in [Conns -> Sessions]
        /\ \A d \in Conns \ {c} : session'[d] = session[d]
        /\ session'[c].state = "kAuthenticated"
    BY <1>1, <2>1, SessionChanges DEF Sessions, States
  <2>4. /\ job' \in [Conns -> Job]
        /\ \A d \in Conns \ {c} : job'[d] = job[d]
        /\ job'[c].step = "idle"
    BY <1>1, <1>7, JobChanges DEF RejectChunk, PublishFails, UploadEnd, Finish,
         Idle, Waits
  <2>5. UNCHANGED <<download, home, rootTrash, issued, crashes>>
        /\ faults' \in 0..MaxFaults
    BY <1>1, <1>7 DEF RejectChunk, PublishFails, UploadEnd
  <2>6. HandlersInStep'
    BY <1>1, <2>2, <2>3, <2>4, OneHandlerMoves DEF OthersWait, HandlerInStep
  <2>. QED
    BY <1>1, <2>2, <2>3, <2>4, <2>5, <2>6 DEF Sessions
<1>8. CASE (UploadEnd(c) /\ UploadEndChecks(c)) \/ Publish(c)
           \/ InsertRowFails(c)
  <2>1. PICK step \in {"publish", "insert", "unpublish"} : Goto(c, step)
    BY <1>8 DEF UploadEnd, Publish, InsertRowFails
  <2>2. /\ job' \in [Conns -> Job]
        /\ \A d \in Conns \ {c} : job'[d] = job[d]
        /\ job'[c].step = step
    BY <1>1, <2>1, JobChanges DEF Steps
  <2>3. /\ upload[c] \in Upload /\ upload' = upload /\ session' = session
        /\ session[c].user \in UserIds /\ session[c].state # "closed"
        /\ UNCHANGED <<download, home, rootTrash, issued, crashes>>
    BY <1>1, <1>8 DEF UploadEnd, Publish, InsertRowFails, HandlerInStep, Waits,
                      AccountLives, LiveUsers
  <2>4. upload[c].id \in SnapshotIds
    BY <2>3 DEF Upload
  <2>5. /\ blob' \in [SnapshotIds -> Blob \cup {None}]
        /\ openFiles' \in [Conns -> SUBSET SnapshotIds]
        /\ faults' \in 0..MaxFaults
    <3>1. CASE Publish(c)
      <4>1. blob[upload[c].id] \in Blob
        BY <1>1, <3>1, <2>4 DEF Publish, LiesAt
      <4>. DEFINE new == [blob[upload[c].id] EXCEPT
                            !.at = "final",
                            !.whole = (upload[c].content = "whole")]
      <4>2. blob' = [blob EXCEPT ![upload[c].id] = new]
        BY <3>1 DEF Publish
      <4>3. new \in Blob
        BY <4>1, BlobFields
      <4>4. openFiles' \in [Conns -> SUBSET SnapshotIds]
            /\ faults' \in 0..MaxFaults
        BY <1>1, <3>1 DEF Publish
      <4>. HIDE DEF new
      <4>. QED
        BY <1>1, <4>2, <4>3, <4>4
    <3>. QED
      BY <1>1, <1>8, <3>1 DEF UploadEnd, InsertRowFails
  <2>6. HandlersInStep'
    BY <1>1, <2>2, <2>3, NoneIsNoRecord, OneHandlerMoves
       DEF OthersWait, HandlerInStep
  <2>. QED
    BY <1>1, <2>2, <2>3, <2>5, <2>6
<1>9. CASE InsertRow(c) \/ Unpublish(c)
  <2>1. ResetUpload(c) /\ upload[c] \in Upload
        /\ UNCHANGED <<download, openFiles, home, rootTrash, issued, crashes>>
    BY <1>1, <1>9 DEF InsertRow, Unpublish, HandlerInStep
  <2>2. /\ upload' \in [Conns -> Upload \cup {None}]
        /\ \A d \in Conns \ {c} : upload'[d] = upload[d]
    BY <1>1, <2>1 DEF ResetUpload
  <2>3. /\ session' \in [Conns -> Sessions]
        /\ \A d \in Conns \ {c} : session'[d] = session[d]
        /\ session'[c].state = "kAuthenticated"
    BY <1>1, <2>1, SessionChanges DEF ResetUpload, Sessions, States
  <2>4. /\ job' \in [Conns -> Job]
        /\ \A d \in Conns \ {c} : job'[d] = job[d]
        /\ job'[c].step = "idle"
    BY <1>1, <2>1, JobChanges DEF ResetUpload, Finish, Idle
  <2>5. /\ blob' \in [SnapshotIds -> Blob \cup {None}]
        /\ faults' \in 0..MaxFaults
    BY <1>1, <1>9, <2>1, DiskChanges DEF InsertRow, Unpublish, Upload
  <2>6. HandlersInStep'
    BY <1>1, <2>2, <2>3, <2>4, OneHandlerMoves DEF OthersWait, HandlerInStep
  <2>. QED
    BY <1>1, <2>1, <2>2, <2>3, <2>4, <2>5, <2>6 DEF Sessions
<1>. QED
  BY <1>2, <1>3, <1>4, <1>5, <1>6, <1>7, <1>8, <1>9, UploadStep(c)
     DEF UploadStep

LEMMA DeleteStepTypes ==
    ASSUME ServerInv, NEW c \in Conns, DeleteStep(c)
    PROVE  ConnTypeOK' /\ DiskTypeOK' /\ RestTypeOK' /\ HandlersInStep'
<1>. USE DEF ServerInv, diskVars, budget, ConnTypeOK, DiskTypeOK, RestTypeOK,
             Fault, NoFault
<1>1. ConnTypeOK /\ DiskTypeOK /\ RestTypeOK /\ HandlerInStep(c)
  BY TypeParts DEF HandlersInStep
<1>2. CASE \E s \in SnapshotIds : DeleteBegin(c, s)
  <2>1. PICK s \in SnapshotIds : DeleteBegin(c, s)
    BY <1>2
  <2>2. /\ job' \in [Conns -> Job]
        /\ \A d \in Conns \ {c} : job'[d] = job[d]
    BY <1>1, <2>1, JobChanges DEF DeleteBegin, Steps
  <2>3. job'[c].step = "trashBlob" /\ job'[c].on # None
    BY <1>1, <2>1 DEF DeleteBegin, Begin
  <2>4. session[c].user \in UserIds /\ session[c].state = "kAuthenticated"
    BY <2>1 DEF DeleteBegin, AccountLives, LiveUsers, Waits
  <2>. QED
    BY <1>1, <2>1, <2>2, <2>3, <2>4, OneHandlerMoves
       DEF DeleteBegin, OthersWait, HandlerInStep
<1>3. ASSUME TrashBlob(c) \/ DeleteRow(c) \/ DeleteRowFails(c)
               \/ RestoreBlob(c) \/ PurgeBlob(c)
      PROVE  ConnTypeOK' /\ DiskTypeOK' /\ RestTypeOK' /\ HandlersInStep'
  <2>1. /\ job[c].on \in SnapshotIds /\ job[c].on # None
        /\ session[c].user \in UserIds /\ session[c].state # "closed"
        /\ UNCHANGED <<session, upload, download, openFiles, home, rootTrash,
                       issued, crashes>>
    BY <1>1, <1>3 DEF TrashBlob, DeleteRow, DeleteRowFails, RestoreBlob,
                      PurgeBlob, HandlerInStep, Job
  <2>2. Finish(c) \/ Goto(c, "deleteRow") \/ Goto(c, "purgeBlob")
                  \/ Goto(c, "restoreBlob")
    BY <1>3 DEF TrashBlob, DeleteRow, DeleteRowFails, RestoreBlob, PurgeBlob
  <2>3. /\ job' \in [Conns -> Job]
        /\ \A d \in Conns \ {c} : job'[d] = job[d]
        /\ \/ job'[c].step = "idle"
           \/ /\ job'[c].step \in {"deleteRow", "purgeBlob", "restoreBlob"}
              /\ job'[c].on = job[c].on
    BY <1>1, <2>2, JobChanges DEF Steps
  <2>4. faults' \in 0..MaxFaults
    BY <1>1, <1>3 DEF TrashBlob, DeleteRow, DeleteRowFails, RestoreBlob,
                      PurgeBlob
  <2>5. \/ blob' = blob
        \/ \E place \in {"final", "trash"} :
             blob' = Moved(job[c].on, place) /\ blob[job[c].on] # None
        \/ \E place \in {"final", "trash"} :
             blob' = Unlinked(job[c].on, session[c].user, place)
    BY <1>3 DEF TrashBlob, DeleteRow, DeleteRowFails, RestoreBlob, PurgeBlob,
                LiesAt
  <2>6. blob' \in [SnapshotIds -> Blob \cup {None}]
    BY <1>1, <2>1, <2>5, DiskChanges
  <2>7. HandlersInStep'
    BY <1>1, <2>1, <2>3, OneHandlerMoves DEF OthersWait, HandlerInStep
  <2>. QED
    BY <1>1, <2>1, <2>3, <2>4, <2>6, <2>7
<1>. QED
  BY <1>2, <1>3, DeleteStep(c) DEF DeleteStep

LEMMA DeleteAccountStepTypes ==
    ASSUME ServerInv, NEW c \in Conns, DeleteAccountStep(c)
    PROVE  ConnTypeOK' /\ DiskTypeOK' /\ RestTypeOK' /\ HandlersInStep'
<1>. USE DEF ServerInv, diskVars, budget, ConnTypeOK, DiskTypeOK, RestTypeOK,
             Fault, NoFault
<1>1. ConnTypeOK /\ DiskTypeOK /\ RestTypeOK /\ HandlerInStep(c)
  BY TypeParts DEF HandlersInStep
<1>2. CASE DeleteAccountBegin(c)
  <2>1. /\ job' \in [Conns -> Job]
        /\ \A d \in Conns \ {c} : job'[d] = job[d]
    BY <1>1, <1>2, JobChanges DEF DeleteAccountBegin, Steps
  <2>2. job'[c].step = "quarantine"
    BY <1>1, <1>2 DEF DeleteAccountBegin, Begin
  <2>3. session[c].user \in UserIds /\ session[c].state = "kAuthenticated"
    BY <1>2 DEF DeleteAccountBegin, AccountLives, LiveUsers, Waits
  <2>. QED
    BY <1>1, <1>2, <2>1, <2>2, <2>3, OneHandlerMoves
       DEF DeleteAccountBegin, OthersWait, HandlerInStep
<1>3. CASE Quarantine(c)
  <2>1. /\ session[c].user \in UserIds /\ session[c].state # "closed"
        /\ home[session[c].user] \in Dirs \cup {None}
    BY <1>1, <1>3 DEF Quarantine, HandlerInStep
  <2>2. /\ job' \in [Conns -> Job]
        /\ \A d \in Conns \ {c} : job'[d] = job[d]
        /\ job'[c].step \in {"idle", "deleteUser"}
    <3>1. CASE Finish(c)
      BY <1>1, <3>1, JobChanges
    <3>2. CASE job' = [job EXCEPT
                         ![c] = [step |-> "deleteUser", on |-> None,
                                 dir |-> home[session[c].user],
                                 offer |-> None]]
      BY <1>1, <2>1, <3>2 DEF Job, Steps
    <3>. QED
      BY <1>3, <3>1, <3>2 DEF Quarantine
  <2>3. /\ home' \in [UserIds -> Dirs \cup {None}] /\ rootTrash' \subseteq Dirs
        /\ faults' \in 0..MaxFaults
    BY <1>1, <1>3, <2>1 DEF Quarantine
  <2>. QED
    BY <1>1, <1>3, <2>1, <2>2, <2>3, OneHandlerMoves
       DEF Quarantine, OthersWait, HandlerInStep
<1>4. CASE DeleteUserRow(c) \/ DeleteUserRowFails(c)
  <2>1. /\ Goto(c, "purgeHome") \/ Goto(c, "restoreHome")
        /\ session[c].user \in UserIds /\ session[c].state # "closed"
        /\ UNCHANGED <<session, upload, download, openFiles, diskVars, issued,
                       crashes>>
        /\ faults' \in 0..MaxFaults
    BY <1>1, <1>4 DEF DeleteUserRow, DeleteUserRowFails, HandlerInStep
  <2>2. /\ job' \in [Conns -> Job]
        /\ \A d \in Conns \ {c} : job'[d] = job[d]
        /\ job'[c].step \in {"purgeHome", "restoreHome"}
    BY <1>1, <2>1, JobChanges DEF Steps
  <2>. QED
    BY <1>1, <2>1, <2>2, OneHandlerMoves DEF OthersWait, HandlerInStep
<1>5. CASE RestoreHome(c)
  <2>1. /\ job' \in [Conns -> Job]
        /\ \A d \in Conns \ {c} : job'[d] = job[d]
        /\ job'[c].step = "idle"
    BY <1>1, <1>5, JobChanges DEF RestoreHome
  <2>2. job[c].dir \in Dirs \cup {None}
    BY <1>1 DEF Job
  <2>3. /\ home' \in [UserIds -> Dirs \cup {None}] /\ rootTrash' \subseteq Dirs
        /\ faults' \in 0..MaxFaults
    BY <1>1, <1>5, <2>2 DEF RestoreHome
  <2>. QED
    BY <1>1, <1>5, <2>1, <2>3, OneHandlerMoves
       DEF RestoreHome, OthersWait, HandlerInStep
<1>6. CASE PurgeHome(c)
  <2>1. /\ job' \in [Conns -> Job]
        /\ \A d \in Conns \ {c} : job'[d] = job[d]
        /\ job'[c].step = "idle"
    BY <1>1, <1>6, JobChanges DEF PurgeHome
  <2>2. /\ session' \in [Conns -> Sessions]
        /\ \A d \in Conns \ {c} : session'[d] = session[d]
        /\ session'[c].state = "kConnected"
    BY <1>1, <1>6, SessionChanges DEF PurgeHome, Sessions
  <2>3. /\ rootTrash' \subseteq Dirs /\ faults' \in 0..MaxFaults
        /\ blob' \in [SnapshotIds -> Blob \cup {None}]
    BY <1>1, <1>6 DEF PurgeHome
  <2>. QED
    BY <1>1, <1>6, <2>1, <2>2, <2>3, OneHandlerMoves
       DEF PurgeHome, OthersWait, HandlerInStep, Sessions
<1>. QED
  BY <1>2, <1>3, <1>4, <1>5, <1>6, DeleteAccountStep(c) DEF DeleteAccountStep

(***************************************************************************)
(* ServerInv is inductive: the store part because every step refines the   *)
(* store, the rest group by group.                                         *)
(***************************************************************************)
LEMMA NextServerInv == ServerInv /\ [Next]_vars => ServerInv'
<1>. SUFFICES ASSUME ServerInv, [Next]_vars
              PROVE  ServerInv'
  OBVIOUS
<1>1. StoreInv' /\ StoreTypeOK'
  BY NextRefines, NextStoreInv DEF ServerInv, StoreInv
<1>2. ConnTypeOK' /\ DiskTypeOK' /\ RestTypeOK' /\ HandlersInStep'
  <2>1. CASE Crash
    BY <2>1, TypeParts DEF Crash, ServerInv, ConnTypeOK, DiskTypeOK,
       RestTypeOK, HandlersInStep, HandlerInStep, Idle, Job, Steps, States,
       diskVars
  <2>2. CASE ClockTick \/ UNCHANGED vars
    BY <2>2, TypeParts DEF ClockTick, ServerInv, ConnTypeOK, DiskTypeOK,
       RestTypeOK, HandlersInStep, HandlerInStep, connVars, diskVars, budget,
       vars
  <2>. QED
    BY <2>1, <2>2, SessionStepTypes, UploadStepTypes, DownloadStepTypes,
       DeleteStepTypes, DeleteAccountStepTypes DEF Next
<1>3. ServerTypeOK'
  BY <1>1, <1>2 DEF ServerTypeOK, ConnTypeOK, DiskTypeOK, RestTypeOK
<1>. QED
  BY <1>1, <1>2, <1>3 DEF ServerInv

-----------------------------------------------------------------------------
(***************************************************************************)
(* Connections, uploads, jobs, directories and files stay well typed.      *)
(***************************************************************************)
THEOREM ServerTypeCorrect == Spec => []ServerTypeOK
<1>1. ServerInv => ServerTypeOK
  BY DEF ServerInv
<1>. QED
  BY <1>1, InitServerInv, NextServerInv, PTL DEF Spec

(***************************************************************************)
(* The server implements the store's specification: with any number of     *)
(* connections, and through every failure and crash, it only ever asks the *)
(* store for changes that specification allows.                            *)
(***************************************************************************)
THEOREM ServerImplementsStore == Spec => StoreSpec
<1>1. Init => StoreInit
  BY DEF Init
<1>. QED
  BY <1>1, InitServerInv, NextServerInv, NextRefines, PTL DEF Spec, StoreSpec

(***************************************************************************)
(* Hence, in the running server, every incremental snapshot on record has  *)
(* its parent, chains are linear and rows have live owners.                *)
(***************************************************************************)
THEOREM ServerKeepsChains ==
    Spec => []RowsAreSound
  BY ServerImplementsStore, ChainsSound

(***************************************************************************)
(* And no account id that a token still names is ever given to another     *)
(* account.                                                                *)
(***************************************************************************)
THEOREM ServerNeverReusesIds == Spec => DeletedIdsStayDead
  BY ServerImplementsStore, DeletedIdsNeverReturn

-----------------------------------------------------------------------------
(***************************************************************************)
(* Rows and files of RemoteServer, whatever the number of connections,     *)
(* accounts, snapshots and directories.                                    *)
(*                                                                         *)
(* Whatever fails: a session acts on the account it was opened for, and no *)
(* bytes go while their row is there (SessionsInv and FilesInv, which each *)
(* step keeps).  The reason is that ids and directories have one use at a  *)
(* time, though users/<id> is renamed away and made again: IdsInv, DirsInv *)
(* and OwnersInv say which.                                                *)
(*                                                                         *)
(* As long as nothing has failed: rows and files stand for each other      *)
(* (Calm).  A step moves at most one file or one directory; of every other *)
(* snapshot it is enough to see that FileStays and RoleStays hold.         *)
(***************************************************************************)

USE NoneIsNoRecord

BeginSteps == {"ensureDir", "openTemp"}
UploadSteps == {"publish", "insert", "unpublish"}
TrashSteps == {"deleteRow", "restoreBlob", "purgeBlob"}
DeleteSteps == {"trashBlob"} \cup TrashSteps
HomeSteps == {"deleteUser", "restoreHome", "purgeHome"}

(***************************************************************************)
(* The account of a session is one that was created, and while it lives    *)
(* the one the session was opened for.                                     *)
(***************************************************************************)
SessionsInv ==
    \A c \in Conns :
      session[c].user # None =>
        /\ session[c].user \in Allocated
        /\ session[c].user \in LiveUsers =>
             username[session[c].user] = session[c].name

(***************************************************************************)
(* A snapshot id has one use at a time: it is listed, or one upload has it,*)
(* or one UPLOAD_BEGIN; a deletion is of an id no upload has.              *)
(***************************************************************************)
IdsInv ==
    /\ \A c \in Conns : upload[c] # None => upload[c].id \notin Rows
    /\ \A c, d \in Conns : upload[c] # None /\ upload[d] # None
                             /\ upload[c].id = upload[d].id => c = d
    /\ \A c \in Conns : job[c].step \in BeginSteps => job[c].on \notin Rows
    /\ \A c, d \in Conns : job[c].step \in BeginSteps /\ upload[d] # None
                             => upload[d].id # job[c].on
    /\ \A c, d \in Conns :
         job[c].step \in BeginSteps /\ job[d].step \in BeginSteps
           /\ job[c].on = job[d].on => c = d
    /\ \A c, d \in Conns : job[c].step \in DeleteSteps /\ upload[d] # None
                             => upload[d].id # job[c].on
    /\ \A c, d \in Conns :
         job[c].step \in DeleteSteps /\ job[d].step \in BeginSteps
           => job[d].on # job[c].on
    /\ \A c \in Conns : job[c].step \in DeleteSteps /\ job[c].on \in Rows
                          => snapshots[job[c].on].user = session[c].user
    /\ \A c \in Conns : job[c].step = "purgeBlob" => job[c].on \notin Rows

(***************************************************************************)
(* An upload is of the session it was begun in; one that was left behind   *)
(* when its session ended is of an account that is gone.                   *)
(***************************************************************************)
UploadInv(c) ==
    /\ job[c].step \in UploadSteps => session[c].state = "kUploadInProgress"
    /\ job[c].step \notin UploadSteps \cup {"idle"} =>
         session[c].state = "kAuthenticated"
    /\ session[c].state = "kUploadInProgress" =>
         upload[c].user = session[c].user
    /\ job[c].step = "publish" => upload[c].content = "whole"
    /\ upload[c] # None => \/ session[c].state = "kUploadInProgress"
                           \/ upload[c].user \in deletedUsers

UploadsInv == \A c \in Conns : UploadInv(c)

(***************************************************************************)
(* A directory is in one place: users/<id> of one account, or the trash    *)
(* of one deletion, and every file is in one of them.                      *)
(***************************************************************************)
DirsInv ==
    /\ \A u, v \in UserIds : home[u] # None /\ home[u] = home[v] => u = v
    /\ \A u \in UserIds : home[u] \notin rootTrash
    /\ \A u \in UserIds : home[u] # None => u \in Allocated
    /\ \A c \in Conns : job[c].step \in HomeSteps /\ job[c].dir # None
                          => job[c].dir \in rootTrash
    /\ \A c, d \in Conns :
         /\ job[c].step \in HomeSteps /\ job[d].step \in HomeSteps
         /\ job[c].dir = job[d].dir /\ job[c].dir # None
         => c = d
    /\ \A s \in SnapshotIds :
         blob[s] # None => \/ blob[s].dir \in rootTrash
                           \/ \E u \in UserIds : home[u] = blob[s].dir

Refers(s, u) ==
    \/ s \in RowsOf(u)
    \/ \E c \in Conns : upload[c] # None /\ upload[c].id = s
                        /\ upload[c].user = u
    \/ \E c \in Conns : job[c].step \in DeleteSteps /\ job[c].on = s
                        /\ session[c].user = u

(***************************************************************************)
(* A file lies in a directory of the account it is of, wherever that       *)
(* directory has got to, and a directory is only emptied when the account  *)
(* is gone.                                                                *)
(***************************************************************************)
OwnersInv ==
    \A s \in SnapshotIds, u \in UserIds :
      Refers(s, u) /\ blob[s] # None =>
        /\ \A v \in UserIds : home[v] = blob[s].dir => v = u
        /\ \A c \in Conns :
             job[c].step \in {"deleteUser", "restoreHome"}
               /\ job[c].dir = blob[s].dir => session[c].user = u
        /\ \A c \in Conns :
             job[c].step = "purgeHome" /\ job[c].dir = blob[s].dir
               => u \in deletedUsers

(***************************************************************************)
(* The file that is about to get a row is complete, unless it is too late  *)
(* for the row.                                                            *)
(***************************************************************************)
Whole(s) == blob[s] # None /\ blob[s].whole

BytesInv ==
    /\ RowsKeepTheirBytes
    /\ \A c \in Conns : job[c].step = "insert" =>
         Whole(upload[c].id) \/ session[c].user \in deletedUsers

DeletedBy(u) ==
    \E d \in Conns : job[d].step = "deleteUser" /\ session[d].user = u

-----------------------------------------------------------------------------
(* Sessions *)

(***************************************************************************)
(* Ids that were given stay given, and what is deleted stays deleted.      *)
(***************************************************************************)
LEMMA AccountsStay ==
    ASSUME StoreInv, StoreInv', [StoreNext]_storeVars
    PROVE  /\ Allocated \subseteq Allocated'
           /\ deletedUsers \subseteq deletedUsers'
           /\ \A u \in Allocated : u \in LiveUsers' =>
                u \in LiveUsers /\ username'[u] = username[u]
<1>. USE DEF StoreInv, StoreTypeOK, Allocated, LiveUsers
<1>1. CASE \E name \in Names : CreateUser(name)
  <2>1. PICK id \in UserIds, name \in Names :
          /\ IsNextUserId(id) /\ username' = [username EXCEPT ![id] = name]
          /\ UNCHANGED <<deletedUsers, snapshots, now>>
    BY <1>1 DEF CreateUser
  <2>2. id \notin Allocated
    BY <2>1 DEF IsNextUserId, UserIds
  <2>. QED
    BY <2>1, <2>2
<1>2. CASE \E user \in UserIds : DeleteUser(user)
  BY <1>2 DEF DeleteUser
<1>3. CASE UNCHANGED <<username, deletedUsers>>
  BY <1>3
<1>. QED
  BY <1>1, <1>2, <1>3, [StoreNext]_storeVars
     DEF StoreNext, InsertSnapshot, DeleteSnapshot, Tick, storeVars

(***************************************************************************)
(* A session goes on as it is, ends, or is opened for a live account.      *)
(***************************************************************************)
SessionGoesOn(c) ==
    \/ session'[c].user = None
    \/ session'[c].user = session[c].user /\ session'[c].name = session[c].name
    \/ /\ session'[c].user \in LiveUsers'
       /\ username'[session'[c].user] = session'[c].name

(***************************************************************************)
(* The ways a handler changes its session, once more.                      *)
(***************************************************************************)
LEMMA SessionEffects ==
    ASSUME session \in [Conns -> Sessions], NEW c \in Conns,
           \/ ToConnected(c)
           \/ \E state \in States : SetState(c, state)
           \/ UNCHANGED session
    PROVE  \A d \in Conns : SessionGoesOn(d)
  BY DEF ToConnected, SetState, Sessions, States, SessionGoesOn

(***************************************************************************)
(* Each step leaves every session one of the three.                        *)
(***************************************************************************)
LEMMA SessionsGoOn ==
    ASSUME ServerInv, [Next]_vars
    PROVE  \A d \in Conns : SessionGoesOn(d)
<1>. USE DEF States, ServerInv
<1>0. session \in [Conns -> Sessions]
  BY DEF ServerTypeOK, Sessions
<1>1. CASE Crash
  BY <1>1 DEF Crash, SessionGoesOn
<1>2. CASE ClockTick \/ UNCHANGED vars
  BY <1>2 DEF ClockTick, vars, connVars, SessionGoesOn
<1>3. ASSUME NEW c \in Conns, SessionStep(c)
      PROVE  \A d \in Conns : SessionGoesOn(d)
  <2>1. CASE Connect(c) \/ Logout(c) \/ RejectIfAccountMissing(c)
    BY <1>0, <2>1, SessionEffects DEF Connect, Logout, RejectIfAccountMissing
  <2>2. CASE Disconnect(c)
    BY <1>0, <2>2 DEF Disconnect, SessionGoesOn, Sessions
  <2>3. CASE \E name \in Names : Register(c, name)
    BY <2>3 DEF Register, connVars, SessionGoesOn
  <2>4. CASE \E name \in Names : Login(c, name)
    <3>0. PICK name \in Names : Login(c, name)
      BY <2>4
    <3>1. PICK u \in FindUser(name) :
            /\ session' = [session EXCEPT ![c] = [state |-> "kAuthenticated",
                                                 user |-> u, name |-> name]]
            /\ username' = username
      BY <3>0 DEF Login, storeVars
    <3>2. u \in LiveUsers' /\ username'[u] = name
      BY <3>1, NamesAssumption DEF FindUser, LiveUsers
    <3>3. session'[c].user = u /\ session'[c].name = name
      BY <1>0, <3>1
    <3>4. \A d \in Conns \ {c} : session'[d] = session[d]
      BY <1>0, <3>1
    <3>. QED
      BY <3>2, <3>3, <3>4 DEF SessionGoesOn
  <2>5. CASE \E u \in UserIds : Resume(c, u)
    BY <1>0, <2>5 DEF Resume, SessionGoesOn, LiveUsers, storeVars
  <2>. QED
    BY <1>3, <2>1, <2>2, <2>3, <2>4, <2>5 DEF SessionStep
<1>4. ASSUME NEW c \in Conns, UploadStep(c)
      PROVE  \A d \in Conns : SessionGoesOn(d)
  <2>1. \/ SetState(c, "kUploadInProgress") \/ SetState(c, "kAuthenticated")
        \/ UNCHANGED session
    BY <1>4 DEF UploadStep, UploadBegin, EnsureUserDirectory, OpenTemp,
                OpenTempFails, UploadChunk, RejectChunk, UploadEnd, Publish,
                PublishFails, InsertRow, InsertRowFails, Unpublish, ResetUpload
  <2>. QED
    BY <1>0, <2>1, SessionEffects
<1>5. ASSUME NEW c \in Conns, DownloadStep(c)
      PROVE  \A d \in Conns : SessionGoesOn(d)
  <2>1. (\E state \in States : SetState(c, state)) \/ UNCHANGED session
    BY <1>5 DEF DownloadStep, DownloadBegin, OpenBlob, DownloadEnd
  <2>. QED
    BY <1>0, <2>1, SessionEffects
<1>6. ASSUME NEW c \in Conns, DeleteStep(c) \/ DeleteAccountStep(c)
      PROVE  \A d \in Conns : SessionGoesOn(d)
  <2>1. ToConnected(c) \/ UNCHANGED session
    BY <1>6 DEF DeleteStep, DeleteBegin, TrashBlob, DeleteRow, DeleteRowFails,
                RestoreBlob, PurgeBlob, DeleteAccountStep, DeleteAccountBegin,
                Quarantine, DeleteUserRow, DeleteUserRowFails, RestoreHome,
                PurgeHome
  <2>. QED
    BY <1>0, <2>1, SessionEffects
<1>. QED
  BY <1>1, <1>2, <1>3, <1>4, <1>5, <1>6 DEF Next

(***************************************************************************)
(* A session keeps its account: ids are never given twice, so what was     *)
(* deleted is not replaced by another account under the same id.           *)
(***************************************************************************)
LEMMA NextSessionsInv ==
    ASSUME ServerInv, ServerInv', SessionsInv, [Next]_vars
    PROVE  SessionsInv'
<1>1. [StoreNext]_storeVars
  BY NextRefines
<1>2. \A c \in Conns : SessionGoesOn(c)
  BY SessionsGoOn
<1>3. /\ Allocated \subseteq Allocated' /\ LiveUsers' \subseteq Allocated'
      /\ \A u \in Allocated : u \in LiveUsers' =>
           u \in LiveUsers /\ username'[u] = username[u]
  BY <1>1, AccountsStay DEF ServerInv, Allocated
<1>. SUFFICES ASSUME NEW c \in Conns, session'[c].user # None
              PROVE  /\ session'[c].user \in Allocated'
                     /\ session'[c].user \in LiveUsers' =>
                          username'[session'[c].user] = session'[c].name
  BY DEF SessionsInv
<1>4. CASE /\ session'[c].user = session[c].user
           /\ session'[c].name = session[c].name
  BY <1>3, <1>4 DEF SessionsInv
<1>5. CASE /\ session'[c].user \in LiveUsers'
           /\ username'[session'[c].user] = session'[c].name
  BY <1>3, <1>5
<1>. QED
  BY <1>2, <1>4, <1>5 DEF SessionGoesOn

-----------------------------------------------------------------------------
(* Steps that begin nothing new *)

FilesInv == IdsInv /\ UploadsInv /\ DirsInv /\ OwnersInv /\ BytesInv

(***************************************************************************)
(* A connection that takes up no id: what it goes on with it had.          *)
(***************************************************************************)
GoesOn(d) ==
    /\ upload'[d] # None => /\ upload[d] # None
                            /\ upload'[d].id = upload[d].id
                            /\ upload'[d].user = upload[d].user
    /\ job'[d].step \in BeginSteps =>
         job[d].step \in BeginSteps /\ job'[d].on = job[d].on
    /\ job'[d].step \in DeleteSteps =>
         /\ job[d].step \in DeleteSteps /\ job'[d].on = job[d].on
         /\ session'[d].user = session[d].user
    /\ job'[d].step = "purgeBlob" => job'[d].on \notin Rows'

(***************************************************************************)
(* One that takes up no directory.                                         *)
(***************************************************************************)
KeepsDir(d) ==
    /\ job'[d].step \in HomeSteps =>
         /\ job[d].step \in HomeSteps /\ job'[d].dir = job[d].dir
         /\ session'[d].user = session[d].user
    /\ job'[d].step \in {"deleteUser", "restoreHome"} =>
         job[d].step \in {"deleteUser", "restoreHome"}
    /\ job'[d].step = "purgeHome" =>
         job[d].step = "purgeHome" \/ session[d].user \in deletedUsers'

RowsShrink ==
    \A s \in Rows' : s \in Rows /\ snapshots'[s].user = snapshots[s].user

(***************************************************************************)
(* A file may go, or change its place in its directory.                    *)
(***************************************************************************)
FilesStay ==
    \A s \in SnapshotIds :
      blob'[s] # None => blob[s] # None /\ blob'[s].dir = blob[s].dir

QuietIds == RowsShrink /\ \A d \in Conns : GoesOn(d)

QuietDirs ==
    /\ \A d \in Conns : KeepsDir(d)
    /\ FilesStay
    /\ UNCHANGED <<home, rootTrash>>

NoNewReference ==
    \A s \in SnapshotIds, u \in UserIds : Refers(s, u)' => Refers(s, u)

(***************************************************************************)
(* What every step does to the accounts.                                   *)
(***************************************************************************)
AccountsGrow ==
    /\ Allocated \subseteq Allocated' /\ deletedUsers \subseteq deletedUsers'
    /\ deletedUsers \cap LiveUsers = {} /\ (deletedUsers \cap LiveUsers = {})'

(***************************************************************************)
(* Every step of the server does that, being a step of the store.          *)
(***************************************************************************)
LEMMA EveryStepGrows ==
    ASSUME ServerInv, ServerInv', [Next]_vars
    PROVE  AccountsGrow
<1>1. [StoreNext]_storeVars
  BY NextRefines
<1>. QED
  BY <1>1, AccountsStay DEF ServerInv, StoreInv, AccountsGrow, TombstonesAreDead

(***************************************************************************)
(* Connections that do not move take nothing up.                           *)
(***************************************************************************)
LEMMA OthersGoOn ==
    ASSUME ServerInv, IdsInv, NEW c \in Conns, OthersWait(c), RowsShrink
    PROVE  \A d \in Conns \ {c} : GoesOn(d) /\ KeepsDir(d)
  BY DEF OthersWait, GoesOn, KeepsDir, RowsShrink, IdsInv, BeginSteps, DeleteSteps,
         TrashSteps, HomeSteps

(***************************************************************************)
(* A step that takes up no id keeps IdsInv.                                *)
(***************************************************************************)
LEMMA QuietKeepsIds ==
    ASSUME IdsInv, QuietIds
    PROVE  IdsInv'
<1>. USE DEF QuietIds, GoesOn
<1>1. \A c \in Conns : upload'[c] # None => upload'[c].id \notin Rows'
  BY DEF IdsInv, RowsShrink
<1>2. \A c, d \in Conns : upload'[c] # None /\ upload'[d] # None
                            /\ upload'[c].id = upload'[d].id => c = d
  BY DEF IdsInv
<1>3. \A c \in Conns : job'[c].step \in BeginSteps => job'[c].on \notin Rows'
  BY DEF IdsInv, RowsShrink
<1>4. \A c, d \in Conns : job'[c].step \in BeginSteps /\ upload'[d] # None
                            => upload'[d].id # job'[c].on
  BY DEF IdsInv
<1>5. \A c, d \in Conns :
        job'[c].step \in BeginSteps /\ job'[d].step \in BeginSteps
          /\ job'[c].on = job'[d].on => c = d
  BY DEF IdsInv
<1>6. \A c, d \in Conns : job'[c].step \in DeleteSteps /\ upload'[d] # None
                            => upload'[d].id # job'[c].on
  BY DEF IdsInv
<1>7. \A c, d \in Conns :
        job'[c].step \in DeleteSteps /\ job'[d].step \in BeginSteps
          => job'[d].on # job'[c].on
  BY DEF IdsInv
<1>8. \A c \in Conns : job'[c].step \in DeleteSteps /\ job'[c].on \in Rows'
                         => snapshots'[job'[c].on].user = session'[c].user
  BY DEF IdsInv, RowsShrink
<1>. QED
  BY <1>1, <1>2, <1>3, <1>4, <1>5, <1>6, <1>7, <1>8 DEF IdsInv, BeginSteps,
     DeleteSteps, TrashSteps

(***************************************************************************)
(* A step that takes up no directory and moves no file into another keeps  *)
(* DirsInv.                                                                *)
(***************************************************************************)
LEMMA QuietKeepsDirs ==
    ASSUME DirsInv, QuietDirs, AccountsGrow
    PROVE  DirsInv'
<1>. USE DEF QuietDirs, KeepsDir
<1>1. \A u \in UserIds : home'[u] # None => u \in Allocated'
  BY DEF DirsInv, AccountsGrow
<1>2. \A c \in Conns : job'[c].step \in HomeSteps /\ job'[c].dir # None
                         => job'[c].dir \in rootTrash'
  BY DEF DirsInv
<1>3. \A c, d \in Conns :
        /\ job'[c].step \in HomeSteps /\ job'[d].step \in HomeSteps
        /\ job'[c].dir = job'[d].dir /\ job'[c].dir # None
        => c = d
  BY DEF DirsInv
<1>4. \A s \in SnapshotIds :
        blob'[s] # None => \/ blob'[s].dir \in rootTrash'
                           \/ \E u \in UserIds : home'[u] = blob'[s].dir
  BY DEF DirsInv, FilesStay
<1>. QED
  BY <1>1, <1>2, <1>3, <1>4 DEF DirsInv, HomeSteps

LEMMA QuietRefers ==
    ASSUME QuietIds
    PROVE  NoNewReference
<1>. SUFFICES ASSUME NEW s \in SnapshotIds, NEW u \in UserIds, Refers(s, u)'
              PROVE  Refers(s, u)
  BY DEF NoNewReference
<1>. USE DEF QuietIds, GoesOn
<1>1. CASE s \in RowsOf(u)'
  BY <1>1 DEF Refers, RowsOf, RowsShrink
<1>2. CASE \E c \in Conns : upload'[c] # None /\ upload'[c].id = s
                            /\ upload'[c].user = u
  BY <1>2 DEF Refers
<1>3. CASE \E c \in Conns : job'[c].step \in DeleteSteps /\ job'[c].on = s
                            /\ session'[c].user = u
  BY <1>3 DEF Refers
<1>. QED
  BY <1>1, <1>2, <1>3 DEF Refers, DeleteSteps, TrashSteps

(***************************************************************************)
(* If besides no account gets a new reference, the files stay in           *)
(* directories of their owners.                                            *)
(***************************************************************************)
LEMMA QuietKeepsOwners ==
    ASSUME OwnersInv, NoNewReference, AccountsGrow,
           \A d \in Conns : KeepsDir(d), FilesStay, UNCHANGED home
    PROVE  OwnersInv'
<1>. SUFFICES ASSUME NEW s \in SnapshotIds, NEW u \in UserIds,
                     Refers(s, u)', blob'[s] # None
              PROVE  /\ \A v \in UserIds : home'[v] = blob'[s].dir => v = u
                     /\ \A c \in Conns :
                          job'[c].step \in {"deleteUser", "restoreHome"}
                            /\ job'[c].dir = blob'[s].dir => session'[c].user = u
                     /\ \A c \in Conns :
                          job'[c].step = "purgeHome" /\ job'[c].dir = blob'[s].dir
                            => u \in deletedUsers'
  BY DEF OwnersInv
<1>1. Refers(s, u) /\ blob[s] # None /\ blob'[s].dir = blob[s].dir
  BY DEF NoNewReference, FilesStay
<1>2. /\ \A v \in UserIds : home[v] = blob[s].dir => v = u
      /\ \A c \in Conns :
           job[c].step \in {"deleteUser", "restoreHome"}
             /\ job[c].dir = blob[s].dir => session[c].user = u
      /\ \A c \in Conns :
           job[c].step = "purgeHome" /\ job[c].dir = blob[s].dir
             => u \in deletedUsers
  BY <1>1 DEF OwnersInv
<1>3. \A v \in UserIds : home'[v] = blob'[s].dir => v = u
  BY <1>1, <1>2
<1>4. \A c \in Conns :
        job'[c].step \in {"deleteUser", "restoreHome"}
          /\ job'[c].dir = blob'[s].dir => session'[c].user = u
  BY <1>1, <1>2 DEF KeepsDir, HomeSteps
<1>5. ASSUME NEW c \in Conns,
             job'[c].step = "purgeHome", job'[c].dir = blob'[s].dir
      PROVE  u \in deletedUsers'
  <2>1. /\ job[c].step \in HomeSteps /\ job[c].dir = blob[s].dir
        /\ job[c].step = "purgeHome" \/ session[c].user \in deletedUsers'
    BY <1>1, <1>5 DEF KeepsDir, HomeSteps
  <2>2. CASE job[c].step = "purgeHome"
    BY <1>2, <2>1, <2>2 DEF AccountsGrow
  <2>3. CASE job[c].step # "purgeHome"
    BY <1>2, <2>1, <2>3 DEF HomeSteps
  <2>. QED
    BY <2>2, <2>3
<1>. QED
  BY <1>3, <1>4, <1>5

(***************************************************************************)
(* An upload that does not move stays one of a session or of a dead        *)
(* account.                                                                *)
(***************************************************************************)
LEMMA OthersUpload ==
    ASSUME UploadsInv, AccountsGrow, NEW c \in Conns, OthersWait(c),
           UploadInv(c)'
    PROVE  UploadsInv'
<1>1. ASSUME NEW d \in Conns \ {c} PROVE UploadInv(d)'
  <2>1. /\ session'[d] = session[d] /\ upload'[d] = upload[d]
        /\ job'[d] = job[d] /\ UploadInv(d)
    BY DEF OthersWait, UploadsInv
  <2>. QED
    BY <2>1 DEF UploadInv, AccountsGrow, UploadSteps
<1>. QED
  BY <1>1 DEF UploadsInv

(***************************************************************************)
(* No row is new and no file of a row, or of one to be, is harmed.         *)
(***************************************************************************)
BytesSafe ==
    /\ \A s \in Rows' : s \in Rows /\ (Whole(s) => Whole(s)')
    /\ \A d \in Conns : job'[d].step = "insert" =>
         /\ job[d].step = "insert" /\ upload'[d] = upload[d]
         /\ session'[d].user = session[d].user
         /\ Whole(upload[d].id) =>
              \/ blob'[upload[d].id] # None /\ blob'[upload[d].id].whole
              \/ session[d].user \in deletedUsers'

(***************************************************************************)
(* A step that destroys no bytes a row or an UPLOAD_END relies on keeps    *)
(* BytesInv.                                                               *)
(***************************************************************************)
LEMMA SafeKeepsBytes ==
    ASSUME BytesInv, BytesSafe, AccountsGrow
    PROVE  BytesInv'
<1>1. RowsKeepTheirBytes'
  BY DEF BytesInv, BytesSafe, RowsKeepTheirBytes, Whole
<1>2. ASSUME NEW d \in Conns, job'[d].step = "insert"
      PROVE  Whole(upload[d].id)' \/ session'[d].user \in deletedUsers'
  <2>1. /\ Whole(upload[d].id) \/ session[d].user \in deletedUsers
        /\ upload'[d] = upload[d] /\ session'[d].user = session[d].user
        /\ Whole(upload[d].id) =>
             \/ blob'[upload[d].id] # None /\ blob'[upload[d].id].whole
             \/ session[d].user \in deletedUsers'
    BY <1>2 DEF BytesInv, BytesSafe, Whole
  <2>. QED
    BY <2>1 DEF AccountsGrow, Whole
<1>. QED
  BY <1>1, <1>2 DEF BytesInv

(***************************************************************************)
(* Nothing happens to rows and files.                                      *)
(***************************************************************************)
LEMMA StillButIds ==
    ASSUME ServerInv, FilesInv, AccountsGrow, NEW c \in Conns, OthersWait(c),
           UNCHANGED <<snapshots, home, rootTrash, blob>>,
           IdsInv', NoNewReference, KeepsDir(c),
           UploadInv(c)', job'[c].step # "insert"
    PROVE  FilesInv'
<1>. USE DEF FilesInv
<1>1. RowsShrink /\ FilesStay
  BY DEF RowsShrink, FilesStay, Rows
<1>2. QuietDirs
  BY <1>1, OthersGoOn DEF QuietDirs
<1>3. BytesSafe
  BY DEF BytesSafe, Rows, Whole, OthersWait
<1>4. UploadsInv'
  BY OthersUpload
<1>. QED
  BY <1>2, <1>3, <1>4, QuietKeepsDirs, QuietKeepsOwners, SafeKeepsBytes DEF QuietDirs

LEMMA StillKeeps ==
    ASSUME ServerInv, FilesInv, AccountsGrow, NEW c \in Conns, OthersWait(c),
           UNCHANGED <<snapshots, home, rootTrash, blob>>,
           GoesOn(c), KeepsDir(c), UploadInv(c)', job'[c].step # "insert"
    PROVE  FilesInv'
<1>1. RowsShrink
  BY DEF RowsShrink, Rows
<1>2. QuietIds
  BY <1>1, OthersGoOn DEF QuietIds, FilesInv
<1>. QED
  BY <1>2, QuietKeepsIds, QuietRefers, StillButIds DEF FilesInv

(***************************************************************************)
(* What the ways to change a job and a session do, field by field.         *)
(***************************************************************************)
LEMMA JobFields ==
    ASSUME ServerInv, NEW c \in Conns
    PROVE  /\ Finish(c) => /\ job'[c].step = "idle"
                           /\ \A d \in Conns \ {c} : job'[d] = job[d]
           /\ \A step \in Steps : Goto(c, step) =>
                /\ job'[c].step = step /\ job'[c].on = job[c].on
                /\ job'[c].dir = job[c].dir /\ job'[c].offer = job[c].offer
                /\ \A d \in Conns \ {c} : job'[d] = job[d]
           /\ \A step, on, offer : Begin(c, step, on, offer) =>
                /\ job'[c].step = step /\ job'[c].on = on
                /\ \A d \in Conns \ {c} : job'[d] = job[d]
<1>1. job \in [Conns -> Job]
  BY DEF ServerInv, ServerTypeOK
<1>2. job[c] \in Job
  BY <1>1
<1>. QED
  BY <1>1, <1>2 DEF Finish, Goto, Begin, Idle, Job

(***************************************************************************)
(* What the ways to change a session leave in it.                          *)
(***************************************************************************)
LEMMA SessionFields ==
    ASSUME ServerInv, NEW c \in Conns
    PROVE  /\ ToConnected(c) => /\ session'[c].state = "kConnected"
                                /\ \A d \in Conns \ {c} : session'[d] = session[d]
           /\ \A state \in States : SetState(c, state) =>
                /\ session'[c].state = state
                /\ session'[c].user = session[c].user
                /\ \A d \in Conns \ {c} : session'[d] = session[d]
<1>1. session \in [Conns -> Sessions]
  BY DEF ServerInv, ServerTypeOK, Sessions
<1>. QED
  BY <1>1 DEF ToConnected, SetState, Sessions

(***************************************************************************)
(* AbortUpload: at most the file of the upload goes, and no other.         *)
(***************************************************************************)
LEMMA AbortFields ==
    ASSUME ServerInv, NEW c \in Conns, upload[c] # None, AbortUpload(c)
    PROVE  /\ upload[c].id \in SnapshotIds
           /\ upload'[c] = None
           /\ \A d \in Conns \ {c} : upload'[d] = upload[d]
           /\ \A s \in SnapshotIds : s # upload[c].id => blob'[s] = blob[s]
           /\ \A s \in SnapshotIds : blob'[s] = None \/ blob'[s] = blob[s]
           /\ LiesAt(upload[c].id, upload[c].user, "tmp") =>
                blob'[upload[c].id] = None
           /\ ~LiesAt(upload[c].id, upload[c].user, "tmp") => blob' = blob
<1>1. upload[c] \in Upload /\ blob \in [SnapshotIds -> Blob \cup {None}]
      /\ upload \in [Conns -> Upload \cup {None}]
  BY DEF ServerInv, ServerTypeOK
<1>. QED
  BY <1>1 DEF AbortUpload, Unlinked, Upload

(***************************************************************************)
(* A step in which an upload is aborted, and nothing else is done to rows  *)
(* and files.                                                              *)
(***************************************************************************)
LEMMA AbortKeeps ==
    ASSUME ServerInv, FilesInv, AccountsGrow, NEW c \in Conns,
           upload[c] # None, AbortUpload(c), UNCHANGED <<snapshots, home, rootTrash>>,
           \A d \in Conns \ {c} : session'[d] = session[d] /\ job'[d] = job[d],
           job'[c].step = "idle", session'[c].state # "kUploadInProgress"
    PROVE  FilesInv'
<1>. USE DEF FilesInv
<1>1. RowsShrink /\ FilesStay /\ OthersWait(c)
  BY AbortFields DEF RowsShrink, FilesStay, Rows, OthersWait
<1>2. GoesOn(c) /\ KeepsDir(c)
  BY AbortFields DEF GoesOn, KeepsDir, BeginSteps, DeleteSteps, TrashSteps,
     HomeSteps
<1>3. QuietIds /\ QuietDirs
  BY <1>1, <1>2, OthersGoOn DEF QuietIds, QuietDirs
<1>4. BytesSafe
  <2>1. \A s \in Rows : s # upload[c].id /\ s \in SnapshotIds
    BY DEF IdsInv, Rows
  <2>2. \A d \in Conns \ {c} : job[d].step = "insert" =>
          /\ upload[d] # None /\ upload[d].id # upload[c].id
          /\ upload[d].id \in SnapshotIds
    <3>1. \A d \in Conns : job[d].step = "insert" => upload[d] \in Upload
      BY DEF ServerInv, HandlersInStep, HandlerInStep, ServerTypeOK
    <3>. QED
      BY <3>1 DEF IdsInv, Upload
  <2>3. \A d \in Conns : job'[d].step = "insert" => d # c
    OBVIOUS
  <2>4. \A s \in Rows' : s \in Rows /\ blob'[s] = blob[s]
    BY <1>1, <2>1, AbortFields DEF RowsShrink
  <2>. QED
    BY <1>1, <2>2, <2>3, <2>4, AbortFields DEF BytesSafe, Whole, OthersWait
<1>5. UploadInv(c)'
  BY AbortFields DEF UploadInv, UploadSteps
<1>. QED
  BY <1>1, <1>3, <1>4, <1>5, OthersUpload, QuietKeepsIds, QuietRefers,
     QuietKeepsDirs, QuietKeepsOwners, SafeKeepsBytes DEF QuietDirs

-----------------------------------------------------------------------------
(* Sessions and downloads *)

(***************************************************************************)
(* Sessions: only Disconnect, with the upload it aborts, touches a file.   *)
(***************************************************************************)
LEMMA SessionStepFiles ==
    ASSUME ServerInv, ServerInv', SessionsInv, FilesInv, AccountsGrow,
           NEW c \in Conns, SessionStep(c)
    PROVE  FilesInv'
<1>. USE DEF FilesInv, diskVars
<1>0. /\ UploadInv(c) /\ HandlerInStep(c)
      /\ session \in [Conns -> Sessions] /\ upload \in [Conns -> Upload \cup {None}]
  BY DEF UploadsInv, ServerInv, HandlersInStep, ServerTypeOK, Sessions
<1>1. CASE Disconnect(c)
  <2>1. /\ \A d \in Conns \ {c} : session'[d] = session[d]
        /\ session'[c].state = "closed" /\ job' = job /\ job[c].step = "idle"
        /\ UNCHANGED <<snapshots, home, rootTrash>>
    BY <1>0, <1>1 DEF Disconnect, storeVars
  <2>2. CASE upload[c] # None
    BY <1>1, <2>1, <2>2, AbortKeeps DEF Disconnect
  <2>3. CASE upload[c] = None
    <3>1. UNCHANGED <<upload, blob>>
      BY <1>1, <2>3 DEF Disconnect
    <3>2. GoesOn(c) /\ KeepsDir(c) /\ OthersWait(c)
      BY <2>1, <2>3, <3>1 DEF GoesOn, KeepsDir, OthersWait, BeginSteps, DeleteSteps,
                              TrashSteps, HomeSteps
    <3>3. UploadInv(c)'
      BY <2>1, <2>3, <3>1 DEF UploadInv, UploadSteps
    <3>. QED
      BY <2>1, <3>1, <3>2, <3>3, StillKeeps
  <2>. QED
    BY <2>2, <2>3
<1>2. CASE ~Disconnect(c)
  <2>1. /\ UNCHANGED <<snapshots, home, rootTrash, blob, upload, job>>
        /\ job[c].step = "idle"
        /\ \A d \in Conns \ {c} : session'[d] = session[d]
        /\ session'[c].state # "kUploadInProgress"
        /\ session[c].state = "kUploadInProgress" =>
             session[c].user \notin LiveUsers
    <3>1. CASE Connect(c) \/ Logout(c) \/ RejectIfAccountMissing(c)
      <4>1. /\ ToConnected(c) /\ UNCHANGED <<storeVars, diskVars, upload, job>>
            /\ job[c].step = "idle"
        BY <1>0, <3>1 DEF Connect, Logout, RejectIfAccountMissing, Waits,
                          HandlerInStep
      <4>2. session[c].state = "kUploadInProgress" =>
              session[c].user \notin LiveUsers
        BY <3>1 DEF Connect, Logout, RejectIfAccountMissing, Waits, AccountLives
      <4>. QED
        BY <4>1, <4>2, SessionFields DEF storeVars
    <3>2. CASE \E name \in Names : Register(c, name)
      BY <3>2 DEF Register, connVars, CreateUser, Waits
    <3>3. CASE \E name \in Names : Login(c, name)
      BY <1>0, <3>3 DEF Login, storeVars, Waits
    <3>4. CASE \E u \in UserIds : Resume(c, u)
      BY <1>0, <3>4 DEF Resume, storeVars, Waits
    <3>. QED
      BY <1>2, <3>1, <3>2, <3>3, <3>4, SessionStep(c) DEF SessionStep
  <2>2. GoesOn(c) /\ KeepsDir(c) /\ OthersWait(c)
    BY <2>1 DEF GoesOn, KeepsDir, OthersWait, BeginSteps, DeleteSteps, TrashSteps,
                HomeSteps
  <2>3. UploadInv(c)'
    <3>1. upload[c] # None => upload[c].user \in deletedUsers
      <4>1. CASE session[c].state = "kUploadInProgress"
        <5>1. /\ upload[c].user = session[c].user
              /\ session[c].user \notin LiveUsers
          BY <1>0, <2>1, <4>1 DEF UploadInv
        <5>2. upload[c] # None => session[c].user \in UserIds
          BY <1>0, <5>1 DEF Upload
        <5>. QED
          BY <5>1, <5>2 DEF SessionsInv, Allocated
      <4>2. CASE session[c].state # "kUploadInProgress"
        BY <1>0, <4>2 DEF UploadInv
      <4>. QED
        BY <4>1, <4>2
    <3>. QED
      BY <2>1, <3>1 DEF UploadInv, UploadSteps, AccountsGrow
  <2>. QED
    BY <2>1, <2>2, <2>3, StillKeeps
<1>. QED
  BY <1>1, <1>2

(***************************************************************************)
(* Downloads read.                                                         *)
(***************************************************************************)
LEMMA DownloadStepFiles ==
    ASSUME ServerInv, ServerInv', SessionsInv, FilesInv, AccountsGrow,
           NEW c \in Conns, DownloadStep(c)
    PROVE  FilesInv'
<1>. USE DEF FilesInv, diskVars, States, Steps
<1>0. UploadInv(c)
  BY DEF UploadsInv
<1>1. /\ UNCHANGED <<snapshots, home, rootTrash, blob, upload>>
      /\ \A d \in Conns \ {c} : session'[d] = session[d] /\ job'[d] = job[d]
      /\ session'[c].state # "kUploadInProgress"
      /\ job'[c].step \in {"idle", "openBlob"}
      /\ job'[c].step = "openBlob" => session'[c].state = "kAuthenticated"
      /\ session[c].state # "kUploadInProgress"
  <2>1. CASE \E s \in SnapshotIds : DownloadBegin(c, s)
    BY <2>1, JobFields DEF DownloadBegin, storeVars, Waits
  <2>2. CASE OpenBlob(c)
    <3>1. session[c].state = "kAuthenticated"
      BY <1>0, <2>2 DEF OpenBlob, UploadInv, UploadSteps
    <3>. QED
      BY <2>2, <3>1, JobFields, SessionFields DEF OpenBlob, storeVars
  <2>3. CASE DownloadEnd(c)
    BY <2>3, SessionFields DEF DownloadEnd, storeVars, Waits
  <2>. QED
    BY <2>1, <2>2, <2>3, DownloadStep(c) DEF DownloadStep
<1>2. GoesOn(c) /\ KeepsDir(c) /\ OthersWait(c)
  BY <1>1 DEF GoesOn, KeepsDir, OthersWait, BeginSteps, DeleteSteps, TrashSteps, HomeSteps
<1>3. UploadInv(c)'
  BY <1>0, <1>1 DEF UploadInv, UploadSteps, AccountsGrow
<1>. QED
  BY <1>1, <1>2, <1>3, StillKeeps

-----------------------------------------------------------------------------
(* Uploads *)

(***************************************************************************)
(* The id that is drawn is used for nothing else.                          *)
(***************************************************************************)
LEMMA UploadBeginFiles ==
    ASSUME ServerInv, ServerInv', SessionsInv, FilesInv, AccountsGrow,
           NEW c \in Conns, UploadBegin(c)
    PROVE  FilesInv'
<1>. USE DEF FilesInv, diskVars
<1>1. PICK offer \in {FullOffer(l) : l \in Lineages}
                       \cup {IncrementalOffer(p) : p \in RowsOf(session[c].user)},
           s \in FreshSnapshotIds :
          Begin(c, "ensureDir", s, offer)
  BY DEF UploadBegin
<1>2. /\ UNCHANGED <<snapshots, home, rootTrash, blob, upload, session>>
      /\ job[c].step = "idle" /\ session[c].state = "kAuthenticated"
      /\ Rows' = Rows
  BY DEF UploadBegin, storeVars, Waits, Rows
<1>3. /\ job'[c].step = "ensureDir" /\ job'[c].on = s
      /\ \A d \in Conns \ {c} : job'[d] = job[d]
  BY <1>1, JobFields
<1>4. /\ s \notin Rows
      /\ \A d \in Conns : job[d].on # s /\ (upload[d] # None => upload[d].id # s)
  BY <1>1 DEF FreshSnapshotIds
<1>5. IdsInv'
  BY <1>2, <1>3, <1>4 DEF IdsInv, BeginSteps, DeleteSteps, TrashSteps
<1>6. NoNewReference
  <2>1. \A d \in Conns : job'[d].step \in DeleteSteps =>
          d # c /\ job'[d] = job[d]
    BY <1>3 DEF DeleteSteps, TrashSteps
  <2>. QED
    BY <1>2, <2>1 DEF NoNewReference, Refers, RowsOf
<1>7. KeepsDir(c) /\ OthersWait(c) /\ UploadInv(c)'
  BY <1>2, <1>3 DEF KeepsDir, OthersWait, HomeSteps, UploadInv, UploadsInv,
     UploadSteps, AccountsGrow
<1>. QED
  BY <1>2, <1>3, <1>5, <1>6, <1>7, StillButIds

(***************************************************************************)
(* A directory nobody has becomes the one of the session's account.        *)
(***************************************************************************)
LEMMA EnsureUserDirectoryFiles ==
    ASSUME ServerInv, ServerInv', SessionsInv, FilesInv, AccountsGrow,
           NEW c \in Conns, EnsureUserDirectory(c)
    PROVE  FilesInv'
<1>. USE DEF FilesInv
<1>. DEFINE user == session[c].user
<1>0. /\ home \in [UserIds -> Dirs \cup {None}] /\ user \in UserIds
      /\ blob \in [SnapshotIds -> Blob \cup {None}]
  BY DEF ServerInv, ServerTypeOK, HandlersInStep, HandlerInStep,
         EnsureUserDirectory
<1>1. PICK d \in IF home[user] # None THEN {home[user]} ELSE FreeDirs :
        home' = [home EXCEPT ![user] = d]
  BY DEF EnsureUserDirectory
<1>2. /\ UNCHANGED <<snapshots, session, upload, rootTrash, blob>>
      /\ Rows' = Rows /\ job[c].step = "ensureDir"
      /\ job'[c].step = "openTemp" /\ job'[c].on = job[c].on
      /\ \A e \in Conns \ {c} : job'[e] = job[e]
  BY JobFields DEF EnsureUserDirectory, storeVars, Steps, Rows
<1>3. GoesOn(c) /\ KeepsDir(c) /\ OthersWait(c) /\ RowsShrink
  BY <1>2 DEF GoesOn, KeepsDir, OthersWait, BeginSteps, DeleteSteps, TrashSteps,
              HomeSteps, RowsShrink
<1>4. QuietIds /\ NoNewReference /\ IdsInv'
  BY <1>3, OthersGoOn, QuietKeepsIds, QuietRefers DEF QuietIds
<1>5. UploadsInv'
  <2>1. UploadInv(c)'
    BY <1>2 DEF UploadInv, UploadsInv, UploadSteps, AccountsGrow
  <2>. QED
    BY <1>3, <2>1, OthersUpload
<1>6. BytesInv'
  <2>1. BytesSafe
    BY <1>2 DEF BytesSafe, Whole
  <2>. QED
    BY <2>1, SafeKeepsBytes
<1>7. CASE home[user] # None
  <2>1. home' = home
    BY <1>0, <1>1, <1>7
  <2>2. QuietDirs
    BY <1>2, <1>3, <2>1, OthersGoOn DEF QuietDirs, FilesStay
  <2>. QED
    BY <1>4, <1>5, <1>6, <2>2, QuietKeepsDirs, QuietKeepsOwners DEF QuietDirs
<1>8. CASE home[user] = None
  <2>1. /\ d \in Dirs /\ d # None /\ d \notin rootTrash
        /\ \A v \in UserIds : home[v] # d
        /\ home'[user] = d
        /\ \A v \in UserIds \ {user} : home'[v] = home[v]
    BY <1>0, <1>1, <1>8 DEF FreeDirs
  <2>2. \A s \in SnapshotIds : blob[s] # None => blob[s].dir # d
    BY <2>1 DEF DirsInv
  <2>3. \A e \in Conns : job'[e].step \in HomeSteps => job'[e] = job[e]
    BY <1>2 DEF HomeSteps
  <2>4. DirsInv'
    <3>1. \A u, v \in UserIds : home'[u] # None /\ home'[u] = home'[v] => u = v
      BY <2>1 DEF DirsInv
    <3>2. \A u \in UserIds : home'[u] \notin rootTrash'
      BY <1>2, <2>1 DEF DirsInv
    <3>3. \A u \in UserIds : home'[u] # None => u \in Allocated'
      BY <2>1 DEF DirsInv, AccountsGrow, SessionsInv
    <3>4. \A e \in Conns : job'[e].step \in HomeSteps /\ job'[e].dir # None
                             => job'[e].dir \in rootTrash'
      BY <1>2, <2>3 DEF DirsInv
    <3>5. \A e, f \in Conns :
            /\ job'[e].step \in HomeSteps /\ job'[f].step \in HomeSteps
            /\ job'[e].dir = job'[f].dir /\ job'[e].dir # None
            => e = f
      BY <2>3 DEF DirsInv
    <3>6. \A s \in SnapshotIds :
            blob'[s] # None => \/ blob'[s].dir \in rootTrash'
                               \/ \E u \in UserIds : home'[u] = blob'[s].dir
      <4>1. \A s \in SnapshotIds : blob[s] # None => blob[s].dir # None
        BY <1>0 DEF Blob
      <4>2. \A u \in UserIds : home[u] # None => home'[u] = home[u]
        BY <1>8, <2>1
      <4>. QED
        BY <1>2, <4>1, <4>2 DEF DirsInv
    <3>. QED
      BY <3>1, <3>2, <3>3, <3>4, <3>5, <3>6 DEF DirsInv, HomeSteps
  <2>5. OwnersInv'
    <3>. SUFFICES ASSUME NEW s \in SnapshotIds, NEW u \in UserIds,
                         Refers(s, u)', blob'[s] # None
                  PROVE  /\ \A v \in UserIds : home'[v] = blob'[s].dir => v = u
                         /\ \A e \in Conns :
                              job'[e].step \in {"deleteUser", "restoreHome"}
                                /\ job'[e].dir = blob'[s].dir
                              => session'[e].user = u
                         /\ \A e \in Conns :
                              job'[e].step = "purgeHome"
                                /\ job'[e].dir = blob'[s].dir
                              => u \in deletedUsers'
      BY DEF OwnersInv
    <3>1. Refers(s, u) /\ blob[s] # None /\ blob'[s] = blob[s]
      BY <1>2, <1>4 DEF NoNewReference
    <3>2. /\ \A v \in UserIds : home[v] = blob[s].dir => v = u
          /\ \A e \in Conns :
               job[e].step \in {"deleteUser", "restoreHome"}
                 /\ job[e].dir = blob[s].dir => session[e].user = u
          /\ \A e \in Conns :
               job[e].step = "purgeHome" /\ job[e].dir = blob[s].dir
                 => u \in deletedUsers
      BY <3>1 DEF OwnersInv
    <3>. QED
      BY <1>2, <2>1, <2>2, <2>3, <3>1, <3>2 DEF AccountsGrow, HomeSteps
  <2>. QED
    BY <1>4, <1>5, <1>6, <2>4, <2>5
<1>. QED
  BY <1>7, <1>8

(***************************************************************************)
(* The temp file is created under an id that nothing refers to, in the     *)
(* directory its account has now.                                          *)
(***************************************************************************)
LEMMA OpenTempFiles ==
    ASSUME ServerInv, ServerInv', SessionsInv, FilesInv, AccountsGrow,
           NEW c \in Conns, OpenTemp(c)
    PROVE  FilesInv'
<1>. USE DEF FilesInv
<1>. DEFINE user == session[c].user
            s == job[c].on
<1>0. /\ home \in [UserIds -> Dirs \cup {None}] /\ user \in UserIds
      /\ blob \in [SnapshotIds -> Blob \cup {None}]
      /\ upload \in [Conns -> Upload \cup {None}]
      /\ s \in SnapshotIds /\ home[user] # None /\ job[c].step = "openTemp"
      /\ job[c].step \in BeginSteps
      /\ job[c] \in Job /\ job[c].offer \in Offer
  BY DEF ServerInv, ServerTypeOK, HandlersInStep, HandlerInStep, OpenTemp, Job,
         BeginSteps
<1>1. /\ UNCHANGED <<snapshots, home, rootTrash>> /\ Rows' = Rows
      /\ \A e \in Conns \ {c} : job'[e] = job[e] /\ session'[e] = session[e]
      /\ job'[c].step = "idle" /\ session'[c].state = "kUploadInProgress"
      /\ session'[c].user = user
  BY JobFields, SessionFields DEF OpenTemp, storeVars, Rows, States
<1>2. /\ upload'[c] # None /\ upload'[c].id = s /\ upload'[c].user = user
      /\ \A e \in Conns \ {c} : upload'[e] = upload[e]
  <2>. DEFINE up == [id |-> s, user |-> user, offer |-> job[c].offer,
                     content |-> "partial"]
  <2>1. up \in Upload
    BY <1>0 DEF Upload, Contents
  <2>2. upload' = [upload EXCEPT ![c] = up] /\ up.id = s /\ up.user = user
    BY DEF OpenTemp
  <2>. HIDE DEF up
  <2>. QED
    BY <1>0, <2>1, <2>2
<1>3. /\ blob'[s] # None /\ blob'[s].dir = home[user]
      /\ \A q \in SnapshotIds \ {s} : blob'[q] = blob[q]
  <2>. DEFINE file == [dir |-> home[user], at |-> "tmp", whole |-> FALSE]
  <2>1. file \in Blob
    BY <1>0 DEF Blob
  <2>2. blob' = [blob EXCEPT ![s] = file] /\ file.dir = home[user]
    BY DEF OpenTemp
  <2>. HIDE DEF file
  <2>. QED
    BY <1>0, <2>1, <2>2
<1>4. /\ s \notin Rows
      /\ \A e \in Conns : upload[e] # None => upload[e].id # s
      /\ \A e \in Conns \ {c} : job[e].step \in BeginSteps => job[e].on # s
      /\ \A e \in Conns : job[e].step \in DeleteSteps => job[e].on # s
  BY <1>0 DEF IdsInv
<1>5. \A e \in Conns : job'[e].step \in BeginSteps \cup DeleteSteps \cup HomeSteps
                                         \cup UploadSteps
                         => e # c /\ job'[e] = job[e] /\ session'[e] = session[e]
                                  /\ upload'[e] = upload[e]
  BY <1>1, <1>2 DEF BeginSteps, DeleteSteps, TrashSteps, HomeSteps, UploadSteps
<1>6. IdsInv'
  <2>1. \A e \in Conns : upload'[e] # None => upload'[e].id \notin Rows'
    BY <1>1, <1>2, <1>4 DEF IdsInv
  <2>2. \A e, f \in Conns : upload'[e] # None /\ upload'[f] # None
                              /\ upload'[e].id = upload'[f].id => e = f
    BY <1>2, <1>4 DEF IdsInv
  <2>3. \A e, f \in Conns : job'[e].step \in BeginSteps /\ upload'[f] # None
                              => upload'[f].id # job'[e].on
    BY <1>2, <1>4, <1>5 DEF IdsInv
  <2>4. \A e, f \in Conns : job'[e].step \in DeleteSteps /\ upload'[f] # None
                              => upload'[f].id # job'[e].on
    BY <1>2, <1>4, <1>5 DEF IdsInv
  <2>5. /\ \A e \in Conns : job'[e].step \in BeginSteps => job'[e].on \notin Rows'
        /\ \A e, f \in Conns :
             job'[e].step \in BeginSteps /\ job'[f].step \in BeginSteps
               /\ job'[e].on = job'[f].on => e = f
        /\ \A e, f \in Conns :
             job'[e].step \in DeleteSteps /\ job'[f].step \in BeginSteps
               => job'[f].on # job'[e].on
    BY <1>1, <1>5 DEF IdsInv
  <2>6. \A e \in Conns : job'[e].step \in DeleteSteps /\ job'[e].on \in Rows'
                           => snapshots'[job'[e].on].user = session'[e].user
    BY <1>1, <1>5 DEF IdsInv
  <2>7. \A e \in Conns : job'[e].step = "purgeBlob" => job'[e].on \notin Rows'
    BY <1>1 DEF IdsInv
  <2>. QED
    BY <2>1, <2>2, <2>3, <2>4, <2>5, <2>6, <2>7
       DEF IdsInv, BeginSteps, DeleteSteps, TrashSteps
<1>7. UploadsInv'
  <2>1. UploadInv(c)'
    BY <1>1, <1>2 DEF UploadInv, UploadSteps
  <2>. QED
    BY <1>1, <1>2, <2>1, OthersUpload DEF OthersWait
<1>8. DirsInv'
  <2>1. \A q \in SnapshotIds :
          blob'[q] # None => \/ blob'[q].dir \in rootTrash'
                             \/ \E u \in UserIds : home'[u] = blob'[q].dir
    BY <1>0, <1>1, <1>3 DEF DirsInv
  <2>. QED
    BY <1>1, <1>5, <2>1 DEF DirsInv, AccountsGrow, HomeSteps
<1>9. OwnersInv'
  <2>. SUFFICES ASSUME NEW q \in SnapshotIds, NEW u \in UserIds,
                       Refers(q, u)', blob'[q] # None
                PROVE  /\ \A v \in UserIds : home'[v] = blob'[q].dir => v = u
                       /\ \A e \in Conns :
                            job'[e].step \in {"deleteUser", "restoreHome"}
                              /\ job'[e].dir = blob'[q].dir
                            => session'[e].user = u
                       /\ \A e \in Conns :
                            job'[e].step = "purgeHome"
                              /\ job'[e].dir = blob'[q].dir
                            => u \in deletedUsers'
    BY DEF OwnersInv
  <2>1. CASE q = s
    <3>1. u = user
      <4>1. ~(s \in RowsOf(u)')
        BY <1>1, <1>4 DEF RowsOf
      <4>2. \A e \in Conns : job'[e].step \in DeleteSteps => job'[e].on # s
        BY <1>4, <1>5
      <4>3. \A e \in Conns : upload'[e] # None /\ upload'[e].id = s => e = c
        BY <1>2, <1>4
      <4>. QED
        BY <1>2, <2>1, <4>1, <4>2, <4>3 DEF Refers, DeleteSteps, TrashSteps
    <3>2. \A e \in Conns : job'[e].step \in HomeSteps => job'[e].dir # home[user]
      BY <1>0, <1>5 DEF DirsInv
    <3>. QED
      BY <1>0, <1>1, <1>3, <2>1, <3>1, <3>2 DEF DirsInv, HomeSteps
  <2>2. CASE q # s
    <3>1. blob'[q] = blob[q]
      BY <1>3, <2>2
    <3>2. Refers(q, u)
      <4>1. CASE q \in RowsOf(u)'
        BY <1>1, <4>1 DEF Refers, RowsOf
      <4>2. CASE \E e \in Conns : upload'[e] # None /\ upload'[e].id = q
                                  /\ upload'[e].user = u
        BY <1>2, <2>2, <4>2 DEF Refers
      <4>3. CASE \E e \in Conns : job'[e].step \in DeleteSteps
                                  /\ job'[e].on = q /\ session'[e].user = u
        BY <1>5, <4>3 DEF Refers
      <4>. QED
        BY <4>1, <4>2, <4>3 DEF Refers, DeleteSteps, TrashSteps
    <3>3. /\ \A v \in UserIds : home[v] = blob[q].dir => v = u
          /\ \A e \in Conns :
               job[e].step \in {"deleteUser", "restoreHome"}
                 /\ job[e].dir = blob[q].dir => session[e].user = u
          /\ \A e \in Conns :
               job[e].step = "purgeHome" /\ job[e].dir = blob[q].dir
                 => u \in deletedUsers
      BY <3>1, <3>2 DEF OwnersInv
    <3>. QED
      BY <1>1, <1>5, <3>1, <3>3 DEF AccountsGrow, HomeSteps
  <2>. QED
    BY <2>1, <2>2
<1>10. BytesInv'
  <2>1. \A e \in Conns : job[e].step = "insert" =>
          /\ upload[e] # None /\ upload[e].id # s /\ upload[e].id \in SnapshotIds
    <3>1. \A e \in Conns : job[e].step = "insert" => upload[e] \in Upload
      BY DEF ServerInv, HandlersInStep, HandlerInStep, ServerTypeOK
    <3>. QED
      BY <1>4, <3>1 DEF Upload
  <2>2. \A q \in Rows' : q \in Rows /\ blob'[q] = blob[q]
    BY <1>1, <1>3, <1>4 DEF Rows
  <2>3. \A e \in Conns : job'[e].step = "insert" =>
          /\ job[e].step = "insert" /\ upload'[e] = upload[e]
          /\ session'[e].user = session[e].user
          /\ blob'[upload[e].id] = blob[upload[e].id]
    BY <1>3, <1>5, <2>1 DEF UploadSteps
  <2>4. BytesSafe
    BY <2>2, <2>3 DEF BytesSafe, Whole
  <2>. QED
    BY <2>4, SafeKeepsBytes
<1>. QED
  BY <1>6, <1>7, <1>8, <1>9, <1>10

(***************************************************************************)
(* The row that is to be, from here on, has a complete file.               *)
(***************************************************************************)
LEMMA PublishFiles ==
    ASSUME ServerInv, ServerInv', SessionsInv, FilesInv, AccountsGrow,
           NEW c \in Conns, Publish(c)
    PROVE  FilesInv'
<1>. USE DEF FilesInv
<1>. DEFINE s == upload[c].id
<1>0. /\ upload[c] \in Upload /\ s \in SnapshotIds
      /\ blob \in [SnapshotIds -> Blob \cup {None}]
      /\ blob[s] \in Blob /\ upload[c].content = "whole"
  BY DEF ServerInv, ServerTypeOK, HandlersInStep, HandlerInStep, Publish,
         LiesAt, Upload, UploadsInv, UploadInv
<1>1. /\ UNCHANGED <<snapshots, session, upload, home, rootTrash>>
      /\ Rows' = Rows /\ job[c].step = "publish" /\ job'[c].step = "insert"
      /\ \A e \in Conns \ {c} : job'[e] = job[e]
  BY JobFields DEF Publish, storeVars, Steps, Rows
<1>2. /\ blob'[s] # None /\ blob'[s].whole /\ blob'[s].dir = blob[s].dir
      /\ \A q \in SnapshotIds \ {s} : blob'[q] = blob[q]
  <2>. DEFINE file == [blob[s] EXCEPT !.at = "final",
                                      !.whole = (upload[c].content = "whole")]
  <2>1. file \in Blob
    BY <1>0, BlobFields
  <2>2. file.whole /\ file.dir = blob[s].dir
    BY <1>0 DEF Blob
  <2>3. blob' = [blob EXCEPT ![s] = file]
    BY DEF Publish
  <2>. HIDE DEF file
  <2>. QED
    BY <1>0, <2>1, <2>2, <2>3
<1>3. GoesOn(c) /\ KeepsDir(c) /\ OthersWait(c) /\ RowsShrink /\ FilesStay
  BY <1>0, <1>1, <1>2 DEF GoesOn, KeepsDir, OthersWait, BeginSteps, DeleteSteps,
     TrashSteps, HomeSteps, RowsShrink, FilesStay
<1>4. QuietIds /\ QuietDirs /\ NoNewReference /\ IdsInv' /\ DirsInv' /\ OwnersInv'
  BY <1>1, <1>3, OthersGoOn, QuietKeepsIds, QuietRefers, QuietKeepsDirs,
     QuietKeepsOwners DEF QuietIds, QuietDirs
<1>5. UploadsInv'
  <2>1. UploadInv(c)'
    BY <1>1 DEF UploadInv, UploadsInv, UploadSteps, AccountsGrow
  <2>. QED
    BY <1>3, <2>1, OthersUpload
<1>6. BytesInv'
  <2>1. RowsKeepTheirBytes'
    <3>1. \A q \in Rows : q # s /\ q \in SnapshotIds
      BY DEF IdsInv, Rows, ServerInv, HandlersInStep, HandlerInStep, Publish
    <3>. QED
      BY <1>1, <1>2, <3>1 DEF RowsKeepTheirBytes, BytesInv
  <2>2. ASSUME NEW e \in Conns, job'[e].step = "insert"
        PROVE  Whole(upload[e].id)' \/ session'[e].user \in deletedUsers'
    <3>1. CASE e = c
      BY <1>1, <1>2, <3>1 DEF Whole
    <3>2. CASE e # c
      <4>1. job[e].step = "insert" /\ upload[e] \in Upload
        BY <1>1, <2>2, <3>2 DEF ServerInv, HandlersInStep, HandlerInStep,
                                ServerTypeOK
      <4>2. upload[e].id # s /\ upload[e].id \in SnapshotIds
        BY <1>0, <3>2, <4>1 DEF IdsInv, Upload
      <4>. QED
        BY <1>1, <1>2, <4>1, <4>2 DEF BytesInv, Whole, AccountsGrow
    <3>. QED
      BY <3>1, <3>2
  <2>. QED
    BY <2>1, <2>2 DEF BytesInv
<1>. QED
  BY <1>4, <1>5, <1>6

(***************************************************************************)
(* The row gets the id of the upload, which nothing else uses, and its     *)
(* account lives, so no deletion can have taken the file.                  *)
(***************************************************************************)
LEMMA InsertRowFiles ==
    ASSUME ServerInv, ServerInv', SessionsInv, FilesInv, AccountsGrow,
           NEW c \in Conns, InsertRow(c)
    PROVE  FilesInv'
<1>. USE DEF FilesInv
<1>. DEFINE s == upload[c].id
            row == RowOf(c)
<1>0. /\ upload[c] \in Upload /\ s \in SnapshotIds
      /\ upload \in [Conns -> Upload \cup {None}]
      /\ upload[c] # None /\ job[c].step = "insert"
      /\ session[c].user = upload[c].user
      /\ snapshots \in [SnapshotIds -> Row \cup {NoRow}]
  BY DEF ServerInv, ServerTypeOK, HandlersInStep, HandlerInStep, InsertRow,
         Upload, UploadsInv, UploadInv, UploadSteps, StoreTypeOK
<1>1. /\ row.user = session[c].user /\ row.user \in LiveUsers
      /\ snapshots' = [snapshots EXCEPT ![s] = row]
      /\ UNCHANGED <<username, deletedUsers, home, rootTrash, blob>>
  <2>1. InsertSnapshot(s, row) /\ row.user = session[c].user
        /\ UNCHANGED <<home, rootTrash, blob>>
    BY DEF InsertRow, RowOf, diskVars
  <2>. HIDE DEF row
  <2>2. row.user \in LiveUsers
    BY <2>1 DEF InsertSnapshot, InsertSnapshotResult, Constraint
  <2>. QED
    BY <2>1, <2>2 DEF InsertSnapshot
<1>2. /\ \A q \in Rows' : q = s \/ (q \in Rows /\ snapshots'[q] = snapshots[q])
      /\ snapshots'[s].user = session[c].user
  BY <1>0, <1>1 DEF Rows
<1>3. /\ \A e \in Conns \ {c} : /\ job'[e] = job[e] /\ session'[e] = session[e]
                               /\ upload'[e] = upload[e]
      /\ upload'[c] = None /\ job'[c].step = "idle"
      /\ session'[c].state = "kAuthenticated"
  BY <1>0, JobFields, SessionFields DEF InsertRow, ResetUpload, States
<1>4. /\ \A e \in Conns \ {c} : upload[e] # None => upload[e].id # s
      /\ \A e \in Conns : job[e].step \in BeginSteps \cup DeleteSteps
                            => job[e].on # s
  BY <1>0 DEF IdsInv
<1>5. \A e \in Conns : job'[e].step \in BeginSteps \cup DeleteSteps \cup HomeSteps
                                         \cup UploadSteps
                         => e # c /\ job'[e] = job[e] /\ session'[e] = session[e]
                                  /\ upload'[e] = upload[e]
  BY <1>3 DEF BeginSteps, DeleteSteps, TrashSteps, HomeSteps, UploadSteps
<1>6. IdsInv'
  <2>1. \A e \in Conns : upload'[e] # None => upload'[e].id \notin Rows'
    BY <1>2, <1>3, <1>4 DEF IdsInv
  <2>2. \A e, f \in Conns : upload'[e] # None /\ upload'[f] # None
                              /\ upload'[e].id = upload'[f].id => e = f
    BY <1>3 DEF IdsInv
  <2>3. \A e \in Conns : job'[e].step \in BeginSteps => job'[e].on \notin Rows'
    BY <1>2, <1>4, <1>5 DEF IdsInv
  <2>4. \A e, f \in Conns :
          job'[e].step \in BeginSteps \cup DeleteSteps /\ upload'[f] # None
            => upload'[f].id # job'[e].on
    BY <1>3, <1>5 DEF IdsInv
  <2>5. /\ \A e, f \in Conns :
             job'[e].step \in BeginSteps /\ job'[f].step \in BeginSteps
               /\ job'[e].on = job'[f].on => e = f
        /\ \A e, f \in Conns :
             job'[e].step \in DeleteSteps /\ job'[f].step \in BeginSteps
               => job'[f].on # job'[e].on
    BY <1>5 DEF IdsInv
  <2>6. \A e \in Conns : job'[e].step \in DeleteSteps /\ job'[e].on \in Rows'
                           => snapshots'[job'[e].on].user = session'[e].user
    BY <1>2, <1>4, <1>5 DEF IdsInv
  <2>7. \A e \in Conns : job'[e].step = "purgeBlob" => job'[e].on \notin Rows'
    BY <1>2, <1>4, <1>5 DEF IdsInv, DeleteSteps, TrashSteps
  <2>. QED
    BY <2>1, <2>2, <2>3, <2>4, <2>5, <2>6, <2>7
       DEF IdsInv, BeginSteps, DeleteSteps, TrashSteps
<1>7. NoNewReference
  <2>. SUFFICES ASSUME NEW q \in SnapshotIds, NEW u \in UserIds, Refers(q, u)'
                PROVE  Refers(q, u)
    BY DEF NoNewReference
  <2>1. CASE q \in RowsOf(u)'
    <3>1. CASE q = s
      <4>1. upload[c].id = q /\ upload[c].user = u
        BY <1>0, <1>2, <2>1, <3>1 DEF RowsOf
      <4>. QED
        BY <1>0, <4>1 DEF Refers
    <3>2. CASE q # s
      BY <1>2, <2>1, <3>2 DEF RowsOf, Refers
    <3>. QED
      BY <3>1, <3>2
  <2>2. CASE \E e \in Conns : upload'[e] # None /\ upload'[e].id = q
                              /\ upload'[e].user = u
    BY <1>3, <2>2 DEF Refers
  <2>3. CASE \E e \in Conns : job'[e].step \in DeleteSteps
                              /\ job'[e].on = q /\ session'[e].user = u
    BY <1>5, <2>3 DEF Refers
  <2>. QED
    BY <2>1, <2>2, <2>3 DEF Refers, DeleteSteps, TrashSteps
<1>8. QuietDirs
  <2>1. \A e \in Conns : KeepsDir(e)
    BY <1>5 DEF KeepsDir, HomeSteps
  <2>. QED
    BY <1>1, <2>1 DEF QuietDirs, FilesStay
<1>9. UploadsInv'
  <2>1. UploadInv(c)'
    BY <1>3 DEF UploadInv, UploadSteps
  <2>. QED
    BY <1>3, <2>1, OthersUpload DEF OthersWait
<1>10. BytesInv'
  <2>1. Whole(s)
    BY <1>0, <1>1 DEF BytesInv, AccountsGrow
  <2>2. RowsKeepTheirBytes'
    BY <1>1, <1>2, <2>1 DEF RowsKeepTheirBytes, BytesInv, Whole
  <2>3. \A e \in Conns : job'[e].step = "insert" =>
          Whole(upload[e].id)' \/ session'[e].user \in deletedUsers'
    BY <1>1, <1>5 DEF BytesInv, Whole, UploadSteps
  <2>. QED
    BY <2>2, <2>3 DEF BytesInv
<1>. QED
  BY <1>6, <1>7, <1>8, <1>9, <1>10, QuietKeepsDirs, QuietKeepsOwners DEF QuietDirs

(***************************************************************************)
(* The file of a row that was refused goes, and no other.                  *)
(***************************************************************************)
LEMMA UnpublishFiles ==
    ASSUME ServerInv, ServerInv', SessionsInv, FilesInv, AccountsGrow,
           NEW c \in Conns, Unpublish(c)
    PROVE  FilesInv'
<1>. USE DEF FilesInv
<1>. DEFINE s == upload[c].id
<1>0. /\ upload[c] \in Upload /\ s \in SnapshotIds /\ upload[c] # None
      /\ upload \in [Conns -> Upload \cup {None}]
      /\ blob \in [SnapshotIds -> Blob \cup {None}]
  BY DEF ServerInv, ServerTypeOK, HandlersInStep, HandlerInStep, Unpublish,
         Upload
<1>1. /\ UNCHANGED <<snapshots, home, rootTrash>>
      /\ \A e \in Conns \ {c} : /\ job'[e] = job[e] /\ session'[e] = session[e]
                               /\ upload'[e] = upload[e]
      /\ upload'[c] = None /\ job'[c].step = "idle"
      /\ session'[c].state = "kAuthenticated"
  BY <1>0, JobFields, SessionFields DEF Unpublish, ResetUpload, States, storeVars
<1>2. /\ \A q \in SnapshotIds : q # s => blob'[q] = blob[q]
      /\ \A q \in SnapshotIds : blob'[q] = None \/ blob'[q] = blob[q]
  BY <1>0 DEF Unpublish, Unlinked
<1>3. GoesOn(c) /\ KeepsDir(c) /\ OthersWait(c) /\ RowsShrink /\ FilesStay
  BY <1>1, <1>2 DEF GoesOn, KeepsDir, OthersWait, BeginSteps, DeleteSteps,
     TrashSteps, HomeSteps, RowsShrink, FilesStay, Rows
<1>4. QuietIds /\ QuietDirs /\ NoNewReference /\ IdsInv' /\ DirsInv' /\ OwnersInv'
  BY <1>1, <1>3, OthersGoOn, QuietKeepsIds, QuietRefers, QuietKeepsDirs,
     QuietKeepsOwners DEF QuietIds, QuietDirs
<1>5. UploadsInv'
  <2>1. UploadInv(c)'
    BY <1>1 DEF UploadInv, UploadSteps
  <2>. QED
    BY <1>3, <2>1, OthersUpload
<1>6. BytesSafe
  <2>1. \A q \in Rows' : q \in Rows /\ blob'[q] = blob[q]
    BY <1>0, <1>2, <1>3 DEF RowsShrink, IdsInv, Rows
  <2>2. \A e \in Conns \ {c} : job[e].step = "insert" =>
          /\ upload[e] # None /\ upload[e].id # s /\ upload[e].id \in SnapshotIds
    <3>1. \A e \in Conns : job[e].step = "insert" => upload[e] \in Upload
      BY DEF ServerInv, HandlersInStep, HandlerInStep, ServerTypeOK
    <3>. QED
      BY <1>0, <3>1 DEF IdsInv, Upload
  <2>3. \A e \in Conns : job'[e].step = "insert" => e # c
    BY <1>1
  <2>. QED
    BY <1>1, <1>2, <2>1, <2>2, <2>3 DEF BytesSafe, Whole
<1>. QED
  BY <1>4, <1>5, <1>6, SafeKeepsBytes

(***************************************************************************)
(* The other steps of an upload.                                           *)
(***************************************************************************)
LEMMA UploadStepFiles ==
    ASSUME ServerInv, ServerInv', SessionsInv, FilesInv, AccountsGrow,
           NEW c \in Conns, UploadStep(c)
    PROVE  FilesInv'
<1>. USE DEF FilesInv, diskVars, Steps, States
<1>0. /\ UploadInv(c) /\ HandlerInStep(c)
      /\ upload \in [Conns -> Upload \cup {None}]
  BY DEF UploadsInv, ServerInv, HandlersInStep, ServerTypeOK
<1>1. CASE RejectChunk(c) \/ PublishFails(c)
           \/ (UploadEnd(c) /\ ~UploadEndChecks(c))
  <2>1. /\ upload[c] # None /\ AbortUpload(c) /\ SetState(c, "kAuthenticated")
        /\ UNCHANGED <<snapshots, home, rootTrash>>
        /\ job'[c].step = "idle" /\ \A d \in Conns \ {c} : job'[d] = job[d]
    BY <1>0, <1>1, JobFields DEF RejectChunk, PublishFails, UploadEnd,
       HandlerInStep, Waits, storeVars
  <2>. QED
    BY <2>1, AbortKeeps, SessionFields
<1>2. CASE OpenTempFails(c) \/ UploadChunk(c) \/ InsertRowFails(c)
           \/ (UploadEnd(c) /\ UploadEndChecks(c))
  <2>1. /\ UNCHANGED <<snapshots, home, rootTrash, blob, session>>
        /\ job'[c].step \in {"idle", "publish", "unpublish"}
        /\ \A d \in Conns \ {c} : job'[d] = job[d]
        /\ job'[c].step \in {"publish", "unpublish"} =>
             session[c].state = "kUploadInProgress"
    BY <1>0, <1>2, JobFields DEF OpenTempFails, UploadChunk, InsertRowFails,
       UploadEnd, Waits, storeVars, UploadInv, UploadSteps
  <2>2. /\ \A d \in Conns \ {c} : upload'[d] = upload[d]
        /\ upload'[c] # None => /\ upload[c] # None
                                /\ upload'[c].id = upload[c].id
                                /\ upload'[c].user = upload[c].user
        /\ upload'[c] # None <=> upload[c] # None
        /\ job'[c].step = "publish" => upload'[c].content = "whole"
    <3>1. CASE UploadChunk(c)
      <4>0. upload[c] \in Upload
        BY <1>0, <3>1 DEF UploadChunk, HandlerInStep, Waits
      <4>1. PICK content \in {"whole", "corrupt"} :
              upload' = [upload EXCEPT ![c].content = content]
        BY <3>1 DEF UploadChunk
      <4>. DEFINE new == [upload[c] EXCEPT !.content = content]
      <4>2. new \in Upload /\ new.id = upload[c].id /\ new.user = upload[c].user
        BY <4>0, UploadFields DEF Contents, Upload
      <4>3. upload' = [upload EXCEPT ![c] = new]
        BY <4>1
      <4>4. job'[c].step # "publish"
        BY <3>1 DEF UploadChunk, Waits
      <4>. HIDE DEF new
      <4>. QED
        BY <1>0, <4>0, <4>2, <4>3, <4>4
    <3>2. CASE ~UploadChunk(c)
      <4>1. UNCHANGED upload
        BY <1>2, <3>2 DEF OpenTempFails, InsertRowFails, UploadEnd
      <4>2. job'[c].step = "publish" => upload[c].content = "whole"
        BY <1>2, <3>2, JobFields DEF OpenTempFails, InsertRowFails, UploadEnd,
           UploadEndChecks
      <4>. QED
        BY <4>1, <4>2
    <3>. QED
      BY <3>1, <3>2
  <2>3. GoesOn(c) /\ KeepsDir(c) /\ OthersWait(c)
    BY <2>1, <2>2 DEF GoesOn, KeepsDir, OthersWait, BeginSteps, DeleteSteps,
       TrashSteps, HomeSteps
  <2>4. UploadInv(c)'
    <3>1. session[c].state = "kUploadInProgress" => upload[c] # None
      BY <1>0 DEF HandlerInStep
    <3>. QED
      BY <1>0, <2>1, <2>2, <3>1 DEF UploadInv, UploadSteps, AccountsGrow
  <2>. QED
    BY <2>1, <2>3, <2>4, StillKeeps
<1>. QED
  BY <1>1, <1>2, UploadStep(c), UploadBeginFiles, EnsureUserDirectoryFiles,
     OpenTempFiles, PublishFiles, InsertRowFiles, UnpublishFiles DEF UploadStep

-----------------------------------------------------------------------------
(* Deletions of snapshots *)

(***************************************************************************)
(* A deletion begins with an id that is listed, hence not uploaded.        *)
(***************************************************************************)
LEMMA DeleteBeginFiles ==
    ASSUME ServerInv, ServerInv', SessionsInv, FilesInv, AccountsGrow,
           NEW c \in Conns, NEW s \in SnapshotIds, DeleteBegin(c, s)
    PROVE  FilesInv'
<1>. USE DEF FilesInv, diskVars
<1>1. /\ UNCHANGED <<snapshots, home, rootTrash, blob, upload, session>>
      /\ session[c].state = "kAuthenticated" /\ Rows' = Rows
      /\ s \in RowsOf(session[c].user)
  BY DEF DeleteBegin, storeVars, Waits, Rows, DeleteSnapshotResult, FindSnapshot
<1>2. /\ job'[c].step = "trashBlob" /\ job'[c].on = s
      /\ \A d \in Conns \ {c} : job'[d] = job[d]
  BY JobFields DEF DeleteBegin
<1>3. s \in Rows /\ snapshots[s].user = session[c].user
  BY <1>1 DEF RowsOf
<1>4. IdsInv'
  BY <1>1, <1>2, <1>3 DEF IdsInv, BeginSteps, DeleteSteps, TrashSteps
<1>5. NoNewReference
  <2>. SUFFICES ASSUME NEW q \in SnapshotIds, NEW u \in UserIds, Refers(q, u)'
                PROVE  Refers(q, u)
    BY DEF NoNewReference
  <2>1. CASE q \in RowsOf(u)' \/ \E e \in Conns : /\ upload'[e] # None
                                                 /\ upload'[e].id = q
                                                 /\ upload'[e].user = u
    BY <1>1, <2>1 DEF Refers, RowsOf
  <2>2. ASSUME NEW e \in Conns, job'[e].step \in DeleteSteps,
               job'[e].on = q, session'[e].user = u
        PROVE  Refers(q, u)
    BY <1>1, <1>2, <1>3, <2>2 DEF Refers, RowsOf
  <2>. QED
    BY <2>1, <2>2 DEF Refers, DeleteSteps, TrashSteps
<1>6. KeepsDir(c) /\ OthersWait(c) /\ UploadInv(c)'
  BY <1>1, <1>2 DEF KeepsDir, OthersWait, HomeSteps, UploadInv, UploadsInv,
     UploadSteps, AccountsGrow
<1>. QED
  BY <1>1, <1>2, <1>4, <1>5, <1>6, StillButIds

(***************************************************************************)
(* A file that is renamed within its directory is still the same file.     *)
(***************************************************************************)
LEMMA MovedFields ==
    ASSUME ServerInv, NEW s \in SnapshotIds, blob[s] # None,
           NEW place \in {"tmp", "final", "trash"}, blob' = Moved(s, place)
    PROVE  /\ \A q \in SnapshotIds \ {s} : blob'[q] = blob[q]
           /\ blob'[s] # None
           /\ blob'[s].dir = blob[s].dir /\ blob'[s].at = place
           /\ blob'[s].whole = blob[s].whole
<1>1. blob \in [SnapshotIds -> Blob \cup {None}] /\ blob[s] \in Blob
  BY DEF ServerInv, ServerTypeOK
<1>. DEFINE file == [blob[s] EXCEPT !.at = place]
<1>2. /\ blob' = [blob EXCEPT ![s] = file]
      /\ file.dir = blob[s].dir /\ file.at = place /\ file.whole = blob[s].whole
      /\ file \in Blob
  BY <1>1 DEF Moved, Blob
<1>. HIDE DEF file
<1>. QED
  BY <1>1, <1>2

(***************************************************************************)
(* A deletion moves its file within the directory, and unlinks it only     *)
(* when the row is gone.                                                   *)
(***************************************************************************)
LEMMA DeleteStepFiles ==
    ASSUME ServerInv, ServerInv', SessionsInv, FilesInv, AccountsGrow,
           NEW c \in Conns, DeleteStep(c)
    PROVE  FilesInv'
<1>. USE DEF FilesInv, diskVars, Steps
<1>. DEFINE s == job[c].on
<1>1. CASE \E q \in SnapshotIds : DeleteBegin(c, q)
  BY <1>1, DeleteBeginFiles
<1>2. ASSUME TrashBlob(c) \/ DeleteRow(c) \/ DeleteRowFails(c)
               \/ RestoreBlob(c) \/ PurgeBlob(c)
      PROVE  FilesInv'
  <2>0. /\ s \in SnapshotIds /\ job[c].step \in DeleteSteps
        /\ blob \in [SnapshotIds -> Blob \cup {None}] /\ UploadInv(c)
        /\ session[c].state = "kAuthenticated"
    <3>1. job[c] \in Job /\ HandlerInStep(c)
          /\ blob \in [SnapshotIds -> Blob \cup {None}] /\ UploadInv(c)
      BY DEF ServerInv, ServerTypeOK, HandlersInStep, UploadsInv
    <3>2. job[c].step \in DeleteSteps
      BY <1>2 DEF TrashBlob, DeleteRow, DeleteRowFails, RestoreBlob, PurgeBlob,
                  DeleteSteps, TrashSteps
    <3>. QED
      BY <3>1, <3>2 DEF HandlerInStep, Job, DeleteSteps, TrashSteps, UploadInv,
                        UploadSteps
  <2>1. /\ UNCHANGED <<session, upload, home, rootTrash>>
        /\ \A d \in Conns \ {c} : job'[d] = job[d]
        /\ job'[c].step \in {"idle", "deleteRow", "restoreBlob", "purgeBlob"}
        /\ job'[c].step # "idle" => job'[c].on = s
    BY <1>2, JobFields DEF TrashBlob, DeleteRow, DeleteRowFails, RestoreBlob,
                           PurgeBlob
  <2>2. RowsShrink
    BY <1>2 DEF TrashBlob, DeleteRow, DeleteRowFails, RestoreBlob, PurgeBlob,
                storeVars, DeleteSnapshot, RowsShrink, Rows, ServerInv,
                ServerTypeOK, StoreTypeOK
  <2>3. job'[c].step = "purgeBlob" => s \notin Rows'
    <3>1. job'[c].step = "purgeBlob" => DeleteRow(c)
      BY <1>2, JobFields DEF TrashBlob, DeleteRow, DeleteRowFails, RestoreBlob,
                             PurgeBlob
    <3>2. DeleteRow(c) => snapshots'[s] = NoRow
      BY <2>0 DEF DeleteRow, DeleteSnapshot, ServerInv, ServerTypeOK, StoreTypeOK
    <3>. QED
      BY <3>1, <3>2 DEF Rows
  <2>4. /\ \A q \in SnapshotIds \ {s} : blob'[q] = blob[q]
        /\ \/ blob'[s] = blob[s]
           \/ /\ blob[s] # None /\ blob'[s].dir = blob[s].dir
              /\ blob'[s] # None /\ blob'[s].whole = blob[s].whole
           \/ blob'[s] = None /\ job[c].step = "purgeBlob"
    <3>1. \/ blob' = blob
          \/ blob[s] # None
             /\ \E place \in {"final", "trash"} : blob' = Moved(s, place)
          \/ /\ blob' = Unlinked(s, session[c].user, "trash")
             /\ job[c].step = "purgeBlob"
      BY <1>2 DEF TrashBlob, DeleteRow, DeleteRowFails, RestoreBlob, PurgeBlob,
                  LiesAt
    <3>2. CASE blob' = blob
      BY <3>2
    <3>3. CASE blob[s] # None
               /\ \E place \in {"final", "trash"} : blob' = Moved(s, place)
      BY <2>0, <3>3, MovedFields
    <3>4. CASE /\ blob' = Unlinked(s, session[c].user, "trash")
               /\ job[c].step = "purgeBlob"
      BY <2>0, <3>4 DEF Unlinked
    <3>. QED
      BY <3>1, <3>2, <3>3, <3>4
  <2>5. GoesOn(c) /\ KeepsDir(c) /\ OthersWait(c) /\ FilesStay
    BY <2>0, <2>1, <2>3, <2>4 DEF GoesOn, KeepsDir, OthersWait, BeginSteps,
       DeleteSteps, TrashSteps, HomeSteps, FilesStay
  <2>6. QuietIds /\ QuietDirs /\ NoNewReference
    BY <2>1, <2>2, <2>5, OthersGoOn, QuietRefers DEF QuietIds, QuietDirs
  <2>7. UploadsInv'
    <3>1. UploadInv(c)'
      BY <2>0, <2>1 DEF UploadInv, UploadSteps, AccountsGrow
    <3>. QED
      BY <2>5, <3>1, OthersUpload
  <2>8. BytesSafe
    <3>1. ASSUME NEW q \in Rows'
          PROVE  q \in Rows /\ (Whole(q) => Whole(q)')
      <4>1. q \in Rows /\ q \in SnapshotIds
        BY <2>2 DEF RowsShrink, Rows
      <4>2. ~(q = s /\ job[c].step = "purgeBlob")
        BY <4>1 DEF IdsInv
      <4>. QED
        BY <2>4, <4>1, <4>2 DEF Whole
    <3>2. ASSUME NEW e \in Conns, job'[e].step = "insert"
          PROVE  /\ job[e].step = "insert" /\ upload'[e] = upload[e]
                 /\ session'[e].user = session[e].user
                 /\ Whole(upload[e].id) =>
                      blob'[upload[e].id] # None /\ blob'[upload[e].id].whole
      <4>1. e # c /\ job[e].step = "insert" /\ upload[e] \in Upload
        BY <2>1, <3>2 DEF ServerInv, HandlersInStep, HandlerInStep, ServerTypeOK
      <4>2. upload[e].id # s /\ upload[e].id \in SnapshotIds
        BY <2>0, <4>1 DEF IdsInv, Upload
      <4>. QED
        BY <2>1, <2>4, <4>1, <4>2 DEF Whole
    <3>. QED
      BY <3>1, <3>2 DEF BytesSafe
  <2>. QED
    BY <2>6, <2>7, <2>8, QuietKeepsIds, QuietKeepsDirs, QuietKeepsOwners,
       SafeKeepsBytes DEF QuietDirs
<1>. QED
  BY <1>1, <1>2, DeleteStep(c) DEF DeleteStep

-----------------------------------------------------------------------------
(* Deletions of accounts *)

(***************************************************************************)
(* What no step of an account deletion does.                               *)
(***************************************************************************)
LEMMA DeleteAccountQuiet ==
    ASSUME ServerInv, ServerInv', SessionsInv, FilesInv, AccountsGrow,
           NEW c \in Conns, DeleteAccountStep(c)
    PROVE  /\ QuietIds /\ NoNewReference /\ IdsInv' /\ UploadsInv'
           /\ upload' = upload
           /\ \A d \in Conns \ {c} : job'[d] = job[d] /\ session'[d] = session[d]
           /\ job'[c].step # "insert"
           /\ job[c].step \in {"idle", "quarantine"} \cup HomeSteps
<1>. USE DEF FilesInv, diskVars, Steps
<1>0. UploadInv(c) /\ job \in [Conns -> Job] /\ session \in [Conns -> Sessions]
  BY DEF ServerInv, ServerTypeOK, UploadsInv, Sessions
<1>1. /\ upload' = upload
      /\ job'[c].step \in {"idle", "quarantine"} \cup HomeSteps
      /\ job[c].step \in {"idle", "quarantine"} \cup HomeSteps
      /\ \A d \in Conns \ {c} : job'[d] = job[d]
  <2>1. CASE Quarantine(c)
    BY <1>0, <2>1, JobFields DEF Quarantine, HomeSteps, Job
  <2>2. CASE ~Quarantine(c)
    BY <1>0, <2>2, DeleteAccountStep(c), JobFields
       DEF DeleteAccountStep, DeleteAccountBegin, DeleteUserRow, Waits,
           DeleteUserRowFails, RestoreHome, PurgeHome, HomeSteps
  <2>. QED
    BY <2>1, <2>2
<1>2. /\ session[c].state = "kAuthenticated"
      /\ session' = session \/ (ToConnected(c) /\ job'[c].step = "idle")
  <2>1. session[c].state = "kAuthenticated"
    BY <1>0, DeleteAccountStep(c) DEF DeleteAccountStep, DeleteAccountBegin,
       Quarantine, DeleteUserRow, DeleteUserRowFails, RestoreHome, PurgeHome,
       Waits, UploadInv, UploadSteps
  <2>2. session' = session \/ (ToConnected(c) /\ job'[c].step = "idle")
    BY DeleteAccountStep(c), JobFields DEF DeleteAccountStep,
       DeleteAccountBegin, Quarantine, DeleteUserRow, DeleteUserRowFails,
       RestoreHome, PurgeHome
  <2>. QED
    BY <2>1, <2>2
<1>3. RowsShrink
  <2>1. UNCHANGED snapshots \/ DeleteUser(session[c].user)
    BY DeleteAccountStep(c) DEF DeleteAccountStep, DeleteAccountBegin,
       Quarantine, DeleteUserRow, DeleteUserRowFails, RestoreHome, PurgeHome,
       storeVars
  <2>. QED
    BY <2>1 DEF DeleteUser, RowsShrink, Rows
<1>4. /\ \A d \in Conns \ {c} : session'[d] = session[d]
      /\ session'[c].state # "kUploadInProgress"
      /\ job'[c].step # "idle" => session'[c].state = "kAuthenticated"
  BY <1>2, SessionFields
<1>5. GoesOn(c) /\ OthersWait(c)
  BY <1>1, <1>4 DEF GoesOn, OthersWait, BeginSteps, DeleteSteps, TrashSteps,
     HomeSteps
<1>6. QuietIds
  BY <1>3, <1>5, OthersGoOn DEF QuietIds
<1>7. UploadInv(c)'
  BY <1>0, <1>1, <1>2, <1>4 DEF UploadInv, UploadSteps, HomeSteps, AccountsGrow
<1>. QED
  BY <1>1, <1>4, <1>5, <1>6, <1>7, QuietKeepsIds, QuietRefers, OthersUpload
     DEF HomeSteps

(***************************************************************************)
(* As long as no file is removed, none of a row is.                        *)
(***************************************************************************)
LEMMA SameFilesAreSafe ==
    ASSUME BytesInv, AccountsGrow, NEW c \in Conns, UNCHANGED <<blob, upload>>,
           RowsShrink, job'[c].step # "insert",
           \A d \in Conns \ {c} : job'[d] = job[d] /\ session'[d] = session[d]
    PROVE  BytesInv'
<1>1. BytesSafe
  BY DEF BytesSafe, Whole, RowsShrink
<1>. QED
  BY <1>1, SafeKeepsBytes

(***************************************************************************)
(* users/<id> goes to the trash of this deletion, with the files in it.    *)
(***************************************************************************)
LEMMA QuarantineFiles ==
    ASSUME ServerInv, ServerInv', SessionsInv, FilesInv, AccountsGrow,
           NEW c \in Conns, Quarantine(c), job'[c].step = "deleteUser"
    PROVE  DirsInv' /\ OwnersInv'
<1>. USE DEF FilesInv
<1>. DEFINE user == session[c].user
            dir == home[user]
<1>0. /\ user \in UserIds /\ home \in [UserIds -> Dirs \cup {None}]
      /\ job \in [Conns -> Job] /\ dir \in Dirs \cup {None}
      /\ blob \in [SnapshotIds -> Blob \cup {None}]
      /\ \A q \in SnapshotIds : blob[q] # None => blob[q].dir \in Dirs
  <2>1. /\ user \in UserIds /\ home \in [UserIds -> Dirs \cup {None}]
        /\ job \in [Conns -> Job] /\ blob \in [SnapshotIds -> Blob \cup {None}]
    BY DEF ServerInv, ServerTypeOK, HandlersInStep, HandlerInStep, Quarantine
  <2>. QED
    BY <2>1 DEF Blob
<1>1. /\ rootTrash' = rootTrash \cup ({dir} \ {None})
      /\ home'[user] = None
      /\ \A v \in UserIds \ {user} : home'[v] = home[v]
      /\ job'[c].dir = dir /\ \A d \in Conns \ {c} : job'[d] = job[d]
      /\ UNCHANGED <<session, upload, blob, snapshots>>
  <2>1. ~Finish(c)
    BY JobFields
  <2>. QED
    BY <1>0, <2>1 DEF Quarantine, storeVars
<1>2. dir # None => dir \notin rootTrash
  BY <1>0 DEF DirsInv
<1>3. \A d \in Conns \ {c} : job'[d].step \in HomeSteps /\ job'[d].dir # None
                               => job'[d].dir \in rootTrash
  BY <1>1 DEF DirsInv
<1>4. DirsInv'
  <2>1. \A u, v \in UserIds : home'[u] # None /\ home'[u] = home'[v] => u = v
    BY <1>1 DEF DirsInv
  <2>2. \A u \in UserIds : home'[u] \notin rootTrash'
    <3>1. \A u \in UserIds : home[u] # None /\ home[u] = dir => u = user
      BY <1>0 DEF DirsInv
    <3>2. None \notin rootTrash'
      BY DEF ServerInv, ServerTypeOK
    <3>. QED
      BY <1>0, <1>1, <3>1, <3>2 DEF DirsInv
  <2>3. \A u \in UserIds : home'[u] # None => u \in Allocated'
    BY <1>1 DEF DirsInv, AccountsGrow
  <2>4. \A d \in Conns : job'[d].step \in HomeSteps /\ job'[d].dir # None
                           => job'[d].dir \in rootTrash'
    BY <1>1, <1>3
  <2>5. \A d, e \in Conns :
          /\ job'[d].step \in HomeSteps /\ job'[e].step \in HomeSteps
          /\ job'[d].dir = job'[e].dir /\ job'[d].dir # None
          => d = e
    <3>1. \A d \in Conns \ {c} : job'[d].step \in HomeSteps /\ job'[d].dir # None
                                   => job'[d].dir # job'[c].dir
      BY <1>1, <1>2, <1>3
    <3>2. \A d, e \in Conns \ {c} :
            /\ job'[d].step \in HomeSteps /\ job'[e].step \in HomeSteps
            /\ job'[d].dir = job'[e].dir /\ job'[d].dir # None
            => d = e
      BY <1>1 DEF DirsInv
    <3>. QED
      BY <3>1, <3>2
  <2>6. \A s \in SnapshotIds :
          blob'[s] # None => \/ blob'[s].dir \in rootTrash'
                             \/ \E u \in UserIds : home'[u] = blob'[s].dir
    BY <1>0, <1>1 DEF DirsInv
  <2>. QED
    BY <2>1, <2>2, <2>3, <2>4, <2>5, <2>6 DEF DirsInv, HomeSteps
<1>5. OwnersInv'
  <2>. SUFFICES ASSUME NEW s \in SnapshotIds, NEW u \in UserIds,
                       Refers(s, u)', blob'[s] # None
                PROVE  /\ \A v \in UserIds : home'[v] = blob'[s].dir => v = u
                       /\ \A e \in Conns :
                            job'[e].step \in {"deleteUser", "restoreHome"}
                              /\ job'[e].dir = blob'[s].dir
                            => session'[e].user = u
                       /\ \A e \in Conns :
                            job'[e].step = "purgeHome"
                              /\ job'[e].dir = blob'[s].dir
                            => u \in deletedUsers'
    BY DEF OwnersInv
  <2>1. NoNewReference
    BY DeleteAccountQuiet DEF DeleteAccountStep
  <2>2. /\ \A v \in UserIds : home[v] = blob[s].dir => v = u
        /\ \A e \in Conns :
             job[e].step \in {"deleteUser", "restoreHome"}
               /\ job[e].dir = blob[s].dir => session[e].user = u
        /\ \A e \in Conns :
             job[e].step = "purgeHome" /\ job[e].dir = blob[s].dir
               => u \in deletedUsers
    BY <1>1, <2>1 DEF NoNewReference, OwnersInv
  <2>3. \A v \in UserIds : home'[v] = blob'[s].dir => v = u
    BY <1>0, <1>1, <2>2
  <2>4. \A e \in Conns : job'[e].step \in {"deleteUser", "restoreHome"}
                           /\ job'[e].dir = blob'[s].dir => session'[e].user = u
    BY <1>0, <1>1, <2>2
  <2>5. \A e \in Conns : job'[e].step = "purgeHome" /\ job'[e].dir = blob'[s].dir
                           => u \in deletedUsers'
    BY <1>1, <2>2 DEF AccountsGrow
  <2>. QED
    BY <2>3, <2>4, <2>5
<1>. QED
  BY <1>4, <1>5

(***************************************************************************)
(* The quarantined directory is back: nobody else has got one by its name, *)
(* and its files are of the account it goes back to.                       *)
(***************************************************************************)
LEMMA RestoreHomeFiles ==
    ASSUME ServerInv, ServerInv', SessionsInv, FilesInv, AccountsGrow,
           NEW c \in Conns, RestoreHome(c), ~UNCHANGED home
    PROVE  DirsInv' /\ OwnersInv'
<1>. USE DEF FilesInv
<1>. DEFINE user == session[c].user
            dir == job[c].dir
<1>0. /\ user \in UserIds /\ home \in [UserIds -> Dirs \cup {None}]
      /\ user \in Allocated /\ job[c].step = "restoreHome"
      /\ blob \in [SnapshotIds -> Blob \cup {None}]
  BY DEF ServerInv, ServerTypeOK, HandlersInStep, HandlerInStep, RestoreHome,
         SessionsInv
<1>1. /\ dir # None /\ home[user] = None
      /\ rootTrash' = rootTrash \ {dir}
      /\ home'[user] = dir
      /\ \A v \in UserIds \ {user} : home'[v] = home[v]
      /\ job'[c].step = "idle" /\ \A d \in Conns \ {c} : job'[d] = job[d]
      /\ UNCHANGED <<session, upload, blob, snapshots>>
  BY <1>0, JobFields DEF RestoreHome, storeVars
<1>2. dir \in rootTrash /\ \A v \in UserIds : home[v] # dir
  BY <1>0, <1>1 DEF DirsInv, HomeSteps
<1>3. \A d \in Conns : job'[d].step \in HomeSteps =>
        d # c /\ job'[d] = job[d]
  BY <1>1 DEF HomeSteps
<1>4. \A d \in Conns : job'[d].step \in HomeSteps /\ job'[d].dir # None
                         => job'[d].dir # dir
  BY <1>0, <1>1, <1>3 DEF DirsInv, HomeSteps
<1>5. DirsInv'
  <2>1. \A u, v \in UserIds : home'[u] # None /\ home'[u] = home'[v] => u = v
    BY <1>1, <1>2 DEF DirsInv
  <2>2. \A u \in UserIds : home'[u] \notin rootTrash'
    BY <1>1, <1>2 DEF DirsInv
  <2>3. \A u \in UserIds : home'[u] # None => u \in Allocated'
    BY <1>0, <1>1 DEF DirsInv, AccountsGrow
  <2>4. \A d \in Conns : job'[d].step \in HomeSteps /\ job'[d].dir # None
                           => job'[d].dir \in rootTrash'
    BY <1>1, <1>3, <1>4 DEF DirsInv
  <2>5. \A d, e \in Conns :
          /\ job'[d].step \in HomeSteps /\ job'[e].step \in HomeSteps
          /\ job'[d].dir = job'[e].dir /\ job'[d].dir # None
          => d = e
    BY <1>3 DEF DirsInv
  <2>6. \A s \in SnapshotIds :
          blob'[s] # None => \/ blob'[s].dir \in rootTrash'
                             \/ \E u \in UserIds : home'[u] = blob'[s].dir
    <3>1. \A s \in SnapshotIds : blob[s] # None => blob[s].dir # None
      BY <1>0 DEF Blob
    <3>2. \A u \in UserIds : home[u] # None => home'[u] = home[u]
      BY <1>1
    <3>. QED
      BY <1>0, <1>1, <3>1, <3>2 DEF DirsInv
  <2>. QED
    BY <2>1, <2>2, <2>3, <2>4, <2>5, <2>6 DEF DirsInv, HomeSteps
<1>6. OwnersInv'
  <2>. SUFFICES ASSUME NEW s \in SnapshotIds, NEW u \in UserIds,
                       Refers(s, u)', blob'[s] # None
                PROVE  /\ \A v \in UserIds : home'[v] = blob'[s].dir => v = u
                       /\ \A e \in Conns :
                            job'[e].step \in {"deleteUser", "restoreHome"}
                              /\ job'[e].dir = blob'[s].dir
                            => session'[e].user = u
                       /\ \A e \in Conns :
                            job'[e].step = "purgeHome"
                              /\ job'[e].dir = blob'[s].dir
                            => u \in deletedUsers'
    BY DEF OwnersInv
  <2>1. NoNewReference
    BY DeleteAccountQuiet DEF DeleteAccountStep
  <2>2. /\ \A v \in UserIds : home[v] = blob[s].dir => v = u
        /\ \A e \in Conns :
             job[e].step \in {"deleteUser", "restoreHome"}
               /\ job[e].dir = blob[s].dir => session[e].user = u
        /\ \A e \in Conns :
             job[e].step = "purgeHome" /\ job[e].dir = blob[s].dir
               => u \in deletedUsers
    BY <1>1, <2>1 DEF NoNewReference, OwnersInv
  <2>3. \A v \in UserIds : home'[v] = blob'[s].dir => v = u
    BY <1>0, <1>1, <2>2
  <2>4. \A e \in Conns : job'[e].step \in {"deleteUser", "restoreHome"}
                           /\ job'[e].dir = blob'[s].dir => session'[e].user = u
    BY <1>1, <1>3, <2>2 DEF HomeSteps
  <2>5. \A e \in Conns : job'[e].step = "purgeHome" /\ job'[e].dir = blob'[s].dir
                           => u \in deletedUsers'
    BY <1>1, <1>3, <2>2 DEF AccountsGrow, HomeSteps
  <2>. QED
    BY <2>3, <2>4, <2>5
<1>. QED
  BY <1>5, <1>6

(***************************************************************************)
(* The quarantined directory is emptied: what lies in it is of an account  *)
(* that is gone, and has no row.                                           *)
(***************************************************************************)
LEMMA PurgeHomeFiles ==
    ASSUME ServerInv, ServerInv', SessionsInv, FilesInv, AccountsGrow,
           NEW c \in Conns, PurgeHome(c)
    PROVE  DirsInv' /\ OwnersInv' /\ BytesInv'
<1>. USE DEF FilesInv
<1>. DEFINE dir == job[c].dir
<1>0. /\ blob \in [SnapshotIds -> Blob \cup {None}]
      /\ job[c].step = "purgeHome" /\ job[c].step \in HomeSteps
  BY DEF ServerInv, ServerTypeOK, PurgeHome, HomeSteps
<1>1. /\ UNCHANGED <<home, upload, snapshots>>
      /\ job'[c].step = "idle"
      /\ \A d \in Conns \ {c} : job'[d] = job[d] /\ session'[d] = session[d]
  BY JobFields, SessionFields DEF PurgeHome, storeVars
<1>2. /\ \A s \in SnapshotIds : \/ blob'[s] = blob[s]
                                \/ /\ blob'[s] = None
                                   /\ blob[s] # None /\ blob[s].dir = dir
      /\ \/ rootTrash' = rootTrash
         \/ /\ rootTrash' = rootTrash \ {dir}
            /\ \A s \in SnapshotIds : blob'[s] # None => blob'[s].dir # dir
  BY <1>0 DEF PurgeHome
<1>3. \A d \in Conns : job'[d].step \in HomeSteps => d # c /\ job'[d] = job[d]
  BY <1>1 DEF HomeSteps
<1>4. DirsInv'
  <2>1. \A d \in Conns : job'[d].step \in HomeSteps /\ job'[d].dir # None
                           => job'[d].dir \in rootTrash'
    BY <1>0, <1>2, <1>3 DEF DirsInv
  <2>2. \A s \in SnapshotIds :
          blob'[s] # None => \/ blob'[s].dir \in rootTrash'
                             \/ \E u \in UserIds : home'[u] = blob'[s].dir
    BY <1>1, <1>2 DEF DirsInv
  <2>3. \A d, e \in Conns :
          /\ job'[d].step \in HomeSteps /\ job'[e].step \in HomeSteps
          /\ job'[d].dir = job'[e].dir /\ job'[d].dir # None
          => d = e
    BY <1>3 DEF DirsInv
  <2>4. \A u \in UserIds : home'[u] \notin rootTrash'
    BY <1>1, <1>2 DEF DirsInv
  <2>. QED
    BY <1>1, <2>1, <2>2, <2>3, <2>4 DEF DirsInv, HomeSteps, AccountsGrow
<1>5. FilesStay
  BY <1>2 DEF FilesStay
<1>6. \A d \in Conns : KeepsDir(d)
  BY <1>1, <1>3 DEF KeepsDir, HomeSteps
<1>7. NoNewReference
  BY DeleteAccountQuiet DEF DeleteAccountStep
<1>8. OwnersInv'
  BY <1>1, <1>5, <1>6, <1>7, QuietKeepsOwners
<1>9. \A s \in SnapshotIds, u \in UserIds :
        Refers(s, u) /\ blob[s] # None /\ blob[s].dir = dir => u \in deletedUsers
  BY <1>0 DEF OwnersInv
<1>10. BytesSafe
  <2>1. ASSUME NEW s \in Rows'
        PROVE  s \in Rows /\ blob'[s] = blob[s]
    <3>1. s \in Rows /\ s \in SnapshotIds
      BY <1>1 DEF Rows
    <3>2. snapshots[s].user \in LiveUsers /\ snapshots[s].user \in UserIds
      BY <3>1 DEF ServerInv, StoreInv, RowsHaveOwners, LiveUsers
    <3>3. Refers(s, snapshots[s].user)
      BY <3>1 DEF Refers, RowsOf
    <3>4. snapshots[s].user \notin deletedUsers
      BY <3>2 DEF AccountsGrow
    <3>. QED
      BY <1>2, <1>9, <3>1, <3>2, <3>3, <3>4
  <2>2. ASSUME NEW e \in Conns, job'[e].step = "insert"
        PROVE  /\ job[e].step = "insert" /\ upload'[e] = upload[e]
               /\ session'[e].user = session[e].user
               /\ Whole(upload[e].id) =>
                    \/ blob'[upload[e].id] # None /\ blob'[upload[e].id].whole
                    \/ session[e].user \in deletedUsers'
    <3>1. /\ e # c /\ job[e].step = "insert" /\ upload[e] \in Upload
          /\ session'[e] = session[e] /\ upload[e] # None
      BY <1>1, <2>2 DEF ServerInv, HandlersInStep, HandlerInStep, ServerTypeOK
    <3>2. /\ upload[e].id \in SnapshotIds /\ upload[e].user \in UserIds
          /\ upload[e].user = session[e].user
      BY <3>1 DEF Upload, UploadsInv, UploadInv, UploadSteps
    <3>3. Refers(upload[e].id, session[e].user)
      BY <3>1, <3>2 DEF Refers
    <3>. QED
      BY <1>1, <1>2, <1>9, <3>1, <3>2, <3>3 DEF Whole, AccountsGrow
  <2>. QED
    BY <2>1, <2>2 DEF BytesSafe, Whole
<1>. QED
  BY <1>4, <1>8, <1>10, SafeKeepsBytes

(***************************************************************************)
(* All steps of an account deletion.                                       *)
(***************************************************************************)
LEMMA DeleteAccountStepFiles ==
    ASSUME ServerInv, ServerInv', SessionsInv, FilesInv, AccountsGrow,
           NEW c \in Conns, DeleteAccountStep(c)
    PROVE  FilesInv'
<1>. USE DEF FilesInv, diskVars, Steps
<1>1. /\ QuietIds /\ NoNewReference /\ IdsInv' /\ UploadsInv'
      /\ upload' = upload /\ RowsShrink
      /\ \A d \in Conns \ {c} : job'[d] = job[d] /\ session'[d] = session[d]
      /\ job'[c].step # "insert"
  BY DeleteAccountQuiet DEF QuietIds
<1>2. CASE PurgeHome(c)
  BY <1>1, <1>2, PurgeHomeFiles
<1>3. CASE ~PurgeHome(c)
  <2>1. UNCHANGED blob
    BY <1>3, DeleteAccountStep(c) DEF DeleteAccountStep, DeleteAccountBegin,
       Quarantine, DeleteUserRow, DeleteUserRowFails, RestoreHome
  <2>2. BytesInv'
    BY <1>1, <2>1, SameFilesAreSafe
  <2>3. CASE Quarantine(c) /\ job'[c].step = "deleteUser"
    BY <1>1, <2>2, <2>3, QuarantineFiles
  <2>4. CASE RestoreHome(c) /\ ~UNCHANGED home
    BY <1>1, <2>2, <2>4, RestoreHomeFiles
  <2>5. CASE /\ ~(Quarantine(c) /\ job'[c].step = "deleteUser")
             /\ ~(RestoreHome(c) /\ ~UNCHANGED home)
    <3>1. UNCHANGED <<home, rootTrash>>
      <4>1. CASE Quarantine(c)
        <5>1. job \in [Conns -> Job]
          BY DEF ServerInv, ServerTypeOK
        <5>. QED
          BY <2>5, <4>1, <5>1 DEF Quarantine
      <4>2. CASE RestoreHome(c)
        <5>1. /\ home \in [UserIds -> Dirs \cup {None}]
              /\ session[c].user \in UserIds
          BY <4>2 DEF ServerInv, ServerTypeOK, HandlersInStep, HandlerInStep,
             RestoreHome
        <5>. QED
          BY <2>5, <4>2, <5>1 DEF RestoreHome
      <4>. QED
        BY <1>3, <4>1, <4>2, DeleteAccountStep(c) DEF DeleteAccountStep,
           DeleteAccountBegin, DeleteUserRow, DeleteUserRowFails
    <3>2. KeepsDir(c)
      <4>1. CASE DeleteUserRow(c)
        <5>1. /\ job[c].step = "deleteUser" /\ job'[c].step = "purgeHome"
              /\ job'[c].dir = job[c].dir /\ session' = session
          BY <4>1, JobFields DEF DeleteUserRow
        <5>2. session[c].user \in deletedUsers'
          BY <4>1 DEF DeleteUserRow, DeleteUser
        <5>. QED
          BY <5>1, <5>2 DEF KeepsDir, HomeSteps
      <4>2. CASE DeleteUserRowFails(c)
        BY <4>2, JobFields DEF DeleteUserRowFails, KeepsDir, HomeSteps
      <4>3. CASE ~DeleteUserRow(c) /\ ~DeleteUserRowFails(c)
        <5>1. \/ DeleteAccountBegin(c) \/ Quarantine(c) \/ RestoreHome(c)
          BY <1>3, <2>5, <4>3, DeleteAccountStep(c) DEF DeleteAccountStep
        <5>2. job'[c].step \notin HomeSteps
          <6>1. CASE DeleteAccountBegin(c)
            BY <6>1, JobFields DEF DeleteAccountBegin, HomeSteps
          <6>2. CASE RestoreHome(c)
            BY <6>2, JobFields DEF RestoreHome, HomeSteps
          <6>3. CASE Quarantine(c)
            <7>1. job \in [Conns -> Job]
              BY DEF ServerInv, ServerTypeOK
            <7>2. Finish(c)
              BY <2>5, <6>3, <7>1 DEF Quarantine
            <7>. QED
              BY <7>2, JobFields DEF HomeSteps
          <6>. QED
            BY <5>1, <6>1, <6>2, <6>3
        <5>. QED
          BY <5>2 DEF KeepsDir, HomeSteps
      <4>. QED
        BY <4>1, <4>2, <4>3
    <3>3. QuietDirs
      <4>1. \A d \in Conns \ {c} : KeepsDir(d)
        BY <1>1, OthersGoOn DEF OthersWait
      <4>. QED
        BY <2>1, <3>1, <3>2, <4>1 DEF QuietDirs, FilesStay
    <3>. QED
      BY <1>1, <2>2, <3>3, QuietKeepsDirs, QuietKeepsOwners DEF QuietDirs
  <2>. QED
    BY <2>3, <2>4, <2>5
<1>. QED
  BY <1>2, <1>3

(***************************************************************************)
(* A crash forgets every connection and touches no file and no row.        *)
(***************************************************************************)
LEMMA CrashFiles ==
    ASSUME ServerInv, FilesInv, Crash
    PROVE  FilesInv'
<1>. USE DEF FilesInv, storeVars, diskVars
<1>1. /\ UNCHANGED <<username, deletedUsers, snapshots, home, rootTrash, blob>>
      /\ Rows' = Rows /\ LiveUsers' = LiveUsers /\ Allocated' = Allocated
  BY DEF Crash, Rows, LiveUsers, Allocated
<1>2. \A c \in Conns : /\ session'[c].state = "closed"
                       /\ upload'[c] = None /\ job'[c].step = "idle"
  BY DEF Crash, Idle
<1>3. IdsInv'
  BY <1>2 DEF IdsInv, BeginSteps, DeleteSteps, TrashSteps
<1>4. UploadsInv'
  BY <1>2 DEF UploadsInv, UploadInv, UploadSteps
<1>5. DirsInv'
  BY <1>1, <1>2 DEF DirsInv, HomeSteps
<1>6. OwnersInv'
  BY <1>1, <1>2 DEF OwnersInv, Refers, RowsOf, Rows, DeleteSteps, TrashSteps
<1>7. BytesInv'
  BY <1>1, <1>2 DEF BytesInv, RowsKeepTheirBytes, Rows
<1>. QED
  BY <1>3, <1>4, <1>5, <1>6, <1>7

LEMMA StillFiles ==
    ASSUME FilesInv, UNCHANGED <<username, deletedUsers, snapshots, session,
                                 upload, job, home, rootTrash, blob>>
    PROVE  FilesInv'
  BY DEF FilesInv, IdsInv, UploadsInv, UploadInv, DirsInv, OwnersInv, Refers,
     RowsOf, BytesInv, RowsKeepTheirBytes, Whole, Rows, LiveUsers, Allocated

LEMMA InitFilesInv == Init => SessionsInv /\ FilesInv
<1>. SUFFICES ASSUME Init PROVE SessionsInv /\ FilesInv
  OBVIOUS
<1>1. /\ \A c \in Conns : /\ session[c].state = "closed"
                          /\ session[c].user = None
                          /\ upload[c] = None /\ job[c].step = "idle"
      /\ Rows = {}
      /\ \A u \in UserIds : home[u] = None
      /\ \A s \in SnapshotIds : blob[s] = None
      /\ rootTrash = {}
  BY DEF Init, StoreInit, Idle, Rows
<1>. QED
  BY <1>1 DEF SessionsInv, FilesInv, IdsInv, UploadsInv, UploadInv, DirsInv,
     OwnersInv, BytesInv, RowsKeepTheirBytes, BeginSteps, DeleteSteps,
     TrashSteps, HomeSteps, UploadSteps

(***************************************************************************)
(* Every step keeps FilesInv.                                              *)
(***************************************************************************)
LEMMA NextFilesInv ==
    ASSUME ServerInv, ServerInv', SessionsInv, FilesInv, [Next]_vars
    PROVE  FilesInv'
<1>1. AccountsGrow
  BY EveryStepGrows
<1>2. CASE Crash
  BY <1>2, CrashFiles
<1>3. CASE ClockTick \/ UNCHANGED vars
  BY <1>3, StillFiles DEF ClockTick, Tick, vars, storeVars, connVars, diskVars
<1>4. ASSUME NEW c \in Conns,
             \/ SessionStep(c) \/ UploadStep(c) \/ DownloadStep(c)
             \/ DeleteStep(c) \/ DeleteAccountStep(c)
      PROVE  FilesInv'
  BY <1>1, <1>4, SessionStepFiles, UploadStepFiles, DownloadStepFiles,
     DeleteStepFiles, DeleteAccountStepFiles
<1>. QED
  BY <1>2, <1>3, <1>4 DEF Next

WholeInv == ServerInv /\ SessionsInv /\ FilesInv

(***************************************************************************)
(* What holds whatever fails, of every behaviour.                          *)
(***************************************************************************)
LEMMA ServerKeepsFiles == Spec => []WholeInv
<1>1. Init => WholeInv
  BY InitServerInv, InitFilesInv DEF WholeInv
<1>2. WholeInv /\ [Next]_vars => WholeInv'
  BY NextServerInv, NextSessionsInv, NextFilesInv DEF WholeInv
<1>. QED
  BY <1>1, <1>2, PTL DEF Spec

(***************************************************************************)
(* A session acts on the account it was opened for, though its account is  *)
(* deleted and others are registered while it lasts.                       *)
(***************************************************************************)
THEOREM SessionsActOnTheirAccount == Spec => []SessionsKeepTheirAccount
<1>1. WholeInv => SessionsKeepTheirAccount
  BY DEF WholeInv, SessionsInv, SessionsKeepTheirAccount, LiveUsers
<1>. QED
  BY <1>1, ServerKeepsFiles, PTL

(***************************************************************************)
(* No interleaving of uploads and deletions, no failing call and no crash  *)
(* destroys the bytes of a snapshot that is still listed.                  *)
(***************************************************************************)
THEOREM ListedBytesSurvive == Spec => []RowsKeepTheirBytes
<1>1. WholeInv => RowsKeepTheirBytes
  BY DEF WholeInv, FilesInv, BytesInv
<1>. QED
  BY <1>1, ServerKeepsFiles, PTL

-----------------------------------------------------------------------------
(* While nothing has failed *)

InsertSteps == {"insert", "unpublish"}
UndoSteps == {"deleteRow", "restoreBlob"}
FileSteps == InsertSteps \cup TrashSteps

Uploads(c, s) == upload[c] # None /\ upload[c].id = s
Inserts(c, s) == job[c].step \in InsertSteps /\ upload[c].id = s
Trashes(c, s) == job[c].step \in TrashSteps /\ job[c].on = s
Undoes(c, s) == job[c].step \in UndoSteps /\ job[c].on = s

(***************************************************************************)
(* Where the file of a snapshot is and who answers for it.  A listed one   *)
(* is at its place, in trash with a deletion that has its row still to     *)
(* remove, or its account is being deleted; so is one about to be listed.  *)
(* What is in trash has one deletion, which has a row to restore it for    *)
(* unless the account is gone.  In the directory of a live account a file  *)
(* has an upload, a row or a deletion.                                     *)
(***************************************************************************)
Accounted(s) ==
    /\ s \in Rows => \/ LiesAt(s, snapshots[s].user, "final")
                     \/ /\ LiesAt(s, snapshots[s].user, "trash")
                        /\ \E c \in Conns : Undoes(c, s)
                     \/ DeletedBy(snapshots[s].user)
    /\ \A c \in Conns : job[c].step = "insert" /\ upload[c].id = s =>
         \/ LiesAt(s, session[c].user, "final")
         \/ session[c].user \in deletedUsers
         \/ DeletedBy(session[c].user)
    /\ \A c \in Conns : Inserts(c, s) /\ blob[s] # None
                          => blob[s].at = "final"
    /\ \A c \in Conns : Trashes(c, s) /\ blob[s] # None
                          => blob[s].at = "trash"
    /\ \A c, d \in Conns : Trashes(c, s) /\ Trashes(d, s) => c = d
    /\ \A c \in Conns : Undoes(c, s) => \/ s \in RowsOf(session[c].user)
                                         \/ session[c].user \in deletedUsers
    /\ \A u \in LiveUsers :
         /\ LiesAt(s, u, "tmp") => \E c \in Conns : Uploads(c, s)
         /\ LiesAt(s, u, "final") => \/ s \in RowsOf(u)
                                     \/ \E c \in Conns : Inserts(c, s)
         /\ LiesAt(s, u, "trash") => \E c \in Conns : Trashes(c, s)

Calm ==
    /\ \A s \in SnapshotIds : Accounted(s)
    /\ \A c \in Conns : job[c].step = "restoreHome"
                          => session[c].user \in deletedUsers

CalmInv == Undisturbed => Calm

(***************************************************************************)
(* A step of connection c that leaves the snapshot as accounted for as it  *)
(* was: in the directories of live accounts its file comes from nowhere,   *)
(* and goes from its place only when the account is being deleted.         *)
(***************************************************************************)
FileStays(s) ==
    /\ blob'[s] # None => blob[s] # None /\ blob'[s].at = blob[s].at
    /\ \A u \in LiveUsers' :
         /\ s \in RowsOf(u)' <=> s \in RowsOf(u)
         /\ \A place \in {"tmp", "final", "trash"} :
              LiesAt(s, u, place)' => u \in LiveUsers /\ LiesAt(s, u, place)
         /\ \A place \in {"final", "trash"} :
              LiesAt(s, u, place) => LiesAt(s, u, place)' \/ DeletedBy(u)'

RoleStays(c, s) ==
    /\ \A u \in LiveUsers' :
         LiesAt(s, u, "tmp")' /\ Uploads(c, s) => Uploads(c, s)'
    /\ Inserts(c, s)' <=> Inserts(c, s)
    /\ job'[c].step = "insert" /\ upload'[c].id = s =>
         job[c].step = "insert" /\ session'[c].user = session[c].user
    /\ Trashes(c, s)' <=> Trashes(c, s)
    /\ Undoes(c, s)' <=> Undoes(c, s)
    /\ Undoes(c, s)' => session'[c].user = session[c].user

DeletionStays(c) ==
    job[c].step = "deleteUser" /\ session[c].user \in LiveUsers' =>
      job'[c].step = "deleteUser" /\ session'[c].user = session[c].user

(***************************************************************************)
(* Such a step leaves the snapshot accounted for.                          *)
(***************************************************************************)
LEMMA StaysAccounted ==
    ASSUME ServerInv, ServerInv', SessionsInv, AccountsGrow, NEW c \in Conns,
           OthersWait(c), DeletionStays(c),
           NEW s \in SnapshotIds, Accounted(s), FileStays(s), RoleStays(c, s)
    PROVE  Accounted(s)'
<1>1. \A d \in Conns \ {c} :
        /\ job'[d] = job[d] /\ session'[d] = session[d]
        /\ upload'[d] = upload[d]
        /\ Uploads(d, s)' <=> Uploads(d, s)
        /\ Inserts(d, s)' <=> Inserts(d, s)
        /\ Trashes(d, s)' <=> Trashes(d, s)
        /\ Undoes(d, s)' <=> Undoes(d, s)
  BY DEF OthersWait, Uploads, Inserts, Trashes, Undoes
<1>2. \A u \in LiveUsers' : DeletedBy(u) => DeletedBy(u)'
  BY <1>1 DEF DeletedBy, DeletionStays
<1>3. \A d \in Conns : Inserts(d, s)' <=> Inserts(d, s)
  BY <1>1 DEF RoleStays
<1>4. \A d \in Conns : Trashes(d, s)' <=> Trashes(d, s)
  BY <1>1 DEF RoleStays
<1>5. \A d \in Conns : /\ Undoes(d, s)' <=> Undoes(d, s)
                       /\ Undoes(d, s)' => session'[d].user = session[d].user
  BY <1>1 DEF RoleStays
<1>6. \A d \in Conns :
        /\ session[d].user \in UserIds =>
             session[d].user \in LiveUsers' \/ session[d].user \in deletedUsers'
        /\ Undoes(d, s) => session[d].user \in UserIds
        /\ job[d].step = "insert" => session[d].user \in UserIds
  <2>1. \A d \in Conns : HandlerInStep(d)
    BY DEF ServerInv, HandlersInStep
  <2>. QED
    BY <2>1 DEF SessionsInv, AccountsGrow, Allocated, Undoes, UndoSteps,
       HandlerInStep, UserIds
<1>7. ASSUME s \in Rows'
      PROVE  \/ LiesAt(s, snapshots[s].user, "final")'
             \/ /\ LiesAt(s, snapshots[s].user, "trash")'
                /\ \E d \in Conns : Undoes(d, s)'
             \/ DeletedBy(snapshots[s].user)'
  <2>0. snapshots'[s].user \in LiveUsers'
    BY <1>7 DEF ServerInv, StoreInv, RowsAreSound, RowsHaveOwners
  <2>1. PICK u \in LiveUsers' : snapshots'[s].user = u
    BY <2>0
  <2>1a. s \in RowsOf(u)'
    BY <1>7, <2>1 DEF RowsOf
  <2>2. s \in Rows /\ snapshots[s].user = u
    BY <2>1, <2>1a DEF FileStays, RowsOf
  <2>3. \/ LiesAt(s, u, "final")
        \/ LiesAt(s, u, "trash") /\ \E d \in Conns : Undoes(d, s)
        \/ DeletedBy(u)
    BY <2>2 DEF Accounted
  <2>4. \A v \in LiveUsers' :
          /\ LiesAt(s, v, "final") => LiesAt(s, v, "final")' \/ DeletedBy(v)'
          /\ LiesAt(s, v, "trash") => LiesAt(s, v, "trash")' \/ DeletedBy(v)'
    BY DEF FileStays
  <2>5. \A v \in LiveUsers' : v = u =>
          \/ LiesAt(s, v, "final")'
          \/ LiesAt(s, v, "trash")' /\ \E d \in Conns : Undoes(d, s)'
          \/ DeletedBy(v)'
    BY <1>2, <1>5, <2>3, <2>4
  <2>. QED
    BY <2>1, <2>5 DEF LiesAt, DeletedBy
<1>8. ASSUME NEW d \in Conns, job'[d].step = "insert", upload'[d].id = s
      PROVE  \/ LiesAt(s, session[d].user, "final")'
             \/ (session[d].user \in deletedUsers)'
             \/ DeletedBy(session[d].user)'
  <2>1. /\ job[d].step = "insert" /\ session'[d].user = session[d].user
        /\ upload[d].id = s
    <3>1. Inserts(d, s)'
      BY <1>8 DEF Inserts, InsertSteps
    <3>. QED
      BY <1>1, <1>3, <1>8, <3>1 DEF RoleStays, Inserts
  <2>2. \/ LiesAt(s, session[d].user, "final")
        \/ session[d].user \in deletedUsers
        \/ DeletedBy(session[d].user)
    BY <2>1 DEF Accounted
  <2>3. \/ session[d].user \in LiveUsers'
        \/ session[d].user \in deletedUsers'
    BY <1>6, <2>1
  <2>4. \A u \in LiveUsers' : u = session[d].user =>
          LiesAt(s, u, "final")' \/ u \in deletedUsers' \/ DeletedBy(u)'
    BY <1>2, <2>2 DEF FileStays, AccountsGrow
  <2>. QED
    BY <2>1, <2>3, <2>4 DEF LiesAt, DeletedBy
<1>9. \A d \in Conns : /\ Inserts(d, s)' /\ blob'[s] # None
                          => blob'[s].at = "final"
                       /\ Trashes(d, s)' /\ blob'[s] # None
                          => blob'[s].at = "trash"
  BY <1>3, <1>4 DEF Accounted, FileStays
<1>10. \A d, e \in Conns : Trashes(d, s)' /\ Trashes(e, s)' => d = e
  BY <1>4 DEF Accounted
<1>11. ASSUME NEW d \in Conns, Undoes(d, s)'
       PROVE  \/ (s \in RowsOf(session[d].user))'
              \/ (session[d].user \in deletedUsers)'
  <2>1. Undoes(d, s) /\ session'[d].user = session[d].user
    BY <1>5, <1>11
  <2>2. \/ s \in RowsOf(session[d].user) \/ session[d].user \in deletedUsers
    BY <2>1 DEF Accounted
  <2>3. \/ session[d].user \in LiveUsers' \/ session[d].user \in deletedUsers'
    BY <1>6, <2>1
  <2>4. \A u \in LiveUsers' : u = session[d].user =>
          s \in RowsOf(u)' \/ u \in deletedUsers'
    BY <2>2 DEF FileStays, AccountsGrow
  <2>. QED
    BY <2>1, <2>3, <2>4 DEF RowsOf
<1>12. ASSUME NEW u \in LiveUsers'
       PROVE  /\ LiesAt(s, u, "tmp")' => \E d \in Conns : Uploads(d, s)'
              /\ LiesAt(s, u, "final")' => \/ s \in RowsOf(u)'
                                          \/ \E d \in Conns : Inserts(d, s)'
              /\ LiesAt(s, u, "trash")' => \E d \in Conns : Trashes(d, s)'
  <2>1. LiesAt(s, u, "tmp")' => \E d \in Conns : Uploads(d, s)'
    BY <1>1 DEF FileStays, RoleStays, Accounted
  <2>2. LiesAt(s, u, "final")' => \/ s \in RowsOf(u)'
                                 \/ \E d \in Conns : Inserts(d, s)'
    BY <1>3 DEF FileStays, Accounted
  <2>3. LiesAt(s, u, "trash")' => \E d \in Conns : Trashes(d, s)'
    BY <1>4 DEF FileStays, Accounted
  <2>. QED
    BY <2>1, <2>2, <2>3
<1>. QED
  BY <1>7, <1>8, <1>9, <1>10, <1>11, <1>12 DEF Accounted

(***************************************************************************)
(* What is left to show of a step: every snapshot stays accounted for, or  *)
(* is accounted for afterwards.                                            *)
(***************************************************************************)
LEMMA StaysCalm ==
    ASSUME ServerInv, ServerInv', SessionsInv, AccountsGrow, Calm,
           NEW c \in Conns, OthersWait(c), DeletionStays(c),
           job'[c].step = "restoreHome" => session'[c].user \in deletedUsers',
           \A s \in SnapshotIds :
             Accounted(s)' \/ (FileStays(s) /\ RoleStays(c, s))
    PROVE  Calm'
<1>1. \A s \in SnapshotIds : Accounted(s)'
  BY StaysAccounted DEF Calm
<1>2. \A d \in Conns : job'[d].step = "restoreHome"
                         => session'[d].user \in deletedUsers'
  BY DEF Calm, OthersWait, AccountsGrow
<1>. QED
  BY <1>1, <1>2 DEF Calm

(***************************************************************************)
(* A step that leaves rows and files alone and is at none of the steps that*)
(* answer for a file.                                                      *)
(***************************************************************************)
LEMMA NothingMoves ==
    ASSUME ServerInv, NEW c \in Conns, NEW s \in SnapshotIds,
           UNCHANGED <<snapshots, blob, home>>,
           \A u \in LiveUsers' : u \in LiveUsers \/ home[u] = None
    PROVE  FileStays(s)
  BY DEF FileStays, LiesAt, RowsOf, Rows

LEMMA RolesStay ==
    ASSUME NEW c \in Conns, job[c].step \notin FileSteps,
           job'[c].step \notin FileSteps, NEW s,
           \A u \in LiveUsers' :
             LiesAt(s, u, "tmp")' /\ Uploads(c, s) => Uploads(c, s)'
    PROVE  RoleStays(c, s)
  BY DEF RoleStays, Inserts, Trashes, Undoes, FileSteps, InsertSteps,
     TrashSteps, UndoSteps

LEMMA StillCalm ==
    ASSUME ServerInv, ServerInv', SessionsInv, AccountsGrow, Calm,
           NEW c \in Conns, OthersWait(c),
           UNCHANGED <<snapshots, blob, home>>,
           \A u \in LiveUsers' : u \in LiveUsers \/ home[u] = None,
           job[c].step \notin FileSteps \cup {"deleteUser"},
           job'[c].step \notin FileSteps \cup {"restoreHome"},
           upload[c] # None => upload'[c] # None /\ upload'[c].id = upload[c].id
    PROVE  Calm'
<1>1. DeletionStays(c)
  BY DEF DeletionStays
<1>2. \A s \in SnapshotIds : FileStays(s) /\ RoleStays(c, s)
  BY NothingMoves, RolesStay DEF Uploads
<1>. QED
  BY <1>1, <1>2, StaysCalm

(***************************************************************************)
(* A file in the directory of an account that is at one of its ids is the  *)
(* account's own.                                                          *)
(***************************************************************************)
LEMMA OwnDirectory ==
    ASSUME ServerInv, OwnersInv, NEW s \in SnapshotIds, NEW u \in UserIds,
           Refers(s, u), NEW v \in UserIds, NEW place, LiesAt(s, v, place)
    PROVE  v = u
  BY DEF OwnersInv, LiesAt

(***************************************************************************)
(* An aborted upload takes its .part file with it, which lies in the       *)
(* directory of its own account.                                           *)
(***************************************************************************)
LEMMA AbortCalm ==
    ASSUME ServerInv, ServerInv', SessionsInv, AccountsGrow, FilesInv, Calm,
           NEW c \in Conns, upload[c] # None, AbortUpload(c),
           \A d \in Conns \ {c} : session'[d] = session[d] /\ job'[d] = job[d],
           UNCHANGED <<username, snapshots, home>>,
           job[c].step \notin FileSteps \cup {"deleteUser"},
           job'[c].step \notin FileSteps \cup {"restoreHome"}
    PROVE  Calm'
<1>1. OthersWait(c) /\ DeletionStays(c)
  BY AbortFields DEF OthersWait, DeletionStays
<1>2. upload[c] \in Upload /\ LiveUsers' = LiveUsers /\ LiveUsers \subseteq UserIds
  BY DEF ServerInv, ServerTypeOK, LiveUsers
<1>3. Refers(upload[c].id, upload[c].user)
  BY DEF Refers
<1>4. ASSUME NEW s \in SnapshotIds
      PROVE  FileStays(s)
  <2>1. blob'[s] = blob[s] \/ (blob'[s] = None /\ blob[s].at = "tmp")
    BY AbortFields DEF LiesAt
  <2>. QED
    BY <1>2, <2>1 DEF FileStays, LiesAt, RowsOf, Rows
<1>5. ASSUME NEW s \in SnapshotIds, NEW u \in LiveUsers',
             LiesAt(s, u, "tmp")', Uploads(c, s)
      PROVE  FALSE
  <2>1. s = upload[c].id /\ blob'[s] # None
    BY <1>5 DEF Uploads, LiesAt
  <2>2. ~LiesAt(s, upload[c].user, "tmp") /\ LiesAt(s, u, "tmp")
    BY <1>5, <2>1, AbortFields DEF LiesAt
  <2>. QED
    BY <1>2, <1>3, <2>1, <2>2, OwnDirectory DEF FilesInv, Upload
<1>6. \A s \in SnapshotIds : RoleStays(c, s)
  BY <1>5, RolesStay
<1>. QED
  BY <1>1, <1>4, <1>6, StaysCalm

LEMMA SessionStepCalm ==
    ASSUME ServerInv, ServerInv', SessionsInv, AccountsGrow, FilesInv, Calm,
           NEW c \in Conns, SessionStep(c)
    PROVE  Calm'
<1>. USE DEF diskVars
<1>0. /\ HandlerInStep(c)
      /\ session \in [Conns -> Sessions]
  BY DEF ServerInv, HandlersInStep, ServerTypeOK, Sessions
<1>1. CASE Disconnect(c)
  <2>1. /\ \A d \in Conns \ {c} : session'[d] = session[d]
        /\ job' = job /\ job[c].step = "idle"
        /\ UNCHANGED <<username, snapshots, home>>
    BY <1>0, <1>1 DEF Disconnect, storeVars
  <2>2. CASE upload[c] # None
    BY <1>1, <2>1, <2>2, AbortCalm DEF Disconnect, FileSteps, InsertSteps,
       TrashSteps
  <2>3. CASE upload[c] = None
    <3>1. UNCHANGED <<upload, blob>>
      BY <1>1, <2>3 DEF Disconnect
    <3>. QED
      BY <2>1, <2>3, <3>1, StillCalm DEF OthersWait, FileSteps, InsertSteps,
         TrashSteps, LiveUsers
  <2>. QED
    BY <2>2, <2>3
<1>2. CASE ~Disconnect(c)
  <2>1. /\ UNCHANGED <<snapshots, home, blob, upload, job>>
        /\ job[c].step = "idle"
        /\ \A d \in Conns \ {c} : session'[d] = session[d]
        /\ username' = username \/ \E name \in Names : CreateUser(name)
    <3>1. CASE Connect(c) \/ Logout(c) \/ RejectIfAccountMissing(c)
      <4>1. /\ ToConnected(c) /\ UNCHANGED <<storeVars, diskVars, upload, job>>
            /\ job[c].step = "idle"
        BY <1>0, <3>1 DEF Connect, Logout, RejectIfAccountMissing, Waits,
                          HandlerInStep
      <4>. QED
        BY <4>1, SessionFields DEF storeVars
    <3>2. CASE \E name \in Names : Register(c, name)
      BY <3>2 DEF Register, connVars, CreateUser, Waits
    <3>3. CASE \E name \in Names : Login(c, name)
      BY <1>0, <3>3 DEF Login, storeVars, Waits
    <3>4. CASE \E u \in UserIds : Resume(c, u)
      BY <1>0, <3>4 DEF Resume, storeVars, Waits
    <3>. QED
      BY <1>2, <3>1, <3>2, <3>3, <3>4, SessionStep(c) DEF SessionStep
  <2>2. \A u \in LiveUsers' : u \in LiveUsers \/ home[u] = None
    <3>1. CASE username' = username
      BY <3>1 DEF LiveUsers
    <3>2. CASE \E name \in Names : CreateUser(name)
      <4>1. PICK id \in UserIds, name \in Names :
              IsNextUserId(id) /\ username' = [username EXCEPT ![id] = name]
        BY <3>2 DEF CreateUser
      <4>2. id \notin Allocated
        BY <4>1 DEF IsNextUserId, UserIds
      <4>3. home[id] = None
        BY <4>2 DEF FilesInv, DirsInv
      <4>4. \A u \in UserIds : u # id => username'[u] = username[u]
        BY <4>1 DEF ServerInv, StoreInv, StoreTypeOK
      <4>. QED
        BY <4>3, <4>4 DEF LiveUsers
    <3>. QED
      BY <2>1, <3>1, <3>2
  <2>. QED
    BY <2>1, <2>2, StillCalm DEF OthersWait, FileSteps, InsertSteps, TrashSteps
<1>. QED
  BY <1>1, <1>2

LEMMA DownloadStepCalm ==
    ASSUME ServerInv, ServerInv', SessionsInv, AccountsGrow, FilesInv, Calm,
           NEW c \in Conns, DownloadStep(c)
    PROVE  Calm'
<1>. USE DEF diskVars, States, Steps
<1>1. /\ UNCHANGED <<username, snapshots, home, blob, upload>>
      /\ job[c].step \in {"idle", "openBlob"}
      /\ \/ \E s : Begin(c, "openBlob", s, None)
         \/ Finish(c)
         \/ UNCHANGED job
      /\ \/ \E state \in States : SetState(c, state)
         \/ UNCHANGED session
  BY DEF DownloadStep, DownloadBegin, OpenBlob, DownloadEnd, Waits, storeVars
<1>2. /\ job'[c].step \in {"idle", "openBlob"}
      /\ \A d \in Conns \ {c} : job'[d] = job[d] /\ session'[d] = session[d]
  BY <1>1, JobFields, SessionFields
<1>. QED
  BY <1>1, <1>2, StillCalm DEF OthersWait, FileSteps, InsertSteps, TrashSteps,
     LiveUsers

-----------------------------------------------------------------------------
(* Uploads while nothing has failed *)

LEMMA EnsureUserDirectoryCalm ==
    ASSUME ServerInv, ServerInv', SessionsInv, AccountsGrow, FilesInv, Calm,
           NEW c \in Conns, EnsureUserDirectory(c)
    PROVE  Calm'
<1>. USE DEF Steps
<1>1. /\ UNCHANGED <<username, snapshots, session, blob, upload>>
      /\ job[c].step = "ensureDir" /\ job'[c].step = "openTemp"
      /\ \A d \in Conns \ {c} : job'[d] = job[d]
  BY JobFields DEF EnsureUserDirectory, storeVars
<1>2. PICK d \in IF home[session[c].user] # None
                  THEN {home[session[c].user]} ELSE FreeDirs :
        home' = [home EXCEPT ![session[c].user] = d]
  BY DEF EnsureUserDirectory
<1>3. \A u \in UserIds : \/ home'[u] = home[u]
                         \/ home[u] = None /\ home'[u] \in FreeDirs
  BY <1>2 DEF ServerInv, ServerTypeOK
<1>4. \A s \in SnapshotIds : blob[s] # None => blob[s].dir \notin FreeDirs
  BY DEF FilesInv, DirsInv, FreeDirs
<1>5. ASSUME NEW s \in SnapshotIds
      PROVE  FileStays(s) /\ RoleStays(c, s)
  <2>1. \A u \in LiveUsers' : u \in LiveUsers /\ u \in UserIds
    BY <1>1 DEF LiveUsers
  <2>2. FileStays(s)
    BY <1>1, <1>3, <1>4, <2>1 DEF FileStays, LiesAt, RowsOf, Rows
  <2>. QED
    BY <1>1, <2>2, RolesStay DEF FileSteps, InsertSteps, TrashSteps, Uploads
<1>. QED
  BY <1>1, <1>5, StaysCalm DEF OthersWait, DeletionStays

LEMMA OpenTempCalm ==
    ASSUME ServerInv, ServerInv', SessionsInv, AccountsGrow, FilesInv, Calm,
           NEW c \in Conns, OpenTemp(c)
    PROVE  Calm'
<1>. USE DEF States
<1>0. PICK q \in SnapshotIds : q = job[c].on
  BY DEF OpenTemp, ServerInv, HandlersInStep, HandlerInStep, ServerTypeOK, Job
<1>1. /\ UNCHANGED <<username, snapshots, home>>
      /\ job[c].step = "openTemp" /\ job'[c].step = "idle"
      /\ \A d \in Conns \ {c} : job'[d] = job[d] /\ session'[d] = session[d]
  BY JobFields, SessionFields DEF OpenTemp, storeVars
<1>2. /\ blob'[q] # None /\ blob'[q].at = "tmp"
      /\ \A s \in SnapshotIds \ {q} : blob'[s] = blob[s]
  <2>1. /\ session[c].user \in UserIds
        /\ home[session[c].user] \in Dirs
        /\ blob \in [SnapshotIds -> Blob \cup {None}]
    BY <1>1 DEF ServerInv, HandlersInStep, HandlerInStep, ServerTypeOK, Job,
       OpenTemp
  <2>2. blob' = [blob EXCEPT ![q] = [dir |-> home[session[c].user],
                                     at |-> "tmp", whole |-> FALSE]]
    BY <1>0 DEF OpenTemp
  <2>3. [dir |-> home[session[c].user], at |-> "tmp", whole |-> FALSE] \in Blob
    BY <2>1 DEF Blob
  <2>. QED
    BY <2>1, <2>2, <2>3
<1>3. /\ upload'[c] # None /\ upload'[c].id = q
      /\ \A d \in Conns \ {c} : upload'[d] = upload[d]
  <2>1. upload' \in [Conns -> Upload \cup {None}]
    BY DEF ServerInv, ServerTypeOK
  <2>2. upload \in [Conns -> Upload \cup {None}]
    BY DEF ServerInv, ServerTypeOK
  <2>3. upload'[c] # None
    BY DEF ServerInv, HandlersInStep, HandlerInStep, OpenTemp, SetState,
       ServerTypeOK, Sessions
  <2>. QED
    BY <1>0, <2>2, <2>3 DEF OpenTemp
<1>4. OthersWait(c) /\ DeletionStays(c)
  BY <1>1, <1>3 DEF OthersWait, DeletionStays
<1>5. \A u \in LiveUsers' : u \in LiveUsers /\ u \in UserIds
  BY <1>1 DEF LiveUsers
<1>6. Accounted(q)'
  <2>1. /\ q \notin Rows'
        /\ \A d \in Conns \ {c} : upload[d] # None => upload[d].id # q
        /\ \A d \in Conns : job[d].step \in TrashSteps => job[d].on # q
    BY <1>0, <1>1 DEF FilesInv, IdsInv, BeginSteps, DeleteSteps, Rows
  <2>2. \A d \in Conns : job'[d].step \in InsertSteps => upload'[d].id # q
    <3>1. \A d \in Conns : job[d].step \in InsertSteps => upload[d] # None
      BY DEF ServerInv, HandlersInStep, HandlerInStep, InsertSteps
    <3>. QED
      BY <1>1, <1>3, <2>1, <3>1 DEF InsertSteps
  <2>3. \A d \in Conns : ~Trashes(d, q)' /\ ~Undoes(d, q)' /\ ~Inserts(d, q)'
    BY <1>1, <2>1, <2>2 DEF Trashes, Undoes, Inserts, TrashSteps, UndoSteps
  <2>. QED
    BY <1>2, <1>3, <2>1, <2>2, <2>3
       DEF Accounted, LiesAt, Uploads, InsertSteps
<1>7. ASSUME NEW s \in SnapshotIds, s # q
      PROVE  FileStays(s) /\ RoleStays(c, s)
  <2>1. FileStays(s)
    BY <1>1, <1>2, <1>5, <1>7 DEF FileStays, LiesAt, RowsOf, Rows
  <2>2. ASSUME NEW u \in LiveUsers', LiesAt(s, u, "tmp")', Uploads(c, s)
        PROVE  FALSE
    <3>1. LiesAt(s, u, "tmp") /\ u \in LiveUsers
      BY <2>1, <2>2 DEF FileStays
    <3>2. upload[c].user \in deletedUsers /\ upload[c].user \in UserIds
      <4>1. UploadInv(c) /\ upload[c] \in Upload
        BY <2>2 DEF FilesInv, UploadsInv, ServerInv, ServerTypeOK, Uploads
      <4>. QED
        BY <1>1, <2>2, <4>1 DEF UploadInv, Uploads, UploadSteps, Upload
    <3>3. Refers(s, upload[c].user)
      BY <2>2 DEF Refers, Uploads
    <3>4. u = upload[c].user
      BY <1>5, <3>1, <3>2, <3>3, OwnDirectory DEF FilesInv
    <3>. QED
      BY <3>1, <3>2, <3>4 DEF AccountsGrow
  <2>. QED
    BY <1>1, <2>1, <2>2, RolesStay DEF FileSteps, InsertSteps, TrashSteps
<1>. QED
  BY <1>1, <1>4, <1>6, <1>7, StaysCalm

(***************************************************************************)
(* An id that is being uploaded: not listed, and no other connection and   *)
(* no deletion is at it.                                                   *)
(***************************************************************************)
LEMMA UploadedIds ==
    ASSUME ServerInv, FilesInv, NEW c \in Conns, job[c].step \in UploadSteps
    PROVE  /\ upload[c] # None /\ upload[c] \in Upload
           /\ upload[c].id \in SnapshotIds
           /\ session[c].user \in UserIds
           /\ upload[c].user = session[c].user
           /\ Refers(upload[c].id, session[c].user)
           /\ upload[c].id \notin Rows
           /\ \A d \in Conns \ {c} : /\ ~Uploads(d, upload[c].id)
                                     /\ ~Inserts(d, upload[c].id)
           /\ \A d \in Conns : /\ ~Trashes(d, upload[c].id)
                               /\ ~Undoes(d, upload[c].id)
<1>1. /\ upload[c] # None /\ upload[c] \in Upload
      /\ session[c].user \in UserIds
      /\ \A d \in Conns : job[d].step \in InsertSteps => upload[d] # None
  BY DEF ServerInv, HandlersInStep, HandlerInStep, UploadSteps, ServerTypeOK,
     InsertSteps
<1>2. upload[c].user = session[c].user
  BY DEF FilesInv, UploadsInv, UploadInv
<1>3. Refers(upload[c].id, session[c].user)
  BY <1>1, <1>2 DEF Refers
<1>4. /\ upload[c].id \notin Rows
      /\ \A d \in Conns \ {c} : upload[d] # None => upload[d].id # upload[c].id
      /\ \A d \in Conns : job[d].step \in TrashSteps => job[d].on # upload[c].id
  BY <1>1 DEF FilesInv, IdsInv, DeleteSteps
<1>. QED
  BY <1>1, <1>2, <1>3, <1>4
     DEF Uploads, Inserts, Trashes, Undoes, UndoSteps, TrashSteps, Upload

(***************************************************************************)
(* The .part file of an upload becomes the blob of the UPLOAD_END that is  *)
(* about to write its row.                                                 *)
(***************************************************************************)
LEMMA PublishCalm ==
    ASSUME ServerInv, ServerInv', SessionsInv, AccountsGrow, FilesInv, Calm,
           NEW c \in Conns, Publish(c)
    PROVE  Calm'
<1>. USE DEF Steps
<1>0. PICK q : q = upload[c].id
  OBVIOUS
<1>1. /\ UNCHANGED <<username, snapshots, home, session, upload>>
      /\ job[c].step = "publish" /\ job'[c].step = "insert"
      /\ \A d \in Conns \ {c} : job'[d] = job[d]
      /\ LiesAt(q, session[c].user, "tmp")
  BY <1>0, JobFields DEF Publish, storeVars
<1>2. /\ q \in SnapshotIds /\ q \notin Rows
      /\ \A d \in Conns \ {c} : ~Uploads(d, q) /\ ~Inserts(d, q)
      /\ \A d \in Conns : ~Trashes(d, q) /\ ~Undoes(d, q)
  BY <1>0, <1>1, UploadedIds DEF UploadSteps
<1>3. /\ blob'[q] # None /\ blob'[q].at = "final" /\ blob'[q].dir = blob[q].dir
      /\ \A s \in SnapshotIds \ {q} : blob'[s] = blob[s]
  <2>1. blob[q] \in Blob /\ blob \in [SnapshotIds -> Blob \cup {None}]
    BY <1>1, <1>2 DEF ServerInv, ServerTypeOK, LiesAt
  <2>2. blob' \in [SnapshotIds -> Blob \cup {None}]
    BY DEF ServerInv, ServerTypeOK
  <2>3. /\ blob'[q] = [blob[q] EXCEPT !.at = "final",
                                     !.whole = (upload[c].content = "whole")]
        /\ \A s \in SnapshotIds \ {q} : blob'[s] = blob[s]
    BY <1>0, <1>2, <2>1 DEF Publish
  <2>4. [blob[q] EXCEPT !.at = "final",
                        !.whole = (upload[c].content = "whole")] \in Blob
    BY <2>1, BlobFields
  <2>5. blob'[q] \in Blob /\ blob'[q].at = "final" /\ blob'[q].dir = blob[q].dir
    BY <2>1, <2>3, <2>4 DEF Blob
  <2>. QED
    BY <2>3, <2>5
<1>4. OthersWait(c) /\ DeletionStays(c)
  BY <1>1 DEF OthersWait, DeletionStays
<1>5. \A u \in LiveUsers' : u \in LiveUsers /\ u \in UserIds
  BY <1>1 DEF LiveUsers
<1>6. Accounted(q)'
  <2>1. /\ q \notin Rows'
        /\ \A d \in Conns \ {c} : ~Uploads(d, q)' /\ ~Inserts(d, q)'
        /\ \A d \in Conns : ~Trashes(d, q)' /\ ~Undoes(d, q)'
        /\ Inserts(c, q)' /\ Uploads(c, q)'
    BY <1>0, <1>1, <1>2, UploadedIds DEF Rows, Uploads, Inserts, Trashes, Undoes,
       InsertSteps, TrashSteps, UndoSteps, UploadSteps
  <2>2. LiesAt(q, session[c].user, "final")'
    BY <1>1, <1>3 DEF LiesAt
  <2>3. \A d \in Conns : job'[d].step = "insert" /\ upload'[d].id = q => d = c
    BY <2>1 DEF Inserts, InsertSteps
  <2>. QED
    BY <1>1, <1>3, <2>1, <2>2, <2>3 DEF Accounted, LiesAt
<1>7. ASSUME NEW s \in SnapshotIds, s # q
      PROVE  FileStays(s) /\ RoleStays(c, s)
  <2>1. FileStays(s)
    BY <1>1, <1>3, <1>5, <1>7 DEF FileStays, LiesAt, RowsOf, Rows
  <2>. QED
    BY <1>0, <1>1, <1>7, <2>1 DEF RoleStays, Uploads, Inserts, Trashes, Undoes,
       InsertSteps, TrashSteps, UndoSteps
<1>. QED
  BY <1>1, <1>4, <1>6, <1>7, StaysCalm

(***************************************************************************)
(* The blob gets its row.                                                  *)
(***************************************************************************)
LEMMA InsertRowCalm ==
    ASSUME ServerInv, ServerInv', SessionsInv, AccountsGrow, FilesInv, Calm,
           NEW c \in Conns, InsertRow(c)
    PROVE  Calm'
<1>. USE DEF diskVars, States
<1>0. PICK q : q = upload[c].id
  OBVIOUS
<1>1. /\ UNCHANGED <<username, deletedUsers, home, blob>>
      /\ job[c].step = "insert" /\ job'[c].step = "idle" /\ upload'[c] = None
      /\ \A d \in Conns \ {c} : /\ job'[d] = job[d] /\ session'[d] = session[d]
                               /\ upload'[d] = upload[d]
  <2>1. upload \in [Conns -> Upload \cup {None}]
    BY DEF ServerInv, ServerTypeOK
  <2>. QED
    BY <2>1, JobFields, SessionFields DEF InsertRow, InsertSnapshot, ResetUpload
<1>2. /\ q \in SnapshotIds /\ q \notin Rows
      /\ \A d \in Conns \ {c} : ~Uploads(d, q) /\ ~Inserts(d, q)
      /\ \A d \in Conns : ~Trashes(d, q) /\ ~Undoes(d, q)
      /\ session[c].user \in UserIds /\ Refers(q, session[c].user)
  BY <1>0, <1>1, UploadedIds DEF UploadSteps
<1>3. /\ snapshots' = [snapshots EXCEPT ![q] = RowOf(c)]
      /\ session[c].user \in LiveUsers
  BY <1>0 DEF InsertRow, InsertSnapshot, InsertSnapshotResult, Constraint,
     RowOf
<1>4. /\ \A s \in SnapshotIds \ {q} : snapshots'[s] = snapshots[s]
      /\ q \in Rows' /\ snapshots'[q].user = session[c].user
  <2>1. snapshots \in [SnapshotIds -> Row \cup {NoRow}]
    BY DEF ServerInv, StoreInv, StoreTypeOK
  <2>2. RowOf(c).user = session[c].user
    BY DEF RowOf
  <2>3. snapshots' \in [SnapshotIds -> Row \cup {NoRow}]
    BY DEF ServerInv, StoreInv, StoreTypeOK
  <2>4. snapshots'[q] = RowOf(c) /\ \A s \in SnapshotIds \ {q} : snapshots'[s] = snapshots[s]
    BY <1>2, <1>3, <2>1
  <2>5. snapshots'[q] # NoRow
    <3>1. /\ upload[c] \in Upload /\ now \in Nat
      BY <1>1, UploadedIds DEF UploadSteps, ServerInv, StoreInv, StoreTypeOK
    <3>2. RowOf(c) \in Row
      BY <1>2, <3>1, LimitsAssumption DEF RowOf, Row, Upload, Offer
    <3>. QED
      BY <2>4, <3>2, NoRowAssumption
  <2>. QED
    BY <1>2, <2>2, <2>4, <2>5 DEF Rows
<1>5. OthersWait(c) /\ DeletionStays(c)
  BY <1>1 DEF OthersWait, DeletionStays
<1>6. LiveUsers' = LiveUsers /\ LiveUsers \subseteq UserIds
  BY <1>1 DEF LiveUsers
<1>7. Accounted(q)'
  <2>1. /\ \A d \in Conns : ~Uploads(d, q)' /\ ~Inserts(d, q)'
        /\ \A d \in Conns : ~Trashes(d, q)' /\ ~Undoes(d, q)'
    BY <1>1, <1>2 DEF Uploads, Inserts, Trashes, Undoes, InsertSteps,
       TrashSteps, UndoSteps
  <2>2. blob[q] # None => blob[q].at = "final"
    <3>1. Inserts(c, q)
      BY <1>0, <1>1 DEF Inserts, InsertSteps
    <3>. QED
      BY <1>2, <3>1 DEF Calm, Accounted
  <2>3. LiesAt(q, session[c].user, "final") \/ DeletedBy(session[c].user)
    BY <1>0, <1>1, <1>2, <1>3 DEF Calm, Accounted, AccountsGrow
  <2>4. \/ LiesAt(q, snapshots[q].user, "final")'
        \/ DeletedBy(snapshots[q].user)'
    <3>1. CASE LiesAt(q, session[c].user, "final")
      BY <1>1, <1>4, <3>1 DEF LiesAt
    <3>2. CASE DeletedBy(session[c].user)
      BY <1>1, <1>4, <3>2 DEF DeletedBy
    <3>. QED
      BY <2>3, <3>1, <3>2
  <2>5. \A u \in LiveUsers', place \in {"tmp", "final", "trash"} :
          LiesAt(q, u, place)' => u = session[c].user /\ place = "final"
    <3>1. \A u \in LiveUsers, place \in {"tmp", "final", "trash"} :
            LiesAt(q, u, place) => u = session[c].user /\ place = "final"
      BY <1>2, <1>6, <2>2, OwnDirectory DEF FilesInv, LiesAt
    <3>. QED
      BY <1>1, <1>6, <3>1 DEF LiesAt
  <2>6. \A d \in Conns : ~(job'[d].step = "insert" /\ upload'[d].id = q)
    BY <2>1 DEF Inserts, InsertSteps
  <2>7. \A u : u = session[c].user => q \in RowsOf(u)'
    BY <1>4 DEF RowsOf
  <2>8. \A u \in LiveUsers' :
          /\ LiesAt(q, u, "tmp")' => FALSE
          /\ LiesAt(q, u, "final")' => q \in RowsOf(u)'
          /\ LiesAt(q, u, "trash")' => FALSE
    BY <2>5, <2>7
  <2>. QED
    BY <2>1, <2>4, <2>6, <2>8 DEF Accounted
<1>8. ASSUME NEW s \in SnapshotIds, s # q
      PROVE  FileStays(s) /\ RoleStays(c, s)
  <2>1. FileStays(s)
    BY <1>1, <1>4, <1>6, <1>8 DEF FileStays, LiesAt, RowsOf, Rows
  <2>. QED
    BY <1>0, <1>1, <1>8, <2>1 DEF RoleStays, Uploads, Inserts, Trashes, Undoes,
       InsertSteps, TrashSteps, UndoSteps
<1>. QED
  BY <1>1, <1>5, <1>7, <1>8, StaysCalm

LEMMA InsertRowFailsCalm ==
    ASSUME ServerInv, ServerInv', SessionsInv, AccountsGrow, FilesInv, Calm,
           NEW c \in Conns, InsertRowFails(c)
    PROVE  Calm'
<1>. USE DEF diskVars, Steps
<1>1. /\ UNCHANGED <<username, snapshots, home, blob, session, upload>>
      /\ job[c].step = "insert" /\ job'[c].step = "unpublish"
      /\ \A d \in Conns \ {c} : job'[d] = job[d]
  BY JobFields DEF InsertRowFails, storeVars
<1>2. \A s \in SnapshotIds : FileStays(s)
  BY <1>1, NothingMoves DEF LiveUsers
<1>3. \A s \in SnapshotIds : RoleStays(c, s)
  BY <1>1 DEF RoleStays, Uploads, Inserts, Trashes, Undoes, InsertSteps,
     TrashSteps, UndoSteps
<1>. QED
  BY <1>1, <1>2, <1>3, StaysCalm DEF OthersWait, DeletionStays

(***************************************************************************)
(* A blob whose row was refused is taken back.                             *)
(***************************************************************************)
LEMMA UnpublishCalm ==
    ASSUME ServerInv, ServerInv', SessionsInv, AccountsGrow, FilesInv, Calm,
           NEW c \in Conns, Unpublish(c), faults' = faults
    PROVE  Calm'
<1>. USE DEF States
<1>0. PICK q : q = upload[c].id
  OBVIOUS
<1>1. /\ UNCHANGED <<username, snapshots, home>>
      /\ job[c].step = "unpublish" /\ job'[c].step = "idle" /\ upload'[c] = None
      /\ \A d \in Conns \ {c} : /\ job'[d] = job[d] /\ session'[d] = session[d]
                               /\ upload'[d] = upload[d]
  <2>1. upload \in [Conns -> Upload \cup {None}]
    BY DEF ServerInv, ServerTypeOK
  <2>. QED
    BY <2>1, JobFields, SessionFields DEF Unpublish, ResetUpload, storeVars
<1>2. /\ q \in SnapshotIds /\ q \notin Rows
      /\ \A d \in Conns \ {c} : ~Uploads(d, q) /\ ~Inserts(d, q)
      /\ \A d \in Conns : ~Trashes(d, q) /\ ~Undoes(d, q)
      /\ session[c].user \in UserIds /\ Refers(q, session[c].user)
  BY <1>0, <1>1, UploadedIds DEF UploadSteps
<1>3. blob' = Unlinked(q, session[c].user, "final")
  <2>1. ~Fault
    BY DEF Fault, ServerInv, ServerTypeOK
  <2>. QED
    BY <1>0, <2>1 DEF Unpublish
<1>4. /\ blob'[q] = None \/ (blob' = blob /\ ~LiesAt(q, session[c].user, "final"))
      /\ \A s \in SnapshotIds \ {q} : blob'[s] = blob[s]
  BY <1>2, <1>3 DEF Unlinked, ServerInv, ServerTypeOK
<1>5. OthersWait(c) /\ DeletionStays(c)
  BY <1>1 DEF OthersWait, DeletionStays
<1>6. LiveUsers' = LiveUsers /\ LiveUsers \subseteq UserIds
  BY <1>1 DEF LiveUsers
<1>7. Accounted(q)'
  <2>1. /\ \A d \in Conns : ~Uploads(d, q)' /\ ~Inserts(d, q)'
        /\ \A d \in Conns : ~Trashes(d, q)' /\ ~Undoes(d, q)'
        /\ q \notin Rows'
    BY <1>1, <1>2 DEF Uploads, Inserts, Trashes, Undoes, InsertSteps,
       TrashSteps, UndoSteps, Rows
  <2>2. blob[q] # None => blob[q].at = "final"
    <3>1. Inserts(c, q)
      BY <1>0, <1>1 DEF Inserts, InsertSteps
    <3>. QED
      BY <1>2, <3>1 DEF Calm, Accounted
  <2>3. \A u \in LiveUsers', place \in {"tmp", "final", "trash"} :
          ~LiesAt(q, u, place)'
    <3>1. \A u \in LiveUsers, place \in {"tmp", "final", "trash"} :
            LiesAt(q, u, place) => LiesAt(q, session[c].user, "final")
      BY <1>2, <1>6, <2>2, OwnDirectory DEF FilesInv, LiesAt
    <3>. QED
      BY <1>1, <1>4, <1>6, <3>1 DEF LiesAt
  <2>4. \A d \in Conns : ~(job'[d].step = "insert" /\ upload'[d].id = q)
    BY <2>1 DEF Inserts, InsertSteps
  <2>. QED
    BY <2>1, <2>3, <2>4 DEF Accounted
<1>8. ASSUME NEW s \in SnapshotIds, s # q
      PROVE  FileStays(s) /\ RoleStays(c, s)
  <2>1. FileStays(s)
    BY <1>1, <1>4, <1>6, <1>8 DEF FileStays, LiesAt, RowsOf, Rows
  <2>. QED
    BY <1>0, <1>1, <1>8, <2>1 DEF RoleStays, Uploads, Inserts, Trashes, Undoes,
       InsertSteps, TrashSteps, UndoSteps
<1>. QED
  BY <1>1, <1>5, <1>7, <1>8, StaysCalm

LEMMA UploadStepCalm ==
    ASSUME ServerInv, ServerInv', SessionsInv, AccountsGrow, FilesInv, Calm,
           NEW c \in Conns, UploadStep(c), faults' = faults
    PROVE  Calm'
<1>. USE DEF diskVars, States, Steps
<1>1. CASE UploadBegin(c) \/ OpenTempFails(c) \/ UploadChunk(c)
  <2>1. /\ UNCHANGED <<username, snapshots, home, blob, session>>
        /\ job[c].step \in {"idle", "ensureDir", "openTemp"}
        /\ \/ \E s, offer : Begin(c, "ensureDir", s, offer)
           \/ Finish(c)
           \/ UNCHANGED job
    BY <1>1 DEF UploadBegin, OpenTempFails, UploadChunk, Waits, storeVars
  <2>2. /\ job'[c].step \in {"idle", "ensureDir", "openTemp"}
        /\ \A d \in Conns \ {c} : job'[d] = job[d]
    BY <2>1, JobFields
  <2>3. /\ upload[c] # None => upload'[c] # None /\ upload'[c].id = upload[c].id
        /\ \A d \in Conns \ {c} : upload'[d] = upload[d]
    <3>1. CASE UploadChunk(c)
      <4>1. PICK content : upload' = [upload EXCEPT ![c].content = content]
        BY <3>1 DEF UploadChunk
      <4>2. /\ upload \in [Conns -> Upload \cup {None}]
            /\ upload' \in [Conns -> Upload \cup {None}]
            /\ upload[c] # None /\ upload'[c] # None
        BY <3>1 DEF ServerInv, ServerTypeOK, HandlersInStep, HandlerInStep,
           UploadChunk, Waits
      <4>3. upload'[c] = [upload[c] EXCEPT !.content = content]
        BY <4>1, <4>2
      <4>. QED
        BY <4>1, <4>2, <4>3 DEF Upload
    <3>2. CASE UNCHANGED upload
      BY <3>2
    <3>. QED
      BY <1>1, <3>1, <3>2 DEF UploadBegin, OpenTempFails
  <2>. QED
    BY <2>1, <2>2, <2>3, StillCalm DEF OthersWait, FileSteps, InsertSteps,
       TrashSteps, LiveUsers
<1>2. CASE UploadEnd(c) /\ UploadEndChecks(c)
  <2>1. /\ UNCHANGED <<username, snapshots, home, blob, session, upload>>
        /\ job[c].step = "idle" /\ job'[c].step = "publish"
        /\ \A d \in Conns \ {c} : job'[d] = job[d]
    BY <1>2, JobFields DEF UploadEnd, Waits, storeVars
  <2>. QED
    BY <2>1, StillCalm DEF OthersWait, FileSteps, InsertSteps, TrashSteps,
       LiveUsers
<1>3. CASE \/ RejectChunk(c) \/ PublishFails(c)
           \/ (UploadEnd(c) /\ ~UploadEndChecks(c))
  <2>1. /\ AbortUpload(c) /\ SetState(c, "kAuthenticated")
        /\ UNCHANGED <<username, snapshots, home>>
        /\ job[c].step \in {"idle", "publish"}
        /\ Finish(c) \/ (UNCHANGED job /\ job[c].step = "idle")
    BY <1>3 DEF RejectChunk, PublishFails, UploadEnd, Waits, storeVars
  <2>2. upload[c] # None
    BY <1>3 DEF ServerInv, HandlersInStep, HandlerInStep, RejectChunk,
       PublishFails, UploadEnd, Waits
  <2>3. /\ job'[c].step = "idle"
        /\ \A d \in Conns \ {c} : job'[d] = job[d] /\ session'[d] = session[d]
    BY <2>1, JobFields, SessionFields
  <2>. QED
    BY <2>1, <2>2, <2>3, AbortCalm DEF FileSteps, InsertSteps, TrashSteps
<1>. QED
  BY <1>1, <1>2, <1>3, EnsureUserDirectoryCalm, OpenTempCalm, PublishCalm,
     InsertRowCalm, InsertRowFailsCalm, UnpublishCalm DEF UploadStep

-----------------------------------------------------------------------------
(* Deletions while nothing has failed *)

(***************************************************************************)
(* An id that is being deleted: its files are of the account of the        *)
(* session, and no upload is at it.                                        *)
(***************************************************************************)
LEMMA DeletedIds ==
    ASSUME ServerInv, FilesInv, NEW c \in Conns, job[c].step \in DeleteSteps
    PROVE  /\ job[c].on \in SnapshotIds
           /\ session[c].user \in UserIds
           /\ Refers(job[c].on, session[c].user)
           /\ job[c].on \in Rows => snapshots[job[c].on].user = session[c].user
           /\ \A d \in Conns : /\ ~Uploads(d, job[c].on)
                               /\ ~Inserts(d, job[c].on)
<1>1. /\ job[c].on \in SnapshotIds /\ session[c].user \in UserIds
      /\ \A d \in Conns : job[d].step \in InsertSteps => upload[d] # None
  BY DEF ServerInv, HandlersInStep, HandlerInStep, DeleteSteps, TrashSteps,
     ServerTypeOK, InsertSteps, Job
<1>2. /\ job[c].on \in Rows => snapshots[job[c].on].user = session[c].user
      /\ \A d \in Conns : upload[d] # None => upload[d].id # job[c].on
  BY DEF FilesInv, IdsInv
<1>. QED
  BY <1>1, <1>2 DEF Uploads, Inserts, Refers

LEMMA DeletionsElsewhere ==
    ASSUME NEW c \in Conns, NEW s, s # job[c].on,
           job[c].step \in DeleteSteps,
           job'[c].step = "idle"
             \/ (job'[c].step \in DeleteSteps /\ job'[c].on = job[c].on),
           UNCHANGED upload
    PROVE  RoleStays(c, s)
  BY DEF RoleStays, Uploads, Inserts, Trashes, Undoes, InsertSteps, DeleteSteps,
     TrashSteps, UndoSteps

(***************************************************************************)
(* One deletion moves the blob of a row to the trash.  Another that was    *)
(* let in for the same row finds it gone.                                  *)
(***************************************************************************)
LEMMA TrashBlobCalm ==
    ASSUME ServerInv, ServerInv', SessionsInv, AccountsGrow, FilesInv, Calm,
           NEW c \in Conns, TrashBlob(c), faults' = faults
    PROVE  Calm'
<1>. USE DEF Steps
<1>0. PICK q : q = job[c].on
  OBVIOUS
<1>1. /\ UNCHANGED <<username, snapshots, home, session, upload>>
      /\ job[c].step = "trashBlob"
      /\ Finish(c) \/ Goto(c, "deleteRow")
  BY DEF TrashBlob, storeVars
<1>2. /\ q \in SnapshotIds /\ session[c].user \in UserIds
      /\ Refers(q, session[c].user)
      /\ q \in Rows => snapshots[q].user = session[c].user
      /\ \A d \in Conns : ~Uploads(d, q) /\ ~Inserts(d, q)
  BY <1>0, <1>1, DeletedIds DEF DeleteSteps
<1>3. ~Fault
  BY DEF Fault, ServerInv, ServerTypeOK
<1>4. \A d \in Conns \ {c} : job'[d] = job[d]
  BY <1>1, JobFields
<1>5. LiveUsers' = LiveUsers /\ LiveUsers \subseteq UserIds
  BY <1>1 DEF LiveUsers
<1>6. OthersWait(c) /\ DeletionStays(c)
  BY <1>1, <1>4 DEF OthersWait, DeletionStays
<1>7. CASE ~LiesAt(q, session[c].user, "final")
  <2>1. UNCHANGED blob /\ job'[c].step = "idle"
    BY <1>0, <1>3, <1>7, JobFields DEF TrashBlob
  <2>. QED
    BY <1>1, <1>5, <1>6, <2>1, StillCalm DEF FileSteps, InsertSteps, TrashSteps
<1>8. CASE LiesAt(q, session[c].user, "final")
  <2>1. /\ blob' = Moved(q, "trash")
        /\ job'[c].step = "deleteRow" /\ job'[c].on = q
    BY <1>0, <1>3, <1>8, JobFields DEF TrashBlob
  <2>2. /\ blob'[q] # None /\ blob'[q].at = "trash"
        /\ blob'[q].dir = blob[q].dir
        /\ \A s \in SnapshotIds \ {q} : blob'[s] = blob[s]
    <3>1. blob \in [SnapshotIds -> Blob \cup {None}] /\ blob[q] # None
      BY <1>8 DEF ServerInv, ServerTypeOK, LiesAt
    <3>. QED
      BY <1>2, <2>1, <3>1 DEF Moved, Blob
  <2>3. \A d \in Conns : ~Trashes(d, q) /\ ~Undoes(d, q)
    BY <1>2, <1>8 DEF Calm, Accounted, LiesAt, Trashes, Undoes, UndoSteps,
       TrashSteps
  <2>4. Accounted(q)'
    <3>1. /\ \A d \in Conns : ~Uploads(d, q)' /\ ~Inserts(d, q)'
          /\ Trashes(c, q)' /\ Undoes(c, q)'
          /\ \A d \in Conns \ {c} : ~Trashes(d, q)' /\ ~Undoes(d, q)'
      BY <1>1, <1>2, <1>4, <2>1, <2>3 DEF Uploads, Inserts, Trashes, Undoes,
         InsertSteps, TrashSteps, UndoSteps
    <3>2. q \in Rows' => /\ LiesAt(q, snapshots[q].user, "trash")'
                         /\ \E d \in Conns : Undoes(d, q)'
      BY <1>1, <1>2, <1>8, <2>2, <3>1 DEF LiesAt, Rows
    <3>3. \/ q \in RowsOf(session[c].user)
          \/ session[c].user \in deletedUsers
      <4>1. CASE session[c].user \in LiveUsers
        BY <1>2, <1>8, <4>1 DEF Calm, Accounted
      <4>2. CASE session[c].user \notin LiveUsers
        BY <1>2, <4>2 DEF SessionsInv, Allocated
      <4>. QED
        BY <4>1, <4>2
    <3>4. \/ (q \in RowsOf(session[c].user))'
          \/ (session[c].user \in deletedUsers)'
      BY <1>1, <3>3 DEF RowsOf, Rows, AccountsGrow
    <3>5. \A d \in Conns : ~(job'[d].step = "insert" /\ upload'[d].id = q)
      BY <3>1 DEF Inserts, InsertSteps
    <3>. QED
      BY <2>2, <3>1, <3>2, <3>4, <3>5 DEF Accounted, LiesAt
  <2>5. ASSUME NEW s \in SnapshotIds, s # q
        PROVE  FileStays(s) /\ RoleStays(c, s)
    <3>1. FileStays(s)
      BY <1>1, <1>5, <2>2, <2>5 DEF FileStays, LiesAt, RowsOf, Rows
    <3>. QED
      BY <1>0, <1>1, <2>1, <2>5, <3>1, DeletionsElsewhere
         DEF DeleteSteps, TrashSteps
  <2>. QED
    BY <1>6, <2>1, <2>4, <2>5, StaysCalm
<1>. QED
  BY <1>7, <1>8

(***************************************************************************)
(* The row goes while its file is in the trash.                            *)
(***************************************************************************)
LEMMA DeleteRowCalm ==
    ASSUME ServerInv, ServerInv', SessionsInv, AccountsGrow, FilesInv, Calm,
           NEW c \in Conns, DeleteRow(c)
    PROVE  Calm'
<1>. USE DEF diskVars, Steps
<1>0. PICK q : q = job[c].on
  OBVIOUS
<1>1. /\ UNCHANGED <<username, deletedUsers, home, blob, session, upload>>
      /\ snapshots' = [snapshots EXCEPT ![q] = NoRow]
      /\ job[c].step = "deleteRow"
      /\ job'[c].step = "purgeBlob" /\ job'[c].on = q
      /\ \A d \in Conns \ {c} : job'[d] = job[d]
  BY <1>0, JobFields DEF DeleteRow, DeleteSnapshot
<1>2. /\ q \in SnapshotIds /\ session[c].user \in UserIds
      /\ \A d \in Conns : ~Uploads(d, q) /\ ~Inserts(d, q)
  BY <1>0, <1>1, DeletedIds DEF DeleteSteps, TrashSteps
<1>3. \A s \in SnapshotIds \ {q} : snapshots'[s] = snapshots[s]
  BY <1>1 DEF ServerInv, StoreInv, StoreTypeOK
<1>4. q \notin Rows'
  BY <1>1, <1>2 DEF Rows, ServerInv, StoreInv, StoreTypeOK
<1>5. LiveUsers' = LiveUsers /\ LiveUsers \subseteq UserIds
  BY <1>1 DEF LiveUsers
<1>6. OthersWait(c) /\ DeletionStays(c)
  BY <1>1 DEF OthersWait, DeletionStays
<1>7. Accounted(q)'
  <2>1. Trashes(c, q)
    BY <1>0, <1>1 DEF Trashes, TrashSteps
  <2>2. /\ \A d \in Conns \ {c} : ~Trashes(d, q) /\ ~Undoes(d, q)
        /\ blob[q] # None => blob[q].at = "trash"
    BY <1>2, <2>1 DEF Calm, Accounted, Trashes, Undoes, UndoSteps, TrashSteps
  <2>3. /\ \A d \in Conns : ~Uploads(d, q)' /\ ~Inserts(d, q)'
        /\ Trashes(c, q)' /\ ~Undoes(c, q)'
        /\ \A d \in Conns \ {c} : ~Trashes(d, q)' /\ ~Undoes(d, q)'
    BY <1>1, <1>2, <2>2 DEF Uploads, Inserts, Trashes, Undoes, InsertSteps,
       TrashSteps, UndoSteps
  <2>4. \A d \in Conns : ~(job'[d].step = "insert" /\ upload'[d].id = q)
    BY <2>3 DEF Inserts, InsertSteps
  <2>. QED
    BY <1>1, <1>4, <2>2, <2>3, <2>4 DEF Accounted, LiesAt
<1>8. ASSUME NEW s \in SnapshotIds, s # q
      PROVE  FileStays(s) /\ RoleStays(c, s)
  <2>1. FileStays(s)
    BY <1>1, <1>3, <1>5, <1>8 DEF FileStays, LiesAt, RowsOf, Rows
  <2>. QED
    BY <1>0, <1>1, <1>8, <2>1, DeletionsElsewhere DEF DeleteSteps, TrashSteps
<1>. QED
  BY <1>1, <1>6, <1>7, <1>8, StaysCalm

LEMMA DeleteRowFailsCalm ==
    ASSUME ServerInv, ServerInv', SessionsInv, AccountsGrow, FilesInv, Calm,
           NEW c \in Conns, DeleteRowFails(c)
    PROVE  Calm'
<1>. USE DEF diskVars, Steps
<1>1. /\ UNCHANGED <<username, snapshots, home, blob, session, upload>>
      /\ job[c].step = "deleteRow"
      /\ job'[c].step = "restoreBlob" /\ job'[c].on = job[c].on
      /\ \A d \in Conns \ {c} : job'[d] = job[d]
  BY JobFields DEF DeleteRowFails, storeVars
<1>2. \A s \in SnapshotIds : FileStays(s)
  BY <1>1, NothingMoves DEF LiveUsers
<1>3. \A s \in SnapshotIds : RoleStays(c, s)
  BY <1>1 DEF RoleStays, Uploads, Inserts, Trashes, Undoes, InsertSteps,
     TrashSteps, UndoSteps
<1>. QED
  BY <1>1, <1>2, <1>3, StaysCalm DEF OthersWait, DeletionStays

(***************************************************************************)
(* A deletion that was refused still has its row to put the file back for. *)
(***************************************************************************)
LEMMA RestoreBlobCalm ==
    ASSUME ServerInv, ServerInv', SessionsInv, AccountsGrow, FilesInv, Calm,
           NEW c \in Conns, RestoreBlob(c), faults' = faults
    PROVE  Calm'
<1>0. PICK q : q = job[c].on
  OBVIOUS
<1>1. /\ UNCHANGED <<username, snapshots, home, session, upload>>
      /\ job[c].step = "restoreBlob" /\ job'[c].step = "idle"
      /\ \A d \in Conns \ {c} : job'[d] = job[d]
  BY JobFields DEF RestoreBlob, storeVars
<1>2. /\ q \in SnapshotIds /\ session[c].user \in UserIds
      /\ Refers(q, session[c].user)
      /\ q \in Rows => snapshots[q].user = session[c].user
      /\ \A d \in Conns : ~Uploads(d, q) /\ ~Inserts(d, q)
  BY <1>0, <1>1, DeletedIds DEF DeleteSteps, TrashSteps
<1>3. blob' = IF LiesAt(q, session[c].user, "trash")
                THEN Moved(q, "final") ELSE blob
  <2>1. ~Fault
    BY DEF Fault, ServerInv, ServerTypeOK
  <2>. QED
    BY <1>0, <2>1 DEF RestoreBlob
<1>4. /\ \A s \in SnapshotIds \ {q} : blob'[s] = blob[s]
      /\ LiesAt(q, session[c].user, "trash") =>
           /\ blob'[q] # None /\ blob'[q].at = "final"
           /\ blob'[q].dir = blob[q].dir
  <2>1. blob \in [SnapshotIds -> Blob \cup {None}]
    BY DEF ServerInv, ServerTypeOK
  <2>. QED
    BY <1>2, <1>3, <2>1 DEF Moved, Blob, LiesAt
<1>5. LiveUsers' = LiveUsers /\ LiveUsers \subseteq UserIds
  BY <1>1 DEF LiveUsers
<1>6. OthersWait(c) /\ DeletionStays(c)
  BY <1>1 DEF OthersWait, DeletionStays
<1>7. Accounted(q)'
  <2>1. Trashes(c, q) /\ Undoes(c, q)
    BY <1>0, <1>1 DEF Trashes, TrashSteps, Undoes, UndoSteps
  <2>2. /\ \A d \in Conns \ {c} : ~Trashes(d, q) /\ ~Undoes(d, q)
        /\ blob[q] # None => blob[q].at = "trash"
        /\ \/ q \in RowsOf(session[c].user)
           \/ session[c].user \in deletedUsers
    BY <1>2, <2>1 DEF Calm, Accounted, Trashes, Undoes, UndoSteps, TrashSteps
  <2>3. /\ \A d \in Conns : ~Uploads(d, q)' /\ ~Inserts(d, q)'
        /\ \A d \in Conns : ~Trashes(d, q)' /\ ~Undoes(d, q)'
    BY <1>1, <1>2, <2>2 DEF Uploads, Inserts, Trashes, Undoes, InsertSteps,
       TrashSteps, UndoSteps
  <2>4. ASSUME q \in Rows'
        PROVE  \/ LiesAt(q, snapshots[q].user, "final")'
               \/ DeletedBy(snapshots[q].user)'
    <3>1. q \in Rows /\ snapshots[q].user = session[c].user
      BY <1>1, <1>2, <2>4 DEF Rows
    <3>2. \/ LiesAt(q, session[c].user, "trash")
          \/ DeletedBy(session[c].user)
      BY <1>2, <2>2, <3>1 DEF Calm, Accounted, LiesAt
    <3>3. CASE LiesAt(q, session[c].user, "trash")
      BY <1>1, <1>4, <3>1, <3>3 DEF LiesAt
    <3>4. CASE DeletedBy(session[c].user)
      BY <1>1, <3>1, <3>4 DEF DeletedBy
    <3>. QED
      BY <3>2, <3>3, <3>4
  <2>5. \A u \in LiveUsers, place \in {"tmp", "final", "trash"} :
          LiesAt(q, u, place) => LiesAt(q, session[c].user, "trash")
    BY <1>2, <1>5, <2>2, OwnDirectory DEF FilesInv, LiesAt
  <2>6. \A u \in LiveUsers', place \in {"tmp", "final", "trash"} :
          LiesAt(q, u, place)' => place = "final" /\ q \in RowsOf(u)'
    <3>1. ASSUME NEW u \in LiveUsers', NEW place \in {"tmp", "final", "trash"},
                 LiesAt(q, u, place)'
          PROVE  place = "final" /\ q \in RowsOf(u)'
      <4>1. LiesAt(q, session[c].user, "trash")
        BY <1>1, <1>3, <1>5, <2>5, <3>1 DEF LiesAt
      <4>2. place = "final" /\ LiesAt(q, u, "trash")
        BY <1>1, <1>4, <3>1, <4>1 DEF LiesAt
      <4>3. u = session[c].user
        BY <1>2, <1>5, <4>2, OwnDirectory DEF FilesInv
      <4>. QED
        BY <1>1, <1>5, <2>2, <4>2, <4>3 DEF RowsOf, Rows, AccountsGrow
    <3>. QED
      BY <3>1
  <2>7. \A d \in Conns : ~(job'[d].step = "insert" /\ upload'[d].id = q)
    BY <2>3 DEF Inserts, InsertSteps
  <2>. QED
    BY <2>3, <2>4, <2>6, <2>7 DEF Accounted
<1>8. ASSUME NEW s \in SnapshotIds, s # q
      PROVE  FileStays(s) /\ RoleStays(c, s)
  <2>1. FileStays(s)
    BY <1>1, <1>4, <1>5, <1>8 DEF FileStays, LiesAt, RowsOf, Rows
  <2>. QED
    BY <1>0, <1>1, <1>8, <2>1, DeletionsElsewhere DEF DeleteSteps, TrashSteps
<1>. QED
  BY <1>1, <1>6, <1>7, <1>8, StaysCalm

(***************************************************************************)
(* The file of a row that is gone leaves the trash.                        *)
(***************************************************************************)
LEMMA PurgeBlobCalm ==
    ASSUME ServerInv, ServerInv', SessionsInv, AccountsGrow, FilesInv, Calm,
           NEW c \in Conns, PurgeBlob(c), faults' = faults
    PROVE  Calm'
<1>0. PICK q : q = job[c].on
  OBVIOUS
<1>1. /\ UNCHANGED <<username, snapshots, home, session, upload>>
      /\ job[c].step = "purgeBlob" /\ job'[c].step = "idle"
      /\ \A d \in Conns \ {c} : job'[d] = job[d]
  BY JobFields DEF PurgeBlob, storeVars
<1>2. /\ q \in SnapshotIds /\ session[c].user \in UserIds
      /\ Refers(q, session[c].user) /\ q \notin Rows
      /\ \A d \in Conns : ~Uploads(d, q) /\ ~Inserts(d, q)
  BY <1>0, <1>1, DeletedIds DEF DeleteSteps, TrashSteps, FilesInv, IdsInv
<1>3. blob' = Unlinked(q, session[c].user, "trash")
  <2>1. ~Fault
    BY DEF Fault, ServerInv, ServerTypeOK
  <2>. QED
    BY <1>0, <2>1 DEF PurgeBlob
<1>4. /\ blob'[q] = None \/ (blob' = blob /\ ~LiesAt(q, session[c].user, "trash"))
      /\ \A s \in SnapshotIds \ {q} : blob'[s] = blob[s]
  BY <1>2, <1>3 DEF Unlinked, ServerInv, ServerTypeOK
<1>5. LiveUsers' = LiveUsers /\ LiveUsers \subseteq UserIds
  BY <1>1 DEF LiveUsers
<1>6. OthersWait(c) /\ DeletionStays(c)
  BY <1>1 DEF OthersWait, DeletionStays
<1>7. Accounted(q)'
  <2>1. Trashes(c, q)
    BY <1>0, <1>1 DEF Trashes, TrashSteps
  <2>2. /\ \A d \in Conns \ {c} : ~Trashes(d, q) /\ ~Undoes(d, q)
        /\ blob[q] # None => blob[q].at = "trash"
    BY <1>2, <2>1 DEF Calm, Accounted, Trashes, Undoes, UndoSteps, TrashSteps
  <2>3. /\ \A d \in Conns : ~Uploads(d, q)' /\ ~Inserts(d, q)'
        /\ \A d \in Conns : ~Trashes(d, q)' /\ ~Undoes(d, q)'
        /\ q \notin Rows'
    BY <1>1, <1>2, <2>2 DEF Uploads, Inserts, Trashes, Undoes, InsertSteps,
       TrashSteps, UndoSteps, Rows
  <2>4. \A u \in LiveUsers', place \in {"tmp", "final", "trash"} :
          ~LiesAt(q, u, place)'
    <3>1. \A u \in LiveUsers, place \in {"tmp", "final", "trash"} :
            LiesAt(q, u, place) => LiesAt(q, session[c].user, "trash")
      BY <1>2, <1>5, <2>2, OwnDirectory DEF FilesInv, LiesAt
    <3>. QED
      BY <1>1, <1>4, <1>5, <3>1 DEF LiesAt
  <2>5. \A d \in Conns : ~(job'[d].step = "insert" /\ upload'[d].id = q)
    BY <2>3 DEF Inserts, InsertSteps
  <2>. QED
    BY <2>3, <2>4, <2>5 DEF Accounted
<1>8. ASSUME NEW s \in SnapshotIds, s # q
      PROVE  FileStays(s) /\ RoleStays(c, s)
  <2>1. FileStays(s)
    BY <1>1, <1>4, <1>5, <1>8 DEF FileStays, LiesAt, RowsOf, Rows
  <2>. QED
    BY <1>0, <1>1, <1>8, <2>1, DeletionsElsewhere DEF DeleteSteps, TrashSteps
<1>. QED
  BY <1>1, <1>6, <1>7, <1>8, StaysCalm

LEMMA DeleteStepCalm ==
    ASSUME ServerInv, ServerInv', SessionsInv, AccountsGrow, FilesInv, Calm,
           NEW c \in Conns, DeleteStep(c), faults' = faults
    PROVE  Calm'
<1>1. CASE \E s \in SnapshotIds : DeleteBegin(c, s)
  <2>1. /\ UNCHANGED <<username, snapshots, home, blob, session, upload>>
        /\ job[c].step = "idle" /\ \E s : Begin(c, "trashBlob", s, None)
    BY <1>1 DEF DeleteBegin, Waits, storeVars, diskVars
  <2>2. /\ job'[c].step = "trashBlob"
        /\ \A d \in Conns \ {c} : job'[d] = job[d]
    BY <2>1, JobFields
  <2>. QED
    BY <2>1, <2>2, StillCalm DEF OthersWait, FileSteps, InsertSteps, TrashSteps,
       LiveUsers
<1>. QED
  BY <1>1, TrashBlobCalm, DeleteRowCalm, DeleteRowFailsCalm, RestoreBlobCalm,
     PurgeBlobCalm DEF DeleteStep

(***************************************************************************)
(* The directory goes: the account is being deleted.                       *)
(***************************************************************************)
LEMMA QuarantineCalm ==
    ASSUME ServerInv, ServerInv', SessionsInv, AccountsGrow, FilesInv, Calm,
           NEW c \in Conns, Quarantine(c), faults' = faults
    PROVE  Calm'
<1>0. PICK user \in UserIds : user = session[c].user
  BY DEF ServerInv, HandlersInStep, HandlerInStep, Quarantine
<1>1. /\ UNCHANGED <<username, snapshots, session, upload, blob>>
      /\ home' = [home EXCEPT ![user] = None]
      /\ job[c].step = "quarantine" /\ job'[c].step = "deleteUser"
      /\ \A d \in Conns \ {c} : job'[d] = job[d]
  <2>1. ~Fault
    BY DEF Fault, ServerInv, ServerTypeOK
  <2>2. job \in [Conns -> Job]
    BY DEF ServerInv, ServerTypeOK
  <2>. QED
    BY <1>0, <2>1, <2>2 DEF Quarantine, storeVars
<1>2. /\ \A u \in UserIds \ {user} : home'[u] = home[u]
      /\ home'[user] = None /\ DeletedBy(user)'
  BY <1>0, <1>1 DEF DeletedBy, ServerInv, ServerTypeOK
<1>3. ASSUME NEW s \in SnapshotIds
      PROVE  FileStays(s) /\ RoleStays(c, s)
  <2>1. \A u \in LiveUsers' : /\ u \in LiveUsers /\ u \in UserIds
                              /\ u # user => home'[u] = home[u]
    BY <1>1, <1>2 DEF LiveUsers
  <2>2. FileStays(s)
    BY <1>1, <1>2, <2>1 DEF FileStays, LiesAt, RowsOf, Rows
  <2>. QED
    BY <1>1, <2>2, RolesStay DEF FileSteps, InsertSteps, TrashSteps, Uploads
<1>. QED
  BY <1>1, <1>3, StaysCalm DEF OthersWait, DeletionStays

LEMMA DeleteUserRowCalm ==
    ASSUME ServerInv, ServerInv', SessionsInv, AccountsGrow, FilesInv, Calm,
           NEW c \in Conns, DeleteUserRow(c)
    PROVE  Calm'
<1>. USE DEF diskVars, Steps
<1>0. PICK user \in UserIds : user = session[c].user
  BY DEF ServerInv, HandlersInStep, HandlerInStep, DeleteUserRow
<1>1. /\ UNCHANGED <<session, upload, blob, home>>
      /\ job[c].step = "deleteUser" /\ job'[c].step = "purgeHome"
      /\ \A d \in Conns \ {c} : job'[d] = job[d]
      /\ username' = [username EXCEPT ![user] = NoName]
      /\ snapshots' = [s \in SnapshotIds |->
                         IF s \in RowsOf(user) THEN NoRow ELSE snapshots[s]]
  BY <1>0, JobFields DEF DeleteUserRow, DeleteUser
<1>2. \A u \in LiveUsers' : u \in LiveUsers /\ u # user
  BY <1>1 DEF LiveUsers, ServerInv, StoreInv, StoreTypeOK
<1>3. ASSUME NEW s \in SnapshotIds
      PROVE  FileStays(s) /\ RoleStays(c, s)
  <2>1. \A u \in LiveUsers' : s \in RowsOf(u)' <=> s \in RowsOf(u)
    BY <1>1, <1>2 DEF RowsOf, Rows
  <2>2. FileStays(s)
    BY <1>1, <1>2, <2>1 DEF FileStays, LiesAt
  <2>. QED
    BY <1>1, <2>2, RolesStay DEF FileSteps, InsertSteps, TrashSteps, Uploads
<1>. QED
  BY <1>0, <1>1, <1>2, <1>3, StaysCalm DEF OthersWait, DeletionStays

(***************************************************************************)
(* The store refuses an account deletion only when the account is gone.    *)
(***************************************************************************)
LEMMA DeleteUserRowFailsCalm ==
    ASSUME ServerInv, ServerInv', SessionsInv, AccountsGrow, FilesInv, Calm,
           NEW c \in Conns, DeleteUserRowFails(c), faults' = faults
    PROVE  Calm'
<1>. USE DEF diskVars, Steps
<1>1. /\ UNCHANGED <<username, deletedUsers, snapshots, home, blob, session,
                     upload>>
      /\ job[c].step = "deleteUser" /\ job'[c].step = "restoreHome"
      /\ \A d \in Conns \ {c} : job'[d] = job[d]
  BY JobFields DEF DeleteUserRowFails, storeVars
<1>2. session[c].user \in deletedUsers /\ session[c].user \notin LiveUsers
  <2>1. ~Fault
    BY DEF Fault, ServerInv, ServerTypeOK
  <2>2. session[c].user \notin LiveUsers
    BY <2>1 DEF DeleteUserRowFails, DeleteUserResult
  <2>3. session[c].user \in UserIds
    BY <1>1 DEF ServerInv, HandlersInStep, HandlerInStep
  <2>. QED
    BY <2>2, <2>3 DEF SessionsInv, Allocated
<1>3. \A s \in SnapshotIds : FileStays(s) /\ RoleStays(c, s)
  BY <1>1, NothingMoves, RolesStay DEF LiveUsers, FileSteps, InsertSteps,
     TrashSteps, Uploads
<1>4. DeletionStays(c)
  BY <1>1, <1>2 DEF DeletionStays, LiveUsers
<1>. QED
  BY <1>1, <1>2, <1>3, <1>4, StaysCalm DEF OthersWait

(***************************************************************************)
(* So a directory that is put back is of no live account.                  *)
(***************************************************************************)
LEMMA RestoreHomeCalm ==
    ASSUME ServerInv, ServerInv', SessionsInv, AccountsGrow, FilesInv, Calm,
           NEW c \in Conns, RestoreHome(c)
    PROVE  Calm'
<1>0. PICK user \in UserIds : user = session[c].user
  BY DEF ServerInv, HandlersInStep, HandlerInStep, RestoreHome
<1>1. /\ UNCHANGED <<username, snapshots, session, upload, blob>>
      /\ job[c].step = "restoreHome" /\ job'[c].step = "idle"
      /\ \A d \in Conns \ {c} : job'[d] = job[d]
  BY JobFields DEF RestoreHome, storeVars
<1>2. user \in deletedUsers
  BY <1>0, <1>1 DEF Calm
<1>3. \A u \in UserIds \ {user} : home'[u] = home[u]
  BY <1>0 DEF RestoreHome, ServerInv, ServerTypeOK
<1>4. \A u \in LiveUsers' : u \in LiveUsers /\ u \in UserIds /\ u # user
  BY <1>1, <1>2 DEF LiveUsers, AccountsGrow
<1>5. ASSUME NEW s \in SnapshotIds
      PROVE  FileStays(s) /\ RoleStays(c, s)
  <2>1. FileStays(s)
    BY <1>1, <1>3, <1>4 DEF FileStays, LiesAt, RowsOf, Rows
  <2>. QED
    BY <1>1, <2>1, RolesStay DEF FileSteps, InsertSteps, TrashSteps, Uploads
<1>. QED
  BY <1>1, <1>5, StaysCalm DEF OthersWait, DeletionStays

LEMMA PurgeHomeCalm ==
    ASSUME ServerInv, ServerInv', SessionsInv, AccountsGrow, FilesInv, Calm,
           NEW c \in Conns, PurgeHome(c), faults' = faults
    PROVE  Calm'
<1>1. /\ UNCHANGED <<username, snapshots, home, upload>>
      /\ job[c].step = "purgeHome" /\ job'[c].step = "idle"
      /\ \A d \in Conns \ {c} : job'[d] = job[d] /\ session'[d] = session[d]
  BY JobFields, SessionFields DEF PurgeHome, storeVars
<1>2. \A s \in SnapshotIds :
        blob'[s] = IF blob[s] # None /\ blob[s].dir = job[c].dir THEN None
                                                               ELSE blob[s]
  <2>1. ~Fault
    BY DEF Fault, ServerInv, ServerTypeOK
  <2>. QED
    BY <2>1 DEF PurgeHome
<1>3. \A u \in UserIds : home[u] # None => home[u] # job[c].dir
  BY <1>1 DEF FilesInv, DirsInv, HomeSteps
<1>4. ASSUME NEW s \in SnapshotIds
      PROVE  FileStays(s) /\ RoleStays(c, s)
  <2>1. \A u \in LiveUsers' : u \in LiveUsers /\ u \in UserIds
    BY <1>1 DEF LiveUsers
  <2>2. FileStays(s)
    BY <1>1, <1>2, <1>3, <2>1 DEF FileStays, LiesAt, RowsOf, Rows
  <2>. QED
    BY <1>1, <2>2, RolesStay DEF FileSteps, InsertSteps, TrashSteps, Uploads
<1>. QED
  BY <1>1, <1>4, StaysCalm DEF OthersWait, DeletionStays

LEMMA DeleteAccountStepCalm ==
    ASSUME ServerInv, ServerInv', SessionsInv, AccountsGrow, FilesInv, Calm,
           NEW c \in Conns, DeleteAccountStep(c), faults' = faults
    PROVE  Calm'
<1>1. CASE DeleteAccountBegin(c)
  <2>1. /\ UNCHANGED <<username, snapshots, home, blob, session, upload>>
        /\ job[c].step = "idle" /\ job'[c].step = "quarantine"
        /\ \A d \in Conns \ {c} : job'[d] = job[d]
    BY <1>1, JobFields DEF DeleteAccountBegin, Waits, storeVars, diskVars
  <2>. QED
    BY <2>1, StillCalm DEF OthersWait, FileSteps, InsertSteps, TrashSteps,
       LiveUsers
<1>. QED
  BY <1>1, QuarantineCalm, DeleteUserRowCalm, DeleteUserRowFailsCalm,
     RestoreHomeCalm, PurgeHomeCalm DEF DeleteAccountStep

-----------------------------------------------------------------------------
(***************************************************************************)
(* What has not failed now had not failed before.                          *)
(***************************************************************************)
LEMMA UndisturbedBefore ==
    ASSUME ServerInv, [Next]_vars, Undisturbed'
    PROVE  Undisturbed /\ faults' = faults /\ crashes' = crashes
<1>1. faults \in Nat /\ crashes \in Nat
  BY DEF ServerInv, ServerTypeOK
<1>2. /\ faults' = faults \/ faults' = faults + 1
      /\ crashes' = crashes \/ crashes' = crashes + 1
  <2>. USE DEF budget, Fault, NoFault
  <2>1. CASE Crash \/ ClockTick \/ UNCHANGED vars
    BY <2>1 DEF Crash, ClockTick, vars
  <2>2. ASSUME NEW c \in Conns, SessionStep(c) \/ DownloadStep(c)
        PROVE  UNCHANGED budget
    BY <2>2 DEF SessionStep, Connect, Disconnect, Logout, Register, Login,
       RejectIfAccountMissing, Resume, DownloadStep, DownloadBegin, OpenBlob,
       DownloadEnd
  <2>3. ASSUME NEW c \in Conns, UploadStep(c)
        PROVE  /\ crashes' = crashes
               /\ faults' = faults \/ faults' = faults + 1
    BY <2>3 DEF UploadStep, UploadBegin, EnsureUserDirectory, OpenTemp,
       OpenTempFails, UploadChunk, RejectChunk, UploadEnd, Publish, PublishFails,
       InsertRow, InsertRowFails, Unpublish
  <2>4. ASSUME NEW c \in Conns, DeleteStep(c) \/ DeleteAccountStep(c)
        PROVE  /\ crashes' = crashes
               /\ faults' = faults \/ faults' = faults + 1
    BY <2>4 DEF DeleteStep, DeleteBegin, TrashBlob, DeleteRow, DeleteRowFails,
       RestoreBlob, PurgeBlob, DeleteAccountStep, DeleteAccountBegin,
       Quarantine, DeleteUserRow, DeleteUserRowFails, RestoreHome, PurgeHome
  <2>. QED
    BY <2>1, <2>2, <2>3, <2>4 DEF Next
<1>. QED
  BY <1>1, <1>2 DEF Undisturbed

(***************************************************************************)
(* Every step keeps CalmInv.                                               *)
(***************************************************************************)
LEMMA NextCalmInv ==
    ASSUME WholeInv, WholeInv', CalmInv, [Next]_vars
    PROVE  CalmInv'
<1>. SUFFICES ASSUME Undisturbed'
              PROVE  Calm'
  BY DEF CalmInv
<1>. USE DEF WholeInv
<1>1. /\ Calm /\ faults' = faults /\ crashes' = crashes /\ crashes \in Nat
  BY UndisturbedBefore DEF CalmInv, ServerInv, ServerTypeOK
<1>2. AccountsGrow
  BY EveryStepGrows
<1>3. CASE ClockTick \/ UNCHANGED vars
  <2>1. UNCHANGED <<username, deletedUsers, snapshots, session, upload, job,
                    home, blob>>
    BY <1>3 DEF ClockTick, Tick, vars, storeVars, connVars, diskVars
  <2>. QED
    BY <1>1, <2>1 DEF Calm, Accounted, Uploads, Inserts, Trashes, Undoes,
       LiesAt, DeletedBy, RowsOf, Rows, LiveUsers
<1>4. ~Crash
  BY <1>1 DEF Crash
<1>5. ASSUME NEW c \in Conns,
             \/ SessionStep(c) \/ UploadStep(c) \/ DownloadStep(c)
             \/ DeleteStep(c) \/ DeleteAccountStep(c)
      PROVE  Calm'
  BY <1>1, <1>2, <1>5, SessionStepCalm, UploadStepCalm, DownloadStepCalm,
     DeleteStepCalm, DeleteAccountStepCalm
<1>. QED
  BY <1>3, <1>4, <1>5 DEF Next

LEMMA InitCalmInv == Init => CalmInv
<1>. SUFFICES ASSUME Init PROVE Calm
  BY DEF CalmInv
<1>1. /\ \A c \in Conns : upload[c] = None /\ job[c].step = "idle"
      /\ Rows = {} /\ \A s \in SnapshotIds : blob[s] = None
  BY DEF Init, StoreInit, Idle, Rows
<1>. QED
  BY <1>1 DEF Calm, Accounted, Uploads, Inserts, Trashes, Undoes, LiesAt,
     InsertSteps, TrashSteps, UndoSteps

(***************************************************************************)
(* As long as no call has failed and the server has not died, a listed     *)
(* snapshot can be downloaded, or is in a deletion that can still be       *)
(* undone, and no file of a live account is left that nobody will remove:  *)
(* for any number of connections that upload, delete and close accounts    *)
(* side by side.                                                           *)
(***************************************************************************)
THEOREM RowsAndFilesStayTogether == Spec => []RowsAndFilesAgree
<1>1. Init => CalmInv
  BY InitCalmInv
<1>2. WholeInv /\ WholeInv' /\ CalmInv /\ [Next]_vars => CalmInv'
  BY NextCalmInv
<1>3. WholeInv /\ CalmInv => RowsAndFilesAgree
  <2>. SUFFICES ASSUME WholeInv, Calm
                PROVE  /\ \A s \in Rows : HasBlob(s) \/ InDeletion(s)
                       /\ (Undisturbed => NoOrphanFiles)
    BY DEF CalmInv, RowsAndFilesAgree, RowsHaveBlobs, NoOrphanFiles
  <2>1. \A s \in Rows : HasBlob(s) \/ InDeletion(s)
    BY DEF WholeInv, FilesInv, BytesInv, RowsKeepTheirBytes, Calm, Accounted,
       HasBlob, InDeletion, Undoes, UndoSteps, DeletedBy, Rows
  <2>2. NoOrphanFiles
    BY DEF Calm, Accounted, NoOrphanFiles, Uploads, Inserts, InsertSteps,
       Trashes, TrashSteps
  <2>. QED
    BY <2>1, <2>2
<1>. QED
  BY <1>1, <1>2, <1>3, ServerKeepsFiles, PTL DEF Spec

=============================================================================
