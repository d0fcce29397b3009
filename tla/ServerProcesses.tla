--------------------------- MODULE ServerProcesses ---------------------------
(***************************************************************************)
(* The processes that share one data directory: backup-server              *)
(* (server/main.cpp, RemoteServer::Start and Stop) and the administration  *)
(* tool (server/admin_main.cpp), whose operator reads what a query prints  *)
(* and later types a deletion.  The database and what is done to it are    *)
(* those of RemoteMetadataStore.                                           *)
(*                                                                         *)
(* A process is its pid.  `at' says how far its program has come, `gone'   *)
(* that no process has the pid; a pid is given again.  The kernel drops    *)
(* the flock of a process that goes, whatever it goes of.                  *)
(***************************************************************************)
EXTENDS RemoteMetadataStore

CONSTANTS Pids, Nobody

ASSUME PidsAssumption == Nobody \notin Pids
ASSUME SentinelsAssumption == NoName \notin UserIds /\ NoRow \notin SnapshotIds
ASSUME LineagesAssumption == Lineages # {}

VARIABLES
    at,        \* pid -> how far its program has come
    typed,     \* pid -> the deletion its command line asks for
    found,     \* pid -> the account ResolveUser found
    dataLock,  \* who holds the flock on <root>/.backup-server.lock
    pidFile,   \* what --pid-file holds; Nobody: no file, or nothing in it
    schema,    \* "absent", "empty" (no version yet) or the version it has
    screen,    \* what the operator has before him
    issued     \* the snapshot ids that were ever drawn

processVars == <<at, typed, found, dataLock, pidFile, schema, screen, issued>>

ServerSteps == {"checkPid", "writePid", "start", "openDatabase", "migrate",
                "listen", "serve", "removePid"}
AdminSteps == {"query", "probe", "open", "resolve", "delete"}

\* Where a process may write to the database or the data root.
WriterSteps == {"openDatabase", "migrate", "listen", "serve",
                "open", "resolve", "delete"}

Nothing == NoRow

(***************************************************************************)
(* A row of list-users or the page of show-user, and, where                *)
(* list-snapshots printed it, a snapshot of that account.                  *)
(***************************************************************************)
Pages == [user : UserIds, name : Names, snapshot : SnapshotIds \cup {NoRow}]
Screens == Pages \cup {Nothing}

(***************************************************************************)
(* A deletion of what is on the screen: delete-user, or delete-snapshot    *)
(* where the page names one, with the selector id:<id>, name:<name> or the *)
(* bare name, and the confirmation that belongs to that page.              *)
(***************************************************************************)
Deletions == [by : {"id", "name", "bare"}, page : Pages]
IsOfAnAccount(d) == d.page.snapshot = NoRow

ASSUME NothingAssumption == Nothing \notin Deletions

ProcessesTypeOK ==
    /\ at \in [Pids -> {"gone"} \cup ServerSteps \cup AdminSteps]
    /\ typed \in [Pids -> Deletions \cup {Nothing}]
    /\ found \in [Pids -> UserIds \cup {0}]
    /\ dataLock \in Pids \cup {Nobody}
    /\ pidFile \in Pids \cup {Nobody}
    /\ schema \in {"absent", "empty", "v1", "v2", "newer"}
    /\ screen \in Screens

-----------------------------------------------------------------------------
Goes(p) == [at EXCEPT ![p] = "gone"]
Reaches(p, step) == at' = [at EXCEPT ![p] = step]

Released(p) == IF dataLock = p THEN Nobody ELSE dataLock

(***************************************************************************)
(* A process that returns from main or is killed.                          *)
(***************************************************************************)
Exits(p) ==
    /\ at' = Goes(p)
    /\ typed' = [typed EXCEPT ![p] = Nothing]
    /\ found' = [found EXCEPT ![p] = 0]
    /\ dataLock' = Released(p)

Killed(p) ==
    /\ at[p] # "gone"
    /\ Exits(p)
    /\ UNCHANGED <<pidFile, schema, screen, issued, storeVars>>

-----------------------------------------------------------------------------
(* backup-server: the pid file *)

StartServer(p) ==
    /\ at[p] = "gone"
    /\ Reaches(p, "checkPid")
    /\ UNCHANGED <<typed, found, dataLock, pidFile, schema, screen, issued, storeVars>>

(***************************************************************************)
(* IsRunningServer: some process has the pid and its comm holds            *)
(* "backup-server", as does that of backup-server-admin, and as does the   *)
(* process that asks, if the file was left by an earlier one of its pid.   *)
(***************************************************************************)
IsRunningServer(pid) == pid # Nobody /\ at[pid] # "gone"

CheckPid(p) ==
    /\ at[p] = "checkPid"
    /\ IF IsRunningServer(pidFile) THEN Exits(p)
       ELSE Reaches(p, "writePid") /\ UNCHANGED <<typed, found, dataLock>>
    /\ UNCHANGED <<pidFile, schema, screen, issued, storeVars>>

WritePid(p) ==
    /\ at[p] = "writePid"
    /\ \/ pidFile' = p /\ Reaches(p, "start") /\ UNCHANGED <<typed, found, dataLock>>
       \/ pidFile' = Nobody /\ Exits(p)  \* truncated, and the write failed
    /\ UNCHANGED <<schema, screen, issued, storeVars>>

(***************************************************************************)
(* The pid file is unlinked by its path, whoever wrote it last.            *)
(***************************************************************************)
RemovePid(p) ==
    /\ at[p] = "removePid"
    /\ pidFile' = Nobody
    /\ Exits(p)
    /\ UNCHANGED <<schema, screen, issued, storeVars>>

-----------------------------------------------------------------------------
(* backup-server: Configure, Start, Run and Stop *)

ConfigureFails(p) ==
    /\ at[p] = "start"
    /\ Reaches(p, "removePid")
    /\ UNCHANGED <<typed, found, dataLock, pidFile, schema, screen, issued, storeVars>>

\* Mutated: the pid file is thought to be enough.
AcquireDataLockOrGoOn(p) ==
    /\ at[p] = "start"
    /\ IF dataLock = Nobody THEN dataLock' = p ELSE UNCHANGED dataLock
    /\ Reaches(p, "openDatabase")
    /\ UNCHANGED <<typed, found, pidFile, schema, screen, issued, storeVars>>

AcquireDataLock(p) ==
    /\ at[p] = "start"
    /\ IF dataLock = Nobody
       THEN dataLock' = p /\ Reaches(p, "openDatabase")
       ELSE UNCHANGED dataLock /\ Reaches(p, "removePid")
    /\ UNCHANGED <<typed, found, pidFile, schema, screen, issued, storeVars>>

(***************************************************************************)
(* The token secret, the identity key and its certificate, then the        *)
(* database, which is created here and nowhere else.                       *)
(***************************************************************************)
OpenDatabase(p) ==
    /\ at[p] = "openDatabase"
    /\ schema' = IF schema = "absent" THEN "empty" ELSE schema
    /\ Reaches(p, "migrate")
    /\ UNCHANGED <<typed, found, dataLock, pidFile, screen, issued, storeVars>>

\* EnsureSchema is one transaction.
EnsureSchema(p) ==
    /\ at[p] = "migrate"
    /\ schema \in {"empty", "v1", "v2"}
    /\ schema' = "v2"
    /\ Reaches(p, "listen")
    /\ UNCHANGED <<typed, found, dataLock, pidFile, screen, issued, storeVars>>

OpenListener(p) ==
    /\ at[p] = "listen"
    /\ Reaches(p, "serve")
    /\ UNCHANGED <<typed, found, dataLock, pidFile, schema, screen, issued, storeVars>>

(***************************************************************************)
(* No secret, no key, a schema from the future, no port: what was taken is *)
(* given back and the pid file goes.                                       *)
(***************************************************************************)
StartFails(p) ==
    /\ at[p] \in {"openDatabase", "migrate", "listen"}
    /\ dataLock' = Released(p)
    /\ Reaches(p, "removePid")
    /\ UNCHANGED <<typed, found, pidFile, schema, screen, issued, storeVars>>

(***************************************************************************)
(* The handlers, as far as accounts and full rows go.                      *)
(***************************************************************************)
FullRow(user) ==
    [user |-> user, kind |-> "full", parent |-> NoParent, generation |-> 0,
     lineage |-> CHOOSE lineage \in Lineages : TRUE, createdAt |-> now]

Serve(p) ==
    /\ at[p] = "serve"
    /\ \/ \E name \in Names : CreateUser(name) /\ UNCHANGED issued
       \/ \E user \in UserIds : DeleteUser(user) /\ UNCHANGED issued
       \/ \E user \in UserIds, s \in SnapshotIds :
            /\ s \notin issued
            /\ InsertSnapshot(s, FullRow(user))
            /\ issued' = issued \cup {s}
    /\ UNCHANGED <<at, typed, found, dataLock, pidFile, schema, screen>>

StopServer(p) ==
    /\ at[p] = "serve"
    /\ dataLock' = Released(p)
    /\ Reaches(p, "removePid")
    /\ UNCHANGED <<typed, found, pidFile, schema, screen, issued, storeVars>>

-----------------------------------------------------------------------------
(* backup-server-admin: the queries *)

(***************************************************************************)
(* ResolveUser and DecideUserResolution: the accounts the text may mean,   *)
(* by id and by name; a bare text that means two is refused.               *)
(***************************************************************************)
ResolveUser(by, u, name) ==
    LET asId == IF u \in LiveUsers /\ by # "name" THEN {u} ELSE {}
        asName == IF by # "id" THEN FindUser(name) ELSE {}
    IN IF asId # {} /\ asName # {} THEN {} ELSE asId \cup asName

(***************************************************************************)
(* OpenExistingWithMode: only a database of the current version.           *)
(***************************************************************************)
Opens == schema = "v2"

StartQuery(p) ==
    /\ at[p] = "gone"
    /\ Opens
    /\ Reaches(p, "query")
    /\ UNCHANGED <<typed, found, dataLock, pidFile, schema, screen, issued, storeVars>>

(***************************************************************************)
(* status and overview try the lock to tell whether a server runs, and     *)
(* hold it for a moment when none does.                                    *)
(***************************************************************************)
Probe(p) ==
    /\ at[p] = "query"
    /\ dataLock = Nobody
    /\ dataLock' = p
    /\ Reaches(p, "probe")
    /\ UNCHANGED <<typed, found, pidFile, schema, screen, issued, storeVars>>

ProbeEnds(p) ==
    /\ at[p] = "probe"
    /\ dataLock' = Nobody
    /\ Reaches(p, "query")
    /\ UNCHANGED <<typed, found, pidFile, schema, screen, issued, storeVars>>

(***************************************************************************)
(* list-users prints a row of each account; show-user, list-snapshots and  *)
(* show-snapshot print what belongs to one.                                *)
(***************************************************************************)
Page(u, s) == [user |-> u, name |-> username[u], snapshot |-> s]

ListUsers(p) ==
    /\ at[p] = "query"
    /\ \E u \in LiveUsers : screen' = Page(u, NoRow)
    /\ Exits(p)
    /\ UNCHANGED <<pidFile, schema, issued, storeVars>>

ShowUser(p) ==
    /\ at[p] = "query"
    /\ \E text \in UserIds \cup Names : \E u \in ResolveUser("bare", text, text) :
         \E s \in RowsOf(u) \cup {NoRow} : screen' = Page(u, s)
    /\ Exits(p)
    /\ UNCHANGED <<pidFile, schema, issued, storeVars>>

-----------------------------------------------------------------------------
(* backup-server-admin: the deletions *)

\* Mutated: the lock is tried as a query tries it.
ProbeInsteadOfLock(p) ==
    /\ at[p] = "gone"
    /\ screen # Nothing
    /\ dataLock = Nobody
    /\ \E d \in Deletions :
         d.page = screen /\ typed' = [typed EXCEPT ![p] = d]
    /\ Reaches(p, "open")
    /\ UNCHANGED <<found, dataLock, pidFile, schema, screen, issued, storeVars>>

AcquireDestructiveLock(p) ==
    /\ at[p] = "gone"
    /\ screen # Nothing
    /\ dataLock = Nobody
    /\ \E d \in Deletions :
         d.page = screen /\ typed' = [typed EXCEPT ![p] = d]
    /\ dataLock' = p
    /\ Reaches(p, "open")
    /\ UNCHANGED <<found, pidFile, schema, screen, issued, storeVars>>

OpenAll(p) ==
    /\ at[p] = "open"
    /\ IF Opens THEN Reaches(p, "resolve") /\ UNCHANGED <<typed, found, dataLock>>
       ELSE Exits(p)
    /\ UNCHANGED <<pidFile, schema, screen, issued, storeVars>>

\* Mutated: the confirmation names the account and not its id.
ConfirmedByName(d, u) == IsOfAnAccount(d) => username[u] = d.page.name

(***************************************************************************)
(* delete-user wants DELETE <name>#<id> of the account it found,           *)
(* delete-snapshot the id of the snapshot once more.                       *)
(***************************************************************************)
Confirmed(d, u) ==
    IsOfAnAccount(d) => u = d.page.user /\ username[u] = d.page.name

(***************************************************************************)
(* A deletion never takes a bare text.                                     *)
(***************************************************************************)
Resolve(p) ==
    /\ at[p] = "resolve"
    /\ LET d == typed[p]
           accounts == IF d.by = "bare" THEN {}
                       ELSE ResolveUser(d.by, d.page.user, d.page.name)
       IN \/ \E u \in accounts :
               /\ Confirmed(d, u)
               /\ found' = [found EXCEPT ![p] = u]
               /\ Reaches(p, "delete")
               /\ UNCHANGED <<typed, dataLock>>
          \/ (\A u \in accounts : ~Confirmed(d, u)) /\ Exits(p)
    /\ UNCHANGED <<pidFile, schema, screen, issued, storeVars>>

\* RemoteMaintenance; nothing goes when there is no such row or a disk refuses.
Delete(p) ==
    /\ at[p] = "delete"
    /\ \/ IsOfAnAccount(typed[p]) /\ DeleteUser(found[p])
       \/ ~IsOfAnAccount(typed[p]) /\ DeleteSnapshot(found[p], typed[p].page.snapshot)
       \/ UNCHANGED storeVars
    /\ Exits(p)
    /\ UNCHANGED <<pidFile, schema, screen, issued>>

-----------------------------------------------------------------------------
ProcessesInit ==
    /\ at = [p \in Pids |-> "gone"]
    /\ typed = [p \in Pids |-> Nothing]
    /\ found = [p \in Pids |-> 0]
    /\ dataLock = Nobody
    /\ pidFile \in Pids \cup {Nobody}  \* left by an earlier run
    /\ schema \in {"absent", "v1", "v2", "newer"}
    /\ screen = Nothing
    /\ issued = {}

ServerStep(p) ==
    \/ StartServer(p) \/ CheckPid(p) \/ WritePid(p) \/ RemovePid(p)
    \/ ConfigureFails(p) \/ AcquireDataLock(p) \/ OpenDatabase(p)
    \/ EnsureSchema(p) \/ OpenListener(p) \/ StartFails(p)
    \/ Serve(p) \/ StopServer(p)

AdminStep(p) ==
    \/ StartQuery(p) \/ Probe(p) \/ ProbeEnds(p) \/ ListUsers(p) \/ ShowUser(p)
    \/ AcquireDestructiveLock(p) \/ OpenAll(p) \/ Resolve(p) \/ Delete(p)

ProcessesNext == \E p \in Pids : ServerStep(p) \/ AdminStep(p) \/ Killed(p)

ProcessesSpec ==
    ProcessesInit /\ StoreInit /\ [][ProcessesNext]_<<processVars, storeVars>>

-----------------------------------------------------------------------------
(***************************************************************************)
(* At most one process is where it may write to the database or the data   *)
(* root.  Nothing else sees to it: two servers started together both pass  *)
(* the check of the pid file, and each of them may be killed at any point. *)
(***************************************************************************)
Writers == {p \in Pids : at[p] \in WriterSteps}

OneWriter == \A p, q \in Writers : p = q

(***************************************************************************)
(* A deletion the operator confirms takes the account, or the snapshot, he *)
(* had on the screen when he typed it and nothing else, whoever logged off *)
(* for good or registered under the same name since.                       *)
(***************************************************************************)
OperatorDeletesWhatHeSaw ==
    [][\A p \in Pids :
         at[p] = "delete" /\ at'[p] = "gone" =>
           LET page == typed[p].page
           IN /\ \A u \in LiveUsers :
                   username'[u] = NoName => page = [user |-> u, name |-> username[u],
                                                    snapshot |-> NoRow]
              /\ \A s \in Rows :
                   snapshots'[s] = NoRow /\ snapshots[s].user \in LiveUsers'
                     => page.user = snapshots[s].user /\ page.snapshot = s
      ]_<<processVars, storeVars>>
=============================================================================
