------------------------- MODULE ScheduleController -------------------------
(***************************************************************************)
(* The desktop application between the user and the scheduled backup:      *)
(* ScheduleController, the OperationGate it shares with BackupController,  *)
(* and the operations of BackupController that compete with it.            *)
(*                                                                         *)
(* Everything here runs in the GUI thread, one callback at a time, except  *)
(* an evaluation and a scan of the repository, which run in a thread of    *)
(* their own and come back as an event.  What an evaluation does to the    *)
(* repository is ScheduledBackup; here it is a snapshot and a record.      *)
(*                                                                         *)
(* A callback that ends in another callback of the same thread (a signal   *)
(* connected directly) is one step, so the callbacks are functions of the  *)
(* state of the GUI, written one in terms of the other as in the code.     *)
(***************************************************************************)
EXTENDS FiniteSets

CONSTANTS
  Repositories,  \* the directories the user may choose
  NoRepository,  \* the empty path
  Snapshots      \* bound: the snapshots evaluations may make

ASSUME ControllerAssumption == NoRepository \notin Repositories

VARIABLES
  gui,         \* the members of the two controllers, and the gate
  round,       \* the evaluation in flight
  file,        \* schedule.json
  configFile,  \* the repository config.json names
  stored,      \* the scheduled snapshots in each repository
  rival,       \* another process holds the runner lock
  catalog      \* the list of backups: what it shows and the scan in flight

guiVars == <<gui, round, file, configFile, stored, rival, catalog>>

\* enabled and valid are of the configuration, due is next_run_time_sec <= now,
\* managed is managed_snapshots.
Documents == [enabled : BOOLEAN, valid : BOOLEAN, due : BOOLEAN,
              managed : SUBSET Snapshots]
\* A missing file reads as this one.
NoDocument == [enabled |-> FALSE, valid |-> TRUE, due |-> TRUE, managed |-> {}]
Unreadable == [unreadable |-> TRUE]

NoRound == [step |-> "none"]
Kinds == {"kNone", "kManual", "kScheduleEvaluation", "kRealtime"}

GuiTypeOK ==
  /\ gui \in [gate : Kinds, manual : BOOLEAN, realtime : BOOLEAN,
              shown : Repositories \cup {NoRepository},
              repository : Repositories \cup {NoRepository},
              document : Documents, loaded : BOOLEAN, suspended : BOOLEAN,
              ticking : BOOLEAN, holding : BOOLEAN, busy : BOOLEAN,
              pending : BOOLEAN, forced : BOOLEAN]
  /\ round.step \in {"none", "submitted", "writing", "saving", "finished"}
  /\ file \in Documents \cup {Unreadable}
  /\ configFile \in Repositories \cup {NoRepository}
  /\ stored \in [Repositories -> SUBSET Snapshots]
  /\ rival \in BOOLEAN

-----------------------------------------------------------------------------
(* ScheduleController: g is the state of the GUI, the result the next one. *)

\* SetConfigInvalid: a suspended schedule has neither a timer nor the lock.
ConfigInvalid(g, invalid) ==
  IF invalid
  THEN IF g.suspended THEN g
       ELSE [g EXCEPT !.suspended = TRUE, !.ticking = FALSE, !.holding = FALSE]
  ELSE [g EXCEPT !.suspended = FALSE]

\* LoadFromDisk.
Loaded(g, scheduleFile, repository) ==
  LET readable == scheduleFile # Unreadable IN
  ConfigInvalid([g EXCEPT !.repository = repository,
                          !.loaded = readable,
                          !.document = IF readable THEN scheduleFile ELSE NoDocument],
                ~readable)

\* Mutated: no timer where the lock was not to be had.
RunnerLockOnce(g) ==
  IF g.document.enabled /\ g.loaded /\ ~g.suspended
  THEN [g EXCEPT !.holding = @ \/ ~rival, !.ticking = @ \/ ~rival]
  ELSE [g EXCEPT !.holding = FALSE, !.ticking = @ /\ ~g.holding]

\* ApplyRunnerLock: the timer also runs where another process has the lock.
RunnerLock(g) ==
  IF g.document.enabled /\ g.loaded /\ ~g.suspended
  THEN [g EXCEPT !.holding = @ \/ ~rival, !.ticking = TRUE]
  ELSE [g EXCEPT !.holding = FALSE, !.ticking = @ /\ ~g.holding]

\* Mutated: the gate is not asked.
MaySubmitUngated(g) == ~g.busy /\ g.repository # NoRepository /\ ~g.manual

\* An evaluation can be submitted: nothing else works on the repository.
MaySubmit(g) ==
  /\ ~g.busy /\ g.repository # NoRepository
  /\ ~g.manual /\ g.gate = "kNone"

\* Submit, the members: it is submitted, or remembered.
Submitted(g, force) ==
  IF MaySubmit(g)
  THEN [g EXCEPT !.gate = "kScheduleEvaluation", !.busy = TRUE]
  ELSE [g EXCEPT !.pending = TRUE, !.forced = @ \/ force]

\* Submit, the thread it starts.
RoundOf(g, force) ==
  IF MaySubmit(g)
  THEN [step |-> "submitted", force |-> force, repository |-> g.repository]
  ELSE round

\* DrainPending.
MayDrain(g) == g.pending /\ ~g.busy /\ ~g.manual
Drained(g) ==
  IF MayDrain(g)
  THEN Submitted([g EXCEPT !.pending = FALSE, !.forced = FALSE], g.forced)
  ELSE g
DrainedRound(g, idle) ==
  IF MayDrain(g) /\ MaySubmit(g) THEN RoundOf(g, g.forced) ELSE idle

-----------------------------------------------------------------------------
(* The list of backups of BackupController *)

NoScan == [of |-> NoRepository, names |-> {}, read |-> FALSE]
NothingShown == [of |-> NoRepository, names |-> {}]
ScanOf(r) == [of |-> r, names |-> {}, read |-> FALSE]

\* refreshBackups: the latest request wins.
Refreshed(c, r) ==
  IF r = NoRepository THEN [c EXCEPT !.list = NothingShown, !.again = FALSE]
  ELSE IF c.scan # NoScan THEN [c EXCEPT !.again = TRUE]
  ELSE [c EXCEPT !.scan = ScanOf(r), !.again = FALSE]

\* RunCatalogList, in its thread.
ReadCatalog ==
  /\ catalog.scan # NoScan /\ ~catalog.scan.read
  /\ catalog' = [catalog EXCEPT !.scan.read = TRUE,
                                !.scan.names = stored[catalog.scan.of]]
  /\ UNCHANGED <<gui, round, file, configFile, stored, rival>>

\* Mutated: the result is shown whatever it is of.
ShowWhateverCame ==
  /\ catalog.scan.read
  /\ catalog' = [list |-> [of |-> catalog.scan.of, names |-> catalog.scan.names],
                 scan |-> IF catalog.again THEN ScanOf(gui.shown) ELSE NoScan,
                 again |-> FALSE]
  /\ UNCHANGED <<gui, round, file, configFile, stored, rival>>

\* The scan comes back: stale, it is dropped and the scan begins again.
ShowCatalog ==
  /\ catalog.scan.read
  /\ LET stale == catalog.scan.of # gui.shown IN
     catalog' = [list |-> IF stale THEN catalog.list
                          ELSE [of |-> catalog.scan.of, names |-> catalog.scan.names],
                 scan |-> IF (stale \/ catalog.again) /\ gui.shown # NoRepository
                          THEN ScanOf(gui.shown) ELSE NoScan,
                 again |-> FALSE]
  /\ UNCHANGED <<gui, round, file, configFile, stored, rival>>

\* The page asks for the list again.
RefreshBackups ==
  /\ catalog' = Refreshed(catalog, gui.shown)
  /\ UNCHANGED <<gui, round, file, configFile, stored, rival>>

-----------------------------------------------------------------------------
(* The callbacks of ScheduleController *)

\* Tick, once a second.
Tick ==
  /\ gui.ticking /\ ~gui.suspended /\ gui.loaded /\ gui.document.enabled
  /\ LET g == IF gui.holding THEN gui ELSE RunnerLock(gui)
         run == g.holding /\ g.document.due
     IN  /\ gui' = IF run THEN Submitted(g, FALSE) ELSE g
         /\ round' = IF run THEN RoundOf(g, FALSE) ELSE round
  /\ UNCHANGED <<file, configFile, stored, rival, catalog>>

\* runNow.
RunNow ==
  /\ ~gui.suspended /\ gui.loaded /\ gui.document.enabled /\ gui.holding
  /\ gui' = Submitted(gui, TRUE)
  /\ round' = RoundOf(gui, TRUE)
  /\ UNCHANGED <<file, configFile, stored, rival, catalog>>

\* Mutated: a save only looks whether the file could be read.
MaySaveAnyTime(g) == g.loaded

\* saveConfig writes nothing while anything else may write.
MaySaveConfig(g) == g.gate = "kNone" /\ ~g.busy /\ g.loaded

\* saveConfig, of a configuration that passes the checks; ScheduleStore::Save
\* may fail, and then nothing has happened.
SaveConfig(enable) ==
  /\ MaySaveConfig(gui)
  /\ enable => gui.repository # NoRepository  \* ValidateScheduleForEnable
  /\ LET next == [gui.document EXCEPT
                    !.enabled = enable, !.valid = TRUE,
                    !.due = IF enable /\ ~gui.document.enabled THEN FALSE ELSE @]
     IN  /\ file' = next
         /\ gui' = RunnerLock(ConfigInvalid([gui EXCEPT !.document = next], FALSE))
  /\ UNCHANGED <<round, configFile, stored, rival, catalog>>

\* OnEvaluationFinished: the gate first, then what the disk says now.
EvaluationFinished ==
  /\ round.step = "finished"
  /\ LET idle == [gui EXCEPT !.gate = "kNone", !.busy = FALSE]
         read == Loaded(idle, file, configFile)
         g == IF round.invalid THEN ConfigInvalid(read, TRUE) ELSE RunnerLock(read)
     IN  /\ gui' = IF g.suspended THEN g ELSE Drained(g)
         /\ round' = IF g.suspended THEN NoRound ELSE DrainedRound(g, NoRound)
  /\ UNCHANGED <<file, configFile, stored, rival, catalog>>

-----------------------------------------------------------------------------
(* RunEvaluation, in its thread *)

Finish(invalid) == round' = [step |-> "finished", invalid |-> invalid]

\* ReconcileManagedSnapshots: the records whose archive is gone are dropped.
Reconciled(d, there) == [d EXCEPT !.managed = @ \cap there]

\* The document is read, and the round may be over at once.
EvaluationLoads ==
  /\ round.step = "submitted"
  /\ IF file = Unreadable \/ ~file.enabled \/ ~(round.force \/ file.due) THEN Finish(FALSE)
     ELSE IF ~file.valid THEN Finish(TRUE)
     ELSE round' = [step |-> "writing", repository |-> round.repository,
                    document |-> [Reconciled(file, stored[round.repository])
                                    EXCEPT !.due = FALSE]]
  /\ UNCHANGED <<gui, file, configFile, stored, rival, catalog>>

\* A snapshot is made and recorded, or nothing changed, or the round failed.
EvaluationWrites ==
  /\ round.step = "writing"
  /\ \/ /\ round' = [round EXCEPT !.step = "saving"]
        /\ UNCHANGED stored
     \/ \E n \in Snapshots :
          /\ \A r \in Repositories : n \notin stored[r]  \* names carry the time
          /\ stored' = [stored EXCEPT ![round.repository] = @ \cup {n}]
          /\ round' = [round EXCEPT !.step = "saving", !.document.managed = @ \cup {n}]
  /\ UNCHANGED <<gui, file, configFile, rival, catalog>>

\* The document is saved, or that fails.
EvaluationSaves ==
  /\ round.step = "saving"
  /\ file' \in {file, round.document}
  /\ Finish(FALSE)
  /\ UNCHANGED <<gui, configFile, stored, rival, catalog>>

-----------------------------------------------------------------------------
(* BackupController *)

\* Start: a manual backup or restore takes the gate, then it is busy.
StartManual ==
  /\ ~gui.manual /\ gui.shown # NoRepository /\ gui.gate = "kNone"
  /\ gui' = [gui EXCEPT !.gate = "kManual", !.manual = TRUE]
  /\ UNCHANGED <<round, file, configFile, stored, rival, catalog>>

\* It ends: the gate is released, busyChanged drains what waited, and the list
\* is read again if it was a backup.
ManualEnds ==
  /\ gui.manual
  /\ LET g == [gui EXCEPT !.gate = "kNone", !.manual = FALSE] IN
       gui' = Drained(g) /\ round' = DrainedRound(g, round)
  /\ catalog' \in {catalog, Refreshed(catalog, gui.shown)}
  /\ UNCHANGED <<file, configFile, stored, rival>>

\* OnRepositoryPathChanged.  The signal is sent inside saveRepositoryPath, which
\* still has the gate.
RepositoryPathChanged(g, path) ==
  LET read == RunnerLock(Loaded(g, file, path)) IN
  IF read.repository # g.repository THEN Drained(read) ELSE read

\* saveRepositoryPath; a failure to save changes nothing.
SaveRepositoryPath(path) ==
  /\ gui.gate = "kNone" /\ ~gui.manual
  /\ configFile' = path
  /\ LET held == [gui EXCEPT !.gate = "kRepositoryChange", !.shown = path]
         g == IF gui.shown = path THEN held ELSE RepositoryPathChanged(held, path)
     IN  gui' = [g EXCEPT !.gate = "kNone"]
  /\ catalog' = Refreshed([catalog EXCEPT !.list = NothingShown], path)
  /\ UNCHANGED <<round, file, stored, rival>>

\* deleteBackup asks for the gate as everybody does.
MayDelete(g) == g.gate = "kNone" /\ ~g.manual

\* deleteBackup, and OnArchiveDeleted while the gate is still held: the record
\* goes with the archive, on the disk too if it can be saved.
DeleteBackup(n) ==
  /\ MayDelete(gui) /\ catalog.scan = NoScan
  /\ gui.shown # NoRepository /\ n \in catalog.list.names
  /\ n \in stored[gui.shown]
  /\ stored' = [stored EXCEPT ![gui.shown] = @ \ {n}]
  /\ catalog' = Refreshed(catalog, gui.shown)
  /\ LET document == Reconciled(gui.document, stored'[gui.repository])
         observed == gui.loaded /\ ~gui.suspended /\ gui.repository # NoRepository
     IN  IF observed /\ document # gui.document
         THEN /\ gui' = [gui EXCEPT !.document = document]
              /\ file' \in {file} \cup (IF document.valid THEN {document} ELSE {})
         ELSE UNCHANGED <<gui, file>>
  /\ UNCHANGED <<round, configFile, rival>>

-----------------------------------------------------------------------------
(* The world around *)

\* RealtimeController saves its configuration or evaluates.
RealtimeBegins ==
  /\ gui.gate = "kNone"
  /\ gui' = [gui EXCEPT !.gate = "kRealtime", !.realtime = TRUE]
  /\ UNCHANGED <<round, file, configFile, stored, rival, catalog>>
RealtimeEnds ==
  /\ gui.realtime
  /\ gui' = [gui EXCEPT !.gate = IF @ = "kRealtime" THEN "kNone" ELSE @,
                        !.realtime = FALSE]
  /\ UNCHANGED <<round, file, configFile, stored, rival, catalog>>

\* Another process takes the runner lock, or ends.
RivalTakesLock ==
  /\ ~rival /\ ~gui.holding /\ rival' = TRUE
  /\ UNCHANGED <<gui, round, file, configFile, stored, catalog>>
RivalEnds ==
  /\ rival /\ rival' = FALSE
  /\ UNCHANGED <<gui, round, file, configFile, stored, catalog>>

\* next_run_time_sec is reached.
BecomesDue ==
  /\ file # Unreadable /\ ~file.due
  /\ file' = [file EXCEPT !.due = TRUE]
  /\ gui' = [gui EXCEPT !.document.due = TRUE]
  /\ UNCHANGED <<round, configFile, stored, rival, catalog>>

\* The user edits schedule.json by hand: into something no evaluation accepts,
\* or back; into something no one can read; or removes that again.
EditByHand ==
  /\ \/ file' = IF file = Unreadable THEN NoDocument ELSE [file EXCEPT !.valid = ~@]
     \/ file' = Unreadable
  /\ UNCHANGED <<gui, round, configFile, stored, rival, catalog>>

\* The application ends, in the middle of anything, and is started again.
Started ==
  LET g == [gate |-> "kNone", manual |-> FALSE, realtime |-> FALSE,
            shown |-> configFile, repository |-> NoRepository, document |-> NoDocument,
            loaded |-> FALSE, suspended |-> FALSE, ticking |-> FALSE,
            holding |-> FALSE, busy |-> FALSE, pending |-> FALSE, forced |-> FALSE]
  IN  RunnerLock(Loaded(g, file, configFile))
Restart ==
  /\ gui' = Started /\ round' = NoRound
  /\ catalog' = Refreshed([list |-> NothingShown, scan |-> NoScan, again |-> FALSE],
                          configFile)
  /\ UNCHANGED <<file, configFile, stored, rival>>

GuiInit ==
  /\ file = NoDocument /\ configFile = NoRepository /\ rival = FALSE
  /\ stored = [r \in Repositories |-> {}]
  /\ gui = Started /\ round = NoRound
  /\ catalog = [list |-> NothingShown, scan |-> NoScan, again |-> FALSE]

Evaluation == EvaluationLoads \/ EvaluationWrites \/ EvaluationSaves

GuiNext ==
  \/ Tick \/ RunNow \/ EvaluationFinished \/ Evaluation
  \/ \E enable \in BOOLEAN : SaveConfig(enable)
  \/ StartManual \/ ManualEnds
  \/ \E path \in Repositories : SaveRepositoryPath(path)
  \/ \E n \in Snapshots : DeleteBackup(n)
  \/ RefreshBackups \/ ReadCatalog \/ ShowCatalog
  \/ RealtimeBegins \/ RealtimeEnds \/ RivalTakesLock \/ RivalEnds
  \/ BecomesDue \/ EditByHand \/ Restart

GuiSpec == GuiInit /\ [][GuiNext]_guiVars

-----------------------------------------------------------------------------
(***************************************************************************)
(* What the gate is for: of an evaluation of the schedule, a backup or     *)
(* restore of the user and the work of the realtime controller, at most    *)
(* one is under way, though each of the three has a busy flag of its own.  *)
(***************************************************************************)
OneWorkAtATime ==
  /\ ~(gui.manual /\ gui.realtime)
  /\ round.step # "none" => gui.busy /\ ~gui.manual /\ ~gui.realtime

(***************************************************************************)
(* Two threads write schedule.json, and each writes all of it from the     *)
(* copy it has.  The record of a scheduled snapshot that is still in the   *)
(* repository does not get lost on the way, by a save, a deletion or an    *)
(* evaluation: without it the retention would never remove the snapshot.   *)
(***************************************************************************)
NoRecordIsLost ==
  [][ file # Unreadable /\ file' # Unreadable /\ gui.shown # NoRepository
        => file.managed \ file'.managed \subseteq Snapshots \ stored'[gui.shown]
    ]_guiVars

(***************************************************************************)
(* A schedule that is to run has a timer that will try again for the lock  *)
(* another process has ("stopping it would mean that this program never    *)
(* runs the schedule again", ApplyRunnerLock), and one that is not to run  *)
(* keeps no other process from running it: whatever has been saved, edited *)
(* or read again, before or while an evaluation was in flight.             *)
(***************************************************************************)
WantsToRun == gui.document.enabled /\ gui.loaded /\ ~gui.suspended
LockFollowsThePlan ==
  /\ WantsToRun => gui.ticking
  /\ gui.holding => WantsToRun

(***************************************************************************)
(* The list of backups is of the repository the application works on,      *)
(* though a scan of another one may come back after it was changed, and    *)
(* once no scan is under way it shows none the user has deleted.           *)
(***************************************************************************)
ListIsOfTheRepository ==
  /\ catalog.list.of \in {NoRepository, gui.shown}
  /\ catalog.scan = NoScan /\ catalog.list.of # NoRepository
       => catalog.list.names \subseteq stored[gui.shown]

(***************************************************************************)
(* schedule_controller.cpp:282 says that the check that waited must be     *)
(* made in the repository the user changes to.                             *)
(***************************************************************************)
RepositoryChangeRunsWhatWaits ==
  [][gui'.repository \notin {gui.repository, NoRepository} /\ ~gui'.suspended
       => ~gui'.pending]_guiVars
=============================================================================
