-------------------------- MODULE RealtimeController --------------------------
(***************************************************************************)
(* Backup on file events: ui/modern/realtime_controller.cpp with the       *)
(* inotify watcher, the debouncer and the operation gate it uses.          *)
(*                                                                         *)
(* Everything but the backup itself happens on the GUI thread, one handler *)
(* at a time.  The file system changes at any moment, and so in the middle *)
(* of the one handler that replaces the inotify descriptor, which is two   *)
(* steps here.  The backup runs in a pool thread: it observes the source   *)
(* tree and ends some time later.                                          *)
(*                                                                         *)
(* version counts the changes of the source tree.  A run remembers the     *)
(* version it observed, and settled is the newest version that a finished  *)
(* run has observed: its outcome, a snapshot, "no changes" or a failure,   *)
(* has been shown to the user.                                             *)
(***************************************************************************)
EXTENDS RealtimeDebouncer

CONSTANTS
    TickCap,       \* kDebounceTickCapMs, in ticks
    Repositories,  \* paths config.json may name as backup repository
    Unusable,      \* those that are empty or overlap the source
    Noisy,         \* events come without a change, without end
    None,          \* no debouncer, no pending generation, no repository
    MaxChanges,    \* bound: changes of the source tree
    MaxCommands,   \* bound: things the user does
    MaxFaults      \* bound: calls of the system that fail

ASSUME ControllerAssumption ==
    /\ TickCap \in Nat \ {0}
    /\ Unusable \subseteq Repositories
    /\ Noisy \in BOOLEAN
    /\ None \notin Repositories /\ None \notin Debouncer
    /\ None \notin Generation
    /\ MaxChanges \in Nat \ {0}
    /\ MaxCommands \in Nat /\ MaxFaults \in Nat

VARIABLES
    version,        \* changes of the source tree so far
    attached,       \* the watcher has a descriptor
    queue,          \* what the kernel holds for it
    step, batch,    \* "rebuild": OnWatcherReadable, and the batch it drained
    configState,    \* config_loaded_, config_error_, config_.enabled
    debouncer,      \* debouncer_
    debounceTimer,  \* ticks left of debounce_timer_, or Off
    retryTimer, recoveryTimer,  \* armed or not
    pending,        \* pending_generation_, if it is valid
    run,            \* the backup in the pool thread
    settled,        \* the newest version a finished run observed
    repository,     \* repository_path_, which is what config.json says
    gate,           \* the owner of the operation gate
    commands, faults

sourceVars == <<version, queue>>
watchVars == <<attached, debouncer, debounceTimer, recoveryTimer>>
runVars == <<run, gate, pending, retryTimer>>
handlerVars == <<step, batch>>
controllerVars == <<sourceVars, watchVars, runVars, handlerVars, configState, settled,
                    repository, commands, faults>>

Off == -1
NoEvents == [events |-> 0, flags |-> {}]
Flags == {"structural", "overflow", "rootLost"}
Batch == [events : 0..MaxCount, flags : SUBSET Flags]
NoRun == [phase |-> "idle", events |-> 0, seen |-> 0, repository |-> None]
Busy == run.phase # "idle"

ControllerTypeOK ==
    /\ version \in 0..MaxChanges /\ settled \in 0..MaxChanges
    /\ attached \in BOOLEAN
    /\ queue \in Batch /\ batch \in Batch
    /\ step \in {"idle", "rebuild"}
    /\ configState \in {"enabled", "disabled", "error"}
    /\ debouncer \in Debouncer \cup {None}
    /\ debounceTimer \in Off..TickCap
    /\ retryTimer \in BOOLEAN /\ recoveryTimer \in BOOLEAN
    /\ pending \in Generation \cup {None}
    /\ run \in [phase : {"idle", "started", "scanned"}, events : 0..MaxCount,
                seen : 0..MaxChanges, repository : Repositories \cup {None}]
    /\ repository \in Repositories
    /\ gate \in {"free", "realtime", "other"}
    /\ commands \in 0..MaxCommands /\ faults \in 0..MaxFaults

OneFault == faults < MaxFaults /\ faults' = faults + 1
NoFault == UNCHANGED faults
Command == commands < MaxCommands /\ commands' = commands + 1

-----------------------------------------------------------------------------
(* The source tree *)

Queued(flags) ==
    queue' = IF attached
             THEN [events |-> Counted(queue.events + 1),
                   flags |-> queue.flags \cup flags]
             ELSE queue

(***************************************************************************)
(* A file or a directory changes; the event may not fit into the queue.    *)
(***************************************************************************)
Change ==
    /\ version < MaxChanges
    /\ version' = version + 1
    /\ \E flags \in {{}, {"structural"}, {"overflow"}} : Queued(flags)
    /\ UNCHANGED <<watchVars, runVars, handlerVars, configState, settled,
                   repository, commands, faults>>

(***************************************************************************)
(* The source directory itself is moved away or deleted.                   *)
(***************************************************************************)
LoseRoot ==
    /\ version < MaxChanges /\ OneFault
    /\ version' = version + 1
    /\ Queued({"structural", "rootLost"})
    /\ UNCHANGED <<watchVars, runVars, handlerVars, configState, settled,
                   repository, commands>>

(***************************************************************************)
(* An event of a file the backup leaves out, or that was written unchanged;*)
(* unless Noisy, counted with the faults.                                  *)
(***************************************************************************)
Noise ==
    /\ attached
    /\ \/ Noisy /\ NoFault
       \/ OneFault
    /\ Queued({})
    /\ UNCHANGED <<version, watchVars, runVars, handlerVars, configState, settled,
                   repository, commands>>

Tick ==
    /\ debouncer # None
    /\ debouncer.soft > 0 \/ debouncer.hard > 0 \/ debounceTimer > 0
    /\ debouncer' = Elapse(debouncer)
    /\ debounceTimer' = IF debounceTimer = Off THEN Off
                        ELSE OneLess(debounceTimer)
    /\ UNCHANGED <<sourceVars, attached, recoveryTimer, runVars, handlerVars,
                   configState, settled, repository, commands, faults>>

-----------------------------------------------------------------------------
(* Watching *)

(***************************************************************************)
(* ArmDebounceTimer for a debouncer d that is dirty: between 1 and TickCap.*)
(***************************************************************************)
Interval(d) ==
    IF WaitMs(d) < 1 THEN 1 ELSE Lesser(WaitMs(d), TickCap)

Arm(d) ==
    /\ debouncer' = d
    /\ debounceTimer' = Interval(d)

Unwatched ==
    /\ attached' = FALSE /\ queue' = NoEvents
    /\ debouncer' = None /\ debounceTimer' = Off

(***************************************************************************)
(* TryStartWatching succeeded: a new descriptor and a due resync.          *)
(***************************************************************************)
Watched ==
    /\ attached' = TRUE /\ queue' = NoEvents
    /\ Arm(NoteResync(Clean))
    /\ recoveryTimer' = FALSE

(***************************************************************************)
(* BeginWatching with repository r: the watch comes up, or a retry is      *)
(* scheduled.                                                              *)
(***************************************************************************)
BeginWatching(r) ==
    \/ r \notin Unusable /\ NoFault /\ Watched
    \/ /\ \/ r \in Unusable /\ NoFault
          \/ OneFault
       /\ Unwatched /\ recoveryTimer' = TRUE

\* Mutated: the retry of a queued trigger survives StopWatching.
RewatchKeepingRetry(loaded, r) ==
    /\ UNCHANGED retryTimer
    /\ IF loaded = "enabled" THEN BeginWatching(r)
       ELSE Unwatched /\ recoveryTimer' = FALSE /\ NoFault

(***************************************************************************)
(* StopWatching, then BeginWatching if the configuration says so.          *)
(***************************************************************************)
Rewatch(loaded, r) ==
    /\ retryTimer' = FALSE
    /\ IF loaded = "enabled" THEN BeginWatching(r)
       ELSE Unwatched /\ recoveryTimer' = FALSE /\ NoFault

(***************************************************************************)
(* EnterDegraded, which leaves the retry of a queued trigger alone.        *)
(***************************************************************************)
EnterDegraded ==
    /\ Unwatched
    /\ recoveryTimer' = (configState = "enabled" \/ recoveryTimer)

OnRecoveryTimeout ==
    /\ step = "idle" /\ recoveryTimer
    /\ IF configState # "enabled"
       THEN /\ recoveryTimer' = FALSE /\ NoFault
            /\ UNCHANGED <<attached, queue, debouncer, debounceTimer>>
       ELSE \/ repository \notin Unusable /\ NoFault /\ Watched
            \/ OneFault /\ UNCHANGED <<watchVars, queue>>
    /\ UNCHANGED <<version, runVars, handlerVars, configState, settled, repository,
                   commands>>

-----------------------------------------------------------------------------
(* OnWatcherReadable *)

DrainWatcher ==
    /\ step = "idle" /\ attached /\ queue # NoEvents
    /\ queue' = NoEvents
    /\ \/ /\ NoFault
          /\ IF queue.flags = {}
             THEN /\ Arm(NoteEvents(debouncer, queue.events))
                  /\ UNCHANGED handlerVars
             ELSE /\ debouncer' = NoteEvents(debouncer, queue.events)
                  /\ step' = "rebuild" /\ batch' = queue
                  /\ UNCHANGED debounceTimer
          /\ UNCHANGED <<attached, recoveryTimer>>
       \/ OneFault /\ EnterDegraded /\ UNCHANGED handlerVars
    /\ UNCHANGED <<version, runVars, configState, settled, repository, commands>>

(***************************************************************************)
(* Rebuild watches the tree on a new descriptor and closes the old one,    *)
(* with whatever has come in since it was drained.                         *)
(***************************************************************************)
RebuildWatches ==
    /\ step = "rebuild"
    /\ step' = "idle" /\ batch' = NoEvents
    /\ \/ /\ NoFault /\ "rootLost" \notin batch.flags
          /\ queue' = NoEvents
          /\ Arm(IF "overflow" \in batch.flags THEN NoteResync(debouncer)
                                               ELSE debouncer)
          /\ UNCHANGED <<attached, recoveryTimer>>
       \/ /\ \/ "rootLost" \in batch.flags /\ NoFault
             \/ OneFault
          /\ EnterDegraded
    /\ UNCHANGED <<version, runVars, configState, settled, repository, commands>>

-----------------------------------------------------------------------------
(* Triggers *)

(***************************************************************************)
(* MergePending of a generation g.                                         *)
(***************************************************************************)
Merged(g) ==
    IF pending = None THEN g
    ELSE [events |-> Counted(pending.events + g.events),
          resync |-> pending.resync \/ g.resync]

\* Mutated: the generation that finds the gate taken is not kept.
SubmitDroppingGeneration(g, owner, retry) ==
    \/ /\ configState # "enabled" \/ owner # "free"
       /\ pending' = None
       /\ UNCHANGED run
       /\ gate' = owner /\ retryTimer' = retry
    \/ /\ configState = "enabled" /\ owner = "free"
       /\ pending' = None
       /\ run' = [phase |-> "started", events |-> g.events, seen |-> 0,
                  repository |-> repository]
       /\ gate' = "realtime" /\ retryTimer' = retry

(***************************************************************************)
(* Submit of a generation g while no run is on: it is dropped if realtime  *)
(* backup is off, kept if another operation owns the gate, started if not. *)
(***************************************************************************)
Submit(g, owner, retry) ==
    \/ /\ configState # "enabled"
       /\ pending' = None /\ run' = NoRun
       /\ gate' = owner /\ retryTimer' = retry
    \/ /\ configState = "enabled" /\ owner # "free"
       /\ pending' = Merged(g) /\ run' = NoRun
       /\ gate' = owner /\ retryTimer' = TRUE
    \/ /\ configState = "enabled" /\ owner = "free"
       /\ pending' = None
       /\ run' = [phase |-> "started", events |-> g.events, seen |-> 0,
                  repository |-> repository]
       /\ gate' = "realtime" /\ retryTimer' = retry

OnDebounceTimeout ==
    /\ step = "idle" /\ debounceTimer = 0
    /\ IF ~Due(debouncer)
       THEN Arm(debouncer) /\ UNCHANGED runVars
       ELSE /\ debouncer' = Clean /\ debounceTimer' = Off
            /\ IF Busy
               THEN /\ pending' = Merged(Consumed(debouncer))
                    /\ UNCHANGED <<run, gate, retryTimer>>
               ELSE Submit(Consumed(debouncer), gate, retryTimer)
    /\ UNCHANGED <<sourceVars, attached, recoveryTimer, handlerVars, configState,
                   settled, repository, commands, faults>>

(***************************************************************************)
(* The trigger that is kept is submitted again: if the gate is still taken *)
(* it is merged with itself.                                               *)
(***************************************************************************)
OnRetryTimeout ==
    /\ step = "idle" /\ retryTimer
    /\ IF pending = None \/ Busy
       THEN retryTimer' = FALSE /\ UNCHANGED <<run, gate, pending>>
       ELSE Submit(pending, gate, FALSE)
    /\ UNCHANGED <<sourceVars, watchVars, handlerVars, configState, settled,
                   repository, commands, faults>>

(***************************************************************************)
(* RunRealtimeBackupOnce observes the source tree, or fails before it can. *)
(***************************************************************************)
RunObserves ==
    /\ run.phase = "started"
    /\ run' = [run EXCEPT !.phase = "scanned", !.seen = version]
    /\ UNCHANGED <<sourceVars, watchVars, gate, pending, retryTimer,
                   handlerVars, configState, settled, repository, commands, faults>>

\* Mutated: the gate is not released.
OnRunFinishedKeepingGate ==
    /\ step = "idle" /\ run.phase = "scanned"
    /\ settled' = IF run.seen > settled THEN run.seen ELSE settled
    /\ IF pending = None
       THEN run' = NoRun /\ UNCHANGED <<gate, pending, retryTimer>>
       ELSE Submit(pending, gate, retryTimer)
    /\ UNCHANGED <<sourceVars, watchVars, handlerVars, configState, repository,
                   commands, faults>>

(***************************************************************************)
(* The gate is released, the outcome shown, DrainPending submits.          *)
(***************************************************************************)
OnRunFinished ==
    /\ step = "idle" /\ run.phase = "scanned"
    /\ settled' = IF run.seen > settled THEN run.seen ELSE settled
    /\ IF pending = None
       THEN run' = NoRun /\ gate' = "free" /\ UNCHANGED <<pending, retryTimer>>
       ELSE Submit(pending, "free", retryTimer)
    /\ UNCHANGED <<sourceVars, watchVars, handlerVars, configState, repository,
                   commands, faults>>

-----------------------------------------------------------------------------
(* The user *)

(***************************************************************************)
(* start, at the start of the program and as reload: realtime.json says    *)
(* whether to watch, or cannot be used.                                    *)
(***************************************************************************)
Start(loaded) ==
    /\ step = "idle" /\ Command
    /\ configState' = loaded
    /\ Rewatch(loaded, repository)
    /\ pending' = None
    /\ UNCHANGED <<version, run, gate, handlerVars, settled, repository>>

(***************************************************************************)
(* The program dies and is started again.                                  *)
(***************************************************************************)
Restart(loaded) ==
    /\ Command
    /\ configState' = loaded
    /\ Rewatch(loaded, repository)
    /\ pending' = None /\ run' = NoRun /\ gate' = "free"
    /\ step' = "idle" /\ batch' = NoEvents
    /\ UNCHANGED <<version, settled, repository>>

(***************************************************************************)
(* saveConfig stops the watch first.  It refuses while any operation owns  *)
(* the gate and for what does not validate, and then watches as before.    *)
(***************************************************************************)
SaveConfig(next) ==
    /\ step = "idle" /\ Command
    /\ \/ Rewatch(configState, repository) /\ UNCHANGED configState
       \/ /\ gate = "free"
          /\ next = "enabled" => repository \notin Unusable
          /\ configState' = next
          /\ Rewatch(next, repository)
    /\ UNCHANGED <<version, run, gate, pending, handlerVars, settled,
                   repository>>

(***************************************************************************)
(* BackupController saves the repository with the gate in its hands, and   *)
(* OnRepositoryPathChanged runs before it gives it back.                   *)
(***************************************************************************)
ChangeRepository(r) ==
    /\ step = "idle" /\ Command
    /\ gate = "free" /\ r # repository
    /\ repository' = r
    /\ Rewatch(configState, r)
    /\ UNCHANGED <<version, run, gate, pending, handlerVars, configState, settled>>

OtherBegins ==
    /\ step = "idle" /\ Command
    /\ gate = "free" /\ gate' = "other"
    /\ UNCHANGED <<sourceVars, watchVars, run, pending, retryTimer,
                   handlerVars, configState, settled, repository, faults>>

OtherEnds ==
    /\ step = "idle"
    /\ gate = "other" /\ gate' = "free"
    /\ UNCHANGED <<sourceVars, watchVars, run, pending, retryTimer,
                   handlerVars, configState, settled, repository, commands, faults>>

-----------------------------------------------------------------------------
ControllerInit ==
    /\ version = 1 /\ settled = 0
    /\ attached = FALSE /\ queue = NoEvents
    /\ step = "idle" /\ batch = NoEvents
    /\ configState = "disabled"
    /\ debouncer = None /\ debounceTimer = Off
    /\ retryTimer = FALSE /\ recoveryTimer = FALSE
    /\ pending = None /\ run = NoRun /\ gate = "free"
    /\ repository \in Repositories \ Unusable
    /\ commands = 0 /\ faults = 0

SourceStep == Change \/ LoseRoot \/ Noise

EventLoop ==
    \/ DrainWatcher \/ RebuildWatches \/ OnRecoveryTimeout
    \/ OnDebounceTimeout \/ OnRetryTimeout \/ OnRunFinished

User ==
    \/ \E loaded \in {"enabled", "disabled", "error"} :
         Start(loaded) \/ Restart(loaded)
    \/ \E next \in {"enabled", "disabled"} : SaveConfig(next)
    \/ \E r \in Repositories : ChangeRepository(r)
    \/ OtherBegins

ControllerNext == SourceStep \/ Tick \/ EventLoop \/ RunObserves \/ OtherEnds \/ User

(***************************************************************************)
(* The event loop serves what is ready and stays ready, time passes, a     *)
(* backup ends, and so does whatever else owns the gate.  Nothing is       *)
(* promised of the source tree and of the user.                            *)
(***************************************************************************)
Fairness ==
    /\ WF_controllerVars(Tick) /\ WF_controllerVars(RunObserves) /\ WF_controllerVars(OtherEnds)
    /\ WF_controllerVars(DrainWatcher) /\ WF_controllerVars(RebuildWatches)
    /\ WF_controllerVars(OnRecoveryTimeout) /\ WF_controllerVars(OnDebounceTimeout)
    /\ WF_controllerVars(OnRetryTimeout) /\ WF_controllerVars(OnRunFinished)

ControllerSpec == ControllerInit /\ [][ControllerNext]_controllerVars
FairSpec == ControllerSpec /\ Fairness

-----------------------------------------------------------------------------
(***************************************************************************)
(* Something that will look at the source tree again and that is awake: an *)
(* event the kernel or the handler holds, a trigger with its timer, a run  *)
(* that has still to observe the tree, or the retry of the watch.          *)
(***************************************************************************)
LookIsDue ==
    \/ attached /\ queue # NoEvents
    \/ step = "rebuild"
    \/ debouncer # None /\ debouncer.dirty /\ debounceTimer # Off
    \/ pending # None /\ (retryTimer \/ Busy)
    \/ run.phase = "started"
    \/ recoveryTimer

Observed ==
    IF run.phase = "scanned" /\ run.seen > settled THEN run.seen ELSE settled

(***************************************************************************)
(* While realtime backup is on, no change of the source tree is forgotten: *)
(* not one during a backup, while the gate is taken, in an overflow, while *)
(* the watch is broken or rebuilt, while the program or the watch is       *)
(* restarted or the configuration saved.                                   *)
(***************************************************************************)
NoChangeIsLost ==
    configState = "enabled" /\ Observed < version => LookIsDue

(***************************************************************************)
(* A run writes to the repository that is configured now and that has      *)
(* passed the overlap check, though a trigger may have waited through a    *)
(* change of the repository.                                               *)
(***************************************************************************)
RunsStayInRepository ==
    Busy => run.repository = repository /\ repository \notin Unusable

Active == configState = "enabled" /\ repository \notin Unusable

(***************************************************************************)
(* A change is observed by a run in the end, as long as realtime backup is *)
(* on and the repository can be used.                                      *)
(***************************************************************************)
ChangesAreObserved == Active /\ settled < version ~> ~Active \/ settled = version
=============================================================================
