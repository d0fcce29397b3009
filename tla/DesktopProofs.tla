---------------------------- MODULE DesktopProofs ----------------------------
(***************************************************************************)
(* Proofs about what the desktop runs: the controller that decides when a  *)
(* realtime backup runs, the service that runs it, and the controller of   *)
(* the remote page with its tunnel.                                        *)
(*                                                                         *)
(* What RealtimeController guarantees for every number of changes,         *)
(* repositories, deadlines and failures: a run writes to the configured    *)
(* repository, and no change of the source tree is forgotten.              *)
(*                                                                         *)
(* The steps of the service are steps over the repository, so what         *)
(* SnapshotRepositoryProofs shows of the archives and their chains holds   *)
(* under it.  What is the service's own is what its markers say, and what  *)
(* its retention takes for its own by them.                                *)
(*                                                                         *)
(* Between two events the controller of the page is in one of four ways    *)
(* (PageIdle, Working, Deferring, Waiting), and the invariant Good says    *)
(* what each of them means for the tunnel, the session and the page.  A    *)
(* handler is a set of the records it may leave, so a lemma about one says *)
(* that each of them is Good; a handler that calls another one hands it a  *)
(* record that is not Good yet, and its lemma says what it must be like.   *)
(***************************************************************************)
EXTENDS RealtimeController, RealtimeBackup, RemoteController,
        SnapshotRepositoryProofs

-----------------------------------------------------------------------------
(***************************************************************************)
(* The realtime controller: RealtimeController.                            *)
(***************************************************************************)

(***************************************************************************)
(* The watch is complete or being retried; a batch is noted before the     *)
(* descriptor is replaced.                                                 *)
(***************************************************************************)
WatchInv ==
    /\ attached <=> debouncer # None
    /\ debounceTimer # Off => debouncer # None
    /\ step = "rebuild" => attached /\ debouncer.dirty
    /\ configState = "enabled" => attached \/ recoveryTimer

(***************************************************************************)
(* A run holds the gate, which keeps the repository as it is; whatever can *)
(* start a run has seen a usable repository.                               *)
(***************************************************************************)
RunInv ==
    /\ Busy <=> gate = "realtime"
    /\ Busy => run.repository = repository
    /\ attached \/ retryTimer \/ Busy => repository \notin Unusable

ControllerInv == ControllerTypeOK /\ WatchInv /\ RunInv /\ NoChangeIsLost

-----------------------------------------------------------------------------
(***************************************************************************)
(* The debouncer's operators stay in its type and leave it dirty.          *)
(***************************************************************************)
LEMMA NoteTypes ==
    ASSUME NEW d \in Debouncer, NEW n \in Nat
    PROVE  /\ NoteEvents(d, n) \in Debouncer /\ NoteEvents(d, n).dirty
           /\ NoteResync(d) \in Debouncer /\ NoteResync(d).dirty
           /\ Elapse(d) \in Debouncer /\ Elapse(d).dirty = d.dirty
           /\ Consumed(d) \in Generation
<1>. USE DebouncerAssumption DEF Debouncer
<1>1. NoteEvents(d, n) \in Debouncer /\ NoteEvents(d, n).dirty
  BY DEF NoteEvents, Counted, Lesser
<1>2. NoteResync(d) \in Debouncer /\ NoteResync(d).dirty
  BY DEF NoteResync
<1>3. Elapse(d) \in Debouncer /\ Elapse(d).dirty = d.dirty
  BY DEF Elapse, OneLess
<1>4. Consumed(d) \in Generation
  BY DEF Consumed, Generation
<1>. QED
  BY <1>1, <1>2, <1>3, <1>4

LEMMA CleanType == Clean \in Debouncer
  BY DebouncerAssumption DEF Clean, Debouncer

(***************************************************************************)
(* The debounce timer sleeps for a positive time of at most TickCap.       *)
(***************************************************************************)
LEMMA IntervalType ==
    ASSUME NEW d \in Debouncer
    PROVE  Interval(d) \in Off..TickCap /\ Interval(d) # Off
  BY DebouncerAssumption, ControllerAssumption
  DEF Interval, WaitMs, Lesser, Debouncer, Off

LEMMA CountedType ==
    ASSUME NEW n \in Nat
    PROVE  Counted(n) \in 0..MaxCount /\ (n > 0 => Counted(n) > 0)
  BY DebouncerAssumption DEF Counted, Lesser

LEMMA MergedType ==
    ASSUME ControllerTypeOK, NEW g \in Generation
    PROVE  Merged(g) \in Generation /\ Merged(g) # None
  BY DebouncerAssumption, ControllerAssumption
  DEF ControllerTypeOK, Merged, Generation, Counted, Lesser

LEMMA BatchType == NoEvents \in Batch
  BY DebouncerAssumption DEF NoEvents, Batch

LEMMA OffType == Off \in Off..TickCap
  BY ControllerAssumption DEF Off

-----------------------------------------------------------------------------
(***************************************************************************)
(* What the pieces of handlers leave behind.  A watch that is up has a     *)
(* resync due, one that is not has no debouncer.                           *)
(***************************************************************************)
WatchTypes ==
    /\ attached \in BOOLEAN /\ queue \in Batch
    /\ debouncer \in Debouncer \cup {None}
    /\ debounceTimer \in Off..TickCap
    /\ recoveryTimer \in BOOLEAN

Up == /\ attached /\ debouncer # None /\ debouncer.dirty
      /\ debounceTimer # Off
Down == ~attached /\ debouncer = None /\ debounceTimer = Off

LEMMA WatchedIsUp ==
    ASSUME Watched
    PROVE  WatchTypes' /\ Up' /\ ~recoveryTimer'
<1>1. NoteResync(Clean) \in Debouncer /\ NoteResync(Clean).dirty
  BY NoteTypes, CleanType
<1>. QED
  BY <1>1, IntervalType, BatchType, ControllerAssumption
  DEF Watched, Arm, WatchTypes, Up

LEMMA UnwatchedIsDown ==
    ASSUME Unwatched
    PROVE  Down' /\ (recoveryTimer' \in BOOLEAN => WatchTypes')
  BY BatchType, OffType DEF Unwatched, WatchTypes, Down

LEMMA FaultType ==
    ASSUME ControllerTypeOK, OneFault \/ NoFault
    PROVE  faults' \in 0..MaxFaults
  BY ControllerAssumption DEF ControllerTypeOK, OneFault, NoFault

LEMMA RewatchResult ==
    ASSUME ControllerTypeOK, NEW loaded, NEW r, Rewatch(loaded, r)
    PROVE  /\ WatchTypes' /\ ~retryTimer' /\ faults' \in 0..MaxFaults
           /\ retryTimer' \in BOOLEAN
           /\ \/ Up' /\ r \notin Unusable
              \/ Down' /\ (loaded = "enabled" => recoveryTimer')
<1>1. CASE loaded = "enabled"
  <2>1. CASE r \notin Unusable /\ NoFault /\ Watched
    BY <2>1, WatchedIsUp, FaultType DEF Rewatch
  <2>2. CASE /\ (r \in Unusable /\ NoFault) \/ OneFault
             /\ Unwatched /\ recoveryTimer' = TRUE
    BY <2>2, UnwatchedIsDown, FaultType DEF Rewatch
  <2>. QED
    BY <1>1, <2>1, <2>2 DEF Rewatch, BeginWatching
<1>2. CASE loaded # "enabled"
  BY <1>2, UnwatchedIsDown, FaultType DEF Rewatch
<1>. QED
  BY <1>1, <1>2

-----------------------------------------------------------------------------
LEMMA InitInv == ControllerInit => ControllerInv
<1>. SUFFICES ASSUME ControllerInit PROVE ControllerInv
  OBVIOUS
<1>1. ControllerTypeOK
  <2>1. 0 \in 0..MaxChanges /\ 1 \in 0..MaxChanges
        /\ 0 \in 0..MaxCommands /\ 0 \in 0..MaxFaults
    BY ControllerAssumption
  <2>2. NoRun \in [phase : {"idle", "started", "scanned"},
                  events : 0..MaxCount, seen : 0..MaxChanges,
                  repository : Repositories \cup {None}]
    BY <2>1, DebouncerAssumption DEF NoRun
  <2>. QED
    BY <2>1, <2>2, BatchType, OffType DEF ControllerInit, ControllerTypeOK
<1>2. WatchInv /\ RunInv /\ NoChangeIsLost
  BY DEF ControllerInit, WatchInv, RunInv, NoChangeIsLost, Busy, NoRun
<1>. QED
  BY <1>1, <1>2 DEF ControllerInv

LEMMA CommandType ==
    ASSUME ControllerTypeOK, Command
    PROVE  commands' \in 0..MaxCommands
  BY ControllerAssumption DEF ControllerTypeOK, Command

(***************************************************************************)
(* After StopWatching and BeginWatching there is a due resync or a retry,  *)
(* whatever was lost with the descriptor, the debouncer and the triggers.  *)
(***************************************************************************)
LEMMA RewatchInv ==
    ASSUME ControllerInv, NEW loaded, NEW r \in Repositories,
           Rewatch(loaded, r), configState' = loaded, repository' = r,
           step' = "idle", Busy' <=> gate' = "realtime",
           Busy' => run'.repository = r /\ r \notin Unusable
    PROVE  WatchInv' /\ RunInv' /\ NoChangeIsLost'
<1>1. /\ WatchTypes' /\ ~retryTimer'
      /\ \/ Up' /\ r \notin Unusable
         \/ Down' /\ (loaded = "enabled" => recoveryTimer')
  BY RewatchResult DEF ControllerInv
<1>2. WatchInv'
  BY <1>1 DEF WatchInv, Up, Down
<1>3. RunInv'
  BY <1>1 DEF RunInv, Up, Down, Busy
<1>4. NoChangeIsLost'
  BY <1>1 DEF NoChangeIsLost, LookIsDue, Up, Down
<1>. QED
  BY <1>2, <1>3, <1>4

LEMMA RewatchTypes ==
    ASSUME ControllerTypeOK, NEW loaded \in {"enabled", "disabled", "error"},
           NEW r \in Repositories, Rewatch(loaded, r), Command,
           configState' = loaded, repository' = r, UNCHANGED <<version, settled>>,
           step' = "idle", batch' \in Batch,
           pending' \in Generation \cup {None},
           UNCHANGED run \/ run' = NoRun,
           gate' \in {"free", "realtime", "other"}
    PROVE  ControllerTypeOK'
<1>1. /\ WatchTypes' /\ retryTimer' \in BOOLEAN /\ faults' \in 0..MaxFaults
  BY RewatchResult
<1>2. commands' \in 0..MaxCommands
  BY CommandType
<1>3. run' \in [phase : {"idle", "started", "scanned"}, events : 0..MaxCount,
                seen : 0..MaxChanges, repository : Repositories \cup {None}]
  BY ControllerAssumption, DebouncerAssumption DEF ControllerTypeOK, NoRun
<1>. QED
  BY <1>1, <1>2, <1>3 DEF ControllerTypeOK, WatchTypes

LEMMA StartInv ==
    ASSUME ControllerInv, NEW loaded \in {"enabled", "disabled", "error"},
           Start(loaded)
    PROVE  ControllerInv'
<1>. USE DEF ControllerInv
<1>1. Busy' = Busy /\ gate' = gate /\ run' = run /\ repository' = repository
  BY DEF Start, Busy
<1>2. repository \in Repositories /\ repository' \in Repositories
  BY <1>1 DEF ControllerTypeOK
<1>3. WatchInv' /\ RunInv' /\ NoChangeIsLost'
  BY <1>1, <1>2, RewatchInv DEF Start, RunInv, handlerVars
<1>4. ControllerTypeOK'
  BY <1>2, RewatchTypes DEF Start, handlerVars, ControllerTypeOK
<1>. QED
  BY <1>3, <1>4

LEMMA RestartInv ==
    ASSUME ControllerInv, NEW loaded \in {"enabled", "disabled", "error"},
           Restart(loaded)
    PROVE  ControllerInv'
<1>. USE DEF ControllerInv
<1>1. ~Busy' /\ gate' = "free" /\ run' = NoRun /\ repository' = repository
  BY DEF Restart, Busy, NoRun
<1>2. repository \in Repositories
  BY DEF ControllerTypeOK
<1>3. WatchInv' /\ RunInv' /\ NoChangeIsLost'
  BY <1>1, <1>2, RewatchInv DEF Restart
<1>4. ControllerTypeOK'
  BY <1>2, RewatchTypes, BatchType DEF Restart
<1>. QED
  BY <1>3, <1>4

LEMMA SaveConfigInv ==
    ASSUME ControllerInv, NEW next \in {"enabled", "disabled"},
           SaveConfig(next)
    PROVE  ControllerInv'
<1>. USE DEF ControllerInv
<1>1. Busy' = Busy /\ gate' = gate /\ run' = run /\ repository' = repository
  BY DEF SaveConfig, Busy
<1>2. repository \in Repositories
      /\ configState \in {"enabled", "disabled", "error"}
  BY DEF ControllerTypeOK
<1>3. PICK loaded \in {"enabled", "disabled", "error"} :
         configState' = loaded /\ Rewatch(loaded, repository)
  BY <1>2 DEF SaveConfig
<1>4. WatchInv' /\ RunInv' /\ NoChangeIsLost'
  BY <1>1, <1>2, <1>3, RewatchInv DEF SaveConfig, RunInv, handlerVars
<1>5. ControllerTypeOK'
  BY <1>2, <1>3, RewatchTypes DEF SaveConfig, handlerVars, ControllerTypeOK
<1>. QED
  BY <1>4, <1>5

LEMMA ChangeRepositoryInv ==
    ASSUME ControllerInv, NEW r \in Repositories, ChangeRepository(r)
    PROVE  ControllerInv'
<1>. USE DEF ControllerInv
<1>1. ~Busy' /\ gate' = "free" /\ run' = run /\ repository' = r
  BY DEF ChangeRepository, Busy, RunInv
<1>2. configState \in {"enabled", "disabled", "error"} /\ configState' = configState
  BY DEF ControllerTypeOK, ChangeRepository
<1>3. WatchInv' /\ RunInv' /\ NoChangeIsLost'
  BY <1>1, <1>2, RewatchInv DEF ChangeRepository, handlerVars
<1>4. ControllerTypeOK'
  BY <1>2, RewatchTypes DEF ChangeRepository, handlerVars, ControllerTypeOK
<1>. QED
  BY <1>3, <1>4

LEMMA OthersInv ==
    ASSUME ControllerInv, OtherBegins \/ OtherEnds
    PROVE  ControllerInv'
<1>. USE DEF ControllerInv
<1>1. /\ UNCHANGED <<sourceVars, watchVars, run, pending, retryTimer,
                     handlerVars, configState, settled, repository, faults>>
      /\ gate' \in {"free", "other"} /\ gate # "realtime"
      /\ commands' \in 0..MaxCommands
  BY CommandType DEF OtherBegins, OtherEnds, ControllerTypeOK
<1>2. ControllerTypeOK'
  BY <1>1 DEF ControllerTypeOK, sourceVars, watchVars, handlerVars
<1>3. WatchInv' /\ RunInv' /\ NoChangeIsLost'
  BY <1>1 DEF WatchInv, RunInv, NoChangeIsLost, LookIsDue, Observed, Busy,
              sourceVars, watchVars, handlerVars
<1>. QED
  BY <1>2, <1>3

-----------------------------------------------------------------------------
(* The source tree and time *)

(***************************************************************************)
(* A change is queued if there is a watch; if there is none and realtime   *)
(* backup is on, the watch is being retried.                               *)
(***************************************************************************)
LEMMA QueuedType ==
    ASSUME ControllerTypeOK, NEW flags \in SUBSET Flags, Queued(flags)
    PROVE  queue' \in Batch /\ (attached => queue' # NoEvents)
<1>1. CASE attached
  <2>1. queue.events \in Nat /\ queue.flags \subseteq Flags
    BY DEF ControllerTypeOK, Batch
  <2>2. Counted(queue.events + 1) \in 0..MaxCount
        /\ Counted(queue.events + 1) > 0
    BY <2>1, CountedType
  <2>. QED
    BY <1>1, <2>1, <2>2 DEF Queued, Batch, NoEvents
<1>2. CASE ~attached
  BY <1>2 DEF Queued, ControllerTypeOK
<1>. QED
  BY <1>1, <1>2

LEMMA SourceInv ==
    ASSUME ControllerInv, SourceStep
    PROVE  ControllerInv'
<1>. USE DEF ControllerInv
<1>1. PICK flags \in SUBSET Flags : Queued(flags)
  BY DEF SourceStep, Change, LoseRoot, Noise, Flags
<1>2. /\ UNCHANGED <<watchVars, runVars, handlerVars, configState, settled,
                     repository, commands>>
      /\ version' \in 0..MaxChanges
      /\ version' # version => queue' = queue \/ attached
      /\ faults' \in 0..MaxFaults
  BY ControllerAssumption, FaultType
  DEF SourceStep, Change, LoseRoot, Noise, Queued, ControllerTypeOK
<1>3. queue' \in Batch /\ (attached => queue' # NoEvents)
  BY <1>1, QueuedType
<1>4. ControllerTypeOK'
  BY <1>2, <1>3 DEF ControllerTypeOK, watchVars, runVars, handlerVars
<1>5. WatchInv' /\ RunInv'
  BY <1>2 DEF WatchInv, RunInv, Busy, watchVars, runVars, handlerVars
<1>6. NoChangeIsLost'
  BY <1>2, <1>3, <1>5
  DEF NoChangeIsLost, LookIsDue, WatchInv, watchVars, handlerVars
<1>. QED
  BY <1>4, <1>5, <1>6

LEMMA TickInv ==
    ASSUME ControllerInv, Tick
    PROVE  ControllerInv'
<1>. USE DEF ControllerInv
<1>1. /\ debouncer \in Debouncer /\ debouncer # None
      /\ debouncer' \in Debouncer /\ debouncer' # None
      /\ debouncer'.dirty = debouncer.dirty
  BY NoteTypes, ControllerAssumption DEF Tick, ControllerTypeOK
<1>2. debounceTimer' \in Off..TickCap
      /\ (debounceTimer' = Off <=> debounceTimer = Off)
  BY ControllerAssumption DEF Tick, OneLess, Off, ControllerTypeOK
<1>3. UNCHANGED <<sourceVars, attached, recoveryTimer, runVars, handlerVars,
                  configState, settled, repository, commands, faults>>
  BY DEF Tick
<1>4. ControllerTypeOK'
  BY <1>1, <1>2, <1>3
  DEF ControllerTypeOK, sourceVars, runVars, handlerVars
<1>5. WatchInv' /\ RunInv' /\ NoChangeIsLost'
  BY <1>1, <1>2, <1>3
  DEF WatchInv, RunInv, NoChangeIsLost, LookIsDue, Observed, Busy,
      sourceVars, runVars, handlerVars
<1>. QED
  BY <1>4, <1>5

-----------------------------------------------------------------------------
(* The handlers *)

(***************************************************************************)
(* EnterDegraded leaves a retry behind while realtime backup is on.        *)
(***************************************************************************)
LEMMA DegradedResult ==
    ASSUME ControllerTypeOK, EnterDegraded
    PROVE  WatchTypes' /\ Down' /\ (configState = "enabled" => recoveryTimer')
<1>1. recoveryTimer' \in BOOLEAN /\ (configState = "enabled" => recoveryTimer')
  BY DEF EnterDegraded, ControllerTypeOK
<1>. QED
  BY <1>1, UnwatchedIsDown DEF EnterDegraded

LEMMA ArmResult ==
    ASSUME NEW d \in Debouncer, Arm(d)
    PROVE  /\ debouncer' = d /\ debouncer' # None
           /\ debouncer' \in Debouncer
           /\ debounceTimer' \in Off..TickCap /\ debounceTimer' # Off
  BY IntervalType, ControllerAssumption DEF Arm

(***************************************************************************)
(* A handler that only touches the watch keeps the invariant when it ends  *)
(* with a due debouncer, with a retry, or with a batch still to handle.    *)
(***************************************************************************)
LEMMA WatchHandlerInv ==
    ASSUME ControllerInv, WatchTypes', faults' \in 0..MaxFaults,
           batch' \in Batch,
           UNCHANGED <<version, runVars, configState, settled, repository,
                       commands>>,
           \/ step' = "idle" /\ Up' /\ repository \notin Unusable
           \/ step' = "idle" /\ Down'
                /\ (configState = "enabled" => recoveryTimer')
           \/ step' = "rebuild" /\ attached' /\ attached
                /\ debouncer' # None /\ debouncer'.dirty
    PROVE  ControllerInv'
<1>. USE DEF ControllerInv
<1>1. ControllerTypeOK'
  BY DEF ControllerTypeOK, WatchTypes, runVars
<1>2. WatchInv' /\ RunInv'
  BY DEF WatchInv, RunInv, Busy, Up, Down, runVars
<1>3. NoChangeIsLost'
  BY DEF NoChangeIsLost, LookIsDue, Up, Down
<1>. QED
  BY <1>1, <1>2, <1>3

LEMMA DrainInv ==
    ASSUME ControllerInv, DrainWatcher
    PROVE  ControllerInv'
<1>. USE DEF ControllerInv
<1>1. /\ attached /\ repository \notin Unusable
      /\ debouncer \in Debouncer /\ debouncer # None
      /\ queue.events \in Nat /\ queue \in Batch /\ batch \in Batch
  BY ControllerAssumption
  DEF DrainWatcher, WatchInv, RunInv, ControllerTypeOK, Batch
<1>2. /\ NoteEvents(debouncer, queue.events) \in Debouncer
      /\ NoteEvents(debouncer, queue.events).dirty
  BY <1>1, NoteTypes
<1>3. UNCHANGED <<version, runVars, configState, settled, repository, commands>>
      /\ step = "idle" /\ queue' = NoEvents
  BY DEF DrainWatcher
<1>4. CASE /\ OneFault /\ EnterDegraded /\ UNCHANGED handlerVars
  BY <1>1, <1>3, <1>4, DegradedResult, FaultType, WatchHandlerInv
  DEF handlerVars
<1>5. CASE /\ NoFault /\ Arm(NoteEvents(debouncer, queue.events))
           /\ UNCHANGED <<handlerVars, attached, recoveryTimer>>
  <2>1. WatchTypes' /\ Up'
    BY <1>1, <1>2, <1>3, <1>5, ArmResult, BatchType
    DEF WatchTypes, Up, ControllerTypeOK
  <2>. QED
    BY <1>1, <1>3, <1>5, <2>1, FaultType, WatchHandlerInv DEF handlerVars
<1>6. CASE /\ NoFault /\ debouncer' = NoteEvents(debouncer, queue.events)
           /\ step' = "rebuild" /\ batch' = queue
           /\ UNCHANGED <<debounceTimer, attached, recoveryTimer>>
  <2>1. WatchTypes' /\ attached' /\ debouncer' # None /\ debouncer'.dirty
    BY <1>1, <1>2, <1>3, <1>6, BatchType, ControllerAssumption
    DEF WatchTypes, ControllerTypeOK
  <2>. QED
    BY <1>1, <1>3, <1>6, <2>1, FaultType, WatchHandlerInv
<1>. QED
  BY <1>4, <1>5, <1>6 DEF DrainWatcher

LEMMA RebuildInv ==
    ASSUME ControllerInv, RebuildWatches
    PROVE  ControllerInv'
<1>. USE DEF ControllerInv
<1>1. /\ attached /\ repository \notin Unusable
      /\ debouncer \in Debouncer /\ debouncer.dirty
  BY DEF RebuildWatches, WatchInv, RunInv, ControllerTypeOK
<1>2. UNCHANGED <<version, runVars, configState, settled, repository, commands>>
      /\ step' = "idle" /\ batch' \in Batch
  BY BatchType DEF RebuildWatches
<1>3. CASE /\ ("rootLost" \in batch.flags /\ NoFault) \/ OneFault
           /\ EnterDegraded
  BY <1>1, <1>2, <1>3, DegradedResult, FaultType, WatchHandlerInv
<1>4. CASE /\ NoFault /\ queue' = NoEvents
           /\ Arm(IF "overflow" \in batch.flags THEN NoteResync(debouncer)
                                                ELSE debouncer)
           /\ UNCHANGED <<attached, recoveryTimer>>
  <2>1. PICK d \in Debouncer : d.dirty /\ Arm(d)
    BY <1>1, <1>4, NoteTypes
  <2>2. WatchTypes' /\ Up'
    BY <1>1, <1>4, <2>1, ArmResult, BatchType
    DEF WatchTypes, Up, ControllerTypeOK
  <2>. QED
    BY <1>1, <1>2, <1>4, <2>2, FaultType, WatchHandlerInv
<1>. QED
  BY <1>3, <1>4 DEF RebuildWatches

LEMMA RecoveryInv ==
    ASSUME ControllerInv, OnRecoveryTimeout
    PROVE  ControllerInv'
<1>. USE DEF ControllerInv
<1>1. /\ UNCHANGED <<version, runVars, handlerVars, configState, settled,
                     repository, commands>>
      /\ step = "idle" /\ step' = "idle" /\ batch' \in Batch
  BY DEF OnRecoveryTimeout, handlerVars, ControllerTypeOK
<1>2. CASE repository \notin Unusable /\ NoFault /\ Watched
  BY <1>1, <1>2, WatchedIsUp, FaultType, WatchHandlerInv
<1>3. CASE OneFault /\ UNCHANGED <<watchVars, queue>>
  <2>1. ControllerTypeOK'
    BY <1>1, <1>3, FaultType
    DEF ControllerTypeOK, watchVars, runVars, handlerVars
  <2>2. WatchInv' /\ RunInv' /\ NoChangeIsLost'
    BY <1>1, <1>3
    DEF WatchInv, RunInv, NoChangeIsLost, LookIsDue, Observed, Busy,
        watchVars, runVars, handlerVars
  <2>. QED
    BY <2>1, <2>2
<1>4. CASE /\ configState # "enabled"
           /\ recoveryTimer' = FALSE /\ NoFault
           /\ UNCHANGED <<attached, queue, debouncer, debounceTimer>>
  <2>1. ControllerTypeOK'
    BY <1>1, <1>4, FaultType
    DEF ControllerTypeOK, runVars, handlerVars
  <2>2. WatchInv' /\ RunInv' /\ NoChangeIsLost'
    BY <1>1, <1>4
    DEF WatchInv, RunInv, NoChangeIsLost, Busy, runVars, handlerVars
  <2>. QED
    BY <2>1, <2>2
<1>. QED
  BY <1>2, <1>3, <1>4 DEF OnRecoveryTimeout

-----------------------------------------------------------------------------
(* Triggers and runs *)

LEMMA SubmitResult ==
    ASSUME ControllerTypeOK, NEW g \in Generation,
           NEW owner \in {"free", "other"}, NEW retry \in BOOLEAN,
           Submit(g, owner, retry)
    PROVE  /\ pending' \in Generation \cup {None}
           /\ run' \in [phase : {"idle", "started", "scanned"},
                        events : 0..MaxCount, seen : 0..MaxChanges,
                        repository : Repositories \cup {None}]
           /\ gate' \in {"free", "realtime", "other"}
           /\ retryTimer' \in BOOLEAN
           /\ retryTimer' => retry \/ owner # "free"
           /\ Busy' <=> gate' = "realtime"
           /\ Busy' => run'.repository = repository
           /\ \/ configState # "enabled" /\ ~Busy'
              \/ pending' # None /\ retryTimer' /\ owner # "free"
              \/ run'.phase = "started"
<1>1. CASE configState # "enabled"
  BY <1>1, ControllerAssumption, DebouncerAssumption
  DEF Submit, NoRun, Busy
<1>2. CASE configState = "enabled" /\ owner # "free"
  <2>1. Merged(g) \in Generation /\ Merged(g) # None
    BY MergedType
  <2>2. /\ 0 \in 0..MaxCount /\ 0 \in 0..MaxChanges
        /\ NoRun \in [phase : {"idle", "started", "scanned"},
                    events : 0..MaxCount, seen : 0..MaxChanges,
                    repository : Repositories \cup {None}]
        /\ NoRun.phase = "idle"
    BY ControllerAssumption, DebouncerAssumption DEF NoRun
  <2>3. /\ pending' = Merged(g) /\ run' = NoRun /\ gate' = owner
        /\ retryTimer' = TRUE
    BY <1>2 DEF Submit
  <2>. QED
    BY <1>2, <2>1, <2>2, <2>3 DEF Busy
<1>3. CASE configState = "enabled" /\ owner = "free"
  <2>1. g.events \in 0..MaxCount /\ 0 \in 0..MaxChanges
        /\ repository \in Repositories
    BY ControllerAssumption DEF Generation, ControllerTypeOK
  <2>2. /\ pending' = None /\ gate' = "realtime" /\ retryTimer' = retry
        /\ run' = [phase |-> "started", events |-> g.events, seen |-> 0,
                   repository |-> repository]
    BY <1>3 DEF Submit
  <2>. QED
    BY <2>1, <2>2 DEF Busy
<1>. QED
  BY <1>1, <1>2, <1>3

LEMMA ObservesInv ==
    ASSUME ControllerInv, RunObserves
    PROVE  ControllerInv'
<1>. USE DEF ControllerInv
<1>1. /\ run.phase = "started" /\ run'.phase = "scanned"
      /\ run'.seen = version /\ run'.repository = run.repository
      /\ run' \in [phase : {"idle", "started", "scanned"},
                   events : 0..MaxCount, seen : 0..MaxChanges,
                   repository : Repositories \cup {None}]
  BY DEF RunObserves, ControllerTypeOK
<1>2. UNCHANGED <<sourceVars, watchVars, gate, pending, retryTimer,
                  handlerVars, configState, settled, repository, commands, faults>>
  BY DEF RunObserves
<1>3. ControllerTypeOK'
  BY <1>1, <1>2 DEF ControllerTypeOK, sourceVars, watchVars, handlerVars
<1>4. WatchInv' /\ RunInv'
  BY <1>1, <1>2 DEF WatchInv, RunInv, Busy, watchVars, handlerVars
<1>5. version \in Int /\ settled \in Int /\ version' = version
      /\ settled' = settled
  BY <1>2, ControllerAssumption DEF ControllerTypeOK, sourceVars
<1>6. ~(Observed' < version')
  BY <1>1, <1>5 DEF Observed
<1>7. NoChangeIsLost'
  BY <1>6 DEF NoChangeIsLost
<1>. QED
  BY <1>3, <1>4, <1>7

LEMMA FinishedInv ==
    ASSUME ControllerInv, OnRunFinished
    PROVE  ControllerInv'
<1>. USE DEF ControllerInv
<1>1. UNCHANGED <<sourceVars, watchVars, handlerVars, configState, repository,
                  commands, faults>>
      /\ step = "idle" /\ run.phase = "scanned" /\ Busy
  BY DEF OnRunFinished, Busy
<1>2. settled' = Observed /\ settled' \in 0..MaxChanges
  BY <1>1 DEF OnRunFinished, Observed, ControllerTypeOK
<1>3. repository \notin Unusable
  BY <1>1 DEF RunInv
<1>4. CASE pending = None
  <2>1. run' = NoRun /\ ~Busy' /\ gate' = "free" /\ Observed' = Observed
        /\ UNCHANGED <<pending, retryTimer>>
    BY <1>2, <1>4 DEF OnRunFinished, NoRun, Busy, Observed
  <2>2. ControllerTypeOK'
    BY <1>1, <1>2, <2>1, ControllerAssumption, DebouncerAssumption
    DEF ControllerTypeOK, NoRun, sourceVars, watchVars, handlerVars
  <2>3. WatchInv' /\ RunInv'
    BY <1>1, <2>1 DEF WatchInv, RunInv, watchVars, handlerVars
  <2>4. NoChangeIsLost'
    BY <1>1, <1>4, <2>1
    DEF NoChangeIsLost, LookIsDue, sourceVars, watchVars, handlerVars
  <2>. QED
    BY <2>2, <2>3, <2>4
<1>5. CASE pending # None
  <2>1. Submit(pending, "free", retryTimer) /\ pending \in Generation
        /\ retryTimer \in BOOLEAN
    BY <1>5 DEF OnRunFinished, ControllerTypeOK
  <2>2. /\ pending' \in Generation \cup {None}
        /\ run' \in [phase : {"idle", "started", "scanned"},
                     events : 0..MaxCount, seen : 0..MaxChanges,
                     repository : Repositories \cup {None}]
        /\ gate' \in {"free", "realtime", "other"}
        /\ retryTimer' \in BOOLEAN
        /\ Busy' <=> gate' = "realtime"
        /\ Busy' => run'.repository = repository
        /\ configState # "enabled" \/ run'.phase = "started"
    BY <2>1, SubmitResult
  <2>3. ControllerTypeOK'
    BY <1>1, <1>2, <2>2
    DEF ControllerTypeOK, sourceVars, watchVars, handlerVars
  <2>4. WatchInv' /\ RunInv'
    BY <1>1, <1>3, <2>2 DEF WatchInv, RunInv, watchVars, handlerVars
  <2>5. NoChangeIsLost'
    BY <1>1, <2>2 DEF NoChangeIsLost, LookIsDue
  <2>. QED
    BY <2>3, <2>4, <2>5
<1>. QED
  BY <1>4, <1>5

LEMMA RetryInv ==
    ASSUME ControllerInv, OnRetryTimeout
    PROVE  ControllerInv'
<1>. USE DEF ControllerInv
<1>1. UNCHANGED <<sourceVars, watchVars, handlerVars, configState, settled,
                  repository, commands, faults>>
      /\ step = "idle" /\ retryTimer /\ repository \notin Unusable
  BY DEF OnRetryTimeout, RunInv
<1>2. CASE pending = None \/ Busy
  <2>1. retryTimer' = FALSE /\ UNCHANGED <<run, gate, pending>>
    BY <1>2 DEF OnRetryTimeout
  <2>2. ControllerTypeOK'
    BY <1>1, <2>1 DEF ControllerTypeOK, sourceVars, watchVars, handlerVars
  <2>3. WatchInv' /\ RunInv' /\ NoChangeIsLost'
    BY <1>1, <1>2, <2>1
    DEF WatchInv, RunInv, NoChangeIsLost, LookIsDue, Observed, Busy,
        sourceVars, watchVars, handlerVars
  <2>. QED
    BY <2>2, <2>3
<1>3. CASE pending # None /\ ~Busy
  <2>1. /\ Submit(pending, gate, FALSE) /\ pending \in Generation
        /\ gate \in {"free", "other"}
    BY <1>3 DEF OnRetryTimeout, ControllerTypeOK, RunInv
  <2>2. /\ pending' \in Generation \cup {None}
        /\ run' \in [phase : {"idle", "started", "scanned"},
                     events : 0..MaxCount, seen : 0..MaxChanges,
                     repository : Repositories \cup {None}]
        /\ gate' \in {"free", "realtime", "other"}
        /\ retryTimer' \in BOOLEAN
        /\ Busy' <=> gate' = "realtime"
        /\ Busy' => run'.repository = repository
        /\ \/ configState # "enabled" /\ ~Busy'
           \/ pending' # None /\ retryTimer'
           \/ run'.phase = "started"
    BY <2>1, SubmitResult
  <2>3. ControllerTypeOK'
    BY <1>1, <2>2 DEF ControllerTypeOK, sourceVars, watchVars, handlerVars
  <2>4. WatchInv' /\ RunInv'
    BY <1>1, <2>2 DEF WatchInv, RunInv, watchVars, handlerVars
  <2>5. NoChangeIsLost'
    BY <1>1, <2>2 DEF NoChangeIsLost, LookIsDue
  <2>. QED
    BY <2>3, <2>4, <2>5
<1>. QED
  BY <1>2, <1>3

LEMMA DebounceInv ==
    ASSUME ControllerInv, OnDebounceTimeout
    PROVE  ControllerInv'
<1>. USE DEF ControllerInv
<1>1. UNCHANGED <<sourceVars, attached, recoveryTimer, handlerVars, configState,
                  settled, repository, commands, faults>>
      /\ step = "idle" /\ step' = "idle" /\ batch' \in Batch
      /\ debounceTimer # Off
  BY DEF OnDebounceTimeout, Off, handlerVars, ControllerTypeOK
<1>2. /\ attached /\ repository \notin Unusable
      /\ debouncer \in Debouncer /\ debouncer # None
      /\ queue \in Batch /\ recoveryTimer \in BOOLEAN
  BY <1>1 DEF WatchInv, RunInv, ControllerTypeOK
<1>3. CASE Arm(debouncer) /\ UNCHANGED runVars
  <2>1. /\ debouncer' = debouncer /\ debounceTimer' \in Off..TickCap
        /\ debounceTimer' # Off
    BY <1>2, <1>3, ArmResult
  <2>2. ControllerTypeOK'
    BY <1>1, <1>3, <2>1
    DEF ControllerTypeOK, sourceVars, runVars, handlerVars
  <2>3. WatchInv' /\ RunInv' /\ NoChangeIsLost'
    BY <1>1, <1>3, <2>1
    DEF WatchInv, RunInv, NoChangeIsLost, LookIsDue, Observed, Busy,
        sourceVars, runVars, handlerVars
  <2>. QED
    BY <2>2, <2>3
<1>4. \/ Arm(debouncer) /\ UNCHANGED runVars
      \/ /\ debouncer' = Clean /\ debounceTimer' = Off
         /\ \/ /\ Busy /\ pending' = Merged(Consumed(debouncer))
               /\ UNCHANGED <<run, gate, retryTimer>>
            \/ ~Busy /\ Submit(Consumed(debouncer), gate, retryTimer)
  BY DEF OnDebounceTimeout
<1>5. CASE /\ debouncer' = Clean /\ debounceTimer' = Off
           /\ \/ /\ Busy /\ pending' = Merged(Consumed(debouncer))
                 /\ UNCHANGED <<run, gate, retryTimer>>
              \/ ~Busy /\ Submit(Consumed(debouncer), gate, retryTimer)
  <2>1. Clean \in Debouncer /\ Clean # None /\ Off \in Off..TickCap
        /\ Consumed(debouncer) \in Generation
    BY <1>2, CleanType, OffType, NoteTypes, ControllerAssumption
  <2>2. CASE /\ Busy /\ pending' = Merged(Consumed(debouncer))
             /\ UNCHANGED <<run, gate, retryTimer>>
    <3>1. pending' \in Generation /\ pending' # None
      BY <2>1, <2>2, MergedType
    <3>2. ControllerTypeOK'
      BY <1>1, <1>5, <2>1, <2>2, <3>1
      DEF ControllerTypeOK, sourceVars, handlerVars
    <3>3. WatchInv' /\ RunInv' /\ NoChangeIsLost'
      BY <1>1, <1>2, <1>5, <2>1, <2>2, <3>1
      DEF WatchInv, RunInv, NoChangeIsLost, LookIsDue, Busy
    <3>. QED
      BY <3>2, <3>3
  <2>3. CASE ~Busy /\ Submit(Consumed(debouncer), gate, retryTimer)
    <3>1. gate \in {"free", "other"} /\ retryTimer \in BOOLEAN
      BY <2>3 DEF ControllerTypeOK, RunInv
    <3>2. /\ pending' \in Generation \cup {None}
          /\ run' \in [phase : {"idle", "started", "scanned"},
                       events : 0..MaxCount, seen : 0..MaxChanges,
                       repository : Repositories \cup {None}]
          /\ gate' \in {"free", "realtime", "other"}
          /\ retryTimer' \in BOOLEAN
          /\ Busy' <=> gate' = "realtime"
          /\ Busy' => run'.repository = repository
          /\ \/ configState # "enabled" /\ ~Busy'
             \/ pending' # None /\ retryTimer'
             \/ run'.phase = "started"
      BY <2>1, <2>3, <3>1, SubmitResult
    <3>3. ControllerTypeOK'
      BY <1>1, <1>5, <2>1, <3>2
      DEF ControllerTypeOK, sourceVars, handlerVars
    <3>4. WatchInv' /\ RunInv'
      BY <1>1, <1>2, <1>5, <2>1, <3>2 DEF WatchInv, RunInv
    <3>5. NoChangeIsLost'
      BY <1>1, <3>2 DEF NoChangeIsLost, LookIsDue
    <3>. QED
      BY <3>3, <3>4, <3>5
  <2>. QED
    BY <1>5, <2>2, <2>3
<1>. QED
  BY <1>3, <1>4, <1>5

LEMMA StutterInv ==
    ASSUME ControllerInv, UNCHANGED controllerVars
    PROVE  ControllerInv'
  BY DEF controllerVars, ControllerInv, ControllerTypeOK, WatchInv, RunInv,
         NoChangeIsLost, LookIsDue, Observed, Busy, sourceVars, watchVars,
         runVars, handlerVars

LEMMA NextInv ==
    ASSUME ControllerInv, [ControllerNext]_controllerVars
    PROVE  ControllerInv'
<1>1. CASE User
  BY <1>1, StartInv, RestartInv, SaveConfigInv, ChangeRepositoryInv, OthersInv
  DEF User
<1>2. CASE EventLoop
  BY <1>2, DrainInv, RebuildInv, RecoveryInv, DebounceInv, RetryInv,
     FinishedInv DEF EventLoop
<1>3. CASE SourceStep \/ Tick \/ RunObserves \/ OtherEnds \/ UNCHANGED controllerVars
  BY <1>3, SourceInv, TickInv, ObservesInv, OthersInv, StutterInv
<1>. QED
  BY <1>1, <1>2, <1>3 DEF ControllerNext

(***************************************************************************)
(* The inductive invariant: types, a watch that is complete or retried,    *)
(* runs that hold the gate, and no change forgotten.                       *)
(***************************************************************************)
THEOREM ControllerInvariant == ControllerSpec => []ControllerInv
  BY InitInv, NextInv, PTL DEF ControllerSpec

-----------------------------------------------------------------------------
(***************************************************************************)
(* No change of the source tree is forgotten while realtime backup is on,  *)
(* whatever the user, the gate, the watch and the event queue do.          *)
(***************************************************************************)
THEOREM NoChangeIsEverLost == ControllerSpec => []NoChangeIsLost
<1>1. ControllerInv => NoChangeIsLost
  BY DEF ControllerInv
<1>. QED
  BY <1>1, ControllerInvariant, PTL

(***************************************************************************)
(* A run only ever writes to the repository that is configured and that    *)
(* passed the overlap check.                                               *)
(***************************************************************************)
THEOREM RunsKeepToRepository == ControllerSpec => []RunsStayInRepository
<1>1. ControllerInv => RunsStayInRepository
  BY DEF ControllerInv, RunInv, RunsStayInRepository
<1>. QED
  BY <1>1, ControllerInvariant, PTL

(***************************************************************************)
(* The variables keep their types.                                         *)
(***************************************************************************)
THEOREM ControllerTypeCorrect == ControllerSpec => []ControllerTypeOK
<1>1. ControllerInv => ControllerTypeOK
  BY DEF ControllerInv
<1>. QED
  BY <1>1, ControllerInvariant, PTL

-----------------------------------------------------------------------------
(* The service *)

USE RepositoryAssumption

MarkersTyped ==
  \A n \in Names : marker[n] # NoFile => marker[n].id \in Ids /\ marker[n].job \in Jobs
ServiceTyped == config \in Jobs /\ job.who \in {"nobody", "user", "realtime"} /\ MarkersTyped
Typed == RepositoryTyped /\ ServiceTyped

\* The steps that change no archive, no manifest and no identity.
Moves ==
  \/ StartRun \/ EndRun \/ WriteMarker \/ MarkerFails \/ Retain \/ Crash
  \/ (EngineScan \/ EngineDecide \/ PlainFails \/ UnlinkFails) /\ UNCHANGED config
  \/ (StartManualBackup \/ StartManualDelete \/ EndManual) /\ UNCHANGED config

Deletes == (Sweep /\ UNCHANGED config) \/ OrphansAreCleaned \/ \E n \in Names : Delete(n)

LEMMA Actions ==
    [Next]_vars => \/ Moves \/ Deletes \/ Reconfigure
                   \/ (MakesSnapshot \/ TouchesByHand) /\ UNCHANGED config
                   \/ UNCHANGED vars
  BY DEF Next, RunStep, Fault, UserStep, EngineStep, EngineFault, Moves, Deletes,
         MakesSnapshot, TouchesByHand

LEMMA StartRunDoes ==
    ASSUME Typed, StartRun
    PROVE  /\ job' \in Operations /\ job'.who = "realtime" /\ job'.step \in {"plain", "scan"}
           /\ job'.doomed = {}
  <1>n. PICK n : n = NoJob
    OBVIOUS
  <1>s. PICK s : s = IF config.strategy = "full" THEN "plain" ELSE "scan"
    OBVIOUS
  <1>1. n \in Operations /\ n.doomed = {}
    BY <1>n, NoJobIsAJob
  <1>2. job' = [n EXCEPT !.who = "realtime", !.filter = config.filter, !.step = s]
    BY <1>n, <1>s DEF StartRun
  <1>3. config.filter \in Filters /\ s \in {"plain", "scan"}
    BY <1>s DEF Typed, ServiceTyped, Jobs
  <1>4. s \in JobSteps
    BY <1>3 DEF JobSteps
  <1> QED
    BY <1>1, <1>2, <1>3, <1>4 DEF Operations

LEMMA RetainDoes ==
    ASSUME Typed, Retain
    PROVE  \/ job' = NoJob
           \/ /\ job' \in Operations /\ job'.who = "realtime" /\ job'.step = "unlink"
              /\ job'.doomed = Removable(Own, RetainCount)
              /\ DeletionAccepted(job'.doomed) /\ job'.doomed # {}
  <1>d. PICK d : d = Removable(Own, RetainCount)
    OBVIOUS
  <1>1. \/ job' = NoJob
        \/ /\ job' = [job EXCEPT !.doomed = d, !.step = "unlink"]
           /\ DeletionAccepted(d) /\ d # {}
    BY <1>d DEF Retain
  <1>2. d \in SUBSET Names
    BY <1>d DEF Removable, Own, Marked
  <1>3. job \in Operations /\ job.who = "realtime"
    BY DEF Retain, Typed, RepositoryTyped
  <1>4. CASE /\ job' = [job EXCEPT !.doomed = d, !.step = "unlink"]
             /\ DeletionAccepted(d) /\ d # {}
    <2>1. job' \in Operations /\ job'.who = "realtime" /\ job'.step = "unlink" /\ job'.doomed = d
      BY <1>2, <1>3, <1>4 DEF Operations, JobSteps
    <2> QED
      BY <1>4, <1>d, <2>1
  <1> QED
    BY <1>1, <1>4

LEMMA MovesDo ==
    ASSUME Typed, Moves
    PROVE  /\ UNCHANGED <<archive, manifest, identity, source, lastName, damaged, config>>
           /\ manual' = manual \/ (manual' = manual + 1 /\ manual < MaxManual)
           /\ marker' = marker \/ WriteMarker
           /\ job' \in Operations /\ JobNamed' /\ job'.who \in {"nobody", "user", "realtime"}
           /\ job'.step \notin {"manifest", "identity", "done", "sweep"}
           /\ job'.step = "archive" => EngineDecide
           /\ job'.step = "unlink" =>
                DeletionAccepted(job'.doomed) /\ (Retain \/ job'.who = "user")
  <1>w. job.who \in {"nobody", "user", "realtime"} /\ job \in Operations
    BY DEF Typed, ServiceTyped, RepositoryTyped
  <1>r. RepositoryTyped
    BY DEF Typed
  <1>1. CASE StartRun
    <2>1. JobNamed'
      BY <1>1, StartRunDoes DEF JobNamed
    <2> QED
      BY <1>1, <2>1, StartRunDoes DEF StartRun, world, files
  <1>2. CASE job' = NoJob
    <2>1. /\ job' \in Operations /\ job'.step = "idle" /\ job'.who = "nobody" /\ JobNamed'
      BY <1>2, NoJobIsAJob DEF JobNamed
    <2>2. /\ UNCHANGED <<archive, manifest, identity, source, lastName, damaged, config>>
          /\ manual' = manual /\ marker' = marker
      <3>1. StartRun => job'.step \in {"plain", "scan"}
        BY StartRunDoes
      <3>2. (StartManualBackup \/ StartManualDelete) => job'.who = "user"
        BY <1>r, StartManualBackupDoes, StartManualDeleteDoes
      <3>3. (EngineScan \/ EngineDecide) => job'.step \in {"decide", "unchanged", "archive"}
        BY <1>r, EngineScanDoes, EngineDecideDoes
      <3>4. WriteMarker => job'.step = "retain"
        <4>1. "retain" \in JobSteps
          BY DEF JobSteps
        <4> QED
          BY <1>w, <4>1, GoesTo DEF WriteMarker
      <3> QED
        BY <2>1, <3>1, <3>2, <3>3, <3>4
           DEF Moves, EndRun, MarkerFails, Retain, Crash, EndManual, PlainFails, UnlinkFails,
               world, files
    <2> QED
      BY <2>1, <2>2
  <1>3. CASE WriteMarker
    <2>1. "retain" \in JobSteps
      BY DEF JobSteps
    <2>2. job' \in Operations /\ job'.step = "retain" /\ job'.who = job.who
      BY <1>3, <1>w, <2>1, GoesTo DEF WriteMarker, SameJob
    <2>3. JobNamed'
      BY <2>2 DEF JobNamed
    <2> QED
      BY <1>3, <1>w, <2>2, <2>3 DEF WriteMarker, world
  <1>4. CASE Retain /\ job' # NoJob
    <2>1. JobNamed'
      BY <1>4, RetainDoes DEF JobNamed
    <2> QED
      BY <1>4, <2>1, RetainDoes DEF Retain, world, files
  <1>5. CASE EngineScan /\ UNCHANGED config
    <2>1. job.filter \in Filters /\ source \in Versions
      BY <1>r DEF RepositoryTyped, Operations, WorldTyped
    <2>2. JobNamed'
      BY <1>5, <1>r, <2>1, EngineScanDoes, ScanIsContent DEF JobNamed
    <2> QED
      BY <1>5, <1>r, <1>w, <2>2, EngineScanDoes DEF EngineScan, world, files
  <1>6. CASE EngineDecide /\ UNCHANGED config
    <2>1. /\ job' \in Operations /\ job'.step \in {"unchanged", "archive"}
          /\ job'.content = job.content /\ job'.who = job.who
      BY <1>6, <1>r, EngineDecideDoes
    <2>2. JobNamed'
      BY <1>6, <1>r, <2>1 DEF JobNamed, RepositoryTyped, EngineDecide, At
    <2> QED
      BY <1>6, <1>w, <2>1, <2>2 DEF EngineDecide, world, files
  <1>7. CASE (PlainFails \/ UnlinkFails) /\ UNCHANGED config
    <2>1. PICK s \in {"failed", "notDeleted"} : Goto(s)
      BY <1>7 DEF PlainFails, UnlinkFails
    <2>2. s \in JobSteps
      BY DEF JobSteps
    <2>3. job' \in Operations /\ job'.step = s /\ job'.who = job.who
      BY <1>w, <2>1, <2>2, GoesTo DEF SameJob
    <2>4. JobNamed'
      BY <2>3 DEF JobNamed
    <2> QED
      BY <1>7, <1>w, <2>3, <2>4 DEF PlainFails, UnlinkFails, world, files
  <1>8. CASE (StartManualBackup \/ StartManualDelete) /\ UNCHANGED config
    <2>1. /\ job' \in Operations /\ job'.step \in {"plain", "scan", "unlink"}
          /\ job'.who = "user" /\ (job'.step = "unlink" => DeletionAccepted(job'.doomed))
      BY <1>8, <1>r, StartManualBackupDoes, StartManualDeleteDoes
    <2>2. JobNamed'
      BY <2>1 DEF JobNamed
    <2> QED
      BY <1>8, <2>1, <2>2 DEF StartManualBackup, StartManualDelete, files
  <1> QED
    BY <1>2, <1>1, <1>3, <1>4, <1>5, <1>6, <1>7, <1>8
       DEF Moves, EndRun, MarkerFails, Crash, EndManual

LEMMA DeletesDelete == ASSUME Typed, Deletes PROVE DeletesSnapshots
  <1>1. CASE OrphansAreCleaned
    BY <1>1 DEF OrphansAreCleaned, DeletesSnapshots, CleansOrphans, Idle, Typed, RepositoryTyped
  <1>2. CASE ~OrphansAreCleaned
    BY <1>2 DEF Deletes, DeletesSnapshots, Delete
  <1> QED
    BY <1>1, <1>2

\* A step of the service is a step over the repository.
LEMMA StepsAreRepositorySteps == ASSUME Typed, [Next]_vars PROVE RepositoryStep
  <1>1. CASE Moves
    BY <1>1, MovesDo DEF KeepsSnapshots, RepositoryStep, Typed, RepositoryTyped, FilesTyped,
                         WriteMarker
  <1>2. CASE Deletes
    BY <1>2, DeletesDelete DEF RepositoryStep
  <1>3. CASE Reconfigure
    BY <1>3 DEF Reconfigure, RepositoryStep
  <1> QED
    BY <1>1, <1>2, <1>3, Actions DEF RepositoryStep, vars

LEMMA WhoStays ==
    ASSUME Typed, MakesSnapshot \/ Deletes
    PROVE  job'.who = job.who
  <1>r. RepositoryTyped /\ job \in Operations
    BY DEF Typed, RepositoryTyped
  <1>1. CASE EngineArchive \/ PlainArchive
    BY <1>1, <1>r, EngineArchiveDoes, PlainArchiveDoes
  <1>2. ASSUME NEW s \in {"identity", "done", "failed", "deleted", "unlink"}, Goto(s)
        PROVE  job'.who = job.who
    <2>1. s \in JobSteps
      BY DEF JobSteps
    <2> QED
      BY <1>2, <1>r, <2>1, GoesTo DEF SameJob
  <1>3. CASE EngineManifest \/ EngineIdentity \/ EngineFails \/ Sweep
    BY <1>2, <1>3 DEF EngineManifest, EngineIdentity, EngineFails, Sweep
  <1>4. CASE OrphansAreCleaned
    BY <1>4 DEF OrphansAreCleaned
  <1>5. ASSUME NEW n \in Names, Delete(n) PROVE job'.who = job.who
    BY <1>5, <1>r, UnlinkDoes DEF Delete
  <1> QED
    BY <1>1, <1>3, <1>4, <1>5 DEF MakesSnapshot, Deletes

\* Deletions take markers away, and write none.
LEMMA MarkersGo ==
    ASSUME Typed, Deletes
    PROVE  /\ config' = config
           /\ \A n \in Names : marker'[n] = marker[n] \/ marker'[n] = NoFile
  <1>1. marker = [n \in Names |-> marker[n]] \/ DOMAIN marker = Names
    BY DEF Typed, RepositoryTyped, FilesTyped
  <1>2. CASE Sweep /\ UNCHANGED config
    <2>1. marker' = marker \/ marker' = [marker EXCEPT ![job.name] = NoFile]
      BY <1>2 DEF Sweep
    <2> QED
      BY <1>2, <2>1 DEF Typed, RepositoryTyped, FilesTyped
  <1>3. CASE OrphansAreCleaned
    BY <1>3 DEF OrphansAreCleaned, WithoutOrphans
  <1>4. ASSUME NEW n \in Names, Delete(n) PROVE UNCHANGED <<marker, config>>
    BY <1>4 DEF Delete, Unlink
  <1> QED
    BY <1>2, <1>3, <1>4 DEF Deletes

LEMMA MarkerWritten ==
    ASSUME Typed, WriteMarker
    PROVE  /\ job.name \in Names /\ Exists(job.name)
           /\ marker'[job.name] = Marker(job.name)
           /\ \A n \in Names : n # job.name => marker'[n] = marker[n]
  BY DEF WriteMarker, At, Typed, RepositoryTyped, FilesTyped, JobNamed

LEMMA TypedStep == ASSUME Typed, [Next]_vars PROVE Typed'
  <1>1. RepositoryTyped'
    BY StepsAreRepositorySteps, RepositoryTypedStep DEF Typed
  <1>2. config \in Jobs /\ job.who \in {"nobody", "user", "realtime"} /\ MarkersTyped
    BY DEF Typed, ServiceTyped
  <1>3. CASE Moves
    <2>1. MarkersTyped'
      <3>1. CASE marker' = marker
        BY <1>2, <3>1 DEF MarkersTyped
      <3>2. CASE WriteMarker
        <4>i. PICK i : i = IdOf(archive[job.name])
          OBVIOUS
        <4>1. i \in Ids
          BY <3>2, <4>i, MarkerWritten, IdOfIsId DEF Exists, Typed, RepositoryTyped, FilesTyped
        <4>2. Marker(job.name) = [id |-> i, job |-> config]
          BY <4>i DEF Marker
        <4> QED
          BY <1>2, <3>2, <4>1, <4>2, MarkerWritten DEF MarkersTyped
      <3> QED
        BY <1>3, <3>1, <3>2, MovesDo
    <2> QED
      BY <1>1, <1>2, <1>3, <2>1, MovesDo DEF Typed, ServiceTyped
  <1>4. CASE Deletes
    <2>1. MarkersTyped'
      BY <1>2, <1>4, MarkersGo DEF MarkersTyped
    <2> QED
      BY <1>1, <1>2, <1>4, <2>1, MarkersGo, WhoStays DEF Typed, ServiceTyped
  <1>5. CASE MakesSnapshot /\ UNCHANGED config
    <2>1. marker' = marker
      BY <1>5, EngineSteps DEF Typed
    <2> QED
      BY <1>1, <1>2, <1>5, <2>1, WhoStays DEF Typed, ServiceTyped, MarkersTyped
  <1>6. CASE TouchesByHand /\ UNCHANGED config
    BY <1>1, <1>2, <1>6, HandSteps DEF Typed, ServiceTyped, MarkersTyped
  <1>7. CASE Reconfigure
    BY <1>1, <1>2, <1>7 DEF Typed, ServiceTyped, MarkersTyped, Reconfigure, repoVars
  <1>8. CASE UNCHANGED vars
    BY <1>1, <1>2, <1>8 DEF Typed, ServiceTyped, MarkersTyped, vars, repoVars
  <1> QED
    BY <1>3, <1>4, <1>5, <1>6, <1>7, <1>8, Actions

LEMMA TypedInit == Init => Typed
  <1>1. ASSUME Init PROVE Typed
    <2>1. RepositoryTyped
      BY <1>1, RepositoryStarts DEF Init, RepositoryInv
    <2>2. job.who = "nobody" /\ \A n \in Names : marker[n] = NoFile
      BY <1>1 DEF Init, RepositoryInit, NoJob
    <2> QED
      BY <1>1, <2>1, <2>2 DEF Init, Typed, ServiceTyped, MarkersTyped
  <1> QED
    BY <1>1

\* The variables of the service hold what the code gives them.
THEOREM RealtimeTypeCorrect == Spec => []RealtimeTypeOK
  <1>1. Typed /\ [Next]_vars => Typed'
    BY TypedStep
  <1>2. Typed => RealtimeTypeOK
    <2>1. ASSUME Typed PROVE RealtimeTypeOK
      <3>1. job.doomed \subseteq Names /\ job.parent \in Names \cup {NoName}
        BY <2>1 DEF Typed, RepositoryTyped, Operations
      <3>2. \A n \in Names : identity[n] # NoFile => identity[n].content \in Contents
        BY <2>1 DEF Typed, RepositoryTyped, FilesTyped, Identities
      <3>3. lastName \in Names \cup {NoName}
        BY <2>1 DEF Typed, RepositoryTyped, WorldTyped
      <3> QED
        BY <2>1, <3>1, <3>2, <3>3 DEF RealtimeTypeOK, Typed, ServiceTyped, MarkersTyped
    <2> QED
      BY <2>1
  <1> QED
    BY <1>1, <1>2, TypedInit, PTL DEF Spec

-----------------------------------------------------------------------------
(* The repository under the realtime service *)

LEMMA ServiceKeepsRepository == Spec => [](Typed /\ RepositoryInv)
  <1>1. Init => Typed /\ RepositoryInv
    BY TypedInit, RepositoryStarts DEF Init
  <1>2. Typed /\ RepositoryInv /\ [Next]_vars => (Typed /\ RepositoryInv)'
    BY TypedStep, StepsAreRepositorySteps, RepositoryInvStep
  <1> QED
    BY <1>1, <1>2, PTL DEF Spec

\* No trigger, no crash in the middle of one and no retention of the realtime
\* service leaves an archive that its chain of deltas no longer restores.
THEOREM RealtimeChainsRestorable == Spec => []ChainsStayRestorable
  BY ServiceKeepsRepository, InvMeansChains, PTL

\* While the clock does not go back, a snapshot of the realtime service appears
\* whole and at once and none disappears with another: the repository under it
\* is the abstract set of snapshots (RunIncrementalBackup, DeleteSnapshots).
THEOREM RealtimeSnapshotsAreASet ==
    ASSUME ~ClockGoesBack
    PROVE  Spec => SnapshotsAreAtomic
  <1>1. Init => Typed /\ AtomicInv /\ Abstract!SetInit
    BY TypedInit, AtomicStarts DEF Init
  <1>2. Typed /\ AtomicInv /\ [Next]_vars => (Typed /\ AtomicInv)'
    BY TypedStep, StepsAreRepositorySteps, AtomicInvStep
  <1>3. Typed /\ AtomicInv /\ [Next]_vars => [Abstract!SetNext]_(Abstract!heldVars)
    BY StepsAreRepositorySteps, TypedStep, AtomicStep DEF Abstract!heldVars, Held, Typed
  <1> QED
    BY <1>1, <1>2, <1>3, PTL DEF Spec, SnapshotsAreAtomic, Abstract!SetSpec

-----------------------------------------------------------------------------
(* What the markers say *)

\* A marker is of a name that has been used, so that no archive comes to it.
MarkersTrue ==
  \A n \in Names : marker[n] # NoFile =>
    /\ n <= lastName
    /\ n \notin damaged /\ Exists(n) => marker[n].id = IdOf(archive[n])

LEMMA MarkersTrueStep ==
    ASSUME ~ClockGoesBack, Typed, Typed', Dated, MarkersTrue, [Next]_vars
    PROVE  MarkersTrue'
  <1>r. RepositoryTyped /\ RepositoryTyped' /\ RepositoryStep
    BY StepsAreRepositorySteps DEF Typed
  <1>0. /\ lastName' >= lastName /\ lastName \in Int /\ lastName' \in Int
        /\ \A n \in Names : Made(n) => n > lastName
    BY <1>r, NamesMoveOn
  <1>1. CASE WriteMarker
    <2>q. PICK q : q = job.name
      OBVIOUS
    <2>1. /\ q \in Names /\ Exists(q) /\ marker'[q].id = IdOf(archive[q])
          /\ \A n \in Names : n # q => marker'[n] = marker[n]
      BY <1>1, <2>q, MarkerWritten DEF Marker
    <2>2. UNCHANGED <<archive, lastName, damaged>>
      BY <1>1 DEF WriteMarker, world
    <2>3. q <= lastName
      BY <2>1 DEF Dated
    <2>4. IdOf(archive'[q]) = IdOf(archive[q])
      BY <2>2
    <2> QED
      BY <2>1, <2>2, <2>3, <2>4 DEF MarkersTrue, Exists
  <1>2. CASE ~WriteMarker
    <2>1. \A n \in Names : marker'[n] = marker[n] \/ marker'[n] = NoFile
      BY <1>r, <1>2, Actions, MovesDo, MarkersGo, EngineSteps, HandSteps
         DEF vars, repoVars, Reconfigure
    <2> SUFFICES ASSUME NEW n \in Names, marker'[n] # NoFile
                 PROVE  /\ n <= lastName'
                        /\ n \notin damaged' /\ Exists(n)' => marker'[n].id = IdOf(archive'[n])
      BY DEF MarkersTrue
    <2>2. /\ marker'[n] = marker[n] /\ n <= lastName
          /\ n \notin damaged /\ Exists(n) => marker[n].id = IdOf(archive[n])
      BY <2>1 DEF MarkersTrue
    <2>3. n \in Int
      BY DEF Names
    <2>4. ~Made(n) /\ n <= lastName'
      BY <1>0, <2>2, <2>3
    <2>5. damaged \subseteq damaged'
      BY <1>r, ArchivesStay
    <2>6. n \in damaged' \/ archive'[n] = archive[n] \/ archive'[n] = NoFile
      BY <1>r, <2>4, ArchivesStay
    <2>7. n \notin damaged' /\ Exists(n)' => archive'[n] = archive[n] /\ Exists(n) /\ n \notin damaged
      BY <2>5, <2>6 DEF Exists
    <2>8. archive'[n] = archive[n] => IdOf(archive'[n]) = IdOf(archive[n])
      OBVIOUS
    <2> QED
      BY <2>2, <2>4, <2>7, <2>8
  <1> QED
    BY <1>1, <1>2

\* While the clock does not go back, a marker beside an archive names the bytes
\* of that archive, whatever crashed or was left behind, unless the user has
\* replaced them (WriteRealtimeMarker, ListRealtimeSnapshots).
THEOREM MarkersAreTrue ==
    ASSUME ~ClockGoesBack
    PROVE  Spec => []MarkersNameTheirArchive
  <1>1. Init => Typed /\ AtomicInv /\ MarkersTrue
    <2>1. Init => MarkersTrue
      BY DEF Init, RepositoryInit, MarkersTrue
    <2> QED
      BY <2>1, TypedInit, AtomicStarts DEF Init
  <1>2. Typed /\ AtomicInv /\ MarkersTrue /\ [Next]_vars => (Typed /\ AtomicInv /\ MarkersTrue)'
    BY TypedStep, StepsAreRepositorySteps, AtomicInvStep, MarkersTrueStep DEF AtomicInv
  <1>3. MarkersTrue => MarkersNameTheirArchive
    BY DEF MarkersTrue, MarkersNameTheirArchive, Marked, MarkerVerified
  <1> QED
    BY <1>1, <1>2, <1>3, PTL DEF Spec

-----------------------------------------------------------------------------
(* Retention *)

\* What the retention is about to delete is marked as of its job, and no
\* snapshot the user expects to keep is made on it; so it is of the one whose
\* archive has just gone and whose marker is going.
Sparing ==
  job.who = "realtime" /\ job.step \in {"unlink", "sweep"} =>
    /\ job.doomed \subseteq Own
    /\ \A m \in NewestOf(Own, RetainCount) : job.doomed \cap ChainOf(archive, m) = {}
    /\ job.step = "sweep" => /\ job.name \notin job.doomed
                             /\ job.name \notin NewestOf(Own, RetainCount)

LEMMA SparingStep ==
    ASSUME Typed, Typed', Sparing, [Next]_vars
    PROVE  Sparing'
  <1>k. RetainCount \in Nat
    BY RealtimeAssumption
  <1>o. Own \in SUBSET Names /\ \A k \in Nat, S \in SUBSET Names : NewestOf(S, k) \subseteq S
    BY DEF Own, Marked, NewestOf
  <1>r. RepositoryTyped /\ RepositoryTyped' /\ job \in Operations
    BY DEF Typed, RepositoryTyped
  <1>1. CASE Moves
    <2> SUFFICES ASSUME job'.who = "realtime", job'.step = "unlink" PROVE Sparing'
      BY <1>1, MovesDo DEF Sparing
    <2>1. Retain
      BY <1>1, MovesDo
    <2>2. /\ job'.doomed = Removable(Own, RetainCount) /\ job'.doomed # {}
      BY <2>1, RetainDoes, NoJobIsAJob
    <2>3. job'.doomed = Own \ Keep(Own, RetainCount)
      BY <2>2 DEF Removable
    <2>4. \A m : Chain(m) = ChainOf(archive, m)
      BY ChainIsChainOf
    <2>5. archive' = archive /\ Own' = Own
      BY <2>1 DEF Retain, files, Own, Marked
    <2> QED
      BY <2>3, <2>4, <2>5 DEF Sparing, Keep
  <1>2. CASE Sweep /\ UNCHANGED config
    <2>q. PICK q : q = job.name
      OBVIOUS
    <2> SUFFICES ASSUME job'.who = "realtime", job'.step \in {"unlink", "sweep"} PROVE Sparing'
      BY DEF Sparing
    <2>1. job'.step = "unlink" /\ job'.doomed = job.doomed /\ job'.who = job.who
      <3>1. PICK s \in {"deleted", "unlink"} : Goto(s)
        BY <1>2 DEF Sweep
      <3>2. s \in JobSteps
        BY DEF JobSteps
      <3> QED
        BY <1>r, <3>1, <3>2, GoesTo DEF SameJob
    <2>2. /\ job.doomed \subseteq Own
          /\ \A m \in NewestOf(Own, RetainCount) : job.doomed \cap ChainOf(archive, m) = {}
          /\ q \notin job.doomed /\ q \notin NewestOf(Own, RetainCount)
      BY <1>2, <2>1, <2>q DEF Sweep, At, Sparing
    <2>3. q \in Names
      BY <1>2, <1>r, <2>q DEF Sweep, At, RepositoryTyped, JobNamed
    <2>4. Own' = Own \/ Own' = Own \ {q}
      <3>1. marker' = marker \/ marker' = [marker EXCEPT ![q] = NoFile]
        BY <1>2, <2>q DEF Sweep
      <3>2. \A n \in Names : n # q => marker'[n] = marker[n]
        BY <3>1, <1>r DEF RepositoryTyped, FilesTyped
      <3>3. marker'[q] = marker[q] \/ marker'[q] = NoFile
        BY <3>1, <2>3, <1>r DEF RepositoryTyped, FilesTyped
      <3> QED
        BY <1>2, <3>2, <3>3, <2>3 DEF Own, Marked
    <2>5. NewestOf(Own', RetainCount) \subseteq NewestOf(Own, RetainCount)
      <3>1. CASE q \in Own
        BY <1>k, <1>o, <2>2, <2>4, <3>1, NewestWithout
      <3>2. CASE q \notin Own
        BY <2>4, <3>2
      <3> QED
        BY <3>1, <3>2
    <2>6. job.doomed \subseteq Own'
      BY <2>2, <2>4
    <2>7. archive' = archive
      BY <1>2 DEF Sweep
    <2> QED
      BY <2>1, <2>2, <2>5, <2>6, <2>7 DEF Sparing
  <1>3. ASSUME NEW CONSTANT n \in Names, Delete(n) PROVE Sparing'
    <2> SUFFICES ASSUME job'.who = "realtime" PROVE Sparing'
      BY DEF Sparing
    <2>1. /\ job'.step = "sweep" /\ job'.doomed = job.doomed \ {n} /\ job'.name = n
          /\ job.step = "unlink" /\ job.who = "realtime" /\ n \in job.doomed
      BY <1>3, <1>r, UnlinkDoes DEF Delete, Unlink, NextToDelete, At
    <2>2. /\ job.doomed \subseteq Own
          /\ \A m \in NewestOf(Own, RetainCount) : job.doomed \cap ChainOf(archive, m) = {}
      BY <2>1 DEF Sparing
    <2>3. n \notin NewestOf(Own, RetainCount)
      BY <2>1, <2>2, ChainStarts
    <2>4. Own' = Own
      BY <1>3 DEF Delete, Unlink, Own, Marked
    <2>5. \A m \in Names : ChainOf(archive', m) \subseteq ChainOf(archive, m)
      BY <1>3, <1>r, UnlinkShrinks DEF Delete
    <2> QED
      BY <1>k, <1>o, <2>1, <2>2, <2>3, <2>4, <2>5 DEF Sparing
  <1>4. CASE MakesSnapshot /\ UNCHANGED config
    BY <1>4, <1>r, EngineSteps DEF Sparing
  <1>5. CASE TouchesByHand /\ UNCHANGED config
    <2>1. job' = job /\ Own' = Own
      BY <1>5, HandSteps DEF Own, Marked
    <2>2. \A m \in Names : ChainOf(archive', m) \subseteq ChainOf(archive, m)
      BY <1>5, <1>r, HandDepths
    <2> QED
      BY <1>k, <1>o, <2>1, <2>2 DEF Sparing
  <1>6. CASE OrphansAreCleaned \/ Reconfigure
    BY <1>6 DEF OrphansAreCleaned, Reconfigure, repoVars, Idle, Sparing
  <1>7. CASE UNCHANGED vars
    BY <1>7 DEF vars, repoVars, Sparing, Own, Marked
  <1> QED
    BY <1>1, <1>2, <1>3, <1>4, <1>5, <1>6, <1>7, Actions DEF Deletes

\* The retention of the realtime service deletes nothing but snapshots whose
\* markers name its own job, and nothing that one of the newest RetainCount of
\* them is made on, whatever happens between one deletion and the next
\* (RunRealtimeRetention, DeleteSnapshots).
THEOREM RealtimeRetentionTakesItsOwn == Spec => RetentionTakesOnlyItsOwn
  <1>1. Init => Typed /\ Sparing
    <2>1. Init => job.step = "idle"
      BY NoJobIsAJob DEF Init, RepositoryInit
    <2> QED
      BY <2>1, TypedInit DEF Sparing
  <1>2. Typed /\ Sparing /\ [Next]_vars => (Typed /\ Sparing)'
    BY TypedStep, SparingStep
  <1>3. Typed /\ Sparing /\ [Next]_vars =>
          [\A n \in Names :
             job.who = "realtime" /\ At("unlink") /\ Exists(n) /\ archive'[n] = NoFile
               /\ manual' = manual
               => /\ marker[n] # NoFile /\ marker[n].job = config
                  /\ \A m \in NewestOf(Own, RetainCount) : n \notin Chain(m)]_vars
    <2> SUFFICES ASSUME Typed, Sparing, [Next]_vars, NEW n \in Names,
                        job.who = "realtime", At("unlink"), Exists(n), archive'[n] = NoFile,
                        manual' = manual
                 PROVE  /\ marker[n] # NoFile /\ marker[n].job = config
                        /\ \A m \in NewestOf(Own, RetainCount) : n \notin Chain(m)
      OBVIOUS
    <2>1. \A m : Chain(m) = ChainOf(archive, m)
      BY ChainIsChainOf
    <2>2. n \in job.doomed
      BY StepsAreRepositorySteps, UnlinkedIsDoomed DEF At, Typed
    <2>3. n \in Own /\ \A m \in NewestOf(Own, RetainCount) : n \notin ChainOf(archive, m)
      BY <2>2 DEF Sparing, At
    <2> QED
      BY <2>1, <2>3 DEF Own, Marked
  <1> QED
    BY <1>1, <1>2, <1>3, PTL DEF Spec, RetentionTakesOnlyItsOwn

-----------------------------------------------------------------------------
(***************************************************************************)
(* The remote page and its tunnel: RemoteController.                       *)
(***************************************************************************)
HIDE RepositoryAssumption
USE OfficialAssumption, TunnelAssumption

Tunnels == {t \in [state : {"stopped", "starting", "ready", "failed"},
                   process : BOOLEAN, probe : BOOLEAN,
                   external : BOOLEAN, retries : 0 .. MaxPortRetries,
                   options : Options \cup {Nil}] : TunnelTypeOK(t)}
Guis == [mode : Modes, server : Servers, pin : Servers \cup {Nil},
         route : Route, account : UserNames, authenticated : BOOLEAN,
         busy : BOOLEAN, deferred : Request \cup {Nil}, onlyWait : BOOLEAN,
         job : Job \cup {Nil}, raw : BOOLEAN, listed : Account \cup {Nil},
         tunnel : Tunnels, client : Client]

-----------------------------------------------------------------------------
(* The inductive invariant *)

\* A process is there exactly while the tunnel starts or is ready and its own,
\* and has what it was asked for.  While p, the probe that has just connected
\* is still there.
TunnelGood(t, p) ==
    /\ t.process <=> (t.state = "starting" \/ (IsReady(t) /\ ~t.external))
    /\ t.process => ~t.external /\ t.options \in Options
    /\ p \/ (t.probe => t.state = "starting")

\* The token is the account's; without a session there is no token, but for the
\* login (signing) whose result is still to be applied.
PageGood(g, signing) ==
    /\ g.authenticated /\ g.client.token # Nil => g.client.token.name = g.account
    /\ ~g.authenticated /\ ~signing => g.client.token = Nil
    /\ g.listed # Nil => g.authenticated /\ g.listed.name = g.account

\* A request made for what the page has now.
ForForm(r) == r.kind \in {"login", "register"}
Suits(g, r) ==
    /\ r \in Request /\ r.name = g.account
    /\ ForForm(r) <=> ~g.authenticated

\* The tunnel, if it is ours, leads to where the request wants to go.
Leads(g, r) == g.tunnel.process => g.tunnel.options.server = r.server

Free(g) == g.job = Nil /\ g.deferred = Nil /\ ~g.onlyWait
PageIdle(g, p) ==
    /\ ~g.busy /\ Free(g)
    /\ TunnelGood(g.tunnel, p) /\ PageGood(g, FALSE)
\* An operation is on its thread, or its result waits to be handled.
Signing(j) == j.result # Nil /\ j.request.kind = "login"
Working(g, p) ==
    /\ g.busy /\ g.job # Nil /\ g.deferred = Nil /\ ~g.onlyWait
    /\ TunnelGood(g.tunnel, p) /\ Suits(g, g.job.request)
    /\ g.job.dial = "tunnel" => Leads(g, g.job.request)
    /\ PageGood(g, Signing(g.job))
    /\ Signing(g.job) /\ g.job.result = "ok"
         => g.client.token # Nil /\ g.client.token.name = g.account
\* A request waits for the tunnel, whatever has become of that.
Defers(g, p) ==
    /\ g.busy /\ g.job = Nil /\ g.deferred # Nil /\ ~g.onlyWait
    /\ TunnelGood(g.tunnel, p) /\ Suits(g, g.deferred) /\ Leads(g, g.deferred)
    /\ PageGood(g, FALSE)
\* The user waits for it.
Waits(g, p) ==
    /\ g.busy /\ g.job = Nil /\ g.deferred = Nil /\ g.onlyWait
    /\ TunnelGood(g.tunnel, p) /\ PageGood(g, FALSE)
Deferring(g, p) == Defers(g, p) /\ g.tunnel.state = "starting"
Waiting(g, p) == Waits(g, p) /\ g.tunnel.state = "starting"

Good(g, p) ==
    /\ g \in Guis
    /\ PageIdle(g, p) \/ Working(g, p) \/ Deferring(g, p) \/ Waiting(g, p)

PageInv == Good(gui, FALSE)

-----------------------------------------------------------------------------
(* The tunnel *)

LEMMA TunnelValues ==
    /\ Stopped \in Tunnels /\ Failed \in Tunnels /\ Adopted \in Tunnels
    /\ Stopped.state = "stopped" /\ Failed.state = "failed" /\ Adopted.state = "ready"
    /\ ~Stopped.process /\ ~Failed.process /\ ~Adopted.process
    /\ \A p \in BOOLEAN : /\ TunnelGood(Stopped, p) /\ TunnelGood(Failed, p)
                          /\ TunnelGood(Adopted, p)
  <1>0. 0 \in 0 .. MaxPortRetries
    OBVIOUS
  <1>1. /\ Stopped \in Tunnels /\ Stopped.state = "stopped" /\ ~Stopped.process
        /\ ~Stopped.probe
    BY <1>0 DEF Stopped, Tunnels, TunnelTypeOK
  <1>2. /\ Failed \in Tunnels /\ Failed.state = "failed" /\ ~Failed.process
        /\ ~Failed.probe
    BY <1>1 DEF Failed, Tunnels, TunnelTypeOK
  <1>3. /\ Adopted \in Tunnels /\ Adopted.state = "ready" /\ ~Adopted.process
        /\ ~Adopted.probe /\ Adopted.external
    BY <1>1 DEF Adopted, Tunnels, TunnelTypeOK
  <1> QED
    BY <1>1, <1>2, <1>3 DEF TunnelGood, IsReady

LEMMA StartingTunnel ==
    ASSUME NEW o \in Options, NEW retries \in 0 .. MaxPortRetries
    PROVE  /\ Starting(o, retries) \in Tunnels
           /\ Starting(o, retries).state = "starting"
           /\ Starting(o, retries).process /\ Starting(o, retries).options = o
           /\ \A p \in BOOLEAN : TunnelGood(Starting(o, retries), p)
  BY DEF Starting, Tunnels, TunnelTypeOK, TunnelGood, IsReady

\* What a tunnel that was not there may become.
Begun(t, o) ==
    /\ t \in Tunnels /\ t.state \in {"starting", "ready", "failed"}
    /\ \A p \in BOOLEAN : TunnelGood(t, p)
    /\ t.process => t.options = o

LEMMA StartResult ==
    ASSUME NEW o \in Options, NEW retries \in 0 .. MaxPortRetries,
           NEW t \in StartInternal(Stopped, o, retries)
    PROVE  Begun(t, o)
  <1>1. t \in {Failed, Starting(o, retries), Adopted}
    BY TunnelValues DEF StartInternal, IsReady
  <1> QED
    BY <1>1, TunnelValues, StartingTunnel DEF Begun

LEMMA OptionsOf ==
    ASSUME NEW g \in Guis
    PROVE  TunnelOptions(g) \in Options /\ TunnelOptions(g).server = g.server
  BY DEF TunnelOptions, Options, Guis

-----------------------------------------------------------------------------
(* The members *)

\* Nothing that the page shows or that a request is made of.
SamePage(g, h) ==
    /\ h.account = g.account /\ h.authenticated = g.authenticated
    /\ h.listed = g.listed /\ h.client.token = g.client.token
SameWork(g, h) ==
    /\ h.busy = g.busy /\ h.deferred = g.deferred /\ h.onlyWait = g.onlyWait
    /\ h.job = g.job
SameAddress(g, h) == h.server = g.server /\ h.mode = g.mode /\ h.route = g.route

LEMMA Disconnecting ==
    ASSUME NEW c \in Client
    PROVE  /\ DisconnectSocket(c) \in Client /\ DisconnectSocket(c).token = c.token
           /\ DisconnectSocket(c).link = Nil /\ ~DisconnectSocket(c).authenticated
           /\ Disconnected \in Client /\ Disconnected.token = Nil
           /\ Disconnected.link = Nil /\ ~Disconnected.authenticated
  BY DEF Client, DisconnectSocket, Disconnected

LEMMA WithTunnelResult ==
    ASSUME NEW g \in Guis, NEW t \in Tunnels
    PROVE  LET h == WithTunnel(g, t)
           IN  /\ h \in Guis /\ h.tunnel = t
               /\ SamePage(g, h) /\ SameWork(g, h) /\ SameAddress(g, h)
  <1>c. PICK c : c = IF g.tunnel.process /\ ~t.process /\ g.client.link # Nil
                           /\ g.client.link.tunnel
                     THEN DisconnectSocket(g.client) ELSE g.client
    OBVIOUS
  <1>1. c \in Client /\ c.token = g.client.token
    BY <1>c, Disconnecting DEF Guis
  <1>2. WithTunnel(g, t) = [g EXCEPT !.tunnel = t, !.client = c]
    BY <1>c DEF WithTunnel, Guis
  <1> QED
    BY <1>1, <1>2 DEF Guis, SamePage, SameWork, SameAddress

LEMMA PageStays ==
    ASSUME NEW g, NEW h, NEW b, SamePage(g, h)
    PROVE  /\ PageGood(g, b) => PageGood(h, b)
           /\ \A r : Suits(g, r) => Suits(h, r)
  BY DEF PageGood, SamePage, Suits

\* A request goes to its thread.
LEMMA DispatchResult ==
    ASSUME NoneAssumption, NEW g \in Guis, NEW r \in Request, NEW p \in BOOLEAN,
           NEW dial \in {"official", "direct", "tunnel"},
           g.busy, g.deferred = Nil, ~g.onlyWait,
           TunnelGood(g.tunnel, p), Suits(g, r), PageGood(g, FALSE),
           dial = "tunnel" => Leads(g, r)
    PROVE  Good(DispatchRequest(g, r, dial), p)
  <1>j. PICK j : j = [request |-> r, dial |-> dial, result |-> Nil, by |-> Nil]
    OBVIOUS
  <1>1. /\ j \in Job /\ j # Nil /\ j.request = r /\ j.dial = dial
        /\ j.result = Nil
    BY <1>j DEF Job, NoneAssumption
  <1>h. PICK h : h = [g EXCEPT !.job = j]
    OBVIOUS
  <1>2. /\ h \in Guis /\ SamePage(g, h) /\ h.busy = g.busy
        /\ h.deferred = g.deferred /\ h.onlyWait = g.onlyWait /\ h.job = j
        /\ h.tunnel = g.tunnel
    BY <1>h, <1>1 DEF Guis, SamePage
  <1>3. PageGood(h, FALSE) /\ Suits(h, r)
    BY <1>2, PageStays
  <1>4. ~Signing(j)
    BY <1>1 DEF Signing
  <1>5. Working(h, p)
    BY <1>1, <1>2, <1>3, <1>4 DEF Working, Leads, PageGood
  <1>6. DispatchRequest(g, r, dial) = h
    BY <1>h, <1>j DEF DispatchRequest
  <1> QED
    BY <1>2, <1>5, <1>6 DEF Good

\* A request that waits is sent, or fails, or goes on waiting.
LEMMA NotifyDeferredResult ==
    ASSUME NoneAssumption, NEW g \in Guis, NEW p \in BOOLEAN, Defers(g, p),
           g.tunnel.state \in {"starting", "ready", "failed"}
    PROVE  Good(NotifyDeferred(g), p)
  <1>1. CASE IsReady(g.tunnel)
    <2>k. PICK k : k = [g EXCEPT !.deferred = Nil]
      OBVIOUS
    <2>1. /\ k \in Guis /\ SamePage(g, k) /\ k.busy = g.busy
          /\ k.deferred = Nil /\ k.onlyWait = g.onlyWait /\ k.job = g.job
          /\ k.tunnel = g.tunnel
      BY <2>k DEF Guis, SamePage
    <2>2. g.deferred \in Request
      BY DEF Defers, Guis
    <2>3. /\ k.busy /\ ~k.onlyWait /\ TunnelGood(k.tunnel, p)
          /\ Suits(k, g.deferred) /\ PageGood(k, FALSE) /\ Leads(k, g.deferred)
      BY <2>1, PageStays DEF Defers, Leads
    <2>4. Good(DispatchRequest(k, g.deferred, "tunnel"), p)
      BY <2>1, <2>2, <2>3, DispatchResult
    <2>5. NotifyDeferred(g) = DispatchRequest(k, g.deferred, "tunnel")
      BY <1>1, <2>k DEF NotifyDeferred, FlushDeferredRequest, Defers
    <2> QED
      BY <2>4, <2>5
  <1>2. CASE g.tunnel.state = "failed"
    <2>k. PICK k : k = [g EXCEPT !.deferred = Nil, !.busy = FALSE]
      OBVIOUS
    <2>1. /\ k \in Guis /\ SamePage(g, k) /\ ~k.busy
          /\ k.deferred = Nil /\ k.onlyWait = g.onlyWait /\ k.job = g.job
          /\ k.tunnel = g.tunnel
      BY <2>k DEF Guis, SamePage
    <2>2. PageIdle(k, p)
      BY <2>1, PageStays DEF Defers, PageIdle, Free
    <2>3. NotifyDeferred(g) = k
      BY <1>2, <2>k DEF NotifyDeferred, FailDeferredRequest, Defers, IsReady
    <2> QED
      BY <2>1, <2>2, <2>3 DEF Good
  <1>3. CASE g.tunnel.state = "starting"
    <2>1. NotifyDeferred(g) = g
      BY <1>3 DEF NotifyDeferred, IsReady
    <2> QED
      BY <1>3, <2>1 DEF Good, Deferring
  <1> QED
    BY <1>1, <1>2, <1>3 DEF IsReady

\* The tunnel is closed and started again, for whatever waits for it.
LEMMA RestartResult ==
    ASSUME NEW g \in Guis,
           NEW h \in StartTunnelForEndpoint(WithTunnel(g, Stop(g.tunnel)))
    PROVE  /\ h \in Guis /\ SamePage(g, h) /\ SameWork(g, h) /\ SameAddress(g, h)
           /\ Begun(h.tunnel, TunnelOptions(g))
  <1>w. PICK w : w = WithTunnel(g, Stop(g.tunnel))
    OBVIOUS
  <1>1. /\ w \in Guis /\ w.tunnel = Stopped
        /\ SamePage(g, w) /\ SameWork(g, w) /\ SameAddress(g, w)
    BY <1>w, TunnelValues, WithTunnelResult DEF Stop
  <1>2. TunnelOptions(w) = TunnelOptions(g) /\ TunnelOptions(g) \in Options
    BY <1>1, OptionsOf DEF TunnelOptions, SameAddress
  <1>t. PICK t \in StartTunnel(w.tunnel, TunnelOptions(w)) : h = WithTunnel(w, t)
    BY <1>w DEF StartTunnelForEndpoint
  <1>3. 0 \in 0 .. MaxPortRetries
    OBVIOUS
  <1>4. Begun(t, TunnelOptions(g))
    BY <1>t, <1>1, <1>2, <1>3, StartResult DEF StartTunnel
  <1>5. /\ h \in Guis /\ h.tunnel = t
        /\ SamePage(w, h) /\ SameWork(w, h) /\ SameAddress(w, h)
    BY <1>t, <1>1, <1>4, WithTunnelResult DEF Begun
  <1> QED
    BY <1>1, <1>4, <1>5 DEF SamePage, SameWork, SameAddress

\* A request of a page that is busy with nothing else.
LEMMA SubmittedGood ==
    ASSUME NoneAssumption, NEW g \in Guis, NEW r \in Request, NEW p \in BOOLEAN,
           g.busy, Free(g), TunnelGood(g.tunnel, p), PageGood(g, FALSE),
           Suits(g, r), r.server = g.server,
           NEW h \in SubmitRequest(g, r)
    PROVE  Good(h, p)
  <1>1. CASE h = DispatchRequest(g, r, "official") \/ h = DispatchRequest(g, r, "direct")
    BY <1>1, DispatchResult DEF Free
  <1>2. CASE h = DispatchRequest(g, r, "tunnel") /\ TunnelMatchesEndpoint(g)
    <2>1. Leads(g, r)
      BY <1>2, OptionsOf DEF TunnelMatchesEndpoint, Leads, TunnelGood
    <2> QED
      BY <1>2, <2>1, DispatchResult DEF Free
  <1>3. CASE \E k \in StartTunnelForEndpoint(
                        WithTunnel([g EXCEPT !.deferred = r], Stop(g.tunnel))) :
                h = NotifyDeferred(k)
    <2>v. PICK v : v = [g EXCEPT !.deferred = r]
      OBVIOUS
    <2>1. /\ v \in Guis /\ SamePage(g, v) /\ v.deferred = r /\ v.busy = g.busy
          /\ v.onlyWait = g.onlyWait /\ v.job = g.job /\ v.tunnel = g.tunnel
          /\ v.server = g.server
      BY <2>v DEF Guis, SamePage
    <2>k. PICK k \in StartTunnelForEndpoint(WithTunnel(v, Stop(v.tunnel))) :
             h = NotifyDeferred(k)
      BY <1>3, <2>v, <2>1
    <2>2. /\ k \in Guis /\ SamePage(v, k) /\ SameWork(v, k)
          /\ Begun(k.tunnel, TunnelOptions(v))
      BY <2>1, RestartResult
    <2>3. /\ Suits(k, r) /\ PageGood(k, FALSE)
      BY <2>1, <2>2, PageStays
    <2>4. /\ k.tunnel.state \in {"starting", "ready", "failed"}
          /\ TunnelGood(k.tunnel, p) /\ Leads(k, r)
      BY <2>1, <2>2, OptionsOf DEF Begun, Leads
    <2>5. Defers(k, p)
      BY <2>1, <2>2, <2>3, <2>4 DEF Defers, SameWork, Free, NoneAssumption
    <2> QED
      BY <2>k, <2>2, <2>4, <2>5, NotifyDeferredResult
  <1> QED
    BY <1>1, <1>2, <1>3 DEF SubmitRequest, TransportUsableForSubmit

LEMMA OperateResult ==
    ASSUME NoneAssumption, NEW g \in Guis, NEW p \in BOOLEAN, PageIdle(g, p),
           NEW kind \in Kinds, kind \in {"login", "register"} <=> ~g.authenticated,
           NEW h \in Operate(g, kind)
    PROVE  Good(h, p)
  <1>k. PICK k : k = [g EXCEPT !.busy = TRUE]
    OBVIOUS
  <1>r. PICK r : r = NewRequest(g, kind)
    OBVIOUS
  <1>1. /\ k \in Guis /\ SamePage(g, k) /\ k.busy /\ k.deferred = g.deferred
        /\ k.onlyWait = g.onlyWait /\ k.job = g.job /\ k.tunnel = g.tunnel
        /\ k.server = g.server
    BY <1>k DEF Guis, SamePage
  <1>2. /\ r \in Request /\ r.kind = kind /\ r.server = g.server
        /\ r.name = g.account
    BY <1>r DEF NewRequest, Request, Guis
  <1>3. Suits(k, r) /\ PageGood(k, FALSE)
    <2>1. Suits(g, r)
      BY <1>2 DEF Suits, ForForm
    <2> QED
      BY <1>1, <2>1, PageStays DEF PageIdle
  <1>4. h \in SubmitRequest(k, r)
    BY <1>k, <1>r DEF Operate
  <1>5. Free(k) /\ TunnelGood(k.tunnel, p)
    BY <1>1 DEF PageIdle, Free
  <1> QED
    BY <1>1, <1>2, <1>3, <1>4, <1>5, SubmittedGood

LEMMA RefreshListResult ==
    ASSUME NoneAssumption, NEW g \in Guis, NEW p \in BOOLEAN, PageIdle(g, p),
           NEW h \in RefreshList(g)
    PROVE  Good(h, p)
  <1>1. CASE BeginOperation(g, TRUE)
    BY <1>1, OperateResult DEF RefreshList, BeginOperation, Kinds
  <1>2. CASE ~BeginOperation(g, TRUE)
    BY <1>2 DEF RefreshList, Good
  <1> QED
    BY <1>1, <1>2

-----------------------------------------------------------------------------
(* The signals *)

\* What a signal of the tunnel may find, before whoever waits has heard of it.
Hears(g, p) ==
    \/ (Defers(g, p) \/ Waits(g, p))
         /\ g.tunnel.state \in {"starting", "ready", "failed"}
    \/ PageIdle(g, p) \/ Working(g, p)

LEMMA StateChangedResult ==
    ASSUME NoneAssumption, NEW g \in Guis, NEW p \in BOOLEAN, Hears(g, p),
           NEW h \in OnTunnelStateChanged(g)
    PROVE  Good(h, p)
  <1>1. CASE Defers(g, p) /\ g.tunnel.state \in {"starting", "ready", "failed"}
    <2>1. h = NotifyDeferred(g)
      BY <1>1 DEF OnTunnelStateChanged, Defers
    <2> QED
      BY <1>1, <2>1, NotifyDeferredResult
  <1>2. CASE Waits(g, p) /\ g.tunnel.state \in {"starting", "ready", "failed"}
    <2>k. PICK k : k = [g EXCEPT !.onlyWait = FALSE, !.busy = FALSE]
      OBVIOUS
    <2>1. /\ k \in Guis /\ SamePage(g, k) /\ ~k.busy /\ ~k.onlyWait
          /\ k.deferred = g.deferred /\ k.job = g.job /\ k.tunnel = g.tunnel
      BY <2>k DEF Guis, SamePage
    <2>2. PageIdle(k, p)
      BY <1>2, <2>1, PageStays DEF Waits, PageIdle, Free
    <2>3. CASE IsReady(g.tunnel)
      BY <1>2, <2>k, <2>1, <2>2, <2>3, RefreshListResult
      DEF OnTunnelStateChanged, Waits
    <2>4. CASE g.tunnel.state = "failed"
      BY <1>2, <2>k, <2>1, <2>2, <2>4 DEF OnTunnelStateChanged, Waits, IsReady, Good
    <2>5. CASE g.tunnel.state = "starting"
      BY <1>2, <2>5
      DEF OnTunnelStateChanged, NotifyDeferred, Waits, IsReady, Good, Waiting
    <2> QED
      BY <1>2, <2>3, <2>4, <2>5 DEF IsReady
  <1>3. CASE PageIdle(g, p) \/ Working(g, p)
    <2>1. g.deferred = Nil /\ ~g.onlyWait
      BY <1>3 DEF PageIdle, Free, Working
    <2>2. h = g
      BY <2>1 DEF OnTunnelStateChanged, NotifyDeferred
    <2> QED
      BY <1>3, <2>2 DEF Good
  <1> QED
    BY <1>1, <1>2, <1>3 DEF Hears

LEMMA SignalledResult ==
    ASSUME NoneAssumption, NEW g \in Guis, NEW p \in BOOLEAN, Good(g, FALSE),
           NEW T, NEW h \in Signalled(g, T),
           \A t \in T : /\ t \in Tunnels /\ TunnelGood(t, p)
                        /\ t.state \in {"starting", "ready", "failed"}
                        /\ t.process => g.tunnel.process /\ t.options = g.tunnel.options
    PROVE  Good(h, p)
  <1>t. PICK t \in T : h \in OnTunnelStateChanged(WithTunnel(g, t))
    BY DEF Signalled
  <1>k. PICK k : k = WithTunnel(g, t)
    OBVIOUS
  <1>1. /\ k \in Guis /\ k.tunnel = t /\ SamePage(g, k) /\ SameWork(g, k)
    BY <1>k, WithTunnelResult
  <1>2. /\ \A b : PageGood(g, b) => PageGood(k, b)
        /\ \A r : Suits(g, r) => Suits(k, r)
        /\ \A r : Leads(g, r) => Leads(k, r)
        /\ TunnelGood(k.tunnel, p)
    BY <1>1, PageStays DEF Leads
  <1> SUFFICES Hears(k, p)
    BY <1>t, <1>k, <1>1, StateChangedResult
  <1>3. CASE PageIdle(g, FALSE)
    BY <1>1, <1>2, <1>3 DEF Hears, PageIdle, Free, SameWork
  <1>4. CASE Working(g, FALSE)
    <2>1. /\ PageGood(k, Signing(k.job)) /\ Suits(k, k.job.request)
          /\ k.job.dial = "tunnel" => Leads(k, k.job.request)
      BY <1>1, <1>2, <1>4 DEF Working, SameWork
    <2> QED
      BY <1>1, <1>2, <1>4, <2>1 DEF Hears, Working, SameWork, SamePage
  <1>5. CASE Deferring(g, FALSE)
    BY <1>1, <1>2, <1>5 DEF Hears, Deferring, Defers, SameWork
  <1>6. CASE Waiting(g, FALSE)
    BY <1>1, <1>2, <1>6 DEF Hears, Waiting, Waits, SameWork
  <1> QED
    BY <1>3, <1>4, <1>5, <1>6 DEF Good

-----------------------------------------------------------------------------
(* The operation *)

\* What a call of the client may leave: no other token than there was.
Leaves(a, c) ==
    /\ a \in [client : Client, result : {"ok", "failed", "unauthorized"}]
    /\ a.client.token \in {c.token, Nil}

LEMMA RefusedResult ==
    ASSUME NEW c \in Client, NEW a \in Refused(c)
    PROVE  Leaves(a, c) /\ a.result = "failed"
  <1>1. PICK d \in {c, Disconnected, DisconnectSocket(c)} : a = Answer(d, "failed")
    BY DEF Refused
  <1>2. d \in Client /\ d.token \in {c.token, Nil}
    BY <1>1, Disconnecting
  <1> QED
    BY <1>1, <1>2 DEF Answer, Leaves

LEMMA ConnectResult ==
    ASSUME NoneAssumption, NEW g \in Guis, Working(g, FALSE), NEW c \in Client,
           NEW d \in Connect(g, c)
    PROVE  d \in Client /\ d.token = c.token
  <1>1. CASE d = DisconnectSocket(c)
    BY <1>1, Disconnecting
  <1>2. CASE d # DisconnectSocket(c)
    <2>s. PICK server \in Reached(g) :
             d = [c EXCEPT !.link = [server |-> server,
                                     tunnel |-> g.tunnel.process /\ g.job.dial = "tunnel"],
                           !.authenticated = FALSE]
      BY <1>2 DEF Connect
    <2>1. server \in Servers
      <3>1. g.job.request \in Request
        BY DEF Working, Suits
      <3>2. g.job.request.server \in Servers
        BY <3>1 DEF Request
      <3>3. IsReady(g.tunnel) /\ ~g.tunnel.external => g.tunnel.options \in Options
        BY DEF Working, TunnelGood
      <3> QED
        BY <2>s, <3>2, <3>3 DEF Reached, Options
    <2>l. PICK l : l = [server |-> server,
                        tunnel |-> g.tunnel.process /\ g.job.dial = "tunnel"]
      OBVIOUS
    <2>2. l \in Link
      BY <2>1, <2>l DEF Link
    <2>3. d = [c EXCEPT !.link = l, !.authenticated = FALSE]
      BY <2>s, <2>l
    <2> QED
      BY <2>2, <2>3 DEF Client
  <1> QED
    BY <1>1, <1>2

LEMMA ResumeResult ==
    ASSUME NEW c \in Client, c.link # Nil, NEW a \in Resume(c)
    PROVE  Leaves(a, c) /\ (a.result = "ok" => a.client.link # Nil)
  <1>1. CASE a = Answer([c EXCEPT !.authenticated = TRUE], "ok")
    BY <1>1 DEF Answer, Leaves, Client
  <1>2. CASE a \in {Answer(Disconnected, "unauthorized"), Answer(c, "failed"),
                    Answer(DisconnectSocket(c), "failed")}
    BY <1>2, Disconnecting DEF Answer, Leaves
  <1> QED
    BY <1>1, <1>2 DEF Resume

LEMMA PrepareResult ==
    ASSUME NoneAssumption, NEW g \in Guis, Working(g, FALSE), NEW c \in Client,
           NEW a \in PrepareConnection(g, c)
    PROVE  Leaves(a, c) /\ (a.result = "ok" => a.client.link # Nil)
  <1>1. CASE c.link # Nil
    BY <1>1 DEF PrepareConnection, Answer, Leaves
  <1>2. CASE c.link = Nil
    <2>d. PICK d \in Connect(g, c) :
             a \in IF d.link = Nil THEN {Answer(d, "failed")}
                   ELSE IF d.token = Nil THEN {Answer(d, "ok")}
                   ELSE Resume(d)
      BY <1>2 DEF PrepareConnection
    <2>1. d \in Client /\ d.token = c.token
      BY ConnectResult
    <2>2. CASE d.link # Nil /\ d.token # Nil
      BY <2>d, <2>1, <2>2, ResumeResult DEF Leaves
    <2>3. CASE d.link = Nil \/ d.token = Nil
      BY <2>d, <2>1, <2>3 DEF Answer, Leaves
    <2> QED
      BY <2>2, <2>3
  <1> QED
    BY <1>1, <1>2

\* A request of an account changes nothing of the session but to end it.
LEMMA OperatesResult ==
    ASSUME NoneAssumption, NEW g \in Guis, Working(g, FALSE), NEW a \in Operates(g)
    PROVE  Leaves(a, g.client)
  <1>1. g.client \in Client
    BY DEF Guis
  <1>2. CASE g.client.token = Nil
    BY <1>1, <1>2 DEF Operates, Answer, Leaves
  <1>3. CASE g.client.token # Nil
    <2>p. PICK q \in PrepareConnection(g, g.client) :
             a \in IF q.result # "ok" THEN {q}
                   ELSE ({Answer(q.client, "unauthorized")} \cup
                         IF ~q.client.authenticated THEN {}
                         ELSE {Answer(IF g.job.request.kind = "deleteAccount"
                                      THEN [q.client EXCEPT !.authenticated = FALSE,
                                                            !.token = Nil]
                                      ELSE q.client, "ok")})
                        \cup Refused(q.client)
      BY <1>3 DEF Operates
    <2>1. Leaves(q, g.client)
      BY <1>1, PrepareResult
    <2>2. CASE a = q
      BY <2>1, <2>2
    <2>3. CASE a \in Refused(q.client)
      BY <2>1, <2>3, RefusedResult DEF Leaves
    <2>4. CASE a \in {Answer(q.client, "unauthorized"), Answer(q.client, "ok")}
      BY <2>1, <2>4 DEF Answer, Leaves
    <2>5. CASE a = Answer([q.client EXCEPT !.authenticated = FALSE, !.token = Nil], "ok")
      BY <2>1, <2>5 DEF Answer, Leaves, Client
    <2> QED
      BY <2>p, <2>2, <2>3, <2>4, <2>5
  <1> QED
    BY <1>2, <1>3

LEMMA RestoresRawResult ==
    ASSUME NoneAssumption, NEW g \in Guis, Working(g, FALSE), NEW a \in RestoresRaw(g)
    PROVE  /\ a.client \in Client /\ a.result \in Results
           /\ a.client.token \in {g.client.token, Nil}
  <1>1. Leaves(Answer(g.client, "ok"), g.client)
    BY DEF Guis, Leaves, Answer
  <1>2. \A b \in Operates(g) : Leaves(b, g.client)
    BY OperatesResult
  <1>b. PICK b : /\ Leaves(b, g.client)
                 /\ \/ a = b \/ a = [b EXCEPT !.result = "password"]
                    \/ a = [b EXCEPT !.result = "failed"]
    BY <1>1, <1>2 DEF RestoresRaw
  <1> QED
    BY <1>b DEF Results, Leaves

\* Who logs in had no token; he gets one only with the answer "ok".
LEMMA LogsInResult ==
    ASSUME NoneAssumption, NEW g \in Guis, Working(g, FALSE), NEW a \in LogsIn(g),
           g.client.token = Nil
    PROVE  /\ a.client \in Client /\ a.result \in Results
           /\ g.job.request.kind = "register" => a.client.token = Nil
           /\ g.job.request.kind # "register" /\ a.result = "ok" =>
                a.client.token # Nil /\ a.client.token.name = g.job.request.name
  <1>1. g.client \in Client
    BY DEF Guis
  <1> DEFINE LogIn(c) ==
                IF g.job.request.kind = "register" THEN Answer(c, "ok")
                ELSE Answer([c EXCEPT !.authenticated = TRUE,
                                      !.token = [server |-> c.link.server,
                                                 name |-> g.job.request.name]], "ok")
  <1>q. PICK q \in UNION {IF c.link = Nil THEN {Answer(c, "failed")}
                          ELSE PrepareConnection(g, Fresh(c))
                          : c \in IF g.client.link # Nil THEN {g.client}
                                  ELSE Connect(g, g.client)} :
           a \in IF q.result # "ok" THEN {q} ELSE {LogIn(q.client)} \cup Refused(q.client)
    BY Zenon DEF LogsIn
  <1>2. /\ Leaves(q, Disconnected)
        /\ q.result = "ok" => q.client.link # Nil
    <2>c. PICK c \in IF g.client.link # Nil THEN {g.client} ELSE Connect(g, g.client) :
             q \in IF c.link = Nil THEN {Answer(c, "failed")}
                   ELSE PrepareConnection(g, Fresh(c))
      OBVIOUS
    <2>1. c \in Client /\ c.token = Nil
      <3>1. c = g.client \/ c \in Connect(g, g.client)
        BY <2>c
      <3>2. CASE c \in Connect(g, g.client)
        <4>1. \A e \in Client : \A d \in Connect(g, e) : d \in Client /\ d.token = e.token
          BY ConnectResult
        <4> QED
          BY <1>1, <3>2, <4>1, Zenon
      <3> QED
        BY <1>1, <3>1, <3>2
    <2>2. CASE c.link = Nil
      BY <2>c, <2>1, <2>2 DEF Answer, Leaves
    <2>3. CASE c.link # Nil
      <3>1. Fresh(c) \in Client /\ Fresh(c).token = Nil
        BY <2>1, Disconnecting DEF Fresh
      <3>2. q \in PrepareConnection(g, Fresh(c))
        BY <2>c, <2>3
      <3>3. Disconnected.token = Nil
        BY DEF Disconnected
      <3> QED
        BY <3>1, <3>2, <3>3, PrepareResult DEF Leaves
    <2> QED
      BY <2>2, <2>3
  <1>3. q.client \in Client /\ q.client.token = Nil
    BY <1>1, <1>2, Disconnecting DEF Leaves
  <1>4. CASE a = q /\ q.result # "ok"
    BY <1>2, <1>3, <1>4 DEF Leaves, Results
  <1>5. CASE a \in Refused(q.client)
    <2>1. Leaves(a, q.client) /\ a.result # "ok"
      BY <1>3, <1>5, RefusedResult
    <2> QED
      BY <1>3, <2>1 DEF Leaves, Results
  <1>6. CASE a = LogIn(q.client) /\ q.result = "ok"
    <2>1. CASE g.job.request.kind = "register"
      BY <1>3, <1>6, <2>1 DEF Answer, Results
    <2>2. CASE g.job.request.kind # "register"
      <3>t. PICK t : t = [server |-> q.client.link.server, name |-> g.job.request.name]
        OBVIOUS
      <3>1. t \in Account /\ t.name = g.job.request.name
        <4>1. q.client.link \in Link
          BY <1>2, <1>3, <1>6 DEF Client
        <4>2. g.job.request \in Request
          BY DEF Working, Suits
        <4> QED
          BY <3>t, <4>1, <4>2 DEF Link, Request, Account
      <3>c. PICK c : c = [q.client EXCEPT !.authenticated = TRUE, !.token = t]
        OBVIOUS
      <3>2. c \in Client /\ c.token = t
        BY <1>3, <3>1, <3>c DEF Client
      <3>3. a = Answer(c, "ok")
        BY <1>6, <2>2, <3>t, <3>c
      <3>4. t # Nil
        BY <3>1 DEF NoneAssumption
      <3> QED
        BY <2>2, <3>1, <3>2, <3>3, <3>4 DEF Answer, Results
    <2> QED
      BY <2>1, <2>2
  <1> QED
    BY <1>q, <1>4, <1>5, <1>6

\* The thread ends with the answer of the client.
LEMMA RunResult ==
    ASSUME NoneAssumption, Good(gui, FALSE), RunOperation
    PROVE  Good(gui', FALSE)
  <1> DEFINE kind == gui.job.request.kind
  <1>1. gui \in Guis /\ Working(gui, FALSE)
    BY DEF RunOperation, Good, PageIdle, Free, Deferring, Defers, Waiting, Waits
  <1>2. gui.job \in Job /\ gui.job.request \in Request /\ gui.job.result = Nil
    BY <1>1 DEF Guis, Working, Suits, RunOperation
  <1>a. PICK a : /\ kind \in {"login", "register"} => a \in LogsIn(gui)
                 /\ kind = "raw" => a \in RestoresRaw(gui)
                 /\ kind \notin {"login", "register", "raw"} => a \in Operates(gui)
                 /\ gui' = [gui EXCEPT !.client = a.client,
                              !.job.result = ClassifyFailure(kind, a.result),
                              !.job.by = IF a.client.link = Nil THEN Nil
                                         ELSE a.client.link.server]
    BY DEF RunOperation
  <1>3. PageGood(gui, FALSE)
    BY <1>1, <1>2 DEF Working, Signing
  <1>4. kind \in {"login", "register"} => gui.client.token = Nil
    BY <1>1, <1>3 DEF Working, Suits, ForForm, PageGood
  <1>5. /\ a.client \in Client /\ a.result \in Results
        /\ kind # "login" => a.client.token \in {gui.client.token, Nil}
        /\ kind = "login" /\ a.result = "ok" =>
             a.client.token # Nil /\ a.client.token.name = gui.job.request.name
        /\ kind = "login" => ~gui.authenticated
    <2>1. CASE kind \in {"login", "register"}
      BY <1>1, <1>a, <1>4, <2>1, LogsInResult DEF Working, Suits, ForForm
    <2>2. CASE kind = "raw"
      BY <1>1, <1>a, <2>2, RestoresRawResult
    <2>3. CASE kind \notin {"login", "register", "raw"}
      BY <1>1, <1>a, <2>3, OperatesResult DEF Leaves, Results
    <2> QED
      BY <2>1, <2>2, <2>3
  <1>r. PICK r : r = ClassifyFailure(kind, a.result)
    OBVIOUS
  <1>y. PICK y : y = IF a.client.link = Nil THEN Nil ELSE a.client.link.server
    OBVIOUS
  <1>6. r \in Results /\ r # Nil /\ (r = "ok" <=> a.result = "ok")
    BY <1>r, <1>5 DEF ClassifyFailure, Results, NoneAssumption
  <1>7. y \in Servers \cup {Nil}
    BY <1>y, <1>5 DEF Client, Link
  <1>j. PICK j : j = [gui.job EXCEPT !.result = r, !.by = y]
    OBVIOUS
  <1>8. /\ j \in Job /\ j # Nil /\ j.request = gui.job.request
        /\ j.dial = gui.job.dial /\ j.result = r
    BY <1>j, <1>2, <1>6, <1>7 DEF Job, NoneAssumption
  <1>9. gui' = [gui EXCEPT !.client = a.client, !.job = j]
    BY <1>a, <1>r, <1>y, <1>j, <1>1 DEF Guis
  <1>10. /\ gui' \in Guis /\ gui'.client = a.client /\ gui'.job = j
         /\ gui'.busy = gui.busy /\ gui'.deferred = gui.deferred
         /\ gui'.onlyWait = gui.onlyWait /\ gui'.tunnel = gui.tunnel
         /\ gui'.account = gui.account /\ gui'.authenticated = gui.authenticated
         /\ gui'.listed = gui.listed
    BY <1>1, <1>5, <1>8, <1>9 DEF Guis
  <1>11. Signing(j) <=> kind = "login"
    BY <1>6, <1>8 DEF Signing
  <1>12. /\ Suits(gui', j.request)
         /\ j.dial = "tunnel" => Leads(gui', j.request)
    BY <1>1, <1>8, <1>10 DEF Working, Suits, Leads
  <1>13. gui.job.request.name = gui.account
    BY <1>1 DEF Working, Suits
  <1>14. PageGood(gui', Signing(j))
    BY <1>3, <1>5, <1>10, <1>11 DEF PageGood
  <1>15. Working(gui', FALSE)
    BY <1>1, <1>5, <1>6, <1>8, <1>10, <1>11, <1>12, <1>13, <1>14 DEF Working
  <1> QED
    BY <1>10, <1>15 DEF Good

\* What the page shows once the result of an operation has been applied.
LEMMA ApplyResultResult ==
    ASSUME NoneAssumption, NEW g \in Guis, Working(g, FALSE), g.job.result # Nil
    PROVE  LET f == ApplyResult(g)
           IN  /\ f \in Guis /\ PageGood(f, FALSE) /\ f.tunnel = g.tunnel
               /\ f.deferred = g.deferred /\ f.onlyWait = g.onlyWait
  <1> DEFINE kind == g.job.request.kind
  <1>0. ~Signing(g.job) => PageGood(g, FALSE)
    BY DEF Working, PageGood
  <1>h. PICK h : h = ApplyRawRestoreState(g)
    OBVIOUS
  <1>1. /\ h \in Guis /\ SamePage(g, h) /\ h.tunnel = g.tunnel
        /\ h.deferred = g.deferred /\ h.onlyWait = g.onlyWait
    <2>r. PICK r \in BOOLEAN : r = (g.job.result = "password")
      OBVIOUS
    <2>1. h = g \/ h = [g EXCEPT !.raw = r]
      BY <1>h, <2>r DEF ApplyRawRestoreState
    <2>2. CASE h = g
      BY <2>2 DEF SamePage
    <2>3. CASE h = [g EXCEPT !.raw = r]
      BY <2>3 DEF SamePage, Guis
    <2> QED
      BY <2>1, <2>2, <2>3
  <1>f. PICK f : f = ApplyResult(g)
    OBVIOUS
  <1>2. CASE f = EndSession(h)
    <2>1. Disconnected \in Client /\ Disconnected.token = Nil
      BY <1>1, Disconnecting DEF Guis
    <2>2. /\ f \in Guis /\ f.client = Disconnected /\ f.listed = Nil
          /\ f.authenticated = FALSE /\ f.tunnel = g.tunnel
          /\ f.deferred = g.deferred /\ f.onlyWait = g.onlyWait
      BY <1>1, <1>2, <2>1 DEF EndSession, Guis
    <2> QED
      BY <1>f, <2>1, <2>2 DEF PageGood
  <1>3. CASE f = h /\ ~Signing(g.job)
    <2>1. PageGood(f, FALSE)
      BY <1>0, <1>1, <1>3, PageStays
    <2> QED
      BY <1>1, <1>3, <1>f, <2>1
  <1>4. CASE f = [h EXCEPT !.authenticated = FALSE] /\ kind = "register"
    <2>1. /\ f \in Guis /\ f.client = h.client /\ f.listed = h.listed
          /\ f.authenticated = FALSE /\ f.account = h.account /\ f.tunnel = g.tunnel
          /\ f.deferred = g.deferred /\ f.onlyWait = g.onlyWait
      BY <1>1, <1>4 DEF Guis
    <2>2. ~g.authenticated /\ ~Signing(g.job)
      BY <1>4 DEF Working, Suits, ForForm, Signing
    <2>3. PageGood(g, FALSE)
      BY <1>0, <2>2
    <2> QED
      BY <1>f, <1>1, <2>1, <2>2, <2>3 DEF PageGood, SamePage
  <1>5. CASE /\ f = [h EXCEPT !.authenticated = TRUE]
             /\ kind = "login" /\ g.job.result = "ok"
    <2>1. /\ f \in Guis /\ f.client = h.client /\ f.listed = h.listed
          /\ f.authenticated = TRUE /\ f.account = h.account /\ f.tunnel = g.tunnel
          /\ f.deferred = g.deferred /\ f.onlyWait = g.onlyWait
      BY <1>1, <1>5 DEF Guis
    <2>2. g.client.token # Nil /\ g.client.token.name = g.job.request.name
          /\ g.job.request.name = g.account /\ ~g.authenticated
      BY <1>5 DEF Working, Suits, ForForm, Signing
    <2>3. g.listed = Nil
      BY <2>2 DEF Working, PageGood
    <2> QED
      BY <1>f, <1>1, <2>1, <2>2, <2>3 DEF PageGood, SamePage
  <1>6. CASE f = [h EXCEPT !.listed = g.client.token] /\ kind = "list"
    <2>1. g.client.token \in Account \cup {Nil}
      BY DEF Guis, Client
    <2>2. /\ f \in Guis /\ f.client = h.client /\ f.listed = g.client.token
          /\ f.authenticated = h.authenticated /\ f.account = h.account
          /\ f.tunnel = g.tunnel
          /\ f.deferred = g.deferred /\ f.onlyWait = g.onlyWait
      BY <1>1, <1>6, <2>1 DEF Guis
    <2>3. g.authenticated /\ ~Signing(g.job)
      BY <1>6 DEF Working, Suits, ForForm, Signing
    <2>4. PageGood(g, FALSE)
      BY <1>0, <2>3
    <2> QED
      BY <1>f, <1>1, <2>2, <2>3, <2>4 DEF PageGood, SamePage
  <1>7. CASE g.job.result # "ok"
    <2>1. kind = "login" => f = EndSession(h)
      BY <1>f, <1>h, <1>7 DEF ApplyResult
    <2>2. kind # "login" => f = EndSession(h) \/ f = h
      BY <1>f, <1>h, <1>7 DEF ApplyResult
    <2> QED
      BY <2>1, <2>2, <1>2, <1>3 DEF Signing
  <1>8. CASE g.job.result = "ok"
    <2>1. CASE kind \in {"register", "login", "list", "deleteAccount"}
      BY <1>f, <1>h, <1>8, <1>2, <1>4, <1>5, <1>6, <2>1 DEF ApplyResult
    <2>2. CASE kind \notin {"register", "login", "list", "deleteAccount"}
      <3>1. f = h
        BY <1>f, <1>h, <1>8, <2>2 DEF ApplyResult
      <3> QED
        BY <3>1, <2>2, <1>3 DEF Signing
    <2> QED
      BY <2>1, <2>2
  <1> QED
    BY <1>7, <1>8

\* The page is told, and may go on to read the list.
LEMMA FinishedResult ==
    ASSUME NoneAssumption, Good(gui, FALSE), OnOperationFinished
    PROVE  Good(gui', FALSE)
  <1>1. gui \in Guis /\ Working(gui, FALSE) /\ gui.job.result # Nil
    BY DEF OnOperationFinished, Good, PageIdle, Free, Deferring, Defers, Waiting, Waits
  <1>f. PICK f : f = ApplyResult(gui)
    OBVIOUS
  <1>2. /\ f \in Guis /\ PageGood(f, FALSE) /\ f.tunnel = gui.tunnel
        /\ f.deferred = gui.deferred /\ f.onlyWait = gui.onlyWait
    BY <1>f, <1>1, ApplyResultResult
  <1>k. PICK k : k = [f EXCEPT !.job = Nil, !.busy = FALSE]
    OBVIOUS
  <1>3. /\ k \in Guis /\ SamePage(f, k) /\ k.tunnel = f.tunnel /\ k.busy = FALSE
        /\ k.deferred = f.deferred /\ k.onlyWait = f.onlyWait /\ k.job = Nil
    BY <1>2, <1>k DEF Guis, SamePage
  <1>4. PageGood(k, FALSE)
    BY <1>2, <1>3, PageStays
  <1>5. PageIdle(k, FALSE)
    BY <1>1, <1>2, <1>3, <1>4 DEF PageIdle, Free, Working
  <1>6. gui' \in RefreshList(k) \/ gui' = k
    BY <1>f, <1>k DEF OnOperationFinished
  <1> QED
    BY <1>3, <1>5, <1>6, RefreshListResult DEF Good

\* A connection breaks; the token outlives it.
LEMMA LinkBreaksResult ==
    ASSUME NoneAssumption, Good(gui, FALSE), LinkBreaks
    PROVE  Good(gui', FALSE)
  <1>c. PICK c : c = DisconnectSocket(gui.client)
    OBVIOUS
  <1>1. gui \in Guis /\ gui.client \in Client
    BY DEF Good, Guis
  <1>2. c \in Client /\ c.token = gui.client.token
    BY <1>c, <1>1, Disconnecting
  <1>3. gui' = [gui EXCEPT !.client = c]
    BY <1>c, <1>1 DEF LinkBreaks, Guis
  <1>4. /\ gui' \in Guis /\ SamePage(gui, gui') /\ SameWork(gui, gui')
        /\ gui'.tunnel = gui.tunnel
    BY <1>1, <1>2, <1>3 DEF Guis, SamePage, SameWork
  <1>5. PageGood(gui, FALSE) => PageGood(gui', FALSE)
    BY <1>4, PageStays
  <1>6. \A r : Suits(gui, r) => Suits(gui', r)
    BY <1>4, PageStays
  <1>7. ~Working(gui, FALSE)
    BY DEF LinkBreaks, Working
  <1>8. CASE PageIdle(gui, FALSE)
    BY <1>4, <1>5, <1>8 DEF Good, PageIdle, Free, SameWork
  <1>9. CASE Deferring(gui, FALSE)
    BY <1>4, <1>5, <1>6, <1>9 DEF Good, Deferring, Defers, SameWork, Leads
  <1>10. CASE Waiting(gui, FALSE)
    BY <1>4, <1>5, <1>10 DEF Good, Waiting, Waits, SameWork
  <1> QED
    BY <1>7, <1>8, <1>9, <1>10 DEF Good

-----------------------------------------------------------------------------
(* The calls of the page *)

\* A page that is not busy is idle.
LEMMA IdleWhenNotBusy ==
    ASSUME Good(gui, FALSE), ~gui.busy
    PROVE  gui \in Guis /\ PageIdle(gui, FALSE)
  BY DEF Good, Working, Deferring, Defers, Waiting, Waits

\* A member that no request is made of yet is set.
LEMMA SettingResult ==
    ASSUME NEW g \in Guis, PageIdle(g, FALSE), NEW h \in Guis,
           SamePage(g, h), SameWork(g, h), h.tunnel = g.tunnel
    PROVE  PageIdle(h, FALSE)
  BY PageStays DEF PageIdle, Free, SameWork

LEMMA SubmitFormResult ==
    ASSUME NoneAssumption, Good(gui, FALSE), NEW kind \in {"login", "register"},
           SubmitForm(kind)
    PROVE  Good(gui', FALSE)
  <1>1. gui \in Guis /\ PageIdle(gui, FALSE) /\ ~gui.authenticated
    BY IdleWhenNotBusy DEF SubmitForm
  <1>p. PICK server \in Servers, pin \in Servers, name \in UserNames :
           gui' \in Operate(CommitEndpoint(IF RequiresManualPin(gui)
                                           THEN CommitServerKeyPin(gui, pin) ELSE gui,
                                           server, name), kind)
    BY DEF SubmitForm
  <1>g. PICK g : g = IF RequiresManualPin(gui) THEN CommitServerKeyPin(gui, pin) ELSE gui
    OBVIOUS
  <1>2. g \in Guis /\ SamePage(gui, g) /\ SameWork(gui, g) /\ g.tunnel = gui.tunnel
    <2>1. CASE g = gui
      BY <1>1, <2>1 DEF SamePage, SameWork
    <2>2. CASE g = [gui EXCEPT !.pin = pin]
      BY <1>1, <2>2 DEF SamePage, SameWork, Guis
    <2> QED
      BY <1>g, <2>1, <2>2 DEF CommitServerKeyPin
  <1>h. PICK h : h = [g EXCEPT !.server = server, !.account = name]
    OBVIOUS
  <1>3. /\ h \in Guis /\ SameWork(g, h) /\ h.tunnel = g.tunnel /\ h.client = g.client
        /\ h.authenticated = g.authenticated /\ h.listed = g.listed
    BY <1>2, <1>h DEF Guis, SameWork
  <1>4. ~g.authenticated /\ g.client.token = Nil /\ g.listed = Nil
    BY <1>1, <1>2 DEF PageIdle, PageGood, SamePage
  <1>5. PageGood(h, FALSE)
    BY <1>3, <1>4 DEF PageGood
  <1>6. PageIdle(h, FALSE)
    BY <1>1, <1>2, <1>3, <1>5 DEF PageIdle, Free, SameWork
  <1>7. gui' \in Operate(h, kind)
    BY <1>p, <1>g, <1>h DEF CommitEndpoint
  <1> QED
    BY <1>3, <1>4, <1>6, <1>7, OperateResult DEF Kinds

LEMMA ActResult ==
    ASSUME NoneAssumption, Good(gui, FALSE),
           NEW kind \in Kinds \ {"login", "register"}, Act(kind)
    PROVE  Good(gui', FALSE)
  <1>1. gui \in Guis /\ PageIdle(gui, FALSE) /\ gui.authenticated
    BY IdleWhenNotBusy DEF Act, BeginOperation
  <1> QED
    BY <1>1, OperateResult DEF Act

LEMMA RestoreRawResult ==
    ASSUME NoneAssumption, Good(gui, FALSE), RestoreRawArchive
    PROVE  Good(gui', FALSE)
  <1>1. gui \in Guis /\ PageIdle(gui, FALSE) /\ gui.authenticated
    BY IdleWhenNotBusy DEF RestoreRawArchive, BeginOperation
  <1>h. PICK h : h = [gui EXCEPT !.raw = FALSE]
    OBVIOUS
  <1>2. /\ h \in Guis /\ SamePage(gui, h) /\ SameWork(gui, h) /\ h.tunnel = gui.tunnel
    BY <1>1, <1>h DEF Guis, SamePage, SameWork
  <1>3. h.authenticated /\ PageIdle(h, FALSE)
    BY <1>1, <1>2, SettingResult DEF SamePage
  <1>4. gui' \in Operate(h, "raw")
    BY <1>h DEF RestoreRawArchive
  <1> QED
    BY <1>2, <1>3, <1>4, OperateResult DEF Kinds

LEMMA LogoutResult ==
    ASSUME Good(gui, FALSE), LogoutLocal
    PROVE  Good(gui', FALSE)
  <1>1. gui \in Guis /\ PageIdle(gui, FALSE)
    BY IdleWhenNotBusy DEF LogoutLocal
  <1>2. Disconnected \in Client /\ Disconnected.token = Nil
    BY <1>1, Disconnecting DEF Guis
  <1>3. /\ gui' \in Guis /\ gui'.client = Disconnected /\ gui'.listed = Nil
        /\ gui'.authenticated = FALSE /\ gui'.tunnel = gui.tunnel
        /\ SameWork(gui, gui')
    BY <1>1, <1>2 DEF LogoutLocal, Guis, SameWork
  <1>4. PageGood(gui', FALSE)
    BY <1>2, <1>3 DEF PageGood
  <1> QED
    BY <1>1, <1>3, <1>4 DEF Good, PageIdle, Free, SameWork

LEMMA ChangeResult ==
    ASSUME Good(gui, FALSE), ChangeSettings \/ CancelRawRestore
    PROVE  Good(gui', FALSE)
  <1>1. gui \in Guis /\ PageIdle(gui, FALSE)
    BY IdleWhenNotBusy DEF ChangeSettings, CancelRawRestore
  <1> SUFFICES gui' \in Guis /\ SamePage(gui, gui') /\ SameWork(gui, gui')
               /\ gui'.tunnel = gui.tunnel
    BY <1>1, SettingResult DEF Good
  <1>2. ASSUME NEW mode \in Modes, gui' = [gui EXCEPT !.mode = mode]
        PROVE  gui' \in Guis /\ SamePage(gui, gui') /\ SameWork(gui, gui')
               /\ gui'.tunnel = gui.tunnel
    BY <1>1, <1>2 DEF Guis, SamePage, SameWork
  <1>3. ASSUME NEW route \in Route, gui' = [gui EXCEPT !.route = route]
        PROVE  gui' \in Guis /\ SamePage(gui, gui') /\ SameWork(gui, gui')
               /\ gui'.tunnel = gui.tunnel
    BY <1>1, <1>3 DEF Guis, SamePage, SameWork
  <1>4. ASSUME NEW pin \in Servers, gui' = [gui EXCEPT !.pin = pin]
        PROVE  gui' \in Guis /\ SamePage(gui, gui') /\ SameWork(gui, gui')
               /\ gui'.tunnel = gui.tunnel
    BY <1>1, <1>4 DEF Guis, SamePage, SameWork
  <1>5. ASSUME gui' = [gui EXCEPT !.raw = FALSE]
        PROVE  gui' \in Guis /\ SamePage(gui, gui') /\ SameWork(gui, gui')
               /\ gui'.tunnel = gui.tunnel
    BY <1>1, <1>5 DEF Guis, SamePage, SameWork
  <1> QED
    BY <1>2, <1>3, <1>4, <1>5 DEF ChangeSettings, CancelRawRestore, CommitServerKeyPin

LEMMA StopTunnelResult ==
    ASSUME Good(gui, FALSE), StopTunnel
    PROVE  Good(gui', FALSE)
  <1>1. gui \in Guis /\ PageIdle(gui, FALSE)
    BY IdleWhenNotBusy DEF StopTunnel
  <1>g. PICK g : g = [gui EXCEPT !.deferred = Nil, !.onlyWait = FALSE]
    OBVIOUS
  <1>2. g \in Guis /\ SamePage(gui, g) /\ SameWork(gui, g)
    BY <1>1, <1>g DEF Guis, SamePage, SameWork, PageIdle, Free
  <1>3. gui' = WithTunnel(g, Stopped)
    BY <1>g DEF StopTunnel, Stop
  <1>4. /\ gui' \in Guis /\ gui'.tunnel = Stopped
        /\ SamePage(g, gui') /\ SameWork(g, gui')
    BY <1>2, <1>3, TunnelValues, WithTunnelResult
  <1>5. PageGood(gui', FALSE)
    BY <1>1, <1>2, <1>4, PageStays DEF PageIdle
  <1> QED
    BY <1>1, <1>2, <1>4, <1>5, TunnelValues DEF Good, PageIdle, Free, SameWork

LEMMA EnsureConnectionResult ==
    ASSUME NoneAssumption, Good(gui, FALSE), EnsureConnection
    PROVE  Good(gui', FALSE)
  <1>1. gui \in Guis /\ PageIdle(gui, FALSE)
    BY IdleWhenNotBusy DEF EnsureConnection
  <1> DEFINE Asking(g) == [g EXCEPT !.busy = TRUE, !.onlyWait = TRUE]
             Restarted(g) == UNION {OnTunnelStateChanged(h) :
                   h \in StartTunnelForEndpoint(WithTunnel(Asking(g), Stop(g.tunnel)))}
  <1>s. PICK server \in Servers :
           gui' \in RefreshList([gui EXCEPT !.server = server])
                    \cup Restarted([gui EXCEPT !.server = server])
    BY DEF EnsureConnection, CommitHostPort
  <1>g. PICK g : g = [gui EXCEPT !.server = server]
    OBVIOUS
  <1>2. /\ g \in Guis /\ SamePage(gui, g) /\ SameWork(gui, g) /\ g.tunnel = gui.tunnel
    BY <1>1, <1>g DEF Guis, SamePage, SameWork
  <1>3. PageIdle(g, FALSE)
    BY <1>1, <1>2, SettingResult
  <1>4. CASE gui' \in RefreshList(g)
    BY <1>2, <1>3, <1>4, RefreshListResult
  <1>5. CASE gui' \in Restarted(g)
    <2>k. PICK k : k = Asking(g)
      OBVIOUS
    <2>1. /\ k \in Guis /\ SamePage(g, k) /\ k.busy = TRUE /\ k.onlyWait = TRUE
          /\ k.job = g.job /\ k.deferred = g.deferred /\ k.tunnel = g.tunnel
      BY <1>2, <2>k DEF Guis, SamePage
    <2>h. PICK h \in StartTunnelForEndpoint(WithTunnel(k, Stop(k.tunnel))) :
             gui' \in OnTunnelStateChanged(h)
      BY <1>5, <2>k, <2>1
    <2>2. /\ h \in Guis /\ SamePage(k, h) /\ SameWork(k, h)
          /\ Begun(h.tunnel, TunnelOptions(k))
      BY <2>1, RestartResult
    <2>3. PageGood(h, FALSE)
      BY <1>3, <2>1, <2>2, PageStays DEF PageIdle
    <2>4. /\ h.tunnel.state \in {"starting", "ready", "failed"}
          /\ TunnelGood(h.tunnel, FALSE)
      BY <2>2 DEF Begun
    <2>5. Hears(h, FALSE)
      BY <1>3, <2>1, <2>2, <2>3, <2>4 DEF Hears, Waits, SameWork, PageIdle, Free
    <2> QED
      BY <2>h, <2>2, <2>5, StateChangedResult
  <1> QED
    BY <1>s, <1>g, <1>4, <1>5

-----------------------------------------------------------------------------
(* The signals of the tunnel, as steps *)

\* The probe that has connected is destroyed at last.
LEMMA ProbeGoes ==
    ASSUME NEW g, Good(g, TRUE)
    PROVE  Good([g EXCEPT !.tunnel.probe = FALSE], FALSE)
  <1>t. PICK t : t = [g.tunnel EXCEPT !.probe = FALSE]
    OBVIOUS
  <1>1. g \in Guis /\ g.tunnel \in Tunnels
    BY DEF Good, Guis
  <1>2. /\ t \in Tunnels /\ t.state = g.tunnel.state /\ t.process = g.tunnel.process
        /\ t.external = g.tunnel.external /\ t.options = g.tunnel.options
        /\ t.probe = FALSE
    BY <1>t, <1>1 DEF Tunnels, TunnelTypeOK
  <1>h. PICK h : h = [g EXCEPT !.tunnel = t]
    OBVIOUS
  <1>3. h \in Guis /\ SamePage(g, h) /\ SameWork(g, h) /\ h.tunnel = t
    BY <1>1, <1>2, <1>h DEF Guis, SamePage, SameWork
  <1>4. TunnelGood(g.tunnel, TRUE) => TunnelGood(t, FALSE)
    BY <1>2 DEF TunnelGood, IsReady
  <1>5. /\ \A b : PageGood(g, b) => PageGood(h, b)
        /\ \A r : Suits(g, r) => Suits(h, r)
        /\ \A r : Leads(g, r) => Leads(h, r)
    BY <1>2, <1>3, PageStays DEF Leads
  <1> SUFFICES Good(h, FALSE)
    BY <1>t, <1>h, Zenon
  <1>6. CASE PageIdle(g, TRUE)
    BY <1>3, <1>4, <1>5, <1>6 DEF Good, PageIdle, Free, SameWork
  <1>7. CASE Working(g, TRUE)
    <2>1. /\ PageGood(h, Signing(h.job)) /\ Suits(h, h.job.request)
          /\ h.job.dial = "tunnel" => Leads(h, h.job.request)
      BY <1>3, <1>5, <1>7 DEF Working, SameWork
    <2> QED
      BY <1>3, <1>4, <1>7, <2>1 DEF Good, Working, SameWork, SamePage
  <1>8. CASE Deferring(g, TRUE)
    BY <1>2, <1>3, <1>4, <1>5, <1>8 DEF Good, Deferring, Defers, SameWork
  <1>9. CASE Waiting(g, TRUE)
    BY <1>2, <1>3, <1>4, <1>5, <1>9 DEF Good, Waiting, Waits, SameWork
  <1> QED
    BY <1>6, <1>7, <1>8, <1>9 DEF Good

LEMMA TunnelOf ==
    ASSUME NEW g, Good(g, FALSE)
    PROVE  g \in Guis /\ g.tunnel \in Tunnels /\ TunnelGood(g.tunnel, FALSE)
  BY DEF Good, Guis, PageIdle, Working, Deferring, Defers, Waiting, Waits

LEMMA ProbeConnectsResult ==
    ASSUME NoneAssumption, Good(gui, FALSE), ProbeConnects
    PROVE  Good(gui', FALSE)
  <1>t. PICK t : t = [gui.tunnel EXCEPT !.state = "ready"]
    OBVIOUS
  <1>1. gui \in Guis /\ gui.tunnel \in Tunnels /\ TunnelGood(gui.tunnel, FALSE)
    BY TunnelOf
  <1>2. /\ t \in Tunnels /\ t.state = "ready" /\ t.process = gui.tunnel.process
        /\ t.external = gui.tunnel.external /\ t.options = gui.tunnel.options
    BY <1>t, <1>1 DEF Tunnels, TunnelTypeOK
  <1>3. TunnelGood(t, TRUE)
    BY <1>1, <1>2 DEF TunnelGood, IsReady, ProbeConnects
  <1>g. PICK g \in Signalled(gui, {t}) : gui' = [g EXCEPT !.tunnel.probe = FALSE]
    BY <1>t DEF ProbeConnects
  <1>4. gui.tunnel.process
    BY <1>1 DEF TunnelGood, ProbeConnects
  <1>5. PICK T : T = {t}
    OBVIOUS
  <1>6. \A x \in T : /\ x \in Tunnels /\ TunnelGood(x, TRUE)
                     /\ x.state \in {"starting", "ready", "failed"}
                     /\ x.process => gui.tunnel.process /\ x.options = gui.tunnel.options
    BY <1>2, <1>3, <1>4, <1>5
  <1>7. Good(g, TRUE)
    BY <1>g, <1>1, <1>5, <1>6, SignalledResult
  <1> QED
    BY <1>g, <1>7, ProbeGoes

LEMMA PollResult ==
    ASSUME NoneAssumption, Good(gui, FALSE), PollTimesOut
    PROVE  Good(gui', FALSE)
  <1>1. PICK T : T = {Failed}
    OBVIOUS
  <1>2. gui' \in Signalled(gui, T)
    BY <1>1 DEF PollTimesOut, OnPollTimeout, Fail
  <1>3. gui \in Guis
    BY TunnelOf
  <1>4. \A x \in T : /\ x \in Tunnels /\ TunnelGood(x, FALSE)
                     /\ x.state \in {"starting", "ready", "failed"}
                     /\ x.process => gui.tunnel.process /\ x.options = gui.tunnel.options
    BY <1>1, TunnelValues
  <1> QED
    BY <1>2, <1>3, <1>4, SignalledResult

LEMMA ProcessEndsResult ==
    ASSUME NoneAssumption, Good(gui, FALSE), ProcessEnds
    PROVE  Good(gui', FALSE)
  <1>1. gui \in Guis /\ gui.tunnel \in Tunnels /\ TunnelGood(gui.tunnel, FALSE)
    BY TunnelOf
  <1>b. PICK b \in BOOLEAN : gui' \in Signalled(gui, OnProcessFinished(gui.tunnel, b))
    BY DEF ProcessEnds
  <1>2. ASSUME NEW t \in OnProcessFinished(gui.tunnel, b)
        PROVE  /\ t \in Tunnels /\ TunnelGood(t, FALSE)
               /\ t.state \in {"starting", "ready", "failed"}
               /\ t.process => gui.tunnel.process /\ t.options = gui.tunnel.options
    <2>1. CASE t = Failed
      BY <2>1, TunnelValues
    <2>2. CASE RetriesPort(gui.tunnel, b)
      <3>1. gui.tunnel.retries + 1 \in 0 .. MaxPortRetries
        BY <1>1, <2>2 DEF RetriesPort, Tunnels
      <3>2. gui.tunnel.options \in Options /\ gui.tunnel.process
        BY <1>1 DEF ProcessEnds, TunnelGood
      <3>3. t \in StartInternal(Stopped, gui.tunnel.options, gui.tunnel.retries + 1)
        BY <1>2, <2>2 DEF OnProcessFinished, Stop
      <3>4. Begun(t, gui.tunnel.options)
        BY <3>1, <3>2, <3>3, StartResult
      <3> QED
        BY <3>2, <3>4 DEF Begun
    <2> QED
      BY <1>2, <2>1, <2>2 DEF OnProcessFinished, Fail
  <1> QED
    BY <1>1, <1>b, <1>2, SignalledResult

-----------------------------------------------------------------------------
(* The invariant *)

LEMMA InitGood == ASSUME PageInit PROVE PageInv
  <1>1. \A g \in Guis : g.tunnel = Stopped /\ ~g.busy /\ g.job = Nil
                        /\ g.deferred = Nil /\ ~g.onlyWait /\ ~g.authenticated
                        /\ g.client.token = Nil /\ g.listed = Nil => Good(g, FALSE)
    BY TunnelValues DEF Good, PageIdle, Free, PageGood
  <1>2. Disconnected \in Client /\ Disconnected.token = Nil
    BY DEF Disconnected, Client
  <1>3. gui \in Guis
    BY <1>2, TunnelValues DEF PageInit, Guis, Modes, Route
  <1> QED
    BY <1>1, <1>2, <1>3 DEF PageInit, PageInv

LEMMA StepGood == ASSUME PageInv, [PageNext]_pageVars PROVE PageInv'
  <1>0. NoneAssumption /\ Good(gui, FALSE)
    BY NoneAssumption DEF PageInv
  <1> SUFFICES Good(gui', FALSE)
    BY DEF PageInv
  <1>1. CASE Login \/ RegisterAccount
    BY <1>0, <1>1, SubmitFormResult DEF Login, RegisterAccount
  <1>2. CASE \E kind \in {"list", "upload", "download", "deleteAccount"} : Act(kind)
    BY <1>0, <1>2, ActResult DEF Kinds
  <1>3. CASE RestoreRawArchive
    BY <1>0, <1>3, RestoreRawResult
  <1>4. CASE RestoreRawArchiveWithPassword
    BY <1>0, <1>4, ActResult DEF RestoreRawArchiveWithPassword, Kinds
  <1>5. CASE LogoutLocal
    BY <1>0, <1>5, LogoutResult
  <1>6. CASE ChangeSettings \/ CancelRawRestore
    BY <1>0, <1>6, ChangeResult
  <1>7. CASE EnsureConnection
    BY <1>0, <1>7, EnsureConnectionResult
  <1>8. CASE StopTunnel
    BY <1>0, <1>8, StopTunnelResult
  <1>9. CASE ProbeConnects
    BY <1>0, <1>9, ProbeConnectsResult
  <1>10. CASE PollTimesOut
    BY <1>0, <1>10, PollResult
  <1>11. CASE ProcessEnds
    BY <1>0, <1>11, ProcessEndsResult
  <1>12. CASE RunOperation
    BY <1>0, <1>12, RunResult
  <1>13. CASE OnOperationFinished
    BY <1>0, <1>13, FinishedResult
  <1>14. CASE LinkBreaks
    BY <1>0, <1>14, LinkBreaksResult
  <1>15. CASE UNCHANGED pageVars
    BY <1>0, <1>15 DEF pageVars
  <1> QED
    BY <1>1, <1>2, <1>3, <1>4, <1>5, <1>6, <1>7, <1>8, <1>9, <1>10, <1>11,
       <1>12, <1>13, <1>14, <1>15 DEF PageNext, PageUser

LEMMA ControllerIsGood == PageSpec => []PageInv
  <1>1. PageInit => PageInv
    BY InitGood
  <1>2. PageInv /\ [PageNext]_pageVars => PageInv'
    BY StepGood
  <1> QED
    BY <1>1, <1>2, PTL DEF PageSpec

-----------------------------------------------------------------------------
(* The theorems *)

(* The page's members, the client and the tunnel have their types.         *)
THEOREM PageTypeCorrect == PageSpec => []GuiTypeOK
  <1>1. PageInv => GuiTypeOK
    BY DEF PageInv, Good, Guis, Tunnels, GuiTypeOK
  <1> QED
    BY <1>1, ControllerIsGood, PTL

(* The page is busy exactly while an operation is on its thread, a request *)
(* is deferred until the tunnel is up or the user waits for the tunnel,    *)
(* never two of them; and who waits, waits for a tunnel that is starting.  *)
THEOREM BusyIsOneThing == PageSpec => []BusyMeansAtWork
  <1>1. PageInv => BusyMeansAtWork
    BY DEF PageInv, Good, Guis, BusyMeansAtWork, PageIdle, Free, Working,
           Deferring, Defers, Waiting, Waits
  <1> QED
    BY <1>1, ControllerIsGood, PTL

(* The token of the client, the account shown as logged in and the list    *)
(* shown are one account's, whatever fails, expires, breaks or is changed. *)
THEOREM PageIsOneAccounts == PageSpec => []PageShowsOneAccount
  <1>1. PageInv => PageShowsOneAccount
    BY DEF PageInv, Good, PageShowsOneAccount, PageIdle, Free, Working,
           Deferring, Defers, Waiting, Waits, PageGood
  <1> QED
    BY <1>1, ControllerIsGood, PTL

(* The ssh process is there exactly while the tunnel starts or is ready    *)
(* and its own, and what an operation sends through it arrives at the      *)
(* server the operation was asked of.                                      *)
THEOREM TunnelIsTheRequests == PageSpec => []TunnelsLeadWhereAsked
  <1>1. PageInv => TunnelsLeadWhereAsked
    <2> SUFFICES ASSUME PageInv PROVE TunnelsLeadWhereAsked
      OBVIOUS
    <2>1. gui \in Guis /\ gui.tunnel \in Tunnels /\ TunnelGood(gui.tunnel, FALSE)
      BY TunnelOf DEF PageInv
    <2>2. gui.job # Nil => Working(gui, FALSE)
      BY DEF PageInv, Good, PageIdle, Free, Deferring, Defers, Waiting, Waits
    <2> QED
      BY <2>1, <2>2 DEF TunnelsLeadWhereAsked, TunnelGood, Working, Leads, Tunnels
  <1> QED
    BY <1>1, ControllerIsGood, PTL
==============================================================================
