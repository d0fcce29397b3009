--------------------------- MODULE ScheduleProofs ---------------------------
(***************************************************************************)
(* Proofs about the schedule of the desktop application: the controller    *)
(* between the user and the scheduled backup, and the backup itself with   *)
(* its retention.                                                          *)
(*                                                                         *)
(* The four properties of ScheduleController have one inductive invariant, *)
(* ControllerInv.  Its parts say who has the gate, that the controllers    *)
(* and a round in flight speak of the same repository, that neither copy   *)
(* of the schedule lacks a record the file has, that a scan shows nothing  *)
(* that is gone, and when the timer runs and the lock is kept.             *)
(*                                                                         *)
(* The steps of the scheduled backup are steps over the repository, so     *)
(* what SnapshotRepositoryProofs shows holds under it.  What is its own is *)
(* what the retention relies on while it deletes (Sparing) and what the    *)
(* manifest of the source and the record of the baseline say of archives   *)
(* that may have gone since (SkipInv).                                     *)
(***************************************************************************)
EXTENDS ScheduledBackup, ScheduleController, SnapshotRepositoryProofs

-----------------------------------------------------------------------------
(* The values the variables range over *)

GuiRecords ==
  [gate : Kinds \cup {"kRepositoryChange"}, manual : BOOLEAN, realtime : BOOLEAN,
   shown : Repositories \cup {NoRepository},
   repository : Repositories \cup {NoRepository},
   document : Documents, loaded : BOOLEAN, suspended : BOOLEAN,
   ticking : BOOLEAN, holding : BOOLEAN, busy : BOOLEAN,
   pending : BOOLEAN, forced : BOOLEAN]
Rounds ==
  {NoRound}
    \cup [step : {"submitted"}, force : BOOLEAN, repository : Repositories]
    \cup [step : {"writing", "saving"}, repository : Repositories, document : Documents]
    \cup [step : {"finished"}, invalid : BOOLEAN]
Lists == [of : Repositories \cup {NoRepository}, names : SUBSET Snapshots]
Scans == [of : Repositories \cup {NoRepository}, names : SUBSET Snapshots,
          read : BOOLEAN]
Catalogs == [list : Lists, scan : Scans, again : BOOLEAN]
Files == Documents \cup {Unreadable}
Paths == Repositories \cup {NoRepository}

ControllerTypes ==
  /\ gui \in GuiRecords /\ round \in Rounds /\ catalog \in Catalogs
  /\ file \in Files /\ configFile \in Paths
  /\ stored \in [Repositories -> SUBSET Snapshots] /\ rival \in BOOLEAN

-----------------------------------------------------------------------------
(* The inductive invariant *)

\* Each kind of work has the gate exactly while its busy flag is up, and the
\* thread of an evaluation runs exactly while the schedule is busy.
GoodWork(g, r) ==
  /\ g.gate # "kRepositoryChange"
  /\ g.manual <=> g.gate = "kManual"
  /\ g.realtime <=> g.gate = "kRealtime"
  /\ g.busy <=> g.gate = "kScheduleEvaluation"
  /\ g.busy <=> r.step # "none"

\* Both controllers, and the round in flight, are about the repository that
\* config.json names.
GoodPlace(g, r, c) ==
  /\ g.shown = c /\ g.repository = c
  /\ r.step \in {"submitted", "writing", "saving"} =>
       r.repository = c /\ c \in Repositories

\* d has every record of the file whose snapshot is there.
Covers(d, f, there) == f # Unreadable => f.managed \cap there \subseteq d.managed
\* Whoever may save the schedule next has a copy that covers the file: the
\* controller, or the round in flight.
GoodRecords(g, r, f, c, s) ==
  c \in Repositories =>
    /\ g.loaded /\ ~g.busy => Covers(g.document, f, s[c])
    /\ r.step \in {"writing", "saving"} => Covers(r.document, f, s[c])

\* A scan in flight has read no snapshot that has gone since.
GoodScan(c, s) ==
  /\ c.scan # NoScan => c.scan.of \in Repositories
  /\ c.scan.read => c.scan # NoScan /\ c.scan.names \subseteq s[c.scan.of]
GoodList(c, g, s) ==
  /\ c.list.of \in {NoRepository, g.shown}
  /\ c.scan = NoScan /\ c.list.of # NoRepository
       => c.list.names \subseteq s[g.shown]

Wants(g) == g.document.enabled /\ g.loaded /\ ~g.suspended
GoodLock(g, locked) ==
  /\ Wants(g) => g.ticking
  /\ g.holding => Wants(g) /\ ~locked

ControllerInv ==
  /\ ControllerTypes
  /\ GoodWork(gui, round)
  /\ GoodPlace(gui, round, configFile)
  /\ GoodRecords(gui, round, file, configFile, stored)
  /\ GoodScan(catalog, stored) /\ GoodList(catalog, gui, stored)
  /\ GoodLock(gui, rival)

-----------------------------------------------------------------------------
(* What the handlers do to the members of the controllers *)

SameWork(g, h) ==
  /\ h.gate = g.gate /\ h.manual = g.manual /\ h.realtime = g.realtime
  /\ h.busy = g.busy /\ h.shown = g.shown /\ h.pending = g.pending
SameData(g, h) ==
  h.repository = g.repository /\ h.document = g.document /\ h.loaded = g.loaded
SameLock(g, h) ==
  h.suspended = g.suspended /\ h.ticking = g.ticking /\ h.holding = g.holding

LEMMA ConfigInvalidResult ==
  ASSUME NEW g \in GuiRecords, NEW b \in BOOLEAN
  PROVE  /\ ConfigInvalid(g, b) \in GuiRecords
         /\ SameWork(g, ConfigInvalid(g, b)) /\ SameData(g, ConfigInvalid(g, b))
         /\ ConfigInvalid(g, b).suspended <=> b
         /\ ConfigInvalid(g, b).holding => g.holding
         /\ b /\ ~g.suspended => ~ConfigInvalid(g, b).holding
  <1>1. CASE b /\ g.suspended
    BY <1>1 DEF ConfigInvalid, SameWork, SameData
  <1>2. CASE b /\ ~g.suspended
    BY <1>2 DEF ConfigInvalid, GuiRecords, SameWork, SameData
  <1>3. CASE ~b
    BY <1>3 DEF ConfigInvalid, GuiRecords, SameWork, SameData
  <1> QED
    BY <1>1, <1>2, <1>3

LEMMA LoadedResult ==
  ASSUME NEW g \in GuiRecords, NEW f \in Files, NEW r \in Paths
  PROVE  LET h == Loaded(g, f, r)
         IN  /\ h \in GuiRecords /\ SameWork(g, h)
             /\ h.repository = r
             /\ h.loaded <=> f # Unreadable
             /\ h.suspended <=> f = Unreadable
             /\ h.loaded => h.document = f
             /\ h.holding => g.holding
             /\ f = Unreadable /\ ~g.suspended => ~h.holding
  <1> DEFINE d == IF f # Unreadable THEN f ELSE NoDocument
             k == [g EXCEPT !.repository = r, !.loaded = f # Unreadable,
                            !.document = d]
  <1>1. d \in Documents /\ (f # Unreadable => d = f)
    BY DEF Files, Documents, NoDocument
  <1> HIDE DEF d
  <1>2. /\ k \in GuiRecords /\ SameWork(g, k)
        /\ k.repository = r /\ k.loaded = (f # Unreadable) /\ k.document = d
        /\ k.holding = g.holding /\ k.suspended = g.suspended
    BY <1>1 DEF GuiRecords, Paths, SameWork
  <1>3. Loaded(g, f, r) = ConfigInvalid(k, ~(f # Unreadable))
    BY DEF Loaded, d
  <1> HIDE DEF k
  <1> PICK b \in BOOLEAN : b <=> ~(f # Unreadable)
    OBVIOUS
  <1>4. Loaded(g, f, r) = ConfigInvalid(k, b)
    BY <1>3
  <1> PICK h : h = ConfigInvalid(k, b)
    OBVIOUS
  <1>5. /\ h \in GuiRecords /\ SameWork(k, h) /\ SameData(k, h)
        /\ h.suspended <=> b
        /\ h.holding => k.holding
        /\ b /\ ~k.suspended => ~h.holding
    BY <1>2, ConfigInvalidResult
  <1> QED
    BY <1>1, <1>2, <1>4, <1>5 DEF SameWork, SameData

LEMMA RunnerLockResult ==
  ASSUME NEW g \in GuiRecords, rival \in BOOLEAN, g.holding => ~rival
  PROVE  LET h == RunnerLock(g)
         IN  /\ h \in GuiRecords /\ SameWork(g, h) /\ SameData(g, h)
             /\ h.suspended = g.suspended
             /\ GoodLock(h, rival)
  BY DEF RunnerLock, GuiRecords, SameWork, SameData, GoodLock, Wants

LEMMA SubmittedResult ==
  ASSUME NEW g \in GuiRecords, NEW force \in BOOLEAN
  PROVE  LET h == Submitted(g, force)
         IN  /\ h \in GuiRecords /\ SameData(g, h) /\ SameLock(g, h)
             /\ h.shown = g.shown /\ h.manual = g.manual /\ h.realtime = g.realtime
             /\ IF MaySubmit(g) THEN h.gate = "kScheduleEvaluation" /\ h.busy
                ELSE h.gate = g.gate /\ h.busy = g.busy
  BY DEF Submitted, GuiRecords, SameData, SameLock, Kinds

LEMMA DrainedResult ==
  ASSUME NEW g \in GuiRecords
  PROVE  LET h == Drained(g)
         IN  /\ h \in GuiRecords /\ SameData(g, h) /\ SameLock(g, h)
             /\ h.shown = g.shown /\ h.manual = g.manual /\ h.realtime = g.realtime
             /\ IF MayDrain(g) /\ MaySubmit(g)
                THEN h.gate = "kScheduleEvaluation" /\ h.busy
                ELSE h.gate = g.gate /\ h.busy = g.busy
  <1> DEFINE k == [g EXCEPT !.pending = FALSE, !.forced = FALSE]
  <1>1. /\ k \in GuiRecords /\ SameData(g, k) /\ SameLock(g, k)
        /\ k.shown = g.shown /\ k.manual = g.manual /\ k.realtime = g.realtime
        /\ k.gate = g.gate /\ k.busy = g.busy /\ k.repository = g.repository
    BY DEF GuiRecords, SameData, SameLock
  <1>2. g.forced \in BOOLEAN
    BY DEF GuiRecords
  <1>3. Drained(g) = IF MayDrain(g) THEN Submitted(k, g.forced) ELSE g
    BY DEF Drained
  <1>4. MaySubmit(k) = MaySubmit(g)
    BY <1>1 DEF MaySubmit
  <1> HIDE DEF k
  <1>5. CASE MayDrain(g)
    <2> PICK h : h = Submitted(k, g.forced)
      OBVIOUS
    <2>1. /\ h \in GuiRecords /\ SameData(k, h) /\ SameLock(k, h)
          /\ h.shown = k.shown /\ h.manual = k.manual /\ h.realtime = k.realtime
          /\ IF MaySubmit(k) THEN h.gate = "kScheduleEvaluation" /\ h.busy
             ELSE h.gate = k.gate /\ h.busy = k.busy
      BY <1>1, <1>2, SubmittedResult
    <2>2. Drained(g) = h
      BY <1>3, <1>5
    <2> QED
      BY <1>1, <1>4, <1>5, <2>1, <2>2 DEF SameData, SameLock
  <1>6. CASE ~MayDrain(g)
    BY <1>3, <1>6 DEF SameData, SameLock
  <1> QED
    BY <1>5, <1>6

LEMMA RoundOfResult ==
  ASSUME NEW g \in GuiRecords, NEW force \in BOOLEAN, MaySubmit(g)
  PROVE  /\ RoundOf(g, force) \in Rounds
         /\ RoundOf(g, force).step = "submitted"
         /\ RoundOf(g, force).repository = g.repository
         /\ g.repository \in Repositories
  BY DEF RoundOf, MaySubmit, Rounds, GuiRecords

LEMMA DrainedRoundResult ==
  ASSUME NEW g \in GuiRecords, NEW idle \in Rounds
  PROVE  LET r == DrainedRound(g, idle)
         IN  IF MayDrain(g) /\ MaySubmit(g)
             THEN /\ r \in Rounds /\ r.step = "submitted"
                  /\ r.repository = g.repository /\ g.repository \in Repositories
             ELSE r = idle
  <1>1. g.forced \in BOOLEAN
    BY DEF GuiRecords
  <1> QED
    BY <1>1, RoundOfResult DEF DrainedRound

-----------------------------------------------------------------------------
(* The steps *)

\* What a step that leaves the disk and the list alone has to show.
LEMMA ControllersOnly ==
  ASSUME ControllerInv, UNCHANGED <<file, configFile, stored, rival, catalog>>,
         gui' \in GuiRecords, round' \in Rounds,
         gui'.shown = gui.shown,
         GoodWork(gui', round'), GoodPlace(gui', round', configFile),
         GoodRecords(gui', round', file, configFile, stored),
         GoodLock(gui', rival)
  PROVE  ControllerInv'
  BY DEF ControllerInv, ControllerTypes, GoodWork, GoodPlace, GoodRecords, Covers,
         GoodScan, GoodList, GoodLock, Wants

\* An evaluation is submitted, or remembered.
LEMMA SubmitStep ==
  ASSUME ControllerInv, NEW g \in GuiRecords, NEW force \in BOOLEAN,
         SameWork(gui, g), SameData(gui, g), GoodLock(g, rival),
         gui' = Submitted(g, force), round' = RoundOf(g, force),
         UNCHANGED <<file, configFile, stored, rival, catalog>>
  PROVE  ControllerInv'
  <1> PICK h : h = Submitted(g, force)
    OBVIOUS
  <1>1. /\ h \in GuiRecords /\ SameData(g, h) /\ SameLock(g, h)
        /\ h.shown = g.shown /\ h.manual = g.manual /\ h.realtime = g.realtime
        /\ IF MaySubmit(g) THEN h.gate = "kScheduleEvaluation" /\ h.busy
           ELSE h.gate = g.gate /\ h.busy = g.busy
    BY SubmittedResult
  <1>2. GoodLock(h, rival)
    BY <1>1 DEF GoodLock, Wants, SameData, SameLock
  <1> USE DEF ControllerInv
  <1>3. CASE MaySubmit(g)
    <2> PICK r : r = RoundOf(g, force)
      OBVIOUS
    <2>1. /\ r \in Rounds /\ r.step = "submitted"
          /\ r.repository = g.repository /\ g.repository \in Repositories
      BY <1>3, RoundOfResult
    <2>2. g.gate = "kNone" /\ ~g.manual
      BY <1>3 DEF MaySubmit
    <2>3. GoodWork(h, r)
      BY <1>1, <1>3, <2>1, <2>2 DEF GoodWork, SameWork
    <2>4. GoodPlace(h, r, configFile)
      BY <1>1, <2>1 DEF GoodPlace, SameWork, SameData
    <2>5. GoodRecords(h, r, file, configFile, stored)
      BY <1>1, <1>3, <2>1 DEF GoodRecords
    <2> QED
      BY <1>1, <1>2, <2>1, <2>3, <2>4, <2>5, ControllersOnly DEF SameWork
  <1>4. CASE ~MaySubmit(g)
    <2>1. RoundOf(g, force) = round
      BY <1>4 DEF RoundOf
    <2>2. GoodWork(h, round)
      BY <1>1, <1>4 DEF GoodWork, SameWork
    <2>3. GoodPlace(h, round, configFile)
      BY <1>1 DEF GoodPlace, SameWork, SameData
    <2>4. GoodRecords(h, round, file, configFile, stored)
      BY <1>1, <1>4 DEF GoodRecords, SameWork, SameData
    <2> QED
      BY <1>1, <1>2, <2>1, <2>2, <2>3, <2>4, ControllersOnly
      DEF SameWork, ControllerTypes
  <1> QED
    BY <1>3, <1>4

LEMMA TickStep ==
  ASSUME ControllerInv, Tick
  PROVE  ControllerInv'
  <1> PICK g : g = IF gui.holding THEN gui ELSE RunnerLock(gui)
    OBVIOUS
  <1>1. g \in GuiRecords /\ SameWork(gui, g) /\ SameData(gui, g) /\ GoodLock(g, rival)
    <2>1. CASE gui.holding
      BY <2>1 DEF ControllerInv, ControllerTypes, SameWork, SameData
    <2>2. CASE ~gui.holding
      BY <2>2, RunnerLockResult DEF ControllerInv, ControllerTypes
    <2> QED
      BY <2>1, <2>2
  <1>2. CASE g.holding /\ g.document.due
    BY <1>1, <1>2, SubmitStep DEF Tick
  <1>3. CASE ~(g.holding /\ g.document.due)
    <2>1. gui' = g /\ round' = round /\ UNCHANGED <<file, configFile, stored, rival, catalog>>
      BY <1>3 DEF Tick
    <2>2. /\ GoodWork(g, round) /\ GoodPlace(g, round, configFile)
          /\ GoodRecords(g, round, file, configFile, stored)
      BY <1>1 DEF ControllerInv, GoodWork, GoodPlace, GoodRecords, SameWork, SameData
    <2> QED
      BY <1>1, <2>1, <2>2, ControllersOnly
      DEF ControllerInv, ControllerTypes, SameWork
  <1> QED
    BY <1>2, <1>3

LEMMA RunNowStep ==
  ASSUME ControllerInv, RunNow
  PROVE  ControllerInv'
  BY SubmitStep DEF RunNow, ControllerInv, ControllerTypes, SameWork, SameData

\* What waited for the gate may start now, and the invariant does not notice.
LEMMA DrainKeeps ==
  ASSUME NEW g \in GuiRecords, NEW i \in Rounds, NEW f, NEW c, NEW s, NEW locked,
         GoodWork(g, i), GoodPlace(g, i, c), GoodRecords(g, i, f, c, s),
         GoodLock(g, locked)
  PROVE  LET h == Drained(g)
             r == DrainedRound(g, i)
         IN  /\ h \in GuiRecords /\ r \in Rounds /\ h.shown = g.shown
             /\ GoodWork(h, r) /\ GoodPlace(h, r, c) /\ GoodRecords(h, r, f, c, s)
             /\ GoodLock(h, locked)
  <1> PICK h : h = Drained(g)
    OBVIOUS
  <1> PICK r : r = DrainedRound(g, i)
    OBVIOUS
  <1>1. /\ h \in GuiRecords /\ SameData(g, h) /\ SameLock(g, h)
        /\ h.shown = g.shown /\ h.manual = g.manual /\ h.realtime = g.realtime
        /\ IF MayDrain(g) /\ MaySubmit(g)
           THEN h.gate = "kScheduleEvaluation" /\ h.busy
           ELSE h.gate = g.gate /\ h.busy = g.busy
    BY DrainedResult
  <1>2. IF MayDrain(g) /\ MaySubmit(g)
        THEN /\ r \in Rounds /\ r.step = "submitted"
             /\ r.repository = g.repository /\ g.repository \in Repositories
        ELSE r = i
    BY DrainedRoundResult
  <1>3. GoodLock(h, locked)
    BY <1>1 DEF GoodLock, Wants, SameData, SameLock
  <1>4. CASE MayDrain(g) /\ MaySubmit(g)
    <2>1. g.gate = "kNone" /\ ~g.manual
      BY <1>4 DEF MaySubmit
    <2>2. GoodWork(h, r)
      BY <1>1, <1>2, <1>4, <2>1 DEF GoodWork
    <2>3. GoodPlace(h, r, c)
      BY <1>1, <1>2, <1>4 DEF GoodPlace, SameData
    <2>4. GoodRecords(h, r, f, c, s)
      BY <1>1, <1>2, <1>4 DEF GoodRecords
    <2> QED
      BY <1>1, <1>2, <1>3, <1>4, <2>2, <2>3, <2>4
  <1>5. CASE ~(MayDrain(g) /\ MaySubmit(g))
    <2>1. r = i
      BY <1>2, <1>5
    <2>2. GoodWork(h, i) /\ GoodPlace(h, i, c) /\ GoodRecords(h, i, f, c, s)
      BY <1>1, <1>5 DEF GoodWork, GoodPlace, GoodRecords, SameData
    <2> QED
      BY <1>1, <1>3, <2>1, <2>2
  <1> QED
    BY <1>4, <1>5

LEMMA SaveConfigStep ==
  ASSUME ControllerInv, NEW enable \in BOOLEAN, SaveConfig(enable)
  PROVE  ControllerInv'
  <1> PICK next : next = [gui.document EXCEPT
                            !.enabled = enable, !.valid = TRUE,
                            !.due = IF enable /\ ~gui.document.enabled THEN FALSE ELSE @]
    OBVIOUS
  <1>1. gui \in GuiRecords /\ gui.document \in Documents /\ rival \in BOOLEAN
    BY DEF ControllerInv, ControllerTypes, GuiRecords
  <1>2. next \in Documents /\ next.managed = gui.document.managed
    BY <1>1 DEF Documents
  <1> PICK k : k = [gui EXCEPT !.document = next]
    OBVIOUS
  <1>3. /\ k \in GuiRecords /\ SameWork(gui, k) /\ k.document = next
        /\ k.repository = gui.repository /\ k.loaded = gui.loaded
        /\ k.holding = gui.holding
    BY <1>1, <1>2 DEF GuiRecords, SameWork
  <1> PICK v : v = ConfigInvalid(k, FALSE)
    OBVIOUS
  <1>4. v \in GuiRecords /\ SameWork(k, v) /\ SameData(k, v) /\ (v.holding => k.holding)
    BY <1>3, ConfigInvalidResult
  <1>5. v.holding => ~rival
    BY <1>3, <1>4 DEF ControllerInv, GoodLock
  <1> PICK h : h = RunnerLock(v)
    OBVIOUS
  <1>6. h \in GuiRecords /\ SameWork(v, h) /\ SameData(v, h) /\ GoodLock(h, rival)
    BY <1>1, <1>4, <1>5, RunnerLockResult
  <1>7. /\ gui' = h /\ file' = next /\ MaySaveConfig(gui)
        /\ UNCHANGED <<round, configFile, stored, rival, catalog>>
    BY DEF SaveConfig
  <1>8. SameWork(gui, h) /\ h.repository = gui.repository /\ h.document = next
    BY ONLY <1>3, <1>4, <1>6 DEF SameWork, SameData
  <1>9. GoodWork(h, round) /\ GoodPlace(h, round, configFile)
    BY <1>8 DEF ControllerInv, GoodWork, GoodPlace, SameWork
  <1>10. GoodRecords(h, round, next, configFile, stored)
    BY <1>7, <1>8 DEF ControllerInv, GoodRecords, GoodWork, Covers, MaySaveConfig
  <1> QED
    BY <1>2, <1>6, <1>7, <1>8, <1>9, <1>10
    DEF ControllerInv, ControllerTypes, Files, GoodScan, GoodList, SameWork

LEMMA EvaluationFinishedStep ==
  ASSUME ControllerInv, EvaluationFinished
  PROVE  ControllerInv'
  <1> USE DEF ControllerInv
  <1>i. PICK idle : idle = [gui EXCEPT !.gate = "kNone", !.busy = FALSE]
    OBVIOUS
  <1>1. /\ gui \in GuiRecords /\ rival \in BOOLEAN /\ file \in Files
        /\ configFile \in Paths
    BY DEF ControllerTypes
  <1>2. /\ idle \in GuiRecords /\ idle.gate = "kNone" /\ ~idle.busy
        /\ idle.manual = gui.manual /\ idle.realtime = gui.realtime
        /\ idle.shown = gui.shown /\ idle.holding = gui.holding
        /\ idle.suspended = gui.suspended
    BY <1>i, <1>1 DEF GuiRecords, Kinds
  <1>3. ~gui.manual /\ ~gui.realtime /\ round.step = "finished"
    BY DEF EvaluationFinished, GoodWork
  <1>d. PICK d : d = Loaded(idle, file, configFile)
    OBVIOUS
  <1>4. /\ d \in GuiRecords /\ SameWork(idle, d)
        /\ d.repository = configFile
        /\ d.loaded <=> file # Unreadable
        /\ d.suspended <=> file = Unreadable
        /\ d.loaded => d.document = file
        /\ d.holding => idle.holding
        /\ file = Unreadable /\ ~idle.suspended => ~d.holding
    BY ONLY <1>d, <1>1, <1>2, LoadedResult
  <1>g. PICK g : g = IF round.invalid THEN ConfigInvalid(d, TRUE) ELSE RunnerLock(d)
    OBVIOUS
  <1>5. d.holding => ~rival
    BY <1>2, <1>4 DEF GoodLock
  <1>6. g \in GuiRecords /\ SameWork(d, g) /\ SameData(d, g) /\ GoodLock(g, rival)
    <2>1. CASE round.invalid
      <3>1. /\ g \in GuiRecords /\ SameWork(d, g) /\ SameData(d, g)
            /\ g.suspended /\ (g.holding => d.holding)
            /\ ~d.suspended => ~g.holding
        BY <1>g, <1>4, <2>1, ConfigInvalidResult
      <3>2. d.suspended => ~d.holding
        BY <1>2, <1>4 DEF GoodLock, Wants
      <3> QED
        BY <3>1, <3>2 DEF GoodLock, Wants
    <2>2. CASE ~round.invalid
      BY ONLY <1>g, <1>1, <1>4, <1>5, <2>2, RunnerLockResult
    <2> QED
      BY <2>1, <2>2
  <1>7. /\ g.gate = "kNone" /\ ~g.busy /\ ~g.manual /\ ~g.realtime
        /\ g.shown = configFile /\ g.repository = configFile
        /\ g.loaded => file # Unreadable /\ g.document = file
    <2>1. gui.shown = configFile
      BY DEF GoodPlace
    <2> QED
      BY ONLY <1>2, <1>3, <1>4, <1>6, <2>1 DEF SameWork, SameData
  <1>8. /\ GoodWork(g, NoRound) /\ GoodPlace(g, NoRound, configFile)
        /\ GoodRecords(g, NoRound, file, configFile, stored)
    BY <1>7 DEF GoodWork, GoodPlace, GoodRecords, Covers, NoRound
  <1>9. NoRound \in Rounds
    BY DEF Rounds
  <1>10. /\ gui' = (IF g.suspended THEN g ELSE Drained(g))
         /\ round' = (IF g.suspended THEN NoRound ELSE DrainedRound(g, NoRound))
         /\ UNCHANGED <<file, configFile, stored, rival, catalog>>
    BY ONLY <1>i, <1>d, <1>g, EvaluationFinished DEF EvaluationFinished
  <1>11. /\ gui' \in GuiRecords /\ round' \in Rounds /\ gui'.shown = gui.shown
         /\ GoodWork(gui', round') /\ GoodPlace(gui', round', configFile)
         /\ GoodRecords(gui', round', file, configFile, stored)
         /\ GoodLock(gui', rival)
    <2>1. gui.shown = configFile
      BY DEF GoodPlace
    <2>2. CASE g.suspended
      BY <1>6, <1>7, <1>8, <1>9, <1>10, <2>1, <2>2
    <2>3. CASE ~g.suspended
      BY <1>6, <1>7, <1>8, <1>9, <1>10, <2>1, <2>3, DrainKeeps
    <2> QED
      BY <2>2, <2>3
  <1> QED
    BY <1>10, <1>11, ControllersOnly

LEMMA EvaluationLoadsStep ==
  ASSUME ControllerInv, EvaluationLoads
  PROVE  ControllerInv'
  <1> USE DEF ControllerInv
  <1>1. /\ round \in Rounds /\ gui \in GuiRecords /\ file \in Files
        /\ stored \in [Repositories -> SUBSET Snapshots]
        /\ UNCHANGED <<gui, file, configFile, stored, rival, catalog>>
        /\ round.step = "submitted"
    BY DEF ControllerTypes, EvaluationLoads
  <1>2. /\ round.repository \in Repositories /\ round.repository = configFile
        /\ gui.busy
    BY <1>1 DEF GoodPlace, GoodWork
  <1>3. /\ round' \in Rounds /\ round'.step # "none"
        /\ round'.step \in {"submitted", "writing", "saving"} =>
             round'.repository = configFile
        /\ round'.step \in {"writing", "saving"} =>
             Covers(round'.document, file, stored[configFile])
    <2>1. CASE \E b \in BOOLEAN : Finish(b)
      BY <2>1 DEF Finish, Rounds
    <2>2. CASE ~\E b \in BOOLEAN : Finish(b)
      <3> DEFINE d == [Reconciled(file, stored[round.repository]) EXCEPT !.due = FALSE]
      <3>1. /\ file \in Documents
            /\ round' = [step |-> "writing", repository |-> round.repository, document |-> d]
        BY <1>1, <2>2 DEF EvaluationLoads, Files
      <3>2. d \in Documents /\ d.managed = file.managed \cap stored[configFile]
        BY <1>1, <1>2, <3>1 DEF Documents, Reconciled
      <3> HIDE DEF d
      <3> QED
        BY <1>2, <3>1, <3>2 DEF Rounds, Covers
    <2> QED
      BY <2>1, <2>2
  <1>4. /\ GoodWork(gui, round') /\ GoodPlace(gui, round', configFile)
        /\ GoodRecords(gui, round', file, configFile, stored)
    BY <1>2, <1>3 DEF GoodWork, GoodPlace, GoodRecords
  <1> QED
    BY <1>1, <1>3, <1>4, ControllersOnly

LEMMA EvaluationWritesStep ==
  ASSUME ControllerInv, EvaluationWrites
  PROVE  ControllerInv'
  <1> USE DEF ControllerInv
  <1>1. /\ round \in Rounds /\ round.step = "writing" /\ gui \in GuiRecords
        /\ stored \in [Repositories -> SUBSET Snapshots]
        /\ UNCHANGED <<gui, file, configFile, rival, catalog>>
    BY DEF ControllerTypes, EvaluationWrites
  <1>2. /\ round \in [step : {"writing", "saving"}, repository : Repositories,
                       document : Documents]
        /\ round.repository = configFile /\ configFile \in Repositories
    BY <1>1 DEF GoodPlace, Rounds, NoRound
  <1>3. gui.busy /\ Covers(round.document, file, stored[configFile])
    BY <1>1, <1>2 DEF GoodWork, GoodRecords
  <1>4. /\ round' \in [step : {"saving"}, repository : Repositories,
                         document : Documents]
        /\ round'.repository = configFile
        /\ stored' \in [Repositories -> SUBSET Snapshots]
        /\ \A r \in Repositories : stored[r] \subseteq stored'[r]
        /\ Covers(round'.document, file, stored'[configFile])
    <2>1. CASE round' = [round EXCEPT !.step = "saving"] /\ UNCHANGED stored
      BY <1>1, <1>2, <1>3, <2>1
    <2>2. CASE \E n \in Snapshots :
                 /\ stored' = [stored EXCEPT ![round.repository] = @ \cup {n}]
                 /\ round' = [round EXCEPT !.step = "saving",
                                           !.document.managed = @ \cup {n}]
      <3>n. PICK n \in Snapshots :
                 /\ stored' = [stored EXCEPT ![round.repository] = @ \cup {n}]
                 /\ round' = [round EXCEPT !.step = "saving",
                                           !.document.managed = @ \cup {n}]
        BY <2>2
      <3> PICK d : d = [round.document EXCEPT !.managed = @ \cup {n}]
        OBVIOUS
      <3>1. d \in Documents /\ d.managed = round.document.managed \cup {n}
        BY <1>2 DEF Documents
      <3>2. round' = [round EXCEPT !.step = "saving", !.document = d]
        BY <1>2, <3>n
      <3>3. /\ round' \in [step : {"saving"}, repository : Repositories,
                             document : Documents]
            /\ round'.repository = configFile /\ round'.document = d
        BY ONLY <1>2, <3>1, <3>2
      <3>4. stored'[configFile] = stored[configFile] \cup {n}
        BY <1>1, <1>2, <3>n
      <3> QED
        BY <1>1, <1>2, <1>3, <3>n, <3>1, <3>3, <3>4 DEF Covers
    <2> QED
      BY <1>1, <2>1, <2>2 DEF EvaluationWrites
  <1>5. round' \in Rounds /\ round'.step = "saving"
    BY <1>4 DEF Rounds
  <1>6. /\ GoodWork(gui, round') /\ GoodPlace(gui, round', configFile)
        /\ GoodRecords(gui, round', file, configFile, stored')
    BY <1>2, <1>3, <1>4, <1>5 DEF GoodWork, GoodPlace, GoodRecords
  <1>7. GoodScan(catalog, stored') /\ GoodList(catalog, gui, stored')
    BY <1>2, <1>4 DEF GoodScan, GoodList, GoodPlace
  <1> QED
    BY <1>1, <1>4, <1>5, <1>6, <1>7
    DEF ControllerTypes, GoodWork, GoodPlace, GoodRecords, Covers, GoodScan,
        GoodList, GoodLock, Wants

LEMMA EvaluationSavesStep ==
  ASSUME ControllerInv, EvaluationSaves
  PROVE  ControllerInv'
  <1> USE DEF ControllerInv
  <1>1. /\ round \in Rounds /\ round.step = "saving"
        /\ UNCHANGED <<gui, configFile, stored, rival, catalog>>
        /\ file' \in {file, round.document}
        /\ round' = [step |-> "finished", invalid |-> FALSE]
    BY DEF ControllerTypes, EvaluationSaves, Finish
  <1>2. round.document \in Documents /\ gui.busy
    BY <1>1 DEF Rounds, NoRound, GoodWork
  <1>3. file' \in Files /\ round' \in Rounds
    BY <1>1, <1>2 DEF Files, Rounds, ControllerTypes
  <1>4. /\ GoodWork(gui, round') /\ GoodPlace(gui, round', configFile)
        /\ GoodRecords(gui, round', file', configFile, stored)
    BY <1>1, <1>2 DEF GoodWork, GoodPlace, GoodRecords
  <1> QED
    BY <1>1, <1>3, <1>4
    DEF ControllerTypes, GoodWork, GoodPlace, GoodRecords, Covers, GoodScan,
        GoodList, GoodLock, Wants

LEMMA EvaluationStep ==
  ASSUME ControllerInv, Evaluation
  PROVE  ControllerInv'
  BY EvaluationLoadsStep, EvaluationWritesStep, EvaluationSavesStep DEF Evaluation

\* A refreshed list is empty, or will be read again.
LEMMA RefreshedResult ==
  ASSUME NEW c \in Catalogs, NEW r \in Paths, NEW s, ControllerAssumption,
         GoodScan(c, s), c.list.of \in {NoRepository, r}
  PROVE  LET h == Refreshed(c, r)
         IN  /\ h \in Catalogs /\ GoodScan(h, s)
             /\ h.list.of \in {NoRepository, r}
             /\ h.scan = NoScan => h.list.of = NoRepository
  <1>1. /\ NothingShown \in Lists /\ NothingShown.of = NoRepository
        /\ ScanOf(r) \in Scans /\ ScanOf(r).of = r /\ ~ScanOf(r).read
        /\ NoScan.of = NoRepository
    BY DEF NothingShown, ScanOf, NoScan, Lists, Scans, Paths
  <1>2. CASE r = NoRepository
    BY <1>1, <1>2 DEF Refreshed, Catalogs, GoodScan
  <1>3. CASE r # NoRepository /\ c.scan # NoScan
    BY <1>3 DEF Refreshed, Catalogs, GoodScan
  <1>4. CASE r # NoRepository /\ c.scan = NoScan
    BY <1>1, <1>4 DEF Refreshed, Catalogs, GoodScan, Paths
  <1> QED
    BY <1>2, <1>3, <1>4

LEMMA StartManualStep ==
  ASSUME ControllerInv, StartManual
  PROVE  ControllerInv'
  <1>1. /\ gui \in GuiRecords /\ round \in Rounds /\ gui.gate = "kNone"
        /\ UNCHANGED <<round, file, configFile, stored, rival, catalog>>
    BY DEF ControllerInv, ControllerTypes, StartManual
  <1> PICK g : g = [gui EXCEPT !.gate = "kManual", !.manual = TRUE]
    OBVIOUS
  <1>2. /\ g \in GuiRecords /\ g.gate = "kManual" /\ g.manual
        /\ g.realtime = gui.realtime /\ g.busy = gui.busy /\ g.shown = gui.shown
        /\ SameData(gui, g) /\ SameLock(gui, g)
    BY <1>1 DEF GuiRecords, Kinds, SameData, SameLock
  <1>3. /\ GoodWork(g, round) /\ GoodPlace(g, round, configFile)
        /\ GoodRecords(g, round, file, configFile, stored) /\ GoodLock(g, rival)
    BY <1>1, <1>2
    DEF ControllerInv, GoodWork, GoodPlace, GoodRecords, GoodLock, Wants, SameData,
        SameLock
  <1>4. gui' = g
    BY DEF StartManual
  <1> QED
    BY <1>1, <1>2, <1>3, <1>4, ControllersOnly

LEMMA ManualEndsStep ==
  ASSUME ControllerInv, ManualEnds, ControllerAssumption
  PROVE  ControllerInv'
  <1> USE DEF ControllerInv
  <1>1. /\ gui \in GuiRecords /\ round \in Rounds /\ gui.manual
        /\ catalog \in Catalogs /\ gui.shown \in Paths
        /\ UNCHANGED <<file, configFile, stored, rival>>
    BY DEF ControllerTypes, ManualEnds, GuiRecords, Paths
  <1>g. PICK g : g = [gui EXCEPT !.gate = "kNone", !.manual = FALSE]
    OBVIOUS
  <1>2. /\ g \in GuiRecords /\ g.gate = "kNone" /\ ~g.manual
        /\ g.realtime = gui.realtime /\ g.busy = gui.busy /\ g.shown = gui.shown
        /\ SameData(gui, g) /\ SameLock(gui, g)
    BY <1>g, <1>1 DEF GuiRecords, Kinds, SameData, SameLock
  <1>3. /\ GoodWork(g, round) /\ GoodPlace(g, round, configFile)
        /\ GoodRecords(g, round, file, configFile, stored) /\ GoodLock(g, rival)
    BY <1>1, <1>2
    DEF GoodWork, GoodPlace, GoodRecords, GoodLock, Wants, SameData, SameLock
  <1>4. gui' = Drained(g) /\ round' = DrainedRound(g, round)
    BY <1>g DEF ManualEnds
  <1>5. /\ gui' \in GuiRecords /\ round' \in Rounds /\ gui'.shown = gui.shown
        /\ GoodWork(gui', round') /\ GoodPlace(gui', round', configFile)
        /\ GoodRecords(gui', round', file, configFile, stored)
        /\ GoodLock(gui', rival)
    BY <1>1, <1>2, <1>3, <1>4, DrainKeeps
  <1>6. /\ catalog' \in Catalogs /\ GoodScan(catalog', stored)
        /\ GoodList(catalog', gui, stored)
    <2>1. CASE catalog' = catalog
      BY <1>1, <2>1
    <2>2. CASE catalog' = Refreshed(catalog, gui.shown)
      BY <1>1, <2>2, RefreshedResult DEF GoodList
    <2> QED
      BY <2>1, <2>2 DEF ManualEnds
  <1> QED
    BY <1>1, <1>5, <1>6
    DEF ControllerTypes, GoodWork, GoodPlace, GoodRecords, Covers, GoodScan,
        GoodList, GoodLock, Wants

LEMMA SaveRepositoryPathStep ==
  ASSUME ControllerInv, ControllerAssumption, NEW path \in Repositories,
         SaveRepositoryPath(path)
  PROVE  ControllerInv'
  <1> USE DEF ControllerInv
  <1>1. /\ gui \in GuiRecords /\ round \in Rounds /\ file \in Files
        /\ catalog \in Catalogs /\ path \in Paths /\ rival \in BOOLEAN
        /\ gui.gate = "kNone" /\ ~gui.manual /\ ~gui.realtime /\ ~gui.busy
        /\ round.step = "none" /\ configFile' = path
        /\ UNCHANGED <<round, file, stored, rival>>
    BY DEF ControllerTypes, SaveRepositoryPath, GoodWork, Paths
  <1>k. PICK held : held = [gui EXCEPT !.gate = "kRepositoryChange", !.shown = path]
    OBVIOUS
  <1>2. /\ held \in GuiRecords /\ held.gate = "kRepositoryChange" /\ ~held.manual
        /\ ~held.realtime /\ ~held.busy /\ held.shown = path
        /\ SameData(gui, held) /\ SameLock(gui, held)
    BY <1>k, <1>1 DEF GuiRecords, SameData, SameLock, Paths
  <1>g. PICK g : g = IF gui.shown = path THEN held ELSE RepositoryPathChanged(held, path)
    OBVIOUS
  <1>3. /\ g \in GuiRecords /\ g.shown = path /\ g.repository = path
        /\ ~g.manual /\ ~g.realtime /\ ~g.busy
        /\ g.loaded => Covers(g.document, file, stored[path])
        /\ GoodLock(g, rival)
    <2>1. CASE gui.shown = path
      BY <1>g, <1>1, <1>2, <2>1
      DEF GoodPlace, GoodRecords, GoodLock, Wants, SameData, SameLock
    <2>2. CASE gui.shown # path
      <3>d. PICK d : d = Loaded(held, file, path)
        OBVIOUS
      <3>1. /\ d \in GuiRecords /\ SameWork(held, d)
            /\ d.repository = path /\ (d.loaded => d.document = file)
            /\ d.holding => held.holding
        BY ONLY <3>d, <1>1, <1>2, LoadedResult
      <3>2. d.holding => ~rival
        BY <1>2, <3>1 DEF GoodLock, SameLock
      <3>r. PICK read : read = RunnerLock(d)
        OBVIOUS
      <3>3. /\ read \in GuiRecords /\ SameWork(d, read) /\ SameData(d, read)
            /\ GoodLock(read, rival)
        BY ONLY <3>r, <1>1, <3>1, <3>2, RunnerLockResult
      <3>4. /\ read.gate = "kRepositoryChange" /\ ~read.manual /\ ~read.realtime
            /\ ~read.busy /\ read.shown = path /\ read.repository = path
            /\ read.loaded => read.document = file
        BY ONLY <1>2, <3>1, <3>3 DEF SameWork, SameData
      <3>5. ~MaySubmit(read)
        BY <3>4 DEF MaySubmit
      <3>h. PICK h : h = Drained(read)
        OBVIOUS
      <3>6. /\ h \in GuiRecords /\ SameData(read, h) /\ SameLock(read, h)
            /\ h.shown = read.shown /\ h.manual = read.manual
            /\ h.realtime = read.realtime /\ h.busy = read.busy
        BY ONLY <3>h, <3>3, <3>5, DrainedResult
      <3>7. g \in {read, h}
        BY <1>g, <2>2, <3>d, <3>r, <3>h DEF RepositoryPathChanged
      <3> QED
        BY ONLY <3>3, <3>4, <3>6, <3>7
        DEF SameData, SameLock, GoodLock, Wants, Covers
    <2> QED
      BY <2>1, <2>2
  <1>4. gui' = [g EXCEPT !.gate = "kNone"]
    BY ONLY <1>k, <1>g, SaveRepositoryPath(path) DEF SaveRepositoryPath
  <1>5. /\ gui' \in GuiRecords /\ gui'.gate = "kNone" /\ ~gui'.manual
        /\ ~gui'.realtime /\ ~gui'.busy /\ gui'.shown = path
        /\ SameData(g, gui') /\ SameLock(g, gui')
    BY ONLY <1>3, <1>4 DEF GuiRecords, Kinds, SameData, SameLock
  <1>6. /\ GoodWork(gui', round) /\ GoodPlace(gui', round, path)
        /\ GoodRecords(gui', round, file, path, stored) /\ GoodLock(gui', rival)
    BY ONLY <1>1, <1>3, <1>5
    DEF GoodWork, GoodPlace, GoodRecords, GoodLock, Wants, SameData, SameLock
  <1>c. PICK c : c = [catalog EXCEPT !.list = NothingShown]
    OBVIOUS
  <1>7. /\ c \in Catalogs /\ GoodScan(c, stored) /\ c.list.of \in {NoRepository, path}
    BY <1>1, <1>c DEF Catalogs, Lists, NothingShown, GoodScan
  <1>8. catalog' = Refreshed(c, path)
    BY <1>c DEF SaveRepositoryPath
  <1>9. /\ catalog' \in Catalogs /\ GoodScan(catalog', stored)
        /\ GoodList(catalog', gui', stored)
    BY <1>1, <1>5, <1>7, <1>8, RefreshedResult DEF GoodList
  <1> QED
    BY <1>1, <1>5, <1>6, <1>9
    DEF ControllerTypes, GoodWork, GoodPlace, GoodRecords, Covers, GoodScan,
        GoodList, GoodLock, Wants, Paths

LEMMA DeleteBackupStep ==
  ASSUME ControllerInv, ControllerAssumption, NEW n \in Snapshots, DeleteBackup(n)
  PROVE  ControllerInv'
  <1> USE DEF ControllerInv
  <1>1. /\ gui \in GuiRecords /\ round \in Rounds /\ file \in Files
        /\ catalog \in Catalogs /\ gui.document \in Documents
        /\ gui.shown \in Repositories /\ gui.shown = configFile
        /\ gui.repository = configFile
        /\ stored \in [Repositories -> SUBSET Snapshots]
        /\ gui.gate = "kNone" /\ ~gui.busy /\ round.step = "none"
        /\ catalog.scan = NoScan
        /\ UNCHANGED <<round, configFile, rival>>
    BY DEF ControllerTypes, DeleteBackup, MayDelete, GuiRecords, GoodPlace, GoodWork
  <1>2. /\ stored' = [stored EXCEPT ![configFile] = @ \ {n}]
        /\ catalog' = Refreshed(catalog, gui.shown)
    BY <1>1 DEF DeleteBackup
  <1>3. /\ stored' \in [Repositories -> SUBSET Snapshots]
        /\ stored'[configFile] = stored[configFile] \ {n}
    BY <1>1, <1>2
  <1>d. PICK d : d = Reconciled(gui.document, stored'[gui.repository])
    OBVIOUS
  <1>4. /\ d \in Documents /\ d.enabled = gui.document.enabled
        /\ d.managed = gui.document.managed \cap stored'[configFile]
    BY <1>d, <1>1 DEF Reconciled, Documents
  <1>5. gui.loaded => Covers(gui.document, file, stored[configFile])
    BY <1>1 DEF GoodRecords
  <1>6. \/ gui' = gui /\ file' = file
        \/ gui' = [gui EXCEPT !.document = d] /\ file' \in {file, d}
    BY <1>d DEF DeleteBackup
  <1>7. /\ gui' \in GuiRecords /\ SameWork(gui, gui') /\ SameLock(gui, gui')
        /\ gui'.repository = gui.repository /\ gui'.loaded = gui.loaded
        /\ gui'.document.enabled = gui.document.enabled
        /\ file' \in Files
        /\ gui'.loaded => Covers(gui'.document, file', stored'[configFile])
    <2>1. CASE gui' = gui /\ file' = file
      BY <1>1, <1>3, <1>5, <2>1 DEF SameWork, SameLock, Covers
    <2>2. CASE gui' = [gui EXCEPT !.document = d] /\ file' \in {file, d}
      <3>1. /\ gui' \in GuiRecords /\ SameWork(gui, gui') /\ SameLock(gui, gui')
            /\ gui'.repository = gui.repository /\ gui'.loaded = gui.loaded
            /\ gui'.document = d /\ file' \in Files
        BY ONLY <1>1, <1>4, <2>2 DEF GuiRecords, SameWork, SameLock, Files
      <3> QED
        BY <1>3, <1>4, <1>5, <2>2, <3>1 DEF Covers
    <2> QED
      BY <1>6, <2>1, <2>2
  <1>8. /\ GoodWork(gui', round) /\ GoodPlace(gui', round, configFile)
        /\ GoodRecords(gui', round, file', configFile, stored') /\ GoodLock(gui', rival)
    BY <1>1, <1>7
    DEF GoodWork, GoodPlace, GoodRecords, GoodLock, Wants, SameWork, SameLock
  <1>9. GoodScan(catalog, stored') /\ catalog.list.of \in {NoRepository, gui.shown}
    BY <1>1 DEF GoodScan, GoodList, NoScan
  <1>10. /\ catalog' \in Catalogs /\ GoodScan(catalog', stored')
         /\ GoodList(catalog', gui', stored')
    BY <1>1, <1>2, <1>7, <1>9, RefreshedResult DEF GoodList, SameWork, Paths
  <1> QED
    BY <1>1, <1>3, <1>7, <1>8, <1>10
    DEF ControllerTypes, GoodWork, GoodPlace, GoodRecords, Covers, GoodScan,
        GoodList, GoodLock, Wants

\* What a step that leaves the controllers and the disk alone has to show.
LEMMA CatalogOnly ==
  ASSUME ControllerInv, UNCHANGED <<gui, round, file, configFile, stored, rival>>,
         catalog' \in Catalogs, GoodScan(catalog', stored),
         GoodList(catalog', gui, stored)
  PROVE  ControllerInv'
  BY DEF ControllerInv, ControllerTypes, GoodWork, GoodPlace, GoodRecords, Covers,
         GoodScan, GoodList, GoodLock, Wants

LEMMA RefreshBackupsStep ==
  ASSUME ControllerInv, ControllerAssumption, RefreshBackups
  PROVE  ControllerInv'
  <1>1. /\ gui.shown \in Paths /\ catalog \in Catalogs
        /\ GoodScan(catalog, stored)
        /\ catalog.list.of \in {NoRepository, gui.shown}
    BY DEF ControllerInv, ControllerTypes, GuiRecords, Paths, GoodList
  <1>2. /\ catalog' \in Catalogs /\ GoodScan(catalog', stored)
        /\ GoodList(catalog', gui, stored)
    BY <1>1, RefreshedResult DEF RefreshBackups, GoodList
  <1> QED
    BY <1>2, CatalogOnly DEF RefreshBackups

LEMMA ReadCatalogStep ==
  ASSUME ControllerInv, ReadCatalog
  PROVE  ControllerInv'
  <1>1. /\ catalog \in Catalogs /\ catalog.scan.of \in Repositories
        /\ stored \in [Repositories -> SUBSET Snapshots]
        /\ GoodList(catalog, gui, stored) /\ catalog.scan # NoScan
    BY DEF ControllerInv, ControllerTypes, GoodScan, ReadCatalog
  <1>s. PICK s : s = [catalog.scan EXCEPT !.read = TRUE,
                                          !.names = stored[catalog.scan.of]]
    OBVIOUS
  <1>2. /\ s \in Scans /\ s.of = catalog.scan.of /\ s.read
        /\ s.names = stored[s.of] /\ s # NoScan
    BY <1>1, <1>s DEF Catalogs, Scans, NoScan
  <1>3. catalog' = [catalog EXCEPT !.scan = s]
    BY <1>1, <1>s DEF ReadCatalog, Catalogs, Scans
  <1>4. catalog' \in Catalogs /\ catalog'.scan = s /\ catalog'.list = catalog.list
    BY ONLY <1>1, <1>2, <1>3 DEF Catalogs
  <1>5. GoodScan(catalog', stored) /\ GoodList(catalog', gui, stored)
    BY <1>1, <1>2, <1>4 DEF GoodScan, GoodList
  <1> QED
    BY <1>4, <1>5, CatalogOnly DEF ReadCatalog

LEMMA ShowCatalogStep ==
  ASSUME ControllerInv, ControllerAssumption, ShowCatalog
  PROVE  ControllerInv'
  <1>1. /\ catalog \in Catalogs /\ GoodScan(catalog, stored)
        /\ GoodList(catalog, gui, stored) /\ catalog.scan.read
        /\ gui.shown \in Paths
    BY DEF ControllerInv, ControllerTypes, ShowCatalog, GuiRecords, Paths
  <1>2. /\ catalog.list \in Lists /\ catalog.scan \in Scans
        /\ catalog.scan.of \in Repositories
        /\ catalog.scan.names \subseteq stored[catalog.scan.of]
    BY <1>1 DEF Catalogs, GoodScan
  <1>l. PICK l : l = IF catalog.scan.of # gui.shown THEN catalog.list
                     ELSE [of |-> catalog.scan.of, names |-> catalog.scan.names]
    OBVIOUS
  <1>s. PICK s : s = IF (catalog.scan.of # gui.shown \/ catalog.again)
                          /\ gui.shown # NoRepository
                     THEN ScanOf(gui.shown) ELSE NoScan
    OBVIOUS
  <1>3. /\ s \in Scans /\ ~s.read
        /\ s # NoScan => s.of \in Repositories
    BY <1>1, <1>s DEF ScanOf, NoScan, Scans, Paths
  <1>4. /\ l \in Lists /\ l.of \in {NoRepository, gui.shown}
        /\ s = NoScan /\ l.of # NoRepository => l.names \subseteq stored[gui.shown]
    <2>1. CASE catalog.scan.of = gui.shown
      <3>1. l.of = gui.shown /\ l.names = catalog.scan.names /\ l \in Lists
        BY <1>l, <1>2, <2>1 DEF Lists, Scans
      <3> QED
        BY <1>2, <2>1, <3>1
    <2>2. CASE catalog.scan.of # gui.shown
      <3>1. l = catalog.list
        BY <1>l, <2>2
      <3>2. CASE gui.shown # NoRepository
        <4>1. s = ScanOf(gui.shown)
          BY <1>s, <2>2, <3>2
        <4>2. s # NoScan
          BY <3>2, <4>1 DEF ScanOf, NoScan
        <4> QED
          BY <1>1, <1>2, <3>1, <4>2 DEF GoodList
      <3>3. CASE gui.shown = NoRepository
        BY <1>1, <1>2, <3>1, <3>3 DEF GoodList
      <3> QED
        BY <3>2, <3>3
    <2> QED
      BY <2>1, <2>2
  <1>5. /\ catalog' = [list |-> l, scan |-> s, again |-> FALSE]
        /\ UNCHANGED <<gui, round, file, configFile, stored, rival>>
    BY ONLY <1>l, <1>s, ShowCatalog DEF ShowCatalog
  <1>6. /\ catalog' \in Catalogs /\ GoodScan(catalog', stored)
        /\ GoodList(catalog', gui, stored)
    BY ONLY <1>3, <1>4, <1>5 DEF Catalogs, GoodScan, GoodList
  <1> QED
    BY <1>5, <1>6, CatalogOnly

LEMMA RealtimeStep ==
  ASSUME ControllerInv, RealtimeBegins \/ RealtimeEnds
  PROVE  ControllerInv'
  <1>1. /\ gui \in GuiRecords /\ round \in Rounds /\ GoodWork(gui, round)
        /\ UNCHANGED <<round, file, configFile, stored, rival, catalog>>
    BY DEF ControllerInv, ControllerTypes, RealtimeBegins, RealtimeEnds
  <1>2. /\ gui' \in GuiRecords /\ gui'.manual = gui.manual /\ gui'.busy = gui.busy
        /\ gui'.shown = gui.shown /\ SameData(gui, gui') /\ SameLock(gui, gui')
        /\ GoodWork(gui', round)
    <2>1. CASE RealtimeBegins
      BY <1>1, <2>1 DEF RealtimeBegins, GuiRecords, Kinds, SameData, SameLock, GoodWork
    <2>2. CASE RealtimeEnds
      <3>1. gui' = [gui EXCEPT !.gate = "kNone", !.realtime = FALSE]
        BY <1>1, <2>2 DEF RealtimeEnds, GoodWork
      <3> QED
        BY <1>1, <2>2, <3>1
        DEF RealtimeEnds, GuiRecords, Kinds, SameData, SameLock, GoodWork
    <2> QED
      BY <2>1, <2>2
  <1>3. /\ GoodPlace(gui', round, configFile)
        /\ GoodRecords(gui', round, file, configFile, stored) /\ GoodLock(gui', rival)
    BY <1>2
    DEF ControllerInv, GoodPlace, GoodRecords, GoodLock, Wants, SameData, SameLock
  <1> QED
    BY <1>1, <1>2, <1>3, ControllersOnly

LEMMA RivalStep ==
  ASSUME ControllerInv, RivalTakesLock \/ RivalEnds
  PROVE  ControllerInv'
  <1>1. /\ rival' \in BOOLEAN
        /\ gui.holding /\ ~rival => ~rival'
        /\ UNCHANGED <<gui, round, file, configFile, stored, catalog>>
    BY DEF RivalTakesLock, RivalEnds
  <1> QED
    BY <1>1
    DEF ControllerInv, ControllerTypes, GoodWork, GoodPlace, GoodRecords, Covers,
        GoodScan, GoodList, GoodLock, Wants

LEMMA BecomesDueStep ==
  ASSUME ControllerInv, BecomesDue
  PROVE  ControllerInv'
  <1>1. /\ file \in Documents /\ gui \in GuiRecords /\ gui.document \in Documents
        /\ file' = [file EXCEPT !.due = TRUE]
        /\ UNCHANGED <<round, configFile, stored, rival, catalog>>
    BY DEF ControllerInv, ControllerTypes, Files, GuiRecords, BecomesDue
  <1>d. PICK d : d = [gui.document EXCEPT !.due = TRUE]
    OBVIOUS
  <1>2. /\ d \in Documents /\ d.managed = gui.document.managed
        /\ d.enabled = gui.document.enabled
    BY ONLY <1>1, <1>d DEF Documents
  <1>3. gui' = [gui EXCEPT !.document = d]
    BY <1>1, <1>d DEF BecomesDue, GuiRecords
  <1>4. /\ gui' \in GuiRecords /\ SameWork(gui, gui') /\ SameLock(gui, gui')
        /\ gui'.repository = gui.repository /\ gui'.loaded = gui.loaded
        /\ gui'.document = d
    BY ONLY <1>1, <1>2, <1>3 DEF GuiRecords, SameWork, SameLock
  <1>5. file' \in Documents /\ file'.managed = file.managed
    BY ONLY <1>1 DEF Documents
  <1>6. /\ GoodWork(gui', round) /\ GoodPlace(gui', round, configFile)
        /\ GoodLock(gui', rival) /\ GoodList(catalog, gui', stored)
    BY <1>2, <1>4
    DEF ControllerInv, GoodWork, GoodPlace, GoodLock, Wants, GoodList, SameWork,
        SameLock
  <1>7. GoodRecords(gui', round, file', configFile, stored)
    <2>1. file # Unreadable
      BY DEF BecomesDue
    <2> QED
      BY <1>2, <1>4, <1>5, <2>1 DEF ControllerInv, GoodRecords, Covers, SameWork
  <1> QED
    BY <1>1, <1>4, <1>5, <1>6, <1>7
    DEF ControllerInv, ControllerTypes, Files, GoodWork, GoodPlace, GoodRecords,
        Covers, GoodScan, GoodList, GoodLock, Wants

LEMMA EditByHandStep ==
  ASSUME ControllerInv, EditByHand
  PROVE  ControllerInv'
  <1>1. file \in Files /\ UNCHANGED <<gui, round, configFile, stored, rival, catalog>>
    BY DEF ControllerInv, ControllerTypes, EditByHand
  <1>2. /\ file' \in Files
        /\ \/ file' = Unreadable \/ file'.managed = {}
           \/ file # Unreadable /\ file'.managed = file.managed
    <2>1. CASE file' = Unreadable
      BY <2>1 DEF Files
    <2>2. CASE file = Unreadable /\ file' = NoDocument
      BY <2>2 DEF Files, Documents, NoDocument
    <2>3. CASE file # Unreadable /\ file' = [file EXCEPT !.valid = ~@]
      BY <1>1, <2>3 DEF Files, Documents
    <2> QED
      BY <2>1, <2>2, <2>3 DEF EditByHand
  <1>3. GoodRecords(gui, round, file', configFile, stored)
    BY <1>2 DEF ControllerInv, GoodRecords, Covers
  <1> QED
    BY <1>1, <1>2, <1>3
    DEF ControllerInv, ControllerTypes, GoodWork, GoodPlace, GoodRecords, Covers,
        GoodScan, GoodList, GoodLock, Wants

\* What an application that starts finds on the disk.
LEMMA StartedResult ==
  ASSUME ControllerAssumption, rival \in BOOLEAN, file \in Files, configFile \in Paths
  PROVE  LET h == Started
         IN  /\ h \in GuiRecords /\ h.shown = configFile
             /\ GoodWork(h, NoRound) /\ GoodPlace(h, NoRound, configFile)
             /\ GoodRecords(h, NoRound, file, configFile, stored)
             /\ GoodLock(h, rival)
  <1>g. PICK g :
          g = [gate |-> "kNone", manual |-> FALSE, realtime |-> FALSE,
               shown |-> configFile, repository |-> NoRepository,
               document |-> NoDocument, loaded |-> FALSE, suspended |-> FALSE,
               ticking |-> FALSE, holding |-> FALSE, busy |-> FALSE,
               pending |-> FALSE, forced |-> FALSE]
    OBVIOUS
  <1>n. NoDocument \in Documents
    BY DEF NoDocument, Documents
  <1>1. /\ g \in GuiRecords /\ g.gate = "kNone" /\ ~g.manual /\ ~g.realtime
        /\ ~g.busy /\ ~g.holding /\ g.shown = configFile
    BY ONLY <1>g, <1>n, configFile \in Paths DEF GuiRecords, Kinds, Paths
  <1>d. PICK d : d = Loaded(g, file, configFile)
    OBVIOUS
  <1>2. /\ d \in GuiRecords /\ SameWork(g, d)
        /\ d.repository = configFile /\ (d.loaded => d.document = file)
        /\ d.holding => g.holding
    BY ONLY <1>d, <1>1, file \in Files, configFile \in Paths, LoadedResult
  <1>h. PICK h : h = RunnerLock(d)
    OBVIOUS
  <1>3. /\ h \in GuiRecords /\ SameWork(d, h) /\ SameData(d, h) /\ GoodLock(h, rival)
    BY ONLY <1>h, <1>1, <1>2, rival \in BOOLEAN, RunnerLockResult
  <1>4. /\ h.gate = "kNone" /\ ~h.manual /\ ~h.realtime /\ ~h.busy
        /\ h.shown = configFile /\ h.repository = configFile
        /\ h.loaded => h.document = file
    BY ONLY <1>1, <1>2, <1>3 DEF SameWork, SameData
  <1>5. Started = h
    BY ONLY <1>g, <1>d, <1>h DEF Started
  <1> QED
    BY ONLY <1>3, <1>4, <1>5
    DEF GoodWork, GoodPlace, GoodRecords, Covers, NoRound

\* The list of an application that starts.
LEMMA FirstCatalog ==
  ASSUME NEW r \in Paths, NEW s
  PROVE  LET c == [list |-> NothingShown, scan |-> NoScan, again |-> FALSE]
         IN  /\ c \in Catalogs /\ GoodScan(c, s)
             /\ c.list.of \in {NoRepository, r} /\ c.list.of = NoRepository
  BY DEF NothingShown, NoScan, Catalogs, Lists, Scans, GoodScan

LEMMA RestartStep ==
  ASSUME ControllerInv, ControllerAssumption, Restart
  PROVE  ControllerInv'
  <1>1. /\ rival \in BOOLEAN /\ file \in Files /\ configFile \in Paths
        /\ stored \in [Repositories -> SUBSET Snapshots]
        /\ gui' = Started /\ round' = NoRound
        /\ UNCHANGED <<file, configFile, stored, rival>>
    BY DEF ControllerInv, ControllerTypes, Restart
  <1>2. /\ gui' \in GuiRecords /\ gui'.shown = configFile
        /\ GoodWork(gui', NoRound) /\ GoodPlace(gui', NoRound, configFile)
        /\ GoodRecords(gui', NoRound, file, configFile, stored)
        /\ GoodLock(gui', rival)
    BY <1>1, StartedResult
  <1>c. PICK c : c = [list |-> NothingShown, scan |-> NoScan, again |-> FALSE]
    OBVIOUS
  <1>3. c \in Catalogs /\ GoodScan(c, stored) /\ c.list.of \in {NoRepository, configFile}
    BY ONLY <1>1, <1>c, FirstCatalog
  <1>4. catalog' = Refreshed(c, configFile)
    BY <1>c DEF Restart
  <1>5. /\ catalog' \in Catalogs /\ GoodScan(catalog', stored)
        /\ GoodList(catalog', gui', stored)
    BY <1>1, <1>2, <1>3, <1>4, RefreshedResult DEF GoodList
  <1>6. NoRound \in Rounds
    BY DEF Rounds
  <1> QED
    BY <1>1, <1>2, <1>5, <1>6
    DEF ControllerInv, ControllerTypes, GoodWork, GoodPlace, GoodRecords, Covers,
        GoodScan, GoodList, GoodLock, Wants

LEMMA ControllerStarts ==
  ASSUME GuiInit, ControllerAssumption
  PROVE  ControllerInv
  <1>1. /\ rival \in BOOLEAN /\ file \in Files /\ configFile \in Paths
        /\ stored \in [Repositories -> SUBSET Snapshots]
        /\ gui = Started /\ round = NoRound
    BY DEF GuiInit, Files, Documents, NoDocument, Paths
  <1>2. /\ catalog \in Catalogs /\ GoodScan(catalog, stored)
        /\ catalog.list.of = NoRepository
    BY <1>1, FirstCatalog DEF GuiInit
  <1> QED
    BY <1>1, <1>2, StartedResult DEF ControllerInv, ControllerTypes, GoodList, Rounds

LEMMA ControllerSteps ==
  ASSUME ControllerInv, ControllerAssumption, [GuiNext]_guiVars
  PROVE  ControllerInv'
  <1>1. CASE GuiNext
    BY <1>1, TickStep, RunNowStep, EvaluationFinishedStep, EvaluationStep,
       SaveConfigStep, StartManualStep, ManualEndsStep, SaveRepositoryPathStep,
       DeleteBackupStep, RefreshBackupsStep, ReadCatalogStep, ShowCatalogStep,
       RealtimeStep, RivalStep, BecomesDueStep, EditByHandStep, RestartStep
    DEF GuiNext
  <1>2. CASE UNCHANGED guiVars
    <2>1. UNCHANGED <<gui, round, file, configFile, stored, rival, catalog>>
      BY <1>2 DEF guiVars
    <2>2. /\ catalog \in Catalogs /\ GoodScan(catalog, stored)
          /\ GoodList(catalog, gui, stored)
      BY DEF ControllerInv, ControllerTypes
    <2> QED
      BY ONLY ControllerInv, <2>1, <2>2, CatalogOnly
  <1> QED
    BY <1>1, <1>2

-----------------------------------------------------------------------------
(* The theorems *)

LEMMA ControllerInvariant == GuiSpec => []ControllerInv
  <1>1. GuiInit => ControllerInv
    BY ControllerStarts, ControllerAssumption
  <1>2. ControllerInv /\ [GuiNext]_guiVars => ControllerInv'
    BY ControllerSteps, ControllerAssumption
  <1> QED
    BY <1>1, <1>2, PTL DEF GuiSpec

\* The type invariant of the controllers, for any repositories and snapshots.
THEOREM GuiTypeCorrect == GuiSpec => []GuiTypeOK
  <1>1. ControllerInv => GuiTypeOK
    <2> SUFFICES ASSUME ControllerInv PROVE GuiTypeOK
      OBVIOUS
    <2>1. gui \in GuiRecords /\ gui.gate # "kRepositoryChange"
      BY DEF ControllerInv, ControllerTypes, GoodWork
    <2>2. gui \in [gate : Kinds, manual : BOOLEAN, realtime : BOOLEAN,
                   shown : Repositories \cup {NoRepository},
                   repository : Repositories \cup {NoRepository},
                   document : Documents, loaded : BOOLEAN, suspended : BOOLEAN,
                   ticking : BOOLEAN, holding : BOOLEAN, busy : BOOLEAN,
                   pending : BOOLEAN, forced : BOOLEAN]
      BY ONLY <2>1 DEF GuiRecords
    <2>3. round.step \in {"none", "submitted", "writing", "saving", "finished"}
      BY DEF ControllerInv, ControllerTypes, Rounds, NoRound
    <2> QED
      BY <2>2, <2>3 DEF GuiTypeOK, ControllerInv, ControllerTypes, Files, Paths
  <1> QED
    BY <1>1, ControllerInvariant, PTL

\* Of an evaluation of the schedule, the work of the user and that of the
\* realtime controller, at most one is under way, in every order of callbacks
\* (OperationGate, with the busy flag each controller keeps for itself).
THEOREM WorkIsExclusive == GuiSpec => []OneWorkAtATime
  <1>1. ControllerInv => OneWorkAtATime
    BY DEF ControllerInv, GoodWork, OneWorkAtATime
  <1> QED
    BY <1>1, ControllerInvariant, PTL

\* A schedule that is to run keeps a timer, and one that is not to run keeps
\* the runner lock from nobody (ApplyRunnerLock, SetConfigInvalid, LoadFromDisk).
THEOREM LockIsForThePlan == GuiSpec => []LockFollowsThePlan
  <1>1. ControllerInv => LockFollowsThePlan
    BY DEF ControllerInv, GoodLock, Wants, WantsToRun, LockFollowsThePlan
  <1> QED
    BY <1>1, ControllerInvariant, PTL

\* The list of backups is of the repository in use and, once it has settled,
\* shows none that is gone, however scans, changes of the repository and
\* deletions overlap (refreshBackups, OnCatalogListFinished).
THEOREM ListIsCurrent == GuiSpec => []ListIsOfTheRepository
  <1>1. ControllerInv => ListIsOfTheRepository
    BY DEF ControllerInv, GoodList, ListIsOfTheRepository
  <1> QED
    BY <1>1, ControllerInvariant, PTL

\* What a step may do to the records of the file.
RecordsKept ==
  file # Unreadable /\ file' # Unreadable /\ gui.shown # NoRepository
    => file.managed \ file'.managed \subseteq Snapshots \ stored'[gui.shown]

\* A writer whose copy covers the file loses no record of what is still there.
LEMMA CoveringCopy ==
  ASSUME NEW d, file \in Files, Covers(d, file, stored[gui.shown]),
         stored'[gui.shown] \subseteq stored[gui.shown],
         file'.managed = d.managed
  PROVE  RecordsKept
  BY DEF RecordsKept, Covers, Files, Documents

LEMMA SaveConfigKeepsRecords ==
  ASSUME ControllerInv, NEW enable \in BOOLEAN, SaveConfig(enable)
  PROVE  RecordsKept
  <1>1. /\ gui.document \in Documents /\ gui.loaded /\ ~gui.busy /\ file \in Files
        /\ UNCHANGED stored /\ gui.shown = configFile /\ configFile \in Paths
    BY DEF ControllerInv, ControllerTypes, GuiRecords, SaveConfig, MaySaveConfig,
           GoodPlace
  <1>2. file'.managed = gui.document.managed
    BY <1>1 DEF SaveConfig, Documents
  <1>3. CASE gui.shown = NoRepository
    BY <1>3 DEF RecordsKept
  <1>4. CASE gui.shown # NoRepository
    <2>1. Covers(gui.document, file, stored[gui.shown])
      BY <1>1, <1>4 DEF ControllerInv, GoodRecords, Paths
    <2> QED
      BY <1>1, <1>2, <2>1, CoveringCopy
  <1> QED
    BY <1>3, <1>4

LEMMA EvaluationKeepsRecords ==
  ASSUME ControllerInv, EvaluationSaves
  PROVE  RecordsKept
  <1>1. /\ file \in Files /\ UNCHANGED stored
        /\ file' \in {file, round.document}
        /\ gui.shown = configFile /\ configFile \in Repositories
        /\ Covers(round.document, file, stored[configFile])
    BY DEF ControllerInv, ControllerTypes, EvaluationSaves, GoodPlace, GoodRecords
  <1>2. CASE file' = file
    BY <1>2 DEF RecordsKept
  <1>3. CASE file' = round.document
    BY <1>1, <1>3, CoveringCopy
  <1> QED
    BY <1>1, <1>2, <1>3

LEMMA DeleteBackupKeepsRecords ==
  ASSUME ControllerInv, NEW n \in Snapshots, DeleteBackup(n)
  PROVE  RecordsKept
  <1>1. /\ file \in Files /\ gui.document \in Documents /\ ~gui.busy
        /\ gui.shown = configFile /\ gui.repository = configFile
        /\ configFile \in Repositories
        /\ stored \in [Repositories -> SUBSET Snapshots]
    BY DEF ControllerInv, ControllerTypes, GuiRecords, DeleteBackup, MayDelete,
           GoodPlace, GoodWork, Paths
  <1>2. stored' = [stored EXCEPT ![configFile] = @ \ {n}]
    BY <1>1 DEF DeleteBackup
  <1>d. PICK d : d = Reconciled(gui.document, stored'[gui.repository])
    OBVIOUS
  <1>3. d.managed = gui.document.managed \cap stored'[configFile]
    BY <1>d, <1>1 DEF Reconciled, Documents
  <1>4. file' = file \/ (file' = d /\ gui.loaded)
    BY <1>d DEF DeleteBackup
  <1>5. CASE file' = file
    BY <1>5 DEF RecordsKept
  <1>6. CASE file' = d /\ gui.loaded
    <2>1. Covers(gui.document, file, stored[configFile])
      BY <1>1, <1>6 DEF ControllerInv, GoodRecords
    <2>2. stored'[configFile] \subseteq stored[configFile]
      BY <1>1, <1>2
    <2> QED
      BY <1>1, <1>3, <1>6, <2>1, <2>2 DEF RecordsKept, Covers, Files, Documents
  <1> QED
    BY <1>4, <1>5, <1>6

LEMMA EditsKeepRecords ==
  ASSUME ControllerInv, BecomesDue \/ EditByHand
  PROVE  RecordsKept
  <1>1. file \in Files
    BY DEF ControllerInv, ControllerTypes
  <1> QED
    BY <1>1 DEF RecordsKept, BecomesDue, EditByHand, Files, Documents

\* No save of the schedule, whoever makes it and whatever copy it makes it
\* from, drops the record of a scheduled snapshot that is still in the
\* repository (saveConfig, RunEvaluation, OnArchiveDeleted).
THEOREM RecordsAreNeverLost == GuiSpec => NoRecordIsLost
  <1>1. ControllerInv /\ [GuiNext]_guiVars => [RecordsKept]_guiVars
    <2> SUFFICES ASSUME ControllerInv, GuiNext PROVE RecordsKept \/ file' = file
      BY DEF RecordsKept, guiVars
    <2> QED
      BY SaveConfigKeepsRecords, EvaluationKeepsRecords, DeleteBackupKeepsRecords,
         EditsKeepRecords
      DEF GuiNext, Tick, RunNow, EvaluationFinished, Evaluation, EvaluationLoads,
          EvaluationWrites, StartManual, ManualEnds, SaveRepositoryPath,
          RefreshBackups, ReadCatalog, ShowCatalog, RealtimeBegins, RealtimeEnds,
          RivalTakesLock, RivalEnds, Restart
  <1> QED
    BY <1>1, ControllerInvariant, PTL DEF GuiSpec, NoRecordIsLost, RecordsKept

-----------------------------------------------------------------------------
(* The scheduled backup: what its documents hold, and what its steps do     *)

USE RepositoryAssumption

Records == [managed : SUBSET Names, baseline : Names \cup {NoName}]
Owned == [content : Contents \cup {NoFile}, owner : Names \cup {NoName}]
RecordsTyped ==
  /\ config \in [strategy : Strategies, filter : Filters]
  /\ document \in Records /\ memory \in Records
  /\ sourceManifest \in Owned \cup {NoFile}
Typed == RepositoryTyped /\ RecordsTyped
USE DEF Typed

LEMMA RecordsTypedSame == ASSUME RecordsTyped, UNCHANGED ownVars PROVE RecordsTyped'
  BY DEF RecordsTyped, ownVars

LEMMA RetainDoes ==
    ASSUME Typed, Retain
    PROVE  LET gone == Removable(memory.managed, RetainCount)
           IN  /\ job' \in Operations
               /\ job'.doomed = IF DeletionAccepted(gone) THEN gone ELSE {}
               /\ job'.step = IF Uncertain(memory.managed, RetainCount)
                                 \/ ~DeletionAccepted(gone)
                              THEN "save"
                              ELSE IF gone = {} THEN "tidy" ELSE "unlink"
               /\ job'.who = job.who /\ job'.filter = job.filter
               /\ job'.scanned = job.scanned /\ job'.parent = job.parent
               /\ job'.content = job.content /\ job'.name = job.name
  <1>g. PICK gone : gone = Removable(memory.managed, RetainCount)
    OBVIOUS
  <1>d. PICK d : d = IF DeletionAccepted(gone) THEN gone ELSE {}
    OBVIOUS
  <1>s. PICK s : s = IF Uncertain(memory.managed, RetainCount) \/ ~DeletionAccepted(gone)
                     THEN "save" ELSE IF gone = {} THEN "tidy" ELSE "unlink"
    OBVIOUS
  <1>1. job \in Operations /\ job' = [job EXCEPT !.doomed = d, !.step = s]
    BY <1>g, <1>d, <1>s DEF RepositoryTyped, Retain
  <1>2. d \in SUBSET Names /\ s \in JobSteps
    <2>1. memory.managed \in SUBSET Names
      BY DEF RepositoryTyped, RecordsTyped, Records
    <2>2. gone \in SUBSET Names
      BY <2>1, <1>g DEF Removable
    <2> QED
      BY <2>2, <1>d, <1>s DEF JobSteps
  <1>3. /\ job' \in Operations /\ job'.step = s /\ job'.doomed = d
        /\ job'.who = job.who /\ job'.filter = job.filter
        /\ job'.scanned = job.scanned /\ job'.parent = job.parent
        /\ job'.content = job.content /\ job'.name = job.name
    BY <1>1, <1>2 DEF Operations
  <1> QED
    BY <1>3, <1>g, <1>d, <1>s

LEMMA StartRoundDoes ==
    ASSUME Typed, StartRound
    PROVE  /\ job' \in Operations /\ job'.who = "schedule" /\ job'.step = "compare"
           /\ job'.filter = config.filter /\ job'.scanned = Scan(config.filter)
           /\ job'.name = NoName /\ job'.parent = NoName /\ job'.doomed = {}
           /\ job'.content = NoFile
           /\ memory' \in Records /\ memory'.baseline = document.baseline
           /\ memory'.managed = {n \in document.managed : Exists(n)}
  <1>n. PICK n : n = NoJob
    OBVIOUS
  <1>f. PICK f : f = config.filter
    OBVIOUS
  <1>c. PICK c : c = Scan(f)
    OBVIOUS
  <1>1. /\ n \in Operations /\ n.name = NoName /\ n.parent = NoName /\ n.doomed = {}
        /\ n.content = NoFile
    BY <1>n, NoJobIsAJob
  <1>2. f \in Filters /\ c \in Contents
    BY <1>f, <1>c, ScanIsContent DEF RepositoryTyped, RecordsTyped, WorldTyped
  <1>3. job' = [n EXCEPT !.who = "schedule", !.step = "compare", !.filter = f, !.scanned = c]
    BY <1>n, <1>f, <1>c DEF StartRound
  <1>4. /\ job' \in Operations /\ job'.who = "schedule" /\ job'.step = "compare"
        /\ job'.filter = f /\ job'.scanned = c
        /\ job'.name = NoName /\ job'.parent = NoName /\ job'.doomed = {}
        /\ job'.content = NoFile
    BY <1>1, <1>2, <1>3 DEF Operations, JobSteps
  <1>m. PICK m : m = {x \in document.managed : Exists(x)}
    OBVIOUS
  <1>5. document \in Records /\ memory' = [document EXCEPT !.managed = m]
    BY <1>m DEF RepositoryTyped, RecordsTyped, StartRound
  <1>6. m \in SUBSET Names
    BY <1>m, <1>5 DEF Records
  <1>7. memory' \in Records /\ memory'.baseline = document.baseline /\ memory'.managed = m
    BY <1>5, <1>6 DEF Records
  <1> QED
    BY <1>4, <1>7, <1>f, <1>c, <1>m

LEMMA SaveManifestDoes ==
    ASSUME Typed, SaveManifest
    PROVE  /\ job' \in Operations /\ job'.who = job.who /\ job'.step = "retain"
           /\ job'.filter = NoJob.filter /\ job'.scanned = NoFile
           /\ job'.name = NoName /\ job'.parent = NoName /\ job'.doomed = {}
           /\ job'.content = NoFile
           /\ sourceManifest' \in Owned \cup {NoFile}
  <1>n. PICK n : n = NoJob
    OBVIOUS
  <1>1. /\ n \in Operations /\ n.name = NoName /\ n.parent = NoName /\ n.doomed = {}
        /\ n.content = NoFile /\ n.scanned = NoFile
    BY <1>n, NoJobIsAJob
  <1>2. job' = [n EXCEPT !.who = job.who, !.step = "retain"] /\ job \in Operations
    BY <1>n DEF SaveManifest, RepositoryTyped
  <1>3. /\ job' \in Operations /\ job'.who = job.who /\ job'.step = "retain"
        /\ job'.filter = n.filter /\ job'.scanned = NoFile
        /\ job'.name = NoName /\ job'.parent = NoName /\ job'.doomed = {}
        /\ job'.content = NoFile
    BY <1>1, <1>2 DEF Operations, JobSteps
  <1>4. [content |-> job.scanned, owner |-> memory.baseline] \in Owned
    BY DEF RepositoryTyped, RecordsTyped, Records, Operations, Owned
  <1>5. sourceManifest' \in Owned \cup {NoFile}
    BY <1>4 DEF RepositoryTyped, RecordsTyped, SaveManifest
  <1> QED
    BY <1>3, <1>5, <1>n

LEMMA RecordDoes ==
    ASSUME Typed, job.name \in Names, Record
    PROVE  /\ job' \in Operations /\ job'.step = "saveManifest" /\ SameJob(job, job')
           /\ memory' \in Records /\ memory'.baseline = job.name
           /\ memory'.managed = memory.managed \cup {job.name}
  <1>1. job' \in Operations /\ job'.step = "saveManifest" /\ SameJob(job, job')
    <2>1. "saveManifest" \in JobSteps
      BY DEF JobSteps
    <2> QED
      BY <2>1, GoesTo DEF RepositoryTyped, Record
  <1> QED
    BY <1>1 DEF RepositoryTyped, RecordsTyped, Records, Record

\* What is left of an operation that ends.
Ending == Skip \/ Save \/ RoundFails \/ (EndManual /\ UNCHANGED ownVars) \/ Crash
LEMMA EndingDoes ==
    ASSUME Typed, Ending
    PROVE  /\ job' = NoJob /\ job' \in Operations
           /\ UNCHANGED <<world, files, config, sourceManifest>>
           /\ document' \in {document, memory}
           /\ memory' \in {memory, EmptyDocument}
           /\ memory' \in Records /\ document' \in Records
  <1>1. EmptyDocument \in Records
    BY DEF EmptyDocument, Records
  <1>2. /\ job' = NoJob
        /\ UNCHANGED <<world, files, config, sourceManifest>>
        /\ document' \in {document, memory}
        /\ memory' \in {memory, EmptyDocument}
    BY DEF Ending, Skip, Save, RoundFails, EndManual, Crash, ownVars
  <1> QED
    BY <1>1, <1>2, NoJobIsAJob DEF RepositoryTyped, RecordsTyped

\* The actions, by the files of the repository they touch: none, ...
RoundActions ==
  \/ StartRound \/ Compare \/ Record \/ SaveManifest \/ Retain \/ EndRetention
  \/ Ending \/ Reconfigure
  \/ (EngineScan \/ EngineDecide \/ PlainFails \/ UnlinkFails) /\ UNCHANGED ownVars
  \/ (StartManualBackup \/ StartManualDelete) /\ UNCHANGED ownVars

\* ... those of the snapshots that are deleted, ...
DeletionActions ==
  \/ (Sweep /\ UNCHANGED ownVars) \/ Tidy
  \/ \E n \in Names : UnlinkManaged(n) \/ UnlinkOwn(n)

LEMMA Actions ==
    [Next]_vars => \/ RoundActions \/ DeletionActions
                   \/ (MakesSnapshot \/ TouchesByHand) /\ UNCHANGED ownVars
                   \/ UNCHANGED vars
  BY DEF Next, RoundStep, Fault, UserStep, EngineStep, EngineFault, RoundActions,
         MakesSnapshot, DeletionActions, TouchesByHand, Ending

\* Steps that touch no file of the repository.
Quiet == UNCHANGED <<world, files>>

LEMMA TypedQuiet ==
    ASSUME Typed, Quiet, RecordsTyped', job' \in Operations, JobNamed'
    PROVE  Typed'
  BY FilesTypedSame, WorldTypedSame DEF RepositoryTyped, Quiet

LEMMA TypedRounds == ASSUME Typed, RoundActions PROVE Typed'
  <1>1. CASE StartRound
    <2>1. JobNamed'
      BY <1>1, StartRoundDoes DEF JobNamed
    <2>2. RecordsTyped'
      BY <1>1, StartRoundDoes DEF RepositoryTyped, RecordsTyped, StartRound
    <2> QED
      BY <1>1, <2>1, <2>2, StartRoundDoes, TypedQuiet DEF StartRound, Quiet
  <1>2. CASE Compare
    <2>s. PICK s : s = CASE config.strategy = "incremental" -> "scan"
            [] config.strategy = "full" ->
                 IF BaselineUsable /\ sourceManifest.content = job.scanned
                 THEN "unchanged" ELSE "plain"
      OBVIOUS
    <2>1. config.strategy \in {"full", "incremental"}
      BY ScheduleAssumption DEF RepositoryTyped, RecordsTyped
    <2>2. s \in {"scan", "unchanged", "plain"} /\ Goto(s)
      BY <1>2, <2>s, <2>1 DEF Compare
    <2>3. s \in JobSteps
      BY <2>2 DEF JobSteps
    <2>4. job' \in Operations /\ job'.step = s
      BY <2>2, <2>3, GoesTo DEF RepositoryTyped
    <2>5. JobNamed'
      BY <2>2, <2>4 DEF JobNamed
    <2> QED
      BY <1>2, <2>4, <2>5, TypedQuiet, RecordsTypedSame DEF Compare, Quiet, RepositoryTyped
  <1>3. CASE Record
    <2>1. job.name \in Names
      BY <1>3 DEF Record, RepositoryTyped, JobNamed, At
    <2>2. job' \in Operations /\ job'.step = "saveManifest" /\ memory' \in Records
      BY <1>3, <2>1, RecordDoes
    <2>3. JobNamed'
      BY <2>2 DEF JobNamed
    <2>4. RecordsTyped'
      BY <1>3, <2>2 DEF RepositoryTyped, RecordsTyped, Record
    <2> QED
      BY <1>3, <2>2, <2>3, <2>4, TypedQuiet DEF Record, Quiet
  <1>4. CASE SaveManifest
    <2>1. JobNamed'
      BY <1>4, SaveManifestDoes DEF JobNamed
    <2>2. RecordsTyped'
      BY <1>4, SaveManifestDoes DEF RepositoryTyped, RecordsTyped, SaveManifest
    <2> QED
      BY <1>4, <2>1, <2>2, SaveManifestDoes, TypedQuiet DEF SaveManifest, Quiet
  <1>5. CASE Retain
    <2>1. job' \in Operations /\ job'.step \in {"save", "tidy", "unlink"}
      BY <1>5, RetainDoes
    <2>2. JobNamed'
      BY <2>1 DEF JobNamed
    <2> QED
      BY <1>5, <2>1, <2>2, TypedQuiet, RecordsTypedSame DEF Retain, Quiet, RepositoryTyped
  <1>6. CASE EndRetention
    <2>1. PICK s \in {"tidy", "save"} : Goto(s)
      BY <1>6 DEF EndRetention
    <2>2. s \in JobSteps
      BY DEF JobSteps
    <2>3. job' \in Operations /\ job'.step = s
      BY <2>1, <2>2, GoesTo DEF RepositoryTyped
    <2>4. JobNamed'
      BY <2>3 DEF JobNamed
    <2> QED
      BY <1>6, <2>3, <2>4, TypedQuiet, RecordsTypedSame DEF EndRetention, Quiet, RepositoryTyped
  <1>7. CASE Ending
    <2>1. JobNamed'
      BY <1>7, EndingDoes, NoJobIsAJob DEF JobNamed
    <2>2. RecordsTyped'
      BY <1>7, EndingDoes DEF RepositoryTyped, RecordsTyped
    <2> QED
      BY <1>7, <2>1, <2>2, EndingDoes, TypedQuiet DEF Quiet
  <1>8. CASE Reconfigure
    <2>1. RecordsTyped'
      BY <1>8 DEF Reconfigure, RepositoryTyped, RecordsTyped
    <2> QED
      BY <1>8, <2>1, FilesTypedSame, WorldTypedSame
         DEF Reconfigure, RepositoryTyped, repoVars, files, world, JobNamed
  <1>9. CASE EngineScan /\ UNCHANGED ownVars
    <2>1. job.filter \in Filters /\ source \in Versions
      BY DEF RepositoryTyped, Operations, WorldTyped
    <2>2. JobNamed'
      BY <1>9, <2>1, EngineScanDoes, ScanIsContent DEF JobNamed
    <2> QED
      BY <1>9, <2>2, EngineScanDoes, TypedQuiet, RecordsTypedSame DEF EngineScan, Quiet, RepositoryTyped
  <1>10. CASE EngineDecide /\ UNCHANGED ownVars
    <2>1. job' \in Operations /\ job'.step \in {"unchanged", "archive"} /\ job'.content = job.content
      BY <1>10, EngineDecideDoes
    <2>2. JobNamed'
      BY <1>10, <2>1 DEF JobNamed, RepositoryTyped, EngineDecide, At
    <2> QED
      BY <1>10, <2>1, <2>2, TypedQuiet, RecordsTypedSame DEF EngineDecide, Quiet, RepositoryTyped
  <1>11. CASE (PlainFails \/ UnlinkFails) /\ UNCHANGED ownVars
    <2>1. PICK s \in {"failed", "notDeleted"} : Goto(s)
      BY <1>11 DEF PlainFails, UnlinkFails
    <2>2. s \in JobSteps
      BY DEF JobSteps
    <2>3. job' \in Operations /\ job'.step = s
      BY <2>1, <2>2, GoesTo DEF RepositoryTyped
    <2>4. JobNamed'
      BY <2>3 DEF JobNamed
    <2> QED
      BY <1>11, <2>3, <2>4, TypedQuiet, RecordsTypedSame DEF PlainFails, UnlinkFails, Quiet, RepositoryTyped
  <1>12. CASE (StartManualBackup \/ StartManualDelete) /\ UNCHANGED ownVars
    <2>1. job' \in Operations /\ job'.step \in {"plain", "scan", "unlink"}
      BY <1>12, StartManualBackupDoes, StartManualDeleteDoes
    <2>2. JobNamed'
      BY <2>1 DEF JobNamed
    <2>3. WorldTyped'
      <3>1. /\ manual < MaxManual /\ manual' = manual + 1
            /\ UNCHANGED <<source, lastName, damaged>>
        BY <1>12 DEF StartManualBackup, StartManualDelete
      <3>2. WorldTyped
        BY DEF RepositoryTyped
      <3> QED
        BY <3>1, <3>2 DEF WorldTyped
    <2>4. FilesTyped'
      BY <1>12, FilesTypedSame DEF StartManualBackup, StartManualDelete, RepositoryTyped
    <2> QED
      BY <1>12, <2>1, <2>2, <2>3, <2>4, RecordsTypedSame DEF RepositoryTyped
  <1> QED
    BY <1>1, <1>2, <1>3, <1>4, <1>5, <1>6, <1>7, <1>8, <1>9, <1>10, <1>11, <1>12
       DEF RoundActions

LEMMA RoundSteps ==
    ASSUME Typed, RoundActions
    PROVE  /\ UNCHANGED <<files, source, lastName, damaged>>
           /\ job'.step \notin {"manifest", "identity", "done", "sweep"}
           /\ job'.step = "archive" => EngineDecide /\ UNCHANGED ownVars
           /\ job'.step = "unlink" => Retain \/ (StartManualDelete /\ UNCHANGED ownVars)
           /\ job'.step = "unchanged" => Compare \/ (EngineDecide /\ UNCHANGED ownVars)
           /\ job'.step = "saveManifest" => Record
           /\ job'.step = "compare" => StartRound
  <1>0. NoJob.step = "idle"
    BY NoJobIsAJob
  <1>1. CASE StartRound
    <2>1. job'.step = "compare"
      BY <1>1, StartRoundDoes
    <2> QED
      BY <1>1, <2>1 DEF StartRound, world
  <1>2. CASE Compare
    <2>1. PICK s \in {"scan", "unchanged", "plain"} : Goto(s)
      <3>1. config.strategy \in {"full", "incremental"}
        BY ScheduleAssumption DEF RepositoryTyped, RecordsTyped
      <3> QED
        BY <1>2, <3>1 DEF Compare
    <2>2. job'.step = s
      <3>1. s \in JobSteps
        BY DEF JobSteps
      <3> QED
        BY <2>1, <3>1, GoesTo DEF RepositoryTyped
    <2> QED
      BY <1>2, <2>2 DEF Compare, world
  <1>3. CASE Record
    <2>1. job.name \in Names
      BY <1>3 DEF Record, RepositoryTyped, JobNamed, At
    <2>2. job'.step = "saveManifest"
      BY <1>3, <2>1, RecordDoes
    <2> QED
      BY <1>3, <2>2 DEF Record, world
  <1>4. CASE SaveManifest
    <2>1. job'.step = "retain"
      BY <1>4, SaveManifestDoes
    <2> QED
      BY <1>4, <2>1 DEF SaveManifest, world
  <1>5. CASE Retain
    <2>1. job'.step \in {"save", "tidy", "unlink"}
      BY <1>5, RetainDoes
    <2> QED
      BY <1>5, <2>1 DEF Retain, world
  <1>6. CASE EndRetention
    <2>1. PICK s \in {"tidy", "save"} : Goto(s)
      BY <1>6 DEF EndRetention
    <2>2. job'.step = s
      <3>1. s \in JobSteps
        BY DEF JobSteps
      <3> QED
        BY <2>1, <3>1, GoesTo DEF RepositoryTyped
    <2> QED
      BY <1>6, <2>2 DEF EndRetention, world
  <1>7. CASE Ending
    BY <1>0, <1>7, EndingDoes DEF world
  <1>8. CASE Reconfigure
    <2>1. job'.step = "idle"
      BY <1>8 DEF Reconfigure, repoVars, Idle
    <2> QED
      BY <1>8, <2>1 DEF Reconfigure, repoVars, files
  <1>9. CASE EngineScan /\ UNCHANGED ownVars
    BY <1>9, EngineScanDoes DEF EngineScan, world
  <1>10. CASE EngineDecide /\ UNCHANGED ownVars
    <2>1. job'.step \in {"unchanged", "archive"}
      BY <1>10, EngineDecideDoes
    <2> QED
      BY <1>10, <2>1 DEF EngineDecide, world
  <1>11. CASE (PlainFails \/ UnlinkFails) /\ UNCHANGED ownVars
    <2>1. PICK s \in {"failed", "notDeleted"} : Goto(s)
      BY <1>11 DEF PlainFails, UnlinkFails
    <2>2. job'.step = s
      <3>1. s \in JobSteps
        BY DEF JobSteps
      <3> QED
        BY <2>1, <3>1, GoesTo DEF RepositoryTyped
    <2> QED
      BY <1>11, <2>2 DEF PlainFails, UnlinkFails, world
  <1>12. CASE StartManualBackup /\ UNCHANGED ownVars
    BY <1>12, StartManualBackupDoes DEF StartManualBackup
  <1>13. CASE StartManualDelete /\ UNCHANGED ownVars
    BY <1>13, StartManualDeleteDoes DEF StartManualDelete
  <1> QED
    BY <1>1, <1>2, <1>3, <1>4, <1>5, <1>6, <1>7, <1>8, <1>9, <1>10, <1>11, <1>12, <1>13
       DEF RoundActions

LEMMA RoundsKeep == ASSUME Typed, RoundActions PROVE KeepsSnapshots
  <1>1. Typed'
    BY TypedRounds
  <1>2. UNCHANGED <<archive, manifest, identity, marker, source, lastName, damaged>>
    BY RoundSteps DEF files
  <1>3. manual' = manual \/ (manual' = manual + 1 /\ manual < MaxManual)
    <2>1. CASE (StartManualBackup \/ StartManualDelete) /\ UNCHANGED ownVars
      BY <2>1 DEF StartManualBackup, StartManualDelete
    <2>2. CASE Ending
      BY <2>2, EndingDoes DEF world
    <2>3. CASE Reconfigure
      BY <2>3 DEF Reconfigure, repoVars
    <2>4. CASE \/ StartRound \/ Compare \/ Record \/ SaveManifest \/ Retain \/ EndRetention
               \/ EngineScan \/ EngineDecide \/ PlainFails \/ UnlinkFails
      BY <2>4
         DEF StartRound, Compare, Record, SaveManifest, Retain, EndRetention, EngineScan,
             EngineDecide, PlainFails, UnlinkFails, world
    <2> QED
      BY <2>1, <2>2, <2>3, <2>4 DEF RoundActions
  <1>4. job'.step = "unlink" => DeletionAccepted(job'.doomed)
    BY RoundSteps, RetainDoes, StartManualDeleteDoes
  <1>5. job'.step \notin {"manifest", "identity", "sweep"} /\ (job'.step = "archive" => EngineDecide)
    BY RoundSteps
  <1> QED
    BY <1>1, <1>2, <1>3, <1>4, <1>5 DEF KeepsSnapshots, RepositoryTyped

LEMMA DeletionsDelete == ASSUME Typed, DeletionActions PROVE DeletesSnapshots
  <1>1. CASE Tidy
    <2>1. "save" \in JobSteps
      BY DEF JobSteps
    <2>2. job' \in Operations /\ job'.step = "save"
      BY <1>1, <2>1, GoesTo DEF Tidy, RepositoryTyped
    <2> QED
      BY <1>1, <2>2 DEF Tidy, DeletesSnapshots, CleansOrphans
  <1>2. CASE ~Tidy
    BY <1>2 DEF DeletionActions, DeletesSnapshots, UnlinkManaged, UnlinkOwn
  <1> QED
    BY <1>1, <1>2

\* A step of the service is a step over the repository.
LEMMA StepsAreRepositorySteps == ASSUME Typed, [Next]_vars PROVE RepositoryStep
  BY Actions, RoundsKeep, DeletionsDelete DEF RepositoryStep, vars

LEMMA TypedStep == ASSUME Typed, [Next]_vars PROVE Typed'
  <1>1. RepositoryTyped'
    BY StepsAreRepositorySteps, RepositoryTypedStep
  <1>2. RecordsTyped'
    <2>1. CASE RoundActions
      BY <2>1, TypedRounds
    <2>2. CASE Tidy
      BY <2>2 DEF Tidy, RecordsTyped, Records
    <2>3. CASE \E n \in Names : UnlinkManaged(n)
      BY <2>3 DEF UnlinkManaged, RecordsTyped, Records
    <2>4. CASE UNCHANGED ownVars
      BY <2>4, RecordsTypedSame
    <2> QED
      BY <2>1, <2>2, <2>3, <2>4, Actions DEF DeletionActions, UnlinkOwn, vars, ownVars
  <1> QED
    BY <1>1, <1>2

LEMMA TypedInit == Init => Typed
  <1>1. EmptyDocument \in Records
    BY DEF EmptyDocument, Records
  <1>2. Init => RecordsTyped
    BY <1>1 DEF Init, RecordsTyped
  <1> QED
    BY <1>2, RepositoryStarts DEF Init, RepositoryInv

LEMMA TypedImpliesTypeOK == Typed => ScheduleTypeOK
  BY NoFileIsNoFile
     DEF RepositoryTyped, FilesTyped, WorldTyped, RecordsTyped, ScheduleTypeOK, Records, Operations,
         Archives, Identities, Envelopes, IsDeltaOf, Exists

\* What a round and a retention leave in the documents and sidecars is what the
\* code writes there (ScheduleTypeOK), in any state a crash may leave.
THEOREM ScheduleTypeCorrect == Spec => []ScheduleTypeOK
  <1>1. Init => Typed
    BY TypedInit
  <1>2. Typed /\ [Next]_vars => Typed'
    BY TypedStep
  <1> QED
    BY <1>1, <1>2, TypedImpliesTypeOK, PTL DEF Spec

-----------------------------------------------------------------------------
(* The repository under the scheduled backup *)

LEMMA ServiceKeepsRepository == Spec => [](Typed /\ RepositoryInv)
  <1>1. Init => Typed /\ RepositoryInv
    BY TypedInit, RepositoryStarts DEF Init
  <1>2. Typed /\ RepositoryInv /\ [Next]_vars => (Typed /\ RepositoryInv)'
    BY TypedStep, StepsAreRepositorySteps, RepositoryInvStep
  <1> QED
    BY <1>1, <1>2, PTL DEF Spec

\* Under the schedule, sidecars that pass verification describe the archive
\* beside them, whatever crash or copy came between archive, manifest and
\* identity (PublishSnapshotSidecars, LoadVerifiedSnapshotIdentity).
THEOREM SidecarsAreTrue == Spec => []VerifiedManifestsTellTheTruth
  BY ServiceKeepsRepository, InvMeansTrue, PTL

\* No round, no retention, no deletion and no crash of the schedule leaves an
\* archive that its chain no longer restores, and no chain grows deeper than a
\* restore accepts (RunIncrementalBackup, DeleteSnapshots).
THEOREM SnapshotsStayRestorable == Spec => []ChainsStayRestorable
  BY ServiceKeepsRepository, InvMeansChains, PTL

-----------------------------------------------------------------------------
(* Retention *)

\* What the retention is about to delete, it has recorded, and no snapshot the
\* user expects to keep is made on it.
Sparing ==
  job.who = "schedule" /\ job.step \in {"unlink", "sweep"} =>
    /\ job.doomed \subseteq memory.managed
    /\ \A m \in NewestOf(memory.managed, RetainCount) :
         job.doomed \cap ChainOf(archive, m) = {}

LEMMA SparingStep ==
    ASSUME Typed, Typed', Sparing, [Next]_vars
    PROVE  Sparing'
  <1>k. RetainCount \in Nat
    BY ScheduleAssumption
  <1>m. memory.managed \in SUBSET Names /\ \A k \in Nat : NewestOf(memory.managed, k) \subseteq Names
    BY DEF RepositoryTyped, RecordsTyped, Records, NewestOf
  <1>1. CASE RoundActions
    <2> SUFFICES ASSUME job'.who = "schedule", job'.step = "unlink" PROVE Sparing'
      BY <1>1, RoundSteps DEF Sparing
    <2>1. Retain
      BY <1>1, RoundSteps, StartManualDeleteDoes
    <2>2. /\ ~Uncertain(memory.managed, RetainCount)
          /\ job'.doomed = Removable(memory.managed, RetainCount)
      BY <2>1, RetainDoes
    <2>3. job'.doomed = memory.managed \ Keep(memory.managed, RetainCount)
      BY <2>2 DEF Removable
    <2>4. \A m : Chain(m) = ChainOf(archive, m)
      BY ChainIsChainOf
    <2>5. archive' = archive /\ memory' = memory
      BY <2>1 DEF Retain, files, ownVars
    <2> QED
      BY <2>3, <2>4, <2>5 DEF Sparing, Keep
  <1>2. CASE DeletionActions
    <2>1. CASE Sweep /\ UNCHANGED ownVars
      <3>1. PICK s \in {"deleted", "unlink"} : Goto(s)
        BY <2>1 DEF Sweep
      <3>2. s \in JobSteps
        BY DEF JobSteps
      <3>3. job'.step = s /\ SameJob(job, job')
        BY <3>1, <3>2, GoesTo DEF RepositoryTyped
      <3> QED
        BY <2>1, <3>3 DEF Sweep, At, Sparing, SameJob, ownVars
    <2>2. ASSUME NEW CONSTANT n \in Names, UnlinkManaged(n) PROVE Sparing'
      <3>1. /\ job'.step = "sweep" /\ job'.doomed = job.doomed \ {n}
            /\ job.step = "unlink" /\ job.who = "schedule" /\ n \in job.doomed
        BY <2>2, UnlinkDoes DEF UnlinkManaged, Unlink, NextToDelete, At
      <3>2. archive'[n] = NoFile /\ \A m \in Names : m # n => archive'[m] = archive[m]
        BY <2>2 DEF UnlinkManaged, Unlink, RepositoryTyped, FilesTyped
      <3>3. memory'.managed = memory.managed \ {n}
        BY <2>2 DEF UnlinkManaged, RepositoryTyped, RecordsTyped, Records
      <3>4. /\ job.doomed \subseteq memory.managed
            /\ \A m \in NewestOf(memory.managed, RetainCount) :
                 job.doomed \cap ChainOf(archive, m) = {}
        BY <3>1 DEF Sparing
      <3>5. n \notin NewestOf(memory.managed, RetainCount)
        BY <3>1, <3>4, ChainStarts
      <3>6. NewestOf(memory'.managed, RetainCount) \subseteq NewestOf(memory.managed, RetainCount)
        BY <1>k, <1>m, <3>1, <3>3, <3>4, <3>5, NewestWithout
      <3>7. \A m \in Names : ChainOf(archive', m) \subseteq ChainOf(archive, m)
        BY <2>2, UnlinkShrinks DEF UnlinkManaged
      <3>8. \A m \in NewestOf(memory'.managed, RetainCount) :
              job'.doomed \cap ChainOf(archive', m) = {}
        BY <1>k, <1>m, <3>1, <3>4, <3>6, <3>7
      <3> QED
        BY <3>1, <3>3, <3>4, <3>8 DEF Sparing
    <2>3. ASSUME NEW n \in Names, UnlinkOwn(n) PROVE Sparing'
      BY <2>3, UnlinkDoes DEF UnlinkOwn, Sparing
    <2>4. CASE Tidy
      <3>1. "save" \in JobSteps
        BY DEF JobSteps
      <3>2. job'.step = "save"
        BY <2>4, <3>1, GoesTo DEF Tidy, RepositoryTyped
      <3> QED
        BY <3>2 DEF Sparing
    <2> QED
      BY <1>2, <2>1, <2>2, <2>3, <2>4 DEF DeletionActions
  <1>3. CASE MakesSnapshot /\ UNCHANGED ownVars
    BY <1>3, EngineSteps DEF Sparing
  <1>4. CASE TouchesByHand /\ UNCHANGED ownVars
    <2>1. job' = job /\ memory' = memory
      BY <1>4, HandSteps DEF ownVars
    <2>2. \A m \in Names : ChainOf(archive', m) \subseteq ChainOf(archive, m)
      BY <1>4, HandDepths
    <2> QED
      BY <1>k, <1>m, <2>1, <2>2 DEF Sparing
  <1>5. CASE UNCHANGED vars
    BY <1>5 DEF vars, repoVars, ownVars, Sparing
  <1> QED
    BY <1>1, <1>2, <1>3, <1>4, <1>5, Actions

\* The retention of the schedule deletes only what it has recorded, and nothing
\* that one of the newest RetainCount of them is made on, whatever happens
\* between one deletion and the next (RunRetention).
THEOREM RetentionNeverTakesTheNewest == Spec => RetentionSparesTheNewest
  <1>1. Init => Typed /\ Sparing
    <2>1. Init => job.step = "idle"
      BY NoJobIsAJob DEF Init, RepositoryInit
    <2> QED
      BY <2>1, TypedInit DEF Sparing
  <1>2. Typed /\ Sparing /\ [Next]_vars => (Typed /\ Sparing)'
    BY TypedStep, SparingStep
  <1>3. Typed /\ Sparing /\ [Next]_vars =>
          [\A n \in Names :
             job.who = "schedule" /\ At("unlink") /\ Exists(n) /\ archive'[n] = NoFile
               /\ manual' = manual
               => /\ n \in memory.managed
                  /\ \A m \in NewestOf(memory.managed, RetainCount) : n \notin Chain(m)]_vars
    <2>1. \A m : Chain(m) = ChainOf(archive, m)
      BY ChainIsChainOf
    <2> QED
      BY <2>1, StepsAreRepositorySteps, UnlinkedIsDoomed DEF Sparing, At
  <1> QED
    BY <1>1, <1>2, <1>3, PTL DEF Spec, RetentionSparesTheNewest

-----------------------------------------------------------------------------
(* What the schedule may skip, while the source moves forward and the clock *)
(* too                                                                      *)

\* n, unless it is gone or the user has touched it, holds c or something newer.
Newer(n, c) ==
  Exists(n) /\ n \notin damaged =>
    archive[n].content.filter = c.filter /\ archive[n].content.version >= c.version
Aged(v) == \A n \in Names \ damaged : Exists(n) => archive[n].content.version <= v

Running == {"compare", "scan", "decide", "archive", "manifest", "identity", "done",
            "plain", "unchanged", "saveManifest"}
Scanned ==
  /\ job.content # NoFile => job.content.version <= source
  /\ job.who = "schedule" /\ job.step \in Running =>
       /\ job.scanned \in Contents
       /\ job.scanned.filter = job.filter /\ job.scanned.version <= source
       /\ job.content # NoFile =>
            job.content.filter = job.filter /\ job.content.version >= job.scanned.version
Comparing ==
  job.step = "compare" =>
    job.who = "schedule" /\ job.content = NoFile /\ Aged(job.scanned.version)
Making ==
  job.who = "schedule" /\ job.step \in {"manifest", "identity", "done"} =>
    job.name <= lastName /\ Newer(job.name, job.scanned)
Saving ==
  job.step = "saveManifest" =>
    /\ job.who = "schedule"
    /\ memory.baseline \in Names /\ memory.baseline <= lastName
    /\ Newer(memory.baseline, job.scanned)
Manifested ==
  sourceManifest # NoFile =>
    /\ sourceManifest.owner \in Names /\ sourceManifest.owner <= lastName
    /\ sourceManifest.content \in Contents
    /\ Newer(sourceManifest.owner, sourceManifest.content)
Skipping ==
  job.step = "unchanged" =>
    /\ job.content # NoFile =>
         /\ job.parent \in Names
         /\ job.parent \in damaged \/ (Exists(job.parent) /\ archive[job.parent].content = job.content)
    /\ job.who = "schedule" /\ job.content = NoFile =>
         /\ memory.baseline \in Names
         /\ \/ memory.baseline \in damaged
            \/ Exists(memory.baseline) /\ archive[memory.baseline].content = job.scanned

LEMMA SourceMovesOn ==
    ASSUME Typed, ~Reverts, [Next]_vars
    PROVE  source' >= source /\ source \in Int /\ source' \in Int
  <1>0. source \in Int
    BY DEF RepositoryTyped, WorldTyped, Versions
  <1>1. CASE SourceChanges
    <2>1. source' = source + 1
      BY <1>1 DEF SourceChanges
    <2> QED
      BY <1>0, <2>1
  <1>2. CASE ~SourceChanges
    <2>1. source' = source
      <3>1. CASE RoundActions
        BY <3>1, RoundSteps
      <3>2. CASE DeletionActions
        BY <3>2, DeletionsDelete, DeletionSteps DEF world
      <3>3. CASE MakesSnapshot /\ UNCHANGED ownVars
        BY <3>3, EngineSteps
      <3>4. CASE TouchesByHand /\ UNCHANGED ownVars
        BY <1>2, <3>4, HandSteps
      <3>5. CASE UNCHANGED vars
        BY <3>5 DEF vars, repoVars
      <3> QED
        BY <3>1, <3>2, <3>3, <3>4, <3>5, Actions
    <2> QED
      BY <1>0, <2>1
  <1> QED
    BY <1>1, <1>2

\* What was said of an earlier archive stays true.
LEMMA NewerStays ==
    ASSUME Typed, Typed', ~ClockGoesBack, [Next]_vars,
           NEW CONSTANT n \in Names, NEW CONSTANT c, n <= lastName, Newer(n, c)
    PROVE  Newer(n, c)' /\ n <= lastName'
  <1>1. ~Made(n)
    BY StepsAreRepositorySteps, NamesMoveOn DEF Names
  <1>2. n \in damaged' \/ archive'[n] = archive[n] \/ archive'[n] = NoFile
    BY <1>1, StepsAreRepositorySteps, ArchivesStay
  <1>3. damaged \subseteq damaged'
    BY StepsAreRepositorySteps, ArchivesStay
  <1>4. n <= lastName'
    BY StepsAreRepositorySteps, NamesMoveOn DEF Names
  <1> QED
    BY <1>2, <1>3, <1>4 DEF Newer, Exists

\* ... and what an undamaged archive holds, also.
LEMMA AgedStays ==
    ASSUME Typed, [Next]_vars, ~EngineArchive, ~PlainArchive, NEW CONSTANT v, Aged(v)
    PROVE  Aged(v)'
  <1>1. damaged \subseteq damaged'
    BY StepsAreRepositorySteps, ArchivesStay
  <1>2. \A n \in Names : n \in damaged' \/ archive'[n] = archive[n] \/ archive'[n] = NoFile
    BY StepsAreRepositorySteps, ArchivesStay DEF Made
  <1> QED
    BY <1>1, <1>2 DEF Aged, Exists

\* Only these steps change what an operation has scanned and for whom it works.
Turning ==
  \/ StartRound \/ SaveManifest \/ Ending
  \/ (EngineScan \/ StartManualBackup \/ StartManualDelete) /\ UNCHANGED ownVars

LEMMA FieldsStay ==
    ASSUME Typed, [Next]_vars, ~Turning
    PROVE  /\ job'.content = job.content /\ job'.scanned = job.scanned
           /\ job'.filter = job.filter /\ job'.who = job.who
           /\ job'.step \in Running => job.step \in Running
  <1>s. ASSUME NEW s \in JobSteps, Goto(s), s \in Running => job.step \in Running
        PROVE  /\ job'.content = job.content /\ job'.scanned = job.scanned
               /\ job'.filter = job.filter /\ job'.who = job.who
               /\ job'.step \in Running => job.step \in Running
    BY <1>s, GoesTo DEF RepositoryTyped, SameJob
  <1>j. "compare" \in JobSteps /\ "scan" \in JobSteps /\ "unchanged" \in JobSteps
        /\ "plain" \in JobSteps /\ "saveManifest" \in JobSteps /\ "tidy" \in JobSteps
        /\ "save" \in JobSteps /\ "failed" \in JobSteps /\ "notDeleted" \in JobSteps
        /\ "deleted" \in JobSteps /\ "unlink" \in JobSteps /\ "identity" \in JobSteps
        /\ "done" \in JobSteps
    BY DEF JobSteps
  <1>1. CASE RoundActions
    <2>1. CASE Compare
      <3>1. PICK s \in {"scan", "unchanged", "plain"} : Goto(s)
        <4>1. config.strategy \in {"full", "incremental"}
          BY ScheduleAssumption DEF RepositoryTyped, RecordsTyped
        <4> QED
          BY <2>1, <4>1 DEF Compare
      <3>2. job.step \in Running /\ s \in JobSteps
        BY <1>j, <2>1 DEF Compare, At, Running
      <3> QED
        BY <1>s, <3>1, <3>2
    <2>2. CASE Record
      <3>1. Goto("saveManifest") /\ job.step \in Running
        BY <2>2 DEF Record, At, Running
      <3> QED
        BY <1>s, <1>j, <3>1
    <2>3. CASE Retain
      BY <2>3, RetainDoes DEF Running
    <2>4. CASE EndRetention
      <3>1. PICK s \in {"tidy", "save"} : Goto(s)
        BY <2>4 DEF EndRetention
      <3>2. s \in JobSteps /\ s \notin Running
        BY <1>j DEF Running
      <3> QED
        BY <1>s, <3>1, <3>2
    <2>5. CASE PlainFails \/ UnlinkFails
      <3>1. PICK s \in {"failed", "notDeleted"} : Goto(s)
        BY <2>5 DEF PlainFails, UnlinkFails
      <3>2. s \in JobSteps /\ s \notin Running
        BY <1>j DEF Running
      <3> QED
        BY <1>s, <3>1, <3>2
    <2>6. CASE EngineDecide
      <3>1. job.step \in Running
        BY <2>6 DEF EngineDecide, At, Running
      <3> QED
        BY <2>6, <3>1, EngineDecideDoes
    <2>7. CASE Reconfigure
      BY <2>7 DEF Reconfigure, repoVars
    <2> QED
      BY <1>1, <2>1, <2>2, <2>3, <2>4, <2>5, <2>6, <2>7 DEF RoundActions, Turning
  <1>2. CASE DeletionActions
    <2>1. CASE Sweep
      <3>1. PICK s \in {"deleted", "unlink"} : Goto(s)
        BY <2>1 DEF Sweep
      <3>2. s \in JobSteps /\ s \notin Running
        BY <1>j DEF Running
      <3> QED
        BY <1>s, <3>1, <3>2
    <2>2. CASE Tidy
      <3>1. Goto("save") /\ "save" \notin Running
        BY <2>2 DEF Tidy, Running
      <3> QED
        BY <1>s, <1>j, <3>1
    <2>3. ASSUME NEW n \in Names, Unlink(n)
          PROVE  /\ job'.content = job.content /\ job'.scanned = job.scanned
                 /\ job'.filter = job.filter /\ job'.who = job.who
                 /\ job'.step \in Running => job.step \in Running
      BY <2>3, UnlinkDoes DEF Running
    <2> QED
      BY <1>2, <2>1, <2>2, <2>3 DEF DeletionActions, UnlinkManaged, UnlinkOwn
  <1>3. CASE MakesSnapshot /\ UNCHANGED ownVars
    <2>0. job.step \in Running
      BY <1>3 DEF MakesSnapshot, EngineArchive, EngineManifest, EngineIdentity, EngineFails,
                  PlainArchive, At, Running
    <2>1. CASE EngineArchive
      BY <2>0, <2>1, EngineArchiveDoes
    <2>2. CASE PlainArchive
      BY <2>0, <2>2, PlainArchiveDoes
    <2>3. CASE EngineManifest \/ EngineIdentity \/ EngineFails
      <3>1. PICK s \in {"identity", "done", "failed"} : Goto(s)
        BY <2>3 DEF EngineManifest, EngineIdentity, EngineFails
      <3> QED
        BY <1>s, <1>j, <2>0, <3>1
    <2> QED
      BY <1>3, <2>1, <2>2, <2>3 DEF MakesSnapshot
  <1>4. CASE TouchesByHand /\ UNCHANGED ownVars
    BY <1>4, HandSteps
  <1>5. CASE UNCHANGED vars
    BY <1>5 DEF vars, repoVars
  <1> QED
    BY <1>1, <1>2, <1>3, <1>4, <1>5, Actions

LEMMA VersionsAreNumbers ==
    ASSUME NEW c \in Contents
    PROVE  c.version \in Int /\ c.filter \in Filters /\ c # NoFile
  BY NoFileIsNoFile DEF Contents, Versions

LEMMA ContentsOfJob ==
    ASSUME job \in Operations
    PROVE  /\ job.content # NoFile => job.content \in Contents
           /\ job.scanned # NoFile => job.scanned \in Contents
           /\ job.filter \in Filters
  BY DEF Operations

LEMMA ScannedStep ==
    ASSUME Typed, Typed', ~Reverts, Scanned, [Next]_vars
    PROVE  Scanned'
  <1>0. source' >= source /\ source \in Int /\ source' \in Int
    BY SourceMovesOn
  <1>j. /\ job.content # NoFile => job.content \in Contents
        /\ job.filter \in Filters
    BY ContentsOfJob DEF RepositoryTyped
  <1>1. CASE ~Turning
    <2>1. /\ job'.content = job.content /\ job'.scanned = job.scanned
          /\ job'.filter = job.filter /\ job'.who = job.who
          /\ job'.step \in Running => job.step \in Running
      BY <1>1, FieldsStay
    <2>2. job'.content # NoFile => job'.content.version <= source'
      <3> SUFFICES ASSUME job.content # NoFile PROVE job.content.version <= source'
        BY <2>1
      <3>1. job.content.version \in Int /\ job.content.version <= source
        BY <1>j, VersionsAreNumbers DEF Scanned
      <3> QED
        BY <1>0, <3>1
    <2>3. ASSUME job'.who = "schedule", job'.step \in Running
          PROVE  /\ job'.scanned \in Contents
                 /\ job'.scanned.filter = job'.filter /\ job'.scanned.version <= source'
                 /\ job'.content # NoFile => /\ job'.content.filter = job'.filter
                                             /\ job'.content.version >= job'.scanned.version
      <3>1. /\ job.scanned \in Contents
            /\ job.scanned.filter = job.filter /\ job.scanned.version <= source
            /\ job.content # NoFile =>
                 job.content.filter = job.filter /\ job.content.version >= job.scanned.version
        BY <2>1, <2>3 DEF Scanned
      <3>2. job.scanned.version <= source'
        <4>1. job.scanned.version \in Int
          BY <3>1, VersionsAreNumbers
        <4> QED
          BY <1>0, <3>1, <4>1
      <3> QED
        BY <2>1, <3>1, <3>2
    <2> QED
      BY <2>2, <2>3 DEF Scanned
  <1>2. CASE StartRound
    <2>1. config.filter \in Filters /\ source \in Versions
      BY DEF RepositoryTyped, RecordsTyped, WorldTyped
    <2>2. /\ job'.content = NoFile /\ job'.filter = config.filter
          /\ job'.scanned = Scan(config.filter) /\ source' = source
      BY <1>2, StartRoundDoes DEF StartRound, world
    <2>3. /\ Scan(config.filter) \in Contents /\ Scan(config.filter).version = source
          /\ Scan(config.filter).filter = config.filter
      BY <2>1, ScanIsContent
    <2> QED
      BY <1>0, <2>2, <2>3 DEF Scanned
  <1>3. CASE EngineScan
    <2>1. /\ Scan(job.filter) \in Contents /\ Scan(job.filter).version = source
          /\ Scan(job.filter).filter = job.filter
      BY <1>j, ScanIsContent DEF RepositoryTyped, WorldTyped
    <2>2. /\ job'.content = Scan(job.filter) /\ job'.who = job.who
          /\ job'.filter = job.filter /\ job'.scanned = job.scanned /\ source' = source
      BY <1>3, EngineScanDoes DEF EngineScan, world
    <2>3. job.step \in Running
      BY <1>3 DEF EngineScan, At, Running
    <2>4. job.who = "schedule" =>
            /\ job.scanned \in Contents
            /\ job.scanned.filter = job.filter /\ job.scanned.version <= source
            /\ job.scanned.version \in Int
      BY <2>3, VersionsAreNumbers DEF Scanned
    <2>5. source <= source
      BY <1>0
    <2>6. job.who = "schedule" => source >= job.scanned.version
      BY <1>0, <2>4
    <2> QED
      BY <2>1, <2>2, <2>4, <2>5, <2>6 DEF Scanned
  <1>4. CASE SaveManifest
    BY <1>4, SaveManifestDoes DEF Scanned, Running
  <1>5. CASE Ending
    BY <1>5, EndingDoes, NoJobIsAJob DEF Scanned, Running
  <1>6. CASE StartManualBackup
    BY <1>6, StartManualBackupDoes DEF Scanned
  <1>7. CASE StartManualDelete
    BY <1>7, StartManualDeleteDoes DEF Scanned
  <1> QED
    BY <1>1, <1>2, <1>3, <1>4, <1>5, <1>6, <1>7 DEF Turning

LEMMA ArchiveContents ==
    ASSUME Typed, NEW n \in Names, Exists(n)
    PROVE  archive[n].content \in Contents
  BY DEF RepositoryTyped, FilesTyped, Archives, Exists

LEMMA AgedStep ==
    ASSUME Typed, Typed', ~Reverts, Scanned, Aged(source), [Next]_vars
    PROVE  Aged(source)'
  <1>0. source' >= source /\ source \in Int /\ source' \in Int
    BY SourceMovesOn
  <1> SUFFICES ASSUME NEW n \in Names, n \notin damaged', Exists(n)'
               PROVE  archive'[n].content.version <= source'
    BY DEF Aged
  <1>1. CASE archive'[n] = archive[n]
    <2>1. Exists(n) /\ n \notin damaged
      BY <1>1, StepsAreRepositorySteps, ArchivesStay DEF Exists
    <2>2. archive[n].content.version <= source /\ archive[n].content.version \in Int
      BY <2>1, ArchiveContents, VersionsAreNumbers DEF Aged
    <2> QED
      BY <1>0, <1>1, <2>2
  <1>2. CASE Made(n)
    <2>1. CASE EngineArchive
      <3>1. job.content \in Contents
        BY <2>1 DEF EngineArchive, At, RepositoryTyped, JobNamed
      <3>2. job.content.version <= source /\ job.content.version \in Int
        BY <3>1, VersionsAreNumbers DEF Scanned
      <3> QED
        BY <1>0, <1>2, <2>1, <3>2 DEF Made
    <2>2. CASE ~EngineArchive
      <3>1. Scan(job.filter).version = source
        BY ScanIsContent DEF RepositoryTyped, WorldTyped, Operations
      <3> QED
        BY <1>0, <1>2, <2>2, <3>1 DEF Made
    <2> QED
      BY <2>1, <2>2
  <1> QED
    BY <1>1, <1>2, StepsAreRepositorySteps, ArchivesStay DEF Exists

LEMMA ComparingStep ==
    ASSUME Typed, Typed', Aged(source), Comparing, [Next]_vars
    PROVE  Comparing'
  <1> SUFFICES ASSUME job'.step = "compare"
               PROVE  /\ job'.who = "schedule" /\ job'.content = NoFile
                      /\ Aged(job.scanned.version)'
    BY DEF Comparing
  <1>1. CASE RoundActions
    <2>1. StartRound
      BY <1>1, RoundSteps
    <2>2. /\ job'.who = "schedule" /\ job'.content = NoFile
          /\ job'.scanned = Scan(config.filter)
      BY <2>1, StartRoundDoes
    <2>3. job'.scanned.version = source
      BY <2>2, ScanIsContent DEF RepositoryTyped, RecordsTyped, WorldTyped
    <2>4. UNCHANGED <<archive, damaged>>
      BY <1>1, RoundSteps DEF files
    <2> QED
      BY <2>2, <2>3, <2>4 DEF Aged, Exists
  <1>2. CASE DeletionActions
    BY <1>2, DeletionsDelete, DeletionSteps
  <1>3. CASE MakesSnapshot /\ UNCHANGED ownVars
    BY <1>3, EngineSteps
  <1>4. CASE (TouchesByHand /\ UNCHANGED ownVars) \/ UNCHANGED vars
    <2>1. job' = job /\ ~EngineArchive /\ ~PlainArchive
      BY <1>4, HandSteps DEF vars, repoVars, EngineArchive, PlainArchive, At
    <2>v. PICK v : v = job.scanned.version
      OBVIOUS
    <2>2. job.who = "schedule" /\ job.content = NoFile /\ Aged(v)
      BY <2>1, <2>v DEF Comparing
    <2>3. Aged(v)'
      BY <2>1, <2>2, AgedStays
    <2>4. v = job'.scanned.version
      BY <2>1, <2>v
    <2> QED
      BY <2>1, <2>2, <2>3, <2>4 DEF Aged
  <1> QED
    BY <1>1, <1>2, <1>3, <1>4, Actions

LEMMA MakingStep ==
    ASSUME Typed, Typed', ~ClockGoesBack, Scanned, Making, [Next]_vars
    PROVE  Making'
  <1> SUFFICES ASSUME job'.who = "schedule", job'.step \in {"manifest", "identity", "done"}
               PROVE  job'.name <= lastName' /\ Newer(job.name, job.scanned)'
    BY DEF Making
  <1>k. ASSUME job.step \in {"manifest", "identity"}, job'.name = job.name,
               job'.scanned = job.scanned, job.who = "schedule"
        PROVE  job'.name <= lastName' /\ Newer(job.name, job.scanned)'
    <2>n. PICK n : n = job.name
      OBVIOUS
    <2>c. PICK c : c = job.scanned
      OBVIOUS
    <2>1. n \in Names /\ n <= lastName /\ Newer(n, c)
      BY <1>k, <2>n, <2>c DEF RepositoryTyped, JobNamed, Making
    <2>2. Newer(n, c)' /\ n <= lastName'
      BY <2>1, NewerStays
    <2>3. n = job'.name /\ c = job'.scanned
      BY <1>k, <2>n, <2>c
    <2> QED
      BY <2>2, <2>3 DEF Newer
  <1>1. CASE RoundActions
    BY <1>1, RoundSteps
  <1>2. CASE DeletionActions
    BY <1>2, DeletionsDelete, DeletionSteps
  <1>3. CASE MakesSnapshot /\ UNCHANGED ownVars
    <2>1. CASE EngineArchive
      <3>n. PICK n \in Names :
               /\ ~Exists(n) /\ (ClockGoesBack \/ n = lastName + 1)
               /\ job.parent # NoName => Exists(job.parent)
               /\ archive' = [archive EXCEPT ![n] = NewArchive]
               /\ lastName' = IF n > lastName THEN n ELSE lastName
               /\ job'.name = n /\ job'.scanned = job.scanned /\ job'.who = job.who
        BY <2>1, EngineArchiveDoes
      <3>1. archive'[n].content = job.content
        BY <2>1, <3>n, NewArchiveIs DEF EngineArchive, RepositoryTyped, FilesTyped
      <3>2. job.step = "archive" /\ job.content # NoFile
        BY <2>1, NoFileIsNoFile DEF EngineArchive, At, RepositoryTyped, JobNamed
      <3>3. /\ job.scanned.filter = job.filter /\ job.content.filter = job.filter
            /\ job.content.version >= job.scanned.version
        BY <3>n, <3>2 DEF Scanned, Running
      <3>4. n \in Int /\ lastName \in Int /\ n <= lastName'
        BY <3>n DEF RepositoryTyped, WorldTyped, Names, NoName
      <3> QED
        BY <3>n, <3>1, <3>3, <3>4 DEF Newer
    <2>2. CASE PlainArchive /\ ~EngineArchive
      <3>n. PICK n \in Names :
               /\ ~Exists(n) /\ (ClockGoesBack \/ n = lastName + 1)
               /\ archive' = [archive EXCEPT ![n] = Full(Scan(job.filter))]
               /\ lastName' = IF n > lastName THEN n ELSE lastName
               /\ job'.name = n /\ job'.scanned = job.scanned /\ job'.who = job.who
        BY <2>2, PlainArchiveDoes
      <3>0. /\ Scan(job.filter) \in Contents /\ Scan(job.filter).version = source
            /\ Scan(job.filter).filter = job.filter
        BY ScanIsContent DEF RepositoryTyped, WorldTyped, Operations
      <3>1. archive'[n].content = Scan(job.filter)
        BY <3>n, <3>0, FullIsArchive DEF RepositoryTyped, FilesTyped
      <3>2. job.step = "plain"
        BY <2>2 DEF PlainArchive, At
      <3>3. /\ job.scanned.filter = job.filter /\ job.scanned.version <= source
            /\ job.scanned.version \in Int /\ source \in Int
        BY <3>n, <3>2, VersionsAreNumbers DEF Scanned, Running, RepositoryTyped, WorldTyped, Versions
      <3>4. n \in Int /\ lastName \in Int /\ n <= lastName'
        BY <3>n DEF RepositoryTyped, WorldTyped, Names, NoName
      <3> QED
        BY <3>n, <3>0, <3>1, <3>3, <3>4 DEF Newer
    <2>3. CASE ~EngineArchive /\ ~PlainArchive
      <3>1. EngineManifest \/ EngineIdentity
        BY <1>3, <2>3, EngineSteps
      <3>s. PICK s \in {"identity", "done"} : Goto(s)
        BY <3>1 DEF EngineManifest, EngineIdentity
      <3>2. SameJob(job, job')
        <4>1. s \in JobSteps
          BY DEF JobSteps
        <4> QED
          BY <3>s, <4>1, GoesTo DEF RepositoryTyped
      <3>3. job.step \in {"manifest", "identity"}
        BY <3>1 DEF EngineManifest, EngineIdentity, At
      <3> QED
        BY <1>k, <3>2, <3>3 DEF SameJob
    <2> QED
      BY <2>1, <2>2, <2>3
  <1>4. CASE ((TouchesByHand /\ UNCHANGED ownVars) \/ UNCHANGED vars) /\ job.step # "done"
    BY <1>4, <1>k, HandSteps DEF vars, repoVars
  <1>5. CASE ((TouchesByHand /\ UNCHANGED ownVars) \/ UNCHANGED vars) /\ job.step = "done"
    <2>1. job' = job
      BY <1>5, HandSteps DEF vars, repoVars
    <2>n. PICK n : n = job.name
      OBVIOUS
    <2>c. PICK c : c = job.scanned
      OBVIOUS
    <2>2. n \in Names /\ n <= lastName /\ Newer(n, c)
      BY <1>5, <2>1, <2>n, <2>c DEF RepositoryTyped, JobNamed, Making
    <2>3. Newer(n, c)' /\ n <= lastName'
      BY <2>2, NewerStays
    <2>4. n = job'.name /\ c = job'.scanned
      BY <2>1, <2>n, <2>c
    <2> QED
      BY <2>3, <2>4 DEF Newer
  <1> QED
    BY <1>1, <1>2, <1>3, <1>4, <1>5, Actions

LEMMA SavingStep ==
    ASSUME Typed, Typed', ~ClockGoesBack, Making, Saving, [Next]_vars
    PROVE  Saving'
  <1> SUFFICES ASSUME job'.step = "saveManifest" PROVE Saving'
    BY DEF Saving
  <1>1. CASE RoundActions
    <2>1. Record
      BY <1>1, RoundSteps
    <2>2. job.who = "schedule" /\ job.step = "done" /\ job.name \in Names
      BY <2>1 DEF Record, At, RepositoryTyped, JobNamed
    <2>3. SameJob(job, job') /\ memory'.baseline = job.name
      BY <2>1, <2>2, RecordDoes
    <2>4. UNCHANGED <<archive, damaged, lastName>>
      BY <1>1, RoundSteps DEF files
    <2>5. job.name <= lastName /\ Newer(job.name, job.scanned)
      BY <2>2 DEF Making
    <2> QED
      BY <2>2, <2>3, <2>4, <2>5 DEF Saving, SameJob, Newer, Exists
  <1>2. CASE DeletionActions
    BY <1>2, DeletionsDelete, DeletionSteps
  <1>3. CASE MakesSnapshot /\ UNCHANGED ownVars
    BY <1>3, EngineSteps
  <1>4. CASE (TouchesByHand /\ UNCHANGED ownVars) \/ UNCHANGED vars
    <2>1. job' = job /\ memory' = memory
      BY <1>4, HandSteps DEF vars, repoVars, ownVars
    <2>n. PICK n : n = memory.baseline
      OBVIOUS
    <2>c. PICK c : c = job.scanned
      OBVIOUS
    <2>2. job.who = "schedule" /\ n \in Names /\ n <= lastName /\ Newer(n, c)
      BY <2>1, <2>n, <2>c DEF Saving
    <2>3. Newer(n, c)' /\ n <= lastName'
      BY <2>2, NewerStays
    <2>4. n = memory'.baseline /\ c = job'.scanned
      BY <2>1, <2>n, <2>c
    <2> QED
      BY <2>1, <2>2, <2>3, <2>4 DEF Saving, Newer
  <1> QED
    BY <1>1, <1>2, <1>3, <1>4, Actions

LEMMA ManifestedStep ==
    ASSUME Typed, Typed', ~ClockGoesBack, Scanned, Saving, Manifested, [Next]_vars
    PROVE  Manifested'
  <1>k. ASSUME sourceManifest' = sourceManifest PROVE Manifested'
    <2> SUFFICES ASSUME sourceManifest # NoFile PROVE Manifested'
      BY <1>k DEF Manifested
    <2>n. PICK n : n = sourceManifest.owner
      OBVIOUS
    <2>c. PICK c : c = sourceManifest.content
      OBVIOUS
    <2>1. n \in Names /\ n <= lastName /\ c \in Contents /\ Newer(n, c)
      BY <2>n, <2>c DEF Manifested
    <2>2. Newer(n, c)' /\ n <= lastName'
      BY <2>1, NewerStays
    <2>3. n = sourceManifest'.owner /\ c = sourceManifest'.content
      BY <1>k, <2>n, <2>c
    <2> QED
      BY <2>1, <2>2, <2>3 DEF Manifested, Newer
  <1>1. CASE sourceManifest' = sourceManifest
    BY <1>1, <1>k
  <1>2. CASE sourceManifest' # sourceManifest
    <2>1. SaveManifest
      <3>1. ~DeletionActions /\ ~(UNCHANGED ownVars) /\ ~(UNCHANGED vars)
        BY <1>2 DEF DeletionActions, Tidy, UnlinkManaged, UnlinkOwn, ownVars, vars
      <3>2. ~Ending
        BY <1>2, EndingDoes
      <3> QED
        BY <1>2, <3>1, <3>2, Actions
           DEF RoundActions, StartRound, Compare, Record, Retain, EndRetention,
               Reconfigure, ownVars
    <2>2. /\ sourceManifest' = [content |-> job.scanned, owner |-> memory.baseline]
          /\ job.step = "saveManifest" /\ UNCHANGED <<archive, damaged, lastName>>
      BY <1>2, <2>1 DEF SaveManifest, At, files, world
    <2>3. /\ job.who = "schedule" /\ memory.baseline \in Names /\ memory.baseline <= lastName
          /\ Newer(memory.baseline, job.scanned)
      BY <2>2 DEF Saving
    <2>4. job.scanned \in Contents
      BY <2>2, <2>3 DEF Scanned, Running
    <2> QED
      BY <2>2, <2>3, <2>4 DEF Manifested, Newer, Exists
  <1> QED
    BY <1>1, <1>2

LEMMA SkippingStep ==
    ASSUME Typed, Typed', RecordsAgree, Scanned, Comparing, Manifested, Skipping, [Next]_vars
    PROVE  Skipping'
  <1> SUFFICES ASSUME job'.step = "unchanged" PROVE Skipping'
    BY DEF Skipping
  <1>1. CASE RoundActions
    <2>0. UNCHANGED <<archive, damaged>>
      BY <1>1, RoundSteps DEF files
    <2>1. CASE EngineDecide
      <3>p. PICK p : p = Baseline(job.filter)
        OBVIOUS
      <3>1. /\ job'.parent = p /\ job'.content = job.content
            /\ p # NoName /\ manifest[p] = job.content
        BY <2>1, <3>p, EngineDecideDoes
      <3>2. p \in Names /\ Verified(p)
        BY <3>1, <3>p, BaselineIsGood
      <3>3. archive[p].content = job.content /\ Exists(p)
        BY <3>1, <3>2, AgreeingMeansTrue DEF VerifiedManifestsTellTheTruth, Verified
      <3>4. job.content # NoFile
        BY <2>1, NoFileIsNoFile DEF EngineDecide, At, RepositoryTyped, JobNamed
      <3> QED
        BY <2>0, <3>1, <3>2, <3>3, <3>4 DEF Skipping, Exists
    <2>2. CASE Compare /\ ~EngineDecide
      <3>1. job'.content = job.content /\ job'.scanned = job.scanned /\ memory' = memory
        <4>1. ~Ending
          BY EndingDoes, NoJobIsAJob
        <4>2. ~Turning
          BY <2>2, <4>1 DEF Turning, StartRound, SaveManifest, EngineScan,
             StartManualBackup, StartManualDelete, Compare, At, Idle
        <4> QED
          BY <2>2, <4>2, FieldsStay DEF Compare, ownVars
      <3>2. /\ job.who = "schedule" /\ job.content = NoFile /\ job.step = "compare"
            /\ Aged(job.scanned.version)
        BY <2>2 DEF Compare, At, Comparing
      <3>3. BaselineUsable /\ sourceManifest.content = job.scanned
        <4>1. config.strategy \in {"full", "incremental"}
          BY ScheduleAssumption DEF RepositoryTyped, RecordsTyped
        <4>s. PICK s : s = IF BaselineUsable /\ sourceManifest.content = job.scanned
                           THEN "unchanged" ELSE "plain"
          OBVIOUS
        <4>2. Goto("scan") \/ Goto(s)
          BY <2>2, <4>1, <4>s DEF Compare
        <4>3. "scan" \in JobSteps /\ "unchanged" \in JobSteps /\ "plain" \in JobSteps
          BY DEF JobSteps
        <4>4. Goto(s)
          BY <4>2, <4>3, GoesTo DEF RepositoryTyped
        <4>5. s = "unchanged"
          BY <4>3, <4>4, <4>s, GoesTo DEF RepositoryTyped
        <4> QED
          BY <4>s, <4>5
      <3>b. PICK b : b = memory.baseline
        OBVIOUS
      <3>4. b \in Names /\ Exists(b) /\ sourceManifest # NoFile /\ sourceManifest.owner = b
        BY <3>3, <3>b DEF BaselineUsable, RepositoryTyped, RecordsTyped, Records
      <3>5. Newer(b, job.scanned) /\ job.scanned \in Contents
        BY <3>3, <3>4 DEF Manifested
      <3>6. b \notin damaged => archive[b].content = job.scanned
        <4> SUFFICES ASSUME b \notin damaged PROVE archive[b].content = job.scanned
          OBVIOUS
        <4>c. PICK c : c = archive[b].content
          OBVIOUS
        <4>d. PICK d : d = job.scanned
          OBVIOUS
        <4>1. c \in Contents /\ d \in Contents
          BY <3>4, <3>5, <4>c, <4>d, ArchiveContents
        <4>2. c.filter = d.filter /\ c.version >= d.version /\ c.version <= d.version
          BY <3>2, <3>4, <3>5, <4>c, <4>d DEF Newer, Aged
        <4>3. c.version = d.version
          BY <4>1, <4>2, VersionsAreNumbers
        <4>4. c = d
          BY <4>1, <4>2, <4>3 DEF Contents
        <4> QED
          BY <4>4, <4>c, <4>d
      <3> QED
        BY <2>0, <3>1, <3>2, <3>4, <3>6, <3>b DEF Skipping, Exists
    <2> QED
      BY <1>1, <2>1, <2>2, RoundSteps
  <1>2. CASE DeletionActions
    BY <1>2, DeletionsDelete, DeletionSteps
  <1>3. CASE MakesSnapshot /\ UNCHANGED ownVars
    BY <1>3, EngineSteps
  <1>4. CASE (TouchesByHand /\ UNCHANGED ownVars) \/ UNCHANGED vars
    <2>1. job' = job /\ memory' = memory
      BY <1>4, HandSteps DEF vars, repoVars, ownVars
    <2>2. \A x \in Names : x \in damaged' \/ (x \notin damaged /\ archive'[x] = archive[x])
      BY <1>4, HandShrinks DEF vars, repoVars
    <2> QED
      BY <2>1, <2>2 DEF Skipping, Exists
  <1> QED
    BY <1>1, <1>2, <1>3, <1>4, Actions

SkipInv ==
  Typed /\ RepositoryInv /\ Aged(source) /\ Scanned /\ Comparing /\ Making /\ Saving /\ Manifested /\ Skipping

LEMMA SkipInvInit == Init => SkipInv
  <1> SUFFICES ASSUME Init PROVE SkipInv
    OBVIOUS
  <1>1. /\ archive = [n \in Names |-> NoFile] /\ sourceManifest = NoFile
        /\ job.step = "idle" /\ job.who = "nobody" /\ job.content = NoFile
    BY NoJobIsAJob DEF Init, RepositoryInit
  <1> QED
    BY <1>1, TypedInit, RepositoryStarts
       DEF Init, SkipInv, Aged, Scanned, Comparing, Making, Saving, Manifested, Skipping, Exists

LEMMA SkipInvStep ==
    ASSUME ~Reverts, ~ClockGoesBack, SkipInv, [Next]_vars
    PROVE  SkipInv'
  <1>1. Typed' /\ RepositoryInv'
    BY TypedStep, StepsAreRepositorySteps, RepositoryInvStep DEF SkipInv
  <1>2. Typed /\ Typed' /\ RecordsAgree
    BY <1>1 DEF SkipInv, RepositoryInv
  <1> QED
    BY <1>1, <1>2, AgedStep, ScannedStep, ComparingStep, MakingStep, SavingStep,
       ManifestedStep, SkippingStep DEF SkipInv

LEMMA InvMeansKept ==
    ASSUME RepositoryInv, NEW n \in Names, NEW c,
           n \in damaged \/ (Exists(n) /\ archive[n].content = c)
    PROVE  Kept(n, c)
  <1>1. n \in Chain(n)
    BY ChainStarts, ChainIsChainOf
  <1> QED
    BY <1>1, InvMeansRestorable DEF Kept, Holds

LEMMA SkipInvMeansSaved == SkipInv => SkipMeansSaved
  BY InvMeansKept DEF SkipInv, Skipping, SkipMeansSaved, At

\* While the source and the clock only move forward, what the schedule skips as
\* unchanged is saved in an archive that is still there, or the user has
\* removed or replaced it: the manifest of the source, the record of the
\* baseline and the archive never come apart over crashes between their writes.
THEOREM SkippedMeansSaved ==
    ASSUME ~Reverts, ~ClockGoesBack
    PROVE  Spec => []SkipMeansSaved
  <1>1. Init => SkipInv
    BY SkipInvInit
  <1>2. SkipInv /\ [Next]_vars => SkipInv'
    BY SkipInvStep
  <1>3. SkipInv => SkipMeansSaved
    BY SkipInvMeansSaved
  <1> QED
    BY <1>1, <1>2, <1>3, PTL DEF Spec

-----------------------------------------------------------------------------
(* The repository is a set of snapshots *)

\* While the clock does not go back, the repository under the schedule is the
\* abstract set of snapshots: one appears whole and at once, its content stays,
\* and none disappears with another.
THEOREM SnapshotsAreASet ==
    ASSUME ~ClockGoesBack
    PROVE  Spec => SnapshotsAreAtomic
  <1>1. Init => Typed /\ AtomicInv /\ Abstract!SetInit
    BY TypedInit, AtomicStarts DEF Init
  <1>2. Typed /\ AtomicInv /\ [Next]_vars => (Typed /\ AtomicInv)'
    BY TypedStep, StepsAreRepositorySteps, AtomicInvStep
  <1>3. Typed /\ AtomicInv /\ [Next]_vars => [Abstract!SetNext]_(Abstract!heldVars)
    BY StepsAreRepositorySteps, TypedStep, AtomicStep DEF Abstract!heldVars, Held
  <1> QED
    BY <1>1, <1>2, <1>3, PTL DEF Spec, SnapshotsAreAtomic, Abstract!SetSpec
=============================================================================
