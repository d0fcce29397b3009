------------------------------ MODULE WorkerPool ------------------------------
(***************************************************************************)
(* The threads of the remote backup server: Run, which accepts connections *)
(* and hands them to a fixed pool, WorkerLoop, and the way both stop.      *)
(*                                                                         *)
(* What a connection does while it is served is RemoteServer; here a frame *)
(* is only something that keeps recv from timing out.  Every wait of the   *)
(* code has a timeout, so a lost notification delays a thread and no more: *)
(* a waiting thread is enabled as soon as what it waits for holds.         *)
(***************************************************************************)
EXTENDS Naturals, Sequences, FiniteSets

CONSTANTS
    Workers,    \* the pool; worker_count is its size
    Clients,    \* connections that may be opened, each once
    Endless,    \* the clients that always have another request
    Requests,   \* bound: how many requests each of the other clients has
    NoClient

ASSUME PoolAssumption == IsFiniteSet(Workers) /\ Workers # {}
ASSUME ClientsAssumption ==
    Endless \subseteq Clients /\ Requests \in [Clients -> Nat]
ASSUME NoClientAssumption == NoClient \notin Clients

VARIABLES
    runPc,          \* where Run is
    inHand,         \* the connection Run has accepted and not handed over
    busyWorkers,    \* busy_workers_
    pending,        \* pending_
    stopRequested,  \* stop_requested_
    workerPc, serving,  \* where each worker is, and with which connection
    conn,           \* what has become of each connection
    frame,          \* a request of the client waits to be read
    framesLeft,     \* requests the client has still to send
    hungUp          \* the connection is shut down, by either side

runVars == <<runPc, inHand>>
clientVars == <<frame, framesLeft, hungUp>>
vars == <<runVars, busyWorkers, pending, stopRequested, workerPc, serving,
          conn, clientVars>>

WorkerCount == Cardinality(Workers)
Serving == {w \in Workers : workerPc[w] \in {"serve", "release"}}

PoolTypeOK ==
    /\ runPc \in {"loop", "poll", "handOver", "shutdown", "join", "returned",
                  "stopped"}
    /\ inHand \in Clients \cup {NoClient}
    /\ busyWorkers \in 0..WorkerCount
    /\ pending \in Seq(Clients)
    /\ stopRequested \in BOOLEAN
    /\ workerPc \in [Workers -> {"wait", "serve", "release", "done"}]
    /\ serving \in [Workers -> Clients \cup {NoClient}]
    /\ conn \in [Clients -> {"none", "backlog", "accepted", "closed"}]
    /\ frame \in [Clients -> BOOLEAN]
    /\ framesLeft \in [Clients -> Nat]
    /\ hungUp \in [Clients -> BOOLEAN]

-----------------------------------------------------------------------------
(* The clients, and whoever asks the server to stop *)

Connect(c) ==
    /\ conn[c] = "none" /\ runPc # "stopped"
    /\ conn' = [conn EXCEPT ![c] = "backlog"]
    /\ UNCHANGED <<runVars, busyWorkers, pending, stopRequested, workerPc,
                   serving, clientVars>>

SendFrame(c) ==
    /\ conn[c] \in {"backlog", "accepted"} /\ ~frame[c] /\ ~hungUp[c]
    /\ IF c \in Endless THEN UNCHANGED framesLeft
       ELSE /\ framesLeft[c] > 0
            /\ framesLeft' = [framesLeft EXCEPT ![c] = @ - 1]
    /\ frame' = [frame EXCEPT ![c] = TRUE]
    /\ UNCHANGED <<runVars, busyWorkers, pending, stopRequested, workerPc,
                   serving, conn, hungUp>>

HangUp(c) ==
    /\ conn[c] \in {"backlog", "accepted"} /\ ~hungUp[c]
    /\ hungUp' = [hungUp EXCEPT ![c] = TRUE]
    /\ UNCHANGED <<runVars, busyWorkers, pending, stopRequested, workerPc,
                   serving, conn, frame, framesLeft>>

RequestStop ==
    /\ ~stopRequested
    /\ stopRequested' = TRUE
    /\ UNCHANGED <<runVars, busyWorkers, pending, workerPc, serving, conn,
                   clientVars>>

-----------------------------------------------------------------------------
(* Run *)

RunLoop ==
    /\ runPc = "loop"
    /\ runPc' = IF stopRequested THEN "shutdown" ELSE "poll"
    /\ UNCHANGED <<inHand, busyWorkers, pending, stopRequested, workerPc,
                   serving, conn, clientVars>>

Accept(c) ==
    /\ runPc = "poll" /\ conn[c] = "backlog"
    /\ conn' = [conn EXCEPT ![c] = "accepted"]
    /\ inHand' = c
    /\ runPc' = "handOver"
    /\ UNCHANGED <<busyWorkers, pending, stopRequested, workerPc, serving,
                   clientVars>>

(***************************************************************************)
(* poll times out, or poll or accept fails: transiently, or for good.      *)
(***************************************************************************)
NoAccept ==
    /\ runPc = "poll"
    /\ runPc' \in {"loop", "shutdown"}
    /\ UNCHANGED <<inHand, busyWorkers, pending, stopRequested, workerPc,
                   serving, conn, clientVars>>

(***************************************************************************)
(* Under work_mutex_.  stop_requested_ is set without it, but a request    *)
(* between the test and the push is like one after the push: workers read  *)
(* pending_ under the same mutex.                                          *)
(***************************************************************************)
HandOver ==
    /\ runPc = "handOver"
    /\ \/ /\ stopRequested
          /\ conn' = [conn EXCEPT ![inHand] = "closed"]
          /\ runPc' = "shutdown"
          /\ UNCHANGED <<busyWorkers, pending>>
       \/ /\ ~stopRequested /\ busyWorkers < WorkerCount
          /\ busyWorkers' = busyWorkers + 1
          /\ pending' = Append(pending, inHand)
          /\ runPc' = "loop"
          /\ UNCHANGED conn
    /\ inHand' = NoClient
    /\ UNCHANGED <<stopRequested, workerPc, serving, clientVars>>

Shutdown ==
    /\ runPc = "shutdown"
    /\ stopRequested' = TRUE
    /\ hungUp' = [c \in Clients |->
                    hungUp[c] \/ \E i \in DOMAIN pending : pending[i] = c]
    /\ runPc' = "join"
    /\ UNCHANGED <<inHand, busyWorkers, pending, workerPc, serving, conn,
                   frame, framesLeft>>

Join ==
    /\ runPc = "join"
    /\ \A w \in Workers : workerPc[w] = "done"
    /\ runPc' = "returned"
    /\ UNCHANGED <<inHand, busyWorkers, pending, stopRequested, workerPc,
                   serving, conn, clientVars>>

(***************************************************************************)
(* Stop, after Run has returned: the listener goes, with the connections   *)
(* nobody accepted, and pending_ is emptied.                               *)
(***************************************************************************)
Stop ==
    /\ runPc = "returned"
    /\ pending' = <<>>
    /\ conn' = [c \in Clients |->
                  IF conn[c] = "backlog" THEN "closed" ELSE conn[c]]
    /\ runPc' = "stopped"
    /\ UNCHANGED <<inHand, busyWorkers, stopRequested, workerPc, serving,
                   clientVars>>

-----------------------------------------------------------------------------
(* WorkerLoop *)

\* Mutated: the connection is read from the queue and left in it.
TakeWithoutPop(w) ==
    /\ workerPc[w] = "wait" /\ pending # <<>>
    /\ serving' = [serving EXCEPT ![w] = Head(pending)]
    /\ workerPc' = [workerPc EXCEPT ![w] = "serve"]
    /\ UNCHANGED <<runVars, busyWorkers, pending, stopRequested, conn,
                   clientVars>>

Take(w) ==
    /\ workerPc[w] = "wait" /\ pending # <<>>
    /\ serving' = [serving EXCEPT ![w] = Head(pending)]
    /\ pending' = Tail(pending)
    /\ workerPc' = [workerPc EXCEPT ![w] = "serve"]
    /\ UNCHANGED <<runVars, busyWorkers, stopRequested, conn, clientVars>>

\* Mutated: the stop flag is looked at before the queue.
ExitBeforeQueue(w) ==
    /\ workerPc[w] = "wait" /\ stopRequested
    /\ workerPc' = [workerPc EXCEPT ![w] = "done"]
    /\ UNCHANGED <<runVars, busyWorkers, pending, stopRequested, serving, conn,
                   clientVars>>

\* Mutated: one worker is woken for all, and the wait has no timeout.
ExitOfOne(w) ==
    /\ workerPc[w] = "wait" /\ pending = <<>> /\ stopRequested
    /\ \A other \in Workers : workerPc[other] # "done"
    /\ workerPc' = [workerPc EXCEPT ![w] = "done"]
    /\ UNCHANGED <<runVars, busyWorkers, pending, stopRequested, serving, conn,
                   clientVars>>

Exit(w) ==
    /\ workerPc[w] = "wait" /\ pending = <<>> /\ stopRequested
    /\ workerPc' = [workerPc EXCEPT ![w] = "done"]
    /\ UNCHANGED <<runVars, busyWorkers, pending, stopRequested, serving, conn,
                   clientVars>>

ServeFrame(w) ==
    /\ workerPc[w] = "serve" /\ frame[serving[w]]
    /\ frame' = [frame EXCEPT ![serving[w]] = FALSE]
    /\ UNCHANGED <<runVars, busyWorkers, pending, stopRequested, workerPc,
                   serving, conn, framesLeft, hungUp>>

EndConnection(w) ==
    /\ conn' = [conn EXCEPT ![serving[w]] = "closed"]
    /\ workerPc' = [workerPc EXCEPT ![w] = "release"]
    /\ UNCHANGED <<runVars, busyWorkers, pending, stopRequested, serving,
                   clientVars>>

(***************************************************************************)
(* recv ends: the connection was shut down, or io_timeout_seconds passed.  *)
(***************************************************************************)
RecvEnds(w) ==
    /\ workerPc[w] = "serve" /\ ~frame[serving[w]]
    /\ EndConnection(w)

(***************************************************************************)
(* The handshake fails, the stream is corrupt or the answer cannot be sent.*)
(***************************************************************************)
DropConnection(w) ==
    /\ workerPc[w] = "serve" /\ frame[serving[w]]
    /\ EndConnection(w)

\* Mutated: the slot is not given back.
ReleaseWithoutCount(w) ==
    /\ workerPc[w] = "release"
    /\ serving' = [serving EXCEPT ![w] = NoClient]
    /\ workerPc' = [workerPc EXCEPT ![w] = "wait"]
    /\ UNCHANGED <<runVars, busyWorkers, pending, stopRequested, conn,
                   clientVars>>

Release(w) ==
    /\ workerPc[w] = "release"
    /\ busyWorkers' = IF busyWorkers > 0 THEN busyWorkers - 1 ELSE 0
    /\ serving' = [serving EXCEPT ![w] = NoClient]
    /\ workerPc' = [workerPc EXCEPT ![w] = "wait"]
    /\ UNCHANGED <<runVars, pending, stopRequested, conn, clientVars>>

-----------------------------------------------------------------------------
Init ==
    /\ runPc = "loop" /\ inHand = NoClient
    /\ busyWorkers = 0 /\ pending = <<>> /\ stopRequested = FALSE
    /\ workerPc = [w \in Workers |-> "wait"]
    /\ serving = [w \in Workers |-> NoClient]
    /\ conn = [c \in Clients |-> "none"]
    /\ frame = [c \in Clients |-> FALSE]
    /\ framesLeft = Requests
    /\ hungUp = [c \in Clients |-> FALSE]

ClientStep(c) == Connect(c) \/ SendFrame(c) \/ HangUp(c)

WorkerStep(w) ==
    \/ Take(w) \/ Exit(w) \/ ServeFrame(w) \/ RecvEnds(w) \/ Release(w)

RunStep == RunLoop \/ HandOver \/ Shutdown \/ Join \/ Stop

Next ==
    \/ \E c \in Clients : ClientStep(c) \/ Accept(c)
    \/ RequestStop
    \/ RunStep \/ NoAccept
    \/ \E w \in Workers : WorkerStep(w) \/ DropConnection(w)

(***************************************************************************)
(* Threads run: a thread that can go on does.  Transient failures of poll  *)
(* and accept end, so a connection that waits is accepted in the end,      *)
(* unless Run stops.  Clients and the stop request promise nothing.        *)
(***************************************************************************)
Fairness ==
    /\ WF_vars(RunStep)
    /\ WF_vars(NoAccept)
    /\ \A c \in Clients : SF_vars(Accept(c))
    /\ \A w \in Workers : WF_vars(WorkerStep(w))

Spec == Init /\ [][Next]_vars
FairSpec == Spec /\ Fairness

-----------------------------------------------------------------------------
(***************************************************************************)
(* Each accepted connection is in exactly one pair of hands.               *)
(***************************************************************************)
OneOwner ==
    \A c \in Clients :
      Cardinality({i \in DOMAIN pending : pending[i] = c})
        + Cardinality({w \in Workers : workerPc[w] = "serve" /\ serving[w] = c})
        + (IF inHand = c THEN 1 ELSE 0)
      = IF conn[c] = "accepted" THEN 1 ELSE 0

(***************************************************************************)
(* A slot is counted for each connection that is queued or served, and for *)
(* no other: a slot lost on the way would be lost for good.  And nobody    *)
(* shares a connection with another.                                       *)
(***************************************************************************)
SlotsAreConnections ==
    /\ busyWorkers = Len(pending) + Cardinality(Serving)
    /\ OneOwner

(***************************************************************************)
(* When Run returns, no connection it accepted is still open, though the   *)
(* stop was requested at any moment of a hand-over.                        *)
(***************************************************************************)
ReturnedMeansDrained ==
    runPc \in {"returned", "stopped"} =>
      pending = <<>> /\ \A c \in Clients : conn[c] # "accepted"

(***************************************************************************)
(* What remote_server.h says of Run: it returns after RequestStop.         *)
(***************************************************************************)
StopsEventually == stopRequested ~> runPc = "stopped"

(***************************************************************************)
(* A connection that waits in the backlog is accepted and closed in the    *)
(* end, however many more than the pool there are.                         *)
(***************************************************************************)
BacklogIsServed == \A c \in Clients : conn[c] = "backlog" ~> conn[c] = "closed"

(***************************************************************************)
(* Every wait ends: that of whoever asked for a stop, and that of a        *)
(* connection nobody has accepted yet.                                     *)
(***************************************************************************)
EverybodyIsServed == StopsEventually /\ BacklogIsServed
=============================================================================
