------------------------------ MODULE SshTunnel ------------------------------
(***************************************************************************)
(* SshTunnelManager: the one ssh process that forwards a port of the       *)
(* loopback to a remote server, as operators on a record.  A signal it     *)
(* emits is handled before the next statement, so an operator here is the  *)
(* code between two signals, and RemoteController says what a signal does. *)
(* Ports, texts and the reasons of a failure are left out, but for the one *)
(* failure that is retried (a port that somebody took).                    *)
(***************************************************************************)
EXTENDS Naturals

CONSTANTS Servers,         \* what a tunnel may lead to
          Nil,
          MaxPortRetries   \* kMaxAutoPortRetries

ASSUME TunnelAssumption == MaxPortRetries \in Nat

(* What StartTunnel is asked for: no valid ssh_target, or one with a local *)
(* port the system chooses, or one with a port the user has fixed.         *)
Route == {"nohost", "auto", "fixed"}
Options == [route : Route, server : Servers]

Stopped == [state |-> "stopped", process |-> FALSE, probe |-> FALSE,
            external |-> FALSE, retries |-> 0, options |-> Nil]
Failed == [Stopped EXCEPT !.state = "failed"]

IsReady(t) == t.state = "ready"

(* AdoptExternalListener: only the port is borrowed; where it leads is not *)
(* what was asked for.                                                     *)
Adopted == [Stopped EXCEPT !.state = "ready", !.external = TRUE]

Starting(o, retries) ==
    [state |-> "starting", process |-> TRUE, probe |-> TRUE,
     external |-> FALSE, retries |-> retries, options |-> o]

(* StartInternal, with every way it may end.  On a port the user has fixed *)
(* a process of the user's may listen or not, at any time.                 *)
StartInternal(t, o, retries) ==
    IF t.state = "starting" \/ (IsReady(t) /\ t.process) THEN {t}
    ELSE IF o.route = "nohost" THEN {Failed}
    ELSE {Failed,             \* no port, no ssh, or it does not start
          Starting(o, retries)}
         \cup (IF o.route = "fixed" THEN {Adopted} ELSE {})

StartTunnel(t, o) == StartInternal(t, o, 0)

(* Stop and Fail close the process before they say so. *)
Stop(t) == Stopped
Fail(t) == Failed

(* OnProcessFinished of an ssh whose port somebody else has taken. *)
RetriesPort(t, portTaken) ==
    /\ t.state = "starting"
    /\ portTaken
    /\ t.options.route = "auto"
    /\ t.retries < MaxPortRetries

OnProcessFinished(t, portTaken) ==
    IF RetriesPort(t, portTaken)
    THEN StartInternal(Stop(t), t.options, t.retries + 1)
    ELSE {Fail(t)}

(* OnPollTick once the deadline has passed or the attempts are used up. *)
OnPollTimeout(t) == IF t.state = "starting" THEN Fail(t) ELSE t

TunnelTypeOK(t) ==
    /\ t.state \in {"stopped", "starting", "ready", "failed"}
    /\ t.process \in BOOLEAN /\ t.probe \in BOOLEAN /\ t.external \in BOOLEAN
    /\ t.retries \in 0 .. MaxPortRetries
    /\ t.options \in Options \cup {Nil}
===============================================================================
