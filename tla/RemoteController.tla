--------------------------- MODULE RemoteController ---------------------------
(***************************************************************************)
(* The remote page's controller: one operation at a time, run by a thread  *)
(* of its own on the one client object, over the official server, an ssh   *)
(* tunnel or a direct connection.  A call of the page and a signal are one *)
(* step each, with every call they make; handlers that may end in several  *)
(* ways are sets of the records they may leave.                            *)
(*                                                                         *)
(* The page's own gates are part of the steps: while an operation runs it  *)
(* offers no setting and no form, and the forms to log in and to register  *)
(* are there only while nobody is logged in (RemotePage.qml).  A call that *)
(* BeginOperation refuses changes only texts and is no step.               *)
(***************************************************************************)
EXTENDS SshTunnel

CONSTANTS Official,        \* the server that is built in
          UserNames        \* accounts

ASSUME OfficialAssumption == Official \in Servers /\ Nil \notin Servers

VARIABLES gui              \* the members of RemoteController

pageVars == gui

Modes == {"official", "ssh", "direct"}

(* Upload stands for upload, deletion and backup, which are followed by a  *)
(* reading of the list; download for download and restore, which are not.  *)
Kinds == {"register", "login", "list", "upload", "download", "raw", "deleteAccount"}

Request == [kind : Kinds, server : Servers, pin : Servers \cup {Nil},
            name : UserNames, session : BOOLEAN]
Account == [server : Servers, name : UserNames]

(* RemoteArchiveClient: the connection (and whether it goes through the    *)
(* tunnel), whether it has been authenticated, and the token.              *)
Link == [server : Servers, tunnel : BOOLEAN]
Client == [link : Link \cup {Nil}, authenticated : BOOLEAN,
           token : Account \cup {Nil}]

(* What is on the operation's thread, and whom its connection has reached. *)
Results == {"ok", "failed", "unauthorized", "password"}
Job == [request : Request, dial : {"official", "direct", "tunnel"},
        result : Results \cup {Nil}, by : Servers \cup {Nil}]

ASSUME NoneAssumption ==
    /\ Nil \notin Request /\ Nil \notin Account
    /\ Nil \notin Link /\ Nil \notin Job /\ Nil \notin Results

Disconnected == [link |-> Nil, authenticated |-> FALSE, token |-> Nil]
DisconnectSocket(c) == [c EXCEPT !.link = Nil, !.authenticated = FALSE]

PageInit ==
    gui \in [mode : {"official"}, server : Servers, pin : {Nil},
                route : {"nohost"},
                account : UserNames, authenticated : {FALSE},
                busy : {FALSE}, deferred : {Nil}, onlyWait : {FALSE},
                job : {Nil}, raw : {FALSE}, listed : {Nil},
                tunnel : {Stopped}, client : {Disconnected}]

-----------------------------------------------------------------------------
(* Closing the tunnel's process closes what goes through it. *)
WithTunnel(g, t) ==
    [g EXCEPT !.tunnel = t,
              !.client = IF g.tunnel.process /\ ~t.process /\ g.client.link # Nil
                            /\ g.client.link.tunnel
                         THEN DisconnectSocket(@) ELSE @]

TunnelOptions(g) == [route |-> g.route, server |-> g.server]

(* A bug: the address asked for is not compared. *)
TunnelIsThere(g) == IsReady(g.tunnel)

TunnelMatchesEndpoint(g) ==
    /\ IsReady(g.tunnel)
    /\ g.tunnel.external \/ g.tunnel.options = TunnelOptions(g)

(* A port that was borrowed is probed, and may answer or not. *)
TransportUsableForSubmit(g) ==
    IF g.tunnel.external THEN {TRUE, FALSE} ELSE {TRUE}

NewRequest(g, kind) ==
    [kind |-> kind, server |-> g.server, pin |-> g.pin, name |-> g.account,
     session |-> kind = "raw" /\ g.raw]

RequiresManualPin(g) == g.mode # "official"

BeginOperation(g, needLogin) ==
    /\ ~g.busy
    /\ needLogin => g.authenticated
    /\ RequiresManualPin(g) => g.pin # Nil

(* dial: how the operation connects if it has to.  by: who answered it. *)
DispatchRequest(g, r, dial) ==
    [g EXCEPT !.job = [request |-> r, dial |-> dial, result |-> Nil, by |-> Nil]]

FlushDeferredRequest(g) ==
    DispatchRequest([g EXCEPT !.deferred = Nil], g.deferred, "tunnel")

(* A bug: the page stays busy when the tunnel of a request fails. *)
DropDeferredRequest(g) == [g EXCEPT !.deferred = Nil]

FailDeferredRequest(g) == [g EXCEPT !.deferred = Nil, !.busy = FALSE]

NotifyDeferred(g) ==
    IF g.deferred # Nil /\ IsReady(g.tunnel) THEN FlushDeferredRequest(g)
    ELSE IF g.deferred # Nil /\ g.tunnel.state = "failed" THEN FailDeferredRequest(g)
    ELSE g

StartTunnelForEndpoint(g) ==
    {WithTunnel(g, t) : t \in StartTunnel(g.tunnel, TunnelOptions(g))}

SubmitRequest(g, r) ==
    IF g.mode = "official" THEN {DispatchRequest(g, r, "official")}
    ELSE IF g.mode = "direct" THEN {DispatchRequest(g, r, "direct")}
    ELSE LET waiting == WithTunnel([g EXCEPT !.deferred = r], Stop(g.tunnel))
             restarted == {NotifyDeferred(h) : h \in StartTunnelForEndpoint(waiting)}
         IN IF TunnelMatchesEndpoint(g)
            THEN UNION {IF usable THEN {DispatchRequest(g, r, "tunnel")} ELSE restarted
                        : usable \in TransportUsableForSubmit(g)}
            ELSE restarted

Operate(g, kind) == SubmitRequest([g EXCEPT !.busy = TRUE], NewRequest(g, kind))

RefreshList(g) == IF BeginOperation(g, TRUE) THEN Operate(g, "list") ELSE {g}

(* A bug: who only waits for the tunnel is forgotten when it fails. *)
OnTunnelReady(g) ==
    IF g.onlyWait /\ IsReady(g.tunnel)
    THEN RefreshList([g EXCEPT !.onlyWait = FALSE, !.busy = FALSE])
    ELSE {NotifyDeferred(g)}

(* OnTunnelStateChanged: whoever waits for the tunnel. *)
OnTunnelStateChanged(g) ==
    IF g.onlyWait /\ IsReady(g.tunnel)
    THEN RefreshList([g EXCEPT !.onlyWait = FALSE, !.busy = FALSE])
    ELSE IF g.onlyWait /\ g.tunnel.state = "failed"
    THEN {[g EXCEPT !.onlyWait = FALSE, !.busy = FALSE]}
    ELSE {NotifyDeferred(g)}

Signalled(g, tunnels) ==
    UNION {OnTunnelStateChanged(WithTunnel(g, t)) : t \in tunnels}

-----------------------------------------------------------------------------
(* Calls of the page. *)

CommitEndpoint(g, server, name) == [g EXCEPT !.server = server, !.account = name]
CommitHostPort(g, server) == [g EXCEPT !.server = server]
CommitServerKeyPin(g, pin) == [g EXCEPT !.pin = pin]

(* loginWithPin and registerAccountWithPin: the pin of the form is applied *)
(* first, except for the official server.                                  *)
SubmitForm(kind) ==
    /\ ~gui.busy /\ ~gui.authenticated
    /\ \E server, pin \in Servers, name \in UserNames :
        LET g == IF RequiresManualPin(gui) THEN CommitServerKeyPin(gui, pin) ELSE gui
            h == CommitEndpoint(g, server, name)
        IN /\ BeginOperation(h, FALSE)
           /\ gui' \in Operate(h, kind)

Login == SubmitForm("login")
RegisterAccount == SubmitForm("register")

LogoutLocal ==
    /\ ~gui.busy /\ gui.authenticated
    /\ gui' = [gui EXCEPT !.client = Disconnected, !.authenticated = FALSE,
                          !.listed = Nil]

(* refreshList, uploadArchive, deleteSnapshot, backupRemote,               *)
(* downloadArchive, restoreSnapshot and deleteAccount.                     *)
Act(kind) ==
    /\ BeginOperation(gui, TRUE)
    /\ gui' \in Operate(gui, kind)

(* restoreRawArchive drops a session that waits for a password;            *)
(* restoreRawArchiveWithPassword goes on with it.                          *)
RestoreRawArchive ==
    /\ BeginOperation(gui, TRUE)
    /\ gui' \in Operate([gui EXCEPT !.raw = FALSE], "raw")

RestoreRawArchiveWithPassword ==
    /\ gui.raw
    /\ Act("raw")

CancelRawRestore ==
    /\ gui.raw /\ ~gui.busy
    /\ gui' = [gui EXCEPT !.raw = FALSE]

(* setConnectionMode, setSshHost, setSshLocalPort and applyServerKeyPin    *)
(* only set what the next connection will use.                             *)
ChangeSettings ==
    /\ ~gui.busy
    /\ \/ \E mode \in Modes : gui' = [gui EXCEPT !.mode = mode]
       \/ gui.mode = "ssh" /\ \E route \in Route : gui' = [gui EXCEPT !.route = route]
       \/ RequiresManualPin(gui)
          /\ \E pin \in Servers : gui' = CommitServerKeyPin(gui, pin)

(* The button is there in ssh mode only. *)
EnsureConnection ==
    /\ gui.mode = "ssh" /\ ~gui.busy
    /\ \E server \in Servers :
        LET g == CommitHostPort(gui, server)
            waiting == WithTunnel([g EXCEPT !.busy = TRUE, !.onlyWait = TRUE],
                                  Stop(g.tunnel))
            restarted == UNION {OnTunnelStateChanged(h) :
                                h \in StartTunnelForEndpoint(waiting)}
        IN gui' \in IF TunnelMatchesEndpoint(g)
                    THEN UNION {IF usable THEN RefreshList(g) ELSE restarted
                                : usable \in TransportUsableForSubmit(g)}
                    ELSE restarted

StopTunnel ==
    /\ ~gui.busy /\ gui.tunnel.state # "stopped"
    /\ gui' = WithTunnel([gui EXCEPT !.deferred = Nil, !.onlyWait = FALSE],
                         Stop(gui.tunnel))

-----------------------------------------------------------------------------
(* Signals of the tunnel. *)

(* OnProbeConnected emits and then destroys the probe, whichever it is. *)
ProbeConnects ==
    /\ gui.tunnel.state = "starting" /\ gui.tunnel.probe
    /\ \E g \in Signalled(gui, {[gui.tunnel EXCEPT !.state = "ready"]}) :
        gui' = [g EXCEPT !.tunnel.probe = FALSE]

PollTimesOut ==
    /\ gui.tunnel.state = "starting"
    /\ gui' \in Signalled(gui, {OnPollTimeout(gui.tunnel)})

ProcessEnds ==
    /\ gui.tunnel.process
    /\ \E portTaken \in BOOLEAN :
        gui' \in Signalled(gui, OnProcessFinished(gui.tunnel, portTaken))

-----------------------------------------------------------------------------
(* The operation, on its thread. *)

(* Whom a new connection may reach, and who is let through.  A port that   *)
(* was borrowed may lead anywhere.                                         *)
Reached(g) ==
    CASE g.job.dial = "official" -> {Official}
      [] g.job.dial = "direct" -> {g.job.request.server}
      [] OTHER -> IF ~IsReady(g.tunnel) THEN {}
                  ELSE IF g.tunnel.external THEN Servers
                  ELSE {g.tunnel.options.server}

Identity(job) == IF job.dial = "official" THEN Official ELSE job.request.pin

Connect(g, c) ==
    {DisconnectSocket(c)} \cup
    {[c EXCEPT !.link = [server |-> server,
                         tunnel |-> g.tunnel.process /\ g.job.dial = "tunnel"],
               !.authenticated = FALSE] :
     server \in Reached(g) \cap {Identity(g.job)}}

Answer(c, result) == [client |-> c, result |-> result]

(* ResumeSession: a token of another server is refused, and so may one     *)
(* that has expired; another answer leaves the connection as it is.        *)
Resume(c) ==
    (IF c.token.server = c.link.server
     THEN {Answer([c EXCEPT !.authenticated = TRUE], "ok")} ELSE {})
    \cup {Answer(Disconnected, "unauthorized"), Answer(c, "failed"),
          Answer(DisconnectSocket(c), "failed")}

PrepareConnection(g, c) ==
    IF c.link # Nil THEN {Answer(c, "ok")}
    ELSE UNION {IF d.link = Nil THEN {Answer(d, "failed")}
                ELSE IF d.token = Nil THEN {Answer(d, "ok")}
                ELSE Resume(d) : d \in Connect(g, c)}

(* Request may also get no answer, an answer to another request, which ends *)
(* the session, or an error.                                               *)
Refused(c) ==
    {Answer(DisconnectSocket(c), "failed"), Answer(Disconnected, "failed"),
     Answer(c, "failed")}

(* Register and Login connect if there is no connection, and drop a        *)
(* session that is left.                                                   *)
Fresh(c) == IF c.authenticated \/ c.token # Nil THEN Disconnected ELSE c

LogsIn(g) ==
    LET LogIn(c) ==
            IF g.job.request.kind = "register" THEN Answer(c, "ok")
            ELSE Answer([c EXCEPT !.authenticated = TRUE,
                                  !.token = [server |-> c.link.server,
                                             name |-> g.job.request.name]], "ok")
    IN UNION {IF p.result # "ok" THEN {p} ELSE {LogIn(p.client)} \cup Refused(p.client)
              : p \in UNION {IF c.link = Nil THEN {Answer(c, "failed")}
                             ELSE PrepareConnection(g, Fresh(c))
                             : c \in IF g.client.link # Nil THEN {g.client}
                                     ELSE Connect(g, g.client)}}

Operates(g) ==
    LET Serve(c) ==
            {Answer(c, "unauthorized")} \cup
            IF ~c.authenticated THEN {}
            ELSE {Answer(IF g.job.request.kind = "deleteAccount"
                         THEN [c EXCEPT !.authenticated = FALSE, !.token = Nil]
                         ELSE c, "ok")}
    IN IF g.client.token = Nil THEN {Answer(g.client, "unauthorized")}
       ELSE UNION {IF p.result # "ok" THEN {p}
                   ELSE Serve(p.client) \cup Refused(p.client)
                   : p \in PrepareConnection(g, g.client)}

(* A raw archive that has been downloaded and verified may still need a    *)
(* password; the next attempt uses what is there.                          *)
RestoresRaw(g) ==
    LET downloads == IF g.job.request.session THEN {Answer(g.client, "ok")}
                     ELSE Operates(g)
    IN downloads \cup {[a EXCEPT !.result = "password"] :
                       a \in {b \in downloads : b.result = "ok"}}
                 \cup {[a EXCEPT !.result = "failed"] :
                       a \in {b \in downloads : b.result = "ok"}}

(* UNAUTHORIZED is a wrong password where one was sent; elsewhere it means *)
(* that the session is gone.                                               *)
ClassifyFailure(kind, result) ==
    IF result = "unauthorized" /\ kind \in {"login", "deleteAccount"}
    THEN "failed" ELSE result

RunOperation ==
    /\ gui.job # Nil /\ gui.job.result = Nil
    /\ \E a \in CASE gui.job.request.kind \in {"login", "register"} -> LogsIn(gui)
                  [] gui.job.request.kind = "raw" -> RestoresRaw(gui)
                  [] OTHER -> Operates(gui) :
        gui' = [gui EXCEPT !.client = a.client, 
                           !.job.result = ClassifyFailure(gui.job.request.kind, a.result),
                           !.job.by = IF a.client.link = Nil THEN Nil
                                      ELSE a.client.link.server]

-----------------------------------------------------------------------------
(* The result, on the page's thread. *)

(* A bug: the list of the account that is gone stays on the page. *)
EndSessionOfClient(g) == [g EXCEPT !.client = Disconnected, !.authenticated = FALSE]

EndSession(g) ==
    [g EXCEPT !.client = Disconnected, !.listed = Nil, !.authenticated = FALSE]

ApplyRawRestoreState(g) ==
    IF g.job.request.kind = "raw"
    THEN [g EXCEPT !.raw = g.job.result = "password"] ELSE g

ApplyResult(g) ==
    LET kind == g.job.request.kind
        h == ApplyRawRestoreState(g)
    IN IF g.job.result # "ok"
       THEN IF g.job.result = "unauthorized" \/ kind = "login"
            THEN EndSession(h) ELSE h
       ELSE CASE kind = "register" -> [h EXCEPT !.authenticated = FALSE]
              [] kind = "login" -> [h EXCEPT !.authenticated = TRUE]
              [] kind = "list" -> [h EXCEPT !.listed = g.client.token]
              [] kind = "deleteAccount" -> EndSession(h)
              [] OTHER -> h

OnOperationFinished ==
    /\ gui.job # Nil /\ gui.job.result # Nil
    /\ LET g == [ApplyResult(gui) EXCEPT !.job = Nil, !.busy = FALSE]
       IN gui' \in IF gui.job.result = "ok" /\ gui.job.request.kind \in {"login", "upload"}
                   THEN RefreshList(g) ELSE {g}

-----------------------------------------------------------------------------
(* The world: a connection breaks between two operations. *)
LinkBreaks ==
    /\ gui.client.link # Nil
    /\ gui.job = Nil
    /\ gui' = [gui EXCEPT !.client = DisconnectSocket(@)]

PageUser ==
    \/ Login \/ RegisterAccount \/ LogoutLocal
    \/ \E kind \in {"list", "upload", "download", "deleteAccount"} : Act(kind)
    \/ RestoreRawArchive \/ RestoreRawArchiveWithPassword \/ CancelRawRestore
    \/ ChangeSettings \/ EnsureConnection \/ StopTunnel

PageNext ==
    \/ PageUser
    \/ ProbeConnects \/ PollTimesOut \/ ProcessEnds
    \/ RunOperation \/ OnOperationFinished
    \/ LinkBreaks

(* The deadline of the poll timer passes, the client's calls have their    *)
(* timeouts, and what is queued for the page's thread is handled.          *)
PageFairness ==
    /\ WF_pageVars(PollTimesOut)
    /\ WF_pageVars(RunOperation)
    /\ WF_pageVars(OnOperationFinished)

PageSpec == PageInit /\ [][PageNext]_pageVars /\ PageFairness
-----------------------------------------------------------------------------
GuiTypeOK ==
    gui \in [mode : Modes, server : Servers, pin : Servers \cup {Nil},
                route : Route, account : UserNames, authenticated : BOOLEAN,
                busy : BOOLEAN, deferred : Request \cup {Nil},
                onlyWait : BOOLEAN,
                job : Job \cup {Nil},
                raw : BOOLEAN, listed : Account \cup {Nil},
                tunnel : {t \in [state : {"stopped", "starting", "ready", "failed"},
                                 process : BOOLEAN, probe : BOOLEAN,
                                 external : BOOLEAN, retries : 0 .. MaxPortRetries,
                                 options : Options \cup {Nil}] : TunnelTypeOK(t)},
                client : Client]

(* The page is busy exactly while one thing is under way: an operation on  *)
(* its thread, a request that waits for the tunnel, or the user waiting    *)
(* for it; and who waits for the tunnel waits for one that is starting and *)
(* will signal.  Whatever fails on the way, no call is left to hang and no *)
(* two share the client.                                                   *)
BusyMeansAtWork ==
    LET waits == gui.deferred # Nil \/ gui.onlyWait
    IN /\ gui.busy = (gui.job # Nil \/ waits)
       /\ ~(gui.job # Nil /\ waits) /\ ~(gui.deferred # Nil /\ gui.onlyWait)
       /\ waits => gui.tunnel.state = "starting"

(* The account the page shows as logged in is the one whose token the      *)
(* client holds, and the list it shows is that account's, through failed   *)
(* logins, lost connections, expired tokens and changes of the server.     *)
PageShowsOneAccount ==
    /\ gui.authenticated /\ gui.job = Nil /\ gui.client.token # Nil
       => gui.client.token.name = gui.account
    /\ ~gui.authenticated /\ gui.job = Nil => gui.client.token = Nil
    /\ gui.listed # Nil => gui.authenticated /\ gui.listed.name = gui.account

(* An ssh process is there only while the tunnel starts or is ready, never *)
(* beside a borrowed port; and an operation that goes through a tunnel of  *)
(* this program goes through one that leads to the server it asks for.     *)
TunnelsLeadWhereAsked ==
    /\ gui.tunnel.process = (gui.tunnel.state = "starting"
                             \/ (IsReady(gui.tunnel) /\ ~gui.tunnel.external))
    /\ gui.tunnel.probe => gui.tunnel.state = "starting"
    /\ gui.job # Nil /\ gui.job.dial = "tunnel" /\ gui.tunnel.process
       => gui.tunnel.options.server = gui.job.request.server

(* Every accepted call comes to its end. *)
OperationsEnd == gui.busy ~> ~gui.busy
===============================================================================
