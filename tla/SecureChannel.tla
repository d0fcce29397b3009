----------------------------- MODULE SecureChannel -----------------------------
(***************************************************************************)
(* BPSEC, network/secure_transport.cpp: the handshake of a client and a    *)
(* server over one TCP connection and the records they exchange after it,  *)
(* on a link that may lose, repeat, reorder or alter what it carries.  The *)
(* client may connect again with the same SecureChannel object.            *)
(*                                                                         *)
(* The primitives are perfect: a hash, a derived key or a tag is the tuple *)
(* of its inputs, so two are equal when everything below them is.          *)
(***************************************************************************)
EXTENDS Naturals, Sequences, FiniteSets

CONSTANTS
    LastSequence,    \* 2^64 - 1: the record counter is LastSequence + 1 wide
    MaxConnections,  \* bound: connections of the client
    MaxFaults,       \* bound: faults of the link
    MaxInFlight      \* bound: records in flight one way

ASSUME ChannelAssumption ==
    /\ LastSequence \in Nat \ {0}
    /\ {MaxConnections, MaxFaults, MaxInFlight} \subseteq Nat

VARIABLES
    mode,      \* what client and server are configured to accept
    channel,   \* channel[e]: the SecureChannel of each end
    wire,      \* wire[e]: messages on their way to e
    got,       \* got[e]: the plaintexts e has taken on this connection
    said,      \* said[e]: how many e has sent on this connection
    counters,  \* counters[e]: every key and counter block e ever encrypted with
    records,   \* records[e]: how many records e ever encrypted
    connection, faults

channelVars == <<mode, channel, wire, got, said, counters, records, connection, faults>>

Ends == {"client", "server"}
Peer == [client |-> "server", server |-> "client"]

BPSEC1 == 1
BPSEC2 == 2  \* with a certificate
Versions == {BPSEC1, BPSEC2}
NoCertificate == <<>>
Garbled == <<"garbled">>

(***************************************************************************)
(* BPSEC2 is asked for by the client's policy; the server may have a       *)
(* certificate and may be told to accept nothing else.                     *)
(***************************************************************************)
Modes == [version : Versions, certified : BOOLEAN, required : BOOLEAN]

Fresh == [step |-> "idle", version |-> 0, hello |-> <<>>, reply |-> <<>>,
          certificate |-> <<>>, finished |-> <<>>, send |-> 0, receive |-> 0]

(***************************************************************************)
(* DeriveKeys and the transcript: what an end has seen of the handshake.   *)
(***************************************************************************)
Keys(e) == <<channel[e].hello, channel[e].reply>>
Transcript(e) == <<channel[e].hello, channel[e].reply, channel[e].certificate>>
ClientTag(e) == <<"client", Keys(e), Transcript(e)>>
ServerTag(e, clientTag) == <<"server", Keys(e), Transcript(e), clientTag>>

EndIs(e, step) == channel[e].step = step
Consume(e) == wire' = [wire EXCEPT ![e] = Tail(@)]
Message == [e \in Ends |-> IF wire[e] = <<>> THEN [type |-> "none"] ELSE Head(wire[e])]

\* What e sends after it has taken the message that had arrived.
Answer(e, messages) ==
    wire' = [wire EXCEPT ![e] = Tail(@), ![Peer[e]] = @ \o messages]

Others == <<mode, got, said, counters, records, connection, faults>>

(***************************************************************************)
(* Fail: whatever goes wrong, the channel is of no use until the next      *)
(* handshake.                                                              *)
(***************************************************************************)
Failed(e) == channel' = [channel EXCEPT ![e].step = "failed"]

-----------------------------------------------------------------------------
(* The handshake.  Each end takes the next message it waits for; one that  *)
(* is not what it must be makes the handshake fail.                        *)

(***************************************************************************)
(* HandshakeClient on a new connection, from Reset to ClientHello; the     *)
(* server has a new channel for it.                                        *)
(***************************************************************************)
StartHandshake ==
    /\ connection < MaxConnections
    /\ connection' = connection + 1
    /\ LET hello == [type |-> "ClientHello", version |-> mode.version,
                     random |-> connection + 1]
       IN /\ channel' = [client |-> [Fresh EXCEPT !.step = "hello", !.hello = hello,
                                                  !.version = mode.version],
                         server |-> [Fresh EXCEPT !.step = "listening"]]
          /\ wire' = [client |-> <<>>, server |-> <<hello>>]
    /\ got' = [e \in Ends |-> <<>>]
    /\ said' = [e \in Ends |-> 0]
    /\ UNCHANGED <<mode, counters, records, faults>>

(***************************************************************************)
(* The server answers in the version of the ClientHello: BPSEC2 needs a    *)
(* certificate, BPSEC1 is refused where a certificate is required.         *)
(***************************************************************************)
ServerAccepts(version) ==
    \/ version = BPSEC2 /\ mode.certified
    \/ version = BPSEC1 /\ ~mode.required

ServerHello ==
    /\ EndIs("server", "listening") /\ wire["server"] # <<>>
    /\ LET hello == Message["server"] IN
       IF hello.type = "ClientHello" /\ ServerAccepts(hello.version)
       THEN LET reply == [type |-> "ServerHello", version |-> hello.version,
                          random |-> connection]
                certificate == IF hello.version = BPSEC2
                               THEN <<[type |-> "ServerCertificate", version |-> BPSEC2]>>
                               ELSE NoCertificate
            IN /\ channel' = [channel EXCEPT !["server"] =
                    [@ EXCEPT !.step = "finishing", !.version = hello.version,
                              !.hello = hello, !.reply = reply,
                              !.certificate = certificate]]
               /\ Answer("server", <<reply>> \o certificate)
       ELSE Failed("server") /\ Consume("server")
    /\ UNCHANGED Others

(***************************************************************************)
(* The client takes the ServerHello and, in BPSEC2, the certificate, and   *)
(* sends ClientFinished.                                                   *)
(***************************************************************************)
ClientFinishes(seen) ==
    LET tag == <<"client", <<seen.hello, seen.reply>>,
                 <<seen.hello, seen.reply, seen.certificate>>>>
    IN /\ channel' = [channel EXCEPT !["client"] =
                        [seen EXCEPT !.step = "finishing", !.finished = tag]]
       /\ Answer("client", <<[type |-> "ClientFinished", version |-> seen.version,
                              tag |-> tag]>>)

TakeServerHello ==
    /\ EndIs("client", "hello") /\ wire["client"] # <<>>
    /\ LET reply == Message["client"]
           seen == [channel["client"] EXCEPT !.reply = reply]
       IN IF reply.type # "ServerHello" \/ reply.version # channel["client"].version
          THEN Failed("client") /\ Consume("client")
          ELSE IF reply.version = BPSEC2
          THEN /\ channel' = [channel EXCEPT !["client"] =
                                [seen EXCEPT !.step = "certificate"]]
               /\ Consume("client")
          ELSE ClientFinishes(seen)
    /\ UNCHANGED Others

TakeCertificate ==
    /\ EndIs("client", "certificate") /\ wire["client"] # <<>>
    /\ LET certificate == Message["client"] IN
       IF certificate = [type |-> "ServerCertificate", version |-> BPSEC2]
       THEN ClientFinishes([channel["client"] EXCEPT !.certificate = <<certificate>>])
       ELSE Failed("client") /\ Consume("client")
    /\ UNCHANGED Others

\* Mutated: the tag of a Finished message is not compared.
AnyFinished(e, type, tag) == Message[e].type = type

FinishedIsRight(e, type, tag) ==
    /\ Message[e].type = type
    /\ Message[e].version = channel[e].version
    /\ Message[e].tag = tag

TakeClientFinished ==
    /\ EndIs("server", "finishing") /\ wire["server"] # <<>>
    /\ IF FinishedIsRight("server", "ClientFinished", ClientTag("server"))
       THEN /\ channel' = [channel EXCEPT !["server"].step = "established"]
            /\ Answer("server", <<[type |-> "ServerFinished",
                 version |-> channel["server"].version,
                 tag |-> ServerTag("server", Message["server"].tag)]>>)
       ELSE Failed("server") /\ Consume("server")
    /\ UNCHANGED Others

TakeServerFinished ==
    /\ EndIs("client", "finishing") /\ wire["client"] # <<>>
    /\ IF FinishedIsRight("client", "ServerFinished",
                          ServerTag("client", channel["client"].finished))
       THEN channel' = [channel EXCEPT !["client"].step = "established"]
       ELSE Failed("client")
    /\ Consume("client")
    /\ UNCHANGED Others

-----------------------------------------------------------------------------
(* Records *)

\* Mutated: a counter that runs out starts again.
CounterIsNeverLeft(e) == TRUE

CounterIsLeft(e) == channel[e].send # LastSequence

RecordTag(keys, direction, sequence, body) == <<keys, direction, sequence, body>>

(***************************************************************************)
(* SendRecord refuses the last counter value.  A record carries its number *)
(* and its text under a tag of both and of the direction.                  *)
(***************************************************************************)
SendRecord(e) ==
    /\ EndIs(e, "established")
    /\ Len(wire[Peer[e]]) < MaxInFlight
    /\ IF CounterIsLeft(e)
       THEN LET sequence == channel[e].send
                body == <<connection, said[e] + 1>>
            IN /\ channel' = [channel EXCEPT ![e].send = (@ + 1) % (LastSequence + 1)]
               /\ wire' = [wire EXCEPT ![Peer[e]] =
                    Append(@, [type |-> "Record", version |-> BPSEC1,
                               sequence |-> sequence, body |-> body,
                               tag |-> RecordTag(Keys(e), e, sequence, body)])]
               /\ said' = [said EXCEPT ![e] = @ + 1]
               /\ counters' = [counters EXCEPT ![e] = @ \cup {<<Keys(e), sequence>>}]
               /\ records' = [records EXCEPT ![e] = @ + 1]
       ELSE /\ Failed(e)
            /\ UNCHANGED <<wire, said, counters, records>>
    /\ UNCHANGED <<mode, got, connection, faults>>

\* Mutated: only the tag is checked.
AcceptedInAnyOrder(e, record) ==
    /\ record.type = "Record" /\ record.version = BPSEC1
    /\ record.tag = RecordTag(Keys(e), Peer[e], record.sequence, record.body)

Accepted(e, record) ==
    /\ record.type = "Record" /\ record.version = BPSEC1
    /\ record.sequence # LastSequence
    /\ record.sequence = channel[e].receive
    /\ record.tag = RecordTag(Keys(e), Peer[e], record.sequence, record.body)

ReceiveRecord(e) ==
    /\ EndIs(e, "established") /\ wire[e] # <<>>
    /\ IF Accepted(e, Message[e])
       THEN /\ got' = [got EXCEPT ![e] = Append(@, Message[e].body)]
            /\ channel' = [channel EXCEPT ![e].receive = @ + 1]
       ELSE Failed(e) /\ UNCHANGED got
    /\ Consume(e)
    /\ UNCHANGED <<mode, said, counters, records, connection, faults>>

(***************************************************************************)
(* An end gives up: a deadline, an I/O error, a closed connection.         *)
(***************************************************************************)
GivesUp(e) ==
    /\ channel[e].step \notin {"idle", "failed"}
    /\ Failed(e)
    /\ UNCHANGED <<wire, Others>>

-----------------------------------------------------------------------------
(* The link *)

Altered(message) ==
    CASE message.type \in {"ClientHello", "ServerHello"} ->
           {[message EXCEPT !.random = 0],
            [message EXCEPT !.version = BPSEC1 + BPSEC2 - @]}
      [] message.type = "ServerCertificate" -> {[message EXCEPT !.version = BPSEC1]}
      [] message.type = "Record" ->
           {[message EXCEPT !.body = Garbled]}
             \cup {[message EXCEPT !.sequence = n] : n \in 0..LastSequence}
      [] OTHER -> {[message EXCEPT !.tag = Garbled]}

Without(s, i) == [j \in 1..Len(s) - 1 |-> IF j < i THEN s[j] ELSE s[j + 1]]

LinkFault ==
    /\ faults < MaxFaults
    /\ faults' = faults + 1
    /\ \E e \in Ends : \E i \in DOMAIN wire[e] :
         \/ wire' = [wire EXCEPT ![e] = Without(@, i)]
         \/ wire' = [wire EXCEPT ![e] = Append(@, wire[e][i])]
         \/ /\ i > 1
            /\ wire' = [wire EXCEPT ![e] = [@ EXCEPT ![i] = wire[e][i - 1],
                                                     ![i - 1] = wire[e][i]]]
         \/ \E message \in Altered(wire[e][i]) \ {wire[e][i]} :
              wire' = [wire EXCEPT ![e][i] = message]
    /\ UNCHANGED <<mode, channel, got, said, counters, records, connection>>

ChannelInit ==
    /\ mode \in Modes
    /\ mode.required => mode.certified
    /\ channel = [e \in Ends |-> Fresh]
    /\ wire = [e \in Ends |-> <<>>]
    /\ got = [e \in Ends |-> <<>>]
    /\ said = [e \in Ends |-> 0]
    /\ counters = [e \in Ends |-> {}]
    /\ records = [e \in Ends |-> 0]
    /\ connection = 0 /\ faults = 0

ChannelNext ==
    \/ StartHandshake
    \/ ServerHello \/ TakeServerHello \/ TakeCertificate
    \/ TakeClientFinished \/ TakeServerFinished
    \/ \E e \in Ends : SendRecord(e) \/ ReceiveRecord(e) \/ GivesUp(e)
    \/ LinkFault

ChannelSpec == ChannelInit /\ [][ChannelNext]_channelVars

-----------------------------------------------------------------------------
ChannelTypeOK ==
    /\ mode \in Modes
    /\ \A e \in Ends :
         /\ channel[e].step \in {"idle", "hello", "certificate", "listening",
                                 "finishing", "established", "failed"}
         /\ channel[e].send \in 0..LastSequence
         /\ channel[e].receive \in 0..LastSequence
         /\ Len(got[e]) <= LastSequence

(***************************************************************************)
(* What an end has taken is the beginning of what the other end sent on    *)
(* this connection: nothing lost, repeated, reordered or altered, and      *)
(* nothing from an earlier connection.                                     *)
(***************************************************************************)
StreamIsAPrefix ==
    \A e \in Ends :
      /\ Len(got[e]) <= said[Peer[e]]
      /\ got[e] = [i \in 1..Len(got[e]) |-> <<connection, i>>]

(***************************************************************************)
(* An end that believes the channel is up shares keys, version and         *)
(* certificate with the other end, which has seen the same handshake byte  *)
(* for byte, whatever the link did to it; and each got what its own        *)
(* configuration asks for.                                                 *)
(***************************************************************************)
EstablishedMeansAgreed ==
    /\ \A e \in Ends : EndIs(e, "established") =>
         /\ Transcript("client") = Transcript("server")
         /\ channel["client"].version = mode.version
         /\ channel["server"].version = mode.version
    /\ EndIs("server", "established") /\ mode.required =>
         channel["server"].certificate # NoCertificate

(***************************************************************************)
(* No counter block is used for two records under one key, up to the last  *)
(* value of the counter and over reconnections: AES-CTR would reuse its    *)
(* key stream.                                                             *)
(***************************************************************************)
CountersAreUsedOnce ==
    \A e \in Ends : Cardinality(counters[e]) = records[e]
=============================================================================
