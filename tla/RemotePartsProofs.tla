------------------------- MODULE RemotePartsProofs --------------------------
(***************************************************************************)
(* Proofs about the parts of the remote backup that know nothing of one    *)
(* another: the channel to a client, for a counter of any width and any    *)
(* number of connections, faults and records in flight; the accept loop    *)
(* with its workers, for every pool and every number of clients; the       *)
(* processes that share a data directory, for any number of processes,     *)
(* names, accounts and snapshots; and the machines that back up to one     *)
(* account, for any number of machines, archives and snapshots.            *)
(***************************************************************************)
EXTENDS ServerProcesses, SecureChannel, WorkerPool, RemoteBackupClient,
        RemoteMetadataStoreProofs, SequenceTheorems, FiniteSetTheorems,
        WellFoundedInduction

-----------------------------------------------------------------------------
(* The channel *)

(***************************************************************************)
(* What an end remembers of a handshake.                                   *)
(***************************************************************************)
ClientHellos == [type : {"ClientHello"}, version : Versions, random : Nat]
ServerHellos == [type : {"ServerHello"}, version : Versions, random : Nat]
Certificates == [type : {"ServerCertificate"}, version : Versions]
Steps == {"idle", "hello", "certificate", "listening", "finishing",
          "established", "failed"}
Hellos == ClientHellos \cup {<<>>}
Replies == ServerHellos \cup {<<>>}
Chains == {<<certificate>> : certificate \in Certificates} \cup {NoCertificate}
ClientTags == {<<"client", <<hello, reply>>, <<hello, reply, chain>>>> :
                 hello \in Hellos, reply \in Replies, chain \in Chains}

Channels == [step : Steps, version : Versions \cup {0}, hello : Hellos,
             reply : Replies, certificate : Chains,
             finished : ClientTags \cup {<<>>},
             send : 0..LastSequence, receive : 0..LastSequence]

(***************************************************************************)
(* What can be on its way.  The link alters everything but what is under a *)
(* tag of the other end: a tag is one of this connection's, of what the    *)
(* end that sent it knows and said, or it is garbled.                      *)
(***************************************************************************)
Bodies == {<<connection, n>> : n \in Nat}

Said(e) == {RecordTag(Keys(e), e, n - 1, <<connection, n>>) : n \in 1..said[e]}

RecordsOf(e) ==
    [type : {"Record"}, version : {BPSEC1}, sequence : 0..LastSequence,
     body : Bodies \cup {Garbled}, tag : Said(e)]

ClientHasFinished == ~EndIs("client", "hello") /\ ~EndIs("client", "certificate")
ServerHasFinished == ~EndIs("server", "listening") /\ channel["server"].version # 0

FinishedTags(e) ==
    {Garbled} \cup
    (IF e = "client" THEN IF ClientHasFinished THEN {ClientTag("client")} ELSE {}
     ELSE IF ServerHasFinished
          THEN {ServerTag("server", ClientTag("server"))} ELSE {})

Finisheds(e) ==
    [type : {IF e = "client" THEN "ClientFinished" ELSE "ServerFinished"},
     version : Versions, tag : FinishedTags(e)]

MessagesOf(e) ==
    IF e = "client" THEN ClientHellos \cup Finisheds(e) \cup RecordsOf(e)
    ELSE ServerHellos \cup Certificates \cup Finisheds(e) \cup RecordsOf(e)

ChannelTypes ==
    /\ mode \in Modes
    /\ channel \in [Ends -> Channels]
    /\ \A e \in Ends : wire[e] \in Seq(MessagesOf(Peer[e]))
    /\ got \in [Ends -> Seq(Bodies)]
    /\ said \in [Ends -> Nat]
    /\ connection \in Nat /\ faults \in Nat
    /\ DOMAIN wire = Ends

(***************************************************************************)
(* What the ends know of a connection: the hello of the client and the     *)
(* reply of the server are this connection's own, each accepted what its   *)
(* configuration allows, and an end that is up has what the other end has. *)
(***************************************************************************)
HandshakeInv ==
    /\ ~EndIs("client", "idle") =>
         /\ channel["client"].version = mode.version
         /\ channel["client"].hello \in ClientHellos
         /\ channel["client"].hello.version = mode.version
         /\ channel["client"].hello.random = connection
    /\ EndIs("client", "idle") => EndIs("server", "idle") /\ \A e \in Ends : wire[e] = <<>>
    /\ channel["client"].step # "listening"
    /\ channel["server"].step \notin {"hello", "certificate"}
    /\ channel["server"].version # 0 =>
         /\ channel["server"].hello \in ClientHellos
         /\ channel["server"].version = channel["server"].hello.version
         /\ channel["server"].reply \in ServerHellos
         /\ channel["server"].reply.random = connection
         /\ ServerAccepts(channel["server"].version)
         /\ channel["server"].version = BPSEC2 =>
              channel["server"].certificate # NoCertificate
    /\ channel["server"].step \in {"finishing", "established"} =>
         channel["server"].version # 0
    /\ \A e \in Ends : EndIs(e, "established") =>
         /\ Transcript("client") = Transcript("server")
         /\ ClientHasFinished /\ ServerHasFinished

(***************************************************************************)
(* Counters: one record per value, all below the next one, on this         *)
(* connection; before the channel is up there is none.                     *)
(***************************************************************************)
StreamInv ==
    \A e \in Ends :
      /\ channel[e].send = said[e]
      /\ channel[e].receive = Len(got[e])
      /\ said[e] > 0 => channel[e].step \in {"established", "failed"}
      /\ said[e] > 0 => IF e = "client" THEN ClientHasFinished ELSE ServerHasFinished
      /\ got[e] = [i \in 1..Len(got[e]) |-> <<connection, i>>]
      /\ Len(got[e]) <= said[Peer[e]]

(***************************************************************************)
(* A key is of the connection whose number its end put into it, so a       *)
(* counter block was used before only if the counter is past it.           *)
(***************************************************************************)
Nonce(e, keys) == IF e = "client" THEN keys[1].random ELSE keys[2].random

CountersInv ==
    /\ DOMAIN counters = Ends /\ DOMAIN records = Ends
    /\ \A e \in Ends :
         /\ IsFiniteSet(counters[e])
         /\ Cardinality(counters[e]) = records[e]
         /\ \A block \in counters[e] :
              /\ Nonce(e, block[1]) <= connection
              /\ Nonce(e, block[1]) \in Nat /\ block[2] \in Nat
              /\ Nonce(e, block[1]) = connection => block[2] < channel[e].send

ChannelInv == ChannelTypes /\ HandshakeInv /\ StreamInv /\ CountersInv

USE ChannelAssumption DEF Ends, Peer

-----------------------------------------------------------------------------
(***************************************************************************)
(* What is done to a queue of messages leaves messages in it.              *)
(***************************************************************************)
LEMMA QueueOps ==
    ASSUME NEW S, NEW q \in Seq(S)
    PROVE  /\ q # <<>> => Head(q) \in S /\ Tail(q) \in Seq(S)
           /\ \A m \in S : Append(q, m) \in Seq(S)
           /\ \A m, n \in S : q \o <<m>> \in Seq(S) /\ q \o <<m, n>> \in Seq(S)
           /\ \A i \in 1..Len(q) : q[i] \in S
<1>1. \A m, n \in S : <<m>> \in Seq(S) /\ <<m, n>> \in Seq(S)
  OBVIOUS
<1>2. \A m, n \in S : q \o <<m>> \in Seq(S) /\ q \o <<m, n>> \in Seq(S)
  BY <1>1, ConcatProperties
<1>3. q # <<>> => Head(q) \in S /\ Tail(q) \in Seq(S)
  BY HeadTailProperties
<1>4. \A m \in S : Append(q, m) \in Seq(S)
  BY AppendProperties
<1>. QED
  BY <1>2, <1>3, <1>4, ElementOfSeq

(***************************************************************************)
(* A message less, two that change places, one that is replaced.           *)
(***************************************************************************)
LEMMA QueueFaults ==
    ASSUME NEW S, NEW q \in Seq(S), NEW i \in 1..Len(q)
    PROVE  /\ Without(q, i) \in Seq(S)
           /\ i > 1 => [q EXCEPT ![i] = q[i - 1], ![i - 1] = q[i]] \in Seq(S)
           /\ \A m \in S : [q EXCEPT ![i] = m] \in Seq(S)
<1>1. /\ Len(q) \in Nat /\ q \in [1..Len(q) -> S]
      /\ \A n \in Nat : [1..n -> S] \subseteq Seq(S)
  BY LenProperties, SeqDef
<1>2. Without(q, i) \in [1..Len(q) - 1 -> S]
  BY <1>1 DEF Without
<1>3. i > 1 => [q EXCEPT ![i] = q[i - 1], ![i - 1] = q[i]] \in [1..Len(q) -> S]
  BY <1>1
<1>4. \A m \in S : [q EXCEPT ![i] = m] \in [1..Len(q) -> S]
  BY <1>1
<1>5. Len(q) \in Nat /\ Len(q) - 1 \in Nat
  BY <1>1
<1>6. Without(q, i) \in Seq(S)
  BY ONLY <1>1, <1>2, <1>5
<1>. QED
  BY ONLY <1>1, <1>3, <1>4, <1>6

(***************************************************************************)
(* What may be on its way only becomes more during a connection.           *)
(***************************************************************************)
LEMMA MessagesGrow ==
    ASSUME NEW e \in Ends, connection' = connection,
           said \in [Ends -> Nat], said' \in [Ends -> Nat],
           said[e] <= said'[e],
           said[e] > 0 => UNCHANGED Keys(e),
           ClientHasFinished => ClientHasFinished' /\ UNCHANGED ClientTag("client"),
           ServerHasFinished =>
             /\ ServerHasFinished'
             /\ UNCHANGED ServerTag("server", ClientTag("server"))
    PROVE  MessagesOf(e) \subseteq MessagesOf(e)'
<1>1. Said(e) \subseteq Said(e)'
  <2>1. CASE said[e] > 0
    BY <2>1 DEF Said, RecordTag
  <2>2. CASE said[e] = 0
    BY <2>2 DEF Said
  <2>. QED
    BY <2>1, <2>2
<1>2. RecordsOf(e) \subseteq RecordsOf(e)'
  BY <1>1 DEF RecordsOf, Bodies
<1>3. FinishedTags(e) \subseteq FinishedTags(e)'
  BY DEF FinishedTags
<1>4. Finisheds(e) \subseteq Finisheds(e)'
  BY <1>3 DEF Finisheds
<1>. QED
  BY <1>2, <1>4 DEF MessagesOf

(***************************************************************************)
(* An altered message is one that could have been on its way.              *)
(***************************************************************************)
LEMMA AlteredIsAMessage ==
    ASSUME NEW e \in Ends, NEW m \in MessagesOf(e), NEW n \in Altered(m)
    PROVE  n \in MessagesOf(e)
<1>1. CASE m \in ClientHellos \/ m \in ServerHellos
  <2>1. m.type \in {"ClientHello", "ServerHello"}
    BY <1>1 DEF ClientHellos, ServerHellos
  <2>2. n \in {[m EXCEPT !.random = 0],
               [m EXCEPT !.version = BPSEC1 + BPSEC2 - @]}
    BY <2>1 DEF Altered
  <2>3. m \in ClientHellos => n \in ClientHellos
    BY <2>2 DEF ClientHellos, Versions, BPSEC1, BPSEC2
  <2>4. m \in ServerHellos => n \in ServerHellos
    BY <2>2 DEF ServerHellos, Versions, BPSEC1, BPSEC2
  <2>5. m \in ClientHellos => e = "client"
    BY DEF MessagesOf, ClientHellos, ServerHellos, Certificates, Finisheds, RecordsOf
  <2>6. m \in ServerHellos => e = "server"
    BY DEF MessagesOf, ClientHellos, ServerHellos, Certificates, Finisheds, RecordsOf
  <2>. QED
    BY <1>1, <2>3, <2>4, <2>5, <2>6 DEF MessagesOf
<1>2. CASE m \in Certificates
  <2>1. e = "server"
    BY <1>2 DEF MessagesOf, ClientHellos, Certificates, Finisheds, RecordsOf
  <2>2. n \in Certificates
    BY <1>2 DEF Altered, Certificates, Versions
  <2>. QED
    BY <2>1, <2>2 DEF MessagesOf
<1>3. CASE m \in RecordsOf(e)
  <2>1. m.type = "Record"
    BY <1>3 DEF RecordsOf
  <2>2. n \in {[m EXCEPT !.body = Garbled]}
               \cup {[m EXCEPT !.sequence = k] : k \in 0..LastSequence}
    BY <2>1 DEF Altered
  <2>3. n \in RecordsOf(e)
    BY <1>3, <2>2 DEF RecordsOf
  <2>. QED
    BY <2>3 DEF MessagesOf
<1>4. CASE m \in Finisheds(e)
  <2>1. m.type \in {"ClientFinished", "ServerFinished"}
    BY <1>4 DEF Finisheds
  <2>2. n = [m EXCEPT !.tag = Garbled]
    BY <2>1 DEF Altered
  <2>3. n \in Finisheds(e)
    BY <1>4, <2>2 DEF Finisheds, FinishedTags
  <2>. QED
    BY <2>3 DEF MessagesOf
<1>. QED
  BY <1>1, <1>2, <1>3, <1>4 DEF MessagesOf

(***************************************************************************)
(* The message an end takes is one the other end may have sent, and its    *)
(* type says which.                                                        *)
(***************************************************************************)
LEMMA TakenMessage ==
    ASSUME ChannelTypes, NEW e \in Ends, wire[e] # <<>>
    PROVE  /\ Message[e] \in MessagesOf(Peer[e])
           /\ Tail(wire[e]) \in Seq(MessagesOf(Peer[e]))
           /\ Message[e].type = "ClientHello" => Message[e] \in ClientHellos
           /\ Message[e].type = "ServerHello" => Message[e] \in ServerHellos
           /\ Message[e].type = "ClientFinished" =>
                Message[e] \in Finisheds("client") /\ e = "server"
           /\ Message[e].type = "ServerFinished" =>
                Message[e] \in Finisheds("server") /\ e = "client"
           /\ Message[e].type = "Record" => Message[e] \in RecordsOf(Peer[e])
<1>1. /\ Message[e] = Head(wire[e])
      /\ wire[e] \in Seq(MessagesOf(Peer[e]))
  BY DEF Message, ChannelTypes
<1>2. /\ Message[e] \in MessagesOf(Peer[e])
      /\ Tail(wire[e]) \in Seq(MessagesOf(Peer[e]))
  BY <1>1, QueueOps
<1>. QED
  BY <1>2 DEF MessagesOf, ClientHellos, ServerHellos, Certificates, Finisheds,
              RecordsOf

(***************************************************************************)
(* The types, for a step that changes channels and queues only.            *)
(***************************************************************************)
LEMMA TypesStay ==
    ASSUME ChannelTypes, UNCHANGED Others, channel' \in [Ends -> Channels],
           DOMAIN wire' = Ends,
           wire'["client"] \in Seq(MessagesOf("server")'),
           wire'["server"] \in Seq(MessagesOf("client")')
    PROVE  ChannelTypes'
<1>1. \A e \in Ends : wire'[e] \in Seq(MessagesOf(Peer[e])')
  OBVIOUS
<1>2. UNCHANGED <<mode, got, said, connection, faults>>
  BY DEF Others
<1>. QED
  BY <1>1, <1>2 DEF ChannelTypes, Bodies

(***************************************************************************)
(* Steps of the handshake, and failures, leave the records alone.          *)
(***************************************************************************)
LEMMA StreamsStay ==
    ASSUME ChannelInv, UNCHANGED Others,
           \A e \in Ends :
             /\ channel'[e].send = channel[e].send
             /\ channel'[e].receive = channel[e].receive
             /\ said[e] > 0 =>
                  /\ channel'[e].step \in {"established", "failed"}
                  /\ IF e = "client" THEN ClientHasFinished' ELSE ServerHasFinished'
    PROVE  StreamInv' /\ CountersInv'
<1>1. StreamInv'
  BY DEF ChannelInv, StreamInv, Others
<1>2. CountersInv'
  BY DEF ChannelInv, CountersInv, Others, Nonce
<1>. QED
  BY <1>1, <1>2

(***************************************************************************)
(* An end that only goes to another step.                                  *)
(***************************************************************************)
LEMMA StepChanges ==
    ASSUME channel \in [Ends -> Channels], NEW e \in Ends, NEW step \in Steps,
           channel' = [channel EXCEPT ![e].step = step]
    PROVE  /\ channel' \in [Ends -> Channels]
           /\ \A d \in Ends :
                /\ channel'[d].step = IF d = e THEN step ELSE channel[d].step
                /\ channel'[d].version = channel[d].version
                /\ channel'[d].hello = channel[d].hello
                /\ channel'[d].reply = channel[d].reply
                /\ channel'[d].certificate = channel[d].certificate
                /\ channel'[d].send = channel[d].send
                /\ channel'[d].receive = channel[d].receive
<1>1. /\ channel'[e] = [channel[e] EXCEPT !.step = step]
      /\ \A d \in Ends : d # e => channel'[d] = channel[d]
      /\ DOMAIN channel' = Ends
      /\ channel' = [d \in Ends |-> channel'[d]]
  OBVIOUS
<1>2. channel'[e] \in Channels
  BY <1>1 DEF Channels
<1>. QED
  BY <1>1, <1>2 DEF Channels

-----------------------------------------------------------------------------
(***************************************************************************)
(* Nothing has been sent.                                                  *)
(***************************************************************************)
LEMMA InitChannelInv == ChannelInit => ChannelInv
<1>. SUFFICES ASSUME ChannelInit PROVE ChannelInv
  OBVIOUS
<1>1. Fresh \in Channels
  BY DEF Fresh, Channels, Steps, Hellos, Replies, Chains, NoCertificate
<1>2. ChannelTypes
  BY <1>1 DEF ChannelInit, ChannelTypes
<1>3. HandshakeInv
  BY DEF ChannelInit, HandshakeInv, EndIs, Fresh
<1>4. StreamInv
  BY DEF ChannelInit, StreamInv, Fresh
<1>5. CountersInv
  BY FS_EmptySet DEF ChannelInit, CountersInv
<1>. QED
  BY <1>2, <1>3, <1>4, <1>5 DEF ChannelInv

(***************************************************************************)
(* An end that fails keeps what it knows.                                  *)
(***************************************************************************)
LEMMA FailedChannel ==
    ASSUME ChannelInv, NEW e \in Ends, Failed(e), ~EndIs(e, "idle"), UNCHANGED Others,
           \/ UNCHANGED wire
           \/ wire[e] # <<>> /\ Consume(e)
    PROVE  ChannelInv'
<1>. USE DEF ChannelInv
<1>1. /\ channel' \in [Ends -> Channels]
      /\ \A d \in Ends :
           /\ channel'[d].step = IF d = e THEN "failed" ELSE channel[d].step
           /\ channel'[d].version = channel[d].version
           /\ channel'[d].hello = channel[d].hello
           /\ channel'[d].reply = channel[d].reply
           /\ channel'[d].certificate = channel[d].certificate
           /\ channel'[d].send = channel[d].send
           /\ channel'[d].receive = channel[d].receive
  BY StepChanges DEF Failed, ChannelTypes, Steps
<1>2. UNCHANGED <<mode, got, said, counters, records, connection, faults>>
  BY DEF Others
<1>3. /\ ClientHasFinished => ClientHasFinished'
      /\ ServerHasFinished => ServerHasFinished'
  BY <1>1 DEF ClientHasFinished, ServerHasFinished, EndIs
<1>4. \A d \in Ends : UNCHANGED <<Keys(d), Transcript(d)>>
  BY <1>1 DEF Keys, Transcript
<1>5. \A d \in Ends : MessagesOf(d) \subseteq MessagesOf(d)'
  BY <1>2, <1>3, <1>4, MessagesGrow DEF ChannelTypes, ClientTag, ServerTag
<1>6. \A d \in Ends : wire'[d] \in Seq(MessagesOf(Peer[d]))
  BY TakenMessage DEF Consume, ChannelTypes
<1>7. \A d \in Ends : wire'[d] \in Seq(MessagesOf(Peer[d])')
  BY <1>5, <1>6, SeqMonotonic
<1>8. ChannelTypes'
  BY <1>1, <1>2, <1>7 DEF ChannelTypes, Consume, Bodies
<1>9. HandshakeInv'
  <2>1. /\ (EndIs("client", "idle"))' <=> EndIs("client", "idle")
        /\ (EndIs("client", "idle"))' => e # "server"
    BY <1>1 DEF EndIs, HandshakeInv
  <2>2. Transcript("client") = Transcript("server") =>
          (Transcript("client") = Transcript("server"))'
    BY <1>4
  <2>3. ServerAccepts(channel["server"].version) =>
          ServerAccepts(channel["server"].version)'
    BY <1>1, <1>2 DEF ServerAccepts
  <2>. QED
    BY <1>1, <1>2, <1>3, <2>1, <2>2, <2>3 DEF HandshakeInv, EndIs
<1>10. StreamInv' /\ CountersInv'
  BY <1>1, <1>3, StreamsStay DEF StreamInv
<1>. QED
  BY <1>8, <1>9, <1>10

(***************************************************************************)
(* A new connection: nothing of the old one is on its way, and the number  *)
(* of the new one is in no key so far.                                     *)
(***************************************************************************)
LEMMA ConnectChannelInv ==
    ASSUME ChannelInv, StartHandshake
    PROVE  ChannelInv'
<1>. USE DEF ChannelInv
<1>. DEFINE hello == [type |-> "ClientHello", version |-> mode.version,
                      random |-> connection + 1]
<1>1. /\ channel' = [client |-> [Fresh EXCEPT !.step = "hello", !.hello = hello,
                                              !.version = mode.version],
                     server |-> [Fresh EXCEPT !.step = "listening"]]
      /\ wire' = [client |-> <<>>, server |-> <<hello>>]
      /\ got' = [e \in Ends |-> <<>>] /\ said' = [e \in Ends |-> 0]
      /\ connection' = connection + 1
      /\ UNCHANGED <<mode, counters, records, faults>>
  BY DEF StartHandshake
<1>2. mode.version \in Versions /\ connection \in Nat
  BY DEF ChannelTypes, Modes
<1>3. hello \in ClientHellos
  BY <1>2 DEF ClientHellos
<1>. DEFINE client == [Fresh EXCEPT !.step = "hello", !.hello = hello,
                                    !.version = mode.version]
            server == [Fresh EXCEPT !.step = "listening"]
<1>4. /\ client \in Channels /\ server \in Channels
      /\ client.step = "hello" /\ client.hello = hello
      /\ client.version = mode.version /\ client.send = 0 /\ client.receive = 0
      /\ server.step = "listening" /\ server.version = 0
      /\ server.send = 0 /\ server.receive = 0
  <2>1. Fresh \in Channels /\ Fresh.send = 0 /\ Fresh.receive = 0 /\ Fresh.version = 0
    BY DEF Fresh, Channels, Steps, Hellos, Replies, Chains, NoCertificate
  <2>2. hello \in Hellos
    BY <1>3 DEF Hellos
  <2>. HIDE DEF hello
  <2>. QED
    BY <1>2, <2>1, <2>2 DEF Channels, Steps
<1>. HIDE DEF client, server
<1>41. channel' = [client |-> client, server |-> server]
  BY <1>1 DEF client, server
<1>42. channel' \in [Ends -> Channels]
  BY <1>4, <1>41
<1>5. \A e \in Ends : wire'[e] \in Seq(MessagesOf(Peer[e])')
  <2>1. wire'["client"] \in Seq(MessagesOf("server")')
    BY <1>1
  <2>2. hello \in MessagesOf("client")'
    BY <1>3 DEF MessagesOf
  <2>3. wire'["server"] \in Seq(MessagesOf("client")')
    BY <1>1, <2>2
  <2>. QED
    BY <2>1, <2>3
<1>6. ChannelTypes'
  BY <1>1, <1>2, <1>42, <1>5 DEF ChannelTypes, Bodies
<1>7. /\ channel'["client"].step = "hello" /\ channel'["client"].hello = hello
      /\ channel'["client"].version = mode.version
      /\ channel'["server"].step = "listening" /\ channel'["server"].version = 0
      /\ \A e \in Ends : channel'[e].send = 0 /\ channel'[e].receive = 0
  BY <1>4, <1>41
<1>8. HandshakeInv'
  BY <1>1, <1>3, <1>7 DEF HandshakeInv, EndIs
<1>9. StreamInv'
  <2>1. \A e \in Ends : got'[e] = <<>> /\ said'[e] = 0
    BY <1>1
  <2>. QED
    BY <1>7, <2>1 DEF StreamInv
<1>10. CountersInv'
  BY <1>1, <1>2 DEF CountersInv, Nonce
<1>. QED
  BY <1>6, <1>8, <1>9, <1>10

(***************************************************************************)
(* The server takes a ClientHello, whoever made it, and answers.           *)
(***************************************************************************)
LEMMA ServerHelloChannelInv ==
    ASSUME ChannelInv, ServerHello
    PROVE  ChannelInv'
<1>. USE DEF ChannelInv
<1>. DEFINE hello == Message["server"]
            reply == [type |-> "ServerHello", version |-> hello.version,
                      random |-> connection]
            proof == [type |-> "ServerCertificate", version |-> BPSEC2]
            certificate == IF hello.version = BPSEC2 THEN <<proof>>
                           ELSE NoCertificate
<1>1. /\ EndIs("server", "listening") /\ wire["server"] # <<>>
      /\ UNCHANGED Others
  BY DEF ServerHello
<1>2. CASE Failed("server") /\ Consume("server")
  BY <1>1, <1>2, FailedChannel DEF EndIs
<1>3. CASE hello.type = "ClientHello" /\ ServerAccepts(hello.version)
  <2>1. /\ channel' = [channel EXCEPT !["server"] =
              [@ EXCEPT !.step = "finishing", !.version = hello.version,
                        !.hello = hello, !.reply = reply,
                        !.certificate = certificate]]
        /\ Answer("server", <<reply>> \o certificate)
    BY <1>3 DEF ServerHello
  <2>2. /\ hello \in ClientHellos /\ hello.version \in Versions
        /\ Tail(wire["server"]) \in Seq(MessagesOf("client"))
    BY <1>1, <1>3, TakenMessage DEF ClientHellos
  <2>3. /\ reply \in ServerHellos /\ proof \in Certificates
        /\ certificate \in Chains
        /\ hello.version = BPSEC2 => certificate # NoCertificate
    BY <2>2 DEF ServerHellos, Certificates, Chains, ChannelTypes, Versions,
                NoCertificate
  <2>4. channel["server"] \in Channels /\ channel["client"] \in Channels
    BY DEF ChannelTypes
  <2>5. /\ channel' \in [Ends -> Channels]
        /\ channel'["client"] = channel["client"]
        /\ channel'["server"].step = "finishing"
        /\ channel'["server"].version = hello.version
        /\ channel'["server"].hello = hello
        /\ channel'["server"].reply = reply
        /\ channel'["server"].certificate = certificate
        /\ channel'["server"].send = channel["server"].send
        /\ channel'["server"].receive = channel["server"].receive
    <3>1. channel'["server"] = [channel["server"] EXCEPT !.step = "finishing",
             !.version = hello.version, !.hello = hello, !.reply = reply,
             !.certificate = certificate]
      BY <2>1 DEF ChannelTypes
    <3>2. channel'["server"] \in Channels
      BY <2>2, <2>3, <2>4, <3>1 DEF Channels, Steps, Hellos, Replies
    <3>3. channel' \in [Ends -> Channels]
      BY <2>1, <2>4, <3>2 DEF ChannelTypes
    <3>4. channel'["client"] = channel["client"]
      BY <2>1 DEF ChannelTypes
    <3>. QED
      BY <2>4, <3>1, <3>3, <3>4 DEF Channels
  <2>6. UNCHANGED <<mode, got, said, counters, records, connection, faults>>
    BY <1>1 DEF Others
  <2>7. /\ ~ServerHasFinished /\ said["server"] = 0
        /\ ~EndIs("client", "established") /\ ~EndIs("server", "established")
    BY <1>1 DEF HandshakeInv, StreamInv, ChannelTypes, EndIs, ServerHasFinished
  <2>8. /\ ClientHasFinished' <=> ClientHasFinished
        /\ UNCHANGED <<Keys("client"), Transcript("client"), ClientTag("client")>>
    BY <2>5 DEF ClientHasFinished, EndIs, Keys, Transcript, ClientTag
  <2>9. \A e \in Ends : MessagesOf(e) \subseteq MessagesOf(e)'
    BY <2>6, <2>7, <2>8, MessagesGrow DEF ChannelTypes
  <2>10. reply \in MessagesOf("server")' /\ proof \in MessagesOf("server")'
    BY <2>3 DEF MessagesOf
  <2>12. wire["client"] \o (<<reply>> \o certificate) \in Seq(MessagesOf("server")')
    <3>1. wire["client"] \in Seq(MessagesOf("server")')
      BY <2>9, SeqMonotonic DEF ChannelTypes
    <3>2. <<reply>> \in Seq(MessagesOf("server")')
      BY <2>10
    <3>3. certificate \in Seq(MessagesOf("server")')
      BY <2>10 DEF NoCertificate
    <3>4. <<reply>> \o certificate \in Seq(MessagesOf("server")')
      BY <3>2, <3>3, ConcatProperties
    <3>. QED
      BY <3>1, <3>4, ConcatProperties
  <2>13. Tail(wire["server"]) \in Seq(MessagesOf("client")')
    BY <2>2, <2>9, SeqMonotonic
  <2>14. ChannelTypes'
    <3>1. /\ wire'["server"] = Tail(wire["server"])
          /\ wire'["client"] = wire["client"] \o (<<reply>> \o certificate)
          /\ DOMAIN wire' = Ends
      BY <2>1 DEF Answer, ChannelTypes
    <3>2. \A e \in Ends : wire'[e] \in Seq(MessagesOf(Peer[e])')
      <4>1. wire'["server"] \in Seq(MessagesOf("client")')
        BY <2>13, <3>1
      <4>2. wire'["client"] \in Seq(MessagesOf("server")')
        BY <2>12, <3>1
      <4>. QED
        BY <4>1, <4>2
    <3>. QED
      BY <2>5, <2>6, <3>1, <3>2 DEF ChannelTypes, Bodies
  <2>15. HandshakeInv'
    <3>1. ~EndIs("client", "idle")
      BY <1>1 DEF HandshakeInv, EndIs
    <3>2. ServerAccepts(channel["server"].version)'
      BY <1>3, <2>5, <2>6 DEF ServerAccepts
    <3>3. hello \in ClientHellos /\ reply \in ServerHellos /\ reply.random = connection
      BY <2>2, <2>3
    <3>4. /\ EndIs("client", "idle")' <=> EndIs("client", "idle")
          /\ ~EndIs("client", "established")' /\ ~EndIs("server", "established")'
      BY <2>5, <2>7 DEF EndIs
    <3>. HIDE DEF hello, reply, certificate
    <3>5. /\ channel'["client"].version = mode'.version
          /\ channel'["client"].hello \in ClientHellos
          /\ channel'["client"].hello.version = mode'.version
          /\ channel'["client"].hello.random = connection'
          /\ channel'["client"].step # "listening"
      BY <2>5, <2>6, <3>1 DEF HandshakeInv
    <3>6. /\ channel'["server"].hello \in ClientHellos
          /\ channel'["server"].version = channel'["server"].hello.version
          /\ channel'["server"].reply \in ServerHellos
          /\ channel'["server"].reply.random = connection'
          /\ channel'["server"].version = BPSEC2 =>
               channel'["server"].certificate # NoCertificate
          /\ channel'["server"].version # 0
          /\ channel'["server"].step \notin {"hello", "certificate"}
      BY <2>2, <2>3, <2>5, <2>6, <3>3 DEF Versions, BPSEC1, BPSEC2
    <3>. QED
      BY <3>1, <3>2, <3>4, <3>5, <3>6 DEF HandshakeInv
  <2>16. StreamInv' /\ CountersInv'
    BY <1>1, <2>5, <2>7, <2>8, StreamsStay DEF StreamInv
  <2>. QED
    BY <2>14, <2>15, <2>16
<1>. QED
  BY <1>2, <1>3 DEF ServerHello

(***************************************************************************)
(* The client learns the reply or the certificate, and may send its        *)
(* Finished: while it had not, nothing under its tag was on its way.       *)
(***************************************************************************)
LEMMA ClientLearns ==
    ASSUME ChannelInv, NEW seen \in Channels, UNCHANGED Others,
           channel["client"].step \in {"hello", "certificate"},
           channel' = [channel EXCEPT !["client"] = seen],
           seen.step \in {"certificate", "finishing"},
           seen.version = channel["client"].version,
           seen.hello = channel["client"].hello,
           seen.send = channel["client"].send,
           seen.receive = channel["client"].receive,
           wire["client"] # <<>>,
           \/ Consume("client")
           \/ /\ seen.step = "finishing"
              /\ Answer("client", <<[type |-> "ClientFinished", version |-> seen.version,
                                     tag |-> ClientTag("client")']>>)
    PROVE  ChannelInv'
<1>. USE DEF ChannelInv
<1>1. UNCHANGED <<mode, got, said, counters, records, connection, faults>>
  BY DEF Others
<1>2. /\ channel' \in [Ends -> Channels]
      /\ channel'["client"] = seen /\ channel'["server"] = channel["server"]
  BY DEF ChannelTypes
<1>3. /\ ~ClientHasFinished /\ said["client"] = 0
      /\ ~EndIs("client", "established") /\ ~EndIs("server", "established")
      /\ ~EndIs("client", "idle")
  BY DEF HandshakeInv, StreamInv, ChannelTypes, EndIs, ClientHasFinished
<1>4. /\ ServerHasFinished' <=> ServerHasFinished
      /\ UNCHANGED <<Keys("server"), ServerTag("server", ClientTag("server"))>>
      /\ ~EndIs("client", "established")' /\ ~EndIs("server", "established")'
      /\ ~EndIs("client", "idle")'
  BY <1>2, <1>3 DEF ServerHasFinished, EndIs, Keys, Transcript, ClientTag, ServerTag
<1>5. \A e \in Ends : MessagesOf(e) \subseteq MessagesOf(e)'
  BY <1>1, <1>3, <1>4, MessagesGrow DEF ChannelTypes
<1>6. /\ Tail(wire["client"]) \in Seq(MessagesOf("server")')
      /\ wire["server"] \in Seq(MessagesOf("client")')
  BY <1>5, TakenMessage, SeqMonotonic DEF ChannelTypes
<1>7. ChannelTypes'
  <2>1. CASE Consume("client")
    <3>1. /\ wire'["client"] = Tail(wire["client"]) /\ wire'["server"] = wire["server"]
          /\ DOMAIN wire' = Ends
      BY <2>1 DEF Consume, ChannelTypes
    <3>. QED
      BY <1>2, <1>6, <3>1, TypesStay
  <2>2. CASE /\ seen.step = "finishing"
             /\ Answer("client",
                   <<[type |-> "ClientFinished", version |-> seen.version,
                      tag |-> ClientTag("client")']>>)
    <3>. DEFINE finished == [type |-> "ClientFinished", version |-> seen.version,
                             tag |-> ClientTag("client")']
    <3>1. /\ wire'["client"] = Tail(wire["client"])
          /\ wire'["server"] = wire["server"] \o <<finished>>
          /\ DOMAIN wire' = Ends
      BY <2>2 DEF Answer, ChannelTypes
    <3>2. ClientHasFinished'
      BY <1>2, <2>2 DEF ClientHasFinished, EndIs
    <3>3. seen.version \in Versions
      BY <1>3 DEF HandshakeInv, ChannelTypes, Modes
    <3>4. finished \in Finisheds("client")'
      BY <3>2, <3>3 DEF Finisheds, FinishedTags
    <3>5. finished \in MessagesOf("client")'
      BY <3>4 DEF MessagesOf
    <3>. HIDE DEF finished
    <3>6. wire["server"] \o <<finished>> \in Seq(MessagesOf("client")')
      BY <1>6, <3>5, QueueOps
    <3>. QED
      BY <1>2, <1>6, <3>1, <3>6, TypesStay
  <2>. QED
    BY <2>1, <2>2
<1>8. HandshakeInv'
  <2>1. /\ channel'["client"].version = mode'.version
        /\ channel'["client"].hello \in ClientHellos
        /\ channel'["client"].hello.version = mode'.version
        /\ channel'["client"].hello.random = connection'
        /\ channel'["client"].step # "listening"
    BY <1>1, <1>2, <1>3 DEF HandshakeInv
  <2>2. ServerAccepts(channel["server"].version)
          => ServerAccepts(channel["server"].version)'
    BY <1>1, <1>2 DEF ServerAccepts
  <2>. QED
    BY <1>1, <1>2, <1>4, <2>1, <2>2 DEF HandshakeInv, EndIs
<1>9. StreamInv' /\ CountersInv'
  BY <1>2, <1>3, <1>4, StreamsStay DEF StreamInv
<1>. QED
  BY <1>7, <1>8, <1>9

(***************************************************************************)
(* ClientFinishes is such a step.                                          *)
(***************************************************************************)
LEMMA ClientFinishesChannelInv ==
    ASSUME ChannelInv, NEW seen \in Channels, UNCHANGED Others,
           channel["client"].step \in {"hello", "certificate"},
           seen.version = channel["client"].version,
           seen.hello = channel["client"].hello,
           seen.send = channel["client"].send,
           seen.receive = channel["client"].receive,
           wire["client"] # <<>>, ClientFinishes(seen)
    PROVE  ChannelInv'
<1>. DEFINE tag == <<"client", <<seen.hello, seen.reply>>,
                     <<seen.hello, seen.reply, seen.certificate>>>>
            end == [seen EXCEPT !.step = "finishing", !.finished = tag]
<1>1. tag \in ClientTags
  <2>1. /\ seen.hello \in Hellos /\ seen.reply \in Replies
        /\ seen.certificate \in Chains
    BY DEF Channels
  <2>. QED
    BY <2>1 DEF ClientTags
<1>2. /\ channel' = [channel EXCEPT !["client"] = end]
      /\ Answer("client", <<[type |-> "ClientFinished", version |-> seen.version,
                              tag |-> tag]>>)
  BY DEF ClientFinishes
<1>3. /\ end \in Channels /\ end.step = "finishing"
      /\ end.version = seen.version /\ end.hello = seen.hello
      /\ end.reply = seen.reply /\ end.certificate = seen.certificate
      /\ end.send = seen.send /\ end.receive = seen.receive
  <2>. HIDE DEF tag
  <2>. QED
    BY <1>1 DEF Channels, Steps
<1>4. tag = ClientTag("client")'
  <2>1. channel'["client"] = end
    BY <1>2 DEF ChannelInv, ChannelTypes
  <2>. HIDE DEF end
  <2>. QED
    BY <1>3, <2>1 DEF ClientTag, Keys, Transcript
<1>. HIDE DEF tag, end
<1>. QED
  BY <1>2, <1>3, <1>4, ClientLearns

(***************************************************************************)
(* The client takes a ServerHello: the keys it derives are those of the    *)
(* connection, whatever it was sent.                                       *)
(***************************************************************************)
LEMMA TakeServerHelloChannelInv ==
    ASSUME ChannelInv, TakeServerHello
    PROVE  ChannelInv'
<1>. DEFINE reply == Message["client"]
            seen == [channel["client"] EXCEPT !.reply = reply]
<1>1. /\ EndIs("client", "hello") /\ wire["client"] # <<>> /\ UNCHANGED Others
      /\ channel["client"] \in Channels
  BY DEF TakeServerHello, ChannelInv, ChannelTypes
<1>2. CASE reply.type # "ServerHello" \/ reply.version # channel["client"].version
  <2>1. Failed("client") /\ Consume("client")
    BY <1>2 DEF TakeServerHello
  <2>. QED
    BY <1>1, <2>1, FailedChannel DEF EndIs
<1>3. CASE reply.type = "ServerHello" /\ reply.version = channel["client"].version
  <2>1. reply \in ServerHellos
    BY <1>1, <1>3, TakenMessage DEF ChannelInv
  <2>2. /\ seen \in Channels /\ seen.version = channel["client"].version
        /\ seen.hello = channel["client"].hello
        /\ seen.send = channel["client"].send
        /\ seen.receive = channel["client"].receive
    <3>1. reply \in Replies
      BY <2>1 DEF Replies
    <3>. HIDE DEF reply
    <3>. QED
      BY <1>1, <3>1 DEF Channels
  <2>3. CASE ClientFinishes(seen)
    <3>. HIDE DEF seen
    <3>. QED
      BY <1>1, <2>2, <2>3, ClientFinishesChannelInv DEF EndIs
  <2>4. CASE /\ channel' = [channel EXCEPT !["client"] =
                               [seen EXCEPT !.step = "certificate"]]
             /\ Consume("client")
    <3>. DEFINE next == [seen EXCEPT !.step = "certificate"]
    <3>1. /\ next \in Channels /\ next.step = "certificate"
          /\ next.version = seen.version /\ next.hello = seen.hello
          /\ next.send = seen.send /\ next.receive = seen.receive
      <4>. HIDE DEF seen
      <4>. QED
        BY <2>2 DEF Channels, Steps
    <3>2. channel' = [channel EXCEPT !["client"] = next]
      BY <2>4
    <3>. HIDE DEF next, seen
    <3>. QED
      BY <1>1, <2>2, <2>4, <3>1, <3>2, ClientLearns DEF EndIs
  <2>. QED
    BY <1>3, <2>3, <2>4 DEF TakeServerHello
<1>. QED
  BY <1>2, <1>3

(***************************************************************************)
(* The client takes a certificate and its signature over the handshake so  *)
(* far.                                                                    *)
(***************************************************************************)
LEMMA TakeCertificateChannelInv ==
    ASSUME ChannelInv, TakeCertificate
    PROVE  ChannelInv'
<1>. DEFINE certificate == Message["client"]
            seen == [channel["client"] EXCEPT !.certificate = <<certificate>>]
<1>1. /\ EndIs("client", "certificate") /\ wire["client"] # <<>> /\ UNCHANGED Others
      /\ channel["client"] \in Channels
  BY DEF TakeCertificate, ChannelInv, ChannelTypes
<1>2. CASE Failed("client") /\ Consume("client")
  BY <1>1, <1>2, FailedChannel DEF EndIs
<1>3. CASE /\ certificate = [type |-> "ServerCertificate", version |-> BPSEC2]
           /\ ClientFinishes(seen)
  <2>1. certificate \in Certificates
    BY <1>3 DEF Certificates, Versions
  <2>2. <<certificate>> \in Chains
    BY <2>1 DEF Chains
  <2>3. /\ seen \in Channels /\ seen.version = channel["client"].version
        /\ seen.hello = channel["client"].hello
        /\ seen.send = channel["client"].send
        /\ seen.receive = channel["client"].receive
    <3>. HIDE DEF certificate
    <3>. QED
      BY <1>1, <2>2 DEF Channels
  <2>. HIDE DEF seen
  <2>. QED
    BY <1>1, <1>3, <2>3, ClientFinishesChannelInv DEF EndIs
<1>. QED
  BY <1>2, <1>3 DEF TakeCertificate

(***************************************************************************)
(* An end that takes the right Finished is up, with what the other has.    *)
(***************************************************************************)
LEMMA Establishes ==
    ASSUME ChannelInv, NEW e \in Ends, EndIs(e, "finishing"), UNCHANGED Others,
           channel' = [channel EXCEPT ![e].step = "established"],
           Transcript("client") = Transcript("server"),
           ClientHasFinished, ServerHasFinished
    PROVE  /\ channel' \in [Ends -> Channels]
           /\ \A d \in Ends : MessagesOf(d) \subseteq MessagesOf(d)'
           /\ ClientHasFinished' /\ ServerHasFinished'
           /\ UNCHANGED ServerTag("server", ClientTag("server"))
           /\ HandshakeInv' /\ StreamInv' /\ CountersInv'
<1>. USE DEF ChannelInv
<1>1. /\ channel' \in [Ends -> Channels]
      /\ \A d \in Ends :
           /\ channel'[d].step = IF d = e THEN "established" ELSE channel[d].step
           /\ channel'[d].version = channel[d].version
           /\ channel'[d].hello = channel[d].hello
           /\ channel'[d].reply = channel[d].reply
           /\ channel'[d].certificate = channel[d].certificate
           /\ channel'[d].send = channel[d].send
           /\ channel'[d].receive = channel[d].receive
  BY StepChanges DEF ChannelTypes, Steps
<1>2. UNCHANGED <<mode, got, said, counters, records, connection, faults>>
  BY DEF Others
<1>3. ClientHasFinished' /\ ServerHasFinished'
  BY <1>1 DEF ClientHasFinished, ServerHasFinished, EndIs
<1>4. \A d \in Ends : UNCHANGED <<Keys(d), Transcript(d)>>
  BY <1>1 DEF Keys, Transcript
<1>5. UNCHANGED <<ClientTag("client"), ServerTag("server", ClientTag("server"))>>
  BY <1>4 DEF ClientTag, ServerTag
<1>6. \A d \in Ends : MessagesOf(d) \subseteq MessagesOf(d)'
  BY <1>2, <1>3, <1>4, <1>5, MessagesGrow DEF ChannelTypes
<1>7. HandshakeInv'
  <2>1. /\ (EndIs("client", "idle"))' <=> EndIs("client", "idle")
        /\ ~EndIs("client", "idle")
    BY <1>1 DEF EndIs, HandshakeInv
  <2>2. (Transcript("client") = Transcript("server"))'
    BY <1>4
  <2>3. ServerAccepts(channel["server"].version) =>
          ServerAccepts(channel["server"].version)'
    BY <1>1, <1>2 DEF ServerAccepts
  <2>4. channel["server"].version # 0
    BY DEF ServerHasFinished
  <2>. QED
    BY <1>1, <1>2, <1>3, <2>1, <2>2, <2>3, <2>4 DEF HandshakeInv, EndIs
<1>8. StreamInv' /\ CountersInv'
  <2>1. \A d \in Ends :
          /\ channel'[d].send = channel[d].send
          /\ channel'[d].receive = channel[d].receive
          /\ said[d] > 0 => channel'[d].step \in {"established", "failed"}
    BY <1>1 DEF StreamInv
  <2>. QED
    BY <1>3, <2>1, StreamsStay
<1>. QED
  BY <1>1, <1>3, <1>5, <1>6, <1>7, <1>8

(***************************************************************************)
(* The server takes a Finished: if it is the right one the client made it. *)
(***************************************************************************)
LEMMA TakeClientFinishedChannelInv ==
    ASSUME ChannelInv, TakeClientFinished
    PROVE  ChannelInv'
<1>1. /\ EndIs("server", "finishing") /\ wire["server"] # <<>> /\ UNCHANGED Others
      /\ ChannelTypes
  BY DEF TakeClientFinished, ChannelInv
<1>2. CASE Failed("server") /\ Consume("server")
  BY <1>1, <1>2, FailedChannel DEF EndIs
<1>3. CASE ~(Failed("server") /\ Consume("server"))
  <2>. DEFINE finished == [type |-> "ServerFinished",
                           version |-> channel["server"].version,
                           tag |-> ServerTag("server", Message["server"].tag)]
  <2>1. /\ FinishedIsRight("server", "ClientFinished", ClientTag("server"))
        /\ channel' = [channel EXCEPT !["server"].step = "established"]
        /\ Answer("server", <<finished>>)
    BY <1>3 DEF TakeClientFinished
  <2>2. /\ Message["server"] \in Finisheds("client")
        /\ Tail(wire["server"]) \in Seq(MessagesOf("client"))
        /\ Message["server"].tag = ClientTag("server")
    BY <1>1, <2>1, TakenMessage DEF FinishedIsRight
  <2>3. ClientTag("server") \in FinishedTags("client")
    BY <2>2 DEF Finisheds
  <2>4. ClientTag("server") # Garbled
    <3>1. Garbled[1] = "garbled" /\ ClientTag("server")[1] = "client"
      BY DEF Garbled, ClientTag
    <3>. QED
      BY <3>1
  <2>5. ClientHasFinished /\ ClientTag("server") = ClientTag("client")
    BY <2>3, <2>4 DEF FinishedTags
  <2>6. Transcript("client") = Transcript("server")
    <3>1. ClientTag("server")[3] = Transcript("server")
          /\ ClientTag("client")[3] = Transcript("client")
      BY DEF ClientTag
    <3>. QED
      BY <2>5, <3>1
  <2>7. ServerHasFinished
    BY <1>1 DEF ServerHasFinished, EndIs, ChannelInv, HandshakeInv
  <2>8. /\ channel' \in [Ends -> Channels]
        /\ \A d \in Ends : MessagesOf(d) \subseteq MessagesOf(d)'
        /\ ServerHasFinished'
        /\ UNCHANGED ServerTag("server", ClientTag("server"))
        /\ HandshakeInv' /\ StreamInv' /\ CountersInv'
    BY <1>1, <2>1, <2>5, <2>6, <2>7, Establishes
  <2>9. finished \in MessagesOf("server")'
    <3>1. channel["server"].version \in Versions
      BY <1>1, <2>7 DEF ServerHasFinished, ChannelTypes, Channels
    <3>2. ServerTag("server", Message["server"].tag) \in FinishedTags("server")'
      BY <2>2, <2>8 DEF FinishedTags
    <3>3. finished \in Finisheds("server")'
      BY <3>1, <3>2 DEF Finisheds
    <3>. QED
      BY <3>3 DEF MessagesOf
  <2>. HIDE DEF finished
  <2>10. /\ wire'["server"] = Tail(wire["server"])
         /\ wire'["client"] = wire["client"] \o <<finished>>
         /\ DOMAIN wire' = Ends
    BY <1>1, <2>1 DEF Answer, ChannelTypes
  <2>11. /\ wire["client"] \in Seq(MessagesOf("server")')
         /\ Tail(wire["server"]) \in Seq(MessagesOf("client")')
    BY <1>1, <2>2, <2>8, SeqMonotonic DEF ChannelTypes
  <2>12. wire["client"] \o <<finished>> \in Seq(MessagesOf("server")')
    BY <2>9, <2>11, QueueOps
  <2>13. ChannelTypes'
    BY <1>1, <2>8, <2>10, <2>11, <2>12, TypesStay
  <2>. QED
    BY <2>8, <2>13 DEF ChannelInv
<1>. QED
  BY <1>2, <1>3

(***************************************************************************)
(* The client takes a Finished: if it is the right one the server made it. *)
(***************************************************************************)
LEMMA TakeServerFinishedChannelInv ==
    ASSUME ChannelInv, TakeServerFinished
    PROVE  ChannelInv'
<1>1. /\ EndIs("client", "finishing") /\ wire["client"] # <<>> /\ UNCHANGED Others
      /\ Consume("client") /\ ChannelTypes
  BY DEF TakeServerFinished, ChannelInv
<1>2. CASE Failed("client")
  BY <1>1, <1>2, FailedChannel DEF EndIs
<1>3. CASE ~Failed("client")
  <2>. DEFINE tag == ServerTag("client", channel["client"].finished)
              sent == ServerTag("server", ClientTag("server"))
  <2>1. /\ FinishedIsRight("client", "ServerFinished", tag)
        /\ channel' = [channel EXCEPT !["client"].step = "established"]
    BY <1>3 DEF TakeServerFinished
  <2>2. /\ Message["client"] \in Finisheds("server")
        /\ Tail(wire["client"]) \in Seq(MessagesOf("server"))
        /\ Message["client"].tag = tag
    BY <1>1, <2>1, TakenMessage DEF FinishedIsRight
  <2>3. tag \in FinishedTags("server")
    BY <2>2 DEF Finisheds
  <2>4. tag # Garbled
    <3>1. Garbled[1] = "garbled" /\ tag[1] = "server"
      BY DEF Garbled, ServerTag
    <3>. QED
      BY <3>1
  <2>5. ServerHasFinished /\ tag = sent
    BY <2>3, <2>4 DEF FinishedTags
  <2>6. Transcript("client") = Transcript("server")
    <3>1. tag[3] = Transcript("client") /\ sent[3] = Transcript("server")
      BY DEF ServerTag
    <3>. QED
      BY <2>5, <3>1
  <2>7. ClientHasFinished
    BY <1>1 DEF ClientHasFinished, EndIs
  <2>8. /\ channel' \in [Ends -> Channels]
        /\ \A d \in Ends : MessagesOf(d) \subseteq MessagesOf(d)'
        /\ HandshakeInv' /\ StreamInv' /\ CountersInv'
    BY <1>1, <2>1, <2>5, <2>6, <2>7, Establishes
  <2>9. /\ wire'["client"] = Tail(wire["client"])
        /\ wire'["server"] = wire["server"]
        /\ DOMAIN wire' = Ends
    BY <1>1 DEF Consume, ChannelTypes
  <2>10. /\ wire["server"] \in Seq(MessagesOf("client")')
         /\ Tail(wire["client"]) \in Seq(MessagesOf("server")')
    BY <1>1, <2>2, <2>8, SeqMonotonic DEF ChannelTypes
  <2>11. ChannelTypes'
    BY <1>1, <2>8, <2>9, <2>10, TypesStay
  <2>. QED
    BY <2>8, <2>11 DEF ChannelInv
<1>. QED
  BY <1>2, <1>3

(***************************************************************************)
(* A counter below its last value counts on; it does not wrap.             *)
(***************************************************************************)
LEMMA CounterCountsOn ==
    ASSUME NEW n \in 0..LastSequence, n # LastSequence
    PROVE  (n + 1) % (LastSequence + 1) = n + 1
  OBVIOUS

(***************************************************************************)
(* A record is sent under a counter block no record of this key had.       *)
(***************************************************************************)
LEMMA SendRecordChannelInv ==
    ASSUME ChannelInv, NEW e \in Ends, SendRecord(e)
    PROVE  ChannelInv'
<1>. USE DEF ChannelInv
<1>1. EndIs(e, "established") /\ UNCHANGED <<mode, got, connection, faults>>
  BY DEF SendRecord
<1>2. CASE ~CounterIsLeft(e)
  <2>1. Failed(e) /\ UNCHANGED wire /\ UNCHANGED Others
    BY <1>1, <1>2 DEF SendRecord, Others
  <2>. QED
    BY <1>1, <2>1, FailedChannel DEF EndIs
<1>3. CASE CounterIsLeft(e)
  <2>. DEFINE sequence == channel[e].send
              body == <<connection, said[e] + 1>>
              record == [type |-> "Record", version |-> BPSEC1,
                         sequence |-> sequence, body |-> body,
                         tag |-> RecordTag(Keys(e), e, sequence, body)]
  <2>1. /\ channel' = [channel EXCEPT ![e].send = (@ + 1) % (LastSequence + 1)]
        /\ wire' = [wire EXCEPT ![Peer[e]] = Append(@, record)]
        /\ said' = [said EXCEPT ![e] = @ + 1]
        /\ counters' = [counters EXCEPT ![e] = @ \cup {<<Keys(e), sequence>>}]
        /\ records' = [records EXCEPT ![e] = @ + 1]
    BY <1>3 DEF SendRecord
  <2>2. /\ sequence \in 0..LastSequence /\ sequence # LastSequence
        /\ sequence = said[e] /\ sequence + 1 \in 0..LastSequence
        /\ (sequence + 1) % (LastSequence + 1) = sequence + 1
    <3>1. sequence \in 0..LastSequence
      BY DEF ChannelTypes, Channels
    <3>2. sequence # LastSequence
      BY <1>3 DEF CounterIsLeft
    <3>3. sequence = said[e]
      BY DEF StreamInv
    <3>. QED
      BY <3>1, <3>2, <3>3, CounterCountsOn
  <2>3. /\ channel' \in [Ends -> Channels]
        /\ \A d \in Ends :
             /\ channel'[d].step = channel[d].step
             /\ channel'[d].version = channel[d].version
             /\ channel'[d].hello = channel[d].hello
             /\ channel'[d].reply = channel[d].reply
             /\ channel'[d].certificate = channel[d].certificate
             /\ channel'[d].send = IF d = e THEN sequence + 1 ELSE channel[d].send
             /\ channel'[d].receive = channel[d].receive
    <3>1. /\ channel' = [channel EXCEPT ![e].send = (@ + 1) % (LastSequence + 1)]
          /\ (channel[e].send + 1) % (LastSequence + 1) = sequence + 1
      BY <2>1, <2>2
    <3>2. sequence + 1 \in 0..LastSequence /\ channel \in [Ends -> Channels] /\ e \in Ends
      BY <2>2 DEF ChannelTypes
    <3>. HIDE DEF sequence
    <3>. QED
      BY ONLY <3>1, <3>2 DEF Channels
  <2>4. /\ said' \in [Ends -> Nat]
        /\ \A d \in Ends : said'[d] = IF d = e THEN said[d] + 1 ELSE said[d]
    <3>. HIDE DEF record, sequence, body
    <3>1. said' = [said EXCEPT ![e] = @ + 1] /\ said \in [Ends -> Nat]
      BY <2>1 DEF ChannelTypes
    <3>2. e \in Ends
      OBVIOUS
    <3>. QED
      BY ONLY <3>1, <3>2
  <2>5. /\ ClientHasFinished' <=> ClientHasFinished
        /\ ServerHasFinished' <=> ServerHasFinished
    BY <2>3 DEF ClientHasFinished, ServerHasFinished, EndIs
  <2>6. \A d \in Ends : UNCHANGED <<Keys(d), Transcript(d)>>
    BY <2>3 DEF Keys, Transcript
  <2>7. UNCHANGED <<ClientTag("client"), ServerTag("server", ClientTag("server"))>>
    BY <2>6 DEF ClientTag, ServerTag
  <2>8. \A d \in Ends : MessagesOf(d) \subseteq MessagesOf(d)'
    BY <1>1, <2>4, <2>5, <2>6, <2>7, MessagesGrow DEF ChannelTypes
  <2>9. record \in MessagesOf(e)'
    <3>1. RecordTag(Keys(e), e, sequence, body) \in Said(e)'
      <4>. HIDE DEF record, sequence, body
      <4>1. PICK n \in Nat : n = said[e] + 1
        BY DEF ChannelTypes
      <4>2. n \in 1..said'[e] /\ n - 1 = sequence
        <5>1. said'[e] = n /\ sequence = n - 1
          BY <2>2, <2>4, <4>1
        <5>2. n >= 1
          BY <4>1 DEF ChannelTypes
        <5>. QED
          BY <5>1, <5>2
      <4>3. body = <<connection, n>>
        BY <4>1 DEF body
      <4>4. RecordTag(Keys(e), e, sequence, body)
              = RecordTag(Keys(e), e, n - 1, <<connection, n>>)'
        BY <1>1, <2>6, <4>2, <4>3
      <4>. QED
        BY <4>2, <4>4 DEF Said
    <3>2. body \in Bodies'
      BY <1>1 DEF Bodies, ChannelTypes
    <3>3. record \in RecordsOf(e)'
      BY <2>2, <3>1, <3>2 DEF RecordsOf
    <3>. QED
      BY <3>3 DEF MessagesOf
  <2>10. ChannelTypes'
    <3>. HIDE DEF record
    <3>1. \A d \in Ends : wire[d] \in Seq(MessagesOf(Peer[d])')
      BY <2>8, SeqMonotonic DEF ChannelTypes
    <3>2. Append(wire[Peer[e]], record) \in Seq(MessagesOf(e)')
      BY <2>9, <3>1, QueueOps
    <3>3. \A d \in Ends : wire'[d] \in Seq(MessagesOf(Peer[d])')
      <4>1. wire' = [wire EXCEPT ![Peer[e]] = Append(wire[Peer[e]], record)]
        BY <2>1
      <4>2. /\ wire'[Peer[e]] = Append(wire[Peer[e]], record)
            /\ wire'[e] = wire[e]
        BY <4>1 DEF ChannelTypes
      <4>3. ASSUME NEW d \in Ends
            PROVE  wire'[d] \in Seq(MessagesOf(Peer[d])')
        <5>1. CASE d = e
          BY <3>1, <4>2, <5>1
        <5>2. CASE d # e
          <6>1. d = Peer[e] /\ e = Peer[d]
            BY <5>2
          <6>. QED
            BY <3>2, <4>2, <6>1
        <5>. QED
          BY <5>1, <5>2
      <4>. QED
        BY <4>3
    <3>4. DOMAIN wire' = Ends
      BY <2>1 DEF ChannelTypes
    <3>. QED
      BY <1>1, <2>3, <2>4, <3>3, <3>4 DEF ChannelTypes, Bodies
  <2>11. HandshakeInv'
    <3>1. ServerAccepts(channel["server"].version)'
            <=> ServerAccepts(channel["server"].version)
      BY <1>1, <2>3 DEF ServerAccepts
    <3>2. (Transcript("client") = Transcript("server"))'
            <=> Transcript("client") = Transcript("server")
      BY <2>6
    <3>3. ~EndIs("client", "idle") /\ ~EndIs("client", "idle")'
      BY <1>1, <2>3 DEF HandshakeInv, EndIs
    <3>. QED
      BY <1>1, <2>3, <2>5, <3>1, <3>2, <3>3 DEF HandshakeInv, EndIs
  <2>12. StreamInv'
    <3>1. channel[e].step = "established"
          /\ IF e = "client" THEN ClientHasFinished ELSE ServerHasFinished
      BY <1>1 DEF EndIs, HandshakeInv
    <3>2. \A d \in Ends : said[d] \in Nat /\ got[d] \in Seq(Bodies)
      BY DEF ChannelTypes
    <3>3. \A d \in Ends : Len(got[d]) \in Nat
      BY <3>2, LenProperties
    <3>. HIDE DEF record, body, sequence
    <3>4. ASSUME NEW d \in Ends
          PROVE  /\ channel'[d].send = said'[d]
                 /\ channel'[d].receive = Len(got'[d])
                 /\ said'[d] > 0 => channel'[d].step \in {"established", "failed"}
                 /\ said'[d] > 0 => IF d = "client" THEN ClientHasFinished'
                                                  ELSE ServerHasFinished'
      <4>1. /\ channel[d].send = said[d] /\ channel[d].receive = Len(got[d])
            /\ said[d] > 0 => channel[d].step \in {"established", "failed"}
            /\ said[d] > 0 => IF d = "client" THEN ClientHasFinished
                                             ELSE ServerHasFinished
        BY Zenon DEF StreamInv
      <4>2. /\ channel'[d].step = channel[d].step
            /\ channel'[d].send = IF d = e THEN sequence + 1 ELSE channel[d].send
            /\ channel'[d].receive = channel[d].receive
            /\ said'[d] = IF d = e THEN said[d] + 1 ELSE said[d]
            /\ got' = got
        BY <1>1, <2>3, <2>4
      <4>3. CASE d = e
        BY ONLY <2>2, <2>5, <3>1, <4>1, <4>2, <4>3
      <4>4. CASE d # e
        BY ONLY <2>5, <4>1, <4>2, <4>4
      <4>. QED
        BY <4>3, <4>4
    <3>5. ASSUME NEW d \in Ends
          PROVE  /\ got'[d] = [i \in 1..Len(got'[d]) |-> <<connection', i>>]
                 /\ Len(got'[d]) <= said'[Peer[d]]
      <4>1. Peer[d] \in Ends
        OBVIOUS
      <4>2. Len(got[d]) <= said[Peer[d]]
            /\ got[d] = [i \in 1..Len(got[d]) |-> <<connection, i>>]
        BY Zenon DEF StreamInv
      <4>3. said[Peer[d]] <= said'[Peer[d]] /\ said'[Peer[d]] \in Nat
        BY <2>4, <3>2, <4>1
      <4>. QED
        BY <1>1, <3>2, <3>3, <4>2, <4>3
    <3>. QED
      BY <3>4, <3>5 DEF StreamInv
  <2>13. CountersInv'
    <3>. DEFINE block == <<Keys(e), sequence>>
    <3>1. Nonce(e, Keys(e)) = connection /\ connection \in Nat
      <4>1. channel["server"].version # 0 /\ ~EndIs("client", "idle")
        BY <1>1 DEF HandshakeInv, EndIs, ServerHasFinished
      <4>. QED
        BY <4>1 DEF HandshakeInv, Nonce, Keys, ChannelTypes
    <3>2. block \notin counters[e]
      <4>1. block[1] = Keys(e) /\ block[2] = sequence
        OBVIOUS
      <4>. QED
        BY <2>2, <3>1, <4>1 DEF CountersInv
    <3>3. /\ IsFiniteSet(counters[e] \cup {block})
          /\ Cardinality(counters[e] \cup {block}) = records[e] + 1
      BY <3>2, FS_AddElement DEF CountersInv
    <3>4. \A d \in Ends : counters'[d] = IF d = e THEN counters[e] \cup {block}
                                        ELSE counters[d]
      BY <2>1 DEF CountersInv
    <3>5. \A d \in Ends : records'[d] = IF d = e THEN records[e] + 1 ELSE records[d]
      BY <2>1 DEF CountersInv
    <3>6. DOMAIN counters' = Ends /\ DOMAIN records' = Ends
      BY <2>1 DEF CountersInv
    <3>7. ASSUME NEW d \in Ends, NEW b \in counters'[d]
          PROVE  /\ Nonce(d, b[1]) <= connection /\ Nonce(d, b[1]) \in Nat
                 /\ b[2] \in Nat
                 /\ Nonce(d, b[1]) = connection => b[2] < channel'[d].send
      <4>1. CASE b \in counters[d]
        <5>. HIDE DEF record, body
        <5>1. /\ channel[d].send \in 0..LastSequence
              /\ channel'[d].send \in 0..LastSequence
          BY <2>3 DEF ChannelTypes, Channels
        <5>2. channel[d].send <= channel'[d].send
          BY <2>2, <2>3, <5>1
        <5>. QED
          BY <4>1, <5>1, <5>2 DEF CountersInv
      <4>2. CASE d = e /\ b = block
        <5>1. b[1] = Keys(e) /\ b[2] = sequence
          BY <4>2
        <5>. QED
          BY <2>2, <2>3, <3>1, <4>2, <5>1
      <4>. QED
        BY <3>4, <3>7, <4>1, <4>2
    <3>. QED
      BY <1>1, <3>3, <3>4, <3>5, <3>6, <3>7 DEF CountersInv, Nonce
  <2>. QED
    BY <2>10, <2>11, <2>12, <2>13
<1>. QED
  BY <1>2, <1>3

(***************************************************************************)
(* A record is taken only if it is the next one the other end sent.        *)
(***************************************************************************)
LEMMA AcceptedIsTheNext ==
    ASSUME ChannelInv, NEW e \in Ends, EndIs(e, "established"),
           wire[e] # <<>>, Accepted(e, Message[e])
    PROVE  /\ channel[e].receive + 1 \in 0..LastSequence
           /\ Message[e].body = <<connection, Len(got[e]) + 1>>
           /\ Len(got[e]) + 1 <= said[Peer[e]]
<1>. USE DEF ChannelInv
<1>1. /\ Message[e].sequence # LastSequence
      /\ Message[e].sequence = channel[e].receive
      /\ Message[e].tag = <<Keys(e), Peer[e], Message[e].sequence, Message[e].body>>
      /\ Message[e].type = "Record"
  BY DEF Accepted, RecordTag
<1>2. /\ Message[e].tag \in Said(Peer[e])
      /\ Message[e].sequence \in 0..LastSequence
  BY <1>1, TakenMessage DEF RecordsOf
<1>3. PICK n \in 1..said[Peer[e]] :
        Message[e].tag = <<Keys(Peer[e]), Peer[e], n - 1, <<connection, n>>>>
  BY <1>2 DEF Said, RecordTag
<1>4. Message[e].sequence = n - 1 /\ Message[e].body = <<connection, n>>
  <2>1. /\ Message[e].tag[3] = Message[e].sequence
        /\ Message[e].tag[4] = Message[e].body
    BY <1>1
  <2>2. Message[e].tag[3] = n - 1 /\ Message[e].tag[4] = <<connection, n>>
    BY <1>3
  <2>. QED
    BY <2>1, <2>2
<1>5. channel[e].receive = Len(got[e]) /\ Len(got[e]) \in Nat
      /\ said[Peer[e]] \in Nat
  BY LenProperties DEF StreamInv, ChannelTypes
<1>6. n = Len(got[e]) + 1
  <2>1. n \in Int
    BY <1>5
  <2>2. n - 1 = Len(got[e])
    BY ONLY <1>1, <1>4, <1>5
  <2>. QED
    BY ONLY <2>1, <2>2
<1>. QED
  BY <1>1, <1>2, <1>4, <1>5, <1>6

(***************************************************************************)
(* A record is received: it is the next of the stream, or the end fails.   *)
(***************************************************************************)
LEMMA ReceiveRecordChannelInv ==
    ASSUME ChannelInv, NEW e \in Ends, ReceiveRecord(e)
    PROVE  ChannelInv'
<1>. USE DEF ChannelInv
<1>1. /\ EndIs(e, "established") /\ wire[e] # <<>> /\ Consume(e)
      /\ UNCHANGED <<mode, said, counters, records, connection, faults>>
  BY DEF ReceiveRecord
<1>2. CASE ~Accepted(e, Message[e])
  <2>1. Failed(e) /\ UNCHANGED Others
    BY <1>1, <1>2 DEF ReceiveRecord, Others
  <2>. QED
    BY <1>1, <2>1, FailedChannel DEF EndIs
<1>3. CASE Accepted(e, Message[e])
  <2>. DEFINE body == Message[e].body
  <2>1. /\ got' = [got EXCEPT ![e] = Append(@, body)]
        /\ channel' = [channel EXCEPT ![e].receive = @ + 1]
    BY <1>3 DEF ReceiveRecord
  <2>2. /\ channel[e].receive + 1 \in 0..LastSequence
        /\ body = <<connection, Len(got[e]) + 1>>
        /\ Len(got[e]) + 1 <= said[Peer[e]]
    BY <1>1, <1>3, AcceptedIsTheNext
  <2>3. /\ channel' \in [Ends -> Channels]
        /\ \A d \in Ends :
             /\ channel'[d].step = channel[d].step
             /\ channel'[d].version = channel[d].version
             /\ channel'[d].hello = channel[d].hello
             /\ channel'[d].reply = channel[d].reply
             /\ channel'[d].certificate = channel[d].certificate
             /\ channel'[d].send = channel[d].send
             /\ channel'[d].receive = IF d = e THEN channel[e].receive + 1
                                             ELSE channel[d].receive
    BY <2>1, <2>2 DEF ChannelTypes, Channels
  <2>4. /\ ClientHasFinished' <=> ClientHasFinished
        /\ ServerHasFinished' <=> ServerHasFinished
    BY <2>3 DEF ClientHasFinished, ServerHasFinished, EndIs
  <2>5. \A d \in Ends : UNCHANGED <<Keys(d), Transcript(d)>>
    BY <2>3 DEF Keys, Transcript
  <2>6. UNCHANGED <<ClientTag("client"), ServerTag("server", ClientTag("server"))>>
    BY <2>5 DEF ClientTag, ServerTag
  <2>7. \A d \in Ends : MessagesOf(d) \subseteq MessagesOf(d)'
    BY <1>1, <2>4, <2>5, <2>6, MessagesGrow DEF ChannelTypes
  <2>8. /\ \A d \in Ends : got[d] \in Seq(Bodies) /\ Len(got[d]) \in Nat
        /\ \A d \in Ends : said[d] \in Nat
        /\ connection \in Nat /\ DOMAIN got = Ends
    BY LenProperties DEF ChannelTypes
  <2>9. body \in Bodies
    BY <2>2, <2>8 DEF Bodies
  <2>. HIDE DEF body
  <2>10. /\ Append(got[e], body) \in Seq(Bodies)
         /\ Len(Append(got[e], body)) = Len(got[e]) + 1
         /\ Append(got[e], body) = [i \in 1..Len(got[e]) + 1 |->
                                      IF i = Len(got[e]) + 1 THEN body ELSE got[e][i]]
    <3>1. got[e] \in Seq(Bodies)
      BY <2>8
    <3>. QED
      BY <2>9, <3>1, AppendProperties DEF Append
  <2>11. /\ got'[e] = Append(got[e], body)
         /\ \A d \in Ends : d # e => got'[d] = got[d]
         /\ got' \in [Ends -> Seq(Bodies)]
    BY <2>1, <2>8, <2>10
  <2>12. ChannelTypes'
    <3>1. \A d \in Ends : wire'[d] \in Seq(MessagesOf(Peer[d]))
      BY <1>1, TakenMessage DEF Consume, ChannelTypes
    <3>2. \A d \in Ends : wire'[d] \in Seq(MessagesOf(Peer[d])')
      BY <2>7, <3>1, SeqMonotonic
    <3>3. DOMAIN wire' = Ends
      BY <1>1 DEF Consume, ChannelTypes
    <3>. QED
      BY <1>1, <2>3, <2>11, <3>2, <3>3 DEF ChannelTypes, Bodies
  <2>13. HandshakeInv'
    <3>1. ServerAccepts(channel["server"].version)'
            <=> ServerAccepts(channel["server"].version)
      BY <1>1, <2>3 DEF ServerAccepts
    <3>2. (Transcript("client") = Transcript("server"))'
            <=> Transcript("client") = Transcript("server")
      BY <2>5
    <3>3. ~EndIs("client", "idle") /\ ~EndIs("client", "idle")'
      BY <1>1, <2>3 DEF HandshakeInv, EndIs
    <3>. QED
      BY <1>1, <2>3, <2>4, <3>1, <3>2, <3>3 DEF HandshakeInv, EndIs
  <2>14. StreamInv'
    <3>1. ASSUME NEW d \in Ends
          PROVE  /\ channel'[d].send = said'[d]
                 /\ channel'[d].receive = Len(got'[d])
                 /\ said'[d] > 0 => channel'[d].step \in {"established", "failed"}
                 /\ said'[d] > 0 => IF d = "client" THEN ClientHasFinished'
                                                  ELSE ServerHasFinished'
      <4>1. /\ channel[d].send = said[d] /\ channel[d].receive = Len(got[d])
            /\ said[d] > 0 => channel[d].step \in {"established", "failed"}
            /\ said[d] > 0 => IF d = "client" THEN ClientHasFinished
                                             ELSE ServerHasFinished
        BY Zenon DEF StreamInv
      <4>2. /\ channel'[d].step = channel[d].step
            /\ channel'[d].send = channel[d].send
            /\ channel'[d].receive = IF d = e THEN channel[e].receive + 1
                                             ELSE channel[d].receive
            /\ said' = said
        BY <1>1, <2>3
      <4>3. CASE d = e
        <5>1. Len(got'[d]) = Len(got[d]) + 1
          BY <2>10, <2>11, <4>3
        <5>. QED
          BY ONLY <2>4, <4>1, <4>2, <4>3, <5>1
      <4>4. CASE d # e
        <5>1. got'[d] = got[d]
          BY <2>11, <4>4
        <5>. QED
          BY ONLY <2>4, <4>1, <4>2, <4>4, <5>1
      <4>. QED
        BY <4>3, <4>4
    <3>2. /\ got'[e] = [i \in 1..Len(got'[e]) |-> <<connection', i>>]
          /\ Len(got'[e]) <= said'[Peer[e]]
      <4>1. got[e] = [i \in 1..Len(got[e]) |-> <<connection, i>>]
        BY Zenon DEF StreamInv
      <4>2. \A i \in 1..Len(got[e]) + 1 :
              (IF i = Len(got[e]) + 1 THEN body ELSE got[e][i]) = <<connection, i>>
        BY <2>2, <2>8, <4>1
      <4>3. got'[e] = [i \in 1..Len(got[e]) + 1 |-> <<connection, i>>]
        BY <2>10, <2>11, <4>2
      <4>. QED
        BY <1>1, <2>2, <2>10, <2>11, <4>3
    <3>3. ASSUME NEW d \in Ends, d # e
          PROVE  /\ got'[d] = [i \in 1..Len(got'[d]) |-> <<connection', i>>]
                 /\ Len(got'[d]) <= said'[Peer[d]]
      <4>1. /\ got[d] = [i \in 1..Len(got[d]) |-> <<connection, i>>]
            /\ Len(got[d]) <= said[Peer[d]]
        BY Zenon DEF StreamInv
      <4>. QED
        BY <1>1, <2>11, <3>3, <4>1
    <3>. QED
      BY <3>1, <3>2, <3>3 DEF StreamInv
  <2>15. CountersInv'
    BY <1>1, <2>3 DEF CountersInv, Nonce
  <2>. QED
    BY <2>12, <2>13, <2>14, <2>15
<1>. QED
  BY <1>2, <1>3

(***************************************************************************)
(* Whatever the link does, it has the tags that were made and no other.    *)
(***************************************************************************)
LEMMA LinkFaultChannelInv ==
    ASSUME ChannelInv, LinkFault
    PROVE  ChannelInv'
<1>. USE DEF ChannelInv
<1>1. /\ faults' = faults + 1
      /\ UNCHANGED <<mode, channel, got, said, counters, records, connection>>
  BY DEF LinkFault
<1>2. PICK e \in Ends : \E i \in DOMAIN wire[e] :
         \/ wire' = [wire EXCEPT ![e] = Without(@, i)]
         \/ wire' = [wire EXCEPT ![e] = Append(@, wire[e][i])]
         \/ /\ i > 1
            /\ wire' = [wire EXCEPT ![e] = [@ EXCEPT ![i] = wire[e][i - 1],
                                                     ![i - 1] = wire[e][i]]]
         \/ \E message \in Altered(wire[e][i]) \ {wire[e][i]} :
              wire' = [wire EXCEPT ![e][i] = message]
  BY DEF LinkFault
<1>. DEFINE q == wire[e]
            S == MessagesOf(Peer[e])
<1>3. /\ q \in Seq(S) /\ DOMAIN wire = Ends /\ Peer[e] \in Ends
      /\ DOMAIN q = 1..Len(q)
  BY LenProperties DEF ChannelTypes
<1>4. \E r \in Seq(S) : wire' = [wire EXCEPT ![e] = r]
  <2>1. PICK i \in 1..Len(q) :
         \/ wire' = [wire EXCEPT ![e] = Without(q, i)]
         \/ wire' = [wire EXCEPT ![e] = Append(q, q[i])]
         \/ /\ i > 1
            /\ wire' = [wire EXCEPT ![e] = [q EXCEPT ![i] = q[i - 1],
                                                     ![i - 1] = q[i]]]
         \/ \E message \in Altered(q[i]) :
              wire' = [wire EXCEPT ![e] = [q EXCEPT ![i] = message]]
    BY <1>2, <1>3
  <2>2. q[i] \in S
    BY <1>3, QueueOps
  <2>3. Altered(q[i]) \subseteq S
    BY <1>3, <2>2, AlteredIsAMessage
  <2>. HIDE DEF q, S
  <2>4. /\ Without(q, i) \in Seq(S)
        /\ Append(q, q[i]) \in Seq(S)
        /\ i > 1 => [q EXCEPT ![i] = q[i - 1], ![i - 1] = q[i]] \in Seq(S)
        /\ \A m \in S : [q EXCEPT ![i] = m] \in Seq(S)
    BY <1>3, <2>2, QueueOps, QueueFaults
  <2>. QED
    BY <2>1, <2>3, <2>4
<1>5. \A d \in Ends : MessagesOf(d) = MessagesOf(d)'
  BY <1>1 DEF MessagesOf, RecordsOf, Finisheds, FinishedTags, Bodies, Said,
              RecordTag, Keys, Transcript, ClientTag, ServerTag,
              ClientHasFinished, ServerHasFinished, EndIs
<1>6. /\ \A d \in Ends : wire'[d] \in Seq(MessagesOf(Peer[d])')
      /\ DOMAIN wire' = Ends
  BY <1>3, <1>4, <1>5 DEF ChannelTypes
<1>7. ChannelTypes'
  BY <1>1, <1>6 DEF ChannelTypes, Bodies
<1>8. HandshakeInv'
  <2>1. ~EndIs("client", "idle")
    <3>1. \E i \in 1..Len(q) : TRUE
      BY <1>2, <1>3
    <3>2. q # <<>>
      BY <3>1
    <3>. QED
      BY <3>2 DEF HandshakeInv
  <2>. QED
    BY <1>1, <2>1 DEF HandshakeInv, EndIs, Transcript, ServerAccepts,
                      ClientHasFinished, ServerHasFinished
<1>9. StreamInv' /\ CountersInv'
  BY <1>1 DEF StreamInv, CountersInv, Nonce, ClientHasFinished,
              ServerHasFinished, EndIs
<1>. QED
  BY <1>7, <1>8, <1>9

-----------------------------------------------------------------------------
(***************************************************************************)
(* Every step of the ends and of the link keeps the invariant.             *)
(***************************************************************************)
LEMMA NextChannelInv == ChannelInv /\ [ChannelNext]_channelVars => ChannelInv'
<1>. SUFFICES ASSUME ChannelInv, [ChannelNext]_channelVars
              PROVE  ChannelInv'
  OBVIOUS
<1>1. CASE UNCHANGED channelVars
  BY <1>1 DEF channelVars, ChannelInv, ChannelTypes, HandshakeInv, StreamInv,
       CountersInv, Nonce, MessagesOf, RecordsOf, Finisheds, FinishedTags,
       Bodies, Said, RecordTag, Keys, Transcript, ClientTag, ServerTag,
       ClientHasFinished, ServerHasFinished, EndIs, ServerAccepts
<1>2. CASE \E e \in Ends : GivesUp(e)
  <2>1. PICK e \in Ends : GivesUp(e)
    BY <1>2
  <2>. QED
    BY <2>1, FailedChannel DEF GivesUp, EndIs, Others
<1>3. CASE \E e \in Ends : SendRecord(e) \/ ReceiveRecord(e)
  BY <1>3, SendRecordChannelInv, ReceiveRecordChannelInv
<1>. QED
  BY <1>1, <1>2, <1>3, ConnectChannelInv, ServerHelloChannelInv,
     TakeServerHelloChannelInv, TakeCertificateChannelInv,
     TakeClientFinishedChannelInv, TakeServerFinishedChannelInv,
     LinkFaultChannelInv DEF ChannelNext

(***************************************************************************)
(* The type invariant: counters stay in their width, whatever is sent.     *)
(***************************************************************************)
THEOREM ChannelTypeCorrect == ChannelSpec => []ChannelTypeOK
<1>1. ChannelInv => ChannelTypeOK
  BY DEF ChannelInv, ChannelTypes, StreamInv, Channels, Steps, ChannelTypeOK
<1>. QED
  BY <1>1, InitChannelInv, NextChannelInv, PTL DEF ChannelSpec

(***************************************************************************)
(* What an end has taken is a prefix of what the other sent on this        *)
(* connection, however often the link loses, repeats, reorders or alters.  *)
(***************************************************************************)
THEOREM ReceivedIsAPrefix == ChannelSpec => []StreamIsAPrefix
<1>1. ChannelInv => StreamIsAPrefix
  BY DEF ChannelInv, StreamInv, StreamIsAPrefix
<1>. QED
  BY <1>1, InitChannelInv, NextChannelInv, PTL DEF ChannelSpec

(***************************************************************************)
(* An end that is up agrees with the other on the whole handshake, and     *)
(* each has what its configuration asks for.                               *)
(***************************************************************************)
THEOREM BothEndsAgree == ChannelSpec => []EstablishedMeansAgreed
<1>1. ChannelInv => EstablishedMeansAgreed
  <2>. SUFFICES ASSUME ChannelInv PROVE EstablishedMeansAgreed
    OBVIOUS
  <2>. USE DEF ChannelInv
  <2>1. ASSUME NEW e \in Ends, EndIs(e, "established")
        PROVE  /\ Transcript("client") = Transcript("server")
               /\ channel["client"].version = mode.version
               /\ channel["server"].version = mode.version
    <3>1. Transcript("client") = Transcript("server") /\ ServerHasFinished
      BY <2>1 DEF HandshakeInv
    <3>2. ~EndIs("client", "idle")
      BY <2>1 DEF HandshakeInv, EndIs
    <3>3. channel["client"].hello = channel["server"].hello
      <4>1. /\ Transcript("client")[1] = channel["client"].hello
            /\ Transcript("server")[1] = channel["server"].hello
        BY DEF Transcript
      <4>. QED
        BY <3>1, <4>1
    <3>. QED
      BY <3>1, <3>2, <3>3 DEF HandshakeInv, ServerHasFinished
  <2>2. EndIs("server", "established") /\ mode.required =>
          channel["server"].certificate # NoCertificate
    BY DEF HandshakeInv, EndIs, ServerAccepts
  <2>. QED
    BY <2>1, <2>2 DEF EstablishedMeansAgreed
<1>. QED
  BY <1>1, InitChannelInv, NextChannelInv, PTL DEF ChannelSpec

(***************************************************************************)
(* No counter block is used for two records of one key, for a counter of   *)
(* any width and over any number of reconnections.                         *)
(***************************************************************************)
THEOREM CountersNeverRepeat == ChannelSpec => []CountersAreUsedOnce
<1>1. ChannelInv => CountersAreUsedOnce
  BY DEF ChannelInv, CountersInv, CountersAreUsedOnce
<1>. QED
  BY <1>1, InitChannelInv, NextChannelInv, PTL DEF ChannelSpec

HIDE DEF Ends, Peer

-----------------------------------------------------------------------------
(* The accept loop and its workers.  Whoever is counted is served or       *)
(* queued, nobody has two owners, and no accepted connection is open when  *)
(* Run returns.                                                            *)

PoolTypes ==
    /\ runPc \in {"loop", "poll", "handOver", "shutdown", "join", "returned",
                  "stopped"}
    /\ inHand \in Clients \cup {NoClient}
    /\ pending \in Seq(Clients)
    /\ workerPc \in [Workers -> {"wait", "serve", "release", "done"}]
    /\ serving \in [Workers -> Clients \cup {NoClient}]
    /\ conn \in [Clients -> {"none", "backlog", "accepted", "closed"}]

Held(c) ==
    \/ inHand = c
    \/ \E i \in DOMAIN pending : pending[i] = c
    \/ \E w \in Workers : workerPc[w] = "serve" /\ serving[w] = c

(***************************************************************************)
(* ReturnedMeansDrained is not inductive: it says nothing before Run       *)
(* returns.  What carries it is that an accepted connection is in some     *)
(* hands, that a worker only leaves when nothing is queued and nothing can *)
(* be queued any more, and that Run only returns when all workers left.    *)
(***************************************************************************)
DrainInv ==
    /\ PoolTypes
    /\ \A c \in Clients : conn[c] = "accepted" => Held(c)
    /\ (\E w \in Workers : workerPc[w] = "done") =>
         stopRequested /\ pending = <<>>
    /\ inHand # NoClient <=> runPc = "handOver"
    /\ runPc \in {"returned", "stopped"} =>
         \A w \in Workers : workerPc[w] = "done"

USE PoolAssumption, NoClientAssumption

(***************************************************************************)
(* Nothing is accepted and nobody has left.                                *)
(***************************************************************************)
LEMMA InitDrainInv == Init => DrainInv
  BY DEF Init, DrainInv, PoolTypes, Held

(***************************************************************************)
(* Run's own steps.                                                        *)
(***************************************************************************)
LEMMA RunStepDrainInv ==
    ASSUME DrainInv, RunStep \/ NoAccept \/ RequestStop
                       \/ \E c \in Clients : ClientStep(c) \/ Accept(c)
    PROVE  DrainInv'
<1>. USE DEF DrainInv, PoolTypes, runVars, clientVars
<1>1. CASE RunLoop \/ NoAccept \/ Shutdown \/ RequestStop
  BY <1>1 DEF RunLoop, NoAccept, Shutdown, RequestStop, Held
<1>2. CASE HandOver
  <2>1. CASE stopRequested
    BY <1>2, <2>1 DEF HandOver, Held
  <2>2. CASE ~stopRequested
    <3>1. /\ inHand \in Clients
          /\ pending' = Append(pending, inHand) /\ inHand' = NoClient
          /\ runPc' = "loop"
          /\ UNCHANGED <<conn, workerPc, serving, stopRequested>>
      BY <1>2, <2>2 DEF HandOver, Held
    <3>2. /\ pending' \in Seq(Clients)
          /\ DOMAIN pending' = 1..Len(pending) + 1
          /\ DOMAIN pending = 1..Len(pending) /\ Len(pending) \in Nat
          /\ \A i \in DOMAIN pending : pending'[i] = pending[i]
          /\ pending'[Len(pending) + 1] = inHand
      BY <3>1
    <3>3. ASSUME NEW c \in Clients, Held(c)
          PROVE  Held(c)'
      <4>1. CASE inHand = c
        <5>1. Len(pending) + 1 \in DOMAIN pending'
              /\ pending'[Len(pending) + 1] = c
          BY <3>2, <4>1
        <5>. QED
          BY <5>1 DEF Held
      <4>2. CASE \E i \in DOMAIN pending : pending[i] = c
        <5>1. PICK i \in DOMAIN pending : pending[i] = c
          BY <4>2
        <5>2. i \in DOMAIN pending' /\ pending'[i] = c
          BY <3>2, <5>1
        <5>. QED
          BY <5>2 DEF Held
      <4>3. CASE \E v \in Workers : workerPc[v] = "serve" /\ serving[v] = c
        BY <3>1, <4>3 DEF Held
      <4>. QED
        BY <3>3, <4>1, <4>2, <4>3 DEF Held
    <3>. QED
      BY <2>2, <3>1, <3>2, <3>3
  <2>. QED
    BY <2>1, <2>2
<1>3. CASE Join \/ Stop
  BY <1>3 DEF Join, Stop, Held
<1>4. CASE \E c \in Clients : Accept(c)
  BY <1>4 DEF Accept, Held
<1>5. CASE \E c \in Clients : ClientStep(c)
  BY <1>5 DEF ClientStep, Connect, SendFrame, HangUp, Held
<1>. QED
  BY <1>1, <1>2, <1>3, <1>4, <1>5,
     RunStep \/ NoAccept \/ RequestStop
       \/ \E c \in Clients : ClientStep(c) \/ Accept(c)
     DEF RunStep

(***************************************************************************)
(* The workers' steps.                                                     *)
(***************************************************************************)
LEMMA WorkerStepDrainInv ==
    ASSUME DrainInv, NEW w \in Workers, WorkerStep(w) \/ DropConnection(w)
    PROVE  DrainInv'
<1>. USE DEF DrainInv, PoolTypes, runVars, clientVars
<1>1. CASE Take(w)
  <2>1. /\ workerPc[w] = "wait" /\ pending # <<>>
        /\ serving' = [serving EXCEPT ![w] = Head(pending)]
        /\ pending' = Tail(pending)
        /\ workerPc' = [workerPc EXCEPT ![w] = "serve"]
        /\ UNCHANGED <<runPc, inHand, stopRequested, conn>>
    BY <1>1 DEF Take
  <2>2. /\ Head(pending) \in Clients /\ pending' \in Seq(Clients)
        /\ Head(pending) = pending[1] /\ Len(pending) \in Nat
        /\ DOMAIN pending = 1..Len(pending)
        /\ DOMAIN pending' = 1..(Len(pending) - 1)
        /\ \A i \in DOMAIN pending' : pending'[i] = pending[i + 1]
    BY <2>1
  <2>3. ASSUME NEW c \in Clients, Held(c)
        PROVE  Held(c)'
    <3>1. CASE inHand = c
      BY <2>1, <3>1 DEF Held
    <3>2. CASE \E i \in DOMAIN pending : pending[i] = c
      <4>1. PICK i \in DOMAIN pending : pending[i] = c
        BY <3>2
      <4>2. CASE i = 1
        BY <2>1, <2>2, <4>1, <4>2 DEF Held
      <4>3. CASE i # 1
        <5>0. i \in 1..Len(pending)
          BY <2>2, <4>1
        <5>1. i - 1 \in 1..(Len(pending) - 1) /\ (i - 1) + 1 = i
          BY ONLY <2>2, <4>3, <5>0
        <5>2. i - 1 \in DOMAIN pending'
          BY ONLY <2>2, <5>1
        <5>3. pending'[i - 1] = c
          BY ONLY <2>2, <4>1, <5>1, <5>2
        <5>. QED
          BY <5>2, <5>3 DEF Held
      <4>. QED
        BY <4>2, <4>3
    <3>3. CASE \E v \in Workers : workerPc[v] = "serve" /\ serving[v] = c
      BY <2>1, <3>3 DEF Held
    <3>. QED
      BY <2>3, <3>1, <3>2, <3>3 DEF Held
  <2>. QED
    BY <2>1, <2>2, <2>3
<1>2. CASE Exit(w)
  BY <1>2 DEF Exit, Held
<1>3. CASE ServeFrame(w)
  BY <1>3 DEF ServeFrame, Held
<1>4. CASE RecvEnds(w) \/ DropConnection(w)
  BY <1>4 DEF RecvEnds, DropConnection, EndConnection, Held
<1>5. CASE Release(w)
  BY <1>5 DEF Release, Held
<1>. QED
  BY <1>1, <1>2, <1>3, <1>4, <1>5, WorkerStep(w) \/ DropConnection(w)
     DEF WorkerStep

(***************************************************************************)
(* Whenever and wherever the stop is requested, every connection Run has   *)
(* accepted is closed by the time it returns.                              *)
(***************************************************************************)
THEOREM DrainedOnReturn == Spec => []ReturnedMeansDrained
<1>1. DrainInv /\ [Next]_vars => DrainInv'
  <2>. SUFFICES ASSUME DrainInv, [Next]_vars PROVE DrainInv'
    OBVIOUS
  <2>1. CASE UNCHANGED vars
    BY <2>1 DEF vars, runVars, DrainInv, PoolTypes, Held
  <2>. QED
    BY <2>1, RunStepDrainInv, WorkerStepDrainInv DEF Next
<1>2. DrainInv => ReturnedMeansDrained
  BY DEF DrainInv, PoolTypes, Held, ReturnedMeansDrained
<1>. QED
  BY <1>1, <1>2, InitDrainInv, PTL DEF Spec

-----------------------------------------------------------------------------
Queued(c) == \E i \in DOMAIN pending : pending[i] = c
Served(c) == \E w \in Workers : workerPc[w] = "serve" /\ serving[w] = c

(***************************************************************************)
(* What OneOwner counts, said of single hands: no two places of the queue, *)
(* no two workers and no two kinds of hands have the same connection, and  *)
(* what anybody has is accepted.                                           *)
(***************************************************************************)
OwnersInv ==
    /\ \A i, j \in DOMAIN pending : pending[i] = pending[j] => i = j
    /\ \A v, w \in Workers :
         workerPc[v] = "serve" /\ workerPc[w] = "serve"
           /\ serving[v] = serving[w] => v = w
    /\ \A w \in Workers : workerPc[w] = "serve" => serving[w] \in Clients
    /\ \A c \in Clients : ~(inHand = c /\ Queued(c))
    /\ \A c \in Clients : ~(inHand = c /\ Served(c))
    /\ \A c \in Clients : ~(Queued(c) /\ Served(c))
    /\ \A c \in Clients : Held(c) => conn[c] = "accepted"

SlotsInv ==
    /\ PoolTypeOK
    /\ busyWorkers = Len(pending) + Cardinality(Serving)

(***************************************************************************)
(* What Append and Tail do to the places of the queue.                     *)
(***************************************************************************)
LEMMA PlacesAfterAppend ==
    ASSUME NEW s \in Seq(Clients), NEW c \in Clients
    PROVE  /\ Append(s, c) \in Seq(Clients)
           /\ Len(Append(s, c)) = Len(s) + 1 /\ Len(s) \in Nat
           /\ DOMAIN s = 1..Len(s)
           /\ DOMAIN Append(s, c) = 1..Len(s) + 1
           /\ \A i \in 1..Len(s) : Append(s, c)[i] = s[i]
           /\ Append(s, c)[Len(s) + 1] = c
  OBVIOUS

(***************************************************************************)
(* The same of the connection that leaves at the head.                     *)
(***************************************************************************)
LEMMA PlacesAfterTail ==
    ASSUME NEW s \in Seq(Clients), s # <<>>
    PROVE  /\ Tail(s) \in Seq(Clients) /\ Head(s) \in Clients
           /\ Len(s) \in Nat /\ Len(s) > 0 /\ Len(Tail(s)) = Len(s) - 1
           /\ DOMAIN s = 1..Len(s) /\ 1 \in DOMAIN s /\ Head(s) = s[1]
           /\ DOMAIN Tail(s) = 1..Len(s) - 1
           /\ \A i \in 1..Len(s) - 1 : i + 1 \in DOMAIN s /\ Tail(s)[i] = s[i + 1]
  OBVIOUS

(***************************************************************************)
(* The workers that have a slot are finitely many.                         *)
(***************************************************************************)
LEMMA ServingIsFinite ==
    /\ IsFiniteSet(Serving) /\ Cardinality(Serving) \in Nat
    /\ WorkerCount \in Nat
  <1>1. Serving \in SUBSET Workers
    BY DEF Serving
  <1>. QED
    BY <1>1, FS_Subset, FS_CardinalityType DEF WorkerCount

(***************************************************************************)
(* A step that moves no connection: queue, hands and workers as before,    *)
(* and an accepted connection stays one.                                   *)
(***************************************************************************)
LEMMA NobodyMoves ==
    ASSUME OwnersInv, UNCHANGED <<pending, inHand, workerPc, serving>>,
           \A c \in Clients : conn[c] = "accepted" => conn'[c] = "accepted"
    PROVE  OwnersInv'
  BY DEF OwnersInv, Queued, Served, Held

(***************************************************************************)
(* At first no slot is taken.                                              *)
(***************************************************************************)
LEMMA InitSlots == Init => OwnersInv /\ SlotsInv
<1>. SUFFICES ASSUME Init PROVE OwnersInv /\ SlotsInv
  OBVIOUS
<1>1. Serving = {}
  BY DEF Init, Serving
<1>2. Cardinality(Serving) = 0 /\ Len(pending) = 0
  BY <1>1, FS_EmptySet DEF Init
<1>3. SlotsInv
  <2>1. busyWorkers = 0 /\ 0 \in 0..WorkerCount
    BY ServingIsFinite DEF Init
  <2>2. PoolTypeOK
    <3>1. framesLeft \in [Clients -> Nat] /\ stopRequested \in BOOLEAN
      BY ClientsAssumption DEF Init
    <3>2. frame \in [Clients -> BOOLEAN] /\ hungUp \in [Clients -> BOOLEAN]
      BY DEF Init
    <3>3. PoolTypes
      BY InitDrainInv DEF DrainInv
    <3>. QED
      BY <2>1, <3>1, <3>2, <3>3 DEF PoolTypeOK, PoolTypes
  <2>. QED
    BY <1>2, <2>1, <2>2 DEF SlotsInv
<1>4. OwnersInv
  BY DEF Init, OwnersInv, Queued, Served, Held
<1>. QED
  BY <1>3, <1>4

(***************************************************************************)
(* Run hands a connection over: the one place that is new in the queue has *)
(* the one connection that was in hand.                                    *)
(***************************************************************************)
LEMMA HandOverOwners ==
    ASSUME DrainInv, OwnersInv, SlotsInv, HandOver
    PROVE  OwnersInv' /\ SlotsInv'
<1>. USE DEF DrainInv, PoolTypes, OwnersInv, SlotsInv, PoolTypeOK, runVars,
             clientVars
<1>0. inHand \in Clients /\ inHand' = NoClient
      /\ UNCHANGED <<stopRequested, workerPc, serving, frame, framesLeft,
                     hungUp>>
  BY DEF HandOver
<1>1. Serving' = Serving /\ \A c : Served(c)' = Served(c)
  BY <1>0 DEF Serving, Served
<1>2. CASE stopRequested
  <2>1. /\ conn' = [conn EXCEPT ![inHand] = "closed"]
        /\ runPc' = "shutdown" /\ UNCHANGED <<busyWorkers, pending>>
    BY <1>2 DEF HandOver
  <2>2. \A c : Queued(c)' = Queued(c)
    BY <2>1 DEF Queued
  <2>3. SlotsInv'
    BY <1>0, <1>1, <2>1
  <2>4. OwnersInv'
    BY <1>0, <1>1, <2>1, <2>2 DEF Held, Served, Queued
  <2>. QED
    BY <2>3, <2>4
<1>3. CASE ~stopRequested
  <2>1. /\ busyWorkers < WorkerCount /\ busyWorkers' = busyWorkers + 1
        /\ pending' = Append(pending, inHand)
        /\ runPc' = "loop" /\ UNCHANGED conn
    BY <1>3 DEF HandOver
  <2>2. /\ pending' \in Seq(Clients)
        /\ Len(pending') = Len(pending) + 1 /\ Len(pending) \in Nat
        /\ DOMAIN pending = 1..Len(pending)
        /\ DOMAIN pending' = 1..Len(pending) + 1
        /\ \A i \in 1..Len(pending) : pending'[i] = pending[i]
        /\ pending'[Len(pending) + 1] = inHand
    BY <1>0, <2>1, PlacesAfterAppend
  <2>3. \A c \in Clients : Queued(c)' <=> Queued(c) \/ c = inHand
    <3>. TAKE c \in Clients
    <3>1. ASSUME Queued(c) PROVE Queued(c)'
      <4>1. PICK i \in DOMAIN pending : pending[i] = c
        BY <3>1 DEF Queued
      <4>2. i \in DOMAIN pending' /\ pending'[i] = c
        BY <2>2, <4>1
      <4>. QED
        BY <4>2 DEF Queued
    <3>2. ASSUME c = inHand PROVE Queued(c)'
      <4>1. Len(pending) + 1 \in DOMAIN pending'
        BY <2>2
      <4>. QED
        BY <2>2, <3>2, <4>1 DEF Queued
    <3>3. ASSUME Queued(c)', c # inHand PROVE Queued(c)
      <4>1. PICK i \in DOMAIN pending' : pending'[i] = c
        BY <3>3 DEF Queued
      <4>2. i \in DOMAIN pending /\ pending[i] = c
        BY <2>2, <3>3, <4>1
      <4>. QED
        BY <4>2 DEF Queued
    <3>. QED
      BY <3>1, <3>2, <3>3
  <2>4. ~Queued(inHand) /\ ~Served(inHand)
    BY <1>0
  <2>5. SlotsInv'
    <3>1. /\ Cardinality(Serving) \in Nat /\ WorkerCount \in Nat
          /\ busyWorkers \in 0..WorkerCount
      BY ServingIsFinite DEF WorkerCount
    <3>2. busyWorkers' \in 0..WorkerCount
      BY <2>1, <3>1
    <3>3. busyWorkers' = Len(pending') + Cardinality(Serving')
      <4>1. busyWorkers' = (Len(pending) + 1) + Cardinality(Serving)
        BY <2>1, <2>2, <3>1
      <4>. QED
        BY <1>1, <2>2, <4>1
    <3>4. PoolTypeOK'
      BY <1>0, <2>1, <2>2, <3>2
    <3>. QED
      BY <3>3, <3>4
  <2>6. \A i, j \in DOMAIN pending' : pending'[i] = pending'[j] => i = j
    <3>1. \A i \in 1..Len(pending) : pending'[i] # inHand
      BY <2>2, <2>4 DEF Queued
    <3>2. ASSUME NEW i \in DOMAIN pending', NEW j \in DOMAIN pending',
                 pending'[i] = pending'[j]
          PROVE  i = j
      <4>1. CASE i \in DOMAIN pending /\ j \in DOMAIN pending
        BY <2>2, <3>2, <4>1
      <4>2. CASE i = Len(pending) + 1 \/ j = Len(pending) + 1
        BY <2>2, <3>1, <3>2, <4>2
      <4>. QED
        BY <2>2, <4>1, <4>2
    <3>. QED
      BY <3>2
  <2>7. \A c \in Clients : Held(c)' => conn'[c] = "accepted"
    <3>1. \A c \in Clients : Held(c)' => Held(c)
      BY <1>0, <1>1, <2>3, NoClientAssumption DEF Held, Queued, Served
    <3>. QED
      BY <2>1, <3>1
  <2>8. \A c \in Clients : inHand' # c
    BY <1>0, NoClientAssumption
  <2>9. \A c \in Clients : ~(Queued(c)' /\ Served(c)')
    BY <1>0, <1>1, <2>3, <2>4
  <2>10. OwnersInv'
    BY <1>0, <2>6, <2>7, <2>8, <2>9
  <2>. QED
    BY <2>5, <2>10
<1>. QED
  BY <1>2, <1>3

(***************************************************************************)
(* Run's other steps, the clients and the stop request.                    *)
(***************************************************************************)
LEMMA OthersOwners ==
    ASSUME DrainInv, OwnersInv, SlotsInv,
           \/ RunLoop \/ NoAccept \/ Shutdown \/ Join \/ Stop \/ RequestStop
           \/ \E c \in Clients : ClientStep(c) \/ Accept(c)
    PROVE  OwnersInv' /\ SlotsInv'
<1>. USE DEF runVars, clientVars
<1>1. CASE RunLoop \/ NoAccept \/ Shutdown \/ Join \/ RequestStop
  <2>1. OwnersInv'
    <3>1. UNCHANGED <<pending, inHand, workerPc, serving, conn>>
      BY <1>1 DEF RunLoop, NoAccept, Shutdown, Join, RequestStop
    <3>. QED
      BY <3>1, NobodyMoves
  <2>2. SlotsInv'
    BY <1>1 DEF SlotsInv, PoolTypeOK, Serving, RunLoop, NoAccept, Shutdown,
                Join, RequestStop
  <2>. QED
    BY <2>1, <2>2
<1>2. CASE Stop
  <2>1. pending = <<>> /\ pending' = <<>> /\ UNCHANGED pending
    BY <1>2, PoolAssumption DEF Stop, DrainInv
  <2>2. OwnersInv'
    <3>1. \A c \in Clients : conn[c] = "accepted" => conn'[c] = "accepted"
      BY <1>2 DEF Stop
    <3>. QED
      BY <1>2, <2>1, <3>1, NobodyMoves DEF Stop
  <2>3. SlotsInv'
    BY <1>2, <2>1 DEF SlotsInv, PoolTypeOK, Serving, Stop
  <2>. QED
    BY <2>2, <2>3
<1>3. ASSUME NEW c \in Clients, ClientStep(c) PROVE OwnersInv' /\ SlotsInv'
  <2>1. UNCHANGED <<pending, inHand, workerPc, serving>>
        /\ \A d \in Clients : conn[d] = "accepted" => conn'[d] = "accepted"
    BY <1>3 DEF ClientStep, Connect, SendFrame, HangUp, SlotsInv, PoolTypeOK
  <2>2. OwnersInv'
    BY <2>1, NobodyMoves
  <2>3. CASE Connect(c) \/ HangUp(c)
    BY <2>2, <2>3 DEF SlotsInv, PoolTypeOK, Serving, Connect, HangUp
  <2>4. CASE SendFrame(c)
    <3>1. framesLeft' \in [Clients -> Nat]
      BY <2>4 DEF SlotsInv, PoolTypeOK, SendFrame
    <3>. QED
      BY <2>2, <2>4, <3>1 DEF SlotsInv, PoolTypeOK, Serving, SendFrame
  <2>. QED
    BY <1>3, <2>3, <2>4 DEF ClientStep
<1>4. ASSUME NEW c \in Clients, Accept(c) PROVE OwnersInv' /\ SlotsInv'
  <2>1. /\ runPc = "poll" /\ conn[c] = "backlog" /\ inHand' = c
        /\ conn' = [conn EXCEPT ![c] = "accepted"]
        /\ UNCHANGED <<pending, workerPc, serving>>
    BY <1>4 DEF Accept
  <2>2. inHand = NoClient /\ ~Held(c) /\ conn \in [Clients ->
          {"none", "backlog", "accepted", "closed"}]
    BY <2>1 DEF DrainInv, OwnersInv, PoolTypes
  <2>3. \A d : Queued(d)' = Queued(d) /\ Served(d)' = Served(d)
    BY <2>1 DEF Queued, Served
  <2>4. \A d \in Clients : Held(d)' => Held(d) \/ d = c
    BY <2>1 DEF Held
  <2>5. OwnersInv'
    BY <2>1, <2>2, <2>3, <2>4 DEF OwnersInv, Held, Queued, Served
  <2>6. SlotsInv'
    BY <1>4 DEF SlotsInv, PoolTypeOK, Serving, Accept
  <2>. QED
    BY <2>5, <2>6
<1>. QED
  BY <1>1, <1>2, <1>3, <1>4

(***************************************************************************)
(* A worker takes the head of the queue: what it serves from now on is     *)
(* nowhere in the queue any more.                                          *)
(***************************************************************************)
LEMMA TakeOwners ==
    ASSUME DrainInv, OwnersInv, SlotsInv, NEW w \in Workers, Take(w)
    PROVE  OwnersInv' /\ SlotsInv'
<1>. USE DEF runVars, clientVars
<1>0. pending \in Seq(Clients) /\ serving \in [Workers -> Clients \cup {NoClient}]
      /\ workerPc \in [Workers -> {"wait", "serve", "release", "done"}]
      /\ busyWorkers \in 0..WorkerCount
  BY DEF SlotsInv, PoolTypeOK
<1>c. PICK c \in Clients : c = Head(pending)
  BY <1>0, PlacesAfterTail DEF Take
<1>1. /\ workerPc[w] = "wait" /\ pending # <<>>
      /\ serving' = [serving EXCEPT ![w] = c]
      /\ pending' = Tail(pending)
      /\ workerPc' = [workerPc EXCEPT ![w] = "serve"]
      /\ UNCHANGED <<runPc, inHand, busyWorkers, stopRequested, conn, frame,
                     framesLeft, hungUp>>
  BY <1>c DEF Take
<1>2. /\ pending' \in Seq(Clients) /\ pending[1] = c
      /\ Len(pending) \in Nat /\ Len(pending) > 0
      /\ Len(pending') = Len(pending) - 1
      /\ DOMAIN pending = 1..Len(pending) /\ 1 \in DOMAIN pending
      /\ DOMAIN pending' = 1..Len(pending) - 1
      /\ \A i \in 1..Len(pending) - 1 :
           i + 1 \in DOMAIN pending /\ pending'[i] = pending[i + 1]
  BY <1>0, <1>1, <1>c, PlacesAfterTail
<1>3. \A i, j \in DOMAIN pending : pending[i] = pending[j] => i = j
  BY DEF OwnersInv
<1>4. Queued(c) /\ ~Served(c) /\ inHand # c /\ conn[c] = "accepted"
  <2>1. Queued(c)
    BY <1>2 DEF Queued
  <2>. QED
    BY <1>2, <2>1 DEF OwnersInv, Held, Queued
<1>5. ~Queued(c)'
  <2>. SUFFICES ASSUME NEW i \in DOMAIN pending', pending'[i] = c
                PROVE  FALSE
    BY DEF Queued
  <2>1. i \in Nat \ {0} /\ i + 1 \in DOMAIN pending /\ pending[i + 1] = c
    BY <1>2
  <2>2. i + 1 = 1
    BY <1>2, <1>3, <2>1
  <2>. QED
    BY <2>1, <2>2
<1>6. \A d \in Clients : Queued(d)' => Queued(d)
  BY <1>2 DEF Queued
<1>7. \A d \in Clients : Served(d)' => Served(d) \/ d = c
  BY <1>0, <1>1, <1>2 DEF Served
<1>8. OwnersInv'
  <2>1. \A i, j \in DOMAIN pending' : pending'[i] = pending'[j] => i = j
    <3>. SUFFICES ASSUME NEW i \in DOMAIN pending', NEW j \in DOMAIN pending',
                         pending'[i] = pending'[j]
                  PROVE  i = j
      OBVIOUS
    <3>1. i + 1 \in DOMAIN pending /\ j + 1 \in DOMAIN pending
          /\ pending[i + 1] = pending[j + 1]
      BY <1>2
    <3>2. i + 1 = j + 1
      BY <1>3, <3>1
    <3>. QED
      BY <1>2, <3>2
  <2>2. \A u, v \in Workers :
          workerPc'[u] = "serve" /\ workerPc'[v] = "serve"
            /\ serving'[u] = serving'[v] => u = v
    <3>1. \A v \in Workers \ {w} : workerPc[v] = "serve" => serving[v] # c
      BY <1>4 DEF Served
    <3>. QED
      BY <1>0, <1>1, <1>2, <3>1 DEF OwnersInv
  <2>3. \A v \in Workers : workerPc'[v] = "serve" => serving'[v] \in Clients
    BY <1>0, <1>1, <1>2 DEF OwnersInv
  <2>4. \A d \in Clients : ~(inHand' = d /\ Queued(d)')
                           /\ ~(inHand' = d /\ Served(d)')
                           /\ ~(Queued(d)' /\ Served(d)')
    BY <1>1, <1>4, <1>5, <1>6, <1>7 DEF OwnersInv
  <2>5. \A d \in Clients : Held(d)' => conn'[d] = "accepted"
    <3>1. \A d \in Clients : Held(d)' => inHand' = d \/ Queued(d)' \/ Served(d)'
      BY DEF Held, Queued, Served
    <3>2. \A d \in Clients : inHand = d \/ Queued(d) \/ Served(d) => Held(d)
      BY DEF Held, Queued, Served
    <3>3. \A d \in Clients : Held(d) => conn[d] = "accepted"
      BY DEF OwnersInv
    <3>. QED
      BY <1>1, <1>4, <1>6, <1>7, <3>1, <3>2, <3>3
  <2>. QED
    BY <2>1, <2>2, <2>3, <2>4, <2>5 DEF OwnersInv
<1>9. SlotsInv'
  <2>1. Serving' = Serving \cup {w} /\ w \notin Serving
    BY <1>0, <1>1 DEF Serving
  <2>2. Cardinality(Serving') = Cardinality(Serving) + 1
    BY <2>1, ServingIsFinite, FS_AddElement
  <2>3. busyWorkers' = Len(pending') + Cardinality(Serving')
    BY <1>1, <1>2, <2>2, ServingIsFinite DEF SlotsInv
  <2>4. PoolTypeOK'
    BY <1>0, <1>1, <1>2 DEF SlotsInv, PoolTypeOK, WorkerCount
  <2>. QED
    BY <2>3, <2>4 DEF SlotsInv
<1>. QED
  BY <1>8, <1>9

(***************************************************************************)
(* The worker's other steps: the slot of a connection that ended is given  *)
(* back once, by the worker that has it.                                   *)
(***************************************************************************)
LEMMA ServeOwners ==
    ASSUME DrainInv, OwnersInv, SlotsInv, NEW w \in Workers,
           \/ Exit(w) \/ ServeFrame(w) \/ RecvEnds(w) \/ Release(w)
           \/ DropConnection(w)
    PROVE  OwnersInv' /\ SlotsInv'
<1>. USE DEF runVars, clientVars
<1>0. workerPc \in [Workers -> {"wait", "serve", "release", "done"}]
      /\ serving \in [Workers -> Clients \cup {NoClient}]
      /\ conn \in [Clients -> {"none", "backlog", "accepted", "closed"}]
      /\ pending \in Seq(Clients) /\ Len(pending) \in Nat
      /\ busyWorkers \in 0..WorkerCount
  BY DEF SlotsInv, PoolTypeOK
<1>1. CASE ServeFrame(w)
  <2>1. OwnersInv'
    BY <1>1, NobodyMoves DEF ServeFrame
  <2>2. SlotsInv'
    BY <1>1 DEF SlotsInv, PoolTypeOK, Serving, ServeFrame
  <2>. QED
    BY <2>1, <2>2
<1>2. CASE Exit(w)
  <2>1. OwnersInv'
    <3>1. \A v \in Workers : workerPc'[v] = "serve" <=> workerPc[v] = "serve"
      BY <1>0, <1>2 DEF Exit
    <3>. QED
      BY <1>2, <3>1 DEF Exit, OwnersInv, Queued, Served, Held
  <2>2. Serving' = Serving
    BY <1>0, <1>2 DEF Exit, Serving
  <2>3. SlotsInv'
    BY <1>2, <2>2 DEF SlotsInv, PoolTypeOK, Exit
  <2>. QED
    BY <2>1, <2>3
<1>3. CASE RecvEnds(w) \/ DropConnection(w)
  <2>1. /\ workerPc[w] = "serve"
        /\ conn' = [conn EXCEPT ![serving[w]] = "closed"]
        /\ workerPc' = [workerPc EXCEPT ![w] = "release"]
        /\ UNCHANGED <<runPc, inHand, busyWorkers, pending, stopRequested,
                       serving, frame, framesLeft, hungUp>>
    BY <1>3 DEF RecvEnds, DropConnection, EndConnection
  <2>2. \A v \in Workers : workerPc'[v] = "serve" <=> v # w /\ workerPc[v] = "serve"
    BY <1>0, <2>1
  <2>3. \A c \in Clients : Held(c)' => Held(c) /\ c # serving[w]
    BY <2>1, <2>2 DEF Held, OwnersInv, Queued, Served
  <2>4. OwnersInv'
    <3>1. \A c \in Clients : Held(c)' => conn'[c] = "accepted"
      BY <1>0, <2>1, <2>3 DEF OwnersInv
    <3>. QED
      BY <2>1, <2>2, <3>1 DEF OwnersInv, Queued, Served
  <2>5. Serving' = Serving
    BY <1>0, <2>1 DEF Serving
  <2>6. SlotsInv'
    BY <2>1, <2>5 DEF SlotsInv, PoolTypeOK
  <2>. QED
    BY <2>4, <2>6
<1>4. CASE Release(w)
  <2>1. /\ workerPc[w] = "release"
        /\ busyWorkers' = IF busyWorkers > 0 THEN busyWorkers - 1 ELSE 0
        /\ serving' = [serving EXCEPT ![w] = NoClient]
        /\ workerPc' = [workerPc EXCEPT ![w] = "wait"]
        /\ UNCHANGED <<runPc, inHand, pending, stopRequested, conn, frame,
                       framesLeft, hungUp>>
    BY <1>4 DEF Release
  <2>2. \A v \in Workers :
          /\ workerPc'[v] = "serve" <=> workerPc[v] = "serve"
          /\ workerPc'[v] = "serve" => serving'[v] = serving[v]
    BY <1>0, <2>1
  <2>3. OwnersInv'
    BY <2>1, <2>2 DEF OwnersInv, Queued, Served, Held
  <2>4. Serving' = Serving \ {w} /\ w \in Serving
    BY <1>0, <2>1 DEF Serving
  <2>5. Cardinality(Serving') = Cardinality(Serving) - 1
        /\ Cardinality(Serving) # 0
    BY <2>4, ServingIsFinite, FS_RemoveElement, FS_EmptySet
  <2>6. busyWorkers' = busyWorkers - 1 /\ busyWorkers > 0
    BY <1>0, <2>1, <2>5, ServingIsFinite DEF SlotsInv
  <2>7. SlotsInv'
    BY <1>0, <2>1, <2>5, <2>6, ServingIsFinite DEF SlotsInv, PoolTypeOK, WorkerCount
  <2>. QED
    BY <2>3, <2>7
<1>. QED
  BY <1>1, <1>2, <1>3, <1>4

(***************************************************************************)
(* Hands that are never shared are what OneOwner counts.                   *)
(***************************************************************************)
LEMMA OneOwnerByHands ==
    ASSUME DrainInv, OwnersInv
    PROVE  OneOwner
<1>. SUFFICES ASSUME NEW c \in Clients
              PROVE  Cardinality({i \in DOMAIN pending : pending[i] = c})
                       + Cardinality({w \in Workers :
                                        workerPc[w] = "serve" /\ serving[w] = c})
                       + (IF inHand = c THEN 1 ELSE 0)
                     = IF conn[c] = "accepted" THEN 1 ELSE 0
  BY DEF OneOwner
<1>. DEFINE places == {i \in DOMAIN pending : pending[i] = c}
            servers == {w \in Workers : workerPc[w] = "serve" /\ serving[w] = c}
<1>1. Cardinality(places) = IF Queued(c) THEN 1 ELSE 0
  <2>1. CASE Queued(c)
    <3>1. PICK i \in DOMAIN pending : pending[i] = c
      BY <2>1 DEF Queued
    <3>2. places = {i}
      BY <3>1 DEF OwnersInv
    <3>. QED
      BY <2>1, <3>2, FS_Singleton
  <2>2. CASE ~Queued(c)
    <3>1. places = {}
      BY <2>2 DEF Queued
    <3>. QED
      BY <2>2, <3>1, FS_EmptySet
  <2>. QED
    BY <2>1, <2>2
<1>2. Cardinality(servers) = IF Served(c) THEN 1 ELSE 0
  <2>1. CASE Served(c)
    <3>1. PICK w \in Workers : workerPc[w] = "serve" /\ serving[w] = c
      BY <2>1 DEF Served
    <3>2. servers = {w}
      BY <3>1 DEF OwnersInv
    <3>. QED
      BY <2>1, <3>2, FS_Singleton
  <2>2. CASE ~Served(c)
    <3>1. servers = {}
      BY <2>2 DEF Served
    <3>. QED
      BY <2>2, <3>1, FS_EmptySet
  <2>. QED
    BY <2>1, <2>2
<1>3. conn[c] = "accepted" <=> inHand = c \/ Queued(c) \/ Served(c)
  BY DEF DrainInv, OwnersInv, Held, Queued, Served
<1>4. /\ ~(inHand = c /\ Queued(c)) /\ ~(inHand = c /\ Served(c))
      /\ ~(Queued(c) /\ Served(c))
  BY DEF OwnersInv
<1>5. CASE inHand = c
  BY <1>1, <1>2, <1>3, <1>4, <1>5
<1>6. CASE inHand # c /\ Queued(c)
  BY <1>1, <1>2, <1>3, <1>4, <1>6
<1>7. CASE inHand # c /\ ~Queued(c)
  BY <1>1, <1>2, <1>3, <1>4, <1>7
<1>. QED
  BY <1>5, <1>6, <1>7

(***************************************************************************)
(* What the pool is counted by is what it does, at every moment, and its   *)
(* count never leaves 0..worker_count.                                     *)
(***************************************************************************)
LEMMA PoolInvHolds == Spec => [](DrainInv /\ OwnersInv /\ SlotsInv)
<1>1. Init => DrainInv /\ OwnersInv /\ SlotsInv
  BY InitDrainInv, InitSlots
<1>2. DrainInv /\ OwnersInv /\ SlotsInv /\ [Next]_vars
        => (DrainInv /\ OwnersInv /\ SlotsInv)'
  <2>. SUFFICES ASSUME DrainInv, OwnersInv, SlotsInv, [Next]_vars
                PROVE  DrainInv' /\ OwnersInv' /\ SlotsInv'
    OBVIOUS
  <2>1. CASE UNCHANGED vars
    <3>1. DrainInv' /\ SlotsInv'
      BY <2>1 DEF vars, runVars, clientVars, DrainInv, PoolTypes, Held,
                  SlotsInv, PoolTypeOK, Serving
    <3>2. OwnersInv'
      BY <2>1, NobodyMoves DEF vars, runVars
    <3>. QED
      BY <3>1, <3>2
  <2>2. CASE Next
    <3>1. DrainInv'
      BY <2>2, RunStepDrainInv, WorkerStepDrainInv DEF Next
    <3>2. OwnersInv' /\ SlotsInv'
      <4>1. CASE RunStep \/ NoAccept \/ RequestStop
                   \/ \E c \in Clients : ClientStep(c) \/ Accept(c)
        BY <4>1, HandOverOwners, OthersOwners DEF RunStep
      <4>2. ASSUME NEW w \in Workers, WorkerStep(w) \/ DropConnection(w)
            PROVE  OwnersInv' /\ SlotsInv'
        BY <4>2, TakeOwners, ServeOwners DEF WorkerStep
      <4>. QED
        BY <2>2, <4>1, <4>2 DEF Next
    <3>. QED
      BY <3>1, <3>2
  <2>. QED
    BY <2>1, <2>2
<1>. QED
  BY <1>1, <1>2, PTL DEF Spec

(***************************************************************************)
(* The pool keeps its types: above all, busy_workers_ stays between 0 and  *)
(* the size of the pool.                                                   *)
(***************************************************************************)
THEOREM PoolTypeCorrect == Spec => []PoolTypeOK
<1>1. DrainInv /\ OwnersInv /\ SlotsInv => PoolTypeOK
  BY DEF SlotsInv
<1>. QED
  BY <1>1, PoolInvHolds, PTL

(***************************************************************************)
(* No slot is lost and no connection has two owners, whatever the threads, *)
(* the clients and the stop request do, in whatever order.                 *)
(***************************************************************************)
THEOREM SlotsAreNeverLost == Spec => []SlotsAreConnections
<1>1. DrainInv /\ OwnersInv /\ SlotsInv => SlotsAreConnections
  BY OneOwnerByHands DEF SlotsInv, SlotsAreConnections
<1>. QED
  BY <1>1, PoolInvHolds, PTL

-----------------------------------------------------------------------------
(* The processes.  That they only ask the store for what it allows gives   *)
(* its invariant; what is proved on top is who writes, and what a confirmed *)
(* deletion takes.                                                         *)

(***************************************************************************)
(* Whoever is where it may write, and a query that is trying the lock, has *)
(* the lock.  Without the query, OneWriter is not inductive: its release   *)
(* would be of a lock somebody else holds.                                 *)
(***************************************************************************)
DataLockIsHeld ==
    \A p \in Pids : at[p] \in WriterSteps \cup {"probe"} => dataLock = p

(***************************************************************************)
(* Every row has an id that was drawn, so that no id is drawn twice.       *)
(***************************************************************************)
RowsWereDrawn == Rows \subseteq issued

(***************************************************************************)
(* What was once printed of an account stays true of it for as long as it  *)
(* lives, and of a snapshot for as long as it is listed: an id names one   *)
(* account and one snapshot for ever.                                      *)
(***************************************************************************)
StillTrue(page) ==
    /\ page.user \in Allocated
    /\ page.user \in LiveUsers => username[page.user] = page.name
    /\ page.snapshot # NoRow => page.snapshot \in issued
    /\ page.snapshot \in Rows => snapshots[page.snapshot].user = page.user

PagesAreTrue ==
    /\ screen # Nothing => StillTrue(screen)
    /\ \A p \in Pids : typed[p] # Nothing => StillTrue(typed[p].page)

(***************************************************************************)
(* Past the lock there is a deletion to do, and past its confirmation the  *)
(* account it is done to is the one on the page.                           *)
(***************************************************************************)
DeletionsAreConfirmed ==
    \A p \in Pids :
      /\ at[p] \in {"open", "resolve", "delete"} => typed[p] # Nothing
      /\ at[p] = "delete" =>
           /\ found[p] \in UserIds
           /\ IsOfAnAccount(typed[p]) => found[p] = typed[p].page.user

ProcessesInv ==
    /\ StoreInv
    /\ ProcessesTypeOK
    /\ DataLockIsHeld
    /\ RowsWereDrawn
    /\ PagesAreTrue
    /\ DeletionsAreConfirmed

USE PidsAssumption, SentinelsAssumption, LineagesAssumption,
    SnapshotIdsAssumption, LimitsAssumption, NamesAssumption, NoRowAssumption

-----------------------------------------------------------------------------
(***************************************************************************)
(* What a step of any process may do to the database, and to the ids drawn *)
(* for snapshots.                                                          *)
(***************************************************************************)
StoreMove ==
    \/ UNCHANGED <<storeVars, issued>>
    \/ (\E name \in Names : CreateUser(name)) /\ UNCHANGED issued
    \/ (\E user \in UserIds : DeleteUser(user)) /\ UNCHANGED issued
    \/ \E user \in UserIds, s \in SnapshotIds :
         DeleteSnapshot(user, s) /\ UNCHANGED issued
    \/ \E user \in UserIds, s \in SnapshotIds :
         /\ s \notin issued
         /\ InsertSnapshot(s, FullRow(user))
         /\ issued' = issued \cup {s}

(***************************************************************************)
(* A row a server records for a backup is one any caller may offer.        *)
(***************************************************************************)
LEMMA FullRowIsOffered ==
    ASSUME NEW user \in UserIds
    PROVE  FullRow(user) \in OfferedRows
<1>1. (CHOOSE lineage \in Lineages : TRUE) \in Lineages
  BY Zenon
<1>. QED
  BY <1>1 DEF FullRow, OfferedRows, Kinds

(***************************************************************************)
(* Such a move is a step of the store or leaves it alone.                  *)
(***************************************************************************)
LEMMA StoreMoveIsAStep == StoreMove => [StoreNext]_storeVars
  BY FullRowIsOffered DEF StoreMove, StoreNext

(***************************************************************************)
(* Accounts and rows over such a move: an allocated id stays allocated and *)
(* is not given a name, a live one keeps its name while it lives, and a    *)
(* drawn snapshot id gets no new row.                                      *)
(***************************************************************************)
LEMMA StoreMoves ==
    ASSUME StoreInv, RowsWereDrawn, StoreMove
    PROVE  /\ Allocated \subseteq Allocated'
           /\ \A u \in Allocated : u \in LiveUsers' =>
                u \in LiveUsers /\ username'[u] = username[u]
           /\ issued \subseteq issued'
           /\ RowsWereDrawn'
           /\ \A s \in issued : s \in Rows' =>
                s \in Rows /\ snapshots'[s] = snapshots[s]
<1>. USE DEF StoreInv, StoreTypeOK
<1>1. CASE UNCHANGED <<storeVars, issued>>
  BY <1>1 DEF storeVars, Allocated, LiveUsers, Rows, RowsWereDrawn
<1>2. CASE (\E name \in Names : CreateUser(name)) /\ UNCHANGED issued
  <2>1. PICK id \in UserIds, name \in Names :
          /\ IsNextUserId(id)
          /\ username' = [username EXCEPT ![id] = name]
    BY <1>2 DEF CreateUser
  <2>2. UNCHANGED <<deletedUsers, snapshots, issued>>
    BY <1>2 DEF CreateUser
  <2>3. id \notin Allocated
    BY <2>1 DEF IsNextUserId, UserIds
  <2>. QED
    BY <2>1, <2>2, <2>3 DEF Allocated, LiveUsers, Rows, RowsWereDrawn
<1>3. CASE (\E user \in UserIds : DeleteUser(user)) /\ UNCHANGED issued
  BY <1>3 DEF DeleteUser, Allocated, LiveUsers, Rows, RowsOf, RowsWereDrawn
<1>4. CASE \E user \in UserIds, s \in SnapshotIds :
             DeleteSnapshot(user, s) /\ UNCHANGED issued
  BY <1>4 DEF DeleteSnapshot, Allocated, LiveUsers, Rows, RowsWereDrawn
<1>5. CASE \E user \in UserIds, s \in SnapshotIds :
             /\ s \notin issued
             /\ InsertSnapshot(s, FullRow(user))
             /\ issued' = issued \cup {s}
  BY <1>5 DEF InsertSnapshot, Allocated, LiveUsers, Rows, RowsWereDrawn
<1>. QED
  BY <1>1, <1>2, <1>3, <1>4, <1>5 DEF StoreMove

(***************************************************************************)
(* Hence a page that is true stays true.                                   *)
(***************************************************************************)
LEMMA PagesStayTrue ==
    ASSUME StoreInv, RowsWereDrawn, StoreMove, NEW page \in Pages,
           StillTrue(page)
    PROVE  StillTrue(page)'
<1>1. page.snapshot \in SnapshotIds => page.snapshot # NoRow
  OBVIOUS
<1>2. /\ page.user \in Allocated'
      /\ page.user \in LiveUsers' => username'[page.user] = page.name
  BY StoreMoves DEF StillTrue
<1>3. page.snapshot # NoRow => page.snapshot \in issued'
  BY StoreMoves DEF StillTrue
<1>4. page.snapshot \in Rows' => snapshots'[page.snapshot].user = page.user
  <2>1. Rows' \subseteq SnapshotIds
    BY DEF Rows
  <2>. QED
    BY <1>1, <2>1, StoreMoves DEF StillTrue
<1>. QED
  BY <1>2, <1>3, <1>4 DEF StillTrue

-----------------------------------------------------------------------------
(***************************************************************************)
(* Initially nobody runs and nothing was printed or drawn.                 *)
(***************************************************************************)
LEMMA InitProcessesInv == ProcessesInit /\ StoreInit => ProcessesInv
<1>. SUFFICES ASSUME ProcessesInit, StoreInit
              PROVE  ProcessesInv
  OBVIOUS
<1>1. StoreInv
  BY InitStoreInv
<1>2. ProcessesTypeOK
  BY DEF ProcessesInit, ProcessesTypeOK, Screens
<1>3. DataLockIsHeld /\ DeletionsAreConfirmed
  BY DEF ProcessesInit, DataLockIsHeld, DeletionsAreConfirmed, WriterSteps
<1>4. RowsWereDrawn /\ PagesAreTrue
  BY DEF ProcessesInit, StoreInit, RowsWereDrawn, PagesAreTrue, Rows
<1>. QED
  BY <1>1, <1>2, <1>3, <1>4 DEF ProcessesInv

(***************************************************************************)
(* What a deletion does is done to the account, or the snapshot, of the    *)
(* page, and the rest of the steps leave the database alone or serve.      *)
(***************************************************************************)
LEMMA StepIsAMove ==
    ASSUME ProcessesInv, NEW p \in Pids,
           ServerStep(p) \/ AdminStep(p) \/ Killed(p)
    PROVE  StoreMove
<1>. USE DEF StoreMove
<1>1. CASE Serve(p)
  BY <1>1 DEF Serve
<1>2. CASE Delete(p)
  <2>1. found[p] \in UserIds /\ typed[p] # Nothing
    BY <1>2 DEF ProcessesInv, DeletionsAreConfirmed, Delete
  <2>2. typed[p].page \in Pages
    BY <2>1 DEF ProcessesInv, ProcessesTypeOK, Deletions
  <2>3. ~IsOfAnAccount(typed[p]) => typed[p].page.snapshot \in SnapshotIds
    BY <2>2 DEF Pages, IsOfAnAccount
  <2>. QED
    BY <1>2, <2>1, <2>3 DEF Delete
<1>3. ~Serve(p) /\ ~Delete(p) => UNCHANGED <<storeVars, issued>>
  BY DEF ServerStep, AdminStep, Killed, StartServer, CheckPid, WritePid,
         RemovePid, ConfigureFails, AcquireDataLock, OpenDatabase,
         EnsureSchema, OpenListener, StartFails, StopServer, StartQuery, Probe,
         ProbeEnds, ListUsers, ShowUser, AcquireDestructiveLock, OpenAll,
         Resolve
<1>. QED
  BY <1>1, <1>2, <1>3

(***************************************************************************)
(* The lock: a process goes where it writes only by taking it, and the     *)
(* lock is given back only by its owner, who leaves.                       *)
(***************************************************************************)
LEMMA StepKeepsTheLock ==
    ASSUME ProcessesInv, NEW p \in Pids,
           ServerStep(p) \/ AdminStep(p) \/ Killed(p)
    PROVE  DataLockIsHeld'
<1>. USE DEF ProcessesInv, ProcessesTypeOK, DataLockIsHeld, WriterSteps
<1>1. CASE Killed(p) \/ CheckPid(p) \/ WritePid(p) \/ RemovePid(p)
  BY <1>1 DEF Killed, CheckPid, WritePid, RemovePid, Exits, Goes, Released,
              Reaches
<1>2. CASE StartServer(p) \/ ConfigureFails(p) \/ AcquireDataLock(p)
  BY <1>2 DEF StartServer, ConfigureFails, AcquireDataLock, Reaches
<1>3. CASE OpenDatabase(p) \/ EnsureSchema(p) \/ OpenListener(p)
  BY <1>3 DEF OpenDatabase, EnsureSchema, OpenListener, Reaches
<1>4. CASE StartFails(p) \/ Serve(p) \/ StopServer(p)
  BY <1>4 DEF StartFails, Serve, StopServer, Released, Reaches
<1>5. CASE StartQuery(p) \/ Probe(p) \/ ProbeEnds(p)
  BY <1>5 DEF StartQuery, Probe, ProbeEnds, Reaches
<1>6. CASE ListUsers(p) \/ ShowUser(p)
  BY <1>6 DEF ListUsers, ShowUser, Exits, Goes, Released
<1>7. CASE AcquireDestructiveLock(p) \/ OpenAll(p)
  BY <1>7 DEF AcquireDestructiveLock, OpenAll, Exits, Goes, Released, Reaches
<1>8. CASE Resolve(p) \/ Delete(p)
  BY <1>8 DEF Resolve, Delete, Exits, Goes, Released, Reaches
<1>. QED
  BY <1>1, <1>2, <1>3, <1>4, <1>5, <1>6, <1>7, <1>8 DEF ServerStep, AdminStep

(***************************************************************************)
(* What a query prints is a page, and true when it is printed.             *)
(***************************************************************************)
LEMMA WhatIsPrinted ==
    ASSUME ProcessesInv, NEW p \in Pids, ListUsers(p) \/ ShowUser(p)
    PROVE  screen' \in Pages /\ StillTrue(screen')
<1>. USE DEF ProcessesInv, StoreInv, StoreTypeOK
<1>1. ASSUME NEW u \in LiveUsers, NEW s \in RowsOf(u) \cup {NoRow}
      PROVE  Page(u, s) \in Pages /\ StillTrue(Page(u, s))
  <2>1. u \in UserIds /\ username[u] \in Names
    BY DEF LiveUsers
  <2>2. s # NoRow => s \in Rows /\ snapshots[s].user = u
    BY DEF RowsOf
  <2>3. NoRow \notin Rows
    BY DEF Rows
  <2>4. Page(u, s) \in Pages
    BY <2>1, <2>2 DEF Page, Pages, Rows
  <2>5. StillTrue(Page(u, s))
    BY <2>1, <2>2, <2>3 DEF Page, StillTrue, Allocated, RowsWereDrawn
  <2>. QED
    BY <2>4, <2>5
<1>2. CASE ListUsers(p)
  <2>1. PICK u \in LiveUsers : screen' = Page(u, NoRow)
    BY <1>2 DEF ListUsers
  <2>. QED
    BY <2>1, <1>1
<1>3. CASE ShowUser(p)
  <2>1. PICK text \in UserIds \cup Names :
          \E u \in ResolveUser("bare", text, text) :
            \E s \in RowsOf(u) \cup {NoRow} : screen' = Page(u, s)
    BY <1>3 DEF ShowUser
  <2>2. ResolveUser("bare", text, text) \subseteq LiveUsers
    BY <2>1 DEF ResolveUser, FindUser, LiveUsers
  <2>. QED
    BY <2>1, <2>2, <1>1
<1>. QED
  BY <1>2, <1>3

(***************************************************************************)
(* Types.                                                                  *)
(***************************************************************************)
LEMMA StepKeepsTypes ==
    ASSUME ProcessesInv, NEW p \in Pids,
           ServerStep(p) \/ AdminStep(p) \/ Killed(p)
    PROVE  ProcessesTypeOK'
<1>. USE DEF ProcessesInv, ProcessesTypeOK
<1>. DEFINE AllSteps == {"gone"} \cup ServerSteps \cup AdminSteps
<1>1. ASSUME NEW step \in AllSteps, Reaches(p, step)
      PROVE  at' \in [Pids -> AllSteps]
  BY <1>1 DEF Reaches
<1>2. ASSUME Exits(p)
      PROVE  /\ at' \in [Pids -> AllSteps]
             /\ typed' \in [Pids -> Deletions \cup {Nothing}]
             /\ found' \in [Pids -> UserIds \cup {0}]
             /\ dataLock' \in Pids \cup {Nobody}
  BY <1>2 DEF Exits, Goes, Released
<1>3. CASE Killed(p) \/ CheckPid(p) \/ WritePid(p) \/ RemovePid(p)
  BY <1>1, <1>2, <1>3 DEF Killed, CheckPid, WritePid, RemovePid, ServerSteps
<1>4. CASE StartServer(p) \/ ConfigureFails(p) \/ AcquireDataLock(p)
  BY <1>1, <1>4 DEF StartServer, ConfigureFails, AcquireDataLock, ServerSteps
<1>5. CASE OpenDatabase(p) \/ EnsureSchema(p) \/ OpenListener(p)
  BY <1>1, <1>5 DEF OpenDatabase, EnsureSchema, OpenListener, ServerSteps
<1>6. CASE StartFails(p) \/ Serve(p) \/ StopServer(p)
  BY <1>1, <1>6 DEF StartFails, Serve, StopServer, Released, ServerSteps
<1>7. CASE StartQuery(p) \/ Probe(p) \/ ProbeEnds(p)
  BY <1>1, <1>7 DEF StartQuery, Probe, ProbeEnds, AdminSteps
<1>8. CASE ListUsers(p) \/ ShowUser(p)
  BY <1>2, <1>8, WhatIsPrinted DEF ListUsers, ShowUser, Screens
<1>9. CASE AcquireDestructiveLock(p) \/ OpenAll(p)
  BY <1>1, <1>2, <1>9 DEF AcquireDestructiveLock, OpenAll, AdminSteps
<1>10. CASE Resolve(p)
  <2>1. ASSUME NEW u \in ResolveUser(typed[p].by, typed[p].page.user,
                                     typed[p].page.name)
        PROVE  u \in UserIds
    BY DEF ResolveUser, LiveUsers, FindUser
  <2>. QED
    BY <1>1, <1>2, <1>10, <2>1 DEF Resolve, AdminSteps
<1>11. CASE Delete(p)
  BY <1>2, <1>11 DEF Delete
<1>. QED
  BY <1>3, <1>4, <1>5, <1>6, <1>7, <1>8, <1>9, <1>10, <1>11
     DEF ServerStep, AdminStep

(***************************************************************************)
(* The operator's pages, and the deletions typed from them, stay true.     *)
(***************************************************************************)
LEMMA StepKeepsPages ==
    ASSUME ProcessesInv, NEW p \in Pids,
           ServerStep(p) \/ AdminStep(p) \/ Killed(p)
    PROVE  PagesAreTrue'
<1>. USE DEF ProcessesInv, ProcessesTypeOK
<1>1. StoreMove
  BY StepIsAMove
<1>2. ASSUME NEW page \in Pages, StillTrue(page)
      PROVE  StillTrue(page)'
  BY <1>1, <1>2, PagesStayTrue
<1>3. screen' = screen \/ ListUsers(p) \/ ShowUser(p)
  BY DEF ServerStep, AdminStep, Killed, StartServer, CheckPid, WritePid,
         RemovePid, ConfigureFails, AcquireDataLock, OpenDatabase,
         EnsureSchema, OpenListener, StartFails, Serve, StopServer, StartQuery,
         Probe, ProbeEnds, AcquireDestructiveLock, OpenAll, Resolve, Delete
<1>4. ASSUME NEW q \in Pids
      PROVE  \/ typed'[q] \in {typed[q], Nothing}
             \/ /\ AcquireDestructiveLock(p)
                /\ typed'[q] \in Deletions /\ typed'[q].page = screen
  BY DEF ServerStep, AdminStep, Killed, StartServer, CheckPid, WritePid,
         RemovePid, ConfigureFails, AcquireDataLock, OpenDatabase,
         EnsureSchema, OpenListener, StartFails, Serve, StopServer, StartQuery,
         Probe, ProbeEnds, ListUsers, ShowUser, AcquireDestructiveLock,
         OpenAll, Resolve, Delete, Exits
<1>5. screen' # Nothing => StillTrue(screen)'
  <2>1. CASE screen' = screen
    BY <2>1, <1>2 DEF PagesAreTrue, Screens
  <2>2. CASE ListUsers(p) \/ ShowUser(p)
    <3>1. screen' \in Pages /\ StillTrue(screen')
      BY <2>2, WhatIsPrinted
    <3>2. UNCHANGED <<storeVars, issued>>
      BY <2>2 DEF ListUsers, ShowUser
    <3>. QED
      BY <3>1, <3>2 DEF StillTrue, storeVars, LiveUsers, Allocated, Rows
  <2>. QED
    BY <1>3, <2>1, <2>2
<1>6. ASSUME NEW q \in Pids, typed'[q] # Nothing
      PROVE  StillTrue(typed[q].page)'
  <2>1. CASE typed'[q] = typed[q]
    <3>1. typed[q] \in Deletions
      BY <2>1, <1>6
    <3>2. typed[q].page \in Pages /\ StillTrue(typed[q].page)
      BY <2>1, <1>6, <3>1 DEF PagesAreTrue, Deletions
    <3>3. PICK page \in Pages : page = typed[q].page
      BY <3>2
    <3>4. StillTrue(page)'
      BY <3>2, <3>3, <1>2
    <3>. QED
      BY <3>3, <3>4, <2>1
  <2>2. CASE AcquireDestructiveLock(p) /\ typed'[q].page = screen
    <3>1. screen # Nothing /\ screen' = screen
      BY <2>2 DEF AcquireDestructiveLock
    <3>. QED
      BY <2>2, <3>1, <1>5
  <2>. QED
    BY <1>4, <1>6, <2>1, <2>2
<1>. QED
  BY <1>5, <1>6 DEF PagesAreTrue

(***************************************************************************)
(* A deletion is confirmed against the page it was typed from.             *)
(***************************************************************************)
LEMMA StepKeepsConfirmations ==
    ASSUME ProcessesInv, NEW p \in Pids,
           ServerStep(p) \/ AdminStep(p) \/ Killed(p)
    PROVE  DeletionsAreConfirmed'
<1>. USE DEF ProcessesInv, ProcessesTypeOK, DeletionsAreConfirmed
<1>1. CASE Killed(p) \/ CheckPid(p) \/ WritePid(p) \/ RemovePid(p)
  BY <1>1 DEF Killed, CheckPid, WritePid, RemovePid, Exits, Goes, Reaches
<1>2. CASE StartServer(p) \/ ConfigureFails(p) \/ AcquireDataLock(p)
  BY <1>2 DEF StartServer, ConfigureFails, AcquireDataLock, Reaches
<1>3. CASE OpenDatabase(p) \/ EnsureSchema(p) \/ OpenListener(p)
  BY <1>3 DEF OpenDatabase, EnsureSchema, OpenListener, Reaches
<1>4. CASE StartFails(p) \/ Serve(p) \/ StopServer(p)
  BY <1>4 DEF StartFails, Serve, StopServer, Reaches
<1>5. CASE StartQuery(p) \/ Probe(p) \/ ProbeEnds(p)
  BY <1>5 DEF StartQuery, Probe, ProbeEnds, Reaches
<1>6. CASE ListUsers(p) \/ ShowUser(p)
  BY <1>6 DEF ListUsers, ShowUser, Exits, Goes
<1>7. CASE AcquireDestructiveLock(p)
  <2>1. PICK d \in Deletions :
          d.page = screen /\ typed' = [typed EXCEPT ![p] = d]
    BY <1>7 DEF AcquireDestructiveLock
  <2>2. d # Nothing
    BY NothingAssumption
  <2>. QED
    BY <1>7, <2>1, <2>2 DEF AcquireDestructiveLock, Reaches
<1>8. CASE OpenAll(p) \/ Delete(p)
  BY <1>8 DEF OpenAll, Delete, Exits, Goes, Reaches
<1>9. CASE Resolve(p)
  <2>1. CASE Exits(p)
    BY <1>9, <2>1 DEF Exits, Goes, Resolve
  <2>2. CASE ~Exits(p)
    <3>1. PICK u \in UserIds :
            /\ Confirmed(typed[p], u)
            /\ found' = [found EXCEPT ![p] = u]
            /\ Reaches(p, "delete")
            /\ UNCHANGED typed
      BY <1>9, <2>2 DEF Resolve, ResolveUser, LiveUsers, FindUser
    <3>. QED
      BY <1>9, <3>1 DEF Resolve, Confirmed, Reaches
  <2>. QED
    BY <2>1, <2>2
<1>. QED
  BY <1>1, <1>2, <1>3, <1>4, <1>5, <1>6, <1>7, <1>8, <1>9
     DEF ServerStep, AdminStep

-----------------------------------------------------------------------------
(***************************************************************************)
(* Every step of every process keeps the invariant.                        *)
(***************************************************************************)
LEMMA NextProcessesInv ==
    ProcessesInv /\ [ProcessesNext]_<<processVars, storeVars>> => ProcessesInv'
<1>. SUFFICES ASSUME ProcessesInv, [ProcessesNext]_<<processVars, storeVars>>
              PROVE  ProcessesInv'
  OBVIOUS
<1>1. CASE UNCHANGED <<processVars, storeVars>>
  <2>1. StoreInv'
    BY <1>1, NextStoreInv DEF ProcessesInv
  <2>2. ProcessesTypeOK' /\ DataLockIsHeld' /\ DeletionsAreConfirmed'
    BY <1>1 DEF processVars, ProcessesInv, ProcessesTypeOK, DataLockIsHeld,
                DeletionsAreConfirmed
  <2>3. RowsWereDrawn' /\ PagesAreTrue'
    BY <1>1 DEF processVars, storeVars, ProcessesInv, RowsWereDrawn,
                PagesAreTrue, StillTrue, Rows, LiveUsers, Allocated
  <2>. QED
    BY <2>1, <2>2, <2>3 DEF ProcessesInv
<1>2. CASE ProcessesNext
  <2>. PICK p \in Pids : ServerStep(p) \/ AdminStep(p) \/ Killed(p)
    BY <1>2 DEF ProcessesNext
  <2>1. StoreMove
    BY StepIsAMove
  <2>2. StoreInv' /\ RowsWereDrawn'
    BY <2>1, StoreMoveIsAStep, NextStoreInv, StoreMoves DEF ProcessesInv
  <2>. QED
    BY <2>2, StepKeepsTypes, StepKeepsTheLock, StepKeepsPages,
       StepKeepsConfirmations DEF ProcessesInv
<1>. QED
  BY <1>1, <1>2

(***************************************************************************)
(* The type invariant of the processes and of the database they share.     *)
(***************************************************************************)
THEOREM ProcessesTypeCorrect ==
    ProcessesSpec => [](StoreTypeOK /\ ProcessesTypeOK)
<1>1. ProcessesInv => StoreTypeOK /\ ProcessesTypeOK
  BY DEF ProcessesInv, StoreInv
<1>. QED
  BY <1>1, InitProcessesInv, NextProcessesInv, PTL DEF ProcessesSpec

(***************************************************************************)
(* At most one process writes to a data root and its database, however     *)
(* many are started, whichever are killed and whatever the pid file says.  *)
(***************************************************************************)
THEOREM OneWriterAtATime == ProcessesSpec => []OneWriter
<1>1. ProcessesInv => OneWriter
  BY DEF ProcessesInv, DataLockIsHeld, OneWriter, Writers
<1>. QED
  BY <1>1, InitProcessesInv, NextProcessesInv, PTL DEF ProcessesSpec

(***************************************************************************)
(* Servers and tool together implement the store: all its theorems hold of *)
(* the database they share.                                                *)
(***************************************************************************)
THEOREM ProcessesImplementStore == ProcessesSpec => StoreSpec
<1>1. ProcessesInv /\ [ProcessesNext]_<<processVars, storeVars>>
        => [StoreNext]_storeVars
  BY StepIsAMove, StoreMoveIsAStep DEF ProcessesNext
<1>. QED
  BY <1>1, InitProcessesInv, NextProcessesInv, PTL DEF ProcessesSpec, StoreSpec

(***************************************************************************)
(* A confirmed deletion takes the account or the snapshot the operator had *)
(* before him, whatever became of the name in the meantime.                *)
(***************************************************************************)
THEOREM DeletionsTakeWhatWasSeen == ProcessesSpec => OperatorDeletesWhatHeSaw
<1>. DEFINE Takes ==
       \A p \in Pids :
         at[p] = "delete" /\ at'[p] = "gone" =>
           LET page == typed[p].page
           IN /\ \A u \in LiveUsers :
                   username'[u] = NoName => page = [user |-> u, name |-> username[u],
                                                    snapshot |-> NoRow]
              /\ \A s \in Rows :
                   snapshots'[s] = NoRow /\ snapshots[s].user \in LiveUsers'
                     => page.user = snapshots[s].user /\ page.snapshot = s
<1>1. ProcessesInv /\ [ProcessesNext]_<<processVars, storeVars>>
        => [Takes]_<<processVars, storeVars>>
  <2>. SUFFICES ASSUME ProcessesInv, ProcessesNext,
                       NEW p \in Pids, at[p] = "delete", at'[p] = "gone"
                PROVE  /\ \A u \in LiveUsers : username'[u] = NoName =>
                            typed[p].page = [user |-> u, name |-> username[u],
                                             snapshot |-> NoRow]
                       /\ \A s \in Rows :
                            snapshots'[s] = NoRow /\ snapshots[s].user \in LiveUsers'
                              => /\ typed[p].page.user = snapshots[s].user
                                 /\ typed[p].page.snapshot = s
    OBVIOUS
  <2>. USE DEF ProcessesInv, ProcessesTypeOK, StoreInv, StoreTypeOK
  <2>1. Delete(p) \/ UNCHANGED storeVars
    <3>1. PICK q \in Pids : ServerStep(q) \/ AdminStep(q) \/ Killed(q)
      BY DEF ProcessesNext
    <3>2. CASE Delete(q)
      BY <3>2 DEF Delete, Exits, Goes
    <3>3. CASE Serve(q)
      BY <3>3 DEF Serve
    <3>4. CASE ~Delete(q) /\ ~Serve(q)
      BY <3>1, <3>4
         DEF ServerStep, AdminStep, Killed, StartServer, CheckPid, WritePid,
         RemovePid, ConfigureFails, AcquireDataLock, OpenDatabase,
         EnsureSchema, OpenListener, StartFails, StopServer, StartQuery, Probe,
         ProbeEnds, ListUsers, ShowUser, AcquireDestructiveLock, OpenAll,
         Resolve
    <3>. QED
      BY <3>2, <3>3, <3>4
  <2>2. /\ typed[p] # Nothing /\ typed[p].page \in Pages
        /\ StillTrue(typed[p].page)
    BY DEF DeletionsAreConfirmed, Deletions, PagesAreTrue
  <2>3. IsOfAnAccount(typed[p]) => found[p] = typed[p].page.user
    BY DEF DeletionsAreConfirmed
  <2>4. CASE UNCHANGED storeVars
    BY <2>4 DEF storeVars, LiveUsers, Rows
  <2>5. CASE IsOfAnAccount(typed[p]) /\ DeleteUser(found[p])
    <3>1. /\ username' = [username EXCEPT ![found[p]] = NoName]
          /\ snapshots' = [s \in SnapshotIds |->
                IF s \in RowsOf(found[p]) THEN NoRow ELSE snapshots[s]]
      BY <2>5 DEF DeleteUser
    <3>2. found[p] \notin LiveUsers'
      BY <3>1 DEF LiveUsers
    <3>3. ASSUME NEW u \in LiveUsers, username'[u] = NoName
          PROVE  typed[p].page = [user |-> u, name |-> username[u],
                                  snapshot |-> NoRow]
      <4>1. u = found[p]
        BY <3>1, <3>3 DEF LiveUsers
      <4>2. typed[p].page.snapshot = NoRow /\ typed[p].page.user = u
        BY <4>1, <2>3, <2>5 DEF IsOfAnAccount
      <4>3. typed[p].page.name = username[u]
        BY <4>2, <2>2 DEF StillTrue
      <4>. QED
        BY <4>2, <4>3, <2>2 DEF Pages
    <3>. QED
      BY <3>1, <3>2, <3>3 DEF RowsOf, Rows
  <2>6. CASE ~IsOfAnAccount(typed[p])
             /\ DeleteSnapshot(found[p], typed[p].page.snapshot)
    <3>1. /\ username' = username
          /\ snapshots' = [snapshots EXCEPT ![typed[p].page.snapshot] = NoRow]
          /\ typed[p].page.snapshot \in Rows
      BY <2>6 DEF DeleteSnapshot, DeleteSnapshotResult, FindSnapshot, RowsOf
    <3>. QED
      BY <3>1, <2>2 DEF LiveUsers, Rows, StillTrue
  <2>. QED
    BY <2>1, <2>4, <2>5, <2>6 DEF Delete
<1>. QED
  BY <1>1, InitProcessesInv, NextProcessesInv, PTL
     DEF ProcessesSpec, OperatorDeletesWhatHeSaw

-----------------------------------------------------------------------------
(* The machines of an account *)

USE ClientAssumption, SnapshotIdsAssumption, LimitsAssumption, NamesAssumption, NoRowAssumption

(***************************************************************************)
(* An archive, a job and what a job knows of the chain it follows.         *)
(***************************************************************************)
MadeArchives == [name : ArchiveNames, base : Nat, baseName : ArchiveNames \cup {NoArchive}]

JobSteps == {"idle", "chain", "fetch", "sidecars", "apply", "engine", "upload"}
Jobs == [step : JobSteps, restore : BOOLEAN, target : SnapshotIds \cup {NoParent},
         chain : Seq(SnapshotIds), names : Seq(ArchiveNames), fresh : Nat,
         parent : SnapshotIds \cup {NoParent}]

MachinesTyped ==
    /\ made \in Seq(MadeArchives) /\ Len(made) <= MaxArchives
    /\ \A a \in DOMAIN made : made[a].base \in 0..a - 1
    /\ bundle \in [SnapshotIds -> 0..Len(made)]
    /\ cache \in [Machines -> [Archives -> {"absent", "partial", "whole"}]]
    /\ index \in [Machines -> [SnapshotIds -> ArchiveNames \cup {NoArchive}]]
    /\ job \in [Machines -> Jobs]

(***************************************************************************)
(* No two archives have the same name, because no two were named in the    *)
(* same second.                                                            *)
(***************************************************************************)
NamesDiffer == \A a, b \in DOMAIN made : Name(a)[1] = Name(b)[1] => a = b

(***************************************************************************)
(* A name is the one of the archive uploaded as s.                         *)
(***************************************************************************)
Holds(s, name) == bundle[s] # 0 /\ name = Name(bundle[s])

IndexInv ==
    \A m \in Machines, s \in SnapshotIds :
      index[m][s] # NoArchive => Holds(s, index[m][s])

JobHolds(j) ==
    /\ j.step \in {"idle", "chain"} => j.chain = <<>> /\ j.names = <<>>
    /\ Len(j.names) <= Len(j.chain)
    /\ \A i \in DOMAIN j.chain : bundle[j.chain[i]] # 0
    /\ \A i \in DOMAIN j.names : Holds(j.chain[i], j.names[i])
    /\ j.step \in {"fetch", "sidecars"} => Len(j.names) < Len(j.chain)
    /\ j.step \in {"apply", "engine"} => Len(j.names) = Len(j.chain)
    /\ j.chain # <<>> => j.target = j.chain[Len(j.chain)]

JobsInv == \A m \in Machines : JobHolds(job[m])

(***************************************************************************)
(* What a job has made and not yet uploaded: nobody else uploads it, and   *)
(* its base is what the server has for the parent it will be given.        *)
(***************************************************************************)
Pending(m) == job[m].step = "upload"
Uploads(m) ==
    /\ job[m].fresh \in DOMAIN made
    /\ \A s \in SnapshotIds : bundle[s] # job[m].fresh
    /\ made[job[m].fresh].base =
         IF job[m].parent = NoParent THEN 0 ELSE bundle[job[m].parent]
    /\ job[m].parent # NoParent => bundle[job[m].parent] # 0

PendingInv ==
    /\ \A m \in Machines : Pending(m) => Uploads(m)
    /\ \A m, other \in Machines :
         Pending(m) /\ Pending(other) /\ job[m].fresh = job[other].fresh => m = other

RowsInv ==
    /\ \A s \in Rows : bundle[s] # 0 /\ snapshots[s].user = Account
    /\ RowsLinkTheirArchives

ClientInv ==
    /\ StoreInv /\ MachinesTyped
    /\ NamesDiffer /\ IndexInv /\ PendingInv /\ RowsInv
    /\ JobsInv

-----------------------------------------------------------------------------
(* The chain of a snapshot *)

LEMMA LeastNumber ==
    ASSUME NEW T \in SUBSET Nat, T # {}
    PROVE  \E x \in T : \A y \in T : x <= y
  <1>1. PICK x \in T : \A y \in T : ~(<<y, x>> \in OpToRel(<, Nat))
    BY NatLessThanWellFounded, WFMin
  <1>r. PICK R : R = {ss \in Nat \X Nat : ss[1] < ss[2]}
    OBVIOUS
  <1>2. R = OpToRel(<, Nat)
    BY <1>r DEF OpToRel
  <1>3. \A y \in T : ~(<<y, x>> \in R)
    BY <1>1, <1>2
  <1>4. \A y \in T : ~(y < x)
    BY <1>3, <1>r
  <1> QED
    BY <1>4

LEMMA NatInduct ==
    ASSUME NEW S, 0 \in S, \A k \in Nat : k \in S => k + 1 \in S
    PROVE  Nat \subseteq S
  <1> SUFFICES ASSUME Nat \ S # {} PROVE FALSE
    OBVIOUS
  <1>1. PICK x \in Nat \ S : \A y \in Nat \ S : x <= y
    <2>1. Nat \ S \in SUBSET Nat
      OBVIOUS
    <2> QED
      BY <2>1, LeastNumber
  <1>2. x # 0 /\ x - 1 \in Nat
    BY <1>1
  <1>3. x - 1 \in S
    BY <1>1, <1>2
  <1> QED
    BY <1>1, <1>2, <1>3

(***************************************************************************)
(* The walk from s to the parents, so many steps of it.                    *)
(***************************************************************************)
UpIs(f, s, N) ==
    f = [d \in 0..N |-> IF d = 0 THEN s ELSE snapshots[f[d - 1]].parent]
Up(s, N) == CHOOSE f : UpIs(f, s, N)

LEMMA UpExists == ASSUME NEW s, NEW N \in Nat PROVE UpIs(Up(s, N), s, N)
  <1>s. PICK S : S = {k \in Nat : \E f : UpIs(f, s, k)}
    OBVIOUS
  <1>1. 0 \in S
    <2>1. UpIs([d \in 0..0 |-> s], s, 0)
      BY DEF UpIs
    <2>. QED
      BY <1>s, <2>1
  <1>2. ASSUME NEW k \in Nat, k \in S PROVE k + 1 \in S
    <2>f. PICK f : UpIs(f, s, k)
      BY <1>s, <1>2
    <2>g. PICK g : g = [d \in 0..k + 1 |-> IF d <= k THEN f[d] ELSE snapshots[f[k]].parent]
      OBVIOUS
    <2>1. \A d \in 0..k : g[d] = f[d]
      BY <2>g
    <2>2. \A d \in 0..k : f[d] = IF d = 0 THEN s ELSE snapshots[f[d - 1]].parent
      BY <2>f DEF UpIs
    <2>h. PICK h : h = [d \in 0..k + 1 |-> IF d = 0 THEN s ELSE snapshots[g[d - 1]].parent]
      OBVIOUS
    <2>3. ASSUME NEW d \in 0..k + 1 PROVE g[d] = h[d]
      <3>h. h[d] = IF d = 0 THEN s ELSE snapshots[g[d - 1]].parent
        BY <2>h
      <3>1. CASE d = 0
        BY <2>1, <2>2, <3>1, <3>h
      <3>2. CASE d # 0 /\ d <= k
        <4>1. d - 1 \in 0..k /\ d \in 0..k
          BY <3>2
        <4>. QED
          BY <3>2, <3>h, <4>1, <2>1, <2>2
      <3>3. CASE d = k + 1
        <4>1. d - 1 = k /\ k \in 0..k /\ d # 0 /\ ~(d <= k)
          BY <3>3
        <4>2. g[d] = snapshots[f[k]].parent
          BY <4>1, <2>g
        <4>. QED
          BY <3>h, <4>1, <4>2, <2>1
      <3>. QED
        BY <3>1, <3>2, <3>3
    <2>4. g = h
      BY <2>g, <2>h, <2>3
    <2>5. UpIs(g, s, k + 1)
      BY <2>4, <2>h DEF UpIs
    <2>. QED
      BY <1>s, <2>5
  <1>3. N \in S
    BY <1>1, <1>2, NatInduct
  <1>. QED
    BY <1>s, <1>3 DEF Up

(***************************************************************************)
(* Going up from a recorded snapshot leads to recorded ones, each a        *)
(* generation older.                                                       *)
(***************************************************************************)
LEMMA UpStaysInRows ==
    ASSUME StoreInv, NEW s \in Rows, NEW f, UpIs(f, s, MaxChainGeneration)
    PROVE  \A d \in 0..snapshots[s].generation :
             f[d] \in Rows /\ snapshots[f[d]].generation = snapshots[s].generation - d
  <1>t. /\ Rows \subseteq SnapshotIds /\ \A t \in Rows : snapshots[t] \in Row
        /\ snapshots[s].generation \in 0..MaxChainGeneration
        /\ \A t \in Rows : snapshots[t].generation # 0 =>
             /\ snapshots[t].parent \in Rows
             /\ snapshots[snapshots[t].parent].generation + 1 = snapshots[t].generation
    <2>1. Rows \subseteq SnapshotIds /\ \A t \in Rows : snapshots[t] \in Row
      BY RowsTyped DEF StoreInv
    <2>2. \A t \in Rows : snapshots[t].generation \in Nat
      BY <2>1 DEF Row
    <2>3. ASSUME NEW t \in Rows
          PROVE  /\ snapshots[t].generation \in 0..MaxChainGeneration
                 /\ snapshots[t].generation # 0 =>
                      /\ snapshots[t].parent \in Rows
                      /\ snapshots[snapshots[t].parent].generation + 1 = snapshots[t].generation
      BY <2>1, <2>2 DEF StoreInv, ChainsResolve
    <2>. QED
      BY <2>1, <2>3
  <1>g. PICK g \in Nat : g = snapshots[s].generation
    BY <1>t
  <1>f. \A d \in 0..MaxChainGeneration :
          f[d] = IF d = 0 THEN s ELSE snapshots[f[d - 1]].parent
    BY DEF UpIs
  <1>s. PICK S : S = {d \in Nat : d <= g =>
                        f[d] \in Rows /\ snapshots[f[d]].generation = g - d}
    OBVIOUS
  <1>1. 0 \in S
    <2>1. f[0] = s
      BY <1>f
    <2>. QED
      BY <1>s, <1>g, <2>1
  <1>2. ASSUME NEW d \in Nat, d \in S PROVE d + 1 \in S
    <2>1. SUFFICES ASSUME d + 1 <= g
                   PROVE  f[d + 1] \in Rows /\ snapshots[f[d + 1]].generation = g - (d + 1)
      BY <1>s
    <2>2. f[d] \in Rows /\ snapshots[f[d]].generation = g - d /\ g - d # 0
      BY <1>s, <1>2, <2>1
    <2>3. f[d + 1] = snapshots[f[d]].parent
      <3>1. d + 1 \in 0..MaxChainGeneration /\ d + 1 # 0 /\ d + 1 - 1 = d
        BY <1>t, <1>g, <2>1
      <3>. QED
        BY <1>f, <3>1
    <2>4. snapshots[f[d]].parent \in Rows
          /\ snapshots[snapshots[f[d]].parent].generation + 1 = snapshots[f[d]].generation
      BY <1>t, <2>2
    <2>5. snapshots[f[d + 1]].generation \in Nat
      BY <1>t, <2>3, <2>4 DEF Row
    <2>. QED
      BY <2>2, <2>3, <2>4, <2>5
  <1>3. Nat \subseteq S
    BY <1>1, <1>2, NatInduct
  <1>. QED
    BY <1>3, <1>s, <1>g

(***************************************************************************)
(* ResolveRemoteChain ends with the snapshot it was asked for, and every   *)
(* snapshot of it is on record.                                            *)
(***************************************************************************)
LEMMA ChainOfRows ==
    ASSUME StoreInv, NEW s \in Rows
    PROVE  /\ ChainTo[s] \in Seq(Rows) /\ ChainTo[s] # <<>>
           /\ ChainTo[s][Len(ChainTo[s])] = s
  <1>1. PICK f : UpIs(f, s, MaxChainGeneration) /\ f = Up(s, MaxChainGeneration)
    BY UpExists
  <1>2. PICK g \in Nat : g = snapshots[s].generation
    <2>1. snapshots[s] \in Row
      BY RowsTyped DEF StoreInv
    <2>. QED
      BY <2>1 DEF Row
  <1>3. ChainTo[s] = [i \in 1..g + 1 |-> f[g + 1 - i]]
    <2>1. s \in SnapshotIds
      BY RowsTyped DEF StoreInv
    <2>2. ChainTo[s] = [i \in 1..snapshots[s].generation + 1 |->
                          Up(s, MaxChainGeneration)[snapshots[s].generation + 1 - i]]
      BY <2>1, Zenon DEF ChainTo, Up, UpIs
    <2>. QED
      BY <1>1, <1>2, <2>2
  <1>4. \A d \in 0..g : f[d] \in Rows
    BY <1>1, <1>2, UpStaysInRows
  <1>5. f[0] = s
    BY <1>1 DEF UpIs
  <1>6. \A i \in 1..g + 1 : g + 1 - i \in 0..g
    BY <1>2
  <1>7. PICK c : c = ChainTo[s]
    OBVIOUS
  <1>8. c \in [1..g + 1 -> Rows] /\ g + 1 \in Nat /\ c[g + 1] = s
    BY <1>3, <1>4, <1>5, <1>6, <1>7
  <1>9. c \in Seq(Rows) /\ Len(c) = g + 1
    BY <1>8
  <1>. QED
    BY <1>7, <1>8, <1>9

-----------------------------------------------------------------------------
(* What a job knows stays true *)

LEMMA NameTyped == ASSUME MachinesTyped, NEW a \in DOMAIN made
                   PROVE  Name(a) \in ArchiveNames /\ made[a] \in MadeArchives
                          /\ a \in 1..Len(made) /\ made[a].base \in Nat
  <1>1. made \in Seq(MadeArchives) /\ a \in DOMAIN made
    BY DEF MachinesTyped
  <1>2. made[a] \in MadeArchives /\ a \in 1..Len(made)
    BY <1>1
  <1>. QED
    BY <1>2 DEF Name, MadeArchives

LEMMA NoArchiveIsNoName == NoArchive \notin ArchiveNames
  BY DEF NoArchive, ArchiveNames

(***************************************************************************)
(* Archives and bundles are only added.                                    *)
(***************************************************************************)
Grows ==
    /\ \A a \in DOMAIN made : a \in DOMAIN made' /\ made'[a] = made[a]
    /\ \A s \in SnapshotIds : bundle[s] # 0 => bundle'[s] = bundle[s]

LEMMA HoldsOn ==
    ASSUME MachinesTyped, Grows
    PROVE  \A s \in SnapshotIds : \A name : Holds(s, name) => Holds(s, name)'
  <1>1. ASSUME NEW s \in SnapshotIds, bundle[s] # 0
        PROVE  bundle[s] \in DOMAIN made /\ bundle'[s] # 0 /\ Name(bundle[s])' = Name(bundle[s])
    BY <1>1 DEF MachinesTyped, Grows, Name
  <1>. QED
    BY <1>1 DEF Holds, Grows, Name

LEMMA JobHoldsOn ==
    ASSUME MachinesTyped, Grows
    PROVE  \A j \in Jobs : JobHolds(j) => JobHolds(j)'
  <1>1. ASSUME NEW CONSTANT j \in Jobs, JobHolds(j) PROVE JobHolds(j)'
    <2>1. /\ j.chain \in Seq(SnapshotIds) /\ j.names \in Seq(ArchiveNames)
          /\ Len(j.names) <= Len(j.chain)
      BY <1>1 DEF Jobs, JobHolds
    <2>2. \A i \in DOMAIN j.chain : j.chain[i] \in SnapshotIds
      BY <2>1
    <2>3. \A i \in DOMAIN j.names : i \in DOMAIN j.chain
      BY <2>1
    <2>4. \A i \in DOMAIN j.chain : bundle'[j.chain[i]] # 0
      BY <1>1, <2>2 DEF JobHolds, Grows
    <2>5. \A i \in DOMAIN j.names : Holds(j.chain[i], j.names[i])'
      BY <1>1, <2>2, <2>3, HoldsOn DEF JobHolds
    <2>. QED
      BY <1>1, <2>4, <2>5 DEF JobHolds
  <1>. QED
    BY <1>1

LEMMA NoJobHolds == NoJob \in Jobs /\ NoJob.step = "idle" /\ JobHolds(NoJob) /\ JobHolds(NoJob)'
  <1>1. /\ NoJob \in Jobs /\ NoJob.step = "idle" /\ NoJob.chain = <<>> /\ NoJob.names = <<>>
        /\ NoJob.fresh = 0 /\ NoJob.parent = NoParent
    BY DEF NoJob, Jobs, JobSteps
  <1>. QED
    BY <1>1 DEF JobHolds

(***************************************************************************)
(* A job is taken on to where it has not made an archive.                  *)
(***************************************************************************)
Becomes(m, j) == job' = [job EXCEPT ![m] = j]

LEMMA OneJobChanges ==
    ASSUME ClientInv, Grows, NEW m \in Machines, NEW j \in Jobs, Becomes(m, j), JobHolds(j)
    PROVE  /\ job' \in [Machines -> Jobs]
           /\ job'[m] = j /\ \A other \in Machines \ {m} : job'[other] = job[other]
           /\ JobsInv'
  <1>1. MachinesTyped
    BY DEF ClientInv
  <1>2. /\ job' \in [Machines -> Jobs]
        /\ job'[m] = j /\ \A other \in Machines \ {m} : job'[other] = job[other]
    BY <1>1 DEF Becomes, MachinesTyped
  <1>3. \A other \in Machines : job'[other] \in Jobs /\ JobHolds(job'[other])
    BY <1>1, <1>2 DEF ClientInv, JobsInv, MachinesTyped
  <1>4. ASSUME NEW CONSTANT other \in Machines PROVE JobHolds(job[other])'
    <2>1. PICK k \in Jobs : k = job'[other] /\ JobHolds(k)
      BY <1>3
    <2>2. JobHolds(k)'
      BY <1>1, <2>1, JobHoldsOn
    <2>. QED
      BY <2>1, <2>2 DEF JobHolds, Holds
  <1>. QED
    BY <1>2, <1>4 DEF JobsInv

(***************************************************************************)
(* A step that changes one job, and perhaps the cache and the index of its *)
(* machine, keeps the invariant.                                           *)
(***************************************************************************)
LEMMA JobMoves ==
    ASSUME ClientInv, NEW m \in Machines, NEW j \in Jobs, Becomes(m, j), JobHolds(j),
           j.step # "upload", UNCHANGED <<storeVars, made, bundle>>,
           cache' \in [Machines -> [Archives -> {"absent", "partial", "whole"}]],
           UNCHANGED index
             \/ \E s \in SnapshotIds : \E name \in ArchiveNames :
                  Holds(s, name) /\ Remember(m, s, name)
    PROVE  ClientInv'
  <1>1. Grows
    BY DEF Grows
  <1>2. /\ job' \in [Machines -> Jobs]
        /\ job'[m] = j /\ \A other \in Machines \ {m} : job'[other] = job[other]
        /\ JobsInv'
    BY <1>1, OneJobChanges
  <1>3. UNCHANGED <<username, deletedUsers, snapshots, now, made, bundle>> /\ Rows' = Rows
    BY DEF storeVars, Rows
  <1>4. StoreInv'
    BY NextStoreInv DEF ClientInv
  <1>5. index' \in [Machines -> [SnapshotIds -> ArchiveNames \cup {NoArchive}]] /\ IndexInv'
    <2>1. CASE UNCHANGED index
      BY <1>3, <2>1 DEF ClientInv, MachinesTyped, IndexInv, Holds, Name
    <2>2. ASSUME NEW s \in SnapshotIds, NEW name \in ArchiveNames,
                 Holds(s, name) /\ Remember(m, s, name)
          PROVE  index' \in [Machines -> [SnapshotIds -> ArchiveNames \cup {NoArchive}]] /\ IndexInv'
      <3>1. PICK saved \in {name, index[m][s]} : index' = [index EXCEPT ![m][s] = saved]
        BY <2>2 DEF Remember
      <3>2. index \in [Machines -> [SnapshotIds -> ArchiveNames \cup {NoArchive}]]
        BY DEF ClientInv, MachinesTyped
      <3>3. saved \in ArchiveNames \cup {NoArchive} /\ (saved # NoArchive => Holds(s, saved))
        BY <2>2, <3>2 DEF ClientInv, IndexInv
      <3>4. index' \in [Machines -> [SnapshotIds -> ArchiveNames \cup {NoArchive}]]
        BY <3>1, <3>2, <3>3
      <3>5. \A n \in Machines, t \in SnapshotIds :
              index'[n][t] = IF n = m /\ t = s THEN saved ELSE index[n][t]
        BY <3>1, <3>2
      <3>6. \A n \in Machines, t \in SnapshotIds :
              index'[n][t] # NoArchive => Holds(t, index'[n][t])
        BY <3>3, <3>5 DEF ClientInv, IndexInv
      <3>7. IndexInv'
        BY <1>3, <3>6 DEF IndexInv, Holds, Name
      <3>. QED
        BY <3>4, <3>7
    <2>. QED
      BY <2>1, <2>2
  <1>6. MachinesTyped'
    BY <1>2, <1>3, <1>5 DEF ClientInv, MachinesTyped
  <1>7. NamesDiffer' /\ RowsInv'
    BY <1>3 DEF ClientInv, NamesDiffer, Name, RowsInv, RowsLinkTheirArchives, RecordedOnce
  <1>8. PendingInv'
    <2>1. \A other \in Machines : Pending(other)' => other # m /\ Pending(other) /\ job'[other] = job[other]
      BY <1>2 DEF Pending
    <2>2. \A other \in Machines : Pending(other)' => Uploads(other)'
      BY <1>3, <2>1 DEF ClientInv, PendingInv, Uploads
    <2>. QED
      BY <2>1, <2>2 DEF ClientInv, PendingInv
  <1>. QED
    BY <1>2, <1>4, <1>5, <1>6, <1>7, <1>8 DEF ClientInv

LEMMA JobEnds ==
    ASSUME ClientInv, NEW m \in Machines, GiveUp(m), UNCHANGED <<storeVars, made, bundle, index>>,
           cache' \in [Machines -> [Archives -> {"absent", "partial", "whole"}]]
    PROVE  ClientInv'
  <1>1. Becomes(m, NoJob)
    BY DEF GiveUp, Becomes
  <1>. QED
    BY <1>1, NoJobHolds, JobMoves

-----------------------------------------------------------------------------
(* The steps of a machine *)

LEMMA JobTyped ==
    ASSUME ClientInv, NEW m \in Machines
    PROVE  job[m] \in Jobs /\ JobHolds(job[m])
  BY DEF ClientInv, MachinesTyped, JobsInv

LEMMA RowsAreIds == ASSUME ClientInv
                    PROVE  Rows \subseteq SnapshotIds /\ \A s \in Rows : bundle[s] # 0
  BY RowsTyped DEF ClientInv, StoreInv, RowsInv

LEMMA StartBackupKeeps ==
    ASSUME ClientInv, NEW m \in Machines, NEW allowIncremental \in BOOLEAN,
           StartBackup(m, allowIncremental)
    PROVE  ClientInv'
  <1>1. job[m] \in Jobs /\ job[m].step = "idle" /\ job[m].chain = <<>> /\ job[m].names = <<>>
    BY JobTyped DEF StartBackup, At, JobHolds
  <1>2. cache' \in [Machines -> [Archives -> {"absent", "partial", "whole"}]]
        /\ UNCHANGED <<storeVars, made, bundle, index>>
    BY DEF StartBackup, ClientInv, MachinesTyped
  <1>3. CASE Goto(m, "engine")
    <2>1. PICK j : j = [job[m] EXCEPT !.step = "engine"]
      OBVIOUS
    <2>2. Becomes(m, j)
      BY <1>3, <2>1 DEF Goto, Becomes, ClientInv, MachinesTyped
    <2>3. j \in Jobs /\ j.step = "engine" /\ j.chain = <<>> /\ j.names = <<>>
      BY <1>1, <2>1 DEF Jobs, JobSteps
    <2>4. JobHolds(j)
      BY <2>3 DEF JobHolds
    <2>. QED
      BY <1>2, <2>2, <2>3, <2>4, JobMoves
  <1>4. ASSUME NEW s \in Heads,
               job' = [job EXCEPT ![m].step = "chain", ![m].target = s]
        PROVE  ClientInv'
    <2>1. PICK j : j = [job[m] EXCEPT !.step = "chain", !.target = s]
      OBVIOUS
    <2>2. Becomes(m, j)
      BY <1>4, <2>1 DEF Becomes, ClientInv, MachinesTyped
    <2>3. s \in SnapshotIds
      BY RowsAreIds DEF Heads, RowsOf
    <2>4. j \in Jobs /\ j.step = "chain" /\ j.chain = <<>> /\ j.names = <<>>
      BY <1>1, <2>1, <2>3 DEF Jobs, JobSteps
    <2>5. JobHolds(j)
      BY <2>4 DEF JobHolds
    <2>. QED
      BY <1>2, <2>2, <2>4, <2>5, JobMoves
  <1>. QED
    BY <1>3, <1>4 DEF StartBackup

(***************************************************************************)
(* A job that has resolved the chain of a recorded snapshot.               *)
(***************************************************************************)
LEMMA ChainResolved ==
    ASSUME ClientInv, NEW s \in Rows, NEW k \in Jobs, k.names = <<>>, k.target = s,
           NEW j, j = [k EXCEPT !.step = "fetch", !.chain = ChainTo[s]]
    PROVE  j \in Jobs /\ JobHolds(j) /\ j.step = "fetch"
  <1>1. PICK c : c = ChainTo[s]
    OBVIOUS
  <1>2. /\ c \in Seq(Rows) /\ c # <<>> /\ c[Len(c)] = s
        /\ \A t \in Rows : t \in SnapshotIds /\ bundle[t] # 0
    BY <1>1, ChainOfRows, RowsAreIds DEF ClientInv
  <1>3. c \in Seq(SnapshotIds) /\ 0 < Len(c) /\ \A i \in DOMAIN c : bundle[c[i]] # 0
    BY <1>2
  <1>4. /\ j \in Jobs /\ j.step = "fetch" /\ j.chain = c /\ j.names = <<>> /\ j.target = s
    BY <1>1, <1>3 DEF Jobs, JobSteps
  <1>. QED
    BY <1>2, <1>3, <1>4 DEF JobHolds

LEMMA ResolveChainKeeps ==
    ASSUME ClientInv, NEW m \in Machines, ResolveChain(m)
    PROVE  ClientInv'
  <1>1. job[m] \in Jobs /\ job[m].names = <<>>
    BY JobTyped DEF ResolveChain, At, JobHolds
  <1>2. cache' \in [Machines -> [Archives -> {"absent", "partial", "whole"}]]
        /\ UNCHANGED <<storeVars, made, bundle, index>>
    BY DEF ResolveChain, ClientInv, MachinesTyped
  <1>3. CASE GiveUp(m)
    BY <1>2, <1>3, JobEnds
  <1>4. CASE /\ job[m].target \in Rows
             /\ job' = [job EXCEPT ![m].step = "fetch", ![m].chain = ChainTo[job[m].target]]
    <2>1. PICK j : j = [job[m] EXCEPT !.step = "fetch", !.chain = ChainTo[job[m].target]]
      OBVIOUS
    <2>2. Becomes(m, j)
      BY <1>4, <2>1 DEF Becomes, ClientInv, MachinesTyped
    <2>. QED
      BY <1>1, <1>2, <1>4, <2>1, <2>2, ChainResolved, JobMoves
  <1>. QED
    BY <1>3, <1>4 DEF ResolveChain, FindSnapshot, RowsOf

LEMMA StartRestoreKeeps ==
    ASSUME ClientInv, NEW m \in Machines, NEW s \in Rows, StartRestore(m, s)
    PROVE  ClientInv'
  <1>1. job[m] \in Jobs /\ job[m].names = <<>>
    BY JobTyped DEF StartRestore, At, JobHolds
  <1>2. cache' \in [Machines -> [Archives -> {"absent", "partial", "whole"}]]
        /\ UNCHANGED <<storeVars, made, bundle, index>>
    BY DEF StartRestore, ClientInv, MachinesTyped
  <1>3. PICK k : k = [job[m] EXCEPT !.restore = TRUE, !.target = s]
    OBVIOUS
  <1>4. PICK j : j = [k EXCEPT !.step = "fetch", !.chain = ChainTo[s]]
    OBVIOUS
  <1>5. k \in Jobs /\ k.names = <<>> /\ k.target = s
    BY <1>1, <1>3, RowsAreIds DEF Jobs
  <1>6. Becomes(m, j)
    <2>1. job' = [job EXCEPT ![m].step = "fetch", ![m].restore = TRUE, ![m].target = s,
                          ![m].chain = ChainTo[s]]
      BY DEF StartRestore
    <2>2. j = [job[m] EXCEPT !.step = "fetch", !.restore = TRUE, !.target = s,
                             !.chain = ChainTo[s]]
      BY <1>1, <1>3, <1>4 DEF Jobs
    <2>. QED
      BY <2>1, <2>2 DEF Becomes, ClientInv, MachinesTyped
  <1>. QED
    BY <1>2, <1>4, <1>5, <1>6, ChainResolved, JobMoves

(***************************************************************************)
(* The hop a job is at is a snapshot that was uploaded.                    *)
(***************************************************************************)
LEMMA HopIsHeld ==
    ASSUME ClientInv, NEW m \in Machines, job[m].step \in {"fetch", "sidecars"}
    PROVE  /\ Hop(m) \in SnapshotIds /\ bundle[Hop(m)] \in DOMAIN made
           /\ Name(bundle[Hop(m)]) \in ArchiveNames
           /\ Holds(Hop(m), Name(bundle[Hop(m)]))
  <1>1. /\ job[m].chain \in Seq(SnapshotIds) /\ job[m].names \in Seq(ArchiveNames)
        /\ Len(job[m].names) < Len(job[m].chain)
        /\ \A i \in DOMAIN job[m].chain : bundle[job[m].chain[i]] # 0
    BY JobTyped DEF Jobs, JobHolds
  <1>2. Len(job[m].names) + 1 \in DOMAIN job[m].chain
    BY <1>1
  <1>3. Hop(m) \in SnapshotIds /\ bundle[Hop(m)] # 0
    BY <1>1, <1>2 DEF Hop
  <1>4. bundle[Hop(m)] \in DOMAIN made
    <2>1. bundle[Hop(m)] \in 0..Len(made) /\ made \in Seq(MadeArchives)
      BY <1>3 DEF ClientInv, MachinesTyped
    <2>. QED
      BY <1>3, <2>1
  <1>. QED
    BY <1>3, <1>4, NameTyped DEF ClientInv, Holds

LEMMA FetchedMoves ==
    ASSUME ClientInv, NEW m \in Machines, job[m].step \in {"fetch", "sidecars"},
           NEW name \in ArchiveNames, Holds(Hop(m), name), Fetched(m, name)
    PROVE  \E j \in Jobs : Becomes(m, j) /\ JobHolds(j) /\ j.step # "upload"
  <1>1. PICK names : names = Append(job[m].names, name)
    OBVIOUS
  <1>k. PICK k \in Jobs : k = job[m] /\ JobHolds(k)
    BY JobTyped
  <1>2. /\ k.chain \in Seq(SnapshotIds) /\ k.names \in Seq(ArchiveNames)
        /\ Len(k.names) < Len(k.chain)
    BY <1>k DEF Jobs, JobHolds
  <1>3. /\ names \in Seq(ArchiveNames) /\ Len(names) = Len(k.names) + 1
        /\ Len(names) <= Len(k.chain)
        /\ \A i \in DOMAIN names : i \in DOMAIN k.names \/ i = Len(k.names) + 1
        /\ \A i \in DOMAIN k.names : names[i] = k.names[i]
        /\ names[Len(k.names) + 1] = name
    <2>1. PICK before : before = k.names /\ before \in Seq(ArchiveNames)
      BY <1>2
    <2>2. names = Append(before, name)
      BY <1>1, <1>k, <2>1
    <2>3. /\ names \in Seq(ArchiveNames) /\ Len(names) = Len(before) + 1
          /\ \A i \in DOMAIN names : i \in DOMAIN before \/ i = Len(before) + 1
          /\ \A i \in DOMAIN before : names[i] = before[i]
          /\ names[Len(before) + 1] = name
      BY ONLY <2>1, <2>2, name \in ArchiveNames
    <2>4. Len(names) <= Len(k.chain)
      BY <1>2, <2>1, <2>3
    <2>. QED
      BY <2>1, <2>3, <2>4
  <1>4. \A i \in DOMAIN names : Holds(k.chain[i], names[i])
    <2>1. \A i \in DOMAIN k.names : Holds(k.chain[i], names[i])
      BY <1>3, <1>k DEF JobHolds
    <2>2. Holds(k.chain[Len(k.names) + 1], names[Len(k.names) + 1])
      BY <1>3, <1>k DEF Hop
    <2>. QED
      BY <1>3, <2>1, <2>2
  <1>5. /\ \A i \in DOMAIN k.chain : bundle[k.chain[i]] # 0
        /\ k.chain # <<>> => k.target = k.chain[Len(k.chain)]
    BY <1>k DEF JobHolds
  <1>6. ASSUME NEW step \in {"fetch", "apply", "engine"},
               job' = [job EXCEPT ![m].step = step, ![m].names = names],
               step = "fetch" => Len(names) < Len(k.chain),
               step # "fetch" => ~(Len(names) < Len(k.chain))
        PROVE  \E j \in Jobs : Becomes(m, j) /\ JobHolds(j) /\ j.step # "upload"
    <2>1. PICK j : j = [k EXCEPT !.step = step, !.names = names]
      OBVIOUS
    <2>2. Becomes(m, j)
      BY <1>6, <1>k, <2>1 DEF Becomes, ClientInv, MachinesTyped
    <2>3. /\ j \in Jobs /\ j.step = step /\ j.names = names /\ j.chain = k.chain
          /\ j.target = k.target
      BY <1>3, <2>1 DEF Jobs, JobSteps
    <2>4. JobHolds(j)
      <3>1. j.step \notin {"idle", "chain", "sidecars"}
        BY <2>3
      <3>2. j.step = "fetch" => Len(j.names) < Len(j.chain)
        BY <1>6, <2>3
      <3>3. j.step \in {"apply", "engine"} => Len(j.names) = Len(j.chain)
        <4>1. Len(names) \in Nat /\ Len(k.chain) \in Nat /\ Len(names) <= Len(k.chain)
          BY <1>2, <1>3
        <4>2. step # "fetch" => Len(names) = Len(k.chain)
          BY <1>6, <4>1
        <4>. QED
          BY <2>3, <4>2
      <3>4. /\ \A i \in DOMAIN j.chain : bundle[j.chain[i]] # 0
            /\ j.chain # <<>> => j.target = j.chain[Len(j.chain)]
        BY <1>5, <2>3
      <3>5. (\A i \in DOMAIN j.names : Holds(j.chain[i], j.names[i])) /\ Len(j.names) <= Len(j.chain)
        BY <1>3, <1>4, <2>3
      <3>. QED
        BY <3>1, <3>2, <3>3, <3>4, <3>5 DEF JobHolds
    <2>. QED
      BY <2>2, <2>3, <2>4
  <1>7. CASE GiveUp(m)
    BY <1>7, NoJobHolds DEF GiveUp, Becomes
  <1>8. \/ Len(names) < Len(k.chain) /\ job' = [job EXCEPT ![m].step = "fetch", ![m].names = names]
        \/ /\ ~(Len(names) < Len(k.chain))
           /\ job' = [job EXCEPT ![m].step = IF job[m].restore THEN "apply" ELSE "engine",
                                 ![m].names = names]
        \/ GiveUp(m)
    BY <1>1, <1>k DEF Fetched
  <1>9. (IF job[m].restore THEN "apply" ELSE "engine") \in {"apply", "engine"}
    OBVIOUS
  <1>. QED
    BY <1>6, <1>7, <1>8, <1>9

LEMMA CacheHitKeeps ==
    ASSUME ClientInv, NEW m \in Machines, CacheHit(m)
    PROVE  ClientInv'
  <1>1. job[m].step \in {"fetch", "sidecars"} /\ UNCHANGED <<storeVars, made, bundle, cache, index>>
    BY DEF CacheHit, At
  <1>2. PICK name : name = index[m][Hop(m)]
    OBVIOUS
  <1>3. PICK a \in DOMAIN made : Name(a) = name
    BY <1>2 DEF CacheHit, CacheHasVerifiedArchive, Under, Present
  <1>4. name \in ArchiveNames /\ name # NoArchive
    BY <1>3, NameTyped, NoArchiveIsNoName DEF ClientInv
  <1>5. Holds(Hop(m), name)
    BY <1>1, <1>2, <1>4, HopIsHeld DEF ClientInv, IndexInv
  <1>6. \E j \in Jobs : Becomes(m, j) /\ JobHolds(j) /\ j.step # "upload"
    BY <1>1, <1>2, <1>4, <1>5, FetchedMoves DEF CacheHit
  <1>. QED
    BY <1>1, <1>6, JobMoves DEF ClientInv, MachinesTyped

LEMMA DownloadKeeps ==
    ASSUME ClientInv, NEW m \in Machines, Download(m)
    PROVE  ClientInv'
  <1>1. job[m].step \in {"fetch", "sidecars"} /\ UNCHANGED <<storeVars, made, bundle>>
    BY DEF Download, At
  <1>2. PICK a, name : a = bundle[Hop(m)] /\ name = Name(a)
    OBVIOUS
  <1>3. Hop(m) \in SnapshotIds /\ name \in ArchiveNames /\ Holds(Hop(m), name)
    BY <1>1, <1>2, HopIsHeld
  <1>4. cache \in [Machines -> [Archives -> {"absent", "partial", "whole"}]]
    BY DEF ClientInv, MachinesTyped
  <1>5. CASE GiveUp(m) /\ UNCHANGED <<cache, index>>
    BY <1>1, <1>4, <1>5, JobEnds
  <1>6. CASE cache' = [cache EXCEPT ![m][a] = "partial"] /\ Goto(m, "sidecars") /\ UNCHANGED index
    <2>1. PICK k \in Jobs : k = job[m] /\ JobHolds(k)
      BY JobTyped
    <2>2. PICK j : j = [k EXCEPT !.step = "sidecars"]
      OBVIOUS
    <2>3. Becomes(m, j)
      BY <1>6, <2>1, <2>2 DEF Goto, Becomes, ClientInv, MachinesTyped
    <2>4. /\ j \in Jobs /\ j.step = "sidecars" /\ j.names = k.names /\ j.chain = k.chain
          /\ j.target = k.target
      BY <2>1, <2>2 DEF Jobs, JobSteps
    <2>5. JobHolds(j)
      BY <1>1, <2>1, <2>4 DEF JobHolds
    <2>6. cache' \in [Machines -> [Archives -> {"absent", "partial", "whole"}]]
      BY <1>4, <1>6
    <2>. QED
      BY <1>1, <1>6, <2>3, <2>4, <2>5, <2>6, JobMoves
  <1>7. CASE Remember(m, Hop(m), name) /\ Fetched(m, name) /\ UNCHANGED cache
    <2>1. \E j \in Jobs : Becomes(m, j) /\ JobHolds(j) /\ j.step # "upload"
      BY <1>1, <1>3, <1>7, FetchedMoves
    <2>. QED
      BY <1>1, <1>3, <1>4, <1>7, <2>1, JobMoves
  <1>. QED
    BY <1>2, <1>5, <1>6, <1>7 DEF Download

LEMMA PublishSidecarsKeeps ==
    ASSUME ClientInv, NEW m \in Machines, PublishSidecars(m)
    PROVE  ClientInv'
  <1>1. job[m].step \in {"fetch", "sidecars"} /\ UNCHANGED <<storeVars, made, bundle>>
    BY DEF PublishSidecars, At
  <1>2. PICK a, name : a = bundle[Hop(m)] /\ name = Name(a)
    OBVIOUS
  <1>3. Hop(m) \in SnapshotIds /\ name \in ArchiveNames /\ Holds(Hop(m), name)
    BY <1>1, <1>2, HopIsHeld
  <1>4. cache' \in [Machines -> [Archives -> {"absent", "partial", "whole"}]]
    <2>1. cache \in [Machines -> [Archives -> {"absent", "partial", "whole"}]]
      BY DEF ClientInv, MachinesTyped
    <2>2. cache' = [cache EXCEPT ![m][a] = "whole"] \/ cache' = [cache EXCEPT ![m][a] = "absent"]
      BY <1>2 DEF PublishSidecars
    <2>. QED
      BY <2>1, <2>2
  <1>5. CASE GiveUp(m) /\ UNCHANGED index
    BY <1>1, <1>4, <1>5, JobEnds
  <1>6. CASE Remember(m, Hop(m), name) /\ Fetched(m, name)
    <2>1. \E j \in Jobs : Becomes(m, j) /\ JobHolds(j) /\ j.step # "upload"
      BY <1>1, <1>3, <1>6, FetchedMoves
    <2>. QED
      BY <1>1, <1>3, <1>4, <1>6, <2>1, JobMoves
  <1>. QED
    BY <1>2, <1>5, <1>6 DEF PublishSidecars

(***************************************************************************)
(* The engine makes an archive whose name no other has, on what the cache  *)
(* has under the name of the target: the archive uploaded as the target.   *)
(***************************************************************************)
LEMMA BaseIsTheTargets ==
    ASSUME ClientInv, NEW m \in Machines, At(m, "engine"),
           NEW base \in Under(m, BaselineName(m))
    PROVE  /\ job[m].target \in SnapshotIds /\ bundle[job[m].target] = base
           /\ base \in DOMAIN made /\ BaselineName(m) \in ArchiveNames
  <1>k. PICK k \in Jobs : k = job[m] /\ JobHolds(k) /\ k.step = "engine"
    BY JobTyped DEF At
  <1>1. /\ k.chain \in Seq(SnapshotIds) /\ k.names \in Seq(ArchiveNames)
        /\ Len(k.names) = Len(k.chain)
    BY <1>k DEF Jobs, JobHolds
  <1>2. base \in DOMAIN made /\ Name(base) = BaselineName(m)
    BY DEF Under, Present
  <1>3. Name(base) \in ArchiveNames
    BY <1>2, NameTyped DEF ClientInv
  <1>4. k.names # <<>> /\ BaselineName(m) = k.names[Len(k.names)]
    BY <1>2, <1>3, <1>k, NoArchiveIsNoName DEF BaselineName
  <1>5. PICK n \in Nat : n = Len(k.names) /\ n \in DOMAIN k.names /\ n \in DOMAIN k.chain
    BY <1>1, <1>4
  <1>6. /\ k.chain[n] \in SnapshotIds /\ k.target = k.chain[n] /\ Holds(k.chain[n], k.names[n])
    BY <1>1, <1>4, <1>5, <1>k DEF JobHolds
  <1>7. bundle[k.chain[n]] \in 0..Len(made) /\ made \in Seq(MadeArchives)
    BY <1>6 DEF ClientInv, MachinesTyped
  <1>8. bundle[k.chain[n]] \in DOMAIN made /\ Name(bundle[k.chain[n]]) = Name(base)
    BY <1>2, <1>4, <1>5, <1>6, <1>7 DEF Holds
  <1>9. bundle[k.chain[n]] = base
    BY <1>2, <1>8 DEF ClientInv, NamesDiffer
  <1>. QED
    BY <1>2, <1>3, <1>6, <1>9, <1>k

LEMMA EngineKeeps ==
    ASSUME ClientInv, ~SameSecond, NEW m \in Machines, Engine(m)
    PROVE  ClientInv'
  <1>1. PICK base \in {0} \cup {a \in Under(m, BaselineName(m)) : cache[m][a] = "whole"} :
          /\ made' = Append(made, [name |-> NewName(m), base |-> base,
                                  baseName |-> IF base = 0 THEN NoArchive ELSE BaselineName(m)])
          /\ job' = [job EXCEPT ![m] = [NoJob EXCEPT
                      !.step = "upload", !.fresh = Len(made) + 1,
                      !.parent = IF base = 0 THEN NoParent ELSE job[m].target]]
    BY DEF Engine
  <1>2. /\ At(m, "engine") /\ Len(made) < MaxArchives /\ NewName(m) \in ArchiveNames
        /\ \A a \in DOMAIN made : Name(a)[1] # now
        /\ UNCHANGED <<storeVars, bundle, index>>
        /\ cache' = [cache EXCEPT ![m][Len(made) + 1] = "whole"]
    BY DEF Engine, NameMayBeTaken
  <1>t. /\ made \in Seq(MadeArchives) /\ bundle \in [SnapshotIds -> 0..Len(made)]
        /\ \A a \in DOMAIN made : made[a].base \in 0..a - 1
        /\ cache \in [Machines -> [Archives -> {"absent", "partial", "whole"}]]
        /\ index \in [Machines -> [SnapshotIds -> ArchiveNames \cup {NoArchive}]]
    BY DEF ClientInv, MachinesTyped
  <1>b. /\ base \in 0..Len(made)
        /\ base # 0 => /\ job[m].target \in SnapshotIds /\ bundle[job[m].target] = base
                       /\ BaselineName(m) \in ArchiveNames
    <2>1. CASE base = 0
      BY <1>t, <2>1
    <2>2. CASE base \in Under(m, BaselineName(m))
      BY <1>2, <1>t, <2>2, BaseIsTheTargets
    <2>. QED
      BY <1>1, <2>1, <2>2
  <1>n. PICK n \in Nat : n = Len(made) + 1
    BY <1>t
  <1>r. PICK r : r = [name |-> NewName(m), base |-> base,
                      baseName |-> IF base = 0 THEN NoArchive ELSE BaselineName(m)]
    OBVIOUS
  <1>3. r \in MadeArchives /\ r.base = base /\ r.name = NewName(m)
    BY <1>2, <1>b, <1>r DEF MadeArchives
  <1>4. /\ made' \in Seq(MadeArchives) /\ Len(made') = n
        /\ DOMAIN made' = DOMAIN made \cup {n} /\ n \notin DOMAIN made
        /\ \A a \in DOMAIN made : made'[a] = made[a]
        /\ made'[n] = r
    BY <1>1, <1>3, <1>n, <1>r, <1>t
  <1>5. Grows
    BY <1>2, <1>4 DEF Grows
  <1>p. PICK parent \in SnapshotIds \cup {NoParent} :
          /\ parent = IF base = 0 THEN NoParent ELSE job[m].target
          /\ base = IF parent = NoParent THEN 0 ELSE bundle[parent]
          /\ parent # NoParent => bundle[parent] # 0
    BY <1>b
  <1>j. PICK j : j = [step |-> "upload", restore |-> FALSE, target |-> NoParent, chain |-> <<>>,
                      names |-> <<>>, fresh |-> n, parent |-> parent]
    OBVIOUS
  <1>6. Becomes(m, j)
    <2>1. PICK k : k = [NoJob EXCEPT !.step = "upload", !.fresh = Len(made) + 1,
                          !.parent = IF base = 0 THEN NoParent ELSE job[m].target]
      OBVIOUS
    <2>2. k = [NoJob EXCEPT !.step = "upload", !.fresh = n, !.parent = parent]
      BY <1>n, <1>p, <2>1
    <2>4. NoJob = [step |-> "idle", restore |-> FALSE, target |-> NoParent,
          chain |-> <<>>, names |-> <<>>, fresh |-> 0, parent |-> NoParent]
      BY DEF NoJob
    <2>5. PICK empty : empty = <<>>
      OBVIOUS
    <2>6. k = [step |-> "upload", restore |-> FALSE, target |-> NoParent, chain |-> empty,
                      names |-> empty, fresh |-> n, parent |-> parent]
      BY ONLY <2>2, <2>4, <2>5
    <2>3. k = j
      BY ONLY <1>j, <2>6, <2>5
    <2>. QED
      BY <1>1, <2>1, <2>3 DEF Becomes
  <1>7. j \in Jobs /\ JobHolds(j) /\ j.step = "upload" /\ j.fresh = n /\ j.parent = parent
    <2>1. j \in Jobs /\ j.step = "upload" /\ j.chain = <<>> /\ j.names = <<>> /\ j.fresh = n
          /\ j.parent = parent
      BY <1>j DEF Jobs, JobSteps
    <2>. QED
      BY <2>1 DEF JobHolds
  <1>8. /\ job' \in [Machines -> Jobs]
        /\ job'[m] = j /\ \A other \in Machines \ {m} : job'[other] = job[other]
        /\ JobsInv'
    BY <1>5, <1>6, <1>7, OneJobChanges
  <1>9. UNCHANGED <<username, deletedUsers, snapshots, now, bundle, index>> /\ Rows' = Rows
    BY <1>2 DEF storeVars, Rows
  <1>10. StoreInv'
    BY <1>2, NextStoreInv DEF ClientInv
  <1>11. MachinesTyped'
    <2>1. Len(made') <= MaxArchives /\ bundle' \in [SnapshotIds -> 0..Len(made')]
      BY <1>2, <1>4, <1>9, <1>n, <1>t
    <2>2. \A a \in DOMAIN made' : made'[a].base \in 0..a - 1
      BY <1>3, <1>4, <1>b, <1>n, <1>t
    <2>3. cache' \in [Machines -> [Archives -> {"absent", "partial", "whole"}]]
      BY <1>2, <1>t
    <2>. QED
      BY <1>4, <1>8, <1>9, <1>t, <2>1, <2>2, <2>3 DEF MachinesTyped
  <1>12. NamesDiffer'
    <2>1. NewName(m)[1] = now
      BY DEF NewName
    <2>2. \A a \in DOMAIN made : Name(a)' = Name(a) /\ Name(a)[1] # Name(n)'[1]
      BY <1>2, <1>3, <1>4, <2>1 DEF Name
    <2>. QED
      BY <1>4, <2>2 DEF ClientInv, NamesDiffer
  <1>13. IndexInv'
    BY <1>5, <1>9, HoldsOn DEF ClientInv, IndexInv, Holds, Name
  <1>14. PendingInv'
    <2>1. Uploads(m)'
      BY <1>3, <1>4, <1>7, <1>8, <1>9, <1>n, <1>p, <1>t DEF Uploads
    <2>2. \A other \in Machines \ {m} : Pending(other)' => Pending(other) /\ Uploads(other)
      BY <1>8 DEF ClientInv, PendingInv, Pending
    <2>3. \A other \in Machines \ {m} : Pending(other)' => Uploads(other)' /\ job'[other].fresh # n
      BY <1>4, <1>8, <1>9, <2>2 DEF Uploads
    <2>4. \A other \in Machines : Pending(other)' => Uploads(other)'
      BY <2>1, <2>3
    <2>5. ASSUME NEW a \in Machines, NEW b \in Machines, Pending(a)', Pending(b)',
                 job'[a].fresh = job'[b].fresh
          PROVE  a = b
      BY <1>7, <1>8, <2>2, <2>3, <2>5 DEF ClientInv, PendingInv
    <2>. QED
      BY <2>4, <2>5 DEF PendingInv
  <1>15. RowsInv'
    <2>1. \A s \in Rows : bundle[s] \in DOMAIN made
      <3>1. ASSUME NEW s \in Rows PROVE bundle[s] \in 0..Len(made) /\ bundle[s] # 0
        BY <1>t, RowsAreIds
      <3>. QED
        BY <1>t, <3>1
    <2>2. RowsLinkTheirArchives'
      BY <1>4, <1>9, <2>1 DEF ClientInv, RowsInv, RowsLinkTheirArchives, RecordedOnce
    <2>. QED
      BY <1>9, <2>2 DEF ClientInv, RowsInv
  <1>. QED
    BY <1>8, <1>10, <1>11, <1>12, <1>13, <1>14, <1>15 DEF ClientInv

(***************************************************************************)
(* The server records an archive under a new id, with the parent the       *)
(* archive was made on.                                                    *)
(***************************************************************************)
LEMMA UploadKeeps ==
    ASSUME ClientInv, NEW m \in Machines, Upload(m)
    PROVE  ClientInv'
  <1>1. PICK s \in SnapshotIds :
          /\ bundle[s] = 0
          /\ InsertSnapshot(s, UploadRow(job[m].parent))
          /\ bundle' = [bundle EXCEPT ![s] = job[m].fresh]
          /\ GiveUp(m)
          /\ Remember(m, s, Name(job[m].fresh)) \/ UNCHANGED index
    BY DEF Upload, AfterLostAnswer
  <1>2. job[m].step = "upload" /\ UNCHANGED <<made, cache>>
    BY DEF Upload, At
  <1>t. /\ made \in Seq(MadeArchives) /\ bundle \in [SnapshotIds -> 0..Len(made)]
        /\ index \in [Machines -> [SnapshotIds -> ArchiveNames \cup {NoArchive}]]
        /\ job \in [Machines -> Jobs]
    BY DEF ClientInv, MachinesTyped
  <1>u. Uploads(m)
    BY <1>2 DEF ClientInv, PendingInv, Pending
  <1>p. PICK fresh \in DOMAIN made, parent \in SnapshotIds \cup {NoParent} :
          /\ fresh = job[m].fresh /\ parent = job[m].parent
          /\ \A t \in SnapshotIds : bundle[t] # fresh
          /\ made[fresh].base = IF parent = NoParent THEN 0 ELSE bundle[parent]
          /\ parent # NoParent => bundle[parent] # 0
    BY <1>t, <1>u DEF Uploads, Jobs
  <1>f. fresh \in 1..Len(made) /\ fresh # 0
    BY <1>t
  <1>r. PICK row : row = UploadRow(parent)
    OBVIOUS
  <1>3. /\ InsertSnapshotResult(s, row) = "kOk"
        /\ snapshots' = [snapshots EXCEPT ![s] = row]
        /\ UNCHANGED <<username, deletedUsers, now>>
    BY <1>1, <1>p, <1>r DEF InsertSnapshot
  <1>4. row.user = Account /\ row.parent = parent
    BY <1>r DEF UploadRow
  <1>5. row \in OfferedRows
    <2>1. Account \in UserIds /\ Lineage \in Lineages
      BY DEF Account, UserIds, Lineage
    <2>2. ASSUME parent \in Rows
          PROVE  snapshots[parent].generation + 1 \in 0..MaxChainGeneration + 1
      <3>1. snapshots[parent] \in Row
        BY <2>2, RowsTyped DEF ClientInv, StoreInv
      <3>2. snapshots[parent].generation \in Nat
        BY <3>1 DEF Row
      <3>. QED
        BY <2>2, <3>2 DEF ClientInv, StoreInv, ChainsResolve
    <2>3. (IF parent \in Rows THEN snapshots[parent].generation + 1 ELSE 0)
            \in 0..MaxChainGeneration + 1
      BY <2>2
    <2>4. (IF parent = NoParent THEN "full" ELSE "incremental") \in Kinds
      BY DEF Kinds
    <2>. QED
      BY <1>r, <2>1, <2>3, <2>4 DEF UploadRow, OfferedRows
  <1>6. StoreInv'
    BY <1>1, <1>5, <1>p, <1>r, InsertSnapshotStoreInv DEF ClientInv
  <1>7. s \notin Rows
    BY <1>3 DEF InsertSnapshotResult, Constraint
  <1>8. /\ Rows' \subseteq Rows \cup {s} /\ Rows \subseteq SnapshotIds
        /\ \A t \in Rows : snapshots'[t] = snapshots[t]
        /\ snapshots'[s] = row
    BY <1>3, <1>7 DEF ClientInv, StoreInv, StoreTypeOK, Rows
  <1>9. \A t \in SnapshotIds : bundle'[t] = IF t = s THEN fresh ELSE bundle[t]
    BY <1>1, <1>p, <1>t
  <1>10. Grows
    BY <1>1, <1>2, <1>9 DEF Grows
  <1>11. /\ job' \in [Machines -> Jobs]
         /\ job'[m] = NoJob /\ \A other \in Machines \ {m} : job'[other] = job[other]
         /\ JobsInv'
    BY <1>1, <1>10, NoJobHolds, OneJobChanges DEF GiveUp, Becomes
  <1>12. index' \in [Machines -> [SnapshotIds -> ArchiveNames \cup {NoArchive}]] /\ IndexInv'
    <2>1. CASE UNCHANGED index
      BY <1>10, <1>t, <2>1, HoldsOn DEF ClientInv, IndexInv
    <2>2. CASE Remember(m, s, Name(fresh))
      <3>1. PICK saved \in {Name(fresh), index[m][s]} : index' = [index EXCEPT ![m][s] = saved]
        BY <2>2 DEF Remember
      <3>2. Name(fresh) \in ArchiveNames
        BY NameTyped DEF ClientInv
      <3>3. index' \in [Machines -> [SnapshotIds -> ArchiveNames \cup {NoArchive}]]
        BY <1>t, <3>1, <3>2
      <3>4. \A n \in Machines, t \in SnapshotIds :
              index'[n][t] = IF n = m /\ t = s THEN saved ELSE index[n][t]
        BY <1>t, <3>1
      <3>5. Holds(s, Name(fresh))'
        BY <1>2, <1>9, <1>f DEF Holds, Name
      <3>6. \A n \in Machines, t \in SnapshotIds : \A name :
              name = index[n][t] /\ name # NoArchive => Holds(t, name)'
        BY <1>10, HoldsOn DEF ClientInv, IndexInv
      <3>7. \A name : (saved = name /\ name # NoArchive) => Holds(s, name)'
        <4>1. CASE saved = Name(fresh)
          <5>1. bundle'[s] = fresh /\ fresh # 0
            BY <1>9, <1>f
          <5>2. saved = made'[bundle'[s]].name
            BY <1>2, <4>1, <5>1 DEF Name
          <5>. QED
            BY <5>1, <5>2 DEF Holds, Name
        <4>2. CASE saved = index[m][s]
          BY <3>6, <4>2
        <4>. QED
          BY <3>1, <4>1, <4>2
      <3>8. ASSUME NEW CONSTANT n \in Machines, NEW CONSTANT t \in SnapshotIds,
                   index'[n][t] # NoArchive
            PROVE  Holds(t, index[n][t])'
        BY <3>4, <3>6, <3>7, <3>8 DEF Holds, Name
      <3>. QED
        BY <3>3, <3>8 DEF IndexInv
    <2>. QED
      BY <1>1, <1>p, <2>1, <2>2
  <1>13. MachinesTyped'
    <2>1. bundle' \in [SnapshotIds -> 0..Len(made)]
      BY <1>1, <1>f, <1>p, <1>t
    <2>. QED
      BY <1>2, <1>11, <1>12, <2>1 DEF ClientInv, MachinesTyped
  <1>14. NamesDiffer'
    BY <1>2 DEF ClientInv, NamesDiffer, Name
  <1>15. PendingInv'
    <2>1. \A other \in Machines : Pending(other)' =>
            other # m /\ Pending(other) /\ job'[other] = job[other]
      BY <1>11, NoJobHolds DEF Pending
    <2>2. ASSUME NEW other \in Machines \ {m}, Pending(other)
          PROVE  /\ job[other].fresh \in DOMAIN made /\ job[other].fresh # fresh
                 /\ \A t \in SnapshotIds : bundle'[t] # job[other].fresh
                 /\ made[job[other].fresh].base =
                      IF job[other].parent = NoParent THEN 0 ELSE bundle'[job[other].parent]
                 /\ job[other].parent # NoParent => bundle'[job[other].parent] # 0
      <3>1. Uploads(other) /\ job[other].fresh # fresh
        BY <1>2, <1>p, <2>2 DEF ClientInv, PendingInv, Pending
      <3>2. job[other].parent \in SnapshotIds \cup {NoParent}
        BY <1>t DEF Jobs
      <3>3. job[other].parent # NoParent =>
              bundle[job[other].parent] # 0 /\ bundle'[job[other].parent] = bundle[job[other].parent]
        BY <1>10, <3>1, <3>2 DEF Uploads, Grows
      <3>. QED
        BY <1>9, <3>1, <3>3 DEF Uploads
    <2>3. \A other \in Machines : Pending(other)' => Uploads(other)'
      BY <1>2, <2>1, <2>2 DEF Uploads
    <2>. QED
      BY <2>1, <2>3 DEF ClientInv, PendingInv
  <1>16. RowsInv'
    <2>1. \A t \in Rows : bundle[t] # 0 /\ bundle'[t] = bundle[t]
      BY <1>8, <1>10, RowsAreIds DEF Grows
    <2>2. \A t \in Rows' : bundle'[t] # 0 /\ snapshots'[t].user = Account
      BY <1>4, <1>8, <1>9, <1>f, <2>1 DEF ClientInv, RowsInv
    <2>3. RecordedOnce'
      BY <1>9, <1>p DEF ClientInv, RowsInv, RowsLinkTheirArchives, RecordedOnce
    <2>4. ASSUME NEW t \in Rows
          PROVE  made[bundle'[t]].base =
                   IF snapshots'[t].parent = NoParent THEN 0 ELSE bundle'[snapshots'[t].parent]
      <3>1. snapshots[t].parent = NoParent \/ snapshots[t].parent \in Rows
        BY DEF ClientInv, StoreInv, ChainsResolve
      <3>. QED
        BY <1>8, <2>1, <3>1 DEF ClientInv, RowsInv, RowsLinkTheirArchives
    <2>5. made[bundle'[s]].base =
            IF snapshots'[s].parent = NoParent THEN 0 ELSE bundle'[snapshots'[s].parent]
      <3>1. parent # NoParent => bundle'[parent] = bundle[parent]
        BY <1>10, <1>p DEF Grows
      <3>. QED
        BY <1>4, <1>8, <1>9, <1>p, <3>1
    <2>. QED
      BY <1>2, <1>8, <2>2, <2>3, <2>4, <2>5 DEF RowsInv, RowsLinkTheirArchives
  <1>. QED
    BY <1>6, <1>11, <1>12, <1>13, <1>14, <1>15, <1>16 DEF ClientInv

-----------------------------------------------------------------------------
(* What else happens *)

LEMMA JobsStay ==
    ASSUME ClientInv, UNCHANGED machineVars
    PROVE  MachinesTyped' /\ NamesDiffer' /\ IndexInv' /\ PendingInv' /\ JobsInv'
  <1>1. UNCHANGED <<made, bundle, cache, index, job>>
    BY DEF machineVars
  <1>2. MachinesTyped' /\ NamesDiffer' /\ IndexInv'
    BY <1>1 DEF ClientInv, MachinesTyped, NamesDiffer, Name, IndexInv, Holds
  <1>3. PendingInv'
    BY <1>1 DEF ClientInv, PendingInv, Pending, Uploads
  <1>4. JobsInv'
    BY <1>1 DEF ClientInv, JobsInv, JobHolds, Holds, Name
  <1>. QED
    BY <1>2, <1>3, <1>4

LEMMA DeleteRowKeeps ==
    ASSUME ClientInv, NEW s \in SnapshotIds, DeleteRow(s)
    PROVE  ClientInv'
  <1>1. /\ snapshots' = [snapshots EXCEPT ![s] = NoRow] /\ UNCHANGED machineVars
        /\ UNCHANGED <<made, bundle>>
    BY DEF DeleteRow, DeleteSnapshot, machineVars
  <1>2. StoreInv'
    <2>1. Account \in UserIds
      BY DEF Account, UserIds
    <2>. QED
      BY <2>1, DeleteSnapshotStoreInv DEF ClientInv, DeleteRow
  <1>3. Rows' \subseteq Rows /\ \A t \in Rows' : snapshots'[t] = snapshots[t]
    BY <1>1 DEF ClientInv, StoreInv, StoreTypeOK, Rows
  <1>4. RowsInv'
    BY <1>1, <1>3 DEF ClientInv, RowsInv, RowsLinkTheirArchives, RecordedOnce
  <1>. QED
    BY <1>1, <1>2, <1>4, JobsStay DEF ClientInv

LEMMA SecondPassesKeeps ==
    ASSUME ClientInv, SecondPasses \/ UNCHANGED accountVars
    PROVE  ClientInv'
  <1>1. UNCHANGED machineVars /\ UNCHANGED <<made, bundle, snapshots>> /\ (Tick \/ UNCHANGED storeVars)
    BY DEF SecondPasses, accountVars, machineVars, Tick, storeVars
  <1>2. StoreInv'
    BY <1>1, NextStoreInv DEF ClientInv, StoreNext
  <1>3. RowsInv'
    BY <1>1 DEF ClientInv, RowsInv, RowsLinkTheirArchives, RecordedOnce, Rows
  <1>. QED
    BY <1>1, <1>2, <1>3, JobsStay DEF ClientInv

LEMMA InitClientInv == ClientInit => ClientInv
  <1>. SUFFICES ASSUME ClientInit PROVE ClientInv
    OBVIOUS
  <1>1. PICK name \in Names : username = [u \in UserIds |-> IF u = Account THEN name ELSE NoName]
    BY DEF ClientInit
  <1>2. StoreInv
    BY <1>1 DEF ClientInit, StoreInv, StoreTypeOK, ChainsResolve, ChainsAreLinear,
       RowsHaveOwners, NamesAreUnique, TombstonesAreDead, Rows, LiveUsers
  <1>3. made = <<>> /\ Len(made) = 0 /\ DOMAIN made = {} /\ made \in Seq(MadeArchives)
    BY DEF ClientInit
  <1>4. \A m \in Machines : job[m] = NoJob
    BY DEF ClientInit
  <1>5. MachinesTyped
    BY <1>3, NoJobHolds DEF ClientInit, MachinesTyped
  <1>6. Rows = {}
    BY DEF ClientInit, Rows
  <1>7. NamesDiffer /\ IndexInv
    BY <1>3 DEF ClientInit, NamesDiffer, IndexInv
  <1>8. PendingInv
    BY <1>4, NoJobHolds DEF PendingInv, Pending
  <1>9. RowsInv
    BY <1>6 DEF ClientInit, RowsInv, RowsLinkTheirArchives, RecordedOnce
  <1>10. JobsInv
    BY <1>4, NoJobHolds DEF JobsInv
  <1>. QED
    BY <1>2, <1>5, <1>7, <1>8, <1>9, <1>10 DEF ClientInv

LEMMA NextClientInv == ~SameSecond => (ClientInv /\ [ClientNext]_accountVars => ClientInv')
  <1>. SUFFICES ASSUME ~SameSecond, ClientInv, [ClientNext]_accountVars PROVE ClientInv'
    OBVIOUS
  <1>1. ASSUME NEW m \in Machines, MachineStep(m) PROVE ClientInv'
    <2>1. ASSUME Apply(m) \/ Fails(m) PROVE ClientInv'
      BY <2>1, JobEnds DEF Apply, Fails, ClientInv, MachinesTyped
    <2>. QED
      BY <1>1, <2>1, StartBackupKeeps, StartRestoreKeeps, ResolveChainKeeps, CacheHitKeeps,
         DownloadKeeps, PublishSidecarsKeeps, EngineKeeps, UploadKeeps DEF MachineStep
  <1>. QED
    BY <1>1, DeleteRowKeeps, SecondPassesKeeps DEF ClientNext

(***************************************************************************)
(* If no two archives are named in one second, the invariant holds for any *)
(* number of machines, archives and snapshots.                             *)
(***************************************************************************)
THEOREM ClientInvariant == ~SameSecond => (ClientSpec => []ClientInv)
  <1>1. CASE SameSecond
    BY <1>1
  <1>2. CASE ~SameSecond
    <2>1. ClientInv /\ [ClientNext]_accountVars => ClientInv'
      BY <1>2, NextClientInv
    <2>. QED
      BY <2>1, InitClientInv, PTL DEF ClientSpec
  <1>. QED
    BY <1>1, <1>2

(***************************************************************************)
(* The machines' variables keep their types.                               *)
(***************************************************************************)
THEOREM ClientTypes == ~SameSecond => (ClientSpec => []ClientTypeOK)
  <1>1. ClientInv => ClientTypeOK
    <2>. SUFFICES ASSUME ClientInv PROVE ClientTypeOK
      OBVIOUS
    <2>1. \A a \in DOMAIN made : made[a].name \in ArchiveNames
      BY NameTyped DEF ClientInv, Name
    <2>. QED
      BY <2>1 DEF ClientInv, StoreInv, MachinesTyped, RowsInv, ClientTypeOK
  <1>. QED
    BY <1>1, ClientInvariant, PTL

(***************************************************************************)
(* What a chain is restored from, or a delta made against, is what was     *)
(* uploaded as its snapshots.                                              *)
(***************************************************************************)
THEOREM MaterialIsUploaded == ~SameSecond => (ClientSpec => []MaterialIsTheServers)
  <1>1. ClientInv => MaterialIsTheServers
    <2>. SUFFICES ASSUME ClientInv, NEW m \in Machines, NEW i \in DOMAIN job[m].names,
                         NEW a \in Under(m, job[m].names[i])
                  PROVE  a = bundle[job[m].chain[i]]
      BY DEF MaterialIsTheServers
    <2>k. PICK k \in Jobs : k = job[m] /\ JobHolds(k)
      BY JobTyped
    <2>1. /\ k.chain \in Seq(SnapshotIds) /\ k.names \in Seq(ArchiveNames)
          /\ Len(k.names) <= Len(k.chain)
      BY <2>k DEF Jobs, JobHolds
    <2>2. i \in DOMAIN k.chain
      BY <2>1, <2>k
    <2>3. k.chain[i] \in SnapshotIds /\ Holds(k.chain[i], k.names[i])
      BY <2>1, <2>2, <2>k DEF JobHolds
    <2>4. bundle[k.chain[i]] \in 0..Len(made) /\ made \in Seq(MadeArchives)
      BY <2>3 DEF ClientInv, MachinesTyped
    <2>5. bundle[k.chain[i]] \in DOMAIN made /\ Name(bundle[k.chain[i]]) = k.names[i]
      BY <2>3, <2>4 DEF Holds
    <2>6. a \in DOMAIN made /\ Name(a) = k.names[i]
      BY <2>k DEF Under, Present
    <2>. QED
      BY <2>5, <2>6, <2>k DEF ClientInv, NamesDiffer
  <1>. QED
    BY <1>1, ClientInvariant, PTL

(***************************************************************************)
(* The parent of a row is the snapshot its archive was made on, and an     *)
(* archive is recorded once.                                               *)
(***************************************************************************)
THEOREM RowsAreLinked == ~SameSecond => (ClientSpec => []RowsLinkTheirArchives)
  <1>1. ClientInv => RowsLinkTheirArchives
    BY DEF ClientInv, RowsInv
  <1>. QED
    BY <1>1, ClientInvariant, PTL
=============================================================================
