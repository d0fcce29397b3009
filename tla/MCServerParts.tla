---------------------------- MODULE MCServerParts ----------------------------
(***************************************************************************)
(* Parts of the remote server that know nothing of one another: the        *)
(* metadata store under whatever callers may ask of it, the channel to a   *)
(* client, and the processes that share a data directory.  A behaviour is  *)
(* about one of them.                                                      *)
(***************************************************************************)
EXTENDS ServerProcesses, SecureChannel

CONSTANTS alice, none, free, root, photos, mail

VARIABLE part

\* Bounds of the third: an account that goes and one that takes its name, and
\* one snapshot.
FewAccounts == \A u \in UserIds : u > 2 => username'[u] = NoName
FewSnapshots == issued' \subseteq {1}

PartInit ==
  /\ part \in {"store", "channel", "processes"}
  /\ StoreInit /\ ChannelInit /\ ProcessesInit
  /\ part # "processes" => schema = "absent" /\ pidFile = Nobody
  /\ part # "channel" =>
       mode = [version |-> BPSEC1, certified |-> FALSE, required |-> FALSE]

PartNext ==
  /\ \/ part = "store" /\ StoreNext /\ UNCHANGED <<channelVars, processVars>>
     \/ part = "channel" /\ ChannelNext /\ UNCHANGED <<storeVars, processVars>>
     \/ /\ part = "processes" /\ ProcessesNext /\ UNCHANGED channelVars
        /\ FewAccounts /\ FewSnapshots
  /\ UNCHANGED part

PartSpec ==
  PartInit /\ [][PartNext]_<<storeVars, processVars, channelVars, part>>
=============================================================================
