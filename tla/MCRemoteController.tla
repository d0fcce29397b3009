---------------------- MODULE MCRemoteController ----------------------
EXTENDS RemoteController, TLC

CONSTANTS cloud, other, none, alice, bob

Symmetry == Permutations(UserNames)
=============================================================================
