------------------------ MODULE MCRemoteBackupClient ------------------------
EXTENDS RemoteBackupClient, TLC

SnapshotSerials == 1..2
MachinesAreAlike == Permutations(Machines)
=============================================================================
