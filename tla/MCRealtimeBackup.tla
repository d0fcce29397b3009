-------------------------- MODULE MCRealtimeBackup --------------------------
EXTENDS RealtimeBackup
=============================================================================
