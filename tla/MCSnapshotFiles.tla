-------------------------- MODULE MCSnapshotFiles --------------------------
\* Small instances of SnapshotFiles.
EXTENDS SnapshotFiles

=============================================================================
