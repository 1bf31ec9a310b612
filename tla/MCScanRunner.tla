---------------------------- MODULE MCScanRunner ----------------------------
(* ScanRunner for TLC: the abstract snapshot it implements.                   *)
EXTENDS ScanRunner

Abstract == INSTANCE Snapshot WITH Dirs <- Dirs, MaxVersion <- MaxVersion, disk <- disk, scanned <- scanned

\* The scanner implements the snapshot's promise: each step of it publishes only
\* versions the disk has had, and the snapshot always catches up
\* (web/scan_runner.py, every publisher of _scanned).
ImplementsSnapshot == Abstract!Spec

=============================================================================
