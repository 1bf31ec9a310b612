---------------------------- MODULE MCScanClient ----------------------------
(* ScanClient for TLC.                                                        *)
EXTENDS ScanClient

=============================================================================
