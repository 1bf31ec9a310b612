----------------------------- MODULE ScanClient -----------------------------
(***************************************************************************)
(* A browser tab beside the scanner: it polls the scan status and re-renders *)
(* the inbox from the snapshot when the scan counter it sees is not the one *)
(* it saw last (templates/partials/_status_bar.html).                        *)
(***************************************************************************)
EXTENDS ScanRunner

VARIABLE client    \* [seq, shows]: lastScanSeq and the snapshot rendered

clientVars == <<vars, client>>

ClientInit ==
  /\ Init
  /\ client = [seq |-> 0, shows |-> NoEntry]

Poll ==
  /\ status[shown].seq # client.seq
  /\ client' = [seq |-> status[shown].seq, shows |-> scanned]
  /\ UNCHANGED vars

ClientNext ==
  \/ Next /\ UNCHANGED client
  \/ Poll

\* The tab keeps polling for as long as it is open.
ClientSpec ==
  /\ ClientInit
  /\ [][ClientNext]_clientVars
  /\ WF_clientVars(LoopStep /\ UNCHANGED client)
  /\ WF_clientVars(HourlyRescan /\ UNCHANGED client)
  /\ \A r \in Readers : WF_clientVars(ReaderStep(r) /\ UNCHANGED client)
  /\ \A t \in Threads : WF_clientVars(ThreadStep(t) /\ UNCHANGED client)
  /\ WF_clientVars(Poll)

\* Once nothing changes any more, the inbox shows the snapshot: no publication
\* leaves a tab rendering cards of an earlier one ("the client watches this to
\* know a fresh snapshot exists and refresh the inbox", ScanStatus.seq).
ClientCatchesUp == <>[](client.shows = scanned)

=============================================================================
