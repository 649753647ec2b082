--------------------------- MODULE MCIngestCursor ---------------------------
(* A metrics push with two samples of a failing series and one of another     *)
(* telling series, and a trace export; the metrics part of a summary has room *)
(* for one series.  The summary of one session, the reset of the other, the   *)
(* eviction task and both requests all overlap.                               *)
EXTENDS IngestCursor

CONSTANTS s1, s2, failures, latency, memory

Carries(service, name) == [svc |-> service, name |-> name]

MCRequests == {"metrics", "spans"}
MCSignal == [metrics |-> "metrics", spans |-> "traces"]
MCBatch == [metrics |-> <<Carries(s1, failures), Carries(s1, failures), Carries(s1, latency)>>,
            spans |-> <<Carries(s2, memory)>>]
MCTrace == [metrics |-> "none", spans |-> "trace"]
MCOffered == [agent |-> {"mark_checkpoint", "summarize_activity"},
              script |-> {"http_reset", "list_services"}]
MCMaxCalls == [agent |-> 2, script |-> 1]

(* One push, for the run about a push a checkpoint overtakes.              *)
PushOnly == {"push"}
PushSignal == [push |-> "logs"]
PushBatch == [push |-> <<Carries(s1, memory), Carries(s2, memory)>>]
PushTrace == [push |-> "none"]
=============================================================================
