--------------------------- MODULE MCQueueFindings ---------------------------
(***************************************************************************)
(* A statement that the documents of the repository make about the         *)
(* execution queue and that its code does not keep.                        *)
(***************************************************************************)
EXTENDS MCExecutionQueue

\* A queued execution is eventually taken out of the queue: n8n being unavailable
\* means "queue workflow executions and retry with exponential backoff".
QueuedEventuallyTaken == \A j \in Jobs : job[j].stage = "queued" ~> job[j].stage # "queued"
=============================================================================
