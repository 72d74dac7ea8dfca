------------------------------ MODULE MCServerLive ------------------------------
(***************************************************************************)
(* What must happen in the end on the server, for TLC: an execution leaves *)
(* PENDING (ExecutionLifecycle), and its owner hears of every change       *)
(* (LiveUpdates).  The models share no variable: a behaviour is about one  *)
(* of them, and the other stays as it starts.                              *)
(***************************************************************************)
EXTENDS ExecutionLifecycle, TLC

CONSTANTS NoUser, Writers, user1, socket1

VARIABLES
  current, writer, sock, rooms, asking, pipe, view, wants, crossed, missed, writes, drops,
  part

lifecycleVars == vars
updateVars == <<current, writer, sock, rooms, asking, pipe, view, wants, crossed, missed, writes, drops>>

execution1 == CHOOSE e \in Executions : TRUE

Updates == INSTANCE LiveUpdates WITH
  Executions <- {execution1}, Sockets <- {socket1}, Users <- {user1},
  MaxWrites <- 2, MaxPipe <- 1, MaxDrops <- 1, row <- current

ASSUME UpdatesAssumption == Updates!LiveUpdatesAssumption

PartsInit == Init /\ Updates!Init /\ part \in {"lifecycle", "updates"}

PartsNext ==
  \/ part = "lifecycle" /\ Next /\ UNCHANGED <<updateVars, part>>
  \/ part = "updates" /\ Updates!Next /\ UNCHANGED <<lifecycleVars, part>>

\* The fairness of ExecutionLifecycle, and that of LiveUpdates for its own behaviours.
PartsSpec ==
  /\ PartsInit /\ [][PartsNext]_<<lifecycleVars, updateVars, part>>
  /\ Fairness
  /\ \A w \in Writers : WF_updateVars(part = "updates" /\ (Updates!Emit(w) \/ Updates!EmitFailed(w)))
  /\ WF_updateVars(part = "updates" /\ Updates!Receive(socket1))
  /\ WF_updateVars(part = "updates" /\ Updates!SubscribeRead(socket1))
  /\ WF_updateVars(part = "updates" /\ Updates!SubscribeJoin(socket1))

\* The owner hears of every change: whatever a call has still to announce, a tab of the
\* owner that stays connected comes to show.
OwnerHears == Updates!OwnerHears
================================================================================
