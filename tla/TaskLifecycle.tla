--------------------------- MODULE TaskLifecycle ---------------------------
(***************************************************************************)
(* What the design document promises of tasks, without revisions, records, *)
(* failures, links or files                                                *)
(* (docs/superpowers/specs/2026-07-17-discord-native-task-control-design). *)
(*                                                                         *)
(* The board shows each known task's channel and phase.  A task is opened  *)
(* in a free channel, moves along the documented transitions, and may be   *)
(* taken off the board only while it is inactive.  A power loss shows one  *)
(* of the boards that were not yet certain to be overwritten.              *)
(***************************************************************************)
EXTENDS FiniteSets

CONSTANTS Ids, Places

VARIABLES
  board,   \* id -> [phase, channel], for the tasks on the board
  past     \* the boards a power loss may show

Busy == {"recovering", "starting", "running", "stopping", "delivering"}

\* The documented transitions, and those of startup reconciliation.
Allowed ==
  {<<"failed", "recovering">>, <<"timed_out", "recovering">>,
   <<"interrupted", "recovering">>,
   <<"recovering", "starting">>, <<"recovering", "failed">>, <<"recovering", "stopping">>,
   <<"starting", "running">>, <<"starting", "failed">>, <<"starting", "stopping">>,
   <<"running", "delivering">>, <<"running", "failed">>, <<"running", "timed_out">>,
   <<"running", "stopping">>, <<"running", "interrupted">>,
   <<"stopping", "stopped">>, <<"stopping", "failed">>, <<"stopping", "interrupted">>,
   <<"delivering", "completed">>, <<"delivering", "delivery_failed">>,
   <<"delivery_failed", "delivering">>}

AfterRestart(phase) ==
  CASE phase \in {"recovering", "starting", "running", "stopping"} -> "interrupted"
    [] phase = "delivering" -> "delivery_failed"
    [] OTHER -> phase

Free(b, id, place) ==
  \A other \in DOMAIN b \ {id} :
    ~ (b[other].channel = place /\ b[other].phase \in Busy)

\* Some inactive tasks leave the board b, and the result becomes the board,
\* for certain or only until a power loss.
Publish(b) ==
  /\ DOMAIN board' \subseteq DOMAIN b
  /\ board' = [id \in DOMAIN board' |-> b[id]]
  /\ \A id \in DOMAIN b \ DOMAIN board' : b[id].phase \notin Busy
  /\ past' = {board'} \/ past' = past \cup {board'}

Open(id, place) ==
  /\ id \notin DOMAIN board
  /\ Free(board, id, place)
  /\ Publish([other \in DOMAIN board \cup {id} |->
                IF other = id THEN [phase |-> "starting", channel |-> place]
                              ELSE board[other]])

Move(id, phase) ==
  /\ <<board[id].phase, phase>> \in Allowed
  /\ phase \in Busy => Free(board, id, board[id].channel)
  /\ Publish([board EXCEPT ![id].phase = phase])

Reconcile == Publish([id \in DOMAIN board |->
                        [board[id] EXCEPT !.phase = AfterRestart(@)]])

\* A change of a record that the board does not show.
Touch == Publish(board)

PowerLoss ==
  /\ board' \in past
  /\ past' = {board'}

Init == board = [id \in {} |-> <<>>] /\ past = {board}

Next ==
  \/ \E id \in Ids, place \in Places : Open(id, place)
  \/ \E id \in DOMAIN board, phase \in {pair[2] : pair \in Allowed} : Move(id, phase)
  \/ Reconcile
  \/ Touch
  \/ PowerLoss

Spec == Init /\ [][Next]_<<board, past>>
============================================================================
