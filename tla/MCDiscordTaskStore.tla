------------------------ MODULE MCDiscordTaskStore --------------------------
(***************************************************************************)
(* Instances of DiscordTaskStore for TLC.                                  *)
(***************************************************************************)
EXTENDS DiscordTaskStore

CONSTANT Stored   \* bound: the ids that tasks are stored under, of TaskIds

\* The other ids are those of settled tasks that retention may find beside the stored ones.
StoredSpec == StoreInit /\ [][StoreNext /\ DOMAIN tasks' \subseteq Stored]_storeVars
=============================================================================
