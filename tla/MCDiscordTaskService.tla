------------------------ MODULE MCDiscordTaskService ------------------------
(* Small instances of the task service for TLC.                            *)
EXTENDS DiscordTaskService, TLC

\* Interactions and trigger events are interchangeable in the safety runs.
EventSymmetry == Permutations(Interactions) \cup Permutations(Triggers)
============================================================================
