----------------------- MODULE MCDiscordDeliveryCache -----------------------
\* Instances of the delivery cache for TLC.
EXTENDS DiscordDeliveryCache, TLC

\* Threads, replies and tasks are interchangeable.
CacheSymmetry ==
  Permutations(Threads) \cup Permutations(Replies) \cup Permutations(Tasks)
============================================================================
