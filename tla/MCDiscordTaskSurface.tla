------------------------ MODULE MCDiscordTaskSurface ------------------------
\* Instances of DiscordTaskSurface for TLC.
EXTENDS DiscordTaskSurface, TLC

\* Flush tasks, and the parts of a progress report, are interchangeable.
SurfaceSymmetry == Permutations(Flushes) \cup Permutations(Parts)
============================================================================
