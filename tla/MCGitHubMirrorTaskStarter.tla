--------------------- MODULE MCGitHubMirrorTaskStarter ---------------------
\* Instances of the GitHub mirror's task starter for TLC.
EXTENDS GitHubMirrorTaskStarter, TLC

\* A pull request that is open and then merged.
PullRequestEvents ==
    {[delivery |-> "opened", time |-> 1, state |-> "open", comment |-> FALSE],
     [delivery |-> "merged", time |-> 2, state |-> "merged", comment |-> FALSE]}

StarterSymmetry == Permutations(Handlers) \cup Permutations(Triggers) \cup Permutations(Cards)
=============================================================================
