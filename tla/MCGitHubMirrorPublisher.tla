---------------------- MODULE MCGitHubMirrorPublisher ----------------------
\* Instances of the GitHub mirror's publisher for TLC.
EXTENDS GitHubMirrorPublisher, TLC

\* A pull request is opened and merged, with a comment on the merged one.
PullRequestEvents ==
    {[delivery |-> "opened", time |-> 1, state |-> "open", comment |-> FALSE],
     [delivery |-> "merged", time |-> 2, state |-> "merged", comment |-> FALSE],
     [delivery |-> "comment", time |-> 3, state |-> "closed", comment |-> TRUE]}
=============================================================================
