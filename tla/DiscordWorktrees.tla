--------------------------- MODULE DiscordWorktrees ---------------------------
(***************************************************************************)
(* The directory a Discord task works in (discord_worktrees.py): the       *)
(* canonical clone of a repository and a channel's worktree of it.         *)
(*                                                                         *)
(* Every git command is a process that prepare() waits for, and nothing    *)
(* keeps two prepare() calls apart: what a check found may be stale when   *)
(* the next command runs.  A command is one action, at the moment it reads *)
(* or changes the disk, with the code that follows it up to the next       *)
(* command; a clone is two, since other calls see it half done.            *)
(***************************************************************************)
EXTENDS Naturals, FiniteSets

CONSTANTS
    Preparers,  \* the concurrent calls of prepare()
    Channels,
    Repos,
    Commits,    \* the commits of a clone
    Upstream,   \* the one that HEAD of a clone names
    None

ASSUME UpstreamAssumption == Upstream \in Commits

VARIABLES
    canonical,  \* the clone of each repository
    tree,       \* the worktree of each channel and repository
    prep        \* the calls of prepare()

worktreeVars == <<canonical, tree, prep>>

Policies == {"general", "review", "implementation"}

\* The arguments of prepare(): a general prompt names one repository or none (what several
\* do is the same but for the scan), and only restricted calls have a commit.
Arguments == [channel : Channels, policy : Policies, repo : Repos \cup {None},
              commit : Commits \cup {None}]

\* "half": cut short by a crash.  A stray tree had its HEAD moved by a turn that no run of
\* the gateway waits for any more.
Tree == [state : {"absent", "half", "whole"}, head : Commits \cup {None}, stray : BOOLEAN]

\* The command a call waits for and, when it is done, the directory it returned.
Prep == [at : {"idle", "canonical", "clone", "cloning", "commit", "scan", "tree", "head",
               "add", "done", "failed"},
         ask : Arguments \cup {None}, path : {"root", "tree", "canonical"}]

WorktreesTypeOK ==
    /\ canonical \in [Repos -> {"absent", "cloning", "half", "whole"}]
    /\ tree \in [Channels -> [Repos -> Tree]]
    /\ prep \in [Preparers -> Prep]

NoTree == [state |-> "absent", head |-> None, stray |-> FALSE]
NotPreparing == [at |-> "idle", ask |-> None, path |-> "root"]

-----------------------------------------------------------------------------
TreeOf(a) == tree[a.channel][a.repo]
Trees(c) == {r \in Repos : tree[c][r].state # "absent"}

\* What git may say of a clone that is under way or was cut short is open; of one that is
\* not there it says no.
IsWorkTree(state) ==
    IF state = "whole" THEN {TRUE} ELSE IF state = "absent" THEN {FALSE} ELSE BOOLEAN
HasCommits(state) == IsWorkTree(state)

Goes(p, at) == prep' = [prep EXCEPT ![p].at = at]
Returns(p, path) == prep' = [prep EXCEPT ![p].at = "done", ![p].path = path]

\* _ensure_worktree() up to its first command.
EnsureWorktree(p) ==
    Goes(p, IF TreeOf(prep[p].ask).state = "absent" THEN "add" ELSE "tree")

\* The first command of a call: a restricted one needs the clone, a general one that names
\* a repository makes it, one that names none looks at what the channel has.
FirstCommand(a) ==
    IF a.repo = None THEN IF Trees(a.channel) = {} THEN "done" ELSE "scan"
    ELSE IF canonical[a.repo] # "absent" THEN "canonical"
    ELSE IF a.policy = "general" THEN "clone" ELSE "failed"

\* prepare() up to its first command.
Prepare(p, a) ==
    /\ prep' = [prep EXCEPT ![p] = [at |-> FirstCommand(a), ask |-> a, path |-> "root"]]
    /\ UNCHANGED <<canonical, tree>>

\* _is_git_worktree() of the clone, in _require_canonical_repo() or
\* _ensure_canonical_repo().
CanonicalChecked(p) ==
    /\ prep[p].at = "canonical"
    /\ \E yes \in IsWorkTree(canonical[prep[p].ask.repo]) :
          IF ~yes THEN Goes(p, "failed")
          ELSE IF prep[p].ask.policy = "general" THEN EnsureWorktree(p) ELSE Goes(p, "commit")
    /\ UNCHANGED <<canonical, tree>>

\* The clone command finds the path free or taken: another call may have been here since
\* the path was looked up.
CloneBegins(p) ==
    LET r == prep[p].ask.repo IN
    /\ prep[p].at = "clone"
    /\ IF canonical[r] = "absent"
       THEN canonical' = [canonical EXCEPT ![r] = "cloning"] /\ Goes(p, "cloning")
       ELSE Goes(p, "failed") /\ UNCHANGED canonical
    /\ UNCHANGED tree

\* It ends: a clone that fails removes what it made.
CloneEnds(p) ==
    LET r == prep[p].ask.repo IN
    /\ prep[p].at = "cloning"
    /\ \/ canonical' = [canonical EXCEPT ![r] = "whole"] /\ EnsureWorktree(p)
       \/ canonical' = [canonical EXCEPT ![r] = "absent"] /\ Goes(p, "failed")
    /\ UNCHANGED tree

\* _resolve_commit() in the clone: a policy that only reads works right there.
CommitResolved(p) ==
    /\ prep[p].at = "commit"
    /\ \E yes \in HasCommits(canonical[prep[p].ask.repo]) :
          IF ~yes THEN Goes(p, "failed")
          ELSE IF prep[p].ask.policy = "review" THEN Returns(p, "canonical")
          ELSE EnsureWorktree(p)
    /\ UNCHANGED <<canonical, tree>>

\* _is_git_worktree() of a tree that exists: one that is none is only taken when empty.
TreeChecked(p) ==
    /\ prep[p].at = "tree"
    /\ \E yes \in IsWorkTree(TreeOf(prep[p].ask).state) :
          IF yes THEN IF prep[p].ask.commit = None THEN Returns(p, "tree") ELSE Goes(p, "head")
          ELSE Goes(p, "add") \/ Goes(p, "failed")
    /\ UNCHANGED <<canonical, tree>>

\* Mutant of HeadChecked: an existing worktree will do.
HeadTaken(p) ==
    /\ prep[p].at = "head"
    /\ Returns(p, "tree")
    /\ UNCHANGED <<canonical, tree>>

\* _current_commit() of a tree that exists: it must be the pinned one.  Of one that was cut
\* short it may not be known.
HeadChecked(p) ==
    /\ prep[p].at = "head"
    /\ \/ TreeOf(prep[p].ask).head = prep[p].ask.commit /\ Returns(p, "tree")
       \/ /\ TreeOf(prep[p].ask).head = prep[p].ask.commit => TreeOf(prep[p].ask).state = "half"
          /\ Goes(p, "failed")
    /\ UNCHANGED <<canonical, tree>>

\* git worktree add --detach: at the commit, or at HEAD of the clone.
Added(a) == [state |-> "whole", stray |-> FALSE,
             head |-> IF a.commit = None THEN Upstream ELSE a.commit]

TreeAdded(p) ==
    LET a == prep[p].ask IN
    /\ prep[p].at = "add"
    /\ \/ /\ TRUE \in HasCommits(canonical[a.repo])
          /\ tree' = [tree EXCEPT ![a.channel][a.repo] = Added(a)]
          /\ Returns(p, "tree")
       \/ UNCHANGED tree /\ Goes(p, "failed")
    /\ UNCHANGED canonical

\* _single_existing_repo_worktree(): one tree is taken, none or several are not.
ScanEnds(p) ==
    LET c == prep[p].ask.channel IN
    /\ prep[p].at = "scan"
    /\ \E found \in SUBSET Trees(c) :
          /\ {r \in Repos : tree[c][r].state = "whole"} \subseteq found
          /\ IF \E r \in Repos : found = {r}
             THEN prep' = [prep EXCEPT ![p].at = "done", ![p].path = "tree",
                              ![p].ask.repo = CHOOSE r \in Repos : found = {r}]
             ELSE Returns(p, "root")
    /\ UNCHANGED <<canonical, tree>>

-----------------------------------------------------------------------------
\* External: the agent of a turn in channel c makes a worktree or moves one.
AgentMoves(c, r, commit, stray) ==
    /\ canonical[r] = "whole"
    /\ tree' = [tree EXCEPT ![c][r] = [state |-> "whole", head |-> commit, stray |-> stray]]
    /\ UNCHANGED <<canonical, prep>>

\* A crash kills the commands with the gateway: what they were making may be left behind.
CutShort ==
    /\ canonical' \in [Repos -> {"absent", "cloning", "half", "whole"}]
    /\ \A r \in Repos : IF canonical[r] = "cloning" THEN canonical'[r] \in {"absent", "half"}
                        ELSE canonical'[r] = canonical[r]
    /\ \E cut \in SUBSET {p \in Preparers : prep[p].at = "add"} :
          tree' = [c \in Channels |-> [r \in Repos |->
             IF \E p \in cut : prep[p].ask.channel = c /\ prep[p].ask.repo = r
             THEN LET p == CHOOSE p \in cut : prep[p].ask.channel = c /\ prep[p].ask.repo = r
                  IN [Added(prep[p].ask) EXCEPT !.state = "half"]
             ELSE tree[c][r]]]
    /\ prep' = [p \in Preparers |-> NotPreparing]

GitStep(p) ==
    \/ CanonicalChecked(p) \/ CloneBegins(p) \/ CloneEnds(p) \/ CommitResolved(p)
    \/ TreeChecked(p) \/ HeadChecked(p) \/ TreeAdded(p) \/ ScanEnds(p)
=============================================================================
