------------------------------ MODULE Worktree ------------------------------
(***************************************************************************)
(* The disposable git worktree of one experiment and the lease that coding *)
(* and execution share over it (git/worktrees.py, git/patches.py).  The    *)
(* commits of the experiment's branch are numbered in the order they are   *)
(* made; 0 is the trusted parent.  A diff is relative to HEAD.             *)
(***************************************************************************)
EXTENDS Naturals, Sequences, FiniteSets

CONSTANTS Diffs,     \* contents an edit may leave in the worktree
          NoDiff,
          MaxFaults  \* bound: faults of git, docker, disk and candidate, other holders

ASSUME WorktreeAssumption == NoDiff \notin Diffs /\ MaxFaults \in Nat

VARIABLES
    tree,      \* the branch, its worktree, the index and the files
    commits,   \* commits of the branch: base and diff
    lock,      \* who holds the two locks of the lease
    faults

wvars == <<tree, commits, lock, faults>>

WorktreeInit ==
    /\ tree = [branch |-> FALSE, there |-> FALSE, head |-> 0,
               index |-> NoDiff, files |-> NoDiff]
    /\ commits = <<>>
    /\ lock = [thread |-> "free", file |-> "free"]
    /\ faults = 0

Clean == tree.files = NoDiff /\ tree.index = NoDiff

\* HEAD of the registered worktree is the commit that the caller names.
AtHead(commit) == tree.there /\ tree.head = commit

\* attach: and no tracked, untracked or ignored path differs from it.
Attaches(commit) == AtHead(commit) /\ Clean

\* create needs a new path: with a new branch, or for a later attempt with the
\* branch there is.
CanCreate(reuse) == ~tree.there /\ tree.branch = reuse
Created == [tree EXCEPT !.branch = TRUE, !.there = TRUE]
\* A failure half way is rolled back as far as git lets it, the worktree and then a
\* branch that was not there before.
RolledBack == {tree, [tree EXCEPT !.branch = TRUE], Created}

\* git add --all: the index holds what the files hold.
Staged == [tree EXCEPT !.index = tree.files]

\* git commit: HEAD moves, and the tree is clean if nothing was left unstaged.
Committed ==
    [tree EXCEPT !.head = Len(commits) + 1, !.index = NoDiff,
                 !.files = IF tree.files = tree.index THEN NoDiff ELSE tree.files]

\* git reset --hard: what git does not track is left behind (also a mutant of ResetTo).
ResetTracked(commit) == [tree EXCEPT !.head = commit, !.index = NoDiff]
\* git reset --hard and git clean.
ResetTo(commit) == [tree EXCEPT !.head = commit, !.index = NoDiff, !.files = NoDiff]
ResetStops(commit) == {tree, ResetTracked(commit), ResetTo(commit)}

Fault == faults < MaxFaults /\ faults' = faults + 1
NoFault == UNCHANGED faults

(***************************************************************************)
(* The lease: a lock of the process and then a lock of the machine, under  *)
(* one deadline.  A holder in another process has the second alone.        *)
(***************************************************************************)
TakeThread(me) == lock.thread = "free" /\ lock' = [lock EXCEPT !.thread = me]
TakeFile(me) == lock.file = "free" /\ lock' = [lock EXCEPT !.file = me]
\* Mutant of ReleaseThread: a timeout of the second lock keeps the first.
KeepThread == UNCHANGED lock
ReleaseThread == lock' = [lock EXCEPT !.thread = "free"]
ReleaseLease == lock' = [thread |-> "free", file |-> "free"]

OtherProcess ==
    /\ tree.there
    /\ \/ lock.file = "free" /\ lock' = [lock EXCEPT !.file = "other"] /\ Fault
       \/ lock.file = "other" /\ lock' = [lock EXCEPT !.file = "free"] /\ NoFault
    /\ UNCHANGED <<tree, commits>>
=============================================================================
