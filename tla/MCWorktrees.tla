----------------------------- MODULE MCWorktrees -----------------------------
EXTENDS Worktrees, TLC

\* Generations, resuming terminals and sessions are interchangeable.
SameNames == Permutations(Runtimes) \cup Permutations(Resumes) \cup Permutations(Sessions)

=============================================================================
