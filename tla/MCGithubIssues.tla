---------------------------- MODULE MCGithubIssues ----------------------------
EXTENDS GithubIssues, TLC

\* "timeout" and its wrapper "RuntimeError: timeout".
MCFingerprintOf == [f \in Findings |-> f]
MCRestates == {<<"wrapper", "timeout">>}
MCSymmetry == Permutations(Threads) \cup Permutations(Instances)
===============================================================================
