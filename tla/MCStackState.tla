--------------------------- MODULE MCStackState ---------------------------
(* Instances of StackState for TLC.                                        *)
EXTENDS StackState

CONSTANTS a1, a2, m, u, rb, s, o

Everyone == {a1, a2, m, u, rb, s}
TwoRunsAndUnlock == {a1, a2, u, o}
TwoRuns == {a1, a2, o}
Snapshots == {a1, a2, s, rb}

KindOf == [q \in Requests |->
  CASE q \in {a1, a2} -> "apply"
    [] q = m -> "lock"
    [] q = u -> "unlock"
    [] q = rb -> "rollback"
    [] q = s -> "snapshot"
    [] q = o -> "overview"]

NoMishap == {}
Overlapping == {"overlap"}
Purges == {"purge"}
Crashes == {"crash", "force", "purge", "long"}
=============================================================================
