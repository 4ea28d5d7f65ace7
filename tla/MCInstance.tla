----------------------------- MODULE MCInstance ----------------------------
\* Three daemons on one data directory, two of them with the same socket path.
EXTENDS Instance, TLC

CONSTANTS a, b, c

MCDirOf == [d \in Daemons |-> "dir"]
MCSocketOf == [d \in Daemons |-> IF d = c THEN "other" ELSE "socket"]

\* The two with the same configuration can be exchanged.
DaemonSymmetry == Permutations({a, b})

=============================================================================
