------------------------------ MODULE MCDaemon ------------------------------
(* The daemon for TLC, with an LND of the minimal version and one that is   *)
(* too old, and has_version compared with the order of the versions.        *)
EXTENDS Daemon

V(a, b, c, d) == [major |-> a, minor |-> b, patch |-> c, pre |-> d]

MCMinVersion == V(0, 1, 1, 1)

MCLnds ==
    {[onion |-> TRUE, tags |-> TRUE, version |-> v] : v \in {V(0, 1, 1, 1), V(0, 0, 2, 2)}}

Rank(v) == 27 * v.major + 9 * v.minor + 3 * v.patch + v.pre

ASSUME VersionsAreOrdered ==
    \A a, b, c, d \in 0..2 :
        has_version(V(a, b, c, d)) <=> Rank(V(a, b, c, d)) >= Rank(MinVersion)
=============================================================================
