---------------------------- MODULE MCOtaUpdate -----------------------------
(* The factory release, its re-release without a digest, and a newer one.    *)
EXTENDS OtaUpdate

CONSTANTS factory, same, next, none, p1

MCVersion ==
    [r \in Releases \cup {Factory} |-> IF r = next THEN 2 ELSE 1]

\* All the races but one, each in turn.
MCRegimes == {RaceNames \ {r} : r \in RaceNames}
=============================================================================
