----------------------- MODULE MCRadioProgramming -----------------------
EXTENDS RadioProgramming, TLC

CONSTANTS c1, c2

\* Two releases of one profile.
MCProfileOf == [c \in Calendar |-> "calendar"]

Symmetry == Permutations(Calendar)
=============================================================================
