-------------------------- MODULE MCRadioPlayout --------------------------
EXTENDS RadioPlayout

CONSTANTS h1, h2

\* No calendar releases.
NoProfile == [c \in Calendar |-> Baseline]
=============================================================================
