---------------------------- MODULE SegmentLog ----------------------------
(* What the journal of a television station promises those who play from it *)
(* (lib/tv-hls.ts), whoever writes it, whenever and from whatever plan: one *)
(* timeline of numbered segments that owners extend at its end, one owner   *)
(* after the other, and whose oldest segments are forgotten.  TvPlayout     *)
(* implements it.                                                           *)
EXTENDS Integers

VARIABLES
  rows,   \* media sequence -> segment
  owner,  \* the fence of the owner in charge; 0: none yet
  closed  \* the channel is gone for good

log == <<rows, owner, closed>>

Segment == [starts : Int, ends : Int, disc : BOOLEAN, discSeq : Nat, fence : Nat]

\* The discontinuity sequence that a segment behind r has.
CountedTo(r) == r.discSeq + IF r.disc THEN 1 ELSE 0

\* q may be played right after r.
Continues(r, q) ==
  /\ q.discSeq = CountedTo(r)
  /\ q.starts >= r.ends
  /\ q.starts > r.ends => q.disc

Init ==
  /\ rows = [m \in {} |-> 0]
  /\ owner = 0 /\ closed = FALSE

\* Another process is in charge from now on.
TakeOver ==
  /\ ~closed
  /\ owner' = owner + 1
  /\ UNCHANGED <<rows, closed>>

\* The owner adds segments behind the last one, or the first ones from 0 on.
Extend ==
  LET New == DOMAIN rows' \ DOMAIN rows IN
  /\ ~closed
  /\ DOMAIN rows \subseteq DOMAIN rows'
  /\ \A m \in DOMAIN rows : rows'[m] = rows[m]
  /\ \A m \in New :
       /\ rows'[m] \in Segment
       /\ rows'[m].starts < rows'[m].ends
       /\ rows'[m].fence = owner
       /\ \A k \in DOMAIN rows : k < m
       /\ IF m - 1 \in DOMAIN rows' THEN Continues(rows'[m - 1], rows'[m])
          ELSE m = 0 /\ rows'[m].discSeq = 0
  /\ UNCHANGED <<owner, closed>>

\* The oldest segments are forgotten, never all of them.
Forget ==
  /\ DOMAIN rows' # {} /\ DOMAIN rows' \subseteq DOMAIN rows
  /\ \A m \in DOMAIN rows' : rows'[m] = rows[m]
  /\ \A m \in DOMAIN rows', k \in DOMAIN rows : k > m => k \in DOMAIN rows'
  /\ UNCHANGED <<owner, closed>>

\* The station is purged: no number is ever given out again.
Close ==
  /\ closed' = TRUE
  /\ DOMAIN rows' = {} /\ owner' = 0

Next == TakeOver \/ Extend \/ Forget \/ Close

Spec == Init /\ [][Next]_log
=============================================================================
