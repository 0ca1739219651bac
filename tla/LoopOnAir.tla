------------------------------ MODULE LoopOnAir ------------------------------
(* What the viewers of a television station are promised, whatever its owner *)
(* edits and publishes: the loop on air is watched to the end of a cycle,    *)
(* where the loop announced for that instant follows it, unless the owner    *)
(* puts another one on air at once or stops the station; and a station that  *)
(* is resumed goes on where it was left.  There are no edits, snapshots or   *)
(* late promotions here: what is due is on air.  SchedulePublication         *)
(* implements it.                                                            *)
EXTENDS Integers

CONSTANTS
  Loop,     \* what can loop; a record with a period
  Nothing

VARIABLES
  now,      \* the clock
  calendar, \* whether calendar programming is active
  airing,   \* the loop on air and the time its first cycle began, or Nothing
  next,     \* the loop announced and the time it begins, or Nothing
  left      \* the loop of a stopped station and the position in it, or Nothing

air == <<now, calendar, airing, next, left>>

\* The end of the cycle that the loop "on" is in at time t, as the one member of a set.
CycleEnds(on, t) ==
  {at \in t + 1 .. t + on.loop.period : (at - on.since) % on.loop.period = 0}

Announced(on) ==
  \/ next' = Nothing
  \/ next' \in [loop : Loop, at : CycleEnds(on, now)]

Init == now = 0 /\ calendar = FALSE /\ airing = Nothing /\ next = Nothing /\ left = Nothing

\* A loop goes on air from its beginning.
Begin ==
  /\ airing = Nothing
  /\ airing' \in [loop : Loop, since : {now}]
  /\ next' = Nothing /\ left' = Nothing
  /\ UNCHANGED <<now, calendar>>

\* The loop that was left goes on where it was left.
Resume ==
  /\ airing = Nothing /\ left # Nothing /\ ~calendar
  /\ airing' = [loop |-> left.loop,
                since |-> now - left.cycle * left.loop.period - left.offset]
  /\ Announced(airing') /\ left' = Nothing
  /\ UNCHANGED <<now, calendar>>

\* Under a calendar the loop runs on while the station is stopped.
RunOn ==
  /\ airing = Nothing /\ calendar
  /\ airing' \in [loop : Loop, since : 0 .. now]
  /\ Announced(airing') /\ left' = Nothing
  /\ UNCHANGED <<now, calendar>>

Stop ==
  /\ airing # Nothing
  /\ airing' = Nothing /\ next' = Nothing
  /\ left' = IF calendar THEN Nothing
             ELSE [loop |-> airing.loop,
                   cycle |-> (now - airing.since) \div airing.loop.period,
                   offset |-> (now - airing.since) % airing.loop.period]
  /\ UNCHANGED <<now, calendar>>

\* The station is deleted: its position is lost.
TakeOff ==
  /\ airing # Nothing
  /\ airing' = Nothing /\ next' = Nothing /\ left' = Nothing
  /\ UNCHANGED <<now, calendar>>

\* Another loop is put on air at once.
Replace ==
  /\ airing # Nothing
  /\ airing' \in [loop : Loop, since : {now}]
  /\ next' = Nothing
  /\ UNCHANGED <<now, calendar, left>>

\* What is announced may change; when it begins may not.
Announce ==
  /\ airing # Nothing
  /\ next' \in [loop : Loop,
                at : IF next = Nothing THEN CycleEnds(airing, now) ELSE {next.at}]
  /\ UNCHANGED <<now, calendar, airing, left>>

Withdraw == next' = Nothing /\ UNCHANGED <<now, calendar, airing, left>>

\* A loop published for a stopped station takes the place of the one it was left in.
Forget == airing = Nothing /\ left' = Nothing /\ UNCHANGED <<now, calendar, airing, next>>

EnterCalendar == ~calendar /\ calendar' = TRUE /\ UNCHANGED <<now, airing, next, left>>

\* Time passes, and what is announced for that instant is on air.
Tick ==
  /\ now' = now + 1
  /\ IF next # Nothing /\ next.at = now'
     THEN airing' = [loop |-> next.loop, since |-> now'] /\ next' = Nothing
     ELSE UNCHANGED <<airing, next>>
  /\ UNCHANGED <<calendar, left>>

Next ==
  \/ Begin \/ Resume \/ RunOn \/ Stop \/ TakeOff \/ Replace
  \/ Announce \/ Withdraw \/ Forget \/ EnterCalendar \/ Tick

Spec == Init /\ [][Next]_air

-----------------------------------------------------------------------------
(* What follows from it *)

\* What is announced begins at the end of the cycle that is on air: viewers wait for
\* it no longer than one cycle.
AnnouncedForCycleEnd ==
  next # Nothing => airing # Nothing /\ next.at \in CycleEnds(airing, now)

\* While the station stays on air, a loop that was not replaced at once has been
\* watched to the end of a cycle, and what follows is what was announced.
WatchedToTheEnd ==
  [][ airing # Nothing /\ airing' # Nothing /\ airing' # airing =>
        \/ now' = now /\ airing'.since = now
        \/ /\ next # Nothing /\ airing' = [loop |-> next.loop, since |-> next.at]
           /\ now' = next.at /\ (now' - airing.since) % airing.loop.period = 0 ]_air
=============================================================================
