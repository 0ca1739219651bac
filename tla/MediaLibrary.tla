---------------------------- MODULE MediaLibrary ----------------------------
(* What the media library promises the owner of a station, whoever uploads, *)
(* works, retries, expires or cleans up behind it: an asset is submitted    *)
(* once and decided once, it plays what was submitted and nothing else for  *)
(* as long as it exists, only what was never submitted is dropped, and the  *)
(* station's quota holds.  MediaJobs implements it.                         *)
EXTENDS Integers, FiniteSets

CONSTANTS
  Asset,
  Source,   \* what an asset can be made of
  Attempt,  \* attempts at making it; 0 is none of them
  Limit,    \* assets the quota has room for
  Nothing

VARIABLES
  stage,    \* where each asset is in its life
  shelved,  \* the decided assets that their owner has put away
  source,   \* what was submitted, or Nothing
  version,  \* the attempt that is published, or 0
  content   \* what the published result was made of, or Nothing

library == <<stage, shelved, source, version, content>>

Stage == {"none", "reserved", "pending", "playable", "failed", "dropped", "gone"}

Held == {a \in Asset : stage[a] \notin {"none", "gone"}}
HasRoom == Cardinality(Held) < Limit

Becomes(a, from, to) == stage[a] = from /\ stage' = [stage EXCEPT ![a] = to]

Init ==
  /\ stage = [a \in Asset |-> "none"] /\ shelved = {}
  /\ source = [a \in Asset |-> Nothing]
  /\ version = [a \in Asset |-> 0]
  /\ content = [a \in Asset |-> Nothing]

Reserve(a) ==
  HasRoom /\ Becomes(a, "none", "reserved") /\ UNCHANGED <<shelved, source, version, content>>

Submit(a) ==
  /\ Becomes(a, "reserved", "pending")
  /\ \E s \in Source : source' = [source EXCEPT ![a] = s]
  /\ UNCHANGED <<shelved, version, content>>

\* An asset cut out of another one takes its room and is submitted in one step.
Cut(a) ==
  HasRoom /\ Becomes(a, "none", "pending") /\ UNCHANGED <<shelved, source, version, content>>

Publish(a) ==
  /\ Becomes(a, "pending", "playable")
  /\ \E n \in Attempt : version' = [version EXCEPT ![a] = n]
  /\ content' = [content EXCEPT ![a] = source[a]]
  /\ UNCHANGED <<shelved, source>>

Fail(a) == Becomes(a, "pending", "failed") /\ UNCHANGED <<shelved, source, version, content>>

PutAway(a) ==
  /\ stage[a] \in {"playable", "failed"} /\ a \notin shelved
  /\ shelved' = shelved \cup {a}
  /\ UNCHANGED <<stage, source, version, content>>

TakeBack(a) ==
  /\ a \in shelved
  /\ shelved' = shelved \ {a}
  /\ UNCHANGED <<stage, source, version, content>>

Drop(a) == Becomes(a, "reserved", "dropped") /\ UNCHANGED <<shelved, source, version, content>>

\* The room of what was dropped is free again.
Forget(a) == Becomes(a, "dropped", "gone") /\ UNCHANGED <<shelved, source, version, content>>

Next ==
  \E a \in Asset :
    \/ Reserve(a) \/ Submit(a) \/ Cut(a) \/ Publish(a) \/ Fail(a)
    \/ PutAway(a) \/ TakeBack(a) \/ Drop(a) \/ Forget(a)

Spec == Init /\ [][Next]_library

-----------------------------------------------------------------------------
(* What follows from it *)

\* Exactly what is playable was published, and it was made of what was submitted.
PlaysItsSource ==
  \A a \in Asset :
    /\ stage[a] = "playable" <=> version[a] # 0
    /\ version[a] # 0 => content[a] = source[a]

\* Whatever is uploaded, cut, given up and restored, the station stays in its quota.
InQuota == Cardinality(Held) <= Limit

\* A decision is for good, and so is what an asset was made of.
Decided(a) == stage[a] \in {"playable", "failed", "gone"}
DecidedOnce ==
  [][ \A a \in Asset :
        /\ Decided(a) => stage'[a] = stage[a]
        /\ version[a] # 0 => version'[a] = version[a] /\ content'[a] = content[a]
        /\ stage[a] \notin {"none", "reserved"} => source'[a] = source[a] ]_library
=============================================================================
