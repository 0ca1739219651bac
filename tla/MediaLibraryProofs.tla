------------------------- MODULE MediaLibraryProofs -------------------------
(* What follows from MediaLibrary for any assets, sources, attempts and     *)
(* quota.  0 is the version of what is not published, hence no attempt.     *)
EXTENDS MediaLibrary, FiniteSetTheorems, TLAPS

LibraryTypeOK ==
  /\ stage \in [Asset -> Stage] /\ shelved \in SUBSET Asset
  /\ source \in [Asset -> Source \cup {Nothing}]
  /\ version \in [Asset -> Attempt \cup {0}]
  /\ content \in [Asset -> Source \cup {Nothing}]

\* Finitely many assets hold room at any time, however many there could be.
WithinQuota == IsFiniteSet(Held) /\ InQuota

LibraryInv == LibraryTypeOK /\ PlaysItsSource /\ WithinQuota

\* An asset that takes room takes some that was free; nothing else takes any.
LEMMA RoomTaken ==
  ASSUME Limit \in Nat, WithinQuota, NEW a \in Asset, HasRoom,
         Held' \subseteq Held \cup {a}
  PROVE  WithinQuota'
<1>1. /\ IsFiniteSet(Held \cup {a})
      /\ Cardinality(Held \cup {a}) =
           IF a \in Held THEN Cardinality(Held) ELSE Cardinality(Held) + 1
  BY FS_AddElement DEF WithinQuota
<1>2. /\ IsFiniteSet(Held')
      /\ Cardinality(Held') <= Cardinality(Held \cup {a})
  BY <1>1, FS_Subset
<1>3. Cardinality(Held) \in Nat /\ Cardinality(Held') \in Nat
      /\ Cardinality(Held \cup {a}) \in Nat
  BY <1>1, <1>2, FS_CardinalityType DEF WithinQuota
<1>4. Cardinality(Held) < Limit
  BY DEF HasRoom
<1>5. Cardinality(Held') <= Limit
  BY <1>1, <1>2, <1>3, <1>4
<1> QED BY <1>2, <1>5 DEF WithinQuota, InQuota

LEMMA NoRoomTaken ==
  ASSUME Limit \in Nat, WithinQuota, Held' \subseteq Held
  PROVE  WithinQuota'
<1>1. IsFiniteSet(Held') /\ Cardinality(Held') <= Cardinality(Held)
  BY FS_Subset DEF WithinQuota
<1>2. Cardinality(Held) \in Nat /\ Cardinality(Held') \in Nat
  BY <1>1, FS_CardinalityType DEF WithinQuota
<1>3. Cardinality(Held') <= Limit
  BY <1>1, <1>2 DEF WithinQuota, InQuota
<1> QED BY <1>1, <1>3 DEF WithinQuota, InQuota

\* What becoming something else does to the stages and to the room.
LEMMA BecomesProperty ==
  ASSUME stage \in [Asset -> Stage], NEW a \in Asset, NEW from, NEW to \in Stage,
         Becomes(a, from, to)
  PROVE  /\ stage' \in [Asset -> Stage] /\ stage[a] = from /\ stage'[a] = to
         /\ \A b \in Asset : b # a => stage'[b] = stage[b]
         /\ Held' \subseteq Held \cup {a}
         /\ from \notin {"none", "gone"} => Held' \subseteq Held
BY DEF Becomes, Held

LEMMA InitLibrary ==
  ASSUME Limit \in Nat, 0 \notin Attempt, Init
  PROVE  LibraryInv
<1>1. LibraryTypeOK /\ PlaysItsSource
  BY DEF Init, LibraryTypeOK, PlaysItsSource, Stage
<1>2. Held = {}
  BY DEF Init, Held
<1>3. WithinQuota
  BY <1>2, FS_EmptySet DEF WithinQuota, InQuota
<1> QED BY <1>1, <1>3 DEF LibraryInv

\* The step by what it does to the room and to what is published.
LEMMA LibraryStep ==
  ASSUME Limit \in Nat, 0 \notin Attempt, LibraryInv, [Next]_library
  PROVE  LibraryInv'
<1>0. /\ stage \in [Asset -> Stage] /\ shelved \in SUBSET Asset
      /\ source \in [Asset -> Source \cup {Nothing}]
      /\ version \in [Asset -> Attempt \cup {0}]
      /\ content \in [Asset -> Source \cup {Nothing}]
      /\ PlaysItsSource /\ WithinQuota
  BY DEF LibraryInv, LibraryTypeOK
<1>1. CASE UNCHANGED library
  <2>1. Held' = Held
    BY <1>1 DEF library, Held
  <2> QED BY <1>0, <1>1, <2>1, NoRoomTaken
          DEF library, LibraryInv, LibraryTypeOK, PlaysItsSource
<1>2. ASSUME NEW a \in Asset, Reserve(a) \/ Cut(a)
      PROVE  LibraryInv'
  <2>1. PICK to \in {"reserved", "pending"} : Becomes(a, "none", to)
    BY <1>2 DEF Reserve, Cut
  <2>2. to \in Stage /\ UNCHANGED <<shelved, source, version, content>> /\ HasRoom
    BY <1>2 DEF Reserve, Cut, Stage
  <2>3. WithinQuota'
    BY <1>0, <2>1, <2>2, BecomesProperty, RoomTaken
  <2>4. PlaysItsSource'
    BY <1>0, <2>1, <2>2, BecomesProperty DEF PlaysItsSource
  <2> QED BY <1>0, <2>1, <2>2, <2>3, <2>4, BecomesProperty DEF LibraryInv, LibraryTypeOK
<1>3. ASSUME NEW a \in Asset, Fail(a) \/ Drop(a) \/ Forget(a)
      PROVE  LibraryInv'
  <2>1. PICK from \in {"pending", "reserved", "dropped"}, to \in {"failed", "dropped", "gone"} :
          Becomes(a, from, to)
    BY <1>3 DEF Fail, Drop, Forget
  <2>2. to \in Stage /\ UNCHANGED <<shelved, source, version, content>>
    BY <1>3 DEF Fail, Drop, Forget, Stage
  <2>3. WithinQuota'
    BY <1>0, <2>1, <2>2, BecomesProperty, NoRoomTaken
  <2>4. PlaysItsSource'
    BY <1>0, <2>1, <2>2, BecomesProperty DEF PlaysItsSource
  <2> QED BY <1>0, <2>1, <2>2, <2>3, <2>4, BecomesProperty DEF LibraryInv, LibraryTypeOK
<1>4. ASSUME NEW a \in Asset, Submit(a)
      PROVE  LibraryInv'
  <2>1. /\ Becomes(a, "reserved", "pending") /\ "pending" \in Stage
        /\ UNCHANGED <<shelved, version, content>>
    BY <1>4 DEF Submit, Stage
  <2>2. /\ source' \in [Asset -> Source \cup {Nothing}]
        /\ \A b \in Asset : b # a => source'[b] = source[b]
    BY <1>0, <1>4 DEF Submit
  <2>3. WithinQuota'
    BY <1>0, <2>1, BecomesProperty, NoRoomTaken
  <2>4. PlaysItsSource'
    BY <1>0, <2>1, <2>2, BecomesProperty DEF PlaysItsSource
  <2> QED BY <1>0, <2>1, <2>2, <2>3, <2>4, BecomesProperty DEF LibraryInv, LibraryTypeOK
<1>5. ASSUME NEW a \in Asset, Publish(a)
      PROVE  LibraryInv'
  <2>1. /\ Becomes(a, "pending", "playable") /\ "playable" \in Stage
        /\ UNCHANGED <<shelved, source>>
    BY <1>5 DEF Publish, Stage
  <2>2. /\ version' \in [Asset -> Attempt \cup {0}] /\ version'[a] # 0
        /\ \A b \in Asset : b # a => version'[b] = version[b]
    BY <1>0, <1>5 DEF Publish
  <2>3. /\ content' \in [Asset -> Source \cup {Nothing}] /\ content'[a] = source[a]
        /\ \A b \in Asset : b # a => content'[b] = content[b]
    BY <1>0, <1>5 DEF Publish
  <2>4. WithinQuota'
    BY <1>0, <2>1, BecomesProperty, NoRoomTaken
  <2>5. PlaysItsSource'
    BY <1>0, <2>1, <2>2, <2>3, BecomesProperty DEF PlaysItsSource
  <2> QED BY <1>0, <2>1, <2>2, <2>3, <2>4, <2>5, BecomesProperty
          DEF LibraryInv, LibraryTypeOK
<1>6. ASSUME NEW a \in Asset, PutAway(a) \/ TakeBack(a)
      PROVE  LibraryInv'
  <2>1. /\ UNCHANGED <<stage, source, version, content>> /\ shelved' \in SUBSET Asset
    BY <1>0, <1>6 DEF PutAway, TakeBack
  <2>2. Held' = Held
    BY <2>1 DEF Held
  <2> QED BY <1>0, <2>1, <2>2, NoRoomTaken DEF LibraryInv, LibraryTypeOK, PlaysItsSource
<1> QED BY <1>1, <1>2, <1>3, <1>4, <1>5, <1>6 DEF Next

THEOREM LibraryInvariant ==
  ASSUME Limit \in Nat, 0 \notin Attempt
  PROVE  Spec => []LibraryInv
<1>1. Init => LibraryInv
  BY InitLibrary
<1>2. LibraryInv /\ [Next]_library => LibraryInv'
  BY LibraryStep
<1> QED BY <1>1, <1>2, PTL DEF Spec

\* Exactly what is playable was published, made of what was submitted, and what holds
\* room never exceeds the quota.
THEOREM LibraryKept ==
  ASSUME Limit \in Nat, 0 \notin Attempt
  PROVE  Spec => [](PlaysItsSource /\ InQuota)
<1>1. LibraryInv => PlaysItsSource /\ InQuota
  BY DEF LibraryInv, WithinQuota
<1> QED BY <1>1, LibraryInvariant, PTL

\* No asset is decided twice, submitted twice or published twice.
THEOREM LibraryDecidedOnce ==
  ASSUME Limit \in Nat, 0 \notin Attempt
  PROVE  Spec => DecidedOnce
<1>1. ASSUME LibraryInv, [Next]_library, NEW a \in Asset
      PROVE  /\ Decided(a) => stage'[a] = stage[a]
             /\ version[a] # 0 => version'[a] = version[a] /\ content'[a] = content[a]
             /\ stage[a] \notin {"none", "reserved"} => source'[a] = source[a]
  <2>1. LibraryTypeOK /\ (stage[a] = "playable" <=> version[a] # 0)
    BY <1>1 DEF LibraryInv, PlaysItsSource
  <2>2. CASE UNCHANGED library
    BY <2>2 DEF library
  <2>3. ASSUME NEW b \in Asset, NEW from \in {"none", "reserved", "pending", "dropped"},
               NEW to, Becomes(b, from, to)
        PROVE  Decided(a) => stage'[a] = stage[a]
    BY <2>1, <2>3 DEF LibraryTypeOK, Becomes, Decided
  <2>4. ASSUME NEW b \in Asset, Submit(b)
        PROVE  stage[a] \notin {"none", "reserved"} => source'[a] = source[a]
    BY <2>1, <2>4 DEF LibraryTypeOK, Submit, Becomes
  <2>5. ASSUME NEW b \in Asset, Publish(b)
        PROVE  version[a] # 0 => version'[a] = version[a] /\ content'[a] = content[a]
    BY <2>1, <2>5 DEF LibraryTypeOK, Publish, Becomes
  <2> QED BY <1>1, <2>2, <2>3, <2>4, <2>5
          DEF Next, Reserve, Submit, Cut, Publish, Fail, PutAway, TakeBack, Drop, Forget
<1>2. LibraryInv /\ [Next]_library =>
        [\A a \in Asset :
           /\ Decided(a) => stage'[a] = stage[a]
           /\ version[a] # 0 => version'[a] = version[a] /\ content'[a] = content[a]
           /\ stage[a] \notin {"none", "reserved"} => source'[a] = source[a]]_library
  BY <1>1
<1> QED BY <1>2, LibraryInvariant, PTL DEF Spec, DecidedOnce
=============================================================================
