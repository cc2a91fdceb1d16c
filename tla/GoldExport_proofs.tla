------------------------- MODULE GoldExport_proofs -------------------------
(***************************************************************************)
(* Proofs about ReviewGold and GoldExport for any number of reviewers,     *)
(* entries, keys, people and kills.                                        *)
(*                                                                         *)
(* ReviewInv is inductive for the review commands; what it adds to the     *)
(* safety properties is what a command in progress still knows of the      *)
(* database: the version it has computed is at most one above what there   *)
(* is, and the transition it has found legal is legal from a status the    *)
(* entry has had.  The reviewers go on as ReviewGold specifies although the *)
(* INSERT and the commit of a promotion are two steps in GoldExport and    *)
(* exports run between them (ExportRefinesReview), and with ExportInv an   *)
(* answer about the past is final.                                         *)
(***************************************************************************)
EXTENDS GoldExport, FiniteSetTheorems, TLAPS

USE BoundsType, NoKeyNotKey

-----------------------------------------------------------------------------
(* Reviewers: the inductive invariant.                                     *)

\* The reviewers on their way to promote k.
Promoters(k) ==
    {w \in Reviewers :
        task[w].pc \in {"max_version", "add_version"} /\ task[w].key = k}

Promoting == {"max_version", "add_version"}

\* Only a promotion is on its way to an INSERT, and it has a key.
PromotionsHaveKeys ==
    \A w \in Reviewers : task[w].pc \in Promoting => task[w].key \in Keys

GoldIsFinite == \A k \in Keys : IsFiniteSet(gold[k])

\* The bound leaves room for every promotion that has begun.
PromotionsAreBounded == \A k \in Keys : Promotions(k) <= MaxVersions

\* Versions are never taken away: what a reviewer has read as the highest version
\* is at most the highest there is now.
NextIsNearby ==
    \A w \in Reviewers :
        At(w, "add_version") => task[w].next \in 1 .. Cardinality(gold[task[w].key]) + 1

\* The trail of an entry begins with its row.
TrailFollowsStatus ==
    \A e \in Entries :
        IF status[e] = "absent" THEN trail[e] = {} ELSE status[e] \in trail[e]

\* The transition a reviewer is about to write was legal for a status the entry
\* has had, perhaps not for the one it has now.
TransitionWasLegal ==
    \A w \in Reviewers :
        At(w, "update") =>
            \E earlier \in trail[task[w].entry] : task[w].target \in Legal(earlier)

ReviewInv ==
    /\ TypeOK
    /\ PromotionsHaveKeys
    /\ GoldIsFinite
    /\ PromotionsAreBounded
    /\ NextIsNearby
    /\ VersionsAreContiguous
    /\ TrailFollowsStatus
    /\ TransitionWasLegal
    /\ NoStageIsSkipped

-----------------------------------------------------------------------------
(* The operators.                                                          *)

\* The highest of 1 .. n is n, and that of no numbers is 0.
LEMMA HighestOfInterval ==
  ASSUME NEW n \in Nat
  PROVE  Highest(1 .. n) = n
<1>1. CASE n = 0
  BY <1>1 DEF Highest
<1>2. CASE n # 0
  <2>1. n \in 1 .. n /\ \A m \in 1 .. n : m <= n
    BY <1>2
  <2>2. \A h \in 1 .. n : (\A m \in 1 .. n : m <= h) => h = n
    BY <2>1
  <2>3. 1 .. n # {}
    BY <2>1
  <2> DEFINE h == CHOOSE x \in 1 .. n : \A m \in 1 .. n : m <= x
  <2>4. h \in 1 .. n /\ \A m \in 1 .. n : m <= h
    BY <2>1
  <2>5. h = n
    BY <2>2, <2>4
  <2> QED
    BY <2>3, <2>5 DEF Highest
<1> QED
  BY <1>1, <1>2

\* The promoters of a key are finitely many, so promotions can be counted.
LEMMA PromotersAreFinite ==
  ASSUME NEW k \in Keys, GoldIsFinite
  PROVE  /\ IsFiniteSet(Promoters(k)) /\ Cardinality(Promoters(k)) \in Nat
         /\ Cardinality(gold[k]) \in Nat
         /\ Promotions(k) = Cardinality(gold[k]) + Cardinality(Promoters(k))
<1>1. Promoters(k) \in SUBSET Reviewers
  BY DEF Promoters
<1>2. IsFiniteSet(Promoters(k))
  BY <1>1, ReviewersFinite, FS_Subset
<1>3. IsFiniteSet(gold[k])
  BY DEF GoldIsFinite
<1>4. Promotions(k) = Cardinality(gold[k]) + Cardinality(Promoters(k))
  BY DEF Promotions, Promoters
<1> QED
  BY <1>2, <1>3, <1>4, FS_CardinalityType

\* A reviewer who promotes k is among those the bound was checked for.
LEMMA RoomForPromoter ==
  ASSUME NEW w \in Reviewers, task[w].pc \in Promoting, task[w].key \in Keys,
         GoldIsFinite, PromotionsAreBounded
  PROVE  Cardinality(gold[task[w].key]) + 1 \in 1 .. MaxVersions
<1> DEFINE k == task[w].key
<1>1. w \in Promoters(k)
  BY DEF Promoters, Promoting
<1>2. /\ IsFiniteSet(Promoters(k)) /\ Cardinality(Promoters(k)) \in Nat
      /\ Cardinality(gold[k]) \in Nat
      /\ Promotions(k) = Cardinality(gold[k]) + Cardinality(Promoters(k))
  BY PromotersAreFinite
<1>3. Cardinality(Promoters(k)) # 0
  BY <1>1, <1>2, FS_EmptySet
<1>4. Promotions(k) <= MaxVersions
  BY DEF PromotionsAreBounded
<1> QED
  BY <1>2, <1>3, <1>4

\* A version of a key is a row of it.
LEMMA VersionsOfGold ==
  ASSUME NEW k \in Keys, NEW row \in gold[k]
  PROVE  row.version \in Versions(k)
BY DEF Versions

\* Computing MAX(version) + 1 yields the next number.
LEMMA VersionsOfKey ==
  ASSUME NEW k \in Keys, GoldIsFinite, VersionsAreContiguous
  PROVE  /\ Cardinality(gold[k]) \in Nat
         /\ Versions(k) = 1 .. Cardinality(gold[k])
         /\ Highest(Versions(k)) = Cardinality(gold[k])
BY PromotersAreFinite, HighestOfInterval DEF VersionsAreContiguous

-----------------------------------------------------------------------------
(* The invariant holds initially and is preserved by every step.           *)

\* Without rows and commands the invariant holds.
LEMMA ReviewInit == Init => ReviewInv
<1> SUFFICES ASSUME Init
             PROVE  ReviewInv
  OBVIOUS
<1>1. TypeOK /\ PromotionsHaveKeys /\ NextIsNearby /\ TrailFollowsStatus
      /\ TransitionWasLegal /\ NoStageIsSkipped
  BY DEF Init, TypeOK, PromotionsHaveKeys, Promoting, NextIsNearby, At, Free,
         TrailFollowsStatus, TransitionWasLegal, NoStageIsSkipped
<1>2. ASSUME NEW k \in Keys
      PROVE  /\ IsFiniteSet(gold[k])
             /\ Promotions(k) <= MaxVersions
             /\ Versions(k) = 1 .. Cardinality(gold[k])
             /\ Cardinality(Versions(k)) = Cardinality(gold[k])
  <2>1. gold[k] = {} /\ Promoters(k) = {} /\ Versions(k) = {}
    BY DEF Init, Promoters, Free, Versions
  <2>2. Promotions(k) = Cardinality(gold[k]) + Cardinality(Promoters(k))
    BY DEF Promotions, Promoters
  <2> QED
    BY <2>1, <2>2, FS_EmptySet
<1> QED
  BY <1>1, <1>2 DEF ReviewInv, GoldIsFinite, PromotionsAreBounded, VersionsAreContiguous

\* Types are preserved; the bound on versions holds because promotions are bounded.
LEMMA ReviewTypes ==
  ASSUME ReviewInv, [Next]_vars
  PROVE  TypeOK' /\ PromotionsHaveKeys'
<1> USE DEF ReviewInv, TypeOK, PromotionsHaveKeys, Promoting, Become, At, Free, Statuses
<1>1. ASSUME NEW e \in Entries, RecordError(e)
      PROVE  TypeOK' /\ PromotionsHaveKeys'
  BY <1>1 DEF RecordError
<1>2. ASSUME NEW w \in Reviewers, NEW e \in Entries, NEW t \in Statuses,
             StartTransition(w, e, t)
      PROVE  TypeOK' /\ PromotionsHaveKeys'
  BY <1>2 DEF StartTransition
<1>3. ASSUME NEW w \in Reviewers, NEW e \in Entries, NEW k \in Keys \union {NoKey},
             Approve(w, e, k)
      PROVE  TypeOK' /\ PromotionsHaveKeys'
  BY <1>3 DEF Approve
<1>4. ASSUME NEW w \in Reviewers, MaxVersion(w)
      PROVE  TypeOK' /\ PromotionsHaveKeys'
  <2>1. task[w].key \in Keys
    BY <1>4 DEF MaxVersion
  <2>2. Cardinality(gold[task[w].key]) + 1 \in 1 .. MaxVersions
    BY <1>4, <2>1, RoomForPromoter DEF MaxVersion
  <2>3. PICK n \in 1 .. MaxVersions : n = Highest(Versions(task[w].key)) + 1
    BY <2>1, <2>2, VersionsOfKey
  <2>4. /\ task' = [task EXCEPT ![w] = [task[w] EXCEPT !.pc = "add_version", !.next = n]]
        /\ task[w].pc = "max_version" /\ UNCHANGED <<status, gold, trail, kills>>
    BY <1>4, <2>3 DEF MaxVersion
  <2> DEFINE Commands ==
        [pc : {"max_version", "add_version", "get", "update"}, entry : Entries,
         target : Statuses, key : Keys \union {NoKey}, next : 0 .. MaxVersions]
  <2>5. task[w] \in Commands /\ n \in 0 .. MaxVersions
    BY <2>4
  <2>6. [task[w] EXCEPT !.pc = "add_version", !.next = n] \in Commands
    BY ONLY <2>5
  <2>7. TypeOK'
    BY <2>4, <2>6
  <2>8. PromotionsHaveKeys'
    BY <2>1, <2>4
  <2> QED
    BY <2>7, <2>8
<1>5. ASSUME NEW w \in Reviewers, AddVersion(w)
      PROVE  TypeOK' /\ PromotionsHaveKeys'
  <2>1. task[w].key \in Keys /\ task[w].next \in 1 .. MaxVersions
    BY <1>5, RoomForPromoter DEF AddVersion, NextIsNearby
  <2> QED
    BY <1>5, <2>1 DEF AddVersion, Rows
<1>6. ASSUME NEW w \in Reviewers, Get(w)
      PROVE  TypeOK' /\ PromotionsHaveKeys'
  BY <1>6 DEF Get
<1>7. ASSUME NEW w \in Reviewers, Update(w)
      PROVE  TypeOK' /\ PromotionsHaveKeys'
  BY <1>7 DEF Update
<1>8. ASSUME NEW w \in Reviewers, Kill(w)
      PROVE  TypeOK' /\ PromotionsHaveKeys'
  BY <1>8 DEF Kill
<1>9. CASE UNCHANGED vars
  BY <1>9 DEF vars
<1> QED
  BY <1>1, <1>2, <1>3, <1>4, <1>5, <1>6, <1>7, <1>8, <1>9 DEF Next

\* What an INSERT that succeeds does to the rows of its key: the number is the
\* next one.
LEMMA AddVersionEffect ==
  ASSUME ReviewInv, NEW w \in Reviewers, AddVersion(w)
  PROVE  /\ task[w].key \in Keys
         /\ \/ gold' = gold
            \/ LET k == task[w].key
                   row == [version |-> task[w].next, entry |-> task[w].entry, by |-> w]
               IN /\ gold' = [gold EXCEPT ![k] = @ \union {row}]
                  /\ row \notin gold[k]
                  /\ row.version = Cardinality(gold[k]) + 1
<1> DEFINE k == task[w].key
           row == [version |-> task[w].next, entry |-> task[w].entry, by |-> w]
<1>1. k \in Keys
  BY DEF ReviewInv, PromotionsHaveKeys, Promoting, AddVersion, At
<1>2. CASE task[w].next \in Versions(k)
  BY <1>1, <1>2 DEF AddVersion
<1>3. CASE task[w].next \notin Versions(k)
  <2>1. gold' = [gold EXCEPT ![k] = @ \union {row}]
    BY <1>3 DEF AddVersion
  <2>2. row \notin gold[k]
    BY <1>1, <1>3, VersionsOfGold
  <2>3. /\ task[w].next \in 1 .. Cardinality(gold[k]) + 1
        /\ Versions(k) = 1 .. Cardinality(gold[k]) /\ Cardinality(gold[k]) \in Nat
    BY <1>1, VersionsOfKey DEF ReviewInv, NextIsNearby, AddVersion
  <2>4. task[w].next = Cardinality(gold[k]) + 1
    BY <1>3, <2>3
  <2> QED
    BY <1>1, <2>1, <2>2, <2>4
<1> QED
  BY <1>2, <1>3

\* Every step but the INSERT of AddVersion leaves the rows alone.
LEMMA OnlyAddVersionWrites ==
  ASSUME [Next]_vars
  PROVE  gold' = gold \/ \E w \in Reviewers : AddVersion(w)
BY DEF Next, vars, RecordError, StartTransition, Approve, MaxVersion, Get, Update, Kill

\* The rows of a key are those it had and at most one more, which a reviewer who
\* promotes this key has inserted.
LEMMA RowsStay ==
  ASSUME ReviewInv, NEW w \in Reviewers, AddVersion(w), NEW k \in Keys
  PROVE  \/ gold'[k] = gold[k]
         \/ \E row : /\ gold'[k] = gold[k] \union {row} /\ row \notin gold[k]
                     /\ task[w].key = k
<1>1. gold \in [Keys -> SUBSET Rows]
  BY DEF ReviewInv, TypeOK
<1> DEFINE row == [version |-> task[w].next, entry |-> task[w].entry, by |-> w]
<1>2. \/ gold' = gold
      \/ gold' = [gold EXCEPT ![task[w].key] = @ \union {row}] /\ row \notin gold[task[w].key]
  BY AddVersionEffect
<1> HIDE DEF row
<1> QED
  BY <1>1, <1>2

\* The rows stay finitely many, and their versions without gap or duplicate.
LEMMA VersionsStep ==
  ASSUME ReviewInv, [Next]_vars
  PROVE  GoldIsFinite' /\ VersionsAreContiguous'
<1>1. CASE gold' = gold
  BY <1>1 DEF ReviewInv, GoldIsFinite, VersionsAreContiguous, Versions
<1>2. ASSUME NEW w \in Reviewers, AddVersion(w), gold' # gold
      PROVE  GoldIsFinite' /\ VersionsAreContiguous'
  <2> DEFINE row == [version |-> task[w].next, entry |-> task[w].entry, by |-> w]
  <2>1. PICK k \in Keys :
           /\ gold' = [gold EXCEPT ![k] = @ \union {row}]
           /\ row \notin gold[k] /\ row.version = Cardinality(gold[k]) + 1
    BY <1>2, AddVersionEffect
  <2>2. ASSUME NEW l \in Keys
        PROVE  /\ IsFiniteSet(gold'[l])
               /\ Versions(l)' = 1 .. Cardinality(gold'[l])
               /\ Cardinality(Versions(l)') = Cardinality(gold'[l])
    <3>1. IsFiniteSet(gold[l]) /\ Cardinality(gold[l]) \in Nat
          /\ Versions(l) = 1 .. Cardinality(gold[l])
          /\ Cardinality(Versions(l)) = Cardinality(gold[l])
      BY VersionsOfKey DEF ReviewInv, GoldIsFinite, VersionsAreContiguous
    <3>2. gold \in [Keys -> SUBSET Rows]
      BY DEF ReviewInv, TypeOK
    <3> DEFINE n == Cardinality(gold[l])
    <3> HIDE DEF row
    <3>3. CASE l # k
      BY <2>1, <3>1, <3>2, <3>3 DEF Versions
    <3>4. CASE l = k
      <4>1. gold'[l] = gold[l] \union {row}
        BY <2>1, <3>2, <3>4
      <4>2. IsFiniteSet(gold'[l]) /\ Cardinality(gold'[l]) = n + 1
        BY <2>1, <3>1, <3>4, <4>1, FS_AddElement
      <4>3. Versions(l)' = Versions(l) \union {n + 1}
        BY <2>1, <3>4, <4>1 DEF Versions
      <4>4. (1 .. n) \union {n + 1} = 1 .. n + 1
        BY <3>1
      <4>5. Cardinality(1 .. n + 1) = n + 1
        BY <3>1, FS_Interval
      <4> QED
        BY <3>1, <4>2, <4>3, <4>4, <4>5
    <3> QED
      BY <3>3, <3>4
  <2> QED
    BY <2>2 DEF GoldIsFinite, VersionsAreContiguous
<1> QED
  BY <1>1, <1>2, OnlyAddVersionWrites

\* What a reviewer knows of the highest version stays within one of it.
LEMMA NextStep ==
  ASSUME ReviewInv, [Next]_vars
  PROVE  NextIsNearby'
<1> SUFFICES ASSUME NEW w \in Reviewers, At(w, "add_version")'
             PROVE  task'[w].next \in 1 .. Cardinality(gold'[task'[w].key]) + 1
  BY DEF NextIsNearby
<1>1. TypeOK /\ PromotionsHaveKeys
  BY DEF ReviewInv
<1>2. \A k \in Keys : /\ Cardinality(gold[k]) \in Nat
                      /\ Cardinality(gold'[k]) \in Nat
                      /\ Cardinality(gold[k]) <= Cardinality(gold'[k])
  <2> TAKE k \in Keys
  <2>1. IsFiniteSet(gold[k]) /\ IsFiniteSet(gold'[k])
    BY VersionsStep DEF ReviewInv, GoldIsFinite
  <2>2. gold[k] \subseteq gold'[k]
    BY <1>1, OnlyAddVersionWrites, RowsStay DEF TypeOK
  <2> QED
    BY <2>1, <2>2, FS_Subset, FS_CardinalityType
<1>3. CASE UNCHANGED task[w]
  <2>1. At(w, "add_version") /\ task'[w] = task[w] /\ task[w].key \in Keys
    BY <1>1, <1>3 DEF At, PromotionsHaveKeys, Promoting
  <2> QED
    BY <1>2, <2>1 DEF ReviewInv, NextIsNearby
<1>4. CASE MaxVersion(w)
  <2>1. task[w].key \in Keys
    BY <1>1, <1>4 DEF MaxVersion, At, PromotionsHaveKeys, Promoting
  <2>2. /\ task'[w].next = Highest(Versions(task[w].key)) + 1
        /\ task'[w].key = task[w].key /\ gold' = gold
    BY <1>1, <1>4, <2>1 DEF MaxVersion, Become, TypeOK, At, Free
  <2>3. Highest(Versions(task[w].key)) = Cardinality(gold[task[w].key])
    BY <2>1, VersionsOfKey DEF ReviewInv
  <2> QED
    BY <1>2, <2>1, <2>2, <2>3
<1>5. UNCHANGED task[w] \/ MaxVersion(w)
  <2> USE DEF Become, At, Free, TypeOK
  <2>1. ASSUME NEW e \in Entries, RecordError(e)
        PROVE  UNCHANGED task[w]
    BY <1>1, <2>1 DEF RecordError
  <2>2. ASSUME NEW v \in Reviewers, NEW e \in Entries, NEW t \in Statuses,
               StartTransition(v, e, t)
        PROVE  UNCHANGED task[w]
    BY <1>1, <2>2 DEF StartTransition
  <2>3. ASSUME NEW v \in Reviewers, NEW e \in Entries, NEW l \in Keys \union {NoKey},
               Approve(v, e, l)
        PROVE  UNCHANGED task[w]
    BY <1>1, <2>3 DEF Approve
  <2>4. ASSUME NEW v \in Reviewers, MaxVersion(v), v # w
        PROVE  UNCHANGED task[w]
    BY <1>1, <2>4 DEF MaxVersion
  <2>5. ASSUME NEW v \in Reviewers, AddVersion(v)
        PROVE  UNCHANGED task[w]
    BY <1>1, <2>5 DEF AddVersion
  <2>6. ASSUME NEW v \in Reviewers, Get(v)
        PROVE  UNCHANGED task[w]
    BY <1>1, <2>6 DEF Get
  <2>7. ASSUME NEW v \in Reviewers, Update(v)
        PROVE  UNCHANGED task[w]
    BY <1>1, <2>7 DEF Update
  <2>8. ASSUME NEW v \in Reviewers, Kill(v)
        PROVE  UNCHANGED task[w]
    BY <1>1, <2>8 DEF Kill
  <2>9. CASE UNCHANGED vars
    BY <2>9 DEF vars
  <2> QED
    BY <2>1, <2>2, <2>3, <2>4, <2>5, <2>6, <2>7, <2>8, <2>9 DEF Next
<1> QED
  BY <1>3, <1>4, <1>5

\* No step but Approve adds a promoter, and it checks that there is room.
LEMMA PromotionsStep ==
  ASSUME ReviewInv, [Next]_vars
  PROVE  PromotionsAreBounded'
<1> SUFFICES ASSUME NEW k \in Keys
             PROVE  Promotions(k)' <= MaxVersions
  BY DEF PromotionsAreBounded
<1>1. TypeOK /\ PromotionsHaveKeys /\ GoldIsFinite /\ Promotions(k) <= MaxVersions
  BY DEF ReviewInv, PromotionsAreBounded
<1>2. /\ IsFiniteSet(Promoters(k)) /\ Cardinality(Promoters(k)) \in Nat
      /\ Cardinality(gold[k]) \in Nat
      /\ Promotions(k) = Cardinality(gold[k]) + Cardinality(Promoters(k))
  BY <1>1, PromotersAreFinite
<1>3. Promotions(k)' = Cardinality(gold'[k]) + Cardinality(Promoters(k)')
  BY DEF Promotions, Promoters
<1>4. CASE gold'[k] = gold[k] /\ Promoters(k)' \subseteq Promoters(k)
  <2>1. /\ Cardinality(Promoters(k)') \in Nat
        /\ Cardinality(Promoters(k)') <= Cardinality(Promoters(k))
    BY <1>2, <1>4, FS_Subset, FS_CardinalityType
  <2> QED
    BY <1>1, <1>2, <1>3, <1>4, <2>1
<1>5. ASSUME NEW w \in Reviewers, NEW e \in Entries, NEW l \in Keys \union {NoKey},
             Approve(w, e, l), Promoters(k)' # Promoters(k)
      PROVE  Promotions(k)' <= MaxVersions
  <2>1. l = k /\ Promoters(k)' = Promoters(k) \union {w}
    BY <1>1, <1>5 DEF Approve, Become, Promoters, Promoting, At, TypeOK
  <2>2. Promotions(k) < MaxVersions /\ gold' = gold
    BY <1>5, <2>1 DEF Approve
  <2>3. /\ Cardinality(Promoters(k) \union {w}) \in Nat
        /\ Cardinality(Promoters(k) \union {w}) <= Cardinality(Promoters(k)) + 1
    <3> DEFINE P == Promoters(k)
    <3> HIDE DEF P
    <3>1. IsFiniteSet(P) /\ Cardinality(P) \in Nat
      BY <1>2 DEF P
    <3>2. Cardinality(P \union {w}) = IF w \in P THEN Cardinality(P) ELSE Cardinality(P) + 1
      BY <3>1, FS_AddElement
    <3>3. Cardinality(P \union {w}) \in Nat /\ Cardinality(P \union {w}) <= Cardinality(P) + 1
      BY <3>1, <3>2
    <3> QED
      BY <3>3 DEF P
  <2>4. Cardinality(Promoters(k)') = Cardinality(Promoters(k) \union {w})
    BY <2>1
  <2> QED
    BY <1>2, <1>3, <2>2, <2>3, <2>4
<1>6. ASSUME NEW w \in Reviewers, AddVersion(w), gold'[k] # gold[k]
      PROVE  Promotions(k)' <= MaxVersions
  <2>1. PICK row : gold'[k] = gold[k] \union {row} /\ row \notin gold[k] /\ task[w].key = k
    BY <1>6, RowsStay
  <2>2. Cardinality(gold'[k]) = Cardinality(gold[k]) + 1
    BY <1>1, <2>1, FS_AddElement DEF GoldIsFinite
  <2>3. w \in Promoters(k) /\ Promoters(k)' = Promoters(k) \ {w}
    BY <1>1, <1>6, <2>1 DEF AddVersion, Become, Promoters, At, TypeOK, Free
  <2>4. Cardinality(Promoters(k)') = Cardinality(Promoters(k)) - 1
    BY <1>2, <2>3, FS_RemoveElement
  <2> QED
    BY <1>1, <1>2, <1>3, <2>2, <2>4
<1>7. \/ gold'[k] = gold[k] /\ Promoters(k)' \subseteq Promoters(k)
      \/ \E w \in Reviewers, e \in Entries, l \in Keys \union {NoKey} :
            Approve(w, e, l) /\ Promoters(k)' # Promoters(k)
      \/ \E w \in Reviewers : AddVersion(w) /\ gold'[k] # gold[k]
  <2> USE DEF Promoters, Become, At, Free, TypeOK
  <2>1. ASSUME NEW e \in Entries, RecordError(e)
        PROVE  Promoters(k)' \subseteq Promoters(k) /\ gold' = gold
    BY <1>1, <2>1 DEF RecordError
  <2>2. ASSUME NEW w \in Reviewers, NEW e \in Entries, NEW t \in Statuses,
               StartTransition(w, e, t)
        PROVE  Promoters(k)' \subseteq Promoters(k) /\ gold' = gold
    BY <1>1, <2>2 DEF StartTransition
  <2>3. ASSUME NEW w \in Reviewers, NEW e \in Entries, NEW l \in Keys \union {NoKey},
               Approve(w, e, l)
        PROVE  gold' = gold
    BY <1>1, <2>3 DEF Approve
  <2>4. ASSUME NEW w \in Reviewers, MaxVersion(w)
        PROVE  Promoters(k)' \subseteq Promoters(k) /\ gold' = gold
    BY <1>1, <2>4 DEF MaxVersion
  <2>5. ASSUME NEW w \in Reviewers, AddVersion(w)
        PROVE  Promoters(k)' \subseteq Promoters(k)
    BY <1>1, <2>5 DEF AddVersion
  <2>6. ASSUME NEW w \in Reviewers, Get(w)
        PROVE  Promoters(k)' \subseteq Promoters(k) /\ gold' = gold
    BY <1>1, <2>6 DEF Get
  <2>7. ASSUME NEW w \in Reviewers, Update(w)
        PROVE  Promoters(k)' \subseteq Promoters(k) /\ gold' = gold
    BY <1>1, <2>7 DEF Update
  <2>8. ASSUME NEW w \in Reviewers, Kill(w)
        PROVE  Promoters(k)' \subseteq Promoters(k) /\ gold' = gold
    BY <1>1, <2>8 DEF Kill
  <2>9. CASE UNCHANGED vars
    BY <2>9 DEF vars
  <2> HIDE DEF Promoters
  <2> QED
    BY <2>1, <2>2, <2>3, <2>4, <2>5, <2>6, <2>7, <2>8, <2>9 DEF Next
<1> QED
  BY <1>4, <1>5, <1>6, <1>7

\* A trail never forgets a status, and Update alone adds one to an existing row.
LEMMA TrailGrows ==
  ASSUME ReviewInv, [Next]_vars, NEW e \in Entries
  PROVE  trail[e] \subseteq trail'[e]
<1> USE DEF ReviewInv, TypeOK
<1>1. ASSUME NEW f \in Entries, RecordError(f)
      PROVE  trail[e] \subseteq trail'[e]
  BY <1>1 DEF RecordError, TrailFollowsStatus
<1>2. ASSUME NEW w \in Reviewers, Update(w)
      PROVE  trail[e] \subseteq trail'[e]
  BY <1>2 DEF Update
<1> QED
  BY <1>1, <1>2 DEF Next, vars, StartTransition, Approve, MaxVersion, AddVersion, Get, Kill

\* The current status of an entry is part of its trail.
LEMMA TrailStep ==
  ASSUME ReviewInv, [Next]_vars
  PROVE  TrailFollowsStatus'
<1> USE DEF ReviewInv, TypeOK, TrailFollowsStatus, Statuses
<1>1. ASSUME NEW f \in Entries, RecordError(f)
      PROVE  TrailFollowsStatus'
  BY <1>1 DEF RecordError
<1>2. ASSUME NEW w \in Reviewers, Update(w)
      PROVE  TrailFollowsStatus'
  <2>1. task[w].entry \in Entries /\ task[w].target # "absent"
    BY <1>2 DEF Update, At, Free
  <2> QED
    BY <1>2, <2>1 DEF Update
<1> QED
  BY <1>1, <1>2 DEF Next, vars, StartTransition, Approve, MaxVersion, AddVersion, Get, Kill

\* A reviewer reaches its UPDATE by the check of Get, against a status the entry
\* had at that moment; what others do to the entry since only adds to the trail.
LEMMA TransitionStep ==
  ASSUME ReviewInv, [Next]_vars
  PROVE  TransitionWasLegal'
<1> SUFFICES ASSUME NEW w \in Reviewers, At(w, "update")'
             PROVE  \E earlier \in trail'[task'[w].entry] : task'[w].target \in Legal(earlier)
  BY DEF TransitionWasLegal
<1>1. TypeOK
  BY DEF ReviewInv
<1>2. CASE UNCHANGED task[w]
  <2>1. task[w].entry \in Entries /\ At(w, "update")
    BY <1>1, <1>2 DEF TypeOK, At, Free
  <2>2. PICK earlier \in trail[task[w].entry] : task[w].target \in Legal(earlier)
    BY <2>1 DEF ReviewInv, TransitionWasLegal
  <2>3. earlier \in trail'[task[w].entry]
    BY <2>1, TrailGrows
  <2> QED
    BY <1>2, <2>2, <2>3
<1>3. CASE Get(w)
  <2>1. /\ task[w].entry \in Entries /\ trail' = trail
        /\ task[w].target \in Legal(status[task[w].entry])
        /\ task'[w].entry = task[w].entry /\ task'[w].target = task[w].target
    BY <1>1, <1>3 DEF Get, Become, TypeOK, At, Free
  <2>2. status[task[w].entry] # "absent"
    BY <2>1 DEF Legal
  <2>3. status[task[w].entry] \in trail[task[w].entry]
    BY <2>1, <2>2 DEF ReviewInv, TrailFollowsStatus
  <2> QED
    BY <2>1, <2>3
<1>4. UNCHANGED task[w] \/ Get(w)
  <2> USE DEF Become, At, Free, TypeOK
  <2>1. ASSUME NEW e \in Entries, RecordError(e)
        PROVE  UNCHANGED task[w]
    BY <1>1, <2>1 DEF RecordError
  <2>2. ASSUME NEW v \in Reviewers, NEW e \in Entries, NEW t \in Statuses,
               StartTransition(v, e, t)
        PROVE  UNCHANGED task[w]
    BY <1>1, <2>2 DEF StartTransition
  <2>3. ASSUME NEW v \in Reviewers, NEW e \in Entries, NEW l \in Keys \union {NoKey},
               Approve(v, e, l)
        PROVE  UNCHANGED task[w]
    BY <1>1, <2>3 DEF Approve
  <2>4. ASSUME NEW v \in Reviewers, MaxVersion(v)
        PROVE  UNCHANGED task[w]
    BY <1>1, <2>4 DEF MaxVersion
  <2>5. ASSUME NEW v \in Reviewers, AddVersion(v)
        PROVE  UNCHANGED task[w]
    BY <1>1, <2>5 DEF AddVersion
  <2>6. ASSUME NEW v \in Reviewers, Get(v), v # w
        PROVE  UNCHANGED task[w]
    BY <1>1, <2>6 DEF Get
  <2>7. ASSUME NEW v \in Reviewers, Update(v)
        PROVE  UNCHANGED task[w]
    BY <1>1, <2>7 DEF Update
  <2>8. ASSUME NEW v \in Reviewers, Kill(v)
        PROVE  UNCHANGED task[w]
    BY <1>1, <2>8 DEF Kill
  <2>9. CASE UNCHANGED vars
    BY <2>9 DEF vars
  <2> QED
    BY <2>1, <2>2, <2>3, <2>4, <2>5, <2>6, <2>7, <2>8, <2>9 DEF Next
<1> QED
  BY <1>2, <1>3, <1>4

\* A stale check lets an entry go back in its lifecycle, but never past a stage
\* it has not been in.
LEMMA StagesStep ==
  ASSUME ReviewInv, [Next]_vars
  PROVE  NoStageIsSkipped'
<1> USE DEF ReviewInv, TypeOK, NoStageIsSkipped
<1>1. ASSUME NEW f \in Entries, RecordError(f)
      PROVE  NoStageIsSkipped'
  BY <1>1 DEF RecordError
<1>2. ASSUME NEW w \in Reviewers, Update(w)
      PROVE  NoStageIsSkipped'
  <2> DEFINE f == task[w].entry
             target == task[w].target
  <2>1. f \in Entries /\ target \in Statuses /\ At(w, "update")
    BY <1>2 DEF Update, At, Free
  <2>2. PICK earlier \in trail[f] : target \in Legal(earlier)
    BY <2>1 DEF TransitionWasLegal
  <2>3. \/ earlier = "open" /\ target = "in_review"
        \/ earlier = "in_review" /\ target \in {"reflected", "wontfix"}
        \/ earlier = "reflected" /\ target \in {"verified", "in_review"}
    BY <2>2 DEF Legal
  <2>4. trail' = [trail EXCEPT ![f] = @ \union {target}]
    BY <1>2 DEF Update
  <2> HIDE DEF f, target
  <2> QED
    BY <2>1, <2>2, <2>3, <2>4
<1> QED
  BY <1>1, <1>2 DEF Next, vars, StartTransition, Approve, MaxVersion, AddVersion, Get, Kill

-----------------------------------------------------------------------------
\* Every step preserves the invariant.
LEMMA ReviewStep == ReviewInv /\ [Next]_vars => ReviewInv'
<1> SUFFICES ASSUME ReviewInv, [Next]_vars
             PROVE  ReviewInv'
  OBVIOUS
<1>1. TypeOK' /\ PromotionsHaveKeys'
  BY ReviewTypes
<1>2. GoldIsFinite' /\ VersionsAreContiguous' /\ NextIsNearby' /\ PromotionsAreBounded'
  BY VersionsStep, NextStep, PromotionsStep
<1>3. TrailFollowsStatus' /\ TransitionWasLegal' /\ NoStageIsSkipped'
  BY TrailStep, TransitionStep, StagesStep
<1> QED
  BY <1>1, <1>2, <1>3 DEF ReviewInv

\* ReviewInv is inductive, hence true in every reachable state.
THEOREM ReviewInvariant == Spec => []ReviewInv
  BY ReviewInit, ReviewStep, PTL DEF Spec

\* Type correctness of the review tables and of every reviewer's command.
THEOREM ReviewTypeCorrect == Spec => []TypeOK
<1>1. ReviewInv => TypeOK
  BY DEF ReviewInv
<1> QED
  BY <1>1, ReviewInvariant, PTL

\* Any number of reviewers who compute MAX(version) + 1 outside a transaction, and
\* die, leave versions 1, 2, ... of every key, without a gap or a duplicate.
THEOREM GoldVersionsContiguous == Spec => []VersionsAreContiguous
<1>1. ReviewInv => VersionsAreContiguous
  BY DEF ReviewInv
<1> QED
  BY <1>1, ReviewInvariant, PTL

\* The unguarded UPDATE can undo a decision (OnlyLegalTransitions is violated), but
\* no interleaving of commands lets an entry reach a stage before an earlier one.
THEOREM LifecycleHasNoShortcut == Spec => []NoStageIsSkipped
<1>1. ReviewInv => NoStageIsSkipped
  BY DEF ReviewInv
<1> QED
  BY <1>1, ReviewInvariant, PTL

-----------------------------------------------------------------------------
(* Exports: the invariant.                                                 *)

USE ExportBounds, PeopleAreKeys

\* The write lock: one INSERT is uncommitted at a time.
OneOpenInsert ==
    \A v, w \in Reviewers : stamped[v] # 0 /\ stamped[w] # 0 => v = w

\* The number of an uncommitted INSERT is still free when it commits.
OpenInsertIsFree ==
    \A w \in Reviewers :
        stamped[w] # 0 => At(w, "add_version") /\ task[w].next \notin Versions(task[w].key)

MomentsType ==
    /\ clock \in 1 .. MaxClock
    /\ stamped \in [Reviewers -> 0 .. MaxClock]
    /\ from \subseteq [key : Keys, version : 1 .. MaxVersions, at : 1 .. MaxClock]
    /\ IsFiniteSet(from)

\* Every committed version has one moment.
MomentsMatchVersions ==
    /\ \A k \in Keys : {f.version : f \in {g \in from : g.key = k}} = Versions(k)
    /\ \A f, g \in from : f.key = g.key /\ f.version = g.version => f = g

\* A key and a version name one row, and there are as many as moments.
RowsAreUnique ==
    /\ \A g, h \in GoldRows :
          g.key = h.key /\ g.row.version = h.row.version => g = h
    /\ IsFiniteSet(GoldRows)
    /\ Cardinality(GoldRows) = Cardinality(from)

\* Versions come into force in the order of their numbers, and nothing that is
\* committed or stamped is later than now or than what is stamped.
MomentsAreOrdered ==
    /\ \A f, g \in from : f.key = g.key /\ f.version <= g.version => f.at <= g.at
    /\ \A f \in from : f.at <= clock
    /\ \A w \in Reviewers :
          stamped[w] # 0 => stamped[w] <= clock /\ \A f \in from : f.at <= stamped[w]

\* An INSERT that was not there when a settled answer was given is stamped with
\* the second of the answer or a later one.
AnswersPrecedeInserts ==
    \A a \in exports :
        /\ a.asked \in 1 .. clock
        /\ a.question.kind = "since" => a.question.as_of \in 1 .. MaxClock
        /\ a.settled => \A w \in Reviewers : stamped[w] # 0 => a.asked <= stamped[w]

ExportInv ==
    /\ ReviewInv
    /\ OneOpenInsert
    /\ OpenInsertIsFree
    /\ MomentsType
    /\ MomentsMatchVersions
    /\ RowsAreUnique
    /\ MomentsAreOrdered
    /\ AnswersPrecedeInserts
    /\ ExportsAreStable

-----------------------------------------------------------------------------
(* What the steps do.                                                      *)

\* An export or a tick leaves the reviewers alone, an INSERT is not visible to
\* them, and a commit is the AddVersion of ReviewGold.
LEMMA ReviewingGoesOn == [ExportNext]_exportVars => [Next]_vars
BY DEF ExportNext, exportVars, vars, Next, Tick, Reviewing, Insert, Commit,
       InsertRefused, KillReviewer, ExportAll, ExportSince, ExportPerson, Export

\* g is a row with its moment.
LEMMA GoldRow ==
  ASSUME NEW g
  PROVE  g \in GoldRows <=>
            \E f \in from : \E r \in gold[f.key] :
               r.version = f.version /\ g = [key |-> f.key, row |-> r, at |-> f.at]
BY DEF GoldRows

\* A commit inserts the next version of its key, valid from the stamp.
LEMMA CommitEffect ==
  ASSUME ExportInv, NEW w \in Reviewers, Commit(w)
  PROVE  LET k == task[w].key
             n == task[w].next
             row == [version |-> n, entry |-> task[w].entry, by |-> w]
             f == [key |-> k, version |-> n, at |-> stamped[w]]
         IN /\ k \in Keys /\ n \in 1 .. MaxVersions /\ n \notin Versions(k)
            /\ gold' = [gold EXCEPT ![k] = @ \union {row}]
            /\ n = Cardinality(gold[k]) + 1
            /\ from' = from \union {f}
            /\ stamped[w] \in 1 .. MaxClock
            /\ stamped' = [stamped EXCEPT ![w] = 0]
            /\ UNCHANGED <<clock, exports>>
<1> DEFINE k == task[w].key
           n == task[w].next
           row == [version |-> n, entry |-> task[w].entry, by |-> w]
<1>1. ReviewInv /\ AddVersion(w) /\ stamped[w] # 0
  BY DEF ExportInv, Commit
<1>2. k \in Keys /\ n \notin Versions(k)
  BY <1>1, AddVersionEffect DEF ExportInv, OpenInsertIsFree
<1>3. gold' = [gold EXCEPT ![k] = @ \union {row}] /\ gold' # gold
  <2>1. gold' = [gold EXCEPT ![k] = @ \union {row}]
    BY <1>1, <1>2 DEF AddVersion
  <2>2. row \notin gold[k]
    BY <1>2, VersionsOfGold
  <2>3. gold \in [Keys -> SUBSET Rows]
    BY <1>1 DEF ReviewInv, TypeOK
  <2> HIDE DEF row
  <2> QED
    BY <1>2, <2>1, <2>2, <2>3
<1>4. row.version = Cardinality(gold[k]) + 1
  BY <1>1, <1>3, AddVersionEffect
<1>5. n \in 1 .. MaxVersions
  <2>1. Cardinality(gold[k]) + 1 \in 1 .. MaxVersions
    BY <1>1, <1>2, RoomForPromoter DEF ReviewInv, AddVersion, At, Promoting
  <2> QED
    BY <1>4, <2>1
<1>6. stamped[w] \in 1 .. MaxClock
  BY <1>1 DEF ExportInv, MomentsType
<1> QED
  BY <1>2, <1>3, <1>4, <1>5, <1>6 DEF Commit

\* Only a commit makes a version.
LEMMA OnlyCommitWrites ==
  ASSUME ExportInv, [ExportNext]_exportVars
  PROVE  \/ UNCHANGED <<gold, from>>
         \/ \E w \in Reviewers : Commit(w)
BY DEF ExportNext, exportVars, vars, Tick, Reviewing, Insert, InsertRefused, AddVersion,
       KillReviewer, Kill, ExportAll, ExportSince, ExportPerson, Export, RecordError,
       Update, StartTransition, Approve, MaxVersion, Get

\* It adds its row to those that were there and changes none of them.
LEMMA CommitAddsRow ==
  ASSUME ExportInv, NEW w \in Reviewers, Commit(w)
  PROVE  LET row == [version |-> task[w].next, entry |-> task[w].entry, by |-> w]
             new == [key |-> task[w].key, row |-> row, at |-> stamped[w]]
         IN /\ GoldRows' = GoldRows \union {new}
            /\ \A g \in GoldRows : ~(g.key = new.key /\ g.row.version = row.version)
<1> DEFINE k == task[w].key
           n == task[w].next
           row == [version |-> n, entry |-> task[w].entry, by |-> w]
           moment == [key |-> k, version |-> n, at |-> stamped[w]]
           new == [key |-> k, row |-> row, at |-> stamped[w]]
<1>1. /\ k \in Keys /\ n \notin Versions(k)
      /\ gold' = [gold EXCEPT ![k] = @ \union {row}]
      /\ from' = from \union {moment}
  BY CommitEffect
<1>2. gold \in [Keys -> SUBSET Rows] /\ \A f \in from : f.key \in Keys
  BY DEF ExportInv, ReviewInv, TypeOK, MomentsType
<1>3. \A f \in from : f.key = k => f.version # n
  BY <1>1 DEF ExportInv, MomentsMatchVersions
<1>4. \A r \in gold[k] : r.version # n
  BY <1>1, VersionsOfGold
<1>5. /\ moment.key = k /\ moment.version = n /\ moment.at = stamped[w]
      /\ row.version = n
      /\ new.key = k /\ new.row = row
  OBVIOUS
<1> HIDE DEF moment, row, k, n
<1>6. ASSUME NEW g
      PROVE  g \in GoldRows' <=> g \in GoldRows \union {new}
  <2>1. g \in GoldRows' <=>
          \E f \in from' : \E r \in gold'[f.key] :
             r.version = f.version /\ g = [key |-> f.key, row |-> r, at |-> f.at]
    BY DEF GoldRows
  <2>2. ASSUME NEW f \in from, NEW r
        PROVE  r \in gold'[f.key] /\ r.version = f.version
                  <=> r \in gold[f.key] /\ r.version = f.version
    BY <1>1, <1>2, <1>3, <1>5
  <2>3. ASSUME NEW r
        PROVE  r \in gold'[k] /\ r.version = n <=> r = row
    BY <1>1, <1>2, <1>4, <1>5
  <2>4. (\E r \in gold'[moment.key] :
           r.version = moment.version /\ g = [key |-> moment.key, row |-> r, at |-> moment.at])
          <=> g = new
    BY <1>5, <2>3
  <2>5. (\E f \in from : \E r \in gold'[f.key] :
             r.version = f.version /\ g = [key |-> f.key, row |-> r, at |-> f.at])
          <=> g \in GoldRows
    BY <2>2, GoldRow
  <2> QED
    BY <1>1, <2>1, <2>4, <2>5
<1>7. \A g \in GoldRows : ~(g.key = k /\ g.row.version = n)
  BY <1>4, GoldRow
<1> QED
  BY <1>5, <1>6, <1>7 DEF k, n, row

\* There is a row for every version of a key.
LEMMA RowOfVersion ==
  ASSUME ExportInv, NEW k \in Keys, NEW v \in Versions(k)
  PROVE  \E g \in GoldRows : g.key = k /\ g.row.version = v
<1>1. PICK f \in from : f.key = k /\ f.version = v
  BY DEF ExportInv, MomentsMatchVersions
<1>2. PICK r \in gold[k] : r.version = v
  BY DEF Versions
<1> DEFINE g == [key |-> f.key, row |-> r, at |-> f.at]
<1>3. g \in GoldRows /\ g.key = k /\ g.row.version = v
  BY <1>1, <1>2, GoldRow
<1> QED
  BY <1>3

\* The rows of a key are versions of it, and lower versions are not later.
LEMMA RowsFollowMoments ==
  ASSUME ExportInv
  PROVE  /\ \A g \in GoldRows : g.key \in Keys /\ g.row.version \in Versions(g.key)
                                /\ g.at \in 1 .. MaxClock /\ g.at <= clock
         /\ \A g, h \in GoldRows :
               g.key = h.key /\ g.row.version <= h.row.version => g.at <= h.at
<1>1. \A g \in GoldRows :
         \E f \in from : f.key = g.key /\ f.version = g.row.version /\ f.at = g.at
                         /\ g.row \in gold[g.key]
  BY GoldRow
<1> QED
  BY <1>1, VersionsOfGold DEF ExportInv, MomentsType, MomentsAreOrdered

\* With a version, everything that is current, everything that was in force at a
\* moment and the history of a person have all its lower versions.
LEMMA NoHoles ==
  ASSUME ExportInv, NEW g \in GoldRows, NEW v \in 1 .. g.row.version
  PROVE  \E h \in GoldRows : h.key = g.key /\ h.row.version = v /\ h.at <= g.at
<1>1. g.key \in Keys /\ g.row.version \in Versions(g.key)
  BY RowsFollowMoments
<1>2. Versions(g.key) = 1 .. Cardinality(gold[g.key]) /\ Cardinality(gold[g.key]) \in Nat
  BY <1>1, VersionsOfKey DEF ExportInv, ReviewInv
<1>3. v \in Versions(g.key)
  BY <1>1, <1>2
<1>4. PICK h \in GoldRows : h.key = g.key /\ h.row.version = v
  BY <1>1, <1>3, RowOfVersion
<1>5. v <= g.row.version
  BY <1>1, <1>2
<1> QED
  BY <1>4, <1>5, RowsFollowMoments

\* What an export may ask and what it is answered.
LEMMA ExportAsks ==
  ASSUME ExportAll \/ ExportSince \/ ExportPerson
  PROVE  \E question, rows :
            /\ Export(question, rows)
            /\ question.kind = "since" =>
                  /\ question.as_of \in 1 .. MaxClock
                  /\ rows = ListCurrentAsOf(question.as_of)
            /\ \/ rows = GoldRows
               \/ \E t \in 1 .. MaxClock : rows = {g \in GoldRows : g.at <= t}
               \/ \E p \in People : rows = {g \in GoldRows : g.key \in p}
<1>1. CASE ExportAll
  BY <1>1 DEF ExportAll, All, ListCurrent
<1>2. CASE ExportSince
  <2>1. PICK t \in 1 .. MaxClock : Export(Since(t), ListCurrentAsOf(t))
    BY <1>2 DEF ExportSince
  <2>2. Since(t).as_of = t
    BY DEF Since
  <2> QED
    BY <2>1, <2>2 DEF ListCurrentAsOf
<1>3. CASE ExportPerson
  <2>1. PICK p \in People : Export(Person(p), GetHistory(p))
    BY <1>3 DEF ExportPerson
  <2>2. Person(p).kind = "person"
    BY DEF Person
  <2> QED
    BY <2>1, <2>2 DEF GetHistory
<1> QED
  BY <1>1, <1>2, <1>3

-----------------------------------------------------------------------------
(* The invariant holds initially and is preserved by every step.           *)

\* Without versions and answers the invariant holds.
LEMMA ExportInitInv == ExportInit => ExportInv
<1> SUFFICES ASSUME ExportInit
             PROVE  ExportInv
  OBVIOUS
<1>1. ReviewInv
  BY ReviewInit DEF ExportInit
<1>2. /\ from = {} /\ exports = {} /\ clock = 1 /\ GoldRows = {}
      /\ \A w \in Reviewers : stamped[w] = 0
      /\ stamped \in [Reviewers -> 0 .. MaxClock]
      /\ \A k \in Keys : Versions(k) = {}
  BY DEF ExportInit, Init, GoldRows, Versions
<1>3. MomentsType
  BY <1>2, FS_EmptySet DEF MomentsType
<1>4. RowsAreUnique
  BY <1>2, FS_EmptySet DEF RowsAreUnique
<1> QED
  BY <1>1, <1>2, <1>3, <1>4 DEF ExportInv, OneOpenInsert, OpenInsertIsFree,
     MomentsMatchVersions, MomentsAreOrdered, AnswersPrecedeInserts, ExportsAreStable

\* The write lock keeps every other writer away from an uncommitted INSERT.
LEMMA LockStep ==
  ASSUME ExportInv, [ExportNext]_exportVars
  PROVE  OneOpenInsert' /\ OpenInsertIsFree' /\ MomentsType'
<1> DEFINE Lock == OneOpenInsert /\ OpenInsertIsFree /\ MomentsType
<1>0. Lock /\ TypeOK /\ ReviewInv
  BY DEF ExportInv, ReviewInv
<1> SUFFICES Lock'
  OBVIOUS
<1> USE DEF OneOpenInsert, OpenInsertIsFree, MomentsType, InsertOpen, At, Versions
<1>1. CASE Tick
  BY <1>0, <1>1 DEF Tick, vars
<1>2. CASE Reviewing
  <2>1. UNCHANGED <<gold, clock, stamped, from>>
    BY <1>2 DEF Reviewing, RecordError, Update, StartTransition, Approve, MaxVersion, Get
  <2>2. ASSUME NEW v \in Reviewers, stamped[v] # 0
        PROVE  task'[v] = task[v]
    <3>1. task[v].pc = "add_version"
      BY <1>0, <2>2
    <3> QED
      BY <1>0, <1>2, <2>2, <3>1 DEF Reviewing, RecordError, Update, StartTransition,
         Approve, MaxVersion, Get, Become, Free, TypeOK
  <2> QED
    BY <1>0, <2>1, <2>2
<1>3. ASSUME NEW w \in Reviewers, Insert(w)
      PROVE  Lock'
  BY <1>0, <1>3 DEF Insert, vars
<1>4. ASSUME NEW w \in Reviewers, Commit(w)
      PROVE  Lock'
  <2>1. \A v \in Reviewers : stamped'[v] = 0
    BY <1>0, <1>4, CommitEffect
  <2>2. MomentsType'
    <3> DEFINE f == [key |-> task[w].key, version |-> task[w].next, at |-> stamped[w]]
    <3>1. /\ f \in [key : Keys, version : 1 .. MaxVersions, at : 1 .. MaxClock]
          /\ from' = from \union {f} /\ clock' = clock
          /\ stamped' = [stamped EXCEPT ![w] = 0]
      BY <1>4, CommitEffect
    <3> HIDE DEF f
    <3>2. IsFiniteSet(from')
      BY <1>0, <3>1, FS_AddElement
    <3> QED
      BY <1>0, <3>1, <3>2
  <2> QED
    BY <2>1, <2>2
<1>5. ASSUME NEW w \in Reviewers, InsertRefused(w)
      PROVE  Lock'
  <2>1. \A v \in Reviewers : stamped'[v] = 0
    BY <1>5 DEF InsertRefused
  <2> QED
    BY <1>0, <1>5, <2>1 DEF InsertRefused
<1>6. ASSUME NEW w \in Reviewers, KillReviewer(w)
      PROVE  Lock'
  <2>1. /\ stamped' = [stamped EXCEPT ![w] = 0] /\ UNCHANGED <<gold, clock, from>>
        /\ task' = [task EXCEPT ![w] = Free]
    BY <1>6 DEF KillReviewer, Kill, Become
  <2> QED
    BY <1>0, <2>1 DEF TypeOK
<1>7. CASE ExportAll \/ ExportSince \/ ExportPerson
  BY <1>0, <1>7 DEF ExportAll, ExportSince, ExportPerson, Export, vars
<1>8. CASE UNCHANGED exportVars
  BY <1>0, <1>8 DEF exportVars, vars
<1> QED
  BY <1>1, <1>2, <1>3, <1>4, <1>5, <1>6, <1>7, <1>8 DEF ExportNext

\* Every version has one moment, and the moments follow the numbers.
LEMMA MomentsStep ==
  ASSUME ExportInv, [ExportNext]_exportVars
  PROVE  MomentsMatchVersions' /\ RowsAreUnique'
<1>0. MomentsMatchVersions /\ RowsAreUnique /\ MomentsType
  BY DEF ExportInv
<1>1. CASE UNCHANGED <<gold, from>>
  <2>1. GoldRows' = GoldRows /\ from' = from /\ \A k \in Keys : Versions(k)' = Versions(k)
    BY <1>1 DEF GoldRows, Versions
  <2> QED
    BY <1>0, <2>1 DEF MomentsMatchVersions, RowsAreUnique
<1>2. ASSUME NEW w \in Reviewers, Commit(w)
      PROVE  MomentsMatchVersions' /\ RowsAreUnique'
  <2> DEFINE k == task[w].key
             n == task[w].next
             row == [version |-> n, entry |-> task[w].entry, by |-> w]
             moment == [key |-> k, version |-> n, at |-> stamped[w]]
             new == [key |-> k, row |-> row, at |-> stamped[w]]
  <2>1. /\ k \in Keys /\ n \notin Versions(k)
        /\ gold' = [gold EXCEPT ![k] = @ \union {row}]
        /\ from' = from \union {moment}
    BY <1>2, CommitEffect
  <2>2. /\ GoldRows' = GoldRows \union {new}
        /\ \A g \in GoldRows : ~(g.key = k /\ g.row.version = n)
    BY <1>2, CommitAddsRow
  <2>3. /\ moment.key = k /\ moment.version = n /\ row.version = n
        /\ new.key = k /\ new.row = row
    OBVIOUS
  <2>4. gold \in [Keys -> SUBSET Rows]
    BY DEF ExportInv, ReviewInv, TypeOK
  <2> HIDE DEF moment, row, k, n, new
  <2>5. \A f \in from : f.key = k => f.version # n
    BY <1>0, <2>1 DEF MomentsMatchVersions
  <2>6. \A l \in Keys : Versions(l)' = IF l = k THEN Versions(l) \union {n} ELSE Versions(l)
    BY <2>1, <2>3, <2>4 DEF Versions
  <2>7. \A l \in Keys : {f.version : f \in {g \in from' : g.key = l}} = Versions(l)'
    <3> TAKE l \in Keys
    <3>1. {f.version : f \in {g \in from : g.key = l}} = Versions(l)
      BY <1>0 DEF MomentsMatchVersions
    <3>2. {f.version : f \in {g \in from' : g.key = l}}
             = {f.version : f \in {g \in from : g.key = l}} \union (IF l = k THEN {n} ELSE {})
      BY <2>1, <2>3
    <3> QED
      BY <2>6, <3>1, <3>2
  <2>8. \A f, g \in from' : f.key = g.key /\ f.version = g.version => f = g
    BY <1>0, <2>1, <2>3, <2>5 DEF MomentsMatchVersions
  <2>9. /\ \A g, h \in GoldRows' :
              g.key = h.key /\ g.row.version = h.row.version => g = h
        /\ moment \notin from /\ new \notin GoldRows
    BY <1>0, <2>2, <2>3, <2>5 DEF RowsAreUnique
  <2>10. IsFiniteSet(GoldRows') /\ Cardinality(GoldRows') = Cardinality(from')
    <3>1. IsFiniteSet(from) /\ Cardinality(from \union {moment}) = Cardinality(from) + 1
      BY <1>0, <2>9, FS_AddElement DEF MomentsType
    <3>2. IsFiniteSet(GoldRows \union {new})
          /\ Cardinality(GoldRows \union {new}) = Cardinality(GoldRows) + 1
      BY <1>0, <2>9, FS_AddElement DEF RowsAreUnique
    <3> QED
      BY <1>0, <2>1, <2>2, <3>1, <3>2 DEF RowsAreUnique
  <2> QED
    BY <2>7, <2>8, <2>9, <2>10 DEF MomentsMatchVersions, RowsAreUnique
<1> QED
  BY <1>1, <1>2, OnlyCommitWrites

\* The clock does not go back, an INSERT takes the present second, and nothing else
\* commits until it does.
LEMMA OrderStep ==
  ASSUME ExportInv, [ExportNext]_exportVars
  PROVE  MomentsAreOrdered'
<1>0. MomentsAreOrdered /\ MomentsType /\ MomentsMatchVersions
  BY DEF ExportInv
<1> USE DEF MomentsType
<1>1. CASE Tick
  BY <1>0, <1>1 DEF Tick, vars, MomentsAreOrdered
<1>2. CASE Reviewing
  BY <1>0, <1>2 DEF Reviewing, RecordError, Update,
         StartTransition, Approve, MaxVersion, Get, MomentsAreOrdered
<1>3. ASSUME NEW w \in Reviewers, Insert(w)
      PROVE  MomentsAreOrdered'
  BY <1>0, <1>3 DEF Insert, vars, MomentsAreOrdered
<1>4. ASSUME NEW w \in Reviewers, Commit(w)
      PROVE  MomentsAreOrdered'
  <2> DEFINE k == task[w].key
             n == task[w].next
             moment == [key |-> k, version |-> n, at |-> stamped[w]]
  <2>1. /\ k \in Keys /\ n \in 1 .. MaxVersions /\ n = Cardinality(gold[k]) + 1
        /\ from' = from \union {moment} /\ stamped[w] \in 1 .. MaxClock
        /\ UNCHANGED clock
    BY <1>4, CommitEffect
  <2>2. \A v \in Reviewers : stamped'[v] = 0
    BY <1>4, CommitEffect DEF ExportInv, OneOpenInsert
  <2>3. moment.key = k /\ moment.version = n /\ moment.at = stamped[w]
    OBVIOUS
  <2>4. stamped[w] <= clock /\ \A f \in from : f.at <= stamped[w]
    BY <1>0, <2>1 DEF MomentsAreOrdered
  <2> HIDE DEF k, n, moment
  <2>5. \A f \in from : f.key = k => f.version < n
    <3>1. Versions(k) = 1 .. Cardinality(gold[k]) /\ Cardinality(gold[k]) \in Nat
      BY <2>1, VersionsOfKey DEF ExportInv, ReviewInv
    <3>2. \A f \in from : f.key = k => f.version \in Versions(k)
      BY <1>0, <2>1 DEF MomentsMatchVersions
    <3> QED
      BY <2>1, <3>1, <3>2
  <2>6. from \subseteq [key : Keys, version : 1 .. MaxVersions, at : 1 .. MaxClock]
    BY <1>0
  <2>7. \A f, g \in from' : f.key = g.key /\ f.version <= g.version => f.at <= g.at
    BY <1>0, <2>1, <2>3, <2>4, <2>5, <2>6 DEF MomentsAreOrdered
  <2>8. \A f \in from' : f.at <= clock'
    BY <1>0, <2>1, <2>3, <2>4 DEF MomentsAreOrdered
  <2> QED
    BY <2>2, <2>7, <2>8 DEF MomentsAreOrdered
<1>5. ASSUME NEW w \in Reviewers, InsertRefused(w)
      PROVE  MomentsAreOrdered'
  BY <1>0, <1>5 DEF InsertRefused, AddVersion, MomentsAreOrdered
<1>6. ASSUME NEW w \in Reviewers, KillReviewer(w)
      PROVE  MomentsAreOrdered'
  BY <1>0, <1>6 DEF KillReviewer, Kill, MomentsAreOrdered
<1>7. CASE ExportAll \/ ExportSince \/ ExportPerson
  BY <1>0, <1>7 DEF ExportAll, ExportSince, ExportPerson, Export, vars, MomentsAreOrdered
<1>8. CASE UNCHANGED exportVars
  BY <1>0, <1>8 DEF exportVars, vars, MomentsAreOrdered
<1> QED
  BY <1>1, <1>2, <1>3, <1>4, <1>5, <1>6, <1>7, <1>8 DEF ExportNext

\* Whoever stamps after a settled answer stamps its second or a later one.
LEMMA AnswersStep ==
  ASSUME ExportInv, [ExportNext]_exportVars
  PROVE  AnswersPrecedeInserts'
<1>0. AnswersPrecedeInserts /\ MomentsType
  BY DEF ExportInv
<1> USE DEF MomentsType
<1>1. CASE Tick
  BY <1>0, <1>1 DEF Tick, vars, AnswersPrecedeInserts
<1>2. CASE Reviewing
  BY <1>0, <1>2 DEF Reviewing, RecordError, Update,
         StartTransition, Approve, MaxVersion, Get, AnswersPrecedeInserts
<1>3. ASSUME NEW w \in Reviewers, Insert(w)
      PROVE  AnswersPrecedeInserts'
  BY <1>0, <1>3 DEF Insert, vars, AnswersPrecedeInserts
<1>4. ASSUME NEW w \in Reviewers, Commit(w)
      PROVE  AnswersPrecedeInserts'
  <2>1. \A v \in Reviewers : stamped'[v] = 0
    BY <1>4, CommitEffect DEF ExportInv, OneOpenInsert
  <2>2. UNCHANGED <<clock, exports>>
    BY <1>4, CommitEffect
  <2> QED
    BY <1>0, <2>1, <2>2 DEF AnswersPrecedeInserts
<1>5. ASSUME NEW w \in Reviewers, InsertRefused(w)
      PROVE  AnswersPrecedeInserts'
  BY <1>0, <1>5 DEF InsertRefused, AddVersion, AnswersPrecedeInserts
<1>6. ASSUME NEW w \in Reviewers, KillReviewer(w)
      PROVE  AnswersPrecedeInserts'
  BY <1>0, <1>6 DEF KillReviewer, Kill, AnswersPrecedeInserts
<1>7. CASE ExportAll \/ ExportSince \/ ExportPerson
  <2>1. PICK question, rows : /\ Export(question, rows)
                              /\ question.kind = "since" => question.as_of \in 1 .. MaxClock
    BY <1>7, ExportAsks
  <2>2. /\ exports' = exports \union {Answer(question, rows)}
        /\ UNCHANGED <<clock, stamped>>
    BY <2>1 DEF Export
  <2>3. /\ Answer(question, rows).asked = clock
        /\ Answer(question, rows).question = question
        /\ Answer(question, rows).settled => \A w \in Reviewers : stamped[w] = 0
    BY DEF Answer, InsertOpen
  <2> QED
    BY <1>0, <2>1, <2>2, <2>3 DEF AnswersPrecedeInserts
<1>8. CASE UNCHANGED exportVars
  BY <1>0, <1>8 DEF exportVars, vars, AnswersPrecedeInserts
<1> QED
  BY <1>1, <1>2, <1>3, <1>4, <1>5, <1>6, <1>7, <1>8 DEF ExportNext

\* Two rows never have the same public form, so the public records can be counted.
LEMMA PublicCount ==
  ASSUME ExportInv, NEW rows \in SUBSET GoldRows
  PROVE  Cardinality(Public(rows)) = Cardinality(rows)
<1> DEFINE public == [g \in rows |-> ToPersonnelRecord(g)]
<1>1. IsFiniteSet(rows)
  BY FS_Subset DEF ExportInv, RowsAreUnique
<1>2. \A g, h \in rows : ToPersonnelRecord(g) = ToPersonnelRecord(h) => g = h
  <2> TAKE g, h \in rows
  <2>1. ToPersonnelRecord(g) = ToPersonnelRecord(h)
           => g.key = h.key /\ g.row.version = h.row.version
    BY DEF ToPersonnelRecord
  <2> QED
    BY <2>1 DEF ExportInv, RowsAreUnique
<1>3. public \in Bijection(rows, Public(rows))
  BY <1>2 DEF Bijection, Injection, IsInjective, Surjection, Public
<1>4. ExistsBijection(rows, Public(rows))
  BY <1>3 DEF ExistsBijection
<1> QED
  BY <1>1, <1>4, FS_Bijection

\* What a Since answer of the past contains is not what a later commit adds.
LEMMA StableStep ==
  ASSUME ExportInv, [ExportNext]_exportVars
  PROVE  ExportsAreStable'
<1> DEFINE Stable(a) ==
      /\ a.question.kind = "since" /\ a.question.as_of < a.asked /\ a.settled
            => a.records = Public(ListCurrentAsOf(a.question.as_of))
      /\ a.records \subseteq Public(ListCurrent)
      /\ a.record_count = Cardinality(a.records)
      /\ \A r \in a.records : \A v \in 1 .. r.version :
            \E s \in a.records : s.key = r.key /\ s.version = v
<1>0. \A a \in exports : Stable(a)
  BY DEF ExportInv, ExportsAreStable
<1> SUFFICES ASSUME NEW a \in exports'
             PROVE  Stable(a)'
  BY DEF ExportsAreStable
<1>1. CASE a \in exports /\ UNCHANGED <<gold, from>>
  <2>1. GoldRows' = GoldRows
    BY <1>1 DEF GoldRows
  <2>2. Stable(a)
    BY <1>0, <1>1
  <2> QED
    BY <2>1, <2>2 DEF ListCurrent, ListCurrentAsOf, Public
<1>2. ASSUME NEW w \in Reviewers, Commit(w)
      PROVE  Stable(a)'
  <2> DEFINE row == [version |-> task[w].next, entry |-> task[w].entry, by |-> w]
             new == [key |-> task[w].key, row |-> row, at |-> stamped[w]]
  <2>1. GoldRows' = GoldRows \union {new} /\ new.at = stamped[w]
    BY <1>2, CommitAddsRow
  <2> HIDE DEF new
  <2>2. a \in exports /\ Stable(a)
    BY <1>0, <1>2, CommitEffect
  <2>3. ListCurrent' = ListCurrent \union {new}
    BY <2>1 DEF ListCurrent
  <2>4. Public(ListCurrent) \subseteq Public(ListCurrent)'
    BY <2>3 DEF Public
  <2>5. ASSUME a.question.kind = "since", a.question.as_of < a.asked, a.settled
        PROVE  ListCurrentAsOf(a.question.as_of)' = ListCurrentAsOf(a.question.as_of)
    <3>1. stamped[w] \in 1 .. MaxClock
      BY <1>2, CommitEffect
    <3>2. /\ a.asked \in 1 .. clock /\ a.question.as_of \in 1 .. MaxClock
          /\ a.asked <= stamped[w] /\ clock \in 1 .. MaxClock
      BY <2>2, <2>5, <3>1 DEF ExportInv, AnswersPrecedeInserts, MomentsType
    <3>3. ~(new.at <= a.question.as_of)
      BY <2>1, <2>5, <3>1, <3>2
    <3> QED
      BY <2>1, <3>3 DEF ListCurrentAsOf
  <2> QED
    BY <2>2, <2>4, <2>5 DEF Public
<1>3. CASE (ExportAll \/ ExportSince \/ ExportPerson) /\ a \notin exports
  <2>1. PICK question, rows :
           /\ Export(question, rows)
           /\ question.kind = "since" =>
                 /\ question.as_of \in 1 .. MaxClock
                 /\ rows = ListCurrentAsOf(question.as_of)
           /\ \/ rows = GoldRows
              \/ \E t \in 1 .. MaxClock : rows = {g \in GoldRows : g.at <= t}
              \/ \E p \in People : rows = {g \in GoldRows : g.key \in p}
    BY <1>3, ExportAsks
  <2>2. a = Answer(question, rows) /\ UNCHANGED <<gold, from>>
    BY <1>3, <2>1 DEF Export, vars
  <2>3. a.question = question /\ a.records = Public(rows) /\ a.record_count = Cardinality(rows)
    BY <2>2 DEF Answer
  <2>4. rows \subseteq GoldRows
    BY <2>1
  <2>5. \A g \in rows : \A v \in 1 .. g.row.version :
           \E h \in rows : h.key = g.key /\ h.row.version = v
    <3> SUFFICES ASSUME NEW g \in rows, NEW v \in 1 .. g.row.version
                 PROVE  \E h \in rows : h.key = g.key /\ h.row.version = v
      OBVIOUS
    <3>1. PICK h \in GoldRows : h.key = g.key /\ h.row.version = v /\ h.at <= g.at
      BY <2>4, NoHoles
    <3>2. h.at \in 1 .. MaxClock /\ g.at \in 1 .. MaxClock
      BY <2>4, RowsFollowMoments
    <3>3. h \in rows
      BY <2>1, <3>1, <3>2
    <3> QED
      BY <3>1, <3>3
  <2>6. \A r \in Public(rows) : \A v \in 1 .. r.version :
           \E s \in Public(rows) : s.key = r.key /\ s.version = v
    <3>1. \A g : ToPersonnelRecord(g).key = g.key
                 /\ ToPersonnelRecord(g).version = g.row.version
      BY DEF ToPersonnelRecord
    <3>2. ASSUME NEW g \in rows, NEW v \in 1 .. g.row.version
          PROVE  \E s \in Public(rows) : s.key = g.key /\ s.version = v
      <4>1. PICK h \in rows : h.key = g.key /\ h.row.version = v
        BY <2>5
      <4> QED
        BY <3>1, <4>1 DEF Public
    <3> QED
      BY <3>1, <3>2 DEF Public
  <2>7. GoldRows' = GoldRows
    BY <2>2 DEF GoldRows
  <2>8. a.records \subseteq Public(ListCurrent)'
    BY <2>3, <2>4, <2>7 DEF ListCurrent, Public
  <2>9. a.record_count = Cardinality(a.records)
    BY <2>3, <2>4, PublicCount
  <2>10. a.question.kind = "since" => a.records = Public(ListCurrentAsOf(a.question.as_of))'
    BY <2>1, <2>3, <2>7 DEF Public, ListCurrentAsOf
  <2> QED
    BY <2>3, <2>6, <2>8, <2>9, <2>10
<1>4. \/ a \in exports /\ UNCHANGED <<gold, from>>
      \/ \E w \in Reviewers : Commit(w)
      \/ (ExportAll \/ ExportSince \/ ExportPerson) /\ a \notin exports
  <2>1. exports' = exports \/ ExportAll \/ ExportSince \/ ExportPerson
    BY DEF ExportNext, exportVars, Tick, Reviewing, Insert, Commit, InsertRefused, KillReviewer
  <2> QED
    BY <2>1, OnlyCommitWrites
<1> QED
  BY <1>1, <1>2, <1>3, <1>4

-----------------------------------------------------------------------------
\* Every step preserves the invariant.
LEMMA ExportStep == ExportInv /\ [ExportNext]_exportVars => ExportInv'
<1> SUFFICES ASSUME ExportInv, [ExportNext]_exportVars
             PROVE  ExportInv'
  OBVIOUS
<1>1. ReviewInv'
  BY ReviewingGoesOn, ReviewStep DEF ExportInv
<1>2. OneOpenInsert' /\ OpenInsertIsFree' /\ MomentsType'
  BY LockStep
<1>3. MomentsMatchVersions' /\ RowsAreUnique' /\ MomentsAreOrdered'
  BY MomentsStep, OrderStep
<1>4. AnswersPrecedeInserts' /\ ExportsAreStable'
  BY AnswersStep, StableStep
<1> QED
  BY <1>1, <1>2, <1>3, <1>4 DEF ExportInv

\* ExportInv is inductive, hence true in every reachable state.
THEOREM ExportInvariant == ExportSpec => []ExportInv
BY ExportInitInv, ExportStep, PTL DEF ExportSpec

\* Under exports, with INSERT and commit apart, the reviewers still behave as
\* ReviewGold says: INSERT is a stutter of theirs, the commit their AddVersion.
THEOREM ExportRefinesReview == ExportSpec => Spec
<1>1. ExportInit => Init
  BY DEF ExportInit
<1> QED
  BY <1>1, ReviewingGoesOn, PTL DEF ExportSpec, Spec

\* Types of the composed system, and as many rows with a moment as moments.
THEOREM ExportTypeCorrect == ExportSpec => []ExportTypeOK
<1>1. ExportInv => ExportTypeOK
  BY DEF ExportInv, ReviewInv, OpenInsertIsFree, MomentsType, MomentsMatchVersions,
         RowsAreUnique, ExportTypeOK
<1> QED
  BY <1>1, ExportInvariant, PTL

\* An answer about the past, given while no promotion was between INSERT and
\* commit, is the answer to the same question for ever; no answer has a hole in the
\* versions of a key, names a row twice or is ever taken back.
THEOREM ExportsStable == ExportSpec => []ExportsAreStable
<1>1. ExportInv => ExportsAreStable
  BY DEF ExportInv
<1> QED
  BY <1>1, ExportInvariant, PTL
=============================================================================
