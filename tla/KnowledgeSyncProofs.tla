------------------------- MODULE KnowledgeSyncProofs -------------------------
(***************************************************************************)
(* Proofs about KnowledgeSync for any finite set of articles and syncs     *)
(* and any readers, page size and bounds: type correctness, what the       *)
(* watermark claims, whose the lease is, and that one disturbed listing    *)
(* removes no published article.                                           *)
(*                                                                         *)
(* A short page is the last one, because the stamps a listing selects have *)
(* the ranks from 1 to their number.  Hence a sync that nothing disturbed  *)
(* has seen all there is when it reconciles (ListInv), and until it        *)
(* commits the cache keeps what its watermark will claim (TagInv).  An     *)
(* article is removed only after a tombstone, and a tombstone on a         *)
(* published article is the mark of a disturbed sync (TombInv).            *)
(***************************************************************************)
EXTENDS KnowledgeSync, FiniteSetTheorems, TLAPS

USE KnowledgeAssumption

Current(a) == row[a] = Active(remote[a].ver)
Place(s, a) == Rank(Listing(s), Stamp(a))
Lists(s) == sync[s].pc \in {"query", "page"}
PageOf(s) == {Copy(a) : a \in {b \in Articles : OnPage(s, b)}}
Tags(s) == sync[s].pc \in {"tagging", "commit"}

\* Every edit makes one version.
TypeInv == TypeOK /\ \A a \in Articles : remote[a].ver <= edits + 1

\* Nobody has a version that ServiceNow has not made.
VerInv ==
  /\ \A a \in Articles : row[a].ver <= remote[a].ver
  /\ \A s \in Syncs : \A rec \in sync[s].page : rec.ver <= remote[rec.id].ver
  /\ \A s \in Syncs : \A a \in DOMAIN sync[s].loaded : sync[s].loaded[a] <= remote[a].ver
  /\ \A r \in Readers : answer[r] # None => answer[r].ver <= remote[answer[r].id].ver

\* A clean sync works alone, from the stored watermark.
AloneInv ==
  /\ \A s, t \in Syncs : Working(s) /\ Working(t) /\ s # t => ~sync[s].clean /\ disturbed = 2
  /\ \A s \in Syncs : Working(s) /\ ~sync[s].clean => disturbed # 0
  /\ \A s \in Syncs : Working(s) /\ sync[s].clean => sync[s].prev = wm

\* What a clean sync has listed, by the offset and the listing it is at.
ListedBy(s) ==
  /\ \A a \in sync[s].seen : Current(a)
  /\ \A a \in Articles : Selected(s, a) /\ Place(s, a) <= sync[s].off => a \in sync[s].seen
  /\ sync[s].part = 2 /\ ~sync[s].full =>
       \A a \in Articles :
         remote[a].published /\ remote[a].at = sync[s].prev[1] /\ a > sync[s].prev[2] => a \in sync[s].seen
  /\ sync[s].pc = "query" /\ sync[s].off = 0 /\ (sync[s].part = 1 \/ sync[s].full) => sync[s].seen = {}
  /\ sync[s].pc = "page" => sync[s].page = PageOf(s)
ListInv ==
  /\ \A s \in Syncs : Lists(s) /\ sync[s].full => sync[s].part = 2
  /\ \A s \in Syncs : Lists(s) /\ sync[s].clean => ListedBy(s)

\* What the watermark of a clean sync will claim is in the cache, and its write-back of
\* tags takes nothing back.
Claims(s, a) == ~Before(Claim(s), Stamp(a)) /\ (sync[s].full \/ trusted)
TaggedBy(s) ==
  \A a \in Articles : remote[a].published =>
    /\ Claims(s, a) => Current(a)
    /\ a \in DOMAIN sync[s].loaded /\ (Claims(s, a) \/ (trusted /\ ~Before(wm, Stamp(a))))
         => sync[s].loaded[a] = remote[a].ver
TagInv == \A s \in Syncs : Tags(s) /\ sync[s].clean => TaggedBy(s)

\* A published article that lost its active row was skipped by a listing that was disturbed.
TombInv ==
  \A a \in Articles :
    remote[a].published /\ row[a].life = "tombstoned" /\ row[a].ver = remote[a].ver =>
      /\ disturbed # 0
      /\ \A s \in Syncs : Lists(s) /\ ~sync[s].clean => disturbed = 2

-----------------------------------------------------------------------------
(* Pages: stamps are totally ordered, so the articles a listing selects have the
   ranks from 1 to their number. *)

\* A place is where its predecessors are.
LEMMA RankOrder ==
  ASSUME NEW S, IsFiniteSet(S), S \subseteq Nat \X Nat, NEW x \in S, NEW y \in S
  PROVE  /\ Rank(S, x) \in 1 .. Cardinality(S)
         /\ Before(x, y) => Rank(S, x) < Rank(S, y)
  <1> DEFINE Upto(z) == {w \in S : ~Before(z, w)}
  <1>1. \A z \in S : z[1] \in Nat /\ z[2] \in Nat
    OBVIOUS
  <1>2. ASSUME NEW z \in S
        PROVE  /\ IsFiniteSet(Upto(z)) /\ Cardinality(Upto(z)) \in 1 .. Cardinality(S)
    <2>1. IsFiniteSet(Upto(z)) /\ Cardinality(Upto(z)) <= Cardinality(S)
      BY FS_Subset, Upto(z) \subseteq S
    <2>2. Cardinality(Upto(z)) \in Nat /\ Cardinality(S) \in Nat
      BY <2>1, FS_CardinalityType
    <2>3. z \in Upto(z)
      BY <1>1 DEF Before
    <2>4. Cardinality(Upto(z)) # 0
      BY <2>1, <2>3, FS_EmptySet
    <2> QED BY <2>1, <2>2, <2>4
  <1>3. ASSUME Before(x, y) PROVE Cardinality(Upto(x)) < Cardinality(Upto(y))
    <2>1. Upto(x) \subseteq Upto(y)
      BY <1>1, <1>3 DEF Before
    <2>2. y \in Upto(y) /\ y \notin Upto(x)
      BY <1>1, <1>3 DEF Before
    <2>3. /\ Cardinality(Upto(x)) <= Cardinality(Upto(y))
          /\ Cardinality(Upto(x)) # Cardinality(Upto(y))
      BY <1>2, <2>1, <2>2, FS_Subset
    <2>4. Cardinality(Upto(x)) \in Nat /\ Cardinality(Upto(y)) \in Nat
      BY <1>2, FS_CardinalityType
    <2> QED BY <2>3, <2>4
  <1> QED BY <1>2, <1>3 DEF Rank

\* No two stamps share a place.
LEMMA RankInjective ==
  ASSUME NEW S, IsFiniteSet(S), S \subseteq Nat \X Nat, NEW x \in S, NEW y \in S,
         Rank(S, x) = Rank(S, y)
  PROVE  x = y
  <1>1. Rank(S, x) \in 1 .. Cardinality(S) /\ Cardinality(S) \in Nat
    BY RankOrder, FS_CardinalityType
  <1>2. ~Before(x, y) /\ ~Before(y, x)
    BY <1>1, RankOrder
  <1>3. x[1] = y[1] /\ x[2] = y[2]
    BY <1>2 DEF Before
  <1> QED BY <1>3

\* Every place is taken.
LEMMA RankOnto ==
  ASSUME NEW S, IsFiniteSet(S), S \subseteq Nat \X Nat, NEW i \in 1 .. Cardinality(S)
  PROVE  \E x \in S : Rank(S, x) = i
  <1> DEFINE T == 1 .. Cardinality(S)
             f == [x \in S |-> Rank(S, x)]
  <1>1. IsFiniteSet(T) /\ Cardinality(T) = Cardinality(S)
    <2>1. Cardinality(S) \in Nat
      BY FS_CardinalityType
    <2>2. \A n \in Nat : IsFiniteSet(1 .. n) /\ Cardinality(1 .. n) = n
      <3> SUFFICES ASSUME NEW n \in Nat PROVE IsFiniteSet(1 .. n) /\ Cardinality(1 .. n) = n
        OBVIOUS
      <3>1. 1 \in Int /\ n \in Int
        OBVIOUS
      <3>2. IsFiniteSet(1 .. n) /\ Cardinality(1 .. n) = (IF 1 > n THEN 0 ELSE n - 1 + 1)
        BY <3>1, FS_Interval, ZenonT(60)
      <3>3. (IF 1 > n THEN 0 ELSE n - 1 + 1) = n
        OBVIOUS
      <3> QED BY <3>2, <3>3
    <2> QED BY <2>1, <2>2
  <1>2. f \in [S -> T]
    BY RankOrder
  <1>3. \A x, y \in S : f[x] = f[y] => x = y
    BY RankInjective
  <1>4. f \in Injection(S, T)
    BY <1>2, <1>3 DEF Injection, IsInjective
  <1>5. f \in Surjection(S, T)
    BY <1>1, <1>4, FS_Injection
  <1> QED BY <1>5 DEF Surjection

\* A finite set of stamps has a latest one: WatermarkProgress::observe finds it.
LEMMA LatestExists ==
  ASSUME NEW S, IsFiniteSet(S), S \subseteq Nat \X Nat, S # {}
  PROVE  \E m \in S : \A x \in S : ~Before(m, x)
  <1>1. Cardinality(S) \in Nat /\ Cardinality(S) # 0
    BY FS_CardinalityType, FS_EmptySet
  <1>2. PICK m \in S : Rank(S, m) = Cardinality(S)
    BY <1>1, RankOnto
  <1>3. ASSUME NEW x \in S, Before(m, x) PROVE FALSE
    <2>1. Rank(S, m) < Rank(S, x) /\ Rank(S, x) \in 1 .. Cardinality(S)
      BY <1>3, RankOrder
    <2> QED BY <1>1, <1>2, <2>1
  <1> QED BY <1>3

-----------------------------------------------------------------------------
(* Types *)

LEMMA Constants ==
  /\ PageSize \in Nat /\ PageSize > 0 /\ MaxEdits \in Nat /\ MaxSecond \in Nat /\ MaxSecond > 0
  /\ MaxStarts \in Nat
  /\ Stamps \subseteq Nat \X Nat
  /\ IsFiniteSet(Stamps)
  <1>1. /\ PageSize \in Nat /\ PageSize > 0 /\ MaxEdits \in Nat /\ MaxSecond \in Nat /\ MaxSecond > 0
        /\ MaxStarts \in Nat
    BY DEF KnowledgeAssumption
  <1>2. IsFiniteSet((1 .. MaxSecond) \X Articles)
    <2>1. IsFiniteSet(Articles)
      BY DEF KnowledgeAssumption
    <2>2. IsFiniteSet(1 .. MaxSecond)
      BY <1>1, FS_Interval
    <2> QED BY <2>1, <2>2, FS_Product
  <1>3. IsFiniteSet({Nowhere})
    BY FS_Singleton
  <1>4. IsFiniteSet(Stamps)
    BY <1>2, <1>3, FS_Union DEF Stamps
  <1>5. Stamps \subseteq Nat \X Nat
    <2>1. Articles \subseteq Nat /\ 1 .. MaxSecond \subseteq Nat
      BY <1>1 DEF KnowledgeAssumption
    <2>2. (1 .. MaxSecond) \X Articles \subseteq Nat \X Nat
      BY <2>1
    <2>3. Nowhere \in Nat \X Nat
      BY DEF Nowhere
    <2> QED BY <2>2, <2>3 DEF Stamps
  <1> QED BY <1>1, <1>4, <1>5

Rows == [life : {"active", "tombstoned"}, ver : Vers] \cup {Absent}

\* What persist_record leaves of a page and of what was there.
LEMMA PersistedIs ==
  ASSUME NEW rows \in [Articles -> Rows], NEW page, page \subseteq Fetched
  PROVE  /\ Persisted(rows, page) \in [Articles -> Rows]
         /\ \A a \in Articles : a \in Ids(page) =>
              \E rec \in page : rec.id = a /\ Persisted(rows, page)[a] = Active(rec.ver)
         /\ \A a \in Articles : a \notin Ids(page) => Persisted(rows, page)[a] = rows[a]
  <1>1. ASSUME NEW a \in Articles, a \in Ids(page)
        PROVE  \E rec \in page : rec.id = a /\ Persisted(rows, page)[a] = Active(rec.ver)
    <2>1. \E rec \in page : rec.id = a
      BY <1>1 DEF Ids
    <2>2. PICK rec \in page : rec.id = a /\ rec = CHOOSE x \in page : x.id = a
      BY <2>1
    <2>3. Persisted(rows, page)[a] = Active(rec.ver)
      BY <1>1, <2>2 DEF Persisted, Version
    <2> QED BY <2>2, <2>3
  <1>2. ASSUME NEW a \in Articles, a \notin Ids(page)
        PROVE  Persisted(rows, page)[a] = rows[a]
    BY <1>2 DEF Persisted
  <1>3. ASSUME NEW a \in Articles PROVE Persisted(rows, page)[a] \in Rows
    <2>1. \A rec \in page : Active(rec.ver) \in Rows
      BY DEF Fetched, Active, Rows
    <2> QED BY <1>1, <1>2, <2>1
  <1>4. Persisted(rows, page) = [a \in Articles |-> Persisted(rows, page)[a]]
    BY DEF Persisted
  <1>5. Persisted(rows, page) \in [Articles -> Rows]
    BY <1>3, <1>4
  <1> QED BY <1>1, <1>2, <1>5

\* What reconcile_full_knowledge_sync leaves.
LEMMA ReconciledIs ==
  ASSUME NEW rows \in [Articles -> Rows], NEW seen
  PROVE  /\ Reconciled(rows, seen) \in [Articles -> Rows]
         /\ \A a \in Articles : Reconciled(rows, seen)[a].ver <= rows[a].ver
         /\ \A a \in seen \cap Articles : Reconciled(rows, seen)[a] = rows[a]
         /\ \A a \in Articles \ seen :
              Reconciled(rows, seen)[a] = IF rows[a].life = "active"
                THEN [life |-> "tombstoned", ver |-> rows[a].ver] ELSE Absent
  <1> DEFINE R == Reconciled(rows, seen)
             Tomb(a) == [life |-> "tombstoned", ver |-> rows[a].ver]
  <1>1. \A a \in Articles : rows[a] \in Rows /\ rows[a].ver \in Nat
    BY Constants DEF Rows, Absent, Vers
  <1>2. \A a \in Articles : rows[a].life = "active" =>
          [rows[a] EXCEPT !.life = "tombstoned"] = Tomb(a) /\ Tomb(a) \in Rows
    BY <1>1 DEF Rows, Absent
  <1>3. R = [a \in Articles |-> R[a]]
    BY DEF Reconciled
  <1>4. ASSUME NEW a \in Articles, a \in seen
        PROVE  R[a] = rows[a]
    BY <1>4 DEF Reconciled
  <1>5. ASSUME NEW a \in Articles, a \notin seen, rows[a].life = "active"
        PROVE  R[a] = Tomb(a)
    BY <1>2, <1>5 DEF Reconciled
  <1>6. ASSUME NEW a \in Articles, a \notin seen, rows[a].life # "active"
        PROVE  R[a] = Absent
    BY <1>6 DEF Reconciled
  <1>7. Absent \in Rows /\ Absent.ver = 0
    BY DEF Rows, Absent
  <1>8. ASSUME NEW a \in Articles PROVE R[a] \in Rows /\ R[a].ver <= rows[a].ver
    <2>1. CASE a \in seen
      BY <1>1, <1>4, <2>1
    <2>2. CASE a \notin seen /\ rows[a].life = "active"
      <3>1. Tomb(a) \in Rows /\ Tomb(a).ver = rows[a].ver
        BY <1>2, <2>2
      <3>2. R[a] = Tomb(a)
        BY <1>5, <2>2
      <3> HIDE DEF Tomb, R
      <3> QED BY <1>1, <3>1, <3>2
    <2>3. CASE a \notin seen /\ rows[a].life # "active"
      <3>1. R[a] = Absent
        BY <1>6, <2>3
      <3> HIDE DEF R
      <3> QED BY <1>1, <1>7, <3>1
    <2> QED BY <2>1, <2>2, <2>3
  <1>9. R \in [Articles -> Rows]
    BY <1>3, <1>8
  <1> QED BY <1>4, <1>5, <1>6, <1>8, <1>9

\* WatermarkProgress::observe answers a stamp it was given.
LEMMA ObserveTypes ==
  ASSUME NEW mark \in Stamps, NEW page, page \subseteq Fetched
  PROVE  Observe(mark, page) \in Stamps
  <1> DEFINE all == {mark} \cup {<<rec.at, rec.id>> : rec \in page}
  <1>1. all \subseteq Stamps /\ all # {}
    BY DEF Fetched, Stamps
  <1>2. IsFiniteSet(all) /\ all \subseteq Nat \X Nat
    BY <1>1, Constants, FS_Subset
  <1>3. \E m \in all : \A x \in all : ~Before(m, x)
    BY <1>1, <1>2, LatestExists
  <1>4. Observe(mark, page) \in all
    BY <1>3 DEF Observe
  <1> QED BY <1>1, <1>4

\* What a listing selects is finite, and has places.
LEMMA ListingTypes ==
  ASSUME TypeInv, NEW s \in Syncs
  PROVE  /\ IsFiniteSet(Listing(s)) /\ Listing(s) \subseteq Nat \X Nat
         /\ \A a \in Articles : Stamp(a) \in Stamps /\ Copy(a) \in Fetched
         /\ \A a \in Articles : Selected(s, a) => Stamp(a) \in Listing(s) /\ Place(s, a) \in Nat /\ Place(s, a) > 0
  <1>1. \A a \in Articles : remote[a].at \in 1 .. MaxSecond /\ remote[a].ver \in Vers
    BY DEF TypeInv, TypeOK
  <1>2. \A a \in Articles : Stamp(a) \in Stamps /\ Copy(a) \in Fetched
    BY <1>1 DEF Stamp, Stamps, Copy, Fetched
  <1>3. IsFiniteSet(Listing(s)) /\ Listing(s) \subseteq Nat \X Nat
    <2>1. Listing(s) \subseteq Stamps
      BY <1>2 DEF Listing
    <2> QED BY <2>1, Constants, FS_Subset
  <1>4. ASSUME NEW a \in Articles, Selected(s, a)
        PROVE  Stamp(a) \in Listing(s) /\ Place(s, a) \in Nat /\ Place(s, a) > 0
    <2>1. Stamp(a) \in Listing(s)
      BY <1>4 DEF Listing
    <2>2. Place(s, a) \in 1 .. Cardinality(Listing(s))
      BY <1>3, <2>1, RankOrder DEF Place
    <2> QED BY <1>3, <2>1, <2>2, FS_CardinalityType
  <1> QED BY <1>2, <1>3, <1>4

\* Two selected articles are not at one place.
LEMMA PlacesDiffer ==
  ASSUME TypeInv, NEW s \in Syncs, NEW a \in Articles, NEW b \in Articles,
         Selected(s, a), Selected(s, b), Place(s, a) = Place(s, b)
  PROVE  a = b
  <1>1. Stamp(a) = Stamp(b)
    BY ListingTypes, RankInjective DEF Place
  <1> QED BY <1>1 DEF Stamp

\* A page is as long as its places, or shorter.
LEMMA PageFits ==
  ASSUME TypeInv, NEW s \in Syncs
  PROVE  PageOf(s) \subseteq Fetched /\ IsFiniteSet(PageOf(s)) /\ Cardinality(PageOf(s)) <= PageSize
  <1> DEFINE T == sync[s].off + 1 .. sync[s].off + PageSize
             f == [rec \in PageOf(s) |-> Place(s, rec.id)]
  <1>1. sync[s].off \in Nat
    BY DEF TypeInv, TypeOK, Run
  <1>2. IsFiniteSet(T) /\ Cardinality(T) = PageSize
    <2>1. sync[s].off + 1 \in Int /\ sync[s].off + PageSize \in Int
      BY <1>1, Constants
    <2>2. IsFiniteSet(T) /\ Cardinality(T) = IF sync[s].off + 1 > sync[s].off + PageSize THEN 0
            ELSE (sync[s].off + PageSize) - (sync[s].off + 1) + 1
      BY <2>1, FS_Interval
    <2> QED BY <1>1, <2>2, Constants
  <1>3. \A rec \in PageOf(s) : rec.id \in Articles /\ OnPage(s, rec.id) /\ rec = Copy(rec.id)
    BY DEF PageOf, Copy
  <1>4. f \in [PageOf(s) -> T]
    BY <1>3 DEF OnPage, Place
  <1>5. \A x, y \in PageOf(s) : f[x] = f[y] => x = y
    <2>1. ASSUME NEW x \in PageOf(s), NEW y \in PageOf(s), f[x] = f[y] PROVE x = y
      <3>1. x.id = y.id
        BY <1>3, <2>1, PlacesDiffer DEF OnPage
      <3> QED BY <1>3, <3>1
    <2> QED BY <2>1
  <1>6. f \in Injection(PageOf(s), T)
    BY <1>4, <1>5 DEF Injection, IsInjective
  <1>7. IsFiniteSet(PageOf(s)) /\ Cardinality(PageOf(s)) <= PageSize
    BY <1>2, <1>6, FS_Injection
  <1>8. PageOf(s) \subseteq Fetched
    BY <1>3, ListingTypes
  <1> QED BY <1>7, <1>8

\* A short page is the last one.
LEMMA ShortPage ==
  ASSUME TypeInv, NEW s \in Syncs, Cardinality(PageOf(s)) < PageSize
  PROVE  \A a \in Articles : Selected(s, a) => Place(s, a) <= sync[s].off + PageSize
  <1> DEFINE T == sync[s].off + 1 .. sync[s].off + PageSize
             L == Listing(s)
             g == [i \in T |-> CHOOSE rec \in PageOf(s) : Place(s, rec.id) = i]
  <1>1. sync[s].off \in Nat /\ PageSize \in Nat /\ PageSize > 0
    BY Constants DEF TypeInv, TypeOK, Run
  <1>2. IsFiniteSet(T) /\ Cardinality(T) = PageSize
    <2>1. sync[s].off + 1 \in Int /\ sync[s].off + PageSize \in Int
      BY <1>1
    <2>2. IsFiniteSet(T) /\ Cardinality(T) = IF sync[s].off + 1 > sync[s].off + PageSize THEN 0
            ELSE (sync[s].off + PageSize) - (sync[s].off + 1) + 1
      BY <2>1, FS_Interval
    <2> QED BY <1>1, <2>2
  <1>3. SUFFICES ASSUME NEW a \in Articles, Selected(s, a), ~(Place(s, a) <= sync[s].off + PageSize)
                 PROVE  FALSE
    OBVIOUS
  <1>4. /\ IsFiniteSet(L) /\ L \subseteq Nat \X Nat /\ Stamp(a) \in L
        /\ Place(s, a) \in Nat
    BY <1>3, ListingTypes
  <1>5. Cardinality(L) \in Nat /\ Place(s, a) <= Cardinality(L)
    BY <1>4, RankOrder, FS_CardinalityType DEF Place
  <1>6. ASSUME NEW i \in T
        PROVE  \E rec \in PageOf(s) : Place(s, rec.id) = i
    <2>1. i \in 1 .. Cardinality(L)
      BY <1>1, <1>3, <1>4, <1>5
    <2>2. PICK x \in L : Rank(L, x) = i
      BY <1>4, <2>1, RankOnto
    <2>3. PICK b \in Articles : Selected(s, b) /\ x = Stamp(b)
      BY <2>2 DEF Listing
    <2>4. OnPage(s, b) /\ Place(s, b) = i
      BY <2>2, <2>3 DEF OnPage, Place
    <2>5. Copy(b) \in PageOf(s) /\ Copy(b).id = b
      BY <2>4 DEF PageOf, Copy
    <2> QED BY <2>4, <2>5
  <1>7. \A i \in T : g[i] \in PageOf(s) /\ Place(s, g[i].id) = i
    BY <1>6
  <1>8. g \in Injection(T, PageOf(s))
    <2>1. g \in [T -> PageOf(s)]
      BY <1>7
    <2>2. \A i, j \in T : g[i] = g[j] => i = j
      BY <1>7
    <2> QED BY <2>1, <2>2 DEF Injection, IsInjective
  <1>9. IsFiniteSet(PageOf(s))
    BY PageFits
  <1>10. PageSize <= Cardinality(PageOf(s)) /\ Cardinality(PageOf(s)) \in Nat
    BY <1>2, <1>8, <1>9, FS_Injection, FS_CardinalityType
  <1> QED BY <1>1, <1>10

-----------------------------------------------------------------------------
(* What the steps do to the progress of a sync *)

SyncOK ==
  /\ sync \in [Syncs -> Run]
  /\ \A s \in Syncs : IsFiniteSet(sync[s].page) /\ Cardinality(sync[s].page) <= PageSize
Others(s) == \A t \in Syncs \ {s} : sync'[t] = sync[t]
Same(x, y) == x.full = y.full /\ x.prev = y.prev /\ x.clean = y.clean
Alike(x, y) ==
  /\ x.pc = y.pc /\ x.full = y.full /\ x.prev = y.prev /\ x.part = y.part /\ x.off = y.off
  /\ x.page = y.page /\ x.mark = y.mark /\ x.seen = y.seen /\ x.loaded = y.loaded

LEMMA IdleRun ==
  /\ IdleSync \in Run /\ [IdleSync EXCEPT !.pc = "semantic"] \in Run
  /\ IsFiniteSet({}) /\ Cardinality({}) <= PageSize
  <1>1. <<>> \in UNION {[S -> Vers] : S \in SUBSET Articles}
    <2>1. <<>> \in [{} -> Vers]
      BY SMT
    <2> QED BY <2>1
  <1>2. IdleSync \in Run
    BY <1>1 DEF IdleSync, Run, Stamps
  <1>3. [IdleSync EXCEPT !.pc = "semantic"] \in Run
    BY <1>2 DEF Run
  <1>4. IsFiniteSet({}) /\ Cardinality({}) <= PageSize
    BY FS_EmptySet, Constants
  <1> QED BY <1>2, <1>3, <1>4

\* A sync's row is replaced by a well-formed one.
LEMMA RowTyped ==
  ASSUME TypeOK, NEW s \in Syncs, NEW run \in Run, sync' = [sync EXCEPT ![s] = run],
         IsFiniteSet(run.page), Cardinality(run.page) <= PageSize
  PROVE  /\ SyncOK'
         /\ Others(s) /\ sync'[s] = run
  BY DEF TypeOK, SyncOK, Others

\* The rows that a step makes dirty.
LEMMA DirtyTyped ==
  ASSUME TypeOK, NEW S
  PROVE  /\ DirtySyncs(S) \in [Syncs -> Run]
         /\ \A t \in Syncs : /\ DirtySyncs(S)[t].clean = (sync[t].clean /\ t \notin S)
                             /\ Alike(DirtySyncs(S)[t], sync[t])
  <1>1. \A t \in Syncs : sync[t] \in Run
    BY DEF TypeOK
  <1>2. \A run \in Run : \A b \in BOOLEAN :
          LET new == [run EXCEPT !.clean = @ /\ b] IN
          new \in Run /\ new.clean = (run.clean /\ b) /\ Alike(new, run)
    BY DEF Run, Alike
  <1>3. \A t \in Syncs : DirtySyncs(S)[t] = [sync[t] EXCEPT !.clean = @ /\ t \notin S]
    BY DEF DirtySyncs
  <1>4. DirtySyncs(S) = [t \in Syncs |-> DirtySyncs(S)[t]]
    BY DEF DirtySyncs
  <1>5. \A t \in Syncs : (t \notin S) \in BOOLEAN
    OBVIOUS
  <1>6. \A t \in Syncs : /\ DirtySyncs(S)[t] \in Run
                         /\ DirtySyncs(S)[t].clean = (sync[t].clean /\ t \notin S)
                         /\ Alike(DirtySyncs(S)[t], sync[t])
    <2> TAKE t \in Syncs
    <2> DEFINE b == t \notin S
    <2>1. b \in BOOLEAN /\ sync[t] \in Run
      BY <1>1
    <2>2. DirtySyncs(S)[t] = [sync[t] EXCEPT !.clean = @ /\ b]
      BY <1>3
    <2> HIDE DEF b
    <2>3. DirtySyncs(S)[t] \in Run /\ DirtySyncs(S)[t].clean = (sync[t].clean /\ b)
          /\ Alike(DirtySyncs(S)[t], sync[t])
      BY <1>2, <2>1, <2>2
    <2> QED BY <2>3 DEF b
  <1> QED BY <1>4, <1>6

LEMMA ServeIs ==
  ASSUME TypeInv, NEW s \in Syncs, Serve(s)
  PROVE  /\ SyncOK'
         /\ Others(s) /\ Same(sync'[s], sync[s])
         /\ sync'[s].pc = "page" /\ sync'[s].page = PageOf(s)
         /\ sync'[s].part = sync[s].part /\ sync'[s].off = sync[s].off
         /\ sync'[s].seen = sync[s].seen /\ sync'[s].loaded = sync[s].loaded
  <1> DEFINE run == [sync[s] EXCEPT !.pc = "page", !.page = PageOf(s)]
  <1>1. sync' = [sync EXCEPT ![s] = run]
    BY DEF Serve, PageOf
  <1>2. sync[s] \in Run /\ TypeOK
    BY DEF TypeInv, TypeOK
  <1>3. PageOf(s) \subseteq Fetched /\ IsFiniteSet(PageOf(s)) /\ Cardinality(PageOf(s)) <= PageSize
    BY PageFits
  <1>4. /\ run \in Run /\ run.page = PageOf(s) /\ run.pc = "page" /\ Same(run, sync[s])
        /\ run.part = sync[s].part /\ run.off = sync[s].off
        /\ run.seen = sync[s].seen /\ run.loaded = sync[s].loaded
    BY <1>2, <1>3 DEF Run, Same
  <1> HIDE DEF run
  <1> QED BY <1>1, <1>2, <1>3, <1>4, RowTyped

LEMMA BeginIs ==
  ASSUME TypeInv, NEW s \in Syncs, NEW full \in BOOLEAN, Begin(s, full)
  PROVE  /\ SyncOK'
         /\ \A t \in Syncs \ {s} : /\ Alike(sync'[t], sync[t])
                                   /\ sync'[t].clean = (sync[t].clean /\ ~Working(t))
         /\ sync'[s].pc = "query" /\ sync'[s].full = full /\ sync'[s].prev = wm
         /\ sync'[s].part = (IF full THEN 2 ELSE 1) /\ sync'[s].off = 0
         /\ sync'[s].page = {} /\ sync'[s].seen = {} /\ DOMAIN sync'[s].loaded = {}
         /\ sync'[s].clean = (\A t \in Syncs : ~Working(t))
  <1> DEFINE others == {t \in Syncs : Working(t)}
             D == DirtySyncs(others)
             run == [IdleSync EXCEPT !.pc = "query", !.full = full, !.prev = wm,
                              !.part = IF full THEN 2 ELSE 1, !.clean = (others = {})]
  <1>1. sync' = [D EXCEPT ![s] = run]
    BY DEF Begin
  <1>2. TypeOK /\ wm \in Stamps
    BY DEF TypeInv, TypeOK
  <1>3. D \in [Syncs -> Run] /\ \A t \in Syncs : /\ Alike(D[t], sync[t])
                                                 /\ D[t].clean = (sync[t].clean /\ ~Working(t))
    BY <1>2, DirtyTyped
  <1>4. /\ run \in Run /\ run.pc = "query" /\ run.full = full /\ run.prev = wm
        /\ run.part = (IF full THEN 2 ELSE 1) /\ run.off = 0
        /\ run.page = {} /\ run.seen = {} /\ run.loaded = <<>> /\ run.clean = (others = {})
    <2>1. (others = {}) \in BOOLEAN /\ (IF full THEN 2 ELSE 1) \in {1, 2}
      OBVIOUS
    <2>2. IdleSync \in Run
      BY IdleRun
    <2> HIDE DEF others
    <2> QED BY <1>2, <2>1, <2>2 DEF IdleSync, Run
  <1>5. DOMAIN <<>> = {}
    BY SMT
  <1>6. \A t \in Syncs \ {s} : sync'[t] = D[t]
    BY <1>1, <1>3
  <1>7. sync'[s] = run
    BY <1>1, <1>3
  <1>8. \A t \in Syncs : IsFiniteSet(sync[t].page) /\ Cardinality(sync[t].page) <= PageSize
    BY <1>2 DEF TypeOK
  <1>9. SyncOK'
    <2>1. sync' \in [Syncs -> Run]
      <3> HIDE DEF D, run
      <3> QED BY <1>1, <1>3, <1>4
    <2>2. ASSUME NEW t \in Syncs
          PROVE  IsFiniteSet(sync'[t].page) /\ Cardinality(sync'[t].page) <= PageSize
      <3>1. CASE t = s
        BY <1>4, <1>7, <3>1, IdleRun
      <3>2. CASE t # s
        BY <1>3, <1>6, <1>8, <3>2 DEF Alike
      <3> QED BY <3>1, <3>2
    <2> QED BY <2>1, <2>2 DEF SyncOK
  <1>10. (others = {}) = (\A t \in Syncs : ~Working(t))
    OBVIOUS
  <1> HIDE DEF D, run, others
  <1> QED BY <1>3, <1>4, <1>5, <1>6, <1>7, <1>9, <1>10

\* A full page, and the short one between the two incremental listings.
LEMMA TurnIs ==
  ASSUME TypeInv, NEW s \in Syncs, TurnPage(s) \/ NextListing(s)
  PROVE  /\ SyncOK' /\ Others(s) /\ Same(sync'[s], sync[s])
         /\ sync'[s].pc = "query" /\ sync'[s].page = {} /\ sync'[s].loaded = sync[s].loaded
         /\ sync'[s].seen = sync[s].seen \cup Ids(sync[s].page)
         /\ TurnPage(s) => sync'[s].part = sync[s].part /\ sync'[s].off = sync[s].off + PageSize
         /\ NextListing(s) => sync[s].part = 1 /\ sync'[s].part = 2 /\ sync'[s].off = 0
         /\ sync[s].page \subseteq Fetched
  <1>1. /\ TypeOK /\ sync[s] \in Run /\ sync[s].page \subseteq Fetched /\ sync[s].mark \in Stamps
        /\ sync[s].off + PageSize \in Nat /\ sync[s].seen \subseteq Articles
    BY Constants DEF TypeInv, TypeOK, Run
  <1>2. Observe(sync[s].mark, sync[s].page) \in Stamps
    BY <1>1, ObserveTypes
  <1>3. Ids(sync[s].page) \subseteq Articles
    BY <1>1 DEF Ids, Fetched
  <1>4. sync[s].seen \cup Ids(sync[s].page) \in SUBSET Articles
    BY <1>1, <1>3
  <1>5. CASE TurnPage(s)
    <2> DEFINE run == [sync[s] EXCEPT !.pc = "query", !.page = {}, !.off = @ + PageSize,
                          !.mark = Observe(@, sync[s].page), !.seen = @ \cup Ids(sync[s].page)]
    <2>1. sync' = [sync EXCEPT ![s] = run]
      BY <1>5 DEF TurnPage
    <2>2. /\ run \in Run /\ run.page = {} /\ run.pc = "query" /\ Same(run, sync[s])
          /\ run.part = sync[s].part /\ run.off = sync[s].off + PageSize
          /\ run.seen = sync[s].seen \cup Ids(sync[s].page) /\ run.loaded = sync[s].loaded
      BY <1>1, <1>2, <1>4 DEF Run, Same
    <2>3. ~NextListing(s)
      BY <1>1, <1>5, FS_CardinalityType, Constants DEF NextListing, TurnPage, TypeOK
    <2> HIDE DEF run
    <2> QED BY <1>1, <2>1, <2>2, <2>3, RowTyped, IdleRun
  <1>6. CASE NextListing(s)
    <2> DEFINE run == [sync[s] EXCEPT !.pc = "query", !.page = {}, !.part = 2, !.off = 0,
                          !.mark = Observe(@, sync[s].page), !.seen = @ \cup Ids(sync[s].page)]
    <2>1. sync' = [sync EXCEPT ![s] = run] /\ sync[s].part = 1
      BY <1>6 DEF NextListing
    <2>2. /\ run \in Run /\ run.page = {} /\ run.pc = "query" /\ Same(run, sync[s])
          /\ run.part = 2 /\ run.off = 0
          /\ run.seen = sync[s].seen \cup Ids(sync[s].page) /\ run.loaded = sync[s].loaded
      BY <1>1, <1>2, <1>4 DEF Run, Same
    <2>3. ~TurnPage(s)
      BY <1>1, <1>6, FS_CardinalityType, Constants DEF NextListing, TurnPage, TypeOK
    <2> HIDE DEF run
    <2> QED BY <1>1, <2>1, <2>2, <2>3, RowTyped, IdleRun
  <1> QED BY <1>5, <1>6

\* What the last page leaves: all rows it persisted, and in a full sync the others reconciled.
Seen(s) == sync[s].seen \cup Ids(sync[s].page)
Kept(s) == Persisted(row, sync[s].page)
After(s) == IF sync[s].full THEN Reconciled(Kept(s), Seen(s)) ELSE Kept(s)

\* The last page of the last listing has come.
Ending(s) == sync[s].pc = "page" /\ sync[s].part = 2 /\ Cardinality(sync[s].page) < PageSize

\* A reconcile that failed has gone through some of what was not listed.
Partly(s, gone) == Reconciled(Kept(s), Articles \ gone)

LEMMA AfterTypes ==
  ASSUME TypeInv, NEW s \in Syncs
  PROVE  Kept(s) \in [Articles -> Rows] /\ After(s) \in [Articles -> Rows] /\ sync[s].page \subseteq Fetched
  <1>1. row \in [Articles -> Rows] /\ sync[s].page \subseteq Fetched
    BY DEF TypeInv, TypeOK, Run, Rows
  <1>2. Kept(s) \in [Articles -> Rows]
    BY <1>1, PersistedIs DEF Kept
  <1>3. Reconciled(Kept(s), Seen(s)) \in [Articles -> Rows]
    BY <1>2, ReconciledIs
  <1> QED BY <1>1, <1>2, <1>3 DEF After

LEMMA LastIs ==
  ASSUME TypeInv, NEW s \in Syncs, LastPage(s)
  PROVE  /\ SyncOK' /\ Others(s) /\ Same(sync'[s], sync[s])
         /\ sync'[s].pc = "tagging" /\ sync'[s].page = {}
         /\ row' = After(s)
         /\ DOMAIN sync'[s].loaded \subseteq Articles
         /\ \A a \in DOMAIN sync'[s].loaded : sync'[s].loaded[a] = row'[a].ver
  <1> DEFINE tag == {a \in Articles : IF sync[s].full THEN After(s)[a].life = "active" ELSE a \in Seen(s)}
             loaded == [a \in {b \in tag : After(s)[b] # Absent} |-> After(s)[a].ver]
             run == [sync[s] EXCEPT !.pc = "tagging", !.page = {}, !.off = 0, !.seen = {},
                          !.mark = Observe(@, sync[s].page), !.loaded = loaded]
  <1>1. row' = After(s) /\ sync' = [sync EXCEPT ![s] = run]
    BY DEF LastPage, After, Kept, Seen
  <1>2. TypeOK /\ sync[s] \in Run /\ sync[s].page \subseteq Fetched /\ sync[s].mark \in Stamps
    BY DEF TypeInv, TypeOK, Run
  <1>3. Observe(sync[s].mark, sync[s].page) \in Stamps
    BY <1>2, ObserveTypes
  <1>4. loaded \in UNION {[S -> Vers] : S \in SUBSET Articles}
    <2>1. \A a \in Articles : After(s)[a] # Absent => After(s)[a].ver \in Vers
      BY AfterTypes DEF Rows
    <2>2. loaded \in [{b \in tag : After(s)[b] # Absent} -> Vers]
      BY <2>1
    <2>3. {b \in tag : After(s)[b] # Absent} \in SUBSET Articles
      OBVIOUS
    <2> QED BY <2>2, <2>3
  <1>5. DOMAIN loaded \subseteq Articles /\ \A a \in DOMAIN loaded : loaded[a] = After(s)[a].ver
    OBVIOUS
  <1> HIDE DEF loaded
  <1>6. /\ run \in Run /\ run.page = {} /\ run.pc = "tagging" /\ Same(run, sync[s]) /\ run.loaded = loaded
    BY <1>2, <1>3, <1>4 DEF Run, Same
  <1> HIDE DEF run
  <1>7. SyncOK' /\ Others(s) /\ sync'[s] = run
    BY <1>1, <1>2, <1>6, RowTyped, IdleRun
  <1>8. sync'[s].loaded = loaded
    BY <1>6, <1>7
  <1>9. \A a \in DOMAIN loaded : loaded[a] = row'[a].ver
    BY <1>1, <1>5
  <1> QED BY <1>1, <1>5, <1>6, <1>7, <1>8, <1>9

LEMMA TagsIs ==
  ASSUME TypeInv, NEW s \in Syncs, NEW changed, WriteTags(s, changed)
  PROVE  /\ SyncOK' /\ Others(s) /\ Same(sync'[s], sync[s])
         /\ sync'[s].pc = "commit" /\ sync'[s].page = sync[s].page /\ DOMAIN sync'[s].loaded = {}
         /\ sync'[s].mark = sync[s].mark
         /\ row' \in [Articles -> Rows]
         /\ \A a \in changed : a \in Articles /\ a \in DOMAIN sync[s].loaded /\ row'[a] = Active(sync[s].loaded[a])
         /\ \A a \in Articles \ changed : row'[a] = row[a]
  <1> DEFINE run == [sync[s] EXCEPT !.pc = "commit", !.loaded = <<>>]
  <1>1. /\ sync' = [sync EXCEPT ![s] = run]
        /\ row' = [a \in Articles |-> IF a \in changed THEN Active(sync[s].loaded[a]) ELSE row[a]]
        /\ changed \subseteq DOMAIN sync[s].loaded
    BY DEF WriteTags
  <1>2. /\ TypeOK /\ sync[s] \in Run /\ row \in [Articles -> Rows]
        /\ IsFiniteSet(sync[s].page) /\ Cardinality(sync[s].page) <= PageSize
        /\ sync[s].loaded \in UNION {[S -> Vers] : S \in SUBSET Articles}
    BY DEF TypeInv, TypeOK, Run, Rows
  <1>3. PICK S \in SUBSET Articles : sync[s].loaded \in [S -> Vers]
    BY <1>2
  <1>4. \A a \in changed : a \in Articles /\ Active(sync[s].loaded[a]) \in Rows
    BY <1>1, <1>3 DEF Active, Rows
  <1>5. row' \in [Articles -> Rows]
    BY <1>1, <1>2, <1>4
  <1>6. IdleSync.loaded = <<>> /\ IdleSync.loaded \in UNION {[S1 -> Vers] : S1 \in SUBSET Articles} /\ DOMAIN <<>> = {}
    <2>1. DOMAIN <<>> = {}
      BY SMT
    <2>2. IdleSync.loaded \in UNION {[S1 -> Vers] : S1 \in SUBSET Articles}
      BY IdleRun DEF Run
    <2> QED BY <2>1, <2>2 DEF IdleSync
  <1>7. /\ run \in Run /\ run.page = sync[s].page /\ run.pc = "commit" /\ Same(run, sync[s])
        /\ run.loaded = <<>> /\ run.mark = sync[s].mark
    BY <1>2, <1>6 DEF Run, Same
  <1>8. SyncOK' /\ Others(s) /\ sync'[s] = run
    <2> HIDE DEF run
    <2> QED BY <1>1, <1>2, <1>7, RowTyped
  <1>9. /\ \A a \in changed : row'[a] = Active(sync[s].loaded[a])
        /\ \A a \in Articles \ changed : row'[a] = row[a]
    BY <1>1, <1>4
  <1> HIDE DEF run
  <1> QED BY <1>1, <1>4, <1>5, <1>6, <1>7, <1>8, <1>9

\* A sync that is over.
LEMMA EndIs ==
  ASSUME TypeInv, NEW s \in Syncs,
         sync' \in {[sync EXCEPT ![s] = IdleSync], [sync EXCEPT ![s] = [IdleSync EXCEPT !.pc = "semantic"]]}
  PROVE  /\ SyncOK' /\ Others(s) /\ sync'[s].pc \in {"idle", "semantic"}
         /\ sync'[s].page = {} /\ DOMAIN sync'[s].loaded = {}
  <1>1. DOMAIN <<>> = {}
    BY SMT
  <1>2. TypeOK
    BY DEF TypeInv
  <1>3. CASE sync' = [sync EXCEPT ![s] = IdleSync]
    <2>1. IdleSync.page = {} /\ IdleSync.pc = "idle" /\ IdleSync.loaded = <<>>
      BY DEF IdleSync
    <2> QED BY <1>1, <1>2, <1>3, <2>1, IdleRun, RowTyped, ZenonT(60)
  <1>4. CASE sync' = [sync EXCEPT ![s] = [IdleSync EXCEPT !.pc = "semantic"]]
    <2> DEFINE run == [IdleSync EXCEPT !.pc = "semantic"]
    <2>1. run.page = {} /\ run.pc = "semantic" /\ run.loaded = <<>> /\ run \in Run
      BY IdleRun DEF IdleSync
    <2> HIDE DEF run
    <2>2. sync' = [sync EXCEPT ![s] = run]
      BY <1>4 DEF run
    <2>3. IsFiniteSet(run.page) /\ Cardinality(run.page) <= PageSize
      BY <2>1, IdleRun
    <2>4. SyncOK' /\ Others(s) /\ sync'[s] = run
      BY <1>2, <2>1, <2>2, <2>3, RowTyped
    <2> QED BY <1>1, <2>1, <2>4
  <1> QED BY <1>3, <1>4

LEMMA DirtyIs ==
  ASSUME TypeInv, NEW S, sync' = DirtySyncs(S)
  PROVE  /\ SyncOK'
         /\ \A t \in Syncs : Alike(sync'[t], sync[t]) /\ sync'[t].clean = (sync[t].clean /\ t \notin S)
  <1>1. TypeOK
    BY DEF TypeInv
  <1>2. sync' \in [Syncs -> Run]
    BY <1>1, DirtyTyped
  <1>3. \A t \in Syncs : Alike(sync'[t], sync[t]) /\ sync'[t].clean = (sync[t].clean /\ t \notin S)
    BY <1>1, DirtyTyped
  <1>4. \A t \in Syncs : IsFiniteSet(sync'[t].page) /\ Cardinality(sync'[t].page) <= PageSize
    BY <1>1, <1>3 DEF Alike, TypeOK
  <1> QED BY <1>2, <1>3, <1>4 DEF SyncOK

\* The count goes up by the syncs that are disturbed for the first time.
LEMMA DisturbIs ==
  ASSUME TypeInv, NEW S \in SUBSET Syncs, Disturb(S)
  PROVE  /\ disturbed' \in 0 .. 2 /\ disturbed' >= disturbed
         /\ (\A s \in S : ~sync[s].clean) => disturbed' = disturbed
         /\ (\E s \in S : sync[s].clean) => disturbed' # 0 /\ (disturbed # 0 => disturbed' = 2)
  <1> DEFINE C == {s \in S : sync[s].clean}
             n == disturbed + Cardinality(C)
  <1>1. IsFiniteSet(C) /\ Cardinality(C) \in Nat
    <2>1. IsFiniteSet(Syncs)
      BY DEF KnowledgeAssumption
    <2>2. IsFiniteSet(C)
      BY <2>1, FS_Subset, C \subseteq Syncs
    <2> QED BY <2>2, FS_CardinalityType
  <1>2. disturbed \in 0 .. 2
    BY DEF TypeInv, TypeOK
  <1>3. Cardinality(C) = 0 <=> C = {}
    BY <1>1, FS_EmptySet
  <1>4. disturbed' = Min({2, n})
    BY DEF Disturb
  <1>5. n \in Nat
    BY <1>1, <1>2
  <1> HIDE DEF n
  <1>6. Min({2, n}) = IF n <= 2 THEN n ELSE 2
    <2>1. \E x \in {2, n} : \A y \in {2, n} : x <= y
      BY <1>5
    <2>2. Min({2, n}) \in {2, n} /\ \A y \in {2, n} : Min({2, n}) <= y
      BY <2>1 DEF Min
    <2> QED BY <1>5, <2>2
  <1> USE DEF n
  <1>7. disturbed' = IF n <= 2 THEN n ELSE 2
    BY <1>4, <1>6
  <1>8. (\A s \in S : ~sync[s].clean) => C = {}
    OBVIOUS
  <1>9. (\E s \in S : sync[s].clean) => C # {}
    OBVIOUS
  <1> HIDE DEF C
  <1> QED BY <1>1, <1>2, <1>3, <1>7, <1>8, <1>9

\* The rows the readers and the failures leave.
LEMMA FailIs ==
  ASSUME TypeInv, NEW s \in Syncs, NEW done \in SUBSET sync[s].page, Fail(s, done)
  PROVE  /\ SyncOK' /\ Others(s) /\ sync'[s].pc \in {"idle", "semantic"}
         /\ sync'[s].page = {} /\ DOMAIN sync'[s].loaded = {}
         /\ row' = Persisted(row, done) /\ row' \in [Articles -> Rows] /\ done \subseteq Fetched
         /\ row \in [Articles -> Rows]
  <1>1. row \in [Articles -> Rows] /\ done \subseteq Fetched
    BY AfterTypes DEF TypeInv, TypeOK, Rows
  <1>2. row' = Persisted(row, done) /\ row' \in [Articles -> Rows]
    BY <1>1, PersistedIs DEF Fail
  <1>3. sync' = [sync EXCEPT ![s] = IdleSync]
    BY DEF Fail
  <1> QED BY <1>1, <1>2, <1>3, EndIs

LEMMA ReconcilingIs ==
  ASSUME TypeInv, NEW s \in Syncs, NEW gone \in SUBSET Articles, FailReconciling(s, gone)
  PROVE  /\ SyncOK' /\ Others(s) /\ sync'[s].pc \in {"idle", "semantic"}
         /\ sync'[s].page = {} /\ DOMAIN sync'[s].loaded = {}
         /\ Kept(s) \in [Articles -> Rows] /\ row' = Partly(s, gone) /\ row' \in [Articles -> Rows]
         /\ \A a \in Articles : row'[a].ver <= Kept(s)[a].ver
         /\ \A a \in Articles \ gone : row'[a] = Kept(s)[a]
         /\ \A a \in gone : row'[a] = IF Kept(s)[a].life = "active"
                                       THEN [life |-> "tombstoned", ver |-> Kept(s)[a].ver] ELSE Absent
         /\ \A a \in gone : a \notin Seen(s)
         /\ sync[s].full /\ sync[s].pc = "page" /\ Working(s) /\ Lists(s) /\ ~Working(s)' /\ ~Lists(s)' /\ ~Tags(s)'
         /\ UNCHANGED <<remote, second, wm, answer, edits, starts, disturbed>> /\ lock' = NoLock
         /\ trusted' = (trusted /\ sync[s].clean)
  <1>1. Kept(s) \in [Articles -> Rows]
    BY AfterTypes
  <1>2. row' = Partly(s, gone)
    BY DEF FailReconciling, Partly, Kept
  <1>3. /\ row' \in [Articles -> Rows]
        /\ \A a \in Articles : row'[a].ver <= Kept(s)[a].ver
        /\ \A a \in Articles \ gone : row'[a] = Kept(s)[a]
        /\ \A a \in gone : row'[a] = IF Kept(s)[a].life = "active"
                                      THEN [life |-> "tombstoned", ver |-> Kept(s)[a].ver] ELSE Absent
    <2> DEFINE rest == Articles \ gone
    <2>1. row' = Reconciled(Kept(s), rest)
      BY <1>2 DEF Partly
    <2>2. \A a \in gone : a \in Articles \ rest
      OBVIOUS
    <2>3. \A a \in Articles \ gone : a \in rest \cap Articles
      OBVIOUS
    <2> HIDE DEF rest
    <2> QED BY <1>1, <2>1, <2>2, <2>3, ReconciledIs
  <1>4. /\ SyncOK' /\ Others(s) /\ sync'[s].pc \in {"idle", "semantic"}
        /\ sync'[s].page = {} /\ DOMAIN sync'[s].loaded = {}
    BY EndIs DEF FailReconciling
  <1>5. sync[s].pc = "page" /\ sync[s].full /\ \A a \in gone : a \notin Seen(s)
    BY DEF FailReconciling, Seen
  <1>6. /\ UNCHANGED <<remote, second, wm, answer, edits, starts, disturbed>> /\ lock' = NoLock
        /\ trusted' = (trusted /\ sync[s].clean)
    BY DEF FailReconciling
  <1> QED BY <1>1, <1>2, <1>3, <1>4, <1>5, <1>6 DEF Working, Lists, Tags

LEMMA CrashIs ==
  ASSUME Crash
  PROVE  /\ SyncOK'
         /\ \A t \in Syncs : /\ sync'[t].pc = "idle" /\ sync'[t].page = {} /\ DOMAIN sync'[t].loaded = {}
  <1>1. sync' = [t \in Syncs |-> IdleSync]
    BY DEF Crash
  <1>2. DOMAIN <<>> = {}
    BY SMT
  <1>3. IdleSync.page = {} /\ IdleSync.pc = "idle" /\ IdleSync.loaded = <<>>
    BY DEF IdleSync
  <1>4. \A t \in Syncs : sync'[t] = IdleSync
    BY <1>1
  <1>5. sync' \in [Syncs -> Run]
    BY <1>1, IdleRun
  <1> QED BY <1>2, <1>3, <1>4, <1>5, IdleRun DEF SyncOK

-----------------------------------------------------------------------------
(* Type correctness *)

LEMMA InitTypes == Init => TypeInv
  <1> SUFFICES ASSUME Init PROVE TypeInv
    OBVIOUS
  <1>1. sync \in [Syncs -> Run]
    BY IdleRun DEF Init
  <1>2. \A s \in Syncs : IsFiniteSet(sync[s].page) /\ Cardinality(sync[s].page) <= PageSize
    BY IdleRun DEF Init, IdleSync
  <1>3. /\ remote \in [Articles -> [ver : Vers, at : 1 .. MaxSecond, published : BOOLEAN]]
        /\ edits = 0 /\ \A a \in Articles : remote[a].ver <= edits + 1
    BY Constants DEF Init, Vers
  <1> QED BY <1>1, <1>2, <1>3, Constants DEF Init, TypeInv, TypeOK, Stamps, Absent

\* A step that leaves ServiceNow alone keeps the types if what it writes has them.
LEMMA KeepTypes ==
  ASSUME TypeInv, SyncOK', row' \in [Articles -> Rows], wm' \in Stamps,
         UNCHANGED <<remote, second, answer, edits>>, starts' \in 0 .. MaxStarts,
         lock' = NoLock \/ lock' \in [age : {"fresh", "stale"}, by : Syncs \cup {None}] \/ lock' = lock,
         trusted' \in BOOLEAN, disturbed' \in 0 .. 2
  PROVE  TypeInv'
  BY DEF TypeInv, TypeOK, SyncOK, Rows

LEMMA TypeStep == TypeInv /\ [Next]_vars => TypeInv'
  <1> SUFFICES ASSUME TypeInv, [Next]_vars PROVE TypeInv'
    OBVIOUS
  <1>1. /\ row \in [Articles -> Rows] /\ wm \in Stamps /\ starts \in 0 .. MaxStarts /\ SyncOK
        /\ trusted \in BOOLEAN /\ disturbed \in 0 .. 2
    BY DEF TypeInv, TypeOK, Rows, SyncOK
  <1>2. \A s \in Syncs : sync[s].clean \in BOOLEAN /\ sync[s].full \in BOOLEAN
                         /\ sync[s].mark \in Stamps /\ sync[s].prev \in Stamps
    BY <1>1 DEF SyncOK, Run
  <1>3. ASSUME NEW s \in Syncs, Serve(s) PROVE TypeInv'
    BY <1>1, <1>3, ServeIs, KeepTypes DEF Serve
  <1>4. ASSUME NEW s \in Syncs, TurnPage(s) \/ NextListing(s) PROVE TypeInv'
    <2>1. row' = Kept(s)
      BY <1>4 DEF TurnPage, NextListing, Kept
    <2>2. row' \in [Articles -> Rows]
      BY <2>1, AfterTypes
    <2> QED BY <1>1, <1>4, <2>2, TurnIs, KeepTypes DEF TurnPage, NextListing
  <1>5. ASSUME NEW s \in Syncs, LastPage(s) PROVE TypeInv'
    <2>1. row' \in [Articles -> Rows] /\ SyncOK'
      BY <1>5, LastIs, AfterTypes
    <2>2. UNCHANGED <<remote, second, wm, lock, answer, edits, starts, trusted, disturbed>>
      BY <1>5 DEF LastPage
    <2> QED BY <1>1, <2>1, <2>2, KeepTypes
  <1>6. ASSUME NEW s \in Syncs, NEW changed, WriteTags(s, changed) PROVE TypeInv'
    BY <1>1, <1>6, TagsIs, KeepTypes DEF WriteTags
  <1>7. ASSUME NEW s \in Syncs, Commit(s) PROVE TypeInv'
    <2>1. wm' \in Stamps /\ trusted' \in BOOLEAN
      BY <1>1, <1>2, <1>7 DEF Commit, Claim
    <2>2. SyncOK'
      BY <1>7, EndIs DEF Commit
    <2> QED BY <1>1, <1>7, <2>1, <2>2, KeepTypes DEF Commit
  <1>8. ASSUME NEW s \in Syncs, Release(s) PROVE TypeInv'
    BY <1>1, <1>8, EndIs, KeepTypes DEF Release
  <1>9. ASSUME NEW s \in Syncs, NEW full \in BOOLEAN, Begin(s, full) PROVE TypeInv'
    <2>1. starts' \in 0 .. MaxStarts
      BY <1>1, <1>9, Constants DEF Begin
    <2>2. lock' \in [age : {"fresh", "stale"}, by : Syncs \cup {None}]
      BY <1>9 DEF Begin
    <2>3. disturbed' \in 0 .. 2
      BY <1>1, <1>9 DEF Begin
    <2> QED BY <1>1, <1>9, <2>1, <2>2, <2>3, BeginIs, KeepTypes DEF Begin
  <1>10. ASSUME NEW s \in Syncs, NEW done \in SUBSET sync[s].page, Fail(s, done) PROVE TypeInv'
    <2>1. trusted' \in BOOLEAN
      BY <1>1, <1>2, <1>10 DEF Fail
    <2> QED BY <1>1, <1>10, <2>1, FailIs, KeepTypes DEF Fail
  <1>11. CASE Crash
    <2>1. lock' = NoLock \/ lock' \in [age : {"fresh", "stale"}, by : Syncs \cup {None}]
      BY <1>11 DEF Crash, TypeInv, TypeOK, NoLock
    <2>2. trusted' \in BOOLEAN
      BY <1>11, <1>1 DEF Crash
    <2>3. answer' \in [Readers -> Fetched \cup {None}]
      BY <1>11 DEF Crash
    <2> QED BY <1>1, <1>11, <2>1, <2>2, <2>3, CrashIs DEF Crash, TypeInv, TypeOK, SyncOK
  <1>12. ASSUME NEW r \in Readers, NEW a \in Articles, Ask(r, a) PROVE TypeInv'
    <2>1. Copy(a) \in Fetched
      BY DEF TypeInv, TypeOK, Copy, Fetched
    <2>2. answer' \in [Readers -> Fetched \cup {None}]
      BY <1>12, <2>1 DEF Ask, TypeInv, TypeOK
    <2> QED BY <1>12, <2>2 DEF Ask, TypeInv, TypeOK
  <1>13. ASSUME NEW r \in Readers, PersistAnswer(r) PROVE TypeInv'
    <2> DEFINE over == IF row[answer[r].id].ver > answer[r].ver THEN {s \in Syncs : Working(s)} ELSE {}
    <2>1. answer[r] \in Fetched
      BY <1>13 DEF PersistAnswer, TypeInv, TypeOK
    <2>2. row' \in [Articles -> Rows]
      BY <1>1, <1>13, <2>1 DEF PersistAnswer, Fetched, Active, Rows
    <2>3. SyncOK' /\ disturbed' \in 0 .. 2
      <3>1. over \in SUBSET Syncs /\ sync' = DirtySyncs(over) /\ Disturb(over)
        BY <1>13 DEF PersistAnswer
      <3> QED BY <3>1, DirtyIs, DisturbIs
    <2>4. answer' \in [Readers -> Fetched \cup {None}] /\ trusted' \in BOOLEAN
      BY <1>13, <1>1 DEF PersistAnswer, TypeInv, TypeOK
    <2>5. UNCHANGED <<remote, second, wm, lock, edits, starts>>
      BY <1>13 DEF PersistAnswer
    <2> QED BY <2>2, <2>3, <2>4, <2>5 DEF TypeInv, TypeOK, SyncOK, Rows
  <1>14. CASE LockAges
    <2>1. lock' \in [age : {"fresh", "stale"}, by : Syncs \cup {None}]
      BY <1>14 DEF LockAges, TypeInv, TypeOK, NoLock
    <2> QED BY <1>14, <2>1 DEF LockAges, TypeInv, TypeOK
  <1>15. CASE Tick
    <2>1. second' \in 1 .. MaxSecond
      BY <1>15, Constants DEF Tick, TypeInv, TypeOK
    <2> QED BY <1>15, <2>1 DEF Tick, TypeInv, TypeOK
  <1>16. ASSUME NEW a \in Articles, NEW published \in BOOLEAN, Edit(a, published) PROVE TypeInv'
    <2>1. SyncOK' /\ disturbed' \in 0 .. 2
      <3>1. {s \in Syncs : Disturbed(s, a)} \in SUBSET Syncs
        OBVIOUS
      <3> QED BY <1>16, <3>1, DirtyIs, DisturbIs DEF Edit
    <2>2. edits' \in 0 .. MaxEdits /\ edits' = edits + 1 /\ edits \in Nat
      BY <1>16, Constants DEF Edit, TypeInv, TypeOK
    <2>3. ASSUME NEW b \in Articles
          PROVE  remote'[b] \in [ver : Vers, at : 1 .. MaxSecond, published : BOOLEAN]
                 /\ remote'[b].ver <= edits' + 1
      <3>1. remote[b] \in [ver : Vers, at : 1 .. MaxSecond, published : BOOLEAN] /\ remote[b].ver <= edits + 1
        BY DEF TypeInv, TypeOK
      <3>2. CASE b # a
        <4>1. remote'[b] = remote[b] /\ remote[b].ver \in Nat
          BY <1>16, <3>1, <3>2, Constants DEF Edit, TypeInv, TypeOK, Vers
        <4> QED BY <2>2, <3>1, <4>1
      <3>3. CASE b = a
        <4>1. remote'[b] = [ver |-> remote[b].ver + 1, at |-> second, published |-> published]
          BY <1>16, <3>3 DEF Edit, TypeInv, TypeOK
        <4>2. remote[b].ver + 1 \in Vers /\ remote[b].ver + 1 <= edits' + 1
          BY <2>2, <3>1, Constants DEF Vers
        <4>3. second \in 1 .. MaxSecond
          BY DEF TypeInv, TypeOK
        <4> QED BY <4>1, <4>2, <4>3
      <3> QED BY <3>2, <3>3
    <2>4. remote' \in [Articles -> [ver : Vers, at : 1 .. MaxSecond, published : BOOLEAN]]
      <3>1. remote' = [b \in Articles |-> remote'[b]]
        BY <1>16 DEF Edit, TypeInv, TypeOK
      <3> QED BY <2>3, <3>1
    <2>5. trusted' \in BOOLEAN /\ UNCHANGED <<second, row, wm, lock, answer, starts>>
      BY <1>1, <1>16 DEF Edit
    <2> QED BY <2>1, <2>2, <2>3, <2>4, <2>5 DEF TypeInv, TypeOK, SyncOK
  <1>17. CASE UNCHANGED vars
    BY <1>17 DEF vars, TypeInv, TypeOK
  <1>20. ASSUME NEW s \in Syncs, NEW gone \in SUBSET Articles, FailReconciling(s, gone) PROVE TypeInv'
    <2>1. trusted' \in BOOLEAN
      BY <1>1, <1>2, <1>20, ReconcilingIs
    <2> QED BY <1>1, <1>20, <2>1, ReconcilingIs, KeepTypes
  <1> QED BY <1>20, <1>3, <1>4, <1>5, <1>6, <1>7, <1>8, <1>9, <1>10, <1>11, <1>12, <1>13, <1>14, <1>15,
             <1>16, <1>17 DEF Next, SyncStep

\* Processes, articles and the cache keep their types.
THEOREM TypeCorrect == Spec => []TypeOK
  <1>1. TypeInv => TypeOK
    BY DEF TypeInv
  <1> QED BY <1>1, InitTypes, TypeStep, PTL DEF Spec

-----------------------------------------------------------------------------
(* Versions *)

LEMMA Versions ==
  ASSUME TypeInv
  PROVE  /\ \A a \in Articles : remote[a].ver \in Nat /\ remote[a].ver > 0 /\ row[a] \in Rows /\ row[a].ver \in Nat
         /\ \A s \in Syncs : /\ sync[s].page \subseteq Fetched
                             /\ \A rec \in sync[s].page : rec.id \in Articles /\ rec.ver \in Nat
                             /\ \A a \in DOMAIN sync[s].loaded : a \in Articles /\ sync[s].loaded[a] \in Nat
         /\ \A r \in Readers : answer[r] # None => answer[r].id \in Articles /\ answer[r].ver \in Nat
  <1>1. \A v \in Vers : v \in Nat /\ v > 0
    BY Constants DEF Vers
  <1>2. \A a \in Articles : remote[a].ver \in Nat /\ remote[a].ver > 0 /\ row[a] \in Rows /\ row[a].ver \in Nat
    BY <1>1 DEF TypeInv, TypeOK, Rows, Absent
  <1>3. ASSUME NEW s \in Syncs
        PROVE  /\ sync[s].page \subseteq Fetched
               /\ \A rec \in sync[s].page : rec.id \in Articles /\ rec.ver \in Nat
               /\ \A a \in DOMAIN sync[s].loaded : a \in Articles /\ sync[s].loaded[a] \in Nat
    <2>1. sync[s].page \subseteq Fetched /\ sync[s].loaded \in UNION {[S -> Vers] : S \in SUBSET Articles}
      BY DEF TypeInv, TypeOK, Run
    <2>2. PICK S \in SUBSET Articles : sync[s].loaded \in [S -> Vers]
      BY <2>1
    <2> QED BY <1>1, <2>1, <2>2 DEF Fetched
  <1>4. \A r \in Readers : answer[r] # None => answer[r].id \in Articles /\ answer[r].ver \in Nat
    BY <1>1 DEF TypeInv, TypeOK, Fetched
  <1> QED BY <1>2, <1>3, <1>4

\* A page brings what ServiceNow has or had.
LEMMA PersistedVers ==
  ASSUME TypeInv, VerInv, NEW s \in Syncs, NEW page \in SUBSET sync[s].page
  PROVE  \A a \in Articles : Persisted(row, page)[a].ver <= remote[a].ver
  <1>1. row \in [Articles -> Rows] /\ page \subseteq Fetched
    BY AfterTypes DEF TypeInv, TypeOK, Rows
  <1> SUFFICES ASSUME NEW a \in Articles PROVE Persisted(row, page)[a].ver <= remote[a].ver
    OBVIOUS
  <1>2. CASE a \in Ids(page)
    <2>1. PICK rec \in page : rec.id = a /\ Persisted(row, page)[a] = Active(rec.ver)
      BY <1>1, <1>2, PersistedIs
    <2>2. rec.ver <= remote[a].ver
      BY <2>1 DEF VerInv
    <2> QED BY <2>1, <2>2 DEF Active
  <1>3. CASE a \notin Ids(page)
    <2>1. Persisted(row, page)[a] = row[a]
      BY <1>1, <1>3, PersistedIs
    <2> QED BY <2>1 DEF VerInv
  <1> QED BY <1>2, <1>3

\* A step that leaves ServiceNow alone writes no version of its own making.
LEMMA KeepVers ==
  ASSUME TypeInv, VerInv, remote' = remote,
         \A a \in Articles : row'[a].ver <= remote[a].ver,
         \A t \in Syncs : \/ sync'[t].page = sync[t].page \/ sync'[t].page = {}
                          \/ sync'[t].page = PageOf(t),
         \A t \in Syncs : \/ sync'[t].loaded = sync[t].loaded
                          \/ \A a \in DOMAIN sync'[t].loaded : sync'[t].loaded[a] <= remote[a].ver,
         \A r \in Readers : answer'[r] = answer[r] \/ answer'[r] = None
  PROVE  VerInv'
  <1>1. \A t \in Syncs : \A rec \in PageOf(t) : rec.ver <= remote[rec.id].ver
    BY Versions DEF PageOf, Copy
  <1>2. ASSUME NEW t \in Syncs, NEW rec \in sync'[t].page PROVE rec.ver <= remote'[rec.id].ver
    BY <1>1 DEF VerInv
  <1>3. ASSUME NEW t \in Syncs, NEW a \in DOMAIN sync'[t].loaded PROVE sync'[t].loaded[a] <= remote'[a].ver
    BY DEF VerInv
  <1>4. ASSUME NEW r \in Readers, answer'[r] # None PROVE answer'[r].ver <= remote'[answer'[r].id].ver
    BY <1>4 DEF VerInv
  <1>5. \A a \in Articles : row'[a].ver <= remote'[a].ver
    OBVIOUS
  <1> QED BY <1>2, <1>3, <1>4, <1>5 DEF VerInv

LEMMA VerStep == TypeInv /\ VerInv /\ [Next]_vars => VerInv'
  <1> SUFFICES ASSUME TypeInv, VerInv, [Next]_vars PROVE VerInv'
    OBVIOUS
  <1>1. \A a \in Articles : row[a].ver <= remote[a].ver
    BY DEF VerInv
  <1>2. ASSUME NEW s \in Syncs, Serve(s) PROVE VerInv'
    <2>1. \A t \in Syncs : sync'[t].loaded = sync[t].loaded /\ (sync'[t].page = sync[t].page \/ sync'[t].page = PageOf(t))
      BY <1>2, ServeIs DEF Others
    <2> QED BY <1>1, <1>2, <2>1, KeepVers DEF Serve
  <1>3. ASSUME NEW s \in Syncs, TurnPage(s) \/ NextListing(s) PROVE VerInv'
    <2>1. \A t \in Syncs : sync'[t].loaded = sync[t].loaded /\ (sync'[t].page = sync[t].page \/ sync'[t].page = {})
      BY <1>3, TurnIs DEF Others
    <2>2. row' = Persisted(row, sync[s].page) /\ UNCHANGED <<remote, answer>>
      BY <1>3 DEF TurnPage, NextListing
    <2>3. \A a \in Articles : row'[a].ver <= remote[a].ver
      BY <2>2, PersistedVers
    <2> QED BY <2>1, <2>2, <2>3, KeepVers
  <1>4. ASSUME NEW s \in Syncs, LastPage(s) PROVE VerInv'
    <2>1. \A a \in Articles : row'[a].ver <= remote[a].ver
      <3>1. \A a \in Articles : Kept(s)[a].ver <= remote[a].ver /\ Kept(s)[a].ver \in Nat
        <4>1. \A a \in Articles : Kept(s)[a] \in Rows
          BY AfterTypes
        <4>2. \A x \in Rows : x.ver \in Nat
          BY Constants DEF Rows, Vers, Absent
        <4>3. \A a \in Articles : Kept(s)[a].ver <= remote[a].ver
          BY PersistedVers DEF Kept
        <4> QED BY <4>1, <4>2, <4>3
      <3>2. \A a \in Articles : After(s)[a].ver <= Kept(s)[a].ver /\ After(s)[a].ver \in Nat
        BY <3>1, AfterTypes, ReconciledIs, Constants DEF After, Rows, Vers, Absent
      <3>3. row' = After(s)
        BY <1>4, LastIs
      <3> QED BY <3>1, <3>2, <3>3, Versions
    <2>2. \A t \in Syncs : sync'[t].page = sync[t].page \/ sync'[t].page = {}
      BY <1>4, LastIs DEF Others
    <2>3. ASSUME NEW t \in Syncs
          PROVE  \/ sync'[t].loaded = sync[t].loaded
                 \/ \A a \in DOMAIN sync'[t].loaded : sync'[t].loaded[a] <= remote[a].ver
      <3>1. CASE t = s
        BY <1>4, <2>1, <3>1, LastIs
      <3>2. CASE t # s
        BY <1>4, <3>2, LastIs DEF Others
      <3> QED BY <3>1, <3>2
    <2>4. UNCHANGED <<remote, answer>>
      BY <1>4 DEF LastPage
    <2> QED BY <2>1, <2>2, <2>3, <2>4, KeepVers
  <1>5. ASSUME NEW s \in Syncs, NEW changed, WriteTags(s, changed) PROVE VerInv'
    <2>1. ASSUME NEW a \in Articles PROVE row'[a].ver <= remote[a].ver
      <3>1. CASE a \in changed
        <4>1. a \in DOMAIN sync[s].loaded /\ row'[a] = Active(sync[s].loaded[a])
          BY <1>5, <3>1, TagsIs
        <4>2. sync[s].loaded[a] <= remote[a].ver
          BY <4>1 DEF VerInv
        <4> QED BY <4>1, <4>2 DEF Active
      <3>2. CASE a \notin changed
        BY <1>1, <1>5, <3>2, TagsIs
      <3> QED BY <3>1, <3>2
    <2>2. \A t \in Syncs : sync'[t].page = sync[t].page
      BY <1>5, TagsIs DEF Others
    <2>3. \A t \in Syncs : sync'[t].loaded = sync[t].loaded \/ DOMAIN sync'[t].loaded = {}
      BY <1>5, TagsIs DEF Others
    <2>4. UNCHANGED <<remote, answer>>
      BY <1>5 DEF WriteTags
    <2> QED BY <2>1, <2>2, <2>3, <2>4, KeepVers
  <1>6. ASSUME NEW s \in Syncs, Commit(s) \/ Release(s) PROVE VerInv'
    <2>1. \A t \in Syncs : /\ sync'[t].page = sync[t].page \/ sync'[t].page = {}
                           /\ sync'[t].loaded = sync[t].loaded \/ DOMAIN sync'[t].loaded = {}
      BY <1>6, EndIs DEF Commit, Release, Others
    <2> QED BY <1>1, <1>6, <2>1, KeepVers DEF Commit, Release
  <1>7. ASSUME NEW s \in Syncs, NEW full \in BOOLEAN, Begin(s, full) PROVE VerInv'
    <2>1. ASSUME NEW t \in Syncs
          PROVE  /\ sync'[t].page = sync[t].page \/ sync'[t].page = {}
                 /\ sync'[t].loaded = sync[t].loaded \/ DOMAIN sync'[t].loaded = {}
      BY <1>7, BeginIs DEF Alike
    <2>2. UNCHANGED <<remote, row, answer>>
      BY <1>7 DEF Begin
    <2> QED BY <1>1, <2>1, <2>2, KeepVers
  <1>8. ASSUME NEW s \in Syncs, NEW done \in SUBSET sync[s].page, Fail(s, done) PROVE VerInv'
    <2>1. \A t \in Syncs : /\ sync'[t].page = sync[t].page \/ sync'[t].page = {}
                           /\ sync'[t].loaded = sync[t].loaded \/ DOMAIN sync'[t].loaded = {}
      BY <1>8, FailIs DEF Others
    <2>2. \A a \in Articles : row'[a].ver <= remote[a].ver
      BY <1>8, FailIs, PersistedVers
    <2> QED BY <1>8, <2>1, <2>2, KeepVers DEF Fail
  <1>9. CASE Crash
    <2>1. \A r \in Readers : answer'[r] = None
      BY <1>9 DEF Crash
    <2> QED BY <1>1, <1>9, <2>1, CrashIs, KeepVers DEF Crash
  <1>10. ASSUME NEW r \in Readers, NEW a \in Articles, Ask(r, a) PROVE VerInv'
    <2>1. \A q \in Readers : answer'[q] = IF q = r THEN Copy(a) ELSE answer[q]
      BY <1>10 DEF Ask, TypeInv, TypeOK
    <2>2. Copy(a).id = a /\ Copy(a).ver = remote[a].ver /\ remote[a].ver \in Nat
      BY Versions DEF Copy
    <2>3. \A q \in Readers : answer'[q] # None => answer'[q].ver <= remote[answer'[q].id].ver
      BY <2>1, <2>2 DEF VerInv
    <2> QED BY <1>10, <2>3 DEF Ask, VerInv
  <1>11. ASSUME NEW r \in Readers, PersistAnswer(r) PROVE VerInv'
    <2>1. \A t \in Syncs : sync'[t].page = sync[t].page /\ sync'[t].loaded = sync[t].loaded
      BY <1>11, DirtyIs DEF PersistAnswer, Alike
    <2>2. \A q \in Readers : answer'[q] = answer[q] \/ answer'[q] = None
      BY <1>11 DEF PersistAnswer, TypeInv, TypeOK
    <2>3. \A a \in Articles : row'[a].ver <= remote[a].ver
      <3>1. answer[r].ver <= remote[answer[r].id].ver
        BY <1>11 DEF PersistAnswer, VerInv
      <3> QED BY <1>1, <1>11, <3>1 DEF PersistAnswer, Active, TypeInv, TypeOK
    <2> QED BY <1>11, <2>1, <2>2, <2>3, KeepVers DEF PersistAnswer
  <1>12. CASE LockAges \/ Tick \/ UNCHANGED vars
    BY <1>12 DEF LockAges, Tick, vars, VerInv
  <1>13. ASSUME NEW a \in Articles, NEW published \in BOOLEAN, Edit(a, published) PROVE VerInv'
    <2>1. \A t \in Syncs : sync'[t].page = sync[t].page /\ sync'[t].loaded = sync[t].loaded
      BY <1>13, DirtyIs DEF Edit, Alike
    <2>2. \A b \in Articles : remote'[b].ver \in Nat /\ remote[b].ver <= remote'[b].ver
      BY <1>13, Versions DEF Edit, TypeInv, TypeOK
    <2>3. row' = row /\ answer' = answer
      BY <1>13 DEF Edit
    <2>4. \A b \in Articles : row'[b].ver <= remote'[b].ver
      BY <1>1, <2>2, <2>3, Versions
    <2>5. ASSUME NEW t \in Syncs, NEW rec \in sync[t].page PROVE rec.ver <= remote'[rec.id].ver
      <3>1. rec.ver <= remote[rec.id].ver
        BY DEF VerInv
      <3>2. rec.id \in Articles /\ rec.ver \in Nat
        BY Versions
      <3>3. remote[rec.id].ver \in Nat
        BY <3>2, Versions
      <3>4. remote'[rec.id].ver \in Nat /\ remote[rec.id].ver <= remote'[rec.id].ver
        BY <2>2, <3>2
      <3> QED BY <3>1, <3>2, <3>3, <3>4
    <2>6. ASSUME NEW t \in Syncs, NEW b \in DOMAIN sync[t].loaded PROVE sync[t].loaded[b] <= remote'[b].ver
      <3>1. sync[t].loaded[b] <= remote[b].ver
        BY DEF VerInv
      <3>2. b \in Articles /\ sync[t].loaded[b] \in Nat
        BY Versions
      <3>3. remote[b].ver \in Nat
        BY <3>2, Versions
      <3>4. remote'[b].ver \in Nat /\ remote[b].ver <= remote'[b].ver
        BY <2>2, <3>2
      <3> QED BY <3>1, <3>2, <3>3, <3>4
    <2>7. ASSUME NEW q \in Readers, answer[q] # None PROVE answer[q].ver <= remote'[answer[q].id].ver
      <3>1. answer[q].ver <= remote[answer[q].id].ver
        BY <2>7 DEF VerInv
      <3>2. answer[q].id \in Articles /\ answer[q].ver \in Nat
        BY <2>7, Versions
      <3>3. remote[answer[q].id].ver \in Nat
        BY <3>2, Versions
      <3>4. remote'[answer[q].id].ver \in Nat /\ remote[answer[q].id].ver <= remote'[answer[q].id].ver
        BY <2>2, <3>2
      <3> QED BY <3>1, <3>2, <3>3, <3>4
    <2> QED BY <2>1, <2>3, <2>4, <2>5, <2>6, <2>7 DEF VerInv
  <1>20. ASSUME NEW s \in Syncs, NEW gone \in SUBSET Articles, FailReconciling(s, gone) PROVE VerInv'
    <2>1. \A t \in Syncs : /\ sync'[t].page = sync[t].page \/ sync'[t].page = {}
                           /\ sync'[t].loaded = sync[t].loaded \/ DOMAIN sync'[t].loaded = {}
      BY <1>20, ReconcilingIs DEF Others
    <2>2. ASSUME NEW a \in Articles PROVE row'[a].ver <= remote[a].ver
      <3>1. Kept(s)[a].ver <= remote[a].ver /\ row'[a].ver <= Kept(s)[a].ver
        BY <1>20, ReconcilingIs, PersistedVers DEF Kept
      <3>2. row'[a] \in Rows /\ Kept(s)[a] \in Rows /\ \A x \in Rows : x.ver \in Nat
        BY <1>20, ReconcilingIs, Constants DEF Rows, Absent, Vers
      <3> QED BY <3>1, <3>2, Versions
    <2> QED BY <1>20, <2>1, <2>2, ReconcilingIs, KeepVers
  <1> QED BY <1>20, <1>2, <1>3, <1>4, <1>5, <1>6, <1>7, <1>8, <1>9, <1>10, <1>11, <1>12, <1>13
          DEF Next, SyncStep

-----------------------------------------------------------------------------
(* The lease, and who works *)

\* What a step does to the working syncs, but for those that begin or are disturbed.
Steady ==
  /\ disturbed' = disturbed
  /\ \A t \in Syncs : Working(t)' => /\ Working(t) /\ Same(sync'[t], sync[t])
                                     /\ sync[t].clean => wm' = wm

LEMMA SteadyAlone == AloneInv /\ Steady => AloneInv'
  BY DEF AloneInv, Steady, Same

LEMMA StepSteady ==
  ASSUME TypeInv, AloneInv,
         \/ \E s \in Syncs : SyncStep(s)
         \/ \E s \in Syncs : \E done \in SUBSET sync[s].page : Fail(s, done)
         \/ \E s \in Syncs : \E gone \in SUBSET Articles : FailReconciling(s, gone)
         \/ \E r \in Readers, a \in Articles : Ask(r, a)
         \/ Crash \/ LockAges \/ Tick \/ UNCHANGED vars
  PROVE  Steady
  <1>1. ASSUME NEW s \in Syncs, sync'[s].pc \in {"idle", "query", "page", "tagging", "commit", "semantic"},
               Working(s)' => Working(s) /\ Same(sync'[s], sync[s]),
               Others(s), disturbed' = disturbed, wm' = wm
        PROVE  Steady
    BY <1>1 DEF Steady, Others, Same, Working
  <1>2. ASSUME NEW s \in Syncs, Serve(s) PROVE Steady
    <2>1. Working(s) /\ disturbed' = disturbed /\ wm' = wm
      BY <1>2 DEF Serve, Working
    <2> QED BY <1>1, <1>2, <2>1, ServeIs
  <1>3. ASSUME NEW s \in Syncs, TurnPage(s) \/ NextListing(s) PROVE Steady
    <2>1. Working(s) /\ disturbed' = disturbed /\ wm' = wm
      BY <1>3 DEF TurnPage, NextListing, Working
    <2> QED BY <1>1, <1>3, <2>1, TurnIs
  <1>4. ASSUME NEW s \in Syncs, LastPage(s) PROVE Steady
    <2>1. Working(s) /\ disturbed' = disturbed /\ wm' = wm
      BY <1>4 DEF LastPage, Working
    <2> QED BY <1>1, <1>4, <2>1, LastIs
  <1>5. ASSUME NEW s \in Syncs, NEW changed, WriteTags(s, changed) PROVE Steady
    <2>1. Working(s) /\ disturbed' = disturbed /\ wm' = wm
      BY <1>5 DEF WriteTags, Working
    <2> QED BY <1>1, <1>5, <2>1, TagsIs
  <1>6. ASSUME NEW s \in Syncs, Commit(s) PROVE Steady
    <2>1. Working(s) /\ disturbed' = disturbed
      BY <1>6 DEF Commit, Working
    <2>2. Others(s) /\ ~Working(s)'
      BY <1>6, EndIs DEF Commit, Working
    <2> QED BY <2>1, <2>2 DEF Steady, Others, AloneInv, Same, Working
  <1>7. ASSUME NEW s \in Syncs, Release(s) PROVE Steady
    <2>1. Others(s) /\ ~Working(s)' /\ sync'[s].pc \in {"idle", "semantic"} /\ disturbed' = disturbed /\ wm' = wm
      BY <1>7, EndIs DEF Release, Working
    <2> QED BY <1>1, <2>1
  <1>8. ASSUME NEW s \in Syncs, NEW done \in SUBSET sync[s].page, Fail(s, done) PROVE Steady
    <2>1. Others(s) /\ ~Working(s)' /\ sync'[s].pc \in {"idle", "semantic"}
      BY <1>8, FailIs DEF Working
    <2>2. disturbed' = disturbed /\ wm' = wm
      BY <1>8 DEF Fail
    <2> QED BY <1>1, <2>1, <2>2
  <1>9. CASE Crash
    <2>1. \A t \in Syncs : ~Working(t)'
      BY <1>9, CrashIs DEF Working
    <2> QED BY <1>9, <2>1 DEF Crash, Steady
  <1>10. CASE LockAges \/ Tick \/ UNCHANGED vars \/ \E r \in Readers, a \in Articles : Ask(r, a)
    <2>1. UNCHANGED <<sync, disturbed, wm>>
      BY <1>10 DEF LockAges, Tick, vars, Ask
    <2> QED BY <2>1 DEF Steady, Same, Working
  <1>20. ASSUME NEW s \in Syncs, NEW gone \in SUBSET Articles, FailReconciling(s, gone) PROVE Steady
    BY <1>1, <1>20, ReconcilingIs
  <1> QED BY <1>20, <1>2, <1>3, <1>4, <1>5, <1>6, <1>7, <1>8, <1>9, <1>10 DEF SyncStep

\* A disturbed sync is no longer clean, and counted.
LEMMA DirtyAlone ==
  ASSUME TypeInv, AloneInv, NEW S \in SUBSET Syncs, sync' = DirtySyncs(S), Disturb(S), wm' = wm
  PROVE  AloneInv'
  <1>1. \A t \in Syncs : /\ Working(t)' = Working(t) /\ sync'[t].prev = sync[t].prev
                         /\ sync'[t].clean = (sync[t].clean /\ t \notin S)
    BY DirtyIs DEF Alike, Working
  <1>2. /\ disturbed \in 0 .. 2 /\ disturbed' \in 0 .. 2 /\ disturbed' >= disturbed
        /\ (\E s \in S : sync[s].clean) => disturbed' # 0
    BY DisturbIs DEF TypeInv, TypeOK
  <1>3. ASSUME NEW s \in Syncs, NEW t \in Syncs, Working(s)', Working(t)', s # t
        PROVE  ~sync'[s].clean /\ disturbed' = 2
    <2>1. Working(s) /\ Working(t)
      BY <1>1, <1>3
    <2>2. ~sync[s].clean /\ disturbed = 2
      BY <1>3, <2>1 DEF AloneInv
    <2>3. ~sync'[s].clean
      BY <1>1, <2>2
    <2>4. disturbed' = 2
      BY <1>2, <2>2
    <2> QED BY <2>3, <2>4
  <1>4. ASSUME NEW s \in Syncs, Working(s)', ~sync'[s].clean PROVE disturbed' # 0
    <2>1. CASE sync[s].clean
      BY <1>1, <1>2, <1>4, <2>1
    <2>2. CASE ~sync[s].clean
      BY <1>1, <1>2, <1>4, <2>2 DEF AloneInv
    <2> QED BY <2>1, <2>2
  <1>5. ASSUME NEW s \in Syncs, Working(s)', sync'[s].clean PROVE sync'[s].prev = wm'
    BY <1>1, <1>5 DEF AloneInv
  <1> QED BY <1>3, <1>4, <1>5 DEF AloneInv

LEMMA BeginAlone ==
  ASSUME TypeInv, AloneInv, NEW s \in Syncs, NEW full \in BOOLEAN, Begin(s, full)
  PROVE  AloneInv'
  <1> DEFINE others == {t \in Syncs : Working(t)}
  <1>1. /\ \A t \in Syncs \ {s} : /\ Working(t)' = Working(t) /\ sync'[t].prev = sync[t].prev
                                  /\ sync'[t].clean = (sync[t].clean /\ ~Working(t))
        /\ sync'[s].prev = wm /\ sync'[s].clean = (others = {})
    <2>1. \A t \in Syncs \ {s} : /\ Working(t)' = Working(t) /\ sync'[t].prev = sync[t].prev
                                 /\ sync'[t].clean = (sync[t].clean /\ ~Working(t))
      <3>1. \A t \in Syncs \ {s} : /\ Alike(sync'[t], sync[t])
                                   /\ sync'[t].clean = (sync[t].clean /\ ~Working(t))
        BY BeginIs
      <3>2. \A t \in Syncs \ {s} : sync'[t].pc = sync[t].pc /\ sync'[t].prev = sync[t].prev
        BY <3>1 DEF Alike
      <3>3. \A t \in Syncs \ {s} : Working(t)' = Working(t)
        BY <3>2 DEF Working
      <3> QED BY <3>1, <3>2, <3>3
    <2>2. sync'[s].prev = wm /\ sync'[s].clean = (\A t \in Syncs : ~Working(t))
      BY BeginIs
    <2>3. (others = {}) = (\A t \in Syncs : ~Working(t))
      OBVIOUS
    <2> QED BY <2>1, <2>2, <2>3
  <1>2. /\ disturbed' = (IF others = {} THEN disturbed ELSE 2) /\ wm' = wm
    BY DEF Begin
  <1>3. ASSUME NEW t \in Syncs, NEW u \in Syncs, Working(t)', Working(u)', t # u
        PROVE  ~sync'[t].clean /\ disturbed' = 2
    <2>1. others # {}
      <3>1. CASE t = s
        BY <1>1, <1>3, <3>1
      <3>2. CASE t # s
        BY <1>1, <1>3, <3>2
      <3> QED BY <3>1, <3>2
    <2>2. CASE t = s
      BY <1>1, <1>2, <2>1, <2>2
    <2>3. CASE t # s
      BY <1>1, <1>2, <1>3, <2>1, <2>3
    <2> QED BY <2>2, <2>3
  <1>4. ASSUME NEW t \in Syncs, Working(t)', ~sync'[t].clean PROVE disturbed' # 0
    <2>1. others # {}
      BY <1>1, <1>4
    <2> QED BY <1>2, <2>1
  <1>5. ASSUME NEW t \in Syncs, Working(t)', sync'[t].clean PROVE sync'[t].prev = wm'
    BY <1>1, <1>2, <1>5
  <1> QED BY <1>3, <1>4, <1>5 DEF AloneInv

LEMMA AloneStep == TypeInv /\ AloneInv /\ [Next]_vars => AloneInv'
  <1> SUFFICES ASSUME TypeInv, AloneInv, [Next]_vars PROVE AloneInv'
    OBVIOUS
  <1>1. ASSUME NEW r \in Readers, PersistAnswer(r) PROVE AloneInv'
    <2> DEFINE over == IF row[answer[r].id].ver > answer[r].ver THEN {s \in Syncs : Working(s)} ELSE {}
    <2>1. over \in SUBSET Syncs /\ sync' = DirtySyncs(over) /\ Disturb(over) /\ wm' = wm
      BY <1>1 DEF PersistAnswer
    <2> QED BY <2>1, DirtyAlone
  <1>2. ASSUME NEW a \in Articles, NEW published \in BOOLEAN, Edit(a, published) PROVE AloneInv'
    <2>1. {s \in Syncs : Disturbed(s, a)} \in SUBSET Syncs
      OBVIOUS
    <2> QED BY <1>2, <2>1, DirtyAlone DEF Edit
  <1>3. ASSUME NEW s \in Syncs, NEW full \in BOOLEAN, Begin(s, full) PROVE AloneInv'
    BY <1>3, BeginAlone
  <1>4. CASE Steady
    BY <1>4, SteadyAlone
  <1> QED BY <1>1, <1>2, <1>3, <1>4, StepSteady DEF Next

\* Whoever takes the lease works, and ends with clearing it.
LEMMA LockStep == TypeInv /\ LockMeansSync /\ [Next]_vars => LockMeansSync'
  <1> SUFFICES ASSUME TypeInv, LockMeansSync, [Next]_vars PROVE LockMeansSync'
    OBVIOUS
  <1>1. \A s \in Syncs : NoLock.by # s
    BY DEF NoLock, KnowledgeAssumption
  <1>2. ASSUME lock'.by = lock.by, \A t \in Syncs : Working(t) => Working(t)' PROVE LockMeansSync'
    BY <1>2 DEF LockMeansSync
  <1>3. ASSUME lock' = NoLock PROVE LockMeansSync'
    BY <1>1, <1>3 DEF LockMeansSync
  <1>4. ASSUME NEW s \in Syncs, Serve(s) PROVE LockMeansSync'
    BY <1>2, <1>4, ServeIs DEF Serve, Working, Others
  <1>5. ASSUME NEW s \in Syncs, TurnPage(s) \/ NextListing(s) PROVE LockMeansSync'
    BY <1>2, <1>5, TurnIs DEF TurnPage, NextListing, Working, Others
  <1>6. ASSUME NEW s \in Syncs, LastPage(s) PROVE LockMeansSync'
    <2>1. lock' = lock
      BY <1>6 DEF LastPage
    <2> QED BY <1>2, <1>6, <2>1, LastIs DEF Working, Others
  <1>7. ASSUME NEW s \in Syncs, NEW changed, WriteTags(s, changed) PROVE LockMeansSync'
    BY <1>2, <1>7, TagsIs DEF WriteTags, Working, Others
  <1>8. ASSUME NEW s \in Syncs, NEW full \in BOOLEAN, Begin(s, full) PROVE LockMeansSync'
    <2>1. lock'.by = s /\ Working(s)'
      BY <1>8, BeginIs DEF Begin, Working
    <2> QED BY <2>1 DEF LockMeansSync
  <1>9. ASSUME NEW s \in Syncs, NEW done, Commit(s) \/ Release(s) \/ Fail(s, done) PROVE LockMeansSync'
    BY <1>3, <1>9 DEF Commit, Release, Fail
  <1>10. CASE Crash
    <2>1. lock'.by = None
      BY <1>10 DEF Crash, NoLock, TypeInv, TypeOK
    <2> QED BY <2>1 DEF LockMeansSync, KnowledgeAssumption
  <1>11. CASE LockAges
    <2>1. lock'.by = lock.by
      BY <1>11 DEF LockAges, TypeInv, TypeOK, NoLock
    <2> QED BY <1>2, <1>11, <2>1 DEF LockAges, Working
  <1>12. CASE Tick \/ UNCHANGED vars \/ \E r \in Readers, a \in Articles : Ask(r, a)
    BY <1>2, <1>12 DEF Tick, vars, Ask, Working
  <1>13. ASSUME NEW S, sync' = DirtySyncs(S), lock' = lock PROVE LockMeansSync'
    <2>1. \A t \in Syncs : sync'[t].pc = sync[t].pc
      BY <1>13, DirtyIs DEF Alike
    <2> QED BY <1>2, <1>13, <2>1 DEF Working
  <1>14. ASSUME NEW r \in Readers, PersistAnswer(r) PROVE LockMeansSync'
    BY <1>13, <1>14 DEF PersistAnswer
  <1>15. ASSUME NEW a \in Articles, NEW published \in BOOLEAN, Edit(a, published) PROVE LockMeansSync'
    BY <1>13, <1>15 DEF Edit
  <1>20. ASSUME NEW s \in Syncs, NEW gone \in SUBSET Articles, FailReconciling(s, gone) PROVE LockMeansSync'
    BY <1>3, <1>20, ReconcilingIs
  <1> QED BY <1>20, <1>4, <1>5, <1>6, <1>7, <1>8, <1>9, <1>10, <1>11, <1>12, <1>14, <1>15 DEF Next, SyncStep

-----------------------------------------------------------------------------
(* What a clean sync has listed *)

\* A listing changes with ServiceNow and with the part of the sync, not otherwise.
LEMMA SameListing ==
  ASSUME remote' = remote, NEW t \in Syncs, sync'[t].full = sync[t].full,
         sync'[t].part = sync[t].part, sync'[t].prev = sync[t].prev
  PROVE  /\ \A a \in Articles : Selected(t, a)' = Selected(t, a) /\ Place(t, a)' = Place(t, a)
         /\ sync'[t].off = sync[t].off => PageOf(t)' = PageOf(t)
  <1>1. \A a \in Articles : Selected(t, a)' = Selected(t, a) /\ Stamp(a)' = Stamp(a)
    BY DEF Selected, Stamp
  <1>2. Listing(t)' = Listing(t)
    BY <1>1 DEF Listing
  <1>3. \A a \in Articles : Place(t, a)' = Place(t, a)
    BY <1>1, <1>2 DEF Place, Rank
  <1>4. ASSUME sync'[t].off = sync[t].off PROVE PageOf(t)' = PageOf(t)
    <2>1. \A a \in Articles : OnPage(t, a) <=> Selected(t, a) /\ Place(t, a) \in sync[t].off + 1 .. sync[t].off + PageSize
      BY DEF OnPage, Place
    <2>2. \A a \in Articles : OnPage(t, a)' <=> Selected(t, a)' /\ Place(t, a)' \in sync'[t].off + 1 .. sync'[t].off + PageSize
      BY DEF OnPage, Place
    <2>3. \A a \in Articles : OnPage(t, a)' <=> OnPage(t, a)
      BY <1>1, <1>3, <1>4, <2>1, <2>2
    <2>4. \A a \in Articles : Copy(a)' = Copy(a)
      BY DEF Copy
    <2> QED BY <2>3, <2>4 DEF PageOf
  <1> QED BY <1>1, <1>3, <1>4

Placed == \A s \in Syncs : \A a \in Articles : Selected(s, a) => Place(s, a) \in Nat /\ Place(s, a) > 0
LEMMA PlacePositive == TypeInv => Placed
  BY ListingTypes DEF Placed

\* A step that disturbs nothing a sync has listed.
LEMMA KeepListed ==
  ASSUME NEW t \in Syncs, ListedBy(t), remote' = remote, Alike(sync'[t], sync[t]),
         sync[t].seen \subseteq Articles,
         \A a \in Articles : Current(a) => row'[a] = row[a]
  PROVE  ListedBy(t)'
  <1>1. /\ \A a \in Articles : Selected(t, a)' = Selected(t, a) /\ Place(t, a)' = Place(t, a)
        /\ PageOf(t)' = PageOf(t)
    BY SameListing DEF Alike
  <1>2. \A a \in sync'[t].seen : Current(a)'
    BY DEF ListedBy, Alike, Current
  <1>3. \A a \in Articles : Selected(t, a)' /\ Place(t, a)' <= sync'[t].off => a \in sync'[t].seen
    BY <1>1 DEF ListedBy, Alike
  <1> QED BY <1>1, <1>2, <1>3 DEF ListedBy, Alike

\* What was published is in the cache when it came on an undisturbed page.
LEMMA PageCurrent ==
  ASSUME TypeInv, NEW s \in Syncs, NEW page \in SUBSET PageOf(s), NEW a \in Articles
  PROVE  /\ a \in Ids(page) => Persisted(row, page)[a] = Active(remote[a].ver)
         /\ Current(a) => Persisted(row, page)[a] = row[a]
         /\ a \notin Ids(page) => Persisted(row, page)[a] = row[a]
  <1>1. row \in [Articles -> Rows] /\ page \subseteq Fetched
    BY PageFits DEF TypeInv, TypeOK, Rows
  <1>2. ASSUME a \in Ids(page) PROVE Persisted(row, page)[a] = Active(remote[a].ver)
    <2>1. PICK rec \in page : rec.id = a /\ Persisted(row, page)[a] = Active(rec.ver)
      BY <1>1, <1>2, PersistedIs
    <2>2. rec = Copy(a)
      BY <2>1 DEF PageOf, Copy
    <2> QED BY <2>1, <2>2 DEF Copy
  <1>3. ASSUME a \notin Ids(page) PROVE Persisted(row, page)[a] = row[a]
    BY <1>1, <1>3, PersistedIs
  <1> QED BY <1>2, <1>3 DEF Current

\* What a sync has seen with its page: all up to the end of the page, and all if it is short.
LEMMA PageSeen ==
  ASSUME TypeInv, NEW s \in Syncs, ListedBy(s), sync[s].pc = "page", NEW a \in Articles, Selected(s, a),
         Place(s, a) <= sync[s].off + PageSize \/ Cardinality(sync[s].page) < PageSize
  PROVE  a \in Seen(s)
  <1>1. sync[s].page = PageOf(s)
    BY DEF ListedBy
  <1>2. Place(s, a) <= sync[s].off + PageSize
    BY <1>1, ShortPage
  <1>3. CASE Place(s, a) <= sync[s].off
    BY <1>3 DEF ListedBy, Seen
  <1>4. CASE ~(Place(s, a) <= sync[s].off)
    <2>1. sync[s].off \in Nat /\ Place(s, a) \in Nat
      BY PlacePositive DEF Placed, TypeInv, TypeOK, Run
    <2>2. OnPage(s, a)
      BY <1>2, <1>4, <2>1, Constants DEF OnPage, Place
    <2>3. Copy(a) \in sync[s].page /\ Copy(a).id = a
      BY <1>1, <2>2 DEF PageOf, Copy
    <2> QED BY <2>3 DEF Ids, Seen
  <1> QED BY <1>3, <1>4

\* All a clean sync has seen is in the cache as it is.
LEMMA SeenCurrent ==
  ASSUME TypeInv, NEW s \in Syncs, ListedBy(s), sync[s].pc = "page"
  PROVE  \A a \in Seen(s) : a \in Articles /\ Kept(s)[a] = Active(remote[a].ver)
  <1> SUFFICES ASSUME NEW a \in Seen(s) PROVE a \in Articles /\ Kept(s)[a] = Active(remote[a].ver)
    OBVIOUS
  <1>1. sync[s].page = PageOf(s) /\ sync[s].seen \subseteq Articles /\ Ids(sync[s].page) \subseteq Articles
    BY AfterTypes DEF ListedBy, Ids, Fetched, TypeInv, TypeOK, Run
  <1>2. a \in Articles
    BY <1>1 DEF Seen
  <1>3. CASE a \in Ids(sync[s].page)
    BY <1>1, <1>2, <1>3, PageCurrent DEF Kept
  <1>4. CASE a \notin Ids(sync[s].page)
    <2>1. Current(a)
      BY <1>4 DEF Seen, ListedBy
    <2> QED BY <1>1, <1>2, <1>4, <2>1, PageCurrent DEF Kept, Current
  <1> QED BY <1>2, <1>3, <1>4

LEMMA ServeListed ==
  ASSUME TypeInv, NEW s \in Syncs, Serve(s), ListedBy(s)
  PROVE  ListedBy(s)'
  <1>1. /\ sync'[s].full = sync[s].full /\ sync'[s].prev = sync[s].prev /\ sync'[s].part = sync[s].part
        /\ sync'[s].off = sync[s].off /\ sync'[s].seen = sync[s].seen
        /\ sync'[s].pc = "page" /\ sync'[s].page = PageOf(s)
    BY ServeIs DEF Same
  <1>2. remote' = remote /\ row' = row
    BY DEF Serve
  <1>3. /\ \A a \in Articles : Selected(s, a)' = Selected(s, a) /\ Place(s, a)' = Place(s, a)
        /\ PageOf(s)' = PageOf(s)
    BY <1>1, <1>2, SameListing
  <1>4. \A a \in sync'[s].seen : Current(a)'
    BY <1>1, <1>2 DEF ListedBy, Current
  <1>5. \A a \in Articles : Selected(s, a)' /\ Place(s, a)' <= sync'[s].off => a \in sync'[s].seen
    BY <1>1, <1>3 DEF ListedBy
  <1> QED BY <1>1, <1>2, <1>3, <1>4, <1>5 DEF ListedBy

LEMMA TurnListed ==
  ASSUME TypeInv, TypeInv', NEW s \in Syncs, TurnPage(s) \/ NextListing(s), ListedBy(s),
         sync[s].full => sync[s].part = 2
  PROVE  ListedBy(s)'
  <1>1. /\ sync'[s].full = sync[s].full /\ sync'[s].prev = sync[s].prev
        /\ sync'[s].seen = Seen(s) /\ sync'[s].pc = "query" /\ sync[s].pc = "page"
        /\ TurnPage(s) => sync'[s].part = sync[s].part /\ sync'[s].off = sync[s].off + PageSize
        /\ NextListing(s) => /\ sync[s].part = 1 /\ sync'[s].part = 2 /\ sync'[s].off = 0
                             /\ Cardinality(sync[s].page) < PageSize
    BY TurnIs DEF Same, Seen, TurnPage, NextListing
  <1>2. remote' = remote /\ row' = Kept(s)
    BY DEF TurnPage, NextListing, Kept
  <1>3. \A a \in sync'[s].seen : Current(a)'
    BY <1>1, <1>2, SeenCurrent DEF Current
  <1>4. \A a \in sync[s].seen : a \in Seen(s)
    BY DEF Seen
  <1>5. CASE TurnPage(s)
    <2>1. \A a \in Articles : Selected(s, a)' = Selected(s, a) /\ Place(s, a)' = Place(s, a)
      BY <1>1, <1>2, <1>5, SameListing
    <2>2. \A a \in Articles : Selected(s, a)' /\ Place(s, a)' <= sync'[s].off => a \in sync'[s].seen
      BY <1>1, <1>5, <2>1, PageSeen
    <2>3. sync'[s].off # 0
      BY <1>1, <1>5, Constants DEF TypeInv, TypeOK, Run
    <2>4. sync'[s].part = 2 /\ ~sync'[s].full =>
            \A a \in Articles : remote'[a].published /\ remote'[a].at = sync'[s].prev[1] /\ a > sync'[s].prev[2]
                                  => a \in sync'[s].seen
      BY <1>1, <1>2, <1>4, <1>5 DEF ListedBy
    <2> QED BY <1>1, <1>3, <2>2, <2>3, <2>4 DEF ListedBy
  <1>6. CASE NextListing(s)
    <2>1. \A a \in Articles : Selected(s, a)' => Place(s, a)' \in Nat /\ Place(s, a)' > 0
      <3>1. Placed'
        BY PlacePositive, PTL
      <3> QED BY <3>1 DEF Placed
    <2>2. \A a \in Articles : Selected(s, a)' /\ Place(s, a)' <= sync'[s].off => a \in sync'[s].seen
      BY <1>1, <1>6, <2>1
    <2>3. ASSUME NEW a \in Articles, remote'[a].published, remote'[a].at = sync'[s].prev[1], a > sync'[s].prev[2]
          PROVE  a \in sync'[s].seen
      <3>1. Selected(s, a)
        BY <1>1, <1>2, <1>6, <2>3 DEF Selected
      <3> QED BY <1>1, <1>6, <3>1, PageSeen
    <2>4. ~(sync'[s].part = 1 \/ sync'[s].full)
      BY <1>1, <1>6
    <2> QED BY <1>1, <1>3, <2>2, <2>3, <2>4 DEF ListedBy
  <1> QED BY <1>5, <1>6

\* A listing has not begun.
LEMMA FreshListed ==
  ASSUME TypeInv', NEW s \in Syncs, sync'[s].pc = "query", sync'[s].off = 0, sync'[s].seen = {},
         sync'[s].part = 1 \/ sync'[s].full
  PROVE  ListedBy(s)'
  <1>1. Placed'
    BY PlacePositive, PTL
  <1>2. \A a \in Articles : Selected(s, a)' => ~(Place(s, a)' <= sync'[s].off)
    BY <1>1 DEF Placed
  <1>3. ~(sync'[s].part = 2 /\ ~sync'[s].full)
    OBVIOUS
  <1> QED BY <1>2, <1>3 DEF ListedBy

\* A step of another sync, or one that leaves listings alone.
LEMMA KeepList ==
  ASSUME TypeInv, ListInv, remote' = remote,
         \A t \in Syncs : Lists(t)' => Lists(t) /\ Alike(sync'[t], sync[t]),
         \A t \in Syncs : Lists(t)' /\ sync'[t].clean =>
            sync[t].clean /\ \A a \in Articles : Current(a) => row'[a] = row[a]
  PROVE  ListInv'
  <1>1. ASSUME NEW t \in Syncs, Lists(t)', sync'[t].full PROVE sync'[t].part = 2
    BY <1>1 DEF ListInv, Alike
  <1>2. ASSUME NEW t \in Syncs, Lists(t)', sync'[t].clean PROVE ListedBy(t)'
    <2>1. ListedBy(t) /\ Alike(sync'[t], sync[t]) /\ sync[t].seen \subseteq Articles
      BY <1>2 DEF ListInv, TypeInv, TypeOK, Run
    <2> QED BY <1>2, <2>1, KeepListed
  <1> QED BY <1>1, <1>2 DEF ListInv

\* An own step of a sync: it works alone or is not clean.
LEMMA OwnList ==
  ASSUME TypeInv, AloneInv, ListInv, NEW s \in Syncs, Working(s), Others(s), remote' = remote,
         Lists(s)' => (sync'[s].full => sync'[s].part = 2) /\ (sync'[s].clean => ListedBy(s)')
  PROVE  ListInv'
  <1>1. ASSUME NEW t \in Syncs, t # s, Lists(t)' PROVE Lists(t) /\ ~sync[t].clean /\ sync'[t] = sync[t]
    BY <1>1 DEF Others, Lists, Working, AloneInv
  <1> QED BY <1>1 DEF ListInv

LEMMA ListStep == TypeInv /\ TypeInv' /\ VerInv /\ AloneInv /\ ListInv /\ [Next]_vars => ListInv'
  <1> SUFFICES ASSUME TypeInv, TypeInv', VerInv, AloneInv, ListInv, [Next]_vars PROVE ListInv'
    OBVIOUS
  <1>1. ASSUME NEW s \in Syncs, Serve(s) PROVE ListInv'
    <2>1. Working(s) /\ Lists(s) /\ remote' = remote
      BY <1>1 DEF Serve, Working, Lists
    <2>2. sync'[s].full = sync[s].full /\ sync'[s].part = sync[s].part /\ sync'[s].clean = sync[s].clean /\ Others(s)
      BY <1>1, ServeIs DEF Same
    <2>3. sync[s].clean => ListedBy(s)'
      BY <1>1, <2>1, ServeListed DEF ListInv
    <2> QED BY <2>1, <2>2, <2>3, OwnList DEF ListInv
  <1>2. ASSUME NEW s \in Syncs, TurnPage(s) \/ NextListing(s) PROVE ListInv'
    <2>1. Working(s) /\ Lists(s) /\ remote' = remote
      BY <1>2 DEF TurnPage, NextListing, Working, Lists
    <2>2. /\ sync'[s].full = sync[s].full /\ sync'[s].clean = sync[s].clean /\ Others(s)
          /\ sync'[s].part = sync[s].part \/ sync'[s].part = 2
      BY <1>2, TurnIs DEF Same
    <2>3. sync[s].full => sync[s].part = 2
      BY <2>1 DEF ListInv
    <2>4. sync[s].clean => ListedBy(s)'
      BY <1>2, <2>1, <2>3, TurnListed DEF ListInv
    <2> QED BY <2>1, <2>2, <2>3, <2>4, OwnList
  <1>3. ASSUME NEW s \in Syncs, NEW changed, LastPage(s) \/ WriteTags(s, changed) \/ Commit(s) PROVE ListInv'
    <2>1. Working(s) /\ remote' = remote
      BY <1>3 DEF LastPage, WriteTags, Commit, Working
    <2>2. Others(s) /\ ~Lists(s)'
      BY <1>3, LastIs, TagsIs, EndIs DEF Commit, Lists
    <2> QED BY <2>1, <2>2, OwnList
  <1>4. ASSUME NEW s \in Syncs, NEW done \in SUBSET sync[s].page, Fail(s, done) PROVE ListInv'
    <2>1. Working(s) /\ remote' = remote
      BY <1>4 DEF Fail, Working
    <2>2. Others(s) /\ ~Lists(s)'
      BY <1>4, FailIs DEF Lists
    <2> QED BY <2>1, <2>2, OwnList
  <1>5. ASSUME NEW s \in Syncs, Release(s) PROVE ListInv'
    <2>1. Others(s) /\ ~Lists(s)' /\ UNCHANGED <<remote, row>>
      BY <1>5, EndIs DEF Release, Lists
    <2>2. \A t \in Syncs : Lists(t)' => sync'[t] = sync[t]
      BY <2>1 DEF Others
    <2> QED BY <2>1, <2>2, KeepList DEF Alike, Lists
  <1>6. ASSUME NEW s \in Syncs, NEW full \in BOOLEAN, Begin(s, full) PROVE ListInv'
    <2>1. ASSUME NEW t \in Syncs, Lists(t)', sync'[t].full PROVE sync'[t].part = 2
      <3>1. CASE t = s
        BY <1>6, <2>1, <3>1, BeginIs
      <3>2. CASE t # s
        <4>1. Alike(sync'[t], sync[t])
          BY <1>6, <3>2, BeginIs
        <4>2. Lists(t) /\ sync[t].full /\ sync'[t].part = sync[t].part
          BY <2>1, <4>1 DEF Alike, Lists
        <4> QED BY <4>2 DEF ListInv
      <3> QED BY <3>1, <3>2
    <2>2. ASSUME NEW t \in Syncs, Lists(t)', sync'[t].clean PROVE ListedBy(t)'
      <3>1. CASE t = s
        <4>1. /\ sync'[s].pc = "query" /\ sync'[s].off = 0 /\ sync'[s].seen = {}
              /\ sync'[s].part = 1 \/ sync'[s].full
          BY <1>6, BeginIs
        <4> QED BY <3>1, <4>1, FreshListed
      <3>2. CASE t # s
        <4>1. Alike(sync'[t], sync[t]) /\ ~Working(t)
          BY <1>6, <2>2, <3>2, BeginIs
        <4> QED BY <2>2, <4>1 DEF Alike, Lists, Working
      <3> QED BY <3>1, <3>2
    <2> QED BY <2>1, <2>2 DEF ListInv
  <1>7. CASE Crash
    <2>1. \A t \in Syncs : ~Lists(t)'
      BY <1>7, CrashIs DEF Lists
    <2> QED BY <2>1 DEF ListInv
  <1>8. CASE LockAges \/ Tick \/ UNCHANGED vars \/ \E r \in Readers, a \in Articles : Ask(r, a)
    <2>1. UNCHANGED <<sync, remote, row>>
      BY <1>8 DEF LockAges, Tick, vars, Ask
    <2> QED BY <2>1, KeepList DEF Alike, Lists
  <1>9. ASSUME NEW r \in Readers, PersistAnswer(r) PROVE ListInv'
    <2> DEFINE old == row[answer[r].id].ver > answer[r].ver
               over == IF old THEN {s \in Syncs : Working(s)} ELSE {}
    <2>1. over \in SUBSET Syncs /\ sync' = DirtySyncs(over) /\ remote' = remote /\ answer[r] # None
      BY <1>9 DEF PersistAnswer
    <2>2. \A t \in Syncs : Alike(sync'[t], sync[t]) /\ sync'[t].clean = (sync[t].clean /\ t \notin over)
      BY <2>1, DirtyIs
    <2>3. \A t \in Syncs : Lists(t)' => Lists(t)
      BY <2>2 DEF Alike, Lists
    <2>4. ASSUME NEW t \in Syncs, Lists(t)', sync'[t].clean PROVE sync[t].clean /\ ~old
      BY <2>2, <2>3, <2>4 DEF Lists, Working
    <2>5. ASSUME ~old, NEW a \in Articles, Current(a) PROVE row'[a] = row[a]
      <3>1. CASE a = answer[r].id
        <4>1. answer[r].ver <= remote[a].ver /\ answer[r].ver \in Nat /\ remote[a].ver \in Nat
          BY <2>1, <3>1, Versions DEF VerInv
        <4>2. row[a].ver = remote[a].ver
          BY <2>5 DEF Current, Active
        <4>3. answer[r].ver = remote[a].ver
          BY <2>5, <3>1, <4>1, <4>2
        <4> QED BY <1>9, <2>5, <3>1, <4>3 DEF PersistAnswer, Current, TypeInv, TypeOK
      <3>2. CASE a # answer[r].id
        BY <1>9, <3>2 DEF PersistAnswer, TypeInv, TypeOK
      <3> QED BY <3>1, <3>2
    <2> QED BY <2>1, <2>2, <2>3, <2>4, <2>5, KeepList
  <1>10. ASSUME NEW a \in Articles, NEW published \in BOOLEAN, Edit(a, published) PROVE ListInv'
    <2> DEFINE S == {s \in Syncs : Disturbed(s, a)}
    <2>1. sync' = DirtySyncs(S)
      BY <1>10 DEF Edit
    <2>2. \A t \in Syncs : Alike(sync'[t], sync[t]) /\ sync'[t].clean = (sync[t].clean /\ t \notin S)
      BY <2>1, DirtyIs
    <2>3. \A t \in Syncs : Lists(t)' => Lists(t)
      BY <2>2 DEF Alike, Lists
    <2>4. ASSUME NEW t \in Syncs, Lists(t)', sync'[t].full PROVE sync'[t].part = 2
      BY <2>2, <2>3, <2>4 DEF Alike, ListInv
    <2>5. ASSUME NEW t \in Syncs, Lists(t)', sync'[t].clean PROVE ListedBy(t)'
      <3>1. sync[t].clean /\ ~Disturbed(t, a) /\ Lists(t) /\ ListedBy(t)
        BY <2>2, <2>3, <2>5 DEF ListInv
      <3>2. sync[t].off \in Nat /\ sync[t].part \in {1, 2}
        BY DEF TypeInv, TypeOK, Run
      <3>3. sync[t].pc = "query" /\ sync[t].off = 0 /\ (sync[t].part = 1 \/ sync[t].full)
        BY <3>1, <3>2 DEF Disturbed, Lists
      <3>4. sync[t].seen = {}
        BY <3>1, <3>3 DEF ListedBy
      <3> QED BY <2>2, <3>3, <3>4, FreshListed DEF Alike
    <2> QED BY <2>4, <2>5 DEF ListInv
  <1>20. ASSUME NEW s \in Syncs, NEW gone \in SUBSET Articles, FailReconciling(s, gone) PROVE ListInv'
    BY <1>20, ReconcilingIs, OwnList
  <1> QED BY <1>20, <1>1, <1>2, <1>3, <1>4, <1>5, <1>6, <1>7, <1>8, <1>9, <1>10 DEF Next, SyncStep

-----------------------------------------------------------------------------
(* What the watermark claims *)

AllClean == \A s \in Syncs : Working(s) => sync[s].clean

\* A clean sync works alone, so nothing else is disturbed.
LEMMA CleanAlone ==
  ASSUME AloneInv, NEW s \in Syncs, Working(s), sync[s].clean
  PROVE  AllClean /\ \A t \in Syncs \ {s} : ~Working(t)
  BY DEF AloneInv, AllClean

\* A page is there only while it is waited on.
PageInv == \A s \in Syncs : sync[s].pc # "page" => sync[s].page = {}

LEMMA PageStep == TypeInv /\ PageInv /\ [Next]_vars => PageInv'
  <1> SUFFICES ASSUME TypeInv, PageInv, [Next]_vars PROVE PageInv'
    OBVIOUS
  <1>1. ASSUME NEW s \in Syncs, Others(s), sync'[s].pc = "page" \/ sync'[s].page = {} PROVE PageInv'
    BY <1>1 DEF PageInv, Others
  <1>2. ASSUME \A t \in Syncs : sync'[t].pc = sync[t].pc /\ sync'[t].page = sync[t].page PROVE PageInv'
    BY <1>2 DEF PageInv
  <1>3. ASSUME NEW s \in Syncs, SyncStep(s) PROVE PageInv'
    <2>1. ASSUME NEW changed, WriteTags(s, changed) PROVE PageInv'
      <3>1. sync'[s].page = {}
        BY <2>1, TagsIs, ZenonT(60) DEF PageInv, WriteTags
      <3> QED BY <1>1, <2>1, <3>1, TagsIs
    <2>2. CASE Serve(s)
      BY <1>1, <2>2, ServeIs
    <2>3. CASE TurnPage(s) \/ NextListing(s)
      BY <1>1, <2>3, TurnIs
    <2>4. CASE LastPage(s)
      BY <1>1, <2>4, LastIs
    <2>5. CASE Commit(s) \/ Release(s)
      BY <1>1, <2>5, EndIs DEF Commit, Release
    <2> QED BY <1>3, <2>1, <2>2, <2>3, <2>4, <2>5 DEF SyncStep
  <1>4. ASSUME NEW s \in Syncs, NEW done \in SUBSET sync[s].page, Fail(s, done) PROVE PageInv'
    BY <1>1, <1>4, FailIs
  <1>5. ASSUME NEW s \in Syncs, NEW full \in BOOLEAN, Begin(s, full) PROVE PageInv'
    <2>1. \A t \in Syncs \ {s} : Alike(sync'[t], sync[t])
      BY <1>5, BeginIs
    <2>2. sync'[s].page = {}
      BY <1>5, BeginIs
    <2> QED BY <2>1, <2>2 DEF PageInv, Alike
  <1>6. CASE Crash
    BY <1>6, CrashIs DEF PageInv
  <1>7. ASSUME NEW S, sync' = DirtySyncs(S) PROVE PageInv'
    BY <1>2, <1>7, DirtyIs DEF Alike
  <1>8. ASSUME NEW r \in Readers, PersistAnswer(r) PROVE PageInv'
    BY <1>7, <1>8 DEF PersistAnswer
  <1>9. ASSUME NEW a \in Articles, NEW published \in BOOLEAN, Edit(a, published) PROVE PageInv'
    BY <1>7, <1>9 DEF Edit
  <1>10. CASE LockAges \/ Tick \/ UNCHANGED vars \/ \E r \in Readers, a \in Articles : Ask(r, a)
    BY <1>2, <1>10 DEF LockAges, Tick, vars, Ask
  <1>20. ASSUME NEW s \in Syncs, NEW gone \in SUBSET Articles, FailReconciling(s, gone) PROVE PageInv'
    BY <1>1, <1>20, ReconcilingIs
  <1> QED BY <1>20, <1>3, <1>4, <1>5, <1>6, <1>8, <1>9, <1>10 DEF Next

\* The last page of a clean sync: what it relies on is in the cache, whether it listed it
\* or an earlier sync did.
LEMMA AfterCurrent ==
  ASSUME TypeInv, AloneInv, ListInv, CaughtUp, NEW s \in Syncs, Ending(s), sync[s].clean,
         NEW a \in Articles, remote[a].published, sync[s].full \/ trusted
  PROVE  /\ After(s)[a] = Active(remote[a].ver)
         /\ sync[s].full => a \in Seen(s)
  <1>1. /\ sync[s].pc = "page" /\ sync[s].part = 2 /\ Cardinality(sync[s].page) < PageSize
        /\ Working(s) /\ Lists(s) /\ ListedBy(s)
    BY DEF Ending, Working, Lists, ListInv
  <1>2. Selected(s, a) => a \in Seen(s)
    BY <1>1, PageSeen
  <1>3. ASSUME a \in Seen(s) PROVE After(s)[a] = Active(remote[a].ver)
    <2>1. Kept(s)[a] = Active(remote[a].ver) /\ Kept(s) \in [Articles -> Rows]
      BY <1>1, <1>3, SeenCurrent, AfterTypes
    <2>2. Reconciled(Kept(s), Seen(s))[a] = Kept(s)[a]
      BY <1>3, <2>1, ReconciledIs
    <2> QED BY <2>1, <2>2 DEF After
  <1>4. CASE sync[s].full
    BY <1>2, <1>3, <1>4 DEF Selected
  <1>5. CASE ~sync[s].full /\ a \notin Seen(s)
    <2>1. trusted /\ ~Selected(s, a)
      BY <1>2, <1>5
    <2>2. /\ ~(remote[a].at > sync[s].prev[1])
          /\ ~(remote[a].at = sync[s].prev[1] /\ a > sync[s].prev[2])
      BY <1>1, <1>5, <2>1 DEF Selected, ListedBy, Seen
    <2>3. sync[s].prev = wm /\ AllClean
      BY <1>1, CleanAlone DEF AloneInv
    <2>4. ~Before(wm, Stamp(a))
      <3>1. remote[a].at \in Nat /\ a \in Nat /\ wm \in Nat \X Nat
        BY Constants DEF TypeInv, TypeOK, KnowledgeAssumption
      <3> QED BY <2>2, <2>3, <3>1 DEF Before, Stamp
    <2>5. Current(a)
      BY <2>1, <2>3, <2>4 DEF CaughtUp, AllClean, Current
    <2>6. sync[s].page = PageOf(s)
      BY <1>1 DEF ListedBy
    <2>7. Kept(s)[a] = row[a]
      BY <2>5, <2>6, PageCurrent DEF Kept
    <2> QED BY <1>5, <2>5, <2>7 DEF After, Current
  <1> QED BY <1>3, <1>4, <1>5

\* A step that takes nothing back leaves a tagging sync right.
LEMMA KeepTagged ==
  ASSUME NEW t \in Syncs, TaggedBy(t), remote' = remote, wm' = wm, trusted' => trusted,
         Alike(sync'[t], sync[t]), \A a \in Articles : Current(a) => row'[a] = row[a]
  PROVE  TaggedBy(t)'
  <1>1. Claim(t)' = Claim(t) /\ \A a \in Articles : Stamp(a)' = Stamp(a)
    BY DEF Claim, Stamp, Alike
  <1>2. \A a \in Articles : Claims(t, a)' => Claims(t, a)
    BY <1>1 DEF Claims, Alike, Before
  <1>3. \A a \in Articles : ~Before(wm, Stamp(a))' => ~Before(wm, Stamp(a))
    BY <1>1 DEF Before
  <1>4. \A a \in Articles : Current(a) => Current(a)'
    BY DEF Current
  <1> QED BY <1>2, <1>3, <1>4 DEF TaggedBy, Alike

\* The step of another sync, or of none.
LEMMA OwnTag ==
  ASSUME AloneInv, NEW s \in Syncs, Working(s), Others(s), Tags(s)' /\ sync'[s].clean => TaggedBy(s)'
  PROVE  TagInv'
  <1>1. ASSUME NEW t \in Syncs, t # s, Tags(t)' PROVE ~sync'[t].clean
    BY <1>1 DEF Others, Tags, Working, AloneInv
  <1> QED BY <1>1 DEF TagInv

\* A late reader takes nothing back, or disturbs.
LEMMA ReaderIs ==
  ASSUME TypeInv, VerInv, NEW r \in Readers, PersistAnswer(r)
  PROVE  /\ \A t \in Syncs : Alike(sync'[t], sync[t]) /\ (sync'[t].clean => sync[t].clean)
         /\ trusted' \/ (\E t \in Syncs : Working(t)' /\ sync'[t].clean) =>
              (\A a \in Articles : Current(a) => row'[a] = row[a])
         /\ trusted' => trusted
         /\ UNCHANGED <<remote, wm>>
         /\ row'[answer[r].id] = Active(answer[r].ver) /\ \A a \in Articles \ {answer[r].id} : row'[a] = row[a]
  <1> DEFINE old == row[answer[r].id].ver > answer[r].ver
             over == IF old THEN {s \in Syncs : Working(s)} ELSE {}
  <1>1. over \in SUBSET Syncs /\ sync' = DirtySyncs(over) /\ UNCHANGED <<remote, wm>> /\ answer[r] # None
        /\ trusted' = (trusted /\ ~old)
    BY DEF PersistAnswer
  <1>2. \A t \in Syncs : Alike(sync'[t], sync[t]) /\ sync'[t].clean = (sync[t].clean /\ t \notin over)
    BY <1>1, DirtyIs
  <1>3. /\ row'[answer[r].id] = Active(answer[r].ver) /\ \A a \in Articles \ {answer[r].id} : row'[a] = row[a]
    BY <1>1, Versions DEF PersistAnswer, TypeInv, TypeOK
  <1>4. ASSUME ~old, NEW a \in Articles, Current(a) PROVE row'[a] = row[a]
    <2>1. CASE a = answer[r].id
      <3>1. answer[r].ver <= remote[a].ver /\ answer[r].ver \in Nat /\ remote[a].ver \in Nat
        BY <1>1, <2>1, Versions DEF VerInv
      <3>2. row[a].ver = remote[a].ver
        BY <1>4 DEF Current, Active
      <3>3. answer[r].ver = remote[a].ver
        BY <1>4, <2>1, <3>1, <3>2
      <3> QED BY <1>3, <1>4, <2>1, <3>3 DEF Current
    <2>2. CASE a # answer[r].id
      BY <1>3, <2>2
    <2> QED BY <2>1, <2>2
  <1>5. ASSUME NEW t \in Syncs, Working(t)', sync'[t].clean PROVE ~old
    <2>1. Working(t)
      BY <1>2, <1>5 DEF Alike, Working
    <2> QED BY <1>2, <1>5, <2>1
  <1>6. trusted' => trusted /\ ~old
    BY <1>1
  <1> HIDE DEF old
  <1> QED BY <1>1, <1>2, <1>3, <1>4, <1>5, <1>6

LEMMA LastTagged ==
  ASSUME TypeInv, AloneInv, ListInv, CaughtUp, NEW s \in Syncs, LastPage(s), sync[s].clean
  PROVE  TaggedBy(s)'
  <1>1. /\ remote' = remote /\ trusted' = trusted /\ wm' = wm
        /\ row' = After(s) /\ sync'[s].full = sync[s].full
        /\ \A a \in DOMAIN sync'[s].loaded : sync'[s].loaded[a] = row'[a].ver
    BY LastIs DEF LastPage, Same
  <1>2. ASSUME NEW a \in Articles, remote'[a].published, sync'[s].full \/ trusted'
        PROVE  Current(a)' /\ (a \in DOMAIN sync'[s].loaded => sync'[s].loaded[a] = remote'[a].ver)
    <2>1. Ending(s)
      BY DEF LastPage, Ending
    <2>2. After(s)[a] = Active(remote[a].ver)
      BY <1>1, <1>2, <2>1, AfterCurrent
    <2>3. row'[a] = Active(remote[a].ver)
      BY <1>1, <2>2
    <2> QED BY <1>1, <2>3 DEF Current, Active
  <1> QED BY <1>2 DEF TaggedBy, Claims

LEMMA WriteTagged ==
  ASSUME TypeInv, NEW s \in Syncs, NEW changed, WriteTags(s, changed), TaggedBy(s)
  PROVE  TaggedBy(s)'
  <1>1. /\ remote' = remote /\ trusted' = trusted /\ wm' = wm
        /\ sync'[s].full = sync[s].full /\ sync'[s].prev = sync[s].prev /\ sync'[s].mark = sync[s].mark
        /\ DOMAIN sync'[s].loaded = {}
    <2>1. remote' = remote /\ trusted' = trusted /\ wm' = wm
      BY DEF WriteTags
    <2>2. Same(sync'[s], sync[s]) /\ sync'[s].mark = sync[s].mark /\ DOMAIN sync'[s].loaded = {}
      BY TagsIs
    <2> QED BY <2>1, <2>2 DEF Same
  <1>2. Claim(s)' = Claim(s) /\ \A a \in Articles : Stamp(a)' = Stamp(a)
    BY <1>1 DEF Claim, Stamp
  <1>3. ASSUME NEW a \in Articles, remote'[a].published, Claims(s, a)'
        PROVE  Current(a)'
    <2>1. Claims(s, a) /\ remote[a].published
      BY <1>1, <1>2, <1>3 DEF Claims, Before
    <2>2. CASE a \in changed
      BY <1>1, <2>1, <2>2, TagsIs DEF TaggedBy, Current
    <2>3. CASE a \notin changed
      BY <1>1, <2>1, <2>3, TagsIs DEF TaggedBy, Current
    <2> QED BY <2>2, <2>3
  <1> QED BY <1>1, <1>3 DEF TaggedBy

LEMMA TagStep ==
  TypeInv /\ VerInv /\ AloneInv /\ ListInv /\ TagInv /\ CaughtUp /\ [Next]_vars => TagInv'
  <1> SUFFICES ASSUME TypeInv, VerInv, AloneInv, ListInv, TagInv, CaughtUp, [Next]_vars PROVE TagInv'
    OBVIOUS
  <1>1. ASSUME NEW s \in Syncs, LastPage(s) PROVE TagInv'
    <2>1. Working(s) /\ Others(s) /\ sync'[s].clean = sync[s].clean
      BY <1>1, LastIs DEF LastPage, Working, Same
    <2> QED BY <1>1, <2>1, LastTagged, OwnTag
  <1>2. ASSUME NEW s \in Syncs, NEW changed, WriteTags(s, changed) PROVE TagInv'
    <2>1. Working(s) /\ Tags(s) /\ Others(s) /\ sync'[s].clean = sync[s].clean
      <3>1. sync[s].pc = "tagging"
        BY <1>2 DEF WriteTags
      <3>2. Others(s) /\ Same(sync'[s], sync[s])
        BY <1>2, TagsIs
      <3> QED BY <3>1, <3>2 DEF Working, Same, Tags
    <2> QED BY <1>2, <2>1, WriteTagged, OwnTag DEF TagInv
  <1>3. ASSUME NEW s \in Syncs, Serve(s) \/ TurnPage(s) \/ NextListing(s) \/ Commit(s) PROVE TagInv'
    <2>1. Working(s) /\ Others(s) /\ ~Tags(s)'
      BY <1>3, ServeIs, TurnIs, EndIs DEF Serve, TurnPage, NextListing, Commit, Working, Tags
    <2> QED BY <2>1, OwnTag
  <1>4. ASSUME NEW s \in Syncs, NEW done \in SUBSET sync[s].page, Fail(s, done) PROVE TagInv'
    <2>1. Working(s) /\ Others(s) /\ ~Tags(s)'
      BY <1>4, FailIs, ZenonT(60) DEF Fail, Working, Tags
    <2> QED BY <2>1, OwnTag
  <1>5. ASSUME UNCHANGED <<remote, row, wm, trusted>>,
               \A t \in Syncs : Tags(t)' => sync'[t] = sync[t]
        PROVE  TagInv'
    <2>1. ASSUME NEW t \in Syncs, Tags(t)', sync'[t].clean PROVE TaggedBy(t)'
      <3>1. TaggedBy(t)
        BY <1>5, <2>1 DEF TagInv, Tags
      <3> QED BY <1>5, <2>1, <3>1, KeepTagged DEF Alike
    <2> QED BY <2>1 DEF TagInv
  <1>6. ASSUME NEW s \in Syncs, Release(s) PROVE TagInv'
    <2>1. \A t \in Syncs : Tags(t)' => sync'[t] = sync[t]
      BY <1>6, EndIs DEF Release, Others, Tags
    <2> QED BY <1>5, <1>6, <2>1 DEF Release
  <1>7. ASSUME NEW s \in Syncs, NEW full \in BOOLEAN, Begin(s, full) PROVE TagInv'
    <2>1. ASSUME NEW t \in Syncs, Tags(t)' PROVE ~sync'[t].clean
      <3>1. CASE t = s
        BY <1>7, <2>1, <3>1, BeginIs DEF Tags
      <3>2. CASE t # s
        <4>1. Alike(sync'[t], sync[t]) /\ sync'[t].clean = (sync[t].clean /\ ~Working(t))
          BY <1>7, <3>2, BeginIs
        <4> QED BY <2>1, <4>1 DEF Alike, Tags, Working
      <3> QED BY <3>1, <3>2
    <2> QED BY <2>1 DEF TagInv
  <1>8. CASE Crash
    <2>1. \A t \in Syncs : ~Tags(t)'
      BY <1>8, CrashIs DEF Tags
    <2> QED BY <2>1 DEF TagInv
  <1>9. CASE LockAges \/ Tick \/ UNCHANGED vars \/ \E r \in Readers, a \in Articles : Ask(r, a)
    <2>1. UNCHANGED <<sync, remote, row, wm, trusted>>
      BY <1>9 DEF LockAges, Tick, vars, Ask
    <2> QED BY <1>5, <2>1
  <1>10. ASSUME NEW r \in Readers, PersistAnswer(r) PROVE TagInv'
    <2>1. ASSUME NEW t \in Syncs, Tags(t)', sync'[t].clean PROVE TaggedBy(t)'
      <3>1. Alike(sync'[t], sync[t]) /\ sync[t].clean /\ Working(t)'
        BY <1>10, <2>1, ReaderIs DEF Tags, Working
      <3>2. TaggedBy(t)
        BY <2>1, <3>1 DEF TagInv, Tags, Alike
      <3>3. \A a \in Articles : Current(a) => row'[a] = row[a]
        BY <1>10, <2>1, <3>1, ReaderIs
      <3>4. remote' = remote /\ wm' = wm /\ (trusted' => trusted)
        BY <1>10, ReaderIs
      <3> QED BY <3>1, <3>2, <3>3, <3>4, KeepTagged
    <2> QED BY <2>1 DEF TagInv
  <1>11. ASSUME NEW a \in Articles, NEW published \in BOOLEAN, ~Stretch, Edit(a, published) PROVE TagInv'
    <2> DEFINE S == {s \in Syncs : Disturbed(s, a)}
    <2>1. /\ sync' = DirtySyncs(S) /\ row' = row /\ wm' = wm
          /\ trusted' = (trusted /\ Before(wm, <<second, a>>))
      BY <1>11 DEF Edit
    <2>2. /\ \A b \in Articles \ {a} : remote'[b] = remote[b]
          /\ remote'[a].at = second
      BY <1>11 DEF Edit, TypeInv, TypeOK
    <2>3. ASSUME NEW t \in Syncs, Tags(t)', sync'[t].clean PROVE TaggedBy(t)'
      <3>1. Alike(sync'[t], sync[t]) /\ sync[t].clean /\ ~Disturbed(t, a)
        BY <2>1, <2>3, DirtyIs
      <3>2. Tags(t) /\ TaggedBy(t)
        BY <2>3, <3>1 DEF TagInv, Tags, Alike
      <3>3. Before(Claim(t), <<second, a>>)
        BY <1>11, <3>1, <3>2 DEF Stretch, Tags, Disturbed
      <3>4. Claim(t)' = Claim(t)
        BY <3>1 DEF Alike, Claim
      <3>5. ASSUME NEW b \in Articles, remote'[b].published
            PROVE  /\ Claims(t, b)' => Current(b)'
                   /\ b \in DOMAIN sync'[t].loaded /\ (Claims(t, b)' \/ (trusted' /\ ~Before(wm', Stamp(b)')))
                        => sync'[t].loaded[b] = remote'[b].ver
        <4>1. CASE b = a
          <5>1. Stamp(b)' = <<second, a>>
            BY <2>2, <4>1 DEF Stamp
          <5>2. ~Claims(t, b)'
            BY <3>3, <3>4, <5>1 DEF Claims, Before
          <5>3. ~(trusted' /\ ~Before(wm', Stamp(b)'))
            BY <2>1, <5>1
          <5> QED BY <5>2, <5>3
        <4>2. CASE b # a
          <5>1. remote'[b] = remote[b] /\ Stamp(b)' = Stamp(b)
            BY <2>2, <4>2 DEF Stamp
          <5>2. Claims(t, b)' => Claims(t, b)
            BY <2>1, <3>1, <3>4, <5>1 DEF Claims, Alike, Before
          <5>3. trusted' /\ ~Before(wm', Stamp(b)') => trusted /\ ~Before(wm, Stamp(b))
            BY <2>1, <5>1 DEF Before
          <5>4. Current(b)' = Current(b) /\ sync'[t].loaded = sync[t].loaded
            BY <2>1, <3>1, <5>1 DEF Current, Alike
          <5> QED BY <3>2, <3>5, <5>1, <5>2, <5>3, <5>4 DEF TaggedBy
        <4> QED BY <4>1, <4>2
      <3> QED BY <3>5 DEF TaggedBy, Before
    <2> QED BY <2>3 DEF TagInv
  <1>20. ASSUME NEW s \in Syncs, NEW gone \in SUBSET Articles, FailReconciling(s, gone) PROVE TagInv'
    BY <1>20, ReconcilingIs, OwnTag
  <1> QED BY <1>20, <1>1, <1>2, <1>3, <1>4, <1>6, <1>7, <1>8, <1>9, <1>10, <1>11 DEF Next, SyncStep

\* A step that takes nothing back keeps what the watermark claims.
LEMMA KeepCaught ==
  ASSUME CaughtUp, remote' = remote, wm' = wm, trusted' /\ AllClean' => trusted /\ AllClean,
         trusted' /\ AllClean' => \A a \in Articles : Current(a) => row'[a] = row[a]
  PROVE  CaughtUp'
  <1> SUFFICES ASSUME trusted', AllClean', NEW a \in Articles, remote'[a].published,
                      ~Before(wm', Stamp(a)')
               PROVE  row'[a] = Active(remote'[a].ver)
    BY DEF CaughtUp, AllClean, Before
  <1>1. Stamp(a)' = Stamp(a)
    BY DEF Stamp
  <1>2. Current(a)
    BY <1>1 DEF CaughtUp, AllClean, Current
  <1> QED BY <1>2 DEF Current

LEMMA CaughtStep ==
  TypeInv /\ VerInv /\ AloneInv /\ PageInv /\ ListInv /\ TagInv /\ CaughtUp /\ [Next]_vars => CaughtUp'
  <1> SUFFICES ASSUME TypeInv, VerInv, AloneInv, PageInv, ListInv, TagInv, CaughtUp, [Next]_vars
               PROVE  CaughtUp'
    OBVIOUS
  <1>1. ASSUME NEW s \in Syncs, Working(s), Working(s)', Same(sync'[s], sync[s]), Others(s), AllClean'
        PROVE  sync[s].clean /\ AllClean
    <2>1. sync[s].clean
      BY <1>1 DEF AllClean, Same
    <2> QED BY <1>1, <2>1, CleanAlone
  <1>2. ASSUME NEW s \in Syncs, Serve(s) PROVE CaughtUp'
    <2>1. Working(s) /\ Working(s)' /\ Same(sync'[s], sync[s]) /\ Others(s)
      BY <1>2, ServeIs DEF Serve, Working
    <2>2. UNCHANGED <<remote, wm, trusted, row>>
      BY <1>2 DEF Serve
    <2> QED BY <1>1, <2>1, <2>2, KeepCaught
  <1>3. ASSUME NEW s \in Syncs, TurnPage(s) \/ NextListing(s) PROVE CaughtUp'
    <2>1. Working(s) /\ Working(s)' /\ Same(sync'[s], sync[s]) /\ Others(s) /\ Lists(s) /\ sync[s].pc = "page"
      BY <1>3, TurnIs DEF TurnPage, NextListing, Working, Lists
    <2>2. UNCHANGED <<remote, wm, trusted>> /\ row' = Persisted(row, sync[s].page)
      BY <1>3 DEF TurnPage, NextListing
    <2>3. ASSUME AllClean', NEW a \in Articles, Current(a) PROVE row'[a] = row[a]
      <3>1. sync[s].page = PageOf(s)
        BY <1>1, <2>1, <2>3 DEF ListInv, ListedBy
      <3> QED BY <2>2, <2>3, <3>1, PageCurrent
    <2> QED BY <1>1, <2>1, <2>2, <2>3, KeepCaught
  <1>4. ASSUME NEW s \in Syncs, LastPage(s) PROVE CaughtUp'
    <2>1. Working(s) /\ Working(s)' /\ Same(sync'[s], sync[s]) /\ Others(s)
      BY <1>4, LastIs DEF LastPage, Working
    <2>2. UNCHANGED <<remote, wm, trusted>> /\ row' = After(s)
      BY <1>4, LastIs DEF LastPage
    <2>3. ASSUME trusted', AllClean', NEW a \in Articles, remote'[a].published
          PROVE  row'[a] = Active(remote'[a].ver)
      <3>1. Ending(s)
        BY <1>4 DEF LastPage, Ending
      <3> QED BY <1>1, <2>1, <2>2, <2>3, <3>1, AfterCurrent
    <2> QED BY <2>3 DEF CaughtUp, AllClean
  <1>5. ASSUME NEW s \in Syncs, NEW changed, WriteTags(s, changed) PROVE CaughtUp'
    <2>1. Working(s) /\ Tags(s) /\ Working(s)' /\ Same(sync'[s], sync[s]) /\ Others(s)
      <3>1. sync[s].pc = "tagging"
        BY <1>5 DEF WriteTags
      <3>2. Others(s) /\ Same(sync'[s], sync[s]) /\ sync'[s].pc = "commit"
        BY <1>5, TagsIs
      <3> QED BY <3>1, <3>2 DEF Working, Tags
    <2>2. UNCHANGED <<remote, wm, trusted>>
      BY <1>5 DEF WriteTags
    <2>3. ASSUME trusted', AllClean', NEW a \in Articles, remote'[a].published, ~Before(wm', Stamp(a)')
          PROVE  row'[a] = Active(remote'[a].ver)
      <3>1. sync[s].clean /\ AllClean /\ TaggedBy(s) /\ trusted
        BY <1>1, <2>1, <2>2, <2>3 DEF TagInv
      <3>2. ~Before(wm, Stamp(a)) /\ remote[a].published
        BY <2>2, <2>3 DEF Stamp
      <3>3. CASE a \in changed
        <4>1. a \in DOMAIN sync[s].loaded /\ row'[a] = Active(sync[s].loaded[a])
          BY <1>5, <3>3, TagsIs
        <4>2. sync[s].loaded[a] = remote[a].ver
          BY <3>1, <3>2, <4>1 DEF TaggedBy
        <4> QED BY <2>2, <4>1, <4>2
      <3>4. CASE a \notin changed
        <4>1. row'[a] = row[a]
          BY <1>5, <3>4, TagsIs
        <4> QED BY <2>2, <3>1, <3>2, <4>1 DEF CaughtUp, AllClean
      <3> QED BY <3>3, <3>4
    <2> QED BY <2>3 DEF CaughtUp, AllClean, Before
  <1>6. ASSUME NEW s \in Syncs, Commit(s) PROVE CaughtUp'
    <2>1. /\ UNCHANGED <<remote, row>> /\ wm' = Claim(s) /\ Tags(s)
          /\ trusted' = (sync[s].clean /\ (sync[s].full \/ trusted))
      BY <1>6 DEF Commit, Tags
    <2>2. ASSUME trusted', NEW a \in Articles, remote'[a].published, ~Before(wm', Stamp(a)')
          PROVE  row'[a] = Active(remote'[a].ver)
      <3>1. TaggedBy(s) /\ Claims(s, a)
        BY <2>1, <2>2 DEF TagInv, Claims, Stamp
      <3> QED BY <2>1, <2>2, <3>1 DEF TaggedBy, Current
    <2> QED BY <2>2 DEF CaughtUp, Before
  <1>7. ASSUME NEW s \in Syncs, Release(s) PROVE CaughtUp'
    <2>1. \A t \in Syncs : Working(t) => sync'[t] = sync[t]
      BY <1>7, EndIs DEF Release, Others, Working
    <2>2. AllClean' => AllClean
      BY <2>1 DEF AllClean, Working
    <2> QED BY <1>7, <2>2, KeepCaught DEF Release
  <1>8. ASSUME NEW s \in Syncs, NEW full \in BOOLEAN, Begin(s, full) PROVE CaughtUp'
    <2>1. AllClean' => AllClean
      <3>1. Working(s)' /\ (sync'[s].clean => \A t \in Syncs : ~Working(t))
        BY <1>8, BeginIs DEF Working
      <3> QED BY <3>1 DEF AllClean
    <2> QED BY <1>8, <2>1, KeepCaught DEF Begin
  <1>9. ASSUME NEW s \in Syncs, NEW done \in SUBSET sync[s].page, Fail(s, done) PROVE CaughtUp'
    <2>1. /\ Working(s) /\ Others(s) /\ UNCHANGED <<remote, wm>> /\ row' = Persisted(row, done)
          /\ trusted' => trusted /\ sync[s].clean
      BY <1>9, FailIs DEF Fail, Working
    <2>2. trusted' => trusted /\ AllClean
      BY <2>1, CleanAlone
    <2>3. ASSUME trusted', NEW a \in Articles, Current(a) PROVE row'[a] = row[a]
      <3>1. CASE sync[s].pc = "page"
        <4>1. sync[s].page = PageOf(s)
          BY <2>1, <2>3, <3>1 DEF ListInv, ListedBy, Lists
        <4> QED BY <2>1, <2>3, <4>1, PageCurrent
      <3>2. CASE sync[s].pc # "page"
        <4>1. done \in SUBSET PageOf(s)
          BY <3>2 DEF PageInv
        <4> QED BY <2>1, <2>3, <4>1, PageCurrent
      <3> QED BY <3>1, <3>2
    <2> QED BY <2>1, <2>2, <2>3, KeepCaught
  <1>10. CASE Crash
    <2>1. UNCHANGED <<remote, wm, row>> /\ (trusted' => trusted /\ AllClean)
      BY <1>10 DEF Crash, AllClean
    <2> QED BY <2>1, KeepCaught
  <1>11. CASE LockAges \/ Tick \/ UNCHANGED vars \/ \E r \in Readers, a \in Articles : Ask(r, a)
    <2>1. UNCHANGED <<sync, remote, row, wm, trusted>>
      BY <1>11 DEF LockAges, Tick, vars, Ask
    <2> QED BY <2>1 DEF CaughtUp, Working, Stamp, Before
  <1>12. ASSUME NEW r \in Readers, PersistAnswer(r) PROVE CaughtUp'
    <2>1. AllClean' => AllClean
      BY <1>12, ReaderIs DEF AllClean, Alike, Working
    <2> QED BY <1>12, <2>1, ReaderIs, KeepCaught
  <1>13. ASSUME NEW a \in Articles, NEW published \in BOOLEAN, Edit(a, published) PROVE CaughtUp'
    <2>1. /\ sync' = DirtySyncs({s \in Syncs : Disturbed(s, a)}) /\ row' = row /\ wm' = wm
          /\ trusted' = (trusted /\ Before(wm, <<second, a>>))
      BY <1>13 DEF Edit
    <2>2. /\ \A b \in Articles \ {a} : remote'[b] = remote[b]
          /\ remote'[a].at = second
      BY <1>13 DEF Edit, TypeInv, TypeOK
    <2>3. AllClean' => AllClean
      <3>1. \A t \in Syncs : sync'[t].pc = sync[t].pc /\ (sync'[t].clean => sync[t].clean)
        BY <2>1, DirtyIs DEF Alike
      <3> QED BY <3>1 DEF AllClean, Working
    <2>4. ASSUME trusted', AllClean', NEW b \in Articles, remote'[b].published, ~Before(wm', Stamp(b)')
          PROVE  row'[b] = Active(remote'[b].ver)
      <3>1. b # a
        BY <2>1, <2>2, <2>4 DEF Stamp
      <3>2. remote'[b] = remote[b] /\ Stamp(b)' = Stamp(b)
        BY <2>2, <3>1 DEF Stamp
      <3> QED BY <2>1, <2>3, <2>4, <3>2 DEF CaughtUp, AllClean
    <2> QED BY <2>4 DEF CaughtUp, AllClean, Before
  <1>20. ASSUME NEW s \in Syncs, NEW gone \in SUBSET Articles, FailReconciling(s, gone) PROVE CaughtUp'
    <2>1. trusted' => trusted /\ sync[s].clean /\ AllClean
      BY <1>20, ReconcilingIs, CleanAlone
    <2>2. ASSUME trusted', NEW a \in Articles, remote[a].published PROVE row'[a] = Active(remote[a].ver)
      <3>1. Ending(s)
        BY <1>20, ReconcilingIs DEF FailReconciling, Ending, ListInv
      <3>2. After(s)[a] = Active(remote[a].ver) /\ a \in Seen(s)
        <4>1. sync[s].full /\ sync[s].clean
          BY <1>20, <2>1, <2>2, ReconcilingIs
        <4> QED BY <2>2, <3>1, <4>1, AfterCurrent
      <3>3. After(s)[a] = Kept(s)[a]
        BY <1>20, <3>2, ReconcilingIs, ReconciledIs DEF After
      <3> QED BY <1>20, <3>2, <3>3, ReconcilingIs
    <2> QED BY <1>20, <2>2, ReconcilingIs DEF CaughtUp
  <1> QED BY <1>20, <1>2, <1>3, <1>4, <1>5, <1>6, <1>7, <1>8, <1>9, <1>10, <1>11, <1>12, <1>13 DEF Next, SyncStep

-----------------------------------------------------------------------------
(* Published articles are not removed *)

Tombed(a) == remote[a].published /\ row[a].life = "tombstoned" /\ row[a].ver = remote[a].ver

\* The steps that write rows: all but reconcile_full_knowledge_sync leave a row or make it active.
Wrote(a) == row'[a] = row[a] \/ \E v \in Vers : row'[a] = Active(v)

\* The steps that do: to the end, or to where it fails.
Reconciles(s) == LastPage(s) \/ \E gone \in SUBSET Articles : FailReconciling(s, gone)

LEMMA LoadedVers ==
  ASSUME TypeInv
  PROVE  \A s \in Syncs : \A a \in DOMAIN sync[s].loaded : sync[s].loaded[a] \in Vers
  <1> SUFFICES ASSUME NEW s \in Syncs PROVE \A a \in DOMAIN sync[s].loaded : sync[s].loaded[a] \in Vers
    OBVIOUS
  <1>1. sync[s].loaded \in UNION {[S -> Vers] : S \in SUBSET Articles}
    BY DEF TypeInv, TypeOK, Run
  <1>2. PICK S \in SUBSET Articles : sync[s].loaded \in [S -> Vers]
    BY <1>1
  <1> QED BY <1>2

LEMMA PersistedWrote ==
  ASSUME TypeInv, NEW s \in Syncs, NEW page \in SUBSET sync[s].page, NEW a \in Articles
  PROVE  Persisted(row, page)[a] = row[a] \/ \E v \in Vers : Persisted(row, page)[a] = Active(v)
  <1>1. row \in [Articles -> Rows] /\ page \subseteq Fetched
    BY AfterTypes DEF TypeInv, TypeOK, Rows
  <1>2. \A rec \in page : rec.ver \in Vers
    BY <1>1 DEF Fetched
  <1>3. ASSUME a \in Ids(page) PROVE \E v \in Vers : Persisted(row, page)[a] = Active(v)
    <2>1. PICK rec \in page : Persisted(row, page)[a] = Active(rec.ver)
      BY <1>1, <1>3, PersistedIs
    <2> QED BY <1>2, <2>1
  <1>4. ASSUME a \notin Ids(page) PROVE Persisted(row, page)[a] = row[a]
    BY <1>1, <1>4, PersistedIs
  <1> QED BY <1>3, <1>4

\* A reconcile tombstones or removes a published article only when its sync was disturbed.
LEMMA RowRemoves ==
  ASSUME TypeInv, AloneInv, ListInv, CaughtUp, NEW s \in Syncs, Ending(s), sync[s].full,
         NEW a \in Articles, remote[a].published, a \notin Seen(s)
  PROVE  ~sync[s].clean /\ Lists(s) /\ Kept(s)[a] = row[a]
  <1>1. a \notin Ids(sync[s].page)
    BY DEF Seen
  <1>2. Kept(s)[a] = row[a]
    BY <1>1, AfterTypes, PersistedIs DEF Kept, TypeInv, TypeOK, Rows
  <1> QED BY <1>2, AfterCurrent DEF Ending, Lists

LEMMA LastRemoves ==
  ASSUME TypeInv, AloneInv, ListInv, CaughtUp, NEW s \in Syncs, Reconciles(s),
         NEW a \in Articles, remote[a].published, ~Wrote(a)
  PROVE  /\ ~sync[s].clean /\ Lists(s)
         /\ row'[a] = IF row[a].life = "active" THEN [life |-> "tombstoned", ver |-> row[a].ver] ELSE Absent
  <1>1. Kept(s)[a] = row[a] \/ \E v \in Vers : Kept(s)[a] = Active(v)
    BY PersistedWrote DEF Kept
  <1>2. CASE LastPage(s)
    <2>1. row' = After(s) /\ Kept(s) \in [Articles -> Rows] /\ Ending(s)
      BY <1>2, LastIs, AfterTypes DEF LastPage, Ending
    <2>2. sync[s].full /\ a \notin Seen(s)
      BY <1>1, <2>1, ReconciledIs DEF After, Wrote
    <2>3. row'[a] = Reconciled(Kept(s), Seen(s))[a]
      BY <2>1, <2>2 DEF After
    <2>4. Reconciled(Kept(s), Seen(s))[a] =
            IF Kept(s)[a].life = "active" THEN [life |-> "tombstoned", ver |-> Kept(s)[a].ver] ELSE Absent
      BY <2>1, <2>2, ReconciledIs
    <2> QED BY <2>1, <2>2, <2>3, <2>4, RowRemoves
  <1>3. ASSUME NEW gone \in SUBSET Articles, FailReconciling(s, gone)
        PROVE  /\ ~sync[s].clean /\ Lists(s)
               /\ row'[a] = IF row[a].life = "active" THEN [life |-> "tombstoned", ver |-> row[a].ver] ELSE Absent
    <2>1. a \in gone
      BY <1>1, <1>3, ReconcilingIs DEF Wrote
    <2>2. Ending(s) /\ sync[s].full /\ a \notin Seen(s)
      BY <1>3, <2>1, ReconcilingIs DEF FailReconciling, Ending, ListInv
    <2>3. row'[a] = IF Kept(s)[a].life = "active"
                      THEN [life |-> "tombstoned", ver |-> Kept(s)[a].ver] ELSE Absent
      BY <1>3, <2>1, ReconcilingIs
    <2> QED BY <2>2, <2>3, RowRemoves
  <1> QED BY <1>2, <1>3 DEF Reconciles

\* What the other steps write.
LEMMA OthersWrite ==
  ASSUME TypeInv, [Next]_vars
  PROVE  (\A a \in Articles : Wrote(a)) \/ \E s \in Syncs : Reconciles(s)
  <1>1. ASSUME row' = row PROVE \A a \in Articles : Wrote(a)
    BY <1>1 DEF Wrote
  <1>2. ASSUME NEW s \in Syncs, TurnPage(s) \/ NextListing(s) PROVE \A a \in Articles : Wrote(a)
    <2>1. row' = Persisted(row, sync[s].page)
      BY <1>2 DEF TurnPage, NextListing
    <2> QED BY <2>1, PersistedWrote DEF Wrote
  <1>3. ASSUME NEW s \in Syncs, NEW changed, WriteTags(s, changed) PROVE \A a \in Articles : Wrote(a)
    BY <1>3, TagsIs, LoadedVers DEF Wrote
  <1>4. ASSUME NEW s \in Syncs, NEW done \in SUBSET sync[s].page, Fail(s, done) PROVE \A a \in Articles : Wrote(a)
    BY <1>4, FailIs, PersistedWrote DEF Wrote
  <1>5. ASSUME NEW r \in Readers, PersistAnswer(r) PROVE \A a \in Articles : Wrote(a)
    <2>1. answer[r].ver \in Vers
      BY <1>5 DEF PersistAnswer, TypeInv, TypeOK, Fetched
    <2>2. \A a \in Articles : row'[a] = row[a] \/ row'[a] = Active(answer[r].ver)
      BY <1>5 DEF PersistAnswer, TypeInv, TypeOK
    <2> QED BY <2>1, <2>2 DEF Wrote
  <1>6. ASSUME NEW s \in Syncs, Serve(s) \/ Release(s) \/ Commit(s) \/ \E full \in BOOLEAN : Begin(s, full)
        PROVE  row' = row
    BY <1>6 DEF Serve, Release, Commit, Begin
  <1>7. ASSUME \/ Crash \/ LockAges \/ Tick \/ UNCHANGED vars
               \/ \E r \in Readers, a \in Articles : Ask(r, a)
               \/ \E a \in Articles, published \in BOOLEAN : Edit(a, published)
        PROVE  row' = row
    BY <1>7 DEF Crash, LockAges, Tick, vars, Ask, Edit
  <1> QED BY <1>1, <1>2, <1>3, <1>4, <1>5, <1>6, <1>7 DEF Next, SyncStep, Reconciles

\* A step that makes no tombstone, and counts what it disturbs.
LEMMA KeepTombs ==
  ASSUME TombInv, \A a \in Articles : Tombed(a)' => Tombed(a),
         disturbed # 0 => disturbed' # 0,
         disturbed = 2 => disturbed' = 2,
         disturbed # 0 => \A t \in Syncs : Lists(t)' /\ ~sync'[t].clean =>
            (Lists(t) /\ ~sync[t].clean) \/ disturbed' = 2
  PROVE  TombInv'
  BY DEF TombInv, Tombed

LEMMA TombStep ==
  TypeInv /\ VerInv /\ AloneInv /\ ListInv /\ CaughtUp /\ TombInv /\ [Next]_vars => TombInv'
  <1> SUFFICES ASSUME TypeInv, VerInv, AloneInv, ListInv, CaughtUp, TombInv, [Next]_vars PROVE TombInv'
    OBVIOUS
  <1>1. ASSUME NEW a \in Articles, remote' = remote, Wrote(a), Tombed(a)' PROVE Tombed(a)
    <2>1. \A v : Active(v).life # "tombstoned"
      BY DEF Active
    <2>2. row'[a].life = "tombstoned"
      BY <1>1 DEF Tombed
    <2>3. row'[a] = row[a]
      BY <1>1, <2>1, <2>2 DEF Wrote
    <2> QED BY <1>1, <2>3 DEF Tombed
  <1>2. ASSUME remote' = remote, \A a \in Articles : Wrote(a), disturbed' = disturbed,
               \A t \in Syncs : Lists(t)' => Lists(t) /\ sync'[t].clean = sync[t].clean
        PROVE  TombInv'
    <2>1. \A a \in Articles : Tombed(a)' => Tombed(a)
      BY <1>1, <1>2
    <2> QED BY <1>2, <2>1, KeepTombs, ZenonT(60)
  <1>3. ASSUME NEW s \in Syncs, Serve(s) PROVE TombInv'
    <2>1. \A t \in Syncs : Lists(t)' => Lists(t) /\ sync'[t].clean = sync[t].clean
      BY <1>3, ServeIs DEF Serve, Others, Same, Lists
    <2> QED BY <1>2, <1>3, <2>1 DEF Serve, Wrote
  <1>4. ASSUME NEW s \in Syncs, TurnPage(s) \/ NextListing(s) PROVE TombInv'
    <2>1. \A t \in Syncs : Lists(t)' => Lists(t) /\ sync'[t].clean = sync[t].clean
      BY <1>4, TurnIs DEF TurnPage, NextListing, Others, Same, Lists
    <2>2. remote' = remote /\ disturbed' = disturbed /\ row' = Persisted(row, sync[s].page)
      BY <1>4 DEF TurnPage, NextListing
    <2> QED BY <1>2, <2>1, <2>2, PersistedWrote DEF Wrote
  <1>5. ASSUME NEW s \in Syncs, Reconciles(s) PROVE TombInv'
    <2>1. /\ \A t \in Syncs : Lists(t)' => t # s /\ Lists(t) /\ sync'[t] = sync[t]
          /\ remote' = remote /\ disturbed' = disturbed /\ Working(s)
      <3>1. CASE LastPage(s)
        BY <3>1, LastIs DEF LastPage, Others, Lists, Working
      <3>2. CASE \E gone \in SUBSET Articles : FailReconciling(s, gone)
        BY <3>2, ReconcilingIs DEF Others, Lists
      <3> QED BY <1>5, <3>1, <3>2 DEF Reconciles
    <2>2. ASSUME NEW a \in Articles, Tombed(a)', ~Wrote(a)
          PROVE  disturbed' # 0 /\ \A t \in Syncs : Lists(t)' /\ ~sync'[t].clean => disturbed' = 2
      <3>1. ~sync[s].clean
        BY <1>5, <2>1, <2>2, LastRemoves DEF Tombed
      <3>2. disturbed # 0
        BY <2>1, <3>1 DEF AloneInv
      <3>3. \A t \in Syncs : Lists(t)' => disturbed = 2
        BY <2>1 DEF AloneInv, Lists, Working
      <3> QED BY <2>1, <3>2, <3>3
    <2>3. ASSUME NEW a \in Articles, Tombed(a)', Wrote(a)
          PROVE  disturbed' # 0 /\ \A t \in Syncs : Lists(t)' /\ ~sync'[t].clean => disturbed' = 2
      <3>1. Tombed(a)
        BY <1>1, <2>1, <2>3
      <3> QED BY <2>1, <3>1 DEF TombInv, Tombed
    <2> QED BY <2>2, <2>3 DEF TombInv, Tombed
  <1>6. ASSUME NEW s \in Syncs, NEW changed, WriteTags(s, changed) PROVE TombInv'
    <2>1. \A t \in Syncs : Lists(t)' => Lists(t) /\ sync'[t].clean = sync[t].clean
      BY <1>6, TagsIs DEF Others, Lists
    <2>2. \A a \in Articles : Wrote(a)
      BY <1>6, TagsIs, LoadedVers DEF Wrote
    <2> QED BY <1>2, <1>6, <2>1, <2>2 DEF WriteTags
  <1>7. ASSUME NEW s \in Syncs, Commit(s) \/ Release(s) PROVE TombInv'
    <2>1. \A t \in Syncs : Lists(t)' => Lists(t) /\ sync'[t].clean = sync[t].clean
      BY <1>7, EndIs DEF Commit, Release, Others, Lists
    <2> QED BY <1>2, <1>7, <2>1 DEF Commit, Release, Wrote
  <1>8. ASSUME NEW s \in Syncs, NEW done \in SUBSET sync[s].page, Fail(s, done) PROVE TombInv'
    <2>1. \A t \in Syncs : Lists(t)' => Lists(t) /\ sync'[t].clean = sync[t].clean
      BY <1>8, FailIs DEF Others, Lists
    <2>2. \A a \in Articles : Wrote(a)
      BY <1>8, FailIs, PersistedWrote DEF Wrote
    <2> QED BY <1>2, <1>8, <2>1, <2>2 DEF Fail
  <1>9. CASE Crash
    <2>1. \A t \in Syncs : ~Lists(t)'
      BY <1>9, CrashIs DEF Lists
    <2> QED BY <1>2, <1>9, <2>1 DEF Crash, Wrote
  <1>10. CASE LockAges \/ Tick \/ UNCHANGED vars \/ \E r \in Readers, a \in Articles : Ask(r, a)
    <2>1. UNCHANGED <<sync, remote, row, disturbed>>
      BY <1>10 DEF LockAges, Tick, vars, Ask
    <2> QED BY <2>1 DEF TombInv, Lists
  <1>11. ASSUME NEW s \in Syncs, NEW full \in BOOLEAN, Begin(s, full) PROVE TombInv'
    <2>1. /\ UNCHANGED <<remote, row>>
          /\ disturbed' = disturbed \/ disturbed' = 2
          /\ (\E t \in Syncs : Working(t)) => disturbed' = 2
      BY <1>11 DEF Begin
    <2>2. ASSUME NEW t \in Syncs, Lists(t)', ~sync'[t].clean PROVE \E u \in Syncs : Working(u)
      <3>1. CASE t = s
        BY <1>11, <2>2, <3>1, BeginIs
      <3>2. CASE t # s
        <4>1. Alike(sync'[t], sync[t])
          BY <1>11, <3>2, BeginIs
        <4> QED BY <2>2, <4>1 DEF Alike, Lists, Working
      <3> QED BY <3>1, <3>2
    <2>3. \A a \in Articles : Tombed(a)' => Tombed(a)
      BY <2>1 DEF Tombed
    <2>4. \A t \in Syncs : Lists(t)' /\ ~sync'[t].clean => disturbed' = 2
      BY <2>1, <2>2
    <2>5. /\ disturbed # 0 => disturbed' # 0
          /\ disturbed = 2 => disturbed' = 2
      <3>1. 2 # 0
        OBVIOUS
      <3> QED BY <2>1, <3>1, Zenon
    <2>6. disturbed # 0 => \A t \in Syncs : Lists(t)' /\ ~sync'[t].clean =>
             (Lists(t) /\ ~sync[t].clean) \/ disturbed' = 2
      BY <2>4, Zenon
    <2> QED BY <2>3, <2>5, <2>6, KeepTombs, ZenonT(60)
  <1>12. ASSUME NEW S \in SUBSET Syncs, sync' = DirtySyncs(S), Disturb(S),
                \A a \in Articles : Tombed(a)' => Tombed(a)
         PROVE  TombInv'
    <2>1. \A t \in Syncs : Alike(sync'[t], sync[t]) /\ sync'[t].clean = (sync[t].clean /\ t \notin S)
      BY <1>12, DirtyIs
    <2>2. /\ disturbed' \in 0 .. 2 /\ disturbed' >= disturbed /\ disturbed \in 0 .. 2
          /\ (\E t \in S : sync[t].clean) => disturbed' # 0 /\ (disturbed # 0 => disturbed' = 2)
      BY <1>12, DisturbIs DEF TypeInv, TypeOK
    <2>3. /\ disturbed # 0 => disturbed' # 0
          /\ disturbed = 2 => disturbed' = 2
      BY <2>2
    <2>4. ASSUME disturbed # 0, NEW t \in Syncs, Lists(t)', ~sync'[t].clean
          PROVE  (Lists(t) /\ ~sync[t].clean) \/ disturbed' = 2
      <3>1. Lists(t)
        BY <2>1, <2>4 DEF Alike, Lists
      <3>2. CASE sync[t].clean
        BY <2>1, <2>2, <2>4, <3>2
      <3> QED BY <3>1, <3>2
    <2>5. disturbed # 0 => \A t \in Syncs : Lists(t)' /\ ~sync'[t].clean =>
             (Lists(t) /\ ~sync[t].clean) \/ disturbed' = 2
      BY <2>4, Zenon
    <2> QED BY <1>12, <2>3, <2>5, KeepTombs, ZenonT(60)
  <1>13. ASSUME NEW r \in Readers, PersistAnswer(r) PROVE TombInv'
    <2> DEFINE over == IF row[answer[r].id].ver > answer[r].ver THEN {s \in Syncs : Working(s)} ELSE {}
    <2>1. over \in SUBSET Syncs /\ sync' = DirtySyncs(over) /\ Disturb(over) /\ remote' = remote
      BY <1>13 DEF PersistAnswer
    <2>2. \A a \in Articles : Wrote(a)
      <3>1. answer[r].ver \in Vers
        BY <1>13 DEF PersistAnswer, TypeInv, TypeOK, Fetched
      <3>2. \A a \in Articles : row'[a] = row[a] \/ row'[a] = Active(answer[r].ver)
        BY <1>13 DEF PersistAnswer, TypeInv, TypeOK
      <3> QED BY <3>1, <3>2 DEF Wrote
    <2>3. \A a \in Articles : Tombed(a)' => Tombed(a)
      BY <1>1, <2>1, <2>2
    <2> QED BY <1>12, <2>1, <2>3
  <1>14. ASSUME NEW a \in Articles, NEW published \in BOOLEAN, Edit(a, published) PROVE TombInv'
    <2>1. /\ {s \in Syncs : Disturbed(s, a)} \in SUBSET Syncs
          /\ sync' = DirtySyncs({s \in Syncs : Disturbed(s, a)})
          /\ Disturb({s \in Syncs : Disturbed(s, a)}) /\ row' = row
      BY <1>14 DEF Edit
    <2>2. ASSUME NEW b \in Articles, Tombed(b)' PROVE Tombed(b)
      <3>1. CASE b = a
        <4>1. remote'[a].ver = remote[a].ver + 1
          BY <1>14 DEF Edit, TypeInv, TypeOK
        <4>2. row[a].ver <= remote[a].ver /\ row[a].ver \in Nat /\ remote[a].ver \in Nat
          BY Versions DEF VerInv
        <4> QED BY <2>1, <2>2, <3>1, <4>1, <4>2 DEF Tombed
      <3>2. CASE b # a
        <4>1. remote'[b] = remote[b]
          BY <1>14, <3>2 DEF Edit, TypeInv, TypeOK
        <4> QED BY <2>1, <2>2, <4>1 DEF Tombed
      <3> QED BY <3>1, <3>2
    <2> QED BY <1>12, <2>1, <2>2
  <1> QED BY <1>3, <1>4, <1>5, <1>6, <1>7, <1>8, <1>9, <1>10, <1>11, <1>13, <1>14 DEF Next, SyncStep, Reconciles

-----------------------------------------------------------------------------
IndInv ==
  /\ TypeInv /\ VerInv /\ PageInv /\ AloneInv
  /\ ListInv /\ TagInv /\ CaughtUp /\ TombInv

LEMMA InitInd == Init => IndInv /\ LockMeansSync
  <1> SUFFICES ASSUME Init PROVE IndInv /\ LockMeansSync
    OBVIOUS
  <1>1. TypeInv
    BY InitTypes
  <1>2. \A s \in Syncs : sync[s].pc = "idle" /\ sync[s].page = {} /\ DOMAIN sync[s].loaded = {}
    <2>1. DOMAIN <<>> = {}
      BY SMT
    <2>2. \A s \in Syncs : sync[s] = IdleSync
      BY DEF Init
    <2>3. IdleSync.pc = "idle" /\ IdleSync.page = {} /\ IdleSync.loaded = <<>>
      BY DEF IdleSync
    <2> QED BY <2>1, <2>2, <2>3
  <1>3. VerInv /\ PageInv
    BY <1>2 DEF Init, VerInv, PageInv, Absent
  <1>4. AloneInv /\ ListInv /\ TagInv
    BY <1>2 DEF AloneInv, Working, ListInv, Lists, TagInv, Tags
  <1>5. CaughtUp
    <2>1. \A a \in Articles : Before(wm, Stamp(a))
      BY DEF Init, Nowhere, Before, Stamp
    <2> QED BY <2>1 DEF CaughtUp
  <1>6. TombInv
    BY DEF Init, Absent, TombInv
  <1>7. LockMeansSync
    BY DEF Init, NoLock, LockMeansSync, KnowledgeAssumption
  <1> QED BY <1>1, <1>3, <1>4, <1>5, <1>6, <1>7 DEF IndInv

LEMMA StepInd == IndInv /\ [Next]_vars => IndInv'
  <1> SUFFICES ASSUME IndInv, [Next]_vars PROVE IndInv'
    OBVIOUS
  <1>1. TypeInv' /\ VerInv' /\ PageInv' /\ AloneInv'
    BY TypeStep, VerStep, PageStep, AloneStep DEF IndInv
  <1>2. ListInv' /\ TagInv' /\ CaughtUp' /\ TombInv'
    BY <1>1, ListStep, TagStep, CaughtStep, TombStep DEF IndInv
  <1> QED BY <1>1, <1>2 DEF IndInv

\* An incremental sync may go on from the watermark: what it claims is in the cache
\* (sync_knowledge_locked, run_incremental_knowledge_sync).
THEOREM WatermarkTrue == Spec => []CaughtUp
  <1>1. IndInv => CaughtUp
    BY DEF IndInv
  <1> QED BY <1>1, InitInd, StepInd, PTL DEF Spec

\* The lease is a working sync's own, or a dead process's (sync_knowledge, release_kb_sync_lock).
THEOREM LeaseMeansSync == Spec => []LockMeansSync
  <1> QED BY InitInd, InitTypes, LockStep, TypeStep, PTL DEF Spec

\* One disturbed listing removes no published article the cache holds as it is
\* (reconcile_full_knowledge_sync).
THEOREM PublishedKept == Spec => PublishedSurvives
  <1> DEFINE Survives ==
        \A a \in Articles :
          /\ remote[a].published
          /\ row[a] # Absent /\ row[a].ver = remote[a].ver
          /\ row'[a] = Absent
          => disturbed = 2
  <1>1. IndInv /\ [Next]_vars => [Survives]_vars
    <2> SUFFICES ASSUME IndInv, [Next]_vars,
                        NEW a \in Articles, remote[a].published, row[a] # Absent,
                        row[a].ver = remote[a].ver, row'[a] = Absent
                 PROVE  disturbed = 2
      OBVIOUS
    <2>1. \A v \in Vers : Active(v) # Absent
      BY DEF Active, Absent
    <2>2. ~Wrote(a)
      BY <2>1 DEF Wrote
    <2>3. PICK s \in Syncs : Reconciles(s)
      BY <2>2, OthersWrite DEF IndInv
    <2>4. /\ ~sync[s].clean /\ Lists(s)
          /\ row'[a] = IF row[a].life = "active" THEN [life |-> "tombstoned", ver |-> row[a].ver] ELSE Absent
      BY <2>2, <2>3, LastRemoves DEF IndInv
    <2>5. row[a].life # "active"
      BY <2>4 DEF Absent
    <2>6. row[a].life = "tombstoned"
      <3>1. row[a] \in Rows
        BY Versions DEF IndInv
      <3> QED BY <2>5, <3>1 DEF Rows
    <2> QED BY <2>4, <2>6 DEF IndInv, TombInv
  <1> QED BY <1>1, InitInd, StepInd, PTL DEF Spec, PublishedSurvives
===============================================================================
