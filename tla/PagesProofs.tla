----------------------------- MODULE PagesProofs -----------------------------
(***************************************************************************)
(* What the pages promise, for every number of photos, page size, answers  *)
(* on their way, changes by others and fetches that fail: the archive is in*)
(* order and complete and its badges say what the table says, the counts   *)
(* of the upload panel are true, the live view is of one moment.           *)
(*                                                                         *)
(* What only one page needs is stated of that page; `Shared` is what the   *)
(* table, the switches and the PATCHes keep whichever page is open.        *)
(***************************************************************************)
EXTENDS Pages, FiniteSetTheorems, TLAPS

--------------------------------------------------------------------------------
(* The pages of listEventPhotos.                                            *)
(* A photo's place in a list, newest first: how many are not older.         *)
From(S, k) == {j \in S : j >= k}

(* A photo's place is among as many places as there are photos, and a newer *)
(* photo has a smaller one.                                                 *)
LEMMA Places ==
  ASSUME NEW S \in SUBSET Nat, IsFiniteSet(S), NEW k \in S
  PROVE  /\ IsFiniteSet(From(S, k)) /\ Cardinality(From(S, k)) \in 1..Cardinality(S)
         /\ \A l \in S : k < l => Cardinality(From(S, l)) < Cardinality(From(S, k))
<1>1. /\ IsFiniteSet(From(S, k)) /\ Cardinality(From(S, k)) \in Nat
      /\ Cardinality(From(S, k)) <= Cardinality(S) /\ Cardinality(S) \in Nat
  <2>1. From(S, k) \in SUBSET S
    BY DEF From
  <2> QED BY <2>1, FS_Subset, FS_CardinalityType
<1>2. Cardinality(From(S, k)) # 0
  <2>1. k \in From(S, k)
    BY DEF From
  <2> QED BY <1>1, <2>1, FS_EmptySet
<1>3. ASSUME NEW l \in S, k < l
      PROVE  Cardinality(From(S, l)) < Cardinality(From(S, k))
  <2>1. From(S, l) \in SUBSET From(S, k)
    <3> SUFFICES ASSUME NEW j \in S, j >= l PROVE j >= k
      BY DEF From
    <3>1. j \in Nat /\ k \in Nat /\ l \in Nat
      OBVIOUS
    <3> QED BY <1>3, <3>1
  <2>2. k \in From(S, k) /\ k \notin From(S, l)
    BY <1>3 DEF From
  <2>3. /\ IsFiniteSet(From(S, l)) /\ Cardinality(From(S, l)) \in Nat
        /\ Cardinality(From(S, l)) <= Cardinality(From(S, k))
        /\ Cardinality(From(S, l)) # Cardinality(From(S, k))
    BY <1>1, <2>1, <2>2, FS_Subset, FS_CardinalityType
  <2> QED BY <1>1, <2>3
<1> QED BY <1>1, <1>2, <1>3

(* As many photos, as many places: each is that of a photo.                 *)
LEMMA EveryPlaceIsTaken ==
  ASSUME NEW S \in SUBSET Nat, IsFiniteSet(S), NEW n \in 1..Cardinality(S)
  PROVE  \E k \in S : Cardinality(From(S, k)) = n
<1> DEFINE place == [k \in S |-> Cardinality(From(S, k))]
           T == 1..Cardinality(S)
<1>1. place \in [S -> T]
  BY Places
<1>2. \A k, l \in S : place[k] = place[l] => k = l
  <2> SUFFICES ASSUME NEW k \in S, NEW l \in S, k < l
               PROVE  place[k] # place[l]
    OBVIOUS
  <2> QED BY Places
<1>3. Cardinality(S) \in Nat
  BY FS_CardinalityType
<1>4. IsFiniteSet(T) /\ Cardinality(T) = Cardinality(S)
  BY <1>3, FS_Interval
<1>5. place \in Injection(S, T)
  BY <1>1, <1>2 DEF Injection, IsInjective
<1>6. place \in Surjection(S, T)
  <2> HIDE DEF place, T
  <2> QED BY <1>4, <1>5, FS_Injection
<1>7. \E k \in S : place[k] = n
  BY <1>6 DEF Surjection
<1> QED BY <1>7

(* NewestFirst lists a set of ids in descending order, each once.           *)
LEMMA NewestFirstSorts ==
  ASSUME NEW S \in SUBSET Nat, IsFiniteSet(S)
  PROVE  /\ NewestFirst(S) \in Seq(S) /\ Len(NewestFirst(S)) = Cardinality(S)
         /\ \A i, j \in 1..Len(NewestFirst(S)) :
              i < j => NewestFirst(S)[i] > NewestFirst(S)[j]
         /\ ToSet(NewestFirst(S)) = S
<1> DEFINE n == Cardinality(S)
           listed(s) == s \in [1..n -> S] /\ \A i, j \in DOMAIN s : i < j => s[i] > s[j]
           t == [i \in 1..n |-> CHOOSE k \in S : Cardinality(From(S, k)) = i]
<1>1. n \in Nat
  BY FS_CardinalityType
<1>2. \A i \in 1..n : t[i] \in S /\ Cardinality(From(S, t[i])) = i
  BY EveryPlaceIsTaken
<1>3. listed(t)
  <2>1. t \in [1..n -> S]
    BY <1>2
  <2>2. ASSUME NEW i \in 1..n, NEW j \in 1..n, i < j
        PROVE  t[i] > t[j]
    <3>1. /\ t[i] \in S /\ Cardinality(From(S, t[i])) = i
          /\ t[j] \in S /\ Cardinality(From(S, t[j])) = j
      BY <1>2
    <3> HIDE DEF t
    <3>2. PICK k \in S, l \in S : k = t[i] /\ l = t[j]
      BY <3>1
    <3>3. ~(k < l) /\ k # l
      BY <2>2, <3>1, <3>2, Places
    <3> QED BY <3>2, <3>3
  <2> QED BY <2>1, <2>2
<1>4. NewestFirst(S) = CHOOSE s : listed(s)
  BY DEF NewestFirst
<1>5. listed(NewestFirst(S))
  <2> HIDE DEF listed, t
  <2> QED BY <1>3, <1>4
<1> DEFINE s == NewestFirst(S)
<1>6. s \in [1..n -> S] /\ \A i, j \in 1..n : i < j => s[i] > s[j]
  BY <1>5
<1> HIDE DEF s
<1>7. s \in Seq(S) /\ Len(s) = n
  BY <1>1, <1>6
<1>8. s \in Injection(1..n, S)
  <2>1. ASSUME NEW i \in 1..n, NEW j \in 1..n, s[i] = s[j]
        PROVE  i = j
    <3>1. PICK k \in Nat : k = s[i] /\ k = s[j]
      BY <1>6, <2>1
    <3>0. ~(k > k)
      OBVIOUS
    <3>2. ~(i < j)
      BY <1>6, <3>0, <3>1, Zenon
    <3>3. ~(j < i)
      BY <1>6, <3>0, <3>1, Zenon
    <3> QED BY <1>1, <3>2, <3>3
  <2> QED BY <1>6, <2>1 DEF Injection, IsInjective
<1>9. s \in Surjection(1..n, S)
  <2>1. Cardinality(1..n) = n
    BY <1>1, FS_Interval
  <2> QED BY <1>8, <2>1, FS_Injection
<1>10. ToSet(s) = S
  BY <1>6, <1>9 DEF Surjection, ToSet
<1> QED BY <1>6, <1>7, <1>10 DEF s

(* A list in order; the cursor at its end; what is left for the next page.  *)
Descending(s) == \A i, j \in 1..Len(s) : i < j => s[i] > s[j]
Ends(s, next) == next = 0 \/ (next \in ToSet(s) /\ \A k \in ToSet(s) : next <= k)
Left(s, next, base) == \A k \in base : k \in ToSet(s) \/ (next # 0 /\ k < next)

Above(B, k) == {j \in B : j > k}
Top(B) == {k \in B : Cardinality(Above(B, k)) < PageSize}

(* The photo with the last place is the oldest.                             *)
LEMMA LowestPhoto ==
  ASSUME NEW S \in SUBSET Nat, IsFiniteSet(S), S # {}
  PROVE  \E k \in S : \A j \in S : k <= j
<1>1. Cardinality(S) \in Nat /\ Cardinality(S) # 0
  BY FS_CardinalityType, FS_EmptySet
<1>2. PICK k \in S : Cardinality(From(S, k)) = Cardinality(S)
  <2>1. Cardinality(S) \in 1..Cardinality(S)
    BY <1>1
  <2> QED BY <2>1, EveryPlaceIsTaken
<1>3. From(S, k) = S
  <2>1. From(S, k) \in SUBSET S
    BY DEF From
  <2> QED BY <1>2, <2>1, FS_Subset
<1>4. ASSUME NEW j \in S
      PROVE  k <= j
  <2>1. j \in From(S, k)
    BY <1>3
  <2>2. j >= k /\ j \in Nat /\ k \in Nat
    BY <2>1 DEF From
  <2> QED BY <2>2
<1> QED BY <1>4

(* A page is the newest of the photos there are.                            *)
LEMMA TopOfThePhotos ==
  ASSUME NEW B \in SUBSET Nat, IsFiniteSet(B)
  PROVE  /\ Top(B) \in SUBSET B /\ IsFiniteSet(Top(B))
         /\ \A k \in Top(B), j \in B : k < j => j \in Top(B)
         /\ Cardinality(B) <= PageSize => Top(B) = B
         /\ Cardinality(B) > PageSize => \E k \in Top(B) : \A j \in Top(B) : k <= j
<1>1. \A k \in B : /\ IsFiniteSet(Above(B, k)) /\ Cardinality(Above(B, k)) \in Nat
                   /\ Cardinality(Above(B, k)) < Cardinality(B)
  <2> SUFFICES ASSUME NEW k \in B
               PROVE  /\ IsFiniteSet(Above(B, k)) /\ Cardinality(Above(B, k)) \in Nat
                      /\ Cardinality(Above(B, k)) < Cardinality(B)
    OBVIOUS
  <2>1. Above(B, k) \in SUBSET B /\ k \notin Above(B, k)
    BY DEF Above
  <2>2. Cardinality(B) \in Nat
    BY FS_CardinalityType
  <2>3. /\ IsFiniteSet(Above(B, k)) /\ Cardinality(Above(B, k)) \in Nat
        /\ Cardinality(Above(B, k)) <= Cardinality(B)
        /\ Cardinality(Above(B, k)) # Cardinality(B)
    BY <2>1, FS_Subset, FS_CardinalityType
  <2> QED BY <2>2, <2>3
<1>2. Top(B) \in SUBSET B /\ IsFiniteSet(Top(B))
  <2>1. Top(B) \in SUBSET B
    BY DEF Top
  <2> QED BY <2>1, FS_Subset
<1>3. ASSUME NEW k \in Top(B), NEW j \in B, k < j
      PROVE  j \in Top(B)
  <2>1. k \in B /\ Cardinality(Above(B, k)) < PageSize
    BY DEF Top
  <2>2. Above(B, j) \in SUBSET Above(B, k)
    <3> SUFFICES ASSUME NEW i \in B, i > j PROVE i > k
      BY DEF Above
    <3>1. i \in Nat /\ j \in Nat /\ k \in Nat
      BY <2>1
    <3> QED BY <1>3, <3>1
  <2>3. Cardinality(Above(B, j)) <= Cardinality(Above(B, k))
    BY <1>1, <2>1, <2>2, FS_Subset
  <2>4. Cardinality(Above(B, j)) < PageSize
    BY <1>1, <2>1, <2>3, PageAssumption
  <2> QED BY <2>4 DEF Top
<1>4. ASSUME Cardinality(B) <= PageSize
      PROVE  Top(B) = B
  <2>1. \A k \in B : Cardinality(Above(B, k)) < PageSize
    BY <1>1, <1>4, FS_CardinalityType, PageAssumption
  <2> QED BY <2>1 DEF Top
<1>5. ASSUME Cardinality(B) > PageSize
      PROVE  \E k \in Top(B) : \A j \in Top(B) : k <= j
  <2>1. 1 \in 1..Cardinality(B)
    BY <1>5, FS_CardinalityType, PageAssumption
  <2>2. PICK k \in B : Cardinality(From(B, k)) = 1
    BY <2>1, EveryPlaceIsTaken
  <2>3. Cardinality(Above(B, k)) < 1
    <3>1. Above(B, k) \in SUBSET From(B, k) /\ k \in From(B, k) /\ k \notin Above(B, k)
      <4>1. k \in Nat /\ k >= k /\ ~(k > k)
        OBVIOUS
      <4>2. ASSUME NEW j \in B, j > k
            PROVE  j >= k
        <5>1. j \in Nat
          OBVIOUS
        <5> QED BY <4>1, <4>2, <5>1
      <4> QED BY <4>1, <4>2, Zenon DEF Above, From
    <3>2. IsFiniteSet(From(B, k))
      BY Places
    <3>3. /\ Cardinality(Above(B, k)) <= Cardinality(From(B, k))
          /\ Cardinality(Above(B, k)) # Cardinality(From(B, k))
      BY <3>1, <3>2, FS_Subset
    <3> QED BY <1>1, <2>2, <3>3
  <2>4. k \in Top(B)
    BY <1>1, <2>3, PageAssumption DEF Top
  <2>5. Top(B) \in SUBSET Nat
    BY <1>2
  <2> QED BY <1>2, <2>4, <2>5, LowestPhoto
<1> QED BY <1>2, <1>3, <1>4, <1>5

(* The rows of the table are finitely many ids, none of them 0.             *)
LEMMA PhotosAreFinite ==
  ASSUME ids \in 0..MaxPhoto, rows \subseteq 1..ids
  PROVE  rows \in SUBSET Nat /\ IsFiniteSet(rows) /\ \A k \in rows : k # 0 /\ k > 0
<1>1. IsFiniteSet(1..ids)
  BY BoundsAssumption, FS_Interval
<1>2. rows \in SUBSET (1..ids)
  OBVIOUS
<1>3. \A k \in 1..ids : k \in Nat /\ k # 0 /\ k > 0
  BY BoundsAssumption
<1> QED BY <1>1, <1>2, <1>3, FS_Subset

(* listEventPhotos: a page in order, all of it below the cursor; what is    *)
(* below the cursor and not on the page is below the next cursor.           *)
LEMMA PageIsSound ==
  ASSUME ids \in 0..MaxPhoto, rows \subseteq 1..ids, NEW cursor \in Nat
  PROVE  LET found == ListEventPhotos(cursor)
         IN  /\ found.page \in Seq(rows) /\ found.next \in Nat
             /\ Descending(found.page) /\ Ends(found.page, found.next)
             /\ cursor # 0 => \A k \in ToSet(found.page) : k < cursor
             /\ Left(found.page, found.next, {k \in rows : cursor = 0 \/ k < cursor})
<1> DEFINE below == {k \in rows : cursor = 0 \/ k < cursor}
           next == IF Cardinality(below) > PageSize
                   THEN CHOOSE k \in Top(below) : \A j \in Top(below) : k <= j
                   ELSE 0
           found == ListEventPhotos(cursor)
<1>1. rows \in SUBSET Nat /\ IsFiniteSet(rows) /\ \A k \in rows : k # 0 /\ k > 0
  BY PhotosAreFinite
<1>2. below \in SUBSET Nat /\ below \in SUBSET rows /\ IsFiniteSet(below)
  <2>1. below \in SUBSET rows
    OBVIOUS
  <2> QED BY <1>1, <2>1, FS_Subset
<1>3. found.page = NewestFirst(Top(below)) /\ found.next = next
  BY DEF ListEventPhotos, Top, Above
<1>4. \A k \in below : cursor # 0 => k < cursor
  OBVIOUS
<1> HIDE DEF below
<1>5. /\ Top(below) \in SUBSET below /\ IsFiniteSet(Top(below))
      /\ \A k \in Top(below), j \in below : k < j => j \in Top(below)
      /\ Cardinality(below) <= PageSize => Top(below) = below
      /\ Cardinality(below) > PageSize => \E k \in Top(below) : \A j \in Top(below) : k <= j
  BY <1>2, TopOfThePhotos
<1>6. Top(below) \in SUBSET Nat /\ Top(below) \in SUBSET rows
  BY <1>2, <1>5
<1>7. /\ found.page \in Seq(Top(below)) /\ Descending(found.page)
      /\ ToSet(found.page) = Top(below)
  BY <1>3, <1>5, <1>6, NewestFirstSorts DEF Descending
<1>8. CASE Cardinality(below) > PageSize
  <2>1. next \in Top(below) /\ \A j \in Top(below) : next <= j
    BY <1>5, <1>8
  <2> HIDE DEF next, found
  <2>2. next \in Nat /\ next # 0
    BY <1>1, <1>6, <2>1
  <2>3. ASSUME NEW k \in below, k \notin Top(below)
        PROVE  k < next
    <3>1. ~(next < k) /\ next # k
      BY <1>5, <2>1, <2>3
    <3> QED BY <1>2, <2>2, <3>1
  <2>4. found.page \in Seq(rows)
    BY <1>6, <1>7
  <2>5. Ends(found.page, found.next)
    BY <1>3, <1>7, <2>1 DEF Ends
  <2>6. Left(found.page, found.next, below)
    BY <1>3, <1>7, <2>2, <2>3 DEF Left
  <2>7. cursor # 0 => \A k \in ToSet(found.page) : k < cursor
    BY <1>4, <1>5, <1>7
  <2> QED BY <1>3, <1>7, <2>2, <2>4, <2>5, <2>6, <2>7 DEF below, found
<1>9. CASE ~(Cardinality(below) > PageSize)
  <2>1. Top(below) = below /\ next = 0
    BY <1>2, <1>5, <1>9, FS_CardinalityType, PageAssumption
  <2> HIDE DEF next, found
  <2>4. found.page \in Seq(rows)
    BY <1>6, <1>7
  <2>5. Ends(found.page, found.next) /\ found.next \in Nat
    BY <1>3, <2>1 DEF Ends
  <2>6. Left(found.page, found.next, below)
    BY <1>7, <2>1 DEF Left
  <2>7. cursor # 0 => \A k \in ToSet(found.page) : k < cursor
    BY <1>4, <1>5, <1>7
  <2> QED BY <1>7, <2>4, <2>5, <2>6, <2>7 DEF below, found
<1> QED BY <1>8, <1>9

--------------------------------------------------------------------------------
(* The invariant.                                                           *)
(* The rows behind the pages, and the PATCHes that are on their way.        *)
PatchState == [id: 0..MaxPhoto, to: BOOLEAN, pc: {"none", "sent", "answered"}]

Shared ==
  /\ ids \in 0..MaxPhoto /\ rows \subseteq 1..ids /\ shown \subseteq rows /\ mine \subseteq rows
  /\ public \in BOOLEAN /\ deleted \in BOOLEAN
  /\ changes \in 0..MaxChanges /\ lost \in 0..MaxLost /\ disturbed \subseteq rows
  /\ patches \in [1..2 -> PatchState]
  /\ \A i \in 1..2 : patches[i].pc # "none" => patches[i].id \in rows

NoPatches == \A i \in 1..2 : patches[i].pc = "none"

(* What each page keeps. The live view's answers are of one moment each.    *)
GalleryOK ==
  /\ view \in [grid: SUBSET rows, enabled: BOOLEAN, removing: SUBSET rows]
  /\ answers \in [1..MaxAnswers -> {NoAnswer} \cup [grid: SUBSET rows, enabled: BOOLEAN]]

Stats == [rows: SUBSET rows, shown: SUBSET rows]
LiveOK ==
  /\ view \in [rows: SUBSET rows, shown: SUBSET rows, stale: BOOLEAN]
  /\ view.shown \subseteq view.rows
  /\ answers \in [1..MaxAnswers -> {NoAnswer} \cup [gone: {TRUE}] \cup Stats]
  /\ \A i \in 1..MaxAnswers :
       answers[i] # NoAnswer /\ answers[i] \in Stats => answers[i].shown \subseteq answers[i].rows

(* The archive has listed all that there was at first above its cursor, and *)
(* a page that is on its way continues it.                                  *)
ArchiveView ==
  [list: Seq(rows), flags: SUBSET rows, cursor: Nat, loaded: BOOLEAN, loading: BOOLEAN,
   base: SUBSET rows, read: BOOLEAN]
FoundPage == [list: Seq(rows), next: Nat, flags: SUBSET rows, base: SUBSET rows]

Continues(a) ==
  /\ view.loading
  /\ Descending(a.list) /\ Ends(a.list, a.next) /\ a.flags \subseteq ToSet(a.list)
  /\ view.cursor # 0 => \A k \in ToSet(a.list) : k < view.cursor
  /\ Left(a.list, a.next, {k \in a.base : view.cursor = 0 \/ k < view.cursor})
  /\ view.read => a.base = view.base

ArchiveOK ==
  /\ view \in ArchiveView
  /\ answers \in [1..MaxAnswers -> {NoAnswer} \cup FoundPage]
  /\ Descending(view.list) /\ Ends(view.list, view.cursor) /\ view.flags \subseteq ToSet(view.list)
  /\ ~view.read => view.list = <<>> /\ view.cursor = 0
  /\ view.read => Left(view.list, view.cursor, view.base)
  /\ view.loading /\ view.cursor = 0 => ~view.read
  /\ answers[1] # NoAnswer => Continues(answers[1])

(* The flags of photos that nobody else touched: unless an answer is on its *)
(* way, in which the table is ahead, they say what the table says.          *)
Patching(i, k) == patches[i].id = k /\ patches[i].pc # "none"
Undisputed(k) ==
  /\ \A i, j \in 1..2 : Patching(i, k) /\ Patching(j, k) => patches[i].to = patches[j].to
  /\ \A i \in 1..2 : Patching(i, k) /\ patches[i].pc = "answered" => (k \in shown <=> patches[i].to)
  /\ (\A i \in 1..2 : Patching(i, k) => patches[i].pc = "sent")
       => (k \in view.flags <=> k \in shown)

FlagsOK ==
  /\ \A i \in 1..2 : patches[i].pc # "none" => patches[i].id \in ToSet(view.list)
  /\ \A k \in ToSet(view.list) \ disturbed : Undisputed(k)
  /\ answers[1] # NoAnswer
       => \A k \in ToSet(answers[1].list) \ disturbed : k \in answers[1].flags <=> k \in shown

(* A file that has made a photo is ahead of the count by one.               *)
Counted ==
  LET said == view.done - view.duplicates - view.failed
      ahead == IF view.pc \in {"made", "failed"} THEN 1 ELSE 0
  IN  /\ said <= view.made /\ view.made <= view.done - view.duplicates + ahead
      /\ view.pc = "made" => said < view.made
UploadOK ==
  /\ view \in [pc: {"idle", "posted", "duplicate", "made", "failed"}, done: Nat, duplicates: Nat,
               failed: Nat, made: Nat, skipped: Nat]
  /\ Counted

PageInv ==
  \/ open = "gallery" /\ GalleryOK /\ NoPatches
  \/ open = "live" /\ LiveOK
  \/ open = "archive" /\ ArchiveOK /\ FlagsOK
  \/ open = "upload" /\ UploadOK /\ NoPatches

(* What is in a sequence over S is in S, and the sequence is one over any   *)
(* larger set.                                                              *)
LEMMA Listing ==
  ASSUME NEW S, NEW s \in Seq(S)
  PROVE  /\ ToSet(s) \subseteq S /\ ToSet(s) = {s[i] : i \in 1..Len(s)}
         /\ \A T : S \subseteq T => s \in Seq(T)
<1>1. Len(s) \in Nat /\ s \in [1..Len(s) -> S]
  OBVIOUS
<1>2. ToSet(s) \subseteq S /\ ToSet(s) = {s[i] : i \in 1..Len(s)}
  BY <1>1 DEF ToSet
<1>3. ASSUME NEW T, S \subseteq T
      PROVE  s \in Seq(T)
  <2>1. s \in [1..Len(s) -> T]
    BY <1>1, <1>3
  <2> QED BY <1>1, <2>1
<1> QED BY <1>2, <1>3

(* What a click is about is there.                                          *)
LEMMA WhatIsShownIsThere ==
  ASSUME PageInv
  PROVE  /\ open = "live" => view.rows \subseteq rows
         /\ open = "archive" => ToSet(view.list) \subseteq rows
<1>1. CASE open = "live" /\ LiveOK
  BY <1>1 DEF LiveOK
<1>2. CASE open = "archive" /\ ArchiveOK
  <2>1. view.list \in Seq(rows)
    BY <1>2 DEF ArchiveOK, ArchiveView
  <2> QED BY <1>2, <2>1, Listing
<1> QED BY <1>1, <1>2 DEF PageInv

(* The table, the switches and the PATCHes, over whatever a step does; rows *)
(* are never taken away.                                                    *)
LEMMA SharedInductive ==
  ASSUME Shared, PageInv, [Next]_vars
  PROVE  Shared' /\ rows \subseteq rows' /\ open' = open
<1> USE DEF db
<1>0. /\ MaxPhoto \in Nat /\ MaxChanges \in Nat /\ MaxLost \in Nat
      /\ ids \in Nat /\ ids <= MaxPhoto /\ changes \in Nat /\ lost \in Nat
  BY BoundsAssumption DEF Shared
<1>1. ASSUME ids' = ids, UNCHANGED <<open, rows, mine, public, deleted, patches>>,
             shown' \subseteq rows, disturbed' \subseteq rows,
             changes' = changes \/ Change, lost' = lost \/ Lose
      PROVE  Shared' /\ rows \subseteq rows' /\ open' = open
  BY <1>0, <1>1 DEF Shared, Change, Lose
<1>2. ASSUME UNCHANGED <<open, ids, rows, mine, public, deleted>>,
             shown' \subseteq rows, disturbed' \subseteq rows,
             changes' = changes \/ Change, lost' = lost \/ Lose,
             NEW i \in 1..2, NEW p \in PatchState, p.pc # "none" => p.id \in rows,
             patches' = [patches EXCEPT ![i] = p]
      PROVE  Shared' /\ rows \subseteq rows' /\ open' = open
  <2>1. /\ patches' \in [1..2 -> PatchState]
        /\ \A j \in 1..2 : patches'[j] = patches[j] \/ patches'[j] = p
    BY <1>2 DEF Shared
  <2>2. \A j \in 1..2 : patches'[j].pc # "none" => patches'[j].id \in rows'
    BY <1>2, <2>1 DEF Shared
  <2> QED BY <1>0, <1>2, <2>1, <2>2 DEF Shared, Change, Lose
<1>3. ASSUME NEW n \in Nat, n = ids + 1, n <= MaxPhoto, ids' = n,
             \/ rows' = rows /\ shown' = shown
             \/ rows' = rows \cup {n} /\ shown' = shown \cup {n},
             UNCHANGED <<open, mine, public, deleted, patches, changes, lost, disturbed>>
      PROVE  Shared' /\ rows \subseteq rows' /\ open' = open
  <2>1. ids' \in 0..MaxPhoto /\ rows' \subseteq 1..ids'
    <3>1. n \in 0..MaxPhoto /\ n \in 1..n /\ \A k \in 1..ids : k \in 1..n
      BY <1>0, <1>3
    <3> QED BY <1>3, <3>1, Zenon DEF Shared
  <2>2. shown' \subseteq rows' /\ rows \subseteq rows'
    BY <1>3 DEF Shared
  <2> QED BY <1>3, <2>1, <2>2 DEF Shared
<1>4. CASE TakeId
  <2>1. PICK n \in Nat : n = ids + 1 /\ n <= MaxPhoto
    BY <1>0, <1>4 DEF TakeId
  <2>2. /\ ids' = n
        /\ UNCHANGED <<open, rows, shown, mine, public, deleted, patches, changes, lost, disturbed>>
    BY <1>4, <2>1 DEF TakeId
  <2> QED BY <1>3, <2>1, <2>2
<1>5. ASSUME NEW k \in Id, InsertRow(k)
      PROVE  Shared' /\ rows \subseteq rows' /\ open' = open
  <2>1. /\ rows' = rows \cup {k} /\ shown' = shown \cup {k} /\ k \in 1..ids
        /\ UNCHANGED <<open, ids, mine, public, deleted, patches, changes, lost, disturbed>>
    BY <1>5 DEF InsertRow
  <2> QED BY <2>1 DEF Shared
<1>6. ASSUME NEW k \in Id, OtherPublishes(k)
      PROVE  Shared' /\ rows \subseteq rows' /\ open' = open
  <2>1. shown' \subseteq rows /\ disturbed' \subseteq rows
    BY <1>6 DEF OtherPublishes, Shared
  <2> QED BY <1>1, <1>6, <2>1 DEF OtherPublishes
<1>7. CASE OtherChange
  <2>1. /\ Change /\ mine' \subseteq rows
        /\ UNCHANGED <<open, ids, rows, shown, patches, lost, disturbed>>
    BY <1>7 DEF OtherChange, Shared
  <2>2. deleted' \in BOOLEAN /\ public' \in BOOLEAN
    <3>1. CASE public' = ~public /\ UNCHANGED deleted
      BY <3>1 DEF Shared
    <3>2. CASE UNCHANGED public
      BY <1>7, <3>2 DEF OtherChange, Shared
    <3> QED BY <1>7, <3>1, <3>2 DEF OtherChange
  <2> QED BY <1>0, <2>1, <2>2 DEF Shared, Change
<1>8. ASSUME NEW i \in 1..MaxAnswers,
             \/ PollGallery(i) \/ HearGallery(i) \/ PollStats(i) \/ HearStats(i) \/ LosePoll(i)
      PROVE  Shared' /\ rows \subseteq rows' /\ open' = open
  <2>1. /\ UNCHANGED <<open, ids, rows, shown, mine, public, deleted, patches, changes, disturbed>>
        /\ lost' = lost \/ Lose
    BY <1>8 DEF PollGallery, HearGallery, PollStats, HearStats, LosePoll, Ask, Answered
  <2> QED BY <1>1, <2>1 DEF Shared
<1>9. ASSUME NEW k \in Id, RemoveMe(k) \/ Removed(k)
      PROVE  Shared' /\ rows \subseteq rows' /\ open' = open
  <2>1. /\ UNCHANGED <<open, ids, rows, mine, public, deleted, patches, lost, disturbed>>
        /\ shown' \subseteq shown /\ (changes' = changes \/ Change)
    BY <1>9 DEF RemoveMe, Removed
  <2> QED BY <1>1, <2>1 DEF Shared
<1>10. ASSUME NEW i \in 1..2, NEW k \in Id, SetPublished(i, k)
       PROVE  Shared' /\ rows \subseteq rows' /\ open' = open
  <2>1. PICK to \in BOOLEAN :
          patches' = [patches EXCEPT ![i] = [id |-> k, to |-> to, pc |-> "sent"]]
    <3>1. PICK to \in BOOLEAN :
            to = IF open = "live" THEN k \notin view.shown ELSE k \notin view.flags
      OBVIOUS
    <3> QED BY <1>10, <3>1, Zenon DEF SetPublished
  <2>2. k \in rows
    BY <1>10, WhatIsShownIsThere DEF SetPublished
  <2> DEFINE p == [id |-> k, to |-> to, pc |-> "sent"]
  <2>3. p \in PatchState /\ p.id = k
    BY <1>0 DEF PatchState, Id
  <2>4. /\ UNCHANGED <<open, ids, rows, shown, mine, public, deleted, lost>> /\ Change
        /\ disturbed' \subseteq rows
    BY <1>10, <2>2 DEF SetPublished, Shared
  <2> HIDE DEF p
  <2>5. shown' \subseteq rows /\ patches' = [patches EXCEPT ![i] = p]
    BY <2>1, <2>4 DEF Shared, p
  <2> QED BY <1>2, <2>2, <2>3, <2>4, <2>5
<1>11. ASSUME NEW i \in 1..2, Patched(i) \/ PatchFails(i) \/ HearPatch(i)
       PROVE  Shared' /\ rows \subseteq rows' /\ open' = open
  <2>1. patches[i].id \in rows /\ patches[i] \in PatchState /\ patches \in [1..2 -> PatchState]
    BY <1>11 DEF Patched, PatchFails, HearPatch, Shared
  <2>2. /\ UNCHANGED <<open, ids, rows, mine, public, deleted, changes>>
        /\ lost' = lost \/ Lose
        /\ shown' \subseteq rows /\ disturbed' \subseteq rows
    BY <1>11, <2>1 DEF Patched, PatchFails, HearPatch, Fail, Shared
  <2>3. PICK p \in PatchState : /\ patches' = [patches EXCEPT ![i] = p]
                                /\ p.pc # "none" => p.id \in rows
    <3> DEFINE answered == [patches[i] EXCEPT !.pc = "answered"]
    <3>1. answered \in PatchState /\ answered.id = patches[i].id
      BY <2>1 DEF PatchState
    <3>2. NoPatch \in PatchState /\ NoPatch.pc = "none"
      BY <1>0 DEF NoPatch, PatchState
    <3>3. \/ patches' = [patches EXCEPT ![i] = answered]
          \/ patches' = [patches EXCEPT ![i] = NoPatch]
      BY <1>11, <2>1 DEF Patched, PatchFails, HearPatch
    <3> HIDE DEF answered
    <3> QED BY <2>1, <3>1, <3>2, <3>3
  <2> QED BY <1>2, <2>2, <2>3
<1>12. CASE ReadPage \/ HearPage \/ LosePage \/ LoadMore \/ SendFile \/ FileFails \/ CountFile
  <2>1. /\ UNCHANGED <<open, ids, rows, shown, mine, public, deleted, patches, changes, disturbed>>
        /\ lost' = lost \/ Lose
    BY <1>12 DEF ReadPage, HearPage, LosePage, LoadMore, SendFile, FileFails, CountFile, Ask,
                 Answered, Fail
  <2> QED BY <1>1, <2>1 DEF Shared
<1>13. CASE PostFile
  <2>1. UNCHANGED <<open, mine, public, deleted, patches, changes, lost, disturbed>>
    BY <1>13 DEF PostFile
  <2>2. CASE UNCHANGED <<ids, rows, shown>>
    BY <1>1, <2>1, <2>2 DEF Shared
  <2>3. CASE /\ ids < MaxPhoto /\ ids' = ids + 1
             /\ rows' = rows \cup {ids + 1} /\ shown' = shown \cup {ids + 1}
    <3>1. PICK n \in Nat : n = ids + 1 /\ n <= MaxPhoto
      BY <1>0, <2>3
    <3> QED BY <1>3, <2>1, <2>3, <3>1
  <2> QED BY <1>13, <2>2, <2>3 DEF PostFile
<1>14. CASE UNCHANGED vars
  BY <1>1, <1>14 DEF vars, Shared
<1> QED
  BY <1>4, <1>5, <1>6, <1>7, <1>8, <1>9, <1>10, <1>11, <1>12, <1>13, <1>14 DEF Next, Others

--------------------------------------------------------------------------------
(* One page at a time.                                                      *)
(* The attendee's gallery.                                                  *)
LEMMA GalleryInductive ==
  ASSUME open = "gallery", Shared, rows \subseteq rows', GalleryOK, NoPatches, [Next]_vars
  PROVE  GalleryOK' /\ NoPatches'
<1> USE DEF db
<1>0. /\ view \in [grid: SUBSET rows', enabled: BOOLEAN, removing: SUBSET rows']
      /\ answers \in [1..MaxAnswers -> {NoAnswer} \cup [grid: SUBSET rows', enabled: BOOLEAN]]
  <2>1. [grid: SUBSET rows, enabled: BOOLEAN] \subseteq [grid: SUBSET rows', enabled: BOOLEAN]
    OBVIOUS
  <2> QED BY <2>1 DEF GalleryOK
<1>1. ASSUME UNCHANGED <<view, answers, patches>>
      PROVE  GalleryOK' /\ NoPatches'
  BY <1>0, <1>1 DEF GalleryOK, NoPatches
<1>2. CASE Others
  BY <1>1, <1>2 DEF Others, TakeId, OtherChange, InsertRow, OtherPublishes
<1>3. ASSUME NEW i \in 1..MaxAnswers, PollGallery(i)
      PROVE  GalleryOK' /\ NoPatches'
  <2>1. [grid |-> Gallery, enabled |-> public] \in [grid: SUBSET rows', enabled: BOOLEAN]
    BY DEF Gallery, Shared
  <2>2. UNCHANGED <<view, patches>>
    BY <1>3 DEF PollGallery, Ask
  <2> QED BY <1>0, <1>3, <2>1, <2>2 DEF PollGallery, Ask, GalleryOK, NoPatches
<1>4. ASSUME NEW i \in 1..MaxAnswers, HearGallery(i)
      PROVE  GalleryOK' /\ NoPatches'
  <2>1. answers[i] \in [grid: SUBSET rows', enabled: BOOLEAN]
    BY <1>0, <1>4 DEF HearGallery, Answered
  <2>2. view' = [view EXCEPT !.grid = answers[i].grid, !.enabled = answers[i].enabled]
    BY <1>4 DEF HearGallery
  <2>3. view' \in [grid: SUBSET rows', enabled: BOOLEAN, removing: SUBSET rows']
    BY <1>0, <2>1, <2>2
  <2>4. answers' = [answers EXCEPT ![i] = NoAnswer] /\ UNCHANGED patches
    BY <1>4 DEF HearGallery, Answered
  <2> QED BY <1>0, <2>3, <2>4 DEF GalleryOK, NoPatches
<1>5. ASSUME NEW i \in 1..MaxAnswers, LosePoll(i)
      PROVE  GalleryOK' /\ NoPatches'
  <2>1. answers' = [answers EXCEPT ![i] = NoAnswer] /\ UNCHANGED <<view, patches>>
    BY <1>5 DEF LosePoll
  <2> QED BY <1>0, <2>1 DEF GalleryOK, NoPatches
<1>6. ASSUME NEW k \in Id, RemoveMe(k) \/ Removed(k)
      PROVE  GalleryOK' /\ NoPatches'
  <2>1. view' \in [grid: SUBSET rows', enabled: BOOLEAN, removing: SUBSET rows']
    <3>1. CASE RemoveMe(k)
      <4>1. k \in rows' /\ view' = [view EXCEPT !.removing = view.removing \cup {k}]
        BY <1>0, <3>1 DEF RemoveMe
      <4> QED BY <1>0, <4>1
    <3>2. CASE Removed(k)
      BY <1>0, <3>2 DEF Removed
    <3> QED BY <1>6, <3>1, <3>2
  <2>2. UNCHANGED <<answers, patches>>
    BY <1>6 DEF RemoveMe, Removed
  <2> QED BY <1>0, <2>1, <2>2 DEF GalleryOK, NoPatches
<1>7. CASE UNCHANGED vars
  BY <1>1, <1>7 DEF vars
<1>8. /\ \A i : ~PollStats(i) /\ ~HearStats(i)
      /\ \A i \in 1..2 : ~Patched(i) /\ ~PatchFails(i) /\ ~HearPatch(i) /\ \A k : ~SetPublished(i, k)
      /\ ~ReadPage /\ ~HearPage /\ ~LosePage /\ ~LoadMore
      /\ ~SendFile /\ ~PostFile /\ ~FileFails /\ ~CountFile
  BY DEF NoPatches, PollStats, HearStats, Patched, PatchFails, HearPatch, SetPublished, ReadPage,
         HearPage, LosePage, LoadMore, SendFile, PostFile, FileFails, CountFile
<1> QED BY <1>2, <1>3, <1>4, <1>5, <1>6, <1>7, <1>8 DEF Next

(* The organiser's live view: what it shows is of one moment.               *)
LEMMA LiveInductive ==
  ASSUME open = "live", Shared, rows \subseteq rows', LiveOK, [Next]_vars
  PROVE  LiveOK'
<1> USE DEF db
<1>0. /\ view \in [rows: SUBSET rows', shown: SUBSET rows', stale: BOOLEAN]
      /\ answers \in [1..MaxAnswers -> {NoAnswer} \cup [gone: {TRUE}] \cup Stats]
      /\ Stats \subseteq Stats'
  BY DEF LiveOK, Stats
<1>1. ASSUME view' \in [rows: SUBSET rows', shown: SUBSET rows', stale: BOOLEAN],
             view'.shown \subseteq view'.rows,
             \/ UNCHANGED answers
             \/ \E i \in 1..MaxAnswers, a \in {NoAnswer} \cup [gone: {TRUE}] \cup Stats :
                  /\ answers' = [answers EXCEPT ![i] = a]
                  /\ a # NoAnswer /\ a \in Stats => a.shown \subseteq a.rows
      PROVE  LiveOK'
  <2>1. answers' \in [1..MaxAnswers -> {NoAnswer} \cup [gone: {TRUE}] \cup Stats]
    BY <1>0, <1>1
  <2>2. \A i \in 1..MaxAnswers :
          answers'[i] # NoAnswer /\ answers'[i] \in Stats
            => answers'[i].shown \subseteq answers'[i].rows
    BY <1>0, <1>1 DEF LiveOK
  <2>3. \A a \in [gone: {TRUE}] : a \notin Stats'
    <3> SUFFICES ASSUME NEW a \in [gone: {TRUE}], a \in Stats' PROVE FALSE
      OBVIOUS
    <3>1. DOMAIN a = {"gone"} /\ DOMAIN a = {"rows", "shown"}
      BY DEF Stats
    <3> QED BY <3>1
  <2>4. \A i \in 1..MaxAnswers :
          answers'[i] # NoAnswer /\ answers'[i] \in Stats'
            => answers'[i].shown \subseteq answers'[i].rows
    BY <2>1, <2>2, <2>3
  <2>5. answers' \in [1..MaxAnswers -> {NoAnswer} \cup [gone: {TRUE}] \cup Stats']
    BY <1>0, <2>1
  <2> QED BY <1>1, <2>4, <2>5 DEF LiveOK
<1>2. view.shown \subseteq view.rows
  BY DEF LiveOK
<1>3. ASSUME UNCHANGED <<view, answers>>
      PROVE  LiveOK'
  BY <1>0, <1>1, <1>2, <1>3
<1>4. CASE Others
  BY <1>3, <1>4 DEF Others, TakeId, OtherChange, InsertRow, OtherPublishes
<1>5. ASSUME NEW i \in 1..MaxAnswers, PollStats(i)
      PROVE  LiveOK'
  <2> DEFINE a == IF deleted THEN [gone |-> TRUE] ELSE [rows |-> rows, shown |-> shown]
  <2>1. UNCHANGED view /\ answers' = [answers EXCEPT ![i] = a]
    BY <1>5 DEF PollStats, Ask
  <2>2. a \in [gone: {TRUE}] \cup Stats /\ (a \in Stats => a.shown \subseteq a.rows)
    <3>1. CASE deleted
      <4>1. a = [gone |-> TRUE] /\ DOMAIN a = {"gone"}
        BY <3>1
      <4>2. \A b \in Stats : DOMAIN b = {"rows", "shown"}
        BY DEF Stats
      <4> QED BY <4>1, <4>2
    <3>2. CASE ~deleted
      BY <3>2 DEF Stats, Shared
    <3> QED BY <3>1, <3>2
  <2> HIDE DEF a
  <2> QED BY <1>0, <1>1, <1>2, <2>1, <2>2
<1>6. ASSUME NEW i \in 1..MaxAnswers, HearStats(i)
      PROVE  LiveOK'
  <2>1. answers[i] # NoAnswer /\ answers' = [answers EXCEPT ![i] = NoAnswer]
    BY <1>6 DEF HearStats, Answered
  <2>2. /\ view' \in [rows: SUBSET rows', shown: SUBSET rows', stale: BOOLEAN]
        /\ view'.shown \subseteq view'.rows
    <3>1. CASE "gone" \in DOMAIN answers[i]
      BY <1>0, <1>2, <1>6, <3>1 DEF HearStats
    <3>2. CASE "gone" \notin DOMAIN answers[i]
      <4>1. answers[i] \notin [gone: {TRUE}]
        BY <3>2
      <4>2. answers[i] \in Stats /\ answers[i].shown \subseteq answers[i].rows
        BY <1>0, <2>1, <4>1 DEF LiveOK
      <4>3. view' = [rows |-> answers[i].rows, shown |-> answers[i].shown, stale |-> FALSE]
        BY <1>6, <3>2 DEF HearStats
      <4>4. answers[i].rows \in SUBSET rows' /\ answers[i].shown \in SUBSET rows'
        BY <1>0, <4>2 DEF Stats
      <4> QED BY <4>2, <4>3, <4>4
    <3> QED BY <3>1, <3>2
  <2> QED BY <1>1, <2>1, <2>2
<1>7. ASSUME NEW i \in 1..MaxAnswers, LosePoll(i)
      PROVE  LiveOK'
  <2>1. answers' = [answers EXCEPT ![i] = NoAnswer] /\ view' = [view EXCEPT !.stale = TRUE]
    BY <1>7 DEF LosePoll
  <2>2. /\ view' \in [rows: SUBSET rows', shown: SUBSET rows', stale: BOOLEAN]
        /\ view'.shown \subseteq view'.rows
    BY <1>0, <1>2, <2>1
  <2> QED BY <1>1, <2>1, <2>2
<1>8. ASSUME NEW i \in 1..2,
             Patched(i) \/ PatchFails(i) \/ HearPatch(i) \/ \E k \in Id : SetPublished(i, k)
      PROVE  LiveOK'
  BY <1>3, <1>8 DEF Patched, PatchFails, HearPatch, SetPublished
<1>9. CASE UNCHANGED vars
  BY <1>3, <1>9 DEF vars
<1>10. /\ \A i : ~PollGallery(i) /\ ~HearGallery(i)
       /\ \A k : ~RemoveMe(k) /\ ~Removed(k)
       /\ ~ReadPage /\ ~HearPage /\ ~LosePage /\ ~LoadMore
       /\ ~SendFile /\ ~PostFile /\ ~FileFails /\ ~CountFile
  BY DEF PollGallery, HearGallery, RemoveMe, Removed, ReadPage,
         HearPage, LosePage, LoadMore, SendFile, PostFile, FileFails, CountFile
<1> QED BY <1>4, <1>5, <1>6, <1>7, <1>8, <1>9, <1>10 DEF Next

(* The upload panel's counts.                                               *)
LEMMA UploadInductive ==
  ASSUME open = "upload", UploadOK, NoPatches, [Next]_vars
  PROVE  UploadOK' /\ NoPatches'
<1> USE DEF db
<1> DEFINE Panel == [pc: {"idle", "posted", "duplicate", "made", "failed"}, done: Nat,
                     duplicates: Nat, failed: Nat, made: Nat, skipped: Nat]
<1>0. view \in Panel /\ Counted
  BY DEF UploadOK
<1>1. ASSUME UNCHANGED <<view, patches>>
      PROVE  UploadOK' /\ NoPatches'
  BY <1>1 DEF UploadOK, Counted, NoPatches
<1>2. CASE Others
  BY <1>1, <1>2 DEF Others, TakeId, OtherChange, InsertRow, OtherPublishes
<1>3. ASSUME UNCHANGED patches, view' \in Panel, Counted'
      PROVE  UploadOK' /\ NoPatches'
  BY <1>3 DEF UploadOK, NoPatches
<1>4. CASE SendFile
  <2>1. UNCHANGED patches /\ view.pc = "idle" /\ view' = [view EXCEPT !.pc = "posted"]
    BY <1>4 DEF SendFile
  <2> QED BY <1>0, <1>3, <2>1 DEF Counted
<1>5. CASE PostFile
  <2>1. UNCHANGED patches /\ view.pc = "posted"
    BY <1>5 DEF PostFile
  <2>2. PICK skipped \in Nat : skipped = view.skipped + 1
    BY <1>0
  <2>3. PICK made \in Nat : made = view.made + 1
    BY <1>0
  <2>4. CASE view' = [view EXCEPT !.pc = "duplicate", !.skipped = skipped]
    BY <1>0, <1>3, <2>1, <2>4 DEF Counted
  <2>5. CASE view' = [view EXCEPT !.pc = "made", !.made = made]
    <3>1. view' \in Panel
      BY <1>0, <2>5
    <3>2. /\ view'.pc = "made" /\ view'.done = view.done /\ view'.duplicates = view.duplicates
          /\ view'.failed = view.failed /\ view'.made = made
      BY <1>0, <2>5
    <3>3. Counted'
      BY <1>0, <2>1, <2>3, <3>2 DEF Counted
    <3> QED BY <1>3, <2>1, <3>1, <3>3
  <2> QED BY <1>5, <2>2, <2>3, <2>4, <2>5 DEF PostFile
<1>6. CASE FileFails
  <2>1. /\ UNCHANGED patches /\ view.pc \in {"posted", "duplicate", "made"}
        /\ view' = [view EXCEPT !.pc = "failed"]
    BY <1>6 DEF FileFails
  <2> QED BY <1>0, <1>3, <2>1 DEF Counted
<1>7. CASE CountFile
  <2>1. /\ UNCHANGED patches /\ view.pc \in {"duplicate", "made", "failed"}
        /\ view' = [view EXCEPT !.pc = "idle", !.done = @ + 1,
                                !.duplicates = IF view.pc = "duplicate" THEN @ + 1 ELSE @,
                                !.failed = IF view.pc = "failed" THEN @ + 1 ELSE @]
    BY <1>7 DEF CountFile
  <2>2. PICK done \in Nat : done = view.done + 1
    BY <1>0
  <2>3. PICK duplicates \in Nat :
          duplicates = IF view.pc = "duplicate" THEN view.duplicates + 1 ELSE view.duplicates
    BY <1>0
  <2>4. PICK failed \in Nat : failed = IF view.pc = "failed" THEN view.failed + 1 ELSE view.failed
    BY <1>0
  <2>5. view' = [view EXCEPT !.pc = "idle", !.done = done, !.duplicates = duplicates,
                             !.failed = failed]
    BY <2>1, <2>2, <2>3, <2>4, Zenon
  <2>6. /\ view' \in Panel /\ view'.pc = "idle" /\ view'.done = done
        /\ view'.duplicates = duplicates /\ view'.failed = failed /\ view'.made = view.made
    BY <1>0, <2>5
  <2>7. Counted'
    BY <1>0, <2>1, <2>2, <2>3, <2>4, <2>6 DEF Counted
  <2> QED BY <1>3, <2>1, <2>6, <2>7
<1>8. CASE UNCHANGED vars
  BY <1>1, <1>8 DEF vars
<1>9. /\ \A i : ~PollGallery(i) /\ ~HearGallery(i) /\ ~PollStats(i) /\ ~HearStats(i) /\ ~LosePoll(i)
      /\ \A k : ~RemoveMe(k) /\ ~Removed(k)
      /\ \A i \in 1..2 : ~Patched(i) /\ ~PatchFails(i) /\ ~HearPatch(i) /\ \A k : ~SetPublished(i, k)
      /\ ~ReadPage /\ ~HearPage /\ ~LosePage /\ ~LoadMore
  BY DEF NoPatches, PollGallery, HearGallery, PollStats, HearStats, LosePoll, RemoveMe, Removed,
         Patched, PatchFails, HearPatch, SetPublished, ReadPage, HearPage, LosePage, LoadMore
<1> QED BY <1>2, <1>4, <1>5, <1>6, <1>7, <1>8, <1>9 DEF Next

(* One page after the other, all of it below what is listed.                *)
LEMMA PageAfterPage ==
  ASSUME NEW S \in SUBSET Nat, NEW s \in Seq(S), NEW t \in Seq(S)
  PROVE  /\ s \o t \in Seq(S) /\ ToSet(s \o t) = ToSet(s) \cup ToSet(t)
         /\ Descending(s) /\ Descending(t) /\ (\A k \in ToSet(s), j \in ToSet(t) : j < k)
              => Descending(s \o t)
<1> DEFINE u == s \o t
<1>1. /\ Len(s) \in Nat /\ Len(t) \in Nat /\ u \in Seq(S) /\ Len(u) = Len(s) + Len(t)
      /\ s \in [1..Len(s) -> S] /\ t \in [1..Len(t) -> S]
  OBVIOUS
<1>2. \A i \in 1..Len(s) : i \in 1..Len(u) /\ u[i] = s[i]
  BY <1>1
<1>3. \A i \in 1..Len(t) : i + Len(s) \in 1..Len(u) /\ u[i + Len(s)] = t[i]
  BY <1>1
<1>4. \A i \in 1..Len(u) : i \in 1..Len(s) \/ \E j \in 1..Len(t) : i = j + Len(s)
  <2> SUFFICES ASSUME NEW i \in 1..Len(u), i \notin 1..Len(s)
               PROVE  \E j \in 1..Len(t) : i = j + Len(s)
    OBVIOUS
  <2>1. i - Len(s) \in 1..Len(t) /\ i = (i - Len(s)) + Len(s)
    BY <1>1
  <2> QED BY <2>1
<1> HIDE DEF u
<1>5. /\ ToSet(s) = {s[i] : i \in 1..Len(s)} /\ ToSet(t) = {t[i] : i \in 1..Len(t)}
      /\ ToSet(u) = {u[i] : i \in 1..Len(u)}
  BY <1>1, Listing
<1>6. ToSet(u) = ToSet(s) \cup ToSet(t)
  <2>1. ASSUME NEW k \in ToSet(u)
        PROVE  k \in ToSet(s) \cup ToSet(t)
    <3>1. PICK i \in 1..Len(u) : k = u[i]
      BY <1>5
    <3> QED BY <1>2, <1>3, <1>4, <1>5, <3>1
  <2>2. ASSUME NEW k \in ToSet(s)
        PROVE  k \in ToSet(u)
    BY <1>2, <1>5
  <2>3. ASSUME NEW k \in ToSet(t)
        PROVE  k \in ToSet(u)
    <3>1. PICK i \in 1..Len(t) : k = t[i]
      BY <1>5
    <3>2. i + Len(s) \in 1..Len(u) /\ u[i + Len(s)] = k
      BY <1>3, <3>1
    <3> QED BY <1>5, <3>2
  <2> QED BY <2>1, <2>2, <2>3
<1>7. ASSUME Descending(s), Descending(t), \A k \in ToSet(s), j \in ToSet(t) : j < k
      PROVE  Descending(u)
  <2> SUFFICES ASSUME NEW i \in 1..Len(u), NEW j \in 1..Len(u), i < j
               PROVE  u[i] > u[j]
    BY DEF Descending
  <2>1. CASE i \in 1..Len(s) /\ j \in 1..Len(s)
    BY <1>2, <1>7, <2>1 DEF Descending
  <2>2. CASE i \in 1..Len(s) /\ j \notin 1..Len(s)
    <3>1. PICK m \in 1..Len(t) : j = m + Len(s)
      BY <1>4, <2>2
    <3>2. u[i] \in ToSet(s) /\ u[j] \in ToSet(t)
      BY <1>2, <1>3, <1>5, <2>2, <3>1
    <3>3. u[j] < u[i]
      BY <1>7, <3>2
    <3>4. u[i] \in Nat /\ u[j] \in Nat
      BY <3>2, Listing
    <3> QED BY <3>3, <3>4
  <2>3. CASE i \notin 1..Len(s)
    <3>1. PICK l \in 1..Len(t) : i = l + Len(s)
      BY <1>4, <2>3
    <3>2. j \notin 1..Len(s)
      BY <1>1, <3>1
    <3>3. PICK m \in 1..Len(t) : j = m + Len(s)
      BY <1>4, <3>2
    <3>4. l < m
      <4>1. l + Len(s) < m + Len(s)
        BY <3>1, <3>3
      <4>2. \A n, x, y \in Nat : x + n < y + n => x < y
        OBVIOUS
      <4>3. l \in Nat /\ m \in Nat /\ Len(s) \in Nat
        BY <1>1
      <4> QED BY <4>1, <4>2, <4>3
    <3>5. t[l] > t[m]
      BY <1>7, <3>4 DEF Descending
    <3> QED BY <1>3, <3>1, <3>3, <3>5
  <2> QED BY <2>1, <2>2, <2>3
<1> QED BY <1>1, <1>6, <1>7 DEF u

(* A page on its way lists none of the photos that are listed already.      *)
LEMMA NothingTwice ==
  ASSUME Shared, ArchiveOK, answers[1] # NoAnswer
  PROVE  /\ answers[1] \in FoundPage /\ Continues(answers[1])
         /\ \A k \in ToSet(view.list), j \in ToSet(answers[1].list) :
              j < k /\ j # k /\ (view.cursor # 0 => j < view.cursor /\ view.cursor <= k)
<1> DEFINE a == answers[1]
<1>1. 1 \in 1..MaxAnswers
  BY BoundsAssumption
<1>2. a \in FoundPage /\ Continues(a)
  BY <1>1 DEF ArchiveOK
<1>3. rows \in SUBSET Nat
  BY PhotosAreFinite DEF Shared
<1>4. ToSet(view.list) \subseteq Nat /\ ToSet(a.list) \subseteq Nat /\ view.cursor \in Nat
  <2>1. view.list \in Seq(rows) /\ a.list \in Seq(rows) /\ view.cursor \in Nat
    BY <1>2 DEF ArchiveOK, ArchiveView, FoundPage
  <2> HIDE DEF a
  <2> QED BY <1>3, <2>1, Listing
<1>5. ASSUME view.cursor = 0
      PROVE  ToSet(view.list) = {}
  <2>1. view.list = <<>>
    BY <1>2, <1>5 DEF ArchiveOK, Continues
  <2>2. ToSet(<< >>) = {}
    BY DEF ToSet
  <2> QED BY <2>1, <2>2
<1>6. ASSUME view.cursor # 0, NEW k \in ToSet(view.list), NEW j \in ToSet(a.list)
      PROVE  j < view.cursor /\ view.cursor <= k /\ j < k /\ j # k
  <2>1. j < view.cursor /\ view.cursor <= k
    BY <1>2, <1>6 DEF ArchiveOK, Continues, Ends
  <2>2. j \in Nat /\ k \in Nat /\ view.cursor \in Nat
    BY <1>4
  <2> QED BY <2>1, <2>2
<1> QED BY <1>2, <1>5, <1>6

(* The archive's list, over whatever a step does.                           *)
LEMMA ArchiveInductive ==
  ASSUME open = "archive", Shared, rows \subseteq rows', ArchiveOK, FlagsOK, [Next]_vars
  PROVE  ArchiveOK'
<1> USE DEF db
<1>0. /\ view \in ArchiveView /\ view \in ArchiveView'
      /\ answers \in [1..MaxAnswers -> {NoAnswer} \cup FoundPage]
      /\ FoundPage \subseteq FoundPage' /\ 1 \in 1..MaxAnswers
  <2>1. Seq(rows) \subseteq Seq(rows')
    BY Listing
  <2>2. ArchiveView \subseteq ArchiveView' /\ FoundPage \subseteq FoundPage'
    BY <2>1 DEF ArchiveView, FoundPage
  <2> QED BY <2>2, BoundsAssumption DEF ArchiveOK
<1>1. ASSUME UNCHANGED <<view, answers>>
      PROVE  ArchiveOK'
  <2>1. answers' \in [1..MaxAnswers -> {NoAnswer} \cup FoundPage']
    BY <1>0, <1>1
  <2>2. (answers[1] # NoAnswer => Continues(answers[1]))'
    BY <1>1 DEF ArchiveOK, Continues
  <2> QED BY <1>0, <1>1, <2>1, <2>2 DEF ArchiveOK
<1>2. ASSUME view' \in ArchiveView', UNCHANGED answers, view'.flags \subseteq ToSet(view.list),
             view'.list = view.list, view'.cursor = view.cursor, view'.base = view.base,
             view'.read = view.read,
             \/ view'.loading = view.loading
             \/ answers[1] = NoAnswer /\ (view'.loading /\ view.cursor = 0 => ~view.read)
      PROVE  ArchiveOK'
  <2>1. answers' \in [1..MaxAnswers -> {NoAnswer} \cup FoundPage']
    BY <1>0, <1>2
  <2>2. (answers[1] # NoAnswer => Continues(answers[1]))'
    BY <1>2 DEF ArchiveOK, Continues
  <2> QED BY <1>0, <1>2, <2>1, <2>2 DEF ArchiveOK
<1>3. CASE Others
  BY <1>1, <1>3 DEF Others, TakeId, OtherChange, InsertRow, OtherPublishes
<1>4. ASSUME NEW i \in 1..2, Patched(i) \/ PatchFails(i) \/ \E k \in Id : SetPublished(i, k)
      PROVE  ArchiveOK'
  BY <1>1, <1>4 DEF Patched, PatchFails, SetPublished
<1>5. ASSUME NEW i \in 1..2, HearPatch(i)
      PROVE  ArchiveOK'
  <2> DEFINE k == patches[i].id
  <2>1. k \in ToSet(view.list)
    BY <1>5 DEF HearPatch, FlagsOK
  <2>2. PICK f \in {view.flags \cup {k}, view.flags \ {k}} : view' = [view EXCEPT !.flags = f]
    BY <1>5 DEF HearPatch
  <2>3. k \in rows' /\ UNCHANGED answers
    BY <1>0, <1>5, <2>1, Listing DEF HearPatch, ArchiveView
  <2>4. f \subseteq ToSet(view.list) /\ f \subseteq rows'
    BY <1>0, <2>1, <2>3 DEF ArchiveOK, ArchiveView
  <2> HIDE DEF k
  <2>5. view' \in ArchiveView' /\ view'.flags \subseteq ToSet(view.list)
        /\ view'.list = view.list /\ view'.cursor = view.cursor /\ view'.base = view.base
        /\ view'.read = view.read /\ view'.loading = view.loading
    BY <1>0, <2>2, <2>4 DEF ArchiveView
  <2> QED BY <1>2, <2>3, <2>5
<1>6. CASE ReadPage
  <2> DEFINE found == ListEventPhotos(view.cursor)
             base == IF view.cursor = 0 THEN rows ELSE view.base
             a == [list |-> found.page, next |-> found.next,
                   flags |-> ToSet(found.page) \cap shown, base |-> base]
  <2>1. UNCHANGED view /\ view.loading /\ answers' = [answers EXCEPT ![1] = a]
    BY <1>6 DEF ReadPage, Ask
  <2>2. /\ found.page \in Seq(rows) /\ found.next \in Nat
        /\ Descending(found.page) /\ Ends(found.page, found.next)
        /\ view.cursor # 0 => \A k \in ToSet(found.page) : k < view.cursor
        /\ Left(found.page, found.next, {k \in rows : view.cursor = 0 \/ k < view.cursor})
    <3>1. view.cursor \in Nat
      BY <1>0 DEF ArchiveView
    <3> QED BY <3>1, PageIsSound DEF Shared
  <2>3. base \subseteq rows /\ (view.read => base = view.base)
    BY <1>0, <2>1 DEF ArchiveOK, ArchiveView
  <2> HIDE DEF found, base
  <2>4. a.list = found.page /\ a.next = found.next /\ a.base = base
        /\ a.flags = ToSet(found.page) \cap shown
    OBVIOUS
  <2>5. a \in FoundPage
    BY <2>2, <2>3 DEF FoundPage, Shared
  <2>6. Continues(a)
    <3> HIDE DEF a
    <3>1. Left(a.list, a.next, {k \in a.base : view.cursor = 0 \/ k < view.cursor})
      BY <2>2, <2>3, <2>4 DEF Left
    <3> QED BY <2>1, <2>2, <2>3, <2>4, <3>1 DEF Continues
  <2>7. PICK b \in FoundPage : b = a
    BY <2>5
  <2> HIDE DEF a
  <2>8. Continues(b)'
    BY <2>1, <2>6, <2>7 DEF Continues
  <2>9. answers' \in [1..MaxAnswers -> {NoAnswer} \cup FoundPage'] /\ answers'[1] = b
    BY <1>0, <2>1, <2>5, <2>7
  <2>10. Continues(answers[1])'
    BY <2>8, <2>9 DEF Continues
  <2> QED BY <1>0, <2>1, <2>9, <2>10 DEF ArchiveOK
<1>7. CASE HearPage
  <2> DEFINE a == answers[1]
             u == view.list \o a.list
  <2>1. /\ a # NoAnswer /\ answers' = [answers EXCEPT ![1] = NoAnswer]
        /\ view' = [list |-> u, flags |-> view.flags \cup a.flags,
                    cursor |-> a.next, loaded |-> TRUE, loading |-> FALSE, base |-> a.base,
                    read |-> TRUE]
    BY <1>7 DEF HearPage, Answered
  <2>2. /\ a \in FoundPage /\ Continues(a)
        /\ \A k \in ToSet(view.list), j \in ToSet(a.list) :
             j < k /\ (view.cursor # 0 => j < view.cursor /\ view.cursor <= k)
    BY <2>1, NothingTwice
  <2> HIDE DEF a
  <2>3. /\ view.list \in Seq(rows) /\ a.list \in Seq(rows) /\ view.cursor \in Nat /\ a.next \in Nat
        /\ view.flags \subseteq rows /\ a.flags \subseteq rows /\ a.base \subseteq rows
    BY <1>0, <2>2 DEF ArchiveView, FoundPage
  <2>4. rows \in SUBSET Nat
    BY PhotosAreFinite DEF Shared
  <2>5. ToSet(view.list) \subseteq Nat /\ ToSet(a.list) \subseteq Nat
    BY <2>3, <2>4, Listing
  <2>6. /\ Descending(view.list) /\ Ends(view.list, view.cursor)
        /\ view.flags \subseteq ToSet(view.list)
        /\ ~view.read => view.list = <<>> /\ view.cursor = 0
        /\ view.read => Left(view.list, view.cursor, view.base)
        /\ view.cursor = 0 => ~view.read
    BY <2>2 DEF ArchiveOK, Continues
  <2>7. /\ Descending(a.list) /\ Ends(a.list, a.next) /\ a.flags \subseteq ToSet(a.list)
        /\ Left(a.list, a.next, {k \in a.base : view.cursor = 0 \/ k < view.cursor})
        /\ view.read => a.base = view.base
    BY <2>2 DEF Continues
  <2>8. u \in Seq(rows) /\ ToSet(u) = ToSet(view.list) \cup ToSet(a.list) /\ Descending(u)
    BY <2>2, <2>3, <2>4, <2>6, <2>7, PageAfterPage
  <2> HIDE DEF u
  <2>9. Ends(u, a.next)
    <3> SUFFICES ASSUME a.next # 0, NEW k \in ToSet(view.list)
                 PROVE  a.next <= k
      BY <2>7, <2>8 DEF Ends
    <3>1. a.next \in ToSet(a.list)
      BY <2>7 DEF Ends
    <3>2. a.next < k /\ a.next \in Nat /\ k \in Nat
      BY <2>2, <2>5, <3>1
    <3> QED BY <3>2
  <2>10. Left(u, a.next, a.base)
    <3> SUFFICES ASSUME NEW k \in a.base
                 PROVE  k \in ToSet(u) \/ (a.next # 0 /\ k < a.next)
      BY DEF Left
    <3>1. CASE view.cursor = 0 \/ k < view.cursor
      BY <2>7, <2>8, <3>1 DEF Left
    <3>2. CASE view.cursor # 0 /\ ~(k < view.cursor)
      BY <2>6, <2>7, <2>8, <3>2 DEF Left
    <3> QED BY <3>1, <3>2
  <2>11. answers' \in [1..MaxAnswers -> {NoAnswer} \cup FoundPage'] /\ answers'[1] = NoAnswer
    BY <1>0, <2>1
  <2>12. /\ view'.list = u /\ view'.cursor = a.next /\ view'.flags = view.flags \cup a.flags
         /\ view'.base = a.base /\ view'.read /\ ~view'.loading
    BY <2>1
  <2>13. u \in Seq(rows') /\ view'.flags \subseteq rows' /\ a.base \subseteq rows'
    BY <2>3, <2>8, <2>12, Listing
  <2>14. view' \in ArchiveView'
    BY <2>1, <2>3, <2>13 DEF ArchiveView
  <2>15. view'.flags \subseteq ToSet(u)
    BY <2>6, <2>7, <2>8, <2>12
  <2> QED BY <2>8, <2>9, <2>10, <2>11, <2>12, <2>14, <2>15 DEF ArchiveOK
<1>8. CASE LosePage
  <2>1. /\ UNCHANGED answers /\ answers[1] = NoAnswer
        /\ view' = [view EXCEPT !.loaded = TRUE, !.loading = FALSE]
    BY <1>8 DEF LosePage
  <2> QED BY <1>0, <1>2, <2>1 DEF ArchiveView, ArchiveOK
<1>9. CASE LoadMore
  <2>1. /\ UNCHANGED answers /\ view' = [view EXCEPT !.loading = TRUE]
        /\ view.cursor # 0 /\ ~view.loading
    BY <1>9 DEF LoadMore
  <2>2. answers[1] = NoAnswer
    BY <2>1 DEF ArchiveOK, Continues
  <2> QED BY <1>0, <1>2, <2>1, <2>2 DEF ArchiveView, ArchiveOK
<1>10. CASE UNCHANGED vars
  BY <1>1, <1>10 DEF vars
<1>11. /\ \A i : ~PollGallery(i) /\ ~HearGallery(i) /\ ~PollStats(i) /\ ~HearStats(i) /\ ~LosePoll(i)
       /\ \A k : ~RemoveMe(k) /\ ~Removed(k)
       /\ ~SendFile /\ ~PostFile /\ ~FileFails /\ ~CountFile
  BY DEF PollGallery, HearGallery, PollStats, HearStats, LosePoll, RemoveMe, Removed,
         SendFile, PostFile, FileFails, CountFile
<1> QED
  BY <1>3, <1>4, <1>5, <1>6, <1>7, <1>8, <1>9, <1>10, <1>11 DEF Next

(* A step that is about one photo leaves what the flags of the others say.  *)
LEMMA TheOthersFollow ==
  ASSUME FlagsOK, NEW k, answers' = answers, view'.list = view.list,
         disturbed \subseteq disturbed',
         \A i \in 1..2 : patches'[i].pc # "none" => patches'[i].id \in ToSet(view.list),
         \A l : l # k => /\ l \in shown' <=> l \in shown
                         /\ l \in view'.flags <=> l \in view.flags,
         \A i \in 1..2 : \/ patches'[i] = patches[i]
                         \/ /\ patches'[i].pc # "none" => patches'[i].id = k
                            /\ patches[i].pc # "none" => patches[i].id = k,
         k \in ToSet(view.list) \ disturbed' => Undisputed(k)',
         answers[1] # NoAnswer /\ k \in ToSet(answers[1].list) \ disturbed'
           => (k \in shown' <=> k \in shown)
  PROVE  FlagsOK'
<1>1. ASSUME NEW l \in ToSet(view.list) \ disturbed', l # k
      PROVE  Undisputed(l)'
  <2>1. Undisputed(l)
    BY <1>1 DEF FlagsOK
  <2>2. \A i \in 1..2 : /\ Patching(i, l)' <=> Patching(i, l)
                        /\ Patching(i, l) => patches'[i] = patches[i]
    BY <1>1 DEF Patching
  <2>3. (l \in shown' <=> l \in shown) /\ (l \in view'.flags <=> l \in view.flags)
    BY <1>1
  <2>4. \A i, j \in 1..2 : Patching(i, l)' /\ Patching(j, l)' => patches'[i].to = patches'[j].to
    BY <2>1, <2>2 DEF Undisputed
  <2>5. \A i \in 1..2 : Patching(i, l)' /\ patches'[i].pc = "answered"
                        => (l \in shown' <=> patches'[i].to)
    BY <2>1, <2>2, <2>3 DEF Undisputed
  <2>6. (\A i \in 1..2 : Patching(i, l)' => patches'[i].pc = "sent")
          => (l \in view'.flags <=> l \in shown')
    BY <2>1, <2>2, <2>3 DEF Undisputed
  <2> QED BY <2>4, <2>5, <2>6 DEF Undisputed
<1>2. \A l \in ToSet(view'.list) \ disturbed' : Undisputed(l)'
  BY <1>1
<1>3. answers[1] # NoAnswer
        => \A l \in ToSet(answers[1].list) \ disturbed' : l \in answers[1].flags <=> l \in shown'
  BY DEF FlagsOK
<1> QED BY <1>2, <1>3 DEF FlagsOK

(* The archive's flags, over whatever a step does.                          *)
LEMMA FlagsInductive ==
  ASSUME open = "archive", Shared, ArchiveOK, FlagsOK, [Next]_vars
  PROVE  FlagsOK'
<1> USE DEF db
<1>0. /\ ToSet(view.list) \subseteq rows
      /\ answers[1] # NoAnswer => ToSet(answers[1].list) \subseteq rows
  <2>1. view.list \in Seq(rows)
    BY DEF ArchiveOK, ArchiveView
  <2>2. answers[1] # NoAnswer => answers[1].list \in Seq(rows)
    BY NothingTwice DEF FoundPage
  <2> QED BY <2>1, <2>2, Listing
<1>1. ASSUME UNCHANGED <<answers, patches, shown, disturbed>>,
             view'.list = view.list, view'.flags = view.flags
      PROVE  FlagsOK'
  BY <1>1 DEF FlagsOK, Undisputed, Patching
<1>2. CASE TakeId \/ OtherChange
  BY <1>1, <1>2 DEF TakeId, OtherChange
<1>3. ASSUME NEW k \in Id, InsertRow(k) \/ OtherPublishes(k)
      PROVE  FlagsOK'
  <2>1. /\ UNCHANGED <<answers, patches, view>> /\ disturbed \subseteq disturbed'
        /\ \A l : l # k => (l \in shown' <=> l \in shown)
        /\ k \notin rows \/ k \in disturbed'
    BY <1>3 DEF InsertRow, OtherPublishes
  <2>2. \A i \in 1..2 : patches[i].pc # "none" => patches[i].id \in ToSet(view.list)
    BY DEF FlagsOK
  <2>3. /\ k \in ToSet(view.list) \ disturbed' => FALSE
        /\ answers[1] # NoAnswer /\ k \in ToSet(answers[1].list) \ disturbed' => FALSE
    BY <1>0, <2>1
  <2>4. \A i \in 1..2 : patches'[i] = patches[i]
    BY <2>1
  <2> QED BY <2>1, <2>2, <2>3, <2>4, TheOthersFollow
<1>4. ASSUME NEW i \in 1..2, NEW k \in Id, SetPublished(i, k)
      PROVE  FlagsOK'
  <2> DEFINE to == k \notin view.flags
             p == [id |-> k, to |-> to, pc |-> "sent"]
  <2>1. /\ UNCHANGED <<answers, view, shown>> /\ k \in ToSet(view.list)
        /\ patches[i].pc = "none" /\ patches' = [patches EXCEPT ![i] = p]
        /\ disturbed' = IF Crossing(i, k, to) THEN disturbed \cup {k} ELSE disturbed
    BY <1>4 DEF SetPublished
  <2>2. p.id = k /\ p.to = to /\ p.pc = "sent"
    OBVIOUS
  <2> HIDE DEF p
  <2>3. patches'[i] = p /\ \A j \in 1..2 \ {i} : patches'[j] = patches[j]
    BY <2>1 DEF Shared
  <2>4. ASSUME k \notin disturbed'
        PROVE  Undisputed(k)'
    <3>1. k \notin disturbed /\ ~Crossing(i, k, to)
      BY <2>1, <2>4
    <3>2. Undisputed(k)
      BY <2>1, <3>1 DEF FlagsOK
    <3>3. \A j \in 1..2 \ {i} : Patching(j, k) => patches[j].to = to
      BY <3>1 DEF Crossing, Patching
    <3>4. /\ \A j \in 1..2 \ {i} : Patching(j, k)' <=> Patching(j, k)
          /\ ~Patching(i, k)
      BY <2>1, <2>3 DEF Patching
    <3>5. \A j \in 1..2 : Patching(j, k)' => patches'[j].to = to
      BY <2>2, <2>3, <3>3, <3>4
    <3>6. \A j, l \in 1..2 : Patching(j, k)' /\ Patching(l, k)' => patches'[j].to = patches'[l].to
      BY <3>5
    <3>7. \A j \in 1..2 : Patching(j, k)' /\ patches'[j].pc = "answered"
                          => (k \in shown' <=> patches'[j].to)
      BY <2>1, <2>2, <2>3, <3>2, <3>4 DEF Undisputed
    <3>8. (\A j \in 1..2 : Patching(j, k)' => patches'[j].pc = "sent")
            => (k \in view'.flags <=> k \in shown')
      BY <2>1, <2>3, <3>2, <3>4 DEF Undisputed
    <3> QED BY <3>6, <3>7, <3>8 DEF Undisputed
  <2>5. disturbed \subseteq disturbed'
    BY <2>1
  <2>6. \A j \in 1..2 : patches'[j].pc # "none" => patches'[j].id \in ToSet(view.list)
    BY <2>1, <2>2, <2>3 DEF FlagsOK
  <2>7. \A j \in 1..2 : \/ patches'[j] = patches[j]
                        \/ /\ patches'[j].pc # "none" => patches'[j].id = k
                           /\ patches[j].pc # "none" => patches[j].id = k
    BY <2>1, <2>2, <2>3
  <2> HIDE DEF to
  <2> QED BY <2>1, <2>4, <2>5, <2>6, <2>7, TheOthersFollow
<1>5. ASSUME NEW i \in 1..2, Patched(i) \/ PatchFails(i) \/ HearPatch(i)
      PROVE  FlagsOK'
  <2> DEFINE k == patches[i].id
  <2>0. PICK l : l = k
    OBVIOUS
  <2>1. /\ patches[i].pc # "none" /\ l \in ToSet(view.list) /\ UNCHANGED answers
        /\ view'.list = view.list
    BY <1>5, <2>0 DEF Patched, PatchFails, HearPatch, FlagsOK, ArchiveOK, ArchiveView
  <2>2. /\ \A j \in 1..2 \ {i} : patches'[j] = patches[j]
        /\ patches'[i].pc # "none" => patches'[i] = [patches[i] EXCEPT !.pc = "answered"]
    BY <1>5 DEF Patched, PatchFails, HearPatch, Shared, NoPatch
  <2>3. /\ patches'[i].pc # "none"
             => patches'[i].id = l /\ patches'[i].to = patches[i].to /\ patches'[i].pc = "answered"
    BY <2>0, <2>2 DEF Shared, PatchState
  <2> HIDE DEF k
  <2>4. /\ disturbed \subseteq disturbed'
        /\ \A m : m # l => /\ m \in shown' <=> m \in shown
                           /\ m \in view'.flags <=> m \in view.flags
    BY <1>5, <2>0, SMTT(30) DEF Patched, PatchFails, HearPatch, k, ArchiveOK, ArchiveView
  <2>5. ASSUME l \notin disturbed'
        PROVE  Undisputed(l)'
    <3>1. Undisputed(l) /\ Patching(i, l)
      BY <2>0, <2>1, <2>4, <2>5 DEF FlagsOK, Patching, k
    <3>2. /\ \A j \in 1..2 \ {i} : Patching(j, l)' <=> Patching(j, l)
          /\ \A j \in 1..2 : Patching(j, l) => patches[j].to = patches[i].to
      BY <2>2, <3>1 DEF Patching, Undisputed
    <3>3. \A j \in 1..2 : Patching(j, l)' => patches'[j].to = patches[i].to
      BY <2>2, <2>3, <3>2 DEF Patching
    <3>4. CASE Patched(i)
      <4>1. /\ patches'[i].pc = "answered" /\ (l \in shown' <=> patches[i].to)
            /\ patches'[i].id = l
        BY <2>0, <2>3, <3>4 DEF Patched, k, Shared, PatchState
      <4>2. Patching(i, l)'
        BY <4>1 DEF Patching
      <4> QED BY <3>3, <4>1, <4>2 DEF Undisputed
    <3>5. CASE PatchFails(i)
      BY <2>0, <2>5, <3>5 DEF PatchFails, k
    <3>6. CASE HearPatch(i)
      <4>1. shown' = shown /\ (l \in shown <=> patches[i].to) /\ patches'[i].pc = "none"
        BY <3>1, <3>6 DEF HearPatch, Undisputed, Shared, NoPatch
      <4>2. l \in view'.flags <=> patches[i].to
        <5>1. view' = [view EXCEPT !.flags = IF patches[i].to THEN @ \cup {l} ELSE @ \ {l}]
          BY <2>0, <3>6 DEF HearPatch, k
        <5> QED BY <5>1 DEF ArchiveOK, ArchiveView
      <4>3. ~Patching(i, l)'
        BY <4>1 DEF Patching
      <4>4. \A j \in 1..2 : Patching(j, l)' => patches'[j] = patches[j] /\ Patching(j, l)
        BY <2>2, <3>2, <4>3
      <4>5. \A j \in 1..2 : Patching(j, l)' /\ patches'[j].pc = "answered"
              => (l \in shown' <=> patches'[j].to)
        BY <3>1, <4>1, <4>4 DEF Undisputed
      <4>6. \A j, m \in 1..2 : Patching(j, l)' /\ Patching(m, l)' => patches'[j].to = patches'[m].to
        BY <3>3
      <4> QED BY <4>1, <4>2, <4>5, <4>6 DEF Undisputed
    <3> QED BY <1>5, <3>4, <3>5, <3>6
  <2>6. \A j \in 1..2 : patches'[j].pc # "none" => patches'[j].id \in ToSet(view.list)
    BY <2>1, <2>2, <2>3 DEF FlagsOK
  <2>7. \A j \in 1..2 : \/ patches'[j] = patches[j]
                        \/ /\ patches'[j].pc # "none" => patches'[j].id = l
                           /\ patches[j].pc # "none" => patches[j].id = l
    BY <2>0, <2>2, <2>3 DEF k
  <2>8. answers[1] # NoAnswer => l \notin ToSet(answers[1].list)
    BY <2>1, NothingTwice
  <2> QED BY <2>1, <2>4, <2>5, <2>6, <2>7, <2>8, TheOthersFollow
<1>6. CASE ReadPage
  <2> DEFINE found == ListEventPhotos(view.cursor)
  <2>1. UNCHANGED <<view, shown, patches, disturbed>>
    BY <1>6 DEF ReadPage, Ask
  <2>2. answers'[1].list = found.page /\ answers'[1].flags = ToSet(found.page) \cap shown
    <3>1. answers \in [1..MaxAnswers -> {NoAnswer} \cup FoundPage] /\ 1 \in 1..MaxAnswers
      BY BoundsAssumption DEF ArchiveOK
    <3> HIDE DEF found
    <3> QED BY <1>6, <3>1 DEF ReadPage, Ask, found
  <2> HIDE DEF found
  <2>3. \A k \in ToSet(answers'[1].list) : k \in answers'[1].flags <=> k \in shown'
    BY <2>1, <2>2
  <2>4. \A k \in ToSet(view.list) \ disturbed : Undisputed(k)'
    BY <2>1 DEF FlagsOK, Undisputed, Patching
  <2> QED BY <2>1, <2>3, <2>4 DEF FlagsOK
<1>7. CASE HearPage
  <2> DEFINE a == answers[1]
  <2>1. /\ a # NoAnswer /\ UNCHANGED <<shown, patches, disturbed>>
        /\ view'.list = view.list \o a.list /\ view'.flags = view.flags \cup a.flags
        /\ answers' = [answers EXCEPT ![1] = NoAnswer]
    BY <1>7 DEF HearPage, Answered
  <2>2. /\ a \in FoundPage /\ Continues(a)
        /\ \A k \in ToSet(view.list), j \in ToSet(a.list) : j # k
    BY <2>1, NothingTwice
  <2>3. answers'[1] = NoAnswer
    BY <2>1, BoundsAssumption DEF ArchiveOK
  <2>4. \A k \in ToSet(a.list) \ disturbed : k \in a.flags <=> k \in shown
    BY <2>1 DEF FlagsOK
  <2> HIDE DEF a
  <2>5. ToSet(view'.list) = ToSet(view.list) \cup ToSet(a.list)
    <3>1. view.list \in Seq(rows) /\ a.list \in Seq(rows)
      BY <2>2 DEF ArchiveOK, ArchiveView, FoundPage
    <3>2. rows \in SUBSET Nat
      BY PhotosAreFinite DEF Shared
    <3> QED BY <2>1, <3>1, <3>2, PageAfterPage
  <2>6. a.flags \subseteq ToSet(a.list) /\ view.flags \subseteq ToSet(view.list)
    BY <2>2 DEF Continues, ArchiveOK
  <2>7. ASSUME NEW k \in ToSet(view.list) \ disturbed
        PROVE  Undisputed(k)'
    <3>1. k \in view'.flags <=> k \in view.flags
      BY <2>1, <2>2, <2>6
    <3> QED BY <2>1, <3>1 DEF FlagsOK, Undisputed, Patching
  <2>8. ASSUME NEW k \in ToSet(a.list) \ disturbed
        PROVE  Undisputed(k)'
    <3>1. k \in view'.flags <=> k \in shown'
      BY <2>1, <2>2, <2>4, <2>6
    <3>2. \A i \in 1..2 : ~Patching(i, k)
      BY <2>2 DEF FlagsOK, Patching
    <3>3. \A i \in 1..2 : ~Patching(i, k)'
      BY <2>1, <3>2 DEF Patching
    <3> QED BY <3>1, <3>3 DEF Undisputed
  <2>9. \A k \in ToSet(view'.list) \ disturbed : Undisputed(k)'
    BY <2>5, <2>7, <2>8
  <2>10. \A i \in 1..2 : patches[i].pc # "none" => patches[i].id \in ToSet(view'.list)
    BY <2>5 DEF FlagsOK
  <2> QED BY <2>1, <2>3, <2>9, <2>10 DEF FlagsOK
<1>8. CASE LosePage \/ LoadMore
  <2>1. /\ UNCHANGED <<answers, patches, shown, disturbed>>
        /\ view'.list = view.list /\ view'.flags = view.flags
    BY <1>8 DEF LosePage, LoadMore, ArchiveOK, ArchiveView
  <2> QED BY <1>1, <2>1
<1>9. CASE UNCHANGED vars
  BY <1>1, <1>9 DEF vars
<1>10. /\ \A i : ~PollGallery(i) /\ ~HearGallery(i) /\ ~PollStats(i) /\ ~HearStats(i) /\ ~LosePoll(i)
       /\ \A k : ~RemoveMe(k) /\ ~Removed(k)
       /\ ~SendFile /\ ~PostFile /\ ~FileFails /\ ~CountFile
  BY DEF PollGallery, HearGallery, PollStats, HearStats, LosePoll, RemoveMe, Removed,
         SendFile, PostFile, FileFails, CountFile
<1> QED
  BY <1>2, <1>3, <1>4, <1>5, <1>6, <1>7, <1>8, <1>9, <1>10 DEF Next, Others

--------------------------------------------------------------------------------
(* The theorems.                                                            *)
IInv == Shared /\ PageInv

(* The page before its first answer.                                        *)
LEMMA InitialPage ==
  ASSUME Init
  PROVE  IInv
<1>1. Shared
  <2>1. NoPatch \in PatchState /\ NoPatch.pc = "none"
    BY BoundsAssumption DEF NoPatch, PatchState
  <2>2. patches \in [1..2 -> PatchState] /\ \A i \in 1..2 : patches[i].pc = "none"
    BY <2>1 DEF Init
  <2>3. 0 \in 0..MaxPhoto /\ 0 \in 0..MaxChanges /\ 0 \in 0..MaxLost
    BY BoundsAssumption
  <2> QED BY <2>2, <2>3 DEF Init, Shared
<1>2. /\ NoPatches /\ 1 \in 1..MaxAnswers
      /\ answers = [i \in 1..MaxAnswers |-> NoAnswer] /\ view = Empty(open)
  BY BoundsAssumption DEF Init, NoPatches, NoPatch
<1>7. /\ \A T : answers \in [1..MaxAnswers -> {NoAnswer} \cup T]
      /\ \A i \in 1..MaxAnswers : answers[i] = NoAnswer
  BY <1>2
<1> SUFFICES PageInv
  BY <1>1 DEF IInv
<1>3. CASE open = "gallery"
  <2>1. view = [grid |-> {}, enabled |-> FALSE, removing |-> {}]
    BY <1>2, <1>3 DEF Empty
  <2>2. view \in [grid: SUBSET rows, enabled: BOOLEAN, removing: SUBSET rows]
    BY <2>1
  <2>3. GalleryOK
    BY <1>7, <2>2 DEF GalleryOK
  <2> QED BY <1>2, <1>3, <2>3 DEF PageInv
<1>4. CASE open = "live"
  <2>1. view = [rows |-> {}, shown |-> {}, stale |-> FALSE]
    BY <1>2, <1>4 DEF Empty
  <2>2. /\ view \in [rows: SUBSET rows, shown: SUBSET rows, stale: BOOLEAN]
        /\ view.shown \subseteq view.rows
    BY <2>1
  <2>3. answers \in [1..MaxAnswers -> {NoAnswer} \cup [gone: {TRUE}] \cup Stats]
    BY <1>2
  <2>4. LiveOK
    BY <1>7, <2>2, <2>3 DEF LiveOK
  <2> QED BY <1>4, <2>4 DEF PageInv
<1>5. CASE open = "archive"
  <2>1. view = [list |-> <<>>, flags |-> {}, cursor |-> 0, loaded |-> FALSE,
                loading |-> TRUE, base |-> {}, read |-> FALSE]
    BY <1>2, <1>5 DEF Empty
  <2>2. ToSet(view.list) = {} /\ Descending(view.list)
    BY <2>1 DEF ToSet, Descending
  <2>3. ArchiveOK
    <3>1. view \in ArchiveView
      BY <2>1 DEF ArchiveView
    <3>2. /\ Ends(view.list, view.cursor) /\ view.flags = {} /\ ~view.read /\ view.list = << >>
          /\ view.cursor = 0
      BY <2>1 DEF Ends
    <3> QED BY <1>2, <1>7, <2>2, <3>1, <3>2 DEF ArchiveOK
  <2>4. FlagsOK
    BY <1>2, <1>7, <2>2 DEF FlagsOK, NoPatches
  <2> QED BY <1>5, <2>3, <2>4 DEF PageInv
<1>6. CASE open = "upload"
  <2>1. view = [pc |-> "idle", done |-> 0, duplicates |-> 0, failed |-> 0, made |-> 0,
                skipped |-> 0]
    BY <1>2, <1>6 DEF Empty
  <2> QED BY <1>2, <1>6, <2>1 DEF PageInv, UploadOK, Counted
<1> QED BY <1>3, <1>4, <1>5, <1>6 DEF Init

(* A step keeps the part of the page that is open.                          *)
LEMMA PageInductive ==
  ASSUME IInv, [Next]_vars
  PROVE  IInv'
<1>1. Shared' /\ rows \subseteq rows' /\ open' = open
  BY SharedInductive DEF IInv
<1>2. CASE open = "gallery" /\ GalleryOK /\ NoPatches
  BY <1>1, <1>2, GalleryInductive DEF IInv, PageInv
<1>3. CASE open = "live" /\ LiveOK
  BY <1>1, <1>3, LiveInductive DEF IInv, PageInv
<1>4. CASE open = "archive" /\ ArchiveOK /\ FlagsOK
  BY <1>1, <1>4, ArchiveInductive, FlagsInductive DEF IInv, PageInv
<1>5. CASE open = "upload" /\ UploadOK /\ NoPatches
  BY <1>1, <1>5, UploadInductive DEF IInv, PageInv
<1> QED BY <1>2, <1>3, <1>4, <1>5 DEF IInv, PageInv

(* The page that is open, the answers and PATCHes on their way to it and    *)
(* the table stay in step: the inductive invariant of all that follows.     *)
THEOREM Invariance == Spec => []IInv
<1>1. Init => IInv
  BY InitialPage
<1>2. IInv /\ [Next]_vars => IInv'
  BY PageInductive
<1> QED BY <1>1, <1>2, PTL DEF Spec

(* Every page shows photos of the table, the cursor of the archive is a     *)
(* photo of its list, and only photos of the table are disputed.            *)
THEOREM TypeCorrect == Spec => []TypeOK
<1>1. IInv => TypeOK
  <2> SUFFICES ASSUME IInv PROVE TypeOK
    OBVIOUS
  <2>1. Shared /\ PageInv
    BY DEF IInv
  <2>2. patches \in [1..2 -> [id: 0..MaxPhoto, to: BOOLEAN, pc: {"none", "sent", "answered"}]]
    BY <2>1 DEF Shared, PatchState
  <2>3. /\ ids \in 0..MaxPhoto /\ rows \subseteq 1..ids
        /\ shown \subseteq rows /\ mine \subseteq rows
        /\ public \in BOOLEAN /\ deleted \in BOOLEAN
        /\ changes \in 0..MaxChanges /\ lost \in 0..MaxLost /\ disturbed \subseteq rows
    BY <2>1 DEF Shared
  <2>4. CASE open = "gallery" /\ GalleryOK
    <3>1. /\ DOMAIN view = DOMAIN Empty(open)
          /\ view.grid \subseteq rows /\ view.removing \subseteq rows
      BY <2>4 DEF GalleryOK, Empty
    <3> QED BY <2>2, <2>3, <2>4, <3>1 DEF TypeOK
  <2>5. CASE open = "live" /\ LiveOK
    <3>1. /\ DOMAIN view = DOMAIN Empty(open)
          /\ view.rows \subseteq rows /\ view.shown \subseteq view.rows
      BY <2>5 DEF LiveOK, Empty
    <3> QED BY <2>2, <2>3, <2>5, <3>1 DEF TypeOK
  <2>6. CASE open = "archive" /\ ArchiveOK
    <3>1. DOMAIN view = DOMAIN Empty(open) /\ view.list \in Seq(rows)
      BY <2>6 DEF ArchiveOK, ArchiveView, Empty
    <3>2. view.flags \subseteq ToSet(view.list) /\ view.cursor \in {0} \cup ToSet(view.list)
      BY <2>6 DEF ArchiveOK, Ends
    <3> QED BY <2>2, <2>3, <2>6, <3>1, <3>2 DEF TypeOK
  <2>7. CASE open = "upload" /\ UploadOK
    <3>1. DOMAIN view = DOMAIN Empty(open)
      BY <2>7 DEF UploadOK, Empty
    <3> QED BY <2>2, <2>3, <2>7, <3>1 DEF TypeOK
  <2> QED BY <2>1, <2>4, <2>5, <2>6, <2>7 DEF PageInv
<1> QED BY <1>1, Invariance, PTL

(* However rows are inserted while the archive is paged through, its list   *)
(* is by id, newest first, each photo once (listEventPhotos, events.ts:428).*)
THEOREM InOrder == Spec => []ArchiveInOrder
<1>1. IInv => ArchiveInOrder
  BY DEF IInv, PageInv, ArchiveOK, ArchiveInOrder, Descending
<1> QED BY <1>1, Invariance, PTL

(* "That's everything" (PhotoArchive.tsx:56) is true of every photo that    *)
(* was there when the first page was read: no page skips one, whatever is   *)
(* inserted in between and whichever of the fetches failed.                 *)
THEOREM Everything == Spec => []ThatsEverything
<1>1. IInv => ThatsEverything
  BY DEF IInv, PageInv, ArchiveOK, ThatsEverything, SaysEverything, Left
<1> QED BY <1>1, Invariance, PTL

(* The archive's badge shows what was asked for (PhotoArchive.tsx:40-50),   *)
(* and yet is right once no PATCH is on its way, of every photo that nobody *)
(* else touched and whose PATCHes did not fail or cross each other.         *)
THEOREM HiddenIsHidden == Spec => []HiddenMeansHidden
<1>1. IInv => HiddenMeansHidden
  <2> SUFFICES ASSUME IInv, open = "archive", \A i \in 1..2 : patches[i].pc = "none",
                      NEW k \in ToSet(view.list) \ disturbed
               PROVE  k \in SaysHidden <=> k \notin shown
    BY DEF HiddenMeansHidden
  <2>1. Undisputed(k)
    BY DEF IInv, PageInv, FlagsOK
  <2>2. k \in view.flags <=> k \in shown
    BY <2>1 DEF Undisputed, Patching
  <2> QED BY <2>2 DEF SaysHidden
<1> QED BY <1>1, Invariance, PTL

(* "Done: n uploaded" (UploadPanel.tsx:38-43) is never more than the files  *)
(* that made a photo, and less by the failures reported at most.            *)
THEOREM CountsAreRight == Spec => []CountsAreTrue
<1>1. IInv => CountsAreTrue
  <2> SUFFICES ASSUME IInv, open = "upload", view.pc = "idle"
               PROVE  SaysUploaded <= view.made /\ view.made <= SaysUploaded + view.failed
    BY DEF CountsAreTrue
  <2>1. UploadOK
    BY DEF IInv, PageInv
  <2>2. view.done \in Nat /\ view.duplicates \in Nat /\ view.failed \in Nat /\ view.made \in Nat
    BY <2>1 DEF UploadOK
  <2> QED BY <2>1, <2>2 DEF UploadOK, Counted, SaysUploaded
<1> QED BY <1>1, Invariance, PTL
================================================================================
