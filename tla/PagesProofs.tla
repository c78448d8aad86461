----------------------------- MODULE PagesProofs -----------------------------
(***************************************************************************)
(* Proofs about the pages of messages of Commands, for any limit, any      *)
(* number of messages and whatever is posted and deleted between two       *)
(* pages; and the types of all its variables.                              *)
(***************************************************************************)
EXTENDS CommandsProofs

-----------------------------------------------------------------------------
(***************************************************************************)
(* A finite set of ids in order: the rank of an id is the number of ids    *)
(* that are newer.                                                         *)
(***************************************************************************)
Newer(ms, m) == {n \in ms : n > m}

Rank(ms, m) == Cardinality(Newer(ms, m))

\* Every id has a rank below the number of ids, and an older id a higher one.
LEMMA RankBounds ==
    ASSUME NEW ms \in SUBSET Nat, IsFiniteSet(ms)
    PROVE  /\ Cardinality(ms) \in Nat
           /\ \A m \in ms : Rank(ms, m) \in 0..(Cardinality(ms) - 1)
           /\ \A m, n \in ms : m < n => Rank(ms, n) < Rank(ms, m)
<1>1. Cardinality(ms) \in Nat
  BY FS_CardinalityType
<1>2. ASSUME NEW m \in ms, NEW T, T \in SUBSET ms, m \notin T
      PROVE  IsFiniteSet(T) /\ Cardinality(T) \in Nat /\ Cardinality(T) < Cardinality(ms)
  <2>1. IsFiniteSet(T) /\ Cardinality(T) <= Cardinality(ms)
    BY <1>2, FS_Subset
  <2>2. Cardinality(T) # Cardinality(ms)
    BY <1>2, FS_Subset
  <2>3. Cardinality(T) \in Nat
    BY <2>1, FS_CardinalityType
  <2> QED
    BY <1>1, <2>1, <2>2, <2>3
<1>3. ASSUME NEW m \in ms PROVE Rank(ms, m) \in 0..(Cardinality(ms) - 1)
  <2>1. Newer(ms, m) \in SUBSET ms /\ m \notin Newer(ms, m)
    BY DEF Newer
  <2>2. Rank(ms, m) \in Nat /\ Rank(ms, m) < Cardinality(ms)
    BY <1>2, <2>1 DEF Rank
  <2> QED
    BY <1>1, <2>2
<1>4. ASSUME NEW m \in ms, NEW n \in ms, m < n PROVE Rank(ms, n) < Rank(ms, m)
  <2>1. /\ Newer(ms, n) \in SUBSET Newer(ms, m)
        /\ n \in Newer(ms, m) /\ n \notin Newer(ms, n)
    <3>1. \A k \in ms : k \in Nat
      OBVIOUS
    <3>2. \A k \in ms : k > n => k > m
      BY <1>4, <3>1
    <3>3. n > m /\ ~(n > n)
      BY <1>4, <3>1
    <3> QED
      BY <3>2, <3>3 DEF Newer
  <2>2. IsFiniteSet(Newer(ms, m)) /\ Newer(ms, m) \in SUBSET ms
    <3>1. Newer(ms, m) \in SUBSET ms
      BY DEF Newer
    <3> QED
      BY <3>1, FS_Subset
  <2>3. /\ IsFiniteSet(Newer(ms, n))
        /\ Cardinality(Newer(ms, n)) <= Cardinality(Newer(ms, m))
    BY <2>1, <2>2, FS_Subset
  <2>4. Cardinality(Newer(ms, n)) # Cardinality(Newer(ms, m))
    BY <2>1, <2>2, FS_Subset
  <2>5. Cardinality(Newer(ms, n)) \in Nat /\ Cardinality(Newer(ms, m)) \in Nat
    BY <2>2, <2>3, FS_CardinalityType
  <2> QED
    BY <2>3, <2>4, <2>5 DEF Rank
<1> QED
  BY <1>1, <1>3, <1>4

\* As many ranks as ids: every rank is taken.
LEMMA RankTaken ==
    ASSUME NEW ms \in SUBSET Nat, IsFiniteSet(ms), NEW r \in 0..(Cardinality(ms) - 1)
    PROVE  \E m \in ms : Rank(ms, m) = r
<1> DEFINE f == [m \in ms |-> Rank(ms, m)]
           ranks == 0..(Cardinality(ms) - 1)
<1>1. /\ Cardinality(ms) \in Nat
      /\ \A m \in ms : Rank(ms, m) \in ranks
      /\ \A m, n \in ms : m < n => Rank(ms, n) < Rank(ms, m)
  BY RankBounds
<1>2. f \in [ms -> ranks] /\ \A m, n \in ms : f[m] = f[n] => m = n
  <2>1. ASSUME NEW m \in ms, NEW n \in ms, Rank(ms, m) = Rank(ms, n), m # n PROVE FALSE
    <3>1. m < n \/ n < m
      BY <2>1
    <3>2. Rank(ms, m) \in Int /\ Rank(ms, n) \in Int
      BY <1>1
    <3> QED
      BY <1>1, <2>1, <3>1, <3>2
  <2> QED
    BY <1>1, <2>1
<1>3. f \in Injection(ms, ranks)
  BY <1>2 DEF Injection, IsInjective
<1>4. IsFiniteSet(ranks) /\ Cardinality(ranks) = Cardinality(ms)
  BY <1>1, FS_Interval
<1>5. f \in Surjection(ms, ranks)
  <2> HIDE DEF f, ranks
  <2> QED
    BY <1>3, <1>4, FS_Injection
<1>6. \E m \in ms : f[m] = r
  BY <1>5 DEF Surjection
<1> QED
  BY <1>6

\* Descending lists every id once, newest first.
LEMMA DescendingLists ==
    ASSUME NEW ms \in SUBSET Nat, IsFiniteSet(ms)
    PROVE  /\ Cardinality(ms) \in Nat
           /\ \A i \in 1..Cardinality(ms) : Descending(ms)[i] \in ms
           /\ \A i, j \in 1..Cardinality(ms) : i < j => Descending(ms)[i] > Descending(ms)[j]
           /\ \A m \in ms : \E i \in 1..Cardinality(ms) : Descending(ms)[i] = m
<1> DEFINE size == Cardinality(ms)
<1>1. /\ size \in Nat
      /\ \A m \in ms : Rank(ms, m) \in 0..(size - 1)
      /\ \A m, n \in ms : m < n => Rank(ms, n) < Rank(ms, m)
  BY RankBounds
<1>2. ASSUME NEW i \in 1..size
      PROVE  Descending(ms)[i] \in ms /\ Rank(ms, Descending(ms)[i]) = i - 1
  <2>1. Descending(ms)[i] = CHOOSE m \in ms : Rank(ms, m) = i - 1
    BY DEF Descending, Rank, Newer
  <2>2. i - 1 \in 0..(size - 1)
    BY <1>1
  <2>3. \E m \in ms : Rank(ms, m) = i - 1
    BY <2>2, RankTaken
  <2> QED
    BY <2>1, <2>3
<1>3. ASSUME NEW i \in 1..size, NEW j \in 1..size, i < j
      PROVE  Descending(ms)[i] > Descending(ms)[j]
  <2> DEFINE m == Descending(ms)[i]
             n == Descending(ms)[j]
  <2>1. m \in ms /\ n \in ms /\ Rank(ms, m) = i - 1 /\ Rank(ms, n) = j - 1
    BY <1>2
  <2> HIDE DEF m, n
  <2>2. m \in Nat /\ n \in Nat /\ Rank(ms, m) < Rank(ms, n)
    BY <1>1, <1>3, <2>1
  <2>3. ~(m < n) /\ m # n
    BY <1>1, <2>1, <2>2
  <2>4. m > n
    BY <2>2, <2>3
  <2> QED
    BY <2>4 DEF m, n
<1>4. ASSUME NEW m \in ms PROVE \E i \in 1..size : Descending(ms)[i] = m
  <2>1. Rank(ms, m) + 1 \in 1..size
    BY <1>1
  <2> DEFINE n == Descending(ms)[Rank(ms, m) + 1]
  <2>2. n \in ms /\ Rank(ms, n) = Rank(ms, m)
    BY <1>1, <1>2, <2>1
  <2> HIDE DEF n
  <2>3. n = m
    <3>1. m \in Nat /\ n \in Nat /\ Rank(ms, m) \in Int
      BY <1>1, <2>2
    <3>2. ~(m < n) /\ ~(n < m)
      BY <1>1, <2>2, <3>1
    <3> QED
      BY <3>1, <3>2
  <2> QED
    BY <2>1, <2>3 DEF n
<1> QED
  BY <1>1, <1>2, <1>3, <1>4

\* The oldest of some ids is the one listed last.
LEMMA OldestIsLast ==
    ASSUME NEW ms \in SUBSET Nat, IsFiniteSet(ms), ms # {}
    PROVE  /\ Cardinality(ms) > 0
           /\ Oldest(ms) = Descending(ms)[Cardinality(ms)]
<1> DEFINE size == Cardinality(ms)
           last == Descending(ms)[size]
<1>1. /\ size \in Nat
      /\ \A i \in 1..size : Descending(ms)[i] \in ms
      /\ \A i, j \in 1..size : i < j => Descending(ms)[i] > Descending(ms)[j]
      /\ \A m \in ms : \E i \in 1..size : Descending(ms)[i] = m
  BY DescendingLists
<1>2. size > 0
  <2>1. PICK m \in ms : TRUE
    OBVIOUS
  <2>2. PICK i \in 1..size : Descending(ms)[i] = m
    BY <1>1, <2>1
  <2> QED
    BY <1>1, <2>2
<1>3. last \in ms /\ \A n \in ms : last <= n
  <2>1. size \in 1..size
    BY <1>1, <1>2
  <2>2. last \in ms
    BY <1>1, <2>1
  <2>3. ASSUME NEW n \in ms PROVE last <= n
    <3>1. PICK i \in 1..size : Descending(ms)[i] = n
      BY <1>1
    <3>2. CASE i = size
      BY <2>2, <3>1, <3>2
    <3>3. CASE i < size
      <4>1. n > last
        BY <1>1, <2>1, <3>1, <3>3
      <4>2. n \in Nat /\ last \in Nat
        BY <2>2
      <4> QED
        BY <4>1, <4>2
    <3> QED
      BY <1>1, <3>2, <3>3
  <2> QED
    BY <2>2, <2>3
<1> HIDE DEF last
<1>4. \A m \in ms : (\A n \in ms : m <= n) => m = last
  BY <1>3
<1>5. Oldest(ms) = last
  BY <1>3, <1>4 DEF Oldest
<1> QED
  BY <1>2, <1>5 DEF last

\* What is newer than an id of a page, and on offer, is on the page.
LEMMA NewestClosed ==
    ASSUME NEW ms \in SUBSET Nat, IsFiniteSet(ms), NEW limit \in Nat,
           NEW m \in Newest(ms, limit), NEW n \in ms, n > m
    PROVE  n \in Newest(ms, limit)
<1>1. CASE limit = 0
  BY <1>1 DEF Newest
<1>2. CASE limit # 0
  <2>1. Newest(ms, limit) = {k \in ms : Rank(ms, k) < limit}
    BY <1>2 DEF Newest, Rank, Newer
  <2>2. m \in ms /\ Rank(ms, m) < limit
    BY <2>1
  <2>3. Rank(ms, n) < Rank(ms, m) /\ Rank(ms, m) \in Int /\ Rank(ms, n) \in Int
    BY <2>2, RankBounds
  <2> QED
    BY <2>1, <2>2, <2>3
<1> QED
  BY <1>1, <1>2

-----------------------------------------------------------------------------
(***************************************************************************)
(* Sequences of messages, each with its channel.                           *)
(***************************************************************************)
Message == Nat \X Channel

\* The ids go down.
Falls(s) == \A i, j \in 1..Len(s) : i < j => s[i][1] > s[j][1]

\* No message of the one channel that s is about is left out between two of s.
Gapless(s, messages) ==
    \A i, j \in 1..Len(s), m \in messages :
        /\ \A k \in 1..Len(s) : s[k][2] = m[2]
        /\ s[j][1] < m[1] /\ m[1] < s[i][1]
        => \E k \in 1..Len(s) : s[k] = m

\* A page is joined to those before it.  It lies below them, and what is newer
\* than one of its messages and older than the last page is on it.
LEMMA Joined ==
    ASSUME NEW old \in Seq(Message), NEW new \in Seq(Message),
           NEW messages \in SUBSET Message,
           Falls(old), Falls(new), Gapless(old, messages),
           \A i \in 1..Len(old), j \in 1..Len(new) : new[j][1] < old[i][1],
           \A m \in messages, j \in 1..Len(new) :
              /\ new[j][2] = m[2] /\ new[j][1] < m[1]
              /\ old # <<>> => m[1] < old[Len(old)][1]
              => \E k \in 1..Len(new) : new[k] = m
    PROVE  /\ old \o new \in Seq(Message)
           /\ Falls(old \o new)
           /\ Gapless(old \o new, messages)
<1> DEFINE all == old \o new
           lo == Len(old)
           ln == Len(new)
<1>1. /\ lo \in Nat /\ ln \in Nat
      /\ all \in Seq(Message) /\ Len(all) = lo + ln
      /\ \A k \in 1..lo : all[k] = old[k] /\ old[k] \in Message
      /\ \A k \in 1..ln : all[lo + k] = new[k] /\ new[k] \in Message
      /\ old # <<>> => lo \in 1..lo
  <2>1. all \in Seq(Message) /\ Len(all) = lo + ln /\ lo \in Nat /\ ln \in Nat
    OBVIOUS
  <2>2. \A k \in 1..lo : all[k] = old[k] /\ old[k] \in Message
    OBVIOUS
  <2>3. \A k \in 1..ln : all[lo + k] = new[k] /\ new[k] \in Message
    OBVIOUS
  <2>4. old # <<>> => lo \in 1..lo
    BY EmptySeq
  <2> QED
    BY <2>1, <2>2, <2>3, <2>4
<1>2. ASSUME NEW k \in 1..Len(all)
      PROVE  k \in 1..lo \/ \E j \in 1..ln : k = lo + j
  <2>1. CASE k <= lo
    BY <1>1, <2>1
  <2>2. CASE k > lo
    <3>1. k - lo \in 1..ln /\ k = lo + (k - lo)
      BY <1>1, <2>2
    <3> QED
      BY <3>1
  <2> QED
    BY <1>1, <2>1, <2>2
<1>3. \A k \in 1..lo : k \in 1..Len(all)
  BY <1>1
<1>4. \A k \in 1..ln : lo + k \in 1..Len(all)
  BY <1>1
<1> HIDE DEF all
<1>5. ASSUME NEW i \in 1..Len(all), NEW j \in 1..Len(all), i < j
      PROVE  all[i][1] > all[j][1]
  <2>1. CASE i \in 1..lo /\ j \in 1..lo
    BY <1>1, <1>5, <2>1 DEF Falls
  <2>2. CASE i \in 1..lo /\ \E k \in 1..ln : j = lo + k
    <3>1. PICK k \in 1..ln : j = lo + k
      BY <2>2
    <3>2. new[k][1] < old[i][1] /\ new[k] \in Message /\ old[i] \in Message
      BY <1>1, <2>2
    <3> QED
      BY <1>1, <2>2, <3>1, <3>2 DEF Message
  <2>3. CASE \E k \in 1..ln : i = lo + k
    <3>1. PICK k \in 1..ln : i = lo + k
      BY <2>3
    <3>2. ~(j \in 1..lo)
      BY <1>1, <1>5, <3>1
    <3>3. PICK l \in 1..ln : j = lo + l
      BY <1>2, <3>2
    <3>4. k < l
      BY <1>1, <1>5, <3>1, <3>3
    <3> QED
      BY <1>1, <3>1, <3>3, <3>4 DEF Falls
  <2> QED
    BY <1>2, <2>1, <2>2, <2>3
<1>6. ASSUME NEW i \in 1..Len(all), NEW j \in 1..Len(all), NEW m \in messages,
             \A k \in 1..Len(all) : all[k][2] = m[2],
             all[j][1] < m[1], m[1] < all[i][1]
      PROVE  \E k \in 1..Len(all) : all[k] = m
  <2>1. /\ \A k \in 1..lo : old[k][2] = m[2]
        /\ \A k \in 1..ln : new[k][2] = m[2]
    <3>1. ASSUME NEW k \in 1..lo PROVE old[k][2] = m[2]
      <4>1. all[k] = old[k] /\ all[k][2] = m[2]
        BY <1>1, <1>3, <1>6
      <4> QED
        BY <4>1
    <3>2. ASSUME NEW k \in 1..ln PROVE new[k][2] = m[2]
      <4>1. all[lo + k] = new[k] /\ all[lo + k][2] = m[2]
        BY <1>1, <1>4, <1>6
      <4> QED
        BY <4>1
    <3> QED
      BY <3>1, <3>2
  <2>2. m \in Message /\ m[1] \in Nat
    BY DEF Message
  <2>3. ASSUME NEW k \in 1..lo, NEW l \in 1..lo, old[l][1] < m[1], m[1] < old[k][1]
        PROVE  \E x \in 1..Len(all) : all[x] = m
    <3>1. \E x \in 1..lo : old[x] = m
      BY <2>1, <2>3 DEF Gapless
    <3> QED
      BY <1>1, <1>3, <3>1
  <2>4. ASSUME NEW l \in 1..ln, new[l][1] < m[1], old # <<>> => m[1] < old[lo][1]
        PROVE  \E x \in 1..Len(all) : all[x] = m
    <3>1. \E x \in 1..ln : new[x] = m
      BY <2>1, <2>4
    <3> QED
      BY <1>1, <1>4, <3>1
  <2>5. CASE j \in 1..lo
    <3>1. i \in 1..lo
      <4>1. ASSUME NEW k \in 1..ln, i = lo + k PROVE FALSE
        <5>1. j < i /\ i \in 1..Len(all)
          BY <1>1, <2>5, <4>1
        <5>2. all[j][1] > all[i][1]
          BY <1>5, <5>1
        <5>3. all[j] \in Message /\ all[i] \in Message
          BY <1>1, <2>5, <4>1
        <5> QED
          BY <1>6, <2>2, <5>2, <5>3 DEF Message
      <4> QED
        BY <1>2, <4>1
    <3> QED
      BY <1>1, <1>6, <2>3, <2>5, <3>1
  <2>6. CASE \E l \in 1..ln : j = lo + l
    <3>1. PICK l \in 1..ln : j = lo + l
      BY <2>6
    <3>2. new[l][1] < m[1]
      BY <1>1, <1>6, <3>1
    <3>3. CASE old # <<>> => m[1] < old[lo][1]
      BY <2>4, <3>2, <3>3
    <3>4. CASE old # <<>> /\ ~(m[1] < old[lo][1])
      <4>1. lo \in 1..lo /\ old[lo] \in Message /\ all[lo] = old[lo]
        BY <1>1, <3>4
      <4>2. CASE m[1] = old[lo][1]
        <5>1. old[lo][2] = m[2]
          BY <2>1, <4>1
        <5>2. old[lo] = <<old[lo][1], old[lo][2]>> /\ m = <<m[1], m[2]>>
          BY <2>2, <4>1 DEF Message
        <5>3. old[lo] = m
          BY <4>2, <5>1, <5>2
        <5> QED
          BY <1>3, <4>1, <5>3
      <4>3. CASE old[lo][1] < m[1]
        <5>1. i \in 1..lo
          <6>1. ASSUME NEW k \in 1..ln, i = lo + k PROVE FALSE
            <7>1. new[k][1] < old[lo][1] /\ all[i] = new[k] /\ new[k] \in Message
              BY <1>1, <4>1, <6>1
            <7> QED
              BY <1>6, <2>2, <4>1, <4>3, <7>1 DEF Message
          <6> QED
            BY <1>2, <6>1
        <5> QED
          BY <1>1, <1>6, <2>3, <4>1, <4>3, <5>1
      <4> QED
        BY <2>2, <3>4, <4>1, <4>2, <4>3 DEF Message
    <3> QED
      BY <3>3, <3>4
  <2> QED
    BY <1>2, <2>5, <2>6
<1>7. Falls(all) /\ Gapless(all, messages)
  BY <1>5, <1>6 DEF Falls, Gapless
<1> QED
  BY <1>1, <1>7 DEF all

-----------------------------------------------------------------------------
(***************************************************************************)
(* A page.                                                                 *)
(***************************************************************************)
Page(c, id, limit) == Newest(Older(c, id), limit)

Lines(c, page) == [i \in 1..Cardinality(page) |-> <<Descending(page)[i], c>>]

\* A page holds messages older than id, newest first, and all of its channel
\* that are newer than its last; a page that is not empty ends in its oldest.
Listed(id, page, new) ==
    /\ new \in Seq(Message) /\ Len(new) = Cardinality(page)
    /\ Falls(new)
    /\ \A j \in 1..Len(new) : new[j][1] <= posted /\ (id # None => new[j][1] < id)
    /\ \A m \in there, j \in 1..Len(new) :
          /\ new[j][2] = m[2] /\ new[j][1] < m[1]
          /\ id # None => m[1] < id
          => \E k \in 1..Len(new) : new[k] = m
    /\ page # {} => Cardinality(page) > 0 /\ Oldest(page) = new[Len(new)][1]

LEMMA PageLines ==
    ASSUME World, NEW c, NEW id \in Nat \cup {None}, NEW limit \in Nat,
           NEW page, page = Page(c, id, limit), NEW new, new = Lines(c, page)
    PROVE  Listed(id, page, new)
<1> DEFINE ms == Older(c, id)
           size == Cardinality(page)
<1>1. posted \in Nat /\ there \in SUBSET Message
  BY DEF World, Message
<1>2. /\ \A m \in there : m = <<m[1], m[2]>> /\ m[1] \in 1..posted /\ m[2] \in Channel
      /\ \A m \in ms : <<m, c>> \in there /\ m \in 1..posted /\ (id # None => m < id)
      /\ \A m \in there : m[2] = c /\ (id # None => m[1] < id) => m[1] \in ms
  <2>1. \A m \in there : m = <<m[1], m[2]>> /\ m[1] \in 1..posted /\ m[2] \in Channel
    BY DEF World
  <2>2. \A m \in ms : <<m, c>> \in there /\ m \in 1..posted /\ (id # None => m < id)
    BY DEF Older
  <2>3. ASSUME NEW m \in there, m[2] = c, id # None => m[1] < id PROVE m[1] \in ms
    <3>1. <<m[1], c>> \in there /\ m[1] \in 1..posted
      BY <2>1, <2>3
    <3> QED
      BY <2>3, <3>1 DEF Older
  <2> QED
    BY <2>1, <2>2, <2>3
<1>3. ms \in SUBSET Nat /\ IsFiniteSet(ms)
  <2>1. IsFiniteSet(1..posted) /\ ms \in SUBSET (1..posted)
    <3>1. IsFiniteSet(1..posted)
      BY <1>1, FS_Interval
    <3>2. ms \in SUBSET (1..posted)
      BY DEF Older
    <3> QED
      BY <3>1, <3>2
  <2>2. IsFiniteSet(ms)
    BY <2>1, FS_Subset
  <2> QED
    BY <1>1, <2>1, <2>2
<1>4. page \in SUBSET ms /\ page \in SUBSET Nat /\ IsFiniteSet(page)
  <2>1. page \in SUBSET ms
    BY DEF Page, Newest
  <2>2. IsFiniteSet(page)
    BY <1>3, <2>1, FS_Subset
  <2> QED
    BY <1>3, <2>1, <2>2
<1>5. /\ size \in Nat
      /\ \A i \in 1..size : Descending(page)[i] \in page
      /\ \A i, j \in 1..size : i < j => Descending(page)[i] > Descending(page)[j]
      /\ \A m \in page : \E i \in 1..size : Descending(page)[i] = m
  BY <1>4, DescendingLists
<1>6. \A i \in 1..size : new[i] = <<Descending(page)[i], c>> /\ new[i] \in there
  <2>1. \A i \in 1..size : new[i] = <<Descending(page)[i], c>>
    BY DEF Lines
  <2>2. \A i \in 1..size : <<Descending(page)[i], c>> \in there
    BY <1>2, <1>4, <1>5
  <2> QED
    BY <2>1, <2>2
<1>7. new \in Seq(Message) /\ Len(new) = size
  <2>1. new \in [1..size -> Message]
    BY <1>1, <1>6 DEF Lines
  <2> QED
    BY <1>5, <2>1, SeqDef
<1> HIDE DEF ms, size
<1>8. Falls(new)
  BY <1>5, <1>6, <1>7 DEF Falls
<1>9. ASSUME NEW j \in 1..Len(new)
      PROVE  /\ new[j][1] \in page /\ new[j][2] = c
             /\ new[j][1] <= posted /\ (id # None => new[j][1] < id)
  <2>1. new[j][1] \in page /\ new[j][2] = c
    BY <1>5, <1>6, <1>7
  <2>2. new[j][1] \in 1..posted /\ (id # None => new[j][1] < id)
    BY <1>2, <1>4, <2>1
  <2> QED
    BY <1>1, <2>1, <2>2
<1>10. ASSUME NEW m \in there, NEW j \in 1..Len(new),
              new[j][2] = m[2], new[j][1] < m[1], id # None => m[1] < id
       PROVE  \E k \in 1..Len(new) : new[k] = m
  <2>1. m[2] = c /\ m[1] \in ms /\ new[j][1] \in page
    BY <1>2, <1>9, <1>10
  <2>2. m[1] > new[j][1]
    BY <1>1, <1>2, <1>4, <1>10, <2>1
  <2>3. m[1] \in page
    <3>1. new[j][1] \in Newest(ms, limit)
      BY <2>1 DEF Page, ms
    <3>2. m[1] \in Newest(ms, limit)
      BY <1>3, <2>1, <2>2, <3>1, NewestClosed
    <3> QED
      BY <3>2 DEF Page, ms
  <2>4. PICK k \in 1..size : Descending(page)[k] = m[1]
    BY <1>5, <2>3
  <2>5. new[k] = <<m[1], m[2]>>
    BY <1>6, <2>1, <2>4
  <2> QED
    BY <1>2, <1>7, <2>5
<1>11. ASSUME page # {} PROVE size > 0 /\ Oldest(page) = new[Len(new)][1]
  <2>1. size > 0 /\ Oldest(page) = Descending(page)[size]
    BY <1>4, <1>11, OldestIsLast DEF size
  <2>2. size \in 1..size
    BY <1>5, <2>1
  <2>3. new[size] = <<Descending(page)[size], c>>
    BY <1>6, <2>2
  <2> QED
    BY <1>7, <2>1, <2>3
<1> QED
  BY <1>7, <1>8, <1>9, <1>10, <1>11 DEF size, Listed

-----------------------------------------------------------------------------
(***************************************************************************)
(* The inductive invariant: what has been printed, and how often a write   *)
(* has been sent.                                                          *)
(***************************************************************************)

\* No message printed is newer than the last one posted.  The hint names the
\* last message printed, and nothing has been printed without it while stages
\* are ahead.
Pages(p) ==
    /\ printed[p] \in Seq(Message)
    /\ before[p] \in Nat \cup {None}
    /\ Falls(printed[p]) /\ Gapless(printed[p], there)
    /\ \A i \in 1..Len(printed[p]) : printed[p][i][1] <= posted
    /\ before[p] = None /\ (command[p] = None \/ todo[p] # <<>>) => printed[p] = <<>>
    /\ before[p] # None => /\ printed[p] # <<>>
                           /\ before[p] = printed[p][Len(printed[p])][1]

\* A write that has not been reported has a try left.
Attempts(p) ==
    /\ tries[p] \in 0..MaxTries
    /\ tries[p] > 0 => command[p] # None /\ Op(p) \in Writes
    /\ verdict[p] = None => tries[p] < MaxTries

\* Pages that have been printed stay as they should be when messages come and
\* go, since what comes is newer than what was there.
LEMMA SamePages ==
    ASSUME NEW p \in Process, World, Pages(p),
           printed'[p] = printed[p], before'[p] = before[p],
           before[p] = None /\ (command'[p] = None \/ todo'[p] # <<>>)
              => command[p] = None \/ todo[p] # <<>>,
           posted' \in {posted, posted + 1},
           \A m \in there' : m \in there \/ m[1] = posted + 1
    PROVE  Pages(p)'
<1> DEFINE pages == printed[p]
<1>1. posted \in Nat /\ there \in SUBSET Message
  BY DEF World, Message
<1>2. pages \in Seq(Message) /\ \A i \in 1..Len(pages) : pages[i] \in Message
  BY DEF Pages
<1>3. \A i \in 1..Len(pages) : pages[i][1] \in Nat /\ pages[i][1] <= posted
  BY <1>2 DEF Pages, Message
<1>4. \A i \in 1..Len(pages) : pages[i][1] <= posted'
  BY <1>1, <1>3
<1>5. Gapless(pages, there')
  <2> SUFFICES ASSUME NEW i \in 1..Len(pages), NEW j \in 1..Len(pages), NEW m \in there',
                      \A k \in 1..Len(pages) : pages[k][2] = m[2],
                      pages[j][1] < m[1], m[1] < pages[i][1]
               PROVE  \E k \in 1..Len(pages) : pages[k] = m
    BY DEF Gapless
  <2>1. m[1] # posted + 1
    BY <1>1, <1>3
  <2>2. m \in there
    BY <2>1
  <2> QED
    BY <2>2 DEF Pages, Gapless
<1> QED
  BY <1>4, <1>5 DEF Pages

\* f is a function of the processes.
Mapped(f) == f = [p \in Process |-> f[p]]

LEMMA FetchPagePages ==
    ASSUME NEW p \in Process, StateOK, World, Way(p), Pages(p),
           Mapped(printed), Mapped(before), FetchPage(p)
    PROVE  /\ Pages(p)' /\ Mapped(printed') /\ Mapped(before')
           /\ \A q \in Process : q # p => printed'[q] = printed[q] /\ before'[q] = before[q]
<1> DEFINE c == channel[p]
           id == before[p]
           limit == command[p].limit
           page == Page(c, id, limit)
           new == Lines(c, page)
           old == printed[p]
<1>1. todo[p] # <<>> /\ command[p] \in Command
  BY Passed DEF FetchPage, Stage
<1>2. limit \in Nat
  BY <1>1, CommandFields DEF CommandLine
<1>3. UNCHANGED <<name, there, posted, command>>
  BY DEF FetchPage, discord
<1>4. CASE Alive(c)
  <2>1. /\ Report(p, "ok")
        /\ printed' = [printed EXCEPT ![p] = @ \o new]
        /\ before' = [before EXCEPT ![p] =
                         IF page # {} /\ Cardinality(page) = limit THEN Oldest(page) ELSE None]
    BY <1>4 DEF FetchPage, Page, Lines
  <2>2. todo'[p] = <<>> /\ command'[p] # None
    <3>1. "ok" \in Verdicts
      BY DEF Verdicts
    <3> QED
      BY <1>1, <1>3, <2>1, <3>1, ReportType, CommandFields
  <2>3. id \in Nat \cup {None} /\ page = Page(c, id, limit) /\ new = Lines(c, page)
    BY DEF Pages
  <2> HIDE DEF new, page, limit, c
  <2>4. /\ new \in Seq(Message) /\ Len(new) = Cardinality(page)
        /\ Falls(new)
        /\ \A j \in 1..Len(new) : /\ new[j][1] <= posted
                                  /\ id # None => new[j][1] < id
        /\ \A m \in there, j \in 1..Len(new) :
              /\ new[j][2] = m[2] /\ new[j][1] < m[1]
              /\ id # None => m[1] < id
              => \E k \in 1..Len(new) : new[k] = m
        /\ page # {} => /\ Cardinality(page) > 0
                        /\ Oldest(page) = new[Len(new)][1]
    <3>1. Listed(id, page, new)
      BY <1>2, <2>3, PageLines
    <3> QED
      BY <3>1 DEF Listed
  <2>5. /\ old \in Seq(Message) /\ Falls(old) /\ Gapless(old, there)
        /\ \A i \in 1..Len(old) : old[i][1] <= posted
        /\ id = None => old = <<>>
        /\ id # None => old # <<>> /\ id = old[Len(old)][1]
    BY <1>1 DEF Pages
  <2>6. there \in SUBSET Message /\ posted \in Nat
    BY DEF World, Message
  <2>7. ASSUME NEW i \in 1..Len(old), NEW j \in 1..Len(new) PROVE new[j][1] < old[i][1]
    <3>1. id # None /\ new[j][1] < id /\ id = old[Len(old)][1]
      BY <2>4, <2>5, <2>7
    <3>2. Len(old) \in 1..Len(old) /\ old[i] \in Message /\ old[Len(old)] \in Message
      BY <2>5, <2>7
    <3>3. old[Len(old)][1] <= old[i][1]
      BY <2>5, <3>2 DEF Falls, Message
    <3>4. new[j] \in Message
      BY <2>4
    <3> QED
      BY <3>1, <3>2, <3>3, <3>4 DEF Message
  <2>8. ASSUME NEW m \in there, NEW j \in 1..Len(new),
               new[j][2] = m[2], new[j][1] < m[1], old # <<>> => m[1] < old[Len(old)][1]
        PROVE  \E k \in 1..Len(new) : new[k] = m
    BY <2>4, <2>5, <2>8
  <2>9. /\ old \o new \in Seq(Message)
        /\ Falls(old \o new) /\ Gapless(old \o new, there)
    BY <2>4, <2>5, <2>6, <2>7, <2>8, Joined
  <2>10. printed'[p] = old \o new /\ Mapped(printed') /\ Mapped(before')
    BY <2>1 DEF Mapped
  <2>11. ASSUME NEW i \in 1..Len(old \o new) PROVE (old \o new)[i][1] <= posted
    <3>1. CASE i <= Len(old)
      BY <2>4, <2>5, <3>1
    <3>2. CASE i > Len(old)
      <4>1. i - Len(old) \in 1..Len(new) /\ (old \o new)[i] = new[i - Len(old)]
        BY <2>4, <2>5, <3>2
      <4> QED
        BY <2>4, <4>1
    <3> QED
      BY <2>5, <3>1, <3>2
  <2>12. before'[p] \in Nat \cup {None}
         /\ (before'[p] # None => /\ old \o new # <<>>
                                  /\ before'[p] = (old \o new)[Len(old \o new)][1])
    <3>1. before'[p] = IF page # {} /\ Cardinality(page) = limit THEN Oldest(page) ELSE None
      BY <2>1 DEF StateOK
    <3>2. CASE page # {} /\ Cardinality(page) = limit
      <4>1. before'[p] = new[Len(new)][1] /\ Len(new) > 0
        BY <2>4, <3>1, <3>2
      <4>2. Len(new) \in 1..Len(new) /\ new[Len(new)] \in Message
        BY <2>4, <4>1
      <4>3. old \in Seq(Message) /\ new \in Seq(Message)
        BY <2>4, <2>5
      <4>4. /\ Len(old \o new) = Len(old) + Len(new)
            /\ (old \o new)[Len(old) + Len(new)] = new[Len(new)]
            /\ old \o new # <<>>
        <5>1. Len(old) \in Nat /\ Len(new) \in Nat /\ Len(old) + Len(new) > Len(old)
          BY <4>1, <4>3
        <5>2. Len(old \o new) = Len(old) + Len(new)
          BY <4>3
        <5>3. (old \o new)[Len(old) + Len(new)] = new[Len(new)]
          BY <4>3, <5>1
        <5> QED
          BY <5>1, <5>2, <5>3
      <4> QED
        BY <4>1, <4>2, <4>4 DEF Message
    <3>3. CASE ~(page # {} /\ Cardinality(page) = limit)
      BY <3>1, <3>3
    <3> QED
      BY <3>2, <3>3
  <2>13. Pages(p)'
    BY <1>3, <2>2, <2>9, <2>10, <2>11, <2>12 DEF Pages
  <2> QED
    BY <2>1, <2>10, <2>13 DEF StateOK
<1>5. CASE ~Alive(c)
  <2>1. Report(p, "NOT_FOUND") /\ UNCHANGED <<before, printed>>
    BY <1>5 DEF FetchPage
  <2>2. \A m \in there' : m \in there \/ m[1] = posted + 1
    BY <1>3
  <2>3. Pages(p)'
    BY <1>1, <1>3, <2>1, <2>2, SamePages
  <2> QED
    BY <2>1, <2>3
<1> QED
  BY <1>4, <1>5

-----------------------------------------------------------------------------
(***************************************************************************)
(* Every step keeps the invariant.                                         *)
(***************************************************************************)

\* No action takes ids back or hands out more than one.
LEMMA PostedStep ==
    ASSUME [Next]_vars
    PROVE  posted' \in {posted, posted + 1}
<1>1. ASSUME NEW p \in Process, Step(p) PROVE posted' \in {posted, posted + 1}
  BY <1>1 DEF Step, CheckArguments, Client, RequireWrite, RequireUser, CheckLate, ResolveGuild,
              ResolveChannel, Fetch, FetchPage, Answered, NotFound, Lost, LookupFails, Denied,
              Apply, discord
<1>2. ASSUME NEW p \in Process, NextPage(p) \/ \E c \in Command : Begin(p, c)
      PROVE  posted' = posted
  BY <1>2 DEF NextPage, Begin, discord
<1>3. CASE Environment
  BY <1>3 DEF Environment, Vanish, Rename, Post, Remove, React
<1>4. CASE UNCHANGED vars
  BY <1>4 DEF vars, discord
<1> QED
  BY <1>1, <1>2, <1>3, <1>4 DEF Next

\* Of the steps of a command only the page changes what has been printed, and
\* only a write how often it has been sent.
LEMMA StepFrame ==
    ASSUME NEW p \in Process, Step(p) \/ NextPage(p) \/ \E c \in Command : Begin(p, c)
    PROVE  /\ UNCHANGED changes
           /\ FetchPage(p) \/ UNCHANGED <<before, printed>>
           /\ Transmit(p) \/ UNCHANGED tries
BY DEF Step, CheckArguments, Client, RequireWrite, RequireUser, CheckLate, ResolveGuild,
       ResolveChannel, Fetch, Answered, NotFound, Lost, LookupFails, Denied, Apply,
       Transmit, FetchPage, NextPage, Begin, discord, record

\* The command line stays, unless it is a beginning, and what has been reported
\* stands, unless the next page is asked for; stages are ahead of it only if
\* they were.
LEMMA StepGoesOn ==
    ASSUME NEW p \in Process, StateOK, Way(p), Step(p)
    PROVE  /\ command'[p] = command[p] /\ command[p] # None
           /\ verdict[p] = None
           /\ todo[p] # <<>>
<1>1. todo[p] # <<>>
  BY DEF Step, CheckArguments, Client, RequireWrite, RequireUser, CheckLate, ResolveGuild,
         ResolveChannel, Fetch, FetchPage, Answered, NotFound, Lost, LookupFails, Denied,
         Transmit, InWrite, Stage
<1>2. command' = command
  BY DEF Step, CheckArguments, Client, RequireWrite, RequireUser, CheckLate, ResolveGuild,
         ResolveChannel, Fetch, FetchPage, Answered, NotFound, Lost, LookupFails, Denied,
         Transmit
<1>3. command[p] \in Command /\ verdict[p] = None
  BY <1>1, Passed
<1> QED
  BY <1>1, <1>2, <1>3, CommandFields

LEMMA StepAttempts ==
    ASSUME NEW p \in Process, StateOK, World, Way(p), Sent(p), Attempts(p),
           tries \in [Process -> Nat],
           Step(p) \/ NextPage(p) \/ \E c \in Command : Begin(p, c)
    PROVE  /\ Attempts(p)' /\ tries' \in [Process -> Nat]
           /\ \A q \in Process : q # p => tries'[q] = tries[q]
<1>1. MaxTries \in Nat \ {0} /\ tries[p] \in 0..MaxTries
  BY ConstantsOK DEF ConstantsOK, Attempts
<1>2. CASE Transmit(p) /\ Step(p)
  <2>1. tries' = [tries EXCEPT ![p] = @ + 1] /\ command' = command
    BY <1>2 DEF Transmit
  <2>2. Op(p) \in Writes /\ verdict[p] = None /\ command[p] # None
    BY <1>2, WriteHasChannel, StepGoesOn DEF Transmit
  <2>3. tries[p] < MaxTries
    BY <2>2 DEF Attempts
  <2>4. ASSUME verdict'[p] = None PROVE tries[p] + 1 < MaxTries
    <3>1. ASSUME NEW v \in Verdicts, Report(p, v) PROVE FALSE
      BY <2>4, <3>1, ReportType, VerdictsNotNone
    <3>2. CASE Lost(p)
      <4>1. Translate("lost") \in Verdicts
        BY DEF Translate, Verdicts
      <4> QED
        BY <3>1, <3>2, <4>1 DEF Lost
    <3>3. CASE Answered(p)
      <4>1. "ok" \in Verdicts
        BY DEF Verdicts
      <4> QED
        BY <3>1, <3>3, <4>1 DEF Answered
    <3>4. CASE NotFound(p)
      <4>1. "noop" \in Verdicts /\ Translate("gone") \in Verdicts
        BY DEF Translate, Verdicts
      <4> QED
        BY <3>1, <3>4, <4>1 DEF NotFound
    <3>5. CASE \E failure \in Failures : Denied(p, failure)
      BY <3>1, <3>5, TranslateType DEF Denied
    <3>6. ASSUME ~(\/ Lost(p) \/ Answered(p) \/ NotFound(p)
                   \/ \E failure \in Failures : Denied(p, failure))
          PROVE  UNCHANGED tries
      BY <1>2, <3>6 DEF Step, CheckArguments, Client, RequireWrite, RequireUser, CheckLate,
                ResolveGuild, ResolveChannel, Fetch, FetchPage, LookupFails, record
    <3>7. tries'[p] # tries[p]
      BY <1>1, <2>1
    <3> QED
      BY <3>2, <3>3, <3>4, <3>5, <3>6, <3>7
  <2>5. tries'[p] = tries[p] + 1 /\ tries' \in [Process -> Nat]
    BY <2>1
  <2>6. Attempts(p)'
    BY <1>1, <2>1, <2>2, <2>3, <2>4, <2>5 DEF Attempts, Op
  <2> QED
    BY <2>1, <2>5, <2>6
<1>3. CASE UNCHANGED tries
  <2>1. CASE Step(p)
    BY <1>3, <2>1, StepGoesOn DEF Attempts, Op
  <2>2. CASE NextPage(p)
    <3>1. verdict[p] = "ok" /\ before[p] # None /\ command' = command
      BY <2>2 DEF NextPage
    <3>2. Op(p) \notin Writes /\ tries[p] = 0
      BY <1>1, <3>1 DEF Way, Effects, Attempts
    <3> QED
      BY <1>1, <1>3, <3>2 DEF Attempts
  <2>3. CASE \E c \in Command : Begin(p, c)
    <3>1. command[p] = None /\ tries[p] = 0
      BY <1>1, <2>3 DEF Begin, Attempts
    <3> QED
      BY <1>1, <1>3, <3>1 DEF Attempts
  <2> QED
    BY <1>3, <2>1, <2>2, <2>3
<1>4. ~Step(p) => UNCHANGED tries
  BY DEF NextPage, Begin, record
<1> QED
  BY <1>2, <1>3, <1>4, StepFrame

LEMMA StepPages ==
    ASSUME NEW p \in Process, StateOK, World, Way(p), Pages(p), Mapped(printed), Mapped(before),
           posted' \in {posted, posted + 1},
           \A m \in there' : m \in there \/ m[1] = posted + 1,
           Step(p) \/ NextPage(p) \/ \E c \in Command : Begin(p, c)
    PROVE  /\ Pages(p)' /\ Mapped(printed') /\ Mapped(before')
           /\ \A q \in Process : q # p => printed'[q] = printed[q] /\ before'[q] = before[q]
<1>1. CASE FetchPage(p)
  BY <1>1, FetchPagePages
<1>2. CASE UNCHANGED <<before, printed>>
  <2>1. ASSUME before[p] = None, command'[p] = None \/ todo'[p] # <<>>
        PROVE  command[p] = None \/ todo[p] # <<>>
    <3>1. ~NextPage(p)
      BY <2>1 DEF NextPage
    <3>2. CASE Step(p)
      BY <3>2, StepGoesOn
    <3>3. CASE \E c \in Command : Begin(p, c)
      BY <3>3 DEF Begin
    <3> QED
      BY <3>1, <3>2, <3>3
  <2>2. Pages(p)'
    BY <1>2, <2>1, SamePages
  <2> QED
    BY <1>2, <2>2
<1> QED
  BY <1>1, <1>2, StepFrame

\* A reaction is on a message that is there.
LEMMA ReactedStep ==
    ASSUME reacted \subseteq there, [Next]_vars
    PROVE  reacted' \subseteq there'
<1>1. ASSUME NEW p \in Process, ~Gone(p), Apply(p) PROVE reacted' \subseteq there'
  <2>1. CASE Op(p) = "send"
    BY <1>1, <2>1 DEF Apply
  <2>2. CASE Op(p) = "delete"
    BY <1>1, <2>2 DEF Apply
  <2>3. CASE Op(p) \notin {"send", "delete"}
    <3>1. there' = there /\ Target(p) \in there
      BY <1>1, <2>3 DEF Apply, Gone
    <3>2. reacted' \subseteq reacted \cup {Target(p)}
      BY <1>1, <2>3 DEF Apply
    <3> QED
      BY <3>1, <3>2
  <2> QED
    BY <2>1, <2>2, <2>3
<1>2. CASE UNCHANGED discord
  BY <1>2 DEF discord
<1>3. ASSUME NEW p \in Process, Step(p) \/ NextPage(p) \/ \E c \in Command : Begin(p, c)
      PROVE  UNCHANGED discord \/ (~Gone(p) /\ Apply(p))
  BY <1>3 DEF Step, CheckArguments, Client, RequireWrite, RequireUser, CheckLate, ResolveGuild,
              ResolveChannel, Fetch, FetchPage, Answered, NotFound, Lost, LookupFails, Denied,
              NextPage, Begin
<1>4. CASE Environment
  BY <1>4 DEF Environment, Vanish, Rename, Post, Remove, React
<1>5. CASE UNCHANGED vars
  BY <1>2, <1>5 DEF vars
<1> QED
  BY <1>1, <1>2, <1>3, <1>4, <1>5 DEF Next

-----------------------------------------------------------------------------
(***************************************************************************)
(* The theorems.                                                           *)
(***************************************************************************)
Reads(p) == Way(p) /\ Sent(p) /\ Attempts(p) /\ Pages(p)

IInv ==
    /\ StateOK /\ World
    /\ tries \in [Process -> Nat] /\ Mapped(printed) /\ Mapped(before)
    /\ changes \in 0..MaxChanges /\ reacted \subseteq there
    /\ \A p \in Process : Reads(p)

LEMMA IInvInit == Init => IInv
<1> SUFFICES ASSUME Init PROVE IInv
  OBVIOUS
<1>1. Cardinality(Messages) \in Nat
  BY FS_CardinalityType, ConstantsOK DEF ConstantsOK
<1>2. World
  <2>1. ASSUME NEW m \in there PROVE Alive(m[2])
    <3>1. m[2] \in Channel /\ (Parent[m[2]] # None => Parent[m[2]] \in Guild)
      BY ConstantsOK DEF Init, ConstantsOK
    <3>2. \A x \in Place : name[x] # None
      BY ConstantsOK DEF Init, ConstantsOK
    <3> QED
      BY <3>1, <3>2 DEF Alive, Place
  <2> QED
    BY <1>1, <2>1, ConstantsOK DEF Init, ConstantsOK, World
<1>3. ASSUME NEW p \in Process PROVE Sent(p) /\ Attempts(p) /\ Pages(p)
  <2>1. /\ command[p] = None /\ tries[p] = 0 /\ effect[p] = 0 /\ before[p] = None
        /\ todo[p] = <<>> /\ printed[p] = <<>>
    BY DEF Init
  <2>2. MaxTries \in Nat \ {0}
    BY ConstantsOK DEF ConstantsOK
  <2>3. Sent(p) /\ Attempts(p)
    BY <2>1, <2>2 DEF Sent, Attempts
  <2>4. printed[p] \in Seq(Message) /\ Len(printed[p]) = 0
    BY <2>1
  <2> QED
    BY <2>1, <2>3, <2>4 DEF Pages, Falls, Gapless
<1>4. MaxChanges \in Nat
  BY ConstantsOK DEF ConstantsOK
<1> QED
  BY <1>2, <1>3, <1>4, InitOK DEF Init, IInv, Reads, Mapped

LEMMA IInvStep == IInv /\ [Next]_vars => IInv'
<1> SUFFICES ASSUME IInv, [Next]_vars PROVE IInv'
  OBVIOUS
<1>1. StateOK' /\ \A p \in Process : Way(p)'
  BY NextKeepsWay DEF IInv, Reads
<1>2. /\ World' /\ posted' \in {posted, posted + 1}
      /\ \A m \in there' : m \in there \/ m[1] = posted + 1
  BY WorldStep, PostedStep DEF IInv, Reads
<1>3. reacted' \subseteq there'
  BY ReactedStep DEF IInv
<1>4. ASSUME NEW q \in Process, Same(q),
             tries'[q] = tries[q], printed'[q] = printed[q]
      PROVE  Sent(q)' /\ Attempts(q)' /\ Pages(q)'
  <2>1. Sent(q)' /\ Attempts(q)'
    BY <1>4 DEF IInv, Reads, Same, Sent, Attempts, InWrite, Stage, Op
  <2>2. Pages(q)'
    BY <1>2, <1>4, SamePages DEF IInv, Reads, Same
  <2> QED
    BY <2>1, <2>2
<1>5. CASE \E p \in Process : Step(p) \/ NextPage(p) \/ \E c \in Command : Begin(p, c)
  <2>1. PICK p \in Process : Step(p) \/ NextPage(p) \/ \E c \in Command : Begin(p, c)
    BY <1>5
  <2>2. /\ StateOK /\ World /\ Way(p) /\ Sent(p) /\ Attempts(p) /\ Pages(p)
        /\ tries \in [Process -> Nat] /\ Mapped(printed) /\ Mapped(before)
    BY DEF IInv, Reads
  <2>3. Sent(p)'
    BY <2>1, <2>2, ChecksSent, LookupsSent, WritesSent, StartsSent DEF Step, SentOK
  <2>4. /\ Attempts(p)' /\ tries' \in [Process -> Nat]
        /\ \A q \in Process : q # p => tries'[q] = tries[q]
    BY <2>1, <2>2, StepAttempts
  <2>5. /\ Pages(p)' /\ Mapped(printed') /\ Mapped(before')
        /\ \A q \in Process : q # p => printed'[q] = printed[q] /\ before'[q] = before[q]
    BY <1>2, <2>1, <2>2, StepPages
  <2>6. Others(p) /\ UNCHANGED changes
    BY <2>1, <2>2, StepKeeps, StepFrame
  <2>7. ASSUME NEW q \in Process, q # p PROVE Sent(q)' /\ Attempts(q)' /\ Pages(q)'
    BY <1>4, <2>4, <2>5, <2>6, <2>7 DEF Others
  <2>8. \A q \in Process : Reads(q)'
    BY <1>1, <2>3, <2>4, <2>5, <2>7 DEF Reads
  <2> QED
    BY <1>1, <1>2, <1>3, <2>4, <2>5, <2>6, <2>8 DEF IInv
<1>6. CASE Environment
  <2>1. UNCHANGED <<tries, printed, before>> /\ changes' \in 0..MaxChanges
    BY <1>6, ConstantsOK DEF Environment, record, IInv, ConstantsOK
  <2>2. \A q \in Process : Same(q)
    BY <1>6, EnvironmentKeeps DEF IInv
  <2>3. \A q \in Process : Reads(q)'
    BY <1>1, <1>4, <2>1, <2>2 DEF Reads
  <2> QED
    BY <1>1, <1>2, <1>3, <2>1, <2>3 DEF IInv
<1>7. CASE UNCHANGED vars
  <2>1. UNCHANGED <<tries, printed, before, changes>> /\ \A q \in Process : Same(q)
    BY <1>7, StutterOK DEF vars, discord, record, IInv
  <2>2. \A q \in Process : Reads(q)'
    BY <1>1, <1>4, <2>1 DEF Reads
  <2> QED
    BY <1>1, <1>2, <1>3, <2>1, <2>2 DEF IInv
<1> QED
  BY <1>5, <1>6, <1>7 DEF Next

\* Every variable keeps its type; in particular a write is sent, and carried
\* out, at most MaxTries times, and only messages that are there carry a
\* reaction.
THEOREM TypeCorrect == Spec => []TypeOK
<1>1. IInv => TypeOK
  <2> SUFFICES ASSUME IInv PROVE TypeOK
    OBVIOUS
  <2>1. MaxTries \in Nat
    BY ConstantsOK DEF ConstantsOK
  <2>2. ASSUME NEW p \in Process
        PROVE  /\ tries[p] \in 0..MaxTries /\ effect[p] \in 0..MaxTries
               /\ before[p] \in Nat \cup {None} /\ printed[p] \in Seq(Nat \X Channel)
    <3>1. effect[p] \in Nat /\ effect[p] <= tries[p] /\ tries[p] \in 0..MaxTries
      BY DEF IInv, Reads, StateOK, Sent, Attempts
    <3> QED
      BY <2>1, <3>1 DEF IInv, Reads, Pages, Message
  <2>3. tries \in [Process -> 0..MaxTries] /\ effect \in [Process -> 0..MaxTries]
    BY <2>2 DEF IInv, StateOK
  <2>4. before \in [Process -> Nat \cup {None}] /\ printed \in [Process -> Seq(Nat \X Channel)]
    BY <2>2 DEF IInv, Mapped
  <2> QED
    BY <2>3, <2>4 DEF IInv, StateOK, World, TypeOK
<1> QED
  BY <1>1, IInvInit, IInvStep, PTL DEF Spec

\* Following the hints of messages, an agent reads no message twice, in order,
\* and misses none that is still there between two it has read, whatever is
\* posted and deleted meanwhile.
THEOREM NoMessageMissed == Spec => []PagesExact
<1>1. IInv => PagesExact
  <2> SUFFICES ASSUME IInv, NEW p \in Process
               PROVE  LET pages == printed[p]
                      IN  /\ \A i, j \in DOMAIN pages : i < j => pages[i][1] > pages[j][1]
                          /\ \A i, j \in DOMAIN pages, m \in there :
                                /\ \A k \in DOMAIN pages : pages[k][2] = m[2]
                                /\ pages[j][1] < m[1] /\ m[1] < pages[i][1]
                                => \E k \in DOMAIN pages : pages[k] = m
    BY DEF PagesExact
  <2>1. printed[p] \in Seq(Message) /\ Falls(printed[p]) /\ Gapless(printed[p], there)
    BY DEF IInv, Reads, Pages
  <2>2. DOMAIN printed[p] = 1..Len(printed[p])
    BY <2>1
  <2> DEFINE pages == printed[p]
             D == DOMAIN printed[p]
  <2>3. \A i, j \in D : i < j => pages[i][1] > pages[j][1]
    BY <2>1, <2>2 DEF Falls
  <2>4. ASSUME NEW i \in D, NEW j \in D, NEW m \in there, \A k \in D : pages[k][2] = m[2],
               pages[j][1] < m[1], m[1] < pages[i][1]
        PROVE  \E k \in D : pages[k] = m
    <3>1. i \in 1..Len(pages) /\ j \in 1..Len(pages) /\ \A k \in 1..Len(pages) : pages[k][2] = m[2]
      BY <2>2, <2>4
    <3>2. \E k \in 1..Len(pages) : pages[k] = m
      BY <2>1, <2>4, <3>1 DEF Gapless
    <3> QED
      BY <2>2, <3>2
  <2> QED
    BY <2>3, <2>4
<1> QED
  BY <1>1, IInvInit, IInvStep, PTL DEF Spec

=============================================================================
