--------------------------- MODULE FriendsProofs ---------------------------
(***************************************************************************)
(* Theorems about the friends lists (Friends) for any number of badges,    *)
(* any size of the list and of the ring of hashes, and any mix of lost,    *)
(* repeated and reordered packets, saves and restarts.  ListsInv is about  *)
(* one badge's list, in RAM and in flash; NetInv follows each battle       *)
(* result to its badge; TallyInv compares the tallies of both sides.       *)
(* And, at the end, about two mini games: Lights Out (LightsOut) for any   *)
(* numbers of random toggles, Black Hole (BlackHole) for any triangle.     *)
(***************************************************************************)
EXTENDS Friends, LightsOut, BlackHole, SequenceTheorems, FiniteSetTheorems,
        WellFoundedInduction, TLAPS

Beacons == {Beacon(i, snap) : i \in Ids, snap \in Snaps}
Results == {Result(b, t, o) : b \in Badges, t \in Ids, o \in Outcomes}
Packets == Beacons \cup Results

ListTypes ==
  /\ friends \in [Badges -> Seq(FriendRecord)]
  /\ flash \in [Badges -> Seq(FriendRecord)]
  /\ FRIENDS_DIRTY \in [Badges -> BOOLEAN]
  /\ clock \in Nat /\ boot \in [Badges -> Nat] /\ \A b \in Badges : boot[b] <= clock
  /\ boosts \in [Badges -> [Ids -> [at : Nat \cup {Never}, odd : BOOLEAN]]]
IsCopy(c) ==
  /\ c = [n |-> c.n, to |-> c.to, repeated |-> c.repeated, p |-> c.p]
  /\ c.to \in Badges /\ c.p \in Packets
NetTypes ==
  /\ GRP_DATA_SEEN \in [Badges -> Seq(Packets)]
  /\ handled \in [Badges -> [log : Seq(Packets), ever : SUBSET Packets]]
  /\ \A c \in air : IsCopy(c)
  /\ said \in SUBSET Results /\ IsFiniteSet(said)

(* A list a badge keeps: bounded, the last seen first, everybody once.     *)
Ordered(b, list) ==
  /\ Len(list) <= FRIENDS_MAX
  /\ \A i \in 1 .. Len(list) :
       /\ list[i].id # b /\ list[i].boost <= list[i].seen
       /\ \A j \in 1 .. i - 1 : list[j].id # list[i].id /\ list[j].seen >= list[i].seen

(* The lists are ordered in RAM and in flash, and no tick is in the future. *)
OrderInv ==
  \A b \in Badges :
    /\ Ordered(b, friends[b]) /\ Ordered(b, flash[b])
    /\ \A i \in 1 .. Len(friends[b]) : friends[b][i].seen <= now_tick(b)

SameIds(l, m) == Len(l) = Len(m) /\ \A i \in 1 .. Len(l) : l[i].id = m[i].id

(* A list that is not dirty holds the friends of the list in flash, and the *)
(* record of a friend never predates the last boost of theirs.             *)
Remembers(b, i) ==
  \E k \in 1 .. Len(friends[b]) :
     friends[b][k].id = i /\ friends[b][k].boost + boot[b] >= boosts[b][i].at
BoostInv ==
  \A b \in Badges :
    /\ ~FRIENDS_DIRTY[b] => SameIds(friends[b], flash[b])
    /\ \A i \in Ids : boosts[b][i].at # Never => boosts[b][i].at <= clock /\ Remembers(b, i)

-----------------------------------------------------------------------------
(* The list.                                                               *)

Unique(list) == \A i \in 1 .. Len(list) : \A j \in 1 .. i - 1 : list[j].id # list[i].id

LEMMA OrderedUnique ==
  ASSUME NEW b, NEW list, Ordered(b, list)
  PROVE  Unique(list)
  BY DEF Ordered, Unique

LEMMA FindIndexIs ==
  ASSUME NEW list \in Seq(FriendRecord), Unique(list), NEW k \in 1 .. Len(list)
  PROVE  /\ Known(list, list[k].id)
         /\ FindIndex(list, list[k].id) = k
<1>1. Known(list, list[k].id)
  BY DEF Known
<1> DEFINE j == FindIndex(list, list[k].id)
<1>2. j \in 1 .. Len(list) /\ list[j].id = list[k].id
  BY <1>1 DEF Known, FindIndex
<1>3. j < k \/ k < j \/ j = k
  BY <1>2
<1>4. Len(list) \in Nat
  OBVIOUS
<1>5. j = k
  BY <1>2, <1>3, <1>4 DEF Unique
<1> QED
  BY <1>1, <1>5

LEMMA FindIndexFinds ==
  ASSUME NEW list \in Seq(FriendRecord), NEW id, Known(list, id)
  PROVE  FindIndex(list, id) \in 1 .. Len(list) /\ list[FindIndex(list, id)].id = id
  BY DEF Known, FindIndex

LEMMA RecordFields ==
  ASSUME NEW list \in Seq(FriendRecord), NEW i \in 1 .. Len(list)
  PROVE  /\ list[i] \in FriendRecord
         /\ list[i].id \in Ids /\ list[i].boost \in Nat /\ list[i].seen \in Nat
         /\ list[i].wins \in Nat /\ list[i].losses \in Nat
<1>1. list[i] \in FriendRecord
  BY ElementOfSeq
<1> QED
  BY <1>1 DEF FriendRecord

(* A friend that was refreshed stands first, the others in their order.    *)
LEMMA RefreshedShape ==
  ASSUME NEW b \in Badges, NEW list \in Seq(FriendRecord), Ordered(b, list),
         NEW k \in 1 .. Len(list), NEW f \in FriendRecord, f.id = list[k].id,
         f.boost <= f.seen, \A i \in 1 .. Len(list) : list[i].seen <= f.seen
  PROVE  /\ Refreshed(list, f) \in Seq(FriendRecord) /\ Ordered(b, Refreshed(list, f))
         /\ Len(Refreshed(list, f)) = Len(list)
         /\ Refreshed(list, f)[1] = f
         /\ \A i \in 1 .. Len(list) : Refreshed(list, f)[i] = f
               \/ \E j \in 1 .. Len(list) : j # k /\ Refreshed(list, f)[i] = list[j]
         /\ \A j \in 1 .. Len(list) : j # k =>
               \E i \in 1 .. Len(list) : Refreshed(list, f)[i] = list[j]
<1> DEFINE n == Len(list)
           r == Refreshed(list, f)
<1>1. n \in Nat /\ n >= 1
  OBVIOUS
<1>2. FindIndex(list, f.id) = k
  BY FindIndexIs, OrderedUnique
<1>3. r = [i \in 1 .. n |-> IF i = 1 THEN f ELSE IF i <= k THEN list[i - 1] ELSE list[i]]
  BY <1>2 DEF Refreshed
<1>4. \A i \in 1 .. n : list[i] \in FriendRecord
  BY RecordFields
<1>5. r \in Seq(FriendRecord) /\ Len(r) = n
  <2>1. \A i \in 1 .. n : r[i] \in FriendRecord
    BY <1>1, <1>3, <1>4
  <2> QED
    BY <1>1, <1>3, <2>1
<1>6. r[1] = f
  BY <1>1, <1>3
<1>7. \A i \in 2 .. n : r[i] = list[IF i <= k THEN i - 1 ELSE i] /\ (IF i <= k THEN i - 1 ELSE i) # k
  BY <1>1, <1>3
<1>8. \A i \in 1 .. n : r[i] = f \/ \E j \in 1 .. n : j # k /\ r[i] = list[j]
  <2> SUFFICES ASSUME NEW i \in 1 .. n, i # 1 PROVE \E j \in 1 .. n : j # k /\ r[i] = list[j]
    BY <1>6
  <2> WITNESS (IF i <= k THEN i - 1 ELSE i) \in 1 .. n
  <2> QED
    BY <1>7
<1>9. \A j \in 1 .. n : j # k => \E i \in 1 .. n : r[i] = list[j]
  <2> SUFFICES ASSUME NEW j \in 1 .. n, j # k PROVE \E i \in 1 .. n : r[i] = list[j]
    OBVIOUS
  <2> DEFINE m == IF j < k THEN j + 1 ELSE j
  <2>1. m \in 2 .. n /\ (IF m <= k THEN m - 1 ELSE m) = j
    BY <1>1
  <2>2. r[m] = list[j]
    BY <1>7, <2>1
  <2> QED
    BY <2>1, <2>2
<1>10. Ordered(b, r)
  <2>1. Len(r) <= FRIENDS_MAX
    BY <1>5 DEF Ordered
  <2>2. ASSUME NEW i \in 1 .. n
        PROVE  r[i].id # b /\ r[i].boost <= r[i].seen
    BY <1>6, <1>7 DEF Ordered
  <2>3. ASSUME NEW i \in 1 .. n, NEW j \in 1 .. i - 1
        PROVE  r[j].id # r[i].id /\ r[j].seen >= r[i].seen
    <3> DEFINE ii == IF i <= k THEN i - 1 ELSE i
               jj == IF j <= k THEN j - 1 ELSE j
    <3>1. i \in 2 .. n /\ ii \in 1 .. n /\ ii # k /\ r[i] = list[ii]
      BY <1>1, <1>7
    <3>2. CASE j = 1
      <4>1. r[j] = f
        BY <1>6, <3>2
      <4>2. list[ii].id # list[k].id
        <5>1. ii < k \/ k < ii
          BY <3>1
        <5> QED
          BY <3>1, <5>1 DEF Ordered
      <4>3. list[ii].seen <= f.seen /\ list[ii].seen \in Nat /\ f.seen \in Nat
        BY <3>1, RecordFields DEF FriendRecord
      <4> QED
        BY <3>1, <4>1, <4>2, <4>3
    <3>3. CASE j # 1
      <4>1. j \in 2 .. n /\ jj \in 1 .. ii - 1 /\ r[j] = list[jj]
        BY <1>1, <1>7, <3>1, <3>3
      <4> QED
        BY <3>1, <4>1 DEF Ordered
    <3> QED
      BY <3>2, <3>3
  <2> QED
    BY <1>5, <2>1, <2>2, <2>3 DEF Ordered
<1> HIDE DEF r, n
<1> QED
  BY <1>5, <1>6, <1>8, <1>9, <1>10 DEF r, n

(* A new friend stands first, and a full list loses its last.              *)
LEMMA PushShape ==
  ASSUME NEW b \in Badges, NEW list \in Seq(FriendRecord), Ordered(b, list),
         NEW f \in FriendRecord, f.id # b, ~Known(list, f.id),
         f.boost <= f.seen, \A i \in 1 .. Len(list) : list[i].seen <= f.seen
  PROVE  /\ Push(list, f) \in Seq(FriendRecord) /\ Ordered(b, Push(list, f))
         /\ Len(Push(list, f)) = IF Len(list) < FRIENDS_MAX THEN Len(list) + 1 ELSE FRIENDS_MAX
         /\ Push(list, f)[1] = f
         /\ \A i \in 2 .. Len(Push(list, f)) : Push(list, f)[i] = list[i - 1]
<1> DEFINE n == Len(list)
           m == IF n < FRIENDS_MAX THEN n + 1 ELSE FRIENDS_MAX
           r == Push(list, f)
<1>1. n \in Nat /\ m \in Nat /\ m >= 1 /\ m <= n + 1 /\ m <= FRIENDS_MAX /\ FRIENDS_MAX \in Nat
  BY FriendsAssumption DEF Ordered
<1>2. r = [i \in 1 .. m |-> IF i = 1 THEN f ELSE list[i - 1]]
  BY DEF Push
<1>3. \A i \in 1 .. n : list[i] \in FriendRecord
  BY RecordFields
<1>4. r \in Seq(FriendRecord) /\ Len(r) = m
  <2>1. \A i \in 1 .. m : r[i] \in FriendRecord
    BY <1>1, <1>2, <1>3
  <2> QED
    BY <1>1, <1>2, <2>1
<1>5. r[1] = f
  BY <1>1, <1>2
<1>6. \A i \in 2 .. m : r[i] = list[i - 1] /\ i - 1 \in 1 .. n
  BY <1>1, <1>2
<1>7. Ordered(b, r)
  <2>1. ASSUME NEW i \in 1 .. m
        PROVE  r[i].id # b /\ r[i].boost <= r[i].seen
    BY <1>5, <1>6 DEF Ordered
  <2>2. ASSUME NEW i \in 1 .. m, NEW j \in 1 .. i - 1
        PROVE  r[j].id # r[i].id /\ r[j].seen >= r[i].seen
    <3>1. i \in 2 .. m /\ i - 1 \in 1 .. n /\ r[i] = list[i - 1]
      BY <1>1, <1>6
    <3>2. CASE j = 1
      <4>1. list[i - 1].id # f.id
        BY <3>1 DEF Known
      <4>2. list[i - 1].seen <= f.seen /\ list[i - 1].seen \in Nat /\ f.seen \in Nat
        BY <3>1, RecordFields DEF FriendRecord
      <4> QED
        BY <1>5, <3>1, <3>2, <4>1, <4>2
    <3>3. CASE j # 1
      <4>1. j \in 2 .. m /\ j - 1 \in 1 .. (i - 1) - 1 /\ r[j] = list[j - 1]
        BY <1>1, <1>6, <3>1, <3>3
      <4> QED
        BY <3>1, <4>1 DEF Ordered
    <3> QED
      BY <3>2, <3>3
  <2> QED
    BY <1>1, <1>4, <2>1, <2>2 DEF Ordered
<1> HIDE DEF r, m, n
<1> QED
  BY <1>4, <1>5, <1>6, <1>7 DEF r, m, n

(* The lists hold the same friends at the same times.                      *)
SameTimes(l, m) ==
  /\ Len(l) = Len(m)
  /\ \A i \in 1 .. Len(m) : l[i].id = m[i].id /\ l[i].boost = m[i].boost /\ l[i].seen = m[i].seen

LEMMA SameTimesOrdered ==
  ASSUME NEW b, NEW l, NEW m \in Seq(FriendRecord), SameTimes(l, m), Ordered(b, m)
  PROVE  Ordered(b, l)
<1>1. \A i \in 1 .. Len(m) : \A j \in 1 .. i - 1 : j \in 1 .. Len(m)
  OBVIOUS
<1> QED
  BY <1>1 DEF SameTimes, Ordered

LEMMA WithResultShape ==
  ASSUME NEW f \in FriendRecord, NEW won \in BOOLEAN
  PROVE  LET g == WithResult(f, won)
         IN  /\ g \in FriendRecord /\ g.id = f.id /\ g.boost = f.boost /\ g.seen = f.seen
             /\ g.wins = f.wins + IF won THEN 1 ELSE 0
             /\ g.losses = f.losses + IF won THEN 0 ELSE 1
<1>1. f.wins \in Nat /\ f.losses \in Nat
  BY DEF FriendRecord
<1>2. CASE won
  BY <1>1, <1>2 DEF WithResult, FriendRecord
<1>3. CASE ~won
  BY <1>1, <1>3 DEF WithResult, FriendRecord
<1> QED
  BY <1>2, <1>3

(* A battle is counted for the friend it was fought with, and only there.  *)
LEMMA TalliedShape ==
  ASSUME NEW list \in Seq(FriendRecord), NEW id, NEW won \in BOOLEAN
  PROVE  /\ Tallied(list, id, won) \in Seq(FriendRecord)
         /\ SameTimes(Tallied(list, id, won), list)
         /\ \A i \in 1 .. Len(list) :
              LET hit == Known(list, id) /\ i = FindIndex(list, id)
              IN  /\ Tallied(list, id, won)[i].wins
                       = list[i].wins + IF hit /\ won THEN 1 ELSE 0
                  /\ Tallied(list, id, won)[i].losses
                       = list[i].losses + IF hit /\ ~won THEN 1 ELSE 0
<1>1. CASE ~Known(list, id)
  <2>1. \A i \in 1 .. Len(list) : list[i].wins \in Nat /\ list[i].losses \in Nat
    BY RecordFields
  <2> QED
    BY <1>1, <2>1 DEF Tallied, SameTimes
<1>2. CASE Known(list, id)
  <2> DEFINE k == FindIndex(list, id)
             f == WithResult(list[k], won)
             r == Tallied(list, id, won)
  <2>1. k \in 1 .. Len(list)
    BY <1>2, FindIndexFinds
  <2>2. r = [list EXCEPT ![k] = f]
    BY <1>2 DEF Tallied
  <2>3. list[k] \in FriendRecord
    BY <2>1, RecordFields
  <2>4. /\ f \in FriendRecord /\ f.id = list[k].id /\ f.boost = list[k].boost
        /\ f.seen = list[k].seen /\ f.wins = list[k].wins + IF won THEN 1 ELSE 0
        /\ f.losses = list[k].losses + IF won THEN 0 ELSE 1
    BY <2>3, WithResultShape
  <2> HIDE DEF f, k
  <2>5. r \in Seq(FriendRecord) /\ Len(r) = Len(list)
    BY <2>1, <2>2, <2>4
  <2>6. \A i \in 1 .. Len(list) : r[i] = IF i = k THEN f ELSE list[i]
    BY <2>1, <2>2
  <2>7. \A i \in 1 .. Len(list) : list[i].wins \in Nat /\ list[i].losses \in Nat
    BY RecordFields
  <2>8. SameTimes(r, list)
    BY <2>4, <2>5, <2>6 DEF SameTimes
  <2>9. ASSUME NEW i \in 1 .. Len(list)
        PROVE  /\ r[i].wins = list[i].wins + IF i = k /\ won THEN 1 ELSE 0
               /\ r[i].losses = list[i].losses + IF i = k /\ ~won THEN 1 ELSE 0
    <3>1. CASE i = k
      BY <2>4, <2>6, <2>7, <3>1
    <3>2. CASE i # k
      BY <2>6, <2>7, <3>2
    <3> QED
      BY <3>1, <3>2
  <2> QED
    BY <1>2, <2>5, <2>8, <2>9 DEF k
<1> QED
  BY <1>1, <1>2

(* Rebasing at uptime 0 makes every tick 0: the latest is the time the      *)
(* first friend was last seen.                                             *)
LEMMA RebasedShape ==
  ASSUME NEW b, NEW list \in Seq(FriendRecord), Ordered(b, list)
  PROVE  /\ Rebased(list) \in Seq(FriendRecord)
         /\ Len(Rebased(list)) = Len(list)
         /\ \A i \in 1 .. Len(list) :
              /\ Rebased(list)[i].id = list[i].id
              /\ Rebased(list)[i].seen = 0 /\ Rebased(list)[i].boost = 0
              /\ Rebased(list)[i].wins = list[i].wins
              /\ Rebased(list)[i].losses = list[i].losses
<1>1. CASE list = << >>
  BY <1>1 DEF Rebased
<1>2. CASE list # << >>
  <2> DEFINE n == Len(list)
             IsLatest(t) == t \in Stored(list) /\ \A u \in Stored(list) : u <= t
             latest == CHOOSE t \in Stored(list) : \A u \in Stored(list) : u <= t
  <2>1. n \in Nat /\ 1 \in 1 .. n
    BY <1>2
  <2>2. \A i \in 1 .. n : /\ list[i].seen \in Nat /\ list[i].boost \in Nat
                          /\ list[i].boost <= list[i].seen /\ list[i].seen <= list[1].seen
    <3> SUFFICES ASSUME NEW i \in 1 .. n
                 PROVE  /\ list[i].seen \in Nat /\ list[i].boost \in Nat
                        /\ list[i].boost <= list[i].seen /\ list[i].seen <= list[1].seen
      OBVIOUS
    <3>1. list[i].seen \in Nat /\ list[i].boost \in Nat /\ list[1].seen \in Nat
      BY <2>1, RecordFields
    <3>2. i = 1 \/ 1 \in 1 .. i - 1
      OBVIOUS
    <3> QED
      BY <3>1, <3>2 DEF Ordered
  <2>3. list[1].seen \in Stored(list) /\ \A u \in Stored(list) : u <= list[1].seen
    BY <2>1, <2>2 DEF Stored
  <2>4. latest \in Stored(list) /\ list[1].seen <= latest
    BY <2>3
  <2>5. latest \in Nat /\ \A i \in 1 .. n : list[i].seen <= latest /\ list[i].boost <= latest
    <3>1. latest \in Nat
      BY <2>2, <2>4 DEF Stored
    <3>2. ASSUME NEW i \in 1 .. n
          PROVE  list[i].seen <= latest /\ list[i].boost <= latest
      <4>1. list[1].seen \in Nat
        BY <2>1, <2>2
      <4>2. /\ list[i].seen \in Nat /\ list[i].boost \in Nat
            /\ list[i].boost <= list[i].seen /\ list[i].seen <= list[1].seen
        BY <2>2
      <4> HIDE DEF latest
      <4> QED
        BY <2>4, <3>1, <4>1, <4>2
    <3> QED
      BY <3>1, <3>2
  <2> HIDE DEF latest
  <2>6. Rebased(list) = [i \in 1 .. n |->
           [list[i] EXCEPT !.seen = Later(0, @ - latest), !.boost = Later(0, @ - latest)]]
    BY <1>2 DEF Rebased, latest
  <2>7. \A i \in 1 .. n : /\ Later(0, list[i].seen - latest) = 0
                          /\ Later(0, list[i].boost - latest) = 0
    BY <2>2, <2>5 DEF Later
  <2>8. \A i \in 1 .. n : list[i] \in FriendRecord
    BY RecordFields
  <2>9. \A i \in 1 .. n : /\ Rebased(list)[i] \in FriendRecord
                          /\ Rebased(list)[i].id = list[i].id
                          /\ Rebased(list)[i].seen = 0 /\ Rebased(list)[i].boost = 0
                          /\ Rebased(list)[i].wins = list[i].wins
                          /\ Rebased(list)[i].losses = list[i].losses
    <3> SUFFICES ASSUME NEW i \in 1 .. n
                 PROVE  /\ Rebased(list)[i] \in FriendRecord
                        /\ Rebased(list)[i].id = list[i].id
                        /\ Rebased(list)[i].seen = 0 /\ Rebased(list)[i].boost = 0
                        /\ Rebased(list)[i].wins = list[i].wins
                        /\ Rebased(list)[i].losses = list[i].losses
      OBVIOUS
    <3> DEFINE f == list[i]
    <3>1. Rebased(list)[i] = [f EXCEPT !.seen = Later(0, @ - latest), !.boost = Later(0, @ - latest)]
      BY <2>6
    <3>2. f \in FriendRecord /\ Later(0, f.seen - latest) = 0 /\ Later(0, f.boost - latest) = 0
      BY <2>7, <2>8
    <3> HIDE DEF f
    <3>3. Rebased(list)[i] = [f EXCEPT !.seen = 0, !.boost = 0]
      BY <3>1, <3>2
    <3>4. /\ Rebased(list)[i] \in FriendRecord /\ Rebased(list)[i].id = f.id
          /\ Rebased(list)[i].seen = 0 /\ Rebased(list)[i].boost = 0
          /\ Rebased(list)[i].wins = f.wins /\ Rebased(list)[i].losses = f.losses
      <4> DEFINE g == [f EXCEPT !.seen = 0]
      <4>1. /\ g \in FriendRecord /\ g.id = f.id /\ g.seen = 0
            /\ g.wins = f.wins /\ g.losses = f.losses
        BY <3>2 DEF FriendRecord
      <4>2. Rebased(list)[i] = [g EXCEPT !.boost = 0]
        BY <3>3
      <4> HIDE DEF g
      <4> QED
        BY <4>1, <4>2 DEF FriendRecord
    <3> QED
      BY <3>4 DEF f
  <2>10. Rebased(list) \in Seq(FriendRecord) /\ Len(Rebased(list)) = n
    <3> DEFINE r == Rebased(list)
    <3>1. r = [i \in 1 .. n |-> r[i]]
      BY <2>6
    <3>2. \A i \in 1 .. n : r[i] \in FriendRecord
      BY <2>9
    <3> HIDE DEF r, n
    <3>3. r \in Seq(FriendRecord) /\ Len(r) = n
      BY <2>1, <3>1, <3>2
    <3> QED
      BY <3>3 DEF r, n
  <2> QED
    BY <2>9, <2>10
<1> QED
  BY <1>1, <1>2

-----------------------------------------------------------------------------
(* The ring of seen packets.                                               *)

LEMMA LastSeenShape ==
  ASSUME NEW log \in Seq(Packets)
  PROVE  /\ LastSeen(log) \in Seq(Packets)
         /\ Len(LastSeen(log)) = IF Len(log) > SEEN THEN SEEN ELSE Len(log)
         /\ \A i \in 1 .. Len(LastSeen(log)) :
              LastSeen(log)[i] = log[i + Len(log) - Len(LastSeen(log))]
<1> DEFINE m == IF Len(log) > SEEN THEN Len(log) - SEEN + 1 ELSE 1
<1>1. SEEN \in Nat \ {0} /\ Len(log) \in Nat
  BY FriendsAssumption
<1>2. m \in Int /\ \A i \in m .. Len(log) : log[i] \in Packets
  <2>1. m \in Int /\ m >= 1
    BY <1>1
  <2> QED
    BY <2>1, ElementOfSeq
<1>3. /\ SubSeq(log, m, Len(log)) \in Seq(Packets)
      /\ Len(SubSeq(log, m, Len(log))) = IF m <= Len(log) THEN Len(log) - m + 1 ELSE 0
      /\ \A i \in 1 .. Len(log) - m + 1 : SubSeq(log, m, Len(log))[i] = log[m + i - 1]
  BY <1>1, <1>2, SubSeqProperties
<1> DEFINE l == LastSeen(log)
<1>4. /\ l \in Seq(Packets)
      /\ Len(l) = IF m <= Len(log) THEN Len(log) - m + 1 ELSE 0
      /\ \A i \in 1 .. Len(log) - m + 1 : l[i] = log[m + i - 1]
  BY <1>3 DEF LastSeen
<1> HIDE DEF l
<1>5. Len(l) = Len(log) - m + 1 /\ Len(l) = IF Len(log) > SEEN THEN SEEN ELSE Len(log)
  <2> DEFINE n == Len(log)
             k == Len(l)
  <2>1. n \in Nat /\ k = IF m <= n THEN n - m + 1 ELSE 0
    BY <1>4
  <2> HIDE DEF n, k
  <2>2. CASE n > SEEN
    <3>1. m = n - SEEN + 1
      BY <2>2 DEF n
    <3> QED
      BY <1>1, <2>1, <2>2, <3>1 DEF n, k
  <2>3. CASE ~(n > SEEN)
    <3>1. m = 1
      BY <2>3 DEF n
    <3> QED
      BY <1>1, <2>1, <2>3, <3>1 DEF n, k
  <2> QED
    BY <2>2, <2>3
<1>6. ASSUME NEW i \in 1 .. Len(l)
      PROVE  l[i] = log[i + Len(log) - Len(l)]
  <2>1. i \in 1 .. Len(log) - m + 1 /\ m + i - 1 = i + Len(log) - Len(l)
    BY <1>1, <1>2, <1>5
  <2> QED
    BY <1>4, <2>1
<1> QED
  BY <1>4, <1>5, <1>6 DEF l

(* Keeping the last packets of the ring and a new one is keeping the last  *)
(* packets of everything handled.                                          *)
LEMMA RingIsTail ==
  ASSUME NEW log \in Seq(Packets), NEW p \in Packets
  PROVE  LastSeen(Append(LastSeen(log), p)) = LastSeen(Append(log, p))
<1> DEFINE s == Append(LastSeen(log), p)
           t == Append(log, p)
           n == Len(log)
           k == Len(LastSeen(log))
<1>1. SEEN \in Nat \ {0} /\ n \in Nat /\ k \in Nat /\ k = (IF n > SEEN THEN SEEN ELSE n)
  BY FriendsAssumption, LastSeenShape
<1>2. s \in Seq(Packets) /\ t \in Seq(Packets) /\ Len(s) = k + 1 /\ Len(t) = n + 1
  BY LastSeenShape
<1>3. \A i \in 1 .. k + 1 : s[i] = t[i + n - k]
  <2>1. \A i \in 1 .. k : s[i] = LastSeen(log)[i] /\ i + n - k \in 1 .. n
    BY <1>1, LastSeenShape
  <2>2. \A i \in 1 .. n : t[i] = log[i]
    BY <1>1
  <2>3. s[k + 1] = p /\ t[n + 1] = p
    BY <1>1, LastSeenShape
  <2>4. \A i \in 1 .. k : s[i] = t[i + n - k]
    BY <2>1, <2>2, LastSeenShape
  <2> HIDE DEF k, n, s, t
  <2>5. k + 1 + n - k = n + 1 /\ \A i \in 1 .. k + 1 : i \in 1 .. k \/ i = k + 1
    BY <1>1
  <2> QED
    BY <2>3, <2>4, <2>5
<1> HIDE DEF s, t
<1> DEFINE l == Len(LastSeen(s))
<1>4. l = (IF k + 1 > SEEN THEN SEEN ELSE k + 1) /\ Len(LastSeen(t)) = (IF n + 1 > SEEN THEN SEEN ELSE n + 1)
  BY <1>2, LastSeenShape
<1> HIDE DEF l, k, n
<1>5. l = Len(LastSeen(t)) /\ l \in Nat /\ l <= k + 1
  BY <1>1, <1>4
<1> USE DEF l
<1>6. LastSeen(s) \in Seq(Packets) /\ LastSeen(t) \in Seq(Packets)
  BY <1>2, LastSeenShape
<1>7. \A i \in 1 .. l : LastSeen(s)[i] = LastSeen(t)[i]
  <2> SUFFICES ASSUME NEW i \in 1 .. l PROVE LastSeen(s)[i] = LastSeen(t)[i]
    OBVIOUS
  <2>1. LastSeen(s)[i] = s[i + (k + 1) - l]
    BY <1>2, LastSeenShape
  <2>2. LastSeen(t)[i] = t[i + (n + 1) - l]
    BY <1>2, <1>5, LastSeenShape
  <2>3. i + (k + 1) - l \in 1 .. k + 1 /\ (i + (k + 1) - l) + n - k = i + (n + 1) - l
    BY <1>1, <1>5
  <2> QED
    BY <1>3, <2>1, <2>2, <2>3
<1>8. LastSeen(s) = LastSeen(t)
  BY <1>5, <1>6, <1>7, SeqEqual
<1> QED
  BY <1>8 DEF s, t

LEMMA RingElements ==
  ASSUME NEW log \in Seq(Packets)
  PROVE  Elements(LastSeen(log)) \subseteq Elements(log)
<1> SUFFICES ASSUME NEW i \in 1 .. Len(LastSeen(log))
             PROVE  \E j \in 1 .. Len(log) : LastSeen(log)[i] = log[j]
  BY DEF Elements
<1>1. i + Len(log) - Len(LastSeen(log)) \in 1 .. Len(log)
  BY LastSeenShape, FriendsAssumption
<1> QED
  BY <1>1, LastSeenShape

LEMMA EmptyRing == LastSeen(<< >>) = << >> /\ Elements(<< >>) = {}
<1> DEFINE e == << >>
<1>1. e \in Seq(Packets) /\ Len(e) = 0 /\ SEEN \in Nat
  BY FriendsAssumption
<1> HIDE DEF e
<1>2. LastSeen(e) \in Seq(Packets) /\ Len(LastSeen(e)) = IF Len(e) > SEEN THEN SEEN ELSE Len(e)
  BY <1>1, LastSeenShape
<1>3. LastSeen(e) \in Seq(Packets) /\ Len(LastSeen(e)) = 0
  BY <1>1, <1>2
<1>4. LastSeen(e) = << >>
  BY <1>3, EmptySeq
<1> QED
  BY <1>1, <1>4 DEF Elements, e

-----------------------------------------------------------------------------
(* Tallies.                                                                *)

LEMMA TallyAt ==
  ASSUME NEW list \in Seq(FriendRecord), Unique(list)
  PROVE  /\ \A k \in 1 .. Len(list) :
              Tally(list, list[k].id) = <<list[k].wins, list[k].losses>>
         /\ \A id : ~Known(list, id) => Tally(list, id) = <<0, 0>>
<1>1. ASSUME NEW k \in 1 .. Len(list)
      PROVE  Tally(list, list[k].id) = <<list[k].wins, list[k].losses>>
  <2>1. Known(list, list[k].id) /\ FindIndex(list, list[k].id) = k
    BY FindIndexIs
  <2> QED
    BY <2>1 DEF Tally
<1>2. ASSUME NEW id, ~Known(list, id)
      PROVE  Tally(list, id) = <<0, 0>>
  BY <1>2 DEF Tally
<1> QED
  BY <1>1, <1>2

(* The records of l, in whatever order, carry the tallies of m.            *)
SameTallies(l, m) ==
  \A i \in 1 .. Len(l) : \E j \in 1 .. Len(m) :
     l[i].id = m[j].id /\ l[i].wins = m[j].wins /\ l[i].losses = m[j].losses

LEMMA SameTallyEverywhere ==
  ASSUME NEW l \in Seq(FriendRecord), NEW m \in Seq(FriendRecord), Unique(l), Unique(m),
         SameTallies(l, m), SameTallies(m, l), NEW id
  PROVE  Tally(l, id) = Tally(m, id)
<1>1. CASE Known(l, id)
  <2>1. PICK i \in 1 .. Len(l) : l[i].id = id
    BY <1>1 DEF Known
  <2>2. PICK j \in 1 .. Len(m) : l[i].id = m[j].id /\ l[i].wins = m[j].wins /\ l[i].losses = m[j].losses
    BY <2>1 DEF SameTallies
  <2>3. Tally(l, l[i].id) = <<l[i].wins, l[i].losses>> /\ Tally(m, m[j].id) = <<m[j].wins, m[j].losses>>
    BY TallyAt
  <2> QED
    BY <2>1, <2>2, <2>3
<1>2. CASE ~Known(l, id)
  <2>1. ~Known(m, id)
    BY <1>2 DEF Known, SameTallies
  <2> QED
    BY <1>2, <2>1, TallyAt
<1> QED
  BY <1>1, <1>2

-----------------------------------------------------------------------------
(* What a step does to the list of one badge.                              *)

ListsInv == ListTypes /\ OrderInv /\ BoostInv

(* Badge b's list after a step of b that happens at uptime now_tick(b):    *)
(* ordered, a boost is remembered and comes late enough, and a tally that  *)
(* changes without a battle excuses the pair.                              *)
ListAfter(b) ==
  /\ friends' \in [Badges -> Seq(FriendRecord)]
  /\ FRIENDS_DIRTY' \in [Badges -> BOOLEAN]
  /\ boosts' \in [Badges -> [Ids -> [at : Nat \cup {Never}, odd : BOOLEAN]]]
  /\ \A c \in Badges : c # b =>
        friends'[c] = friends[c] /\ FRIENDS_DIRTY'[c] = FRIENDS_DIRTY[c] /\ boosts'[c] = boosts[c]
  /\ Ordered(b, friends'[b])
  /\ \A i \in 1 .. Len(friends'[b]) : friends'[b][i].seen <= now_tick(b)
  /\ FRIENDS_DIRTY'[b] \/ (SameIds(friends'[b], friends[b]) /\ FRIENDS_DIRTY'[b] = FRIENDS_DIRTY[b])
  /\ \A i \in Ids :
       /\ boosts'[b][i].at # Never =>
            /\ boosts'[b][i].at <= clock
            /\ \E k \in 1 .. Len(friends'[b]) :
                  /\ friends'[b][k].id = i
                  /\ friends'[b][k].boost + boot[b] >= boosts'[b][i].at
       /\ boosts'[b][i].odd # boosts[b][i].odd /\ boosts[b][i].at # Never
            => clock - boosts[b][i].at >= FRIEND_BOOST_COOLDOWN_TICKS

TalliesKept(b) ==
  /\ excused \subseteq excused'
  /\ \A i \in Ids : Tally(friends'[b], i) # Tally(friends[b], i) => {b, i} \in excused'

LEMMA ListUntouched ==
  ASSUME ListsInv, NEW b \in Badges, UNCHANGED <<friends, FRIENDS_DIRTY, boosts>>
  PROVE  ListAfter(b)
<1> USE DEF ListsInv, ListTypes
<1>1. Ordered(b, friends[b]) /\ \A i \in 1 .. Len(friends[b]) : friends[b][i].seen <= now_tick(b)
  BY DEF OrderInv
<1>2. \A i \in Ids : boosts[b][i].at # Never => boosts[b][i].at <= clock /\ Remembers(b, i)
  BY DEF BoostInv
<1>3. SameIds(friends[b], friends[b])
  BY DEF SameIds
<1> QED
  BY <1>1, <1>2, <1>3 DEF ListAfter, Remembers

LEMMA RefreshStep ==
  ASSUME ListsInv, NEW b \in Badges, NEW id \in Ids, Known(friends[b], id),
         NEW f, f = friends[b][FindIndex(friends[b], id)],
         friends' = [friends EXCEPT ![b] = Refreshed(@,
            [f EXCEPT !.seen = now_tick(b), !.boost = IF BoostDue(f, now_tick(b)) THEN now_tick(b) ELSE @])],
         boosts' = IF BoostDue(f, now_tick(b)) THEN Boosted(b, id) ELSE boosts,
         FRIENDS_DIRTY' = [FRIENDS_DIRTY EXCEPT ![b] = TRUE], UNCHANGED excused
  PROVE  ListAfter(b) /\ TalliesKept(b)
<1> DEFINE list == friends[b]
           now == now_tick(b)
           k == FindIndex(friends[b], id)
           due == BoostDue(f, now)
           g == [f EXCEPT !.seen = now, !.boost = IF due THEN now ELSE @]
           new == Refreshed(list, g)
<1>0. /\ friends \in [Badges -> Seq(FriendRecord)] /\ FRIENDS_DIRTY \in [Badges -> BOOLEAN]
      /\ clock \in Nat /\ boot \in [Badges -> Nat] /\ boot[b] <= clock
      /\ boosts \in [Badges -> [Ids -> [at : Nat \cup {Never}, odd : BOOLEAN]]]
      /\ OrderInv /\ BoostInv
  BY DEF ListsInv, ListTypes
<1>1. list \in Seq(FriendRecord) /\ Ordered(b, list) /\ \A i \in 1 .. Len(list) : list[i].seen <= now
  BY <1>0 DEF OrderInv
<1>2. now \in Nat /\ clock \in Nat /\ boot[b] \in Nat /\ now = clock - boot[b] /\ FRIEND_BOOST_COOLDOWN_TICKS \in Nat
  BY <1>0, FriendsAssumption DEF now_tick
<1>3. k \in 1 .. Len(list) /\ list[k].id = id /\ f = list[k]
  BY <1>1, FindIndexFinds
<1>4. f \in FriendRecord /\ f.boost <= f.seen /\ f.seen <= now
  BY <1>1, <1>3, RecordFields DEF Ordered
<1> HIDE DEF due
<1>5. /\ g \in FriendRecord /\ g.id = id /\ g.seen = now /\ g.boost = IF due THEN now ELSE f.boost
      /\ g.wins = f.wins /\ g.losses = f.losses
  <2> DEFINE h == [f EXCEPT !.seen = now]
  <2>1. /\ h \in FriendRecord /\ h.id = f.id /\ h.seen = now /\ h.boost = f.boost
        /\ h.wins = f.wins /\ h.losses = f.losses
    BY <1>2, <1>4 DEF FriendRecord
  <2>2. g = [h EXCEPT !.boost = IF due THEN now ELSE @]
    OBVIOUS
  <2> HIDE DEF h, g
  <2>3. CASE due
    BY <1>2, <1>3, <2>1, <2>2, <2>3 DEF FriendRecord
  <2>4. CASE ~due
    BY <1>2, <1>3, <2>1, <2>2, <2>4 DEF FriendRecord
  <2> QED
    BY <2>3, <2>4
<1>6. friends' = [friends EXCEPT ![b] = new]
  BY DEF due
<1> HIDE DEF list, k, g, now
<1>7. g.boost <= g.seen /\ f.boost \in Nat
  <2>1. f.boost \in Nat /\ f.seen \in Nat
    BY <1>4 DEF FriendRecord
  <2>2. CASE due
    BY <1>2, <1>5, <2>1, <2>2
  <2>3. CASE ~due
    BY <1>2, <1>4, <1>5, <2>1, <2>3
  <2> QED
    BY <2>1, <2>2, <2>3
<1>8. /\ new \in Seq(FriendRecord) /\ Ordered(b, new) /\ Len(new) = Len(list)
      /\ new[1] = g
      /\ \A i \in 1 .. Len(list) : new[i] = g \/ \E j \in 1 .. Len(list) : j # k /\ new[i] = list[j]
      /\ \A j \in 1 .. Len(list) : j # k => \E i \in 1 .. Len(list) : new[i] = list[j]
  <2>1. g.id = list[k].id /\ \A i \in 1 .. Len(list) : list[i].seen <= g.seen
    BY <1>1, <1>3, <1>5
  <2>2. g \in FriendRecord /\ k \in 1 .. Len(list) /\ list \in Seq(FriendRecord) /\ Ordered(b, list)
    BY <1>1, <1>3, <1>5
  <2> QED
    BY <1>7, <2>1, <2>2, RefreshedShape
<1> HIDE DEF new
<1>9. 1 \in 1 .. Len(new)
  BY <1>1, <1>3, <1>8
<1>10. friends'[b] = new /\ \A c \in Badges : c # b => friends'[c] = friends[c]
  BY <1>0, <1>6
<1>11. friends' \in [Badges -> Seq(FriendRecord)]
  BY <1>0, <1>6, <1>8
<1>12. \A i \in 1 .. Len(new) : new[i].seen <= now
  <2> SUFFICES ASSUME NEW i \in 1 .. Len(list) PROVE new[i].seen <= now
    BY <1>8
  <2>1. CASE new[i] = g
    BY <1>2, <1>5, <2>1
  <2>2. ASSUME NEW j \in 1 .. Len(list), new[i] = list[j] PROVE new[i].seen <= now
    BY <1>1, <2>2
  <2> QED
    BY <1>8, <2>1, <2>2
<1>13. /\ boosts' \in [Badges -> [Ids -> [at : Nat \cup {Never}, odd : BOOLEAN]]]
       /\ \A c \in Badges : c # b => boosts'[c] = boosts[c]
       /\ \A i \in Ids : i # id => boosts'[b][i] = boosts[b][i]
       /\ due => boosts'[b][id].at = clock
       /\ ~due => boosts'[b][id] = boosts[b][id]
  <2>1. CASE due
    <3>1. boosts' = [boosts EXCEPT ![b][id] = [at |-> clock, odd |-> ~@.odd]]
      BY <2>1 DEF Boosted, due, now
    <3>2. boosts[b][id].odd \in BOOLEAN
      BY <1>0
    <3> DEFINE v == [at |-> clock, odd |-> ~boosts[b][id].odd]
    <3>3. v \in [at : Nat \cup {Never}, odd : BOOLEAN] /\ v.at = clock
      BY <1>2, <3>2
    <3>4. boosts' = [boosts EXCEPT ![b][id] = v]
      BY <3>1
    <3> HIDE DEF v
    <3> DEFINE row == [boosts[b] EXCEPT ![id] = v]
    <3>5. boosts' = [boosts EXCEPT ![b] = row]
      BY <3>4
    <3>6. row \in [Ids -> [at : Nat \cup {Never}, odd : BOOLEAN]]
      BY <1>0, <3>3
    <3>7. row[id] = v /\ \A i \in Ids : i # id => row[i] = boosts[b][i]
      BY <1>0
    <3> HIDE DEF row
    <3> QED
      BY <1>0, <2>1, <3>3, <3>5, <3>6, <3>7
  <2>2. CASE ~due
    <3>1. boosts' = boosts
      BY <2>2 DEF due, now
    <3> QED
      BY <1>0, <2>2, <3>1
  <2> QED
    BY <2>1, <2>2
<1>14. ASSUME NEW i \in Ids, boosts[b][i].at # Never
       PROVE  /\ boosts[b][i].at \in Nat /\ boosts[b][i].at <= clock
              /\ \E j \in 1 .. Len(list) : list[j].id = i /\ list[j].boost + boot[b] >= boosts[b][i].at
              /\ i = id => f.boost + boot[b] >= boosts[b][i].at
  <2>1. boosts[b][i].at \in Nat
    BY <1>0, <1>14
  <2>2. PICK j \in 1 .. Len(list) : list[j].id = i /\ list[j].boost + boot[b] >= boosts[b][i].at
    BY <1>0, <1>14 DEF BoostInv, Remembers, list
  <2>3. i = id => j = k
    BY <1>1, <1>3, <2>2, FindIndexIs, OrderedUnique DEF k, list
  <2> QED
    BY <1>0, <1>3, <1>14, <2>1, <2>2, <2>3 DEF BoostInv
<1>15. ASSUME NEW i \in Ids, boosts'[b][i].at # Never
       PROVE  /\ boosts'[b][i].at <= clock
              /\ \E j \in 1 .. Len(new) : new[j].id = i /\ new[j].boost + boot[b] >= boosts'[b][i].at
  <2>1. CASE i = id /\ due
    <3>1. boosts'[b][i].at = clock /\ new[1].id = i /\ new[1].boost + boot[b] = clock
      BY <1>2, <1>5, <1>8, <1>13, <2>1
    <3>2. clock <= clock /\ new[1].boost + boot[b] >= boosts'[b][i].at
      BY <1>2, <3>1
    <3> QED
      BY <1>9, <3>1, <3>2
  <2>2. CASE i = id /\ ~due
    <3>1. boosts'[b][i] = boosts[b][i] /\ new[1].id = i /\ new[1].boost = f.boost
      BY <1>5, <1>8, <1>13, <2>2
    <3> QED
      BY <1>9, <1>14, <1>15, <2>2, <3>1
  <2>3. CASE i # id
    <3>1. boosts'[b][i] = boosts[b][i]
      BY <1>13, <2>3
    <3>2. PICK j \in 1 .. Len(list) : list[j].id = i /\ list[j].boost + boot[b] >= boosts[b][i].at
      BY <1>14, <1>15, <3>1
    <3>3. PICK m \in 1 .. Len(list) : new[m] = list[j]
      BY <1>3, <1>8, <2>3, <3>2
    <3> QED
      BY <1>8, <1>14, <1>15, <3>1, <3>2, <3>3
  <2> QED
    BY <2>1, <2>2, <2>3
<1>16. ASSUME NEW i \in Ids, boosts'[b][i].odd # boosts[b][i].odd, boosts[b][i].at # Never
       PROVE  clock - boosts[b][i].at >= FRIEND_BOOST_COOLDOWN_TICKS
  <2>1. i = id /\ due
    BY <1>13, <1>16
  <2>2. now - f.boost >= FRIEND_BOOST_COOLDOWN_TICKS
    BY <2>1 DEF due, BoostDue
  <2>3. f.boost + boot[b] >= boosts[b][i].at /\ boosts[b][i].at \in Nat
    BY <1>14, <1>16, <2>1
  <2> QED
    BY <1>2, <1>7, <2>2, <2>3
<1>17. ListAfter(b)
  <2>1. FRIENDS_DIRTY' \in [Badges -> BOOLEAN] /\ FRIENDS_DIRTY'[b]
        /\ \A c \in Badges : c # b => FRIENDS_DIRTY'[c] = FRIENDS_DIRTY[c]
    BY <1>0
  <2>2. Ordered(b, friends'[b]) /\ \A i \in 1 .. Len(friends'[b]) : friends'[b][i].seen <= now_tick(b)
    BY <1>8, <1>10, <1>12 DEF now
  <2>3. boosts' \in [Badges -> [Ids -> [at : Nat \cup {Never}, odd : BOOLEAN]]]
        /\ \A c \in Badges : c # b => boosts'[c] = boosts[c]
    BY <1>13
  <2> QED
    BY <1>10, <1>11, <1>15, <1>16, <2>1, <2>2, <2>3 DEF ListAfter
<1>18. TalliesKept(b)
  <2>1. SameTallies(new, list)
    <3> SUFFICES ASSUME NEW i \in 1 .. Len(list)
                 PROVE  \E j \in 1 .. Len(list) : /\ new[i].id = list[j].id /\ new[i].wins = list[j].wins
                                                  /\ new[i].losses = list[j].losses
      BY <1>8 DEF SameTallies
    <3>1. CASE new[i] = g
      BY <1>3, <1>5, <3>1
    <3>2. CASE \E j \in 1 .. Len(list) : new[i] = list[j]
      BY <3>2
    <3> QED
      BY <1>8, <3>1, <3>2
  <2>2. SameTallies(list, new)
    <3> SUFFICES ASSUME NEW j \in 1 .. Len(list)
                 PROVE  \E i \in 1 .. Len(new) : /\ list[j].id = new[i].id /\ list[j].wins = new[i].wins
                                                 /\ list[j].losses = new[i].losses
      BY DEF SameTallies
    <3>1. CASE j = k
      BY <1>3, <1>5, <1>8, <1>9, <3>1
    <3>2. CASE j # k
      BY <1>8, <3>2
    <3> QED
      BY <3>1, <3>2
  <2>3. \A i : Tally(new, i) = Tally(list, i)
    BY <1>1, <1>8, <2>1, <2>2, SameTallyEverywhere, OrderedUnique
  <2> QED
    BY <1>10, <2>3 DEF TalliesKept, list
<1> QED
  BY <1>17, <1>18

LEMMA DifferingExcuses ==
  ASSUME NEW b, excused' = excused \cup Differing(b, friends[b], friends'[b])
  PROVE  TalliesKept(b)
<1>1. ASSUME NEW i \in Ids, Tally(friends'[b], i) # Tally(friends[b], i)
      PROVE  {b, i} \in excused'
  <2>1. Tally(friends[b], i) # Tally(friends'[b], i)
    BY <1>1
  <2>2. {b, i} \in Differing(b, friends[b], friends'[b])
    BY <2>1 DEF Differing
  <2> QED
    BY <2>2
<1> QED
  BY <1>1 DEF TalliesKept

LEMMA MeetStep ==
  ASSUME ListsInv, NEW b \in Badges, NEW id \in Ids, id # b, ~Known(friends[b], id),
         friends' = [friends EXCEPT ![b] = Push(@, NewFriend(id, now_tick(b)))],
         boosts' = [boosts EXCEPT ![b] = [i \in Ids |->
              IF i \in Displaced(friends[b]) THEN [@[i] EXCEPT !.at = Never]
              ELSE IF i = id THEN [at |-> clock, odd |-> ~@[i].odd]
              ELSE @[i]]],
         excused' = excused \cup Differing(b, friends[b], friends'[b]),
         FRIENDS_DIRTY' = [FRIENDS_DIRTY EXCEPT ![b] = TRUE]
  PROVE  ListAfter(b) /\ TalliesKept(b)
<1> DEFINE list == friends[b]
           now == now_tick(b)
           g == NewFriend(id, now)
           new == Push(list, g)
           BoostRow == [at : Nat \cup {Never}, odd : BOOLEAN]
           row == [i \in Ids |-> IF i \in Displaced(list) THEN [boosts[b][i] EXCEPT !.at = Never]
                                 ELSE IF i = id THEN [at |-> clock, odd |-> ~boosts[b][i].odd]
                                 ELSE boosts[b][i]]
<1>0. /\ friends \in [Badges -> Seq(FriendRecord)] /\ FRIENDS_DIRTY \in [Badges -> BOOLEAN]
      /\ clock \in Nat /\ boot \in [Badges -> Nat] /\ boot[b] <= clock
      /\ boosts \in [Badges -> [Ids -> BoostRow]]
      /\ OrderInv /\ BoostInv
  BY DEF ListsInv, ListTypes
<1>1. list \in Seq(FriendRecord) /\ Ordered(b, list) /\ \A i \in 1 .. Len(list) : list[i].seen <= now
  BY <1>0 DEF OrderInv
<1>2. now \in Nat /\ now = clock - boot[b] /\ FRIENDS_MAX \in Nat \ {0} /\ boot[b] \in Nat
  BY <1>0, FriendsAssumption DEF now_tick
<1> HIDE DEF now
<1>3. g \in FriendRecord /\ g.id = id /\ g.seen = now /\ g.boost = now
  BY <1>2 DEF NewFriend, FriendRecord
<1>4. friends' = [friends EXCEPT ![b] = new]
  BY DEF now
<1>5. boosts' = [boosts EXCEPT ![b] = row]
  BY <1>0
<1>6. ~Known(list, id)
  OBVIOUS
<1> HIDE DEF list, g
<1>7. /\ new \in Seq(FriendRecord) /\ Ordered(b, new)
      /\ Len(new) = IF Len(list) < FRIENDS_MAX THEN Len(list) + 1 ELSE FRIENDS_MAX
      /\ new[1] = g
      /\ \A i \in 2 .. Len(new) : new[i] = list[i - 1]
  <2>1. g.boost <= g.seen /\ \A i \in 1 .. Len(list) : list[i].seen <= g.seen
    BY <1>1, <1>2, <1>3
  <2> QED
    BY <1>1, <1>3, <1>6, <2>1, PushShape
<1> HIDE DEF new
<1>8. Len(list) \in Nat /\ Len(list) <= FRIENDS_MAX /\ Len(new) \in Nat /\ Len(new) >= 1
      /\ Len(new) - 1 <= Len(list)
  BY <1>1, <1>2, <1>7 DEF Ordered
<1>9. \A i \in 1 .. Len(new) : new[i].seen <= now
  <2> SUFFICES ASSUME NEW i \in 1 .. Len(new) PROVE new[i].seen <= now
    OBVIOUS
  <2>1. CASE i = 1
    BY <1>2, <1>3, <1>7, <2>1
  <2>2. CASE i # 1
    <3>1. i \in 2 .. Len(new) /\ i - 1 \in 1 .. Len(list)
      BY <1>8, <2>2
    <3> QED
      BY <1>1, <1>7, <3>1
  <2> QED
    BY <2>1, <2>2
<1>10. friends'[b] = new /\ \A c \in Badges : c # b => friends'[c] = friends[c]
  BY <1>0, <1>4
<1>11. friends' \in [Badges -> Seq(FriendRecord)]
  BY <1>0, <1>4, <1>7
<1>12. /\ row \in [Ids -> BoostRow]
       /\ \A i \in Ids : \/ i \in Displaced(list) /\ row[i].at = Never /\ row[i].odd = boosts[b][i].odd
                         \/ i \notin Displaced(list) /\ i = id /\ row[i].at = clock
                         \/ i \notin Displaced(list) /\ i # id /\ row[i] = boosts[b][i]
  <2> SUFFICES ASSUME NEW i \in Ids
               PROVE  /\ row[i] \in BoostRow
                      /\ \/ i \in Displaced(list) /\ row[i].at = Never /\ row[i].odd = boosts[b][i].odd
                         \/ i \notin Displaced(list) /\ i = id /\ row[i].at = clock
                         \/ i \notin Displaced(list) /\ i # id /\ row[i] = boosts[b][i]
    BY DEF Never
  <2> DEFINE e == boosts[b][i]
  <2>1. e \in BoostRow
    BY <1>0
  <2>2. row[i] = IF i \in Displaced(list) THEN [e EXCEPT !.at = Never]
                 ELSE IF i = id THEN [at |-> clock, odd |-> ~e.odd] ELSE e
    OBVIOUS
  <2> HIDE DEF e, row
  <2>3. CASE i \in Displaced(list)
    BY <2>1, <2>2, <2>3 DEF e
  <2>4. CASE i \notin Displaced(list) /\ i = id
    BY <1>0, <2>1, <2>2, <2>4
  <2>5. CASE i \notin Displaced(list) /\ i # id
    BY <2>1, <2>2, <2>5 DEF e
  <2> QED
    BY <2>3, <2>4, <2>5
<1>13. /\ boosts' \in [Badges -> [Ids -> BoostRow]] /\ boosts'[b] = row
       /\ \A c \in Badges : c # b => boosts'[c] = boosts[c]
  <2> HIDE DEF row
  <2> QED
    BY <1>0, <1>5, <1>12
<1> HIDE DEF row
<1>14. ASSUME NEW i \in Ids, boosts'[b][i].at # Never
       PROVE  /\ boosts'[b][i].at <= clock
              /\ \E k \in 1 .. Len(new) : new[k].id = i /\ new[k].boost + boot[b] >= boosts'[b][i].at
  <2>1. CASE i \notin Displaced(list) /\ i = id /\ row[i].at = clock
    <3>1. new[1].id = i /\ new[1].boost + boot[b] = clock /\ 1 \in 1 .. Len(new)
      BY <1>0, <1>2, <1>3, <1>7, <1>8, <2>1
    <3>2. boosts'[b][i].at = clock
      BY <1>13, <2>1
    <3>3. clock <= clock /\ new[1].boost + boot[b] >= boosts'[b][i].at
      BY <1>0, <3>1, <3>2
    <3> QED
      BY <3>1, <3>2, <3>3
  <2>2. CASE i \notin Displaced(list) /\ i # id /\ row[i] = boosts[b][i]
    <3>1. boosts'[b][i] = boosts[b][i]
      BY <1>13, <2>2
    <3>2. boosts[b][i].at <= clock /\ Remembers(b, i)
      BY <1>0, <1>14, <3>1 DEF BoostInv
    <3>3. PICK j \in 1 .. Len(list) : list[j].id = i /\ list[j].boost + boot[b] >= boosts[b][i].at
      BY <3>2 DEF Remembers, list
    <3>4. j # FRIENDS_MAX \/ Len(list) # FRIENDS_MAX
      BY <2>2, <3>3 DEF Displaced
    <3>5. j + 1 \in 2 .. Len(new) /\ (j + 1) - 1 = j
      BY <1>2, <1>7, <1>8, <3>4
    <3>6. new[j + 1] = list[j] /\ j + 1 \in 1 .. Len(new)
      BY <1>7, <3>5
    <3> QED
      BY <3>1, <3>2, <3>3, <3>6
  <2> QED
    BY <1>12, <1>13, <1>14, <2>1, <2>2
<1>15. ASSUME NEW i \in Ids, boosts'[b][i].odd # boosts[b][i].odd, boosts[b][i].at # Never
       PROVE  FALSE
  <2>1. i = id
    BY <1>12, <1>13, <1>15
  <2>2. Remembers(b, i)
    BY <1>0, <1>15 DEF BoostInv
  <2> QED
    BY <1>6, <2>1, <2>2 DEF Remembers, Known, list
<1>16. ListAfter(b)
  <2>1. FRIENDS_DIRTY' \in [Badges -> BOOLEAN] /\ FRIENDS_DIRTY'[b]
        /\ \A c \in Badges : c # b => FRIENDS_DIRTY'[c] = FRIENDS_DIRTY[c]
    BY <1>0
  <2>2. Ordered(b, friends'[b]) /\ \A i \in 1 .. Len(friends'[b]) : friends'[b][i].seen <= now_tick(b)
    BY <1>7, <1>9, <1>10 DEF now
  <2> QED
    BY <1>10, <1>11, <1>13, <1>14, <1>15, <2>1, <2>2 DEF ListAfter
<1> QED
  BY <1>16, DifferingExcuses

(* A battle is counted, or the records are reset: times and friends stay.  *)
LEMMA CountStep ==
  ASSUME ListsInv, NEW b \in Badges, NEW new \in Seq(FriendRecord), SameTimes(new, friends[b]),
         friends' = [friends EXCEPT ![b] = new], UNCHANGED boosts,
         FRIENDS_DIRTY' \in [Badges -> BOOLEAN], FRIENDS_DIRTY'[b] \/ ~FRIENDS_DIRTY[b],
         \A c \in Badges : c # b => FRIENDS_DIRTY'[c] = FRIENDS_DIRTY[c]
  PROVE  ListAfter(b)
<1>0. /\ friends \in [Badges -> Seq(FriendRecord)] /\ FRIENDS_DIRTY \in [Badges -> BOOLEAN]
      /\ boosts \in [Badges -> [Ids -> [at : Nat \cup {Never}, odd : BOOLEAN]]]
      /\ OrderInv /\ BoostInv
  BY DEF ListsInv, ListTypes
<1>1. friends'[b] = new /\ \A c \in Badges : c # b => friends'[c] = friends[c]
  BY <1>0
<1>2. friends' \in [Badges -> Seq(FriendRecord)]
  BY <1>0
<1>3. Ordered(b, new)
  BY <1>0, SameTimesOrdered DEF OrderInv
<1>4. \A i \in 1 .. Len(new) : new[i].seen <= now_tick(b)
  BY <1>0 DEF OrderInv, SameTimes
<1>5. SameIds(new, friends[b])
  BY DEF SameIds, SameTimes
<1>6. ASSUME NEW i \in Ids, boosts[b][i].at # Never
      PROVE  /\ boosts[b][i].at <= clock
             /\ \E k \in 1 .. Len(new) : new[k].id = i /\ new[k].boost + boot[b] >= boosts[b][i].at
  <2>1. boosts[b][i].at <= clock /\ Remembers(b, i)
    BY <1>0, <1>6 DEF BoostInv
  <2> QED
    BY <2>1 DEF Remembers, SameTimes
<1>7. FRIENDS_DIRTY'[b] \/ FRIENDS_DIRTY'[b] = FRIENDS_DIRTY[b]
  BY <1>0
<1> QED
  BY <1>0, <1>1, <1>2, <1>3, <1>4, <1>5, <1>6, <1>7 DEF ListAfter

LEMMA BeaconStep ==
  ASSUME ListsInv, NEW b \in Badges, NEW id \in Ids, OnPetBeacon(b, id)
  PROVE  ListAfter(b) /\ TalliesKept(b) /\ UNCHANGED flash
<1>1. CASE id = b /\ UNCHANGED <<lists, boosts, excused>>
  <2>1. UNCHANGED <<friends, FRIENDS_DIRTY, boosts, flash, excused>>
    BY <1>1 DEF lists
  <2> QED
    BY <2>1, ListUntouched DEF TalliesKept
<1>2. CASE /\ id # b /\ Known(friends[b], id)
           /\ \E f \in {friends[b][FindIndex(friends[b], id)]}, now \in {now_tick(b)} :
                /\ friends' = [friends EXCEPT ![b] = Refreshed(@,
                      [f EXCEPT !.seen = now, !.boost = IF BoostDue(f, now) THEN now ELSE @])]
                /\ boosts' = IF BoostDue(f, now) THEN Boosted(b, id) ELSE boosts
           /\ FRIENDS_DIRTY' = [FRIENDS_DIRTY EXCEPT ![b] = TRUE]
           /\ UNCHANGED <<flash, excused>>
  BY <1>2, RefreshStep
<1>3. CASE /\ id # b /\ ~Known(friends[b], id)
           /\ friends' = [friends EXCEPT ![b] = Push(@, NewFriend(id, now_tick(b)))]
           /\ boosts' = [boosts EXCEPT ![b] = [i \in Ids |->
                  IF i \in Displaced(friends[b]) THEN [@[i] EXCEPT !.at = Never]
                  ELSE IF i = id THEN [at |-> clock, odd |-> ~@[i].odd]
                  ELSE @[i]]]
           /\ excused' = excused \cup Differing(b, friends[b], friends'[b])
           /\ FRIENDS_DIRTY' = [FRIENDS_DIRTY EXCEPT ![b] = TRUE]
           /\ UNCHANGED flash
  BY <1>3, MeetStep
<1> QED
  BY <1>1, <1>2, <1>3 DEF OnPetBeacon

(* The list of a badge counts a battle with id, won or lost.               *)
Counted(b, id, won) ==
  /\ ListAfter(b)
  /\ \A i \in Ids : Tally(friends'[b], i) =
        IF i = id /\ Known(friends[b], id)
        THEN <<Tally(friends[b], i)[1] + IF won THEN 1 ELSE 0,
               Tally(friends[b], i)[2] + IF won THEN 0 ELSE 1>>
        ELSE Tally(friends[b], i)

LEMMA TalliedStep ==
  ASSUME ListsInv, NEW b \in Badges, NEW id \in Ids, NEW won \in BOOLEAN,
         friends' = [friends EXCEPT ![b] = Tallied(@, id, won)], UNCHANGED boosts,
         FRIENDS_DIRTY' \in [Badges -> BOOLEAN], FRIENDS_DIRTY'[b] \/ ~FRIENDS_DIRTY[b],
         \A c \in Badges : c # b => FRIENDS_DIRTY'[c] = FRIENDS_DIRTY[c]
  PROVE  Counted(b, id, won)
<1> DEFINE list == friends[b]
           new == Tallied(list, id, won)
           k == FindIndex(list, id)
<1>0. friends \in [Badges -> Seq(FriendRecord)] /\ list \in Seq(FriendRecord) /\ Ordered(b, list)
  BY DEF ListsInv, ListTypes, OrderInv
<1>1. /\ new \in Seq(FriendRecord) /\ SameTimes(new, list)
      /\ \A i \in 1 .. Len(list) :
            /\ new[i].wins = list[i].wins + IF (Known(list, id) /\ i = k) /\ won THEN 1 ELSE 0
            /\ new[i].losses = list[i].losses + IF (Known(list, id) /\ i = k) /\ ~won THEN 1 ELSE 0
  BY <1>0, TalliedShape
<1>2. ListAfter(b)
  BY <1>1, CountStep
<1>3. friends'[b] = new
  BY <1>0
<1>4. Unique(list) /\ Unique(new)
  BY <1>0, <1>1, OrderedUnique, SameTimesOrdered
<1> HIDE DEF new, list
<1>5. ASSUME NEW i \in Ids
      PROVE  Tally(new, i) = IF i = id /\ Known(list, id)
                             THEN <<Tally(list, i)[1] + IF won THEN 1 ELSE 0,
                                    Tally(list, i)[2] + IF won THEN 0 ELSE 1>>
                             ELSE Tally(list, i)
  <2>1. CASE ~Known(list, i)
    <3>1. ~Known(new, i)
      BY <1>1, <2>1 DEF Known, SameTimes
    <3> QED
      BY <1>0, <1>1, <1>4, <2>1, <3>1, TallyAt
  <2>2. CASE Known(list, i)
    <3>1. PICK j \in 1 .. Len(list) : list[j].id = i
      BY <2>2 DEF Known
    <3>2. j \in 1 .. Len(new) /\ new[j].id = i
      BY <1>1, <3>1 DEF SameTimes
    <3>3. Tally(list, i) = <<list[j].wins, list[j].losses>> /\ Tally(new, i) = <<new[j].wins, new[j].losses>>
      BY <1>0, <1>1, <1>4, <3>1, <3>2, TallyAt
    <3>4. list[j].wins \in Nat /\ list[j].losses \in Nat
      BY <1>0, <3>1, RecordFields
    <3>5. CASE i = id
      <4>1. j = k /\ Known(list, id)
        BY <1>0, <1>4, <2>2, <3>1, <3>5, FindIndexIs
      <4>2. CASE won
        BY <1>1, <3>1, <3>3, <3>4, <3>5, <4>1, <4>2
      <4>3. CASE ~won
        BY <1>1, <3>1, <3>3, <3>4, <3>5, <4>1, <4>3
      <4> QED
        BY <4>2, <4>3
    <3>6. CASE i # id
      <4>1. ~(Known(list, id) /\ j = k)
        BY <1>0, <3>1, <3>6, FindIndexFinds
      <4>2. new[j].wins = list[j].wins /\ new[j].losses = list[j].losses
        BY <1>1, <3>1, <3>4, <4>1
      <4> QED
        BY <3>3, <3>6, <4>2
    <3> QED
      BY <3>5, <3>6
  <2> QED
    BY <2>1, <2>2
<1> QED
  BY <1>2, <1>3, <1>5 DEF Counted, list

-----------------------------------------------------------------------------
(* The lists of all badges.                                                *)

BoostsLate ==
  \A b \in Badges, i \in Ids :
     boosts'[b][i].odd # boosts[b][i].odd /\ boosts[b][i].at # Never
     => clock - boosts[b][i].at >= FRIEND_BOOST_COOLDOWN_TICKS

LEMMA ListsAfter ==
  ASSUME ListsInv, NEW b \in Badges, ListAfter(b), UNCHANGED <<flash, clock, boot>>
  PROVE  ListsInv' /\ BoostsLate
<1>0. ListTypes /\ OrderInv /\ BoostInv
  BY DEF ListsInv
<1>1. ListTypes'
  BY <1>0 DEF ListTypes, ListAfter
<1>2. OrderInv'
  <2> SUFFICES ASSUME NEW c \in Badges
               PROVE  /\ Ordered(c, friends'[c]) /\ Ordered(c, flash[c])
                      /\ \A i \in 1 .. Len(friends'[c]) : friends'[c][i].seen <= now_tick(c)
    BY DEF OrderInv, now_tick
  <2>1. CASE c = b
    BY <1>0, <2>1 DEF OrderInv, ListAfter
  <2>2. CASE c # b
    BY <1>0, <2>2 DEF OrderInv, ListAfter
  <2> QED
    BY <2>1, <2>2
<1>3. BoostInv'
  <2> SUFFICES ASSUME NEW c \in Badges
               PROVE  /\ ~FRIENDS_DIRTY'[c] => SameIds(friends'[c], flash[c])
                      /\ \A i \in Ids : boosts'[c][i].at # Never =>
                           /\ boosts'[c][i].at <= clock
                           /\ \E k \in 1 .. Len(friends'[c]) :
                                friends'[c][k].id = i /\ friends'[c][k].boost + boot[c] >= boosts'[c][i].at
    BY DEF BoostInv, Remembers
  <2>1. CASE c = b
    <3>1. ~FRIENDS_DIRTY'[b] => SameIds(friends'[b], flash[b])
      <4> SUFFICES ASSUME ~FRIENDS_DIRTY'[b] PROVE SameIds(friends'[b], flash[b])
        OBVIOUS
      <4>1. SameIds(friends'[b], friends[b]) /\ SameIds(friends[b], flash[b])
        BY <1>0 DEF BoostInv, ListAfter
      <4> QED
        BY <4>1 DEF SameIds
    <3> QED
      BY <2>1, <3>1 DEF ListAfter
  <2>2. CASE c # b
    <3>1. /\ friends'[c] = friends[c] /\ FRIENDS_DIRTY'[c] = FRIENDS_DIRTY[c]
          /\ boosts'[c] = boosts[c]
      BY <2>2 DEF ListAfter
    <3>2. /\ ~FRIENDS_DIRTY[c] => SameIds(friends[c], flash[c])
          /\ \A i \in Ids : boosts[c][i].at # Never => boosts[c][i].at <= clock /\ Remembers(c, i)
      BY <1>0 DEF BoostInv
    <3> QED
      BY <3>1, <3>2 DEF Remembers
  <2> QED
    BY <2>1, <2>2
<1>4. BoostsLate
  <2> SUFFICES ASSUME NEW c \in Badges, NEW i \in Ids,
                      boosts'[c][i].odd # boosts[c][i].odd, boosts[c][i].at # Never
               PROVE  clock - boosts[c][i].at >= FRIEND_BOOST_COOLDOWN_TICKS
    BY DEF BoostsLate
  <2>1. c = b
    BY DEF ListAfter
  <2> QED
    BY <2>1 DEF ListAfter
<1> QED
  BY <1>1, <1>2, <1>3, <1>4 DEF ListsInv

(* A packet leaves the lists alone, or is a beacon or a result one badge    *)
(* acts upon.                                                              *)
LEMMA ListsIdle ==
  ASSUME ListsInv, UNCHANGED <<friends, flash, FRIENDS_DIRTY, boosts, clock, boot>>
  PROVE  ListsInv' /\ BoostsLate
<1>1. ListsInv'
  BY DEF ListsInv, ListTypes, OrderInv, now_tick, BoostInv, Remembers
<1> QED
  BY <1>1 DEF BoostsLate

LEMMA ListsTick ==
  ASSUME ListsInv, Tick
  PROVE  ListsInv' /\ BoostsLate
<1>0. ListTypes /\ OrderInv /\ BoostInv
  BY DEF ListsInv
<1>1. UNCHANGED <<friends, flash, FRIENDS_DIRTY, boosts, boot>> /\ clock' = clock + 1
  BY DEF Tick, lists, ghosts
<1>2. ListTypes'
  BY <1>0, <1>1 DEF ListTypes
<1>3. OrderInv'
  <2> SUFFICES ASSUME NEW c \in Badges
               PROVE  /\ Ordered(c, friends'[c]) /\ Ordered(c, flash'[c])
                      /\ \A i \in 1 .. Len(friends'[c]) : friends'[c][i].seen <= clock' - boot'[c]
    BY DEF OrderInv, now_tick
  <2>1. Ordered(c, friends[c]) /\ Ordered(c, flash[c])
    BY <1>0 DEF OrderInv
  <2>2. ASSUME NEW i \in 1 .. Len(friends[c])
        PROVE  friends[c][i].seen <= clock + 1 - boot[c]
    <3>1. friends[c][i].seen <= clock - boot[c]
      BY <1>0 DEF OrderInv, now_tick
    <3>2. friends[c][i].seen \in Nat /\ clock \in Nat /\ boot[c] \in Nat
      BY <1>0, RecordFields DEF ListTypes
    <3> QED
      BY <3>1, <3>2
  <2>3. /\ friends'[c] = friends[c] /\ flash'[c] = flash[c]
        /\ clock' = clock + 1 /\ boot'[c] = boot[c]
    BY <1>1
  <2>4. clock \in Nat /\ boot[c] \in Nat
    BY <1>0 DEF ListTypes
  <2> QED
    BY <2>1, <2>2, <2>3, <2>4
<1>4. BoostInv'
  <2>1. \A b \in Badges, i \in Ids : boosts[b][i].at # Never => boosts[b][i].at \in Nat
    BY <1>0 DEF ListTypes
  <2> SUFFICES ASSUME NEW b \in Badges, NEW i \in Ids, boosts[b][i].at # Never
               PROVE  boosts[b][i].at <= clock + 1
    BY <1>0, <1>1 DEF BoostInv, Remembers
  <2>2. boosts[b][i].at <= clock /\ boosts[b][i].at \in Nat /\ clock \in Nat
    BY <1>0, <2>1 DEF BoostInv, ListTypes
  <2> QED
    BY <2>2
<1>5. BoostsLate
  BY <1>1 DEF BoostsLate
<1> QED
  BY <1>2, <1>3, <1>4, <1>5 DEF ListsInv

LEMMA ListsSave ==
  ASSUME ListsInv, NEW b \in Badges, Save(b)
  PROVE  ListsInv' /\ BoostsLate
<1>0. ListTypes /\ OrderInv /\ BoostInv
  BY DEF ListsInv
<1>1. /\ UNCHANGED <<friends, boosts, boot, clock>>
      /\ flash' = [flash EXCEPT ![b] = friends[b]]
      /\ FRIENDS_DIRTY' = [FRIENDS_DIRTY EXCEPT ![b] = FALSE]
  BY DEF Save, ghosts
<1>2. ListTypes'
  BY <1>0, <1>1 DEF ListTypes
<1>3. /\ flash'[b] = friends[b] /\ \A c \in Badges : c # b => flash'[c] = flash[c]
      /\ \A c \in Badges : c # b => FRIENDS_DIRTY'[c] = FRIENDS_DIRTY[c]
  BY <1>0, <1>1 DEF ListTypes
<1>4. OrderInv'
  <2> SUFFICES ASSUME NEW c \in Badges PROVE Ordered(c, flash'[c])
    BY <1>0, <1>1 DEF OrderInv, now_tick
  <2> QED
    BY <1>0, <1>3 DEF OrderInv
<1>5. BoostInv'
  <2> SUFFICES ASSUME NEW c \in Badges, ~FRIENDS_DIRTY'[c] PROVE SameIds(friends[c], flash'[c])
    BY <1>0, <1>1 DEF BoostInv, Remembers
  <2>1. SameIds(friends[b], friends[b])
    BY DEF SameIds
  <2> QED
    BY <1>0, <1>3, <2>1 DEF BoostInv
<1>6. BoostsLate
  BY <1>1 DEF BoostsLate
<1> QED
  BY <1>2, <1>4, <1>5, <1>6 DEF ListsInv

LEMMA ListsRestart ==
  ASSUME ListsInv, NEW b \in Badges, Restart(b)
  PROVE  ListsInv' /\ BoostsLate
<1> DEFINE new == Rebased(flash[b])
           BoostRow == [at : Nat \cup {Never}, odd : BOOLEAN]
           gone == [i \in Ids |-> [boosts[b][i] EXCEPT !.at = Never]]
<1>0. ListTypes /\ OrderInv /\ BoostInv
  BY DEF ListsInv
<1>1. /\ UNCHANGED <<flash, clock>> /\ boot' = [boot EXCEPT ![b] = clock]
      /\ friends' = [friends EXCEPT ![b] = new]
      /\ FRIENDS_DIRTY' = [FRIENDS_DIRTY EXCEPT ![b] = FALSE]
      /\ boosts' = IF FRIENDS_DIRTY[b] THEN [boosts EXCEPT ![b] = gone] ELSE boosts
  BY DEF Restart
<1>2. /\ new \in Seq(FriendRecord) /\ Len(new) = Len(flash[b])
      /\ \A i \in 1 .. Len(new) : /\ new[i].id = flash[b][i].id
                                  /\ new[i].seen = 0 /\ new[i].boost = 0
  BY <1>0, RebasedShape DEF ListTypes, OrderInv
<1> HIDE DEF new
<1>3. /\ friends'[b] = new /\ boot'[b] = clock /\ ~FRIENDS_DIRTY'[b]
      /\ \A c \in Badges : c # b => /\ friends'[c] = friends[c] /\ boot'[c] = boot[c]
                                    /\ FRIENDS_DIRTY'[c] = FRIENDS_DIRTY[c]
  BY <1>0, <1>1 DEF ListTypes
<1>4. gone \in [Ids -> BoostRow] /\ \A i \in Ids : gone[i].at = Never /\ gone[i].odd = boosts[b][i].odd
  <2> SUFFICES ASSUME NEW i \in Ids
               PROVE  gone[i] \in BoostRow /\ gone[i].at = Never /\ gone[i].odd = boosts[b][i].odd
    OBVIOUS
  <2> DEFINE e == boosts[b][i]
  <2>1. e \in BoostRow
    BY <1>0 DEF ListTypes
  <2>2. gone[i] = [e EXCEPT !.at = Never]
    OBVIOUS
  <2> HIDE DEF e, gone
  <2> QED
    BY <2>1, <2>2 DEF e
<1> HIDE DEF gone
<1>5. /\ boosts' \in [Badges -> [Ids -> BoostRow]]
      /\ \A c \in Badges : c # b => boosts'[c] = boosts[c]
      /\ \A i \in Ids : boosts'[b][i].odd = boosts[b][i].odd
      /\ \A i \in Ids : \/ boosts'[b][i].at = Never
                        \/ ~FRIENDS_DIRTY[b] /\ boosts'[b][i].at = boosts[b][i].at
  <2>1. CASE FRIENDS_DIRTY[b]
    BY <1>0, <1>1, <1>4, <2>1 DEF ListTypes
  <2>2. CASE ~FRIENDS_DIRTY[b]
    BY <1>0, <1>1, <2>2 DEF ListTypes
  <2> QED
    BY <2>1, <2>2
<1>6. ListTypes'
  <2>1. \A c \in Badges : boot'[c] \in Nat /\ boot'[c] <= clock
    BY <1>0, <1>3 DEF ListTypes
  <2>2. boot' \in [Badges -> Nat] /\ friends' \in [Badges -> Seq(FriendRecord)]
        /\ FRIENDS_DIRTY' \in [Badges -> BOOLEAN]
    BY <1>0, <1>1, <1>2 DEF ListTypes
  <2> QED
    BY <1>0, <1>1, <1>5, <2>1, <2>2 DEF ListTypes
<1>7. OrderInv'
  <2> SUFFICES ASSUME NEW c \in Badges
               PROVE  /\ Ordered(c, friends'[c])
                      /\ \A i \in 1 .. Len(friends'[c]) : friends'[c][i].seen <= clock - boot'[c]
    BY <1>0, <1>1 DEF OrderInv, now_tick
  <2>1. CASE c = b
    <3>1. Ordered(b, new)
      <4>1. Ordered(b, flash[b])
        BY <1>0 DEF OrderInv
      <4>2. \A i \in 1 .. Len(new) : \A j \in 1 .. i - 1 : j \in 1 .. Len(new)
        OBVIOUS
      <4> QED
        BY <1>2, <4>1, <4>2 DEF Ordered
    <3>2. clock - clock = 0
      BY <1>0 DEF ListTypes
    <3> QED
      BY <1>2, <1>3, <2>1, <3>1, <3>2
  <2>2. CASE c # b
    BY <1>0, <1>3, <2>2 DEF OrderInv, now_tick
  <2> QED
    BY <2>1, <2>2
<1>8. BoostInv'
  <2> SUFFICES ASSUME NEW c \in Badges
               PROVE  /\ ~FRIENDS_DIRTY'[c] => SameIds(friends'[c], flash[c])
                      /\ \A i \in Ids : boosts'[c][i].at # Never =>
                           /\ boosts'[c][i].at <= clock
                           /\ \E k \in 1 .. Len(friends'[c]) :
                                friends'[c][k].id = i /\ friends'[c][k].boost + boot'[c] >= boosts'[c][i].at
    BY <1>1 DEF BoostInv, Remembers
  <2>1. CASE c = b
    <3>1. SameIds(new, flash[b])
      BY <1>2 DEF SameIds
    <3>2. ASSUME NEW i \in Ids, boosts'[b][i].at # Never
          PROVE  /\ boosts'[b][i].at <= clock
                 /\ \E k \in 1 .. Len(new) : new[k].id = i /\ new[k].boost + clock >= boosts'[b][i].at
      <4>1. ~FRIENDS_DIRTY[b] /\ boosts'[b][i].at = boosts[b][i].at
        BY <1>5, <3>2
      <4>2. boosts[b][i].at <= clock /\ Remembers(b, i) /\ SameIds(friends[b], flash[b])
        BY <1>0, <3>2, <4>1 DEF BoostInv
      <4>3. PICK k \in 1 .. Len(friends[b]) : friends[b][k].id = i
        BY <4>2 DEF Remembers
      <4>4. k \in 1 .. Len(new) /\ new[k].id = i /\ new[k].boost = 0
        BY <1>2, <4>2, <4>3 DEF SameIds
      <4>5. 0 + clock = clock
        BY <1>0 DEF ListTypes
      <4> QED
        BY <4>1, <4>2, <4>4, <4>5
    <3> QED
      BY <1>3, <2>1, <3>1, <3>2
  <2>2. CASE c # b
    <3>1. /\ friends'[c] = friends[c] /\ FRIENDS_DIRTY'[c] = FRIENDS_DIRTY[c]
          /\ boosts'[c] = boosts[c] /\ boot'[c] = boot[c]
      BY <1>3, <1>5, <2>2
    <3>2. /\ ~FRIENDS_DIRTY[c] => SameIds(friends[c], flash[c])
          /\ \A i \in Ids : boosts[c][i].at # Never => boosts[c][i].at <= clock /\ Remembers(c, i)
      BY <1>0 DEF BoostInv
    <3> QED
      BY <3>1, <3>2 DEF Remembers
  <2> QED
    BY <2>1, <2>2
<1>9. BoostsLate
  BY <1>5 DEF BoostsLate
<1> QED
  BY <1>6, <1>7, <1>8, <1>9 DEF ListsInv

-----------------------------------------------------------------------------
(* The packets.                                                            *)

Seen(b) == Elements(GRP_DATA_SEEN[b])

(* The ring holds the last packets of those handled; a result that was     *)
(* sent is on its way, handled by its target, or its pair is excused.      *)
NetInv ==
  /\ NetTypes
  /\ \A b \in Badges : GRP_DATA_SEEN[b] = LastSeen(handled[b].log) /\ Seen(b) \subseteq handled[b].ever
  /\ \A p \in said : p.target # p.from
  /\ \A c \in air : c.p.kind = "result" => c.p \in said
  /\ \A b \in Badges : \A p \in handled[b].ever : p.kind = "result" => p \in said
  /\ \A p \in said : p.target \in Badges /\ {p.from, p.target} \notin excused =>
        p \in handled[p.target].ever \/ \E c \in air : c.to = p.target /\ c.p = p

LEMMA PacketFields ==
  /\ \A p \in Results : /\ p.kind = "result" /\ p.from \in Badges /\ p.target \in Ids
                        /\ p.won \in BOOLEAN
  /\ \A p \in Packets : \/ p.kind = "beacon" /\ p.from \in Ids
                        \/ p.kind = "result" /\ p \in Results
<1>1. ASSUME NEW p \in Results
      PROVE  /\ p.kind = "result" /\ p.from \in Badges /\ p.target \in Ids
             /\ p.won \in BOOLEAN
  <2>1. PICK b \in Badges, t \in Ids, o \in Outcomes : p = Result(b, t, o)
    BY DEF Results
  <2> QED
    BY <2>1, FriendsAssumption DEF Result
<1>2. ASSUME NEW p \in Beacons
      PROVE  p.kind = "beacon" /\ p.from \in Ids
  <2>1. PICK i \in Ids, snap \in Snaps : p = Beacon(i, snap)
    BY DEF Beacons
  <2> QED
    BY <2>1 DEF Beacon
<1> QED
  BY <1>1, <1>2 DEF Packets

(* What a badge that admits a packet remembers.                            *)
Admitted(b, p) ==
  /\ p \notin Seen(b)
  /\ GRP_DATA_SEEN' \in [Badges -> Seq(Packets)]
  /\ handled' \in [Badges -> [log : Seq(Packets), ever : SUBSET Packets]]
  /\ handled'[b].ever = handled[b].ever \cup {p}
  /\ handled'[b].log = Append(handled[b].log, p)
  /\ \A c \in Badges : c # b => handled'[c] = handled[c]
  /\ \A c \in Badges :
        /\ GRP_DATA_SEEN'[c] = LastSeen(handled'[c].log)
        /\ Elements(GRP_DATA_SEEN'[c]) \subseteq handled'[c].ever

LEMMA AdmitStep ==
  ASSUME NetInv, NEW b \in Badges, NEW p \in Packets, Admit(b, p)
  PROVE  Admitted(b, p)
<1> DEFINE ring == GRP_DATA_SEEN[b]
           log == handled[b].log
           new == LastSeen(Append(ring, p))
           rec == [log |-> Append(log, p), ever |-> handled[b].ever \cup {p}]
<1>0. /\ GRP_DATA_SEEN \in [Badges -> Seq(Packets)]
      /\ handled \in [Badges -> [log : Seq(Packets), ever : SUBSET Packets]]
      /\ \A c \in Badges : GRP_DATA_SEEN[c] = LastSeen(handled[c].log) /\ Seen(c) \subseteq handled[c].ever
  BY DEF NetInv, NetTypes
<1>1. /\ p \notin Seen(b) /\ GRP_DATA_SEEN' = [GRP_DATA_SEEN EXCEPT ![b] = new]
      /\ handled' = [handled EXCEPT ![b] = rec]
  BY DEF Admit, Seen
<1>2. log \in Seq(Packets) /\ handled[b].ever \subseteq Packets /\ ring \in Seq(Packets) /\ ring = LastSeen(log)
  BY <1>0
<1>3. Append(ring, p) \in Seq(Packets) /\ Append(log, p) \in Seq(Packets)
  BY <1>2
<1>4. new = LastSeen(Append(log, p)) /\ new \in Seq(Packets)
  BY <1>2, <1>3, RingIsTail, LastSeenShape
<1>5. Elements(new) \subseteq handled[b].ever \cup {p}
  <2>1. Elements(new) \subseteq Elements(Append(ring, p))
    BY <1>3, RingElements
  <2>2. Elements(Append(ring, p)) \subseteq Elements(ring) \cup {p}
    BY <1>2 DEF Elements
  <2> QED
    BY <1>0, <2>1, <2>2 DEF Seen
<1>6. rec \in [log : Seq(Packets), ever : SUBSET Packets]
  BY <1>2, <1>3
<1>7. rec.log = Append(log, p) /\ rec.ever = handled[b].ever \cup {p}
  OBVIOUS
<1> HIDE DEF new, rec, log, ring
<1>8. /\ GRP_DATA_SEEN' \in [Badges -> Seq(Packets)] /\ GRP_DATA_SEEN'[b] = new
      /\ \A c \in Badges : c # b => GRP_DATA_SEEN'[c] = GRP_DATA_SEEN[c]
  BY <1>0, <1>1, <1>4
<1>9. /\ handled' \in [Badges -> [log : Seq(Packets), ever : SUBSET Packets]] /\ handled'[b] = rec
      /\ \A c \in Badges : c # b => handled'[c] = handled[c]
  BY <1>0, <1>1, <1>6
<1>10. ASSUME NEW c \in Badges
       PROVE  /\ GRP_DATA_SEEN'[c] = LastSeen(handled'[c].log)
              /\ Elements(GRP_DATA_SEEN'[c]) \subseteq handled'[c].ever
  <2>1. CASE c = b
    BY <1>4, <1>5, <1>7, <1>8, <1>9, <2>1
  <2>2. CASE c # b
    BY <1>0, <1>8, <1>9, <2>2 DEF Seen
  <2> QED
    BY <2>1, <2>2
<1> QED
  BY <1>1, <1>7, <1>8, <1>9, <1>10 DEF Admitted, log

-----------------------------------------------------------------------------
(* The tallies of two badges.                                              *)

(* The results a sent to b, won or lost, that b has not handled.           *)
OnWay(a, b, w) == {p \in said : p.from = a /\ p.target = b /\ p.won = w /\ p \notin handled[b].ever}
Balanced(a, b) ==
  Tally(friends[a], b)[1] + Cardinality(OnWay(b, a, FALSE))
    = Tally(friends[b], a)[2] + Cardinality(OnWay(a, b, TRUE))
TallyInv == \A a, b \in Badges : a # b /\ {a, b} \notin excused => Balanced(a, b)

LEMMA TallyNat ==
  ASSUME NEW list \in Seq(FriendRecord), NEW id
  PROVE  Tally(list, id)[1] \in Nat /\ Tally(list, id)[2] \in Nat
<1>1. CASE Known(list, id)
  <2>1. FindIndex(list, id) \in 1 .. Len(list)
    BY <1>1, FindIndexFinds
  <2> QED
    BY <1>1, <2>1, RecordFields DEF Tally
<1>2. CASE ~Known(list, id)
  BY <1>2 DEF Tally
<1> QED
  BY <1>1, <1>2

LEMMA OnWayFinite ==
  ASSUME NetTypes, NEW a, NEW b, NEW w
  PROVE  IsFiniteSet(OnWay(a, b, w)) /\ Cardinality(OnWay(a, b, w)) \in Nat
<1>1. OnWay(a, b, w) \subseteq said /\ IsFiniteSet(said)
  BY DEF OnWay, NetTypes
<1> QED
  BY <1>1, FS_Subset, FS_CardinalityType

(* No result was sent or counted: what changed is excused.                 *)
LEMMA TalliesIdle ==
  ASSUME TallyInv, said' = said, excused \subseteq excused',
         \A b \in Badges : \A i \in Ids : Tally(friends'[b], i) # Tally(friends[b], i) => {b, i} \in excused',
         \A b \in Badges : \A p \in said : p \in handled'[b].ever <=> p \in handled[b].ever
  PROVE  TallyInv'
<1> SUFFICES ASSUME NEW a \in Badges, NEW b \in Badges, a # b, {a, b} \notin excused'
             PROVE  Balanced(a, b)'
  BY DEF TallyInv
<1>1. a \in Ids /\ b \in Ids /\ {b, a} = {a, b}
  BY DEF Ids
<1>2. Tally(friends'[a], b) = Tally(friends[a], b) /\ Tally(friends'[b], a) = Tally(friends[b], a)
  BY <1>1
<1>3. OnWay(b, a, FALSE)' = OnWay(b, a, FALSE) /\ OnWay(a, b, TRUE)' = OnWay(a, b, TRUE)
  BY DEF OnWay
<1>4. Balanced(a, b)
  BY DEF TallyInv
<1> QED
  BY <1>2, <1>3, <1>4 DEF Balanced

(* A battle is decided: the challenger counts it, the result is on its way. *)
LEMMA TalliesChallenge ==
  ASSUME ListsInv, NetInv, TallyInv, NEW a \in Badges, NEW t \in Ids, NEW p \in Results,
         p.from = a, p.target = t, t # a, Known(friends[a], t), Counted(a, t, p.won),
         said' = said \cup {p}, UNCHANGED handled,
         excused' = excused \cup (IF p \in said THEN {{a, t}} ELSE {})
  PROVE  TallyInv'
<1> SUFFICES ASSUME NEW x \in Badges, NEW y \in Badges, x # y, {x, y} \notin excused'
             PROVE  Balanced(x, y)'
  BY DEF TallyInv
<1>1. x \in Ids /\ y \in Ids /\ Balanced(x, y)
  BY DEF Ids, TallyInv
<1>2. p.won \in BOOLEAN
  BY PacketFields
<1>3. /\ \A c \in Badges : c # a => friends'[c] = friends[c]
      /\ \A i \in Ids : i # t => Tally(friends'[a], i) = Tally(friends[a], i)
      /\ Tally(friends'[a], t) = <<Tally(friends[a], t)[1] + IF p.won THEN 1 ELSE 0,
                                  Tally(friends[a], t)[2] + IF p.won THEN 0 ELSE 1>>
  BY DEF Counted, ListAfter
<1>4. /\ \A id : Tally(friends[x], id)[1] \in Nat /\ Tally(friends[x], id)[2] \in Nat
      /\ \A id : Tally(friends[y], id)[1] \in Nat /\ Tally(friends[y], id)[2] \in Nat
  BY TallyNat DEF ListsInv, ListTypes
<1>5. \A u, v, w : /\ IsFiniteSet(OnWay(u, v, w)) /\ Cardinality(OnWay(u, v, w)) \in Nat
  BY OnWayFinite DEF NetInv
<1>6. \A u, v, w : OnWay(u, v, w)' = IF /\ u = a /\ v = t /\ w = p.won /\ p \notin handled[t].ever
                                     THEN OnWay(u, v, w) \cup {p} ELSE OnWay(u, v, w)
  BY DEF OnWay
<1>10. /\ Tally(friends[x], y)[1] \in Nat /\ Tally(friends[y], x)[2] \in Nat
       /\ Cardinality(OnWay(y, x, FALSE)) \in Nat /\ Cardinality(OnWay(x, y, TRUE)) \in Nat
  BY <1>4, <1>5
<1>7. CASE x = a /\ y = t
  <2>1. p \notin said
    BY <1>7
  <2>2. p \notin handled[t].ever /\ p \notin OnWay(x, y, TRUE)
    BY <1>7, <2>1, PacketFields DEF NetInv, OnWay
  <2>3. OnWay(y, x, FALSE)' = OnWay(y, x, FALSE) /\ friends'[y] = friends[y]
    BY <1>3, <1>6, <1>7
  <2>4. CASE p.won
    <3>1. OnWay(x, y, TRUE)' = OnWay(x, y, TRUE) \cup {p}
      BY <1>6, <1>7, <2>2, <2>4
    <3>2. Cardinality(OnWay(x, y, TRUE)') = Cardinality(OnWay(x, y, TRUE)) + 1
      BY <1>5, <2>2, <3>1, FS_AddElement
    <3>3. Tally(friends'[x], y)[1] = Tally(friends[x], y)[1] + 1
      BY <1>3, <1>7, <2>4
    <3> QED
      <4> DEFINE g == Tally(friends[x], y)[1]
                 u == Tally(friends[y], x)[2]
                 c == Cardinality(OnWay(y, x, FALSE))
                 d == Cardinality(OnWay(x, y, TRUE))
      <4>1. g \in Nat /\ u \in Nat /\ c \in Nat /\ d \in Nat /\ g + c = u + d
        BY <1>1, <1>10 DEF Balanced
      <4>2. /\ Tally(friends'[x], y)[1] = g + 1 /\ Tally(friends'[y], x)[2] = u
            /\ Cardinality(OnWay(y, x, FALSE)') = c
            /\ Cardinality(OnWay(x, y, TRUE)') = d + 1
        BY <2>3, <3>2, <3>3
      <4> HIDE DEF g, u, c, d
      <4>3. (g + 1) + c = u + (d + 1)
        BY <4>1
      <4>4. Tally(friends'[x], y)[1] + Cardinality(OnWay(y, x, FALSE)')
              = Tally(friends'[y], x)[2] + Cardinality(OnWay(x, y, TRUE)')
        BY <4>2, <4>3
      <4> QED
        BY <4>4 DEF Balanced
  <2>5. CASE ~p.won
    <3>1. OnWay(x, y, TRUE)' = OnWay(x, y, TRUE)
      BY <1>2, <1>6, <2>5
    <3>2. Tally(friends'[x], y)[1] = Tally(friends[x], y)[1]
      BY <1>3, <1>4, <1>7, <2>5
    <3> QED
      BY <1>1, <2>3, <3>1, <3>2 DEF Balanced
  <2> QED
    BY <2>4, <2>5
<1>8. CASE y = a /\ x = t
  <2>1. p \notin said
    <3>1. {x, y} = {a, t}
      BY <1>8
    <3> QED
      BY <3>1
  <2>2. p \notin handled[t].ever /\ p \notin OnWay(y, x, FALSE)
    BY <1>8, <2>1, PacketFields DEF NetInv, OnWay
  <2>3. OnWay(x, y, TRUE)' = OnWay(x, y, TRUE) /\ friends'[x] = friends[x]
    BY <1>3, <1>6, <1>8
  <2>4. CASE ~p.won
    <3>1. OnWay(y, x, FALSE)' = OnWay(y, x, FALSE) \cup {p}
      BY <1>2, <1>6, <1>8, <2>2, <2>4
    <3>2. Cardinality(OnWay(y, x, FALSE)') = Cardinality(OnWay(y, x, FALSE)) + 1
      BY <1>5, <2>2, <3>1, FS_AddElement
    <3>3. Tally(friends'[y], x)[2] = Tally(friends[y], x)[2] + 1
      BY <1>3, <1>8, <2>4
    <3> QED
      <4> DEFINE g == Tally(friends[x], y)[1]
                 u == Tally(friends[y], x)[2]
                 c == Cardinality(OnWay(y, x, FALSE))
                 d == Cardinality(OnWay(x, y, TRUE))
      <4>1. g \in Nat /\ u \in Nat /\ c \in Nat /\ d \in Nat /\ g + c = u + d
        BY <1>1, <1>10 DEF Balanced
      <4>2. /\ Tally(friends'[x], y)[1] = g /\ Tally(friends'[y], x)[2] = u + 1
            /\ Cardinality(OnWay(y, x, FALSE)') = c + 1
            /\ Cardinality(OnWay(x, y, TRUE)') = d
        BY <2>3, <3>2, <3>3
      <4> HIDE DEF g, u, c, d
      <4>3. g + (c + 1) = (u + 1) + d
        <5>1. g + (c + 1) = (g + c) + 1 /\ (u + 1) + d = (u + d) + 1
          BY <4>1
        <5> QED
          BY <4>1, <5>1
      <4>4. Tally(friends'[x], y)[1] + Cardinality(OnWay(y, x, FALSE)')
              = Tally(friends'[y], x)[2] + Cardinality(OnWay(x, y, TRUE)')
        BY <4>2, <4>3
      <4> QED
        BY <4>4 DEF Balanced
  <2>5. CASE p.won
    <3>1. OnWay(y, x, FALSE)' = OnWay(y, x, FALSE)
      BY <1>2, <1>6, <2>5
    <3>2. Tally(friends'[y], x)[2] = Tally(friends[y], x)[2]
      BY <1>3, <1>4, <1>8, <2>5
    <3> QED
      BY <1>1, <2>3, <3>1, <3>2 DEF Balanced
  <2> QED
    BY <2>4, <2>5
<1>9. CASE ~(x = a /\ y = t) /\ ~(y = a /\ x = t)
  <2>1. OnWay(x, y, TRUE)' = OnWay(x, y, TRUE) /\ OnWay(y, x, FALSE)' = OnWay(y, x, FALSE)
    BY <1>6, <1>9
  <2>2. Tally(friends'[x], y) = Tally(friends[x], y) /\ Tally(friends'[y], x) = Tally(friends[y], x)
    BY <1>1, <1>3, <1>9
  <2> QED
    BY <1>1, <2>1, <2>2 DEF Balanced
<1> QED
  BY <1>7, <1>8, <1>9

(* The result reaches the badge that was challenged, which counts it, too. *)
LEMMA TalliesResult ==
  ASSUME ListsInv, NetInv, TallyInv, NEW b \in Badges, NEW p \in said, p.target = b,
         Admitted(b, p), Counted(b, p.from, ~p.won), UNCHANGED said,
         excused' = IF \/ ~Known(friends[b], p.from)
                       \/ p \in handled[b].ever /\ p \notin Elements(LastSeen(handled[b].log))
                    THEN excused \cup {{b, p.from}} ELSE excused
  PROVE  TallyInv'
<1> SUFFICES ASSUME NEW x \in Badges, NEW y \in Badges, x # y, {x, y} \notin excused'
             PROVE  Balanced(x, y)'
  BY DEF TallyInv
<1> DEFINE a == p.from
<1>0. p \in Results /\ a \in Badges /\ a \in Ids /\ p.won \in BOOLEAN /\ a # b
  BY PacketFields DEF NetInv, NetTypes, Ids
<1>1. x \in Ids /\ y \in Ids /\ Balanced(x, y)
  BY DEF Ids, TallyInv
<1>2. /\ \A c \in Badges : c # b => friends'[c] = friends[c]
      /\ \A i \in Ids : i # a => Tally(friends'[b], i) = Tally(friends[b], i)
      /\ Known(friends[b], a) =>
           Tally(friends'[b], a) = <<Tally(friends[b], a)[1] + IF ~p.won THEN 1 ELSE 0,
                                     Tally(friends[b], a)[2] + IF ~p.won THEN 0 ELSE 1>>
  BY <1>0 DEF Counted, ListAfter
<1>3. /\ \A id : Tally(friends[x], id)[1] \in Nat /\ Tally(friends[x], id)[2] \in Nat
      /\ \A id : Tally(friends[y], id)[1] \in Nat /\ Tally(friends[y], id)[2] \in Nat
  BY TallyNat DEF ListsInv, ListTypes
<1>4. \A u, v, w : IsFiniteSet(OnWay(u, v, w)) /\ Cardinality(OnWay(u, v, w)) \in Nat
  BY OnWayFinite DEF NetInv
<1>5. ASSUME NEW u, NEW v \in Badges, NEW w, u # a \/ v # b \/ w # p.won
      PROVE  OnWay(u, v, w)' = OnWay(u, v, w)
  <2>1. v # b => handled'[v] = handled[v]
    BY DEF Admitted
  <2>2. handled'[b].ever = handled[b].ever \cup {p}
    BY DEF Admitted
  <2> QED
    BY <1>5, <2>1, <2>2 DEF OnWay
<1>6. ASSUME {a, b} \notin excused'
      PROVE  /\ Known(friends[b], a) /\ p \in OnWay(a, b, p.won)
             /\ OnWay(a, b, p.won)' = OnWay(a, b, p.won) \ {p}
             /\ Cardinality(OnWay(a, b, p.won)') = Cardinality(OnWay(a, b, p.won)) - 1
             /\ Cardinality(OnWay(a, b, p.won)) >= 1
  <2>1. {b, a} \notin excused'
    <3>1. {b, a} = {a, b}
      OBVIOUS
    <3> QED
      BY <1>6, <3>1
  <2>2. Known(friends[b], a) /\ ~(p \in handled[b].ever /\ p \notin Elements(LastSeen(handled[b].log)))
    BY <2>1
  <2>3. p \notin handled[b].ever
    <3>1. GRP_DATA_SEEN[b] = LastSeen(handled[b].log) /\ p \notin Seen(b)
      BY DEF NetInv, Admitted
    <3> QED
      BY <2>2, <3>1 DEF Seen
  <2>4. p \in OnWay(a, b, p.won)
    BY <2>3 DEF OnWay
  <2>5. OnWay(a, b, p.won)' = OnWay(a, b, p.won) \ {p}
    <3>1. handled'[b].ever = handled[b].ever \cup {p}
      BY DEF Admitted
    <3> QED
      BY <3>1 DEF OnWay
  <2>6. /\ IsFiniteSet(OnWay(a, b, p.won)) /\ Cardinality(OnWay(a, b, p.won)) \in Nat
    BY <1>4
  <2>7. Cardinality(OnWay(a, b, p.won) \ {p}) = Cardinality(OnWay(a, b, p.won)) - 1
    BY <2>4, <2>6, FS_RemoveElement
  <2>8. Cardinality(OnWay(a, b, p.won)) # 0
    BY <2>4, <2>6, FS_EmptySet
  <2> QED
    BY <2>2, <2>4, <2>5, <2>6, <2>7, <2>8
<1>10. /\ Tally(friends[x], y)[1] \in Nat /\ Tally(friends[y], x)[2] \in Nat
       /\ Cardinality(OnWay(y, x, FALSE)) \in Nat /\ Cardinality(OnWay(x, y, TRUE)) \in Nat
  BY <1>3, <1>4
<1>7. CASE x = a /\ y = b
  <2>1. /\ OnWay(y, x, FALSE)' = OnWay(y, x, FALSE) /\ friends'[x] = friends[x]
    BY <1>0, <1>2, <1>5, <1>7
  <2>2. CASE p.won
    <3>1. Tally(friends'[y], x)[2] = Tally(friends[y], x)[2] + 1
      BY <1>2, <1>6, <1>7, <2>2
    <3>2. /\ Cardinality(OnWay(x, y, TRUE)') = Cardinality(OnWay(x, y, TRUE)) - 1
          /\ Cardinality(OnWay(x, y, TRUE)) >= 1
      BY <1>0, <1>6, <1>7, <2>2
    <3> QED
      <4> DEFINE t == Tally(friends[x], y)[1]
                 u == Tally(friends[y], x)[2]
                 c == Cardinality(OnWay(y, x, FALSE))
                 d == Cardinality(OnWay(x, y, TRUE))
      <4>1. t \in Nat /\ u \in Nat /\ c \in Nat /\ d \in Nat /\ t + c = u + d
        BY <1>1, <1>10 DEF Balanced
      <4>2. /\ Tally(friends'[x], y)[1] = t /\ Tally(friends'[y], x)[2] = u + 1
            /\ Cardinality(OnWay(y, x, FALSE)') = c
            /\ Cardinality(OnWay(x, y, TRUE)') = d - 1
        BY <2>1, <3>1, <3>2
      <4> HIDE DEF t, u, c, d
      <4>3. t + c = (u + 1) + (d - 1)
        BY <4>1
      <4>4. Tally(friends'[x], y)[1] + Cardinality(OnWay(y, x, FALSE)')
              = Tally(friends'[y], x)[2] + Cardinality(OnWay(x, y, TRUE)')
        BY <4>2, <4>3
      <4> QED
        BY <4>4 DEF Balanced
  <2>3. CASE ~p.won
    <3>1. Tally(friends'[y], x)[2] = Tally(friends[y], x)[2]
      BY <1>2, <1>3, <1>6, <1>7, <2>3
    <3>2. OnWay(x, y, TRUE)' = OnWay(x, y, TRUE)
      BY <1>5, <2>3
    <3> QED
      BY <1>1, <2>1, <3>1, <3>2 DEF Balanced
  <2> QED
    BY <2>2, <2>3
<1>8. CASE y = a /\ x = b
  <2>0. {a, b} \notin excused'
    <3>1. {a, b} = {x, y}
      BY <1>8
    <3> QED
      BY <3>1
  <2>1. /\ OnWay(x, y, TRUE)' = OnWay(x, y, TRUE) /\ friends'[y] = friends[y]
    BY <1>0, <1>2, <1>5, <1>8
  <2>2. CASE ~p.won
    <3>1. Tally(friends'[x], y)[1] = Tally(friends[x], y)[1] + 1
      BY <1>2, <1>6, <1>8, <2>0, <2>2
    <3>2. /\ Cardinality(OnWay(y, x, FALSE)') = Cardinality(OnWay(y, x, FALSE)) - 1
          /\ Cardinality(OnWay(y, x, FALSE)) >= 1
      BY <1>0, <1>6, <1>8, <2>0, <2>2
    <3> QED
      <4> DEFINE t == Tally(friends[x], y)[1]
                 u == Tally(friends[y], x)[2]
                 c == Cardinality(OnWay(y, x, FALSE))
                 d == Cardinality(OnWay(x, y, TRUE))
      <4>1. t \in Nat /\ u \in Nat /\ c \in Nat /\ d \in Nat /\ t + c = u + d
        BY <1>1, <1>10 DEF Balanced
      <4>2. /\ Tally(friends'[x], y)[1] = t + 1 /\ Tally(friends'[y], x)[2] = u
            /\ Cardinality(OnWay(y, x, FALSE)') = c - 1
            /\ Cardinality(OnWay(x, y, TRUE)') = d
        BY <2>1, <3>1, <3>2
      <4> HIDE DEF t, u, c, d
      <4>3. (t + 1) + (c - 1) = u + d
        BY <4>1
      <4>4. Tally(friends'[x], y)[1] + Cardinality(OnWay(y, x, FALSE)')
              = Tally(friends'[y], x)[2] + Cardinality(OnWay(x, y, TRUE)')
        BY <4>2, <4>3
      <4> QED
        BY <4>4 DEF Balanced
  <2>3. CASE p.won
    <3>1. Tally(friends'[x], y)[1] = Tally(friends[x], y)[1]
      BY <1>2, <1>3, <1>6, <1>8, <2>0, <2>3
    <3>2. OnWay(y, x, FALSE)' = OnWay(y, x, FALSE)
      BY <1>5, <2>3
    <3> QED
      BY <1>1, <2>1, <3>1, <3>2 DEF Balanced
  <2> QED
    BY <2>2, <2>3
<1>9. CASE ~(x = a /\ y = b) /\ ~(y = a /\ x = b)
  <2>1. OnWay(x, y, TRUE)' = OnWay(x, y, TRUE) /\ OnWay(y, x, FALSE)' = OnWay(y, x, FALSE)
    BY <1>5, <1>9
  <2>2. Tally(friends'[x], y) = Tally(friends[x], y) /\ Tally(friends'[y], x) = Tally(friends[y], x)
    BY <1>1, <1>2, <1>9
  <2> QED
    BY <1>1, <2>1, <2>2 DEF Balanced
<1> QED
  BY <1>7, <1>8, <1>9

-----------------------------------------------------------------------------
(* The packets, step by step.                                              *)

LEMMA NetMore ==
  ASSUME NetInv, UNCHANGED <<GRP_DATA_SEEN, handled, said>>, excused \subseteq excused',
         air \subseteq air',
         \A c \in air' : IsCopy(c) /\ (c.p.kind = "result" => c.p \in said)
  PROVE  NetInv'
<1>1. NetTypes'
  BY DEF NetInv, NetTypes
<1>2. \A b \in Badges : /\ GRP_DATA_SEEN'[b] = LastSeen(handled'[b].log)
                        /\ Elements(GRP_DATA_SEEN'[b]) \subseteq handled'[b].ever
  BY DEF NetInv, Seen
<1>3. ASSUME NEW p \in said, p.target \in Badges, {p.from, p.target} \notin excused'
      PROVE  p \in handled[p.target].ever \/ \E c \in air' : c.to = p.target /\ c.p = p
  <2>1. p \in handled[p.target].ever \/ \E c \in air : c.to = p.target /\ c.p = p
    BY <1>3 DEF NetInv
  <2> QED
    BY <2>1
<1>4. /\ \A p \in said : p.target # p.from
      /\ \A b \in Badges : \A p \in handled[b].ever : p.kind = "result" => p \in said
  BY DEF NetInv
<1> QED
  BY <1>1, <1>2, <1>3, <1>4 DEF NetInv, Seen

(* A packet is handled, and at most its own copies leave the air.          *)
LEMMA NetAdmit ==
  ASSUME NetInv, NEW b \in Badges, NEW p \in Packets, Admitted(b, p),
         p.kind = "result" => p \in said, UNCHANGED said, excused \subseteq excused',
         air' \subseteq air, \A c \in air : c \notin air' => c.to = b /\ c.p = p
  PROVE  NetInv'
<1>1. NetTypes'
  BY DEF NetInv, NetTypes, Admitted
<1>2. \A c \in Badges : /\ GRP_DATA_SEEN'[c] = LastSeen(handled'[c].log)
                        /\ Elements(GRP_DATA_SEEN'[c]) \subseteq handled'[c].ever
  BY DEF Admitted
<1>3. \A c \in Badges : handled'[c].ever = IF c = b THEN handled[c].ever \cup {p} ELSE handled[c].ever
  BY DEF Admitted
<1>4. ASSUME NEW q \in said, q.target \in Badges, {q.from, q.target} \notin excused'
      PROVE  q \in handled'[q.target].ever \/ \E c \in air' : c.to = q.target /\ c.p = q
  <2>1. q \in handled[q.target].ever \/ \E c \in air : c.to = q.target /\ c.p = q
    BY <1>4 DEF NetInv
  <2>2. CASE q \in handled[q.target].ever
    BY <1>3, <1>4, <2>2
  <2>3. ASSUME NEW c \in air, c.to = q.target, c.p = q
        PROVE  q \in handled'[q.target].ever \/ \E d \in air' : d.to = q.target /\ d.p = q
    <3>1. CASE c \in air'
      BY <2>3, <3>1
    <3>2. CASE c \notin air'
      BY <1>3, <2>3, <3>2
    <3> QED
      BY <3>1, <3>2
  <2> QED
    BY <2>1, <2>2, <2>3
<1>5. \A q \in said : q.target # q.from
  BY DEF NetInv
<1>6. ASSUME NEW c \in Badges, NEW q \in handled'[c].ever, q.kind = "result"
      PROVE  q \in said
  <2>1. CASE q \in handled[c].ever
    BY <1>6, <2>1 DEF NetInv
  <2>2. CASE q \notin handled[c].ever
    BY <1>3, <1>6, <2>2
  <2> QED
    BY <2>1, <2>2
<1>7. \A c \in air' : c.p.kind = "result" => c.p \in said
  BY DEF NetInv
<1> QED
  BY <1>1, <1>2, <1>4, <1>5, <1>6, <1>7 DEF NetInv, Seen

(* A copy that was seen before, or is lost, leaves the air.                *)
LEMMA NetLess ==
  ASSUME NetInv, NEW c \in air, air' = air \ {c},
         UNCHANGED <<GRP_DATA_SEEN, handled, said>>, excused \subseteq excused',
         \/ c.p \in Seen(c.to)
         \/ c.p.kind = "result" => {c.p.from, c.p.target} \in excused'
  PROVE  NetInv'
<1>1. NetTypes'
  BY DEF NetInv, NetTypes
<1>2. \A b \in Badges : /\ GRP_DATA_SEEN'[b] = LastSeen(handled'[b].log)
                        /\ Elements(GRP_DATA_SEEN'[b]) \subseteq handled'[b].ever
  BY DEF NetInv, Seen
<1>3. ASSUME NEW q \in said, q.target \in Badges, {q.from, q.target} \notin excused'
      PROVE  q \in handled[q.target].ever \/ \E d \in air' : d.to = q.target /\ d.p = q
  <2>1. q \in handled[q.target].ever \/ \E d \in air : d.to = q.target /\ d.p = q
    BY <1>3 DEF NetInv
  <2>2. ASSUME NEW d \in air, d.to = q.target, d.p = q
        PROVE  q \in handled[q.target].ever \/ \E e \in air' : e.to = q.target /\ e.p = q
    <3>1. CASE d # c
      BY <2>2, <3>1
    <3>2. CASE d = c
      <4>1. q.kind = "result"
        BY PacketFields DEF NetInv, NetTypes
      <4>2. q \in Seen(q.target)
        BY <1>3, <2>2, <3>2, <4>1
      <4> QED
        BY <1>3, <4>2 DEF NetInv
    <3> QED
      BY <3>1, <3>2
  <2> QED
    BY <2>1, <2>2
<1>4. /\ \A q \in said : q.target # q.from
      /\ \A b \in Badges : \A q \in handled[b].ever : q.kind = "result" => q \in said
      /\ \A d \in air : d.p.kind = "result" => d.p \in said
  BY DEF NetInv
<1> QED
  BY <1>1, <1>2, <1>3, <1>4 DEF NetInv, Seen

LEMMA NetChallenge ==
  ASSUME NetInv, NEW b \in Badges, NEW p \in Results, p.from = b, p.target # b, Transmit(b, p),
         said' = said \cup {p}, UNCHANGED <<GRP_DATA_SEEN, handled>>, excused \subseteq excused'
  PROVE  NetInv'
<1>1. p \in Packets
  BY DEF Packets
<1>2. /\ air \subseteq air'
      /\ \A c \in air' : c \in air \/ (IsCopy(c) /\ c.p = p)
      /\ p.target \in Badges => \E c \in air' : c.to = p.target /\ c.p = p
  <2> DEFINE Copy(t) == [n |-> packets, to |-> t, repeated |-> FALSE, p |-> p]
  <2>1. air' = air \cup {Copy(t) : t \in Badges \ {b}}
    BY DEF Transmit
  <2>2. \A t \in Badges : Copy(t).to = t /\ Copy(t).p = p /\ IsCopy(Copy(t))
    BY <1>1 DEF IsCopy
  <2> HIDE DEF Copy
  <2>3. p.target \in Badges => Copy(p.target) \in air'
    BY <2>1
  <2> QED
    BY <2>1, <2>2, <2>3
<1>3. NetTypes'
  <2>1. IsFiniteSet(said')
    BY FS_AddElement DEF NetInv, NetTypes
  <2> QED
    BY <1>2, <1>1, <2>1 DEF NetInv, NetTypes
<1>4. \A c \in Badges : /\ GRP_DATA_SEEN'[c] = LastSeen(handled'[c].log)
                        /\ Elements(GRP_DATA_SEEN'[c]) \subseteq handled'[c].ever
  BY DEF NetInv, Seen
<1>5. ASSUME NEW q \in said', q.target \in Badges, {q.from, q.target} \notin excused'
      PROVE  q \in handled[q.target].ever \/ \E c \in air' : c.to = q.target /\ c.p = q
  <2>1. CASE q = p
    BY <1>2, <1>5, <2>1
  <2>2. CASE q \in said
    <3>1. q \in handled[q.target].ever \/ \E c \in air : c.to = q.target /\ c.p = q
      BY <1>5, <2>2 DEF NetInv
    <3> QED
      BY <1>2, <3>1
  <2> QED
    BY <2>1, <2>2
<1>6. /\ \A q \in said' : q.target # q.from
      /\ \A c \in Badges : \A q \in handled[c].ever : q.kind = "result" => q \in said'
      /\ \A c \in air' : c.p.kind = "result" => c.p \in said'
  BY <1>2 DEF NetInv
<1> QED
  BY <1>3, <1>4, <1>5, <1>6 DEF NetInv, Seen

(* A restart empties the ring and what it holds.                           *)
LEMMA NetRestart ==
  ASSUME NetInv, NEW b \in Badges, Restart(b)
  PROVE  NetInv' /\ \A c \in Badges : handled'[c].ever = handled[c].ever
<1>0. /\ GRP_DATA_SEEN \in [Badges -> Seq(Packets)]
      /\ handled \in [Badges -> [log : Seq(Packets), ever : SUBSET Packets]]
  BY DEF NetInv, NetTypes
<1>1. /\ GRP_DATA_SEEN' = [GRP_DATA_SEEN EXCEPT ![b] = << >>]
      /\ handled' = [handled EXCEPT ![b].log = << >>]
      /\ UNCHANGED <<air, said>> /\ excused \subseteq excused'
  BY DEF Restart
<1> DEFINE rec == [handled[b] EXCEPT !.log = << >>]
<1>2. /\ rec \in [log : Seq(Packets), ever : SUBSET Packets]
      /\ rec.log = << >> /\ rec.ever = handled[b].ever
  <2> DEFINE old == handled[b]
  <2>1. old \in [log : Seq(Packets), ever : SUBSET Packets] /\ << >> \in Seq(Packets)
    BY <1>0
  <2>2. rec = [old EXCEPT !.log = << >>]
    OBVIOUS
  <2> HIDE DEF old, rec
  <2>3. rec = [log |-> << >>, ever |-> old.ever]
    BY <2>1, <2>2
  <2>4. old.ever \in SUBSET Packets
    BY <2>1
  <2>5. rec \in [log : Seq(Packets), ever : SUBSET Packets]
    BY <2>1, <2>3, <2>4
  <2> QED
    BY <2>3, <2>5 DEF old
<1>3. handled' = [handled EXCEPT ![b] = rec]
  BY <1>1
<1> HIDE DEF rec
<1>4. /\ handled' \in [Badges -> [log : Seq(Packets), ever : SUBSET Packets]]
      /\ handled'[b] = rec /\ \A c \in Badges : c # b => handled'[c] = handled[c]
  BY <1>0, <1>2, <1>3
<1>5. /\ GRP_DATA_SEEN' \in [Badges -> Seq(Packets)] /\ GRP_DATA_SEEN'[b] = << >>
      /\ \A c \in Badges : c # b => GRP_DATA_SEEN'[c] = GRP_DATA_SEEN[c]
  BY <1>0, <1>1
<1>6. LastSeen(<< >>) = << >> /\ Elements(<< >>) = {}
  BY EmptyRing
<1>7. \A c \in Badges : handled'[c].ever = handled[c].ever
  BY <1>2, <1>4
<1>8. ASSUME NEW c \in Badges
      PROVE  /\ GRP_DATA_SEEN'[c] = LastSeen(handled'[c].log)
             /\ Elements(GRP_DATA_SEEN'[c]) \subseteq handled'[c].ever
  <2>1. CASE c = b
    BY <1>2, <1>4, <1>5, <1>6, <2>1
  <2>2. CASE c # b
    BY <1>4, <1>5, <2>2 DEF NetInv, Seen
  <2> QED
    BY <2>1, <2>2
<1>9. NetTypes'
  BY <1>1, <1>4, <1>5 DEF NetInv, NetTypes
<1>10. \A q \in said : q.target \in Badges /\ {q.from, q.target} \notin excused' =>
          q \in handled'[q.target].ever \/ \E c \in air : c.to = q.target /\ c.p = q
  BY <1>1, <1>7 DEF NetInv
<1>11. /\ \A q \in said : q.target # q.from
       /\ \A c \in Badges : \A q \in handled'[c].ever : q.kind = "result" => q \in said
       /\ \A c \in air : c.p.kind = "result" => c.p \in said
  BY <1>7 DEF NetInv
<1> QED
  BY <1>1, <1>7, <1>8, <1>9, <1>10, <1>11 DEF NetInv, Seen

-----------------------------------------------------------------------------
(* The inductive invariant.                                                *)

FriendsIInv == ListsInv /\ NetInv /\ TallyInv

LEMMA FriendsStart == Init => FriendsIInv
<1> SUFFICES ASSUME Init PROVE FriendsIInv
  OBVIOUS
<1>0. /\ \A b \in Badges : friends[b] \in Saves[b]
      /\ friends \in [Badges -> UNION {Saves[b] : b \in Badges}] /\ flash = friends
      /\ FRIENDS_DIRTY = [b \in Badges |-> FALSE]
      /\ clock = 0 /\ boot = [b \in Badges |-> 0] /\ air = {} /\ said = {}
      /\ GRP_DATA_SEEN = [b \in Badges |-> << >>]
      /\ handled = [b \in Badges |-> [log |-> << >>, ever |-> {}]]
      /\ boosts = [b \in Badges |-> [i \in Ids |->
                      [at |-> IF Known(friends[b], i) THEN 0 ELSE Never, odd |-> FALSE]]]
      /\ excused = UNION {{{b, id} : id \in {i \in Badges : Unequal(b, i)}} : b \in Badges}
  BY DEF Init
<1>1. ASSUME NEW b \in Badges
      PROVE  /\ friends[b] \in Seq(FriendRecord) /\ Ordered(b, friends[b])
             /\ \A i \in 1 .. Len(friends[b]) : friends[b][i].seen = 0 /\ friends[b][i].boost = 0
  <2> DEFINE list == friends[b]
  <2>1. list \in Saves[b]
    BY <1>0
  <2> HIDE DEF list
  <2>2. /\ list \in Seq(FriendRecord) /\ Len(list) <= FRIENDS_MAX
        /\ \A i \in 1 .. Len(list) :
              /\ list[i].id # b /\ list[i].seen = 0 /\ list[i].boost = 0
              /\ \A j \in 1 .. i - 1 : list[j].id # list[i].id
    BY <2>1, SavesAssumption
  <2>3. \A i \in 1 .. Len(list) : \A j \in 1 .. i - 1 : j \in 1 .. Len(list)
    OBVIOUS
  <2>4. Ordered(b, list)
    BY <2>2, <2>3 DEF Ordered
  <2> QED
    BY <2>2, <2>4 DEF list
<1>2. ListTypes
  <2>1. friends \in [Badges -> Seq(FriendRecord)]
    BY <1>0, <1>1
  <2>2. boosts \in [Badges -> [Ids -> [at : Nat \cup {Never}, odd : BOOLEAN]]]
    BY <1>0
  <2> QED
    BY <1>0, <2>1, <2>2 DEF ListTypes
<1>3. OrderInv
  <2>1. \A b \in Badges : now_tick(b) = 0
    BY <1>0 DEF now_tick
  <2> QED
    BY <1>0, <1>1, <2>1 DEF OrderInv
<1>4. BoostInv
  <2> SUFFICES ASSUME NEW b \in Badges, NEW i \in Ids, boosts[b][i].at # Never
               PROVE  boosts[b][i].at <= clock /\ Remembers(b, i)
    BY <1>0 DEF BoostInv, SameIds
  <2>1. Known(friends[b], i) /\ boosts[b][i].at = 0
    BY <1>0
  <2>2. PICK k \in 1 .. Len(friends[b]) : friends[b][k].id = i
    BY <2>1 DEF Known
  <2>3. friends[b][k].boost = 0 /\ boot[b] = 0
    BY <1>0, <1>1
  <2> QED
    BY <1>0, <2>1, <2>2, <2>3 DEF Remembers
<1>5. NetInv
  <2>1. NetTypes
    BY <1>0, FS_EmptySet DEF NetTypes
  <2>2. LastSeen(<< >>) = << >> /\ Elements(<< >>) = {}
    BY EmptyRing
  <2> QED
    BY <1>0, <2>1, <2>2 DEF NetInv, Seen
<1>6. TallyInv
  <2> SUFFICES ASSUME NEW a \in Badges, NEW b \in Badges, {a, b} \notin excused
               PROVE  Balanced(a, b)
    BY DEF TallyInv
  <2>1. ~Unequal(a, b)
    <3> SUFFICES ASSUME Unequal(a, b) PROVE FALSE
      OBVIOUS
    <3> DEFINE S == {i \in Badges : Unequal(a, i)}
    <3>0. \A i : i \in S <=> i \in Badges /\ Unequal(a, i)
      OBVIOUS
    <3> HIDE DEF S
    <3>1. b \in S
      BY <3>0
    <3>2. {a, b} \in {{a, id} : id \in S}
      BY <3>1
    <3> QED
      BY <1>0, <3>2 DEF S
  <2>2. OnWay(b, a, FALSE) = {} /\ OnWay(a, b, TRUE) = {}
    BY <1>0 DEF OnWay
  <2> QED
    BY <2>1, <2>2 DEF Unequal, Balanced
<1> QED
  BY <1>2, <1>3, <1>4, <1>5, <1>6 DEF ListsInv, FriendsIInv

(* Steps that leave the lists, or the packets, alone.                      *)
LEMMA TalliesQuiet ==
  ASSUME TallyInv, UNCHANGED <<friends, said>>, excused \subseteq excused',
         \A b \in Badges : handled'[b].ever = handled[b].ever
  PROVE  TallyInv'
  BY TalliesIdle

LEMMA TalliesAfter ==
  ASSUME TallyInv, NEW b \in Badges, ListAfter(b), TalliesKept(b), UNCHANGED said,
         \A c \in Badges : \A p \in said : p \in handled'[c].ever <=> p \in handled[c].ever
  PROVE  TallyInv'
<1>1. \A c \in Badges : \A i \in Ids :
         Tally(friends'[c], i) # Tally(friends[c], i) => {c, i} \in excused'
  BY DEF ListAfter, TalliesKept
<1> QED
  BY <1>1, TalliesIdle DEF TalliesKept

(* A badge handles a beacon.                                               *)
LEMMA BeaconHandled ==
  ASSUME FriendsIInv, NEW b \in Badges, NEW p \in Packets, p.kind = "beacon",
         Admit(b, p), OnPetBeacon(b, p.from), UNCHANGED <<clock, boot, said>>,
         air' \subseteq air, \A c \in air : c \notin air' => c.to = b /\ c.p = p
  PROVE  FriendsIInv' /\ BoostsLate
<1>0. ListsInv /\ NetInv /\ TallyInv /\ p.from \in Ids
  BY PacketFields DEF FriendsIInv
<1>1. ListAfter(b) /\ TalliesKept(b) /\ UNCHANGED flash
  BY <1>0, BeaconStep
<1>2. ListsInv' /\ BoostsLate
  BY <1>0, <1>1, ListsAfter
<1>3. Admitted(b, p)
  BY <1>0, AdmitStep
<1>4. NetInv'
  BY <1>0, <1>1, <1>3, NetAdmit DEF TalliesKept
<1>5. \A c \in Badges : \A q \in said : q \in handled'[c].ever <=> q \in handled[c].ever
  <2>1. \A q \in said : q # p
    BY <1>0, PacketFields DEF NetInv, NetTypes
  <2> QED
    BY <1>3, <2>1 DEF Admitted
<1>6. TallyInv'
  BY <1>0, <1>1, <1>5, TalliesAfter
<1> QED
  BY <1>2, <1>4, <1>6 DEF FriendsIInv

(* A badge handles a result, for itself or for somebody else.              *)
LEMMA ResultHandled ==
  ASSUME FriendsIInv, NEW b \in Badges, NEW p \in said,
         Admit(b, p), OnBattleResult(b, p), UNCHANGED <<clock, boot, said>>,
         air' \subseteq air, \A c \in air : c \notin air' => c.to = b /\ c.p = p
  PROVE  FriendsIInv' /\ BoostsLate
<1>0. /\ ListsInv /\ NetInv /\ TallyInv /\ p.target # p.from
      /\ p \in Results /\ p \in Packets /\ p.from \in Ids /\ p.won \in BOOLEAN
  BY PacketFields DEF FriendsIInv, NetInv, NetTypes, Packets, Ids
<1>1. Admitted(b, p)
  BY <1>0, AdmitStep
<1>2. CASE /\ p.target = b /\ p.from # b
           /\ friends' = [friends EXCEPT ![b] = Tallied(@, p.from, ~p.won)]
           /\ FRIENDS_DIRTY' = [FRIENDS_DIRTY EXCEPT ![b] = @ \/ Known(friends[b], p.from)]
           /\ excused' = IF \/ ~Known(friends[b], p.from)
                            \/ p \in handled[b].ever /\ p \notin Elements(LastSeen(handled[b].log))
                         THEN excused \cup {{b, p.from}} ELSE excused
           /\ UNCHANGED <<flash, boosts>>
  <2>1. /\ FRIENDS_DIRTY' \in [Badges -> BOOLEAN] /\ (FRIENDS_DIRTY'[b] \/ ~FRIENDS_DIRTY[b])
        /\ \A c \in Badges : c # b => FRIENDS_DIRTY'[c] = FRIENDS_DIRTY[c]
    <3>1. FRIENDS_DIRTY \in [Badges -> BOOLEAN] /\ Known(friends[b], p.from) \in BOOLEAN
      BY <1>0 DEF ListsInv, ListTypes, Known
    <3> QED
      BY <1>2, <3>1
  <2>2. Counted(b, p.from, ~p.won)
    <3>1. (~p.won) \in BOOLEAN
      OBVIOUS
    <3> QED
      BY <1>0, <1>2, <2>1, <3>1, TalliedStep
  <2>3. ListsInv' /\ BoostsLate
    BY <1>0, <1>2, <2>2, ListsAfter DEF Counted
  <2>4. NetInv'
    BY <1>0, <1>1, <1>2, NetAdmit
  <2>5. TallyInv'
    BY <1>0, <1>1, <1>2, <2>2, TalliesResult
  <2> QED
    BY <2>3, <2>4, <2>5 DEF FriendsIInv
<1>3. CASE (p.target # b \/ p.from = b) /\ UNCHANGED <<lists, ready, boosts, excused>>
  <2>1. UNCHANGED <<friends, FRIENDS_DIRTY, flash, boosts, excused>>
    BY <1>3 DEF lists
  <2>2. ListsInv' /\ BoostsLate
    BY <1>0, <2>1, ListsIdle
  <2>3. NetInv'
    BY <1>0, <1>1, <2>1, NetAdmit
  <2>4. TallyInv'
    <3> SUFFICES ASSUME NEW x \in Badges, NEW y \in Badges, x # y, {x, y} \notin excused'
                 PROVE  Balanced(x, y)'
      BY DEF TallyInv
    <3>1. Balanced(x, y)
      BY <1>0, <2>1 DEF TallyInv
    <3>2. p.target # b
      BY <1>0, <1>3
    <3>3. ASSUME NEW u, NEW v \in Badges, NEW w PROVE OnWay(u, v, w)' = OnWay(u, v, w)
      <4>1. handled'[b].ever = handled[b].ever \cup {p} /\ (v # b => handled'[v] = handled[v])
        BY <1>1 DEF Admitted
      <4> QED
        BY <3>2, <4>1 DEF OnWay
    <3> QED
      BY <2>1, <3>1, <3>3 DEF Balanced
  <2> QED
    BY <2>2, <2>3, <2>4 DEF FriendsIInv
<1> QED
  BY <1>2, <1>3 DEF OnBattleResult

LEMMA ReceiveStep ==
  ASSUME FriendsIInv, NEW c \in air, Receive(c)
  PROVE  FriendsIInv' /\ BoostsLate
<1>0. /\ ListsInv /\ NetInv /\ TallyInv /\ c.p \in Packets /\ c.to \in Badges
      /\ c.p.kind = "result" => c.p \in said
  BY DEF FriendsIInv, NetInv, NetTypes, IsCopy
<1>1. /\ air' = air \ {c} /\ UNCHANGED <<clock, boot, said>>
      /\ air' \subseteq air /\ \A d \in air : d \notin air' => d.to = c.to /\ d.p = c.p
  BY DEF Receive
<1>2. CASE Admit(c.to, c.p) /\ c.p.kind = "beacon" /\ OnPetBeacon(c.to, c.p.from)
  BY <1>0, <1>1, <1>2, BeaconHandled
<1>3. CASE Admit(c.to, c.p) /\ c.p.kind = "result" /\ OnBattleResult(c.to, c.p)
  BY <1>0, <1>1, <1>3, ResultHandled
<1>4. CASE /\ c.p \in Elements(GRP_DATA_SEEN[c.to])
           /\ UNCHANGED <<lists, GRP_DATA_SEEN, ready, handled, boosts, excused>>
  <2>1. UNCHANGED <<friends, FRIENDS_DIRTY, flash, boosts, excused, GRP_DATA_SEEN, handled>>
    BY <1>4 DEF lists
  <2>2. ListsInv' /\ BoostsLate
    BY <1>0, <1>1, <2>1, ListsIdle
  <2>3. NetInv'
    BY <1>0, <1>1, <1>4, <2>1, NetLess DEF Seen
  <2>4. TallyInv'
    BY <1>0, <1>1, <2>1, TalliesQuiet
  <2> QED
    BY <2>2, <2>3, <2>4 DEF FriendsIInv
<1> QED
  BY <1>2, <1>3, <1>4 DEF Receive, Dispatch

(* Steps in which no badge acts upon a packet.                             *)
LEMMA QuietStep ==
  ASSUME FriendsIInv, UNCHANGED <<friends, flash, FRIENDS_DIRTY, boosts, clock, boot, handled, said>>,
         NetInv', excused \subseteq excused'
  PROVE  FriendsIInv' /\ BoostsLate
<1>1. ListsInv' /\ BoostsLate
  BY ListsIdle DEF FriendsIInv
<1>2. TallyInv'
  BY TalliesQuiet DEF FriendsIInv
<1> QED
  BY <1>1, <1>2 DEF FriendsIInv

LEMMA ChallengeStep ==
  ASSUME FriendsIInv, NEW b \in Badges, NEW id \in Ids, NEW o \in Outcomes, Challenge(b, id, o)
  PROVE  FriendsIInv' /\ BoostsLate
<1> DEFINE p == Result(b, id, o)
<1>0. /\ ListsInv /\ NetInv /\ TallyInv
      /\ friends \in [Badges -> Seq(FriendRecord)] /\ Ordered(b, friends[b])
      /\ FRIENDS_DIRTY \in [Badges -> BOOLEAN]
  BY DEF FriendsIInv, ListsInv, ListTypes, OrderInv
<1>1. /\ Known(friends[b], id) /\ Transmit(b, p) /\ said' = said \cup {p}
      /\ friends' = [friends EXCEPT ![b] = Tallied(@, id, o.won)]
      /\ excused' = excused \cup (IF p \in said THEN {{b, id}} ELSE {})
      /\ FRIENDS_DIRTY' = [FRIENDS_DIRTY EXCEPT ![b] = TRUE]
      /\ UNCHANGED <<flash, GRP_DATA_SEEN, clock, boot, handled, boosts>>
  BY DEF Challenge
<1>2. /\ p \in Results /\ p.from = b /\ p.target = id /\ p.won = o.won /\ o.won \in BOOLEAN
  BY FriendsAssumption DEF Results, Result
<1> HIDE DEF p
<1>3. id # b
  BY <1>0, <1>1 DEF Known, Ordered
<1>4. Counted(b, id, o.won)
  <2>1. /\ FRIENDS_DIRTY' \in [Badges -> BOOLEAN] /\ FRIENDS_DIRTY'[b]
        /\ \A c \in Badges : c # b => FRIENDS_DIRTY'[c] = FRIENDS_DIRTY[c]
    BY <1>0, <1>1
  <2> DEFINE w == o.won
  <2>2. w \in BOOLEAN /\ friends' = [friends EXCEPT ![b] = Tallied(@, id, w)] /\ UNCHANGED boosts
    BY <1>1, <1>2
  <2> HIDE DEF w
  <2>3. Counted(b, id, w)
    BY <1>0, <2>1, <2>2, TalliedStep
  <2> QED
    BY <2>3 DEF w
<1>5. ListsInv' /\ BoostsLate
  BY <1>0, <1>1, <1>4, ListsAfter DEF Counted
<1>6. NetInv'
  BY <1>0, <1>1, <1>2, <1>3, NetChallenge
<1>7. TallyInv'
  BY <1>0, <1>1, <1>2, <1>3, <1>4, TalliesChallenge
<1> QED
  BY <1>5, <1>6, <1>7 DEF FriendsIInv

LEMMA ResetStep ==
  ASSUME FriendsIInv, NEW b \in Badges, ResetRecords(b)
  PROVE  FriendsIInv' /\ BoostsLate
<1> DEFINE list == friends[b]
           new == [i \in 1 .. Len(list) |-> [list[i] EXCEPT !.wins = 0, !.losses = 0]]
<1>0. /\ ListsInv /\ NetInv /\ TallyInv /\ friends \in [Badges -> Seq(FriendRecord)]
      /\ FRIENDS_DIRTY \in [Badges -> BOOLEAN]
  BY DEF FriendsIInv, ListsInv, ListTypes
<1>1. /\ friends' = [friends EXCEPT ![b] = new]
      /\ FRIENDS_DIRTY' = [FRIENDS_DIRTY EXCEPT ![b] = TRUE]
      /\ excused' = excused \cup Differing(b, friends[b], friends'[b])
      /\ UNCHANGED <<flash, GRP_DATA_SEEN, clock, boot, air, said, handled, boosts>>
  BY DEF ResetRecords
<1>2. list \in Seq(FriendRecord)
  BY <1>0
<1>3. ASSUME NEW i \in 1 .. Len(list)
      PROVE  /\ new[i] \in FriendRecord /\ new[i].id = list[i].id
             /\ new[i].boost = list[i].boost /\ new[i].seen = list[i].seen
  <2> DEFINE f == list[i]
             g == [f EXCEPT !.wins = 0]
  <2>1. f \in FriendRecord /\ new[i] = [g EXCEPT !.losses = 0]
    <3>1. list[i] \in FriendRecord
      BY <1>2, RecordFields
    <3>2. new[i] = [list[i] EXCEPT !.wins = 0, !.losses = 0]
      OBVIOUS
    <3> HIDE DEF new, list
    <3> QED
      BY <3>1, <3>2
  <2> HIDE DEF f, new
  <2>2. g \in FriendRecord /\ g.id = f.id /\ g.boost = f.boost /\ g.seen = f.seen
    BY <2>1 DEF FriendRecord
  <2> HIDE DEF g
  <2>3. new[i] \in FriendRecord /\ new[i].id = f.id /\ new[i].boost = f.boost /\ new[i].seen = f.seen
    BY <2>1, <2>2 DEF FriendRecord
  <2> QED
    BY <2>3 DEF f
<1>4. new \in Seq(FriendRecord) /\ Len(new) = Len(list)
  <2>1. new = [i \in 1 .. Len(list) |-> new[i]]
    OBVIOUS
  <2>2. Len(list) \in Nat
    BY <1>2
  <2> HIDE DEF new, list
  <2> QED
    BY <1>3, <2>1, <2>2
<1> HIDE DEF new
<1>5. SameTimes(new, list)
  BY <1>3, <1>4 DEF SameTimes
<1>6. /\ FRIENDS_DIRTY' \in [Badges -> BOOLEAN] /\ FRIENDS_DIRTY'[b]
      /\ \A c \in Badges : c # b => FRIENDS_DIRTY'[c] = FRIENDS_DIRTY[c]
  BY <1>0, <1>1
<1>7. ListAfter(b) /\ TalliesKept(b)
  BY <1>0, <1>1, <1>4, <1>5, <1>6, CountStep, DifferingExcuses
<1>8. ListsInv' /\ BoostsLate
  BY <1>0, <1>1, <1>7, ListsAfter
<1>9. NetInv'
  BY <1>0, <1>1, <1>7, NetMore DEF TalliesKept, NetInv, NetTypes
<1>10. TallyInv'
  BY <1>0, <1>1, <1>7, TalliesAfter
<1> QED
  BY <1>8, <1>9, <1>10 DEF FriendsIInv

LEMMA RestartStep ==
  ASSUME FriendsIInv, NEW b \in Badges, Restart(b)
  PROVE  FriendsIInv' /\ BoostsLate
<1>1. ListsInv' /\ BoostsLate
  BY ListsRestart DEF FriendsIInv
<1>2. NetInv' /\ \A c \in Badges : handled'[c].ever = handled[c].ever
  BY NetRestart DEF FriendsIInv
<1>3. /\ excused' = excused \cup Differing(b, friends[b], friends'[b]) /\ UNCHANGED said
      /\ \A c \in Badges : c # b => friends'[c] = friends[c]
  BY DEF Restart, FriendsIInv, ListsInv, ListTypes
<1>4. TalliesKept(b)
  BY <1>3, DifferingExcuses
<1>5. \A c \in Badges : \A i \in Ids :
         Tally(friends'[c], i) # Tally(friends[c], i) => {c, i} \in excused'
  BY <1>3, <1>4 DEF TalliesKept
<1>6. TallyInv'
  BY <1>2, <1>3, <1>4, <1>5, TalliesIdle DEF TalliesKept, FriendsIInv
<1> QED
  BY <1>1, <1>2, <1>6 DEF FriendsIInv

LEMMA FriendsStep == FriendsIInv /\ [Next]_vars => FriendsIInv' /\ (BoostsLate \/ UNCHANGED vars)
<1> SUFFICES ASSUME FriendsIInv, [Next]_vars
             PROVE  FriendsIInv' /\ (BoostsLate \/ UNCHANGED vars)
  OBVIOUS
<1>0. ListsInv /\ NetInv /\ TallyInv /\ NetTypes
  BY DEF FriendsIInv, NetInv
<1>1. ASSUME NEW b \in Badges, NEW snap \in Snaps, SendBeacon(b, snap)
      PROVE  FriendsIInv' /\ BoostsLate
  <2> DEFINE p == Beacon(b, snap)
             Copy(t) == [n |-> packets, to |-> t, repeated |-> FALSE, p |-> p]
  <2>1. p \in Packets /\ p.kind = "beacon"
    BY DEF Packets, Beacons, Beacon, Ids
  <2>2. /\ UNCHANGED <<friends, flash, FRIENDS_DIRTY, boosts, clock, boot, handled, said,
                       excused, GRP_DATA_SEEN>>
        /\ air' = air \cup {Copy(t) : t \in Badges \ {b}}
    BY <1>1 DEF SendBeacon, Transmit, lists, ghosts
  <2> HIDE DEF p
  <2>3. \A t \in Badges : Copy(t).p = p /\ IsCopy(Copy(t))
    BY <2>1 DEF IsCopy
  <2> HIDE DEF Copy
  <2>4. \A c \in air' : c \in air \/ (IsCopy(c) /\ c.p = p)
    BY <2>2, <2>3
  <2>5. /\ air \subseteq air'
        /\ \A c \in air' : IsCopy(c) /\ (c.p.kind = "result" => c.p \in said)
    BY <1>0, <2>1, <2>2, <2>4 DEF NetInv, NetTypes
  <2>6. NetInv'
    BY <1>0, <2>2, <2>5, NetMore
  <2> QED
    BY <2>2, <2>6, QuietStep
<1>2. ASSUME NEW b \in Badges, NEW x \in Hears[b], NEW snap \in Snaps, HearStranger(b, x, snap)
      PROVE  FriendsIInv' /\ BoostsLate
  <2> DEFINE p == Beacon(x, snap)
  <2>1. x \in Ids
    BY FriendsAssumption DEF Ids
  <2>2. p \in Packets /\ p.kind = "beacon" /\ p.from = x
    BY <2>1 DEF Packets, Beacons, Beacon
  <2>3. Admit(b, p) /\ OnPetBeacon(b, x) /\ UNCHANGED <<clock, boot, said, air>>
    BY <1>2 DEF HearStranger
  <2> HIDE DEF p
  <2> QED
    BY <2>2, <2>3, BeaconHandled
<1>3. ASSUME NEW b \in Badges, Save(b)
      PROVE  FriendsIInv' /\ BoostsLate
  <2>1. UNCHANGED <<friends, GRP_DATA_SEEN, handled, said, air, excused>>
    BY <1>3 DEF Save, ghosts
  <2>2. NetInv'
    BY <1>0, <2>1, NetMore DEF NetInv, NetTypes
  <2>3. TallyInv'
    BY <1>0, <2>1, TalliesQuiet
  <2> QED
    BY <1>0, <1>3, <2>2, <2>3, ListsSave DEF FriendsIInv
<1>4. ASSUME NEW c \in air, Lose(c)
      PROVE  FriendsIInv' /\ BoostsLate
  <2>1. /\ UNCHANGED <<friends, flash, FRIENDS_DIRTY, boosts, clock, boot, handled, said, GRP_DATA_SEEN>>
        /\ air' = air \ {c}
        /\ excused' = IF c.p.kind = "result" THEN excused \cup {{c.p.from, c.p.target}} ELSE excused
    BY <1>4 DEF Lose, lists
  <2>2. excused \subseteq excused' /\ (c.p.kind = "result" => {c.p.from, c.p.target} \in excused')
    BY <2>1
  <2>3. NetInv'
    BY <1>0, <2>1, <2>2, NetLess
  <2> QED
    BY <2>1, <2>2, <2>3, QuietStep
<1>5. ASSUME NEW c \in air, NEW t \in Badges, Repeat(c, t)
      PROVE  FriendsIInv' /\ BoostsLate
  <2> DEFINE d == [c EXCEPT !.to = t, !.repeated = TRUE]
  <2>1. /\ UNCHANGED <<friends, flash, FRIENDS_DIRTY, boosts, clock, boot, handled, said,
                       excused, GRP_DATA_SEEN>>
        /\ air' = air \cup {d}
    BY <1>5 DEF Repeat, lists, ghosts
  <2>2. d.p = c.p /\ IsCopy(d)
    <3>1. IsCopy(c)
      BY <1>0 DEF NetTypes
    <3> DEFINE n == c.n
               r == c.repeated
               u == c.to
               p == c.p
    <3>2. c = [n |-> n, to |-> u, repeated |-> r, p |-> p] /\ p \in Packets
      BY <3>1 DEF IsCopy
    <3> DEFINE e == [c EXCEPT !.to = t]
    <3>3. d = [e EXCEPT !.repeated = TRUE]
      OBVIOUS
    <3> HIDE DEF n, r, u, p, d
    <3>4. e = [n |-> n, to |-> t, repeated |-> r, p |-> p]
      BY <3>2
    <3> HIDE DEF e
    <3>5. d = [n |-> n, to |-> t, repeated |-> TRUE, p |-> p]
      BY <3>3, <3>4
    <3>6. d = [n |-> d.n, to |-> d.to, repeated |-> d.repeated, p |-> d.p] /\ d.p = p /\ d.to = t
      BY <3>5
    <3> QED
      BY <3>2, <3>6 DEF IsCopy, p
  <2> HIDE DEF d
  <2>3. \A e \in air' : IsCopy(e) /\ (e.p.kind = "result" => e.p \in said)
    BY <1>0, <2>1, <2>2 DEF NetInv, NetTypes
  <2>4. NetInv'
    BY <1>0, <2>1, <2>3, NetMore
  <2> QED
    BY <2>1, <2>4, QuietStep
<1>6. ASSUME Tick
      PROVE  FriendsIInv' /\ BoostsLate
  <2>1. UNCHANGED <<friends, GRP_DATA_SEEN, handled, said, air, excused>>
    BY <1>6 DEF Tick, lists, ghosts
  <2>2. NetInv'
    BY <1>0, <2>1, NetMore DEF NetInv, NetTypes
  <2>3. TallyInv'
    BY <1>0, <2>1, TalliesQuiet
  <2> QED
    BY <1>0, <1>6, <2>2, <2>3, ListsTick DEF FriendsIInv
<1>7. CASE UNCHANGED vars
  <2>1. UNCHANGED <<friends, flash, FRIENDS_DIRTY, boosts, clock, boot, handled, said,
                    excused, GRP_DATA_SEEN, air>>
    BY <1>7 DEF vars, lists, ghosts
  <2>2. NetInv'
    BY <1>0, <2>1, NetMore DEF NetInv, NetTypes
  <2> QED
    BY <1>7, <2>1, <2>2, QuietStep
<1> QED
  BY <1>1, <1>2, <1>3, <1>4, <1>5, <1>6, <1>7, ReceiveStep, ChallengeStep, ResetStep, RestartStep
  DEF Next, Others

LEMMA FriendsInvariance == Spec => []FriendsIInv
<1>1. FriendsIInv /\ [Next]_vars => FriendsIInv'
  BY FriendsStep
<1> QED
  BY <1>1, FriendsStart, PTL DEF Spec

-----------------------------------------------------------------------------
(* The list is ordered by the time a friend was last seen, newest first,   *)
(* holds everybody once and never the badge itself, and no tick lies in    *)
(* the future: for lists and rings of every size, any number of badges,    *)
(* and copies lost, repeated and reordered at will (friends.rs:368-369).   *)
THEOREM FriendsAreOrdered == Spec => []NewestFirst
<1>1. FriendsIInv => NewestFirst
  BY DEF FriendsIInv, ListsInv, OrderInv, Ordered, NewestFirst
<1> QED
  BY <1>1, FriendsInvariance, PTL

(* Boosts from one friend keep their distance over reboots whose list was  *)
(* saved (friends.rs:80-84, 286-303, 505-511).                             *)
THEOREM BoostsKeepDistance == Spec => BoostsApart
<1>1. FriendsIInv /\ [Next]_vars => [BoostsLate]_vars
  BY FriendsStep
<1>2. Spec => [][BoostsLate]_vars
  BY <1>1, FriendsInvariance, PTL DEF Spec
<1> QED
  BY <1>2 DEF BoostsLate, BoostsApart

(* Once no result is on its way, two badges that know each other count the *)
(* same battles, unless the radio, a power loss, a reset or a full list    *)
(* took something away (friends.rs:127-129).                               *)
THEOREM BattlesTallied == Spec => []TalliesAgree
<1>1. FriendsIInv => TalliesAgree
  <2> SUFFICES ASSUME FriendsIInv, NEW a \in Badges, NEW b \in Badges,
                      a # b, {a, b} \notin excused, ~InFlight(a, b),
                      Known(friends[a], b), Known(friends[b], a)
               PROVE  friends[a][FindIndex(friends[a], b)].wins = friends[b][FindIndex(friends[b], a)].losses
    BY DEF TalliesAgree
  <2>1. Balanced(a, b)
    BY DEF FriendsIInv, TallyInv
  <2>2. ASSUME NEW u \in Badges, NEW v \in Badges, NEW w, {u, v} = {a, b}
        PROVE  OnWay(u, v, w) = {}
    <3> SUFFICES ASSUME NEW p \in OnWay(u, v, w) PROVE FALSE
      OBVIOUS
    <3>1. p \in said /\ p.from = u /\ p.target = v /\ p \notin handled[v].ever
      BY DEF OnWay
    <3>2. PICK c \in air : c.to = v /\ c.p = p
      BY <2>2, <3>1 DEF FriendsIInv, NetInv
    <3>3. p.kind = "result"
      BY <3>1, PacketFields DEF FriendsIInv, NetInv, NetTypes
    <3> QED
      BY <2>2, <3>1, <3>2, <3>3 DEF InFlight
  <2>3. {b, a} = {a, b}
    OBVIOUS
  <2>4. OnWay(b, a, FALSE) = {} /\ OnWay(a, b, TRUE) = {}
    BY <2>2, <2>3
  <2>5. Tally(friends[a], b)[1] \in Nat /\ Tally(friends[b], a)[2] \in Nat
    BY TallyNat DEF FriendsIInv, ListsInv, ListTypes
  <2>6. Tally(friends[a], b)[1] = Tally(friends[b], a)[2]
    <3>1. Cardinality(OnWay(b, a, FALSE)) = 0 /\ Cardinality(OnWay(a, b, TRUE)) = 0
      BY <2>4, FS_EmptySet
    <3> DEFINE t == Tally(friends[a], b)[1]
               u == Tally(friends[b], a)[2]
    <3>2. t + 0 = u + 0 /\ t \in Nat /\ u \in Nat
      BY <2>1, <2>5, <3>1 DEF Balanced
    <3> HIDE DEF t, u
    <3>3. t = u
      BY <3>2
    <3> QED
      BY <3>3 DEF t, u
  <2> QED
    BY <2>6 DEF Tally
<1> QED
  BY <1>1, FriendsInvariance, PTL

-----------------------------------------------------------------------------
(* Lights Out.  Each toggle meets either mask of is_solvable in none or    *)
(* two lamps, so the parities that make a board solvable survive every     *)
(* press, those of open included.                                          *)

(* A set of naturals that is not empty has a least one.                    *)
LEMMA LeastNatural ==
  ASSUME NEW S \in SUBSET Nat, S # {}
  PROVE  \E x \in S : \A y \in S : x <= y
<1>1. PICK m \in S : TRUE
  OBVIOUS
<1> DEFINE low == {x \in S : x <= m}
           down == {0 .. x : x \in low}
<1>2. IsWellFoundedOn(StrictSubsetOrdering(0 .. m), SUBSET (0 .. m))
  <2>1. IsFiniteSet(0 .. m)
    BY FS_Interval
  <2>2. FiniteSubsetsOf(0 .. m) = SUBSET (0 .. m)
    BY <2>1, FS_FiniteSubsetsOfFinite
  <2> QED
    BY <2>2, FS_StrictSubsetOrderingWellFounded, Zenon
<1>3. down \subseteq SUBSET (0 .. m) /\ down # {}
  BY <1>1
<1>4. PICK d \in down :
        \A e \in down : <<e, d>> \notin StrictSubsetOrdering(0 .. m)
  BY <1>2, <1>3, WFMin
<1>5. PICK x \in low : d = 0 .. x
  BY <1>4
<1>6. \A y \in low : ~(y < x)
  <2> SUFFICES ASSUME NEW y \in low, y < x PROVE FALSE
    OBVIOUS
  <2>1. 0 .. y \subseteq 0 .. x /\ x \notin 0 .. y /\ x \in 0 .. x
    OBVIOUS
  <2>2. 0 .. y \in down
    OBVIOUS
  <2>3. <<0 .. y, d>> \in StrictSubsetOrdering(0 .. m)
    BY <2>1, <2>2, <1>5, <1>3, <1>4 DEF StrictSubsetOrdering
  <2> QED
    BY <2>2, <2>3, <1>4
<1> QED
  BY <1>1, <1>6

(* A lamp is where its row and its column are.                             *)
LEMMA Grid ==
  /\ \A i \in Lamps : Row(i) \in 0 .. 4 /\ Col(i) \in 0 .. 4 /\ i = 5 * Row(i) + Col(i)
  /\ \A r, c \in 0 .. 4 : 5 * r + c \in Lamps /\ Row(5 * r + c) = r /\ Col(5 * r + c) = c
<1>1. Lamps = 0 .. 24
  BY DEF Lamps, GRID
<1>2. ASSUME NEW i \in Lamps
      PROVE  Row(i) \in 0 .. 4 /\ Col(i) \in 0 .. 4 /\ i = 5 * Row(i) + Col(i)
  BY <1>1 DEF Row, Col, GRID
<1>3. ASSUME NEW r \in 0 .. 4, NEW c \in 0 .. 4
      PROVE  5 * r + c \in Lamps /\ Row(5 * r + c) = r /\ Col(5 * r + c) = c
  BY <1>1 DEF Row, Col, GRID
<1> QED
  BY <1>2, <1>3

Two(s) == s = {} \/ \E x, y : x # y /\ s = {x, y}

(* A lamp of row r and column c toggles none or two lamps of either mask.  *)
LEMMA RowsOfCross ==
  ASSUME NEW i \in Lamps
  PROVE  Two(Cross(i) \cap MASK_ROWS)
<1> DEFINE r == Row(i)
           c == Col(i)
           s == Cross(i) \cap MASK_ROWS
<1>1. r \in 0 .. 4 /\ c \in 0 .. 4
  BY Grid
<1>2. \A j : j \in s <=> /\ j \in Lamps /\ Row(j) \in {0, 2, 4} /\ Col(j) \in {0, 1, 3, 4}
                         /\ \/ Col(j) = c /\ Row(j) - r \in -1 .. 1
                            \/ Row(j) = r /\ Col(j) - c \in -1 .. 1
  BY DEF Cross, MASK_ROWS
<1> HIDE DEF s, r, c
<1>3. \A j \in Lamps : Row(j) \in 0 .. 4 /\ Col(j) \in 0 .. 4 /\ j = 5 * Row(j) + Col(j)
  BY Grid
<1>4. CASE r \in {0, 2, 4}
  <2> DEFINE a == IF c <= 1 THEN 0 ELSE IF c = 2 THEN 1 ELSE 3
             b == IF c <= 1 THEN 1 ELSE IF c = 2 THEN 3 ELSE 4
  <2>1. /\ a \in {0, 1, 3, 4} /\ b \in {0, 1, 3, 4} /\ a # b /\ a \in 0 .. 4 /\ b \in 0 .. 4
        /\ \A d \in {0, 1, 3, 4} : d - c \in -1 .. 1 <=> d \in {a, b}
    BY <1>1
  <2> HIDE DEF a, b
  <2>2. \A j \in Lamps : j \in s <=> Row(j) = r /\ Col(j) \in {a, b}
    BY <1>1, <1>2, <1>3, <1>4, <2>1
  <2>3. \A j : j \in s <=> j \in {5 * r + a, 5 * r + b}
    <3>1. ASSUME NEW j \in s PROVE j \in {5 * r + a, 5 * r + b}
      <4>1. j \in Lamps
        BY <1>2
      <4>2. Row(j) = r /\ Col(j) \in {a, b} /\ j = 5 * Row(j) + Col(j)
        BY <1>3, <2>2, <4>1
      <4> QED
        BY <4>2
    <3>2. 5 * r + a \in s /\ 5 * r + b \in s
      BY <1>1, <2>1, <2>2, Grid
    <3> QED
      BY <3>1, <3>2
  <2>4. 5 * r + a # 5 * r + b
    BY <1>1, <2>1
  <2>5. s = {5 * r + a, 5 * r + b}
    BY <2>3
  <2> QED
    BY <2>4, <2>5 DEF Two, s
<1>5. CASE r \in {1, 3} /\ c # 2
  <2>1. \A j \in Lamps : j \in s <=> Row(j) \in {r - 1, r + 1} /\ Col(j) = c
    BY <1>1, <1>2, <1>3, <1>5
  <2>2. \A j : j \in s <=> j \in {5 * (r - 1) + c, 5 * (r + 1) + c}
    <3>1. r - 1 \in 0 .. 4 /\ r + 1 \in 0 .. 4
      BY <1>5
    <3> QED
      BY <1>1, <1>2, <1>3, <2>1, <3>1, Grid
  <2>3. 5 * (r - 1) + c # 5 * (r + 1) + c
    BY <1>1
  <2>4. s = {5 * (r - 1) + c, 5 * (r + 1) + c}
    BY <2>2
  <2> QED
    BY <2>3, <2>4 DEF Two, s
<1>6. CASE r \in {1, 3} /\ c = 2
  <2>1. \A j : j \notin s
    BY <1>1, <1>2, <1>3, <1>6
  <2> QED
    BY <2>1 DEF Two, s
<1> QED
  BY <1>1, <1>4, <1>5, <1>6

LEMMA ColsOfCross ==
  ASSUME NEW i \in Lamps
  PROVE  Two(Cross(i) \cap MASK_COLS)
<1> DEFINE r == Row(i)
           c == Col(i)
           s == Cross(i) \cap MASK_COLS
<1>1. r \in 0 .. 4 /\ c \in 0 .. 4
  BY Grid
<1>2. \A j : j \in s <=> /\ j \in Lamps /\ Col(j) \in {0, 2, 4} /\ Row(j) \in {0, 1, 3, 4}
                         /\ \/ Col(j) = c /\ Row(j) - r \in -1 .. 1
                            \/ Row(j) = r /\ Col(j) - c \in -1 .. 1
  BY DEF Cross, MASK_COLS
<1> HIDE DEF s, r, c
<1>3. \A j \in Lamps : Row(j) \in 0 .. 4 /\ Col(j) \in 0 .. 4 /\ j = 5 * Row(j) + Col(j)
  BY Grid
<1>4. CASE c \in {0, 2, 4}
  <2> DEFINE a == IF r <= 1 THEN 0 ELSE IF r = 2 THEN 1 ELSE 3
             b == IF r <= 1 THEN 1 ELSE IF r = 2 THEN 3 ELSE 4
  <2>1. /\ a \in {0, 1, 3, 4} /\ b \in {0, 1, 3, 4} /\ a # b /\ a \in 0 .. 4 /\ b \in 0 .. 4
        /\ \A d \in {0, 1, 3, 4} : d - r \in -1 .. 1 <=> d \in {a, b}
    BY <1>1
  <2> HIDE DEF a, b
  <2>2. \A j \in Lamps : j \in s <=> Col(j) = c /\ Row(j) \in {a, b}
    BY <1>1, <1>2, <1>3, <1>4, <2>1
  <2>3. \A j : j \in s <=> j \in {5 * a + c, 5 * b + c}
    <3>1. ASSUME NEW j \in s PROVE j \in {5 * a + c, 5 * b + c}
      <4>1. j \in Lamps
        BY <1>2
      <4>2. Col(j) = c /\ Row(j) \in {a, b} /\ j = 5 * Row(j) + Col(j)
        BY <1>3, <2>2, <4>1
      <4> QED
        BY <4>2
    <3>2. 5 * a + c \in s /\ 5 * b + c \in s
      BY <1>1, <2>1, <2>2, Grid
    <3> QED
      BY <3>1, <3>2
  <2>4. 5 * a + c # 5 * b + c
    BY <1>1, <2>1
  <2>5. s = {5 * a + c, 5 * b + c}
    BY <2>3
  <2> QED
    BY <2>4, <2>5 DEF Two, s
<1>5. CASE c \in {1, 3} /\ r # 2
  <2>1. \A j \in Lamps : j \in s <=> Col(j) \in {c - 1, c + 1} /\ Row(j) = r
    BY <1>1, <1>2, <1>3, <1>5
  <2>2. \A j : j \in s <=> j \in {5 * r + (c - 1), 5 * r + (c + 1)}
    <3>1. c - 1 \in 0 .. 4 /\ c + 1 \in 0 .. 4
      BY <1>5
    <3> QED
      BY <1>1, <1>2, <1>3, <2>1, <3>1, Grid
  <2>3. 5 * r + (c - 1) # 5 * r + (c + 1)
    BY <1>1
  <2>4. s = {5 * r + (c - 1), 5 * r + (c + 1)}
    BY <2>2
  <2> QED
    BY <2>3, <2>4 DEF Two, s
<1>6. CASE c \in {1, 3} /\ r = 2
  <2>1. \A j : j \notin s
    BY <1>1, <1>2, <1>3, <1>6
  <2> QED
    BY <2>1 DEF Two, s
<1> QED
  BY <1>1, <1>4, <1>5, <1>6

(* A lamp put in or out of a set changes its parity.                       *)
Even(b) == Cardinality(b) % 2 = 0
Differ(b, s) == (b \ s) \cup (s \ b)

LEMMA OneFlip ==
  ASSUME NEW b, IsFiniteSet(b), NEW x
  PROVE  IsFiniteSet(Differ(b, {x})) /\ (Even(Differ(b, {x})) <=> ~Even(b))
<1>1. Cardinality(b) \in Nat
  BY FS_CardinalityType
<1>0. \A n \in Nat : (n + 1) % 2 = 0 <=> ~(n % 2 = 0)
  OBVIOUS
<1>2. CASE x \in b
  <2>1. Differ(b, {x}) = b \ {x}
    BY <1>2 DEF Differ
  <2>2. IsFiniteSet(b \ {x}) /\ Cardinality(b \ {x}) = Cardinality(b) - 1 /\ Cardinality(b \ {x}) \in Nat
    BY <1>2, FS_RemoveElement, FS_CardinalityType
  <2>3. Cardinality(b) = Cardinality(b \ {x}) + 1
    BY <1>1, <2>2
  <2>4. Even(b) <=> ~Even(b \ {x})
    BY <1>0, <2>2, <2>3 DEF Even
  <2> QED
    BY <2>1, <2>2, <2>4
<1>3. CASE x \notin b
  <2>1. Differ(b, {x}) = b \cup {x}
    BY <1>3 DEF Differ
  <2>2. IsFiniteSet(b \cup {x}) /\ Cardinality(b \cup {x}) = Cardinality(b) + 1
    BY <1>3, FS_AddElement
  <2>3. Even(b \cup {x}) <=> ~Even(b)
    BY <1>0, <1>1, <2>2 DEF Even
  <2> QED
    BY <2>1, <2>2, <2>3
<1> QED
  BY <1>2, <1>3

LEMMA TwoFlips ==
  ASSUME NEW b, IsFiniteSet(b), NEW s, Two(s)
  PROVE  Even(Differ(b, s)) <=> Even(b)
<1>1. CASE s = {}
  BY <1>1 DEF Differ
<1>2. ASSUME NEW x, NEW y, x # y, s = {x, y}
      PROVE  Even(Differ(b, s)) <=> Even(b)
  <2>1. Differ(b, s) = Differ(Differ(b, {x}), {y})
    BY <1>2 DEF Differ
  <2>2. IsFiniteSet(Differ(b, {x})) /\ (Even(Differ(b, {x})) <=> ~Even(b))
    BY OneFlip
  <2>3. Even(Differ(Differ(b, {x}), {y})) <=> ~Even(Differ(b, {x}))
    BY <2>2, OneFlip
  <2> QED
    BY <2>1, <2>2, <2>3
<1> QED
  BY <1>1, <1>2 DEF Two

(* No press makes a board that can be solved one that cannot.              *)
Solvable == {b \in SUBSET Lamps : IsSolvable(b)}

LEMMA PressKeepsSolvable ==
  ASSUME NEW b \in Solvable, NEW i \in Lamps
  PROVE  Toggle(b, i) \in Solvable
<1>1. b \in SUBSET Lamps /\ Toggle(b, i) \in SUBSET Lamps
  BY DEF Solvable, Toggle, Cross
<1>2. IsFiniteSet(b)
  <2>1. IsFiniteSet(Lamps)
    <3>1. Lamps = 0 .. 24
      BY DEF Lamps, GRID
    <3>2. IsFiniteSet(0 .. 24)
      <4>1. 0 \in Int /\ 24 \in Int
        OBVIOUS
      <4> QED
        BY <4>1, FS_Interval, Zenon
    <3> QED
      BY <3>1, <3>2
  <2> QED
    BY <1>1, <2>1, FS_Subset
<1>3. ASSUME NEW mask, Two(Cross(i) \cap mask), Even(b \cap mask)
      PROVE  Even(Toggle(b, i) \cap mask)
  <2>1. Toggle(b, i) \cap mask = Differ(b \cap mask, Cross(i) \cap mask)
    BY DEF Toggle, Differ
  <2>2. IsFiniteSet(b \cap mask)
    BY <1>2, FS_Subset
  <2> QED
    BY <1>3, <2>1, <2>2, TwoFlips
<1>4. Even(b \cap MASK_ROWS) /\ Even(b \cap MASK_COLS)
  BY DEF Solvable, IsSolvable, Even
<1>5. Even(Toggle(b, i) \cap MASK_ROWS) /\ Even(Toggle(b, i) \cap MASK_COLS)
  BY <1>3, <1>4, RowsOfCross, ColsOfCross
<1> QED
  BY <1>1, <1>5 DEF Solvable, IsSolvable, Even

LEMMA DarkIsSolvable == {} \in Solvable
  BY FS_EmptySet DEF Solvable, IsSolvable

(* The boards after n random presses of open.  The recursive function      *)
(* exists: by the least n for which no such sequence of sets does.         *)
IsMix(f, n) == f[0] = {{}} /\ \A k \in 1 .. n : f[k] = AnyToggle(f[k - 1])

LEMMA MixesExist == ASSUME NEW n \in Nat PROVE \E f : IsMix(f, n)
<1> DEFINE none == {k \in Nat : ~\E f : IsMix(f, k)}
<1>1. SUFFICES ASSUME n \in none PROVE FALSE
  OBVIOUS
<1>2. PICK m \in none : \A k \in none : m <= k
  <2>1. none \in SUBSET Nat
    OBVIOUS
  <2> HIDE DEF none
  <2> QED
    BY <1>1, <2>1, LeastNatural
<1>3. m \in Nat /\ ~\E f : IsMix(f, m)
  BY <1>2
<1>4. m # 0
  <2> SUFFICES ASSUME m = 0 PROVE FALSE
    OBVIOUS
  <2>1. IsMix([k \in {0} |-> {{}}], 0)
    BY DEF IsMix
  <2> QED
    BY <1>3, <2>1
<1>5. m - 1 \in Nat /\ m - 1 \notin none
  BY <1>2, <1>3, <1>4
<1>6. PICK f : IsMix(f, m - 1)
  BY <1>5
<1> DEFINE next == AnyToggle(f[m - 1])
           g == [k \in 0 .. m |-> IF k = m THEN next ELSE f[k]]
<1>7. g[0] = {{}}
  BY <1>3, <1>4, <1>6 DEF IsMix
<1>8. ASSUME NEW k \in 1 .. m PROVE g[k] = AnyToggle(g[k - 1])
  <2>1. CASE k = m
    <3>1. g[k] = next
      BY <1>3, <2>1
    <3>2. g[k - 1] = f[m - 1]
      BY <1>3, <1>4, <2>1
    <3> HIDE DEF g
    <3> QED
      BY <3>1, <3>2
  <2>2. CASE k # m
    <3>1. k \in 1 .. m - 1 /\ k - 1 \in 0 .. m /\ k - 1 # m
      BY <1>3, <2>2
    <3>2. g[k] = f[k] /\ g[k - 1] = f[k - 1]
      BY <1>3, <2>2, <3>1
    <3> HIDE DEF g
    <3> QED
      BY <1>6, <3>1, <3>2 DEF IsMix
  <2> HIDE DEF g
  <2> QED
    BY <2>1, <2>2
<1>9. IsMix(g, m)
  <2> HIDE DEF g
  <2> QED
    BY <1>7, <1>8 DEF IsMix
<1> QED
  BY <1>3, <1>9

(* A mix reaches only boards that can be solved: by the least k at which   *)
(* it would not.                                                           *)
LEMMA MixesAreSolvable ==
  ASSUME NEW n \in Nat, NEW f, IsMix(f, n)
  PROVE  f[n] \subseteq Solvable
<1> DEFINE wrong == {k \in 0 .. n : ~(f[k] \subseteq Solvable)}
<1>1. SUFFICES ASSUME n \in wrong PROVE FALSE
  OBVIOUS
<1>2. PICK m \in wrong : \A k \in wrong : m <= k
  <2>1. wrong \in SUBSET Nat
    OBVIOUS
  <2> HIDE DEF wrong
  <2> QED
    BY <1>1, <2>1, LeastNatural
<1>3. m \in 0 .. n /\ ~(f[m] \subseteq Solvable)
  BY <1>2
<1>4. m # 0
  BY <1>3, DarkIsSolvable DEF IsMix
<1>5. m - 1 \in 0 .. n /\ m \in 1 .. n /\ ~(m <= m - 1)
  BY <1>3, <1>4
<1>6. f[m - 1] \subseteq Solvable
  BY <1>2, <1>5
<1>7. f[m] = AnyToggle(f[m - 1])
  BY <1>5 DEF IsMix
<1> QED
  BY <1>3, <1>6, <1>7, PressKeepsSolvable DEF AnyToggle

LEMMA ScrambledIsSolvable ==
  ASSUME NEW n \in Nat
  PROVE  Scrambled(n) \subseteq Solvable
<1> DEFINE Is(g) == g = [k \in 0 .. n |-> IF k = 0 THEN {{}}
                                          ELSE AnyToggle(g[k - 1])]
           after == CHOOSE g : Is(g)
<1>1. PICK f : IsMix(f, n)
  BY MixesExist
<1> DEFINE h == [k \in 0 .. n |-> f[k]]
<1>2. Is(h)
  <2>1. ASSUME NEW k \in 0 .. n
        PROVE  h[k] = IF k = 0 THEN {{}} ELSE AnyToggle(h[k - 1])
    <3>1. CASE k = 0
      BY <1>1, <3>1 DEF IsMix
    <3>2. CASE k # 0
      <4>1. k \in 1 .. n /\ k - 1 \in 0 .. n
        BY <3>2
      <4>2. h[k] = f[k] /\ h[k - 1] = f[k - 1]
        BY <4>1
      <4> HIDE DEF h
      <4> QED
        BY <1>1, <3>2, <4>1, <4>2 DEF IsMix
    <3> QED
      BY <3>1, <3>2
  <2>2. h = [k \in 0 .. n |-> h[k]]
    OBVIOUS
  <2> HIDE DEF h
  <2> QED
    BY <2>1, <2>2
<1>3. Is(after)
  <2> HIDE DEF Is, h
  <2> QED
    BY <1>2
<1>4. Scrambled(n) = after[n]
  BY DEF Scrambled
<1>5. IsMix(after, n)
  <2> HIDE DEF after
  <2>1. after[0] = {{}}
    BY <1>3
  <2>2. ASSUME NEW k \in 1 .. n
        PROVE  after[k] = AnyToggle(after[k - 1])
    <3>1. k \in 0 .. n /\ k # 0
      OBVIOUS
    <3> QED
      BY <1>3, <3>1
  <2> HIDE DEF Is
  <2> QED
    BY <2>1, <2>2 DEF IsMix
<1> HIDE DEF after
<1> QED
  BY <1>4, <1>5, MixesAreSolvable

LightsTypes ==
  /\ lights \in [open : BOOLEAN, board : SUBSET Lamps, cursor : Nat, moves : Nat,
                 solved : BOOLEAN, unsolvable : BOOLEAN]
  /\ lights.cursor \in Lamps

LightsInv == LightsTypes /\ lights.board \in Solvable /\ AlwaysSolvable

LEMMA CursorStays ==
  ASSUME NEW c \in Lamps, NEW key \in Arrows
  PROVE  InGrid(c, key, GRID, GRID) \in Lamps
<1>1. Lamps = 0 .. 24 /\ GRID = 5 /\ c \in 0 .. 24
  BY DEF Lamps, GRID
<1>2. ASSUME NEW g, g = InGrid(c, key, GRID, GRID) PROVE g \in 0 .. 24
  <2>1. CASE key = "up"
    BY <1>1, <1>2, <2>1 DEF InGrid
  <2>2. CASE key = "down"
    BY <1>1, <1>2, <2>2 DEF InGrid
  <2>3. CASE key = "left"
    BY <1>1, <1>2, <2>3 DEF InGrid
  <2>4. CASE key = "right"
    BY <1>1, <1>2, <2>4 DEF InGrid
  <2> QED
    BY <2>1, <2>2, <2>3, <2>4 DEF Arrows
<1> QED
  BY <1>1, <1>2

LEMMA PressOfDark ==
  ASSUME NEW i \in Lamps
  PROVE  Toggle({}, i) # {}
<1>1. i \in Cross(i)
  BY Grid DEF Cross
<1> QED
  BY <1>1 DEF Toggle

LEMMA DarkIsSound ==
  ASSUME lights' = DarkBoard PROVE LightsInv'
<1>1. DarkBoard \in [open : BOOLEAN, board : SUBSET Lamps, cursor : Nat, moves : Nat,
                     solved : BOOLEAN, unsolvable : BOOLEAN]
  BY DEF DarkBoard
<1>2. 12 \in Lamps
  BY DEF Lamps, GRID
<1>3. {} \in Solvable /\ IsSolvable({})
  BY DarkIsSolvable DEF Solvable
<1> QED
  BY <1>1, <1>2, <1>3 DEF LightsInv, LightsTypes, AlwaysSolvable, DarkBoard

LEMMA OpenedIsSound ==
  ASSUME LightsInv, LightsOpen PROVE LightsInv'
<1>1. PICK n \in Toggles : \E b \in Scrambled(n) :
        lights' = [DarkBoard EXCEPT !.open = TRUE, !.board = IF b = {} THEN Toggle(b, 12) ELSE b]
  BY DEF LightsOpen
<1>2. PICK b \in Scrambled(n) :
        lights' = [DarkBoard EXCEPT !.open = TRUE, !.board = IF b = {} THEN Toggle(b, 12) ELSE b]
  BY <1>1
<1>3. b \in Solvable
  BY ScrambledIsSolvable, LightsAssumption
<1>4. 12 \in Lamps
  BY DEF Lamps, GRID
<1> DEFINE lit == IF b = {} THEN Toggle(b, 12) ELSE b
<1>5. lit \in Solvable /\ lit # {}
  BY <1>3, <1>4, PressKeepsSolvable, PressOfDark
<1>6. lights' = [DarkBoard EXCEPT !.open = TRUE, !.board = lit]
  BY <1>2
<1> HIDE DEF lit
<1>7. lights' = [open |-> TRUE, board |-> lit, cursor |-> 12, moves |-> 0,
                 solved |-> FALSE, unsolvable |-> FALSE]
  BY <1>6 DEF DarkBoard
<1>8. lit \in SUBSET Lamps /\ IsSolvable(lit)
  BY <1>5 DEF Solvable
<1> QED
  BY <1>4, <1>5, <1>7, <1>8 DEF LightsInv, LightsTypes, AlwaysSolvable

LEMMA MoveIsSound ==
  ASSUME LightsInv, LightsMoves PROVE LightsInv'
<1>1. PICK key \in Arrows : lights' = [lights EXCEPT !.cursor = InGrid(@, key, GRID, GRID)]
  BY DEF LightsMoves
<1> DEFINE c == InGrid(lights.cursor, key, GRID, GRID)
<1>2. c \in Lamps /\ c \in Nat
  BY CursorStays DEF LightsInv, LightsTypes, Lamps
<1>3. lights' = [lights EXCEPT !.cursor = c]
  BY <1>1
<1> HIDE DEF c
<1>4. /\ lights' \in [open : BOOLEAN, board : SUBSET Lamps, cursor : Nat, moves : Nat,
                      solved : BOOLEAN, unsolvable : BOOLEAN]
      /\ lights'.cursor = c /\ lights'.board = lights.board /\ lights'.open = lights.open
      /\ lights'.solved = lights.solved /\ lights'.unsolvable = lights.unsolvable
  BY <1>2, <1>3 DEF LightsInv, LightsTypes
<1> QED
  BY <1>2, <1>4 DEF LightsInv, LightsTypes, AlwaysSolvable, Solvable

LEMMA PressIsSound ==
  ASSUME LightsInv, Press PROVE LightsInv'
<1> DEFINE lit == Toggle(lights.board, lights.cursor)
<1>1. lit \in Solvable
  BY PressKeepsSolvable DEF LightsInv, LightsTypes
<1>2. lights' = [lights EXCEPT !.board = lit, !.moves = @ + 1, !.solved = (lit = {}),
                   !.unsolvable = (lit # {} /\ ~IsSolvable(lit))]
  BY DEF Press
<1> HIDE DEF lit
<1>3. lit \in SUBSET Lamps /\ IsSolvable(lit)
  BY <1>1 DEF Solvable
<1>4. lights' = [lights EXCEPT !.board = lit, !.moves = @ + 1, !.solved = (lit = {}),
                   !.unsolvable = FALSE]
  BY <1>2, <1>3
<1>5. (lit = {}) \in BOOLEAN
  OBVIOUS
<1> DEFINE done == lit = {}
<1>6. lights' = [lights EXCEPT !.board = lit, !.moves = @ + 1, !.solved = done, !.unsolvable = FALSE]
  BY <1>4
<1>7. done \in BOOLEAN /\ (done <=> lit = {})
  OBVIOUS
<1> HIDE DEF done
<1> DEFINE n == lights.moves + 1
<1>9. n \in Nat /\ lights' = [lights EXCEPT !.board = lit, !.moves = n, !.solved = done, !.unsolvable = FALSE]
  BY <1>6 DEF LightsInv, LightsTypes
<1> HIDE DEF n
<1>8. /\ lights' \in [open : BOOLEAN, board : SUBSET Lamps, cursor : Nat, moves : Nat,
                      solved : BOOLEAN, unsolvable : BOOLEAN]
      /\ lights'.cursor = lights.cursor /\ lights'.board = lit
      /\ lights'.solved = done /\ lights'.unsolvable = FALSE
  BY <1>3, <1>7, <1>9 DEF LightsInv, LightsTypes
<1> QED
  BY <1>1, <1>3, <1>7, <1>8 DEF LightsInv, LightsTypes, AlwaysSolvable

(* Lights Out deals only boards that can be solved, whatever the number of *)
(* random toggles, and no press leaves them: a toggle meets each of the    *)
(* masks of is_solvable in none or two lamps, so that the end for a board  *)
(* that cannot be solved is never reached.                                 *)
THEOREM LightsAlwaysSolvable == LightsSpec => []AlwaysSolvable
<1>1. LightsInit => LightsInv
  <2>1. SUFFICES ASSUME lights = DarkBoard PROVE LightsInv
    BY DEF LightsInit
  <2>2. lights \in [open : BOOLEAN, board : SUBSET Lamps, cursor : Nat, moves : Nat,
                    solved : BOOLEAN, unsolvable : BOOLEAN]
    BY <2>1 DEF DarkBoard
  <2>3. 12 \in Lamps
    BY DEF Lamps, GRID
  <2>4. {} \in Solvable /\ IsSolvable({})
    BY DarkIsSolvable DEF Solvable
  <2> QED
    BY <2>1, <2>2, <2>3, <2>4 DEF LightsInv, LightsTypes, AlwaysSolvable, DarkBoard
<1>2. ASSUME LightsInv, [LightsNext]_lights
      PROVE  LightsInv'
  <2>1. CASE LightsOpen
    BY <1>2, <2>1, OpenedIsSound
  <2>2. CASE LightsMoves
    BY <1>2, <2>2, MoveIsSound
  <2>3. CASE Press
    BY <1>2, <2>3, PressIsSound
  <2>4. CASE LightsClose
    BY <2>4, DarkIsSound DEF LightsClose
  <2>5. CASE lights' = lights
    BY <1>2, <2>5 DEF LightsInv, LightsTypes, AlwaysSolvable
  <2> QED
    BY <1>2, <2>1, <2>2, <2>3, <2>4, <2>5 DEF LightsNext
<1>3. LightsInv => AlwaysSolvable
  BY DEF LightsInv
<1> QED
  BY <1>1, <1>2, <1>3, PTL DEF LightsSpec

-----------------------------------------------------------------------------
(* Black Hole.  Each token goes on an empty cell, so the cells still empty *)
(* and the moves made are together one more than a game has moves, and the *)
(* numbers dealt out are those of its moves (Filled): the last move leaves *)
(* one cell.                                                               *)

Token == {"owner", "ei"} \X (Nat \ {0})
Triangle == [Cells -> Token \cup {<< >>}]
On(b) == {b[cell] : cell \in Cells \ Empty(b)}
Numbers(n) == {<<"owner", k>> : k \in 1 .. (n + 1) \div 2} \cup {<<"ei", k>> : k \in 1 .. n \div 2}
Filled(b, n) == /\ b \in Triangle /\ n \in Nat
                /\ On(b) = Numbers(n) /\ IsFiniteSet(Numbers(n)) /\ Cardinality(Numbers(n)) = n
                /\ Cardinality(Empty(b)) + n = LastMove + 1

LEMMA CellsAreFinite == IsFiniteSet(Cells) /\ LastMove \in Nat /\ LastMove >= 1
<1>1. IsFiniteSet((0 .. HOLE_ROWS - 1) \X (0 .. HOLE_ROWS - 1))
  <2>1. HOLE_ROWS - 1 \in Int /\ 0 \in Int
    BY BlackHoleAssumption
  <2>2. IsFiniteSet(0 .. HOLE_ROWS - 1)
    BY <2>1, FS_Interval
  <2> QED
    BY <2>2, FS_Product
<1>2. Cells \subseteq (0 .. HOLE_ROWS - 1) \X (0 .. HOLE_ROWS - 1)
  BY BlackHoleAssumption DEF Cells
<1>3. IsFiniteSet(Cells)
  BY <1>1, <1>2, FS_Subset
<1>4. {<<0, 0>>, <<1, 0>>} \in SUBSET Cells
  <2>1. 0 \in 0 .. HOLE_ROWS - 1 /\ 1 \in 0 .. HOLE_ROWS - 1 /\ 0 \in 0 .. 0 /\ 0 \in 0 .. 1
    BY BlackHoleAssumption
  <2> QED
    BY <2>1 DEF Cells
<1>5. <<0, 0>> # <<1, 0>>
  OBVIOUS
<1>6. IsFiniteSet({<<0, 0>>}) /\ Cardinality({<<0, 0>>}) = 1
  BY FS_Singleton
<1>7. {<<0, 0>>} \cup {<<1, 0>>} = {<<0, 0>>, <<1, 0>>}
  OBVIOUS
<1>8. Cardinality({<<0, 0>>, <<1, 0>>}) = 2
  <2>1. <<1, 0>> \notin {<<0, 0>>}
    BY <1>5
  <2> DEFINE one == {<<0, 0>>}
             x == <<1, 0>>
  <2>2. IsFiniteSet(one) /\ Cardinality(one) = 1 /\ x \notin one
    BY <1>6, <2>1
  <2>3. Cardinality(one \cup {x}) = 2
    <3> HIDE DEF one, x
    <3> QED
      BY <2>2, FS_AddElement
  <2> QED
    BY <1>7, <2>3
<1>9. 2 <= Cardinality(Cells)
  BY <1>3, <1>4, <1>8, FS_Subset
<1>10. Cardinality(Cells) \in Nat
  BY <1>3, FS_CardinalityType
<1> QED
  BY <1>3, <1>9, <1>10 DEF LastMove

LEMMA NoTokenIsEmpty == \A t \in Token : t # << >>
<1> SUFFICES ASSUME NEW t \in Token, t = << >> PROVE FALSE
  OBVIOUS
<1>1. t[1] \in {"owner", "ei"} /\ DOMAIN t = {1, 2}
  BY DEF Token
<1>2. DOMAIN << >> = {}
  OBVIOUS
<1> QED
  BY <1>1, <1>2

(* A token on an empty cell.                                               *)
LEMMA Placed ==
  ASSUME NEW b \in Triangle, NEW x \in Empty(b), NEW t \in Token
  PROVE  LET after == [b EXCEPT ![x] = t]
         IN  /\ after \in Triangle
             /\ Empty(after) = Empty(b) \ {x}
             /\ On(after) = On(b) \cup {t}
<1> DEFINE after == [b EXCEPT ![x] = t]
<1>1. x \in Cells /\ b[x] = << >>
  BY DEF Empty
<1>2. after \in Triangle /\ after[x] = t /\ \A y \in Cells : y # x => after[y] = b[y]
  BY <1>1 DEF Triangle
<1> HIDE DEF after
<1>3. Empty(after) = Empty(b) \ {x}
  BY <1>1, <1>2, NoTokenIsEmpty DEF Empty
<1>4. Cells \ Empty(after) = (Cells \ Empty(b)) \cup {x} /\ x \notin Cells \ Empty(b)
  BY <1>1, <1>3 DEF Empty
<1>5. On(after) = On(b) \cup {t}
  BY <1>1, <1>2, <1>4 DEF On
<1> QED
  BY <1>2, <1>3, <1>5 DEF after

(* The owner's number is followed by the same number of the EI. *)
LEMMA NumbersGrow ==
  ASSUME NEW n \in Nat
  PROVE  /\ n % 2 = 0 => LET t == <<"owner", n \div 2 + 1>>
                         IN  t \in Token /\ t \notin Numbers(n) /\ Numbers(n + 1) = Numbers(n) \cup {t}
         /\ n % 2 = 1 => LET t == <<"ei", n \div 2 + 1>>
                         IN  t \in Token /\ t \notin Numbers(n) /\ Numbers(n + 1) = Numbers(n) \cup {t}
<1> DEFINE k == n \div 2
<1>1. k \in Nat /\ k + 1 \in Nat \ {0}
  OBVIOUS
<1>2. CASE n % 2 = 0
  <2>1. (n + 1) \div 2 = k /\ (n + 1 + 1) \div 2 = k + 1
    BY <1>2
  <2> HIDE DEF k
  <2>2. 1 .. k + 1 = (1 .. k) \cup {k + 1} /\ k + 1 \notin 1 .. k
    BY <1>1
  <2>3. <<"owner", k + 1>> \in Token
    BY <1>1 DEF Token
  <2>4. Numbers(n) = {<<"owner", j>> : j \in 1 .. k} \cup {<<"ei", j>> : j \in 1 .. k}
    BY <2>1 DEF Numbers, k
  <2>5. Numbers(n + 1) = {<<"owner", j>> : j \in 1 .. k + 1} \cup {<<"ei", j>> : j \in 1 .. k}
    BY <2>1 DEF Numbers, k
  <2>6. <<"owner", k + 1>> \notin Numbers(n)
    BY <2>2, <2>4
  <2>7. Numbers(n + 1) = Numbers(n) \cup {<<"owner", k + 1>>}
    BY <2>2, <2>4, <2>5
  <2> QED
    BY <1>2, <2>3, <2>6, <2>7 DEF k
<1>3. CASE n % 2 = 1
  <2>1. (n + 1) \div 2 = k + 1 /\ (n + 1 + 1) \div 2 = k + 1
    BY <1>3
  <2> HIDE DEF k
  <2>2. 1 .. k + 1 = (1 .. k) \cup {k + 1} /\ k + 1 \notin 1 .. k
    BY <1>1
  <2>3. <<"ei", k + 1>> \in Token
    BY <1>1 DEF Token
  <2>4. Numbers(n) = {<<"owner", j>> : j \in 1 .. k + 1} \cup {<<"ei", j>> : j \in 1 .. k}
    BY <2>1 DEF Numbers, k
  <2>5. Numbers(n + 1) = {<<"owner", j>> : j \in 1 .. k + 1} \cup {<<"ei", j>> : j \in 1 .. k + 1}
    BY <2>1 DEF Numbers, k
  <2>6. <<"ei", k + 1>> \notin Numbers(n)
    BY <2>2, <2>4
  <2>7. Numbers(n + 1) = Numbers(n) \cup {<<"ei", k + 1>>}
    BY <2>2, <2>4, <2>5
  <2> QED
    BY <1>3, <2>3, <2>6, <2>7 DEF k
<1> QED
  BY <1>2, <1>3

LEMMA NothingPlaced == Filled([cell \in Cells |-> << >>], 0)
<1> DEFINE b == [cell \in Cells |-> << >>]
<1>1. b \in Triangle /\ \A cell \in Cells : b[cell] = << >>
  BY DEF Triangle
<1> HIDE DEF b
<1>2. Empty(b) = Cells /\ On(b) = {}
  BY <1>1 DEF Empty, On
<1>3. Numbers(0) = {}
  BY DEF Numbers
<1>4. IsFiniteSet({}) /\ Cardinality({}) = 0
  BY FS_EmptySet
<1>5. Cardinality(Cells) \in Nat
  BY CellsAreFinite, FS_CardinalityType
<1>6. Cardinality(Empty(b)) + 0 = LastMove + 1
  BY <1>2, <1>5 DEF LastMove
<1>7. Filled(b, 0)
  BY <1>1, <1>2, <1>3, <1>4, <1>6 DEF Filled
<1> QED
  BY <1>7 DEF b

LEMMA Fills ==
  ASSUME NEW b, NEW n, Filled(b, n), NEW x \in Empty(b), NEW t \in Token,
         t \notin Numbers(n), Numbers(n + 1) = Numbers(n) \cup {t}
  PROVE  Filled([b EXCEPT ![x] = t], n + 1)
<1> DEFINE after == [b EXCEPT ![x] = t]
<1>1. b \in Triangle /\ n \in Nat /\ n + 1 \in Nat
  BY DEF Filled
<1>2. after \in Triangle /\ Empty(after) = Empty(b) \ {x} /\ On(after) = On(b) \cup {t}
  BY <1>1, Placed
<1> HIDE DEF after
<1>3. On(after) = Numbers(n + 1)
  BY <1>2 DEF Filled
<1>4. IsFiniteSet(Numbers(n + 1)) /\ Cardinality(Numbers(n + 1)) = n + 1
  BY FS_AddElement DEF Filled
<1>5. Cardinality(Empty(after)) + (n + 1) = LastMove + 1
  <2>1. IsFiniteSet(Empty(b))
    BY CellsAreFinite, FS_Subset DEF Empty
  <2>2. Cardinality(Empty(after)) = Cardinality(Empty(b)) - 1 /\ Cardinality(Empty(b)) \in Nat
    BY <1>2, <2>1, FS_RemoveElement, FS_CardinalityType
  <2>3. Cardinality(Empty(b)) + n = LastMove + 1 /\ LastMove \in Nat
    BY CellsAreFinite DEF Filled
  <2> QED
    BY <1>1, <2>2, <2>3
<1>6. Filled(after, n + 1)
  BY <1>1, <1>2, <1>3, <1>4, <1>5 DEF Filled
<1> QED
  BY <1>6 DEF after

LEMMA OneHole ==
  ASSUME NEW b, Filled(b, LastMove)
  PROVE  \E h \in Cells : Empty(b) = {h}
<1>1. IsFiniteSet(Empty(b)) /\ Empty(b) \subseteq Cells
  BY CellsAreFinite, FS_Subset DEF Empty
<1>2. Cardinality(Empty(b)) \in Nat /\ Cardinality(Empty(b)) + LastMove = LastMove + 1 /\ LastMove \in Nat
  BY <1>1, CellsAreFinite, FS_CardinalityType DEF Filled
<1>3. Cardinality(Empty(b)) = 1
  BY <1>2
<1>4. PICK h : Empty(b) = {h}
  BY <1>1, <1>3, FS_Singleton
<1> QED
  BY <1>1, <1>4

(* What holds of a game at every moment.                                   *)
TokenGame == [open : BOOLEAN, menu : BOOLEAN, pos : {"hard", "easy"}, hard : BOOLEAN, board : Triangle,
              cursor : Cells, moves : Nat, result : {"none", "owner", "ei", "tie"}, hole : Cells \cup {NoHole}]
GameCounted(g) ==
  /\ Filled(g.board, g.moves)
  /\ g.result = "none" => g.moves < LastMove
  /\ g.result # "none" => Empty(g.board) = {g.hole}
TokensInv == tokens \in TokenGame /\ GameCounted(tokens)

LEMMA ClosedIsCounted == NoTokens \in TokenGame /\ GameCounted(NoTokens)
<1>1. <<HOLE_ROWS - 1, 0>> \in Cells
  <2>1. HOLE_ROWS - 1 \in 0 .. HOLE_ROWS - 1 /\ 0 \in 0 .. HOLE_ROWS - 1
    BY BlackHoleAssumption
  <2> QED
    BY <2>1 DEF Cells
<1> DEFINE b == [cell \in Cells |-> << >>]
<1>2. b \in Triangle /\ Filled(b, 0)
  BY NothingPlaced DEF Triangle
<1> HIDE DEF b
<1>3. NoTokens = [open |-> FALSE, menu |-> TRUE, pos |-> "hard", hard |-> TRUE,
             board |-> b, cursor |-> <<HOLE_ROWS - 1, 0>>,
             moves |-> 0, result |-> "none", hole |-> NoHole]
  BY DEF NoTokens, b
<1> DEFINE c == <<HOLE_ROWS - 1, 0>>
<1>4. c \in Cells /\ NoTokens = [open |-> FALSE, menu |-> TRUE, pos |-> "hard", hard |-> TRUE, board |-> b,
                                cursor |-> c, moves |-> 0, result |-> "none", hole |-> NoHole]
  BY <1>1, <1>3
<1> HIDE DEF c
<1>5. NoTokens \in TokenGame /\ NoTokens.board = b /\ NoTokens.moves = 0 /\ NoTokens.result = "none"
  BY <1>2, <1>4 DEF TokenGame
<1>6. 0 < LastMove
  BY CellsAreFinite
<1> QED
  BY <1>2, <1>5, <1>6 DEF GameCounted

(* finish_game finds the one cell that is left.                            *)
LEMMA EndedIsCounted ==
  ASSUME NEW g \in TokenGame, Filled(g.board, LastMove), g.moves = LastMove
  PROVE  Ended(g) \in TokenGame /\ GameCounted(Ended(g)) /\ Ended(g).open = g.open
<1>1. PICK h \in Cells : Empty(g.board) = {h}
  BY OneHole
<1> DEFINE hole == CHOOSE cell \in Empty(g.board) : \A other \in Empty(g.board) :
                      \/ cell[1] < other[1] \/ (cell[1] = other[1] /\ cell[2] <= other[2])
           lead == Lead(g.board, hole)
           winner == IF lead < 0 THEN "owner" ELSE IF lead > 0 THEN "ei" ELSE "tie"
<1>2. h[2] <= h[2]
  BY BlackHoleAssumption DEF Cells
<1>3. hole = h
  BY <1>1, <1>2
<1>4. winner \in {"none", "owner", "ei", "tie"} /\ winner # "none"
  <2> DEFINE p == lead < 0
             q == lead > 0
  <2>1. winner = IF p THEN "owner" ELSE IF q THEN "ei" ELSE "tie"
    OBVIOUS
  <2> HIDE DEF p, q, winner
  <2> QED
    BY <2>1
<1>5. Ended(g) = [g EXCEPT !.hole = hole, !.result = winner]
  BY DEF Ended
<1> HIDE DEF hole, lead, winner
<1>6. /\ Ended(g) \in TokenGame
      /\ Ended(g).board = g.board /\ Ended(g).moves = g.moves /\ Ended(g).open = g.open
      /\ Ended(g).hole = h /\ Ended(g).result = winner
  BY <1>3, <1>4, <1>5 DEF TokenGame
<1> QED
  BY <1>1, <1>4, <1>6 DEF GameCounted

LEMMA FinishIsCounted ==
  ASSUME NEW g \in TokenGame, Filled(g.board, g.moves), g.moves <= LastMove, g.result = "none"
  PROVE  Finish(g) \in TokenGame /\ GameCounted(Finish(g))
<1>1. g.moves \in Nat /\ LastMove \in Nat
  BY CellsAreFinite DEF TokenGame
<1>2. CASE g.moves >= LastMove
  <2>1. g.moves = LastMove
    BY <1>1, <1>2
  <2> QED
    BY <1>2, <2>1, EndedIsCounted DEF Finish
<1>3. CASE ~(g.moves >= LastMove)
  BY <1>1, <1>3 DEF Finish, GameCounted
<1> QED
  BY <1>2, <1>3

LEMMA DropIsCounted ==
  ASSUME TokensInv, Drop PROVE TokensInv'
<1> DEFINE n == tokens.moves \div 2 + 1
           m == tokens.moves
           x == tokens.cursor
           t == <<"owner", n>>
           b == [tokens.board EXCEPT ![x] = t]
           own == [tokens EXCEPT !.board[tokens.cursor] = <<"owner", n>>, !.moves = @ + 1]
<1>1. /\ tokens \in TokenGame /\ Filled(tokens.board, m) /\ tokens.result = "none" /\ m < LastMove
      /\ m % 2 = 0 /\ m \in Nat /\ m + 1 \in Nat /\ x \in Empty(tokens.board)
  <2>1. tokens \in TokenGame /\ Filled(tokens.board, m) /\ tokens.result = "none"
    BY DEF TokensInv, GameCounted, Drop
  <2>2. m < LastMove
    BY <2>1 DEF TokensInv, GameCounted
  <2>3. m % 2 = 0 /\ tokens.board[x] = << >>
    BY DEF Drop
  <2>4. m \in Nat /\ x \in Cells
    BY <2>1 DEF TokenGame
  <2>5. x \in Empty(tokens.board)
    BY <2>3, <2>4 DEF Empty
  <2> QED
    BY <2>1, <2>2, <2>3, <2>4, <2>5
<1>2. t \in Token /\ t \notin Numbers(m) /\ Numbers(m + 1) = Numbers(m) \cup {t}
  BY <1>1, NumbersGrow
<1>3. own = [tokens EXCEPT !.board = b, !.moves = m + 1]
  BY <1>1 DEF TokenGame
<1>4. \/ own.moves >= LastMove /\ tokens' = Ended(own)
      \/ /\ ~(own.moves >= LastMove)
         /\ \E cell \in BestCells(own.board, n, own.hard) :
                   tokens' = Finish([own EXCEPT !.board[cell] = <<"ei", n>>, !.moves = @ + 1])
  BY DEF Drop
<1>5. Filled(b, m + 1)
  <2> HIDE DEF t, m, x
  <2> QED
    BY <1>1, <1>2, Fills
<1>6. b \in Triangle
  BY <1>5 DEF Filled
<1> HIDE DEF b, own
<1>7. /\ own \in TokenGame /\ own.board = b /\ own.moves = m + 1 /\ own.result = "none"
  BY <1>1, <1>3, <1>6 DEF TokenGame
<1>8. LastMove \in Nat
  BY CellsAreFinite
<1>9. CASE own.moves >= LastMove /\ tokens' = Ended(own)
  <2>1. own.moves = LastMove
    BY <1>1, <1>7, <1>8, <1>9
  <2>2. Filled(own.board, LastMove)
    BY <1>5, <1>7, <2>1
  <2> QED
    BY <1>7, <1>9, <2>1, <2>2, EndedIsCounted DEF TokensInv
<1>10. ASSUME ~(own.moves >= LastMove), NEW cell \in BestCells(own.board, n, own.hard),
              tokens' = Finish([own EXCEPT !.board[cell] = <<"ei", n>>, !.moves = @ + 1])
       PROVE  TokensInv'
  <2> DEFINE e == <<"ei", n>>
             both == [b EXCEPT ![cell] = e]
             g == [own EXCEPT !.board[cell] = <<"ei", n>>, !.moves = @ + 1]
  <2>1. cell \in Empty(b)
    BY <1>7 DEF BestCells
  <2>2. (m + 1) % 2 = 1 /\ (m + 1) \div 2 + 1 = n
    BY <1>1
  <2>3. e \in Token /\ e \notin Numbers(m + 1) /\ Numbers(m + 1 + 1) = Numbers(m + 1) \cup {e}
    BY <1>1, <2>2, NumbersGrow
  <2>4. Filled(both, m + 1 + 1)
    <3> HIDE DEF e, m
    <3> QED
      BY <1>5, <2>1, <2>3, Fills
  <2>5. both \in Triangle
    BY <2>4 DEF Filled
  <2>6. g = [own EXCEPT !.board = both, !.moves = m + 1 + 1]
    BY <1>7 DEF TokenGame
  <2> DEFINE m2 == m + 1 + 1
  <2>11. m2 \in Nat /\ g = [own EXCEPT !.board = both, !.moves = m2]
    BY <1>1, <2>6
  <2> HIDE DEF both, g, m2
  <2>12. g \in TokenGame /\ g.board = both /\ g.moves = m2 /\ g.result = "none"
    BY <1>7, <2>5, <2>11 DEF TokenGame
  <2>7. g \in TokenGame /\ g.board = both /\ g.moves = m + 1 + 1 /\ g.result = "none"
    BY <2>12 DEF m2
  <2>8. g.moves <= LastMove
    BY <1>1, <1>7, <1>8, <1>10, <2>7
  <2>9. Filled(g.board, g.moves)
    BY <2>4, <2>7
  <2>10. tokens' = Finish(g)
    BY <1>10 DEF g
  <2> QED
    BY <2>7, <2>8, <2>9, <2>10, FinishIsCounted DEF TokensInv
<1> QED
  BY <1>4, <1>9, <1>10

(* The picker and the cursor leave the count alone.                        *)
LEMMA KeptCounts ==
  ASSUME TokensInv, tokens' \in TokenGame,
         tokens'.board = tokens.board, tokens'.moves = tokens.moves,
         tokens'.result = tokens.result, tokens'.hole = tokens.hole
  PROVE  TokensInv'
  BY DEF TokensInv, GameCounted

LEMMA TokensStep ==
  ASSUME TokensInv, [TokensNext]_tokens PROVE TokensInv'
<1>1. CASE TokensOpen
  <2>1. tokens' = [NoTokens EXCEPT !.open = TRUE]
    BY <1>1 DEF TokensOpen
  <2>2. /\ tokens' \in TokenGame /\ tokens'.board = NoTokens.board /\ tokens'.moves = NoTokens.moves
        /\ tokens'.result = NoTokens.result /\ tokens'.hole = NoTokens.hole
    <3> DEFINE z == NoTokens
    <3>1. z \in TokenGame /\ tokens' = [z EXCEPT !.open = TRUE]
      BY <2>1, ClosedIsCounted
    <3> HIDE DEF z
    <3>2. /\ tokens' \in TokenGame /\ tokens'.board = z.board /\ tokens'.moves = z.moves
          /\ tokens'.result = z.result /\ tokens'.hole = z.hole
      BY <3>1 DEF TokenGame
    <3> QED
      BY <3>2 DEF z
  <2> QED
    BY <2>2, ClosedIsCounted DEF TokensInv, GameCounted
<1>2. CASE TokensPicker
  <2>1. PICK key \in Arrows : tokens' = InPicker(tokens, key)
    BY <1>2 DEF TokensPicker
  <2>2. \/ tokens' = tokens \/ tokens' = [tokens EXCEPT !.pos = "easy"]
        \/ tokens' = [tokens EXCEPT !.pos = "hard"]
    BY <2>1 DEF InPicker, Arrows
  <2>4. ASSUME NEW pos \in {"hard", "easy"}, tokens' = [tokens EXCEPT !.pos = pos]
        PROVE  /\ tokens' \in TokenGame /\ tokens'.board = tokens.board /\ tokens'.moves = tokens.moves
               /\ tokens'.result = tokens.result /\ tokens'.hole = tokens.hole
    BY <2>4 DEF TokensInv, TokenGame
  <2>3. /\ tokens' \in TokenGame /\ tokens'.board = tokens.board /\ tokens'.moves = tokens.moves
        /\ tokens'.result = tokens.result /\ tokens'.hole = tokens.hole
    <3>1. CASE tokens' = tokens
      BY <3>1 DEF TokensInv
    <3>2. CASE tokens' = [tokens EXCEPT !.pos = "easy"]
      BY <2>4, <3>2
    <3>3. CASE tokens' = [tokens EXCEPT !.pos = "hard"]
      BY <2>4, <3>3
    <3> QED
      BY <2>2, <3>1, <3>2, <3>3
  <2> QED
    BY <2>3, KeptCounts
<1>3. CASE TokensStart
  <2> DEFINE hard == tokens.pos = "hard"
  <2>1. tokens' = [tokens EXCEPT !.hard = hard, !.menu = FALSE] /\ hard \in BOOLEAN
    BY <1>3 DEF TokensStart
  <2> HIDE DEF hard
  <2>2. /\ tokens' \in TokenGame /\ tokens'.board = tokens.board /\ tokens'.moves = tokens.moves
        /\ tokens'.result = tokens.result /\ tokens'.hole = tokens.hole
    BY <2>1 DEF TokensInv, TokenGame
  <2> QED
    BY <2>2, KeptCounts
<1>4. CASE TokensClose
  BY <1>4, ClosedIsCounted DEF TokensClose, TokensInv
<1>5. CASE TokensMove
  <2>1. PICK to \in Cells : tokens' = [tokens EXCEPT !.cursor = to]
    BY <1>5 DEF TokensMove
  <2>2. /\ tokens' \in TokenGame /\ tokens'.board = tokens.board /\ tokens'.moves = tokens.moves
        /\ tokens'.result = tokens.result /\ tokens'.hole = tokens.hole
    BY <2>1 DEF TokensInv, TokenGame
  <2> QED
    BY <2>2, KeptCounts
<1>6. CASE Drop
  BY <1>6, DropIsCounted
<1>7. CASE tokens' = tokens
  BY <1>7 DEF TokensInv
<1> QED
  BY <1>1, <1>2, <1>3, <1>4, <1>5, <1>6, <1>7 DEF TokensNext

(* On a triangle of any size every number is on the board once for each    *)
(* side, and a game that is over has left one cell empty, its hole.        *)
THEOREM TokensCounted == TokensSpec => []TokensAreCounted
<1>1. TokensInit => TokensInv
  BY ClosedIsCounted DEF TokensInit, TokensInv
<1>2. TokensInv => TokensAreCounted
  <2> SUFFICES ASSUME TokensInv PROVE TokensAreCounted
    OBVIOUS
  <2>1. On(tokens.board) = Numbers(tokens.moves) /\ Cardinality(On(tokens.board)) = tokens.moves
    BY DEF TokensInv, GameCounted, Filled
  <2>2. tokens.result # "none" => Empty(tokens.board) = {tokens.hole}
    BY DEF TokensInv, GameCounted
  <2> QED
    BY <2>1, <2>2 DEF TokensAreCounted, On, Numbers
<1> QED
  BY <1>1, <1>2, TokensStep, PTL DEF TokensSpec
=============================================================================
