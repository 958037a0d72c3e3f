---------------------------- MODULE StoreProofs ----------------------------
(***************************************************************************)
(* CloudStore keeps what it acknowledged, without gaps and unchanged,      *)
(* reads of several pages return what the table held at one moment, and    *)
(* tails are complete as long as no save is cut short: for every interval, *)
(* limit of batches and pages, number of clients and set of faults.        *)
(***************************************************************************)
EXTENDS CloudStore, Induction, SequenceTheorems

(***************************************************************************)
(* Sets of versions that are bounded have a last one and can be counted    *)
(* off.                                                                    *)
(***************************************************************************)
LEMMA BoundedHasLast ==
  ASSUME NEW b \in Nat, NEW S \in SUBSET (1..b), S # {}
  PROVE  \E m \in S : \A w \in S : w <= m
<1> DEFINE HasLast(R) == R = {} \/ \E m \in R : \A w \in R : w <= m
           T == {k \in Nat : \A R \in SUBSET (1..k) : HasLast(R)}
<1>1. 0 \in T
  OBVIOUS
<1>2. ASSUME NEW k \in T PROVE k + 1 \in T
  <2>1. SUFFICES ASSUME NEW R \in SUBSET (1..(k + 1)) PROVE HasLast(R)
    OBVIOUS
  <2>2. CASE k + 1 \in R
    BY <2>2
  <2>3. CASE k + 1 \notin R
    <3>1. R \in SUBSET (1..k)
      BY <2>3
    <3>. QED
      BY <3>1
  <2>. QED
    BY <2>2, <2>3
<1>3. T = Nat
  <2> HIDE DEF T
  <2>1. T \in SUBSET Nat
    BY DEF T
  <2>. QED
    BY <1>1, <1>2, <2>1, SetInduction
<1>. QED
  BY <1>3

LEMMA LastOfBounded ==
  ASSUME NEW b \in Nat, NEW S \in SUBSET (1..b)
  PROVE  /\ LastOf(S) \in 0..b
         /\ S # {} => LastOf(S) \in S
         /\ \A w \in S : w <= LastOf(S)
<1>1. CASE S = {}
  BY <1>1 DEF LastOf
<1>2. CASE S # {}
  <2>1. \E m \in S : \A w \in S : w <= m
    BY <1>2, BoundedHasLast
  <2> DEFINE last == CHOOSE v \in S : \A w \in S : w <= v
  <2>2. last \in S /\ \A w \in S : w <= last
    BY <2>1
  <2>3. LastOf(S) = last
    BY <1>2 DEF LastOf
  <2> HIDE DEF last
  <2>. QED
    BY <2>2, <2>3
<1>. QED
  BY <1>1, <1>2

LEMMA LastOfInterval ==
  ASSUME NEW n \in Nat
  PROVE  LastOf(1..n) = n
<1>1. /\ LastOf(1..n) \in 0..n
      /\ \A w \in 1..n : w <= LastOf(1..n)
  BY LastOfBounded
<1>. QED
  BY <1>1

(* The i-th version of a set, counted from below. *)
LEMMA BoundedCountsOff ==
  ASSUME NEW b \in Nat, NEW S \in SUBSET (1..b), NEW i \in 1..Cardinality(S)
  PROVE  \E v \in S : Cardinality({w \in S : w < v}) = i - 1
<1> DEFINE Below(R, v) == {w \in R : w < v}
           Counts(R) == \A j \in 1..Cardinality(R) :
                          \E v \in R : Cardinality(Below(R, v)) = j - 1
           T == {k \in Nat : \A R \in SUBSET (1..k) : Counts(R)}
<1>1. 0 \in T
  <2>1. \A R \in SUBSET (1..0) : R = {}
    OBVIOUS
  <2>2. Counts({})
    BY FS_EmptySet
  <2>. QED
    BY <2>1, <2>2
<1>2. ASSUME NEW k \in T PROVE k + 1 \in T
  <2>0. k \in Nat
    OBVIOUS
  <2>1. SUFFICES ASSUME NEW R \in SUBSET (1..(k + 1)) PROVE Counts(R)
    OBVIOUS
  <2>2. CASE k + 1 \notin R
    <3>1. R \in SUBSET (1..k)
      BY <2>2
    <3>. QED
      BY <3>1
  <2>3. CASE k + 1 \in R
    <3> DEFINE Rest == R \ {k + 1}
    <3>1. Rest \in SUBSET (1..k) /\ Counts(Rest)
      <4>1. Rest \in SUBSET (1..k)
        BY <2>3
      <4>. QED
        BY <4>1
    <3>2. /\ IsFiniteSet(R) /\ Cardinality(R) \in Nat
          /\ Cardinality(Rest) = Cardinality(R) - 1
      <4>1. IsFiniteSet(1..(k + 1))
        BY <2>0, FS_Interval
      <4>2. IsFiniteSet(R)
        BY <4>1, FS_Subset
      <4>. QED
        BY <2>3, <4>2, FS_CardinalityType, FS_RemoveElement
    <3>3. ASSUME NEW j \in 1..Cardinality(R)
          PROVE  \E v \in R : Cardinality(Below(R, v)) = j - 1
      <4>1. CASE j = Cardinality(R)
        <5>1. Below(R, k + 1) = Rest
          <6>1. \A w \in R : w < k + 1 <=> w # k + 1
            BY <2>0
          <6>. QED
            BY <6>1
        <5>. QED
          BY <2>3, <3>2, <4>1, <5>1
      <4>2. CASE j # Cardinality(R)
        <5>1. j \in 1..Cardinality(Rest)
          BY <3>2, <4>2
        <5>2. PICK v \in Rest : Cardinality(Below(Rest, v)) = j - 1
          BY <3>1, <5>1
        <5>3. Below(R, v) = Below(Rest, v)
          <6>1. v < k + 1
            BY <3>1
          <6>. QED
            BY <6>1, <3>1
        <5>. QED
          BY <5>2, <5>3
      <4>. QED
        BY <4>1, <4>2
    <3>. QED
      BY <3>3
  <2>. QED
    BY <2>2, <2>3
<1>3. T = Nat
  <2> HIDE DEF T
  <2>1. T \in SUBSET Nat
    BY DEF T
  <2>. QED
    BY <1>1, <1>2, <2>1, SetInduction
<1>4. Counts(S)
  BY <1>3
<1>. QED
  BY <1>4

(* The i-th of a set of versions, as a page has it. *)
Ith(S, i) == CHOOSE v \in S : Cardinality({w \in S : w < v}) = i - 1

LEMMA IntervalCountsOff ==
  ASSUME NEW g \in Nat, NEW h \in Nat, g <= h, NEW i \in 1..(h - g),
         NEW S, S = (g + 1)..h
  PROVE  Ith(S, i) = g + i
<1>1. ASSUME NEW v \in S
      PROVE  Cardinality({w \in S : w < v}) = v - g - 1
  <2>1. {w \in S : w < v} = (g + 1)..(v - 1)
    OBVIOUS
  <2>2. Cardinality((g + 1)..(v - 1)) = v - g - 1
    BY FS_Interval
  <2>. QED
    BY <2>1, <2>2
<1>2. g + i \in S
  OBVIOUS
<1>3. \A v \in S : Cardinality({w \in S : w < v}) = i - 1 <=> v = g + i
  BY <1>1
<1>. QED
  BY <1>2, <1>3 DEF Ith

(* A page is made of versions it may be made of. *)
LEMMA PageOfVersions ==
  ASSUME NEW b \in Nat, NEW versions \in SUBSET (1..b), NEW m, NEW k \in Nat
  PROVE  FirstReached(m, versions, k) \in Seq(versions)
<1> DEFINE Reached(v) ==
             Cardinality({w \in versions : IF m = "tail" THEN w > v ELSE w < v})
           page == {v \in versions : Reached(v) < k}
<1>1. page \in SUBSET (1..b) /\ page \subseteq versions
  OBVIOUS
<1> HIDE DEF page
<1>2. Cardinality(page) \in Nat
  <2>1. IsFiniteSet(1..b)
    BY FS_Interval
  <2>2. IsFiniteSet(page)
    BY <1>1, <2>1, FS_Subset
  <2>. QED
    BY <2>2, FS_CardinalityType
<1>3. ASSUME NEW i \in 1..Cardinality(page) PROVE Ith(page, i) \in versions
  <2>1. \E v \in page : Cardinality({w \in page : w < v}) = i - 1
    BY <1>1, BoundedCountsOff
  <2>. QED
    BY <1>1, <2>1 DEF Ith
<1>4. FirstReached(m, versions, k) = [i \in 1..Cardinality(page) |-> Ith(page, i)]
  BY DEF FirstReached, Ith, page
<1>. QED
  BY <1>2, <1>3, <1>4

(* The page of a tail from a stream without gaps. *)
LEMMA PageOfTail ==
  ASSUME NEW h \in Nat, NEW k \in Nat
  PROVE  \E n \in 0..h :
           /\ n <= k
           /\ n < h => n = k
           /\ FirstReached("tail", 1..h, k) = [i \in 1..n |-> h - n + i]
<1> DEFINE Reached(v) == Cardinality({w \in 1..h : IF "tail" = "tail" THEN w > v ELSE w < v})
           page == {v \in 1..h : Reached(v) < k}
<1>1. ASSUME NEW v \in 1..h PROVE Reached(v) = h - v
  <2>1. {w \in 1..h : w > v} = (v + 1)..h
    OBVIOUS
  <2>2. Cardinality((v + 1)..h) = h - v
    BY FS_Interval
  <2>. QED
    BY <2>1, <2>2
<1>2. PICK n \in 0..h : n <= k /\ (n < h => n = k)
  <2>1. CASE k < h
    BY <2>1
  <2>2. CASE k >= h
    BY <2>2
  <2>. QED
    BY <2>1, <2>2
<1>3. PICK g \in Nat : g = h - n
  BY <1>2
<1>4. page = (g + 1)..h
  <2>1. page = {v \in 1..h : h - v < k}
    BY <1>1
  <2>2. \A v \in 1..h : h - v < k <=> v >= g + 1
    BY <1>2, <1>3
  <2>3. {v \in 1..h : h - v < k} = (g + 1)..h
    BY <1>3, <2>2
  <2>. QED
    BY <2>1, <2>3
<1>5. FirstReached("tail", 1..h, k) = [i \in 1..Cardinality(page) |-> Ith(page, i)]
  BY DEF FirstReached, Ith
<1> HIDE DEF page
<1>6. Cardinality(page) = n
  <2>1. Cardinality((g + 1)..h) = n
    BY <1>2, <1>3, FS_Interval
  <2>. QED
    BY <1>4, <2>1
<1>7. ASSUME NEW i \in 1..n PROVE Ith(page, i) = h - n + i
  <2>1. g <= h /\ i \in 1..(h - g)
    BY <1>2, <1>3
  <2>2. Ith(page, i) = g + i
    BY <1>4, <2>1, IntervalCountsOff
  <2>. QED
    BY <1>3, <2>2
<1>8. FirstReached("tail", 1..h, k) = [i \in 1..n |-> h - n + i]
  BY <1>5, <1>6, <1>7
<1>. QED
  BY <1>2, <1>8

(* The page of a history from a stream without gaps. *)
LEMMA PageOfAll ==
  ASSUME NEW g \in Nat, NEW h \in Nat, g <= h, NEW k \in Nat
  PROVE  \E n \in 0..(h - g) :
           /\ n <= k
           /\ n < h - g => n = k
           /\ FirstReached("all", (g + 1)..h, k) = [i \in 1..n |-> g + i]
<1> DEFINE Reached(v) == Cardinality({w \in (g + 1)..h : IF "all" = "tail" THEN w > v ELSE w < v})
           page == {v \in (g + 1)..h : Reached(v) < k}
<1>1. ASSUME NEW v \in (g + 1)..h PROVE Reached(v) = v - g - 1
  <2>1. {w \in (g + 1)..h : IF "all" = "tail" THEN w > v ELSE w < v} = (g + 1)..(v - 1)
    OBVIOUS
  <2>2. Cardinality((g + 1)..(v - 1)) = v - g - 1
    BY FS_Interval
  <2>. QED
    BY <2>1, <2>2
<1>2. PICK n \in 0..(h - g) : n <= k /\ (n < h - g => n = k)
  <2>1. CASE k < h - g
    BY <2>1
  <2>2. CASE k >= h - g
    <3>1. PICK d \in Nat : d = h - g
      OBVIOUS
    <3>2. d \in 0..(h - g) /\ d <= k /\ ~(d < h - g)
      BY <2>2, <3>1
    <3>. QED
      BY <3>2
  <2>. QED
    BY <2>1, <2>2
<1>3. PICK e \in Nat : e = g + n
  BY <1>2
<1>4. page = (g + 1)..e
  <2>1. page = {v \in (g + 1)..h : v - g - 1 < k}
    BY <1>1
  <2>2. \A v \in (g + 1)..h : v - g - 1 < k <=> v <= e
    BY <1>2, <1>3
  <2>3. e <= h
    BY <1>2, <1>3
  <2>4. {v \in (g + 1)..h : v <= e} = (g + 1)..e
    BY <2>3
  <2>5. {v \in (g + 1)..h : v - g - 1 < k} = {v \in (g + 1)..h : v <= e}
    BY <2>2
  <2>. QED
    BY <2>1, <2>4, <2>5
<1>5. FirstReached("all", (g + 1)..h, k) = [i \in 1..Cardinality(page) |-> Ith(page, i)]
  BY DEF FirstReached, Ith
<1> HIDE DEF page
<1>6. Cardinality(page) = n
  <2>1. Cardinality((g + 1)..e) = n
    BY <1>2, <1>3, FS_Interval
  <2>. QED
    BY <1>4, <2>1
<1>7. ASSUME NEW i \in 1..n PROVE Ith(page, i) = g + i
  <2>1. g <= e /\ i \in 1..(e - g)
    BY <1>2, <1>3
  <2>. QED
    BY <1>4, <2>1, IntervalCountsOff
<1>8. FirstReached("all", (g + 1)..h, k) = [i \in 1..n |-> g + i]
  BY <1>5, <1>6, <1>7
<1>. QED
  BY <1>2, <1>8

-----------------------------------------------------------------------------
(***************************************************************************)
(* What a command emits: records of consecutive versions and one expiry.   *)
(***************************************************************************)
Run(records, first, expiry) ==
  /\ records \in Seq(Record)
  /\ \A i \in 1..Len(records) :
       records[i].version = first + i /\ records[i].expiry = expiry

(* The builder after i events on the version first. *)
Builds(b, i, first, expiry) ==
  /\ Run(b.records, first, expiry)
  /\ Len(b.records) >= i
  /\ b.version = first + Len(b.records)
  /\ b.state \subseteq Nat \ {0}

LEMMA RunAppend ==
  ASSUME NEW records, NEW first \in Nat, NEW expiry \in Nat, NEW e \in Record,
         Run(records, first, expiry),
         e.version = first + Len(records) + 1, e.expiry = expiry
  PROVE  /\ Run(Append(records, e), first, expiry)
         /\ Len(Append(records, e)) = Len(records) + 1
<1>1. records \in Seq(Record)
  BY DEF Run
<1>2. /\ Append(records, e) \in Seq(Record)
      /\ Len(Append(records, e)) = Len(records) + 1
      /\ Append(records, e)[Len(records) + 1] = e
      /\ \A i \in 1..Len(records) : Append(records, e)[i] = records[i]
  BY <1>1
<1>3. ASSUME NEW i \in 1..Len(Append(records, e))
      PROVE  /\ Append(records, e)[i].version = first + i
             /\ Append(records, e)[i].expiry = expiry
  <2>1. Len(records) \in Nat
    BY <1>1
  <2>2. CASE i \in 1..Len(records)
    BY <1>2, <2>2 DEF Run
  <2>3. CASE i = Len(records) + 1
    BY <1>2, <2>1, <2>3
  <2>. QED
    BY <1>2, <2>1, <2>2, <2>3
<1>. QED
  BY <1>2, <1>3 DEF Run

LEMMA ConcatPair ==
  ASSUME NEW S, NEW r \in Seq(S), NEW d \in S, NEW e \in S
  PROVE  r \o <<d, e>> = Append(Append(r, d), e)
<1>1. /\ r \o <<d, e>> \in Seq(S) /\ Append(Append(r, d), e) \in Seq(S)
      /\ Len(r \o <<d, e>>) = Len(r) + 2 /\ Len(Append(Append(r, d), e)) = Len(r) + 2
  OBVIOUS
<1>2. \A i \in 1..(Len(r) + 2) : (r \o <<d, e>>)[i] = Append(Append(r, d), e)[i]
  OBVIOUS
<1>. QED
  BY <1>1, <1>2

LEMMA EmitOnBuilds ==
  ASSUME NEW b, NEW i \in Nat, NEW first \in Nat, NEW expiry \in Nat,
         Builds(b, i, first, expiry)
  PROVE  Builds(EmitOn(b, expiry), i + 1, first, expiry)
<1> DEFINE r == b.records
<1>2. /\ Run(r, first, expiry) /\ r \in Seq(Record) /\ Len(r) \in Nat /\ Len(r) >= i
      /\ b.version = first + Len(r) /\ b.state \subseteq Nat \ {0}
  BY DEF Builds, Run
<1> HIDE DEF r
<1>3. PICK v, after :
        /\ v = b.version + 1 /\ v \in Nat \ {0}
        /\ after = b.state \cup {v} /\ after \subseteq Nat \ {0}
  <2>1. b.version + 1 \in Nat \ {0}
    BY <1>2
  <2>2. b.state \cup {b.version + 1} \subseteq Nat \ {0}
    BY <1>2, <2>1
  <2>. QED
    BY <2>1, <2>2
<1>4. PICK event : event = [version |-> v, covers |-> {v}, snapshot |-> FALSE,
                            expiry |-> expiry]
  OBVIOUS
<1>5. PICK snapshot : snapshot = [version |-> v + 1, covers |-> after, snapshot |-> TRUE,
                                  expiry |-> expiry]
  OBVIOUS
<1>6. /\ event \in Record /\ event.version = v /\ event.expiry = expiry
      /\ snapshot \in Record /\ snapshot.version = v + 1 /\ snapshot.expiry = expiry
  <2>1. v + 1 \in Nat \ {0} /\ {v} \subseteq Nat \ {0}
    BY <1>3
  <2>. QED
    BY <1>3, <1>4, <1>5, <2>1 DEF Record
<1>7. v = first + Len(r) + 1
  BY <1>2, <1>3
<1>8. PICK one : one = Append(r, event)
  OBVIOUS
<1>9. Run(one, first, expiry) /\ Len(one) = Len(r) + 1
  <2>1. event.version = first + Len(r) + 1
    BY <1>6, <1>7
  <2>. QED
    BY <1>2, <1>6, <1>8, <2>1, RunAppend, Zenon
<1>10. PICK two : two = Append(one, snapshot)
  OBVIOUS
<1>11. Run(two, first, expiry) /\ Len(two) = Len(one) + 1
  <2>1. snapshot.version = first + Len(one) + 1
    BY <1>2, <1>6, <1>7, <1>9
  <2>. QED
    BY <1>6, <1>9, <1>10, <2>1, RunAppend, Zenon
<1>12. r \o <<event, snapshot>> = two
  BY <1>2, <1>6, <1>8, <1>10, ConcatPair
<1>13. CASE SnapshotDue(v)
  <2>1. b.records \o <<event, snapshot>> = two
    BY <1>12 DEF r
  <2>2. EmitOn(b, expiry) = [records |-> two, version |-> v + 1, state |-> after]
    BY <1>3, <1>4, <1>5, <1>13, <2>1, Zenon DEF EmitOn, NextVersion
  <2>3. Len(two) >= i + 1 /\ v + 1 = first + Len(two)
    BY <1>2, <1>7, <1>9, <1>11
  <2>. QED
    BY <1>3, <1>11, <2>2, <2>3 DEF Builds
<1>14. CASE ~SnapshotDue(v)
  <2>1. Append(b.records, event) = one
    BY <1>8 DEF r
  <2>2. EmitOn(b, expiry) = [records |-> one, version |-> v, state |-> after]
    BY <1>3, <1>4, <1>14, <2>1, Zenon DEF EmitOn, NextVersion
  <2>. QED
    BY <1>2, <1>3, <1>7, <1>9, <2>2 DEF Builds
<1>. QED
  BY <1>13, <1>14

(* f is the builder after each of n events, start before them. *)
Emits(f, start, expiry, n) ==
  f = [i \in 0..n |-> IF i = 0 THEN start ELSE EmitOn(f[i - 1], expiry)]

LEMMA EmitsExists ==
  ASSUME NEW start, NEW expiry, NEW n \in Nat
  PROVE  \E f : Emits(f, start, expiry, n)
<1> DEFINE T == {m \in Nat : \E f : Emits(f, start, expiry, m)}
<1>1. 0 \in T
  <2> DEFINE f == [i \in 0..0 |-> start]
  <2>1. Emits(f, start, expiry, 0)
    BY DEF Emits
  <2>. QED
    BY <2>1
<1>2. ASSUME NEW m \in T PROVE m + 1 \in T
  <2>1. PICK f : Emits(f, start, expiry, m)
    OBVIOUS
  <2> DEFINE g == [i \in 0..(m + 1) |->
                     IF i = m + 1 THEN EmitOn(f[m], expiry) ELSE f[i]]
  <2>2. Emits(g, start, expiry, m + 1)
    BY <2>1 DEF Emits
  <2>. QED
    BY <2>2
<1>3. T = Nat
  <2> HIDE DEF T
  <2>1. T \in SUBSET Nat
    BY DEF T
  <2>. QED
    BY <1>1, <1>2, <2>1, SetInduction
<1>. QED
  BY <1>3

LEMMA EmitsBuilds ==
  ASSUME NEW start, NEW first \in Nat, NEW expiry \in Nat, NEW n \in Nat,
         Builds(start, 0, first, expiry), NEW f, Emits(f, start, expiry, n)
  PROVE  Builds(f[n], n, first, expiry)
<1> DEFINE T == {i \in Nat : i <= n => Builds(f[i], i, first, expiry)}
<1>1. 0 \in T
  <2>1. f[0] = start
    BY DEF Emits
  <2>. QED
    BY <2>1
<1>2. ASSUME NEW i \in T PROVE i + 1 \in T
  <2>1. SUFFICES ASSUME i + 1 <= n PROVE Builds(f[i + 1], i + 1, first, expiry)
    OBVIOUS
  <2>2. i \in Nat /\ Builds(f[i], i, first, expiry)
    BY <2>1
  <2>3. f[i + 1] = EmitOn(f[i], expiry)
    BY <2>1, <2>2 DEF Emits
  <2>. QED
    BY <2>2, <2>3, EmitOnBuilds
<1>3. T = Nat
  <2> HIDE DEF T
  <2>1. T \in SUBSET Nat
    BY DEF T
  <2>. QED
    BY <1>1, <1>2, <2>1, SetInduction
<1>. QED
  BY <1>3

(* The versions of an emission follow the last one that was read. *)
LEMMA EmissionRuns ==
  ASSUME NEW c, NEW n \in Nat \ {0}, LastRead(c) \in Nat,
         Covers(got[c]) \subseteq Nat \ {0}, lifetime \in Nat, now \in Nat
  PROVE  \E expiry \in Nat :
           /\ lifetime = 0 => expiry = 0
           /\ Run(Emission(c, n), LastRead(c), expiry)
           /\ Len(Emission(c, n)) \in Nat \ {0}
<1> DEFINE start == [records |-> <<>>, version |-> LastRead(c), state |-> Covers(got[c])]
           expiry == IF lifetime = 0 THEN 0 ELSE now + lifetime
           f == CHOOSE g : g = [i \in 0..n |-> IF i = 0 THEN start
                                               ELSE EmitOn(g[i - 1], expiry)]
<1>1. Emission(c, n) = f[n].records
  BY DEF Emission
<1>2. Emits(f, start, expiry, n)
  <2>1. \E g : Emits(g, start, expiry, n)
    BY EmitsExists
  <2> HIDE DEF start, expiry
  <2>. QED
    BY <2>1 DEF Emits
<1>3. expiry \in Nat /\ (lifetime = 0 => expiry = 0)
  OBVIOUS
<1> HIDE DEF f, expiry
<1>4. Builds(start, 0, LastRead(c), expiry)
  BY <1>3 DEF Builds, Run
<1> HIDE DEF start
<1>5. Builds(f[n], n, LastRead(c), expiry)
  BY <1>2, <1>3, <1>4, EmitsBuilds
<1>6. Run(Emission(c, n), LastRead(c), expiry) /\ Len(Emission(c, n)) >= n
  BY <1>1, <1>5 DEF Builds
<1>7. Len(Emission(c, n)) \in Nat \ {0}
  BY <1>6 DEF Run
<1>. QED
  BY <1>3, <1>6, <1>7

-----------------------------------------------------------------------------
(***************************************************************************)
(* The invariant.                                                          *)
(***************************************************************************)
LastStored == LastOf(DOMAIN table)

Bounded == \E b \in Nat : DOMAIN table \subseteq 1..b

(* A stream that keeps its records is whole.                               *)
Whole ==
  lifetime = 0 => /\ DOMAIN table = 1..LastStored
                  /\ \A v \in DOMAIN table : table[v].expiry = 0

IsStored(r) == r.version \in DOMAIN table /\ table[r.version] = r

(* The same of the table after the step. *)
WillBeStored(r) == r.version \in DOMAIN table' /\ table'[r.version] = r

(* A client has nothing of the steps it is not at. *)
Fresh(c) ==
  /\ pc[c] = "idle" => got[c] = <<>>
  /\ pc[c] # "write" => done[c] = 0

(* What a client has read of a stream that keeps its records, the records  *)
(* up to some version there is, and how far it has come.                   *)
Reading(c) ==
  (pc[c] \in {"read", "ready"} /\ lifetime = 0) =>
    /\ began[c] <= LastStored
    /\ LastRead(c) <= LastStored
    /\ Len(got[c]) <= LastRead(c)
    /\ got[c] = [i \in 1..Len(got[c]) |-> table[LastRead(c) - Len(got[c]) + i]]
    /\ mode[c] = "tail" =>
         /\ Len(got[c]) <= Interval
         /\ got[c] # <<>> => began[c] <= LastRead(c)
         /\ pc[c] = "read" => Len(got[c]) < Interval
         /\ pc[c] = "ready" => Len(got[c]) \in {Interval, LastRead(c)}
    /\ mode[c] = "all" => Len(got[c]) = LastRead(c)
    /\ pc[c] = "ready" => began[c] <= LastRead(c)

(* What a client writes follows what it read; what it has written is there *)
(* unless it expired.                                                      *)
Writing(c) ==
  pc[c] = "write" =>
    /\ done[c] < Len(batch[c])
    /\ \E first, expiry \in Nat :
         /\ Run(batch[c], first, expiry)
         /\ lifetime = 0 => expiry = 0 /\ first + done[c] <= LastStored
    /\ \A i \in 1..done[c] : Expired(batch[c][i], now) \/ IsStored(batch[c][i])

ClientInv(c) == Fresh(c) /\ Reading(c) /\ Writing(c)

AckedHeld == \A r \in acked : ~Expired(r, now) /\ IsStored(r)

StoreInv ==
  /\ TypeOK
  /\ Bounded
  /\ Whole
  /\ \A c \in Clients : ClientInv(c)
  /\ AckedHeld

(***************************************************************************)
(* What the steps of others leave a client with.                           *)
(***************************************************************************)
(* Records that have not expired stay, and as they are. *)
Keeps ==
  /\ lifetime' = lifetime
  /\ now' \in Nat /\ now <= now'
  /\ \A v \in DOMAIN table :
       Expired(table[v], now') \/ (v \in DOMAIN table' /\ table'[v] = table[v])
  /\ lifetime = 0 => LastStored <= LastStored'

(* The step is not one of this client's. *)
Apart(c) ==
  /\ pc'[c] = pc[c] /\ mode'[c] = mode[c] /\ got'[c] = got[c]
  /\ batch'[c] = batch[c] /\ done'[c] = done[c] /\ began'[c] = began[c]

LEMMA LastStoredNat ==
  ASSUME Bounded
  PROVE  LastStored \in Nat
<1>1. PICK b \in Nat : DOMAIN table \subseteq 1..b
  BY DEF Bounded
<1>. QED
  BY <1>1, LastOfBounded DEF LastStored

LEMMA LastReadNat ==
  ASSUME NEW c, got[c] \in Seq(Record)
  PROVE  LastRead(c) \in Nat
<1>1. CASE got[c] = <<>>
  BY <1>1 DEF LastRead
<1>2. CASE got[c] # <<>>
  <2>1. got[c][Len(got[c])] \in Record
    BY <1>2
  <2>2. \A r \in Record : r.version \in Nat
    BY DEF Record
  <2>. QED
    BY <1>2, <2>1, <2>2 DEF LastRead
<1>. QED
  BY <1>1, <1>2

LEMMA StoredStays ==
  ASSUME TypeOK, Keeps, NEW r \in Record, Expired(r, now) \/ IsStored(r)
  PROVE  Expired(r, now') \/ IsStored(r)'
<1>1. r.expiry \in Nat /\ now \in Nat /\ now' \in Nat /\ now <= now'
  BY DEF Record, TypeOK, Keeps
<1>2. CASE Expired(r, now)
  BY <1>1, <1>2 DEF Expired
<1>3. CASE IsStored(r)
  BY <1>3 DEF IsStored, Keeps
<1>. QED
  BY <1>2, <1>3

LEMMA ClientStays ==
  ASSUME TypeOK, Bounded, Whole, Bounded', Keeps, NEW c \in Clients, ClientInv(c), Apart(c)
  PROVE  ClientInv(c)'
<1>1. LastStored \in Nat /\ LastStored' \in Nat
  <2>1. LastStored \in Nat
    BY LastStoredNat
  <2>2. PICK b \in Nat : DOMAIN table' \subseteq 1..b
    BY DEF Bounded
  <2>3. LastStored' \in Nat
    BY <2>2, LastOfBounded DEF LastStored
  <2>. QED
    BY <2>1, <2>3
<1>2. /\ got[c] \in Seq(Record) /\ LastRead(c) \in Nat /\ Len(got[c]) \in Nat
      /\ began[c] \in Nat
  BY LastReadNat DEF TypeOK
<1>3. LastRead(c)' = LastRead(c)
  BY DEF LastRead, Apart
<1>4. Fresh(c)'
  BY DEF ClientInv, Fresh, Apart
<1>5. Reading(c)'
  <2>1. SUFFICES ASSUME pc[c] \in {"read", "ready"}, lifetime = 0
                 PROVE  Reading(c)'
    BY DEF Reading, Apart, Keeps
  <2>2. LastStored <= LastStored'
    BY <2>1 DEF Keeps
  <2>3. \A v \in 1..LastStored : table'[v] = table[v]
    BY <2>1 DEF Whole, Keeps, Expired
  <2>4. Reading(c)
    BY DEF ClientInv
  <2>5. \A i \in 1..Len(got[c]) : LastRead(c) - Len(got[c]) + i \in 1..LastStored
    BY <1>1, <1>2, <2>1, <2>4 DEF Reading
  <2>6. got[c] = [i \in 1..Len(got[c]) |-> table'[LastRead(c) - Len(got[c]) + i]]
    BY <2>1, <2>3, <2>4, <2>5 DEF Reading
  <2>7. began[c] <= LastStored' /\ LastRead(c) <= LastStored'
    BY <1>1, <1>2, <2>1, <2>2, <2>4 DEF Reading
  <2>. QED
    BY <1>3, <2>1, <2>4, <2>6, <2>7 DEF Reading, Apart, Keeps
<1>6. Writing(c)'
  <2>1. SUFFICES ASSUME pc[c] = "write" PROVE Writing(c)'
    BY DEF Writing, Apart
  <2>2. Writing(c) /\ batch[c] \in Seq(Record) /\ done[c] \in Nat
    BY DEF ClientInv, TypeOK
  <2>3. PICK first \in Nat, expiry \in Nat :
          /\ Run(batch[c], first, expiry)
          /\ lifetime = 0 => expiry = 0 /\ first + done[c] <= LastStored
    BY <2>1, <2>2 DEF Writing
  <2>4. lifetime = 0 => first + done[c] <= LastStored'
    BY <1>1, <2>2, <2>3 DEF Keeps
  <2>5. ASSUME NEW i \in 1..done[c]
        PROVE  Expired(batch[c][i], now') \/ IsStored(batch[c][i])'
    <3>1. batch[c][i] \in Record
      BY <2>1, <2>2 DEF Writing
    <3>2. Expired(batch[c][i], now) \/ IsStored(batch[c][i])
      BY <2>1, <2>2 DEF Writing
    <3>3. PICK r \in Record : r = batch[c][i]
      BY <3>1
    <3>. QED
      BY <3>2, <3>3, StoredStays DEF IsStored, Apart
  <2>6. done[c] < Len(batch[c])
    BY <2>1, <2>2 DEF Writing
  <2>. QED
    BY <2>3, <2>4, <2>5, <2>6 DEF Writing, Apart, Keeps, IsStored
<1>. QED
  BY <1>4, <1>5, <1>6 DEF ClientInv

(***************************************************************************)
(* Steps that leave the table alone.                                       *)
(***************************************************************************)
LEMMA StillKeeps ==
  ASSUME TypeOK, Bounded, Whole, UNCHANGED <<lifetime, now, table>>
  PROVE  Keeps /\ Bounded' /\ Whole' /\ LastStored' = LastStored
<1>1. LastStored' = LastStored
  BY DEF LastStored
<1>2. LastStored \in Nat /\ now \in Nat
  BY LastStoredNat DEF TypeOK
<1>. QED
  BY <1>1, <1>2 DEF Keeps, Bounded, Whole

LEMMA StillHeld ==
  ASSUME AckedHeld, UNCHANGED <<now, table, acked>>
  PROVE  AckedHeld'
  BY DEF AckedHeld, IsStored

(* A client that leaves has nothing more to do with anything. *)
LEMMA LeaveFacts ==
  ASSUME TypeOK, NEW c \in Clients, Leave(c)
  PROVE  /\ pc' \in [Clients -> {"idle", "read", "ready", "write"}]
         /\ mode' \in [Clients -> {"tail", "all"}]
         /\ got' \in [Clients -> Seq(Record)]
         /\ batch' \in [Clients -> Seq(Record)]
         /\ done' \in [Clients -> Nat]
         /\ \A d \in Clients : done'[d] <= Len(batch'[d])
         /\ began' \in [Clients -> Nat]
         /\ ClientInv(c)'
         /\ \A d \in Clients \ {c} : Apart(d)
<1>1. /\ pc'[c] = "idle" /\ got'[c] = <<>> /\ done'[c] = 0 /\ batch'[c] = <<>>
      /\ <<>> \in Seq(Record) /\ Len(<<>>) = 0
  BY DEF TypeOK, Leave
<1>2. \A d \in Clients \ {c} : Apart(d)
  BY DEF TypeOK, Leave, Apart
<1>3. ClientInv(c)'
  BY <1>1 DEF ClientInv, Fresh, Reading, Writing
<1>4. /\ pc' \in [Clients -> {"idle", "read", "ready", "write"}]
      /\ mode' \in [Clients -> {"tail", "all"}]
      /\ got' \in [Clients -> Seq(Record)]
      /\ batch' \in [Clients -> Seq(Record)]
      /\ done' \in [Clients -> Nat]
      /\ began' \in [Clients -> Nat]
  BY <1>1 DEF TypeOK, Leave
<1>5. ASSUME NEW d \in Clients PROVE done'[d] <= Len(batch'[d])
  <2>1. CASE d = c
    BY <1>1, <2>1
  <2>2. CASE d # c
    BY <1>2, <2>2 DEF TypeOK, Apart
  <2>. QED
    BY <2>1, <2>2
<1>. QED
  BY <1>2, <1>3, <1>4, <1>5

(* One step of a client, put together. *)
LEMMA StepKeeps ==
  ASSUME StoreInv, Bounded', Whole', Keeps, NEW c \in Clients, ClientInv(c)',
         \A d \in Clients \ {c} : Apart(d), TypeOK', AckedHeld'
  PROVE  StoreInv'
<1>1. ASSUME NEW d \in Clients PROVE ClientInv(d)'
  <2>1. CASE d = c
    BY <2>1
  <2>2. CASE d # c
    BY <2>2, ClientStays DEF StoreInv
  <2>. QED
    BY <2>1, <2>2
<1>. QED
  BY <1>1 DEF StoreInv

LEMMA BeginReadKeeps ==
  ASSUME StoreInv, NEW c \in Clients, NEW m \in {"tail", "all"}, BeginRead(c, m)
  PROVE  StoreInv'
<1>1. TypeOK /\ Bounded /\ Whole /\ AckedHeld /\ ClientInv(c)
  BY DEF StoreInv
<1>2. LastStored \in Nat
  BY <1>1, LastStoredNat
<1>3. Keeps /\ Bounded' /\ Whole' /\ LastStored' = LastStored
  BY <1>1, StillKeeps DEF BeginRead
<1>4. AckedHeld'
  BY <1>1, StillHeld DEF BeginRead
<1>5. \A d \in Clients \ {c} : Apart(d)
  BY <1>1 DEF TypeOK, BeginRead, Apart
<1>6. TypeOK'
  BY <1>1, <1>2 DEF TypeOK, BeginRead, LastStored
<1>7. ClientInv(c)'
  <2>1. /\ pc'[c] = "read" /\ mode'[c] = m /\ got'[c] = <<>> /\ done'[c] = 0
        /\ began'[c] = LastStored
    BY <1>1 DEF TypeOK, BeginRead, LastStored, ClientInv, Fresh
  <2>2. LastRead(c)' = 0
    BY <2>1 DEF LastRead
  <2>3. Len(<<>>) = 0 /\ <<>> = [i \in 1..0 |-> table'[0 - 0 + i]]
    OBVIOUS
  <2>4. Interval \in Nat \ {0}
    BY CloudAssumption
  <2>5. Reading(c)'
    BY <1>2, <1>3, <2>1, <2>2, <2>3, <2>4 DEF Reading
  <2>. QED
    BY <2>1, <2>5 DEF ClientInv, Fresh, Writing
<1>. QED
  BY <1>3, <1>4, <1>5, <1>6, <1>7, StepKeeps

(* Reads that fail, and histories that were read. *)
LEMMA LeaveKeeps ==
  ASSUME StoreInv, NEW c \in Clients, Leave(c), torn' \in BOOLEAN,
         UNCHANGED <<lifetime, active, now, table, everStored, acked>>
  PROVE  StoreInv'
<1>1. TypeOK /\ Bounded /\ Whole /\ AckedHeld
  BY DEF StoreInv
<1>2. Keeps /\ Bounded' /\ Whole'
  BY <1>1, StillKeeps
<1>3. AckedHeld'
  BY <1>1, StillHeld
<1>4. /\ pc' \in [Clients -> {"idle", "read", "ready", "write"}]
      /\ mode' \in [Clients -> {"tail", "all"}]
      /\ got' \in [Clients -> Seq(Record)]
      /\ batch' \in [Clients -> Seq(Record)]
      /\ done' \in [Clients -> Nat]
      /\ \A d \in Clients : done'[d] <= Len(batch'[d])
      /\ began' \in [Clients -> Nat]
      /\ ClientInv(c)'
      /\ \A d \in Clients \ {c} : Apart(d)
  BY <1>1, LeaveFacts
<1>5. TypeOK'
  BY <1>1, <1>4 DEF TypeOK
<1>. QED
  BY <1>2, <1>3, <1>4, <1>5, StepKeeps

(***************************************************************************)
(* Pages.                                                                  *)
(***************************************************************************)
LEMMA Windows ==
  ASSUME NEW f, NEW S, NEW top \in Nat, NEW n \in Nat, NEW p \in Nat, n + p <= top,
         NEW first \in Seq(S), NEW second \in Seq(S),
         first = [i \in 1..p |-> f[top - (n + p) + i]],
         second = [i \in 1..n |-> f[top - n + i]]
  PROVE  /\ first \o second = [i \in 1..(n + p) |-> f[top - (n + p) + i]]
         /\ Len(first \o second) = n + p
<1> DEFINE all == first \o second
<1>1. Len(first) = p /\ Len(second) = n
  OBVIOUS
<1>2. all \in Seq(S) /\ Len(all) = n + p
  BY <1>1
<1>3. ASSUME NEW i \in 1..(n + p) PROVE all[i] = f[top - (n + p) + i]
  <2>1. CASE i <= p
    <3>1. all[i] = first[i]
      BY <1>1, <2>1
    <3>. QED
      BY <2>1, <3>1
  <2>2. CASE i > p
    <3>1. all[i] = second[i - p]
      BY <1>1, <2>2
    <3>2. i - p \in 1..n /\ top - n + (i - p) = top - (n + p) + i
      BY <2>2
    <3>. QED
      BY <3>1, <3>2
  <2>. QED
    BY <2>1, <2>2
<1>4. all = [i \in 1..Len(all) |-> all[i]]
  BY <1>2
<1> HIDE DEF all
<1>5. all = [i \in 1..(n + p) |-> f[top - (n + p) + i]]
  BY <1>2, <1>3, <1>4
<1>. QED
  BY <1>2, <1>5 DEF all

(* What a client holds after a page, in either direction. *)
LEMMA PageTypes ==
  ASSUME TypeOK, Bounded, NEW c \in Clients, NEW k \in 0..Remaining(c)
  PROVE  /\ k \in Nat
         /\ FirstReached(mode[c], Ahead(c), k) \in Seq(DOMAIN table)
         /\ Ahead(c) \subseteq DOMAIN table
<1>1. PICK b \in Nat : DOMAIN table \subseteq 1..b
  BY DEF Bounded
<1>2. Ahead(c) \subseteq DOMAIN table
  BY DEF Ahead
<1>3. Interval - Len(got[c]) \in Int /\ PageLimit \in Int
  BY CloudAssumption DEF TypeOK
<1>4. Remaining(c) \in Int
  BY <1>3 DEF Remaining
<1>5. k \in Nat
  BY <1>4
<1>6. FirstReached(mode[c], Ahead(c), k) \in Seq(Ahead(c))
  BY <1>1, <1>2, <1>5, PageOfVersions
<1>. QED
  BY <1>2, <1>5, <1>6

LEMMA TailPage ==
  ASSUME TypeOK, Bounded, Whole, lifetime = 0, NEW c \in Clients,
         pc[c] = "read", mode[c] = "tail", Reading(c),
         NEW k \in 0..Remaining(c)
  PROVE  \E p, top \in Nat :
           LET order == FirstReached(mode[c], Ahead(c), k)
               page == [i \in DOMAIN order |-> table[order[i]]]
               n == Len(got[c])
           IN  /\ n + p <= Interval /\ n + p <= top /\ top <= LastStored
               /\ began[c] <= top
               /\ page \o got[c] = [i \in 1..(n + p) |-> table[top - (n + p) + i]]
               /\ Len(page \o got[c]) = n + p
               /\ Len(page) = p
               /\ Ahead(c) = 1..(top - n)
               /\ n = 0 => top = LastStored
<1> DEFINE n == Len(got[c])
           top == IF got[c] = <<>> THEN LastStored ELSE LastRead(c)
           order == FirstReached("tail", 1..(top - n), k)
           page == [i \in DOMAIN order |-> table[order[i]]]
<1>1. /\ got[c] \in Seq(Record) /\ n \in Nat /\ LastRead(c) \in Nat /\ k \in Nat
      /\ LastStored \in Nat /\ began[c] \in Nat
      /\ \A v \in DOMAIN table : table[v] \in Record /\ table[v].version = v
  BY LastReadNat, LastStoredNat, PageTypes DEF TypeOK
<1>2. DOMAIN table = 1..LastStored
  BY DEF Whole
<1>3. /\ began[c] <= LastStored /\ LastRead(c) <= LastStored /\ n <= LastRead(c)
      /\ got[c] = [i \in 1..n |-> table[LastRead(c) - n + i]]
      /\ got[c] # <<>> => began[c] <= LastRead(c)
      /\ n < Interval
  BY DEF Reading
<1>4. /\ top \in Nat /\ top <= LastStored /\ n <= top /\ began[c] <= top
      /\ got[c] = [i \in 1..n |-> table[top - n + i]]
      /\ n = 0 => top = LastStored
  <2>1. CASE got[c] = <<>>
    <3>1. n = 0
      BY <2>1
    <3>2. <<>> = [i \in 1..0 |-> table[LastStored - 0 + i]]
      OBVIOUS
    <3>. QED
      BY <1>1, <1>3, <2>1, <3>1, <3>2
  <2>2. CASE got[c] # <<>>
    <3>1. n # 0
      BY <1>1, <2>2
    <3>. QED
      BY <1>1, <1>3, <2>2, <3>1
  <2>. QED
    BY <2>1, <2>2
<1>5. Ahead(c) = 1..(top - n)
  <2>1. CASE got[c] = <<>>
    <3>1. n = 0 /\ top = LastStored /\ LastStored - 0 = LastStored
      BY <1>1, <2>1
    <3>2. Ahead(c) = DOMAIN table
      BY <2>1 DEF Ahead
    <3> HIDE DEF n, top
    <3>. QED
      BY <1>2, <3>1, <3>2
  <2>2. CASE got[c] # <<>>
    <3>1. n >= 1
      BY <1>1, <2>2
    <3>2. got[c][1] = table[LastRead(c) - n + 1]
      BY <1>3, <3>1
    <3>3. LastRead(c) - n + 1 \in DOMAIN table
      BY <1>1, <1>2, <1>3, <3>1
    <3>4. got[c][1].version = LastRead(c) - n + 1
      BY <1>1, <3>2, <3>3
    <3>5. Ahead(c) = {v \in DOMAIN table : v < LastRead(c) - n + 1}
      BY <2>2, <3>4 DEF Ahead
    <3>6. top = LastRead(c)
      BY <2>2
    <3> HIDE DEF n, top
    <3>. QED
      BY <1>1, <1>2, <1>3, <3>5, <3>6
  <2>. QED
    BY <2>1, <2>2
<1>6. k <= Interval - n
  <2>1. Interval \in Nat /\ PageLimit \in Nat
    BY CloudAssumption
  <2>. QED
    BY <1>1, <1>3, <2>1 DEF Remaining
<1> HIDE DEF n, top
<1>7. PICK h \in Nat : h = top - n
  BY <1>1, <1>4
<1>8. PICK p \in 0..h :
        p <= k /\ FirstReached("tail", 1..h, k) = [i \in 1..p |-> h - p + i]
  BY <1>1, PageOfTail
<1>9. order = [i \in 1..p |-> h - p + i]
  BY <1>7, <1>8
<1>10. \A i \in 1..p : h - p + i \in DOMAIN table /\ h - p + i = top - (n + p) + i
  <2>1. TAKE i \in 1..p
  <2>2. h - p + i \in 1..h
    BY <1>7, <1>8, <2>1
  <2>3. h <= LastStored
    BY <1>1, <1>4, <1>7
  <2>4. h - p + i \in DOMAIN table
    BY <1>1, <1>2, <1>7, <2>2, <2>3
  <2>5. h - p + i = top - (n + p) + i
    BY <1>1, <1>4, <1>7, <1>8, <2>1
  <2>. QED
    BY <2>4, <2>5
<1>11. page = [i \in 1..p |-> table[top - (n + p) + i]]
  BY <1>9, <1>10
<1> HIDE DEF page, order
<1>12. page \in Seq(Record) /\ Len(page) = p
  <2>1. \A i \in 1..p : table[top - (n + p) + i] \in Record
    BY <1>1, <1>10
  <2>. QED
    BY <1>8, <1>11, <2>1
<1>13. n + p <= top /\ n + p <= Interval /\ p \in Nat
  <2>1. n \in Nat /\ k \in Nat /\ top \in Nat /\ Interval \in Nat
    BY <1>1, <1>4, CloudAssumption
  <2>2. p \in Nat /\ p <= h /\ p <= k
    BY <1>8
  <2>. QED
    BY <1>6, <1>7, <2>1, <2>2
<1>14. /\ page \o got[c] = [i \in 1..(n + p) |-> table[top - (n + p) + i]]
       /\ Len(page \o got[c]) = n + p
  BY <1>1, <1>4, <1>11, <1>12, <1>13, Windows
<1>15. page = [i \in DOMAIN FirstReached(mode[c], Ahead(c), k) |->
                 table[FirstReached(mode[c], Ahead(c), k)[i]]]
  BY <1>5 DEF page, order
<1>16. /\ n + p <= Interval /\ n + p <= top /\ top <= LastStored
       /\ began[c] <= top
       /\ Len(page) = p
       /\ Ahead(c) = 1..(top - n)
       /\ n = 0 => top = LastStored
  BY <1>4, <1>5, <1>12, <1>13
<1>17. p \in Nat /\ top \in Nat
  BY <1>4, <1>13
<1>. QED
  BY <1>14, <1>15, <1>16, <1>17, Zenon DEF n

LEMMA HistoryPage ==
  ASSUME TypeOK, Bounded, Whole, lifetime = 0, NEW c \in Clients,
         pc[c] = "read", mode[c] = "all", Reading(c),
         NEW k \in 0..Remaining(c)
  PROVE  \E p \in Nat :
           LET order == FirstReached(mode[c], Ahead(c), k)
               page == [i \in DOMAIN order |-> table[order[i]]]
               n == Len(got[c])
           IN  /\ n + p <= LastStored
               /\ got[c] \o page = [i \in 1..(n + p) |-> table[i]]
               /\ Len(got[c] \o page) = n + p
               /\ Len(page) = p
               /\ Ahead(c) = (n + 1)..LastStored
<1> DEFINE n == Len(got[c])
           order == FirstReached(mode[c], (n + 1)..LastStored, k)
           page == [i \in DOMAIN order |-> table[order[i]]]
<1>1. /\ got[c] \in Seq(Record) /\ n \in Nat /\ LastRead(c) \in Nat /\ k \in Nat
      /\ LastStored \in Nat
      /\ \A v \in DOMAIN table : table[v] \in Record /\ table[v].version = v
  BY LastReadNat, LastStoredNat, PageTypes DEF TypeOK
<1>2. DOMAIN table = 1..LastStored
  BY DEF Whole
<1>3. /\ LastRead(c) = n /\ n <= LastStored
      /\ got[c] = [i \in 1..n |-> table[i]]
  <2>1. LastRead(c) = n /\ n <= LastStored
    BY DEF Reading
  <2>2. got[c] = [i \in 1..n |-> table[n - n + i]]
    BY <2>1 DEF Reading
  <2> HIDE DEF n
  <2>3. \A i \in 1..n : n - n + i = i
    BY <1>1
  <2>. QED
    BY <2>1, <2>2, <2>3
<1>4. Ahead(c) = (n + 1)..LastStored
  <2>1. CASE got[c] = <<>>
    <3>1. n = 0
      BY <2>1
    <3>. QED
      BY <1>2, <2>1, <3>1 DEF Ahead
  <2>2. CASE got[c] # <<>>
    <3>1. n >= 1
      BY <1>1, <2>2
    <3>2. got[c][n].version = n
      BY <1>1, <1>2, <1>3, <3>1
    <3>3. Ahead(c) = {v \in DOMAIN table : v > n}
      BY <2>2, <3>2 DEF Ahead
    <3> HIDE DEF n
    <3>. QED
      BY <1>1, <1>2, <1>3, <3>1, <3>3
  <2>. QED
    BY <2>1, <2>2
<1> HIDE DEF n
<1>5. PICK p \in 0..(LastStored - n) :
        FirstReached(mode[c], (n + 1)..LastStored, k) = [i \in 1..p |-> n + i]
  <2>1. PICK g \in Nat : g = n
    BY <1>1
  <2>2. PICK h \in Nat : h = LastStored
    BY <1>1
  <2>3. g <= h
    BY <1>3, <2>1, <2>2
  <2>4. \E p \in 0..(h - g) :
          /\ p <= k
          /\ p < h - g => p = k
          /\ FirstReached("all", (g + 1)..h, k) = [i \in 1..p |-> g + i]
    BY <1>1, <2>3, PageOfAll
  <2>. QED
    BY <2>1, <2>2, <2>4
<1>6. \A i \in 1..p : n + i \in DOMAIN table
  BY <1>1, <1>2, <1>3, <1>5
<1>7. page = [i \in 1..p |-> table[n + i]]
  BY <1>5, <1>6
<1>8. page = [i \in DOMAIN FirstReached(mode[c], Ahead(c), k) |->
                table[FirstReached(mode[c], Ahead(c), k)[i]]]
  BY <1>4
<1> HIDE DEF page
<1>9. page \in Seq(Record) /\ Len(page) = p /\ p \in Nat /\ n + p <= LastStored
  <2>1. \A i \in 1..p : table[n + i] \in Record
    BY <1>1, <1>6
  <2>. QED
    BY <1>1, <1>3, <1>5, <1>7, <2>1
<1>10. PICK m \in Nat : m = n + p
  BY <1>1, <1>9
<1>11. /\ got[c] = [i \in 1..n |-> table[m - (p + n) + i]]
       /\ page = [i \in 1..p |-> table[m - p + i]]
  <2>1. \A i \in 1..n : m - (p + n) + i = i
    BY <1>1, <1>9, <1>10
  <2>2. \A i \in 1..p : m - p + i = n + i
    BY <1>1, <1>9, <1>10
  <2>. QED
    BY <1>3, <1>7, <2>1, <2>2
<1>12. /\ got[c] \o page = [i \in 1..(p + n) |-> table[m - (p + n) + i]]
       /\ Len(got[c] \o page) = p + n
  <2>1. p + n <= m
    BY <1>1, <1>9, <1>10
  <2>. QED
    BY <1>1, <1>9, <1>11, <2>1, Windows
<1>13. /\ got[c] \o page = [i \in 1..(n + p) |-> table[i]]
       /\ Len(got[c] \o page) = n + p
  <2>1. p + n = n + p /\ \A i \in 1..(n + p) : m - (p + n) + i = i
    BY <1>1, <1>9, <1>10
  <2>. QED
    BY <1>12, <2>1
<1>. QED
  BY <1>4, <1>8, <1>9, <1>13 DEF n

(* The last version of a window. *)
LEMMA LastOfWindow ==
  ASSUME TypeOK, Whole, lifetime = 0, LastStored \in Nat, NEW c \in Clients,
         NEW all, NEW n \in Nat, NEW top \in Nat, n <= top, top <= LastStored,
         all = [i \in 1..n |-> table[top - n + i]], Len(all) = n
  PROVE  (IF all = <<>> THEN 0 ELSE all[Len(all)].version) = IF n = 0 THEN 0 ELSE top
<1>1. CASE n = 0
  BY <1>1
<1>2. CASE n # 0
  <2>1. all # <<>> /\ all[n] = table[top - n + n] /\ top - n + n = top
    BY <1>2
  <2>2. top \in DOMAIN table
    BY <1>2 DEF Whole
  <2>3. table[top].version = top
    BY <2>2 DEF TypeOK
  <2>. QED
    BY <1>2, <2>1, <2>3
<1>. QED
  BY <1>1, <1>2

LEMMA ReadPageKeeps ==
  ASSUME StoreInv, NEW c \in Clients, ReadPage(c)
  PROVE  StoreInv'
<1>1. TypeOK /\ Bounded /\ Whole /\ AckedHeld /\ ClientInv(c) /\ pc[c] = "read"
  BY DEF StoreInv, ReadPage
<1>2. Keeps /\ Bounded' /\ Whole' /\ LastStored' = LastStored
  BY <1>1, StillKeeps DEF ReadPage
<1>3. AckedHeld'
  BY <1>1, StillHeld DEF ReadPage
<1>4. \A d \in Clients \ {c} : Apart(d)
  BY <1>1 DEF TypeOK, ReadPage, Apart
<1>5. PICK k \in 0..Remaining(c), more \in BOOLEAN :
        LET order == FirstReached(mode[c], Ahead(c), k)
            page == [i \in DOMAIN order |-> table[order[i]]]
            all == IF mode[c] = "tail" THEN page \o got[c] ELSE got[c] \o page
            enough == mode[c] = "tail" /\ Len(all) = Interval
        IN
        /\ page = <<>> => Ahead(c) = {} /\ ~more
        /\ Len(page) < Cardinality(Ahead(c)) => more
        /\ got' = [got EXCEPT ![c] = all]
        /\ pc' = [pc EXCEPT ![c] = IF enough \/ ~more THEN "ready" ELSE "read"]
  BY DEF ReadPage
<1> DEFINE order == FirstReached(mode[c], Ahead(c), k)
           page == [i \in DOMAIN order |-> table[order[i]]]
           all == IF mode[c] = "tail" THEN page \o got[c] ELSE got[c] \o page
<1>6. order \in Seq(DOMAIN table)
  BY <1>1, PageTypes
<1>7. page \in Seq(Record)
  <2> HIDE DEF order
  <2>1. \A v \in DOMAIN table : table[v] \in Record
    BY <1>1 DEF TypeOK
  <2>2. DOMAIN order = 1..Len(order) /\ Len(order) \in Nat
        /\ \A i \in DOMAIN order : order[i] \in DOMAIN table
    BY <1>6
  <2>. QED
    BY <2>1, <2>2
<1>8. /\ page = <<>> => Ahead(c) = {} /\ ~more
      /\ Len(page) < Cardinality(Ahead(c)) => more
      /\ got'[c] = all
      /\ pc'[c] = IF (mode[c] = "tail" /\ Len(all) = Interval) \/ ~more
                  THEN "ready" ELSE "read"
      /\ mode'[c] = mode[c] /\ done'[c] = done[c] /\ began'[c] = began[c]
      /\ lifetime' = lifetime /\ table' = table
  <2> HIDE DEF page
  <2>1. got \in [Clients -> Seq(Record)] /\ pc \in [Clients -> {"idle", "read", "ready", "write"}]
    BY <1>1 DEF TypeOK
  <2>. QED
    BY <1>5, <2>1 DEF page, ReadPage
<1>9. TypeOK'
  <2>1. got[c] \in Seq(Record)
    BY <1>1 DEF TypeOK
  <2> HIDE DEF page
  <2>2. all \in Seq(Record)
    BY <1>7, <2>1
  <2>3. got' = [got EXCEPT ![c] = all]
        /\ pc' = [pc EXCEPT ![c] = IF (mode[c] = "tail" /\ Len(all) = Interval) \/ ~more
                                   THEN "ready" ELSE "read"]
    BY <1>5 DEF page
  <2> HIDE DEF all
  <2>4. got' \in [Clients -> Seq(Record)]
    BY <1>1, <2>2, <2>3 DEF TypeOK
  <2>5. pc' \in [Clients -> {"idle", "read", "ready", "write"}]
    BY <1>1, <2>3 DEF TypeOK
  <2>. QED
    BY <1>1, <2>4, <2>5 DEF TypeOK, ReadPage
<1> HIDE DEF order, page
<1>10. Reading(c)'
  <2>1. SUFFICES ASSUME lifetime = 0 PROVE Reading(c)'
    BY <1>8 DEF Reading
  <2>2. /\ Reading(c) /\ LastStored \in Nat /\ began[c] \in Nat /\ Len(got[c]) \in Nat
        /\ mode[c] \in {"tail", "all"} /\ Interval \in Nat \ {0}
    BY <1>1, LastStoredNat, CloudAssumption DEF ClientInv, TypeOK
  <2>3. LastRead(c)' = IF all = <<>> THEN 0 ELSE all[Len(all)].version
    BY <1>8 DEF LastRead
  <2> DEFINE n == Len(got[c])
  <2>4. ASSUME mode[c] = "tail" PROVE Reading(c)'
    <3>1. PICK p \in Nat, top \in Nat :
            /\ n + p <= Interval /\ n + p <= top /\ top <= LastStored
            /\ began[c] <= top
            /\ all = [i \in 1..(n + p) |-> table[top - (n + p) + i]]
            /\ Len(all) = n + p
            /\ Len(page) = p
            /\ Ahead(c) = 1..(top - n)
            /\ n = 0 => top = LastStored
      <4>1. \E p, top \in Nat :
           LET ord == FirstReached(mode[c], Ahead(c), k)
               pag == [i \in DOMAIN ord |-> table[ord[i]]]
               m == Len(got[c])
           IN  /\ m + p <= Interval /\ m + p <= top /\ top <= LastStored
               /\ began[c] <= top
               /\ pag \o got[c] = [i \in 1..(m + p) |-> table[top - (m + p) + i]]
               /\ Len(pag \o got[c]) = m + p
               /\ Len(pag) = p
               /\ Ahead(c) = 1..(top - m)
               /\ m = 0 => top = LastStored
        BY <1>1, <2>1, <2>2, <2>4, TailPage
      <4>. QED
        BY <2>4, <4>1 DEF page, order
    <3> HIDE DEF all, n
    <3>2. LastRead(c)' = IF n + p = 0 THEN 0 ELSE top
      <4>1. PICK m \in Nat : m = n + p
        BY <2>2, <3>1 DEF n
      <4>2. m <= top /\ top <= LastStored /\ Len(all) = m
        BY <3>1, <4>1
      <4>3. all = [i \in 1..m |-> table[top - m + i]]
        BY <3>1, <4>1
      <4>4. (IF all = <<>> THEN 0 ELSE all[Len(all)].version) = IF m = 0 THEN 0 ELSE top
          <5>1. PICK a : a = all
            OBVIOUS
          <5>2. /\ TypeOK /\ Whole /\ lifetime = 0 /\ LastStored \in Nat
                /\ m <= top /\ top <= LastStored
                /\ a = [i \in 1..m |-> table[top - m + i]] /\ Len(a) = m
            BY <1>1, <2>1, <2>2, <3>1, <4>2, <4>3, <5>1
          <5>3. (IF a = <<>> THEN 0 ELSE a[Len(a)].version) = IF m = 0 THEN 0 ELSE top
            BY <5>2, LastOfWindow, Zenon
          <5>. QED
            BY <5>1, <5>3, Zenon
      <4>. QED
        BY <2>3, <4>1, <4>4
    <3>3. n \in Nat
      BY <2>2 DEF n
    <3>4. CASE n + p = 0
      <4>1. n = 0 /\ p = 0
        BY <3>3, <3>4
      <4>2. page = <<>>
        BY <1>7, <3>1, <4>1
      <4>3. Ahead(c) = {} /\ ~more
        BY <1>8, <4>2
      <4>4. LastStored = 0 /\ top = 0
        <5>1. top = LastStored /\ top - n = top
          BY <3>1, <4>1
        <5>2. 1..top = {}
          BY <3>1, <4>3, <5>1
        <5>. QED
          BY <2>2, <5>1, <5>2
      <4>5. all = [i \in 1..0 |-> table[0 - 0 + i]] /\ Len(all) = 0
        BY <3>1, <3>4, <4>4
      <4>6. began[c] = 0 /\ pc'[c] = "ready"
        BY <1>8, <2>2, <3>1, <4>3, <4>4
      <4>. QED
        BY <1>2, <1>8, <2>2, <2>4, <3>2, <3>4, <4>4, <4>5, <4>6 DEF Reading
    <3>5. CASE n + p # 0
      <4>1. LastRead(c)' = top
        BY <3>2, <3>5
      <4>2. pc'[c] = "read" => Len(all) < Interval
        BY <1>8, <2>2, <2>4, <3>1, <3>3
      <4>3. pc'[c] = "ready" => Len(all) = Interval \/ Len(all) = top
        <5>1. SUFFICES ASSUME pc'[c] = "ready", Len(all) # Interval PROVE Len(all) = top
          OBVIOUS
        <5>2. ~more
          BY <1>8, <5>1
        <5>3. Cardinality(1..(top - n)) = top - n
          <6>1. PICK d \in Nat : d = top - n
            BY <3>1, <3>3
          <6>2. Cardinality(1..d) = d
            BY FS_Interval
          <6>. QED
            BY <6>1, <6>2
        <5>4. ~(p < top - n)
          BY <1>8, <3>1, <5>2, <5>3
        <5>. QED
          BY <3>1, <3>3, <5>4
      <4>4. all = [i \in 1..Len(all) |-> table[top - Len(all) + i]]
        BY <3>1
      <4>5. Len(all) <= top /\ Len(all) <= Interval /\ began[c] <= LastStored
        <5>1. began[c] <= LastStored
          BY <1>1, <2>1, <2>2 DEF Reading
        <5>. QED
          BY <3>1, <5>1
      <4>. QED
        BY <1>2, <1>8, <2>2, <2>4, <3>1, <4>1, <4>2, <4>3, <4>4, <4>5 DEF Reading
    <3>. QED
      BY <3>4, <3>5
  <2>5. ASSUME mode[c] = "all" PROVE Reading(c)'
    <3>1. PICK p \in Nat :
            /\ n + p <= LastStored
            /\ all = [i \in 1..(n + p) |-> table[i]]
            /\ Len(all) = n + p
            /\ Len(page) = p
            /\ Ahead(c) = (n + 1)..LastStored
      <4>1. \E p \in Nat :
           LET ord == FirstReached(mode[c], Ahead(c), k)
               pag == [i \in DOMAIN ord |-> table[ord[i]]]
               m == Len(got[c])
           IN  /\ m + p <= LastStored
               /\ got[c] \o pag = [i \in 1..(m + p) |-> table[i]]
               /\ Len(got[c] \o pag) = m + p
               /\ Len(pag) = p
               /\ Ahead(c) = (m + 1)..LastStored
        BY <1>1, <2>1, <2>2, <2>5, HistoryPage
      <4>. QED
        BY <2>5, <4>1 DEF page, order
    <3> HIDE DEF all, n
    <3>2. PICK m \in Nat : m = n + p /\ n \in Nat /\ m <= LastStored
      BY <2>2, <3>1 DEF n
    <3>3. all = [i \in 1..m |-> table[m - m + i]] /\ Len(all) = m
      <4>1. \A i \in 1..m : m - m + i = i
        OBVIOUS
      <4>. QED
        BY <3>1, <3>2, <4>1
    <3>4. LastRead(c)' = m
      <4>1. LastRead(c)' = IF m = 0 THEN 0 ELSE m
        <5>1. (IF all = <<>> THEN 0 ELSE all[Len(all)].version) = IF m = 0 THEN 0 ELSE m
          <6>1. PICK a : a = all
            OBVIOUS
          <6>2. /\ TypeOK /\ Whole /\ lifetime = 0 /\ LastStored \in Nat
                /\ m <= m /\ m <= LastStored
                /\ a = [i \in 1..m |-> table[m - m + i]] /\ Len(a) = m
            BY <1>1, <2>1, <2>2, <3>2, <3>3, <6>1
          <6>3. (IF a = <<>> THEN 0 ELSE a[Len(a)].version) = IF m = 0 THEN 0 ELSE m
            BY <6>2, LastOfWindow, Zenon
          <6>. QED
            BY <6>1, <6>3, Zenon
        <5>. QED
          BY <2>3, <5>1
      <4>. QED
        BY <4>1
    <3>5. pc'[c] = "ready" => m = LastStored
      <4>1. SUFFICES ASSUME pc'[c] = "ready" PROVE m = LastStored
        OBVIOUS
      <4>2. ~more
        BY <1>8, <2>5, <4>1
      <4>3. Cardinality((n + 1)..LastStored) = LastStored - n
        <5>1. n <= LastStored /\ n \in Nat
          BY <2>2, <3>1, <3>2
        <5>2. PICK a \in Int : a = n + 1
          BY <5>1
        <5>3. PICK b \in Int : b = LastStored
          BY <2>2
        <5>4. Cardinality(a..b) = IF a > b THEN 0 ELSE b - a + 1
          BY FS_Interval
        <5>. QED
          BY <5>1, <5>2, <5>3, <5>4
      <4>4. ~(p < LastStored - n)
        BY <1>8, <3>1, <4>2, <4>3
      <4>. QED
        BY <2>2, <3>1, <3>2, <4>4
    <3>6. began[c] <= LastStored
      BY <1>1, <2>1, <2>2 DEF Reading
    <3>. QED
      BY <1>2, <1>8, <2>2, <2>5, <3>2, <3>3, <3>4, <3>5, <3>6 DEF Reading
  <2>. QED
    BY <2>2, <2>4, <2>5
<1>11. ClientInv(c)'
  <2>1. pc'[c] \in {"read", "ready"} /\ done[c] = 0
    BY <1>1, <1>8 DEF ClientInv, Fresh
  <2>. QED
    BY <1>8, <1>10, <2>1 DEF ClientInv, Fresh, Writing
<1>. QED
  BY <1>2, <1>3, <1>4, <1>9, <1>11, StepKeeps

(* A client's read is done; it emits. *)
LEMMA EmitKeeps ==
  ASSUME StoreInv, NEW c \in Clients, Emit(c)
  PROVE  StoreInv'
<1>1. TypeOK /\ Bounded /\ Whole /\ AckedHeld /\ ClientInv(c) /\ pc[c] = "ready"
  BY DEF StoreInv, Emit
<1>2. Keeps /\ Bounded' /\ Whole' /\ LastStored' = LastStored
  BY <1>1, StillKeeps DEF Emit
<1>3. AckedHeld'
  BY <1>1, StillHeld DEF Emit
<1>4. \A d \in Clients \ {c} : Apart(d)
  BY <1>1 DEF TypeOK, Emit, Apart
<1>5. PICK n \in EventCounts : batch' = [batch EXCEPT ![c] = Emission(c, n)]
  BY DEF Emit
<1>6. /\ LastRead(c) \in Nat /\ LastStored \in Nat /\ lifetime \in Nat /\ now \in Nat
      /\ n \in Nat \ {0} /\ got[c] \in Seq(Record)
  BY <1>1, LastReadNat, LastStoredNat, CloudAssumption DEF TypeOK
<1>7. Covers(got[c]) \subseteq Nat \ {0}
  <2>1. \A i \in DOMAIN got[c] : got[c][i] \in Record
    BY <1>6
  <2>2. \A i \in DOMAIN got[c] : got[c][i].covers \subseteq Nat \ {0}
    BY <2>1 DEF Record
  <2>. QED
    BY <2>2 DEF Covers
<1> DEFINE emission == Emission(c, n)
<1>8. PICK expiry \in Nat :
        /\ lifetime = 0 => expiry = 0
        /\ Run(emission, LastRead(c), expiry)
        /\ Len(emission) \in Nat \ {0}
  BY <1>6, <1>7, EmissionRuns
<1> HIDE DEF emission
<1>9. emission \in Seq(Record)
  BY <1>8 DEF Run
<1>10. /\ pc'[c] = "write" /\ batch'[c] = emission /\ done'[c] = 0 /\ got'[c] = <<>>
       /\ lifetime' = lifetime
  BY <1>1, <1>5 DEF TypeOK, Emit, ClientInv, Fresh, emission
<1>11. TypeOK'
  <2>1. /\ pc' \in [Clients -> {"idle", "read", "ready", "write"}]
        /\ got' \in [Clients -> Seq(Record)]
        /\ began' \in [Clients -> Nat]
    <3>1. <<>> \in Seq(Record)
      OBVIOUS
    <3>. QED
      BY <1>1, <3>1 DEF TypeOK, Emit
  <2>2. batch' \in [Clients -> Seq(Record)]
    BY <1>1, <1>5, <1>9 DEF TypeOK, emission
  <2>3. ASSUME NEW d \in Clients PROVE done'[d] <= Len(batch'[d])
    <3>1. CASE d = c
      BY <1>8, <1>10, <3>1
    <3>2. CASE d # c
      BY <1>1, <1>4, <3>2 DEF TypeOK, Apart
    <3>. QED
      BY <3>1, <3>2
  <2>. QED
    BY <1>1, <2>1, <2>2, <2>3 DEF TypeOK, Emit
<1>12. Writing(c)'
  <2>1. lifetime = 0 => LastRead(c) + 0 <= LastStored
    BY <1>1, <1>6 DEF ClientInv, Reading
  <2>2. done'[c] < Len(batch'[c]) /\ 1..done'[c] = {}
    BY <1>8, <1>10
  <2>3. PICK first \in Nat : first = LastRead(c)
    BY <1>6
  <2>4. /\ Run(batch'[c], first, expiry)
        /\ lifetime' = 0 => expiry = 0 /\ first + done'[c] <= LastStored'
    BY <1>2, <1>8, <1>10, <2>1, <2>3
  <2>. QED
    BY <2>2, <2>4 DEF Writing
<1>13. ClientInv(c)'
  BY <1>10, <1>12 DEF ClientInv, Fresh, Reading
<1>. QED
  BY <1>2, <1>3, <1>4, <1>11, <1>13, StepKeeps

(***************************************************************************)
(* A batch that is stored.                                                 *)
(***************************************************************************)
LEMMA NextBatchShape ==
  ASSUME TypeOK, NEW c \in Clients, done[c] < Len(batch[c])
  PROVE  /\ NextBatch(c) \in Seq(Record)
         /\ Len(NextBatch(c)) \in Nat \ {0}
         /\ done[c] + Len(NextBatch(c)) <= Len(batch[c])
         /\ \A i \in 1..Len(NextBatch(c)) : NextBatch(c)[i] = batch[c][done[c] + i]
<1>1. PICK s : s = batch[c]
  OBVIOUS
<1>2. PICK d \in Nat : d = done[c]
  BY DEF TypeOK
<1>3. s \in Seq(Record) /\ d < Len(s) /\ Len(s) \in Nat /\ BatchLimit \in Nat \ {0}
  BY <1>1, <1>2, CloudAssumption DEF TypeOK
<1>4. PICK p \in Nat \ {0} :
        p = (IF Len(s) - d < BatchLimit THEN Len(s) - d ELSE BatchLimit) /\ d + p <= Len(s)
  <2>1. PICK m \in Nat : m = Len(s)
    BY <1>3
  <2>2. m - d \in Nat \ {0} /\ d + (m - d) = m
    <3>1. d < m
      BY <1>3, <2>1
    <3>. QED
      BY <3>1
  <2>3. CASE m - d < BatchLimit
    <3>1. m - d = IF Len(s) - d < BatchLimit THEN Len(s) - d ELSE BatchLimit
      BY <2>1, <2>3
    <3>. QED
      BY <2>1, <2>2, <3>1
  <2>4. CASE ~(m - d < BatchLimit)
    <3>1. d + BatchLimit <= m
      BY <1>3, <2>1, <2>2, <2>4
    <3>. QED
      BY <1>3, <2>1, <2>4, <3>1
  <2>. QED
    BY <2>3, <2>4
<1>5. NextBatch(c) = SubSeq(s, d + 1, d + p)
  BY <1>1, <1>2, <1>4 DEF NextBatch
<1>6. /\ SubSeq(s, d + 1, d + p) \in Seq(Record)
      /\ Len(SubSeq(s, d + 1, d + p)) = p
      /\ \A i \in 1..p : SubSeq(s, d + 1, d + p)[i] = s[d + i]
  <2>1. PICK m \in Int : m = d + 1
    BY <1>2
  <2>2. PICK n \in Int : n = d + p
    BY <1>2, <1>4
  <2>3. \A i \in m..n : s[i] \in Record
    BY <1>3, <1>4, <2>1, <2>2
  <2>4. /\ SubSeq(s, m, n) \in Seq(Record)
        /\ Len(SubSeq(s, m, n)) = IF m <= n THEN n - m + 1 ELSE 0
        /\ \A i \in 1..n - m + 1 : SubSeq(s, m, n)[i] = s[m + i - 1]
    BY <2>3, SubSeqProperties
  <2>5. m <= n /\ n - m + 1 = p
    <3>1. p >= 1 /\ p \in Int /\ d \in Int
      OBVIOUS
    <3>. QED
      BY <2>1, <2>2, <3>1
  <2>6. \A i \in 1..p : m + i - 1 = d + i
    BY <1>2, <1>4, <2>1
  <2>. QED
    BY <2>1, <2>2, <2>4, <2>5, <2>6
<1>. QED
  BY <1>1, <1>2, <1>4, <1>5, <1>6

LEMMA BatchStored ==
  ASSUME TypeOK, Bounded, Whole, NEW f \in Nat, NEW expiry \in Nat, NEW records,
         Run(records, f, expiry), Len(records) # 0,
         lifetime = 0 => expiry = 0 /\ f <= LastStored,
         Accepts(records), Store(records), UNCHANGED <<lifetime, now>>
  PROVE  /\ DOMAIN table' \subseteq Nat \ {0}
         /\ \A v \in DOMAIN table' : table'[v] \in Record /\ table'[v].version = v
         /\ everStored' \subseteq Nat
         /\ Bounded' /\ Whole' /\ Keeps
         /\ \A i \in 1..Len(records) : WillBeStored(records[i])
         /\ lifetime = 0 => f + Len(records) <= LastStored'
<1>1. /\ records \in Seq(Record)
      /\ \A i \in 1..Len(records) : /\ records[i] \in Record
                                    /\ records[i].version = f + i
                                    /\ records[i].expiry = expiry
  BY DEF Run
<1>2. PICK p \in Nat \ {0} : p = Len(records) /\ DOMAIN records = 1..p
  BY <1>1
<1>3. VersionsOf(records) = (f + 1)..(f + p)
  <2>1. ASSUME NEW v \in VersionsOf(records) PROVE v \in (f + 1)..(f + p)
    BY <1>1, <1>2 DEF VersionsOf
  <2>2. ASSUME NEW v \in (f + 1)..(f + p) PROVE v \in VersionsOf(records)
    <3>1. v - f \in 1..p /\ f + (v - f) = v
      OBVIOUS
    <3>. QED
      BY <1>1, <1>2, <3>1 DEF VersionsOf
  <2>. QED
    BY <2>1, <2>2
<1> DEFINE Of(v) == CHOOSE i \in DOMAIN records : records[i].version = v
<1>4. ASSUME NEW i \in 1..p PROVE Of(f + i) = i
  <2>1. i \in DOMAIN records /\ records[i].version = f + i
    BY <1>1, <1>2
  <2>2. Of(f + i) \in DOMAIN records /\ records[Of(f + i)].version = f + i
    BY <2>1
  <2> HIDE DEF Of
  <2>3. Of(f + i) \in 1..p /\ f + Of(f + i) = f + i
    BY <1>1, <1>2, <2>2
  <2>. QED
    BY <2>3
<1>5. table' = [v \in DOMAIN table \cup (f + 1)..(f + p) |->
                  IF v \in (f + 1)..(f + p) THEN records[Of(v)] ELSE table[v]]
  BY <1>3 DEF Store
<1> HIDE DEF Of
<1>6. DOMAIN table' = DOMAIN table \cup (f + 1)..(f + p)
  BY <1>5
<1>7. ASSUME NEW i \in 1..p PROVE f + i \in DOMAIN table' /\ table'[f + i] = records[i]
  <2>1. f + i \in (f + 1)..(f + p)
    OBVIOUS
  <2>. QED
    BY <1>4, <1>5, <2>1
<1>8. (f + 1)..(f + p) \cap DOMAIN table = {}
  BY <1>3 DEF Accepts
<1>9. ASSUME NEW v \in DOMAIN table PROVE v \in DOMAIN table' /\ table'[v] = table[v]
  BY <1>5, <1>8
<1>10. ASSUME NEW v \in (f + 1)..(f + p)
       PROVE  \E i \in 1..p : v = f + i
  <2>1. v - f \in 1..p /\ v = f + (v - f)
    OBVIOUS
  <2>. QED
    BY <2>1
<1>11. ASSUME NEW v \in DOMAIN table'
       PROVE  table'[v] \in Record /\ table'[v].version = v
  <2>1. CASE v \in DOMAIN table
    BY <1>9, <2>1 DEF TypeOK
  <2>2. CASE v \in (f + 1)..(f + p)
    <3>1. PICK i \in 1..p : v = f + i
      BY <1>10, <2>2
    <3>. QED
      BY <1>1, <1>2, <1>7, <3>1
  <2>. QED
    BY <1>6, <2>1, <2>2
<1>12. DOMAIN table' \subseteq Nat \ {0}
  BY <1>6 DEF TypeOK
<1>13. everStored' \subseteq Nat
  <2>1. {records[i].version : i \in {j \in DOMAIN records : ~records[j].snapshot}}
          \subseteq VersionsOf(records)
    BY DEF VersionsOf
  <2>2. VersionsOf(records) \subseteq Nat
    BY <1>3
  <2>. QED
    BY <2>1, <2>2 DEF TypeOK, Store
<1>14. Bounded'
  <2>1. PICK b \in Nat : DOMAIN table \subseteq 1..b
    BY DEF Bounded
  <2>2. PICK top \in Nat : top = b + f + p
    OBVIOUS
  <2>3. DOMAIN table' \subseteq 1..top
    BY <1>6, <2>1, <2>2
  <2>. QED
    BY <2>3 DEF Bounded
<1>15. LastStored \in Nat
  BY LastStoredNat
<1>16. ASSUME lifetime = 0
       PROVE  DOMAIN table' = 1..(f + p) /\ LastStored' = f + p /\ LastStored <= f + p
  <2>1. DOMAIN table = 1..LastStored /\ f <= LastStored
    BY <1>16 DEF Whole
  <2>2. f = LastStored
    <3>1. f + 1 \notin DOMAIN table
      BY <1>8
    <3>. QED
      BY <1>15, <2>1, <3>1
  <2>3. DOMAIN table' = 1..(f + p)
    BY <1>6, <2>1, <2>2
  <2>4. PICK top \in Nat : top = f + p
    OBVIOUS
  <2>5. LastOf(1..top) = top
    BY LastOfInterval
  <2>6. LastStored' = f + p
    BY <2>3, <2>4, <2>5 DEF LastStored
  <2>. QED
    BY <2>2, <2>3, <2>6
<1>17. Whole'
  <2>1. SUFFICES ASSUME lifetime = 0
                 PROVE  /\ DOMAIN table' = 1..LastStored'
                        /\ \A v \in DOMAIN table' : table'[v].expiry = 0
    BY DEF Whole
  <2>2. DOMAIN table' = 1..LastStored'
    BY <1>16, <2>1
  <2>3. ASSUME NEW v \in DOMAIN table' PROVE table'[v].expiry = 0
    <3>1. CASE v \in DOMAIN table
      BY <1>9, <2>1, <3>1 DEF Whole
    <3>2. CASE v \in (f + 1)..(f + p)
      <4>1. PICK i \in 1..p : v = f + i
        BY <1>10, <3>2
      <4>. QED
        BY <1>1, <1>2, <1>7, <2>1, <4>1
    <3>. QED
      BY <1>6, <3>1, <3>2
  <2>. QED
    BY <2>2, <2>3
<1>18. Keeps
  <2>1. now \in Nat
    BY DEF TypeOK
  <2>2. lifetime = 0 => LastStored <= LastStored'
    BY <1>16
  <2>. QED
    BY <1>9, <2>1, <2>2 DEF Keeps
<1>19. ASSUME NEW i \in 1..p PROVE WillBeStored(records[i])
  <2>1. records[i].version = f + i
    BY <1>1, <1>2
  <2>. QED
    BY <1>7, <2>1 DEF WillBeStored
<1>20. lifetime = 0 => f + Len(records) <= LastStored'
  BY <1>2, <1>16
<1>. QED
  BY <1>2, <1>11, <1>12, <1>13, <1>14, <1>17, <1>18, <1>19, <1>20

(* What a client has in hand when it writes a batch. *)
LEMMA BatchOf ==
  ASSUME StoreInv, NEW c \in Clients, pc[c] = "write",
         Accepts(NextBatch(c)), Store(NextBatch(c)), UNCHANGED <<lifetime, now>>
  PROVE  /\ Len(NextBatch(c)) \in Nat \ {0}
         /\ done[c] + Len(NextBatch(c)) <= Len(batch[c])
         /\ DOMAIN table' \subseteq Nat \ {0}
         /\ \A v \in DOMAIN table' : table'[v] \in Record /\ table'[v].version = v
         /\ everStored' \subseteq Nat
         /\ Bounded' /\ Whole' /\ Keeps
         /\ \A i \in 1..(done[c] + Len(NextBatch(c))) :
              Expired(batch[c][i], now') \/ WillBeStored(batch[c][i])
         /\ \E first, expiry \in Nat :
              /\ Run(batch[c], first, expiry)
              /\ lifetime = 0 =>
                   expiry = 0 /\ first + (done[c] + Len(NextBatch(c))) <= LastStored'
<1>1. TypeOK /\ Bounded /\ Whole /\ Writing(c)
  BY DEF StoreInv, ClientInv
<1>2. done[c] < Len(batch[c]) /\ done[c] \in Nat /\ batch[c] \in Seq(Record)
  BY <1>1 DEF Writing, TypeOK
<1>3. PICK first \in Nat, expiry \in Nat :
        /\ Run(batch[c], first, expiry)
        /\ lifetime = 0 => expiry = 0 /\ first + done[c] <= LastStored
  BY <1>1 DEF Writing
<1> DEFINE next == NextBatch(c)
<1>4. /\ next \in Seq(Record) /\ Len(next) \in Nat \ {0}
      /\ done[c] + Len(next) <= Len(batch[c])
      /\ \A i \in 1..Len(next) : next[i] = batch[c][done[c] + i]
  BY <1>1, <1>2, NextBatchShape
<1>5. Accepts(next) /\ Store(next)
  OBVIOUS
<1> HIDE DEF next
<1>6. PICK f \in Nat : f = first + done[c]
  BY <1>2
<1>7. Run(next, f, expiry)
  <2>1. ASSUME NEW i \in 1..Len(next)
        PROVE  next[i].version = f + i /\ next[i].expiry = expiry
    <3>1. PICK j \in 1..Len(batch[c]) : j = done[c] + i
      BY <1>2, <1>4
    <3>2. batch[c][j].version = first + j /\ batch[c][j].expiry = expiry
      BY <1>3 DEF Run
    <3>3. first + j = f + i
      BY <1>2, <1>4, <1>6, <3>1
    <3>. QED
      BY <1>4, <3>1, <3>2, <3>3
  <2>. QED
    BY <1>4, <2>1 DEF Run
<1>8. /\ DOMAIN table' \subseteq Nat \ {0}
      /\ \A v \in DOMAIN table' : table'[v] \in Record /\ table'[v].version = v
      /\ everStored' \subseteq Nat
      /\ Bounded' /\ Whole' /\ Keeps
      /\ \A i \in 1..Len(next) : WillBeStored(next[i])
      /\ lifetime = 0 => f + Len(next) <= LastStored'
  <2>1. Len(next) # 0 /\ (lifetime = 0 => expiry = 0 /\ f <= LastStored)
    BY <1>3, <1>4, <1>6
  <2>2. PICK records : records = next
    OBVIOUS
  <2>3. /\ Run(records, f, expiry) /\ Len(records) # 0
        /\ Accepts(records) /\ Store(records)
    BY <1>5, <1>7, <2>1, <2>2
  <2>4. /\ DOMAIN table' \subseteq Nat \ {0}
        /\ \A v \in DOMAIN table' : table'[v] \in Record /\ table'[v].version = v
        /\ everStored' \subseteq Nat
        /\ Bounded' /\ Whole' /\ Keeps
        /\ \A i \in 1..Len(records) : WillBeStored(records[i])
        /\ lifetime = 0 => f + Len(records) <= LastStored'
    BY <1>1, <2>1, <2>3, BatchStored
  <2>. QED
    BY <2>2, <2>4
<1>9. ASSUME NEW i \in 1..(done[c] + Len(next))
      PROVE  Expired(batch[c][i], now') \/ WillBeStored(batch[c][i])
  <2>1. PICK r \in Record : r = batch[c][i]
    BY <1>2, <1>4
  <2>2. CASE i <= done[c]
    <3>1. i \in 1..done[c]
      BY <1>2, <1>4, <2>2
    <3>2. Expired(r, now) \/ IsStored(r)
      BY <1>1, <2>1, <3>1 DEF Writing
    <3>3. Expired(r, now') \/ IsStored(r)'
      BY <1>1, <1>8, <3>2, StoredStays
    <3>. QED
      BY <2>1, <3>3 DEF IsStored, WillBeStored
  <2>3. CASE i > done[c]
    <3>1. PICK j \in 1..Len(next) : i = done[c] + j
      <4>1. i - done[c] \in 1..Len(next) /\ i = done[c] + (i - done[c])
        BY <1>2, <1>4, <2>3
      <4>. QED
        BY <4>1
    <3>2. next[j] = r
      BY <1>4, <2>1, <3>1
    <3>3. WillBeStored(next[j])
      BY <1>8
    <3>. QED
      BY <2>1, <3>2, <3>3
  <2>. QED
    BY <1>2, <1>4, <2>2, <2>3
<1>10. lifetime = 0 => expiry = 0 /\ first + (done[c] + Len(next)) <= LastStored'
  <2>1. first + (done[c] + Len(next)) = f + Len(next)
    BY <1>2, <1>4, <1>6
  <2>. QED
    BY <1>3, <1>8, <2>1
<1>. QED
  BY <1>3, <1>4, <1>8, <1>9, <1>10 DEF next

LEMMA WriteBatchKeeps ==
  ASSUME StoreInv, NEW c \in Clients, WriteBatch(c)
  PROVE  StoreInv'
<1> DEFINE written == done[c] + Len(NextBatch(c))
<1>1. /\ TypeOK /\ Bounded /\ Whole /\ AckedHeld /\ ClientInv(c) /\ pc[c] = "write"
      /\ UNCHANGED <<lifetime, active, now, torn>>
  BY DEF StoreInv, WriteBatch
<1>2. /\ Len(NextBatch(c)) \in Nat \ {0}
      /\ written <= Len(batch[c])
      /\ DOMAIN table' \subseteq Nat \ {0}
      /\ \A v \in DOMAIN table' : table'[v] \in Record /\ table'[v].version = v
      /\ everStored' \subseteq Nat
      /\ Bounded' /\ Whole' /\ Keeps
      /\ \A i \in 1..written : Expired(batch[c][i], now') \/ WillBeStored(batch[c][i])
      /\ \E first, expiry \in Nat :
           /\ Run(batch[c], first, expiry)
           /\ lifetime = 0 => expiry = 0 /\ first + written <= LastStored'
  BY <1>1, BatchOf DEF WriteBatch
<1>3. written \in Nat
  BY <1>1, <1>2 DEF TypeOK
<1> HIDE DEF written
<1>4. ASSUME NEW r \in acked PROVE ~Expired(r, now') /\ IsStored(r)'
  <2>1. r \in Record /\ ~Expired(r, now) /\ IsStored(r) /\ now' = now
    BY <1>1 DEF TypeOK, AckedHeld
  <2>2. Expired(r, now') \/ IsStored(r)'
    BY <1>1, <1>2, <2>1, StoredStays
  <2>. QED
    BY <2>1, <2>2
<1>5. CASE written = Len(batch[c])
  <2>1. Leave(c) /\ acked' = acked \cup {r \in Range(batch[c]) : ~Expired(r, now)}
    BY <1>5 DEF WriteBatch, written
  <2>2. /\ pc' \in [Clients -> {"idle", "read", "ready", "write"}]
        /\ mode' \in [Clients -> {"tail", "all"}]
        /\ got' \in [Clients -> Seq(Record)]
        /\ batch' \in [Clients -> Seq(Record)]
        /\ done' \in [Clients -> Nat]
        /\ \A d \in Clients : done'[d] <= Len(batch'[d])
        /\ began' \in [Clients -> Nat]
        /\ ClientInv(c)'
        /\ \A d \in Clients \ {c} : Apart(d)
    BY <1>1, <2>1, LeaveFacts
  <2>3. ASSUME NEW r \in Range(batch[c]), ~Expired(r, now)
        PROVE  r \in Record /\ IsStored(r)'
    <3>1. batch[c] \in Seq(Record)
      BY <1>1 DEF TypeOK
    <3>2. PICK i \in 1..Len(batch[c]) : r = batch[c][i]
      BY <3>1 DEF Range
    <3>3. Expired(batch[c][i], now') \/ WillBeStored(batch[c][i])
      BY <1>2, <1>5
    <3>4. r \in Record /\ now' = now
      BY <1>1, <3>1, <3>2
    <3>. QED
      BY <2>3, <3>2, <3>3, <3>4 DEF IsStored, WillBeStored
  <2>4. AckedHeld'
    BY <1>1, <1>4, <2>1, <2>3 DEF AckedHeld
  <2>5. acked' \in SUBSET Record
    BY <1>1, <2>1, <2>3 DEF TypeOK
  <2>6. TypeOK'
    BY <1>1, <1>2, <2>2, <2>5 DEF TypeOK
  <2>. QED
    BY <1>2, <2>2, <2>4, <2>6, StepKeeps
<1>6. CASE written # Len(batch[c])
  <2>1. /\ done' = [done EXCEPT ![c] = written]
        /\ UNCHANGED <<pc, mode, got, batch, began, acked>>
    BY <1>6 DEF WriteBatch, written
  <2>2. written < Len(batch[c])
    <3>1. batch[c] \in Seq(Record)
      BY <1>1 DEF TypeOK
    <3>. QED
      BY <1>2, <1>3, <1>6, <3>1
  <2>3. \A d \in Clients \ {c} : Apart(d)
    BY <1>1, <2>1 DEF TypeOK, Apart
  <2>4. done' \in [Clients -> Nat] /\ done'[c] = written
    BY <1>1, <1>3, <2>1 DEF TypeOK
  <2>5. ASSUME NEW d \in Clients PROVE done'[d] <= Len(batch'[d])
    <3>1. CASE d = c
      BY <1>1, <2>1, <2>2, <2>4, <3>1
    <3>2. CASE d # c
      BY <1>1, <2>1, <2>3, <3>2 DEF TypeOK, Apart
    <3>. QED
      BY <3>1, <3>2
  <2>6. TypeOK'
    BY <1>1, <1>2, <2>1, <2>4, <2>5 DEF TypeOK
  <2>7. AckedHeld'
    BY <1>4, <2>1 DEF AckedHeld
  <2>8. Writing(c)'
    <3>1. PICK first \in Nat, expiry \in Nat :
            /\ Run(batch[c], first, expiry)
            /\ lifetime = 0 => expiry = 0 /\ first + written <= LastStored'
      BY <1>2
    <3>2. /\ batch'[c] = batch[c] /\ done'[c] = written /\ lifetime' = lifetime
      BY <1>1, <2>1, <2>4
    <3>3. \A i \in 1..done'[c] : Expired(batch'[c][i], now') \/ WillBeStored(batch'[c][i])
      BY <1>2, <3>2
    <3>. QED
      BY <2>2, <3>1, <3>2, <3>3 DEF Writing, IsStored, WillBeStored
  <2>9. ClientInv(c)'
    BY <1>1, <2>1, <2>8 DEF ClientInv, Fresh, Reading
  <2>. QED
    BY <1>2, <2>3, <2>6, <2>7, <2>9, StepKeeps
<1>. QED
  BY <1>5, <1>6

LEMMA WriteReplyLostKeeps ==
  ASSUME StoreInv, NEW c \in Clients, WriteReplyLost(c)
  PROVE  StoreInv'
<1>1. /\ TypeOK /\ AckedHeld /\ pc[c] = "write" /\ Leave(c)
      /\ UNCHANGED <<lifetime, active, now, acked>> /\ torn' \in BOOLEAN
  BY DEF StoreInv, WriteReplyLost, Abandon
<1>2. /\ DOMAIN table' \subseteq Nat \ {0}
      /\ \A v \in DOMAIN table' : table'[v] \in Record /\ table'[v].version = v
      /\ everStored' \subseteq Nat
      /\ Bounded' /\ Whole' /\ Keeps
  BY <1>1, BatchOf DEF WriteReplyLost
<1>3. /\ pc' \in [Clients -> {"idle", "read", "ready", "write"}]
      /\ mode' \in [Clients -> {"tail", "all"}]
      /\ got' \in [Clients -> Seq(Record)]
      /\ batch' \in [Clients -> Seq(Record)]
      /\ done' \in [Clients -> Nat]
      /\ \A d \in Clients : done'[d] <= Len(batch'[d])
      /\ began' \in [Clients -> Nat]
      /\ ClientInv(c)'
      /\ \A d \in Clients \ {c} : Apart(d)
  BY <1>1, LeaveFacts
<1>4. ASSUME NEW r \in acked PROVE ~Expired(r, now') /\ IsStored(r)'
  <2>1. r \in Record /\ ~Expired(r, now) /\ IsStored(r) /\ now' = now
    BY <1>1 DEF TypeOK, AckedHeld
  <2>2. Expired(r, now') \/ IsStored(r)'
    BY <1>1, <1>2, <2>1, StoredStays
  <2>. QED
    BY <2>1, <2>2
<1>5. AckedHeld'
  BY <1>1, <1>4 DEF AckedHeld
<1>6. TypeOK'
  BY <1>1, <1>2, <1>3 DEF TypeOK
<1>. QED
  BY <1>2, <1>3, <1>5, <1>6, StepKeeps

(***************************************************************************)
(* Steps of none of the clients.                                           *)
(***************************************************************************)
LEMMA OthersKeep ==
  ASSUME StoreInv, Bounded', Whole', Keeps, UNCHANGED client, TypeOK', AckedHeld'
  PROVE  StoreInv'
<1>1. ASSUME NEW c \in Clients PROVE ClientInv(c)'
  <2>1. Apart(c)
    BY DEF client, Apart
  <2>. QED
    BY <2>1, ClientStays DEF StoreInv
<1>. QED
  BY <1>1 DEF StoreInv

LEMMA TickKeeps ==
  ASSUME StoreInv, Tick
  PROVE  StoreInv'
<1>1. /\ TypeOK /\ Bounded /\ Whole /\ AckedHeld
      /\ now' = now + 1 /\ now < MaxTime
      /\ acked' = {r \in acked : ~Expired(r, now')}
      /\ UNCHANGED <<lifetime, active, table, client, everStored, torn>>
  BY DEF StoreInv, Tick
<1>2. now \in Nat /\ LastStored \in Nat /\ LastStored' = LastStored /\ MaxTime \in Nat
  BY <1>1, LastStoredNat, CloudAssumption DEF TypeOK, LastStored
<1>3. Bounded' /\ Whole' /\ Keeps
  BY <1>1, <1>2 DEF Bounded, Whole, Keeps
<1>4. AckedHeld'
  BY <1>1 DEF AckedHeld, IsStored
<1>5. TypeOK'
  <2>1. now' \in 0..MaxTime /\ acked' \in SUBSET Record
    BY <1>1, <1>2 DEF TypeOK
  <2>. QED
    BY <1>1, <2>1 DEF TypeOK, client
<1>. QED
  BY <1>1, <1>3, <1>4, <1>5, OthersKeep

LEMMA ExpireKeeps ==
  ASSUME StoreInv, Expire
  PROVE  StoreInv' /\ Keeps
<1>1. PICK v \in DOMAIN table :
        /\ Expired(table[v], now)
        /\ table' = Restrict(table, DOMAIN table \ {v})
  BY DEF Expire
<1>2. /\ TypeOK /\ Bounded /\ Whole /\ AckedHeld
      /\ UNCHANGED <<lifetime, active, now, client, everStored, acked, torn>>
  BY DEF StoreInv, Expire
<1>3. /\ DOMAIN table' = DOMAIN table \ {v}
      /\ \A w \in DOMAIN table \ {v} : table'[w] = table[w]
  BY <1>1 DEF Restrict
<1>4. lifetime # 0
  BY <1>1, <1>2 DEF Whole, Expired
<1>5. Bounded'
  BY <1>2, <1>3 DEF Bounded
<1>6. Whole'
  BY <1>2, <1>4 DEF Whole
<1>7. Keeps
  <2>1. now \in Nat
    BY <1>2 DEF TypeOK
  <2>. QED
    BY <1>1, <1>2, <1>3, <1>4, <2>1 DEF Keeps
<1>8. AckedHeld'
  <2>1. ASSUME NEW r \in acked PROVE ~Expired(r, now) /\ IsStored(r)'
    <3>1. ~Expired(r, now) /\ r.version \in DOMAIN table /\ table[r.version] = r
      BY <1>2 DEF AckedHeld, IsStored
    <3>2. r.version # v
      BY <1>1, <3>1
    <3>. QED
      BY <1>3, <3>1, <3>2 DEF IsStored
  <2>. QED
    BY <1>2, <2>1 DEF AckedHeld
<1>9. TypeOK'
  <2>1. /\ DOMAIN table' \subseteq Nat \ {0}
        /\ \A w \in DOMAIN table' : table'[w] \in Record /\ table'[w].version = w
    BY <1>2, <1>3 DEF TypeOK
  <2>. QED
    BY <1>2, <2>1 DEF TypeOK, client
<1>. QED
  BY <1>2, <1>5, <1>6, <1>7, <1>8, <1>9, OthersKeep

-----------------------------------------------------------------------------
(***************************************************************************)
(* Snapshots on schedule.                                                  *)
(***************************************************************************)
(* Somebody stored an event where a client was about to write on. *)
Overtaken(d) == done[d] > 0 /\ batch[d][done[d] + 1].version \in DOMAIN table

(* A save of several batches was cut short, or is bound to be. *)
Broken == torn \/ \E d \in Clients : Overtaken(d)

(* A snapshot belongs right after each multiple of the interval. *)
Due(v) == v > 1 /\ (v - 1) % Interval = 0

EventsUpTo(v) == {w \in everStored : w <= v}

(* Snapshots are where they belong, and sum up everything before them. *)
OnSchedule ==
  /\ everStored = {v \in DOMAIN table : ~table[v].snapshot}
  /\ \A v \in DOMAIN table :
       /\ table[v].snapshot <=> Due(v)
       /\ table[v].covers = IF table[v].snapshot THEN EventsUpTo(v - 1) ELSE {v}

(* A stream that ends where a snapshot is due has a client about to write  *)
(* it.                                                                     *)
Awaited ==
  LastStored > 0 /\ LastStored % Interval = 0 =>
    \E d \in Clients : done[d] > 0 /\ batch[d][done[d] + 1].version = LastStored + 1

(* The events among the first n records of an emission. *)
EventsAmong(records, first, n) ==
  {v \in (first + 1)..(first + n) : ~records[v - first].snapshot}

(* An emission on an aggregate of version first that knew the events past. *)
Scheduled(records, first, past) ==
  \A i \in 1..Len(records) :
    /\ records[i].snapshot <=> i > 1 /\ (first + i - 1) % Interval = 0
    /\ records[i].covers = IF records[i].snapshot
                           THEN past \cup EventsAmong(records, first, i - 1)
                           ELSE {first + i}

(* No emission ends where a snapshot is due. *)
Emitted(records, first, past) ==
  /\ Scheduled(records, first, past)
  /\ (first + Len(records)) % Interval # 0

InStep(c) ==
  pc[c] = "write" =>
    \E first \in Nat :
      /\ Run(batch[c], first, 0)
      /\ first + done[c] <= LastStored
      /\ Emitted(batch[c], first, EventsUpTo(first))

ScheduleInv ==
  lifetime = 0 /\ ~Broken => OnSchedule /\ Awaited /\ \A c \in Clients : InStep(c)

(* The builder after some events. *)
BuildsOn(b, first, past) ==
  /\ Scheduled(b.records, first, past)
  /\ b.state = past \cup EventsAmong(b.records, first, Len(b.records))
  /\ b.records # <<>> => b.version % Interval # 0

(* What a longer list of records says of its beginning. *)
LEMMA EventsAmongPrefix ==
  ASSUME NEW first \in Nat, NEW r, NEW s, NEW n \in Nat, \A j \in 1..n : s[j] = r[j]
  PROVE  EventsAmong(s, first, n) = EventsAmong(r, first, n)
<1>1. ASSUME NEW v \in (first + 1)..(first + n) PROVE s[v - first] = r[v - first]
  <2>1. v - first \in 1..n
    OBVIOUS
  <2>. QED
    BY <2>1
<1>. QED
  BY <1>1 DEF EventsAmong

(* One more record, in its place. *)
LEMMA ScheduledAppend ==
  ASSUME NEW r \in Seq(Record), NEW e \in Record, NEW first \in Nat, NEW past,
         Scheduled(r, first, past),
         e.snapshot <=> Len(r) > 0 /\ (first + Len(r)) % Interval = 0,
         e.covers = IF e.snapshot THEN past \cup EventsAmong(r, first, Len(r))
                    ELSE {first + Len(r) + 1}
  PROVE  /\ Scheduled(Append(r, e), first, past)
         /\ EventsAmong(Append(r, e), first, Len(r) + 1)
              = EventsAmong(r, first, Len(r))
                  \cup (IF e.snapshot THEN {} ELSE {first + Len(r) + 1})
<1>1. PICK s : s = Append(r, e)
  OBVIOUS
<1>2. PICK n \in Nat : n = Len(r)
  OBVIOUS
<1>3. /\ Len(s) = n + 1 /\ s[n + 1] = e
      /\ \A i \in 1..n : s[i] = r[i]
  BY <1>1, <1>2
<1>4. \A m \in 0..n : EventsAmong(s, first, m) = EventsAmong(r, first, m)
  <2>1. TAKE m \in 0..n
  <2>2. \A j \in 1..m : s[j] = r[j]
    BY <1>3
  <2>. QED
    BY <2>2, EventsAmongPrefix
<1>5. ASSUME NEW i \in 1..Len(s)
      PROVE  /\ s[i].snapshot <=> i > 1 /\ (first + i - 1) % Interval = 0
             /\ s[i].covers = IF s[i].snapshot
                              THEN past \cup EventsAmong(s, first, i - 1)
                              ELSE {first + i}
  <2>1. CASE i \in 1..n
    <3>1. s[i] = r[i] /\ EventsAmong(s, first, i - 1) = EventsAmong(r, first, i - 1)
      BY <1>3, <1>4, <2>1
    <3>2. /\ r[i].snapshot <=> i > 1 /\ (first + i - 1) % Interval = 0
          /\ r[i].covers = IF r[i].snapshot
                           THEN past \cup EventsAmong(r, first, i - 1)
                           ELSE {first + i}
      BY <1>2, <2>1 DEF Scheduled
    <3>. QED
      BY <3>1, <3>2
  <2>2. CASE i = n + 1
    <3>1. s[i] = e /\ i - 1 = n /\ first + i - 1 = first + n /\ first + i = first + n + 1
      BY <1>3, <2>2
    <3>2. EventsAmong(s, first, n) = EventsAmong(r, first, n)
      BY <1>4
    <3>3. i > 1 <=> n > 0
      BY <2>2
    <3>4. e.covers = IF e.snapshot THEN past \cup EventsAmong(r, first, n)
                     ELSE {first + n + 1}
      BY <1>2
    <3>5. e.snapshot <=> n > 0 /\ (first + n) % Interval = 0
      BY <1>2
    <3>. QED
      BY <3>1, <3>2, <3>3, <3>4, <3>5
  <2>. QED
    BY <1>3, <2>1, <2>2
<1>6. EventsAmong(s, first, n + 1)
        = EventsAmong(r, first, n) \cup (IF e.snapshot THEN {} ELSE {first + n + 1})
  <2>1. (first + 1)..(first + (n + 1)) = (first + 1)..(first + n) \cup {first + n + 1}
    OBVIOUS
  <2>2. s[(first + n + 1) - first] = e
    <3>1. (first + n + 1) - first = n + 1
      OBVIOUS
    <3>. QED
      BY <1>3, <3>1
  <2>3. EventsAmong(s, first, n + 1)
          = EventsAmong(s, first, n) \cup {v \in {first + n + 1} : ~s[v - first].snapshot}
    BY <2>1 DEF EventsAmong
  <2>4. {v \in {first + n + 1} : ~s[v - first].snapshot}
          = IF e.snapshot THEN {} ELSE {first + n + 1}
    BY <2>2
  <2>5. EventsAmong(s, first, n) = EventsAmong(r, first, n)
    BY <1>4
  <2>. QED
    BY <2>3, <2>4, <2>5
<1>. QED
  BY <1>1, <1>2, <1>5, <1>6 DEF Scheduled

(* Emitting one more event keeps the schedule. *)
LEMMA EmitOnSchedule ==
  ASSUME Interval > 1,
         NEW b, NEW i \in Nat, NEW first \in Nat, NEW expiry \in Nat, NEW past,
         Builds(b, i, first, expiry), BuildsOn(b, first, past)
  PROVE  BuildsOn(EmitOn(b, expiry), first, past)
<1> DEFINE r == b.records
<1>1. /\ r \in Seq(Record) /\ Len(r) \in Nat /\ b.version = first + Len(r)
      /\ b.state \subseteq Nat \ {0}
  BY DEF Builds, Run
<1>2. /\ Scheduled(r, first, past)
      /\ b.state = past \cup EventsAmong(r, first, Len(r))
      /\ r # <<>> => b.version % Interval # 0
  BY DEF BuildsOn
<1> HIDE DEF r
<1>3. PICK v, after :
        /\ v = b.version + 1 /\ v \in Nat \ {0} /\ v = first + Len(r) + 1
        /\ after = b.state \cup {v} /\ after \subseteq Nat \ {0}
  <2>1. b.version + 1 \in Nat \ {0} /\ b.version + 1 = first + Len(r) + 1
    BY <1>1
  <2>2. b.state \cup {b.version + 1} \subseteq Nat \ {0}
    BY <1>1, <2>1
  <2>. QED
    BY <2>1, <2>2
<1>4. PICK event : event = [version |-> v, covers |-> {v}, snapshot |-> FALSE,
                            expiry |-> expiry]
  OBVIOUS
<1>5. PICK snapshot : snapshot = [version |-> v + 1, covers |-> after, snapshot |-> TRUE,
                                  expiry |-> expiry]
  OBVIOUS
<1>6. /\ event \in Record /\ event.covers = {v} /\ event.snapshot = FALSE
      /\ snapshot \in Record /\ snapshot.covers = after /\ snapshot.snapshot = TRUE
  <2>1. v + 1 \in Nat \ {0} /\ {v} \subseteq Nat \ {0}
    BY <1>3
  <2>. QED
    BY <1>3, <1>4, <1>5, <2>1 DEF Record
<1>7. PICK one : one = Append(r, event)
  OBVIOUS
<1>8. /\ one \in Seq(Record) /\ Len(one) = Len(r) + 1 /\ one # <<>>
      /\ Scheduled(one, first, past)
      /\ after = past \cup EventsAmong(one, first, Len(one))
  <2>1. ~(Len(r) > 0 /\ (first + Len(r)) % Interval = 0)
    <3>1. Len(r) > 0 => r # <<>>
      BY <1>1
    <3>. QED
      BY <1>1, <1>2, <3>1
  <2>2. event.snapshot <=> Len(r) > 0 /\ (first + Len(r)) % Interval = 0
    BY <1>6, <2>1
  <2>3. event.covers = IF event.snapshot THEN past \cup EventsAmong(r, first, Len(r))
                       ELSE {first + Len(r) + 1}
    BY <1>3, <1>6
  <2>4. /\ Scheduled(Append(r, event), first, past)
        /\ EventsAmong(Append(r, event), first, Len(r) + 1)
             = EventsAmong(r, first, Len(r))
                 \cup (IF event.snapshot THEN {} ELSE {first + Len(r) + 1})
    BY <1>1, <1>2, <1>6, <2>2, <2>3, ScheduledAppend
  <2>5. Len(one) = Len(r) + 1 /\ one \in Seq(Record) /\ one # <<>>
    BY <1>1, <1>6, <1>7
  <2>6. after = (past \cup EventsAmong(r, first, Len(r))) \cup {v}
    BY <1>2, <1>3
  <2>. QED
    BY <1>3, <1>6, <1>7, <2>4, <2>5, <2>6
<1>9. CASE SnapshotDue(v)
  <2>1. PICK two : two = Append(one, snapshot)
    OBVIOUS
  <2>2. v = first + Len(one) /\ v % Interval = 0 /\ Len(one) > 0
    BY <1>1, <1>3, <1>8, <1>9 DEF SnapshotDue
  <2>3. /\ Scheduled(two, first, past)
        /\ EventsAmong(two, first, Len(one) + 1) = EventsAmong(one, first, Len(one))
    <3>1. snapshot.snapshot <=> Len(one) > 0 /\ (first + Len(one)) % Interval = 0
      BY <1>6, <2>2
    <3>2. snapshot.covers = IF snapshot.snapshot
                            THEN past \cup EventsAmong(one, first, Len(one))
                            ELSE {first + Len(one) + 1}
      BY <1>6, <1>8
    <3>3. /\ Scheduled(Append(one, snapshot), first, past)
          /\ EventsAmong(Append(one, snapshot), first, Len(one) + 1)
               = EventsAmong(one, first, Len(one))
                   \cup (IF snapshot.snapshot THEN {} ELSE {first + Len(one) + 1})
      BY <1>6, <1>8, <3>1, <3>2, ScheduledAppend
    <3>. QED
      BY <1>6, <2>1, <3>3
  <2>4. Len(two) = Len(one) + 1 /\ r \o <<event, snapshot>> = two
    BY <1>1, <1>6, <1>7, <1>8, <2>1, ConcatPair
  <2>5. EmitOn(b, expiry) = [records |-> two, version |-> v + 1, state |-> after]
    <3>1. b.records \o <<event, snapshot>> = two
      BY <2>4 DEF r
    <3>. QED
      BY <1>3, <1>4, <1>5, <1>9, <3>1, Zenon DEF EmitOn, NextVersion
  <2>6. (v + 1) % Interval # 0
    <3>1. Interval \in Nat \ {0}
      BY CloudAssumption
    <3>2. PICK k \in Nat : k = v + 1 /\ k > 1 /\ k - 1 = v
      BY <1>3
    <3>3. (k - 1) % Interval = 0
      BY <2>2, <3>2
    <3>4. k % Interval = 0 => Interval = 1
      BY <3>1, <3>2, <3>3, NeighboursAreMultiples
    <3>. QED
      BY <3>1, <3>2, <3>4
  <2>. QED
    BY <1>8, <2>3, <2>4, <2>5, <2>6 DEF BuildsOn
<1>10. CASE ~SnapshotDue(v)
  <2>1. EmitOn(b, expiry) = [records |-> one, version |-> v, state |-> after]
    <3>1. Append(b.records, event) = one
      BY <1>7 DEF r
    <3>. QED
      BY <1>3, <1>4, <1>10, <3>1, Zenon DEF EmitOn, NextVersion
  <2>2. v % Interval # 0
    BY <1>10 DEF SnapshotDue
  <2>. QED
    BY <1>8, <2>1, <2>2 DEF BuildsOn
<1>. QED
  BY <1>9, <1>10

LEMMA EmitsSchedule ==
  ASSUME Interval > 1,
         NEW start, NEW first \in Nat, NEW expiry \in Nat, NEW n \in Nat, NEW past,
         Builds(start, 0, first, expiry), BuildsOn(start, first, past),
         NEW f, Emits(f, start, expiry, n)
  PROVE  BuildsOn(f[n], first, past)
<1> DEFINE Good(i) == Builds(f[i], i, first, expiry) /\ BuildsOn(f[i], first, past)
           T == {i \in Nat : i <= n => Good(i)}
<1>1. 0 \in T
  <2>1. f[0] = start
    BY DEF Emits
  <2>. QED
    BY <2>1
<1>2. ASSUME NEW i \in T PROVE i + 1 \in T
  <2>1. SUFFICES ASSUME i + 1 <= n PROVE Good(i + 1)
    OBVIOUS
  <2>2. i \in Nat /\ Builds(f[i], i, first, expiry) /\ BuildsOn(f[i], first, past)
    BY <2>1
  <2>3. f[i + 1] = EmitOn(f[i], expiry)
    BY <2>1, <2>2 DEF Emits
  <2>4. Builds(EmitOn(f[i], expiry), i + 1, first, expiry)
    BY <2>2, EmitOnBuilds
  <2>5. BuildsOn(EmitOn(f[i], expiry), first, past)
    BY <2>2, EmitOnSchedule
  <2>. QED
    BY <2>3, <2>4, <2>5
<1>3. T = Nat
  <2> HIDE DEF T
  <2>1. T \in SUBSET Nat
    BY DEF T
  <2>. QED
    BY <1>1, <1>2, <2>1, SetInduction
<1>. QED
  BY <1>3

(* What a command emits keeps the schedule, and its snapshots sum up what  *)
(* the client had read and what the command emitted before them.           *)
LEMMA EmissionScheduled ==
  ASSUME Interval > 1,
         NEW c, NEW n \in Nat \ {0}, LastRead(c) \in Nat,
         Covers(got[c]) \subseteq Nat \ {0}, lifetime \in Nat, now \in Nat
  PROVE  Emitted(Emission(c, n), LastRead(c), Covers(got[c]))
<1> DEFINE past == Covers(got[c])
           start == [records |-> <<>>, version |-> LastRead(c), state |-> past]
           expiry == IF lifetime = 0 THEN 0 ELSE now + lifetime
           f == CHOOSE g : g = [i \in 0..n |-> IF i = 0 THEN start
                                               ELSE EmitOn(g[i - 1], expiry)]
<1>1. Emission(c, n) = f[n].records
  BY DEF Emission
<1>2. Emits(f, start, expiry, n)
  <2>1. \E g : Emits(g, start, expiry, n)
    BY EmitsExists
  <2> HIDE DEF start, expiry
  <2>. QED
    BY <2>1 DEF Emits
<1>3. expiry \in Nat
  OBVIOUS
<1> HIDE DEF f, expiry
<1>4. Builds(start, 0, LastRead(c), expiry)
  BY <1>3 DEF Builds, Run
<1>5. BuildsOn(start, LastRead(c), past)
  <2>1. EventsAmong(<<>>, LastRead(c), 0) = {}
    <3>1. (LastRead(c) + 1)..(LastRead(c) + 0) = {}
      OBVIOUS
    <3>. QED
      BY <3>1 DEF EventsAmong
  <2>2. Len(<<>>) = 0 /\ 1..0 = {}
    OBVIOUS
  <2>3. start.records = <<>> /\ start.state = past
    OBVIOUS
  <2> HIDE DEF start, past
  <2>. QED
    BY <2>1, <2>2, <2>3 DEF BuildsOn, Scheduled
<1> HIDE DEF start, past
<1>6. Builds(f[n], n, LastRead(c), expiry) /\ BuildsOn(f[n], LastRead(c), past)
  BY <1>2, <1>3, <1>4, <1>5, EmitsBuilds, EmitsSchedule
<1>7. /\ Len(f[n].records) >= n /\ f[n].records \in Seq(Record)
      /\ f[n].version = LastRead(c) + Len(f[n].records)
  BY <1>6 DEF Builds, Run
<1>8. f[n].records # <<>>
  BY <1>7
<1>. QED
  BY <1>1, <1>6, <1>7, <1>8 DEF BuildsOn, Emitted, past

(***************************************************************************)
(* What a client that is done reading knows.                               *)
(***************************************************************************)
(* The snapshot a tail begins with, or a later one. *)
LEMMA TailHoldsDue ==
  ASSUME NEW top \in Nat, top > Interval
  PROVE  \E i \in 1..Interval : Due(top - Interval + i)
<1>1. Interval \in Nat \ {0} /\ top - 1 \in Nat
  BY CloudAssumption
<1>2. PICK k \in top - 1 - Interval + 1..top - 1 : k % Interval = 0
  BY <1>1, MultipleInWindow
<1>3. PICK i \in 1..Interval : top - Interval + i = k + 1
  <2>1. k + 1 - top + Interval \in 1..Interval
    BY <1>1, <1>2
  <2>2. top - Interval + (k + 1 - top + Interval) = k + 1
    BY <1>1, <1>2
  <2>. QED
    BY <2>1, <2>2
<1>4. k + 1 > 1 /\ (k + 1) - 1 = k
  BY <1>1, <1>2
<1>. QED
  BY <1>2, <1>3, <1>4 DEF Due

(* The last snapshot of a window sums up what was before it.               *)
LEMMA WindowCovers ==
  ASSUME TypeOK, Whole, lifetime = 0, OnSchedule, LastStored \in Nat,
         NEW n \in Nat, NEW top \in Nat, n <= top, top <= LastStored,
         NEW records, records = [i \in 1..n |-> table[top - n + i]],
         n = top \/ \E i \in 1..n : table[top - n + i].snapshot
  PROVE  Covers(records) = EventsUpTo(top)
<1>1. DOMAIN table = 1..LastStored
  BY DEF Whole
<1>2. /\ everStored = {v \in DOMAIN table : ~table[v].snapshot}
      /\ \A v \in DOMAIN table :
           table[v].covers = IF table[v].snapshot THEN EventsUpTo(v - 1) ELSE {v}
  BY DEF OnSchedule
<1>3. DOMAIN records = 1..n
  OBVIOUS
<1>4. ASSUME NEW i \in 1..n
      PROVE  records[i] = table[top - n + i] /\ top - n + i \in DOMAIN table
  BY <1>1
<1>5. PICK start \in 0..n :
        /\ Covers(records) = UNION {records[i].covers : i \in {j \in DOMAIN records : j >= start}}
        /\ start # 0 => start \in 1..n /\ records[start].snapshot
        /\ \A i \in 1..n : records[i].snapshot => i <= start
  <2> DEFINE Snaps == {i \in DOMAIN records : records[i].snapshot}
  <2>1. Snaps \in SUBSET (1..n) /\ \A i \in 1..n : i \in Snaps <=> records[i].snapshot
    BY <1>3
  <2>2. Covers(records)
          = UNION {records[i].covers : i \in {j \in DOMAIN records : j >= LastOf(Snaps)}}
    BY DEF Covers
  <2>3. Snaps = {} => LastOf(Snaps) = 0
    BY DEF LastOf
  <2> HIDE DEF Snaps
  <2>4. /\ LastOf(Snaps) \in 0..n
        /\ Snaps # {} => LastOf(Snaps) \in Snaps
        /\ \A i \in Snaps : i <= LastOf(Snaps)
    BY <2>1, LastOfBounded
  <2>. QED
    BY <2>1, <2>2, <2>3, <2>4
<1>6. n # top => start # 0
  <2>1. SUFFICES ASSUME n # top PROVE start # 0
    OBVIOUS
  <2>2. PICK i \in 1..n : table[top - n + i].snapshot
    BY <2>1
  <2>3. records[i] = table[top - n + i]
    BY <1>4
  <2>4. i <= start
    BY <1>5, <2>2, <2>3
  <2>. QED
    BY <2>4
<1>7. start # 0 => /\ start \in 1..n /\ records[start].snapshot
                   /\ records[start].covers = EventsUpTo(top - n + start - 1)
  <2>1. SUFFICES ASSUME start # 0
                 PROVE  /\ start \in 1..n /\ records[start].snapshot
                        /\ records[start].covers = EventsUpTo(top - n + start - 1)
    OBVIOUS
  <2>2. start \in 1..n /\ records[start].snapshot
    BY <1>5, <2>1
  <2>3. PICK v \in DOMAIN table : v = top - n + start /\ records[start] = table[v]
    BY <1>4, <2>2
  <2>4. table[v].covers = EventsUpTo(v - 1)
    BY <1>2, <2>2, <2>3
  <2>5. v - 1 = top - n + start - 1
    BY <2>3
  <2>. QED
    BY <2>2, <2>3, <2>4, <2>5
<1>8. ASSUME NEW i \in 1..n, i > start
       PROVE  records[i].covers = {top - n + i} /\ top - n + i \in everStored
  <2>1. ~records[i].snapshot
    BY <1>5, <1>8
  <2>. QED
    BY <1>2, <1>4, <2>1
<1>9. ASSUME NEW w \in Covers(records) PROVE w \in EventsUpTo(top)
  <2>1. PICK i \in 1..n : i >= start /\ w \in records[i].covers
    BY <1>3, <1>5, <1>9
  <2>2. CASE i = start
    <3>1. w \in EventsUpTo(top - n + start - 1)
      BY <1>7, <2>1, <2>2
    <3>2. w \in everStored /\ w <= top - n + start - 1 /\ w \in Nat
      BY <3>1 DEF EventsUpTo, TypeOK
    <3>. QED
      BY <1>5, <3>2 DEF EventsUpTo
  <2>3. CASE i # start
    <3>1. w = top - n + i /\ w \in everStored
      <4>1. i > start
        BY <2>1, <2>3
      <4>2. records[i].covers = {top - n + i} /\ top - n + i \in everStored
        BY <1>8, <4>1
      <4>. QED
        BY <2>1, <4>2
    <3>. QED
      BY <3>1 DEF EventsUpTo
  <2>. QED
    BY <2>2, <2>3
<1>10. ASSUME NEW w \in EventsUpTo(top) PROVE w \in Covers(records)
  <2>1. w \in everStored /\ w <= top /\ w \in 1..LastStored
    BY <1>1, <1>2 DEF EventsUpTo
  <2>2. CASE w > top - n + start - 1
    <3>1. PICK i \in Int : i = w - top + n
      BY <2>1
    <3>2. i \in 1..n /\ i >= start /\ w = top - n + i
      <4>1. start = 0 => n = top
        BY <1>6
      <4>. QED
        BY <1>5, <2>1, <2>2, <3>1, <4>1
    <3>3. i # start
      <4>1. SUFFICES ASSUME i = start PROVE FALSE
        OBVIOUS
      <4>2. table[w].snapshot
        BY <1>4, <1>7, <3>2, <4>1
      <4>. QED
        BY <1>2, <2>1, <4>2
    <3>4. w \in records[i].covers
      <4>1. i > start
        BY <3>2, <3>3
      <4>2. records[i].covers = {top - n + i}
        BY <1>8, <3>2, <4>1
      <4>. QED
        BY <3>2, <4>2
    <3>. QED
      BY <1>3, <1>5, <3>2, <3>4
  <2>3. CASE ~(w > top - n + start - 1)
    <3>1. start # 0
      BY <1>5, <1>6, <2>1, <2>3
    <3>2. w \in EventsUpTo(top - n + start - 1)
      BY <1>5, <2>1, <2>3 DEF EventsUpTo
    <3>3. w \in records[start].covers
      BY <1>7, <3>1, <3>2
    <3>4. start \in {j \in DOMAIN records : j >= start}
      BY <1>3, <1>7, <3>1
    <3>5. Covers(records)
            = UNION {records[i].covers : i \in {j \in DOMAIN records : j >= start}}
      BY <1>5
    <3>. QED
      BY <3>3, <3>4, <3>5
  <2>. QED
    BY <2>2, <2>3
<1>. QED
  BY <1>9, <1>10

(* A stream on schedule is known completely from what a client reads of    *)
(* it.                                                                     *)
LEMMA ReadyCovers ==
  ASSUME StoreInv, lifetime = 0, OnSchedule, NEW c \in Clients, pc[c] = "ready"
  PROVE  Covers(got[c]) = EventsUpTo(LastRead(c))
<1>1. TypeOK /\ Bounded /\ Whole /\ Reading(c)
  BY DEF StoreInv, ClientInv
<1>2. /\ LastRead(c) \in Nat /\ LastStored \in Nat /\ Len(got[c]) \in Nat
      /\ mode[c] \in {"tail", "all"} /\ Interval \in Nat \ {0}
  BY <1>1, LastReadNat, LastStoredNat, CloudAssumption DEF TypeOK
<1>3. PICK top \in Nat, n \in Nat : top = LastRead(c) /\ n = Len(got[c])
  BY <1>2
<1>4. /\ n <= top /\ top <= LastStored
      /\ got[c] = [i \in 1..n |-> table[top - n + i]]
      /\ n \in {Interval, top}
  BY <1>1, <1>2, <1>3 DEF Reading
<1>5. n = top \/ \E i \in 1..n : table[top - n + i].snapshot
  <2>1. SUFFICES ASSUME n # top PROVE \E i \in 1..n : table[top - n + i].snapshot
    OBVIOUS
  <2>2. n = Interval /\ top > Interval
    BY <1>2, <1>4, <2>1
  <2>3. PICK i \in 1..Interval : Due(top - Interval + i)
    BY <2>2, TailHoldsDue
  <2>4. top - n + i \in DOMAIN table
    BY <1>1, <1>2, <1>4, <2>2 DEF Whole
  <2>. QED
    BY <2>2, <2>3, <2>4 DEF OnSchedule
<1>6. PICK records : records = got[c]
  OBVIOUS
<1>7. Covers(records) = EventsUpTo(top)
  BY <1>1, <1>2, <1>4, <1>5, <1>6, WindowCovers
<1>. QED
  BY <1>3, <1>6, <1>7

(***************************************************************************)
(* Steps that store nothing.                                               *)
(***************************************************************************)
(* A client goes on with its save as before. *)
SavesOn(d) == pc'[d] = pc[d] /\ batch'[d] = batch[d] /\ done'[d] = done[d]

(* A client is not between two batches, before or after. *)
Outside(d) ==
  /\ done[d] = 0 /\ done'[d] = 0
  /\ lifetime = 0 /\ ~Broken => InStep(d)'

LEMMA NothingStored ==
  ASSUME StoreInv, ScheduleInv, UNCHANGED <<lifetime, table, everStored, torn>>,
         \A d \in Clients : SavesOn(d) \/ Outside(d)
  PROVE  ScheduleInv'
<1>1. SUFFICES ASSUME lifetime = 0, ~Broken'
               PROVE  OnSchedule' /\ Awaited' /\ \A c \in Clients : InStep(c)'
  BY DEF ScheduleInv
<1>2. ASSUME NEW d \in Clients, Overtaken(d) PROVE Overtaken(d)'
  <2>1. SavesOn(d)
    <3>1. done[d] # 0
      BY <1>2 DEF Overtaken, StoreInv, TypeOK
    <3>. QED
      BY <3>1 DEF Outside
  <2>. QED
    BY <1>2, <2>1 DEF Overtaken, SavesOn
<1>3. ~Broken
  BY <1>1, <1>2 DEF Broken
<1>4. OnSchedule /\ Awaited /\ \A c \in Clients : InStep(c)
  BY <1>1, <1>3 DEF ScheduleInv
<1>5. LastStored' = LastStored /\ \A v : EventsUpTo(v)' = EventsUpTo(v)
  BY DEF LastStored, EventsUpTo
<1>6. OnSchedule'
  BY <1>4, <1>5 DEF OnSchedule, Due
<1>7. Awaited'
  <2>1. SUFFICES ASSUME LastStored > 0, LastStored % Interval = 0
                 PROVE  \E d \in Clients :
                          done'[d] > 0 /\ batch'[d][done'[d] + 1].version = LastStored + 1
    BY <1>5 DEF Awaited
  <2>2. PICK d \in Clients :
          done[d] > 0 /\ batch[d][done[d] + 1].version = LastStored + 1
    BY <1>4, <2>1 DEF Awaited
  <2>3. SavesOn(d)
    <3>1. done[d] # 0
      BY <2>2 DEF StoreInv, TypeOK
    <3>. QED
      BY <3>1 DEF Outside
  <2>. QED
    BY <2>2, <2>3 DEF SavesOn
<1>8. ASSUME NEW d \in Clients PROVE InStep(d)'
  <2>1. CASE SavesOn(d)
    <3>1. SUFFICES ASSUME pc[d] = "write" PROVE InStep(d)'
      BY <2>1 DEF InStep, SavesOn
    <3>2. PICK first \in Nat :
            /\ Run(batch[d], first, 0)
            /\ first + done[d] <= LastStored
            /\ Emitted(batch[d], first, EventsUpTo(first))
      BY <1>4, <3>1 DEF InStep
    <3>3. /\ Run(batch'[d], first, 0)
          /\ first + done'[d] <= LastStored'
          /\ Emitted(batch'[d], first, EventsUpTo(first)')
      BY <1>5, <2>1, <3>2 DEF SavesOn
    <3>. QED
      BY <3>3 DEF InStep
  <2>2. CASE Outside(d)
    BY <1>1, <1>3, <2>2 DEF Outside
  <2>. QED
    BY <2>1, <2>2
<1>. QED
  BY <1>6, <1>7, <1>8

(* A client leaves without having stored anything, or what it stored is    *)
(* called torn.                                                            *)
LEMMA LeaveSchedule ==
  ASSUME StoreInv, ScheduleInv, NEW c \in Clients, Leave(c),
         UNCHANGED <<lifetime, table, everStored>>,
         done[c] = 0 => torn' = torn, done[c] # 0 => torn' = TRUE
  PROVE  ScheduleInv'
<1>1. CASE done[c] = 0
  <2>1. \A d \in Clients \ {c} : SavesOn(d)
    BY DEF StoreInv, TypeOK, Leave, SavesOn
  <2>2. Outside(c)
    BY <1>1 DEF StoreInv, TypeOK, Leave, Outside, InStep
  <2>. QED
    BY <1>1, <2>1, <2>2, NothingStored
<1>2. CASE done[c] # 0
  BY <1>2 DEF ScheduleInv, Broken
<1>. QED
  BY <1>1, <1>2

LEMMA AbandonSchedule ==
  ASSUME StoreInv, ScheduleInv, NEW c \in Clients, pc[c] # "idle", Abandon(c, done[c]),
         UNCHANGED <<lifetime, table, everStored>>
  PROVE  ScheduleInv'
<1>1. /\ done[c] \in Nat /\ batch[c] \in Seq(Record) /\ torn \in BOOLEAN
      /\ pc[c] # "write" => done[c] = 0
      /\ pc[c] = "write" => done[c] < Len(batch[c])
  BY DEF StoreInv, TypeOK, ClientInv, Fresh, Writing
<1>2. done[c] # 0 => done[c] \in 1..Len(batch[c]) - 1
  BY <1>1
<1>3. done[c] = 0 => torn' = torn
  BY <1>1 DEF Abandon
<1>4. done[c] # 0 => torn' = TRUE
  BY <1>2 DEF Abandon
<1>. QED
  BY <1>3, <1>4, LeaveSchedule DEF Abandon

LEMMA EmitSchedule ==
  ASSUME Interval > 1, StoreInv, ScheduleInv, NEW c \in Clients, Emit(c)
  PROVE  ScheduleInv'
<1>1. TypeOK /\ Bounded /\ Whole /\ ClientInv(c) /\ pc[c] = "ready" /\ done[c] = 0
  BY DEF StoreInv, Emit, ClientInv, Fresh
<1>2. PICK n \in EventCounts : batch' = [batch EXCEPT ![c] = Emission(c, n)]
  BY DEF Emit
<1>3. /\ LastRead(c) \in Nat /\ LastStored \in Nat /\ lifetime \in Nat /\ now \in Nat
      /\ n \in Nat \ {0} /\ got[c] \in Seq(Record)
  BY <1>1, LastReadNat, LastStoredNat, CloudAssumption DEF TypeOK
<1>4. Covers(got[c]) \subseteq Nat \ {0}
  <2>1. \A i \in DOMAIN got[c] : got[c][i] \in Record
    BY <1>3
  <2>2. \A i \in DOMAIN got[c] : got[c][i].covers \subseteq Nat \ {0}
    BY <2>1 DEF Record
  <2>. QED
    BY <2>2 DEF Covers
<1> DEFINE emission == Emission(c, n)
<1>5. PICK expiry \in Nat :
        (lifetime = 0 => expiry = 0) /\ Run(emission, LastRead(c), expiry)
  BY <1>3, <1>4, EmissionRuns
<1>6. Emitted(emission, LastRead(c), Covers(got[c]))
  BY <1>3, <1>4, EmissionScheduled
<1>7. batch'[c] = emission /\ done'[c] = 0
  BY <1>1, <1>2 DEF TypeOK, Emit
<1> HIDE DEF emission
<1>8. \A d \in Clients \ {c} : SavesOn(d)
  BY <1>1 DEF TypeOK, Emit, SavesOn
<1>9. UNCHANGED <<lifetime, table, everStored, torn>>
  BY DEF Emit
<1>10. Outside(c)
  <2>1. SUFFICES ASSUME lifetime = 0, ~Broken PROVE InStep(c)'
    BY <1>1, <1>7 DEF Outside
  <2>2. OnSchedule
    BY <2>1 DEF ScheduleInv
  <2>3. Covers(got[c]) = EventsUpTo(LastRead(c))
    BY <1>1, <2>1, <2>2, ReadyCovers
  <2>4. LastRead(c) <= LastStored
    BY <1>1, <2>1 DEF ClientInv, Reading
  <2>5. LastStored' = LastStored
    BY <1>9 DEF LastStored
  <2>6. PICK first \in Nat : first = LastRead(c)
    BY <1>3
  <2>7. EventsUpTo(first)' = EventsUpTo(first)
    BY <1>9 DEF EventsUpTo
  <2>8. /\ Run(batch'[c], first, 0)
        /\ first + done'[c] <= LastStored'
        /\ Emitted(batch'[c], first, EventsUpTo(first)')
    BY <1>3, <1>5, <1>6, <1>7, <2>1, <2>3, <2>4, <2>5, <2>6, <2>7
  <2>. QED
    BY <2>8 DEF InStep
<1>. QED
  BY <1>8, <1>9, <1>10, NothingStored

(***************************************************************************)
(* Batches that are stored.                                                *)
(***************************************************************************)
(* The next batch goes right behind the last record; the records so far,   *)
(* and those of the batch, are where the emission has them.                *)
LEMMA BatchPlaced ==
  ASSUME StoreInv, NEW c \in Clients, pc[c] = "write", lifetime = 0,
         Accepts(NextBatch(c)), Store(NextBatch(c)), UNCHANGED <<lifetime, now>>,
         NEW first \in Nat, Run(batch[c], first, 0), first + done[c] <= LastStored,
         NEW written, written = done[c] + Len(NextBatch(c))
  PROVE  /\ written \in 1..Len(batch[c]) /\ done[c] < written
         /\ LastStored = first + done[c]
         /\ DOMAIN table = 1..(first + done[c])
         /\ LastStored' = first + written
         /\ DOMAIN table' = 1..(first + written)
         /\ \A v \in DOMAIN table : table'[v] = table[v]
         /\ \A j \in 1..written : table'[first + j] = batch[c][j]
         /\ everStored' = everStored \cup
              {v \in (first + done[c] + 1)..(first + written) : ~batch[c][v - first].snapshot}
<1>1. /\ TypeOK /\ Bounded /\ Whole /\ Writing(c)
      /\ done[c] \in Nat /\ batch[c] \in Seq(Record) /\ done[c] < Len(batch[c])
      /\ LastStored \in Nat
  BY LastStoredNat DEF StoreInv, ClientInv, Writing, TypeOK
<1>2. PICK d \in Nat, l \in Nat : d = done[c] /\ l = Len(batch[c])
  BY <1>1
<1>3. PICK next : next = NextBatch(c)
  OBVIOUS
<1>4. PICK p \in Nat \ {0} :
        /\ p = Len(next) /\ next \in Seq(Record) /\ d + p <= l /\ written = d + p
        /\ \A i \in 1..p : next[i] = batch[c][d + i]
  BY <1>1, <1>2, <1>3, NextBatchShape
<1>5. \A j \in 1..l : batch[c][j].version = first + j /\ batch[c][j].expiry = 0
  BY <1>2 DEF Run
<1>6. \A i \in 1..p : next[i].version = first + d + i
  <2>1. TAKE i \in 1..p
  <2>2. PICK j \in 1..l : j = d + i
    BY <1>4
  <2>3. first + j = first + d + i
    BY <2>2
  <2>4. next[i] = batch[c][j]
    BY <1>4, <2>2
  <2>. QED
    BY <1>5, <2>3, <2>4
<1>7. DOMAIN table = 1..LastStored
  BY <1>1 DEF Whole
<1>8. VersionsOf(next) = (first + d + 1)..(first + written)
  <2>1. DOMAIN next = 1..p
    BY <1>4
  <2>2. ASSUME NEW v \in (first + d + 1)..(first + written) PROVE v \in VersionsOf(next)
    <3>1. PICK i \in 1..p : v = first + d + i
      <4>1. v - first - d \in 1..p /\ v = first + d + (v - first - d)
        BY <1>4
      <4>. QED
        BY <4>1
    <3>. QED
      BY <1>6, <2>1, <3>1 DEF VersionsOf
  <2>3. ASSUME NEW v \in VersionsOf(next) PROVE v \in (first + d + 1)..(first + written)
    <3>1. PICK i \in 1..p : v = first + d + i
      BY <1>6, <2>1 DEF VersionsOf
    <3>. QED
      BY <1>4, <3>1
  <2>. QED
    BY <2>2, <2>3
<1>9. LastStored = first + d
  <2>1. first + d + 1 \notin 1..LastStored
    <3>1. first + d + 1 \in (first + d + 1)..(first + written)
      BY <1>4
    <3>. QED
      BY <1>3, <1>7, <1>8, <3>1 DEF Accepts
  <2>2. LastStored < first + d + 1
    BY <1>1, <2>1
  <2>3. first + d <= LastStored
    BY <1>2
  <2>. QED
    BY <1>1, <2>2, <2>3
<1>10. DOMAIN table' = 1..(first + written)
  <2>1. DOMAIN table' = DOMAIN table \cup VersionsOf(next)
    BY <1>3 DEF Store
  <2>. QED
    BY <1>4, <1>7, <1>8, <1>9, <2>1
<1>11. LastStored' = first + written
  <2>1. PICK top \in Nat : top = first + written
    BY <1>4
  <2>2. LastOf(1..top) = top
    BY LastOfInterval
  <2>. QED
    BY <1>10, <2>1, <2>2 DEF LastStored
<1>12. \A v \in DOMAIN table : table'[v] = table[v]
  BY <1>3 DEF Store, Accepts
<1>13. ASSUME NEW j \in 1..written PROVE table'[first + j] = batch[c][j]
  <2>1. \A i \in 1..written : Expired(batch[c][i], now') \/ WillBeStored(batch[c][i])
    BY <1>3, <1>4, BatchOf
  <2>2. j \in 1..l
    BY <1>2, <1>4
  <2>3. batch[c][j].version = first + j /\ batch[c][j].expiry = 0
    BY <1>5, <2>2
  <2>. QED
    BY <2>1, <2>3 DEF Expired, WillBeStored
<1>14. {next[i].version : i \in {j \in DOMAIN next : ~next[j].snapshot}}
         = {v \in (first + d + 1)..(first + written) : ~batch[c][v - first].snapshot}
  <2> DEFINE new == {next[i].version : i \in {j \in DOMAIN next : ~next[j].snapshot}}
             said == {v \in (first + d + 1)..(first + written) : ~batch[c][v - first].snapshot}
  <2>1. DOMAIN next = 1..p
    BY <1>4
  <2>2. \A i \in 1..p : next[i] = batch[c][(first + d + i) - first]
    <3>1. TAKE i \in 1..p
    <3>2. (first + d + i) - first = d + i
      OBVIOUS
    <3>. QED
      BY <1>4, <3>2
  <2>3. ASSUME NEW v \in new PROVE v \in said
    <3>1. PICK i \in 1..p : v = first + d + i /\ ~next[i].snapshot
      BY <1>6, <2>1
    <3>2. v \in (first + d + 1)..(first + written)
      BY <1>4, <3>1
    <3>. QED
      BY <2>2, <3>1, <3>2
  <2>4. ASSUME NEW v \in said PROVE v \in new
    <3>1. v \in (first + d + 1)..(first + written) /\ ~batch[c][v - first].snapshot
      OBVIOUS
    <3>2. PICK i \in 1..p : v = first + d + i
      <4>1. v - first - d \in 1..p /\ v = first + d + (v - first - d)
        BY <1>4, <3>1
      <4>. QED
        BY <4>1
    <3>3. ~next[i].snapshot /\ next[i].version = v
      BY <1>6, <2>2, <3>1, <3>2
    <3>. QED
      BY <2>1, <3>3
  <2>. QED
    BY <2>3, <2>4
<1>15. everStored' = everStored \cup
         {v \in (first + d + 1)..(first + written) : ~batch[c][v - first].snapshot}
  BY <1>3, <1>14 DEF Store
<1>16. written \in 1..Len(batch[c]) /\ done[c] < written
  BY <1>2, <1>4
<1>17. LastStored = first + done[c] /\ DOMAIN table = 1..(first + done[c])
  BY <1>2, <1>7, <1>9
<1>18. everStored' = everStored \cup
         {v \in (first + done[c] + 1)..(first + written) : ~batch[c][v - first].snapshot}
  BY <1>2, <1>15
<1>. QED
  BY <1>10, <1>11, <1>12, <1>13, <1>16, <1>17, <1>18

(* Nobody is overtaken by a step that leaves nobody overtaken. *)
LEMMA StoredUnbroken ==
  ASSUME StoreInv, NEW c \in Clients, pc[c] = "write", ~Broken', torn' = torn,
         Accepts(NextBatch(c)), Store(NextBatch(c)),
         \A d \in Clients \ {c} : Apart(d)
  PROVE  ~Broken
<1>1. DOMAIN table \subseteq DOMAIN table'
  BY DEF Store
<1>2. ASSUME NEW d \in Clients \ {c}, Overtaken(d) PROVE FALSE
  <2>1. Overtaken(d)'
    BY <1>1, <1>2 DEF Overtaken, Apart
  <2>. QED
    BY <2>1 DEF Broken
<1>3. ~Overtaken(c)
  <2>1. TypeOK /\ done[c] < Len(batch[c]) /\ done[c] \in Nat
    BY DEF StoreInv, ClientInv, Writing, TypeOK
  <2>2. /\ NextBatch(c) \in Seq(Record) /\ Len(NextBatch(c)) \in Nat \ {0}
        /\ \A i \in 1..Len(NextBatch(c)) : NextBatch(c)[i] = batch[c][done[c] + i]
    BY <2>1, NextBatchShape
  <2>3. 1 \in DOMAIN NextBatch(c) /\ NextBatch(c)[1] = batch[c][done[c] + 1]
    BY <2>2
  <2>4. batch[c][done[c] + 1].version \in VersionsOf(NextBatch(c))
    BY <2>3 DEF VersionsOf
  <2>. QED
    BY <2>4 DEF Accepts, Overtaken
<1>. QED
  BY <1>2, <1>3 DEF Broken

(* What was stored keeps the schedule: an event that took the place of a   *)
(* snapshot would leave whoever is about to write that one overtaken.      *)
LEMMA BatchOnSchedule ==
  ASSUME StoreInv, ScheduleInv, NEW c \in Clients, pc[c] = "write", lifetime = 0,
         ~Broken', torn' = torn,
         Accepts(NextBatch(c)), Store(NextBatch(c)), UNCHANGED <<lifetime, now>>,
         \A d \in Clients \ {c} : Apart(d),
         NEW written, written = done[c] + Len(NextBatch(c))
  PROVE  /\ OnSchedule'
         /\ LastStored' >= LastStored
         /\ \A n \in 0..LastStored : EventsUpTo(n)' = EventsUpTo(n)
         /\ \A d \in Clients \ {c} : InStep(d)
         /\ \E first \in Nat :
              /\ Run(batch[c], first, 0)
              /\ LastStored = first + done[c] /\ LastStored' = first + written
              /\ Emitted(batch[c], first, EventsUpTo(first))
<1>1. ~Broken
  BY StoredUnbroken
<1>2. OnSchedule /\ Awaited /\ \A d \in Clients : InStep(d)
  BY <1>1 DEF ScheduleInv
<1>3. PICK first \in Nat :
        /\ Run(batch[c], first, 0)
        /\ first + done[c] <= LastStored
        /\ Emitted(batch[c], first, EventsUpTo(first))
  BY <1>2 DEF InStep
<1>4. PICK s, d : s = batch[c] /\ d = done[c]
  OBVIOUS
<1>5. /\ d \in Nat /\ s \in Seq(Record) /\ Len(s) \in Nat
      /\ everStored \subseteq Nat
  BY <1>4 DEF StoreInv, TypeOK
<1>6. /\ written \in 1..Len(s) /\ d < written
      /\ LastStored = first + d
      /\ DOMAIN table = 1..(first + d)
      /\ LastStored' = first + written
      /\ DOMAIN table' = 1..(first + written)
      /\ \A v \in DOMAIN table : table'[v] = table[v]
      /\ \A j \in 1..written : table'[first + j] = s[j]
      /\ everStored' = everStored \cup
           {v \in (first + d + 1)..(first + written) : ~s[v - first].snapshot}
  BY <1>3, <1>4, BatchPlaced
<1>7. /\ everStored = {v \in 1..(first + d) : ~table[v].snapshot}
      /\ \A v \in 1..(first + d) :
           /\ table[v].snapshot <=> Due(v)
           /\ table[v].covers = IF table[v].snapshot THEN EventsUpTo(v - 1) ELSE {v}
  BY <1>2, <1>6 DEF OnSchedule
<1>8. ASSUME NEW n \in 0..(first + d) PROVE EventsUpTo(n)' = EventsUpTo(n)
  BY <1>5, <1>6 DEF EventsUpTo
<1>9. ASSUME NEW v \in (first + d + 1)..(first + written)
      PROVE  \E j \in 1..written : j > d /\ v = first + j /\ j = v - first
  <2>1. v - first \in 1..written /\ v - first > d /\ v = first + (v - first)
    BY <1>5, <1>6
  <2>. QED
    BY <2>1
<1>10. \A j \in 1..written :
         /\ s[j].snapshot <=> j > 1 /\ (first + j - 1) % Interval = 0
         /\ s[j].covers = IF s[j].snapshot
                          THEN EventsUpTo(first) \cup EventsAmong(s, first, j - 1)
                          ELSE {first + j}
  <2>1. \A j \in 1..written : j \in 1..Len(s)
    BY <1>5, <1>6
  <2>2. Scheduled(s, first, EventsUpTo(first))
    BY <1>3, <1>4 DEF Emitted
  <2>. QED
    BY <2>1, <2>2 DEF Scheduled
<1>11. everStored' = {v \in 1..(first + written) : ~table'[v].snapshot}
  <2>1. ASSUME NEW v \in 1..(first + written)
        PROVE  v \in everStored' <=> ~table'[v].snapshot
    <3>1. CASE v \in 1..(first + d)
      <4>1. v \notin (first + d + 1)..(first + written)
        BY <1>5, <3>1
      <4>. QED
        BY <1>6, <1>7, <3>1, <4>1
    <3>2. CASE v \in (first + d + 1)..(first + written)
      <4>1. v \notin everStored
        BY <1>5, <1>7, <3>2
      <4>2. PICK j \in 1..written : v = first + j /\ j = v - first
        BY <1>9, <3>2
      <4>3. table'[v] = s[v - first]
        BY <1>6, <4>2
      <4>. QED
        BY <1>6, <3>2, <4>1, <4>3
    <3>. QED
      BY <1>5, <1>6, <3>1, <3>2
  <2>2. everStored' \subseteq 1..(first + written)
    <3>1. 1..(first + d) \subseteq 1..(first + written)
      BY <1>5, <1>6
    <3>2. (first + d + 1)..(first + written) \subseteq 1..(first + written)
      BY <1>5, <1>6
    <3>. QED
      BY <1>6, <1>7, <3>1, <3>2
  <2>. QED
    BY <2>1, <2>2
<1>12. ASSUME NEW j \in 1..written, j > d
       PROVE  s[j].snapshot <=> Due(first + j)
  <2>1. s[j].snapshot <=> j > 1 /\ (first + j - 1) % Interval = 0
    BY <1>10
  <2>2. CASE j > 1
    BY <2>1, <2>2 DEF Due
  <2>3. CASE j = 1
    <3>1. d = 0 /\ ~s[j].snapshot /\ first + j - 1 = LastStored
      BY <1>5, <1>6, <1>12, <2>1, <2>3
    <3>2. SUFFICES ASSUME Due(first + j) PROVE FALSE
      BY <3>1
    <3>3. LastStored > 0 /\ LastStored % Interval = 0
      BY <1>6, <2>3, <3>1, <3>2 DEF Due
    <3>4. PICK e \in Clients :
            done[e] > 0 /\ batch[e][done[e] + 1].version = LastStored + 1
      BY <1>2, <3>3 DEF Awaited
    <3>5. e \in Clients \ {c}
      <4>1. done[c] = 0
        BY <1>4, <3>1
      <4>2. SUFFICES ASSUME e = c PROVE FALSE
        OBVIOUS
      <4>3. 0 > 0
        BY <3>4, <4>1, <4>2
      <4>. QED
        BY <4>3
    <3>6. LastStored + 1 \in DOMAIN table'
      BY <1>5, <1>6, <3>1
    <3>7. Overtaken(e)'
      BY <3>4, <3>5, <3>6 DEF Overtaken, Apart
    <3>. QED
      BY <3>7 DEF Broken
  <2>. QED
    BY <2>2, <2>3
<1>13. ASSUME NEW j \in 1..written, j > d, s[j].snapshot
       PROVE  s[j].covers = EventsUpTo(first + j - 1)'
  <2>1. s[j].covers = EventsUpTo(first) \cup EventsAmong(s, first, j - 1)
    BY <1>10, <1>13
  <2>2. \A v \in Nat : v \in EventsUpTo(first + j - 1)' <=> v \in everStored' /\ v <= first + j - 1
    BY DEF EventsUpTo
  <2>3. ASSUME NEW v \in EventsUpTo(first) PROVE v \in EventsUpTo(first + j - 1)'
    BY <1>5, <1>6, <2>3 DEF EventsUpTo
  <2>4. ASSUME NEW v \in EventsAmong(s, first, j - 1) PROVE v \in EventsUpTo(first + j - 1)'
    <3>1. v \in (first + 1)..(first + (j - 1)) /\ ~s[v - first].snapshot
      BY DEF EventsAmong
    <3>2. PICK k \in 1..written : k = v - first /\ v = first + k
      <4>1. first \in Nat /\ j \in 1..written /\ written \in Nat
        BY <1>6, <1>13
      <4>2. v \in Int /\ first + 1 <= v /\ v <= first + (j - 1)
        BY <3>1, <4>1
      <4>3. v - first \in 1..written /\ v = first + (v - first)
        BY <4>1, <4>2
      <4>. QED
        BY <4>3
    <3>3. table'[v] = s[k] /\ ~s[k].snapshot /\ v \in 1..(first + written)
      BY <1>6, <3>1, <3>2
    <3>4. v \in everStored'
      BY <1>11, <3>3
    <3>5. v <= first + j - 1 /\ v \in Nat
      BY <3>1
    <3>. QED
      BY <2>2, <3>4, <3>5
  <2>5. ASSUME NEW v \in EventsUpTo(first + j - 1)'
        PROVE  v \in EventsUpTo(first) \cup EventsAmong(s, first, j - 1)
    <3>1. v \in everStored' /\ v <= first + j - 1 /\ v \in 1..(first + written)
      BY <1>11 DEF EventsUpTo
    <3>2. CASE v <= first
      <4>1. v \notin (first + d + 1)..(first + written)
        BY <1>5, <3>2
      <4>2. v \in everStored
        BY <1>6, <3>1, <4>1
      <4>. QED
        BY <3>2, <4>2 DEF EventsUpTo
    <3>3. CASE ~(v <= first)
      <4>1. PICK k \in 1..written : k = v - first /\ v = first + k
        <5>1. v - first \in 1..written /\ v = first + (v - first)
          BY <1>6, <3>1, <3>3
        <5>. QED
          BY <5>1
      <4>2. ~table'[v].snapshot /\ table'[v] = s[k]
        BY <1>6, <1>11, <3>1, <4>1
      <4>3. v \in (first + 1)..(first + (j - 1))
        BY <3>1, <3>3
      <4>. QED
        BY <4>1, <4>2, <4>3 DEF EventsAmong
    <3>. QED
      BY <3>2, <3>3
  <2>. QED
    BY <2>1, <2>3, <2>4, <2>5
<1>14. ASSUME NEW v \in 1..(first + written)
       PROVE  /\ table'[v].snapshot <=> Due(v)
              /\ table'[v].covers = IF table'[v].snapshot THEN EventsUpTo(v - 1)' ELSE {v}
  <2>1. CASE v \in 1..(first + d)
    <3>1. table'[v] = table[v] /\ v - 1 \in 0..(first + d)
      BY <1>6, <2>1
    <3>2. EventsUpTo(v - 1)' = EventsUpTo(v - 1)
      BY <1>8, <3>1
    <3>. QED
      BY <1>7, <2>1, <3>1, <3>2
  <2>2. CASE v \in (first + d + 1)..(first + written)
    <3>1. PICK j \in 1..written : j > d /\ v = first + j
      BY <1>9, <2>2
    <3>2. table'[v] = s[j] /\ v - 1 = first + j - 1
      BY <1>6, <3>1
    <3>3. s[j].snapshot <=> Due(v)
      BY <1>12, <3>1
    <3>4. s[j].snapshot => s[j].covers = EventsUpTo(first + j - 1)'
      BY <1>13, <3>1
    <3>5. ~s[j].snapshot => s[j].covers = {v}
      BY <1>10, <3>1
    <3>. QED
      BY <3>2, <3>3, <3>4, <3>5
  <2>. QED
    BY <1>5, <1>6, <2>1, <2>2
<1>15. OnSchedule'
  BY <1>6, <1>11, <1>14 DEF OnSchedule, Due
<1>16. LastStored' >= LastStored
  BY <1>5, <1>6
<1>17. \A n \in 0..LastStored : EventsUpTo(n)' = EventsUpTo(n)
  BY <1>6, <1>8
<1>18. /\ Run(batch[c], first, 0)
       /\ LastStored = first + done[c] /\ LastStored' = first + written
       /\ Emitted(batch[c], first, EventsUpTo(first))
  BY <1>3, <1>4, <1>6
<1>19. \A e \in Clients \ {c} : InStep(e)
  BY <1>2
<1>. QED
  BY <1>15, <1>16, <1>17, <1>18, <1>19

(* Others are in step with a stream that has grown. *)
LEMMA OthersInStep ==
  ASSUME NEW d \in Clients, InStep(d), Apart(d), LastStored \in Nat, LastStored' \in Nat,
         done[d] \in Nat, LastStored' >= LastStored,
         \A n \in 0..LastStored : EventsUpTo(n)' = EventsUpTo(n)
  PROVE  InStep(d)'
<1>1. SUFFICES ASSUME pc[d] = "write" PROVE InStep(d)'
  BY DEF InStep, Apart
<1>2. PICK first \in Nat :
        /\ Run(batch[d], first, 0)
        /\ first + done[d] <= LastStored
        /\ Emitted(batch[d], first, EventsUpTo(first))
  BY <1>1 DEF InStep
<1>3. first \in 0..LastStored /\ first + done[d] <= LastStored'
  BY <1>2
<1>4. EventsUpTo(first)' = EventsUpTo(first)
  BY <1>3
<1>5. /\ Run(batch'[d], first, 0)
      /\ first + done'[d] <= LastStored'
      /\ Emitted(batch'[d], first, EventsUpTo(first)')
  BY <1>2, <1>3, <1>4 DEF Apart
<1>. QED
  BY <1>5 DEF InStep

(* One batch of several, or the last one. *)
LEMMA StoreSchedule ==
  ASSUME StoreInv, ScheduleInv, StoreInv', NEW c \in Clients, pc[c] = "write",
         torn' = torn,
         Accepts(NextBatch(c)), Store(NextBatch(c)), UNCHANGED <<lifetime, now>>,
         \A d \in Clients \ {c} : Apart(d),
         NEW written, written = done[c] + Len(NextBatch(c)),
         IF written = Len(batch[c]) THEN pc'[c] # "write"
         ELSE pc'[c] = pc[c] /\ batch'[c] = batch[c] /\ done'[c] = written
  PROVE  ScheduleInv'
<1>1. SUFFICES ASSUME lifetime = 0, ~Broken'
               PROVE  OnSchedule' /\ Awaited' /\ \A d \in Clients : InStep(d)'
  BY DEF ScheduleInv
<1>2. /\ OnSchedule'
      /\ LastStored' >= LastStored
      /\ \A n \in 0..LastStored : EventsUpTo(n)' = EventsUpTo(n)
      /\ \A d \in Clients \ {c} : InStep(d)
      /\ \E first \in Nat :
           /\ Run(batch[c], first, 0)
           /\ LastStored = first + done[c] /\ LastStored' = first + written
           /\ Emitted(batch[c], first, EventsUpTo(first))
  BY <1>1, BatchOnSchedule
<1>3. PICK first \in Nat :
        /\ Run(batch[c], first, 0)
        /\ LastStored = first + done[c] /\ LastStored' = first + written
        /\ Emitted(batch[c], first, EventsUpTo(first))
  BY <1>2
<1>4. /\ done \in [Clients -> Nat] /\ batch[c] \in Seq(Record)
      /\ written \in Nat \ {0} /\ written <= Len(batch[c])
  <2>1. TypeOK /\ done[c] < Len(batch[c])
    BY DEF StoreInv, ClientInv, Writing
  <2>2. Len(NextBatch(c)) \in Nat \ {0} /\ done[c] + Len(NextBatch(c)) <= Len(batch[c])
    BY <2>1, NextBatchShape
  <2>. QED
    BY <2>1, <2>2 DEF TypeOK
<1>5. LastStored \in Nat /\ LastStored' \in Nat
  BY <1>3, <1>4
<1>6. ASSUME NEW d \in Clients \ {c} PROVE InStep(d)'
  BY <1>2, <1>4, <1>5, OthersInStep
<1>7. CASE written = Len(batch[c])
  <2>1. LastStored' % Interval # 0
    BY <1>3, <1>7 DEF Emitted
  <2>2. Awaited'
    BY <2>1 DEF Awaited
  <2>3. InStep(c)'
    BY <1>7 DEF InStep
  <2>. QED
    BY <1>2, <1>6, <2>2, <2>3
<1>8. CASE written # Len(batch[c])
  <2>1. pc'[c] = "write" /\ batch'[c] = batch[c] /\ done'[c] = written
    BY <1>8
  <2>2. Awaited'
    <3>1. PICK j \in 1..Len(batch[c]) : j = written + 1
      BY <1>4, <1>8
    <3>2. batch[c][j].version = first + j
      BY <1>3 DEF Run
    <3>3. first + j = LastStored' + 1
      BY <1>3, <1>4, <3>1
    <3>4. batch'[c][done'[c] + 1].version = LastStored' + 1
      BY <2>1, <3>1, <3>2, <3>3
    <3>5. done'[c] > 0
      BY <1>4, <2>1
    <3>. QED
      BY <3>4, <3>5 DEF Awaited
  <2>3. InStep(c)'
    <3>1. first \in 0..LastStored
      BY <1>3, <1>4
    <3>2. EventsUpTo(first)' = EventsUpTo(first)
      BY <1>2, <3>1
    <3>3. /\ Run(batch'[c], first, 0)
          /\ first + done'[c] <= LastStored'
          /\ Emitted(batch'[c], first, EventsUpTo(first)')
      BY <1>3, <1>5, <2>1, <3>2
    <3>. QED
      BY <3>3 DEF InStep
  <2>. QED
    BY <1>2, <1>6, <2>2, <2>3
<1>. QED
  BY <1>7, <1>8

LEMMA WriteBatchSchedule ==
  ASSUME StoreInv, ScheduleInv, StoreInv', NEW c \in Clients, WriteBatch(c)
  PROVE  ScheduleInv'
<1> DEFINE written == done[c] + Len(NextBatch(c))
<1>1. /\ pc[c] = "write" /\ Accepts(NextBatch(c)) /\ Store(NextBatch(c))
      /\ UNCHANGED <<lifetime, now>> /\ torn' = torn /\ TypeOK
  BY DEF WriteBatch, StoreInv
<1>2. CASE written = Len(batch[c])
  <2>1. Leave(c)
    BY <1>2 DEF WriteBatch
  <2>2. pc'[c] # "write" /\ \A d \in Clients \ {c} : Apart(d)
    BY <1>1, <2>1 DEF TypeOK, Leave, Apart
  <2>. QED
    BY <1>1, <1>2, <2>2, StoreSchedule
<1>3. CASE written # Len(batch[c])
  <2>1. done' = [done EXCEPT ![c] = written] /\ UNCHANGED <<pc, mode, got, batch, began>>
    BY <1>3 DEF WriteBatch
  <2> HIDE DEF written
  <2>2. /\ pc'[c] = pc[c] /\ batch'[c] = batch[c] /\ done'[c] = written
        /\ \A d \in Clients \ {c} : Apart(d)
    BY <1>1, <2>1 DEF TypeOK, Apart
  <2>. QED
    BY <1>1, <1>3, <2>2, StoreSchedule DEF written
<1>. QED
  BY <1>2, <1>3

LEMMA WriteReplyLostSchedule ==
  ASSUME StoreInv, ScheduleInv, StoreInv', NEW c \in Clients, WriteReplyLost(c)
  PROVE  ScheduleInv'
<1> DEFINE written == done[c] + Len(NextBatch(c))
<1>1. /\ pc[c] = "write" /\ Accepts(NextBatch(c)) /\ Store(NextBatch(c))
      /\ UNCHANGED <<lifetime, now>> /\ TypeOK /\ Leave(c)
      /\ torn' = (torn \/ written \in 1..Len(batch[c]) - 1)
  BY DEF WriteReplyLost, Abandon, StoreInv
<1>2. /\ written \in Nat \ {0} /\ written <= Len(batch[c]) /\ Len(batch[c]) \in Nat
      /\ torn \in BOOLEAN
  <2>1. done[c] < Len(batch[c]) /\ done[c] \in Nat /\ batch[c] \in Seq(Record)
    BY <1>1 DEF StoreInv, ClientInv, Writing, TypeOK
  <2>2. Len(NextBatch(c)) \in Nat \ {0} /\ done[c] + Len(NextBatch(c)) <= Len(batch[c])
    BY <1>1, <2>1, NextBatchShape
  <2>. QED
    BY <1>1, <2>1, <2>2 DEF TypeOK
<1> HIDE DEF written
<1>3. CASE written = Len(batch[c])
  <2>1. torn' = torn
    BY <1>1, <1>2, <1>3
  <2>2. pc'[c] # "write" /\ \A d \in Clients \ {c} : Apart(d)
    BY <1>1 DEF TypeOK, Leave, Apart
  <2>. QED
    BY <1>1, <1>3, <2>1, <2>2, StoreSchedule DEF written
<1>4. CASE written # Len(batch[c])
  <2>1. written \in 1..Len(batch[c]) - 1
    BY <1>2, <1>4
  <2>2. torn'
    BY <1>1, <2>1
  <2>. QED
    BY <2>2 DEF ScheduleInv, Broken
<1>. QED
  BY <1>3, <1>4

LEMMA NextSchedule ==
  ASSUME Interval > 1, StoreInv, ScheduleInv, [Next]_vars, StoreInv'
  PROVE  ScheduleInv'
<1>1. ASSUME NEW c \in Clients, NEW m \in {"tail", "all"}, BeginRead(c, m)
      PROVE  ScheduleInv'
  <2>1. \A d \in Clients \ {c} : SavesOn(d)
    BY <1>1 DEF StoreInv, TypeOK, BeginRead, SavesOn
  <2>2. Outside(c)
    <3>1. done[c] = 0 /\ done'[c] = 0 /\ pc'[c] = "read"
      BY <1>1 DEF StoreInv, TypeOK, BeginRead, ClientInv, Fresh
    <3>. QED
      BY <3>1 DEF Outside, InStep
  <2>. QED
    BY <1>1, <2>1, <2>2, NothingStored DEF BeginRead
<1>2. ASSUME NEW c \in Clients, ReadPage(c) PROVE ScheduleInv'
  <2>1. /\ UNCHANGED <<lifetime, table, batch, done, everStored, torn>>
        /\ pc[c] = "read"
        /\ \E stage \in {"ready", "read"} : pc' = [pc EXCEPT ![c] = stage]
    BY <1>2 DEF ReadPage
  <2>2. \A d \in Clients \ {c} : SavesOn(d)
    BY <2>1 DEF StoreInv, TypeOK, SavesOn
  <2>3. Outside(c)
    <3>1. done[c] = 0 /\ done'[c] = 0
      BY <2>1 DEF StoreInv, ClientInv, Fresh
    <3>2. pc'[c] # "write"
      BY <2>1 DEF StoreInv, TypeOK
    <3>. QED
      BY <3>1, <3>2 DEF Outside, InStep
  <2>. QED
    BY <2>1, <2>2, <2>3, NothingStored
<1>3. ASSUME NEW c \in Clients, ReadFails(c) \/ HistoryRead(c) PROVE ScheduleInv'
  <2>1. /\ Leave(c) /\ UNCHANGED <<lifetime, table, everStored, torn>>
        /\ pc[c] \in {"read", "ready"}
    BY <1>3 DEF ReadFails, HistoryRead
  <2>2. done[c] = 0
    BY <2>1 DEF StoreInv, ClientInv, Fresh
  <2>. QED
    BY <2>1, <2>2, LeaveSchedule
<1>4. ASSUME NEW c \in Clients, Emit(c) PROVE ScheduleInv'
  BY <1>4, EmitSchedule
<1>5. ASSUME NEW c \in Clients, WriteBatch(c) PROVE ScheduleInv'
  BY <1>5, WriteBatchSchedule
<1>6. ASSUME NEW c \in Clients, WriteFails(c) \/ Crash(c) PROVE ScheduleInv'
  <2>1. /\ Abandon(c, done[c]) /\ UNCHANGED <<lifetime, table, everStored>>
        /\ pc[c] # "idle"
    BY <1>6 DEF WriteFails, Crash
  <2>. QED
    BY <2>1, AbandonSchedule
<1>7. ASSUME NEW c \in Clients, WriteReplyLost(c) PROVE ScheduleInv'
  BY <1>7, WriteReplyLostSchedule
<1>8. CASE Tick
  BY <1>8 DEF Tick, ScheduleInv
<1>9. CASE Expire
  <2>1. lifetime # 0 /\ lifetime' = lifetime
    BY <1>9 DEF Expire, StoreInv, Whole, Expired
  <2>. QED
    BY <2>1 DEF ScheduleInv
<1>10. CASE UNCHANGED vars
  <2>1. \A d \in Clients : SavesOn(d)
    BY <1>10 DEF vars, client, SavesOn
  <2>. QED
    BY <1>10, <2>1, NothingStored DEF vars
<1>. QED
  BY <1>1, <1>2, <1>3, <1>4, <1>5, <1>6, <1>7, <1>8, <1>9, <1>10 DEF Next

LEMMA InitSchedule == Init => ScheduleInv
<1> SUFFICES ASSUME Init PROVE ScheduleInv
  OBVIOUS
<1>1. DOMAIN table = {} /\ everStored = {} /\ LastStored = 0
  BY DEF Init, LastStored, LastOf
<1>2. OnSchedule
  BY <1>1 DEF OnSchedule
<1>3. Awaited
  BY <1>1 DEF Awaited
<1>4. \A c \in Clients : InStep(c)
  BY DEF Init, InStep
<1>. QED
  BY <1>2, <1>3, <1>4 DEF ScheduleInv

-----------------------------------------------------------------------------
(***************************************************************************)
(* The theorems.                                                           *)
(***************************************************************************)
LEMMA InitHolds == Init => StoreInv
<1> SUFFICES ASSUME Init PROVE StoreInv
  OBVIOUS
<1>1. /\ DOMAIN table = {} /\ acked = {} /\ LastStored = 0
  BY DEF Init, LastStored, LastOf
<1>2. TypeOK
  <2>1. <<>> \in Seq(Record) /\ Len(<<>>) = 0
    OBVIOUS
  <2>2. 0 \in 0..MaxTime
    BY CloudAssumption
  <2>3. \E d \in Deployments : lifetime = d.lifetime /\ Cardinality(active) = d.clients
    BY DEF Init
  <2>4. active \subseteq Clients
    BY DEF Init
  <2>5. ASSUME NEW c \in Clients PROVE done[c] <= Len(batch[c])
    BY <2>1 DEF Init
  <2>. QED
    BY <1>1, <2>1, <2>2, <2>3, <2>4, <2>5 DEF Init, TypeOK
<1>3. Bounded
  <2>1. DOMAIN table \subseteq 1..0
    BY <1>1
  <2>. QED
    BY <2>1 DEF Bounded
<1>4. Whole
  BY <1>1 DEF Whole
<1>5. ASSUME NEW c \in Clients PROVE ClientInv(c)
  BY DEF Init, ClientInv, Fresh, Reading, Writing
<1>6. AckedHeld
  BY <1>1 DEF AckedHeld
<1>. QED
  BY <1>2, <1>3, <1>4, <1>5, <1>6 DEF StoreInv

LEMMA NextKeeps == StoreInv /\ [Next]_vars => StoreInv'
<1> SUFFICES ASSUME StoreInv, [Next]_vars PROVE StoreInv'
  OBVIOUS
<1>1. ASSUME NEW c \in Clients, NEW m \in {"tail", "all"}, BeginRead(c, m)
      PROVE  StoreInv'
  BY <1>1, BeginReadKeeps
<1>2. ASSUME NEW c \in Clients, ReadPage(c) PROVE StoreInv'
  BY <1>2, ReadPageKeeps
<1>3. ASSUME NEW c \in Clients, ReadFails(c) \/ HistoryRead(c) PROVE StoreInv'
  <2>1. Leave(c) /\ UNCHANGED <<lifetime, active, now, table, everStored, acked, torn>>
    BY <1>3 DEF ReadFails, HistoryRead
  <2>2. torn' \in BOOLEAN
    BY <2>1 DEF StoreInv, TypeOK
  <2>. QED
    BY <2>1, <2>2, LeaveKeeps
<1>4. ASSUME NEW c \in Clients, Emit(c) PROVE StoreInv'
  BY <1>4, EmitKeeps
<1>5. ASSUME NEW c \in Clients, WriteBatch(c) PROVE StoreInv'
  BY <1>5, WriteBatchKeeps
<1>6. ASSUME NEW c \in Clients, WriteFails(c) \/ Crash(c) PROVE StoreInv'
  <2>1. Leave(c) /\ UNCHANGED <<lifetime, active, now, table, everStored, acked>>
    BY <1>6 DEF WriteFails, Crash, Abandon
  <2>2. torn' \in BOOLEAN
    BY <1>6 DEF WriteFails, Crash, Abandon
  <2>. QED
    BY <2>1, <2>2, LeaveKeeps
<1>7. ASSUME NEW c \in Clients, WriteReplyLost(c) PROVE StoreInv'
  BY <1>7, WriteReplyLostKeeps
<1>8. CASE Tick
  BY <1>8, TickKeeps
<1>9. CASE Expire
  BY <1>9, ExpireKeeps
<1>10. CASE UNCHANGED vars
  <2>1. /\ TypeOK /\ Bounded /\ Whole /\ AckedHeld
        /\ UNCHANGED <<lifetime, active, now, table, client, everStored, acked, torn>>
    BY <1>10 DEF StoreInv, vars
  <2>2. Keeps /\ Bounded' /\ Whole'
    BY <2>1, StillKeeps
  <2>3. AckedHeld'
    BY <2>1, StillHeld
  <2>4. TypeOK'
    BY <2>1 DEF TypeOK, client
  <2>. QED
    BY <2>1, <2>2, <2>3, <2>4, OthersKeep
<1>. QED
  BY <1>1, <1>2, <1>3, <1>4, <1>5, <1>6, <1>7, <1>8, <1>9, <1>10 DEF Next

(* The inductive invariant: what a client has read, and what it has still  *)
(* to write, fit the table, whatever others do to it meanwhile.            *)
THEOREM StoreInvariant == Spec => []StoreInv
  BY InitHolds, NextKeeps, PTL DEF Spec

(* The type invariant of the store and its clients.                        *)
THEOREM StoreTypes == Spec => []TypeOK
<1>1. StoreInv => TypeOK
  BY DEF StoreInv
<1>. QED
  BY <1>1, StoreInvariant, PTL

(* Without an expiry the versions of a stream are without gaps, however    *)
(* many batches are written, cut short, sent twice or overtaken by others: *)
(* the conditional write of CloudStore and the order of Save's batches.    *)
THEOREM GaplessCorrect == Spec => []Gapless
<1>1. StoreInv => Gapless
  BY DEF StoreInv, Whole, Gapless, LastStored
<1>. QED
  BY <1>1, StoreInvariant, PTL

(* What Save said it has stored is there, unchanged, until it expires.     *)
THEOREM AckedKeptCorrect == Spec => []AckedKept
<1>1. StoreInv => AckedKept
  BY DEF StoreInv, AckedHeld, IsStored, AckedKept
<1>. QED
  BY <1>1, StoreInvariant, PTL

(* Reads of several pages return what the table held at one moment, the    *)
(* whole of it or its last records, whatever is written between the pages. *)
THEOREM ReadsAreWindowsCorrect == Spec => []ReadsAreWindows
<1>1. ASSUME StoreInv, NEW c \in Clients, pc[c] = "ready", lifetime = 0
      PROVE  LET last == LastRead(c)
                 size == IF mode[c] = "tail" /\ last > Interval THEN Interval ELSE last
             IN  /\ last \in began[c]..LastOf(DOMAIN table)
                 /\ got[c] = [i \in 1..size |-> table[last - size + i]]
  <2> DEFINE last == LastRead(c)
             size == IF mode[c] = "tail" /\ last > Interval THEN Interval ELSE last
  <2>1. TypeOK /\ Bounded /\ Reading(c)
    BY <1>1 DEF StoreInv, ClientInv
  <2>2. /\ last \in Nat /\ LastStored \in Nat /\ began[c] \in Nat /\ Len(got[c]) \in Nat
        /\ mode[c] \in {"tail", "all"} /\ Interval \in Nat
    BY <2>1, LastReadNat, LastStoredNat, CloudAssumption DEF TypeOK
  <2>3. /\ last <= LastStored /\ began[c] <= last /\ Len(got[c]) <= last
        /\ got[c] = [i \in 1..Len(got[c]) |-> table[last - Len(got[c]) + i]]
        /\ mode[c] = "tail" => Len(got[c]) <= Interval /\ Len(got[c]) \in {Interval, last}
        /\ mode[c] = "all" => Len(got[c]) = last
    BY <1>1, <2>1 DEF Reading
  <2> HIDE DEF last
  <2>4. Len(got[c]) = size
    BY <2>2, <2>3
  <2>5. last \in began[c]..LastOf(DOMAIN table)
    BY <2>2, <2>3 DEF LastStored
  <2> HIDE DEF size
  <2>6. got[c] = [i \in 1..size |-> table[last - size + i]]
    BY <2>3, <2>4
  <2>. QED
    BY <2>5, <2>6 DEF last, size
<1>2. StoreInv => ReadsAreWindows
  BY <1>1 DEF ReadsAreWindows
<1>. QED
  BY <1>2, StoreInvariant, PTL

(* The inductive invariant of the snapshots: as long as no save is cut     *)
(* short they are where they belong and sum up all events before them,     *)
(* those that are stored and those a client has still to store.            *)
THEOREM ScheduleInvariant ==
  ASSUME Interval > 1
  PROVE  Spec => []ScheduleInv
<1>1. Init => ScheduleInv
  BY InitSchedule
<1>2. StoreInv /\ StoreInv' /\ ScheduleInv /\ [Next]_vars => ScheduleInv'
  BY NextSchedule
<1>. QED
  BY <1>1, <1>2, StoreInvariant, PTL DEF Spec

(* As long as no save is cut between its batches, a client that has read a *)
(* tail knows every event up to its last version: Builder.Snapshot takes   *)
(* snapshots often enough for the n of LoadTail.                           *)
THEOREM TailsCompleteCorrect ==
  ASSUME Interval > 1
  PROVE  Spec => []TailsComplete
<1>1. ASSUME StoreInv, ScheduleInv PROVE TailsComplete
  <2>1. SUFFICES ASSUME NEW c \in Clients, pc[c] = "ready", lifetime = 0, ~torn,
                        \A d \in Clients : done[d] = 0
                 PROVE  Covers(got[c]) = {v \in everStored : v <= LastRead(c)}
    BY DEF TailsComplete
  <2>2. ~Broken
    BY <2>1 DEF Broken, Overtaken
  <2>3. OnSchedule
    BY <1>1, <2>1, <2>2 DEF ScheduleInv
  <2>4. Covers(got[c]) = EventsUpTo(LastRead(c))
    BY <1>1, <2>1, <2>3, ReadyCovers
  <2>. QED
    BY <2>4 DEF EventsUpTo
<1>. QED
  BY <1>1, StoreInvariant, ScheduleInvariant, PTL

(* No step replaces a record: the conditional writes, and an expiry that   *)
(* only deletes.                                                           *)
THEOREM RecordsImmutableCorrect == Spec => RecordsImmutable
<1> DEFINE Immutable == \A v \in DOMAIN table \cap DOMAIN table' : table'[v] = table[v]
<1>1. ASSUME NEW c \in Clients, WriteBatch(c) \/ WriteReplyLost(c) PROVE Immutable
  <2>1. Accepts(NextBatch(c)) /\ Store(NextBatch(c))
    BY <1>1 DEF WriteBatch, WriteReplyLost
  <2>. QED
    BY <2>1 DEF Accepts, Store
<1>2. ASSUME NEW c \in Clients, NEW m, BeginRead(c, m) PROVE Immutable
  BY <1>2 DEF BeginRead
<1>3. ASSUME NEW c \in Clients,
             \/ ReadPage(c) \/ ReadFails(c) \/ HistoryRead(c) \/ Emit(c)
             \/ WriteFails(c) \/ Crash(c)
      PROVE  Immutable
  BY <1>3 DEF ReadPage, ReadFails, HistoryRead, Emit, WriteFails, Crash
<1>4. ASSUME Tick PROVE Immutable
  BY <1>4 DEF Tick
<1>5. ASSUME Expire PROVE Immutable
  BY <1>5 DEF Expire, Restrict
<1>6. ASSUME Next PROVE Immutable
  <2> HIDE DEF Immutable
  <2>. QED
    BY <1>1, <1>2, <1>3, <1>4, <1>5, <1>6 DEF Next
<1>7. [Next]_vars => [Immutable]_vars
  BY <1>6
<1>. QED
  BY <1>7, PTL DEF Spec, RecordsImmutable

=============================================================================
