---------------------------- MODULE UndoProofs ----------------------------
(***************************************************************************)
(* What holds of the journal and of putting a run back, for every set of   *)
(* settings and processes and every bound: a run that is judged goes back  *)
(* whole, what the journal lets go of is whole runs, and, as long as no    *)
(* two processes overlap, the record is one change away from the store and *)
(* a reversal can be put back in its turn.                                 *)
(***************************************************************************)
EXTENDS Undo, FiniteSetTheorems, WellFoundedInduction, TLAPS

\* Whether no later change is of the setting the i-th is of.
Newest(changes, i) ==
    \A j \in i + 1 .. Len(changes) : changes[j].name # changes[i].name

\* No two of the changes are of one setting.
Distinct(changes) ==
    \A i, j \in DOMAIN changes : changes[i].name = changes[j].name => i = j

\* The changes are one run, and something is in it.
OneRun(changes) ==
    /\ changes # <<>>
    /\ \A i \in DOMAIN changes : Run(changes[i]) = Run(changes[1])

\* A run that was named is all of that run the journal had when it was read.
NamedIsRead(d) ==
    d.at = "named" =>
        d.plan # <<>> /\ d.plan = Together(d.read, d.plan[1].operation, d.plan[1].at)

\* While a run is put back each of its settings holds what it is to hold, or what the
\* change left and is still to be put back, or was written by another.
GoingBack(d, held) ==
    d.at = "reversing" =>
        /\ d.plan # <<>> /\ Distinct(d.plan)
        /\ ToSet(d.left) \subseteq ToSet(d.plan)
        /\ \A c \in ToSet(d.plan) :
              \/ c.name \in d.met
              \/ held[c.name] = c.previous
              \/ held[c.name] = c.current /\ c \in ToSet(d.left)

\* The invariant of putting a run back, whatever runs beside it.
Reversal == TypeOK /\ \A p \in Process : NamedIsRead(doing[p]) /\ GoingBack(doing[p], store)

\* The newest change of its setting, in the changes recorded.
IsNewest(changes, c) == \E k \in 1 .. Len(changes) : changes[k] = c /\ Newest(changes, k)

\* What a process that has nobody beside it knows of the record and of what is held.
Sequential(d, changes, held) ==
    /\ d.at \in {"entering", "named", "recording"} => d.read = changes
    /\ d.at \in {"weighed", "entering"} =>
        /\ OneRun(d.plan) /\ Distinct(d.plan)
        /\ \A c \in ToSet(d.plan) : held[c.name] = c.previous
    /\ d.at = "entered" => Distinct(d.plan)
    /\ d.at \in {"entered", "reversing"} =>
        \A c \in ToSet(d.plan) : IsNewest(changes, c)
    /\ d.at = "reversing" =>
        /\ d.met = {}
        /\ \A c \in ToSet(d.plan) : c.name \in d.done => held[c.name] = c.previous
    /\ d.at = "recording" =>
        /\ OneRun(d.plan) /\ Distinct(d.plan) /\ d.plan[1].operation = "undo"
        /\ \A c \in ToSet(d.plan) : held[c.name] = c.current

\* Each setting holds what its newest change left or what that change found.
Recorded(changes, held) ==
    \A i \in 1 .. Len(changes) :
        Newest(changes, i) => held[changes[i].name] \in {changes[i].previous, changes[i].current}

\* The invariant of a journal no two processes were ever in the middle of at once.
Alone ==
    overlaps = 0 =>
        /\ \A p, q \in Process : doing[p] # Idle /\ doing[q] # Idle => p = q
        /\ \A p \in Process : Sequential(doing[p], journal, store)
        /\ Recorded(journal, store)

---------------------------------------------------------------------------
\* Min is the least, of any naturals.
LEMMA MinIsLeast ==
    ASSUME NEW S \in SUBSET Nat, S # {}
    PROVE  Min(S) \in S /\ \A y \in S : Min(S) <= y
<1>0. S \subseteq Nat
  OBVIOUS
<1>1. \E x \in S : \A y \in S : ~(<<y, x>> \in OpToRel(<, Nat))
  BY <1>0, NatLessThanWellFounded, WFMin
<1>2. PICK x \in S : \A y \in S : ~(<<y, x>> \in OpToRel(<, Nat))
  BY <1>1
<1>3. ASSUME NEW y \in S PROVE x <= y
  <2>1. x \in Nat /\ y \in Nat
    OBVIOUS
  <2>2. ~(y < x)
    BY <1>2, <2>1 DEF OpToRel
  <2>3. QED
    BY <2>1, <2>2
<1>4. QED
  BY <1>3 DEF Min

\* Max is the greatest, of any naturals that have a bound.
LEMMA MaxIsGreatest ==
    ASSUME NEW n \in Nat, NEW S \in SUBSET (1 .. n), S # {}
    PROVE  Max(S) \in S /\ \A y \in S : Max(S) >= y
<1> DEFINE T == {n - y : y \in S}
<1>1. T \in SUBSET Nat /\ T # {}
  <2>1. PICK y : y \in S
    OBVIOUS
  <2>2. n - y \in T
    BY <2>1
  <2>3. QED
    BY <2>2
<1>2. Min(T) \in T /\ \A y \in T : Min(T) <= y
  BY <1>1, MinIsLeast
<1>3. PICK x \in S : Min(T) = n - x
  BY <1>2
<1>4. ASSUME NEW y \in S PROVE x >= y
  <2>1. n - y \in T
    OBVIOUS
  <2>2. n - x <= n - y
    BY <1>2, <1>3, <2>1
  <2>3. QED
    BY <2>2
<1>5. QED
  BY <1>4 DEF Max

\* The places of a set are counted off one by one: the one so many are not after.
LEMMA PlacesAreCounted ==
    ASSUME NEW n \in Nat, NEW I \in SUBSET (1 .. n)
    PROVE  /\ IsFiniteSet(I) /\ Cardinality(I) \in Nat
           /\ \E rank \in [I -> 1 .. Cardinality(I)] :
                /\ \A i \in I : rank[i] = Cardinality({j \in I : j <= i})
                /\ \A i, j \in I : i < j => rank[i] < rank[j]
                /\ \A k \in 1 .. Cardinality(I) : \E i \in I : rank[i] = k
<1> DEFINE upto(i) == {j \in I : j <= i}
           rank == [i \in I |-> Cardinality(upto(i))]
<1>1. IsFiniteSet(1 .. n)
  BY FS_Interval
<1>2. IsFiniteSet(I) /\ Cardinality(I) \in Nat
  BY <1>1, FS_Subset, FS_CardinalityType
<1>3. ASSUME NEW i \in I PROVE IsFiniteSet(upto(i)) /\ Cardinality(upto(i)) \in 1 .. Cardinality(I)
  <2>1. upto(i) \in SUBSET I
    OBVIOUS
  <2>2. IsFiniteSet(upto(i)) /\ Cardinality(upto(i)) <= Cardinality(I)
    BY <1>2, <2>1, FS_Subset
  <2>3. Cardinality(upto(i)) \in Nat
    BY <2>2, FS_CardinalityType
  <2>4. i \in upto(i)
    OBVIOUS
  <2>5. Cardinality(upto(i)) # 0
    BY <2>2, <2>4, FS_EmptySet
  <2>6. QED
    BY <1>2, <2>2, <2>3, <2>5
<1>4. ASSUME NEW i \in I, NEW j \in I, i < j PROVE Cardinality(upto(i)) < Cardinality(upto(j))
  <2>1. upto(i) \in SUBSET upto(j)
    <3>1. ASSUME NEW h \in I, h <= i PROVE h <= j
      <4>1. h \in Nat /\ i \in Nat /\ j \in Nat
        OBVIOUS
      <4>2. QED
        BY <1>4, <3>1, <4>1
    <3>2. QED
      BY <3>1
  <2>2. j \in upto(j) /\ j \notin upto(i)
    <3>1. i \in Nat /\ j \in Nat
      OBVIOUS
    <3>2. QED
      BY <1>4, <3>1
  <2>3. IsFiniteSet(upto(j)) /\ Cardinality(upto(i)) \in Nat /\ Cardinality(upto(j)) \in Nat
    BY <1>2, <1>3
  <2>4. /\ Cardinality(upto(i)) <= Cardinality(upto(j))
        /\ Cardinality(upto(j)) = Cardinality(upto(i)) => upto(j) = upto(i)
    BY <2>1, <2>3, FS_Subset
  <2>5. Cardinality(upto(j)) # Cardinality(upto(i))
    BY <2>2, <2>4
  <2>6. QED
    BY <2>3, <2>4, <2>5
<1>5. \A k \in 1 .. Cardinality(I) : \E i \in I : Cardinality(upto(i)) = k
  <2> DEFINE m == Cardinality(I)
  <2>1. IsFiniteSet(1 .. m) /\ Cardinality(1 .. m) = m
    BY <1>2, FS_Interval
  <2>2. rank \in [I -> 1 .. m]
    BY <1>3
  <2>3. ASSUME NEW i \in I, NEW j \in I, rank[i] = rank[j] PROVE i = j
    <3>1. rank[i] = Cardinality(upto(i)) /\ rank[j] = Cardinality(upto(j))
      OBVIOUS
    <3>2. Cardinality(upto(i)) \in Nat /\ Cardinality(upto(j)) \in Nat
      BY <1>2, <1>3
    <3>3. ~(i < j) /\ ~(j < i)
      BY <1>4, <2>3, <3>1, <3>2
    <3>4. QED
      BY <3>3
  <2>4. rank \in Injection(I, 1 .. m)
    BY <2>2, <2>3 DEF Injection, IsInjective
  <2>5. rank \in Surjection(I, 1 .. m)
    BY <2>1, <2>4, FS_Injection
  <2>6. QED
    BY <2>5 DEF Surjection
<1>6. rank \in [I -> 1 .. Cardinality(I)] /\ \A i \in I : rank[i] = Cardinality(upto(i))
  BY <1>3
<1>7. QED
  BY <1>2, <1>4, <1>5, <1>6

\* What is picked of a sequence stands at the places picked, each once, in order.
LEMMA PickedInOrder ==
    ASSUME NEW T, NEW s \in Seq(T), NEW I \in SUBSET (1 .. Len(s))
    PROVE  /\ Cardinality(I) \in Nat
           /\ Picked(s, I) \in Seq(T) /\ Len(Picked(s, I)) = Cardinality(I)
           /\ \E f \in [1 .. Cardinality(I) -> I] :
                /\ \A k \in 1 .. Cardinality(I) : Picked(s, I)[k] = s[f[k]]
                /\ \A i \in I : \E k \in 1 .. Cardinality(I) : f[k] = i
                /\ \A k, l \in 1 .. Cardinality(I) : k < l => f[k] < f[l]
<1> DEFINE m == Cardinality(I)
           f == [k \in 1 .. m |-> CHOOSE i \in I : Cardinality({j \in I : j <= i}) = k]
<1>0. Len(s) \in Nat
  OBVIOUS
<1>1. m \in Nat
  BY <1>0, PlacesAreCounted
<1>2. PICK rank \in [I -> 1 .. m] :
        /\ \A i \in I : rank[i] = Cardinality({j \in I : j <= i})
        /\ \A i, j \in I : i < j => rank[i] < rank[j]
        /\ \A k \in 1 .. m : \E i \in I : rank[i] = k
  BY <1>0, PlacesAreCounted
<1>3. ASSUME NEW k \in 1 .. m PROVE f[k] \in I /\ rank[f[k]] = k
  <2>1. f[k] = CHOOSE i \in I : rank[i] = k
    BY <1>2
  <2>2. QED
    BY <1>2, <2>1
<1>4. Picked(s, I) = [k \in 1 .. m |-> s[f[k]]]
  BY DEF Picked
<1>5. f \in [1 .. m -> I]
  BY <1>3
<1> HIDE DEF f, m
<1>6. Picked(s, I) \in Seq(T) /\ Len(Picked(s, I)) = m
  <2>1. ASSUME NEW k \in 1 .. m PROVE s[f[k]] \in T
    <3>1. f[k] \in I
      BY <1>5
    <3>2. f[k] \in 1 .. Len(s)
      BY <3>1
    <3>3. QED
      BY <1>0, <3>2
  <2>2. Picked(s, I) \in [1 .. m -> T]
    BY <1>4, <2>1
  <2>3. QED
    BY <1>1, <2>2
<1>7. ASSUME NEW i \in I, NEW j \in I, rank[i] = rank[j] PROVE i = j
  <2>1. i \in Nat /\ j \in Nat /\ rank[i] \in Nat /\ rank[j] \in Nat
    BY <1>0, <1>1, <1>2
  <2>2. ~(i < j) /\ ~(j < i)
    BY <1>2, <1>7, <2>1
  <2>3. QED
    BY <2>1, <2>2
<1>8. ASSUME NEW i \in I PROVE \E k \in 1 .. m : f[k] = i
  <2>1. rank[i] \in 1 .. m
    BY <1>2
  <2>2. f[rank[i]] = i
    BY <1>3, <1>7, <2>1
  <2>3. QED
    BY <2>1, <2>2
<1>9. ASSUME NEW k \in 1 .. m, NEW l \in 1 .. m, k < l PROVE f[k] < f[l]
  <2>1. f[k] \in I /\ f[l] \in I /\ rank[f[k]] = k /\ rank[f[l]] = l
    BY <1>3
  <2>2. k \in Nat /\ l \in Nat
    BY <1>1
  <2>3. f[k] \in 1 .. Len(s) /\ f[l] \in 1 .. Len(s)
    BY <2>1
  <2>4. f[k] # f[l] /\ ~(f[l] < f[k])
    <3>1. f[k] # f[l]
      BY <1>9, <2>1, <2>2
    <3>2. f[l] < f[k] => rank[f[l]] < rank[f[k]]
      BY <1>2, <2>1
    <3>3. QED
      BY <1>9, <2>1, <2>2, <3>1, <3>2
  <2>5. QED
    BY <1>0, <2>3, <2>4
<1>10. \A k \in 1 .. m : Picked(s, I)[k] = s[f[k]]
  BY <1>4
<1>11. QED
  BY <1>1, <1>5, <1>6, <1>8, <1>9, <1>10 DEF m

\* What is picked are the elements at those places, and no others.
LEMMA PickedElements ==
    ASSUME NEW T, NEW s \in Seq(T), NEW I \in SUBSET (1 .. Len(s))
    PROVE  ToSet(Picked(s, I)) = {s[i] : i \in I}
<1>1. PICK f \in [1 .. Cardinality(I) -> I] :
        /\ \A k \in 1 .. Cardinality(I) : Picked(s, I)[k] = s[f[k]]
        /\ \A i \in I : \E k \in 1 .. Cardinality(I) : f[k] = i
  BY PickedInOrder
<1>2. DOMAIN Picked(s, I) = 1 .. Cardinality(I)
  BY PickedInOrder
<1>3. ASSUME NEW x \in ToSet(Picked(s, I)) PROVE \E i \in I : x = s[i]
  <2>1. PICK k \in 1 .. Cardinality(I) : x = Picked(s, I)[k]
    BY <1>2 DEF ToSet
  <2>2. x = s[f[k]] /\ f[k] \in I
    BY <1>1, <2>1
  <2>3. QED
    BY <2>2
<1>4. ASSUME NEW i \in I PROVE s[i] \in ToSet(Picked(s, I))
  <2>1. PICK k \in 1 .. Cardinality(I) : f[k] = i
    BY <1>1
  <2>2. s[i] = Picked(s, I)[k]
    BY <1>1, <2>1
  <2>3. QED
    BY <1>2, <2>1, <2>2 DEF ToSet
<1>5. QED
  BY <1>3, <1>4

\* A set that is finite can be put into a sequence, each of its elements once.
LEMMA SetIsListed ==
    ASSUME NEW S, IsFiniteSet(S)
    PROVE  /\ SetToSeq(S) \in Seq(S)
           /\ \A i, j \in 1 .. Len(SetToSeq(S)) : SetToSeq(S)[i] = SetToSeq(S)[j] => i = j
           /\ S # {} => Len(SetToSeq(S)) > 0
<1>1. Cardinality(S) \in Nat /\ ExistsBijection(1 .. Cardinality(S), S)
  BY FS_CardinalityType
<1>2. PICK g \in [1 .. Cardinality(S) -> S] : IsInjective(g)
  BY <1>1 DEF ExistsBijection, Bijection, Injection
<1>3. SetToSeq(S) \in [1 .. Cardinality(S) -> S] /\ IsInjective(SetToSeq(S))
  BY <1>2 DEF SetToSeq
<1>4. S # {} => Cardinality(S) # 0
  BY FS_EmptySet
<1>5. SetToSeq(S) \in Seq(S) /\ Len(SetToSeq(S)) = Cardinality(S)
  BY <1>1, <1>3
<1>6. QED
  BY <1>1, <1>3, <1>4, <1>5 DEF IsInjective

\* A sequence turned round has the same elements.
LEMMA ReverseElements ==
    ASSUME NEW T, NEW s \in Seq(T)
    PROVE  Reverse(s) \in Seq(T) /\ ToSet(Reverse(s)) = ToSet(s)
<1>1. Len(s) \in Nat /\ DOMAIN s = 1 .. Len(s)
  OBVIOUS
<1>2. \A i \in 1 .. Len(s) : (Len(s) - i) + 1 \in 1 .. Len(s)
  BY <1>1
<1>3. Reverse(s) \in Seq(T) /\ DOMAIN Reverse(s) = 1 .. Len(s)
  BY <1>1, <1>2 DEF Reverse
<1>4. \A i \in 1 .. Len(s) : Reverse(s)[i] = s[(Len(s) - i) + 1]
  BY DEF Reverse
<1>5. \A i \in 1 .. Len(s) : s[i] = Reverse(s)[(Len(s) - i) + 1]
  <2>1. ASSUME NEW i \in 1 .. Len(s) PROVE s[i] = Reverse(s)[(Len(s) - i) + 1]
    <3>1. (Len(s) - ((Len(s) - i) + 1)) + 1 = i
      BY <1>1
    <3>2. QED
      BY <1>2, <1>4, <3>1
  <2>2. QED
    BY <2>1
<1>6. QED
  BY <1>1, <1>2, <1>3, <1>4, <1>5 DEF ToSet

---------------------------------------------------------------------------
\* The runs the changes after the first i hold.
After(changes, i) == {Run(changes[j]) : j \in i + 1 .. Len(changes)}

\* The runs are counted from the newest change back, one more for the first of each.
LEMMA RunsAreCounted ==
    ASSUME NEW s \in Seq(Change)
    PROVE  /\ \A i \in 0 .. Len(s) :
                IsFiniteSet(After(s, i)) /\ RunsAfter(s, i) \in Nat
                /\ RunsAfter(s, i) = Cardinality(After(s, i))
           /\ RunsAfter(s, Len(s)) = 0
           /\ \A i \in 1 .. Len(s) :
                RunsAfter(s, i - 1) = IF Run(s[i]) \in After(s, i) THEN RunsAfter(s, i)
                                      ELSE RunsAfter(s, i) + 1
<1>0. Len(s) \in Nat
  OBVIOUS
<1>1. \A i : RunsAfter(s, i) = Cardinality(After(s, i))
  BY DEF RunsAfter, After
<1>2. ASSUME NEW i \in 0 .. Len(s) PROVE IsFiniteSet(After(s, i)) /\ RunsAfter(s, i) \in Nat
  <2> DEFINE J == i + 1 .. Len(s)
             f == [j \in J |-> Run(s[j])]
  <2>1. IsFiniteSet(J)
    BY <1>0, FS_Interval
  <2>2. f \in [J -> After(s, i)]
    BY DEF After
  <2>3. \A x \in After(s, i) : \E j \in J : f[j] = x
    BY DEF After
  <2>4. f \in Surjection(J, After(s, i))
    BY <2>2, <2>3 DEF Surjection
  <2>5. IsFiniteSet(After(s, i))
    BY <2>1, <2>4, FS_Surjection
  <2>6. QED
    BY <1>1, <2>5, FS_CardinalityType
<1>3. RunsAfter(s, Len(s)) = 0
  <2>1. Len(s) + 1 .. Len(s) = {}
    BY <1>0
  <2>2. After(s, Len(s)) = {}
    BY <2>1 DEF After
  <2>3. QED
    BY <1>1, <2>2, FS_EmptySet
<1>4. ASSUME NEW i \in 1 .. Len(s)
      PROVE  RunsAfter(s, i - 1) = IF Run(s[i]) \in After(s, i) THEN RunsAfter(s, i)
                                   ELSE RunsAfter(s, i) + 1
  <2>1. (i - 1) + 1 .. Len(s) = (i + 1 .. Len(s)) \cup {i}
    BY <1>0
  <2>2. After(s, i - 1) = After(s, i) \cup {Run(s[i])}
    BY <2>1 DEF After
  <2>3. i \in 0 .. Len(s)
    BY <1>0
  <2>4. Cardinality(After(s, i - 1)) =
          IF Run(s[i]) \in After(s, i) THEN Cardinality(After(s, i)) ELSE Cardinality(After(s, i)) + 1
    BY <1>2, <2>2, <2>3, FS_AddElement
  <2>5. QED
    BY <1>1, <2>4
<1>5. QED
  BY <1>1, <1>2, <1>3, <1>4

\* What is kept is everything after the longest beginning the bound leaves no room for.
LEMMA KeptIsTheEnd ==
    ASSUME NEW s \in Seq(Change)
    PROVE  \E cut \in 0 .. Len(s) :
            /\ Kept(s) = SubSeq(s, cut + 1, Len(s))
            /\ RunsAfter(s, cut) <= RUNS_KEPT
            /\ \A i \in 0 .. Len(s) : RunsAfter(s, i) <= RUNS_KEPT => cut <= i
<1> DEFINE S == {i \in 0 .. Len(s) : RunsAfter(s, i) <= RUNS_KEPT}
<1>0. Len(s) \in Nat
  OBVIOUS
<1>1. Len(s) \in S
  BY <1>0, RunsAreCounted, UndoAssumption
<1>2. S \in SUBSET Nat /\ S # {}
  BY <1>0, <1>1
<1>3. Min(S) \in S /\ \A i \in S : Min(S) <= i
  BY <1>2, MinIsLeast
<1>4. Kept(s) = SubSeq(s, Min(S) + 1, Len(s))
  BY DEF Kept
<1>5. QED
  BY <1>3, <1>4

\* The end of a sequence, place by place.
LEMMA EndOfSequence ==
    ASSUME NEW T, NEW s \in Seq(T), NEW cut \in 0 .. Len(s)
    PROVE  LET t == SubSeq(s, cut + 1, Len(s)) IN
           /\ t \in Seq(T) /\ Len(t) = Len(s) - cut
           /\ \A k \in 1 .. Len(s) - cut : t[k] = s[cut + k] /\ cut + k \in 1 .. Len(s)
<1>1. Len(s) \in Nat
  OBVIOUS
<1>2. QED
  BY <1>1

LEMMA KeptTyped ==
    ASSUME NEW s \in Seq(Change)
    PROVE  Kept(s) \in Seq(Change)
BY KeptIsTheEnd, EndOfSequence

\* Picking every place from one on is taking the end.
LEMMA PickedEnd ==
    ASSUME NEW T, NEW s \in Seq(T), NEW cut \in 0 .. Len(s)
    PROVE  Picked(s, cut + 1 .. Len(s)) = SubSeq(s, cut + 1, Len(s))
<1> DEFINE I == cut + 1 .. Len(s)
           t == SubSeq(s, cut + 1, Len(s))
<1>1. Len(s) \in Nat /\ cut \in Nat /\ cut <= Len(s)
  OBVIOUS
<1>2. Cardinality(I) = Len(s) - cut
  <2>1. cut + 1 \in Int /\ Len(s) \in Int
    BY <1>1
  <2>2. Cardinality(I) = IF cut + 1 > Len(s) THEN 0 ELSE Len(s) - (cut + 1) + 1
    BY <2>1, FS_Interval
  <2>3. QED
    BY <1>1, <2>2
<1>3. ASSUME NEW k \in 1 .. Len(s) - cut
      PROVE  (CHOOSE i \in I : Cardinality({j \in I : j <= i}) = k) = cut + k
  <2>1. ASSUME NEW i \in I PROVE Cardinality({j \in I : j <= i}) = i - cut
    <3>1. {j \in I : j <= i} = cut + 1 .. i
      BY <1>1
    <3>2. i \in Int /\ cut + 1 \in Int /\ ~(cut + 1 > i)
      BY <1>1
    <3>3. Cardinality(cut + 1 .. i) = IF cut + 1 > i THEN 0 ELSE i - (cut + 1) + 1
      BY <3>2, FS_Interval
    <3>4. Cardinality(cut + 1 .. i) = i - cut
      BY <1>1, <3>2, <3>3
    <3>5. QED
      BY <3>1, <3>4
  <2>2. cut + k \in I
    BY <1>1
  <2>3. \A i \in I : (Cardinality({j \in I : j <= i}) = k) <=> (i = cut + k)
    BY <1>1, <2>1
  <2>4. QED
    BY <2>2, <2>3
<1>4. t \in Seq(T) /\ Len(t) = Len(s) - cut /\ \A k \in 1 .. Len(s) - cut : t[k] = s[cut + k]
  BY EndOfSequence
<1>5. Picked(s, I) = [k \in 1 .. Len(s) - cut |-> s[cut + k]]
  <2>1. Picked(s, I) = [k \in 1 .. Len(s) - cut |->
                            s[CHOOSE i \in I : Cardinality({j \in I : j <= i}) = k]]
    BY <1>2 DEF Picked
  <2>2. QED
    BY <1>3, <2>1
<1> HIDE DEF I, t
<1>6. t = [k \in 1 .. Len(s) - cut |-> s[cut + k]]
  BY <1>4
<1>7. QED
  BY <1>5, <1>6 DEF I, t

\* Of changes no run of which is broken, what is kept is whole runs, and as many of them
\* as the bound allows where anything was let go.
LEMMA WholeRunsAreKept ==
    ASSUME NEW s \in Seq(Change), Unbroken(s),
           NEW gone, gone = {Run(c) : c \in ToSet(s)} \ {Run(c) : c \in ToSet(Kept(s))}
    PROVE  /\ Kept(s) = Picked(s, {i \in DOMAIN s : Run(s[i]) \notin gone})
           /\ gone # {} => Cardinality({Run(c) : c \in ToSet(Kept(s))}) = RUNS_KEPT
<1>1. PICK cut \in 0 .. Len(s) :
        /\ Kept(s) = SubSeq(s, cut + 1, Len(s))
        /\ RunsAfter(s, cut) <= RUNS_KEPT
        /\ \A i \in 0 .. Len(s) : RunsAfter(s, i) <= RUNS_KEPT => cut <= i
  BY KeptIsTheEnd
<1>2. Len(s) \in Nat /\ cut \in Nat /\ RUNS_KEPT \in Nat
  BY UndoAssumption
<1>3. /\ Kept(s) \in Seq(Change) /\ Len(Kept(s)) = Len(s) - cut
      /\ \A k \in 1 .. Len(s) - cut : Kept(s)[k] = s[cut + k] /\ cut + k \in 1 .. Len(s)
  BY <1>1, EndOfSequence
<1>4. {Run(c) : c \in ToSet(Kept(s))} = After(s, cut)
  <2>1. DOMAIN Kept(s) = 1 .. Len(s) - cut
    BY <1>3
  <2>2. ToSet(Kept(s)) = {s[j] : j \in cut + 1 .. Len(s)}
    <3>1. ASSUME NEW k \in 1 .. Len(s) - cut PROVE Kept(s)[k] = s[cut + k] /\ cut + k \in cut + 1 .. Len(s)
      BY <1>2, <1>3
    <3>2. ASSUME NEW j \in cut + 1 .. Len(s) PROVE j - cut \in 1 .. Len(s) - cut /\ cut + (j - cut) = j
      BY <1>2
    <3>3. ASSUME NEW j \in cut + 1 .. Len(s) PROVE s[j] = Kept(s)[j - cut]
      BY <3>1, <3>2
    <3>4. \A x \in ToSet(Kept(s)) : \E j \in cut + 1 .. Len(s) : x = s[j]
      BY <2>1, <3>1 DEF ToSet
    <3>5. \A j \in cut + 1 .. Len(s) : s[j] \in ToSet(Kept(s))
      BY <2>1, <3>2, <3>3 DEF ToSet
    <3>6. QED
      BY <3>4, <3>5
  <2>3. QED
    BY <2>2 DEF After
<1>5. {Run(c) : c \in ToSet(s)} = {Run(s[i]) : i \in 1 .. Len(s)}
  BY DEF ToSet
<1>6. cut # 0 => RunsAfter(s, cut) = RUNS_KEPT /\ Run(s[cut]) \notin After(s, cut)
  <2>1. SUFFICES ASSUME cut # 0 PROVE RunsAfter(s, cut) = RUNS_KEPT /\ Run(s[cut]) \notin After(s, cut)
    OBVIOUS
  <2>2. cut - 1 \in 0 .. Len(s) /\ cut \in 1 .. Len(s) /\ ~(cut <= cut - 1)
    BY <1>2, <2>1
  <2>3. ~(RunsAfter(s, cut - 1) <= RUNS_KEPT)
    BY <1>1, <2>2
  <2>4. RunsAfter(s, cut) \in Nat /\ RunsAfter(s, cut - 1) \in Nat
    BY <2>2, RunsAreCounted
  <2>5. RunsAfter(s, cut - 1) = IF Run(s[cut]) \in After(s, cut) THEN RunsAfter(s, cut)
                                ELSE RunsAfter(s, cut) + 1
    BY <2>2, RunsAreCounted
  <2>6. Run(s[cut]) \notin After(s, cut)
    BY <1>1, <2>3, <2>5
  <2>7. QED
    BY <1>1, <1>2, <2>3, <2>4, <2>5, <2>6
<1>7. ASSUME NEW i \in 1 .. cut PROVE Run(s[i]) \notin After(s, cut)
  <2>1. SUFFICES ASSUME Run(s[i]) \in After(s, cut) PROVE FALSE
    OBVIOUS
  <2>2. PICK k \in cut + 1 .. Len(s) : Run(s[i]) = Run(s[k])
    BY <2>1 DEF After
  <2>3. i \in 1 .. Len(s) /\ k \in 1 .. Len(s) /\ i < k /\ cut \in i .. k /\ cut # 0
    BY <1>2
  <2>4. Run(s[cut]) = Run(s[i])
    BY <2>2, <2>3 DEF Unbroken
  <2>5. QED
    BY <1>6, <2>1, <2>3, <2>4
<1>8. {i \in DOMAIN s : Run(s[i]) \notin gone} = cut + 1 .. Len(s)
  <2>1. DOMAIN s = 1 .. Len(s)
    OBVIOUS
  <2>2. ASSUME NEW i \in 1 .. Len(s) PROVE Run(s[i]) \notin gone <=> Run(s[i]) \in After(s, cut)
    BY <1>4, <1>5
  <2>3. ASSUME NEW i \in cut + 1 .. Len(s) PROVE i \in 1 .. Len(s) /\ Run(s[i]) \in After(s, cut)
    BY <1>2 DEF After
  <2>4. ASSUME NEW i \in 1 .. Len(s), i \notin cut + 1 .. Len(s) PROVE Run(s[i]) \notin After(s, cut)
    <3>1. i \in 1 .. cut
      BY <1>2, <2>4
    <3>2. QED
      BY <1>7, <3>1
  <2>5. QED
    BY <2>1, <2>2, <2>3, <2>4
<1>9. Kept(s) = Picked(s, {i \in DOMAIN s : Run(s[i]) \notin gone})
  BY <1>1, <1>8, PickedEnd
<1>10. gone # {} => cut # 0
  <2>1. cut = 0 => After(s, cut) = {Run(s[i]) : i \in 1 .. Len(s)}
    BY DEF After
  <2>2. QED
    BY <1>4, <1>5, <2>1
<1>11. Cardinality(After(s, cut)) = RunsAfter(s, cut)
  BY RunsAreCounted
<1>12. QED
  BY <1>4, <1>6, <1>9, <1>10, <1>11

---------------------------------------------------------------------------
LEMMA FunctionIsSequence ==
    ASSUME NEW T, NEW n \in Nat, NEW f \in [1 .. n -> T]
    PROVE  f \in Seq(T) /\ Len(f) = n
OBVIOUS

LEMMA IdleTyped == Idle \in Doing /\ Idle.at = "idle"
BY DEF Idle, Doing

\* What a process comes to be in the middle of, and what the others are in the middle of.
LEMMA BecomesOf ==
    ASSUME TypeOK, NEW p \in Process, NEW what \in Doing, Becomes(p, what)
    PROVE  /\ doing' \in [Process -> Doing] /\ doing'[p] = what
           /\ \A q \in Process : q # p => doing'[q] = doing[q]
BY DEF TypeOK, Becomes

\* What another is in the middle of once the settings named have been written.
Beside(d, names) == IF d.at = "reversing" THEN [d EXCEPT !.met = @ \cup names] ELSE d

LEMMA WritesOf ==
    ASSUME TypeOK, NEW p \in Process, NEW what \in Doing, NEW names \in SUBSET Setting,
           Writes(p, names, what)
    PROVE  /\ doing' \in [Process -> Doing] /\ doing'[p] = what
           /\ \A q \in Process : q # p => doing'[q] = Beside(doing[q], names)
<1>1. ASSUME NEW q \in Process PROVE Beside(doing[q], names) \in Doing
  <2>1. doing[q] \in Doing
    BY DEF TypeOK
  <2>2. QED
    BY <2>1 DEF Beside, Doing
<1>2. doing' = [q \in Process |-> IF q = p THEN what ELSE Beside(doing[q], names)]
  BY DEF Writes, Beside
<1>3. QED
  BY <1>1, <1>2

\* The run a change of settings is weighed as.
Weighed(names, value) ==
    LET order == SetToSeq(names) IN
    [i \in 1 .. Len(order) |->
        [operation |-> "settings", at |-> clock, name |-> order[i],
         previous |-> store[order[i]], current |-> value[order[i]]]]

LEMMA WeighedIsARun ==
    ASSUME TypeOK, NEW names \in SUBSET Setting, names # {}, NEW value \in [names -> Held]
    PROVE  /\ Weighed(names, value) \in Seq(Change)
           /\ OneRun(Weighed(names, value)) /\ Distinct(Weighed(names, value))
           /\ \A c \in ToSet(Weighed(names, value)) : store[c.name] = c.previous
<1> DEFINE order == SetToSeq(names)
           plan == Weighed(names, value)
<1>1. IsFiniteSet(names)
  BY UndoAssumption, FS_Subset
<1>2. /\ order \in Seq(names) /\ Len(order) > 0
      /\ \A i, j \in 1 .. Len(order) : order[i] = order[j] => i = j
  BY <1>1, SetIsListed
<1>3. plan = [i \in 1 .. Len(order) |->
                [operation |-> "settings", at |-> clock, name |-> order[i],
                 previous |-> store[order[i]], current |-> value[order[i]]]]
  BY DEF Weighed
<1> HIDE DEF plan, order
<1>4. Len(order) \in Nat
  BY <1>2
<1>5. ASSUME NEW i \in 1 .. Len(order)
      PROVE  /\ plan[i] \in Change /\ plan[i].name = order[i]
             /\ Run(plan[i]) = <<"settings", clock>>
             /\ plan[i].previous = store[order[i]]
  <2>1. order[i] \in names
    BY <1>2
  <2>2. order[i] \in Setting /\ store[order[i]] \in Held /\ value[order[i]] \in Held
    BY <2>1 DEF TypeOK
  <2>3. QED
    BY <1>3, <2>2 DEF TypeOK, Change, Run
<1>6. DOMAIN plan = 1 .. Len(order) /\ plan \in Seq(Change) /\ Len(plan) = Len(order)
  <2>1. plan \in [1 .. Len(order) -> Change]
    BY <1>3, <1>5
  <2>2. QED
    BY <1>4, <2>1
<1>7. OneRun(plan)
  <2>1. 1 \in 1 .. Len(order)
    BY <1>2, <1>4
  <2>2. plan # <<>>
    BY <1>2, <1>4, <1>6
  <2>3. QED
    BY <1>5, <1>6, <2>1, <2>2 DEF OneRun
<1>8. Distinct(plan)
  BY <1>2, <1>5, <1>6 DEF Distinct
<1>9. \A c \in ToSet(plan) : store[c.name] = c.previous
  BY <1>5, <1>6 DEF ToSet
<1>10. QED
  BY <1>6, <1>7, <1>8, <1>9 DEF plan

LEMMA InitReverses == Init => Reversal
<1>1. SUFFICES ASSUME Init PROVE Reversal
  OBVIOUS
<1>2. TypeOK
  BY <1>1, IdleTyped, UndoAssumption DEF Init, TypeOK, Held
<1>3. QED
  BY <1>1, <1>2, IdleTyped DEF Init, Reversal, NamedIsRead, GoingBack

\* A step that leaves the store alone and takes one process on leaves the others as
\* they were.
LEMMA OneGoesOn ==
    ASSUME Reversal, NEW p \in Process, NEW what \in Doing, Becomes(p, what),
           store' = store, journal' \in Seq(Change), clock' \in 0 .. CLOCK_MAX,
           overlaps' \in 0 .. OVERLAP_MAX, NamedIsRead(what), GoingBack(what, store)
    PROVE  Reversal'
<1>1. TypeOK
  BY DEF Reversal
<1>2. /\ doing' \in [Process -> Doing] /\ doing'[p] = what
      /\ \A q \in Process : q # p => doing'[q] = doing[q]
  BY <1>1, BecomesOf
<1>3. TypeOK'
  BY <1>1, <1>2 DEF TypeOK
<1>4. ASSUME NEW q \in Process PROVE NamedIsRead(doing'[q]) /\ GoingBack(doing'[q], store')
  BY <1>2 DEF Reversal
<1>5. QED
  BY <1>3, <1>4 DEF Reversal

LEMMA WeighReverses ==
    ASSUME Reversal, NEW p \in Process, NEW names \in SUBSET Setting,
           NEW value \in [names -> Held], Weigh(p, names, value)
    PROVE  Reversal'
<1> DEFINE plan == Weighed(names, value)
           what == [Idle EXCEPT !.at = "weighed", !.plan = plan]
<1>1. TypeOK /\ names # {}
  BY DEF Reversal, Weigh
<1>2. plan \in Seq(Change)
  BY <1>1, WeighedIsARun
<1>3. Becomes(p, what)
  BY DEF Weigh, Weighed
<1> HIDE DEF plan
<1>4. what \in Doing /\ what.at = "weighed"
  BY <1>2, IdleTyped DEF Doing
<1>5. overlaps' \in 0 .. OVERLAP_MAX
  BY <1>1, UndoAssumption DEF Weigh, Begins, TypeOK
<1>6. NamedIsRead(what) /\ GoingBack(what, store)
  BY <1>4 DEF NamedIsRead, GoingBack
<1> HIDE DEF what
<1>7. QED
  BY <1>1, <1>3, <1>4, <1>5, <1>6, OneGoesOn DEF Weigh, TypeOK

LEMMA OpenReverses ==
    ASSUME Reversal, NEW p \in Process, Open(p)
    PROVE  Reversal'
<1> DEFINE d == doing[p]
           stamped == [i \in DOMAIN d.plan |-> [d.plan[i] EXCEPT !.at = clock]]
           what == [d EXCEPT !.at = "entering", !.read = journal, !.plan = stamped]
<1>1. TypeOK /\ d \in Doing /\ d.plan \in Seq(Change)
  BY DEF Reversal, TypeOK, Doing
<1>2. stamped \in Seq(Change)
  <2>1. ASSUME NEW c \in Change PROVE [c EXCEPT !.at = clock] \in Change
    BY <1>1 DEF Change, TypeOK
  <2>2. stamped \in [1 .. Len(d.plan) -> Change] /\ Len(d.plan) \in Nat
    BY <1>1, <2>1
  <2>3. QED
    BY <2>2, FunctionIsSequence
<1>3. Becomes(p, what)
  BY DEF Open
<1> HIDE DEF stamped
<1>4. what \in Doing /\ what.at = "entering"
  BY <1>1, <1>2 DEF Doing, TypeOK
<1>5. NamedIsRead(what) /\ GoingBack(what, store)
  BY <1>4 DEF NamedIsRead, GoingBack
<1> HIDE DEF what
<1>6. QED
  BY <1>1, <1>3, <1>4, <1>5, OneGoesOn DEF Open, TypeOK

\* Who is putting a run back beside a process that writes settings goes on.
LEMMA BesideGoesOn ==
    ASSUME NEW d \in Doing, NEW held, NEW now, NEW names \in SUBSET Setting,
           \A s \in Setting : s \notin names => now[s] = held[s],
           NamedIsRead(d), GoingBack(d, held)
    PROVE  NamedIsRead(Beside(d, names)) /\ GoingBack(Beside(d, names), now)
<1> DEFINE e == Beside(d, names)
<1>1. CASE d.at # "reversing"
  BY <1>1 DEF Beside, GoingBack
<1>2. CASE d.at = "reversing"
  <2>1. /\ e.at = "reversing" /\ e.plan = d.plan /\ e.left = d.left
        /\ e.met = d.met \cup names
    BY <1>2 DEF Beside, Doing
  <2> HIDE DEF e
  <2>2. ASSUME NEW c \in ToSet(e.plan)
        PROVE  \/ c.name \in e.met
               \/ now[c.name] = c.previous
               \/ now[c.name] = c.current /\ c \in ToSet(e.left)
    <3>1. c.name \in Setting
      <4>1. e.plan \in Seq(Change)
        BY <2>1 DEF Doing
      <4>2. c \in Change
        BY <4>1 DEF ToSet
      <4>3. QED
        BY <4>2 DEF Change
    <3>2. CASE c.name \in names
      BY <2>1, <3>2
    <3>3. CASE c.name \notin names
      <4>1. now[c.name] = held[c.name]
        BY <3>1, <3>3
      <4>2. QED
        BY <1>2, <2>1, <4>1 DEF GoingBack
    <3>4. QED
      BY <3>2, <3>3
  <2>3. NamedIsRead(e)
    BY <2>1 DEF NamedIsRead
  <2>4. GoingBack(e, now)
    BY <1>2, <2>1, <2>2 DEF GoingBack
  <2>5. QED
    BY <2>3, <2>4 DEF e
<1>3. QED
  BY <1>1, <1>2

\* A step that writes the settings named and takes one process on.
LEMMA OneWrites ==
    ASSUME Reversal, NEW p \in Process, NEW what \in Doing, NEW names \in SUBSET Setting,
           Writes(p, names, what), store' \in [Setting -> Held],
           \A s \in Setting : s \notin names => store'[s] = store[s],
           UNCHANGED <<journal, clock, overlaps>>,
           NamedIsRead(what), GoingBack(what, store')
    PROVE  Reversal'
<1>1. TypeOK
  BY DEF Reversal
<1>2. /\ doing' \in [Process -> Doing] /\ doing'[p] = what
      /\ \A q \in Process : q # p => doing'[q] = Beside(doing[q], names)
  BY <1>1, WritesOf
<1>3. TypeOK'
  BY <1>1, <1>2 DEF TypeOK
<1>4. ASSUME NEW q \in Process PROVE NamedIsRead(doing'[q]) /\ GoingBack(doing'[q], store')
  <2>1. CASE q = p
    BY <1>2, <2>1
  <2>2. CASE q # p
    <3>1. doing[q] \in Doing /\ NamedIsRead(doing[q]) /\ GoingBack(doing[q], store)
      BY DEF Reversal, TypeOK
    <3>2. NamedIsRead(Beside(doing[q], names)) /\ GoingBack(Beside(doing[q], names), store')
      BY <3>1, BesideGoesOn
    <3>3. QED
      BY <1>2, <2>2, <3>2
  <2>3. QED
    BY <2>1, <2>2
<1>5. QED
  BY <1>3, <1>4 DEF Reversal

LEMMA EnterReverses ==
    ASSUME Reversal, NEW p \in Process, Enter(p)
    PROVE  Reversal'
<1> DEFINE d == doing[p]
           what == IF d.at = "entering" THEN [Idle EXCEPT !.at = "entered", !.plan = d.plan] ELSE Idle
<1>1. TypeOK /\ d \in Doing /\ d.plan \in Seq(Change) /\ d.read \in Seq(Change)
  BY DEF Reversal, TypeOK, Doing
<1>2. d.read \o d.plan \in Seq(Change)
  BY <1>1
<1>3. journal' \in Seq(Change)
  BY <1>2, KeptTyped DEF Enter
<1>4. what \in Doing /\ what.at \in {"entered", "idle"}
  BY <1>1, IdleTyped DEF Doing
<1>5. NamedIsRead(what) /\ GoingBack(what, store)
  BY <1>4 DEF NamedIsRead, GoingBack
<1>6. Becomes(p, what)
  BY DEF Enter
<1> HIDE DEF what
<1>7. QED
  BY <1>1, <1>3, <1>4, <1>5, <1>6, OneGoesOn DEF Enter, TypeOK

LEMMA RecordReverses ==
    ASSUME Reversal, NEW p \in Process, Record(p)
    PROVE  Reversal'
<1> DEFINE plan == doing[p].plan
           names == {c.name : c \in ToSet(plan)}
<1>1. TypeOK /\ plan \in Seq(Change)
  BY DEF Reversal, TypeOK, Doing
<1>2. \A c \in ToSet(plan) : c.name \in Setting /\ c.current \in Held
  <2>1. \A c \in ToSet(plan) : c \in Change
    BY <1>1 DEF ToSet
  <2>2. QED
    BY <2>1 DEF Change
<1>3. names \in SUBSET Setting
  BY <1>2
<1>4. store' = [s \in Setting |-> IF \E c \in ToSet(plan) : c.name = s
                                  THEN (CHOOSE c \in ToSet(plan) : c.name = s).current
                                  ELSE store[s]]
  BY DEF Record
<1>5. \A s \in Setting : s \notin names => store'[s] = store[s]
  BY <1>4
<1>6. ASSUME NEW s \in Setting PROVE store'[s] \in Held
  <2>1. CASE \E c \in ToSet(plan) : c.name = s
    <3>1. store'[s] = (CHOOSE c \in ToSet(plan) : c.name = s).current
      BY <1>4, <2>1
    <3>2. (CHOOSE c \in ToSet(plan) : c.name = s) \in ToSet(plan)
      BY <2>1
    <3>3. QED
      BY <1>2, <3>1, <3>2
  <2>2. CASE ~\E c \in ToSet(plan) : c.name = s
    BY <1>1, <1>4, <2>2 DEF TypeOK
  <2>3. QED
    BY <2>1, <2>2
<1>7. store' \in [Setting -> Held]
  BY <1>4, <1>6
<1>8. NamedIsRead(Idle) /\ GoingBack(Idle, store')
  BY IdleTyped DEF NamedIsRead, GoingBack
<1>9. Writes(p, names, Idle) /\ UNCHANGED <<journal, clock, overlaps>>
  BY DEF Record
<1>10. QED
  BY <1>3, <1>5, <1>7, <1>8, <1>9, IdleTyped, OneWrites

\* The changes of one run, as they stand in the journal.
LEMMA TogetherOf ==
    ASSUME NEW s \in Seq(Change), NEW operation, NEW at
    PROVE  LET own == {i \in 1 .. Len(s) : Run(s[i]) = <<operation, at>>}
               run == Together(s, operation, at)
           IN  /\ run \in Seq(Change)
               /\ own # {} => run # <<>>
               /\ \E f \in [1 .. Len(run) -> own] :
                    /\ \A k \in 1 .. Len(run) : run[k] = s[f[k]]
                    /\ \A k, l \in 1 .. Len(run) : k < l => f[k] < f[l]
<1> DEFINE own == {i \in 1 .. Len(s) : Run(s[i]) = <<operation, at>>}
           run == Together(s, operation, at)
<1>1. own \in SUBSET (1 .. Len(s)) /\ run = Picked(s, own) /\ Len(s) \in Nat
  <2>1. Len(s) \in Nat /\ DOMAIN s = 1 .. Len(s)
    OBVIOUS
  <2>2. run = Picked(s, {i \in DOMAIN s : Run(s[i]) = <<operation, at>>})
    BY DEF Together
  <2>3. run = Picked(s, own)
    BY <2>1, <2>2, Zenon
  <2>4. QED
    BY <2>1, <2>3
<1> HIDE DEF own, run
<1>2. Cardinality(own) \in Nat /\ run \in Seq(Change) /\ Len(run) = Cardinality(own)
  BY <1>1, PickedInOrder
<1>3. PICK f \in [1 .. Cardinality(own) -> own] :
        /\ \A k \in 1 .. Cardinality(own) : Picked(s, own)[k] = s[f[k]]
        /\ \A i \in own : \E k \in 1 .. Cardinality(own) : f[k] = i
        /\ \A k, l \in 1 .. Cardinality(own) : k < l => f[k] < f[l]
  BY <1>1, PickedInOrder
<1>4. own # {} => run # <<>>
  <2>1. IsFiniteSet(own)
    BY <1>1, PlacesAreCounted
  <2>2. own # {} => Cardinality(own) # 0
    BY <2>1, FS_EmptySet
  <2>3. QED
    BY <1>2, <2>2
<1>5. QED
  BY <1>1, <1>2, <1>3, <1>4 DEF own, run

\* A run that is judged to go back holds the newest change of each of its settings, each
\* once, and every one holds what its change left.
LEMMA JudgedRun ==
    ASSUME NEW s \in Seq(Change), NEW operation, NEW at, Judged(s, operation, at)
    PROVE  LET run == Together(s, operation, at) IN
           /\ Distinct(run)
           /\ \A c \in ToSet(run) : store[c.name] = c.current /\ IsNewest(s, c)
<1> DEFINE own == {i \in 1 .. Len(s) : Run(s[i]) = <<operation, at>>}
           run == Together(s, operation, at)
<1>0. Len(s) \in Nat
  OBVIOUS
<1>1. ASSUME NEW i \in own PROVE store[s[i].name] = s[i].current /\ Newest(s, i)
  <2> DEFINE S == {j \in 1 .. Len(s) : s[j] = s[i]}
  <2>1. S \in SUBSET Nat /\ i \in S
    BY <1>0
  <2>2. Min(S) \in S /\ Min(S) <= i
    BY <2>1, MinIsLeast
  <2>3. Reversible(s, Min(S))
    BY DEF Judged
  <2> HIDE DEF S
  <2>4. Min(S) \in 1 .. Len(s) /\ s[Min(S)] = s[i]
    BY <2>2 DEF S
  <2>5. ~(Min(S) < i)
    <3>1. SUFFICES ASSUME Min(S) < i PROVE FALSE
      OBVIOUS
    <3>2. i \in Min(S) + 1 .. Len(s)
      BY <1>0, <2>4, <3>1
    <3>3. QED
      BY <2>3, <2>4, <3>2 DEF Reversible
  <2>6. Min(S) = i
    BY <1>0, <2>2, <2>4, <2>5
  <2>7. QED
    BY <2>3, <2>6 DEF Reversible, Newest
<1>2. run \in Seq(Change)
  BY TogetherOf
<1>3. PICK f \in [1 .. Len(run) -> own] :
        /\ \A k \in 1 .. Len(run) : run[k] = s[f[k]]
        /\ \A k, l \in 1 .. Len(run) : k < l => f[k] < f[l]
  BY TogetherOf
<1>4. own \in SUBSET (1 .. Len(s))
  OBVIOUS
<1> HIDE DEF own, run
<1>5. ASSUME NEW k \in 1 .. Len(run), NEW l \in 1 .. Len(run), k < l PROVE run[k].name # run[l].name
  <2>1. f[k] \in own /\ f[l] \in own /\ f[k] < f[l]
    BY <1>3, <1>5
  <2>2. f[k] \in 1 .. Len(s) /\ f[l] \in 1 .. Len(s)
    BY <1>4, <2>1
  <2>3. f[l] \in f[k] + 1 .. Len(s)
    BY <1>0, <2>1, <2>2
  <2>4. Newest(s, f[k])
    BY <1>1, <2>1
  <2>5. QED
    BY <1>3, <2>3, <2>4 DEF Newest
<1>6. Distinct(run)
  <2>1. DOMAIN run = 1 .. Len(run) /\ Len(run) \in Nat
    BY <1>2
  <2>2. ASSUME NEW k \in 1 .. Len(run), NEW l \in 1 .. Len(run), run[k].name = run[l].name
        PROVE  k = l
    <3>1. ~(k < l) /\ ~(l < k)
      BY <1>5, <2>2
    <3>2. QED
      BY <2>1, <3>1
  <2>3. QED
    BY <2>1, <2>2 DEF Distinct
<1>7. ASSUME NEW c \in ToSet(run) PROVE store[c.name] = c.current /\ IsNewest(s, c)
  <2>1. PICK k \in 1 .. Len(run) : c = run[k]
    BY <1>2 DEF ToSet
  <2>2. f[k] \in own /\ c = s[f[k]]
    BY <1>3, <2>1
  <2>3. store[c.name] = c.current /\ Newest(s, f[k])
    BY <1>1, <2>2
  <2>4. f[k] \in 1 .. Len(s)
    BY <1>4, <2>2
  <2>5. QED
    BY <2>2, <2>3, <2>4 DEF IsNewest
<1>8. QED
  BY <1>6, <1>7 DEF run

LEMMA NameReverses ==
    ASSUME Reversal, NEW p \in Process, NEW operation, NEW at, Name(p, operation, at)
    PROVE  Reversal'
<1> DEFINE run == Together(journal, operation, at)
           own == {i \in 1 .. Len(journal) : Run(journal[i]) = <<operation, at>>}
           what == [Idle EXCEPT !.at = "named", !.read = journal, !.plan = run]
<1>1. TypeOK /\ journal \in Seq(Change)
  BY DEF Reversal, TypeOK
<1>2. PICK c \in ToSet(journal) : c.at = at /\ c.operation = operation
  <2>1. operation \in {change.operation : change \in {c \in ToSet(journal) : c.at = at}}
    BY DEF Name
  <2>2. QED
    BY <2>1
<1>3. PICK i \in 1 .. Len(journal) : journal[i] = c
  BY <1>1 DEF ToSet
<1>4. i \in own
  BY <1>2, <1>3 DEF Run
<1>5. run \in Seq(Change) /\ run # <<>>
  BY <1>1, <1>4, TogetherOf
<1>6. PICK f \in [1 .. Len(run) -> own] : \A k \in 1 .. Len(run) : run[k] = journal[f[k]]
  BY <1>1, TogetherOf
<1>7. Becomes(p, what)
  BY DEF Name
<1> HIDE DEF run
<1>8. run[1].operation = operation /\ run[1].at = at
  <2>1. 1 \in 1 .. Len(run)
    BY <1>5
  <2>2. f[1] \in own /\ run[1] = journal[f[1]]
    BY <1>6, <2>1
  <2>3. Run(run[1]) = <<operation, at>>
    BY <2>2
  <2>4. QED
    BY <2>3 DEF Run
<1>9. /\ what \in Doing /\ what.at = "named" /\ what.plan = run
      /\ what.read = journal
  BY <1>1, <1>5, IdleTyped DEF Doing
<1>10. overlaps' \in 0 .. OVERLAP_MAX
  BY <1>1, UndoAssumption DEF Name, Begins, TypeOK
<1> HIDE DEF what
<1>11. NamedIsRead(what) /\ GoingBack(what, store)
  BY <1>5, <1>8, <1>9 DEF NamedIsRead, GoingBack, run
<1>12. QED
  BY <1>1, <1>7, <1>9, <1>10, <1>11, OneGoesOn DEF Name, TypeOK

LEMMA JudgeReverses ==
    ASSUME Reversal, NEW p \in Process, Judge(p)
    PROVE  Reversal'
<1> DEFINE run == doing[p].plan
           goes == Judged(doing[p].read, run[1].operation, run[1].at)
           back == [Idle EXCEPT !.at = "reversing", !.plan = run, !.left = Reverse(run)]
           what == IF goes THEN back ELSE Idle
<1>1. /\ TypeOK /\ run \in Seq(Change) /\ doing[p].read \in Seq(Change)
      /\ doing[p].at = "named"
  BY DEF Reversal, TypeOK, Doing, Judge
<1>2. run # <<>> /\ run = Together(doing[p].read, run[1].operation, run[1].at)
  BY <1>1 DEF Reversal, NamedIsRead
<1>3. Reverse(run) \in Seq(Change) /\ ToSet(Reverse(run)) = ToSet(run)
  BY <1>1, ReverseElements
<1>4. Becomes(p, what)
  BY DEF Judge
<1>5. goes => Distinct(run) /\ \A c \in ToSet(run) : store[c.name] = c.current
  BY <1>1, <1>2, JudgedRun
<1> HIDE DEF run, goes
<1>6. /\ back \in Doing /\ back.at = "reversing" /\ back.plan = run
      /\ back.left = Reverse(run)
  BY <1>1, <1>3, IdleTyped DEF Doing
<1> HIDE DEF back
<1>7. goes => NamedIsRead(back) /\ GoingBack(back, store)
  BY <1>2, <1>3, <1>5, <1>6 DEF NamedIsRead, GoingBack
<1>8. NamedIsRead(Idle) /\ GoingBack(Idle, store)
  BY IdleTyped DEF NamedIsRead, GoingBack
<1>9. what \in Doing /\ NamedIsRead(what) /\ GoingBack(what, store)
  BY <1>6, <1>7, <1>8, IdleTyped
<1> HIDE DEF what
<1>10. QED
  BY <1>1, <1>4, <1>9, OneGoesOn DEF Judge, TypeOK

\* A sequence is its first element and the rest.
LEMMA HeadAndTail ==
    ASSUME NEW T, NEW s \in Seq(T), s # <<>>
    PROVE  /\ Head(s) \in T /\ Tail(s) \in Seq(T) /\ Head(s) \in ToSet(s)
           /\ ToSet(Tail(s)) \subseteq ToSet(s)
           /\ \A x \in ToSet(s) : x = Head(s) \/ x \in ToSet(Tail(s))
<1>1. Len(s) \in Nat /\ Len(s) > 0 /\ DOMAIN s = 1 .. Len(s)
  OBVIOUS
<1>2. Head(s) = s[1] /\ Tail(s) \in Seq(T) /\ Len(Tail(s)) = Len(s) - 1 /\ s[1] \in T
  BY <1>1
<1>3. DOMAIN Tail(s) = 1 .. Len(s) - 1 /\ \A i \in 1 .. Len(s) - 1 : Tail(s)[i] = s[i + 1]
  BY <1>1, <1>2
<1>4. ToSet(Tail(s)) \subseteq ToSet(s)
  <2>1. \A i \in 1 .. Len(s) - 1 : i + 1 \in 1 .. Len(s)
    BY <1>1
  <2>2. QED
    BY <1>1, <1>3, <2>1 DEF ToSet
<1>5. ASSUME NEW x \in ToSet(s), x # Head(s) PROVE x \in ToSet(Tail(s))
  <2>1. PICK i \in 1 .. Len(s) : x = s[i]
    BY <1>1 DEF ToSet
  <2>2. i - 1 \in 1 .. Len(s) - 1 /\ (i - 1) + 1 = i
    BY <1>1, <1>2, <1>5, <2>1
  <2>3. x = Tail(s)[i - 1]
    BY <1>3, <2>1, <2>2
  <2>4. QED
    BY <1>3, <2>2, <2>3 DEF ToSet
<1>6. Head(s) \in ToSet(s)
  BY <1>1, <1>2 DEF ToSet
<1>7. QED
  BY <1>2, <1>4, <1>5, <1>6

\* One change of a run is put back.
LEMMA PutBackOf ==
    ASSUME Reversal, NEW p \in Process, PutBack(p)
    PROVE  LET d == doing[p]
               change == Head(d.left)
               theirs == store[change.name] \notin {change.previous, change.current}
               names == IF theirs THEN {} ELSE {change.name}
               what == [d EXCEPT !.left = Tail(d.left), !.done = d.done \cup names]
           IN  /\ d \in Doing /\ d.at = "reversing"
               /\ change \in Change /\ change \in ToSet(d.plan)
               /\ names \in SUBSET Setting
               /\ what \in Doing
               /\ Writes(p, names, what)
               /\ store' \in [Setting -> Held]
               /\ \A s \in Setting : s \notin names => store'[s] = store[s]
               /\ ~theirs => store'[change.name] = change.previous
               /\ GoingBack(what, store')
<1> DEFINE d == doing[p]
           change == Head(d.left)
           theirs == store[change.name] \notin {change.previous, change.current}
           names == IF theirs THEN {} ELSE {change.name}
           what == [d EXCEPT !.left = Tail(d.left), !.done = d.done \cup names]
<1>1. TypeOK /\ d \in Doing /\ d.at = "reversing" /\ d.left # <<>> /\ d.left \in Seq(Change)
  BY DEF Reversal, TypeOK, Doing, PutBack
<1>2. /\ change \in Change /\ Tail(d.left) \in Seq(Change)
      /\ change \in ToSet(d.left) /\ ToSet(Tail(d.left)) \subseteq ToSet(d.left)
      /\ \A c \in ToSet(d.left) : c = change \/ c \in ToSet(Tail(d.left))
  BY <1>1, HeadAndTail
<1>3. /\ d.plan # <<>> /\ Distinct(d.plan) /\ ToSet(d.left) \subseteq ToSet(d.plan)
      /\ \A c \in ToSet(d.plan) :
            \/ c.name \in d.met
            \/ store[c.name] = c.previous
            \/ store[c.name] = c.current /\ c \in ToSet(d.left)
  BY <1>1 DEF Reversal, GoingBack
<1>4. store' = [store EXCEPT ![change.name] = IF theirs THEN store[change.name] ELSE change.previous]
  BY DEF PutBack
<1>5. Writes(p, names, what)
  <2>1. Writes(p, names, [d EXCEPT !.left = Tail(@),
                              !.done = IF theirs THEN @ ELSE @ \cup {change.name}])
    BY DEF PutBack
  <2>2. [d EXCEPT !.left = Tail(@), !.done = IF theirs THEN @ ELSE @ \cup {change.name}] = what
    <3>1. CASE theirs
      BY <1>1, <3>1 DEF Doing
    <3>2. CASE ~theirs
      BY <1>1, <3>2 DEF Doing
    <3>3. QED
      BY <3>1, <3>2
  <2>3. QED
    BY <2>1, <2>2
<1>6. change.name \in Setting /\ change.previous \in Held
  BY <1>2 DEF Change
<1> HIDE DEF d, change
<1>7. names \in SUBSET Setting
  BY <1>6
<1>8. store \in [Setting -> Held]
  BY <1>1 DEF TypeOK
<1>9. store' \in [Setting -> Held] /\ \A s \in Setting : s \notin names => store'[s] = store[s]
  BY <1>4, <1>6, <1>8
<1>10. ~theirs => store'[change.name] = change.previous
  BY <1>4, <1>6, <1>8
<1>11. what \in Doing /\ what.at = "reversing" /\ what.plan = d.plan /\ what.left = Tail(d.left) /\ what.met = d.met
  BY <1>1, <1>2, <1>7 DEF Doing
<1>12. ASSUME NEW c \in ToSet(d.plan)
       PROVE  \/ c.name \in d.met
              \/ store'[c.name] = c.previous
              \/ store'[c.name] = c.current /\ c \in ToSet(Tail(d.left))
  <2>1. c.name \in Setting
    <3>1. c \in Change
      BY <1>1 DEF Doing, ToSet
    <3>2. QED
      BY <3>1 DEF Change
  <2>2. CASE c = change
    BY <1>3, <1>10, <2>2
  <2>3. CASE c # change
    <3>1. c.name # change.name
      <4>1. change \in ToSet(d.plan)
        BY <1>2, <1>3
      <4>2. PICK i \in DOMAIN d.plan : c = d.plan[i]
        BY DEF ToSet
      <4>3. PICK j \in DOMAIN d.plan : change = d.plan[j]
        BY <4>1 DEF ToSet
      <4>4. QED
        BY <1>3, <2>3, <4>2, <4>3 DEF Distinct
    <3>2. store'[c.name] = store[c.name]
      BY <1>9, <2>1, <3>1
    <3>3. QED
      BY <1>2, <1>3, <2>3, <3>2
  <2>4. QED
    BY <2>2, <2>3
<1>13. GoingBack(what, store')
  BY <1>2, <1>3, <1>11, <1>12 DEF GoingBack
<1>14. change \in ToSet(d.plan)
  BY <1>2, <1>3
<1>15. QED
  BY <1>1, <1>2, <1>5, <1>7, <1>9, <1>10, <1>11, <1>13, <1>14 DEF d, change

LEMMA PutBackReverses ==
    ASSUME Reversal, NEW p \in Process, PutBack(p)
    PROVE  Reversal'
<1> DEFINE d == doing[p]
           change == Head(d.left)
           theirs == store[change.name] \notin {change.previous, change.current}
           names == IF theirs THEN {} ELSE {change.name}
           what == [d EXCEPT !.left = Tail(d.left), !.done = d.done \cup names]
<1>1. /\ d \in Doing /\ d.at = "reversing" /\ names \in SUBSET Setting /\ what \in Doing
      /\ Writes(p, names, what) /\ store' \in [Setting -> Held]
      /\ \A s \in Setting : s \notin names => store'[s] = store[s]
      /\ GoingBack(what, store')
  BY PutBackOf
<1> HIDE DEF names
<1>2. what.at = "reversing"
  BY <1>1 DEF Doing
<1> HIDE DEF what, d
<1>3. NamedIsRead(what)
  BY <1>2 DEF NamedIsRead
<1>4. UNCHANGED <<journal, clock, overlaps>>
  BY DEF PutBack
<1>5. QED
  BY <1>1, <1>3, <1>4, OneWrites

\* What a reversal is journalled as.
Entries(d) ==
    LET put == Picked(d.plan, {i \in DOMAIN d.plan : d.plan[i].name \in d.done})
    IN  [i \in DOMAIN put |-> Inverted(put[i], clock)]

LEMMA EntriesOf ==
    ASSUME TypeOK, NEW d \in Doing
    PROVE  LET I == {i \in 1 .. Len(d.plan) : d.plan[i].name \in d.done} IN
           /\ Entries(d) \in Seq(Change)
           /\ \E f \in [1 .. Len(Entries(d)) -> I] :
                /\ \A k \in 1 .. Len(Entries(d)) : Entries(d)[k] = Inverted(d.plan[f[k]], clock)
                /\ \A k, l \in 1 .. Len(Entries(d)) : k < l => f[k] < f[l]
<1> DEFINE I == {i \in 1 .. Len(d.plan) : d.plan[i].name \in d.done}
           put == Picked(d.plan, I)
           m == Cardinality(I)
<1>1. d.plan \in Seq(Change) /\ Len(d.plan) \in Nat /\ DOMAIN d.plan = 1 .. Len(d.plan)
  BY DEF Doing
<1>2. I \in SUBSET (1 .. Len(d.plan))
  OBVIOUS
<1>3. Entries(d) = [i \in DOMAIN put |-> Inverted(put[i], clock)]
  <2>1. {i \in DOMAIN d.plan : d.plan[i].name \in d.done} = I
    BY <1>1
  <2>2. QED
    BY <2>1 DEF Entries
<1> HIDE DEF I
<1>4. m \in Nat /\ put \in Seq(Change) /\ Len(put) = m
  BY <1>1, <1>2, PickedInOrder
<1>5. PICK f \in [1 .. m -> I] :
        /\ \A k \in 1 .. m : put[k] = d.plan[f[k]]
        /\ \A i \in I : \E k \in 1 .. m : f[k] = i
        /\ \A k, l \in 1 .. m : k < l => f[k] < f[l]
  BY <1>1, <1>2, PickedInOrder
<1> HIDE DEF put, m
<1>6. DOMAIN put = 1 .. m /\ \A k \in 1 .. m : put[k] \in Change
  BY <1>4
<1>7. ASSUME NEW c \in Change PROVE Inverted(c, clock) \in Change
  BY DEF TypeOK, Inverted, Change
<1>8. Entries(d) \in [1 .. m -> Change]
  BY <1>3, <1>6, <1>7
<1>9. Entries(d) \in Seq(Change) /\ Len(Entries(d)) = m
  BY <1>4, <1>8, FunctionIsSequence
<1>10. \A k \in 1 .. m : Entries(d)[k] = Inverted(d.plan[f[k]], clock)
  BY <1>3, <1>5, <1>6
<1>11. QED
  BY <1>5, <1>9, <1>10 DEF I

LEMMA ReversedReverses ==
    ASSUME Reversal, NEW p \in Process, Reversed(p)
    PROVE  Reversal'
<1> DEFINE entries == Entries(doing[p])
           noted == [Idle EXCEPT !.at = "recording", !.plan = entries, !.read = journal]
           what == IF entries = <<>> THEN Idle ELSE noted
<1>1. TypeOK /\ doing[p] \in Doing
  BY DEF Reversal, TypeOK
<1>2. entries \in Seq(Change)
  BY <1>1, EntriesOf
<1>3. Becomes(p, what)
  BY DEF Reversed, Entries
<1> HIDE DEF entries
<1>4. what \in Doing /\ what.at \in {"idle", "recording"}
  BY <1>1, <1>2, IdleTyped DEF Doing, TypeOK
<1>5. NamedIsRead(what) /\ GoingBack(what, store)
  BY <1>4 DEF NamedIsRead, GoingBack
<1> HIDE DEF what
<1>6. QED
  BY <1>1, <1>3, <1>4, <1>5, OneGoesOn DEF Reversed, TypeOK

LEMMA StopReverses ==
    ASSUME Reversal, NEW p \in Process, Stop(p)
    PROVE  Reversal'
<1>1. NamedIsRead(Idle) /\ GoingBack(Idle, store)
  BY IdleTyped DEF NamedIsRead, GoingBack
<1>2. QED
  BY <1>1, IdleTyped, OneGoesOn DEF Stop, Reversal, TypeOK

\* Every step keeps what is known of the runs that are being put back.
LEMMA NextReverses == Reversal /\ [Next]_vars => Reversal'
<1>1. SUFFICES ASSUME Reversal, [Next]_vars PROVE Reversal'
  OBVIOUS
<1>2. CASE UNCHANGED vars
  BY <1>1, <1>2 DEF vars, Reversal, TypeOK
<1>3. CASE Tick
  <2>1. clock' \in 0 .. CLOCK_MAX
    BY <1>1, <1>3, UndoAssumption DEF Tick, Reversal, TypeOK
  <2>2. QED
    BY <1>1, <1>3, <2>1 DEF Tick, Reversal, TypeOK
<1>4. QED
  BY <1>1, <1>2, <1>3, WeighReverses, OpenReverses, EnterReverses, RecordReverses,
     NameReverses, JudgeReverses, PutBackReverses, ReversedReverses, StopReverses DEF Next

\* What is known of the runs that are being put back, for every value of the constants.
THEOREM ReversalIsKept == Spec => []Reversal
  BY InitReverses, NextReverses, PTL DEF Spec

\* The type invariant, for every value of the constants.
THEOREM UndoTyped == Spec => []TypeOK
<1>1. Reversal => TypeOK
  BY DEF Reversal
<1>2. QED
  BY ReversalIsKept, <1>1, PTL

\* A run that is judged to go back goes back as one unit, whatever else is written and
\* journalled beside it: when its reversal is carried through, each of its settings holds
\* what it held before or was written by another meanwhile (judged, carrying_out).
THEOREM RunsGoBackWhole == Spec => []GoesBackWhole
<1>1. Reversal => GoesBackWhole
  <2>1. ToSet(<<>>) = {}
    BY DEF ToSet
  <2>2. QED
    BY <2>1 DEF Reversal, GoingBack, GoesBackWhole
<1>2. QED
  BY ReversalIsKept, <1>1, PTL

\* What the journal's bound drops is whole runs, the oldest, and no more of them than it
\* must, as long as no run in it is broken by another (kept, journalled).
THEOREM WholeRunsGo == Spec => KeptRunsAreWhole
<1> DEFINE all(p) == doing[p].read \o doing[p].plan
           gone(p) == {Run(c) : c \in ToSet(all(p))} \ {Run(c) : c \in ToSet(journal')}
           Whole(p) == /\ journal' = Picked(all(p), {i \in DOMAIN all(p) : Run(all(p)[i]) \notin gone(p)})
                       /\ gone(p) # {} => Cardinality({Run(c) : c \in ToSet(journal')}) = RUNS_KEPT
<1>1. ASSUME Reversal, NEW p \in Process, Unbroken(all(p)), Enter(p) PROVE Whole(p)
  <2>1. all(p) \in Seq(Change)
    <3>1. doing[p].read \in Seq(Change) /\ doing[p].plan \in Seq(Change)
      BY <1>1 DEF Reversal, TypeOK, Doing
    <3>2. QED
      BY <3>1
  <2>2. journal' = Kept(all(p))
    BY <1>1 DEF Enter
  <2> HIDE DEF all
  <2>3. QED
    BY <1>1, <2>1, <2>2, WholeRunsAreKept
<1>2. Reversal => [\A p \in Process : Unbroken(all(p)) /\ Enter(p) => Whole(p)]_vars
  BY <1>1
<1>3. QED
  BY <1>2, ReversalIsKept, PTL DEF KeptRunsAreWhole

---------------------------------------------------------------------------
\* A setting has one newest change.
LEMMA NewestIsOne ==
    ASSUME NEW s \in Seq(Change), NEW i \in 1 .. Len(s), Newest(s, i),
           NEW c, IsNewest(s, c), c.name = s[i].name
    PROVE  s[i] = c
<1>1. PICK k \in 1 .. Len(s) : s[k] = c /\ Newest(s, k)
  BY DEF IsNewest
<1>2. Len(s) \in Nat /\ i \in Nat /\ k \in Nat
  OBVIOUS
<1>3. ~(i < k)
  <2>1. i < k => k \in i + 1 .. Len(s)
    BY <1>2
  <2>2. QED
    BY <1>1, <2>1 DEF Newest
<1>4. ~(k < i)
  <2>1. k < i => i \in k + 1 .. Len(s)
    BY <1>2
  <2>2. QED
    BY <1>1, <2>1 DEF Newest
<1>5. QED
  BY <1>1, <1>2, <1>3, <1>4

\* A run of one operation, journalled over a record that was right, is kept whole, has the
\* newest change of each of its settings, and leaves the record right.
LEMMA JournalledRun ==
    ASSUME NEW read \in Seq(Change), NEW plan \in Seq(Change), OneRun(plan), Distinct(plan)
    PROVE  LET kept == Kept(read \o plan) IN
           /\ kept \in Seq(Change)
           /\ \A i \in 1 .. Len(kept) :
                \/ kept[i] \in ToSet(plan) /\ Newest(kept, i)
                \/ \E j \in 1 .. Len(read) : kept[i] = read[j] /\ (Newest(kept, i) => Newest(read, j))
           /\ \A c \in ToSet(plan) : IsNewest(kept, c)
<1> DEFINE all == read \o plan
           kept == Kept(all)
           m == Len(read)
           n == Len(plan)
<1>1. /\ m \in Nat /\ n \in Nat /\ all \in Seq(Change) /\ Len(all) = m + n
      /\ \A i \in 1 .. m : all[i] = read[i]
      /\ \A i \in 1 .. n : all[m + i] = plan[i]
      /\ DOMAIN plan = 1 .. n
  OBVIOUS
<1>2. n > 0
  BY <1>1 DEF OneRun
<1> HIDE DEF all, m, n
<1>3. PICK cut \in 0 .. Len(all) :
        /\ kept = SubSeq(all, cut + 1, Len(all))
        /\ \A i \in 0 .. Len(all) : RunsAfter(all, i) <= RUNS_KEPT => cut <= i
  BY <1>1, KeptIsTheEnd
<1>4. /\ kept \in Seq(Change) /\ Len(kept) = m + n - cut /\ cut \in Nat
      /\ \A k \in 1 .. m + n - cut : kept[k] = all[cut + k] /\ cut + k \in 1 .. m + n
  BY <1>1, <1>3, EndOfSequence
<1> HIDE DEF kept
<1>5. cut <= m
  <2>1. After(all, m) = {Run(plan[1])}
    <3>1. ASSUME NEW j \in m + 1 .. Len(all) PROVE Run(all[j]) = Run(plan[1])
      <4>1. j - m \in 1 .. n /\ m + (j - m) = j
        BY <1>1
      <4>2. all[j] = plan[j - m]
        BY <1>1, <4>1
      <4>3. QED
        BY <1>1, <4>1, <4>2 DEF OneRun
    <3>2. m + 1 \in m + 1 .. Len(all)
      BY <1>1, <1>2
    <3>3. QED
      BY <3>1, <3>2 DEF After
  <2>2. m \in 0 .. Len(all)
    BY <1>1
  <2>3. RunsAfter(all, m) = 1
    <3>1. RunsAfter(all, m) = Cardinality(After(all, m))
      BY <1>1, <2>2, RunsAreCounted
    <3>2. Cardinality({Run(plan[1])}) = 1
      BY FS_Singleton
    <3>3. QED
      BY <2>1, <3>1, <3>2
  <2>4. RUNS_KEPT \in Nat /\ RUNS_KEPT >= 1
    BY UndoAssumption
  <2>5. QED
    BY <1>3, <2>2, <2>3, <2>4
<1>6. ASSUME NEW i \in 1 .. m + n - cut, cut + i > m
      PROVE  kept[i] = plan[cut + i - m] /\ cut + i - m \in 1 .. n /\ Newest(kept, i)
  <2>1. ASSUME NEW k \in 1 .. m + n - cut, cut + k > m
        PROVE  kept[k] = plan[cut + k - m] /\ cut + k - m \in 1 .. n
    <3>1. cut + k - m \in 1 .. n /\ m + (cut + k - m) = cut + k
      BY <1>1, <1>4, <2>1
    <3>2. kept[k] = all[cut + k]
      BY <1>4
    <3>3. QED
      BY <1>1, <3>1, <3>2
  <2>2. ASSUME NEW j \in i + 1 .. Len(kept) PROVE kept[j].name # kept[i].name
    <3>1. j \in 1 .. m + n - cut /\ cut + j > m /\ cut + j - m # cut + i - m
      BY <1>1, <1>4, <1>6
    <3>2. kept[j] = plan[cut + j - m] /\ cut + j - m \in 1 .. n
      BY <2>1, <3>1
    <3>3. kept[i] = plan[cut + i - m] /\ cut + i - m \in 1 .. n
      BY <1>6, <2>1
    <3>4. QED
      BY <1>1, <3>1, <3>2, <3>3 DEF Distinct
  <2>3. QED
    BY <1>6, <2>1, <2>2 DEF Newest
<1>7. ASSUME NEW i \in 1 .. m + n - cut, ~(cut + i > m)
      PROVE  /\ cut + i \in 1 .. m /\ kept[i] = read[cut + i]
             /\ Newest(kept, i) => Newest(read, cut + i)
  <2>1. cut + i \in 1 .. m
    BY <1>1, <1>4, <1>7
  <2>2. kept[i] = read[cut + i]
    BY <1>1, <1>4, <2>1
  <2>3. ASSUME NEW j \in cut + i + 1 .. m
        PROVE  j - cut \in i + 1 .. Len(kept) /\ kept[j - cut] = read[j]
    <3>1. j - cut \in i + 1 .. m + n - cut /\ j - cut \in 1 .. m + n - cut /\ cut + (j - cut) = j /\ j \in 1 .. m
      BY <1>1, <1>4, <2>1
    <3>2. kept[j - cut] = all[j]
      BY <1>4, <3>1
    <3>3. QED
      BY <1>1, <1>4, <3>1, <3>2
  <2>4. ASSUME Newest(kept, i), NEW j \in cut + i + 1 .. m PROVE read[j].name # read[cut + i].name
    BY <2>2, <2>3, <2>4 DEF Newest
  <2>5. QED
    BY <2>1, <2>2, <2>4 DEF Newest, m
<1>8. ASSUME NEW i \in 1 .. Len(kept)
      PROVE  \/ kept[i] \in ToSet(plan) /\ Newest(kept, i)
             \/ \E j \in 1 .. m : kept[i] = read[j] /\ (Newest(kept, i) => Newest(read, j))
  <2>1. i \in 1 .. m + n - cut
    BY <1>4
  <2>2. CASE cut + i > m
    BY <1>1, <1>6, <2>1, <2>2 DEF ToSet
  <2>3. CASE ~(cut + i > m)
    BY <1>7, <2>1, <2>3
  <2>4. QED
    BY <2>2, <2>3
<1>9. ASSUME NEW c \in ToSet(plan) PROVE IsNewest(kept, c)
  <2>1. PICK k \in 1 .. n : c = plan[k]
    BY <1>1 DEF ToSet
  <2>2. m + k - cut \in 1 .. m + n - cut /\ cut + (m + k - cut) > m /\ cut + (m + k - cut) - m = k
    BY <1>1, <1>4, <1>5
  <2>3. kept[m + k - cut] = plan[k] /\ Newest(kept, m + k - cut)
    BY <1>6, <2>2
  <2>4. QED
    BY <1>4, <2>1, <2>2, <2>3 DEF IsNewest
<1>10. QED
  BY <1>4, <1>8, <1>9 DEF kept, all, m

\* The record is right once such a run is journalled, if each setting of it holds what its
\* change found or left.
LEMMA JournalledIsRecorded ==
    ASSUME NEW read \in Seq(Change), NEW plan \in Seq(Change), OneRun(plan), Distinct(plan),
           NEW held, Recorded(read, held),
           \A c \in ToSet(plan) : held[c.name] \in {c.previous, c.current}
    PROVE  Recorded(Kept(read \o plan), held)
<1> DEFINE kept == Kept(read \o plan)
<1>1. \A i \in 1 .. Len(kept) :
        \/ kept[i] \in ToSet(plan) /\ Newest(kept, i)
        \/ \E j \in 1 .. Len(read) : kept[i] = read[j] /\ (Newest(kept, i) => Newest(read, j))
  BY JournalledRun
<1> HIDE DEF kept
<1>2. ASSUME NEW i \in 1 .. Len(kept), Newest(kept, i)
      PROVE  held[kept[i].name] \in {kept[i].previous, kept[i].current}
  <2>1. CASE kept[i] \in ToSet(plan)
    BY <2>1
  <2>2. CASE \E j \in 1 .. Len(read) : kept[i] = read[j] /\ (Newest(kept, i) => Newest(read, j))
    BY <1>2, <2>2 DEF Recorded
  <2>3. QED
    BY <1>1, <2>1, <2>2
<1>3. QED
  BY <1>2 DEF Recorded, kept

LEMMA IdleIsSequential ==
    ASSUME NEW changes, NEW held
    PROVE  Sequential(Idle, changes, held)
BY IdleTyped DEF Sequential

\* A process is alone where the others are idle.
LEMMA AloneIf ==
    ASSUME NEW p \in Process, \A q \in Process : q # p => doing'[q] = Idle,
           Sequential(doing'[p], journal', store'), Recorded(journal', store')
    PROVE  Alone'
<1>1. ASSUME NEW q \in Process PROVE Sequential(doing'[q], journal', store')
  <2>1. CASE q = p
    BY <2>1
  <2>2. CASE q # p
    BY <2>2, IdleIsSequential
  <2>3. QED
    BY <2>1, <2>2
<1>2. QED
  BY <1>1 DEF Alone

\* Who is in the middle of something, with no two ever having been so at once, has nobody
\* beside it.
LEMMA InTheMiddle ==
    ASSUME Alone, overlaps = 0, NEW p \in Process, doing[p].at # "idle"
    PROVE  /\ \A q \in Process : q # p => doing[q] = Idle
           /\ Sequential(doing[p], journal, store) /\ Recorded(journal, store)
<1>1. doing[p] # Idle
  BY IdleTyped
<1>2. QED
  BY <1>1 DEF Alone

\* Who begins so that no two are in the middle of something has nobody beside it.
LEMMA BeginsAlone ==
    ASSUME TypeOK, Alone, NEW p \in Process, Begins(p), overlaps' = 0
    PROVE  (\A q \in Process : doing[q] = Idle) /\ overlaps = 0 /\ Recorded(journal, store)
<1>1. overlaps \in Nat
  BY UndoAssumption DEF TypeOK
<1>2. (\A q \in Process : doing[q] = Idle) /\ overlaps = 0
  BY <1>1 DEF Begins
<1>3. QED
  BY <1>2 DEF Alone

LEMMA WeighAlone ==
    ASSUME Reversal, Alone, overlaps' = 0, NEW p \in Process, NEW names \in SUBSET Setting,
           NEW value \in [names -> Held], Weigh(p, names, value)
    PROVE  Alone'
<1> DEFINE plan == Weighed(names, value)
           what == [Idle EXCEPT !.at = "weighed", !.plan = plan]
<1>1. TypeOK /\ names # {} /\ Begins(p) /\ store' = store /\ journal' = journal
  BY DEF Reversal, Weigh
<1>2. (\A q \in Process : doing[q] = Idle) /\ Recorded(journal, store)
  BY <1>1, BeginsAlone
<1>3. /\ plan \in Seq(Change) /\ OneRun(plan) /\ Distinct(plan)
      /\ \A c \in ToSet(plan) : store[c.name] = c.previous
  BY <1>1, WeighedIsARun
<1>4. Becomes(p, what)
  BY DEF Weigh, Weighed
<1> HIDE DEF plan
<1>5. what \in Doing /\ what.at = "weighed" /\ what.plan = plan
  BY <1>3, IdleTyped DEF Doing
<1> HIDE DEF what
<1>6. Sequential(what, journal, store)
  BY <1>3, <1>5 DEF Sequential
<1>7. QED
  BY <1>1, <1>2, <1>4, <1>5, <1>6, BecomesOf, AloneIf

LEMMA OpenAlone ==
    ASSUME Reversal, Alone, overlaps = 0, NEW p \in Process, Open(p)
    PROVE  Alone'
<1> DEFINE d == doing[p]
           stamped == [i \in DOMAIN d.plan |-> [d.plan[i] EXCEPT !.at = clock]]
           what == [d EXCEPT !.at = "entering", !.read = journal, !.plan = stamped]
<1>1. /\ TypeOK /\ d \in Doing /\ d.plan \in Seq(Change) /\ d.at = "weighed"
      /\ store' = store /\ journal' = journal /\ journal \in Seq(Change)
  BY DEF Reversal, TypeOK, Doing, Open
<1>2. /\ \A q \in Process : q # p => doing[q] = Idle
      /\ Sequential(d, journal, store) /\ Recorded(journal, store)
  BY <1>1, InTheMiddle
<1>3. /\ OneRun(d.plan) /\ Distinct(d.plan)
      /\ \A c \in ToSet(d.plan) : store[c.name] = c.previous
  BY <1>1, <1>2 DEF Sequential
<1>4. Becomes(p, what)
  BY DEF Open
<1>5. DOMAIN stamped = DOMAIN d.plan
  OBVIOUS
<1>6. ASSUME NEW i \in DOMAIN d.plan
      PROVE  /\ stamped[i] \in Change /\ stamped[i].name = d.plan[i].name
             /\ stamped[i].previous = d.plan[i].previous
             /\ Run(stamped[i]) = <<d.plan[i].operation, clock>>
  <2>1. d.plan[i] \in Change
    BY <1>1
  <2>2. stamped[i] = [d.plan[i] EXCEPT !.at = clock]
    OBVIOUS
  <2> HIDE DEF stamped
  <2>3. QED
    BY <1>1, <2>1, <2>2 DEF Change, TypeOK, Run
<1> HIDE DEF stamped
<1>7. 1 \in DOMAIN d.plan /\ DOMAIN d.plan = 1 .. Len(d.plan) /\ Len(d.plan) \in Nat
  BY <1>1, <1>3 DEF OneRun
<1>8. stamped \in Seq(Change) /\ stamped # <<>>
  <2>1. stamped \in [1 .. Len(d.plan) -> Change]
    <3>1. stamped = [i \in DOMAIN d.plan |-> stamped[i]]
      BY DEF stamped
    <3>2. QED
      BY <1>6, <1>7, <3>1
  <2>2. stamped \in Seq(Change) /\ Len(stamped) = Len(d.plan)
    BY <1>7, <2>1, FunctionIsSequence
  <2>3. QED
    BY <1>7, <2>2
<1>9. OneRun(stamped)
  <2>1. ASSUME NEW i \in DOMAIN d.plan PROVE d.plan[i].operation = d.plan[1].operation
    BY <1>3, <2>1 DEF OneRun, Run
  <2>2. QED
    BY <1>5, <1>6, <1>7, <1>8, <2>1 DEF OneRun
<1>10. Distinct(stamped)
  BY <1>3, <1>5, <1>6 DEF Distinct
<1>11. ASSUME NEW c \in ToSet(stamped) PROVE store[c.name] = c.previous
  <2>1. PICK i \in DOMAIN d.plan : c = stamped[i]
    BY <1>5 DEF ToSet
  <2>2. d.plan[i] \in ToSet(d.plan)
    BY DEF ToSet
  <2>3. QED
    BY <1>3, <1>6, <2>1, <2>2
<1>12. what \in Doing /\ what.at = "entering" /\ what.plan = stamped /\ what.read = journal
  BY <1>1, <1>8 DEF Doing
<1> HIDE DEF what, d
<1>13. Sequential(what, journal, store)
  BY <1>9, <1>10, <1>11, <1>12 DEF Sequential
<1>14. QED
  BY <1>1, <1>2, <1>4, <1>12, <1>13, BecomesOf, AloneIf

LEMMA EnterAlone ==
    ASSUME Reversal, Alone, overlaps = 0, NEW p \in Process, Enter(p)
    PROVE  Alone'
<1> DEFINE d == doing[p]
           entered == [Idle EXCEPT !.at = "entered", !.plan = d.plan]
           what == IF d.at = "entering" THEN entered ELSE Idle
<1>1. /\ TypeOK /\ d \in Doing /\ d.plan \in Seq(Change) /\ d.read \in Seq(Change)
      /\ d.at \in {"entering", "recording"}
      /\ store' = store /\ journal' = Kept(d.read \o d.plan) /\ Becomes(p, what)
  BY DEF Reversal, TypeOK, Doing, Enter
<1>2. /\ \A q \in Process : q # p => doing[q] = Idle
      /\ Sequential(d, journal, store) /\ Recorded(journal, store)
  BY <1>1, InTheMiddle
<1> HIDE DEF d
<1>3. /\ OneRun(d.plan) /\ Distinct(d.plan) /\ d.read = journal
      /\ \A c \in ToSet(d.plan) : store[c.name] \in {c.previous, c.current}
  BY <1>1, <1>2 DEF Sequential
<1>4. Recorded(journal', store)
  BY <1>1, <1>2, <1>3, JournalledIsRecorded
<1>5. \A c \in ToSet(d.plan) : IsNewest(journal', c)
  BY <1>1, <1>3, JournalledRun
<1>6. entered \in Doing /\ entered.at = "entered" /\ entered.plan = d.plan
  BY <1>1, IdleTyped DEF Doing
<1> HIDE DEF entered
<1>7. Sequential(entered, journal', store)
  BY <1>3, <1>5, <1>6 DEF Sequential
<1>8. what \in Doing /\ Sequential(what, journal', store)
  BY <1>6, <1>7, IdleTyped, IdleIsSequential
<1> HIDE DEF what
<1>9. QED
  BY <1>1, <1>2, <1>4, <1>8, BecomesOf, AloneIf

LEMMA RecordAlone ==
    ASSUME Reversal, Alone, overlaps = 0, NEW p \in Process, Record(p)
    PROVE  Alone'
<1> DEFINE plan == doing[p].plan
           names == {c.name : c \in ToSet(plan)}
<1>1. /\ TypeOK /\ plan \in Seq(Change) /\ journal \in Seq(Change)
      /\ doing[p] \in Doing /\ doing[p].at = "entered" /\ journal' = journal
  BY DEF Reversal, TypeOK, Doing, Record
<1>2. /\ \A q \in Process : q # p => doing[q] = Idle
      /\ Sequential(doing[p], journal, store) /\ Recorded(journal, store)
  BY <1>1, InTheMiddle
<1>3. Distinct(plan) /\ \A c \in ToSet(plan) : IsNewest(journal, c)
  BY <1>1, <1>2 DEF Sequential
<1>4. store' = [s \in Setting |-> IF \E c \in ToSet(plan) : c.name = s
                                  THEN (CHOOSE c \in ToSet(plan) : c.name = s).current
                                  ELSE store[s]]
      /\ Writes(p, names, Idle)
  BY DEF Record
<1>5. names \in SUBSET Setting
  <2>1. \A c \in ToSet(plan) : c \in Change
    BY <1>1 DEF ToSet
  <2>2. QED
    BY <2>1 DEF Change
<1> HIDE DEF plan
<1>6. ASSUME NEW i \in 1 .. Len(journal), Newest(journal, i)
      PROVE  store'[journal[i].name] \in {journal[i].previous, journal[i].current}
  <2> DEFINE s == journal[i].name
             c == CHOOSE c \in ToSet(plan) : c.name = s
  <2>1. s \in Setting
    <3>1. journal[i] \in Change
      BY <1>1
    <3>2. QED
      BY <3>1 DEF Change
  <2>2. CASE \E b \in ToSet(plan) : b.name = s
    <3>1. store'[s] = c.current
      BY <1>4, <2>1, <2>2
    <3>2. c \in ToSet(plan) /\ c.name = s
      BY <2>2
    <3> HIDE DEF c
    <3>3. journal[i] = c
      BY <1>1, <1>3, <1>6, <3>2, NewestIsOne
    <3>4. QED
      BY <3>1, <3>3
  <2>3. CASE ~\E b \in ToSet(plan) : b.name = s
    <3>1. store'[s] = store[s]
      BY <1>4, <2>1, <2>3
    <3>2. QED
      BY <1>2, <1>6, <3>1 DEF Recorded
  <2>4. QED
    BY <2>2, <2>3
<1>7. Recorded(journal', store')
  BY <1>1, <1>6 DEF Recorded
<1>8. doing'[p] = Idle /\ \A q \in Process : q # p => doing'[q] = Beside(doing[q], names)
  BY <1>1, <1>4, <1>5, IdleTyped, WritesOf
<1>9. Beside(Idle, names) = Idle
  BY IdleTyped DEF Beside
<1>10. \A q \in Process : q # p => doing'[q] = Idle
  BY <1>2, <1>8, <1>9
<1>11. QED
  BY <1>7, <1>8, <1>10, IdleIsSequential, AloneIf

LEMMA NameAlone ==
    ASSUME Reversal, Alone, overlaps' = 0, NEW p \in Process, NEW operation, NEW at,
           Name(p, operation, at)
    PROVE  Alone'
<1> DEFINE run == Together(journal, operation, at)
           what == [Idle EXCEPT !.at = "named", !.read = journal, !.plan = run]
<1>1. /\ TypeOK /\ journal \in Seq(Change) /\ Begins(p) /\ store' = store /\ journal' = journal
      /\ Becomes(p, what)
  BY DEF Reversal, TypeOK, Name
<1>2. (\A q \in Process : doing[q] = Idle) /\ Recorded(journal, store)
  BY <1>1, BeginsAlone
<1>3. run \in Seq(Change)
  BY <1>1, TogetherOf
<1> HIDE DEF run
<1>4. what \in Doing /\ what.at = "named" /\ what.read = journal
  BY <1>1, <1>3, IdleTyped DEF Doing
<1> HIDE DEF what
<1>5. Sequential(what, journal, store)
  BY <1>4 DEF Sequential
<1>6. QED
  BY <1>1, <1>2, <1>4, <1>5, BecomesOf, AloneIf

LEMMA JudgeAlone ==
    ASSUME Reversal, Alone, overlaps = 0, NEW p \in Process, Judge(p)
    PROVE  Alone'
<1> DEFINE run == doing[p].plan
           goes == Judged(doing[p].read, run[1].operation, run[1].at)
           back == [Idle EXCEPT !.at = "reversing", !.plan = run, !.left = Reverse(run)]
           what == IF goes THEN back ELSE Idle
<1>1. /\ TypeOK /\ run \in Seq(Change) /\ doing[p].read \in Seq(Change)
      /\ doing[p].at = "named" /\ store' = store /\ journal' = journal /\ Becomes(p, what)
  BY DEF Reversal, TypeOK, Doing, Judge
<1>2. /\ \A q \in Process : q # p => doing[q] = Idle
      /\ Sequential(doing[p], journal, store) /\ Recorded(journal, store)
  BY <1>1, InTheMiddle
<1>3. run = Together(doing[p].read, run[1].operation, run[1].at) /\ doing[p].read = journal
  BY <1>1, <1>2 DEF Reversal, NamedIsRead, Sequential
<1>4. goes => \A c \in ToSet(run) : IsNewest(journal, c)
  BY <1>1, <1>3, JudgedRun
<1>5. Reverse(run) \in Seq(Change)
  BY <1>1, ReverseElements
<1> HIDE DEF run, goes
<1>6. /\ back \in Doing /\ back.at = "reversing" /\ back.plan = run
      /\ back.met = {} /\ back.done = {}
  BY <1>1, <1>5, IdleTyped DEF Doing, Idle
<1> HIDE DEF back
<1>7. goes => Sequential(back, journal, store)
  BY <1>4, <1>6 DEF Sequential
<1>8. what \in Doing /\ Sequential(what, journal, store)
  BY <1>6, <1>7, IdleTyped, IdleIsSequential
<1> HIDE DEF what
<1>9. QED
  BY <1>1, <1>2, <1>8, BecomesOf, AloneIf

LEMMA PutBackAlone ==
    ASSUME Reversal, Alone, overlaps = 0, NEW p \in Process, PutBack(p)
    PROVE  Alone'
<1> DEFINE d == doing[p]
           change == Head(d.left)
           theirs == store[change.name] \notin {change.previous, change.current}
           names == IF theirs THEN {} ELSE {change.name}
           what == [d EXCEPT !.left = Tail(d.left), !.done = d.done \cup names]
<1>1. /\ d \in Doing /\ d.at = "reversing" /\ names \in SUBSET Setting /\ what \in Doing
      /\ change \in Change /\ change \in ToSet(d.plan)
      /\ Writes(p, names, what) /\ store' \in [Setting -> Held]
      /\ \A s \in Setting : s \notin names => store'[s] = store[s]
      /\ ~theirs => store'[change.name] = change.previous
  BY PutBackOf
<1>2. TypeOK /\ journal \in Seq(Change) /\ journal' = journal /\ d.plan \in Seq(Change)
  BY <1>1 DEF Reversal, TypeOK, PutBack, Doing
<1>3. /\ \A q \in Process : q # p => doing[q] = Idle
      /\ Sequential(d, journal, store) /\ Recorded(journal, store)
  BY <1>1, InTheMiddle
<1>4. /\ d.met = {} /\ \A c \in ToSet(d.plan) : IsNewest(journal, c)
      /\ \A c \in ToSet(d.plan) : c.name \in d.done => store[c.name] = c.previous
  BY <1>1, <1>3 DEF Sequential
<1>5. Distinct(d.plan)
  BY <1>1 DEF Reversal, GoingBack
<1>6. ~theirs <=> names = {change.name}
  BY <1>1
<1>7. names = {} \/ names = {change.name}
  OBVIOUS
<1>8. UNCHANGED <<journal, clock, overlaps>>
  BY DEF PutBack
<1> HIDE DEF d, change, names, theirs
<1>9. what.at = "reversing" /\ what.plan = d.plan /\ what.met = d.met /\ what.done = d.done \cup names
  BY <1>1 DEF Doing
<1> HIDE DEF what
<1>10. ASSUME NEW c \in ToSet(d.plan), c.name \in what.done PROVE store'[c.name] = c.previous
  <2>1. c.name \in Setting
    <3>1. c \in Change
      BY <1>2 DEF ToSet
    <3>2. QED
      BY <3>1 DEF Change
  <2>2. CASE c.name \in names
    <3>1. names = {change.name} /\ c.name = change.name
      BY <1>7, <2>2
    <3>2. PICK i \in DOMAIN d.plan : c = d.plan[i]
      BY DEF ToSet
    <3>3. PICK j \in DOMAIN d.plan : change = d.plan[j]
      BY <1>1 DEF ToSet
    <3>4. c = change
      BY <1>5, <3>1, <3>2, <3>3 DEF Distinct
    <3>5. QED
      BY <1>1, <1>6, <3>1, <3>4
  <2>3. CASE c.name \notin names
    BY <1>1, <1>4, <1>9, <1>10, <2>1, <2>3
  <2>4. QED
    BY <2>2, <2>3
<1>11. Sequential(what, journal', store')
  BY <1>2, <1>4, <1>9, <1>10 DEF Sequential
<1>12. ASSUME NEW i \in 1 .. Len(journal), Newest(journal, i)
       PROVE  store'[journal[i].name] \in {journal[i].previous, journal[i].current}
  <2>1. journal[i].name \in Setting
    <3>1. journal[i] \in Change
      BY <1>2
    <3>2. QED
      BY <3>1 DEF Change
  <2>2. CASE journal[i].name \in names
    <3>1. names = {change.name} /\ change.name = journal[i].name
      BY <1>7, <2>2
    <3>2. IsNewest(journal, change)
      BY <1>1, <1>4
    <3>3. journal[i] = change
      BY <1>2, <1>12, <3>1, <3>2, NewestIsOne
    <3>4. QED
      BY <1>1, <1>6, <3>1, <3>3
  <2>3. CASE journal[i].name \notin names
    BY <1>1, <1>3, <1>12, <2>1, <2>3 DEF Recorded
  <2>4. QED
    BY <2>2, <2>3
<1>13. Recorded(journal', store')
  BY <1>2, <1>12 DEF Recorded
<1>14. doing'[p] = what /\ \A q \in Process : q # p => doing'[q] = Beside(doing[q], names)
  BY <1>1, <1>2, WritesOf
<1>15. Beside(Idle, names) = Idle
  BY IdleTyped DEF Beside
<1>16. \A q \in Process : q # p => doing'[q] = Idle
  BY <1>3, <1>14, <1>15
<1>17. QED
  BY <1>11, <1>13, <1>14, <1>16, AloneIf

LEMMA ReversedAlone ==
    ASSUME Reversal, Alone, overlaps = 0, NEW p \in Process, Reversed(p)
    PROVE  Alone'
<1> DEFINE d == doing[p]
           entries == Entries(d)
           noted == [Idle EXCEPT !.at = "recording", !.plan = entries, !.read = journal]
           what == IF entries = <<>> THEN Idle ELSE noted
           I == {i \in 1 .. Len(d.plan) : d.plan[i].name \in d.done}
<1>1. /\ TypeOK /\ d \in Doing /\ d.plan \in Seq(Change) /\ journal \in Seq(Change)
      /\ d.at = "reversing" /\ store' = store /\ journal' = journal
  BY DEF Reversal, TypeOK, Doing, Reversed
<1>2. Becomes(p, what)
  BY DEF Reversed, Entries
<1>3. /\ \A q \in Process : q # p => doing[q] = Idle
      /\ Sequential(d, journal, store) /\ Recorded(journal, store)
  BY <1>1, InTheMiddle
<1>4. /\ Distinct(d.plan)
      /\ \A c \in ToSet(d.plan) : c.name \in d.done => store[c.name] = c.previous
  BY <1>1, <1>3 DEF Reversal, GoingBack, Sequential
<1>5. entries \in Seq(Change)
  BY <1>1, EntriesOf
<1>6. PICK f \in [1 .. Len(entries) -> I] :
        /\ \A k \in 1 .. Len(entries) : entries[k] = Inverted(d.plan[f[k]], clock)
        /\ \A k, l \in 1 .. Len(entries) : k < l => f[k] < f[l]
  BY <1>1, EntriesOf
<1> HIDE DEF d, entries
<1>7. ASSUME NEW k \in 1 .. Len(entries)
      PROVE  /\ f[k] \in 1 .. Len(d.plan) /\ entries[k].name = d.plan[f[k]].name
             /\ entries[k].operation = "undo" /\ Run(entries[k]) = <<"undo", clock>>
             /\ store[entries[k].name] = entries[k].current
  <2>1. f[k] \in I
    BY <1>6
  <2>2. f[k] \in 1 .. Len(d.plan) /\ d.plan[f[k]].name \in d.done
    BY <2>1
  <2>3. d.plan[f[k]] \in Change /\ d.plan[f[k]] \in ToSet(d.plan)
    BY <1>1, <2>2 DEF ToSet
  <2>4. entries[k] = Inverted(d.plan[f[k]], clock)
    BY <1>6
  <2>5. /\ entries[k].name = d.plan[f[k]].name /\ entries[k].operation = "undo"
        /\ entries[k].at = clock /\ entries[k].current = d.plan[f[k]].previous
    BY <2>3, <2>4 DEF Inverted, Change
  <2>6. QED
    BY <1>4, <2>2, <2>3, <2>5 DEF Run
<1>8. DOMAIN entries = 1 .. Len(entries) /\ Len(entries) \in Nat
  BY <1>5
<1>9. ASSUME NEW k \in 1 .. Len(entries), NEW l \in 1 .. Len(entries), entries[k].name = entries[l].name
      PROVE  k = l
  <2>0. f[k] \in DOMAIN d.plan /\ f[l] \in DOMAIN d.plan
    BY <1>1, <1>7
  <2>1. f[k] = f[l]
    BY <1>4, <1>7, <1>9, <2>0 DEF Distinct
  <2>2. f[k] \in Nat /\ f[l] \in Nat /\ k \in Nat /\ l \in Nat
    BY <1>7, <1>8
  <2>3. ~(k < l) /\ ~(l < k)
    BY <1>6, <2>1, <2>2
  <2>4. QED
    BY <2>2, <2>3
<1>10. Distinct(entries)
  BY <1>8, <1>9 DEF Distinct
<1>11. entries # <<>> => OneRun(entries) /\ entries[1].operation = "undo"
  <2>1. entries # <<>> => 1 \in 1 .. Len(entries)
    BY <1>5, <1>8
  <2>2. QED
    BY <1>7, <1>8, <2>1 DEF OneRun
<1>12. \A c \in ToSet(entries) : store[c.name] = c.current
  BY <1>7, <1>8 DEF ToSet
<1>13. noted \in Doing /\ noted.at = "recording" /\ noted.plan = entries /\ noted.read = journal
  BY <1>1, <1>5, IdleTyped DEF Doing
<1> HIDE DEF noted
<1>14. entries # <<>> => Sequential(noted, journal, store)
  BY <1>10, <1>11, <1>12, <1>13 DEF Sequential
<1>15. what \in Doing /\ Sequential(what, journal, store)
  BY <1>13, <1>14, IdleTyped, IdleIsSequential
<1> HIDE DEF what
<1>16. QED
  BY <1>1, <1>2, <1>3, <1>15, BecomesOf, AloneIf

LEMMA StopAlone ==
    ASSUME Reversal, Alone, overlaps = 0, NEW p \in Process, Stop(p)
    PROVE  Alone'
<1>1. TypeOK /\ doing[p] # Idle /\ Becomes(p, Idle) /\ store' = store /\ journal' = journal
  BY DEF Reversal, Stop
<1>2. /\ doing'[p] = Idle /\ \A q \in Process : q # p => doing'[q] = doing[q]
  BY <1>1, IdleTyped, BecomesOf
<1>3. (\A q \in Process : q # p => doing[q] = Idle) /\ Recorded(journal, store)
  BY <1>1 DEF Alone
<1>4. QED
  BY <1>1, <1>2, <1>3, IdleIsSequential, AloneIf

\* Every step keeps what holds as long as no two processes have overlapped.
LEMMA NextAlone == Reversal /\ Alone /\ [Next]_vars => Alone'
<1>1. SUFFICES ASSUME Reversal, Alone, [Next]_vars, overlaps' = 0 PROVE Alone'
  BY DEF Alone
<1>2. CASE UNCHANGED vars
  BY <1>1, <1>2 DEF vars, Alone
<1>3. CASE Tick
  BY <1>1, <1>3 DEF Tick, Alone
<1>4. ASSUME NEW p \in Process,
             Open(p) \/ Enter(p) \/ Record(p) \/ Judge(p) \/ PutBack(p) \/ Reversed(p) \/ Stop(p)
      PROVE  Alone'
  <2>1. overlaps = 0
    BY <1>1, <1>4 DEF Open, Enter, Record, Judge, PutBack, Reversed, Stop
  <2>2. QED
    BY <1>1, <1>4, <2>1, OpenAlone, EnterAlone, RecordAlone, JudgeAlone, PutBackAlone,
       ReversedAlone, StopAlone
<1>5. QED
  BY <1>1, <1>2, <1>3, <1>4, WeighAlone, NameAlone DEF Next

LEMMA InitAlone == Init => Alone
<1>1. SUFFICES ASSUME Init PROVE Alone
  OBVIOUS
<1>2. \A p \in Process : doing[p] = Idle
  BY <1>1 DEF Init
<1>3. Recorded(journal, store)
  BY <1>1 DEF Init, Recorded
<1>4. QED
  BY <1>2, <1>3, IdleIsSequential DEF Alone

\* What holds as long as no two processes have overlapped, for every value of the constants.
THEOREM AloneIsKept == Spec => []Alone
  BY InitAlone, NextAlone, ReversalIsKept, PTL DEF Spec

\* Wherever a change or a reversal was stopped, a setting holds what its last recorded
\* change left or what that change found, as long as no two processes have overlapped
\* (written journals first, carried_out journals last).
THEOREM RecordStaysNear == Spec => []RecordIsOneChangeAway
<1>1. ASSUME Reversal, Alone PROVE RecordIsOneChangeAway
  <2>1. SUFFICES ASSUME overlaps = 0, Quiet, NEW c \in ToSet(journal)
                 PROVE  store[c.name] \in {journal[LastOf(c.name)].previous,
                                           journal[LastOf(c.name)].current}
    BY DEF RecordIsOneChangeAway
  <2>2. journal \in Seq(Change) /\ Len(journal) \in Nat
    BY <1>1 DEF Reversal, TypeOK
  <2>3. Recorded(journal, store)
    BY <1>1, <2>1 DEF Alone
  <2> DEFINE S == {i \in 1 .. Len(journal) : journal[i].name = c.name}
  <2>4. S \in SUBSET (1 .. Len(journal)) /\ S # {}
    <3>1. PICK i \in 1 .. Len(journal) : journal[i] = c
      BY <2>2 DEF ToSet
    <3>2. i \in S
      BY <3>1
    <3>3. QED
      BY <3>2
  <2>5. Max(S) \in S /\ \A y \in S : Max(S) >= y
    BY <2>2, <2>4, MaxIsGreatest
  <2>6. LastOf(c.name) = Max(S)
    BY DEF LastOf
  <2>7. ASSUME NEW j \in Max(S) + 1 .. Len(journal) PROVE journal[j].name # journal[Max(S)].name
    <3>1. Max(S) \in 1 .. Len(journal) /\ journal[Max(S)].name = c.name
      BY <2>5
    <3>2. j \in 1 .. Len(journal) /\ ~(Max(S) >= j)
      BY <2>2, <3>1
    <3>3. j \notin S
      BY <2>5, <3>2
    <3>4. QED
      BY <3>1, <3>2, <3>3
  <2>8. Newest(journal, Max(S))
    BY <2>7 DEF Newest
  <2>9. QED
    BY <2>3, <2>5, <2>6, <2>8 DEF Recorded
<1>2. QED
  BY <1>1, ReversalIsKept, AloneIsKept, PTL

\* A reversal that is journalled can be put back in its turn by its stamp, where that is no
\* other run's and no two processes have overlapped (recording, inverted).
THEOREM ReversalsAreAnswerable == Spec => UndoIsAnswerable
<1> DEFINE Answerable(p) ==
        LET at == doing[p].plan[1].at IN
        (\A c \in ToSet(doing[p].read) : c.at # at) => Judged(journal', "undo", at)
<1>1. ASSUME Reversal, Alone, NEW p \in Process, overlaps = 0, doing[p].at = "recording", Enter(p)
      PROVE  Answerable(p)
  <2> DEFINE plan == doing[p].plan
             read == doing[p].read
             at == plan[1].at
  <2>1. plan \in Seq(Change) /\ read \in Seq(Change)
    BY <1>1 DEF Reversal, TypeOK, Doing
  <2>2. Sequential(doing[p], journal, store)
    BY <1>1, InTheMiddle
  <2>3. /\ OneRun(plan) /\ Distinct(plan)
        /\ \A c \in ToSet(plan) : store[c.name] = c.current
    BY <1>1, <2>2 DEF Sequential
  <2>4. journal' = Kept(read \o plan)
    BY <1>1 DEF Enter
  <2> HIDE DEF plan, read, at
  <2>5. /\ journal' \in Seq(Change)
        /\ \A i \in 1 .. Len(journal') :
             \/ journal'[i] \in ToSet(plan) /\ Newest(journal', i)
             \/ \E j \in 1 .. Len(read) : journal'[i] = read[j]
    BY <2>1, <2>3, <2>4, JournalledRun
  <2>6. ASSUME \A c \in ToSet(read) : c.at # at,
               NEW i \in 1 .. Len(journal'), Run(journal'[i]) = <<"undo", at>>
        PROVE  Reversible(journal', i)
    <3>1. journal'[i].at = at
      BY <2>6 DEF Run
    <3>2. ~\E j \in 1 .. Len(read) : journal'[i] = read[j]
      BY <2>1, <2>6, <3>1 DEF ToSet
    <3>3. journal'[i] \in ToSet(plan) /\ Newest(journal', i)
      BY <2>5, <3>2
    <3>4. QED
      BY <2>3, <3>3 DEF Reversible, Newest
  <2>7. ASSUME \A c \in ToSet(read) : c.at # at,
               NEW i \in 1 .. Len(journal'), Run(journal'[i]) = <<"undo", at>>
        PROVE  Reversible(journal', Min({j \in 1 .. Len(journal') : journal'[j] = journal'[i]}))
    <3> DEFINE S == {j \in 1 .. Len(journal') : journal'[j] = journal'[i]}
    <3>1. S \in SUBSET Nat /\ i \in S
      BY <2>5
    <3>2. Min(S) \in S
      BY <3>1, MinIsLeast
    <3>3. Min(S) \in 1 .. Len(journal') /\ Run(journal'[Min(S)]) = <<"undo", at>>
      BY <2>7, <3>2
    <3>4. QED
      BY <2>6, <2>7, <3>3
  <2>8. QED
    BY <2>7 DEF Judged, plan, read, at
<1>2. Reversal /\ Alone =>
        [\A p \in Process : overlaps = 0 /\ doing[p].at = "recording" /\ Enter(p) => Answerable(p)]_vars
  BY <1>1
<1>3. QED
  BY <1>2, ReversalIsKept, AloneIsKept, PTL DEF UndoIsAnswerable

\* Where no two processes have overlapped, a run is journalled after all the journal holds,
\* whatever was stopped and wherever: the journal it read is the journal it writes over
\* (journalled).
THEOREM NoEntryIsLost == Spec => NothingIsLost
<1>1. ASSUME Reversal, Alone, NEW p \in Process, overlaps = 0, Enter(p)
      PROVE  journal' = Kept(journal \o doing[p].plan)
  <2>1. doing[p].at \in {"entering", "recording"} /\ journal' = Kept(doing[p].read \o doing[p].plan)
    BY <1>1 DEF Enter
  <2>2. Sequential(doing[p], journal, store)
    BY <1>1, <2>1, InTheMiddle
  <2>3. doing[p].read = journal
    BY <2>1, <2>2 DEF Sequential
  <2>4. QED
    BY <2>1, <2>3
<1>2. Reversal /\ Alone =>
        [\A p \in Process :
            overlaps = 0 /\ Enter(p) => journal' = Kept(journal \o doing[p].plan)]_vars
  BY <1>1
<1>3. QED
  BY <1>2, ReversalIsKept, AloneIsKept, PTL DEF NothingIsLost
=============================================================================
