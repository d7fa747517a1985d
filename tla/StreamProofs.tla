--------------------------- MODULE StreamProofs ---------------------------
(***************************************************************************)
(* What a client hears of the record has no hole and no repetition, for    *)
(* every number of clients, every bound on the backlog and the window, and *)
(* every clock the runs were opened on.                                    *)
(***************************************************************************)
EXTENDS Stream, FiniteSetTheorems, WellFoundedInduction, TLAPS

\* The backlog keeps the newest records: nothing after a held place was let go,
\* and where nothing is held there was never a record.
HeldIsNewest ==
    /\ \A p \in held : IsRecord(p)
    /\ \A p \in held : \A q \in Place : IsRecord(q) /\ p < q => q \in held
    /\ held = {} => \A q \in Place : ~IsRecord(q)

\* Where an open client stands: behind what was said, ahead of what it was given.
CursorIsAhead ==
    \A c \in Client : Open(c) =>
        /\ from[c] < next[c] /\ next[c] <= Len(said) + 1
        /\ missed[c] \subseteq Place
        /\ seen[c].run = run => seen[c].place <= from[c]

\* No id is from a run to come, nor of a place still to come.
SeenIsPast ==
    \A c \in Client :
        seen[c].run <= run /\ (seen[c].run = run => seen[c].place <= Len(said))

\* The inductive invariant.
StreamInv == TypeOK /\ HeldIsNewest /\ CursorIsAhead /\ SeenIsPast /\ RecordIsWhole

---------------------------------------------------------------------------
\* The front of a queue of places is in it and is the least of it.
LEMMA LeastIsLeast ==
    ASSUME NEW S \in SUBSET Nat, S # {}
    PROVE  Least(S) \in S /\ \A q \in S : Least(S) <= q
<1>1. \E x \in S : \A y \in S : ~(<<y, x>> \in OpToRel(<, Nat))
  BY NatLessThanWellFounded, WFMin
<1>2. PICK x \in S : \A y \in S : ~(<<y, x>> \in OpToRel(<, Nat))
  BY <1>1
<1>3. ASSUME NEW y \in S PROVE x <= y
  <2>1. x \in Nat /\ y \in Nat
    OBVIOUS
  <2>2. ~(y < x)
    BY <1>2, <2>1 DEF OpToRel
  <2>3. QED
    BY <2>1, <2>2
<1>4. QED
  BY <1>3 DEF Least

\* What is popped off the front of the backlog is older than what stays, and
\* what was just pushed stays.
LEMMA NewestStays ==
    ASSUME NEW S \in SUBSET Nat, IsFiniteSet(S), NEW m \in S, \A p \in S : p <= m
    PROVE  /\ Newest(S) \subseteq S
           /\ m \in Newest(S)
           /\ \A p \in Newest(S) : \A q \in S : p < q => q \in Newest(S)
<1>1. Newest(S) \subseteq S
  BY DEF Newest
<1>2. m \in Newest(S)
  <2>1. {q \in S : q >= m} = {m}
    <3>1. \A q \in S : q \in Int /\ m \in Int /\ q <= m
      OBVIOUS
    <3>2. \A q \in S : q >= m <=> q = m
      BY <3>1
    <3>3. QED
      BY <3>2
  <2>2. Cardinality({q \in S : q >= m}) <= HELD
    BY <2>1, FS_Singleton, StreamAssumption
  <2>3. QED
    BY <2>2 DEF Newest
<1>3. ASSUME NEW p \in Newest(S), NEW q \in S, p < q
      PROVE  q \in Newest(S)
  <2> DEFINE P == {r \in S : r >= p}
             Q == {r \in S : r >= q}
  <2>1. p \in S /\ Cardinality(P) <= HELD
    BY DEF Newest
  <2>2. Q \in SUBSET P
    <3>1. \A r \in S : r \in Nat
      OBVIOUS
    <3>2. \A r \in S : r >= q => r >= p
      BY <1>3, <2>1, <3>1
    <3>3. QED
      BY <3>2
  <2>3. IsFiniteSet(P)
    <3>1. P \in SUBSET S
      OBVIOUS
    <3>2. QED
      BY <3>1, FS_Subset
  <2>4. Cardinality(Q) <= Cardinality(P)
    BY <2>2, <2>3, FS_Subset
  <2>5. Cardinality(P) \in Nat /\ Cardinality(Q) \in Nat
    BY <2>2, <2>3, FS_Subset, FS_CardinalityType
  <2>6. Cardinality(Q) <= HELD
    BY <2>1, <2>4, <2>5, StreamAssumption
  <2>7. QED
    BY <2>6 DEF Newest
<1>4. QED
  BY <1>1, <1>2, <1>3

\* Nothing after a covered place was let go: what is held after it is all there is.
LEMMA CoveredIsWhole ==
    ASSUME StreamInv, NEW place \in Nat, Covers(place)
    PROVE  \A p \in Place : p > place /\ IsRecord(p) => p \in held
<1>1. held \subseteq Nat /\ Place \subseteq Nat
  BY DEF StreamInv, TypeOK, Place
<1>2. CASE held = {}
  BY <1>2 DEF StreamInv, HeldIsNewest
<1>3. CASE held # {}
  <2>1. Least(held) \in held
    BY <1>1, <1>3, LeastIsLeast
  <2>2. Least(held) <= place + 1
    BY <1>3 DEF Covers
  <2>3. \A p \in Place : p > place => p = Least(held) \/ Least(held) < p
    <3>1. Least(held) \in Nat /\ \A p \in Place : p \in Nat
      BY <1>1, <2>1
    <3>2. QED
      BY <2>2, <3>1
  <2>4. QED
    BY <2>1, <2>3 DEF StreamInv, HeldIsNewest
<1>4. QED
  BY <1>2, <1>3

---------------------------------------------------------------------------
LEMMA InitStream == Init => StreamInv
<1> SUFFICES ASSUME Init PROVE StreamInv
  OBVIOUS
<1>1. said = <<>> /\ Len(said) = 0 /\ Place = {}
  BY DEF Init, Place
<1>2. TypeOK
  BY <1>1 DEF Init, TypeOK
<1>3. HeldIsNewest
  BY <1>1 DEF Init, HeldIsNewest
<1>4. CursorIsAhead /\ RecordIsWhole
  BY DEF Init, CursorIsAhead, RecordIsWhole, Open
<1>5. SeenIsPast
  BY DEF Init, SeenIsPast
<1>6. QED
  BY <1>2, <1>3, <1>4, <1>5 DEF StreamInv

LEMMA SayStream == ASSUME StreamInv, NEW e \in Event, Say(e) PROVE StreamInv'
<1>n. PICK n \in Nat : n = Len(said) + 1
  BY DEF StreamInv, TypeOK
<1>0. /\ said \in Seq(Event) /\ Len(said) \in Nat /\ held \in SUBSET Place
      /\ said' = Append(said, e)
      /\ UNCHANGED <<run, listeners>>
  BY DEF StreamInv, TypeOK, Say
<1>1. /\ Len(said') = n /\ said'[n] = e
      /\ \A p \in Place : said'[p] = said[p]
      /\ Place' = Place \cup {n} /\ n \notin Place
      /\ Place \subseteq Nat
  BY <1>n, <1>0 DEF Place
<1>2. /\ \A p \in Place : IsRecord(p)' = IsRecord(p)
      /\ IsRecord(n)' = (e.nature = "record")
      /\ \A c \in Client : \A p \in Place : Hears(c, p)' = Hears(c, p)
  BY <1>1 DEF IsRecord, Hears
<1>3. held' \subseteq Place' /\ HeldIsNewest'
  <2>1. CASE e.nature = "record"
    <3> DEFINE S == held \cup {n}
    <3>1. held' = Newest(S)
      BY <1>n, <2>1 DEF Say
    <3>2. S \in SUBSET Nat /\ \A p \in S : p <= n
      <4>1. \A p \in held : p \in Nat /\ p <= n
        BY <1>n, <1>0 DEF Place
      <4>2. QED
        BY <4>1
    <3>3. IsFiniteSet(S)
      BY <3>2, <1>1, FS_BoundedSetOfNaturals
    <3> HIDE DEF S
    <3>4. /\ held' \subseteq S /\ n \in held'
          /\ \A p \in held' : \A q \in S : p < q => q \in held'
      BY <3>1, <3>2, <3>3, NewestStays DEF S
    <3>5. \A q \in Place : IsRecord(q) /\ q \notin held => \A p \in held : q <= p
      BY <1>0, <1>1 DEF StreamInv, HeldIsNewest
    <3>6. \A p \in held' : IsRecord(p)'
      BY <3>4, <1>0, <1>2, <2>1 DEF S, StreamInv, HeldIsNewest
    <3>7. ASSUME NEW p \in held', NEW q \in Place', IsRecord(q)', p < q
          PROVE  q \in held'
      <4>1. CASE q = n
        BY <4>1, <3>4
      <4>2. CASE q \in Place
        <5>1. p \in held
          BY <4>2, <3>4, <3>7, <1>0, <1>1 DEF S, Place
        <5>2. q \in held
          BY <5>1, <4>2, <3>7, <1>2 DEF StreamInv, HeldIsNewest
        <5>3. QED
          BY <5>2, <3>4, <3>7 DEF S
      <4>3. QED
        BY <4>1, <4>2, <1>1
    <3>8. QED
      BY <3>4, <3>6, <3>7, <1>0, <1>1 DEF HeldIsNewest, S
  <2>2. CASE e.nature # "record"
    <3>1. held' = held
      BY <2>2 DEF Say
    <3>2. QED
      BY <3>1, <2>2, <1>0, <1>1, <1>2 DEF StreamInv, HeldIsNewest
  <2>3. QED
    BY <2>1, <2>2
<1>4. TypeOK'
  BY <1>0, <1>1, <1>3 DEF StreamInv, TypeOK, listeners
<1>5. CursorIsAhead'
  BY <1>n, <1>0, <1>1 DEF StreamInv, TypeOK, CursorIsAhead, Open, listeners
<1>6. SeenIsPast'
  BY <1>n, <1>0, <1>1 DEF StreamInv, TypeOK, SeenIsPast, listeners
<1>7. RecordIsWhole'
  <2> SUFFICES ASSUME NEW c \in Client, Open(c)
               PROVE  Records(c, from[c], next[c])' = ToHand(c)'
    BY <1>0 DEF RecordIsWhole, Open, listeners
  <2>1. next[c] \in Nat /\ next[c] <= n /\ missed[c] \subseteq Place
    BY <1>n DEF StreamInv, TypeOK, CursorIsAhead
  <2>2. Records(c, from[c], next[c])' = Records(c, from[c], next[c])
    BY <2>1, <1>0, <1>1, <1>2 DEF Records, listeners
  <2>3. ToHand(c)' = ToHand(c)
    BY <2>1, <1>0, <1>1, <1>2 DEF ToHand, listeners
  <2>4. QED
    BY <2>2, <2>3 DEF StreamInv, RecordIsWhole
<1>8. QED
  BY <1>3, <1>4, <1>5, <1>6, <1>7 DEF StreamInv

\* The steps that leave what was said and kept alone have one client's standing to
\* show, and the rest stays as it was.
LEMMA OneClient ==
    ASSUME StreamInv, UNCHANGED <<run, said, held>>, TypeOK', SeenIsPast',
           \A c \in Client : Open(c)' =>
              /\ (from[c] < next[c])' /\ (next[c] <= Len(said) + 1)'
              /\ (missed[c] \subseteq Place)'
              /\ (seen[c].run = run => seen[c].place <= from[c])'
              /\ (Records(c, from[c], next[c]) = ToHand(c))'
    PROVE  StreamInv'
<1>1. HeldIsNewest'
  BY DEF StreamInv, HeldIsNewest, IsRecord, Place
<1>2. CursorIsAhead' /\ RecordIsWhole'
  BY DEF CursorIsAhead, RecordIsWhole
<1>3. QED
  BY <1>1, <1>2 DEF StreamInv

LEMMA ListenStream == ASSUME StreamInv, NEW k \in Client, Listen(k) PROVE StreamInv'
<1>0. /\ Len(said) \in Nat /\ Place \subseteq Nat /\ held \subseteq Place
      /\ seen[k] \in [run : Nat, place : Nat]
      /\ UNCHANGED <<run, said, held, seen>>
  BY DEF StreamInv, TypeOK, Place, Listen
<1>1. Since(seen[k]) \subseteq held
  BY DEF Since
<1>2. TypeOK'
  <2>1. Since(seen[k]) \in SUBSET Nat
    BY <1>0, <1>1
  <2>2. missed' \in [Client -> SUBSET Nat] /\ at' \in [Client -> {"away", "open", "ending"}]
    BY <2>1 DEF StreamInv, TypeOK, Listen
  <2>3. next' \in [Client -> Nat] /\ from' \in [Client -> Nat]
    BY <1>0 DEF StreamInv, TypeOK, Listen
  <2>4. QED
    BY <1>0, <2>2, <2>3 DEF StreamInv, TypeOK, Place
<1>3. SeenIsPast'
  BY <1>0 DEF StreamInv, SeenIsPast
<1>4. ASSUME NEW c \in Client, c # k, Open(c)'
      PROVE  /\ (from[c] < next[c])' /\ (next[c] <= Len(said) + 1)'
             /\ (missed[c] \subseteq Place)'
             /\ (seen[c].run = run => seen[c].place <= from[c])'
             /\ (Records(c, from[c], next[c]) = ToHand(c))'
  <2>1. /\ at'[c] = at[c] /\ from'[c] = from[c] /\ next'[c] = next[c]
        /\ missed'[c] = missed[c] /\ Open(c)
    BY <1>4 DEF StreamInv, TypeOK, Listen, Open
  <2>2. QED
    BY <1>0, <2>1 DEF StreamInv, CursorIsAhead, RecordIsWhole, Records, ToHand, Hears,
                      IsRecord, Place
<1>5. /\ next'[k] = Len(said) + 1 /\ missed'[k] = Since(seen[k])
      /\ from'[k] = IF Knows(seen[k]) /\ Covers(seen[k].place) THEN seen[k].place
                    ELSE Len(said)
  BY DEF StreamInv, TypeOK, Listen
<1>6. from'[k] \in Nat /\ from'[k] <= Len(said)
  BY <1>0, <1>5 DEF Knows
<1>7. seen[k].run = run => seen[k].place <= from'[k]
  <2> SUFFICES ASSUME seen[k].run = run, ~(Knows(seen[k]) /\ Covers(seen[k].place))
               PROVE  seen[k].place <= Len(said)
    BY <1>0, <1>5
  <2>1. QED
    BY DEF StreamInv, SeenIsPast
<1>8. (Records(k, from[k], next[k]) = ToHand(k))'
  <2>1. CASE Knows(seen[k]) /\ Covers(seen[k].place)
    <3>1. \A p \in Place : p > seen[k].place /\ IsRecord(p) => p \in held
      BY <1>0, <2>1, CoveredIsWhole
    <3>2. Since(seen[k]) = {p \in Place : p > seen[k].place /\ IsRecord(p)}
      BY <1>0, <2>1, <3>1 DEF Since
    <3>3. \A p \in Place : p < Len(said) + 1
      BY <1>0 DEF Place
    <3>4. /\ Place' = Place
          /\ \A p \in Place : IsRecord(p)' = IsRecord(p) /\ Hears(k, p)' = Hears(k, p)
      BY <1>0 DEF Place, IsRecord, Hears
    <3>5. from'[k] = seen[k].place
      BY <1>5, <2>1
    <3>6. QED
      BY <1>5, <3>2, <3>3, <3>4, <3>5 DEF Records, ToHand
  <2>2. CASE ~(Knows(seen[k]) /\ Covers(seen[k].place))
    <3>1. Since(seen[k]) = {} /\ from'[k] = Len(said)
      BY <1>5, <2>2 DEF Since
    <3>2. QED
      BY <1>0, <1>5, <3>1 DEF Records, ToHand, Place
  <2>3. QED
    BY <2>1, <2>2
<1>9. QED
  <2>1. ASSUME NEW c \in Client, Open(c)'
        PROVE  /\ (from[c] < next[c])' /\ (next[c] <= Len(said) + 1)'
               /\ (missed[c] \subseteq Place)'
               /\ (seen[c].run = run => seen[c].place <= from[c])'
               /\ (Records(c, from[c], next[c]) = ToHand(c))'
    <3>1. CASE c = k
      <4>1. (from[k] < next[k])' /\ (next[k] <= Len(said) + 1)'
        BY <1>0, <1>5, <1>6
      <4>2. (missed[k] \subseteq Place)'
        BY <1>0, <1>1, <1>5 DEF Place
      <4>3. (seen[k].run = run => seen[k].place <= from[k])'
        BY <1>0, <1>7
      <4>4. QED
        BY <3>1, <4>1, <4>2, <4>3, <1>8
    <3>2. QED
      BY <2>1, <3>1, <1>4
  <2>2. QED
    BY <1>0, <1>2, <1>3, <2>1, OneClient
\* What every step of one client does to the others: nothing.
LEMMA OthersStay ==
    ASSUME StreamInv, UNCHANGED <<run, said, held>>, NEW c \in Client, Open(c),
           from'[c] = from[c], next'[c] = next[c], missed'[c] = missed[c], seen'[c] = seen[c]
    PROVE  /\ (from[c] < next[c])' /\ (next[c] <= Len(said) + 1)'
           /\ (missed[c] \subseteq Place)'
           /\ (seen[c].run = run => seen[c].place <= from[c])'
           /\ (Records(c, from[c], next[c]) = ToHand(c))'
<1>1. Place' = Place /\ \A p : IsRecord(p)' = IsRecord(p) /\ Hears(c, p)' = Hears(c, p)
  BY DEF Place, IsRecord, Hears
<1>2. Records(c, from[c], next[c])' = Records(c, from[c], next[c]) /\ ToHand(c)' = ToHand(c)
  BY <1>1 DEF Records, ToHand
<1>3. QED
  BY <1>1, <1>2 DEF StreamInv, CursorIsAhead, RecordIsWhole

LEMMA HearMissedStream == ASSUME StreamInv, NEW k \in Client, HearMissed(k) PROVE StreamInv'
<1>0. /\ Len(said) \in Nat /\ Place \subseteq Nat /\ Open(k)
      /\ missed[k] \subseteq Place
      /\ from[k] \in Nat /\ next[k] \in Nat /\ run \in Nat
      /\ UNCHANGED <<run, said, held, at, next>>
  BY DEF StreamInv, TypeOK, Place, HearMissed, CursorIsAhead
<1>1. ToHand(k) \subseteq Place /\ ToHand(k) # {}
  BY <1>0 DEF ToHand, HearMissed
<1>2. PICK p \in ToHand(k) : p = Least(ToHand(k)) /\ \A q \in ToHand(k) : p <= q
  BY <1>0, <1>1, LeastIsLeast
<1>3. p \in Nat /\ p \in Place
  BY <1>0, <1>1
<1>4. Records(k, from[k], next[k]) = ToHand(k)
  BY <1>0 DEF StreamInv, RecordIsWhole
<1>5. from[k] < p /\ p < next[k] /\ p <= Len(said)
  BY <1>0, <1>3, <1>4 DEF Records, Place
<1>6. /\ seen' = [seen EXCEPT ![k] = [run |-> run, place |-> p]]
      /\ from' = [from EXCEPT ![k] = p]
      /\ missed' = [missed EXCEPT ![k] = {q \in missed[k] : q > p}]
  BY <1>2 DEF HearMissed, Given
<1>7. TypeOK'
  <2>1. seen' \in [Client -> [run : Nat, place : Nat]] /\ from' \in [Client -> Nat]
    BY <1>0, <1>3, <1>6 DEF StreamInv, TypeOK
  <2>2. {q \in missed[k] : q > p} \in SUBSET Nat
    BY <1>0
  <2>3. missed' \in [Client -> SUBSET Nat]
    BY <1>6, <2>2 DEF StreamInv, TypeOK
  <2>4. QED
    BY <1>0, <2>1, <2>3 DEF StreamInv, TypeOK, Place
<1>8. /\ seen'[k] = [run |-> run, place |-> p] /\ from'[k] = p
      /\ missed'[k] = {q \in missed[k] : q > p}
      /\ \A c \in Client \ {k} :
            seen'[c] = seen[c] /\ from'[c] = from[c] /\ missed'[c] = missed[c]
  BY <1>6 DEF StreamInv, TypeOK
<1>9. SeenIsPast'
  BY <1>0, <1>5, <1>8 DEF StreamInv, SeenIsPast
<1>10. (Records(k, from[k], next[k]) = ToHand(k))'
  <2>1. Place' = Place /\ \A q : IsRecord(q)' = IsRecord(q) /\ Hears(k, q)' = Hears(k, q)
    BY <1>0 DEF Place, IsRecord, Hears
  <2>2. ToHand(k)' = {q \in ToHand(k) : q > p}
    BY <2>1, <1>8 DEF ToHand
  <2>3. Records(k, from[k], next[k])' = {q \in Records(k, from[k], next[k]) : q > p}
    <3>1. \A q \in Place : q \in Nat /\ (p < q => from[k] < q)
      BY <1>0, <1>3, <1>5
    <3>2. QED
      BY <1>0, <1>8, <2>1, <3>1 DEF Records
  <2>4. QED
    BY <1>4, <2>2, <2>3
<1>11. ASSUME NEW c \in Client, Open(c)'
      PROVE  /\ (from[c] < next[c])' /\ (next[c] <= Len(said) + 1)'
             /\ (missed[c] \subseteq Place)'
             /\ (seen[c].run = run => seen[c].place <= from[c])'
             /\ (Records(c, from[c], next[c]) = ToHand(c))'
  <2>1. CASE c = k
    <3>1. (from[k] < next[k])' /\ (next[k] <= Len(said) + 1)'
      BY <1>0, <1>5, <1>8 DEF StreamInv, CursorIsAhead
    <3>2. (missed[k] \subseteq Place)'
      BY <1>0, <1>8 DEF Place
    <3>3. (seen[k].run = run => seen[k].place <= from[k])'
      BY <1>3, <1>8
    <3>4. QED
      BY <2>1, <3>1, <3>2, <3>3, <1>10
  <2>2. CASE c # k
    <3>1. Open(c)
      BY <1>0, <1>11 DEF Open
    <3>2. QED
      BY <2>2, <3>1, <1>0, <1>8, OthersStay
  <2>3. QED
    BY <2>1, <2>2
<1>12. QED
  BY <1>0, <1>7, <1>9, <1>11, OneClient
LEMMA ReceiveStream == ASSUME StreamInv, NEW k \in Client, Receive(k) PROVE StreamInv'
<1>0. /\ Len(said) \in Nat /\ Place \subseteq Nat /\ Open(k)
      /\ from[k] \in Nat /\ next[k] \in Nat /\ run \in Nat
      /\ seen[k] \in [run : Nat, place : Nat]
      /\ UNCHANGED <<run, said, held, at>>
  BY DEF StreamInv, TypeOK, Place, Receive
<1>1. PICK p \in Nat : p = next[k]
  BY <1>0
<1>2. p <= Len(said) /\ from[k] < p
  BY <1>0, <1>1 DEF Receive, StreamInv, CursorIsAhead
<1>3. p \in Place
  BY <1>0, <1>1, <1>2 DEF Place
<1>4. Records(k, from[k], p) = {}
  BY <1>0, <1>1 DEF StreamInv, RecordIsWhole, Receive
<1>5. /\ next'[k] = p + 1 /\ missed'[k] = {}
      /\ \A c \in Client \ {k} :
            /\ next'[c] = next[c] /\ missed'[c] = missed[c]
            /\ seen'[c] = seen[c] /\ from'[c] = from[c]
  BY <1>1 DEF Receive, Given, StreamInv, TypeOK
<1>6. \/ /\ Hears(k, p) /\ from'[k] = p /\ seen'[k] = [run |-> run, place |-> p]
      \/ /\ ~Hears(k, p) /\ from'[k] = from[k] /\ seen'[k] = seen[k]
  BY <1>1 DEF Receive, Given, StreamInv, TypeOK
<1>7. TypeOK'
  <2>1. next' \in [Client -> Nat]
    BY <1>0 DEF Receive, StreamInv, TypeOK
  <2>2. missed' \in [Client -> SUBSET Nat]
    BY DEF Receive, StreamInv, TypeOK
  <2>3. CASE Hears(k, next[k])
    <3>0. /\ seen' = [seen EXCEPT ![k] = [run |-> run, place |-> next[k]]]
          /\ from' = [from EXCEPT ![k] = next[k]]
      BY <2>3 DEF Receive, Given
    <3>1. seen' \in [Client -> [run : Nat, place : Nat]] /\ from' \in [Client -> Nat]
      BY <1>0, <3>0 DEF StreamInv, TypeOK
    <3>2. QED
      BY <1>0, <2>1, <2>2, <3>1 DEF StreamInv, TypeOK, Place
  <2>4. CASE ~Hears(k, next[k])
    <3>1. seen' = seen /\ from' = from
      BY <2>4 DEF Receive
    <3>2. QED
      BY <1>0, <2>1, <2>2, <3>1 DEF StreamInv, TypeOK, Place
  <2>5. QED
    BY <2>3, <2>4
<1>8. SeenIsPast'
  BY <1>0, <1>2, <1>5, <1>6 DEF StreamInv, SeenIsPast
<1>9. from'[k] \in Nat /\ from'[k] < p + 1
  BY <1>0, <1>2, <1>6
<1>10. (Records(k, from[k], next[k]) = ToHand(k))'
  <2>1. Place' = Place /\ \A q : IsRecord(q)' = IsRecord(q) /\ Hears(k, q)' = Hears(k, q)
    BY <1>0 DEF Place, IsRecord, Hears
  <2>2. ToHand(k)' = {}
    BY <1>5 DEF ToHand
  <2>3. \A q \in Place : from'[k] < q /\ q < p + 1 /\ IsRecord(q) => ~Hears(k, q)
    <3>1. \A q \in Place : q \in Nat
      BY <1>0
    <3>2. \A q \in Place : from[k] < q /\ q < p /\ IsRecord(q) => ~Hears(k, q)
      BY <1>4 DEF Records
    <3>3. CASE Hears(k, p) /\ from'[k] = p
      <4>1. \A q \in Place : ~(p < q /\ q < p + 1)
        BY <3>1
      <4>2. QED
        BY <3>3, <4>1
    <3>4. CASE ~Hears(k, p) /\ from'[k] = from[k]
      <4>1. \A q \in Place : q < p + 1 => q < p \/ q = p
        BY <3>1
      <4>2. QED
        BY <3>2, <3>4, <4>1
    <3>5. QED
      BY <1>6, <3>3, <3>4
  <2>4. QED
    BY <1>5, <2>1, <2>2, <2>3 DEF Records
<1>11. ASSUME NEW c \in Client, Open(c)'
      PROVE  /\ (from[c] < next[c])' /\ (next[c] <= Len(said) + 1)'
             /\ (missed[c] \subseteq Place)'
             /\ (seen[c].run = run => seen[c].place <= from[c])'
             /\ (Records(c, from[c], next[c]) = ToHand(c))'
  <2>1. CASE c = k
    <3>1. (from[k] < next[k])' /\ (next[k] <= Len(said) + 1)'
      BY <1>0, <1>2, <1>5, <1>9
    <3>2. (missed[k] \subseteq Place)'
      BY <1>5
    <3>3. (seen[k].run = run => seen[k].place <= from[k])'
      BY <1>0, <1>6 DEF StreamInv, CursorIsAhead
    <3>4. QED
      BY <2>1, <3>1, <3>2, <3>3, <1>10
  <2>2. CASE c # k
    <3>1. Open(c)
      BY <1>0, <1>11 DEF Open
    <3>2. QED
      BY <2>2, <3>1, <1>0, <1>5, OthersStay
  <2>3. QED
    BY <2>1, <2>2
<1>12. QED
  BY <1>0, <1>7, <1>8, <1>11, OneClient

\* Falling behind, leaving and being ended: the client goes and the rest stays.
LEMMA GoneStream ==
    ASSUME StreamInv, NEW k \in Client, Gone({k}), UNCHANGED <<run, said, held, seen>>
    PROVE  StreamInv'
<1>1. TypeOK'
  BY DEF StreamInv, TypeOK, Gone, Place
<1>2. SeenIsPast'
  BY DEF StreamInv, SeenIsPast
<1>3. ASSUME NEW c \in Client, Open(c)'
      PROVE  /\ (from[c] < next[c])' /\ (next[c] <= Len(said) + 1)'
             /\ (missed[c] \subseteq Place)'
             /\ (seen[c].run = run => seen[c].place <= from[c])'
             /\ (Records(c, from[c], next[c]) = ToHand(c))'
  <2>1. c # k /\ Open(c)
    BY <1>3 DEF Gone, Open
  <2>2. from'[c] = from[c] /\ next'[c] = next[c] /\ missed'[c] = missed[c] /\ seen'[c] = seen[c]
    BY <2>1 DEF Gone
  <2>3. QED
    BY <2>1, <2>2, OthersStay
<1>4. QED
  BY <1>1, <1>2, <1>3, OneClient

LEMMA EndEveryStreamStream == ASSUME StreamInv, EndEveryStream PROVE StreamInv'
<1>1. TypeOK'
  BY DEF StreamInv, TypeOK, EndEveryStream, Open, Place
<1>2. SeenIsPast'
  BY DEF StreamInv, SeenIsPast, EndEveryStream
<1>3. ASSUME NEW c \in Client, Open(c)'
      PROVE  /\ (from[c] < next[c])' /\ (next[c] <= Len(said) + 1)'
             /\ (missed[c] \subseteq Place)'
             /\ (seen[c].run = run => seen[c].place <= from[c])'
             /\ (Records(c, from[c], next[c]) = ToHand(c))'
  <2>1. Open(c)
    BY <1>3 DEF EndEveryStream, Open
  <2>2. QED
    BY <2>1, OthersStay DEF EndEveryStream
<1>4. QED
  BY <1>1, <1>2, <1>3, OneClient DEF EndEveryStream

LEMMA RestartStream == ASSUME StreamInv, Restart PROVE StreamInv'
<1>0. /\ run \in Nat /\ run' = run + 1 /\ said' = <<>> /\ held' = {} /\ seen' = seen
      /\ \A c \in Client : at'[c] = "away"
  BY DEF Restart, Gone, StreamInv, TypeOK
<1>1. Len(said') = 0 /\ Place' = {}
  BY <1>0 DEF Place
<1>2. TypeOK'
  BY <1>0, <1>1 DEF StreamInv, TypeOK, Restart, Gone
<1>3. HeldIsNewest'
  BY <1>0, <1>1 DEF HeldIsNewest
<1>4. CursorIsAhead' /\ RecordIsWhole'
  BY <1>0 DEF CursorIsAhead, RecordIsWhole, Open
<1>5. SeenIsPast'
  BY <1>0 DEF StreamInv, TypeOK, SeenIsPast
<1>6. QED
  BY <1>2, <1>3, <1>4, <1>5 DEF StreamInv

LEMMA NextStream == ASSUME StreamInv, [Next]_vars PROVE StreamInv'
<1>1. ASSUME NEW e \in Event, Say(e) PROVE StreamInv'
  BY <1>1, SayStream
<1>2. ASSUME NEW c \in Client, Listen(c) PROVE StreamInv'
  BY <1>2, ListenStream
<1>3. ASSUME NEW c \in Client, HearMissed(c) PROVE StreamInv'
  BY <1>3, HearMissedStream
<1>4. ASSUME NEW c \in Client, Receive(c) PROVE StreamInv'
  BY <1>4, ReceiveStream
<1>5. ASSUME NEW c \in Client, Lag(c) \/ End(c) \/ Leave(c) PROVE StreamInv'
  BY <1>5, GoneStream DEF Lag, End, Leave
<1>6. CASE EndEveryStream
  BY <1>6, EndEveryStreamStream
<1>7. CASE Restart
  BY <1>7, RestartStream
<1>8. CASE UNCHANGED vars
  BY <1>8 DEF vars, StreamInv, TypeOK, HeldIsNewest, CursorIsAhead, SeenIsPast, RecordIsWhole,
              Records, ToHand, Hears, IsRecord, Place, Open
<1>9. QED
  BY <1>1, <1>2, <1>3, <1>4, <1>5, <1>6, <1>7, <1>8 DEF Next, Hear

---------------------------------------------------------------------------
\* The stream's invariant holds throughout (Live::say, Live::listening,
\* Listening::next, Backlog::since).
THEOREM StreamInvariant == Spec => []StreamInv
<1>1. Init => StreamInv
  BY InitStream
<1>2. StreamInv /\ [Next]_vars => StreamInv'
  BY NextStream
<1>3. QED
  BY <1>1, <1>2, PTL DEF Spec

\* The stream's state is typed.
THEOREM StreamTyped == Spec => []TypeOK
<1>1. StreamInv => TypeOK
  BY DEF StreamInv
<1>2. QED
  BY <1>1, StreamInvariant, PTL

\* Between the place a client got to and the place it receives next, what it is
\* still to be handed is exactly the record it may hear (Live::listening).
THEOREM RecordHasNoHole == Spec => []RecordIsWhole
<1>1. StreamInv => RecordIsWhole
  BY DEF StreamInv
<1>2. QED
  BY <1>1, StreamInvariant, PTL

\* Within one run no client hears a place again or an earlier one, over however
\* many connections (Listening::next).
THEOREM EachIsHeardOnce == Spec => HeardInOrder
<1> DEFINE Later(c) == seen'[c] # seen[c] /\ seen'[c].run = seen[c].run
                       => seen'[c].place > seen[c].place
<1>1. ASSUME StreamInv, [Next]_vars, NEW c \in Client PROVE Later(c)
  <2>1. ASSUME NEW k \in Client, HearMissed(k) PROVE Later(c)
    <3>1. CASE c = k
      <4>1. /\ Open(k) /\ Place \subseteq Nat /\ missed[k] \subseteq Place
            /\ ToHand(k) # {} /\ ToHand(k) \subseteq missed[k]
        BY <1>1, <2>1 DEF HearMissed, StreamInv, TypeOK, CursorIsAhead, Place, ToHand
      <4>2. ToHand(k) \in SUBSET Nat
        BY <4>1
      <4>3. Least(ToHand(k)) \in ToHand(k)
        BY <4>1, <4>2, LeastIsLeast
      <4>4. seen'[k] = [run |-> run, place |-> Least(ToHand(k))]
        BY <1>1, <2>1 DEF HearMissed, Given, StreamInv, TypeOK
      <4>5. Least(ToHand(k)) \in Nat /\ from[k] < Least(ToHand(k))
        BY <1>1, <4>1, <4>2, <4>3 DEF StreamInv, RecordIsWhole, Records
      <4>6. from[k] \in Nat /\ seen[k].place \in Nat
        BY <1>1 DEF StreamInv, TypeOK
      <4>7. QED
        BY <1>1, <3>1, <4>1, <4>4, <4>5, <4>6 DEF StreamInv, CursorIsAhead
    <3>2. CASE c # k
      BY <1>1, <2>1, <3>2 DEF HearMissed, Given, StreamInv, TypeOK
    <3>3. QED
      BY <3>1, <3>2
  <2>2. ASSUME NEW k \in Client, Receive(k) PROVE Later(c)
    <3>1. CASE c = k
      <4>1. Open(k) /\ from[k] < next[k]
        BY <1>1, <2>2 DEF Receive, StreamInv, CursorIsAhead
      <4>2. from[k] \in Nat /\ seen[k].place \in Nat /\ next[k] \in Nat
        BY <1>1 DEF StreamInv, TypeOK
      <4>3. seen'[k] = seen[k] \/ seen'[k] = [run |-> run, place |-> next[k]]
        BY <1>1, <2>2 DEF Receive, Given, StreamInv, TypeOK
      <4>4. QED
        BY <1>1, <3>1, <4>1, <4>2, <4>3 DEF StreamInv, CursorIsAhead
    <3>2. CASE c # k
      BY <1>1, <2>2, <3>2 DEF Receive, Given, StreamInv, TypeOK
    <3>3. QED
      BY <3>1, <3>2
  <2>3. CASE UNCHANGED seen
    BY <2>3
  <2>4. QED
    BY <1>1, <2>1, <2>2, <2>3 DEF Next, Hear, Say, listeners, Listen, Lag, End, Leave,
                                  EndEveryStream, Restart, vars
<1>2. StreamInv /\ [Next]_vars => [\A c \in Client : Later(c)]_vars
  BY <1>1
<1>3. QED
  BY <1>2, StreamInvariant, PTL DEF Spec, HeardInOrder

\* Runs are counted from one, and who has been given an id was given it by one of them;
\* who is not connected is still to be handed nothing.
IdsAreOfRuns ==
    /\ run >= 1
    /\ \A c \in Client : seen[c].place # 0 => seen[c].run >= 1
    /\ \A c \in Client : ~Open(c) => missed[c] = {}

\* Where no two runs were begun on a clock that could not be read, an id this run knows is
\* one it gave out.
LEMMA KnownIsOfThisRun ==
    ASSUME \A r, s \in Undated : r = s, TypeOK, IdsAreOfRuns, NEW c \in Client, Knows(seen[c])
    PROVE  seen[c].run = run /\ seen[c].place \in 1 .. Len(said)
<1>1. seen[c].run \in Nat /\ seen[c].place \in Nat /\ run \in Nat /\ Len(said) \in Nat
  BY DEF TypeOK
<1>2. ASSUME seen[c].run # run PROVE Mark(seen[c].run) # Mark(run)
  BY <1>1, <1>2 DEF Mark, IdsAreOfRuns, Knows
<1>3. QED
  BY <1>1, <1>2 DEF Knows

LEMMA IdsAreKept ==
    ASSUME \A r, s \in Undated : r = s, StreamInv, IdsAreOfRuns, [Next]_vars
    PROVE  /\ IdsAreOfRuns'
           /\ \A c \in Client : ~Open(c) /\ seen[c].run # run => missed'[c] = {}
<1> DEFINE Stranger(c) == ~Open(c) /\ seen[c].run # run => missed'[c] = {}
<1>0. TypeOK /\ run \in Nat
  BY DEF StreamInv, TypeOK
<1>1. run' >= 1
  <2>1. run' = run \/ run' = run + 1
    BY DEF Next, Hear, Say, listeners, Listen, Lag, End, Leave, Gone, HearMissed,
                Receive, EndEveryStream, Restart, vars
  <2>2. QED
    BY <1>0, <2>1 DEF IdsAreOfRuns
<1>2. ASSUME NEW c \in Client
      PROVE  seen'[c] = seen[c] \/ seen'[c].run = run
  <2>1. ASSUME NEW k \in Client, NEW p, Given(k, p) PROVE seen'[c] = seen[c] \/ seen'[c].run = run
    BY <1>0, <2>1 DEF Given, TypeOK
  <2>2. QED
    BY <2>1 DEF Next, Hear, Say, listeners, Listen, Lag, End, Leave, HearMissed,
                      Receive, EndEveryStream, Restart, vars
<1>3. \A c \in Client : seen'[c].place # 0 => seen'[c].run >= 1
  BY <1>0, <1>2 DEF IdsAreOfRuns
<1>4. ASSUME NEW c \in Client PROVE Stranger(c) /\ (at'[c] = "away" => missed'[c] = {})
  <2>1. ASSUME NEW k \in Client, Listen(k)
        PROVE  Stranger(c) /\ (at'[c] = "away" => missed'[c] = {})
    <3>1. CASE c = k
      <4>1. at'[c] = "open" /\ missed'[c] = Since(seen[c])
        BY <1>0, <2>1, <3>1 DEF Listen, TypeOK
      <4>2. seen[c].run # run => ~Knows(seen[c])
        BY <1>0, KnownIsOfThisRun
      <4>3. QED
        BY <4>1, <4>2 DEF Since
    <3>2. CASE c # k
      BY <1>0, <2>1, <3>2 DEF Listen, TypeOK, IdsAreOfRuns, Open
    <3>3. QED
      BY <3>1, <3>2
  <2>2. ASSUME NEW k \in Client, HearMissed(k) \/ Receive(k)
        PROVE  Stranger(c) /\ (at'[c] = "away" => missed'[c] = {})
    BY <1>0, <2>2 DEF HearMissed, Receive, TypeOK, IdsAreOfRuns, Open
  <2>3. ASSUME NEW S \in SUBSET Client, Gone(S)
        PROVE  Stranger(c) /\ (at'[c] = "away" => missed'[c] = {})
    BY <1>0, <2>3 DEF Gone, TypeOK, IdsAreOfRuns, Open
  <2>4. CASE EndEveryStream
    BY <1>0, <2>4 DEF EndEveryStream, TypeOK, IdsAreOfRuns, Open
  <2>5. CASE UNCHANGED <<at, missed>>
    BY <2>5 DEF IdsAreOfRuns, Open
  <2>6. QED
    BY <2>1, <2>2, <2>3, <2>4, <2>5
       DEF Next, Hear, Say, listeners, Lag, End, Leave, Restart, vars
<1>5. QED
  BY <1>1, <1>3, <1>4 DEF IdsAreOfRuns, Open

\* A client that comes back with an id of another run is handed nothing, as long as no two
\* runs of the server were begun on a clock that could not be read (Backlog::place_of).
THEOREM OtherRunsAreStrangers ==
    ASSUME \A r, s \in Undated : r = s
    PROVE  Spec => OtherRunIsHandedNothing
<1> DEFINE Stranger(c) == ~Open(c) /\ seen[c].run # run => missed'[c] = {}
<1>1. Init => IdsAreOfRuns
  BY DEF Init, IdsAreOfRuns
<1>2. ASSUME StreamInv, IdsAreOfRuns, [Next]_vars PROVE IdsAreOfRuns' /\ \A c \in Client : Stranger(c)
  BY <1>2, IdsAreKept
<1>3. StreamInv /\ IdsAreOfRuns /\ [Next]_vars => [\A c \in Client : Stranger(c)]_vars
  BY <1>2
<1>4. QED
  BY <1>1, <1>2, <1>3, StreamInvariant, PTL DEF Spec, OtherRunIsHandedNothing

---------------------------------------------------------------------------
\* What is still to be handed to a client from the backlog is what Feed owes it.
LEMMA HandedIsOwed ==
    ASSUME StreamInv, NEW c \in Client, Open(c)
    PROVE  F!Owed(c) = ToHand(c)
<1>1. Records(c, from[c], next[c]) = ToHand(c)
  BY DEF StreamInv, RecordIsWhole
<1>2. F!Owed(c) = Records(c, from[c], next[c])
  BY DEF F!Owed, F!For, Records, Place, IsRecord, Hears
<1>3. QED
  BY <1>1, <1>2

\* Every step of the stream is one of Feed's or none.
LEMMA StreamSteps ==
    ASSUME \A r, s \in Undated : r = s, StreamInv, IdsAreOfRuns, [Next]_vars
    PROVE  [F!Next]_(F!vars)
<1> DEFINE on == [c \in Client |-> Open(c)]
<1>0. /\ at \in [Client -> {"away", "open", "ending"}] /\ TypeOK
      /\ from \in [Client -> Nat] /\ next \in [Client -> Nat] /\ Len(said) \in Nat
  BY DEF StreamInv, TypeOK
<1>1. ASSUME NEW e \in Event, Say(e) PROVE F!Next
  <2>1. on' = on
    BY <1>1 DEF Say, listeners, Open
  <2>2. F!Say(e)
    BY <1>1, <2>1 DEF Say, listeners, F!Say
  <2>3. QED
    BY <2>2 DEF F!Next
<1>2. ASSUME NEW c \in Client, Listen(c) PROVE F!Next
  <2>1. ~on[c] /\ on' = [on EXCEPT ![c] = TRUE]
    BY <1>0, <1>2 DEF Listen, Open
  <2>2. from'[c] \in F!GoesOn(c) /\ from' = [from EXCEPT ![c] = from'[c]]
    <3>1. CASE Knows(seen[c]) /\ Covers(seen[c].place)
      <4>1. seen[c].run = run /\ seen[c].place \in 1 .. Len(said)
        BY <1>0, <3>1, KnownIsOfThisRun
      <4>2. seen[c] = [run |-> run, place |-> seen[c].place]
        BY <1>0, <4>1 DEF TypeOK
      <4>3. from' = [from EXCEPT ![c] = seen[c].place]
        BY <1>2, <3>1 DEF Listen
      <4>4. QED
        BY <1>0, <4>1, <4>2, <4>3 DEF F!GoesOn
    <3>2. CASE ~(Knows(seen[c]) /\ Covers(seen[c].place))
      <4>1. from' = [from EXCEPT ![c] = Len(said)]
        BY <1>2, <3>2 DEF Listen
      <4>2. QED
        BY <1>0, <4>1 DEF F!GoesOn
    <3>3. QED
      BY <3>1, <3>2
  <2>3. F!Join(c)
    BY <1>2, <2>1, <2>2 DEF Listen, F!Join
  <2>4. QED
    BY <2>3 DEF F!Next
<1>3. ASSUME NEW c \in Client, HearMissed(c) PROVE F!Next
  <2>1. Open(c) /\ ToHand(c) # {} /\ ToHand(c) \in SUBSET Nat /\ on' = on
    BY <1>0, <1>3 DEF HearMissed, ToHand, TypeOK, Open
  <2>2. Least(ToHand(c)) \in F!Owed(c) /\ \A q \in F!Owed(c) : Least(ToHand(c)) <= q
    BY <2>1, LeastIsLeast, HandedIsOwed
  <2>3. F!Given(c, Least(ToHand(c)))
    BY <1>3 DEF HearMissed, Given, F!Given
  <2>4. F!CatchUp(c)
    BY <1>3, <2>1, <2>2, <2>3 DEF HearMissed, F!CatchUp
  <2>5. QED
    BY <2>4 DEF F!Next
<1>4. ASSUME NEW c \in Client, Receive(c) PROVE F!Next
  <2>1. Open(c) /\ F!Owed(c) = {} /\ on' = on
    BY <1>4, HandedIsOwed DEF Receive, Open
  <2>2. F!Hear(c)
    BY <1>4, <2>1 DEF Receive, Given, Hears, F!Hear, F!For, F!Given
  <2>3. QED
    BY <2>2 DEF F!Next
<1>5. ASSUME NEW S \in SUBSET Client, Gone(S) PROVE F!Gone(S)
  <2>1. on' = [c \in Client |-> c \notin S /\ on[c]]
    BY <1>0, <1>5 DEF Gone, Open
  <2>2. QED
    BY <1>5, <2>1 DEF Gone, F!Gone
<1>6. ASSUME NEW c \in Client, Lag(c) \/ End(c) \/ Leave(c) PROVE F!Next
  <2>1. Open(c) /\ Gone({c}) /\ UNCHANGED <<run, said, seen>>
    BY <1>6 DEF Lag, End, Leave, Open
  <2>2. F!Part(c)
    BY <1>5, <2>1 DEF F!Part
  <2>3. QED
    BY <2>2 DEF F!Next
<1>7. CASE Restart
  <2>1. F!Restart
    BY <1>5, <1>7 DEF Restart, F!Restart
  <2>2. QED
    BY <2>1 DEF F!Next
<1>8. CASE EndEveryStream \/ UNCHANGED vars
  <2>1. on' = on
    BY <1>0, <1>8 DEF EndEveryStream, vars, Open
  <2>2. QED
    BY <1>8, <2>1 DEF EndEveryStream, vars, F!vars
<1>9. QED
  BY <1>1, <1>2, <1>3, <1>4, <1>6, <1>7, <1>8 DEF Next, Hear

\* The stream with its backlog, its window and their bounds implements what Feed promises:
\* a log, and for each client a place in it that is taken up again or put at the end
\* (Backlog::since, Live::listening, Listening::next), as long as no two runs were begun
\* on a clock that could not be read.
THEOREM StreamIsAFeed ==
    ASSUME \A r, s \in Undated : r = s
    PROVE  Spec => IsAFeed
<1>1. Init => IdsAreOfRuns /\ F!Init
  <2>1. Init => IdsAreOfRuns
    BY DEF Init, IdsAreOfRuns
  <2>2. ASSUME Init PROVE \A c \in Client : Open(c) = FALSE
    BY <2>2 DEF Init, Open
  <2>3. Init => F!Init
    BY <2>2 DEF Init, F!Init
  <2>4. QED
    BY <2>1, <2>3
<1>2. StreamInv /\ IdsAreOfRuns /\ [Next]_vars => IdsAreOfRuns'
  BY IdsAreKept
<1>3. StreamInv /\ IdsAreOfRuns /\ [Next]_vars => [F!Next]_(F!vars)
  BY StreamSteps
<1>4. QED
  BY <1>1, <1>2, <1>3, StreamInvariant, PTL DEF Spec, IsAFeed, F!Spec
=============================================================================
