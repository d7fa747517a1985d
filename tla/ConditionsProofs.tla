------------------------- MODULE ConditionsProofs -------------------------
(***************************************************************************)
(* What holds of the store of conditions and of what is told, for every    *)
(* set of checks and every bound, though whole copies of both files are    *)
(* written over each other: a spell keeps its start, what counts as told   *)
(* can be read of, and what only errands observe is told of once.          *)
(***************************************************************************)
EXTENDS Conditions, FiniteSetTheorems, SequenceTheorems, TLAPS

Fresh(k) == k.standing = "unknown" => k.recurrences = 0

\* What a condition was before, in one history: an earlier spell, the same spell not
\* over yet, or nothing.
Before(j, k) ==
    /\ Fresh(j) /\ Fresh(k)
    /\ \/ j.standing = "unknown"
       \/ /\ Known(j) /\ Known(k)
          /\ \/ j.recurrences < k.recurrences
             \/ /\ j.recurrences = k.recurrences /\ j.since = k.since
                /\ j.standing = "cleared" => k.standing = "cleared"

\* What the refresh, the errand and the other hold of the store, which they may yet write.
RefreshHolds == refresh.at \in {"changed", "same", "told", "merged"}
OfRefresh(c) == IF refresh.at = "merged" THEN refresh.merged[c] ELSE refresh.copy[c]
ErrandHolds == errand.at \in {"found", "finding", "answered", "answering"}
OfErrand(c) == IF errand.at \in {"finding", "answering"} THEN errand.merged[c] ELSE errand.copy[c]
OtherHolds == other.at \in {"gathered", "diagnosed"}

\* An errand touches what it observes, and so does the other; and where no two of a sort
\* overlapped, the other has nothing in hand while one of its sort has.
Apart ==
    /\ errand.touched \subseteq Check \ Watched /\ errand.offers \subseteq Check \ Watched
    /\ other.at = "gathered" => other.touched \subseteq Watched
    /\ other.at = "diagnosed" => other.touched \subseteq Check \ Watched /\ other.keeps = "no"
    /\ "gather" \notin overlapped /\ OtherGathers => refresh.at \in {"idle", "looked"}
    /\ "diagnosis" \notin overlapped /\ OtherDiagnoses => ~ErrandHolds

\* Unless two that observe it overlapped, the copies of a check's condition are of one
\* history: whoever observes the check is ahead of the store, and whoever does not is
\* behind it.
InLine(c) ==
    /\ Fresh(store[c])
    /\ RefreshHolds => IF c \in Watched THEN Before(store[c], OfRefresh(c))
                       ELSE Before(OfRefresh(c), store[c])
    /\ ErrandHolds => IF c \in Watched THEN Before(OfErrand(c), store[c])
                      ELSE Before(store[c], OfErrand(c))
    /\ OtherHolds /\ c \in other.touched => Before(store[c], other.copy[c])

Lineage == Apart /\ \A c \in Check : Alone(c) => InLine(c)

\* The earliest there is of what only diagnoses observe: the store never goes back of it.
Earliest == [c \in Check \ Watched |-> IF RefreshHolds THEN OfRefresh(c) ELSE store[c]]

\* Whether the r-th spell of a condition is over.
Past(k, r) == k.recurrences > r \/ (k.recurrences = r /\ k.standing = "cleared")

\* What an outbox has down as told can be read in it, while its history is not full; and
\* what it owes of an end was told of.
Accounted(box) ==
    /\ \A c \in Check : box.told[c] # Never => Legible(box, c, 0)
    /\ \A a \in box.owed : a.moment = "resolved" => \A c \in Affected(a) : box.told[c] # Never

\* A told spell of what only diagnoses observe can be read in it, or is over for good.
Abreast(box, early) ==
    \A c \in Check \ Watched :
        box.told[c] \in 0 .. FLAPPING - 1 =>
            Legible(box, c, box.told[c]) \/ Past(early[c], box.told[c])

\* With no key told of: of what only diagnoses observe, what was said to have started has
\* been told of, and what is owed to be said is later than that; neither is ahead of the
\* store.
Ascending(box, early) ==
    /\ \A c \in Check \ Watched : box.told[c] <= early[c].recurrences
    /\ \A i \in DOMAIN box.said : box.said[i].moment = "onset" =>
        \A s \in box.said[i].spells : s[1] \notin Watched => s[2] <= box.told[s[1]]
    /\ \A a \in box.owed : a.moment = "onset" =>
        \A s \in a.spells : s[1] \notin Watched =>
            box.told[s[1]] < s[2] /\ s[2] <= early[s[1]].recurrences

\* The four outboxes there are: the file and the copies of it.
Boxes == {outbox, refresh.outbox, use.outbox, other.outbox}

Telling ==
    /\ \A box \in Boxes : Accounted(box)
    /\ overlapped = {} => \A box \in Boxes : Abreast(box, Earliest)
    /\ used = "no" => use = NoUse
    /\ used = "no" /\ overlapped = {} => \A box \in Boxes : Ascending(box, Earliest)

---------------------------------------------------------------------------
\* Observing a condition, and answering for it, keeps it a condition.
LEMMA ConditionsTyped ==
    ASSUME NEW k \in Condition
    PROVE  /\ \A look \in Look, now \in Nat : Observed(k, look, now) \in Condition
           /\ Declined(k) \in Condition /\ Attempted(k) \in Condition /\ Mended(k) \in Condition
<1>1. ASSUME NEW now \in Nat PROVE Raise(k, now) \in Condition
  <2>1. CASE k.standing = "unknown"
    <3>1. Raise(k, now) = [standing |-> "raised", since |-> now, recurrences |-> 0,
                           declined |-> "no", attempts |-> 0]
      BY <2>1 DEF Raise, Unknown
    <3>2. QED
      BY <3>1 DEF Condition
  <2>2. CASE k.standing = "raised"
    BY <2>2 DEF Raise
  <2>3. CASE k.standing = "cleared"
    <3>1. Raise(k, now) = [standing |-> "raised", since |-> now, recurrences |-> k.recurrences + 1,
                           declined |-> "no", attempts |-> 0]
      BY <2>3 DEF Raise
    <3>2. k.recurrences + 1 \in Nat
      BY DEF Condition
    <3>3. QED
      BY <3>1, <3>2 DEF Condition
  <2>4. QED
    BY <2>1, <2>2, <2>3 DEF Condition
<1>2. Clear(k) \in Condition
  BY DEF Clear, Condition
<1>3. Declined(k) \in Condition /\ Attempted(k) \in Condition /\ Mended(k) \in Condition
  BY DEF Declined, Attempted, Mended, Condition
<1>4. QED
  BY <1>1, <1>2, <1>3 DEF Observed

\* Of one history are what was observed and what it was observed of.
LEMMA ObservedIsLater ==
    ASSUME NEW k \in Condition, Fresh(k), NEW look \in Look, NEW now \in Nat
    PROVE  Before(k, Observed(k, look, now))
<1>1. CASE look = "wrong"
  <2>1. CASE k.standing = "unknown"
    BY <1>1, <2>1 DEF Before, Fresh, Observed, Raise, Unknown
  <2>2. CASE k.standing = "raised"
    BY <1>1, <2>2 DEF Before, Fresh, Observed, Raise, Known
  <2>3. CASE k.standing = "cleared"
    <3>1. Observed(k, look, now) = [standing |-> "raised", since |-> now, recurrences |-> k.recurrences + 1,
                                    declined |-> "no", attempts |-> 0]
      BY <1>1, <2>3 DEF Observed, Raise
    <3>2. k.recurrences \in Nat
      BY DEF Condition
    <3>3. QED
      BY <2>3, <3>1, <3>2 DEF Before, Fresh, Known
  <2>4. QED
    BY <2>1, <2>2, <2>3 DEF Condition
<1>2. CASE look # "wrong"
  <2>1. Observed(k, look, now) = Clear(k)
    BY <1>2 DEF Observed
  <2>2. CASE k.standing = "raised"
    <3>1. /\ Clear(k).standing = "cleared" /\ Clear(k).recurrences = k.recurrences
          /\ Clear(k).since = k.since
      BY <2>2 DEF Clear, Condition
    <3>2. QED
      BY <2>1, <2>2, <3>1 DEF Before, Fresh, Known
  <2>3. CASE k.standing # "raised"
    BY <2>1, <2>3 DEF Clear, Before, Fresh, Known
  <2>4. QED
    BY <2>2, <2>3
<1>3. QED
  BY <1>1, <1>2

\* What a condition was before it was before what came of it.
LEMMA BeforeIsTransitive ==
    ASSUME NEW i \in Condition, NEW j \in Condition, NEW k \in Condition, Before(i, j), Before(j, k)
    PROVE  Before(i, k)
<1>1. /\ i.recurrences \in Nat /\ j.recurrences \in Nat /\ k.recurrences \in Nat
  BY DEF Condition
<1>2. QED
  BY <1>1 DEF Before, Known

LEMMA BeforeItself ==
    ASSUME NEW k \in Condition, Fresh(k)
    PROVE  Before(k, k)
BY DEF Before, Known

\* An answer leaves the spell as it was.
LEMMA AnswerIsOfTheSpell ==
    ASSUME NEW k \in Condition, Fresh(k), NEW j \in {k, Declined(k), Attempted(k), Mended(k)}
    PROVE  Before(k, j)
<1>1. j.standing = k.standing /\ j.since = k.since /\ j.recurrences = k.recurrences
  BY DEF Declined, Attempted, Mended, Condition
<1>2. QED
  BY <1>1 DEF Before, Fresh, Known

---------------------------------------------------------------------------
LEMMA NothingTyped ==
    /\ Unknown \in Condition /\ Nothing \in [Check -> Condition] /\ NoOutbox \in Outbox
    /\ NoRefresh \in Refresh /\ NoErrand \in Errand /\ NoOther \in Other
<1>1. Unknown \in Condition
  BY DEF Unknown, Condition
<1>2. Nothing \in [Check -> Condition]
  BY <1>1 DEF Nothing
<1>3. NoOutbox \in Outbox
  <2>1. {} \in {S \in SUBSET Alert : IsFiniteSet(S)} /\ <<>> \in Seq(Alert)
    BY FS_EmptySet, EmptySeq
  <2>2. QED
    BY <2>1 DEF NoOutbox, Outbox, Never
<1>4. NoRefresh \in Refresh
  BY <1>2, <1>3 DEF NoRefresh, Refresh, Look
<1>5. NoErrand \in Errand
  BY <1>2 DEF NoErrand, Errand, Look
<1>6. NoOther \in Other
  BY <1>2, <1>3 DEF NoOther, Other
<1>7. QED
  BY <1>1, <1>2, <1>3, <1>4, <1>5, <1>6

LEMMA InitTyped == Init => TypeOK
BY NothingTyped DEF Init, TypeOK, NoUse

\* What the alerts speak for are spells of checks, and the alerts are finitely many.
LEMMA DigestTyped ==
    ASSUME TypeOK, NEW copy \in [Check -> Condition]
    PROVE  /\ Digest(copy) \in SUBSET Alert /\ IsFiniteSet(Digest(copy))
           /\ Owe(Digest(copy)) \in SUBSET Alert /\ IsFiniteSet(Owe(Digest(copy)))
<1>1. \A c \in Check : copy[c].recurrences \in Nat
  BY DEF Condition
<1>2. ASSUME NEW S \in SUBSET Check, NEW m \in Moment
      PROVE  Grouped(m, S, copy) \in SUBSET Alert /\ IsFiniteSet(Grouped(m, S, copy))
  <2>1. {<<c, copy[c].recurrences>> : c \in S} \in SUBSET (Check \X Nat)
    BY <1>1
  <2> DEFINE a == [moment |-> m, spells |-> {<<c, copy[c].recurrences>> : c \in S}]
  <2>2. a \in Alert
    BY <2>1 DEF Alert
  <2>3. Grouped(m, S, copy) = {} \/ Grouped(m, S, copy) = {a}
    BY DEF Grouped
  <2> HIDE DEF a
  <2>4. QED
    BY <2>2, <2>3, FS_EmptySet, FS_Singleton
<1>3. Digest(copy) \in SUBSET Alert /\ IsFiniteSet(Digest(copy))
  <2> DEFINE G == Grouped("onset", {c \in Check : Started(copy[c], outbox.told[c])}, copy)
             H == Grouped("resolved", {c \in Check : Ended(copy[c], outbox.told[c])}, copy)
  <2>1. G \in SUBSET Alert /\ IsFiniteSet(G)
    BY <1>2 DEF Moment
  <2>2. H \in SUBSET Alert /\ IsFiniteSet(H)
    BY <1>2 DEF Moment
  <2>3. Digest(copy) = {} \/ Digest(copy) = G \cup H
    BY DEF Digest
  <2> HIDE DEF G, H
  <2>4. IsFiniteSet(G \cup H)
    BY <2>1, <2>2, FS_Union
  <2>5. QED
    BY <2>1, <2>2, <2>3, <2>4, FS_EmptySet
<1>4. outbox.owed \in SUBSET Alert /\ IsFiniteSet(outbox.owed)
  BY DEF TypeOK, Outbox
<1> DEFINE over == {a \in outbox.owed : \A d \in Digest(copy) : Affected(a) \cap Affected(d) = {}}
<1>5. IsFiniteSet(over) /\ over \in SUBSET Alert
  BY <1>4, FS_Subset
<1>6. Owe(Digest(copy)) = Digest(copy) \cup over
  BY DEF Owe
<1> HIDE DEF over
<1>7. QED
  BY <1>3, <1>5, <1>6, FS_Union

\* What is owed goes down in one order or another, and all of it does.
LEMMA OrdersTyped ==
    ASSUME NEW alerts \in SUBSET Alert, IsFiniteSet(alerts), NEW order \in Orders(alerts)
    PROVE  /\ order \in Seq(Alert)
           /\ \A i \in DOMAIN order : order[i] \in alerts
           /\ \A a \in alerts : \E i \in DOMAIN order : order[i] = a
<1>1. Cardinality(alerts) \in Nat
  BY FS_CardinalityType
<1>2. order \in [1 .. Cardinality(alerts) -> alerts]
  BY DEF Orders
<1>3. order \in Seq(Alert)
  <2>1. order \in [1 .. Cardinality(alerts) -> Alert]
    BY <1>2
  <2>2. QED
    BY <1>1, <2>1, SeqDef
<1>4. QED
  BY <1>2, <1>3 DEF Orders

\* What is kept of a history with more said after it: nothing else, and all of it where
\* that is not as much as is kept.
LEMMA RecentKeeps ==
    ASSUME NEW s \in Seq(Alert), NEW t \in Seq(Alert)
    PROVE  /\ Recent(s \o t) \in Seq(Alert)
           /\ \A i \in DOMAIN Recent(s \o t) :
                \/ \E j \in DOMAIN s : Recent(s \o t)[i] = s[j]
                \/ \E j \in DOMAIN t : Recent(s \o t)[i] = t[j]
           /\ ~(Len(Recent(s \o t)) >= KEPT) =>
                /\ ~(Len(s) >= KEPT)
                /\ \A j \in DOMAIN s : \E i \in DOMAIN Recent(s \o t) : Recent(s \o t)[i] = s[j]
                /\ \A j \in DOMAIN t : \E i \in DOMAIN Recent(s \o t) : Recent(s \o t)[i] = t[j]
<1> DEFINE u == s \o t
           r == Recent(u)
<1>0. KEPT \in Nat /\ KEPT # 0
  BY ConditionsAssumption
<1>1. /\ u \in Seq(Alert) /\ Len(u) = Len(s) + Len(t)
      /\ Len(s) \in Nat /\ Len(t) \in Nat
      /\ DOMAIN u = 1 .. Len(u) /\ DOMAIN s = 1 .. Len(s) /\ DOMAIN t = 1 .. Len(t)
  BY ConcatProperties, LenProperties
<1>2. \A i \in 1 .. Len(s) + Len(t) : u[i] = IF i <= Len(s) THEN s[i] ELSE t[i - Len(s)]
  BY ConcatProperties
<1>3. ASSUME NEW i \in DOMAIN u
      PROVE  (\E j \in DOMAIN s : u[i] = s[j]) \/ (\E j \in DOMAIN t : u[i] = t[j])
  <2>1. CASE i <= Len(s)
    BY <1>1, <1>2, <2>1
  <2>2. CASE ~(i <= Len(s))
    <3>1. i - Len(s) \in 1 .. Len(t) /\ u[i] = t[i - Len(s)]
      BY <1>1, <1>2, <2>2
    <3>2. QED
      BY <1>1, <3>1
  <2>3. QED
    BY <2>1, <2>2
<1>4. /\ \A j \in DOMAIN s : j \in DOMAIN u /\ u[j] = s[j]
      /\ \A j \in DOMAIN t : Len(s) + j \in DOMAIN u /\ u[Len(s) + j] = t[j]
  BY <1>1, <1>2
<1> HIDE DEF u
<1>5. CASE Len(u) > KEPT
  <2>1. r = SubSeq(u, Len(u) - KEPT + 1, Len(u))
    BY <1>5 DEF Recent
  <2>2. Len(u) - KEPT + 1 \in 1 .. Len(u) + 1 /\ Len(u) \in 0 .. Len(u) /\ Len(u) \in Nat
    BY <1>0, <1>1, <1>5
  <2> DEFINE m == Len(u) - KEPT + 1
  <2>3. /\ r \in Seq(Alert) /\ Len(r) = KEPT
        /\ \A i \in 1 .. KEPT : r[i] = u[m + i - 1]
    <3>1. m \in Int /\ m <= Len(u) /\ m > 0
      BY <1>0, <2>2, <1>5
    <3>2. /\ SubSeq(u, m, Len(u)) \in Seq(Alert)
          /\ Len(SubSeq(u, m, Len(u))) = Len(u) - m + 1
          /\ \A i \in 1 .. Len(u) - m + 1 : SubSeq(u, m, Len(u))[i] = u[m + i - 1]
      <4>1. \A i \in m .. Len(u) : u[i] \in Alert
        BY <1>1, <2>2, <3>1, LenProperties
      <4>2. QED
        BY <2>2, <3>1, <4>1, SubSeqProperties
    <3>3. Len(u) - m + 1 = KEPT
      BY <1>0, <2>2
    <3>4. QED
      BY <2>1, <3>2, <3>3
  <2>4. DOMAIN r = 1 .. KEPT
    BY <2>3, LenProperties
  <2>5. ASSUME NEW i \in DOMAIN r
        PROVE  (\E j \in DOMAIN s : r[i] = s[j]) \/ (\E j \in DOMAIN t : r[i] = t[j])
    <3>1. m + i - 1 \in DOMAIN u /\ r[i] = u[m + i - 1]
      BY <1>0, <1>1, <1>5, <2>2, <2>3, <2>4
    <3> DEFINE n == m + i - 1
    <3>2. n \in DOMAIN u /\ r[i] = u[n]
      BY <3>1
    <3> HIDE DEF n
    <3>3. QED
      BY <1>3, <3>2
  <2>6. Len(r) >= KEPT
    BY <1>0, <2>3
  <2>7. QED
    BY <2>3, <2>5, <2>6 DEF u
<1>6. CASE ~(Len(u) > KEPT)
  <2>1. r = u
    BY <1>6 DEF Recent
  <2>2. ~(Len(u) >= KEPT) => ~(Len(s) >= KEPT)
    BY <1>0, <1>1
  <2>3. QED
    BY <1>1, <1>3, <1>4, <2>1, <2>2 DEF u
<1>7. QED
  BY <1>5, <1>6

LEMMA DeliveredTyped ==
    ASSUME TypeOK, NEW order \in Seq(Alert), NEW recurrence \in [Check -> Nat]
    PROVE  Delivered(order, recurrence) \in Outbox
<1>1. outbox.told \in [Check -> Nat \cup {Never}] /\ outbox.said \in Seq(Alert)
  BY DEF TypeOK, Outbox
<1>2. Recent(outbox.said \o order) \in Seq(Alert)
  BY <1>1, RecentKeeps
<1>3. Recorded(order, recurrence) \in [Check -> Nat \cup {Never}]
  BY <1>1 DEF Recorded
<1>4. {} \in {S \in SUBSET Alert : IsFiniteSet(S)}
  BY FS_EmptySet
<1>5. QED
  BY <1>2, <1>3, <1>4 DEF Delivered, Outbox

\* What a key's alert leaves of it.
LEMMA HeardTyped ==
    ASSUME TypeOK, NEW order \in Orders(outbox.owed)
    PROVE  /\ order \in Seq(Alert) /\ Append(order, KeyAlert) \in Seq(Alert)
           /\ Delivered(Append(order, KeyAlert), [c \in Check |-> 0]) \in Outbox
<1>1. order \in Seq(Alert)
  BY OrdersTyped DEF TypeOK, Outbox
<1>2. KeyAlert \in Alert
  BY DEF KeyAlert, Alert, Moment
<1>3. Append(order, KeyAlert) \in Seq(Alert)
  BY <1>1, <1>2, AppendProperties
<1>4. QED
  BY <1>1, <1>3, DeliveredTyped

\* What a telling leaves of the outbox is one of three.
LEMMA NotifiedIs ==
    ASSUME NEW copy, NEW left \in Notified(copy)
    PROVE  \/ left = outbox
           \/ Digest(copy) # {} /\ left = [outbox EXCEPT !.owed = Owe(Digest(copy))]
           \/ /\ Digest(copy) # {}
              /\ \E order \in Orders(Owe(Digest(copy))) :
                    left = Delivered(order, [c \in Check |-> copy[c].recurrences])
<1>1. CASE Digest(copy) = {}
  BY <1>1 DEF Notified
<1>2. CASE Digest(copy) # {} /\ Held(Digest(copy))
  BY <1>2 DEF Notified
<1>3. CASE Digest(copy) # {} /\ ~Held(Digest(copy))
  BY <1>3 DEF Notified
<1>4. QED
  BY <1>1, <1>2, <1>3

LEMMA NotifiedTyped ==
    ASSUME TypeOK, NEW copy \in [Check -> Condition], NEW left \in Notified(copy)
    PROVE  left \in Outbox
<1>1. outbox \in Outbox
  BY DEF TypeOK
<1>2. /\ Owe(Digest(copy)) \in SUBSET Alert /\ IsFiniteSet(Owe(Digest(copy)))
  BY DigestTyped
<1>3. [outbox EXCEPT !.owed = Owe(Digest(copy))] \in Outbox
  BY <1>1, <1>2 DEF Outbox
<1>4. [c \in Check |-> copy[c].recurrences] \in [Check -> Nat]
  BY DEF Condition
<1>5. \A order \in Orders(Owe(Digest(copy))) :
        Delivered(order, [c \in Check |-> copy[c].recurrences]) \in Outbox
  BY <1>2, <1>4, OrdersTyped, DeliveredTyped
<1>6. QED
  BY <1>1, <1>3, <1>5, NotifiedIs

---------------------------------------------------------------------------
LEMMA RefreshOverTyped ==
    ASSUME TypeOK
    PROVE  RefreshOver \in Refresh
<1>1. refresh.seen \in [Watched -> Look]
  BY DEF TypeOK, Refresh
<1>2. QED
  BY <1>1, NothingTyped DEF RefreshOver, Refresh

LEMMA OverTyped ==
    ASSUME TypeOK, NEW copy \in [Check -> Condition], NEW touched
    PROVE  Over(copy, touched) \in [Check -> Condition]
BY DEF TypeOK, Over

LEMMA LookedTyped ==
    ASSUME TypeOK, NEW S \in SUBSET Check, NEW seen, \A c \in S : seen[c] \in Look
    PROVE  Looked(S, seen) \in [Check -> Condition]
<1>1. ASSUME NEW c \in Check
      PROVE  (IF c \in S THEN Observed(store[c], seen[c], clock) ELSE store[c]) \in Condition
  <2>1. store[c] \in Condition /\ clock \in Nat
    BY DEF TypeOK
  <2>2. QED
    BY <2>1, ConditionsTyped
<1>2. QED
  BY <1>1 DEF Looked

LEMMA MeetTyped ==
    ASSUME TypeOK, NEW sort \in {"gather", "diagnosis"}, NEW inHand, Meet(sort, inHand)
    PROVE  overlapped' \in SUBSET {"gather", "diagnosis"} /\ overlapped \subseteq overlapped'
BY DEF TypeOK, Meet

\* The steps of the refresh up to the telling.
LEMMA RefreshStepTyped ==
    ASSUME TypeOK, RefreshLook \/ RefreshObserve \/ RefreshRead
    PROVE  TypeOK'
<1>1. CASE RefreshLook
  <2>1. PICK seen \in Looks(Watched, refresh.seen) :
            Current(seen, Watched) /\ refresh' = [refresh EXCEPT !.at = "looked", !.seen = seen]
    BY <1>1 DEF RefreshLook
  <2>2. seen \in [Watched -> Look]
    BY DEF Looks
  <2>3. refresh' \in Refresh
    BY <2>1, <2>2 DEF TypeOK, Refresh
  <2>4. flux' \in Nat
    BY <2>1, ConditionsAssumption DEF Current, TypeOK
  <2>5. QED
    BY <1>1, <2>3, <2>4 DEF RefreshLook, TypeOK, surroundings, beside
<1>2. CASE RefreshObserve
  <2>1. Looked(Seen, refresh.seen) \in [Check -> Condition]
    <3>1. Seen \in SUBSET Check /\ \A c \in Seen : refresh.seen[c] \in Look
      BY ConditionsAssumption DEF Seen, Established, TypeOK, Refresh
    <3>2. QED
      BY <3>1, LookedTyped
  <2> DEFINE copy == Looked(Seen, refresh.seen)
             at == IF copy = store THEN "same" ELSE "changed"
  <2>2. refresh' = [refresh EXCEPT !.copy = copy, !.at = at]
    BY <1>2 DEF RefreshObserve
  <2>3. copy \in [Check -> Condition] /\ at \in {"same", "changed"}
    BY <2>1
  <2> HIDE DEF copy, at
  <2>4. refresh' \in Refresh
    BY <2>2, <2>3 DEF TypeOK, Refresh
  <2>5. QED
    BY <1>2, <2>4, MeetTyped DEF RefreshObserve, TypeOK, surroundings
<1>3. CASE RefreshRead
  <2>1. refresh' = [refresh EXCEPT !.at = "merged", !.merged = Over(refresh.copy, Seen)]
    BY <1>3 DEF RefreshRead
  <2>2. Over(refresh.copy, Seen) \in [Check -> Condition]
    BY OverTyped DEF TypeOK, Refresh
  <2>3. refresh' \in Refresh
    BY <2>1, <2>2 DEF TypeOK, Refresh
  <2>4. QED
    BY <1>3, <2>3 DEF RefreshRead, TypeOK, surroundings, beside
<1>4. QED
  BY <1>1, <1>2, <1>3

LEMMA ToldTyped ==
    ASSUME TypeOK, NEW left \in Outbox, Told(left)
    PROVE  TypeOK'
<1>1. CASE refresh' = RefreshOver
  BY <1>1, RefreshOverTyped DEF Told, TypeOK, surroundings, beside
<1>2. CASE refresh' # RefreshOver
  <2> DEFINE found == refresh.at = "same"
             kept == left = outbox
             copy == IF found THEN Nothing ELSE refresh.copy
             box == IF kept THEN NoOutbox ELSE left
             at == IF found THEN "saved" ELSE "told"
             keeps == IF kept THEN "no" ELSE "yes"
  <2>1. refresh' = [refresh EXCEPT !.at = at, !.copy = copy, !.keeps = keeps, !.outbox = box]
    BY <1>2 DEF Told
  <2>2. copy \in [Check -> Condition] /\ box \in Outbox
    BY NothingTyped DEF TypeOK, Refresh
  <2>3. at \in {"saved", "told"} /\ keeps \in {"yes", "no"}
    OBVIOUS
  <2> HIDE DEF found, kept, copy, box, at, keeps
  <2>4. refresh' \in Refresh
    BY <2>1, <2>2, <2>3 DEF TypeOK, Refresh
  <2>5. QED
    BY <2>4 DEF Told, TypeOK, surroundings, beside
<1>3. QED
  BY <1>1, <1>2

LEMMA TellingTyped ==
    ASSUME TypeOK, RefreshTell
    PROVE  TypeOK'
<1>1. refresh.copy \in [Check -> Condition]
  BY DEF TypeOK, Refresh
<1>2. QED
  BY <1>1, NotifiedTyped, ToldTyped DEF RefreshTell

\* The writing of the two files.
LEMMA WritingTyped ==
    ASSUME TypeOK, RefreshWrite \/ RefreshKeep \/ HeardKeep \/ Heard
    PROVE  TypeOK'
<1>1. CASE RefreshWrite
  <2>1. refresh.merged \in [Check -> Condition] /\ Nothing \in [Check -> Condition]
    BY NothingTyped DEF TypeOK, Refresh
  <2>2. store' \in [Check -> Condition] /\ flux' \in Nat
    BY <1>1, <2>1 DEF RefreshWrite, Write, TypeOK
  <2>3. refresh' \in Refresh
    <3>1. [refresh EXCEPT !.at = "saved", !.merged = Nothing, !.copy = Nothing] \in Refresh
      BY <2>1 DEF TypeOK, Refresh
    <3>2. QED
      BY <1>1, <3>1, RefreshOverTyped DEF RefreshWrite
  <2>4. QED
    BY <1>1, <2>2, <2>3 DEF RefreshWrite, TypeOK, surroundings, beside
<1>2. CASE RefreshKeep
  <2>1. refresh.outbox \in Outbox
    BY DEF TypeOK, Refresh
  <2>2. outbox' \in Outbox /\ flux' \in Nat
    BY <1>2, <2>1 DEF RefreshKeep, WriteOutbox, TypeOK
  <2>3. QED
    BY <1>2, <2>2, RefreshOverTyped DEF RefreshKeep, TypeOK, surroundings, beside
<1>3. CASE HeardKeep
  <2>1. outbox' \in Outbox /\ flux' \in Nat
    BY <1>3 DEF HeardKeep, WriteOutbox, TypeOK
  <2>2. use' \in [at : {"idle", "heard"}, outbox : Outbox]
    BY <1>3, NothingTyped DEF HeardKeep, NoUse
  <2>3. QED
    BY <1>3, <2>1, <2>2 DEF HeardKeep, TypeOK, surroundings
<1>4. CASE Heard
  <2>1. \A order \in Orders(outbox.owed) :
            Delivered(Append(order, KeyAlert), [c \in Check |-> 0]) \in Outbox
    BY HeardTyped
  <2>2. use' \in [at : {"idle", "heard"}, outbox : Outbox]
    BY <1>4, <2>1 DEF Heard
  <2>3. flux' \in Nat /\ used' \in {"no", "yes"}
    BY <1>4 DEF Heard, TypeOK
  <2>4. QED
    BY <1>4, <2>2, <2>3 DEF Heard, TypeOK, surroundings
<1>5. QED
  BY <1>1, <1>2, <1>3, <1>4

\* What another gathers or finds, and what it saves of that.
LEMMA OtherTyped ==
    ASSUME TypeOK, OtherGather \/ OtherDiagnose \/ OtherSave \/ OtherKeep
    PROVE  TypeOK'
<1> USE ConditionsAssumption
<1>1. CASE OtherGather
  <2>1. PICK seen \in Looks(Watched, world) :
          LET copy == Looked(Established(seen), seen)
          IN  \E left \in Notified(copy) :
                /\ copy # store \/ left # outbox
                /\ other' = [at |-> IF copy = store THEN "saved" ELSE "gathered", copy |-> copy,
                             touched |-> Established(seen), outbox |-> left,
                             keeps |-> IF left = outbox THEN "no" ELSE "yes"]
    BY <1>1 DEF OtherGather
  <2>2. /\ Established(seen) \in SUBSET Check
        /\ Looked(Established(seen), seen) \in [Check -> Condition]
    <3>1. seen \in [Watched -> Look]
      BY DEF Looks
    <3>2. Established(seen) \in SUBSET Check /\ \A c \in Established(seen) : seen[c] \in Look
      BY <3>1 DEF Established
    <3>3. QED
      BY <3>2, LookedTyped
  <2> DEFINE copy == Looked(Established(seen), seen)
  <2> HIDE DEF copy
  <2>3. PICK left \in Notified(copy) :
            other' = [at |-> IF copy = store THEN "saved" ELSE "gathered", copy |-> copy,
                      touched |-> Established(seen), outbox |-> left,
                      keeps |-> IF left = outbox THEN "no" ELSE "yes"]
    BY <2>1 DEF copy
  <2>4. left \in Outbox
    BY <2>2, <2>3, NotifiedTyped DEF copy
  <2>5. other' \in Other
    BY <2>2, <2>3, <2>4 DEF Other, copy
  <2>6. flux' \in Nat
    BY <1>1, ConditionsAssumption DEF OtherGather, TypeOK
  <2>7. QED
    BY <1>1, <2>5, <2>6, MeetTyped DEF OtherGather, TypeOK, surroundings
<1>2. CASE OtherDiagnose
  <2>1. PICK seen \in Looks(Check \ Watched, world) :
            other' = [NoOther EXCEPT !.at = "diagnosed", !.copy = Looked(Check \ Watched, seen),
                                     !.touched = Check \ Watched]
    BY <1>2 DEF OtherDiagnose
  <2>2. Looked(Check \ Watched, seen) \in [Check -> Condition]
    BY LookedTyped DEF Looks
  <2>3. other' \in Other
    BY <2>1, <2>2, NothingTyped DEF Other
  <2>4. flux' \in Nat
    <3>1. flux' = flux + RARE /\ flux \in Nat /\ RARE \in Nat
      BY <1>2, ConditionsAssumption DEF OtherDiagnose, TypeOK
    <3>2. QED
      BY <3>1
  <2>5. QED
    BY <1>2, <2>3, <2>4, MeetTyped DEF OtherDiagnose, TypeOK, surroundings
<1>3. CASE OtherSave
  <2>1. other.copy \in [Check -> Condition] /\ other.outbox \in Outbox
    BY DEF TypeOK, Other
  <2>2. Over(other.copy, other.touched) \in [Check -> Condition]
    BY <2>1, OverTyped
  <2>3. store' \in [Check -> Condition] /\ flux' \in Nat
    BY <1>3, <2>2 DEF OtherSave, Write, TypeOK
  <2>4. [NoOther EXCEPT !.at = "saved", !.outbox = other.outbox, !.keeps = "yes"] \in Other
    BY <2>1, NothingTyped DEF Other
  <2>5. other' \in Other
    BY <1>3, <2>4, NothingTyped DEF OtherSave
  <2>6. QED
    BY <1>3, <2>3, <2>5 DEF OtherSave, TypeOK, surroundings
<1>4. CASE OtherKeep
  <2>1. other.outbox \in Outbox
    BY DEF TypeOK, Other
  <2>2. outbox' \in Outbox /\ flux' \in Nat
    BY <1>4, <2>1 DEF OtherKeep, WriteOutbox, TypeOK
  <2>3. QED
    BY <1>4, <2>2, NothingTyped DEF OtherKeep, TypeOK, surroundings
<1>5. QED
  BY <1>1, <1>2, <1>3, <1>4

LEMMA ErrandStepTyped ==
    ASSUME TypeOK, ErrandLook \/ Remembered \/ ErrandRead \/ ErrandWrite \/ ErrandOver
    PROVE  TypeOK'
<1>1. CASE ErrandLook
  <2>1. PICK seen \in Looks(Check \ Watched, NoErrand.seen) :
            Current(seen, Check \ Watched) /\ errand' = [errand EXCEPT !.at = "looked", !.seen = seen]
    BY <1>1 DEF ErrandLook
  <2>2. seen \in [Check \ Watched -> Look]
    BY DEF Looks
  <2>3. errand' \in Errand
    BY <2>1, <2>2 DEF TypeOK, Errand
  <2>4. flux' \in Nat
    BY <2>1, ConditionsAssumption DEF Current, TypeOK
  <2>5. QED
    BY <1>1, <2>3, <2>4 DEF ErrandLook, TypeOK, surroundings, beside
<1>2. CASE Remembered
  <2> DEFINE copy == Looked(Check \ Watched, errand.seen)
  <2>1. copy \in [Check -> Condition]
    BY LookedTyped DEF TypeOK, Errand
  <2>2. errand' = [errand EXCEPT !.at = "found", !.copy = copy, !.touched = Check \ Watched]
    BY <1>2 DEF Remembered
  <2> HIDE DEF copy
  <2>3. errand' \in Errand
    BY <2>1, <2>2 DEF TypeOK, Errand
  <2>4. QED
    BY <1>2, <2>3, MeetTyped DEF Remembered, TypeOK, surroundings
<1>3. CASE ErrandRead
  <2> DEFINE at == IF errand.at = "found" THEN "finding" ELSE "answering"
             merged == Over(errand.copy, errand.touched)
  <2>1. errand' = [errand EXCEPT !.at = at, !.merged = merged]
    BY <1>3 DEF ErrandRead
  <2>2. merged \in [Check -> Condition]
    BY OverTyped DEF TypeOK, Errand
  <2>3. at \in {"finding", "answering"}
    OBVIOUS
  <2> HIDE DEF at, merged
  <2>4. errand' \in Errand
    BY <2>1, <2>2, <2>3 DEF TypeOK, Errand
  <2>5. QED
    BY <1>3, <2>4 DEF ErrandRead, TypeOK, surroundings, beside
<1>4. CASE ErrandWrite
  <2> DEFINE offers == IF errand.at = "finding"
                       THEN {c \in errand.touched : Offerable(errand.copy[c])} ELSE errand.offers
  <2>1. errand' = [NoErrand EXCEPT !.at = "offering", !.offers = offers]
    BY <1>4 DEF ErrandWrite
  <2>2. offers \in SUBSET Check
    BY DEF TypeOK, Errand
  <2> HIDE DEF offers
  <2>3. errand' \in Errand
    BY <2>1, <2>2, NothingTyped DEF Errand
  <2>4. errand.merged \in [Check -> Condition]
    BY DEF TypeOK, Errand
  <2>5. store' \in [Check -> Condition] /\ flux' \in Nat
    BY <1>4, <2>4 DEF ErrandWrite, Write, TypeOK
  <2>6. QED
    BY <1>4, <2>3, <2>5 DEF ErrandWrite, TypeOK, surroundings, beside
<1>5. CASE ErrandOver
  BY <1>5, NothingTyped DEF ErrandOver, TypeOK, surroundings, beside
<1>6. QED
  BY <1>1, <1>2, <1>3, <1>4, <1>5

\* An answer leaves, of the condition as the store has it, one of four.
LEMMA MendingIsAnswered ==
    ASSUME TypeOK, NEW c \in Check, Mending(c)
    PROVE  \E k \in {store[c], Declined(store[c]), Attempted(store[c]), Mended(store[c])} :
             \E touched \in {{}, {c}} : k \in Condition /\ Answered(c, k, touched)
<1>1. store[c] \in Condition
  BY DEF TypeOK
<1>2. QED
  BY <1>1, ConditionsTyped DEF Mending, Decline, Fixed, FixFailed, Stopped

LEMMA AnsweredTyped ==
    ASSUME TypeOK, NEW c \in Check, NEW k \in Condition, NEW touched \in SUBSET Check,
           Answered(c, k, touched)
    PROVE  TypeOK'
<1> DEFINE copy == [store EXCEPT ![c] = k]
           offers == errand.offers \ {c}
<1>1. errand' = [errand EXCEPT !.at = "answered", !.copy = copy, !.touched = touched, !.offers = offers]
  BY DEF Answered
<1>2. copy \in [Check -> Condition] /\ offers \in SUBSET Check
  BY DEF TypeOK, Errand
<1> HIDE DEF copy, offers
<1>3. errand' \in Errand
  BY <1>1, <1>2 DEF TypeOK, Errand
<1>4. QED
  BY <1>3, MeetTyped DEF Answered, TypeOK, surroundings

LEMMA AroundTyped ==
    ASSUME TypeOK, Tick \/ (\E c \in Check : Turn(c)) \/ Want \/ Hours
    PROVE  TypeOK'
<1>1. CASE Tick
  BY <1>1 DEF Tick, TypeOK, beside
<1>2. ASSUME NEW c \in Check, Turn(c) PROVE TypeOK'
  <2>1. world' \in [Check -> {"wrong", "fine"}]
    BY <1>2 DEF Turn, TypeOK
  <2>2. QED
    BY <1>2, <2>1 DEF Turn, TypeOK, beside
<1>3. CASE Want
  BY <1>3 DEF Want, TypeOK, beside
<1>4. CASE Hours
  BY <1>4 DEF Hours, TypeOK, beside
<1>5. QED
  BY <1>1, <1>2, <1>3, <1>4

LEMMA NextTyped ==
    ASSUME TypeOK, [Next]_vars
    PROVE  TypeOK'
<1>1. CASE UNCHANGED vars
  BY <1>1 DEF vars, TypeOK
<1>2. ASSUME NEW c \in Check, Mending(c) PROVE TypeOK'
  <2>1. PICK k \in Condition, touched \in SUBSET Check : Answered(c, k, touched)
    BY <1>2, MendingIsAnswered
  <2>2. QED
    BY <2>1, AnsweredTyped
<1>3. QED
  BY <1>1, <1>2, RefreshStepTyped, TellingTyped, WritingTyped, OtherTyped, ErrandStepTyped,
     AroundTyped
  DEF Next, Refreshing

\* Conditions, alerts and copies of both files stay what the program can hold, for any
\* checks and any bounds (condition.rs, app/conditions.rs, alert/outbox.rs).
THEOREM ConditionsTypedAlways == Spec => []TypeOK
<1>1. Init => TypeOK
  BY InitTyped
<1>2. TypeOK /\ [Next]_vars => TypeOK'
  BY NextTyped
<1>3. QED
  BY <1>1, <1>2, PTL DEF Spec


---------------------------------------------------------------------------
\* What the three hold of the store are conditions.
LEMMA HoldingsTyped ==
    ASSUME TypeOK, NEW c \in Check
    PROVE  /\ store[c] \in Condition /\ OfRefresh(c) \in Condition /\ OfErrand(c) \in Condition
           /\ other.copy[c] \in Condition
BY DEF TypeOK, Refresh, Errand, Other, OfRefresh, OfErrand

\* The parts of InLine, one for each that holds a copy.
RefreshInLine(c) ==
    RefreshHolds => IF c \in Watched THEN Before(store[c], OfRefresh(c))
                    ELSE Before(OfRefresh(c), store[c])
ErrandInLine(c) ==
    ErrandHolds => IF c \in Watched THEN Before(OfErrand(c), store[c])
                   ELSE Before(store[c], OfErrand(c))
OtherInLine(c) == OtherHolds /\ c \in other.touched => Before(store[c], other.copy[c])

LEMMA InLineParts ==
    ASSUME NEW c
    PROVE  InLine(c) <=> Fresh(store[c]) /\ RefreshInLine(c) /\ ErrandInLine(c) /\ OtherInLine(c)
BY DEF InLine, RefreshInLine, ErrandInLine, OtherInLine

LEMMA InLineNext ==
    ASSUME NEW c, Fresh(store'[c]), RefreshInLine(c)', ErrandInLine(c)', OtherInLine(c)'
    PROVE  InLine(c)'
BY DEF InLine, RefreshInLine, ErrandInLine, OtherInLine

\* What each holds stays in line as long as it and the store stay as they are.
LEMMA UnmovedInLine ==
    ASSUME NEW c, InLine(c), store' = store
    PROVE  /\ Fresh(store'[c])
           /\ refresh' = refresh => RefreshInLine(c)'
           /\ errand' = errand => ErrandInLine(c)'
           /\ other' = other => OtherInLine(c)'
<1>1. Fresh(store'[c])
  BY DEF InLine
<1>2. ASSUME refresh' = refresh PROVE RefreshInLine(c)'
  BY <1>2, InLineParts DEF RefreshInLine, RefreshHolds, OfRefresh
<1>3. ASSUME errand' = errand PROVE ErrandInLine(c)'
  BY <1>3, InLineParts DEF ErrandInLine, ErrandHolds, OfErrand
<1>4. ASSUME other' = other PROVE OtherInLine(c)'
  BY <1>4, InLineParts DEF OtherInLine, OtherHolds
<1>5. QED
  BY <1>1, <1>2, <1>3, <1>4

\* What was observed of a loaded store is ahead of it where it was looked at, and the same
\* elsewhere.
LEMMA LookedIsLater ==
    ASSUME TypeOK, NEW S \in SUBSET Check, NEW seen, \A c \in S : seen[c] \in Look,
           NEW c \in Check, Fresh(store[c])
    PROVE  /\ Before(store[c], Looked(S, seen)[c])
           /\ c \notin S => Looked(S, seen)[c] = store[c]
<1>1. store[c] \in Condition /\ clock \in Nat
  BY DEF TypeOK
<1>2. Looked(S, seen)[c] = IF c \in S THEN Observed(store[c], seen[c], clock) ELSE store[c]
  BY DEF Looked
<1>3. QED
  BY <1>1, <1>2, ObservedIsLater, BeforeItself

\* The refresh loads, holds and reads again what is of the store's history.
LEMMA RefreshIsOfTheStore ==
    ASSUME TypeOK, NEW c \in Check, InLine(c),
           RefreshLook \/ RefreshObserve \/ RefreshRead \/ (\E left : Told(left)) \/ RefreshKeep
    PROVE  RefreshInLine(c)'
<1> USE ConditionsAssumption
<1>0. store[c] \in Condition /\ Fresh(store[c]) /\ Before(store[c], store[c])
  BY HoldingsTyped, BeforeItself DEF InLine
<1>1. CASE RefreshLook
  BY <1>1 DEF RefreshLook, RefreshInLine, RefreshHolds, TypeOK, Refresh
<1>2. CASE RefreshObserve
  <2> DEFINE copy == Looked(Seen, refresh.seen)
  <2>1. refresh'.copy = copy /\ refresh'.at # "merged" /\ store' = store
    BY <1>2 DEF RefreshObserve, TypeOK, Refresh
  <2>2. OfRefresh(c)' = copy[c]
    BY <2>1 DEF OfRefresh
  <2>3. Seen \in SUBSET Watched /\ \A d \in Seen : refresh.seen[d] \in Look
    BY DEF Seen, Established, TypeOK, Refresh
  <2>4. Before(store[c], copy[c]) /\ (c \notin Seen => copy[c] = store[c])
    BY <1>0, <2>3, LookedIsLater
  <2> HIDE DEF copy
  <2>5. QED
    BY <1>0, <2>1, <2>2, <2>3, <2>4 DEF RefreshInLine
<1>3. ASSUME NEW left, Told(left) PROVE RefreshInLine(c)'
  <2>1. store' = store /\ refresh.at \in {"changed", "same"}
    BY <1>3 DEF Told
  <2>2. CASE refresh'.at \in {"idle", "saved"}
    BY <2>2 DEF RefreshInLine, RefreshHolds
  <2>3. CASE refresh'.at \notin {"idle", "saved"}
    <3>1. refresh'.at = "told" /\ refresh'.copy = refresh.copy
      BY <1>3, <2>3 DEF Told, RefreshOver, NoRefresh, TypeOK, Refresh
    <3>2. OfRefresh(c)' = OfRefresh(c)
      BY <2>1, <3>1 DEF OfRefresh
    <3>3. RefreshHolds
      BY <2>1 DEF RefreshHolds
    <3>4. QED
      BY <2>1, <3>2, <3>3, InLineParts DEF RefreshInLine
  <2>4. QED
    BY <2>2, <2>3
<1>4. CASE RefreshRead
  <2>1. /\ refresh'.at = "merged" /\ refresh'.merged = Over(refresh.copy, Seen) /\ store' = store
        /\ refresh.at = "told"
    BY <1>4 DEF RefreshRead, TypeOK, Refresh
  <2>2. OfRefresh(c)' = IF c \in Seen THEN OfRefresh(c) ELSE store[c]
    BY <2>1 DEF OfRefresh, Over
  <2>3. Seen \subseteq Watched
    BY DEF Seen, Established
  <2>4. c \in Watched => Before(store[c], OfRefresh(c))
    BY <2>1, InLineParts DEF RefreshInLine, RefreshHolds
  <2>5. QED
    BY <1>0, <2>1, <2>2, <2>3, <2>4 DEF RefreshInLine
<1>5. CASE RefreshKeep
  BY <1>5 DEF RefreshKeep, RefreshOver, NoRefresh, RefreshInLine, RefreshHolds
<1>6. QED
  BY <1>1, <1>2, <1>3, <1>4, <1>5

\* The errand loads, answers and reads again what is of the store's history.
LEMMA ErrandIsOfTheStore ==
    ASSUME TypeOK, Apart, NEW c \in Check, InLine(c),
           ErrandLook \/ Remembered \/ ErrandRead \/ ErrandOver
    PROVE  ErrandInLine(c)'
<1> USE ConditionsAssumption
<1>0. store[c] \in Condition /\ Fresh(store[c]) /\ Before(store[c], store[c])
  BY HoldingsTyped, BeforeItself DEF InLine
<1>1. CASE ErrandLook
  BY <1>1 DEF ErrandLook, ErrandInLine, ErrandHolds, TypeOK, Errand
<1>2. CASE Remembered
  <2> DEFINE copy == Looked(Check \ Watched, errand.seen)
  <2>1. errand'.copy = copy /\ errand'.at = "found" /\ store' = store
    BY <1>2 DEF Remembered, TypeOK, Errand
  <2>2. OfErrand(c)' = copy[c]
    BY <2>1 DEF OfErrand
  <2>3. \A d \in Check \ Watched : errand.seen[d] \in Look
    BY DEF TypeOK, Errand
  <2>4. Before(store[c], copy[c]) /\ (c \in Watched => copy[c] = store[c])
    BY <1>0, <2>3, LookedIsLater
  <2> HIDE DEF copy
  <2>5. QED
    BY <1>0, <2>1, <2>2, <2>4 DEF ErrandInLine
<1>3. CASE ErrandRead
  <2>1. /\ errand'.at \in {"finding", "answering"} /\ store' = store
        /\ errand'.merged = Over(errand.copy, errand.touched)
        /\ errand.at \in {"found", "answered"}
    BY <1>3 DEF ErrandRead, TypeOK, Errand
  <2>2. OfErrand(c)' = IF c \in errand.touched THEN OfErrand(c) ELSE store[c]
    BY <2>1 DEF OfErrand, Over
  <2>3. errand.touched \subseteq Check \ Watched
    BY DEF Apart
  <2>4. c \notin Watched => Before(store[c], OfErrand(c))
    BY <2>1, InLineParts DEF ErrandInLine, ErrandHolds
  <2>5. QED
    BY <1>0, <2>1, <2>2, <2>3, <2>4 DEF ErrandInLine
<1>4. CASE ErrandOver
  BY <1>4 DEF ErrandOver, NoErrand, ErrandInLine, ErrandHolds
<1>5. QED
  BY <1>1, <1>2, <1>3, <1>4

LEMMA AnswerIsOfTheStore ==
    ASSUME TypeOK, Apart, NEW c \in Check,
           NEW k \in {store[c], Declined(store[c]), Attempted(store[c]), Mended(store[c])},
           NEW touched \in {{}, {c}}, Answered(c, k, touched), NEW d \in Check, InLine(d)
    PROVE  ErrandInLine(d)'
<1> USE ConditionsAssumption
<1>1. store[d] \in Condition /\ Fresh(store[d]) /\ Before(store[d], store[d])
  BY HoldingsTyped, BeforeItself DEF InLine
<1>2. c \in Check \ Watched
  BY DEF Answered, Apart
<1>3. errand'.at = "answered" /\ store' = store /\ errand'.copy = [store EXCEPT ![c] = k]
  BY DEF Answered, TypeOK, Errand
<1>4. OfErrand(d)' = IF d = c THEN k ELSE store[d]
  BY <1>3 DEF OfErrand, TypeOK
<1>5. CASE d = c
  <2>1. Before(store[c], k)
    BY <1>1, <1>5, AnswerIsOfTheSpell
  <2>2. QED
    BY <1>2, <1>3, <1>4, <1>5, <2>1 DEF ErrandInLine
<1>6. CASE d # c
  BY <1>1, <1>3, <1>4, <1>6 DEF ErrandInLine
<1>7. QED
  BY <1>5, <1>6

\* The other loads what is of the store's history.
LEMMA OtherIsOfTheStore ==
    ASSUME TypeOK, NEW c \in Check, InLine(c), OtherGather \/ OtherDiagnose \/ OtherKeep
    PROVE  OtherInLine(c)'
<1> USE ConditionsAssumption
<1>0. store[c] \in Condition /\ Fresh(store[c])
  BY HoldingsTyped DEF InLine
<1>1. CASE OtherGather
  <2>1. PICK seen \in Looks(Watched, world) : other'.copy = Looked(Established(seen), seen)
    BY <1>1 DEF OtherGather
  <2>2. Established(seen) \in SUBSET Check /\ \A d \in Established(seen) : seen[d] \in Look
    BY DEF Established, Looks
  <2>3. Before(store[c], other'.copy[c]) /\ store' = store
    BY <1>0, <1>1, <2>1, <2>2, LookedIsLater DEF OtherGather
  <2>4. QED
    BY <2>3 DEF OtherInLine
<1>2. CASE OtherDiagnose
  <2>1. PICK seen \in Looks(Check \ Watched, world) : other'.copy = Looked(Check \ Watched, seen)
    BY <1>2 DEF OtherDiagnose, NoOther
  <2>2. \A d \in Check \ Watched : seen[d] \in Look
    BY DEF Looks
  <2>3. Before(store[c], other'.copy[c]) /\ store' = store
    BY <1>0, <1>2, <2>1, <2>2, LookedIsLater DEF OtherDiagnose
  <2>4. QED
    BY <2>3 DEF OtherInLine
<1>3. CASE OtherKeep
  BY <1>3 DEF OtherKeep, NoOther, OtherInLine, OtherHolds
<1>4. QED
  BY <1>1, <1>2, <1>3

---------------------------------------------------------------------------
\* Whoever loads the store while another of its sort has it in hand has overlapped it.
LEMMA ApartIsKept ==
    ASSUME TypeOK, Apart, [Next]_vars
    PROVE  Apart' /\ overlapped \subseteq overlapped'
<1> USE ConditionsAssumption
<1> DEFINE ErrandApart == errand.touched \subseteq Check \ Watched /\ errand.offers \subseteq Check \ Watched
           OtherApart == /\ other.at = "gathered" => other.touched \subseteq Watched
                         /\ other.at = "diagnosed" =>
                                other.touched \subseteq Check \ Watched /\ other.keeps = "no"
           Gathers == "gather" \notin overlapped /\ OtherGathers => refresh.at \in {"idle", "looked"}
           Diagnoses == "diagnosis" \notin overlapped /\ OtherDiagnoses => ~ErrandHolds
<1>1. ErrandApart /\ OtherApart /\ Gathers /\ Diagnoses
  BY DEF Apart
<1>2. ASSUME ErrandApart', OtherApart', Gathers', Diagnoses' PROVE Apart'
  BY <1>2 DEF Apart, OtherGathers, OtherDiagnoses, ErrandHolds
<1>3. ASSUME errand' = errand, other' = other, overlapped \subseteq overlapped'
      PROVE  ErrandApart' /\ OtherApart' /\ Diagnoses'
  BY <1>1, <1>3 DEF OtherDiagnoses, ErrandHolds
<1>4. ASSUME refresh' = refresh, other' = other, overlapped \subseteq overlapped'
      PROVE  OtherApart' /\ Gathers'
  BY <1>1, <1>4 DEF OtherGathers
<1>5. CASE RefreshObserve
  <2>1. /\ errand' = errand /\ other' = other /\ overlapped \subseteq overlapped'
        /\ OtherGathers => "gather" \in overlapped'
    BY <1>5 DEF RefreshObserve, Meet
  <2>2. Gathers'
    BY <2>1 DEF OtherGathers
  <2>3. QED
    BY <1>2, <1>3, <2>1, <2>2
<1>6. CASE RefreshLook
  <2>1. errand' = errand /\ other' = other /\ overlapped' = overlapped /\ refresh'.at = "looked"
    BY <1>6 DEF RefreshLook, beside, TypeOK, Refresh
  <2>2. QED
    BY <1>2, <1>3, <2>1
<1>7. CASE RefreshTell \/ RefreshRead \/ RefreshWrite \/ RefreshKeep
  <2>1. /\ errand' = errand /\ other' = other /\ overlapped' = overlapped
        /\ refresh.at \notin {"idle", "looked"}
    BY <1>7 DEF RefreshTell, Told, RefreshRead, RefreshWrite, RefreshKeep, beside
  <2>2. Gathers'
    BY <1>1, <2>1 DEF OtherGathers
  <2>3. QED
    BY <1>2, <1>3, <2>1, <2>2
<1>8. CASE ErrandLook
  <2>1. /\ refresh' = refresh /\ other' = other /\ overlapped' = overlapped
        /\ errand'.at = "looked" /\ errand'.touched = errand.touched /\ errand'.offers = errand.offers
    BY <1>8 DEF ErrandLook, beside, TypeOK, Errand
  <2>2. ErrandApart' /\ Diagnoses'
    BY <1>1, <2>1 DEF ErrandHolds
  <2>3. QED
    BY <1>2, <1>4, <2>1, <2>2
<1>9. CASE Remembered
  <2>1. /\ refresh' = refresh /\ other' = other /\ overlapped \subseteq overlapped'
        /\ OtherDiagnoses => "diagnosis" \in overlapped'
        /\ errand'.touched = Check \ Watched /\ errand'.offers = errand.offers
    BY <1>9 DEF Remembered, Meet, TypeOK, Errand
  <2>2. ErrandApart' /\ Diagnoses'
    BY <1>1, <2>1 DEF OtherDiagnoses
  <2>3. QED
    BY <1>2, <1>4, <2>1, <2>2
<1>10. CASE ErrandRead
  <2>1. /\ refresh' = refresh /\ other' = other /\ overlapped' = overlapped
        /\ errand'.touched = errand.touched /\ errand'.offers = errand.offers /\ ErrandHolds
    BY <1>10 DEF ErrandRead, beside, ErrandHolds, TypeOK, Errand
  <2>2. ErrandApart' /\ Diagnoses'
    BY <1>1, <2>1 DEF OtherDiagnoses
  <2>3. QED
    BY <1>2, <1>4, <2>1, <2>2
<1>11. CASE ErrandWrite
  <2>1. refresh' = refresh /\ other' = other /\ overlapped' = overlapped
    BY <1>11 DEF ErrandWrite, beside
  <2>2. ErrandApart' /\ Diagnoses'
    <3> DEFINE offers == IF errand.at = "finding"
                         THEN {c \in errand.touched : Offerable(errand.copy[c])} ELSE errand.offers
    <3>1. errand' = [NoErrand EXCEPT !.at = "offering", !.offers = offers]
      BY <1>11 DEF ErrandWrite
    <3>2. offers \subseteq Check \ Watched
      BY <1>1
    <3> HIDE DEF offers
    <3>3. errand'.at = "offering" /\ errand'.offers = offers /\ errand'.touched = {}
      BY <3>1 DEF NoErrand
    <3>4. QED
      BY <3>2, <3>3 DEF ErrandHolds
  <2>3. QED
    BY <1>2, <1>4, <2>1, <2>2
<1>12. CASE ErrandOver
  <2>1. refresh' = refresh /\ other' = other /\ overlapped' = overlapped /\ errand' = NoErrand
    BY <1>12 DEF ErrandOver, beside
  <2>2. ErrandApart' /\ Diagnoses'
    BY <2>1 DEF NoErrand, ErrandHolds
  <2>3. QED
    BY <1>2, <1>4, <2>1, <2>2
<1>13. ASSUME NEW c \in Check, Mending(c) PROVE Apart' /\ overlapped \subseteq overlapped'
  <2>1. PICK k \in Condition, touched \in {{}, {c}} : Answered(c, k, touched)
    BY <1>13, MendingIsAnswered
  <2>2. /\ refresh' = refresh /\ other' = other /\ overlapped \subseteq overlapped'
        /\ OtherDiagnoses => "diagnosis" \in overlapped'
        /\ errand'.touched = touched /\ errand'.offers = errand.offers \ {c} /\ c \in errand.offers
    BY <2>1 DEF Answered, Meet, TypeOK, Errand
  <2>3. ErrandApart' /\ Diagnoses'
    BY <1>1, <2>2 DEF OtherDiagnoses
  <2>4. QED
    BY <1>2, <1>4, <2>2, <2>3
<1>14. CASE OtherGather
  <2>1. /\ refresh' = refresh /\ errand' = errand /\ overlapped \subseteq overlapped'
        /\ refresh.at \notin {"idle", "looked"} => "gather" \in overlapped'
    BY <1>14 DEF OtherGather, Meet
  <2>2. other'.at \in {"saved", "gathered"} /\ other'.touched \subseteq Watched
    <3>1. PICK seen \in Looks(Watched, world) :
              other'.at \in {"saved", "gathered"} /\ other'.touched = Established(seen)
      BY <1>14 DEF OtherGather
    <3>2. QED
      BY <3>1 DEF Established
  <2>3. ErrandApart' /\ OtherApart' /\ Gathers' /\ Diagnoses'
    BY <1>1, <2>1, <2>2 DEF OtherDiagnoses
  <2>4. QED
    BY <1>2, <2>1, <2>3
<1>15. CASE OtherDiagnose
  <2>1. /\ refresh' = refresh /\ errand' = errand /\ overlapped \subseteq overlapped'
        /\ ErrandHolds => "diagnosis" \in overlapped'
    BY <1>15 DEF OtherDiagnose, Meet, ErrandHolds
  <2>2. other'.at = "diagnosed" /\ other'.touched = Check \ Watched /\ other'.keeps = "no"
    BY <1>15 DEF OtherDiagnose, NoOther
  <2>3. ErrandApart' /\ OtherApart' /\ Gathers' /\ Diagnoses'
    BY <1>1, <2>1, <2>2 DEF OtherGathers, ErrandHolds
  <2>4. QED
    BY <1>2, <2>1, <2>3
<1>16. CASE OtherSave
  <2>1. refresh' = refresh /\ errand' = errand /\ overlapped' = overlapped
    BY <1>16 DEF OtherSave
  <2>2. other'.at \in {"none", "saved"} /\ (other'.at = "saved" => other.at = "gathered")
    BY <1>1, <1>16 DEF OtherSave, NoOther
  <2>3. ErrandApart' /\ OtherApart' /\ Gathers' /\ Diagnoses'
    BY <1>1, <2>1, <2>2 DEF OtherGathers, OtherDiagnoses
  <2>4. QED
    BY <1>2, <2>1, <2>3
<1>17. CASE OtherKeep
  <2>1. refresh' = refresh /\ errand' = errand /\ overlapped' = overlapped /\ other' = NoOther
    BY <1>17 DEF OtherKeep
  <2>2. ErrandApart' /\ OtherApart' /\ Gathers' /\ Diagnoses'
    BY <1>1, <2>1 DEF OtherGathers, OtherDiagnoses, NoOther
  <2>3. QED
    BY <1>2, <2>1, <2>2
<1>18. CASE Heard \/ HeardKeep \/ Tick \/ (\E c \in Check : Turn(c)) \/ Want \/ Hours \/ UNCHANGED vars
  <2>1. refresh' = refresh /\ errand' = errand /\ other' = other /\ overlapped' = overlapped
    BY <1>18 DEF Heard, HeardKeep, Tick, Turn, Want, Hours, vars, beside
  <2>2. QED
    BY <1>2, <1>3, <1>4, <2>1
<1>19. QED
  BY <1>5, <1>6, <1>7, <1>8, <1>9, <1>10, <1>11, <1>12, <1>13, <1>14, <1>15, <1>16, <1>17, <1>18
  DEF Next, Refreshing

\* Where the store goes back of what it was, whoever was ahead of it still is.
LEMMA BackInLine ==
    ASSUME TypeOK, TypeOK', NEW c \in Check, InLine(c), Before(store'[c], store[c])
    PROVE  /\ c \in Watched /\ refresh' = refresh => RefreshInLine(c)'
           /\ c \notin Watched /\ errand' = errand => ErrandInLine(c)'
           /\ other' = other => OtherInLine(c)'
<1>1. /\ store[c] \in Condition /\ store'[c] \in Condition /\ OfRefresh(c) \in Condition
      /\ OfErrand(c) \in Condition /\ other.copy[c] \in Condition
  BY HoldingsTyped DEF TypeOK
<1>2. ASSUME c \in Watched, refresh' = refresh PROVE RefreshInLine(c)'
  <2>1. RefreshHolds' = RefreshHolds /\ OfRefresh(c)' = OfRefresh(c)
    BY <1>2 DEF RefreshHolds, OfRefresh
  <2>2. QED
    BY <1>1, <1>2, <2>1, InLineParts, BeforeIsTransitive DEF RefreshInLine
<1>3. ASSUME c \notin Watched, errand' = errand PROVE ErrandInLine(c)'
  <2>1. ErrandHolds' = ErrandHolds /\ OfErrand(c)' = OfErrand(c)
    BY <1>3 DEF ErrandHolds, OfErrand
  <2>2. QED
    BY <1>1, <1>3, <2>1, InLineParts, BeforeIsTransitive DEF ErrandInLine
<1>4. ASSUME other' = other PROVE OtherInLine(c)'
  BY <1>1, <1>4, InLineParts, BeforeIsTransitive DEF OtherInLine, OtherHolds
<1>5. QED
  BY <1>2, <1>3, <1>4

\* Where it goes ahead, whoever was behind it still is.
LEMMA AheadInLine ==
    ASSUME TypeOK, TypeOK', NEW c \in Check, InLine(c), Before(store[c], store'[c])
    PROVE  /\ c \notin Watched /\ refresh' = refresh => RefreshInLine(c)'
           /\ c \in Watched /\ errand' = errand => ErrandInLine(c)'
<1>1. /\ store[c] \in Condition /\ store'[c] \in Condition /\ OfRefresh(c) \in Condition
      /\ OfErrand(c) \in Condition
  BY HoldingsTyped DEF TypeOK
<1>2. ASSUME c \notin Watched, refresh' = refresh PROVE RefreshInLine(c)'
  <2>1. RefreshHolds' = RefreshHolds /\ OfRefresh(c)' = OfRefresh(c)
    BY <1>2 DEF RefreshHolds, OfRefresh
  <2>2. QED
    BY <1>1, <1>2, <2>1, InLineParts, BeforeIsTransitive DEF RefreshInLine
<1>3. ASSUME c \in Watched, errand' = errand PROVE ErrandInLine(c)'
  <2>1. ErrandHolds' = ErrandHolds /\ OfErrand(c)' = OfErrand(c)
    BY <1>3 DEF ErrandHolds, OfErrand
  <2>2. QED
    BY <1>1, <1>3, <2>1, InLineParts, BeforeIsTransitive DEF ErrandInLine
<1>4. QED
  BY <1>2, <1>3

\* One of the three writes what it holds over the store: what the others hold is still of
\* the store's history.
LEMMA RefreshWritesHistory ==
    ASSUME TypeOK, TypeOK', Apart, NEW c \in Check, Alone(c), InLine(c), RefreshWrite
    PROVE  /\ InLine(c)'
           /\ IF c \in Watched THEN Before(store[c], store'[c]) ELSE Before(store'[c], store[c])
<1>0. store[c] \in Condition /\ Before(store[c], store[c])
  BY HoldingsTyped, BeforeItself DEF InLine
<1>1. RefreshHolds /\ OfRefresh(c) = refresh.merged[c] /\ refresh.at = "merged"
  BY DEF RefreshWrite, RefreshHolds, OfRefresh
<1>2. store' = store \/ store' = refresh.merged
  BY DEF RefreshWrite, Write
<1>3. IF c \in Watched THEN Before(store[c], store'[c]) ELSE Before(store'[c], store[c])
  BY <1>0, <1>1, <1>2, InLineParts DEF RefreshInLine
<1>4. Fresh(store'[c])
  BY <1>3 DEF Before
<1>5. errand' = errand /\ other' = other
  BY DEF RefreshWrite, beside
<1>6. RefreshInLine(c)'
  <2>1. refresh'.at \in {"idle", "saved"}
    BY DEF RefreshWrite, RefreshOver, NoRefresh, TypeOK, Refresh
  <2>2. QED
    BY <2>1 DEF RefreshInLine, RefreshHolds
<1>7. CASE c \in Watched
  <2>1. "gather" \notin overlapped
    BY <1>7 DEF Alone
  <2>2. ~OtherGathers
    BY <1>1, <2>1 DEF Apart
  <2>3. ~(OtherHolds /\ c \in other.touched)
    BY <1>7, <2>2 DEF Apart, OtherHolds, OtherGathers
  <2>4. OtherInLine(c)'
    BY <1>5, <2>3 DEF OtherInLine, OtherHolds
  <2>5. ErrandInLine(c)'
    BY <1>3, <1>5, <1>7, AheadInLine
  <2>6. InLine(c)'
    BY <1>4, <1>6, <2>4, <2>5, InLineNext
  <2>7. QED
    BY <1>3, <2>6
<1>8. CASE c \notin Watched
  <2>1. ErrandInLine(c)' /\ OtherInLine(c)'
    BY <1>3, <1>5, <1>8, BackInLine
  <2>2. InLine(c)'
    BY <1>4, <1>6, <2>1, InLineNext
  <2>3. QED
    BY <1>3, <2>2
<1>9. QED
  BY <1>7, <1>8

LEMMA ErrandWritesHistory ==
    ASSUME TypeOK, TypeOK', Apart, NEW c \in Check, Alone(c), InLine(c), ErrandWrite
    PROVE  /\ InLine(c)'
           /\ IF c \in Watched THEN Before(store'[c], store[c]) ELSE Before(store[c], store'[c])
<1>0. store[c] \in Condition /\ Before(store[c], store[c])
  BY HoldingsTyped, BeforeItself DEF InLine
<1>1. ErrandHolds /\ OfErrand(c) = errand.merged[c]
  BY DEF ErrandWrite, ErrandHolds, OfErrand
<1>2. store' = store \/ store' = errand.merged
  BY DEF ErrandWrite, Write
<1>3. IF c \in Watched THEN Before(store'[c], store[c]) ELSE Before(store[c], store'[c])
  BY <1>0, <1>1, <1>2, InLineParts DEF ErrandInLine
<1>4. Fresh(store'[c])
  BY <1>3 DEF Before
<1>5. refresh' = refresh /\ other' = other
  BY DEF ErrandWrite, beside
<1>6. ErrandInLine(c)'
  <2>1. errand'.at = "offering"
    BY DEF ErrandWrite, NoErrand
  <2>2. QED
    BY <2>1 DEF ErrandInLine, ErrandHolds
<1>7. CASE c \in Watched
  <2>1. RefreshInLine(c)' /\ OtherInLine(c)'
    BY <1>3, <1>5, <1>7, BackInLine
  <2>2. InLine(c)'
    BY <1>4, <1>6, <2>1, InLineNext
  <2>3. QED
    BY <1>3, <2>2
<1>8. CASE c \notin Watched
  <2>1. "diagnosis" \notin overlapped
    BY <1>8 DEF Alone
  <2>2. ~OtherDiagnoses
    BY <1>1, <2>1 DEF Apart
  <2>3. ~(OtherHolds /\ c \in other.touched)
    BY <1>8, <2>2 DEF Apart, OtherHolds, OtherDiagnoses
  <2>4. OtherInLine(c)'
    BY <1>5, <2>3 DEF OtherInLine, OtherHolds
  <2>5. RefreshInLine(c)'
    BY <1>3, <1>5, <1>8, AheadInLine
  <2>6. InLine(c)'
    BY <1>4, <1>6, <2>4, <2>5, InLineNext
  <2>7. QED
    BY <1>3, <2>6
<1>9. QED
  BY <1>7, <1>8

LEMMA OtherSavesHistory ==
    ASSUME TypeOK, TypeOK', Apart, NEW c \in Check, Alone(c), InLine(c), OtherSave
    PROVE  InLine(c)' /\ Before(store[c], store'[c])
<1>0. store[c] \in Condition /\ Before(store[c], store[c])
  BY HoldingsTyped, BeforeItself DEF InLine
<1>1. OtherHolds /\ refresh' = refresh /\ errand' = errand
  BY DEF OtherSave, OtherHolds
<1>2. store' = store \/ store'[c] = IF c \in other.touched THEN other.copy[c] ELSE store[c]
  BY DEF OtherSave, Write, Over
<1>3. Before(store[c], store'[c])
  BY <1>0, <1>1, <1>2, InLineParts DEF OtherInLine
<1>4. Fresh(store'[c])
  BY <1>3 DEF Before
<1>5. OtherInLine(c)'
  <2>1. other'.at \in {"none", "saved"}
    BY DEF OtherSave, NoOther
  <2>2. QED
    BY <2>1 DEF OtherInLine, OtherHolds
<1>6. CASE store'[c] = store[c]
  <2>1. RefreshInLine(c)' /\ ErrandInLine(c)'
    BY <1>1, <1>6, InLineParts
    DEF RefreshInLine, RefreshHolds, OfRefresh, ErrandInLine, ErrandHolds, OfErrand
  <2>2. QED
    BY <1>3, <1>4, <1>5, <2>1, InLineNext
<1>7. CASE store'[c] # store[c] /\ c \in Watched
  <2>1. c \in other.touched
    BY <1>2, <1>7
  <2>2. other.at = "gathered" /\ "gather" \notin overlapped
    BY <1>1, <1>7, <2>1 DEF Apart, OtherHolds, Alone
  <2>3. refresh.at \in {"idle", "looked"}
    BY <2>2 DEF Apart, OtherGathers
  <2>4. RefreshInLine(c)'
    BY <1>1, <2>3 DEF RefreshInLine, RefreshHolds
  <2>5. ErrandInLine(c)'
    BY <1>1, <1>3, <1>7, AheadInLine
  <2>6. QED
    BY <1>3, <1>4, <1>5, <2>4, <2>5, InLineNext
<1>8. CASE store'[c] # store[c] /\ c \notin Watched
  <2>1. c \in other.touched
    BY <1>2, <1>8
  <2>2. other.at = "diagnosed" /\ "diagnosis" \notin overlapped
    BY <1>1, <1>8, <2>1 DEF Apart, OtherHolds, Alone
  <2>3. ~ErrandHolds
    BY <2>2 DEF Apart, OtherDiagnoses
  <2>4. ErrandInLine(c)'
    BY <1>1, <2>3 DEF ErrandInLine, ErrandHolds
  <2>5. RefreshInLine(c)'
    BY <1>1, <1>3, <1>8, AheadInLine
  <2>6. QED
    BY <1>3, <1>4, <1>5, <2>4, <2>5, InLineNext
<1>9. QED
  BY <1>6, <1>7, <1>8

\* The store is written by three steps and by no other.
LEMMA OthersLeaveTheStore ==
    ASSUME [Next]_vars, ~RefreshWrite, ~ErrandWrite, ~OtherSave
    PROVE  store' = store
<1>1. ASSUME NEW c \in Check, Mending(c) PROVE store' = store
  BY <1>1 DEF Mending, Decline, Fixed, FixFailed, Stopped, Answered
<1>2. CASE RefreshTell
  BY <1>2 DEF RefreshTell, Told
<1>3. CASE RefreshLook \/ RefreshObserve \/ RefreshRead \/ RefreshKeep
  BY <1>3 DEF RefreshLook, RefreshObserve, RefreshRead, RefreshKeep
<1>4. CASE ErrandLook \/ Remembered \/ ErrandRead \/ ErrandOver
  BY <1>4 DEF ErrandLook, Remembered, ErrandRead, ErrandOver
<1>5. CASE Heard \/ HeardKeep \/ OtherGather \/ OtherDiagnose \/ OtherKeep
  BY <1>5 DEF Heard, HeardKeep, OtherGather, OtherDiagnose, OtherKeep
<1>6. CASE Tick \/ (\E c \in Check : Turn(c)) \/ Want \/ Hours \/ UNCHANGED vars
  BY <1>6 DEF Tick, Turn, Want, Hours, vars
<1>7. QED
  BY <1>1, <1>2, <1>3, <1>4, <1>5, <1>6 DEF Next, Refreshing

LEMMA LineIsKept ==
    ASSUME TypeOK, TypeOK', Apart, [Next]_vars, NEW c \in Check, Alone(c), InLine(c)
    PROVE  InLine(c)'
<1>1. CASE RefreshWrite \/ ErrandWrite \/ OtherSave
  BY <1>1, RefreshWritesHistory, ErrandWritesHistory, OtherSavesHistory
<1>2. CASE ~RefreshWrite /\ ~ErrandWrite /\ ~OtherSave
  <2>0. store' = store
    BY <1>2, OthersLeaveTheStore
  <2>1. /\ Fresh(store'[c])
        /\ refresh' = refresh => RefreshInLine(c)'
        /\ errand' = errand => ErrandInLine(c)'
        /\ other' = other => OtherInLine(c)'
    BY <2>0, UnmovedInLine
  <2>2. CASE RefreshLook \/ RefreshObserve \/ RefreshRead \/ RefreshTell \/ RefreshKeep
    <3>1. RefreshInLine(c)'
      BY <2>2, RefreshIsOfTheStore DEF RefreshTell
    <3>2. errand' = errand /\ other' = other
      BY <2>2 DEF RefreshLook, RefreshObserve, RefreshRead, RefreshTell, Told, RefreshKeep, beside
    <3>3. QED
      BY <2>1, <3>1, <3>2, InLineNext
  <2>3. CASE ErrandLook \/ Remembered \/ ErrandRead \/ ErrandOver
    <3>1. ErrandInLine(c)'
      BY <2>3, ErrandIsOfTheStore
    <3>2. refresh' = refresh /\ other' = other
      BY <2>3 DEF ErrandLook, Remembered, ErrandRead, ErrandOver, beside
    <3>3. QED
      BY <2>1, <3>1, <3>2, InLineNext
  <2>4. ASSUME NEW d \in Check, Mending(d) PROVE InLine(c)'
    <3>1. PICK k \in {store[d], Declined(store[d]), Attempted(store[d]), Mended(store[d])},
               touched \in {{}, {d}} : Answered(d, k, touched)
      BY <2>4, MendingIsAnswered
    <3>2. ErrandInLine(c)'
      BY <3>1, AnswerIsOfTheStore
    <3>3. refresh' = refresh /\ other' = other
      BY <3>1 DEF Answered
    <3>4. QED
      BY <2>1, <3>2, <3>3, InLineNext
  <2>5. CASE OtherGather \/ OtherDiagnose \/ OtherKeep
    <3>1. OtherInLine(c)'
      BY <2>5, OtherIsOfTheStore
    <3>2. refresh' = refresh /\ errand' = errand
      BY <2>5 DEF OtherGather, OtherDiagnose, OtherKeep
    <3>3. QED
      BY <2>1, <3>1, <3>2, InLineNext
  <2>6. CASE Heard \/ HeardKeep \/ Tick \/ (\E d \in Check : Turn(d)) \/ Want \/ Hours \/ UNCHANGED vars
    <3>1. refresh' = refresh /\ errand' = errand /\ other' = other
      BY <2>6 DEF Heard, HeardKeep, Tick, Turn, Want, Hours, vars, beside
    <3>2. QED
      BY <2>1, <3>1, InLineNext
  <2>7. QED
    BY <1>2, <2>2, <2>3, <2>4, <2>5, <2>6 DEF Next, Refreshing
<1>3. QED
  BY <1>1, <1>2

LEMMA LineageIsKept ==
    ASSUME TypeOK, Lineage, [Next]_vars
    PROVE  Lineage'
<1>1. TypeOK' /\ Apart' /\ overlapped \subseteq overlapped'
  BY NextTyped, ApartIsKept DEF Lineage
<1>2. ASSUME NEW c \in Check, Alone(c)' PROVE InLine(c)'
  <2>1. Alone(c)
    BY <1>1, <1>2 DEF Alone
  <2>2. QED
    BY <1>1, <2>1, LineIsKept DEF Lineage
<1>3. QED
  BY <1>1, <1>2 DEF Lineage

LEMMA InitLineage == Init => Lineage
<1>1. ASSUME Init PROVE Lineage
  <2>1. /\ store = Nothing /\ refresh.at = "idle" /\ errand.at = "idle" /\ other.at = "none"
        /\ errand.touched = {} /\ errand.offers = {}
    BY <1>1 DEF Init, NoRefresh, NoErrand, NoOther
  <2>2. \A c \in Check : Fresh(store[c])
    BY <2>1 DEF Nothing, Unknown, Fresh
  <2>3. Apart
    BY <2>1 DEF Apart, OtherGathers, OtherDiagnoses
  <2>4. ASSUME NEW c \in Check PROVE InLine(c)
    BY <2>1, <2>2 DEF InLine, RefreshHolds, ErrandHolds, OtherHolds
  <2>5. QED
    BY <2>3, <2>4 DEF Lineage
<1>2. QED
  BY <1>1

\* Whatever copies of the store are held, by the refresh, an errand and another of either
\* sort, what they hold of a check and what the store has of it are of one history, unless
\* two that observe that check overlapped: ahead of the store with who observes the check,
\* behind it with who does not (Conditions::over, app/conditions.rs).
THEOREM CopiesAreOfOneHistory == Spec => [](TypeOK /\ Lineage)
<1>1. Init => TypeOK /\ Lineage
  BY InitTyped, InitLineage
<1>2. TypeOK /\ Lineage /\ [Next]_vars => (TypeOK /\ Lineage)'
  BY NextTyped, LineageIsKept
<1>3. QED
  BY <1>1, <1>2, PTL DEF Spec

\* One step takes the store, at every such check, to what is of the same history.
LEMMA StoreStaysInItsHistory ==
    ASSUME TypeOK, Lineage, [Next]_vars, NEW c \in Check, Alone(c)
    PROVE  Before(store[c], store'[c]) \/ Before(store'[c], store[c])
<1>0. TypeOK' /\ Apart /\ InLine(c)
  BY NextTyped DEF Lineage
<1>1. CASE RefreshWrite \/ ErrandWrite \/ OtherSave
  BY <1>0, <1>1, RefreshWritesHistory, ErrandWritesHistory, OtherSavesHistory
<1>2. CASE ~RefreshWrite /\ ~ErrandWrite /\ ~OtherSave
  <2>1. store' = store
    BY <1>2, OthersLeaveTheStore
  <2>2. QED
    BY <1>0, <2>1, HoldingsTyped, BeforeItself DEF InLine
<1>3. QED
  BY <1>1, <1>2

\* How long something has been broken is measured from when it broke: no copy of the store
\* written over it moves the start of a spell that stands, unless two surfaces, or two
\* diagnoses, that observe the check had the store in hand at once (Condition::raise,
\* Conditions::over).
THEOREM StartsStand == Spec => SinceStands
<1> DEFINE Stands ==
        \A c \in Check :
            /\ Alone(c)
            /\ store[c].standing = "raised" /\ store'[c].standing = "raised"
            /\ store[c].recurrences = store'[c].recurrences
            => store'[c].since = store[c].since
<1>1. TypeOK /\ Lineage /\ [Next]_vars => Stands
  <2>1. SUFFICES ASSUME TypeOK, Lineage, [Next]_vars, NEW c \in Check, Alone(c),
                        store[c].standing = "raised", store'[c].standing = "raised",
                        store[c].recurrences = store'[c].recurrences
                 PROVE  store'[c].since = store[c].since
    OBVIOUS
  <2>2. Before(store[c], store'[c]) \/ Before(store'[c], store[c])
    BY <2>1, StoreStaysInItsHistory
  <2>3. TypeOK'
    BY <2>1, NextTyped
  <2>4. store[c].recurrences \in Nat /\ store'[c].recurrences \in Nat
    BY <2>1, <2>3 DEF TypeOK, Condition
  <2>5. QED
    BY <2>1, <2>2, <2>4 DEF Before, Known
<1>2. QED
  BY <1>1, CopiesAreOfOneHistory, PTL DEF Spec, SinceStands

---------------------------------------------------------------------------
\* What is past stays past along one history, and the recurrences only grow.
LEMMA PastStaysPast ==
    ASSUME NEW j \in Condition, NEW k \in Condition, Before(j, k)
    PROVE  /\ j.recurrences <= k.recurrences
           /\ \A r \in Nat : Past(j, r) => Past(k, r)
<1>1. j.recurrences \in Nat /\ k.recurrences \in Nat
  BY DEF Condition
<1>2. j.recurrences <= k.recurrences
  BY <1>1 DEF Before, Fresh
<1>3. ASSUME NEW r \in Nat, Past(j, r) PROVE Past(k, r)
  <2>1. CASE j.recurrences > r
    BY <1>1, <1>2, <2>1 DEF Past
  <2>2. CASE j.recurrences = r /\ j.standing = "cleared"
    BY <1>1, <2>2 DEF Past, Before, Known
  <2>3. QED
    BY <1>3, <2>1, <2>2 DEF Past
<1>4. QED
  BY <1>2, <1>3

\* So what an outbox has down stays as it was as what there is moves on.
LEMMA AccountStays ==
    ASSUME NEW box \in Outbox,
           NEW early \in [Check \ Watched -> Condition], NEW later \in [Check \ Watched -> Condition],
           \A c \in Check \ Watched : Before(early[c], later[c])
    PROVE  /\ Abreast(box, early) => Abreast(box, later)
           /\ Ascending(box, early) => Ascending(box, later)
<1> USE ConditionsAssumption
<1>0. box.told \in [Check -> Nat \cup {Never}] /\ box.owed \in SUBSET Alert
  BY DEF Outbox
<1>1. \A c \in Check \ Watched :
        /\ early[c].recurrences \in Nat /\ later[c].recurrences \in Nat
        /\ early[c].recurrences <= later[c].recurrences
        /\ \A r \in Nat : Past(early[c], r) => Past(later[c], r)
  <2>1. SUFFICES ASSUME NEW c \in Check \ Watched
                 PROVE  /\ early[c].recurrences \in Nat /\ later[c].recurrences \in Nat
                        /\ early[c].recurrences <= later[c].recurrences
                        /\ \A r \in Nat : Past(early[c], r) => Past(later[c], r)
    OBVIOUS
  <2>2. early[c] \in Condition /\ later[c] \in Condition /\ Before(early[c], later[c])
    OBVIOUS
  <2>3. early[c].recurrences \in Nat /\ later[c].recurrences \in Nat
    BY <2>2 DEF Condition
  <2>4. QED
    BY <2>2, <2>3, PastStaysPast
<1>2. ASSUME Abreast(box, early) PROVE Abreast(box, later)
  <2>1. ASSUME NEW c \in Check \ Watched, box.told[c] \in 0 .. FLAPPING - 1
        PROVE  Legible(box, c, box.told[c]) \/ Past(later[c], box.told[c])
    <3>1. Legible(box, c, box.told[c]) \/ Past(early[c], box.told[c])
      BY <1>2, <2>1 DEF Abreast
    <3>2. box.told[c] \in Nat
      BY <2>1
    <3>3. QED
      BY <1>1, <3>1, <3>2
  <2>2. QED
    BY <2>1 DEF Abreast
<1>3. ASSUME Ascending(box, early) PROVE Ascending(box, later)
  <2>1. ASSUME NEW c \in Check \ Watched PROVE box.told[c] <= later[c].recurrences
    <3>1. box.told[c] <= early[c].recurrences /\ box.told[c] \in Int
      BY <1>0, <1>3 DEF Ascending, Never
    <3>2. QED
      BY <1>1, <3>1
  <2>2. ASSUME NEW a \in box.owed, NEW s \in a.spells, a.moment = "onset", s[1] \notin Watched
        PROVE  box.told[s[1]] < s[2] /\ s[2] <= later[s[1]].recurrences
    <3>1. s \in Check \X Nat
      BY <1>0 DEF Alert
    <3>2. s[1] \in Check \ Watched /\ s[2] \in Nat
      BY <2>2, <3>1
    <3>3. box.told[s[1]] < s[2] /\ s[2] <= early[s[1]].recurrences
      BY <1>3, <2>2 DEF Ascending
    <3>4. QED
      BY <1>1, <3>2, <3>3
  <2>3. QED
    BY <1>3, <2>1, <2>2 DEF Ascending
<1>4. QED
  BY <1>2, <1>3

\* An empty outbox accounts for everything.
LEMMA NothingIsAccounted ==
    ASSUME NEW early \in [Check \ Watched -> Condition]
    PROVE  Accounted(NoOutbox) /\ Abreast(NoOutbox, early) /\ Ascending(NoOutbox, early)
<1>1. \A c \in Check : NoOutbox.told[c] = -1
  BY DEF NoOutbox, Never
<1>2. NoOutbox.owed = {} /\ DOMAIN NoOutbox.said = {}
  <2>1. NoOutbox.said = <<>> /\ NoOutbox.owed = {}
    BY DEF NoOutbox
  <2>2. QED
    BY <2>1
<1>3. \A c \in Check \ Watched : early[c].recurrences \in Nat
  BY DEF Condition
<1>4. Accounted(NoOutbox)
  BY <1>1, <1>2 DEF Accounted, Never
<1>5. Abreast(NoOutbox, early)
  BY <1>1, ConditionsAssumption DEF Abreast
<1>6. Ascending(NoOutbox, early)
  BY <1>1, <1>2, <1>3 DEF Ascending
<1>7. QED
  BY <1>4, <1>5, <1>6

LEMMA EarliestTyped ==
    ASSUME TypeOK
    PROVE  Earliest \in [Check \ Watched -> Condition]
BY HoldingsTyped DEF Earliest

\* No step takes what there is back of what it was, where no two overlapped: the refresh's
\* copy gives way to what it reads again, that to the store, and the store to what a
\* diagnosis has found since.
LEMMA EarliestMovesOn ==
    ASSUME TypeOK, Lineage, [Next]_vars, overlapped' = {}
    PROVE  \A c \in Check \ Watched : Before(Earliest[c], Earliest'[c])
<1> USE ConditionsAssumption
<1>1. TypeOK' /\ Apart /\ overlapped = {}
  BY NextTyped, ApartIsKept DEF Lineage
<1>2. ASSUME NEW c \in Check
      PROVE  /\ store[c] \in Condition /\ OfRefresh(c) \in Condition
             /\ Alone(c) /\ InLine(c) /\ Before(store[c], store[c])
             /\ RefreshHolds /\ c \notin Watched =>
                    Before(OfRefresh(c), store[c]) /\ Before(OfRefresh(c), OfRefresh(c))
  <2>1. store[c] \in Condition /\ OfRefresh(c) \in Condition
    BY HoldingsTyped
  <2>2. Alone(c) /\ InLine(c)
    BY <1>1 DEF Alone, Lineage
  <2>3. Before(store[c], store[c])
    BY <2>1, <2>2, BeforeItself DEF InLine
  <2>4. ASSUME RefreshHolds, c \notin Watched PROVE Before(OfRefresh(c), store[c])
    BY <2>2, <2>4 DEF InLine
  <2>5. QED
    BY <2>1, <2>2, <2>3, <2>4, BeforeItself DEF Before
<1>3. ASSUME store' = store, refresh' = refresh, NEW c \in Check \ Watched
      PROVE  Before(Earliest[c], Earliest'[c])
  <2>1. Earliest'[c] = Earliest[c]
    BY <1>3 DEF Earliest, RefreshHolds, OfRefresh
  <2>2. QED
    BY <1>2, <2>1 DEF Earliest
<1>4. CASE RefreshLook \/ RefreshKeep
  <2>1. store' = store /\ ~RefreshHolds /\ ~RefreshHolds'
    BY <1>4 DEF RefreshLook, RefreshKeep, RefreshOver, NoRefresh, RefreshHolds, TypeOK, Refresh
  <2>2. QED
    BY <1>2, <2>1 DEF Earliest
<1>5. CASE RefreshObserve
  <2>1. store' = store /\ ~RefreshHolds
    BY <1>5 DEF RefreshObserve, RefreshHolds
  <2>2. ASSUME NEW c \in Check \ Watched PROVE OfRefresh(c)' = store[c]
    <3>1. c \notin Seen
      BY DEF Seen, Established
    <3>2. refresh'.copy[c] = store[c] /\ refresh'.at # "merged"
      BY <1>5, <3>1 DEF RefreshObserve, Looked, TypeOK, Refresh
    <3>3. QED
      BY <3>2 DEF OfRefresh
  <2>3. QED
    BY <1>2, <2>1, <2>2 DEF Earliest
<1>6. ASSUME NEW left, Told(left), NEW c \in Check \ Watched
      PROVE  Before(Earliest[c], Earliest'[c])
  <2>1. store' = store /\ refresh.at \in {"changed", "same"}
    BY <1>6 DEF Told
  <2>2. RefreshHolds /\ Earliest[c] = OfRefresh(c)
    BY <2>1 DEF RefreshHolds, Earliest
  <2>3. CASE refresh'.at \in {"idle", "saved"}
    <3>1. Earliest'[c] = store[c]
      BY <2>1, <2>3 DEF Earliest, RefreshHolds
    <3>2. QED
      BY <1>2, <2>2, <3>1
  <2>4. CASE refresh'.at \notin {"idle", "saved"}
    <3>1. refresh'.at = "told" /\ refresh'.copy = refresh.copy
      BY <1>6, <2>4 DEF Told, RefreshOver, NoRefresh, TypeOK, Refresh
    <3>2. Earliest'[c] = OfRefresh(c)
      BY <2>1, <3>1 DEF Earliest, RefreshHolds, OfRefresh
    <3>3. QED
      BY <1>2, <2>2, <3>2
  <2>5. QED
    BY <2>3, <2>4
<1>7. CASE RefreshRead
  <2>1. /\ refresh'.at = "merged" /\ refresh'.merged = Over(refresh.copy, Seen)
        /\ refresh.at = "told"
    BY <1>7 DEF RefreshRead, TypeOK, Refresh
  <2>2. ASSUME NEW c \in Check \ Watched PROVE Before(Earliest[c], Earliest'[c])
    <3>1. c \notin Seen
      BY DEF Seen, Established
    <3>2. Earliest'[c] = store[c]
      BY <2>1, <3>1 DEF Earliest, RefreshHolds, OfRefresh, Over
    <3>3. RefreshHolds /\ Earliest[c] = OfRefresh(c)
      BY <2>1 DEF RefreshHolds, Earliest
    <3>4. QED
      BY <1>2, <3>2, <3>3
  <2>3. QED
    BY <2>2
<1>8. CASE RefreshWrite
  <2>1. /\ refresh.at = "merged" /\ refresh'.at \in {"idle", "saved"}
        /\ store' = store \/ store' = refresh.merged
    BY <1>8 DEF RefreshWrite, RefreshOver, NoRefresh, Write, TypeOK, Refresh
  <2>2. ASSUME NEW c \in Check \ Watched PROVE Before(Earliest[c], Earliest'[c])
    <3>1. RefreshHolds /\ Earliest[c] = OfRefresh(c) /\ OfRefresh(c) = refresh.merged[c]
      BY <2>1 DEF RefreshHolds, Earliest, OfRefresh
    <3>2. Earliest'[c] = store'[c]
      BY <2>1 DEF Earliest, RefreshHolds
    <3>3. QED
      BY <1>2, <2>1, <3>1, <3>2
  <2>3. QED
    BY <2>2
<1>9. CASE ErrandWrite \/ OtherSave
  <2>1. refresh' = refresh
    BY <1>9 DEF ErrandWrite, OtherSave
  <2>2. ASSUME NEW c \in Check \ Watched PROVE Before(Earliest[c], Earliest'[c])
    <3>1. CASE RefreshHolds
      <4>1. Earliest[c] = OfRefresh(c) /\ Earliest'[c] = OfRefresh(c)
        BY <2>1, <3>1 DEF Earliest, RefreshHolds, OfRefresh
      <4>2. QED
        BY <1>2, <3>1, <4>1
    <3>2. CASE ~RefreshHolds
      <4>1. Earliest[c] = store[c] /\ Earliest'[c] = store'[c]
        BY <2>1, <3>2 DEF Earliest, RefreshHolds
      <4>2. QED
        BY <1>1, <1>2, <1>9, <4>1, ErrandWritesHistory, OtherSavesHistory
    <3>3. QED
      BY <3>1, <3>2
  <2>3. QED
    BY <2>2
<1>10. ASSUME NEW d \in Check, Mending(d) PROVE store' = store /\ refresh' = refresh
  BY <1>10 DEF Mending, Decline, Fixed, FixFailed, Stopped, Answered
<1>11. CASE \/ ErrandLook \/ Remembered \/ ErrandRead \/ ErrandOver \/ Heard \/ HeardKeep
            \/ OtherGather \/ OtherDiagnose \/ OtherKeep
            \/ Tick \/ (\E c \in Check : Turn(c)) \/ Want \/ Hours \/ UNCHANGED vars
  <2>1. store' = store /\ refresh' = refresh
    BY <1>11 DEF ErrandLook, Remembered, ErrandRead, ErrandOver, Heard, HeardKeep,
                 OtherGather, OtherDiagnose, OtherKeep, Tick, Turn, Want, Hours, vars
  <2>2. QED
    BY <1>3, <2>1
<1>12. CASE RefreshTell
  BY <1>6, <1>12 DEF RefreshTell
<1>13. QED
  BY <1>3, <1>4, <1>5, <1>7, <1>8, <1>9, <1>10, <1>11, <1>12 DEF Next, Refreshing

---------------------------------------------------------------------------
\* What a digest says is of that copy of the store, and worth saying; and every spell that
\* started is in it.
LEMMA DigestSays ==
    ASSUME NEW copy, NEW a \in Digest(copy), NEW s \in a.spells
    PROVE  /\ s[1] \in Check /\ s[2] = copy[s[1]].recurrences
           /\ a.moment = "onset" => Started(copy[s[1]], outbox.told[s[1]])
           /\ a.moment = "resolved" => Ended(copy[s[1]], outbox.told[s[1]])
<1> DEFINE S == {c \in Check : Started(copy[c], outbox.told[c])}
           E == {c \in Check : Ended(copy[c], outbox.told[c])}
<1>1. a \in Grouped("onset", S, copy) \/ a \in Grouped("resolved", E, copy)
  BY DEF Digest
<1>2. CASE a \in Grouped("onset", S, copy)
  <2>1. a = [moment |-> "onset", spells |-> {<<c, copy[c].recurrences>> : c \in S}]
    BY <1>2 DEF Grouped
  <2>2. a.moment = "onset" /\ a.spells = {<<c, copy[c].recurrences>> : c \in S}
    BY <2>1
  <2>3. PICK c \in Check : Started(copy[c], outbox.told[c]) /\ s = <<c, copy[c].recurrences>>
    BY <2>2
  <2>4. s[1] = c /\ s[2] = copy[c].recurrences
    BY <2>3
  <2>5. QED
    BY <2>2, <2>3, <2>4
<1>3. CASE a \in Grouped("resolved", E, copy)
  <2>1. a = [moment |-> "resolved", spells |-> {<<c, copy[c].recurrences>> : c \in E}]
    BY <1>3 DEF Grouped
  <2>2. a.moment = "resolved" /\ a.spells = {<<c, copy[c].recurrences>> : c \in E}
    BY <2>1
  <2>3. PICK c \in Check : Ended(copy[c], outbox.told[c]) /\ s = <<c, copy[c].recurrences>>
    BY <2>2
  <2>4. s[1] = c /\ s[2] = copy[c].recurrences
    BY <2>3
  <2>5. QED
    BY <2>2, <2>3, <2>4
<1>4. QED
  BY <1>1, <1>2, <1>3

LEMMA StartedIsSaid ==
    ASSUME NEW copy, Digest(copy) # {}, NEW c \in Check, Started(copy[c], outbox.told[c])
    PROVE  \E a \in Digest(copy) : a.moment = "onset" /\ <<c, copy[c].recurrences>> \in a.spells
<1> DEFINE S == {d \in Check : Started(copy[d], outbox.told[d])}
           a == [moment |-> "onset", spells |-> {<<d, copy[d].recurrences>> : d \in S}]
<1>1. Grouped("onset", S, copy) = {a}
  BY DEF Grouped
<1>2. a \in Digest(copy)
  BY <1>1 DEF Digest
<1>3. a.moment = "onset" /\ <<c, copy[c].recurrences>> \in a.spells
  OBVIOUS
<1>4. QED
  BY <1>2, <1>3

\* Of what only diagnoses observe, a spell is told of as started only beyond what was told.
LEMMA StartedIsBeyond ==
    ASSUME TypeOK, NEW copy \in [Check -> Condition], NEW early, Ascending(outbox, early),
           NEW c \in Check \ Watched, early[c] = copy[c]
    PROVE  /\ outbox.told[c] \in Int /\ copy[c].recurrences \in Nat
           /\ outbox.told[c] <= copy[c].recurrences
           /\ Started(copy[c], outbox.told[c]) => outbox.told[c] < copy[c].recurrences
<1>1. outbox.told[c] \in Int /\ copy[c].recurrences \in Nat /\ FLAPPING \in Nat
  BY ConditionsAssumption DEF TypeOK, Outbox, Never, Condition
<1>2. outbox.told[c] <= copy[c].recurrences
  BY DEF Ascending
<1>3. ASSUME Started(copy[c], outbox.told[c]) PROVE outbox.told[c] < copy[c].recurrences
  BY <1>1, <1>2, <1>3 DEF Started
<1>4. QED
  BY <1>1, <1>2, <1>3

\* What is said stays legible, and what alerts of a start say becomes so.
LEMMA SayingIsLegible ==
    ASSUME TypeOK, NEW order \in Seq(Alert), NEW recurrence
    PROVE  /\ \A c, r : Legible(outbox, c, r) => Legible(Delivered(order, recurrence), c, r)
           /\ \A i \in DOMAIN order : \A s \in order[i].spells : order[i].moment = "onset" =>
                /\ s[2] \in Nat
                /\ \A r \in Nat : s[2] >= r => Legible(Delivered(order, recurrence), s[1], r)
<1> DEFINE left == Delivered(order, recurrence)
           kept == Recent(outbox.said \o order)
<1>1. left.said = kept
  BY DEF Delivered
<1>2. outbox.said \in Seq(Alert)
  BY DEF TypeOK, Outbox
<1>3. ~(Len(kept) >= KEPT) =>
        /\ ~(Len(outbox.said) >= KEPT)
        /\ \A j \in DOMAIN outbox.said : \E i \in DOMAIN kept : kept[i] = outbox.said[j]
        /\ \A j \in DOMAIN order : \E i \in DOMAIN kept : kept[i] = order[j]
  BY <1>2, RecentKeeps
<1> HIDE DEF left, kept
<1>4. \A c, r : Legible(outbox, c, r) => Legible(left, c, r)
  BY <1>1, <1>3 DEF Legible, Readable
<1>5. ASSUME NEW i \in DOMAIN order, NEW s \in order[i].spells, order[i].moment = "onset"
      PROVE  s[2] \in Nat /\ \A r \in Nat : s[2] >= r => Legible(left, s[1], r)
  <2>1. order[i] \in Alert
    BY ElementOfSeq
  <2>2. s \in Check \X Nat
    BY <2>1 DEF Alert
  <2>3. s[2] \in Nat
    BY <2>2
  <2>4. ASSUME NEW r \in Nat, s[2] >= r PROVE Legible(left, s[1], r)
    <3>1. CASE Len(left.said) >= KEPT
      BY <3>1 DEF Legible
    <3>2. CASE ~(Len(left.said) >= KEPT)
      <4>1. PICK j \in DOMAIN left.said : left.said[j] = order[i]
        BY <1>1, <1>3, <3>2
      <4>2. QED
        BY <1>5, <2>4, <4>1 DEF Legible, Readable
    <3>3. QED
      BY <3>1, <3>2
  <2>5. QED
    BY <2>3, <2>4
<1>6. QED
  BY <1>4, <1>5 DEF left

\* What a delivery has down of each check.
LEMMA DeliveredIs ==
    ASSUME NEW order, NEW recurrence
    PROVE  /\ \A c \in Check : Delivered(order, recurrence).told[c] =
                IF \E i \in DOMAIN order : c \in Affected(order[i])
                THEN recurrence[c] ELSE outbox.told[c]
           /\ Delivered(order, recurrence).owed = {}
           /\ Delivered(order, recurrence).said = Recent(outbox.said \o order)
BY DEF Delivered, Recorded

\* What is delivered was owed, with what it is of told of if it is of an end: so what it
\* leaves as told can be read of.
LEMMA DeliveredIsLegible ==
    ASSUME TypeOK, Accounted(outbox), NEW order \in Seq(Alert), NEW recurrence,
           \A i \in DOMAIN order : order[i].moment = "resolved" =>
                \A c \in Affected(order[i]) : outbox.told[c] # Never
    PROVE  Accounted(Delivered(order, recurrence))
<1> DEFINE left == Delivered(order, recurrence)
<1>1. ASSUME NEW c \in Check, left.told[c] # Never PROVE Legible(left, c, 0)
  <2>1. CASE \E i \in DOMAIN order : c \in Affected(order[i])
    <3>1. PICK i \in DOMAIN order : c \in Affected(order[i])
      BY <2>1
    <3>2. CASE order[i].moment = "onset"
      <4>1. PICK s \in order[i].spells : s[1] = c
        BY <3>1 DEF Affected
      <4>2. s[2] \in Nat /\ \A r \in Nat : s[2] >= r => Legible(left, s[1], r)
        BY <3>2, <4>1, SayingIsLegible
      <4>3. s[2] >= 0
        BY <4>2
      <4> HIDE DEF left
      <4>4. QED
        BY <4>1, <4>2, <4>3
    <3>3. CASE order[i].moment = "resolved"
      <4>1. Legible(outbox, c, 0)
        BY <3>1, <3>3 DEF Accounted
      <4>2. QED
        BY <4>1, SayingIsLegible
    <3>4. order[i] \in Alert
      BY ElementOfSeq
    <3>5. QED
      BY <3>2, <3>3, <3>4 DEF Alert, Moment
  <2>2. CASE ~ \E i \in DOMAIN order : c \in Affected(order[i])
    <3>1. left.told[c] = outbox.told[c]
      BY <2>2, DeliveredIs
    <3>2. Legible(outbox, c, 0)
      BY <1>1, <3>1 DEF Accounted
    <3>3. QED
      BY <3>2, SayingIsLegible
  <2>3. QED
    BY <2>1, <2>2
<1>2. left.owed = {}
  BY DeliveredIs
<1> HIDE DEF left
<1>3. Accounted(left)
  BY <1>1, <1>2 DEF Accounted
<1>4. QED
  BY <1>3 DEF left

\* What is owed at the end of a telling, of an end, was told of.
LEMMA OwedEndsWereTold ==
    ASSUME TypeOK, Accounted(outbox), NEW copy \in [Check -> Condition],
           NEW a \in Owe(Digest(copy)), a.moment = "resolved", NEW c \in Affected(a)
    PROVE  outbox.told[c] # Never
<1>1. CASE a \in Digest(copy)
  <2>1. PICK s \in a.spells : c = s[1]
    BY DEF Affected
  <2>2. c \in Check /\ Ended(copy[c], outbox.told[c])
    BY <1>1, <2>1, DigestSays
  <2>3. copy[c].recurrences \in Nat
    BY <2>2 DEF Condition
  <2>4. QED
    BY <2>2, <2>3 DEF Ended, Never
<1>2. CASE a \in outbox.owed
  BY <1>2 DEF Accounted
<1>3. QED
  BY <1>1, <1>2 DEF Owe

---------------------------------------------------------------------------
\* A copy of the store that is, of what only diagnoses observe, the earliest there is.
Foremost(copy, early) == \A c \in Check \ Watched : early[c] = copy[c] /\ Fresh(copy[c])

\* What the hour holds back leaves the outbox accounted for.
LEMMA HoldingIsAccounted ==
    ASSUME TypeOK, NEW copy \in [Check -> Condition], NEW early, Accounted(outbox)
    PROVE  LET left == [outbox EXCEPT !.owed = Owe(Digest(copy))]
           IN  /\ Accounted(left)
               /\ Abreast(outbox, early) => Abreast(left, early)
               /\ Foremost(copy, early) /\ Ascending(outbox, early) => Ascending(left, early)
<1> USE ConditionsAssumption
<1> DEFINE left == [outbox EXCEPT !.owed = Owe(Digest(copy))]
<1>1. left.told = outbox.told /\ left.said = outbox.said /\ left.owed = Owe(Digest(copy))
  BY DEF TypeOK, Outbox
<1> HIDE DEF left
<1>2. \A c, r : Legible(left, c, r) <=> Legible(outbox, c, r)
  BY <1>1 DEF Legible, Readable
<1>3. Accounted(left)
  <2>1. ASSUME NEW a \in left.owed, a.moment = "resolved", NEW c \in Affected(a)
        PROVE  left.told[c] # Never
    BY <1>1, <2>1, OwedEndsWereTold
  <2>2. QED
    BY <1>1, <1>2, <2>1 DEF Accounted
<1>4. ASSUME Abreast(outbox, early) PROVE Abreast(left, early)
  BY <1>1, <1>2, <1>4 DEF Abreast
<1>5. ASSUME Foremost(copy, early), Ascending(outbox, early) PROVE Ascending(left, early)
  <2>1. ASSUME NEW a \in left.owed, NEW s \in a.spells, a.moment = "onset", s[1] \notin Watched
        PROVE  left.told[s[1]] < s[2] /\ s[2] <= early[s[1]].recurrences
    <3>1. CASE a \in Digest(copy)
      <4>1. /\ s[1] \in Check \ Watched /\ s[2] = copy[s[1]].recurrences
            /\ Started(copy[s[1]], outbox.told[s[1]])
        BY <2>1, <3>1, DigestSays
      <4>2. early[s[1]] = copy[s[1]]
        BY <1>5, <4>1 DEF Foremost
      <4>3. outbox.told[s[1]] < copy[s[1]].recurrences /\ copy[s[1]].recurrences \in Nat
        BY <1>5, <4>1, <4>2, StartedIsBeyond
      <4>4. QED
        BY <1>1, <4>1, <4>2, <4>3
    <3>2. CASE a \in outbox.owed
      BY <1>1, <1>5, <2>1, <3>2 DEF Ascending
    <3>3. QED
      BY <1>1, <3>1, <3>2 DEF Owe
  <2>2. QED
    BY <1>1, <1>5, <2>1 DEF Ascending
<1>6. QED
  BY <1>3, <1>4, <1>5 DEF left

\* What is delivered leaves the outbox accounted for: a spell this copy of the store has
\* standing is said now or was before, and one it has over is over for good.
LEMMA DeliveringIsAccounted ==
    ASSUME TypeOK, NEW copy \in [Check -> Condition], NEW early, Digest(copy) # {},
           NEW order \in Orders(Owe(Digest(copy))), Accounted(outbox)
    PROVE  LET left == Delivered(order, [c \in Check |-> copy[c].recurrences])
           IN  /\ Accounted(left)
               /\ Foremost(copy, early) /\ Abreast(outbox, early) => Abreast(left, early)
<1> USE ConditionsAssumption
<1> DEFINE recurrence == [c \in Check |-> copy[c].recurrences]
           left == Delivered(order, recurrence)
<1>0. /\ order \in Seq(Alert) /\ \A i \in DOMAIN order : order[i] \in Owe(Digest(copy))
      /\ \A a \in Owe(Digest(copy)) : \E i \in DOMAIN order : order[i] = a
  BY DigestTyped, OrdersTyped
<1>1. \A c \in Check : left.told[c] = IF \E i \in DOMAIN order : c \in Affected(order[i])
                                      THEN copy[c].recurrences ELSE outbox.told[c]
  BY DeliveredIs
<1>2. /\ \A c, r : Legible(outbox, c, r) => Legible(left, c, r)
      /\ \A i \in DOMAIN order : \A s \in order[i].spells : order[i].moment = "onset" =>
            s[2] \in Nat /\ \A r \in Nat : s[2] >= r => Legible(left, s[1], r)
  BY <1>0, SayingIsLegible
<1>3. Accounted(left)
  <2>1. \A i \in DOMAIN order : order[i].moment = "resolved" =>
            \A c \in Affected(order[i]) : outbox.told[c] # Never
    BY <1>0, OwedEndsWereTold
  <2>2. QED
    BY <1>0, <2>1, DeliveredIsLegible
<1> HIDE DEF left, recurrence
<1>4. ASSUME Foremost(copy, early), Abreast(outbox, early),
             NEW c \in Check \ Watched, left.told[c] \in 0 .. FLAPPING - 1
      PROVE  Legible(left, c, left.told[c]) \/ Past(early[c], left.told[c])
  <2> DEFINE r == copy[c].recurrences
  <2>0. /\ r \in Nat /\ early[c] = copy[c] /\ FLAPPING \in Nat /\ Fresh(copy[c])
        /\ copy[c].standing \in {"unknown", "raised", "cleared"}
    BY <1>4 DEF Condition, Foremost
  <2>1. CASE ~ \E i \in DOMAIN order : c \in Affected(order[i])
    <3>1. left.told[c] = outbox.told[c]
      BY <1>1, <2>1
    <3>2. QED
      BY <1>2, <1>4, <3>1 DEF Abreast
  <2>2. CASE \E i \in DOMAIN order : c \in Affected(order[i])
    <3>1. left.told[c] = r /\ r < FLAPPING
      BY <1>1, <1>4, <2>0, <2>2
    <3>2. CASE copy[c].standing = "cleared"
      BY <2>0, <3>1, <3>2 DEF Past
    <3>3. CASE copy[c].standing = "unknown"
      <4>1. r = 0
        BY <2>0, <3>3 DEF Fresh
      <4>2. Legible(left, c, 0)
        BY <1>3, <3>1, <4>1 DEF Accounted, Never
      <4>3. QED
        BY <3>1, <4>1, <4>2
    <3>4. CASE copy[c].standing = "raised" /\ outbox.told[c] # r
      <4>1. Started(copy[c], outbox.told[c])
        BY <3>1, <3>4 DEF Started, Known
      <4>2. PICK a \in Digest(copy) : a.moment = "onset" /\ <<c, r>> \in a.spells
        BY <4>1, StartedIsSaid
      <4>3. PICK i \in DOMAIN order : order[i] = a
        BY <1>0, <4>2 DEF Owe
      <4> DEFINE s == <<c, r>>
      <4>4. s \in order[i].spells /\ s[1] = c /\ s[2] = r /\ order[i].moment = "onset"
        BY <4>2, <4>3
      <4> HIDE DEF s, r
      <4>5. s[2] \in Nat /\ \A q \in Nat : s[2] >= q => Legible(left, s[1], q)
        BY <1>2, <4>4
      <4>6. Legible(left, c, r)
        BY <4>4, <4>5, <2>0
      <4>7. QED
        BY <3>1, <4>6
    <3>5. CASE outbox.told[c] = r
      <4>1. Legible(outbox, c, r) \/ Past(early[c], r)
        BY <1>4, <2>0, <3>1, <3>5 DEF Abreast
      <4>2. QED
        BY <1>2, <3>1, <4>1
    <3>6. QED
      BY <2>0, <3>2, <3>3, <3>4, <3>5
  <2>3. QED
    BY <2>1, <2>2
<1>5. Foremost(copy, early) /\ Abreast(outbox, early) => Abreast(left, early)
  BY <1>4 DEF Abreast
<1>6. QED
  BY <1>3, <1>5 DEF left, recurrence

\* What a delivery says to have started is beyond what was told of, where no key was told of.
LEMMA SayingIsBeyond ==
    ASSUME TypeOK, NEW copy \in [Check -> Condition], NEW early, Foremost(copy, early),
           Ascending(outbox, early),
           NEW a \in Owe(Digest(copy)), NEW s \in a.spells, a.moment = "onset", s[1] \notin Watched
    PROVE  /\ s[1] \in Check \ Watched /\ s[2] \in Nat
           /\ outbox.told[s[1]] < s[2] /\ s[2] <= copy[s[1]].recurrences
<1>1. a \in Alert
  BY DigestTyped
<1>2. s \in Check \X Nat
  BY <1>1 DEF Alert
<1>3. s[1] \in Check \ Watched /\ s[2] \in Nat
  BY <1>2
<1>4. early[s[1]] = copy[s[1]]
  BY <1>3 DEF Foremost
<1>5. CASE a \in Digest(copy)
  <2>1. s[2] = copy[s[1]].recurrences /\ Started(copy[s[1]], outbox.told[s[1]])
    BY <1>5, DigestSays
  <2>2. QED
    BY <1>3, <1>4, <2>1, StartedIsBeyond
<1>6. CASE a \in outbox.owed
  BY <1>3, <1>4, <1>6 DEF Ascending
<1>7. QED
  BY <1>5, <1>6 DEF Owe

LEMMA DeliveringAscends ==
    ASSUME TypeOK, NEW copy \in [Check -> Condition], NEW early, Foremost(copy, early),
           Ascending(outbox, early), NEW order \in Orders(Owe(Digest(copy)))
    PROVE  Ascending(Delivered(order, [c \in Check |-> copy[c].recurrences]), early)
<1> USE ConditionsAssumption
<1> DEFINE recurrence == [c \in Check |-> copy[c].recurrences]
           left == Delivered(order, recurrence)
<1>0. order \in Seq(Alert) /\ \A i \in DOMAIN order : order[i] \in Owe(Digest(copy))
  BY DigestTyped, OrdersTyped
<1>1. /\ \A c \in Check : left.told[c] = IF \E i \in DOMAIN order : c \in Affected(order[i])
                                         THEN copy[c].recurrences ELSE outbox.told[c]
      /\ left.owed = {} /\ left.said = Recent(outbox.said \o order)
  BY DeliveredIs
<1>2. \A i \in DOMAIN left.said :
        \/ \E j \in DOMAIN outbox.said : left.said[i] = outbox.said[j]
        \/ \E j \in DOMAIN order : left.said[i] = order[j]
  <2>1. outbox.said \in Seq(Alert)
    BY DEF TypeOK, Outbox
  <2> DEFINE kept == Recent(outbox.said \o order)
  <2>2. \A i \in DOMAIN kept :
            \/ \E j \in DOMAIN outbox.said : kept[i] = outbox.said[j]
            \/ \E j \in DOMAIN order : kept[i] = order[j]
    BY <1>0, <2>1, RecentKeeps
  <2>3. left.said = kept
    BY <1>1
  <2> HIDE DEF left, kept
  <2>4. QED
    BY <2>2, <2>3
<1> HIDE DEF left, recurrence
<1>3. ASSUME NEW c \in Check \ Watched
      PROVE  /\ left.told[c] \in Int /\ outbox.told[c] \in Int
             /\ outbox.told[c] <= left.told[c] /\ left.told[c] <= early[c].recurrences
  <2>1. early[c] = copy[c]
    BY DEF Foremost
  <2>2. /\ outbox.told[c] \in Int /\ copy[c].recurrences \in Nat
        /\ outbox.told[c] <= copy[c].recurrences
    BY <2>1, StartedIsBeyond
  <2>3. QED
    BY <1>1, <2>1, <2>2
<1>4. ASSUME NEW i \in DOMAIN left.said, left.said[i].moment = "onset",
             NEW s \in left.said[i].spells, s[1] \notin Watched
      PROVE  s[2] <= left.told[s[1]]
  <2>1. CASE \E j \in DOMAIN outbox.said : left.said[i] = outbox.said[j]
    <3>1. PICK j \in DOMAIN outbox.said : left.said[i] = outbox.said[j]
      BY <2>1
    <3>2. outbox.said[j] \in Alert
      BY DEF TypeOK, Outbox
    <3>3. s \in Check \X Nat
      BY <3>1, <3>2 DEF Alert
    <3>4. s[1] \in Check \ Watched /\ s[2] \in Nat
      BY <1>4, <3>3
    <3>5. s[2] <= outbox.told[s[1]]
      BY <1>4, <3>1 DEF Ascending
    <3>6. QED
      BY <1>3, <3>4, <3>5
  <2>2. CASE \E j \in DOMAIN order : left.said[i] = order[j]
    <3>1. PICK j \in DOMAIN order : left.said[i] = order[j]
      BY <2>2
    <3>2. s[1] \in Check \ Watched /\ s[2] \in Nat /\ s[2] <= copy[s[1]].recurrences
      BY <1>0, <1>4, <3>1, SayingIsBeyond
    <3>3. s[1] \in Affected(order[j])
      BY <3>1 DEF Affected
    <3>4. left.told[s[1]] = copy[s[1]].recurrences
      BY <1>1, <3>2, <3>3
    <3>5. QED
      BY <3>2, <3>4
  <2>3. QED
    BY <1>2, <2>1, <2>2
<1>5. Ascending(left, early)
  BY <1>1, <1>3, <1>4 DEF Ascending
<1>6. QED
  BY <1>5 DEF left, recurrence

\* So whatever a telling leaves is accounted for.
LEMMA NotifiedIsAccounted ==
    ASSUME TypeOK, NEW copy \in [Check -> Condition], NEW early, Accounted(outbox),
           NEW left \in Notified(copy)
    PROVE  /\ Accounted(left)
           /\ Foremost(copy, early) /\ Abreast(outbox, early) => Abreast(left, early)
           /\ Foremost(copy, early) /\ Ascending(outbox, early) => Ascending(left, early)
<1>1. CASE left = outbox
  BY <1>1
<1>2. CASE left = [outbox EXCEPT !.owed = Owe(Digest(copy))]
  BY <1>2, HoldingIsAccounted
<1>3. ASSUME Digest(copy) # {}, NEW order \in Orders(Owe(Digest(copy))),
             left = Delivered(order, [c \in Check |-> copy[c].recurrences])
      PROVE  /\ Accounted(left)
             /\ Foremost(copy, early) /\ Abreast(outbox, early) => Abreast(left, early)
             /\ Foremost(copy, early) /\ Ascending(outbox, early) => Ascending(left, early)
  BY <1>3, DeliveringIsAccounted, DeliveringAscends
<1>4. QED
  BY <1>1, <1>2, <1>3, NotifiedIs

\* What a key's alert takes along leaves the outbox accounted for.
LEMMA HeardIsAccounted ==
    ASSUME TypeOK, Accounted(outbox), NEW owed \in Orders(outbox.owed), NEW early
    PROVE  LET left == Delivered(Append(owed, KeyAlert), [c \in Check |-> 0])
           IN  Accounted(left) /\ (Abreast(outbox, early) => Abreast(left, early))
<1> USE ConditionsAssumption
<1> DEFINE order == Append(owed, KeyAlert)
           recurrence == [c \in Check |-> 0]
           left == Delivered(order, recurrence)
<1>0. /\ owed \in Seq(Alert) /\ order \in Seq(Alert)
      /\ \A i \in DOMAIN owed : owed[i] \in outbox.owed
  <2>1. outbox.owed \in SUBSET Alert /\ IsFiniteSet(outbox.owed)
    BY DEF TypeOK, Outbox
  <2>2. QED
    BY <2>1, HeardTyped, OrdersTyped
<1>1. \A i \in DOMAIN order : order[i] \in outbox.owed \/ order[i] = KeyAlert
  <2>1. /\ Len(owed) \in Nat /\ DOMAIN owed = 1 .. Len(owed) /\ DOMAIN order = 1 .. Len(owed) + 1
        /\ \A i \in 1 .. Len(owed) : order[i] = owed[i]
        /\ order[Len(owed) + 1] = KeyAlert
    BY <1>0, AppendProperties, LenProperties
  <2> HIDE DEF order
  <2>2. \A i \in 1 .. Len(owed) + 1 : i \in 1 .. Len(owed) \/ i = Len(owed) + 1
    BY <2>1
  <2>3. QED
    BY <1>0, <2>1, <2>2
<1>2. Affected(KeyAlert) = {} /\ KeyAlert.moment = "onset"
  BY DEF Affected, KeyAlert
<1>3. \A c \in Check : left.told[c] = IF \E i \in DOMAIN order : c \in Affected(order[i])
                                      THEN 0 ELSE outbox.told[c]
  BY DeliveredIs
<1>4. \A c, r : Legible(outbox, c, r) => Legible(left, c, r)
  BY <1>0, SayingIsLegible
<1> HIDE DEF order, recurrence
<1>5. Accounted(left)
  <2>1. \A i \in DOMAIN order : order[i].moment = "resolved" =>
            \A c \in Affected(order[i]) : outbox.told[c] # Never
    BY <1>1, <1>2 DEF Accounted
  <2>2. QED
    BY <1>0, <2>1, DeliveredIsLegible
<1> HIDE DEF left
<1>6. ASSUME Abreast(outbox, early), NEW c \in Check \ Watched, left.told[c] \in 0 .. FLAPPING - 1
      PROVE  Legible(left, c, left.told[c]) \/ Past(early[c], left.told[c])
  <2>1. CASE \E i \in DOMAIN order : c \in Affected(order[i])
    <3>1. left.told[c] = 0
      BY <1>3, <2>1
    <3>2. QED
      BY <1>5, <3>1 DEF Accounted, Never
  <2>2. CASE ~ \E i \in DOMAIN order : c \in Affected(order[i])
    <3>1. left.told[c] = outbox.told[c]
      BY <1>3, <2>2
    <3>2. QED
      BY <1>4, <1>6, <3>1 DEF Abreast
  <2>3. QED
    BY <2>1, <2>2
<1>7. Abreast(outbox, early) => Abreast(left, early)
  BY <1>6 DEF Abreast
<1>8. QED
  BY <1>5, <1>7 DEF left, order, recurrence

---------------------------------------------------------------------------
\* The copy a gather tells of, where no two overlapped, has of what only diagnoses observe
\* the earliest there is.
LEMMA TellerIsForemost ==
    ASSUME TypeOK, Lineage, overlapped = {}
    PROVE  /\ refresh.at \in {"changed", "same"} => Foremost(refresh.copy, Earliest)
           /\ refresh.at \in {"idle", "looked"} =>
                \A seen : Foremost(Looked(Established(seen), seen), Earliest)
<1> USE ConditionsAssumption
<1>0. \A c \in Check : InLine(c)
  BY DEF Lineage, Alone
<1>1. ASSUME refresh.at \in {"changed", "same"}, NEW c \in Check \ Watched
      PROVE  Earliest[c] = refresh.copy[c] /\ Fresh(refresh.copy[c])
  <2>1. RefreshHolds /\ OfRefresh(c) = refresh.copy[c]
    BY <1>1 DEF RefreshHolds, OfRefresh
  <2>2. Before(OfRefresh(c), store[c])
    BY <1>0, <2>1 DEF InLine
  <2>3. QED
    BY <2>1, <2>2 DEF Earliest, Before
<1>2. ASSUME refresh.at \in {"idle", "looked"}, NEW seen, NEW c \in Check \ Watched
      PROVE  /\ Earliest[c] = Looked(Established(seen), seen)[c]
             /\ Fresh(Looked(Established(seen), seen)[c])
  <2>1. Looked(Established(seen), seen)[c] = store[c]
    BY DEF Looked, Established
  <2>2. Earliest[c] = store[c]
    BY <1>2 DEF Earliest, RefreshHolds
  <2>3. Fresh(store[c])
    BY <1>0 DEF InLine
  <2>4. QED
    BY <2>1, <2>2, <2>3
<1>3. QED
  BY <1>1, <1>2 DEF Foremost

\* Each step leaves, against what there was, outboxes that are accounted for.
LEMMA BoxesAreAccounted ==
    ASSUME TypeOK, Lineage, Telling, [Next]_vars
    PROVE  /\ \A box \in Boxes' :
                /\ Accounted(box)
                /\ overlapped' = {} => Abreast(box, Earliest)
                /\ used' = "no" /\ overlapped' = {} => Ascending(box, Earliest)
           /\ used' = "no" => use' = NoUse
<1> DEFINE Carried(box) ==
                /\ Accounted(box)
                /\ overlapped' = {} => Abreast(box, Earliest)
                /\ used' = "no" /\ overlapped' = {} => Ascending(box, Earliest)
<1>1. overlapped' = {} => overlapped = {}
  BY ApartIsKept DEF Lineage
<1>2. ASSUME used' = used \/ used' # "no", NEW box \in {outbox, refresh.outbox, use.outbox, other.outbox, NoOutbox}
      PROVE  Carried(box)
  BY <1>1, <1>2, EarliestTyped, NothingIsAccounted DEF Telling, Boxes
<1>3. Boxes' = {outbox', refresh'.outbox, use'.outbox, other'.outbox}
  BY DEF Boxes
<1>4. ASSUME NEW copy \in [Check -> Condition], NEW left \in Notified(copy), used' = used,
             overlapped' = {} => Foremost(copy, Earliest)
      PROVE  Carried(left)
  <2>1. Carried(outbox)
    BY <1>2, <1>4
  <2>2. QED
    BY <1>4, <2>1, NotifiedIsAccounted
<1> HIDE DEF Carried
<1>5. SUFFICES /\ Carried(outbox') /\ Carried(refresh'.outbox) /\ Carried(use'.outbox)
               /\ Carried(other'.outbox)
               /\ used' = "no" => use' = NoUse
  BY <1>3 DEF Carried
<1>6. CASE RefreshTell
  <2>1. PICK left \in Notified(refresh.copy) : Told(left)
    BY <1>6 DEF RefreshTell
  <2>2. /\ outbox' = outbox /\ use' = use /\ used' = used /\ other' = other
        /\ refresh.at \in {"changed", "same"}
    BY <2>1 DEF Told, beside
  <2>3. refresh'.outbox \in {NoOutbox, left}
    <3>1. CASE refresh' = RefreshOver
      BY <3>1 DEF RefreshOver, NoRefresh
    <3>2. CASE refresh' # RefreshOver
      BY <2>1, <3>2 DEF Told, TypeOK, Refresh
    <3>3. QED
      BY <3>1, <3>2
  <2>4. Carried(left)
    <3>1. refresh.copy \in [Check -> Condition]
      BY DEF TypeOK, Refresh
    <3>2. overlapped' = {} => Foremost(refresh.copy, Earliest)
      BY <1>1, <2>2, TellerIsForemost
    <3>3. QED
      BY <1>4, <2>1, <2>2, <3>1, <3>2
  <2>5. QED
    BY <1>2, <2>2, <2>3, <2>4 DEF Telling
<1>7. CASE OtherGather
  <2>1. PICK seen \in Looks(Watched, world) :
          LET copy == Looked(Established(seen), seen)
          IN  \E left \in Notified(copy) :
                /\ copy # store \/ left # outbox
                /\ other' = [at |-> IF copy = store THEN "saved" ELSE "gathered", copy |-> copy,
                             touched |-> Established(seen), outbox |-> left,
                             keeps |-> IF left = outbox THEN "no" ELSE "yes"]
    BY <1>7 DEF OtherGather
  <2> DEFINE copy == Looked(Established(seen), seen)
  <2>2. copy \in [Check -> Condition]
    <3>1. seen \in [Watched -> Look]
      BY DEF Looks
    <3>2. Established(seen) \in SUBSET Check /\ \A c \in Established(seen) : seen[c] \in Look
      BY <3>1, ConditionsAssumption DEF Established
    <3>3. QED
      BY <3>2, LookedTyped
  <2>3. overlapped' = {} => Foremost(copy, Earliest)
    <3>1. ASSUME overlapped' = {} PROVE refresh.at \in {"idle", "looked"}
      BY <1>7, <3>1 DEF OtherGather, Meet
    <3>2. QED
      BY <1>1, <3>1, TellerIsForemost
  <2> HIDE DEF copy
  <2>4. PICK left \in Notified(copy) :
            other' = [at |-> IF copy = store THEN "saved" ELSE "gathered", copy |-> copy,
                      touched |-> Established(seen), outbox |-> left,
                      keeps |-> IF left = outbox THEN "no" ELSE "yes"]
    BY <2>1 DEF copy
  <2>5. other'.outbox = left
    BY <2>4
  <2>6. outbox' = outbox /\ refresh' = refresh /\ use' = use /\ used' = used
    BY <1>7 DEF OtherGather
  <2>7. Carried(left)
    BY <1>4, <2>2, <2>3, <2>4, <2>6
  <2>8. QED
    BY <1>2, <2>5, <2>6, <2>7 DEF Telling
<1>8. CASE RefreshKeep
  <2>1. /\ outbox' \in {outbox, refresh.outbox} /\ use' = use /\ used' = used /\ other' = other
        /\ refresh'.outbox = NoOutbox
    BY <1>8 DEF RefreshKeep, WriteOutbox, RefreshOver, NoRefresh, beside
  <2>2. QED
    BY <1>2, <2>1 DEF Telling
<1>9. CASE RefreshWrite
  <2>1. /\ outbox' = outbox /\ use' = use /\ used' = used /\ other' = other
        /\ refresh'.outbox \in {NoOutbox, refresh.outbox}
    BY <1>9 DEF RefreshWrite, RefreshOver, NoRefresh, beside, TypeOK, Refresh
  <2>2. QED
    BY <1>2, <2>1 DEF Telling
<1>10. CASE RefreshLook \/ RefreshObserve \/ RefreshRead
  <2>1. /\ outbox' = outbox /\ use' = use /\ used' = used /\ other' = other
        /\ refresh'.outbox = refresh.outbox
    BY <1>10 DEF RefreshLook, RefreshObserve, RefreshRead, beside, TypeOK, Refresh
  <2>2. QED
    BY <1>2, <2>1 DEF Telling
<1>11. CASE Heard
  <2>1. PICK order \in Orders(outbox.owed) :
            use' = [at |-> "heard",
                    outbox |-> Delivered(Append(order, KeyAlert), [c \in Check |-> 0])]
    BY <1>11 DEF Heard
  <2> DEFINE left == Delivered(Append(order, KeyAlert), [c \in Check |-> 0])
  <2>2. /\ outbox' = outbox /\ refresh' = refresh /\ used' = "yes" /\ other' = other
    BY <1>11 DEF Heard
  <2>3. use'.outbox = left
    BY <2>1
  <2>4. Accounted(outbox) /\ (overlapped' = {} => Abreast(outbox, Earliest))
    BY <1>1 DEF Telling, Boxes
  <2>5. Accounted(left) /\ (overlapped' = {} => Abreast(left, Earliest))
    BY <2>4, HeardIsAccounted
  <2> HIDE DEF left
  <2>6. Carried(left)
    BY <2>2, <2>5 DEF Carried
  <2>7. QED
    BY <1>2, <2>2, <2>3, <2>6
<1>12. CASE HeardKeep
  <2>1. /\ outbox' \in {outbox, use.outbox} /\ refresh' = refresh /\ used' = used /\ other' = other
        /\ use' = NoUse /\ use'.outbox = NoOutbox
    BY <1>12 DEF HeardKeep, WriteOutbox, NoUse
  <2>2. QED
    BY <1>2, <2>1
<1>13. CASE OtherDiagnose \/ OtherSave \/ OtherKeep
  <2>1. /\ outbox' \in {outbox, other.outbox} /\ refresh' = refresh /\ use' = use /\ used' = used
        /\ other'.outbox \in {NoOutbox, other.outbox}
    <3>1. NoOther.outbox = NoOutbox
      BY DEF NoOther
    <3>2. NoOther \in Other
      BY NothingTyped
    <3>3. CASE OtherDiagnose
      BY <3>1, <3>2, <3>3 DEF OtherDiagnose, Other
    <3>4. CASE OtherSave
      BY <3>1, <3>2, <3>4 DEF OtherSave, Other
    <3>5. CASE OtherKeep
      BY <3>1, <3>5 DEF OtherKeep, WriteOutbox
    <3>6. QED
      BY <1>13, <3>3, <3>4, <3>5
  <2>2. QED
    BY <1>2, <2>1 DEF Telling
<1>14. ASSUME UNCHANGED <<outbox, refresh, use, used, other>>
       PROVE  /\ Carried(outbox') /\ Carried(refresh'.outbox) /\ Carried(use'.outbox)
              /\ Carried(other'.outbox)
              /\ used' = "no" => use' = NoUse
  BY <1>2, <1>14 DEF Telling
<1>15. CASE ErrandLook \/ Remembered \/ ErrandRead \/ ErrandWrite \/ ErrandOver
  BY <1>14, <1>15 DEF ErrandLook, Remembered, ErrandRead, ErrandWrite, ErrandOver, beside
<1>16. ASSUME NEW c \in Check, Mending(c) PROVE UNCHANGED <<outbox, refresh, use, used, other>>
  BY <1>16 DEF Mending, Decline, Fixed, FixFailed, Stopped, Answered
<1>17. CASE Tick \/ (\E c \in Check : Turn(c)) \/ Want \/ Hours \/ UNCHANGED vars
  BY <1>14, <1>17 DEF Tick, Turn, Want, Hours, vars, beside
<1>18. QED
  BY <1>6, <1>7, <1>8, <1>9, <1>10, <1>11, <1>12, <1>13, <1>14, <1>15, <1>16, <1>17
  DEF Next, Refreshing

LEMMA TellingIsKept ==
    ASSUME TypeOK, Lineage, Telling, [Next]_vars
    PROVE  Telling'
<1>1. TypeOK'
  BY NextTyped
<1>2. Earliest \in [Check \ Watched -> Condition] /\ Earliest' \in [Check \ Watched -> Condition]
  <2>1. Earliest' \in [Check \ Watched -> Condition]
    <3>1. \A c \in Check : store'[c] \in Condition /\ OfRefresh(c)' \in Condition
      BY <1>1 DEF TypeOK, Refresh, OfRefresh
    <3>2. QED
      BY <3>1 DEF Earliest
  <2>2. QED
    BY <2>1, EarliestTyped
<1>3. ASSUME overlapped' = {}, NEW box \in Outbox
      PROVE  /\ Abreast(box, Earliest) => Abreast(box, Earliest')
             /\ Ascending(box, Earliest) => Ascending(box, Earliest')
  <2>1. \A c \in Check \ Watched : Before(Earliest[c], Earliest'[c])
    BY <1>3, EarliestMovesOn
  <2>2. QED
    BY <1>2, <2>1, AccountStays
<1>4. Boxes' \subseteq Outbox
  BY <1>1 DEF Boxes, TypeOK, Refresh, Other
<1>5. /\ \A box \in Boxes' :
            /\ Accounted(box)
            /\ overlapped' = {} => Abreast(box, Earliest')
            /\ used' = "no" /\ overlapped' = {} => Ascending(box, Earliest')
      /\ used' = "no" => use' = NoUse
  BY <1>3, <1>4, BoxesAreAccounted
<1>6. QED
  BY <1>5 DEF Telling

LEMMA InitTelling == Init => Telling
<1>1. ASSUME Init PROVE Telling
  <2>1. TypeOK
    BY <1>1, InitTyped
  <2>2. Boxes = {NoOutbox} /\ use = NoUse
    BY <1>1 DEF Init, NoRefresh, NoUse, NoOther, Boxes
  <2>3. QED
    BY <2>1, <2>2, EarliestTyped, NothingIsAccounted DEF Telling
<1>2. QED
  BY <1>1

\* What each copy of the outbox has down as told can be read in it, while its history is
\* not full; and where no two overlapped, of what only diagnoses observe a told spell can
\* be read in it or is over for good, and with no key told of, what it has down and owes
\* ascends.
THEOREM TellingIsAccounted == Spec => [](TypeOK /\ Lineage /\ Telling)
<1>1. Init => TypeOK /\ Lineage /\ Telling
  BY InitTyped, InitLineage, InitTelling
<1>2. TypeOK /\ Lineage /\ Telling /\ [Next]_vars => (TypeOK /\ Lineage /\ Telling)'
  BY NextTyped, LineageIsKept, TellingIsKept
<1>3. QED
  BY <1>1, <1>2, PTL DEF Spec

\* Until the history has filled, what counts as told is a fault the operator can read of,
\* whatever copy of the store or of the outbox is written over another; and unless two
\* surfaces or two diagnoses overlapped, of what only diagnoses observe a standing spell
\* that counts as told can be read of, or a later one (Outbox::owe, Outbox::delivered,
\* Conditions::over).
THEOREM ToldCanBeRead == Spec => []ToldIsSaid
<1>1. TypeOK /\ Lineage /\ Telling => ToldIsSaid
  <2>1. SUFFICES ASSUME TypeOK, Lineage, Telling PROVE ToldIsSaid
    OBVIOUS
  <2>2. Accounted(outbox) /\ (overlapped = {} => Abreast(outbox, Earliest))
    BY <2>1 DEF Telling, Boxes
  <2>3. ASSUME overlapped = {}, NEW c \in Check \ Watched, store[c].standing = "raised",
               outbox.told[c] = store[c].recurrences, store[c].recurrences < FLAPPING
        PROVE  Legible(outbox, c, store[c].recurrences)
    <3>1. /\ store[c] \in Condition /\ OfRefresh(c) \in Condition
          /\ store[c].recurrences \in Nat /\ FLAPPING \in Nat
      BY <2>1, HoldingsTyped, ConditionsAssumption DEF Condition
    <3>2. Legible(outbox, c, store[c].recurrences) \/ Past(Earliest[c], store[c].recurrences)
      BY <2>2, <2>3, <3>1 DEF Abreast
    <3>3. InLine(c)
      BY <2>1, <2>3 DEF Lineage, Alone
    <3>4. Before(Earliest[c], store[c]) /\ Earliest[c] \in Condition
      <4>1. CASE RefreshHolds
        BY <3>1, <3>3, <4>1 DEF Earliest, InLine
      <4>2. CASE ~RefreshHolds
        BY <3>1, <3>3, <4>2, BeforeItself DEF Earliest, InLine
      <4>3. QED
        BY <4>1, <4>2
    <3>5. ~Past(store[c], store[c].recurrences)
      BY <2>3, <3>1 DEF Past
    <3>6. QED
      BY <3>1, <3>2, <3>4, <3>5, PastStaysPast
  <2>4. QED
    BY <2>2, <2>3 DEF ToldIsSaid, Accounted
<1>2. QED
  BY <1>1, TellingIsAccounted, PTL

\* A spell of what only diagnoses observe, once the history has it down as said, is not
\* said to have started again, however their writing falls against the refresh that tells
\* of it, as long as no key's alert was told beside it and neither two surfaces nor two
\* diagnoses overlapped (Alert::of, Outbox::delivered, Conditions::over).
THEOREM DiagnosedOnce == Spec => DiagnosedIsToldOnce
<1> DEFINE Once ==
        used = "no" /\ overlapped = {} /\ Deliver =>
            \A a \in Owe(Digest(refresh.copy)) : a.moment = "onset" =>
                \A s \in a.spells : s[1] \notin Watched => ~Says(outbox, "onset", s)
<1>1. TypeOK /\ Lineage /\ Telling => Once
  <2>1. SUFFICES ASSUME TypeOK, Lineage, Telling, used = "no", overlapped = {}, Deliver,
                        NEW a \in Owe(Digest(refresh.copy)), a.moment = "onset",
                        NEW s \in a.spells, s[1] \notin Watched, Says(outbox, "onset", s)
                 PROVE  FALSE
    OBVIOUS
  <2>2. refresh.at \in {"changed", "same"} /\ refresh.copy \in [Check -> Condition]
    BY <2>1 DEF Deliver, RefreshTell, Told, TypeOK, Refresh
  <2>3. Foremost(refresh.copy, Earliest)
    BY <2>1, <2>2, TellerIsForemost
  <2>4. Ascending(outbox, Earliest)
    BY <2>1 DEF Telling, Boxes
  <2>5. s[1] \in Check \ Watched /\ s[2] \in Nat /\ outbox.told[s[1]] < s[2]
    BY <2>1, <2>2, <2>3, <2>4, SayingIsBeyond
  <2>6. s[2] <= outbox.told[s[1]]
    BY <2>1, <2>4 DEF Says, Ascending
  <2>7. outbox.told[s[1]] \in Int
    BY <2>1, <2>5 DEF TypeOK, Outbox, Never
  <2>8. QED
    BY <2>5, <2>6, <2>7
<1>2. QED
  BY <1>1, TellingIsAccounted, PTL DEF Spec, DiagnosedIsToldOnce
=============================================================================
