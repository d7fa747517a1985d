---------------------------- MODULE Conditions ----------------------------
(***************************************************************************)
(* What is wrong, remembered between runs, and what of it the operator is  *)
(* told (lemonfiber-core/src/condition.rs, condition/store.rs,             *)
(* app/conditions.rs, alert/, notify/run.rs).                              *)
(*                                                                         *)
(* Two processes hold a copy of the store at once: the refresh of the      *)
(* dashboard, which observes the services, the tunnel and the queue and    *)
(* then tells the operator, and an errand, a diagnosis or a repair, which  *)
(* observes the checks of the doctor and writes down what became of a fix. *)
(* Each saves by reading the store again, laying what it touched over it   *)
(* and writing the result: no lock joins the reading to the writing.       *)
(*                                                                         *)
(* Another of either sort may come beside them: the terminal and the       *)
(* stream of the API each gather the dashboard (events/dashboard.rs), and  *)
(* a diagnosis may be run while one runs.  It is one process, other, in    *)
(* fewer steps: it looks, loads and tells in one, and saves each file in   *)
(* one, as the two above show what comes of a save in two.                 *)
(*                                                                         *)
(* The outbox is read whole and written whole by whoever gathers, and by   *)
(* what tells the operator what became of a key (keys/run/heard.rs,        *)
(* device_keys/run/heard.rs), which delivers whatever else is owed.  All   *)
(* checks are of one kind, so a digest has one alert for each way they     *)
(* went.  The channel delivered to is the screen, which refuses nothing.   *)
(***************************************************************************)
EXTENDS Integers, Sequences, FiniteSets

CONSTANTS
    Check,     \* what is looked at; a condition is kept for each
    Watched,   \* the checks a refresh observes; an errand observes the others
    Unproven,  \* the checks that are wrong where they cannot be read: the tunnel
    Critical,  \* the checks whose faults are told at any hour
    FLAPPING,  \* recurrences from which the flapping is the fault
    ATTEMPTS,  \* failed repairs after which none is offered
    KEPT,      \* delivered alerts kept to be read back
    STAMPS,    \* bound: the last reading of the clock
    FLUX,      \* bound: changes around, others coming beside, looks and writes that fail
    RARE       \* bound: what a look that fails, or another coming beside, takes of FLUX

ASSUME ConditionsAssumption ==
    /\ Watched \subseteq Check
    /\ Unproven \subseteq Check
    /\ Critical \subseteq Check
    /\ FLAPPING \in Nat \ {0}
    /\ ATTEMPTS \in Nat \ {0}
    /\ KEPT \in Nat \ {0}
    /\ STAMPS \in Nat
    /\ FLUX \in Nat
    /\ RARE \in Nat

VARIABLES
    clock,    \* what a stamp reads
    world,    \* check -> whether it is really wrong
    flux,     \* how often something around changed, or a look or a write failed
    store,    \* the file of conditions
    outbox,   \* the file of what was told, is owed and was said
    wanted,   \* whether the appetite and the reach of the stack let alerts through
    hours,    \* whether these are the hours to be quiet in
    refresh,  \* the refresh and its copies of the store and the outbox
    errand,   \* the errand and its copy of the store
    use,      \* the telling of a key and its copy of the outbox
    used,     \* whether a key was ever told of
    other,    \* another gather or diagnosis and its copies
    overlapped  \* the sorts of which two ever had the store in hand at once

surroundings == <<clock, world, wanted, hours>>
beside == <<use, used, other, overlapped>>
vars == <<clock, world, flux, store, outbox, wanted, hours, refresh, errand, use, used,
          other, overlapped>>

Never == -1

Condition ==
    [standing : {"unknown", "raised", "cleared"}, since : Nat, recurrences : Nat,
     declined : {"no", "yes"}, attempts : Nat]

Unknown ==
    [standing |-> "unknown", since |-> 0, recurrences |-> 0, declined |-> "no", attempts |-> 0]

Nothing == [c \in Check |-> Unknown]

\* What a look at a check comes to; "untold" could not be established.
Look == {"wrong", "fine", "untold"}

Moment == {"onset", "resolved"}

\* One alert: which way, and the spells it speaks for.
Alert == [moment : Moment, spells : SUBSET (Check \X Nat)]

\* The recurrence of each check the operator was last told of, the alerts decided and
\* not delivered, and the last of those delivered, newest last.
Outbox == [told : [Check -> Nat \cup {Never}], owed : {S \in SUBSET Alert : IsFiniteSet(S)},
           said : Seq(Alert)]

NoOutbox == [told |-> [c \in Check |-> Never], owed |-> {}, said |-> <<>>]

\* "changed" and "same" say whether the store is to be saved, "keeps" whether the outbox.
Refresh ==
    [at : {"idle", "looked", "changed", "same", "told", "merged", "saved"},
     seen : [Watched -> Look], copy : [Check -> Condition], merged : [Check -> Condition],
     outbox : Outbox, keeps : {"yes", "no"}]

Errand ==
    [at : {"idle", "looked", "found", "finding", "offering", "answered", "answering"},
     seen : [Check \ Watched -> Look], copy : [Check -> Condition], touched : SUBSET Check,
     merged : [Check -> Condition], offers : SUBSET Check]

NoRefresh ==
    [at |-> "idle", seen |-> [c \in Watched |-> "untold"], copy |-> Nothing, merged |-> Nothing,
     outbox |-> NoOutbox, keeps |-> "no"]

NoErrand ==
    [at |-> "idle", seen |-> [c \in Check \ Watched |-> "untold"], copy |-> Nothing,
     touched |-> {}, merged |-> Nothing, offers |-> {}]

\* "gathered" and "diagnosed" have the store to save, "saved" the outbox only.
Other ==
    [at : {"none", "gathered", "saved", "diagnosed"}, copy : [Check -> Condition],
     touched : SUBSET Check, outbox : Outbox, keeps : {"yes", "no"}]

NoOther ==
    [at |-> "none", copy |-> Nothing, touched |-> {}, outbox |-> NoOutbox, keeps |-> "no"]

TypeOK ==
    /\ clock \in Nat /\ flux \in Nat
    /\ world \in [Check -> {"wrong", "fine"}]
    /\ store \in [Check -> Condition]
    /\ outbox \in Outbox
    /\ wanted \in {"yes", "no"} /\ hours \in {"open", "quiet"}
    /\ refresh \in Refresh
    /\ errand \in Errand
    /\ use \in [at : {"idle", "heard"}, outbox : Outbox] /\ used \in {"no", "yes"}
    /\ other \in Other /\ overlapped \in SUBSET {"gather", "diagnosis"}

NoUse == [at |-> "idle", outbox |-> NoOutbox]

Init ==
    /\ clock = 0 /\ flux = 0
    /\ world = [c \in Check |-> "fine"]
    /\ store = Nothing
    /\ outbox = NoOutbox
    /\ wanted = "yes" /\ hours = "open"
    /\ refresh = NoRefresh
    /\ errand = NoErrand
    /\ use = NoUse /\ used = "no"
    /\ other = NoOther /\ overlapped = {}

---------------------------------------------------------------------------
\* Mutant: a fault that is still standing starts again from now.
RaiseAgain(k, now) ==
    [standing |-> "raised", since |-> now, declined |-> "no", attempts |-> 0,
     recurrences |-> IF k.standing = "cleared" THEN k.recurrences + 1 ELSE k.recurrences]

\* Condition::raised and Condition::raise.
Raise(k, now) ==
    CASE k.standing = "unknown" -> [Unknown EXCEPT !.standing = "raised", !.since = now]
      [] k.standing = "raised" -> k
      [] k.standing = "cleared" ->
            [standing |-> "raised", since |-> now, recurrences |-> k.recurrences + 1,
             declined |-> "no", attempts |-> 0]

\* Condition::clear.
Clear(k) == IF k.standing = "raised" THEN [k EXCEPT !.standing = "cleared"] ELSE k

\* Conditions::observe, of one check; wrong() makes no fault of what is untold.
Observed(k, look, now) == IF look = "wrong" THEN Raise(k, now) ELSE Clear(k)

Known(k) == k.standing # "unknown"

\* Conditions::decline.
Declined(k) == IF Known(k) THEN [k EXCEPT !.declined = "yes"] ELSE k

\* Conditions::attempted.
Attempted(k) == IF Known(k) THEN [k EXCEPT !.attempts = @ + 1] ELSE k

\* Conditions::mended.
Mended(k) == IF Known(k) THEN [k EXCEPT !.attempts = 0] ELSE k

\* Mutant: nothing of the copy counts as touched.
OverNothing(copy, touched) == store

\* Conditions::over, over the store as it stands.
Over(copy, touched) == [c \in Check |-> IF c \in touched THEN copy[c] ELSE store[c]]

\* repair::offerable.
Offerable(k) == k.standing = "raised" /\ k.declined = "no" /\ k.attempts < ATTEMPTS

---------------------------------------------------------------------------
Tick ==
    /\ clock < STAMPS
    /\ clock' = clock + 1
    /\ UNCHANGED <<world, flux, store, outbox, wanted, hours, refresh, errand, beside>>

\* A check goes wrong, or comes right.
Turn(c) ==
    /\ flux < FLUX
    /\ flux' = flux + 1
    /\ world' = [world EXCEPT ![c] = IF @ = "wrong" THEN "fine" ELSE "wrong"]
    /\ UNCHANGED <<clock, store, outbox, wanted, hours, refresh, errand, beside>>

\* The operator changes what is asked for, stops the stack or starts it.
Want ==
    /\ flux < FLUX
    /\ flux' = flux + 1
    /\ wanted' = IF wanted = "yes" THEN "no" ELSE "yes"
    /\ UNCHANGED <<clock, world, store, outbox, hours, refresh, errand, beside>>

\* The window of Quiet::holds opens or closes.
Hours ==
    /\ flux < FLUX
    /\ flux' = flux + 1
    /\ hours' = IF hours = "open" THEN "quiet" ELSE "open"
    /\ UNCHANGED <<clock, world, store, outbox, wanted, refresh, errand, beside>>

\* health::observed::tunnel: a tunnel that could not be read is a fault rather than nothing.
Unreadable(c) == IF c \in Unproven THEN "wrong" ELSE "untold"

\* What looking at the checks of S may come to: what they are, what could not be
\* established, or what was read before, where a reading is not yet due again.
Looks(S, before) ==
    {seen \in [S -> Look] : \A c \in S : seen[c] \in {world[c], Unreadable(c), before[c]}}

\* A look at how things are costs nothing; any other takes its share of FLUX.
Current(seen, S) ==
    IF \A c \in S : seen[c] = world[c] THEN UNCHANGED flux
    ELSE flux + RARE <= FLUX /\ flux' = flux + RARE

\* The store is loaded, and what was seen of the checks of S is observed.
Looked(S, seen) ==
    [c \in Check |-> IF c \in S THEN Observed(store[c], seen[c], clock) ELSE store[c]]

\* Two of a sort meet where one loads the store while the other has it in hand.
Meet(sort, inHand) == overlapped' = IF inHand THEN overlapped \cup {sort} ELSE overlapped

OtherGathers == other.at \in {"gathered", "saved"}
OtherDiagnoses == other.at = "diagnosed"

\* record::keep: the file is replaced whole, or is left as it was.
Write(merged) ==
    \/ store' = merged /\ UNCHANGED flux
    \/ flux < FLUX /\ flux' = flux + 1 /\ UNCHANGED store

\* outbox::save, of the whole file.
WriteOutbox(left) ==
    \/ outbox' = left /\ UNCHANGED flux
    \/ flux < FLUX /\ flux' = flux + 1 /\ UNCHANGED outbox

---------------------------------------------------------------------------
\* The panels of one refresh are read or carried forward, the store not yet.
RefreshLook ==
    /\ refresh.at = "idle"
    /\ \E seen \in Looks(Watched, refresh.seen) :
        /\ Current(seen, Watched)
        /\ refresh' = [refresh EXCEPT !.at = "looked", !.seen = seen]
    /\ UNCHANGED <<surroundings, store, outbox, errand, beside>>

Established(seen) == {c \in Watched : seen[c] # "untold"}

Seen == Established(refresh.seen)

\* The store is loaded and what was read is observed, what was not is not; it
\* is saved only if that changed it.
RefreshObserve ==
    /\ refresh.at = "looked"
    /\ LET copy == Looked(Seen, refresh.seen)
       IN refresh' = [refresh EXCEPT !.copy = copy, !.at = IF copy = store THEN "same" ELSE "changed"]
    /\ Meet("gather", OtherGathers)
    /\ UNCHANGED <<surroundings, flux, store, outbox, errand, use, used, other>>

\* Mutant: a fault that was ever told of is not told of again.
StartedOnceEver(k, told) == k.standing = "raised" /\ told = Never

\* Mutant: what was told is not looked at.
StartedAnew(k, told) == k.standing = "raised"

\* Alert::of and alert_for: a spell not told of, or a flapping not told of.
Started(k, told) ==
    /\ Known(k)
    /\ IF k.recurrences < FLAPPING
       THEN k.standing = "raised" /\ told # k.recurrences
       ELSE told < FLAPPING

\* Alert::of: over, and told of.
Ended(k, told) ==
    /\ k.standing = "cleared"
    /\ k.recurrences < FLAPPING
    /\ told = k.recurrences

Grouped(moment, S, copy) ==
    IF S = {} THEN {}
    ELSE {[moment |-> moment, spells |-> {<<c, copy[c].recurrences>> : c \in S}]}

\* Digest::wanted: what is worth saying, the same way of one kind as one alert.
Digest(copy) ==
    IF wanted = "no" THEN {}
    ELSE Grouped("onset", {c \in Check : Started(copy[c], outbox.told[c])}, copy)
            \cup Grouped("resolved", {c \in Check : Ended(copy[c], outbox.told[c])}, copy)

Affected(a) == {s[1] : s \in a.spells}

\* Outbox::owe: what is owed of a check is replaced by what is owed of it now.
Owe(alerts) ==
    alerts \cup {a \in outbox.owed : \A d \in alerts : Affected(a) \cap Affected(d) = {}}

\* The orders in which what is owed may go down; which one is left open.
Orders(alerts) ==
    {order \in [1 .. Cardinality(alerts) -> alerts] :
        \A a \in alerts : \E i \in 1 .. Cardinality(alerts) : order[i] = a}

\* The drain of Outbox::delivered: the oldest go first.
Recent(said) ==
    IF Len(said) > KEPT THEN SubSeq(said, Len(said) - KEPT + 1, Len(said)) ELSE said

\* Outbox::delivered: every check the alerts speak for is told of.
Recorded(alerts, recurrence) ==
    [c \in Check |-> IF \E i \in DOMAIN alerts : c \in Affected(alerts[i])
                     THEN recurrence[c] ELSE outbox.told[c]]

\* Mutant: what was held over is recorded, with what is told beside it, and not said.
DeliveredNew(alerts, recurrence) ==
    [told |-> Recorded(alerts, recurrence), owed |-> {},
     said |-> IF outbox.owed = {} THEN Recent(outbox.said \o alerts) ELSE outbox.said]

\* Outbox::delivered: the alerts are said, and every check they speak for is told of as
\* far as the caller answers.
Delivered(alerts, recurrence) ==
    [told |-> Recorded(alerts, recurrence), owed |-> {}, said |-> Recent(outbox.said \o alerts)]

\* Digest::overrides_quiet.
Loud(digest) == \E d \in digest : d.moment = "onset" /\ Affected(d) \cap Critical # {}

\* held: the hour holds it back.
Held(digest) == hours = "quiet" /\ ~Loud(digest)

\* notify, of a copy of the store, and what it leaves of the outbox: there is nothing to
\* say, and what is owed stays owed; it is held; or everything owed is said.
Notified(copy) ==
    CASE Digest(copy) = {} -> {outbox}
      [] Digest(copy) # {} /\ Held(Digest(copy)) -> {[outbox EXCEPT !.owed = Owe(Digest(copy))]}
      [] Digest(copy) # {} /\ ~Held(Digest(copy)) ->
            {Delivered(order, [c \in Check |-> copy[c].recurrences]) :
                order \in Orders(Owe(Digest(copy)))}

\* What the next refresh carries forward is what this one read.
RefreshOver == [NoRefresh EXCEPT !.seen = refresh.seen]

\* told, the outbox loaded: the refresh goes on to save the store and then the outbox,
\* each only where it changed.
Told(left) ==
    /\ refresh.at \in {"changed", "same"}
    /\ LET found == refresh.at = "same"
           kept == left = outbox
       IN  refresh' = IF found /\ kept THEN RefreshOver
                      ELSE [refresh EXCEPT !.at = IF found THEN "saved" ELSE "told",
                                           !.copy = IF found THEN Nothing ELSE @,
                                           !.keeps = IF kept THEN "no" ELSE "yes",
                                           !.outbox = IF kept THEN NoOutbox ELSE left]
    /\ UNCHANGED <<surroundings, flux, store, outbox, errand, beside>>

RefreshTell == \E left \in Notified(refresh.copy) : Told(left)

\* conditions::save, the reading.
RefreshRead ==
    /\ refresh.at = "told"
    /\ refresh' = [refresh EXCEPT !.at = "merged", !.merged = Over(refresh.copy, Seen)]
    /\ UNCHANGED <<surroundings, flux, store, outbox, errand, beside>>

\* conditions::save, the writing.
RefreshWrite ==
    /\ refresh.at = "merged"
    /\ Write(refresh.merged)
    /\ refresh' = IF refresh.keeps = "no" THEN RefreshOver
                  ELSE [refresh EXCEPT !.at = "saved", !.merged = Nothing, !.copy = Nothing]
    /\ UNCHANGED <<surroundings, outbox, errand, beside>>

\* outbox::save.
RefreshKeep ==
    /\ refresh.at = "saved"
    /\ WriteOutbox(refresh.outbox)
    /\ refresh' = RefreshOver
    /\ UNCHANGED <<surroundings, store, errand, beside>>

Refreshing ==
    \/ RefreshLook \/ RefreshObserve \/ RefreshTell
    \/ RefreshRead \/ RefreshWrite \/ RefreshKeep

---------------------------------------------------------------------------
\* What a key's alert is to the checks: it speaks for none of them.
KeyAlert == [moment |-> "onset", spells |-> {}]

\* heard and raised: the outbox is loaded, the key's own alert owed after what is, and
\* all of it delivered with no recurrence.
Heard ==
    /\ use.at = "idle"
    /\ flux < FLUX
    /\ flux' = flux + 1
    /\ used' = "yes"
    /\ \E order \in Orders(outbox.owed) :
        use' = [at |-> "heard",
                outbox |-> Delivered(Append(order, KeyAlert), [c \in Check |-> 0])]
    /\ UNCHANGED <<surroundings, store, outbox, refresh, errand, other, overlapped>>

\* heard and raised, the operator having been told: the outbox is written whole.
HeardKeep ==
    /\ use.at = "heard"
    /\ WriteOutbox(use.outbox)
    /\ use' = NoUse
    /\ UNCHANGED <<surroundings, store, refresh, errand, used, other, overlapped>>

---------------------------------------------------------------------------
\* paced, by another surface: it looks, observes and tells; what that changes it goes on
\* to save.
OtherGather ==
    /\ other.at = "none"
    /\ flux + RARE <= FLUX
    /\ flux' = flux + RARE
    /\ \E seen \in Looks(Watched, world) :
        LET copy == Looked(Established(seen), seen)
        IN  \E left \in Notified(copy) :
                /\ copy # store \/ left # outbox
                /\ other' = [at |-> IF copy = store THEN "saved" ELSE "gathered", copy |-> copy,
                             touched |-> Established(seen), outbox |-> left,
                             keeps |-> IF left = outbox THEN "no" ELSE "yes"]
    /\ Meet("gather", refresh.at \notin {"idle", "looked"})
    /\ UNCHANGED <<surroundings, store, outbox, refresh, errand, use, used>>

\* remembered, by another diagnosis.
OtherDiagnose ==
    /\ other.at = "none"
    /\ flux + RARE <= FLUX
    /\ flux' = flux + RARE
    /\ \E seen \in Looks(Check \ Watched, world) :
        other' = [NoOther EXCEPT !.at = "diagnosed", !.copy = Looked(Check \ Watched, seen),
                                 !.touched = Check \ Watched]
    /\ Meet("diagnosis", errand.at \in {"found", "finding", "answered", "answering"})
    /\ UNCHANGED <<surroundings, store, outbox, refresh, errand, use, used>>

\* conditions::save.
OtherSave ==
    /\ other.at \in {"gathered", "diagnosed"}
    /\ Write(Over(other.copy, other.touched))
    /\ other' = IF other.keeps = "no" THEN NoOther
                ELSE [NoOther EXCEPT !.at = "saved", !.outbox = other.outbox, !.keeps = "yes"]
    /\ UNCHANGED <<surroundings, outbox, refresh, errand, use, used, overlapped>>

\* outbox::save.
OtherKeep ==
    /\ other.at = "saved"
    /\ WriteOutbox(other.outbox)
    /\ other' = NoOther
    /\ UNCHANGED <<surroundings, store, refresh, errand, use, used, overlapped>>

---------------------------------------------------------------------------
\* The checks of an errand are examined.
ErrandLook ==
    /\ errand.at = "idle"
    /\ \E seen \in Looks(Check \ Watched, NoErrand.seen) :
        /\ Current(seen, Check \ Watched)
        /\ errand' = [errand EXCEPT !.at = "looked", !.seen = seen]
    /\ UNCHANGED <<surroundings, store, outbox, refresh, beside>>

\* remembered: the store is loaded, and every finding is observed.
Remembered ==
    /\ errand.at = "looked"
    /\ errand' = [errand EXCEPT
            !.at = "found",
            !.copy = Looked(Check \ Watched, errand.seen),
            !.touched = Check \ Watched]
    /\ Meet("diagnosis", OtherDiagnoses)
    /\ UNCHANGED <<surroundings, flux, store, outbox, refresh, use, used, other>>

\* conditions::save, the reading.
ErrandRead ==
    /\ errand.at \in {"found", "answered"}
    /\ errand' = [errand EXCEPT
            !.at = IF errand.at = "found" THEN "finding" ELSE "answering",
            !.merged = Over(errand.copy, errand.touched)]
    /\ UNCHANGED <<surroundings, flux, store, outbox, refresh, beside>>

\* conditions::save, the writing; then what is offered is what this copy holds
\* worth offering, less what was answered.
ErrandWrite ==
    /\ errand.at \in {"finding", "answering"}
    /\ Write(errand.merged)
    /\ errand' = [NoErrand EXCEPT
            !.at = "offering",
            !.offers = IF errand.at = "finding"
                       THEN {c \in errand.touched : Offerable(errand.copy[c])} ELSE errand.offers]
    /\ UNCHANGED <<surroundings, outbox, refresh, beside>>

\* The store is loaded again for an answer, which leaves k of the check's condition.
Answered(c, k, touched) ==
    /\ errand.at = "offering"
    /\ c \in errand.offers
    /\ errand' = [errand EXCEPT !.at = "answered", !.copy = [store EXCEPT ![c] = k],
                                !.touched = touched, !.offers = @ \ {c}]
    /\ Meet("diagnosis", OtherDiagnoses)
    /\ UNCHANGED <<surroundings, flux, store, outbox, refresh, use, used, other>>

\* declined.
Decline(c) == Answered(c, Declined(store[c]), {c})

\* recorded, the second look having found the check right, skipped or gone;
\* the fault may stand behind a check that is skipped.
Fixed(c) == Answered(c, Mended(store[c]), {c})

\* recorded, the second look having found it still wrong.
FixFailed(c) == world[c] = "wrong" /\ Answered(c, Attempted(store[c]), {c})

\* recorded, for what stopped, must not go ahead or could not be established.
Stopped(c) == Answered(c, store[c], {})

\* The errand ends: a diagnosis, or nobody let it act, or everything is answered.
ErrandOver ==
    /\ errand.at = "offering"
    /\ errand' = NoErrand
    /\ UNCHANGED <<surroundings, flux, store, outbox, refresh, beside>>

Mending(c) == Decline(c) \/ Fixed(c) \/ FixFailed(c) \/ Stopped(c)

Next ==
    \/ Tick
    \/ \E c \in Check : Turn(c)
    \/ Want
    \/ Hours
    \/ Refreshing
    \/ Heard \/ HeardKeep
    \/ OtherGather \/ OtherDiagnose \/ OtherSave \/ OtherKeep
    \/ ErrandLook \/ Remembered \/ ErrandRead \/ ErrandWrite \/ ErrandOver
    \/ \E c \in Check : Mending(c)

Spec == Init /\ [][Next]_vars

\* A surface is open, so the refresh goes round.  Nobody has to run an errand,
\* or to end one.
FairSpec == Spec /\ WF_vars(Refreshing)

---------------------------------------------------------------------------
\* No two that observe the check ever had the store in hand at once.
Alone(c) == (IF c \in Watched THEN "gather" ELSE "diagnosis") \notin overlapped

\* How long something has been broken is measured from when it broke: as long as a spell
\* stands its start stays, whatever copies are written over the store, unless two that
\* observe the check overlapped: two surfaces or two diagnoses that both find it broken
\* each take their own moment for the start (Condition::raise, Conditions::over).
SinceStands ==
    [][\A c \in Check :
        /\ Alone(c)
        /\ store[c].standing = "raised" /\ store'[c].standing = "raised"
        /\ store[c].recurrences = store'[c].recurrences
        => store'[c].since = store[c].since]_vars

\* The history of an outbox says, that way, what the spell s came to.
Says(box, moment, s) ==
    \E i \in DOMAIN box.said : box.said[i].moment = moment /\ s \in box.said[i].spells

\* The refresh delivers what is owed.
Deliver == RefreshTell /\ Digest(refresh.copy) # {} /\ ~Held(Digest(refresh.copy))

\* A spell of what only diagnoses observe, once the history has it down as said, is not
\* said to have started again, however their writing falls against the refresh that tells
\* of it, as long as no key's alert was told beside it and neither two surfaces nor two
\* diagnoses overlapped (Alert::of, Outbox::delivered, Conditions::over).
DiagnosedIsToldOnce ==
    [][used = "no" /\ overlapped = {} /\ Deliver =>
        \A a \in Owe(Digest(refresh.copy)) : a.moment = "onset" =>
            \A s \in a.spells : s[1] \notin Watched => ~Says(outbox, "onset", s)]_vars

\* The operator can read, of an outbox, that a spell of the check from the r-th on started.
Readable(box, c, r) ==
    \E i \in DOMAIN box.said :
        box.said[i].moment = "onset" /\ \E s \in box.said[i].spells : s[1] = c /\ s[2] >= r

\* It can be read, or as many alerts as are kept were delivered and the oldest may be gone.
Legible(box, c, r) == Readable(box, c, r) \/ Len(box.said) >= KEPT

\* What counts as told is a fault the operator can read of, until the history has
\* filled: it may then be gone, though it counts as told and stands.  And of what only
\* diagnoses observe, a standing spell that counts as told is one that can be read of, or
\* a later one, for as long: no delivery of what was held over from another spell, no copy
\* of the store written back, and no copy of the outbox written over it, passes it over,
\* unless two surfaces or two diagnoses overlapped (Outbox::owe, Outbox::delivered,
\* Conditions::over).
ToldIsSaid ==
    /\ \A c \in Check : outbox.told[c] # Never => Legible(outbox, c, 0)
    /\ overlapped = {} =>
        \A c \in Check \ Watched :
            /\ store[c].standing = "raised"
            /\ outbox.told[c] = store[c].recurrences /\ store[c].recurrences < FLAPPING
            => Legible(outbox, c, store[c].recurrences)

\* Once no errand runs, the store comes to agree with what a refresh can see,
\* though copies of what it was were written over it: "which the next run
\* corrects on its own" (app/conditions.rs, told()'s save of what changed).
StoreSettles ==
    \A c \in Watched, w \in {"wrong", "fine"} :
        <>[](errand.at = "idle" /\ world[c] = w)
            => <>[]((store[c].standing = "raised") = (w = "wrong"))

\* A fault that stands, in hours that are not quiet, is told of: every spell
\* short of flapping (Digest::wanted, Outbox::delivered).
SpellIsTold ==
    \A c \in Check, r \in 0 .. FLAPPING - 1 :
        <>[](/\ wanted = "yes" /\ hours = "open"
             /\ store[c].standing = "raised" /\ store[c].recurrences = r)
            => <>[](outbox.told[c] = r)

\* "Both directions are worth saying and neither is worth saying twice"
\* (Moment).
ResolvedIsSaidOnce ==
    [][Deliver => \A a \in Owe(Digest(refresh.copy)) : a.moment = "resolved" =>
                    \A s \in a.spells : ~Says(outbox, "resolved", s)]_vars
=============================================================================
