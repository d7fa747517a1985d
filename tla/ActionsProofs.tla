--------------------------- MODULE ActionsProofs ---------------------------
(***************************************************************************)
(* What holds of the remembered attempts alone, for every set of sends and *)
(* whatever the settings and the clock read: no action beside itself,      *)
(* nobody answered with another's answer or left waiting for nothing.      *)
(* Then an action end to end: it keeps to what is said of its two halves,  *)
(* and to what neither can say alone, that a key begins a second job only  *)
(* once a window has passed and that the name an attempt was answered with *)
(* can be redeemed as long as the attempt is remembered.                   *)
(***************************************************************************)
EXTENDS Actions, FiniteSetTheorems, TLAPS

\* What is being carried out, or has come to something nobody was told yet, is
\* remembered and unanswered.
UnsettledIsHeld ==
    \A s \in Send : work[s] \in {"going", "done", "fell"} => s \in held /\ slot[s] = "unset"

\* One caller's key names one remembered attempt.
OneAttempt == \A s, t \in held : SameKey(s, t) => s = t

\* An attempt is begun by one request once, and answered once.
InOrder ==
    \A s \in Send :
        /\ req[s].at \in {"idle", "read"} => work[s] = "none"
        /\ work[s] \in {"none", "forgotten"} => s \notin held /\ slot[s] = "unset"

Remembering ==
    /\ TypeOK
    /\ UnsettledIsHeld
    /\ OneAttempt
    /\ InOrder
    /\ UnansweredIsForgotten

LEMMA BlankTyped == \A s \in Send : Blank(s) \in Request /\ Blank(s).at = "idle" /\ Blank(s).on = s
<1>1. (CHOOSE c \in Clock : TRUE) \in Clock
  BY ResendAssumption
<1>2. \E b : b \in Bounds
  <2>1. PICK w \in Within, a \in AtMost : TRUE
    BY ResendAssumption
  <2>2. [within |-> w, atMost |-> a] \in Bounds
    BY DEF Bounds
  <2>3. QED
    BY <2>2
<1>3. (CHOOSE b \in Bounds : TRUE) \in Bounds
  BY <1>2
<1>4. QED
  BY <1>1, <1>3 DEF Blank, Request

\* A request with some of its fields replaced is a request.
LEMMA Amended ==
    ASSUME NEW b \in Request, NEW n \in Clock, NEW k \in Nat, NEW t \in Send, NEW by \in Bounds
    PROVE  /\ [b EXCEPT !.at = "waiting", !.now = n, !.turn = k] \in Request
           /\ [b EXCEPT !.at = "waiting", !.on = t] \in Request
           /\ [b EXCEPT !.at = "read", !.now = n, !.by = by] \in Request
BY DEF Request

LEMMA InitRemembers == Init => Remembering
BY BlankTyped DEF Init, Remembering, TypeOK, UnsettledIsHeld, OneAttempt, InOrder,
   UnansweredIsForgotten, Work, Slot

LEMMA ReadRemembers ==
    ASSUME Remembering, NEW s \in Send, NEW now \in Clock, NEW by \in Bounds, Read(s, now, by)
    PROVE  Remembering'
<1>1. TypeOK'
  <2>1. req[s] \in Request
    BY DEF Remembering, TypeOK
  <2>2. [req[s] EXCEPT !.at = "read", !.now = now, !.by = by] \in Request
    BY <2>1 DEF Request
  <2>3. req' = [req EXCEPT ![s] = [req[s] EXCEPT !.at = "read", !.now = now, !.by = by]]
    BY DEF Remembering, TypeOK, Read
  <2>4. QED
    BY <2>2, <2>3 DEF Remembering, TypeOK, Read
<1>2. \A t \in Send : t # s => req'[t] = req[t]
  BY DEF Remembering, TypeOK, Read
<1>3. req'[s].at = "read" /\ req[s].at = "idle"
  BY DEF Remembering, TypeOK, Read, Request
<1>4. QED
  BY <1>1, <1>2, <1>3 DEF Remembering, UnsettledIsHeld, OneAttempt, InOrder,
     UnansweredIsForgotten, Read, SameKey

\* What a claim keeps of what was remembered includes everything in flight.
LEMMA KeptFacts ==
    ASSUME NEW s \in Send
    PROVE  /\ Kept(s) \subseteq held
           /\ \A t \in held : slot[t] = "unset" => t \in Kept(s) \ Room(s)
BY DEF Kept, Room, InFlight

LEMMA ClaimFirstRemembers ==
    ASSUME Remembering, NEW s \in Send, ClaimFirst(s)
    PROVE  Remembering'
<1> DEFINE r == [Blank(s) EXCEPT !.at = "waiting", !.now = req[s].now, !.turn = turn + 1]
<1>0. req[s] \in Request /\ turn \in Nat
  BY DEF Remembering, TypeOK
<1>1. r \in Request /\ r.at = "waiting" /\ r.on = s
  <2>1. req[s].now \in Clock /\ turn + 1 \in Nat /\ \E b : b \in Bounds
    BY <1>0 DEF Request
  <2>2. Blank(s) \in Request /\ Blank(s).on = s
    BY BlankTyped
  <2>3. r \in Request
    BY <2>1, <2>2, Amended
  <2>4. r.at = "waiting" /\ r.on = s
    BY <2>2 DEF Request
  <2>5. QED
    BY <2>3, <2>4
<1>2. req' = [req EXCEPT ![s] = r]
  BY DEF ClaimFirst
<1>3. TypeOK'
  BY <1>0, <1>1, <1>2, KeptFacts DEF Remembering, TypeOK, ClaimFirst, Work
<1>4. work[s] = "none" /\ s \notin held /\ slot[s] = "unset"
  BY DEF Remembering, InOrder, ClaimFirst
<1>5. UnsettledIsHeld'
  BY <1>4, KeptFacts DEF Remembering, TypeOK, UnsettledIsHeld, ClaimFirst
<1>6. OneAttempt'
  <2>1. \A t \in held' : (t \in held /\ t \in Kept(s)) \/ t = s
    BY KeptFacts DEF ClaimFirst
  <2>2. QED
    BY <2>1 DEF Remembering, OneAttempt, ClaimFirst, SameKey
<1>7. InOrder'
  BY <1>1, <1>2, <1>4, KeptFacts DEF Remembering, TypeOK, InOrder, ClaimFirst
<1>8. UnansweredIsForgotten'
  BY <1>4, KeptFacts DEF Remembering, UnansweredIsForgotten, ClaimFirst
<1>9. QED
  BY <1>3, <1>5, <1>6, <1>7, <1>8 DEF Remembering

LEMMA ClaimAgainRemembers ==
    ASSUME Remembering, NEW s \in Send, ClaimAgain(s)
    PROVE  Remembering'
<1>1. PICK t \in Kept(s) :
        /\ SameKey(s, t) /\ asks[t].asked = asks[s].asked
        /\ req' = [req EXCEPT ![s] = [Blank(s) EXCEPT !.at = "waiting", !.on = t]]
  BY DEF ClaimAgain
<1> DEFINE r == [Blank(s) EXCEPT !.at = "waiting", !.on = t]
<1>2. t \in Send /\ asks[t] \in Attempt /\ asks[s] \in Attempt
  BY KeptFacts DEF Remembering, TypeOK
<1>3. r \in Request /\ r.at = "waiting" /\ r.on = t
  <2>1. Blank(s) \in Request
    BY BlankTyped
  <2>2. Blank(s).now \in Clock /\ Blank(s).turn \in Nat /\ Blank(s).by \in Bounds
    BY <2>1 DEF Request
  <2>3. r \in Request
    BY <1>2, <2>1, <2>2, Amended
  <2>4. r.at = "waiting" /\ r.on = t
    BY <2>1 DEF Request
  <2>5. QED
    BY <2>3, <2>4
<1>4. asks[t] = asks[s]
  BY <1>1, <1>2 DEF SameKey, Attempt
<1>5. TypeOK'
  BY <1>1, <1>3, KeptFacts DEF Remembering, TypeOK, ClaimAgain
<1>6. UnsettledIsHeld' /\ OneAttempt' /\ UnansweredIsForgotten'
  BY KeptFacts DEF Remembering, UnsettledIsHeld, OneAttempt, UnansweredIsForgotten, ClaimAgain, SameKey
<1>7. InOrder'
  BY <1>1, <1>3, KeptFacts DEF Remembering, TypeOK, InOrder, ClaimAgain
<1>8. QED
  BY <1>5, <1>6, <1>7 DEF Remembering

LEMMA ClaimOtherwiseRemembers ==
    ASSUME Remembering, NEW s \in Send, ClaimOtherwise(s)
    PROVE  Remembering'
<1> DEFINE r == [Blank(s) EXCEPT !.at = "refused"]
<1>1. r \in Request /\ r.at = "refused"
  BY BlankTyped DEF Request
<1>2. req' = [req EXCEPT ![s] = r]
  BY DEF ClaimOtherwise
<1>3. TypeOK'
  BY <1>1, <1>2, KeptFacts DEF Remembering, TypeOK, ClaimOtherwise
<1>4. UnsettledIsHeld' /\ OneAttempt' /\ UnansweredIsForgotten'
  BY KeptFacts DEF Remembering, UnsettledIsHeld, OneAttempt, UnansweredIsForgotten, ClaimOtherwise, SameKey
<1>5. InOrder'
  BY <1>1, <1>2, KeptFacts DEF Remembering, TypeOK, InOrder, ClaimOtherwise
<1>6. QED
  BY <1>3, <1>4, <1>5 DEF Remembering

\* The work of an attempt, and the telling of what it came to.
LEMMA WorkRemembers ==
    ASSUME Remembering, NEW s \in Send, CarryOut(s) \/ Settle(s)
    PROVE  Remembering'
<1>1. CASE WorkDone(s)
  BY <1>1 DEF Remembering, TypeOK, UnsettledIsHeld, OneAttempt, InOrder,
     UnansweredIsForgotten, WorkDone, SameKey, Work
<1>2. CASE WorkFell(s)
  BY <1>2 DEF Remembering, TypeOK, UnsettledIsHeld, OneAttempt, InOrder,
     UnansweredIsForgotten, WorkFell, SameKey, Work
<1>3. CASE Forget(s)
  BY <1>3 DEF Remembering, TypeOK, UnsettledIsHeld, OneAttempt, InOrder,
     UnansweredIsForgotten, Forget, SameKey, Work
<1>4. CASE Fill(s)
  BY <1>4 DEF Remembering, TypeOK, UnsettledIsHeld, OneAttempt, InOrder,
     UnansweredIsForgotten, Fill, SameKey, Work, Slot
<1>5. QED
  BY <1>1, <1>2, <1>3, <1>4 DEF CarryOut, Settle

LEMMA EndRemembers ==
    ASSUME Remembering, NEW s \in Send, Answer(s) \/ Leave(s)
    PROVE  Remembering'
<1>1. TypeOK' /\ UNCHANGED <<asks, held, turn, work, slot>>
  BY DEF Remembering, TypeOK, Answer, Leave, Request
<1>2. \A t \in Send : t # s => req'[t] = req[t]
  BY DEF Remembering, TypeOK, Answer, Leave
<1>3. req'[s].on = req[s].on /\ req'[s].at \in {"answered", "gone"}
      /\ (req'[s].at = "answered" => req[s].at = "waiting")
  BY DEF Remembering, TypeOK, Answer, Leave, Request
<1>4. QED
  BY <1>1, <1>2, <1>3 DEF Remembering, UnsettledIsHeld, OneAttempt, InOrder,
     UnansweredIsForgotten, SameKey

\* The inductive invariant holds in every reachable state.
THEOREM AttemptsAreRemembered == Spec => []Remembering
<1>1. Remembering /\ [Next]_vars => Remembering'
  <2> SUFFICES ASSUME Remembering, [Next]_vars PROVE Remembering'
    OBVIOUS
  <2>1. ASSUME NEW s \in Send, Claim(s) PROVE Remembering'
    BY <2>1, ClaimFirstRemembers, ClaimAgainRemembers, ClaimOtherwiseRemembers DEF Claim
  <2>2. CASE UNCHANGED vars
    BY <2>2 DEF Remembering, TypeOK, UnsettledIsHeld, OneAttempt, InOrder,
       UnansweredIsForgotten, SameKey, vars
  <2>3. QED
    BY <2>1, <2>2, ReadRemembers, WorkRemembers, EndRemembers DEF Next
<1>2. QED
  BY InitRemembers, <1>1, PTL DEF Spec

\* The type invariant, for every value of the constants.
THEOREM ResendTyped == Spec => []TypeOK
<1>1. Remembering => TypeOK
  BY DEF Remembering
<1>2. QED
  BY AttemptsAreRemembered, <1>1, PTL

\* Two sends of one caller's key never have the action running at the same time,
\* whatever the settings are changed to and however the clock is set
\* (Held::in_flight, Answered::claim).
THEOREM NeverRunsBeside == Spec => []NeverBeside
<1>1. Remembering => NeverBeside
  BY DEF Remembering, UnsettledIsHeld, OneAttempt, NeverBeside
<1>2. QED
  BY AttemptsAreRemembered, <1>1, PTL

\* A claim lets go of nothing that is still being carried out, and of another caller's
\* attempt only for its age: the room is made at the caller's own expense
\* (Answered::claim, making_room).
THEOREM ClaimsSpareOthers == Spec => OthersAreSpared
<1> DEFINE Spared(s, t) == /\ ~InFlight(t)
                           /\ asks[t].who # asks[s].who => Lapsed(t, s)
<1>1. ASSUME NEW s \in Send, Claim(s), NEW t \in held \ held' PROVE Spared(s, t)
  <2>1. CASE t \notin Kept(s)
    BY <2>1 DEF Kept
  <2>2. CASE t \in Kept(s)
    <3>1. t \in Room(s)
      BY <1>1, <2>2 DEF Claim, ClaimFirst, ClaimAgain, ClaimOtherwise
    <3>2. QED
      BY <3>1 DEF Room
  <2>3. QED
    BY <2>1, <2>2
<1>2. [Next]_vars => [\A s \in Send : Claim(s) => \A t \in held \ held' : Spared(s, t)]_vars
  BY <1>1
<1>3. QED
  BY <1>2, PTL DEF Spec, OthersAreSpared

---------------------------------------------------------------------------
\* Whoever waits does so on an attempt whose slot is filled, or whose work is still the
\* runtime's to carry out and to settle.
WaitsOnWork ==
    \A s \in Send : req[s].at = "waiting" =>
        slot[req[s].on] # "unset" \/ work[req[s].on] \in {"going", "done", "fell", "forgotten"}

\* What was settled has its slot filled, and what is waited on was begun.
Awaited ==
    /\ \A s \in Send : work[s] = "settled" => slot[s] # "unset"
    /\ \A s \in Send : req[s].at = "waiting" => work[req[s].on] # "none"

LEMMA AwaitedIsKept ==
    ASSUME Remembering, Awaited, [Next]_vars
    PROVE  Awaited'
<1>0. /\ req \in [Send -> Request] /\ work \in [Send -> Work] /\ slot \in [Send -> Slot]
      /\ held \subseteq Send /\ \A s \in Send : req[s].on \in Send
      /\ \A s \in held : work[s] # "none"
  BY DEF Remembering, TypeOK, InOrder, Request
<1>1. ASSUME NEW s \in Send, NEW q \in Request, req' = [req EXCEPT ![s] = q], slot' = slot,
             work' = work, q.at = "waiting" => work[q.on] # "none"
      PROVE  Awaited'
  BY <1>0, <1>1 DEF Awaited
<1>2. ASSUME NEW s \in Send, Claim(s) PROVE Awaited'
  <2>0. Blank(s) \in Request /\ Blank(s).on = s /\ turn + 1 \in Nat /\ req[s].now \in Clock
    BY <1>0, BlankTyped DEF Remembering, TypeOK, Request
  <2>1. CASE ClaimFirst(s)
    <3> DEFINE q == [Blank(s) EXCEPT !.at = "waiting", !.now = req[s].now, !.turn = turn + 1]
    <3>1. q \in Request /\ q.on = s
      BY <2>0 DEF Request
    <3>2. /\ req' = [req EXCEPT ![s] = q] /\ slot' = slot
          /\ work' = [work EXCEPT ![s] = "going"]
      BY <2>1 DEF ClaimFirst
    <3> HIDE DEF q
    <3>3. QED
      BY <1>0, <3>1, <3>2 DEF Awaited
  <2>2. CASE ClaimAgain(s)
    <3>1. PICK t \in Kept(s) : req' = [req EXCEPT ![s] = [Blank(s) EXCEPT !.at = "waiting", !.on = t]]
      BY <2>2 DEF ClaimAgain
    <3> DEFINE q == [Blank(s) EXCEPT !.at = "waiting", !.on = t]
    <3>2. t \in held
      BY DEF Kept
    <3>3. q \in Request /\ q.on = t
      BY <1>0, <2>0, <3>2 DEF Request
    <3>4. req' = [req EXCEPT ![s] = q] /\ slot' = slot /\ work' = work
      BY <2>2, <3>1 DEF ClaimAgain
    <3> HIDE DEF q
    <3>5. QED
      BY <1>0, <1>1, <3>2, <3>3, <3>4
  <2>3. CASE ClaimOtherwise(s)
    <3> DEFINE q == [Blank(s) EXCEPT !.at = "refused"]
    <3>1. q \in Request /\ q.at = "refused"
      BY <2>0 DEF Request
    <3>2. req' = [req EXCEPT ![s] = q] /\ slot' = slot /\ work' = work
      BY <2>3 DEF ClaimOtherwise
    <3> HIDE DEF q
    <3>3. QED
      BY <1>1, <3>1, <3>2
  <2>4. QED
    BY <1>2, <2>1, <2>2, <2>3 DEF Claim
<1>3. ASSUME NEW s \in Send,
             (\E now \in Clock, by \in Bounds : Read(s, now, by)) \/ Answer(s) \/ Leave(s)
      PROVE  Awaited'
  <2>1. /\ slot' = slot /\ work' = work /\ req'[s].at # "waiting"
        /\ \A t \in Send : t # s => req'[t] = req[t]
    <3>1. CASE Answer(s) \/ Leave(s)
      BY <1>0, <3>1 DEF Answer, Leave, Request
    <3>2. ASSUME NEW now \in Clock, NEW by \in Bounds, Read(s, now, by)
          PROVE  /\ slot' = slot /\ work' = work /\ req'[s].at # "waiting"
                 /\ \A t \in Send : t # s => req'[t] = req[t]
      <4>1. req' = [req EXCEPT ![s] = [req[s] EXCEPT !.at = "read", !.now = now, !.by = by]]
        BY <1>0, <3>2 DEF Read
      <4>2. [req[s] EXCEPT !.at = "read", !.now = now, !.by = by].at = "read"
        BY <1>0 DEF Request
      <4>3. QED
        BY <1>0, <3>2, <4>1, <4>2 DEF Read
    <3>3. QED
      BY <1>3, <3>1, <3>2
  <2>2. QED
    BY <1>0, <2>1 DEF Awaited
<1>4. ASSUME NEW s \in Send, CarryOut(s) \/ Settle(s) PROVE Awaited'
  BY <1>0, <1>4 DEF CarryOut, WorkDone, WorkFell, Settle, Forget, Fill, Awaited
<1>5. CASE UNCHANGED vars
  BY <1>5 DEF vars, Awaited
<1>6. QED
  BY <1>2, <1>3, <1>4, <1>5 DEF Next

\* Nobody waits for nothing: behind whatever a request waits, the answer is there or its
\* work is still to be carried out and settled, though the work fell over, the attempt was
\* let go of or its client went away (Answered::settle, Carrying::out).  It is what makes
\* the wait end where the runtime goes on.
THEOREM NobodyWaitsForNothing == Spec => []WaitsOnWork
<1>1. Init => Awaited
  BY BlankTyped DEF Init, Awaited
<1>2. Remembering /\ Awaited /\ [Next]_vars => Awaited'
  BY AwaitedIsKept
<1>3. Remembering /\ Awaited => WaitsOnWork
  BY DEF Remembering, TypeOK, Request, Work, Awaited, WaitsOnWork
<1>4. QED
  BY <1>1, <1>2, <1>3, AttemptsAreRemembered, PTL DEF Spec

---------------------------------------------------------------------------
\* An action end to end.

\* How far the request is, its work and its slot agree; and what a request that matters
\* read of the clock has passed.
InStep(s) ==
    /\ req[s].at \in {"idle", "read"} => work[s] = "none"
    /\ work[s] = "none" => s \notin held
    /\ work[s] # "settled" => slot[s] = "unset"
    /\ work[s] \in {"going", "done"} => s \in held
    /\ req[s].at = "read" \/ work[s] # "none" => req[s].now <= clock

\* A job is begun with the answer and with nothing else.
Linked(s) == task[s].at # "none" <=> work[s] = "done" \/ slot[s] = "answer"

Carried ==
    /\ TypeOK /\ J!TypeOK /\ clock \in Clock /\ due \in Nat
    /\ \A s \in Send : InStep(s) /\ Linked(s)

\* What was answered is remembered, or was for a window; one caller's key names one
\* remembered attempt.
AnsweredIsRemembered ==
    /\ \A s \in Send : slot[s] = "answer" => s \in held \/ Aged(s)
    /\ \A s, t \in held : SameKey(s, t) => s = t

\* A name is held for a lease from the send on: it was asked about since the last sweep,
\* or the next sweep is a lease away from the send.
NameLasts(s) ==
    /\ register[s].standing # "absent" => task[s].at # "none"
    /\ task[s].at # "none" => register[s].standing # "absent" \/ clock >= req[s].now + LEASE
    /\ register[s].standing # "absent" /\ register[s].asked = "no" => due >= req[s].now + LEASE

---------------------------------------------------------------------------
\* The request reads the clock.
LEMMA ReadInStep ==
    ASSUME Carried, NEW s \in Send, NEW by \in Bounds, Read(s, clock, by), clock' = clock
    PROVE  TypeOK' /\ \A t \in Send : InStep(t)'
<1>1. req'[s].at = "read" /\ req'[s].now = clock /\ req' \in [Send -> Request]
  <2> DEFINE q == [req[s] EXCEPT !.at = "read", !.now = clock, !.by = by]
  <2>1. req' = [req EXCEPT ![s] = q] /\ req \in [Send -> Request] /\ clock \in Clock
    BY DEF Carried, TypeOK, Read
  <2>2. q \in Request /\ q.at = "read" /\ q.now = clock
    <3>1. req[s] \in Request
      BY <2>1
    <3>2. QED
      BY <2>1, <3>1 DEF Request
  <2> HIDE DEF q
  <2>3. QED
    BY <2>1, <2>2
<1>2. \A t \in Send : t # s => req'[t] = req[t]
  BY DEF Carried, TypeOK, Read
<1>3. TypeOK'
  BY <1>1 DEF Carried, TypeOK, Read
<1>4. InStep(s)'
  BY <1>1, ActionsAssumption, ResendAssumption DEF Carried, InStep, Read
<1>5. ASSUME NEW t \in Send, t # s PROVE InStep(t)'
  BY <1>2, <1>5 DEF Carried, InStep, Read
<1>6. QED
  BY <1>3, <1>4, <1>5

\* What a claim does to its own send and to the others.
LEMMA ClaimInStep ==
    ASSUME Carried, NEW s \in Send, Claim(s), clock' = clock
    PROVE  /\ TypeOK' /\ \A t \in Send : InStep(t)'
           /\ req[s].at = "read" /\ work[s] = "none" /\ slot' = slot /\ asks' = asks
           /\ \A t \in Send : t # s => req'[t] = req[t] /\ work'[t] = work[t]
           /\ work'[s] # "done"
           /\ \/ held' = Kept(s)
              \/ /\ held' = (Kept(s) \ Room(s)) \cup {s}
                 /\ \A t \in Kept(s) : ~SameKey(s, t)
<1>0. /\ req \in [Send -> Request] /\ work \in [Send -> Work] /\ slot \in [Send -> Slot]
      /\ turn \in Nat /\ held \in SUBSET Send
  BY DEF Carried, TypeOK
<1>1. req[s].at = "read" /\ work[s] = "none" /\ req[s].now <= clock /\ req[s].now \in Clock
      /\ slot[s] = "unset"
  BY <1>0 DEF Claim, ClaimFirst, ClaimAgain, ClaimOtherwise, Carried, InStep, Request
<1>2. Kept(s) \subseteq held
  BY DEF Kept
<1>3. ASSUME NEW t \in Send, t # s, req'[t] = req[t], work'[t] = work[t], slot' = slot,
             Kept(s) \ Room(s) \subseteq held', held' \subseteq Kept(s) \cup {s}
      PROVE  InStep(t)'
  <2>1. ASSUME work[t] \in {"going", "done"} PROVE t \in held'
    <3>1. t \in held /\ slot[t] = "unset"
      BY <2>1 DEF Carried, InStep
    <3>2. t \in Kept(s) /\ t \notin Room(s)
      BY <3>1 DEF Kept, Room, InFlight
    <3>3. QED
      BY <1>3, <3>2
  <2>2. InStep(t)
    BY DEF Carried
  <2>3. t \in held' => t \in held
    BY <1>2, <1>3
  <2>4. QED
    BY <1>3, <2>1, <2>2, <2>3 DEF InStep
<1>4. CASE ClaimFirst(s)
  <2> DEFINE first == [Blank(s) EXCEPT !.at = "waiting", !.now = req[s].now, !.turn = turn + 1]
  <2>1. first \in Request /\ first.at = "waiting" /\ first.now = req[s].now
    <3>1. Blank(s) \in Request /\ turn + 1 \in Nat
      BY <1>0, BlankTyped
    <3>2. QED
      BY <1>1, <3>1 DEF Request
  <2>2. req' = [req EXCEPT ![s] = first]
    BY <1>4 DEF ClaimFirst
  <2> HIDE DEF first
  <2>3. req' \in [Send -> Request] /\ req'[s].at = "waiting" /\ req'[s].now = req[s].now
        /\ \A t \in Send : t # s => req'[t] = req[t]
    BY <1>0, <2>1, <2>2
  <2>4. work' = [work EXCEPT ![s] = "going"] /\ slot' = slot /\ asks' = asks /\ turn' = turn + 1
        /\ held' = (Kept(s) \ Room(s)) \cup {s} /\ \A t \in Kept(s) : ~SameKey(s, t)
    BY <1>4 DEF ClaimFirst
  <2>5. work' \in [Send -> Work] /\ work'[s] = "going"
        /\ \A t \in Send : t # s => work'[t] = work[t]
    BY <1>0, <2>4 DEF Work
  <2>6. TypeOK'
    BY <1>0, <1>2, <2>3, <2>4, <2>5 DEF Carried, TypeOK
  <2>7. InStep(s)'
    BY <1>1, <2>3, <2>4, <2>5 DEF InStep
  <2>8. ASSUME NEW t \in Send, t # s PROVE InStep(t)'
    BY <1>3, <2>3, <2>4, <2>5, <2>8
  <2>9. QED
    BY <1>1, <2>3, <2>4, <2>5, <2>6, <2>7, <2>8
<1>5. CASE ClaimAgain(s) \/ ClaimOtherwise(s)
  <2>1. PICK q \in Request : req' = [req EXCEPT ![s] = q] /\ q.at \in {"waiting", "refused"}
    <3>1. CASE ClaimAgain(s)
      <4>1. PICK t \in Kept(s) : req' = [req EXCEPT ![s] = [Blank(s) EXCEPT !.at = "waiting", !.on = t]]
        BY <3>1 DEF ClaimAgain
      <4>2. t \in Send
        BY <1>0, <1>2
      <4> DEFINE q == [Blank(s) EXCEPT !.at = "waiting", !.on = t]
      <4>3. q \in Request /\ q.at = "waiting"
        <5>1. Blank(s) \in Request
          BY BlankTyped
        <5>2. QED
          BY <4>2, <5>1 DEF Request
      <4>4. QED
        BY <4>1, <4>3
    <3>2. CASE ClaimOtherwise(s)
      <4>1. req' = [req EXCEPT ![s] = [Blank(s) EXCEPT !.at = "refused"]]
        BY <3>2 DEF ClaimOtherwise
      <4> DEFINE q == [Blank(s) EXCEPT !.at = "refused"]
      <4>2. q \in Request /\ q.at = "refused"
        <5>1. Blank(s) \in Request
          BY BlankTyped
        <5>2. QED
          BY <5>1 DEF Request
      <4>3. QED
        BY <4>1, <4>2
    <3>3. QED
      BY <1>5, <3>1, <3>2
  <2>2. req' \in [Send -> Request] /\ req'[s].at \in {"waiting", "refused"}
        /\ \A t \in Send : t # s => req'[t] = req[t]
    BY <1>0, <2>1
  <2>3. work' = work /\ slot' = slot /\ asks' = asks /\ turn' = turn /\ held' = Kept(s)
    BY <1>5 DEF ClaimAgain, ClaimOtherwise
  <2>4. TypeOK'
    BY <1>0, <1>2, <2>2, <2>3 DEF Carried, TypeOK
  <2>5. InStep(s)'
    <3>1. s \notin held
      BY <1>1 DEF Carried, InStep
    <3>2. QED
      BY <1>1, <1>2, <2>2, <2>3, <3>1 DEF InStep
  <2>6. ASSUME NEW t \in Send, t # s PROVE InStep(t)'
    BY <1>3, <2>2, <2>3, <2>6
  <2>7. QED
    BY <1>1, <2>2, <2>3, <2>4, <2>5, <2>6
<1>6. QED
  BY <1>4, <1>5 DEF Claim

\* The work is carried out or falls over, is settled, and the request answered or left.
LEMMA WorkInStep ==
    ASSUME Carried, NEW s \in Send, clock' = clock,
           WorkDone(s) \/ WorkFell(s) \/ Settle(s) \/ Answer(s) \/ Leave(s)
    PROVE  /\ TypeOK' /\ asks' = asks /\ held' \subseteq held
           /\ \A t \in Send : InStep(t)' /\ req'[t].now = req[t].now
           /\ \A t \in Send : t \in held \ held' => work[t] = "fell" /\ slot'[t] = slot[t]
<1>0. /\ req \in [Send -> Request] /\ work \in [Send -> Work] /\ slot \in [Send -> Slot]
  BY DEF Carried, TypeOK
<1>1. CASE WorkDone(s) \/ WorkFell(s)
  <2>1. /\ asks' = asks /\ req' = req /\ slot' = slot /\ held' = held /\ turn' = turn
        /\ work[s] = "going" /\ work' \in [Send -> Work] /\ work'[s] \in {"done", "fell"}
        /\ \A t \in Send : t # s => work'[t] = work[t]
    BY <1>0, <1>1 DEF WorkDone, WorkFell, Work
  <2>2. TypeOK'
    BY <2>1 DEF Carried, TypeOK
  <2>3. ASSUME NEW t \in Send PROVE InStep(t)'
    BY <2>1 DEF Carried, InStep
  <2>4. QED
    BY <2>1, <2>2, <2>3
<1>2. CASE Settle(s)
  <2>1. /\ asks' = asks /\ req' = req /\ turn' = turn
        /\ work[s] \in {"done", "fell", "forgotten"} /\ work' \in [Send -> Work]
        /\ \A t \in Send : t # s => work'[t] = work[t]
    BY <1>0, <1>2 DEF Settle, Forget, Fill, Work
  <2>2. CASE Forget(s)
    <3>1. /\ work[s] = "fell" /\ work'[s] = "forgotten" /\ slot' = slot
          /\ held' = held \ {s}
      BY <1>0, <2>2 DEF Forget
    <3>2. TypeOK'
      BY <2>1, <3>1 DEF Carried, TypeOK
    <3>3. ASSUME NEW t \in Send PROVE InStep(t)'
      BY <2>1, <3>1 DEF Carried, InStep
    <3>4. QED
      BY <2>1, <3>1, <3>2, <3>3
  <2>3. CASE Fill(s)
    <3>1. /\ work'[s] = "settled" /\ held' = held /\ slot' \in [Send -> Slot]
          /\ \A t \in Send : t # s => slot'[t] = slot[t]
      BY <1>0, <2>3 DEF Fill, Slot
    <3>2. TypeOK'
      BY <2>1, <3>1 DEF Carried, TypeOK
    <3>3. ASSUME NEW t \in Send PROVE InStep(t)'
      BY <2>1, <3>1 DEF Carried, InStep
    <3>4. QED
      BY <2>1, <3>1, <3>2, <3>3
  <2>4. QED
    BY <1>2, <2>2, <2>3 DEF Settle
<1>3. CASE Answer(s) \/ Leave(s)
  <2>1. /\ asks' = asks /\ work' = work /\ slot' = slot /\ held' = held /\ turn' = turn
        /\ req' \in [Send -> Request] /\ req'[s].at \in {"answered", "gone"}
        /\ \A t \in Send : (t # s => req'[t] = req[t]) /\ req'[t].now = req[t].now
    BY <1>0, <1>3 DEF Answer, Leave, Request
  <2>2. TypeOK'
    BY <2>1 DEF Carried, TypeOK
  <2>3. ASSUME NEW t \in Send PROVE InStep(t)'
    BY <2>1 DEF Carried, InStep
  <2>4. QED
    BY <2>1, <2>2, <2>3
<1>4. QED
  BY <1>1, <1>2, <1>3

---------------------------------------------------------------------------
\* What the register of jobs does of itself: a name neither comes nor goes, and no task
\* comes from nothing.
LEMMA JobSteps ==
    ASSUME J!TypeOK, NEW n \in Send, J!About(n) \/ J!Stop(n) \/ J!Step(n)
    PROVE  /\ J!TypeOK'
           /\ \A m \in Send :
                /\ register'[m].standing = "absent" <=> register[m].standing = "absent"
                /\ task'[m].at = "none" <=> task[m].at = "none"
                /\ register'[m].asked = "no" => register[m].asked = "no"
<1>0. register \in [Send -> J!Entry] /\ task \in [Send -> J!Task] /\ begun \in Nat
  BY DEF J!TypeOK
<1>1. CASE J!About(n)
  <2>1. register' \in [Send -> J!Entry] /\ task' = task /\ begun' = begun
    BY <1>0, <1>1 DEF J!About, J!Entry
  <2>2. \A m \in Send : register'[m].standing = register[m].standing
                        /\ (register'[m].asked = "no" => register[m].asked = "no")
    BY <1>0, <1>1 DEF J!About, J!Entry
  <2>3. QED
    BY <1>0, <2>1, <2>2 DEF J!TypeOK
<1>2. ASSUME NEW t \in J!Task PROVE J!Abort(t) \in J!Task /\ (J!Abort(t).at = "none" <=> t.at = "none")
  <2>1. CASE t.at \in {"suspended", "queued"}
    BY <2>1 DEF J!Abort, J!Over, J!NoTask, J!Task, J!Outcome
  <2>2. CASE t.at \in {"polled", "landed"}
    <3>1. J!Abort(t) = [t EXCEPT !.handle = "aborted"]
      BY <2>2 DEF J!Abort
    <3>2. QED
      BY <3>1 DEF J!Task
  <2>3. CASE t.at \notin {"suspended", "queued", "polled", "landed"}
    BY <2>3 DEF J!Abort
  <2>4. QED
    BY <2>1, <2>2, <2>3
<1>3. CASE J!Stop(n)
  <2>1. /\ register' = [m \in Send |-> IF m \in {n} \cap J!Running
                                       THEN [register[m] EXCEPT !.standing = "ended"] ELSE register[m]]
        /\ task' = [m \in Send |-> IF m \in {n} \cap J!Running THEN J!Abort(task[m]) ELSE task[m]]
        /\ begun' = begun
    BY <1>3 DEF J!Stop, J!Ended
  <2>2. ASSUME NEW m \in Send
        PROVE  /\ register'[m] \in J!Entry
               /\ register'[m].standing = "absent" <=> register[m].standing = "absent"
               /\ register'[m].asked = register[m].asked
    <3>1. register[m] \in J!Entry
      BY <1>0
    <3>2. CASE m \in {n} \cap J!Running
      <4>1. register'[m] = [register[m] EXCEPT !.standing = "ended"] /\ register[m].standing = "running"
        BY <2>1, <3>2 DEF J!Running
      <4>2. QED
        BY <3>1, <4>1 DEF J!Entry, J!Outcome
    <3>3. CASE m \notin {n} \cap J!Running
      BY <2>1, <3>1, <3>3
    <3>4. QED
      BY <3>2, <3>3
  <2>3. ASSUME NEW m \in Send
        PROVE  task'[m] \in J!Task /\ (task'[m].at = "none" <=> task[m].at = "none")
    BY <1>0, <1>2, <2>1
  <2>4. QED
    <3>1. register' \in [Send -> J!Entry] /\ task' \in [Send -> J!Task]
      BY <2>1, <2>2, <2>3
    <3>2. QED
      BY <1>0, <2>1, <2>2, <2>3, <3>1 DEF J!TypeOK
<1>4. CASE J!Step(n)
  <2>1. /\ task' \in [Send -> J!Task] /\ begun' = begun
        /\ \A m \in Send : task'[m].at = "none" <=> task[m].at = "none"
    <3>1. CASE J!Poll(n)
      BY <1>0, <3>1 DEF J!Poll, J!Task
    <3>2. CASE J!Yield(n) \/ J!Contended(n)
      <4>1. PICK t \in J!Task : task' = [task EXCEPT ![n] = t] /\ t.at # "none"
        <5>1. task[n] \in J!Task
          BY <1>0
        <5>2. /\ J!Over \in J!Task /\ J!Over.at = "over"
              /\ [task[n] EXCEPT !.at = "suspended"] \in J!Task
              /\ [task[n] EXCEPT !.at = "queued"] \in J!Task
              /\ [task[n] EXCEPT !.at = "suspended"].at = "suspended"
              /\ [task[n] EXCEPT !.at = "queued"].at = "queued"
          BY <5>1 DEF J!Over, J!NoTask, J!Task, J!Outcome
        <5>3. QED
          BY <1>0, <3>2, <5>2 DEF J!Yield, J!Contended
      <4>2. task[n].at # "none" /\ begun' = begun
        BY <3>2 DEF J!Yield, J!Contended
      <4>3. QED
        BY <1>0, <4>1, <4>2
    <3>3. ASSUME NEW o \in J!CameTo(register[n].lease), J!Land(n, o)
          PROVE  /\ task' \in [Send -> J!Task] /\ begun' = begun
                 /\ \A m \in Send : task'[m].at = "none" <=> task[m].at = "none"
      <4>1. o \in J!Outcome
        BY DEF J!CameTo, J!Outcome
      <4>2. QED
        BY <1>0, <3>3, <4>1 DEF J!Land, J!Task
    <3>4. CASE J!Panic(n)
      <4>1. [J!NoTask EXCEPT !.at = "panicked"] \in J!Task /\ [J!NoTask EXCEPT !.at = "panicked"].at = "panicked"
        BY DEF J!NoTask, J!Task, J!Outcome
      <4>2. QED
        BY <1>0, <3>4, <4>1 DEF J!Panic
    <3>5. CASE J!WriteDown(n)
      <4>1. J!Over \in J!Task /\ J!Over.at = "over"
        BY DEF J!Over, J!NoTask, J!Task, J!Outcome
      <4>2. QED
        BY <1>0, <3>5, <4>1 DEF J!WriteDown
    <3>6. QED
      BY <1>4, <3>1, <3>2, <3>3, <3>4, <3>5 DEF J!Step
  <2>2. /\ register' \in [Send -> J!Entry]
        /\ \A m \in Send : /\ register'[m].standing = "absent" <=> register[m].standing = "absent"
                           /\ register'[m].asked = register[m].asked
    <3>1. CASE J!WriteDown(n)
      <4>1. task[n].came \in J!Outcome
        BY <1>0 DEF J!Task
      <4>2. PICK o \in {"absent"} \cup J!Outcome :
                /\ register' = [register EXCEPT ![n].standing = o]
                /\ o = "absent" <=> register[n].standing = "absent"
        BY <3>1, <4>1 DEF J!WriteDown, J!Outcome
      <4>3. QED
        BY <1>0, <4>2 DEF J!Entry
    <3>2. CASE ~J!WriteDown(n)
      <4>1. register' = register
        BY <1>4, <3>2 DEF J!Step, J!Poll, J!Yield, J!Land, J!Panic, J!Contended
      <4>2. QED
        BY <1>0, <4>1
    <3>3. QED
      BY <3>1, <3>2
  <2>3. QED
    BY <1>0, <2>1, <2>2 DEF J!TypeOK
<1>5. QED
  BY <1>1, <1>3, <1>4

\* A sweep lets go only of a name that was not asked about, and takes up none.
LEMMA SweepStep ==
    ASSUME J!TypeOK, J!Sweep
    PROVE  /\ J!TypeOK'
           /\ \A m \in Send :
                /\ register[m].standing = "absent" => register'[m].standing = "absent"
                /\ register'[m].standing = "absent" =>
                    register[m].standing = "absent" \/ register[m].asked = "no"
                /\ task'[m].at = "none" <=> task[m].at = "none"
<1>0. register \in [Send -> J!Entry] /\ task \in [Send -> J!Task] /\ begun \in Nat
  BY DEF J!TypeOK
<1>1. /\ register' = [m \in Send |-> J!Swept(m)] /\ begun' = begun
      /\ task' = [m \in Send |-> IF m \in J!SweptRunning THEN J!Abort(task[m]) ELSE task[m]]
  BY DEF J!Sweep
<1>2. ASSUME NEW m \in Send
      PROVE  /\ J!Swept(m) \in J!Entry
             /\ register[m].standing = "absent" => J!Swept(m).standing = "absent"
             /\ J!Swept(m).standing = "absent" =>
                    register[m].standing = "absent" \/ register[m].asked = "no"
  <2>0. register[m] \in J!Entry
    BY <1>0
  <2>1. CASE m \in J!SweptFinished
    <3>0. m \notin J!SweptRunning /\ register[m].asked = "no"
      BY <2>1 DEF J!SweptFinished, J!SweptRunning, J!Running, J!Finished, J!Outcome, J!Untouched
    <3>1. J!Swept(m) = J!NoEntry /\ register[m].asked = "no"
      BY <2>1, <3>0 DEF J!Swept
    <3>2. QED
      BY <3>1 DEF J!NoEntry, J!Entry, J!Lease
  <2>2. CASE m \in J!SweptRunning
    <3>1. m \notin J!SweptFinished /\ register[m].standing = "running"
      BY <2>2 DEF J!SweptFinished, J!SweptRunning, J!Running, J!Finished, J!Outcome
    <3>2. J!Swept(m) = [register[m] EXCEPT !.standing = "ended", !.asked = "no"]
      BY <2>2, <3>1 DEF J!Swept
    <3>3. QED
      BY <2>0, <3>1, <3>2 DEF J!Entry, J!Outcome
  <2>3. CASE m \notin J!SweptFinished /\ m \notin J!SweptRunning
    <3>1. J!Swept(m) = [register[m] EXCEPT !.asked = "no"]
      BY <2>3 DEF J!Swept
    <3>2. QED
      BY <2>0, <3>1 DEF J!Entry
  <2>4. QED
    BY <2>1, <2>2, <2>3
<1>3. ASSUME NEW t \in J!Task PROVE J!Abort(t) \in J!Task /\ (J!Abort(t).at = "none" <=> t.at = "none")
  <2>1. CASE t.at \in {"suspended", "queued"}
    BY <2>1 DEF J!Abort, J!Over, J!NoTask, J!Task, J!Outcome
  <2>2. CASE t.at \in {"polled", "landed"}
    <3>1. J!Abort(t) = [t EXCEPT !.handle = "aborted"]
      BY <2>2 DEF J!Abort
    <3>2. QED
      BY <3>1 DEF J!Task
  <2>3. CASE t.at \notin {"suspended", "queued", "polled", "landed"}
    BY <2>3 DEF J!Abort
  <2>4. QED
    BY <2>1, <2>2, <2>3
<1>4. ASSUME NEW m \in Send PROVE task'[m] \in J!Task /\ (task'[m].at = "none" <=> task[m].at = "none")
  BY <1>0, <1>1, <1>3
<1>5. register' \in [Send -> J!Entry] /\ task' \in [Send -> J!Task]
  BY <1>1, <1>2, <1>4
<1>6. QED
  BY <1>0, <1>1, <1>2, <1>4, <1>5 DEF J!TypeOK

\* A job begins under its own name, asked about; the other names go only to make room.
LEMMA BeginStep ==
    ASSUME J!TypeOK, NEW n \in Send, NEW l \in J!Lease, J!Begin(n, l)
    PROVE  /\ J!TypeOK' /\ task[n].at = "none" /\ task'[n].at # "none"
           /\ register'[n].standing # "absent" /\ register'[n].asked = "yes"
           /\ \A m \in Send : m # n => /\ task'[m] = task[m]
                                       /\ m \notin J!MakingRoom => register'[m] = register[m]
                                       /\ m \in J!MakingRoom => register'[m].standing = "absent"
<1>0. register \in [Send -> J!Entry] /\ task \in [Send -> J!Task] /\ begun \in Nat
  BY DEF J!TypeOK
<1>1. J!Begun(l) \in J!Entry /\ J!Begun(l).standing = "running" /\ J!Begun(l).asked = "yes"
  BY <1>0 DEF J!Begun, J!Entry
<1>2. J!NoEntry \in J!Entry /\ J!NoEntry.standing = "absent"
  BY DEF J!NoEntry, J!Entry, J!Lease
<1>3. /\ register' = [m \in Send |-> IF m = n THEN J!Begun(l)
                                     ELSE IF m \in J!MakingRoom THEN J!NoEntry ELSE register[m]]
      /\ task' = [task EXCEPT ![n].at = "suspended"] /\ task[n].at = "none" /\ begun' = begun + 1
  BY DEF J!Begin
<1>4. task' \in [Send -> J!Task] /\ task'[n].at = "suspended" /\ \A m \in Send : m # n => task'[m] = task[m]
  BY <1>0, <1>3 DEF J!Task
<1>5. register' \in [Send -> J!Entry]
  BY <1>0, <1>1, <1>2, <1>3
<1>6. J!TypeOK'
  BY <1>0, <1>3, <1>4, <1>5 DEF J!TypeOK
<1>7. QED
  BY <1>1, <1>2, <1>3, <1>4, <1>6

---------------------------------------------------------------------------
LEMMA InitCarried == ActionsInit => Carried /\ AnsweredIsRemembered /\ \A s \in Send : NameLasts(s)
<1>1. ASSUME ActionsInit PROVE Carried /\ AnsweredIsRemembered /\ \A s \in Send : NameLasts(s)
  <2>1. /\ asks \in [Send -> Attempt] /\ req = [s \in Send |-> Blank(s)] /\ held = {}
        /\ turn = 0 /\ work = [s \in Send |-> "none"] /\ slot = [s \in Send |-> "unset"]
        /\ register = [s \in Send |-> J!NoEntry] /\ begun = 0 /\ task = [s \in Send |-> J!NoTask]
        /\ clock = 0 /\ due = LEASE
    BY <1>1 DEF ActionsInit, Init, J!Init
  <2>2. TypeOK
    BY <2>1, BlankTyped DEF TypeOK, Work, Slot
  <2>3. J!NoEntry \in J!Entry /\ J!NoTask \in J!Task /\ J!NoEntry.standing = "absent"
        /\ J!NoTask.at = "none"
    BY DEF J!NoEntry, J!NoTask, J!Entry, J!Task, J!Lease, J!Outcome
  <2>4. J!TypeOK
    BY <2>1, <2>3 DEF J!TypeOK
  <2>5. clock \in Clock /\ due \in Nat
    BY <2>1, ActionsAssumption, ResendAssumption
  <2>6. ASSUME NEW s \in Send PROVE InStep(s) /\ Linked(s) /\ NameLasts(s)
    <3>1. req[s].at = "idle"
      BY <2>1 DEF Blank
    <3>2. QED
      BY <2>1, <2>3, <3>1 DEF InStep, Linked, NameLasts
  <2>7. AnsweredIsRemembered
    BY <2>1 DEF AnsweredIsRemembered
  <2>8. QED
    BY <2>2, <2>4, <2>5, <2>6, <2>7 DEF Carried
<1>2. QED
  BY <1>1

\* A request, its work and its job go on in step.
LEMMA CarriedIsKept ==
    ASSUME Carried, [ActionsNext]_allVars
    PROVE  Carried'
<1> USE ActionsAssumption, ResendAssumption
<1>0. clock \in Nat /\ due \in Nat /\ clock \in Clock
  BY DEF Carried
<1>1. ASSUME UNCHANGED jobs, UNCHANGED <<clock, due>>, TypeOK', \A t \in Send : InStep(t)',
             \A t \in Send : (work'[t] = "done" \/ slot'[t] = "answer")
                                <=> (work[t] = "done" \/ slot[t] = "answer")
      PROVE  Carried'
  <2>1. J!TypeOK'
    BY <1>1 DEF Carried, J!TypeOK, jobs
  <2>2. \A t \in Send : Linked(t)'
    BY <1>1 DEF Carried, Linked, jobs
  <2>3. clock' \in Clock /\ due' \in Nat
    BY <1>0, <1>1
  <2>4. QED
    BY <1>1, <2>1, <2>2, <2>3 DEF Carried
<1>2. ASSUME UNCHANGED vars, UNCHANGED clock, J!TypeOK', due' \in Nat,
             \A t \in Send : task'[t].at = "none" <=> task[t].at = "none"
      PROVE  Carried'
  <2>1. TypeOK'
    BY <1>2 DEF Carried, TypeOK, vars
  <2>2. ASSUME NEW t \in Send PROVE InStep(t)' /\ Linked(t)'
    BY <1>2 DEF Carried, InStep, Linked, vars
  <2>3. QED
    BY <1>0, <1>2, <2>1, <2>2 DEF Carried
<1>3. ASSUME NEW s \in Send, Arrive(s) PROVE Carried'
  <2>1. PICK by \in Bounds : Read(s, clock, by)
    BY <1>3 DEF Arrive
  <2>2. UNCHANGED jobs /\ UNCHANGED <<clock, due>> /\ work' = work /\ slot' = slot
    BY <1>3, <2>1 DEF Arrive, Read
  <2>3. TypeOK' /\ \A t \in Send : InStep(t)'
    BY <2>1, <2>2, ReadInStep
  <2>4. QED
    BY <1>1, <2>2, <2>3
<1>4. ASSUME NEW s \in Send, Claim(s), UNCHANGED <<jobs, clock, due>> PROVE Carried'
  <2>1. /\ TypeOK' /\ (\A t \in Send : InStep(t)') /\ slot' = slot /\ work[s] = "none"
        /\ (\A t \in Send : t # s => work'[t] = work[t]) /\ work'[s] # "done"
    BY <1>4, ClaimInStep
  <2>2. QED
    BY <1>1, <1>4, <2>1
<1>5. ASSUME NEW s \in Send, UNCHANGED <<jobs, clock, due>>,
             WorkFell(s) \/ Settle(s) \/ Answer(s) \/ Leave(s)
      PROVE  Carried'
  <2>1. TypeOK' /\ \A t \in Send : InStep(t)'
    BY <1>5, WorkInStep
  <2>2. /\ work \in [Send -> Work] /\ slot \in [Send -> Slot] /\ slot' \in [Send -> Slot]
        /\ \A t \in Send : InStep(t)
    BY <2>1 DEF Carried, TypeOK
  <2>3. ASSUME NEW t \in Send
        PROVE  (work'[t] = "done" \/ slot'[t] = "answer") <=> (work[t] = "done" \/ slot[t] = "answer")
    <3>1. CASE WorkFell(s)
      BY <2>2, <3>1 DEF WorkFell
    <3>2. CASE Forget(s)
      BY <2>2, <3>2 DEF Forget
    <3>3. CASE Fill(s)
      BY <2>2, <3>3 DEF Fill, InStep
    <3>4. CASE Answer(s) \/ Leave(s)
      BY <3>4 DEF Answer, Leave
    <3>5. QED
      BY <1>5, <3>1, <3>2, <3>3, <3>4 DEF Settle
  <2>4. QED
    BY <1>1, <1>5, <2>1, <2>3
<1>6. ASSUME NEW s \in Send, CarryingOut(s) PROVE Carried'
  <2>1. PICK l \in J!Lease : J!Begin(s, l)
    BY <1>6 DEF CarryingOut
  <2>2. WorkDone(s) /\ clock' = clock /\ due' = due
    BY <1>6 DEF CarryingOut
  <2>3. TypeOK' /\ \A t \in Send : InStep(t)'
    BY <2>2, WorkInStep
  <2>4. /\ J!TypeOK' /\ task'[s].at # "none"
        /\ \A m \in Send : m # s => task'[m] = task[m]
    BY <2>1, BeginStep DEF Carried
  <2>5. work'[s] = "done" /\ slot' = slot /\ \A t \in Send : t # s => work'[t] = work[t]
    BY <2>2 DEF WorkDone, Carried, TypeOK
  <2>6. ASSUME NEW t \in Send PROVE Linked(t)'
    BY <2>4, <2>5 DEF Carried, Linked
  <2>7. QED
    BY <1>0, <2>2, <2>3, <2>4, <2>6 DEF Carried
<1>7. ASSUME NEW s \in Send, Job(s) PROVE Carried'
  <2>1. UNCHANGED vars /\ clock' = clock /\ due' = due /\ (J!About(s) \/ J!Stop(s) \/ J!Step(s))
    BY <1>7 DEF Job
  <2>2. J!TypeOK' /\ \A t \in Send : task'[t].at = "none" <=> task[t].at = "none"
    BY <2>1, JobSteps DEF Carried
  <2>3. QED
    BY <1>0, <1>2, <2>1, <2>2
<1>8. CASE Sweeping
  <2>1. UNCHANGED vars /\ clock' = clock /\ due' \in Nat /\ J!Sweep
    BY <1>0, <1>8 DEF Sweeping
  <2>2. J!TypeOK' /\ \A t \in Send : task'[t].at = "none" <=> task[t].at = "none"
    BY <2>1, SweepStep DEF Carried
  <2>3. QED
    BY <1>2, <2>1, <2>2
<1>9. CASE Tick
  <2>1. UNCHANGED vars /\ UNCHANGED jobs /\ clock' = clock + 1 /\ due' = due /\ clock' \in Clock
    BY <1>0, <1>9 DEF Tick
  <2>2. TypeOK' /\ J!TypeOK'
    BY <2>1 DEF Carried, TypeOK, J!TypeOK, vars, jobs
  <2>3. ASSUME NEW t \in Send PROVE InStep(t)' /\ Linked(t)'
    <3>1. req[t].now \in Nat
      BY DEF Carried, TypeOK, Request
    <3>2. QED
      BY <1>0, <2>1, <3>1 DEF Carried, InStep, Linked, vars, jobs
  <2>4. QED
    BY <1>0, <2>1, <2>2, <2>3 DEF Carried
<1>10. CASE UNCHANGED allVars
  <2>1. UNCHANGED vars /\ J!TypeOK' /\ clock' = clock /\ due' = due /\ task' = task
    BY <1>10 DEF allVars, Carried, J!TypeOK, jobs
  <2>2. QED
    BY <1>0, <1>2, <2>1
<1>11. ASSUME NEW s \in Send, Keyed(s) \/ Answered(s) \/ Settled(s) PROVE Carried'
  BY <1>4, <1>5, <1>11 DEF Keyed, Answered, Settled
<1>12. QED
  BY <1>3, <1>6, <1>7, <1>8, <1>9, <1>10, <1>11 DEF ActionsNext

\* A request that reads the clock in time, its work, its slot and its job agree on how far
\* it is, for any sends, settings and bounds (again.rs, jobs.rs).
THEOREM ActionsAreCarried == ActionsSpec => []Carried
<1>1. ActionsInit => Carried
  BY InitCarried
<1>2. Carried /\ [ActionsNext]_allVars => Carried'
  BY CarriedIsKept
<1>3. QED
  BY <1>1, <1>2, PTL DEF ActionsSpec

---------------------------------------------------------------------------
\* No send that is about to claim its key finds its caller at the count.
NoRoomMade == \A s \in Send : req[s].at = "read" => Room(s) = {}

\* What was let go for its age is aged, and stays so.
LEMMA AnsweredIsKept ==
    ASSUME Carried, AnsweredIsRemembered, NoRoomMade, [ActionsNext]_allVars
    PROVE  AnsweredIsRemembered'
<1> USE ActionsAssumption, ResendAssumption
<1>0. /\ clock \in Nat /\ \A t \in Send : req[t].now \in Nat /\ req[t].by.within \in Within
      /\ held \in SUBSET Send
  BY DEF Carried, TypeOK, Request, Bounds
<1>1. \A t \in Send : InStep(t)
  BY DEF Carried
<1>2. ASSUME asks' = asks, held' \subseteq held,
             \A t \in Send : slot'[t] = "answer" => t \in held' \/ Aged(t)'
      PROVE  AnsweredIsRemembered'
  BY <1>0, <1>2 DEF AnsweredIsRemembered, SameKey
<1>3. ASSUME NEW t \in Send, Aged(t), clock' \in Nat, clock <= clock', req'[t].now = req[t].now PROVE Aged(t)'
  BY <1>0, <1>3 DEF Aged
<1>4. ASSUME NEW s \in Send, Arrive(s) PROVE AnsweredIsRemembered'
  <2>1. PICK by \in Bounds : Read(s, clock, by)
    BY <1>4 DEF Arrive
  <2>2. /\ asks' = asks /\ held' = held /\ slot' = slot /\ clock' = clock
        /\ \A t \in Send : t # s => req'[t] = req[t]
    BY <1>4, <2>1 DEF Arrive, Read, Carried, TypeOK
  <2>3. slot[s] = "unset"
    BY <1>1, <2>1 DEF Read, InStep
  <2>4. ASSUME NEW t \in Send, slot'[t] = "answer" PROVE t \in held' \/ Aged(t)'
    <3>1. t # s
      BY <2>2, <2>3, <2>4
    <3>2. t \in held \/ Aged(t)
      BY <2>2, <2>4 DEF AnsweredIsRemembered
    <3>3. QED
      BY <1>0, <1>3, <2>2, <3>1, <3>2
  <2>5. QED
    BY <1>2, <2>2, <2>4
<1>5. ASSUME NEW s \in Send, Claim(s), UNCHANGED <<jobs, clock, due>> PROVE AnsweredIsRemembered'
  <2>1. /\ req[s].at = "read" /\ work[s] = "none" /\ slot' = slot /\ asks' = asks
        /\ \A t \in Send : t # s => req'[t] = req[t]
        /\ \/ held' = Kept(s)
           \/ /\ held' = (Kept(s) \ Room(s)) \cup {s}
              /\ \A t \in Kept(s) : ~SameKey(s, t)
    BY <1>5, ClaimInStep
  <2>2. Room(s) = {} /\ Kept(s) \subseteq held
    BY <2>1 DEF NoRoomMade, Kept
  <2>3. ASSUME NEW t \in Send, slot'[t] = "answer" PROVE t \in held' \/ Aged(t)'
    <3>1. t # s
      BY <1>1, <2>1, <2>3 DEF InStep
    <3>2. CASE t \in Kept(s)
      BY <2>1, <2>2, <3>2
    <3>3. CASE t \in held \ Kept(s)
      <4>1. req[s].now - req[t].now >= req[s].by.within
        BY <3>3 DEF Kept, Lapsed
      <4>2. req[s].now <= clock
        BY <1>1, <2>1 DEF InStep
      <4>0. /\ req[s].now \in Nat /\ req[t].now \in Nat
            /\ req[s].by.within \in Within /\ req[s].by.within \in Nat
        BY <1>0
      <4>3. clock - req[t].now >= req[s].by.within /\ req[s].by.within \in Within
        BY <1>0, <4>0, <4>1, <4>2
      <4>4. Aged(t)
        BY <4>3 DEF Aged
      <4>5. QED
        BY <1>0, <1>3, <1>5, <2>1, <3>1, <4>4
    <3>4. CASE t \notin held
      <4>1. Aged(t)
        BY <2>1, <2>3, <3>4 DEF AnsweredIsRemembered
      <4>2. QED
        BY <1>0, <1>3, <1>5, <2>1, <3>1, <4>1
    <3>5. QED
      BY <3>2, <3>3, <3>4
  <2>4. ASSUME NEW a \in held', NEW b \in held', SameKey(a, b)' PROVE a = b
    <3>1. SameKey(a, b) /\ SameKey(b, a)
      BY <2>1, <2>4 DEF SameKey
    <3>2. a \in Kept(s) \cup {s} /\ b \in Kept(s) \cup {s}
      BY <2>1
    <3>3. CASE a \in Kept(s) /\ b \in Kept(s)
      BY <2>2, <3>1, <3>3 DEF AnsweredIsRemembered
    <3>4. CASE a \notin Kept(s) \/ b \notin Kept(s)
      BY <2>1, <3>1, <3>2, <3>4
    <3>5. QED
      BY <3>3, <3>4
  <2>5. QED
    BY <2>3, <2>4 DEF AnsweredIsRemembered
<1>6. ASSUME NEW s \in Send, clock' = clock,
             WorkDone(s) \/ WorkFell(s) \/ Settle(s) \/ Answer(s) \/ Leave(s)
      PROVE  AnsweredIsRemembered'
  <2>1. /\ TypeOK' /\ asks' = asks /\ held' \subseteq held
        /\ \A t \in Send : InStep(t)' /\ req'[t].now = req[t].now
        /\ \A t \in Send : t \in held \ held' => work[t] = "fell" /\ slot'[t] = slot[t]
    BY <1>6, WorkInStep
  <2>2. ASSUME NEW t \in Send, slot'[t] = "answer" PROVE t \in held \/ Aged(t)
    <3>1. CASE slot[t] = "answer"
      BY <3>1 DEF AnsweredIsRemembered
    <3>2. CASE slot[t] # "answer"
      <4>1. t = s /\ work[s] = "done"
        BY <1>6, <2>2, <3>2 DEF WorkDone, WorkFell, Settle, Forget, Fill, Answer, Leave,
                                Carried, TypeOK
      <4>2. QED
        BY <1>1, <4>1 DEF InStep
    <3>3. QED
      BY <3>1, <3>2
  <2>3. ASSUME NEW t \in Send, slot'[t] = "answer" PROVE t \in held' \/ Aged(t)'
    <3>1. t \in held \ held' => FALSE
      BY <1>1, <2>1, <2>3 DEF InStep
    <3>2. QED
      BY <1>0, <1>3, <1>6, <2>1, <2>2, <2>3, <3>1
  <2>4. QED
    BY <1>2, <2>1, <2>3
<1>7. ASSUME UNCHANGED vars, clock' \in Nat, clock <= clock' PROVE AnsweredIsRemembered'
  <2>1. ASSUME NEW t \in Send, slot'[t] = "answer" PROVE t \in held' \/ Aged(t)'
    BY <1>3, <1>7, <2>1 DEF AnsweredIsRemembered, vars
  <2>2. QED
    BY <1>2, <1>7, <2>1 DEF vars
<1>8. CASE Tick \/ Sweeping \/ UNCHANGED allVars \/ \E s \in Send : Job(s)
  <2>1. UNCHANGED vars /\ (clock' = clock \/ clock' = clock + 1)
    BY <1>8 DEF Tick, Sweeping, allVars, Job
  <2>2. QED
    BY <1>0, <1>7, <2>1
<1>9. ASSUME NEW s \in Send, Keyed(s) \/ Answered(s) \/ Settled(s) \/ CarryingOut(s)
      PROVE  AnsweredIsRemembered'
  BY <1>5, <1>6, <1>9 DEF Keyed, Answered, Settled, CarryingOut
<1>10. QED
  BY <1>4, <1>8, <1>9 DEF ActionsNext

\* As long as no caller is at its count of remembered attempts, a key begins a second job
\* only once an attempt it was begun for before has been remembered for a window, for any
\* number of sends, whatever the settings are changed to in between and in whatever order
\* the sends read the clock and claim (Answered::claim, Carrying::out).
THEOREM SecondJobWaitsAWindow == ActionsSpec /\ []NoRoomMade => []JobsAreAWindowApart
<1>1. ActionsInit => Carried /\ AnsweredIsRemembered
  BY InitCarried
<1>2. Carried /\ AnsweredIsRemembered /\ NoRoomMade /\ [ActionsNext]_allVars => (Carried /\ AnsweredIsRemembered)'
  BY CarriedIsKept, AnsweredIsKept
<1>3. Carried /\ AnsweredIsRemembered => JobsAreAWindowApart
  <2>1. SUFFICES ASSUME Carried, AnsweredIsRemembered, NEW s \in Send, NEW t \in Send,
                        s # t, SameKey(s, t), task[s].at # "none", task[t].at # "none"
                 PROVE  Aged(s) \/ Aged(t)
    BY DEF JobsAreAWindowApart
  <2>2. ASSUME NEW u \in Send, task[u].at # "none" PROVE u \in held \/ Aged(u)
    BY <2>1, <2>2 DEF Carried, Linked, InStep, AnsweredIsRemembered
  <2>3. QED
    BY <2>1, <2>2 DEF AnsweredIsRemembered
<1>4. QED
  BY <1>1, <1>2, <1>3, PTL DEF ActionsSpec

\* The cardinality of the jobs register's module is the one the library speaks of.
LEMMA OneCardinality == \A S : J!Cardinality(S) = Cardinality(S)
BY DEF J!Cardinality, Cardinality

\* Fewer sends than the least count that may be set: nobody's room is made.
LEMMA FewNeedNoRoom ==
    ASSUME Carried, IsFiniteSet(Send), \A a \in AtMost : Cardinality(Send) <= a
    PROVE  NoRoomMade
<1>1. SUFFICES ASSUME NEW s \in Send, req[s].at = "read", NEW t \in Room(s) PROVE FALSE
  BY DEF NoRoomMade
<1> DEFINE own == {u \in Kept(s) : asks[u].who = asks[s].who}
           older == {u \in own : ~InFlight(u) /\ req[u].turn < req[t].turn}
<1>2. req[s].by.atMost \in AtMost /\ req[s].by.atMost \in Nat
  BY ActionsAssumption, ResendAssumption DEF Carried, TypeOK, Request, Bounds
<1>3. s \notin held /\ held \subseteq Send
  BY <1>1 DEF Carried, InStep, TypeOK
<1>4. own \subseteq Send \ {s} /\ older \subseteq Send
  BY <1>3 DEF Kept
<1>5. Cardinality(older) < Cardinality(own) + 1 - req[s].by.atMost
  <2>1. Cardinality(older) < Cardinality(own) + 1 - req[s].by.atMost
    BY <1>1 DEF Room
  <2> HIDE DEF own, older
  <2>2. QED
    BY <2>1, OneCardinality
<1> HIDE DEF own, older
<1>6. IsFiniteSet(Send \ {s}) /\ Cardinality(Send \ {s}) = Cardinality(Send) - 1
  BY FS_RemoveElement
<1>7. IsFiniteSet(own) /\ Cardinality(own) <= Cardinality(Send \ {s})
  BY <1>4, <1>6, FS_Subset
<1>8. IsFiniteSet(older)
  BY <1>4, FS_Subset
<1>9. Cardinality(older) \in Nat /\ Cardinality(own) \in Nat /\ Cardinality(Send) \in Nat
  BY <1>7, <1>8, FS_CardinalityType
<1>10. Cardinality(Send) <= req[s].by.atMost
  BY <1>2
<1>11. QED
  BY <1>2, <1>5, <1>6, <1>7, <1>9, <1>10

\* In particular it does so with no more sends than the operator has remembered.
THEOREM FewSendsWaitAWindow ==
    ASSUME IsFiniteSet(Send), \A a \in AtMost : Cardinality(Send) <= a
    PROVE  ActionsSpec => []JobsAreAWindowApart
<1>1. Carried => NoRoomMade
  BY FewNeedNoRoom
<1>2. QED
  BY <1>1, ActionsAreCarried, SecondJobWaitsAWindow, PTL

---------------------------------------------------------------------------
\* A name is held for a lease: it was asked about, by the send that began it, since the
\* last sweep, or the next sweep is a lease from that send.
LEMMA NamesAreKept ==
    ASSUME Carried, \A s \in Send : NameLasts(s), J!MakingRoom = {}, [ActionsNext]_allVars
    PROVE  \A s \in Send : NameLasts(s)'
<1> USE ActionsAssumption, ResendAssumption
<1>0. /\ clock \in Nat /\ due \in Nat /\ LEASE \in Nat
      /\ \A t \in Send : req[t].now \in Nat /\ InStep(t) /\ Linked(t)
      /\ register \in [Send -> J!Entry]
  BY DEF Carried, TypeOK, Request, J!TypeOK
<1>1. ASSUME NEW t \in Send, task[t].at # "none"
      PROVE  work[t] # "none" /\ req[t].now <= clock /\ req[t].at \notin {"idle", "read"}
  BY <1>0, <1>1 DEF InStep, Linked
<1>2. ASSUME NEW t \in Send, register'[t] = register[t], task'[t] = task[t], due' = due,
             clock' = clock \/ clock' = clock + 1, task[t].at # "none" => req'[t].now = req[t].now
      PROVE  NameLasts(t)'
  <2>1. CASE task[t].at = "none"
    BY <1>2, <2>1 DEF NameLasts
  <2>2. CASE task[t].at # "none"
    BY <1>0, <1>2, <2>2 DEF NameLasts
  <2>3. QED
    BY <2>1, <2>2
<1>3. ASSUME NEW s \in Send, Arrive(s), NEW t \in Send PROVE NameLasts(t)'
  <2>1. PICK by \in Bounds : Read(s, clock, by)
    BY <1>3 DEF Arrive
  <2>2. /\ UNCHANGED <<jobs, clock, due>> /\ req[s].at = "idle"
        /\ \A u \in Send : u # s => req'[u] = req[u]
    BY <1>3, <2>1 DEF Arrive, Read, Carried, TypeOK
  <2>3. QED
    BY <1>1, <1>2, <2>2 DEF jobs
<1>4. ASSUME NEW s \in Send, Claim(s), UNCHANGED <<jobs, clock, due>>, NEW t \in Send
      PROVE  NameLasts(t)'
  <2>1. req[s].at = "read" /\ \A u \in Send : u # s => req'[u] = req[u]
    BY <1>4, ClaimInStep
  <2>2. QED
    BY <1>1, <1>2, <1>4, <2>1 DEF jobs
<1>5. ASSUME NEW s \in Send, UNCHANGED <<jobs, clock, due>>, NEW t \in Send,
             WorkFell(s) \/ Settle(s) \/ Answer(s) \/ Leave(s)
      PROVE  NameLasts(t)'
  <2>1. req'[t].now = req[t].now
    BY <1>5, WorkInStep
  <2>2. QED
    BY <1>2, <1>5, <2>1 DEF jobs
<1>6. ASSUME NEW s \in Send, CarryingOut(s), NEW t \in Send PROVE NameLasts(t)'
  <2>1. PICK l \in J!Lease : J!Begin(s, l)
    BY <1>6 DEF CarryingOut
  <2>2. WorkDone(s) /\ clock' = clock /\ due' = due /\ req' = req
    BY <1>6 DEF CarryingOut, WorkDone
  <2>3. /\ task'[s].at # "none" /\ register'[s].standing # "absent" /\ register'[s].asked = "yes"
        /\ \A m \in Send : m # s => task'[m] = task[m] /\ register'[m] = register[m]
    BY <2>1, BeginStep DEF Carried
  <2>4. CASE t = s
    BY <2>3, <2>4 DEF NameLasts
  <2>5. CASE t # s
    BY <1>2, <2>2, <2>3, <2>5
  <2>6. QED
    BY <2>4, <2>5
<1>7. ASSUME NEW s \in Send, Job(s), NEW t \in Send PROVE NameLasts(t)'
  <2>1. UNCHANGED vars /\ clock' = clock /\ due' = due /\ (J!About(s) \/ J!Stop(s) \/ J!Step(s))
    BY <1>7 DEF Job
  <2>2. /\ register'[t].standing = "absent" <=> register[t].standing = "absent"
        /\ task'[t].at = "none" <=> task[t].at = "none"
        /\ register'[t].asked = "no" => register[t].asked = "no"
    BY <2>1, JobSteps DEF Carried
  <2>3. req' = req
    BY <2>1 DEF vars
  <2>4. QED
    BY <2>1, <2>2, <2>3 DEF NameLasts
<1>8. ASSUME Sweeping, NEW t \in Send PROVE NameLasts(t)'
  <2>1. req' = req /\ clock' = clock /\ due' = clock + LEASE /\ J!Sweep /\ clock >= due
    BY <1>8 DEF Sweeping, vars
  <2>2. /\ register[t].standing = "absent" => register'[t].standing = "absent"
        /\ register'[t].standing = "absent" => register[t].standing = "absent" \/ register[t].asked = "no"
        /\ task'[t].at = "none" <=> task[t].at = "none"
    BY <2>1, SweepStep DEF Carried
  <2>3. CASE task[t].at = "none"
    BY <2>2, <2>3 DEF NameLasts
  <2>4. CASE task[t].at # "none"
    <3>1. req[t].now <= clock
      BY <1>1, <2>4
    <3>2. due' >= req'[t].now + LEASE
      BY <1>0, <2>1, <3>1
    <3>3. register'[t].standing # "absent" \/ clock' >= req'[t].now + LEASE
      <4>1. CASE register[t].standing = "absent"
        BY <2>1, <2>4, <4>1 DEF NameLasts
      <4>2. CASE register[t].standing # "absent" /\ register[t].asked = "no"
        BY <1>0, <2>1, <4>2 DEF NameLasts
      <4>3. QED
        BY <2>2, <4>1, <4>2
    <3>4. QED
      BY <2>2, <2>4, <3>2, <3>3 DEF NameLasts
  <2>5. QED
    BY <2>3, <2>4
<1>9. ASSUME Tick \/ UNCHANGED allVars, NEW t \in Send PROVE NameLasts(t)'
  <2>1. UNCHANGED vars /\ UNCHANGED jobs /\ due' = due /\ (clock' = clock \/ clock' = clock + 1)
    BY <1>9 DEF Tick, allVars
  <2>2. QED
    BY <1>2, <2>1 DEF vars, jobs
<1>10. ASSUME NEW s \in Send, Keyed(s) \/ Answered(s) \/ Settled(s), NEW t \in Send PROVE NameLasts(t)'
  BY <1>4, <1>5, <1>10 DEF Keyed, Answered, Settled
<1>11. QED
  BY <1>3, <1>6, <1>7, <1>8, <1>9, <1>10 DEF ActionsNext

\* With no window longer than the lease, and as long as the register of jobs is not at its
\* ceiling, the job's name an attempt was answered with can be redeemed for as long as the
\* attempt is remembered (Held::lapsed against Jobs::sweep).
THEOREM NamesOutliveAttempts ==
    ASSUME \A w \in Within : w <= LEASE
    PROVE  ActionsSpec /\ [](J!MakingRoom = {}) => []RememberedIsRedeemable
<1> DEFINE Names == \A s \in Send : NameLasts(s)
<1>1. ActionsInit => Carried /\ Names
  BY InitCarried
<1>2. Carried /\ Names /\ J!MakingRoom = {} /\ [ActionsNext]_allVars => (Carried /\ Names)'
  BY CarriedIsKept, NamesAreKept
<1>3. Carried /\ Names => RememberedIsRedeemable
  <2>1. SUFFICES ASSUME Carried, Names, NEW s \in held, slot[s] = "answer",
                        NEW w \in Within, clock - req[s].now < w
                 PROVE  s \in J!Held
    BY DEF RememberedIsRedeemable
  <2>2. s \in Send /\ clock \in Nat /\ req[s].now \in Nat /\ w \in Nat /\ LEASE \in Nat /\ w <= LEASE
    BY <2>1, ActionsAssumption, ResendAssumption DEF Carried, TypeOK, Request
  <2>3. task[s].at # "none"
    BY <2>1, <2>2 DEF Carried, Linked
  <2>4. ~(clock >= req[s].now + LEASE)
    BY <2>1, <2>2
  <2>5. QED
    BY <2>1, <2>2, <2>3, <2>4 DEF NameLasts, J!Held
<1> HIDE DEF Names
<1>4. QED
  BY <1>1, <1>2, <1>3, PTL DEF ActionsSpec

\* In particular with fewer sends than the register has room for.
THEOREM FewNamesOutliveAttempts ==
    ASSUME IsFiniteSet(Send), Cardinality(Send) < FINISHED_AT_MOST, \A w \in Within : w <= LEASE
    PROVE  ActionsSpec => []RememberedIsRedeemable
<1>1. Carried => J!MakingRoom = {}
  <2>1. SUFFICES ASSUME Carried, NEW n \in J!MakingRoom PROVE FALSE
    OBVIOUS
  <2> DEFINE newer == {m \in J!Finished : register[m].begun > register[n].begun}
  <2>2. Cardinality(newer) >= FINISHED_AT_MOST - 1 /\ n \in J!Finished
    <3>1. J!Cardinality(newer) >= FINISHED_AT_MOST - 1 /\ n \in J!Finished
      BY <2>1 DEF J!MakingRoom
    <3> HIDE DEF newer
    <3>2. QED
      BY <3>1, OneCardinality
  <2>3. n \in Send
    BY <2>2 DEF J!Finished
  <2>4. register[n].begun \in Nat
    BY <2>1, <2>3, ActionsAssumption, ResendAssumption DEF Carried, J!TypeOK, J!Entry
  <2>5. newer \subseteq Send \ {n}
    BY <2>4 DEF J!Finished
  <2> HIDE DEF newer
  <2>6. IsFiniteSet(Send \ {n}) /\ Cardinality(Send \ {n}) = Cardinality(Send) - 1
    BY <2>3, FS_RemoveElement
  <2>7. IsFiniteSet(newer) /\ Cardinality(newer) <= Cardinality(Send \ {n})
    BY <2>5, <2>6, FS_Subset
  <2>8. Cardinality(newer) \in Nat /\ Cardinality(Send) \in Nat /\ FINISHED_AT_MOST \in Nat
    BY <2>7, FS_CardinalityType, ActionsAssumption, ResendAssumption
  <2>9. QED
    BY <2>2, <2>6, <2>7, <2>8
<1>2. QED
  BY <1>1, ActionsAreCarried, NamesOutliveAttempts, PTL

---------------------------------------------------------------------------
\* An action end to end does with its key what Resend says: whatever is proved of resent
\* sends holds of it (actions.rs `taken' through again.rs).
THEOREM ActionsAreResent == ActionsSpec => Spec
<1>1. ActionsInit => Init
  BY DEF ActionsInit
<1>2. Carried /\ [ActionsNext]_allVars => [Next]_(vars)
  <2>1. SUFFICES ASSUME Carried, [ActionsNext]_allVars PROVE [Next]_(vars)
    OBVIOUS
  <2>2. ASSUME NEW s \in Send, Arrive(s) PROVE Next
    BY <2>1, <2>2 DEF Arrive, Next, Carried
  <2>3. ASSUME NEW s \in Send, Keyed(s) \/ Answered(s) \/ Settled(s) \/ CarryingOut(s) PROVE Next
    BY <2>3 DEF Keyed, Answered, Settled, CarryingOut, Next, CarryOut
  <2>4. CASE Tick \/ Sweeping \/ UNCHANGED allVars \/ \E s \in Send : Job(s)
    BY <2>4 DEF Tick, Sweeping, allVars, Job, vars
  <2>5. QED
    BY <2>1, <2>2, <2>3, <2>4 DEF ActionsNext
<1>3. QED
  BY <1>1, <1>2, ActionsAreCarried, PTL DEF ActionsSpec, Spec

\* So, end to end: an action is never run beside itself, nobody waits for nothing, and a
\* claim spares what is in flight and what is another caller's (`taken', `Carrying::out').
THEOREM ActionsRunOnce ==
    ActionsSpec => [](NeverBeside /\ WaitsOnWork) /\ OthersAreSpared
BY ActionsAreResent, NeverRunsBeside, NobodyWaitsForNothing, ClaimsSpareOthers, PTL

\* And with its job what Jobs says (actions.rs `Carrying::out' through jobs.rs).
THEOREM ActionsAreJobs == ActionsSpec => J!Spec
<1>1. ActionsInit => J!Init
  BY DEF ActionsInit
<1>2. [ActionsNext]_allVars => [J!Next]_(J!vars)
  <2>1. SUFFICES ASSUME [ActionsNext]_allVars PROVE [J!Next]_(J!vars)
    OBVIOUS
  <2>2. ASSUME NEW s \in Send, Job(s) \/ CarryingOut(s) PROVE J!Next
    BY <2>2 DEF Job, CarryingOut, J!Next
  <2>3. CASE Sweeping
    BY <2>3 DEF Sweeping, J!Next
  <2>4. CASE Tick \/ UNCHANGED allVars \/ \E s \in Send : Arrive(s) \/ Keyed(s) \/ Answered(s) \/ Settled(s)
    BY <2>4 DEF Tick, allVars, Arrive, Keyed, Answered, Settled, jobs, J!vars
  <2>5. QED
    BY <2>1, <2>2, <2>3, <2>4 DEF ActionsNext
<1>3. QED
  BY <1>1, <1>2, PTL DEF ActionsSpec, J!Spec
=============================================================================
