------------------------------ MODULE Resend ------------------------------
(***************************************************************************)
(* An action sent again under the key it was first sent with               *)
(* (lemonfiber-api/src/actions/again.rs and the keyed half of `taken' in   *)
(* actions.rs).                                                            *)
(*                                                                         *)
(* Several sends may carry one key.  The first to claim it runs the        *)
(* action; the others wait on the slot the first one fills.  An attempt is *)
(* named here by the send that made it, so the slot of send s is slot[s]   *)
(* and what is remembered is a set of sends.                               *)
(***************************************************************************)
EXTENDS Integers, FiniteSets

CONSTANTS
    Send,     \* the requests that carry a key
    Caller,   \* who sends them
    Key,      \* the keys they carry
    Asked,    \* what they ask for: the digest of action and arguments
    Within,   \* the windows the setting may name
    AtMost,   \* the counts the setting may name
    Clock     \* bound: what the wall clock may read

ASSUME ResendAssumption ==
    /\ Within \subseteq Nat \ {0}
    /\ AtMost \subseteq Nat \ {0}
    /\ Clock \subseteq Nat
    /\ Within # {} /\ AtMost # {} /\ Clock # {}

VARIABLES
    asks,    \* send -> who sends it, under which key, asking for what
    req,     \* send -> how far the request got
    held,    \* the attempts remembered, each by its first send
    turn,    \* how many attempts have been remembered, which orders them
    work,    \* send -> where the work of its attempt is
    slot     \* send -> what its attempt was answered with

vars == <<asks, req, held, turn, work, slot>>

Attempt == [who : Caller, key : Key, asked : Asked]
Bounds == [within : Within, atMost : AtMost]

\* A request: where it is, the clock and the bounds as it read them, the attempt
\* it waits on, and its place in the queue if it is a first send.
Request ==
    [at : {"idle", "read", "waiting", "answered", "refused", "gone"},
     now : Clock, by : Bounds, on : Send, turn : Nat]

\* "fell": stopped or panicked; "forgotten": and its attempt let go.
Work == {"none", "going", "done", "fell", "forgotten", "settled"}
Slot == {"unset", "answer", "unanswered"}

TypeOK ==
    /\ asks \in [Send -> Attempt]
    /\ req \in [Send -> Request]
    /\ held \in SUBSET Send
    /\ turn \in Nat
    /\ work \in [Send -> Work]
    /\ slot \in [Send -> Slot]

\* A request that holds nothing: before it reads, and once it waits on another.
Blank(s) == [at |-> "idle", now |-> CHOOSE c \in Clock : TRUE,
             by |-> CHOOSE b \in Bounds : TRUE, on |-> s, turn |-> 0]

Init ==
    /\ asks \in [Send -> Attempt]
    /\ req = [s \in Send |-> Blank(s)]
    /\ held = {}
    /\ turn = 0
    /\ work = [s \in Send |-> "none"]
    /\ slot = [s \in Send |-> "unset"]

---------------------------------------------------------------------------
\* The request arrives; the wall clock and the settings file are read before the
\* lock is asked for.  The clock may have been set back, and the operator may have
\* changed either setting, since the send before.
Read(s, now, by) ==
    /\ req[s].at = "idle"
    /\ req' = [req EXCEPT ![s].at = "read", ![s].now = now, ![s].by = by]
    /\ UNCHANGED <<asks, held, turn, work, slot>>

SameKey(s, t) == asks[s].who = asks[t].who /\ asks[s].key = asks[t].key

InFlight(t) == slot[t] = "unset"

\* Mutant: the window ends one minute early.
LapsedEarly(t, s) == req[s].now - req[t].now >= req[s].by.within - 1

\* Whether the attempt t has been remembered as long as s says one is.  A clock
\* that has gone back reads as no time passed.
Lapsed(t, s) == req[s].now - req[t].now >= req[s].by.within

\* Mutant: age lets go of an attempt that is still being carried out.
KeptInFlightToo(s) == {t \in held : ~Lapsed(t, s)}

\* What is still remembered when s claims its key.
Kept(s) == {t \in held : InFlight(t) \/ ~Lapsed(t, s)}

\* making_room: the caller's own oldest answered attempts, as many as are over.
Room(s) ==
    LET own == {t \in Kept(s) : asks[t].who = asks[s].who}
    IN  {t \in own :
            /\ ~InFlight(t)
            /\ Cardinality({u \in own : ~InFlight(u) /\ req[u].turn < req[t].turn})
               < Cardinality(own) + 1 - req[s].by.atMost}

\* Answered::claim, the first send: remembered, and its work handed to the runtime.
ClaimFirst(s) ==
    /\ req[s].at = "read"
    /\ \A t \in Kept(s) : ~SameKey(s, t)
    /\ held' = (Kept(s) \ Room(s)) \cup {s}
    /\ turn' = turn + 1
    /\ req' = [req EXCEPT ![s] = [Blank(s) EXCEPT !.at = "waiting", !.now = req[s].now,
                                                  !.turn = turn + 1]]
    /\ work' = [work EXCEPT ![s] = "going"]
    /\ UNCHANGED <<asks, slot>>

\* Answered::claim, the same attempt sent again: it waits on the first one's slot.
ClaimAgain(s) ==
    /\ req[s].at = "read"
    /\ held' = Kept(s)
    /\ \E t \in Kept(s) :
        /\ SameKey(s, t) /\ asks[t].asked = asks[s].asked
        /\ req' = [req EXCEPT ![s] = [Blank(s) EXCEPT !.at = "waiting", !.on = t]]
    /\ UNCHANGED <<asks, turn, work, slot>>

\* Answered::claim, the key already names something else: refused.
ClaimOtherwise(s) ==
    /\ req[s].at = "read"
    /\ held' = Kept(s)
    /\ \E t \in Kept(s) : SameKey(s, t) /\ asks[t].asked # asks[s].asked
    /\ req' = [req EXCEPT ![s] = [Blank(s) EXCEPT !.at = "refused"]]
    /\ UNCHANGED <<asks, turn, work, slot>>

\* Carrying::out comes to an answer.
WorkDone(s) ==
    /\ work[s] = "going"
    /\ work' = [work EXCEPT ![s] = "done"]
    /\ UNCHANGED <<asks, req, held, turn, slot>>

\* Carrying::out falls over, having come to nothing.
WorkFell(s) ==
    /\ work[s] = "going"
    /\ work' = [work EXCEPT ![s] = "fell"]
    /\ UNCHANGED <<asks, req, held, turn, slot>>

\* Answered::settle, the half taken only for work that fell over: forgotten
\* under the lock, before anybody is told.
Forget(s) ==
    /\ work[s] = "fell"
    /\ held' = held \ {s}
    /\ work' = [work EXCEPT ![s] = "forgotten"]
    /\ UNCHANGED <<asks, req, turn, slot>>

\* Mutant: work that fell over fills no slot.
FillAnswersOnly(s) ==
    /\ work[s] = "done"
    /\ slot' = [slot EXCEPT ![s] = "answer"]
    /\ work' = [work EXCEPT ![s] = "settled"]
    /\ UNCHANGED <<asks, req, held, turn>>

\* Answered::settle: the slot is filled.
Fill(s) ==
    /\ work[s] \in {"done", "forgotten"}
    /\ slot' = [slot EXCEPT ![s] = IF work[s] = "done" THEN "answer" ELSE "unanswered"]
    /\ work' = [work EXCEPT ![s] = "settled"]
    /\ UNCHANGED <<asks, req, held, turn>>

\* The request's wait on the slot ends, and it is answered.
Answer(s) ==
    /\ req[s].at = "waiting"
    /\ slot[req[s].on] # "unset"
    /\ req' = [req EXCEPT ![s].at = "answered"]
    /\ UNCHANGED <<asks, held, turn, work, slot>>

\* The client stops listening, and the server drops the request.
Leave(s) ==
    /\ req[s].at \in {"read", "waiting"}
    /\ req' = [req EXCEPT ![s].at = "gone"]
    /\ UNCHANGED <<asks, held, turn, work, slot>>

Claim(s) == ClaimFirst(s) \/ ClaimAgain(s) \/ ClaimOtherwise(s)
CarryOut(s) == WorkDone(s) \/ WorkFell(s)
Settle(s) == Forget(s) \/ Fill(s)

Next ==
    \E s \in Send :
        \/ \E now \in Clock, by \in Bounds : Read(s, now, by)
        \/ Claim(s)
        \/ CarryOut(s)
        \/ Settle(s)
        \/ Answer(s)
        \/ Leave(s)

Spec == Init /\ [][Next]_vars

---------------------------------------------------------------------------
\* However sends, settings and the clock interleave, the action of one key is
\* never run beside itself (Held::in_flight, Answered::claim).
NeverBeside ==
    \A s, t \in Send :
        work[s] = "going" /\ work[t] = "going" /\ SameKey(s, t) => s = t

\* A caller's attempts are let go by another caller's send only for their age,
\* and never while they are being carried out (making_room).
OthersAreSpared ==
    [][\A s \in Send : Claim(s) => \A t \in held \ held' :
        /\ ~InFlight(t)
        /\ asks[t].who # asks[s].who => Lapsed(t, s)]_vars

\* An answer that was not reached is not given again: what fell over is no
\* longer remembered when it is told (Answered::settle).
UnansweredIsForgotten == \A s \in held : slot[s] # "unanswered"
=============================================================================
