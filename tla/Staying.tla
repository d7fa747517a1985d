------------------------------ MODULE Staying ------------------------------
(***************************************************************************)
(* A stream held open goes on being asked whether whoever opened it may    *)
(* still be said to (lemonfiber-api/src/events.rs, Staying::still and      *)
(* held; Listening::next in events/live.rs for the beat).                  *)
(*                                                                         *)
(* The answer is asked for at most once a RECHECKED_EVERY, and only when   *)
(* there is something to say.  How admission comes to it is Sessions; here *)
(* it says what held at some moment since it was asked.  Time is counted   *)
(* in ticks.                                                               *)
(***************************************************************************)
EXTENDS Integers

CONSTANTS
    BEAT,      \* the longest the stream may say nothing
    ASKING,    \* bound: how long admission may take to answer
    CLOCK_MAX  \* bound: the last tick of the clock

ASSUME StayingAssumption ==
    BEAT \in Nat \ {0} /\ ASKING \in Nat /\ CLOCK_MAX \in Nat

RECHECKED_EVERY == BEAT

VARIABLES
    clock,    \* the steady clock
    stream,   \* "quiet": waiting for something to say; "asking"; or "over"
    since,    \* when the wait began
    asked,    \* when the question was asked
    vouched,  \* until when the last yes stands
    good,     \* "yes" while admission would say so, "no" otherwise
    lasting,  \* "no" once the credential has run out, which is for good
    ended,    \* since when admission would not, or the credential has run out
    restored  \* since when it would again

vars == <<clock, stream, since, asked, vouched, good, lasting, ended, restored>>

Never == -1

TypeOK ==
    /\ clock \in Nat
    /\ stream \in {"quiet", "asking", "over"}
    /\ since \in Nat /\ asked \in Nat /\ vouched \in Nat /\ ended \in Nat
    /\ good \in {"yes", "no"} /\ lasting \in {"yes", "no"}
    /\ restored \in Nat \cup {Never}

\* Admitted a moment ago, and not vouched for yet.
Init ==
    /\ clock = 0
    /\ stream = "quiet"
    /\ since = 0 /\ asked = 0 /\ vouched = 0
    /\ good = "yes" /\ lasting = "yes"
    /\ ended = 0 /\ restored = Never

---------------------------------------------------------------------------
\* Time passes, as long as the runtime's timers are kept: the beat is due BEAT
\* after the wait began, and admission answers within ASKING.
Passes ==
    /\ clock < CLOCK_MAX
    /\ stream = "quiet" => clock < since + BEAT
    /\ stream = "asking" => clock < asked + ASKING
    /\ clock' = clock + 1

Tick == Passes /\ UNCHANGED <<stream, since, asked, vouched, good, lasting, ended, restored>>

\* A session runs out, whether or not it was being admitted.
Expire ==
    /\ Passes
    /\ lasting = "yes"
    /\ lasting' = "no"
    /\ good' = "no"
    /\ ended' = clock'
    /\ UNCHANGED <<stream, since, asked, vouched, restored>>

\* A password is changed, a member is removed, or somebody who confirms credentials
\* cannot be reached.
Void ==
    /\ good = "yes"
    /\ good' = "no"
    /\ ended' = clock
    /\ UNCHANGED <<clock, stream, since, asked, vouched, lasting, restored>>

\* Admission would say yes again.
Restore ==
    /\ good = "no" /\ lasting = "yes"
    /\ good' = "yes"
    /\ restored' = clock
    /\ UNCHANGED <<clock, stream, since, asked, vouched, lasting, ended>>

\* Something was said, and the wait begins again.
Says == since' = clock /\ stream' = "quiet"

\* Mutant: a yes stands a tick longer.
StillVouchedLonger == clock <= vouched

StillVouched == clock < vouched

\* Listening::next has something, or the beat: said at once under a yes that stands.
SayVouched ==
    /\ stream = "quiet"
    /\ StillVouched
    /\ Says
    /\ UNCHANGED <<clock, asked, vouched, good, lasting, ended, restored>>

\* Staying::still, where no yes stands: the moment is read, and admission asked.
Ask ==
    /\ stream = "quiet"
    /\ ~StillVouched
    /\ stream' = "asking"
    /\ asked' = clock
    /\ UNCHANGED <<clock, since, vouched, good, lasting, ended, restored>>

\* Staying::still: yes, from the moment it was asked.
GoesOn ==
    /\ stream = "asking"
    /\ vouched' = asked + RECHECKED_EVERY
    /\ Says
    /\ UNCHANGED <<clock, asked, good, lasting, ended, restored>>

\* Mutant: a refusal keeps the event back and the stream open.
IsOverNot ==
    /\ stream = "asking"
    /\ Says
    /\ UNCHANGED <<clock, asked, vouched, good, lasting, ended, restored>>

\* Staying::still: anything else, and the response ends.
IsOver ==
    /\ stream = "asking"
    /\ stream' = "over"
    /\ UNCHANGED <<clock, since, asked, vouched, good, lasting, ended, restored>>

AnsweredYes == (good = "yes" \/ ended >= asked) /\ GoesOn

AnsweredNo == (good = "no" \/ restored >= asked) /\ IsOver

Next ==
    \/ Tick \/ Expire \/ Void \/ Restore
    \/ SayVouched \/ Ask \/ AnsweredYes \/ AnsweredNo

Spec == Init /\ [][Next]_vars

---------------------------------------------------------------------------
\* How long after a credential ended something may still be said: under a yes given
\* before, or while the answer was on its way.
Lingers == IF ASKING < RECHECKED_EVERY THEN RECHECKED_EVERY ELSE ASKING + 1

\* Nothing is said to somebody who has been refused for RECHECKED_EVERY, or for longer
\* than admission takes where that is more (Staying::still counts a yes from before it
\* asked).
NothingIsSaidAfter ==
    [][SayVouched \/ GoesOn => good = "yes" \/ clock - ended < Lingers]_vars

\* "A yes stands until the next asking, so what ends a session ends its stream within
\* that long" (events.rs, Staying); the time it takes to ask is allowed for besides.
EndsWithinARecheck ==
    stream # "over" /\ good = "no" => clock - ended <= RECHECKED_EVERY + ASKING

\* The stream of somebody refused ends within two beats and the time it takes to ask,
\* which is as soon as the code has it: the next asking waits for something to say, and
\* that may be a beat after the last yes has run out (held, Listening::next).
EndsWithinTwoBeats ==
    stream # "over" /\ good = "no" => clock - ended < Lingers + RECHECKED_EVERY + ASKING
=============================================================================
