------------------------------ MODULE Stream ------------------------------
(***************************************************************************)
(* The event stream: what is said, what is kept of it, and what each       *)
(* client hears (lemonfiber-api/src/events/live.rs and events/backlog.rs). *)
(*                                                                         *)
(* Everything said takes the next place of the run.  A record is kept, a   *)
(* state is not; a client that comes back names the last place it saw and  *)
(* is handed the records it missed, or nothing.  `say' and `listening'     *)
(* hold one lock, so each is one action.  Both queues of the code hold     *)
(* places in ascending order and are sets here: their front is the least.  *)
(***************************************************************************)
EXTENDS Integers, FiniteSets, Sequences

CONSTANTS
    Client,   \* who listens
    Operator, \* those of them that hear as the operator
    Event,    \* what may be said: [nature, to]
    HELD,     \* the records the backlog keeps
    CARRIED,  \* how far behind a listener may fall
    Undated,  \* the runs opened on a clock that reads before the epoch
    PLACES,   \* bound: the places of one run
    RUNS      \* bound: the runs

ASSUME StreamAssumption ==
    /\ HELD \in Nat \ {0} /\ CARRIED \in Nat \ {0}
    /\ PLACES \in Nat /\ RUNS \in Nat \ {0}
    /\ Operator \subseteq Client
    /\ Event \subseteq [nature : {"state", "record"}, to : {"anyone", "operator"}]

VARIABLES
    run,     \* which run of the server this is
    said,    \* what this run has said, by place
    held,    \* the places of the records the backlog still keeps
    at,      \* client -> "away", "open", or "ending": open and told to end
    missed,  \* client -> the places still to be handed to it from the backlog
    next,    \* client -> the place it receives next
    seen,    \* client -> the last id it was given: the run and the place
    from     \* client -> the place its record is whole from

listeners == <<at, missed, next, seen, from>>
vars == <<run, said, held, at, missed, next, seen, from>>

Place == 1 .. Len(said)
Open(c) == at[c] # "away"

TypeOK ==
    /\ run \in Nat
    /\ said \in Seq(Event)
    /\ held \in SUBSET Place
    /\ at \in [Client -> {"away", "open", "ending"}]
    /\ missed \in [Client -> SUBSET Nat]
    /\ next \in [Client -> Nat]
    /\ seen \in [Client -> [run : Nat, place : Nat]]
    /\ from \in [Client -> Nat]

Init ==
    /\ run = 1
    /\ said = <<>>
    /\ held = {}
    /\ at = [c \in Client |-> "away"]
    /\ missed = [c \in Client |-> {}]
    /\ next = [c \in Client |-> 0]
    /\ seen = [c \in Client |-> [run |-> 0, place |-> 0]]  \* no id yet
    /\ from = [c \in Client |-> 0]

---------------------------------------------------------------------------
Least(S) == CHOOSE p \in S : \A q \in S : p <= q

\* Audience::hears, of the event said at p.
Hears(c, p) == c \in Operator \/ said[p].to = "anyone"

IsRecord(p) == said[p].nature = "record"

\* The newest HELD of the places in S: the rest are popped off the front.
Newest(S) == {p \in S : Cardinality({q \in S : q >= p}) <= HELD}

\* Live::say with Backlog::say.
Say(e) ==
    /\ Len(said) < PLACES
    /\ said' = Append(said, e)
    /\ held' = IF e.nature = "record" THEN Newest(held \cup {Len(said) + 1}) ELSE held
    /\ UNCHANGED <<run, listeners>>

\* What a run calls itself: its moment, or zero.
Mark(r) == IF r \in Undated THEN 0 ELSE r

\* Mutant: the run an id names is not compared.
KnowsAnyRun(id) == id.place # 0 /\ id.place < Len(said) + 1

\* Backlog::place_of: an id of this run, and a place this run has reached.
Knows(id) == id.place # 0 /\ Mark(id.run) = Mark(run) /\ id.place < Len(said) + 1

\* Mutant: what was let go is not looked at.
CoversAll(place) == TRUE

\* Mutant: off by one, so that the first thing dropped may be what was missed.
CoversOneShort(place) == held = {} \/ Least(held) <= place + 2

\* Whether nothing after a place has been let go, as the code judges it.
Covers(place) == held = {} \/ Least(held) <= place + 1

\* Mutant: a client is handed the whole backlog, what it saw included.
SinceEver(id) == IF Knows(id) /\ Covers(id.place) THEN {p \in held : IsRecord(p)} ELSE {}

\* Backlog::since.
Since(id) ==
    IF Knows(id) /\ Covers(id.place) THEN {p \in held : p > id.place /\ IsRecord(p)} ELSE {}

\* Live::listening: subscribed, and handed what was missed, under the one lock.
\* A client handed its record goes on from where it was; any other starts here.
Listen(c) ==
    /\ at[c] = "away"
    /\ at' = [at EXCEPT ![c] = "open"]
    /\ missed' = [missed EXCEPT ![c] = Since(seen[c])]
    /\ next' = [next EXCEPT ![c] = Len(said) + 1]
    /\ from' = [from EXCEPT ![c] = IF Knows(seen[c]) /\ Covers(seen[c].place)
                                   THEN seen[c].place ELSE Len(said)]
    /\ UNCHANGED <<run, said, held, seen>>

Given(c, p) ==
    /\ seen' = [seen EXCEPT ![c] = [run |-> run, place |-> p]]
    /\ from' = [from EXCEPT ![c] = p]

\* What of the missed record this client may hear.
ToHand(c) == {p \in missed[c] : Hears(c, p)}

\* Listening::next, out of what was missed.
HearMissed(c) ==
    /\ Open(c)
    /\ ToHand(c) # {}
    /\ Given(c, Least(ToHand(c)))
    /\ missed' = [missed EXCEPT ![c] = {p \in @ : p > Least(ToHand(c))}]
    /\ UNCHANGED <<run, said, held, at, next>>

\* Whether the place c is to receive has left the window the broadcast carries.
Lagging(c) == next[c] + CARRIED <= Len(said)

\* Listening::next, as it is said.
Receive(c) ==
    /\ Open(c)
    /\ ToHand(c) = {}
    /\ next[c] <= Len(said) /\ ~Lagging(c)
    /\ IF Hears(c, next[c]) THEN Given(c, next[c]) ELSE UNCHANGED <<seen, from>>
    /\ next' = [next EXCEPT ![c] = @ + 1]
    /\ missed' = [missed EXCEPT ![c] = {}]
    /\ UNCHANGED <<run, said, held, at>>

\* A client that is not connected holds nothing but the last id it saw.
Gone(S) ==
    /\ at' = [c \in Client |-> IF c \in S THEN "away" ELSE at[c]]
    /\ missed' = [c \in Client |-> IF c \in S THEN {} ELSE missed[c]]
    /\ next' = [c \in Client |-> IF c \in S THEN 0 ELSE next[c]]
    /\ from' = [c \in Client |-> IF c \in S THEN 0 ELSE from[c]]

\* Listening::next, fallen behind the window: the response ends.
Lag(c) ==
    /\ Open(c)
    /\ ToHand(c) = {}
    /\ Lagging(c)
    /\ Gone({c})
    /\ UNCHANGED <<run, said, held, seen>>

\* The connection breaks, or the client closes it.  Whatever was on its way is lost.
Leave(c) ==
    /\ Open(c)
    /\ Gone({c})
    /\ UNCHANGED <<run, said, held, seen>>

\* Live::end_every_stream: the count moves, for everyone listening now.
EndEveryStream ==
    /\ \E c \in Client : at[c] = "open"
    /\ at' = [c \in Client |-> IF Open(c) THEN "ending" ELSE "away"]
    /\ UNCHANGED <<run, said, held, missed, next, seen, from>>

\* Mutant: a stream told to end is not woken by it.
NeverEnd(c) == FALSE /\ UNCHANGED vars

\* Listening::next, told to end.
End(c) ==
    /\ at[c] = "ending"
    /\ ToHand(c) = {}
    /\ Gone({c})
    /\ UNCHANGED <<run, said, held, seen>>

\* The server goes away and another run opens.
Restart ==
    /\ run < RUNS
    /\ run' = run + 1
    /\ said' = <<>>
    /\ held' = {}
    /\ Gone(Client)
    /\ UNCHANGED seen

Hear(c) == HearMissed(c) \/ Receive(c) \/ Lag(c) \/ End(c)

Next ==
    \/ \E e \in Event : Say(e)
    \/ \E c \in Client : Listen(c) \/ Hear(c) \/ Leave(c)
    \/ EndEveryStream
    \/ Restart

Spec == Init /\ [][Next]_vars

\* A client that stays goes on reading, and `select' is fair between what was
\* said and having been told to end.
Fairness == \A c \in Client : WF_vars(HearMissed(c)) /\ WF_vars(End(c))

FairSpec == Spec /\ Fairness

---------------------------------------------------------------------------
\* The records a client may hear between two places.
Records(c, after, before) == {p \in Place : after < p /\ p < before /\ IsRecord(p) /\ Hears(c, p)}

\* What a client still has to be handed is exactly the record between the place
\* it got to and the place it receives next: there is no hole, nothing arrives
\* twice, and nothing but records is handed back (Live::say and Live::listening
\* under one lock, Backlog::since).
RecordIsWhole == \A c \in Client : Open(c) => Records(c, from[c], next[c]) = ToHand(c)

\* Within one run a client never hears a place again, nor an earlier one, over
\* however many connections (Backlog::since, Live::listening).
HeardInOrder ==
    [][\A c \in Client : seen'[c] # seen[c] /\ seen'[c].run = seen[c].run
            => seen'[c].place > seen[c].place]_vars

\* An id another run gave out is answered with nothing (Backlog::place_of).
OtherRunIsHandedNothing ==
    [][\A c \in Client : ~Open(c) /\ seen[c].run # run => missed'[c] = {}]_vars

\* What a client is promised, whatever of the record is still kept.
F == INSTANCE Feed WITH on <- [c \in Client |-> Open(c)]

\* A client that comes back picks the record up where it left it or starts at the end, is
\* handed every record it missed, oldest first, before anything that is said now, and
\* then hears everything said: backlog, broadcast and their bounds do as the log and the
\* place of Feed do (Backlog::since, Live::listening, Listening::next).
IsAFeed == F!Spec

\* Every stream that was open when the streams were told to end, ends
\* (Live::end_every_stream).
ToldIsEnded == \A c \in Client : at[c] = "ending" ~> at[c] = "away"
=============================================================================
