------------------------------- MODULE Feed -------------------------------
(***************************************************************************)
(* What the event stream promises a client, whatever it keeps and however  *)
(* it hands it over: one log of what this run has said, and a place in it  *)
(* for each client that is connected.                                      *)
(*                                                                         *)
(* A client that comes back goes on where it was, or starts at the end,    *)
(* and nobody else's place is its own.  What was said before it came back  *)
(* is made up to it as records, oldest first and without a hole; what is   *)
(* said while it is there it hears all of, as far as it is for its ears.   *)
(* There is no backlog here, no window and no limit to either.             *)
(***************************************************************************)
EXTENDS Naturals, Sequences

CONSTANTS
    Client,   \* who listens
    Operator, \* those of them that hear as the operator
    Event     \* what may be said: [nature, to]

VARIABLES
    run,   \* which run of the server this is
    said,  \* what this run has said, by place
    on,    \* client -> whether it is connected
    from,  \* client -> the place up to which nothing is owed to it
    next,  \* client -> the first place it hears as it is said
    seen   \* client -> the last id it was given: the run and the place

vars == <<run, said, on, from, next, seen>>

Init ==
    /\ run = 1
    /\ said = <<>>
    /\ on = [c \in Client |-> FALSE]
    /\ from = [c \in Client |-> 0]
    /\ next = [c \in Client |-> 0]
    /\ seen = [c \in Client |-> [run |-> 0, place |-> 0]]

For(c, p) == c \in Operator \/ said[p].to = "anyone"

\* The records that are to be made up to a client before it hears what is said now.
Owed(c) ==
    {p \in 1 .. Len(said) :
        from[c] < p /\ p < next[c] /\ said[p].nature = "record" /\ For(c, p)}

Say(e) ==
    /\ said' = Append(said, e)
    /\ UNCHANGED <<run, on, from, next, seen>>

\* Where a client that connects may go on: at the end, or after what this run last gave it.
GoesOn(c) ==
    {Len(said)} \cup
    {p \in 1 .. Len(said) : seen[c] = [run |-> run, place |-> p]}

Join(c) ==
    /\ ~on[c]
    /\ on' = [on EXCEPT ![c] = TRUE]
    /\ from' \in {[from EXCEPT ![c] = p] : p \in GoesOn(c)}
    /\ next' = [next EXCEPT ![c] = Len(said) + 1]
    /\ UNCHANGED <<run, said, seen>>

Given(c, p) ==
    /\ from' = [from EXCEPT ![c] = p]
    /\ seen' = [seen EXCEPT ![c] = [run |-> run, place |-> p]]

\* The oldest record it is owed.
CatchUp(c) ==
    /\ on[c]
    /\ \E p \in Owed(c) : (\A q \in Owed(c) : p <= q) /\ Given(c, p)
    /\ UNCHANGED <<run, said, on, next>>

\* The next thing said, if it is for the client's ears.
Hear(c) ==
    /\ on[c]
    /\ Owed(c) = {}
    /\ next[c] <= Len(said)
    /\ IF For(c, next[c]) THEN Given(c, next[c]) ELSE UNCHANGED <<from, seen>>
    /\ next' = [next EXCEPT ![c] = @ + 1]
    /\ UNCHANGED <<run, said, on>>

Gone(S) ==
    /\ on' = [c \in Client |-> c \notin S /\ on[c]]
    /\ from' = [c \in Client |-> IF c \in S THEN 0 ELSE from[c]]
    /\ next' = [c \in Client |-> IF c \in S THEN 0 ELSE next[c]]

\* A client goes, or is let go: when, the promise does not say.
Part(c) ==
    /\ on[c]
    /\ Gone({c})
    /\ UNCHANGED <<run, said, seen>>

Restart ==
    /\ run' = run + 1
    /\ said' = <<>>
    /\ Gone(Client)
    /\ UNCHANGED seen

Next ==
    \/ \E e \in Event : Say(e)
    \/ \E c \in Client : Join(c) \/ CatchUp(c) \/ Hear(c) \/ Part(c)
    \/ Restart

Spec == Init /\ [][Next]_vars
=============================================================================
