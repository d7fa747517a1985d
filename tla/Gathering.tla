----------------------------- MODULE Gathering -----------------------------
(***************************************************************************)
(* One gather, and everyone listening to it: the loop that gathers on a    *)
(* tick while anybody listens (lemonfiber-api/src/events/live.rs), and a   *)
(* source that says a value when it changes and to a listener that has     *)
(* just arrived (events/settings.rs, events/extending.rs).                 *)
(*                                                                         *)
(* Who hears what is said, and in which order, is the module Stream's; here *)
(* whatever is said reaches everybody subscribed when it is said.          *)
(***************************************************************************)
EXTENDS Naturals

CONSTANTS
    Client,         \* who listens
    Value,          \* what the source may read
    None,           \* nothing said, shown or to say
    UNREAD_AT_MOST  \* bound: the readings that fail

ASSUME GatheringAssumption == None \notin Value /\ UNREAD_AT_MOST \in Nat

VARIABLES
    at,       \* client -> "away", "opened": subscribed, "open": and has asked for a gather
    shows,    \* client -> the value it was last told
    joined,   \* whether a listener has opened since the last gather
    arrived,  \* the stored notice that a listener opened
    wanted,   \* the stored notice that a gather is wanted now
    loop,     \* where the gathering is
    owed,     \* whether this gather is made for a listener that joined
    saying,   \* what this gather has to say
    told,     \* what the source last said
    world,    \* what there is to read
    unread,   \* the readings that failed
    missed    \* who was told nothing by the gather made for them, its reading having failed

clients == <<at, shows>>
notices == <<joined, arrived, wanted>>
gather == <<loop, owed, saying, told>>
vars == <<at, shows, joined, arrived, wanted, loop, owed, saying, told, world, unread, missed>>

TypeOK ==
    /\ at \in [Client -> {"away", "opened", "open"}]
    /\ shows \in [Client -> Value \cup {None}]
    /\ joined \in BOOLEAN /\ arrived \in BOOLEAN /\ wanted \in BOOLEAN /\ owed \in BOOLEAN
    /\ loop \in {"heard", "unheard", "waiting", "refresh", "gathering", "saying", "resting"}
    /\ saying \in Value \cup {None} /\ told \in Value \cup {None}
    /\ world \in Value
    /\ unread \in 0 .. UNREAD_AT_MOST
    /\ missed \subseteq Client

Init ==
    /\ at = [c \in Client |-> "away"]
    /\ shows = [c \in Client |-> None]
    /\ joined = FALSE /\ arrived = FALSE /\ wanted = FALSE
    /\ loop = "heard"
    /\ owed = FALSE
    /\ saying = None /\ told = None
    /\ world \in Value
    /\ unread = 0
    /\ missed = {}

Listening == {c \in Client : at[c] # "away"}

---------------------------------------------------------------------------
\* Live::listening: subscribed, marked as joined, and the arrival left for the loop.
Open(c) ==
    /\ at[c] = "away"
    /\ at' = [at EXCEPT ![c] = "opened"]
    /\ joined' = TRUE
    /\ arrived' = TRUE
    /\ UNCHANGED <<shows, wanted, gather, world, unread, missed>>

\* Live::nudge, by the request that has just begun to listen.
Nudge(c) ==
    /\ at[c] = "opened"
    /\ at' = [at EXCEPT ![c] = "open"]
    /\ wanted' = TRUE
    /\ UNCHANGED <<shows, joined, arrived, gather, world, unread, missed>>

\* The client goes, and its receiver with it.
Leave(c) ==
    /\ at[c] = "open"
    /\ at' = [at EXCEPT ![c] = "away"]
    /\ shows' = [shows EXCEPT ![c] = None]
    /\ missed' = missed \ {c}
    /\ UNCHANGED <<notices, gather, world, unread>>

\* What there is to read changes.
Change ==
    /\ world' \in Value \ {world}
    /\ UNCHANGED <<clients, notices, gather, unread, missed>>

\* Mutant: nobody is counted.
HeardAnyway ==
    /\ loop = "heard"
    /\ loop' = "refresh"
    /\ UNCHANGED <<clients, notices, owed, saying, told, world, unread, missed>>

\* Live::heard: the receivers are counted.
Heard ==
    /\ loop = "heard"
    /\ loop' = IF Listening = {} THEN "unheard" ELSE "refresh"
    /\ UNCHANGED <<clients, notices, owed, saying, told, world, unread, missed>>

\* Mutant: an arrival is waited for from now on, and one before that is not kept.
AwaitNew ==
    /\ loop = "unheard"
    /\ loop' = "waiting"
    /\ arrived' = FALSE
    /\ UNCHANGED <<clients, joined, wanted, owed, saying, told, world, unread, missed>>

\* Live::heard: nobody was there, and the wait for an arrival begins.
Await ==
    /\ loop = "unheard"
    /\ loop' = "waiting"
    /\ UNCHANGED <<clients, notices, owed, saying, told, world, unread, missed>>

\* Live::heard: an arrival, stored or new, ends the wait.
Arrived ==
    /\ loop = "waiting"
    /\ arrived
    /\ arrived' = FALSE
    /\ loop' = "heard"
    /\ UNCHANGED <<clients, joined, wanted, owed, saying, told, world, unread, missed>>

\* Live::refresh: who has joined is read and reset at once.
Refresh ==
    /\ loop = "refresh"
    /\ owed' = joined
    /\ joined' = FALSE
    /\ loop' = "gathering"
    /\ UNCHANGED <<clients, arrived, wanted, saying, told, world, unread, missed>>

\* Mutant: what changed is not said again.
OwesNoChange(v) == owed \/ told = None

\* Whether the value is to be said: to who has just joined, or because it changed.
Owes(v) == owed \/ told # v

\* Mutant: who has joined is reset once the gather is over.
GatherResets ==
    /\ loop = "gathering"
    /\ IF Owes(world) THEN saying' = world /\ told' = world ELSE UNCHANGED <<saying, told>>
    /\ joined' = FALSE
    /\ owed' = FALSE
    /\ loop' = "saying"
    /\ UNCHANGED <<clients, arrived, wanted, world, unread, missed>>

\* Gathers::gather, where the reading could be made.
Gather ==
    /\ loop = "gathering"
    /\ IF Owes(world) THEN saying' = world /\ told' = world ELSE UNCHANGED <<saying, told>>
    /\ owed' = FALSE
    /\ loop' = "saying"
    /\ UNCHANGED <<clients, notices, world, unread, missed>>

\* Gathers::gather, where it could not: nothing is said, and who it was made for is not
\* owed another, unless somebody else has joined meanwhile.
Unread ==
    /\ loop = "gathering"
    /\ unread < UNREAD_AT_MOST
    /\ unread' = unread + 1
    /\ missed' = IF owed /\ ~joined
                 THEN missed \cup {c \in Listening : shows[c] = None} ELSE missed
    /\ owed' = FALSE
    /\ loop' = "saying"
    /\ UNCHANGED <<clients, notices, saying, told, world>>

\* Live::refresh: what was gathered is said, to whoever listens now.
Say ==
    /\ loop = "saying"
    /\ shows' = [c \in Client |->
                    IF saying # None /\ c \in Listening THEN saying ELSE shows[c]]
    /\ missed' = IF saying # None THEN {} ELSE missed
    /\ saying' = None
    /\ loop' = "resting"
    /\ UNCHANGED <<at, notices, owed, told, world, unread>>

\* Live::gathering: the tick, or a gather wanted sooner.
Rested ==
    /\ loop = "resting"
    /\ wanted' \in {FALSE, wanted}  \* the tick may come first and leave the notice
    /\ loop' = "heard"
    /\ UNCHANGED <<clients, joined, arrived, owed, saying, told, world, unread, missed>>

Loop == Heard \/ Await \/ Arrived \/ Refresh \/ Gather \/ Unread \/ Say \/ Rested

Next ==
    \/ \E c \in Client : Open(c) \/ Nudge(c) \/ Leave(c)
    \/ Change
    \/ Loop

Spec == Init /\ [][Next]_vars

\* The loop is a task the runtime runs, and the tick always comes.  Nobody has to
\* open a stream, or to keep one.
Fairness == WF_vars(Loop) /\ \A c \in Client : WF_vars(Nudge(c))

FairSpec == Spec /\ Fairness

---------------------------------------------------------------------------
\* No wake-up is lost: a client that opened while the loop was about to wait, or waits,
\* has left its arrival for it.
ArrivalIsNoticed == loop \in {"unheard", "waiting"} /\ Listening # {} => arrived

\* A client that has been told nothing yet is owed a gather that is still to be made, or
\* one being made, unless the one that was made for it could not read; it is then taken
\* for told, which live.rs:46-49 does not have it be.
NewcomerIsOwed ==
    \A c \in Listening :
        shows[c] = None => joined \/ owed \/ saying # None \/ c \in missed

\* What the source takes for told, whoever was told anything shows, or is about to.
ShownIsTold == \A c \in Client : shows[c] # None => shows[c] = told \/ saying # None

\* Nobody is left out, at whatever point of the loop they came, of another's gather or of
\* a reading that failed for another: neither asleep to, nor taken for told but by a
\* failure of their own gather (Live::listening, Live::heard, Live::refresh,
\* Settings::said).
NobodyIsLeftOut == ArrivalIsNoticed /\ NewcomerIsOwed /\ ShownIsTold

\* A listener that stays comes to be told the current value, however its arrival fell
\* against the gather that was being made and whatever readings failed before it came or
\* for others, where the gather made for it could read (Live::listening, Live::heard,
\* Live::refresh, Settings::said).
ArrivalIsShown ==
    \A c \in Client, v \in Value :
        <>[](at[c] = "open" /\ world = v /\ c \notin missed) => <>[](shows[c] = v)

\* A listener comes to be told what the value changes to, readings that fail in between
\* notwithstanding; one whose own gather failed is left out only of what the source has
\* said before it came (Settings::said).
ChangeIsShown ==
    \A c \in Client, v \in Value :
        <>[](at[c] = "open" /\ world = v)
            => <>[](shows[c] = v \/ (c \in missed /\ told = v))

\* Nothing is gathered while nobody listens (Live::heard): "a server left running
\* with no browser open would otherwise ask them every second" (live.rs).
IdleWhenAlone == <>[](Listening = {}) => <>[](loop = "waiting")
=============================================================================
