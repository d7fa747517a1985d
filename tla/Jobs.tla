------------------------------- MODULE Jobs -------------------------------
(***************************************************************************)
(* The register of work that outlives the request that started it          *)
(* (lemonfiber-api/src/jobs.rs, and following.rs for the one kind of work  *)
(* that is not a command).                                                 *)
(*                                                                         *)
(* A request is answered with a name; the work runs as a task of the       *)
(* runtime.  Every operation of the register is one critical section of    *)
(* one mutex with no await inside, so each is one action.  The task is     *)
(* not: it is polled by a worker thread of a multi-threaded runtime, and   *)
(* an abort that arrives while it is being polled takes effect only when   *)
(* that poll gives up the thread.                                          *)
(***************************************************************************)
EXTENDS Naturals, FiniteSets

CONSTANTS
    Name,              \* the names the run can mint; each is minted once
    FINISHED_AT_MOST,  \* room kept for finished work
    AT_ONCE            \* bound: work the callers have running at once

ASSUME JobsAssumption ==
    /\ FINISHED_AT_MOST \in Nat \ {0}
    /\ AT_ONCE \in Nat \ {0}

VARIABLES
    held,   \* the register: name -> entry
    begun,  \* how many pieces of work have been begun
    task    \* name -> where the runtime's task is

vars == <<held, begun, task>>

Lease == {"held", "whileAsked"}

\* Where finished work got to.  "done" is Standing::Done and Standing::Failed:
\* the register treats the two alike, and what tells them apart is the envelope
\* a caller reads.
Outcome == {"done", "ended"}

\* One piece of work and what the register keeps about it: where it got to,
\* its lease, whether it was asked about since the sweep last looked (the code keeps
\* two counts and only ever compares them), and when it began.
Entry == [standing : {"absent", "running"} \cup Outcome, lease : Lease,
          asked : {"yes", "no"}, begun : Nat]

NoEntry == [standing |-> "absent", lease |-> "held", asked |-> "no", begun |-> 0]

\* A task is polled by a worker or suspended at an await.  Once `doing' is
\* ready it holds what that came to and goes for the register's lock, at once
\* ("landed") or from the lock's queue.  An abort that found it
\* being polled is kept on its handle.
Task == [at : {"none", "suspended", "polled", "landed", "queued", "panicked", "over"},
         handle : {"open", "aborted"}, came : Outcome]

NoTask == [at |-> "none", handle |-> "open", came |-> "ended"]
Over == [NoTask EXCEPT !.at = "over"]

\* What a piece of work can come to by itself.  Only a follow ends without an
\* outcome, and it is leased while asked, as the guard is.
CameTo(l) == IF l = "held" THEN {"done"} ELSE Outcome

TypeOK ==
    /\ held \in [Name -> Entry]
    /\ begun \in Nat
    /\ task \in [Name -> Task]

Init ==
    /\ held = [n \in Name |-> NoEntry]
    /\ begun = 0
    /\ task = [n \in Name |-> NoTask]

---------------------------------------------------------------------------
Held == {n \in Name : held[n].standing # "absent"}
Running == {n \in Name : held[n].standing = "running"}
Finished == {n \in Name : held[n].standing \in Outcome}

\* The task of n is still the runtime's to poll.
Alive(n) == task[n].at \in {"suspended", "polled", "landed", "queued"}

\* Mutant: running work counts as finished when room is made.
MakingRoomOfAnything ==
    {n \in Held :
        Cardinality({m \in Held : held[m].begun > held[n].begun}) >= FINISHED_AT_MOST - 1}

\* Mutant: room is made for nothing.
MakingNoRoom == {}

\* The finished names let go before one more begins: all but the
\* FINISHED_AT_MOST - 1 that began last.
MakingRoom ==
    {n \in Finished :
        Cardinality({m \in Finished : held[m].begun > held[n].begun}) >= FINISHED_AT_MOST - 1}

\* Mutant: the request that started the work does not count as a question.
BegunUnasked(l) ==
    [standing |-> "running", lease |-> l, asked |-> "no", begun |-> begun + 1]

\* The entry of work that has just begun.
Begun(l) ==
    [standing |-> "running", lease |-> l, asked |-> "yes", begun |-> begun + 1]

\* Jobs::start and Jobs::begin.  The task is spawned under the register's lock,
\* so it cannot write its ending before the entry exists.
Begin(n, l) ==
    /\ task[n].at = "none"
    /\ Cardinality(Running) < AT_ONCE
    /\ held' = [m \in Name |-> IF m = n THEN Begun(l)
                               ELSE IF m \in MakingRoom THEN NoEntry ELSE held[m]]
    /\ begun' = begun + 1
    /\ task' = [task EXCEPT ![n].at = "suspended"]

\* Jobs::about.
About(n) ==
    /\ n \in Held
    /\ held' = [held EXCEPT ![n].asked = "yes"]
    /\ UNCHANGED <<begun, task>>

\* AbortHandle::abort.  A task that is not being polled is dropped where it is
\* suspended; one that is being polled is dropped when the poll returns pending.
Abort(t) ==
    CASE t.at \in {"suspended", "queued"} -> Over
      [] t.at \in {"polled", "landed"} -> [t EXCEPT !.handle = "aborted"]
      [] OTHER -> t

\* Mutant: finished work is overwritten by the ending.
EndedAnyhow(S) ==
    /\ held' = [n \in Name |-> IF n \in S THEN [held[n] EXCEPT !.standing = "ended"] ELSE held[n]]
    /\ task' = [n \in Name |-> IF n \in S THEN Abort(task[n]) ELSE task[n]]

\* Mutant: the task is aborted and the entry goes on saying it is running.
EndedUnwritten(S) ==
    /\ UNCHANGED held
    /\ task' = [n \in Name |-> IF n \in S \cap Running THEN Abort(task[n]) ELSE task[n]]

\* ended: abort and write the ending, for the names of S that are running.
Ended(S) ==
    /\ held' = [n \in Name |-> IF n \in S \cap Running
                               THEN [held[n] EXCEPT !.standing = "ended"] ELSE held[n]]
    /\ task' = [n \in Name |-> IF n \in S \cap Running THEN Abort(task[n]) ELSE task[n]]

\* Jobs::stop, from the release of a name.
Stop(n) ==
    /\ n \in Held
    /\ Ended({n})
    /\ UNCHANGED <<begun>>

Untouched(n) == held[n].asked = "no"

\* Mutant: the sweep ends nothing.
SweptNothing == {}

\* The running work a sweep ends.
SweptRunning == {n \in Running : held[n].lease = "whileAsked" /\ Untouched(n)}

\* Mutant: finished work is never let go by the sweep.
SweptNoneFinished == {}

\* The finished work a sweep forgets.
SweptFinished == {n \in Finished : Untouched(n)}

\* What a sweep leaves of one entry: the mark moved up.
Swept(n) ==
    CASE n \in SweptFinished -> NoEntry
      [] n \in SweptRunning -> [held[n] EXCEPT !.standing = "ended", !.asked = "no"]
      [] OTHER -> [held[n] EXCEPT !.asked = "no"]

\* Jobs::sweep.
Sweep ==
    /\ held' = [n \in Name |-> Swept(n)]
    /\ task' = [n \in Name |-> IF n \in SweptRunning THEN Abort(task[n]) ELSE task[n]]
    /\ UNCHANGED begun

---------------------------------------------------------------------------
\* The runtime picks the task up and polls it.
Poll(n) ==
    /\ task[n].at = "suspended"
    /\ task' = [task EXCEPT ![n].at = "polled"]
    /\ UNCHANGED <<held, begun>>

\* The poll returns pending: the task waits at an await, or is dropped there.
Yield(n) ==
    /\ task[n].at = "polled"
    /\ task' = [task EXCEPT ![n] = IF @.handle = "aborted" THEN Over ELSE [@ EXCEPT !.at = "suspended"]]
    /\ UNCHANGED <<held, begun>>

\* `doing' is ready; the same poll goes on to the register's lock.
Land(n, s) ==
    /\ task[n].at = "polled"
    /\ task' = [task EXCEPT ![n].at = "landed", ![n].came = s]
    /\ UNCHANGED <<held, begun>>

\* `doing' panics; the runtime catches it and the task is over.
Panic(n) ==
    /\ task[n].at = "polled"
    /\ task' = [task EXCEPT ![n] = [NoTask EXCEPT !.at = "panicked"]]
    /\ UNCHANGED <<held, begun>>

\* Somebody holds the lock: the poll returns pending in the lock's queue.
Contended(n) ==
    /\ task[n].at = "landed"
    /\ task' = [task EXCEPT ![n] = IF @.handle = "aborted" THEN Over ELSE [@ EXCEPT !.at = "queued"]]
    /\ UNCHANGED <<held, begun>>

\* Mutant: an ending that had to queue for the lock is dropped.
WriteDownUnqueued(n) ==
    /\ task[n].at \in {"landed", "queued"}
    /\ held' = [held EXCEPT ![n].standing =
                    IF @ = "absent" \/ task[n].at = "queued" THEN @ ELSE task[n].came]
    /\ task' = [task EXCEPT ![n] = Over]
    /\ UNCHANGED <<begun>>

\* The lock is had, at once or from the queue, and the ending is written into
\* the entry if there still is one.
WriteDown(n) ==
    /\ task[n].at \in {"landed", "queued"}
    /\ held' = [held EXCEPT ![n].standing = IF @ = "absent" THEN @ ELSE task[n].came]
    /\ task' = [task EXCEPT ![n] = Over]
    /\ UNCHANGED <<begun>>

Step(n) ==
    \/ Poll(n)
    \/ Yield(n)
    \/ \E s \in CameTo(held[n].lease) : Land(n, s)
    \/ Panic(n)
    \/ Contended(n)
    \/ WriteDown(n)

Next ==
    \/ \E n \in Name :
        \/ \E l \in Lease : Begin(n, l)
        \/ About(n)
        \/ Stop(n)
        \/ Step(n)
    \/ Sweep

Spec == Init /\ [][Next]_vars

\* The runtime polls what is ready, a poll ends, and the register's lock is
\* first come first served; the sweep is on a timer.  Nobody has to ask.
Fairness == WF_vars(Sweep) /\ \A n \in Name : WF_vars(Step(n))

FairSpec == Spec /\ Fairness

---------------------------------------------------------------------------
\* Work still going is never let go, to make room or by a sweep: a task that
\* has not been aborted has its entry, and the entry says it is running
\* (Register::making_room, Jobs::sweep, Jobs::begin).
WorkIsRecorded ==
    \A n \in Name : Alive(n) /\ task[n].handle = "open" => held[n].standing = "running"

\* A name answered as still going is one whose work has not been ended; a
\* caller is kept waiting only by work under way or by work that fell over
\* (Jobs::about, Jobs::stop).
RunningIsUnended ==
    \A n \in Name : held[n].standing = "running" =>
        /\ Alive(n) \/ task[n].at = "panicked"
        /\ task[n].handle = "open"

\* However long the server runs, the register holds no more entries than the
\* room kept for finished work and the work callers had running at once
\* (Register::making_room).
RegisterIsBounded == Cardinality(Held) <= FINISHED_AT_MOST - 1 + AT_ONCE

\* What a name was said to have come to is never replaced by another answer:
\* it stays until the name is let go, and a name let go stays so
\* (Jobs::stop on finished work, Jobs::sweep, the task's own writing down).
OutcomeIsFinal ==
    [][\A n \in Name :
        \/ held[n].standing = "done"
        \/ held[n].standing = "absent" /\ task[n].at # "none"
        => held'[n].standing \in {held[n].standing, "absent"}]_vars

KeepsBeingAsked(n) == []<>(held[n].asked = "yes")

\* Work with no ending of its own does not outlive the interest in it: once the
\* questions have stopped it is ended, panicked or not (Jobs::sweep).
AbandonedIsEnded ==
    \A n \in Name : KeepsBeingAsked(n) \/
        ((n \in Running /\ held[n].lease = "whileAsked") ~> n \notin Running)

\* An outcome nobody asks about is let go in the end (Jobs::sweep).
FinishedIsForgotten == \A n \in Name : KeepsBeingAsked(n) \/ (n \in Finished ~> n \notin Held)

\* Work that came to something is not left standing as still going: what it
\* came to, or the ending that beat it to the lock, is what the name answers
\* (Jobs::begin's task, Jobs::stop).
EndingIsWritten ==
    \A n \in Name : task[n].at \in {"landed", "queued"} ~> n \notin Running

=============================================================================
