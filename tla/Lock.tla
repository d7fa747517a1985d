------------------------------- MODULE Lock -------------------------------
(***************************************************************************)
(* One lifecycle operation on a stack at a time: the claim beside the      *)
(* settings (lemonfiber-core/src/app/engine/lock.rs), the file it is kept  *)
(* in (lemonfiber-adapters/src/filesystem.rs), and the operations that     *)
(* claim (app/engine/offered.rs, app/engine/switch.rs,                     *)
(* update/run/staging.rs).                                                 *)
(*                                                                         *)
(* A run is one operation of one process.  Runs of a server share its      *)
(* process, and a run started from a terminal has one of its own.  What a  *)
(* claim says is abstracted to the process it names; which file it is, a   *)
(* run keeps through its handle and not by name.  Every call on the file   *)
(* system is a step of its own, and so is the question put to the machine. *)
(***************************************************************************)
EXTENDS Naturals

CONSTANTS
    Run,          \* operations, each started any number of times
    Process,      \* process ids
    ProcessOf,    \* the process each run belongs to
    TURN,         \* how many looks a run waits for its turn
    ASKED_EVERY,  \* how many looks go by between asking about the holder
    Job,          \* the runs a server carries out as jobs, which may be let go of
    Forcing,      \* the runs that may be given --force
    Mortal,       \* the processes that may be killed
    Nothing       \* no claim, or a claim that names no process

ASSUME LockAssumption ==
    /\ ProcessOf \in [Run -> Process]
    /\ Nothing \notin Process
    /\ TURN \in Nat \ {0} /\ ASKED_EVERY \in Nat \ {0}
    /\ Job \subseteq Run /\ Forcing \subseteq Run /\ Mortal \subseteq Process

VARIABLES
    claim,    \* the file: the run whose handle made it, and the process it says
    alive,    \* the processes that run
    pc,       \* where each run is
    read,     \* what gone() read of the claim before it asked
    looks,    \* looks since the holder was last found gone
    waited,   \* looks slept through
    struck,   \* how a claim still to be given back was first removed by another run
    left      \* whether the claim stands though its run has given it back

vars == <<claim, alive, pc, read, looks, waited, struck, left>>

At == {"idle", "forcing", "trying", "writing", "working", "dropped",
       "reading", "asking", "again", "removing", "judging"}

Claim == [by : Run, says : Process \cup {Nothing}]

ASSUME NothingAssumption == Nothing \notin Claim

\* Never; by --force; taken as the claim of a run that had gone; or given back by a
\* run whose own claim was no longer there.
Struck == {"no", "forced", "gone", "late"}

TypeOK ==
    /\ claim \in Claim \cup {Nothing}
    /\ alive \subseteq Process
    /\ pc \in [Run -> At]
    /\ read \in [Run -> Process \cup {Nothing}]
    /\ looks \in [Run -> 0 .. TURN + 1]
    /\ waited \in [Run -> 0 .. TURN]
    /\ struck \in Struck
    /\ left \in {"no", "yes"}

Init ==
    /\ claim = Nothing
    /\ alive = Process
    /\ pc = [r \in Run |-> "idle"]
    /\ read = [r \in Run |-> Nothing]
    /\ looks = [r \in Run |-> 0]
    /\ waited = [r \in Run |-> 0]
    /\ struck = "no"
    /\ left = "no"

---------------------------------------------------------------------------
Lives(r) == ProcessOf[r] \in alive

\* The claim stands for r from the moment its file is made.
Holds(r) == Lives(r) /\ pc[r] \in {"writing", "working"}

\* It is still r's to give back.
Keeps(r) == Lives(r) /\ pc[r] \in {"writing", "working", "dropped"}

Owns(r) == claim # Nothing /\ claim.by = r

Goes(r, from, to) ==
    /\ Lives(r)
    /\ pc[r] = from
    /\ pc' = [pc EXCEPT ![r] = to]

\* What queued counts is its own, and starts again with every call of it.
Reset(r) ==
    /\ looks' = [looks EXCEPT ![r] = 0]
    /\ waited' = [waited EXCEPT ![r] = 0]

Forget(r) == read' = [read EXCEPT ![r] = Nothing]

\* FileSystem::remove where it can be done: whatever file is there under the name.
Removed(r, why) ==
    /\ claim' = Nothing
    /\ struck' = IF struck = "no" /\ \E h \in Run \ {r} : Owns(h) /\ Keeps(h)
                 THEN why ELSE struck
    /\ left' = "no"

\* FileSystem::remove where it cannot: the file stays, and nobody is told.
NotRemoved(r) ==
    /\ claim # Nothing
    /\ left' = IF Owns(r) /\ Keeps(r) THEN "yes" ELSE left
    /\ UNCHANGED <<claim, struck>>

\* FileSystem::remove, best effort.
Remove(r, why) == Removed(r, why) \/ NotRemoved(r)

Said == IF claim = Nothing THEN Nothing ELSE claim.says

\* claimed: a run starts, with --force or without.
Start(r) ==
    /\ \/ Goes(r, "idle", "trying")
       \/ r \in Forcing /\ Goes(r, "idle", "forcing")
    /\ UNCHANGED <<claim, alive, read, looks, waited, struck, left>>

GoAhead(r) ==
    /\ Goes(r, "forcing", "trying")
    /\ Remove(r, "forced")
    /\ UNCHANGED <<alive, read, looks, waited>>

\* Mutant: a look, and the file made whether it is there or not.
MakeAnyway(r) ==
    /\ Goes(r, "trying", "writing")
    /\ claim' = [by |-> r, says |-> Nothing]
    /\ Reset(r)
    /\ UNCHANGED <<alive, read, struck, left>>

\* FileSystem::claim: the file is made only where there is none.
Make(r) ==
    /\ Goes(r, "trying", "writing")
    /\ claim = Nothing
    /\ claim' = [by |-> r, says |-> Nothing]
    /\ Reset(r)
    /\ UNCHANGED <<alive, read, struck, left>>

\* What is written goes into the file this run made, wherever that is by now.
Written(r) ==
    {claim, IF Owns(r) THEN [claim EXCEPT !.says = ProcessOf[r]] ELSE claim}

\* The claim names its holder, or could not be written and names nobody.
Write(r) ==
    /\ Goes(r, "writing", "working")
    /\ claim' \in Written(r)
    /\ UNCHANGED <<alive, read, looks, waited, struck, left>>

\* The claim is another's, or its file could not be made, and every ASKED_EVERY looks
\* the holder is asked about.
Taken(r) ==
    /\ \/ looks[r] % ASKED_EVERY = 0 /\ Goes(r, "trying", "reading")
       \/ looks[r] % ASKED_EVERY # 0 /\ Goes(r, "trying", "judging")
    /\ UNCHANGED <<claim, alive, read, looks, waited, struck, left>>

---------------------------------------------------------------------------
\* gone: a claim that names nobody, or this very process, is not asked about.
Read(r) ==
    /\ \/ /\ Said \in {Nothing, ProcessOf[r]} /\ Goes(r, "reading", "judging")
          /\ UNCHANGED read
       \/ /\ Said \notin {Nothing, ProcessOf[r]} /\ Goes(r, "reading", "asking")
          /\ read' = [read EXCEPT ![r] = Said]
    /\ UNCHANGED <<claim, alive, looks, waited, struck, left>>

\* Running::alive, which may not know.
Asked(r) ==
    /\ \/ read[r] \notin alive /\ Goes(r, "asking", "again") /\ UNCHANGED read
       \/ Goes(r, "asking", "judging") /\ Forget(r)
    /\ UNCHANGED <<claim, alive, looks, waited, struck, left>>

\* The claim is read again, and left alone where it has changed.
ReadAgain(r) ==
    /\ \/ Said = read[r] /\ Goes(r, "again", "removing")
       \/ Said # read[r] /\ Goes(r, "again", "judging")
    /\ Forget(r)
    /\ UNCHANGED <<claim, alive, looks, waited, struck, left>>

\* The claim of a run that has gone is removed, and this one tries again at once, without
\* a look counted or slept through, whether the removal was done or not.
TakeOver(r) ==
    /\ Goes(r, "removing", "trying")
    /\ Remove(r, "gone")
    /\ looks' = [looks EXCEPT ![r] = 0]
    /\ UNCHANGED <<alive, read, waited>>

\* Mutant: a look leaves the wait as long as it was.
SleepUncounted(r) ==
    /\ waited[r] < TURN
    /\ Goes(r, "judging", "trying")
    /\ looks' = [looks EXCEPT ![r] = (@ + 1) % ASKED_EVERY]
    /\ UNCHANGED <<claim, alive, read, waited, struck, left>>

\* Not gone, and the wait goes on.
Sleep(r) ==
    /\ waited[r] < TURN
    /\ Goes(r, "judging", "trying")
    /\ looks' = [looks EXCEPT ![r] = @ + 1]
    /\ waited' = [waited EXCEPT ![r] = @ + 1]
    /\ UNCHANGED <<claim, alive, read, struck, left>>

\* The wait is spent.
Refuse(r) ==
    /\ waited[r] >= TURN
    /\ Goes(r, "judging", "idle")
    /\ Reset(r)
    /\ UNCHANGED <<claim, alive, read, struck, left>>

---------------------------------------------------------------------------
\* released: the operation ended, well or not.
Release(r) ==
    /\ Goes(r, "working", "idle")
    /\ Remove(r, "late")
    /\ UNCHANGED <<alive, read, looks, waited>>

\* Mutant: the claim has no Drop.
DropNothing(r) ==
    /\ r \in Job
    /\ Goes(r, "working", "idle")
    /\ UNCHANGED <<claim, alive, read, looks, waited, struck, left>>

\* The job is let go of while it works: its claim is dropped, and the removal handed
\* to the runtime.
Drop(r) ==
    /\ r \in Job
    /\ Goes(r, "working", "dropped")
    /\ UNCHANGED <<claim, alive, read, looks, waited, struck, left>>

\* Claim::drop's removal.
Dropped(r) ==
    /\ Goes(r, "dropped", "idle")
    /\ Remove(r, "late")
    /\ UNCHANGED <<alive, read, looks, waited>>

\* The job is let go of before it has its claim.  A call on the file system that is
\* under way is carried through: a removal is then over (GoAhead, TakeOver), and a file
\* that was being made stands with nobody to give it back.
Abandon(r) ==
    /\ r \in Job
    /\ \/ /\ \E at \in {"trying", "reading", "asking", "again", "judging"} :
                Goes(r, at, "idle")
          /\ UNCHANGED claim
       \/ Goes(r, "writing", "idle") /\ claim' \in Written(r)
    /\ Reset(r) /\ Forget(r)
    /\ UNCHANGED <<alive, struck, left>>

\* A process is killed, with every run it had.
Kill(p) ==
    /\ p \in Mortal \cap alive
    /\ alive' = alive \ {p}
    /\ UNCHANGED <<claim, pc, read, looks, waited, struck, left>>

Steps(r) ==
    \/ GoAhead(r) \/ Make(r) \/ Write(r) \/ Taken(r)
    \/ Read(r) \/ Asked(r) \/ ReadAgain(r) \/ TakeOver(r) \/ Sleep(r) \/ Refuse(r)
    \/ Dropped(r)

Next ==
    \/ \E r \in Run : Start(r) \/ Steps(r) \/ Release(r) \/ Drop(r) \/ Abandon(r)
    \/ \E p \in Process : Kill(p)

Spec == Init /\ [][Next]_vars

\* A run goes on as long as its process does; when the operation it claimed for ends
\* is not promised.
FairSpec == Spec /\ \A r \in Run : WF_vars(Steps(r))
---------------------------------------------------------------------------
\* "One lifecycle operation on a stack at a time" (lock.rs:1).
OneAtATime == \A r, s \in Run : Holds(r) /\ Holds(s) => r = s

\* One operation at a time, whoever is let go of and whoever waits, as long as no
\* claim was taken from under a run that held it; and that takes --force or a
\* process that was killed (claimed, gone, released).
Exclusive ==
    /\ struck = "no" => OneAtATime
    /\ struck = "no" \/ struck = "forced" \/ alive # Process

\* A run that waits gets the stack or is refused, however often what it waits behind
\* changes hands or is found gone, unless the claims it takes over go on refusing to be
\* removed: each such look goes round uncounted, and "The wait is bounded" (lock.rs:42)
\* does not hold of them (queued, gone).
TurnComes ==
    \A r \in Run :
        <>[][~(TakeOver(r) /\ NotRemoved(r))]_vars
            => (pc[r] \notin {"idle", "working", "dropped"}
                    ~> pc[r] \in {"idle", "working"} \/ ~Lives(r))

\* An operation that ends, or is let go of while it works, gives the stack back: its
\* claim does not stand against a server that goes on, unless the file system refused to
\* remove it, which is "a `--force` away" (released, Claim::drop).
WorkGivesBack ==
    \A r \in Run : []<>(pc[r] # "working")
                        => (pc[r] = "working" ~> ~Owns(r) \/ ~Lives(r) \/ left = "yes")
=============================================================================
