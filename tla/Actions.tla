------------------------------ MODULE Actions ------------------------------
(***************************************************************************)
(* An action asked for over the web API, end to end: the key it was sent   *)
(* under (Resend) and the job it is carried out as (Jobs), on one clock.   *)
(*                                                                         *)
(* A keyed action that runs for minutes is answered with a job's name, and *)
(* a second send is answered with the same name.  The two registers forget *)
(* on their own: the attempt by its age, the name by the sweep.  The       *)
(* default window was chosen to be the lease, "so a second send answered   *)
(* with a job's name is answered while that name can still be redeemed"    *)
(* (lemonfiber-core/src/config/resending.rs).                              *)
(***************************************************************************)
EXTENDS Resend

CONSTANTS
    FINISHED_AT_MOST, AT_ONCE,
    LEASE,     \* how often the jobs register is swept
    CLOCK_MAX  \* bound: the last tick of the clock

ASSUME ActionsAssumption ==
    /\ LEASE \in Nat \ {0} /\ CLOCK_MAX \in Nat
    /\ Clock = 0 .. CLOCK_MAX
    /\ FINISHED_AT_MOST \in Nat \ {0} /\ AT_ONCE \in Nat \ {0}

VARIABLES
    register, begun, task,  \* the jobs
    clock,                  \* steady: never set back here
    due                     \* when the sweeping wakes

jobs == <<register, begun, task>>
allVars == <<vars, jobs, clock, due>>

\* A first send's attempt is carried out under the name minted for that send.
J == INSTANCE Jobs WITH Name <- Send, held <- register

ActionsInit ==
    /\ Init
    /\ J!Init
    /\ clock = 0
    /\ due = LEASE

Tick ==
    /\ clock < CLOCK_MAX
    /\ clock' = clock + 1
    /\ UNCHANGED <<vars, jobs, due>>

\* A request arrives and reads the clock and the settings.
Arrive(s) ==
    /\ \E by \in Bounds : Read(s, clock, by)
    /\ UNCHANGED <<jobs, clock, due>>

\* What a keyed request does besides: it claims its key, or is dropped.
Keyed(s) ==
    /\ Claim(s) \/ Leave(s)
    /\ UNCHANGED <<jobs, clock, due>>

Answered(s) ==
    /\ Answer(s)
    /\ UNCHANGED <<jobs, clock, due>>

\* What the runtime does of itself with the work it was handed.
Settled(s) ==
    /\ WorkFell(s) \/ Settle(s)
    /\ UNCHANGED <<jobs, clock, due>>

\* Mutant: the answer is given and no job is begun.
CarryingOutNothing(s) ==
    /\ WorkDone(s)
    /\ UNCHANGED <<jobs, clock, due>>

\* Carrying::out of an action answered later: the job is begun under its name,
\* and the name is the answer.
CarryingOut(s) ==
    /\ WorkDone(s)
    /\ \E l \in J!Lease : J!Begin(s, l)
    /\ UNCHANGED <<clock, due>>

\* The job's task runs, its name is asked about or released.
Job(s) ==
    /\ J!About(s) \/ J!Stop(s) \/ J!Step(s)
    /\ UNCHANGED <<vars, clock, due>>

\* Jobs::sweeping: asleep for a lease after each sweep, and woken then or later.
Sweeping ==
    /\ clock >= due
    /\ J!Sweep
    /\ due' = clock + LEASE
    /\ UNCHANGED <<vars, clock>>

ActionsNext ==
    \/ Tick
    \/ \E s \in Send : Arrive(s) \/ Keyed(s) \/ Answered(s) \/ Settled(s) \/ CarryingOut(s) \/ Job(s)
    \/ Sweeping

ActionsSpec == ActionsInit /\ [][ActionsNext]_allVars

\* The runtime carries out and settles what was handed to it and wakes who waits.
\* Nobody has to send, or to go on listening, and the clock owes nothing.
FairActionsSpec ==
    /\ ActionsSpec
    /\ \A s \in Send :
        /\ WF_allVars(CarryingOut(s) \/ Settled(s))
        /\ WF_allVars(Answered(s))

---------------------------------------------------------------------------
\* As long as an attempt is remembered, the job's name it was answered with can
\* be redeemed (again.rs Held::lapsed against Jobs::sweep and making_room).
RememberedIsRedeemable ==
    \A s \in held :
        slot[s] = "answer" /\ (\E w \in Within : clock - req[s].now < w) => s \in J!Held

\* Whether a send was made a window ago or longer, by the clock as it stands.
Aged(s) == \E w \in Within : clock - req[s].now >= w

\* Two jobs are begun for one caller's key only once the attempt one of them was begun
\* for has been remembered for a window, whatever order the sends read the clock,
\* claimed the key and were carried out in (Answered::claim with Carrying::out).
JobsAreAWindowApart ==
    \A s, t \in Send :
        /\ s # t /\ SameKey(s, t)
        /\ task[s].at # "none" /\ task[t].at # "none"
        => Aged(s) \/ Aged(t)

\* Nobody is left waiting for good, behind work that fell over, behind an attempt that
\* was let go of, or behind a request whose client went away (Answered::settle,
\* Carrying::out).
WaiterIsAnswered == \A s \in Send : req[s].at = "waiting" ~> req[s].at # "waiting"
=============================================================================
