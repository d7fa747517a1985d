------------------------------- MODULE Undo -------------------------------
(***************************************************************************)
(* Settings, the journal of what changed them, and putting a run back.     *)
(*                                                                         *)
(* A change of settings is journalled, then written                        *)
(* (lemonfiber-core/src/settings/changing.rs, settings/store.rs).  The     *)
(* journal is read whole and written whole with nothing held between       *)
(* (app/recover/journal.rs), and keeps so many runs (journal/keeping.rs).  *)
(* A run is what an operation did at one stamp, which is a second of the   *)
(* clock; putting it back judges every change of it first (rollback.rs),   *)
(* then writes them back newest first (app/putting_back.rs,                *)
(* app/recover.rs) and journals the inverse (app/putting_back/recorded.rs).*)
(*                                                                         *)
(* Processes do this beside each other, fail to write, and are killed.     *)
(* Changes are those of stored settings (Kind::Setting); a reversal that   *)
(* needs a service or a container is left out.                             *)
(***************************************************************************)
EXTENDS Naturals, Sequences, SequencesExt, FiniteSetsExt

CONSTANTS
    Process,      \* lemonfiber processes and jobs
    Setting,      \* the names of settings
    Value,        \* what a setting may hold
    Absent,       \* and what it holds where nothing was set
    RUNS_KEPT,    \* how many runs the journal keeps
    CLOCK_MAX,    \* bound: the last second of the clock
    JOURNAL_MAX,  \* bound: the changes in the journal a run is begun on
    OVERLAP_MAX   \* bound: how often a process begins while another is in the middle

ASSUME UndoAssumption ==
    /\ IsFiniteSet(Setting) /\ Absent \notin Value
    /\ RUNS_KEPT \in Nat \ {0} /\ CLOCK_MAX \in Nat /\ JOURNAL_MAX \in Nat
    /\ OVERLAP_MAX \in Nat

VARIABLES
    store,     \* setting -> what it holds
    journal,   \* the changes recorded, oldest first
    clock,     \* the second it is
    doing,     \* process -> what it is in the middle of
    overlaps   \* how often one has begun while another was in the middle of something

vars == <<store, journal, clock, doing, overlaps>>

Held == Value \cup {Absent}

Change == [operation : {"settings", "undo"}, at : 0 .. CLOCK_MAX,
           name : Setting, previous : Held, current : Held]

\* What a process keeps to itself: the changes it means to journal or put back, the
\* ones of them still to be put back, the settings it put back, and the journal as it
\* read it.  "met" is not the code's: the settings another has written since it judged.
Doing == [at : {"idle", "weighed", "named", "entering", "entered", "reversing", "recording"},
          plan : Seq(Change), left : Seq(Change), done : SUBSET Setting,
          read : Seq(Change), met : SUBSET Setting]

Idle == [at |-> "idle", plan |-> <<>>, left |-> <<>>, done |-> {}, read |-> <<>>,
         met |-> {}]

TypeOK ==
    /\ store \in [Setting -> Held]
    /\ journal \in Seq(Change)
    /\ clock \in 0 .. CLOCK_MAX
    /\ doing \in [Process -> Doing]
    /\ overlaps \in 0 .. OVERLAP_MAX

Init ==
    /\ store = [s \in Setting |-> Absent]
    /\ journal = <<>>
    /\ clock = 0
    /\ doing = [p \in Process |-> Idle]
    /\ overlaps = 0

---------------------------------------------------------------------------
Run(change) == <<change.operation, change.at>>

\* How many runs the changes after the first i hold.
RunsAfter(changes, i) ==
    Cardinality({Run(changes[j]) : j \in i + 1 .. Len(changes)})

\* Mutant: the bound counts changes.
KeptByChanges(changes) ==
    SubSeq(changes, IF Len(changes) > RUNS_KEPT THEN Len(changes) - RUNS_KEPT + 1 ELSE 1,
           Len(changes))

\* kept: from the newest change back to the first of one run too many.
Kept(changes) ==
    LET cut == Min({i \in 0 .. Len(changes) : RunsAfter(changes, i) <= RUNS_KEPT})
    IN  SubSeq(changes, cut + 1, Len(changes))

\* The changes at the places I, in the order they stand in.
Picked(changes, I) ==
    [k \in 1 .. Cardinality(I) |->
        changes[CHOOSE i \in I : Cardinality({j \in I : j <= i}) = k]]

\* together
Together(changes, operation, at) ==
    Picked(changes, {i \in DOMAIN changes : Run(changes[i]) = <<operation, at>>})

\* Whether the i-th change may be put back: its setting holds what it left, and no later
\* change, of whatever run, is of the same setting.
Reversible(changes, i) ==
    /\ store[changes[i].name] = changes[i].current
    /\ \A j \in i + 1 .. Len(changes) : changes[j].name # changes[i].name

\* Mutant: the first change of the run answers for all of it.
JudgedByTheFirst(changes, operation, at) ==
    LET own == {i \in 1 .. Len(changes) : Run(changes[i]) = <<operation, at>>}
    IN  own # {} /\ Reversible(changes, Min(own))

\* judged: every change of the run.  A change is looked up by what it says, so of two
\* that say the same the first answers for both.
Judged(changes, operation, at) ==
    \A i \in 1 .. Len(changes) :
        Run(changes[i]) = <<operation, at>>
            => Reversible(changes, Min({j \in 1 .. Len(changes) : changes[j] = changes[i]}))

\* Mutant: the values are recorded as the change had them.
InvertedNothing(change, at) == [change EXCEPT !.operation = "undo", !.at = at]

\* inverted
Inverted(change, at) ==
    [change EXCEPT !.operation = "undo", !.at = at,
                   !.previous = change.current, !.current = change.previous]

---------------------------------------------------------------------------
Begins(p) ==
    /\ doing[p] = Idle
    /\ Len(journal) < JOURNAL_MAX
    /\ IF \A q \in Process : doing[q] = Idle THEN UNCHANGED overlaps
       ELSE overlaps < OVERLAP_MAX /\ overlaps' = overlaps + 1

Becomes(p, what) == doing' = [doing EXCEPT ![p] = what]

\* The same, having written the settings named.
Writes(p, names, what) ==
    doing' = [q \in Process |->
        IF q = p THEN what
        ELSE IF doing[q].at = "reversing" THEN [doing[q] EXCEPT !.met = @ \cup names]
        ELSE doing[q]]

\* changed: what each setting held is read, and only what differs is changed.
Weigh(p, names, value) ==
    /\ Begins(p)
    /\ names # {}
    /\ \A s \in names : value[s] # store[s]
    /\ Becomes(p, [Idle EXCEPT !.at = "weighed",
                   !.plan = LET order == SetToSeq(names) IN
                            [i \in 1 .. Len(order) |->
                                [operation |-> "settings", at |-> clock, name |-> order[i],
                                 previous |-> store[order[i]], current |-> value[order[i]]]]])
    /\ UNCHANGED <<store, journal, clock>>

\* Mutant: a journal is begun anew by each run.
OpenAnew(p) ==
    /\ doing[p].at = "weighed"
    /\ Becomes(p, [doing[p] EXCEPT !.at = "entering", !.read = <<>>,
                   !.plan = [i \in DOMAIN @ |-> [@[i] EXCEPT !.at = clock]]])
    /\ UNCHANGED <<store, journal, clock, overlaps>>

\* written: the run is stamped, and the journal read.
Open(p) ==
    /\ doing[p].at = "weighed"
    /\ Becomes(p, [doing[p] EXCEPT !.at = "entering", !.read = journal,
                   !.plan = [i \in DOMAIN @ |-> [@[i] EXCEPT !.at = clock]]])
    /\ UNCHANGED <<store, journal, clock, overlaps>>

\* journalled: the journal is written whole.
Enter(p) ==
    /\ doing[p].at \in {"entering", "recording"}
    /\ journal' = Kept(doing[p].read \o doing[p].plan)
    /\ Becomes(p, IF doing[p].at = "entering"
                  THEN [Idle EXCEPT !.at = "entered", !.plan = doing[p].plan] ELSE Idle)
    /\ UNCHANGED <<store, clock, overlaps>>

\* Mutant: the settings asked for are put over what the file held, and the rest let go.
RecordOnly(p) ==
    /\ doing[p].at = "entered"
    /\ store' = [s \in Setting |->
                    IF \E c \in ToSet(doing[p].plan) : c.name = s
                    THEN (CHOOSE c \in ToSet(doing[p].plan) : c.name = s).current
                    ELSE Absent]
    /\ Writes(p, {c.name : c \in ToSet(doing[p].plan)}, Idle)
    /\ UNCHANGED <<journal, clock, overlaps>>

\* recorded, holding the store: every setting at once.
Record(p) ==
    /\ doing[p].at = "entered"
    /\ store' = [s \in Setting |->
                    IF \E c \in ToSet(doing[p].plan) : c.name = s
                    THEN (CHOOSE c \in ToSet(doing[p].plan) : c.name = s).current
                    ELSE store[s]]
    /\ Writes(p, {c.name : c \in ToSet(doing[p].plan)}, Idle)
    /\ UNCHANGED <<journal, clock, overlaps>>

\* undo of a stamp: the journal is read, and the stamp names one operation in it.
Name(p, operation, at) ==
    /\ Begins(p)
    /\ {change.operation : change \in {c \in ToSet(journal) : c.at = at}} = {operation}
    /\ Becomes(p, [Idle EXCEPT !.at = "named", !.read = journal,
                               !.plan = Together(journal, operation, at)])
    /\ UNCHANGED <<store, journal, clock>>

\* carried_out: the run is judged against what the settings hold now, and refused or
\* taken up newest change first.
Judge(p) ==
    /\ doing[p].at = "named"
    /\ LET run == doing[p].plan IN
       Becomes(p, IF Judged(doing[p].read, run[1].operation, run[1].at)
                  THEN [Idle EXCEPT !.at = "reversing", !.plan = run, !.left = Reverse(run)]
                  ELSE Idle)
    /\ UNCHANGED <<store, journal, clock, overlaps>>

\* carry_out, holding the store: a setting that holds what it is to hold is done, one
\* that holds neither that nor what the change left is theirs now.
PutBack(p) ==
    /\ doing[p].at = "reversing" /\ doing[p].left # <<>>
    /\ LET change == Head(doing[p].left)
           holds == store[change.name]
           theirs == holds \notin {change.previous, change.current}
       IN  /\ store' = [store EXCEPT ![change.name] =
                            IF theirs THEN holds ELSE change.previous]
           /\ Writes(p, IF theirs THEN {} ELSE {change.name},
                     [doing[p] EXCEPT !.left = Tail(@),
                          !.done = IF theirs THEN @ ELSE @ \cup {change.name}])
    /\ UNCHANGED <<journal, clock, overlaps>>

\* recording: what was put back, the other way round; where it is nothing, nothing is
\* journalled.
Reversed(p) ==
    /\ doing[p].at = "reversing" /\ doing[p].left = <<>>
    /\ LET put == Picked(doing[p].plan,
                         {i \in DOMAIN doing[p].plan : doing[p].plan[i].name \in doing[p].done})
           entries == [i \in DOMAIN put |-> Inverted(put[i], clock)]
       IN  Becomes(p, IF entries = <<>> THEN Idle
                      ELSE [Idle EXCEPT !.at = "recording", !.plan = entries,
                                        !.read = journal])
    /\ UNCHANGED <<store, journal, clock, overlaps>>

\* A file cannot be written, or the process is killed: it goes no further, and what it
\* has done stands.
Stop(p) ==
    /\ doing[p] # Idle
    /\ Becomes(p, Idle)
    /\ UNCHANGED <<store, journal, clock, overlaps>>

Tick ==
    /\ clock < CLOCK_MAX
    /\ clock' = clock + 1
    /\ UNCHANGED <<store, journal, doing, overlaps>>

Next ==
    \/ \E p \in Process :
        \/ \E names \in SUBSET Setting : \E value \in [names -> Held] : Weigh(p, names, value)
        \/ Open(p) \/ Enter(p) \/ Record(p)
        \/ \E operation \in {"settings", "undo"}, at \in 0 .. CLOCK_MAX :
                Name(p, operation, at)
        \/ Judge(p) \/ PutBack(p) \/ Reversed(p) \/ Stop(p)
    \/ Tick

Spec == Init /\ [][Next]_vars

---------------------------------------------------------------------------
Quiet == \A p \in Process : doing[p] = Idle

LastOf(s) == Max({i \in 1 .. Len(journal) : journal[i].name = s})

\* The record is at most one interrupted change away from the store: whatever was
\* stopped where, a setting holds what its last recorded change left or what that
\* change found (written journals first, carried_out journals last).
RecordIsOneChangeAway ==
    overlaps = 0 /\ Quiet =>
        \A c \in ToSet(journal) :
            store[c.name] \in {journal[LastOf(c.name)].previous, journal[LastOf(c.name)].current}

\* A run that is judged to go back goes back as one unit: when the reversal is carried
\* through, everything it changed holds what it held before, whatever runs and is
\* journalled beside it, save for what another has written since (judged,
\* carrying_out).
GoesBackWhole ==
    \A p \in Process :
        doing[p].at = "reversing" /\ doing[p].left = <<>> =>
            \A c \in ToSet(doing[p].plan) :
                c.name \in doing[p].met \/ store[c.name] = c.previous

\* A reversal can be put back in its turn, by its own stamp where that is no other run's
\* (recording, inverted).
UndoIsAnswerable ==
    [][\A p \in Process :
        overlaps = 0 /\ doing[p].at = "recording" /\ Enter(p) =>
            LET at == doing[p].plan[1].at IN
            (\A c \in ToSet(doing[p].read) : c.at # at) => Judged(journal', "undo", at)]_vars

\* Whatever was stopped and wherever, a run is journalled after everything the journal
\* holds when it is written, of which only the bound lets anything go: with processes one
\* at a time, what it has read of the journal is never stale
\* (journalled, which reads the journal and writes it whole with nothing held between).
NothingIsLost ==
    [][\A p \in Process :
        overlaps = 0 /\ Enter(p) => journal' = Kept(journal \o doing[p].plan)]_vars

\* No run has another in its midst.
Unbroken(changes) ==
    \A i, k \in 1 .. Len(changes) : i < k /\ Run(changes[i]) = Run(changes[k]) =>
        \A j \in i .. k : Run(changes[j]) = Run(changes[i])

\* What the bound drops is whole runs, the oldest, and only as many as it must, as long
\* as no run was begun and another taken up again in one second (kept, journalled).
KeptRunsAreWhole ==
    [][\A p \in Process : Unbroken(doing[p].read \o doing[p].plan) /\ Enter(p) =>
        LET all == doing[p].read \o doing[p].plan
            gone == {Run(c) : c \in ToSet(all)} \ {Run(c) : c \in ToSet(journal')}
        IN  /\ journal' = Picked(all, {i \in DOMAIN all : Run(all[i]) \notin gone})
            /\ gone # {} => Cardinality({Run(c) : c \in ToSet(journal')}) = RUNS_KEPT]_vars

\* "there is nothing left to do, which is what makes asking again harmless rather than
\* forbidden" (recover.rs, put_back): a reversal stopped part-way can be asked for again.
AskingAgainIsHarmless ==
    [][\A p \in Process :
        overlaps = 0 /\ doing[p].at = "reversing" /\ Stop(p) =>
            Judged(journal, doing[p].plan[1].operation, doing[p].plan[1].at)]_vars
=============================================================================
