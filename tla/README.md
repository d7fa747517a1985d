# A verification project for lemonfiber

lemonfiber runs a self-hosted media stack: a command line, a terminal interface
and a web API over one core that talks to the container engine and to the
services in the stack.  Everything that decides anything is in
`crates/lemonfiber-core`; `crates/lemonfiber-api` is the server in front of it.
The modules here model the parts of both whose correctness depends on the order
in which things happen: registers shared by requests and background tasks,
records re-read and re-written by several processes, streams that are joined
halfway, limits that are reached, work that is stopped while it finishes.

Paths below are relative to `crates/lemonfiber-api/src` (`api/`) and
`crates/lemonfiber-core/src` (`core/`).

## The system's parts

| part | state it keeps | operations | hard behaviour | what makes it correct |
|---|---|---|---|---|
| jobs register (`api/jobs.rs`) | name -> standing, lease, asked or not | begin, about, stop, sweep, the task's own writing down | abort against completion, sweep against question, ceiling | register and runtime agree; nothing asked about is swept; it stays bounded |
| resent actions (`api/actions/again.rs`, `api/actions.rs`) | remembered attempts per caller and key, a slot each | claim, carry out, settle, wait | two sends together, lapse, eviction, work that falls over | one key never runs beside itself; who waits is answered; a claim spares the others |
| event stream (`api/events/live.rs`, `backlog.rs`) | backlog, broadcast, listeners | say, listening, next, end every stream | joining between two events, lagging, resuming, restart | no hole, nothing twice, nothing of another audience |
| gathering (`api/events/live.rs`, `settings.rs`, ...) | listeners, notices, what was last told | heard, refresh, gather | arrival during a gather, failed readings | who arrives is shown the value; nothing is gathered for nobody |
| staying (`api/events.rs`) | a yes and how long it stands | still, beat | a credential that ends mid-stream | nothing is said long after, and the stream ends |
| conditions (`core/condition*`, `core/app/conditions.rs`) | what is wrong, since when, how often, declined, attempts | observe, decline, attempted, mended, save | read-modify-write by two processes | a spell keeps its start; the store comes to agree with the world |
| alerts (`core/alert/*`, `core/notify/run.rs`) | what was told, what is owed | wanted, owe, deliver | quiet hours, flapping, twice or never | every spell told, and once |
| repair (`core/repair*`) | attempts, what was written | offer, write, prove, put back | drift between writing and putting back | put back is what stood before |
| the stack's claim (`core/app/engine/lock.rs`) | one file that names a process | claim, wait, take over, release, drop | two waiters and one dead holder, a run killed, `--force` | one operation at a time, and every wait ends |
| admission (`api/admission/*`) | sessions, keys, wrong answers per peer | open, read, still, taken, forgiven | a credential voided while read, give-back after forgetting | an answer is true when it is given; only the expired are let go of |
| settings, journal and rollback (`core/settings/*`, `core/journal*`, `core/rollback.rs`, `core/app/putting_back.rs`) | the settings, the changes of every run | change, journal, keep, judge, put back, record | stopped between two writes, a setting changed since it was judged, the bound | the record never strays from the settings; a run goes back whole |
| seeding and baseline (`core/seed*`, `core/baseline.rs`) | what was last written per field | compare, write, remember | an operator's edit between two runs | an operator's value is never reverted |
| configuration store, wizard, plugins, bandwidth, backup, update | files and services | see the plan | partial failure, drift | |
| everything else | none, or one reading | | | rendering, I/O, data (see `PROJECT.json`) |

They interact so: a request is admitted; if it asks for an action under a key it
claims the key (resent actions), the first send carries the action out, and an
action answered later begins a job whose name is the answer (jobs).  A refresh
of the dashboard, started by a listener of the stream or by a surface, observes
the stack, folds what it saw into the conditions store and tells the operator
(alerts).  An errand (diagnosis, repair) writes the same store from another
process.  A held-open stream asks admission again on its own beat (staying), and
admission answers out of its sessions, the password on disk and the household.
Every operation on the stack, whether a job of the server or a run from a
terminal, claims it first (lock).  A change of settings is journalled before it
is written, and a run of such changes is put back by its stamp (undo).

## Modules

| module | models | composed of |
|---|---|---|
| `Jobs`, `JobsProofs` | the jobs register and the tasks of the runtime | |
| `Resend` | the remembered attempts | |
| `Actions`, `ActionsProofs` | both on one clock | `EXTENDS Resend`, `INSTANCE` of `Jobs`; implements the `Spec` of each; the proofs about `Resend` are in `ActionsProofs` |
| `Feed` | what a stream promises a client: one log, and a place in it for each | |
| `Stream`, `StreamProofs` | events said, kept, handed back and received | implements `Feed` |
| `Gathering`, `GatheringProofs` | the loop that gathers for the stream | |
| `Staying` | the question asked again while a stream is held: what a stream promises, given what admission says | |
| `Sessions`, `SessionsProofs` | sessions, signing in, and how admission comes to what it says | `EXTENDS Staying`; implements its `Spec`; the proofs of both are in `SessionsProofs` |
| `Conditions`, `ConditionsProofs` | the store, the outbox, a refresh, an errand, another surface or diagnosis beside them, and the telling of a key | |
| `Lock`, `LockProofs` | the claim on the stack and its file | |
| `Undo`, `UndoProofs` | settings, the journal and putting a run back | |
| `MC*` | instances for TLC | the module each is named after |

Definitions marked `Mutant:` are altered forms of the definition that follows:
each breaks one property, which shows that the property can be broken.

### Jobs

Each of `begin`, `about`, `stop` and `sweep` is one critical section of one
mutex, so each is one action.  The task that does the work is not: it is polled
by a worker thread (`Poll`), gives the thread up at an await (`Yield`), comes to
its result (`Land`), goes for the register's lock, has it at once or waits for
it (`Contended`), and writes its ending down (`WriteDown`).  An abort reaches it
where it stands: a task that is suspended is dropped, one that is being polled
only when its poll gives the thread up.  A panic ends the task and writes
nothing.

`jobs` (three names, room for one finished, two running at once) checks that the
register and the runtime agree (`WorkIsRecorded`, `RunningIsUnended`), that the
register stays bounded (`RegisterIsBounded`), that a finished outcome is never
replaced (`OutcomeIsFinal`), and that work nobody asks about is ended, what is
finished is forgotten and what came to an end is written down
(`AbandonedIsEnded`, `FinishedIsForgotten`, `EndingIsWritten`).  Three names are
what it takes for one to be pushed out by a second while a third runs.
Fairness: the runtime polls a task that is ready and the mutex is queued for, so
each task's step is weakly fair; the sweep is on a timer.  Nobody has to ask.

### Resend

A request reads the wall clock and the two settings (`Read`), and then takes the
lock and claims its key.  The two are apart in the code, so a claim may judge an
attempt made after its own reading.  A claim lets go of what has lapsed, finds
the key, or makes room from the caller's own answered attempts; the work of a
first send is spawned and goes on when its client goes away; settling is two
steps, forgetting under the lock and filling the slot, when the work fell over.

It has no run of its own: `actions` runs it with the jobs beside it.  A clock
set back, settings that change between two sends, several callers and the room a
claim makes are not in that run; of them `ActionsProofs` proves `NeverBeside` and
`OthersAreSpared` (a claim lets go of another caller's attempt only for its age,
and of none in flight).  That a send is answered with an attempt of its own
caller, key and question is the condition `ClaimAgain` claims under, and no
property of its own.

### Actions

`Resend` and `Jobs` with a job named by the send that began it, one clock and
the sweep due every lease.  `actions` (two sends of one key, of one question or
two) checks that a key never runs beside itself (`NeverBeside`), that a remembered
name can still be asked about (`RememberedIsRedeemable`), that one key begins two jobs only once a
window has passed since one of the two sends read the clock
(`JobsAreAWindowApart`), and that every request that waits on an attempt is
answered (`WaiterIsAnswered`): spawned work, its settling and a waiter's wakening
are the runtime's, and so are weakly fair.  The run takes a window no longer than
the lease, which is what the default settings have, and a room that two sends
cannot fill: both are needed (see the observations), and both are hypotheses of
the theorems.  The last two also hold with three sends, which takes
too long to be a run; the theorems hold for any number.  `AT_ONCE` bounds the work two
sends can have running, not the code.

### Stream

`Say` records and broadcasts under one lock, `Listen` subscribes and reads what
was missed under the same lock; a client then hears what it missed, then what
is broadcast, is let go when it lags, or is told to end.  An event is a record
or a state, for anyone or for the operator alone.  A record is kept; a state
takes a place and is not.  `Restart` begins another run; `Undated` is the set of
runs begun while the clock could not be read, which all have the same name.

* `stream` (two clients, one the operator; four places, two held, two carried,
  two runs): `RecordIsWhole`, `HeardInOrder`, `OtherRunIsHandedNothing`,
  `ToldIsEnded`, and `IsAFeed`: the backlog, the broadcast and their bounds do as
  `Feed` does.  `Feed` has no backlog: who comes back goes on
  after the id this run last gave it or starts at the end, is given the records
  said while it was away, oldest first, and then hears everything said; when it
  is let go of, `Feed` does not say.  Four places overfill both the backlog and
  the broadcast by two.  Fairness: a client that stays goes on reading, and the
  `select` of `Listening::next` does not starve the ending.

### Gathering

The loop of `Live::gathering`, the two notices (each a `Notify` with at most one
permit), the flag `joined`, and one source that says a value when it changes or
when somebody is owed it.  A reading may fail, and then says nothing; who the
gather was made for is not owed another.  `missed` is no variable of the code: it
records whose own gather failed so, until they are told something or go.

* `gathering` (two clients, two values, two readings that may fail):
  `NobodyIsLeftOut`: the loop is never asleep to an arrival; who was told nothing
  is owed a gather, or is in `missed`; and what the source has down as told is what
  everybody who was told anything shows or is about to hear.  So a failed reading
  leaves out exactly those its gather was made for, which is what the code does
  (see the observations).  `ArrivalIsShown` of everybody not in `missed`,
  whatever readings failed before them or for others; `ChangeIsShown` of everybody:
  who is in `missed` is left out only of a value the source has said before.
  `IdleWhenAlone`.
  Fairness: the loop is a task and its tick always comes; nobody has to open or
  keep a stream.

### Staying and Sessions

`Staying` is what a stream promises: time is in steps, the beat is `BEAT`,
asking admission takes at most `ASKING`, and what admission answers was true at
some moment since it was asked.  `Sessions` gives the answer the way the code
does.  The register is looked in as of the moment the question was asked
(`OpenedFor`), what the session rests on is read after that (`Judge`), and in
between a session may run out, a password be set or taken away, a member be
removed and come back, and others sign in: `Knock` reads the clock, `Prove` and
`Opened` come when the check is done, and `Opened` tidies the register by the
moment read first.  `good`, `lasting`, `ended` and `restored` are no variables
of the code: they record what admission would have said and when that changed.
One clock stands for the steady one, which a yes and the beat are measured by, and
for the wall clock, by which a session runs out; and a beat is due `BEAT` after
whatever was said last, where the code begins it anew with each event it passes
over, whether or not that is for this client.

* `staying` (a beat of 2, a session that lasts 5 at most, two passwords, seven
  moments) checks `Sessions` as a whole: `StaysAsPromised`, that it implements
  `Staying`; `NothingIsSaidAfter` and `EndsWithinTwoBeats` of the composition; and
  `OnlyTheExpiredGo`.  Seven moments hold a password changed or a member gone at
  the first, the two beats and one asking after it, and a session that runs out
  during a sign-in.
* `staying_longer` shows `EndsWithinARecheck` violated: `events.rs:204` has what
  ends a session end its stream within one recheck.  A yes is asked for only when
  there is something to say; something said just before it runs out is said on it,
  and the next may be a beat later.  `EndsWithinTwoBeats` is what holds.

### Conditions

A refresh (observes the watched checks, tells, saves) and an errand (observes
the others, offers repairs, writes down what became of them), each with a copy
of the store.  Saving is two actions, reading the store again with what was
touched laid over it and writing, since no lock joins them.  Looks and writes
may fail; a look that fails is a fault of the tunnel (`Unproven`), of the rest a
refresh leaves it unobserved and an errand takes it for right.  What is wrong may
turn at any moment.

A second surface may gather while the first does (the terminal and the API's
stream each run `paced`), and a second diagnosis may run: `other` is one of
either, which loads, looks and tells in one step and saves each file in one.
That is coarser than the refresh and the errand, which show what comes of a save
in two steps, and enough for what two observers of one check do to each other.
`overlapped` is no variable of the code: it records of which sort two ever had the
store in hand at once, since some of what holds ends there.

The outbox is loaded, decided on, delivered and written whole by whoever gathers,
and by the telling of what became of a key (`Heard`), which delivers whatever else
is owed with it; all are interleaved.  The history keeps the last `KEPT` alerts;
in which order one delivery puts them down is left open.  Boot's report is one
more writer with the steps of `Heard`, and is not a process of its own here.

* `conditions` (one watched and one diagnosed check, the watched one a tunnel;
  flapping at 2, one attempt, a history of 3 where the code keeps 200, two
  readings of the clock, and three changes, failed writes or tellings of a key, of
  which a failed look or another process takes two):
  * `SinceStands` of a check as long as no two that observe it overlapped.  Two
    surfaces that do, each having found it broken, move its start: without that
    hypothesis the property is violated within the same bounds.
  * `DiagnosedIsToldOnce` where nothing overlapped and no key was told of.
  * `ToldIsSaid`: until the history has filled, what the outbox has down as told is
    a fault the operator can read of, whatever overlapped; and where nothing did,
    of what only diagnoses observe a standing spell down as told can be read of
    itself or by a later one, though a digest was held over quiet hours and
    delivered by another writer.  Once the history has filled, nothing is promised;
    and of a spell that is over, or of what a refresh observes, no more than the
    fault (see the observations).  A history of three is filled
    within the run by a resolution that is said again, and what counts as told then
    does leave it: with `Readable` for `Legible` the property is violated.
  * `StoreSettles` and `SpellIsTold`, whatever overlapped.

  Three changes let a fault come, go and come again, or come twice with a failed
  write between, or come beside another surface.  Fairness: the refresh goes round
  while a surface is open; nobody has to run an errand, or end one.
* `conditions_twice` shows `ResolvedIsSaidOnce` violated: delivering a
  resolution leaves what counts as told as it was, so every refresh says it again.

### Lock

A run is one operation of one process; the runs of a server share its process.
The claim is a file, made only where there is none (`Make`) and written after
that (`Write`), so it stands empty for a moment; a run that finds one looks
again until its turn is over (`Sleep`, `Refuse`), and every so many looks asks
whether its holder has gone: it reads the claim, asks the machine, reads the
claim again, and removes it (`Read`, `Asked`, `ReadAgain`, `TakeOver`).  Each of
these is a call of its own in the code and an action here.  A job may be let go
of while it works (`Drop`, and the removal that is handed to the runtime,
`Dropped`) or before it has its claim (`Abandon`), and a process may be killed.
A removal is best effort and may be refused (`Removed`, `NotRemoved`): the run
goes on either way.  `struck` and `left` are not the code's: one records how a
claim was first taken from under a run that had it still to give back, the other
that a removal was ever refused.

* `lock` (two jobs of one server and a run from a terminal, which may be killed
  or given `--force`; a turn of two looks, the holder asked about at the
  second): `Exclusive`; `TurnComes`, unless the claims a run takes over go on
  refusing to be removed, since such a look goes round neither slept over nor
  counted; and `WorkGivesBack`, unless the removal was refused.  Three runs are what
  it takes for two to wait behind one that has died.  `Exclusive` says when a claim
  may be struck; what two operations then do to the stack is not modelled.  Fairness: a run takes its
  next step as long as its process lives; when an operation ends is not promised.
* `lock_overlap` (nobody given `--force`) shows `OneAtATime` violated: the second
  read and the removal are two calls, and the slower of two waiters removes the
  claim that the quicker has made meanwhile.

### Undo

A change of settings is weighed, journalled and written (`Weigh`, `Open`,
`Enter`, `Record`), a run is named by its stamp, judged, put back one setting at
a time newest first, and its inverse journalled (`Name`, `Judge`, `PutBack`,
`Reversed`, `Enter`).  The settings are written holding the store, so each write
is one action; the journal is read and written whole with nothing held between,
so it is two.  A process may stop anywhere (`Stop`).  A setting is one stored in
lemonfiber's own file: changes that are put back through a service or a
container are left out.

* `undo` (two processes, two settings, two values, two runs kept, two seconds; a
  change or a reversal is begun while the journal holds fewer than three changes,
  and once while another is in the middle): `GoesBackWhole` and
  `KeptRunsAreWhole` whatever runs beside; `RecordIsOneChangeAway`,
  `UndoIsAnswerable` and `NothingIsLost` (a run is journalled after all the journal
  holds) where one process runs at a time, since two that write the journal lose
  each other's entries.  Three changes are a run of two, another
  after it, and a reversal that fills the journal past its bound.  Symmetry over
  processes and values: the properties are safety and name none of them.
* `undo_half` shows `AskingAgainIsHarmless` violated: a reversal of two settings
  that stops after the first is refused when it is asked for again.

## What is proved

For every value of the constants that satisfies the named assumptions:

* `JobsProofs`: `Agreement`, which says that for every name the entry in the
  register and the task in the runtime agree.  Neither `WorkIsRecorded` nor
  `RunningIsUnended` is inductive by itself: `Begin` needs that a name not minted
  yet has no entry and no abort pending, `Stop` that an entry that says running
  has a task to abort.  `StepOfOne` says what one step can make of one entry;
  from it and from `DoneIsOver` (a task that wrote its outcome is over)
  `OutcomeIsFinal`.  `RegisterIsBounded` needs `Counted`: names are numbered apart
  as they begin, so those with fewer than a number of newer ones beside them are
  at most that many (`NewestAreFew`), which is what making room leaves.
* `ActionsProofs`, of `Resend`: `Remembering`: an unsettled attempt is held, one caller's key
  is held once, and attempts are numbered in the order they were remembered.
  `NeverBeside` follows because making room and lapsing take answered attempts
  only.  `OthersAreSpared` is an action property of the claim, from the same invariant.
  `WaitsOnWork` (`NobodyWaitsForNothing`) is the safe half of `WaiterIsAnswered`:
  who waits does so on a filled slot or on work the runtime has still to settle.  It
  needs `Awaited`: what was settled has its slot filled, though its key was
  forgotten and perhaps claimed again before that.
* `ActionsProofs`, of `Actions`: that the composition implements `Resend` (`ActionsAreResent`)
  and `Jobs` (`ActionsAreJobs`), so that what is proved of `Resend` holds of an
  action end to end (`ActionsRunOnce`).  `Carried` says that request, work, slot and job
  are in step: a job is begun with the answer and with nothing else, and a clock
  that was read has passed.  With `AnsweredIsRemembered` (what was answered is
  remembered or a window old, and one caller's key names one remembered attempt)
  it gives `JobsAreAWindowApart` as long as no claim makes room
  (`SecondJobWaitsAWindow`), which is so with no more sends than the least count
  (`FewSendsWaitAWindow`).  With `NameLasts` (a name was asked about since the last
  sweep, or the next is a lease from its send) it gives `RememberedIsRedeemable`
  for windows no longer than the lease as long as the register does not make room
  (`NamesOutliveAttempts`), which is so with fewer sends than it has room for
  (`FewNamesOutliveAttempts`).  The hypotheses are the code's own limits: a
  caller past its count, or a register past its ceiling, lets go early.
* `StreamProofs`: `StreamInv`: what is held is the newest records of the run, a
  client's cursor is ahead of what it was handed, and what it saw is behind.
  The central lemma, `CoveredIsWhole`, is that `covered` answers yes only when
  the record after a place is held whole.  From it `RecordIsWhole`, and as an
  action property `HeardInOrder`, whatever the clock named the runs.
  `OtherRunIsHandedNothing` needs `IdsAreOfRuns`, and is proved where at most one
  run was begun without a clock (`OtherRunsAreStrangers`): two such runs are named
  alike.  Where that is so the stream implements `Feed` (`StreamIsAFeed`), under a
  mapping that keeps the log, the places and the ids and forgets the backlog and the
  cursor of what was missed.  The step that matters is that what is left of the
  backlog to hand over is what `Feed` owes (`HandedIsOwed`), which is
  `RecordIsWhole`, and that an id the backlog knows is this run's
  (`KnownIsOfThisRun`); telling every stream to end is a stutter.
* `GatheringProofs`: `GatheringInv`, for any number of clients and values and whatever
  readings fail.  `NobodyIsLeftOut` is inductive with `InTurn`: what is owed
  belongs to the gather being made, what is to be said is what is down as told, and
  who is away shows nothing.  So a client that arrives while the loop decides to
  wait, reads or speaks has its notice or its gather left, and whoever is told
  nothing though it has neither is one whose own gather could not read
  (`NobodyIsEverLeftOut`): the safe half of `ArrivalIsShown` and `ChangeIsShown`.
* `SessionsProofs`, of `Staying`: `StayingInv`: no beat is overslept, a standing yes was true
  less than a recheck ago, and the last thing said is bounded by the credential's
  ending.  From it both properties, for every beat and every time asking takes.
* `SessionsProofs`, of `Sessions`: that `Sessions` implements `Staying`
  (`StaysAsItPromises`), and so has its two properties (`EndedIsOver`).  The
  invariant adds to `StayingInv` that the history is what admission would say
  (`NotedIsSo`), that no moment is read ahead of the clock (`NotAhead`) and what
  an answer half made says was true (`FoundIsHeld`).  The steps of a stream map
  to `Staying`'s own; time, a password and the household map to `Tick`, `Expire`,
  `Void`, `Restore` or a stutter, by what they do to `Admits`.
  `LetsOnlyTheExpiredGo` follows from `NotAhead`, since a register is tidied
  by a moment that has passed.
* `LockProofs`: `LockInv`, for any number of runs and processes: whoever has a
  claim to give back owns the file until one was struck (`KeptIsOwned`), and a
  holder is found gone only where a process has died (`GoneIsDead`).
  `Exclusive` is not inductive: that a file is there does not say whose it is,
  and a removal is harmless because of who keeps it (`RemoveStrikes`), whether it
  was made or refused.
* `ConditionsProofs`: typing, and `Lineage`: unless two that observe a check
  overlapped, the copies of its condition in anybody's hands are of one history.
  Who observes a check is ahead of the store and who does not is behind it, where
  ahead means a later spell, or the same one with the same start, so that laying
  one over the other never moves a start (`StartsStand`: `SinceStands`).  `Apart` is
  what makes the hypothesis do its work: where none of a sort overlapped, the other
  has nothing in hand while one of its sort has.  `Telling` is about the four
  copies of the outbox.  Each has down as told only what its history has, while that
  is not full, and owes an end only of what was told (`Accounted`), whatever
  overlapped.  Where nothing did, a told spell of what only diagnoses observe can be
  read or is over for good (`Abreast`), and with no key told of, what is owed is
  later than what was told, and that is not ahead of the store (`Ascending`); both
  are measured against the earliest copy of the store still to be written
  (`Earliest`), which no step takes back.  From it `ToldIsSaid` and
  `DiagnosedIsToldOnce`, for every set of checks, every bound on the history and
  every threshold of flapping.
* `UndoProofs`: `Reversal`, whatever runs beside: a process going back through a
  plan has each setting of it put back, still to be put back, or met by another
  (`GoingBack`), where the plan is a judged run.  From it typing and
  `GoesBackWhole`; `KeptRunsAreWhole` from what the bound keeps.  `Alone`, where no
  two processes were ever in the middle at once: what a process read is still the
  journal, what it planned from is still held (`Sequential`), and each setting holds
  what its newest change left or found (`Recorded`).  From it
  `RecordIsOneChangeAway` and, through what inverting a run does to the newest
  change of each setting, `UndoIsAnswerable`; and `NothingIsLost`, since what was
  read is the journal that is written over.

Constants are assumed to be what the code has: counts and windows that are not
zero, finitely many settings, sets that are not empty.  They are named in the
module that declares them, and TLC evaluates them on every run.  The bounds on
counters (`CLOCK_MAX`, `PLACES`, `RUNS`, ...) are constants of the modules, so the
theorems hold for all of them.

The type invariant of every module is proved, as a part of the invariants above,
and is in no run of its own.

Only model-checked: liveness, which rests on fairness and `ENABLED`
(`AbandonedIsEnded`, `FinishedIsForgotten`, `EndingIsWritten`, `WaiterIsAnswered`,
`ToldIsEnded`, `ArrivalIsShown`, `ChangeIsShown`, `IdleWhenAlone`, `StoreSettles`,
`SpellIsTold`, `TurnComes`, `WorkGivesBack`).  Every invariant and every action
property of a passing run is a theorem.

What proving changed: two properties that small instances bear out do not hold of
larger ones, and are stated now as what does hold.  `JobsAreAWindowApart` compared
the readings of the two sends with each other, which three sends refute;
`ToldIsSaid` promised every told spell, which eight changes refute.  Both are in
the observations.

## Observations without a run

Met while modelling, and followed by the modules as the code has them.

* An abort that arrives while the work is being polled does not stop it writing:
  a name answered `Ended` may then be written over with `Done` (`api/jobs.rs:400`
  against 152-154).
* More than `FINISHED_AT_MOST` finished jobs are held until the next `begin`
  (`api/jobs.rs:300` against 84).
* Work that panicked under a held lease says it is running for good
  (`api/jobs.rs:293` against 413-415).
* A finished job's name can be pushed out by other callers' jobs inside the
  window in which a second send is answered with it (`api/jobs.rs:300` against
  `core/config/resending.rs:27`).
* A send reads the clock before it takes the lock, so one that read early may
  claim late: the first attempt is let go for its age by a send that read later,
  and the early reader then claims the key anew, its own reading less than a window
  after the first's (`api/actions/again.rs:193` to 196).  A window has passed all
  the same, of the clock.
* Two runs begun while the clock could not be read are both named zero and are
  not told apart (`api/events/backlog.rs:117` against 112).
* A look that could not be established clears a fault that stands
  (`core/app/conditions.rs:56` and 79 against `core/condition/store.rs:10`).
* What another process wrote between the two halves of a save is lost
  (`core/app/conditions.rs:42` against 36).
* Two surfaces, or two diagnoses, that find one fault from two copies each take
  their own moment for its start, and the later to save moves it
  (`core/condition/store.rs:151` against `core/condition.rs:58`, "Untouched while
  it stays raised"): `SinceStands` without `Alone` is violated.
* A fault that counts as told and stands leaves the history once `KEPT` later
  alerts were delivered (`core/alert/outbox.rs:108`), and is not told again.  A
  resolution that is said at every refresh (`conditions_twice`) gets there by itself.
* A client that missed no more records than are held is handed nothing when a
  state took the place before the first of them: `covered` asks for a record at
  the place after the one the client saw (`api/events/backlog.rs:87` against 16
  and 75).
* A reading that fails in the one gather made for a new listener loses the
  arrival, which is taken before it: the listener is told nothing until the value
  changes (`api/events/settings.rs:46` against `live.rs:46` to 49, "owes a listener
  that has just arrived the current value all the same").  In `Gathering` these are
  the clients in `missed`.
* The telling of a key, and boot's report, say their own sentence and deliver
  everything owed into the history, under recurrence 0 or their own: a
  condition's alert delivered beside them is down under that
  (`core/keys/run/heard.rs:36`, `core/app/boot.rs:490` against
  `core/alert/outbox.rs:96`).  The outbox is written whole by all of them, and
  each loses what another added meanwhile.
* What quiet hours held over is delivered under the recurrence of the moment it is
  delivered in: an onset of an early spell, said after a later spell that was not
  wanted, counts as that later one told (`core/notify/run.rs:134` against
  `core/alert/outbox.rs:95`, "which spell of this check was this alert about?").
* Admission's answer is made of two readings of two moments: a session that runs
  out while the household is away and back is admitted though there was no
  moment at which both were good.  `ended` is therefore measured from its
  running out (`api/admission.rs:301`).
* A takeover whose removal fails goes round without sleeping or counting
  (`core/app/engine/lock.rs:182` against 42, "The wait is bounded"), for as long as
  it goes on failing: the hypothesis of `TurnComes`.
* A job let go of while its claim's file is being made leaves a claim that names
  nobody, or a server that lives, and only `--force` removes it
  (`core/app/engine/lock.rs:104`).
* A run that lost its claim to `--force` removes the taker's when it is done
  (`core/app/engine/lock.rs:244`).
* Two processes that journal at once lose each other's entries, and may write
  their settings in the other order (`core/app/recover/journal.rs:105` against
  76).
* Runs are told apart by operation and second, so a run may be cut in half at the
  journal's bound when another was journalled between two of its changes in one
  second (`core/journal/keeping.rs:53` against 12).
* What a reversal put back is selected by the change's target, so one left
  standing is recorded as put back when another of its target was
  (`core/app/putting_back/recorded.rs:22` against 9), and a value that was absent
  from the environment file is recorded as the empty one (44).  Neither concerns
  stored settings, which `Undo` models.

## What is not modelled

Rendering, wording, formatting and the HTTP layer; the adapters and ports; the
terminal interface; generation of files; readings that are functions of one
state.  Of the parts partly modelled: boot's report; channels that may
refuse; the carrying out of a repair; keys,
claims and the counting of wrong answers in admission; the reversals that need a
service or a container, and the retracting of a change, which journals nothing.
The paces of the single readings and a member's own stream, which is the same
loop with one listener, are left out of `Gathering`.

Most of the repository's lines are of these kinds: adapters to some twenty
services, the terminal interface, rendering, text, schemas, fixtures and tests.
What they compute is a function of what they are given, and their own tests
reach it.  The parts left that keep state are in the plan.

## Plan

1. An abstract lock (a holder or none).  `OneAtATime`, which is what it would
   promise, is what `lock_overlap` refutes, so it waits for the takeover to be one
   step; until then `Exclusive` says how far the claim can be relied on.
2. Admission: the counting of wrong answers per peer, its give-back, keys and
   their use, on top of `Sessions`.
3. `Seed` and `Baseline`: the three-way judgement, an operator's edit between;
   `Repair`, which writes, proves and puts back, on top of `Undo`.
4. The setup wizard, bandwidth's schedule, plugins, backup and update.
