---------------------------- MODULE JobsProofs ----------------------------
(***************************************************************************)
(* What holds of the register for every set of names and every bound: the  *)
(* entry of a name and the task of that name agree, what a name came to is *)
(* final, and the register stays within its bound.                         *)
(***************************************************************************)
EXTENDS Jobs, FiniteSetTheorems, WellFoundedInduction, TLAPS

\* The register and the runtime agree: an unaborted live task has a running
\* entry, a running entry has a task that is live and unaborted or that
\* panicked, and a name not minted yet is held nowhere.
Agreement ==
    /\ TypeOK
    /\ WorkIsRecorded
    /\ RunningIsUnended
    /\ \A n \in Name : task[n].at = "none" => held[n] = NoEntry /\ task[n].handle = "open"

LEMMA EntryTypes ==
    /\ NoEntry \in Entry
    /\ \A l \in Lease : begun \in Nat => Begun(l) \in Entry
    /\ NoTask \in Task /\ Over \in Task
    /\ \A t \in Task : Abort(t) \in Task
<1>1. NoEntry \in Entry /\ \A l \in Lease : begun \in Nat => Begun(l) \in Entry
  BY DEF NoEntry, Entry, Begun, Lease, Outcome
<1>2. NoTask \in Task /\ Over \in Task
  BY DEF NoTask, Over, Task, Outcome
<1>3. ASSUME NEW t \in Task PROVE Abort(t) \in Task
  BY <1>2 DEF Abort, Task
<1>4. QED
  BY <1>1, <1>2, <1>3

LEMMA InitAgrees == Init => Agreement
BY EntryTypes DEF Init, Agreement, TypeOK, WorkIsRecorded, RunningIsUnended, Alive, NoEntry, NoTask

\* What the agreement says of one name.
AgreesOn(e, t) ==
    /\ t.at \in {"suspended", "polled", "landed", "queued"} /\ t.handle = "open"
            => e.standing = "running"
    /\ e.standing = "running" =>
            /\ t.at \in {"suspended", "polled", "landed", "queued", "panicked"}
            /\ t.handle = "open"
    /\ t.at = "none" => e = NoEntry /\ t.handle = "open"

LEMMA AgreementByName ==
    Agreement <=> TypeOK /\ \A n \in Name : AgreesOn(held[n], task[n])
BY DEF Agreement, AgreesOn, WorkIsRecorded, RunningIsUnended, Alive, TypeOK

LEMMA AgreementByNameNext ==
    Agreement' <=> TypeOK' /\ \A n \in Name : AgreesOn(held'[n], task'[n])
BY DEF Agreement, AgreesOn, WorkIsRecorded, RunningIsUnended, Alive, TypeOK

LEMMA BeginAgrees ==
    ASSUME Agreement, NEW n \in Name, NEW l \in Lease, Begin(n, l)
    PROVE  Agreement'
<1>1. TypeOK /\ \A m \in Name : AgreesOn(held[m], task[m])
  BY AgreementByName
<1>2. MakingRoom \subseteq Finished
  BY DEF MakingRoom
<1>3. TypeOK'
  BY <1>1, EntryTypes DEF TypeOK, Begin, Task
<1>4. ASSUME NEW m \in Name PROVE AgreesOn(held'[m], task'[m])
  <2>1. CASE m = n
    <3>0. held'[m] = Begun(l)
      BY <2>1 DEF Begin
    <3>1. held'[m].standing = "running"
      BY <3>0 DEF Begun
    <3>2. task[n].at = "none" /\ task[n].handle = "open"
      BY <1>1 DEF Begin, AgreesOn
    <3>3. task'[m].at = "suspended" /\ task'[m].handle = "open"
      BY <1>1, <2>1, <3>2 DEF Begin, TypeOK, Task
    <3>4. QED
      BY <3>1, <3>3 DEF AgreesOn
  <2>2. CASE m # n
    <3>1. held'[m] = IF m \in MakingRoom THEN NoEntry ELSE held[m]
      BY <2>2 DEF Begin
    <3>2. task'[m] = task[m]
      BY <1>1, <2>2 DEF Begin, TypeOK
    <3>3. m \in MakingRoom => held[m].standing \in Outcome
      BY <1>2 DEF Finished
    <3>4. QED
      BY <1>1, <3>1, <3>2, <3>3 DEF AgreesOn, NoEntry, Outcome
  <2>3. QED
    BY <2>1, <2>2
<1>5. QED
  BY <1>3, <1>4, AgreementByNameNext

LEMMA AboutAgrees ==
    ASSUME Agreement, NEW n \in Name, About(n)
    PROVE  Agreement'
<1>1. TypeOK /\ \A m \in Name : AgreesOn(held[m], task[m])
  BY AgreementByName
<1>2. TypeOK'
  BY <1>1 DEF TypeOK, About, Entry
<1>3. ASSUME NEW m \in Name PROVE AgreesOn(held'[m], task'[m])
  <2>1. task' = task /\ held'[m].standing = held[m].standing
    BY <1>1 DEF About, TypeOK, Entry
  <2>2. held[n].standing # "absent" /\ (m # n => held'[m] = held[m])
    BY <1>1 DEF About, TypeOK, Held
  <2>3. QED
    BY <1>1, <2>1, <2>2 DEF AgreesOn, NoEntry
<1>4. QED
  BY <1>2, <1>3, AgreementByNameNext

\* Aborting a piece of work and writing that it ended keeps entry and task in step.
LEMMA EndingOne ==
    ASSUME NEW e \in Entry, NEW t \in Task, NEW f \in Entry,
           AgreesOn(e, t), e.standing = "running", f.standing = "ended"
    PROVE  AgreesOn(f, Abort(t)) /\ Abort(t) \in Task
<1>1. t.at \in {"suspended", "polled", "landed", "queued", "panicked"} /\ t.handle = "open"
  BY DEF AgreesOn
<1>2. Abort(t) \in Task
  BY EntryTypes
<1>3. CASE t.at \in {"suspended", "queued"}
  BY <1>3, <1>2 DEF Abort, AgreesOn, Over, NoTask
<1>4. CASE t.at \in {"polled", "landed"}
  BY <1>4, <1>2 DEF Abort, AgreesOn, Task
<1>5. CASE t.at = "panicked"
  BY <1>5, <1>2 DEF Abort, AgreesOn, Task
<1>6. QED
  BY <1>1, <1>2, <1>3, <1>4, <1>5

LEMMA StopAgrees ==
    ASSUME Agreement, NEW n \in Name, Stop(n)
    PROVE  Agreement'
<1>1. TypeOK /\ \A m \in Name : AgreesOn(held[m], task[m])
  BY AgreementByName
<1>2. ASSUME NEW m \in Name
      PROVE  held'[m] \in Entry /\ task'[m] \in Task /\ AgreesOn(held'[m], task'[m])
  <2>0. held[m] \in Entry /\ task[m] \in Task
    BY <1>1 DEF TypeOK
  <2>1. CASE m \in {n} \cap Running
    <3>1. held'[m] = [held[m] EXCEPT !.standing = "ended"] /\ task'[m] = Abort(task[m])
      BY <2>1 DEF Stop, Ended
    <3>2. held'[m] \in Entry /\ held'[m].standing = "ended"
      BY <2>0, <3>1 DEF Entry, Outcome
    <3>3. QED
      BY <1>1, <2>0, <2>1, <3>1, <3>2, EndingOne DEF Running
  <2>2. CASE m \notin {n} \cap Running
    BY <1>1, <2>0, <2>2 DEF Stop, Ended
  <2>3. QED
    BY <2>1, <2>2
<1>3. TypeOK'
  BY <1>1, <1>2 DEF TypeOK, Stop, Ended
<1>4. QED
  BY <1>2, <1>3, AgreementByNameNext

LEMMA SweepAgrees ==
    ASSUME Agreement, Sweep
    PROVE  Agreement'
<1>1. TypeOK /\ \A m \in Name : AgreesOn(held[m], task[m])
  BY AgreementByName
<1>2. ASSUME NEW m \in Name
      PROVE  held'[m] \in Entry /\ task'[m] \in Task /\ AgreesOn(held'[m], task'[m])
  <2>0. held[m] \in Entry /\ task[m] \in Task
    BY <1>1 DEF TypeOK
  <2>1. held'[m] = Swept(m) /\ task'[m] = IF m \in SweptRunning THEN Abort(task[m]) ELSE task[m]
    BY DEF Sweep
  <2>2. CASE m \in SweptRunning
    <3>1. held[m].standing = "running" /\ m \notin SweptFinished
      BY <2>2 DEF SweptRunning, SweptFinished, Running, Finished, Outcome
    <3>2. held'[m] = [held[m] EXCEPT !.standing = "ended", !.asked = "no"]
      BY <2>1, <2>2, <3>1 DEF Swept
    <3>3. held'[m] \in Entry /\ held'[m].standing = "ended"
      BY <2>0, <3>2 DEF Entry, Outcome
    <3>4. QED
      BY <1>1, <2>0, <2>1, <2>2, <3>1, <3>3, EndingOne
  <2>3. CASE m \in SweptFinished
    <3>1. held[m].standing \in Outcome /\ m \notin SweptRunning
      BY <2>3 DEF SweptRunning, SweptFinished, Running, Finished, Outcome
    <3>2. held'[m] = NoEntry /\ task'[m] = task[m]
      BY <2>1, <2>3, <3>1 DEF Swept
    <3>3. QED
      BY <1>1, <2>0, <3>1, <3>2, EntryTypes DEF AgreesOn, NoEntry, Outcome
  <2>4. CASE m \notin SweptRunning /\ m \notin SweptFinished
    <3>1. held'[m] = [held[m] EXCEPT !.asked = "no"] /\ task'[m] = task[m]
      BY <2>1, <2>4 DEF Swept
    <3>2. held'[m] \in Entry /\ held'[m].standing = held[m].standing
      BY <2>0, <3>1 DEF Entry
    <3>3. held[m] = NoEntry => held'[m] = NoEntry
      BY <3>1 DEF NoEntry
    <3>4. QED
      BY <1>1, <2>0, <3>1, <3>2, <3>3 DEF AgreesOn
  <2>5. QED
    BY <2>2, <2>3, <2>4
<1>3. TypeOK'
  BY <1>1, <1>2 DEF TypeOK, Sweep
<1>4. QED
  BY <1>2, <1>3, AgreementByNameNext

\* A step of the runtime touches one task, and only WriteDown the register.
LEMMA StepAgrees ==
    ASSUME Agreement, NEW n \in Name, Step(n)
    PROVE  Agreement'
<1>1. TypeOK /\ \A m \in Name : AgreesOn(held[m], task[m])
  BY AgreementByName
<1>2. held[n] \in Entry /\ task[n] \in Task
  BY <1>1 DEF TypeOK
<1>3. ASSUME NEW e \in Entry, NEW t \in Task, AgreesOn(e, t),
             held' = [held EXCEPT ![n] = e], task' = [task EXCEPT ![n] = t],
             UNCHANGED <<begun>>
      PROVE  Agreement'
  <2>1. TypeOK'
    BY <1>1, <1>3 DEF TypeOK
  <2>2. \A m \in Name : AgreesOn(held'[m], task'[m])
    BY <1>1, <1>3 DEF TypeOK
  <2>3. QED
    BY <2>1, <2>2, AgreementByNameNext
<1>4. CASE Poll(n)
  <2> DEFINE t == [task[n] EXCEPT !.at = "polled"]
  <2>1. t \in Task /\ AgreesOn(held[n], t)
    BY <1>1, <1>2, <1>4, EntryTypes DEF Poll, Task, AgreesOn, Over, NoTask
  <2>2. held' = [held EXCEPT ![n] = held[n]] /\ task' = [task EXCEPT ![n] = t] /\ UNCHANGED <<begun>>
    BY <1>1, <1>4 DEF Poll, TypeOK
  <2>3. QED
    BY <1>2, <1>3, <2>1, <2>2
<1>5. CASE Yield(n)
  <2> DEFINE t == IF task[n].handle = "aborted" THEN Over ELSE [task[n] EXCEPT !.at = "suspended"]
  <2>1. t \in Task /\ AgreesOn(held[n], t)
    BY <1>1, <1>2, <1>5, EntryTypes DEF Yield, Task, AgreesOn, Over, NoTask
  <2>2. held' = [held EXCEPT ![n] = held[n]] /\ task' = [task EXCEPT ![n] = t] /\ UNCHANGED <<begun>>
    BY <1>1, <1>5 DEF Yield, TypeOK
  <2>3. QED
    BY <1>2, <1>3, <2>1, <2>2
<1>6. ASSUME NEW s \in CameTo(held[n].lease), Land(n, s) PROVE Agreement'
  <2> DEFINE t == [task[n] EXCEPT !.at = "landed", !.came = s]
  <2>1. t \in Task /\ AgreesOn(held[n], t)
    BY <1>1, <1>2, <1>6 DEF Land, Task, AgreesOn, CameTo, Outcome
  <2>2. held' = [held EXCEPT ![n] = held[n]] /\ task' = [task EXCEPT ![n] = t] /\ UNCHANGED <<begun>>
    BY <1>1, <1>6 DEF Land, TypeOK
  <2>3. QED
    BY <1>2, <1>3, <2>1, <2>2
<1>7. CASE Panic(n)
  <2> DEFINE t == [NoTask EXCEPT !.at = "panicked"]
  <2>1. t \in Task /\ AgreesOn(held[n], t)
    BY <1>1, <1>2, <1>7, EntryTypes DEF Panic, Task, AgreesOn, Over, NoTask
  <2>2. held' = [held EXCEPT ![n] = held[n]] /\ task' = [task EXCEPT ![n] = t] /\ UNCHANGED <<begun>>
    BY <1>1, <1>7 DEF Panic, TypeOK
  <2>3. QED
    BY <1>2, <1>3, <2>1, <2>2
<1>8. CASE Contended(n)
  <2> DEFINE t == IF task[n].handle = "aborted" THEN Over ELSE [task[n] EXCEPT !.at = "queued"]
  <2>1. t \in Task /\ AgreesOn(held[n], t)
    BY <1>1, <1>2, <1>8, EntryTypes DEF Contended, Task, AgreesOn, Over, NoTask
  <2>2. held' = [held EXCEPT ![n] = held[n]] /\ task' = [task EXCEPT ![n] = t] /\ UNCHANGED <<begun>>
    BY <1>1, <1>8 DEF Contended, TypeOK
  <2>3. QED
    BY <1>2, <1>3, <2>1, <2>2
<1>9. CASE WriteDown(n)
  <2> DEFINE e == [held[n] EXCEPT !.standing = IF @ = "absent" THEN @ ELSE task[n].came]
  <2>1. e \in Entry /\ e.standing # "running"
    BY <1>2 DEF Entry, Task, Outcome
  <2>2. AgreesOn(e, Over) /\ Over \in Task
    BY <2>1, EntryTypes DEF AgreesOn, Over, NoTask
  <2>3. held' = [held EXCEPT ![n] = e] /\ task' = [task EXCEPT ![n] = Over] /\ UNCHANGED <<begun>>
    BY <1>1, <1>9 DEF WriteDown, TypeOK
  <2>4. QED
    BY <1>3, <2>1, <2>2, <2>3
<1>10. QED
  BY <1>4, <1>5, <1>6, <1>7, <1>8, <1>9 DEF Step

\* The register and the runtime agree in every reachable state.
THEOREM RegisterAgrees == Spec => []Agreement
<1>1. Agreement /\ [Next]_vars => Agreement'
  <2> SUFFICES ASSUME Agreement, [Next]_vars PROVE Agreement'
    OBVIOUS
  <2>1. ASSUME NEW n \in Name, NEW l \in Lease, Begin(n, l) PROVE Agreement'
    BY <2>1, BeginAgrees
  <2>2. ASSUME NEW n \in Name, About(n) PROVE Agreement'
    BY <2>2, AboutAgrees
  <2>3. ASSUME NEW n \in Name, Stop(n) PROVE Agreement'
    BY <2>3, StopAgrees
  <2>4. ASSUME NEW n \in Name, Step(n) PROVE Agreement'
    BY <2>4, StepAgrees
  <2>5. CASE Sweep
    BY <2>5, SweepAgrees
  <2>6. CASE UNCHANGED vars
    BY <2>6 DEF Agreement, TypeOK, WorkIsRecorded, RunningIsUnended, Alive, vars
  <2>7. QED
    BY <2>1, <2>2, <2>3, <2>4, <2>5, <2>6 DEF Next
<1>2. QED
  BY InitAgrees, <1>1, PTL DEF Spec

\* Every variable of the register keeps its type.
THEOREM JobsTyped == Spec => []TypeOK
<1>1. Agreement => TypeOK
  BY DEF Agreement
<1>2. QED
  BY RegisterAgrees, <1>1, PTL

\* Work still going is never let go: Register::making_room and Jobs::sweep take
\* finished work and leased work only, whatever the number of names and the room.
THEOREM WorkIsNeverLost == Spec => []WorkIsRecorded
<1>1. Agreement => WorkIsRecorded
  BY DEF Agreement
<1>2. QED
  BY RegisterAgrees, <1>1, PTL

\* A name answered as still going is one whose work was not ended.
THEOREM RunningWasNotEnded == Spec => []RunningIsUnended
<1>1. Agreement => RunningIsUnended
  BY DEF Agreement
<1>2. QED
  BY RegisterAgrees, <1>1, PTL

---------------------------------------------------------------------------
\* Work that came to an outcome of its own has written it down and is over.
DoneIsOver == \A n \in Name : held[n].standing = "done" => task[n].at = "over"

\* What one step makes of one entry and its task: it stays as far as it got, is let
\* go of, ends while it ran, is written down by its task, or begins.
LEMMA StepOfOne ==
    ASSUME Agreement, [Next]_vars, NEW m \in Name
    PROVE  \/ /\ held'[m].standing = held[m].standing /\ held'[m].begun = held[m].begun
              /\ task[m].at = "over" => task'[m].at = "over"
           \/ held'[m] = NoEntry
           \/ /\ held[m].standing = "running" /\ held'[m].standing = "ended"
              /\ held'[m].begun = held[m].begun
           \/ /\ WriteDown(m) /\ held[m].standing # "absent" /\ task'[m].at = "over"
              /\ held'[m].standing \in Outcome /\ held'[m].begun = held[m].begun
           \/ \E l \in Lease : Begin(m, l) /\ held'[m] = Begun(l)
<1> DEFINE Kept == /\ held'[m].standing = held[m].standing /\ held'[m].begun = held[m].begun
                   /\ task[m].at = "over" => task'[m].at = "over"
           Ending == /\ held[m].standing = "running" /\ held'[m].standing = "ended"
                     /\ held'[m].begun = held[m].begun
<1>0. TypeOK /\ held[m] \in Entry /\ task[m] \in Task
  BY DEF Agreement, TypeOK
<1>a. task[m].at = "over" => Abort(task[m]).at = "over"
  BY DEF Abort
<1>1. ASSUME NEW n \in Name, NEW l \in Lease, Begin(n, l)
      PROVE  Kept \/ held'[m] = NoEntry \/ (Begin(m, l) /\ held'[m] = Begun(l))
  <2>1. CASE m = n
    BY <1>1, <2>1 DEF Begin
  <2>2. CASE m # n
    BY <1>0, <1>1, <2>2 DEF Begin, TypeOK
  <2>3. QED
    BY <2>1, <2>2
<1>2. ASSUME NEW n \in Name, About(n) PROVE Kept
  BY <1>0, <1>2 DEF About, TypeOK, Entry
<1>3. ASSUME NEW n \in Name, Stop(n) PROVE Kept \/ Ending
  <2>1. CASE m \in {n} \cap Running
    <3>1. held'[m] = [held[m] EXCEPT !.standing = "ended"] /\ held[m].standing = "running"
      BY <1>3, <2>1 DEF Stop, Ended, Running
    <3>2. QED
      BY <1>0, <3>1 DEF Entry
  <2>2. CASE m \notin {n} \cap Running
    BY <1>3, <2>2 DEF Stop, Ended
  <2>3. QED
    BY <2>1, <2>2
<1>4. ASSUME Sweep PROVE Kept \/ Ending \/ held'[m] = NoEntry
  <2>1. held'[m] = Swept(m) /\ task'[m] = IF m \in SweptRunning THEN Abort(task[m]) ELSE task[m]
    BY <1>4 DEF Sweep
  <2>2. CASE m \in SweptFinished
    <3>1. m \notin SweptRunning
      BY <2>2 DEF SweptRunning, SweptFinished, Running, Finished, Outcome
    <3>2. QED
      BY <2>1, <2>2, <3>1 DEF Swept
  <2>3. CASE m \notin SweptFinished /\ m \in SweptRunning
    <3>1. held'[m] = [held[m] EXCEPT !.standing = "ended", !.asked = "no"]
      BY <2>1, <2>3 DEF Swept
    <3>2. QED
      BY <1>0, <2>3, <3>1 DEF Entry, SweptRunning, Running
  <2>4. CASE m \notin SweptFinished /\ m \notin SweptRunning
    <3>1. held'[m] = [held[m] EXCEPT !.asked = "no"] /\ task'[m] = task[m]
      BY <2>1, <2>4 DEF Swept
    <3>2. QED
      BY <1>0, <3>1 DEF Entry
  <2>5. QED
    BY <2>2, <2>3, <2>4
<1>5. ASSUME NEW n \in Name, NEW s \in Outcome,
             Poll(n) \/ Yield(n) \/ Land(n, s) \/ Panic(n) \/ Contended(n)
      PROVE  Kept
  <2>1. held' = held /\ task[n].at # "over" /\ (m # n => task'[m] = task[m])
    BY <1>0, <1>5 DEF Poll, Yield, Land, Panic, Contended, TypeOK
  <2>2. QED
    BY <2>1
<1>6. ASSUME NEW n \in Name, WriteDown(n)
      PROVE  \/ Kept
             \/ /\ WriteDown(m) /\ held[m].standing # "absent" /\ task'[m].at = "over"
                /\ held'[m].standing \in Outcome /\ held'[m].begun = held[m].begun
  <2>1. CASE m = n
    <3>1. held'[m] = [held[m] EXCEPT !.standing = IF @ = "absent" THEN @ ELSE task[m].came]
      BY <1>0, <1>6, <2>1 DEF WriteDown, TypeOK
    <3>2. task'[m].at = "over"
      BY <1>0, <1>6, <2>1 DEF WriteDown, TypeOK, Over, NoTask
    <3>3. task[m].came \in Outcome
      BY <1>0 DEF Task
    <3>4. QED
      BY <1>0, <1>6, <2>1, <3>1, <3>2, <3>3 DEF Entry
  <2>2. CASE m # n
    BY <1>0, <1>6, <2>2 DEF WriteDown, TypeOK
  <2>3. QED
    BY <2>1, <2>2
<1>7. CASE UNCHANGED vars
  BY <1>7 DEF vars
<1>8. \A n \in Name : CameTo(held[n].lease) \subseteq Outcome
  BY DEF CameTo, Outcome
<1>9. "done" \in Outcome
  BY DEF Outcome
<1>10. QED
  BY <1>1, <1>2, <1>3, <1>4, <1>5, <1>6, <1>7, <1>8, <1>9 DEF Next, Step

LEMMA DoneIsOverNext ==
    ASSUME Agreement, DoneIsOver, [Next]_vars
    PROVE  DoneIsOver'
<1> SUFFICES ASSUME NEW m \in Name, held'[m].standing = "done" PROVE task'[m].at = "over"
  BY DEF DoneIsOver
<1>1. held'[m] # NoEntry /\ \A l \in Lease : held'[m] # Begun(l)
  BY DEF NoEntry, Begun
<1>2. QED
  BY <1>1, StepOfOne DEF DoneIsOver

THEOREM DoneStaysOver == Spec => []DoneIsOver
<1>1. Init => DoneIsOver
  BY DEF Init, DoneIsOver, NoEntry
<1>2. Agreement /\ DoneIsOver /\ [Next]_vars => DoneIsOver'
  BY DoneIsOverNext
<1>3. QED
  BY <1>1, <1>2, RegisterAgrees, PTL DEF Spec

\* What a name was said to have come to is never replaced: the abort of a job that has
\* finished, the sweep and the job's own writing down leave it or let go of it, and a
\* name let go of is not heard of again (Jobs::stop, Jobs::sweep, Jobs::begin's task).
THEOREM OutcomeStands == Spec => OutcomeIsFinal
<1> DEFINE Final(n) ==
        \/ held[n].standing = "done"
        \/ held[n].standing = "absent" /\ task[n].at # "none"
        => held'[n].standing \in {held[n].standing, "absent"}
<1>1. ASSUME Agreement, DoneIsOver, [Next]_vars, NEW n \in Name PROVE Final(n)
  <2>1. ASSUME held'[n] = NoEntry PROVE Final(n)
    BY <2>1 DEF NoEntry
  <2>2. ASSUME WriteDown(n), held[n].standing # "absent" PROVE Final(n)
    BY <1>1, <2>2 DEF WriteDown, DoneIsOver
  <2>3. ASSUME NEW l \in Lease, Begin(n, l) PROVE Final(n)
    BY <1>1, <2>3 DEF Begin, Agreement, NoEntry
  <2>4. QED
    BY <1>1, <2>1, <2>2, <2>3, StepOfOne
<1>2. Agreement /\ DoneIsOver /\ [Next]_vars => [\A n \in Name : Final(n)]_vars
  BY <1>1
<1>3. QED
  BY <1>2, RegisterAgrees, DoneStaysOver, PTL DEF Spec, OutcomeIsFinal

---------------------------------------------------------------------------
\* Names are numbered as they begin, and those held are finitely many, within the bound.
Counted ==
    /\ IsFiniteSet(Held)
    /\ \A n \in Held : held[n].begun <= begun
    /\ \A m, n \in Held : held[m].begun = held[n].begun => m = n
    /\ RegisterIsBounded

\* Of finished names that are numbered apart, those with fewer than k newer ones
\* beside them are at most k.
LEMMA NewestAreFew ==
    ASSUME NEW S, IsFiniteSet(S), NEW f \in [S -> Nat], NEW k \in Nat,
           \A m, n \in S : f[m] = f[n] => m = n
    PROVE  LET U == {n \in S : ~(Cardinality({m \in S : f[m] > f[n]}) >= k)}
           IN  IsFiniteSet(U) /\ Cardinality(U) <= k
<1> DEFINE Newer(n) == {m \in S : f[m] > f[n]}
           U == {n \in S : ~(Cardinality(Newer(n)) >= k)}
<1> SUFFICES IsFiniteSet(U) /\ Cardinality(U) <= k
  OBVIOUS
<1> HIDE DEF U
<1>0. \A n : n \in U <=> n \in S /\ ~(Cardinality(Newer(n)) >= k)
  BY DEF U
<1>1. U \in SUBSET S
  BY <1>0
<1>2. IsFiniteSet(U) /\ Cardinality(U) \in Nat
  BY <1>1, FS_Subset, FS_CardinalityType
<1>3. CASE U = {}
  <2>1. Cardinality(U) = 0
    BY <1>3, FS_EmptySet
  <2>2. QED
    BY <1>2, <2>1
<1>4. CASE U # {}
  <2> DEFINE T == {f[n] : n \in U}
  <2>1. T \subseteq Nat /\ T # {}
    <3>1. PICK u : u \in U
      BY <1>4
    <3>2. f[u] \in T
      BY <3>1
    <3>3. QED
      BY <1>1, <3>2
  <2>2. \E x \in T : \A y \in T : ~(<<y, x>> \in OpToRel(<, Nat))
    BY <2>1, NatLessThanWellFounded, WFMin
  <2>3. PICK n \in U : \A y \in T : ~(<<y, f[n]>> \in OpToRel(<, Nat))
    BY <2>2
  <2>4. n \in S /\ ~(Cardinality(Newer(n)) >= k)
    BY <1>0
  <2>5. U \ {n} \subseteq Newer(n)
    <3>1. ASSUME NEW m \in U, m # n PROVE f[m] > f[n]
      <4>1. f[m] \in T /\ f[m] \in Nat /\ f[n] \in Nat
        BY <1>1, <2>4
      <4>2. ~(f[m] < f[n])
        BY <2>3, <4>1 DEF OpToRel
      <4>3. f[m] # f[n]
        BY <1>1, <2>4, <3>1
      <4>4. QED
        BY <4>1, <4>2, <4>3
    <3>2. QED
      BY <1>1, <3>1
  <2>6. Newer(n) \in SUBSET S
    OBVIOUS
  <2>7. IsFiniteSet(Newer(n)) /\ Cardinality(Newer(n)) \in Nat
    BY <2>6, FS_Subset, FS_CardinalityType
  <2>8. U \ {n} \in SUBSET Newer(n)
    BY <2>5
  <2>9. Cardinality(U \ {n}) <= Cardinality(Newer(n))
    BY <2>7, <2>8, FS_Subset
  <2>10. Cardinality(U \ {n}) = Cardinality(U) - 1
    BY <1>2, FS_RemoveElement
  <2>11. Cardinality(U) <= k
    BY <1>2, <2>4, <2>7, <2>9, <2>10
  <2>12. QED
    BY <1>2, <2>11
<1>5. QED
  BY <1>3, <1>4

\* What is held after work began: the name itself, what was running, and as much of
\* what had finished as there is room for besides.
LEMMA RoomIsMade ==
    ASSUME Agreement, Counted, NEW n \in Name, NEW l \in Lease, Begin(n, l)
    PROVE  Counted'
<1> DEFINE Stays == Finished \ MakingRoom
<1>0. TypeOK /\ FINISHED_AT_MOST - 1 \in Nat /\ AT_ONCE \in Nat /\ begun \in Nat
  BY JobsAssumption DEF Agreement, TypeOK
<1>1. \A m \in Name : held'[m] = IF m = n THEN Begun(l)
                                 ELSE IF m \in MakingRoom THEN NoEntry ELSE held[m]
  BY DEF Begin
<1>2. Held' = {n} \cup Running \cup Stays
  <2>1. held[n].standing = "absent"
    BY DEF Begin, Agreement, NoEntry
  <2>2. Begun(l).standing = "running" /\ NoEntry.standing = "absent"
    BY DEF Begun, NoEntry
  <2>3. Held = Running \cup Finished
    BY <1>0 DEF Held, Running, Finished, TypeOK, Entry, Outcome
  <2>4. MakingRoom \subseteq Finished /\ Running \cap Finished = {} /\ n \notin Held
    BY <2>1 DEF MakingRoom, Running, Finished, Outcome, Held
  <2>5. Held' = {m \in Name : held'[m].standing # "absent"}
    BY DEF Held
  <2>6. \A m \in Name : held'[m].standing # "absent" <=>
                m = n \/ (m \notin MakingRoom /\ held[m].standing # "absent")
    BY <1>1, <2>2
  <2>7. Held' = {n} \cup (Held \ MakingRoom)
    BY <2>5, <2>6 DEF Held
  <2>8. QED
    BY <2>3, <2>4, <2>7
<1>3. IsFiniteSet(Running) /\ IsFiniteSet(Finished)
  <2>1. Running \in SUBSET Held /\ Finished \in SUBSET Held
    BY DEF Running, Finished, Held, Outcome
  <2>2. QED
    BY <2>1, FS_Subset DEF Counted
<1>4. IsFiniteSet(Stays) /\ Cardinality(Stays) <= FINISHED_AT_MOST - 1
  <2> DEFINE f == [m \in Finished |-> held[m].begun]
  <2>1. Finished \subseteq Held /\ Finished \subseteq Name
    BY DEF Finished, Held, Outcome
  <2>2. f \in [Finished -> Nat]
    BY <1>0, <2>1 DEF TypeOK, Entry
  <2>3. \A a, b \in Finished : f[a] = f[b] => a = b
    BY <2>1 DEF Counted
  <2>4. LET U == {a \in Finished :
                    ~(Cardinality({b \in Finished : f[b] > f[a]}) >= FINISHED_AT_MOST - 1)}
        IN  IsFiniteSet(U) /\ Cardinality(U) <= FINISHED_AT_MOST - 1
    BY <1>0, <1>3, <2>2, <2>3, NewestAreFew
  <2>5. \A a \in Finished : {b \in Finished : f[b] > f[a]}
                                = {b \in Finished : held[b].begun > held[a].begun}
    OBVIOUS
  <2>6. Stays = {a \in Finished :
                    ~(Cardinality({b \in Finished : f[b] > f[a]}) >= FINISHED_AT_MOST - 1)}
    BY <2>5 DEF MakingRoom
  <2>7. QED
    BY <2>4, <2>6
<1>5. Cardinality(Running) \in Nat /\ Cardinality(Running) + 1 <= AT_ONCE
  BY <1>0, <1>3, FS_CardinalityType DEF Begin
<1>6. IsFiniteSet(Held') /\ Cardinality(Held') <= FINISHED_AT_MOST - 1 + AT_ONCE
  <2>1. /\ IsFiniteSet(Running \cup Stays)
        /\ Cardinality(Running \cup Stays)
            = Cardinality(Running) + Cardinality(Stays) - Cardinality(Running \cap Stays)
    BY <1>3, <1>4, FS_Union
  <2>2. Running \cap Stays \in SUBSET Running
    OBVIOUS
  <2>3. Cardinality(Running \cap Stays) \in Nat
    BY <1>3, <2>2, FS_Subset, FS_CardinalityType
  <2>4. Cardinality(Stays) \in Nat /\ Cardinality(Running \cup Stays) \in Nat
    BY <1>4, <2>1, FS_CardinalityType
  <2>5. /\ IsFiniteSet((Running \cup Stays) \cup {n})
        /\ Cardinality((Running \cup Stays) \cup {n}) <= Cardinality(Running \cup Stays) + 1
    <3>1. /\ IsFiniteSet((Running \cup Stays) \cup {n})
          /\ Cardinality((Running \cup Stays) \cup {n}) =
                IF n \in Running \cup Stays THEN Cardinality(Running \cup Stays)
                ELSE Cardinality(Running \cup Stays) + 1
      BY <2>1, FS_AddElement
    <3>2. QED
      BY <2>4, <3>1
  <2>6. (Running \cup Stays) \cup {n} = Held'
    BY <1>2
  <2>7. Cardinality(Held') \in Nat
    BY <2>5, <2>6, FS_CardinalityType
  <2>8. IsFiniteSet(Held') /\ Cardinality(Held') <= Cardinality(Running \cup Stays) + 1
    BY <2>5, <2>6
  <2>9. Cardinality(Running \cup Stays) <= Cardinality(Running) + Cardinality(Stays)
    BY <1>5, <2>1, <2>3, <2>4
  <2>10. QED
    BY <1>0, <1>4, <1>5, <2>4, <2>7, <2>8, <2>9
<1>7. begun' = begun + 1 /\ Begun(l).begun = begun + 1
  BY DEF Begin, Begun
<1>8. \A m \in Held' : (m = n /\ held'[m].begun = begun + 1)
                       \/ (m # n /\ m \in Held /\ held'[m].begun = held[m].begun)
  <2>1. \A m \in Held' : m \in Name /\ (m # n => m \in Held /\ m \notin MakingRoom)
    <3>1. Running \cap MakingRoom = {} /\ Running \subseteq Held /\ Finished \subseteq Held
      BY DEF MakingRoom, Running, Finished, Outcome, Held
    <3>2. QED
      BY <1>2, <3>1 DEF Held
  <2>2. QED
    BY <1>1, <1>7, <2>1
<1>9. \A m \in Held : held[m].begun \in Nat /\ held[m].begun <= begun
  BY <1>0 DEF Counted, TypeOK, Entry, Held
<1>10. \A m \in Held' : held'[m].begun <= begun'
  BY <1>0, <1>7, <1>8, <1>9
<1>11. \A a, b \in Held' : held'[a].begun = held'[b].begun => a = b
  <2> SUFFICES ASSUME NEW a \in Held', NEW b \in Held', held'[a].begun = held'[b].begun
               PROVE  a = b
    OBVIOUS
  <2>1. CASE a = n \/ b = n
    BY <1>0, <1>8, <1>9, <2>1
  <2>2. CASE a # n /\ b # n
    BY <1>8, <2>2 DEF Counted
  <2>3. QED
    BY <2>1, <2>2
<1>12. QED
  BY <1>6, <1>10, <1>11 DEF Counted, RegisterIsBounded

\* A step that begins nothing adds nothing.
LEMMA NothingIsAdded ==
    ASSUME Agreement, Counted, [Next]_vars, ~\E n \in Name, l \in Lease : Begin(n, l)
    PROVE  Counted'
<1>1. begun' = begun
  BY DEF Next, Begin, About, Stop, Sweep, Step, Poll, Yield, Land, Panic, Contended, WriteDown, vars
<1>2. ASSUME NEW m \in Name, held'[m].standing # "absent"
      PROVE  held[m].standing # "absent" /\ held'[m].begun = held[m].begun
  <2>1. held'[m] # NoEntry
    BY <1>2 DEF NoEntry
  <2>2. QED
    BY <1>2, <2>1, StepOfOne
<1>3. Held' \in SUBSET Held /\ \A m \in Held' : held'[m].begun = held[m].begun
  BY <1>2 DEF Held
<1>4. IsFiniteSet(Held') /\ Cardinality(Held') <= Cardinality(Held)
  BY <1>3, FS_Subset DEF Counted
<1>5. Cardinality(Held') \in Nat /\ Cardinality(Held) \in Nat
  BY <1>4, FS_CardinalityType DEF Counted
<1>6. FINISHED_AT_MOST - 1 + AT_ONCE \in Nat
  BY JobsAssumption
<1>7. Cardinality(Held') <= FINISHED_AT_MOST - 1 + AT_ONCE
  BY <1>4, <1>5, <1>6 DEF Counted, RegisterIsBounded
<1>8. QED
  BY <1>1, <1>3, <1>4, <1>7 DEF Counted, RegisterIsBounded

\* However long the server runs, and however many names it mints, the register holds no
\* more than the room for finished work and the work running at once
\* (Register::making_room, Jobs::begin).
THEOREM RegisterStaysBounded == Spec => []RegisterIsBounded
<1>1. Init => Counted
  <2> SUFFICES ASSUME Init PROVE Counted
    OBVIOUS
  <2>1. Held = {}
    BY DEF Init, Held, NoEntry
  <2>2. QED
    BY <2>1, FS_EmptySet, JobsAssumption DEF Counted, RegisterIsBounded
<1>2. Agreement /\ Counted /\ [Next]_vars => Counted'
  BY RoomIsMade, NothingIsAdded
<1>3. Counted => RegisterIsBounded
  BY DEF Counted
<1>4. QED
  BY <1>1, <1>2, <1>3, RegisterAgrees, PTL DEF Spec
=============================================================================
