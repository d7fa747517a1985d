---------------------------- MODULE LockProofs ----------------------------
(***************************************************************************)
(* One operation at a time, for any number of runs and processes and every *)
(* length of the wait.                                                     *)
(***************************************************************************)
EXTENDS Lock, TLAPS

\* Who still has a claim to give back owns the file, until one was struck.
KeptIsOwned == struck = "no" => \A r \in Run : Keeps(r) => Owns(r)

\* A holder is asked about by its process, and one that is found gone is one that died.
GoneIsDead ==
    \A r \in Run :
        /\ pc[r] = "asking" => read[r] \in Process
        /\ pc[r] \in {"again", "removing"} => alive # Process

\* A claim is struck by force, or where a process has died.
StruckBy == struck = "no" \/ struck = "forced" \/ alive # Process

\* The looks since a holder was found gone are among the looks slept through.
LooksAreWaited == \A r \in Run : looks[r] <= waited[r]

LockInv == TypeOK /\ LooksAreWaited /\ KeptIsOwned /\ GoneIsDead /\ StruckBy

LEMMA InitLock == Init => LockInv
  BY LockAssumption
     DEF Init, LockInv, TypeOK, LooksAreWaited, KeptIsOwned, GoneIsDead, StruckBy, At, Struck,
         Keeps, Lives

\* What a step of one run does to the places of the others: nothing.
LEMMA GoesOnly ==
    ASSUME TypeOK, NEW r \in Run, NEW from, NEW to \in At, Goes(r, from, to)
    PROVE  /\ pc' \in [Run -> At] /\ pc'[r] = to /\ pc[r] = from
           /\ \A s \in Run \ {r} : pc'[s] = pc[s]
  BY DEF TypeOK, Goes

\* Removing the file strikes a claim only where another run keeps it, and where none is
\* struck nobody but the remover kept one (FileSystem::remove).
LEMMA RemovedStrikes ==
    ASSUME LockInv, NEW r \in Run, NEW why \in Struck, Removed(r, why)
    PROVE  /\ claim' = Nothing /\ struck' \in Struck
           /\ struck = "no" /\ Keeps(r) => struck' = "no"
           /\ struck' = struck \/ struck' = why
           /\ why # "no" /\ struck' = "no" => \A s \in Run \ {r} : ~Keeps(s)
<1>1. claim' = Nothing /\ struck' \in Struck /\ (struck' = struck \/ struck' = why)
  BY DEF Removed, LockInv, TypeOK
<1>2. struck = "no" /\ Keeps(r) => struck' = "no"
  <2> SUFFICES ASSUME struck = "no", Keeps(r) PROVE struck' = "no"
    OBVIOUS
  <2>1. Owns(r)
    BY DEF LockInv, KeptIsOwned
  <2>2. \A h \in Run \ {r} : ~Owns(h)
    BY <2>1 DEF Owns
  <2>3. QED
    BY <2>2 DEF Removed
<1>3. ASSUME why # "no", struck' = "no", NEW s \in Run \ {r}, Keeps(s) PROVE FALSE
  <2>1. struck = "no"
    BY <1>1, <1>3
  <2>2. Owns(s)
    BY <1>3, <2>1 DEF LockInv, KeptIsOwned
  <2>3. QED
    BY <1>3, <2>1, <2>2 DEF Removed
<1>4. QED
  BY <1>1, <1>2, <1>3

\* Whether the file could be removed or not, what stands and what was struck are typed, and
\* a claim is struck only for the reason given, and by no run that keeps its own.
LEMMA RemoveStrikes ==
    ASSUME LockInv, NEW r \in Run, NEW why \in Struck, Remove(r, why)
    PROVE  /\ claim' \in Claim \cup {Nothing} /\ struck' \in Struck /\ left' \in {"no", "yes"}
           /\ struck = "no" /\ Keeps(r) => struck' = "no"
           /\ struck' = struck \/ struck' = why
<1>1. CASE Removed(r, why)
  BY <1>1, RemovedStrikes DEF Removed
<1>2. CASE NotRemoved(r)
  BY <1>2 DEF NotRemoved, LockInv, TypeOK
<1>3. QED
  BY <1>1, <1>2 DEF Remove

\* Where the file, the processes and what was struck stay, and no run becomes a keeper,
\* keepers own as before.
LEMMA StaysOwned ==
    ASSUME KeptIsOwned, alive' \subseteq alive, struck' = struck,
           \A s \in Run : Owns(s) => Owns(s)',
           \A s \in Run : pc'[s] \in {"writing", "working", "dropped"}
                            => pc[s] \in {"writing", "working", "dropped"}
    PROVE  KeptIsOwned'
  BY DEF KeptIsOwned, Keeps, Lives

\* A run that is not a keeper after a removal leaves no keeper where nothing is struck,
\* and where the file could not be removed keepers own as before.
LEMMA RemovedIsOwned ==
    ASSUME LockInv, NEW r \in Run, NEW why \in Struck \ {"no"}, Remove(r, why),
           alive' = alive, \A s \in Run \ {r} : pc'[s] = pc[s],
           pc'[r] \in {"idle", "trying"}
    PROVE  KeptIsOwned'
<1>1. CASE Removed(r, why)
  <2> SUFFICES ASSUME struck' = "no", NEW s \in Run, Keeps(s)' PROVE FALSE
    BY DEF KeptIsOwned
  <2>1. s # r
    BY DEF Keeps
  <2>2. Keeps(s)
    BY <2>1 DEF Keeps, Lives
  <2>3. QED
    BY <1>1, <2>1, <2>2, RemovedStrikes
<1>2. CASE NotRemoved(r)
  BY <1>2, StaysOwned DEF NotRemoved, Owns, LockInv
<1>3. QED
  BY <1>1, <1>2 DEF Remove

LEMMA NextLock == ASSUME LockInv, [Next]_vars PROVE LockInv'
<1> USE DEF LockInv
<1>0. \A r \in Run : looks[r] \in Nat /\ waited[r] \in Nat /\ TURN \in Nat /\ waited[r] <= TURN
  BY LockAssumption DEF TypeOK
<1>1. ASSUME NEW r \in Run, Start(r) PROVE LockInv'
  <2>1. UNCHANGED <<claim, alive, read, looks, waited, struck, left>>
    BY <1>1 DEF Start
  <2>2. /\ pc' \in [Run -> At] /\ pc'[r] \in {"trying", "forcing"}
        /\ \A s \in Run \ {r} : pc'[s] = pc[s]
    BY <1>1 DEF Start, Goes, TypeOK, At
  <2>3. TypeOK' /\ LooksAreWaited' /\ GoneIsDead' /\ StruckBy'
    BY <2>1, <2>2 DEF TypeOK, LooksAreWaited, GoneIsDead, StruckBy
  <2>4. KeptIsOwned'
    BY <2>1, <2>2, StaysOwned DEF Owns
  <2>5. QED
    BY <2>3, <2>4
<1>2. ASSUME NEW r \in Run, GoAhead(r) PROVE LockInv'
  <2>1. Remove(r, "forced") /\ UNCHANGED <<alive, read, looks, waited>>
    BY <1>2 DEF GoAhead
  <2>2. /\ pc' \in [Run -> At] /\ pc'[r] = "trying"
        /\ \A s \in Run \ {r} : pc'[s] = pc[s]
    BY <1>2, GoesOnly DEF GoAhead, At
  <2>3. /\ claim' \in Claim \cup {Nothing} /\ left' \in {"no", "yes"}
        /\ struck' \in Struck /\ struck' \in {struck, "forced"}
    BY <2>1, RemoveStrikes DEF Struck
  <2>4. KeptIsOwned'
    BY <2>1, <2>2, RemovedIsOwned DEF Struck
  <2>5. TypeOK' /\ LooksAreWaited' /\ GoneIsDead' /\ StruckBy'
    BY <2>1, <2>2, <2>3 DEF TypeOK, LooksAreWaited, GoneIsDead, StruckBy
  <2>6. QED
    BY <2>4, <2>5
<1>3. ASSUME NEW r \in Run, Make(r) PROVE LockInv'
  <2>1. /\ claim = Nothing /\ claim' = [by |-> r, says |-> Nothing]
        /\ UNCHANGED <<alive, read, struck, left>>
    BY <1>3 DEF Make
  <2>2. /\ pc' \in [Run -> At] /\ pc'[r] = "writing"
        /\ \A s \in Run \ {r} : pc'[s] = pc[s]
    BY <1>3, GoesOnly DEF Make, At
  <2>3. claim' \in Claim /\ claim' # Nothing /\ claim'.by = r
    BY <2>1, NothingAssumption DEF Claim
  <2>4. KeptIsOwned'
    <3> SUFFICES ASSUME struck' = "no", NEW s \in Run, Keeps(s)' PROVE Owns(s)'
      BY DEF KeptIsOwned
    <3>1. s = r
      <4> SUFFICES ASSUME s # r PROVE FALSE
        OBVIOUS
      <4>1. Keeps(s) /\ struck = "no"
        BY <2>1, <2>2 DEF Keeps, Lives
      <4>2. QED
        BY <2>1, <4>1 DEF KeptIsOwned, Owns
    <3>2. QED
      BY <2>3, <3>1 DEF Owns
  <2>5. /\ looks' \in [Run -> 0 .. TURN + 1] /\ waited' \in [Run -> 0 .. TURN]
        /\ \A s \in Run : looks'[s] <= waited'[s]
    BY <1>0, <1>3 DEF Make, Reset, TypeOK, LooksAreWaited
  <2>6. TypeOK' /\ LooksAreWaited' /\ GoneIsDead' /\ StruckBy'
    BY <2>1, <2>2, <2>3, <2>5 DEF TypeOK, LooksAreWaited, GoneIsDead, StruckBy
  <2>7. QED
    BY <2>4, <2>6
<1>4. ASSUME NEW r \in Run, claim' \in Written(r) PROVE
        /\ claim' \in Claim \cup {Nothing}
        /\ \A s \in Run : Owns(s) => Owns(s)'
  <2>1. CASE claim' = claim
    BY <2>1 DEF Owns, TypeOK
  <2>2. CASE Owns(r) /\ claim' = [claim EXCEPT !.says = ProcessOf[r]]
    <3>1. claim \in Claim
      BY <2>2 DEF Owns, TypeOK
    <3>2. claim' = [by |-> claim.by, says |-> ProcessOf[r]]
      BY <2>2, <3>1 DEF Claim
    <3>3. claim' \in Claim
      BY <3>1, <3>2, LockAssumption DEF Claim
    <3>4. QED
      BY <3>2, <3>3, NothingAssumption DEF Owns
  <2>3. QED
    BY <1>4, <2>1, <2>2 DEF Written
<1>5. ASSUME NEW r \in Run, Write(r) PROVE LockInv'
  <2>1. UNCHANGED <<alive, read, looks, waited, struck, left>> /\ claim' \in Written(r)
    BY <1>5 DEF Write
  <2>2. /\ pc' \in [Run -> At] /\ pc'[r] = "working" /\ pc[r] = "writing"
        /\ \A s \in Run \ {r} : pc'[s] = pc[s]
    BY <1>5, GoesOnly DEF Write, At
  <2>3. KeptIsOwned'
    BY <1>4, <2>1, <2>2, StaysOwned
  <2>4. TypeOK' /\ LooksAreWaited' /\ GoneIsDead' /\ StruckBy'
    BY <1>4, <2>1, <2>2 DEF TypeOK, LooksAreWaited, GoneIsDead, StruckBy
  <2>5. QED
    BY <2>3, <2>4
<1>6. ASSUME NEW r \in Run, Taken(r) PROVE LockInv'
  <2>1. UNCHANGED <<claim, alive, read, looks, waited, struck, left>>
    BY <1>6 DEF Taken
  <2>2. /\ pc' \in [Run -> At] /\ pc'[r] \in {"reading", "judging"}
        /\ \A s \in Run \ {r} : pc'[s] = pc[s]
    BY <1>6 DEF Taken, Goes, TypeOK, At
  <2>3. TypeOK' /\ LooksAreWaited' /\ GoneIsDead' /\ StruckBy'
    BY <2>1, <2>2 DEF TypeOK, LooksAreWaited, GoneIsDead, StruckBy
  <2>4. KeptIsOwned'
    BY <2>1, <2>2, StaysOwned DEF Owns
  <2>5. QED
    BY <2>3, <2>4
<1>7. Said \in Process \cup {Nothing}
  BY DEF Said, TypeOK, Claim
<1>8. ASSUME NEW r \in Run, Read(r) PROVE LockInv'
  <2>1. UNCHANGED <<claim, alive, looks, waited, struck, left>>
    BY <1>8 DEF Read
  <2>2. /\ pc' \in [Run -> At] /\ pc'[r] \in {"judging", "asking"}
        /\ \A s \in Run \ {r} : pc'[s] = pc[s]
    BY <1>8 DEF Read, Goes, TypeOK, At
  <2>3. /\ read' \in [Run -> Process \cup {Nothing}]
        /\ pc'[r] = "asking" => read'[r] \in Process
        /\ \A s \in Run \ {r} : read'[s] = read[s]
    BY <1>7, <1>8 DEF Read, Goes, TypeOK
  <2>4. TypeOK' /\ LooksAreWaited' /\ GoneIsDead' /\ StruckBy'
    BY <2>1, <2>2, <2>3 DEF TypeOK, LooksAreWaited, GoneIsDead, StruckBy
  <2>5. KeptIsOwned'
    BY <2>1, <2>2, StaysOwned DEF Owns
  <2>6. QED
    BY <2>4, <2>5
<1>9. ASSUME NEW r \in Run, Asked(r) PROVE LockInv'
  <2>1. UNCHANGED <<claim, alive, looks, waited, struck, left>>
    BY <1>9 DEF Asked
  <2>2. /\ pc' \in [Run -> At] /\ pc'[r] \in {"again", "judging"} /\ pc[r] = "asking"
        /\ \A s \in Run \ {r} : pc'[s] = pc[s]
    BY <1>9 DEF Asked, Goes, TypeOK, At
  <2>3. /\ read' \in [Run -> Process \cup {Nothing}]
        /\ \A s \in Run \ {r} : read'[s] = read[s]
    BY <1>9 DEF Asked, Forget, TypeOK
  <2>4. pc'[r] = "again" => alive # Process
    <3>1. pc'[r] = "again" => read[r] \notin alive
      BY <1>9 DEF Asked, Goes, TypeOK
    <3>2. QED
      BY <2>2, <3>1 DEF GoneIsDead
  <2>5. TypeOK' /\ LooksAreWaited' /\ GoneIsDead' /\ StruckBy'
    BY <2>1, <2>2, <2>3, <2>4 DEF TypeOK, LooksAreWaited, GoneIsDead, StruckBy
  <2>6. KeptIsOwned'
    BY <2>1, <2>2, StaysOwned DEF Owns
  <2>7. QED
    BY <2>5, <2>6
<1>10. ASSUME NEW r \in Run, ReadAgain(r) PROVE LockInv'
  <2>1. UNCHANGED <<claim, alive, looks, waited, struck, left>>
    BY <1>10 DEF ReadAgain
  <2>2. /\ pc' \in [Run -> At] /\ pc'[r] \in {"removing", "judging"} /\ pc[r] = "again"
        /\ \A s \in Run \ {r} : pc'[s] = pc[s]
    BY <1>10 DEF ReadAgain, Goes, TypeOK, At
  <2>3. /\ read' \in [Run -> Process \cup {Nothing}]
        /\ \A s \in Run \ {r} : read'[s] = read[s]
    BY <1>10 DEF ReadAgain, Forget, TypeOK
  <2>4. TypeOK' /\ LooksAreWaited' /\ GoneIsDead' /\ StruckBy'
    BY <2>1, <2>2, <2>3 DEF TypeOK, LooksAreWaited, GoneIsDead, StruckBy
  <2>5. KeptIsOwned'
    BY <2>1, <2>2, StaysOwned DEF Owns
  <2>6. QED
    BY <2>4, <2>5
<1>11. ASSUME NEW r \in Run, TakeOver(r) PROVE LockInv'
  <2>1. Remove(r, "gone") /\ UNCHANGED <<alive, read, waited>>
    BY <1>11 DEF TakeOver
  <2>2. /\ pc' \in [Run -> At] /\ pc'[r] = "trying" /\ pc[r] = "removing"
        /\ \A s \in Run \ {r} : pc'[s] = pc[s]
    BY <1>11, GoesOnly DEF TakeOver, At
  <2>3. /\ claim' \in Claim \cup {Nothing} /\ left' \in {"no", "yes"}
        /\ struck' \in Struck /\ alive # Process
    BY <2>1, <2>2, RemoveStrikes DEF Struck, GoneIsDead
  <2>4. KeptIsOwned'
    BY <2>1, <2>2, RemovedIsOwned DEF Struck
  <2>5. looks' \in [Run -> 0 .. TURN + 1] /\ \A s \in Run : looks'[s] <= waited'[s]
    BY <1>0, <1>11, <2>1 DEF TakeOver, TypeOK, LooksAreWaited
  <2>6. TypeOK' /\ LooksAreWaited' /\ GoneIsDead' /\ StruckBy'
    BY <2>1, <2>2, <2>3, <2>5 DEF TypeOK, LooksAreWaited, GoneIsDead, StruckBy
  <2>7. QED
    BY <2>4, <2>6
<1>12. ASSUME NEW r \in Run, Sleep(r) \/ Refuse(r) PROVE LockInv'
  <2>1. UNCHANGED <<claim, alive, read, struck, left>>
    BY <1>12 DEF Sleep, Refuse
  <2>2. /\ pc' \in [Run -> At] /\ pc'[r] \in {"trying", "idle"}
        /\ \A s \in Run \ {r} : pc'[s] = pc[s]
    BY <1>12 DEF Sleep, Refuse, Goes, TypeOK, At
  <2>3. /\ looks' \in [Run -> 0 .. TURN + 1] /\ waited' \in [Run -> 0 .. TURN]
        /\ \A s \in Run : looks'[s] <= waited'[s]
    <3>1. CASE Sleep(r)
      BY <1>0, <3>1 DEF Sleep, TypeOK, LooksAreWaited
    <3>2. CASE Refuse(r)
      BY <1>0, <3>2 DEF Refuse, Reset, TypeOK, LooksAreWaited
    <3>3. QED
      BY <1>12, <3>1, <3>2
  <2>4. TypeOK' /\ LooksAreWaited' /\ GoneIsDead' /\ StruckBy'
    BY <2>1, <2>2, <2>3 DEF TypeOK, LooksAreWaited, GoneIsDead, StruckBy
  <2>5. KeptIsOwned'
    BY <2>1, <2>2, StaysOwned DEF Owns
  <2>6. QED
    BY <2>4, <2>5
<1>13. ASSUME NEW r \in Run, Release(r) \/ Dropped(r) PROVE LockInv'
  <2>1. Remove(r, "late") /\ UNCHANGED <<alive, read, looks, waited>>
    BY <1>13 DEF Release, Dropped
  <2>2. /\ pc' \in [Run -> At] /\ pc'[r] = "idle" /\ Keeps(r)
        /\ \A s \in Run \ {r} : pc'[s] = pc[s]
    BY <1>13 DEF Release, Dropped, Goes, Keeps, TypeOK, At
  <2>3. /\ claim' \in Claim \cup {Nothing} /\ left' \in {"no", "yes"} /\ struck' \in Struck
        /\ struck = "no" => struck' = "no"
        /\ struck' = struck \/ struck' = "late"
    BY <2>1, <2>2, RemoveStrikes DEF Struck
  <2>4. struck' = struck
    BY <2>1, <2>3 DEF Remove, Removed, NotRemoved
  <2>5. KeptIsOwned'
    BY <2>1, <2>2, RemovedIsOwned DEF Struck
  <2>6. TypeOK' /\ LooksAreWaited' /\ GoneIsDead' /\ StruckBy'
    BY <2>1, <2>2, <2>3, <2>4 DEF TypeOK, LooksAreWaited, GoneIsDead, StruckBy
  <2>7. QED
    BY <2>5, <2>6
<1>14. ASSUME NEW r \in Run, Drop(r) PROVE LockInv'
  <2>1. UNCHANGED <<claim, alive, read, looks, waited, struck, left>>
    BY <1>14 DEF Drop
  <2>2. /\ pc' \in [Run -> At] /\ pc'[r] = "dropped" /\ pc[r] = "working"
        /\ \A s \in Run \ {r} : pc'[s] = pc[s]
    BY <1>14, GoesOnly DEF Drop, At
  <2>3. TypeOK' /\ LooksAreWaited' /\ GoneIsDead' /\ StruckBy'
    BY <2>1, <2>2 DEF TypeOK, LooksAreWaited, GoneIsDead, StruckBy
  <2>4. KeptIsOwned'
    BY <2>1, <2>2, StaysOwned DEF Owns
  <2>5. QED
    BY <2>3, <2>4
<1>15. ASSUME NEW r \in Run, Abandon(r) PROVE LockInv'
  <2>1. UNCHANGED <<alive, struck, left>> /\ (claim' = claim \/ claim' \in Written(r))
    BY <1>15 DEF Abandon
  <2>2. /\ pc' \in [Run -> At] /\ pc'[r] = "idle"
        /\ \A s \in Run \ {r} : pc'[s] = pc[s]
    BY <1>15 DEF Abandon, Goes, TypeOK, At
  <2>3. claim' \in Claim \cup {Nothing} /\ \A s \in Run : Owns(s) => Owns(s)'
    BY <1>4, <2>1 DEF TypeOK, Owns
  <2>4. /\ looks' \in [Run -> 0 .. TURN + 1] /\ waited' \in [Run -> 0 .. TURN]
        /\ \A s \in Run : looks'[s] <= waited'[s]
    BY <1>0, <1>15 DEF Abandon, Reset, TypeOK, LooksAreWaited
  <2>5. /\ read' \in [Run -> Process \cup {Nothing}]
        /\ \A s \in Run \ {r} : read'[s] = read[s]
    BY <1>15 DEF Abandon, Forget, TypeOK
  <2>6. TypeOK' /\ LooksAreWaited' /\ GoneIsDead' /\ StruckBy'
    BY <2>1, <2>2, <2>3, <2>4, <2>5 DEF TypeOK, LooksAreWaited, GoneIsDead, StruckBy
  <2>7. KeptIsOwned'
    BY <2>1, <2>2, <2>3, StaysOwned
  <2>8. QED
    BY <2>6, <2>7
<1>16. ASSUME NEW p \in Process, Kill(p) PROVE LockInv'
  <2>1. /\ UNCHANGED <<claim, pc, read, looks, waited, struck, left>>
        /\ alive' = alive \ {p} /\ alive' # Process
    BY <1>16 DEF Kill
  <2>2. TypeOK' /\ LooksAreWaited' /\ GoneIsDead' /\ StruckBy'
    BY <2>1 DEF TypeOK, LooksAreWaited, GoneIsDead, StruckBy
  <2>3. KeptIsOwned'
    BY <2>1, StaysOwned DEF Owns
  <2>4. QED
    BY <2>2, <2>3
<1>17. CASE UNCHANGED vars
  BY <1>17 DEF vars, TypeOK, LooksAreWaited, KeptIsOwned, GoneIsDead, StruckBy, Keeps, Lives, Owns
<1>18. QED
  BY <1>1, <1>2, <1>3, <1>5, <1>6, <1>8, <1>9, <1>10, <1>11, <1>12, <1>13, <1>14, <1>15,
     <1>16, <1>17 DEF Next, Steps

\* The claim, who keeps it and how it was struck agree throughout (lock.rs).
THEOREM LockInvariant == Spec => []LockInv
<1>1. Init => LockInv
  BY InitLock
<1>2. LockInv /\ [Next]_vars => LockInv'
  BY NextLock
<1>3. QED
  BY <1>1, <1>2, PTL DEF Spec

\* What the lock keeps is of its type, the bounded wait included (queued).
THEOREM LockTypeCorrect == Spec => []TypeOK
  BY LockInvariant, PTL DEF LockInv

\* One operation at a time, until a claim was taken from under a run that held it, which
\* takes --force or a process that died (claimed, gone, released).
THEOREM LockIsExclusive == Spec => []Exclusive
<1>1. LockInv => Exclusive
  <2> SUFFICES ASSUME LockInv PROVE Exclusive
    OBVIOUS
  <2>1. ASSUME struck = "no", NEW r \in Run, NEW s \in Run, Holds(r), Holds(s) PROVE r = s
    <3>1. Keeps(r) /\ Keeps(s)
      BY <2>1 DEF Holds, Keeps
    <3>2. Owns(r) /\ Owns(s)
      BY <2>1, <3>1 DEF LockInv, KeptIsOwned
    <3>3. QED
      BY <3>2 DEF Owns
  <2>2. QED
    BY <2>1 DEF Exclusive, OneAtATime, LockInv, StruckBy
<1>2. QED
  BY <1>1, LockInvariant, PTL
=============================================================================
