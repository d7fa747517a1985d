-------------------------- MODULE GatheringProofs --------------------------
(***************************************************************************)
(* What holds of the gathering for any number of clients and values, and   *)
(* whatever readings fail: its loop sleeps through nobody's arrival, and   *)
(* takes for told, of who was not, only whose own gather failed.           *)
(***************************************************************************)
EXTENDS Gathering, TLAPS

\* What is owed belongs to the gather being made, what is to be said is what the source
\* has down as told, and who is away shows nothing.
InTurn ==
    /\ owed => loop = "gathering"
    /\ saying # None => loop = "saying" /\ saying = told
    /\ \A c \in Client : at[c] = "away" => shows[c] = None

GatheringInv == TypeOK /\ InTurn /\ NobodyIsLeftOut

LEMMA InitGathers == Init => GatheringInv
<1>1. SUFFICES ASSUME Init PROVE GatheringInv
  OBVIOUS
<1>2. 0 \in 0 .. UNREAD_AT_MOST
  BY GatheringAssumption
<1>3. Listening = {}
  BY <1>1 DEF Init, Listening
<1>4. TypeOK
  BY <1>1, <1>2, Zenon DEF Init, TypeOK
<1>5. InTurn /\ NobodyIsLeftOut
  BY <1>1, <1>3, Zenon DEF Init, InTurn, NobodyIsLeftOut, ArrivalIsNoticed, NewcomerIsOwed, ShownIsTold
<1>6. QED
  BY <1>4, <1>5 DEF GatheringInv

\* A client comes, asks for a gather, or goes.
LEMMA ClientsKeep ==
    ASSUME GatheringInv, NEW c \in Client, Open(c) \/ Nudge(c) \/ Leave(c)
    PROVE  GatheringInv'
<1>1. TypeOK'
  BY DEF GatheringInv, TypeOK, Open, Nudge, Leave, gather, notices
<1>2. /\ \A d \in Client : d # c => at'[d] = at[d] /\ shows'[d] = shows[d]
      /\ UNCHANGED gather /\ \A d \in missed : d # c => d \in missed'
  BY DEF GatheringInv, TypeOK, Open, Nudge, Leave
<1>3. /\ at'[c] = "away" => shows'[c] = None
      /\ shows'[c] # None => shows'[c] = shows[c]
      /\ (joined => joined') /\ (arrived => arrived')
  BY DEF GatheringInv, TypeOK, InTurn, Open, Nudge, Leave, notices
<1>4. at'[c] # "away" => \/ joined' /\ arrived'
                         \/ at[c] # "away" /\ shows'[c] = shows[c] /\ missed' = missed
  BY DEF GatheringInv, TypeOK, Open, Nudge, Leave
<1>5. InTurn'
  BY <1>2, <1>3 DEF GatheringInv, InTurn, gather
<1>6. ArrivalIsNoticed'
  BY <1>2, <1>3, <1>4 DEF GatheringInv, NobodyIsLeftOut, ArrivalIsNoticed, Listening, gather
<1>7. NewcomerIsOwed'
  BY <1>2, <1>3, <1>4 DEF GatheringInv, NobodyIsLeftOut, NewcomerIsOwed, Listening, gather
<1>8. ShownIsTold'
  BY <1>2, <1>3 DEF GatheringInv, NobodyIsLeftOut, ShownIsTold, gather
<1>9. QED
  BY <1>1, <1>5, <1>6, <1>7, <1>8 DEF GatheringInv, NobodyIsLeftOut

\* The loop counts its listeners, waits for one, is woken, or has rested.
LEMMA WaitingKeeps ==
    ASSUME GatheringInv, Heard \/ Await \/ Arrived \/ Rested
    PROVE  GatheringInv'
<1>1. TypeOK'
  BY DEF GatheringInv, TypeOK, Heard, Await, Arrived, Rested, clients, notices
<1>2. UNCHANGED <<clients, joined, owed, saying, told, missed>> /\ loop \notin {"gathering", "saying"}
  BY DEF Heard, Await, Arrived, Rested, notices
<1>3. InTurn'
  BY <1>2 DEF GatheringInv, InTurn, clients
<1>4. ArrivalIsNoticed'
  BY DEF GatheringInv, NobodyIsLeftOut, ArrivalIsNoticed, Listening, Heard, Await, Arrived, Rested,
     clients, notices
<1>5. NewcomerIsOwed' /\ ShownIsTold'
  BY <1>2 DEF GatheringInv, NobodyIsLeftOut, NewcomerIsOwed, ShownIsTold, Listening, clients
<1>6. QED
  BY <1>1, <1>3, <1>4, <1>5 DEF GatheringInv, NobodyIsLeftOut

\* A gather is made for whoever has joined.
LEMMA RefreshKeeps ==
    ASSUME GatheringInv, Refresh
    PROVE  GatheringInv'
<1>1. TypeOK'
  BY DEF GatheringInv, TypeOK, Refresh, clients
<1>2. InTurn'
  BY DEF GatheringInv, InTurn, Refresh, clients
<1>3. ArrivalIsNoticed' /\ ShownIsTold'
  BY DEF GatheringInv, NobodyIsLeftOut, ArrivalIsNoticed, ShownIsTold, Refresh, clients
<1>4. NewcomerIsOwed'
  BY DEF GatheringInv, InTurn, NobodyIsLeftOut, NewcomerIsOwed, Listening, Refresh, clients
<1>5. QED
  BY <1>1, <1>2, <1>3, <1>4 DEF GatheringInv, NobodyIsLeftOut

\* The source reads, or fails to.
LEMMA ReadingKeeps ==
    ASSUME GatheringInv, Gather \/ Unread
    PROVE  GatheringInv'
<1> USE GatheringAssumption
<1>1. TypeOK'
  <2>1. unread' \in 0 .. UNREAD_AT_MOST
    BY DEF GatheringInv, TypeOK, Gather, Unread
  <2>2. /\ owed' = FALSE /\ loop' = "saying" /\ UNCHANGED <<clients, notices, world>>
        /\ missed' \subseteq Client
        /\ saying' \in Value \cup {None} /\ told' \in Value \cup {None}
    BY DEF GatheringInv, TypeOK, Gather, Unread, Listening
  <2>3. QED
    BY <2>1, <2>2 DEF GatheringInv, TypeOK, clients, notices
<1>2. InTurn'
  BY DEF GatheringInv, TypeOK, InTurn, Gather, Unread, clients
<1>3. ArrivalIsNoticed'
  BY DEF Gather, Unread, ArrivalIsNoticed
<1>4. NewcomerIsOwed'
  <2>1. CASE Gather
    BY <2>1 DEF GatheringInv, TypeOK, NobodyIsLeftOut, NewcomerIsOwed, Listening, Gather, Owes,
       clients, notices
  <2>2. CASE Unread
    BY <2>2 DEF GatheringInv, TypeOK, InTurn, NobodyIsLeftOut, NewcomerIsOwed, Listening, Unread,
       clients, notices
  <2>3. QED
    BY <2>1, <2>2
<1>5. ShownIsTold'
  BY DEF GatheringInv, TypeOK, NobodyIsLeftOut, ShownIsTold, Gather, Unread, clients
<1>6. QED
  BY <1>1, <1>2, <1>3, <1>4, <1>5 DEF GatheringInv, NobodyIsLeftOut

\* What was gathered is said.
LEMMA SayKeeps ==
    ASSUME GatheringInv, Say
    PROVE  GatheringInv'
<1>1. TypeOK'
  BY DEF GatheringInv, TypeOK, Say, notices
<1>2. ASSUME NEW c \in Client
      PROVE  shows'[c] = IF saying # None /\ at[c] # "away" THEN saying ELSE shows[c]
  BY DEF Say, Listening
<1>3. InTurn'
  BY <1>2 DEF GatheringInv, InTurn, Say
<1>4. ArrivalIsNoticed'
  BY DEF ArrivalIsNoticed, Say
<1>5. NewcomerIsOwed'
  BY <1>2 DEF GatheringInv, NobodyIsLeftOut, NewcomerIsOwed, Listening, Say, notices
<1>6. ShownIsTold'
  BY <1>2 DEF GatheringInv, InTurn, NobodyIsLeftOut, ShownIsTold, Say
<1>7. QED
  BY <1>1, <1>3, <1>4, <1>5, <1>6 DEF GatheringInv, NobodyIsLeftOut

\* What there is to read changes, or nothing does.
LEMMA ChangeKeeps ==
    ASSUME GatheringInv, Change \/ UNCHANGED vars
    PROVE  GatheringInv'
<1>1. UNCHANGED <<clients, notices, gather, unread, missed>> /\ world' \in Value
  BY DEF GatheringInv, TypeOK, Change, vars, clients, notices, gather
<1>2. QED
  BY <1>1 DEF GatheringInv, TypeOK, InTurn, NobodyIsLeftOut, ArrivalIsNoticed, NewcomerIsOwed,
     ShownIsTold, Listening, clients, notices, gather

\* What the loop, the source and the clients keep to between them.
THEOREM GatheringKeepsTo == Spec => []GatheringInv
<1>1. GatheringInv /\ [Next]_vars => GatheringInv'
  BY ClientsKeep, WaitingKeeps, RefreshKeeps, ReadingKeeps, SayKeeps, ChangeKeeps DEF Next, Loop
<1>2. QED
  BY InitGathers, <1>1, PTL DEF Spec

\* The state of the gathering is typed.
THEOREM GatheringTyped == Spec => []TypeOK
<1>1. GatheringInv => TypeOK
  BY DEF GatheringInv
<1>2. QED
  BY <1>1, GatheringKeepsTo, PTL

\* However many come and go, wherever in the loop, and whichever readings fail, nobody is
\* slept through, and nobody is forgotten or taken for told but by the failure of the very
\* gather made for them (Live::heard, Live::refresh, Settings::said).
THEOREM NobodyIsEverLeftOut == Spec => []NobodyIsLeftOut
<1>1. GatheringInv => NobodyIsLeftOut
  BY DEF GatheringInv
<1>2. QED
  BY <1>1, GatheringKeepsTo, PTL
=============================================================================
