-------------------------- MODULE SessionsProofs --------------------------
(***************************************************************************)
(* How long a stream outlives the credential it was opened with, for every *)
(* beat and every time admission takes to answer; and the register of      *)
(* sessions and the readings that follow it answer a stream as Staying     *)
(* promises, for every length of a session besides.                        *)
(***************************************************************************)
EXTENDS Sessions, TLAPS

\* The timers are kept, and no moment is read ahead of the clock.
OnTime ==
    /\ lasting = "no" => good = "no"
    /\ stream = "quiet" => since <= clock /\ clock <= since + BEAT
    /\ stream = "asking" => asked <= clock /\ clock <= asked + ASKING
    /\ good = "no" => ended <= clock

\* A yes stands no longer than a recheck after admission last said yes.
YesIsRecent ==
    /\ vouched <= clock + RECHECKED_EVERY
    /\ good = "no" => vouched <= ended + RECHECKED_EVERY

\* After a refusal would be given, the last thing said and the last question are
\* bounded by the yes that still stood.
LastIsBounded ==
    good = "no" =>
        /\ stream = "quiet" => since < ended + Lingers
        /\ stream = "asking" => asked < ended + Lingers + RECHECKED_EVERY

\* The inductive invariant.
StayingInv == TypeOK /\ OnTime /\ YesIsRecent /\ LastIsBounded

LEMMA InitStaying == Init => StayingInv
  BY StayingAssumption
     DEF Init, StayingInv, TypeOK, OnTime, YesIsRecent, LastIsBounded, RECHECKED_EVERY,
         Lingers, Never

LEMMA NextStaying == ASSUME StayingInv, [Next]_vars PROVE StayingInv'
<1> USE StayingAssumption DEF RECHECKED_EVERY, StayingInv, TypeOK, OnTime, YesIsRecent,
                              LastIsBounded, Lingers, Never
<1>1. CASE Tick
  BY <1>1 DEF Tick, Passes
<1>2. CASE Expire
  BY <1>2 DEF Expire, Passes
<1>3. CASE Void
  BY <1>3 DEF Void
<1>4. CASE Restore
  BY <1>4 DEF Restore
<1>5. CASE SayVouched
  BY <1>5 DEF SayVouched, StillVouched, Says
<1>6. CASE Ask
  BY <1>6 DEF Ask, StillVouched
<1>7. CASE AnsweredYes
  BY <1>7 DEF AnsweredYes, GoesOn, Says
<1>8. CASE AnsweredNo
  BY <1>8 DEF AnsweredNo, IsOver
<1>9. CASE UNCHANGED vars
  BY <1>9 DEF vars
<1>10. QED
  BY <1>1, <1>2, <1>3, <1>4, <1>5, <1>6, <1>7, <1>8, <1>9 DEF Next

\* The bounds on the moments a stream remembers hold throughout (Staying::still).
THEOREM StayingInvariant == Spec => []StayingInv
<1>1. Init => StayingInv
  BY InitStaying
<1>2. StayingInv /\ [Next]_vars => StayingInv'
  BY NextStaying
<1>3. QED
  BY <1>1, <1>2, PTL DEF Spec

\* A refused client's stream is over within two beats and the time admission
\* takes (held, Listening::next).
THEOREM IsOverWithinTwoBeats == Spec => []EndsWithinTwoBeats
<1>1. StayingInv => EndsWithinTwoBeats
  BY StayingAssumption
     DEF StayingInv, TypeOK, OnTime, LastIsBounded, EndsWithinTwoBeats, RECHECKED_EVERY,
         Lingers
<1>2. QED
  BY <1>1, StayingInvariant, PTL

\* Nothing is said to a client that has been refused for as long as a recheck
\* (Staying::still).
THEOREM SaysNothingAfter == Spec => NothingIsSaidAfter
<1> DEFINE Spoken == SayVouched \/ GoesOn => good = "yes" \/ clock - ended < Lingers
<1>1. StayingInv /\ SayVouched => Spoken
  BY StayingAssumption
     DEF StayingInv, TypeOK, YesIsRecent, SayVouched, StillVouched, GoesOn, RECHECKED_EVERY,
         Lingers
<1>2. StayingInv /\ AnsweredYes => Spoken
  BY StayingAssumption
     DEF StayingInv, TypeOK, OnTime, SayVouched, AnsweredYes, GoesOn, RECHECKED_EVERY, Lingers
<1>3. Next /\ GoesOn => AnsweredYes
  BY DEF Next, GoesOn, Says, Tick, Expire, Void, Restore, SayVouched, Ask, AnsweredNo, IsOver
<1>4. StayingInv /\ [Next]_vars => [Spoken]_vars
  BY <1>1, <1>2, <1>3
<1>5. QED
  BY <1>4, StayingInvariant, PTL DEF Spec, NothingIsSaidAfter

---------------------------------------------------------------------------
\* Staying's history of what admission would say is what it would say.
NotedIsSo ==
    /\ (good = "yes") <=> Admits
    /\ (lasting = "yes") <=> held[Own].until > clock
    /\ good = "no" => ended <= clock
    /\ lasting = "no" => held[Own].until <= ended

\* No moment is read ahead of the clock: of the question, of the sign-in.
NotAhead ==
    /\ stream = "asking" => asked <= clock
    /\ signing.now <= clock
    /\ carried.at # "idle" => stream = "asking"

\* How far the answer is says what was true: a session that was found is the one held or
\* has run out since the question, one that was not has run out, and a judgement was
\* right at some moment since.
FoundIsHeld ==
    /\ carried.at = "found" =>
        IF carried.found = NoSession THEN lasting = "no"
        ELSE IF lasting = "yes" THEN carried.found = held[Own]
        ELSE ended >= asked
    /\ carried.at = "yes" => good = "yes" \/ ended >= asked
    /\ carried.at = "no" => good = "no" \/ restored >= asked

SessionsInv ==
    /\ StayingInv
    /\ SessionsTypeOK
    /\ NotedIsSo
    /\ NotAhead
    /\ FoundIsHeld

\* Letting go of what has run out by a moment that has passed changes nothing that is
\* still held (Sessions::opened, Sessions::opened_for).
LEMMA RetainedIsHeld ==
    ASSUME SessionsTypeOK, NEW now \in Nat, clock \in Nat, now <= clock
    PROVE  /\ Retained(now) \in [Token -> Session]
           /\ \A t \in Token : held[t].until > clock => Retained(now)[t] = held[t]
           /\ \A t \in Token : Retained(now)[t] = held[t] \/ Retained(now)[t] = NoSession
<1>1. NoSession \in Session
  BY DEF NoSession, Session
<1>2. \A t \in Token : held[t] \in Session
  BY DEF SessionsTypeOK
<1>3. \A t \in Token : held[t].until \in Nat /\ NoSession.until = 0
  BY <1>2 DEF Session, NoSession
<1>4. \A t \in Token : Retained(now)[t] = IF held[t].until > now THEN held[t] ELSE NoSession
  BY DEF Retained
<1>5. Retained(now) \in [Token -> Session]
  BY <1>1, <1>2 DEF Retained
<1>6. \A t \in Token : held[t].until > clock => held[t].until > now
  BY <1>3
<1>7. QED
  BY <1>4, <1>5, <1>6

LEMMA InitSessions == SessionsInit => SessionsInv
<1> SUFFICES ASSUME SessionsInit PROVE SessionsInv
  OBVIOUS
<1>1. StayingInv
  BY InitStaying DEF SessionsInit
<1>2. PICK who \in {"operator", "member"}, until \in 1 .. LASTS :
        held = [t \in Token |->
            IF t = Own THEN [who |-> who, until |-> until,
                             against |-> IF who = "operator" THEN 1 ELSE 0]
            ELSE NoSession]
  BY DEF SessionsInit
<1>3. held[Own] = [who |-> who, until |-> until, against |-> IF who = "operator" THEN 1 ELSE 0]
  BY <1>2, SessionsAssumption
<1>4. SessionsTypeOK
  <2>1. held \in [Token -> Session]
    BY <1>2, SessionsAssumption DEF Session, NoSession
  <2>2. QED
    BY <2>1 DEF SessionsInit, SessionsTypeOK, NotAsked, NotSigning, NoSession, Session
<1>5. NotedIsSo
  BY <1>3, SessionsAssumption DEF SessionsInit, Init, NotedIsSo, Admits, Stands
<1>6. NotAhead /\ FoundIsHeld
  BY DEF SessionsInit, Init, NotAhead, FoundIsHeld, NotAsked, NotSigning
<1>7. QED
  BY <1>1, <1>4, <1>5, <1>6 DEF SessionsInv

\* A step of the sessions is a step of the stream, or none of it.
StayingStep == [Next]_vars

\* Where what is around the stream changes, its history is kept (Noted).
LEMMA AroundSessions ==
    ASSUME SessionsInv, Around,
           kept' \in Nat, set' \in Nat, standing' \in {"yes", "no", "unasked"}
    PROVE  StayingStep /\ SessionsTypeOK' /\ NotedIsSo' /\ NotAhead' /\ FoundIsHeld'
<1> USE DEF SessionsInv, Around
<1>1. clock \in Nat /\ held[Own].until \in Nat /\ held'[Own] = held[Own] /\ clock' = clock
  BY SessionsAssumption DEF StayingInv, TypeOK, SessionsTypeOK, Session
<1>2. (lasting' = "yes") <=> held[Own].until > clock
  BY <1>1 DEF Noted
<1>3. lasting' = lasting
  BY <1>1 DEF Noted, NotedIsSo, StayingInv, TypeOK
<1>4. (good' = "yes") <=> Admits'
  BY DEF Noted
<1>5. ended' = IF good = "yes" /\ good' = "no" THEN clock ELSE ended
  BY <1>1, <1>3 DEF Noted
<1>6. restored' = IF good = "no" /\ good' = "yes" THEN clock ELSE restored
  BY <1>1 DEF Noted
<1>7. good' = "yes" => lasting = "yes"
  BY <1>1, <1>4 DEF Admits, NotedIsSo
<1>8. good \in {"yes", "no"} /\ good' \in {"yes", "no"}
  BY DEF Noted, StayingInv, TypeOK
<1>9. StayingStep
  BY <1>1, <1>3, <1>5, <1>6, <1>7, <1>8 DEF StayingStep, Next, Void, Restore, vars
<1>10. SessionsTypeOK'
  BY DEF SessionsTypeOK
<1>11. NotedIsSo'
  BY <1>1, <1>2, <1>4, <1>5, <1>8 DEF NotedIsSo, StayingInv, TypeOK
<1>12. NotAhead'
  BY <1>1 DEF NotAhead
<1>13. FoundIsHeld'
  BY <1>1, <1>3, <1>5, <1>6, <1>8 DEF FoundIsHeld, NotAhead, StayingInv, TypeOK, Never
<1>14. QED
  BY <1>9, <1>10, <1>11, <1>12, <1>13

\* Where the stream is not concerned, its part of the invariant stands.
LEMMA Unconcerned ==
    ASSUME SessionsInv, UNCHANGED vars, held' \in [Token -> Session],
           held[Own].until > clock => held'[Own] = held[Own],
           held'[Own] = held[Own] \/ held'[Own] = NoSession,
           UNCHANGED <<kept, standing>>
    PROVE  StayingStep /\ NotedIsSo'
<1> USE DEF SessionsInv
<1>1. StayingStep
  BY DEF StayingStep
<1>2. clock \in Nat /\ ended \in Nat /\ NoSession.until = 0 /\ held[Own].until \in Nat
  BY SessionsAssumption DEF StayingInv, TypeOK, SessionsTypeOK, Session, NoSession
<1>3. held'[Own].until > clock <=> held[Own].until > clock
  BY <1>2
<1>4. Admits' <=> Admits
  BY <1>3 DEF Admits, Stands, vars
<1>5. NotedIsSo'
  BY <1>2, <1>3, <1>4 DEF NotedIsSo, vars
<1>6. QED
  BY <1>1, <1>5

LEMMA NextSessions ==
    ASSUME SessionsInv, [SessionsNext]_allVars
    PROVE  StayingStep /\ SessionsInv'
<1> USE DEF SessionsInv
<1>0. /\ clock \in Nat /\ asked \in Nat /\ Own \in Token
      /\ held \in [Token -> Session] /\ held[Own] \in Session
      /\ held[Own].until \in Nat /\ NoSession \in Session /\ NoSession.until = 0
  BY SessionsAssumption DEF StayingInv, TypeOK, SessionsTypeOK, Session, NoSession
<1>a. SUFFICES StayingStep /\ SessionsTypeOK' /\ NotedIsSo' /\ NotAhead' /\ FoundIsHeld'
  BY NextStaying DEF StayingStep
<1>1. CASE Time
  <2>1. clock' = clock + 1 /\ held' = held /\ UNCHANGED admission /\ UNCHANGED <<stream, since, asked, vouched>>
    BY <1>1 DEF Time, Passes, admission
  <2>2. Stands(held[Own])' <=> Stands(held[Own])
    BY <2>1 DEF Stands, admission
  <2>3. (lasting' = "yes") <=> held[Own].until > clock + 1
    BY <1>1, <2>1 DEF Time, Noted
  <2>4. lasting \in {"yes", "no"} /\ lasting' \in {"yes", "no"} /\ good \in {"yes", "no"}
        /\ good' \in {"yes", "no"}
    BY <1>1 DEF Time, Noted, StayingInv, TypeOK
  <2>5. lasting' = "yes" => lasting = "yes"
    BY <1>0, <2>3, <2>4 DEF NotedIsSo
  <2>6. (good' = "yes") <=> Admits'
    BY <1>1 DEF Time, Noted
  <2>7. Admits' <=> held[Own].until > clock + 1 /\ Stands(held[Own])
    BY <2>1, <2>2 DEF Admits
  <2>8. Admits <=> held[Own].until > clock /\ Stands(held[Own])
    BY DEF Admits
  <2>9. /\ lasting' = lasting => good' = good
        /\ lasting' = "no" => good' = "no"
    BY <1>0, <2>3, <2>4, <2>6, <2>7, <2>8 DEF NotedIsSo
  <2>10. good = "no" => good' = "no"
    BY <1>0, <2>4, <2>6, <2>7, <2>8 DEF NotedIsSo
  <2>11. restored' = restored
    BY <1>1, <2>4, <2>6, <2>10 DEF Time, Noted
  <2>12. ended' = IF lasting' # lasting THEN clock + 1 ELSE ended
    BY <1>1, <2>1, <2>4, <2>6, <2>9 DEF Time, Noted
  <2>13. StayingStep
    BY <1>1, <2>1, <2>4, <2>5, <2>9, <2>11, <2>12 DEF StayingStep, Next, Tick, Expire, Time
  <2>14. SessionsTypeOK'
    BY <2>1 DEF SessionsTypeOK, admission
  <2>15. NotedIsSo'
    BY <1>0, <2>1, <2>3, <2>4, <2>6, <2>9, <2>12 DEF NotedIsSo, StayingInv, TypeOK
  <2>16. NotAhead'
    BY <1>0, <2>1 DEF NotAhead, admission, SessionsTypeOK
  <2>17. FoundIsHeld'
    BY <1>0, <2>1, <2>4, <2>5, <2>9, <2>10, <2>11, <2>12
       DEF FoundIsHeld, NotAhead, admission, StayingInv, TypeOK
  <2>18. QED
    BY <2>13, <2>14, <2>15, <2>16, <2>17
<1>2. CASE SetPassword
  BY <1>2, AroundSessions DEF SetPassword, SessionsTypeOK
<1>3. CASE NoPassword
  BY <1>3, AroundSessions DEF NoPassword, SessionsTypeOK
<1>4. CASE Standing
  BY <1>4, AroundSessions DEF Standing, SessionsTypeOK
<1>5. CASE StreamSays
  <2>1. StayingStep
    BY <1>5 DEF StreamSays, StayingStep, Next
  <2>2. /\ UNCHANGED <<clock, asked, good, lasting, ended, restored, admission>>
        /\ stream = "quiet" /\ stream' = "quiet"
    BY <1>5 DEF StreamSays, SayVouched, Says
  <2>3. QED
    BY <2>1, <2>2
       DEF SessionsTypeOK, NotedIsSo, Admits, Stands, NotAhead, FoundIsHeld, admission
<1>6. CASE StreamAsks
  <2>1. StayingStep
    BY <1>6 DEF StreamAsks, StayingStep, Next
  <2>2. /\ UNCHANGED <<clock, good, lasting, ended, restored, admission>>
        /\ stream = "quiet" /\ asked' = clock
    BY <1>6 DEF StreamAsks, Ask
  <2>3. carried.at = "idle"
    BY <2>2 DEF NotAhead
  <2>4. QED
    BY <1>0, <2>1, <2>2, <2>3
       DEF SessionsTypeOK, NotedIsSo, Admits, Stands, NotAhead, FoundIsHeld, admission
<1>7. CASE OpenedFor
  <2>1. asked <= clock /\ UNCHANGED <<vars, kept, set, standing, signing>>
    BY <1>7 DEF OpenedFor, NotAhead
  <2>2. held' = Retained(asked) /\ carried' = [at |-> "found", found |-> Retained(asked)[Own]]
    BY <1>7 DEF OpenedFor
  <2>3. /\ held' \in [Token -> Session]
        /\ held[Own].until > clock => held'[Own] = held[Own]
        /\ held'[Own] = held[Own] \/ held'[Own] = NoSession
    BY <1>0, <2>1, <2>2, RetainedIsHeld
  <2>4. StayingStep /\ NotedIsSo'
    BY <2>1, <2>3, Unconcerned
  <2>5. SessionsTypeOK'
    BY <1>0, <2>1, <2>2, <2>3 DEF SessionsTypeOK
  <2>6. NotAhead'
    BY <1>7, <2>1, <2>2 DEF OpenedFor, NotAhead, vars
  <2>7. held'[Own] = IF held[Own].until > asked THEN held[Own] ELSE NoSession
    BY <1>0, <2>2 DEF Retained
  <2>8. carried'.at = "found" /\ carried'.found = held'[Own]
    BY <2>2
  <2>9. lasting' = lasting /\ ended' = ended /\ asked' = asked /\ lasting \in {"yes", "no"}
    BY <2>1 DEF vars, StayingInv, TypeOK
  <2>10. CASE lasting = "yes"
    <3>1. held'[Own] = held[Own] /\ held[Own].until > clock
      BY <2>3, <2>10 DEF NotedIsSo
    <3>2. held[Own] # NoSession
      BY <1>0, <3>1
    <3>3. QED
      BY <2>4, <2>5, <2>6, <2>8, <2>9, <2>10, <3>1, <3>2 DEF FoundIsHeld
  <2>11. CASE lasting = "no" /\ carried'.found = NoSession
    BY <2>4, <2>5, <2>6, <2>8, <2>9, <2>11 DEF FoundIsHeld
  <2>12. CASE lasting = "no" /\ carried'.found # NoSession
    <3>1. held[Own].until > asked
      BY <2>7, <2>8, <2>12
    <3>2. ended >= asked
      BY <1>0, <2>12, <3>1 DEF NotedIsSo, StayingInv, TypeOK
    <3>3. QED
      BY <2>4, <2>5, <2>6, <2>8, <2>9, <2>12, <3>2 DEF FoundIsHeld
  <2>13. QED
    BY <2>9, <2>10, <2>11, <2>12
<1>8. CASE Judge
  <2>1. /\ carried.at = "found" /\ UNCHANGED <<vars, held, kept, set, standing, signing>>
        /\ carried' = [at |-> IF Stands(carried.found) THEN "yes" ELSE "no", found |-> NoSession]
    BY <1>8 DEF Judge
  <2>2. StayingStep /\ NotedIsSo'
    BY <1>0, <2>1, Unconcerned
  <2>3. SessionsTypeOK' /\ NotAhead'
    BY <1>0, <2>1 DEF SessionsTypeOK, NotAhead, vars
  <2>4. CASE Stands(carried.found)
    <3>1. carried.found # NoSession
      BY <2>4 DEF Stands, NoSession
    <3>2. lasting = "yes" => good = "yes"
      BY <2>1, <2>4, <3>1 DEF FoundIsHeld, NotedIsSo, Admits
    <3>3. good = "yes" \/ ended >= asked
      BY <2>1, <3>1, <3>2 DEF FoundIsHeld, StayingInv, TypeOK
    <3>4. carried'.at = "yes"
      BY <2>1, <2>4
    <3>5. FoundIsHeld'
      BY <2>1, <3>3, <3>4 DEF FoundIsHeld, vars
    <3>6. QED
      BY <2>2, <2>3, <3>5
  <2>5. CASE ~Stands(carried.found)
    <3>1. good = "no"
      <4>1. CASE lasting = "no"
        BY <4>1 DEF NotedIsSo, Admits, StayingInv, TypeOK
      <4>2. CASE lasting = "yes"
        BY <2>1, <2>5, <4>2 DEF FoundIsHeld, NotedIsSo, Admits, StayingInv, TypeOK
      <4>3. QED
        BY <4>1, <4>2 DEF StayingInv, TypeOK
    <3>2. carried'.at = "no"
      BY <2>1, <2>5
    <3>3. FoundIsHeld'
      BY <2>1, <3>1, <3>2 DEF FoundIsHeld, vars
    <3>4. QED
      BY <2>2, <2>3, <3>3
  <2>6. QED
    BY <2>4, <2>5
<1>9. CASE Answered
  <2>1. /\ carried' = NotAsked /\ UNCHANGED <<held, kept, set, standing, signing>>
        /\ UNCHANGED <<clock, asked, good, lasting, ended, restored>>
    BY <1>9 DEF Answered, GoesOn, IsOver
  <2>2. StayingStep
    BY <1>9 DEF Answered, StayingStep, Next, AnsweredYes, AnsweredNo, FoundIsHeld
  <2>3. SessionsTypeOK' /\ NotedIsSo'
    BY <1>0, <2>1 DEF SessionsTypeOK, NotAsked, NotedIsSo, Admits, Stands
  <2>4. stream' # "asking"
    BY <1>9 DEF Answered, GoesOn, Says, IsOver
  <2>5. NotAhead' /\ FoundIsHeld'
    BY <2>1, <2>4 DEF NotAhead, FoundIsHeld, NotAsked
  <2>6. QED
    BY <2>2, <2>3, <2>5
<1>10. CASE Knock \/ Prove \/ Refuse
  <2>1. UNCHANGED <<vars, held, kept, set, standing, carried>>
    BY <1>10 DEF Knock, Prove, Refuse
  <2>2. /\ signing' \in [at : {"idle", "knocked", "proved"}, now : Nat,
                          who : {"operator", "member", "nobody"}, against : Nat]
        /\ signing'.now <= clock
    <3>1. CASE Knock
      <4>1. signing' = [at |-> "knocked", now |-> clock, who |-> "nobody", against |-> 0]
        BY <3>1 DEF Knock, NotSigning
      <4>2. QED
        BY <1>0, <4>1
    <3>2. CASE Prove
      BY <1>0, <3>2 DEF Prove, SessionsTypeOK, NotAhead
    <3>3. CASE Refuse
      BY <1>0, <3>3 DEF Refuse, NotSigning
    <3>4. QED
      BY <1>10, <3>1, <3>2, <3>3
  <2>3. StayingStep /\ NotedIsSo'
    BY <1>0, <2>1, Unconcerned
  <2>4. SessionsTypeOK' /\ NotAhead' /\ FoundIsHeld'
    BY <2>1, <2>2 DEF SessionsTypeOK, NotAhead, FoundIsHeld, vars
  <2>5. QED
    BY <2>3, <2>4
<1>11. CASE \E t \in Token : Opened(t)
  <2>1. PICK t \in Token : Opened(t)
    BY <1>11
  <2>2. /\ UNCHANGED <<vars, kept, set, standing, carried>> /\ signing' = NotSigning
        /\ signing.now \in Nat /\ signing.now <= clock /\ t # Own
    BY <2>1 DEF Opened, SessionsTypeOK, NotAhead
  <2>3. [who |-> signing.who, until |-> signing.now + LASTS, against |-> signing.against]
            \in Session
    BY SessionsAssumption DEF SessionsTypeOK, Session
  <2>4. /\ Retained(signing.now) \in [Token -> Session]
        /\ \A u \in Token : held[u].until > clock => Retained(signing.now)[u] = held[u]
        /\ \A u \in Token : \/ Retained(signing.now)[u] = held[u]
                           \/ Retained(signing.now)[u] = NoSession
    BY <1>0, <2>2, RetainedIsHeld
  <2>5. held' \in [Token -> Session] /\ held'[Own] = Retained(signing.now)[Own]
    BY <1>0, <2>1, <2>2, <2>3, <2>4 DEF Opened
  <2>6. StayingStep /\ NotedIsSo'
    BY <1>0, <2>2, <2>4, <2>5, Unconcerned
  <2>7. SessionsTypeOK'
    BY <2>2, <2>5 DEF SessionsTypeOK, NotSigning
  <2>8. NotAhead'
    BY <1>0, <2>2 DEF NotAhead, NotSigning, vars
  <2>9. lasting' = "yes" => held'[Own] = held[Own]
    BY <1>0, <2>2, <2>4, <2>5 DEF NotedIsSo, vars
  <2>10. FoundIsHeld'
    BY <2>2, <2>9 DEF FoundIsHeld, vars
  <2>11. QED
    BY <2>6, <2>7, <2>8, <2>10
<1>12. CASE UNCHANGED allVars
  <2>1. UNCHANGED <<vars, held, kept, set, standing, carried, signing>>
    BY <1>12 DEF allVars, admission
  <2>2. QED
    BY <1>0, <2>1, Unconcerned DEF SessionsTypeOK, NotAhead, FoundIsHeld, vars
<1>13. QED
  BY <1>1, <1>2, <1>3, <1>4, <1>5, <1>6, <1>7, <1>8, <1>9, <1>10, <1>11, <1>12
     DEF SessionsNext

\* What is noted of the stream and of the answer on its way to it holds throughout
\* (Admitting::carried).
THEOREM SessionsInvariant == SessionsSpec => []SessionsInv
<1>1. SessionsInit => SessionsInv
  BY InitSessions
<1>2. SessionsInv /\ [SessionsNext]_allVars => SessionsInv'
  BY NextSessions
<1>3. QED
  BY <1>1, <1>2, PTL DEF SessionsSpec

\* Admission in its steps answers the stream as Staying promises: Sessions implements
\* Staying (Sessions::opened_for, still, carried).
THEOREM StaysAsItPromises == SessionsSpec => StaysAsPromised
<1>1. SessionsInit => Init
  BY DEF SessionsInit
<1>2. SessionsInv /\ [SessionsNext]_allVars => [Next]_vars
  BY NextSessions DEF StayingStep
<1>3. QED
  BY <1>1, <1>2, SessionsInvariant, PTL DEF SessionsSpec, StaysAsPromised, Spec

\* However admission's steps fall, a stream whose session has ended says nothing after a
\* recheck and is over within two beats (Staying::still, Admitting::carried).
THEOREM EndedIsOver == SessionsSpec => []EndsWithinTwoBeats /\ NothingIsSaidAfter
  BY StaysAsItPromises, IsOverWithinTwoBeats, SaysNothingAfter, PTL DEF StaysAsPromised

\* The register lets go of nothing that has not run out (Sessions::opened,
\* Sessions::opened_for).
THEOREM LetsOnlyTheExpiredGo == SessionsSpec => OnlyTheExpiredGo
<1> DEFINE Spared == \A t \in Token : held[t].until > clock => held'[t] = held[t]
<1>1. SessionsInv /\ [SessionsNext]_allVars => [Spared]_allVars
  <2> SUFFICES ASSUME SessionsInv, SessionsNext PROVE Spared
    OBVIOUS
  <2> USE DEF SessionsInv
  <2>1. clock \in Nat /\ asked \in Nat /\ signing.now \in Nat
    BY DEF StayingInv, TypeOK, SessionsTypeOK
  <2>2. CASE OpenedFor
    <3>1. asked <= clock /\ held' = Retained(asked)
      BY <2>2 DEF OpenedFor, NotAhead
    <3>2. QED
      BY <2>1, <3>1, RetainedIsHeld
  <2>3. CASE \E t \in Token : Opened(t)
    <3>1. PICK t \in Token : Opened(t)
      BY <2>3
    <3>2. held[t] = NoSession /\ NoSession.until = 0
      BY <3>1 DEF Opened, NoSession
    <3>3. ASSUME NEW u \in Token, held[u].until > clock PROVE held'[u] = held[u]
      <4>1. u # t
        BY <2>1, <3>2, <3>3
      <4>2. held'[u] = Retained(signing.now)[u]
        BY <3>1, <4>1, RetainedIsHeld, <2>1 DEF Opened, NotAhead
      <4>3. QED
        BY <2>1, <3>3, <4>2, RetainedIsHeld DEF NotAhead
    <3>4. QED
      BY <3>3
  <2>4. CASE UNCHANGED held
    BY <2>4
  <2>5. QED
    BY <2>2, <2>3, <2>4
       DEF SessionsNext, Time, SetPassword, NoPassword, Standing, Around, StreamSays, StreamAsks,
           Judge, Answered, Knock, Prove, Refuse, admission
<1>2. QED
  BY <1>1, SessionsInvariant, PTL DEF SessionsSpec, OnlyTheExpiredGo
=============================================================================
