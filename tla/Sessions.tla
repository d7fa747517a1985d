------------------------------ MODULE Sessions ------------------------------
(***************************************************************************)
(* What admission answers a stream that asks again whether it may go on:   *)
(* the sessions of this run (lemonfiber-api/src/admission/sessions.rs),    *)
(* and who a session proves its bearer to be (Admitting::carried,          *)
(* still_standing and the door's opening in admission.rs).                 *)
(*                                                                         *)
(* Staying, whose variables these are too, promises how a stream goes on   *)
(* and ends given what admission says; here admission says it, in the      *)
(* steps the code takes: the register is looked in at the moment the       *)
(* question was asked, and what a session rests on (the password kept on   *)
(* disk, the household) is read after that, on other threads.  Others sign *)
(* in meanwhile, which takes as long as it takes.                          *)
(*                                                                         *)
(* The token printed at start never ends, and keys are left out; so is the *)
(* counting of wrong answers.                                              *)
(***************************************************************************)
EXTENDS Staying

CONSTANTS
    Token,      \* the names of sessions
    Own,        \* the session the stream was opened with
    LASTS,      \* how long a session lasts
    PASSWORDS   \* bound: how often a password is set

ASSUME SessionsAssumption ==
    Own \in Token /\ LASTS \in Nat \ {0} /\ PASSWORDS \in Nat \ {0}

VARIABLES
    held,      \* token -> the session
    kept,      \* the password on disk: each one set is new, and 0 is none
    set,       \* how many have been set
    standing,  \* what the household says of its members
    carried,   \* how far the answer to the stream is, and the session it found
    signing    \* somebody signing in

admission == <<held, kept, set, standing, carried, signing>>
allVars == <<vars, admission>>

Session == [who : {"operator", "member", "nobody"}, until : Nat, against : Nat]

NoSession == [who |-> "nobody", until |-> 0, against |-> 0]

NotAsked == [at |-> "idle", found |-> NoSession]

NotSigning == [at |-> "idle", now |-> 0, who |-> "nobody", against |-> 0]

SessionsTypeOK ==
    /\ held \in [Token -> Session]
    /\ kept \in Nat /\ set \in Nat
    /\ standing \in {"yes", "no", "unasked"}
    /\ carried \in [at : {"idle", "found", "yes", "no"}, found : Session]
    /\ signing \in [at : {"idle", "knocked", "proved"}, now : Nat,
                    who : {"operator", "member", "nobody"}, against : Nat]

\* The stream has just been admitted on a session opened some time before.
SessionsInit ==
    /\ Init
    /\ kept = 1 /\ set = 1
    /\ standing = "yes"
    /\ \E who \in {"operator", "member"}, until \in 1 .. LASTS :
        held = [t \in Token |->
            IF t = Own THEN [who |-> who, until |-> until,
                             against |-> IF who = "operator" THEN 1 ELSE 0]
            ELSE NoSession]
    /\ carried = NotAsked
    /\ signing = NotSigning

---------------------------------------------------------------------------
\* Mutant: a session is taken for one that has run out a tick before it has.
RetainedBefore(now) ==
    [t \in Token |-> IF held[t].until > now + 1 THEN held[t] ELSE NoSession]

\* What is left of the register once the expired are let go of.
Retained(now) == [t \in Token |-> IF held[t].until > now THEN held[t] ELSE NoSession]

\* still, and still_standing: what a session rests on is there.
Stands(session) ==
    \/ session.who = "operator" /\ session.against = kept
    \/ session.who = "member" /\ standing = "yes"

\* Whether the stream's own session would be admitted.
Admits == held[Own].until > clock /\ Stands(held[Own])

\* What admission would say is no variable of the code's: it follows from the others.
Noted ==
    /\ good' = IF Admits' THEN "yes" ELSE "no"
    /\ lasting' = IF held'[Own].until > clock' THEN "yes" ELSE "no"
    /\ ended' = IF (good = "yes" /\ ~Admits') \/ lasting # lasting' THEN clock' ELSE ended
    /\ restored' = IF good = "no" /\ Admits' THEN clock' ELSE restored

\* Time passes, and a session may run out.
Time ==
    /\ Passes
    /\ UNCHANGED <<stream, since, asked, vouched, admission>>
    /\ Noted

\* What is around the stream changes.
Around ==
    /\ UNCHANGED <<clock, stream, since, asked, vouched, held, carried, signing>>
    /\ Noted

\* A password is set, in whatever process: the file holds a credential it never held.
SetPassword ==
    /\ set < PASSWORDS
    /\ set' = set + 1
    /\ kept' = set + 1
    /\ UNCHANGED standing
    /\ Around

\* It is taken away, or cannot be read.
NoPassword ==
    /\ kept' = 0
    /\ UNCHANGED <<set, standing>>
    /\ Around

\* A member is removed or taken back, or the media server goes away or comes back.
Standing ==
    /\ standing' \in {"yes", "no", "unasked"} \ {standing}
    /\ UNCHANGED <<kept, set>>
    /\ Around

---------------------------------------------------------------------------
\* held and Staying::still, under a yes that stands.
StreamSays == SayVouched /\ UNCHANGED admission

\* Staying::still asks, carried not having begun.
StreamAsks == Ask /\ UNCHANGED admission

\* Sessions::opened_for, as of the moment it was asked.
OpenedFor ==
    /\ stream = "asking" /\ carried.at = "idle"
    /\ held' = Retained(asked)
    /\ carried' = [at |-> "found", found |-> Retained(asked)[Own]]
    /\ UNCHANGED <<vars, kept, set, standing, signing>>

\* Mutant: a session that was found is a yes, whatever it rests on.
JudgeFound ==
    /\ carried.at = "found"
    /\ carried' = [at |-> IF carried.found.who # "nobody" THEN "yes" ELSE "no",
                    found |-> NoSession]
    /\ UNCHANGED <<vars, held, kept, set, standing, signing>>

\* carried: the password is read for an operator's session, and the household asked of
\* a member's; a household that cannot be asked is no yes.
Judge ==
    /\ carried.at = "found"
    /\ carried' = [at |-> IF Stands(carried.found) THEN "yes" ELSE "no", found |-> NoSession]
    /\ UNCHANGED <<vars, held, kept, set, standing, signing>>

\* Staying::still, answered.
Answered ==
    /\ \/ carried.at = "yes" /\ GoesOn
       \/ carried.at = "no" /\ IsOver
    /\ carried' = NotAsked
    /\ UNCHANGED <<held, kept, set, standing, signing>>

---------------------------------------------------------------------------
\* opening: the moment is read first.
Knock ==
    /\ signing.at = "idle"
    /\ signing' = [NotSigning EXCEPT !.at = "knocked", !.now = clock]
    /\ UNCHANGED <<vars, held, kept, set, standing, carried>>

\* whoever: the right password, or a member's; checking it takes its time.
Prove ==
    /\ signing.at = "knocked"
    /\ \/ kept # 0 /\ signing' = [signing EXCEPT !.at = "proved", !.who = "operator",
                                                 !.against = kept]
       \/ standing = "yes" /\ signing' = [signing EXCEPT !.at = "proved", !.who = "member"]
    /\ UNCHANGED <<vars, held, kept, set, standing, carried>>

\* whoever: it proved nothing, or the caller went away.
Refuse ==
    /\ signing.at # "idle"
    /\ signing' = NotSigning
    /\ UNCHANGED <<vars, held, kept, set, standing, carried>>

\* Sessions::opened, under a name nobody was given; the moment is the one read first.
Opened(t) ==
    /\ signing.at = "proved"
    /\ t # Own /\ held[t] = NoSession
    /\ held' = [Retained(signing.now) EXCEPT
                    ![t] = [who |-> signing.who, until |-> signing.now + LASTS,
                            against |-> signing.against]]
    /\ signing' = NotSigning
    /\ UNCHANGED <<vars, kept, set, standing, carried>>

SessionsNext ==
    \/ Time \/ SetPassword \/ NoPassword \/ Standing
    \/ StreamSays \/ StreamAsks \/ OpenedFor \/ Judge \/ Answered
    \/ Knock \/ Prove \/ Refuse
    \/ \E t \in Token : Opened(t)

SessionsSpec == SessionsInit /\ [][SessionsNext]_allVars

---------------------------------------------------------------------------
\* What the register and the two readings come to is an answer that was true at some
\* moment since the stream asked, whatever ends or is signed in meanwhile, so that the
\* stream goes on and ends as Staying promises (Sessions::opened_for, still, carried).
StaysAsPromised == Spec

\* A session is let go of only once it has run out, whoever's request tidies the
\* register and however long ago that request read the clock (Sessions::opened,
\* Sessions::opened_for).
OnlyTheExpiredGo ==
    [][\A t \in Token : held[t].until > clock => held'[t] = held[t]]_allVars
=============================================================================
