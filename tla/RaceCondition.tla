--------------------------- MODULE RaceCondition ---------------------------
(***************************************************************************)
(* Two threads that print and count under a lock until there have been a   *)
(* hundred lines, and look at the count without it (c/race_condition.c).   *)
(***************************************************************************)
EXTENDS Integers, FiniteSets, Sequences

CONSTANTS
    Threads,    (* foo and bar                                             *)
    Limit       (* 100                                                     *)

ASSUME RaceConditionAssumption ==
    IsFiniteSet(Threads) /\ Threads # {} /\ Limit \in Nat /\ "none" \notin Threads

VARIABLES
    com,
    gm,         (* the holder of the lock, or "none"                       *)
    at,         (* where each thread is in its round                       *)
    printed     (* the numbers printed                                     *)

linesVars == <<com, gm, at, printed>>

LinesInit ==
    /\ com = 0 /\ gm = "none"
    /\ at = [t \in Threads |-> "check"]
    /\ printed = <<>>

\* The while condition, without the lock.
Check(t) ==
    /\ at[t] = "check"
    /\ at' = [at EXCEPT ![t] = IF com < Limit THEN "lock" ELSE "done"]
    /\ UNCHANGED <<com, gm, printed>>

\* Mistake: the lock is not waited for.
GmLockNot(t) ==
    /\ at[t] = "lock"
    /\ gm' = t
    /\ at' = [at EXCEPT ![t] = "print"]
    /\ UNCHANGED <<com, printed>>

GmLock(t) ==
    /\ at[t] = "lock" /\ gm = "none"
    /\ gm' = t
    /\ at' = [at EXCEPT ![t] = "print"]
    /\ UNCHANGED <<com, printed>>

\* com++ is read, and its old value printed
Say(t) ==
    /\ at[t] = "print"
    /\ printed' = Append(printed, com)
    /\ at' = [at EXCEPT ![t] = "count"]
    /\ UNCHANGED <<com, gm>>

\* and counted.
Count(t) ==
    /\ at[t] = "count"
    /\ com' = com + 1
    /\ at' = [at EXCEPT ![t] = "unlock"]
    /\ UNCHANGED <<gm, printed>>

GmUnlock(t) ==
    /\ at[t] = "unlock"
    /\ gm' = "none"
    /\ at' = [at EXCEPT ![t] = "check"]
    /\ UNCHANGED <<com, printed>>

Foo(t) == Check(t) \/ GmLock(t) \/ Say(t) \/ Count(t) \/ GmUnlock(t)

\* main has joined both.
Joined == (\A t \in Threads : at[t] = "done") /\ UNCHANGED linesVars

LinesNext == Joined \/ \E t \in Threads : Foo(t)

LinesSafety == LinesInit /\ [][LinesNext]_linesVars

\* Both threads are scheduled.
LinesFairness == \A t \in Threads : WF_linesVars(Foo(t))

LinesSpec == LinesSafety /\ LinesFairness

-----------------------------------------------------------------------------
(* Properties                                                              *)

LinesTypeOK ==
    /\ com \in Nat
    /\ gm \in Threads \cup {"none"}
    /\ at \in [Threads -> {"check", "lock", "print", "count", "unlock", "done"}]
    /\ printed \in Seq(Nat)

\* The count may run over the limit, since it is looked at without the lock,
\* but by no more than the other threads: each has one look in hand.
Overshoot == com < Limit + Cardinality(Threads)

\* The lines are numbered from 0, without gaps and without repeating.
Numbered == \A i \in 1 .. Len(printed) : printed[i] = i - 1

\* Both threads come to their end, with all lines printed.
LinesReturns == <>[]((\A t \in Threads : at[t] = "done") /\ com >= Limit)

=============================================================================
