------------------------------ MODULE Threshold ------------------------------
(***************************************************************************)
(* Threads that count up under a lock, and one that waits until the count  *)
(* has reached a threshold (c/pthread_cond_test.c).                        *)
(***************************************************************************)
EXTENDS Naturals, FiniteSets, FiniteSetsExt

CONSTANTS
    Counters,     (* the threads of inc_count                              *)
    TCOUNT,       (* how often each counts                                 *)
    COUNT_THRES

ASSUME ThresholdAssumption ==
    /\ IsFiniteSet(Counters) /\ TCOUNT \in Nat /\ COUNT_THRES \in Nat \ {0}
    /\ "watcher" \notin Counters /\ "none" \notin Counters

VARIABLES
    count,
    lock,       (* the holder of count_lock, or "none"                     *)
    pc,         (* where each counter is in its round                      *)
    i,          (* how many rounds each has gone                           *)
    temp,       (* count as it has read it                                 *)
    watch       (* where watch_count is                                    *)

vars == <<count, lock, pc, i, temp, watch>>

Init ==
    /\ count = 0 /\ lock = "none"
    /\ pc = [t \in Counters |-> "lock"]
    /\ i = [t \in Counters |-> 0]
    /\ temp = [t \in Counters |-> 0]
    /\ watch = "start"

Lock(t) ==
    /\ pc[t] = "lock" /\ i[t] < TCOUNT
    /\ lock = "none"
    /\ lock' = t
    /\ pc' = [pc EXCEPT ![t] = "read"]
    /\ UNCHANGED <<count, i, temp, watch>>

\* count++ reads
Read(t) ==
    /\ pc[t] = "read"
    /\ temp' = [temp EXCEPT ![t] = count]
    /\ pc' = [pc EXCEPT ![t] = "write"]
    /\ UNCHANGED <<count, lock, i, watch>>

\* and writes.
Write(t) ==
    /\ pc[t] = "write"
    /\ count' = temp[t] + 1
    /\ pc' = [pc EXCEPT ![t] = IF count' = COUNT_THRES THEN "signal" ELSE "unlock"]
    /\ UNCHANGED <<lock, i, temp, watch>>

\* Mistake: the signal is left out.
SignalNot(t) ==
    /\ pc[t] = "signal"
    /\ pc' = [pc EXCEPT ![t] = "unlock"]
    /\ UNCHANGED <<count, lock, i, temp, watch>>

\* pthread_cond_signal: it is lost on a watcher who does not wait.
Signal(t) ==
    /\ pc[t] = "signal"
    /\ watch' = IF watch = "waiting" THEN "woken" ELSE watch
    /\ pc' = [pc EXCEPT ![t] = "unlock"]
    /\ UNCHANGED <<count, lock, i, temp>>

Unlock(t) ==
    /\ pc[t] = "unlock"
    /\ lock' = "none"
    /\ i' = [i EXCEPT ![t] = @ + 1]
    /\ pc' = [pc EXCEPT ![t] = "lock"]
    /\ UNCHANGED <<count, temp, watch>>

\* The watcher takes the lock, at first and when it was woken.
WatchLock ==
    /\ watch \in {"start", "woken"} /\ lock = "none"
    /\ lock' = "watcher" /\ watch' = "check"
    /\ UNCHANGED <<count, pc, i, temp>>

\* The while condition, and pthread_cond_wait or the unlock after the loop.
Watch ==
    /\ watch = "check"
    /\ watch' = IF count < COUNT_THRES THEN "waiting" ELSE "done"
    /\ lock' = "none"
    /\ UNCHANGED <<count, pc, i, temp>>

\* pthread_cond_wait may return for no reason.
Spurious ==
    /\ watch = "waiting" /\ watch' = "woken"
    /\ UNCHANGED <<count, lock, pc, i, temp>>

\* main has joined all.
Done ==
    /\ watch = "done" /\ \A t \in Counters : i[t] = TCOUNT
    /\ UNCHANGED vars

Step(t) == Lock(t) \/ Read(t) \/ Write(t) \/ Signal(t) \/ Unlock(t)

Next ==
    \/ \E t \in Counters : Step(t)
    \/ WatchLock \/ Watch \/ Spurious \/ Done

Safety == Init /\ [][Next]_vars

\* All threads are scheduled, and the wakeups for no reason come to an end: as
\* long as they go on the watcher may have the lock whenever others want it.
Fairness ==
    /\ (\A t \in Counters : WF_vars(Step(t))) /\ WF_vars(WatchLock \/ Watch)
    /\ <>[][~Spurious]_vars

Spec == Safety /\ Fairness

-----------------------------------------------------------------------------
(* Properties                                                              *)

TypeOK ==
    /\ count \in Nat
    /\ lock \in Counters \cup {"watcher", "none"}
    /\ pc \in [Counters -> {"lock", "read", "write", "signal", "unlock"}]
    /\ i \in [Counters -> 0 .. TCOUNT]
    /\ temp \in [Counters -> Nat]
    /\ watch \in {"start", "check", "waiting", "woken", "done"}

\* No increment is lost.
Accounted ==
    count = MapThenSumSet(LAMBDA t : i[t] + (IF pc[t] \in {"signal", "unlock"} THEN 1 ELSE 0),
                          Counters)

\* No signal is lost: while the watcher sleeps the threshold is ahead, or the
\* thread that reached it is about to signal.
NoLostSignal ==
    watch = "waiting" =>
        count < COUNT_THRES \/ \E t \in Counters : pc[t] = "signal"

\* The watcher does not go on before the threshold is reached, even when it is
\* woken for no reason.
Reached == watch = "done" => count >= COUNT_THRES

\* main returns, if the threads count as far as the threshold.
Returns == <>(watch = "done" /\ \A t \in Counters : i[t] = TCOUNT)

=============================================================================
