------------------------------ MODULE QtThreads ------------------------------
(***************************************************************************)
(* A form with a button for each of two threads (qt/thread_sample): it     *)
(* starts the thread, or stops it by a flag which the thread looks at and  *)
(* resets.  Closing the form stops and waits for both.                     *)
(*                                                                         *)
(* The flag is reset at the end of run, when isRunning still holds: a stop *)
(* that comes after that is kept for the next start, which then ends at    *)
(* once while the button says "Stop".                                      *)
(***************************************************************************)
EXTENDS Sequences

VARIABLES
    run,        (* where each thread is; isRunning unless "idle"           *)
    stopped,    (* its flag                                                *)
    text,       (* what its button says                                    *)
    form        (* the form, and the threads closeEvent has still to treat *)

vars == <<run, stopped, text, form>>

FormThreads == {"A", "B"}
Both == <<"A", "B">>

Init ==
    /\ run = [t \in FormThreads |-> "idle"]
    /\ stopped = [t \in FormThreads |-> FALSE]
    /\ text = [t \in FormThreads |-> "Start"]
    /\ form = [pc |-> "open", todo |-> <<>>]

-----------------------------------------------------------------------------
(* Thread::run                                                             *)

\* Mistake: the flag is reset before it is looked at.
LookReset(t) ==
    /\ run[t] = "loop"
    /\ stopped' = [stopped EXCEPT ![t] = FALSE]
    /\ UNCHANGED <<run, text, form>>

\* The flag is looked at, and a message written if it is down.
Look(t) ==
    /\ run[t] = "loop"
    /\ run' = [run EXCEPT ![t] = IF stopped[t] THEN "leave" ELSE "loop"]
    /\ UNCHANGED <<stopped, text, form>>

Reset(t) ==
    /\ run[t] = "leave"
    /\ run' = [run EXCEPT ![t] = "left"]
    /\ stopped' = [stopped EXCEPT ![t] = FALSE]
    /\ UNCHANGED <<text, form>>

\* run has returned, and isRunning gets to know.
Finish(t) ==
    /\ run[t] = "left"
    /\ run' = [run EXCEPT ![t] = "idle"]
    /\ UNCHANGED <<stopped, text, form>>

-----------------------------------------------------------------------------
(* ThreadForm                                                              *)

\* startOrStopThreadA, startOrStopThreadB: what isRunning says counts, and not
\* what the button says.
Click(t) ==
    /\ form.pc = "open"
    /\ run' = [run EXCEPT ![t] = IF @ = "idle" THEN "loop" ELSE @]
    /\ stopped' = [stopped EXCEPT ![t] = @ \/ run[t] # "idle"]
    /\ text' = [text EXCEPT ![t] = IF run[t] = "idle" THEN "Stop" ELSE "Start"]
    /\ UNCHANGED form

\* closeEvent begins,
Close ==
    /\ form.pc = "open"
    /\ form' = [pc |-> "stop", todo |-> Both]
    /\ UNCHANGED <<run, stopped, text>>

\* stops both,
Stop ==
    /\ form.pc = "stop"
    /\ stopped' = [stopped EXCEPT ![Head(form.todo)] = TRUE]
    /\ form' = IF Len(form.todo) = 1 THEN [pc |-> "wait", todo |-> Both]
                                     ELSE [form EXCEPT !.todo = Tail(@)]
    /\ UNCHANGED <<run, text>>

\* and waits for both.
Wait ==
    /\ form.pc = "wait" /\ run[Head(form.todo)] = "idle"
    /\ form' = IF Len(form.todo) = 1 THEN [pc |-> "closed", todo |-> <<>>]
                                     ELSE [form EXCEPT !.todo = Tail(@)]
    /\ UNCHANGED <<run, stopped, text>>

\* The application is over.
Over == form.pc = "closed" /\ UNCHANGED vars

Run(t) == Look(t) \/ Reset(t) \/ Finish(t)

Next ==
    \/ \E t \in FormThreads : Run(t) \/ Click(t)
    \/ Close \/ Stop \/ Wait \/ Over

Safety == Init /\ [][Next]_vars

\* The threads run, and so does closeEvent once it has begun.
Fairness == (\A t \in FormThreads : WF_vars(Run(t))) /\ WF_vars(Stop \/ Wait)

Spec == Safety /\ Fairness

-----------------------------------------------------------------------------
(* Properties                                                              *)

TypeOK ==
    /\ run \in [FormThreads -> {"idle", "loop", "leave", "left"}]
    /\ stopped \in [FormThreads -> BOOLEAN]
    /\ text \in [FormThreads -> {"Start", "Stop"}]
    /\ form \in [pc : {"open", "stop", "wait", "closed"}, todo : {<<>>, Both, Tail(Both)}]

\* A start may fail, when a stop came so late that it was kept, but not two in
\* a row: where the button says "Stop" and nothing runs, the flag is down, and
\* the next click starts the thread for good.
NextStarts ==
    form.pc = "open" =>
        \A t \in FormThreads : run[t] = "idle" /\ text[t] = "Stop" => ~stopped[t]

\* No thread runs once the form is closed, or begins to.
AllDone == form.pc = "closed" => \A t \in FormThreads : run[t] = "idle"

\* The form can be closed at any time, whatever the threads are at: a flag that
\* closeEvent puts up is reset only by a thread that ends.
Closes == form.pc = "stop" ~> form.pc = "closed"

\* A click on "Stop" ends the thread, unless it is started again.
Stops == \A t \in FormThreads : text[t] = "Start" ~> run[t] = "idle" \/ text[t] = "Stop"

=============================================================================
