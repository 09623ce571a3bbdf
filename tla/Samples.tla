------------------------------- MODULE Samples -------------------------------
(***************************************************************************)
(* The samples with threads or timers, one of which is run:                *)
(* pthread_cond_test (Threshold), race_condition (RaceCondition), the form *)
(* with two threads (QtThreads) or the scroller of a page (Scroller).      *)
(* The samples share nothing: `program' says which of them runs, and the   *)
(* variables of the others stay as they are at its start.                  *)
(***************************************************************************)
EXTENDS Threshold, RaceCondition

VARIABLES
    program,
    run, stopped, text, form,   (* of QtThreads                            *)
    page, rest, fx, taken, older, bound, overlap        (* of Scroller     *)

Form == INSTANCE QtThreads

\* The list has nine items in the code, four of which are on the page.
Scroller == INSTANCE Scroller WITH Items <- <<1, 2, 3, 4, 5, 6>>, num <- 3

ASSUME SamplesBounds == Scroller!ScrollerAssumption

formVars == <<run, stopped, text, form>>
scrollerVars == <<page, rest, fx, taken, older, bound, overlap>>
samplesVars == <<program, vars, linesVars, formVars, scrollerVars>>

SamplesInit ==
    /\ program \in {"pthread_cond_test", "race_condition", "thread_sample", "scroller"}
    /\ Init /\ LinesInit /\ Form!Init /\ Scroller!Init

SamplesNext ==
    /\ UNCHANGED program
    /\ \/ /\ program = "pthread_cond_test" /\ Next
          /\ UNCHANGED <<linesVars, formVars, scrollerVars>>
       \/ /\ program = "race_condition" /\ LinesNext
          /\ UNCHANGED <<vars, formVars, scrollerVars>>
       \/ /\ program = "thread_sample" /\ Form!Next
          /\ UNCHANGED <<vars, linesVars, scrollerVars>>
       \/ /\ program = "scroller" /\ Scroller!Next
          /\ UNCHANGED <<vars, linesVars, formVars>>

SamplesFairness ==
    /\ program = "pthread_cond_test" => Fairness
    /\ program = "race_condition" => LinesFairness
    /\ program = "thread_sample" => Form!Fairness
    /\ program = "scroller" => Scroller!Fairness

SamplesSpec == SamplesInit /\ [][SamplesNext]_samplesVars /\ SamplesFairness

-----------------------------------------------------------------------------
(* Properties; NoLostSignal is that of Threshold.                          *)

\* Every variable has its type; no increment is lost, and the watcher goes on at
\* the threshold and not before; the lines are numbered without a gap, and those
\* too many are fewer than the threads; a start or a stop of the form's threads is
\* not lost twice in a row, and no thread runs when the form is closed.
SamplesSound ==
    /\ TypeOK /\ LinesTypeOK /\ Form!TypeOK
    /\ Accounted /\ Reached
    /\ Numbered /\ Overshoot
    /\ Form!NextStarts /\ Form!AllDone

\* No item of the scroller is lost or doubled, in whatever order clicks and
\* animations come, unless both buttons have been showing an item at the same time;
\* and as long as their turns do not overlap, the items only go round.
ItemsKept == Scroller!TypeOK /\ Scroller!ItemsKept

\* Every sample comes to its end: main joins its threads, the form closes
\* whatever the threads are at, a click on "Stop" ends a thread, and a button of
\* the scroller that was clicked answers again.
AllEnd ==
    /\ program = "pthread_cond_test" => Returns
    /\ program = "race_condition" => LinesReturns
    /\ Form!Closes /\ Form!Stops /\ Scroller!Answers
=============================================================================
