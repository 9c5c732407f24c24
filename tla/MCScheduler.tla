---------------------------- MODULE MCScheduler ----------------------------
(* Values for the constants of Scheduler: schedules of either kind, and    *)
(* dates of a leap year and of two that are none.                          *)
EXTENDS Scheduler

CONSTANTS r1, r2, a1

TimingValue == [s \in Schedules |-> IF s = a1 THEN "AFTER_PREVIOUS_JOB_FINISHED"
                                            ELSE "REGULAR_INTERVAL"]
IntervalValue == [s \in Schedules |-> IF s = r2 THEN 5 ELSE 2]
=============================================================================
