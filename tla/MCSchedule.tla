---------------------------- MODULE MCSchedule ----------------------------
(* Start dates around the ends of months, in a common year before a leap year. *)
EXTENDS Schedule
MCStarts == {28, 31, 243, 365}
=============================================================================
