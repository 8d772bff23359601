---------------------------- MODULE MCSchedule ----------------------------
(* Schedule with two reminders; an interval is two instants long. *)
EXTENDS Schedule
=============================================================================
