----------------------------- MODULE MCLogFile -----------------------------
(***************************************************************************)
(* Two threads, two lines each, three days.                                *)
(***************************************************************************)
EXTENDS LogFile

CONSTANTS ui, worker

MCThread == {ui, worker}
=============================================================================
