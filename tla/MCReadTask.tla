----------------------------- MODULE MCReadTask -----------------------------
(* TLC instance of ReadTask: one scan, or two or three of them, with empty  *)
(* batches, batches of one slice and of several, and scans without a batch. *)
EXTENDS ReadTask

MCPlans == {<< <<3>> >>, << <<2, 3>>, <<1>> >>, << <<0, 1>>, << >>, <<5>> >>}
MCLimits == {None, 0, 1, 2, 5, 9}
=============================================================================
