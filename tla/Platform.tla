------------------------------ MODULE Platform ------------------------------
(***************************************************************************)
(* The Pico SDK's deadlines, which every component uses.  A deadline is the *)
(* number of ticks left; one that has been reached, or is nil_time, is zero. *)
(***************************************************************************)
EXTENDS Naturals

(* One tick of a deadline. *)
Down(t) == IF t = 0 THEN 0 ELSE t - 1
=============================================================================
