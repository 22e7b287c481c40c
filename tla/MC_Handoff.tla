----------------------------- MODULE MC_Handoff -----------------------------
(* Three connections and two workers whose pipes hold one record each: a   *)
(* scaled stand-in for a 64 KiB pipe of 16-byte records, with bursts of    *)
(* two accepts for the code's 32.  The third accept goes back to worker 0. *)
EXTENDS Handoff

CONSTANTS c1, c2, c3
====
