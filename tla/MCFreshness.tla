----------------------------- MODULE MCFreshness -----------------------------
(* Small widths for isFresh: a clock of four seconds, ten minutes as two     *)
(* seconds, 4-bit ints and 5-bit sizes, so that every wrap can happen.       *)
EXTENDS Freshness

MCMissingDate == -9

=============================================================================
