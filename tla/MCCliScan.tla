----------------------------- MODULE MCCliScan -----------------------------
(* Three files, so that a full batch and a rest are stored. *)
EXTENDS CliScan

CONSTANTS f1, f2, f3

MCFiles == {f1, f2, f3}

=============================================================================
