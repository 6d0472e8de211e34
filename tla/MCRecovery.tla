----------------------------- MODULE MCRecovery -----------------------------
(* Small caches and target disks for Recovery. *)
EXTENDS Recovery, TLC

CONSTANTS d1, d2, jpg

\* Two pictures with distinct names: one takes two buffers to copy, the other
\* has no fragments.
MCExt    == <<jpg, jpg>>
MCName   == <<1, 2>>
MCChunks == <<2, 0>>
MCDirs   == <<d1, d2>>

\* Pictures that fit one buffer, for the run about resuming.
PlainExt    == [r \in Rows |-> jpg]
PlainName   == [r \in Rows |-> r]
PlainChunks == [r \in Rows |-> 1]
OneDir      == <<d1>>
=============================================================================
