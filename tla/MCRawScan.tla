------------------------------ MODULE MCRawScan ------------------------------
(* Small damaged disks for RawScan. *)
EXTENDS RawScan, TLC

\* Two videos with a picture between them, a picture with its end marker in
\* the sector after its header, a video, and a picture in the last sectors, in
\* whose first sector the validator sees what it takes for the end.
MCDisk == (1 :> "mp4") @@ (3 :> "jpg") @@ (6 :> "eoi") @@ (7 :> "mp4")
          @@ (12 :> "png") @@ (13 :> "iend") @@ (14 :> "avi") @@ (16 :> "gif")

MCConfidence == [c \in Headers |-> IF c \in {"jpg", "gif", "mp4"} THEN 80 ELSE 50]
MCHeuristic  == [c \in Headers |-> IF c \in {"png", "gif"} THEN 2 ELSE 0]

\* No damage; a sector inside the first picture; one inside the second; two
\* whole batches; sectors of three batches.
MCDamage == {{}, {4}, {13}, 4..11, {2, 9, 17}}
AllReaders == [app : {"scan", "recover"}, policy : {"skip", "retry", "force"}]
SkippingReader == [app : {"scan"}, policy : {"skip"}]
=============================================================================
