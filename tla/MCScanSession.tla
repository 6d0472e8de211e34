---------------------------- MODULE MCScanSession ----------------------------
(* Small disks for ScanSession. *)
EXTENDS ScanSession, TLC

CONSTANTS m1, m2, i1, i2, i3, v1, v2, v3

\* Two metadata files; a long video right behind the metadata with a picture
\* inside it; a picture at 5, which is cut off its batch or not according to
\* where the batch starts; two more videos, each following the one before; and
\* a picture in the last sector.
MCFiles     == {m1, m2, i1, i2, i3, v1, v2, v3}
MCMetaFiles == {m1, m2}
MCVideos    == {v1, v2, v3}
MCKey  == (m1 :> 21) @@ (m2 :> 22) @@ (v1 :> 2) @@ (i1 :> 3)
          @@ (i2 :> 5) @@ (v2 :> 7) @@ (v3 :> 8) @@ (i3 :> 9)
MCPos  == (v1 :> 2) @@ (i1 :> 3) @@ (i2 :> 5) @@ (v2 :> 7) @@ (v3 :> 8) @@ (i3 :> 9)
MCSize == (v1 :> 2) @@ (i1 :> 1) @@ (i2 :> 1) @@ (v2 :> 1) @@ (v3 :> 1) @@ (i3 :> 1)
MCFollows == {<<v1, v2>>, <<v2, v3>>}
=============================================================================
