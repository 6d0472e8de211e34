----------------------------- MODULE MCSaveDirs -----------------------------
(* Disks 1, 2 and 6 can be opened; a volume spans disks 3 and 1.            *)
EXTENDS SaveDirs, TLC

MCLetters == {"D", "E", "G", "S"}
MCExtents == ("D" :> <<2>>) @@ ("E" :> <<2>>) @@ ("G" :> <<6>>)
             @@ ("S" :> <<3, 1>>)
MCPaths == [letter : MCLetters \cup {NoLetter}]
=============================================================================
