--------------------------- MODULE MCUploadStream ---------------------------
(* Two disk streams of one id after each other, with a common file name; a  *)
(* disk stream of two chunks that shares it with a memory stream; and a     *)
(* second memory stream, for which there is room only beside one of a       *)
(* negative size.  Two waiting requests.                                    *)
EXTENDS UploadStream

CONSTANTS d1, d2, d3, m1, m2, n1, c1, c2

MCLives == {d1, d2, d3, m1, m2, n1}
MCid == [l \in MCLives |->
            CASE l = m1 -> "b" [] l = m2 -> "c" [] l = n1 -> "d" [] OTHER -> "a"]
MCfilename == [l \in MCLives |-> IF l \in {m1, n1} THEN "y" ELSE "x"]
MCfileSize == [l \in MCLives |-> CASE l \in {d1, d2, d3} -> 2 [] l = n1 -> -1 [] OTHER -> 1]
MCexpects == [l \in MCLives |-> l = d2]
MCtotalChunks == [l \in MCLives |-> IF l \in {d3, m1} THEN 2 ELSE 1]
MCWorkloads == {{d1, d2}, {d3, m2}, {m1, m2, n1}}
MCCalls == {c1, c2}
=============================================================================
