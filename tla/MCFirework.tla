------------------------------ MODULE MCFirework -------------------------------
(* Firework with short rockets and few flashes, and every type of burst. *)
EXTENDS Firework

MCCotSizes == {3, 12}
MCTiaSizes == {4, 5}
AllTypes == After \union Before \union {"No1DiemDienDay"}
===============================================================================
