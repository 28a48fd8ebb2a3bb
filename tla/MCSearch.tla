------------------------------ MODULE MCSearch ------------------------------
(* Search with two blogs, on strings over four code points, the third of   *)
(* which stands for U+F8FF: a place each text finds, and one that starts   *)
(* with the first text but goes on late.                                   *)
EXTENDS Search

MCTexts == {<<1>>, <<1, 2>>}
MCLocations == {<<1, 2>>, <<1, 4>>, <<2>>}
=============================================================================
