------------------------------ MODULE MCScreen ------------------------------
(* Model-checking instance of Display and RuntimeUi.  The two share no     *)
(* state, so that each moves while the other is as it was initialised.     *)
(* The rectangles are cut off at each edge of a small screen, some with a  *)
(* column between them.                                                    *)
EXTENDS Display, RuntimeUi

MCColumns == {-1, 2}
MCRows == {-1, 0, 1}
MCSources == {[k \in 0 .. 8 |-> IF k \in {1, 3, 4} THEN 1 ELSE 0]}
MCLogos == {[m \in 0 .. 5 |-> m % 2]}

ScreenInit == DisplayInit /\ Init
ScreenNext ==
  \/ Init /\ DisplayNext /\ UNCHANGED vars
  \/ DisplayInit /\ Next /\ UNCHANGED displayVars
ScreenSpec == ScreenInit /\ [][ScreenNext]_<<displayVars, vars>>
=============================================================================
