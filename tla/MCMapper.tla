------------------------------ MODULE MCMapper ------------------------------
EXTENDS MapperMachine

\* A displaced stick either way and one exactly at the deadzone's edge; two
\* magnitudes so that the larger of X and Y can be either.
MCInputs ==
  {in \in [left_x : {-3, 1, 2}, left_y : {0, 2, 3}, right_y : {-2, 0},
           deadman : BOOLEAN, rapid : BOOLEAN, precision : {FALSE},
           cycle_resolution : BOOLEAN, select_resolution : BOOLEAN,
           selected_resolution : {3}, cancel : BOOLEAN, connected : BOOLEAN] :
     in.connected \/ in = Disconnected}
  \union {Disconnected}
=============================================================================
