---------------------------- MODULE MCVideoDetect ----------------------------
EXTENDS VideoDetect

Cell(left, right, conf, p0, p1) ==
  [left |-> left, right |-> right, conf |-> conf, probs |-> (0 :> p0) @@ (1 :> p1)]

\* Nothing; a chain that reaches out of the picture, whose middle box is suppressed by
\* the first and would suppress the last; a tie of boxes that overlap, and another class
\* at the place of one; more boxes than MAX_OBJ_NUM, one on the threshold.
MCScenes ==
  {<<>>,
   <<Cell(-2, 4, 3, 5, 0), Cell(0, 6, 3, 4, 0), Cell(2, 8, 3, 3, 0)>>,
   <<Cell(1, 4, 2, 3, 4), Cell(2, 5, 2, 3, 0)>>,
   <<Cell(0, 2, 2, 3, 0), Cell(3, 5, 2, 0, 4), Cell(6, 9, 2, 5, 0), Cell(2, 4, 2, 2, 0)>>}
==============================================================================
