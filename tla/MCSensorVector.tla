------------------------------ MODULE MCSensorVector ------------------------------
(* Loops of none, one, three and seven rounds, with room for all of their sensors,  *)
(* for some or for the first only.                                                  *)
EXTENDS SensorVector

FewAndMany == {0, 1, 3, 7}
====
