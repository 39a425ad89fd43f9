--------------------------- MODULE MCTomahawkTmon ---------------------------
(* Sensors 4 and 5: only sensor 5's interrupt is enabled by 0x2000. The     *)
(* codes decode to 125 (585), 122 (590), 119 (596), 69 (700) and, wrapped  *)
(* below 0 degrees, 429468 (900). NThresholds = 9 puts an entry past the   *)
(* loop's break.                                                            *)
EXTENDS TomahawkTmon

MCSensors == {4, 5}
MCNThresholds == 9
MCCodes == {585, 590, 596, 700, 900}
MCBgAdjfResets == {0, 5}
====
