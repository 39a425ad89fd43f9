--------------------------- MODULE MCNetNamespace ---------------------------
(* Model-checking instance of NetNamespace: two directory entries, one of  *)
(* them present at startup.                                                 *)
EXTENDS NetNamespace

CONSTANTS n1, n2

MCNames == {n1, n2}
MCInitialDir == {n1}
=============================================================================
