------------------------- MODULE MCDoubleTaggedPunt -------------------------
(***************************************************************************)
(* A little-endian host (amd64, arm64), two next names, an opaque, the    *)
(* advances 0 and 14 (past an Ethernet header), two interfaces and        *)
(* vectors of one frame (x1) and two (x2).                                 *)
(*                                                                         *)
(* The punt node is given frames tagged for slots 0 and 1 (VlanTag 1 is   *)
(* the wire bytes 01 00 on this host), a frame with wire tag 00 01 (index *)
(* 256, past the pool) and an untagged IPv4 frame.                         *)
(***************************************************************************)
EXTENDS DoubleTaggedPunt

Addresses == <<1, 2, 3, 4, 5, 6>>
Body == <<2048, 17664, 20>>

Tagged(t0, t1) ==
  [buf |-> Addresses \o <<TYPE_VLAN, t0, TYPE_VLAN, t1>> \o Body, start |-> 0, si |-> 0]

MCWireFrames ==
  {Tagged(0, 0), Tagged(0, 256), Tagged(0, 1),
   [buf |-> Addresses \o Body \o <<7, 8, 9, 10>>, start |-> 0, si |-> 0]}

MCLocalFrames ==
  {[buf |-> <<0, 0, 0, 0>> \o Addresses \o Body, start |-> 4, si |-> s] : s \in Sis}

MCTagPairs == {[j \in 0..1 |-> IF j = 0 THEN 0 ELSE 1],
               [j \in 0..1 |-> IF j = 0 THEN 1 ELSE 0]}
=============================================================================
