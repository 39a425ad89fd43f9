----------------------- MODULE MCNamespaceInterfaces -----------------------
(* Two namespaces, two indices, two names; the tuntap interface t is named *)
(* b and sits at index 2 of ns1, where the kernel starts with a and b.     *)
EXTENDS NamespaceInterfaces, TLC

CONSTANTS ns1, ns2, a, b, t

MCNS == {ns1, ns2}
MCIfindex == {1, 2}
MCIfNames == {a, b}
MCTaps == {t}
MCTapByName == (a :> NoTap) @@ (b :> t)
MCTapByIfindex == [x \in MCNS \X MCIfindex |-> IF x = <<ns1, 2>> THEN t ELSE NoTap]
MCInitialLinks == (ns1 :> (1 :> a @@ 2 :> b)) @@ (ns2 :> (1 :> NoLink @@ 2 :> NoLink))
=============================================================================
