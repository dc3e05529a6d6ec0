-------------------------- MODULE MCPolicyBindings --------------------------
(* Small instances of PolicyBindings for TLC. *)
EXTENDS PolicyBindings

CONSTANTS p1, p2, p3, b1

I(p, b) == [policy |-> p, bounds |-> b]

MCBoth == <<I(p1, b1), I(p2, NoBounds)>>

(* Other boundaries, another order, one policy less. *)
MCOther == {MCBoth, <<I(p2, b1), I(p1, NoBounds)>>, <<I(p2, NoBounds)>>}

(* One policy more. *)
MCMore == {Append(MCBoth, I(p3, NoBounds))}
=============================================================================
