------------------------- MODULE MCRequestAdmission -------------------------
(***************************************************************************)
(* Two requests in flight, one token that may read and one that operates.  *)
(***************************************************************************)
EXTENDS RequestAdmission, TLC

CONSTANTS s1, s2, reader, operator

MCSlots == {s1, s2}
MCTokens == {reader, operator}
MCScopes == {"read", "operate"}
MCImplied == ("read" :> {"read"}) @@ ("operate" :> {"read", "operate"})
MCGranted == (reader :> {"read"}) @@ (operator :> {"operate"})
SlotSymmetry == Permutations(Slots)
=============================================================================
