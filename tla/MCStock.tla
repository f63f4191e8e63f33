------------------------------ MODULE MCStock ------------------------------
(***************************************************************************)
(* Instances of Stock for TLC: two dishes that share an ingredient.        *)
(***************************************************************************)
EXTENDS Stock, TLC

CONSTANTS egg, rice, omelette, friedRice

Dishes(o, f) == omelette :> o @@ friedRice :> f
Units2(e, r) == egg :> e @@ rice :> r

MCRecipe == omelette :> Units2(1, 0) @@ friedRice :> Units2(1, 1)

Plenty == Units2(4, 2)

OneDish  == {Dishes(1, 0)}
BothDishes == {Dishes(1, 1)}
MixedBaskets == {Dishes(2, 0), Dishes(1, 1)}

NoAdjustments == {}
Withdrawal == {-2}
SetRecipes == {Units2(0, 1), Units2(1, 0)}

SlotSymmetry == Permutations(Requests)
=============================================================================
