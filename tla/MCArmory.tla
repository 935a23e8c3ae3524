------------------------------ MODULE MCArmory ------------------------------
(* Instances of Armory for TLC, with entries of the weapon table.          *)
EXTENDS Armory, TLC

(* Shotgun Lv1 is 2, Revolver Lv1 is 4; 9 is not in the table.             *)
Guns         == {2, 4}
Asked        == {2, 4, 9}
GunPrice     == 2 :> 300 @@ 4 :> 500
GunMagazine  == 2 :> 2 @@ 4 :> 6
Anyone       == Permutations(User) \cup Permutations(Workers)
=============================================================================
