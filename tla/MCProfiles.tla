----------------------------- MODULE MCProfiles -----------------------------
(* Two names, one value that is too long for the columns. *)
EXTENDS Profiles

CONSTANTS ann, bob

MCNames == {ann, bob}
\* No field, every field alone, and the sons together.
MCBodies ==
  {{}} \cup {{f} : f \in Fields} \cup {{Son, SonLegacy}} \cup
  {{f, "unmarried_son2_details"} : f \in {Son, SonLegacy}}
Symmetry == Permutations(MCNames)
=============================================================================
