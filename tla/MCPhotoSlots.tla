----------------------------- MODULE MCPhotoSlots -----------------------------
(***************************************************************************)
(* The member's photo is an upload that replaced one from Drive; since     *)
(* then another Drive link was entered, whose copy is there from earlier.  *)
(* The one member before it has two photos, and may be given the link of a *)
(* third, which Drive hands to nobody.                                     *)
(***************************************************************************)
EXTENDS PhotoSlots, TLC

CONSTANTS jpg, png, hid, u1, u2, u3, r1, r2

Extensions == [f \in Files |-> IF f = jpg THEN "jpg" ELSE "png"]

Empty == [live |-> TRUE, key |-> [s \in Slots |-> None], drive |-> [s \in Slots |-> None],
          data |-> [s \in Slots |-> None], col |-> None]

Both == [Empty EXCEPT !.data = [s \in Slots |-> png], !.col = png]

Seeded(row_, stored, before_) ==
  [row |-> row_,
   media |-> [k \in Keys |-> IF k \in stored THEN "live" ELSE "none"],
   objects |-> stored,
   before |-> before_]

Uploaded ==
  Seeded([Empty EXCEPT !.key["member"] = u1, !.drive["member"] = jpg,
                       !.data["member"] = png, !.col = png],
         {u1, Migrated("member", png)}, <<Both>>)
OneUploaded == {Uploaded}

Setting(choice, configured, public) == [choice |-> choice, r2 |-> configured, public |-> public]
Remote == {Setting("auto", TRUE, TRUE)}
=============================================================================
