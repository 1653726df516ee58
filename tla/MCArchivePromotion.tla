------------------------- MODULE MCArchivePromotion -------------------------
(* Instances of ArchivePromotion for TLC: two captures, two names, and the  *)
(* outputs processing may produce for them; and ArchiveOutput, which says   *)
(* how a policy makes such an output, over small pictures.                  *)
EXTENDS ArchivePromotion, TLC

CONSTANTS i1, i2, n1, n2, x, y, z

TwoItems  == {i1, i2}
TwoNames  == {n1, n2}
Contents  == {x, y, z}

Produces(derived, main, avatar) ==
    [derived |-> derived,
     bytes   |-> [s \in Slot |-> IF s = "main" THEN main ELSE avatar]]

\* Two annotated images.
Images   == {Produces(TRUE, x, None), Produces(TRUE, y, None)}

\* The user writes something of his own, or removes a file.
OwnEdits == {y, None}

AllOps   == {"reprocess", "delete", "deleteProject", "edit", "crash"}

\* Captures are alike, and so are names.
Alike    == Permutations(TwoItems) \cup Permutations(TwoNames)

Output == INSTANCE ArchiveOutput

\* Heights around the wanted ones, widths around one pixel.
SmallPictures ==
    [width : {1, 2, 1919, 1920}, height : {1, 2, 3, 1079, 1080, 1081, 2160},
     format : Output!SourceFormats] \cup {Output!Unreadable}
SmallSpecs == [size : Output!Sizes, format : Output!Formats, quality : {90},
               native : {0, 1, 2, 1080}]

ASSUME \A pic \in SmallPictures, spec \in SmallSpecs :
          /\ Output!NeverUpscaled(pic, spec) /\ Output!FactsTrue(pic, spec)
          /\ Output!CopyKept(pic, spec)
=============================================================================
