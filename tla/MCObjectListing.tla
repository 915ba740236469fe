-------------------------- MODULE MCObjectListing --------------------------
(***************************************************************************)
(* Two cards; objects with small handles, and two with handles of a        *)
(* quarter of the word range.                                              *)
(***************************************************************************)
EXTENDS ObjectListing

TwoStorages == {9, 10}

FourHandles == {1, 3, 15, 16}

Places == [h \in FourHandles |-> IF h = 3 THEN 10 ELSE 9]

=============================================================================
