-------------------------- MODULE MCPictureDownload --------------------------
(***************************************************************************)
(* Two pictures: one of five bytes, which takes one, three or five parts,  *)
(* and one of two, which the smaller chunks fill exactly.                  *)
(***************************************************************************)
EXTENDS PictureDownload

TwoHandles == {1, 2}

Sizes == [h \in TwoHandles |-> IF h = 1 THEN 5 ELSE 2]

=============================================================================
