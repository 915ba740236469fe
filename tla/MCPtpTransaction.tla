-------------------------- MODULE MCPtpTransaction --------------------------
(***************************************************************************)
(* Instances of PtpTransaction for TLC: one operation of every shape of    *)
(* transaction the code has.                                               *)
(***************************************************************************)
EXTENDS PtpTransaction

OneOpPerShape ==
    {"OpenSession", "GetObject", "SnapCommand", "ClearImageDBSingle", "DeleteObject"}

=============================================================================
