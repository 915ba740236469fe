------------------------------- MODULE MCLog -------------------------------
(***************************************************************************)
(* Threads with every kind of sink.                                        *)
(***************************************************************************)
EXTENDS Log

MCSinks == {"default_sink", "thrower", "logger", "setter"}

MCDoes ==
    [s \in MCSinks |->
        CASE s = "thrower" -> "throws" [] s = "logger" -> "logs" [] s = "setter" -> "sets"
          [] OTHER -> "returns"]

=============================================================================
