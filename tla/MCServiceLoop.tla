--------------------------- MODULE MCServiceLoop ---------------------------
(***************************************************************************)
(* What a service process is started with in the runs: up to two port      *)
(* arguments, the last perhaps without its value; an environment that sets *)
(* at most two of the four variables; and an environment file of one line  *)
(* about any of them, or of two about those that SMTP asks for.  The       *)
(* values tell where one is from.                                          *)
(***************************************************************************)
EXTENDS ServiceLoop

MCArguments == {<<>>, <<"a1">>, <<"a1", "a2">>, <<Missing>>}

Shared == "FEDERATED_PORT"
Own == "FEDERATED_SMTP_PORT"

MCFiles == {<<>>}
             \cup {<<[var |-> v, value |-> "f1"]>> : v \in Variables}
             \cup {<<[var |-> v, value |-> "f1"], [var |-> w, value |-> "f2"]>> :
                     v, w \in {Shared, Own}}

MCEnvironments == {values \in [Variables -> {None, "e1"}] :
                     Cardinality({v \in Variables : values[v] # None}) <= 2}
=============================================================================
