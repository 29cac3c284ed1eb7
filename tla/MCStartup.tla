----------------------------- MODULE MCStartup ------------------------------
(* Parameters, each with a shorter and maybe a longer value. *)
EXTENDS Startup, FiniteSets

CONSTANTS Short, Long

\* The braces, and a longer text for a longer value.
MCLength ==
    [values \in [Param -> Value \cup {Unset}] |->
        1 + Cardinality({p \in Param : values[p] = Short})
        + 2 * Cardinality({p \in Param : values[p] = Long})]
=============================================================================
