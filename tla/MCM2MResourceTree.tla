-------------------------- MODULE MCM2MResourceTree --------------------------
(* Instances of M2MResourceTree for TLC.                                    *)
EXTENDS M2MResourceTree

CONSTANTS o, i, r, q, m, x

AllNodes == {o, i, r, q, m, x}

\* Two resources and a multiple resource of one instance under one object instance.
ParentOf ==
    [n \in AllNodes \ {o} |->
        CASE n = i -> o
          [] n = x -> m
          [] OTHER -> i]

\* Every node has a token of its own.
OwnTokens == [n \in AllNodes |-> {n}]

\* A payload names nothing, or the multiple resource and its instance.
OneResource == {{}, {m, x}}
=============================================================================
