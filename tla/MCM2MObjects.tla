---------------------------- MODULE MCM2MObjects ----------------------------
(* Instances of M2MObjects for TLC.                                        *)
EXTENDS M2MObjects

\* A single record and each shape of a container with instances.
Items ==
    {<<Record("R", id, 0, Binary(1))>> : id \in {0, 1, 3}}
    \cup {<<Record("M", 0, 1, NoValue), Record("RI", k, 0, Binary(1))>> : k \in {0, 256}}
    \cup {<<Record("M", 0, 2, NoValue), Record("RI", 0, 0, Binary(1)), Record("RI", 256, 0, NoValue)>>,
          <<Record("R", 1, 0, NoValue)>>}

\* Every payload of one item or two.
OneOrTwo == Items \cup {a \o b : a, b \in Items}
=============================================================================
