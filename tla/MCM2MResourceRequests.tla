------------------------ MODULE MCM2MResourceRequests ------------------------
(* Instances of M2MResourceRequests for TLC.                                 *)
EXTENDS M2MResourceRequests

CONSTANTS long, short, first, second, object

\* A value of three blocks and one of two.
LongAndShort == [t \in {long, short} |-> IF t = long THEN 3 ELSE 2]

\* Both callbacks of both types on the resource, one on another object.
OneElsewhere == ({Resource} \X Types \X Callbacks) \cup {<<object, "ExecuteCallback2", first>>}
=============================================================================
