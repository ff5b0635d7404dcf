------------------------- MODULE M2MCallbackStorage -------------------------
(***************************************************************************)
(* The list in which the library keeps the callbacks of its objects: an    *)
(* association has the address of an object, the type of the callback and  *)
(* the callback. Translated from source/m2mcallbackstorage.cpp. The same   *)
(* address may serve one object after another.                             *)
(***************************************************************************)
EXTENDS Naturals, Sequences, SequencesExt, FiniteSetsExt

CONSTANT NoCallback

Association(object, type, callback) == [object |-> object, type |-> type, callback |-> callback]

Matches(callbacks, object, type) ==
    {k \in DOMAIN callbacks : callbacks[k].object = object /\ callbacks[k].type = type}

\* do_get_callback(): the first that matches.
GetCallback(callbacks, object, type) ==
    LET found == Matches(callbacks, object, type)
    IN  IF found = {} THEN NoCallback ELSE callbacks[Min(found)].callback

\* do_add_callback(): not the same callback twice.
AddCallback(callbacks, object, type, callback) ==
    IF Contains(callbacks, Association(object, type, callback)) THEN callbacks
    ELSE Append(callbacks, Association(object, type, callback))

\* do_remove_callback(): the first that matches.
RemoveCallback(callbacks, object, type) ==
    LET found == Matches(callbacks, object, type)
    IN  IF found = {} THEN callbacks ELSE RemoveAt(callbacks, Min(found))
=============================================================================
