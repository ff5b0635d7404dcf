----------------------------- MODULE Observation -----------------------------
(***************************************************************************)
(* What observing a tree of nodes promises, without handlers or levels.    *)
(*                                                                         *)
(* A server asks to observe nodes and is told of every change below them   *)
(* (docs/info_reporting.md). Heard[c] is the set of the nodes that change  *)
(* c of a value concerns, Optional[c] those among them that may be left    *)
(* out. While the tree is muted nothing is told; ending an observation,    *)
(* also one that is not there, may mute it, starting one ends that.        *)
(***************************************************************************)
CONSTANTS Nodes, Changes, Heard, Optional, None

VARIABLES
    observing,   \* the nodes the server observes
    muted,       \* nothing is told at present
    change,      \* the change the last step made, None if it made none
    told         \* the nodes the server was told of in that step

vars == <<observing, muted, change, told>>

Quiet == change' = None /\ told' = {}

Init ==
    /\ observing = {}
    /\ muted = TRUE
    /\ change = None
    /\ told = {}

Start(n) ==
    /\ observing' = observing \cup {n}
    /\ muted' = FALSE
    /\ Quiet

\* Observations end, one or several with the nodes they are on; a node that is not
\* observed may be cancelled too, and what concerns no observation tells nothing.
End ==
    /\ observing' \in SUBSET observing
    /\ muted' \in BOOLEAN
    /\ Quiet

Change(c) ==
    /\ change' = c
    /\ told' \subseteq observing \cap Heard[c]
    /\ IF muted THEN told' = {} ELSE (observing \cap Heard[c]) \ told' \subseteq Optional[c]
    /\ UNCHANGED <<observing, muted>>

Next ==
    \/ \E n \in Nodes : Start(n)
    \/ End
    \/ \E c \in Changes : Change(c)

Spec == Init /\ [][Next]_vars
=============================================================================
