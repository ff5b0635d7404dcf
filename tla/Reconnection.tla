---------------------------- MODULE Reconnection ----------------------------
(***************************************************************************)
(* What M2MInterfaceImpl promises about reconnecting, whatever the         *)
(* transport, the servers and the timers do (docs/Introduction.md,         *)
(* "Reconnectivity"): the failures since the last success are counted one  *)
(* by one; the client goes on until there are COUNT of them; only then, or *)
(* when it is told not to retry, does it give up or, built with the        *)
(* reconnection loop, start counting again, and both times it reports an   *)
(* error; a reconnection never ends in silence.                            *)
(***************************************************************************)
EXTENDS Naturals

CONSTANTS
    COUNT,  \* failures before the client reports one
    LOOP    \* TRUE when it then starts again instead of giving up

VARIABLES
    count,          \* failures since the last success
    reconnecting,
    report          \* what the last step told the application

reconnectionVars == <<count, reconnecting, report>>

Reports == {"nothing", "success", "error"}

Init ==
    /\ count = 0
    /\ reconnecting = FALSE
    /\ report = "nothing"

Fail ==
    /\ count < COUNT
    /\ count' = count + 1
    /\ reconnecting' = TRUE
    /\ report' \in Reports \ {"success"}

StartAgain ==
    /\ LOOP
    /\ count = COUNT
    /\ count' = 1
    /\ reconnecting' = TRUE
    /\ report' = "error"

\* retry = FALSE in socket_error(), or no attempt left.
GiveUp ==
    /\ count' = 0
    /\ reconnecting' = FALSE
    /\ report' = "error"

Succeed ==
    /\ count' = 0
    /\ reconnecting' = FALSE
    /\ report' = "success"

\* Whatever else the client does and tells, the reconnection goes on.
Proceed ==
    /\ report' \in Reports
    /\ UNCHANGED <<count, reconnecting>>

Next == Fail \/ StartAgain \/ GiveUp \/ Succeed \/ Proceed

Spec == Init /\ [][Next]_reconnectionVars
=============================================================================
