------------------------- MODULE MCM2MReportHandler -------------------------
(***************************************************************************)
(* M2MReportHandler for TLC: the attributes the server writes in each run. *)
(***************************************************************************)
EXTENDS M2MReportHandler

\* A maximum period longer than every minimum.
Distinct == [pmin |-> {0, 1, 2}, pmax |-> {3}]

\* A minimum above the maximum, no maximum (below -1), thresholds that pass the
\* validity check and one (gt = 2) that fails it with lt or st.
WithThresholds == [pmin |-> {3}, pmax |-> {-2, 2}, gt |-> {2, 4}, lt |-> {1}, st |-> {0, 1}]
=============================================================================
