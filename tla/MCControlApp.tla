----------------------------- MODULE MCControlApp -----------------------------
(***************************************************************************)
(* An instance of ControlApp: both signals, and one command of each kind   *)
(* that the dispatcher and the handlers tell apart.                        *)
(***************************************************************************)
EXTENDS ControlApp

Plain == [parses |-> TRUE, handled |-> TRUE, configures |-> FALSE,
          url |-> FALSE, ca_cert |-> FALSE, geo_area |-> FALSE]
MCCommand ==
  {Plain,                                              \* afcd_operation
   [Plain EXCEPT !.parses = FALSE, !.handled = FALSE],
   [Plain EXCEPT !.handled = FALSE],                   \* listed, not registered
   [Plain EXCEPT !.configures = TRUE, !.url = TRUE, !.ca_cert = TRUE],
   [Plain EXCEPT !.configures = TRUE, !.url = TRUE, !.ca_cert = TRUE, !.geo_area = TRUE],
   [Plain EXCEPT !.configures = TRUE, !.url = TRUE, !.geo_area = TRUE],
   [Plain EXCEPT !.configures = TRUE]}
=============================================================================
