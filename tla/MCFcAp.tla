-------------------------------- MODULE MCFcAp --------------------------------
(***************************************************************************)
(* An instance of FcApService: two inquiries, the settings of the scripts  *)
(* (a country) and two that use the rest of the interface.                 *)
(***************************************************************************)
EXTENDS FcApService

TwoCfis == {7, 23}
Good == [json |-> TRUE, faults |-> {}, country |-> "US", chan |-> {7}, freq |-> {7, 23}]
With(fault) == [Good EXCEPT !.faults = {fault}]
MCBody ==
  {With(f) : f \in {"unparsable", "locationKey", "noCert"}} \cup
  {Good, [Good EXCEPT !.json = FALSE], [Good EXCEPT !.country = "CA"],
   [Good EXCEPT !.chan = {}],
   [Good EXCEPT !.chan = {}, !.freq = {}]}

MCSetting ==
  {[countryCode |-> "US"], [countryCode |-> "CA"],
   [purpose |-> "USA", testVector |-> 1, phase |-> 1, holdResponse |-> TRUE],
   [holdResponse |-> FALSE]}

\* The default files grant every channel and range; nothing else is installed.
MCFile == [name \in {<<"default", "US">>, <<"default", "CA">>}
             |-> [chan |-> Cfi, freq |-> Cfi]]
=============================================================================
