----------------------------- MODULE MCSimulator -----------------------------
(***************************************************************************)
(* Instances of AFCSimulator for TLC: three CFIs of one channel width, the *)
(* settings of the SAU, RSA and UAU scripts and request bodies that take   *)
(* every path through the checks.                                          *)
(***************************************************************************)
EXTENDS AFCSimulatorService, TLC

ThreeCfis == {7, 23, 39}

Good == [json |-> TRUE, faults |-> {}, country |-> "US",
         has_channel |-> TRUE, has_freq_range |-> TRUE,
         chan |-> Cfi, empty_cfi |-> FALSE, freq |-> {7, 23}]
With(fault) == [Good EXCEPT !.faults = {fault}]

\* Every kind of body, for runs with few inquiries.
AllBodies ==
  {With(f) : f \in Fault} \cup
  {Good,
   [Good EXCEPT !.json = FALSE],
   [Good EXCEPT !.country = "CA"],
   [Good EXCEPT !.has_freq_range = FALSE, !.freq = {}],
   [Good EXCEPT !.has_channel = FALSE, !.chan = {}],
   [Good EXCEPT !.has_channel = FALSE, !.chan = {}, !.has_freq_range = FALSE,
                !.freq = {}],
   [Good EXCEPT !.chan = {39}],
   [Good EXCEPT !.chan = {}, !.empty_cfi = TRUE]}

\* For liveness: an inquiry that is granted spectrum and one that fails late.
TwoBodies == {[Good EXCEPT !.chan = {7, 23}],
              [Good EXCEPT !.chan = {7, 23}, !.faults = {"noCert"}]}

\* An inquiry that passes every check, a smaller one, and two that fail.
FewBodies == {Good, [Good EXCEPT !.chan = {7, 39}], With("locationKey"),
              With("noCert")}

SAU(p) == [purpose |-> "SAU", testVector |-> 3, phase |-> p, random |-> TRUE,
           channelWidth |-> 80, countryCode |-> "US",
           difference_last_picks |-> (p = 2)]
SAUHeld == [purpose |-> "SAU", testVector |-> 3, phase |-> 2, random |-> TRUE,
            channelWidth |-> 80, countryCode |-> "US",
            difference_last_picks |-> TRUE, holdResponse |-> TRUE]
RSAPower == [purpose |-> "RSA", testVector |-> 2, random |-> TRUE,
             channelWidth |-> 320, countryCode |-> "US",
             onlyRandomPower |-> TRUE]
UAU(p) == [purpose |-> "UAU", testVector |-> 1, phase |-> p,
           countryCode |-> "US"]

\* A set-response that leaves the phase out: no file is named without one.
UAUPhaseless == [purpose |-> "UAU", testVector |-> 1, countryCode |-> "US"]

AllSettings == {SAU(1), SAU(2), SAUHeld, RSAPower, UAU(1), UAU(2), UAUPhaseless}
SAUSettings == {SAU(1), SAUHeld}

\* Of the files in test_vectors/US: default.json and UAU phase 2 grant
\* nothing, UAU phase 1 the ranges.
Files == [name \in {<<"US", "default", 0, 0>>, <<"US", "UAU", 1, 1>>,
                    <<"US", "UAU", 1, 2>>}
            |-> [chan |-> {}, freq |-> IF name[4] = 1 THEN Cfi ELSE {}]]

\* Inquiries differ only in their name.
Symmetry == Permutations(Inquiry)
=============================================================================
