----------------------------- MODULE MCSession -----------------------------
(***************************************************************************)
(* Instances of TestSession for TLC: three CFIs, all scripts or one of     *)
(* each kind, and a DUT that is conformant or merely triggered.            *)
(***************************************************************************)
EXTENDS TestSession, TLC

ThreeCfis == {7, 23, 39}

Good == [json |-> TRUE, faults |-> {}, country |-> "US",
         has_channel |-> TRUE, has_freq_range |-> TRUE,
         chan |-> Cfi, empty_cfi |-> FALSE, freq |-> {7, 23}]
With(fault) == [Good EXCEPT !.faults = {fault}]

MixedBodies == {Good, With("locationKey"), With("noCert")}

\* The files in test_vectors/US: those of UAU phase 1 grant every channel or
\* range that their vector is about, all others none.
Files ==
  [name \in {<<"US", "default", 0, 0>>}
            \cup {<<"US", "UAU", v, p>> : v \in 1..3, p \in 1..2}
            \cup {<<"US", "USA", v, 0>> : v \in 1..3}
     |-> [chan |-> IF name[4] = 1 /\ name[3] \in {2, 3} THEN Cfi ELSE {},
          freq |-> IF name[4] = 1 /\ name[3] \in {1, 3} THEN Cfi ELSE {}]]

ScriptSettings == Settings(AllScripts)

\* One script of each family and role that differs to the simulator.
Families == {RSA("AP", 1, 80), RSA("AP", 2, 320), RSA("AP", 3, 160),
             RSA("STA", 3, 80), USA("AP", 2), USA("STA", 3),
             SAU("AP", 2), SAU("AP", 3), SAU("STA", 1), UAU("AP", 2),
             UAU("STA", 1), USV("AP", 1), USV("STA", 8)}

\* The scripts that hold a response.
HoldingScripts == {SAU("STA", 3)}
GoodBody == {Good}

Symmetry == Permutations(Inquiry)
=============================================================================
