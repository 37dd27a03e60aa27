------------------------------- MODULE MCMask --------------------------------
(***************************************************************************)
(* Instances of SpectrumMask: one power drawn for most 20 MHz channels and *)
(* another for a few of them; inquiries by channel, by range and by both;  *)
(* settings of the scripts for 80, 160 and 320 MHz.                        *)
(***************************************************************************)
EXTENDS SpectrumMask

\* The power of the quiet channels and of the loud ones.
Levels == {<<220, 80>>, <<150, 0>>, <<-50, 80>>, <<250, 80>>}
LoudSets == {{33, 37, 41, 45}, {1, 61, 65}}
MCDraw ==
  {[ch \in Cfi[20] |-> l[IF ch \in loud THEN 2 ELSE 1]] : l \in Levels, loud \in LoudSets}

Tc(tv, width, power, diff) ==
  [testVector |-> tv, channelWidth |-> width, onlyRandomPower |-> power,
   difference_last_picks |-> diff]
MCSetting ==
  {Tc(1, 80, FALSE, FALSE), Tc(1, 80, FALSE, TRUE),
   Tc(3, 80, FALSE, FALSE), Tc(3, 80, FALSE, TRUE), Tc(3, 80, TRUE, FALSE),
   Tc(2, 160, FALSE, FALSE), Tc(2, 160, FALSE, TRUE),
   Tc(3, 320, FALSE, FALSE), Tc(3, 320, FALSE, TRUE)}

AllClasses == [bw \in Width |-> Unlisted]
Inq(chan, freq) == [chan |-> chan, freq |-> freq]
MCInquiry ==
  {Inq([bw \in {} |-> {}], {<<5945, 6105>>}),
   Inq([bw \in {20, 80} |-> IF bw = 20 THEN Unlisted ELSE {7, 23, 39}], {<<5945, 6185>>}),
   Inq(AllClasses, {<<5925, 6265>>}),
   Inq([bw \in {320} |-> {31, 63}], {<<5925, 6425>>}),
   Inq([bw \in {80} |-> {7}], {<<5945, 6105>>}),
   Inq([bw \in {160} |-> {15, 47, 111}], {}),
   Inq([bw \in {} |-> {}], {<<5955, 6105>>})}    \* cuts a 20 MHz channel in two
=============================================================================
