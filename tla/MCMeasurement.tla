----------------------------- MODULE MCMeasurement ----------------------------
(***************************************************************************)
(* Instances of RfMeasurement: three grants (an 80 MHz channel and its     *)
(* neighbour, half of an 80 MHz channel, the lowest channels of the band)  *)
(* and packets that break one limit each.                                  *)
(***************************************************************************)
EXTENDS RfMeasurement

Granting(S, T) == [ch \in S \cup T |-> IF ch \in S THEN 100 ELSE 80]
MCMask ==
  {Granting({33, 37, 41, 45}, {49, 53, 57, 61}),
   Granting({33, 37}, {}),
   Granting({1, 5, 9, 13}, {17})}

Op(channel, bw) == [channel |-> channel, bw |-> bw]
\* Primary channels of granted and other channels, and one that is not primary.
MCOperation ==
  {Op(33, 20), Op(35, 20), Op(13, 80), Op(33, 40), Op(35, 40), Op(45, 80), Op(61, 80),
   Op(45, 160)}

Pkt(dur, eirp, psd, low, high) ==
  [dur |-> dur, eirp |-> eirp, psd |-> psd, low |-> low, high |-> high]
\* In a sweep the first is allowed to a client of the SP AP and to a DUT that
\* supports LPI, the last to the latter only, and the others to nobody.
Good == Pkt(100, 160, 15, -200, -200)
MCPacket ==
  {Good, Pkt(108, 225, 120, -200, -200), Pkt(115, 300, 75, -200, -200),
   Pkt(300, 190, 40, -200, 90)}
=============================================================================
