--------------------------- MODULE SpectrumChannels ---------------------------
(***************************************************************************)
(* The channels of the 6 GHz band in a regulatory domain and the limits of *)
(* power on them, as the simulator (routes.py) computes them: which CFIs   *)
(* there are, which 20 MHz channels each is made of, and the EIRP limit of *)
(* a wide channel from the PSD limits of its parts.  Powers are in tenths  *)
(* of a dB, to which the code rounds every power it computes.              *)
(***************************************************************************)
EXTENDS Integers, FiniteSets

CONSTANT Country      \* the regulatory domain, country_code

ASSUME CountryAssumption == Country \in {"US", "CA"}
-----------------------------------------------------------------------------
Width == {20, 40, 80, 160, 320}

\* The channels first, first + step, ..., last.
Every(first, step, last) == {ch \in first..last : (ch - first) % step = 0}

\* country_param: the CFIs of each channel width.
CfiUS ==
  [bw \in Width |->
     CASE bw = 20  -> Every(1, 4, 93) \cup Every(117, 4, 181)
       [] bw = 40  -> Every(3, 8, 91) \cup Every(123, 8, 179)
       [] bw = 80  -> Every(7, 16, 87) \cup Every(135, 16, 167)
       [] bw = 160 -> {15, 47, 79, 143}
       [] bw = 320 -> {31, 63}]
CfiCA ==
  [bw \in Width |->
     CASE bw = 20  -> Every(1, 4, 181)
       [] bw = 40  -> Every(3, 8, 179)
       [] bw = 80  -> Every(7, 16, 167)
       [] bw = 160 -> Every(15, 32, 143)
       [] bw = 320 -> Every(31, 32, 127)]
Cfi == IF Country = "US" THEN CfiUS ELSE CfiCA

\* The distance of the outermost 20 MHz channels from the center.
Reach(bw) == (bw \div 10) - 2

\* The 20 MHz channels of a wider one: range(cfi - Reach, cfi + Reach + 1, 4).
Parts(cfi, bw) ==
  {ch \in (cfi - Reach(bw))..(cfi + Reach(bw)) :
     (ch - (cfi - Reach(bw))) % 4 = 0}

LowFrequency(ch, bw) == 5950 + 5 * ch - (bw \div 2)
HighFrequency(ch, bw) == 5950 + 5 * ch + (bw \div 2)
-----------------------------------------------------------------------------
(* From the power of 20 MHz channels to the limits of wider ones.  A mask   *)
(* is a function from the 20 MHz channels granted to their maxPsd.          *)

\* 10 * log10(bw), rounded as the sum with a PSD in tenths is rounded.
Gain(bw) == CASE bw = 20 -> 130 [] bw = 40 -> 160 [] bw = 80 -> 190
              [] bw = 160 -> 220 [] bw = 320 -> 251

MaxEirp == 360                        \* 36 dBm

ListedInner(mask, cfi, bw) ==      \* mutant: the outermost parts are left out
  {ch \in DOMAIN mask : cfi - Reach(bw) < ch /\ ch < cfi + Reach(bw)}

\* The channels whose maxPsd is in psd_list of get_min_maxpsd_by_bw.
Listed(mask, cfi, bw) ==
  {ch \in DOMAIN mask : cfi - Reach(bw) <= ch /\ ch <= cfi + Reach(bw)}

LeastPsd(mask, cfi, bw) ==
  CHOOSE psd \in {mask[ch] : ch \in Listed(mask, cfi, bw)} :
    \A ch \in Listed(mask, cfi, bw) : psd <= mask[ch]

GrantedInPart(mask, cfi, bw) ==    \* mutant: without the check of the length
  Listed(mask, cfi, bw) # {} /\ LeastPsd(mask, cfi, bw) # 0

\* get_min_maxpsd_by_bw returns None unless every part is there, and its
\* caller's "if psd:" takes a power of 0.0 for None.
Granted(mask, cfi, bw) ==
  /\ Cardinality(Listed(mask, cfi, bw)) = bw \div 20
  /\ LeastPsd(mask, cfi, bw) # 0

WideLimit(mask, cfi, bw) ==
  LET eirp == LeastPsd(mask, cfi, bw) + Gain(bw)
  IN IF eirp > MaxEirp THEN MaxEirp ELSE eirp

\* The maxEirp of each channel of a width: random_mask's for 20 MHz, mask_bw40
\* to mask_bw320 for the others.
Limits(mask, bw) ==
  IF bw = 20 THEN [ch \in DOMAIN mask |-> mask[ch] + Gain(20)]
  ELSE [cfi \in {c \in Cfi[bw] : Granted(mask, c, bw)} |-> WideLimit(mask, cfi, bw)]

\* The response: maxPsd by 20 MHz channel (availableFrequencyInfo) and maxEirp
\* by width and CFI (availableChannelInfo); an absent field has no entries.
Nothing == [ch \in {} |-> 0]
Vector(mask, testVector) ==
  [freq |-> IF testVector \in {1, 3} THEN mask ELSE Nothing,
   chan |-> [bw \in Width |-> IF testVector \in {2, 3} THEN Limits(mask, bw) ELSE Nothing]]
=============================================================================
