---------------------------- MODULE SpectrumMask -----------------------------
(***************************************************************************)
(* The spectrum a random test vector grants (afc_simulator_service,        *)
(* routes.py): from the channels the DUT inquires to the CFIs picked, the  *)
(* power drawn for each of their 20 MHz channels, the limits of the wider  *)
(* channels computed from it, and the response filtered to the inquiry.    *)
(*                                                                         *)
(* AFCSimulator models who may interleave with this computation and knows  *)
(* spectrum only as sets of CFIs; here it is done with the real channel    *)
(* numbers and powers, by one handler at a time.  Powers are in tenths of  *)
(* a dB, to which the code rounds every power it computes.                 *)
(***************************************************************************)
EXTENDS SpectrumChannels

CONSTANTS
  Setting,      \* the bodies the scripts post to set-response
  Inquiry,      \* the inquiries the DUT may send
  Draw          \* what random.uniform may yield for each 20 MHz channel

\* An inquiry: the CFI list of each operating class it names, by the width of
\* the class, and its frequency ranges.  A class named without a list has the
\* list Unlisted, one that is not named is not in the domain.
Unlisted == {0}
IsInquiry(inq) ==
  /\ DOMAIN inq.chan \subseteq Width
  /\ \A bw \in DOMAIN inq.chan : inq.chan[bw] \in SUBSET Int
  /\ inq.freq \in SUBSET (Int \X Int)

IsSetting(tc) ==
  /\ tc.testVector \in 1..3
  /\ tc.channelWidth \in {80, 160, 320}
  /\ tc.onlyRandomPower \in BOOLEAN
  /\ tc.difference_last_picks \in BOOLEAN

ASSUME MaskAssumption ==
  /\ \A tc \in Setting : IsSetting(tc)
  /\ \A inq \in Inquiry : IsInquiry(inq)
  /\ \A d \in Draw : Cfi[20] \subseteq DOMAIN d /\ \A ch \in Cfi[20] : d[ch] \in Int
-----------------------------------------------------------------------------
(* What an inquiry asks for. *)

\* int() truncates towards zero.
convert_to_ch(freq) ==
  IF freq >= 5950 THEN (freq - 5950) \div 5 ELSE -((5950 - freq) \div 5)

get_cfi_by_inquired_channels_bw(inq, bw) ==
  IF bw \notin DOMAIN inq.chan THEN {}
  ELSE IF inq.chan[bw] = Unlisted THEN Cfi[bw] ELSE inq.chan[bw] \cap Cfi[bw]

\* A 20 MHz channel counts as inquired when its center does.
InquiredBw20(inq) ==
  UNION {{ch \in convert_to_ch(r[1])..convert_to_ch(r[2]) : ch % 4 = 1} : r \in inq.freq}

get_cfi_by_inquired_freq_ranges_bw(inq, bw) ==
  {cfi \in Cfi[bw] : Parts(cfi, bw) \subseteq InquiredBw20(inq)}

is_inquired_freq_range(low, high, inq) ==
  \E r \in inq.freq : low >= r[1] /\ high <= r[2]

\* req_cfi_bwX: the CFIs by channel, or the shorter list by frequency.
Requested(inq, bw) ==
  LET by_chan == get_cfi_by_inquired_channels_bw(inq, bw)
      by_freq == get_cfi_by_inquired_freq_ranges_bw(inq, bw)
      shorter == Cardinality(by_freq) < Cardinality(by_chan)
  IN IF inq.freq # {} /\ (by_chan = {} \/ shorter) THEN by_freq ELSE by_chan

\* The error returns before the vector is built: a kind of inquiry missing,
\* or too few CFIs of the width under test.
TooFew(cfis, bw) == Cardinality(cfis) < (IF bw = 320 THEN 1 ELSE 2)
Refused(inq, tc) ==
  LET bw == tc.channelWidth
  IN \/ /\ tc.testVector \in {1, 3}
        /\ inq.freq = {} \/ TooFew(get_cfi_by_inquired_freq_ranges_bw(inq, bw), bw)
     \/ /\ tc.testVector \in {2, 3}
        /\ DOMAIN inq.chan = {} \/ TooFew(get_cfi_by_inquired_channels_bw(inq, bw), bw)
-----------------------------------------------------------------------------
(* The answer. *)

\* What of a vector is sent: channels of the classes and CFIs inquired, ranges
\* inside the ranges inquired.
Keep(f, S) == [x \in DOMAIN f \cap S |-> f[x]]

FilteredClasses(vec, inq) ==       \* mutant: drops the entry of other classes
  [freq |-> vec.freq, chan |-> [bw \in DOMAIN inq.chan |-> vec.chan[bw]]]

Filtered(vec, inq) ==
  [freq |-> Keep(vec.freq, {ch \in DOMAIN vec.freq :
              is_inquired_freq_range(LowFrequency(ch, 20), HighFrequency(ch, 20), inq)}),
   chan |-> [bw \in Width |->
               IF bw \notin DOMAIN inq.chan THEN Nothing
               ELSE IF inq.chan[bw] \in {Unlisted, {}} THEN vec.chan[bw]
               ELSE Keep(vec.chan[bw], inq.chan[bw])]]
-----------------------------------------------------------------------------
VARIABLES
  setting,          \* the globals that set-response sets
  vectors,          \* vectors["responses"]; Empty while the key is missing
  random_picks,
  sent_response,    \* the response sent to the last inquiry
  inquiry,          \* history: that inquiry
  mask,             \* history: the random_mask that vectors was made of
  requested,        \* history: the CFIs it was built for
  offered           \* history: the 20 MHz channels offered by the picks of the
                    \* setting before, when it was for the same width

vars == <<setting, vectors, random_picks, sent_response, inquiry, mask,
          requested, offered>>

NoLimits == [bw \in Width |-> Nothing]
Empty == [built |-> FALSE, freq |-> Nothing, chan |-> NoLimits]
Sent(code, vec) == [code |-> code, freq |-> vec.freq, chan |-> vec.chan]
NotSent == Sent("none", Empty)
NoInquiry == [chan |-> [bw \in {} |-> {}], freq |-> {}]

\* A function from channels to powers.
IsPower(f) == DOMAIN f \subseteq Int /\ \A ch \in DOMAIN f : f[ch] \in Int

TypeOK ==
  /\ setting \in Setting
  /\ vectors.built \in BOOLEAN
  /\ random_picks \subseteq Int
  /\ sent_response.code \in {"none", "error", "ok"}
  /\ inquiry \in Inquiry \cup {NoInquiry}
  /\ IsPower(mask) /\ IsPower(vectors.freq) /\ IsPower(sent_response.freq)
  /\ DOMAIN vectors.chan = Width /\ DOMAIN sent_response.chan = Width
  /\ \A bw \in Width : IsPower(vectors.chan[bw]) /\ IsPower(sent_response.chan[bw])
  /\ requested \subseteq Int /\ offered \subseteq Int

\* The service has been started and a setting made.
Init ==
  /\ setting \in Setting
  /\ vectors = Empty /\ random_picks = {} /\ sent_response = NotSent
  /\ inquiry = NoInquiry /\ mask = Nothing /\ requested = {} /\ offered = {}

\* set-response clears the vector and the response, never random_picks.
SetResponse(tc) ==
  /\ setting' = tc
  /\ vectors' = Empty
  /\ sent_response' = NotSent
  /\ inquiry' = NoInquiry
  /\ mask' = Nothing /\ requested' = {}
  /\ offered' = IF setting.onlyRandomPower \/ tc.channelWidth # setting.channelWidth
                THEN {} ELSE DOMAIN mask
  /\ UNCHANGED random_picks

PicksAnew(req) ==                  \* mutant: picks without regard to the last ones
  IF setting.onlyRandomPower THEN {random_picks}
  ELSE {S \in SUBSET req : Cardinality(S) = (Cardinality(req) + 1) \div 2}

\* The picks: half of the requested CFIs at random, or those not picked last.
Picks(req) ==
  IF setting.onlyRandomPower THEN {random_picks}
  ELSE IF Cardinality(req) < 2 THEN {req}
  ELSE IF setting.difference_last_picks THEN {req \ random_picks}
  ELSE {S \in SUBSET req : Cardinality(S) = Cardinality(req) \div 2}

MaskChannels(picks) ==
  IF setting.onlyRandomPower THEN Cfi[20]
  ELSE UNION {Parts(cfi, setting.channelWidth) : cfi \in picks}

\* What random.uniform may yield for the width and the phase.
InPsdRange(psd) ==
  IF setting.channelWidth # 320 THEN psd \in 80..220
  ELSE IF setting.difference_last_picks THEN psd \in -50..150
  ELSE psd \in 50..250

build_random_vector(req, picks, power) ==
  LET new == [ch \in MaskChannels(picks) |-> power[ch]]
      vec == Vector(new, setting.testVector)
  IN /\ picks \in Picks(req)
     /\ \A ch \in MaskChannels(picks) : InPsdRange(power[ch])
     /\ random_picks' = picks
     /\ mask' = new /\ requested' = req
     /\ vectors' = [built |-> TRUE, freq |-> vec.freq, chan |-> vec.chan]

\* The handler of an inquiry that is complete otherwise.
Inquire(inq) ==
  /\ inquiry' = inq
  /\ UNCHANGED <<setting, offered>>
  /\ \/ /\ Refused(inq, setting)
        /\ sent_response' = Sent("error", Empty)
        /\ UNCHANGED <<vectors, random_picks, mask, requested>>
     \/ /\ ~Refused(inq, setting)
        /\ \/ /\ vectors.built
              /\ UNCHANGED <<vectors, random_picks, mask, requested>>
           \/ /\ ~vectors.built
              /\ LET req == Requested(inq, setting.channelWidth)
                 IN \E picks \in Picks(req), power \in Draw :
                      build_random_vector(req, picks, power)
        /\ sent_response' = Sent("ok", Filtered(vectors', inq))

Next ==
  \/ \E tc \in Setting : SetResponse(tc)
  \/ \E inq \in Inquiry : Inquire(inq)

Spec == Init /\ [][Next]_vars
-----------------------------------------------------------------------------
\* A wide channel that is granted is granted as a whole, and at its EIRP limit
\* no part of it can exceed what the power of that part allows: the limit is
\* at most the PSD limit of each part over the whole width (up to the rounding
\* of the gain), and never above 36 dBm.
WideWithinParts ==
  \A bw \in Width \ {20} : \A cfi \in DOMAIN sent_response.chan[bw] :
    /\ Parts(cfi, bw) \subseteq DOMAIN mask
    /\ \A ch \in Parts(cfi, bw) : sent_response.chan[bw][cfi] <= mask[ch] + Gain(bw)
    /\ sent_response.chan[bw][cfi] <= MaxEirp

\* Is a channel inside one of the inquired ranges, part by part?
Inside(cfi, bw, inq) ==
  \A ch \in Parts(cfi, bw) :
    is_inquired_freq_range(LowFrequency(ch, 20), HighFrequency(ch, 20), inq)

\* What was picked can be used by the DUT that inquired it: a pick that the
\* inquiry covers is answered with the power of each of its parts, and a pick
\* inquired by channel with its EIRP limit, unless a part was drawn 0.0 dBm.
PicksAreGranted ==
  LET bw == setting.channelWidth
      tv == setting.testVector
  IN sent_response.code = "ok" /\ ~setting.onlyRandomPower =>
       \A cfi \in random_picks :
         /\ tv \in {1, 3} /\ Inside(cfi, bw, inquiry)
              => Parts(cfi, bw) \subseteq DOMAIN sent_response.freq
         /\ tv \in {2, 3} /\ cfi \in get_cfi_by_inquired_channels_bw(inquiry, bw)
              => \/ cfi \in DOMAIN sent_response.chan[bw]
                 \/ \E ch \in Parts(cfi, bw) : mask[ch] = 0

\* The second phase moves the DUT: for widths whose CFIs do not overlap, and a
\* DUT that inquires two channels or more, no 20 MHz channel that the phase
\* before offered is offered again.
NoSharedChannel ==
  /\ setting.difference_last_picks /\ ~setting.onlyRandomPower
  /\ setting.channelWidth # 320
  /\ Cardinality(requested) >= 2
  => (DOMAIN sent_response.freq \cup DOMAIN sent_response.chan[20]) \cap offered = {}
=============================================================================
